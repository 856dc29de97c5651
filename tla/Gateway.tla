------------------------------- MODULE Gateway -------------------------------
(***************************************************************************)
(* What Handler.handleModel makes of a request around the forwarding loop: *)
(* Normalize before it, Usage as the answer streams by.  The loop sends    *)
(* the same body at every try and reads nothing of the stream, so bodies   *)
(* and streams are no part of its state: the properties here ask for each  *)
(* request at a step of Forward what holds of every body it may have.      *)
(***************************************************************************)
EXTENDS Forward, Normalize, Usage

\* What a request sends is what the relay asks for (docs/PROTOCOL.md:112),
\* whatever the client sent: with the fingerprint whole unless the client has
\* put its own too late, cut at whole characters, and nothing lost of what the
\* limit does not concern.
RelayAccepts ==
  \A r \in Requests : pc[r] = "send" => EveryRequestAcceptable

\* docs/PROTOCOL.md:131: a conversation is looked up under one key, though
\* each of its turns is normalised again with more messages.
ConversationSticks ==
  \A r \in Requests : pc[r] = "pick" => EveryTurnKeepsKey

\* What is billed of an answer that has been passed on is the largest of each
\* count it reported, wherever the events of a stream begin and end.
StreamsCounted ==
  \A r \in Requests : pc[r] = "unwind" /\ status[r] = "ok" =>
    EveryStreamCounted /\ EveryDocumentCounted

=============================================================================
