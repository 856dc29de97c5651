-------------------------------- MODULE Usage --------------------------------
(***************************************************************************)
(* How the tokens of a streamed answer are counted: teeStream              *)
(* (internal/gateway/forward.go) keeps the events that mention usage, and  *)
(* the parsers of internal/billing/usage.go take the largest count of each *)
(* kind from them.                                                         *)
(*                                                                         *)
(* A stream is a sequence of lines that all end in LF or all in CRLF.  A   *)
(* line is blank, data with a JSON object, data with [DONE], or another; an *)
(* answer that is not streamed is a line with one JSON document.           *)
(* The three endpoints differ in the names of the fields and in where a    *)
(* nested usage stands: in message, in response or nowhere.                *)
(***************************************************************************)
EXTENDS Naturals, SequencesExt

NoUsage == << >>
Blank == [kind |-> "blank", top |-> NoUsage, nested |-> NoUsage]
Other == [Blank EXCEPT !.kind = "other"]
DoneLine == [Blank EXCEPT !.kind = "done"]
Data(top, nested) == [kind |-> "data", top |-> top, nested |-> nested]
Document(top) == [kind |-> "document", top |-> top, nested |-> NoUsage]

\* The line has the text "usage".
Mentions(line) == line.top # NoUsage \/ line.nested # NoUsage

-----------------------------------------------------------------------------
(* teeStream.                                                              *)

\* flushEvent keeps the event if one of its lines mentions usage.
flushEvent(t) ==
  [usageBuf |-> IF \E i \in DOMAIN t.eventBuf : Mentions(t.eventBuf[i])
                THEN t.usageBuf \o t.eventBuf ELSE t.usageBuf,
   eventBuf |-> << >>]

ReadLine(t, line) ==
  LET u == [t EXCEPT !.eventBuf = Append(@, line)]
  IN  IF line.kind = "blank" THEN flushEvent(u) ELSE u

\* Variant with a bug: what follows the last blank line is dropped.
WithoutLast(t) == t
\* The stream may end without a blank line.
AtEnd(t) == flushEvent(t)

teeStream(lines) ==
  AtEnd(FoldLeft(ReadLine, [usageBuf |-> << >>, eventBuf |-> << >>], lines)).usageBuf

-----------------------------------------------------------------------------
(* The parsers.                                                            *)

\* bytes.Split at two line feeds in a row: a blank line ends a block, but the
\* one of a CRLF stream, which has a carriage return between them, does not.
SplitLine(blocks, line) ==
  IF line.kind = "blank" THEN Append(blocks, << >>)
  ELSE Append(Front(blocks), Append(Last(blocks), line))
Blocks(lines, crlf) ==
  IF crlf THEN <<lines>> ELSE FoldLeft(SplitLine, << << >> >>, lines)

\* Where the data of a block stand.  Its payload is all of them, joined.
DataLines(block) == {i \in DOMAIN block : block[i].kind \in {"data", "done"}}

\* The payload is one object, and so decodes.
Decodes(block) == \E i \in DOMAIN block : DataLines(block) = {i} /\ block[i].kind = "data"

\* The payload is [DONE], which is skipped.
OnlyDone(block) == \E i \in DOMAIN block : DataLines(block) = {i} /\ block[i].kind = "done"

\* There is a payload: if there is none, the buffer is taken for one document.
HasPayloads(lines, crlf) ==
  \E b \in DOMAIN Blocks(lines, crlf) :
    DataLines(Blocks(lines, crlf)[b]) # {} /\ ~OnlyDone(Blocks(lines, crlf)[b])

HasNested(endpoint) == endpoint \in {"messages", "responses"}

\* A nested usage goes before the one on top.
UsageOf(endpoint, line) ==
  IF HasNested(endpoint) /\ line.nested # NoUsage THEN line.nested ELSE line.top

Larger(m, n) == IF n > m THEN n ELSE m
\* Variant with a bug: counts that repeat are added up.
AddUp(u, v) == IF v = NoUsage THEN u ELSE [k \in DOMAIN u |-> u[k] + v[k]]
\* The larger of each count: the output of message_delta is cumulative.
Take(u, v) == IF v = NoUsage THEN u ELSE [k \in DOMAIN u |-> Larger(u[k], v[k])]

Zero == [input |-> 0, output |-> 0, cached |-> 0]

\* A payload that does not decode is passed over.
Frame(endpoint, u, block) ==
  IF Decodes(block)
  THEN Take(u, UsageOf(endpoint, block[CHOOSE i \in DataLines(block) : TRUE])) ELSE u

parseUsage(endpoint, lines, crlf) ==
  CASE HasPayloads(lines, crlf) ->
         FoldLeft(LAMBDA u, block : Frame(endpoint, u, block), Zero, Blocks(lines, crlf))
    [] ~HasPayloads(lines, crlf) ->
         IF Len(lines) = 1 /\ lines[1].kind = "document"
         THEN Take(Zero, UsageOf(endpoint, lines[1])) ELSE Zero

-----------------------------------------------------------------------------
(* What is asked of them.                                                  *)

Endpoints == {"messages", "responses", "chat"}

\* message_start, message_delta, a delta of text, and what surrounds them.
Lines == {Blank, Other, DoneLine, Data(NoUsage, NoUsage),
          Data(NoUsage, [input |-> 2, output |-> 1, cached |-> 1]),
          Data([input |-> 0, output |-> 2, cached |-> 0], NoUsage)}

\* Every event has one data line at most.
WellFormed(lines) ==
  \A i, j \in DataLines(lines) : i < j => \E b \in i..j : lines[b].kind = "blank"

Streams == {lines \in BoundedSeq(Lines, 5) : WellFormed(lines)}

Reported(endpoint, lines) ==
  {UsageOf(endpoint, lines[i]) : i \in {j \in DOMAIN lines : lines[j].kind \in {"data", "document"}}}
    \ {NoUsage}

\* The counts are the largest that the stream reported.
Counted(u, reported) ==
  \A k \in DOMAIN u :
    /\ \A v \in reported : v[k] <= u[k]
    /\ u[k] = 0 \/ \E v \in reported : v[k] = u[k]

\* usage.go:24: a CRLF stream is counted only if one of its events mentions
\* usage.
OneMention(lines) == Cardinality({i \in DOMAIN lines : Mentions(lines[i])}) <= 1

EveryStreamCounted ==
  \A lines \in Streams, endpoint \in Endpoints, crlf \in BOOLEAN :
    (crlf => OneMention(lines)) =>
      Counted(parseUsage(endpoint, teeStream(lines), crlf), Reported(endpoint, lines))

\* An answer that is not streamed goes to the parser as it is.
EveryDocumentCounted ==
  \A top \in {NoUsage, [input |-> 2, output |-> 1, cached |-> 1]}, endpoint \in Endpoints :
    Counted(parseUsage(endpoint, <<Document(top)>>, FALSE),
            Reported(endpoint, <<Document(top)>>))

=============================================================================
