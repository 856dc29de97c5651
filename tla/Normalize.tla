------------------------------ MODULE Normalize ------------------------------
(***************************************************************************)
(* How the gateway rewrites a request before it goes to the relay          *)
(* (internal/gateway/normalize.go), and the requests it turns away         *)
(* (handler.go).  These are pure functions of the request.                 *)
(*                                                                         *)
(* A text is a sequence of bytes.  Scaled down: the fingerprint has three  *)
(* bytes, a character one or two, and SystemLimit is a few.  A JSON value  *)
(* that is a string, an array or missing has its form and its items; the   *)
(* parts of a request that are sent as they came are left out.             *)
(***************************************************************************)
EXTENDS Naturals, SequencesExt

CONSTANTS SystemLimit,   \* systemByteLimit
          PrefixLength   \* the bytes of a value that affinityKey hashes

Fingerprint == <<"F", "i", "n">>
Wide == <<"W", "w">>
Narrow == <<"n">>

ASSUME LimitAssumption ==
  SystemLimit \in Nat /\ SystemLimit >= Len(Fingerprint) /\ PrefixLength \in Nat

textBlock(t) == [type |-> "text", text |-> t]
Plain(t) == [type |-> "string", text |-> t]
Image == [type |-> "image", text |-> << >>]

Absent == [form |-> "absent", items |-> << >>]
Text(t) == [form |-> "string", items |-> <<Plain(t)>>]
List(s) == [form |-> "list", items |-> s]

-----------------------------------------------------------------------------

\* A string is one block, and so is a string in an array.
contentBlocks(v) ==
  [i \in DOMAIN v.items |->
     IF v.items[i].type = "string" THEN textBlock(v.items[i].text) ELSE v.items[i]]

\* The texts that systemHasFingerprint and systemLen see: a string that stands
\* in an array is no block.
SystemTexts(v) ==
  [i \in DOMAIN v.items |->
     IF v.form = "list" /\ v.items[i].type = "string" THEN << >> ELSE v.items[i].text]

Size(texts) == FoldLeft(LAMBDA n, t : n + Len(t), 0, texts)
systemLen(v) == Size(SystemTexts(v))

\* Where the fingerprint ends in a text.
FingerprintEnds(t) == {j \in Len(Fingerprint)..Len(t) :
                         SubSeq(t, j - Len(Fingerprint) + 1, j) = Fingerprint}
systemHasFingerprint(v) ==
  \E i \in DOMAIN v.items : FingerprintEnds(SystemTexts(v)[i]) # {}

\* Variant with a bug: a character may be cut in two.
CutBytes(t, n) == SubSeq(t, 1, n)
\* The longest prefix of whole characters within n bytes.
CutText(t, n) == IF n > 0 /\ t[n] = Head(Wide) THEN SubSeq(t, 1, n - 1)
                 ELSE SubSeq(t, 1, n)

\* The next block, as far as the limit leaves room for it.
KeepBlock(out, block) ==
  LET left == SystemLimit - Size(SystemTexts(List(out)))
      t == IF Len(block.text) <= left THEN block.text ELSE CutText(block.text, left)
  IN  IF t = << >> THEN out ELSE Append(out, textBlock(t))

truncateSystemBlocks(blocks) == FoldLeft(KeepBlock, << >>, blocks)

IsSystem(m) == m.role = "system"

\* The messages at some positions, in their order.
Rank(I, i) == Cardinality({x \in I : x <= i})
At(I, messages) ==
  [j \in 1..Cardinality(I) |-> messages[CHOOSE i \in I : Rank(I, i) = j]]

SystemPart(messages) == At({i \in DOMAIN messages : IsSystem(messages[i])}, messages)
TalkPart(messages) == At({i \in DOMAIN messages : ~IsSystem(messages[i])}, messages)

\* Messages of role system go to the end of the top-level system.
Hoist(req) ==
  LET systems == SystemPart(req.messages)
      hoisted == FlattenSeq([i \in DOMAIN systems |-> contentBlocks(systems[i].content)])
  IN  IF hoisted = << >> THEN req
      ELSE [req EXCEPT !.system = List(contentBlocks(@) \o hoisted),
                       !.messages = TalkPart(@)]

\* claude-* models: the fingerprint, then the limit by cloakMode.
Inject(req) ==
  IF systemHasFingerprint(req.system) THEN req
  ELSE [req EXCEPT !.system = List(<<textBlock(Fingerprint)>> \o contentBlocks(@))]

Cloak(req, cloakMode) ==
  IF systemLen(req.system) <= SystemLimit THEN req
  ELSE [req EXCEPT !.system =
          IF cloakMode = "strict" THEN List(<<textBlock(Fingerprint)>>)
          ELSE List(truncateSystemBlocks(contentBlocks(@)))]

normalizeMessages(req, cloakMode) ==
  LET hoisted == [Hoist(req) EXCEPT !.topP = "absent"]
  IN  IF req.family = "claude" THEN Cloak(Inject(hoisted), cloakMode) ELSE hoisted

\* The string input of a /v1/responses request becomes a message.
WrapInput(req) ==
  IF req.input.form # "string" THEN req
  ELSE [req EXCEPT !.input = List(contentBlocks(@))]

normalize(req, cloakMode) ==
  CASE req.endpoint = "messages"  -> normalizeMessages(req, cloakMode)
    [] req.endpoint = "responses" -> WrapInput(req)
    [] req.endpoint = "chat"      -> req

\* The switch on modelFamily in handleModel.
Routed(req) ==
  /\ req.family = "claude" => req.endpoint = "messages"
  /\ req.family = "gpt" => req.endpoint = "responses"

Prefix(items) ==
  LET bytes == FlattenSeq([i \in DOMAIN items |-> <<items[i].type>> \o items[i].text])
  IN  SubSeq(bytes, 1, IF Len(bytes) < PrefixLength THEN Len(bytes) ELSE PrefixLength)

\* Variant with a bug: the latest message, not the first.
FirstOf(s) == <<s[Len(s)].role, Prefix(s[Len(s)].content.items)>>
FirstMessage(s) == <<s[1].role, Prefix(s[1].content.items)>>

\* Without a prompt_cache_key; hashes are taken to differ when their input does.
affinityKey(sent) ==
  <<sent.family, Prefix(sent.system.items),
    IF sent.messages = << >> THEN << >> ELSE FirstMessage(sent.messages),
    Prefix(sent.input.items)>>

-----------------------------------------------------------------------------
(* What is asked of them.                                                  *)

\* The requests considered.
Texts == {<< >>, Narrow, Wide, Narrow \o Narrow \o Wide, Fingerprint,
          Narrow \o Fingerprint, Fingerprint \o Wide, Narrow \o Fingerprint \o Wide}
Items == {textBlock(t) : t \in Texts} \cup {Plain(Wide), Image}
Systems == {Absent} \cup {Text(t) : t \in Texts}
             \cup {List(s) : s \in BoundedSeq(Items, 2)}
Turns == [role : {"user", "assistant"}, content : {Text(Narrow), List(<<Image>>)}]
SystemTurns ==
  [role : {"system"}, content : {Absent, Text(Wide), Text(Fingerprint),
                                 List(<<textBlock(Narrow), Plain(Wide)>>)}]
Requested ==
  {req \in [endpoint : {"messages"}, family : {"claude", "other"}, system : Systems,
            messages : BoundedSeq(Turns \cup SystemTurns, 2),
            topP : {"absent", "given"}, input : {Absent}]
           \cup
           [endpoint : {"messages", "responses", "chat"},
            family : {"claude", "gpt", "other"}, system : {Absent},
            messages : {<< >>}, topP : {"absent", "given"},
            input : {Absent, Text(Wide), List(<<textBlock(Wide)>>)}] : Routed(req)}
CloakModes == {"relaxed", "strict"}

\* normalize.go:189: the client's own fingerprint comes within the limit, or
\* there is none.  What comes before it is measured as it is cut, strings in an
\* array included, which systemLen leaves out.
FingerprintInTime(req) ==
  LET system == Hoist(req).system
      Before(i) == Size(SystemTexts(List(SubSeq(contentBlocks(system), 1, i - 1))))
  IN  systemHasFingerprint(system) =>
        \E i \in DOMAIN system.items : \E j \in FingerprintEnds(SystemTexts(system)[i]) :
          Before(i) + j <= SystemLimit

Speaks(m) == m.content.items # << >>

\* docs/PROTOCOL.md:112 to 119, and whole characters: no system message with
\* content, no top_p; claude-* with the fingerprint and within the limit, other
\* models with all that the client said in its order.
Acceptable(req, cloakMode) ==
  LET sent == normalize(req, cloakMode)
  IN  /\ \A i \in DOMAIN sent.messages : ~(IsSystem(sent.messages[i]) /\ Speaks(sent.messages[i]))
      /\ sent.topP = "absent"
      /\ \A i \in DOMAIN sent.system.items :
           LET t == sent.system.items[i].text IN t = << >> \/ Last(t) # Head(Wide)
      /\ IF req.family = "claude"
         THEN /\ systemLen(sent.system) <= SystemLimit
              /\ FingerprintInTime(req) => systemHasFingerprint(sent.system)
         ELSE contentBlocks(sent.system) =
                FoldLeft(LAMBDA blocks, m : IF IsSystem(m)
                           THEN blocks \o contentBlocks(m.content) ELSE blocks,
                         contentBlocks(req.system), req.messages)

EveryRequestAcceptable ==
  \A req \in Requested, cloakMode \in CloakModes :
    req.endpoint = "messages" => Acceptable(req, cloakMode)

KeyOf(req, cloakMode) == affinityKey(normalize(req, cloakMode))

EveryTurnKeepsKey ==
  \A req \in Requested, cloakMode \in CloakModes, turn \in Turns :
    req.endpoint = "messages" /\ TalkPart(req.messages) # << >> =>
      KeyOf([req EXCEPT !.messages = Append(@, turn)], cloakMode) = KeyOf(req, cloakMode)

=============================================================================
