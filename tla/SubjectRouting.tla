--------------------------- MODULE SubjectRouting ---------------------------
(***************************************************************************)
(* Which subject a webhook is published to: _resolve_subject,              *)
(* _parse_agent_subject, _parse_task_subject and _slug of                  *)
(* hermes.publisher, and the dead-letter branch of publish().              *)
(*                                                                         *)
(* A text is a sequence of characters, one for each class that _slug       *)
(* treats alike; "hi", "agents", "tasks", "deadletter" and "unknown" stand *)
(* for words and count as one character.  Null stands for every value that *)
(* Python finds false other than the empty text: a missing field, null, 0, *)
(* false, [] and {}.  Any other value is the text that str() makes of it.  *)
(***************************************************************************)
EXTENDS Naturals, FiniteSets, SequencesExt

CONSTANTS
  Characters,    \* the alphabet, words included
  AgentEvents,   \* AGENT_EVENTS, as texts
  TaskEvents,    \* TASK_EVENTS
  Payloads,      \* [event |-> text, data |-> [fields -> texts or Null]]
  SlugMax,       \* _SLUG_MAX_LEN: 64 in the code
  MaxMessages,   \* bound of the model
  Null

Texts == Seq(Characters)
Fields == {"hostId", "host", "name", "teamId", "team_id", "id", "task_id"}

ASSUME BoundsAssumption == SlugMax \in Nat \ {0} /\ MaxMessages \in Nat
ASSUME TextsAssumption ==
  /\ {"hi", ".", "agents", "tasks", "deadletter", "unknown", "-", "a"} \subseteq Characters
  /\ Null \notin Texts
  /\ Payloads \subseteq [event : Texts, data : [Fields -> Texts \cup {Null}]]

VARIABLES
  deadLetter,    \* self._enable_dead_letter
  sent           \* what publish() was given, with the subject it chose

vars == <<deadLetter, sent>>

(* What strip() removes: the space, "\t" for all that NATS takes for a      *)
(* separator too (tab, CR, LF), "\f" for all others (form feed, NBSP...).  *)
Blanks == {" ", "\t", "\f"}
Wildcards == {"*", ">"}
LowerCase(c) == IF c = "A" THEN "a" ELSE c

Unknown == <<"unknown">>        \* the literal token

(* An event is its kind, a dot and a verb, as in the literals of           *)
(* AGENT_EVENTS and TASK_EVENTS.                                           *)
IsEvent(e, kind) ==
  /\ e \in Texts /\ Len(e) = 3 /\ e[1] = kind /\ e[2] = "."
  /\ e[3] \notin Wildcards \cup Blanks \cup {"."}

ASSUME EventsAssumption ==
  /\ \A e \in AgentEvents : IsEvent(e, "agent")
  /\ \A e \in TaskEvents : IsEvent(e, "task")

-----------------------------------------------------------------------------
(***************************************************************************)
(* _slug                                                                   *)
(***************************************************************************)
NotBlank(c) == c \notin Blanks

Strip(text) ==
  IF \A i \in DOMAIN text : text[i] \in Blanks THEN <<>>
  ELSE SubSeq(text, SelectInSeq(text, NotBlank), SelectLastInSeq(text, NotBlank))

Lower(text) == [i \in DOMAIN text |-> LowerCase(text[i])]

Truncate(text) == SubSeq(text, 1, IF Len(text) < SlugMax THEN Len(text) ELSE SlugMax)

(* str.replace(c, "")                                                      *)
Without(text, c) ==
  LET kept[n \in 0..Len(text)] ==
        IF n = 0 THEN <<>>
        ELSE IF text[n] = c THEN kept[n - 1] ELSE Append(kept[n - 1], text[n])
  IN  kept[Len(text)]

(* Faulty: cuts before it drops the wildcards.                             *)
SlugCutEarly(text) ==
  LET dashed == ReplaceAll(ReplaceAll(Strip(text), " ", "-"), ".", "-")
  IN  Lower(Without(Without(Truncate(dashed), "*"), ">"))

Slug(text) ==
  LET dashed == ReplaceAll(ReplaceAll(Strip(text), " ", "-"), ".", "-")
  IN  Truncate(Lower(Without(Without(dashed, "*"), ">")))

-----------------------------------------------------------------------------
(***************************************************************************)
(* _resolve_subject                                                        *)
(***************************************************************************)
Or(value, other) == IF value \in {Null, <<>>} THEN other ELSE value

(* Faulty: only a missing field becomes "unknown".                         *)
TokenOfMissing(value) == Slug(Or(value, Unknown))

Token(value) == Or(Slug(Or(value, Unknown)), Unknown)

Verb(event) ==
  IF Contains(event, ".")
    THEN SubSeq(event, SelectInSeq(event, LAMBDA c : c = ".") + 1, Len(event))
    ELSE event

Subject(family, tokens, verb) ==
  <<"hi", ".", family, ".">> \o tokens[1] \o <<".">> \o tokens[2] \o <<".">> \o verb

(* The two fields that name what an event is about, newest spelling first. *)
Named(p) ==
  IF p.event \in AgentEvents
    THEN << Or(p.data.hostId, p.data.host), p.data.name >>
    ELSE << Or(p.data.teamId, p.data.team_id), Or(p.data.id, p.data.task_id) >>

Tokens(p) == << Token(Named(p)[1]), Token(Named(p)[2]) >>

DeadSubject(event) == <<"hi", ".", "deadletter", ".">> \o Slug(event)

(* GET /events lists them.                                                 *)
KnownEvents == AgentEvents \cup TaskEvents

(* The subject publish() uses, or Null where it raises                     *)
(* UnknownEventTypeError.                                                  *)
SubjectOf(p) ==
  IF p.event \in AgentEvents THEN Subject("agents", Tokens(p), Verb(p.event))
  ELSE IF p.event \in TaskEvents THEN Subject("tasks", Tokens(p), Verb(p.event))
  ELSE IF deadLetter THEN DeadSubject(p.event)
  ELSE Null

-----------------------------------------------------------------------------
Init == deadLetter \in BOOLEAN /\ sent = <<>>

Publish(p) ==
  /\ Len(sent) < MaxMessages
  /\ sent' = Append(sent, [payload |-> p, subject |-> SubjectOf(p)])
  /\ UNCHANGED deadLetter

Next == \E p \in Payloads : Publish(p)

Spec == Init /\ [][Next]_vars

-----------------------------------------------------------------------------
(***************************************************************************)
(* The NATS server: the arguments of PUB are separated by blanks, so a     *)
(* subject that contains one is refused; of the others a stream takes      *)
(* those its filter matches, and an empty token matches none.              *)
(***************************************************************************)
Separators == {" ", "\t"}

OneArgument(s) == \A i \in 1..Len(s) : s[i] \notin Separators

NoEmptyToken(s) ==
  /\ s # <<>> /\ s[1] # "." /\ Last(s) # "."
  /\ \A i \in 1..(Len(s) - 1) : ~(s[i] = "." /\ s[i + 1] = ".")

Streams == {"agents", "tasks", "deadletter"}
Captures(stream, s) ==
  OneArgument(s) /\ NoEmptyToken(s) /\ IsStrictPrefix(<<"hi", ".", stream, ".">>, s)

-----------------------------------------------------------------------------
(***************************************************************************)
(* Properties                                                              *)
(***************************************************************************)
(* What a text says once the characters that cannot be published are taken *)
(* out: the positions that stay, in order.                                 *)
Kept(text) ==
  {i \in DOMAIN text :
     /\ text[i] \notin Wildcards
     /\ \E j \in DOMAIN text : j =< i /\ text[j] \notin Blanks
     /\ \E j \in DOMAIN text : j >= i /\ text[j] \notin Blanks}

Published(c) == IF c \in {" ", "."} THEN "-" ELSE LowerCase(c)

Canonical(text) ==
  LET kept == Kept(text)
      Nth(n) == CHOOSE i \in kept : Cardinality({j \in kept : j =< i}) = n
  IN  [n \in 1..(IF Cardinality(kept) < SlugMax THEN Cardinality(kept) ELSE SlugMax)
         |-> Published(text[Nth(n)])]

NameOf(value) ==
  IF value = Null \/ Canonical(value) = <<>> THEN Unknown ELSE Canonical(value)

(* Whether what can be published of a message makes a subject: not when a  *)
(* tab or line break inside a name is part of it, nor when nothing is left *)
(* of an unknown event.                                                    *)
Routable(p) ==
  IF p.event \in KnownEvents
    THEN \A n \in {1, 2} : OneArgument(NameOf(Named(p)[n]))
    ELSE Canonical(p.event) # <<>> /\ OneArgument(Canonical(p.event))

(* "Messages are never silently dropped due to incomplete payloads": each  *)
(* is kept by exactly one stream, the one of its family, under a subject   *)
(* of the shape its consumers subscribe to, whichever fields are missing   *)
(* or empty and whatever dots, spaces and wildcards they hold.  Those that *)
(* are not routable are kept by none.                                      *)
RetainedOnce ==
  \A i \in DOMAIN sent :
    LET e == sent[i].payload.event
        s == sent[i].subject
        family == IF e \in AgentEvents THEN "agents"
                  ELSE IF e \in TaskEvents THEN "tasks" ELSE "deadletter"
        dots == {n \in DOMAIN s : s[n] = "."}
    IN  s # Null =>
          /\ {st \in Streams : Captures(st, s)} =
               IF Routable(sent[i].payload) THEN {family} ELSE {}
          /\ Cardinality(dots) = (IF family = "deadletter" THEN 2 ELSE 4)
          /\ \A n \in DOMAIN s : s[n] \notin Wildcards \cup {" "}
          /\ Len(s) =< (IF family = "deadletter" THEN 4 + SlugMax
                        ELSE 6 + 2 * SlugMax + Len(e))

(* Two messages share a subject exactly when they report the same verb     *)
(* about the same names, or are unknown events of the same name, where     *)
(* names are compared by what can be published of them: the events of one  *)
(* object arrive together under either spelling of a field, and nothing    *)
(* else is mixed with them.                                                *)
SubjectsIdentify ==
  \A i, j \in DOMAIN sent :
    LET p == sent[i].payload
        q == sent[j].payload
        SameNames == \A n \in {1, 2} : NameOf(Named(p)[n]) = NameOf(Named(q)[n])
    IN  sent[i].subject # Null /\ sent[j].subject # Null =>
          (sent[i].subject = sent[j].subject <=>
             IF p.event \in KnownEvents
               THEN p.event = q.event /\ SameNames
               ELSE q.event \notin KnownEvents /\ Canonical(p.event) = Canonical(q.event))
=============================================================================
