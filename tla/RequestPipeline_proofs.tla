----------------------- MODULE RequestPipeline_proofs -----------------------
(***************************************************************************)
(* The pipeline for any finite set of requests, any number of addresses,   *)
(* any limit and window.                                                   *)
(***************************************************************************)
EXTENDS RequestPipeline, FiniteSetTheorems, TLAPS

Identified == {"identified", "routed", "handling"}
AtRoute == {"handling", "done"}

(* Before it is answered a request has no answer, and from                 *)
(* RequestIDMiddleware on one ID under two names.                          *)
IdInv ==
  \A r \in Requests :
    /\ pc[r] # "done" => answer[r] = NoAnswer
    /\ pc[r] \in Identified =>
         localId[r] \in {r} \cup CallerIds /\ stateId[r] = localId[r]

Passed(S) == {s \in S : answer[s].kind # "limited"}

(* Those that got through less than a window before r was charged.         *)
Peers(r) ==
  {s \in Requests :
     /\ key[s] = key[r] /\ answer[s].kind # "limited"
     /\ chargedAt[s] + Window > chargedAt[r] /\ chargedAt[s] =< chargedAt[r]}

(* A charge is made at the route, inside the window it counts in.          *)
ChargesInv ==
  /\ \A k \in Keys : expires[k] =< clock + Window
  /\ \A r \in Requests :
       /\ key[r] \in Keys =>
            /\ pc[r] \in AtRoute
            /\ answer[r].kind \notin {"too_large", "shutting_down"}
            /\ chargedAt[r] =< clock /\ chargedAt[r] < expires[key[r]]
       /\ answer[r].kind = "limited" => key[r] \in Keys /\ answer[r].retryAfter = Window

CountsInv ==
  /\ \A k \in Keys :
       /\ hits[k] = Cardinality(ChargedNow(k))
       /\ Cardinality(Passed(ChargedNow(k))) = IF hits[k] =< Limit THEN hits[k] ELSE Limit
  /\ \A r \in Requests : answer[r].kind = "limited" => Cardinality(Peers(r)) >= Limit

IInv == TypeOK /\ IdInv /\ AnswersCorrelated /\ ChargesInv /\ CountsInv

-----------------------------------------------------------------------------
(***************************************************************************)
(* Initially                                                               *)
(***************************************************************************)
LEMMA InitIInv == Init => IInv
<1> SUFFICES ASSUME Init PROVE IInv
  OBVIOUS
<1> USE DEF Init
<1>1. TypeOK
  <2>1. NoAnswer \in Answers
    BY DEF NoAnswer, Answers
  <2>2. QED
    BY <2>1, NumbersAssumption DEF TypeOK
<1>2. IdInv /\ AnswersCorrelated
  BY DEF IdInv, AnswersCorrelated, Identified
<1>3. \A r \in Requests : key[r] \notin Keys /\ answer[r].kind = "none"
  BY NamesAssumption DEF NoAnswer
<1>4. ChargesInv
  BY <1>3, NumbersAssumption DEF ChargesInv
<1>5. CountsInv
  <2>1. \A k \in Keys : ChargedNow(k) = {} /\ Passed(ChargedNow(k)) = {}
    BY <1>3 DEF ChargedNow, Passed
  <2>2. QED
    BY <1>3, <2>1, FS_EmptySet, NumbersAssumption DEF CountsInv
<1>6. QED
  BY <1>1, <1>2, <1>4, <1>5 DEF IInv

-----------------------------------------------------------------------------
(***************************************************************************)
(* Steps that do not touch the limiter                                     *)
(***************************************************************************)

(* The books of the limiter only depend on who was refused by it.          *)
LEMMA LimiterKept ==
  ASSUME IInv, UNCHANGED limiterVars, clock' \in {clock, clock + 1},
         \A r \in Requests :
           /\ answer'[r].kind = "limited" <=> answer[r].kind = "limited"
           /\ answer[r].kind = "limited" => answer'[r] = answer[r]
           /\ key[r] \in Keys =>
                /\ pc'[r] \in AtRoute
                /\ answer'[r].kind \notin {"too_large", "shutting_down"}
  PROVE  ChargesInv' /\ CountsInv'
<1> USE DEF IInv, limiterVars
<1>1. ChargesInv'
  <2>1. clock \in Nat /\ clock' \in Nat /\ clock =< clock' /\ Window \in Nat
    BY NumbersAssumption DEF TypeOK
  <2>2. \A k \in Keys : expires'[k] =< clock' + Window
    BY <2>1 DEF ChargesInv, TypeOK
  <2>3. ASSUME NEW r \in Requests, key'[r] \in Keys
        PROVE  chargedAt'[r] =< clock' /\ chargedAt'[r] < expires'[key'[r]]
    BY <2>1, <2>3 DEF ChargesInv, TypeOK
  <2>4. QED
    BY <2>2, <2>3 DEF ChargesInv
<1>2. \A k \in Keys : ChargedNow(k)' = ChargedNow(k) /\ Passed(ChargedNow(k))' = Passed(ChargedNow(k))
  BY DEF ChargedNow, Passed
<1>3. \A r \in Requests : Peers(r)' = Peers(r)
  BY DEF Peers
<1>4. CountsInv'
  BY <1>2, <1>3 DEF CountsInv
<1>5. QED
  BY <1>1, <1>4

(* A step that only moves r on, without answering it.                      *)
LEMMA MovesOn ==
  ASSUME IInv, NEW r \in Requests, NEW p \in {"reading", "sized", "identified", "routed", "handling"},
         pc[r] \in {"new", "reading", "sized", "identified", "routed"},
         pc' = [pc EXCEPT ![r] = p], UNCHANGED <<answer, limiterVars, clock>>
  PROVE  ChargesInv' /\ CountsInv'
<1>1. \A q \in Requests : key[q] \in Keys => pc'[q] \in AtRoute
  BY DEF IInv, ChargesInv, TypeOK, AtRoute
<1>2. QED
  BY <1>1, LimiterKept DEF IInv, ChargesInv, TypeOK

(* A step that answers r otherwise than by the limit.                      *)
LEMMA AnswersOnce ==
  ASSUME IInv, NEW r \in Requests, pc[r] # "done", NEW a \in Answers,
         Send(r, a), a.kind # "limited",
         a.kind \in {"too_large", "shutting_down"} => pc[r] # "handling",
         a.header \in {None, r} \cup CallerIds, a.bodyId \in {None, a.header},
         a.header = None => a.kind \in {"too_large", "crashed"},
         a.kind \in {"accepted", "http_error"} => a.bodyId # None,
         path' \in [Requests -> Paths \cup {None}],
         UNCHANGED <<localId, stateId, limiterVars, clock, shutdown>>
  PROVE  IInv'
<1> USE DEF Send
<1>1. TypeOK'
  <2>1. answer' \in [Requests -> Answers] /\ pc' \in [Requests -> {"new", "reading",
          "sized", "identified", "routed", "handling", "done"}]
    BY DEF IInv, TypeOK
  <2>2. QED
    BY <2>1 DEF IInv, TypeOK, limiterVars
<1>2. IdInv' /\ AnswersCorrelated'
  BY DEF IInv, TypeOK, IdInv, AnswersCorrelated, Identified
<1>3. answer[r].kind = "none"
  BY DEF IInv, IdInv, NoAnswer
<1>4. \A q \in Requests : key[q] \in Keys =>
        pc'[q] \in AtRoute /\ answer'[q].kind \notin {"too_large", "shutting_down"}
  BY DEF IInv, TypeOK, ChargesInv, AtRoute
<1>5. ChargesInv' /\ CountsInv'
  BY <1>3, <1>4, LimiterKept DEF IInv, TypeOK
<1>6. QED
  BY <1>1, <1>2, <1>5 DEF IInv

-----------------------------------------------------------------------------
(***************************************************************************)
(* The step that charges a request                                         *)
(***************************************************************************)
LEMMA CountsAreNat ==
  ASSUME NEW S, S \subseteq Requests
  PROVE  IsFiniteSet(S) /\ Cardinality(S) \in Nat
BY RequestsAssumption, FS_Subset, FS_CardinalityType

LEMMA MoreCount ==
  ASSUME NEW S, NEW U, U \subseteq Requests, S \subseteq U, NEW n \in Nat,
         Cardinality(S) >= n
  PROVE  Cardinality(U) >= n
<1>1. IsFiniteSet(U) /\ Cardinality(U) \in Nat /\ Cardinality(S) \in Nat
  BY CountsAreNat
<1>2. Cardinality(S) =< Cardinality(U)
  BY <1>1, FS_Subset
<1>3. QED
  BY <1>1, <1>2

(* What ApplyLimit does to the limiter and to the answer of r.             *)
Charging(r, k) ==
  /\ Charge(r, k)
  /\ \/ hits'[k] =< Limit /\ pc' = [pc EXCEPT ![r] = "handling"] /\ UNCHANGED answer
     \/ /\ hits'[k] > Limit /\ pc' = [pc EXCEPT ![r] = "done"]
        /\ \E a \in Answers : /\ answer' = [answer EXCEPT ![r] = a]
                              /\ a.kind = "limited" /\ a.retryAfter = Window
  /\ UNCHANGED clock

LEMMA ChargedCounts ==
  ASSUME IInv, NEW r \in Requests, pc[r] = "routed", NEW k \in Keys, Charging(r, k)
  PROVE  ChargesInv' /\ CountsInv'
<1> USE DEF IInv, Charging, Charge, Hit
<1>1. /\ key[r] \notin Keys /\ answer[r].kind = "none"
      /\ key'[r] = k /\ chargedAt'[r] = clock
      /\ \A q \in Requests \ {r} : /\ key'[q] = key[q] /\ chargedAt'[q] = chargedAt[q]
                                   /\ answer'[q] = answer[q] /\ pc'[q] = pc[q]
  BY DEF ChargesInv, IdInv, NoAnswer, AtRoute, TypeOK
<1>2. /\ clock \in Nat /\ Window \in Nat \ {0} /\ Limit \in Nat \ {0}
      /\ hits[k] \in Nat /\ expires[k] \in Nat
      /\ \A q \in Requests : chargedAt[q] \in Nat
  BY NumbersAssumption DEF TypeOK
<1>3. /\ hits'[k] = (IF clock >= expires[k] THEN 1 ELSE hits[k] + 1)
      /\ expires'[k] = (IF clock >= expires[k] THEN clock + Window ELSE expires[k])
      /\ \A j \in Keys \ {k} : hits'[j] = hits[j] /\ expires'[j] = expires[j]
  BY DEF WindowOver, TypeOK
<1>4. /\ hits'[k] =< Limit => answer' = answer /\ pc'[r] = "handling"
      /\ hits'[k] > Limit =>
           pc'[r] = "done" /\ answer'[r].kind = "limited" /\ answer'[r].retryAfter = Window
      /\ hits'[k] \in Nat
  BY <1>2, <1>3 DEF TypeOK
<1>5. ChargesInv'
  <2>1. \A j \in Keys : expires'[j] =< clock' + Window
    BY <1>2, <1>3 DEF ChargesInv
  <2>2. ASSUME NEW q \in Requests, q # r, key'[q] \in Keys
        PROVE  chargedAt'[q] =< clock' /\ chargedAt'[q] < expires'[key'[q]]
    <3>1. key[q] \in Keys /\ chargedAt[q] =< clock /\ chargedAt[q] < expires[key[q]]
      BY <1>1, <2>2 DEF ChargesInv
    <3>2. CASE key[q] = k
      BY <1>1, <1>2, <1>3, <2>2, <3>1, <3>2
    <3>3. CASE key[q] # k
      BY <1>1, <1>2, <1>3, <2>2, <3>1, <3>3
    <3>4. QED
      BY <3>2, <3>3
  <2>3. chargedAt'[r] =< clock' /\ chargedAt'[r] < expires'[key'[r]]
    BY <1>1, <1>2, <1>3
  <2>4. /\ pc'[r] \in AtRoute /\ answer'[r].kind \notin {"too_large", "shutting_down"}
        /\ answer'[r].kind = "limited" => answer'[r].retryAfter = Window
    BY <1>1, <1>2, <1>4 DEF AtRoute
  <2>5. QED
    BY <1>1, <2>1, <2>2, <2>3, <2>4 DEF ChargesInv
<1>6. ASSUME NEW j \in Keys, j # k
      PROVE  ChargedNow(j)' = ChargedNow(j) /\ Passed(ChargedNow(j))' = Passed(ChargedNow(j))
  <2>1. ChargedNow(j)' = ChargedNow(j) /\ r \notin ChargedNow(j)
    BY <1>1, <1>3, <1>6 DEF ChargedNow
  <2>2. QED
    BY <1>1, <2>1 DEF Passed, ChargedNow
<1>7. /\ hits'[k] = Cardinality(ChargedNow(k)')
      /\ Cardinality(Passed(ChargedNow(k))') = IF hits'[k] =< Limit THEN hits'[k] ELSE Limit
  <2>1. CASE clock >= expires[k]
    <3>1. ChargedNow(k)' = {r}
      BY <1>1, <1>2, <1>3, <2>1 DEF ChargedNow, ChargesInv
    <3>2. hits'[k] = 1 /\ answer' = answer
      BY <1>2, <1>3, <1>4, <2>1
    <3>3. Passed(ChargedNow(k))' = {r}
      BY <1>1, <3>1, <3>2 DEF Passed
    <3>4. Cardinality({r}) = 1
      BY FS_Singleton
    <3>5. Cardinality(ChargedNow(k)') = 1 /\ Cardinality(Passed(ChargedNow(k))') = 1
      BY <3>1, <3>3, <3>4
    <3>6. hits'[k] = 1 /\ hits'[k] =< Limit
      BY <1>2, <3>2
    <3>7. QED
      BY <3>5, <3>6
  <2>2. CASE ~(clock >= expires[k])
    <3>1. ChargedNow(k)' = ChargedNow(k) \cup {r} /\ r \notin ChargedNow(k)
      BY <1>1, <1>2, <1>3, <2>2 DEF ChargedNow, ChargesInv
    <3>2. hits'[k] = hits[k] + 1 /\ hits[k] = Cardinality(ChargedNow(k))
      BY <1>3, <2>2 DEF CountsInv
    <3>3. IsFiniteSet(ChargedNow(k)) /\ IsFiniteSet(Passed(ChargedNow(k)))
      BY CountsAreNat DEF ChargedNow, Passed
    <3>4. hits'[k] = Cardinality(ChargedNow(k)')
      BY <3>1, <3>2, <3>3, FS_AddElement
    <3>5. Cardinality(Passed(ChargedNow(k))) = IF hits[k] =< Limit THEN hits[k] ELSE Limit
      BY DEF CountsInv
    <3>6. CASE hits'[k] =< Limit
      <4>1. answer' = answer
        BY <1>4, <3>6
      <4>2. Passed(ChargedNow(k))' = Passed(ChargedNow(k)) \cup {r}
        BY <1>1, <3>1, <4>1 DEF Passed
      <4>3. r \notin Passed(ChargedNow(k))
        BY <3>1 DEF Passed
      <4>4. Cardinality(Passed(ChargedNow(k))') = Cardinality(Passed(ChargedNow(k))) + 1
        BY <3>3, <4>2, <4>3, FS_AddElement
      <4>5. QED
        BY <1>2, <3>2, <3>4, <3>5, <3>6, <4>4
    <3>7. CASE ~(hits'[k] =< Limit)
      <4>1. answer'[r].kind = "limited"
        BY <1>2, <1>4, <3>7
      <4>2. Passed(ChargedNow(k))' = Passed(ChargedNow(k))
        BY <1>1, <3>1, <4>1 DEF Passed, ChargedNow
      <4>3. QED
        BY <1>2, <3>2, <3>4, <3>5, <3>7, <4>2
    <3>8. QED
      BY <3>6, <3>7
  <2>3. QED
    BY <2>1, <2>2
<1>8. ASSUME NEW q \in Requests, answer'[q].kind = "limited"
      PROVE  Cardinality(Peers(q)') >= Limit
  <2>1. Peers(q)' \subseteq Requests
    BY DEF Peers
  <2>2. CASE q # r
    <3>1. answer[q].kind = "limited" /\ key[q] \in Keys
      BY <1>1, <1>8, <2>2 DEF ChargesInv
    <3>2. r \notin Peers(q)
      BY <1>1, <3>1 DEF Peers
    <3>3. Peers(q) \subseteq Peers(q)'
      BY <1>1, <2>2, <3>2 DEF Peers
    <3>4. Cardinality(Peers(q)) >= Limit
      BY <3>1 DEF CountsInv
    <3>5. QED
      BY <1>2, <2>1, <3>3, <3>4, MoreCount
  <2>3. CASE q = r
    <3>1. hits'[k] > Limit
      BY <1>1, <1>2, <1>4, <1>8, <2>3
    <3>2. ~(clock >= expires[k]) /\ hits[k] >= Limit
      BY <1>2, <1>3, <3>1
    <3>3. Cardinality(Passed(ChargedNow(k))) >= Limit
      <4>1. Cardinality(Passed(ChargedNow(k))) = IF hits[k] =< Limit THEN hits[k] ELSE Limit
        BY DEF CountsInv
      <4>2. QED
        BY <1>2, <3>2, <4>1
    <3>4. Passed(ChargedNow(k)) \subseteq Peers(r)'
      <4>1. ASSUME NEW s \in Passed(ChargedNow(k))
            PROVE  s \in Peers(r)'
        <5>1. /\ s \in Requests /\ key[s] = k /\ answer[s].kind # "limited"
              /\ chargedAt[s] + Window >= expires[k]
          BY DEF Passed, ChargedNow
        <5>2. s # r /\ chargedAt[s] =< clock
          BY <1>1, <5>1 DEF ChargesInv
        <5>3. chargedAt[s] + Window > clock
          BY <1>2, <3>2, <5>1
        <5>4. QED
          BY <1>1, <5>1, <5>2, <5>3 DEF Peers
      <4>2. QED
        BY <4>1
    <3>5. QED
      BY <1>2, <2>1, <2>3, <3>3, <3>4, MoreCount
  <2>4. QED
    BY <2>2, <2>3
<1>9. CountsInv'
  <2>1. ASSUME NEW j \in Keys
        PROVE  /\ hits'[j] = Cardinality(ChargedNow(j)')
               /\ Cardinality(Passed(ChargedNow(j))') =
                    IF hits'[j] =< Limit THEN hits'[j] ELSE Limit
    <3> HIDE DEF Charging, Charge, Hit
    <3>1. CASE j = k
      BY <1>7, <3>1
    <3>2. CASE j # k
      BY <1>3, <1>6, <3>2 DEF CountsInv
    <3>3. QED
      BY <3>1, <3>2
  <2>2. QED
    BY <1>8, <2>1 DEF CountsInv
<1>10. QED
  BY <1>5, <1>9
-----------------------------------------------------------------------------
(***************************************************************************)
(* Every step                                                              *)
(***************************************************************************)
LEMMA NextIInv == IInv /\ [Next]_vars => IInv'
<1> SUFFICES ASSUME IInv, [Next]_vars PROVE IInv'
  OBVIOUS
<1>1. IInv /\ TypeOK /\ IdInv
  BY DEF IInv
<1>a. ASSUME NEW what \in {"too_large", "crashed"}
      PROVE  LET a == Anonymous(what) IN
               /\ a \in Answers /\ a.kind = what /\ a.header = None /\ a.bodyId = None
  BY NumbersAssumption DEF Anonymous, NoAnswer, Answers
<1>b. ASSUME NEW r \in Requests, NEW what \in {"shutting_down", "accepted", "http_error", "plain"}
      PROVE  LET a == Tagged(r, what) IN LET c == Correlated(r, what) IN
               /\ a \in Answers /\ a.kind = what /\ a.header = localId[r] /\ a.bodyId = None
               /\ c \in Answers /\ c.kind = what /\ c.header = localId[r] /\ c.bodyId = stateId[r]
  BY <1>1, NumbersAssumption DEF Correlated, Tagged, Anonymous, NoAnswer, Answers, TypeOK
<1>c. ASSUME NEW r \in Requests
      PROVE  LET a == Refusal(r) IN
               /\ a \in Answers /\ a.kind = "limited" /\ a.retryAfter = Window
               /\ a.header = localId[r] /\ a.bodyId = None
  BY <1>1, NumbersAssumption DEF Refusal, Tagged, Anonymous, NoAnswer, Answers, TypeOK
<1>2. ASSUME NEW r \in Requests, Declares(r)
      PROVE  IInv'
  <2>1. CASE Send(r, Anonymous("too_large"))
    BY <1>1, <1>2, <1>a, <2>1, AnswersOnce DEF Declares, TypeOK
  <2>2. CASE pc' = [pc EXCEPT ![r] = "reading"] /\ UNCHANGED answer
    <3>1. ChargesInv' /\ CountsInv'
      BY <1>2, <2>2, MovesOn DEF Declares
    <3>2. QED
      BY <1>2, <2>2, <3>1 DEF Declares, IInv, TypeOK, IdInv,
         AnswersCorrelated, Identified, limiterVars
  <2>3. QED
    BY <1>2, <2>1, <2>2 DEF Declares
<1>3. ASSUME NEW r \in Requests, BodyRead(r)
      PROVE  IInv'
  <2>1. CASE Send(r, Anonymous("too_large"))
    BY <1>1, <1>3, <1>a, <2>1, AnswersOnce DEF BodyRead, TypeOK
  <2>2. CASE pc' = [pc EXCEPT ![r] = "sized"] /\ UNCHANGED answer
    <3>1. ChargesInv' /\ CountsInv'
      BY <1>3, <2>2, MovesOn DEF BodyRead
    <3>2. QED
      BY <1>3, <2>2, <3>1 DEF BodyRead, IInv, TypeOK, IdInv,
         AnswersCorrelated, Identified, limiterVars
  <2>3. QED
    BY <1>3, <2>1, <2>2 DEF BodyRead
<1>4. ASSUME NEW r \in Requests, Disconnects(r)
      PROVE  IInv'
  BY <1>1, <1>4, <1>a, AnswersOnce DEF Disconnects, TypeOK
<1>5. ASSUME NEW r \in Requests, AssignId(r)
      PROVE  IInv'
  <2>1. ChargesInv' /\ CountsInv'
    BY <1>5, MovesOn DEF AssignId
  <2>2. QED
    BY <1>5, <2>1 DEF AssignId, IInv, TypeOK, IdInv, AnswersCorrelated,
       Identified, limiterVars, Ids
<1>6. ASSUME NEW r \in Requests, CheckShutdown(r)
      PROVE  IInv'
  <2> PICK p \in Paths :
        /\ path' = [path EXCEPT ![r] = p]
        /\ IF shutdown /\ p = "webhook"
             THEN Send(r, Tagged(r, "shutting_down"))
             ELSE /\ pc' = [pc EXCEPT ![r] = "routed"]
                  /\ UNCHANGED answer
    BY <1>6 DEF CheckShutdown
  <2>1. CASE Send(r, Tagged(r, "shutting_down"))
    <3>1. path' \in [Requests -> Paths \cup {None}] /\ pc[r] = "identified"
      BY <1>1, <1>6 DEF TypeOK, CheckShutdown
    <3>2. localId[r] \in {r} \cup CallerIds /\ localId[r] # None
      BY <1>1, <3>1, NamesAssumption DEF IdInv, Identified, Ids
    <3>3. QED
      BY <1>6, <1>b, <2>1, <3>1, <3>2, AnswersOnce DEF CheckShutdown
  <2>2. CASE pc' = [pc EXCEPT ![r] = "routed"] /\ UNCHANGED answer
    <3>1. ChargesInv' /\ CountsInv'
      BY <1>6, <2>2, MovesOn DEF CheckShutdown
    <3>2. QED
      BY <1>6, <2>2, <3>1 DEF CheckShutdown, IInv, TypeOK, IdInv,
         AnswersCorrelated, Identified, limiterVars
  <2>3. QED
    BY <2>1, <2>2
<1>7. ASSUME NEW r \in Requests, ApplyLimit(r)
      PROVE  IInv'
  <2>1. ASSUME NEW a \in Addresses, path[r] \in LimitedPaths, Charge(r, <<path[r], a>>),
               IF hits'[<<path[r], a>>] > Limit
                 THEN Send(r, Refusal(r))
                 ELSE /\ pc' = [pc EXCEPT ![r] = "handling"]
                      /\ UNCHANGED answer
        PROVE  IInv'
    <3> DEFINE k == <<path[r], a>>
    <3>1. k \in Keys /\ pc[r] = "routed" /\ UNCHANGED <<path, localId, stateId, clock, shutdown>>
      BY <1>7, <2>1 DEF Keys, ApplyLimit
    <3>2. hits'[k] \in Nat /\ hits' \in [Keys -> Nat] /\ expires' \in [Keys -> Nat]
      BY <1>1, <2>1, <3>1, NumbersAssumption DEF Charge, Hit, TypeOK
    <3>3. key' \in [Requests -> Keys \cup {None}] /\ chargedAt' \in [Requests -> Nat]
      BY <1>1, <2>1, <3>1 DEF Charge, TypeOK
    <3>4. localId[r] \in {r} \cup CallerIds /\ localId[r] # None
      BY <1>1, <3>1, NamesAssumption DEF IdInv, Identified, Ids
    <3>5. CASE hits'[k] > Limit
      <4>1. Send(r, Refusal(r))
        BY <2>1, <3>5
      <4>2. Charging(r, k)
        BY <1>c, <2>1, <3>1, <3>5, <4>1 DEF Charging, Send
      <4>3. ChargesInv' /\ CountsInv'
        BY <3>1, <4>2, ChargedCounts
      <4>4. pc' \in [Requests -> {"new", "reading", "sized", "identified", "routed",
                                  "handling", "done"}] /\ answer' \in [Requests -> Answers]
        BY <1>1, <1>c, <4>1 DEF Send, TypeOK
      <4>5. TypeOK'
        BY <1>1, <3>1, <3>2, <3>3, <4>4 DEF TypeOK
      <4>6. IdInv' /\ AnswersCorrelated'
        BY <1>1, <1>c, <3>1, <3>4, <4>1
           DEF Send, IInv, TypeOK, IdInv, AnswersCorrelated, Identified
      <4>7. QED
        BY <4>3, <4>5, <4>6 DEF IInv
    <3>6. CASE ~(hits'[k] > Limit)
      <4>1. pc' = [pc EXCEPT ![r] = "handling"] /\ UNCHANGED answer
        BY <2>1, <3>6
      <4>2. Charging(r, k)
        BY <2>1, <3>1, <3>2, <3>6, <4>1, NumbersAssumption DEF Charging
      <4>3. ChargesInv' /\ CountsInv'
        BY <3>1, <4>2, ChargedCounts
      <4>4. TypeOK'
        BY <1>1, <3>1, <3>2, <3>3, <4>1 DEF TypeOK
      <4>5. IdInv' /\ AnswersCorrelated'
        BY <3>1, <4>1 DEF IInv, TypeOK, IdInv, AnswersCorrelated, Identified
      <4>6. QED
        BY <4>3, <4>4, <4>5 DEF IInv
    <3>7. QED
      BY <3>5, <3>6
  <2>2. CASE pc' = [pc EXCEPT ![r] = "handling"] /\ UNCHANGED <<answer, limiterVars>>
    <3>1. ChargesInv' /\ CountsInv'
      BY <1>7, <2>2, MovesOn DEF ApplyLimit
    <3>2. QED
      BY <1>7, <2>2, <3>1 DEF ApplyLimit, IInv, TypeOK, IdInv,
         AnswersCorrelated, Identified, limiterVars
  <2>3. QED
    BY <1>7, <2>1, <2>2 DEF ApplyLimit
<1>8. ASSUME NEW r \in Requests, HandleWithId(r)
      PROVE  IInv'
  <2>1. Send(r, Correlated(r, "accepted")) \/ Send(r, Correlated(r, "http_error"))
    BY <1>8 DEF HandleWithId
  <2>2. localId[r] \in {r} \cup CallerIds /\ localId[r] # None /\ stateId[r] = localId[r]
    BY <1>1, <1>8, NamesAssumption DEF HandleWithId, IdInv, Identified, Ids
  <2>3. /\ pc[r] = "handling" /\ path' \in [Requests -> Paths \cup {None}]
        /\ UNCHANGED <<localId, stateId, limiterVars, clock, shutdown>>
    BY <1>1, <1>8 DEF HandleWithId, TypeOK
  <2>4. ASSUME NEW what \in {"accepted", "http_error"}, Send(r, Correlated(r, what))
        PROVE  IInv'
    <3> DEFINE a == Correlated(r, what)
    <3>1. /\ a \in Answers /\ a.kind = what /\ a.header = localId[r] /\ a.bodyId = stateId[r]
      BY <1>b
    <3>2. Send(r, a)
      BY <2>4
    <3> HIDE DEF a
    <3>3. QED
      BY <2>2, <2>3, <3>1, <3>2, AnswersOnce
  <2>5. QED
    BY <2>1, <2>4
<1>9. ASSUME NEW r \in Requests, HandlePlain(r)
      PROVE  IInv'
  <2>1. localId[r] \in {r} \cup CallerIds /\ localId[r] # None
    BY <1>1, <1>9, NamesAssumption DEF HandlePlain, IdInv, Identified, Ids
  <2> DEFINE a == Tagged(r, "plain")
  <2>2. a \in Answers /\ a.kind = "plain" /\ a.header = localId[r] /\ a.bodyId = None
    BY <1>b
  <2>3. /\ pc[r] = "handling" /\ Send(r, a) /\ path' \in [Requests -> Paths \cup {None}]
        /\ UNCHANGED <<localId, stateId, limiterVars, clock, shutdown>>
    BY <1>1, <1>9 DEF HandlePlain, TypeOK
  <2> HIDE DEF a
  <2>4. QED
    BY <2>1, <2>2, <2>3, AnswersOnce
<1>10. ASSUME NEW r \in Requests, Crashes(r)
      PROVE  IInv'
  <2> DEFINE a == Anonymous("crashed")
  <2>1. a \in Answers /\ a.kind = "crashed" /\ a.header = None /\ a.bodyId = None
    BY <1>a
  <2>2. /\ pc[r] = "handling" /\ Send(r, a) /\ path' \in [Requests -> Paths \cup {None}]
        /\ UNCHANGED <<localId, stateId, limiterVars, clock, shutdown>>
    BY <1>1, <1>10 DEF Crashes, TypeOK
  <2> HIDE DEF a
  <2>3. QED
    BY <2>1, <2>2, AnswersOnce
<1>11. CASE Tick \/ OnShutdownSignal \/ UNCHANGED vars
  <2>1. UNCHANGED <<requestVars, limiterVars>> /\ clock' \in {clock, clock + 1}
        /\ shutdown' \in BOOLEAN
    BY <1>1, <1>11 DEF Tick, OnShutdownSignal, vars, TypeOK
  <2>2. ChargesInv' /\ CountsInv'
    BY <1>1, <2>1, LimiterKept DEF IInv, ChargesInv, requestVars
  <2>3. QED
    BY <1>1, <2>1, <2>2 DEF IInv, TypeOK, IdInv, AnswersCorrelated,
       requestVars, limiterVars
<1>12. QED
  BY <1>2, <1>3, <1>4, <1>5, <1>6, <1>7, <1>8, <1>9, <1>10, <1>11 DEF Next, Step

LEMMA Invariance == Spec => []IInv
BY InitIInv, NextIInv, PTL DEF Spec

-----------------------------------------------------------------------------
(***************************************************************************)
(* Theorems                                                                *)
(***************************************************************************)

(* The limiter's counters, the IDs and the answers stay of their types.    *)
THEOREM TypeCorrect == Spec => []TypeOK
BY Invariance, PTL DEF IInv

(* The ID in a body is the one in the header, the sender's own or the      *)
(* request's UUID and no other request's, however requests interleave.     *)
THEOREM AnswersAreCorrelated == Spec => []AnswersCorrelated
BY Invariance, PTL DEF IInv

(* The quota of an address counts the requests that reached the route,     *)
(* each once, and lets at most Limit of them through in a window.          *)
THEOREM QuotaIsExact == Spec => []QuotaExact
<1>1. IInv => QuotaExact
  <2> SUFFICES ASSUME IInv, NEW k \in Keys
               PROVE  /\ hits[k] = Cardinality({r \in ChargedNow(k) :
                             answer[r].kind \notin {"too_large", "shutting_down"}})
                      /\ Cardinality({r \in ChargedNow(k) : answer[r].kind # "limited"}) =< Limit
    BY DEF QuotaExact
  <2>1. {r \in ChargedNow(k) : answer[r].kind \notin {"too_large", "shutting_down"}}
          = ChargedNow(k)
    BY DEF IInv, ChargesInv, ChargedNow
  <2>2. hits[k] = Cardinality(ChargedNow(k))
    BY DEF IInv, CountsInv
  <2>3. hits[k] \in Nat /\ Limit \in Nat
    BY NumbersAssumption DEF IInv, TypeOK
  <2>4. Cardinality(Passed(ChargedNow(k))) = IF hits[k] =< Limit THEN hits[k] ELSE Limit
    BY DEF IInv, CountsInv
  <2>5. Cardinality(Passed(ChargedNow(k))) =< Limit
    BY <2>3, <2>4
  <2>6. QED
    BY <2>1, <2>2, <2>5 DEF Passed
<1>2. QED
  BY <1>1, Invariance, PTL

(* A sender that waits for Retry-After is refused again only if Limit      *)
(* other requests got through in the meantime.                             *)
THEOREM RetryAfterIsHonest == Spec => []RetryAfterSuffices
<1>1. IInv => RetryAfterSuffices
  <2> SUFFICES ASSUME IInv, NEW q \in Requests, NEW r \in Requests,
                      answer[q].kind = "limited", answer[r].kind = "limited",
                      key[q] = key[r],
                      chargedAt[r] >= chargedAt[q] + answer[q].retryAfter
               PROVE  Cardinality({s \in Requests :
                        /\ key[s] = key[r] /\ answer[s].kind # "limited"
                        /\ chargedAt[q] < chargedAt[s] /\ chargedAt[s] =< chargedAt[r]})
                        >= Limit
    BY DEF RetryAfterSuffices
  <2> DEFINE U == {s \in Requests :
                     /\ key[s] = key[r] /\ answer[s].kind # "limited"
                     /\ chargedAt[q] < chargedAt[s] /\ chargedAt[s] =< chargedAt[r]}
  <2>1. Window \in Nat /\ Limit \in Nat /\ \A s \in Requests : chargedAt[s] \in Nat
    BY NumbersAssumption DEF IInv, TypeOK
  <2>2. chargedAt[r] >= chargedAt[q] + Window
    BY DEF IInv, ChargesInv
  <2>3. Peers(r) \subseteq U
    BY <2>1, <2>2 DEF Peers
  <2>4. Cardinality(Peers(r)) >= Limit
    BY DEF IInv, CountsInv
  <2>5. U \subseteq Requests
    OBVIOUS
  <2>6. Cardinality(U) >= Limit
    <3> HIDE DEF U
    <3> QED
      BY <2>1, <2>3, <2>4, <2>5, MoreCount
  <2>7. QED
    BY <2>6
<1>2. QED
  BY <1>1, Invariance, PTL
=============================================================================
