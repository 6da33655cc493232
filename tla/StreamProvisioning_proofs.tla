---------------------- MODULE StreamProvisioning_proofs ----------------------
(***************************************************************************)
(* For any instances, any list of streams and any retention settings: what *)
(* an instance has recorded exists, in order, with a retention that was    *)
(* asked for; and only an old update performed late takes it away from a   *)
(* stream that is as all of them want it.                                  *)
(***************************************************************************)
EXTENDS StreamProvisioning, TLAPS

(* The streams before the one an instance is at are recorded.              *)
Behind ==
  \A i \in Instances : \A j \in 1..Len(Order) :
    pc[i] # "idle" /\ j < at[i] => Order[j] \in names[i]

(* Streams are only updated after they have been seen, and stay.           *)
UpdatesFindTheirStream ==
  /\ \A i \in Instances : pc[i] = "update" => streams[Current(i)] # Absent
  /\ \A m \in late : m.op = "update" => streams[m.stream] # Absent

(* Whatever is still to be performed is something an instance wants, or    *)
(* wanted before its setting was changed.                                  *)
LateIsWanted == \A m \in late : m.age \in EverWanted(m.stream)

IInv ==
  TypeOK /\ NoHoles /\ Behind /\ RecordedExist /\ UpdatesFindTheirStream
    /\ LateIsWanted /\ RetentionHolds

-----------------------------------------------------------------------------
LEMMA OrderFacts ==
  /\ Len(Order) \in Nat
  /\ \A k \in 1..Len(Order) : Order[k] \in Streams
  /\ \A j, k \in 1..Len(Order) : Order[j] = Order[k] => j = k
BY OrderAssumption DEF Streams

(* A desired retention is one, and is never the absence of the stream.     *)
LEMMA DesiredIsAge ==
  ASSUME TypeOK, NEW i \in Instances, NEW s
  PROVE  Desired(i, s) \in Ages /\ Desired(i, s) # Absent
BY AgesAssumption DEF TypeOK, Desired

LEMMA EverWantedIsAge ==
  ASSUME TypeOK, NEW s
  PROVE  EverWanted(s) \subseteq Ages /\ Absent \notin EverWanted(s)
<1>1. \A i \in Instances : Desired(i, s) \in Ages
  BY DesiredIsAge
<1>2. EverWanted(s) \subseteq Ages
  BY <1>1 DEF EverWanted, TypeOK
<1>3. QED
  BY <1>2, AgesAssumption

LEMMA DesiredIsEverWanted ==
  ASSUME NEW i \in Instances, NEW s
  PROVE  Desired(i, s) \in EverWanted(s)
BY DEF EverWanted

(* What was wanted stays something that was wanted.                        *)
LEMMA EverWantedGrows ==
  ASSUME TypeOK, [Next]_vars, NEW s
  PROVE  EverWanted(s) \subseteq EverWanted(s)' /\ past' \subseteq Ages
         /\ ttl' \in [Instances -> Ages]
<1>1. CASE UNCHANGED <<ttl, past>>
  BY <1>1 DEF EverWanted, Desired, TypeOK
<1>2. ASSUME NEW i \in Instances, Restart(i)
      PROVE  EverWanted(s) \subseteq EverWanted(s)' /\ past' \subseteq Ages
             /\ ttl' \in [Instances -> Ages]
  <2>1. PICK a \in Ages :
          /\ ttl' = [ttl EXCEPT ![i] = a]
          /\ past' = IF a = ttl[i] THEN past ELSE past \cup {ttl[i]}
    BY <1>2 DEF Restart
  <2>2. ttl \in [Instances -> Ages] /\ past \subseteq Ages
    BY DEF TypeOK
  <2>3. past' \subseteq Ages /\ ttl' \in [Instances -> Ages] /\ past \subseteq past'
    BY <2>1, <2>2
  <2>4. ASSUME NEW j \in Instances PROVE ttl[j] \in past' \/ ttl[j] = ttl'[j]
    BY <2>1, <2>2
  <2>5. ASSUME NEW j \in Instances PROVE Desired(j, s) \in EverWanted(s)'
    <3>1. CASE s = DeadLetter
      BY <3>1, <2>4 DEF Desired, EverWanted
    <3>2. CASE s # DeadLetter
      BY <3>2 DEF Desired, EverWanted
    <3>3. QED
      BY <3>1, <3>2
  <2>6. QED
    BY <2>3, <2>5 DEF EverWanted
<1>3. QED
  BY <1>1, <1>2
  DEF Next, Answered, Begin, FindsNone, FindsDesired, FindsOther, Adds, AddRefused,
      Updates, Raises, LateCall, vars

LEMMA CurrentIsStream ==
  ASSUME TypeOK, NEW i \in Instances, pc[i] # "idle"
  PROVE  at[i] \in 1..Len(Order) /\ Current(i) = Order[at[i]] /\ Current(i) \in Streams
BY OrderFacts DEF TypeOK, Current

-----------------------------------------------------------------------------
(***************************************************************************)
(* What the steps do to the streams, to the instances and to the late      *)
(* calls, each looked at on its own.                                       *)
(***************************************************************************)

(* A stream only changes to what some instance wants, or wanted, of it.    *)
StreamsBecomeWanted ==
  \A s \in Streams : streams'[s] = streams[s] \/ streams'[s] \in EverWanted(s)

LEMMA StepsWriteWanted ==
  ASSUME IInv, [Next]_vars
  PROVE  /\ StreamsBecomeWanted
         /\ streams' \in [Streams -> Ages \cup {Absent}]
<1>1. ASSUME NEW i \in Instances, Adds(i) \/ Updates(i)
      PROVE  StreamsBecomeWanted /\ streams' \in [Streams -> Ages \cup {Absent}]
  <2>1. pc[i] # "idle"
    BY <1>1 DEF Adds, Updates
  <2>2. Current(i) \in Streams
    BY <2>1, CurrentIsStream DEF IInv
  <2>3. streams' = [streams EXCEPT ![Current(i)] = Desired(i, Current(i))]
    BY <1>1 DEF Adds, Updates
  <2>4. Desired(i, Current(i)) \in Ages /\ Desired(i, Current(i)) \in EverWanted(Current(i))
    BY DesiredIsAge, DesiredIsEverWanted DEF IInv
  <2>5. QED
    BY <2>2, <2>3, <2>4 DEF StreamsBecomeWanted, IInv, TypeOK
<1>2. ASSUME NEW m \in late, LateCall(m)
      PROVE  StreamsBecomeWanted /\ streams' \in [Streams -> Ages \cup {Absent}]
  <2>1. m.age \in EverWanted(m.stream)
    BY DEF IInv, LateIsWanted
  <2>2. m.stream \in Streams /\ m.age \in Ages
    BY DEF IInv, TypeOK, Requests
  <2>3. streams' = streams \/ streams' = [streams EXCEPT ![m.stream] = m.age]
    BY <1>2 DEF LateCall
  <2>4. QED
    BY <2>1, <2>2, <2>3 DEF StreamsBecomeWanted, IInv, TypeOK
<1>3. UNCHANGED streams
        => StreamsBecomeWanted /\ streams' \in [Streams -> Ages \cup {Absent}]
  BY DEF StreamsBecomeWanted, IInv, TypeOK
<1>4. QED
  BY <1>1, <1>2, <1>3
  DEF Next, Answered, Begin, FindsNone, FindsDesired, FindsOther, Adds, AddRefused,
      Updates, Raises, Restart, LateCall, vars

(* A stream that exists exists for good.                                   *)
LEMMA StreamsStay ==
  ASSUME IInv, [Next]_vars, NEW s \in Streams, streams[s] # Absent
  PROVE  streams'[s] # Absent
<1>1. CASE streams'[s] = streams[s]
  BY <1>1
<1>2. CASE streams'[s] \in EverWanted(s)
  BY <1>2, EverWantedIsAge DEF IInv
<1>3. QED
  BY <1>1, <1>2, StepsWriteWanted DEF StreamsBecomeWanted

(* Where the instances agree, the wanted retention is only taken away by   *)
(* an update that was asked for under a setting of the past.               *)
OldUpdate(s, i) ==
  \E m \in late : /\ m.op = "update" /\ m.stream = s
                  /\ m.age \in past \ {Desired(i, s)}
                  /\ late' = late \ {m}

LEMMA WantedStays ==
  ASSUME IInv, [Next]_vars, NEW s \in Streams, NEW i \in Instances,
         Agreed(s), streams[s] = Desired(i, s), streams'[s] # streams[s]
  PROVE  OldUpdate(s, i)
<1>1. ASSUME NEW j \in Instances, Adds(j) \/ Updates(j) PROVE FALSE
  <2>1. pc[j] # "idle"
    BY <1>1 DEF Adds, Updates
  <2>2. Current(j) \in Streams
    BY <2>1, CurrentIsStream DEF IInv
  <2>3. streams' = [streams EXCEPT ![Current(j)] = Desired(j, Current(j))]
    BY <1>1 DEF Adds, Updates
  <2>4. s = Current(j) /\ streams'[s] = Desired(j, s)
    BY <2>2, <2>3 DEF IInv, TypeOK
  <2>5. QED
    BY <2>4 DEF Agreed
<1>2. ASSUME NEW m \in late, LateCall(m) PROVE OldUpdate(s, i)
  <2>1. streams \in [Streams -> Ages \cup {Absent}] /\ m.stream \in Streams
    BY DEF IInv, TypeOK, Requests
  <2>2. /\ m.stream = s /\ streams'[s] = m.age
        /\ m.op = "update" \/ streams[s] = Absent
    BY <1>2, <2>1 DEF LateCall
  <2>3. m.op = "update"
    BY <2>2, DesiredIsAge DEF IInv
  <2>4. m.age \in EverWanted(s)
    BY <2>2 DEF IInv, LateIsWanted
  <2>5. \A j \in Instances : m.age # Desired(j, s)
    BY <2>2 DEF Agreed
  <2>6. m.age \in past
    BY <2>4, <2>5 DEF EverWanted
  <2>7. late' = late \ {m}
    BY <1>2 DEF LateCall
  <2>8. QED
    BY <2>2, <2>3, <2>5, <2>6, <2>7 DEF OldUpdate
<1>3. QED
  BY <1>1, <1>2
  DEF Next, Answered, Begin, FindsNone, FindsDesired, FindsOther, Adds, AddRefused,
      Updates, Raises, Restart, LateCall, vars

-----------------------------------------------------------------------------
LEMMA AdvanceFrame ==
  ASSUME IInv, NEW i \in Instances, pc[i] # "idle", Advance(i)
  PROVE  /\ at[i] \in 1..Len(Order)
         /\ names' = [names EXCEPT ![i] = @ \cup {Order[at[i]]}]
         /\ \/ /\ at[i] < Len(Order)
               /\ at' = [at EXCEPT ![i] = at[i] + 1]
               /\ pc' = [pc EXCEPT ![i] = "info"]
            \/ /\ at[i] = Len(Order)
               /\ at' = [at EXCEPT ![i] = 1]
               /\ pc' = [pc EXCEPT ![i] = "idle"]
BY CurrentIsStream DEF Advance, IInv

(* Going on keeps the types and the order of what is recorded.             *)
LEMMA AdvanceKeepsOrder ==
  ASSUME IInv, NEW i \in Instances, pc[i] # "idle", Advance(i)
  PROVE  /\ pc' \in [Instances -> {"idle", "info", "add", "update"}]
         /\ at' \in [Instances -> Nat]
         /\ \A h \in Instances : pc'[h] = "idle" => at'[h] = 1
         /\ \A h \in Instances : pc'[h] # "idle" => at'[h] \in 1..Len(Order)
         /\ names' \in [Instances -> SUBSET Streams]
         /\ NoHoles' /\ Behind'
<1>1. /\ at[i] \in 1..Len(Order) /\ Len(Order) \in Nat
      /\ Order[at[i]] \in Streams
  BY AdvanceFrame, OrderFacts
<1>2. names' = [names EXCEPT ![i] = @ \cup {Order[at[i]]}]
  BY AdvanceFrame
<1>3. names \in [Instances -> SUBSET Streams]
      /\ pc \in [Instances -> {"idle", "info", "add", "update"}]
      /\ at \in [Instances -> Nat]
  BY DEF IInv, TypeOK
<1>4. \/ /\ at[i] < Len(Order)
         /\ at' = [at EXCEPT ![i] = at[i] + 1]
         /\ pc' = [pc EXCEPT ![i] = "info"]
      \/ /\ at[i] = Len(Order)
         /\ at' = [at EXCEPT ![i] = 1]
         /\ pc' = [pc EXCEPT ![i] = "idle"]
  BY AdvanceFrame
<1>5. /\ pc' \in [Instances -> {"idle", "info", "add", "update"}]
      /\ at' \in [Instances -> Nat]
      /\ \A h \in Instances : pc'[h] = "idle" => at'[h] = 1
      /\ \A h \in Instances : pc'[h] # "idle" => at'[h] \in 1..Len(Order)
  <2>1. pc' \in [Instances -> {"idle", "info", "add", "update"}] /\ at' \in [Instances -> Nat]
    <3>1. pc' \in [Instances -> {"idle", "info", "add", "update"}]
      BY <1>3, <1>4
    <3>2. at[i] + 1 \in Nat
      BY <1>1
    <3>3. at' \in [Instances -> Nat]
      BY <1>3, <1>4, <3>2
    <3>4. QED
      BY <3>1, <3>3
  <2>2. ASSUME NEW h \in Instances
        PROVE  (pc'[h] = "idle" => at'[h] = 1) /\ (pc'[h] # "idle" => at'[h] \in 1..Len(Order))
    <3>1. CASE h = i
      BY <1>1, <1>3, <1>4, <3>1
    <3>2. CASE h # i
      BY <1>3, <1>4, <3>2 DEF IInv, TypeOK
    <3>3. QED
      BY <3>1, <3>2
  <2>3. QED
    BY <2>1, <2>2
<1>6. names' \in [Instances -> SUBSET Streams]
  BY <1>1, <1>2, <1>3
<1>7. NoHoles'
  <2> SUFFICES ASSUME NEW h \in Instances, NEW k \in 1..Len(Order), Order[k] \in names'[h],
                      NEW j \in 1..k
               PROVE  Order[j] \in names'[h]
    BY DEF NoHoles
  <2>1. CASE Order[k] \in names[h]
    BY <2>1, <1>2, <1>3 DEF IInv, NoHoles
  <2>2. CASE Order[k] \notin names[h]
    <3>1. h = i /\ Order[k] = Order[at[i]]
      BY <2>2, <1>2, <1>3
    <3>2. k = at[i]
      BY <3>1, <1>1, OrderFacts
    <3>3. CASE j = k
      BY <3>3
    <3>4. CASE j < k
      BY <3>1, <3>2, <3>4, <1>1, <1>2, <1>3 DEF IInv, Behind
    <3>5. QED
      BY <3>3, <3>4, <1>1
  <2>3. QED
    BY <2>1, <2>2
<1>8. Behind'
  <2> SUFFICES ASSUME NEW h \in Instances, NEW j \in 1..Len(Order), pc'[h] # "idle",
                      j < at'[h]
               PROVE  Order[j] \in names'[h]
    BY DEF Behind
  <2>1. CASE h # i
    <3>1. pc'[h] = pc[h] /\ at'[h] = at[h] /\ names'[h] = names[h]
      BY <2>1, <1>2, <1>3, <1>4
    <3>2. QED
      BY <3>1 DEF IInv, Behind
  <2>2. CASE h = i
    <3>1. at'[i] = at[i] + 1
      BY <2>2, <1>3, <1>4
    <3>2. j = at[i] \/ j < at[i]
      BY <3>1, <2>2, <1>1
    <3>3. QED
      BY <3>2, <2>2, <1>2, <1>3 DEF IInv, Behind
  <2>3. QED
    BY <2>1, <2>2
<1>9. QED
  BY <1>5, <1>6, <1>7, <1>8

(* A step that records nothing, and stays at its stream or starts over.    *)
StaysOrStartsOver(i, p) ==
  /\ p \in {"idle", "info", "add", "update"}
  /\ pc' = [pc EXCEPT ![i] = p]
  /\ names' = names \/ (names' = [names EXCEPT ![i] = {}] /\ p = "idle")
  /\ \/ at' = [at EXCEPT ![i] = 1] /\ (p # "idle" => Order # <<>>)
     \/ at' = at /\ pc[i] # "idle" /\ p # "idle"

LEMMA NoRecordKeepsOrder ==
  ASSUME IInv, NEW i \in Instances, NEW p, StaysOrStartsOver(i, p)
  PROVE  /\ pc' \in [Instances -> {"idle", "info", "add", "update"}]
         /\ at' \in [Instances -> Nat]
         /\ \A h \in Instances : pc'[h] = "idle" => at'[h] = 1
         /\ \A h \in Instances : pc'[h] # "idle" => at'[h] \in 1..Len(Order)
         /\ names' \in [Instances -> SUBSET Streams]
         /\ NoHoles' /\ Behind'
<1> USE DEF StaysOrStartsOver
<1>1. names \in [Instances -> SUBSET Streams]
      /\ pc \in [Instances -> {"idle", "info", "add", "update"}]
      /\ at \in [Instances -> Nat]
  BY DEF IInv, TypeOK
<1>2. p # "idle" => at'[i] \in 1..Len(Order)
  <2>1. Order # <<>> => 1 \in 1..Len(Order)
    BY OrderAssumption
  <2>2. QED
    BY <1>1, <2>1 DEF IInv, TypeOK
<1>3. at' \in [Instances -> Nat] /\ (p = "idle" => at'[i] = 1)
  BY <1>1
<1>4. /\ pc' \in [Instances -> {"idle", "info", "add", "update"}]
      /\ at' \in [Instances -> Nat]
      /\ \A h \in Instances : pc'[h] = "idle" => at'[h] = 1
      /\ \A h \in Instances : pc'[h] # "idle" => at'[h] \in 1..Len(Order)
      /\ names' \in [Instances -> SUBSET Streams]
  BY <1>1, <1>2, <1>3 DEF IInv, TypeOK
<1>5. NoHoles'
  BY <1>1 DEF IInv, NoHoles
<1>6. Behind'
  <2> SUFFICES ASSUME NEW h \in Instances, NEW j \in 1..Len(Order), pc'[h] # "idle",
                      j < at'[h]
               PROVE  Order[j] \in names'[h]
    BY DEF Behind
  <2>1. CASE h # i
    BY <2>1, <1>1 DEF IInv, Behind
  <2>2. CASE h = i
    <3>1. p # "idle" /\ names' = names
      BY <2>2, <1>1
    <3>2. at' = at /\ pc[i] # "idle"
      BY <3>1, <2>2, <1>1
    <3>3. QED
      BY <3>1, <3>2, <2>2 DEF IInv, Behind
  <2>3. QED
    BY <2>1, <2>2
<1>7. QED
  BY <1>4, <1>5, <1>6

-----------------------------------------------------------------------------
(* What the instances have recorded depends on the streams only through    *)
(* the facts above.                                                        *)
LEMMA RecordedStays ==
  ASSUME IInv, [Next]_vars, NEW i \in Instances, NEW s \in names[i]
  PROVE  streams'[s] # Absent /\ streams'[s] \in EverWanted(s)'
<1>1. s \in Streams /\ streams[s] # Absent
  BY DEF IInv, TypeOK, RecordedExist
<1>2. streams'[s] # Absent
  BY <1>1, StreamsStay
<1>3. streams[s] \in EverWanted(s)
  BY DEF IInv, RetentionHolds
<1>4. streams'[s] \in EverWanted(s)
  BY <1>1, <1>3, StepsWriteWanted DEF StreamsBecomeWanted
<1>5. EverWanted(s) \subseteq EverWanted(s)'
  BY EverWantedGrows DEF IInv
<1>6. QED
  BY <1>2, <1>4, <1>5

LEMMA InitIInv == Init => IInv
<1> SUFFICES ASSUME Init PROVE IInv
  OBVIOUS
<1>1. TypeOK
  BY DEF Init, TypeOK
<1>2. NoHoles /\ RecordedExist /\ RetentionHolds
  BY DEF Init, NoHoles, RecordedExist, RetentionHolds
<1>3. Behind /\ UpdatesFindTheirStream /\ LateIsWanted
  BY DEF Init, Behind, UpdatesFindTheirStream, LateIsWanted
<1>4. QED
  BY <1>1, <1>2, <1>3 DEF IInv

(* Types, and the order in which an instance records.                      *)
LEMMA StepKeepsOrder ==
  ASSUME IInv, [Next]_vars
  PROVE  /\ pc' \in [Instances -> {"idle", "info", "add", "update"}]
         /\ at' \in [Instances -> Nat]
         /\ \A h \in Instances : pc'[h] = "idle" => at'[h] = 1
         /\ \A h \in Instances : pc'[h] # "idle" => at'[h] \in 1..Len(Order)
         /\ names' \in [Instances -> SUBSET Streams]
         /\ NoHoles' /\ Behind'
<1> DEFINE Goal ==
      /\ pc' \in [Instances -> {"idle", "info", "add", "update"}]
      /\ at' \in [Instances -> Nat]
      /\ \A h \in Instances : pc'[h] = "idle" => at'[h] = 1
      /\ \A h \in Instances : pc'[h] # "idle" => at'[h] \in 1..Len(Order)
      /\ names' \in [Instances -> SUBSET Streams]
      /\ NoHoles' /\ Behind'
<1>1. ASSUME NEW i \in Instances, FindsDesired(i) \/ Adds(i) \/ Updates(i) PROVE Goal
  <2>1. pc[i] # "idle" /\ Advance(i)
    BY <1>1 DEF FindsDesired, Adds, Updates
  <2>2. QED
    BY <2>1, AdvanceKeepsOrder
<1>2. ASSUME NEW i \in Instances, FindsNone(i) \/ FindsOther(i) PROVE Goal
  <2>1. StaysOrStartsOver(i, "add") \/ StaysOrStartsOver(i, "update")
    BY <1>2 DEF FindsNone, FindsOther, StaysOrStartsOver
  <2>2. QED
    BY <2>1, NoRecordKeepsOrder
<1>3. ASSUME NEW i \in Instances, Begin(i) PROVE Goal
  <2>1. StaysOrStartsOver(i, "info")
    BY <1>3 DEF Begin, StaysOrStartsOver
  <2>2. QED
    BY <2>1, NoRecordKeepsOrder
<1>4. ASSUME NEW i \in Instances, AddRefused(i) \/ Raises(i) \/ Restart(i) PROVE Goal
  <2>1. StaysOrStartsOver(i, "idle")
    BY <1>4 DEF AddRefused, Raises, Restart, StaysOrStartsOver
  <2>2. QED
    BY <2>1, NoRecordKeepsOrder
<1>5. CASE UNCHANGED <<pc, at, names>>
  BY <1>5 DEF IInv, TypeOK, NoHoles, Behind
<1>6. QED
  BY <1>1, <1>2, <1>3, <1>4, <1>5 DEF Next, Answered, LateCall, vars

(* A name is only recorded in the step in which its stream is as wanted.   *)
LEMMA NewNameIsProvisioned ==
  ASSUME IInv, [Next]_vars, NEW i \in Instances, NEW s \in names'[i], s \notin names[i]
  PROVE  s \in Streams /\ streams'[s] = Desired(i, s)
<1>1. PICK h \in Instances : FindsDesired(h) \/ Adds(h) \/ Updates(h)
  BY DEF Next, Answered, Begin, FindsNone, FindsOther, AddRefused, Raises, Restart,
         LateCall, vars, IInv, TypeOK
<1>2. pc[h] # "idle" /\ names' = [names EXCEPT ![h] = @ \cup {Current(h)}]
  BY <1>1 DEF FindsDesired, Adds, Updates, Advance
<1>3. h = i /\ s = Current(i)
  BY <1>2 DEF IInv, TypeOK
<1>4. s \in Streams
  BY <1>2, <1>3, CurrentIsStream DEF IInv
<1>5. CASE FindsDesired(i)
  BY <1>3, <1>4, <1>5 DEF FindsDesired
<1>6. CASE Adds(i) \/ Updates(i)
  BY <1>3, <1>4, <1>6 DEF Adds, Updates, IInv, TypeOK
<1>7. QED
  BY <1>1, <1>3, <1>4, <1>5, <1>6

LEMMA StepKeepsLate ==
  ASSUME IInv, [Next]_vars
  PROVE  late' \subseteq Requests /\ UpdatesFindTheirStream' /\ LateIsWanted'
<1>1. \A s : EverWanted(s) \subseteq EverWanted(s)'
  BY EverWantedGrows DEF IInv
<1>2. ASSUME NEW m \in late', m \notin late
      PROVE  /\ m \in Requests
             /\ m.age \in EverWanted(m.stream)
             /\ m.op = "update" => streams[m.stream] # Absent
  <2>1. PICK i \in Instances : (Raises(i) \/ Restart(i)) /\ m \in Outstanding(i)
    BY <1>2 DEF Next, Answered, Begin, FindsNone, FindsDesired, FindsOther, Adds,
                AddRefused, Updates, Raises, Restart, LateCall, vars
  <2>2. /\ pc[i] \in {"add", "update"}
        /\ m = [op |-> pc[i], stream |-> Current(i), age |-> Desired(i, Current(i))]
    BY <2>1 DEF Outstanding
  <2>3. /\ Current(i) \in Streams /\ Desired(i, Current(i)) \in Ages
        /\ Desired(i, Current(i)) \in EverWanted(Current(i))
    BY <2>2, CurrentIsStream, DesiredIsAge, DesiredIsEverWanted DEF IInv
  <2>4. QED
    BY <2>2, <2>3 DEF Requests, IInv, UpdatesFindTheirStream
<1>3. late' \subseteq Requests
  BY <1>2 DEF IInv, TypeOK
<1>4. LateIsWanted'
  <2> SUFFICES ASSUME NEW m \in late'
               PROVE  m.age \in EverWanted(m.stream)'
    BY DEF LateIsWanted
  <2>1. m.age \in EverWanted(m.stream)
    BY <1>2 DEF IInv, LateIsWanted
  <2>2. EverWanted(m.stream) \subseteq EverWanted(m.stream)'
    BY <1>1
  <2>3. QED
    BY <2>1, <2>2
<1>5. \A m \in late' : m.op = "update" => streams'[m.stream] # Absent
  <2> SUFFICES ASSUME NEW m \in late', m.op = "update" PROVE streams'[m.stream] # Absent
    OBVIOUS
  <2>1. streams[m.stream] # Absent
    BY <1>2 DEF IInv, UpdatesFindTheirStream
  <2>2. m.stream \in Streams
    BY <1>3 DEF Requests
  <2>3. QED
    BY <2>1, <2>2, StreamsStay
<1>6. ASSUME NEW i \in Instances, pc'[i] = "update" PROVE streams'[Current(i)'] # Absent
  <2>1. CASE pc[i] = "update" /\ at'[i] = at[i]
    <3>1. Current(i) \in Streams /\ streams[Current(i)] # Absent
      BY <2>1, CurrentIsStream DEF IInv, UpdatesFindTheirStream
    <3>2. QED
      BY <2>1, <3>1, StreamsStay DEF Current
  <2>2. CASE FindsOther(i)
    <3>1. Current(i) \in Streams /\ streams[Current(i)] # Absent
      BY <2>2, CurrentIsStream DEF FindsOther, IInv
    <3>2. QED
      BY <2>2, <3>1 DEF FindsOther, Current
  <2>3. FindsOther(i) \/ (pc[i] = "update" /\ at'[i] = at[i])
    <3>1. pc \in [Instances -> {"idle", "info", "add", "update"}] /\ at \in [Instances -> Nat]
      BY DEF IInv, TypeOK
    <3>2. QED
      BY <3>1, <1>6 DEF Next, Answered, Begin, FindsNone, FindsDesired, FindsOther, Adds,
               AddRefused, Updates, Advance, Raises, Restart, LateCall, vars
  <2>4. QED
    BY <2>1, <2>2, <2>3
<1>7. QED
  BY <1>3, <1>4, <1>5, <1>6 DEF UpdatesFindTheirStream

LEMMA StepIInv ==
  ASSUME IInv, [Next]_vars
  PROVE  IInv'
<1>1. streams' \in [Streams -> Ages \cup {Absent}]
  BY StepsWriteWanted
<1>2. ttl' \in [Instances -> Ages] /\ past' \subseteq Ages
  BY EverWantedGrows DEF IInv
<1>3. TypeOK'
  BY <1>1, <1>2, StepKeepsOrder, StepKeepsLate DEF TypeOK, Requests
<1>4. ASSUME NEW i \in Instances, NEW s \in names'[i]
      PROVE  streams'[s] # Absent /\ streams'[s] \in EverWanted(s)'
  <2>1. CASE s \in names[i]
    BY <2>1, RecordedStays
  <2>2. CASE s \notin names[i]
    <3>1. streams'[s] = Desired(i, s) /\ Desired(i, s) # Absent
      BY <2>2, NewNameIsProvisioned, DesiredIsAge DEF IInv
    <3>2. Desired(i, s) \in EverWanted(s)'
      BY DesiredIsEverWanted, EverWantedGrows DEF IInv
    <3>3. QED
      BY <3>1, <3>2
  <2>3. QED
    BY <2>1, <2>2
<1>5. RecordedExist' /\ RetentionHolds'
  BY <1>4 DEF RecordedExist, RetentionHolds
<1>6. QED
  BY <1>3, <1>5, StepKeepsOrder, StepKeepsLate DEF IInv

LEMMA Invariance == Spec => []IInv
<1>1. Init => IInv
  BY InitIInv
<1>2. IInv /\ [Next]_vars => IInv'
  BY StepIInv
<1>3. QED
  BY <1>1, <1>2, PTL DEF Spec

-----------------------------------------------------------------------------
(* Every variable keeps its type.                                          *)
THEOREM TypeCorrect == Spec => []TypeOK
<1>1. IInv => TypeOK
  BY DEF IInv
<1>2. QED
  BY <1>1, Invariance, PTL

(* _stream_names lists the streams in the order of the configuration and   *)
(* without holes, over any number of partial attempts                      *)
(* (publisher.py:264-287).                                                 *)
THEOREM RecordedInOrder == Spec => []NoHoles
<1>1. IInv => NoHoles
  BY DEF IInv
<1>2. QED
  BY <1>1, Invariance, PTL

(* What _stream_names lists exists, whatever the instances, their failures *)
(* and their restarts.                                                     *)
THEOREM RecordedIsReal == Spec => []RecordedExist
<1>1. IInv => RecordedExist
  BY DEF IInv
<1>2. QED
  BY <1>1, Invariance, PTL

(* Issue #530: a stream an instance has ensured has, from then on, a       *)
(* retention that some instance asks for, or asked for before its setting  *)
(* was changed: never again the one of an old deployment.                  *)
THEOREM RetentionIsWanted == Spec => []RetentionHolds
<1>1. IInv => RetentionHolds
  BY DEF IInv
<1>2. QED
  BY <1>1, Invariance, PTL

(* A setting is read anew by each process, so an update an instance gave   *)
(* up on may be performed under later settings (publisher.py:277).  Where  *)
(* the instances agree and the stream is as they want it, only such an     *)
(* update, of a setting that has been replaced, changes it.                *)
THEOREM OnlyOldUpdatesUndo == Spec => RetentionSettles
<1>1. IInv /\ [Next]_vars =>
        [ \A s \in Streams, i \in Instances :
            Agreed(s) /\ streams[s] = Desired(i, s) /\ streams'[s] # streams[s] =>
              \E m \in late : /\ m.op = "update" /\ m.stream = s
                              /\ m.age \in past \ {Desired(i, s)}
                              /\ late' = late \ {m} ]_vars
  BY WantedStays DEF OldUpdate
<1>2. QED
  BY <1>1, Invariance, PTL DEF Spec, RetentionSettles
=============================================================================
