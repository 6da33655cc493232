------------------------- MODULE StreamProvisioning -------------------------
(***************************************************************************)
(* Publisher._ensure_streams: every service instance creates the JetStream *)
(* streams it needs, or migrates their max_age (issue #530), each time it  *)
(* has dialled.  Several instances share one JetStream, and their settings *)
(* may differ while a new DEAD_LETTER_TTL_SECONDS is rolled out: a process *)
(* reads it once, when it starts (get_settings is cached).                 *)
(*                                                                         *)
(* The code awaits a call between looking at a stream and changing it, and *)
(* gives up on calls that time out: the server may then still perform them *)
(* later.  A stream is its max_age, 0 for none; the rest of a StreamConfig *)
(* is the same in every instance.  Nobody deletes a stream.                *)
(***************************************************************************)
EXTENDS Naturals, Sequences

CONSTANTS
  Instances,     \* service instances
  Order,         \* the names of stream_configs, in the order of the code
  DeadLetter,    \* the one among them whose max_age is a setting
  Ages,          \* values of max_age
  Absent         \* no such stream

Streams == {Order[k] : k \in 1..Len(Order)}

ASSUME OrderAssumption ==
  /\ Order \in Seq(Streams)
  /\ \A j, k \in 1..Len(Order) : Order[j] = Order[k] => j = k
ASSUME AgesAssumption == Ages \subseteq Nat /\ 0 \in Ages /\ Absent \notin Ages

VARIABLES
  streams,    \* JetStream: the max_age of each stream
  ttl,        \* settings.dead_letter_ttl_seconds of each instance
  pc,         \* the call an instance awaits, or "idle" outside the method
  at,         \* the position in stream_configs it has reached
  names,      \* self._stream_names, as a set: it has no duplicates
  late,       \* calls given up by their callers that the server may still run;
              \* equal ones count as one
  past        \* history: the settings that restarts have replaced

vars == <<streams, ttl, pc, at, names, late, past>>

(* max_age of desired_config.                                              *)
Desired(i, s) == IF s = DeadLetter THEN ttl[i] ELSE 0

Current(i) == Order[at[i]]

(* An existing deployment: any streams, with any retention.                *)
Init ==
  /\ streams \in [Streams -> Ages \cup {Absent}]
  /\ ttl \in [Instances -> Ages]
  /\ pc = [i \in Instances |-> "idle"] /\ at = [i \in Instances |-> 1]
  /\ names = [i \in Instances |-> {}]
  /\ late = {} /\ past = {}

-----------------------------------------------------------------------------
(***************************************************************************)
(* The loop over stream_configs                                            *)
(***************************************************************************)
(* A client has been opened: by connect() or by the reconnect loop.        *)
Begin(i) ==
  /\ pc[i] = "idle" /\ Order # <<>>
  /\ pc' = [pc EXCEPT ![i] = "info"]
  /\ at' = [at EXCEPT ![i] = 1]
  /\ UNCHANGED <<streams, ttl, names, late, past>>

AdvancePastEnd(i) ==                           \* faulty: one position too many
  /\ names' = [names EXCEPT ![i] = @ \cup {Current(i)}]
  /\ at' = [at EXCEPT ![i] = @ + 1]
  /\ pc' = [pc EXCEPT ![i] = IF at[i] < Len(Order) THEN "info" ELSE "idle"]

(* The current stream is done: record its name, go on to the next one.     *)
Advance(i) ==
  /\ names' = [names EXCEPT ![i] = @ \cup {Current(i)}]
  /\ \/ /\ at[i] < Len(Order)
        /\ at' = [at EXCEPT ![i] = @ + 1]
        /\ pc' = [pc EXCEPT ![i] = "info"]
     \/ /\ at[i] = Len(Order)
        /\ at' = [at EXCEPT ![i] = 1]
        /\ pc' = [pc EXCEPT ![i] = "idle"]

FindsRecordsEarly(i) ==                        \* faulty: name appended first
  /\ pc[i] = "info" /\ streams[Current(i)] = Absent
  /\ names' = [names EXCEPT ![i] = @ \cup {Current(i)}]
  /\ pc' = [pc EXCEPT ![i] = "add"]
  /\ UNCHANGED <<streams, ttl, at, late, past>>

(* stream_info raises NotFoundError.                                       *)
FindsNone(i) ==
  /\ pc[i] = "info" /\ streams[Current(i)] = Absent
  /\ pc' = [pc EXCEPT ![i] = "add"]
  /\ UNCHANGED <<streams, ttl, at, names, late, past>>

FindsAny(i) ==                                 \* faulty: as before #530
  /\ pc[i] = "info" /\ streams[Current(i)] # Absent
  /\ Advance(i)
  /\ UNCHANGED <<streams, ttl, late, past>>

SkipsRecorded(i) ==                            \* faulty: looks at a stream once
  /\ pc[i] = "info"
  /\ streams[Current(i)] = Desired(i, Current(i)) \/ Current(i) \in names[i]
  /\ Advance(i)
  /\ UNCHANGED <<streams, ttl, late, past>>

FindsDesired(i) ==
  /\ pc[i] = "info" /\ streams[Current(i)] = Desired(i, Current(i))
  /\ Advance(i)
  /\ UNCHANGED <<streams, ttl, late, past>>

AddsOverOther(i) ==                            \* faulty: adds, not updates
  /\ pc[i] = "info" /\ streams[Current(i)] \notin {Absent, Desired(i, Current(i))}
  /\ pc' = [pc EXCEPT ![i] = "add"]
  /\ UNCHANGED <<streams, ttl, at, names, late, past>>

FindsOther(i) ==
  /\ pc[i] = "info" /\ streams[Current(i)] \notin {Absent, Desired(i, Current(i))}
  /\ pc' = [pc EXCEPT ![i] = "update"]
  /\ UNCHANGED <<streams, ttl, at, names, late, past>>

(* add_stream: the server accepts a stream that exists as requested.       *)
Adds(i) ==
  /\ pc[i] = "add" /\ streams[Current(i)] \in {Absent, Desired(i, Current(i))}
  /\ streams' = [streams EXCEPT ![Current(i)] = Desired(i, Current(i))]
  /\ Advance(i)
  /\ UNCHANGED <<ttl, late, past>>

(* Another instance has created it differently meanwhile: the error leaves *)
(* _ensure_streams.                                                        *)
AddRefused(i) ==
  /\ pc[i] = "add" /\ streams[Current(i)] \notin {Absent, Desired(i, Current(i))}
  /\ pc' = [pc EXCEPT ![i] = "idle"] /\ at' = [at EXCEPT ![i] = 1]
  /\ UNCHANGED <<streams, ttl, names, late, past>>

RecreatesStream(i) ==                          \* faulty: deletes, adds again
  /\ pc[i] = "update"
  /\ streams' = [streams EXCEPT ![Current(i)] = Absent]
  /\ pc' = [pc EXCEPT ![i] = "add"]
  /\ UNCHANGED <<ttl, at, names, late, past>>

(* update_stream                                                           *)
Updates(i) ==
  /\ pc[i] = "update"
  /\ streams' = [streams EXCEPT ![Current(i)] = Desired(i, Current(i))]
  /\ Advance(i)
  /\ UNCHANGED <<ttl, late, past>>

-----------------------------------------------------------------------------
(***************************************************************************)
(* What may go wrong                                                       *)
(***************************************************************************)

(* The change an instance has asked for and not heard of, if any.          *)
Outstanding(i) ==
  IF pc[i] \in {"add", "update"}
    THEN {[op |-> pc[i], stream |-> Current(i), age |-> Desired(i, Current(i))]}
    ELSE {}

SkipsFailedStream(i) ==                        \* faulty: goes on to the next
  /\ pc[i] # "idle"
  /\ IF at[i] < Len(Order)
       THEN at' = [at EXCEPT ![i] = @ + 1] /\ pc' = [pc EXCEPT ![i] = "info"]
       ELSE at' = [at EXCEPT ![i] = 1] /\ pc' = [pc EXCEPT ![i] = "idle"]
  /\ UNCHANGED <<streams, ttl, names, late, past>>

(* The call raises, times out, or is cancelled with the attempt.  The      *)
(* exception leaves _ensure_streams; the call may not have been lost.      *)
Raises(i) ==
  /\ pc[i] # "idle"
  /\ pc' = [pc EXCEPT ![i] = "idle"] /\ at' = [at EXCEPT ![i] = 1]
  /\ late' \in {late, late \cup Outstanding(i)}
  /\ UNCHANGED <<streams, ttl, names, past>>

(* The instance dies, or is stopped, and is started again, perhaps with    *)
(* another DEAD_LETTER_TTL_SECONDS.                                        *)
Restart(i) ==
  /\ pc' = [pc EXCEPT ![i] = "idle"] /\ at' = [at EXCEPT ![i] = 1]
  /\ names' = [names EXCEPT ![i] = {}]
  /\ late' \in {late, late \cup Outstanding(i)}
  /\ \E a \in Ages :
       /\ ttl' = [ttl EXCEPT ![i] = a]
       /\ past' = IF a = ttl[i] THEN past ELSE past \cup {ttl[i]}
  /\ UNCHANGED streams

(* The server gets to a call nobody waits for any more.                    *)
LateCall(m) ==
  /\ m \in late /\ late' = late \ {m}
  /\ streams' = IF m.op = "update" \/ streams[m.stream] = Absent
                  THEN [streams EXCEPT ![m.stream] = m.age] ELSE streams
  /\ UNCHANGED <<ttl, pc, at, names, past>>

-----------------------------------------------------------------------------
Answered(i) ==
  \/ FindsNone(i) \/ FindsDesired(i) \/ FindsOther(i)
  \/ Adds(i) \/ AddRefused(i) \/ Updates(i)

Next ==
  \/ \E i \in Instances : Begin(i) \/ Answered(i) \/ Raises(i) \/ Restart(i)
  \/ \E m \in late : LateCall(m)

Spec == Init /\ [][Next]_vars

(***************************************************************************)
(* Fairness.  A call is answered or raises: nats-py bounds each of them.   *)
(* That an instance tries again after a failure is not assumed here:       *)
(* NatsPublisher and Lifespan say when it does.                            *)
(***************************************************************************)
Fairness == \A i \in Instances : WF_vars(Answered(i) \/ Raises(i))

FairSpec == Spec /\ Fairness

-----------------------------------------------------------------------------
(***************************************************************************)
(* Properties                                                              *)
(***************************************************************************)

Requests == [op : {"add", "update"}, stream : Streams, age : Ages]

TypeOK ==
  /\ streams \in [Streams -> Ages \cup {Absent}]
  /\ ttl \in [Instances -> Ages]
  /\ pc \in [Instances -> {"idle", "info", "add", "update"}]
  /\ \A i \in Instances : pc[i] = "idle" => at[i] = 1
  /\ \A i \in Instances : pc[i] # "idle" => at[i] \in 1..Len(Order)
  /\ at \in [Instances -> Nat]
  /\ names \in [Instances -> SUBSET Streams]
  /\ late \subseteq Requests
  /\ past \subseteq Ages

(* _ensure_streams goes through stream_configs in order and stops at the   *)
(* first failure: a recorded stream, the last one above all, says that     *)
(* those before it are recorded too, over any number of failed attempts.   *)
NoHoles ==
  \A i \in Instances : \A k \in 1..Len(Order) :
    Order[k] \in names[i] => \A j \in 1..k : Order[j] \in names[i]

(* The streams the startup banner lists exist (server.py:781-785), however *)
(* the instances' looking and changing interleave.                         *)
RecordedExist ==
  \A i \in Instances : \A s \in names[i] : streams[s] # Absent

(* The retentions of a stream some instance wants, or wanted before its    *)
(* setting was changed.                                                    *)
EverWanted(s) ==
  {Desired(i, s) : i \in Instances} \cup (IF s = DeadLetter THEN past ELSE {})

(* Issue #530: a stream an instance has ensured is never found again with  *)
(* the retention of an old deployment that none of them asked for, however *)
(* their calls interleave and however late they are performed.             *)
RetentionHolds ==
  \A i \in Instances : \A s \in names[i] : streams[s] \in EverWanted(s)

Agreed(s) == \A i, j \in Instances : Desired(i, s) = Desired(j, s)

(* Where the instances agree and the stream is as wanted, one thing alone  *)
(* can take it away: the server performing an update given up on by its    *)
(* caller, asked for with a setting that has been replaced since.          *)
RetentionSettles ==
  [][ \A s \in Streams, i \in Instances :
        Agreed(s) /\ streams[s] = Desired(i, s) /\ streams'[s] # streams[s] =>
          \E m \in late : /\ m.op = "update" /\ m.stream = s
                          /\ m.age \in past \ {Desired(i, s)}
                          /\ late' = late \ {m} ]_vars

(* From some time on no call of the instance fails any more and it stays   *)
(* up: what a step of it does is what an answer would have done.           *)
Settles(i) == <>[][Raises(i) \/ Restart(i) => Answered(i)]_vars

(* An instance that is asked again and again then ensures every stream:    *)
(* losing a race to create one costs it an attempt and nothing else.       *)
RetriesConverge ==
  \A i \in Instances :
    Settles(i) /\ []<>(pc[i] = "info" /\ at[i] = 1) => <>(names[i] = Streams)

(* The harm such an old update does is undone: once the settings stay and  *)
(* agree, and calls no longer fail, one instance that is asked again and   *)
(* again is enough for every stream to be as wanted for good.              *)
RetentionRestored ==
  (\A i \in Instances : Settles(i)) =>
    \A i \in Instances :
      []<>(pc[i] = "info" /\ at[i] = 1) =>
        <>[](\A s \in Streams : Agreed(s) => streams[s] = Desired(i, s))
=============================================================================
