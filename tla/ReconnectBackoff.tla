-------------------------- MODULE ReconnectBackoff --------------------------
(***************************************************************************)
(* How fast the reconnect loop dials: the delays of _reconnect_loop over   *)
(* the settings the service accepts, and the notices it starts with.       *)
(* NatsPublisher says when the loop runs; here one loop runs, and time     *)
(* passes in its sleeps and attempts.  Times are whole units.              *)
(***************************************************************************)
EXTENDS Settings, FiniteSets, Sequences

CONSTANTS
  Environments,   \* what Settings() may be given
  MaxExponent,    \* where failed_attempts saturates: 32 in the code
  MaxRow          \* bound of the model: attempts in a row

ASSUME EnvironmentsAssumption == Environments \subseteq RawSettings
ASSUME BoundsAssumption == MaxExponent \in Nat /\ MaxRow \in Nat

VARIABLES
  settings,   \* the cached Settings instance
  phase,      \* how far the process is
  notices,    \* what was logged at WARNING while it started
  failed,     \* failed_attempts
  delay,      \* of the sleep it is in, or was in last
  lost,       \* self._nc is None or closed
  row,        \* ghost: attempts failed since it last saw a link
  since       \* ghost: the time since the first of them began

loopVars == <<failed, delay, lost, row, since>>
vars == <<settings, phase, notices, loopVars>>

Init ==
  /\ settings \in Environments
  /\ phase = "loading" /\ notices = <<>>
  /\ failed = 0 /\ delay = 0 /\ lost = FALSE /\ row = 0 /\ since = 0

(* get_settings(), while hermes.server is imported: Settings() or a        *)
(* ValidationError, before anything was logged.                            *)
Load ==
  /\ phase = "loading"
  /\ \/ /\ Accepted(settings)
        /\ notices' = DeadLetterKeyWarning(settings) \o HmacWarning(settings)
                        \o TlsWarning(settings)
        /\ phase' = "starting"
     \/ ~Accepted(settings) /\ phase' = "refused" /\ UNCHANGED notices
  /\ UNCHANGED <<settings, loopVars>>

-----------------------------------------------------------------------------
(* min(reconnect_interval * 2 ** failed_attempts, cap)                     *)
Nominal(n) ==
  LET grown == settings.base * 2 ^ n
  IN  IF grown < settings.cap THEN grown ELSE settings.cap

(* ... spread by random.uniform(1 - jitter, 1 + jitter).                   *)
Delays(n) ==
  {d \in 0..(2 * Nominal(n)) :
     /\ d * Scale >= Nominal(n) * (Scale - settings.jitter)
     /\ d * Scale =< Nominal(n) * (Scale + settings.jitter)}

FallAsleep(n) == failed' = n /\ delay' \in Delays(n)

(* lifespan(): connect() has started the loop.                             *)
Start ==
  /\ phase = "starting" /\ phase' = "sleeping"
  /\ notices' = notices \o HmacNotice(settings) \o BindNotice(settings)
  /\ FallAsleep(0)
  /\ UNCHANGED <<settings, lost, row, since>>

(* nats-py closes the client: the loop will not know before it wakes up.   *)
LinkLost ==
  /\ phase = "sleeping" /\ ~lost
  /\ lost' = TRUE
  /\ UNCHANGED <<settings, phase, notices, failed, delay, row, since>>

(* The sleep ends and the connection is healthy: reset and sleep again.    *)
WakeHealthy ==
  /\ phase = "sleeping" /\ ~lost
  /\ FallAsleep(0)
  /\ row' = 0 /\ since' = 0
  /\ UNCHANGED <<settings, phase, notices, lost>>

WakeLost ==
  /\ phase = "sleeping" /\ lost
  /\ phase' = "attempting"
  /\ since' = IF row = 0 THEN 0 ELSE since + delay
  /\ UNCHANGED <<settings, notices, failed, delay, lost, row>>

(* An attempt ends within its hard timeout.                                *)
Reconnects ==
  /\ phase = "attempting"
  /\ phase' = "sleeping" /\ lost' = FALSE
  /\ FallAsleep(0)
  /\ row' = 0 /\ since' = 0
  /\ UNCHANGED <<settings, notices>>

AttemptFailsReset ==                  \* faulty: every failure starts over
  /\ phase = "attempting" /\ row < MaxRow
  /\ phase' = "sleeping"
  /\ FallAsleep(0)
  /\ row' = row + 1
  /\ \E t \in 0..settings.hardTimeout : since' = since + t
  /\ lost' \in BOOLEAN
  /\ UNCHANGED <<settings, notices>>

(* It may have opened the client before it failed.                         *)
AttemptFails ==
  /\ phase = "attempting" /\ row < MaxRow
  /\ phase' = "sleeping"
  /\ FallAsleep(IF failed < MaxExponent THEN failed + 1 ELSE failed)
  /\ row' = row + 1
  /\ \E t \in 0..settings.hardTimeout : since' = since + t
  /\ lost' \in BOOLEAN
  /\ UNCHANGED <<settings, notices>>

Next ==
  \/ Load \/ Start \/ LinkLost
  \/ WakeHealthy \/ WakeLost \/ Reconnects \/ AttemptFails

Spec == Init /\ [][Next]_vars

-----------------------------------------------------------------------------
(***************************************************************************)
(* Properties                                                              *)
(***************************************************************************)

Warnings == {"dead_letter_key", "hmac", "tls", "bind"}

(* Every variable has the type the code gives it; failed stops growing in  *)
(* time for 2 ** failed to stay a number that a float can take.            *)
TypeOK ==
  /\ settings \in Environments
  /\ phase \in {"loading", "refused", "starting", "sleeping", "attempting"}
  /\ notices \in Seq(Warnings)
  /\ failed \in 0..MaxExponent /\ delay \in Nat /\ lost \in BOOLEAN
  /\ row \in 0..MaxRow /\ since \in Nat

(* The least and the most time that n attempts in a row can take, when     *)
(* each is followed by the delay that was asked for, never saturated.      *)
Sum[n \in Nat] == IF n = 0 THEN 0 ELSE Nominal(n) + Sum[n - 1]

(* The doubling reaches the cap before it saturates.                       *)
CapInReach == settings.cap =< settings.base * 2 ^ MaxExponent

(* Attempts are paced: a row of failures is never closer than the base and *)
(* its jitter, so an outage brings no storm; and where the cap is within   *)
(* reach of the doubling it is as spread out as the doubling delays        *)
(* demand, and takes no more than those and the attempts themselves, so    *)
(* the end of an outage is noticed.                                        *)
AttemptsArePaced ==
  phase = "attempting" /\ row > 0 =>
    /\ since * Scale >= row * settings.base * (Scale - settings.jitter)
    /\ CapInReach =>
         /\ since * Scale >= Sum[row] * (Scale - settings.jitter)
         /\ since * Scale =< Sum[row] * (Scale + settings.jitter)
                               + row * settings.hardTimeout * Scale

Said(text, log) == Cardinality({i \in DOMAIN log : log[i] = text})

(* A service that checks no signatures says so once while it starts,       *)
(* whichever of the validator and lifespan() has to, and one that checks   *)
(* them does not; one that was refused has said nothing.                   *)
OneHmacNotice ==
  /\ phase \in {"sleeping", "attempting"} =>
       Said("hmac", notices) = (IF settings.secret = 0 THEN 1 ELSE 0)
  /\ phase = "refused" => notices = <<>>
=============================================================================
