--------------------------- MODULE RequestPipeline ---------------------------
(***************************************************************************)
(* What a request goes through before and after its handler: the           *)
(* middlewares of hermes.server, outermost first PayloadSizeLimit,         *)
(* RequestID and Shutdown, the rate limit on the two limited routes, and   *)
(* the exception handlers that shape the answer.  SlowAPIMiddleware, the   *)
(* outermost, has no default limit to apply and lets everything through.   *)
(*                                                                         *)
(* BaseHTTPMiddleware runs each layer in a task of its own, so requests    *)
(* interleave between any two layers.  An input is chosen at the step that *)
(* first looks at it.  What the webhook handler does is WebhookGateway's   *)
(* business: here it answers, raises an HTTPException, or crashes.         *)
(***************************************************************************)
EXTENDS Naturals, FiniteSets

CONSTANTS
  Requests,     \* HTTP requests; each also stands for the UUID it may be given
  CallerIds,    \* values of X-Request-ID that match _REQUEST_ID_RE
  Addresses,    \* get_remote_address(request)
  Limit,        \* requests allowed per window by the rate limit
  Window,       \* its length, which get_expiry() returns, in clock units
  MaxClock,     \* bound of the model
  None

ASSUME RequestsAssumption == IsFiniteSet(Requests)
ASSUME NumbersAssumption ==
  Limit \in Nat \ {0} /\ Window \in Nat \ {0} /\ MaxClock \in Nat

VARIABLES
  pc,          \* the layer each request is suspended in
  path,        \* its route
  localId,     \* request_id, the local of RequestIDMiddleware.dispatch
  stateId,     \* request.state.request_id
  answer,      \* what was sent back
  hits,        \* limits' memory storage: hits in the window of each key
  expires,     \* and when that window ends
  clock,
  shutdown,    \* _shutdown_event.is_set()
  key,         \* ghost: the key a request was charged to
  chargedAt    \* ghost: and when

requestVars == <<pc, path, localId, stateId, answer>>
limiterVars == <<hits, expires, key, chargedAt>>
vars == <<requestVars, limiterVars, clock, shutdown>>

LimitedPaths == {"webhook", "subjects"}
ErrorPaths == {"webhook", "dead_letters"}     \* their handlers raise HTTPException
Paths == LimitedPaths \cup ErrorPaths \cup {"other"}
Keys == LimitedPaths \X Addresses
Ids == Requests \cup CallerIds

ASSUME NamesAssumption == None \notin Ids \cup Keys

NoAnswer == [kind |-> "none", header |-> None, bodyId |-> None, retryAfter |-> 0]

Init ==
  /\ pc = [r \in Requests |-> "new"] /\ path = [r \in Requests |-> None]
  /\ localId = [r \in Requests |-> None] /\ stateId = [r \in Requests |-> None]
  /\ answer = [r \in Requests |-> NoAnswer]
  /\ hits = [k \in Keys |-> 0] /\ expires = [k \in Keys |-> 0]
  /\ key = [r \in Requests |-> None] /\ chargedAt = [r \in Requests |-> 0]
  /\ clock = 0 /\ shutdown = FALSE

-----------------------------------------------------------------------------
(* Leaving the stack with an answer.                                       *)
Send(r, a) ==
  /\ answer' = [answer EXCEPT ![r] = a]
  /\ pc' = [pc EXCEPT ![r] = "done"]

(* Refused, or failed, outside RequestIDMiddleware: no ID is known there.  *)
Anonymous(what) == [NoAnswer EXCEPT !.kind = what]

(* Answered inside it: the middleware adds its local to the headers.       *)
Tagged(r, what) == [Anonymous(what) EXCEPT !.header = localId[r]]

(* ... by a handler that also puts request.state's ID in the body.         *)
Correlated(r, what) == [Tagged(r, what) EXCEPT !.bodyId = stateId[r]]

-----------------------------------------------------------------------------
(***************************************************************************)
(* The rate limit of a route: one fixed window per address, started by the *)
(* first hit; a hit that is refused counts too.                            *)
(***************************************************************************)
WindowOver(k) == clock >= expires[k]

Hit(k) ==
  /\ hits' = [hits EXCEPT ![k] = IF WindowOver(k) THEN 1 ELSE @ + 1]
  /\ expires' = [expires EXCEPT ![k] = IF WindowOver(k) THEN clock + Window ELSE @]

Charge(r, k) ==
  /\ Hit(k)
  /\ key' = [key EXCEPT ![r] = k]
  /\ chargedAt' = [chargedAt EXCEPT ![r] = clock]

-----------------------------------------------------------------------------
(***************************************************************************)
(* PayloadSizeLimitMiddleware                                              *)
(***************************************************************************)

(* Faulty: the limit is applied before the body is measured.               *)
DeclaresCharged(r) ==
  /\ pc[r] = "new"
  /\ \E k \in Keys : Charge(r, k)
  /\ \/ Send(r, Anonymous("too_large"))
     \/ pc' = [pc EXCEPT ![r] = "reading"] /\ UNCHANGED answer
  /\ UNCHANGED <<path, localId, stateId, clock, shutdown>>

(* A Content-Length above the maximum is refused unread.  One that is      *)
(* absent, unparsable or small decides nothing.                            *)
Declares(r) ==
  /\ pc[r] = "new"
  /\ \/ Send(r, Anonymous("too_large"))
     \/ pc' = [pc EXCEPT ![r] = "reading"] /\ UNCHANGED answer
  /\ UNCHANGED <<path, localId, stateId, limiterVars, clock, shutdown>>

(* The body has been read, and is now measured itself.                     *)
BodyRead(r) ==
  /\ pc[r] = "reading"
  /\ \/ Send(r, Anonymous("too_large"))
     \/ pc' = [pc EXCEPT ![r] = "sized"] /\ UNCHANGED answer
  /\ UNCHANGED <<path, localId, stateId, limiterVars, clock, shutdown>>

(* The sender goes away: request.body() raises, and nobody is answered.    *)
Disconnects(r) ==
  /\ pc[r] = "reading"
  /\ Send(r, Anonymous("crashed"))
  /\ UNCHANGED <<path, localId, stateId, limiterVars, clock, shutdown>>

-----------------------------------------------------------------------------
(***************************************************************************)
(* RequestIDMiddleware and ShutdownMiddleware                              *)
(***************************************************************************)

(* Faulty: the ID is kept on the application, one for all requests.        *)
AssignIdShared(r) ==
  /\ pc[r] = "sized"
  /\ \E id \in CallerIds \cup {r} :
       /\ localId' = [localId EXCEPT ![r] = id]
       /\ stateId' = [q \in Requests |-> id]
  /\ pc' = [pc EXCEPT ![r] = "identified"]
  /\ UNCHANGED <<path, answer, limiterVars, clock, shutdown>>

(* The caller's ID if it is well formed, a fresh UUID otherwise.           *)
AssignId(r) ==
  /\ pc[r] = "sized"
  /\ \E id \in CallerIds \cup {r} :
       /\ localId' = [localId EXCEPT ![r] = id]
       /\ stateId' = [stateId EXCEPT ![r] = id]
  /\ pc' = [pc EXCEPT ![r] = "identified"]
  /\ UNCHANGED <<path, answer, limiterVars, clock, shutdown>>

CheckShutdown(r) ==
  /\ pc[r] = "identified"
  /\ \E p \in Paths :
       /\ path' = [path EXCEPT ![r] = p]
       /\ IF shutdown /\ p = "webhook"
            THEN Send(r, Tagged(r, "shutting_down"))
            ELSE /\ pc' = [pc EXCEPT ![r] = "routed"]
                 /\ UNCHANGED answer
  /\ UNCHANGED <<localId, stateId, limiterVars, clock, shutdown>>

-----------------------------------------------------------------------------
(* rate_limit_exceeded_handler answers for the routes that are over.       *)
RefusalHurried(r) ==                          \* faulty: a constant, as for no limit
  [Tagged(r, "limited") EXCEPT !.retryAfter = 1]

Refusal(r) == [Tagged(r, "limited") EXCEPT !.retryAfter = Window]

ApplyLimit(r) ==
  /\ pc[r] = "routed"
  /\ IF path[r] \in LimitedPaths
       THEN \E a \in Addresses :
              LET k == <<path[r], a>> IN
                /\ Charge(r, k)
                /\ IF hits'[k] > Limit
                     THEN Send(r, Refusal(r))
                     ELSE /\ pc' = [pc EXCEPT ![r] = "handling"]
                          /\ UNCHANGED answer
       ELSE /\ pc' = [pc EXCEPT ![r] = "handling"]
            /\ UNCHANGED <<answer, limiterVars>>
  /\ UNCHANGED <<path, localId, stateId, clock, shutdown>>

-----------------------------------------------------------------------------
(***************************************************************************)
(* The handler and the exception handlers                                  *)
(***************************************************************************)

(* A 202, or an HTTPException shaped by                                    *)
(* _http_exception_handler_with_request_id.                                *)
HandleWithId(r) ==
  /\ pc[r] = "handling"
  /\ \/ path[r] = "webhook" /\ Send(r, Correlated(r, "accepted"))
     \/ path[r] \in ErrorPaths /\ Send(r, Correlated(r, "http_error"))
  /\ UNCHANGED <<path, localId, stateId, limiterVars, clock, shutdown>>

(* The listing endpoints, and Starlette's own 404 and 405.                 *)
HandlePlain(r) ==
  /\ pc[r] = "handling" /\ path[r] # "webhook"
  /\ Send(r, Tagged(r, "plain"))
  /\ UNCHANGED <<path, localId, stateId, limiterVars, clock, shutdown>>

(* An exception nobody handles passes through every middleware.            *)
Crashes(r) ==
  /\ pc[r] = "handling"
  /\ Send(r, Anonymous("crashed"))
  /\ UNCHANGED <<path, localId, stateId, limiterVars, clock, shutdown>>

-----------------------------------------------------------------------------
Tick ==
  /\ clock < MaxClock /\ clock' = clock + 1
  /\ UNCHANGED <<requestVars, limiterVars, shutdown>>

OnShutdownSignal ==
  /\ shutdown' = TRUE
  /\ UNCHANGED <<requestVars, limiterVars, clock>>

Step(r) ==
  \/ Declares(r) \/ BodyRead(r) \/ Disconnects(r)
  \/ AssignId(r) \/ CheckShutdown(r) \/ ApplyLimit(r)
  \/ HandleWithId(r) \/ HandlePlain(r) \/ Crashes(r)

Next == (\E r \in Requests : Step(r)) \/ Tick \/ OnShutdownSignal

Spec == Init /\ [][Next]_vars

-----------------------------------------------------------------------------
(***************************************************************************)
(* Properties                                                              *)
(***************************************************************************)
Answers ==
  [kind : {"none", "too_large", "shutting_down", "limited", "accepted", "http_error",
           "plain", "crashed"},
   header : Ids \cup {None}, bodyId : Ids \cup {None}, retryAfter : {0, Window}]

TypeOK ==
  /\ pc \in [Requests -> {"new", "reading", "sized", "identified", "routed",
                          "handling", "done"}]
  /\ path \in [Requests -> Paths \cup {None}]
  /\ localId \in [Requests -> Ids \cup {None}]
  /\ stateId \in [Requests -> Ids \cup {None}]
  /\ answer \in [Requests -> Answers]
  /\ hits \in [Keys -> Nat] /\ expires \in [Keys -> Nat]
  /\ key \in [Requests -> Keys \cup {None}] /\ chargedAt \in [Requests -> Nat]
  /\ clock \in Nat /\ shutdown \in BOOLEAN

(* A sender can join what it is told on the ID: the one in a body is the   *)
(* one in the header, although they are read from two places; it is the    *)
(* sender's own or the request's UUID and no other request's; and only the *)
(* answers made outside RequestIDMiddleware have none.                     *)
AnswersCorrelated ==
  \A r \in Requests : pc[r] = "done" =>
    /\ answer[r].header \in {None, r} \cup CallerIds
    /\ answer[r].bodyId \in {None, answer[r].header}
    /\ answer[r].header = None => answer[r].kind \in {"too_large", "crashed"}
    /\ answer[r].kind \in {"accepted", "http_error"} => answer[r].bodyId # None

(* The requests that were charged in the current window of a key.          *)
ChargedNow(k) ==
  {r \in Requests : key[r] = k /\ chargedAt[r] + Window >= expires[k]}

(* The quota of an address counts the requests that got as far as the      *)
(* route, none that an outer layer refused and none twice, and at most     *)
(* Limit of them reach the handler in a window.                            *)
QuotaExact ==
  \A k \in Keys :
    /\ hits[k] = Cardinality({r \in ChargedNow(k) :
                                answer[r].kind \notin {"too_large", "shutting_down"}})
    /\ Cardinality({r \in ChargedNow(k) : answer[r].kind # "limited"}) =< Limit

(* Retry-After is honest: a sender that waits for it is refused again only *)
(* if Limit other requests got through in the meantime.                    *)
RetryAfterSuffices ==
  \A q, r \in Requests :
    /\ answer[q].kind = "limited" /\ answer[r].kind = "limited"
    /\ key[q] = key[r] /\ chargedAt[r] >= chargedAt[q] + answer[q].retryAfter
    => Cardinality({s \in Requests :
                      /\ key[s] = key[r] /\ answer[s].kind # "limited"
                      /\ chargedAt[q] < chargedAt[s] /\ chargedAt[s] =< chargedAt[r]})
         >= Limit
=============================================================================
