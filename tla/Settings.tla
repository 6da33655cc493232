------------------------------ MODULE Settings ------------------------------
(***************************************************************************)
(* hermes.config.Settings: which environments the validators accept, what  *)
(* they warn of, and what lifespan() of hermes.server adds at startup.     *)
(* Hosts and URLs are one value for each class the code tells apart, and a *)
(* secret is its length.                                                   *)
(***************************************************************************)
EXTENDS Naturals

CONSTANTS
  Scale,             \* jitter is a fraction of Scale
  MinSecretLength,   \* _MIN_SECRET_LENGTH: 32
  None

ASSUME ScaleAssumption == Scale \in Nat \ {0} /\ MinSecretLength \in Nat

Hosts == {"localhost", "loopback", "0.0.0.0", "public_ip", "fqdn", "malformed"}
Urls == {None, "http_local", "http_public", "http_no_host", "not_http"}

RawSettings ==
  [host : Hosts, url : Urls, secret : Nat, dlKey : Nat, tlsVerify : BOOLEAN,
   base : Nat, cap : Nat, jitter : Nat, hardTimeout : Nat]

(* _set_public_url_default *)
PublicUrl(s) == IF s.url = None THEN "http_local" ELSE s.url

(* _secret_min_length and _dead_letter_key_min_length *)
SecretAccepted(length) == length = 0 \/ length >= MinSecretLength

(* The bounds of the fields, and _validate_reconnect_backoff_bounds.       *)
BackoffAccepted(s) ==
  /\ s.base > 0 /\ s.cap > 0 /\ s.jitter < Scale /\ s.hardTimeout > 0
  /\ s.base =< s.cap

Accepted(s) ==
  /\ PublicUrl(s) # "not_http"
  /\ s.host # "malformed"
  /\ SecretAccepted(s.secret) /\ SecretAccepted(s.dlKey)
  /\ BackoffAccepted(s)

-----------------------------------------------------------------------------
HostLooksPublic(host) == host \notin {"localhost", "loopback"}

IsProductionBind(s) == s.host = "0.0.0.0"
IsProductionSignal(s) == HostLooksPublic(s.host) \/ PublicUrl(s) = "http_public"

(* What the validators that run after the fields log, in their order.      *)
DeadLetterKeyWarning(s) ==
  IF s.dlKey = 0 /\ IsProductionBind(s) THEN <<"dead_letter_key">> ELSE <<>>
HmacWarning(s) ==
  IF s.secret = 0 /\ IsProductionSignal(s) THEN <<"hmac">> ELSE <<>>
TlsWarning(s) ==
  IF ~s.tlsVerify /\ IsProductionBind(s) THEN <<"tls">> ELSE <<>>

(* What lifespan() logs once it has tried to connect.                      *)
HmacNoticeByBind(s) ==                \* faulty: asks another question
  IF s.secret = 0 /\ ~IsProductionBind(s) THEN <<"hmac">> ELSE <<>>
HmacNotice(s) ==
  IF s.secret = 0 /\ ~IsProductionSignal(s) THEN <<"hmac">> ELSE <<>>
BindNotice(s) == IF IsProductionBind(s) THEN <<"bind">> ELSE <<>>
=============================================================================
