------------------------- MODULE MCReconnectBackoff -------------------------
(* Small instance of ReconnectBackoff: every host, URL and secret with one *)
(* timing, and every timing with one environment.                          *)
EXTENDS ReconnectBackoff

Default ==
  [host |-> "loopback", url |-> None, secret |-> 0, dlKey |-> 0, tlsVerify |-> TRUE,
   base |-> 2, cap |-> 4, jitter |-> 1, hardTimeout |-> 1]

Lengths == {0, MinSecretLength - 1, MinSecretLength}

MCEnvironments ==
  {[Default EXCEPT !.host = h, !.url = u, !.secret = l, !.dlKey = k, !.tlsVerify = v] :
     h \in Hosts, u \in Urls, l \in Lengths, k \in Lengths, v \in BOOLEAN}
  \cup {[Default EXCEPT !.base = b, !.cap = c, !.jitter = j, !.hardTimeout = t] :
          b \in 0..2, c \in {1, 3, 4, 8}, j \in 0..2, t \in 0..2}
=============================================================================
