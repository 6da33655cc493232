------------------------ MODULE MCStreamProvisioning ------------------------
(* An instance of StreamProvisioning: one stream with a fixed retention    *)
(* (the code has two, which are handled alike) and the one with a setting. *)
EXTENDS StreamProvisioning

MCOrder == <<"homeric-tasks", "homeric-deadletter">>
=============================================================================
