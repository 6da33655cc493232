-------------------------- MODULE MCSubjectRouting --------------------------
(* Small instance of SubjectRouting: every text of up to two characters    *)
(* and a few longer ones, in each field in turn.                           *)
EXTENDS SubjectRouting, TLC

MCAgentEvents == { <<"agent", ".", "created">>, <<"agent", ".", "updated">> }
MCTaskEvents == { <<"task", ".", "updated">> }

MCCharacters ==
  {"hi", "agents", "tasks", "deadletter", "unknown", "agent", "task", "created", "updated",
   "a", "A", "b", " ", "\t", "\f", ".", "*", ">", "-"}

Chars == {"a", "A", "b", " ", "\t", ".", "*"}
Samples ==
  {<<>>, <<"*", "a", "b", "A">>, <<"a", ".", "*", "b">>, <<" ", "a", ">", "\t">>, <<"unknown">>,
   <<"a", "b", "b">>, <<"a", "b", "a">>, <<"a", "\t", "b">>, <<"a", "\f", "b">>,
   <<"a", "b", "\t", "b">>, <<"*", "\t", "a">>,
   <<"\f", "a">>}
  \cup {<<c>> : c \in Chars} \cup (Chars \X Chars)

NoData == [f \in Fields |-> Null]

About(first, second, third) ==
  [NoData EXCEPT !.hostId = first, !.host = second, !.name = third,
                 !.team_id = third, !.id = first, !.task_id = second]

MCPayloads ==
  {[event |-> e, data |-> About(v, w, <<"a">>)] :
     e \in MCAgentEvents \cup MCTaskEvents, v \in Samples \cup {Null}, w \in {Null, <<"b">>}}
  \cup {[event |-> v, data |-> NoData] : v \in Samples}
=============================================================================
