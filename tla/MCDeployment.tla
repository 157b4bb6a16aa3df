---------------------------- MODULE MCDeployment ----------------------------
(* An instance of Deployment: two sessions, databases a before b by name.    *)
EXTENDS Deployment
CONSTANTS a, b, d1, d2
MCOrder == <<a, b>>
Made(t, r, m) == [table |-> t, row |-> r, module |-> m, receipts |-> {}, archive |-> {}]
(* Fresh, older and conflicting databases.                                   *)
MCContents == {Made("absent", "none", "absent"), Made("older", "old", "older"),
               Made("canonical", "conflict", "canonical")}
MCSelections == {<<a>>, <<b>>, <<a, b>>, <<b, a>>}
(* Both databases in opposite roles, and two unrelated deployments; what the *)
(* sessions select never changes.                                            *)
Overlaps == <<roles[d1], roles[d2]>> \in {<< <<a, b>>, <<b, a>> >>, << <<a>>, <<b>> >>}
=============================================================================
