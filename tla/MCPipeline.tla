----------------------------- MODULE MCPipeline -----------------------------
(* Values of the constants of Pipeline for TLC. *)
EXTENDS Pipeline

(* The max_tries of the three WorkerSettings classes. *)
CodeTries == [kind \in Kinds |-> IF kind = "graph" THEN 2 ELSE 3]

(* As few tries as show what happens when they are used up. *)
TwoTries == [kind \in Kinds |-> 2]

(* One disturbance shows both a job that runs again and one whose tries    *)
(* are used up.                                                            *)
MixedTries == [kind \in Kinds |-> IF kind = "chunk" THEN 1 ELSE 2]

(* One try more than the disturbances of a run can use up. *)
ThreeTries == [kind \in Kinds |-> 3]
=============================================================================
