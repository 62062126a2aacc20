----------------------------- MODULE Lifecycle ------------------------------
(***************************************************************************)
(* What a client of the REST API is promised about one document, and all   *)
(* that client.wait_for relies on: a document is accepted, processed until *)
(* it reaches a terminal status, and from then on changes only when it is  *)
(* reprocessed, which is a new version, or deleted, which is final.        *)
(***************************************************************************)
EXTENDS Naturals

CONSTANT Docs

VARIABLES phase, version

lifeVars == <<phase, version>>

Phases == {"absent", "processing", "settled", "deleted"}

Become(d, from, to, v) ==
  /\ phase[d] = from
  /\ phase' = [phase EXCEPT ![d] = to]
  /\ version' = [version EXCEPT ![d] = v]

Accept(d) == Become(d, "absent", "processing", 1)
Settle(d) == Become(d, "processing", "settled", version[d])
Restart(d) == Become(d, "settled", "processing", version[d] + 1)
Delete(d) == Become(d, "settled", "deleted", 0)

LifeInit ==
  /\ phase = [d \in Docs |-> "absent"]
  /\ version = [d \in Docs |-> 0]

LifeNext == \E d \in Docs : Accept(d) \/ Settle(d) \/ Restart(d) \/ Delete(d)

LifeSpec == LifeInit /\ [][LifeNext]_lifeVars
=============================================================================
