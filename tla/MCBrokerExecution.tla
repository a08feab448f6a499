-------------------------- MODULE MCBrokerExecution --------------------------
(***************************************************************************)
(* One run for three situations: the authority of r3 runs out or is        *)
(* revoked; or the worktree moves under r1; or r1 and r2, the latter a     *)
(* Jenkins request of another process, contend for the worktree with one   *)
(* key.  Apart explores the three, not their product.                      *)
(***************************************************************************)
EXTENDS MCActionBroker

MCPlan == [r \in Requests |-> CASE r = r1 -> p1 [] r = r2 -> p2 [] r = r3 -> p4]
MCHolder == [r \in Requests |-> IF r = r2 THEN h2 ELSE h1]

Begun == {r \in Requests : pc[r] # "idle"}
Still == disk[w1] = c1 /\ seen[w1] = c1 /\ trusted[w1] = c1 /\ consent[w1] = None
Unasked == approvals = {} /\ revoked = {} /\ prompts = [s \in Servers |-> None]

Authority ==
  /\ Begun \subseteq {r3} /\ Still
  /\ \A d \in approvals \cup ({prompts[s] : s \in Servers} \ {None}) : d.plan = p4
Drift == Begun \subseteq {r1} /\ Unasked /\ clock <= 2
Contention == Begun \subseteq {r1, r2} /\ Still /\ Unasked
Apart == Authority \/ Drift \/ Contention
=============================================================================
