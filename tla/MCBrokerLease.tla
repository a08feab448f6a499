---------------------------- MODULE MCBrokerLease ----------------------------
(* One run for two situations: r1, r2 and r3 contend for the lease of one     *)
(* worktree, or r3, r4 and r5 come with one key while storage fails.  Apart   *)
(* explores the two, not their product, and of three requests that are under  *)
(* way at once only the beginning.                                            *)
EXTENDS MCActionBroker

MCPlan == [r \in Requests |-> CASE r = r2 -> p2 [] r = r5 -> p4 [] OTHER -> p1]
MCHolder == [r \in Requests |-> CASE r = r1 -> h1 [] r = r2 -> h2 [] OTHER -> h3]
MCKey == [r \in Requests |-> CASE r = r1 -> k1 [] r = r2 -> k2 [] OTHER -> k3]
MCServer == [r \in Requests |-> IF r \in {r2, r5} THEN s2 ELSE s1]

Resting(r) == pc[r] \in Terminal \cup {"idle"}
Leases ==
  /\ \A r \in {r4, r5} : pc[r] = "idle" /\ r \notin cancelled
  /\ clock = 0 \/ \E r \in {r1, r2, r3} : Resting(r)
Retries ==
  /\ \A r \in {r1, r2} : pc[r] = "idle"
  /\ clock = 0 \/ (clock = 1 /\ Resting(r3))
Apart == Leases \/ Retries
=============================================================================
