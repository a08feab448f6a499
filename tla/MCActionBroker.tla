--------------------------- MODULE MCActionBroker ---------------------------
(* Instances of ActionBroker for model checking: requests r1 and r2 (and r3) *)
(* for plans of one worktree.                                               *)
EXTENDS ActionBroker

CONSTANTS w1, s1, s2, k1, k2, k3, h1, h2, h3, c1, c2, p1, p2, p4, r1, r2, r3, r4, r5

\* Two requests for two plans, by one process each.
MCTarget == [p \in Plans |-> w1]
MCPlanContext == [p \in Plans |-> c1]
MCTimeout == [p \in Plans |-> 1]
\* repository.sync: 300 seconds, as long as the lease.
MCLeaseTimeout == [p \in Plans |-> 2]
MCDeadline == [p \in Plans |-> 2]
MCPlanOf == [r \in Requests |-> IF r = r2 THEN p2 ELSE p1]
MCSamePlan == [r \in Requests |-> p1]
MCHolderOf == [r \in Requests |-> CASE r = r1 -> h1 [] r = r2 -> h2 [] r = r3 -> h3]
MCOneHolder == [r \in Requests |-> h1]
MCKeyOf == [r \in Requests |-> CASE r = r1 -> k1 [] r = r2 -> k2 [] r = r3 -> k3]
MCOneKey == [r \in Requests |-> k1]
MCServerOf == [r \in Requests |-> IF r = r2 THEN s2 ELSE s1]

=============================================================================
