-------------------------- MODULE MCStorageAccess --------------------------
(* Instances of StorageAccess: an older process s1 and a newer process s2.   *)
EXTENDS StorageAccess

CONSTANTS s1, s2, o1, o2, e1, t1, q1, m1, m1old, m2, m3, mx

MCHome == [c \in Calls |-> IF c \in {o2, t1} THEN s2 ELSE s1]
MCKind == [c \in Calls |-> CASE c \in {o1, o2} -> "open" [] c = e1 -> "exec"
                              [] c = t1 -> "tx" [] c = q1 -> "rows"]
\* A process that has been upgraded and one that has not.
MCBuilds == [s \in Servers |-> IF s = s1 THEN <<m1, m2>> ELSE <<m1, m2, m3>>]
MCReleased == {<<m1old, m1>>}
MCHistories == {<<>>, <<m1old>>, <<mx>>}
MCPatience == [c \in Calls |-> IF c = e1 THEN 0 ELSE 9]
=============================================================================
