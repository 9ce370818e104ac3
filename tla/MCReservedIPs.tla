---------------------------- MODULE MCReservedIPs ----------------------------
(* ReservedIPs with one complete and one partial record, two roles, and    *)
(* three tables: an older build; the present one, which moves one role and *)
(* retires the other; and the present one without its state file.          *)
EXTENDS ReservedIPs

CONSTANTS workload, infra, bosh, proxy, a1, a2, a3, s1, s2

MCRecords == {workload, infra}
MCComplete == {workload}
MCKeys == {bosh, proxy}
MCAddrs == {a1, a2, a3}
MCSchemes == {s1, s2}

At(b, p) == [k \in MCKeys |-> IF k = bosh THEN b ELSE p]
Table(s, w, i) == [scheme |-> s, at |-> [r \in MCRecords |-> IF r = workload THEN w ELSE i]]

MCTables == {
    Table(s1, At(a1, a2), At(a3, None)),
    Table(s2, At(a2, None), At(a2, a3)),
    Table(s2, At(a3, a2), At(None, None))}
=============================================================================
