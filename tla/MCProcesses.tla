---------------------------- MODULE MCProcesses -----------------------------
(* A plan of two items for this process; the other one wants one of them, too. *)
EXTENDS Processes

MCItem(kind, id, est) == [mark |-> [kind |-> kind, id |-> id], est |-> est]

Container == MCItem("container", "c1", 2)
Cache == MCItem("build_cache", "b1", 5)

MCItems == {Container, Cache}
MCFreed == {4}

\* A removal and a prune, and the empty plan; the other process prunes the same
\* entry or removes the same container.
MCPlans == {<<Container, Cache>>, <<>>}
MCOtherPlans == {<<Cache>>, <<Container>>}
=============================================================================
