----------------------------- MODULE MCCleanup -----------------------------
(* The items and plans a cleanup of one image, container and volume can have. *)
EXTENDS Cleanup

C == [mark |-> Mark("container", "c1"), est |-> 1]
I == [mark |-> Mark("image", "i1"), est |-> 5]
V == [mark |-> Mark("volume", "v1"), est |-> 0]
MCItems == {C, I, V}

\* Everything, as prune does: what is in use drops out of the plan.
MCMarkSets == {AllMarks}

\* Any of them, the container first.
MCPlans == {<<>>, <<I>>, <<V>>, <<I, V>>, <<V, I>>,
            <<C>>, <<C, I>>, <<C, V>>, <<C, I, V>>, <<C, V, I>>}
=============================================================================
