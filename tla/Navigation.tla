----------------------------- MODULE Navigation -----------------------------
(***************************************************************************)
(* The storage atlas of the interactive program: the tree on the screen,   *)
(* the stack of frames the user descended through, the cursor of each, and *)
(* what the layout and sort keys and a snapshot that arrives do to them.   *)
(* Tui is about the rest of the program; there any object may be the       *)
(* selected one.  Positions count from 1, and scrolling is left out.       *)
(***************************************************************************)
EXTENDS Grouping

CONSTANTS Snapshots \* a sequence: what scans may return

\* The list names every object once; the sizes that are taken as they are, unlike
\* those that may be unknown, are not negative.
ASSUME SnapshotsAssumption ==
  /\ Snapshots \in Seq(ToSet(Snapshots))
  /\ \A s \in ToSet(Snapshots) :
       /\ s.list \in Seq(UNION {{Mark(kind, id) : id \in DOMAIN s[kind]} : kind \in Kinds})
       /\ \A kind \in Kinds : \A id \in DOMAIN s[kind] :
            \E k \in DOMAIN s.list : s.list[k] = Mark(kind, id)
       /\ \A j, k \in DOMAIN s.list : s.list[j] = s.list[k] => j = k
       /\ \A i \in DOMAIN s.image : s.image[i].size \in Nat /\ s.image[i].shared \in Int
       /\ \A c \in DOMAIN s.container : s.container[c].rw \in Int /\ s.container[c].log \in Nat
       /\ \A v \in DOMAIN s.volume : s.volume[v].usage \in Int
       /\ \A b \in DOMAIN s.build_cache : s.build_cache[b].size \in Nat
       /\ s.layers \in Int

\* Names can be compared.
ASSUME RankAssumption ==
  \A s \in ToSet(Snapshots), view \in Layouts : \A t \in Trees(s, view) :
    \A n \in Nodes(t) \ {Root(view)} : Rank[n.id] \in Int

\* A daemon that reports the size of all layers counts every layer once, those of
\* one image only included (DiskUsage answers for both at one time).
ASSUME LayersAssumption ==
  \A k \in DOMAIN Snapshots :
    Snapshots[k].layers = -1 \/ Snapshots[k].layers >= ImagesExclusive(Snapshots[k])

VARIABLES
  snap,   \* m.snap: an index of Snapshots, 0 before the first
  layout, \* m.layout
  sortBy, \* m.sortBy
  tree,   \* m.root, no nodes before the first snapshot
  stack   \* m.stack: frames of a node and the position of the cursor in it

vars == <<snap, layout, sortBy, tree, stack>>

NoTree == [n \in {} |-> <<>>]

Init ==
  /\ snap = 0 /\ layout = "type" /\ sortBy = "size"
  /\ tree = NoTree /\ stack = <<>>

Frame(node, position) == [node |-> node, selected |-> position]
Top == Last(stack)
TopKids == Kids(tree, Top.node)

\* selectedNode, if there is one.
Selected == IF stack # <<>> /\ Top.selected \in DOMAIN TopKids
            THEN {TopKids[Top.selected]} ELSE {}

\* nodeMark: what can be marked of the nodes.  By project a build cache entry has
\* no ID.
MarksOf(nodes, view) ==
  {Mark(n.kind, n.id) :
     n \in {m \in nodes : \/ m.kind \in {"image", "container", "volume"}
                          \/ m.kind = "build_cache" /\ view = "type"}}

\* The frames from the root down to the parent of a node.
PathTo(t, node) ==
  LET path[n \in Nodes(t)] ==
        LET parents == {p \in DOMAIN t : Contains(t[p], n)}
        IN IF parents = {} THEN <<>>
           ELSE LET p == CHOOSE q \in parents : TRUE
                IN Append(path[p], Frame(p, SelectInSeq(t[p], LAMBDA k : k = n)))
  IN path[node]

\* restoreSelection: to the node with this mark, if the tree has one.
Restored(t, view, marks, otherwise) ==
  LET found == {n \in Nodes(t) : MarksOf({n}, view) # {} /\ MarksOf({n}, view) \subseteq marks}
  IN IF found = {} THEN otherwise ELSE PathTo(t, CHOOSE n \in found : TRUE)

\* Mutant: the frames of the old tree stay.
RebuildUnderFrames(s, view) ==
  /\ \E t \in Trees(Snapshots[s], view) : tree' = Sort(Snapshots[s], view, t, sortBy)
  /\ stack' = Restored(tree', view, MarksOf(Selected, layout),
                       IF stack = <<>> THEN <<Frame(Root(view), 1)>> ELSE stack)

\* rebuildTree.
Rebuild(s, view) ==
  /\ \E t \in Trees(Snapshots[s], view) : tree' = Sort(Snapshots[s], view, t, sortBy)
  /\ stack' = Restored(tree', view, MarksOf(Selected, layout), <<Frame(Root(view), 1)>>)

\* scanDoneMsg and prepareDoneMsg without an error.
ShowSnapshot(s) ==
  /\ snap' = s
  /\ Rebuild(s, layout)
  /\ UNCHANGED <<layout, sortBy>>

\* g
ToggleLayout ==
  /\ layout' = IF layout = "type" THEN "project" ELSE "type"
  /\ IF snap = 0 THEN UNCHANGED <<tree, stack>> ELSE Rebuild(snap, layout')
  /\ UNCHANGED <<snap, sortBy>>

NextSort == [size |-> "name", name |-> "count", count |-> "size"][sortBy]

\* Mutant: the selection is not looked up again.
CycleSortInPlace ==
  /\ sortBy' = NextSort
  /\ tree' = IF snap = 0 THEN tree ELSE Sort(Snapshots[snap], layout, tree, sortBy')
  /\ UNCHANGED <<snap, layout, stack>>

\* s
CycleSort ==
  /\ sortBy' = NextSort
  /\ tree' = IF snap = 0 THEN tree ELSE Sort(Snapshots[snap], layout, tree, sortBy')
  /\ stack' = Restored(tree', layout, MarksOf(Selected, layout), stack)
  /\ UNCHANGED <<snap, layout>>

SetCursor(position) ==
  /\ stack # <<>>
  /\ TopKids # <<>>
  /\ stack' = [stack EXCEPT ![Len(stack)].selected = position]
  /\ UNCHANGED <<snap, layout, sortBy, tree>>

Down == SetCursor(Min({Top.selected + 1, Len(TopKids)}))
Up == SetCursor(Max({Top.selected - 1, 1}))
Home == SetCursor(1)

Descend ==
  /\ stack # <<>>
  /\ \E child \in Selected :
       /\ Kids(tree, child) # <<>>
       /\ stack' = Append(stack, Frame(child, 1))
  /\ UNCHANGED <<snap, layout, sortBy, tree>>

Ascend ==
  /\ Len(stack) > 1
  /\ stack' = Front(stack)
  /\ UNCHANGED <<snap, layout, sortBy, tree>>

Next ==
  \/ \E s \in DOMAIN Snapshots : ShowSnapshot(s)
  \/ ToggleLayout \/ CycleSort
  \/ Down \/ Up \/ Home \/ Descend \/ Ascend

Spec == Init /\ [][Next]_vars

-----------------------------------------------------------------------------
(* Properties. *)

\* descend indexes the children of a frame's node without a check of its own: no
\* snapshot, however much smaller, no layout and no order leaves a frame on a node
\* that is gone or a cursor past the end.
CursorsInRange ==
  \A k \in DOMAIN stack :
    /\ stack[k].node \in DOMAIN tree
    /\ stack[k].selected \in 1..Max({Len(tree[stack[k].node]), 1})

\* What d would mark is the same object before and after another layout, another
\* order or a new snapshot, wherever in the tree it comes to lie, unless it is gone
\* or cannot be marked there.
SelectionSurvives ==
  [][snap' # snap \/ layout' # layout \/ sortBy' # sortBy =>
       MarksOf(Selected, layout) \cap MarksOf(Nodes(tree)', layout')
         \subseteq MarksOf(Selected', layout')]_vars

\* The nodes and positions under which a node appears.
Places(n) == UNION {{p} \X {k \in DOMAIN tree[p] : tree[p][k] = n} : p \in DOMAIN tree}

\* Each object of the snapshot has one place in the tree, whatever the labels of
\* the containers that share it, and so has every group.
EveryObjectOnce ==
  snap # 0 =>
    /\ \A m \in Objects(Snapshots[snap]) : Leaf(m) \in Nodes(tree)
    /\ \A n \in Nodes(tree) \ {Root(layout)} :
         \E place \in Places(n) : Places(n) = {place}

\* The total of the tree is the same in both layouts, and that of ComputeTotals:
\* shared layers are counted once, logs too, and nothing is left out.
TotalsAgree ==
  snap # 0 =>
    Sizes(Snapshots[snap], layout, tree)[Root(layout)].total
      = SumFunction(Totals(Snapshots[snap]))
=============================================================================
