------------------------------ MODULE Planner ------------------------------
(***************************************************************************)
(* plan.Build as the loop it is: one step per mark, then the stable sort   *)
(* that puts containers first, then the sum of the estimates.  The         *)
(* snapshot and the marks are arbitrary members of Snapshots and MarkSeqs. *)
(***************************************************************************)
EXTENDS PlanRules

CONSTANTS Snapshots, \* the inventories Build may be given
          Marks,     \* the marks a caller may pass
          MarkSeqs   \* the sequences of them it passes, repetitions included

ASSUME MarkSeqsAssumption == MarkSeqs \subseteq Seq(Marks)

\* An inventory is finite; the sizes that Build and ComputeTotals take as they are,
\* unlike those that may be unknown, are not negative.
ASSUME SnapshotsAssumption ==
  \A s \in Snapshots :
    /\ \A kind \in Kinds : IsFiniteSet(DOMAIN s[kind])
    /\ \A i \in DOMAIN s.image : s.image[i].size \in Nat /\ s.image[i].shared \in Int
    /\ \A c \in DOMAIN s.container : s.container[c].rw \in Int /\ s.container[c].log \in Nat
    /\ \A v \in DOMAIN s.volume : s.volume[v].usage \in Int
    /\ \A b \in DOMAIN s.build_cache : s.build_cache[b].size \in Nat

VARIABLES snap, marks,
          next,   \* index in marks of the mark the loop looks at
          seen,   \* marks already handled
          items, blocked, warnings, est, \* the Plan under construction
          phase   \* "marks", "sort", "sum" or "done"

plan == <<items, blocked, warnings, est>>
vars == <<snap, marks, next, seen, plan, phase>>

Init ==
  /\ snap \in Snapshots
  /\ marks \in MarkSeqs
  /\ next = 1
  /\ seen = {}
  /\ items = <<>> /\ blocked = <<>> /\ warnings = <<>> /\ est = 0
  /\ phase = "marks"

Current == marks[next]

Warning(why) == [mark |-> Current, why |-> why]

\* The loop looks at a mark for the first time ...
LooksAtNew ==
  /\ phase = "marks"
  /\ next <= Len(marks)
  /\ Current \notin seen

HandledUnrecorded ==
  /\ next' = next + 1
  /\ UNCHANGED <<snap, marks, seen, est, phase>>

\* ... and is done with it.
Handled ==
  /\ seen' = seen \cup {Current}
  /\ next' = next + 1
  /\ UNCHANGED <<snap, marks, est, phase>>

\* A repeated mark is passed over.
SkipSeen ==
  /\ phase = "marks"
  /\ next <= Len(marks)
  /\ Current \in seen
  /\ next' = next + 1
  /\ UNCHANGED <<snap, marks, seen, plan, phase>>

WarnUnsupported ==
  /\ LooksAtNew
  /\ Current.kind \notin Kinds
  /\ warnings' = Append(warnings, Warning("unsupported"))
  /\ Handled
  /\ UNCHANGED <<items, blocked>>

WarnMissing ==
  /\ LooksAtNew
  /\ Current.kind \in Kinds
  /\ ~Found(snap, Current)
  /\ warnings' = Append(warnings, Warning("missing"))
  /\ Handled
  /\ UNCHANGED <<items, blocked>>

BlockWithoutContinue ==
  /\ LooksAtNew
  /\ Found(snap, Current)
  /\ Protected(snap, Current)
  /\ blocked' = Append(blocked, Item(snap, Current))
  /\ items' = Append(items, Item(snap, Current))
  /\ Handled
  /\ UNCHANGED warnings

BlockMark ==
  /\ LooksAtNew
  /\ Found(snap, Current)
  /\ Protected(snap, Current)
  /\ blocked' = Append(blocked, Item(snap, Current))
  /\ Handled
  /\ UNCHANGED <<items, warnings>>

AcceptMark ==
  /\ LooksAtNew
  /\ Found(snap, Current)
  /\ ~Protected(snap, Current)
  /\ items' = Append(items, Item(snap, Current))
  /\ warnings' = IF TagWarning(snap, Current)
                   THEN Append(warnings, Warning("tagged")) ELSE warnings
  /\ Handled
  /\ UNCHANGED blocked

EndOfMarks ==
  /\ phase = "marks"
  /\ next > Len(marks)
  /\ phase' = "sort"
  /\ UNCHANGED <<snap, marks, next, seen, plan>>

SortItems ==
  /\ phase = "sort"
  /\ items' \in ContainersFirst(items)
  /\ phase' = "sum"
  /\ UNCHANGED <<snap, marks, next, seen, blocked, warnings, est>>

SumEstimates ==
  /\ phase = "sum"
  /\ est' = SumEst(items)
  /\ phase' = "done"
  /\ UNCHANGED <<snap, marks, next, seen, items, blocked, warnings>>

Next ==
  \/ SkipSeen
  \/ WarnUnsupported
  \/ WarnMissing
  \/ BlockMark
  \/ AcceptMark
  \/ EndOfMarks
  \/ SortItems
  \/ SumEstimates

Spec == Init /\ [][Next]_vars

-----------------------------------------------------------------------------
(* Properties. *)

\* What Build may have appended so far.
Candidates == {Item(snap, m) : m \in {n \in seen : Found(snap, n)}}
Cautions == [mark : seen, why : {"unsupported", "missing", "tagged"}]

\* The plan's lists hold items about marks of this call, with their estimates.
TypeOK ==
  /\ marks \in Seq(Marks)
  /\ next \in 1..(Len(marks) + 1)
  /\ seen \subseteq ToSet(marks)
  /\ items \in Seq(Candidates)
  /\ blocked \in Seq(Candidates)
  /\ warnings \in Seq(Cautions)
  /\ phase \in {"marks", "sort", "sum", "done"}

Planned(kind, id) == \E k \in DOMAIN items : items[k].mark = Mark(kind, id)

\* Whatever was marked, the plan keeps every container that is active or in a
\* state dodu does not know, the image it was created from, and the volumes of
\* every container, a stopped or an already planned one included; it keeps what
\* the daemon counts as referenced and the build cache in use.
PlanSparesWhatIsUsed ==
  /\ \A c \in DOMAIN snap.container :
       LET container == snap.container[c]
       IN /\ \A v \in container.mounts : ~Planned("volume", v)
          /\ container.state \notin {"exited", "created", "dead"} =>
               ~Planned("container", c) /\ ~Planned("image", container.image)
  /\ \A v \in DOMAIN snap.volume : snap.volume[v].refs > 0 => ~Planned("volume", v)
  /\ \A b \in DOMAIN snap.build_cache :
       snap.build_cache[b].inUse => ~Planned("build_cache", b)

Places(list, mark) == {k \in DOMAIN list : list[k].mark = mark}

\* Where the plan answers a mark: in Items, in Blocked, or in a warning that it
\* was passed over (the "tagged" warning accompanies an item).
Answers(mark) ==
  ({"items"} \X Places(items, mark))
  \cup ({"blocked"} \X Places(blocked, mark))
  \cup ({"warnings"} \X {k \in Places(warnings, mark) : warnings[k].why # "tagged"})

\* Every mark handled so far has exactly one answer however often it was given,
\* so no object is deleted twice, counted twice, or dropped in silence; a mark
\* not handled yet has none, and Build does not stop before the last mark.
EveryMarkAnsweredOnce ==
  /\ \A m \in ToSet(marks) \ seen : Answers(m) = {}
  /\ \A m \in seen : \E a \in Answers(m) : Answers(m) = {a}
  /\ phase # "marks" => seen = ToSet(marks)

FirstIndex(mark) == CHOOSE i \in DOMAIN marks :
                      marks[i] = mark /\ \A j \in 1..(i - 1) : marks[j] # mark

\* Stopped containers are removed before the images they were created from, and
\* apart from that the user's order of marks is the order of deletion.
RemovalOrder ==
  phase \in {"sum", "done"} =>
    \A a, b \in DOMAIN items :
      LET x == items[a].mark  y == items[b].mark
      IN a < b => \/ x.kind = "container" /\ y.kind # "container"
                  \/ /\ x.kind = "container" <=> y.kind = "container"
                     /\ FirstIndex(x) < FirstIndex(y)

\* Build implements what the modules that use a plan assume of it: it lists the
\* allowed marks, each once, with its own estimate, the containers first.
BuildMeetsRules == phase = "done" => items \in PlansOf(snap, ToSet(marks))

\* The plan's estimate counts each planned object once, and a plan of default
\* candidates never promises more than the total the views call reclaimable.
EstimateIsHonest ==
  phase = "done" =>
    /\ est = SumFunction([m \in {items[k].mark : k \in DOMAIN items} |-> Estimate(snap, m)])
    /\ ToSet(marks) \subseteq DefaultMarks(snap, Kinds) => est <= Reclaimable(snap)

\* pkg/size/totals.go: "Reclaimable is a conservative estimate": deleting all
\* the default candidates reclaims at least that much.
ReclaimableIsConservative ==
  phase = "done" /\ ToSet(marks) = DefaultMarks(snap, Kinds) =>
    est >= Reclaimable(snap)
=============================================================================
