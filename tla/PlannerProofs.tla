--------------------------- MODULE PlannerProofs ---------------------------
(***************************************************************************)
(* What Build guarantees for every inventory and every sequence of marks.  *)
(***************************************************************************)
EXTENDS Planner, FiniteSetTheorems, WellFoundedInduction, TLAPS

\* The strengthening that makes PlanSparesWhatIsUsed inductive: the loop only
\* appends items it found and did not protect, and the sort adds none.
ItemsAllowed ==
  \A k \in DOMAIN items :
    Found(snap, items[k].mark) /\ ~Protected(snap, items[k].mark)

\* Sorting rearranges: the sorted items are the items, each at one place.
LEMMA SortRearranges ==
  ASSUME NEW S, NEW list \in Seq(S), NEW sorted \in ContainersFirst(list)
  PROVE  /\ sorted \in Seq(S)
         /\ \E p \in Bijection(DOMAIN list, DOMAIN list) :
              sorted = [r \in DOMAIN list |-> list[p[r]]]
<1>1. PICK p \in Bijection(DOMAIN list, DOMAIN list) :
        sorted = [r \in DOMAIN list |-> list[p[r]]]
  BY DEF ContainersFirst
<1>2. p \in [DOMAIN list -> DOMAIN list]
  BY <1>1 DEF Bijection, Injection
<1>3. DOMAIN list = 1..Len(list) /\ Len(list) \in Nat
  OBVIOUS
<1>4. sorted \in [1..Len(list) -> S]
  BY <1>1, <1>2, <1>3
<1> QED
  BY <1>1, <1>3, <1>4

LEMMA TypeStep == TypeOK /\ [Next]_vars => TypeOK'
<1> SUFFICES ASSUME TypeOK, [Next]_vars PROVE TypeOK'
  OBVIOUS
<1>0. /\ marks \in Seq(Marks) /\ next \in 1..(Len(marks) + 1) /\ seen \subseteq ToSet(marks)
      /\ items \in Seq(Candidates) /\ blocked \in Seq(Candidates) /\ warnings \in Seq(Cautions)
      /\ Len(marks) \in Nat
  BY DEF TypeOK
<1>1. ASSUME LooksAtNew, Handled
      PROVE  /\ marks' \in Seq(Marks) /\ next' \in 1..(Len(marks') + 1)
             /\ seen' \subseteq ToSet(marks') /\ phase' = "marks"
             /\ Candidates \subseteq Candidates' /\ Cautions \subseteq Cautions'
             /\ Found(snap, Current) => Item(snap, Current) \in Candidates'
             /\ \A why \in {"unsupported", "missing", "tagged"} : Warning(why) \in Cautions'
  <2>1. Current \in ToSet(marks)
    BY <1>0, <1>1 DEF LooksAtNew, Current, ToSet
  <2> QED
    BY <2>1, <1>0, <1>1 DEF LooksAtNew, Handled, Candidates, Cautions, Warning
<1>2. ASSUME Candidates \subseteq Candidates', Cautions \subseteq Cautions'
      PROVE  /\ items \in Seq(Candidates') /\ blocked \in Seq(Candidates')
             /\ warnings \in Seq(Cautions')
  BY <1>0, <1>2
<1>3. CASE SkipSeen
  BY <1>0, <1>3 DEF SkipSeen, plan, TypeOK, Candidates, Cautions
<1>4. CASE WarnUnsupported
  BY <1>0, <1>1, <1>2, <1>4 DEF WarnUnsupported, TypeOK
<1>5. CASE WarnMissing
  BY <1>0, <1>1, <1>2, <1>5 DEF WarnMissing, TypeOK
<1>6. CASE BlockMark
  BY <1>0, <1>1, <1>2, <1>6 DEF BlockMark, TypeOK
<1>7. CASE AcceptMark
  BY <1>0, <1>1, <1>2, <1>7 DEF AcceptMark, TypeOK
<1>8. CASE EndOfMarks
  BY <1>8 DEF EndOfMarks, TypeOK, plan, Candidates, Cautions
<1>9. CASE SortItems
  <2>1. items' \in Seq(Candidates)
    BY <1>0, <1>9, SortRearranges DEF SortItems
  <2> QED
    BY <2>1, <1>9 DEF SortItems, TypeOK, Candidates, Cautions
<1>10. CASE SumEstimates
  BY <1>10 DEF SumEstimates, TypeOK, Candidates, Cautions
<1>11. CASE UNCHANGED vars
  BY <1>11 DEF vars, plan, TypeOK, Candidates, Cautions
<1> QED
  BY <1>3, <1>4, <1>5, <1>6, <1>7, <1>8, <1>9, <1>10, <1>11 DEF Next

\* Build keeps its lists well formed, whatever it is given.
THEOREM PlannerTypeOK == Spec => []TypeOK
<1>1. Init => TypeOK
  <2> SUFFICES ASSUME Init PROVE TypeOK
    OBVIOUS
  <2>1. marks \in Seq(Marks) /\ Len(marks) \in Nat
    BY MarkSeqsAssumption DEF Init
  <2> QED
    BY <2>1 DEF Init, TypeOK
<1> QED
  BY <1>1, TypeStep, PTL DEF Spec

LEMMA AllowedStep == TypeOK /\ ItemsAllowed /\ [Next]_vars => ItemsAllowed'
<1> SUFFICES ASSUME TypeOK, ItemsAllowed, [Next]_vars PROVE ItemsAllowed'
  OBVIOUS
<1> DEFINE Allowed(item) == Found(snap, item.mark) /\ ~Protected(snap, item.mark)
<1>0. items \in Seq(Candidates) /\ \A k \in DOMAIN items : Allowed(items[k])
  BY DEF TypeOK, ItemsAllowed
<1>1. CASE snap' = snap /\ items' = items
  BY <1>0, <1>1 DEF ItemsAllowed
<1>2. CASE AcceptMark
  <2>1. snap' = snap /\ items' = Append(items, Item(snap, Current))
    BY <1>2 DEF AcceptMark, Handled
  <2>2. Allowed(Item(snap, Current))
    BY <1>2 DEF AcceptMark, Item
  <2>3. \A k \in DOMAIN items' : Allowed(items'[k])
    BY <1>0, <2>1, <2>2
  <2> QED
    BY <2>1, <2>3 DEF ItemsAllowed
<1>3. CASE SortItems
  <2>1. PICK p \in Bijection(DOMAIN items, DOMAIN items) :
          items' = [r \in DOMAIN items |-> items[p[r]]]
    BY <1>0, <1>3, SortRearranges DEF SortItems
  <2>2. \A r \in DOMAIN items' : \E k \in DOMAIN items : items'[r] = items[k]
    BY <2>1 DEF Bijection, Injection
  <2>3. snap' = snap
    BY <1>3 DEF SortItems
  <2> QED
    BY <1>0, <2>2, <2>3 DEF ItemsAllowed
<1> QED
  BY <1>1, <1>2, <1>3 DEF Next, vars, plan, SkipSeen, WarnUnsupported, WarnMissing,
     BlockMark, EndOfMarks, SumEstimates, Handled

\* No order or repetition of marks makes Build plan the deletion of something
\* the inventory shows in use: for every inventory and every list of marks.
THEOREM PlannerSparesWhatIsUsed == Spec => []PlanSparesWhatIsUsed
<1>1. Init => ItemsAllowed
  BY DEF Init, ItemsAllowed
<1>2. ItemsAllowed => PlanSparesWhatIsUsed
  <2> SUFFICES ASSUME ItemsAllowed PROVE PlanSparesWhatIsUsed
    OBVIOUS
  <2>1. \A kind, id : Planned(kind, id) =>
          Found(snap, Mark(kind, id)) /\ ~Protected(snap, Mark(kind, id))
    BY DEF Planned, ItemsAllowed
  <2>2. ASSUME NEW c \in DOMAIN snap.container, NEW v \in snap.container[c].mounts
        PROVE  ~Planned("volume", v)
    BY <2>1 DEF Protected, Mark, UsedVolumes
  <2>3. ASSUME NEW c \in DOMAIN snap.container, ~Stopped(snap.container[c].state)
        PROVE  ~Planned("container", c) /\ ~Planned("image", snap.container[c].image)
    BY <2>1, <2>3 DEF Protected, Mark, RunningByImage
  <2>4. ASSUME NEW v \in DOMAIN snap.volume, snap.volume[v].refs > 0
        PROVE  ~Planned("volume", v)
    BY <2>1, <2>4 DEF Protected, Mark
  <2>5. ASSUME NEW b \in DOMAIN snap.build_cache, snap.build_cache[b].inUse
        PROVE  ~Planned("build_cache", b)
    BY <2>1, <2>5 DEF Protected, Mark
  <2> QED
    BY <2>2, <2>3, <2>4, <2>5 DEF PlanSparesWhatIsUsed, Stopped
<1> QED
  BY <1>1, <1>2, AllowedStep, PlannerTypeOK, PTL DEF Spec

\* Build handles the marks in order, so at the end it has handled them all.
HandledSoFar ==
  /\ \A i \in 1..(next - 1) : marks[i] \in seen
  /\ phase # "marks" => seen = ToSet(marks)

Single(S) == \E a \in S : S = {a}

LEMMA AppendedPlace ==
  ASSUME NEW S, NEW list \in Seq(S), NEW x, NEW mark
  PROVE  Places(Append(list, x), mark) =
           Places(list, mark) \cup (IF x.mark = mark THEN {Len(list) + 1} ELSE {})
BY DEF Places

\* A permutation of the items changes the place of an answer, not its number.
LEMMA SortKeepsPlaces ==
  ASSUME NEW S, NEW list \in Seq(S), NEW p \in Bijection(DOMAIN list, DOMAIN list), NEW mark
  PROVE  LET sorted == [r \in DOMAIN list |-> list[p[r]]]
         IN /\ Places(list, mark) = {} => Places(sorted, mark) = {}
            /\ Single(Places(list, mark)) => Single(Places(sorted, mark))
<1> DEFINE sorted == [r \in DOMAIN list |-> list[p[r]]]
<1>1. /\ p \in [DOMAIN list -> DOMAIN list]
      /\ \A a, b \in DOMAIN list : p[a] = p[b] => a = b
      /\ \A k \in DOMAIN list : \E r \in DOMAIN list : p[r] = k
  BY DEF Bijection, Injection, Surjection, IsInjective
<1>2. Places(sorted, mark) = {r \in DOMAIN list : p[r] \in Places(list, mark)}
  BY <1>1 DEF Places
<1>3. ASSUME Single(Places(list, mark)) PROVE Single(Places(sorted, mark))
  <2>1. PICK k \in DOMAIN list : Places(list, mark) = {k}
    BY <1>3 DEF Single, Places
  <2>2. PICK r \in DOMAIN list : p[r] = k
    BY <1>1
  <2>3. Places(sorted, mark) = {r}
    BY <1>1, <1>2, <2>1, <2>2
  <2> QED
    BY <2>3 DEF Single
<1> QED
  BY <1>2, <1>3

LEMMA HandledStep == TypeOK /\ HandledSoFar /\ [Next]_vars => HandledSoFar'
<1> SUFFICES ASSUME TypeOK, HandledSoFar, [Next]_vars PROVE HandledSoFar'
  OBVIOUS
<1>0. Len(marks) \in Nat /\ next \in 1..(Len(marks) + 1) /\ DOMAIN marks = 1..Len(marks)
  BY DEF TypeOK
<1>1. CASE phase = "marks" /\ next <= Len(marks) /\ Handled
  BY <1>0, <1>1 DEF HandledSoFar, Handled, Current
<1>2. CASE SkipSeen
  BY <1>0, <1>2 DEF HandledSoFar, SkipSeen, Current
<1>3. CASE EndOfMarks
  <2>1. ToSet(marks) \subseteq seen
    BY <1>0, <1>3 DEF EndOfMarks, HandledSoFar, ToSet
  <2>2. seen \subseteq ToSet(marks)
    BY DEF TypeOK
  <2> QED
    BY <2>1, <2>2, <1>3 DEF EndOfMarks, HandledSoFar
<1>4. CASE UNCHANGED <<marks, next, seen>> /\ (phase = "marks" => phase' = "marks")
  BY <1>4 DEF HandledSoFar
<1> QED
  BY <1>1, <1>2, <1>3, <1>4 DEF Next, vars, plan, LooksAtNew, WarnUnsupported,
     WarnMissing, BlockMark, AcceptMark, SortItems, SumEstimates

\* Answers of Planner, as a constant operator on the plan's lists.
Passed(w, mark) == {k \in Places(w, mark) : w[k].why # "tagged"}
AnswersIn(i, b, w, mark) ==
  ({"items"} \X Places(i, mark)) \cup ({"blocked"} \X Places(b, mark))
  \cup ({"warnings"} \X Passed(w, mark))

AnsweredOnce ==
  /\ \A m \in ToSet(marks) \ seen : AnswersIn(items, blocked, warnings, m) = {}
  /\ \A m \in seen : Single(AnswersIn(items, blocked, warnings, m))

LEMMA AnsweredStep == TypeOK /\ AnsweredOnce /\ [Next]_vars => AnsweredOnce'
<1> SUFFICES ASSUME TypeOK, AnsweredOnce, [Next]_vars PROVE AnsweredOnce'
  OBVIOUS
<1> DEFINE Before(m) == AnswersIn(items, blocked, warnings, m)
           After(m) == AnswersIn(items', blocked', warnings', m)
<1>0. /\ items \in Seq(Candidates) /\ blocked \in Seq(Candidates)
      /\ warnings \in Seq(Cautions) /\ seen \subseteq ToSet(marks) /\ marks \in Seq(Marks)
  BY DEF TypeOK
\* The loop's five answers add at most one place, and it is for the current mark.
<1>1. ASSUME LooksAtNew, Handled, NEW place, \A m : After(m) =
               Before(m) \cup (IF m = Current THEN {place} ELSE {})
      PROVE  AnsweredOnce'
  <2>1. Current \in ToSet(marks) \ seen
    BY <1>0, <1>1 DEF LooksAtNew, Current, ToSet, TypeOK
  <2>2. After(Current) = {place} /\ \A m : m # Current => After(m) = Before(m)
    BY <1>1, <2>1 DEF AnsweredOnce
  <2>3. marks' = marks /\ seen' = seen \cup {Current}
    BY <1>1 DEF Handled
  <2> QED
    BY <2>1, <2>2, <2>3 DEF AnsweredOnce, Single
<1>2. ASSUME LooksAtNew, Handled, NEW why \in {"unsupported", "missing"},
             warnings' = Append(warnings, Warning(why)), UNCHANGED <<items, blocked>>
      PROVE  AnsweredOnce'
  <2>1. \A m : Places(warnings', m) = Places(warnings, m)
                 \cup (IF m = Current THEN {Len(warnings) + 1} ELSE {})
    BY <1>0, <1>2, AppendedPlace DEF Warning
  <2>2. /\ warnings'[Len(warnings) + 1] = Warning(why)
        /\ \A k \in DOMAIN warnings : warnings'[k] = warnings[k]
    BY <1>0, <1>2
  <2>3. \A m : Passed(warnings', m) =
                Passed(warnings, m) \cup (IF m = Current THEN {Len(warnings) + 1} ELSE {})
    <3> SUFFICES ASSUME NEW m
                 PROVE  Passed(warnings', m) = Passed(warnings, m)
                          \cup (IF m = Current THEN {Len(warnings) + 1} ELSE {})
      OBVIOUS
    <3>1. Places(warnings, m) \subseteq DOMAIN warnings
      BY DEF Places
    <3>2. \A k \in Places(warnings, m) : warnings'[k].why = warnings[k].why
      BY <2>2, <3>1
    <3>3. warnings'[Len(warnings) + 1].why # "tagged"
      BY <2>2 DEF Warning
    <3> QED
      BY <2>1, <3>2, <3>3 DEF Passed
  <2>4. \A m : After(m) =
          Before(m) \cup (IF m = Current THEN {<<"warnings", Len(warnings) + 1>>} ELSE {})
    BY <2>3, <1>2 DEF AnswersIn
  <2> QED
    BY <1>1, <1>2, <2>4
<1>3. CASE WarnUnsupported
  BY <1>2, <1>3 DEF WarnUnsupported
<1>4. CASE WarnMissing
  BY <1>2, <1>4 DEF WarnMissing
<1>5. CASE BlockMark
  <2>1. \A m : Places(blocked', m) = Places(blocked, m)
                 \cup (IF m = Current THEN {Len(blocked) + 1} ELSE {})
    BY <1>0, <1>5, AppendedPlace DEF BlockMark, Item
  <2>2. \A m : After(m) =
          Before(m) \cup (IF m = Current THEN {<<"blocked", Len(blocked) + 1>>} ELSE {})
    BY <2>1, <1>5 DEF BlockMark, AnswersIn
  <2> QED
    BY <1>1, <1>5, <2>2 DEF BlockMark
<1>6. CASE AcceptMark
  <2>1. \A m : Places(items', m) = Places(items, m)
                 \cup (IF m = Current THEN {Len(items) + 1} ELSE {})
    BY <1>0, <1>6, AppendedPlace DEF AcceptMark, Item
  <2>2. \A m : Passed(warnings', m) = Passed(warnings, m)
    <3>1. CASE warnings' = warnings
      BY <3>1
    <3>2. CASE warnings' = Append(warnings, Warning("tagged"))
      <4>1. /\ warnings'[Len(warnings) + 1].why = "tagged"
            /\ \A k \in DOMAIN warnings : warnings'[k] = warnings[k]
            /\ DOMAIN warnings' = DOMAIN warnings \cup {Len(warnings) + 1}
        BY <1>0, <3>2 DEF Warning
      <4> QED
        BY <4>1 DEF Passed, Places
    <3> QED
      BY <1>6, <3>1, <3>2 DEF AcceptMark
  <2>3. \A m : After(m) =
          Before(m) \cup (IF m = Current THEN {<<"items", Len(items) + 1>>} ELSE {})
    BY <2>1, <2>2, <1>6 DEF AcceptMark, AnswersIn
  <2> QED
    BY <1>1, <1>6, <2>3 DEF AcceptMark
<1>7. CASE SortItems
  <2>1. PICK p \in Bijection(DOMAIN items, DOMAIN items) :
          items' = [r \in DOMAIN items |-> items[p[r]]]
    BY <1>0, <1>7, SortRearranges DEF SortItems
  <2>2. ASSUME NEW m
        PROVE  /\ Places(items, m) = {} => Places(items', m) = {}
               /\ Single(Places(items, m)) => Single(Places(items', m))
    BY <1>0, <2>1, SortKeepsPlaces
  <2>3. UNCHANGED <<marks, seen, blocked, warnings>>
    BY <1>7 DEF SortItems
  <2>4. ASSUME NEW m
        PROVE  /\ Before(m) = {} => After(m) = {}
               /\ Single(Before(m)) => Single(After(m))
    <3> DEFINE R == ({"blocked"} \X Places(blocked, m)) \cup ({"warnings"} \X Passed(warnings, m))
    <3>1. /\ Before(m) = ({"items"} \X Places(items, m)) \cup R
          /\ After(m) = ({"items"} \X Places(items', m)) \cup R
      BY <2>3 DEF AnswersIn
    <3>2. \A k : <<"items", k>> \notin R
      OBVIOUS
    <3>4. ASSUME Before(m) = {} PROVE After(m) = {}
      <4>1. R = {} /\ \A k \in Places(items, m) : <<"items", k>> \in Before(m)
        BY <3>1, <3>4
      <4>2. Places(items', m) = {}
        BY <2>2, <3>4, <4>1
      <4> QED
        BY <3>1, <4>1, <4>2
    <3>3. ASSUME Single(Before(m)) PROVE Single(After(m))
      <4>1. PICK a : Before(m) = {a}
        BY <3>3 DEF Single
      <4>2. CASE a \in R
        <5>1. Places(items, m) = {} /\ R = {a}
          BY <3>1, <3>2, <4>1, <4>2
        <5> QED
          BY <2>2, <3>1, <5>1 DEF Single
      <4>3. CASE a \notin R
        <5>1. PICK k \in Places(items, m) : a = <<"items", k>>
          BY <3>1, <4>1, <4>3
        <5>2. R = {}
          BY <3>1, <3>2, <4>1, <4>3
        <5>3. \A l \in Places(items, m) : <<"items", l>> = <<"items", k>>
          BY <3>1, <4>1, <5>1
        <5>4. Places(items, m) = {k}
          BY <5>3
        <5>5. PICK l : Places(items', m) = {l}
          BY <2>2, <5>4 DEF Single
        <5>6. After(m) = {<<"items", l>>}
          BY <3>1, <5>2, <5>5
        <5> QED
          BY <5>6 DEF Single
      <4> QED
        BY <4>2, <4>3
    <3> QED
      BY <3>3, <3>4
  <2> QED
    BY <2>3, <2>4 DEF AnsweredOnce
<1>8. CASE UNCHANGED <<marks, seen, items, blocked, warnings>>
  BY <1>8 DEF AnsweredOnce
<1> QED
  BY <1>3, <1>4, <1>5, <1>6, <1>7, <1>8 DEF Next, vars, plan, SkipSeen, EndOfMarks,
     SumEstimates

\* Every mark is answered exactly once: for every inventory and every list of
\* marks, with repeated, unknown and unsupported ones among them.
THEOREM PlannerAnswersEveryMarkOnce == Spec => []EveryMarkAnsweredOnce
<1>1. Init => AnsweredOnce /\ HandledSoFar
  BY DEF Init, AnsweredOnce, HandledSoFar, AnswersIn, Passed, Places
<1>2. AnsweredOnce /\ HandledSoFar => EveryMarkAnsweredOnce
  BY DEF AnsweredOnce, HandledSoFar, EveryMarkAnsweredOnce, Single,
     Answers, AnswersIn, Passed
<1> QED
  BY <1>1, <1>2, AnsweredStep, HandledStep, PlannerTypeOK, PTL DEF Spec

(***************************************************************************)
(* The order of the items.  The strengthening: before the sort they lie in *)
(* the order in which the loop met their marks for the first time, all of  *)
(* them before the place the loop has come to.                             *)
(***************************************************************************)
First(ms, mark) == CHOOSE i \in DOMAIN ms :
                     ms[i] = mark /\ \A j \in 1..(i - 1) : ms[j] # mark

InMarkOrder ==
  /\ \A k \in DOMAIN items : First(marks, items[k].mark) \in 1..(next - 1)
  /\ \A a, b \in DOMAIN items :
       a < b => First(marks, items[a].mark) < First(marks, items[b].mark)

Sorted ==
  \A a, b \in DOMAIN items :
    a < b => \/ IsContainer(items[a]) /\ ~IsContainer(items[b])
             \/ /\ IsContainer(items[a]) <=> IsContainer(items[b])
                /\ First(marks, items[a].mark) < First(marks, items[b].mark)

OrderSoFar == IF phase \in {"marks", "sort"} THEN InMarkOrder ELSE Sorted

\* A mark the loop has not seen occurs here for the first time.
LEMMA FirstIsHere ==
  ASSUME TypeOK, HandledSoFar, LooksAtNew
  PROVE  First(marks, Current) = next
<1> DEFINE IsFirst(i) == marks[i] = Current /\ \A j \in 1..(i - 1) : marks[j] # Current
<1>1. marks \in Seq(Marks) /\ Len(marks) \in Nat /\ next \in 1..Len(marks)
  BY DEF TypeOK, LooksAtNew
<1>2. next \in DOMAIN marks /\ IsFirst(next)
  BY <1>1 DEF HandledSoFar, LooksAtNew, Current
<1>3. ASSUME NEW i \in DOMAIN marks, IsFirst(i) PROVE i = next
  <2>1. i \in Int /\ i >= 1
    BY <1>1
  <2>2. CASE i < next
    BY <1>1, <1>2, <1>3, <2>1, <2>2
  <2>3. CASE next < i
    BY <1>1, <1>2, <1>3, <2>1, <2>3
  <2> QED
    BY <1>1, <2>1, <2>2, <2>3
<1>4. First(marks, Current) = CHOOSE i \in DOMAIN marks : IsFirst(i)
  BY DEF First
<1> HIDE DEF IsFirst
<1> QED
  BY <1>2, <1>3, <1>4

LEMMA OrderStep == TypeOK /\ HandledSoFar /\ OrderSoFar /\ [Next]_vars => OrderSoFar'
<1> SUFFICES ASSUME TypeOK, HandledSoFar, OrderSoFar, [Next]_vars PROVE OrderSoFar'
  OBVIOUS
<1>0. items \in Seq(Candidates) /\ Len(items) \in Nat /\ DOMAIN items = 1..Len(items)
      /\ next \in Nat \ {0}
  BY DEF TypeOK
<1>1. CASE AcceptMark
  <2> DEFINE F(item) == First(marks, item.mark)
  <2>1. /\ marks' = marks /\ next' = next + 1 /\ phase = "marks" /\ phase' = "marks"
        /\ items' = Append(items, Item(snap, Current))
    BY <1>1 DEF AcceptMark, Handled, LooksAtNew
  <2>2. F(Item(snap, Current)) = next
    BY <1>1, FirstIsHere DEF AcceptMark, Item
  <2>3. /\ \A k \in DOMAIN items : F(items[k]) \in 1..(next - 1)
        /\ \A a, b \in DOMAIN items : a < b => F(items[a]) < F(items[b])
    BY <2>1 DEF OrderSoFar, InMarkOrder
  <2>4. /\ DOMAIN items' = 1..(Len(items) + 1)
        /\ \A k \in DOMAIN items : items'[k] = items[k]
        /\ items'[Len(items) + 1] = Item(snap, Current)
    BY <1>0, <2>1
  <2> HIDE DEF F
  <2>5. \A k \in DOMAIN items' : F(items'[k]) \in 1..next
    BY <1>0, <2>2, <2>3, <2>4
  <2>6. ASSUME NEW a \in DOMAIN items', NEW b \in DOMAIN items', a < b
        PROVE  F(items'[a]) < F(items'[b])
    <3>1. CASE b \in DOMAIN items
      BY <1>0, <2>3, <2>4, <2>6, <3>1
    <3>2. CASE b = Len(items) + 1
      <4>1. a \in DOMAIN items
        BY <1>0, <2>4, <2>6, <3>2
      <4>2. F(items[a]) \in 1..(next - 1)
        BY <2>3, <4>1
      <4> QED
        BY <1>0, <2>2, <2>4, <3>2, <4>1, <4>2
    <3> QED
      BY <1>0, <2>4, <3>1, <3>2
  <2> QED
    BY <1>0, <2>1, <2>5, <2>6 DEF OrderSoFar, InMarkOrder, F
<1>2. CASE SortItems
  <2>1. PICK p \in Bijection(DOMAIN items, DOMAIN items) :
          /\ items' = [r \in DOMAIN items |-> items[p[r]]]
          /\ \A a, b \in DOMAIN items :
               a < b => \/ IsContainer(items[p[a]]) /\ ~IsContainer(items[p[b]])
                        \/ /\ IsContainer(items[p[a]]) <=> IsContainer(items[p[b]])
                           /\ p[a] < p[b]
    BY <1>2 DEF SortItems, ContainersFirst
  <2>2. p \in [DOMAIN items -> DOMAIN items]
    BY DEF Bijection, Injection
  <2>3. InMarkOrder /\ marks' = marks /\ phase' = "sum"
    BY <1>2 DEF SortItems, OrderSoFar
  <2>4. ASSUME NEW a \in DOMAIN items, NEW b \in DOMAIN items, a < b
        PROVE  \/ IsContainer(items'[a]) /\ ~IsContainer(items'[b])
               \/ /\ IsContainer(items'[a]) <=> IsContainer(items'[b])
                  /\ First(marks, items'[a].mark) < First(marks, items'[b].mark)
    <3>1. items'[a] = items[p[a]] /\ items'[b] = items[p[b]]
          /\ p[a] \in DOMAIN items /\ p[b] \in DOMAIN items
      BY <2>1, <2>2
    <3> QED
      BY <2>1, <2>3, <2>4, <3>1 DEF InMarkOrder
  <2>5. DOMAIN items' = DOMAIN items
    BY <2>1
  <2> QED
    BY <2>3, <2>4, <2>5 DEF OrderSoFar, Sorted
<1>3. ASSUME UNCHANGED <<items, marks>>, next' \in {next, next + 1},
             phase \in {"marks", "sort"} <=> phase' \in {"marks", "sort"}
      PROVE  OrderSoFar'
  BY <1>0, <1>3 DEF OrderSoFar, InMarkOrder, Sorted
<1>4. CASE WarnUnsupported \/ WarnMissing \/ BlockMark \/ SkipSeen
  BY <1>3, <1>4 DEF WarnUnsupported, WarnMissing, BlockMark, Handled, SkipSeen, plan
<1>5. CASE EndOfMarks \/ SumEstimates \/ UNCHANGED vars
  BY <1>3, <1>5 DEF EndOfMarks, SumEstimates, plan, vars
<1> QED
  BY <1>1, <1>2, <1>4, <1>5 DEF Next

\* For every inventory and list of marks: a plan removes stopped containers before
\* everything else, and otherwise in the order of the marks.
THEOREM PlannerRemovalOrder == Spec => []RemovalOrder
<1>1. Init => HandledSoFar /\ OrderSoFar
  BY DEF Init, HandledSoFar, OrderSoFar, InMarkOrder
<1>2. OrderSoFar => RemovalOrder
  BY DEF OrderSoFar, Sorted, RemovalOrder, IsContainer, First, FirstIndex
<1> QED
  BY <1>1, <1>2, HandledStep, OrderStep, PlannerTypeOK, PTL DEF Spec

(***************************************************************************)
(* What a plan lists.  Besides ItemsAllowed: every mark that the loop has  *)
(* seen and that may be deleted has its item.                              *)
(***************************************************************************)
Allowed(marked) == {m \in marked : Found(snap, m) /\ ~Protected(snap, m)}

AllListed == \A m \in Allowed(seen) : \E k \in DOMAIN items : items[k].mark = m

LEMMA ListedStep == TypeOK /\ AllListed /\ [Next]_vars => AllListed'
<1> SUFFICES ASSUME TypeOK, AllListed, [Next]_vars PROVE AllListed'
  OBVIOUS
<1>0. items \in Seq(Candidates)
  BY DEF TypeOK
<1>1. CASE UNCHANGED <<snap, seen, items>>
  BY <1>1 DEF AllListed, Allowed
<1>2. CASE LooksAtNew /\ Handled /\ items' = items
           /\ ~(Found(snap, Current) /\ ~Protected(snap, Current))
  BY <1>2 DEF Handled, AllListed, Allowed
<1>3. CASE AcceptMark
  <2>1. snap' = snap /\ seen' = seen \cup {Current} /\ items' = Append(items, Item(snap, Current))
    BY <1>3 DEF AcceptMark, Handled
  <2>2. /\ \A k \in DOMAIN items : k \in DOMAIN items' /\ items'[k] = items[k]
        /\ Len(items) + 1 \in DOMAIN items' /\ items'[Len(items) + 1] = Item(snap, Current)
    BY <1>0, <2>1
  <2>3. Item(snap, Current).mark = Current
    BY DEF Item
  <2> QED
    BY <2>1, <2>2, <2>3 DEF AllListed, Allowed
<1>4. CASE SortItems
  <2>1. PICK p \in Bijection(DOMAIN items, DOMAIN items) :
          items' = [r \in DOMAIN items |-> items[p[r]]]
    BY <1>0, <1>4, SortRearranges DEF SortItems
  <2>2. \A k \in DOMAIN items : \E r \in DOMAIN items : items'[r] = items[k]
    BY <2>1 DEF Bijection, Surjection
  <2>3. DOMAIN items' = DOMAIN items /\ snap' = snap /\ seen' = seen
    BY <1>4, <2>1 DEF SortItems
  <2> QED
    BY <2>2, <2>3 DEF AllListed, Allowed
<1> QED
  BY <1>1, <1>2, <1>3, <1>4 DEF Next, vars, plan, SkipSeen, WarnUnsupported, WarnMissing,
     BlockMark, EndOfMarks, SumEstimates, Handled, Found

\* A list that holds the members of a set, each once, is one of its sequences.
LEMMA ListsOnce ==
  ASSUME NEW S, NEW list, NEW n \in Nat, list \in [1..n -> S],
         \A a, b \in 1..n : list[a] = list[b] => a = b,
         \A x \in S : \E k \in 1..n : list[k] = x
  PROVE  list \in SetToSeqs(S)
<1>1. list \in Bijection(1..n, S)
  BY DEF Bijection, Injection, Surjection, IsInjective
<1>2. ExistsBijection(1..n, S)
  BY <1>1 DEF ExistsBijection
<1>3. IsFiniteSet(1..n) /\ Cardinality(1..n) = n
  BY FS_Interval
<1>4. Cardinality(S) = n
  BY <1>2, <1>3, FS_Bijection
<1> QED
  BY <1>4 DEF SetToSeqs

\* An answered mark has one place among the items at most.
LEMMA OneItemPerMark ==
  ASSUME TypeOK, AnsweredOnce, NEW a \in DOMAIN items, NEW b \in DOMAIN items,
         items[a].mark = items[b].mark
  PROVE  a = b
<1> DEFINE m == items[a].mark
<1>1. items[a] \in Candidates
  BY DEF TypeOK
<1>2. m \in seen
  BY <1>1 DEF Candidates, Item
<1>3. {<<"items", a>>, <<"items", b>>} \subseteq AnswersIn(items, blocked, warnings, m)
  BY DEF AnswersIn, Places
<1>4. PICK x : AnswersIn(items, blocked, warnings, m) = {x}
  BY <1>2 DEF AnsweredOnce, Single
<1>5. <<"items", a>> = x /\ <<"items", b>> = x
  BY <1>3, <1>4
<1> QED
  BY <1>5

\* What the modules that use a plan assume of Build holds of its loop, for every
\* inventory and every list of marks.
THEOREM PlannerMeetsRules == Spec => []BuildMeetsRules
<1>1. Init => ItemsAllowed /\ AnsweredOnce /\ HandledSoFar /\ OrderSoFar /\ AllListed
  BY DEF Init, ItemsAllowed, AnsweredOnce, HandledSoFar, OrderSoFar, InMarkOrder, AllListed,
     Allowed, AnswersIn, Passed, Places
<1>2. TypeOK /\ ItemsAllowed /\ AnsweredOnce /\ HandledSoFar /\ OrderSoFar /\ AllListed
        => BuildMeetsRules
  <2> SUFFICES ASSUME TypeOK, ItemsAllowed, AnsweredOnce, HandledSoFar, OrderSoFar, AllListed,
                      phase = "done"
               PROVE  items \in PlansOf(snap, ToSet(marks))
    BY DEF BuildMeetsRules
  <2> DEFINE S == {Item(snap, m) : m \in Allowed(seen)}
  <2>1. items \in Seq(Candidates) /\ Len(items) \in Nat /\ DOMAIN items = 1..Len(items)
    BY DEF TypeOK
  <2>2. ASSUME NEW k \in DOMAIN items
        PROVE  items[k].mark \in Allowed(seen) /\ items[k] = Item(snap, items[k].mark)
    <3>1. PICK m \in seen : Found(snap, m) /\ items[k] = Item(snap, m)
      BY <2>1 DEF Candidates
    <3>2. items[k].mark = m
      BY <3>1 DEF Item
    <3> QED
      BY <3>1, <3>2 DEF ItemsAllowed, Allowed
  <2>3. items \in [1..Len(items) -> S]
    BY <2>1, <2>2
  <2>4. \A a, b \in 1..Len(items) : items[a] = items[b] => a = b
    BY <2>1, OneItemPerMark
  <2>5. \A x \in S : \E k \in 1..Len(items) : items[k] = x
    BY <2>1, <2>2 DEF AllListed
  <2>6. items \in SetToSeqs(S)
    BY <2>1, <2>3, <2>4, <2>5, ListsOnce
  <2>7. \A a, b \in DOMAIN items : a < b /\ IsContainer(items[b]) => IsContainer(items[a])
    BY DEF OrderSoFar, Sorted
  <2>8. seen = ToSet(marks)
    BY DEF HandledSoFar
  <2> QED
    BY <2>6, <2>7, <2>8 DEF PlansOf, Allowed
<1> QED
  BY <1>1, <1>2, AllowedStep, AnsweredStep, HandledStep, OrderStep, ListedStep,
     PlannerTypeOK, PTL DEF Spec

(***************************************************************************)
(* The estimate.  What a sum over a finite set amounts to is proved by     *)
(* induction on the set.                                                   *)
(***************************************************************************)
\* Induction on finite sets, as the existence of a least counterexample.
LEMMA LeastSet ==
  ASSUME NEW S, IsFiniteSet(S), NEW T, T \subseteq SUBSET S, T # {}
  PROVE  \E x \in T : \A y \in T : y \subseteq x => y = x
<1> DEFINE R == StrictSubsetOrdering(S)
<1>1. IsWellFoundedOn(R, SUBSET S)
  BY FS_StrictSubsetOrderingWellFounded, FS_FiniteSubsetsOfFinite
<1> HIDE DEF R
<1>2. \E x \in T : \A y \in T : ~ (<<y, x>> \in R)
  BY <1>1, WFMin
<1> QED
  BY <1>2 DEF R, StrictSubsetOrdering

\* A sum of natural numbers counts units: as many for each x as its number.
Units(w, S) == {u \in S \X Nat : 1 <= u[2] /\ u[2] <= w[u[1]]}

LEMMA UnitsOfOne ==
  ASSUME NEW w, NEW x, w[x] \in Nat
  PROVE  IsFiniteSet(Units(w, {x})) /\ Cardinality(Units(w, {x})) = w[x]
<1> DEFINE f == [k \in 1..w[x] |-> <<x, k>>]
<1>1. f \in Bijection(1..w[x], Units(w, {x}))
  BY DEF Bijection, Injection, Surjection, IsInjective, Units
<1>2. ExistsBijection(1..w[x], Units(w, {x}))
  BY <1>1 DEF ExistsBijection
<1>3. IsFiniteSet(1..w[x]) /\ Cardinality(1..w[x]) = w[x]
  BY FS_Interval
<1> QED
  BY <1>2, <1>3, FS_Bijection

LEMMA UnitsFinite ==
  ASSUME NEW S, IsFiniteSet(S), NEW w, \A x \in S : w[x] \in Nat
  PROVE  IsFiniteSet(Units(w, S))
<1> DEFINE T == {s \in SUBSET S : ~IsFiniteSet(Units(w, s))}
<1> SUFFICES ASSUME T # {} PROVE FALSE
  OBVIOUS
<1>0. T \subseteq SUBSET S
  OBVIOUS
<1> HIDE DEF T
<1>1. PICK s \in T : \A t \in T : t \subseteq s => t = s
  BY <1>0, LeastSet
<1> USE DEF T
<1>2. s # {}
  <2>1. Units(w, {}) = {}
    BY DEF Units
  <2> QED
    BY <2>1, FS_EmptySet
<1>3. PICK x \in s : TRUE
  BY <1>2
<1>4. IsFiniteSet(Units(w, s \ {x}))
  BY <1>1, <1>3
<1>5. Units(w, s) = Units(w, s \ {x}) \cup Units(w, {x})
  BY <1>3 DEF Units
<1> QED
  BY <1>3, <1>4, <1>5, UnitsOfOne, FS_Union

LEMMA UnitsSplit ==
  ASSUME NEW S, IsFiniteSet(S), NEW w, \A x \in S : w[x] \in Nat, NEW x \in S
  PROVE  Cardinality(Units(w, S)) = w[x] + Cardinality(Units(w, S \ {x}))
<1>1. Units(w, S) = Units(w, {x}) \cup Units(w, S \ {x})
  BY DEF Units
<1>2. Units(w, {x}) \cap Units(w, S \ {x}) = {}
  BY DEF Units
<1>3. IsFiniteSet(Units(w, {x})) /\ IsFiniteSet(Units(w, S \ {x}))
      /\ Cardinality(Units(w, {x})) = w[x]
  BY UnitsOfOne, UnitsFinite, FS_RemoveElement
<1>4. Cardinality(Units(w, S)) = Cardinality(Units(w, {x})) + Cardinality(Units(w, S \ {x}))
        - Cardinality(Units(w, {x}) \cap Units(w, S \ {x}))
  BY <1>1, <1>3, FS_Union
<1>5. /\ Cardinality(Units(w, {x}) \cap Units(w, S \ {x})) = 0
      /\ Cardinality(Units(w, S \ {x})) \in Nat /\ w[x] \in Nat
  BY <1>2, <1>3, FS_EmptySet, FS_CardinalityType
<1> QED
  BY <1>3, <1>4, <1>5

\* The fold behind SumFunction takes the elements in the order in which CHOOSE names
\* them: its recursion has a solution, the count of the units, and no other.
LEMMA SumCountsUnits ==
  ASSUME NEW w, IsFiniteSet(DOMAIN w), \A x \in DOMAIN w : w[x] \in Nat
  PROVE  /\ SumFunction(w) = Cardinality(Units(w, DOMAIN w))
         /\ IsFiniteSet(Units(w, DOMAIN w))
<1> DEFINE S == DOMAIN w
           x(s) == CHOOSE y \in s : TRUE
           Step(h) == [s \in SUBSET S |-> IF s = {} THEN 0 ELSE w[x(s)] + h[s \ {x(s)}]]
           g == CHOOSE h : h = Step(h)
           count == [s \in SUBSET S |-> Cardinality(Units(w, s))]
<1>1. SumFunction(w) = g[S]
  BY DEF SumFunction, SumFunctionOnSet, FoldFunctionOnSet, MapThenFoldSet
<1>2. ASSUME NEW s \in SUBSET S, s # {}
      PROVE  x(s) \in s /\ Cardinality(Units(w, s)) = w[x(s)] + Cardinality(Units(w, s \ {x(s)}))
  <2>1. x(s) \in s
    BY <1>2
  <2>2. IsFiniteSet(s) /\ \A y \in s : w[y] \in Nat
    BY FS_Subset
  <2> HIDE DEF x
  <2> QED
    BY <2>1, <2>2, UnitsSplit
<1>3. Cardinality(Units(w, {})) = 0
  <2>1. Units(w, {}) = {}
    BY DEF Units
  <2> QED
    BY <2>1, FS_EmptySet
<1> HIDE DEF x
<1>4. count = Step(count)
  BY <1>2, <1>3
<1>5. g = Step(g)
  <2> HIDE DEF Step, count
  <2> QED
    BY <1>4
<1> HIDE DEF g
<1>6. \A s \in SUBSET S : g[s] = IF s = {} THEN 0 ELSE w[x(s)] + g[s \ {x(s)}]
  BY <1>5
<1> DEFINE T == {s \in SUBSET S : g[s] # count[s]}
<1>7. T = {}
  <2> SUFFICES ASSUME T # {} PROVE FALSE
    OBVIOUS
  <2>0. T \subseteq SUBSET S
    OBVIOUS
  <2> HIDE DEF T
  <2>1. PICK s \in T : \A t \in T : t \subseteq s => t = s
    BY <2>0, LeastSet
  <2> USE DEF T
  <2>2. s # {}
    BY <1>3, <1>6
  <2>3. x(s) \in s /\ s \ {x(s)} \notin T
    BY <1>2, <2>1, <2>2
  <2> QED
    BY <1>2, <1>6, <2>2, <2>3
<1> QED
  BY <1>1, <1>7, UnitsFinite

\* A sum does not depend on what its terms are called.
LEMMA SumRenamed ==
  ASSUME NEW v, NEW w, IsFiniteSet(DOMAIN v), \A x \in DOMAIN v : v[x] \in Nat,
         NEW f \in Bijection(DOMAIN v, DOMAIN w), \A x \in DOMAIN v : w[f[x]] = v[x]
  PROVE  SumFunction(w) = SumFunction(v)
<1> DEFINE U == Units(v, DOMAIN v)
           W == Units(w, DOMAIN w)
           g == [u \in U |-> <<f[u[1]], u[2]>>]
<1>1. /\ f \in [DOMAIN v -> DOMAIN w]
      /\ \A x, y \in DOMAIN v : f[x] = f[y] => x = y
      /\ \A y \in DOMAIN w : \E x \in DOMAIN v : f[x] = y
  BY DEF Bijection, Injection, Surjection, IsInjective
<1>2. g \in [U -> W]
  BY <1>1 DEF Units
<1>3. \A a, b \in U : g[a] = g[b] => a = b
  BY <1>1 DEF Units
<1>4. \A b \in W : \E a \in U : g[a] = b
  <2> SUFFICES ASSUME NEW b \in W PROVE \E a \in U : g[a] = b
    OBVIOUS
  <2>1. PICK x \in DOMAIN v : f[x] = b[1]
    BY <1>1 DEF Units
  <2>2. <<x, b[2]>> \in U /\ g[<<x, b[2]>>] = b
    BY <2>1 DEF Units
  <2> QED
    BY <2>2
<1>5. g \in Bijection(U, W)
  BY <1>2, <1>3, <1>4 DEF Bijection, Injection, Surjection, IsInjective
<1>6. ExistsBijection(U, W) /\ ExistsBijection(DOMAIN v, DOMAIN w)
  BY <1>5 DEF ExistsBijection
<1>7. IsFiniteSet(DOMAIN w) /\ \A y \in DOMAIN w : w[y] \in Nat
  BY <1>1, <1>6, FS_Bijection
<1> QED
  BY <1>6, <1>7, SumCountsUnits, FS_Bijection


LEMMA AtMostTogether ==
  ASSUME NEW S, NEW T, IsFiniteSet(S), IsFiniteSet(T)
  PROVE  IsFiniteSet(S \cup T) /\ Cardinality(S \cup T) <= Cardinality(S) + Cardinality(T)
<1>1. /\ IsFiniteSet(S \cup T) /\ IsFiniteSet(S \cap T)
      /\ Cardinality(S \cup T) = Cardinality(S) + Cardinality(T) - Cardinality(S \cap T)
  BY FS_Union, FS_Intersection
<1>2. Cardinality(S) \in Nat /\ Cardinality(T) \in Nat /\ Cardinality(S \cap T) \in Nat
  BY <1>1, FS_CardinalityType
<1> QED
  BY <1>1, <1>2

\* The units of the marks of one kind are among those a total counts by ID.
LEMMA UnitsById ==
  ASSUME NEW kind, NEW V, NEW U, IsFiniteSet(U),
         \A u \in V : u = <<Mark(kind, u[1].id), u[2]>> /\ <<u[1].id, u[2]>> \in U
  PROVE  IsFiniteSet(V) /\ Cardinality(V) <= Cardinality(U)
<1> DEFINE f == [u \in V |-> <<u[1].id, u[2]>>]
<1>1. f \in [V -> U]
  OBVIOUS
<1>2. ASSUME NEW u \in V, NEW v \in V, f[u] = f[v] PROVE u = v
  <2>1. u[1].id = v[1].id /\ u[2] = v[2]
    BY <1>2
  <2> QED
    BY <2>1
<1>3. f \in Injection(V, U)
  BY <1>1, <1>2 DEF Injection, IsInjective
<1> QED
  BY <1>3, FS_Injection

\* The inventory is fixed; of the estimate there is nothing to say before the sum.
EstimateSoFar ==
  /\ snap \in Snapshots
  /\ phase = "done" => est = SumEst(items)

LEMMA EstimateStep == EstimateSoFar /\ [Next]_vars => EstimateSoFar'
BY DEF EstimateSoFar, Next, vars, plan, SkipSeen, WarnUnsupported, WarnMissing, BlockMark,
   AcceptMark, EndOfMarks, SortItems, SumEstimates, Handled, LooksAtNew

\* What a plan takes for an object that was found is a natural number.
LEMMA EstimateType ==
  ASSUME snap \in Snapshots, NEW m, Found(snap, m)
  PROVE  Estimate(snap, m) \in Nat
<1>1. CASE m.kind = "image"
  BY <1>1, SnapshotsAssumption DEF Found, Estimate, Exclusive, NonNeg
<1>2. CASE m.kind = "container"
  BY <1>2, SnapshotsAssumption DEF Found, Estimate, NonNeg
<1>3. CASE m.kind = "volume"
  BY <1>3, SnapshotsAssumption DEF Found, Estimate, NonNeg
<1>4. CASE m.kind = "build_cache"
  BY <1>4, SnapshotsAssumption DEF Found, Estimate
<1> QED
  BY <1>1, <1>2, <1>3, <1>4 DEF Found, Kinds

\* The default candidates of a set of marks reclaim no more together than the total.
LEMMA DefaultsWithinTotal ==
  ASSUME snap \in Snapshots, NEW P, IsFiniteSet(P), P \subseteq DefaultMarks(snap, Kinds)
  PROVE  SumFunction([m \in P |-> Estimate(snap, m)]) <= Reclaimable(snap)
<1> DEFINE w == [m \in P |-> Estimate(snap, m)]
           ri == [i \in {i \in DOMAIN snap.image : Dangling(snap.image[i])} |->
                    Exclusive(snap.image[i])]
           rc == [c \in {c \in DOMAIN snap.container : Stopped(snap.container[c].state)} |->
                    NonNeg(snap.container[c].rw) + snap.container[c].log]
           rv == [v \in {v \in DOMAIN snap.volume : snap.volume[v].refs = 0} |->
                    NonNeg(snap.volume[v].usage)]
           rb == [b \in {b \in DOMAIN snap.build_cache :
                            ~snap.build_cache[b].inUse /\ ~snap.build_cache[b].shared} |->
                    snap.build_cache[b].size]
           V == Units(w, P)
           Of(kind) == {u \in V : u[1].kind = kind}
           U(r) == Units(r, DOMAIN r)
<1>1. ASSUME NEW m \in P
      PROVE  /\ m = Mark(m.kind, m.id) /\ m.kind \in Kinds /\ m.id \in DOMAIN snap[m.kind]
             /\ m.kind = "image" => Dangling(snap.image[m.id])
             /\ m.kind = "container" => Stopped(snap.container[m.id].state)
             /\ m.kind = "volume" => snap.volume[m.id].refs = 0
             /\ m.kind = "build_cache" => ~snap.build_cache[m.id].inUse
  <2>1. PICK k \in Kinds : \E id \in DOMAIN snap[k] : m = Mark(k, id)
    BY DEF DefaultMarks
  <2> QED
    BY <2>1 DEF DefaultMarks, Mark
<1>2. /\ IsFiniteSet(DOMAIN ri) /\ \A x \in DOMAIN ri : ri[x] \in Nat
      /\ IsFiniteSet(DOMAIN rc) /\ \A x \in DOMAIN rc : rc[x] \in Nat
      /\ IsFiniteSet(DOMAIN rv) /\ \A x \in DOMAIN rv : rv[x] \in Nat
      /\ IsFiniteSet(DOMAIN rb) /\ \A x \in DOMAIN rb : rb[x] \in Nat
  <2>1. /\ IsFiniteSet(DOMAIN snap.image) /\ IsFiniteSet(DOMAIN snap.container)
        /\ IsFiniteSet(DOMAIN snap.volume) /\ IsFiniteSet(DOMAIN snap.build_cache)
    BY SnapshotsAssumption DEF Kinds
  <2>2. /\ DOMAIN ri \in SUBSET DOMAIN snap.image /\ DOMAIN rc \in SUBSET DOMAIN snap.container
        /\ DOMAIN rv \in SUBSET DOMAIN snap.volume
        /\ DOMAIN rb \in SUBSET DOMAIN snap.build_cache
    OBVIOUS
  <2>3. /\ IsFiniteSet(DOMAIN ri) /\ IsFiniteSet(DOMAIN rc)
        /\ IsFiniteSet(DOMAIN rv) /\ IsFiniteSet(DOMAIN rb)
    BY <2>1, <2>2, FS_Subset
  <2>4. \A x \in DOMAIN ri : ri[x] \in Nat
    BY SnapshotsAssumption DEF Exclusive, NonNeg
  <2>5. \A x \in DOMAIN rc : rc[x] \in Nat
    BY SnapshotsAssumption DEF NonNeg
  <2>6. \A x \in DOMAIN rv : rv[x] \in Nat
    BY SnapshotsAssumption DEF NonNeg
  <2>7. \A x \in DOMAIN rb : rb[x] \in Nat
    BY SnapshotsAssumption
  <2> QED
    BY <2>3, <2>4, <2>5, <2>6, <2>7
<1>3. /\ IsFiniteSet(U(ri)) /\ SumFunction(ri) = Cardinality(U(ri))
      /\ IsFiniteSet(U(rc)) /\ SumFunction(rc) = Cardinality(U(rc))
      /\ IsFiniteSet(U(rv)) /\ SumFunction(rv) = Cardinality(U(rv))
      /\ IsFiniteSet(U(rb)) /\ SumFunction(rb) = Cardinality(U(rb))
  <2> HIDE DEF ri, rc, rv, rb
  <2> QED
    BY <1>2, SumCountsUnits
<1>4. Reclaimable(snap) = SumFunction(ri) + SumFunction(rc) + SumFunction(rv) + SumFunction(rb)
  BY DEF Reclaimable
<1>5. \A m \in P : Found(snap, m) /\ w[m] \in Nat
  BY <1>1, EstimateType DEF Found
<1>6. SumFunction(w) = Cardinality(V)
  BY <1>5, SumCountsUnits
<1>7. V = Of("image") \cup Of("container") \cup Of("volume") \cup Of("build_cache")
  BY <1>1 DEF Units, Kinds
<1>8. ASSUME NEW kind, NEW u \in Of(kind)
      PROVE  /\ u = <<Mark(kind, u[1].id), u[2]>>
             /\ u[1] \in P /\ u[1].kind = kind /\ u[2] \in Nat
             /\ 1 <= u[2] /\ u[2] <= Estimate(snap, u[1])
  BY <1>1 DEF Units
<1>9. \A u \in Of("image") : <<u[1].id, u[2]>> \in U(ri)
  BY <1>1, <1>8 DEF Units, Estimate
<1>10. \A u \in Of("container") : <<u[1].id, u[2]>> \in U(rc)
  BY <1>1, <1>8 DEF Units, Estimate
<1>11. \A u \in Of("volume") : <<u[1].id, u[2]>> \in U(rv)
  BY <1>1, <1>8 DEF Units, Estimate
<1>12. \A u \in Of("build_cache") : <<u[1].id, u[2]>> \in U(rb)
  <2> SUFFICES ASSUME NEW u \in Of("build_cache") PROVE <<u[1].id, u[2]>> \in U(rb)
    OBVIOUS
  <2>1. 1 <= Estimate(snap, u[1]) /\ Estimate(snap, u[1]) \in Nat
    BY <1>5, <1>8
  <2>2. /\ u[1].kind = "build_cache" /\ u[1].id \in DOMAIN snap.build_cache
        /\ ~snap.build_cache[u[1].id].inUse
    BY <1>1, <1>8
  <2>3. Estimate(snap, u[1]) = IF snap.build_cache[u[1].id].shared
                                 THEN 0 ELSE snap.build_cache[u[1].id].size
    BY <2>2 DEF Estimate
  <2>4. ~snap.build_cache[u[1].id].shared
    <3> SUFFICES ASSUME snap.build_cache[u[1].id].shared PROVE FALSE
      OBVIOUS
    <3>1. Estimate(snap, u[1]) = 0
      BY <2>3, Zenon
    <3> QED
      BY <2>1, <3>1
  <2>5. Estimate(snap, u[1]) = snap.build_cache[u[1].id].size
    BY <2>3, <2>4, Zenon
  <2>6. u[1].id \in DOMAIN rb /\ Estimate(snap, u[1]) = rb[u[1].id]
    BY <2>2, <2>4, <2>5, Zenon
  <2> QED
    BY <1>8, <2>6 DEF Units
<1> HIDE DEF ri, rc, rv, rb, V, Of, U, w
<1>13. /\ IsFiniteSet(Of("image")) /\ Cardinality(Of("image")) <= Cardinality(U(ri))
       /\ IsFiniteSet(Of("container")) /\ Cardinality(Of("container")) <= Cardinality(U(rc))
       /\ IsFiniteSet(Of("volume")) /\ Cardinality(Of("volume")) <= Cardinality(U(rv))
       /\ IsFiniteSet(Of("build_cache")) /\ Cardinality(Of("build_cache")) <= Cardinality(U(rb))
  <2>1. ASSUME NEW kind, NEW S, IsFiniteSet(S), \A u \in Of(kind) : <<u[1].id, u[2]>> \in S
        PROVE  IsFiniteSet(Of(kind)) /\ Cardinality(Of(kind)) <= Cardinality(S)
    BY <1>8, <2>1, UnitsById
  <2> QED
    BY <1>3, <1>9, <1>10, <1>11, <1>12, <2>1
<1>14. IsFiniteSet(Of("image") \cup Of("container"))
       /\ Cardinality(Of("image") \cup Of("container"))
            <= Cardinality(Of("image")) + Cardinality(Of("container"))
  BY <1>13, AtMostTogether
<1>15. IsFiniteSet(Of("image") \cup Of("container") \cup Of("volume"))
       /\ Cardinality(Of("image") \cup Of("container") \cup Of("volume"))
            <= Cardinality(Of("image") \cup Of("container")) + Cardinality(Of("volume"))
  BY <1>13, <1>14, AtMostTogether
<1>16. IsFiniteSet(V)
       /\ Cardinality(V) <= Cardinality(Of("image") \cup Of("container") \cup Of("volume"))
                               + Cardinality(Of("build_cache"))
  BY <1>7, <1>13, <1>15, AtMostTogether
<1>17. \A S : IsFiniteSet(S) => Cardinality(S) \in Nat
  BY FS_CardinalityType
<1> QED
  BY <1>3, <1>4, <1>6, <1>13, <1>14, <1>15, <1>16, <1>17 DEF w

\* For every inventory and list of marks: the plan's estimate counts each planned
\* object once, and a plan of default candidates promises no more than the total.
THEOREM PlannerEstimateIsHonest == Spec => []EstimateIsHonest
<1>1. Init => ItemsAllowed /\ AnsweredOnce /\ EstimateSoFar
  BY DEF Init, ItemsAllowed, AnsweredOnce, AnswersIn, Passed, Places, EstimateSoFar
<1>2. TypeOK /\ ItemsAllowed /\ AnsweredOnce /\ EstimateSoFar => EstimateIsHonest
  <2> SUFFICES ASSUME TypeOK, ItemsAllowed, AnsweredOnce, EstimateSoFar, phase = "done"
               PROVE  /\ est = SumFunction([m \in {items[k].mark : k \in DOMAIN items} |->
                                               Estimate(snap, m)])
                      /\ ToSet(marks) \subseteq DefaultMarks(snap, Kinds) =>
                           est <= Reclaimable(snap)
    BY DEF EstimateIsHonest
  <2> DEFINE P == {items[k].mark : k \in DOMAIN items}
             v == [k \in DOMAIN items |-> items[k].est]
             w == [m \in P |-> Estimate(snap, m)]
             f == [k \in DOMAIN items |-> items[k].mark]
  <2>1. items \in Seq(Candidates) /\ Len(items) \in Nat /\ DOMAIN items = 1..Len(items)
        /\ seen \subseteq ToSet(marks) /\ snap \in Snapshots
    BY DEF TypeOK, EstimateSoFar
  <2>2. ASSUME NEW k \in DOMAIN items
        PROVE  /\ items[k].mark \in seen /\ Found(snap, items[k].mark)
               /\ items[k].est = Estimate(snap, items[k].mark) /\ items[k].est \in Nat
    <3>1. PICK m \in seen : Found(snap, m) /\ items[k] = Item(snap, m)
      BY <2>1 DEF Candidates
    <3>2. items[k].mark = m /\ items[k].est = Estimate(snap, m)
      BY <3>1 DEF Item
    <3> QED
      BY <2>1, <3>1, <3>2, EstimateType
  <2>3. f \in Bijection(DOMAIN v, DOMAIN w)
    <3>1. f \in [DOMAIN v -> DOMAIN w] /\ \A y \in DOMAIN w : \E k \in DOMAIN v : f[k] = y
      OBVIOUS
    <3>2. \A a, b \in DOMAIN v : f[a] = f[b] => a = b
      BY OneItemPerMark
    <3> QED
      BY <3>1, <3>2 DEF Bijection, Injection, Surjection, IsInjective
  <2>4. IsFiniteSet(DOMAIN v)
    BY <2>1, FS_Interval
  <2>5. SumFunction(w) = SumFunction(v)
    <3>1. \A k \in DOMAIN v : v[k] \in Nat /\ w[f[k]] = v[k]
      BY <2>2
    <3> HIDE DEF v, w, f
    <3> QED
      BY <2>3, <2>4, <3>1, SumRenamed
  <2>6. est = SumFunction(w)
    BY <2>5 DEF EstimateSoFar, SumEst
  <2>7. IsFiniteSet(P)
    <3>1. ExistsBijection(DOMAIN v, P)
      BY <2>3 DEF ExistsBijection
    <3> QED
      BY <2>4, <3>1, FS_Bijection
  <2>8. P \subseteq ToSet(marks)
    BY <2>1, <2>2
  <2> QED
    BY <2>1, <2>6, <2>7, <2>8, DefaultsWithinTotal
<1> QED
  BY <1>1, <1>2, AllowedStep, AnsweredStep, EstimateStep, PlannerTypeOK, PTL DEF Spec

=============================================================================
