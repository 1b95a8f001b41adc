----------------------------- MODULE TuiProofs ------------------------------
(***************************************************************************)
(* What the event loop guarantees for any inventories, any number of scans *)
(* in flight and any order of keys and messages.                           *)
(***************************************************************************)
EXTENDS Tui, TLAPS

Scans == {Idle, First, Running, Failed} \cup Versions
Operations == {Idle, Running, Cancelled, Failed} \cup Versions
Plans == [version : {None} \cup Versions, items : SUBSET marks]
Typings == {t \in [good : 0..3, bad : 0..3] : t.good + t.bad <= 3}

LEMMA Numbers == Versions \subseteq Nat /\ None \notin Versions /\ Failed \notin Versions
                 /\ Idle \notin Versions /\ Running \notin Versions /\ Cancelled \notin Versions
                 /\ First \notin Versions /\ MaxVersion \in Nat
BY TuiAssumption DEF Versions, None, Failed, Idle, Running, Cancelled, First

\* A plan that PlanFor makes is of a version, so it is not NoPlan.
LEMMA PlanForType ==
  ASSUME NEW v \in Versions
  PROVE  PlanFor(v) \in Plans /\ PlanFor(v) # NoPlan /\ PlanFor(v).version = v
BY Numbers DEF PlanFor, Plans, NoPlan

LEMMA NothingIsTyping == NothingTyped \in Typings /\ NothingTyped # Yes
BY DEF NothingTyped, Typings, Yes

LEMMA ScanType ==
  ASSUME scans \in [1..Slots -> Scans]
  PROVE  WithScan \in [1..Slots -> Scans]
BY DEF WithScan, Scans

\* The parts of the state that the steps treat alike.
DataOK == snap \in {None} \cup Versions /\ layout \in {"type", "project"} /\ marks \subseteq Objects
PlannerOK == preview \in Plans /\ typed \in Typings /\ confirming \in BOOLEAN
OperationOK == {executing, preparing, quitAfter} \subseteq BOOLEAN
ScreenOK == {help, loading, err} \subseteq BOOLEAN
RestOK ==
  /\ version \in Versions /\ askedAt \in Versions /\ {readOnly, sawYes} \subseteq BOOLEAN
  /\ scans \in [1..Slots -> Scans] /\ op \in Operations
  /\ ended \in {"no", "quit", "killed"}

LEMMA TypeParts == TypeOK <=> DataOK /\ PlannerOK /\ OperationOK /\ ScreenOK /\ RestOK
BY DEF TypeOK, DataOK, PlannerOK, OperationOK, ScreenOK, RestOK, Plans, Typings, Scans, Operations

LEMMA KeyTypes == TypeOK /\ Key => TypeOK'
<1> SUFFICES ASSUME TypeOK, Key PROVE TypeOK'
  OBVIOUS
<1>0. DataOK /\ PlannerOK /\ OperationOK /\ ScreenOK /\ RestOK
  BY TypeParts
<1> SUFFICES DataOK' /\ PlannerOK' /\ OperationOK' /\ ScreenOK' /\ RestOK'
  BY TypeParts, PTL
<1> USE DEF data, planner, operation, screen, fixed, history
<1>1. CASE CtrlC
  BY <1>0, <1>1 DEF CtrlC, Quit, DataOK, PlannerOK, OperationOK, ScreenOK, RestOK, Plans,
     Operations
<1>2. CASE Q \/ Help
  BY <1>0, <1>2 DEF Q, Quit, Help, HelpShows, DataOK, PlannerOK, OperationOK, ScreenOK,
     RestOK, Plans
<1>3. CASE Type
  <2>1. typed' \in Typings
    BY <1>0, <1>3 DEF Type, Extends, Shortened, PlannerOK, Typings
  <2> QED
    BY <1>0, <1>3, <2>1 DEF Type, DataOK, PlannerOK, OperationOK, ScreenOK, RestOK, Plans
<1>4. CASE CancelConfirmation
  BY <1>0, <1>4, NothingIsTyping DEF CancelConfirmation, DataOK, PlannerOK, OperationOK,
     ScreenOK, RestOK, Plans
<1>5. CASE Confirm \/ Prepare
  BY <1>0, <1>5 DEF Confirm, Prepare, DataOK, PlannerOK, OperationOK, ScreenOK, RestOK,
     Plans, Operations
<1>6. CASE ClosePlan
  BY <1>0, <1>6 DEF ClosePlan, NoPlan, DataOK, PlannerOK, OperationOK, ScreenOK, RestOK, Plans
<1>7. CASE Rescan
  BY <1>0, <1>7, ScanType DEF Rescan, DataOK, PlannerOK, OperationOK, ScreenOK, RestOK, Plans
<1>8. CASE OpenPlan
  <2>1. preview' \in Plans
    BY <1>0, <1>8, PlanForType DEF OpenPlan, DataOK
  <2> QED
    BY <1>0, <1>8, <2>1 DEF OpenPlan, DataOK, PlannerOK, OperationOK, ScreenOK, RestOK, Plans
<1>9. CASE ToggleLayout
  BY <1>0, <1>9 DEF ToggleLayout, DataOK, PlannerOK, OperationOK, ScreenOK, RestOK, Plans
<1>10. ASSUME NEW o \in Objects, ToggleMark(o)
       PROVE  DataOK' /\ PlannerOK' /\ OperationOK' /\ ScreenOK' /\ RestOK'
  <2>1. marks' \subseteq Objects /\ preview' = NoPlan
    BY <1>0, <1>10 DEF ToggleMark, Atlas, DataOK
  <2>2. preview' \in Plans'
    BY <2>1 DEF Plans, NoPlan
  <2> QED
    BY <1>0, <1>10, <2>1, <2>2 DEF ToggleMark, DataOK, PlannerOK, OperationOK, ScreenOK, RestOK
<1> QED
  BY <1>1, <1>2, <1>3, <1>4, <1>5, <1>6, <1>7, <1>8, <1>9, <1>10 DEF Key

LEMMA MessageTypes == TypeOK /\ Message => TypeOK'
<1> SUFFICES ASSUME TypeOK, Message PROVE TypeOK'
  OBVIOUS
<1>0. DataOK /\ PlannerOK /\ OperationOK /\ ScreenOK /\ RestOK
  BY TypeParts
<1> SUFFICES DataOK' /\ PlannerOK' /\ OperationOK' /\ ScreenOK' /\ RestOK'
  BY TypeParts, PTL
<1> USE DEF data, planner, operation, screen, fixed, history
<1>1. CASE PrepareDone
  <2>1. op \in Versions /\ marks' = marks
    BY <1>1 DEF PrepareDone, OperationDone, Arrived
  <2>2. preview' \in Plans
    BY <1>1, <2>1, PlanForType DEF PrepareDone
  <2> QED
    BY <1>0, <1>1, <2>1, <2>2, NothingIsTyping DEF PrepareDone, OperationDone, DataOK,
       PlannerOK, OperationOK, ScreenOK, RestOK, Plans, Operations
<1>2. CASE PrepareFailed
  BY <1>0, <1>2 DEF PrepareFailed, OperationDone, NoPlan, DataOK, PlannerOK, OperationOK,
     ScreenOK, RestOK, Plans, Operations
<1>3. CASE ExecuteDone
  BY <1>0, <1>3, ScanType DEF ExecuteDone, NoPlan, DataOK, PlannerOK, OperationOK,
     ScreenOK, RestOK, Plans, Operations
<1>4. CASE QuitAfterOperation
  BY <1>0, <1>4 DEF QuitAfterOperation, QuitNow, OperationDone, DataOK, PlannerOK,
     OperationOK, ScreenOK, RestOK, Plans, Operations
<1>5. ASSUME NEW s \in 1..Slots, ScanDone(s)
      PROVE  DataOK' /\ PlannerOK' /\ OperationOK' /\ ScreenOK' /\ RestOK'
  BY <1>0, <1>5 DEF ScanDone, Arrived, DataOK, PlannerOK, OperationOK, ScreenOK, RestOK,
     Plans, Scans
<1> QED
  BY <1>1, <1>2, <1>3, <1>4, <1>5 DEF Message

LEMMA TypeStep == TypeOK /\ [Next]_vars => TypeOK'
<1> SUFFICES ASSUME TypeOK, [Next]_vars PROVE TypeOK'
  OBVIOUS
<1>0. DataOK /\ PlannerOK /\ OperationOK /\ ScreenOK /\ RestOK
  BY TypeParts
<1>1. ASSUME \/ InventoryChanges \/ OperationEnds \/ Terminate \/ UNCHANGED vars
             \/ \E s \in 1..Slots : ScanEnds(s)
      PROVE  DataOK' /\ PlannerOK' /\ OperationOK' /\ ScreenOK' /\ RestOK'
  <2>1. UNCHANGED <<data, planner, operation, screen, readOnly, history>>
    BY <1>1 DEF InventoryChanges, OperationEnds, Terminate, ScanEnds, fixed, vars
  <2>2. version' \in Versions
    BY <1>0, <1>1, TuiAssumption DEF InventoryChanges, OperationEnds, Terminate, ScanEnds,
       fixed, vars, RestOK, Versions
  <2>3. op' \in Operations /\ ended' \in {"no", "quit", "killed"}
    BY <1>0, <1>1 DEF InventoryChanges, OperationEnds, Terminate, ScanEnds, vars, RestOK,
       Operations
  <2>4. scans' \in [1..Slots -> Scans]
    <3>1. ASSUME NEW s \in 1..Slots, ScanEnds(s) PROVE scans' \in [1..Slots -> Scans]
      <4>1. PICK result \in {Failed} \cup 0..version \cup {version} :
              scans' = [scans EXCEPT ![s] = result]
        BY <3>1 DEF ScanEnds
      <4>2. result \in Scans
        BY <1>0, Numbers DEF RestOK, Scans, Versions
      <4> QED
        BY <1>0, <4>1, <4>2 DEF RestOK
    <3> QED
      BY <1>0, <1>1, <3>1 DEF InventoryChanges, OperationEnds, Terminate, vars, RestOK
  <2> QED
    BY <1>0, <2>1, <2>2, <2>3, <2>4 DEF data, planner, operation, screen, history,
       DataOK, PlannerOK, OperationOK, ScreenOK, RestOK, Plans
<1>2. TypeOK' <=> (DataOK /\ PlannerOK /\ OperationOK /\ ScreenOK /\ RestOK)'
  BY TypeParts, PTL
<1> QED
  BY <1>1, <1>2, KeyTypes, MessageTypes DEF Next

\* Every plan on the screen is a plan of the marks, in any order of keys and messages.
THEOREM TuiTypeOK == Spec => []TypeOK
<1>1. Init => TypeOK
  <2> SUFFICES ASSUME Init PROVE DataOK /\ PlannerOK /\ OperationOK /\ ScreenOK /\ RestOK
    BY TypeParts
  <2>1. 0 \in Versions
    BY TuiAssumption DEF Versions
  <2>2. PlannerOK
    BY NothingIsTyping DEF Init, PlannerOK, Plans, NoPlan
  <2> QED
    BY <2>1, <2>2 DEF Init, DataOK, OperationOK, ScreenOK, RestOK, Scans, Operations
<1> QED
  BY <1>1, TypeStep, PTL DEF Spec

(***************************************************************************)
(* The operations.  The strengthening orders the flags: a plan is prepared *)
(* before it is asked about and asked about while it is executed, nothing  *)
(* runs under the help screen, and what was typed counts for the plan that *)
(* is asked about only.                                                    *)
(***************************************************************************)
Staged ==
  /\ OneOperation
  /\ preparing => ~confirming
  /\ executing => confirming
  /\ help => ~InFlight

Refreshed ==
  /\ askedAt <= version
  /\ preparing /\ op \in Versions => op >= askedAt
  /\ preparing \/ confirming => ~readOnly
  /\ confirming => preview.version >= askedAt

Confirmed == (typed = Yes => sawYes) /\ (executing => sawYes)

LEMMA StagedStep == TypeOK /\ Staged /\ [Next]_vars => Staged'
<1> SUFFICES ASSUME TypeOK, Staged, [Next]_vars PROVE Staged'
  OBVIOUS
<1> USE Numbers DEF data, planner, operation, screen, fixed, history, InFlight, Staged,
        OneOperation, Reached
<1>0. DataOK /\ RestOK
  BY TypeParts
<1>1. CASE CtrlC \/ Q \/ Help
  BY <1>1 DEF CtrlC, Q, Quit, Help, HelpShows, Running, Cancelled, Idle
<1>2. CASE Type \/ CancelConfirmation
  BY <1>2 DEF Type, CancelConfirmation
<1>3. CASE Confirm \/ Prepare
  BY <1>3 DEF Confirm, Prepare, Running, Idle
<1>4. CASE ClosePlan
  BY <1>4 DEF ClosePlan
<1>5. CASE Rescan \/ ToggleLayout \/ \E o \in Objects : ToggleMark(o)
  BY <1>5 DEF Rescan, ToggleLayout, ToggleMark
<1>6. CASE OpenPlan
  BY <1>0, <1>6, PlanForType DEF OpenPlan, DataOK, Atlas
<1>7. CASE PrepareDone
  <2>1. op \in Versions
    BY <1>7 DEF PrepareDone, OperationDone, Arrived
  <2> QED
    BY <1>7, <2>1, PlanForType DEF PrepareDone, OperationDone
<1>8. CASE PrepareFailed
  BY <1>8 DEF PrepareFailed, OperationDone
<1>9. CASE ExecuteDone
  BY <1>9 DEF ExecuteDone
<1>10. CASE QuitAfterOperation
  BY <1>10 DEF QuitAfterOperation, QuitNow, OperationDone
<1>11. CASE \E s \in 1..Slots : ScanDone(s) \/ ScanEnds(s)
  BY <1>11 DEF ScanDone, ScanEnds
<1>12. CASE OperationEnds
  BY <1>0, <1>12 DEF OperationEnds, RestOK, Running, Cancelled, Idle, Failed
<1>13. CASE InventoryChanges \/ Terminate \/ UNCHANGED vars
  BY <1>13 DEF InventoryChanges, Terminate, vars
<1> QED
  BY <1>1, <1>2, <1>3, <1>4, <1>5, <1>6, <1>7, <1>8, <1>9, <1>10, <1>11, <1>12, <1>13
     DEF Next, Key, Message

\* At any time one operation is under way, with its command running or answered:
\* for any number of scans and any order of keys and messages.
THEOREM TuiOneOperation == Spec => []OneOperation
<1>1. Init => Staged
  BY DEF Init, Staged, OneOperation, InFlight
<1>2. Staged => OneOperation
  BY DEF Staged
<1> QED
  BY <1>1, <1>2, StagedStep, TuiTypeOK, PTL DEF Spec

LEMMA RefreshedStep == TypeOK /\ Staged /\ Refreshed /\ [Next]_vars => Refreshed'
<1> SUFFICES ASSUME TypeOK, Staged, Refreshed, [Next]_vars PROVE Refreshed'
  OBVIOUS
<1> USE DEF data, planner, operation, screen, fixed, history, Refreshed
<1>0. DataOK /\ RestOK /\ version \in Nat /\ askedAt \in Nat
  BY TypeParts, Numbers DEF RestOK
<1>1. CASE CtrlC
  BY <1>1, Numbers DEF CtrlC, Quit
<1>2. CASE Q \/ Help \/ Type \/ CancelConfirmation \/ Rescan \/ ToggleLayout
           \/ \E o \in Objects : ToggleMark(o)
  BY <1>2 DEF Q, Quit, Help, HelpShows, Type, CancelConfirmation, Rescan, ToggleLayout,
     ToggleMark
<1>3. CASE Confirm
  BY <1>3 DEF Confirm, Staged, Reached, InFlight
<1>4. CASE Prepare
  BY <1>0, <1>4, Numbers DEF Prepare
<1>5. CASE ClosePlan \/ OpenPlan
  BY <1>5 DEF ClosePlan, OpenPlan, Atlas
<1>6. CASE PrepareDone
  <2>1. op \in Versions
    BY <1>6 DEF PrepareDone, OperationDone, Arrived
  <2> QED
    BY <1>6, <2>1, PlanForType DEF PrepareDone, OperationDone
<1>7. CASE PrepareFailed
  BY <1>7 DEF PrepareFailed, OperationDone, Staged
<1>8. CASE ExecuteDone
  BY <1>8 DEF ExecuteDone, Staged, OneOperation
<1>9. CASE QuitAfterOperation
  BY <1>9 DEF QuitAfterOperation, QuitNow, OperationDone
<1>10. CASE \E s \in 1..Slots : ScanDone(s) \/ ScanEnds(s)
  BY <1>10 DEF ScanDone, ScanEnds
<1>11. CASE OperationEnds
  BY <1>0, <1>11, Numbers DEF OperationEnds
<1>12. CASE InventoryChanges
  BY <1>0, <1>12 DEF InventoryChanges
<1>13. CASE Terminate \/ UNCHANGED vars
  BY <1>13 DEF Terminate, vars
<1> QED
  BY <1>1, <1>2, <1>3, <1>4, <1>5, <1>6, <1>7, <1>8, <1>9, <1>10, <1>11, <1>12, <1>13
     DEF Next, Key, Message

\* What is executed was planned from an inventory no older than the last x, and
\* never read-only, whichever scans and messages overtake each other.
THEOREM TuiExecutesPrepared == Spec => []ExecutedIsPrepared
<1>1. Init => Staged /\ Refreshed
  BY DEF Init, Staged, Refreshed, OneOperation, InFlight
<1>2. Staged /\ Refreshed => ExecutedIsPrepared
  BY DEF Staged, Refreshed, ExecutedIsPrepared
<1> QED
  BY <1>1, <1>2, StagedStep, RefreshedStep, TuiTypeOK, PTL DEF Spec

LEMMA ConfirmedStep == TypeOK /\ Staged /\ Confirmed /\ [Next]_vars => Confirmed'
<1> SUFFICES ASSUME TypeOK, Staged, Confirmed, [Next]_vars PROVE Confirmed'
  OBVIOUS
<1> USE DEF data, planner, operation, screen, fixed, history, Confirmed
<1>1. CASE PrepareDone
  BY <1>1, NothingIsTyping DEF PrepareDone, OperationDone
<1>2. CASE PrepareFailed \/ QuitAfterOperation \/ ExecuteDone
  BY <1>2 DEF PrepareFailed, QuitAfterOperation, QuitNow, OperationDone, ExecuteDone
<1>3. CASE Type
  <2>1. executing' = executing /\ (sawYes' = TRUE \/ (sawYes' = sawYes /\ typed' # Yes))
    <3>1. CASE typed' = Yes
      BY <1>3, <3>1 DEF Type
    <3>2. CASE typed' # Yes
      <4>1. sawYes \in BOOLEAN
        BY DEF TypeOK
      <4> QED
        BY <1>3, <3>2, <4>1 DEF Type
    <3> QED
      BY <3>1, <3>2
  <2> QED
    BY <2>1
<1>4. CASE CancelConfirmation
  BY <1>4, NothingIsTyping DEF CancelConfirmation
<1>5. CASE Confirm \/ Prepare \/ ClosePlan \/ OpenPlan
  BY <1>5 DEF Confirm, Prepare, ClosePlan, OpenPlan
<1>6. CASE CtrlC \/ Q \/ Help \/ Rescan \/ ToggleLayout \/ \E o \in Objects : ToggleMark(o)
  BY <1>6 DEF CtrlC, Q, Quit, Help, HelpShows, Rescan, ToggleLayout, ToggleMark
<1>7. CASE InventoryChanges \/ OperationEnds \/ Terminate \/ UNCHANGED vars
           \/ \E s \in 1..Slots : ScanDone(s) \/ ScanEnds(s)
  BY <1>7 DEF InventoryChanges, OperationEnds, Terminate, ScanDone, ScanEnds, vars
<1> QED
  BY <1>1, <1>2, <1>3, <1>4, <1>5, <1>6, <1>7 DEF Next, Key, Message

\* No execution without a "yes" typed for the plan it executes, whatever else was
\* typed, pasted, cancelled and prepared before.
THEOREM TuiConfirmsExecutions == Spec => []EveryExecutionIsConfirmed
<1>1. Init => Staged /\ Confirmed
  BY NothingIsTyping DEF Init, Staged, Confirmed, OneOperation, InFlight
<1>2. Confirmed => EveryExecutionIsConfirmed
  BY DEF Confirmed, EveryExecutionIsConfirmed
<1> QED
  BY <1>1, <1>2, StagedStep, ConfirmedStep, TuiTypeOK, PTL DEF Spec

\* No key ends the program under a cleanup or its preparation.
THEOREM TuiWaitsForCleanup == Spec => []KeysNeverAbandonCleanup
<1>1. Init => Staged /\ KeysNeverAbandonCleanup
  BY DEF Init, Staged, OneOperation, InFlight, KeysNeverAbandonCleanup
<1>2. TypeOK /\ Staged /\ KeysNeverAbandonCleanup /\ [Next]_vars => KeysNeverAbandonCleanup'
  <2> SUFFICES ASSUME Staged, KeysNeverAbandonCleanup, [Next]_vars, ended' = "quit"
               PROVE  ~InFlight'
    BY DEF KeysNeverAbandonCleanup
  <2> USE DEF operation, InFlight
  <2>1. CASE UNCHANGED vars
    BY <2>1 DEF vars, KeysNeverAbandonCleanup
  <2>2. CASE Next /\ CtrlC
    BY <2>2 DEF CtrlC, Quit, Next
  <2>3. CASE Q
    BY <2>3 DEF Q, Quit, Reached, Staged
  <2>4. CASE QuitAfterOperation
    BY <2>4 DEF QuitAfterOperation, OperationDone
  <2>5. CASE Next /\ ended' = ended
    BY <2>5 DEF Next
  <2> QED
    BY <2>1, <2>2, <2>3, <2>4, <2>5 DEF Next, Key, Message, Help, HelpShows, Type,
       CancelConfirmation, Confirm, Prepare, ClosePlan, Rescan, OpenPlan, ToggleLayout,
       ToggleMark, PrepareDone, PrepareFailed, ExecuteDone, ScanDone, ScanEnds,
       OperationEnds, InventoryChanges, Terminate
<1> QED
  BY <1>1, <1>2, StagedStep, TuiTypeOK, PTL DEF Spec
=============================================================================
