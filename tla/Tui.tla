-------------------------------- MODULE Tui --------------------------------
(***************************************************************************)
(* The interactive program: Model.Update and handleKey of internal/tui,    *)
(* with the commands they start.  A command (a scan, the preparation of a  *)
(* cleanup, its execution) runs in a goroutine and its message arrives at  *)
(* any later moment; messages of different commands may overtake each      *)
(* other.  SIGTERM ends the program between any two steps.                 *)
(*                                                                         *)
(* The daemon's inventory is a version; a snapshot is the version it was   *)
(* read at.  Present and Deletable say which objects a version holds and   *)
(* which of them Build would put in a plan's Items.  Moving the selection  *)
(* (the stack of frames), scrolling, sorting, details, resizing and export *)
(* change nothing here: any object of the tree may be the selected one.    *)
(***************************************************************************)
EXTENDS Integers, FiniteSets

CONSTANTS Objects,     \* what can be marked
          BuildCaches, \* those of them that are build cache entries
          MaxVersion,  \* bound on the changes of the inventory
          Present, Deletable, \* [0..MaxVersion -> SUBSET Objects]
          Slots        \* bound on the scans in flight

ASSUME TuiAssumption ==
  /\ BuildCaches \subseteq Objects
  /\ MaxVersion \in Nat /\ Slots \in Nat /\ Slots > 1
  /\ Present \in [0..MaxVersion -> SUBSET Objects]
  /\ Deletable \in [0..MaxVersion -> SUBSET Objects]
  /\ \A v \in 0..MaxVersion : Deletable[v] \subseteq Present[v]

VARIABLES
  version,    \* of the daemon's inventory
  snap,       \* m.snap: the version it was read at, or None
  layout,     \* "type" or "project"
  marks,      \* m.marks
  preview,    \* m.preview: NoPlan, or the version and the items of the plan
  confirming, \* the planner asks for "yes"
  typed,      \* m.confirmation: how many characters match "yes", how many follow
  executing, preparing, quitAfter, help, loading, err,
  scans,      \* the scan commands: Idle, First, Running, or the result on its way
  op,         \* the operation's command: Idle, Running, Cancelled, or its result
  ended,      \* "no", "quit" by a key, or "killed" by a signal
  readOnly,
  askedAt,    \* history: the inventory's version when x was pressed last
  sawYes      \* history: "yes" was completed since the plan was last prepared

data == <<snap, layout, marks>>
planner == <<preview, confirming, typed>>
operation == <<executing, preparing, quitAfter>>
screen == <<help, loading, err>>
fixed == <<version, readOnly>>
history == <<askedAt, sawYes>>
vars == <<data, planner, operation, screen, fixed, history, scans, op, ended>>

Versions == 0..MaxVersion
None == -1      \* no snapshot
Failed == -2    \* the result of a command that ended in an error
Idle == -3
Running == -4
First == -5     \* the first scan, which may be answered from the cache
Cancelled == -6 \* running, with its context cancelled

NoPlan == [version |-> None, items |-> {}]
NothingTyped == [good |-> 0, bad |-> 0]
Yes == [good |-> 3, bad |-> 0]

Init ==
  /\ version = 0 /\ snap = None /\ layout = "type" /\ marks = {}
  /\ preview = NoPlan /\ confirming = FALSE /\ typed = NothingTyped
  /\ executing = FALSE /\ preparing = FALSE /\ quitAfter = FALSE
  /\ help = FALSE /\ loading = TRUE /\ err = FALSE
  /\ scans = [s \in 1..Slots |-> IF s = 1 THEN First ELSE Idle]
  /\ op = Idle /\ ended = "no" /\ readOnly \in BOOLEAN
  /\ askedAt = 0 /\ sawYes = FALSE

(***************************************************************************)
(* What is on the screen, and the plan of the marks in the tree.           *)
(***************************************************************************)
Screen ==
  IF loading THEN "loading"
  ELSE IF err THEN "error"
  ELSE IF preview # NoPlan THEN "planner"
  ELSE IF help THEN "help" ELSE "atlas"

\* The objects a mark can be taken from: the by-project layout gives its build
\* cache nodes no ID, and then nodeMark finds none.
InTree(v) == IF layout = "project" THEN Present[v] \ BuildCaches ELSE Present[v]

\* openPlan: only marks found in the tree are passed to Build.
PlanFor(v) == [version |-> v, items |-> marks \cap InTree(v) \cap Deletable[v]]

\* A scan command takes the first free slot.
FreeSlots == {s \in 1..Slots : scans[s] = Idle}
WithScan == [scans EXCEPT ![CHOOSE s \in FreeSlots : \A t \in FreeSlots : s <= t] = Running]

(***************************************************************************)
(* The daemon, the commands and the signal.                                *)
(***************************************************************************)
InventoryChanges ==
  /\ version < MaxVersion
  /\ version' = version + 1
  /\ UNCHANGED <<data, planner, operation, screen, readOnly, history, scans, op, ended>>

\* A scan ends, with the inventory of this moment or with an error; the first one
\* perhaps with an inventory the cache has kept.
ScanEnds(s) ==
  /\ scans[s] \in {First, Running}
  /\ \E result \in {Failed} \cup (IF scans[s] = First THEN 0..version ELSE {version}) :
       scans' = [scans EXCEPT ![s] = result]
  /\ UNCHANGED <<data, planner, operation, screen, fixed, history, op, ended>>

\* The goroutine of the operation ends: a preparation with a complete scan of this
\* moment or with an error, an execution with its report.  A cancelled one may
\* have been past its last look at the context.
OperationEnds ==
  /\ op \in {Running, Cancelled}
  /\ op' \in {version, Failed}
  /\ UNCHANGED <<data, planner, operation, screen, fixed, history, scans, ended>>

\* A signal cancels the program's context, and tea.Program stops where it is.
Terminate ==
  /\ ended' = "killed"
  /\ UNCHANGED <<data, planner, operation, screen, fixed, history, scans, op>>

(***************************************************************************)
(* Update: the messages of the commands.                                   *)
(***************************************************************************)
Arrived(result) == result \in {Failed} \cup Versions

\* Mutant: a failed scan leaves the loading screen.
ScanDoneKeepsLoading(s) ==
  /\ Arrived(scans[s])
  /\ scans' = [scans EXCEPT ![s] = Idle]
  /\ err' = (scans[s] = Failed)
  /\ loading' = (loading /\ err')
  /\ snap' = IF err' THEN snap ELSE scans[s]
  /\ UNCHANGED <<help, layout, marks, planner, operation, fixed, history, op, ended>>

\* scanDoneMsg.  An open preview stays as it is.
ScanDone(s) ==
  /\ Arrived(scans[s])
  /\ scans' = [scans EXCEPT ![s] = Idle]
  /\ loading' = FALSE
  /\ err' = (scans[s] = Failed)
  /\ snap' = IF err' THEN snap ELSE scans[s]
  /\ UNCHANGED <<help, layout, marks, planner, operation, fixed, history, op, ended>>

\* The message of a preparation or of an execution: the operation is over.
OperationDone ==
  /\ Arrived(op)
  /\ op' = Idle
  /\ executing' = FALSE /\ preparing' = FALSE
  /\ UNCHANGED <<quitAfter, layout, marks, help, err, fixed, askedAt>>

QuitNow == ended' = "quit" /\ UNCHANGED <<snap, planner, loading, scans, sawYes>>

\* Mutant: the confirmation typed for an earlier plan is kept.
PrepareKeepsTyped ==
  /\ preparing /\ ~quitAfter /\ op # Failed
  /\ OperationDone
  /\ snap' = op /\ preview' = PlanFor(op)
  /\ confirming' = TRUE /\ sawYes' = FALSE
  /\ UNCHANGED <<typed, ended, loading, scans>>

\* Mutant: the plan that was shown is confirmed, not a refreshed one.
PrepareKeepsPlan ==
  /\ preparing /\ ~quitAfter /\ op # Failed
  /\ OperationDone
  /\ snap' = op
  /\ confirming' = TRUE /\ typed' = NothingTyped /\ sawYes' = FALSE
  /\ UNCHANGED <<preview, ended, loading, scans>>

\* prepareDoneMsg: ask for confirmation of the plan of the refreshed state.
PrepareDone ==
  /\ preparing /\ ~quitAfter /\ op # Failed
  /\ OperationDone
  /\ snap' = op /\ preview' = PlanFor(op)
  /\ confirming' = TRUE /\ typed' = NothingTyped /\ sawYes' = FALSE
  /\ UNCHANGED <<ended, loading, scans>>

PrepareFailed ==
  /\ preparing /\ ~quitAfter /\ op = Failed
  /\ OperationDone
  /\ preview' = NoPlan
  /\ UNCHANGED <<snap, confirming, typed, ended, loading, scans, sawYes>>

\* executeDoneMsg: forget the plan and the marks, and scan again.
ExecuteDone ==
  /\ executing /\ ~quitAfter
  /\ FreeSlots # {}
  /\ Arrived(op) /\ op' = Idle
  /\ executing' = FALSE
  /\ confirming' = FALSE /\ preview' = NoPlan /\ marks' = {}
  /\ loading' = TRUE /\ scans' = WithScan
  /\ UNCHANGED <<preparing, quitAfter, snap, layout, typed, help, err, fixed, history, ended>>

\* Mutant: only a preparation remembers that the user wants to leave.
QuitAfterPreparing == quitAfter /\ preparing /\ OperationDone /\ QuitNow

\* Either message, after ctrl+c.
QuitAfterOperation == quitAfter /\ OperationDone /\ QuitNow

(***************************************************************************)
(* handleKey.  The keys mean the same on the loading and error screens.    *)
(***************************************************************************)
InFlight == executing \/ preparing

\* Mutant: keys are not ignored while an operation runs.
ReachedWhileBusy == ~help

\* Keys reach the planner or the atlas only past the help screen and an operation.
Reached == ~help /\ ~InFlight

Quit ==
  /\ ended' = "quit"
  /\ UNCHANGED <<data, planner, operation, screen, fixed, history, scans, op>>

\* Mutant: ctrl+c leaves at once.
LeaveAtOnce == Quit

\* ctrl+c: an operation is cancelled and waited for, everything else is left.
CtrlC ==
  \/ ~InFlight /\ Quit
  \/ /\ InFlight
     /\ quitAfter' = TRUE
     /\ op' = IF op = Running THEN Cancelled ELSE op
     /\ UNCHANGED <<data, planner, executing, preparing, screen, fixed, history, scans, ended>>

\* q, under the help screen and in the atlas.
Q == (help \/ (Reached /\ ~confirming /\ preview = NoPlan)) /\ Quit

HelpShows(yes) ==
  /\ help' = yes
  /\ UNCHANGED <<data, planner, operation, loading, err, fixed, history, scans, op, ended>>

\* "?" in the atlas and under help, esc under help.
Help ==
  \/ help /\ HelpShows(FALSE)
  \/ Reached /\ ~confirming /\ preview = NoPlan /\ HelpShows(TRUE)

\* Mutant: the confirmation takes any number of characters.
ExtendsFreely(old, new) ==
  /\ new.good + new.bad > old.good + old.bad
  /\ IF old.bad > 0 THEN new.good = old.good ELSE new.good >= old.good

\* The confirmation: what a key, or a paste of several characters, leaves typed.
Extends(old, new) ==
  /\ new.good + new.bad > old.good + old.bad /\ new.good + new.bad <= 3
  /\ IF old.bad > 0 THEN new.good = old.good ELSE new.good >= old.good

Shortened == IF typed.bad > 0 THEN [typed EXCEPT !.bad = @ - 1]
             ELSE IF typed.good > 0 THEN [typed EXCEPT !.good = @ - 1] ELSE typed

Type ==
  /\ Reached /\ confirming
  /\ typed' \in {new \in [good : 0..3, bad : 0..3] : Extends(typed, new)} \cup {Shortened}
  /\ sawYes' = (sawYes \/ typed' = Yes)
  /\ UNCHANGED <<data, preview, confirming, operation, screen, fixed, askedAt, scans, op, ended>>

CancelConfirmation ==
  /\ Reached /\ confirming
  /\ confirming' = FALSE /\ typed' = NothingTyped
  /\ UNCHANGED <<data, preview, operation, screen, fixed, history, scans, op, ended>>

\* enter: the plan goes to Execute.
Confirm ==
  /\ Reached /\ confirming /\ typed = Yes
  /\ executing' = TRUE /\ op' = Running
  /\ UNCHANGED <<data, planner, preparing, quitAfter, screen, fixed, history, scans, ended>>

\* x: scan again before asking for confirmation.
Prepare ==
  /\ Reached /\ ~confirming /\ preview # NoPlan
  /\ ~readOnly /\ preview.items # {}
  /\ preparing' = TRUE /\ op' = Running /\ askedAt' = version
  /\ UNCHANGED <<data, planner, executing, quitAfter, screen, fixed, sawYes, scans, ended>>

ClosePlan ==
  /\ Reached /\ ~confirming /\ preview # NoPlan
  /\ preview' = NoPlan
  /\ UNCHANGED <<data, confirming, typed, operation, screen, fixed, history, scans, op, ended>>

Atlas == Reached /\ ~confirming /\ preview = NoPlan

\* r.  A slot stays free for the scan that follows a cleanup.
Rescan ==
  /\ Atlas /\ Cardinality(FreeSlots) > 1
  /\ loading' = TRUE /\ err' = FALSE /\ scans' = WithScan
  /\ UNCHANGED <<help, data, planner, operation, fixed, history, op, ended>>

ToggleMark(o) ==
  /\ Atlas /\ snap # None /\ o \in InTree(snap)
  /\ marks' = IF o \in marks THEN marks \ {o} ELSE marks \cup {o}
  /\ UNCHANGED <<snap, layout, planner, operation, screen, fixed, history, scans, op, ended>>

OpenPlan ==
  /\ Atlas /\ snap # None
  /\ preview' = PlanFor(snap)
  /\ UNCHANGED <<data, confirming, typed, operation, screen, fixed, history, scans, op, ended>>

ToggleLayout ==
  /\ Atlas
  /\ layout' = IF layout = "type" THEN "project" ELSE "type"
  /\ UNCHANGED <<snap, marks, planner, operation, screen, fixed, history, scans, op, ended>>

Key ==
  \/ CtrlC \/ Q \/ Help
  \/ Type \/ CancelConfirmation \/ Confirm
  \/ Prepare \/ ClosePlan
  \/ Rescan \/ OpenPlan \/ ToggleLayout \/ \E o \in Objects : ToggleMark(o)

Message ==
  \/ PrepareDone \/ PrepareFailed \/ ExecuteDone \/ QuitAfterOperation
  \/ \E s \in 1..Slots : ScanDone(s)

Next ==
  /\ ended = "no"
  /\ \/ Key \/ Message \/ Terminate
     \/ InventoryChanges \/ OperationEnds \/ \E s \in 1..Slots : ScanEnds(s)

Spec == Init /\ [][Next]_vars

\* Commands end (each has a deadline), and the event loop delivers their messages.
\* Keys, signals and the daemon are not obliged to do anything.
FairSpec ==
  /\ Spec
  /\ WF_vars(ended = "no" /\ OperationEnds)
  /\ WF_vars(ended = "no" /\ (PrepareDone \/ PrepareFailed \/ ExecuteDone \/ QuitAfterOperation))
  /\ \A s \in 1..Slots : WF_vars(ended = "no" /\ ScanEnds(s)) /\ WF_vars(ended = "no" /\ ScanDone(s))

(***************************************************************************)
(* Properties.                                                             *)
(***************************************************************************)
\* The variables keep their types, and every plan is a plan of the marks.
TypeOK ==
  /\ version \in Versions /\ snap \in {None} \cup Versions /\ layout \in {"type", "project"}
  /\ marks \subseteq Objects
  /\ preview \in [version : {None} \cup Versions, items : SUBSET marks]
  /\ typed \in [good : 0..3, bad : 0..3] /\ typed.good + typed.bad <= 3
  /\ {confirming, executing, preparing, quitAfter, help, loading, err, readOnly, sawYes}
       \subseteq BOOLEAN
  /\ scans \in [1..Slots -> {Idle, First, Running, Failed} \cup Versions]
  /\ op \in {Idle, Running, Cancelled, Failed} \cup Versions
  /\ ended \in {"no", "quit", "killed"} /\ askedAt \in Versions

\* There is one operation at a time, its command is running or has answered, and a
\* plan is there to be confirmed or executed (a second prepareCmd or executeCmd
\* would overwrite m.operationCancel, and ctrl+c could no longer stop the first).
OneOperation ==
  /\ ~(executing /\ preparing)
  /\ op # Idle <=> InFlight
  /\ InFlight \/ confirming => preview # NoPlan

\* Nothing is executed but a plan of the inventory as it was at or after the last
\* x: scans that arrive late, rescans and layout changes do not get between.
ExecutedIsPrepared == executing => preview.version >= askedAt /\ ~readOnly

\* Every execution was confirmed with a "yes" typed for this very plan.
EveryExecutionIsConfirmed == executing => sawYes

\* No key leaves the program while a cleanup or its preparation is under way.
KeysNeverAbandonCleanup == ended = "quit" => ~InFlight

\* After ctrl+c the program ends as soon as the operation has answered.
CancelledOperationQuits == quitAfter ~> ended # "no"

\* The loading screen goes away, whatever becomes of the scans.
LoadingEnds == loading ~> (~loading \/ ended # "no")

\* internal/tui/panels.go:124 asks to confirm "the allowed items above": the
\* plan is on the screen when its execution starts.
ConfirmsWhatIsShown == [][~executing /\ executing' => Screen = "planner"]_vars

\* internal/tui/panels.go:89: the preview covers marks "in other groups" too, so
\* that no marked and deletable object is left out.
PlanCoversMarks ==
  preview # NoPlan => marks \cap Deletable[preview.version] \subseteq preview.items
=============================================================================
