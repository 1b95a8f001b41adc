# Verification of dodu

dodu shows what Docker keeps on disk and deletes what the user chooses, under
guards and with an audit log. This directory holds TLA+ models of the program,
the TLC runs that check them and the theorems TLAPS proves about them. Paths are
relative to the repository.

## 1. The system

| component | code | state it keeps | operations | what makes it correct |
|---|---|---|---|---|
| guarded plan builder | `pkg/plan/guards.go`, `plan.go` | the plan under construction, the marks seen | `Build` | nothing in use is planned; every mark gets one answer; containers go before their images; the estimate is honest |
| audited execution | `pkg/plan/exec.go` | the loop's position, the report, the audit log | `Execute`, `writeAudit` | intent on disk before the daemon acts; a success is a removal; at most one object in doubt after any failure |
| scanner | `pkg/scan/scanner.go`, `snapshot.go` | snapshot, errors, goroutines, channel, semaphore | `Scan`, `collectLogSizes` | an error-free snapshot is of one moment; gaps are reported; nothing outlives the scan; it returns |
| prune command | `internal/cli/prune.go` | one snapshot, one plan | fresh scan, default marks, preview, execution | only plans of complete scans are shown and executed |
| terminal interface | `internal/tui/app.go`, `panels.go` | `Model`: snapshot, tree, frames, marks, plan, confirmation, flags, commands in flight | `Update`, `handleKey`, `scanCmd`, `prepareCmd`, `executeCmd` | nothing is executed but the refreshed plan that was confirmed; keys do not abandon a cleanup; cursors and selection survive every rebuild; it comes to an end |
| snapshot cache | `pkg/cache`, `internal/cli/common.go`, `cache.go` | one locked bbolt file, per-daemon entries | `loadOrScan`, `cachedSnapshot`, `Save`, `Purge` | no stale or foreign answers; no lock across a scan; nobody blocked |
| size rules and totals | `pkg/size` | none | `ImageSizes`, `ComputeTotals`, `Format` | shared bytes counted once, as in the trees; reclaimable is a lower bound |
| grouping | `pkg/group` | trees | `ByType`, `ByProject`, `Sort` | each object has one place in either layout; both add up to the same total |
| Docker client | `pkg/docker` | a connection | lists, removals, prune, log sizes | faithful translation of replies |
| read commands, export | `internal/cli/scan.go`, `export.go`, `pkg/export` | a file | `dodu scan`, `dodu export`, the export key | success means that the document is written |
| command line | `cmd/dodu`, `internal/cli/root.go`, `tui.go` | flags | parsing, exit codes, signal context | - |
| release scripts | `scripts/`, `.github/workflows` | a hosted release | build, publish | an interrupted publication can be repeated |

How they interact. `prune` and the interface call `Scan`, hand the snapshot and
the marks to `Build`, show the plan, and hand the confirmed plan to `Execute`,
which calls the daemon through the client. The interface does so in commands:
goroutines whose messages come back to `Update` at any time and in any order.
`scan`, `export` and the first scan of the interface go through the cache;
cleanups never do. The daemon is shared with everybody else on the machine, the
cache file and the audit log with other dodu processes.

What is hard here: the time that passes between reading the inventory and
deleting from it; calls whose reply is lost while the daemon still acts; crashes
between intent, call and result; a fallback that reads four lists at four
moments; messages that overtake each other and keys that arrive in the wrong
mode; a file lock next to a daemon that may hang; and cancellation everywhere.
`PROJECT.json` lists the hazards, each at its line with the properties that cover
it or the reason why none does.

## 2. The modules

| module | models | state and actions against the code |
|---|---|---|
| `PlanRules` | the rules of `Build`, `defaultMarks`, `ImageSizes`, `Reclaimable` | operators on a snapshot; `PlansOf` is the set of plans `Build` may return for a set of marks |
| `Planner` | `Build` | one action per branch of the loop: skip a mark seen, warn, block, accept; then the sort and the sum. `phase` is the place in the function, the rest its locals |
| `AuditedRemoval` | the promise of the audit log | the abstract specification: a ledger of what is on disk and the set of objects gone |
| `Executor` | `Execute` and its surroundings | `pc` walks through the loop: `check`, `intent`, `sync_intent`, `call`, `await`, `result`, `sync_result`. Write and sync of a record are two steps; the log has a durable prefix; requests are in `flight` until the daemon serves or refuses them, which may be after the sender gave up. Cancel, Crash and a next run can come between any two steps |
| `Processes` | two dodu processes in `Execute` at the same time | the variables of `Executor` are one process's, an instance of it is the other; log, requests in flight and removals are shared. Either process can die alone, the machine takes both |
| `AuditFile` | the audit log as a file of lines | adds to `Executor` the write that ends half way: `torn` while the file ends in a stump, `spoiled` for the records that share a line with one |
| `Cleanup` | `prune` (and the preparation in the interface) with `PlanRules` and an instance of `Executor` | adds the daemon's world of one image, container and volume that others create, start, stop and remove, the scan (one DiskUsage call, or four separate lists), the preview, the confirmation; every step of `Executor` is taken with the world as the daemon behind it |
| `Scanner` | `Scan`, `collectLogSizes` | one control state per goroutine: Scan itself, four collectors, the log goroutine and its workers; the channel, the semaphore and the wait group are conditions on them |
| `Tui` | `Update`, `handleKey`, the commands | the fields of `Model` under their names; commands in flight are slots (`scans`, `op`) that hold "running" or the message on its way; each key is an action with the order of the modes in `handleKey` as its guard |
| `Grouping` | `ByType`, `ByProject`, `sumChildren`, `Sort`, `ComputeTotals` | operators: a tree is a function from inner nodes to the sequence of their children; the projects come out of a Go map, hence `Trees` is a set |
| `Navigation` | the atlas: tree, frames and cursors | `tree`, `stack`, `layout`, `sortBy` as in `Model`; one action per key, and `ShowSnapshot` for a scan or preparation that arrives; `Rebuild` is `rebuildTree` with `restoreSelection` |
| `Export` | `dodu export`, `dodu scan`, the export key, `ToCSV`, `ToJSON` | one action per step of the writing; `held` are rows in the buffer of the csv writer, `accepted` what the file took |
| `SnapshotCache` | `loadOrScan`, `cachedSnapshot`, `cache purge` in several processes | `pc` per process, one lock, one entry per daemon, a clock that only goes forward |
| `PlannerProofs`, `ExecutorProofs`, `ProcessesProofs`, `CleanupProofs`, `ScannerProofs`, `TuiProofs`, `NavigationProofs`, `SnapshotCacheProofs` | | the theorems of section 4, about the module in the name |
| `MC...` | | small instances for TLC |

Composition. `Cleanup` contains `Executor` and `PlanRules`, `Processes` two executions of `Executor`,
and `Navigation` the trees of `Grouping`; what `Planner` shows
of `Build` step by step (`BuildMeetsRules`) is what `Cleanup` assumes of it
(`PlansOf`). `Executor` implements `AuditedRemoval` (`KeepsLedger`), and
`Cleanup` implements `Executor` (`ImplementsExecutor`), so that what is proved of
`Executor` holds of a cleanup. `Tui` abstracts a plan to the version of the
inventory it was built from and the objects in it, `Cleanup` and `Executor`
having the details.

Abstractions. IDs are model values or short names, sizes small integers, -1 the
code's "unknown". The wording of reasons, warnings and logs is left out. In
`Scanner` and `Tui` the inventory is a version number that others advance: what
matters there is whether two lists agree and which one is newer. A second
operator beside a definition (`FinishSilently` beside `Finish`, for example) is
that definition with a plausible mistake; the specification does not use it, and
with it in place of the original the run finds a property violated. `Processes`
takes a record as one write that succeeds or fails as a whole, and `AuditFile`
the write apart. `Navigation` leaves scrolling out and starts after the first
snapshot arrives or before it; `Grouping` keeps names only where they order. What
may be marked in `Cleanup` is a set of its own (`AllMarks`, every object there may
be), which contains what `defaultMarks` and the planner's keys choose; the choice
itself is `DefaultMarks` in `PlanRules`. In `SnapshotCache` a scan is three steps:
the stamp, the inventory, and the end after the log files, with the clock running
between them. `AnswersAreFresh` bounds the age of what the cache hands out at the
moment it does; how old a process's own scan gets until its log sizes are there and
it is saved, nothing in the code bounds.

## 3. What TLC checks

All runs use the configurations as they are here; sizes are distinct states.

| run | question | bounds, and why they are enough |
|---|---|---|
| `planner` (0.8 million) | does `Build` spare what is used, answer each mark once, order removals, promise no more than it may? | every inventory of one image in three sharing variants, two containers, one volume and one cache entry, every sequence of up to `MaxMarks` = 3 of six marks, an unsupported kind and missing objects among them. Three marks are the least with a repetition around another mark and with two kinds to be reordered around a third |
| `executor` (0.3 million) | what are log, report and return value worth, also when another process does the same, and does an interrupted execution return? | this process has a plan of two items, a removal and a prune, or the empty one; the other process wants the entry or the container, too. `MaxRuns` = 2 runs, `MyRuns` = 1 of them ours: they may follow each other, so that a late request of one meets the log of the next, or overlap in any way. Two items are enough for one to fail and the next to go on, one shared object of each kind for two claims; a prune may report 4 bytes or none (`Freed`). No safety property depends on longer plans or more runs: section 4 proves all of them, and the refinement, for every value of the bounds |
| `cleanup` (0.6 million) | was everything that goes shown and confirmed, and deletable at one moment of the scan behind it, and is what stays reported? | one object of each kind that depend on each other; `MaxScans` = 2 scans and `MaxRuns` = 1 execution, so a plan may be abandoned for another; `MarkSets` is all three objects, as what is in use or gone drops out by itself |
| `scanner` (0.1 million) | when is a snapshot complete, what may still run when it is returned, and does `Scan` return? | three containers with `LogConcurrency` = 2: the semaphore fills and has a waiter; `MaxVersion` = 1 change of the inventory is enough for two lists to disagree |
| `tui` (0.7 million) | is only the confirmed, refreshed plan executed, one at a time, and do operations and loading end? | an object and a build cache entry whose deletability changes with each of `MaxVersion` = 2 changes; `Slots` = 2 scans in flight can overtake each other |
| `navigation` (428) | do cursors stay in range, is every object in the tree once, do the totals agree, does the selection stay? | four snapshots that may follow each other in any order, with everything the grouping looks at: two projects that share an image and a volume, the same listed in another order, replicas of a service, a container without a project, a log file, unknown sizes, layers known and unknown, and nothing at all. All layouts, orders and depths of frames occur |
| `cache` (0.3 million) | fresh answers, short locks, nobody blocked? | two processes, two daemons, `TTL` = 1 and `MaxNow` = 2: an entry can be fresh, expire, and be overwritten by a slow scan |
| `reclaimable`, `hidden_confirmation`, `dropped_marks`, `torn_log`, `export_csv` | statements of the repository the code does not keep, see section 5 | the instances above; two executions of one removal each; documents of up to `MaxPieces` = 3 rows with a `Buffer` of 2, so that some fit in the buffer and some do not |

Main properties, by the question a reviewer would ask:

- *Can dodu delete what is in use?* `PlanSparesWhatIsUsed` (the plan),
  `CompleteIsOneMoment` and `PlanFromOneMoment` (the snapshot behind it is never
  pieced together from different moments), `RemovesWhatWasShown` (nor does anything
  else ever go in its name, however late), `ExecutedIsPrepared` (the interface
  executes no older plan). That the daemon itself refuses what was put to use after
  the plan is taken from the unforced removals `pkg/docker/sdk.go` asks for; what
  the program makes of the refusal is `SurvivorsAreReported`.
- *Can it delete without being asked?* `EveryExecutionIsConfirmed`,
  `OneOperation`, `EveryMarkAnsweredOnce`, `SelectionSurvives`
  (the key that marks never finds another object under the cursor).
- *Is the log right after a crash?* `IntentBeforeMutation`, `SuccessIsReal`,
  `OneDoubtPerRun` (also for the log that a machine crash leaves), `KeepsLedger`,
  and for two processes `NoDoubleClaim`.
- *Is the report right?* `ReportKeepsOrder`, `ReturnTellsTruth`,
  `SurvivorsAreReported` (against the daemon's world: what is still there of the
  plan is neither reported removed nor passed over), `EstimateIsHonest`, `EveryObjectOnce`, `TotalsAgree`.
- *Does everything come to an end?* `ReturnsInTime`, `CancelledScanReturns`,
  `AnsweredScanReturns`, `CancelledOperationQuits`, `LoadingEnds`,
  `AnsweredCommandsEnd`.

Deadlock is checked in `cache` only: there some process can always act until the
end of time. Elsewhere the program really stops: `Build` and `Scan` return, the
bound on runs is used up, the interface is left.

Fairness, and what justifies it:

- `Processes!FairBothSpec`: `Execute` in this process goes on unless it waits for
  the daemon, and a client call ends once its context is done. That is all: the
  daemon owes no answer, the other process may stop for good, and the context need
  not end. `ReturnsInTime` says what follows once it does, by the five minutes of
  the interface (`panels.go:259`), ctrl+c or SIGTERM; `prune` sets no deadline and
  without an interruption nothing is claimed of it.
- `Scanner!FairSpec`: goroutines run on; log calls end by `LogStatTimeout`; other
  calls end once the context is done. `AnsweredScanReturns` makes the daemon's
  answers its hypothesis.
- `Tui!FairSpec`: scans and preparations end within thirty seconds and an
  execution within five minutes, and the event loop delivers their messages.
  Keys, signals and changes of the inventory are never required to happen.
- `SnapshotCache!Spec`: each process runs on by itself, waiting for the lock
  ends after two seconds. A daemon may hang for ever, and for
  `AnsweredCommandsEnd` each process's own daemon answers while the others' need
  not.

## 4. What TLAPS proves

For every value of the constants, from the assumptions named in the modules:

| theorem | states |
|---|---|
| `PlannerTypeOK` | `Planner`'s type invariant |
| `PlannerSparesWhatIsUsed` | no item of a plan is in use, for every inventory and every sequence of marks |
| `PlannerAnswersEveryMarkOnce` | every mark, however often repeated, ends as exactly one item, blocked item or warning |
| `PlannerRemovalOrder` | containers come first, and otherwise the order in which marks first occur |
| `PlannerEstimateIsHonest` | the estimate of a plan counts each planned object once, and a plan of default candidates promises no more than the total called reclaimable |
| `PlannerMeetsRules` | the loop of `Build` ends with one of the plans `PlansOf` allows, which is what `Cleanup` uses instead of it |
| `ExecutorTypeOK` | `Executor`'s type invariant, the position in the loop and the length of the report included |
| `ExecutorAnnounces` | the daemon removes nothing whose intent is not durable |
| `ExecutorSuccessIsReal` | a success in the report or the log is a removal that happened |
| `ExecutorKeepsOrder` | an item is asked of the daemon only when every earlier one is in the report |
| `ExecutorReturnsTruth` | a return without error means that everything is gone and durably recorded |
| `ExecutorOneDoubt` | whatever crashes, the log leaves the fate of one object per run open at most |
| `ExecutorKeepsLedger` | `Executor` implements `AuditedRemoval` |
| `ProcessesTypeOK`, `ProcessesAnnounce`, `ProcessesSuccessIsReal`, `ProcessesKeepOrder`, `ProcessesReturnTruth`, `ProcessesOneDoubt`, `ProcessesKeepLedger` | the same seven with a second process at work on the same log and daemon |
| `ProcessesNoDoubleClaim` | the two never both claim to have removed an object |
| `CleanupPlansOneMoment` | a plan that is shown was allowed as a whole at one moment since its scan began |
| `CleanupRemovesWhatWasShown` | all that is asked for or goes in the name of a run, however late, was free at one instant of the scan behind the plan confirmed for it |
| `CleanupReportsSurvivors` | what is still there of a confirmed plan is not reported as removed, and `Execute` does not return without an error while there is any |
| `CleanupImplementsExecutor` | `Cleanup`, with other users of the daemon, implements `Executor` |
| `CleanupKeepsLedger` | hence `Cleanup` implements `AuditedRemoval` |
| `ScannerTypeOK` | `Scanner`'s type invariant |
| `ScannerLeavesNothing` | no goroutine of a scan is left when it returns |
| `ScannerCompleteIsOneMoment` | a snapshot without an error is of one moment, with every log size |
| `ScannerReportsMissing` | what is missing from a snapshot is in its errors |
| `TuiTypeOK` | `Tui`'s type invariant |
| `TuiOneOperation` | one operation at a time, with a plan behind it |
| `TuiExecutesPrepared` | what is executed was prepared after the last x, and never in read-only mode |
| `TuiConfirmsExecutions` | no execution without a "yes" typed for its plan |
| `TuiWaitsForCleanup` | no key leaves the program during a cleanup |
| `AtlasInvariant` | the tree on the screen has the groups and objects of the snapshot shown, each under its parent and once, and every frame points into it |
| `CursorsStayInRange` | no key and no snapshot leaves a frame on a node that is gone or a cursor past the end |
| `ObjectsHaveOnePlace` | each object has its leaf, and no node two places |
| `SelectionIsKept` | a layout, an order or a new snapshot leaves the same object selected, unless it is gone |
| `BothLayoutsAddUp` | both trees of a snapshot have the same total, that of `ComputeTotals` |
| `CacheTypeOK` | `SnapshotCache`'s type invariant, and that whoever uses the file holds its lock |
| `CacheHoldsNoLock` | no process scans, or ends, with the file locked (the ping before the lookup is made under the lock) |
| `CacheAnswersFresh` | what the cache hands out is of the right daemon and was read no more than a TTL before |

Assumptions. Marks are sequences over the marks (`MarkSeqsAssumption`); a plan's
items have natural estimates and no two the same mark (`PlansAssumption`, which
`PlannerAnswersEveryMarkOnce` justifies); the plans of the other process are like
them, and the runs 1 to `MyRuns` are ours (`ProcessesAssumption`, a way to tell two
processes' runs apart); `Plans` holds what `Build` makes of an inventory
(`CleanupPlansAssumption`), and a cleanup's plans are as in `Executor`
(`CleanupExecutesAssumption`); the containers a scan may meet are finitely many and
the semaphore has a place (`ScannerAssumption`); what is deletable is there
(`TuiAssumption`); a snapshot lists each object once, and sizes the code takes as they
are, without `NonNeg`, are natural numbers (`SnapshotsAssumption` of `Planner` and of
`Navigation`); names can be compared (`RankAssumption`); the size of all layers, when
the daemon reports it, is at least that of the layers that one image has for itself
(`LayersAssumption`: `DiskUsage` answers for both at one time); the TTL is positive
(`CacheAssumption`); "none" is no process (`UnlockedAssumption`). TLC evaluates each of them in the runs.

### One plan

That a plan spares what is used is inductive as `ItemsAllowed`: every item was found
in the snapshot and is not protected; only `AcceptMark` adds an item and its guard
says so, and sorting rearranges the items (lemma `SortRearranges`, from the
bijection in the definition of the stable sort). That every mark is answered once
needs two parts: `HandledSoFar` (the marks before `next` have been seen) and
`AnsweredOnce` (unseen marks have no answer, seen ones one); lemmas on the places of
a mark in a list when one is appended or the list is sorted carry the steps.
`OrderSoFar` is the order before the sort, by first occurrence: the mark in hand has
not been seen, so it occurs here for the first time (`FirstIsHere`) and after all
that have; a stable sort by kind does the rest. For `BuildMeetsRules`, `AllListed`
says that each allowed mark seen has its item, with `ItemsAllowed` in the other
direction.

`EstimateIsHonest` is about two sums, over the items and over the objects of the
snapshot. The library defines a sum by recursion over the set, in an order that
`CHOOSE` fixes and nobody knows; `SumCountsUnits` shows once that the recursion has
a solution and that it is the number of units in the terms (pairs of an element and
a number from 1 to its term). From there on nothing is added up any more. The sum over
the list of items is that over the set of their marks, as no mark has two items
(`SumRenamed`, with `AnsweredOnce`); and the units of a plan of default candidates
go, kind by kind, into those of the total, no two to the same (`UnitsById`,
`DefaultsWithinTotal`).

### One execution

`IntentBeforeMutation` is not inductive: `Announcements` adds that the intent is in
the file between its write and its sync, and durable from the call to the sync of
the result; that the durable prefix only grows (`DurableGrows`, crashes included)
and that only `SendCall` adds a request (`NewRequests`) do the rest. `SuccessIsReal`
needs `Successes`: the reply a run is waiting on says "deleted" only of a removed
object, and a reply without error other than a prune's says so. A late reply to an
earlier request cannot pass for the awaited one: requests carry their run and mark,
and a plan has no mark twice.

The ledger needs more. What is in flight, gone or on record (`Named`) is of
runs up to this one (`NoneToCome`), so a new run starts with nothing asked for
(`Fresh`). `Ordered` adds to `ReportKeepsOrder` that the plan has no mark twice.
`Truths` adds that every success the loop has passed is durably recorded (`Passed`),
and which record a waiting sync is about. `OneDoubtPerRun` speaks of the durable log
and of the whole file, and a crash makes any prefix between them the file;
`OneByOne`, that each intent follows the results of all earlier records of its run,
holds of every prefix, and `Open` says that the current item is the only one without
a result. For the refinement, `Reports` says that a result follows the durable
intent of its request and comes once, and `PassedOnly`, that the results of this run
are of items the loop has passed; then a step of `Executor` makes durable at most
the records that one step of the ledger may write (`LedgerStep`), and every other
step stutters.

### Two executions

None of this is proved a second time for two processes: the argument is one of rely
and guarantee. `Sound` is the conjunction of the invariants above. A step of an
execution keeps its own `Sound` (`SoundStep`). A step of somebody else keeps it when
it is `Elsewhere`: it names no request of this run, takes nothing off the durable
log, and moves no record while this execution runs; and when the log is left
`LogSound`, the part of `Sound` that speaks of the shared variables alone, which the
one who made the step guarantees (`SoundElsewhere`). The lemmas of `ExecutorProofs`
are used twice, for this process and, as an instance, for the other. What is left to
prove is that each step of `Processes` is a step of one, or of both at once, and is
elsewhere for the one that stands still: `Numbered` keeps the runs of the two apart.
A crash of one process leaves the records of the file, a crash of the machine takes
both, and a process that has returned claims nothing of the tail of the file. That
the daemon removes an object once (`OneRemoval`) and that a success is the
claimant's own removal give `NoDoubleClaim`.

### Before and around an execution

`CompleteIsOneMoment` and `MissingIsReported` need to know which goroutines are
about in each part of `Scan` (`Phases`: no log work before the container list is
complete, nothing running after the return) and what they have gathered (`Gathered`:
each list is read, being read or in the errors; each container is queued, at work,
sized or in the errors, unless the context has ended). `PlanFromOneMoment` needs
that the world a scan may read next is among its moments and that the four lists of
a fallback never come without an error (`FromOneMoment`). For `ImplementsExecutor`
the plan of a preview must be one of `Plans`: the world is always one of `Worlds`,
and the marks come from `MarkSets` (`Prepared`); the rest of the step is
`Executor`'s own. As `Executor` implements `AuditedRemoval`, so does a cleanup
(`CleanupKeepsLedger`).

From the scan to the last removal there are two histories. `basis` keeps, for each
run, the moments of the scan its plan came from; `Covered` says that one of them was
good for all that the run has asked for and for what it has still to ask, which the
confirmation makes true of a plan `PlanFromOneMoment` speaks of, and which later
scans, plans and late service leave alone, since a request carries the number of its
run (`Accounted`). `kept` is what has been there of the plan ever since it was
confirmed; `Survivors` says that what the run removed is not in it, even if others
have pulled it again, and with `SuccessIsReal` and `ReturnTellsTruth` of the
execution `SurvivorsAreReported` follows.

The interface's flags have an order: a plan is prepared before it is asked about and
asked about while it is executed, and nothing runs under the help screen (`Staged`).
`Refreshed` carries the age of a plan from the preparation's answer over the
question to the execution; a scan that arrives late does not touch it. `Confirmed`
says that what has been typed counts for the plan that is asked about. In the cache,
snapshots are stamped before they are read and are kept for the daemon they are of
(`Genuine`), in the file and in the hands of a process that has not saved yet; then
no order of overlapping saves and loads makes a stale answer (`Timely`).

### The tree on the screen

The keys work on the tree that is there, and it is the outcome of folds, sorts and
recursions over a snapshot. `Shows` says what that outcome is, without any of them:
the inner nodes the snapshot asks for in a layout (`Inner`), and under each a
sequence of its children (`Under`), every one once. `ByType` and `ByProject` make
such a tree in whatever order the map of the projects is walked (`TreesShow`), and
`Sort` keeps it one, since it only permutes the children of each node
(`CountingSorts`: with a strict total order, the number of those ahead is a
different one for each). `AtlasInv`, which is inductive, is that the tree shows the
snapshot and that the frames are in range of it: `CursorsInRange` alone is not
inductive, as a path of `restoreSelection` is in range only in a tree where a child
has a parent, and that is in `Shows`. `CursorsInRange` and `EveryObjectOnce` follow
from it (no node has two parents, and `Shows` lists each child once), and
`SelectionSurvives` from the invariant and `PathLeads`: the path to a node ends with
a frame that selects it.

Three inductions are needed, and none takes the theorems of the library that have an
operator as a parameter. A set of natural numbers, or of subsets of a finite set,
has a least element (`LeastNat`, `LeastSet`, by `WFMin`), which is a least
counterexample. For the folds, `FoldExists` shows that their recursion has a
solution. The recursions over the tree (`Sizes`, `PathTo`) go by level: a tree has
four, the root, groups, services and leaves (`LevelsGrow`), so four rounds from any
function reach the solution (`LevelsDefine`), and a property that passes from the
levels before to a level holds everywhere (`LevelsInduce`).

`TotalsAgree` counts units again. What a node adds to its parent is `Charge`, what an
object is worth `Worth`; an inner node is charged what its children are
(`InnerCharge`), and by `CountByGroup`, a sum taken group by group, the root has the
units of all objects: bucket by bucket in one layout (`TypeTotal`), by services and
projects in the other (`ProjectTotal`). The layouts differ in where logs and shared
layers go; `WorthOfKinds` compares both with the five parts of `ComputeTotals`. Here
`LayersAssumption` is needed: with less in all layers than in exclusive ones, the
by-project tree would show more than the daemon reports.

### Only model-checked

Every liveness property and everything about fairness, which the prover does not do.
All other properties of passing runs, invariants and action properties, are proved.
`AuditFile` and `Export` are there for the statements of section 5, which do not
hold.

## 5. Where code and words differ

- `ReclaimableIsConservative`. `pkg/size/totals.go` calls `Totals.Reclaimable` a
  conservative estimate. It counts a dangling image that a running container
  uses, and `Build` blocks that image: deleting everything reclaimable frees less.
- `ConfirmsWhatIsShown`. Pressing `r` puts up the loading screen, but the keys
  still reach the planner: `p`, `x`, `yes` and Enter execute a plan that was never
  on the screen, though the prompt speaks of "the allowed items above".
- `PlanCoversMarks`. `openPlan` collects marks from the tree of the current
  layout. Build cache entries have no ID in the by-project tree, so an entry
  marked in the by-type layout is missing from a plan opened in the other, without
  a warning, though the comment there promises objects of other groups. For the
  same reason `g` loses the selection of such an entry.
- `ReadableIntentBeforeMutation`. When the disk is full, `writeAudit` leaves a part
  of a record at the end of the log and `Execute` stops, as it should. The next
  execution appends its intent to that part, on the same line, syncs it, and
  deletes: the announcement is on disk and no reader of JSON lines finds it.
- `SuccessMeansWritten`. `ToCSV` asks for the writer's error before the deferred
  flush: the write of the last rows, of all rows for a short table, may fail and
  the command succeeds.

Two behaviours that nothing in the repository speaks against, seen while
modelling: when the selected row is none that can be marked (a log file, a
project, a service), `s` sorts the rows under the cursors of the frames, which
stay where they are, so that going up lands on another row; and a rescan that is
overtaken by an older one leaves the older inventory on the screen, while a
cleanup always prepares from a new one.

## 6. Not modelled, and plan

Not modelled: drawing, scrolling, the details panel and the formatting of sizes
(no later step reads them); flag parsing and exit codes (a table); the gob
encoding and the SDK's structures (translation without state); errors of closing
a file that was written; the release scripts (calls to a hosting service, outside
the program); the mock client (tests). Outside the models are the reuse of a
volume's name between scan and deletion (`exec.go:109` removes by name, and the
API gives no way to tell the volumes apart) and a wall clock that is set back.

Order of the work, done and to come:

1. Done: `PlanRules`, `Planner`, `Executor` with `AuditedRemoval`, `Scanner`,
   `Cleanup`, `Tui`, `SnapshotCache`, and the theorems of section 4.
2. Done: `Processes`, `AuditFile`, `Grouping`, `Navigation`, `Export`.
3. Done: the theorems of `Executor` for `Processes`; those of `Planner`, the sum of
   the estimate included; the safety properties of `Scanner`, `Tui`, `SnapshotCache`
   and `Cleanup`.
4. Done: the trees, frames and totals of `Navigation`.
5. Left: a model of the translation in `pkg/docker/sdk.go`, the only place with logic
   that no module covers. Liveness stays with TLC.

## 7. Running it

    tlc -workers 2 -config MCPlanner.cfg MCPlanner.tla     (and so on, see `runs` in PROJECT.json)
    tlapm PlannerProofs.tla
    tlapm ExecutorProofs.tla
    tlapm ProcessesProofs.tla
    tlapm CleanupProofs.tla
    tlapm ScannerProofs.tla
    tlapm TuiProofs.tla
    tlapm NavigationProofs.tla       (takes some minutes)
    tlapm SnapshotCacheProofs.tla
