------------------------------ MODULE Scanner ------------------------------
(***************************************************************************)
(* Scanner.Scan: the goroutines that fill a snapshot.  DiskUsage answers   *)
(* for all kinds at once; when it fails, four collectors list one kind     *)
(* each.  A log goroutine waits for the container list and hands its IDs   *)
(* to workers, LogConcurrency of them at most, that stat the log files.    *)
(*                                                                         *)
(* The daemon's inventory is a version number that others advance; a list  *)
(* is the version it was read at.                                          *)
(***************************************************************************)
EXTENDS Integers, FiniteSets

CONSTANTS Ids,            \* IDs containers may have
          LogConcurrency, \* log files looked at in parallel
          MaxVersion      \* bound on the changes of the daemon's inventory

ASSUME ScannerAssumption ==
  LogConcurrency \in Nat \ {0} /\ MaxVersion \in Nat /\ IsFiniteSet(Ids)

VARIABLES
  pc,         \* of Scan: "ping", "usage", "wait" or "returned"
  ctxDone,    \* the caller's context is done
  version,    \* of the daemon's inventory
  list,       \* for each kind, the version of its list, or Unread
  listed,     \* IDs in the container list
  collector,  \* for each kind: "off", "run" or "done"
  containersDone, \* the channel is closed
  logger,     \* the log goroutine: "off", "select", "loop", "drain", "done" or "quit"
  queue,      \* IDs it has not handed out
  worker,     \* the workers at work, by ID
  sized,      \* IDs whose log file was looked at
  errors,     \* stages in snap.Errors
  outcome     \* what Scan returned: "none", "error" or "snapshot"

vars == <<pc, ctxDone, version, list, listed, collector, containersDone, logger,
          queue, worker, sized, errors, outcome>>

Kinds == {"image", "container", "volume", "build_cache"}
Unread == -1

Init ==
  /\ pc = "ping" /\ ctxDone = FALSE /\ version = 0
  /\ list = [k \in Kinds |-> Unread] /\ listed = {}
  /\ collector = [k \in Kinds |-> "off"] /\ containersDone = FALSE
  /\ logger = "off" /\ queue = {} /\ worker = {} /\ sized = {}
  /\ errors = {} /\ outcome = "none"

(***************************************************************************)
(* Scan.                                                                   *)
(***************************************************************************)
Return(what) ==
  /\ pc' = "returned"
  /\ outcome' = what
  /\ UNCHANGED <<ctxDone, version, list, listed, collector, containersDone, logger,
                 queue, worker, sized, errors>>

PingOk ==
  /\ pc = "ping"
  /\ pc' = "usage"
  /\ UNCHANGED <<ctxDone, version, list, listed, collector, containersDone, logger,
                 queue, worker, sized, errors, outcome>>

PingFails == pc = "ping" /\ Return("error")

UsageOk ==
  /\ pc = "usage"
  /\ pc' = "wait"
  /\ list' = [k \in Kinds |-> version]
  /\ listed' \in SUBSET Ids
  /\ containersDone' = TRUE
  /\ logger' = "select"
  /\ UNCHANGED <<ctxDone, version, collector, queue, worker, sized, errors, outcome>>

UsageFailsCancelled == pc = "usage" /\ ctxDone /\ Return("error")

FallBackSilently ==
  /\ pc = "usage"
  /\ ~ctxDone
  /\ pc' = "wait"
  /\ collector' = [k \in Kinds |-> "run"]
  /\ logger' = "select"
  /\ UNCHANGED <<ctxDone, version, list, listed, containersDone, queue, worker, sized,
                 errors, outcome>>

\* DiskUsage fails although the context is alive: the collectors take over.
FallBack ==
  /\ pc = "usage"
  /\ ~ctxDone
  /\ pc' = "wait"
  /\ errors' = errors \cup {"disk_usage"}
  /\ collector' = [k \in Kinds |-> "run"]
  /\ logger' = "select"
  /\ UNCHANGED <<ctxDone, version, list, listed, containersDone, queue, worker, sized, outcome>>

Collect(kind) ==
  /\ collector[kind] = "run"
  /\ collector' = [collector EXCEPT ![kind] = "done"]
  /\ list' = [list EXCEPT ![kind] = version]
  /\ IF kind = "container"
       THEN listed' \in SUBSET Ids /\ containersDone' = TRUE
       ELSE UNCHANGED <<listed, containersDone>>
  /\ UNCHANGED <<pc, ctxDone, version, logger, queue, worker, sized, errors, outcome>>

CollectFailsOpen(kind) ==
  /\ collector[kind] = "run"
  /\ collector' = [collector EXCEPT ![kind] = "done"]
  /\ errors' = errors \cup {kind}
  /\ UNCHANGED <<pc, ctxDone, version, list, listed, containersDone, logger, queue,
                 worker, sized, outcome>>

\* The collector of containers closes the channel when it fails, too.
CollectFails(kind) ==
  /\ collector[kind] = "run"
  /\ collector' = [collector EXCEPT ![kind] = "done"]
  /\ errors' = errors \cup {kind}
  /\ containersDone' = (containersDone \/ kind = "container")
  /\ UNCHANGED <<pc, ctxDone, version, list, listed, logger, queue, worker, sized, outcome>>

Joinable ==
  /\ pc = "wait"
  /\ \A k \in Kinds : collector[k] # "run"
  /\ logger \in {"done", "quit"}

\* g.Wait, then the check of the context.
ReturnSnapshot ==
  Joinable /\ Return(IF logger = "quit" \/ ctxDone THEN "error" ELSE "snapshot")

(***************************************************************************)
(* The log goroutine and its workers.                                      *)
(***************************************************************************)
GoTo(next) ==
  /\ logger' = next
  /\ UNCHANGED <<pc, ctxDone, version, list, listed, collector, containersDone,
                 sized, errors, outcome>>

HearUnlisted ==
  /\ logger = "select"
  /\ containersDone
  /\ GoTo("loop")
  /\ queue' = Ids
  /\ UNCHANGED worker

HearEarly ==
  /\ logger = "select"
  /\ GoTo("loop")
  /\ queue' = listed
  /\ UNCHANGED worker

\* select: either ready case may be taken.
HearContainers ==
  /\ logger = "select"
  /\ containersDone
  /\ GoTo("loop")
  /\ queue' = listed
  /\ UNCHANGED worker

QuitCancelled == logger = "select" /\ ctxDone /\ GoTo("quit") /\ UNCHANGED <<queue, worker>>

\* The semaphore has LogConcurrency slots.
Dispatch(id) ==
  /\ logger = "loop"
  /\ id \in queue
  /\ Cardinality(worker) < LogConcurrency
  /\ GoTo("loop")
  /\ queue' = queue \ {id}
  /\ worker' = worker \cup {id}

StopDispatch ==
  /\ logger = "loop"
  /\ queue = {} \/ ctxDone
  /\ GoTo("drain")
  /\ UNCHANGED <<queue, worker>>

LeaveWorkers == logger = "drain" /\ GoTo("done") /\ UNCHANGED <<queue, worker>>

\* wg.Wait.
AwaitWorkers == logger = "drain" /\ worker = {} /\ GoTo("done") /\ UNCHANGED <<queue, worker>>

WorkerEnds(id) ==
  /\ id \in worker
  /\ worker' = worker \ {id}
  /\ UNCHANGED <<pc, ctxDone, version, list, listed, collector, containersDone, logger,
                 queue, outcome>>

\* The call ends with a size; or with an error, the timeout of the call included.
SizeLog(id) == WorkerEnds(id) /\ sized' = sized \cup {id} /\ UNCHANGED errors
SizeLogFails(id) == WorkerEnds(id) /\ errors' = errors \cup {id} /\ UNCHANGED sized

(***************************************************************************)
(* The environment.                                                        *)
(***************************************************************************)
Cancel ==
  /\ ~ctxDone
  /\ ctxDone' = TRUE
  /\ UNCHANGED <<pc, version, list, listed, collector, containersDone, logger, queue,
                 worker, sized, errors, outcome>>

InventoryChanges ==
  /\ version < MaxVersion
  /\ version' = version + 1
  /\ UNCHANGED <<pc, ctxDone, list, listed, collector, containersDone, logger, queue,
                 worker, sized, errors, outcome>>

Calls ==
  \/ PingOk \/ PingFails \/ UsageOk \/ UsageFailsCancelled \/ FallBack
  \/ \E k \in Kinds : Collect(k) \/ CollectFails(k)

LogWork ==
  \/ HearContainers \/ QuitCancelled \/ StopDispatch \/ AwaitWorkers
  \/ \E id \in Ids : Dispatch(id) \/ SizeLog(id) \/ SizeLogFails(id)

Next == Calls \/ LogWork \/ ReturnSnapshot \/ Cancel \/ InventoryChanges

Spec == Init /\ [][Next]_vars

CallsEndButCollectors ==
  ctxDone /\ (PingOk \/ PingFails \/ UsageOk \/ UsageFailsCancelled \/ FallBack)

\* A call whose context is done ends, whatever the daemon does.
CallsEnd == ctxDone /\ Calls

\* Goroutines run on, log calls have a timeout of their own, and the daemon need
\* not answer any other call.
FairSpec == /\ Spec
            /\ WF_vars(CallsEnd) /\ WF_vars(ReturnSnapshot)
            /\ WF_vars(HearContainers \/ QuitCancelled)
            /\ WF_vars(StopDispatch \/ AwaitWorkers \/ \E id \in Ids : Dispatch(id))
            /\ \A id \in Ids : WF_vars(SizeLog(id) \/ SizeLogFails(id))

-----------------------------------------------------------------------------
(* Properties. *)

TypeOK ==
  /\ pc \in {"ping", "usage", "wait", "returned"}
  /\ ctxDone \in BOOLEAN /\ version \in 0..MaxVersion
  /\ list \in [Kinds -> -1..MaxVersion] /\ listed \subseteq Ids
  /\ collector \in [Kinds -> {"off", "run", "done"}]
  /\ containersDone \in BOOLEAN
  /\ logger \in {"off", "select", "loop", "drain", "done", "quit"}
  /\ queue \subseteq listed /\ worker \subseteq listed /\ sized \subseteq listed
  /\ errors \subseteq Ids \cup Kinds \cup {"disk_usage"}
  /\ outcome \in {"none", "error", "snapshot"}

\* What the cleanup relies on: a snapshot without errors was read at one moment,
\* with the log size of every container in it.
CompleteIsOneMoment ==
  outcome = "snapshot" /\ errors = {} =>
    /\ \E v \in 0..version : \A k \in Kinds : list[k] = v
    /\ sized = listed

\* snapshot.go: "A non-empty slice means the snapshot is still usable but partial":
\* whatever is missing in a snapshot has an error that says so.
MissingIsReported ==
  outcome = "snapshot" =>
    /\ \A k \in Kinds : list[k] = Unread => k \in errors
    /\ \A id \in listed : id \notin sized => id \in errors

\* Once Scan has returned, no goroutine of it writes to the snapshot any more.
NothingOutlivesScan ==
  pc = "returned" => worker = {} /\ \A k \in Kinds : collector[k] # "run"

\* A cancelled scan ends, whatever the daemon does.
CancelledScanReturns == ctxDone ~> pc = "returned"

\* A scan whose calls are all answered ends, with any of them failing.
AnsweredScanReturns == WF_vars(Calls) => <>(pc = "returned")
=============================================================================
