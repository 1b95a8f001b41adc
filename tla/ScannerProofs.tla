--------------------------- MODULE ScannerProofs ----------------------------
(***************************************************************************)
(* What Scan guarantees for any containers, any width of the log pool and  *)
(* any changes of the inventory.                                           *)
(***************************************************************************)
EXTENDS Scanner, TLAPS

(***************************************************************************)
(* The strengthenings.  Which goroutines may be about in each phase of     *)
(* Scan: nothing before DiskUsage has answered, nothing after the return,  *)
(* no log work before the container list is complete.                      *)
(***************************************************************************)
Collecting == \E k \in Kinds : collector[k] = "run"

Phases ==
  /\ pc \in {"ping", "usage"} =>
       ~Collecting /\ logger = "off" /\ ~containersDone /\ errors = {}
  /\ pc = "returned" => ~Collecting /\ logger \in {"off", "done", "quit"}
  /\ pc # "returned" => outcome = "none"
  /\ logger \notin {"loop", "drain"} => worker = {}
  /\ ~containersDone => logger \notin {"loop", "drain", "done"} /\ queue = {} /\ sized = {}
  /\ collector["container"] = "run" => ~containersDone

\* What has been gathered while Scan waits.
Gathered ==
  pc = "wait" =>
    /\ \A k \in Kinds : collector[k] = "run" \/ list[k] # Unread \/ k \in errors
    /\ errors = {} => ~Collecting /\ \E v \in 0..version : \A k \in Kinds : list[k] = v
    /\ logger = "quit" => ctxDone
    /\ ~ctxDone /\ logger \in {"loop", "drain", "done"} =>
         listed \subseteq queue \cup worker \cup sized \cup errors
    /\ ~ctxDone /\ logger \in {"drain", "done"} => queue = {}

Unchanging == <<ctxDone, version, list, listed, collector, containersDone, logger,
                queue, worker, sized, errors>>

LEMMA KindsAre == "container" \in Kinds /\ Unread = -1
BY DEF Kinds, Unread

LEMMA Initially == Init => TypeOK /\ Phases
<1> SUFFICES ASSUME Init PROVE TypeOK /\ Phases
  OBVIOUS
<1>1. /\ version \in 0..MaxVersion
      /\ list \in [Kinds -> -1..MaxVersion] /\ collector \in [Kinds -> {"off", "run", "done"}]
  <2>1. 0 \in 0..MaxVersion /\ -1 \in -1..MaxVersion
    BY ScannerAssumption
  <2> QED
    BY <2>1, KindsAre DEF Init
<1>2. TypeOK
  BY <1>1 DEF Init, TypeOK
<1>3. Phases
  BY KindsAre DEF Init, Phases, Collecting
<1> QED
  BY <1>2, <1>3

LEMMA TypeStep == TypeOK /\ Phases /\ [Next]_vars => TypeOK'
<1> SUFFICES ASSUME TypeOK, Phases, [Next]_vars PROVE TypeOK'
  OBVIOUS
<1> USE ScannerAssumption, KindsAre DEF TypeOK
<1>1. CASE PingOk \/ PingFails \/ UsageFailsCancelled \/ ReturnSnapshot
  BY <1>1 DEF PingOk, PingFails, UsageFailsCancelled, ReturnSnapshot, Return
<1>2. CASE UsageOk
  BY <1>2 DEF UsageOk, Phases
<1>3. CASE FallBack
  BY <1>3 DEF FallBack
<1>4. ASSUME NEW k \in Kinds, Collect(k) PROVE TypeOK'
  <2>1. CASE k = "container"
    BY <1>4, <2>1 DEF Collect, Phases
  <2>2. CASE k # "container"
    BY <1>4, <2>2 DEF Collect
  <2> QED
    BY <2>1, <2>2
<1>5. ASSUME NEW k \in Kinds, CollectFails(k) PROVE TypeOK'
  BY <1>5 DEF CollectFails
<1>6. CASE HearContainers \/ QuitCancelled \/ StopDispatch \/ AwaitWorkers
  BY <1>6 DEF HearContainers, QuitCancelled, StopDispatch, AwaitWorkers, GoTo
<1>7. ASSUME NEW id \in Ids, Dispatch(id) \/ SizeLog(id) \/ SizeLogFails(id) PROVE TypeOK'
  BY <1>7 DEF Dispatch, SizeLog, SizeLogFails, WorkerEnds, GoTo
<1>8. CASE Cancel
  BY <1>8 DEF Cancel
<1>9. CASE InventoryChanges
  BY <1>9 DEF InventoryChanges
<1>10. CASE UNCHANGED vars
  BY <1>10 DEF vars
<1> QED
  BY <1>1, <1>2, <1>3, <1>4, <1>5, <1>6, <1>7, <1>8, <1>9, <1>10 DEF Next, Calls, LogWork

LEMMA PhasesStep == TypeOK /\ Phases /\ [Next]_vars => Phases'
<1> SUFFICES ASSUME TypeOK, Phases, [Next]_vars PROVE Phases'
  OBVIOUS
<1> USE KindsAre DEF Phases, Collecting
<1>0. collector \in [Kinds -> {"off", "run", "done"}]
  BY DEF TypeOK
<1>1. CASE PingOk \/ PingFails \/ UsageFailsCancelled
  BY <1>1 DEF PingOk, PingFails, UsageFailsCancelled, Return
<1>2. CASE UsageOk
  BY <1>2 DEF UsageOk
<1>3. CASE FallBack
  BY <1>3 DEF FallBack
<1>4. ASSUME NEW k \in Kinds, Collect(k) PROVE Phases'
  <2>1. \A j \in Kinds : collector'[j] = "run" => collector[j] = "run"
    BY <1>0, <1>4 DEF Collect
  <2> QED
    BY <1>0, <1>4, <2>1 DEF Collect
<1>5. ASSUME NEW k \in Kinds, CollectFails(k) PROVE Phases'
  <2>1. \A j \in Kinds : collector'[j] = "run" => collector[j] = "run"
    BY <1>0, <1>5 DEF CollectFails
  <2> QED
    BY <1>0, <1>5, <2>1 DEF CollectFails
<1>6. CASE ReturnSnapshot
  BY <1>6 DEF ReturnSnapshot, Joinable, Return
<1>7. CASE HearContainers \/ QuitCancelled \/ StopDispatch \/ AwaitWorkers
  BY <1>7 DEF HearContainers, QuitCancelled, StopDispatch, AwaitWorkers, GoTo
<1>8. ASSUME NEW id \in Ids, Dispatch(id) \/ SizeLog(id) \/ SizeLogFails(id) PROVE Phases'
  BY <1>8 DEF Dispatch, SizeLog, SizeLogFails, WorkerEnds, GoTo
<1>9. CASE Cancel \/ InventoryChanges \/ UNCHANGED vars
  BY <1>9 DEF Cancel, InventoryChanges, vars
<1> QED
  BY <1>1, <1>2, <1>3, <1>4, <1>5, <1>6, <1>7, <1>8, <1>9 DEF Next, Calls, LogWork

\* The snapshot, the goroutines and the channel keep their shape, and no log work is
\* about but that of listed containers.
THEOREM ScannerTypeOK == Spec => []TypeOK
BY Initially, TypeStep, PhasesStep, PTL DEF Spec

\* No collector or worker is left when Scan returns, with any failures and
\* cancellations.
THEOREM ScannerLeavesNothing == Spec => []NothingOutlivesScan
<1>1. Phases => NothingOutlivesScan
  BY DEF Phases, NothingOutlivesScan, Collecting
<1> QED
  BY <1>1, Initially, TypeStep, PhasesStep, PTL DEF Spec

LEMMA GatheredStep == TypeOK /\ Phases /\ Gathered /\ [Next]_vars => Gathered'
<1> SUFFICES ASSUME TypeOK, Phases, Gathered, [Next]_vars, pc' = "wait"
             PROVE  Gathered'
  BY DEF Gathered
<1>0. /\ version \in 0..MaxVersion /\ version \in Nat
      /\ list \in [Kinds -> -1..MaxVersion]
      /\ collector \in [Kinds -> {"off", "run", "done"}]
  BY ScannerAssumption DEF TypeOK
<1> USE KindsAre DEF Gathered, Collecting
<1>1. CASE UsageOk
  BY <1>0, <1>1 DEF UsageOk, Phases
<1>2. CASE FallBack
  BY <1>0, <1>2 DEF FallBack
<1>3. ASSUME NEW k \in Kinds, Collect(k) PROVE Gathered'
  <2>1. /\ collector[k] = "run" /\ pc = "wait" /\ errors # {}
        /\ UNCHANGED <<pc, ctxDone, version, logger, queue, worker, sized, errors>>
    BY <1>3 DEF Collect
  <2>2. \A j \in Kinds \ {k} : collector'[j] = collector[j] /\ list'[j] = list[j]
    BY <1>0, <1>3 DEF Collect
  <2>3. list'[k] = version /\ version # Unread
    BY <1>0, <1>3 DEF Collect
  <2>4. logger \in {"loop", "drain", "done"} => listed' = listed
    BY <1>3 DEF Collect, Phases
  <2> QED
    BY <2>1, <2>2, <2>3, <2>4
<1>4. ASSUME NEW k \in Kinds, CollectFails(k) PROVE Gathered'
  <2>1. /\ collector[k] = "run" /\ pc = "wait" /\ errors' = errors \cup {k}
        /\ UNCHANGED <<pc, ctxDone, version, list, listed, logger, queue, worker, sized>>
    BY <1>4 DEF CollectFails
  <2>2. \A j \in Kinds \ {k} : collector'[j] = collector[j]
    BY <1>0, <1>4 DEF CollectFails
  <2> QED
    BY <2>1, <2>2
<1>5. CASE HearContainers \/ QuitCancelled
  BY <1>5 DEF HearContainers, QuitCancelled, GoTo
<1>6. CASE StopDispatch \/ AwaitWorkers
  BY <1>6 DEF StopDispatch, AwaitWorkers, GoTo
<1>7. ASSUME NEW id \in Ids, Dispatch(id) PROVE Gathered'
  BY <1>7 DEF Dispatch, GoTo
<1>8. ASSUME NEW id \in Ids, SizeLog(id) \/ SizeLogFails(id) PROVE Gathered'
  BY <1>8 DEF SizeLog, SizeLogFails, WorkerEnds
<1>9. CASE Cancel
  BY <1>9 DEF Cancel
<1>10. CASE InventoryChanges
  BY <1>0, <1>10 DEF InventoryChanges
<1>11. CASE PingOk \/ PingFails \/ UsageFailsCancelled \/ ReturnSnapshot
  BY <1>11 DEF PingOk, PingFails, UsageFailsCancelled, ReturnSnapshot, Return
<1>12. CASE UNCHANGED vars
  BY <1>12 DEF vars
<1> QED
  BY <1>1, <1>2, <1>3, <1>4, <1>5, <1>6, <1>7, <1>8, <1>9, <1>10, <1>11, <1>12
     DEF Next, Calls, LogWork

\* A snapshot that has been returned does not change any more.
LEMMA Delivered ==
  ASSUME TypeOK, Phases, [Next]_vars, outcome = "snapshot"
  PROVE  UNCHANGED <<list, listed, sized, errors, outcome>> /\ version' >= version
<1>1. pc = "returned" /\ ~Collecting /\ logger \in {"off", "done", "quit"} /\ worker = {}
  BY DEF Phases
<1>2. version \in Nat
  BY DEF TypeOK
<1> QED
  BY <1>1, <1>2 DEF Collecting, Next, Calls, LogWork, PingOk, PingFails, UsageOk,
     UsageFailsCancelled, FallBack, Collect, CollectFails, ReturnSnapshot, Joinable,
     HearContainers, QuitCancelled, StopDispatch, AwaitWorkers, Dispatch, SizeLog,
     SizeLogFails, WorkerEnds, Cancel, InventoryChanges, vars

\* Only ReturnSnapshot delivers a snapshot.
LEMMA Delivery ==
  ASSUME Phases, [Next]_vars, outcome # "snapshot", outcome' = "snapshot"
  PROVE  /\ Joinable /\ logger = "done" /\ ~ctxDone
         /\ UNCHANGED Unchanging
BY DEF Phases, Unchanging, Next, Calls, LogWork, PingOk, PingFails, UsageOk,
   UsageFailsCancelled, FallBack, Collect, CollectFails, ReturnSnapshot, Return, Joinable,
   HearContainers, QuitCancelled, StopDispatch, AwaitWorkers, Dispatch, GoTo, SizeLog,
   SizeLogFails, WorkerEnds, Cancel, InventoryChanges, vars

\* A snapshot without errors is of one moment, with every log, whatever happens to
\* the daemon, the connection and the context during the scan.
THEOREM ScannerCompleteIsOneMoment == Spec => []CompleteIsOneMoment
<1>1. Init => Gathered /\ CompleteIsOneMoment
  BY DEF Init, Gathered, CompleteIsOneMoment
<1>2. TypeOK /\ Phases /\ Gathered /\ CompleteIsOneMoment /\ [Next]_vars => CompleteIsOneMoment'
  <2> SUFFICES ASSUME TypeOK, Phases, Gathered, CompleteIsOneMoment, [Next]_vars,
                      outcome' = "snapshot", errors' = {}
               PROVE  /\ \E v \in 0..version' : \A k \in Kinds : list'[k] = v
                      /\ sized' = listed'
    BY DEF CompleteIsOneMoment
  <2>0. version \in Nat /\ version' \in Nat
    BY TypeStep DEF TypeOK
  <2>1. CASE outcome = "snapshot"
    BY <2>0, <2>1, Delivered DEF CompleteIsOneMoment
  <2>2. CASE outcome # "snapshot"
    <3>1. Joinable /\ logger = "done" /\ ~ctxDone /\ UNCHANGED Unchanging
      BY <2>2, Delivery
    <3>2. sized = listed
      BY <3>1 DEF Gathered, Phases, TypeOK, Joinable, Unchanging
    <3> QED
      BY <3>1, <3>2 DEF Gathered, Joinable, Unchanging
  <2> QED
    BY <2>1, <2>2
<1> QED
  BY <1>1, <1>2, Initially, TypeStep, PhasesStep, GatheredStep, PTL DEF Spec

\* Whatever a delivered snapshot lacks is among its errors.
THEOREM ScannerReportsMissing == Spec => []MissingIsReported
<1>1. Init => Gathered /\ MissingIsReported
  BY DEF Init, Gathered, MissingIsReported
<1>2. TypeOK /\ Phases /\ Gathered /\ MissingIsReported /\ [Next]_vars => MissingIsReported'
  <2> SUFFICES ASSUME TypeOK, Phases, Gathered, MissingIsReported, [Next]_vars,
                      outcome' = "snapshot"
               PROVE  /\ \A k \in Kinds : list'[k] = Unread => k \in errors'
                      /\ \A id \in listed' : id \notin sized' => id \in errors'
    BY DEF MissingIsReported
  <2>1. CASE outcome = "snapshot"
    BY <2>1, Delivered DEF MissingIsReported
  <2>2. CASE outcome # "snapshot"
    <3>1. Joinable /\ logger = "done" /\ ~ctxDone /\ UNCHANGED Unchanging
      BY <2>2, Delivery
    <3> QED
      BY <3>1 DEF Gathered, Phases, Joinable, Unchanging
  <2> QED
    BY <2>1, <2>2
<1> QED
  BY <1>1, <1>2, Initially, TypeStep, PhasesStep, GatheredStep, PTL DEF Spec
=============================================================================
