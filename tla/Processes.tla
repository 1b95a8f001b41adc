----------------------------- MODULE Processes ------------------------------
(***************************************************************************)
(* Two dodu processes execute plans at the same time, on one audit log     *)
(* (both open the default path in append mode) and one daemon.  The        *)
(* variables of Executor are this process's; the other process has an      *)
(* Execute of its own and shares the log, the requests in flight and what  *)
(* the daemon removed.  A process that dies leaves the log as it is; a     *)
(* machine that crashes takes both processes and what was not synced.      *)
(*                                                                         *)
(* Every record is one write in append mode, so that the records of the    *)
(* processes follow each other and do not mix (AuditFile is about a write  *)
(* that fails half way).                                                   *)
(***************************************************************************)
EXTENDS Executor

CONSTANTS OtherPlans, \* the plans of the other process
          MyRuns      \* runs 1..MyRuns are this process's, the rest the other's

ASSUME ProcessesAssumption ==
  /\ MyRuns \in 1..MaxRuns
  /\ OtherPlans \subseteq Seq(Items)
  /\ \A p \in OtherPlans : \A a, b \in DOMAIN p : p[a].mark = p[b].mark => a = b

VARIABLES otherPc, otherRun, otherTodo, otherPos, otherCtxDone, otherResults,
          otherActual, otherOutcome, otherReply

Other == INSTANCE Executor
           WITH pc <- otherPc, run <- otherRun, todo <- otherTodo, pos <- otherPos,
                ctxDone <- otherCtxDone, results <- otherResults, actual <- otherActual,
                outcome <- otherOutcome, reply <- otherReply, Plans <- OtherPlans

mine == <<execVars, reply>>
others == <<otherPc, otherRun, otherTodo, otherPos, otherCtxDone, otherResults,
            otherActual, otherOutcome, otherReply>>
allVars == <<vars, others>>

BothInit ==
  /\ Init
  /\ otherPc = "returned" /\ otherOutcome = "none"
  /\ otherRun = MyRuns /\ otherTodo = <<>> /\ otherPos = 1 /\ otherCtxDone = FALSE
  /\ otherResults = <<>> /\ otherActual = 0 /\ otherReply = NoReply

MyStep ==
  /\ \/ run < MyRuns /\ \E p \in Plans : Start(p) \/ Refuse(p)
     \/ ExecuteStep
     \/ Cancel
  /\ UNCHANGED others

OtherStep ==
  /\ \/ \E p \in OtherPlans : Other!Start(p) \/ Other!Refuse(p)
     \/ Other!ExecuteStep
     \/ Other!Cancel
  /\ UNCHANGED mine

\* One process is killed; the log is in the hands of the system.
Dies ==
  \/ UNCHANGED <<audit, others>> /\ Crash
  \/ UNCHANGED <<audit, mine>> /\ Other!Crash

MachineCrashes ==
  /\ pc # "returned" \/ otherPc # "returned"
  /\ Crash \/ (pc = "returned" /\ UNCHANGED mine)
  /\ Other!Crash \/ (otherPc = "returned" /\ UNCHANGED others)

\* IDs are not used again: what is gone cannot be removed once more.
Gone(mark) == \E req \in removed : req.mark = mark

Serve(req) ==
  \/ ~Gone(req.mark) /\ DaemonRemoves(req) /\ Other!DaemonRemoves(req)
  \/ DaemonRefuses(req) /\ Other!DaemonRefuses(req)

BothNext ==
  \/ MyStep \/ OtherStep \/ Dies \/ MachineCrashes
  \/ \E req \in flight : Serve(req)

BothSpec == BothInit /\ [][BothNext]_allVars

\* Only this process's scheduling is assumed: the other may stop for good.
FairBothSpec == BothSpec /\ WF_allVars(Progress /\ UNCHANGED others)

-----------------------------------------------------------------------------
(* Properties. *)

ClaimsOf(report, n) == {[run |-> n, mark |-> report[k].mark] :
                           k \in {j \in DOMAIN report : report[j].ok}}

\* Two processes that work on the same objects never both claim one: the log and
\* the two reports hold one success for each object at most, so that the space the
\* processes report as reclaimed is not counted twice.
NoDoubleClaim ==
  LET claims == {rec.req : rec \in {r \in ToSet(audit) : r.phase = "result" /\ r.ok}}
                \cup ClaimsOf(results, run) \cup ClaimsOf(otherResults, otherRun)
  IN \A a, b \in claims : a.mark = b.mark => a = b
=============================================================================
