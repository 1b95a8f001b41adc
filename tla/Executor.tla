----------------------------- MODULE Executor ------------------------------
(***************************************************************************)
(* plan.Execute, the append-only audit log it writes and the Docker daemon *)
(* it calls.  A run executes one plan; several runs follow each other on   *)
(* the same log and daemon.  A run may be cancelled between any two steps, *)
(* lose a reply, fail to write or to sync the log, and crash; a crash of   *)
(* the machine keeps only the synced prefix of the log for certain.  A     *)
(* request outlives the run that sent it: the daemon may serve it after    *)
(* its sender gave up or died.                                             *)
(*                                                                         *)
(* Both callers pass an audit path and no Force, so the empty path, which  *)
(* turns the log off, and Force, which Execute rejects, are left out; so   *)
(* is a Close of the log that fails, which only adds to the error.         *)
(***************************************************************************)
EXTENDS Integers, Sequences, SequencesExt, FiniteSets

CONSTANTS Items,    \* items of plans: records with a mark (kind and ID) and est
          Plans,    \* the plans to execute: sequences of items
          Freed,    \* bytes the daemon may report for a pruned build cache entry
          MaxRuns   \* bound on the number of runs

\* Estimates are not negative, and Build plans a mark at most once
\* (PlannerAnswersEveryMarkOnce).
ASSUME PlansAssumption ==
  /\ \A i \in Items : i.est \in Nat
  /\ Plans \subseteq Seq(Items)
  /\ \A p \in Plans : \A a, b \in DOMAIN p : p[a].mark = p[b].mark => a = b
ASSUME BoundsAssumption == MaxRuns \in Nat /\ Freed \subseteq Nat

VARIABLES
  pc,       \* where Execute is: "check" is the head of its loop
  run,      \* number of the current run
  todo,     \* p.Items of the current run
  pos,      \* index of the item it works on
  ctxDone,  \* its context is cancelled or past its deadline
  results,  \* rep.Results
  actual,   \* rep.ActualReclaim
  outcome,  \* why Execute returned
  audit,    \* the log file: intent and result records of all runs
  synced,   \* length of the prefix of audit that fsync has made durable
  flight,   \* requests sent to the daemon and not served yet
  reply,    \* the daemon's reply to the call Execute waits for
  removed   \* requests for which the daemon removed the object

execVars == <<pc, run, todo, pos, ctxDone, results, actual, outcome>>
logVars == <<audit, synced>>
daemonVars == <<flight, reply, removed>>
vars == <<execVars, logVars, daemonVars>>

NoReply == [err |-> FALSE, deleted |-> FALSE, freed |-> -1]

Request == [run |-> run, mark |-> todo[pos].mark]

Intent(req) == [phase |-> "intent", req |-> req, ok |-> FALSE]
Result(req, ok) == [phase |-> "result", req |-> req, ok |-> ok]

Init ==
  /\ pc = "returned" /\ outcome = "none"
  /\ run = 0 /\ todo = <<>> /\ pos = 1 /\ ctxDone = FALSE
  /\ results = <<>> /\ actual = 0
  /\ audit = <<>> /\ synced = 0
  /\ flight = {} /\ reply = NoReply /\ removed = {}

(***************************************************************************)
(* Execute.                                                                *)
(***************************************************************************)

NewRun(items) ==
  /\ pc = "returned"
  /\ run < MaxRuns
  /\ run' = run + 1
  /\ todo' = items
  /\ pos' = 1
  /\ ctxDone' = FALSE
  /\ results' = <<>>
  /\ actual' = 0
  /\ reply' = NoReply
  /\ UNCHANGED <<logVars, flight, removed>>

\* The log is open: the loop starts.
Start(items) ==
  /\ NewRun(items)
  /\ pc' = "check"
  /\ outcome' = "none"

\* Execute returns before the loop: execution is disabled (read-only), or the
\* log's directory or the log cannot be created or opened.
Refuse(items) ==
  /\ NewRun(items)
  /\ pc' = "returned"
  /\ outcome' \in {"read_only", "audit_failed"}

\* The context is over with the run it was made for.
Return(why) ==
  /\ pc' = "returned" /\ ctxDone' = FALSE
  /\ outcome' = why
  /\ UNCHANGED <<run, todo, pos, results, actual, logVars, daemonVars>>

GoTo(next) ==
  /\ pc' = next
  /\ UNCHANGED <<run, todo, pos, ctxDone, results, actual, outcome>>

FinishSilently ==
  /\ pc = "check"
  /\ pos > Len(todo)
  /\ Return("ok")

Finish ==
  /\ pc = "check"
  /\ pos > Len(todo)
  /\ Return(IF \E k \in DOMAIN results : ~results[k].ok THEN "items_failed" ELSE "ok")

StopCancelled ==
  /\ pc = "check"
  /\ pos <= Len(todo)
  /\ ctxDone
  /\ Return("cancelled")

NextItem ==
  /\ pc = "check"
  /\ pos <= Len(todo)
  /\ ~ctxDone
  /\ GoTo("intent")
  /\ UNCHANGED <<logVars, daemonVars>>

\* writeAudit: Encode, then Sync; the record may be in the file when Sync fails.
WriteIntent ==
  /\ pc = "intent"
  /\ audit' = Append(audit, Intent(Request))
  /\ GoTo("sync_intent")
  /\ UNCHANGED <<synced, daemonVars>>

TrustTheBuffer ==
  /\ pc = "sync_intent"
  /\ GoTo("call")
  /\ UNCHANGED <<audit, synced, daemonVars>>

SyncIntent ==
  /\ pc = "sync_intent"
  /\ synced' = Len(audit)
  /\ GoTo("call")
  /\ UNCHANGED <<audit, daemonVars>>

WriteSuccess ==
  /\ pc = "result"
  /\ audit' = Append(audit, Result(Request, TRUE))
  /\ GoTo("sync_result")
  /\ UNCHANGED <<synced, daemonVars>>

WriteResult ==
  /\ pc = "result"
  /\ audit' = Append(audit, Result(Request, results[Len(results)].ok))
  /\ GoTo("sync_result")
  /\ UNCHANGED <<synced, daemonVars>>

SyncAndSkip ==
  /\ pc = "sync_result"
  /\ synced' = Len(audit)
  /\ pc' = "check"
  /\ pos' = pos + 2
  /\ UNCHANGED <<run, todo, ctxDone, results, actual, outcome, audit, daemonVars>>

SyncResult ==
  /\ pc = "sync_result"
  /\ synced' = Len(audit)
  /\ pc' = "check"
  /\ pos' = pos + 1
  /\ UNCHANGED <<run, todo, ctxDone, results, actual, outcome, audit, daemonVars>>

AuditFailureIgnored ==
  /\ pc \in {"result", "sync_result"}
  /\ pc' = "check"
  /\ pos' = pos + 1
  /\ UNCHANGED <<run, todo, ctxDone, results, actual, outcome, logVars, daemonVars>>

AuditFails ==
  /\ pc \in {"intent", "sync_intent", "result", "sync_result"}
  /\ Return("audit_failed")

SendInBackground ==
  /\ pc = "call"
  /\ ~ctxDone
  /\ flight' = flight \cup {Request}
  /\ reply' = NoReply
  /\ pc' = "check"
  /\ pos' = pos + 1
  /\ UNCHANGED <<run, todo, ctxDone, results, actual, outcome, logVars, removed>>

\* The client sends nothing once the context is done.
SendCall ==
  /\ pc = "call"
  /\ ~ctxDone
  /\ flight' = flight \cup {Request}
  /\ reply' = NoReply
  /\ GoTo("await")
  /\ UNCHANGED <<logVars, removed>>

\* What Execute makes of the end of a call: the item's result, with the estimate
\* for want of a figure unless the kind is build cache.
Conclude(ok, freed) ==
  /\ results' = Append(results, [mark |-> todo[pos].mark, ok |-> ok,
                                 reclaim |-> IF ok THEN freed ELSE 0])
  /\ actual' = IF ok THEN actual + freed ELSE actual
  /\ pc' = "result" /\ reply' = NoReply
  /\ UNCHANGED <<run, todo, pos, ctxDone, outcome, logVars, flight, removed>>

IsCache == todo[pos].mark.kind = "build_cache"

TakeReplyUnread ==
  /\ pc = "await"
  /\ reply # NoReply
  /\ Conclude(~reply.err, IF IsCache THEN reply.freed ELSE todo[pos].est)

\* A prune that succeeds without naming the entry as deleted is a failure.
TakeReply ==
  /\ pc = "await"
  /\ reply # NoReply
  /\ Conclude(~reply.err /\ (IsCache => reply.deleted),
              IF IsCache THEN reply.freed ELSE todo[pos].est)

\* The call fails without an answer: the connection broke, or the context is done
\* and the client does not wait any more; the daemon may still serve the request.
LoseReply ==
  /\ pc = "await"
  /\ Conclude(FALSE, 0)

CallCancelled ==
  /\ pc = "call"
  /\ ctxDone
  /\ Conclude(FALSE, 0)

(***************************************************************************)
(* Around it.                                                              *)
(***************************************************************************)

\* ctrl+c, SIGTERM, or the deadline.
Cancel ==
  /\ pc # "returned"
  /\ ~ctxDone
  /\ ctxDone' = TRUE
  /\ UNCHANGED <<pc, run, todo, pos, results, actual, outcome, logVars, daemonVars>>

\* The process dies; if the machine does too, what was not synced may be lost.
Crash ==
  /\ pc # "returned"
  /\ pc' = "returned"
  /\ outcome' = "crashed"
  /\ \E n \in synced..Len(audit) : audit' = SubSeq(audit, 1, n)
  /\ ctxDone' = FALSE /\ reply' = NoReply
  /\ UNCHANGED <<run, todo, pos, results, actual, synced, flight, removed>>

Answer(req, answer) ==
  reply' = IF pc = "await" /\ req = Request THEN answer ELSE reply

Answers(req) ==
  {[err |-> FALSE, deleted |-> TRUE, freed |-> n] :
     n \in IF req.mark.kind = "build_cache" THEN Freed ELSE {0}}

\* The daemon removes the object of a request and answers it.
DaemonRemoves(req) ==
  /\ req \in flight
  /\ flight' = flight \ {req}
  /\ removed' = removed \cup {req}
  /\ \E answer \in Answers(req) : Answer(req, answer)
  /\ UNCHANGED <<execVars, logVars>>

\* The daemon refuses (the object is in use, or gone), or prunes nothing.
DaemonRefuses(req) ==
  /\ req \in flight
  /\ flight' = flight \ {req}
  /\ \E err \in IF req.mark.kind = "build_cache" THEN BOOLEAN ELSE {TRUE} :
       Answer(req, [err |-> err, deleted |-> FALSE, freed |-> 0])
  /\ UNCHANGED <<removed, execVars, logVars>>

ExecuteStep ==
  \/ Finish \/ StopCancelled \/ NextItem
  \/ WriteIntent \/ SyncIntent \/ WriteResult \/ SyncResult \/ AuditFails
  \/ SendCall \/ TakeReply \/ LoseReply \/ CallCancelled

Next ==
  \/ \E p \in Plans : Start(p) \/ Refuse(p)
  \/ ExecuteStep
  \/ Cancel
  \/ Crash
  \/ \E req \in flight : DaemonRemoves(req) \/ DaemonRefuses(req)

Spec == Init /\ [][Next]_vars

ProgressWithoutContext ==
  \/ Finish \/ StopCancelled \/ NextItem
  \/ WriteIntent \/ SyncIntent \/ WriteResult \/ SyncResult \/ AuditFails
  \/ SendCall \/ TakeReply \/ CallCancelled

\* Execute runs on unless it waits for the daemon, which promises nothing; a client
\* whose context is done stops waiting.
Progress ==
  \/ Finish \/ StopCancelled \/ NextItem
  \/ WriteIntent \/ SyncIntent \/ WriteResult \/ SyncResult \/ AuditFails
  \/ SendCall \/ TakeReply \/ CallCancelled
  \/ LoseReply /\ ctxDone

-----------------------------------------------------------------------------
(* Properties. *)

Requests == [run : 1..MaxRuns, mark : {i.mark : i \in Items}]
Records == [phase : {"intent", "result"}, req : Requests, ok : BOOLEAN]

ResultRecords == [mark : {i.mark : i \in Items}, ok : BOOLEAN, reclaim : Nat]

Replies == [err : BOOLEAN, deleted : BOOLEAN, freed : Nat]

TypeOK ==
  /\ pc \in {"returned", "check", "intent", "sync_intent", "call", "await",
             "result", "sync_result"}
  /\ run \in 0..MaxRuns
  /\ todo \in Seq(Items)
  /\ pos \in 1..(Len(todo) + 1)
  /\ pc \notin {"returned", "check"} => pos <= Len(todo)
  /\ pc # "returned" => run > 0
  /\ ctxDone \in BOOLEAN
  /\ results \in Seq(ResultRecords)
  /\ pc \in {"result", "sync_result"} => Len(results) = pos
  /\ pc \notin {"returned", "result", "sync_result"} => Len(results) = pos - 1
  /\ actual \in Nat
  /\ outcome \in {"none", "read_only", "audit_failed", "crashed", "cancelled",
                  "items_failed", "ok"}
  /\ audit \in Seq(Records)
  /\ synced \in 0..Len(audit)
  /\ flight \subseteq Requests
  /\ reply \in {NoReply} \cup Replies
  /\ removed \subseteq Requests

Durable == {audit[k] : k \in 1..synced}

\* exec.go, "Persist intent before touching Docker so audit failures stop
\* safely": whatever fails, no request reaches the daemon, and no object goes,
\* unless the log that survives a crash of the machine announces it.
IntentBeforeMutation == \A req \in flight \cup removed : Intent(req) \in Durable

\* A success in the report or in the log is a removal that happened: an empty
\* prune, a lost reply or a cancelled call is never taken for one.
SuccessIsReal ==
  /\ \A k \in DOMAIN results :
       results[k].ok => [run |-> run, mark |-> results[k].mark] \in removed
  /\ \A rec \in ToSet(audit) : rec.phase = "result" /\ rec.ok => rec.req \in removed

\* The announcements of run r in the first n records that no result follows.
Doubts(r, n) ==
  {req \in {audit[k].req : k \in 1..n} :
     req.run = r /\ ~\E k \in 1..n : audit[k].phase = "result" /\ audit[k].req = req}

\* After any failure, crashes of the machine included, the log leaves the fate of
\* one object per run open at most: Execute goes no further than the item whose
\* records it cannot write.
OneDoubtPerRun ==
  \A r \in 1..MaxRuns : \A n \in {synced, Len(audit)} : Cardinality(Doubts(r, n)) <= 1

\* Deletions keep the plan's order (containers before their images): when the
\* daemon gets a request, every earlier item has its result in the report, in
\* the order of the plan.
ReportKeepsOrder ==
  /\ \A k \in DOMAIN results : results[k].mark = todo[k].mark
  /\ \A k \in DOMAIN todo :
       [run |-> run, mark |-> todo[k].mark] \in flight \cup removed => Len(results) >= k - 1

\* What Execute's return value lets the caller conclude: without an error every
\* item is gone and durably recorded as such; with failed items only, every item
\* was tried.
ReturnTellsTruth ==
  /\ outcome = "ok" =>
       \A k \in DOMAIN todo :
         LET req == [run |-> run, mark |-> todo[k].mark]
         IN req \in removed /\ Result(req, TRUE) \in Durable
  /\ outcome = "items_failed" => Len(results) = Len(todo)

\* A deadline, ctrl+c or SIGTERM ends an execution whatever the daemon does.
ReturnsInTime == ctxDone ~> pc = "returned"

\* The log and the daemon keep the promise of AuditedRemoval.
Ledger == INSTANCE AuditedRemoval WITH ledger <- Durable, removed <- removed
KeepsLedger == Ledger!Spec
=============================================================================
