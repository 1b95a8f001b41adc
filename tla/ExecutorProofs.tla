--------------------------- MODULE ExecutorProofs ---------------------------
(***************************************************************************)
(* What Execute guarantees for any plans, any number of runs and any       *)
(* interleaving of failures, cancellations, crashes and late requests:     *)
(* first what its own steps keep true, then what its report and its audit  *)
(* log tell and that it implements AuditedRemoval.                         *)
(***************************************************************************)
EXTENDS Executor, FiniteSetTheorems, TLAPS

\* The record Execute has in hand is about a request of this run.
LEMMA CurrentRequest ==
  ASSUME TypeOK, pc \notin {"returned", "check"}
  PROVE  /\ pos \in 1..Len(todo) /\ Len(todo) \in Nat /\ todo[pos] \in Items
         /\ Request \in Requests
         /\ todo[pos].mark \in {i.mark : i \in Items}
<1>1. /\ todo \in Seq(Items) /\ pos \in 1..(Len(todo) + 1) /\ pos <= Len(todo)
      /\ run \in 0..MaxRuns /\ run > 0
  BY DEF TypeOK
<1>2. pos \in 1..Len(todo) /\ todo[pos] \in Items /\ Len(todo) \in Nat
  BY <1>1
<1>3. run \in 1..MaxRuns
  BY <1>1, BoundsAssumption
<1> QED
  BY <1>2, <1>3 DEF Request, Requests

LEMMA ConcludeType ==
  ASSUME TypeOK, pc \in {"call", "await"},
         NEW ok \in BOOLEAN, NEW freed \in Nat, Conclude(ok, freed)
  PROVE  TypeOK'
<1>1. todo[pos].mark \in {i.mark : i \in Items} /\ pos <= Len(todo)
  BY CurrentRequest DEF TypeOK
<1>2. results \in Seq(ResultRecords) /\ actual \in Nat /\ Len(results) = pos - 1
  BY DEF TypeOK
<1>3. [mark |-> todo[pos].mark, ok |-> ok, reclaim |-> IF ok THEN freed ELSE 0] \in ResultRecords
  BY <1>1 DEF ResultRecords
<1>4. results' \in Seq(ResultRecords) /\ actual' \in Nat /\ Len(results') = Len(results) + 1
  BY <1>2, <1>3 DEF Conclude
<1> QED
  BY <1>1, <1>2, <1>4 DEF Conclude, TypeOK, logVars, daemonVars

LEMMA NewRunType ==
  ASSUME TypeOK, NEW p \in Plans, NewRun(p), pc' \in {"returned", "check"},
         outcome' \in {"none", "read_only", "audit_failed"}
  PROVE  TypeOK'
<1>1. todo' \in Seq(Items) /\ Len(todo') \in Nat
  BY PlansAssumption DEF NewRun
<1>2. run \in 0..MaxRuns /\ MaxRuns \in Nat
  BY BoundsAssumption DEF TypeOK
<1>3. run' \in 0..MaxRuns /\ run' > 0
  BY <1>2 DEF NewRun
<1>4. results' \in Seq(ResultRecords) /\ Len(results') = pos' - 1 /\ pos' \in 1..(Len(todo') + 1)
  BY <1>1 DEF NewRun
<1>5. /\ ctxDone' \in BOOLEAN /\ actual' \in Nat /\ reply' \in {NoReply} \cup Replies
      /\ UNCHANGED <<audit, synced, flight, removed>>
  BY DEF NewRun, logVars
<1> QED
  BY <1>1, <1>3, <1>4, <1>5 DEF TypeOK

LEMMA ExecutorTypeStep == TypeOK /\ [Next]_vars => TypeOK'
<1> SUFFICES ASSUME TypeOK, [Next]_vars PROVE TypeOK'
  OBVIOUS
<1>1. ASSUME NEW p \in Plans, Start(p) \/ Refuse(p) PROVE TypeOK'
  BY <1>1, NewRunType DEF Start, Refuse
<1>2. CASE Finish \/ StopCancelled \/ AuditFails
  BY <1>2 DEF TypeOK, Finish, StopCancelled, AuditFails, Return, logVars, daemonVars
<1>3. CASE NextItem
  BY <1>3 DEF TypeOK, NextItem, GoTo, logVars, daemonVars
<1>4. ASSUME NEW rec \in Records, audit' = Append(audit, rec), synced' = synced
      PROVE  audit' \in Seq(Records) /\ synced' \in 0..Len(audit')
  BY <1>4 DEF TypeOK
<1>5. CASE WriteIntent
  <2>1. Intent(Request) \in Records
    BY <1>5, CurrentRequest DEF WriteIntent, Intent, Records
  <2> QED
    BY <2>1, <1>4, <1>5 DEF TypeOK, WriteIntent, GoTo, daemonVars
<1>6. CASE WriteResult
  <2>0. results \in Seq(ResultRecords) /\ Len(results) = pos /\ pos \in 1..Len(todo)
    BY <1>6, CurrentRequest DEF TypeOK, WriteResult
  <2>1. results[Len(results)].ok \in BOOLEAN
    <3>1. results[Len(results)] \in ResultRecords
      BY <2>0
    <3> QED
      BY <3>1 DEF ResultRecords
  <2>2. Result(Request, results[Len(results)].ok) \in Records
    BY <2>1, <1>6, CurrentRequest DEF WriteResult, Result, Records
  <2> QED
    BY <2>2, <1>4, <1>6 DEF TypeOK, WriteResult, GoTo, daemonVars
<1>7. CASE SyncIntent
  BY <1>7 DEF TypeOK, SyncIntent, GoTo, daemonVars
<1>8. CASE SyncResult
  BY <1>8 DEF TypeOK, SyncResult, daemonVars
<1>9. CASE SendCall
  <2>1. Request \in Requests
    BY <1>9, CurrentRequest DEF SendCall
  <2> QED
    BY <2>1, <1>9 DEF TypeOK, SendCall, GoTo, logVars
<1>10. CASE TakeReply
  <2>1. reply \in Replies
    BY <1>10 DEF TypeOK, TakeReply
  <2>2. todo[pos].est \in Nat /\ reply.freed \in Nat
    BY <2>1, <1>10, CurrentRequest, PlansAssumption DEF TakeReply, Replies
  <2>3. ASSUME NEW ok \in BOOLEAN, NEW freed \in Nat, Conclude(ok, freed) PROVE TypeOK'
    BY <2>3, <1>10, ConcludeType DEF TakeReply
  <2> QED
    BY <2>2, <2>3, <1>10 DEF TakeReply
<1>11. CASE LoseReply \/ CallCancelled
  BY <1>11, ConcludeType DEF LoseReply, CallCancelled
<1>12. CASE Cancel
  BY <1>12 DEF TypeOK, Cancel, logVars, daemonVars
<1>13. CASE Crash
  <2>1. PICK n \in synced..Len(audit) : audit' = SubSeq(audit, 1, n)
    BY <1>13 DEF Crash
  <2>2. audit' \in Seq(Records) /\ synced \in 0..Len(audit')
    BY <2>1 DEF TypeOK
  <2> QED
    BY <2>2, <1>13 DEF TypeOK, Crash, daemonVars
<1>14. ASSUME NEW req \in flight, DaemonRemoves(req) \/ DaemonRefuses(req) PROVE TypeOK'
  <2>1. flight' \subseteq Requests /\ removed' \subseteq Requests
    BY <1>14 DEF TypeOK, DaemonRemoves, DaemonRefuses
  <2>2. ASSUME NEW answer \in Replies, Answer(req, answer) PROVE reply' \in {NoReply} \cup Replies
    BY <2>2 DEF TypeOK, Answer
  <2>3. Answers(req) \subseteq Replies
    <3>1. \A n \in Freed \cup {0} : [err |-> FALSE, deleted |-> TRUE, freed |-> n] \in Replies
      BY BoundsAssumption DEF Replies
    <3> QED
      BY <3>1 DEF Answers
  <2>4. \A err \in BOOLEAN : [err |-> err, deleted |-> FALSE, freed |-> 0] \in Replies
    BY DEF Replies
  <2>5. reply' \in {NoReply} \cup Replies
    <3>1. CASE DaemonRemoves(req)
      BY <3>1, <2>2, <2>3 DEF DaemonRemoves
    <3>2. CASE DaemonRefuses(req)
      <4>1. PICK err \in BOOLEAN : Answer(req, [err |-> err, deleted |-> FALSE, freed |-> 0])
        BY <3>2 DEF DaemonRefuses
      <4> QED
        BY <4>1, <2>2, <2>4
    <3> QED
      BY <1>14, <3>1, <3>2
  <2>6. UNCHANGED <<execVars, logVars>>
    BY <1>14 DEF DaemonRemoves, DaemonRefuses
  <2> QED
    BY <2>1, <2>5, <2>6 DEF TypeOK, execVars, logVars
<1>15. CASE UNCHANGED vars
  BY <1>15 DEF TypeOK, vars, execVars, logVars, daemonVars
<1> QED
  BY <1>1, <1>2, <1>3, <1>5, <1>6, <1>7, <1>8, <1>9, <1>10, <1>11, <1>12, <1>13, <1>14, <1>15
     DEF Next, ExecuteStep

\* Before the first plan: the numbers of runs may start anywhere.
Untouched ==
  /\ pc = "returned" /\ outcome = "none"
  /\ run \in 0..MaxRuns /\ todo = <<>> /\ pos = 1 /\ ctxDone = FALSE
  /\ results = <<>> /\ actual = 0
  /\ audit = <<>> /\ synced = 0
  /\ flight = {} /\ reply = NoReply /\ removed = {}

LEMMA UntouchedTypeOK == Untouched => TypeOK
<1> SUFFICES ASSUME Untouched PROVE TypeOK
  OBVIOUS
<1>1. /\ todo \in Seq(Items) /\ Len(todo) = 0 /\ results \in Seq(ResultRecords)
      /\ audit \in Seq(Records) /\ Len(audit) = 0 /\ synced = 0 /\ pos = 1
  BY DEF Untouched
<1>2. /\ pc = "returned" /\ run \in 0..MaxRuns /\ ctxDone = FALSE /\ actual = 0
      /\ outcome = "none" /\ flight = {} /\ removed = {} /\ reply = NoReply
  BY DEF Untouched
<1>3. pos \in 1..(Len(todo) + 1) /\ synced \in 0..Len(audit) /\ actual \in Nat
  BY <1>1, <1>2
<1>4. ctxDone \in BOOLEAN /\ flight \subseteq Requests /\ removed \subseteq Requests
      /\ reply \in {NoReply} \cup Replies
  BY <1>2
<1> QED
  BY <1>1, <1>2, <1>3, <1>4 DEF TypeOK

LEMMA InitUntouched == Init => Untouched
BY BoundsAssumption DEF Init, Untouched

\* Execute's state keeps its shape.
THEOREM ExecutorTypeOK == Spec => []TypeOK
BY InitUntouched, UntouchedTypeOK, ExecutorTypeStep, PTL DEF Spec

(***************************************************************************)
(* Intent before mutation.  The strengthening: the item Execute is about   *)
(* to send, or has sent, is announced on disk, and before that its         *)
(* announcement is in the file.                                            *)
(***************************************************************************)
Announcements ==
  /\ IntentBeforeMutation
  /\ pc = "sync_intent" => Intent(Request) \in ToSet(audit)
  /\ pc \in {"call", "await", "result", "sync_result"} => Intent(Request) \in Durable

\* What is on disk stays there, through every failure and crash.
LEMMA DurableGrows == TypeOK /\ [Next]_vars => Durable \subseteq Durable'
<1> SUFFICES ASSUME TypeOK, [Next]_vars PROVE Durable \subseteq Durable'
  OBVIOUS
<1>0. audit \in Seq(Records) /\ synced \in 0..Len(audit) /\ Len(audit) \in Nat
  BY DEF TypeOK
<1>1. CASE UNCHANGED logVars
  BY <1>1 DEF logVars, Durable
<1>2. CASE WriteIntent \/ WriteResult
  <2>1. PICK rec : audit' = Append(audit, rec) /\ synced' = synced
    BY <1>2 DEF WriteIntent, WriteResult
  <2> QED
    BY <1>0, <2>1 DEF Durable
<1>3. CASE SyncIntent \/ SyncResult
  <2>1. audit' = audit /\ synced' = Len(audit)
    BY <1>3 DEF SyncIntent, SyncResult
  <2> QED
    BY <1>0, <2>1 DEF Durable
<1>4. CASE Crash
  <2>1. PICK n \in synced..Len(audit) : audit' = SubSeq(audit, 1, n) /\ synced' = synced
    BY <1>4 DEF Crash
  <2>2. \A k \in 1..synced : audit'[k] = audit[k]
    BY <1>0, <2>1
  <2> QED
    BY <2>1, <2>2 DEF Durable
<1> QED
  BY <1>1, <1>2, <1>3, <1>4 DEF Next, ExecuteStep, Start, Refuse, NewRun, Finish,
     StopCancelled, NextItem, AuditFails, Return, SendCall, TakeReply, LoseReply,
     CallCancelled, Conclude, Cancel, DaemonRemoves, DaemonRefuses, vars

\* Only a send puts a request on its way, and the daemon only removes for one.
LEMMA NewRequests ==
  TypeOK /\ [Next]_vars =>
    flight' \cup removed' \subseteq flight \cup removed \cup (IF SendCall THEN {Request} ELSE {})
<1> SUFFICES ASSUME TypeOK, [Next]_vars
             PROVE  flight' \cup removed' \subseteq
                      flight \cup removed \cup (IF SendCall THEN {Request} ELSE {})
  OBVIOUS
<1>1. CASE UNCHANGED <<flight, removed>>
  BY <1>1
<1>2. CASE SendCall
  BY <1>2 DEF SendCall
<1>3. ASSUME NEW req \in flight, DaemonRemoves(req) \/ DaemonRefuses(req)
      PROVE  flight' \cup removed' \subseteq flight \cup removed
  BY <1>3 DEF DaemonRemoves, DaemonRefuses
<1> QED
  BY <1>1, <1>2, <1>3 DEF Next, ExecuteStep, Start, Refuse, NewRun, Finish,
     StopCancelled, NextItem, AuditFails, Return, WriteIntent, WriteResult, SyncIntent,
     SyncResult, TakeReply, LoseReply, CallCancelled, Conclude, Cancel, Crash, vars, daemonVars

LEMMA AnnouncementStep == TypeOK /\ Announcements /\ [Next]_vars => Announcements'
<1> SUFFICES ASSUME TypeOK, Announcements, [Next]_vars PROVE Announcements'
  OBVIOUS
<1>0. audit \in Seq(Records) /\ Len(audit) \in Nat
  BY DEF TypeOK
<1>1. IntentBeforeMutation'
  BY DurableGrows, NewRequests DEF Announcements, IntentBeforeMutation, SendCall, Intent
<1>2. CASE pc' \in {"returned", "check", "intent"}
  BY <1>1, <1>2 DEF Announcements
<1>3. CASE WriteIntent
  <2>1. audit' = Append(audit, Intent(Request)) /\ pc' = "sync_intent" /\ Request' = Request
    BY <1>3 DEF WriteIntent, GoTo, Request
  <2>2. Intent(Request)' \in ToSet(audit')
    BY <1>0, <2>1 DEF ToSet, Intent
  <2> QED
    BY <1>1, <2>1, <2>2 DEF Announcements
<1>4. CASE SyncIntent
  <2>1. Intent(Request) \in Durable'
    BY <1>0, <1>4 DEF SyncIntent, Announcements, Durable, ToSet
  <2>2. Request' = Request /\ pc' = "call"
    BY <1>4 DEF SyncIntent, GoTo, Request
  <2> QED
    BY <1>1, <2>1, <2>2 DEF Announcements, Intent
<1>5. ASSUME pc \in {"call", "await", "result", "sync_result"}, pc' # "sync_intent",
             UNCHANGED <<run, todo, pos>>
      PROVE  Announcements'
  BY <1>1, <1>5, DurableGrows DEF Announcements, Request, Intent
<1>6. CASE UNCHANGED <<pc, run, todo, pos, audit>>
  BY <1>1, <1>6, DurableGrows DEF Announcements, Request, Intent
<1> QED
  BY <1>2, <1>3, <1>4, <1>5, <1>6 DEF Next, ExecuteStep, Start, Refuse, NewRun, Finish,
     StopCancelled, NextItem, AuditFails, Return, GoTo, WriteResult, SyncResult, SendCall,
     TakeReply, LoseReply, CallCancelled, Conclude, Cancel, Crash, DaemonRemoves,
     DaemonRefuses, execVars, logVars, vars

\* "Persist intent before touching Docker": for any plans, runs and failures, a
\* request that has reached the daemon is announced in the log that survives.
THEOREM ExecutorAnnounces == Spec => []IntentBeforeMutation
<1>1. Init => Announcements
  BY DEF Init, Announcements, IntentBeforeMutation
<1>2. Announcements => IntentBeforeMutation
  BY DEF Announcements
<1> QED
  BY <1>1, <1>2, AnnouncementStep, ExecutorTypeOK, PTL DEF Spec

(***************************************************************************)
(* A success is a removal.  The strengthening: the reply Execute waits for *)
(* is about its own request, and the report lists the items in order.      *)
(***************************************************************************)
Successes ==
  /\ SuccessIsReal
  /\ pc = "await" /\ reply # NoReply =>
       /\ reply.deleted => Request \in removed
       /\ todo[pos].mark.kind # "build_cache" /\ ~reply.err => reply.deleted
  /\ \A k \in DOMAIN results : results[k].mark = todo[k].mark

LEMMA ConcludedSuccess ==
  ASSUME TypeOK, Successes, pc \in {"call", "await"}, NEW ok \in BOOLEAN, NEW freed,
         Conclude(ok, freed), ok => Request \in removed
  PROVE  Successes'
<1> DEFINE new == [mark |-> todo[pos].mark, ok |-> ok, reclaim |-> IF ok THEN freed ELSE 0]
<1>1. results \in Seq(ResultRecords) /\ Len(results) = pos - 1 /\ pos \in Nat
  BY CurrentRequest DEF TypeOK
<1>2. results' = Append(results, new) /\ UNCHANGED <<run, todo, audit, removed>> /\ pc' = "result"
  BY DEF Conclude, logVars, daemonVars
<1>3. \A k \in DOMAIN results' :
        \/ k \in DOMAIN results /\ results'[k] = results[k]
        \/ k = pos /\ results'[k].mark = todo[pos].mark /\ results'[k].ok = ok
  BY <1>1, <1>2
<1>4. ASSUME NEW k \in DOMAIN results'
      PROVE  /\ results'[k].mark = todo'[k].mark
             /\ results'[k].ok => [run |-> run', mark |-> results'[k].mark] \in removed'
  BY <1>2, <1>3 DEF Successes, SuccessIsReal, Request
<1> QED
  BY <1>2, <1>4 DEF Successes, SuccessIsReal

LEMMA SuccessStep == TypeOK /\ Successes /\ [Next]_vars => Successes'
<1> SUFFICES ASSUME TypeOK, Successes, [Next]_vars PROVE Successes'
  OBVIOUS
<1>0. /\ audit \in Seq(Records) /\ results \in Seq(ResultRecords) /\ Len(audit) \in Nat
      /\ DOMAIN audit = 1..Len(audit)
  BY DEF TypeOK
<1>1. ASSUME UNCHANGED <<run, todo, results, removed>>, ToSet(audit') \subseteq ToSet(audit),
             pc' # "await"
      PROVE  Successes'
  BY <1>1 DEF Successes, SuccessIsReal
<1>2. ASSUME NEW rec, audit' = Append(audit, rec), UNCHANGED <<run, todo, results, removed>>,
             pc' # "await", rec.phase = "result" /\ rec.ok => rec.req \in removed
      PROVE  Successes'
  <2>1. ToSet(audit') \subseteq ToSet(audit) \cup {rec}
    BY <1>0, <1>2 DEF ToSet
  <2> QED
    BY <1>2, <2>1 DEF Successes, SuccessIsReal
<1>3. ASSUME NEW p \in Plans, Start(p) \/ Refuse(p) PROVE Successes'
  BY <1>3 DEF Start, Refuse, NewRun, logVars, Successes, SuccessIsReal
<1>4. CASE Finish \/ StopCancelled \/ AuditFails
  BY <1>1, <1>4 DEF Finish, StopCancelled, AuditFails, Return, logVars, daemonVars
<1>5. CASE NextItem \/ SyncIntent \/ SyncResult
  BY <1>1, <1>5 DEF NextItem, SyncIntent, SyncResult, GoTo, logVars, daemonVars
<1>6. CASE WriteIntent
  BY <1>2, <1>6 DEF WriteIntent, GoTo, Intent, daemonVars
<1>7. CASE WriteResult
  <2>1. Len(results) = pos /\ pos \in DOMAIN results
    BY <1>0, <1>7, CurrentRequest DEF TypeOK, WriteResult
  <2>2. results[pos].ok => Request \in removed
    BY <2>1 DEF Successes, SuccessIsReal, Request
  <2> QED
    BY <1>2, <1>7, <2>1, <2>2 DEF WriteResult, GoTo, Result, daemonVars
<1>8. CASE SendCall
  BY <1>8 DEF SendCall, GoTo, logVars, Successes, SuccessIsReal
<1>9. CASE TakeReply
  <2>1. reply \in Replies
    BY <1>9 DEF TypeOK, TakeReply
  <2>2. ~reply.err /\ (IsCache => reply.deleted) => Request \in removed
    BY <1>9 DEF TakeReply, Successes, IsCache
  <2>3. (~reply.err /\ (IsCache => reply.deleted)) \in BOOLEAN
    OBVIOUS
  <2> QED
    BY <1>9, <2>2, <2>3, ConcludedSuccess DEF TakeReply
<1>10. CASE LoseReply \/ CallCancelled
  BY <1>10, ConcludedSuccess DEF LoseReply, CallCancelled
<1>11. CASE Cancel
  BY <1>11 DEF Cancel, logVars, daemonVars, Successes, SuccessIsReal, Request
<1>12. CASE Crash
  <2>1. PICK n \in synced..Len(audit) : audit' = SubSeq(audit, 1, n)
    BY <1>12 DEF Crash
  <2>2. n \in 0..Len(audit)
    BY DEF TypeOK
  <2>3. ToSet(audit') \subseteq ToSet(audit)
    BY <1>0, <2>1, <2>2 DEF ToSet
  <2> QED
    BY <1>1, <1>12, <2>3 DEF Crash, daemonVars
<1>13. ASSUME NEW req \in flight, DaemonRemoves(req) PROVE Successes'
  <2>0. removed' = removed \cup {req} /\ UNCHANGED <<pc, run, todo, pos, results, audit>>
    BY <1>13 DEF DaemonRemoves, execVars, logVars
  <2>1. reply' = reply \/ (req = Request /\ reply' \in Answers(req))
    <3>1. PICK answer \in Answers(req) : Answer(req, answer)
      BY <1>13 DEF DaemonRemoves
    <3> QED
      BY <3>1 DEF Answer
  <2>2. \A answer \in Answers(req) : answer.deleted
    BY DEF Answers
  <2> QED
    BY <2>0, <2>1, <2>2 DEF Successes, SuccessIsReal, Request
<1>14. ASSUME NEW req \in flight, DaemonRefuses(req) PROVE Successes'
  <2>1. UNCHANGED <<pc, run, todo, pos, results, audit, removed>>
    BY <1>14 DEF DaemonRefuses, execVars, logVars
  <2>2. \/ reply' = reply
        \/ /\ req = Request /\ ~reply'.deleted
           /\ req.mark.kind # "build_cache" => reply'.err
    <3>1. PICK err \in BOOLEAN :
            /\ req.mark.kind # "build_cache" => err
            /\ Answer(req, [err |-> err, deleted |-> FALSE, freed |-> 0])
      <4>1. CASE req.mark.kind = "build_cache"
        BY <1>14, <4>1 DEF DaemonRefuses
      <4>2. CASE req.mark.kind # "build_cache"
        BY <1>14, <4>2 DEF DaemonRefuses
      <4> QED
        BY <4>1, <4>2
    <3> QED
      BY <3>1 DEF Answer
  <2>3. pc' = "await" /\ reply' # NoReply =>
          /\ reply'.deleted => Request' \in removed'
          /\ todo'[pos'].mark.kind # "build_cache" /\ ~reply'.err => reply'.deleted
    BY <2>1, <2>2 DEF Successes, Request
  <2> QED
    BY <2>1, <2>3 DEF Successes, SuccessIsReal
<1>15. CASE UNCHANGED vars
  BY <1>15 DEF vars, execVars, logVars, daemonVars, Successes, SuccessIsReal, Request
<1> QED
  BY <1>3, <1>4, <1>5, <1>6, <1>7, <1>8, <1>9, <1>10, <1>11, <1>12, <1>13, <1>14, <1>15
     DEF Next, ExecuteStep

\* No failure, late reply or empty prune is ever reported or logged as a success.
THEOREM ExecutorSuccessIsReal == Spec => []SuccessIsReal
<1>1. Init => Successes
  BY DEF Init, Successes, SuccessIsReal, ToSet
<1>2. Successes => SuccessIsReal
  BY DEF Successes
<1> QED
  BY <1>1, <1>2, SuccessStep, ExecutorTypeOK, PTL DEF Spec

-----------------------------------------------------------------------------
(***************************************************************************)
(* What the report, the return value and the audit log of Execute tell.    *)
(***************************************************************************)
(***************************************************************************)
(* Nothing has been asked or written in the name of a run to come, so that *)
(* what the log and the daemon say of a run's requests is about that run.  *)
(***************************************************************************)
Named == flight \cup removed \cup {audit[k].req : k \in DOMAIN audit}

NoneToCome == \A req \in Named : req.run <= run

\* The number of a run that begins is new.
Fresh == run' # run => \A req \in Named : req.run # run'

\* Only the begin of a run changes its number and its plan.
LEMMA RunStep ==
  [Next]_vars => \/ run' = run + 1
                 \/ /\ UNCHANGED <<run, todo>>
                    /\ pc = "returned" => pc' = "returned"
BY DEF Next, ExecuteStep, Start, Refuse, NewRun, Finish, StopCancelled, NextItem,
   AuditFails, Return, GoTo, WriteIntent, WriteResult, SyncIntent, SyncResult, SendCall,
   TakeReply, LoseReply, CallCancelled, Conclude, Cancel, Crash, DaemonRemoves,
   DaemonRefuses, execVars, vars

\* Execute removes nothing; the daemon does.
LEMMA WorkRemovesNothing ==
  (\E p \in Plans : Start(p) \/ Refuse(p)) \/ ExecuteStep \/ Cancel \/ Crash => UNCHANGED removed
BY DEF ExecuteStep, Start, Refuse, NewRun, Finish, StopCancelled, NextItem, AuditFails,
   Return, WriteIntent, WriteResult, SyncIntent, SyncResult, SendCall, TakeReply, LoseReply,
   CallCancelled, Conclude, Cancel, Crash, daemonVars

\* A run writes records of its own, and only a crash takes records from the file.
LEMMA RecordStep ==
  TypeOK /\ [Next]_vars =>
    /\ \A k \in DOMAIN audit' :
         \/ k \in DOMAIN audit /\ audit'[k] = audit[k]
         \/ audit'[k].req.run = run /\ run' = run /\ pc # "returned"
    /\ Crash \/ \A k \in DOMAIN audit : k \in DOMAIN audit' /\ audit'[k] = audit[k]
<1> DEFINE Kept(k) == k \in DOMAIN audit /\ audit'[k] = audit[k]
<1> SUFFICES ASSUME TypeOK, [Next]_vars
             PROVE  /\ \A k \in DOMAIN audit' :
                         \/ Kept(k)
                         \/ audit'[k].req.run = run /\ run' = run /\ pc # "returned"
                    /\ Crash \/ \A k \in DOMAIN audit : k \in DOMAIN audit' /\ audit'[k] = audit[k]
  OBVIOUS
<1>0. audit \in Seq(Records) /\ Len(audit) \in Nat /\ DOMAIN audit = 1..Len(audit)
      /\ synced \in 0..Len(audit)
  BY DEF TypeOK
<1>1. CASE UNCHANGED audit
  BY <1>1
<1>2. CASE Crash
  <2>1. PICK n \in synced..Len(audit) : audit' = SubSeq(audit, 1, n)
    BY <1>2 DEF Crash
  <2>2. \A k \in DOMAIN audit' : Kept(k)
    BY <1>0, <2>1
  <2> QED
    BY <1>2, <2>2
<1>3. CASE WriteIntent \/ WriteResult
  <2>1. PICK rec : /\ audit' = Append(audit, rec) /\ rec.req = Request
                   /\ run' = run /\ pc # "returned"
    BY <1>3 DEF WriteIntent, WriteResult, Intent, Result, GoTo
  <2>2. \A k \in DOMAIN audit' : Kept(k) \/ audit'[k] = rec
    BY <1>0, <2>1
  <2>3. \A k \in DOMAIN audit : k \in DOMAIN audit' /\ audit'[k] = audit[k]
    BY <1>0, <2>1
  <2> QED
    BY <2>1, <2>2, <2>3 DEF Request
<1> QED
  BY <1>1, <1>2, <1>3 DEF Next, ExecuteStep, Start, Refuse, NewRun, Finish, StopCancelled,
     NextItem, AuditFails, Return, SyncIntent, SyncResult, SendCall, TakeReply, LoseReply,
     CallCancelled, Conclude, Cancel, DaemonRemoves, DaemonRefuses, logVars, vars

\* A run names requests of its own only.
LEMMA NamedStep ==
  TypeOK /\ [Next]_vars => \A req \in Named' :
                             \/ req \in Named
                             \/ req.run = run /\ run' = run /\ pc # "returned"
BY NewRequests, RecordStep DEF Named, SendCall, GoTo, Request

\* The numbers of runs are integers.
LEMMA NamedRuns ==
  TypeOK => run \in Int /\ \A req \in Named : req.run \in 1..MaxRuns /\ req.run \in Int
<1> SUFFICES ASSUME TypeOK
             PROVE  run \in Int /\ \A req \in Named : req.run \in 1..MaxRuns /\ req.run \in Int
  OBVIOUS
<1>1. \A k \in DOMAIN audit : audit[k] \in Records
  BY DEF TypeOK
<1>2. Named \subseteq Requests /\ run \in 0..MaxRuns
  BY <1>1 DEF TypeOK, Named, Records
<1> QED
  BY <1>2, BoundsAssumption DEF Requests

LEMMA NextRunIsFresh == TypeOK /\ NoneToCome /\ [Next]_vars => Fresh
BY NamedRuns, RunStep DEF NoneToCome, Fresh

LEMMA NoneToComeStep == TypeOK /\ NoneToCome /\ [Next]_vars => NoneToCome'
<1> SUFFICES ASSUME TypeOK, NoneToCome, [Next]_vars PROVE NoneToCome'
  OBVIOUS
<1>1. run' = run \/ run' = run + 1
  BY RunStep
<1> QED
  BY <1>1, NamedStep, NamedRuns DEF NoneToCome

(***************************************************************************)
(* The plan's order.  The strengthening: a plan has no mark twice.         *)
(***************************************************************************)
Ordered ==
  /\ ReportKeepsOrder
  /\ \A a, b \in DOMAIN todo : todo[a].mark = todo[b].mark => a = b

\* What the daemon has been asked for is the current item at most, and the report
\* is not shortened.
LEMMA OrderedWhileRunning ==
  ASSUME TypeOK, Ordered, [Next]_vars, UNCHANGED <<run, todo>>,
         results' = results \/ \E res : results' = Append(results, res),
         \A k \in DOMAIN results' : results'[k].mark = todo[k].mark
  PROVE  Ordered'
<1>1. Len(results) \in Nat /\ Len(results') >= Len(results)
  BY DEF TypeOK
<1>2. ASSUME NEW req \in flight' \cup removed'
      PROVE  req \in flight \cup removed \/ (SendCall /\ req = Request)
  BY <1>2, NewRequests
<1>3. SendCall => pos \in DOMAIN todo /\ Len(results) = pos - 1 /\ pos \in Nat
  BY CurrentRequest DEF TypeOK, SendCall
<1>4. ASSUME NEW k \in DOMAIN todo,
             [run |-> run, mark |-> todo[k].mark] \in flight' \cup removed'
      PROVE  Len(results') >= k - 1
  <2>1. k \in Nat
    BY DEF TypeOK
  <2>2. CASE [run |-> run, mark |-> todo[k].mark] \in flight \cup removed
    BY <1>1, <2>1, <2>2 DEF Ordered, ReportKeepsOrder
  <2>3. CASE SendCall /\ [run |-> run, mark |-> todo[k].mark] = Request
    <3>1. todo[k].mark = todo[pos].mark
      BY <2>3 DEF Request
    <3>2. k = pos
      BY <1>3, <2>3, <3>1 DEF Ordered
    <3> QED
      BY <1>1, <1>3, <2>3, <3>2
  <2> QED
    BY <1>2, <1>4, <2>2, <2>3
<1> QED
  BY <1>4 DEF Ordered, ReportKeepsOrder

LEMMA OrderStep == TypeOK /\ Ordered /\ Fresh /\ [Next]_vars => Ordered'
<1> SUFFICES ASSUME TypeOK, Ordered, Fresh, [Next]_vars PROVE Ordered'
  OBVIOUS
<1>1. ASSUME NEW p \in Plans, Start(p) \/ Refuse(p) PROVE Ordered'
  <2>1. /\ todo' = p /\ results' = <<>> /\ run' = run + 1
        /\ UNCHANGED <<flight, removed>>
    BY <1>1 DEF Start, Refuse, NewRun
  <2>2. \A req \in flight' \cup removed' : req.run # run'
    BY <2>1, NamedRuns DEF Fresh, Named
  <2>3. \A a, b \in DOMAIN todo' : todo'[a].mark = todo'[b].mark => a = b
    BY <2>1, PlansAssumption
  <2> QED
    BY <2>1, <2>2, <2>3 DEF Ordered, ReportKeepsOrder
<1>2. ASSUME UNCHANGED <<run, todo, results>> PROVE Ordered'
  BY <1>2, OrderedWhileRunning DEF Ordered, ReportKeepsOrder
<1>3. CASE TakeReply \/ LoseReply \/ CallCancelled
  <2>0. pc \in {"call", "await"}
    BY <1>3 DEF TakeReply, LoseReply, CallCancelled
  <2>1. results \in Seq(ResultRecords) /\ Len(results) = pos - 1 /\ pos \in Nat
    BY <2>0, CurrentRequest DEF TypeOK
  <2>2. PICK res : results' = Append(results, res) /\ res.mark = todo[pos].mark
    BY <1>3 DEF TakeReply, LoseReply, CallCancelled, Conclude
  <2>3. \A k \in DOMAIN results' : results'[k].mark = todo[k].mark
    BY <2>1, <2>2 DEF Ordered, ReportKeepsOrder
  <2>4. UNCHANGED <<run, todo>>
    BY <1>3 DEF TakeReply, LoseReply, CallCancelled, Conclude
  <2> QED
    BY <2>2, <2>3, <2>4, OrderedWhileRunning
<1> QED
  BY <1>1, <1>2, <1>3 DEF Next, ExecuteStep, Finish, StopCancelled, NextItem, AuditFails,
     Return, GoTo, WriteIntent, WriteResult, SyncIntent, SyncResult, SendCall, Cancel, Crash,
     DaemonRemoves, DaemonRefuses, execVars, vars

\* Containers go before the images they use, for any plan and any failures: the
\* daemon is asked for an item only when every earlier one is in the report.
THEOREM ExecutorKeepsOrder == Spec => []ReportKeepsOrder
<1>1. Init => Ordered
  BY DEF Init, Ordered, ReportKeepsOrder
<1>2. Init => NoneToCome
  BY DEF Init, NoneToCome, Named
<1>3. Ordered => ReportKeepsOrder
  BY DEF Ordered
<1> QED
  BY <1>1, <1>2, <1>3, OrderStep, NextRunIsFresh, NoneToComeStep, ExecutorTypeOK, PTL DEF Spec

(***************************************************************************)
(* The return value.  The strengthening: the loop has left a durable       *)
(* record of every success it has passed.                                  *)
(***************************************************************************)
Passed ==
  \A k \in 1..(pos - 1) :
    results[k].ok => Result([run |-> run, mark |-> todo[k].mark], TRUE) \in Durable

Truths ==
  /\ ReturnTellsTruth
  /\ pc # "returned" => outcome = "none" /\ Passed
  /\ pc = "sync_result" => Result(Request, results[Len(results)].ok) \in ToSet(audit)

LEMMA RemovedGrows == [Next]_vars => removed \subseteq removed'
BY DEF Next, ExecuteStep, Start, Refuse, NewRun, Finish, StopCancelled, NextItem, AuditFails,
   Return, WriteIntent, WriteResult, SyncIntent, SyncResult, SendCall, TakeReply, LoseReply,
   CallCancelled, Conclude, Cancel, Crash, DaemonRemoves, DaemonRefuses, vars, daemonVars

\* What a finished run leaves behind stays true.
LEMMA TruthLasts ==
  ASSUME TypeOK, ReturnTellsTruth, [Next]_vars, UNCHANGED <<run, todo, results, outcome>>
  PROVE  ReturnTellsTruth'
BY DurableGrows, RemovedGrows DEF ReturnTellsTruth, Result

LEMMA TruthWhileRunning ==
  ASSUME TypeOK, Truths, [Next]_vars, UNCHANGED <<run, todo, pos, outcome>>, pc # "returned",
         pc' \notin {"returned", "sync_result"},
         \A k \in 1..(pos - 1) : results'[k] = results[k]
  PROVE  Truths'
<1>1. outcome' = "none"
  BY DEF Truths
<1>2. Passed'
  BY DurableGrows DEF Truths, Passed, Result
<1> QED
  BY <1>1, <1>2 DEF Truths, ReturnTellsTruth

LEMMA TruthStep == TypeOK /\ Successes /\ Truths /\ [Next]_vars => Truths'
<1> SUFFICES ASSUME TypeOK, Successes, Truths, [Next]_vars PROVE Truths'
  OBVIOUS
<1>0. /\ audit \in Seq(Records) /\ Len(audit) \in Nat /\ pos \in 1..(Len(todo) + 1)
      /\ Len(todo) \in Nat /\ todo \in Seq(Items) /\ results \in Seq(ResultRecords)
  BY DEF TypeOK
<1>1. ASSUME NEW p \in Plans, Start(p) \/ Refuse(p) PROVE Truths'
  <2>1. outcome' \in {"none", "read_only", "audit_failed"} /\ pos' = 1
        /\ pc' \in {"check", "returned"} /\ (pc' # "returned" => outcome' = "none")
    BY <1>1 DEF Start, Refuse, NewRun
  <2>2. Passed'
    BY <2>1 DEF Passed
  <2> QED
    BY <2>1, <2>2 DEF Truths, ReturnTellsTruth
<1>2. CASE Finish
  <2>1. Len(results) = Len(todo) /\ pos - 1 = Len(todo)
    BY <1>0, <1>2 DEF TypeOK, Finish
  <2>2. /\ pc' = "returned" /\ outcome' \in {"ok", "items_failed"}
        /\ UNCHANGED <<run, todo, results, audit, synced, removed>>
        /\ outcome' = "ok" => \A k \in DOMAIN results : results[k].ok
    BY <1>2 DEF Finish, Return, logVars, daemonVars
  <2>3. ASSUME outcome' = "ok", NEW k \in DOMAIN todo
        PROVE  /\ [run |-> run, mark |-> todo[k].mark] \in removed
               /\ Result([run |-> run, mark |-> todo[k].mark], TRUE) \in Durable
    <3>1. k \in DOMAIN results /\ results[k].ok /\ k \in 1..(pos - 1)
      BY <1>0, <2>1, <2>2, <2>3
    <3>2. Passed
      BY <1>2 DEF Finish, Truths
    <3> QED
      BY <3>1, <3>2 DEF Successes, SuccessIsReal, Passed
  <2> QED
    BY <2>1, <2>2, <2>3 DEF Truths, ReturnTellsTruth, Durable
<1>3. CASE StopCancelled \/ AuditFails \/ Crash
  <2>1. pc' = "returned" /\ outcome' \in {"cancelled", "audit_failed", "crashed"}
    BY <1>3 DEF StopCancelled, AuditFails, Crash, Return
  <2> QED
    BY <2>1 DEF Truths, ReturnTellsTruth
<1>4. CASE NextItem \/ WriteIntent \/ SyncIntent \/ SendCall
  BY <1>4, TruthWhileRunning DEF NextItem, WriteIntent, SyncIntent, SendCall, GoTo
<1>5. CASE WriteResult
  <2>1. audit' = Append(audit, Result(Request, results[Len(results)].ok)) /\ pc' = "sync_result"
        /\ UNCHANGED <<run, todo, pos, results, outcome>> /\ pc # "returned"
    BY <1>5 DEF WriteResult, GoTo
  <2>2. Result(Request', results'[Len(results')].ok) \in ToSet(audit')
    BY <1>0, <2>1 DEF Request, ToSet
  <2>3. Passed' /\ outcome' = "none"
    BY <2>1, DurableGrows DEF Truths, Passed, Result
  <2> QED
    BY <2>2, <2>3 DEF Truths, ReturnTellsTruth
<1>6. CASE SyncResult
  <2>1. /\ audit' = audit /\ synced' = Len(audit) /\ pos' = pos + 1 /\ pc' = "check"
        /\ UNCHANGED <<run, todo, results, outcome>> /\ pc = "sync_result"
    BY <1>6 DEF SyncResult
  <2>2. Len(results) = pos /\ pos \in DOMAIN results
    BY <1>0, <2>1 DEF TypeOK
  <2>3. Result(Request, results[pos].ok) \in Durable'
    BY <1>0, <2>1, <2>2 DEF Truths, Durable, ToSet
  <2>4. results[pos].ok \in BOOLEAN
    <3>1. results[pos] \in ResultRecords
      BY <1>0, <2>2
    <3> QED
      BY <3>1 DEF ResultRecords
  <2>5. ASSUME NEW k \in 1..(pos' - 1), results'[k].ok
        PROVE  Result([run |-> run', mark |-> todo'[k].mark], TRUE) \in Durable'
    <3>1. CASE k = pos
      <4>1. results[pos].ok = TRUE
        BY <2>1, <2>4, <2>5, <3>1
      <4> QED
        BY <2>1, <2>3, <3>1, <4>1 DEF Request
    <3>2. CASE k \in 1..(pos - 1)
      BY <2>1, <2>5, <3>2, DurableGrows DEF Truths, Passed
    <3>3. k = pos \/ k \in 1..(pos - 1)
      BY <1>0, <2>1
    <3> QED
      BY <3>1, <3>2, <3>3
  <2>6. Passed'
    BY <2>5 DEF Passed
  <2> QED
    BY <2>1, <2>6 DEF Truths, ReturnTellsTruth
<1>7. CASE TakeReply \/ LoseReply \/ CallCancelled
  <2>1. Len(results) = pos - 1 /\ pc # "returned"
    BY <1>7 DEF TypeOK, TakeReply, LoseReply, CallCancelled
  <2>2. /\ \E res : results' = Append(results, res)
        /\ pc' = "result" /\ UNCHANGED <<run, todo, pos, outcome>>
    BY <1>7 DEF TakeReply, LoseReply, CallCancelled, Conclude
  <2>3. \A k \in 1..(pos - 1) : results'[k] = results[k]
    BY <1>0, <2>1, <2>2
  <2> QED
    BY <2>1, <2>2, <2>3, TruthWhileRunning
<1>8. ASSUME UNCHANGED <<pc, run, todo, pos, results, outcome, audit>> PROVE Truths'
  <2>1. ReturnTellsTruth'
    BY <1>8, TruthLasts DEF Truths
  <2>2. pc # "returned" => Passed'
    BY <1>8, DurableGrows DEF Truths, Passed
  <2> QED
    BY <1>8, <2>1, <2>2 DEF Truths, Request
<1> QED
  BY <1>1, <1>2, <1>3, <1>4, <1>5, <1>6, <1>7, <1>8 DEF Next, ExecuteStep, Cancel,
     DaemonRemoves, DaemonRefuses, execVars, logVars, vars

\* What the caller may conclude from the return value holds for any plans, runs and
\* failures: without an error everything is gone, and durably recorded as such.
THEOREM ExecutorReturnsTruth == Spec => []ReturnTellsTruth
<1>1. Init => Successes
  BY DEF Init, Successes, SuccessIsReal, ToSet
<1>2. Init => Truths
  BY DEF Init, Truths, ReturnTellsTruth
<1>3. Truths => ReturnTellsTruth
  BY DEF Truths
<1> QED
  BY <1>1, <1>2, <1>3, SuccessStep, TruthStep, ExecutorTypeOK, PTL DEF Spec

(***************************************************************************)
(* One object in doubt.  The strengthening: an intent is only written when *)
(* every earlier record of its run has its result in the file, so that it  *)
(* holds of any prefix a crash may leave.                                  *)
(***************************************************************************)
ResultBefore(req, n) == \E m \in 1..n : audit[m].phase = "result" /\ audit[m].req = req

OneByOne ==
  \A k \in DOMAIN audit : audit[k].phase = "intent" =>
    \A j \in 1..(k - 1) :
      audit[j].req.run = audit[k].req.run => ResultBefore(audit[j].req, k - 1)

Open ==
  \A j \in DOMAIN audit : audit[j].req.run = run =>
    \/ ResultBefore(audit[j].req, Len(audit))
    \/ pc \in {"sync_intent", "call", "await", "result"} /\ audit[j].req = Request

OneAtATime == OneByOne /\ (pc # "returned" => Open)

LEMMA OneDoubt == TypeOK /\ OneByOne => OneDoubtPerRun
<1> SUFFICES ASSUME TypeOK, OneByOne, NEW r \in 1..MaxRuns, NEW n \in {synced, Len(audit)}
             PROVE  Cardinality(Doubts(r, n)) <= 1
  BY DEF OneDoubtPerRun
<1>1. audit \in Seq(Records) /\ Len(audit) \in Nat /\ n \in 0..Len(audit)
  BY DEF TypeOK
<1>2. \A k \in DOMAIN audit : audit[k].phase \in {"intent", "result"}
  <2>1. \A k \in DOMAIN audit : audit[k] \in Records
    BY <1>1
  <2> QED
    BY <2>1 DEF Records
<1>3. ASSUME NEW j \in 1..n, NEW k \in 1..n, j < k,
             audit[j].req \in Doubts(r, n), audit[k].req \in Doubts(r, n)
      PROVE  FALSE
  <2>1. audit[k].phase = "intent"
    BY <1>1, <1>2, <1>3 DEF Doubts
  <2>2. ResultBefore(audit[j].req, k - 1)
    <3>1. audit[j].req.run = audit[k].req.run
      BY <1>3 DEF Doubts
    <3>2. k \in DOMAIN audit /\ j \in 1..(k - 1)
      BY <1>1, <1>3
    <3> QED
      BY <2>1, <3>1, <3>2 DEF OneByOne
  <2>3. PICK m \in 1..(k - 1) : audit[m].phase = "result" /\ audit[m].req = audit[j].req
    BY <2>2 DEF ResultBefore
  <2>4. m \in 1..n
    BY <1>1, <2>3
  <2> QED
    BY <1>3, <2>3, <2>4 DEF Doubts
<1>4. \A a, b \in Doubts(r, n) : a = b
  <2> SUFFICES ASSUME NEW a \in Doubts(r, n), NEW b \in Doubts(r, n) PROVE a = b
    OBVIOUS
  <2>1. PICK j \in 1..n : audit[j].req = a
    BY DEF Doubts
  <2>2. PICK k \in 1..n : audit[k].req = b
    BY DEF Doubts
  <2>3. j = k \/ j < k \/ k < j
    BY <1>1
  <2> QED
    BY <1>3, <2>1, <2>2, <2>3
<1>5. Doubts(r, n) = {} \/ \E a : Doubts(r, n) = {a}
  BY <1>4
<1> QED
  <2>1. Cardinality({}) = 0
    BY FS_EmptySet
  <2>2. \A a : Cardinality({a}) = 1
    BY FS_Singleton
  <2>3. Cardinality(Doubts(r, n)) \in {0, 1}
    BY <1>5, <2>1, <2>2, Zenon
  <2> QED
    BY <2>3

LEMMA OneAtATimeStep == TypeOK /\ OneAtATime /\ Fresh /\ [Next]_vars => OneAtATime'
<1> SUFFICES ASSUME TypeOK, OneAtATime, Fresh, [Next]_vars PROVE OneAtATime'
  OBVIOUS
<1>0. /\ audit \in Seq(Records) /\ Len(audit) \in Nat /\ DOMAIN audit = 1..Len(audit)
      /\ \A j \in DOMAIN audit : audit[j].req.run \in Int
      /\ run \in Int
  <2>1. /\ audit \in Seq(Records) /\ Len(audit) \in Nat /\ DOMAIN audit = 1..Len(audit)
        /\ \A j \in DOMAIN audit : audit[j] \in Records
    BY DEF TypeOK
  <2>2. \A rec \in Records : rec.req.run \in 1..MaxRuns
    BY DEF Records, Requests
  <2>3. \A j \in DOMAIN audit : audit[j].req.run \in 1..MaxRuns
    BY <2>1, <2>2
  <2>4. run \in 0..MaxRuns
    BY DEF TypeOK
  <2> QED
    BY <2>1, <2>3, <2>4, BoundsAssumption
<1>1. ASSUME NEW p \in Plans, Start(p) \/ Refuse(p) PROVE OneAtATime'
  <2>1. run' = run + 1 /\ audit' = audit
    BY <1>1 DEF Start, Refuse, NewRun, logVars
  <2>2. \A j \in DOMAIN audit : audit[j].req.run # run'
    BY <2>1, NamedRuns DEF Fresh, Named
  <2> QED
    BY <2>1, <2>2 DEF OneAtATime, OneByOne, Open, ResultBefore
<1>2. CASE Crash
  <2>1. PICK n \in synced..Len(audit) : audit' = SubSeq(audit, 1, n)
    BY <1>2 DEF Crash
  <2>2. /\ n \in 0..Len(audit) /\ DOMAIN audit' = 1..n
        /\ \A k \in 1..n : audit'[k] = audit[k]
    BY <1>0, <2>1 DEF TypeOK
  <2>3. OneByOne'
    <3> SUFFICES ASSUME NEW k \in DOMAIN audit', audit'[k].phase = "intent",
                        NEW j \in 1..(k - 1), audit'[j].req.run = audit'[k].req.run
                 PROVE  ResultBefore(audit[j].req, k - 1)'
      BY DEF OneByOne
    <3>1. /\ k \in DOMAIN audit /\ audit'[k] = audit[k] /\ audit'[j] = audit[j]
          /\ \A m \in 1..(k - 1) : audit'[m] = audit[m]
      BY <1>0, <2>2
    <3>2. ResultBefore(audit[j].req, k - 1)
      BY <3>1 DEF OneAtATime, OneByOne
    <3> QED
      BY <3>1, <3>2 DEF ResultBefore
  <2> QED
    BY <1>2, <2>3 DEF OneAtATime, Crash
<1>3. ASSUME NEW rec, audit' = Append(audit, rec), rec.req = Request, run' = run,
             rec.phase = "intent" =>
               \A j \in DOMAIN audit :
                 audit[j].req.run = run => ResultBefore(audit[j].req, Len(audit))
      PROVE  OneByOne'
  <2>1. /\ Len(audit') = Len(audit) + 1 /\ audit'[Len(audit) + 1] = rec
        /\ DOMAIN audit' = 1..(Len(audit) + 1)
        /\ \A k \in DOMAIN audit : audit'[k] = audit[k]
    BY <1>0, <1>3
  <2>2. rec.req.run = run
    BY <1>3 DEF Request
  <2>3. \A n \in 0..Len(audit) : \A req : ResultBefore(req, n) => ResultBefore(req, n)'
    BY <1>0, <2>1 DEF ResultBefore
  <2>4. ASSUME NEW k \in DOMAIN audit', audit'[k].phase = "intent", NEW j \in 1..(k - 1),
               audit'[j].req.run = audit'[k].req.run
        PROVE  ResultBefore(audit[j].req, k - 1)
    <3>1. j \in DOMAIN audit /\ audit'[j] = audit[j] /\ k \in 1..(Len(audit) + 1)
      BY <1>0, <2>1, <2>4
    <3>2. CASE k = Len(audit) + 1
      BY <1>0, <1>3, <2>1, <2>2, <2>4, <3>1, <3>2
    <3>3. CASE k \in DOMAIN audit
      BY <2>1, <2>4, <3>1, <3>3 DEF OneAtATime, OneByOne
    <3> QED
      BY <1>0, <3>1, <3>2, <3>3
  <2> QED
    <3> SUFFICES ASSUME NEW k \in DOMAIN audit', audit'[k].phase = "intent",
                        NEW j \in 1..(k - 1), audit'[j].req.run = audit'[k].req.run
                 PROVE  ResultBefore(audit[j].req, k - 1)'
      BY DEF OneByOne
    <3>1. audit'[j] = audit[j] /\ k - 1 \in 0..Len(audit)
      BY <1>0, <2>1
    <3>2. ResultBefore(audit[j].req, k - 1)
      BY <2>4
    <3> QED
      BY <1>0, <2>1, <3>1, <3>2 DEF ResultBefore
<1>4. CASE WriteIntent
  <2>1. audit' = Append(audit, Intent(Request)) /\ pc = "intent" /\ pc' = "sync_intent"
        /\ UNCHANGED <<run, todo, pos>>
    BY <1>4 DEF WriteIntent, GoTo
  <2>2. \A j \in DOMAIN audit :
          audit[j].req.run = run => ResultBefore(audit[j].req, Len(audit))
    BY <2>1 DEF OneAtATime, Open
  <2>3. OneByOne'
    BY <2>1, <2>2, <1>3 DEF Intent
  <2>4. Open'
    BY <1>0, <2>1, <2>2 DEF Open, ResultBefore, Request, Intent
  <2> QED
    BY <2>3, <2>4 DEF OneAtATime
<1>5. CASE WriteResult
  <2>1. PICK ok : audit' = Append(audit, Result(Request, ok)) /\ pc = "result"
        /\ pc' = "sync_result" /\ UNCHANGED <<run, todo, pos>>
    BY <1>5 DEF WriteResult, GoTo
  <2>2. OneByOne'
    BY <2>1, <1>3 DEF Result
  <2>3. Open'
    BY <1>0, <2>1 DEF OneAtATime, Open, ResultBefore, Request, Result
  <2> QED
    BY <2>2, <2>3 DEF OneAtATime
<1>6. ASSUME UNCHANGED <<run, audit>>,
             \/ pc' = "returned"
             \/ UNCHANGED <<pc, todo, pos>>
             \/ /\ pc \in {"check", "sync_result"}
                /\ pc' \in {"check", "intent"}
             \/ /\ pc \in {"sync_intent", "call", "await"} /\ UNCHANGED <<todo, pos>>
                /\ pc' \in {"call", "await", "result"}
      PROVE  OneAtATime'
  <2>1. OneByOne'
    BY <1>6 DEF OneAtATime, OneByOne, ResultBefore
  <2>2. pc' # "returned" => Open'
    BY <1>6 DEF OneAtATime, Open, ResultBefore, Request
  <2> QED
    BY <2>1, <2>2 DEF OneAtATime
<1> QED
  BY <1>1, <1>2, <1>4, <1>5, <1>6 DEF Next, ExecuteStep, Finish, StopCancelled, NextItem,
     AuditFails, Return, GoTo, SyncIntent, SyncResult, SendCall, TakeReply, LoseReply,
     CallCancelled, Conclude, Cancel, DaemonRemoves, DaemonRefuses, execVars, logVars, vars

\* For any plans, runs and failures, crashes of the machine included, the log leaves
\* the fate of one object per run open at most.
THEOREM ExecutorOneDoubt == Spec => []OneDoubtPerRun
<1>1. Init => OneAtATime /\ NoneToCome
  BY DEF Init, OneAtATime, OneByOne, NoneToCome, Named
<1>2. TypeOK /\ OneAtATime => OneDoubtPerRun
  BY OneDoubt DEF OneAtATime
<1> QED
  BY <1>1, <1>2, OneAtATimeStep, NextRunIsFresh, NoneToComeStep, ExecutorTypeOK, PTL DEF Spec

(***************************************************************************)
(* Execute implements AuditedRemoval.  The strengthening: a result is only *)
(* written of a request whose intent is durable, and once, because the     *)
(* results of this run are those of the items it has passed.               *)
(***************************************************************************)
Reports ==
  /\ \A k \in DOMAIN audit :
       /\ audit[k].phase = "intent" => audit[k] = Intent(audit[k].req)
       /\ audit[k].phase = "result" => Intent(audit[k].req) \in Durable
  /\ \A j, k \in DOMAIN audit :
       audit[j].phase = "result" /\ audit[k].phase = "result" /\ audit[j].req = audit[k].req
         => j = k

PassedOnly ==
  \A k \in DOMAIN audit : audit[k].phase = "result" /\ audit[k].req.run = run =>
    \E i \in DOMAIN todo :
      /\ audit[k].req.mark = todo[i].mark
      /\ i < pos \/ (i = pos /\ pc = "sync_result")

Recorded == Reports /\ (pc # "returned" => PassedOnly)

LEMMA ReportStep ==
  TypeOK /\ Announcements /\ Fresh /\ Ordered /\ Recorded /\ [Next]_vars => Recorded'
<1> SUFFICES ASSUME TypeOK, Announcements, Fresh, Ordered, Recorded, [Next]_vars
             PROVE  Recorded'
  OBVIOUS
<1>0. audit \in Seq(Records) /\ Len(audit) \in Nat /\ DOMAIN audit = 1..Len(audit)
      /\ pos \in Int /\ DOMAIN todo \subseteq Int
  BY DEF TypeOK
<1>1. ASSUME audit' = audit PROVE Reports'
  BY <1>1, DurableGrows DEF Recorded, Reports, Intent
<1>2. ASSUME NEW p \in Plans, Start(p) \/ Refuse(p) PROVE Recorded'
  <2>1. run' = run + 1 /\ audit' = audit
    BY <1>2 DEF Start, Refuse, NewRun, logVars
  <2>2. \A k \in DOMAIN audit : audit[k].req.run # run'
    BY <2>1, NamedRuns DEF Fresh, Named
  <2> QED
    BY <1>1, <2>1, <2>2 DEF Recorded, PassedOnly
<1>3. CASE Crash
  <2>1. PICK n \in synced..Len(audit) : audit' = SubSeq(audit, 1, n)
    BY <1>3 DEF Crash
  <2>2. /\ DOMAIN audit' = 1..n /\ n <= Len(audit) /\ n \in Nat
        /\ \A k \in 1..n : audit'[k] = audit[k]
    BY <1>0, <2>1 DEF TypeOK
  <2>3. \A k \in DOMAIN audit' : k \in DOMAIN audit /\ audit'[k] = audit[k]
    BY <1>0, <2>2
  <2>4. Reports'
    BY <2>3, DurableGrows DEF Recorded, Reports, Intent
  <2> QED
    BY <1>3, <2>4 DEF Recorded, Crash
<1>4. ASSUME NEW rec, audit' = Append(audit, rec)
      PROVE  /\ DOMAIN audit' = DOMAIN audit \cup {Len(audit) + 1}
             /\ audit'[Len(audit) + 1] = rec /\ Len(audit) + 1 \notin DOMAIN audit
             /\ \A k \in DOMAIN audit : audit'[k] = audit[k]
  BY <1>0, <1>4
<1>5. CASE WriteIntent
  <2>1. audit' = Append(audit, Intent(Request)) /\ pc # "returned" /\ pc # "sync_result"
        /\ UNCHANGED <<run, todo, pos>>
    BY <1>5 DEF WriteIntent, GoTo
  <2>2. Intent(Request).phase = "intent" /\ Intent(Request) = Intent(Intent(Request).req)
    BY DEF Intent
  <2>3. \A k \in DOMAIN audit' :
          \/ k \in DOMAIN audit /\ audit'[k] = audit[k]
          \/ audit'[k] = Intent(Request)
    BY <1>4, <2>1
  <2>4. Reports'
    BY <2>2, <2>3, DurableGrows DEF Recorded, Reports, Intent
  <2>5. PassedOnly'
    BY <2>1, <2>2, <2>3 DEF Recorded, PassedOnly
  <2> QED
    BY <2>4, <2>5 DEF Recorded
<1>6. CASE WriteResult
  <2>1. PICK ok : audit' = Append(audit, Result(Request, ok)) /\ pc = "result"
        /\ pc' = "sync_result" /\ UNCHANGED <<run, todo, pos>>
    BY <1>6 DEF WriteResult, GoTo
  <2>2. Result(Request, ok).phase = "result" /\ Result(Request, ok).req = Request
    BY DEF Result
  <2>3. Intent(Request) \in Durable
    BY <2>1 DEF Announcements
  <2>4. pos \in DOMAIN todo
    BY <2>1, CurrentRequest DEF TypeOK
  <2>5. ASSUME NEW k \in DOMAIN audit, audit[k].phase = "result", audit[k].req = Request
        PROVE  FALSE
    <3>1. PICK i \in DOMAIN todo : todo[i].mark = todo[pos].mark /\ i < pos
      BY <2>1, <2>5 DEF Recorded, PassedOnly, Request
    <3>2. i = pos
      BY <2>4, <3>1 DEF Ordered
    <3> QED
      BY <1>0, <3>1, <3>2
  <2>6. \A k \in DOMAIN audit' :
          \/ k \in DOMAIN audit /\ audit'[k] = audit[k]
          \/ k = Len(audit) + 1 /\ audit'[k] = Result(Request, ok)
    BY <1>4, <2>1
  <2>7. Reports'
    BY <2>2, <2>3, <2>5, <2>6, DurableGrows DEF Recorded, Reports, Intent
  <2>8. PassedOnly'
    BY <2>1, <2>2, <2>4, <2>6 DEF Recorded, PassedOnly, Request
  <2> QED
    BY <2>7, <2>8 DEF Recorded
<1>7. CASE SyncResult
  <2>1. audit' = audit /\ pos' = pos + 1 /\ pc = "sync_result" /\ UNCHANGED <<run, todo>>
    BY <1>7 DEF SyncResult
  <2>2. \A i \in DOMAIN todo : i < pos \/ i = pos => i < pos'
    BY <1>0, <2>1
  <2>3. PassedOnly
    BY <2>1 DEF Recorded
  <2>4. PassedOnly'
    BY <2>1, <2>2, <2>3, Zenon DEF PassedOnly
  <2> QED
    BY <1>1, <2>1, <2>4 DEF Recorded
<1>8. ASSUME UNCHANGED <<run, audit>>,
             \/ pc' = "returned"
             \/ /\ pc # "returned" /\ UNCHANGED <<todo, pos>>
                /\ pc = "sync_result" => pc' = "sync_result"
      PROVE  Recorded'
  <2>1. Reports'
    BY <1>1, <1>8
  <2>2. CASE pc' = "returned"
    BY <2>1, <2>2 DEF Recorded
  <2>3. CASE pc' # "returned"
    <3>1. PassedOnly
      BY <1>8, <2>3 DEF Recorded
    <3>2. PassedOnly'
      BY <1>8, <2>3, <3>1, Zenon DEF PassedOnly
    <3> QED
      BY <2>1, <3>2 DEF Recorded
  <2> QED
    BY <2>2, <2>3
<1>9. ASSUME UNCHANGED <<pc, run, todo, pos, audit>> PROVE Recorded'
  BY <1>1, <1>9 DEF Recorded, PassedOnly
<1> QED
  BY <1>2, <1>3, <1>5, <1>6, <1>7, <1>8, <1>9 DEF Next, ExecuteStep, Finish, StopCancelled,
     NextItem, AuditFails, Return, GoTo, SyncIntent, SendCall, TakeReply, LoseReply,
     CallCancelled, Conclude, Cancel, DaemonRemoves, DaemonRefuses, execVars, logVars, vars

LEMMA LedgerStep ==
  TypeOK /\ Announcements /\ Successes /\ Recorded /\ [Next]_vars
    => [Ledger!Next]_<<Durable, removed>>
<1> SUFFICES ASSUME TypeOK, Announcements, Successes, Recorded, [Next]_vars
             PROVE  Ledger!Next \/ UNCHANGED <<Durable, removed>>
  OBVIOUS
<1>0. audit \in Seq(Records) /\ Len(audit) \in Nat /\ DOMAIN audit = 1..Len(audit)
      /\ synced \in 0..Len(audit)
  BY DEF TypeOK
<1>1. CASE UNCHANGED <<audit, synced, removed>>
  BY <1>1 DEF Durable
<1>2. CASE WriteIntent \/ WriteResult \/ Crash
  <2>1. synced' = synced /\ removed' = removed /\ \A k \in 1..synced : audit'[k] = audit[k]
    <3>1. CASE Crash
      <4>1. PICK n \in synced..Len(audit) : audit' = SubSeq(audit, 1, n)
        BY <3>1 DEF Crash
      <4>2. \A k \in 1..synced : audit'[k] = audit[k]
        BY <1>0, <4>1
      <4> QED
        BY <3>1, <4>2 DEF Crash, daemonVars
    <3>2. CASE WriteIntent \/ WriteResult
      <4>1. PICK rec : audit' = Append(audit, rec)
        BY <3>2 DEF WriteIntent, WriteResult
      <4>2. \A k \in 1..synced : audit'[k] = audit[k]
        BY <1>0, <4>1
      <4> QED
        BY <3>2, <4>2 DEF WriteIntent, WriteResult, daemonVars
    <3> QED
      BY <1>2, <3>1, <3>2
  <2> QED
    BY <2>1 DEF Durable
<1>3. CASE SyncIntent \/ SyncResult
  <2>1. removed' = removed /\ audit' = audit /\ synced' = Len(audit)
    BY <1>3 DEF SyncIntent, SyncResult, daemonVars
  <2>2. Durable \subseteq Durable'
    BY DurableGrows
  <2>3. ASSUME NEW rec \in Durable' \ Durable
        PROVE  \E k \in DOMAIN audit : k > synced /\ audit[k] = rec
    BY <1>0, <2>1 DEF Durable
  <2>4. ASSUME NEW rec \in Durable' \ Durable, rec.phase = "result"
        PROVE  /\ Ledger!Announced(rec.req)
               /\ ~Ledger!Reported(rec.req)
               /\ rec.ok => rec.req \in removed
    <3>1. PICK k \in DOMAIN audit : k > synced /\ audit[k] = rec
      BY <2>3, <2>4
    <3>2. Intent(rec.req) \in Durable
      BY <2>4, <3>1 DEF Recorded, Reports
    <3>3. Ledger!Announced(rec.req)
      BY <3>2 DEF Ledger!Announced, Intent
    <3>4. ~Ledger!Reported(rec.req)
      <4> SUFFICES ASSUME Ledger!Reported(rec.req) PROVE FALSE
        OBVIOUS
      <4>1. PICK j \in 1..synced : audit[j].phase = "result" /\ audit[j].req = rec.req
        BY DEF Ledger!Reported, Durable
      <4>2. j \in DOMAIN audit /\ j # k
        BY <1>0, <3>1
      <4> QED
        BY <2>4, <3>1, <4>1, <4>2 DEF Recorded, Reports
    <3>5. rec.ok => rec.req \in removed
      BY <2>4, <3>1 DEF Successes, SuccessIsReal, ToSet
    <3> QED
      BY <3>3, <3>4, <3>5
  <2>5. ASSUME NEW r \in Durable' \ Durable, NEW s \in Durable' \ Durable,
               r.phase = s.phase, r.req = s.req
        PROVE  r = s
    <3>1. PICK j \in DOMAIN audit : audit[j] = r
      BY <2>3
    <3>2. PICK k \in DOMAIN audit : audit[k] = s
      BY <2>3
    <3>3. r.phase \in {"intent", "result"}
      <4>1. r \in Records
        BY <1>0, <3>1
      <4> QED
        BY <4>1 DEF Records
    <3>4. CASE r.phase = "intent"
      BY <2>5, <3>1, <3>2, <3>4 DEF Recorded, Reports
    <3>5. CASE r.phase = "result"
      BY <2>5, <3>1, <3>2, <3>5 DEF Recorded, Reports
    <3> QED
      BY <3>3, <3>4, <3>5
  <2>6. Ledger!Persist
    BY <2>1, <2>2, <2>4, <2>5 DEF Ledger!Persist
  <2> QED
    BY <2>6 DEF Ledger!Next
<1>4. ASSUME NEW req \in flight, DaemonRemoves(req)
      PROVE  Ledger!Next \/ UNCHANGED <<Durable, removed>>
  <2>1. removed' = removed \cup {req} /\ UNCHANGED <<audit, synced>>
    BY <1>4 DEF DaemonRemoves, logVars
  <2>2. Durable' = Durable
    BY <2>1 DEF Durable
  <2>3. Ledger!Announced(req)
    <3>1. Intent(req) \in Durable
      BY <1>4 DEF Announcements, IntentBeforeMutation
    <3>2. Intent(req).phase = "intent" /\ Intent(req).req = req
      BY DEF Intent
    <3> QED
      BY <3>1, <3>2 DEF Ledger!Announced
  <2>4. Ledger!Remove(req)
    BY <2>1, <2>2, <2>3 DEF Ledger!Remove
  <2>5. CASE req \in removed
    BY <2>1, <2>2, <2>5
  <2>6. CASE req \in removed' \ removed
    BY <2>4, <2>6 DEF Ledger!Next
  <2> QED
    BY <2>1, <2>5, <2>6
<1> QED
  BY <1>1, <1>2, <1>3, <1>4 DEF Next, ExecuteStep, Start, Refuse, NewRun, Finish,
     StopCancelled, NextItem, AuditFails, Return, SendCall, TakeReply, LoseReply,
     CallCancelled, Conclude, Cancel, DaemonRefuses, logVars, daemonVars, vars

\* The detailed Execute, with its buffers, crashes and late requests, keeps the
\* promise of AuditedRemoval for any plans and any number of runs.
THEOREM ExecutorKeepsLedger == Spec => KeepsLedger
<1>1. Init => Ledger!Init
  BY DEF Init, Ledger!Init, Durable
<1>2. Init => Announcements /\ Successes /\ Ordered
  BY DEF Init, Announcements, IntentBeforeMutation, Successes, SuccessIsReal, ToSet,
     Ordered, ReportKeepsOrder
<1>3. Init => NoneToCome /\ Recorded
  BY DEF Init, NoneToCome, Named, Recorded, Reports
<1> QED
  BY <1>1, <1>2, <1>3, AnnouncementStep, SuccessStep, OrderStep, NextRunIsFresh,
     NoneToComeStep, ReportStep, LedgerStep, ExecutorTypeOK, PTL
     DEF Spec, KeepsLedger, Ledger!Spec

(***************************************************************************)
(* The same in the company of another process that shares the log and the  *)
(* daemon: Sound is kept by the steps of Execute and by what another       *)
(* process does, as long as that one keeps LogSound.  This is what         *)
(* ProcessesProofs puts together.                                          *)
(***************************************************************************)
LogSound ==
  /\ audit \in Seq(Records) /\ synced \in 0..Len(audit)
  /\ flight \subseteq Requests /\ removed \subseteq Requests
  /\ IntentBeforeMutation
  /\ \A rec \in ToSet(audit) : rec.phase = "result" /\ rec.ok => rec.req \in removed
  /\ OneByOne
  /\ Reports

Sound == TypeOK /\ Announcements /\ Successes /\ Ordered /\ Truths /\ OneAtATime /\ Recorded

LEMMA UntouchedSound == Untouched => Sound
<1> SUFFICES ASSUME Untouched PROVE Sound
  OBVIOUS
<1> USE DEF Untouched
<1>1. TypeOK
  BY UntouchedTypeOK
<1>2. Announcements /\ Successes
  BY DEF Announcements, IntentBeforeMutation, Successes, SuccessIsReal, ToSet
<1>3. Ordered /\ Truths
  BY DEF Ordered, ReportKeepsOrder, Truths, ReturnTellsTruth
<1>4. OneAtATime /\ Recorded
  BY DEF OneAtATime, OneByOne, Recorded, Reports
<1> QED
  BY <1>1, <1>2, <1>3, <1>4 DEF Sound

LEMMA SoundLog == Sound => LogSound
BY DEF Sound, LogSound, TypeOK, Announcements, Successes, SuccessIsReal, OneAtATime, Recorded

LEMMA SoundStep == Sound /\ Fresh /\ [Next]_vars => Sound'
BY ExecutorTypeStep, AnnouncementStep, SuccessStep, OrderStep, TruthStep, OneAtATimeStep, ReportStep
   DEF Sound

\* A step of another process: it names no request of a run of this one, and leaves
\* the records of the file where they are while this one runs.
Elsewhere ==
  /\ UNCHANGED <<execVars, reply>>
  /\ Durable \subseteq Durable' /\ removed \subseteq removed'
  /\ \/ pc = "returned" /\ todo = <<>>
     \/ /\ \A req \in (flight' \cup removed') \ (flight \cup removed) : req.run # run
        /\ \A k \in DOMAIN audit' : audit'[k].req.run = run =>
                                    k \in DOMAIN audit /\ audit'[k] = audit[k]
  /\ pc # "returned" => \A k \in DOMAIN audit : k \in DOMAIN audit' /\ audit'[k] = audit[k]

LEMMA SoundElsewhere == Sound /\ Elsewhere /\ LogSound' => Sound'
<1> SUFFICES ASSUME Sound, Elsewhere, LogSound' PROVE Sound'
  OBVIOUS
<1>0. UNCHANGED <<pc, run, todo, pos, ctxDone, results, actual, outcome, reply, Request>>
      /\ Durable \subseteq Durable' /\ removed \subseteq removed'
  BY DEF Elsewhere, execVars, Request
<1>1. TypeOK'
  BY <1>0 DEF Sound, LogSound, TypeOK
<1>2. pc # "returned" => ToSet(audit) \subseteq ToSet(audit')
  BY DEF Elsewhere, ToSet
<1>3. Announcements'
  BY <1>0, <1>2 DEF Sound, LogSound, Announcements, Intent
<1>4. Successes'
  BY <1>0 DEF Sound, LogSound, Successes, SuccessIsReal
<1>5. Ordered'
  BY <1>0 DEF Sound, Ordered, ReportKeepsOrder, Elsewhere
<1>6. Truths'
  <2>1. ReturnTellsTruth'
    BY <1>0 DEF Sound, Truths, ReturnTellsTruth, Result
  <2>2. pc # "returned" => Passed'
    BY <1>0 DEF Sound, Truths, Passed, Result
  <2> QED
    BY <1>0, <1>2, <2>1, <2>2 DEF Sound, Truths, Result
<1>7. OneAtATime'
  <2>1. ASSUME pc # "returned", NEW j \in DOMAIN audit', audit'[j].req.run = run
        PROVE  \/ ResultBefore(audit[j].req, Len(audit))'
               \/ pc \in {"sync_intent", "call", "await", "result"} /\ audit'[j].req = Request
    <3>1. j \in DOMAIN audit /\ audit'[j] = audit[j]
      BY <1>0, <2>1 DEF Elsewhere, Sound, TypeOK
    <3>2. DOMAIN audit = 1..Len(audit) /\ DOMAIN audit' = 1..Len(audit')
      BY DEF Sound, LogSound, TypeOK
    <3> QED
      BY <2>1, <3>1, <3>2 DEF Sound, OneAtATime, Open, ResultBefore, Elsewhere
  <2> QED
    BY <1>0, <2>1 DEF LogSound, OneAtATime, Open
<1>8. Recorded'
  BY <1>0 DEF Sound, LogSound, Recorded, PassedOnly, Elsewhere
<1> QED
  BY <1>1, <1>3, <1>4, <1>5, <1>6, <1>7, <1>8 DEF Sound
=============================================================================
