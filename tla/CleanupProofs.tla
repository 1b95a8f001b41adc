--------------------------- MODULE CleanupProofs ----------------------------
(***************************************************************************)
(* What a cleanup guarantees against a daemon that others keep using, for  *)
(* any number of scans and executions, and that it drives Execute as       *)
(* Executor describes it.                                                  *)
(***************************************************************************)
EXTENDS Cleanup, TLAPS

(***************************************************************************)
(* The strengthening for PlanFromOneMoment: a scan knows the world it may  *)
(* read next, and the lists of a fallback come with an error, so that no   *)
(* plan is made of them.                                                   *)
(***************************************************************************)
FromOneMoment ==
  /\ PlanFromOneMoment
  /\ phase = "usage" => world \in moments
  /\ phase = "fallback" => errors = TRUE

\* What Build lists was in the inventory and not protected.
LEMMA PlansAreAllowed ==
  ASSUME NEW snapshot, NEW marked, NEW p \in PlansOf(snapshot, marked), NEW k \in DOMAIN p
  PROVE  Found(snapshot, p[k].mark) /\ ~Protected(snapshot, p[k].mark)
<1> DEFINE S == {Item(snapshot, m) :
                   m \in {n \in marked : Found(snapshot, n) /\ ~Protected(snapshot, n)}}
<1>1. p \in SetToSeqs(S)
  BY DEF PlansOf
<1>2. p[k] \in S
  BY <1>1 DEF SetToSeqs
<1> QED
  BY <1>2 DEF Item

LEMMA OneMomentStep == FromOneMoment /\ [Next]_vars => FromOneMoment'
<1> SUFFICES ASSUME FromOneMoment, [Next]_vars PROVE FromOneMoment'
  OBVIOUS
<1> USE DEF FromOneMoment
<1>1. ASSUME NEW w, Turns(w), UNCHANGED progVars PROVE FromOneMoment'
  BY <1>1 DEF Turns, progVars, PlanFromOneMoment
<1>2. CASE BeginScan
  BY <1>2 DEF BeginScan, PlanFromOneMoment
<1>3. CASE ReadUsage
  <2>1. PICK incomplete \in BOOLEAN : Judge(Inventory(world), incomplete)
    BY <1>3 DEF ReadUsage
  <2>2. CASE Idle
    BY <2>2 DEF Idle, PlanFromOneMoment
  <2>3. CASE Preview(Inventory(world))
    <3>1. planned' \in PlansOf(Inventory(world), marks) /\ phase' = "preview"
          /\ moments' = moments /\ world \in moments
      BY <1>3, <2>3 DEF Preview, ReadUsage
    <3>2. \A k \in DOMAIN planned' : Free(world, planned'[k].mark)
      BY <3>1, PlansAreAllowed DEF Free
    <3> QED
      BY <3>1, <3>2 DEF PlanFromOneMoment
  <2> QED
    BY <2>1, <2>2, <2>3 DEF Judge
<1>4. CASE UsageFails
  BY <1>4 DEF UsageFails, PlanFromOneMoment
<1>5. ASSUME NEW k \in Listed, ReadSection(k) PROVE FromOneMoment'
  BY <1>5 DEF ReadSection, PlanFromOneMoment
<1>6. CASE EndFallback
  BY <1>6 DEF EndFallback, Judge, Idle, PlanFromOneMoment
<1>7. CASE ScanFails \/ Decline \/ Done
  BY <1>7 DEF ScanFails, Decline, Done, Idle, PlanFromOneMoment
<1>8. CASE Confirm
  BY <1>8 DEF Confirm, PlanFromOneMoment
<1>9. CASE UNCHANGED <<progVars, world, moments>>
  BY <1>9 DEF progVars, PlanFromOneMoment
<1>10. CASE OthersCreate \/ OthersStart \/ OthersStop \/ OthersRemove
  BY <1>1, <1>10 DEF OthersCreate, OthersStart, OthersStop, OthersRemove, Becomes
<1> QED
  BY <1>1, <1>2, <1>3, <1>4, <1>5, <1>6, <1>7, <1>8, <1>9, <1>10
     DEF Next, ExecuteOn, ServeRemoval, ServeRefusal, vars

\* Whatever others do during a scan, and however it fails: a plan that is shown was
\* allowed as a whole at one moment since the scan began.
THEOREM CleanupPlansOneMoment == Spec => []PlanFromOneMoment
<1>1. Init => FromOneMoment
  BY DEF Init, FromOneMoment, PlanFromOneMoment
<1>2. FromOneMoment => PlanFromOneMoment
  BY DEF FromOneMoment
<1> QED
  BY <1>1, <1>2, OneMomentStep, PTL DEF Spec

(***************************************************************************)
(* The composition drives Execute as Executor describes it: the plan that  *)
(* is confirmed is one of Plans, because the scan read a world the daemon  *)
(* can be in and made it of what the user may mark.                        *)
(***************************************************************************)
Prepared ==
  /\ world \in Worlds
  /\ phase \in {"usage", "fallback"} => marks \in MarkSets
  /\ phase = "fallback" => errors = TRUE
  /\ phase = "preview" => planned \in Plans

\* What a removal leaves is a world again.
LEMMA WithoutIsAWorld ==
  ASSUME NEW w \in Worlds, NEW mark
  PROVE  Without(w, mark) \in Worlds
<1>1. CASE mark.kind = "container"
  BY <1>1 DEF Without, Worlds
<1>2. CASE mark.kind # "container"
  BY <1>2 DEF Without, Worlds
<1> QED
  BY <1>1, <1>2

LEMMA PreparedStep == Prepared /\ [Next]_vars => Prepared'
<1> SUFFICES ASSUME Prepared, [Next]_vars PROVE Prepared'
  OBVIOUS
<1> USE DEF Prepared
<1>1. CASE OthersCreate \/ OthersStart \/ OthersStop \/ OthersRemove
  <2>1. ASSUME NEW c \in {"running", "exited", "gone"}
        PROVE  [world EXCEPT !.container = c] \in Worlds
    BY DEF Worlds
  <2>2. [image |-> TRUE, volume |-> TRUE, container |-> "exited"] \in Worlds
    BY DEF Worlds
  <2>3. world' \in Worlds
    BY <1>1, <2>1, <2>2 DEF OthersCreate, OthersStart, OthersStop, OthersRemove, Becomes, Turns
  <2>4. UNCHANGED progVars
    BY <1>1 DEF OthersCreate, OthersStart, OthersStop, OthersRemove, Becomes
  <2> QED
    BY <2>3, <2>4 DEF progVars
<1>2. CASE BeginScan
  BY <1>2 DEF BeginScan
<1>3. CASE ReadUsage
  <2>1. PICK incomplete \in BOOLEAN : Judge(Inventory(world), incomplete)
    BY <1>3 DEF ReadUsage
  <2>2. CASE Idle
    BY <2>2 DEF Idle
  <2>3. CASE Preview(Inventory(world))
    <3>1. planned' \in PlansOf(Inventory(world), marks) /\ phase' = "preview" /\ world' = world
          /\ marks \in MarkSets
      BY <1>3, <2>3 DEF Preview, ReadUsage
    <3>2. planned' \in Plans
      BY <3>1, CleanupPlansAssumption
    <3> QED
      BY <3>1, <3>2
  <2> QED
    BY <2>1, <2>2, <2>3 DEF Judge
<1>4. CASE UsageFails
  BY <1>4 DEF UsageFails
<1>5. ASSUME NEW k \in Listed, ReadSection(k) PROVE Prepared'
  BY <1>5 DEF ReadSection
<1>6. CASE EndFallback
  BY <1>6 DEF EndFallback, Judge, Idle
<1>7. CASE ScanFails \/ Decline \/ Done
  BY <1>7 DEF ScanFails, Decline, Done, Idle
<1>8. CASE Confirm
  BY <1>8 DEF Confirm
<1>9. CASE UNCHANGED <<progVars, world>>
  BY <1>9 DEF progVars
<1>10. ASSUME NEW req \in flight, ServeRemoval(req) PROVE Prepared'
  <2>1. world' = Without(world, req.mark) /\ UNCHANGED progVars
    BY <1>10 DEF ServeRemoval, Turns
  <2>2. world' \in Worlds
    BY <2>1, WithoutIsAWorld
  <2> QED
    BY <2>1, <2>2 DEF progVars
<1> QED
  BY <1>1, <1>2, <1>3, <1>4, <1>5, <1>6, <1>7, <1>8, <1>9, <1>10
     DEF Next, ExecuteOn, ServeRefusal, vars

LEMMA ExecutorStep == Prepared /\ [Next]_vars => [Exec!Next]_Exec!vars
<1> SUFFICES ASSUME Prepared, [Next]_vars PROVE Exec!Next \/ UNCHANGED Exec!vars
  OBVIOUS
<1>1. ASSUME UNCHANGED execVars PROVE UNCHANGED Exec!vars
  BY <1>1 DEF execVars, Exec!vars, Exec!execVars, Exec!logVars, Exec!daemonVars
<1>2. CASE Confirm
  BY <1>2 DEF Confirm, Prepared, Exec!Next
<1>3. CASE ExecuteOn
  BY <1>3 DEF ExecuteOn, Exec!Next
<1>4. ASSUME NEW req \in flight, ServeRemoval(req) \/ ServeRefusal(req) PROVE Exec!Next
  BY <1>4 DEF ServeRemoval, ServeRefusal, Exec!Next
<1> QED
  BY <1>1, <1>2, <1>3, <1>4 DEF Next, vars, OthersCreate, OthersStart, OthersStop,
     OthersRemove, Becomes, BeginScan, ReadUsage, UsageFails, ReadSection, EndFallback,
     ScanFails, Decline, Done, Judge

\* Every step of a cleanup is a step of Executor, or leaves the execution alone.
THEOREM CleanupImplementsExecutor == Spec => ImplementsExecutor
<1>1. Init => Prepared /\ Exec!Init
  BY DEF Init, Prepared
<1> QED
  BY <1>1, PreparedStep, ExecutorStep, PTL DEF Spec, ImplementsExecutor, Exec!Spec

(***************************************************************************)
(* So what is proved of Executor holds of a cleanup; above all, together   *)
(* with whatever else happens to the daemon, it keeps the promise of the   *)
(* audit log.                                                              *)
(***************************************************************************)
Proofs == INSTANCE ExecutorProofs

LEMMA ExecutorAssumptions == Proofs!PlansAssumption /\ Proofs!BoundsAssumption
BY CleanupExecutesAssumption DEF Proofs!PlansAssumption, Proofs!BoundsAssumption

\* The Executor that a cleanup runs is the one that ExecutorProofs is about.
LEMMA SameExecutor ==
  /\ Exec!Init => Proofs!Init
  /\ [Exec!Next]_Exec!vars => [Proofs!Next]_Proofs!vars
BY DEF Exec!Init, Proofs!Init, Exec!Start, Proofs!Start, Exec!Refuse, Proofs!Refuse,
   Exec!NewRun, Proofs!NewRun, Exec!NoReply, Proofs!NoReply, Exec!Return, Proofs!Return,
   Exec!GoTo, Proofs!GoTo, Exec!Finish, Proofs!Finish,
   Exec!StopCancelled, Proofs!StopCancelled, Exec!NextItem, Proofs!NextItem,
   Exec!WriteIntent, Proofs!WriteIntent, Exec!SyncIntent, Proofs!SyncIntent,
   Exec!WriteResult, Proofs!WriteResult, Exec!SyncResult, Proofs!SyncResult,
   Exec!AuditFails, Proofs!AuditFails, Exec!SendCall, Proofs!SendCall,
   Exec!Conclude, Proofs!Conclude, Exec!IsCache, Proofs!IsCache,
   Exec!TakeReply, Proofs!TakeReply, Exec!LoseReply, Proofs!LoseReply,
   Exec!CallCancelled, Proofs!CallCancelled, Exec!Cancel, Proofs!Cancel,
   Exec!Crash, Proofs!Crash, Exec!Answer, Proofs!Answer, Exec!Answers, Proofs!Answers,
   Exec!DaemonRemoves, Proofs!DaemonRemoves, Exec!DaemonRefuses, Proofs!DaemonRefuses,
   Exec!ExecuteStep, Proofs!ExecuteStep, Exec!Next, Proofs!Next,
   Exec!Request, Proofs!Request, Exec!Intent, Proofs!Intent, Exec!Result, Proofs!Result,
   Exec!execVars, Proofs!execVars, Exec!logVars, Proofs!logVars,
   Exec!daemonVars, Proofs!daemonVars, Exec!vars, Proofs!vars

LEMMA SameLedger ==
  /\ Proofs!Ledger!Init => Exec!Ledger!Init
  /\ [Proofs!Ledger!Next]_<<Proofs!Durable, removed>> => [Exec!Ledger!Next]_<<Exec!Durable, removed>>
BY DEF Exec!Durable, Proofs!Durable, Exec!Ledger!Init, Proofs!Ledger!Init,
   Exec!Ledger!Next, Proofs!Ledger!Next, Exec!Ledger!Persist, Proofs!Ledger!Persist,
   Exec!Ledger!Remove, Proofs!Ledger!Remove,
   Exec!Ledger!Announced, Proofs!Ledger!Announced,
   Exec!Ledger!Reported, Proofs!Ledger!Reported

\* Whatever others do to the daemon and however often the user plans again, a
\* cleanup implements AuditedRemoval: nothing goes unannounced, and the log on
\* disk reports a removal once and only if it happened.
THEOREM CleanupKeepsLedger == Spec => Exec!KeepsLedger
<1>1. Proofs!Spec => Proofs!KeepsLedger
  BY ExecutorAssumptions, Proofs!ExecutorKeepsLedger
<1> QED
  BY <1>1, SameExecutor, SameLedger, CleanupImplementsExecutor, PTL
     DEF ImplementsExecutor, Exec!Spec, Proofs!Spec, Exec!KeepsLedger, Proofs!KeepsLedger,
         Exec!Ledger!Spec, Proofs!Ledger!Spec

(***************************************************************************)
(* From the scan to the last removal.  The invariants of Executor hold of  *)
(* the execution; what is added is where its plan came from, which of it   *)
(* is still there, and that the daemon serves each request for the run     *)
(* that sent it.                                                           *)
(***************************************************************************)
LEMMA ExecutionInvariants ==
  Spec => [](Proofs!TypeOK /\ Proofs!SuccessIsReal /\ Proofs!ReturnTellsTruth)
<1>1. Proofs!Spec => [](Proofs!TypeOK /\ Proofs!SuccessIsReal /\ Proofs!ReturnTellsTruth)
  BY ExecutorAssumptions, Proofs!ExecutorTypeOK, Proofs!ExecutorSuccessIsReal,
     Proofs!ExecutorReturnsTruth, PTL
<1> QED
  BY <1>1, SameExecutor, CleanupImplementsExecutor, PTL
     DEF ImplementsExecutor, Exec!Spec, Proofs!Spec

LEMMA PreparedAlways == Spec => []Prepared
<1>1. Init => Prepared
  BY DEF Init, Prepared
<1> QED
  BY <1>1, PreparedStep, PTL DEF Spec

\* But for the confirmation, a step keeps the run and its plan, and a request that is
\* new is of that run and plan.
LEMMA RunGoesOn ==
  ASSUME Proofs!TypeOK, [Next]_vars, ~Confirm
  PROVE  /\ UNCHANGED <<run, todo, basis>>
         /\ \A req \in flight' \cup removed' :
              \/ req \in flight \cup removed
              \/ run \in 1..run /\ req.run = run /\ \E k \in DOMAIN todo : req.mark = todo[k].mark
<1> DEFINE Known == flight' \cup removed' \subseteq flight \cup removed
<1>1. ASSUME UNCHANGED <<execVars, basis>> PROVE UNCHANGED <<run, todo, basis>> /\ Known
  BY <1>1 DEF execVars
<1>2. ASSUME ExecuteOn PROVE UNCHANGED <<run, todo, basis>> /\ (Known \/ Exec!SendCall)
  BY <1>2 DEF ExecuteOn, runHistory, Exec!ExecuteStep, Exec!Cancel, Exec!Crash, Exec!Finish,
     Exec!StopCancelled, Exec!NextItem, Exec!WriteIntent, Exec!SyncIntent, Exec!GoTo,
     Exec!WriteResult, Exec!SyncResult, Exec!AuditFails, Exec!SendCall, Exec!TakeReply,
     Exec!LoseReply, Exec!CallCancelled, Exec!Conclude, Exec!Return, Exec!daemonVars
<1>3. ASSUME Exec!SendCall
      PROVE  \A req \in flight' \cup removed' :
               \/ req \in flight \cup removed
               \/ /\ run \in 1..run /\ req.run = run
                  /\ \E k \in DOMAIN todo : req.mark = todo[k].mark
  <2>1. pos \in DOMAIN todo /\ run \in 1..run
    BY <1>3 DEF Exec!SendCall, Proofs!TypeOK
  <2>2. flight' = flight \cup {Exec!Request} /\ removed' = removed
    BY <1>3 DEF Exec!SendCall
  <2> QED
    BY <2>1, <2>2 DEF Exec!Request
<1>4. ASSUME NEW req \in flight, ServeRemoval(req) \/ ServeRefusal(req)
      PROVE  UNCHANGED <<run, todo, basis>> /\ Known
  BY <1>4 DEF ServeRemoval, ServeRefusal, Turns, runHistory, Exec!DaemonRemoves,
     Exec!DaemonRefuses, Exec!execVars
<1>5. CASE OthersCreate \/ OthersStart \/ OthersStop \/ OthersRemove
  BY <1>1, <1>5 DEF OthersCreate, OthersStart, OthersStop, OthersRemove, Becomes, Turns
<1>6. CASE BeginScan \/ ReadUsage \/ UsageFails \/ (\E k \in Listed : ReadSection(k))
           \/ EndFallback \/ ScanFails \/ Decline \/ Done \/ UNCHANGED vars
  BY <1>1, <1>6 DEF BeginScan, ReadUsage, UsageFails, ReadSection, EndFallback, ScanFails,
     Decline, Done, Judge, Idle, Preview, vars, runHistory
<1> QED
  BY <1>2, <1>3, <1>4, <1>5, <1>6 DEF Next

\* The confirmation begins a run with the plan that is shown.
LEMMA RunBegins ==
  ASSUME Proofs!TypeOK, Confirm
  PROVE  /\ phase = "preview" /\ run' = run + 1 /\ todo' = planned
         /\ UNCHANGED <<flight, removed>>
         /\ basis' = Append(basis, moments)
         /\ kept' \subseteq {planned[k].mark : k \in DOMAIN planned}
BY DEF Confirm, Commit, Exec!Start, Exec!Refuse, Exec!NewRun

Accounted ==
  /\ moments \subseteq Worlds
  /\ basis \in Seq(SUBSET Worlds) /\ Len(basis) = run
  /\ \A req \in flight \cup removed : req.run \in 1..run

LEMMA AccountedStep == Proofs!TypeOK /\ Prepared /\ Accounted /\ [Next]_vars => Accounted'
<1> SUFFICES ASSUME Proofs!TypeOK, Prepared, Accounted, [Next]_vars PROVE Accounted'
  OBVIOUS
<1>1. moments' \subseteq Worlds
  <2>1. world \in Worlds /\ world' \in Worlds
    BY PreparedStep DEF Prepared
  <2> QED
    BY <2>1 DEF Accounted, Next, vars, Turns, OthersCreate, OthersStart, OthersStop,
       OthersRemove, Becomes, BeginScan, ReadUsage, UsageFails, ReadSection, EndFallback,
       ScanFails, Decline, Done, Judge, Idle, Preview, Confirm, ExecuteOn, ServeRemoval,
       ServeRefusal
<1>2. CASE Confirm
  <2>1. run \in Nat
    BY DEF Proofs!TypeOK
  <2> QED
    BY <1>1, <1>2, <2>1, RunBegins DEF Accounted
<1>3. CASE ~Confirm
  BY <1>1, <1>3, RunGoesOn DEF Accounted
<1> QED
  BY <1>2, <1>3

\* The strengthening for RemovesWhatWasShown: of the run under way, what it has still
\* to ask for was free at that instant as well.
Covers(w, r) ==
  /\ \A req \in flight \cup removed : req.run = r => Free(w, req.mark)
  /\ r = run => \A k \in DOMAIN todo : Free(w, todo[k].mark)

Covered == \A r \in DOMAIN basis : \E w \in basis[r] : Covers(w, r)

LEMMA CoveredStep ==
  Proofs!TypeOK /\ Accounted /\ PlanFromOneMoment /\ Covered /\ [Next]_vars => Covered'
<1> SUFFICES ASSUME Proofs!TypeOK, Accounted, PlanFromOneMoment, Covered, [Next]_vars
             PROVE  Covered'
  OBVIOUS
<1>0. run \in Nat /\ Len(basis) = run /\ basis \in Seq(SUBSET Worlds) /\ DOMAIN basis = 1..run
      /\ \A req \in flight \cup removed : req.run \in 1..run
  BY DEF Proofs!TypeOK, Accounted
<1>1. CASE Confirm
  <2>1. /\ run' = run + 1 /\ todo' = planned /\ flight' = flight /\ removed' = removed
        /\ basis' = Append(basis, moments)
    BY <1>1, RunBegins
  <2>2. DOMAIN basis' = 1..(run + 1) /\ basis'[run + 1] = moments
        /\ \A r \in 1..run : basis'[r] = basis[r]
    BY <1>0, <2>1 DEF Accounted
  <2>3. PICK w \in moments : \A k \in DOMAIN planned : Free(w, planned[k].mark)
    BY <1>1, RunBegins DEF PlanFromOneMoment
  <2>4. ASSUME NEW r, r = run + 1 PROVE Covers(w, r)'
    BY <1>0, <2>1, <2>3, <2>4 DEF Covers
  <2>5. ASSUME NEW r \in 1..run PROVE \E v \in basis[r] : Covers(v, r)'
    <3>1. PICK v \in basis[r] : Covers(v, r)
      BY <1>0 DEF Covered
    <3> QED
      BY <1>0, <2>1, <3>1 DEF Covers
  <2>6. ASSUME NEW r \in 1..(run + 1) PROVE \E v \in basis'[r] : Covers(v, r)'
    <3>1. CASE r = run + 1
      BY <2>2, <2>3, <2>4, <3>1
    <3>2. CASE r \in 1..run
      BY <2>2, <2>5, <3>2
    <3> QED
      BY <1>0, <3>1, <3>2
  <2> QED
    BY <2>2, <2>6 DEF Covered
<1>2. CASE ~Confirm
  <2>1. UNCHANGED <<run, todo, basis>>
    BY <1>2, RunGoesOn
  <2>2. ASSUME NEW r \in DOMAIN basis, NEW w \in basis[r], Covers(w, r) PROVE Covers(w, r)'
    <3>1. ASSUME NEW req \in flight' \cup removed', req.run = r PROVE Free(w, req.mark)
      BY <1>2, <2>2, <3>1, RunGoesOn DEF Covers
    <3> QED
      BY <2>1, <2>2, <3>1 DEF Covers
  <2> QED
    BY <2>1, <2>2 DEF Covered
<1> QED
  BY <1>1, <1>2

\* Whatever others do between the scan, the confirmation and the last late removal:
\* nothing is asked for, and nothing goes, that became free only after the plan.
THEOREM CleanupRemovesWhatWasShown == Spec => []RemovesWhatWasShown
<1>1. Init => Accounted /\ Covered
  BY DEF Init, Exec!Init, Accounted, Covered
<1>2. Covered => RemovesWhatWasShown
  BY DEF Covered, Covers, RemovesWhatWasShown
<1> QED
  BY <1>1, <1>2, ExecutionInvariants, PreparedAlways, CleanupPlansOneMoment, AccountedStep,
     CoveredStep, PTL DEF Spec

\* The strengthening for SurvivorsAreReported: what a run has removed is not among
\* what is left of its plan, even if it has come back.
Survivors ==
  /\ kept \subseteq {todo[k].mark : k \in DOMAIN todo}
  /\ \A req \in removed : req.run = run => req.mark \notin kept

LEMMA RemovalsAreGone ==
  ASSUME NEW w \in Worlds, NEW mark
  PROVE  ~Exists(Without(w, mark), mark)
<1>1. CASE mark.kind = "container"
  <2>1. Without(w, mark).container = "gone"
    BY <1>1 DEF Without, Worlds
  <2> QED
    BY <1>1, <2>1 DEF Exists, Alive
<1>2. CASE mark.kind = "image"
  BY <1>2 DEF Without, Worlds, Exists
<1>3. CASE mark.kind = "volume"
  BY <1>3 DEF Without, Worlds, Exists
<1> QED
  BY <1>1, <1>2, <1>3 DEF Exists

LEMMA SurvivorsStep ==
  Proofs!TypeOK /\ Prepared /\ Accounted /\ Survivors /\ [Next]_vars => Survivors'
<1> SUFFICES ASSUME Proofs!TypeOK, Prepared, Accounted, Survivors, [Next]_vars
             PROVE  Survivors'
  OBVIOUS
<1>1. CASE Confirm
  <2>1. run \in Nat /\ \A req \in removed : req.run \in 1..run
    BY DEF Proofs!TypeOK, Accounted
  <2> QED
    BY <1>1, <2>1, RunBegins DEF Survivors
<1>2. CASE ~Confirm
  <2>1. UNCHANGED <<run, todo>>
    BY <1>2, RunGoesOn
  <2>2. ASSUME kept' \subseteq kept, removed' = removed PROVE Survivors'
    BY <2>1, <2>2 DEF Survivors
  <2>3. ASSUME NEW req \in flight, ServeRemoval(req) PROVE Survivors'
    <3>1. removed' = removed \cup {req}
      BY <2>3 DEF ServeRemoval, Exec!DaemonRemoves
    <3>2. kept' = {m \in kept : Exists(Without(world, req.mark), m)}
      BY <2>3 DEF ServeRemoval, Turns
    <3>3. kept' \subseteq kept /\ req.mark \notin kept'
      BY <3>2, RemovalsAreGone DEF Prepared
    <3> QED
      BY <2>1, <3>1, <3>3 DEF Survivors
  <2>4. CASE ExecuteOn
    <3>1. removed' = removed
      BY <2>4 DEF ExecuteOn, Exec!ExecuteStep, Exec!Cancel, Exec!Crash, Exec!Finish,
         Exec!StopCancelled, Exec!NextItem, Exec!WriteIntent, Exec!SyncIntent,
         Exec!WriteResult, Exec!SyncResult, Exec!AuditFails, Exec!SendCall, Exec!TakeReply,
         Exec!LoseReply, Exec!CallCancelled, Exec!Conclude, Exec!Return, Exec!daemonVars
    <3> QED
      BY <2>2, <2>4, <3>1 DEF ExecuteOn, runHistory
  <2>5. ASSUME NEW req \in flight, ServeRefusal(req) PROVE Survivors'
    BY <2>2, <2>5 DEF ServeRefusal, runHistory, Exec!DaemonRefuses
  <2>6. CASE OthersCreate \/ OthersStart \/ OthersStop \/ OthersRemove
    BY <2>2, <2>6 DEF OthersCreate, OthersStart, OthersStop, OthersRemove, Becomes, Turns,
       execVars
  <2>7. CASE BeginScan \/ ReadUsage \/ UsageFails \/ (\E k \in Listed : ReadSection(k))
             \/ EndFallback \/ ScanFails \/ Decline \/ Done \/ UNCHANGED vars
    BY <2>2, <2>7 DEF BeginScan, ReadUsage, UsageFails, ReadSection, EndFallback, ScanFails,
       Decline, Done, Judge, Idle, Preview, vars, runHistory, execVars
  <2> QED
    BY <1>2, <2>3, <2>4, <2>5, <2>6, <2>7 DEF Next
<1> QED
  BY <1>1, <1>2

LEMMA SurvivorsAreToldOf ==
  Proofs!SuccessIsReal /\ Proofs!ReturnTellsTruth /\ Survivors => SurvivorsAreReported
BY DEF Proofs!SuccessIsReal, Proofs!ReturnTellsTruth, Survivors, SurvivorsAreReported

\* Whatever others put to use, stop or remove meanwhile: what is still there of the
\* plan that was confirmed is not called removed, nor does Execute return without an
\* error while there is any.
THEOREM CleanupReportsSurvivors == Spec => []SurvivorsAreReported
<1>1. Init => Accounted /\ Survivors
  BY DEF Init, Exec!Init, Accounted, Survivors
<1> QED
  BY <1>1, ExecutionInvariants, PreparedAlways, AccountedStep, SurvivorsStep,
     SurvivorsAreToldOf, PTL DEF Spec
=============================================================================
