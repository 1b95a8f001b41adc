-------------------------- MODULE ProcessesProofs ---------------------------
(***************************************************************************)
(* Two processes on one audit log and one daemon: what ExecutorProofs      *)
(* shows of one Execute holds of both of them, because each leaves the     *)
(* requests, the records and the results of the other alone; and they      *)
(* never both claim the removal of an object.                              *)
(***************************************************************************)
EXTENDS Processes, ExecutorProofs

\* What ExecutorProofs shows, of the other process.
OtherProofs == INSTANCE ExecutorProofs
                 WITH pc <- otherPc, run <- otherRun, todo <- otherTodo, pos <- otherPos,
                      ctxDone <- otherCtxDone, results <- otherResults,
                      actual <- otherActual, outcome <- otherOutcome, reply <- otherReply,
                      Plans <- OtherPlans

\* The plans of the other process are as good as this one's.
LEMMA OtherAssumptions == OtherProofs!PlansAssumption /\ OtherProofs!BoundsAssumption
BY PlansAssumption, BoundsAssumption, ProcessesAssumption
   DEF OtherProofs!PlansAssumption, OtherProofs!BoundsAssumption

LEMMA OtherSoundStep ==
  OtherProofs!Sound /\ OtherProofs!Fresh /\ [OtherProofs!Next]_OtherProofs!vars
    => OtherProofs!Sound'
BY OtherAssumptions, OtherProofs!SoundStep

LEMMA OtherSoundElsewhere ==
  OtherProofs!Sound /\ OtherProofs!Elsewhere /\ OtherProofs!LogSound' => OtherProofs!Sound'
BY OtherAssumptions, OtherProofs!SoundElsewhere

LEMMA OtherSoundLog == OtherProofs!Sound => OtherProofs!LogSound
BY OtherAssumptions, OtherProofs!SoundLog

\* The log and the daemon are the same for both.
LEMMA SameLog == LogSound <=> OtherProofs!LogSound
BY DEF LogSound, IntentBeforeMutation, OneByOne, ResultBefore, Reports, Durable, Records,
   Requests, Intent, ToSet, OtherProofs!LogSound, OtherProofs!IntentBeforeMutation,
   OtherProofs!OneByOne, OtherProofs!ResultBefore, OtherProofs!Reports, OtherProofs!Durable,
   OtherProofs!Records, OtherProofs!Requests, OtherProofs!Intent, OtherProofs!ToSet

\* What Processes makes of Executor is what its proofs are about.
LEMMA OtherStarts ==
  ASSUME NEW p
  PROVE  Other!Start(p) \/ Other!Refuse(p) => OtherProofs!Start(p) \/ OtherProofs!Refuse(p)
BY DEF Other!Start, OtherProofs!Start, Other!Refuse, OtherProofs!Refuse, Other!NewRun,
   OtherProofs!NewRun, Other!logVars, OtherProofs!logVars, Other!NoReply, OtherProofs!NoReply

LEMMA OtherWorks == Other!ExecuteStep => OtherProofs!ExecuteStep
<1>1. Other!Finish \/ Other!StopCancelled \/ Other!AuditFails
        => OtherProofs!Finish \/ OtherProofs!StopCancelled \/ OtherProofs!AuditFails
  BY DEF Other!Finish, OtherProofs!Finish, Other!StopCancelled, OtherProofs!StopCancelled,
     Other!AuditFails, OtherProofs!AuditFails, Other!Return, OtherProofs!Return,
     Other!logVars, OtherProofs!logVars, Other!daemonVars, OtherProofs!daemonVars
<1>2. Other!NextItem => OtherProofs!NextItem
  BY DEF Other!NextItem, OtherProofs!NextItem, Other!GoTo, OtherProofs!GoTo,
     Other!logVars, OtherProofs!logVars, Other!daemonVars, OtherProofs!daemonVars
<1>3. Other!WriteIntent \/ Other!WriteResult => OtherProofs!WriteIntent \/ OtherProofs!WriteResult
  BY DEF Other!WriteIntent, OtherProofs!WriteIntent, Other!WriteResult, OtherProofs!WriteResult,
     Other!Intent, OtherProofs!Intent, Other!Result, OtherProofs!Result, Other!Request,
     OtherProofs!Request, Other!GoTo, OtherProofs!GoTo, Other!daemonVars, OtherProofs!daemonVars
<1>4. Other!SyncIntent \/ Other!SyncResult => OtherProofs!SyncIntent \/ OtherProofs!SyncResult
  BY DEF Other!SyncIntent, OtherProofs!SyncIntent, Other!SyncResult, OtherProofs!SyncResult,
     Other!GoTo, OtherProofs!GoTo, Other!daemonVars, OtherProofs!daemonVars
<1>5. Other!SendCall => OtherProofs!SendCall
  BY DEF Other!SendCall, OtherProofs!SendCall, Other!Request, OtherProofs!Request,
     Other!NoReply, OtherProofs!NoReply, Other!GoTo, OtherProofs!GoTo, Other!logVars,
     OtherProofs!logVars
<1>6. ASSUME NEW ok, NEW freed, Other!Conclude(ok, freed) PROVE OtherProofs!Conclude(ok, freed)
  BY <1>6 DEF Other!Conclude, OtherProofs!Conclude, Other!logVars, OtherProofs!logVars,
     Other!NoReply, OtherProofs!NoReply
<1>7. Other!TakeReply \/ Other!LoseReply \/ Other!CallCancelled
        => OtherProofs!TakeReply \/ OtherProofs!LoseReply \/ OtherProofs!CallCancelled
  BY <1>6 DEF Other!TakeReply, OtherProofs!TakeReply, Other!LoseReply, OtherProofs!LoseReply,
     Other!CallCancelled, OtherProofs!CallCancelled, Other!IsCache, OtherProofs!IsCache,
     Other!NoReply, OtherProofs!NoReply
<1> QED
  BY <1>1, <1>2, <1>3, <1>4, <1>5, <1>7 DEF Other!ExecuteStep, OtherProofs!ExecuteStep

LEMMA OtherStops ==
  /\ Other!Cancel => OtherProofs!Cancel
  /\ Other!Crash => OtherProofs!Crash
BY DEF Other!Cancel, OtherProofs!Cancel, Other!Crash, OtherProofs!Crash, Other!logVars,
   OtherProofs!logVars, Other!daemonVars, OtherProofs!daemonVars, Other!NoReply,
   OtherProofs!NoReply

LEMMA OtherServed ==
  ASSUME NEW req
  PROVE  /\ Other!DaemonRemoves(req) => OtherProofs!DaemonRemoves(req)
         /\ Other!DaemonRefuses(req) => OtherProofs!DaemonRefuses(req)
BY DEF Other!DaemonRemoves, OtherProofs!DaemonRemoves, Other!DaemonRefuses,
   OtherProofs!DaemonRefuses, Other!Answer, OtherProofs!Answer, Other!Answers,
   OtherProofs!Answers, Other!Request, OtherProofs!Request, Other!execVars,
   OtherProofs!execVars, Other!logVars, OtherProofs!logVars

(***************************************************************************)
(* Who moves.  One process works while the other stands still, or both see *)
(* the daemon serve a request or the machine stop.                         *)
(***************************************************************************)
MineAlone ==
  /\ Next
  /\ UNCHANGED <<others, removed>>
  /\ run' # run => run < MyRuns
  /\ Crash => UNCHANGED audit \/ otherPc = "returned"

TheirsAlone ==
  /\ OtherProofs!Next
  /\ UNCHANGED <<mine, removed>>
  /\ OtherProofs!Crash => UNCHANGED audit \/ pc = "returned"

BothTogether ==
  /\ Next
  /\ OtherProofs!Next
  /\ UNCHANGED <<run, todo, otherRun, otherTodo>>
  /\ pc = "returned" => pc' = "returned"
  /\ otherPc = "returned" => otherPc' = "returned"
  /\ \A req \in removed' \ removed : ~Gone(req.mark)
  /\ \A a, b \in removed' \ removed : a = b

LEMMA MyMoves ==
  MyStep \/ (Crash /\ UNCHANGED others /\ (UNCHANGED audit \/ otherPc = "returned"))
    => MineAlone
<1>1. MyStep => Next /\ UNCHANGED <<others, removed>>
  BY WorkRemovesNothing DEF MyStep, Next
<1>2. MyStep => (run' # run => run < MyRuns) /\ ~Crash
  BY DEF MyStep, ExecuteStep, Start, Refuse, NewRun, Finish, StopCancelled, NextItem,
     AuditFails, Return, GoTo, WriteIntent, WriteResult, SyncIntent, SyncResult, SendCall,
     TakeReply, LoseReply, CallCancelled, Conclude, Cancel, Crash
<1>3. Crash => Next /\ UNCHANGED <<run, removed>>
  BY DEF Next, Crash
<1> QED
  BY <1>1, <1>2, <1>3 DEF MineAlone

LEMMA TheirMoves ==
  OtherStep \/ (Other!Crash /\ UNCHANGED mine /\ (UNCHANGED audit \/ pc = "returned"))
    => TheirsAlone
<1> DEFINE Starts == \E p \in OtherPlans : OtherProofs!Start(p) \/ OtherProofs!Refuse(p)
<1>1. OtherStep => (Starts \/ OtherProofs!ExecuteStep \/ OtherProofs!Cancel) /\ UNCHANGED mine
  BY OtherStarts, OtherWorks, OtherStops DEF OtherStep
<1>2. Starts \/ OtherProofs!ExecuteStep \/ OtherProofs!Cancel
        => OtherProofs!Next /\ UNCHANGED removed /\ ~OtherProofs!Crash
  <2>1. Starts \/ OtherProofs!ExecuteStep \/ OtherProofs!Cancel => UNCHANGED removed
    BY OtherAssumptions, OtherProofs!WorkRemovesNothing
  <2>2. Starts \/ OtherProofs!ExecuteStep \/ OtherProofs!Cancel => OtherProofs!Next
    BY DEF OtherProofs!Next
  <2>3. Starts \/ OtherProofs!ExecuteStep \/ OtherProofs!Cancel => ~OtherProofs!Crash
    BY DEF OtherProofs!ExecuteStep, OtherProofs!Start, OtherProofs!Refuse, OtherProofs!NewRun,
       OtherProofs!Finish, OtherProofs!StopCancelled, OtherProofs!NextItem,
       OtherProofs!AuditFails, OtherProofs!Return, OtherProofs!GoTo, OtherProofs!WriteIntent,
       OtherProofs!WriteResult, OtherProofs!SyncIntent, OtherProofs!SyncResult,
       OtherProofs!SendCall, OtherProofs!TakeReply, OtherProofs!LoseReply,
       OtherProofs!CallCancelled, OtherProofs!Conclude, OtherProofs!Cancel, OtherProofs!Crash
  <2> QED
    BY <2>1, <2>2, <2>3
<1>3. Other!Crash => OtherProofs!Next /\ UNCHANGED removed
  BY OtherStops DEF OtherProofs!Next, OtherProofs!Crash
<1> QED
  BY <1>1, <1>2, <1>3 DEF TheirsAlone

LEMMA BothMove ==
  (Crash /\ Other!Crash) \/ (\E req \in flight : Serve(req)) => BothTogether
<1>1. CASE Crash /\ Other!Crash
  <2>1. OtherProofs!Crash
    BY <1>1, OtherStops
  <2>2. Next /\ OtherProofs!Next
    BY <1>1, <2>1 DEF Next, OtherProofs!Next
  <2>3. UNCHANGED <<run, todo, removed>> /\ pc' = "returned"
    BY <1>1 DEF Crash
  <2>4. UNCHANGED <<otherRun, otherTodo>> /\ otherPc' = "returned"
    BY <2>1 DEF OtherProofs!Crash
  <2> QED
    BY <2>2, <2>3, <2>4 DEF BothTogether
<1>2. ASSUME NEW req \in flight, Serve(req) PROVE BothTogether
  <2>1. OtherProofs!DaemonRemoves(req) \/ OtherProofs!DaemonRefuses(req)
    BY <1>2, OtherServed DEF Serve
  <2>2. DaemonRemoves(req) \/ DaemonRefuses(req)
    BY <1>2 DEF Serve
  <2>3. Next /\ OtherProofs!Next
    BY <2>1, <2>2 DEF Next, OtherProofs!Next
  <2>4. UNCHANGED <<pc, run, todo, otherPc, otherRun, otherTodo>>
    BY <2>1, <2>2 DEF DaemonRemoves, DaemonRefuses, execVars, OtherProofs!DaemonRemoves,
       OtherProofs!DaemonRefuses, OtherProofs!execVars
  <2>5. \A r \in removed' \ removed : r = req /\ ~Gone(r.mark)
    BY <1>2 DEF Serve, DaemonRemoves, DaemonRefuses
  <2> QED
    BY <2>3, <2>4, <2>5 DEF BothTogether
<1> QED
  BY <1>1, <1>2

Moves == MineAlone \/ TheirsAlone \/ BothTogether \/ UNCHANGED allVars

LEMMA BothSteps == [BothNext]_allVars => Moves
<1>1. CASE Dies
  <2>1. CASE UNCHANGED <<audit, others>> /\ Crash
    BY <2>1, MyMoves DEF Moves
  <2>2. CASE UNCHANGED <<audit, mine>> /\ Other!Crash
    BY <2>2, TheirMoves DEF Moves
  <2> QED
    BY <1>1, <2>1, <2>2 DEF Dies
<1>2. CASE MachineCrashes
  <2>1. CASE Crash /\ Other!Crash
    BY <2>1, BothMove DEF Moves
  <2>2. CASE Crash /\ otherPc = "returned" /\ UNCHANGED others
    BY <2>2, MyMoves DEF Moves
  <2>3. CASE Other!Crash /\ pc = "returned" /\ UNCHANGED mine
    BY <2>3, TheirMoves DEF Moves
  <2> QED
    BY <1>2, <2>1, <2>2, <2>3 DEF MachineCrashes
<1> QED
  BY <1>1, <1>2, MyMoves, TheirMoves, BothMove DEF BothNext, Moves

(***************************************************************************)
(* The strengthening: each process is sound by itself, the numbers of its  *)
(* runs are its own, and no object has been removed twice.                 *)
(***************************************************************************)
Numbered ==
  /\ run <= MyRuns /\ MyRuns <= otherRun
  /\ otherRun = MyRuns => otherPc = "returned" /\ otherTodo = <<>>
  /\ \A req \in Named : req.run <= run \/ (MyRuns < req.run /\ req.run <= otherRun)

OneRemoval == \A a, b \in removed : a.mark = b.mark => a = b

BothSound == Sound /\ OtherProofs!Sound /\ Numbered /\ OneRemoval

\* The numbers of runs are integers.
LEMMA Numbers ==
  ASSUME BothSound
  PROVE  /\ run \in Int /\ otherRun \in Int /\ MyRuns \in Int
         /\ \A req \in Named : req.run \in Int
<1>1. TypeOK /\ OtherProofs!TypeOK
  BY DEF BothSound, Sound, OtherProofs!Sound
<1>2. otherRun \in Int
  BY <1>1, BoundsAssumption DEF OtherProofs!TypeOK
<1> QED
  BY <1>1, <1>2, NamedRuns, BoundsAssumption, ProcessesAssumption

LEMMA OneRemovalStep == OneRemoval /\ Moves => OneRemoval'
<1>1. CASE UNCHANGED removed
  BY <1>1 DEF OneRemoval
<1>2. CASE BothTogether
  <2> SUFFICES ASSUME OneRemoval, NEW a \in removed', NEW b \in removed', a.mark = b.mark
               PROVE  a = b
    BY DEF OneRemoval
  <2>1. CASE a \in removed /\ b \in removed
    BY <2>1 DEF OneRemoval
  <2>2. CASE a \notin removed /\ b \notin removed
    BY <1>2, <2>2 DEF BothTogether
  <2>3. CASE (a \in removed /\ b \notin removed) \/ (a \notin removed /\ b \in removed)
    BY <1>2, <2>3 DEF BothTogether, Gone
  <2> QED
    BY <2>1, <2>2, <2>3
<1> QED
  BY <1>1, <1>2 DEF Moves, MineAlone, TheirsAlone, allVars, vars, daemonVars

LEMMA NumberedStep == BothSound /\ Moves => Numbered'
<1> SUFFICES ASSUME BothSound, Moves PROVE Numbered'
  OBVIOUS
<1>0. TypeOK /\ OtherProofs!TypeOK /\ Numbered
  BY DEF BothSound, Sound, OtherProofs!Sound
<1>1. Next => /\ run' = run + 1 \/ UNCHANGED run
              /\ \A req \in Named' : req \in Named \/ (req.run = run /\ run' = run)
  BY <1>0, RunStep, NamedStep
<1>2. OtherProofs!Next =>
        /\ \/ otherRun' = otherRun + 1
           \/ /\ UNCHANGED <<otherRun, otherTodo>>
              /\ otherPc = "returned" => otherPc' = "returned"
        /\ \A req \in Named' : \/ req \in Named
                               \/ /\ req.run = otherRun /\ otherRun' = otherRun
                                  /\ otherPc # "returned"
  <2>1. Named = OtherProofs!Named /\ Named' = OtherProofs!Named'
    BY DEF Named, OtherProofs!Named
  <2> QED
    BY <1>0, <2>1, OtherAssumptions, OtherProofs!RunStep, OtherProofs!NamedStep
<1>3. CASE MineAlone
  BY <1>0, <1>1, <1>3, Numbers DEF MineAlone, others, Numbered
<1>4. CASE TheirsAlone
  BY <1>0, <1>2, <1>4, Numbers DEF TheirsAlone, mine, execVars, Numbered
<1>5. CASE BothTogether
  BY <1>0, <1>1, <1>2, <1>5, Numbers DEF BothTogether, Numbered
<1>6. CASE UNCHANGED allVars
  BY <1>0, <1>6 DEF allVars, vars, others, execVars, logVars, daemonVars, Numbered, Named
<1> QED
  BY <1>3, <1>4, <1>5, <1>6 DEF Moves

\* What this process does leaves the other one alone, and the other way round.
LEMMA MineIsElsewhere == BothSound /\ MineAlone => OtherProofs!Elsewhere
<1> SUFFICES ASSUME BothSound, MineAlone PROVE OtherProofs!Elsewhere
  OBVIOUS
<1>0. TypeOK /\ Numbered /\ Next
  BY DEF BothSound, Sound, MineAlone
<1>1. UNCHANGED <<OtherProofs!execVars, otherReply>>
  BY DEF MineAlone, others, OtherProofs!execVars
<1>2. OtherProofs!Durable \subseteq OtherProofs!Durable' /\ removed \subseteq removed'
  BY <1>0, DurableGrows, RemovedGrows DEF Durable, OtherProofs!Durable
<1>3. ASSUME ~(otherPc = "returned" /\ otherTodo = <<>>)
      PROVE  /\ \A req \in (flight' \cup removed') \ (flight \cup removed) : req.run # otherRun
             /\ \A k \in DOMAIN audit' : audit'[k].req.run = otherRun =>
                                         k \in DOMAIN audit /\ audit'[k] = audit[k]
  <2>1. run # otherRun
    BY <1>0, <1>3, Numbers DEF Numbered
  <2> QED
    BY <1>0, <2>1, NewRequests, RecordStep DEF Request
<1>4. otherPc # "returned" =>
        \A k \in DOMAIN audit : k \in DOMAIN audit' /\ audit'[k] = audit[k]
  BY <1>0, RecordStep DEF MineAlone
<1> QED
  BY <1>1, <1>2, <1>3, <1>4 DEF OtherProofs!Elsewhere

LEMMA TheirsIsElsewhere == BothSound /\ TheirsAlone => Elsewhere
<1> SUFFICES ASSUME BothSound, TheirsAlone PROVE Elsewhere
  OBVIOUS
<1>0. OtherProofs!TypeOK /\ Numbered /\ OtherProofs!Next
  BY DEF BothSound, OtherProofs!Sound, TheirsAlone
<1>1. UNCHANGED <<execVars, reply>>
  BY DEF TheirsAlone, mine
<1>2. Durable \subseteq Durable' /\ removed \subseteq removed'
  BY <1>0, OtherAssumptions, OtherProofs!DurableGrows, OtherProofs!RemovedGrows
     DEF Durable, OtherProofs!Durable
<1>3. /\ \A k \in DOMAIN audit' : \/ k \in DOMAIN audit /\ audit'[k] = audit[k]
                                  \/ audit'[k].req.run = otherRun /\ otherPc # "returned"
      /\ \/ OtherProofs!Crash
         \/ \A k \in DOMAIN audit : k \in DOMAIN audit' /\ audit'[k] = audit[k]
  BY <1>0, OtherAssumptions, OtherProofs!RecordStep
<1>4. \A req \in (flight' \cup removed') \ (flight \cup removed) :
        req.run = otherRun /\ otherPc # "returned"
  BY <1>0, OtherAssumptions, OtherProofs!NewRequests
     DEF OtherProofs!Request, OtherProofs!SendCall
<1>5. otherPc # "returned" => run # otherRun
  BY <1>0, Numbers DEF Numbered
<1>6. pc # "returned" => \A k \in DOMAIN audit : k \in DOMAIN audit' /\ audit'[k] = audit[k]
  BY <1>3 DEF TheirsAlone
<1> QED
  BY <1>1, <1>2, <1>3, <1>4, <1>5, <1>6 DEF Elsewhere

LEMMA BothSoundStep == BothSound /\ [BothNext]_allVars => BothSound'
<1> SUFFICES ASSUME BothSound, [BothNext]_allVars PROVE BothSound'
  OBVIOUS
<1>0. Sound /\ OtherProofs!Sound /\ TypeOK /\ OtherProofs!TypeOK /\ Numbered
  BY DEF BothSound, Sound, OtherProofs!Sound
<1>1. Numbered' /\ OneRemoval'
  BY BothSteps, NumberedStep, OneRemovalStep DEF BothSound
<1>2. Next /\ (run' # run => run < MyRuns) => Fresh
  BY <1>0, RunStep, Numbers DEF Numbered, Fresh
<1>3. OtherProofs!Next => OtherProofs!Fresh
  <2>1. OtherProofs!Next => otherRun' = otherRun + 1 \/ UNCHANGED otherRun
    BY OtherAssumptions, OtherProofs!RunStep
  <2>2. \A req \in Named : req.run # otherRun + 1
    BY <1>0, Numbers DEF Numbered
  <2> QED
    BY <2>1, <2>2 DEF OtherProofs!Fresh, OtherProofs!Named, Named
<1>4. LogSound' <=> OtherProofs!LogSound'
  BY SameLog, PTL
<1>5. CASE MineAlone
  <2>1. Sound'
    BY <1>0, <1>2, <1>5, SoundStep DEF MineAlone
  <2>2. LogSound'
    BY <2>1, SoundLog, PTL
  <2>3. OtherProofs!Sound'
    BY <1>0, <1>4, <1>5, <2>2, MineIsElsewhere, OtherSoundElsewhere
  <2> QED
    BY <1>1, <2>1, <2>3 DEF BothSound
<1>6. CASE TheirsAlone
  <2>1. OtherProofs!Sound'
    BY <1>0, <1>3, <1>6, OtherSoundStep DEF TheirsAlone
  <2>2. OtherProofs!LogSound'
    BY <2>1, OtherSoundLog, PTL
  <2>3. Sound'
    BY <1>0, <1>4, <1>6, <2>2, TheirsIsElsewhere, SoundElsewhere
  <2> QED
    BY <1>1, <2>1, <2>3 DEF BothSound
<1>7. CASE BothTogether
  BY <1>0, <1>1, <1>2, <1>3, <1>7, SoundStep, OtherSoundStep DEF BothTogether, BothSound
<1>8. CASE UNCHANGED allVars
  <2>1. UNCHANGED vars /\ UNCHANGED OtherProofs!vars
    BY <1>8 DEF allVars, vars, others, execVars, logVars, daemonVars, OtherProofs!vars,
       OtherProofs!execVars, OtherProofs!logVars, OtherProofs!daemonVars
  <2>2. Fresh /\ OtherProofs!Fresh
    BY <2>1 DEF Fresh, OtherProofs!Fresh, vars, execVars, OtherProofs!vars, OtherProofs!execVars
  <2> QED
    BY <1>0, <1>1, <2>1, <2>2, SoundStep, OtherSoundStep DEF BothSound
<1> QED
  BY <1>5, <1>6, <1>7, <1>8, BothSteps DEF Moves

LEMMA BothInitSound == BothInit => BothSound
<1> SUFFICES ASSUME BothInit PROVE BothSound
  OBVIOUS
<1>1. Sound
  BY InitUntouched, UntouchedSound DEF BothInit
<1>2. OtherProofs!Untouched
  BY BoundsAssumption, ProcessesAssumption
     DEF BothInit, Init, OtherProofs!Untouched, NoReply, OtherProofs!NoReply
<1>3. OtherProofs!Sound
  BY <1>2, OtherAssumptions, OtherProofs!UntouchedSound
<1>4. Numbered
  BY BoundsAssumption, ProcessesAssumption DEF BothInit, Init, Numbered, Named
<1> QED
  BY <1>1, <1>3, <1>4 DEF BothSound, BothInit, Init, OneRemoval

LEMMA BothAreSound == BothSpec => []BothSound
BY BothInitSound, BothSoundStep, PTL DEF BothSpec

\* The state of two executions on one log keeps its shape.
THEOREM ProcessesTypeOK == BothSpec => []TypeOK
BY BothAreSound, PTL DEF BothSound, Sound

\* Whatever the other process writes, loses or crashes with: nothing reaches the
\* daemon that the log on disk does not announce.
THEOREM ProcessesAnnounce == BothSpec => []IntentBeforeMutation
<1>1. BothSound => IntentBeforeMutation
  BY DEF BothSound, Sound, Announcements
<1> QED
  BY <1>1, BothAreSound, PTL

\* A process calls removed what the daemon removed at its own request, not at the
\* other's.
THEOREM ProcessesSuccessIsReal == BothSpec => []SuccessIsReal
<1>1. BothSound => SuccessIsReal
  BY DEF BothSound, Sound, Successes
<1> QED
  BY <1>1, BothAreSound, PTL

\* The records of two processes in one file leave one object per run in doubt at most.
THEOREM ProcessesOneDoubt == BothSpec => []OneDoubtPerRun
<1>1. BothSound => OneDoubtPerRun
  BY OneDoubt DEF BothSound, Sound, OneAtATime
<1> QED
  BY <1>1, BothAreSound, PTL

\* An execution keeps the order of its plan whatever the other process asks for
\* meanwhile.
THEOREM ProcessesKeepOrder == BothSpec => []ReportKeepsOrder
<1>1. BothSound => ReportKeepsOrder
  BY DEF BothSound, Sound, Ordered
<1> QED
  BY <1>1, BothAreSound, PTL

\* A return without an error is worth the same when another process writes to the log.
THEOREM ProcessesReturnTruth == BothSpec => []ReturnTellsTruth
<1>1. BothSound => ReturnTellsTruth
  BY DEF BothSound, Sound, Truths
<1> QED
  BY <1>1, BothAreSound, PTL

\* Two processes that work on the same objects never both claim one, for any plans
\* and any numbers of runs.
THEOREM ProcessesNoDoubleClaim == BothSpec => []NoDoubleClaim
<1>1. BothSound => NoDoubleClaim
  <2> SUFFICES ASSUME BothSound PROVE NoDoubleClaim
    OBVIOUS
  <2>1. {rec.req : rec \in {r \in ToSet(audit) : r.phase = "result" /\ r.ok}} \subseteq removed
    BY DEF BothSound, Sound, Successes, SuccessIsReal
  <2>2. ClaimsOf(results, run) \subseteq removed
    BY DEF BothSound, Sound, Successes, SuccessIsReal, ClaimsOf
  <2>3. ClaimsOf(otherResults, otherRun) \subseteq removed
    BY DEF BothSound, OtherProofs!Sound, OtherProofs!Successes, OtherProofs!SuccessIsReal,
       ClaimsOf
  <2>4. \A a, b \in removed : a.mark = b.mark => a = b
    BY DEF BothSound, OneRemoval
  <2> QED
    BY <2>1, <2>2, <2>3, <2>4, Zenon DEF NoDoubleClaim
<1> QED
  BY <1>1, BothAreSound, PTL

LEMMA BothLedgerStep == BothSound /\ [BothNext]_allVars => [Ledger!Next]_<<Durable, removed>>
<1> SUFFICES ASSUME BothSound, [BothNext]_allVars
             PROVE  [Ledger!Next]_<<Durable, removed>>
  OBVIOUS
<1>1. Next => [Ledger!Next]_<<Durable, removed>>
  BY LedgerStep DEF BothSound, Sound
<1>2. OtherProofs!Next => [Ledger!Next]_<<Durable, removed>>
  <2>1. OtherProofs!Next =>
          [OtherProofs!Ledger!Next]_<<OtherProofs!Durable, removed>>
    BY OtherAssumptions, OtherProofs!LedgerStep DEF BothSound, OtherProofs!Sound
  <2> QED
    BY <2>1 DEF OtherProofs!Durable, Durable, OtherProofs!Ledger!Next, Ledger!Next,
       OtherProofs!Ledger!Persist, Ledger!Persist, OtherProofs!Ledger!Remove, Ledger!Remove,
       OtherProofs!Ledger!Announced, Ledger!Announced, OtherProofs!Ledger!Reported,
       Ledger!Reported
<1>3. UNCHANGED allVars => UNCHANGED <<Durable, removed>>
  BY DEF allVars, vars, logVars, daemonVars, Durable
<1> QED
  BY <1>1, <1>2, <1>3, BothSteps DEF Moves, MineAlone, TheirsAlone, BothTogether

\* Two processes that share the log and the daemon keep the promise of AuditedRemoval
\* together.
THEOREM ProcessesKeepLedger == BothSpec => KeepsLedger
<1>1. BothInit => Ledger!Init
  BY DEF BothInit, Init, Ledger!Init, Durable
<1> QED
  BY <1>1, BothAreSound, BothLedgerStep, PTL DEF BothSpec, KeepsLedger, Ledger!Spec
=============================================================================
