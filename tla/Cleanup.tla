------------------------------ MODULE Cleanup ------------------------------
(***************************************************************************)
(* A cleanup from the scan to the last deletion, against a daemon that     *)
(* others keep using: "dodu prune --apply" and the interactive planner     *)
(* both scan afresh, refuse an incomplete snapshot, build a plan from it,  *)
(* wait for a confirmation and execute that plan.                          *)
(*                                                                         *)
(* The daemon has one image, one container name created from it and one    *)
(* volume it mounts; world says what exists.                               *)
(***************************************************************************)
EXTENDS PlanRules, FiniteSets

CONSTANTS Items, Plans, Freed, MaxRuns, \* as in Executor
          MarkSets, \* what may be marked of AllMarks
          MaxScans  \* bound on the number of scans

VARIABLES pc, run, todo, pos, ctxDone, results, actual, outcome,
          audit, synced, flight, reply, removed

Exec == INSTANCE Executor

VARIABLES
  world,    \* the daemon: [image, volume : BOOLEAN, container : state,
            \* "unborn" before it is created and "gone" for good, IDs being unique]
  phase,    \* of the program: "idle", "usage", "fallback", "preview" or "execute"
  snap,     \* the snapshot being read
  unread,   \* kinds the fallback collectors have still to list
  errors,   \* whether snap.Errors is not empty
  marks,    \* what the user marked, or the defaults of prune
  planned,  \* items of the plan that is shown
  scans,
  moments,  \* history: the worlds since the scan began
  basis,    \* history: for each run, the moments of the scan its plan was made of
  kept      \* history: what the last confirmed plan listed that exists ever since

execVars == <<pc, run, todo, pos, ctxDone, results, actual, outcome,
              audit, synced, flight, reply, removed>>
progVars == <<phase, snap, unread, errors, marks, planned, scans>>
runHistory == <<basis, kept>>
vars == <<execVars, progVars, world, moments, runHistory>>

\* The objects there may be, and all that can be marked: defaultMarks and the keys
\* of the planner choose among them, and Build drops what may not go.
AllMarks == {Mark("image", "i1"), Mark("container", "c1"), Mark("volume", "v1")}

On(id, exists, record) == [x \in IF exists THEN {id} ELSE {} |-> record]

\* The container exists.
Alive(w) == w.container \in {"running", "exited"}

Exists(w, mark) ==
  \/ mark.kind = "image" /\ w.image
  \/ mark.kind = "volume" /\ w.volume
  \/ mark.kind = "container" /\ Alive(w)

\* What each list call of the daemon says of the world.
ImageList(w) ==
  On("i1", w.image, [size |-> 5, shared |-> 0, tags |-> "placeholder", containers |-> -1])
ContainerList(w) ==
  On("c1", Alive(w), [state |-> w.container, image |-> "i1",
                      mounts |-> {"v1"}, rw |-> 1, log |-> 0])
VolumeList(w, refs) == On("v1", w.volume, [refs |-> refs, usage |-> -1])

Nothing == [x \in {} |-> 0]
Empty == [image |-> Nothing, container |-> Nothing, volume |-> Nothing, build_cache |-> Nothing]

\* DiskUsage answers for all kinds at once, reference counts included.
Inventory(w) ==
  [Empty EXCEPT !.image = ImageList(w), !.container = ContainerList(w),
                !.volume = VolumeList(w, IF Alive(w) THEN 1 ELSE 0)]

Worlds == [image : BOOLEAN, volume : BOOLEAN,
           container : {"unborn", "running", "exited", "gone"}]

\* Plans has every plan that Build may make of an inventory here.
ASSUME CleanupPlansAssumption ==
  \A w \in Worlds, m \in MarkSets : PlansOf(Inventory(w), m) \subseteq Plans

\* What Executor assumes of its constants.
ASSUME CleanupExecutesAssumption ==
  /\ \A i \in Items : i.est \in Nat
  /\ Plans \subseteq Seq(Items)
  /\ \A p \in Plans : \A a, b \in DOMAIN p : p[a].mark = p[b].mark => a = b
  /\ MaxRuns \in Nat /\ Freed \subseteq Nat

Init ==
  /\ Exec!Init
  /\ world \in {w \in Worlds : Alive(w) => w.image /\ w.volume}
  /\ phase = "idle" /\ snap = Empty /\ unread = {} /\ errors = FALSE
  /\ marks = {} /\ planned = <<>> /\ moments = {} /\ scans = 0
  /\ basis = <<>> /\ kept = {}

(***************************************************************************)
(* Other users of the daemon.                                              *)
(***************************************************************************)
\* The world changes, perhaps under a scan.
Turns(w) ==
  /\ world' = w
  /\ moments' = IF phase \in {"usage", "fallback"} THEN moments \cup {w} ELSE moments
  /\ kept' = {m \in kept : Exists(w, m)}
  /\ UNCHANGED basis

Becomes(w) == Turns(w) /\ UNCHANGED <<execVars, progVars>>

\* Creating a container pulls its image and makes the volume it names.
OthersCreate ==
  /\ world.container = "unborn"
  /\ Becomes([image |-> TRUE, volume |-> TRUE, container |-> "exited"])
OthersStart == world.container = "exited" /\ Becomes([world EXCEPT !.container = "running"])
OthersStop == world.container = "running" /\ Becomes([world EXCEPT !.container = "exited"])
OthersRemove == world.container = "exited" /\ Becomes([world EXCEPT !.container = "gone"])

(***************************************************************************)
(* The program.                                                            *)
(***************************************************************************)
\* prune with noCache, or the planner's x key: no cached snapshot is used.
BeginScan ==
  /\ phase = "idle"
  /\ scans < MaxScans
  /\ phase' = "usage"
  /\ scans' = scans + 1
  /\ marks' \in MarkSets
  /\ moments' = {world}
  /\ UNCHANGED <<world, snap, errors, unread, planned, execVars, runHistory>>

\* No scan and no plan is about.
Idle ==
  /\ phase' = "idle" /\ planned' = <<>> /\ moments' = {}
  /\ snap' = Empty /\ unread' = {} /\ errors' = FALSE /\ marks' = {}
  /\ UNCHANGED <<world, scans, runHistory>>

Preview(snapshot) ==
  /\ phase' = "preview" /\ planned' \in PlansOf(snapshot, marks)
  /\ snap' = Empty /\ unread' = {} /\ errors' = FALSE /\ marks' = {}
  /\ UNCHANGED <<world, moments, scans, runHistory>>

JudgeLeniently(snapshot, incomplete) == Preview(snapshot) /\ UNCHANGED execVars

\* What becomes of a snapshot: an incomplete one is refused, and a complete one
\* makes the plan that is shown.
Judge(snapshot, incomplete) ==
  /\ IF incomplete THEN Idle ELSE Preview(snapshot)
  /\ UNCHANGED execVars

\* DiskUsage succeeds; afterwards the size of a log file may be unreadable.
ReadUsage ==
  /\ phase = "usage"
  /\ \E logError \in BOOLEAN : Judge(Inventory(world), logError)

\* The kinds this daemon has objects of.
Listed == {"image", "container", "volume"}

\* DiskUsage fails, which is an error of the snapshot: each kind is listed by a
\* call of its own.
UsageFails ==
  /\ phase = "usage"
  /\ phase' = "fallback"
  /\ errors' = TRUE
  /\ unread' = Listed
  /\ UNCHANGED <<world, snap, marks, planned, moments, scans, execVars, runHistory>>

Section(kind) ==
  CASE kind = "image" -> ImageList(world)
    [] kind = "container" -> ContainerList(world)
    [] kind = "volume" -> VolumeList(world, -1)

\* A list call answers, or fails and leaves its kind empty.
ReadSection(kind) ==
  /\ phase = "fallback"
  /\ kind \in unread
  /\ snap' \in {[snap EXCEPT ![kind] = Section(kind)], snap}
  /\ unread' = unread \ {kind}
  /\ UNCHANGED <<world, phase, errors, marks, planned, moments, scans, execVars, runHistory>>

EndFallback ==
  /\ phase = "fallback"
  /\ unread = {}
  /\ Judge(snap, errors)

\* The daemon does not answer the ping, or the scan's context is done.
ScanFails ==
  /\ phase \in {"usage", "fallback"}
  /\ Idle
  /\ UNCHANGED execVars

\* The user declines.
Decline ==
  /\ phase = "preview"
  /\ Idle
  /\ UNCHANGED execVars

\* What the run that begins is to be judged by.
Commit(items) ==
  /\ basis' = Append(basis, moments)
  /\ kept' = {m \in {items[k].mark : k \in DOMAIN items} : Exists(world, m)}

\* Mutants: the confirmed items pass through a map, which loses their order; what is
\* executed is planned once more, of the inventory there is now.
ConfirmThroughMap ==
  /\ phase = "preview"
  /\ \E items \in SetToSeqs(ToSet(planned)) : Exec!Start(items)
  /\ Commit(planned)
  /\ phase' = "execute" /\ planned' = <<>> /\ moments' = {}
  /\ UNCHANGED <<world, snap, unread, errors, marks, scans>>
ConfirmReplanned ==
  /\ phase = "preview"
  /\ \E items \in PlansOf(Inventory(world), AllMarks) : Exec!Start(items) /\ Commit(items)
  /\ phase' = "execute" /\ planned' = <<>> /\ moments' = {}
  /\ UNCHANGED <<world, snap, unread, errors, marks, scans>>

\* The user types yes, or said --yes: Execute gets the plan that was shown.
Confirm ==
  /\ phase = "preview"
  /\ Exec!Start(planned) \/ Exec!Refuse(planned)
  /\ Commit(planned)
  /\ phase' = "execute" /\ planned' = <<>> /\ moments' = {}
  /\ UNCHANGED <<world, snap, unread, errors, marks, scans>>

ExecuteOn ==
  /\ Exec!ExecuteStep \/ Exec!Cancel \/ Exec!Crash
  /\ UNCHANGED <<progVars, world, moments, runHistory>>

Done ==
  /\ phase = "execute"
  /\ pc = "returned"
  /\ Idle
  /\ UNCHANGED execVars

(***************************************************************************)
(* The daemon serves requests.                                             *)
(***************************************************************************)
InUse(w, mark) ==
  \/ mark.kind = "container" /\ w.container = "running"
  \/ mark.kind \in {"image", "volume"} /\ Alive(w)

Without(w, mark) ==
  IF mark.kind = "container" THEN [w EXCEPT !.container = "gone"]
  ELSE [w EXCEPT ![mark.kind] = FALSE]

\* The client asks for nothing by force, so the daemon spares what is in use.
ServeRemoval(req) ==
  /\ Exists(world, req.mark)
  /\ ~InUse(world, req.mark)
  /\ Exec!DaemonRemoves(req)
  /\ Turns(Without(world, req.mark))
  /\ UNCHANGED progVars

ServeRefusal(req) ==
  /\ Exec!DaemonRefuses(req)
  /\ UNCHANGED <<progVars, world, moments, runHistory>>

Next ==
  \/ OthersCreate \/ OthersStart \/ OthersStop \/ OthersRemove
  \/ BeginScan \/ ReadUsage \/ UsageFails
  \/ \E k \in Listed : ReadSection(k)
  \/ EndFallback \/ ScanFails \/ Decline \/ Confirm \/ ExecuteOn \/ Done
  \/ \E req \in flight : ServeRemoval(req) \/ ServeRefusal(req)

Spec == Init /\ [][Next]_vars

-----------------------------------------------------------------------------
(* Properties. *)

\* The object exists, and nothing that matters uses it.
Free(w, mark) == Found(Inventory(w), mark) /\ ~Protected(Inventory(w), mark)

\* A plan is never put together from lists of different moments, nor from a
\* snapshot older than its scan: at one instant since the scan began, every
\* planned object was free.
PlanFromOneMoment ==
  phase = "preview" =>
    \E w \in moments : \A k \in DOMAIN planned : Free(w, planned[k].mark)

\* What becomes free only after the user was shown a plan is not swept along: all
\* that a run asks for, and all that goes for it, however late its requests are
\* served and whatever has been scanned and planned since, was free at one instant
\* of the scan behind the plan that was confirmed for that run.
RemovesWhatWasShown ==
  \A r \in DOMAIN basis :
    \E w \in basis[r] : \A req \in flight \cup removed : req.run = r => Free(w, req.mark)

\* An object that others put to use, or that stays for any other reason, is not
\* passed over in silence: what has been there ever since the plan was confirmed is
\* never reported as removed, and while any of it is left Execute does not return
\* without an error.
SurvivorsAreReported ==
  /\ outcome = "ok" => kept = {}
  /\ \A k \in DOMAIN results : results[k].ok => results[k].mark \notin kept

\* The composition drives Execute as Executor describes it, so what is proved of
\* Executor holds of a cleanup.
ImplementsExecutor == Exec!Spec
=============================================================================
