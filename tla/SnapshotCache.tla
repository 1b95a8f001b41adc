--------------------------- MODULE SnapshotCache ---------------------------
(***************************************************************************)
(* The snapshot cache that dodu processes share: loadOrScan of scan,       *)
(* export and the interactive program, with or without --no-cache, and     *)
(* "dodu cache purge", on one bbolt file.  An open database is locked      *)
(* against other processes; a transaction happens as a whole or not at     *)
(* all, and a process that dies leaves the lock.  A process may wait for   *)
(* the lock, for the daemon or for the processor at any step.              *)
(*                                                                         *)
(* A snapshot is the daemon it is of, its CapturedAt and, as history, the  *)
(* moment its inventory was read.  The wall clock, which every comparison  *)
(* uses, is taken not to go backwards.                                     *)
(***************************************************************************)
EXTENDS Integers

CONSTANTS Procs, Daemons,
          TTL,   \* of DefaultPolicy
          MaxNow \* bound on the clock

ASSUME CacheAssumption == TTL \in Nat \ {0} /\ MaxNow \in Nat

VARIABLES
  now,
  db,     \* for each daemon (the key is a hash of its identity), its entry
  lock,   \* the process that has the database open, or Unlocked
  pc,     \* of a process: "idle", "open", "ping", "load", "scan", "read", "logs",
          \* "reopen", "save", "purge_open" or "purge"
  host,   \* the daemon it talks to; successive commands of one user's shell keep it
  noCache, start, \* of a scan under way: whether it is saved, and when it began
  answer, \* the snapshot it scans or goes on with, or NoSnapshot
  served  \* history: when the cache gave it, or when its command began

job == <<host, noCache, start>>
vars == <<now, db, lock, pc, job, answer, served>>

NoSnapshot == [daemon |-> "none", captured |-> 0, readAt |-> 0]
Unlocked == "none"

ASSUME UnlockedAssumption == Unlocked \notin Procs

Init ==
  /\ now = 0 /\ db = [d \in Daemons |-> NoSnapshot] /\ lock = Unlocked
  /\ pc = [p \in Procs |-> "idle"]
  /\ host \in [Procs -> Daemons] /\ noCache = [p \in Procs |-> FALSE]
  /\ start = [p \in Procs |-> 0]
  /\ answer = [p \in Procs |-> NoSnapshot] /\ served = [p \in Procs |-> 0]

At(p, here, next) == pc[p] = here /\ pc' = [pc EXCEPT ![p] = next]

Serve(p, snap) ==
  /\ answer' = [answer EXCEPT ![p] = snap]
  /\ served' = [served EXCEPT ![p] = now]

(***************************************************************************)
(* The commands.                                                           *)
(***************************************************************************)
LoadOrScan(p, fresh) ==
  /\ At(p, "idle", IF fresh THEN "scan" ELSE "open")
  /\ noCache' = [noCache EXCEPT ![p] = fresh]
  /\ Serve(p, NoSnapshot)
  /\ UNCHANGED <<now, db, lock, host, start>>

\* dodu cache purge; one that fails does what dodu cache info does.
PurgeCache(p) ==
  /\ At(p, "idle", "purge_open")
  /\ Serve(p, NoSnapshot)
  /\ UNCHANGED <<now, db, lock, job>>

\* OpenBolt gets the lock ...
Open(p) ==
  /\ lock = Unlocked
  /\ \/ At(p, "open", "ping") \/ At(p, "reopen", "save") \/ At(p, "purge_open", "purge")
  /\ lock' = p
  /\ UNCHANGED <<now, db, job, answer, served>>

\* Mutants: nobody gives up waiting for the lock; the error of OpenBolt is ignored.
WaitForLock(p) ==
  /\ lock = Unlocked
  /\ \/ At(p, "open", "scan") \/ At(p, "reopen", "idle") \/ At(p, "purge_open", "idle")
  /\ UNCHANGED <<now, db, lock, job, answer, served>>
OpenAnyway(p) ==
  /\ \/ At(p, "open", "ping") \/ At(p, "reopen", "idle") \/ At(p, "purge_open", "idle")
  /\ UNCHANGED <<now, db, lock, job, answer, served>>

\* ... or fails, because another process held on to it for two seconds or the file
\* is unusable: then the cache is done without.
OpenFails(p) ==
  /\ \/ At(p, "open", "scan") \/ At(p, "reopen", "idle") \/ At(p, "purge_open", "idle")
  /\ UNCHANGED <<now, db, lock, job, answer, served>>

\* cachedSnapshot has the database open while it asks the daemon who it is.
Ping(p) ==
  /\ At(p, "ping", "load")
  /\ UNCHANGED <<now, db, lock, job, answer, served>>

PingFails(p) ==
  /\ At(p, "ping", "scan")
  /\ lock' = Unlocked
  /\ UNCHANGED <<now, db, job, answer, served>>

Fresh(snap) == snap # NoSnapshot /\ now - snap.captured <= TTL

Hit(p) ==
  /\ Fresh(db[host[p]])
  /\ At(p, "load", "idle")
  /\ lock' = Unlocked
  /\ Serve(p, db[host[p]])
  /\ UNCHANGED <<now, db, job>>

\* Mutant: a miss leaves the database open during the scan.
MissKeepsOpen(p) ==
  /\ At(p, "load", "scan")
  /\ UNCHANGED <<now, db, lock, job, answer, served>>

\* No entry, an old one, or one of another format or that cannot be decoded.
Miss(p) ==
  /\ At(p, "load", "scan")
  /\ lock' = Unlocked
  /\ UNCHANGED <<now, db, job, answer, served>>

\* Scan stamps the snapshot before it asks the daemon for anything.
StartScan(p) ==
  /\ At(p, "scan", "read")
  /\ start' = [start EXCEPT ![p] = now]
  /\ UNCHANGED <<now, db, lock, host, noCache, answer, served>>

\* DiskUsage, or the last of the lists, answers ...
ReadInventory(p) ==
  /\ At(p, "read", "logs")
  /\ answer' = [answer EXCEPT ![p] = [daemon |-> host[p], captured |-> start[p], readAt |-> now]]
  /\ UNCHANGED <<now, db, lock, job, served>>

ScanOver(p) ==
  /\ start' = [start EXCEPT ![p] = 0] /\ noCache' = [noCache EXCEPT ![p] = FALSE]
  /\ UNCHANGED <<now, db, host>>

\* ... and after the sizes of the log files, which take their time, Scan returns.
EndScan(p) ==
  /\ At(p, "logs", IF noCache[p] THEN "idle" ELSE "reopen")
  /\ ScanOver(p) /\ UNCHANGED <<lock, answer, served>>

ScanFails(p) ==
  /\ At(p, "read", "idle") \/ At(p, "logs", "idle")
  /\ answer' = [answer EXCEPT ![p] = NoSnapshot]
  /\ ScanOver(p) /\ UNCHANGED <<lock, served>>

\* Mutant: the entry's age counts from when it is saved.
SaveRestamped(p) ==
  /\ At(p, "save", "idle")
  /\ lock' = Unlocked
  /\ db' = [db EXCEPT ![host[p]] = [answer[p] EXCEPT !.captured = now]]
  /\ UNCHANGED <<now, job, answer, served>>

\* Save replaces whatever entry there is; when it fails, nobody is told.
Save(p) ==
  /\ At(p, "save", "idle")
  /\ lock' = Unlocked
  /\ db' \in {db, [db EXCEPT ![host[p]] = answer[p]]}
  /\ UNCHANGED <<now, job, answer, served>>

Purge(p) ==
  /\ At(p, "purge", "idle")
  /\ lock' = Unlocked
  /\ db' \in {db, [d \in Daemons |-> NoSnapshot]}
  /\ UNCHANGED <<now, job, answer, served>>

Crash(p) ==
  /\ pc[p] # "idle"
  /\ pc' = [pc EXCEPT ![p] = "idle"]
  /\ lock' = IF lock = p THEN Unlocked ELSE lock
  /\ Serve(p, NoSnapshot)
  /\ ScanOver(p)

Tick ==
  /\ now < MaxNow
  /\ now' = now + 1
  /\ UNCHANGED <<db, lock, pc, job, answer, served>>

\* What a process does by itself, and what it needs the daemon for.
Works(p) == Open(p) \/ OpenFails(p) \/ Hit(p) \/ Miss(p) \/ StartScan(p) \/ Save(p) \/ Purge(p)
Asks(p) == Ping(p) \/ PingFails(p) \/ ReadInventory(p) \/ EndScan(p) \/ ScanFails(p)

Next ==
  \/ Tick
  \/ \E p \in Procs :
       \/ \E fresh \in BOOLEAN : LoadOrScan(p, fresh)
       \/ PurgeCache(p) \/ Works(p) \/ Asks(p) \/ Crash(p)

\* Processes run on; the daemons need not answer, and nobody need issue a command.
Spec == Init /\ [][Next]_vars /\ \A p \in Procs : WF_vars(Works(p))

-----------------------------------------------------------------------------
(* Properties. *)

Snapshots == [daemon : Daemons, captured : 0..MaxNow, readAt : 0..MaxNow]

\* The variables keep their types, and whoever uses the database has it locked.
TypeOK ==
  /\ now \in 0..MaxNow
  /\ lock \in {Unlocked} \cup Procs
  /\ db \in [Daemons -> {NoSnapshot} \cup Snapshots]
  /\ answer \in [Procs -> {NoSnapshot} \cup Snapshots]
  /\ host \in [Procs -> Daemons] /\ noCache \in [Procs -> BOOLEAN]
  /\ start \in [Procs -> 0..MaxNow] /\ served \in [Procs -> 0..MaxNow]
  /\ pc \in [Procs -> {"idle", "open", "ping", "load", "scan", "read", "logs",
                       "reopen", "save", "purge_open", "purge"}]
  /\ \A p \in Procs : pc[p] \in {"ping", "load", "save", "purge"} => lock = p

\* README.md, "the 60-second display cache": however long the scan and the save of
\* an entry took, and whichever processes saved in whatever order, the cache hands
\* out no inventory read more than TTL before, and none of another daemon.  What a
\* command scans itself is only compared with the time it began: how old that gets
\* during the rest of its own scan and its save is not bounded.
AnswersAreFresh ==
  \A p \in Procs :
    answer[p] # NoSnapshot => /\ answer[p].daemon = host[p]
                              /\ answer[p].readAt >= served[p] - TTL

\* common.go: "cachedSnapshot releases the database before a cache miss starts a
\* scan": no process scans, waits for the lock, or ends with the database open.  (It
\* does ask the daemon for its name with the database open: AnsweredCommandsEnd.)
NoLockAcrossScan ==
  lock # Unlocked => pc[lock] \in {"ping", "load", "save", "purge"}

\* A command whose own calls to the daemon end gets done, even while another
\* process keeps the database open and waits for a daemon that never answers.
AnsweredCommandsEnd ==
  \A p \in Procs : WF_vars(Asks(p)) => (pc[p] # "idle" ~> pc[p] = "idle")
=============================================================================
