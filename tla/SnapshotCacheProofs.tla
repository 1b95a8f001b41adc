------------------------ MODULE SnapshotCacheProofs -------------------------
(***************************************************************************)
(* What the shared snapshot cache guarantees, for any number of processes  *)
(* and daemons, any TTL and any length of time.                            *)
(***************************************************************************)
EXTENDS SnapshotCache, TLAPS

States == {"idle", "open", "ping", "load", "scan", "read", "logs", "reopen", "save",
           "purge_open", "purge"}
Using == {"ping", "load", "save", "purge"}

\* A process moves from one place to the next, and the lock with it.
Moved(p, next) ==
  /\ pc' = [pc EXCEPT ![p] = next]
  /\ \/ next \in Using /\ lock \in {Unlocked, p} /\ lock' = p
     \/ next \notin Using /\ lock' = lock
     \/ next \notin Using /\ lock \in {Unlocked, p} /\ lock' = Unlocked

LEMMA LockStep ==
  ASSUME TypeOK, NEW p \in Procs, NEW next \in States, Moved(p, next)
  PROVE  /\ pc' \in [Procs -> States] /\ lock' \in {Unlocked} \cup Procs
         /\ \A q \in Procs : pc'[q] \in Using => lock' = q
<1>1. pc \in [Procs -> States] /\ \A q \in Procs : pc[q] \in Using => lock = q
  BY DEF TypeOK, States, Using
<1>2. pc'[p] = next /\ \A q \in Procs \ {p} : pc'[q] = pc[q]
  BY <1>1 DEF Moved
<1> QED
  BY <1>1, <1>2, UnlockedAssumption DEF TypeOK, Moved

LEMMA TypeStep == TypeOK /\ [Next]_vars => TypeOK'
<1> SUFFICES ASSUME TypeOK, [Next]_vars PROVE TypeOK'
  OBVIOUS
<1> DEFINE Entries == {NoSnapshot} \cup Snapshots
<1>0. /\ now \in 0..MaxNow /\ lock \in {Unlocked} \cup Procs
      /\ db \in [Daemons -> Entries] /\ answer \in [Procs -> Entries]
      /\ host \in [Procs -> Daemons] /\ noCache \in [Procs -> BOOLEAN]
      /\ start \in [Procs -> 0..MaxNow] /\ served \in [Procs -> 0..MaxNow]
      /\ pc \in [Procs -> States]
      /\ \A p \in Procs : pc[p] \in Using => lock = p
      /\ 0 \in 0..MaxNow /\ NoSnapshot \in Entries
  BY CacheAssumption DEF TypeOK, States, Using
<1>1. ASSUME NEW p \in Procs, NEW next \in States, Moved(p, next),
             now' = now, host' = host,
             db' \in [Daemons -> Entries], answer' \in [Procs -> Entries],
             noCache' \in [Procs -> BOOLEAN], start' \in [Procs -> 0..MaxNow],
             served' \in [Procs -> 0..MaxNow]
      PROVE  TypeOK'
  <2>1. /\ pc' \in [Procs -> States] /\ lock' \in {Unlocked} \cup Procs
        /\ \A q \in Procs : pc'[q] \in Using => lock' = q
    BY <1>1, LockStep
  <2> QED
    BY <1>0, <1>1, <2>1 DEF TypeOK, States, Using, Snapshots
<1>2. CASE Tick
  <2>1. now' \in 0..MaxNow
    BY <1>0, <1>2, CacheAssumption DEF Tick
  <2> QED
    BY <1>0, <1>2, <2>1 DEF Tick, TypeOK, job, States, Using, Snapshots
<1>3. ASSUME NEW p \in Procs, NEW fresh \in BOOLEAN, LoadOrScan(p, fresh) PROVE TypeOK'
  <2>1. Moved(p, "scan") \/ Moved(p, "open")
    BY <1>0, <1>3 DEF LoadOrScan, At, Moved, Using
  <2> QED
    BY <1>0, <1>1, <1>3, <2>1 DEF States, LoadOrScan, Serve
<1>4. ASSUME NEW p \in Procs, PurgeCache(p) PROVE TypeOK'
  <2>1. Moved(p, "purge_open")
    BY <1>0, <1>4 DEF PurgeCache, At, Moved, Using
  <2> QED
    BY <1>0, <1>1, <1>4, <2>1 DEF States, PurgeCache, Serve, job
<1>5. ASSUME NEW p \in Procs, Open(p) \/ OpenFails(p) \/ Ping(p) \/ PingFails(p) \/ Miss(p)
      PROVE  TypeOK'
  <2>1. UNCHANGED <<now, db, host, noCache, start, answer, served>>
    BY <1>5 DEF Open, OpenFails, Ping, PingFails, Miss, job
  <2>2. \/ Moved(p, "ping") \/ Moved(p, "save") \/ Moved(p, "purge") \/ Moved(p, "idle")
        \/ Moved(p, "load") \/ Moved(p, "scan")
    BY <1>0, <1>5 DEF Open, OpenFails, Ping, PingFails, Miss, At, Moved, Using
  <2> QED
    BY <1>0, <1>1, <2>1, <2>2 DEF States
<1>6. ASSUME NEW p \in Procs, Hit(p) PROVE TypeOK'
  <2>1. Moved(p, "idle")
    BY <1>0, <1>6 DEF Hit, At, Moved, Using
  <2> QED
    BY <1>0, <1>1, <1>6, <2>1 DEF States, Hit, Serve, job
<1>7. ASSUME NEW p \in Procs, StartScan(p) PROVE TypeOK'
  <2>1. Moved(p, "read")
    BY <1>0, <1>7 DEF StartScan, At, Moved, Using
  <2> QED
    BY <1>0, <1>1, <1>7, <2>1 DEF States, StartScan
<1>8. ASSUME NEW p \in Procs, Save(p) \/ Purge(p) PROVE TypeOK'
  <2>1. Moved(p, "idle")
    BY <1>0, <1>8 DEF Save, Purge, At, Moved, Using
  <2>2. db' \in [Daemons -> Entries]
    BY <1>0, <1>8 DEF Save, Purge
  <2> QED
    BY <1>0, <1>1, <1>8, <2>1, <2>2 DEF States, Save, Purge, job
<1>9. ASSUME NEW p \in Procs, ReadInventory(p) PROVE TypeOK'
  <2>1. Moved(p, "logs")
    BY <1>0, <1>9 DEF ReadInventory, At, Moved, Using
  <2>2. [daemon |-> host[p], captured |-> start[p], readAt |-> now] \in Snapshots
    BY <1>0 DEF Snapshots
  <2> HIDE DEF Entries
  <2>3. answer' \in [Procs -> Entries]
    BY <1>0, <1>9, <2>2 DEF ReadInventory, Entries
  <2> QED
    BY <1>0, <1>1, <1>9, <2>1, <2>3 DEF States, ReadInventory, job
<1>10. ASSUME NEW p \in Procs, EndScan(p) \/ ScanFails(p) PROVE TypeOK'
  <2>1. Moved(p, "idle") \/ Moved(p, "reopen")
    BY <1>0, <1>10 DEF EndScan, ScanFails, At, Moved, Using
  <2>2. /\ UNCHANGED <<now, db, host, served>>
        /\ noCache' \in [Procs -> BOOLEAN] /\ start' \in [Procs -> 0..MaxNow]
    BY <1>0, <1>10 DEF EndScan, ScanFails, ScanOver
  <2> HIDE DEF Entries
  <2>3. answer' \in [Procs -> Entries]
    BY <1>0, <1>10 DEF EndScan, ScanFails
  <2>4. db' \in [Daemons -> Entries] /\ served' \in [Procs -> 0..MaxNow]
    BY <1>0, <2>2
  <2> QED
    BY <1>1, <2>1, <2>2, <2>3, <2>4 DEF States
<1>11. ASSUME NEW p \in Procs, Crash(p) PROVE TypeOK'
  <2>1. Moved(p, "idle")
    BY <1>11 DEF Crash, Moved, Using
  <2> QED
    BY <1>0, <1>1, <1>11, <2>1 DEF States, Crash, ScanOver, Serve
<1>12. CASE UNCHANGED vars
  BY <1>0, <1>12 DEF vars, TypeOK, job, Snapshots
<1> QED
  BY <1>2, <1>3, <1>4, <1>5, <1>6, <1>7, <1>8, <1>9, <1>10, <1>11, <1>12
     DEF Next, Works, Asks

\* The database is locked whenever a process uses it: for any processes, daemons
\* and times.
THEOREM CacheTypeOK == Spec => []TypeOK
<1>1. Init => TypeOK
  BY CacheAssumption DEF Init, TypeOK, NoSnapshot
<1> QED
  BY <1>1, TypeStep, PTL DEF Spec

\* However many processes share the file, none of them scans, waits for the lock
\* or ends with the database open.
THEOREM CacheHoldsNoLock == Spec => []NoLockAcrossScan
<1>1. Init => NoLockAcrossScan
  BY DEF Init, NoLockAcrossScan
<1>2. TypeOK /\ NoLockAcrossScan /\ [Next]_vars => NoLockAcrossScan'
  <2> SUFFICES ASSUME TypeOK, NoLockAcrossScan, [Next]_vars PROVE NoLockAcrossScan'
    OBVIOUS
  <2>0. /\ pc \in [Procs -> States] /\ lock \in {Unlocked} \cup Procs
        /\ \A p \in Procs : pc[p] \in Using => lock = p
        /\ lock # Unlocked => pc[lock] \in Using
    BY DEF TypeOK, NoLockAcrossScan, States, Using
  \* Who leaves the database gives up the lock; who does not have it stays without.
  <2>1. ASSUME NEW p \in Procs, NEW next, pc' = [pc EXCEPT ![p] = next],
               \/ next \in Using /\ lock' = p
               \/ lock' = Unlocked
               \/ pc[p] \notin Using /\ lock' = lock
        PROVE  NoLockAcrossScan'
    BY <2>0, <2>1 DEF NoLockAcrossScan, Using
  <2>2. ASSUME NEW p \in Procs, \/ \E fresh \in BOOLEAN : LoadOrScan(p, fresh)
                                \/ PurgeCache(p) \/ Works(p)
        PROVE  NoLockAcrossScan'
    BY <2>0, <2>1, <2>2 DEF LoadOrScan, PurgeCache, Works, Open, OpenFails, Hit, Miss,
       StartScan, Save, Purge, At, Using
  <2>3. ASSUME NEW p \in Procs, Asks(p) \/ Crash(p) PROVE NoLockAcrossScan'
    BY <2>0, <2>1, <2>3 DEF Asks, Crash, Ping, PingFails, ReadInventory, EndScan,
       ScanFails, At, Using
  <2>4. CASE Tick \/ UNCHANGED vars
    BY <2>4 DEF Tick, vars, NoLockAcrossScan
  <2> QED
    BY <2>2, <2>3, <2>4 DEF Next
<1> QED
  BY <1>1, <1>2, CacheTypeOK, PTL DEF Spec

\* The strengthening for AnswersAreFresh: a snapshot, in the database or in the
\* hands of a process, is of the daemon it is kept for, and its stamp is no later
\* than the moment it was read, which is past.
Genuine(snap, d) ==
  snap # NoSnapshot =>
    snap.daemon = d /\ snap.captured <= snap.readAt /\ snap.readAt <= now

Timely ==
  /\ AnswersAreFresh
  /\ \A d \in Daemons : Genuine(db[d], d)
  /\ \A p \in Procs : Genuine(answer[p], host[p]) /\ start[p] <= now /\ served[p] <= now

LEMMA TimelyStep == TypeOK /\ Timely /\ [Next]_vars => Timely'
<1> SUFFICES ASSUME TypeOK, Timely, [Next]_vars PROVE Timely'
  OBVIOUS
<1>0. /\ now \in Int /\ TTL \in Int /\ TTL > 0 /\ MaxNow \in Int /\ 0 <= now
      /\ db \in [Daemons -> {NoSnapshot} \cup Snapshots]
      /\ answer \in [Procs -> {NoSnapshot} \cup Snapshots]
      /\ host \in [Procs -> Daemons] /\ start \in [Procs -> 0..MaxNow]
      /\ served \in [Procs -> 0..MaxNow]
      /\ \A snap \in Snapshots : snap.captured \in Int /\ snap.readAt \in Int
  BY CacheAssumption DEF TypeOK, Snapshots
<1>1. CASE Tick
  <2>1. now' = now + 1 /\ UNCHANGED <<db, host, start, answer, served>>
    BY <1>1 DEF Tick, job
  <2>2. ASSUME NEW snap \in {NoSnapshot} \cup Snapshots, NEW d, Genuine(snap, d)
        PROVE  Genuine(snap, d)'
    BY <1>0, <2>1, <2>2 DEF Genuine
  <2>3. \A p \in Procs : start[p] <= now' /\ served[p] <= now'
    BY <1>0, <2>1 DEF Timely
  <2>4. AnswersAreFresh'
    BY <2>1 DEF Timely, AnswersAreFresh
  <2> QED
    BY <1>0, <2>1, <2>2, <2>3, <2>4 DEF Timely, Genuine
\* Every other step leaves the clock, and at most one process gets a snapshot.
<1>2. ASSUME now' = now, host' = host,
             \A d \in Daemons : Genuine(db'[d], d),
             \A q \in Procs : \/ answer'[q] = answer[q] /\ served'[q] = served[q]
                              \/ /\ answer'[q] = NoSnapshot
                                 /\ served'[q] \in {served[q], now}
                              \/ /\ Genuine(answer'[q], host[q])
                                 /\ served'[q] \in {served[q], now}
                                 /\ answer'[q].readAt >= served'[q] - TTL,
             \A q \in Procs : start'[q] <= now
      PROVE  Timely'
  <2>1. \A q \in Procs : Genuine(answer'[q], host[q])
    BY <1>2 DEF Timely, Genuine
  <2>2. AnswersAreFresh'
    BY <1>2 DEF Timely, AnswersAreFresh, Genuine
  <2>3. \A q \in Procs : served'[q] <= now
    BY <1>0, <1>2 DEF Timely
  <2> QED
    BY <1>2, <2>1, <2>2, <2>3 DEF Timely, Genuine
<1>3. ASSUME UNCHANGED <<now, db, host, start, answer, served>> PROVE Timely'
  BY <1>3 DEF Timely, AnswersAreFresh, Genuine
<1>4. ASSUME NEW p \in Procs, NEW fresh \in BOOLEAN, LoadOrScan(p, fresh) \/ PurgeCache(p)
      PROVE  Timely'
  BY <1>0, <1>2, <1>4 DEF LoadOrScan, PurgeCache, Serve, Timely, job
<1>5. ASSUME NEW p \in Procs, Open(p) \/ OpenFails(p) \/ Ping(p) \/ PingFails(p) \/ Miss(p)
      PROVE  Timely'
  BY <1>3, <1>5 DEF Open, OpenFails, Ping, PingFails, Miss, job
<1>6. ASSUME NEW p \in Procs, Hit(p) PROVE Timely'
  <2>1. UNCHANGED <<now, db, host, start>> /\ Fresh(db[host[p]]) /\ host[p] \in Daemons
    BY <1>0, <1>6 DEF Hit, job
  <2>2. Genuine(db[host[p]], host[p]) /\ db[host[p]] \in Snapshots
    BY <1>0, <2>1 DEF Timely, Fresh
  <2>3. db[host[p]].readAt >= now - TTL
    BY <1>0, <2>1, <2>2 DEF Fresh, Genuine
  <2>4. /\ \A q \in Procs \ {p} : answer'[q] = answer[q] /\ served'[q] = served[q]
        /\ answer'[p] = db[host[p]] /\ served'[p] = now
    BY <1>0, <1>6 DEF Hit, Serve
  <2> QED
    BY <1>2, <2>1, <2>2, <2>3, <2>4 DEF Timely
<1>7. ASSUME NEW p \in Procs, StartScan(p) PROVE Timely'
  BY <1>0, <1>2, <1>7 DEF StartScan, Timely
<1>8. ASSUME NEW p \in Procs, Save(p) PROVE Timely'
  <2>1. UNCHANGED <<now, host, start, answer, served>>
    BY <1>8 DEF Save, job
  <2>2. \A d \in Daemons : db'[d] = db[d] \/ (d = host[p] /\ db'[d] = answer[p])
    BY <1>0, <1>8 DEF Save
  <2> QED
    BY <1>2, <2>1, <2>2 DEF Timely
<1>9. ASSUME NEW p \in Procs, Purge(p) PROVE Timely'
  <2>1. UNCHANGED <<now, host, start, answer, served>>
    BY <1>9 DEF Purge, job
  <2>2. \A d \in Daemons : db'[d] = db[d] \/ db'[d] = NoSnapshot
    BY <1>9 DEF Purge
  <2>3. \A d \in Daemons : Genuine(db'[d], d)
    BY <2>2 DEF Timely, Genuine
  <2> QED
    BY <1>2, <2>1, <2>3 DEF Timely
<1>10. ASSUME NEW p \in Procs, ReadInventory(p) PROVE Timely'
  <2> DEFINE read == [daemon |-> host[p], captured |-> start[p], readAt |-> now]
  <2>1. UNCHANGED <<now, db, host, start, served>>
    BY <1>10 DEF ReadInventory, job
  <2>2. Genuine(read, host[p]) /\ read.readAt >= served[p] - TTL
    BY <1>0 DEF Genuine, Timely
  <2>3. (\A q \in Procs \ {p} : answer'[q] = answer[q]) /\ answer'[p] = read
    BY <1>0, <1>10 DEF ReadInventory
  <2> HIDE DEF read
  <2> QED
    BY <1>2, <2>1, <2>2, <2>3 DEF Timely
<1>11. ASSUME NEW p \in Procs, EndScan(p) \/ ScanFails(p) PROVE Timely'
  <2>1. /\ UNCHANGED <<now, db, host, served>> /\ start' = [start EXCEPT ![p] = 0]
        /\ \A q \in Procs : answer'[q] = answer[q] \/ answer'[q] = NoSnapshot
    BY <1>0, <1>11 DEF EndScan, ScanFails, ScanOver
  <2>2. \A q \in Procs : start'[q] <= now
    BY <1>0, <2>1 DEF Timely
  <2> QED
    BY <1>2, <2>1, <2>2 DEF Timely
<1>12. ASSUME NEW p \in Procs, Crash(p) PROVE Timely'
  BY <1>0, <1>2, <1>12 DEF Crash, ScanOver, Serve, Timely
<1>13. CASE UNCHANGED vars
  BY <1>3, <1>13 DEF vars, job
<1> QED
  BY <1>1, <1>4, <1>5, <1>6, <1>7, <1>8, <1>9, <1>10, <1>11, <1>12, <1>13
     DEF Next, Works, Asks

\* However long the scans, waits and saves behind its entries take, the cache hands
\* out no inventory read more than TTL before, and none of another daemon.
THEOREM CacheAnswersFresh == Spec => []AnswersAreFresh
<1>1. Init => Timely
  <2> SUFFICES ASSUME Init PROVE Timely
    OBVIOUS
  <2>1. /\ \A d \in Daemons : db[d] = NoSnapshot
        /\ \A p \in Procs : answer[p] = NoSnapshot /\ start[p] <= now /\ served[p] <= now
    BY DEF Init
  <2> QED
    BY <2>1 DEF Timely, Genuine, AnswersAreFresh
<1>2. Timely => AnswersAreFresh
  BY DEF Timely
<1> QED
  BY <1>1, <1>2, TimelyStep, CacheTypeOK, PTL DEF Spec
=============================================================================
