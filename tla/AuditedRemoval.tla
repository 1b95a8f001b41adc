--------------------------- MODULE AuditedRemoval ---------------------------
(***************************************************************************)
(* What Execute and its audit log promise to whoever reads the log after a *)
(* crash.  The ledger is what is certainly on disk.  A request is announced*)
(* on the ledger before the daemon can act on it; it is reported at most   *)
(* once, and as a success only if the object was removed; and nothing is   *)
(* ever struck from the ledger.                                            *)
(***************************************************************************)
VARIABLES ledger, \* set of durable intent and result records
          removed \* requests whose object the daemon removed

Init == ledger = {} /\ removed = {}

Announced(req) == \E rec \in ledger : rec.phase = "intent" /\ rec.req = req
Reported(req) == \E rec \in ledger : rec.phase = "result" /\ rec.req = req

Remove(req) ==
  /\ Announced(req)
  /\ removed' = removed \cup {req}
  /\ UNCHANGED ledger

\* Records reach the disk: a result only of a request announced before and not
\* reported yet, and a success only of a removal that happened.
Persist ==
  /\ ledger \subseteq ledger'
  /\ \A rec \in ledger' \ ledger :
       rec.phase = "result" =>
         /\ Announced(rec.req)
         /\ ~Reported(rec.req)
         /\ rec.ok => rec.req \in removed
  /\ \A r, s \in ledger' \ ledger : r.phase = s.phase /\ r.req = s.req => r = s
  /\ UNCHANGED removed

Next == Persist \/ \E req \in removed' \ removed : Remove(req)

Spec == Init /\ [][Next]_<<ledger, removed>>
=============================================================================
