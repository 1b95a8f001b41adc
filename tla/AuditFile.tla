----------------------------- MODULE AuditFile ------------------------------
(***************************************************************************)
(* The audit log of Executor as a file of lines.  A record is encoded on   *)
(* one line and appended; when the disk is full the system takes a part of *)
(* it and fails, and a crash of the machine may cut the last line short.   *)
(* Nothing ends such a line before the next record is appended to it, and  *)
(* a reader of JSON lines then finds neither record.                       *)
(***************************************************************************)
EXTENDS Executor

VARIABLES
  torn,   \* the file ends in a part of a record
  spoiled \* positions of records of audit that share their line with such a part

fileVars == <<torn, spoiled>>

FileInit == Init /\ torn = FALSE /\ spoiled = {}

\* The record goes to the end of the file, whatever is there.
AppendLine ==
  /\ WriteIntent \/ WriteResult
  /\ spoiled' = IF torn THEN spoiled \cup {Len(audit')} ELSE spoiled
  /\ torn' = FALSE

\* Encode writes a part of the record and fails.
WritePart ==
  /\ pc \in {"intent", "result"}
  /\ AuditFails
  /\ torn' = TRUE
  /\ UNCHANGED spoiled

CrashCuts ==
  /\ Crash
  /\ spoiled' = spoiled \cap 1..Len(audit')
  /\ torn' \in IF audit' = audit THEN {torn, FALSE} ELSE BOOLEAN

\* Every other step leaves the file or appends nothing.
ElsewhereStep ==
  /\ \/ \E p \in Plans : Start(p) \/ Refuse(p)
     \/ Finish \/ StopCancelled \/ NextItem \/ SyncIntent \/ SyncResult \/ AuditFails
     \/ SendCall \/ TakeReply \/ LoseReply \/ CallCancelled
     \/ Cancel
     \/ \E req \in flight : DaemonRemoves(req) \/ DaemonRefuses(req)
  /\ UNCHANGED fileVars

FileSpec ==
  FileInit /\ [][AppendLine \/ WritePart \/ CrashCuts \/ ElsewhereStep]_<<vars, fileVars>>

-----------------------------------------------------------------------------
\* docs/verification.md:32, "Durable intent before mutation": for every request
\* the daemon got, a line of the durable file is the announcement.
ReadableIntentBeforeMutation ==
  \A req \in flight \cup removed : \E k \in 1..synced \ spoiled : audit[k] = Intent(req)
=============================================================================
