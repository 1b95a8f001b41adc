------------------------------- MODULE Export -------------------------------
(***************************************************************************)
(* What becomes of a snapshot that is written out: "dodu export" to a JSON *)
(* or CSV file, "dodu scan" to the standard output as text, JSON or CSV,   *)
(* and the e key of the atlas, which writes a JSON file of its own.  Any   *)
(* write may fail half way, as on a full disk or a closed pipe.            *)
(*                                                                         *)
(* A document is a number of pieces (rows, lines).  JSON and text go to    *)
(* the file as they are written; CSV rows wait in the buffer of the csv    *)
(* writer until it is full or flushed.                                     *)
(***************************************************************************)
EXTENDS Naturals

CONSTANTS MaxPieces, \* bound on the pieces of a document, at least 1
          Buffer     \* rows the csv writer holds, at least 1

VARIABLES
  command,  \* what the user asked for
  pc,       \* "load", "open", "write", "flush" or "returned"
  pieces,   \* of the document
  given,    \* rows given to the csv writer
  held,     \* rows in its buffer
  accepted, \* pieces that are in the file
  file,     \* "absent", "old" (of an earlier export) or "ours"
  outcome   \* what the command returns: "none", "ok" or "error"

vars == <<command, pc, pieces, given, held, accepted, file, outcome>>

ToFile == {"export_json", "export_csv", "atlas"}
Csv == {"export_csv", "scan_csv"}
Commands == ToFile \cup Csv \cup {"scan_json", "scan_text"}

Init ==
  /\ command \in Commands
  /\ file \in IF command = "atlas" THEN {"absent"} ELSE {"absent", "old"}
  /\ pc = "load" /\ outcome = "none"
  /\ pieces \in 1..MaxPieces
  /\ given = 0 /\ held = 0 /\ accepted = 0

Return(result) == pc' = "returned" /\ outcome' = result

\* The options and the extension are checked and the snapshot is scanned or read
\* from the cache, all before the file is touched; the atlas has one.
Load ==
  /\ pc = "load"
  /\ pc' = IF command \in ToFile THEN "open" ELSE "write"
  /\ UNCHANGED <<command, pieces, given, held, accepted, file, outcome>>

LoadFails ==
  /\ pc = "load"
  /\ command # "atlas"
  /\ Return("error")
  /\ UNCHANGED <<command, pieces, given, held, accepted, file>>

\* os.Create empties an earlier export; os.CreateTemp makes a new file.
Open ==
  /\ pc = "open"
  /\ pc' = "write" /\ file' = "ours"
  /\ UNCHANGED <<command, pieces, given, held, accepted, outcome>>

OpenFails ==
  /\ pc = "open"
  /\ Return("error")
  /\ UNCHANGED <<command, pieces, given, held, accepted, file>>

(***************************************************************************)
(* JSON and text.                                                          *)
(***************************************************************************)
WriteAll ==
  /\ pc = "write" /\ command \notin Csv
  /\ accepted' = pieces
  /\ Return("ok")
  /\ UNCHANGED <<command, pieces, given, held, file>>

\* The atlas removes what it could not write (or close); "dodu export" leaves it.
WriteFails ==
  /\ pc = "write" /\ command \notin Csv
  /\ accepted' \in 0..pieces - 1
  /\ Return("error")
  /\ file' = IF command = "atlas" THEN "absent" ELSE file
  /\ UNCHANGED <<command, pieces, given, held>>

(***************************************************************************)
(* CSV.                                                                    *)
(***************************************************************************)
WriteRow ==
  /\ pc = "write" /\ command \in Csv
  /\ given < pieces
  /\ given' = given + 1
  /\ IF held < Buffer THEN held' = held + 1 /\ UNCHANGED accepted
     ELSE held' = 1 /\ accepted' = accepted + held
  /\ UNCHANGED <<command, pc, pieces, file, outcome>>

\* The full buffer cannot be written: Write returns the error.
RowFails ==
  /\ pc = "write" /\ command \in Csv
  /\ given < pieces /\ held = Buffer
  /\ accepted' \in accepted..(accepted + held - 1)
  /\ Return("error")
  /\ UNCHANGED <<command, pieces, given, held, file>>

\* "return cw.Error()" looks at the writes so far ...
EndOfRows ==
  /\ pc = "write" /\ command \in Csv
  /\ given = pieces
  /\ outcome' = "ok" /\ pc' = "flush"
  /\ UNCHANGED <<command, pieces, given, held, accepted, file>>

\* ... and "defer cw.Flush()" writes the rest when the result is fixed.
Flush ==
  /\ pc = "flush"
  /\ accepted' \in accepted..(accepted + held)
  /\ held' = 0 /\ pc' = "returned"
  /\ UNCHANGED <<command, pieces, given, file, outcome>>

Next ==
  \/ Load \/ LoadFails \/ Open \/ OpenFails \/ WriteAll \/ WriteFails
  \/ WriteRow \/ RowFails \/ EndOfRows \/ Flush

Spec == Init /\ [][Next]_vars

-----------------------------------------------------------------------------
\* csv.go:28, "ToCSV writes a single CSV table to w": a command that succeeds has
\* written its document.
SuccessMeansWritten == pc = "returned" /\ outcome = "ok" => accepted = pieces
=============================================================================
