----------------------------- MODULE MCScanner -----------------------------
(* Two containers and, to see the semaphore fill, three. *)
EXTENDS Scanner

CONSTANTS c1, c2, c3
=============================================================================
