------------------------------ MODULE MCExport ------------------------------
(* Documents of up to three pieces, with room for two rows in the buffer. *)
EXTENDS Export
=============================================================================
