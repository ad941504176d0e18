------------------------------ MODULE MCReaders ------------------------------
(***************************************************************************)
(* The book channel of MCCapture and a reader of its directory.            *)
(***************************************************************************)
EXTENDS Readers, MCCapture
=============================================================================
