-------------------------- MODULE MCClfrFileReader --------------------------
(***************************************************************************)
(* Small instances of ClfrFileReader: batches shorter and longer than the  *)
(* file, and enough room in got to see what an endless read repeats.       *)
(***************************************************************************)
EXTENDS ClfrFileReader

MCBatchSizes == {0, 2, 3}
=============================================================================
