------------------------------- MODULE MCZip -------------------------------
(***************************************************************************)
(* Small instances of Zip: all pairs of streams of a few items, with keys  *)
(* that are missing from one stream, repeated, or in another order, and    *)
(* queues that are shorter than the streams.                               *)
(***************************************************************************)
EXTENDS Zip

CONSTANTS a, b
=============================================================================
