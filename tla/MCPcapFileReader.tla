-------------------------- MODULE MCPcapFileReader --------------------------
(***************************************************************************)
(* Small instances of PcapFileReader: every capture of up to MaxFrames     *)
(* frames of every kind.                                                   *)
(***************************************************************************)
EXTENDS PcapFileReader

MCFrameKinds == {"tcp", "udp", "ip", "other"}
=============================================================================
