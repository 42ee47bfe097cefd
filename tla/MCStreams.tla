------------------------------ MODULE MCStreams ------------------------------
(* Instance of Streams for TLC.                                            *)
EXTENDS Streams
=============================================================================
