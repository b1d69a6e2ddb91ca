---------------------------- MODULE MCRingBuffer ----------------------------
(* A small ring buffer for TLC. *)
EXTENDS RingBuffer

CONSTANTS r1, r2, r3, r4
=============================================================================
