----------------------------- MODULE MCHlcClock -----------------------------
(* A small instance of HlcClock for TLC: one clock, shared by two threads. *)
EXTENDS HlcClock
=============================================================================
