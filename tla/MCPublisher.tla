---------------------------- MODULE MCPublisher ----------------------------
(* Publisher on small instances.  Seats are interchangeable, and so are      *)
(* producer slots.                                                           *)
EXTENDS Publisher, TLC

\* Unequal windows.
MCGrants == <<1, 2>>

Symmetry == Permutations(Seats) \union Permutations(Slots)
=============================================================================
