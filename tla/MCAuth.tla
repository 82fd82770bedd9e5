------------------------------- MODULE MCAuth -------------------------------
(* Three ids for a ring of two: one is always forgotten. *)
EXTENDS Auth

MCRing == 2
=============================================================================
