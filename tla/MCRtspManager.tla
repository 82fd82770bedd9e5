---------------------------- MODULE MCRtspManager ----------------------------
(***************************************************************************)
(* Two passwords: the old one and the new one of a rotation.                *)
(***************************************************************************)
EXTENDS RtspManager

CONSTANTS p1, p2
=============================================================================
