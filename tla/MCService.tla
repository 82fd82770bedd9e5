------------------------------ MODULE MCService ------------------------------
(* Two cameras in two regions: the smallest world in which a region switch,  *)
(* a camera switch and a camera missing from its catalog can all happen.     *)
EXTENDS ServiceProperties, TLC

CONSTANTS c1, c2, r1, r2, k1

MCCameraRegion == (c1 :> r1) @@ (c2 :> r2)
MCSameRegion   == (c1 :> r1) @@ (c2 :> r1)
MCOneCamera    == c1 :> r1
=============================================================================
