------------------------------ MODULE MCSidecar ------------------------------
(* The first sidecar and one reset that succeeds; resets that fail do not count. *)
EXTENDS Sidecar

MCMaxPid == 2
=============================================================================
