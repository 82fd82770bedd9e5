---------------------------- MODULE RtspListener ----------------------------
(***************************************************************************)
(* The RTSP listener of the go2rtc sidecar as the plugin's patch            *)
(* 0010-camera-source-rtsp-output.patch adds it: at most one listener,      *)
(* opened with one password for the source the sidecar holds.               *)
(***************************************************************************)

CONSTANTS Passwords, NoPassword

ASSUME NoPasswordOK == NoPassword \notin Passwords

VARIABLES
    run,        \* the open listener's password, NoPassword when it is closed
    source      \* the sidecar holds a camera source

\* Why rtspControl.configure refuses to open: no source, or a listener with
\* another password, which must be closed first.
Refuses(on, p) == on /\ (~source \/ run \notin {NoPassword, p})

Configured(on, p) == IF on THEN p ELSE NoPassword

\* A request that is answered.
Accepts(on, p) == ~Refuses(on, p) /\ run' = Configured(on, p)

\* A request that is refused, whose port is taken, or whose answer is lost,
\* executed or not: the plugin cannot tell which.
Fails(on, p) == run' \in {run} \cup (IF Refuses(on, p) THEN {} ELSE {Configured(on, p)})
=============================================================================
