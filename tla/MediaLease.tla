----------------------------- MODULE MediaLease -----------------------------
(***************************************************************************)
(* What the media owner (src/mhcamera/src/media_owner.c) promises the       *)
(* service, and what module Service assumes of it: one AI thread at a time, *)
(* a stop request is never taken back from a running thread, and a thread   *)
(* that was asked to stop ends.                                             *)
(***************************************************************************)

VARIABLES
    run,    \* the AI thread is alive
    stop    \* owner->stop

lease == <<run, stop>>

LeaseInit == run = FALSE /\ stop = FALSE

\* xc_media_owner_start; the flag is cleared even if no thread comes of it.
LeaseStart == ~run /\ run' \in BOOLEAN /\ stop' = FALSE

\* xc_media_owner_request_stop, or the beginning of xc_media_owner_stop.
LeaseStop == stop' = TRUE /\ UNCHANGED run

LeaseEnd == run /\ stop /\ run' = FALSE /\ UNCHANGED stop

LeaseNext == LeaseStart \/ LeaseStop \/ LeaseEnd

LeaseSpec == LeaseInit /\ [][LeaseNext]_lease /\ WF_lease(LeaseEnd)
=============================================================================
