---------------------------- MODULE MCSleepWake -----------------------------
(***************************************************************************)
(* Three polls to a boot and two to a flush: a button can go down and up   *)
(* between a wake and the decision, and in the window before sleep.        *)
(***************************************************************************)
EXTENDS SleepWake
=============================================================================
