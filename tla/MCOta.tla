-------------------------------- MODULE MCOta --------------------------------
(***************************************************************************)
(* Five chunks against a window of four: the last acknowledgement is for   *)
(* the end of the image alone.  Two transfers, so that one begins while    *)
(* the watchdog takes the other apart.                                     *)
(***************************************************************************)
EXTENDS Ota
=============================================================================
