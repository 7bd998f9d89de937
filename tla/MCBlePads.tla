----------------------------- MODULE MCBlePads ------------------------------
(***************************************************************************)
(* The chord layer for TLC, in front of the BLE transport: three chord     *)
(* members, and a boot with each kind of window.                           *)
(***************************************************************************)
EXTENDS BlePads

MCMembers == {"start", "up", "left"}
MCWindows == {Off, Hold, 4}

=============================================================================
