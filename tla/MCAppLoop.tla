----------------------------- MODULE MCAppLoop ------------------------------
(***************************************************************************)
(* Instances of AppLoop for TLC.  Select shifts Start and Up: on a Classic *)
(* boot within one unit or until released, on a BLE boot not at all.       *)
(***************************************************************************)
EXTENDS AppLoop

MCMembers == {"start", "up"}
MCWindows == {Off, Hold, 1}

=============================================================================
