----------------------------- MODULE MCProSend ------------------------------
(***************************************************************************)
(* Three inputs: at rest, a button, and the stick.  Going from one of the  *)
(* last two to the other tears either way round.                           *)
(***************************************************************************)
EXTENDS ProSend

CONSTANTS Rest, Press, Centre, Tilt

MCButtons == {Rest, Press}
MCAxes    == {Centre, Tilt}
MCNeutral == [btn |-> Rest, axes |-> Centre]
MCInputs  == Input \ {[btn |-> Press, axes |-> Tilt]}
=============================================================================
