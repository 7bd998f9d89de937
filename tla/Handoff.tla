------------------------------- MODULE Handoff -------------------------------
(***************************************************************************)
(* What the hand-off of the pad's input to the host promises, with no task *)
(* and no queue in sight.  The app publishes one snapshot after another.   *)
(* The host is told what there is to see: the current snapshot or, while   *)
(* that one is being put up, its buttons with the stick of the one before. *)
(* It never sees an older one, nor the halves the other way round.         *)
(***************************************************************************)
CONSTANTS
    Snapshots,   \* what is published: records with buttons and a stick
    Nothing      \* what a host knows to which nothing was sent

VARIABLES
    cur,         \* the snapshot published last
    shown,       \* what there is to see
    host,        \* what the host was told last
    live         \* the host can be told (the transport's concern)

handoffVars == <<cur, shown, host>>

HandoffInit == cur \in Snapshots /\ shown = cur /\ host = Nothing

Publish ==
    /\ shown = cur
    /\ cur' \in Snapshots
    /\ shown' = [shown EXCEPT !.btn = cur'.btn]
    /\ host' = host

Complete ==
    /\ shown' = cur
    /\ UNCHANGED <<cur, host>>

Tell ==
    /\ host' = shown
    /\ UNCHANGED <<cur, shown>>

\* A connection comes or goes: the host of the next knows nothing yet.
Lose ==
    /\ ~live'
    /\ host' = Nothing
    /\ UNCHANGED <<cur, shown>>

HandoffNext == Publish \/ Complete \/ Tell \/ Lose

HandoffSafe == HandoffInit /\ [][HandoffNext]_handoffVars

\* A host that can be told is told in the end.
Arrives == live /\ host # shown ~> host = shown \/ ~live

HandoffSpec == HandoffSafe /\ Arrives
=============================================================================
