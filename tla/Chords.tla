------------------------------- MODULE Chords -------------------------------
(***************************************************************************)
(* The chord layer of app_main.cpp: Select as a shift key.                 *)
(*                                                                         *)
(* The app task polls the controller every 2 ms.  One Poll is one turn of  *)
(* that loop as far as this layer goes: NESController::read() samples the  *)
(* buttons and may report a move of the player slider, apply_chords()      *)
(* turns the sample into the snapshot the host is to see, and the snapshot *)
(* goes to the transport when it differs from the last one handed over.    *)
(*                                                                         *)
(* Time passes between polls, not inside one.  The deadlines of the code   *)
(* are kept as the time left, so now_ms() itself is not a variable.  A and *)
(* B take no part in chords and are left out here.                         *)
(***************************************************************************)
EXTENDS Naturals

CONSTANTS
    Members,     \* enum ChordBit: the buttons Select can shift
    Windows,     \* chord windows a boot may start with: Off, Hold, lengths
    Off,         \* settings::kChordOff
    Hold,        \* settings::kChordHold
    None,        \* no snapshot: nothing sent yet, or a zeroed report
    PulseLen,    \* kMinusPulseMs
    MaxGap       \* bound: the longest time between two polls

ASSUME ChordsAssumption ==
    /\ Off \notin Nat /\ Hold \notin Nat /\ Off # Hold
    /\ Windows \subseteq (Nat \ {0}) \cup {Off, Hold}
    /\ PulseLen \in Nat \ {0}
    /\ MaxGap \in Nat \ {0}

Players == {0, 1}

\* A resolved bt::NesInput: `chord` holds the members sent as their shifted
\* buttons (Home, ZL, ZR, Capture), `plain` those sent as themselves.  The
\* code keeps the buttons only, and Up is sent as ZL and ZR together: where
\* two snapshots here come to the same buttons, it spares itself a send.
Snapshot == [player : Players, minus : BOOLEAN,
             plain : SUBSET Members, chord : SUBSET Members]

ASSUME NoneAssumption == None \notin Snapshot

VARIABLES
    window,      \* s_chord_window: read once at boot (settings.cpp)
    pad,         \* raw sample of the last poll: Select and the members
    player,      \* s_player
    shift,       \* the chord state that chords_reset() clears
    prev,        \* s_prev_members
    out,         \* the snapshot apply_chords() left in `in`
    lastSent,    \* s_last_sent, None while s_have_sent is false
    report,      \* what the transport has for the host, None when zeroed
    press        \* history of the current or last press of Select

chordVars ==
    <<window, pad, player, shift, prev, out, lastSent, report, press>>

-----------------------------------------------------------------------------
ShiftState == [armed : BOOLEAN, passthru : SUBSET Members, fired : BOOLEAN,
               committed : BOOLEAN, windowLeft : Nat \cup {Hold},
               pulseLeft : Nat]

\* chords_reset().
Reset == [armed |-> FALSE, passthru |-> {}, fired |-> FALSE,
          committed |-> FALSE, windowLeft |-> 0, pulseLeft |-> 0]

\* The time left d units later; a window that never closes stays open.
Elapse(left, d) ==
    IF left = Hold THEN Hold ELSE IF left > d THEN left - d ELSE 0

Aged(sh, d) == [sh EXCEPT !.windowLeft = Elapse(@, d),
                          !.pulseLeft  = Elapse(@, d)]

\* Mutant: what was held before Select is not latched.
LandUnlatched(sh, held) ==
    [armed |-> TRUE, passthru |-> {}, fired |-> FALSE,
     committed |-> FALSE, windowLeft |-> window, pulseLeft |-> sh.pulseLeft]

\* Select landed: latch what it cannot claim and open the window.
Land(sh, held) ==
    [armed |-> TRUE, passthru |-> prev \cap held, fired |-> FALSE,
     committed |-> FALSE, windowLeft |-> window, pulseLeft |-> sh.pulseLeft]

\* Mutant: a press that made a chord still pulses Minus.
ReleaseAfterChord(sh) ==
    [Reset EXCEPT !.pulseLeft = IF ~sh.committed THEN PulseLen ELSE 0]

\* Select released: pulse Minus only if the press produced nothing.
Release(sh) ==
    [Reset EXCEPT !.pulseLeft =
        IF ~sh.fired /\ ~sh.committed THEN PulseLen ELSE 0]

SelectEdge(sh, sel, held) ==
    CASE sel /\ ~sh.armed -> Land(sh, held)
      [] ~sel /\ sh.armed -> Release(sh)
      [] OTHER            -> sh

\* Mutant: the window closes on a chord that is still held.
DecideLate(sh, held) ==
    LET kept   == sh.passthru \cap held
        closed == sh.committed \/ sh.windowLeft = 0
    IN  IF ~sh.armed THEN sh
        ELSE [sh EXCEPT !.passthru = kept, !.committed = closed,
                        !.fired = @ \/ (~closed /\ held \ kept # {})]

\* While the shift is armed: the window may close into Minus, else any
\* member that was not already held forms a chord.
Decide(sh, held) ==
    LET kept   == sh.passthru \cap held
        closed == sh.committed \/ (~sh.fired /\ sh.windowLeft = 0)
    IN  IF ~sh.armed THEN sh
        ELSE [armed |-> TRUE, passthru |-> kept, committed |-> closed,
              fired |-> sh.fired \/ (~closed /\ held \ kept # {}),
              windowLeft |-> sh.windowLeft, pulseLeft |-> sh.pulseLeft]

\* apply_chords() on a sample, from a shift state already brought up to now.
ApplyChords(sh, sel, held) ==
    IF window = Off THEN sh ELSE Decide(SelectEdge(sh, sel, held), held)

\* The snapshot apply_chords() leaves behind, from the state it ends in.
Resolved(sh, sel, held, p) ==
    LET chord == IF sh.armed /\ ~sh.committed THEN held \ sh.passthru ELSE {}
    IN  [player |-> p,
         minus  |-> IF sh.armed THEN sh.committed
                    ELSE IF window = Off THEN sel ELSE sh.pulseLeft > 0,
         plain  |-> held \ chord,
         chord  |-> chord]

\* Mutant: a field left out of the comparison.
SameButMinus(x, y) ==
    x.player = y.player /\ x.plain = y.plain /\ x.chord = y.chord

\* same_input(): field by field.
SameInput(x, y) ==
    /\ x.player = y.player /\ x.minus = y.minus
    /\ x.plain = y.plain   /\ x.chord = y.chord

\* The gate before bt::set_input(), given s_last_sent (None: force a send).
NeedsSend(last, in) == last = None \/ ~SameInput(in, last)

-----------------------------------------------------------------------------
\* History: what became of a press of Select on one player's line.  `before`
\* are the held members that went down before Select did.
PressAfter(sel, held, moved, new) ==
    LET lands == sel /\ (~pad.sel \/ moved)
        rises == new.minus /\ (moved \/ ~out.minus)
        old   == IF moved THEN pad.held ELSE press.before
    IN  [any     |-> sel \/ (press.any /\ ~moved),
         shown   |-> (IF lands \/ moved THEN 0 ELSE press.shown)
                     + (IF rises THEN 1 ELSE 0),
         chorded |-> (press.chorded /\ ~lands /\ ~moved) \/ new.chord # {},
         before  |-> IF sel THEN old \cap held ELSE held]

Init ==
    /\ window \in Windows
    /\ pad = [sel |-> FALSE, held |-> {}]
    /\ player \in Players
    /\ shift = Reset
    /\ prev = {}
    /\ out = [player |-> player, minus |-> FALSE, plain |-> {}, chord |-> {}]
    /\ lastSent = None
    /\ report = None
    /\ press = [any |-> FALSE, shown |-> 0, chorded |-> FALSE, before |-> {}]

\* One turn of the poll loop, d units after the last: read() (with
\* on_player_change() when the slider moved), apply_chords(), set_input().
\* on_player_change() zeroes the report and forgets what was sent, so the
\* same turn always sends again.
Poll(d, sel, held, moved) ==
    LET now  == IF moved THEN Reset ELSE Aged(shift, d)
        p    == IF moved THEN 1 - player ELSE player
        last == IF moved THEN None ELSE lastSent
    IN  /\ window' = window
        /\ pad' = [sel |-> sel, held |-> held]
        /\ player' = p
        /\ shift' = ApplyChords(now, sel, held)
        /\ prev' = IF window = Off THEN prev ELSE held
        /\ out' = Resolved(shift', sel, held, p)
        /\ lastSent' = IF NeedsSend(last, out') THEN out' ELSE last
        /\ report' = IF NeedsSend(last, out') THEN out' ELSE report
        /\ press' = PressAfter(sel, held, moved, out')

Next == \E d \in 1..MaxGap, sel \in BOOLEAN, held \in SUBSET Members,
           moved \in BOOLEAN : Poll(d, sel, held, moved)

Spec == Init /\ [][Next]_chordVars

\* The loop runs for ever, also while nobody moves a button: nothing in it
\* blocks on the buttons, and it samples faster than a player moves them.
Rests    == \E d \in 1..MaxGap : Poll(d, pad.sel, pad.held, FALSE)
FairSpec == Spec /\ WF_chordVars(Rests)

-----------------------------------------------------------------------------
TypeOK ==
    /\ window \in Windows
    /\ pad \in [sel : BOOLEAN, held : SUBSET Members]
    /\ player \in Players
    /\ shift \in ShiftState
    /\ prev \in SUBSET Members
    /\ out \in Snapshot
    /\ lastSent \in Snapshot \cup {None}
    /\ report \in Snapshot \cup {None}
    /\ press \in [any : BOOLEAN, shown : Nat, chorded : BOOLEAN,
                  before : SUBSET Members]

\* A press of Select comes to exactly one thing: a chord or one Minus.  The
\* host never sees both, never sees Minus twice for one press (committed
\* while held and pulsed again on release), and once Select is up it has
\* seen one of them.  HID has no undo (comment over apply_chords()).
DecidedOnce ==
    /\ press.shown <= 1
    /\ press.chorded => press.shown = 0
    /\ press.any /\ ~pad.sel => press.chorded \/ press.shown = 1

\* While Select is down and Minus has not been shown, exactly the members
\* that went down with Select or after it are shifted: one held since before
\* keeps its own role for as long as it is held (hold Right, tap Select
\* twice -> no phantom ZR), one landing in Select's own poll is a chord.
ChordIffFresh ==
    out.chord = IF window # Off /\ pad.sel /\ ~out.minus
                THEN pad.held \ press.before ELSE {}

\* What the transport holds for the host is the snapshot of the last poll,
\* however it came to differ from the one before: a pulse that ends with no
\* button moving, a window that closes, a slider that moved.
ReportCurrent == report # None => report = out

\* A button that stays down while Select stays down keeps its role: a chord
\* held past the window does not turn into the plain button, and a plain
\* button does not become a chord half way through.
KeepsRole(m) ==
    (/\ pad.sel /\ pad'.sel /\ m \in pad.held /\ m \in pad'.held
     /\ player' = player)
    => (m \in out.chord) = (m \in out'.chord)
RoleStable == [][\A m \in Members : KeepsRole(m)]_chordVars

\* Minus is never left pressed at the host with Select up: the pulse runs out
\* on a timer and the snapshot without it is sent.
MinusLetsGo ==
    (report # None /\ report.minus /\ ~pad.sel)
        ~> (pad.sel \/ (report # None /\ ~report.minus))

=============================================================================
