------------------------------ MODULE AppLoop -------------------------------
(***************************************************************************)
(* The poll loop of app_main.cpp around the chord layer: hold gestures,    *)
(* the Start-wake latch, and the timers that put the stick to sleep.       *)
(*                                                                         *)
(* A Turn is one pass of the loop: Chords' Poll, then the console's sleep  *)
(* request, check_gestures() and check_timers(), in the order of the code. *)
(* A gesture that reboots and every sleep end the boot; Boot starts the    *)
(* next one with the statics of the program back at their initial values.  *)
(* Times are kept as the time gone by, and stop counting once past the     *)
(* limit they are compared with.                                           *)
(***************************************************************************)
EXTENDS Chords

CONSTANTS
    HoldLen,     \* kGestureHoldMs
    UnconnMax,   \* kConnIdleTimeoutMs
    QuietMax     \* kIdleTimeoutMs

ASSUME LoopAssumption ==
    /\ HoldLen \in Nat \ {0} /\ UnconnMax \in Nat /\ QuietMax \in Nat
    /\ {"start", "up"} \subseteq Members

VARIABLES
    ab,          \* A and B are both down in the last sample
    gesture,     \* check_gestures(): tracked, time since, fired
    wakeHold,    \* s_start_release_required
    power,       \* "running", or how the boot ended
    world,       \* what other tasks and the hardware report to the loop
    unconn,      \* time since s_last_connected_ms
    quiet,       \* time since NESController::_lastActivityMs
    ran,         \* history: the gesture this turn ran
    hold         \* history: the buttons as held, whatever the code tracks

loopVars == <<ab, gesture, wakeHold, power, world, unconn, quiet, ran, hold>>
vars == <<chordVars, loopVars>>

Reboots  == {"transport", "config", "forget"}
Gestures == Reboots \cup {"profile", "dirmode", "sleep", "none"}

\* bt::connected(), and whatever keeps the stick awake: external power or the
\* bench's inhibit, which check_timers() treats alike.
Facts == [connected : BOOLEAN, awake : BOOLEAN]

-----------------------------------------------------------------------------
\* detect_gesture(): the first rule that fits.
Detected(sel, held, both) ==
    LET start == "start" \in held
    IN  IF sel /\ start                 THEN "transport"
        ELSE IF both /\ "up" \in held   THEN "profile"
        ELSE IF both /\ "down" \in held THEN "dirmode"
        ELSE IF both /\ sel             THEN "config"
        ELSE IF sel                     THEN "forget"
        ELSE IF start                   THEN "sleep"
        ELSE "none"

\* Mutants: one of the two masks is missing.
MaskedWakeOnly(g, waking, chorded) ==
    IF g = "sleep" /\ waking THEN "none" ELSE g
MaskedChordOnly(g, waking, chorded) ==
    IF g = "forget" /\ chorded THEN "none" ELSE g

\* What check_gestures() makes of it: a Start that woke the stick is not a
\* request to sleep, and a Select that made a chord is not one to forget.
Masked(g, waking, chorded) ==
    IF (g = "sleep" /\ waking) \/ (g = "forget" /\ chorded)
    THEN "none" ELSE g

Later(t, d, limit) == IF t + d > limit THEN limit ELSE t + d

NoGesture == [tracked |-> "none", age |-> 0, fired |-> FALSE]

\* Mutant: the time of one combination is counted for the next.
TrackAnyHold(t, g, d) ==
    LET age == IF g = "none" THEN 0 ELSE Later(t.age, d, HoldLen)
    IN  [tracked |-> g, age |-> age,
         fired |-> g # "none" /\ age = HoldLen
                    /\ (t.fired \/ g = t.tracked)]

\* One call of check_gestures() with g detected: track it, mark it fired.
Track(t, g, d) ==
    IF g # t.tracked
    THEN [tracked |-> g, age |-> 0, fired |-> FALSE]
    ELSE LET age == Later(t.age, d, HoldLen)
         IN  [t EXCEPT !.age = age,
                       !.fired = @ \/ (g # "none" /\ age = HoldLen)]

\* Mutant: a hold that goes on runs its gesture again.
FiresAgain(t, g, d) == Track(t, g, d).fired

\* It runs the gesture in the call that marks it.
Fires(t, g, d) == Track(t, g, d).fired /\ (g # t.tracked \/ ~t.fired)

\* Mutants: a busy pad counts as a connection; only a stick without one is
\* ever idle.
UnconnUnlessBusy(d) == IF world.connected \/ world.awake \/ pad.held # {}
                       THEN 0 ELSE Later(unconn, d, UnconnMax + 1)
QuietUnlessConnected(d, active) ==
    IF active \/ world.awake \/ world.connected
    THEN 0 ELSE Later(quiet, d, QuietMax + 1)

\* check_timers(): what keeps the stick awake restarts both clocks.
UnconnAfter(d) == IF world.connected \/ world.awake
                  THEN 0 ELSE Later(unconn, d, UnconnMax + 1)
QuietAfter(d, active) == IF active \/ world.awake
                         THEN 0 ELSE Later(quiet, d, QuietMax + 1)

-----------------------------------------------------------------------------
HoldAfter(sel, held, both, moved, d) ==
    LET g == Detected(sel, held, both)
    IN  [gesture |-> g,
         age     |-> IF g = hold.gesture THEN Later(hold.age, d, HoldLen)
                     ELSE 0,
         runs    |-> (IF g = hold.gesture THEN hold.runs ELSE 0)
                     + (IF ran' = "none" THEN 0 ELSE 1),
         chorded |-> sel /\ (hold.chorded \/ out'.chord # {}),
         startUp |-> hold.startUp \/ "start" \notin held]

NoHold == [gesture |-> "none", age |-> 0, runs |-> 0, chorded |-> FALSE,
           startUp |-> TRUE]

LoopInit ==
    /\ Init
    /\ ab = FALSE /\ gesture = NoGesture /\ wakeHold = FALSE
    /\ power = "running"
    /\ world \in Facts
    /\ unconn = 0 /\ quiet = 0
    /\ ran = "none" /\ hold = NoHold

\* One pass of the loop.  `asked` is s_sleep_requested as the loop finds it.
Turn(d, sel, held, both, moved, asked) ==
    LET g     == Masked(Detected(sel, held, both), wakeHold, shift'.fired)
        runs  == ~asked /\ Fires(gesture, g, d)
        moves == moved \/ both # ab \/ sel # pad.sel \/ held # pad.held
    IN  /\ power = "running"
        /\ Poll(d, sel, held, moved)
        /\ ab' = both
        /\ gesture' = Track(gesture, g, d)
        /\ wakeHold' = (wakeHold /\ "start" \in held)
        /\ unconn' = UnconnAfter(d)
        /\ quiet' = QuietAfter(d, moves)
        /\ ran' = IF runs THEN g ELSE "none"
        /\ power' = CASE asked -> "asked"
                      [] ran' = "sleep" -> "asleep"
                      [] ran' \in Reboots -> "restarting"
                      [] OTHER -> IF unconn' > UnconnMax \/ quiet' > QuietMax
                                  THEN "timed out" ELSE "running"
        /\ hold' = HoldAfter(sel, held, both, moved, d)
        /\ UNCHANGED world

\* The link, the charger and the bench's inhibit change between turns.
WorldMoves ==
    /\ power = "running"
    /\ world' \in Facts
    /\ world' # world
    /\ UNCHANGED <<chordVars, ab, gesture, wakeHold, power, unconn, quiet,
                   ran, hold>>

\* The next boot, with the transport's chord window read anew.  One that
\* Start woke from sleep latches wakeHold.
Boot(woken) ==
    /\ power # "running"
    /\ woken => power # "restarting"
    /\ power' = "running"
    /\ wakeHold' = woken
    /\ pad' = [sel |-> FALSE, held |-> {}] /\ ab' = FALSE
    /\ shift' = Reset /\ prev' = {}
    /\ player' \in Players
    /\ out' = [player |-> player', minus |-> FALSE, plain |-> {},
               chord |-> {}]
    /\ lastSent' = None /\ report' = None
    /\ press' = [any |-> FALSE, shown |-> 0, chorded |-> FALSE,
                 before |-> {}]
    /\ gesture' = NoGesture /\ unconn' = 0 /\ quiet' = 0
    /\ ran' = "none" /\ hold' = [NoHold EXCEPT !.startUp = ~woken]
    /\ window' \in Windows
    /\ world' \in {f \in Facts : ~f.connected}

Turns == \E d \in 1..MaxGap, sel \in BOOLEAN, held \in SUBSET Members,
            both \in BOOLEAN, moved \in BOOLEAN, asked \in BOOLEAN :
            Turn(d, sel, held, both, moved, asked)

LoopNext == Turns \/ WorldMoves \/ \E woken \in BOOLEAN : Boot(woken)

\* The loop keeps turning, also while nobody moves a button; nothing promises
\* that the world changes or that anybody wakes the stick.
LoopRests == \E d \in 1..MaxGap :
                Turn(d, pad.sel, pad.held, ab, FALSE, FALSE)
LoopSpec  == LoopInit /\ [][LoopNext]_vars /\ WF_vars(LoopRests)

-----------------------------------------------------------------------------
LoopTypeOK ==
    /\ TypeOK
    /\ ab \in BOOLEAN /\ wakeHold \in BOOLEAN /\ world \in Facts
    /\ gesture \in [tracked : Gestures, age : 0..HoldLen, fired : BOOLEAN]
    /\ power \in {"running", "asked", "asleep", "restarting", "timed out"}
    /\ unconn \in 0..(UnconnMax + 1) /\ quiet \in 0..(QuietMax + 1)
    /\ ran \in Gestures
    /\ hold \in [gesture : Gestures, age : 0..HoldLen, runs : Nat,
                 chorded : BOOLEAN, startUp : BOOLEAN]

\* Whatever runs was held, by itself, for the whole of the hold time: a
\* combination that passes through another on its way, or is masked for a
\* while, starts over.
RunsOnlyHeld ==
    [][ran' # "none" => hold'.gesture = ran' /\ hold'.age = HoldLen]_vars

\* One hold, one run (comment over check_gestures()), however long it lasts.
RunsOnce == hold.runs <= 1

\* Holding a chord never re-pairs the stick, as long as the player slider
\* stays where it is: the press that made the chord is not one to forget.
ChordKeepsPairing == [][ran' = "forget" => ~press'.chorded]_vars

\* The hold that woke the stick does not put it back to sleep: Start was up
\* in between.
WakeHoldInert == [][ran' = "sleep" => hold'.startUp]_vars

\* A stick nobody connects to goes to sleep however busy its buttons are.
SleepsUnconnected ==
    []<>(world.connected \/ world.awake \/ power # "running")

\* And one nobody touches goes to sleep, connected or not: for it to stay
\* awake, a button or the slider must move again and again.
Touched == pad' # pad \/ ab' # ab \/ player' # player
SleepsUntouched ==
    []<>(world.awake \/ power # "running") \/ []<><<Touched>>_vars

=============================================================================
