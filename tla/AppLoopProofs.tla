--------------------------- MODULE AppLoopProofs ----------------------------
(***************************************************************************)
(* Proofs about the poll loop with its gestures, for every set of members, *)
(* every window and every hold time.  The chord layer's invariant carries  *)
(* over: a turn contains one of its polls, a boot starts it anew.          *)
(***************************************************************************)
EXTENDS AppLoop, ChordsProofs

\* What check_gestures() tracks is what is held or, under a mask, nothing; it
\* has not been tracked for longer than it has been held.  A hold that has run
\* is still tracked and marked, unless it has ended the boot.
HoldInv ==
    /\ gesture.tracked # "none" =>
          gesture.tracked = hold.gesture /\ gesture.age <= hold.age
    /\ hold.runs \in {0, 1}
    /\ power = "running" /\ hold.runs = 1 =>
          /\ hold.gesture \in {"profile", "dirmode"}
          /\ gesture.tracked = hold.gesture /\ gesture.fired

\* A Start that has been down since the boot is the one that woke the stick.
WakeInv == wakeHold \/ hold.startUp

\* What the last turn ran: it was held long enough, made no chord if it was to
\* forget the host, and was not the hold of the wake if it was to sleep.
RanInv ==
    /\ ran # "none" => hold.gesture = ran /\ hold.age = HoldLen
    /\ ran = "forget" => ~press.chorded
    /\ ran = "sleep" => hold.startUp

LoopInv == IInv /\ LoopTypeOK /\ HoldInv /\ WakeInv /\ RanInv

Tracks == [tracked : Gestures, age : 0..HoldLen, fired : BOOLEAN]
Holds  == [gesture : Gestures, age : 0..HoldLen, runs : Nat,
           chorded : BOOLEAN, startUp : BOOLEAN]
Powers == {"running", "asked", "asleep", "restarting", "timed out"}

-----------------------------------------------------------------------------
(* The operators. *)

LEMMA LaterOK ==
    ASSUME NEW limit \in Nat, NEW t \in 0..limit, NEW d \in 1..MaxGap
    PROVE  Later(t, d, limit) \in 0..limit
<1>1. d \in Nat BY ChordsAssumption
<1> QED BY <1>1 DEF Later

\* Time goes by for two clocks alike.
LEMMA LaterKeepsOrder ==
    ASSUME NEW limit \in Nat, NEW s \in 0..limit, NEW t \in 0..limit,
           s <= t, NEW d \in 1..MaxGap
    PROVE  Later(s, d, limit) <= Later(t, d, limit)
<1>1. d \in Nat BY ChordsAssumption
<1> QED BY <1>1 DEF Later

LEMMA DetectedOK ==
    ASSUME NEW sel \in BOOLEAN, NEW held, NEW both \in BOOLEAN
    PROVE  /\ Detected(sel, held, both) \in Gestures
           /\ Detected(sel, held, both) = "forget" => sel
BY Zenon DEF Detected, Gestures, Reboots

\* A mask hides a gesture; it makes no other of it.
LEMMA MaskedOK ==
    ASSUME NEW g, NEW waking, NEW chorded
    PROVE  /\ Masked(g, waking, chorded) \in {g, "none"}
           /\ Masked(g, waking, chorded) = "sleep" => ~waking
           /\ Masked(g, waking, chorded) = "forget" => ~chorded
           /\ g \notin {"sleep", "forget"} => Masked(g, waking, chorded) = g
BY DEF Masked

LEMMA TrackOK ==
    ASSUME NEW t \in Tracks, NEW g \in Gestures, NEW d \in 1..MaxGap
    PROVE  /\ Track(t, g, d) \in Tracks
           /\ Track(t, g, d).tracked = g
           /\ g # t.tracked => /\ Track(t, g, d).age = 0
                               /\ ~Track(t, g, d).fired
           /\ g = t.tracked => /\ Track(t, g, d).age = Later(t.age, d, HoldLen)
                               /\ t.fired => Track(t, g, d).fired
                               /\ Track(t, g, d).fired =>
                                    t.fired \/ (g # "none"
                                                /\ Track(t, g, d).age = HoldLen)
<1>1. 0 \in 0..HoldLen /\ HoldLen \in Nat BY LoopAssumption
<1>2. CASE g # t.tracked
  <2>1. Track(t, g, d) = [tracked |-> g, age |-> 0, fired |-> FALSE]
      BY <1>2 DEF Track
  <2> QED BY <1>1, <1>2, <2>1 DEF Tracks
<1>3. CASE g = t.tracked
  <2> DEFINE age   == Later(t.age, d, HoldLen)
             fired == t.fired \/ (g # "none" /\ age = HoldLen)
  <2>1. t.age \in 0..HoldLen /\ t.fired \in BOOLEAN BY DEF Tracks
  <2>2. age \in 0..HoldLen BY <1>1, <2>1, LaterOK
  <2>3. Track(t, g, d) = [t EXCEPT !.age = age, !.fired = fired]
      BY <1>3, Zenon DEF Track
  <2>4. Track(t, g, d) = [tracked |-> g, age |-> age, fired |-> fired]
      BY <1>3, <2>3 DEF Tracks
  <2>5. fired \in BOOLEAN /\ (fired => t.fired \/ (g # "none" /\ age = HoldLen))
        /\ (t.fired => fired)
      OBVIOUS
  <2> HIDE DEF age, fired
  <2>6. /\ Track(t, g, d).tracked = g /\ Track(t, g, d).age = age
        /\ Track(t, g, d).fired = fired /\ Track(t, g, d) \in Tracks
      BY <2>2, <2>4, <2>5 DEF Tracks
  <2> QED BY <1>3, <2>5, <2>6, Zenon DEF age
<1> QED BY <1>2, <1>3

\* What runs has been tracked for the whole of the hold time, and had not run.
LEMMA FiresOK ==
    ASSUME NEW t \in Tracks, NEW g \in Gestures, NEW d \in 1..MaxGap,
           Fires(t, g, d)
    PROVE  /\ g # "none" /\ g = t.tracked /\ ~t.fired
           /\ Later(t.age, d, HoldLen) = HoldLen /\ Track(t, g, d).fired
<1>1. Track(t, g, d).fired /\ (g # t.tracked \/ ~t.fired) BY DEF Fires
<1>2. g = t.tracked BY <1>1, TrackOK
<1> QED BY <1>1, <1>2, TrackOK

-----------------------------------------------------------------------------
(* A turn of the loop, field by field. *)

LEMMA TurnFields ==
    ASSUME LoopInv, NEW d \in 1..MaxGap, NEW sel \in BOOLEAN,
           NEW held \in SUBSET Members, NEW both \in BOOLEAN,
           NEW moved \in BOOLEAN, NEW asked \in BOOLEAN,
           Turn(d, sel, held, both, moved, asked)
    PROVE  LET b == Detected(sel, held, both)
               g == Masked(b, wakeHold, shift'.fired)
           IN  /\ power = "running" /\ IInv'
               /\ b \in Gestures /\ g \in Gestures
               /\ gesture \in Tracks /\ hold \in Holds
               /\ gesture' = Track(gesture, g, d)
               /\ ran' \in {"none", g}
               /\ ran' # "none" => Fires(gesture, g, d)
               /\ ran' = "none" => hold'.runs = IF b = hold.gesture
                                                THEN hold.runs ELSE 0
               /\ ran' # "none" => hold'.runs = (IF b = hold.gesture
                                                 THEN hold.runs ELSE 0) + 1
               /\ hold'.gesture = b
               /\ hold'.age = IF b = hold.gesture
                              THEN Later(hold.age, d, HoldLen) ELSE 0
               /\ hold'.startUp = (hold.startUp \/ "start" \notin held)
               /\ wakeHold' = (wakeHold /\ "start" \in held)
               /\ hold' \in Holds
               /\ ran' \in Reboots \cup {"sleep"} => power' # "running"
               /\ power' \in Powers
<1> DEFINE b == Detected(sel, held, both)
           g == Masked(b, wakeHold, shift'.fired)
<1>1. gesture \in Tracks /\ hold \in Holds /\ IInv
    BY DEF LoopInv, LoopTypeOK, Tracks, Holds
<1>2. power = "running" /\ Poll(d, sel, held, moved)
    BY DEF Turn
<1>3. IInv' BY <1>1, <1>2, InvStep
<1>4. b \in Gestures BY DetectedOK
<1>5. g \in Gestures
  <2>1. g \in {b, "none"} BY MaskedOK
  <2> QED BY <1>4, <2>1 DEF Gestures
<1>6. /\ gesture' = Track(gesture, g, d)
      /\ wakeHold' = (wakeHold /\ "start" \in held)
      /\ ran' = IF ~asked /\ Fires(gesture, g, d) THEN g ELSE "none"
      /\ power' = CASE asked -> "asked"
                    [] ran' = "sleep" -> "asleep"
                    [] ran' \in Reboots -> "restarting"
                    [] OTHER -> IF unconn' > UnconnMax \/ quiet' > QuietMax
                                THEN "timed out" ELSE "running"
      /\ hold' = HoldAfter(sel, held, both, moved, d)
    BY Zenon DEF Turn
<1>7. ran' \in {"none", g} /\ (ran' # "none" => ~asked /\ Fires(gesture, g, d))
    BY <1>6, Zenon
<1> DEFINE age     == IF b = hold.gesture THEN Later(hold.age, d, HoldLen) ELSE 0
           before  == IF b = hold.gesture THEN hold.runs ELSE 0
           runs    == before + (IF ran' = "none" THEN 0 ELSE 1)
           chorded == sel /\ (hold.chorded \/ out'.chord # {})
           startUp == hold.startUp \/ "start" \notin held
<1>8. hold' = [gesture |-> b, age |-> age, runs |-> runs, chorded |-> chorded,
               startUp |-> startUp]
    BY <1>6, Zenon DEF HoldAfter
<1>9. age \in 0..HoldLen /\ before \in Nat /\ runs \in Nat
  <2>1. HoldLen \in Nat /\ 0 \in 0..HoldLen BY LoopAssumption
  <2>2. hold.age \in 0..HoldLen /\ hold.runs \in Nat BY <1>1 DEF Holds
  <2>3. Later(hold.age, d, HoldLen) \in 0..HoldLen BY <2>1, <2>2, LaterOK
  <2> QED BY <2>1, <2>2, <2>3
<1>10. chorded \in BOOLEAN /\ startUp \in BOOLEAN OBVIOUS
<1>11. power' \in Powers /\ (ran' \in Reboots \cup {"sleep"} => power' # "running")
  <2>1. CASE asked BY <1>6, <2>1, Zenon DEF Powers
  <2>2. CASE ~asked /\ ran' = "sleep" BY <1>6, <2>2 DEF Powers
  <2>3. CASE ~asked /\ ran' # "sleep" /\ ran' \in Reboots
      BY <1>6, <2>3 DEF Powers
  <2>4. CASE ~asked /\ ran' # "sleep" /\ ran' \notin Reboots
      BY <1>6, <2>4 DEF Powers
  <2> QED BY <2>1, <2>2, <2>3, <2>4
<1>12. /\ ran' = "none" => runs = before
       /\ ran' # "none" => runs = before + 1
    BY <1>9
<1> HIDE DEF age, runs, chorded, startUp, before
<1>13. /\ hold'.gesture = b /\ hold'.age = age /\ hold'.runs = runs
       /\ hold'.startUp = startUp
    BY <1>8
<1>14. hold' \in Holds BY <1>4, <1>8, <1>9, <1>10 DEF Holds
<1> QED
    BY <1>1, <1>2, <1>3, <1>4, <1>5, <1>6, <1>7, <1>11, <1>12, <1>13, <1>14,
       Zenon DEF age, before, startUp

-----------------------------------------------------------------------------
(* A turn keeps the invariant. *)

LEMMA TurnHold ==
    ASSUME LoopInv, NEW d \in 1..MaxGap, NEW sel \in BOOLEAN,
           NEW held \in SUBSET Members, NEW both \in BOOLEAN,
           NEW moved \in BOOLEAN, NEW asked \in BOOLEAN,
           Turn(d, sel, held, both, moved, asked)
    PROVE  /\ HoldInv'
           /\ ran' # "none" => hold'.gesture = ran' /\ hold'.age = HoldLen
<1> DEFINE b == Detected(sel, held, both)
           g == Masked(b, wakeHold, shift'.fired)
<1>1. /\ power = "running" /\ b \in Gestures /\ g \in Gestures
      /\ gesture \in Tracks /\ hold \in Holds
      /\ gesture' = Track(gesture, g, d)
      /\ ran' \in {"none", g} /\ (ran' # "none" => Fires(gesture, g, d))
      /\ ran' = "none" => hold'.runs = IF b = hold.gesture THEN hold.runs ELSE 0
      /\ ran' # "none" => hold'.runs = (IF b = hold.gesture
                                        THEN hold.runs ELSE 0) + 1
      /\ hold'.gesture = b
      /\ hold'.age = IF b = hold.gesture THEN Later(hold.age, d, HoldLen) ELSE 0
      /\ hold' \in Holds
      /\ ran' \in Reboots \cup {"sleep"} => power' # "running"
    BY TurnFields
<1>2. g \in {b, "none"} /\ (b \notin {"sleep", "forget"} => g = b)
    BY MaskedOK
<1> HIDE DEF b, g
<1>3. /\ HoldLen \in Nat /\ 0 \in 0..HoldLen
      /\ gesture.age \in 0..HoldLen /\ hold.age \in 0..HoldLen
      /\ hold'.age \in 0..HoldLen
    BY <1>1, LoopAssumption DEF Tracks, Holds
<1>4. /\ gesture.tracked # "none" =>
            gesture.tracked = hold.gesture /\ gesture.age <= hold.age
      /\ hold.runs \in {0, 1}
      /\ hold.runs = 1 => /\ hold.gesture \in {"profile", "dirmode"}
                          /\ gesture.tracked = hold.gesture /\ gesture.fired
    BY <1>1 DEF LoopInv, HoldInv
<1>5. /\ gesture'.tracked = g
      /\ g # gesture.tracked => gesture'.age = 0
      /\ g = gesture.tracked => /\ gesture'.age = Later(gesture.age, d, HoldLen)
                                /\ gesture.fired => gesture'.fired
    BY <1>1, TrackOK
<1>6. gesture'.tracked # "none" =>
          gesture'.tracked = hold'.gesture /\ gesture'.age <= hold'.age
  <2> SUFFICES ASSUME g # "none" PROVE g = b /\ gesture'.age <= hold'.age
      BY <1>1, <1>5
  <2>1. g = b BY <1>2
  <2>2. CASE g # gesture.tracked
    <3>1. gesture'.age = 0 BY <1>5, <2>2
    <3>2. 0 <= hold'.age BY <1>3
    <3> QED BY <2>1, <3>1, <3>2
  <2>3. CASE g = gesture.tracked
    <3>1. g = hold.gesture /\ gesture.age <= hold.age BY <1>4, <2>3
    <3>2. Later(gesture.age, d, HoldLen) <= Later(hold.age, d, HoldLen)
        BY <1>3, <3>1, LaterKeepsOrder
    <3> QED BY <1>1, <1>5, <2>1, <2>3, <3>1, <3>2
  <2> QED BY <2>1, <2>2, <2>3
<1>7. CASE ran' = "none"
  <2>1. hold'.runs \in {0, 1} BY <1>1, <1>4, <1>7
  <2>2. ASSUME hold'.runs = 1
        PROVE  /\ hold'.gesture \in {"profile", "dirmode"}
               /\ gesture'.tracked = hold'.gesture /\ gesture'.fired
    <3>1. b = hold.gesture /\ hold.runs = 1 BY <1>1, <1>7, <2>2
    <3>2. g = b BY <1>2, <1>4, <3>1
    <3> QED BY <1>1, <1>4, <1>5, <3>1, <3>2
  <2> QED BY <1>6, <1>7, <2>1, <2>2 DEF HoldInv
<1>8. CASE ran' # "none"
  <2>1. ran' = g /\ Fires(gesture, g, d) BY <1>1, <1>8
  <2>2. /\ g # "none" /\ g = gesture.tracked /\ ~gesture.fired
        /\ Later(gesture.age, d, HoldLen) = HoldLen
        /\ Track(gesture, g, d).fired
      BY <1>1, <2>1, FiresOK
  <2>3. g = b /\ b = hold.gesture /\ hold.runs = 0
      BY <1>2, <1>4, <2>2
  <2>4. hold'.runs = 1 BY <1>1, <1>8, <2>3
  <2>5. hold'.age = HoldLen
    <3>1. Later(gesture.age, d, HoldLen) <= Later(hold.age, d, HoldLen)
        BY <1>3, <1>4, <2>2, LaterKeepsOrder
    <3>2. hold'.age = Later(hold.age, d, HoldLen) BY <1>1, <2>3
    <3> QED BY <1>3, <2>2, <3>1, <3>2
  <2>6. power' = "running" => g \in {"profile", "dirmode"}
      BY <1>1, <2>1, <2>2 DEF Gestures
  <2>7. hold'.gesture = g /\ gesture'.tracked = g /\ gesture'.fired
      BY <1>1, <1>5, <2>2, <2>3
  <2> QED BY <1>6, <2>1, <2>4, <2>5, <2>6, <2>7 DEF HoldInv
<1> QED BY <1>7, <1>8

LEMMA TurnTypes ==
    ASSUME LoopInv, NEW d \in 1..MaxGap, NEW sel \in BOOLEAN,
           NEW held \in SUBSET Members, NEW both \in BOOLEAN,
           NEW moved \in BOOLEAN, NEW asked \in BOOLEAN,
           Turn(d, sel, held, both, moved, asked)
    PROVE  LoopTypeOK'
<1> DEFINE g == Masked(Detected(sel, held, both), wakeHold, shift'.fired)
<1>1. IInv' /\ g \in Gestures /\ gesture \in Tracks
      /\ gesture' = Track(gesture, g, d) /\ ran' \in {"none", g}
      /\ hold' \in Holds /\ power' \in Powers
      /\ wakeHold' = (wakeHold /\ "start" \in held)
    BY TurnFields
<1>2. gesture' \in Tracks BY <1>1, TrackOK
<1>3. ran' \in Gestures BY <1>1 DEF Gestures
<1>4. TypeOK' BY <1>1 DEF IInv
<1>5. ab' = both /\ world' = world BY DEF Turn
<1>6. wakeHold' \in BOOLEAN BY <1>1
<1> DEFINE moves == moved \/ both # ab \/ sel # pad.sel \/ held # pad.held
<1>7. unconn' = UnconnAfter(d) /\ quiet' = QuietAfter(d, moves)
    BY Zenon DEF Turn
<1>8. /\ world \in Facts /\ unconn \in 0..(UnconnMax + 1)
      /\ quiet \in 0..(QuietMax + 1)
    BY DEF LoopInv, LoopTypeOK
<1>9. unconn' \in 0..(UnconnMax + 1) /\ quiet' \in 0..(QuietMax + 1)
  <2>1. UnconnMax + 1 \in Nat /\ QuietMax + 1 \in Nat BY LoopAssumption
  <2>2. /\ Later(unconn, d, UnconnMax + 1) \in 0..(UnconnMax + 1)
        /\ Later(quiet, d, QuietMax + 1) \in 0..(QuietMax + 1)
      BY <1>8, <2>1, LaterOK
  <2>3. 0 \in 0..(UnconnMax + 1) /\ 0 \in 0..(QuietMax + 1) BY <2>1
  <2>4. /\ unconn' \in {0, Later(unconn, d, UnconnMax + 1)}
        /\ quiet' \in {0, Later(quiet, d, QuietMax + 1)}
      BY <1>7 DEF UnconnAfter, QuietAfter
  <2> QED BY <2>2, <2>3, <2>4
<1> HIDE DEF g, moves
<1> QED BY <1>1, <1>2, <1>3, <1>4, <1>5, <1>6, <1>8, <1>9
        DEF LoopTypeOK, Tracks, Holds, Powers

\* A Start that woke the stick is masked until it has been up.
LEMMA TurnWake ==
    ASSUME LoopInv, NEW d \in 1..MaxGap, NEW sel \in BOOLEAN,
           NEW held \in SUBSET Members, NEW both \in BOOLEAN,
           NEW moved \in BOOLEAN, NEW asked \in BOOLEAN,
           Turn(d, sel, held, both, moved, asked)
    PROVE  WakeInv' /\ (ran' = "sleep" => hold'.startUp)
<1> DEFINE g == Masked(Detected(sel, held, both), wakeHold, shift'.fired)
<1>1. /\ ran' \in {"none", g}
      /\ hold'.startUp = (hold.startUp \/ "start" \notin held)
      /\ wakeHold' = (wakeHold /\ "start" \in held)
    BY TurnFields
<1>2. g = "sleep" => ~wakeHold BY MaskedOK
<1>3. wakeHold \/ hold.startUp BY DEF LoopInv, WakeInv
<1>4. wakeHold \in BOOLEAN /\ hold.startUp \in BOOLEAN
    BY DEF LoopInv, LoopTypeOK
<1> HIDE DEF g
<1> QED BY <1>1, <1>2, <1>3, <1>4 DEF WakeInv

\* A press that has made a chord, on this player's line, is not one to forget.
LEMMA TurnChord ==
    ASSUME LoopInv, NEW d \in 1..MaxGap, NEW sel \in BOOLEAN,
           NEW held \in SUBSET Members, NEW both \in BOOLEAN,
           NEW moved \in BOOLEAN, NEW asked \in BOOLEAN,
           Turn(d, sel, held, both, moved, asked)
    PROVE  ran' = "forget" => ~press'.chorded
<1> DEFINE b == Detected(sel, held, both)
           g == Masked(b, wakeHold, shift'.fired)
<1>1. SUFFICES ASSUME ran' = "forget" PROVE ~press'.chorded
    OBVIOUS
<1>2. ran' \in {"none", g} /\ IInv' BY TurnFields
<1>3. g = "forget" BY <1>1, <1>2
<1>4. ~shift'.fired /\ g \in {b, "none"} BY <1>3, MaskedOK
<1>5. b = "forget" BY <1>3, <1>4
<1>6. sel BY <1>5, DetectedOK
<1>7. pad'.sel
  <2>1. Poll(d, sel, held, moved) BY DEF Turn
  <2>2. pad'.sel = sel BY <2>1, PollFields DEF LoopInv, IInv
  <2> QED BY <1>6, <2>2
<1> HIDE DEF b, g
<1>8. HistoryAgrees' BY <1>2 DEF IInv
<1>9. CASE window' = Off BY <1>8, <1>9 DEF HistoryAgrees
<1>10. CASE window' # Off BY <1>4, <1>7, <1>8, <1>10 DEF HistoryAgrees
<1> QED BY <1>9, <1>10

-----------------------------------------------------------------------------
(* The other steps. *)

\* A boot starts the chord layer as Init does.
LEMMA BootChords ==
    ASSUME NEW woken \in BOOLEAN, Boot(woken)
    PROVE  Init'
BY DEF Boot, Init

LEMMA InitChords == Init' => IInv'
BY InvInit, PTL

LEMMA BootInv ==
    ASSUME NEW woken \in BOOLEAN, Boot(woken)
    PROVE  LoopInv'
<1>1. IInv' BY BootChords, InitChords
<1>2. /\ HoldLen \in Nat /\ 0 \in 0..HoldLen
      /\ 0 \in 0..(UnconnMax + 1) /\ 0 \in 0..(QuietMax + 1)
    BY LoopAssumption
<1>3. gesture' = NoGesture /\ gesture' \in Tracks
    BY <1>2 DEF Boot, NoGesture, Tracks, Gestures
<1>4. hold' = [gesture |-> "none", age |-> 0, runs |-> 0, chorded |-> FALSE,
               startUp |-> ~woken]
    BY DEF Boot, NoHold
<1>5. hold' \in Holds BY <1>2, <1>4 DEF Holds, Gestures
<1>6. /\ ab' \in BOOLEAN /\ wakeHold' = woken /\ world' \in Facts
      /\ power' \in Powers /\ unconn' = 0 /\ quiet' = 0 /\ ran' = "none"
    BY DEF Boot, Powers
<1>7. LoopTypeOK'
    BY <1>1, <1>2, <1>3, <1>5, <1>6 DEF IInv, LoopTypeOK, Tracks, Holds, Powers,
                                        Gestures
<1>8. HoldInv' BY <1>3, <1>4 DEF HoldInv, NoGesture
<1>9. WakeInv' /\ RanInv' BY <1>4, <1>6 DEF WakeInv, RanInv
<1> QED BY <1>1, <1>7, <1>8, <1>9 DEF LoopInv

LEMMA StaysInv ==
    ASSUME LoopInv, WorldMoves \/ UNCHANGED vars
    PROVE  LoopInv'
<1>1. /\ UNCHANGED <<chordVars, ab, gesture, wakeHold, power, unconn, quiet,
                     ran, hold>>
      /\ world' \in Facts
    BY DEF WorldMoves, vars, loopVars, LoopInv, LoopTypeOK
<1>2. IInv'
    BY <1>1 DEF LoopInv, chordVars, IInv, TypeOK, HistoryAgrees, OutAgrees,
                ReportCurrent, SentAgrees, Resolved
<1>3. LoopTypeOK'
    BY <1>1, <1>2 DEF IInv, LoopInv, LoopTypeOK
<1>4. HoldInv' /\ WakeInv' BY <1>1 DEF LoopInv, HoldInv, WakeInv
<1>5. RanInv' BY <1>1 DEF LoopInv, RanInv, chordVars
<1> QED BY <1>2, <1>3, <1>4, <1>5 DEF LoopInv

LEMMA LoopInitInv == LoopInit => LoopInv
<1> SUFFICES ASSUME LoopInit PROVE LoopInv
    OBVIOUS
<1>1. IInv BY InvInit DEF LoopInit
<1>2. /\ HoldLen \in Nat /\ 0 \in 0..HoldLen
      /\ 0 \in 0..(UnconnMax + 1) /\ 0 \in 0..(QuietMax + 1)
    BY LoopAssumption
<1>3. gesture = NoGesture /\ gesture \in Tracks
    BY <1>2 DEF LoopInit, NoGesture, Tracks, Gestures
<1>4. hold = NoHold /\ hold \in Holds
    BY <1>2 DEF LoopInit, NoHold, Holds, Gestures
<1>5. LoopTypeOK
    BY <1>1, <1>2, <1>3, <1>4 DEF LoopInit, IInv, LoopTypeOK, Tracks, Holds,
                                  Gestures
<1>6. HoldInv /\ WakeInv /\ RanInv
    BY <1>3, <1>4 DEF LoopInit, HoldInv, WakeInv, RanInv, NoGesture, NoHold
<1> QED BY <1>1, <1>5, <1>6 DEF LoopInv

\* A turn keeps the invariant.
LEMMA TurnInv ==
    ASSUME LoopInv, NEW d \in 1..MaxGap, NEW sel \in BOOLEAN,
           NEW held \in SUBSET Members, NEW both \in BOOLEAN,
           NEW moved \in BOOLEAN, NEW asked \in BOOLEAN,
           Turn(d, sel, held, both, moved, asked)
    PROVE  LoopInv'
<1>1. IInv' BY TurnFields
<1>2. LoopTypeOK' BY TurnTypes
<1>3. HoldInv' BY TurnHold
<1>4. WakeInv' BY TurnWake
<1>5. RanInv' BY TurnHold, TurnChord, TurnWake DEF RanInv
<1> QED BY <1>1, <1>2, <1>3, <1>4, <1>5 DEF LoopInv

LEMMA LoopStep ==
    ASSUME LoopInv, [LoopNext]_vars
    PROVE  LoopInv'
<1>1. CASE Turns BY <1>1, TurnInv DEF Turns
<1>2. CASE WorldMoves BY <1>2, StaysInv
<1>3. ASSUME NEW woken \in BOOLEAN, Boot(woken) PROVE LoopInv'
    BY <1>3, BootInv
<1>4. CASE UNCHANGED vars BY <1>4, StaysInv
<1> QED BY <1>1, <1>2, <1>3, <1>4 DEF LoopNext

-----------------------------------------------------------------------------
(* The theorems. *)

\* Every state of the loop, in every boot, satisfies the inductive invariant,
\* the chord layer's among it.
THEOREM LoopInvHolds == LoopSpec => []LoopInv
<1>1. LoopInit => LoopInv BY LoopInitInv
<1>2. LoopInv /\ [LoopNext]_vars => LoopInv' BY LoopStep
<1> QED BY <1>1, <1>2, PTL DEF LoopSpec

\* The state of the loop has its type: its clocks stop at their limits.
THEOREM LoopTypes == LoopSpec => []LoopTypeOK
<1>1. LoopInv => LoopTypeOK BY DEF LoopInv
<1> QED BY <1>1, LoopInvHolds, PTL

\* A hold runs its gesture once, through masks that come and go, a console
\* that asks for sleep and any number of boots.
THEOREM RunsOnceHolds == LoopSpec => []RunsOnce
<1>1. LoopInv => RunsOnce BY DEF LoopInv, HoldInv, RunsOnce
<1> QED BY <1>1, LoopInvHolds, PTL

\* A gesture runs only for a combination held, by itself, for the whole of the
\* hold time.
THEOREM RunsOnlyHeldHolds == LoopSpec => RunsOnlyHeld
<1>1. LoopInv /\ [LoopNext]_vars =>
        [ran' # "none" => hold'.gesture = ran' /\ hold'.age = HoldLen]_vars
  BY LoopStep DEF LoopInv, RanInv
<1> QED BY <1>1, LoopInvHolds, PTL DEF LoopSpec, RunsOnlyHeld

\* While the slider stays where it is, a press of Select that made a chord never
\* forgets the host, however long it is held.
THEOREM ChordKeepsPairingHolds == LoopSpec => ChordKeepsPairing
<1>1. LoopInv /\ [LoopNext]_vars => [ran' = "forget" => ~press'.chorded]_vars
  BY LoopStep DEF LoopInv, RanInv
<1> QED BY <1>1, LoopInvHolds, PTL DEF LoopSpec, ChordKeepsPairing

\* The hold of Start that woke the stick does not put it to sleep.
THEOREM WakeHoldInertHolds == LoopSpec => WakeHoldInert
<1>1. LoopInv /\ [LoopNext]_vars => [ran' = "sleep" => hold'.startUp]_vars
  BY LoopStep DEF LoopInv, RanInv
<1> QED BY <1>1, LoopInvHolds, PTL DEF LoopSpec, WakeHoldInert

\* The chord layer keeps its promise under the whole loop, across every boot.
THEOREM DecidedInLoop == LoopSpec => []DecidedOnce
<1>1. LoopInv => DecidedOnce
  BY DecidedByInv DEF LoopInv
<1> QED BY <1>1, LoopInvHolds, PTL
=============================================================================
