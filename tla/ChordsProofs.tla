---------------------------- MODULE ChordsProofs ----------------------------
(***************************************************************************)
(* Proofs about the chord layer, for every set of members, every window    *)
(* and every pulse length.                                                 *)
(***************************************************************************)
EXTENDS Chords, TLAPS

\* The history of a press agrees with the state apply_chords() keeps for it.
\* With chords on, `armed` is Select being down, passthru is what went down
\* before it, and each outcome of the press is a flag of the layer.
HistoryAgrees ==
    /\ pad.sel => press.any
    /\ ~pad.sel => press.before = pad.held
    /\ window = Off =>
        /\ ~shift.armed /\ ~press.chorded
        /\ press.shown = IF press.any THEN 1 ELSE 0
    /\ window # Off =>
        /\ prev = pad.held
        /\ shift.armed = pad.sel
        /\ shift.armed => /\ shift.passthru = press.before
                          /\ shift.fired = press.chorded
                          /\ press.shown = IF shift.committed THEN 1 ELSE 0
                          /\ ~(shift.fired /\ shift.committed)
        /\ ~shift.armed =>
              /\ press.shown = IF press.any /\ ~press.chorded THEN 1 ELSE 0
              /\ press.chorded => press.any
              /\ shift.pulseLeft > 0 => press.any /\ ~press.chorded

\* The snapshot is the one the layer's state stands for, and a chord in it
\* has been noted in s_chord_fired.
OutAgrees ==
    /\ out = Resolved(shift, pad.sel, pad.held, player)
    /\ out.chord # {} => shift.fired

\* What was handed over last is what the transport has.
SentAgrees == lastSent = report

IInv == TypeOK /\ HistoryAgrees /\ OutAgrees /\ ReportCurrent /\ SentAgrees

-----------------------------------------------------------------------------
\* Aging the layer moves nothing but its two clocks.
LEMMA AgedFields ==
    ASSUME NEW sh \in ShiftState, NEW d \in 1..MaxGap
    PROVE  /\ Aged(sh, d) \in ShiftState
           /\ Aged(sh, d).armed <=> sh.armed
           /\ Aged(sh, d).fired <=> sh.fired
           /\ Aged(sh, d).committed <=> sh.committed
           /\ Aged(sh, d).passthru = sh.passthru
           /\ Aged(sh, d).pulseLeft > 0 => sh.pulseLeft > 0
<1>1. d \in Nat
  BY ChordsAssumption
<1>2. ASSUME NEW t \in Nat
      PROVE  Elapse(t, d) \in Nat /\ (Elapse(t, d) > 0 => t > 0)
  BY <1>1, <1>2, ChordsAssumption DEF Elapse
<1>3. Elapse(Hold, d) = Hold
  BY DEF Elapse
<1>4. QED
  BY <1>2, <1>3 DEF Aged, ShiftState

LEMMA ResetFields ==
    /\ Reset \in ShiftState
    /\ ~Reset.armed /\ ~Reset.fired /\ ~Reset.committed
    /\ Reset.passthru = {} /\ Reset.pulseLeft = 0
  BY DEF Reset, ShiftState

\* Decide() on an armed shift.
LEMMA DecideFields ==
    ASSUME NEW sh \in ShiftState, NEW held \in SUBSET Members, sh.armed
    PROVE  /\ Decide(sh, held) \in ShiftState
           /\ Decide(sh, held).armed
           /\ Decide(sh, held).passthru = sh.passthru \cap held
           /\ sh.committed => Decide(sh, held).committed
           /\ Decide(sh, held).committed => sh.committed \/ ~sh.fired
           /\ Decide(sh, held).committed =>
                sh.committed \/ sh.windowLeft = 0
           /\ Decide(sh, held).fired <=>
                sh.fired \/ (/\ ~Decide(sh, held).committed
                             /\ held \ sh.passthru # {})
<1>1. Decide(sh, held) \in ShiftState
  BY DEF Decide, ShiftState
<1>2. Decide(sh, held).armed
  BY DEF Decide, ShiftState
<1>3. Decide(sh, held).passthru = sh.passthru \cap held
  BY DEF Decide, ShiftState
<1>4. sh.committed => Decide(sh, held).committed
  BY DEF Decide, ShiftState
<1>5. Decide(sh, held).committed => sh.committed \/ ~sh.fired
  BY DEF Decide, ShiftState
<1>6. Decide(sh, held).committed => sh.committed \/ sh.windowLeft = 0
  BY DEF Decide, ShiftState
<1>7. Decide(sh, held).fired <=>
        sh.fired \/ (~Decide(sh, held).committed /\ held \ sh.passthru # {})
  BY DEF Decide, ShiftState
<1>8. QED
  BY <1>1, <1>2, <1>3, <1>4, <1>5, <1>6, <1>7

\* What Select landing leaves, before the members are looked at.
LEMMA LandFields ==
    ASSUME NEW sh \in ShiftState, NEW held \in SUBSET Members,
           window \in Windows, window # Off, prev \in SUBSET Members
    PROVE  /\ Land(sh, held) \in ShiftState
           /\ Land(sh, held).armed /\ ~Land(sh, held).fired
           /\ ~Land(sh, held).committed
           /\ Land(sh, held).passthru = prev \cap held
           /\ Land(sh, held).windowLeft # 0
<1>1. window \in (Nat \ {0}) \cup {Hold} /\ window # 0
  BY ChordsAssumption
<1>2. Land(sh, held) \in ShiftState
  BY <1>1 DEF Land, ShiftState
<1>3. QED
  BY <1>1, <1>2 DEF Land

LEMMA ReleaseFields ==
    ASSUME NEW sh \in ShiftState
    PROVE  /\ Release(sh) \in ShiftState
           /\ ~Release(sh).armed /\ ~Release(sh).fired
           /\ ~Release(sh).committed
           /\ Release(sh).passthru = {}
           /\ Release(sh).pulseLeft > 0 <=> ~sh.fired /\ ~sh.committed
<1>1. Release(sh) \in ShiftState
  BY ChordsAssumption DEF Release, Reset, ShiftState
<1>2. /\ ~Release(sh).armed /\ ~Release(sh).fired
      /\ ~Release(sh).committed /\ Release(sh).passthru = {}
  BY DEF Release, Reset
<1>3. Release(sh).pulseLeft =
        IF ~sh.fired /\ ~sh.committed THEN PulseLen ELSE 0
  BY DEF Release, Reset
<1>4. QED
  BY <1>1, <1>2, <1>3, ChordsAssumption

\* apply_chords() with chords on, case by case, from the state `sh` a poll
\* starts from: the aged one, or Reset when the slider moved.
LEMMA ApplyCases ==
    ASSUME TypeOK, window # Off, NEW sh \in ShiftState,
           NEW sel \in BOOLEAN, NEW held \in SUBSET Members
    PROVE  /\ ApplyChords(sh, sel, held) \in ShiftState
           /\ ApplyChords(sh, sel, held).armed <=> sel
           /\ ~sel /\ ~sh.armed => ApplyChords(sh, sel, held) = sh
           /\ ~sel /\ sh.armed => ApplyChords(sh, sel, held) = Release(sh)
           /\ sel /\ ~sh.armed =>
                ApplyChords(sh, sel, held) = Decide(Land(sh, held), held)
           /\ sel /\ sh.armed =>
                ApplyChords(sh, sel, held) = Decide(sh, held)
<1>0. window \in Windows /\ prev \in SUBSET Members
  BY DEF TypeOK
<1>1. CASE ~sel /\ ~sh.armed
  <2>1. ApplyChords(sh, sel, held) = sh
    BY <1>1 DEF ApplyChords, SelectEdge, Decide
  <2>2. QED
    BY <1>1, <2>1
<1>2. CASE ~sel /\ sh.armed
  <2>1. SelectEdge(sh, sel, held) = Release(sh)
    BY <1>2 DEF SelectEdge
  <2>2. ApplyChords(sh, sel, held) = Release(sh)
    BY <2>1, ReleaseFields DEF ApplyChords, Decide
  <2>3. QED
    BY <1>2, <2>2, ReleaseFields
<1>3. CASE sel /\ ~sh.armed
  <2>1. SelectEdge(sh, sel, held) = Land(sh, held)
    BY <1>3 DEF SelectEdge
  <2>2. ApplyChords(sh, sel, held) = Decide(Land(sh, held), held)
    BY <2>1 DEF ApplyChords
  <2>3. Land(sh, held) \in ShiftState /\ Land(sh, held).armed
    BY <1>0, LandFields
  <2>4. /\ Decide(Land(sh, held), held) \in ShiftState
        /\ Decide(Land(sh, held), held).armed
    BY <2>3, DecideFields
  <2>5. QED
    BY <1>3, <2>2, <2>4
<1>4. CASE sel /\ sh.armed
  <2>1. ApplyChords(sh, sel, held) = Decide(sh, held)
    BY <1>4 DEF ApplyChords, SelectEdge
  <2>2. Decide(sh, held) \in ShiftState /\ Decide(sh, held).armed
    BY <1>4, DecideFields
  <2>3. QED
    BY <1>4, <2>1, <2>2
<1>5. QED
  BY <1>1, <1>2, <1>3, <1>4

-----------------------------------------------------------------------------
\* The fields of a snapshot and of the press history, one by one.
LEMMA ResolvedFields ==
    ASSUME NEW sh \in ShiftState, NEW sel \in BOOLEAN,
           NEW held \in SUBSET Members, NEW p \in Players
    PROVE  /\ Resolved(sh, sel, held, p) \in Snapshot
           /\ Resolved(sh, sel, held, p).chord =
                IF sh.armed /\ ~sh.committed THEN held \ sh.passthru ELSE {}
           /\ sh.armed =>
                (Resolved(sh, sel, held, p).minus <=> sh.committed)
           /\ ~sh.armed /\ window # Off =>
                (Resolved(sh, sel, held, p).minus <=> sh.pulseLeft > 0)
           /\ ~sh.armed /\ window = Off =>
                (Resolved(sh, sel, held, p).minus <=> sel)
<1> DEFINE c == IF sh.armed /\ ~sh.committed THEN held \ sh.passthru ELSE {}
           m == IF sh.armed THEN sh.committed
                ELSE IF window = Off THEN sel ELSE sh.pulseLeft > 0
<1>0. c \in SUBSET Members /\ m \in BOOLEAN
  <2>1. sh.committed \in BOOLEAN /\ sh.armed \in BOOLEAN
    BY DEF ShiftState
  <2>2. (sh.pulseLeft > 0) \in BOOLEAN
    BY SMT
  <2>3. m \in BOOLEAN
    BY <2>1, <2>2, Zenon
  <2>4. QED
    BY <2>3 DEF ShiftState
<1>1. Resolved(sh, sel, held, p) \in Snapshot
  <2>1. Resolved(sh, sel, held, p) =
          [player |-> p, minus |-> m, plain |-> held \ c, chord |-> c]
    BY Zenon DEF Resolved
  <2> HIDE DEF c, m
  <2>2. QED
    BY <1>0, <2>1 DEF Snapshot
<1>2. Resolved(sh, sel, held, p).chord =
        IF sh.armed /\ ~sh.committed THEN held \ sh.passthru ELSE {}
  BY DEF Resolved
<1>3. sh.armed => (Resolved(sh, sel, held, p).minus <=> sh.committed)
  BY DEF Resolved
<1>4. ~sh.armed /\ window # Off =>
        (Resolved(sh, sel, held, p).minus <=> sh.pulseLeft > 0)
  BY DEF Resolved
<1>5. ~sh.armed /\ window = Off =>
        (Resolved(sh, sel, held, p).minus <=> sel)
  BY DEF Resolved
<1>6. QED
  BY <1>1, <1>2, <1>3, <1>4, <1>5

LEMMA PressFields ==
    ASSUME TypeOK, NEW d \in 1..MaxGap, NEW sel \in BOOLEAN,
           NEW held \in SUBSET Members, NEW moved \in BOOLEAN,
           out' \in Snapshot, Poll(d, sel, held, moved)
    PROVE  /\ press' \in [any : BOOLEAN, shown : Nat, chorded : BOOLEAN,
                          before : SUBSET Members]
           /\ press'.any <=> sel \/ (press.any /\ ~moved)
           /\ press'.shown =
                (IF (sel /\ (~pad.sel \/ moved)) \/ moved
                 THEN 0 ELSE press.shown)
                + (IF out'.minus /\ (moved \/ ~out.minus) THEN 1 ELSE 0)
           /\ press'.chorded <=>
                \/ press.chorded /\ ~(sel /\ (~pad.sel \/ moved)) /\ ~moved
                \/ out'.chord # {}
           /\ press'.before =
                IF sel THEN (IF moved THEN pad.held ELSE press.before)
                             \cap held
                ELSE held
<1>0. press' = PressAfter(sel, held, moved, out')
  BY Zenon DEF Poll
<1>1. press' \in [any : BOOLEAN, shown : Nat, chorded : BOOLEAN,
                  before : SUBSET Members]
  BY <1>0 DEF PressAfter, TypeOK, Snapshot
<1>2. press'.any <=> sel \/ (press.any /\ ~moved)
  BY <1>0 DEF PressAfter
<1>3. press'.shown =
        (IF (sel /\ (~pad.sel \/ moved)) \/ moved THEN 0 ELSE press.shown)
        + (IF out'.minus /\ (moved \/ ~out.minus) THEN 1 ELSE 0)
  BY <1>0 DEF PressAfter
<1>4. press'.chorded <=>
        \/ press.chorded /\ ~(sel /\ (~pad.sel \/ moved)) /\ ~moved
        \/ out'.chord # {}
  BY <1>0 DEF PressAfter
<1>5. press'.before =
        IF sel THEN (IF moved THEN pad.held ELSE press.before) \cap held
        ELSE held
  BY <1>0 DEF PressAfter
<1>6. QED
  BY <1>1, <1>2, <1>3, <1>4, <1>5

-----------------------------------------------------------------------------
\* The state a poll starts apply_chords() from.
Start(d, moved) == IF moved THEN Reset ELSE Aged(shift, d)

LEMMA StartFields ==
    ASSUME TypeOK, NEW d \in 1..MaxGap, NEW moved \in BOOLEAN
    PROVE  /\ Start(d, moved) \in ShiftState
           /\ Start(d, moved).armed <=> shift.armed /\ ~moved
           /\ Start(d, moved).fired <=> shift.fired /\ ~moved
           /\ Start(d, moved).committed <=> shift.committed /\ ~moved
           /\ Start(d, moved).passthru = IF moved THEN {} ELSE shift.passthru
           /\ Start(d, moved).pulseLeft > 0 => shift.pulseLeft > 0 /\ ~moved
<1>0. shift \in ShiftState
  BY DEF TypeOK
<1>1. CASE moved
  BY <1>1, ResetFields DEF Start
<1>2. CASE ~moved
  BY <1>0, <1>2, AgedFields DEF Start
<1>3. QED
  BY <1>1, <1>2

\* A poll, with the state after it named by what computes it.
LEMMA PollFields ==
    ASSUME TypeOK, NEW d \in 1..MaxGap, NEW sel \in BOOLEAN,
           NEW held \in SUBSET Members, NEW moved \in BOOLEAN,
           Poll(d, sel, held, moved)
    PROVE  /\ window' = window
           /\ pad'.sel = sel /\ pad'.held = held
           /\ pad' \in [sel : BOOLEAN, held : SUBSET Members]
           /\ player' \in Players
           /\ ~moved => player' = player
           /\ moved => player' # player
           /\ shift' = ApplyChords(Start(d, moved), sel, held)
           /\ shift' \in ShiftState
           /\ prev' = IF window = Off THEN prev ELSE held
           /\ out' = Resolved(shift', sel, held, player')
           /\ out' \in Snapshot
<1>1. /\ window' = window /\ pad' = [sel |-> sel, held |-> held]
      /\ player' = IF moved THEN 1 - player ELSE player
      /\ shift' = ApplyChords(Start(d, moved), sel, held)
      /\ prev' = IF window = Off THEN prev ELSE held
      /\ out' = Resolved(shift', sel, held, player')
  BY Zenon DEF Poll, Start
<1>2. player' \in Players /\ (moved => player' # player)
  BY <1>1 DEF TypeOK, Players
<1>3. Start(d, moved) \in ShiftState
  BY StartFields
<1>4. shift' \in ShiftState
  <2>1. CASE window = Off
    BY <1>1, <1>3, <2>1 DEF ApplyChords
  <2>2. CASE window # Off
    BY <1>1, <1>3, <2>2, ApplyCases
  <2>3. QED
    BY <2>1, <2>2
<1>5. out' \in Snapshot
  BY <1>1, <1>2, <1>4, ResolvedFields
<1>6. QED
  BY <1>1, <1>2, <1>4, <1>5

LEMMA TypeStep ==
    ASSUME TypeOK, NEW d \in 1..MaxGap, NEW sel \in BOOLEAN,
           NEW held \in SUBSET Members, NEW moved \in BOOLEAN,
           Poll(d, sel, held, moved)
    PROVE  TypeOK'
<1>1. press' \in [any : BOOLEAN, shown : Nat, chorded : BOOLEAN,
                  before : SUBSET Members]
  <2>1. out' \in Snapshot
    BY PollFields
  <2>2. QED
    BY <2>1, PressFields
<1>2. lastSent' \in Snapshot \cup {None} /\ report' \in Snapshot \cup {None}
  <2>1. out' \in Snapshot
    BY PollFields
  <2>2. \/ lastSent' = out' /\ report' = out'
        \/ lastSent' \in {None, lastSent} /\ report' = report
    BY DEF Poll
  <2>3. QED
    BY <2>1, <2>2 DEF TypeOK
<1>3. window' \in Windows /\ prev' \in SUBSET Members
  <2>1. window' = window /\ prev' = IF window = Off THEN prev ELSE held
    BY PollFields
  <2>2. QED
    BY <2>1 DEF TypeOK
<1>4. /\ pad' \in [sel : BOOLEAN, held : SUBSET Members]
      /\ player' \in Players /\ shift' \in ShiftState /\ out' \in Snapshot
  BY PollFields
<1>5. QED
  BY <1>1, <1>2, <1>3, <1>4 DEF TypeOK

\* After a poll the transport has that poll's snapshot.
LEMMA ReportStep ==
    ASSUME TypeOK, ReportCurrent, lastSent = report,
           NEW d \in 1..MaxGap, NEW sel \in BOOLEAN,
           NEW held \in SUBSET Members, NEW moved \in BOOLEAN,
           Poll(d, sel, held, moved)
    PROVE  report' = out' /\ lastSent' = report'
<1>1. out' \in Snapshot /\ out' = Resolved(shift', sel, held, player')
  BY PollFields
<1>2. CASE NeedsSend(IF moved THEN None ELSE lastSent, out')
  BY <1>2 DEF Poll
<1>3. CASE ~NeedsSend(IF moved THEN None ELSE lastSent, out')
  <2>1. ~moved /\ lastSent # None /\ SameInput(out', lastSent)
    BY <1>3 DEF NeedsSend
  <2>2. lastSent' = lastSent /\ report' = report
    BY <1>3, <2>1 DEF Poll
  <2>3. lastSent \in Snapshot
    BY <2>1 DEF TypeOK
  <2>4. out' = lastSent
    BY <1>1, <2>1, <2>3 DEF SameInput, Snapshot
  <2>5. QED
    BY <2>2, <2>4
<1>4. QED
  BY <1>2, <1>3

-----------------------------------------------------------------------------
\* With chords off, Select is passed straight through.
LEMMA OffStep ==
    ASSUME IInv, window = Off, NEW d \in 1..MaxGap, NEW sel \in BOOLEAN,
           NEW held \in SUBSET Members, NEW moved \in BOOLEAN,
           Poll(d, sel, held, moved)
    PROVE  HistoryAgrees' /\ OutAgrees'
<1>0a. TypeOK /\ ~shift.armed
  BY DEF IInv, HistoryAgrees
<1>0b. window' = Off
  BY <1>0a, PollFields
<1>0. TypeOK /\ ~shift.armed /\ window' = Off /\ shift \in ShiftState
  BY <1>0a, <1>0b DEF TypeOK
<1>1. ~shift'.armed /\ shift' \in ShiftState
  BY <1>0, PollFields, StartFields DEF ApplyChords
<1>2. out' = Resolved(shift', sel, held, player') /\ player' \in Players
  BY <1>0, PollFields
<1>3. /\ out' \in Snapshot /\ out'.chord = {}
      /\ out'.minus <=> sel
  BY <1>1, <1>2, ResolvedFields
<1>4. out.minus <=> pad.sel
  <2>1. /\ pad.sel \in BOOLEAN /\ pad.held \in SUBSET Members
        /\ player \in Players
        /\ out = Resolved(shift, pad.sel, pad.held, player)
    BY DEF TypeOK, IInv, OutAgrees
  <2>2. QED
    BY <1>0, <2>1, ResolvedFields
<1>5. pad'.sel = sel /\ pad'.held = held
  BY <1>0, PollFields
<1>6. OutAgrees'
  BY <1>0, <1>2, <1>3, <1>5 DEF OutAgrees, Resolved
<1>7. /\ press.shown = (IF press.any THEN 1 ELSE 0) /\ ~press.chorded
      /\ pad.sel => press.any
  BY DEF IInv, HistoryAgrees
<1>8. /\ press'.any <=> sel \/ (press.any /\ ~moved)
      /\ press'.shown =
           (IF (sel /\ (~pad.sel \/ moved)) \/ moved THEN 0 ELSE press.shown)
           + (IF out'.minus /\ (moved \/ ~out.minus) THEN 1 ELSE 0)
      /\ press'.chorded <=>
           \/ press.chorded /\ ~(sel /\ (~pad.sel \/ moved)) /\ ~moved
           \/ out'.chord # {}
      /\ press'.before = IF sel
                         THEN (IF moved THEN pad.held ELSE press.before)
                               \cap held
                         ELSE held
  BY <1>0, <1>3, PressFields, ZenonT(60)
<1>9. press'.shown = IF press'.any THEN 1 ELSE 0
  BY <1>3, <1>4, <1>7, <1>8
<1>10. ~press'.chorded /\ (~sel => press'.before = held)
  BY <1>3, <1>7, <1>8
<1>11. QED
  BY <1>0, <1>1, <1>5, <1>6, <1>8, <1>9, <1>10 DEF HistoryAgrees

\* With chords on: what the layer's state and the history were, and are.
LEMMA OnStep ==
    ASSUME IInv, window # Off, NEW d \in 1..MaxGap, NEW sel \in BOOLEAN,
           NEW held \in SUBSET Members, NEW moved \in BOOLEAN,
           Poll(d, sel, held, moved)
    PROVE  HistoryAgrees' /\ OutAgrees'
<1> DEFINE st == Start(d, moved)
<1>0. TypeOK
  BY DEF IInv
<1>1. /\ window' = window /\ window \in Windows
      /\ pad'.sel = sel /\ pad'.held = held /\ prev' = held
      /\ prev \in SUBSET Members /\ prev = pad.held
  BY <1>0, PollFields DEF IInv, HistoryAgrees, TypeOK
<1>2. /\ shift' = ApplyChords(st, sel, held) /\ shift' \in ShiftState
      /\ player' \in Players
      /\ out' = Resolved(shift', sel, held, player')
  BY <1>0, PollFields
<1>2a. out' \in Snapshot
  BY <1>0, PollFields
<1>3. /\ st \in ShiftState
      /\ st.armed <=> shift.armed /\ ~moved
      /\ st.fired <=> shift.fired /\ ~moved
      /\ st.committed <=> shift.committed /\ ~moved
      /\ st.passthru = IF moved THEN {} ELSE shift.passthru
      /\ st.pulseLeft > 0 => shift.pulseLeft > 0 /\ ~moved
  BY <1>0, StartFields
<1> HIDE DEF st
<1>4. shift \in ShiftState /\ (shift.armed <=> pad.sel)
  BY DEF IInv, HistoryAgrees, TypeOK
<1>5. /\ shift'.armed <=> sel
      /\ ~sel /\ ~st.armed => shift' = st
      /\ ~sel /\ st.armed => shift' = Release(st)
      /\ sel /\ ~st.armed => shift' = Decide(Land(st, held), held)
      /\ sel /\ st.armed => shift' = Decide(st, held)
  <2>1. st \in ShiftState
    BY <1>3
  <2>2. shift' = ApplyChords(st, sel, held)
    BY <1>2
  <2>3. QED
    BY <1>0, <2>1, <2>2, ApplyCases
<1>6. /\ out'.chord = IF shift'.armed /\ ~shift'.committed
                      THEN held \ shift'.passthru ELSE {}
      /\ shift'.armed => (out'.minus <=> shift'.committed)
      /\ ~shift'.armed => (out'.minus <=> shift'.pulseLeft > 0)
  <2>1. shift' \in ShiftState /\ player' \in Players
    BY <1>2
  <2>2. out' = Resolved(shift', sel, held, player')
    BY <1>2
  <2>3. /\ shift'.armed => (Resolved(shift', sel, held, player').minus
                              <=> shift'.committed)
        /\ ~shift'.armed => (Resolved(shift', sel, held, player').minus
                               <=> shift'.pulseLeft > 0)
    BY <2>1, ResolvedFields
  <2>4. Resolved(shift', sel, held, player').chord =
          IF shift'.armed /\ ~shift'.committed
          THEN held \ shift'.passthru ELSE {}
    BY <2>1, ResolvedFields
  <2>5. QED
    BY <2>2, <2>3, <2>4, ZenonT(60)
<1>7. /\ shift.armed => (out.minus <=> shift.committed)
      /\ ~shift.armed => (out.minus <=> shift.pulseLeft > 0)
  <2>1. /\ pad.sel \in BOOLEAN /\ pad.held \in SUBSET Members
        /\ player \in Players
        /\ out = Resolved(shift, pad.sel, pad.held, player)
    BY DEF TypeOK, IInv, OutAgrees
  <2>2. QED
    BY <1>4, <2>1, ResolvedFields
<1>8. /\ press'.any <=> sel \/ (press.any /\ ~moved)
      /\ press'.shown =
           (IF (sel /\ (~pad.sel \/ moved)) \/ moved THEN 0 ELSE press.shown)
           + (IF out'.minus /\ (moved \/ ~out.minus) THEN 1 ELSE 0)
      /\ press'.chorded <=>
           \/ press.chorded /\ ~(sel /\ (~pad.sel \/ moved)) /\ ~moved
           \/ out'.chord # {}
      /\ press'.before = IF sel
                         THEN (IF moved THEN pad.held ELSE press.before)
                               \cap held
                         ELSE held
  BY <1>0, <1>2a, PressFields, ZenonT(60)
<1>9. /\ pad.sel => press.any
      /\ shift.armed => /\ shift.passthru = press.before
                        /\ shift.fired = press.chorded
                        /\ press.shown = IF shift.committed THEN 1 ELSE 0
                        /\ ~(shift.fired /\ shift.committed)
      /\ ~shift.armed =>
            /\ press.shown = IF press.any /\ ~press.chorded THEN 1 ELSE 0
            /\ press.chorded => press.any
            /\ shift.pulseLeft > 0 => press.any /\ ~press.chorded
      /\ ~pad.sel => press.before = pad.held
  BY DEF IInv, HistoryAgrees
<1>10. OutAgrees'
  <2>1. out'.chord # {} => shift'.fired
    <3>1. CASE sel /\ ~st.armed
      <4>1. Land(st, held) \in ShiftState /\ Land(st, held).armed
        BY <1>1, <1>3, LandFields
      <4>2. QED
        BY <1>5, <1>6, <3>1, <4>1, DecideFields
    <3>2. CASE sel /\ st.armed
      BY <1>3, <1>5, <1>6, <3>2, DecideFields
    <3>3. CASE ~sel
      BY <1>5, <1>6, <3>3
    <3>4. QED
      BY <3>1, <3>2, <3>3
  <2>2. (out = Resolved(shift, pad.sel, pad.held, player))'
    BY <1>1, <1>2 DEF Resolved
  <2>3. QED
    BY <2>1, <2>2, Zenon DEF OutAgrees
<1>11. /\ shift'.fired \in BOOLEAN /\ shift'.committed \in BOOLEAN
       /\ press'.chorded \in BOOLEAN /\ shift'.armed = pad'.sel
  <2>1. press' \in [any : BOOLEAN, shown : Nat, chorded : BOOLEAN,
                    before : SUBSET Members]
    BY <1>0, <1>2a, PressFields, ZenonT(60)
  <2>2. shift'.armed \in BOOLEAN /\ shift'.armed = sel
    BY <1>2, <1>5 DEF ShiftState
  <2>3. QED
    BY <1>1, <1>2, <2>1, <2>2 DEF ShiftState
\* What the new history and the new state have to agree on, Select down.
<1>12. ASSUME sel, shift'.passthru = press'.before,
              shift'.fired <=> press'.chorded,
              press'.shown = IF shift'.committed THEN 1 ELSE 0,
              ~(shift'.fired /\ shift'.committed)
       PROVE  HistoryAgrees'
  <2>1. press'.any /\ shift'.armed /\ shift'.fired = press'.chorded
    BY <1>5, <1>8, <1>11, <1>12
  <2>2. QED
    BY <1>1, <1>11, <1>12, <2>1 DEF HistoryAgrees
\* And Select up.
<1>13. ASSUME ~sel,
              press'.shown = IF press'.any /\ ~press'.chorded THEN 1 ELSE 0,
              press'.chorded => press'.any,
              shift'.pulseLeft > 0 => press'.any /\ ~press'.chorded
       PROVE  HistoryAgrees'
  <2>1. press'.before = held /\ ~shift'.armed
    BY <1>5, <1>8, <1>13
  <2>2. QED
    BY <1>1, <1>11, <1>13, <2>1 DEF HistoryAgrees
<1>14. CASE sel /\ ~st.armed
  <2>1. /\ Land(st, held) \in ShiftState /\ Land(st, held).armed
        /\ ~Land(st, held).fired /\ ~Land(st, held).committed
        /\ Land(st, held).passthru = prev \cap held
        /\ Land(st, held).windowLeft # 0
    BY <1>1, <1>3, LandFields
  <2>2. /\ shift'.passthru = prev \cap held /\ ~shift'.committed
        /\ shift'.fired <=> held \ (prev \cap held) # {}
    BY <1>5, <1>14, <2>1, DecideFields
  <2>3. ~pad.sel \/ moved
    BY <1>3, <1>4, <1>14
  <2>4. ~out'.minus /\ out'.chord = held \ (prev \cap held)
    BY <1>5, <1>6, <1>14, <2>2
  <2>5. press'.before = prev \cap held
    BY <1>1, <1>8, <1>9, <1>14, <2>3
  <2>6. press'.shown = 0 /\ (press'.chorded <=> out'.chord # {})
    BY <1>8, <1>14, <2>3, <2>4
  <2>7. QED
    BY <1>10, <1>12, <1>14, <2>2, <2>4, <2>5, <2>6
<1>15. CASE sel /\ st.armed
  <2>1. /\ ~moved /\ shift.armed /\ pad.sel /\ st.passthru = press.before
        /\ st.fired <=> press.chorded
        /\ st.committed <=> shift.committed
    BY <1>3, <1>4, <1>9, <1>15
  <2>2. /\ shift'.passthru = press.before \cap held
        /\ st.committed => shift'.committed
        /\ shift'.committed => st.committed \/ ~st.fired
        /\ shift'.fired <=> st.fired \/ (/\ ~shift'.committed
                                         /\ held \ st.passthru # {})
    BY <1>3, <1>5, <1>15, <2>1, DecideFields
  <2>3. press'.before = press.before \cap held
    BY <1>8, <1>15, <2>1
  <2>4. held \ st.passthru = held \ (press.before \cap held)
    BY <2>1
  <2>5. press'.chorded <=> press.chorded \/ (/\ ~shift'.committed
                                             /\ held \ st.passthru # {})
    BY <1>5, <1>6, <1>8, <1>15, <2>1, <2>2, <2>4
  <2>6. press'.shown = IF shift'.committed THEN 1 ELSE 0
    BY <1>5, <1>6, <1>7, <1>8, <1>9, <1>15, <2>1, <2>2
  <2>7. ~(shift'.fired /\ shift'.committed)
    BY <1>9, <2>1, <2>2
  <2>8. QED
    BY <1>10, <1>12, <1>15, <2>1, <2>2, <2>3, <2>5, <2>6, <2>7
<1>16. CASE ~sel /\ st.armed
  <2>1. ~moved /\ shift.armed /\ pad.sel /\ press.any
    BY <1>3, <1>4, <1>9, <1>16
  <2>2. /\ ~shift'.armed
        /\ shift'.pulseLeft > 0 <=> ~st.fired /\ ~st.committed
    BY <1>3, <1>5, <1>16, ReleaseFields
  <2>3. /\ st.fired <=> press.chorded
        /\ st.committed <=> shift.committed
    BY <1>3, <1>9, <2>1
  <2>4. press'.any /\ (press'.chorded <=> press.chorded)
    BY <1>6, <1>8, <1>16, <2>1, <2>2
  <2>5. press'.shown = IF press'.any /\ ~press'.chorded THEN 1 ELSE 0
    BY <1>6, <1>7, <1>8, <1>9, <1>16, <2>1, <2>2, <2>3, <2>4
  <2>6. QED
    BY <1>10, <1>13, <1>16, <2>2, <2>3, <2>4, <2>5
<1>17. CASE ~sel /\ ~st.armed
  <2>1. /\ ~shift'.armed
        /\ shift'.pulseLeft > 0 => shift.pulseLeft > 0
        /\ shift'.pulseLeft > 0 => ~moved
    BY <1>3, <1>5, <1>17
  <2>2. CASE moved
    BY <1>10, <1>6, <1>8, <1>13, <1>17, <2>1, <2>2
  <2>3. CASE ~moved
    <3>1. ~shift.armed /\ ~pad.sel
      BY <1>3, <1>4, <1>17, <2>3
    <3>2. /\ press'.any <=> press.any
          /\ press'.chorded <=> press.chorded
      BY <1>6, <1>8, <1>17, <2>1, <2>3, <3>1
    <3>3. press'.shown = press.shown
      <4>1. press.shown \in Nat
        BY <1>0 DEF TypeOK
      <4>2. ~(out'.minus /\ ~out.minus)
        BY <1>6, <1>7, <2>1, <3>1
      <4>3. QED
        BY <1>8, <1>17, <2>3, <4>1, <4>2
    <3>4. QED
      BY <1>10, <1>9, <1>13, <1>17, <2>1, <3>1, <3>2, <3>3
  <2>4. QED
    BY <2>2, <2>3
<1>18. QED
  BY <1>10, <1>14, <1>15, <1>16, <1>17

LEMMA InvStep ==
    ASSUME IInv, NEW d \in 1..MaxGap, NEW sel \in BOOLEAN,
           NEW held \in SUBSET Members, NEW moved \in BOOLEAN,
           Poll(d, sel, held, moved)
    PROVE  IInv'
<1>1. TypeOK'
  BY TypeStep DEF IInv
<1>2. HistoryAgrees' /\ OutAgrees'
  BY OffStep, OnStep
<1>3. report' = out' /\ lastSent' = report'
  BY ReportStep DEF IInv, SentAgrees
<1>4. QED
  BY <1>1, <1>2, <1>3 DEF IInv, ReportCurrent, SentAgrees

LEMMA InvInit == Init => IInv
<1> SUFFICES ASSUME Init PROVE IInv
  OBVIOUS
<1>1. Reset \in ShiftState /\ ~Reset.armed /\ Reset.pulseLeft = 0
  BY ResetFields
<1>2. TypeOK
  BY <1>1 DEF Init, TypeOK, Snapshot
<1>3. HistoryAgrees
  BY <1>1 DEF Init, HistoryAgrees, Reset
<1>4. OutAgrees
  <2> DEFINE o == Resolved(shift, pad.sel, pad.held, player)
  <2>1. ~shift.armed /\ ~(shift.pulseLeft > 0) /\ shift = Reset
    BY <1>1 DEF Init
  <2>2. pad.sel = FALSE /\ pad.held = {}
    BY DEF Init
  <2>3. o = [player |-> player, minus |-> FALSE, plain |-> {}, chord |-> {}]
    <3> DEFINE c == IF shift.armed /\ ~shift.committed
                    THEN pad.held \ shift.passthru ELSE {}
               m == IF shift.armed THEN shift.committed
                    ELSE IF window = Off THEN pad.sel
                         ELSE shift.pulseLeft > 0
    <3>1. o = [player |-> player, minus |-> m,
               plain |-> pad.held \ c, chord |-> c]
      BY Zenon DEF Resolved
    <3>2. c = {} /\ pad.held \ c = {}
      BY <2>1, <2>2
    <3>3. m = FALSE
      BY <2>1, <2>2
    <3>4. QED
      BY <3>1, <3>2, <3>3, Zenon
  <2>4. out = o /\ out.chord = {}
    BY <2>3 DEF Init
  <2>5. QED
    BY <2>4 DEF OutAgrees
<1>5. ReportCurrent /\ SentAgrees
  BY DEF Init, ReportCurrent, SentAgrees
<1>6. QED
  BY <1>2, <1>3, <1>4, <1>5 DEF IInv

\* Every state of the layer satisfies the inductive invariant.
THEOREM Invariance == Spec => []IInv
<1>1. Init => IInv
  BY InvInit
<1>2. IInv /\ [Next]_chordVars => IInv'
  <2> SUFFICES ASSUME IInv, [Next]_chordVars PROVE IInv'
    OBVIOUS
  <2>1. CASE Next
    BY <2>1, InvStep DEF Next
  <2>2. CASE UNCHANGED chordVars
    BY <2>2 DEF chordVars, IInv, TypeOK, HistoryAgrees, OutAgrees,
                ReportCurrent, SentAgrees, Resolved
  <2>3. QED
    BY <2>1, <2>2
<1>3. QED
  BY <1>1, <1>2, PTL DEF Spec

\* The state of the layer always has its type, in particular the pulse and
\* the window count down to zero and no further.
THEOREM TypeCorrect == Spec => []TypeOK
<1>1. IInv => TypeOK
  BY DEF IInv
<1>2. QED
  BY <1>1, Invariance, PTL

\* The invariant says what a press has come to.
LEMMA DecidedByInv == IInv => DecidedOnce
<1> SUFFICES ASSUME IInv PROVE DecidedOnce
  OBVIOUS
<1>1. CASE window = Off
  BY <1>1 DEF IInv, TypeOK, HistoryAgrees, DecidedOnce
<1>2. CASE window # Off
  BY <1>2 DEF IInv, TypeOK, HistoryAgrees, DecidedOnce
<1>3. QED
  BY <1>1, <1>2

\* One press of Select shows the host one Minus or a chord, never both and
\* never two, whatever the window, the pulse and the timing of the polls.
THEOREM DecidedOnceHolds == Spec => []DecidedOnce
  BY DecidedByInv, Invariance, PTL

\* Exactly the members pressed with or after Select are shifted.
THEOREM ChordIffFreshHolds == Spec => []ChordIffFresh
<1>1. IInv => ChordIffFresh
  <2> SUFFICES ASSUME IInv PROVE ChordIffFresh
    OBVIOUS
  <2>1. /\ shift \in ShiftState /\ pad.sel \in BOOLEAN
        /\ pad.held \in SUBSET Members /\ player \in Players
        /\ out = Resolved(shift, pad.sel, pad.held, player)
    BY DEF IInv, TypeOK, OutAgrees
  <2>2. out.chord = IF shift.armed /\ ~shift.committed
                    THEN pad.held \ shift.passthru ELSE {}
    <3>1. Resolved(shift, pad.sel, pad.held, player).chord =
            IF shift.armed /\ ~shift.committed
            THEN pad.held \ shift.passthru ELSE {}
      BY DEF Resolved
    <3>2. QED
      BY <2>1, <3>1, Zenon
  <2>2a. shift.armed => (out.minus <=> shift.committed)
    BY <2>1, ResolvedFields
  <2>3. CASE window = Off
    BY <2>2, <2>2a, <2>3 DEF IInv, HistoryAgrees, ChordIffFresh
  <2>4. CASE window # Off
    BY <2>2, <2>2a, <2>4 DEF IInv, HistoryAgrees, ChordIffFresh
  <2>5. QED
    BY <2>3, <2>4
<1>2. QED
  BY <1>1, Invariance, PTL

\* The transport holds the snapshot of the last poll.
THEOREM ReportCurrentHolds == Spec => []ReportCurrent
<1>1. IInv => ReportCurrent
  BY DEF IInv
<1>2. QED
  BY <1>1, Invariance, PTL

\* What the invariant says of the members shown as chords.
ChordState ==
    /\ window = Off => out.chord = {}
    /\ window # Off /\ pad.sel =>
         /\ shift.armed
         /\ out.chord = IF shift.committed THEN {}
                        ELSE pad.held \ shift.passthru
         /\ shift.committed \/ shift.fired \/ out.chord = {}

LEMMA ChordShown == IInv => ChordState
<1> SUFFICES ASSUME IInv PROVE ChordState
  OBVIOUS
<1>1. out = Resolved(shift, pad.sel, pad.held, player)
  BY DEF IInv, OutAgrees
<1>2. Resolved(shift, pad.sel, pad.held, player).chord =
        IF shift.armed /\ ~shift.committed
        THEN pad.held \ shift.passthru ELSE {}
  BY DEF Resolved
<1>3. out.chord = IF shift.armed /\ ~shift.committed
                  THEN pad.held \ shift.passthru ELSE {}
  BY <1>1, <1>2, Zenon
<1>4. CASE window = Off
  BY <1>3, <1>4 DEF IInv, HistoryAgrees, ChordState
<1>5. CASE window # Off
  BY <1>3, <1>5 DEF IInv, HistoryAgrees, OutAgrees, ChordState
<1>6. QED
  BY <1>4, <1>5

\* A member held through a poll with Select down keeps its role.
LEMMA RoleStep ==
    ASSUME IInv, NEW d \in 1..MaxGap, NEW sel \in BOOLEAN,
           NEW held \in SUBSET Members, NEW moved \in BOOLEAN,
           Poll(d, sel, held, moved), NEW m \in Members
    PROVE  KeepsRole(m)
<1> SUFFICES ASSUME pad.sel, pad'.sel, m \in pad.held, m \in pad'.held,
                    player' = player
             PROVE  (m \in out.chord) = (m \in out'.chord)
  BY DEF KeepsRole
<1>0. TypeOK /\ IInv'
  BY InvStep DEF IInv
<1>1. window' = window /\ pad'.sel = sel /\ pad'.held = held /\ ~moved
  BY <1>0, PollFields
<1>1a. ChordState /\ ChordState'
  BY <1>0, ChordShown, PTL
<1>2. CASE window = Off
  <2>1. out.chord = {}
    BY <1>1a, <1>2 DEF ChordState
  <2>2. out'.chord = {}
    BY <1>1, <1>1a, <1>2 DEF ChordState
  <2>3. QED
    BY <2>1, <2>2
<1>3. CASE window # Off
  <2> DEFINE st == Start(d, moved)
  <2>1. /\ shift.armed
        /\ out.chord = IF shift.committed THEN {}
                       ELSE pad.held \ shift.passthru
        /\ shift.committed \/ shift.fired \/ out.chord = {}
    BY <1>1a, <1>3 DEF ChordState
  <2>2. out'.chord = IF shift'.committed THEN {}
                     ELSE held \ shift'.passthru
    BY <1>1, <1>1a, <1>3 DEF ChordState
  <2>3. /\ st \in ShiftState /\ st.armed
        /\ st.fired <=> shift.fired
        /\ st.committed <=> shift.committed
        /\ st.passthru = shift.passthru
    BY <1>0, <1>1, <2>1, StartFields
  <2>4. shift' = ApplyChords(st, sel, held)
    BY <1>0, PollFields
  <2> HIDE DEF st
  <2>5. shift' = Decide(st, held)
    BY <1>0, <1>1, <1>3, <2>3, <2>4, ApplyCases
  <2>6. /\ shift'.passthru = shift.passthru \cap held
        /\ shift.committed => shift'.committed
        /\ shift'.committed => shift.committed \/ ~shift.fired
    BY <2>3, <2>5, DecideFields
  <2>7. CASE shift.committed
    BY <2>1, <2>2, <2>6, <2>7
  <2>8. CASE ~shift.committed /\ shift'.committed
    BY <2>1, <2>2, <2>6, <2>8
  <2>9. CASE ~shift.committed /\ ~shift'.committed
    BY <1>1, <2>1, <2>2, <2>6, <2>9
  <2>10. QED
    BY <2>7, <2>8, <2>9
<1>4. QED
  BY <1>2, <1>3

\* A button held through a step with Select down keeps its role: no chord
\* turns into the plain button under the player's thumb, or back.
THEOREM RoleStableHolds == Spec => RoleStable
<1>1. IInv /\ [Next]_chordVars => [\A m \in Members : KeepsRole(m)]_chordVars
  BY RoleStep DEF Next
<1>2. QED
  BY <1>1, Invariance, PTL DEF Spec, RoleStable

=============================================================================
