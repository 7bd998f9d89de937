--------------------------- MODULE ProLinkProofs ----------------------------
(***************************************************************************)
(* Theorems about ProLink.  For any hosts, channels and budgets: its       *)
(* types, and that the app's view of the connection follows the HID        *)
(* device.  What the comments promise, under the weakest assumption about  *)
(* the hosts that the runs found it to hold under.                         *)
(***************************************************************************)
EXTENDS ProLink, TLAPS

\* What Findable and Budget say, of any value of the statics.
FindableOf(a) ==
    /\ a.hidOpen => a.link = "connected" /\ ~a.scan
    /\ ~a.hidOpen => a.link # "connected"
                      /\ a.scan = (a.link = "advertising")
BudgetOf(a) ==
    /\ a.fast <= FastMax /\ a.slow <= SlowMax
    /\ a.slowMode => a.fast = FastMax
    /\ a.slow > 0 => a.slowMode

Good(a) == a \in App /\ FindableOf(a) /\ BudgetOf(a)

\* A device that is not in use is not connected and remembers no channel.
HidOK(d) ==
    /\ d \in Hid
    /\ d.connected => d.inUse
    /\ d.inUse => d.peer # NoHost
    /\ ~d.inUse => d.ctrl = 0 /\ d.intr = 0

ChansOK(cs) == DOMAIN cs \subseteq Cids /\ cs \in [DOMAIN cs -> Chan]

RestOK ==
    /\ acl \in [Hosts -> {"down", "paging", "up"}]
    /\ keys \in SUBSET Hosts /\ draining \in Hosts \cup {NoHost}
    /\ faults \in 0..MaxFaults
    /\ asked \in [page : BOOLEAN, level2 : BOOLEAN]

LinkInv ==
    /\ Good(app) /\ HidOK(hid) /\ ChansOK(chans) /\ RestOK
    /\ app.hidOpen = hid.connected
    /\ draining # NoHost => ~asked.page

-----------------------------------------------------------------------------
(* The handlers of bt_pro_btstack.cpp. *)

LEMMA ArmKickGood ==
    ASSUME NEW a, Good(a), NEW reset \in BOOLEAN
    PROVE  Good(ArmKick(a, reset)) /\ ArmKick(a, reset).hidOpen = a.hidOpen
<1> DEFINE b == ArmKick(a, reset)
<1>1. a \in App /\ 0 <= FastMax /\ 0 <= SlowMax
  BY LinkAssumption DEF Good
<1>2. /\ b.fast = IF reset THEN 0 ELSE a.fast
      /\ b.slow = IF reset THEN 0 ELSE a.slow
      /\ b.slowMode = (a.slowMode /\ ~reset)
      /\ b.hidOpen = a.hidOpen /\ b.link = a.link /\ b.scan = a.scan
  BY <1>1 DEF ArmKick, App
<1>3. b \in App
  <2>1. CASE reset
    BY <1>1, <2>1 DEF ArmKick, App, Kicks
  <2>2. CASE ~reset
    BY <1>1, <2>2 DEF ArmKick, App, Kicks
  <2> QED
    BY <2>1, <2>2
<1>4. FindableOf(b)
  BY <1>2 DEF FindableOf, Good
<1>5. BudgetOf(b)
  <2>1. CASE reset
    <3>1. b.slow = 0 /\ b.fast = 0 /\ ~b.slowMode
      BY <1>2, <2>1
    <3> QED
      BY <1>1, <3>1 DEF BudgetOf
  <2>2. CASE ~reset
    BY <1>1, <1>2, <2>2 DEF BudgetOf, Good, App
  <2> QED
    BY <2>1, <2>2
<1> QED
  BY <1>2, <1>3, <1>4, <1>5 DEF Good

LEMMA DiscoverableGood ==
    ASSUME NEW a \in App, BudgetOf(a), ~a.hidOpen
    PROVE  Good(Discoverable(a)) /\ ~Discoverable(a).hidOpen
  BY DEF Good, FindableOf, BudgetOf, Discoverable, App, Links

LEMMA OnOpenFailedGood ==
    ASSUME NEW a, Good(a)
    PROVE  Good(OnOpenFailed(a)) /\ OnOpenFailed(a).hidOpen = a.hidOpen
<1>1. CASE a.hidOpen
  BY <1>1 DEF OnOpenFailed
<1>2. CASE ~a.hidOpen
  <2>1. Good(Discoverable(a)) /\ ~Discoverable(a).hidOpen
    BY <1>2, DiscoverableGood DEF Good
  <2>2. Good(ArmKick(Discoverable(a), FALSE))
    BY <2>1, ArmKickGood
  <2>3. ArmKick(Discoverable(a), FALSE).hidOpen = a.hidOpen
    BY DEF ArmKick, Discoverable, Good, App
  <2> QED
    BY <1>2, <2>2, <2>3 DEF OnOpenFailed
<1> QED
  BY <1>1, <1>2

LEMMA OnOpenedGood ==
    ASSUME NEW a, Good(a), NEW h \in Hosts
    PROVE  Good(OnOpened(a, h)) /\ OnOpened(a, h).hidOpen
<1>1. a \in App /\ 0 <= FastMax /\ 0 <= SlowMax
  BY LinkAssumption DEF Good
<1>2. /\ CancelKick(a) \in App
      /\ CancelKick(a).fast = 0 /\ CancelKick(a).slow = 0
      /\ ~CancelKick(a).slowMode
  BY <1>1 DEF CancelKick, App, Kicks
<1>3. OnOpened(a, h) \in App
  BY <1>2 DEF OnOpened, App, Links
<1>6. /\ OnOpened(a, h).fast = 0 /\ OnOpened(a, h).slow = 0
      /\ ~OnOpened(a, h).slowMode
  BY <1>2 DEF OnOpened, App
<1>7. BudgetOf(OnOpened(a, h))
  BY <1>1, <1>6 DEF BudgetOf
<1>4. /\ OnOpened(a, h).hidOpen /\ OnOpened(a, h).link = "connected"
      /\ ~OnOpened(a, h).scan
  BY <1>2 DEF OnOpened, App
<1>5. FindableOf(OnOpened(a, h))
  BY <1>4 DEF FindableOf
<1> QED
  BY <1>3, <1>4, <1>5, <1>7 DEF Good

LEMMA OnClosedGood ==
    ASSUME NEW a, Good(a)
    PROVE  Good(OnClosed(a)) /\ ~OnClosed(a).hidOpen
<1> DEFINE b == [a EXCEPT !.hidOpen = FALSE]
<1>1. b \in App /\ BudgetOf(b) /\ ~b.hidOpen
  BY DEF Good, App, BudgetOf
<1>2. Good(Discoverable(b)) /\ ~Discoverable(b).hidOpen
  BY <1>1, DiscoverableGood
<1>3. Good(ArmKick(Discoverable(b), TRUE))
  BY <1>2, ArmKickGood
<1>4. ~ArmKick(Discoverable(b), TRUE).hidOpen
  BY DEF ArmKick, Discoverable, Good, App
<1> QED
  BY <1>3, <1>4 DEF OnClosed

-----------------------------------------------------------------------------
(* The channels. *)

LEMMA WithOK ==
    ASSUME NEW cs, ChansOK(cs), NEW c \in Cids, NEW ch \in Chan
    PROVE  ChansOK(With(cs, c, ch))
  BY DEF ChansOK, With

LEMMA WithoutOK ==
    ASSUME NEW cs, ChansOK(cs), NEW c
    PROVE  ChansOK(Without(cs, c))
  BY DEF ChansOK, Without

LEMMA KnowsInUse ==
    ASSUME HidOK(hid), NEW c \in Cids, Knows(hid, c)
    PROVE  hid.inUse /\ hid.peer \in Hosts
  BY LinkAssumption DEF HidOK, Knows, Hid

\* The failure of a channel leaves both flags as they are.
LEMMA HidOpenFailedStep ==
    ASSUME LinkInv, NEW c, HidOpenFailed(c)
    PROVE  Good(app') /\ HidOK(hid') /\ app'.hidOpen = hid'.connected
  BY OnOpenFailedGood DEF LinkInv, HidOpenFailed

\* The end of a channel ends the connection for both or for neither.
LEMMA HidClosedStep ==
    ASSUME LinkInv, NEW c \in Cids, HidClosed(c)
    PROVE  Good(app') /\ HidOK(hid') /\ app'.hidOpen = hid'.connected
<1>1. CASE ~Knows(hid, c)
  BY <1>1 DEF HidClosed, LinkInv
<1>2. CASE Knows(hid, c)
  <2> DEFINE d == [hid EXCEPT !.incoming = FALSE,
                              !.intr = IF @ = c THEN 0 ELSE @,
                              !.ctrl = IF @ = c THEN 0 ELSE @]
             over == d.intr = 0 /\ d.ctrl = 0
  <2>1. hid.inUse /\ hid.peer \in Hosts
    BY <1>2, KnowsInUse DEF LinkInv
  <2>2. /\ d \in Hid /\ d.connected = hid.connected
        /\ d.inUse = hid.inUse /\ d.peer = hid.peer
    BY DEF LinkInv, HidOK, Hid
  <2>3. /\ hid' = IF over THEN [d EXCEPT !.connected = FALSE,
                                         !.handle = NoHost, !.inUse = FALSE]
                  ELSE d
        /\ app' = IF over THEN OnClosed(app) ELSE app
    BY <1>2 DEF HidClosed
  <2>4. CASE over
    <3>a. d.intr = 0 /\ d.ctrl = 0
      BY <2>4
    <3> HIDE DEF d, over
    <3>0. hid' = [d EXCEPT !.connected = FALSE, !.handle = NoHost,
                           !.inUse = FALSE]
      BY <2>3, <2>4
    <3>1. HidOK(hid') /\ ~hid'.connected /\ hid'.connected \in BOOLEAN
      BY <2>2, <3>0, <3>a DEF HidOK, Hid
    <3>2. Good(app') /\ ~app'.hidOpen
      BY <2>3, <2>4, OnClosedGood DEF LinkInv
    <3>3. app'.hidOpen \in BOOLEAN
      BY <3>2 DEF Good, App
    <3> QED
      BY <3>1, <3>2, <3>3
  <2>5. CASE ~over
    BY <2>1, <2>2, <2>3, <2>5, LinkAssumption DEF LinkInv, HidOK
  <2> QED
    BY <2>4, <2>5
<1> QED
  BY <1>1, <1>2

\* A channel that opens completes the connection for both or for neither.
LEMMA HidOpenedStep ==
    ASSUME LinkInv, NEW c \in Live, NEW n \in Cids, HidOpened(c, chans[c], n)
    PROVE  /\ Good(app') /\ HidOK(hid') /\ app'.hidOpen = hid'.connected
           /\ ChansOK(chans')
<1> DEFINE ch   == chans[c]
           d    == [hid EXCEPT !.handle = IF @ = NoHost THEN ch.host ELSE @]
           next == ~hid.incoming /\ ch.psm = "control"
           both == ~d.connected /\ d.ctrl # 0 /\ d.intr # 0
           up   == [chans EXCEPT ![c].state = "open"]
<1>1. c \in Cids /\ ch \in Chan
  BY DEF LinkInv, ChansOK, Live
<1>2. ChansOK(up)
  BY <1>1 DEF LinkInv, ChansOK, Live, Chan
<1>3. CASE ~Knows(hid, c)
  BY <1>2, <1>3 DEF HidOpened, LinkInv
<1>4. CASE Knows(hid, c)
  <2>1. hid.inUse /\ hid.peer \in Hosts
    BY <1>1, <1>4, KnowsInUse DEF LinkInv
  <2>2. /\ d \in Hid /\ d.connected = hid.connected /\ d.inUse
        /\ d.peer = hid.peer
    BY <1>1, <2>1 DEF LinkInv, HidOK, Hid, Chan
  <2>3. CASE next
    <3>1. /\ hid' = [d EXCEPT !.intr = n]
          /\ chans' = With(up, n, NewChan(d.peer, "interrupt", FALSE,
                                          "opening"))
          /\ app' = app
      BY <1>4, <2>3 DEF HidOpened
    <3>2. HidOK(hid') /\ hid'.connected = hid.connected
      BY <2>1, <2>2, <3>1, LinkAssumption DEF HidOK, Hid
    <3>3. NewChan(d.peer, "interrupt", FALSE, "opening") \in Chan
      BY <2>1, <2>2 DEF NewChan, Chan, Psms
    <3>4. ChansOK(chans')
      BY <1>2, <3>1, <3>3, WithOK
    <3> QED
      BY <3>1, <3>2, <3>4 DEF LinkInv
  <2>4. CASE ~next
    <3>1. /\ hid' = IF both THEN [d EXCEPT !.connected = TRUE] ELSE d
          /\ chans' = up
          /\ app' = IF both THEN OnOpened(app, d.peer) ELSE app
      BY <1>4, <2>4 DEF HidOpened
    <3>2. CASE both
      <4>1. HidOK(hid') /\ hid'.connected = TRUE
        BY <2>1, <2>2, <3>1, <3>2, LinkAssumption DEF HidOK, Hid
      <4>2. Good(app') /\ app'.hidOpen
        BY <2>1, <2>2, <3>1, <3>2, OnOpenedGood DEF LinkInv
      <4>3. app'.hidOpen = TRUE
        BY <4>2 DEF Good, App
      <4> QED
        BY <1>2, <3>1, <4>1, <4>2, <4>3
    <3>3. CASE ~both
      BY <1>2, <2>1, <2>2, <3>1, <3>3, LinkAssumption DEF LinkInv, HidOK
    <3> QED
      BY <3>2, <3>3
  <2> QED
    BY <2>3, <2>4
<1> QED
  BY <1>3, <1>4

-----------------------------------------------------------------------------
(* The actions.  Those of the app first. *)

LEMMA InitInv == LinkInit => LinkInv
<1> SUFFICES ASSUME LinkInit PROVE LinkInv
  OBVIOUS
<1>1. app \in App /\ ~app.hidOpen /\ app.hidOpen = FALSE
  BY LinkAssumption DEF LinkInit, App, Links, Kicks
<1>2. FindableOf(app) /\ BudgetOf(app)
  <2>1. /\ ~app.hidOpen /\ app.link = "idle" /\ app.scan = FALSE
        /\ ~app.slowMode /\ app.slow = 0 /\ app.fast = 0
    BY DEF LinkInit
  <2>2. app.scan = (app.link = "advertising")
    BY <2>1
  <2> QED
    BY <2>1, <2>2, LinkAssumption DEF FindableOf, BudgetOf
<1>3. HidOK(hid) /\ hid.connected = FALSE
  BY DEF LinkInit, HidOK, Hid, Setup
<1>4. ChansOK(chans)
  BY DEF LinkInit, ChansOK
<1>5. RestOK /\ draining = NoHost
  BY LinkAssumption DEF LinkInit, RestOK
<1> QED
  BY <1>1, <1>2, <1>3, <1>4, <1>5 DEF LinkInv, Good

\* A quiet step starts no page.
LEMMA QuietAsked ==
    ASSUME Quiet
    PROVE  asked' \in [page : BOOLEAN, level2 : BOOLEAN] /\ ~asked'.page
  BY DEF Quiet

LEMMA FaultBound ==
    ASSUME faults \in 0..MaxFaults, Fault
    PROVE  faults' \in 0..MaxFaults
  BY LinkAssumption DEF Fault

LEMMA StackUpInv == ASSUME LinkInv, StackUp PROVE LinkInv'
<1>1. app \in App /\ BudgetOf(app) /\ ~app.hidOpen /\ app.hidOpen \in BOOLEAN
  BY DEF LinkInv, Good, FindableOf, StackUp, App
<1>2. Good(Discoverable(app)) /\ ~Discoverable(app).hidOpen
  BY <1>1, DiscoverableGood
<1>3. Good(app') /\ ~app'.hidOpen
  <2>1. CASE keys = {}
    BY <1>2, <2>1 DEF StackUp
  <2>2. CASE keys # {}
    <3>1. PICK h \in keys :
            app' = ArmKick([Discoverable(app) EXCEPT !.peer = h,
                                                     !.haveBond = TRUE], TRUE)
      BY <2>2 DEF StackUp
    <3> DEFINE b == [Discoverable(app) EXCEPT !.peer = h, !.haveBond = TRUE]
    <3>2. h \in Hosts
      BY DEF LinkInv, RestOK
    <3>3. Good(b) /\ ~b.hidOpen
      BY <1>2, <3>2 DEF Good, App, FindableOf, BudgetOf
    <3>4. Good(ArmKick(b, TRUE)) /\ ArmKick(b, TRUE).hidOpen = b.hidOpen
      BY <3>3, ArmKickGood
    <3> QED
      BY <3>1, <3>3, <3>4
  <2> QED
    BY <2>1, <2>2
<1>4. app'.hidOpen = app.hidOpen
  BY <1>1, <1>3 DEF Good, App
<1> QED
  BY <1>3, <1>4, QuietAsked DEF LinkInv, RestOK, StackUp

LEMMA KickRestsInv == ASSUME LinkInv, KickRests PROVE LinkInv'
<1> DEFINE a == [app EXCEPT !.kick = "off"]
           b == [a EXCEPT !.slowMode = TRUE]
<1>1. Good(a) /\ a.hidOpen = app.hidOpen
  BY DEF LinkInv, Good, App, Kicks, FindableOf, BudgetOf
<1>2. Good(app') /\ app'.hidOpen = app.hidOpen
  <2>1. CASE app' = a
    BY <1>1, <2>1
  <2>2. CASE ~InBudget(app) /\ ~app.slowMode /\ app' = ArmKick(b, FALSE)
    <3>1. app.fast = FastMax
      BY <2>2, LinkAssumption DEF LinkInv, Good, App, BudgetOf, InBudget
    <3>2. b \in App /\ b.hidOpen = app.hidOpen
      BY <1>1 DEF Good, App
    <3>3. FindableOf(b)
      BY <1>1 DEF Good, App, FindableOf
    <3>4. b.fast = FastMax /\ b.slowMode /\ b.slow <= SlowMax
      BY <1>1, <3>1 DEF LinkInv, Good, App, BudgetOf
    <3>5. Good(b)
      BY <3>2, <3>3, <3>4, LinkAssumption DEF Good, BudgetOf
    <3> QED
      BY <2>2, <3>2, <3>5, ArmKickGood
  <2> QED
    BY <2>1, <2>2 DEF KickRests
<1> QED
  BY <1>2, QuietAsked DEF LinkInv, RestOK, KickRests

LEMMA PagingGood ==
    ASSUME NEW a, Good(a), InBudget(a)
    PROVE  Good(Paging(a)) /\ Paging(a).hidOpen = a.hidOpen
<1>1. CASE a.slowMode
  <2> DEFINE b == [a EXCEPT !.kick = "off", !.slow = @ + 1]
  <2>1. a.slow + 1 \in Nat /\ a.slow + 1 <= SlowMax
    BY <1>1, LinkAssumption DEF Good, App, InBudget
  <2>2. b \in App /\ b.hidOpen = a.hidOpen
    BY <2>1 DEF Good, App, Kicks
  <2>3. FindableOf(b)
    BY DEF Good, App, FindableOf
  <2>4. b.slowMode /\ b.fast = FastMax /\ b.slow <= SlowMax
    BY <1>1, <2>1 DEF Good, App, BudgetOf
  <2> QED
    BY <1>1, <2>2, <2>3, <2>4, LinkAssumption DEF Good, BudgetOf, Paging
<1>2. CASE ~a.slowMode
  <2> DEFINE b == [a EXCEPT !.kick = "off", !.fast = @ + 1]
  <2>1. a.fast + 1 \in Nat /\ a.fast + 1 <= FastMax
    BY <1>2, LinkAssumption DEF Good, App, InBudget
  <2>2. b \in App /\ b.hidOpen = a.hidOpen
    BY <2>1 DEF Good, App, Kicks
  <2>3. FindableOf(b)
    BY DEF Good, App, FindableOf
  <2>4. /\ ~b.slowMode /\ ~(b.slow > 0)
        /\ b.fast <= FastMax /\ b.slow <= SlowMax
    BY <1>2, <2>1 DEF Good, App, BudgetOf
  <2> QED
    BY <1>2, <2>2, <2>3, <2>4 DEF Good, BudgetOf, Paging
<1> QED
  BY <1>1, <1>2

\* The kick pages only when neither side counts itself connected, so the
\* device it sets up anew was not.
LEMMA KickPagesInv ==
    ASSUME LinkInv, KickPages
    PROVE  LinkInv' /\ ~hid.connected
<1>1. /\ app.peer \in Hosts /\ app.hidOpen = FALSE
      /\ hid.connected = FALSE
  BY LinkAssumption DEF KickPages, Absent, LinkInv, Good, App
<1>2. Good(app') /\ app'.hidOpen = FALSE
  BY <1>1, PagingGood DEF KickPages, LinkInv
<1>3. PICK c \in Fresh :
        /\ hid' = [Setup(app.peer) EXCEPT !.ctrl = c]
        /\ chans' = With(chans, c, NewChan(app.peer, "control", FALSE,
               IF acl[app.peer] = "up" THEN "opening" ELSE "paging"))
  BY DEF KickPages
<1>4. c \in Cids
  BY DEF Fresh, Free
<1>5. HidOK(hid') /\ hid'.connected = FALSE
  BY <1>1, <1>3, <1>4, LinkAssumption DEF HidOK, Hid, Setup
<1>6. ChansOK(chans')
  <2>1. NewChan(app.peer, "control", FALSE,
          IF acl[app.peer] = "up" THEN "opening" ELSE "paging") \in Chan
    BY <1>1 DEF NewChan, Chan, Psms
  <2> QED
    BY <1>3, <1>4, <2>1, WithOK DEF LinkInv
<1>7. AsksLevel2(app, keys) \in BOOLEAN
  BY DEF AsksLevel2, LinkInv, Good, App
<1>8. RestOK' /\ draining' = NoHost
  BY <1>1, <1>7 DEF KickPages, LinkInv, RestOK
<1> QED
  BY <1>1, <1>2, <1>5, <1>6, <1>8 DEF LinkInv

-----------------------------------------------------------------------------
(* The actions of hosts, channels and links. *)

LEMMA AclUpInv == ASSUME LinkInv, NEW h \in Hosts, AclUp(h) PROVE LinkInv'
<1>1. Good(app') /\ app'.hidOpen = app.hidOpen
  BY DEF AclUp, LinkInv, Good, App, FindableOf, BudgetOf
<1>2. ChansOK(chans')
  <2>1. \A c \in Live : /\ chans[c] \in Chan
                        /\ [chans[c] EXCEPT !.state = "opening"] \in Chan
    BY DEF LinkInv, ChansOK, Live, Chan
  <2>2. DOMAIN chans' = Live
    BY DEF AclUp
  <2> QED
    BY <2>1, <2>2 DEF AclUp, LinkInv, ChansOK, Live
<1>3. RestOK'
  BY QuietAsked DEF AclUp, LinkInv, RestOK
<1> QED
  BY <1>1, <1>2, <1>3, QuietAsked DEF AclUp, LinkInv

LEMMA PairInv == ASSUME LinkInv, NEW h \in Hosts, Pair(h) PROVE LinkInv'
<1> DEFINE b == [app EXCEPT !.peer = h]
<1>1. Good(b) /\ b.hidOpen = app.hidOpen
  BY DEF LinkInv, Good, App, FindableOf, BudgetOf
<1>2. Good(app') /\ app'.hidOpen = app.hidOpen
  BY <1>1, ArmKickGood DEF Pair
<1> QED
  BY <1>2, QuietAsked DEF Pair, LinkInv, RestOK

LEMMA HostOpensInv ==
    ASSUME LinkInv, NEW h \in Hosts, NEW psm \in Psms, HostOpens(h, psm)
    PROVE  LinkInv'
<1> DEFINE d == IF hid.inUse THEN hid ELSE Setup(h)
<1>1. HidOK(d) /\ d.inUse /\ d.connected = hid.connected
  BY LinkAssumption DEF LinkInv, HidOK, Hid, Setup
<1>2. /\ HidOK(hid') /\ hid'.connected = hid.connected
      /\ ChansOK(chans')
  <2>1. CASE \E c \in Fresh :
               /\ hid' = WithCid([d EXCEPT !.handle = h, !.peer = h,
                                           !.incoming = TRUE], psm, c)
               /\ chans' = With(chans, c, NewChan(h, psm, TRUE, "opening"))
    <3>1. PICK c \in Fresh :
               /\ hid' = WithCid([d EXCEPT !.handle = h, !.peer = h,
                                           !.incoming = TRUE], psm, c)
               /\ chans' = With(chans, c, NewChan(h, psm, TRUE, "opening"))
      BY <2>1
    <3> DEFINE f == [d EXCEPT !.handle = h, !.peer = h, !.incoming = TRUE]
    <3>2. c \in Cids
      BY DEF Fresh, Free
    <3>3. /\ f \in Hid /\ f.inUse /\ f.peer \in Hosts
          /\ f.connected = hid.connected
      BY <1>1 DEF HidOK, Hid
    <3>4. HidOK(WithCid(f, psm, c)) /\ WithCid(f, psm, c).connected = f.connected
      <4>1. CASE psm = "control"
        BY <3>2, <3>3, <4>1, LinkAssumption DEF WithCid, HidOK, Hid
      <4>2. CASE psm # "control"
        BY <3>2, <3>3, <4>2, LinkAssumption DEF WithCid, HidOK, Hid
      <4> QED
        BY <4>1, <4>2
    <3>5. NewChan(h, psm, TRUE, "opening") \in Chan
      BY DEF NewChan, Chan
    <3> QED
      BY <3>1, <3>2, <3>3, <3>4, <3>5, WithOK DEF LinkInv
  <2>2. CASE hid' = d /\ chans' = chans
    BY <1>1, <2>2 DEF LinkInv
  <2> QED
    BY <2>1, <2>2 DEF HostOpens
<1> QED
  BY <1>2, QuietAsked DEF HostOpens, LinkInv, RestOK

LEMMA ChanUpInv == ASSUME LinkInv, NEW c \in Live, ChanUp(c) PROVE LinkInv'
<1>1. PICK n \in Fresh : HidOpened(c, chans[c], n)
  BY DEF ChanUp
<1>2. n \in Cids
  BY DEF Fresh, Free
<1>3. /\ Good(app') /\ HidOK(hid') /\ app'.hidOpen = hid'.connected
      /\ ChansOK(chans')
  BY <1>1, <1>2, HidOpenedStep
<1> QED
  BY <1>3, QuietAsked DEF ChanUp, LinkInv, RestOK

LEMMA ChanFailsInv ==
    ASSUME LinkInv, NEW c \in Live, ChanFails(c) PROVE LinkInv'
<1>1. Good(app') /\ HidOK(hid') /\ app'.hidOpen = hid'.connected
  BY HidOpenFailedStep DEF ChanFails
<1>2. ChansOK(chans')
  BY WithoutOK DEF ChanFails, LinkInv
<1>3. RestOK'
  BY QuietAsked, FaultBound DEF ChanFails, LinkInv, RestOK
<1> QED
  BY <1>1, <1>2, <1>3, QuietAsked DEF ChanFails, LinkInv

LEMMA ChanClosedInv ==
    ASSUME LinkInv, NEW c \in Live, ChanClosed(c) PROVE LinkInv'
<1>1. c \in Cids
  BY DEF LinkInv, ChansOK, Live
<1>2. Good(app') /\ HidOK(hid') /\ app'.hidOpen = hid'.connected
  BY <1>1, HidClosedStep DEF ChanClosed
<1>3. ChansOK(chans')
  BY WithoutOK DEF ChanClosed, LinkInv
<1>4. RestOK'
  BY QuietAsked, FaultBound DEF ChanClosed, LinkInv, RestOK
<1> QED
  BY <1>2, <1>3, <1>4, QuietAsked DEF ChanClosed, LinkInv

LEMMA PageFailsInv ==
    ASSUME LinkInv, NEW h \in Hosts, PageFails(h) PROVE LinkInv'
<1>1. RestOK'
  BY QuietAsked, FaultBound DEF PageFails, LinkInv, RestOK
<1> QED
  BY <1>1, QuietAsked DEF PageFails, LinkInv

LEMMA AclDownInv ==
    ASSUME LinkInv, NEW h \in Hosts, AclDown(h) PROVE LinkInv'
<1>1. Good(app') /\ app'.hidOpen = app.hidOpen
  BY DEF AclDown, LinkInv, Good, App, FindableOf, BudgetOf
<1>2. RestOK'
  BY QuietAsked, FaultBound DEF AclDown, LinkInv, RestOK
<1> QED
  BY <1>1, <1>2, QuietAsked DEF AclDown, LinkInv

LEMMA DrainInv == ASSUME LinkInv, NEW c \in Live, Drain(c) PROVE LinkInv'
<1>1. c \in Cids
  BY DEF LinkInv, ChansOK, Live
<1>2. Good(app') /\ HidOK(hid') /\ app'.hidOpen = hid'.connected
  BY <1>1, HidClosedStep, HidOpenFailedStep DEF Drain
<1>3. ChansOK(chans')
  BY WithoutOK DEF Drain, LinkInv
<1> QED
  BY <1>2, <1>3 DEF Drain, LinkInv, RestOK

LEMMA DrainedInv == ASSUME LinkInv, Drained PROVE LinkInv'
<1>1. HidOK(hid') /\ hid'.connected = hid.connected
  BY DEF Drained, LinkInv, HidOK, Hid
<1>2. RestOK' /\ draining' = NoHost
  BY DEF Drained, LinkInv, RestOK
<1> QED
  BY <1>1, <1>2 DEF Drained, LinkInv

-----------------------------------------------------------------------------
LEMMA StepInv == LinkInv /\ [LinkNext]_linkVars => LinkInv'
<1> SUFFICES ASSUME LinkInv, [LinkNext]_linkVars PROVE LinkInv'
  OBVIOUS
<1>1. CASE Device
  BY <1>1, StackUpInv, KickRestsInv, KickPagesInv DEF Device
<1>2. CASE Progress
  BY <1>2, ChanUpInv, DrainInv, DrainedInv DEF Progress
<1>3. CASE HostMoves
  BY <1>3, AclUpInv, PairInv, AclDownInv, PageFailsInv, HostOpensInv
     DEF HostMoves
<1>4. CASE ChanEnds
  BY <1>4, ChanFailsInv, ChanClosedInv DEF ChanEnds
<1>5. CASE UNCHANGED linkVars
  BY <1>5 DEF linkVars, LinkInv, RestOK
<1> QED
  BY <1>1, <1>2, <1>3, <1>4, <1>5 DEF LinkNext

\* The inductive invariant, for any hosts, channel ids and budgets.
THEOREM LinkInvariance == LinkSpec => []LinkInv
<1>1. LinkInit => LinkInv
  BY InitInv
<1>2. LinkInv /\ [LinkNext]_linkVars => LinkInv'
  BY StepInv
<1> QED
  BY <1>1, <1>2, PTL DEF LinkSpec

\* Every variable of the link keeps its type: no host, channel or channel id
\* that there is not.
THEOREM LinkTypeCorrect == LinkSpec => []LinkTypeOK
<1>1. LinkInv => LinkTypeOK
  BY DEF LinkInv, LinkTypeOK, Good, HidOK, ChansOK, RestOK, Live
<1> QED
  BY <1>1, LinkInvariance, PTL

\* s_hid_cid is nonzero exactly while the HID device is connected, whoever
\* moved first and whatever came late.
THEOREM AppFollowsDeviceHolds == LinkSpec => []AppFollowsDevice
<1>1. LinkInv => AppFollowsDevice
  BY DEF LinkInv, AppFollowsDevice
<1> QED
  BY <1>1, LinkInvariance, PTL

\* The stick can be found exactly while it says so and is not connected.
THEOREM FindableHolds == LinkSpec => []Findable
<1>1. LinkInv => Findable
  BY DEF LinkInv, Good, FindableOf, Findable
<1> QED
  BY <1>1, LinkInvariance, PTL

\* An absent host is never paged more often than the two budgets allow, whoever
\* else connects, pairs or fails, and slowly only after all fast attempts
\* (kick_timer_handler(), arm_hid_kick()).
THEOREM BudgetHolds == LinkSpec => []Budget
<1>1. LinkInv => Budget
  BY DEF LinkInv, Good, BudgetOf, Budget
<1> QED
  BY <1>1, LinkInvariance, PTL

\* No step that pages finds the HID device connected.
LEMMA NoKickStep ==
    LinkInv /\ [LinkNext]_linkVars
        => [asked'.page => ~hid.connected]_linkVars
<1> SUFFICES ASSUME LinkInv, LinkNext, asked'.page PROVE ~hid.connected
  OBVIOUS
<1>1. CASE KickPages
  BY <1>1, KickPagesInv
<1>2. CASE Quiet
  BY <1>2, QuietAsked
<1>3. CASE draining # NoHost /\ UNCHANGED asked
  BY <1>3 DEF LinkInv
<1> QED
  BY <1>1, <1>2, <1>3
     DEF LinkNext, Device, Progress, HostMoves, ChanEnds, StackUp, KickRests,
         AclUp, Pair, AclDown, PageFails, HostOpens, ChanUp, ChanFails,
         ChanClosed, Drain, Drained

\* A kick never takes the HID device from a live connection.
THEOREM NoKickWhenOpenHolds == LinkSpec => NoKickWhenOpen
  BY LinkInvariance, NoKickStep, PTL DEF LinkSpec, NoKickWhenOpen

-----------------------------------------------------------------------------
(* Hosts that only wait.  What the comments promise fails when a host opens  *)
(* the channels itself; it holds for every host that waits to be paged.      *)

\* The hosts wait to be paged; there is one; it does not lose its key.
HostsWait == Initiators = {}
OneHost   == \A g, h \in Hosts : g = h
KeysKept  == Forgetful = {}

Known     == {hid.ctrl, hid.intr} \ {0}
OpenIn(cs) == {c \in DOMAIN cs : cs[c].state = "open"}

\* Every channel is the stick's own.
Passive == ~hid.incoming /\ \A c \in Live : ~chans[c].incoming

\* A channel has a baseband link under it, or waits for the page.
OnAcl == \A c \in Live :
    /\ acl[chans[c].host] # "down"
    /\ (chans[c].state = "paging") = (acl[chans[c].host] = "paging")

\* What the HID device remembers of its two channels; one that failed may
\* still be remembered, but not while the device counts itself connected.
HidChans ==
    /\ hid.ctrl \in Live => /\ chans[hid.ctrl].psm = "control"
                            /\ chans[hid.ctrl].host = hid.peer
    /\ hid.intr \in Live => chans[hid.intr].psm = "interrupt"
    /\ hid.intr # 0 => hid.ctrl = 0 \/ hid.ctrl \in OpenIn(chans)
    /\ hid.connected => Known # {} /\ Known \subseteq OpenIn(chans)

\* The statics need nothing to happen: the kick is armed, or spent, or a
\* connection is there.
ArmedAt(a) == a.haveBond /\ ~a.hidOpen => a.kick # "off" \/ a.slow = SlowMax

\* Otherwise every channel the device remembers is there, so that the end of
\* the last of them is noticed.
Armed ==
    /\ app.haveBond => app.peer # NoHost
    /\ ArmedAt(app) \/ (Known # {} /\ Known \subseteq Live)

WaitInv == Passive /\ OnAcl /\ HidChans /\ Armed

-----------------------------------------------------------------------------
\* Handlers that leave the kick armed, or the connection up.
LEMMA ArmKickArms ==
    ASSUME NEW a \in App, NEW reset \in BOOLEAN
    PROVE  LET b == ArmKick(a, reset)
           IN  /\ b.kick # "off" /\ b.peer = a.peer /\ b.haveBond = a.haveBond
               /\ b.link = a.link /\ b.aclUp = a.aclUp
               /\ b.hidOpen = a.hidOpen
  BY DEF ArmKick, App, Kicks

LEMMA OnOpenFailedArms ==
    ASSUME NEW a \in App
    PROVE  LET b == OnOpenFailed(a)
           IN  /\ ArmedAt(b) /\ b.peer = a.peer /\ b.haveBond = a.haveBond
               /\ b.link \in {a.link, "advertising"}
               /\ b.hidOpen = a.hidOpen /\ b.aclUp = a.aclUp
<1>1. CASE a.hidOpen
  BY <1>1 DEF OnOpenFailed, ArmedAt
<1>2. CASE ~a.hidOpen
  <2>1. /\ Discoverable(a) \in App /\ Discoverable(a).peer = a.peer
        /\ Discoverable(a).haveBond = a.haveBond
        /\ Discoverable(a).link = "advertising"
        /\ Discoverable(a).hidOpen = a.hidOpen
        /\ Discoverable(a).aclUp = a.aclUp
    BY DEF Discoverable, App, Links
  <2>2. OnOpenFailed(a) = ArmKick(Discoverable(a), FALSE)
    BY <1>2 DEF OnOpenFailed
  <2>3. /\ OnOpenFailed(a).kick # "off"
        /\ OnOpenFailed(a).peer = Discoverable(a).peer
        /\ OnOpenFailed(a).haveBond = Discoverable(a).haveBond
        /\ OnOpenFailed(a).link = Discoverable(a).link
        /\ OnOpenFailed(a).hidOpen = Discoverable(a).hidOpen
        /\ OnOpenFailed(a).aclUp = Discoverable(a).aclUp
    BY <2>1, <2>2, ArmKickArms
  <2> QED
    BY <2>1, <2>3 DEF ArmedAt
<1> QED
  BY <1>1, <1>2

LEMMA OnClosedArms ==
    ASSUME NEW a \in App
    PROVE  LET b == OnClosed(a)
           IN  /\ ArmedAt(b) /\ b.peer = a.peer /\ b.haveBond = a.haveBond
               /\ b.link = "advertising" /\ b.aclUp = a.aclUp
<1> DEFINE d == Discoverable([a EXCEPT !.hidOpen = FALSE])
<1>1. /\ d \in App /\ d.peer = a.peer /\ d.haveBond = a.haveBond
      /\ d.link = "advertising" /\ d.aclUp = a.aclUp
  BY DEF Discoverable, App, Links
<1>2. OnClosed(a) = ArmKick(d, TRUE)
  BY DEF OnClosed
<1> HIDE DEF d
<1>3. /\ OnClosed(a).kick # "off" /\ OnClosed(a).peer = d.peer
      /\ OnClosed(a).haveBond = d.haveBond /\ OnClosed(a).link = d.link
      /\ OnClosed(a).aclUp = d.aclUp
  BY <1>1, <1>2, ArmKickArms
<1> QED
  BY <1>1, <1>3 DEF ArmedAt

LEMMA OnOpenedArms ==
    ASSUME NEW a \in App, NEW h \in Hosts
    PROVE  LET b == OnOpened(a, h)
           IN  /\ ArmedAt(b) /\ b.peer # NoHost /\ b.link = "connected"
               /\ b.hidOpen /\ b.aclUp = a.aclUp
<1>1. CancelKick(a) \in App /\ CancelKick(a).aclUp = a.aclUp
  BY DEF CancelKick, App, Kicks
<1> QED
  BY <1>1, LinkAssumption DEF OnOpened, App, ArmedAt

-----------------------------------------------------------------------------
LEMMA NoZeroCid == LinkInv => 0 \notin Live
  BY LinkAssumption DEF LinkInv, ChansOK, Live

\* The next channel id is neither in use nor remembered.
LEMMA FreshIsNew ==
    ASSUME NEW c \in Fresh
    PROVE  c \in Cids /\ c # 0 /\ c \notin Live /\ c \notin Known
  BY LinkAssumption DEF Fresh, Free, Knows, Known

\* The end of a channel, as the HID device takes it.
LEMMA HidClosedEffect ==
    ASSUME LinkInv, Passive, NEW c \in Live, HidClosed(c)
    PROVE  /\ ~hid'.incoming /\ hid'.peer = hid.peer
           /\ hid'.ctrl = IF hid.ctrl = c THEN 0 ELSE hid.ctrl
           /\ hid'.intr = IF hid.intr = c THEN 0 ELSE hid.intr
           /\ Known' = Known \ {c}
           /\ \/ /\ app' = app /\ hid'.connected = hid.connected
                 /\ c \in Known => Known' # {}
              \/ /\ app' = OnClosed(app) /\ ~hid'.connected
                 /\ Known' = {}
<1>1. c # 0 /\ hid \in Hid
  BY NoZeroCid DEF LinkInv, HidOK
<1>2. CASE ~Knows(hid, c)
  <2>1. app' = app /\ hid' = hid
    BY <1>2 DEF HidClosed
  <2> QED
    BY <1>1, <1>2, <2>1 DEF Knows, Passive, Known
<1>3. CASE Knows(hid, c)
  <2> DEFINE d == [hid EXCEPT !.incoming = FALSE,
                              !.intr = IF @ = c THEN 0 ELSE @,
                              !.ctrl = IF @ = c THEN 0 ELSE @]
             over == d.intr = 0 /\ d.ctrl = 0
  <2>1. /\ ~d.incoming /\ d.peer = hid.peer
        /\ d.ctrl = IF hid.ctrl = c THEN 0 ELSE hid.ctrl
        /\ d.intr = IF hid.intr = c THEN 0 ELSE hid.intr
        /\ d.connected = hid.connected /\ d \in Hid
    BY <1>1 DEF Hid
  <2>2. /\ hid' = IF over THEN [d EXCEPT !.connected = FALSE,
                                         !.handle = NoHost, !.inUse = FALSE]
                  ELSE d
        /\ app' = IF over THEN OnClosed(app) ELSE app
    BY <1>3 DEF HidClosed
  <2> HIDE DEF d
  <2>3. /\ ~hid'.incoming /\ hid'.peer = d.peer
        /\ hid'.ctrl = d.ctrl /\ hid'.intr = d.intr
    BY <2>1, <2>2 DEF Hid
  <2>4. Known' = Known \ {c}
    BY <1>1, <2>1, <2>3 DEF Known
  <2>5. CASE over
    <3>1. app' = OnClosed(app) /\ ~hid'.connected
      BY <2>1, <2>2, <2>5 DEF Hid
    <3>2. Known' = {}
      BY <2>3, <2>5 DEF Known
    <3> QED
      BY <2>1, <2>3, <2>4, <3>1, <3>2
  <2>6. CASE ~over
    <3>1. app' = app /\ hid'.connected = hid.connected
      BY <2>1, <2>2, <2>6
    <3>2. Known' # {}
      BY <2>3, <2>6 DEF Known
    <3> QED
      BY <2>1, <2>3, <2>4, <3>1, <3>2
  <2> QED
    BY <2>5, <2>6
<1> QED
  BY <1>2, <1>3

-----------------------------------------------------------------------------
(* No host opens a channel: the steps keep WaitInv. *)

\* Nothing but the statics of the app changes.
LEMMA AppOnlyWait ==
    ASSUME WaitInv, UNCHANGED <<hid, chans, acl>>,
           app'.haveBond => app'.peer # NoHost,
           ArmedAt(app') \/ ~ArmedAt(app)
    PROVE  WaitInv'
<1>1. Known' = Known /\ Live' = Live
  BY DEF Known, Live
<1>2. OpenIn(chans') = OpenIn(chans)
  OBVIOUS
<1>3. Passive' /\ OnAcl' /\ HidChans'
  BY <1>1, <1>2 DEF WaitInv, Passive, OnAcl, HidChans
<1>4. Armed'
  BY <1>1 DEF WaitInv, Armed, ArmedAt
<1> QED
  BY <1>3, <1>4 DEF WaitInv

LEMMA InitWait == LinkInit => WaitInv
  BY DEF LinkInit, WaitInv, Passive, OnAcl, HidChans, Armed, ArmedAt, Live,
         Known, OpenIn, Setup

LEMMA StackUpWait == ASSUME LinkInv, WaitInv, StackUp PROVE WaitInv'
<1>1. app \in App
  BY DEF LinkInv, Good
<1>2. CASE keys = {}
  <2>1. /\ app'.haveBond = app.haveBond /\ app'.peer = app.peer
        /\ app'.kick = app.kick /\ app'.slow = app.slow
        /\ app'.hidOpen = app.hidOpen
    BY <1>1, <1>2 DEF StackUp, Discoverable, App
  <2> QED
    BY <2>1, AppOnlyWait DEF StackUp, WaitInv, Armed, ArmedAt
<1>3. CASE keys # {}
  <2>1. PICK h \in keys :
          app' = ArmKick([Discoverable(app) EXCEPT !.peer = h,
                                                   !.haveBond = TRUE], TRUE)
    BY <1>3 DEF StackUp
  <2> DEFINE b == [Discoverable(app) EXCEPT !.peer = h, !.haveBond = TRUE]
  <2>2. h \in Hosts
    BY DEF LinkInv, RestOK
  <2>3. b \in App /\ b.peer = h
    BY <1>1, <2>2 DEF App, Links, Discoverable
  <2> HIDE DEF b
  <2>4. app' = ArmKick(b, TRUE)
    BY <2>1 DEF b
  <2>5. app'.kick # "off" /\ app'.peer = h
    BY <2>3, <2>4, ArmKickArms
  <2> QED
    BY <2>2, <2>5, AppOnlyWait, LinkAssumption DEF StackUp, ArmedAt
<1> QED
  BY <1>2, <1>3

LEMMA KickRestsWait == ASSUME LinkInv, WaitInv, KickRests PROVE WaitInv'
<1> DEFINE a == [app EXCEPT !.kick = "off"]
           b == [a EXCEPT !.slowMode = TRUE]
<1>1. app \in App /\ app.slow <= SlowMax
  BY DEF LinkInv, Good, BudgetOf
<1>2. /\ a \in App /\ a.peer = app.peer /\ a.haveBond = app.haveBond
      /\ a.hidOpen = app.hidOpen /\ a.slow = app.slow
  BY <1>1 DEF App, Kicks
<1>3. /\ b \in App /\ b.peer = app.peer /\ b.haveBond = app.haveBond
  BY <1>1 DEF App, Kicks
<1>4. CASE ~Absent(app) /\ app' = a
  BY <1>2, <1>4, AppOnlyWait DEF KickRests, Absent, ArmedAt, WaitInv, Armed
<1>5. CASE app' = ArmKick(b, FALSE)
  <2> HIDE DEF b
  <2>1. /\ app'.kick # "off" /\ app'.peer = app.peer
        /\ app'.haveBond = app.haveBond
    BY <1>3, <1>5, ArmKickArms
  <2> QED
    BY <2>1, AppOnlyWait DEF KickRests, ArmedAt, WaitInv, Armed
<1>6. CASE ~InBudget(app) /\ app.slowMode /\ app' = a
  <2>1. app.slow = SlowMax
    BY <1>1, <1>6, LinkAssumption DEF InBudget, App
  <2> QED
    BY <1>2, <1>6, <2>1, AppOnlyWait DEF KickRests, ArmedAt, WaitInv, Armed
<1> QED
  BY <1>4, <1>5, <1>6 DEF KickRests

LEMMA PairWait == ASSUME LinkInv, WaitInv, NEW h \in Hosts, Pair(h) PROVE WaitInv'
<1> DEFINE b == [app EXCEPT !.peer = h]
<1>1. b \in App /\ b.peer = h
  BY DEF LinkInv, Good, App
<1>2. app' = ArmKick(b, TRUE)
  BY DEF Pair
<1> HIDE DEF b
<1>3. app'.kick # "off" /\ app'.peer = h
  BY <1>1, <1>2, ArmKickArms
<1> QED
  BY <1>3, AppOnlyWait, LinkAssumption DEF Pair, ArmedAt

LEMMA AclEndsWait ==
    ASSUME LinkInv, WaitInv, NEW h \in Hosts, AclDown(h) \/ PageFails(h)
    PROVE  WaitInv'
<1>1. /\ app'.haveBond = app.haveBond /\ app'.peer = app.peer
      /\ app'.kick = app.kick /\ app'.slow = app.slow
      /\ app'.hidOpen = app.hidOpen
  BY DEF AclDown, PageFails, LinkInv, Good, App
<1> QED
  BY <1>1, AppOnlyWait DEF AclDown, PageFails, WaitInv, Armed, ArmedAt

\* A channel goes, closed or failed.
LEMMA ChanGoesWait ==
    ASSUME LinkInv, WaitInv, NEW c \in Live,
           \/ HidClosed(c)
           \/ HidOpenFailed(c) /\ chans[c].state # "open",
           chans' = Without(chans, c), acl' = acl
    PROVE  WaitInv'
<1>1. Live' = Live \ {c} /\ \A x \in Live' : chans'[x] = chans[x]
  BY DEF Without, Live
<1>2. c # 0 /\ app \in App /\ hid \in Hid
  BY NoZeroCid DEF LinkInv, Good, HidOK
<1>3. OpenIn(chans') = OpenIn(chans) \ {c}
  BY <1>1 DEF OpenIn, Live
<1>4. OnAcl'
  BY <1>1 DEF WaitInv, OnAcl
<1>5. CASE HidClosed(c)
  <2>1. /\ ~hid'.incoming /\ hid'.peer = hid.peer
        /\ hid'.ctrl = IF hid.ctrl = c THEN 0 ELSE hid.ctrl
        /\ hid'.intr = IF hid.intr = c THEN 0 ELSE hid.intr
        /\ Known' = Known \ {c}
        /\ \/ /\ app' = app /\ hid'.connected = hid.connected
              /\ c \in Known => Known' # {}
           \/ /\ app' = OnClosed(app) /\ ~hid'.connected
              /\ Known' = {}
    BY <1>5, HidClosedEffect DEF WaitInv
  <2>2. Passive'
    BY <1>1, <2>1 DEF WaitInv, Passive
  <2>3. HidChans'
    <3>1. 0 \notin Live'
      BY <1>1, NoZeroCid
    <3>2. hid'.ctrl \in Live' => /\ chans'[hid'.ctrl].psm = "control"
                                 /\ chans'[hid'.ctrl].host = hid'.peer
      BY <1>1, <2>1, <3>1 DEF WaitInv, HidChans
    <3>3. hid'.intr \in Live' => chans'[hid'.intr].psm = "interrupt"
      BY <1>1, <2>1, <3>1 DEF WaitInv, HidChans
    <3>4. hid'.intr # 0 => hid'.ctrl = 0 \/ hid'.ctrl \in OpenIn(chans')
      BY <1>3, <2>1 DEF WaitInv, HidChans
    <3>5. hid'.connected => Known' # {} /\ Known' \subseteq OpenIn(chans')
      BY <1>3, <2>1 DEF WaitInv, HidChans
    <3> QED
      BY <3>2, <3>3, <3>4, <3>5 DEF HidChans
  <2>4. Armed'
    <3>1. CASE app' = app
      <4>1. Known \subseteq Live => Known' \subseteq Live'
        BY <1>1, <2>1
      <4>2. Known # {} => Known' # {} \/ app' = OnClosed(app)
        BY <2>1
      <4>3. CASE app' # OnClosed(app)
        BY <3>1, <4>1, <4>2, <4>3 DEF WaitInv, Armed
      <4>4. CASE app' = OnClosed(app)
        BY <1>2, <3>1, <4>4, OnClosedArms DEF WaitInv, Armed
      <4> QED
        BY <4>3, <4>4
    <3>2. CASE app' = OnClosed(app)
      <4>1. /\ ArmedAt(app') /\ app'.peer = app.peer
            /\ app'.haveBond = app.haveBond
        BY <1>2, <3>2, OnClosedArms
      <4> QED
        BY <4>1 DEF WaitInv, Armed
    <3> QED
      BY <2>1, <3>1, <3>2
  <2> QED
    BY <1>4, <2>2, <2>3, <2>4 DEF WaitInv
<1>6. CASE HidOpenFailed(c) /\ chans[c].state # "open"
  <2>1. hid' = hid /\ Known' = Known
    BY <1>6 DEF HidOpenFailed, Known
  <2>2. Passive'
    BY <1>1, <2>1 DEF WaitInv, Passive
  <2>3. c \notin OpenIn(chans)
    BY <1>6 DEF OpenIn
  <2>4. HidChans'
    <3>1. hid'.ctrl \in Live' => /\ chans'[hid'.ctrl].psm = "control"
                                 /\ chans'[hid'.ctrl].host = hid'.peer
      BY <1>1, <2>1 DEF WaitInv, HidChans
    <3>2. hid'.intr \in Live' => chans'[hid'.intr].psm = "interrupt"
      BY <1>1, <2>1 DEF WaitInv, HidChans
    <3>3. hid'.intr # 0 => hid'.ctrl = 0 \/ hid'.ctrl \in OpenIn(chans')
      BY <1>3, <2>1, <2>3 DEF WaitInv, HidChans
    <3>4. hid'.connected => Known' # {} /\ Known' \subseteq OpenIn(chans')
      BY <1>3, <2>1, <2>3 DEF WaitInv, HidChans
    <3> QED
      BY <3>1, <3>2, <3>3, <3>4 DEF HidChans
  <2>5. Armed'
    <3>1. CASE Knows(hid, c)
      <4>1. app' = OnOpenFailed(app)
        BY <1>6, <3>1 DEF HidOpenFailed, WaitInv, Passive
      <4>2. /\ ArmedAt(app') /\ app'.peer = app.peer
            /\ app'.haveBond = app.haveBond
        BY <1>2, <4>1, OnOpenFailedArms
      <4> QED
        BY <4>2 DEF WaitInv, Armed
    <3>2. CASE ~Knows(hid, c)
      <4>1. app' = app
        BY <1>6, <3>2 DEF HidOpenFailed
      <4>2. c \notin Known
        BY <3>2 DEF Knows, Known
      <4> QED
        BY <1>1, <2>1, <4>1, <4>2 DEF WaitInv, Armed
    <3> QED
      BY <3>1, <3>2
  <2> QED
    BY <1>4, <2>2, <2>4, <2>5 DEF WaitInv
<1> QED
  BY <1>5, <1>6

\* The kick sets the device up anew, with one channel under way.
LEMMA KickPagesWait == ASSUME LinkInv, WaitInv, KickPages PROVE WaitInv'
<1>1. app \in App /\ app.peer \in Hosts /\ app.hidOpen = FALSE
  BY LinkAssumption DEF KickPages, Absent, LinkInv, Good, App
<1> DEFINE st == IF acl[app.peer] = "up" THEN "opening" ELSE "paging"
<1>2. PICK c \in Fresh :
        /\ hid' = [Setup(app.peer) EXCEPT !.ctrl = c]
        /\ chans' = With(chans, c, NewChan(app.peer, "control", FALSE, st))
  BY DEF KickPages
<1>3. c \in Cids /\ c # 0 /\ c \notin Live /\ c \notin Known
  BY FreshIsNew
<1>4. /\ Live' = Live \cup {c}
      /\ \A x \in Live : chans'[x] = chans[x]
      /\ chans'[c] = NewChan(app.peer, "control", FALSE, st)
  BY <1>2, <1>3 DEF With, Live
<1>5. /\ ~hid'.incoming /\ ~hid'.connected /\ hid'.peer = app.peer
      /\ hid'.ctrl = c /\ hid'.intr = 0
  BY <1>2 DEF Setup
<1>6. /\ chans'[c].host = app.peer /\ chans'[c].psm = "control"
      /\ ~chans'[c].incoming /\ chans'[c].state = st
  BY <1>4 DEF NewChan
<1>7. Known' = {c}
  BY <1>3, <1>5 DEF Known
<1>8. Passive'
  BY <1>4, <1>5, <1>6 DEF WaitInv, Passive
<1>9. OnAcl'
  <2>1. acl \in [Hosts -> {"down", "paging", "up"}]
    BY DEF LinkInv, RestOK
  <2>2. acl' = [acl EXCEPT ![app.peer] = IF @ = "up" THEN @ ELSE "paging"]
    BY DEF KickPages
  <2>3. /\ acl'[app.peer] # "down"
        /\ (st = "paging") = (acl'[app.peer] = "paging")
    BY <1>1, <2>1, <2>2
  <2>4. ASSUME NEW x \in Live
        PROVE  /\ acl'[chans[x].host] # "down"
               /\ (chans[x].state = "paging") = (acl'[chans[x].host] = "paging")
    <3>1. chans[x].host \in Hosts
      BY DEF LinkInv, ChansOK, Live, Chan
    <3>2. /\ acl[chans[x].host] # "down"
          /\ (chans[x].state = "paging") = (acl[chans[x].host] = "paging")
      BY DEF WaitInv, OnAcl
    <3>3. acl'[chans[x].host] = acl[chans[x].host]
      BY <1>1, <2>1, <2>2, <3>1, <3>2
    <3> QED
      BY <3>2, <3>3
  <2> HIDE DEF st
  <2> QED
    BY <1>4, <1>6, <2>3, <2>4 DEF OnAcl
<1>10. HidChans'
  <2>1. 0 \notin Live'
    BY <1>3, <1>4, NoZeroCid
  <2> QED
    BY <1>5, <1>6, <2>1 DEF HidChans
<1>11. Armed'
  <2>1. app'.haveBond = app.haveBond /\ app'.peer = app.peer
    BY <1>1 DEF KickPages, Paging, App
  <2>2. Known' # {} /\ Known' \subseteq Live'
    BY <1>4, <1>7
  <2> QED
    BY <2>1, <2>2 DEF WaitInv, Armed
<1> QED
  BY <1>8, <1>9, <1>10, <1>11 DEF WaitInv

LEMMA AclUpWait ==
    ASSUME LinkInv, WaitInv, NEW h \in Hosts, AclUp(h) PROVE WaitInv'
<1>1. /\ Live' = Live /\ hid' = hid /\ Known' = Known
      /\ \A c \in Live : chans'[c] =
            IF chans[c].host = h /\ chans[c].state = "paging"
            THEN [chans[c] EXCEPT !.state = "opening"] ELSE chans[c]
  BY DEF AclUp, Live, Known
<1>2. \A c \in Live : chans[c] \in Chan
  BY DEF LinkInv, ChansOK, Live
<1>3. \A c \in Live :
         /\ chans'[c].host = chans[c].host /\ chans'[c].psm = chans[c].psm
         /\ chans'[c].incoming = chans[c].incoming
         /\ chans'[c].state = IF chans[c].host = h /\ chans[c].state = "paging"
                              THEN "opening" ELSE chans[c].state
  BY <1>1, <1>2 DEF Chan
<1>4. OpenIn(chans') = OpenIn(chans)
  BY <1>1, <1>3 DEF OpenIn, Live
<1>5. Passive'
  BY <1>1, <1>3 DEF WaitInv, Passive
<1>6. OnAcl'
  <2>1. /\ acl \in [Hosts -> {"down", "paging", "up"}]
        /\ acl' = [acl EXCEPT ![h] = "up"] /\ acl[h] # "up"
    BY DEF LinkInv, RestOK, AclUp
  <2>2. ASSUME NEW c \in Live
        PROVE  /\ acl'[chans'[c].host] # "down"
               /\ (chans'[c].state = "paging")
                     = (acl'[chans'[c].host] = "paging")
    <3>1. chans[c].host \in Hosts /\ chans'[c].host = chans[c].host
      BY <1>2, <1>3 DEF Chan
    <3>2. /\ acl[chans[c].host] # "down"
          /\ (chans[c].state = "paging") = (acl[chans[c].host] = "paging")
      BY DEF WaitInv, OnAcl
    <3>3. CASE chans[c].host = h
      <4>1. acl[h] = "paging" /\ chans[c].state = "paging"
        BY <2>1, <3>2, <3>3
      <4>2. chans'[c].state = "opening" /\ acl'[h] = "up"
        BY <1>3, <2>1, <3>3, <4>1
      <4> QED
        BY <3>1, <3>3, <4>2
    <3>4. CASE chans[c].host # h
      <4>1. /\ chans'[c].state = chans[c].state
            /\ acl'[chans[c].host] = acl[chans[c].host]
        BY <1>3, <2>1, <3>1, <3>4
      <4> QED
        BY <3>1, <3>2, <4>1
    <3> QED
      BY <3>3, <3>4
  <2> QED
    BY <1>1, <2>2 DEF OnAcl
<1>7. HidChans'
  BY <1>1, <1>3, <1>4 DEF WaitInv, HidChans
<1>8. Armed'
  <2>1. /\ app'.haveBond = app.haveBond /\ app'.peer = h
        /\ app'.kick = app.kick /\ app'.slow = app.slow
        /\ app'.hidOpen = app.hidOpen
    BY DEF AclUp, LinkInv, Good, App
  <2> QED
    BY <1>1, <2>1, LinkAssumption DEF WaitInv, Armed, ArmedAt
<1> QED
  BY <1>5, <1>6, <1>7, <1>8 DEF WaitInv

LEMMA DrainedWait == ASSUME LinkInv, WaitInv, Drained PROVE WaitInv'
<1>1. /\ chans' = chans /\ app' = app /\ Live' = Live
      /\ hid'.ctrl = hid.ctrl /\ hid'.intr = hid.intr
      /\ hid'.peer = hid.peer /\ hid'.connected = hid.connected
      /\ hid'.incoming = hid.incoming
  BY DEF Drained, LinkInv, HidOK, Hid, Live
<1>2. Known' = Known
  BY <1>1 DEF Known
<1>3. OnAcl'
  <2>1. \A c \in Live : acl'[chans[c].host] = acl[chans[c].host]
    BY DEF Drained, LinkInv, RestOK, ChansOK, Live, Chan
  <2> QED
    BY <1>1, <2>1 DEF WaitInv, OnAcl
<1>4. Passive' /\ HidChans' /\ Armed'
  BY <1>1, <1>2 DEF WaitInv, Passive, HidChans, Armed
<1> QED
  BY <1>3, <1>4 DEF WaitInv

\* A channel that opens: the interrupt channel is next, or both are there.
LEMMA HidOpenedEffect ==
    ASSUME LinkInv, Passive, HidChans, NEW c \in Live, NEW n,
           chans[c].state = "opening", HidOpened(c, chans[c], n)
    PROVE  /\ ~hid'.incoming /\ hid'.peer = hid.peer /\ hid'.ctrl = hid.ctrl
           /\ \/ /\ c \notin Known /\ app' = app /\ hid' = hid
                 /\ chans' = [chans EXCEPT ![c].state = "open"]
              \/ /\ c = hid.ctrl /\ app' = app /\ hid'.intr = n
                 /\ ~hid'.connected
                 /\ chans[c].host = hid.peer
                 /\ chans' = With([chans EXCEPT ![c].state = "open"], n,
                       NewChan(chans[c].host, "interrupt", FALSE, "opening"))
              \/ /\ c = hid.intr /\ hid'.intr = hid.intr
                 /\ chans' = [chans EXCEPT ![c].state = "open"]
                 /\ \/ app' = app /\ ~hid'.connected
                    \/ /\ app' = OnOpened(app, hid.peer)
                       /\ hid.peer \in Hosts /\ hid.ctrl # 0
<1> DEFINE ch   == chans[c]
           d    == [hid EXCEPT !.handle = IF @ = NoHost THEN ch.host ELSE @]
           both == ~d.connected /\ d.ctrl # 0 /\ d.intr # 0
           up   == [chans EXCEPT ![c].state = "open"]
<1>1. /\ hid \in Hid /\ c # 0 /\ c \in Cids
      /\ ch \in Chan
  BY NoZeroCid DEF LinkInv, HidOK, ChansOK, Live, Chan
<1>2. CASE ~Knows(hid, c)
  <2>1. chans' = up /\ app' = app /\ hid' = hid
    BY <1>2 DEF HidOpened
  <2>2. c \notin Known
    BY <1>2 DEF Knows, Known
  <2> QED
    BY <2>1, <2>2 DEF Passive
<1>3. CASE Knows(hid, c)
  <2>1. ~hid.connected /\ hid.peer \in Hosts
    <3>1. c \in Known /\ c \notin OpenIn(chans)
      BY <1>1, <1>3 DEF Knows, Known, OpenIn
    <3> QED
      BY <1>1, <1>3, <3>1, KnowsInUse DEF HidChans, LinkInv
  <2>2. /\ d.ctrl = hid.ctrl /\ d.intr = hid.intr /\ d.peer = hid.peer
        /\ d.connected = hid.connected /\ d.incoming = hid.incoming
    BY <1>1 DEF Hid
  <2>a. d \in Hid
    BY <1>1 DEF Hid, Chan
  <2> HIDE DEF d
  <2>3. CASE ch.psm = "control"
    <3>1. c = hid.ctrl /\ ch.host = hid.peer
      BY <1>3, <2>3 DEF Knows, HidChans
    <3>2. /\ hid' = [d EXCEPT !.intr = n]
          /\ chans' = With(up, n, NewChan(d.peer, "interrupt", FALSE,
                                          "opening"))
          /\ app' = app
      BY <1>3, <2>2, <2>3 DEF HidOpened, Passive, d
    <3>3. /\ hid'.intr = n /\ hid'.ctrl = d.ctrl /\ hid'.peer = d.peer
          /\ hid'.connected = d.connected /\ hid'.incoming = d.incoming
      BY <2>a, <3>2 DEF Hid
    <3> QED
      BY <2>1, <2>2, <3>1, <3>2, <3>3 DEF Passive
  <2>4. CASE ch.psm # "control"
    <3>1. c = hid.intr
      BY <1>3, <2>4 DEF Knows, HidChans
    <3>2. /\ hid' = IF both THEN [d EXCEPT !.connected = TRUE] ELSE d
          /\ chans' = up
          /\ app' = IF both THEN OnOpened(app, d.peer) ELSE app
      BY <1>3, <2>4 DEF HidOpened, d
    <3>3. /\ hid'.intr = d.intr /\ hid'.ctrl = d.ctrl /\ hid'.peer = d.peer
          /\ hid'.incoming = d.incoming
          /\ ~both => hid'.connected = d.connected
      BY <2>a, <3>2 DEF Hid
    <3>4. CASE both
      BY <2>1, <2>2, <3>1, <3>2, <3>3, <3>4 DEF Passive
    <3>5. CASE ~both
      BY <2>1, <2>2, <3>1, <3>2, <3>3, <3>5 DEF Passive
    <3> QED
      BY <3>4, <3>5
  <2> QED
    BY <2>3, <2>4
<1> QED
  BY <1>2, <1>3

LEMMA ChanUpWait == ASSUME LinkInv, WaitInv, NEW c \in Live, ChanUp(c) PROVE WaitInv'
<1> DEFINE up == [chans EXCEPT ![c].state = "open"]
<1>1. PICK n \in Fresh : HidOpened(c, chans[c], n)
  BY DEF ChanUp
<1>2. n \in Cids /\ n # 0 /\ n \notin Live /\ n \notin Known
  BY FreshIsNew
<1>3. /\ chans[c].state = "opening" /\ acl' = acl /\ app \in App
      /\ c # 0 /\ \A x \in Live : chans[x] \in Chan
  BY NoZeroCid DEF ChanUp, LinkInv, Good, ChansOK, Live
<1>4. /\ DOMAIN up = Live
      /\ \A x \in Live : /\ up[x].host = chans[x].host
                         /\ up[x].psm = chans[x].psm
                         /\ up[x].incoming = chans[x].incoming
                         /\ up[x].state = IF x = c THEN "open"
                                          ELSE chans[x].state
  BY <1>3 DEF Live, Chan
<1>5. OpenIn(up) = OpenIn(chans) \cup {c}
  BY <1>4 DEF OpenIn, Live
<1> HIDE DEF up
<1>6. /\ ~hid'.incoming /\ hid'.peer = hid.peer /\ hid'.ctrl = hid.ctrl
      /\ \/ /\ c \notin Known /\ app' = app /\ hid' = hid
            /\ chans' = up
         \/ /\ c = hid.ctrl /\ app' = app /\ hid'.intr = n
            /\ ~hid'.connected
            /\ chans[c].host = hid.peer
            /\ chans' = With(up, n,
                  NewChan(chans[c].host, "interrupt", FALSE, "opening"))
         \/ /\ c = hid.intr /\ hid'.intr = hid.intr
            /\ chans' = up
            /\ \/ app' = app /\ ~hid'.connected
               \/ /\ app' = OnOpened(app, hid.peer)
                  /\ hid.peer \in Hosts /\ hid.ctrl # 0
  BY <1>1, <1>3, HidOpenedEffect DEF WaitInv, up
<1>7. CASE chans' = up /\ hid'.intr = hid.intr
  <2>1. Live' = Live /\ Known' = Known
    BY <1>4, <1>6, <1>7 DEF Live, Known
  <2>2. Passive'
    BY <1>4, <1>6, <1>7, <2>1 DEF WaitInv, Passive
  <2>3. OnAcl'
    BY <1>3, <1>4, <1>7, <2>1 DEF WaitInv, OnAcl
  <2>4. HidChans'
    <3>1. \/ ~hid'.connected
          \/ hid'.connected = hid.connected
          \/ c = hid.intr /\ hid.ctrl # 0
      BY <1>6
    <3>2. hid'.connected => Known # {} /\ Known \subseteq OpenIn(up)
      <4>1. CASE hid'.connected = hid.connected
        BY <1>5, <4>1 DEF WaitInv, HidChans
      <4>2. CASE c = hid.intr /\ hid.ctrl # 0
        <5>1. hid.ctrl \in OpenIn(chans)
          BY <1>3, <4>2 DEF WaitInv, HidChans
        <5> QED
          BY <1>3, <1>5, <4>2, <5>1 DEF Known
      <4> QED
        BY <3>1, <4>1, <4>2
    <3> QED
      BY <1>4, <1>5, <1>6, <1>7, <2>1, <3>2 DEF WaitInv, HidChans
  <2>5. Armed'
    <3>1. CASE app' = app
      BY <2>1, <3>1 DEF WaitInv, Armed
    <3>2. CASE app' = OnOpened(app, hid.peer) /\ hid.peer \in Hosts
      <4>1. ArmedAt(app') /\ app'.peer # NoHost
        BY <1>3, <3>2, OnOpenedArms
      <4> QED
        BY <4>1 DEF Armed
    <3> QED
      BY <1>6, <3>1, <3>2
  <2> QED
    BY <2>2, <2>3, <2>4, <2>5 DEF WaitInv
<1>8. CASE /\ c = hid.ctrl /\ app' = app /\ hid'.intr = n
           /\ ~hid'.connected
           /\ chans[c].host = hid.peer
           /\ chans' = With(up, n,
                 NewChan(chans[c].host, "interrupt", FALSE, "opening"))
  <2>1. /\ Live' = Live \cup {n}
        /\ \A x \in Live : chans'[x] = up[x]
        /\ chans'[n] = NewChan(chans[c].host, "interrupt", FALSE, "opening")
    BY <1>2, <1>4, <1>8 DEF With, Live
  <2>2. /\ chans'[n].host = chans[c].host /\ chans'[n].psm = "interrupt"
        /\ ~chans'[n].incoming /\ chans'[n].state = "opening"
    BY <2>1 DEF NewChan
  <2>3. Known' = {c, n}
    BY <1>2, <1>3, <1>6, <1>8 DEF Known
  <2>a. \A x \in Live : /\ chans'[x].host = chans[x].host
                        /\ chans'[x].psm = chans[x].psm
                        /\ chans'[x].incoming = chans[x].incoming
    BY <1>4, <2>1
  <2>4. Passive'
    <3>1. \A x \in Live : ~chans'[x].incoming
      BY <2>a DEF WaitInv, Passive
    <3>2. ~hid'.incoming
      BY <1>6
    <3> QED
      BY <2>1, <2>2, <3>1, <3>2 DEF Passive
  <2>5. OnAcl'
    <3>1. /\ acl[chans[c].host] # "down"
          /\ acl[chans[c].host] # "paging"
      BY <1>3 DEF WaitInv, OnAcl
    <3>2. ASSUME NEW x \in Live'
          PROVE  /\ acl[chans'[x].host] # "down"
                 /\ (chans'[x].state = "paging")
                       = (acl[chans'[x].host] = "paging")
      <4>1. CASE x = n
        BY <2>2, <3>1, <4>1
      <4>2. CASE x = c
        BY <1>4, <2>1, <3>1, <4>2
      <4>3. CASE x # n /\ x # c
        BY <1>4, <2>1, <4>3 DEF WaitInv, OnAcl
      <4> QED
        BY <4>1, <4>2, <4>3
    <3> QED
      BY <1>3, <3>2 DEF OnAcl
  <2>6. HidChans'
    <3>1. c \in OpenIn(chans') /\ hid'.ctrl = c
      BY <1>4, <1>6, <1>8, <2>1 DEF OpenIn, Live
    <3>2. chans[c].psm = "control"
      BY <1>8 DEF WaitInv, HidChans
    <3>3. /\ chans'[hid'.ctrl].psm = "control"
          /\ chans'[hid'.ctrl].host = hid'.peer
      BY <1>6, <1>8, <2>a, <3>1, <3>2
    <3>4. chans'[hid'.intr].psm = "interrupt"
      BY <1>8, <2>2
    <3> QED
      BY <1>8, <3>1, <3>3, <3>4 DEF HidChans
  <2>7. Armed'
    BY <1>8, <2>1, <2>3 DEF WaitInv, Armed
  <2> QED
    BY <2>4, <2>5, <2>6, <2>7 DEF WaitInv
<1> QED
  BY <1>6, <1>7, <1>8

LEMMA StepWait ==
    ASSUME HostsWait, LinkInv, WaitInv, [LinkNext]_linkVars PROVE WaitInv'
<1>1. CASE Device
  BY <1>1, StackUpWait, KickRestsWait, KickPagesWait DEF Device
<1>2. ASSUME NEW c \in Live, ChanUp(c) \/ Drain(c) PROVE WaitInv'
  BY <1>2, ChanUpWait, ChanGoesWait DEF Drain, WaitInv, Passive
<1>3. CASE Drained
  BY <1>3, DrainedWait
<1>4. CASE HostMoves
  BY <1>4, AclUpWait, PairWait, AclEndsWait DEF HostMoves, HostOpens, HostsWait
<1>5. ASSUME NEW c \in Live, ChanFails(c) \/ ChanClosed(c) PROVE WaitInv'
  BY <1>5, ChanGoesWait DEF ChanFails, ChanClosed
<1>6. CASE UNCHANGED linkVars
  <2>1. /\ UNCHANGED <<hid, chans, acl>> /\ app' = app
    BY <1>6 DEF linkVars
  <2> QED
    BY <2>1, AppOnlyWait DEF WaitInv, Armed
<1> QED
  BY <1>1, <1>2, <1>3, <1>4, <1>5, <1>6 DEF LinkNext, Progress, ChanEnds

THEOREM WaitInvHolds == ASSUME HostsWait PROVE LinkSpec => []WaitInv
<1>1. LinkInit => WaitInv
  BY InitWait
<1>2. LinkInv /\ WaitInv /\ [LinkNext]_linkVars => WaitInv'
  BY StepWait
<1> QED
  BY <1>1, <1>2, LinkInvariance, PTL DEF LinkSpec

\* A connection the stick believes in has a baseband link under it.
THEOREM CidMeansConnectedHolds ==
    ASSUME HostsWait PROVE LinkSpec => []CidMeansConnected
<1>1. LinkInv /\ WaitInv => CidMeansConnected
  <2> SUFFICES ASSUME LinkInv, WaitInv, app.hidOpen
               PROVE  \E h \in Hosts : acl[h] = "up"
    BY DEF CidMeansConnected
  <2>1. PICK c \in Live : chans[c].state = "open"
    BY DEF LinkInv, WaitInv, HidChans, OpenIn, Live
  <2>2. /\ chans[c].host \in Hosts /\ acl[chans[c].host] # "down"
        /\ acl[chans[c].host] # "paging"
    BY <2>1 DEF LinkInv, ChansOK, Live, Chan, WaitInv, OnAcl
  <2> QED
    BY <2>2 DEF LinkInv, RestOK
<1> QED
  BY <1>1, LinkInvariance, WaitInvHolds, PTL

\* A stick with a bond never falls silent before its slow budget is spent.
THEOREM KeepsPagingHolds == ASSUME HostsWait PROVE LinkSpec => []KeepsPaging
<1>1. WaitInv => KeepsPaging
  BY DEF WaitInv, Armed, ArmedAt, KeepsPaging
<1> QED
  BY <1>1, WaitInvHolds, PTL

-----------------------------------------------------------------------------
(* One host, whatever it does: the app sees its link. *)

\* s_acl_up is set while the link is up; a page is what asks for a level.
AclSeen ==
    /\ draining = NoHost => \A h \in Hosts : acl[h] = "up" => app.aclUp
    /\ asked.level2 => asked.page

LEMMA OnOpenedAcl == ASSUME NEW a \in App, NEW h
                     PROVE  OnOpened(a, h).aclUp = a.aclUp
  BY DEF OnOpened, CancelKick, App

\* Only the start and the end of a baseband link change s_acl_up.
LEMMA AclUpKept ==
    ASSUME LinkInv, LinkNext
    PROVE  \/ app'.aclUp = app.aclUp
           \/ \E h \in Hosts : AclUp(h) \/ AclDown(h)
<1>1. app \in App
  BY DEF LinkInv, Good
<1>2. CASE StackUp
  <2>1. Discoverable(app) \in App /\ Discoverable(app).aclUp = app.aclUp
    BY <1>1 DEF Discoverable, App, Links
  <2>2. CASE app' = Discoverable(app)
    BY <2>1, <2>2
  <2>3. ASSUME NEW h \in keys,
               app' = ArmKick([Discoverable(app) EXCEPT !.peer = h,
                                                 !.haveBond = TRUE], TRUE)
        PROVE  app'.aclUp = app.aclUp
    <3> DEFINE b == [Discoverable(app) EXCEPT !.peer = h, !.haveBond = TRUE]
    <3>1. b \in App /\ b.aclUp = app.aclUp
      BY <2>1 DEF LinkInv, RestOK, App
    <3> HIDE DEF b
    <3>2. app' = ArmKick(b, TRUE)
      BY <2>3 DEF b
    <3> QED
      BY <3>1, <3>2, ArmKickArms
  <2> QED
    BY <1>2, <2>2, <2>3 DEF StackUp
<1>3. CASE KickRests
  <2> DEFINE a == [app EXCEPT !.kick = "off"]
             b == [a EXCEPT !.slowMode = TRUE]
  <2>1. a.aclUp = app.aclUp /\ b \in App /\ b.aclUp = app.aclUp
    BY <1>1 DEF App, Kicks
  <2>2. app' = a \/ app' = ArmKick(b, FALSE)
    BY <1>3 DEF KickRests
  <2> HIDE DEF a, b
  <2> QED
    BY <2>1, <2>2, ArmKickArms
<1>4. CASE KickPages
  BY <1>1, <1>4 DEF KickPages, Paging, App
<1>5. ASSUME NEW h \in Hosts, Pair(h) PROVE app'.aclUp = app.aclUp
  <2> DEFINE b == [app EXCEPT !.peer = h]
  <2>1. b \in App /\ b.aclUp = app.aclUp
    BY <1>1 DEF App
  <2> HIDE DEF b
  <2>2. app' = ArmKick(b, TRUE)
    BY <1>5 DEF Pair, b
  <2> QED
    BY <2>1, <2>2, ArmKickArms
<1>6. ASSUME NEW c, HidClosed(c) \/ HidOpenFailed(c)
      PROVE  app'.aclUp = app.aclUp
  <2>1. \/ app' = app \/ app' = OnClosed(app) \/ app' = OnOpenFailed(app)
    BY <1>6 DEF HidClosed, HidOpenFailed
  <2> QED
    BY <1>1, <2>1, OnClosedArms, OnOpenFailedArms
<1>7. ASSUME NEW c \in Live, ChanUp(c) PROVE app'.aclUp = app.aclUp
  <2>1. PICK n \in Fresh : HidOpened(c, chans[c], n)
    BY <1>7 DEF ChanUp
  <2>2. app' = app \/ \E h : app' = OnOpened(app, h)
    BY <2>1 DEF HidOpened
  <2> QED
    BY <1>1, <2>2, OnOpenedAcl
<1>8. ASSUME NEW c, Drain(c) \/ ChanFails(c) \/ ChanClosed(c)
      PROVE  app'.aclUp = app.aclUp
  BY <1>6, <1>8 DEF Drain, ChanFails, ChanClosed
<1>9. CASE Drained
  BY <1>9 DEF Drained
<1>10. ASSUME NEW h \in Hosts,
              PageFails(h) \/ \E psm \in Psms : HostOpens(h, psm)
       PROVE  app'.aclUp = app.aclUp
  BY <1>10 DEF PageFails, HostOpens
<1>11. CASE Device
  BY <1>2, <1>3, <1>4, <1>11 DEF Device
<1>12. CASE Progress
  BY <1>7, <1>8, <1>9, <1>12 DEF Progress
<1>13. CASE HostMoves
  BY <1>5, <1>10, <1>13 DEF HostMoves
<1>14. CASE ChanEnds
  BY <1>8, <1>14 DEF ChanEnds
<1> QED
  BY <1>11, <1>12, <1>13, <1>14 DEF LinkNext

\* The links start and end by four actions only.
LEMMA AclKept ==
    ASSUME LinkInv, LinkNext
    PROVE  \/ acl' = acl /\ draining' = draining
           \/ KickPages \/ Drained
           \/ \E h \in Hosts : AclUp(h) \/ AclDown(h) \/ PageFails(h)
<1>1. CASE Device
  BY <1>1 DEF Device, StackUp, KickRests
<1>2. CASE Progress
  BY <1>2 DEF Progress, ChanUp, Drain
<1>3. CASE HostMoves
  BY <1>3 DEF HostMoves, Pair, HostOpens
<1>4. CASE ChanEnds
  BY <1>4 DEF ChanEnds, ChanFails, ChanClosed
<1> QED
  BY <1>1, <1>2, <1>3, <1>4 DEF LinkNext

\* What a step asks of a page.
LEMMA AskedKept ==
    ASSUME LinkInv, LinkNext
    PROVE  \/ KickPages
           \/ ~asked'.level2 /\ ~asked'.page
           \/ asked' = asked /\ draining # NoHost
<1>1. CASE Quiet
  BY <1>1 DEF Quiet
<1>2. CASE Device
  BY <1>1, <1>2 DEF Device, StackUp, KickRests
<1>3. CASE Progress
  BY <1>1, <1>3 DEF Progress, ChanUp, Drain, Drained
<1>4. CASE HostMoves
  BY <1>1, <1>4 DEF HostMoves, AclUp, Pair, AclDown, PageFails, HostOpens
<1>5. CASE ChanEnds
  BY <1>1, <1>5 DEF ChanEnds, ChanFails, ChanClosed
<1> QED
  BY <1>2, <1>3, <1>4, <1>5 DEF LinkNext

LEMMA StepSeen ==
    ASSUME OneHost, LinkInv, AclSeen, [LinkNext]_linkVars PROVE AclSeen'
<1>1. CASE UNCHANGED linkVars
  BY <1>1 DEF linkVars, AclSeen
<1>2. CASE LinkNext
  <2>1. asked'.level2 => asked'.page
    <3>1. CASE KickPages
      BY <3>1 DEF KickPages
    <3> QED
      BY <1>2, <3>1, AskedKept DEF AclSeen
  <2>2. draining' = NoHost => \A h \in Hosts : acl'[h] = "up" => app'.aclUp
    <3>0. /\ acl \in [Hosts -> {"down", "paging", "up"}] /\ app \in App
          /\ draining \in Hosts \cup {NoHost}
      BY DEF LinkInv, RestOK, Good
    <3>1. ASSUME NEW h \in Hosts, AclUp(h) PROVE app'.aclUp
      BY <3>0, <3>1 DEF AclUp, App
    <3>2. ASSUME NEW h \in Hosts, AclDown(h) \/ PageFails(h)
          PROVE  draining' # NoHost
      BY <3>2, LinkAssumption DEF AclDown, PageFails
    <3>3. CASE Drained
      <4>1. \A h \in Hosts : h = draining
        BY <3>0, <3>3 DEF Drained, OneHost
      <4>2. \A h \in Hosts : acl'[h] = "down"
        BY <3>0, <3>3, <4>1 DEF Drained
      <4> QED
        BY <4>2
    <3>4. CASE KickPages
      <4>1. /\ draining = NoHost /\ app'.aclUp = app.aclUp
            /\ \A h \in Hosts : acl'[h] = "up" => acl[h] = "up"
        BY <3>0, <3>4 DEF KickPages, Paging, App
      <4> QED
        BY <4>1 DEF AclSeen
    <3>5. CASE acl' = acl /\ draining' = draining
      <4>1. CASE app'.aclUp = app.aclUp
        BY <3>5, <4>1 DEF AclSeen
      <4> QED
        BY <1>2, <3>1, <3>2, <3>5, <4>1, AclUpKept
           DEF AclSeen
    <3> QED
      BY <1>2, <3>1, <3>2, <3>3, <3>4, <3>5, AclKept
  <2> QED
    BY <2>1, <2>2 DEF AclSeen
<1> QED
  BY <1>1, <1>2

LEMMA Level2Step ==
    LinkInv /\ AclSeen /\ [LinkNext]_linkVars
        => [asked'.level2 => acl[app.peer] # "up"]_linkVars
<1> SUFFICES ASSUME LinkInv, AclSeen, LinkNext, asked'.level2
             PROVE  acl[app.peer] # "up"
  OBVIOUS
<1>1. CASE KickPages
  <2>1. app.peer \in Hosts /\ draining = NoHost /\ ~app.aclUp
    BY <1>1 DEF KickPages, Absent, AsksLevel2, LinkInv, Good, App
  <2> QED
    BY <2>1 DEF AclSeen
<1>2. CASE asked' = asked /\ draining # NoHost
  BY <1>2 DEF LinkInv, AclSeen
<1> QED
  BY <1>1, <1>2, AskedKept

\* With one host the stick raises the security level only on an ACL that is
\* not up yet, whoever opens, closes or pairs.
THEOREM Level2OnFreshAclHolds ==
    ASSUME OneHost PROVE LinkSpec => Level2OnFreshAcl
<1>1. LinkInit => AclSeen
  BY DEF LinkInit, AclSeen
<1>2. LinkInv /\ AclSeen /\ [LinkNext]_linkVars => AclSeen'
  BY StepSeen
<1> QED
  BY <1>1, <1>2, Level2Step, LinkInvariance, PTL
     DEF LinkSpec, Level2OnFreshAcl

-----------------------------------------------------------------------------
(* One host, that waits and keeps its key: attempts do not stack. *)

AllQuiet == \A h \in Hosts : acl[h] = "down"

\* A device that has not started has nothing under way; every attempt is one
\* the HID device remembers, so there is at most one; the kick is armed only
\* once it is over; and there is a key as soon as there is anything.
Sole ==
    /\ app.link = "idle" => app.kick = "off" /\ Live = {} /\ AllQuiet
    /\ Attempts \subseteq Known
    /\ draining = NoHost /\ app.kick # "off" /\ ~app.hidOpen => Attempts = {}
    /\ app.kick # "off" \/ Live # {} => keys # {}

\* The attempt under way is the only one.
LEMMA OneAttempt ==
    ASSUME LinkInv, WaitInv, Sole, NEW c \in Attempts
    PROVE  Attempts = {c} /\ c \in Known /\ c \in Live
<1>1. \A x \in Attempts : x \in Known /\ x \in Live /\ x \notin OpenIn(chans)
  BY DEF Sole, Attempts, OpenIn
<1>2. \A x \in Attempts : x = hid.ctrl \/ (x = hid.intr /\ hid.intr # 0)
  BY <1>1 DEF Known
<1>3. hid.intr # 0 => hid.ctrl = 0 \/ hid.ctrl \in OpenIn(chans)
  BY DEF WaitInv, HidChans
<1>4. 0 \notin Live
  BY NoZeroCid
<1> QED
  BY <1>1, <1>2, <1>3, <1>4

LEMMA StackUpSole == ASSUME LinkInv, Sole, StackUp PROVE Sole'
<1>1. /\ app \in App /\ app.kick = "off" /\ Live = {} /\ Attempts = {}
      /\ chans' = chans /\ hid' = hid /\ keys' = keys
  BY DEF LinkInv, Good, StackUp, Sole, Attempts
<1>2. Live' = {} /\ Attempts' = {} /\ Known' = Known
  BY <1>1 DEF Live, Attempts, Known
<1>3. Discoverable(app) \in App /\ Discoverable(app).link = "advertising"
      /\ Discoverable(app).kick = app.kick
  BY <1>1 DEF Discoverable, App, Links
<1>4. CASE keys = {}
  BY <1>1, <1>2, <1>3, <1>4 DEF Sole, StackUp
<1>5. CASE keys # {}
  <2>1. PICK h \in keys :
          app' = ArmKick([Discoverable(app) EXCEPT !.peer = h,
                                                   !.haveBond = TRUE], TRUE)
    BY <1>5 DEF StackUp
  <2> DEFINE b == [Discoverable(app) EXCEPT !.peer = h, !.haveBond = TRUE]
  <2>2. b \in App /\ b.link = "advertising"
    BY <1>3 DEF LinkInv, RestOK, App
  <2> HIDE DEF b
  <2>3. app' = ArmKick(b, TRUE)
    BY <2>1 DEF b
  <2>4. app'.link = "advertising"
    BY <2>2, <2>3, ArmKickArms
  <2> QED
    BY <1>1, <1>2, <1>5, <2>4 DEF Sole
<1> QED
  BY <1>4, <1>5

LEMMA KickRestsSole == ASSUME LinkInv, Sole, KickRests PROVE Sole'
<1> DEFINE a == [app EXCEPT !.kick = "off"]
           b == [a EXCEPT !.slowMode = TRUE]
<1>1. /\ app.kick # "off" /\ app.link # "idle" /\ draining = NoHost
      /\ UNCHANGED <<hid, chans, acl, keys, draining>>
  BY DEF KickRests, Quiet, Sole
<1>2. Live' = Live /\ Attempts' = Attempts /\ Known' = Known
  BY <1>1 DEF Live, Attempts, Known
<1>3. app'.link = app.link /\ app'.hidOpen = app.hidOpen
  <2>1. /\ a.link = app.link /\ a.hidOpen = app.hidOpen
        /\ b \in App /\ b.link = app.link /\ b.hidOpen = app.hidOpen
    BY DEF LinkInv, Good, App, Kicks
  <2>2. app' = a \/ app' = ArmKick(b, FALSE)
    BY DEF KickRests
  <2> HIDE DEF a, b
  <2> QED
    BY <2>1, <2>2, ArmKickArms
<1> QED
  BY <1>1, <1>2, <1>3 DEF Sole

LEMMA KickPagesSole == ASSUME LinkInv, WaitInv, Sole, KickPages PROVE Sole'
<1>1. /\ app.kick # "off" /\ app.link # "idle" /\ draining = NoHost
      /\ ~app.hidOpen /\ app \in App /\ keys' = keys
  BY DEF KickPages, Absent, Sole, LinkInv, Good
<1>2. Attempts = {} /\ keys # {}
  BY <1>1 DEF Sole
<1>3. app'.link = app.link /\ app'.kick = "off"
  BY <1>1 DEF KickPages, Paging, App
<1>4. PICK c \in Fresh :
        /\ hid' = [Setup(app.peer) EXCEPT !.ctrl = c]
        /\ \E ch : chans' = With(chans, c, ch)
  BY DEF KickPages
<1>5. c # 0 /\ c \notin Live
  BY FreshIsNew
<1>6. hid'.ctrl = c /\ c \in Known'
  BY <1>4, <1>5 DEF Setup, Known
<1>7. Live' = Live \cup {c} /\ \A x \in Live : chans'[x] = chans[x]
  BY <1>4, <1>5 DEF With, Live
<1>8. Attempts' \subseteq {c}
  BY <1>2, <1>7 DEF Attempts
<1> QED
  BY <1>1, <1>2, <1>3, <1>6, <1>8 DEF Sole

LEMMA AclUpSole ==
    ASSUME LinkInv, Sole, NEW h \in Hosts, AclUp(h) PROVE Sole'
<1>1. app.link # "idle"
  BY DEF AclUp, Sole, AllQuiet, LinkInv, Good, FindableOf
<1>2. /\ app'.link = app.link /\ app'.kick = app.kick
      /\ app'.hidOpen = app.hidOpen /\ hid' = hid /\ keys' = keys
      /\ draining = NoHost
  BY DEF AclUp, LinkInv, Good, App, Quiet
<1>3. Live' = Live /\ Known' = Known
  BY <1>2 DEF AclUp, Live, Known
<1>4. \A c \in Live :
         /\ chans'[c].incoming = chans[c].incoming
         /\ (chans'[c].state = "open") = (chans[c].state = "open")
  <2>1. \A c \in Live : chans[c] \in Chan
    BY DEF LinkInv, ChansOK, Live
  <2> QED
    BY <2>1 DEF AclUp, Chan
<1>5. Attempts' = Attempts
  BY <1>3, <1>4 DEF Attempts
<1> QED
  BY <1>1, <1>2, <1>3, <1>5 DEF Sole

LEMMA PairSole ==
    ASSUME OneHost, KeysKept, LinkInv, Sole, NEW h \in Hosts, Pair(h)
    PROVE  Sole'
<1>1. keys = {}
  BY DEF Pair, KeysKept, OneHost, LinkInv, RestOK
<1>2. app.link # "idle" /\ Live = {}
  BY <1>1 DEF Pair, Sole, AllQuiet
<1>3. Live' = {} /\ Attempts' = {} /\ Known' = Known /\ keys' # {}
  BY <1>2 DEF Pair, Live, Attempts, Known
<1> DEFINE b == [app EXCEPT !.peer = h]
<1>4. b \in App /\ b.link = app.link
  BY DEF LinkInv, Good, App
<1>5. app' = ArmKick(b, TRUE)
  BY DEF Pair
<1> HIDE DEF b
<1>6. app'.link = app.link
  BY <1>4, <1>5, ArmKickArms
<1> QED
  BY <1>2, <1>3, <1>6 DEF Sole

LEMMA AclEndsSole ==
    ASSUME LinkInv, Sole, NEW h \in Hosts, AclDown(h) \/ PageFails(h)
    PROVE  Sole'
<1>1. /\ app'.link = app.link /\ app'.kick = app.kick
      /\ UNCHANGED <<hid, chans, acl, keys>> /\ draining' # NoHost
  BY LinkAssumption DEF AclDown, PageFails, LinkInv, Good, App
<1>2. /\ Live' = Live /\ Attempts' = Attempts /\ Known' = Known
      /\ AllQuiet' = AllQuiet
  BY <1>1 DEF Live, Attempts, Known, AllQuiet
<1> QED
  BY <1>1, <1>2 DEF Sole

LEMMA DrainedSole == ASSUME OneHost, LinkInv, Sole, Drained PROVE Sole'
<1>1. \A h \in Hosts : h = draining
  BY DEF Drained, OneHost, LinkInv, RestOK
<1>2. Live = {}
  BY <1>1 DEF Drained, LinkInv, ChansOK, Live, Chan
<1>3. AllQuiet'
  BY <1>1 DEF Drained, LinkInv, RestOK, AllQuiet
<1>4. Live' = {} /\ Attempts' = {} /\ app' = app /\ keys' = keys
  BY <1>2 DEF Drained, Live, Attempts
<1> QED
  BY <1>2, <1>3, <1>4 DEF Sole

LEMMA ChanGoesSole ==
    ASSUME LinkInv, WaitInv, Sole, NEW c \in Live,
           \/ HidClosed(c)
           \/ HidOpenFailed(c) /\ chans[c].state # "open",
           chans' = Without(chans, c), acl' = acl,
           keys' = keys, draining' = draining
    PROVE  Sole'
<1>1. Live' = Live \ {c} /\ \A x \in Live' : chans'[x] = chans[x]
  BY DEF Without, Live
<1>2. Attempts' = Attempts \ {c} /\ app \in App
  BY <1>1 DEF Attempts, LinkInv, Good
<1>3. app.link # "idle" /\ keys # {}
  BY DEF Sole
<1>4. CASE HidClosed(c)
  <2>1. /\ Known' = Known \ {c}
        /\ \/ app' = app
           \/ app' = OnClosed(app) /\ Known' = {}
    BY <1>4, HidClosedEffect DEF WaitInv
  <2>2. Attempts' \subseteq Known'
    BY <1>2, <2>1 DEF Sole
  <2>3. CASE app' = app
    BY <1>2, <1>3, <2>2, <2>3 DEF Sole
  <2>4. CASE app' = OnClosed(app) /\ Known' = {}
    <3>1. app'.link = "advertising"
      BY <1>2, <2>4, OnClosedArms
    <3> QED
      BY <1>3, <2>2, <2>4, <3>1 DEF Sole
  <2> QED
    BY <2>1, <2>3, <2>4
<1>5. CASE HidOpenFailed(c) /\ chans[c].state # "open"
  <2>1. c \in Attempts
    BY <1>5 DEF Attempts, WaitInv, Passive
  <2>2. Attempts' = {}
    BY <1>2, <2>1, OneAttempt
  <2>3. app' = app \/ app' = OnOpenFailed(app)
    BY <1>5 DEF HidOpenFailed
  <2>4. app'.link # "idle"
    BY <1>2, <1>3, <2>3, OnOpenFailedArms
  <2> QED
    BY <1>3, <2>2, <2>4 DEF Sole
<1> QED
  BY <1>4, <1>5

LEMMA ChanUpSole ==
    ASSUME LinkInv, WaitInv, Sole, NEW c \in Live, ChanUp(c) PROVE Sole'
<1> DEFINE up == [chans EXCEPT ![c].state = "open"]
<1>1. PICK n \in Fresh : HidOpened(c, chans[c], n)
  BY DEF ChanUp
<1>2. n # 0 /\ n \notin Live /\ n \notin Known
  BY FreshIsNew
<1>3. /\ chans[c].state = "opening" /\ app \in App /\ keys' = keys
      /\ draining = NoHost /\ \A x \in Live : chans[x] \in Chan
  BY DEF ChanUp, LinkInv, Good, ChansOK, Live, Quiet
<1>4. c \in Attempts
  BY <1>3 DEF Attempts, WaitInv, Passive
<1>5. Attempts = {c} /\ c \in Known
  BY <1>4, OneAttempt
<1>6. app.link # "idle" /\ keys # {} /\ ~(app.kick # "off" /\ ~app.hidOpen)
  BY <1>3, <1>5 DEF Sole
<1>7. /\ DOMAIN up = Live /\ up[c].state = "open"
      /\ \A x \in Live \ {c} : up[x] = chans[x]
  BY <1>3 DEF Live, Chan
<1> HIDE DEF up
<1>8. /\ hid'.ctrl = hid.ctrl
      /\ \/ /\ app' = app /\ hid'.intr = n
            /\ \E ch : chans' = With(up, n, ch)
         \/ /\ chans' = up
            /\ \/ app' = app
               \/ /\ app' = OnOpened(app, hid.peer)
                  /\ hid.peer \in Hosts
  BY <1>1, <1>3, <1>5, HidOpenedEffect DEF WaitInv, up
<1>9. CASE /\ app' = app /\ hid'.intr = n
           /\ \E ch : chans' = With(up, n, ch)
  <2>1. /\ Live' = Live \cup {n}
        /\ \A x \in Live : chans'[x] = up[x]
    BY <1>2, <1>7, <1>9 DEF With, Live
  <2>2. Attempts' \subseteq {n}
    BY <1>5, <1>7, <2>1 DEF Attempts
  <2>3. n \in Known'
    BY <1>2, <1>9 DEF Known
  <2> QED
    BY <1>6, <1>3, <1>9, <2>2, <2>3 DEF Sole
<1>10. CASE /\ chans' = up
            /\ app' = app \/ (app' = OnOpened(app, hid.peer)
                               /\ hid.peer \in Hosts)
  <2>1. Attempts' = {}
    BY <1>5, <1>7, <1>10 DEF Attempts, Live
  <2>2. app'.link # "idle"
    BY <1>3, <1>6, <1>10, OnOpenedArms
  <2> QED
    BY <1>3, <1>6, <2>1, <2>2 DEF Sole
<1> QED
  BY <1>8, <1>9, <1>10

LEMMA StepSole ==
    ASSUME OneHost, HostsWait, KeysKept,
           LinkInv, WaitInv, Sole, [LinkNext]_linkVars
    PROVE  Sole'
<1>1. CASE Device
  BY <1>1, StackUpSole, KickRestsSole, KickPagesSole DEF Device
<1>2. ASSUME NEW c \in Live, ChanUp(c) \/ Drain(c) PROVE Sole'
  BY <1>2, ChanUpSole, ChanGoesSole DEF Drain, WaitInv, Passive
<1>3. CASE Drained
  BY <1>3, DrainedSole
<1>4. CASE HostMoves
  BY <1>4, AclUpSole, PairSole, AclEndsSole DEF HostMoves, HostOpens, HostsWait
<1>5. ASSUME NEW c \in Live, ChanFails(c) \/ ChanClosed(c) PROVE Sole'
  BY <1>5, ChanGoesSole DEF ChanFails, ChanClosed, Quiet
<1>6. CASE UNCHANGED linkVars
  <2>1. Live' = Live /\ Attempts' = Attempts /\ Known' = Known
        /\ AllQuiet' = AllQuiet
    BY <1>6 DEF linkVars, Live, Attempts, Known, AllQuiet
  <2> QED
    BY <1>6, <2>1 DEF linkVars, Sole
<1> QED
  BY <1>1, <1>2, <1>3, <1>4, <1>5, <1>6 DEF LinkNext, Progress, ChanEnds

LEMMA NoStackStep ==
    LinkInv /\ Sole /\ [LinkNext]_linkVars
        => [asked'.page => Attempts = {}]_linkVars
<1> SUFFICES ASSUME LinkInv, Sole, LinkNext, asked'.page PROVE Attempts = {}
  OBVIOUS
<1>1. CASE KickPages
  BY <1>1 DEF KickPages, Absent, Sole
<1>2. CASE asked' = asked /\ draining # NoHost
  BY <1>2 DEF LinkInv
<1> QED
  BY <1>1, <1>2, AskedKept

\* With one host that waits to be paged and keeps its key, no attempt starts
\* while the one before it is running.
THEOREM NoStackedConnectHolds ==
    ASSUME OneHost, HostsWait, KeysKept PROVE LinkSpec => NoStackedConnect
<1>1. LinkInit => Sole
  BY DEF LinkInit, Sole, Attempts, Live, Known, AllQuiet, Setup
<1>2. LinkInv /\ WaitInv /\ Sole /\ [LinkNext]_linkVars => Sole'
  BY StepSole
<1> QED
  BY <1>1, <1>2, NoStackStep, LinkInvariance, WaitInvHolds, PTL
     DEF LinkSpec, NoStackedConnect
=============================================================================
