------------------------------ MODULE ProLink -------------------------------
(***************************************************************************)
(* Who connects to whom on the Classic transport: the link half of         *)
(* bt_pro_btstack.cpp on top of BTstack's HID device (hid_device.c, one    *)
(* static instance) and the L2CAP channels under it.                       *)
(*                                                                         *)
(* A host may open the two HID channels itself, or pair and wait; the      *)
(* stick answers the second kind by paging it ("the kick").  Both sides    *)
(* can move at once.  Every action below is one event on the run loop,     *)
(* handled to its end; when an ACL ends, its channels are reported one by  *)
(* one (Drain) before anything else happens.                               *)
(***************************************************************************)
EXTENDS Naturals, FiniteSets

CONSTANTS
    Hosts,       \* bonded or passing hosts
    Initiators,  \* those that open the HID channels themselves
    Forgetful,   \* those that may have lost their link key, and pair again
    Closers,     \* those that may close a single channel
    NoHost,      \* the zero address, the invalid connection handle
    Stale,       \* a connection handle whose ACL has ended
    Cids,        \* bound: L2CAP channel ids; 0 is none
    FastMax,     \* kKickMaxAttempts
    SlowMax,     \* kSlowMaxAttempts
    MaxFaults    \* bound: page failures, refusals, timeouts and drops

ASSUME LinkAssumption ==
    /\ NoHost \notin Hosts /\ Stale \notin Hosts /\ Stale # NoHost
    /\ Initiators \subseteq Hosts /\ Forgetful \subseteq Hosts
    /\ Closers \subseteq Hosts
    /\ Cids \subseteq Nat \ {0}
    /\ FastMax \in Nat /\ SlowMax \in Nat /\ MaxFaults \in Nat

VARIABLES
    app,         \* the statics of bt_pro_btstack.cpp
    hid,         \* hid_device_singleton
    chans,       \* l2cap_channels
    acl,         \* per host: the baseband link
    keys,        \* hosts with a stored link key
    draining,    \* the host whose ACL has just ended
    faults,      \* how often the environment has let a connection down
    asked        \* history: the page the last step started

linkVars == <<app, hid, chans, acl, keys, draining, faults, asked>>

Links == {"idle", "advertising", "connected"}
Kicks == {"off", "grace", "slow"}
App == [link : Links, peer : Hosts \cup {NoHost}, haveBond : BOOLEAN,
        aclUp : BOOLEAN, hidOpen : BOOLEAN, scan : BOOLEAN, kick : Kicks,
        fast : Nat, slow : Nat, slowMode : BOOLEAN]
Hid == [inUse : BOOLEAN, peer : Hosts \cup {NoHost}, incoming : BOOLEAN,
        handle : Hosts \cup {NoHost, Stale}, connected : BOOLEAN,
        ctrl : Cids \cup {0}, intr : Cids \cup {0}]
Psms == {"control", "interrupt"}
Chan == [host : Hosts, psm : Psms, incoming : BOOLEAN,
         state : {"paging", "opening", "open"}]

-----------------------------------------------------------------------------
(* The handlers of bt_pro_btstack.cpp, as changes to its statics. *)

\* arm_hid_kick(): once slow, stay slow.
ArmKick(a, reset) ==
    [a EXCEPT !.fast = IF reset THEN 0 ELSE @,
              !.slow = IF reset THEN 0 ELSE @,
              !.slowMode = @ /\ ~reset,
              !.kick = IF a.slowMode /\ ~reset THEN "slow" ELSE "grace"]

\* cancel_hid_kick().
CancelKick(a) ==
    [a EXCEPT !.fast = 0, !.slow = 0, !.slowMode = FALSE, !.kick = "off"]

Discoverable(a) == [a EXCEPT !.link = "advertising", !.scan = TRUE]

\* Mutants: a kick that lost the race tears the host's connection down, or
\* re-advertises on top of it; or nothing follows a failed page.
OnOpenFailedDrops(a) ==
    ArmKick(Discoverable([a EXCEPT !.hidOpen = FALSE]), FALSE)
OnOpenFailedAnyway(a) == ArmKick(Discoverable(a), FALSE)
OnOpenFailedGivesUp(a) == IF a.hidOpen THEN a ELSE Discoverable(a)

\* HID_SUBEVENT_CONNECTION_OPENED with an error: only acted on without a link.
OnOpenFailed(a) == IF a.hidOpen THEN a ELSE ArmKick(Discoverable(a), FALSE)

\* HID_SUBEVENT_CONNECTION_OPENED.
OnOpened(a, h) ==
    [CancelKick(a) EXCEPT !.hidOpen = TRUE, !.peer = h,
                          !.link = "connected", !.scan = FALSE]

\* Mutant: a host that went away is only waited for.
OnClosedPassive(a) == Discoverable([a EXCEPT !.hidOpen = FALSE])

\* HID_SUBEVENT_CONNECTION_CLOSED.
OnClosed(a) == ArmKick(Discoverable([a EXCEPT !.hidOpen = FALSE]), TRUE)

\* kick_timer_handler()'s early returns, as conditions.  Mutants: it does not
\* look at s_hid_cid; no tier has an end.
AnyPeer(a)  == a.peer # NoHost
Absent(a)   == ~a.hidOpen /\ a.peer # NoHost
Endless(a)  == TRUE
InBudget(a) == IF a.slowMode THEN a.slow < SlowMax ELSE a.fast < FastMax

\* Mutant: a blind retry timer behind the page.
PagingBlindly(a) == IF a.slowMode THEN [a EXCEPT !.slow = @ + 1]
                                  ELSE [a EXCEPT !.fast = @ + 1]

\* The attempt is counted, and only its failure arms the timer again.
Paging(a) == IF a.slowMode THEN [a EXCEPT !.kick = "off", !.slow = @ + 1]
                           ELSE [a EXCEPT !.kick = "off", !.fast = @ + 1]

\* Mutant: the gate is "we hold a key".
AsksLevel2ByKey(a, known) == a.peer \in known

\* `reconnect`: this boot began with a bond, there is no ACL, we hold the key.
AsksLevel2(a, known) == a.haveBond /\ ~a.aclUp /\ a.peer \in known

-----------------------------------------------------------------------------
(* hid_device.c. *)

\* hid_device_setup_instance().
Setup(h) == [inUse |-> TRUE, peer |-> h, incoming |-> FALSE,
             handle |-> NoHost, connected |-> FALSE, ctrl |-> 0, intr |-> 0]

\* hid_device_get_instance_for_l2cap_cid().
Knows(d, c) == c \in {d.ctrl, d.intr}

WithCid(d, psm, c) == IF psm = "control" THEN [d EXCEPT !.ctrl = c]
                                         ELSE [d EXCEPT !.intr = c]

\* Channel ids are handed out in turn, so a new one is neither in use nor
\* still remembered by the HID device.  They are only ever compared, and the
\* smallest such id stands for the next one.
Live  == DOMAIN chans
Free  == {c \in Cids \ Live : ~Knows(hid, c)}
Fresh == {c \in Free : \A x \in Free : c <= x}

With(cs, c, ch) ==
    [x \in DOMAIN cs \cup {c} |-> IF x = c THEN ch ELSE cs[x]]
Without(cs, c) == [x \in DOMAIN cs \ {c} |-> cs[x]]

NewChan(h, psm, in, st) ==
    [host |-> h, psm |-> psm, incoming |-> in, state |-> st]

\* L2CAP_EVENT_CHANNEL_OPENED with an error: reported for an outgoing
\* connection only.
HidOpenFailed(c) ==
    /\ app' = IF Knows(hid, c) /\ ~hid.incoming THEN OnOpenFailed(app)
              ELSE app
    /\ hid' = hid

\* Mutant: the control channel's end is not noticed.
HidClosedHalf(c) ==
    /\ hid' = [hid EXCEPT !.incoming = FALSE,
                          !.intr = IF @ = c THEN 0 ELSE @]
    /\ app' = app

\* L2CAP_EVENT_CHANNEL_CLOSED: the connection is over when both are gone.
HidClosed(c) ==
    LET d == [hid EXCEPT !.incoming = FALSE,
                         !.intr = IF @ = c THEN 0 ELSE @,
                         !.ctrl = IF @ = c THEN 0 ELSE @]
        over == d.intr = 0 /\ d.ctrl = 0
    IN  IF ~Knows(hid, c) THEN UNCHANGED <<app, hid>>
        ELSE /\ hid' = IF over THEN [d EXCEPT !.connected = FALSE,
                                              !.handle = NoHost,
                                              !.inUse = FALSE]
                       ELSE d
             /\ app' = IF over THEN OnClosed(app) ELSE app

\* L2CAP_EVENT_CHANNEL_OPENED: an outgoing control channel is followed by an
\* interrupt channel n; otherwise both ids being set is a connection.
HidOpened(c, ch, n) ==
    LET d    == [hid EXCEPT !.handle = IF @ = NoHost THEN ch.host ELSE @]
        next == ~hid.incoming /\ ch.psm = "control"
        both == ~d.connected /\ d.ctrl # 0 /\ d.intr # 0
        up   == [chans EXCEPT ![c].state = "open"]
    IN  IF ~Knows(hid, c)
        THEN chans' = up /\ UNCHANGED <<app, hid>>
        ELSE IF next
        THEN /\ hid' = [d EXCEPT !.intr = n]
             /\ chans' = With(up, n, NewChan(d.peer, "interrupt", FALSE,
                                             "opening"))
             /\ app' = app
        ELSE /\ hid' = IF both THEN [d EXCEPT !.connected = TRUE] ELSE d
             /\ chans' = up
             /\ app' = IF both THEN OnOpened(app, d.peer) ELSE app

-----------------------------------------------------------------------------
LinkInit ==
    /\ app = [link |-> "idle", peer |-> NoHost, haveBond |-> FALSE,
              aclUp |-> FALSE, hidOpen |-> FALSE, scan |-> FALSE,
              kick |-> "off", fast |-> 0, slow |-> 0, slowMode |-> FALSE]
    /\ hid = [Setup(NoHost) EXCEPT !.inUse = FALSE]
    /\ chans = [c \in {} |-> 0]
    /\ acl = [h \in Hosts |-> "down"]
    /\ keys \in SUBSET Hosts
    /\ draining = NoHost
    /\ faults = 0
    /\ asked = [page |-> FALSE, level2 |-> FALSE]

Quiet == draining = NoHost /\ asked' = [page |-> FALSE, level2 |-> FALSE]

Fault == faults < MaxFaults /\ faults' = faults + 1

\* BTSTACK_EVENT_STATE: visible, load_bond(), and the kick if there is one.
StackUp ==
    /\ app.link = "idle"
    /\ Quiet
    /\ IF keys = {} THEN app' = Discoverable(app)
       ELSE \E h \in keys :
            app' = ArmKick([Discoverable(app) EXCEPT !.peer = h,
                                                     !.haveBond = TRUE], TRUE)
    /\ UNCHANGED <<hid, chans, acl, keys, draining, faults>>

\* kick_timer_handler(), up to the point where it pages: the host beat it,
\* or it moves to the slow tier, or gives up.
KickRests ==
    /\ app.kick # "off"
    /\ Quiet
    /\ LET a == [app EXCEPT !.kick = "off"]
       IN  \/ ~Absent(app) /\ app' = a
           \/ /\ Absent(app) /\ ~InBudget(app) /\ ~app.slowMode
              /\ app' = ArmKick([a EXCEPT !.slowMode = TRUE], FALSE)
           \/ /\ Absent(app) /\ ~InBudget(app) /\ app.slowMode
              /\ app' = a
    /\ UNCHANGED <<hid, chans, acl, keys, draining, faults>>

\* kick_timer_handler() paging: hid_device_connect() sets the instance up
\* anew and creates a control channel, on the ACL if there is one.  It is not
\* refused at once: only a heap that is spent does that.
KickPages ==
    /\ app.kick # "off" /\ Absent(app) /\ InBudget(app)
    /\ draining = NoHost
    /\ app' = Paging(app)
    /\ \E c \in Fresh :
         /\ hid' = [Setup(app.peer) EXCEPT !.ctrl = c]
         /\ chans' = With(chans, c, NewChan(app.peer, "control", FALSE,
                IF acl[app.peer] = "up" THEN "opening" ELSE "paging"))
    /\ acl' = [acl EXCEPT ![app.peer] = IF @ = "up" THEN @ ELSE "paging"]
    /\ asked' = [page |-> TRUE, level2 |-> AsksLevel2(app, keys)]
    /\ UNCHANGED <<keys, draining, faults>>

\* HCI_EVENT_CONNECTION_COMPLETE: our page was answered, or the host's page
\* was while we are connectable.  Channels waiting for the ACL go on.
AclUp(h) ==
    /\ acl[h] = "paging" \/ (acl[h] = "down" /\ app.scan)
    /\ Quiet
    /\ acl' = [acl EXCEPT ![h] = "up"]
    /\ app' = [app EXCEPT !.aclUp = TRUE, !.peer = h]
    /\ chans' = [c \in Live |->
                   IF chans[c].host = h /\ chans[c].state = "paging"
                   THEN [chans[c] EXCEPT !.state = "opening"] ELSE chans[c]]
    /\ UNCHANGED <<hid, keys, draining, faults>>

\* The page timed out: every channel waiting for it fails (Drain).
PageFails(h) ==
    /\ acl[h] = "paging"
    /\ Quiet /\ Fault
    /\ draining' = h
    /\ UNCHANGED <<app, hid, chans, acl, keys>>

\* HCI_EVENT_SIMPLE_PAIRING_COMPLETE, with the new key stored before it.
Pair(h) ==
    /\ acl[h] = "up" /\ (h \notin keys \/ h \in Forgetful)
    /\ Quiet
    /\ keys' = keys \cup {h}
    /\ app' = ArmKick([app EXCEPT !.peer = h], TRUE)
    /\ UNCHANGED <<hid, chans, acl, draining, faults>>

\* L2CAP_EVENT_INCOMING_CONNECTION: taken for a device that is idle or on the
\* same connection handle, declined otherwise.  The handle of an ACL that
\* ended may be given to the next one.  A host opens control first.
HostOpens(h, psm) ==
    LET d     == IF hid.inUse THEN hid ELSE Setup(h)
        mine  == {c \in Live : chans[c].host = h /\ chans[c].incoming}
        ready == {c \in mine : chans[c].psm = "control"
                                /\ chans[c].state = "open"}
    IN  /\ acl[h] = "up" /\ h \in Initiators
        /\ \A c \in mine : chans[c].psm # psm
        /\ psm = "interrupt" => ready # {}
        /\ Quiet
        /\ \/ /\ d.handle \in {NoHost, h, Stale}
              /\ \E c \in Fresh :
                   /\ hid' = WithCid([d EXCEPT !.handle = h, !.peer = h,
                                               !.incoming = TRUE], psm, c)
                   /\ chans' = With(chans, c, NewChan(h, psm, TRUE, "opening"))
           \/ /\ d.handle \notin {NoHost, h}
              /\ hid' = d /\ chans' = chans
        /\ UNCHANGED <<app, acl, keys, draining, faults>>

\* A channel finishes its configuration.
ChanUp(c) ==
    /\ chans[c].state = "opening"
    /\ Quiet
    /\ \E n \in Fresh : HidOpened(c, chans[c], n)
    /\ UNCHANGED <<acl, keys, draining, faults>>

\* It is refused, lacks the security it asked for, or times out.
ChanFails(c) ==
    /\ chans[c].state = "opening"
    /\ Quiet /\ Fault
    /\ HidOpenFailed(c)
    /\ chans' = Without(chans, c)
    /\ UNCHANGED <<acl, keys, draining>>

\* The host disconnects it.
ChanClosed(c) ==
    /\ chans[c].state \in {"opening", "open"} /\ chans[c].host \in Closers
    /\ Quiet /\ Fault
    /\ HidClosed(c)
    /\ chans' = Without(chans, c)
    /\ UNCHANGED <<acl, keys, draining>>

\* HCI_EVENT_DISCONNECTION_COMPLETE, of any ACL.
AclDown(h) ==
    /\ acl[h] = "up"
    /\ Quiet /\ Fault
    /\ app' = [app EXCEPT !.aclUp = FALSE]
    /\ draining' = h
    /\ UNCHANGED <<hid, chans, acl, keys>>

\* One channel of the ended ACL: open and incoming ones are closed, the
\* device's own that were not yet open have failed.
Drain(c) ==
    /\ draining # NoHost /\ chans[c].host = draining
    /\ IF chans[c].state = "open" \/ chans[c].incoming
       THEN HidClosed(c) ELSE HidOpenFailed(c)
    /\ chans' = Without(chans, c)
    /\ UNCHANGED <<acl, keys, draining, faults, asked>>

\* No channel is left: the handle means nothing from here on.
Drained ==
    /\ draining # NoHost
    /\ \A c \in Live : chans[c].host # draining
    /\ acl' = [acl EXCEPT ![draining] = "down"]
    /\ hid' = [hid EXCEPT !.handle = IF @ = draining THEN Stale ELSE @]
    /\ draining' = NoHost
    /\ UNCHANGED <<app, chans, keys, faults, asked>>

Device == StackUp \/ KickRests \/ KickPages
Progress == \/ \E c \in Live : ChanUp(c) \/ Drain(c)
            \/ Drained
HostMoves == \E h \in Hosts :
    \/ AclUp(h) \/ Pair(h) \/ AclDown(h) \/ PageFails(h)
    \/ \E psm \in Psms : HostOpens(h, psm)
ChanEnds == \E c \in Live : ChanFails(c) \/ ChanClosed(c)

LinkNext == Device \/ Progress \/ HostMoves \/ ChanEnds

LinkSpec == LinkInit /\ [][LinkNext]_linkVars

-----------------------------------------------------------------------------
LinkTypeOK ==
    /\ app \in App /\ hid \in Hid
    /\ Live \subseteq Cids /\ chans \in [Live -> Chan]
    /\ acl \in [Hosts -> {"down", "paging", "up"}]
    /\ keys \in SUBSET Hosts /\ draining \in Hosts \cup {NoHost}
    /\ faults \in 0..MaxFaults
    /\ asked \in [page : BOOLEAN, level2 : BOOLEAN]

\* The connection flag of the app and of the HID device agree: s_hid_cid is
\* nonzero exactly while hid_device.c counts itself connected,
\* although the kick sets that device up anew behind the app's back and its
\* failures arrive after the host's own connection has won.
AppFollowsDevice == app.hidOpen = hid.connected

\* What the stick shows and whether it can be found follow the connection.
Findable ==
    /\ app.hidOpen => app.link = "connected" /\ ~app.scan
    /\ ~app.hidOpen => app.link # "connected"
                        /\ app.scan = (app.link = "advertising")

\* The radio time spent on an absent host is bounded: until it pairs, connects
\* or goes away anew it is paged no more often than the two tiers allow, however
\* often a failure arms the timer again, and the slow tier only follows a spent
\* fast one (bt_pro_btstack.cpp:489-505).
Budget ==
    /\ app.fast <= FastMax /\ app.slow <= SlowMax
    /\ app.slowMode => app.fast = FastMax
    /\ app.slow > 0 => app.slowMode

\* A kick never tears down a connection: it pages only without one.
NoKickWhenOpen == [][asked'.page => ~hid.connected]_linkVars

-----------------------------------------------------------------------------
(* What the comments of bt_pro_btstack.cpp promise.  With one host that waits *)
(* to be paged and keeps its key all of it holds.  The first two need no more *)
(* than that every host waits, and the last no more than that there is one.   *)

\* bt_pro_btstack.cpp:85: a nonzero s_hid_cid means connected.  A connection
\* the stick believes in must have a baseband link under it: nothing kicks,
\* scans or sleeps while it believes in one.
CidMeansConnected ==
    app.hidOpen /\ draining = NoHost => \E h \in Hosts : acl[h] = "up"

\* bt_pro_btstack.cpp:99: a stick with a bond keeps paging until the slow
\* budget is spent.  Without a connection the kick is armed, or some channel
\* is still there whose end arms it again.
KeepsPaging ==
    app.haveBond /\ ~app.hidOpen /\ draining = NoHost
        => app.kick # "off" \/ Live # {} \/ app.slow = SlowMax

\* bt_pro_btstack.cpp:543: an attempt never starts while the one before it is
\* running, which would leave an orphan channel.
Attempts == {c \in Live : ~chans[c].incoming /\ chans[c].state # "open"}
NoStackedConnect == [][asked'.page => Attempts = {}]_linkVars

\* bt_pro_btstack.cpp:530: the security level is raised only when there is no
\* ACL to that host yet, or it re-authenticates a link the host is securing.
Level2OnFreshAcl == [][asked'.level2 => acl[app.peer] # "up"]_linkVars

\* The run loop runs what is due, and BTstack reports what has happened; a
\* page either reaches its host or fails.
FairLink == /\ LinkSpec
            /\ WF_linkVars(Device) /\ WF_linkVars(Progress)
            /\ \A h \in Hosts : WF_linkVars(acl[h] = "paging" /\ AclUp(h))

\* A bonded stick whose host only waits to be paged reconnects, whatever
\* pages time out, channels are refused or links drop on the way, as long as
\* there are fewer of them than the fast and slow attempts together.
Rejoins == app.haveBond /\ ~app.hidOpen ~> app.hidOpen
=============================================================================
