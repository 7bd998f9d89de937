------------------------------ MODULE Identity -------------------------------
(***************************************************************************)
(* Who the stick is to its hosts: the two bond tables and the identity     *)
(* generation in flash, and the forget that clears the one and moves the   *)
(* other, from either transport or from config mode (clear_all_bonds(),    *)
(* do_forget(), settings.cpp's identity).                                  *)
(*                                                                         *)
(* BTstack's keys are erased from flash there and then.  Bluedroid's are    *)
(* only asked to be removed: its task makes the removals when it comes to  *)
(* it, that of a connected host after the disconnect, and those it has not *)
(* made are lost with the restart.  The power may go between any two       *)
(* writes.  A host pairs on the radio that is up, also while a forget is   *)
(* under way, which in a transport's boot runs on another task.            *)
(***************************************************************************)
EXTENDS Naturals

CONSTANTS
    Hosts,       \* hosts; each may pair over either transport
    Gens,        \* identity generations before they wrap, a power of two
    Mac5,        \* the last byte of the factory address, as wide
    XorOf(_, _), \* exclusive or of two such bytes, C's ^
    MaxForgets   \* bound: generations used up

ASSUME IdentityAssumption ==
    /\ Gens \in Nat \ {0} /\ Mac5 \in 0..(Gens - 1)
    /\ MaxForgets \in Nat /\ MaxForgets < Gens

\* All that is asked of it: it stays within the byte, and no two generations
\* make the same of one.
ASSUME XorAssumption ==
    \A a, b, c \in 0..(Gens - 1) :
        XorOf(a, b) \in 0..(Gens - 1) /\ (XorOf(a, b) = XorOf(a, c) => b = c)

VARIABLES
    flash,     \* settings: transport and identity generation
    bonds,     \* the link keys stored for each transport
    mode,      \* what this boot is
    addr,      \* the address of this boot
    forget,    \* how far a forget has come
    queued,    \* the bonds Bluedroid has been asked to remove and has not yet
    knows,     \* the hosts: the address each is bonded to, per transport
    used,      \* bound: generations used up
    outcast,   \* history: hosts a forget has left behind
    excused    \* history: the bonds a forget left behind or came too late for

identityVars ==
    <<flash, bonds, mode, addr, forget, queued, knows, used, outcast, excused>>

Transports == {"classic", "ble"}
Modes      == Transports \cup {"config"}
Nobody     == [kind |-> "none", low |-> 0]

\* Mutant: the highest bit of the generation is masked off.
RotatedLow(gen) == XorOf(Mac5, gen % (Gens \div 2))

\* mac[5] ^= gen, in apply_bt_identity() and ble_static_rand_addr().
Rotated(gen) == XorOf(Mac5, gen)

\* The address of a boot.  Classic's is the base address plus two (external);
\* BLE's has the two top bits set and is a random one; config mode's differs
\* in mac[4] and does not rotate.
Address(m, gen) ==
    [kind |-> m,
     low  |-> CASE m = "classic" -> (Rotated(gen) + 2) % Gens
                [] m = "ble"     -> Rotated(gen)
                [] m = "config"  -> (Mac5 + 2) % Gens]

Addresses == [kind : Modes, low : 0..(Gens - 1)] \cup {Nobody}

\* Bluedroid, which keeps the bonds of BLE, answers only where it is up.
BluedroidUp == mode # "classic"

-----------------------------------------------------------------------------
IdentityInit ==
    /\ flash = [transport |-> "classic", gen |-> 0]
    /\ bonds = [t \in Transports |-> {}]
    /\ mode = "classic" /\ addr = Address("classic", 0)
    /\ forget = "no" /\ queued = {}
    /\ knows = [h \in Hosts |-> [t \in Transports |-> Nobody]]
    /\ used = 0
    /\ outcast = [t \in Transports |-> {}]
    /\ excused = [t \in Transports |-> {}]

\* The next boot: a request for config mode, else the stored transport.  What
\* Bluedroid has not come to is forgotten.
Restarted(m) ==
    /\ mode' = m /\ addr' = Address(m, flash.gen)
    /\ forget' = "no" /\ queued' = {}
    /\ UNCHANGED <<flash, bonds, knows, used, outcast, excused>>

\* A plain restart, or the power goes: at any time.
Reboot == Restarted(flash.transport)

\* enter_config_mode().
EnterConfig == mode # "config" /\ forget = "no" /\ Restarted("config")

\* set_transport(): the gesture, the console and the page.
SetTransport(t) ==
    /\ forget = "no"
    /\ flash' = [flash EXCEPT !.transport = t]
    /\ UNCHANGED
          <<bonds, mode, addr, forget, queued, knows, used, outcast, excused>>

\* A host pairs anew; it and the stick store their keys.
Pair(h) ==
    /\ mode \in Transports
    /\ bonds' = [bonds EXCEPT ![mode] = @ \cup {h}]
    /\ knows' = [knows EXCEPT ![h][mode] = addr]
    /\ outcast' = [outcast EXCEPT ![mode] = @ \ {h}]
    /\ excused' = [excused EXCEPT
          ![mode] = IF forget = "no" THEN @ \ {h} ELSE @ \cup {h}]
    /\ UNCHANGED <<flash, mode, addr, forget, queued, used>>

-----------------------------------------------------------------------------
(* pro_forget_host(), ble_forget_host() and do_forget(). *)

\* Mutant: the bonds are left alone, a new address will do.
FirstBumps == "bump"

\* clear_all_bonds() comes first; config mode knows of BLE's bonds only.
First == IF mode = "config" THEN "bluedroid" ELSE "btstack"

StartForget ==
    /\ forget = "no" /\ used < MaxForgets
    /\ forget' = First
    /\ UNCHANGED
          <<flash, bonds, mode, addr, queued, knows, used, outcast, excused>>

\* BTstack's namespace is erased as a whole, in any boot.
ClearBTstack ==
    /\ forget = "btstack" /\ forget' = "bluedroid"
    /\ bonds' = [bonds EXCEPT !["classic"] = {}]
    /\ excused' = [excused EXCEPT !["classic"] = {}]
    /\ UNCHANGED <<flash, mode, addr, queued, knows, used, outcast>>

\* The list is read at once, esp_ble_remove_bond_device() only posts to
\* Bluedroid's task.
QueueRemovals ==
    /\ forget = "bluedroid" /\ forget' = "bump"
    /\ queued' = IF BluedroidUp THEN bonds["ble"] ELSE {}
    /\ UNCHANGED <<flash, bonds, mode, addr, knows, used, outcast, excused>>

\* Bluedroid comes to a removal (external), before the bump, after it, or
\* never.  In config mode do_forget() runs in Bluedroid's own callback and
\* gives its task nothing to do before the restart.
RemoveBond(h) ==
    /\ mode = "ble" /\ h \in queued
    /\ queued' = queued \ {h}
    /\ bonds' = [bonds EXCEPT !["ble"] = @ \ {h}]
    /\ excused' = [excused EXCEPT !["ble"] = @ \ {h}]
    /\ UNCHANGED <<flash, mode, addr, forget, knows, used, outcast>>

\* The bonds a forget has not got at when it moves the identity on.
LeftBehind(t) ==
    CASE t = "classic" -> IF mode = "config" THEN bonds[t] ELSE {}
      [] t = "ble"     -> IF BluedroidUp THEN queued ELSE bonds[t]

\* bump_identity_generation(): the byte wraps.
Bump ==
    /\ forget = "bump" /\ forget' = "restart"
    /\ flash' = [flash EXCEPT !.gen = (@ + 1) % Gens]
    /\ used' = used + 1
    /\ outcast' = [t \in Transports |-> {h \in Hosts : knows[h][t] # Nobody}]
    /\ excused' = [t \in Transports |-> excused[t] \cup LeftBehind(t)]
    /\ UNCHANGED <<bonds, mode, addr, queued, knows>>

Restart == forget = "restart" /\ Restarted(flash.transport)

Forget == \/ StartForget \/ ClearBTstack \/ (\E h \in Hosts : RemoveBond(h))
          \/ QueueRemovals \/ Bump \/ Restart

IdentityNext == \/ Reboot \/ EnterConfig \/ Forget
                \/ (\E t \in Transports : SetTransport(t))
                \/ (\E h \in Hosts : Pair(h))

IdentitySpec == IdentityInit /\ [][IdentityNext]_identityVars

-----------------------------------------------------------------------------
IdentityTypeOK ==
    /\ flash \in [transport : Transports, gen : 0..(Gens - 1)]
    /\ bonds \in [Transports -> SUBSET Hosts]
    /\ mode \in Modes /\ addr \in Addresses
    /\ forget \in {"no", "btstack", "bluedroid", "bump", "restart"}
    /\ knows \in [Hosts -> [Transports -> Addresses]]
    /\ used \in 0..MaxForgets
    /\ queued \subseteq Hosts
    /\ outcast \in [Transports -> SUBSET Hosts]
    /\ excused \in [Transports -> SUBSET Hosts]

\* "so a forgotten host stops auto-reconnecting to the old address"
\* (bt_ble.cpp:486): until it pairs again, no host of before a forget meets the
\* address it was bonded to, over either transport, whichever key of its was
\* left behind, wherever the forget was started, and however many forgets go
\* by before the generation wraps.
ForgottenStaysOut ==
    mode \in Transports /\ forget = "no" =>
        \A h \in outcast[mode] : knows[h][mode] # addr

\* A bond in flash is one its host honours: the stick is still at the address
\* that host is bonded to, after every switch of transport and wherever the
\* power cuts a forget short.  Not so for the bonds a forget leaves behind as
\* it moves the identity on: BLE's from Classic, all of them from config mode,
\* from BLE those Bluedroid has not come to; nor for a host that pairs while a
\* forget is under way.  Those are keys for an address that is gone, until the
\* host pairs again or they are removed.
BondsHonoured ==
    \A t \in Transports : \A h \in bonds[t] \ excused[t] :
        knows[h][t] = Address(t, flash.gen)
=============================================================================
