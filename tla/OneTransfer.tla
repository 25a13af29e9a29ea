---------------------------- MODULE OneTransfer ----------------------------
(***************************************************************************)
(* What a pairing offer promises: it is shown once, it pairs this device   *)
(* with at most one connection of the other device, and at most one        *)
(* inventory comes through it, the one that the paired device sent.        *)
(***************************************************************************)
CONSTANTS Offers, Streams, Bundle(_)

VARIABLES state, partner, delivered

vars == <<state, partner, delivered>>

\* The states an offer goes through; "dead" and "done" are final.
States == {"unmade", "open", "paired", "done", "dead"}

Init ==
    /\ state = [o \in Offers |-> "unmade"]
    /\ partner = [o \in Offers |-> {}]
    /\ delivered = [o \in Offers |-> {}]

\* The device shows the pairing code.
Open(o) ==
    /\ state[o] = "unmade"
    /\ state' = [state EXCEPT ![o] = "open"]
    /\ UNCHANGED <<partner, delivered>>

\* One connection completes the handshake; the person may have given up meanwhile.
Pair(o, s) ==
    /\ state[o] = "open"
    /\ \E q \in {"paired", "dead"} : state' = [state EXCEPT ![o] = q]
    /\ partner' = [partner EXCEPT ![o] = {s}]
    /\ UNCHANGED delivered

\* The inventory of the paired device arrives.
Deliver(o) ==
    /\ state[o] = "paired"
    /\ state' = [state EXCEPT ![o] = "done"]
    /\ delivered' = [delivered EXCEPT ![o] = {Bundle(s) : s \in partner[o]}]
    /\ UNCHANGED partner

\* The offer expires, the exchange fails or the person gives up.
Die(o) ==
    /\ state[o] \in {"open", "paired"}
    /\ state' = [state EXCEPT ![o] = "dead"]
    /\ UNCHANGED <<partner, delivered>>

Next ==
    \E o \in Offers :
        Open(o) \/ Deliver(o) \/ Die(o) \/ \E s \in Streams : Pair(o, s)

Spec == Init /\ [][Next]_vars
=============================================================================
