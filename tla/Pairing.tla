------------------------------ MODULE Pairing ------------------------------
(***************************************************************************)
(* Moving the inventory from one device to another: the offers of the      *)
(* device being set up (Listener, SyncReceiver and the registry of the C   *)
(* interface), the scans of the device that has the servers                *)
(* (send_transfer, SyncSender) and the connections between the two.        *)
(*                                                                         *)
(* A call of the receiving device runs on a thread of the application.  It *)
(* finds its SyncReceiver in the registry under the lock and goes on with  *)
(* a clone, so the registry may change while the call waits.  A call whose *)
(* lookup fails returns an error and changes nothing: it is no action.     *)
(*                                                                         *)
(* A key, a nonce and the six digits two people compare are modelled by    *)
(* what they are computed from; that two different exchanges show the same *)
(* digits by chance is left out.                                           *)
(***************************************************************************)
EXTENDS Naturals, Sequences, FiniteSets, SequencesExt

CONSTANTS
    MaxOffers,     \* offers the device makes in a run
    Threads,       \* threads of the application that is set up
    Scans,         \* scans of a pairing code on the other device
    Hosts,         \* the addresses the platform lists, a sequence of families
    Routes,        \* what may stand behind an address of the list
    MaxAddresses,  \* addresses a scanner accepts in a code (32)
    Size,          \* length of the inventory each scan sends
    MaxTransfer,   \* longest sealed transfer (MAX_TRANSFER)
    Overhead       \* nonce and tag a sealed transfer adds (28)

ASSUME PairingAssumption ==
    /\ MaxOffers \in Nat /\ MaxAddresses \in Nat /\ MaxTransfer \in Nat /\ Overhead \in Nat
    /\ Hosts \in Seq({"v4", "v6"}) /\ Len(Hosts) > 0
    /\ Routes \subseteq {"here", "silent", "other", "refused"}
    /\ Size \in [Scans -> Nat]

Offers == 1..MaxOffers

\* An attempt of a scan at one address of the code: its connection and its fresh key.
Streams == Scans \X (1..Len(Hosts))

None == <<>>

VARIABLES
    next_id,    \* offers made so far: the registry's counter
    receivers,  \* offers in the registry
    addresses,  \* the addresses in each offer's code, as positions of Hosts
    expired,    \* offers older than OFFER_TTL_SECS
    listener,   \* whether SyncReceiver.listener still holds the listener
    backlog,    \* connections an offer's sockets have not accepted, oldest first
    connected,  \* SyncReceiver.connected
    screen,     \* codes the receiving device has shown for an offer
    call,       \* what each thread is doing
    received,   \* inventories receive() has returned
    refused,    \* offers whose transfer receive() found too long
    route,      \* what stands behind each address
    scan,       \* progress of scan_pairing_code
    senders,    \* scans in the other device's registry
    link,       \* whether SyncSender.connected still holds its connection
    stream      \* the connections

registry == <<next_id, receivers, addresses>>
results == <<received, refused>>
rvars == <<registry, expired, listener, connected, screen, call, results>>
svars == <<scan, senders, link>>
vars == <<rvars, backlog, route, svars, stream>>

Idle == [pc |-> "idle", o |-> 0, st |-> None]

Init ==
    /\ next_id = 0 /\ receivers = {} /\ expired = {}
    /\ addresses = [o \in Offers |-> <<>>]
    /\ listener = [o \in Offers |-> FALSE]
    /\ backlog = [o \in Offers |-> <<>>]
    /\ connected = [o \in Offers |-> None]
    /\ screen = [o \in Offers |-> {}]
    /\ call = [t \in Threads |-> Idle]
    /\ received = [o \in Offers |-> {}] /\ refused = {}
    /\ route \in [1..Len(Hosts) -> Routes]
    /\ scan = [s \in Scans |-> [pc |-> "idle", o |-> 0, i |-> 0]]
    /\ senders = {} /\ link = [s \in Scans |-> FALSE]
    /\ stream = [st \in Streams |->
                   [client |-> "none", key |-> FALSE, server |-> "none", data |-> "none"]]

-----------------------------------------------------------------------------
(* The handshake. *)

\* Handshake::offering and Handshake::accepting: a secret per offer, a secret per attempt.
\* The public half is all that crosses the wire.
offering(o) == <<o>>
accepting(st) == st
CompleteMineFirst(mine, theirs, nonce, isOffering) == <<mine, theirs, nonce>>

\* Handshake::complete: the transcript has the offering side's key first on both sides.
\* The key and the digits are functions of it.
complete(mine, theirs, nonce, isOffering) ==
    IF isOffering THEN <<mine, theirs, nonce>> ELSE <<theirs, mine, nonce>>

\* send_transfer's check of the key that the other end answered with.
KeyMatches(theirs, o) == theirs = offering(o)

\* What the scanning device shows.
SenderCode(s) ==
    LET st == <<s, scan[s].i>> IN complete(accepting(st), offering(scan[s].o), scan[s].o, FALSE)

-----------------------------------------------------------------------------
(* The device being set up. *)

\* Threads that hold a clone of the offer's SyncReceiver.
Holding(o) == {t \in Threads : call[t].pc # "idle" /\ call[t].o = o}
Alive(o) == o \in receivers \/ Holding(o) # {}
Accepting(o) == \E t \in Holding(o) : call[t].pc \in {"accepting", "handshake"}

\* The offer's sockets are open: the listener is in its mutex, or accept() owns it.
Listening(o) == (listener[o] /\ Alive(o)) \/ Accepting(o)

\* The server end of a connection is dropped; an answer already sent can still be read.
Closed(str, dropped) ==
    [st \in Streams |->
        IF st \notin dropped THEN str[st]
        ELSE [str[st] EXCEPT !.server =
                 IF @ \in {"answered", "answered_closed"} THEN "answered_closed" ELSE "closed"]]
Waiting(o) == {backlog[o][k] : k \in 1..Len(backlog[o])}

\* Listener::bind: the IPv6 addresses are offered only if the second socket could be bound.
bind(v6) ==
    LET upTo[n \in 0..Len(Hosts)] ==
          IF n = 0 THEN <<>>
          ELSE IF Hosts[n] = "v4" \/ v6 THEN Append(upTo[n - 1], n) ELSE upTo[n - 1]
    IN upTo[Len(Hosts)]

\* The registry counts up before it inserts.
NewId == next_id + 1

\* sg_start_receiving: bind, then register under the next id.
sg_start_receiving ==
    /\ next_id < MaxOffers
    /\ \E v6 \in BOOLEAN :
        /\ bind(v6) # <<>>
        /\ LET id == NewId IN
            /\ next_id' = id
            /\ receivers' = receivers \union {id}
            /\ addresses' = [addresses EXCEPT ![id] = bind(v6)]
            /\ listener' = [listener EXCEPT ![id] = TRUE]
    /\ UNCHANGED <<expired, connected, screen, call, results, backlog, route, svars, stream>>

\* The offer's 120 s are over.
expire(o) ==
    /\ o \in 1..next_id \ expired
    /\ expired' = expired \union {o}
    /\ UNCHANGED <<registry, listener, connected, screen, call, results, backlog, route, svars,
                   stream>>

\* The two people saw the same digits.
Agreed(o) == \E s \in senders : SenderCode(s) \in screen[o]

\* take_receiver: sg_receiver_await_connection and sg_receiver_receive find their offer.
\* receive() is called only once the codes were compared.
take_receiver(t, o, pc) ==
    /\ call[t].pc = "idle" /\ o \in receivers
    /\ pc = "receive" => Agreed(o)
    /\ call' = [call EXCEPT ![t] = [pc |-> pc, o |-> o, st |-> None]]
    /\ UNCHANGED <<registry, expired, listener, connected, screen, results, backlog, route, svars,
                   stream>>

\* A call returns, with the listener it took or without; the sockets and the connections nothing
\* holds any more are closed.
Return(t, dropped, withListener) ==
    LET o == call[t].o
        gone == ~(o \in receivers \/ Holding(o) \ {t} # {})
        closes == withListener \/ gone
    IN /\ call' = [call EXCEPT ![t] = Idle]
       /\ stream' = Closed(stream, dropped
              \union (IF closes THEN Waiting(o) ELSE {})
              \union (IF gone THEN {connected[o]} \ {None} ELSE {}))
       /\ backlog' = [backlog EXCEPT ![o] = IF closes THEN <<>> ELSE @]

LeftInPlace(o) == TRUE

\* await_connection takes the listener out of its mutex, so a second call finds none.
Taken(o) == FALSE

\* await_connection up to the accept: "already been used", or expired, or listening.
await_connection(t) ==
    /\ call[t].pc = "await"
    /\ LET o == call[t].o IN
        /\ listener' = [listener EXCEPT ![o] = @ /\ Taken(o)]
        /\ IF ~listener[o] THEN Return(t, {}, FALSE)
           ELSE IF o \in expired THEN Return(t, {}, TRUE)
           ELSE /\ call' = [call EXCEPT ![t].pc = "accepting"]
                /\ UNCHANGED <<backlog, stream>>
    /\ UNCHANGED <<registry, expired, connected, screen, results, route, svars>>

\* accept_inner takes the oldest connection of one of its sockets.
accept(t) ==
    /\ call[t].pc = "accepting"
    /\ LET o == call[t].o
           family(k) == Hosts[addresses[o][backlog[o][k][2]]]
       IN \E k \in 1..Len(backlog[o]) :
            /\ \A j \in 1..(k - 1) : family(j) # family(k)
            /\ call' = [call EXCEPT ![t].pc = "handshake", ![t].st = backlog[o][k]]
            /\ stream' = [stream EXCEPT ![backlog[o][k]].server = "accepted"]
            /\ backlog' = [backlog EXCEPT ![o] = RemoveAt(@, k)]
    /\ UNCHANGED <<registry, expired, listener, connected, screen, results, route, svars>>

\* The other end's key arrived: answer with ours, complete, keep the connection for receive().
handshake(t) ==
    /\ call[t].pc = "handshake" /\ stream[call[t].st].key
    /\ LET o == call[t].o
           st == call[t].st
           last == ~(o \in receivers \/ Holding(o) \ {t} # {})
       IN /\ call' = [call EXCEPT ![t] = Idle]
          /\ screen' = [screen EXCEPT ![o] = @ \union
                 {complete(offering(o), accepting(st), o, TRUE)}]
          /\ connected' = [connected EXCEPT ![o] = IF last THEN None ELSE st]
          /\ stream' = Closed([stream EXCEPT ![st].server = "answered"],
                              Waiting(o) \union (IF last THEN {st} ELSE {}))
          /\ backlog' = [backlog EXCEPT ![o] = <<>>]
    /\ UNCHANGED <<registry, expired, listener, results, route, svars>>

\* The exchange breaks: the other end closed before its key arrived, or before ours went out.
handshake_failed(t) ==
    /\ call[t].pc = "handshake" /\ stream[call[t].st].client = "closed"
    /\ Return(t, {call[t].st}, TRUE)
    /\ UNCHANGED <<registry, expired, listener, connected, screen, results, route, svars>>

OnlyAccept == {"accepting"}

\* Listener::accept bounds the wait for a connection and the whole handshake.
Bounded == {"accepting", "handshake"}

\* timeout_at fires.
accept_times_out(t) ==
    /\ call[t].pc \in Bounded /\ call[t].o \in expired
    /\ Return(t, {call[t].st} \ {None}, TRUE)
    /\ UNCHANGED <<registry, expired, listener, connected, screen, results, route, svars>>

\* receive() takes the connection, so that it is read once.
receive(t) ==
    /\ call[t].pc = "receive"
    /\ LET o == call[t].o IN
        IF connected[o] = None
          THEN Return(t, {}, FALSE) /\ UNCHANGED connected
          ELSE /\ call' = [call EXCEPT ![t].pc = "reading", ![t].st = connected[o]]
               /\ connected' = [connected EXCEPT ![o] = None]
               /\ UNCHANGED <<backlog, stream>>
    /\ UNCHANGED <<registry, expired, listener, screen, results, route, svars>>

\* accept_transfer: the length, its limit, the sealed bytes, and the key they open with.
accept_transfer(t) ==
    /\ call[t].pc = "reading"
    /\ LET st == call[t].st
           o == call[t].o
       IN \/ /\ stream[st].data = "sealed"
             /\ IF Size[st[1]] + Overhead > MaxTransfer
                  THEN refused' = refused \union {o} /\ UNCHANGED received
                  ELSE received' = [received EXCEPT ![o] = @ \union {st[1]}] /\ UNCHANGED refused
          \/ UNCHANGED results    \* it stops early, or takes over 30 s
       /\ Return(t, {st}, FALSE)
    /\ UNCHANGED <<registry, expired, listener, connected, screen, route, svars>>

\* sg_pairing_forget on this device: the registry lets go, a call that waits goes on.
sg_pairing_forget(o) ==
    /\ o \in receivers
    /\ receivers' = receivers \ {o}
    /\ LET unused == Holding(o) = {} IN
        /\ stream' = IF unused
                       THEN Closed(stream, Waiting(o) \union ({connected[o]} \ {None}))
                       ELSE stream
        /\ backlog' = IF unused THEN [backlog EXCEPT ![o] = <<>>] ELSE backlog
        /\ connected' = IF unused THEN [connected EXCEPT ![o] = None] ELSE connected
        /\ listener' = IF unused THEN [listener EXCEPT ![o] = FALSE] ELSE listener
    /\ UNCHANGED <<next_id, addresses, expired, screen, call, results, route, svars>>

-----------------------------------------------------------------------------
(* The device that has the servers. *)

\* Offer::decode: a code without an address, or with too many, is refused.
decode(o) == Len(addresses[o]) \in 1..MaxAddresses

\* sg_scan_pairing_code: the code is decoded, its addresses are tried in order.
sg_scan_pairing_code(s, o) ==
    /\ scan[s].pc = "idle" /\ o \in 1..next_id
    /\ decode(o)
    /\ scan' = [scan EXCEPT ![s] = [pc |-> "dialing", o |-> o, i |-> 1]]
    /\ UNCHANGED <<rvars, backlog, route, senders, link, stream>>

\* On to the next address, or the scan fails.
NextAddress(s) ==
    LET at == scan[s] IN
    scan' = [scan EXCEPT ![s] = IF at.i < Len(addresses[at.o])
                                  THEN [at EXCEPT !.i = at.i + 1, !.pc = "dialing"]
                                  ELSE [at EXCEPT !.pc = "failed"]]

\* TcpStream::connect, and our key goes out.  A tunnel may swallow it, and all that follows.
connect(s) ==
    /\ scan[s].pc = "dialing"
    /\ LET o == scan[s].o
           st == <<s, scan[s].i>>
           there == route[addresses[o][scan[s].i]]
       IN \/ /\ there = "here" /\ Listening(o)
             /\ \E arrives \in BOOLEAN :
                  stream' = [stream EXCEPT ![st].client = "open", ![st].key = arrives,
                                           ![st].server = "backlog"]
             /\ backlog' = [backlog EXCEPT ![o] = Append(@, st)]
             /\ scan' = [scan EXCEPT ![s].pc = "reading"]
          \/ /\ there \in {"silent", "other"}
             /\ stream' = [stream EXCEPT ![st].client = "open", ![st].server = there]
             /\ scan' = [scan EXCEPT ![s].pc = "reading"]
             /\ UNCHANGED backlog
          \/ /\ there = "refused" \/ (there = "here" /\ ~Listening(o))
             /\ NextAddress(s)
             /\ UNCHANGED <<stream, backlog>>
    /\ UNCHANGED <<rvars, route, senders, link>>

\* The key that stands behind a connection: the offer's, or an unrelated service's.
KeyOf(st, o) == IF stream[st].server \in {"answered", "answered_closed"} THEN offering(o) ELSE None

\* The answer arrives: the connection is kept and registered, or it is not the offer's key.
read_key(s) ==
    /\ scan[s].pc = "reading"
    /\ LET st == <<s, scan[s].i>> IN
        /\ stream[st].server \in {"answered", "answered_closed", "other"}
        /\ IF KeyMatches(KeyOf(st, scan[s].o), scan[s].o)
             THEN /\ scan' = [scan EXCEPT ![s].pc = "connected"]
                  /\ senders' = senders \union {s}
                  /\ link' = [link EXCEPT ![s] = TRUE]
                  /\ UNCHANGED stream
             ELSE /\ NextAddress(s)
                  /\ stream' = [stream EXCEPT ![st].client = "closed"]
                  /\ UNCHANGED <<senders, link>>
    /\ UNCHANGED <<rvars, backlog, route>>

\* The other end closed the connection, or PER_ADDRESS_TIMEOUT is over: it covers the whole
\* attempt, whatever the attempt waits for.
attempt_fails(s) ==
    /\ scan[s].pc = "reading"
    /\ LET st == <<s, scan[s].i>> IN
        /\ NextAddress(s)
        /\ stream' = [stream EXCEPT ![st].client =
               IF stream[st].key \/ stream[st].server = "other" THEN "closed" ELSE "lost"]
    /\ UNCHANGED <<rvars, backlog, route, senders, link>>

IgnoresOverhead(n) == n <= MaxTransfer

\* write_payload's limit, before sealing.
Fits(n) == n + Overhead <= MaxTransfer

\* sg_sender_send once the codes were compared: the connection is taken, and used up whatever
\* happens.  The write may stall past its 30 s.
sg_sender_send(s) ==
    /\ s \in senders /\ link[s]
    /\ SenderCode(s) \in screen[scan[s].o]
    /\ \E data \in IF Fits(Size[s]) THEN {"sealed", "partial"} ELSE {"none"} :
        stream' = [stream EXCEPT ![<<s, scan[s].i>>].data = data,
                                 ![<<s, scan[s].i>>].client = "closed"]
    /\ link' = [link EXCEPT ![s] = FALSE]
    /\ UNCHANGED <<rvars, backlog, route, scan, senders>>

\* sg_pairing_forget on the other device.
forget_sender(s) ==
    /\ s \in senders
    /\ senders' = senders \ {s}
    /\ link' = [link EXCEPT ![s] = FALSE]
    /\ stream' = [stream EXCEPT ![<<s, scan[s].i>>].client = "closed"]
    /\ UNCHANGED <<rvars, backlog, route, scan>>

-----------------------------------------------------------------------------
Returning(t) ==
    \/ await_connection(t) \/ handshake(t) \/ handshake_failed(t) \/ accept_times_out(t)
    \/ accept(t) \/ receive(t) \/ accept_transfer(t)
Dialing(s) == connect(s) \/ read_key(s) \/ attempt_fails(s)

Next ==
    \/ sg_start_receiving
    \/ \E o \in Offers : expire(o) \/ sg_pairing_forget(o)
    \/ \E t \in Threads : Returning(t)
    \/ \E t \in Threads, o \in Offers :
        take_receiver(t, o, "await") \/ take_receiver(t, o, "receive")
    \/ \E s \in Scans : Dialing(s) \/ sg_sender_send(s) \/ forget_sender(s)
    \/ \E s \in Scans, o \in Offers : sg_scan_pairing_code(s, o)

\* Time passes, a thread that can go on goes on, and so does a dial.
Fairness ==
    /\ \A o \in Offers : WF_vars(expire(o))
    /\ \A t \in Threads : WF_vars(Returning(t))
    /\ \A s \in Scans : WF_vars(Dialing(s))

Spec == Init /\ [][Next]_vars
FairSpec == Spec /\ Fairness

-----------------------------------------------------------------------------
\* A connection that a scan reports as connected is one that the offer's own listener accepted
\* and answered, and the device that shows the code shows the same digits for it
\* (transfer.rs:180, pairing.rs:180-186).
CodesAgree ==
    \A s \in Scans : scan[s].pc = "connected" =>
        /\ stream[<<s, scan[s].i>>].server \in {"answered", "answered_closed"}
        /\ SenderCode(s) \in screen[scan[s].o]

\* What send() accepts, receive() never refuses for its length (transfer.rs:216, 258).
SentFits == refused = {}

\* Every call that waits comes back: await_connection within the offer's life, receive and the
\* scan within their timeouts (transfer.rs:103, 158, 242).
CallsReturn ==
    /\ \A t \in Threads : call[t].pc # "idle" ~> call[t].pc = "idle"
    /\ \A s \in Scans : scan[s].pc = "dialing" ~> scan[s].pc \in {"connected", "failed"}

\* An offer is good for one transfer, however its calls, connections and expiry interleave.
OfferState ==
    [o \in Offers |->
        IF o > next_id THEN "unmade"
        ELSE IF received[o] # {} THEN "done"
        ELSE IF Listening(o) THEN "open"
        ELSE IF connected[o] # None \/ \E t \in Holding(o) : call[t].pc = "reading" THEN "paired"
        ELSE "dead"]

Partner == [o \in Offers |-> {st \in Streams : <<offering(o), st, o>> \in screen[o]}]
SenderOf(st) == st[1]

Promise == INSTANCE OneTransfer WITH
    Bundle <- SenderOf, state <- OfferState, partner <- Partner, delivered <- received

OneTransferPerOffer == Promise!Spec
=============================================================================
