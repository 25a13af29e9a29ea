--------------------------- MODULE PairingProofs ---------------------------
(***************************************************************************)
(* Proofs about Pairing: the two devices show the same digits, what is     *)
(* sent is never refused for its length, and every offer keeps the promise *)
(* of OneTransfer, for every number of offers, threads, scans and          *)
(* addresses.                                                              *)
(***************************************************************************)
EXTENDS Pairing, SequenceFacts

AcceptPcs == {"accepting", "handshake"}
Answers == {"answered", "answered_closed"}

\* The two ends of a connection.
Conn == [client : {"none", "open", "closed", "lost"}, key : BOOLEAN,
         server : {"none", "backlog", "accepted", "closed", "silent", "other"} \union Answers,
         data : {"none", "sealed", "partial"}]

\* The receiving device has shown the code of the connection st for the offer.
Shown(o, st) == <<offering(o), st, o>> \in screen[o]

Reading(o) == \E t \in Threads : call[t].pc = "reading" /\ call[t].o = o

\* What a thread may be doing.
Calls == [pc : {"idle", "await", "receive", "reading"} \union AcceptPcs, o : Nat,
          st : Streams \union {None}]

\* The types of the device being set up.
ReceiverTypes ==
    /\ next_id \in 0..MaxOffers /\ receivers \subseteq 1..next_id
    /\ addresses \in [Offers -> Seq(1..Len(Hosts))]
    /\ \A o \in Offers : Len(addresses[o]) <= Len(Hosts)
    /\ listener \in [Offers -> BOOLEAN]
    /\ backlog \in [Offers -> Seq(Streams)]
    /\ connected \in [Offers -> Streams \union {None}]
    /\ DOMAIN screen = Offers
    /\ call \in [Threads -> Calls]
    /\ received \in [Offers -> SUBSET Scans]

\* The types of the scans and of the connections.
SenderTypes ==
    /\ scan \in [Scans -> [pc : {"idle", "dialing", "reading", "connected", "failed"},
                           o : Nat, i : Nat]]
    /\ stream \in [Streams -> Conn]

\* What a thread's call says about its offer.
CallInv ==
    \A t \in Threads :
        /\ call[t].pc # "idle" => call[t].o \in 1..next_id
        /\ call[t].pc \in {"handshake", "reading"} <=> call[t].st # None
        /\ call[t].pc = "reading" => Shown(call[t].o, call[t].st)
        /\ \A u \in Threads \ {t} : call[u].o = call[t].o =>
              /\ ~(call[t].pc \in AcceptPcs /\ call[u].pc \in AcceptPcs)
              /\ ~(call[t].pc = "reading" /\ call[u].pc = "reading")

\* An offer that was not made is untouched; an offer is listening until its code is shown, shows
\* one code, and its connection is in one place.
OfferFits(o) ==
    /\ o > next_id => ~listener[o] /\ screen[o] = {} /\ received[o] = {}
    /\ listener[o] => ~Accepting(o) 
    /\ listener[o] \/ Accepting(o) => screen[o] = {}
    /\ connected[o] # None =>
          Shown(o, connected[o]) /\ ~Reading(o) /\ received[o] = {}
    /\ Reading(o) => received[o] = {}
    /\ received[o] # {} => \E st \in Streams : Shown(o, st) /\ received[o] = {st[1]}
    /\ \A c \in screen[o] : \E st \in Streams : c = <<offering(o), st, o>>
    /\ \A c, d \in screen[o] : c = d

OfferInv == \A o \in Offers : OfferFits(o)

\* Where a scan is.
ScanInv ==
    \A s \in Scans :
        /\ scan[s].pc = "idle" => scan[s].i = 0
        /\ scan[s].pc # "idle" => /\ scan[s].o \in 1..next_id
                                  /\ scan[s].i \in 1..Len(addresses[scan[s].o])
        /\ scan[s].pc = "connected" => stream[<<s, scan[s].i>>].server \in Answers

\* An attempt that is not yet made.
Fresh(st) ==
    LET sc == scan[st[1]] IN st[2] > sc.i \/ (st[2] = sc.i /\ sc.pc = "dialing")

\* A connection is in the backlog of the offer that was scanned, or in its handshake, or answered
\* exactly if its code was shown; what was sealed fits.
StreamInv ==
    /\ \A st \in Streams :
        /\ Fresh(st) => stream[st].server = "none"
        /\ stream[st].data = "sealed" => Fits(Size[st[1]])
        /\ stream[st].server \in Answers =>
              scan[st[1]].o \in Offers /\ Shown(scan[st[1]].o, st)
        /\ \A o \in Offers : Shown(o, st) =>
              stream[st].server \in Answers /\ scan[st[1]].o = o
    /\ \A o \in Offers : \A k \in 1..Len(backlog[o]) :
        /\ stream[backlog[o][k]].server = "backlog" /\ scan[backlog[o][k][1]].o = o
        /\ \A j \in 1..Len(backlog[o]) : j # k => backlog[o][j] # backlog[o][k]
    /\ \A t \in Threads : call[t].pc = "handshake" =>
        stream[call[t].st].server = "accepted" /\ scan[call[t].st[1]].o = call[t].o

\* The inductive invariant.
PairingInv ==
    /\ ReceiverTypes /\ SenderTypes /\ CallInv /\ OfferInv /\ ScanInv /\ StreamInv

\* A scan in the other device's registry is connected, and stays so.
SendersInv == \A s \in Scans : s \in senders => scan[s].pc = "connected"

-----------------------------------------------------------------------------
(* Facts about the operators. *)

\* A connection is a pair of a scan and an attempt, and never "no connection".
LEMMA StreamFacts ==
    ASSUME NEW st \in Streams
    PROVE  /\ st # None /\ st = <<st[1], st[2]>>
           /\ st[1] \in Scans /\ st[2] \in 1..Len(Hosts)
  BY DEF Streams, None

\* The pair of a scan and one of its attempts is a connection.
LEMMA PairIsStream ==
    ASSUME NEW s \in Scans, NEW i \in 1..Len(Hosts)
    PROVE  <<s, i>> \in Streams /\ <<s, i>>[1] = s /\ <<s, i>>[2] = i
  BY DEF Streams

\* "No connection" is none of the connections.
LEMMA NoneIsNoStream == None \notin Streams
  BY StreamFacts

\* The code of an offer tells its connection.
LEMMA CodeInjective ==
    ASSUME NEW o, NEW st, NEW su, <<offering(o), st, o>> = <<offering(o), su, o>>
    PROVE  st = su
  OBVIOUS

\* Both sides compute the code from the same transcript (Handshake::complete).
LEMMA BothComplete ==
    ASSUME NEW o, NEW st
    PROVE  /\ complete(offering(o), accepting(st), o, TRUE) = <<offering(o), st, o>>
           /\ complete(accepting(st), offering(o), o, FALSE) = <<offering(o), st, o>>
  BY DEF complete, accepting

\* Closing server ends keeps what the client has, and what was answered stays answered.
LEMMA ClosedFacts ==
    ASSUME NEW str \in [Streams -> Conn], NEW D
    PROVE  /\ Closed(str, D) \in [Streams -> Conn]
           /\ \A st \in Streams :
                /\ st \notin D => Closed(str, D)[st] = str[st]
                /\ Closed(str, D)[st].data = str[st].data
                /\ Closed(str, D)[st].server \in Answers <=> str[st].server \in Answers
                /\ str[st].server = "none" /\ st \notin D => Closed(str, D)[st].server = "none"
  <1>1. ASSUME NEW st \in Streams
        PROVE  /\ Closed(str, D)[st] \in Conn
               /\ st \notin D => Closed(str, D)[st] = str[st]
               /\ Closed(str, D)[st].data = str[st].data
               /\ Closed(str, D)[st].server \in Answers <=> str[st].server \in Answers
    BY DEF Closed, Conn, Answers
  <1>2. Closed(str, D) \in [Streams -> Conn]
    <2>1. Closed(str, D) = [st \in Streams |-> Closed(str, D)[st]]
      BY DEF Closed
    <2> QED
      BY <1>1, <2>1
  <1> QED
    BY <1>1, <1>2

\* Listener::bind offers addresses of the list, each at most once.
LEMMA BindFacts ==
    ASSUME NEW v6 \in BOOLEAN
    PROVE  bind(v6) \in Seq(1..Len(Hosts)) /\ Len(bind(v6)) <= Len(Hosts)
  <1> DEFINE N == Len(Hosts)
             keep(n) == Hosts[n] = "v4" \/ v6
             step == [n \in Nat |-> [q \in Seq(Nat) |-> IF keep(n) THEN Append(q, n) ELSE q]]
             Body(g) == [n \in 0..N |-> IF n = 0 THEN <<>>
                                        ELSE IF keep(n) THEN Append(g[n - 1], n) ELSE g[n - 1]]
             upTo == CHOOSE g : g = Body(g)
  <1>1. N \in Nat
    BY PairingAssumption
  <1>2. bind(v6) = upTo[N]
    BY DEF bind
  <1> HIDE DEF N, keep
  <1>3. PICK h \in [0..N -> Seq(Nat)] :
            h[0] = <<>> /\ \A n \in 1..N : h[n] = step[n][h[n - 1]]
    <2>1. ASSUME NEW n \in Nat, NEW q \in Seq(Nat) PROVE step[n][q] \in Seq(Nat)
      <3>1. Append(q, n) \in Seq(Nat)
        OBVIOUS
      <3>2. step[n][q] = IF keep(n) THEN Append(q, n) ELSE q
        OBVIOUS
      <3> HIDE DEF step
      <3> QED
        BY <3>1, <3>2
    <2>2. step \in [Nat -> [Seq(Nat) -> Seq(Nat)]]
      BY <2>1
    <2>3. <<>> \in Seq(Nat)
      OBVIOUS
    <2> HIDE DEF step
    <2>4. Upto(N, Seq(Nat), <<>>, step) # {}
      BY <1>1, <2>2, <2>3, UptoExists
    <2>5. PICK g : g \in Upto(N, Seq(Nat), <<>>, step)
      BY <2>4
    <2> QED
      BY <2>5 DEF Upto
  <1>4. ASSUME NEW n \in 1..N
        PROVE  h[n] = IF keep(n) THEN Append(h[n - 1], n) ELSE h[n - 1]
    <2>1. n \in Nat /\ n - 1 \in 0..N
      BY <1>1
    <2> QED
      BY <1>3, <2>1
  <1>5. h = Body(h)
    <2>1. ASSUME NEW n \in 0..N PROVE Body(h)[n] = h[n]
      <3>1. n = 0 \/ n \in 1..N
        BY <1>1
      <3>2. h[0] = <<>>
        BY <1>3
      <3> HIDE DEF step
      <3> QED
        BY <1>4, <3>1, <3>2
    <2> QED
      BY <1>3, <2>1
  <1>6. upTo = Body(upTo)
    <2> HIDE DEF Body
    <2> QED
      BY <1>5
  <1> HIDE DEF upTo
  <1> DEFINE S == {n \in Nat : n <= N => upTo[n] \in Seq(1..N) /\ Len(upTo[n]) <= n}
  <1>7. 0 \in S
    BY <1>1, <1>6
  <1>8. ASSUME NEW n \in Nat, n \in S PROVE n + 1 \in S
    <2> SUFFICES ASSUME n + 1 <= N
                 PROVE  upTo[n + 1] \in Seq(1..N) /\ Len(upTo[n + 1]) <= n + 1
      OBVIOUS
    <2>1. upTo[n] \in Seq(1..N) /\ Len(upTo[n]) <= n
      BY <1>1, <1>8
    <2>2. n + 1 \in 0..N /\ n + 1 # 0 /\ (n + 1) - 1 = n /\ n + 1 \in 1..N
      BY <1>1
    <2>3. upTo[n + 1] = IF keep(n + 1) THEN Append(upTo[n], n + 1) ELSE upTo[n]
      BY <1>6, <2>2
    <2>4. Append(upTo[n], n + 1) \in Seq(1..N) /\ Len(Append(upTo[n], n + 1)) = Len(upTo[n]) + 1
      BY <2>1, <2>2
    <2>5. CASE keep(n + 1)
      BY <2>1, <2>3, <2>4, <2>5
    <2>6. CASE ~keep(n + 1)
      BY <2>1, <2>3, <2>6
    <2> QED
      BY <2>5, <2>6
  <1>9. S \in SUBSET Nat
    OBVIOUS
  <1> HIDE DEF S
  <1>10. S = Nat
    BY <1>7, <1>8, <1>9, SetInduction
  <1>11. N \in S /\ N <= N
    BY <1>1, <1>10
  <1>12. upTo[N] \in Seq(1..N) /\ Len(upTo[N]) <= N
    BY <1>11 DEF S
  <1> QED
    BY <1>2, <1>12 DEF N

-----------------------------------------------------------------------------
(* What the steps of the receiving device preserve. *)

\* The invariant holds initially.
LEMMA InitInv == Init => PairingInv
  <1> SUFFICES ASSUME Init PROVE PairingInv
    OBVIOUS
  <1> USE PairingAssumption, NoneIsNoStream
  <1>1. ReceiverTypes
    BY DEF Init, ReceiverTypes, Idle, Calls
  <1>2. SenderTypes
    BY DEF Init, SenderTypes, Conn, Answers
  <1>3. CallInv
    BY DEF Init, CallInv, Idle, AcceptPcs
  <1>4. OfferInv
    BY DEF Init, OfferInv, OfferFits, Idle, Accepting, Holding, Reading, Shown
  <1>5. ScanInv
    BY DEF Init, ScanInv
  <1>6. StreamInv
    BY DEF Init, StreamInv, Idle, Shown, Answers
  <1> QED
    BY <1>1, <1>2, <1>3, <1>4, <1>5, <1>6 DEF PairingInv

\* A scan that has begun is at an address of an offer that was made.
LEMMA ScanPlace ==
    ASSUME ReceiverTypes, ScanInv, NEW s \in Scans, scan[s].pc # "idle"
    PROVE  /\ scan[s].o \in Offers /\ scan[s].o \in 1..next_id
           /\ scan[s].i \in 1..Len(addresses[scan[s].o]) /\ scan[s].i \in 1..Len(Hosts)
           /\ <<s, scan[s].i>> \in Streams
  <1>1. scan[s].o \in 1..next_id /\ scan[s].i \in 1..Len(addresses[scan[s].o])
    BY DEF ScanInv
  <1>2. scan[s].o \in Offers
    BY <1>1, PairingAssumption DEF ReceiverTypes, Offers
  <1>3. Len(addresses[scan[s].o]) \in Nat /\ Len(addresses[scan[s].o]) <= Len(Hosts)
    BY <1>2 DEF ReceiverTypes
  <1>4. scan[s].i \in 1..Len(Hosts)
    BY <1>1, <1>3, PairingAssumption
  <1> QED
    BY <1>1, <1>2, <1>4, PairIsStream

\* What the calls and the offers satisfy does not depend on the other device.
LEMMA OfferFrame ==
    ASSUME CallInv, OfferInv,
           UNCHANGED <<next_id, listener, connected, screen, call, received>>
    PROVE  CallInv' /\ OfferInv'
  <1>1. CallInv'
    BY DEF CallInv, Shown
  <1>2. OfferInv'
    BY DEF OfferInv, OfferFits, Shown, Accepting, Holding, Reading
  <1> QED
    BY <1>1, <1>2

\* A call that returns, or an offer that is dropped, closes connections of that offer only: the
\* other backlogs and the other handshakes keep theirs.
LEMMA ClosingKeepsStreams ==
    ASSUME PairingInv, NEW o \in Offers, NEW D \in SUBSET Streams, NEW closes \in BOOLEAN,
           \A st \in D : \/ closes /\ st \in Waiting(o)
                         \/ stream[st].server \in Answers
                         \/ stream[st].server = "accepted" /\ scan[st[1]].o = o,
           closes => Waiting(o) \subseteq D,
           stream' = Closed(stream, D),
           backlog' = [backlog EXCEPT ![o] = IF closes THEN <<>> ELSE @],
           \A t \in Threads : call'[t].pc = "handshake" =>
                call'[t] = call[t] /\ call[t].st \notin D,
           UNCHANGED <<next_id, addresses, screen, scan>>
    PROVE  backlog' \in [Offers -> Seq(Streams)] /\ SenderTypes' /\ ScanInv' /\ StreamInv'
  <1> USE PairingAssumption DEF PairingInv
  <1>1. stream \in [Streams -> Conn]
    BY DEF SenderTypes
  <1>2. /\ stream' \in [Streams -> Conn]
        /\ \A st \in Streams :
              /\ st \notin D => stream'[st] = stream[st]
              /\ stream'[st].data = stream[st].data
              /\ stream'[st].server \in Answers <=> stream[st].server \in Answers
    BY <1>1, ClosedFacts
  <1>3. backlog \in [Offers -> Seq(Streams)]
    BY DEF ReceiverTypes
  <1>4. backlog' \in [Offers -> Seq(Streams)]
    BY <1>3
  <1>5. SenderTypes'
    BY <1>2 DEF SenderTypes
  <1>6. ScanInv'
    <2> SUFFICES ASSUME NEW s \in Scans, scan[s].pc = "connected"
                 PROVE  stream'[<<s, scan[s].i>>].server \in Answers
      BY DEF ScanInv
    <2>1. stream[<<s, scan[s].i>>].server \in Answers /\ <<s, scan[s].i>> \in Streams
      BY ScanPlace DEF ScanInv
    <2> QED
      BY <1>2, <2>1
  <1>7. StreamInv'
    <2>1. ASSUME NEW st \in Streams, Fresh(st)'
          PROVE  stream'[st].server = "none"
      <3>1. stream[st].server = "none"
        BY <2>1 DEF StreamInv, Fresh
      <3>2. st \notin Waiting(o)
        BY <3>1 DEF StreamInv, Waiting
      <3>3. st \notin D
        BY <3>1, <3>2 DEF Answers
      <3> QED
        BY <1>2, <3>1, <3>3
    <2>2. ASSUME NEW st \in Streams
          PROVE  /\ stream'[st].data = "sealed" => Fits(Size[st[1]])
                 /\ stream'[st].server \in Answers =>
                      scan[st[1]].o \in Offers /\ Shown(scan[st[1]].o, st)
                 /\ \A p \in Offers : Shown(p, st) =>
                      stream'[st].server \in Answers /\ scan[st[1]].o = p
      BY <1>2 DEF StreamInv
    <2>3. ASSUME NEW p \in Offers, NEW k \in 1..Len(backlog'[p])
          PROVE  /\ stream'[backlog'[p][k]].server = "backlog"
                 /\ scan[backlog'[p][k][1]].o = p
                 /\ \A j \in 1..Len(backlog'[p]) : j # k => backlog'[p][j] # backlog'[p][k]
      <3>1. backlog'[p] = backlog[p] /\ ~(p = o /\ closes)
        BY <1>3, <2>3
      <3>2. backlog[p] \in Seq(Streams) /\ k \in 1..Len(backlog[p])
        BY <1>3, <2>3, <3>1
      <3>3. backlog[p][k] \in Streams
        BY <3>2
      <3>4. /\ stream[backlog[p][k]].server = "backlog" /\ scan[backlog[p][k][1]].o = p
            /\ \A j \in 1..Len(backlog[p]) : j # k => backlog[p][j] # backlog[p][k]
        BY <3>2 DEF StreamInv
      <3>5. backlog[p][k] \notin D
        <4>1. ~(closes /\ backlog[p][k] \in Waiting(o))
          BY <3>1, <3>4 DEF StreamInv, Waiting
        <4> QED
          BY <3>3, <3>4, <4>1 DEF Answers
      <3> QED
        BY <1>2, <3>1, <3>3, <3>4, <3>5
    <2>4. ASSUME NEW t \in Threads, call'[t].pc = "handshake"
          PROVE  stream'[call'[t].st].server = "accepted" /\ scan[call'[t].st[1]].o = call'[t].o
      <3>1. call'[t] = call[t] /\ call[t].st \notin D
        BY <2>4
      <3>2. stream[call[t].st].server = "accepted" /\ scan[call[t].st[1]].o = call[t].o
        BY <2>4, <3>1 DEF StreamInv
      <3>3. call[t].st \in Streams
        BY <2>4, <3>1, NoneIsNoStream DEF CallInv, ReceiverTypes, Calls
      <3> QED
        BY <1>2, <3>1, <3>2, <3>3
    <2> QED
      BY <2>1, <2>2, <2>3, <2>4 DEF StreamInv, Shown
  <1> QED
    BY <1>4, <1>5, <1>6, <1>7

\* The call c of the thread t fits its offer and the calls of the other threads.
CallFits(t, c) ==
    /\ c.pc # "idle" => c.o \in 1..next_id
    /\ c.pc \in {"handshake", "reading"} <=> c.st # None
    /\ c.pc = "reading" => Shown(c.o, c.st)
    /\ \A u \in Threads \ {t} : call[u].o = c.o =>
          /\ ~(c.pc \in AcceptPcs /\ call[u].pc \in AcceptPcs)
          /\ ~(c.pc = "reading" /\ call[u].pc = "reading")

\* The calls stay in order when one of them changes to a call that fits.
LEMMA OneCallChanges ==
    ASSUME ReceiverTypes, CallInv, NEW t \in Threads, NEW c \in Calls, CallFits(t, c),
           call' = [call EXCEPT ![t] = c],
           next_id' = next_id,
           \A u \in Threads : call'[u].pc = "reading" => screen'[call'[u].o] = screen[call'[u].o]
    PROVE  CallInv'
  <1> USE DEF CallFits, Shown
  <1>1. call'[t] = c /\ \A u \in Threads \ {t} : call'[u] = call[u]
    BY DEF ReceiverTypes
  <1> SUFFICES ASSUME NEW u \in Threads
               PROVE  /\ call'[u].pc # "idle" => call'[u].o \in 1..next_id'
                      /\ call'[u].pc \in {"handshake", "reading"} <=> call'[u].st # None
                      /\ call'[u].pc = "reading" =>
                           <<offering(call'[u].o), call'[u].st, call'[u].o>>
                              \in screen'[call'[u].o]
                      /\ \A x \in Threads \ {u} : call'[x].o = call'[u].o =>
                           /\ ~(call'[u].pc \in AcceptPcs /\ call'[x].pc \in AcceptPcs)
                           /\ ~(call'[u].pc = "reading" /\ call'[x].pc = "reading")
    BY DEF CallInv, Shown
  <1>2. CASE u = t
    BY <1>1, <1>2
  <1>3. CASE u # t
    <2>1. call'[u] = call[u]
      BY <1>1, <1>3
    <2>2. /\ call[u].pc # "idle" => call[u].o \in 1..next_id
          /\ call[u].pc \in {"handshake", "reading"} <=> call[u].st # None
          /\ call[u].pc = "reading" =>
               <<offering(call[u].o), call[u].st, call[u].o>> \in screen[call[u].o]
      BY DEF CallInv, Shown
    <2>3. ASSUME NEW x \in Threads \ {u}, call'[x].o = call[u].o
          PROVE  /\ ~(call[u].pc \in AcceptPcs /\ call'[x].pc \in AcceptPcs)
                 /\ ~(call[u].pc = "reading" /\ call'[x].pc = "reading")
      <3>1. CASE x = t
        <4>1. u \in Threads \ {t} /\ call[u].o = c.o /\ call'[x] = c
          BY <1>1, <1>3, <2>3, <3>1
        <4> QED
          BY <4>1
      <3>2. CASE x # t
        <4>1. call'[x] = call[x] /\ call[x].o = call[u].o
          BY <1>1, <2>3, <3>2
        <4>2. \A z \in Threads \ {u} : call[z].o = call[u].o =>
                 /\ ~(call[u].pc \in AcceptPcs /\ call[z].pc \in AcceptPcs)
                 /\ ~(call[u].pc = "reading" /\ call[z].pc = "reading")
          BY DEF CallInv
        <4> QED
          BY <2>3, <4>1, <4>2
      <3> QED
        BY <3>1, <3>2
    <2> QED
      BY <1>3, <2>1, <2>2, <2>3
  <1> QED
    BY <1>2, <1>3

\* A call that returns leaves the connections, the scans and the other calls in order.
LEMMA ReturnKeeps ==
    ASSUME PairingInv, NEW t \in Threads, call[t].pc # "idle",
           NEW dropped \in SUBSET ({call[t].st} \ {None}), NEW w \in BOOLEAN,
           Return(t, dropped, w),
           UNCHANGED <<next_id, addresses, screen, scan>>
    PROVE  /\ call' = [call EXCEPT ![t] = Idle]
           /\ call' \in [Threads -> Calls]
           /\ backlog' \in [Offers -> Seq(Streams)]
           /\ SenderTypes' /\ ScanInv' /\ StreamInv' /\ CallInv'
  <1> USE PairingAssumption DEF PairingInv
  <1> DEFINE o == call[t].o
             gone == ~(o \in receivers \/ Holding(o) \ {t} # {})
             closes == w \/ gone
             D == dropped \union (IF closes THEN Waiting(o) ELSE {})
                          \union (IF gone THEN {connected[o]} \ {None} ELSE {})
  <1>1. /\ call' = [call EXCEPT ![t] = Idle]
        /\ stream' = Closed(stream, D)
        /\ backlog' = [backlog EXCEPT ![o] = IF closes THEN <<>> ELSE @]
    BY DEF Return
  <1>2. o \in Offers /\ o \in 1..next_id
    BY DEF CallInv, ReceiverTypes, Offers
  <1>3. gone \in BOOLEAN /\ closes \in BOOLEAN
    OBVIOUS
  <1>4. call' \in [Threads -> Calls]
    BY <1>1 DEF ReceiverTypes, Idle, Calls
  <1>5. CallInv'
    <2>1. Idle \in Calls /\ CallFits(t, Idle)
      BY DEF Idle, Calls, CallFits, AcceptPcs
    <2> QED
      BY <1>1, <2>1, OneCallChanges
  <1> HIDE DEF gone, closes
  <1>6. ASSUME NEW st \in dropped
        PROVE  /\ st \in Streams /\ st = call[t].st
               /\ \/ stream[st].server \in Answers
                  \/ call[t].pc = "handshake" /\ stream[st].server = "accepted"
                     /\ scan[st[1]].o = o
    <2>1. st = call[t].st /\ st # None /\ st \in Streams
      BY DEF ReceiverTypes, Calls
    <2>2. call[t].pc \in {"handshake", "reading"}
      BY <2>1 DEF CallInv
    <2>3. CASE call[t].pc = "handshake"
      BY <2>1, <2>3 DEF StreamInv
    <2>4. CASE call[t].pc = "reading"
      BY <1>2, <2>1, <2>4 DEF CallInv, StreamInv
    <2> QED
      BY <2>1, <2>2, <2>3, <2>4
  <1>7. ASSUME NEW st \in Waiting(o) PROVE st \in Streams /\ stream[st].server = "backlog"
    BY <1>2 DEF Waiting, StreamInv, ReceiverTypes
  <1>8. ASSUME NEW st \in {connected[o]} \ {None}
        PROVE  st \in Streams /\ stream[st].server \in Answers
    BY <1>2 DEF OfferInv, OfferFits, StreamInv, ReceiverTypes
  <1>9. D \in SUBSET Streams
    BY <1>6, <1>7, <1>8
  <1>10. \A st \in D : \/ closes /\ st \in Waiting(o)
                       \/ stream[st].server \in Answers
                       \/ stream[st].server = "accepted" /\ scan[st[1]].o = o
    BY <1>6, <1>8
  <1>11. closes => Waiting(o) \subseteq D
    OBVIOUS
  <1>12. ASSUME NEW u \in Threads, call'[u].pc = "handshake"
         PROVE  call'[u] = call[u] /\ call[u].st \notin D
    <2>1. u # t /\ call'[u] = call[u] /\ call[u].pc = "handshake"
      BY <1>1, <1>12 DEF Idle, ReceiverTypes
    <2>2. stream[call[u].st].server = "accepted" /\ scan[call[u].st[1]].o = call[u].o
      BY <2>1 DEF StreamInv
    <2>3. call[u].st \notin dropped
      <3> SUFFICES ASSUME call[u].st \in dropped PROVE FALSE
        OBVIOUS
      <3>1. call[u].st = call[t].st /\ call[t].pc = "handshake" /\ scan[call[t].st[1]].o = o
        BY <1>6, <2>2 DEF Answers
      <3>2. call[u].o = call[t].o
        BY <2>2, <3>1
      <3> QED
        BY <2>1, <3>1, <3>2 DEF CallInv, AcceptPcs
    <2>4. call[u].st \notin Waiting(o) /\ call[u].st \notin {connected[o]} \ {None}
      BY <1>7, <1>8, <2>2 DEF Answers
    <2> QED
      BY <2>1, <2>3, <2>4
  <1> HIDE DEF D, o
  <1>13. /\ backlog' \in [Offers -> Seq(Streams)]
         /\ SenderTypes' /\ ScanInv' /\ StreamInv'
    BY <1>1, <1>2, <1>3, <1>9, <1>10, <1>11, <1>12, ClosingKeepsStreams
  <1> QED
    BY <1>1, <1>4, <1>5, <1>13

\* A call that returns without a result leaves the offers in order.
LEMMA ReturnKeepsOffers ==
    ASSUME PairingInv, NEW t \in Threads, call' = [call EXCEPT ![t] = Idle],
           \A o \in Offers : listener'[o] => listener[o],
           UNCHANGED <<next_id, connected, screen, received>>
    PROVE  OfferInv'
  <1>1. \A o \in Offers : /\ Accepting(o)' => Accepting(o)
                          /\ Reading(o)' => Reading(o)
    BY DEF PairingInv, ReceiverTypes, Accepting, Holding, Reading, Idle
  <1>2. \A o \in Offers : \A st \in Streams : Shown(o, st)' <=> Shown(o, st)
    BY DEF Shown
  <1>3. \A o \in Offers : connected[o] # None => Shown(o, connected[o])'
    BY DEF Shown, PairingInv, OfferInv, OfferFits
  <1> QED
    BY <1>1, <1>2, <1>3 DEF PairingInv, OfferInv, OfferFits

\* handshake_failed, accept_times_out and a receive that finds no connection: they only return.
LEMMA ReturnStep ==
    ASSUME PairingInv, NEW t \in Threads, call[t].pc # "idle",
           NEW dropped \in SUBSET ({call[t].st} \ {None}), NEW w \in BOOLEAN,
           Return(t, dropped, w),
           listener' \in [Offers -> BOOLEAN],
           \A o \in Offers : listener'[o] => listener[o],
           UNCHANGED <<registry, connected, screen, received, scan>>
    PROVE  PairingInv'
  <1>1. UNCHANGED <<next_id, receivers, addresses>>
    BY DEF registry
  <1>2. /\ call' = [call EXCEPT ![t] = Idle]
        /\ call' \in [Threads -> Calls]
        /\ backlog' \in [Offers -> Seq(Streams)]
        /\ SenderTypes' /\ ScanInv' /\ StreamInv' /\ CallInv'
    BY <1>1, ReturnKeeps
  <1>3. OfferInv'
    BY <1>1, <1>2, ReturnKeepsOffers
  <1>4. ReceiverTypes'
    BY <1>1, <1>2 DEF PairingInv, ReceiverTypes
  <1> QED
    BY <1>2, <1>3, <1>4 DEF PairingInv

\* handshake_failed: the exchange breaks.
LEMMA HandshakeFailedStep ==
    ASSUME PairingInv, NEW t \in Threads, handshake_failed(t)
    PROVE  PairingInv'
  <1>1. /\ call[t].pc = "handshake" /\ Return(t, {call[t].st}, TRUE)
        /\ UNCHANGED <<registry, listener, connected, screen, received, scan>>
    BY DEF handshake_failed, results, svars
  <1>2. {call[t].st} \in SUBSET ({call[t].st} \ {None})
    BY <1>1 DEF PairingInv, CallInv
  <1>3. listener' \in [Offers -> BOOLEAN] /\ \A o \in Offers : listener'[o] => listener[o]
    BY <1>1 DEF PairingInv, ReceiverTypes
  <1> QED
    BY <1>1, <1>2, <1>3, ReturnStep

\* accept_times_out: the offer expires while accept() waits.
LEMMA TimeoutStep ==
    ASSUME PairingInv, NEW t \in Threads, accept_times_out(t)
    PROVE  PairingInv'
  <1>1. /\ call[t].pc # "idle" /\ Return(t, {call[t].st} \ {None}, TRUE)
        /\ UNCHANGED <<registry, listener, connected, screen, received, scan>>
    BY DEF accept_times_out, results, svars, Bounded
  <1>2. listener' \in [Offers -> BOOLEAN] /\ \A o \in Offers : listener'[o] => listener[o]
    BY <1>1 DEF PairingInv, ReceiverTypes
  <1> QED
    BY <1>1, <1>2, ReturnStep

\* A step of one thread that touches neither the connections nor the backlogs.
LEMMA CallStep ==
    ASSUME PairingInv, NEW t \in Threads, NEW c \in Calls, CallFits(t, c),
           call' = [call EXCEPT ![t] = c], c.pc # "handshake",
           UNCHANGED <<next_id, receivers, addresses, backlog, screen, received, scan, stream>>,
           listener' \in [Offers -> BOOLEAN],
           connected' \in [Offers -> Streams \union {None}],
           OfferInv'
    PROVE  PairingInv'
  <1>1. CallInv'
    BY OneCallChanges DEF PairingInv
  <1>2. ReceiverTypes'
    BY DEF PairingInv, ReceiverTypes
  <1>3. SenderTypes' /\ ScanInv'
    BY DEF PairingInv, SenderTypes, ScanInv
  <1>4. StreamInv'
    <2>1. \A u \in Threads : call'[u].pc = "handshake" => call'[u] = call[u]
      BY DEF PairingInv, ReceiverTypes
    <2> QED
      BY <2>1 DEF PairingInv, StreamInv, Shown, Fresh
  <1> QED
    BY <1>1, <1>2, <1>3, <1>4 DEF PairingInv

\* take_receiver: a thread enters await_connection or receive.
LEMMA TakeStep ==
    ASSUME PairingInv, NEW t \in Threads, NEW o \in Offers, NEW pc \in {"await", "receive"},
           take_receiver(t, o, pc)
    PROVE  PairingInv'
  <1> DEFINE c == [pc |-> pc, o |-> o, st |-> None]
  <1>1. /\ call[t].pc = "idle" /\ o \in receivers /\ call' = [call EXCEPT ![t] = c]
        /\ UNCHANGED <<next_id, receivers, addresses, listener, connected, backlog, screen,
                       received, scan, stream>>
    BY DEF take_receiver, results, registry, svars
  <1>2. c \in Calls /\ c.pc \notin AcceptPcs /\ c.pc \notin {"handshake", "reading"} /\ c.st = None
    BY PairingAssumption DEF Calls, Offers, AcceptPcs
  <1>3. c.o \in 1..next_id
    BY <1>1 DEF PairingInv, ReceiverTypes
  <1>4. CallFits(t, c)
    BY <1>2, <1>3 DEF CallFits
  <1> HIDE DEF c
  <1>5. OfferInv'
    <2>1. \A p \in Offers : /\ Accepting(p)' => Accepting(p)
                            /\ Reading(p)' => Reading(p)
      BY <1>1, <1>2 DEF PairingInv, ReceiverTypes, Accepting, Holding, Reading, AcceptPcs
    <2> QED
      BY <1>1, <2>1 DEF PairingInv, OfferInv, OfferFits, Shown
  <1>6. listener' \in [Offers -> BOOLEAN] /\ connected' \in [Offers -> Streams \union {None}]
    BY <1>1 DEF PairingInv, ReceiverTypes
  <1> QED
    BY <1>1, <1>2, <1>4, <1>5, <1>6, CallStep

\* await_connection: the call returns, or it takes the listener.
LEMMA AwaitStep ==
    ASSUME PairingInv, NEW t \in Threads, await_connection(t)
    PROVE  PairingInv'
  <1> DEFINE o == call[t].o
  <1>1. /\ call[t].pc = "await"
        /\ listener' = [listener EXCEPT ![o] = FALSE]
        /\ UNCHANGED <<registry, connected, screen, received, scan>>
    BY DEF await_connection, Taken, results, svars
  <1>2. o \in Offers /\ o \in 1..next_id /\ o \in Nat
    BY <1>1, PairingAssumption DEF PairingInv, CallInv, ReceiverTypes, Offers
  <1>3. listener' \in [Offers -> BOOLEAN] /\ \A p \in Offers : listener'[p] => listener[p]
    BY <1>1, <1>2 DEF PairingInv, ReceiverTypes
  <1>4. CASE ~listener[o]
    <2>1. Return(t, {}, FALSE)
      BY <1>4 DEF await_connection
    <2> QED
      BY <1>1, <1>3, <2>1, ReturnStep
  <1>5. CASE listener[o] /\ o \in expired
    <2>1. Return(t, {}, TRUE)
      BY <1>5 DEF await_connection
    <2> QED
      BY <1>1, <1>3, <2>1, ReturnStep
  <1>6. CASE listener[o] /\ o \notin expired
    <2> DEFINE c == [call[t] EXCEPT !.pc = "accepting"]
    <2>1. call' = [call EXCEPT ![t] = c] /\ UNCHANGED <<backlog, stream>>
      BY <1>6 DEF await_connection
    <2>2. c \in Calls /\ c.pc = "accepting" /\ c.o = o /\ c.st = None
      BY <1>1 DEF PairingInv, ReceiverTypes, Calls, CallInv, AcceptPcs
    <2> HIDE DEF c
    <2>3. ~Accepting(o) /\ screen[o] = {}
      BY <1>2, <1>6 DEF PairingInv, OfferInv, OfferFits
    <2>4. \A u \in Threads : call[u].o = o => call[u].pc \notin AcceptPcs
      BY <2>3 DEF Accepting, Holding, AcceptPcs
    <2>5. CallFits(t, c)
      BY <1>2, <2>2, <2>4 DEF CallFits
    <2>6. OfferInv'
      <3>1. \A p \in Offers : /\ Accepting(p)' => Accepting(p) \/ p = o
                              /\ Reading(p)' => Reading(p)
        BY <2>1, <2>2 DEF PairingInv, ReceiverTypes, Accepting, Holding, Reading
      <3>2. ~listener'[o]
        BY <1>1, <1>2 DEF PairingInv, ReceiverTypes
      <3>3. ASSUME NEW p \in Offers
            PROVE  OfferFits(p)'
        <4>1. OfferFits(p)
          BY DEF PairingInv, OfferInv
        <4>2. CASE p = o
          BY <1>1, <1>2, <1>3, <2>3, <3>1, <3>2, <4>1, <4>2
             DEF PairingInv, ReceiverTypes, OfferFits, Shown, registry
        <4>3. CASE p # o
          BY <1>1, <1>2, <1>3, <3>1, <4>1, <4>3
             DEF PairingInv, ReceiverTypes, OfferFits, Shown, registry
        <4> QED
          BY <4>2, <4>3
      <3> QED
        BY <3>3 DEF OfferInv
    <2>7. connected' \in [Offers -> Streams \union {None}]
      BY <1>1 DEF PairingInv, ReceiverTypes
    <2> QED
      BY <1>1, <1>3, <2>1, <2>2, <2>5, <2>6, <2>7, CallStep DEF registry
  <1> QED
    BY <1>4, <1>5, <1>6

\* receive: the call finds no connection, or takes it.
LEMMA ReceiveStep ==
    ASSUME PairingInv, NEW t \in Threads, receive(t)
    PROVE  PairingInv'
  <1> DEFINE o == call[t].o
  <1>1. /\ call[t].pc = "receive"
        /\ UNCHANGED <<registry, listener, screen, received, scan>>
    BY DEF receive, results, svars
  <1>2. o \in Offers /\ o \in 1..next_id
    BY <1>1, PairingAssumption DEF PairingInv, CallInv, ReceiverTypes, Offers
  <1>3. listener' \in [Offers -> BOOLEAN] /\ \A p \in Offers : listener'[p] => listener[p]
    BY <1>1 DEF PairingInv, ReceiverTypes
  <1>4. CASE connected[o] = None
    <2>1. Return(t, {}, FALSE) /\ UNCHANGED connected
      BY <1>4 DEF receive
    <2> QED
      BY <1>1, <1>3, <2>1, ReturnStep
  <1>5. CASE connected[o] # None
    <2> DEFINE c == [call[t] EXCEPT !.pc = "reading", !.st = connected[o]]
    <2>1. /\ call' = [call EXCEPT ![t] = c] /\ UNCHANGED <<backlog, stream>>
          /\ connected' = [connected EXCEPT ![o] = None]
      BY <1>5 DEF receive
    <2>2. c \in Calls /\ c.pc = "reading" /\ c.o = o /\ c.st = connected[o]
      BY <1>2 DEF PairingInv, ReceiverTypes, Calls
    <2> HIDE DEF c
    <2>3. Shown(o, connected[o]) /\ ~Reading(o) /\ received[o] = {}
      BY <1>2, <1>5 DEF PairingInv, OfferInv, OfferFits
    <2>4. \A u \in Threads : call[u].o = o => call[u].pc # "reading"
      BY <2>3 DEF Reading
    <2>5. CallFits(t, c)
      BY <1>2, <1>5, <2>2, <2>3, <2>4 DEF CallFits, AcceptPcs
    <2>6. OfferInv'
      <3>1. \A p \in Offers : /\ Accepting(p)' => Accepting(p)
                              /\ Reading(p)' => Reading(p) \/ p = o
        BY <2>1, <2>2 DEF PairingInv, ReceiverTypes, Accepting, Holding, Reading
      <3>2. connected'[o] = None /\ \A p \in Offers \ {o} : connected'[p] = connected[p]
        BY <1>2, <2>1 DEF PairingInv, ReceiverTypes
      <3>3. ASSUME NEW p \in Offers PROVE OfferFits(p)'
        <4>1. OfferFits(p)
          BY DEF PairingInv, OfferInv
        <4>2. /\ UNCHANGED <<next_id, listener[p], screen[p], received[p]>>
              /\ \A st : Shown(p, st)' = Shown(p, st)
          BY <1>1 DEF registry, Shown
        <4>3. CASE p = o
          <5>1. connected'[p] = None /\ received[p] = {}
            BY <2>3, <3>2, <4>3
          <5> QED
            BY <3>1, <4>1, <4>2, <5>1 DEF OfferFits
        <4>4. CASE p # o
          <5>1. connected'[p] = connected[p]
            BY <3>2, <4>4
          <5>2. (Accepting(p)' => Accepting(p)) /\ (Reading(p)' => Reading(p))
            BY <3>1, <4>4
          <5> HIDE DEF o
          <5> QED
            BY <4>1, <4>2, <5>1, <5>2 DEF OfferFits
        <4> QED
          BY <4>3, <4>4
      <3> QED
        BY <3>3 DEF OfferInv
    <2>7. connected' \in [Offers -> Streams \union {None}]
      BY <2>1 DEF PairingInv, ReceiverTypes
    <2> QED
      BY <1>1, <1>3, <2>1, <2>2, <2>5, <2>6, <2>7, CallStep DEF registry
  <1> QED
    BY <1>4, <1>5

\* accept_transfer: the inventory arrives and the call returns.
LEMMA AcceptTransferStep ==
    ASSUME PairingInv, NEW t \in Threads, accept_transfer(t)
    PROVE  PairingInv'
  <1> DEFINE o == call[t].o
             st == call[t].st
  <1>1. /\ call[t].pc = "reading" /\ Return(t, {st}, FALSE)
        /\ UNCHANGED <<registry, listener, connected, screen, scan>>
        /\ \/ UNCHANGED received
           \/ received' = [received EXCEPT ![o] = @ \union {st[1]}]
    BY DEF accept_transfer, results, svars
  <1>2. o \in Offers /\ o \in 1..next_id /\ st \in Streams /\ st # None
    BY <1>1, PairingAssumption DEF PairingInv, CallInv, ReceiverTypes, Offers, Calls
  <1>3. UNCHANGED <<next_id, receivers, addresses>>
    BY <1>1 DEF registry
  <1>4. /\ call' = [call EXCEPT ![t] = Idle] /\ call' \in [Threads -> Calls]
        /\ backlog' \in [Offers -> Seq(Streams)]
        /\ SenderTypes' /\ ScanInv' /\ StreamInv' /\ CallInv'
    <2>1. {st} \in SUBSET ({call[t].st} \ {None})
      BY <1>2
    <2> QED
      BY <1>1, <1>3, <2>1, ReturnKeeps
  <1>5. Reading(o) /\ received[o] = {} /\ connected[o] = None /\ Shown(o, st)
    BY <1>1, <1>2 DEF PairingInv, OfferInv, OfferFits, CallInv, Reading
  <1>6. ReceiverTypes'
    <2>1. received' \in [Offers -> SUBSET Scans]
      <3>1. st[1] \in Scans /\ received \in [Offers -> SUBSET Scans]
        BY <1>2, StreamFacts DEF PairingInv, ReceiverTypes
      <3> QED
        BY <1>1, <1>2, <3>1
    <2> QED
      BY <1>1, <1>3, <1>4, <2>1 DEF PairingInv, ReceiverTypes
  <1>7. OfferInv'
    <2>1. CASE UNCHANGED received
      BY <1>1, <1>3, <1>4, <2>1, ReturnKeepsOffers
    <2>2. CASE received' = [received EXCEPT ![o] = @ \union {st[1]}]
      <3>1. received'[o] = {st[1]} /\ \A p \in Offers \ {o} : received'[p] = received[p]
        BY <1>2, <1>5, <2>2 DEF PairingInv, ReceiverTypes
      <3>2. \A p \in Offers : /\ Accepting(p)' => Accepting(p)
                              /\ Reading(p)' => Reading(p)
        BY <1>4 DEF PairingInv, ReceiverTypes, Accepting, Holding, Reading, Idle
      <3>3. \A p \in Offers : p = o => ~Reading(p)'
        BY <1>1, <1>4 DEF PairingInv, ReceiverTypes, CallInv, Reading, Idle
      <3> HIDE DEF o, st
      <3>4. ASSUME NEW p \in Offers
            PROVE  OfferFits(p)'
        <4>1. OfferFits(p)
          BY DEF PairingInv, OfferInv
        <4>2. CASE p = o
          BY <1>1, <1>2, <1>3, <1>5, <3>1, <3>2, <3>3, <4>1, <4>2 DEF OfferFits, Shown
        <4>3. CASE p # o
          BY <1>1, <1>2, <1>3, <1>5, <3>1, <3>2, <4>1, <4>3 DEF OfferFits, Shown
        <4> QED
          BY <4>2, <4>3
      <3> QED
        BY <3>4 DEF OfferInv
    <2> QED
      BY <1>1, <2>1, <2>2
  <1> QED
    BY <1>4, <1>6, <1>7 DEF PairingInv

\* accept: the oldest connection of a socket leaves the backlog for the handshake.
LEMMA AcceptStep ==
    ASSUME PairingInv, NEW t \in Threads, accept(t)
    PROVE  PairingInv'
  <1> DEFINE o == call[t].o
  <1>1. PICK k \in 1..Len(backlog[o]) :
            /\ call' = [call EXCEPT ![t].pc = "handshake", ![t].st = backlog[o][k]]
            /\ stream' = [stream EXCEPT ![backlog[o][k]].server = "accepted"]
            /\ backlog' = [backlog EXCEPT ![o] = RemoveAt(@, k)]
    BY DEF accept
  <1> DEFINE st == backlog[o][k]
             c == [call[t] EXCEPT !.pc = "handshake", !.st = st]
  <1>2. /\ call[t].pc = "accepting"
        /\ UNCHANGED <<next_id, receivers, addresses, listener, connected, screen, received, scan>>
    BY DEF accept, results, svars, registry
  <1>3. o \in Offers /\ o \in 1..next_id
    BY <1>2, PairingAssumption DEF PairingInv, CallInv, ReceiverTypes, Offers
  <1>4. backlog[o] \in Seq(Streams) /\ st \in Streams /\ st # None
    BY <1>3, StreamFacts DEF PairingInv, ReceiverTypes
  <1>5. stream[st].server = "backlog" /\ scan[st[1]].o = o
    BY <1>3 DEF PairingInv, StreamInv
  <1>6. /\ RemoveAt(backlog[o], k) \in Seq(Streams)
        /\ Len(RemoveAt(backlog[o], k)) = Len(backlog[o]) - 1
        /\ \A j \in 1..(Len(backlog[o]) - 1) :
              RemoveAt(backlog[o], k)[j] = IF j < k THEN backlog[o][j] ELSE backlog[o][j + 1]
    BY <1>4, RemoveAtFacts
  <1>7. call' = [call EXCEPT ![t] = c] /\ c \in Calls /\ c.pc = "handshake" /\ c.o = o /\ c.st = st
    BY <1>1, <1>4 DEF PairingInv, ReceiverTypes, Calls, AcceptPcs
  <1>8. backlog'[o] = RemoveAt(backlog[o], k) /\ \A p \in Offers \ {o} : backlog'[p] = backlog[p]
    BY <1>1, <1>3 DEF PairingInv, ReceiverTypes
  <1>9. /\ stream' \in [Streams -> Conn] /\ stream'[st].server = "accepted"
        /\ stream'[st].data = stream[st].data
        /\ \A su \in Streams \ {st} : stream'[su] = stream[su]
    <2> DEFINE w == [stream[st] EXCEPT !.server = "accepted"]
    <2>1. stream[st] \in Conn /\ stream \in [Streams -> Conn]
      BY <1>4 DEF PairingInv, SenderTypes
    <2>2. w \in Conn /\ w.server = "accepted" /\ w.data = stream[st].data
      BY <2>1 DEF Conn
    <2>3. stream' = [stream EXCEPT ![st] = w]
      BY <1>1
    <2> HIDE DEF w, st
    <2> QED
      BY <1>4, <2>1, <2>2, <2>3
  <1> HIDE DEF c, st
  <1>10. ReceiverTypes'
    BY <1>1, <1>2, <1>6, <1>7 DEF PairingInv, ReceiverTypes
  <1>11. SenderTypes'
    BY <1>2, <1>9 DEF PairingInv, SenderTypes
  <1>12. CallInv'
    <2>1. \A u \in Threads \ {t} : call[u].o = o => call[u].pc \notin AcceptPcs
      BY <1>2 DEF PairingInv, CallInv, AcceptPcs
    <2>2. CallFits(t, c)
      BY <1>3, <1>4, <1>7, <2>1 DEF CallFits
    <2> QED
      BY <1>2, <1>7, <2>2, OneCallChanges DEF PairingInv
  <1>13. OfferInv'
    <2>1. \A p \in Offers : /\ Accepting(p)' => Accepting(p)
                            /\ Reading(p)' => Reading(p)
      BY <1>2, <1>7 DEF PairingInv, ReceiverTypes, Accepting, Holding, Reading
    <2> QED
      BY <1>2, <2>1 DEF PairingInv, OfferInv, OfferFits, Shown
  <1>14. ScanInv'
    <2>1. ASSUME NEW s \in Scans, scan[s].pc = "connected"
          PROVE  stream'[<<s, scan[s].i>>].server \in Answers
      <3>1. stream[<<s, scan[s].i>>].server \in Answers /\ <<s, scan[s].i>> \in Streams
        BY <2>1, ScanPlace DEF PairingInv, ScanInv
      <3> QED
        BY <1>5, <1>9, <3>1 DEF Answers
    <2> QED
      BY <1>2, <2>1 DEF PairingInv, ScanInv
  <1>15. StreamInv'
    <2>1. ASSUME NEW su \in Streams
          PROVE  /\ Fresh(su) => stream'[su].server = "none"
                 /\ stream'[su].data = "sealed" => Fits(Size[su[1]])
                 /\ stream'[su].server \in Answers =>
                      scan[su[1]].o \in Offers /\ Shown(scan[su[1]].o, su)
                 /\ \A p \in Offers : Shown(p, su) =>
                      stream'[su].server \in Answers /\ scan[su[1]].o = p
      BY <1>4, <1>5, <1>9 DEF PairingInv, StreamInv, Answers
    <2>2. ASSUME NEW p \in Offers, NEW m \in 1..Len(backlog'[p])
          PROVE  /\ stream'[backlog'[p][m]].server = "backlog"
                 /\ scan[backlog'[p][m][1]].o = p
                 /\ \A j \in 1..Len(backlog'[p]) : j # m => backlog'[p][j] # backlog'[p][m]
      <3>1. CASE p # o
        <4>1. /\ stream[backlog[p][m]].server = "backlog"
              /\ scan[backlog[p][m][1]].o = p
              /\ \A j \in 1..Len(backlog[p]) : j # m => backlog[p][j] # backlog[p][m]
              /\ backlog[p][m] \in Streams
          BY <1>8, <2>2, <3>1 DEF PairingInv, StreamInv, ReceiverTypes
        <4>2. backlog[p][m] # st
          BY <1>5, <3>1, <4>1
        <4> QED
          BY <1>8, <1>9, <3>1, <4>1, <4>2
      <3>2. CASE p = o
        <4> DEFINE at(j) == IF j < k THEN j ELSE j + 1
        <4>1. ASSUME NEW j \in 1..Len(backlog'[o])
              PROVE  /\ at(j) \in 1..Len(backlog[o]) /\ at(j) # k
                     /\ backlog'[o][j] = backlog[o][at(j)]
          BY <1>4, <1>6, <1>8
        <4>2. \A i, j \in 1..Len(backlog'[o]) : i # j => at(i) # at(j)
          BY <1>6, <1>8
        <4> HIDE DEF at
        <4>3. /\ stream[backlog[o][at(m)]].server = "backlog"
              /\ scan[backlog[o][at(m)][1]].o = o
              /\ \A j \in 1..Len(backlog[o]) : j # at(m) => backlog[o][j] # backlog[o][at(m)]
              /\ backlog[o][at(m)] \in Streams
          <5>1. \A n \in 1..Len(backlog[o]) :
                   /\ stream[backlog[o][n]].server = "backlog"
                   /\ scan[backlog[o][n][1]].o = o
                   /\ \A j \in 1..Len(backlog[o]) : j # n => backlog[o][j] # backlog[o][n]
            <6>1. StreamInv
              BY DEF PairingInv
            <6> HIDE DEF o
            <6> QED
              BY <1>3, <6>1 DEF StreamInv
          <5>2. at(m) \in 1..Len(backlog[o])
            BY <2>2, <3>2, <4>1
          <5> QED
            BY <1>4, <5>1, <5>2
        <4>4. backlog[o][at(m)] # st
          BY <2>2, <3>2, <4>1, <4>3 DEF st
        <4> QED
          BY <1>9, <2>2, <3>2, <4>1, <4>2, <4>3, <4>4
      <3> QED
        BY <3>1, <3>2
    <2>3. ASSUME NEW u \in Threads, call'[u].pc = "handshake"
          PROVE  stream'[call'[u].st].server = "accepted" /\ scan[call'[u].st[1]].o = call'[u].o
      <3>1. CASE u = t
        BY <1>5, <1>7, <1>9, <3>1 DEF PairingInv, ReceiverTypes
      <3>2. CASE u # t
        <4>1. call'[u] = call[u] /\ call[u].st \in Streams
          BY <1>7, <2>3, <3>2 DEF PairingInv, ReceiverTypes, CallInv, Calls
        <4>2. stream[call[u].st].server = "accepted" /\ scan[call[u].st[1]].o = call[u].o
          BY <2>3, <4>1 DEF PairingInv, StreamInv
        <4> QED
          BY <1>5, <1>9, <4>1, <4>2
      <3> QED
        BY <3>1, <3>2
    <2> QED
      BY <1>2, <2>1, <2>2, <2>3 DEF StreamInv, Shown, Fresh
  <1> QED
    BY <1>10, <1>11, <1>12, <1>13, <1>14, <1>15 DEF PairingInv

\* handshake: the code is shown, the connection is kept for receive(), the others are closed.
LEMMA HandshakeStep ==
    ASSUME PairingInv, NEW t \in Threads, handshake(t)
    PROVE  PairingInv'
  <1> DEFINE o == call[t].o
             st == call[t].st
             code == <<offering(o), st, o>>
             last == ~(o \in receivers \/ Holding(o) \ {t} # {})
             D == Waiting(o) \union (IF last THEN {st} ELSE {})
  <1>1. /\ call[t].pc = "handshake"
        /\ call' = [call EXCEPT ![t] = Idle]
        /\ screen' = [screen EXCEPT ![o] = @ \union {code}]
        /\ connected' = [connected EXCEPT ![o] = IF last THEN None ELSE st]
        /\ stream' = Closed([stream EXCEPT ![st].server = "answered"], D)
        /\ backlog' = [backlog EXCEPT ![o] = <<>>]
        /\ UNCHANGED <<next_id, receivers, addresses, listener, received, scan>>
    BY BothComplete DEF handshake, results, svars, registry
  <1>2. o \in Offers /\ o \in 1..next_id /\ st \in Streams /\ st # None
    BY <1>1, PairingAssumption DEF PairingInv, CallInv, ReceiverTypes, Offers, Calls
  <1>3. stream[st].server = "accepted" /\ scan[st[1]].o = o
    BY <1>1 DEF PairingInv, StreamInv
  <1>4. Accepting(o)
    BY <1>1 DEF Accepting, Holding
  <1>5. screen[o] = {} /\ ~listener[o]
    BY <1>2, <1>4 DEF PairingInv, OfferInv, OfferFits
  <1>6. connected[o] = None /\ received[o] = {} /\ ~Reading(o)
    BY <1>2, <1>5 DEF PairingInv, OfferInv, OfferFits, CallInv, Reading, Shown
  <1> HIDE DEF last, o, st, code
  <1>7. /\ screen'[o] = {code}
        /\ \A p \in Offers \ {o} : screen'[p] = screen[p]
        /\ DOMAIN screen' = Offers
    BY <1>1, <1>2, <1>5 DEF PairingInv, ReceiverTypes
  <1>8. /\ connected'[o] \in {None, st}
        /\ \A p \in Offers \ {o} : connected'[p] = connected[p]
        /\ connected' \in [Offers -> Streams \union {None}]
    BY <1>1, <1>2 DEF PairingInv, ReceiverTypes
  <1>9. \A p \in Offers, su \in Streams : Shown(p, su)' <=> Shown(p, su) \/ (p = o /\ su = st)
    BY <1>5, <1>7, CodeInjective DEF Shown, code
  <1>10. backlog'[o] = <<>> /\ \A p \in Offers \ {o} : backlog'[p] = backlog[p]
    BY <1>1, <1>2 DEF PairingInv, ReceiverTypes
  <1>11. call'[t] = Idle /\ \A u \in Threads \ {t} : call'[u] = call[u]
    BY <1>1 DEF PairingInv, ReceiverTypes
  <1>12. ReceiverTypes'
    <2>1. call' \in [Threads -> Calls]
      BY <1>1 DEF PairingInv, ReceiverTypes, Idle, Calls
    <2>2. backlog' \in [Offers -> Seq(Streams)]
      <3>1. backlog \in [Offers -> Seq(Streams)] /\ <<>> \in Seq(Streams)
        BY DEF PairingInv, ReceiverTypes
      <3> QED
        BY <1>1, <3>1
    <2> QED
      BY <1>1, <1>7, <1>8, <2>1, <2>2 DEF PairingInv, ReceiverTypes
  <1>13. CallInv'
    <2>1. Idle \in Calls /\ CallFits(t, Idle) /\ Idle.pc = "idle"
      BY DEF Idle, Calls, CallFits, AcceptPcs
    <2>2. \A u \in Threads : call'[u].pc = "reading" => screen'[call'[u].o] = screen[call'[u].o]
      <3> SUFFICES ASSUME NEW u \in Threads, call'[u].pc = "reading"
                   PROVE  screen'[call'[u].o] = screen[call'[u].o]
        OBVIOUS
      <3>1. call'[u] = call[u] /\ call[u].pc = "reading"
        BY <1>11, <2>1
      <3>2. call[u].o \in Offers /\ call[u].o # o
        BY <1>6, <3>1, PairingAssumption
           DEF PairingInv, CallInv, ReceiverTypes, Offers, Reading
      <3> QED
        BY <1>7, <3>1, <3>2
    <2> QED
      BY <1>1, <2>1, <2>2, OneCallChanges DEF PairingInv
  <1>14. OfferInv'
    <2>1. \A p \in Offers : /\ Accepting(p)' => Accepting(p) /\ p # o
                            /\ Reading(p)' => Reading(p)
      BY <1>1, <1>11 DEF PairingInv, ReceiverTypes, CallInv, AcceptPcs, Accepting, Holding,
                         Reading, Idle, o
    <2>2. \A p \in Offers : /\ listener'[p] => listener[p] /\ p # o
                            /\ received'[p] = received[p] /\ next_id' = next_id
      BY <1>1, <1>5
    <2>3. ASSUME NEW p \in Offers, p # o
          PROVE  /\ screen'[p] = screen[p] /\ connected'[p] = connected[p]
                 /\ \A su : Shown(p, su)' <=> Shown(p, su)
      BY <1>7, <1>8, <2>3 DEF Shown
    <2>4. ASSUME NEW p \in Offers
          PROVE  /\ p > next_id' => ~listener'[p] /\ screen'[p] = {} /\ received'[p] = {}
                 /\ listener'[p] => ~Accepting(p)'
                 /\ listener'[p] \/ Accepting(p)' => screen'[p] = {}
                 /\ connected'[p] # None =>
                      /\ <<offering(p), connected'[p], p>> \in screen'[p]
                      /\ ~Reading(p)' /\ received'[p] = {}
                 /\ Reading(p)' => received'[p] = {}
                 /\ received'[p] # {} =>
                      \E su \in Streams : Shown(p, su)' /\ received'[p] = {su[1]}
                 /\ \A c \in screen'[p] : \E su \in Streams : c = <<offering(p), su, p>>
                 /\ \A c, d \in screen'[p] : c = d
      <3>1. CASE p # o
        <4>1. /\ p > next_id => ~listener[p] /\ screen[p] = {} /\ received[p] = {}
              /\ listener[p] => ~Accepting(p)
              /\ listener[p] \/ Accepting(p) => screen[p] = {}
              /\ connected[p] # None =>
                   /\ <<offering(p), connected[p], p>> \in screen[p]
                   /\ ~Reading(p) /\ received[p] = {}
              /\ Reading(p) => received[p] = {}
              /\ received[p] # {} =>
                   \E su \in Streams : Shown(p, su) /\ received[p] = {su[1]}
              /\ \A c \in screen[p] : \E su \in Streams : c = <<offering(p), su, p>>
              /\ \A c, d \in screen[p] : c = d
          BY DEF PairingInv, OfferInv, OfferFits, Shown
        <4>2. /\ screen'[p] = screen[p] /\ connected'[p] = connected[p]
              /\ \A su : Shown(p, su)' <=> Shown(p, su)
          BY <2>3, <3>1
        <4> QED
          BY <2>1, <2>2, <4>1, <4>2
      <3>2. CASE p = o
        <4>1. next_id \in Nat /\ p \in Nat /\ ~(p > next_id)
          BY <1>2, <3>2 DEF PairingInv, ReceiverTypes
        <4>2. screen'[p] = {<<offering(p), st, p>>} /\ st \in Streams
          BY <1>2, <1>7, <3>2 DEF code
        <4>3. ~listener'[p] /\ ~Accepting(p)' /\ ~Reading(p)' /\ received'[p] = {}
          BY <1>6, <2>1, <2>2, <3>2
        <4>4. connected'[p] # None => connected'[p] = st
          BY <1>8, <3>2
        <4> QED
          BY <2>2, <4>1, <4>2, <4>3, <4>4
      <3> QED
        BY <3>1, <3>2
    <2> QED
      BY <2>4 DEF OfferInv, OfferFits, Shown
  <1> DEFINE mid == [stream EXCEPT ![st].server = "answered"]
  <1>15. /\ mid \in [Streams -> Conn]
         /\ mid[st].server = "answered" /\ mid[st].data = stream[st].data
         /\ \A su \in Streams \ {st} : mid[su] = stream[su]
    BY <1>2 DEF PairingInv, SenderTypes, Conn, Answers
  <1> HIDE DEF mid, D
  <1>16. /\ stream' \in [Streams -> Conn]
         /\ \A su \in Streams :
              /\ su \notin D => stream'[su] = mid[su]
              /\ stream'[su].data = mid[su].data
              /\ stream'[su].server \in Answers <=> mid[su].server \in Answers
    <2>1. stream' = Closed(mid, D)
      BY <1>1 DEF mid
    <2>2. /\ Closed(mid, D) \in [Streams -> Conn]
          /\ \A su \in Streams :
               /\ su \notin D => Closed(mid, D)[su] = mid[su]
               /\ Closed(mid, D)[su].data = mid[su].data
               /\ Closed(mid, D)[su].server \in Answers <=> mid[su].server \in Answers
      BY <1>15, ClosedFacts
    <2> QED
      BY <2>1, <2>2
  <1>17. \A su \in Streams :
            /\ stream'[su].data = stream[su].data
            /\ stream'[su].server \in Answers <=> stream[su].server \in Answers \/ su = st
            /\ su # st /\ su \notin Waiting(o) => stream'[su] = stream[su]
    BY <1>2, <1>15, <1>16 DEF Answers, D
  <1>18. \A su \in Waiting(o) : stream[su].server = "backlog" /\ scan[su[1]].o = o
    BY <1>2 DEF PairingInv, StreamInv, Waiting
  <1> HIDE DEF Waiting
  <1>19. SenderTypes'
    BY <1>1, <1>16 DEF PairingInv, SenderTypes
  <1>20. ScanInv'
    <2>1. ASSUME NEW s \in Scans, scan[s].pc = "connected"
          PROVE  stream'[<<s, scan[s].i>>].server \in Answers
      BY <1>17, <2>1, ScanPlace DEF PairingInv, ScanInv
    <2> QED
      BY <1>1, <2>1 DEF PairingInv, ScanInv
  <1>21. StreamInv'
    <2>1. ASSUME NEW su \in Streams
          PROVE  /\ Fresh(su) => stream'[su].server = "none"
                 /\ stream'[su].data = "sealed" => Fits(Size[su[1]])
                 /\ stream'[su].server \in Answers =>
                      scan[su[1]].o \in Offers /\ Shown(scan[su[1]].o, su)'
                 /\ \A p \in Offers : Shown(p, su)' =>
                      stream'[su].server \in Answers /\ scan[su[1]].o = p
      <3>1. Fresh(su) => stream'[su].server = "none"
        BY <1>3, <1>17, <1>18 DEF PairingInv, StreamInv
      <3>2. stream'[su].data = "sealed" => Fits(Size[su[1]])
        BY <1>17 DEF PairingInv, StreamInv
      <3>3. ASSUME stream'[su].server \in Answers
            PROVE  scan[su[1]].o \in Offers /\ <<offering(scan[su[1]].o), su, scan[su[1]].o>>
                                                  \in screen'[scan[su[1]].o]
        <4>1. CASE su = st
          BY <1>2, <1>3, <1>7, <4>1 DEF code
        <4>2. CASE su # st
          <5>1. /\ stream[su].server \in Answers /\ scan[su[1]].o \in Offers
                /\ Shown(scan[su[1]].o, su)
            BY <1>17, <3>3, <4>2 DEF PairingInv, StreamInv
          <5>2. scan[su[1]].o # o
            BY <1>5, <5>1 DEF Shown
          <5> QED
            BY <1>7, <5>1, <5>2 DEF Shown
        <4> QED
          BY <4>1, <4>2
      <3>4. \A p \in Offers : Shown(p, su)' =>
                      stream'[su].server \in Answers /\ scan[su[1]].o = p
        BY <1>3, <1>9, <1>17 DEF PairingInv, StreamInv
      <3> QED
        BY <1>1, <3>1, <3>2, <3>3, <3>4 DEF Shown
    <2>2. ASSUME NEW p \in Offers, NEW m \in 1..Len(backlog'[p])
          PROVE  /\ stream'[backlog'[p][m]].server = "backlog"
                 /\ scan[backlog'[p][m][1]].o = p
                 /\ \A j \in 1..Len(backlog'[p]) : j # m => backlog'[p][j] # backlog'[p][m]
      <3>1. p # o /\ backlog'[p] = backlog[p]
        BY <1>10, <2>2
      <3>2. /\ stream[backlog[p][m]].server = "backlog"
            /\ scan[backlog[p][m][1]].o = p
            /\ \A j \in 1..Len(backlog[p]) : j # m => backlog[p][j] # backlog[p][m]
            /\ backlog[p][m] \in Streams
        BY <2>2, <3>1 DEF PairingInv, StreamInv, ReceiverTypes
      <3> QED
        BY <1>3, <1>17, <1>18, <3>1, <3>2
    <2>3. ASSUME NEW u \in Threads, call'[u].pc = "handshake"
          PROVE  stream'[call'[u].st].server = "accepted" /\ scan[call'[u].st[1]].o = call'[u].o
      <3>1. u # t /\ call'[u] = call[u] /\ call[u].st \in Streams
        BY <1>11, <2>3 DEF PairingInv, ReceiverTypes, CallInv, Calls, Idle
      <3>2. stream[call[u].st].server = "accepted" /\ scan[call[u].st[1]].o = call[u].o
        BY <2>3, <3>1 DEF PairingInv, StreamInv
      <3>3. call[u].o # o
        BY <1>1, <2>3, <3>1 DEF PairingInv, CallInv, AcceptPcs, o
      <3> QED
        BY <1>3, <1>17, <1>18, <3>1, <3>2, <3>3
    <2>4. \A su \in Streams : Fresh(su)' <=> Fresh(su)
      BY <1>1 DEF Fresh
    <2>5. scan' = scan
      BY <1>1
    <2> QED
      BY <2>1, <2>2, <2>3, <2>4, <2>5 DEF StreamInv
  <1> QED
    BY <1>12, <1>13, <1>14, <1>19, <1>20, <1>21 DEF PairingInv

\* sg_pairing_forget: the registry lets go, and the last holder drops what the offer had.
LEMMA ForgetStep ==
    ASSUME PairingInv, NEW o \in Offers, sg_pairing_forget(o)
    PROVE  PairingInv'
  <1>1. /\ o \in receivers /\ receivers' = receivers \ {o}
        /\ UNCHANGED <<next_id, addresses, screen, call, received, scan>>
    BY DEF sg_pairing_forget, results, svars
  <1>2. CASE Holding(o) # {}
    <2>1. UNCHANGED <<stream, backlog, connected, listener>>
      BY <1>2 DEF sg_pairing_forget
    <2>2. CallInv' /\ OfferInv'
      BY <1>1, <2>1, OfferFrame DEF PairingInv
    <2>3. ReceiverTypes'
      BY <1>1, <2>1 DEF PairingInv, ReceiverTypes
    <2>4. SenderTypes' /\ ScanInv'
      BY <1>1, <2>1 DEF PairingInv, SenderTypes, ScanInv
    <2>5. StreamInv'
      BY <1>1, <2>1 DEF PairingInv, StreamInv, Fresh, Shown
    <2> QED
      BY <2>2, <2>3, <2>4, <2>5 DEF PairingInv
  <1>3. CASE Holding(o) = {}
    <2> DEFINE D == Waiting(o) \union ({connected[o]} \ {None})
    <2>1. /\ stream' = Closed(stream, D)
          /\ backlog' = [backlog EXCEPT ![o] = <<>>]
          /\ connected' = [connected EXCEPT ![o] = None]
          /\ listener' = [listener EXCEPT ![o] = FALSE]
      BY <1>3 DEF sg_pairing_forget
    <2>2. ASSUME NEW st \in Waiting(o) PROVE st \in Streams /\ stream[st].server = "backlog"
      BY DEF Waiting, PairingInv, StreamInv, ReceiverTypes
    <2>3. ASSUME NEW st \in {connected[o]} \ {None}
          PROVE  st \in Streams /\ stream[st].server \in Answers
      BY DEF PairingInv, OfferInv, OfferFits, StreamInv, ReceiverTypes
    <2>4. \A t \in Threads : call'[t].pc = "handshake" =>
              call'[t] = call[t] /\ call[t].st \notin D
      BY <1>1, <2>2, <2>3 DEF PairingInv, StreamInv, Answers
    <2>5. D \in SUBSET Streams /\ Waiting(o) \subseteq D
      BY <2>2, <2>3
    <2>6. \A st \in D : \/ TRUE /\ st \in Waiting(o)
                        \/ stream[st].server \in Answers
                        \/ stream[st].server = "accepted" /\ scan[st[1]].o = o
      BY <2>3
    <2>7. backlog' = [backlog EXCEPT ![o] = IF TRUE THEN <<>> ELSE @]
      BY <2>1
    <2> HIDE DEF D
    <2>8. /\ backlog' \in [Offers -> Seq(Streams)]
          /\ SenderTypes' /\ ScanInv' /\ StreamInv'
      BY <1>1, <2>1, <2>4, <2>5, <2>6, <2>7, ClosingKeepsStreams
    <2>9. ReceiverTypes'
      BY <1>1, <2>1, <2>8 DEF PairingInv, ReceiverTypes
    <2>10. CallInv'
      BY <1>1 DEF PairingInv, CallInv, Shown
    <2>11. OfferInv'
      <3>1. /\ connected'[o] = None /\ ~listener'[o]
            /\ \A p \in Offers \ {o} : connected'[p] = connected[p] /\ listener'[p] = listener[p]
        BY <2>1 DEF PairingInv, ReceiverTypes
      <3> QED
        BY <1>1, <3>1 DEF PairingInv, OfferInv, OfferFits, Shown, Accepting, Holding, Reading
    <2> QED
      BY <2>8, <2>9, <2>10, <2>11 DEF PairingInv
  <1> QED
    BY <1>2, <1>3

\* sg_start_receiving: the next offer is made.
LEMMA StartStep ==
    ASSUME PairingInv, sg_start_receiving
    PROVE  PairingInv'
  <1> DEFINE id == next_id + 1
  <1>1. PICK v6 \in BOOLEAN :
            /\ next_id < MaxOffers
            /\ next_id' = id /\ receivers' = receivers \union {id}
            /\ addresses' = [addresses EXCEPT ![id] = bind(v6)]
            /\ listener' = [listener EXCEPT ![id] = TRUE]
            /\ UNCHANGED <<backlog, connected, screen, call, received, scan, stream>>
    BY DEF sg_start_receiving, NewId, results, svars
  <1>2. next_id \in Nat /\ id \in Offers /\ id > next_id /\ id \in 1..id /\ id \in 0..MaxOffers
    BY <1>1, PairingAssumption DEF PairingInv, ReceiverTypes, Offers
  <1>3. bind(v6) \in Seq(1..Len(Hosts)) /\ Len(bind(v6)) <= Len(Hosts)
    BY BindFacts
  <1>4. \A p \in Offers \ {id} : addresses'[p] = addresses[p] /\ listener'[p] = listener[p]
    BY <1>1 DEF PairingInv, ReceiverTypes
  <1>5. addresses'[id] = bind(v6) /\ listener'[id]
    BY <1>1, <1>2 DEF PairingInv, ReceiverTypes
  <1>6. 1..next_id \subseteq 1..next_id' /\ \A p \in 1..next_id : p # id
    BY <1>1, <1>2
  <1> HIDE DEF id
  <1>7. ReceiverTypes'
    <2>1. next_id' \in 0..MaxOffers /\ receivers' \subseteq 1..next_id'
      BY <1>1, <1>2, <1>6 DEF PairingInv, ReceiverTypes
    <2>2. addresses' \in [Offers -> Seq(1..Len(Hosts))]
      BY <1>1, <1>2, <1>3 DEF PairingInv, ReceiverTypes
    <2>3. \A p \in Offers : Len(addresses'[p]) <= Len(Hosts)
      BY <1>3, <1>4, <1>5 DEF PairingInv, ReceiverTypes
    <2>4. listener' \in [Offers -> BOOLEAN]
      BY <1>1 DEF PairingInv, ReceiverTypes
    <2> QED
      BY <1>1, <2>1, <2>2, <2>3, <2>4 DEF PairingInv, ReceiverTypes
  <1>8. CallInv'
    BY <1>1, <1>6 DEF PairingInv, CallInv, Shown
  <1>9. OfferInv'
    <2>1. \A t \in Threads : call[t].pc # "idle" => call[t].o # id
      BY <1>6 DEF PairingInv, CallInv
    <2>2. ~Accepting(id) /\ ~Reading(id)
      BY <2>1 DEF Accepting, Holding, Reading
    <2>3. screen[id] = {} /\ received[id] = {}
      BY <1>2 DEF PairingInv, OfferInv, OfferFits
    <2>4. \A p \in Offers : p > next_id' => p > next_id /\ p # id
      BY <1>1, <1>2 DEF id, Offers
    <2>5. /\ \A p \in Offers : Accepting(p)' <=> Accepting(p)
          /\ \A p \in Offers : Reading(p)' <=> Reading(p)
          /\ \A p \in Offers : \A st : Shown(p, st)' <=> Shown(p, st)
          /\ screen' = screen /\ received' = received /\ connected' = connected
      BY <1>1 DEF Accepting, Holding, Reading, Shown
    <2>6. \A p \in Offers : connected[p] # None => Shown(p, connected[p])'
      BY <1>1 DEF PairingInv, OfferInv, OfferFits, Shown
    <2>7. \A p \in Offers : listener'[p] => listener[p] \/ p = id
      BY <1>4
    <2> QED
      BY <1>4, <2>2, <2>3, <2>4, <2>5, <2>6, <2>7 DEF PairingInv, OfferInv, OfferFits
  <1>10. SenderTypes'
    BY <1>1 DEF PairingInv, SenderTypes
  <1>11. ScanInv'
    <2>1. ASSUME NEW s \in Scans, scan[s].pc # "idle"
          PROVE  addresses'[scan[s].o] = addresses[scan[s].o] /\ scan[s].o \in 1..next_id
      BY <1>4, <1>6, <2>1, ScanPlace DEF PairingInv
    <2> QED
      BY <1>1, <1>6, <2>1 DEF PairingInv, ScanInv
  <1>12. StreamInv'
    BY <1>1 DEF PairingInv, StreamInv, Fresh, Shown
  <1> QED
    BY <1>7, <1>8, <1>9, <1>10, <1>11, <1>12 DEF PairingInv

-----------------------------------------------------------------------------
(* What the steps of the other device preserve. *)

\* A step of the other device that leaves the server ends and the backlogs alone.
LEMMA SenderKeeps ==
    ASSUME PairingInv,
           UNCHANGED <<next_id, receivers, addresses, listener, connected, screen, call, received>>,
           backlog' = backlog,
           SenderTypes', ScanInv',
           \A st \in Streams : /\ stream'[st].server = stream[st].server
                               /\ stream'[st].data = "sealed" => Fits(Size[st[1]])
                               /\ Fresh(st)' => Fresh(st),
           \A s \in Scans : scan[s].pc = "idle" \/ scan'[s].o = scan[s].o
    PROVE  PairingInv'
  <1>1. CallInv' /\ OfferInv'
    BY OfferFrame DEF PairingInv
  <1>2. ReceiverTypes'
    BY DEF PairingInv, ReceiverTypes
  <1>3. ASSUME NEW st \in Streams, stream[st].server # "none"
        PROVE  scan'[st[1]].o = scan[st[1]].o
    <2>1. ~Fresh(st) /\ st[1] \in Scans /\ st[2] \in 1..Len(Hosts)
      BY <1>3, StreamFacts DEF PairingInv, StreamInv
    <2>2. scan[st[1]].pc # "idle"
      <3>1. scan[st[1]].pc = "idle" => scan[st[1]].i = 0
        BY <2>1 DEF PairingInv, ScanInv
      <3>2. st[2] > 0
        BY <2>1
      <3> QED
        BY <2>1, <3>1, <3>2 DEF Fresh
    <2> QED
      BY <2>1, <2>2
  <1>4. StreamInv'
    <2>1. ASSUME NEW st \in Streams
          PROVE  /\ Fresh(st)' => stream'[st].server = "none"
                 /\ stream'[st].data = "sealed" => Fits(Size[st[1]])
                 /\ stream'[st].server \in Answers =>
                      scan'[st[1]].o \in Offers /\ Shown(scan[st[1]].o, st)'
                 /\ \A p \in Offers : Shown(p, st)' =>
                      stream'[st].server \in Answers /\ scan'[st[1]].o = p
      <3>1. \A p \in Offers : Shown(p, st)' <=> Shown(p, st)
        BY DEF Shown
      <3>2. stream[st].server \in Answers => stream[st].server # "none"
        BY DEF Answers
      <3>3. stream'[st].server \in Answers =>
                scan'[st[1]].o \in Offers
                /\ <<offering(scan'[st[1]].o), st, scan'[st[1]].o>> \in screen[scan'[st[1]].o]
        BY <1>3, <3>2 DEF PairingInv, StreamInv, Shown
      <3>4. \A p \in Offers : Shown(p, st) =>
                stream'[st].server \in Answers /\ scan'[st[1]].o = p
        BY <1>3, <3>2 DEF PairingInv, StreamInv
      <3> QED
        BY <3>1, <3>3, <3>4 DEF PairingInv, StreamInv, Shown
    <2>2. ASSUME NEW p \in Offers, NEW k \in 1..Len(backlog[p])
          PROVE  /\ stream'[backlog[p][k]].server = "backlog"
                 /\ scan'[backlog[p][k][1]].o = p
                 /\ \A j \in 1..Len(backlog[p]) : j # k => backlog[p][j] # backlog[p][k]
      <3>1. /\ stream[backlog[p][k]].server = "backlog"
            /\ scan[backlog[p][k][1]].o = p
            /\ \A j \in 1..Len(backlog[p]) : j # k => backlog[p][j] # backlog[p][k]
            /\ backlog[p][k] \in Streams
        BY <2>2 DEF PairingInv, StreamInv, ReceiverTypes
      <3> QED
        BY <1>3, <3>1
    <2>3. ASSUME NEW t \in Threads, call[t].pc = "handshake"
          PROVE  stream'[call[t].st].server = "accepted" /\ scan'[call[t].st[1]].o = call[t].o
      <3>1. /\ stream[call[t].st].server = "accepted" /\ scan[call[t].st[1]].o = call[t].o
            /\ call[t].st \in Streams
        BY <2>3 DEF PairingInv, StreamInv, ReceiverTypes, CallInv, Calls
      <3> QED
        BY <1>3, <3>1
    <2> QED
      BY <2>1, <2>2, <2>3 DEF StreamInv
  <1> QED
    BY <1>1, <1>2, <1>4 DEF PairingInv

\* The scan s goes to the state c and every other scan stays where it is.
ScanGoes(s, c) ==
    /\ scan' = [scan EXCEPT ![s] = c]
    /\ c.pc \in {"idle", "dialing", "reading", "connected", "failed"}
    /\ c.o \in Nat /\ c.i \in Nat /\ c = [pc |-> c.pc, o |-> c.o, i |-> c.i]

\* A scan that moves within its offer keeps the invariants of the scans.
LEMMA ScanMoves ==
    ASSUME PairingInv, NEW s \in Scans, NEW c, ScanGoes(s, c), scan[s].pc # "idle",
           UNCHANGED <<next_id, addresses>>,
           c.pc # "idle", c.o = scan[s].o, c.i \in 1..Len(addresses[c.o]),
           stream' \in [Streams -> Conn],
           \A st \in Streams : stream[st].server \in Answers => stream'[st].server \in Answers,
           c.pc = "connected" => stream'[<<s, c.i>>].server \in Answers
    PROVE  SenderTypes' /\ ScanInv' /\ \A r \in Scans : scan'[r].o = scan[r].o
  <1>1. scan'[s] = c /\ \A r \in Scans \ {s} : scan'[r] = scan[r]
    BY DEF ScanGoes, PairingInv, SenderTypes
  <1>2. SenderTypes'
    BY DEF ScanGoes, PairingInv, SenderTypes
  <1>3. ASSUME NEW r \in Scans
        PROVE  /\ scan'[r].pc = "idle" => scan'[r].i = 0
               /\ scan'[r].pc # "idle" => /\ scan'[r].o \in 1..next_id
                                          /\ scan'[r].i \in 1..Len(addresses[scan'[r].o])
               /\ scan'[r].pc = "connected" => stream'[<<r, scan'[r].i>>].server \in Answers
    <2>1. CASE r = s
      BY <1>1, <2>1, ScanPlace DEF PairingInv
    <2>2. CASE r # s
      <3>1. scan'[r] = scan[r]
        BY <1>1, <2>2
      <3>2. scan[r].pc = "connected" => <<r, scan[r].i>> \in Streams
        BY ScanPlace DEF PairingInv
      <3> QED
        BY <3>1, <3>2 DEF PairingInv, ScanInv
    <2> QED
      BY <2>1, <2>2
  <1>4. ScanInv'
    BY <1>3 DEF ScanInv
  <1> QED
    BY <1>1, <1>2, <1>4

\* On to the next address, or the scan fails: no attempt becomes one that was not yet made.
LEMMA NextAddressKeeps ==
    ASSUME PairingInv, NEW s \in Scans, scan[s].pc # "idle", NextAddress(s),
           UNCHANGED <<next_id, receivers, addresses, listener, connected, screen, call, received>>,
           backlog' = backlog,
           stream' \in [Streams -> Conn],
           \A st \in Streams : /\ stream'[st].server = stream[st].server
                               /\ stream'[st].data = stream[st].data
    PROVE  PairingInv'
  <1> DEFINE c == IF scan[s].i < Len(addresses[scan[s].o])
                    THEN [scan[s] EXCEPT !.i = scan[s].i + 1, !.pc = "dialing"]
                    ELSE [scan[s] EXCEPT !.pc = "failed"]
  <1>1. /\ scan[s].o \in Offers /\ scan[s].i \in 1..Len(addresses[scan[s].o])
        /\ Len(addresses[scan[s].o]) \in Nat
    <2>1. scan[s].o \in Offers /\ scan[s].i \in 1..Len(addresses[scan[s].o])
      BY ScanPlace DEF PairingInv
    <2> QED
      BY <2>1 DEF PairingInv, ReceiverTypes
  <1>2. scan[s] = [pc |-> scan[s].pc, o |-> scan[s].o, i |-> scan[s].i]
    BY DEF PairingInv, SenderTypes
  <1>3. /\ c.o = scan[s].o /\ c.i \in 1..Len(addresses[c.o]) /\ c.i \in Nat /\ c.o \in Nat
        /\ \/ c.pc = "dialing" /\ c.i = scan[s].i + 1
           \/ c.pc = "failed" /\ c.i = scan[s].i
        /\ c = [pc |-> c.pc, o |-> c.o, i |-> c.i]
    <2>1. scan[s].i \in Nat /\ scan[s].o \in Nat
      BY DEF PairingInv, SenderTypes
    <2>2. CASE scan[s].i < Len(addresses[scan[s].o])
      <3>1. c = [pc |-> "dialing", o |-> scan[s].o, i |-> scan[s].i + 1]
        BY <1>2, <2>2
      <3> HIDE DEF c
      <3> QED
        BY <1>1, <2>1, <2>2, <3>1
    <2>3. CASE ~(scan[s].i < Len(addresses[scan[s].o]))
      <3>1. c = [pc |-> "failed", o |-> scan[s].o, i |-> scan[s].i]
        BY <1>2, <2>3
      <3> HIDE DEF c
      <3> QED
        BY <1>1, <2>1, <3>1
    <2> QED
      BY <2>2, <2>3
  <1>4. scan' = [scan EXCEPT ![s] = c]
    BY DEF NextAddress
  <1> HIDE DEF c
  <1>5. ScanGoes(s, c)
    BY <1>3, <1>4 DEF ScanGoes
  <1>6. SenderTypes' /\ ScanInv' /\ \A r \in Scans : scan'[r].o = scan[r].o
    BY <1>3, <1>5, ScanMoves DEF Answers
  <1>7. \A st \in Streams : Fresh(st)' => Fresh(st)
    <2> SUFFICES ASSUME NEW st \in Streams, Fresh(st)' PROVE Fresh(st)
      OBVIOUS
    <2>1. st[1] \in Scans /\ st[2] \in Nat
      BY StreamFacts, PairingAssumption
    <2>2. CASE st[1] = s
      <3>1. scan'[s] = c
        BY <1>4 DEF PairingInv, SenderTypes
      <3> QED
        BY <1>1, <1>3, <2>1, <2>2, <3>1 DEF Fresh
    <2>3. CASE st[1] # s
      <3>1. scan'[st[1]] = scan[st[1]]
        BY <1>4, <2>1, <2>3 DEF PairingInv, SenderTypes
      <3> QED
        BY <3>1 DEF Fresh
    <2> QED
      BY <2>2, <2>3
  <1>8. \A st \in Streams : stream'[st].data = "sealed" => Fits(Size[st[1]])
    BY DEF PairingInv, StreamInv
  <1> QED
    BY <1>6, <1>7, <1>8, SenderKeeps

\* sg_scan_pairing_code: the first address of the code is dialed.
LEMMA ScanStep ==
    ASSUME PairingInv, NEW s \in Scans, NEW o \in Offers, sg_scan_pairing_code(s, o)
    PROVE  PairingInv'
  <1>1. /\ scan[s].pc = "idle" /\ o \in 1..next_id /\ Len(addresses[o]) \in 1..MaxAddresses
        /\ scan' = [scan EXCEPT ![s] = [pc |-> "dialing", o |-> o, i |-> 1]]
        /\ UNCHANGED <<next_id, receivers, addresses, listener, connected, screen, call, received,
                       backlog, stream>>
    BY DEF sg_scan_pairing_code, decode, rvars, registry, results
  <1>2. /\ scan'[s] = [pc |-> "dialing", o |-> o, i |-> 1]
        /\ \A r \in Scans \ {s} : scan'[r] = scan[r]
    BY <1>1 DEF PairingInv, SenderTypes
  <1>3. SenderTypes'
    <2>1. o \in Nat
      BY PairingAssumption DEF Offers
    <2> QED
      BY <1>1, <2>1 DEF PairingInv, SenderTypes
  <1>4. ScanInv'
    <2>1. 1 \in 1..Len(addresses[o])
      BY <1>1, PairingAssumption
    <2> QED
      BY <1>1, <1>2, <2>1 DEF PairingInv, ScanInv
  <1>5. \A st \in Streams : Fresh(st)' => Fresh(st)
    <2> SUFFICES ASSUME NEW st \in Streams, Fresh(st)' PROVE Fresh(st)
      OBVIOUS
    <2>1. st[1] \in Scans /\ st[2] \in Nat /\ st[2] > 0
      BY StreamFacts, PairingAssumption
    <2>2. CASE st[1] = s
      BY <1>1, <2>1, <2>2 DEF Fresh, PairingInv, ScanInv
    <2>3. CASE st[1] # s
      BY <1>2, <2>1, <2>3 DEF Fresh
    <2> QED
      BY <2>2, <2>3
  <1>6. \A st \in Streams : stream'[st].data = "sealed" => Fits(Size[st[1]])
    BY <1>1 DEF PairingInv, StreamInv
  <1>7. \A r \in Scans : scan[r].pc = "idle" \/ scan'[r].o = scan[r].o
    BY <1>1, <1>2
  <1> QED
    BY <1>1, <1>3, <1>4, <1>5, <1>6, <1>7, SenderKeeps

\* A client end changes, the server end and the data do not.
LEMMA ClientEnd ==
    ASSUME PairingInv, NEW st \in Streams, NEW v \in {"open", "closed", "lost"},
           stream' = [stream EXCEPT ![st].client = v]
    PROVE  /\ stream' \in [Streams -> Conn]
           /\ \A su \in Streams : /\ stream'[su].server = stream[su].server
                                  /\ stream'[su].data = stream[su].data
  BY DEF PairingInv, SenderTypes, Conn

\* attempt_fails: the connection is given up and the next address is tried.
LEMMA AttemptFailsStep ==
    ASSUME PairingInv, NEW s \in Scans, attempt_fails(s)
    PROVE  PairingInv'
  <1> DEFINE st == <<s, scan[s].i>>
             v == IF stream[st].key \/ stream[st].server = "other" THEN "closed" ELSE "lost"
  <1>1. /\ scan[s].pc = "reading" /\ NextAddress(s)
        /\ stream' = [stream EXCEPT ![st].client = v]
        /\ UNCHANGED <<next_id, receivers, addresses, listener, connected, screen, call, received,
                       backlog>>
    BY DEF attempt_fails, rvars, registry, results
  <1>2. st \in Streams /\ v \in {"open", "closed", "lost"}
    BY <1>1, ScanPlace DEF PairingInv
  <1> HIDE DEF st, v
  <1>3. /\ stream' \in [Streams -> Conn]
        /\ \A su \in Streams : /\ stream'[su].server = stream[su].server
                               /\ stream'[su].data = stream[su].data
    BY <1>1, <1>2, ClientEnd
  <1> QED
    BY <1>1, <1>3, NextAddressKeeps

\* read_key: the answer has the offer's key and the scan is connected, or the next address is
\* tried.
LEMMA ReadKeyStep ==
    ASSUME PairingInv, NEW s \in Scans, read_key(s)
    PROVE  PairingInv'
  <1> DEFINE st == <<s, scan[s].i>>
             c == [scan[s] EXCEPT !.pc = "connected"]
  <1>1. /\ scan[s].pc = "reading"
        /\ UNCHANGED <<next_id, receivers, addresses, listener, connected, screen, call, received,
                       backlog>>
        /\ \/ /\ KeyMatches(KeyOf(st, scan[s].o), scan[s].o)
              /\ scan' = [scan EXCEPT ![s] = c]
              /\ UNCHANGED stream
           \/ /\ NextAddress(s)
              /\ stream' = [stream EXCEPT ![st].client = "closed"]
    BY DEF read_key, rvars, registry, results
  <1>2. /\ st \in Streams /\ scan[s].i \in 1..Len(addresses[scan[s].o])
    BY <1>1, ScanPlace DEF PairingInv
  <1>3. CASE /\ KeyMatches(KeyOf(st, scan[s].o), scan[s].o)
             /\ scan' = [scan EXCEPT ![s] = c]
             /\ UNCHANGED stream
    <2>1. stream[st].server \in Answers
      BY <1>3 DEF KeyMatches, KeyOf, offering, None, Answers
    <2>2. /\ c = [pc |-> "connected", o |-> scan[s].o, i |-> scan[s].i]
          /\ scan[s].o \in Nat /\ scan[s].i \in Nat
      BY DEF PairingInv, SenderTypes
    <2> HIDE DEF c
    <2>3. ScanGoes(s, c) /\ c.pc = "connected" /\ c.o = scan[s].o /\ c.i = scan[s].i
      BY <1>3, <2>2 DEF ScanGoes
    <2>4. stream' \in [Streams -> Conn] /\ stream' = stream
      BY <1>3 DEF PairingInv, SenderTypes
    <2>5. stream'[<<s, c.i>>].server \in Answers /\ c.i \in 1..Len(addresses[c.o])
      BY <1>2, <2>1, <2>3, <2>4
    <2>6. SenderTypes' /\ ScanInv' /\ \A r \in Scans : scan'[r].o = scan[r].o
      BY <1>1, <2>3, <2>4, <2>5, ScanMoves
    <2>7. \A su \in Streams : Fresh(su)' => Fresh(su)
      <3> SUFFICES ASSUME NEW su \in Streams, Fresh(su)' PROVE Fresh(su)
        OBVIOUS
      <3>1. su[1] \in Scans
        BY StreamFacts
      <3>2. scan'[s] = c /\ \A r \in Scans \ {s} : scan'[r] = scan[r]
        BY <1>3 DEF PairingInv, SenderTypes
      <3> QED
        BY <2>3, <3>1, <3>2 DEF Fresh
    <2>8. \A su \in Streams : stream'[su].data = "sealed" => Fits(Size[su[1]])
      BY <2>4 DEF PairingInv, StreamInv
    <2> QED
      BY <1>1, <2>4, <2>6, <2>7, <2>8, SenderKeeps
  <1>4. CASE NextAddress(s) /\ stream' = [stream EXCEPT ![st].client = "closed"]
    <2> HIDE DEF st
    <2>1. /\ stream' \in [Streams -> Conn]
          /\ \A su \in Streams : /\ stream'[su].server = stream[su].server
                                 /\ stream'[su].data = stream[su].data
      BY <1>2, <1>4, ClientEnd
    <2> QED
      BY <1>1, <1>4, <2>1, NextAddressKeeps
  <1> QED
    BY <1>1, <1>3, <1>4

\* A step that changes client ends and data only.
LEMMA DataStep ==
    ASSUME PairingInv, NEW st \in Streams,
           NEW d \in {"none", "sealed", "partial"}, d = "sealed" => Fits(Size[st[1]]),
           \/ stream' = [stream EXCEPT ![st].data = d, ![st].client = "closed"]
           \/ stream' = [stream EXCEPT ![st].client = "closed"],
           UNCHANGED <<next_id, receivers, addresses, listener, connected, screen, call, received,
                       backlog, scan>>
    PROVE  PairingInv'
  <1>1. /\ stream' \in [Streams -> Conn]
        /\ \A su \in Streams : /\ stream'[su].server = stream[su].server
                               /\ su # st => stream'[su].data = stream[su].data
        /\ stream'[st].data \in {d, stream[st].data}
    <2>1. CASE stream' = [stream EXCEPT ![st].data = d, ![st].client = "closed"]
      <3>1. stream \in [Streams -> Conn]
        BY DEF PairingInv, SenderTypes
      <3> DEFINE w == [stream[st] EXCEPT !.data = d, !.client = "closed"]
      <3>c. stream[st] \in Conn
        BY <3>1
      <3>w. w \in Conn /\ w.data = d /\ w.server = stream[st].server
        BY <3>c DEF Conn
      <3>e. stream' = [stream EXCEPT ![st] = w]
        BY <2>1, <3>1
      <3> HIDE DEF w
      <3>2. stream' \in [Streams -> Conn]
        BY <3>1, <3>w, <3>e
      <3>3. /\ stream'[st].data = d /\ stream'[st].server = stream[st].server
            /\ \A su \in Streams \ {st} : stream'[su] = stream[su]
        BY <3>1, <3>w, <3>e
      <3> QED
        BY <3>2, <3>3
    <2>2. CASE stream' = [stream EXCEPT ![st].client = "closed"]
      BY <2>2 DEF PairingInv, SenderTypes, Conn
    <2> QED
      BY <2>1, <2>2
  <1>2. SenderTypes'
    BY <1>1 DEF PairingInv, SenderTypes
  <1>3. ScanInv'
    <2>1. ASSUME NEW s \in Scans, scan[s].pc = "connected"
          PROVE  stream'[<<s, scan[s].i>>].server \in Answers
      BY <1>1, <2>1, ScanPlace DEF PairingInv, ScanInv
    <2> QED
      BY <2>1 DEF PairingInv, ScanInv
  <1>4. \A su \in Streams : stream'[su].data = "sealed" => Fits(Size[su[1]])
    BY <1>1 DEF PairingInv, StreamInv
  <1>5. \A su \in Streams : Fresh(su)' => Fresh(su)
    BY DEF Fresh
  <1> QED
    BY <1>1, <1>2, <1>3, <1>4, <1>5, SenderKeeps

\* sg_sender_send and sg_pairing_forget of the other device: a connection is used up.
LEMMA SendStep ==
    ASSUME PairingInv, SendersInv, NEW s \in Scans, sg_sender_send(s) \/ forget_sender(s)
    PROVE  PairingInv'
  <1> DEFINE st == <<s, scan[s].i>>
  <1>1. s \in senders
    BY DEF sg_sender_send, forget_sender
  <1>2. st \in Streams
    BY <1>1, ScanPlace DEF PairingInv, SendersInv
  <1>3. st[1] = s
    OBVIOUS
  <1>4. UNCHANGED <<next_id, receivers, addresses, listener, connected, screen, call, received,
                    backlog, scan>>
    BY DEF sg_sender_send, forget_sender, rvars, registry, results
  <1>5. CASE sg_sender_send(s)
    <2>1. PICK d \in IF Fits(Size[s]) THEN {"sealed", "partial"} ELSE {"none"} :
              stream' = [stream EXCEPT ![st].data = d, ![st].client = "closed"]
      BY <1>5 DEF sg_sender_send
    <2>2. d \in {"none", "sealed", "partial"} /\ (d = "sealed" => Fits(Size[st[1]]))
      BY <1>3
    <2> HIDE DEF st
    <2> QED
      BY <1>2, <1>4, <2>1, <2>2, DataStep
  <1>6. CASE forget_sender(s)
    <2>1. stream' = [stream EXCEPT ![st].client = "closed"]
      BY <1>6 DEF forget_sender
    <2>2. "none" \in {"none", "sealed", "partial"} /\ "none" # "sealed"
      OBVIOUS
    <2> HIDE DEF st
    <2> QED
      BY <1>2, <1>4, <2>1, <2>2, DataStep
  <1> QED
    BY <1>5, <1>6

\* connect: a connection of an attempt that was not yet made, to the offer or to something else.
LEMMA ConnectStep ==
    ASSUME PairingInv, NEW s \in Scans, connect(s)
    PROVE  PairingInv'
  <1> DEFINE o == scan[s].o
             st == <<s, scan[s].i>>
             c == [scan[s] EXCEPT !.pc = "reading"]
             there == route[addresses[o][scan[s].i]]
  <1>1. /\ scan[s].pc = "dialing"
        /\ UNCHANGED <<next_id, receivers, addresses, listener, connected, screen, call, received>>
    BY DEF connect, rvars, registry, results
  <1>2. /\ o \in Offers /\ scan[s].i \in 1..Len(addresses[o]) /\ st \in Streams
        /\ st[1] = s /\ st[2] = scan[s].i
    BY <1>1, ScanPlace DEF PairingInv
  <1>3. stream[st].server = "none"
    BY <1>1, <1>2 DEF PairingInv, StreamInv, Fresh
  <1>4. CASE NextAddress(s) /\ UNCHANGED <<stream, backlog>>
    <2>1. stream' \in [Streams -> Conn]
      BY <1>4 DEF PairingInv, SenderTypes
    <2> QED
      BY <1>1, <1>4, <2>1, NextAddressKeeps
  <1>5. ASSUME NEW v \in {"backlog", "silent", "other"},
               scan' = [scan EXCEPT ![s] = c],
               stream' \in [Streams -> Conn],
               stream'[st].server = v, stream'[st].data = stream[st].data,
               \A su \in Streams \ {st} : stream'[su] = stream[su],
               \/ v = "backlog" /\ backlog' = [backlog EXCEPT ![o] = Append(@, st)]
               \/ v # "backlog" /\ UNCHANGED backlog
        PROVE  PairingInv'
    <2>1. /\ c = [pc |-> "reading", o |-> o, i |-> scan[s].i]
          /\ o \in Nat /\ scan[s].i \in Nat
      BY DEF PairingInv, SenderTypes
    <2> HIDE DEF c, st, o
    <2>2. ScanGoes(s, c) /\ c.pc = "reading" /\ c.o = o /\ c.i = scan[s].i
      BY <1>5, <2>1 DEF ScanGoes
    <2>3. \A su \in Streams : stream[su].server \in Answers => stream'[su].server \in Answers
      BY <1>3, <1>5 DEF Answers
    <2>4. SenderTypes' /\ ScanInv' /\ \A r \in Scans : scan'[r].o = scan[r].o
      <3>1. c.o = scan[s].o /\ c.i \in 1..Len(addresses[c.o])
        BY <1>2, <2>2 DEF o
      <3> QED
        BY <1>1, <1>5, <2>2, <2>3, <3>1, ScanMoves
    <2>5. CallInv' /\ OfferInv'
      BY <1>1, OfferFrame DEF PairingInv
    <2>6. backlog \in [Offers -> Seq(Streams)] /\ backlog' \in [Offers -> Seq(Streams)]
      <3>1. backlog \in [Offers -> Seq(Streams)]
        BY DEF PairingInv, ReceiverTypes
      <3>2. Append(backlog[o], st) \in Seq(Streams)
        BY <1>2, <3>1
      <3> QED
        BY <1>2, <1>5, <3>1, <3>2
    <2>7. ReceiverTypes'
      BY <1>1, <2>6 DEF PairingInv, ReceiverTypes
    <2>8. scan'[s] = c /\ \A r \in Scans \ {s} : scan'[r] = scan[r]
      BY <1>5 DEF PairingInv, SenderTypes
    <2>9. StreamInv'
      <3>1. ASSUME NEW su \in Streams
            PROVE  /\ Fresh(su)' => stream'[su].server = "none"
                   /\ stream'[su].data = "sealed" => Fits(Size[su[1]])
                   /\ stream'[su].server \in Answers =>
                        scan[su[1]].o \in Offers /\ Shown(scan[su[1]].o, su)
                   /\ \A p \in Offers : Shown(p, su) =>
                        stream'[su].server \in Answers /\ scan[su[1]].o = p
        <4>1. Fresh(su)' => Fresh(su) /\ su # st
          <5>1. su[1] \in Scans /\ su[2] \in Nat
            BY StreamFacts, PairingAssumption
          <5>2. CASE su[1] = s
            BY <1>2, <2>1, <2>2, <2>8, <5>1, <5>2 DEF Fresh
          <5>3. CASE su[1] # s
            BY <1>2, <2>8, <5>1, <5>3 DEF Fresh
          <5> QED
            BY <5>2, <5>3
        <4>2. Fresh(su)' => stream'[su].server = "none"
          BY <1>5, <4>1 DEF PairingInv, StreamInv
        <4>3. stream'[su].data = "sealed" => Fits(Size[su[1]])
          BY <1>5 DEF PairingInv, StreamInv
        <4>4. stream'[su].server \in Answers => stream[su].server \in Answers
          BY <1>5 DEF Answers
        <4> QED
          BY <2>3, <4>2, <4>3, <4>4 DEF PairingInv, StreamInv
      <3>2. ASSUME NEW p \in Offers, NEW k \in 1..Len(backlog[p])
            PROVE  /\ stream'[backlog[p][k]].server = "backlog" /\ backlog[p][k] # st
                   /\ scan[backlog[p][k][1]].o = p /\ backlog[p][k][1] \in Scans
                   /\ \A j \in 1..Len(backlog[p]) : j # k => backlog[p][j] # backlog[p][k]
        <4>1. /\ stream[backlog[p][k]].server = "backlog"
              /\ scan[backlog[p][k][1]].o = p
              /\ \A j \in 1..Len(backlog[p]) : j # k => backlog[p][j] # backlog[p][k]
              /\ backlog[p][k] \in Streams
          BY <2>6, <3>2 DEF PairingInv, StreamInv
        <4> QED
          BY <1>3, <1>5, <4>1, StreamFacts
      <3>3. ASSUME NEW p \in Offers, NEW k \in 1..Len(backlog'[p])
            PROVE  /\ stream'[backlog'[p][k]].server = "backlog"
                   /\ scan[backlog'[p][k][1]].o = p /\ backlog'[p][k][1] \in Scans
                   /\ \A j \in 1..Len(backlog'[p]) : j # k => backlog'[p][j] # backlog'[p][k]
        <4>1. CASE backlog'[p] = backlog[p]
          BY <3>2, <3>3, <4>1
        <4>2. CASE backlog'[p] # backlog[p]
          <5>1. p = o /\ v = "backlog" /\ backlog'[p] = Append(backlog[p], st)
            BY <1>2, <1>5, <2>6, <4>2
          <5>2. /\ backlog[p] \in Seq(Streams) /\ Len(backlog'[p]) = Len(backlog[p]) + 1
                /\ \A j \in 1..Len(backlog[p]) : backlog'[p][j] = backlog[p][j]
                /\ backlog'[p][Len(backlog[p]) + 1] = st
            BY <1>2, <2>6, <5>1
          <5>3. CASE k = Len(backlog[p]) + 1
            <6>1. backlog'[p][k] = st
              BY <5>2, <5>3
            <6>2. stream'[st].server = "backlog" /\ scan[st[1]].o = p /\ st[1] \in Scans
              BY <1>2, <1>5, <5>1 DEF o
            <6>3. ASSUME NEW j \in 1..Len(backlog'[p]), j # k
                  PROVE  backlog'[p][j] # st
              <7>1. j \in 1..Len(backlog[p]) /\ backlog'[p][j] = backlog[p][j]
                BY <5>2, <5>3, <6>3
              <7> QED
                BY <1>2, <1>5, <3>2, <5>1, <7>1
            <6> QED
              BY <6>1, <6>2, <6>3
          <5>4. CASE k # Len(backlog[p]) + 1
            <6>1. k \in 1..Len(backlog[p])
              BY <3>3, <5>2, <5>4
            <6>2. \A j \in 1..Len(backlog'[p]) :
                     j \in 1..Len(backlog[p]) \/ j = Len(backlog[p]) + 1
              BY <5>2
            <6>3. /\ stream'[backlog[p][k]].server = "backlog"
                  /\ scan[backlog[p][k][1]].o = p /\ backlog[p][k][1] \in Scans
                  /\ \A j \in 1..Len(backlog[p]) : j # k => backlog[p][j] # backlog[p][k]
                  /\ backlog[p][k] # st
              BY <3>2, <6>1
            <6> QED
              BY <5>2, <6>1, <6>2, <6>3
          <5> QED
            BY <5>3, <5>4
        <4> QED
          BY <4>1, <4>2
      <3>4. ASSUME NEW t \in Threads, call[t].pc = "handshake"
            PROVE  /\ stream'[call[t].st].server = "accepted" /\ call[t].st[1] \in Scans
                   /\ scan[call[t].st[1]].o = call[t].o
        <4>1. /\ stream[call[t].st].server = "accepted" /\ scan[call[t].st[1]].o = call[t].o
              /\ call[t].st \in Streams
          BY <3>4 DEF PairingInv, StreamInv, ReceiverTypes, CallInv, Calls
        <4> QED
          BY <1>3, <1>5, <4>1, StreamFacts
      <3>5. \A su \in Streams : scan'[su[1]].o = scan[su[1]].o
        BY <2>4, StreamFacts
      <3>6. \A p \in Offers, su \in Streams : Shown(p, su)' <=> Shown(p, su)
        BY <1>1 DEF Shown
      <3>7. ASSUME NEW su \in Streams, stream'[su].server \in Answers
            PROVE  scan'[su[1]].o \in Offers
                   /\ <<offering(scan'[su[1]].o), su, scan'[su[1]].o>> \in screen'[scan'[su[1]].o]
        BY <1>1, <3>1, <3>5, <3>7 DEF Shown
      <3>8. \A p \in Offers : \A k \in 1..Len(backlog'[p]) : scan'[backlog'[p][k][1]].o = p
        BY <2>4, <3>3
      <3>9. \A t \in Threads : call[t].pc = "handshake" =>
                stream'[call[t].st].server = "accepted" /\ scan'[call[t].st[1]].o = call[t].o
        BY <2>4, <3>4
      <3> QED
        BY <1>1, <3>1, <3>3, <3>5, <3>6, <3>7, <3>8, <3>9 DEF StreamInv, Shown
    <2> QED
      BY <2>4, <2>5, <2>7, <2>9 DEF PairingInv
  <1>6. CASE /\ \E arrives \in BOOLEAN :
                   stream' = [stream EXCEPT ![st].client = "open", ![st].key = arrives,
                                            ![st].server = "backlog"]
             /\ backlog' = [backlog EXCEPT ![o] = Append(@, st)]
             /\ scan' = [scan EXCEPT ![s] = c]
    <2>1. /\ stream' \in [Streams -> Conn] /\ stream'[st].server = "backlog"
          /\ stream'[st].data = stream[st].data
          /\ \A su \in Streams \ {st} : stream'[su] = stream[su]
      <3> HIDE DEF st
      <3>1. stream \in [Streams -> Conn]
        BY DEF PairingInv, SenderTypes
      <3>2. PICK arrives \in BOOLEAN :
                stream' = [stream EXCEPT ![st].client = "open", ![st].key = arrives,
                                         ![st].server = "backlog"]
        BY <1>6
      <3> DEFINE w == [stream[st] EXCEPT !.client = "open", !.key = arrives,
                                         !.server = "backlog"]
      <3>3. w \in Conn
        BY <1>2, <3>1 DEF Conn
      <3>4. w.data = stream[st].data /\ w.server = "backlog"
        BY <1>2, <3>1 DEF Conn
      <3>5. stream' = [stream EXCEPT ![st] = w]
        BY <1>2, <3>1, <3>2 DEF Conn
      <3> HIDE DEF w
      <3>6. stream' \in [Streams -> Conn]
        BY <1>2, <3>1, <3>3, <3>5
      <3>7. /\ stream'[st].data = stream[st].data /\ stream'[st].server = "backlog"
            /\ \A su \in Streams \ {st} : stream'[su] = stream[su]
        BY <1>2, <3>1, <3>4, <3>5
      <3> QED
        BY <3>6, <3>7
    <2> QED
      BY <1>5, <1>6, <2>1
  <1>7. CASE /\ there \in {"silent", "other"}
             /\ stream' = [stream EXCEPT ![st].client = "open", ![st].server = there]
             /\ scan' = [scan EXCEPT ![s] = c]
             /\ UNCHANGED backlog
    <2> HIDE DEF there
    <2>1. /\ stream' \in [Streams -> Conn] /\ stream'[st].server = there
          /\ stream'[st].data = stream[st].data
          /\ \A su \in Streams \ {st} : stream'[su] = stream[su]
      <3> DEFINE w == [stream[st] EXCEPT !.client = "open", !.server = there]
      <3>1. stream \in [Streams -> Conn]
        BY DEF PairingInv, SenderTypes
      <3>2. w \in Conn /\ w.server = there /\ w.data = stream[st].data
        BY <1>2, <1>7, <3>1 DEF Conn
      <3>3. stream' = [stream EXCEPT ![st] = w]
        BY <1>2, <1>7, <3>1
      <3> HIDE DEF w
      <3> QED
        BY <1>2, <3>1, <3>2, <3>3
    <2>2. there \in {"backlog", "silent", "other"} /\ there # "backlog"
      BY <1>7
    <2> QED
      BY <1>5, <1>7, <2>1, <2>2
  <1> QED
    BY <1>4, <1>6, <1>7 DEF connect

\* expire, and steps that change nothing.
LEMMA IdleStep ==
    ASSUME PairingInv,
           UNCHANGED <<next_id, receivers, addresses, listener, connected, screen, call, received,
                       backlog, scan, stream>>
    PROVE  PairingInv'
  <1>1. SenderTypes' /\ ScanInv'
    BY DEF PairingInv, SenderTypes, ScanInv
  <1>2. \A st \in Streams : /\ stream'[st].server = stream[st].server
                            /\ stream'[st].data = "sealed" => Fits(Size[st[1]])
                            /\ Fresh(st)' => Fresh(st)
    BY DEF PairingInv, StreamInv, Fresh
  <1> QED
    BY <1>1, <1>2, SenderKeeps

\* Every step keeps the invariant.
LEMMA NextKeepsInv ==
    ASSUME PairingInv, SendersInv, [Next]_vars
    PROVE  PairingInv'
  <1>1. CASE sg_start_receiving
    BY <1>1, StartStep
  <1>2. ASSUME NEW o \in Offers, expire(o) PROVE PairingInv'
    BY <1>2, IdleStep DEF expire, registry, results, svars
  <1>3. ASSUME NEW o \in Offers, sg_pairing_forget(o) PROVE PairingInv'
    BY <1>3, ForgetStep
  <1>4. ASSUME NEW t \in Threads, Returning(t) PROVE PairingInv'
    BY <1>4, AwaitStep, HandshakeStep, HandshakeFailedStep, TimeoutStep, AcceptStep, ReceiveStep,
       AcceptTransferStep DEF Returning
  <1>5. ASSUME NEW t \in Threads, NEW o \in Offers,
               take_receiver(t, o, "await") \/ take_receiver(t, o, "receive")
        PROVE  PairingInv'
    BY <1>5, TakeStep
  <1>6. ASSUME NEW s \in Scans, Dialing(s) PROVE PairingInv'
    BY <1>6, ConnectStep, ReadKeyStep, AttemptFailsStep DEF Dialing
  <1>7. ASSUME NEW s \in Scans, sg_sender_send(s) \/ forget_sender(s) PROVE PairingInv'
    BY <1>7, SendStep
  <1>8. ASSUME NEW s \in Scans, NEW o \in Offers, sg_scan_pairing_code(s, o) PROVE PairingInv'
    BY <1>8, ScanStep
  <1>9. CASE UNCHANGED vars
    BY <1>9, IdleStep DEF vars, rvars, svars, registry, results
  <1> QED
    BY <1>1, <1>2, <1>3, <1>4, <1>5, <1>6, <1>7, <1>8, <1>9 DEF Next

\* A connected scan is never taken back, and only a connected scan is registered.
LEMMA NextKeepsSenders ==
    ASSUME PairingInv, SendersInv, [Next]_vars
    PROVE  SendersInv'
  <1> USE DEF SendersInv
  <1>1. CASE UNCHANGED <<scan, senders>>
    BY <1>1
  <1>2. ASSUME NEW s \in Scans, NEW c, c.pc = "connected" \/ scan[s].pc # "connected",
               scan' = [scan EXCEPT ![s] = c],
               senders' \in {senders} \union (IF c.pc = "connected"
                                                THEN {senders \union {s}} ELSE {})
        PROVE  SendersInv'
    <2>1. scan'[s] = c /\ \A r \in Scans \ {s} : scan'[r] = scan[r]
      BY <1>2 DEF PairingInv, SenderTypes
    <2> QED
      BY <1>2, <2>1
  <1>3. ASSUME NEW s \in Scans, NextAddress(s), scan[s].pc # "connected", UNCHANGED senders
        PROVE  SendersInv'
    BY <1>2, <1>3 DEF NextAddress
  <1>4. CASE sg_start_receiving
    BY <1>1, <1>4 DEF sg_start_receiving, svars
  <1>5. ASSUME NEW o \in Offers, expire(o) \/ sg_pairing_forget(o) PROVE SendersInv'
    BY <1>1, <1>5 DEF expire, sg_pairing_forget, svars
  <1>6. ASSUME NEW t \in Threads, Returning(t) PROVE SendersInv'
    BY <1>1, <1>6 DEF Returning, await_connection, handshake, handshake_failed, accept_times_out,
       accept, receive, accept_transfer, svars
  <1>7. ASSUME NEW t \in Threads, NEW o \in Offers,
               take_receiver(t, o, "await") \/ take_receiver(t, o, "receive")
        PROVE  SendersInv'
    BY <1>1, <1>7 DEF take_receiver, svars
  <1>8. ASSUME NEW s \in Scans, connect(s) PROVE SendersInv'
    <2>1. /\ scan[s].pc = "dialing" /\ UNCHANGED senders
          /\ NextAddress(s) \/ scan' = [scan EXCEPT ![s].pc = "reading"]
      BY <1>8 DEF connect
    <2>2. CASE NextAddress(s)
      BY <1>3, <2>1, <2>2
    <2>3. CASE scan' = [scan EXCEPT ![s].pc = "reading"]
      BY <2>1, <2>3 DEF PairingInv, SenderTypes
    <2> QED
      BY <2>1, <2>2, <2>3
  <1>9. ASSUME NEW s \in Scans, read_key(s) PROVE SendersInv'
    <2>1. /\ scan[s].pc = "reading"
          /\ \/ scan' = [scan EXCEPT ![s].pc = "connected"] /\ senders' = senders \union {s}
             \/ NextAddress(s) /\ UNCHANGED senders
      BY <1>9 DEF read_key
    <2>2. CASE NextAddress(s) /\ UNCHANGED senders
      BY <1>3, <2>1, <2>2
    <2>3. CASE scan' = [scan EXCEPT ![s].pc = "connected"] /\ senders' = senders \union {s}
      BY <2>1, <2>3 DEF PairingInv, SenderTypes
    <2> QED
      BY <2>1, <2>2, <2>3
  <1>10. ASSUME NEW s \in Scans, attempt_fails(s) PROVE SendersInv'
    BY <1>3, <1>10 DEF attempt_fails
  <1>11. ASSUME NEW s \in Scans, sg_sender_send(s) \/ forget_sender(s) PROVE SendersInv'
    BY <1>11 DEF sg_sender_send, forget_sender
  <1>12. ASSUME NEW s \in Scans, NEW o \in Offers, sg_scan_pairing_code(s, o)
         PROVE  SendersInv'
    BY <1>12 DEF sg_scan_pairing_code, PairingInv, SenderTypes
  <1>13. CASE UNCHANGED vars
    BY <1>1, <1>13 DEF vars, svars
  <1> QED
    BY <1>4, <1>5, <1>6, <1>7, <1>8, <1>9, <1>10, <1>11, <1>12, <1>13 DEF Next, Dialing

\* However the calls of both devices, the connections, the timeouts and the expiry interleave: an
\* offer's listener, its handshake and its connection are each held by one thread at most, an
\* offer shows one code, and a connection is answered exactly if its code was shown.
THEOREM PairingInvariant == Spec => [](PairingInv /\ SendersInv)
  <1>1. Init => PairingInv /\ SendersInv
    BY InitInv DEF Init, SendersInv
  <1>2. PairingInv /\ SendersInv /\ [Next]_vars => (PairingInv /\ SendersInv)'
    BY NextKeepsInv, NextKeepsSenders
  <1> QED
    BY <1>1, <1>2, PTL DEF Spec

\* A scan reports a connection only if the offer's own listener answered it, and then the other
\* device shows the same digits (transfer.rs:180, pairing.rs:180-186).
THEOREM CodesAgreeAlways == Spec => []CodesAgree
  <1>1. PairingInv => CodesAgree
    <2> SUFFICES ASSUME PairingInv, NEW s \in Scans, scan[s].pc = "connected"
                 PROVE  /\ stream[<<s, scan[s].i>>].server \in {"answered", "answered_closed"}
                        /\ SenderCode(s) \in screen[scan[s].o]
      BY DEF CodesAgree
    <2> DEFINE st == <<s, scan[s].i>>
    <2>1. st \in Streams /\ stream[st].server \in Answers /\ st[1] = s
      BY ScanPlace DEF PairingInv, ScanInv
    <2>2. Shown(scan[s].o, st)
      BY <2>1 DEF PairingInv, StreamInv
    <2>3. SenderCode(s) = <<offering(scan[s].o), st, scan[s].o>>
      BY BothComplete DEF SenderCode
    <2> QED
      BY <2>1, <2>2, <2>3 DEF Answers, Shown
  <1> QED
    BY <1>1, PairingInvariant, PTL

\* What send() accepts, receive() never refuses for its length (transfer.rs:216, 258).
THEOREM SentFitsAlways == Spec => []SentFits
  <1>1. Init => SentFits
    BY DEF Init, SentFits
  <1>2. ASSUME PairingInv, SentFits, [Next]_vars PROVE SentFits'
    <2> USE DEF SentFits
    <2>1. CASE UNCHANGED refused
      BY <1>2, <2>1
    <2>2. ASSUME NEW t \in Threads, accept_transfer(t) PROVE SentFits'
      <3> DEFINE st == call[t].st
      <3>1. call[t].pc = "reading"
        BY <2>2 DEF accept_transfer
      <3>2. st \in Streams /\ st[1] \in Scans
        BY <1>2, <3>1, StreamFacts DEF PairingInv, CallInv, ReceiverTypes, Calls
      <3>3. stream[st].data = "sealed" => ~(Size[st[1]] + Overhead > MaxTransfer)
        BY <1>2, <3>2, PairingAssumption DEF PairingInv, StreamInv, Fits
      <3>4. UNCHANGED refused
        BY <2>2, <3>3 DEF accept_transfer, results
      <3> QED
        BY <2>1, <3>4
    <2>3. CASE sg_start_receiving
      BY <2>1, <2>3 DEF sg_start_receiving, results
    <2>4. ASSUME NEW o \in Offers, expire(o) \/ sg_pairing_forget(o) PROVE SentFits'
      BY <2>1, <2>4 DEF expire, sg_pairing_forget, results
    <2>5. ASSUME NEW t \in Threads, Returning(t) PROVE SentFits'
      BY <2>1, <2>2, <2>5 DEF Returning, await_connection, handshake, handshake_failed,
         accept_times_out, accept, receive, results
    <2>6. ASSUME NEW t \in Threads, NEW o \in Offers,
                 take_receiver(t, o, "await") \/ take_receiver(t, o, "receive")
          PROVE  SentFits'
      BY <2>1, <2>6 DEF take_receiver, results
    <2>7. ASSUME NEW s \in Scans, Dialing(s) \/ sg_sender_send(s) \/ forget_sender(s)
          PROVE  SentFits'
      BY <2>1, <2>7 DEF Dialing, connect, read_key, attempt_fails, sg_sender_send, forget_sender,
         rvars, results
    <2>8. ASSUME NEW s \in Scans, NEW o \in Offers, sg_scan_pairing_code(s, o) PROVE SentFits'
      BY <2>1, <2>8 DEF sg_scan_pairing_code, rvars, results
    <2>9. CASE UNCHANGED vars
      BY <2>1, <2>9 DEF vars, rvars, results
    <2> QED
      BY <1>2, <2>3, <2>4, <2>5, <2>6, <2>7, <2>8, <2>9 DEF Next
  <1> QED
    BY <1>1, <1>2, PairingInvariant, PTL DEF Spec

-----------------------------------------------------------------------------
(* The offers keep the promise of OneTransfer. *)

\* The abstract state of one offer.
State(o) ==
    IF o > next_id THEN "unmade"
    ELSE IF received[o] # {} THEN "done"
    ELSE IF (listener[o] /\ Alive(o)) \/ Accepting(o) THEN "open"
    ELSE IF connected[o] # None \/ Reading(o) THEN "paired"
    ELSE "dead"

\* The connections whose code an offer has shown.
Partners(o) == {st \in Streams : Shown(o, st)}

\* The refinement mapping, offer by offer.
LEMMA MappingByOffer ==
    /\ OfferState = [o \in Offers |-> State(o)]
    /\ OfferState' = [o \in Offers |-> State(o)']
    /\ Partner = [o \in Offers |-> Partners(o)]
    /\ Partner' = [o \in Offers |-> Partners(o)']
  <1>1. \A o \in Offers : (\E t \in Holding(o) : call[t].pc = "reading") <=> Reading(o)
    BY DEF Holding, Reading
  <1>2. \A o \in Offers : ((\E t \in Holding(o) : call[t].pc = "reading")') <=> Reading(o)'
    BY DEF Holding, Reading
  <1>3. OfferState = [o \in Offers |-> State(o)]
    BY <1>1 DEF OfferState, State, Listening
  <1>4. OfferState' = [o \in Offers |-> State(o)']
    BY <1>2 DEF OfferState, State, Listening
  <1>5. Partner = [o \in Offers |-> Partners(o)] /\ Partner' = [o \in Offers |-> Partners(o)']
    BY DEF Partner, Partners, Shown
  <1> QED
    BY <1>3, <1>4, <1>5

\* What a step may do to one offer.
OfferStep(o) ==
    \/ /\ State(o)' = State(o) /\ Partners(o)' = Partners(o) /\ received'[o] = received[o]
    \/ /\ State(o) = "unmade" /\ State(o)' = "open"
       /\ Partners(o)' = Partners(o) /\ received'[o] = received[o]
    \/ /\ State(o) = "open" /\ State(o)' \in {"paired", "dead"}
       /\ received'[o] = received[o] /\ \E st \in Streams : Partners(o)' = {st}
    \/ /\ State(o) = "paired" /\ State(o)' = "done" /\ Partners(o)' = Partners(o)
       /\ received'[o] = {SenderOf(st) : st \in Partners(o)}
    \/ /\ State(o) \in {"open", "paired"} /\ State(o)' = "dead"
       /\ Partners(o)' = Partners(o) /\ received'[o] = received[o]

OthersKept(o) ==
    \A p \in Offers \ {o} :
        State(p)' = State(p) /\ Partners(p)' = Partners(p) /\ received'[p] = received[p]

\* A step that does to one offer what an offer may do, and nothing to the others, is a step of
\* OneTransfer.
LEMMA AbstractStep ==
    ASSUME NEW o \in Offers, OfferStep(o), OthersKept(o),
           received \in [Offers -> SUBSET Scans], received' \in [Offers -> SUBSET Scans]
    PROVE  [Promise!Next]_(Promise!vars)
  <1>1. /\ OfferState = [p \in Offers |-> State(p)] /\ OfferState' = [p \in Offers |-> State(p)']
        /\ Partner = [p \in Offers |-> Partners(p)] /\ Partner' = [p \in Offers |-> Partners(p)']
    BY MappingByOffer
  <1>2. OfferState[o] = State(o) /\ Partner[o] = Partners(o)
    BY <1>1
  <1>3. State(o)' = State(o) => OfferState' = OfferState
    BY <1>1 DEF OthersKept
  <1>4. Partners(o)' = Partners(o) => Partner' = Partner
    BY <1>1 DEF OthersKept
  <1>5. received'[o] = received[o] => received' = received
    BY DEF OthersKept
  <1>6. ASSUME NEW q, State(o)' = q PROVE OfferState' = [OfferState EXCEPT ![o] = q]
    BY <1>1, <1>6 DEF OthersKept
  <1>7. ASSUME NEW q, Partners(o)' = q PROVE Partner' = [Partner EXCEPT ![o] = q]
    BY <1>1, <1>7 DEF OthersKept
  <1>8. ASSUME NEW q, received'[o] = q PROVE received' = [received EXCEPT ![o] = q]
    BY <1>8 DEF OthersKept
  <1>9. CASE State(o)' = State(o) /\ Partners(o)' = Partners(o) /\ received'[o] = received[o]
    BY <1>3, <1>4, <1>5, <1>9 DEF Promise!vars
  <1>10. CASE /\ State(o) = "unmade" /\ State(o)' = "open"
              /\ Partners(o)' = Partners(o) /\ received'[o] = received[o]
    <2>1. Promise!Open(o)
      BY <1>2, <1>4, <1>5, <1>6, <1>10 DEF Promise!Open
    <2> QED
      BY <2>1 DEF Promise!Next
  <1>11. CASE /\ State(o) = "open" /\ State(o)' \in {"paired", "dead"}
              /\ received'[o] = received[o] /\ \E st \in Streams : Partners(o)' = {st}
    <2>1. PICK st \in Streams : Partners(o)' = {st}
      BY <1>11
    <2>2. Promise!Pair(o, st)
      BY <1>2, <1>5, <1>6, <1>7, <1>11, <2>1 DEF Promise!Pair
    <2> QED
      BY <2>2 DEF Promise!Next
  <1>12. CASE /\ State(o) = "paired" /\ State(o)' = "done" /\ Partners(o)' = Partners(o)
              /\ received'[o] = {SenderOf(st) : st \in Partners(o)}
    <2>1. Promise!Deliver(o)
      BY <1>2, <1>4, <1>6, <1>8, <1>12 DEF Promise!Deliver
    <2> QED
      BY <2>1 DEF Promise!Next
  <1>13. CASE /\ State(o) \in {"open", "paired"} /\ State(o)' = "dead"
              /\ Partners(o)' = Partners(o) /\ received'[o] = received[o]
    <2>1. Promise!Die(o)
      BY <1>2, <1>4, <1>5, <1>6, <1>13 DEF Promise!Die
    <2> QED
      BY <2>1 DEF Promise!Next
  <1> QED
    BY <1>9, <1>10, <1>11, <1>12, <1>13 DEF OfferStep

\* A step of one thread's call about the offer o leaves the other offers alone.
LEMMA CallLeavesOthers ==
    ASSUME ReceiverTypes, NEW t \in Threads, NEW c \in Calls, NEW o \in Offers,
           call' = [call EXCEPT ![t] = c],
           call[t].pc = "idle" \/ call[t].o = o,
           c.pc = "idle" \/ c.o = o,
           UNCHANGED <<next_id, receivers>>,
           \A p \in Offers \ {o} :
              /\ listener'[p] = listener[p] /\ connected'[p] = connected[p]
              /\ screen'[p] = screen[p] /\ received'[p] = received[p]
    PROVE  OthersKept(o)
  <1> SUFFICES ASSUME NEW p \in Offers \ {o}
               PROVE  /\ State(p)' = State(p) /\ Partners(p)' = Partners(p)
                      /\ received'[p] = received[p]
    BY DEF OthersKept
  <1>1. call'[t] = c /\ \A u \in Threads \ {t} : call'[u] = call[u]
    BY DEF ReceiverTypes
  <1>2. Holding(p)' = Holding(p)
    BY <1>1 DEF Holding
  <1>3. /\ Alive(p)' <=> Alive(p)
        /\ Accepting(p)' <=> Accepting(p)
        /\ Reading(p)' <=> Reading(p)
    BY <1>1, <1>2 DEF Alive, Accepting, Holding, Reading
  <1>4. Partners(p)' = Partners(p)
    BY DEF Partners, Shown
  <1> QED
    BY <1>3, <1>4 DEF State

\* Steps of the other device, and expiry, are invisible.
LEMMA InvisibleStep ==
    ASSUME UNCHANGED <<next_id, receivers, listener, connected, screen, call, received>>
    PROVE  [Promise!Next]_(Promise!vars)
  <1>1. OfferState' = OfferState
    BY DEF OfferState, Listening, Alive, Accepting, Holding
  <1>2. Partner' = Partner
    BY DEF Partner
  <1> QED
    BY <1>1, <1>2 DEF Promise!vars

\* The facts about an offer that its abstract state depends on.
LEMMA OfferFacts ==
    ASSUME PairingInv, NEW o \in Offers
    PROVE  /\ listener[o] \/ Accepting(o) =>
                screen[o] = {} /\ received[o] = {} /\ connected[o] = None /\ ~Reading(o)
           /\ listener[o] => ~Accepting(o)
           /\ connected[o] # None \/ Reading(o) =>
                received[o] = {} /\ ~listener[o] /\ ~Accepting(o)
  <1>1. Reading(o) => \E st : Shown(o, st)
    BY DEF PairingInv, CallInv, Reading
  <1>2. received[o] # {} \/ connected[o] # None => \E st : Shown(o, st)
    BY DEF PairingInv, OfferInv, OfferFits
  <1>3. screen[o] = {} => ~\E st : Shown(o, st)
    BY DEF Shown
  <1> QED
    BY <1>1, <1>2, <1>3 DEF PairingInv, OfferInv, OfferFits

\* A call that ends while it owned the listener kills its offer.
LEMMA ListenerLost ==
    ASSUME PairingInv, NEW t \in Threads, call[t].pc \in AcceptPcs,
           call' = [call EXCEPT ![t] = Idle],
           UNCHANGED <<next_id, receivers, listener, connected, screen, received>>
    PROVE  [Promise!Next]_(Promise!vars)
  <1> DEFINE o == call[t].o
  <1>1. o \in Offers /\ o \in 1..next_id /\ next_id \in Nat
    BY PairingAssumption DEF PairingInv, CallInv, ReceiverTypes, Offers, AcceptPcs
  <1>2. Accepting(o)
    BY DEF Accepting, Holding, AcceptPcs
  <1>3. call'[t] = Idle /\ \A u \in Threads \ {t} : call'[u] = call[u]
    BY DEF PairingInv, ReceiverTypes
  <1>4. PICK p \in Offers : p = o
    BY <1>1
  <1>5. ~Accepting(p)' /\ (Reading(p)' => Reading(p))
    BY <1>3, <1>4 DEF PairingInv, CallInv, Accepting, Holding, Reading, Idle, AcceptPcs
  <1>6. /\ received[p] = {} /\ connected[p] = None /\ ~Reading(p) /\ ~listener[p]
        /\ Accepting(p)
    BY <1>1, <1>2, <1>4, OfferFacts
  <1>7. State(p) = "open" /\ State(p)' = "dead"
    BY <1>1, <1>4, <1>5, <1>6 DEF State
  <1>8. OfferStep(p)
    BY <1>7 DEF OfferStep, Partners, Shown
  <1>9. OthersKept(p)
    <2>1. Idle \in Calls /\ Idle.pc = "idle"
      BY DEF Idle, Calls
    <2> QED
      BY <1>4, <2>1, CallLeavesOthers DEF PairingInv
  <1>10. received \in [Offers -> SUBSET Scans] /\ received' \in [Offers -> SUBSET Scans]
    BY DEF PairingInv, ReceiverTypes
  <1> QED
    BY <1>8, <1>9, <1>10, AbstractStep

\* sg_start_receiving opens an offer.
LEMMA StartOpens ==
    ASSUME PairingInv, sg_start_receiving
    PROVE  [Promise!Next]_(Promise!vars)
  <1>1. PICK id : id = next_id + 1
    OBVIOUS
  <1>2. /\ next_id < MaxOffers
        /\ next_id' = id /\ receivers' = receivers \union {id}
        /\ listener' = [listener EXCEPT ![id] = TRUE]
        /\ UNCHANGED <<connected, screen, call, received>>
    BY <1>1 DEF sg_start_receiving, NewId, results
  <1>3. next_id \in Nat /\ id \in Offers /\ id > next_id /\ ~(id > id)
    BY <1>1, <1>2, PairingAssumption DEF PairingInv, ReceiverTypes, Offers
  <1>4. listener'[id] /\ \A p \in Offers \ {id} : listener'[p] = listener[p]
    BY <1>2, <1>3 DEF PairingInv, ReceiverTypes
  <1>5. \A p \in Offers : /\ Accepting(p)' <=> Accepting(p)
                          /\ Reading(p)' <=> Reading(p)
                          /\ Holding(p)' = Holding(p)
                          /\ Partners(p)' = Partners(p)
    BY <1>2 DEF Accepting, Reading, Holding, Partners, Shown
  <1>6. State(id) = "unmade"
    BY <1>3 DEF State
  <1>7. received[id] = {}
    BY <1>3 DEF PairingInv, OfferInv, OfferFits
  <1>8. State(id)' = "open"
    BY <1>2, <1>3, <1>4, <1>7 DEF State, Alive
  <1>9. OfferStep(id)
    BY <1>2, <1>3, <1>5, <1>6, <1>8 DEF OfferStep
  <1>10. OthersKept(id)
    <2>1. ASSUME NEW p \in Offers \ {id} PROVE State(p)' = State(p)
      <3>1. p > next_id' <=> p > next_id
        BY <1>1, <1>2, <1>3 DEF Offers
      <3>2. Alive(p)' <=> Alive(p)
        BY <1>2, <1>5 DEF Alive
      <3> QED
        BY <1>2, <1>4, <1>5, <3>1, <3>2 DEF State
    <2> QED
      BY <1>2, <1>5, <2>1 DEF OthersKept
  <1>11. received \in [Offers -> SUBSET Scans] /\ received' \in [Offers -> SUBSET Scans]
    BY <1>2 DEF PairingInv, ReceiverTypes
  <1> QED
    BY <1>3, <1>9, <1>10, <1>11, AbstractStep

\* sg_pairing_forget kills an offer that nobody holds, and changes no other.
LEMMA ForgetKills ==
    ASSUME PairingInv, NEW o \in Offers, sg_pairing_forget(o)
    PROVE  [Promise!Next]_(Promise!vars)
  <1>1. /\ o \in receivers /\ receivers' = receivers \ {o}
        /\ UNCHANGED <<next_id, screen, call, received>>
    BY DEF sg_pairing_forget, results
  <1>2. \A p \in Offers : /\ Accepting(p)' <=> Accepting(p)
                          /\ Reading(p)' <=> Reading(p)
                          /\ Holding(p)' = Holding(p)
                          /\ Partners(p)' = Partners(p)
    BY <1>1 DEF Accepting, Reading, Holding, Partners, Shown
  <1>3. \A p \in Offers \ {o} : connected'[p] = connected[p] /\ listener'[p] = listener[p]
    BY DEF sg_pairing_forget, PairingInv, ReceiverTypes
  <1>4. OthersKept(o)
    BY <1>1, <1>2, <1>3 DEF OthersKept, State, Alive
  <1>5. OfferStep(o)
    <2>1. CASE Holding(o) # {}
      <3>1. UNCHANGED <<connected, listener>>
        BY <2>1 DEF sg_pairing_forget
      <3>2. Alive(o) /\ Alive(o)'
        BY <1>2, <2>1 DEF Alive
      <3>3. State(o)' = State(o)
        BY <1>1, <1>2, <3>1, <3>2 DEF State
      <3> QED
        BY <1>1, <1>2, <3>3 DEF OfferStep
    <2>2. CASE Holding(o) = {}
      <3>1. connected'[o] = None /\ ~listener'[o]
        BY <2>2 DEF sg_pairing_forget, PairingInv, ReceiverTypes
      <3>2. ~Accepting(o) /\ ~Reading(o) /\ ~Accepting(o)' /\ ~Reading(o)'
        BY <1>2, <2>2 DEF Accepting, Reading, Holding
      <3>3. ~(o > next_id) /\ ~(o > next_id)'
        BY <1>1 DEF PairingInv, ReceiverTypes
      <3>4. State(o)' = IF received[o] # {} THEN "done" ELSE "dead"
        BY <1>1, <3>1, <3>2, <3>3 DEF State
      <3>5. State(o) \in {"done", "open", "paired", "dead"}
            /\ (State(o) = "done" <=> received[o] # {})
        BY <3>3 DEF State
      <3> QED
        BY <1>1, <1>2, <3>4, <3>5 DEF OfferStep
    <2> QED
      BY <2>1, <2>2
  <1>6. received \in [Offers -> SUBSET Scans] /\ received' \in [Offers -> SUBSET Scans]
    BY <1>1 DEF PairingInv, ReceiverTypes
  <1> QED
    BY <1>4, <1>5, <1>6, AbstractStep

\* take_receiver is invisible: a registered offer is alive already.
LEMMA TakeInvisible ==
    ASSUME PairingInv, NEW t \in Threads, NEW o \in Offers, NEW pc \in {"await", "receive"},
           take_receiver(t, o, pc)
    PROVE  [Promise!Next]_(Promise!vars)
  <1> DEFINE c == [pc |-> pc, o |-> o, st |-> None]
  <1>1. /\ call[t].pc = "idle" /\ o \in receivers /\ call' = [call EXCEPT ![t] = c]
        /\ UNCHANGED <<next_id, receivers, listener, connected, screen, received>>
    BY DEF take_receiver, results, registry
  <1>2. c \in Calls /\ c.pc \notin AcceptPcs /\ c.pc # "reading" /\ c.o = o
    BY PairingAssumption DEF Calls, Offers, AcceptPcs
  <1> HIDE DEF c
  <1>3. OthersKept(o)
    BY <1>1, <1>2, CallLeavesOthers DEF PairingInv
  <1>4. call'[t] = c /\ \A u \in Threads \ {t} : call'[u] = call[u]
    BY <1>1 DEF PairingInv, ReceiverTypes
  <1>5. /\ Accepting(o)' <=> Accepting(o)
        /\ Reading(o)' <=> Reading(o)
    BY <1>1, <1>2, <1>4 DEF Accepting, Holding, Reading, AcceptPcs
  <1>6. Alive(o) /\ Alive(o)'
    BY <1>1 DEF Alive
  <1>7. OfferStep(o)
    BY <1>1, <1>5, <1>6 DEF OfferStep, State, Partners, Shown
  <1>8. received \in [Offers -> SUBSET Scans] /\ received' \in [Offers -> SUBSET Scans]
    BY <1>1 DEF PairingInv, ReceiverTypes
  <1> QED
    BY <1>3, <1>7, <1>8, AbstractStep

\* The two lemmas together: a step of one thread's call.
LEMMA CallIsOffersStep ==
    ASSUME PairingInv, NEW t \in Threads, NEW c \in Calls, NEW o \in Offers,
           call' = [call EXCEPT ![t] = c], call[t].o = o, c.pc = "idle" \/ c.o = o,
           UNCHANGED <<next_id, receivers>>,
           \A p \in Offers \ {o} :
              /\ listener'[p] = listener[p] /\ connected'[p] = connected[p]
              /\ screen'[p] = screen[p] /\ received'[p] = received[p],
           received' \in [Offers -> SUBSET Scans], OfferStep(o)
    PROVE  [Promise!Next]_(Promise!vars)
  <1>1. OthersKept(o)
    BY CallLeavesOthers DEF PairingInv
  <1>2. received \in [Offers -> SUBSET Scans]
    BY DEF PairingInv, ReceiverTypes
  <1> QED
    BY <1>1, <1>2, AbstractStep

\* What one thread's new call changes in the views of its offer.
LEMMA CallViews ==
    ASSUME PairingInv, NEW t \in Threads, NEW c \in Calls, NEW o \in Offers,
           call' = [call EXCEPT ![t] = c], call[t].o = o, call[t].pc # "idle",
           c.pc = "idle" \/ c.o = o
    PROVE  /\ o \in 1..next_id /\ next_id \in Nat /\ Alive(o)
           /\ c.pc # "idle" => Alive(o)'
           /\ c.pc \in AcceptPcs => Accepting(o)'
           /\ c.pc = "reading" => Reading(o)'
           /\ call[t].pc \in AcceptPcs => Accepting(o) /\ (Accepting(o)' => c.pc \in AcceptPcs)
           /\ call[t].pc = "reading" => Reading(o) /\ (Reading(o)' => c.pc = "reading")
           /\ call[t].pc \notin AcceptPcs /\ c.pc \notin AcceptPcs =>
                (Accepting(o)' <=> Accepting(o))
           /\ call[t].pc # "reading" /\ c.pc # "reading" => (Reading(o)' <=> Reading(o))
  <1>1. call'[t] = c /\ \A u \in Threads \ {t} : call'[u] = call[u]
    BY DEF PairingInv, ReceiverTypes
  <1>2. o \in 1..next_id /\ next_id \in Nat
    BY PairingAssumption DEF PairingInv, CallInv, ReceiverTypes
  <1>3. t \in Holding(o) /\ Alive(o)
    BY DEF Alive, Holding
  <1>4. c.pc # "idle" => (t \in Holding(o))' /\ Alive(o)'
    BY <1>1 DEF Alive, Holding
  <1>5. c.pc \in AcceptPcs => Accepting(o)'
    BY <1>1 DEF Accepting, Holding, AcceptPcs
  <1>6. c.pc = "reading" => Reading(o)'
    BY <1>1 DEF Reading
  <1>7. call[t].pc \in AcceptPcs => Accepting(o)
    BY <1>3 DEF Accepting, AcceptPcs
  <1>8. ASSUME call[t].pc \in AcceptPcs, Accepting(o)' PROVE c.pc \in AcceptPcs
    BY <1>1, <1>8 DEF Accepting, Holding, PairingInv, CallInv, AcceptPcs
  <1>9. ASSUME call[t].pc = "reading" PROVE Reading(o) /\ (Reading(o)' => c.pc = "reading")
    BY <1>1, <1>9 DEF Reading, PairingInv, CallInv
  <1>10. ASSUME call[t].pc \notin AcceptPcs, c.pc \notin AcceptPcs
         PROVE  Accepting(o)' <=> Accepting(o)
    BY <1>1, <1>10 DEF Accepting, Holding, AcceptPcs
  <1>11. ASSUME call[t].pc # "reading", c.pc # "reading" PROVE Reading(o)' <=> Reading(o)
    BY <1>1, <1>11 DEF Reading
  <1> QED
    BY <1>2, <1>3, <1>4, <1>5, <1>6, <1>7, <1>8, <1>9, <1>10, <1>11

\* A call that ends without its code shown, or before it could wait.
LEMMA EndIsIdle == Idle \in Calls /\ Idle.pc = "idle"
  BY DEF Idle, Calls

\* await_connection: the offer goes on listening, or it dies of its age.
LEMMA AwaitAbstract ==
    ASSUME PairingInv, NEW t \in Threads, await_connection(t)
    PROVE  [Promise!Next]_(Promise!vars)
  <1>1. PICK o \in Offers : o = call[t].o
    BY PairingAssumption DEF PairingInv, CallInv, ReceiverTypes, Offers, await_connection
  <1>2. /\ call[t].pc = "await" /\ call[t].pc # "idle"
        /\ call[t].pc \notin AcceptPcs /\ call[t].pc # "reading"
        /\ listener' = [listener EXCEPT ![o] = listener[o] /\ FALSE]
        /\ UNCHANGED <<next_id, receivers, connected, screen, received>>
    BY <1>1 DEF await_connection, Taken, registry, results, AcceptPcs
  <1>3. ~listener'[o] /\ \A p \in Offers \ {o} : listener'[p] = listener[p]
    BY <1>2 DEF PairingInv, ReceiverTypes
  <1>4. received' \in [Offers -> SUBSET Scans]
    BY <1>2 DEF PairingInv, ReceiverTypes
  <1>5. CASE ~listener[o] \/ o \in expired
    <2>1. call' = [call EXCEPT ![t] = Idle]
      BY <1>1, <1>5 DEF await_connection, Return
    <2>2. /\ o \in 1..next_id /\ next_id \in Nat /\ Alive(o)
          /\ Accepting(o)' <=> Accepting(o)
          /\ Reading(o)' <=> Reading(o)
      <3>1. Idle.pc \notin AcceptPcs /\ Idle.pc # "reading"
        BY DEF Idle, AcceptPcs
      <3> QED
        BY <1>1, <1>2, <2>1, <3>1, EndIsIdle, CallViews
    <2>3. OfferStep(o)
      <3>1. CASE ~listener[o]
        <4>1. State(o)' = State(o)
          BY <1>2, <1>3, <2>2, <3>1 DEF State
        <4> QED
          BY <1>2, <4>1 DEF OfferStep, Partners, Shown
      <3>2. CASE listener[o]
        <4>1. received[o] = {} /\ connected[o] = None /\ ~Reading(o) /\ ~Accepting(o)
          BY <3>2, OfferFacts
        <4>2. State(o) = "open" /\ State(o)' = "dead"
          BY <1>2, <1>3, <2>2, <3>2, <4>1 DEF State
        <4> QED
          BY <1>2, <4>2 DEF OfferStep, Partners, Shown
      <3> QED
        BY <3>1, <3>2
    <2> QED
      BY <1>1, <1>2, <1>3, <1>4, <2>1, <2>3, EndIsIdle, CallIsOffersStep
  <1>6. CASE listener[o] /\ ~(o \in expired)
    <2> DEFINE c == [call[t] EXCEPT !.pc = "accepting"]
    <2>1. call' = [call EXCEPT ![t] = c]
      BY <1>1, <1>6 DEF await_connection
    <2>2. c \in Calls /\ c.pc = "accepting" /\ c.o = o
      BY <1>1 DEF PairingInv, ReceiverTypes, Calls, AcceptPcs
    <2> HIDE DEF c
    <2>3. /\ o \in 1..next_id /\ next_id \in Nat /\ Alive(o) /\ Accepting(o)'
      BY <1>1, <1>2, <2>1, <2>2, CallViews DEF AcceptPcs
    <2>4. received[o] = {}
      BY <1>6, OfferFacts
    <2>5. State(o) = "open" /\ State(o)' = "open"
      BY <1>2, <1>6, <2>3, <2>4 DEF State
    <2>6. OfferStep(o)
      BY <1>2, <2>5 DEF OfferStep, Partners, Shown
    <2> QED
      BY <1>1, <1>2, <1>3, <1>4, <2>1, <2>2, <2>6, CallIsOffersStep
  <1> QED
    BY <1>5, <1>6

\* accept is invisible: the call goes on owning the listener.
LEMMA AcceptAbstract ==
    ASSUME PairingInv, NEW t \in Threads, accept(t)
    PROVE  [Promise!Next]_(Promise!vars)
  <1>1. PICK o \in Offers : o = call[t].o
    <2>1. call[t].pc = "accepting"
      BY DEF accept
    <2>2. call[t].o \in 1..next_id /\ next_id \in 0..MaxOffers
      BY <2>1 DEF PairingInv, CallInv, ReceiverTypes
    <2> QED
      BY <2>2, PairingAssumption DEF Offers
  <1>2. PICK k \in 1..Len(backlog[o]) :
            /\ call' = [call EXCEPT ![t].pc = "handshake", ![t].st = backlog[o][k]]
            /\ stream' = [stream EXCEPT ![backlog[o][k]].server = "accepted"]
            /\ backlog' = [backlog EXCEPT ![o] = RemoveAt(@, k)]
    BY <1>1 DEF accept
  <1>3. /\ call[t].pc = "accepting" /\ call[t].pc # "idle" /\ call[t].pc \in AcceptPcs
        /\ UNCHANGED <<next_id, receivers, listener, connected, screen, received>>
    BY DEF accept, registry, results, AcceptPcs
  <1> DEFINE c == [call[t] EXCEPT !.pc = "handshake", !.st = backlog[o][k]]
  <1>4. call' = [call EXCEPT ![t] = c]
    BY <1>2
  <1>5. c \in Calls /\ c.pc = "handshake" /\ c.o = o
    <2>1. backlog[o][k] \in Streams /\ call[t] \in Calls
      BY <1>2 DEF PairingInv, ReceiverTypes
    <2> QED
      BY <1>1, <2>1 DEF Calls, AcceptPcs
  <1> HIDE DEF c
  <1>6. o \in 1..next_id /\ next_id \in Nat /\ Accepting(o) /\ Accepting(o)'
    BY <1>1, <1>3, <1>4, <1>5, CallViews DEF AcceptPcs
  <1>7. State(o)' = State(o)
    BY <1>3, <1>6 DEF State
  <1>8. OfferStep(o)
    BY <1>3, <1>7 DEF OfferStep, Partners, Shown
  <1>9. received' \in [Offers -> SUBSET Scans]
    BY <1>3 DEF PairingInv, ReceiverTypes
  <1> QED
    BY <1>1, <1>3, <1>4, <1>5, <1>8, <1>9, CallIsOffersStep

\* handshake pairs the offer with the connection whose code it shows, unless nobody holds the
\* offer any more.
LEMMA HandshakeAbstract ==
    ASSUME PairingInv, NEW t \in Threads, handshake(t)
    PROVE  [Promise!Next]_(Promise!vars)
  <1>1. /\ call[t].pc = "handshake" /\ call[t].pc # "idle" /\ call[t].pc \in AcceptPcs
        /\ UNCHANGED <<next_id, receivers, listener, received>>
        /\ call' = [call EXCEPT ![t] = Idle]
    BY DEF handshake, registry, results, AcceptPcs
  <1>2. call[t].o \in 1..next_id /\ next_id \in 0..MaxOffers
        /\ call[t].st \in Streams /\ call[t].st # None
    BY <1>1 DEF PairingInv, CallInv, ReceiverTypes, Calls
  <1>3. PICK o \in Offers : o = call[t].o
    BY <1>2, PairingAssumption DEF Offers
  <1>4. PICK st \in Streams : st = call[t].st
    BY <1>2
  <1> DEFINE last == ~(o \in receivers \/ Holding(o) \ {t} # {})
  <1>5. /\ screen' = [screen EXCEPT ![o] = @ \union {<<offering(o), st, o>>}]
        /\ connected' = [connected EXCEPT ![o] = IF last THEN None ELSE st]
    BY <1>3, <1>4, BothComplete DEF handshake
  <1> HIDE DEF last
  <1>6. /\ o \in 1..next_id /\ next_id \in Nat /\ Accepting(o) /\ ~Accepting(o)'
        /\ Reading(o)' <=> Reading(o)
    <2>1. Idle.pc \notin AcceptPcs /\ Idle.pc # "reading"
      BY DEF Idle, AcceptPcs
    <2> QED
      BY <1>1, <1>3, <2>1, EndIsIdle, CallViews
  <1>7. screen[o] = {} /\ received[o] = {} /\ connected[o] = None /\ ~Reading(o) /\ ~listener[o]
    BY <1>6, OfferFacts
  <1>8. screen'[o] = {<<offering(o), st, o>>} /\ \A p \in Offers \ {o} : screen'[p] = screen[p]
    BY <1>5, <1>7 DEF PairingInv, ReceiverTypes
  <1>9. \A p \in Offers \ {o} : connected'[p] = connected[p]
    BY <1>5 DEF PairingInv, ReceiverTypes
  <1>10. Partners(o)' = {st}
    <2>1. \A su \in Streams : <<offering(o), su, o>> \in screen'[o] <=> su = st
      BY <1>8, CodeInjective
    <2> QED
      BY <2>1 DEF Partners, Shown
  <1>11. State(o) = "open"
    BY <1>6, <1>7 DEF State
  <1>12. State(o)' \in {"paired", "dead"}
    BY <1>1, <1>6, <1>7 DEF State
  <1>13. OfferStep(o)
    BY <1>1, <1>10, <1>11, <1>12 DEF OfferStep
  <1>14. received' \in [Offers -> SUBSET Scans]
    BY <1>1 DEF PairingInv, ReceiverTypes
  <1> QED
    BY <1>1, <1>3, <1>8, <1>9, <1>13, <1>14, EndIsIdle, CallIsOffersStep

\* receive: the connection passes to the call that reads it; without one, the call returns and
\* the offer may lose its last holder.
LEMMA ReceiveAbstract ==
    ASSUME PairingInv, NEW t \in Threads, receive(t)
    PROVE  [Promise!Next]_(Promise!vars)
  <1>1. /\ call[t].pc = "receive" /\ call[t].pc # "idle" /\ call[t].pc \notin AcceptPcs
        /\ call[t].pc # "reading"
        /\ UNCHANGED <<next_id, receivers, listener, screen, received>>
    BY DEF receive, registry, results, AcceptPcs
  <1>2. call[t].o \in 1..next_id /\ next_id \in 0..MaxOffers
    BY <1>1 DEF PairingInv, CallInv, ReceiverTypes
  <1>3. PICK o \in Offers : o = call[t].o
    BY <1>2, PairingAssumption DEF Offers
  <1>4. received' \in [Offers -> SUBSET Scans]
    BY <1>1 DEF PairingInv, ReceiverTypes
  <1>5. CASE connected[o] = None
    <2>1. call' = [call EXCEPT ![t] = Idle] /\ UNCHANGED connected
      BY <1>3, <1>5 DEF receive, Return
    <2>2. /\ o \in 1..next_id /\ next_id \in Nat /\ Alive(o)
          /\ Accepting(o)' <=> Accepting(o)
          /\ Reading(o)' <=> Reading(o)
      <3>1. Idle.pc \notin AcceptPcs /\ Idle.pc # "reading"
        BY DEF Idle, AcceptPcs
      <3> QED
        BY <1>1, <1>3, <2>1, <3>1, EndIsIdle, CallViews
    <2>3. State(o)' = State(o) \/ (State(o) = "open" /\ State(o)' = "dead")
      <3>1. CASE ~listener[o] \/ Alive(o)'
        BY <1>1, <2>1, <2>2, <3>1 DEF State
      <3>2. CASE listener[o] /\ ~Alive(o)'
        <4>1. received[o] = {} /\ connected[o] = None /\ ~Reading(o) /\ ~Accepting(o)
          BY <3>2, OfferFacts
        <4> QED
          BY <1>1, <2>1, <2>2, <3>2, <4>1 DEF State
      <3> QED
        BY <3>1, <3>2
    <2>4. OfferStep(o)
      BY <1>1, <2>3 DEF OfferStep, Partners, Shown
    <2> QED
      BY <1>1, <1>3, <1>4, <2>1, <2>4, EndIsIdle, CallIsOffersStep
  <1>6. CASE connected[o] # None
    <2> DEFINE c == [call[t] EXCEPT !.pc = "reading", !.st = connected[o]]
    <2>1. call' = [call EXCEPT ![t] = c] /\ connected' = [connected EXCEPT ![o] = None]
      BY <1>3, <1>6 DEF receive
    <2>2. c \in Calls /\ c.pc = "reading" /\ c.o = o
      BY <1>3 DEF PairingInv, ReceiverTypes, Calls
    <2> HIDE DEF c
    <2>3. /\ o \in 1..next_id /\ next_id \in Nat /\ Reading(o)'
          /\ Accepting(o)' <=> Accepting(o)
      <3>1. c.pc \notin AcceptPcs
        BY <2>2 DEF AcceptPcs
      <3> QED
        BY <1>1, <1>3, <2>1, <2>2, <3>1, CallViews
    <2>4. received[o] = {} /\ ~listener[o] /\ ~Accepting(o)
      BY <1>6, OfferFacts
    <2>5. State(o) = "paired" /\ State(o)' = "paired"
      BY <1>1, <1>6, <2>3, <2>4 DEF State
    <2>6. OfferStep(o)
      BY <1>1, <2>5 DEF OfferStep, Partners, Shown
    <2>7. \A p \in Offers \ {o} : connected'[p] = connected[p]
      BY <2>1 DEF PairingInv, ReceiverTypes
    <2> QED
      BY <1>1, <1>3, <1>4, <2>1, <2>2, <2>6, <2>7, CallIsOffersStep
  <1> QED
    BY <1>5, <1>6

\* accept_transfer delivers what the paired device sent, or the offer dies.
LEMMA AcceptTransferAbstract ==
    ASSUME PairingInv, NEW t \in Threads, accept_transfer(t)
    PROVE  [Promise!Next]_(Promise!vars)
  <1>1. /\ call[t].pc = "reading" /\ call[t].pc # "idle" /\ call[t].pc \notin AcceptPcs
        /\ call' = [call EXCEPT ![t] = Idle]
        /\ UNCHANGED <<next_id, receivers, listener, connected, screen>>
    BY DEF accept_transfer, Return, registry, AcceptPcs
  <1>2. /\ call[t].o \in 1..next_id /\ next_id \in 0..MaxOffers
        /\ call[t].st \in Streams /\ call[t].st # None
        /\ Shown(call[t].o, call[t].st)
    BY <1>1 DEF PairingInv, CallInv, ReceiverTypes, Calls
  <1>3. PICK o \in Offers : o = call[t].o
    BY <1>2, PairingAssumption DEF Offers
  <1>4. PICK st \in Streams : st = call[t].st
    BY <1>2
  <1>5. \/ UNCHANGED received
        \/ received' = [received EXCEPT ![o] = @ \union {st[1]}]
    BY <1>3, <1>4 DEF accept_transfer, results
  <1>6. /\ o \in 1..next_id /\ next_id \in Nat /\ Reading(o) /\ ~Reading(o)'
        /\ Accepting(o)' <=> Accepting(o)
    <2>1. Idle.pc \notin AcceptPcs /\ Idle.pc # "reading"
      BY DEF Idle, AcceptPcs
    <2> QED
      BY <1>1, <1>3, <2>1, EndIsIdle, CallViews
  <1>7. received[o] = {} /\ ~listener[o] /\ ~Accepting(o)
    BY <1>6, OfferFacts
  <1>8. connected[o] = None
    BY <1>6 DEF PairingInv, OfferInv, OfferFits
  <1>9. State(o) = "paired"
    BY <1>6, <1>7 DEF State
  <1>10. Partners(o)' = Partners(o)
    BY <1>1 DEF Partners, Shown
  <1>11. st[1] \in Scans /\ received \in [Offers -> SUBSET Scans]
    BY StreamFacts DEF PairingInv, ReceiverTypes
  <1>12. received' \in [Offers -> SUBSET Scans]
    BY <1>5, <1>11
  <1>13. \A p \in Offers \ {o} : received'[p] = received[p]
    BY <1>5, <1>11
  <1>14. CASE UNCHANGED received
    <2>1. State(o)' = "dead"
      BY <1>1, <1>6, <1>7, <1>8, <1>14 DEF State
    <2>2. OfferStep(o)
      BY <1>9, <1>10, <1>14, <2>1 DEF OfferStep
    <2> QED
      BY <1>1, <1>3, <1>12, <1>13, <2>2, EndIsIdle, CallIsOffersStep
  <1>15. CASE received' = [received EXCEPT ![o] = @ \union {st[1]}]
    <2>1. received'[o] = {st[1]}
      BY <1>7, <1>11, <1>15
    <2>2. Partners(o) = {st}
      <3>1. \A c, d \in screen[o] : c = d
        BY DEF PairingInv, OfferInv, OfferFits
      <3>2. \A su \in Streams : Shown(o, su) <=> su = st
        BY <1>2, <1>3, <1>4, <3>1, CodeInjective DEF Shown
      <3> QED
        BY <3>2 DEF Partners
    <2>3. received'[o] = {SenderOf(su) : su \in Partners(o)}
      BY <2>1, <2>2 DEF SenderOf
    <2>4. State(o)' = "done"
      BY <1>1, <1>6, <2>1 DEF State
    <2>5. OfferStep(o)
      BY <1>9, <1>10, <2>3, <2>4 DEF OfferStep
    <2> QED
      BY <1>1, <1>3, <1>12, <1>13, <2>5, EndIsIdle, CallIsOffersStep
  <1> QED
    BY <1>5, <1>14, <1>15

\* Every step of the pairing is a step of OneTransfer, or none.
LEMMA NextIsAbstract ==
    ASSUME PairingInv, [Next]_vars
    PROVE  [Promise!Next]_(Promise!vars)
  <1>1. CASE sg_start_receiving
    BY <1>1, StartOpens
  <1>2. ASSUME NEW o \in Offers, expire(o) PROVE [Promise!Next]_(Promise!vars)
    <2>1. UNCHANGED <<next_id, receivers, listener, connected, screen, call, received>>
      BY <1>2 DEF expire, registry, results
    <2> QED
      BY <2>1, InvisibleStep
  <1>3. ASSUME NEW o \in Offers, sg_pairing_forget(o) PROVE [Promise!Next]_(Promise!vars)
    BY <1>3, ForgetKills
  <1>4. ASSUME NEW t \in Threads, Returning(t) PROVE [Promise!Next]_(Promise!vars)
    <2>1. CASE handshake_failed(t)
      <3>1. /\ call[t].pc \in AcceptPcs /\ call' = [call EXCEPT ![t] = Idle]
            /\ UNCHANGED <<next_id, receivers, listener, connected, screen, received>>
        BY <2>1 DEF handshake_failed, Return, registry, results, AcceptPcs
      <3> QED
        BY <3>1, ListenerLost
    <2>2. CASE accept_times_out(t)
      <3>1. /\ call[t].pc \in AcceptPcs /\ call' = [call EXCEPT ![t] = Idle]
            /\ UNCHANGED <<next_id, receivers, listener, connected, screen, received>>
        BY <2>2 DEF accept_times_out, Return, registry, results, AcceptPcs, Bounded
      <3> QED
        BY <3>1, ListenerLost
    <2> QED
      BY <1>4, <2>1, <2>2, AwaitAbstract, AcceptAbstract, HandshakeAbstract, ReceiveAbstract,
         AcceptTransferAbstract DEF Returning
  <1>5. ASSUME NEW t \in Threads, NEW o \in Offers, NEW pc \in {"await", "receive"},
               take_receiver(t, o, pc)
        PROVE  [Promise!Next]_(Promise!vars)
    BY <1>5, TakeInvisible
  <1>6. ASSUME UNCHANGED rvars PROVE [Promise!Next]_(Promise!vars)
    <2>1. UNCHANGED <<next_id, receivers, listener, connected, screen, call, received>>
      BY <1>6 DEF rvars, registry, results
    <2> QED
      BY <2>1, InvisibleStep
  <1>7. ASSUME NEW s \in Scans, Dialing(s) \/ sg_sender_send(s) \/ forget_sender(s)
        PROVE  UNCHANGED rvars
    BY <1>7 DEF Dialing, connect, read_key, attempt_fails, sg_sender_send, forget_sender
  <1>8. ASSUME NEW s \in Scans, NEW o \in Offers, sg_scan_pairing_code(s, o)
        PROVE  UNCHANGED rvars
    BY <1>8 DEF sg_scan_pairing_code
  <1>9. CASE UNCHANGED vars
    BY <1>6, <1>9 DEF vars
  <1> QED
    BY <1>1, <1>2, <1>3, <1>4, <1>5, <1>6, <1>7, <1>8, <1>9 DEF Next

\* Every pairing offer keeps the promise of OneTransfer, for any number of offers, threads, scans
\* and addresses: its sockets pair this device with at most one connection, whose code it shows,
\* and at most one inventory comes through it, the one that connection's scan sent; an offer that
\* is spent, expired or given up never comes back (transfer.rs:69, transfer.rs:242).
THEOREM OfferKeepsPromise == Spec => OneTransferPerOffer
  <1>1. Init => Promise!Init
    <2> SUFFICES ASSUME Init PROVE Promise!Init
      OBVIOUS
    <2>1. \A o \in Offers : State(o) = "unmade" /\ Partners(o) = {}
      BY PairingAssumption DEF Init, State, Partners, Shown, Offers
    <2> QED
      BY <2>1, MappingByOffer DEF Promise!Init, Init
  <1>2. PairingInv /\ [Next]_vars => [Promise!Next]_(Promise!vars)
    BY NextIsAbstract
  <1> QED
    BY <1>1, <1>2, PairingInvariant, PTL DEF Spec, OneTransferPerOffer, Promise!Spec

=============================================================================
