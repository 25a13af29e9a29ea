------------------------------ MODULE Readings ------------------------------
(***************************************************************************)
(* From a host's files to its card: one host is probed, its collectors     *)
(* parse what it answers to each refresh, the answers become points, and   *)
(* the points a snapshot with its verdict, which connection states are     *)
(* published into (crates/sg-ffi/src/lib.rs, poll_loop).  Collectors has   *)
(* the parsers, View the presentation; TargetRuntime studies the rates and *)
(* the store under clocks, restarts and broken parsers, so refreshes are   *)
(* one second apart here and parsers do not fail.                          *)
(*                                                                         *)
(* An answer holds, beside what the parser reads, which devices are        *)
(* hardware and which are built on others: the truth the properties        *)
(* compare with, which the probes for it may miss.                         *)
(***************************************************************************)
EXTENDS View

CONSTANTS
  Hosts,      \* the sets of readable paths a host may have
  Machines,   \* hosts by what they answer: of some collectors, a sequence of answers
  ClockTicks, Cores,   \* what the host says of itself
  Window,     \* points a chart keeps
  Errors,     \* ways in which connecting fails
  MaxTick, MaxSessions \* bounds for model checking

ASSUME BoundsAssumption == /\ {Window, MaxTick, MaxSessions} \subseteq Nat \ {0}
                           /\ Errors \subseteq DOMAIN MessageOf

ASSUME HostsAssumption ==
    /\ ClockTicks \in Nat \ {0} /\ Cores \in Nat
    /\ \A m \in DOMAIN Machines : \A s \in DOMAIN Machines[m] :
         s \in Sources /\ \A f \in Range(Machines[m][s]) : is_answer(s, f)

VARIABLES
  readable,   \* the paths the host can read
  machine,    \* which of the machines it is
  caps,       \* what the probe found
  session,    \* connected
  sessions,   \* connections so far
  tick,       \* refreshes of this session
  answers, before,   \* of the last refresh and the one before
  previous,   \* baselines of counters
  store,      \* descriptors and points
  snapshot    \* what is shown

vars == <<readable, machine, caps, session, sessions, tick, answers, before, previous, store,
          snapshot>>

\* The collectors that get an answer.
focus == DOMAIN Machines[machine]

Empty == [descriptors |-> {}, history |-> <<>>]

Init ==
    /\ readable \in Hosts
    /\ machine \in DOMAIN Machines
    /\ caps = probe({}, {}, {}, {})
    /\ session = FALSE
    /\ sessions = 0
    /\ tick = 0
    /\ answers = <<>>
    /\ before = <<>>
    /\ previous = <<>>
    /\ store = Empty
    /\ snapshot = placeholder("Idle")

-----------------------------------------------------------------------------
(* One refresh. *)

applicable == {s \in Sources : satisfied_by(s, caps)}

\* What the collectors emit: those that get no answer emit nothing.
Emitted(f) ==
    LET of(s) == When(s \in applicable \intersect focus, parse(s, f[s], caps))
    IN  ForEach(builtin_sources, of)

\* A series of descriptors is keyed by its identity: the last of two wins.
Described(es) ==
    {[es[i] EXCEPT !.val = 0] :
        i \in {k \in 1..Len(es) : \A j \in (k + 1)..Len(es) : Id(es[j]) # Id(es[k])}}

Rate(e, base) == ((e.val - base.val) * e.num) \div e.den

\* Emission by emission: a counter is compared with its baseline and becomes the next one.
process_sample(acc, e) ==
    LET id == Id(e)
        base == acc.previous[id]
        now(v) == [tick |-> tick + 1, val |-> v]
        rated(v) == [acc.points EXCEPT ![id] = Append(@, now(v))]
        kept == [acc.previous EXCEPT ![id] = now(e.val)]
    IN  IF e.kind # "counter" THEN [previous |-> acc.previous, points |-> rated(e.val)]
        ELSE IF base.tick = 0 \/ base.tick = tick + 1 \/ e.val < base.val
             THEN [previous |-> kept, points |-> acc.points]
             ELSE [previous |-> kept, points |-> rated(Rate(e, base))]

\* Baselines of series that are not described are dropped first.  Points are kept by series.
Ids(es) == {Id(es[i]) : i \in 1..Len(es)}
process_samples(es) ==
    LET base == [id \in Ids(es) |-> IF id \in DOMAIN previous THEN previous[id]
                                                              ELSE [tick |-> 0, val |-> 0]]
        upTo[n \in 0..Len(es)] ==
            IF n = 0 THEN [previous |-> base, points |-> [id \in Ids(es) |-> <<>>]]
                     ELSE process_sample(upTo[n - 1], es[n])
    IN  upTo[Len(es)]

\* The points that fit in a window.
Newest(h) == SubSeq(h, Larger(1, Len(h) - Window + 1), Len(h))

\* ingest and retain_series: every described series keeps the newest points of its window.
ingest(es, points) ==
    LET old(id) == IF id \in DOMAIN store.history THEN store.history[id] ELSE <<>>
    IN  [descriptors |-> Described(es),
         history |-> [id \in Ids(es) |-> Newest(old(id) \o points[id])]]

-----------------------------------------------------------------------------
(* The poll loop. *)

publish(state, error) == snapshot' = set_state(snapshot, state, error)

begin ==
    /\ ~session
    /\ snapshot.state # "Connecting"
    /\ sessions < MaxSessions
    /\ publish("Connecting", "Io")
    /\ UNCHANGED <<readable, machine, caps, session, sessions, tick, answers, before, previous,
                   store>>

connect ==
    /\ snapshot.state = "Connecting"
    /\ ~session
    /\ caps' = probe(readable, {ClockTicks}, {1}, {Cores})
    /\ session' = TRUE
    /\ sessions' = sessions + 1
    /\ tick' = 0
    /\ answers' = <<>>
    /\ before' = <<>>
    /\ previous' = <<>>
    /\ store' = Empty
    /\ UNCHANGED <<readable, machine, snapshot>>

connect_fails(error) ==
    /\ snapshot.state = "Connecting"
    /\ ~session
    /\ publish("Failed", error)
    /\ UNCHANGED <<readable, machine, caps, session, sessions, tick, answers, before, previous,
                   store>>

\* The first refresh of a session is not shown: it has no rates yet.
refresh(f) ==
    /\ session
    /\ tick < MaxTick
    /\ \E es \in {Emitted(f)} : \E done \in {process_samples(es)} :
         /\ previous' = done.previous
         /\ store' = ingest(es, done.points)
    /\ tick' = tick + 1
    /\ answers' = f
    /\ before' = answers
    /\ IF tick = 0 THEN publish("Online", "Io") ELSE snapshot' = build_snapshot(store', caps)
    /\ UNCHANGED <<readable, machine, caps, session, sessions>>

refresh_fails(error) ==
    /\ session
    /\ session' = FALSE
    /\ previous' = <<>>
    /\ \/ publish("Reconnecting", error)
       \/ publish("Failed", error)
    /\ UNCHANGED <<readable, machine, caps, sessions, tick, answers, before, store>>

\* The answers to one refresh: of each collector's, one.
Answers ==
    LET of(t) == Machines[machine][t]
        choices == {k \in [focus -> UNION {DOMAIN of(t) : t \in focus}] :
                      \A t \in focus : k[t] \in DOMAIN of(t)}
    IN  {[t \in focus |-> of(t)[k[t]]] : k \in choices}

Next ==
    \/ begin
    \/ connect
    \/ \E f \in Answers : refresh(f)
    \/ \E error \in Errors : connect_fails(error) \/ refresh_fails(error)

Spec == Init /\ [][Next]_vars

-----------------------------------------------------------------------------
(* Properties. *)

\* What the snapshot shows comes from the store as it is now.
Shown == session /\ tick > 1

\* What hardware moved between two refreshes.
HardwareMoved(now, then, name(_), bytes(_)) ==
    LET earlier(d) == {bytes(x) : x \in {y \in then : name(y) = name(d)}}
    IN  FoldSet(LAMBDA d, n : n + Larger(0, bytes(d) - or_else(earlier(d), 0)), 0,
                {d \in now : d.hw})
Points(s, id) == IF id \in DOMAIN s.history THEN Range(s.history[id]) ELSE {}
PointNow(met) == {p \in Points(store, <<Host, met>>) : p.tick = tick}
Answered(s) == Shown /\ s \in focus \intersect applicable

\* The probes are commands of their own, made after the counters are read: they may fail, and the
\* devices may have changed.  Here they tell what they are for.
VolumesTold(f) == f.mapped \subseteq f.stacked
PortsTold(f) ==
    LET ports == {i \in Range(f.ifaces) : i.name # "lo"}
        real == {i \in ports : i.hw}
    IN  IF f.physical = {} THEN real = ports ELSE f.physical = {i.name : i \in real}

\* The host's own totals are hardware's: what the dashboard says was read or received between two
\* refreshes is at most what disks and network ports moved, however partitions, volumes on top of
\* disks, bridges and virtual ports repeat the same bytes, and whichever of them come and go;
\* provided that the probes of this refresh told devices apart, and that those for ports told
\* nothing or the truth the time before.
HostTotalsAreReal ==
    /\ Answered("diskio") /\ VolumesTold(answers.diskio) =>
         \A p \in PointNow("disk_read") :
           p.val <= HardwareMoved(Range(answers.diskio.disks), Range(before.diskio.disks),
                                  LAMBDA d : d.name, LAMBDA d : d.reads)
    /\ Answered("network") /\ PortsTold(answers.network)
         /\ (before.network.physical = {} \/ PortsTold(before.network)) =>
         \A p \in PointNow("net_rx") :
           p.val <= HardwareMoved(Range(answers.network.ifaces), Range(before.network.ifaces),
                                  LAMBDA i : i.name, LAMBDA i : i.rx)

\* "Nothing is discarded": every series about the host itself that has a reading is on the status
\* grid or in a section of the details, and once only.
NothingDiscarded ==
    Shown => LET known == {d.met : d \in {x \in series_for(store, Host) : HasPoint(store, x)}}
                 places == [i \in DOMAIN snapshot.gauges |-> snapshot.gauges[i].met]
             IN  /\ \A m \in known :
                      Cardinality({i \in DOMAIN places : places[i] = m})
                      + Cardinality({t \in DOMAIN snapshot.details :
                                       \E g \in snapshot.details[t] : g.met = m}) = 1
                 /\ {g.met : g \in AllGauges(snapshot)} \subseteq known

\* "State and verdict are one published value": a card says that all is well only while the host
\* is online and no tile beside it is red, and a host that cannot be reached is never called well.
VerdictFits ==
    /\ snapshot.health.level = "ok" =>
         snapshot.state = "Online" /\ \A t \in snapshot.tiles : t.level # "problem"
    /\ snapshot.state \in {"Reconnecting", "Failed"} <=> snapshot.health.level = "offline"

\* Shares stay between nothing and all and what a tile says is free is never less than nothing,
\* on hosts too that report more memory available than they have; and "the parts sum to the
\* whole", of which waiting for a disk is no part: when none of the processor's counters went
\* back, its use is what programs, the kernel and the hypervisor took, each rounded down.
SharesAddUp ==
    /\ \A g \in AllGauges(snapshot) :
         g.met \in {"mem_usage", "swap_usage", "disk_usage"} => g.val \in 0..100
    /\ \A t \in snapshot.tiles : t.summary[1] = "free of" => t.summary[2] \in 0..t.summary[3]
    /\ Shown =>
         \A whole \in PointNow("cpu_usage"), u \in PointNow("cpu_user"),
            s \in PointNow("cpu_system"), t \in PointNow("cpu_steal") :
           whole.val - (u.val + s.val + t.val) \in 0..2

\* "Charts must not lie in either direction": points stay in the box and in their order, and a
\* movement is never drawn larger than twenty times its share of the largest value.
ChartsAreHonest ==
    \A g \in AllGauges(snapshot) :
      LET p == sparkline_points(g.history)
          largest == Highest(g.history)
      IN  \A i, j \in DOMAIN p :
            /\ 0 <= p[i][1] /\ p[i][1] <= p[i][2]
            /\ g.history[i] <= g.history[j] =>
                 /\ p[i][1] * p[j][2] <= p[j][1] * p[i][2]
                 /\ (p[j][1] - p[i][1]) * largest <= 20 * (g.history[j] - g.history[i]) * p[j][2]
=============================================================================
