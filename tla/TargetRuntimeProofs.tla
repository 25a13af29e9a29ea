------------------------ MODULE TargetRuntimeProofs ------------------------
(***************************************************************************)
(* Proofs about TargetRuntime, for any collectors, series, counter width   *)
(* and history.                                                            *)
(***************************************************************************)
EXTENDS TargetRuntime, TLAPS

(* The parts of the type invariant that rates are made of.                 *)
RateType ==
  /\ raw \in [Counters -> Nat]
  /\ total \in [Counters -> Nat]
  /\ previous \in [Counters -> Readings \union {None}]
  /\ now \in Nat
  /\ wall \in Int
  /\ tick \in Nat

(* Since its baseline a counter has not risen by more than was counted:    *)
(* a wrap or a restart only takes away from it.                            *)
Covered ==
  \A s \in Counters : previous[s] # None /\ previous[s] \in Readings =>
    raw[s] - previous[s].raw <= total[s] - previous[s].total

RInv == RateType /\ Covered /\ NeverOverstated

(* What the modulus of a counter leaves of it is no more than it was.      *)
LEMMA Wraps == ASSUME NEW a \in Nat, NEW n \in Nat \ {0} PROVE a % n \in Nat /\ a % n <= a
  OBVIOUS

(* The invariant holds at first.                                           *)
LEMMA RInvInit == Init => RInv
  BY DEF Init, RInv, RateType, Covered, NeverOverstated, NoReadings

(* Forgetting all baselines keeps the invariant.                           *)
LEMMA ResetStep ==
  ASSUME RInv, reset, UNCHANGED <<host, tick, samples>>
  PROVE  RInv'
  BY DEF RInv, reset, RateType, Covered, NeverOverstated, NoReadings, host

(* Leaving rates, baselines and counters alone keeps the invariant.        *)
LEMMA QuietStep ==
  ASSUME RInv, UNCHANGED <<raw, total, previous, tick, samples>>, now' \in Nat, wall' \in Int
  PROVE  RInv'
  BY DEF RInv, RateType, Covered, NeverOverstated

(* A refresh derives honest rates and leaves honest baselines.             *)
LEMMA ProcessStep ==
  ASSUME RInv, NEW reported, process(reported), UNCHANGED host, tick' = tick + 1
  PROVE  RInv'
<1> DEFINE base == retain(reported)
<1>0. RateType /\ Covered
  BY DEF RInv
<1>1. \A s \in Counters : Reading(s) \in Readings
  BY <1>0 DEF Reading, Readings, RateType
<1>2. \A s \in Counters : base[s] = previous[s] \/ base[s] = None
  BY DEF retain
<1>3. previous' = [s \in Counters |-> IF s \in reported THEN Reading(s) ELSE base[s]]
  BY DEF process, insert
<1>4. RateType'
  BY <1>0, <1>1, <1>2, <1>3 DEF RateType, host
<1>5. Covered'
  <2> SUFFICES ASSUME NEW s \in Counters, previous'[s] # None, previous'[s] \in Readings
               PROVE  raw'[s] - previous'[s].raw <= total'[s] - previous'[s].total
    BY DEF Covered
  <2>1. CASE previous'[s] = Reading(s)
    BY <1>0, <2>1 DEF Reading, RateType, host
  <2>2. CASE previous'[s] = previous[s]
    BY <1>0, <2>2 DEF Covered, host
  <2> QED
    BY <1>2, <1>3, <2>1, <2>2
<1>6. NeverOverstated'
  <2> SUFFICES ASSUME NEW s \in Counters, Rated(base[s], s)
               PROVE  0 <= RateOf(base[s], s).delta
                        /\ RateOf(base[s], s).delta <= RateOf(base[s], s).moved
    BY DEF NeverOverstated, process
  <2>1. base[s] = previous[s] /\ previous[s] # None /\ raw[s] >= previous[s].raw
    BY <1>2 DEF Rated
  <2>2. previous[s] \in Readings
    BY <1>0, <2>1 DEF RateType
  <2>3. raw[s] - previous[s].raw <= total[s] - previous[s].total
    BY <1>0, <2>1, <2>2 DEF Covered
  <2>4. raw[s] \in Nat /\ previous[s].raw \in Nat
    BY <1>0, <2>2 DEF RateType, Readings
  <2> QED
    BY <2>1, <2>3, <2>4 DEF RateOf, Delta
<1> QED
  BY <1>4, <1>5, <1>6 DEF RInv

(* Whatever the host's counters do keeps the invariant.                    *)
LEMMA HostStep == ASSUME RInv, Environment PROVE RInv'
<1> USE SizeAssumption
<1>0. RateType /\ Covered /\ NeverOverstated
  BY DEF RInv
<1>1. ASSUME NEW s \in Counters, NEW d \in 1..MaxTotal, counter_moves(s, d) PROVE RInv'
  <2>1. raw[s] \in Nat /\ total[s] \in Nat /\ d \in Nat
    BY <1>0 DEF RateType
  <2>2. (raw[s] + d) % Width \in Nat /\ (raw[s] + d) % Width <= raw[s] + d
    BY <2>1, Wraps
  <2>3. PICK m \in Nat : m <= raw[s] + d /\ raw' = [raw EXCEPT ![s] = m]
    BY <1>1, <2>2 DEF counter_moves
  <2>4. total' = [total EXCEPT ![s] = @ + d] /\ UNCHANGED <<now, wall, previous, samples, tick>>
    BY <1>1 DEF counter_moves, runtime
  <2>5. RateType'
    BY <1>0, <2>1, <2>3, <2>4 DEF RateType
  <2>6. Covered'
    <3> SUFFICES ASSUME NEW t \in Counters, previous[t] # None, previous[t] \in Readings
                 PROVE  raw'[t] - previous[t].raw <= total'[t] - previous[t].total
      BY <2>4 DEF Covered
    <3>1. raw[t] - previous[t].raw <= total[t] - previous[t].total
      BY <1>0 DEF Covered
    <3>2. previous[t].raw \in Nat /\ previous[t].total \in Nat
      BY DEF Readings
    <3>3. CASE t = s
      <4>1. raw'[t] = m /\ total'[t] = total[s] + d
        BY <1>0, <2>3, <2>4, <3>3 DEF RateType
      <4> QED
        BY <2>1, <2>3, <3>1, <3>2, <3>3, <4>1
    <3>4. CASE t # s
      BY <1>0, <2>3, <2>4, <3>1, <3>4 DEF RateType
    <3> QED
      BY <3>3, <3>4
  <2> QED
    BY <1>0, <2>4, <2>5, <2>6 DEF RInv, NeverOverstated
<1>2. ASSUME NEW s \in Counters, counter_restarts(s) PROVE RInv'
  <2>1. raw' = [raw EXCEPT ![s] = 0] /\ UNCHANGED <<total, now, wall, previous, samples, tick>>
    BY <1>2 DEF counter_restarts, runtime
  <2>2. RateType'
    BY <1>0, <2>1 DEF RateType
  <2>3. Covered'
    <3> SUFFICES ASSUME NEW t \in Counters, previous[t] # None, previous[t] \in Readings
                 PROVE  raw'[t] - previous[t].raw <= total[t] - previous[t].total
      BY <2>1 DEF Covered
    <3>1. raw[t] - previous[t].raw <= total[t] - previous[t].total
      BY <1>0 DEF Covered
    <3>2. /\ previous[t].raw \in Nat /\ previous[t].total \in Nat
          /\ raw[t] \in Nat /\ total[t] \in Nat
      BY <1>0 DEF Readings, RateType
    <3>3. raw'[t] = raw[t] \/ raw'[t] = 0
      BY <1>0, <2>1 DEF RateType
    <3> QED
      BY <3>1, <3>2, <3>3
  <2> QED
    BY <1>0, <2>1, <2>2, <2>3 DEF RInv, NeverOverstated
<1>3. ASSUME NEW e \in Entities, entity_appears(e) \/ entity_vanishes(e) PROVE RInv'
  BY <1>0, <1>3, QuietStep DEF entity_appears, entity_vanishes, runtime, RateType
<1>4. CASE time_passes
  BY <1>0, <1>4, QuietStep DEF time_passes, runtime, RateType
<1>5. ASSUME NEW w \in 0..MaxTime, clock_set(w) PROVE RInv'
  BY <1>0, <1>5, QuietStep DEF clock_set, runtime, RateType
<1> QED
  BY <1>1, <1>2, <1>3, <1>4, <1>5 DEF Environment

(* Every step keeps the invariant.                                         *)
LEMMA RInvStep == RInv /\ [Next]_vars => RInv'
<1> SUFFICES ASSUME RInv, [Next]_vars PROVE RInv'
  OBVIOUS
<1>0. now \in Nat /\ wall \in Int
  BY DEF RInv, RateType
<1>1. ASSUME NEW t \in BOOLEAN, connect_failed(t) PROVE RInv'
  BY <1>0, <1>1, QuietStep DEF connect_failed, host
<1>2. ASSUME NEW t \in BOOLEAN, probe_failed(t) \/ tick_failed(t) \/ run_command_failed(t)
      PROVE  RInv'
  <2>1. on_disconnect(t)
    BY <1>2 DEF probe_failed, tick_failed, run_command_failed
  <2> QED
    BY <2>1, ResetStep DEF on_disconnect
<1>3. ASSUME NEW found \in SUBSET Sources, connect(found) PROVE RInv'
  BY <1>3, ResetStep DEF connect
<1>4. ASSUME NEW broken \in SUBSET Sources, NEW odd \in SUBSET Gauges, tick_ok(broken, odd)
      PROVE  RInv'
  BY <1>4, ProcessStep DEF tick_ok
<1>5. ASSUME NEW source \in Sources, NEW enabled \in BOOLEAN, set_source_enabled(source, enabled)
      PROVE  RInv'
  BY <1>0, <1>5, QuietStep DEF set_source_enabled, host
<1>6. CASE Environment
  BY <1>6, HostStep
<1>7. CASE UNCHANGED vars
  BY <1>0, <1>7, QuietStep DEF vars, host
<1> QED
  BY <1>1, <1>2, <1>3, <1>4, <1>5, <1>6, <1>7 DEF Next

(* No rate ever claims more than the host counted, whatever its counters   *)
(* do between two refreshes.                                               *)
THEOREM RatesAreHonest == Spec => []NeverOverstated
<1>1. RInv => NeverOverstated
  BY DEF RInv
<1> QED
  BY RInvInit, RInvStep, <1>1, PTL DEF Spec
-----------------------------------------------------------------------------
(* Charts.                                                                 *)

ChartType ==
  /\ store.history \in [Series -> Seq(Points)]
  /\ since \in [Series -> Nat]
  /\ \A s \in Series : since[s] <= tick

(* A baseline is a reading of the last refresh of the present session.     *)
Baselines ==
  \A s \in Counters : previous[s] # None =>
    session /\ since[s] > 0 /\ previous[s].tick = tick

PInv == RInv /\ ChartType /\ Baselines /\ OnePresence

(* A point of a series that belongs to a presence from one refresh to      *)
(* another.                                                                *)
Belongs(s, p, first, last) ==
  /\ first > 0 /\ first <= p.from /\ p.tick <= last
  /\ p.from = IF s \in Counters THEN p.tick - 1 ELSE p.tick

(* Appending to a window and trimming it brings in the new point only.     *)
LEMMA TrimAppend ==
  ASSUME NEW h \in Seq(Points), NEW p \in Points
  PROVE  /\ Trim(Append(h, p)) \in Seq(Points)
         /\ \A i \in DOMAIN Trim(Append(h, p)) :
              \/ Trim(Append(h, p))[i] = p
              \/ \E j \in DOMAIN h : Trim(Append(h, p))[i] = h[j]
<1> USE SizeAssumption
<1> DEFINE a == Append(h, p)
<1>1. a \in Seq(Points) /\ Len(a) = Len(h) + 1
  OBVIOUS
<1>2. \A i \in 1..Len(a) : a[i] = p \/ \E j \in DOMAIN h : a[i] = h[j]
  OBVIOUS
<1>3. CASE Len(a) > Window
  <2>1. Trim(a) = Tail(a)
    BY <1>3 DEF Trim
  <2>2. Tail(a) \in Seq(Points) /\ Len(Tail(a)) = Len(a) - 1
          /\ \A i \in 1..Len(Tail(a)) : Tail(a)[i] = a[i + 1]
    BY <1>1
  <2> QED
    BY <1>1, <1>2, <2>1, <2>2
<1>4. CASE ~(Len(a) > Window)
  BY <1>1, <1>2, <1>4 DEF Trim
<1> QED
  BY <1>3, <1>4

(* What a refresh makes of a chart: nothing, what it was, or one point     *)
(* more, and that point belongs to the presence of the series.             *)
LEMMA ChartStep ==
  ASSUME PInv, NEW broken \in SUBSET Sources, NEW odd \in SUBSET Gauges, tick_ok(broken, odd),
         NEW s \in Series
  PROVE  \/ store'.history[s] = <<>>
         \/ s \in Reported(broken) /\ store'.history[s] = store.history[s]
         \/ /\ s \in Reported(broken)
            /\ \E p \in Points : /\ store'.history[s] = Trim(Append(store.history[s], p))
                                 /\ Belongs(s, p, since'[s], tick')
<1> USE SeriesAssumption
<1> DEFINE reported == Reported(broken)
           base == retain(reported)
           gauges == (reported \intersect Gauges) \ odd
           points == [t \in gauges \union {r.series : r \in samples'} |->
                       IF t \in gauges THEN PointOf(t, tick + 1)
                       ELSE PointOf(t, (CHOOSE r \in samples' : r.series = t).from)]
           present == Announced(reported)
           taken == ingest(store, present, reported, points, reported \intersect Texts)
<1>0. RateType /\ ChartType /\ Baselines
  BY DEF PInv, RInv
<1>1. store' = retain_entities(retain_series(taken, reported), present \union {Host})
  BY DEF tick_ok
<1>2. /\ tick' = tick + 1
      /\ since'[s] = IF s \notin reported THEN 0 ELSE IF since[s] = 0 THEN tick + 1 ELSE since[s]
  BY DEF tick_ok
<1>3. \/ store'.history[s] = <<>>
      \/ s \in reported /\ store'.history[s] = taken.history[s]
  BY <1>1 DEF retain_entities, retain_series, Without
<1>4. taken.history[s] = IF s \in DOMAIN points THEN Trim(Append(store.history[s], points[s]))
                                                ELSE store.history[s]
  BY DEF ingest
<1>5. ASSUME s \in DOMAIN points, s \in reported
      PROVE  points[s] \in Points /\ Belongs(s, points[s], since'[s], tick')
  <2>0. /\ tick \in Nat /\ since[s] \in Nat /\ since[s] <= tick
        /\ since'[s] > 0 /\ since'[s] <= tick'
    BY <1>0, <1>2, <1>5 DEF RateType, ChartType
  <2>1. CASE s \in gauges
    <3>1. points[s] = [tick |-> tick + 1, from |-> tick + 1] /\ s \notin Counters
      BY <2>1 DEF PointOf, Gauges
    <3>2. since'[s] <= tick + 1
      BY <1>2, <2>0
    <3> QED
      BY <1>2, <2>0, <3>1, <3>2 DEF Points, Belongs
  <2>2. CASE s \notin gauges
    <3> DEFINE r == CHOOSE x \in samples' : x.series = s
    <3>1. r \in samples' /\ r.series = s
      BY <1>5, <2>2
    <3>2. PICK t \in Counters : r = RateOf(base[t], t) /\ Rated(base[t], t)
      BY <3>1 DEF tick_ok, process
    <3>3. t = s
      BY <3>1, <3>2 DEF RateOf
    <3>4. base[s] = previous[s] /\ previous[s] # None
      BY <3>2, <3>3 DEF Rated, retain
    <3>5. since[s] > 0 /\ previous[s].tick = tick
      BY <1>0, <3>2, <3>3, <3>4 DEF Baselines
    <3>6. points[s] = [tick |-> tick + 1, from |-> tick]
      BY <1>5, <2>2, <3>2, <3>3, <3>4, <3>5 DEF PointOf, RateOf
    <3>7. since'[s] = since[s]
      BY <1>2, <1>5, <3>5
    <3> QED
      BY <1>2, <2>0, <3>2, <3>3, <3>5, <3>6, <3>7 DEF Points, Belongs
  <2> QED
    BY <2>1, <2>2
<1> HIDE DEF reported, points, taken
<1> QED
  BY <1>3, <1>4, <1>5 DEF reported

(* A refresh keeps charts to one presence.                                 *)
LEMMA PresenceStep ==
  ASSUME PInv, NEW broken \in SUBSET Sources, NEW odd \in SUBSET Gauges, tick_ok(broken, odd)
  PROVE  (ChartType /\ Baselines /\ OnePresence)'
<1> USE SeriesAssumption
<1> DEFINE reported == Reported(broken)
<1>0. RateType /\ ChartType /\ Baselines /\ OnePresence
  BY DEF PInv, RInv
<1>1. /\ session /\ session' /\ tick' = tick + 1 /\ tick \in Nat
      /\ since' = [s \in Series |-> IF s \notin reported THEN 0
                                    ELSE IF since[s] = 0 THEN tick + 1 ELSE since[s]]
  BY <1>0 DEF tick_ok, session_vars, RateType
<1>2. since' \in [Series -> Nat] /\ \A s \in Series : since'[s] <= tick'
  BY <1>0, <1>1 DEF ChartType
<1>3. ASSUME NEW s \in Series
      PROVE  /\ store'.history[s] \in Seq(Points)
             /\ \A i \in DOMAIN store'.history[s] :
                  Belongs(s, store'.history[s][i], since'[s], tick')
  <2>0. store.history[s] \in Seq(Points) /\ since[s] \in Nat
    BY <1>0 DEF ChartType
  <2>1. \A i \in DOMAIN store.history[s] : Belongs(s, store.history[s][i], since[s], tick)
    BY <1>0, <1>1 DEF OnePresence, Belongs
  <2>2. ASSUME s \in reported, NEW i \in DOMAIN store.history[s]
        PROVE  Belongs(s, store.history[s][i], since'[s], tick')
    <3>1. store.history[s][i] \in Points
      BY <2>0, <2>2
    <3>2. since'[s] = since[s]
      BY <1>1, <2>0, <2>1, <2>2 DEF Belongs
    <3>3. store.history[s][i].tick \in Nat
      BY <3>1 DEF Points
    <3> DEFINE p == store.history[s][i]
    <3>4. p.tick <= tick'
      BY <1>1, <2>1, <2>2, <3>3 DEF Belongs
    <3> QED
      BY <2>1, <2>2, <3>2, <3>4 DEF Belongs
  <2>3. CASE store'.history[s] = <<>>
    BY <2>3
  <2>4. CASE s \in reported /\ store'.history[s] = store.history[s]
    BY <2>0, <2>2, <2>4
  <2>5. ASSUME s \in reported, NEW p \in Points, Belongs(s, p, since'[s], tick'),
               store'.history[s] = Trim(Append(store.history[s], p))
        PROVE  /\ store'.history[s] \in Seq(Points)
               /\ \A i \in DOMAIN store'.history[s] :
                    Belongs(s, store'.history[s][i], since'[s], tick')
    <3> DEFINE h == Trim(Append(store.history[s], p))
    <3>1. /\ h \in Seq(Points)
          /\ \A i \in DOMAIN h : h[i] = p \/ \E j \in DOMAIN store.history[s] :
                                                h[i] = store.history[s][j]
      BY <2>0, TrimAppend
    <3> HIDE DEF h
    <3>2. \A i \in DOMAIN h : Belongs(s, h[i], since'[s], tick')
      <4> TAKE i \in DOMAIN h
      <4>1. CASE h[i] = p
        BY <2>5, <4>1
      <4>2. ASSUME NEW j \in DOMAIN store.history[s], h[i] = store.history[s][j]
            PROVE  Belongs(s, h[i], since'[s], tick')
        BY <2>2, <2>5, <4>2
      <4> QED
        BY <3>1, <4>1, <4>2
    <3> QED
      BY <2>5, <3>1, <3>2 DEF h
  <2> QED
    BY <2>3, <2>4, <2>5, ChartStep
<1>4. DOMAIN store'.history = Series /\ store'.history = [s \in Series |-> store'.history[s]]
  <2>1. ASSUME NEW st, NEW present
        PROVE  DOMAIN retain_entities(st, present).history = Series
    BY DEF retain_entities, Without
  <2>2. DOMAIN store'.history = Series
    BY <2>1 DEF tick_ok
  <2>3. PICK st, present : store' = retain_entities(st, present)
    BY DEF tick_ok
  <2> QED
    BY <2>2, <2>3 DEF retain_entities, Without
<1>5. ChartType'
  <2>1. store'.history \in [Series -> Seq(Points)]
    BY <1>3, <1>4
  <2> QED
    BY <1>1, <1>2, <2>1 DEF ChartType
<1>6. OnePresence'
  BY <1>3 DEF OnePresence, Belongs
<1>7. Baselines'
  <2> SUFFICES ASSUME NEW s \in Counters, previous'[s] # None
               PROVE  since'[s] > 0 /\ previous'[s].tick = tick'
    BY <1>1 DEF Baselines
  <2>1. s \in reported /\ previous'[s] = Reading(s)
    BY DEF tick_ok, process, insert, retain
  <2> QED
    BY <1>0, <1>1, <2>1 DEF Reading, ChartType
<1> QED
  BY <1>5, <1>6, <1>7

(* Losing the session, or the baselines and the charts, keeps them so.     *)
LEMMA PInvStep == PInv /\ [Next]_vars => PInv'
<1> SUFFICES ASSUME PInv, [Next]_vars PROVE PInv'
  OBVIOUS
<1> USE SeriesAssumption
<1>0. RInv /\ ChartType /\ Baselines /\ OnePresence
  BY DEF PInv
<1>r. RInv'
  BY <1>0, RInvStep
<1> DEFINE Goal == ChartType' /\ Baselines' /\ OnePresence'
<1>q. ASSUME UNCHANGED <<session, store, since, previous, tick>> PROVE Goal
  BY <1>0, <1>q DEF ChartType, Baselines, OnePresence
<1>1. ASSUME NEW t \in BOOLEAN, connect_failed(t) PROVE Goal
  BY <1>1, <1>q DEF connect_failed
<1>2. ASSUME NEW t \in BOOLEAN, probe_failed(t) \/ tick_failed(t) \/ run_command_failed(t)
      PROVE  Goal
  <2>1. on_disconnect(t)
    BY <1>2 DEF probe_failed, tick_failed, run_command_failed
  <2>2. tick \in Nat
    BY <1>0 DEF RInv, RateType
  <2> QED
    <3>1. /\ session' = FALSE /\ store' = store /\ tick' = tick
          /\ since' = [s \in Series |-> 0]
          /\ \A s \in Counters : previous'[s] = None
      BY <2>1 DEF on_disconnect, reset, NoReadings
    <3>2. ChartType'
      BY <1>0, <2>2, <3>1 DEF ChartType
    <3>3. Baselines' /\ OnePresence'
      BY <3>1 DEF Baselines, OnePresence
    <3> QED
      BY <3>2, <3>3
<1>3. ASSUME NEW found \in SUBSET Sources, connect(found) PROVE Goal
  <2>1. store'.history = [s \in Series |-> <<>>] /\ session' = TRUE
          /\ UNCHANGED <<since, tick>> /\ \A s \in Counters : previous'[s] = None
    BY <1>3 DEF connect, clear, Online, NoHistory, reset, NoReadings
  <2> QED
    BY <1>0, <2>1 DEF ChartType, Baselines, OnePresence
<1>4. ASSUME NEW broken \in SUBSET Sources, NEW odd \in SUBSET Gauges, tick_ok(broken, odd)
      PROVE  Goal
  BY <1>4, PresenceStep
<1>5. ASSUME NEW source \in Sources, NEW enabled \in BOOLEAN, set_source_enabled(source, enabled)
      PROVE  Goal
  BY <1>5, <1>q DEF set_source_enabled, session_vars
<1>6. ASSUME Environment PROVE Goal
  <2>1. UNCHANGED runtime
    BY <1>6 DEF Environment, counter_moves, counter_restarts, entity_appears, entity_vanishes,
       time_passes, clock_set
  <2>2. UNCHANGED <<session, store, since, previous, tick>>
    BY <2>1 DEF runtime, session_vars
  <2> QED
    BY <1>q, <2>2
<1>7. ASSUME UNCHANGED vars PROVE Goal
  <2>1. UNCHANGED <<session, store, since, previous, tick>>
    BY <1>7 DEF vars, session_vars
  <2> QED
    BY <1>q, <2>1
<1> QED
  BY <1>r, <1>1, <1>2, <1>3, <1>4, <1>5, <1>6, <1>7 DEF Next, PInv

(* At the start there is neither a baseline nor a point.                   *)
LEMMA PInvInit == Init => PInv
<1> SUFFICES ASSUME Init PROVE PInv
  OBVIOUS
<1>1. RInv
  BY RInvInit
<1>2. ChartType
  BY DEF Init, NoHistory, ChartType
<1>3. Baselines /\ OnePresence
  BY DEF Init, NoReadings, Baselines, OnePresence
<1> QED
  BY <1>1, <1>2, <1>3 DEF PInv

(* Every chart is made of one unbroken presence of its series in one       *)
(* session, and every rate of two readings one refresh apart.              *)
THEOREM ChartsOfOnePresence == Spec => []OnePresence
<1>1. PInv => OnePresence
  BY DEF PInv
<1> QED
  BY PInvInit, PInvStep, <1>1, PTL DEF Spec

(* What was reported in the last refresh of the session has a baseline.    *)
Renewed == \A s \in Counters : since[s] > 0 => session /\ previous[s] # None

(* The host itself is no entity of the store.                              *)
GInv == Host \notin store.entities /\ PInv /\ Renewed /\ NoGhosts

(* A refresh leaves in the store what it reported and nothing else.        *)
LEMMA RefreshStore ==
  ASSUME PInv, Host \notin store.entities, NEW broken \in SUBSET Sources,
         NEW odd \in SUBSET Gauges, tick_ok(broken, odd)
  PROVE  /\ store'.entities = Announced(Reported(broken))
         /\ \A s \in Series : s \in store'.descriptors \union store'.text => s \in Reported(broken)
         /\ \A s \in Reported(broken) \intersect Texts : s \in store'.text
<1> USE SeriesAssumption
<1> DEFINE reported == Reported(broken)
           present == Announced(reported)
<1>1. PICK points :
        store' = retain_entities(
                   retain_series(
                     ingest(store, present, reported, points, reported \intersect Texts),
                     reported), present \union {Host})
  BY DEF tick_ok
<1> DEFINE taken == ingest(store, present, reported, points, reported \intersect Texts)
           kept == retain_series(taken, reported)
           gone == {s \in kept.descriptors : EntityOf[s] \notin present \union {Host}}
<1>2. /\ taken.descriptors = store.descriptors \union reported
      /\ taken.text = store.text \union (reported \intersect Texts)
      /\ taken.entities = store.entities \union present
  BY DEF ingest
<1>3. /\ kept.descriptors = taken.descriptors \ (Series \ reported)
      /\ kept.text = taken.text \ (Series \ reported)
      /\ kept.entities = taken.entities
  BY DEF retain_series, Without
<1>4. /\ store'.descriptors = kept.descriptors \ gone
      /\ store'.text = kept.text \ gone
      /\ store'.entities = kept.entities \intersect (present \union {Host})
  BY <1>1 DEF retain_entities, Without
<1>5. /\ Host \notin present
      /\ \A s \in reported : s \in Series /\ EntityOf[s] \in present \union {Host}
  BY DEF Announced, Reported
<1> HIDE DEF taken, kept, reported, present
<1>6. store'.entities = present
  BY <1>2, <1>3, <1>4, <1>5
<1>7. \A s \in Series : s \in store'.descriptors \union store'.text => s \in reported
  BY <1>3, <1>4
<1>8. \A s \in reported \intersect Texts : s \in store'.text
  BY <1>2, <1>3, <1>4, <1>5
<1> QED
  BY <1>6, <1>7, <1>8 DEF present, reported

(* A refresh leaves no ghosts.                                             *)
LEMMA GhostStep ==
  ASSUME GInv, NEW broken \in SUBSET Sources, NEW odd \in SUBSET Gauges, tick_ok(broken, odd)
  PROVE  Host \notin store'.entities /\ Renewed' /\ NoGhosts'
<1> USE SeriesAssumption
<1> DEFINE reported == Reported(broken)
           present == Announced(reported)
<1>0. PInv /\ Host \notin store.entities /\ tick \in Nat /\ since \in [Series -> Nat]
  BY DEF GInv, PInv, RInv, RateType, ChartType
<1>1. \A s \in Series : store'.history[s] # <<>> => s \in reported
  BY <1>0, ChartStep
<1>2. /\ store'.entities = present
      /\ \A s \in Series : s \in store'.descriptors \union store'.text => s \in reported
  BY <1>0, RefreshStore
<1>3. \A s \in reported : s \in Series /\ since'[s] > 0 /\ EntityOf[s] \in present \union {Host}
  <2>1. \A s \in reported : s \in Series /\ EntityOf[s] \in present \union {Host}
    BY DEF Announced, Reported
  <2>2. \A s \in Series : since'[s] = IF s \notin reported THEN 0
                                      ELSE IF since[s] = 0 THEN tick + 1 ELSE since[s]
    BY DEF tick_ok
  <2> QED
    BY <1>0, <2>1, <2>2
<1>4. Host \notin present /\ \A e \in present : \E s \in reported : EntityOf[s] = e
  BY DEF Announced
<1>5. Renewed'
  <2> SUFFICES ASSUME NEW s \in Counters, since'[s] > 0 PROVE session' /\ previous'[s] # None
    BY DEF Renewed
  <2>1. s \in reported /\ session'
    BY DEF tick_ok, session_vars
  <2>2. previous'[s] = Reading(s)
    BY <2>1 DEF tick_ok, process, insert
  <2>3. Reading(s) \in Readings
    BY <1>0 DEF PInv, RInv, RateType, Reading, Readings
  <2> QED
    BY <2>1, <2>2, <2>3, NoneAssumption
<1> HIDE DEF reported, present
<1> QED
  BY <1>1, <1>2, <1>3, <1>4, <1>5 DEF NoGhosts

(* Between two refreshes the store changes only by being cleared.          *)
LEMMA GInvStep == GInv /\ [Next]_vars => GInv'
<1> SUFFICES ASSUME GInv, [Next]_vars PROVE GInv'
  OBVIOUS
<1> USE SeriesAssumption
<1>0. PInv /\ Host \notin store.entities /\ Renewed /\ NoGhosts
  BY DEF GInv
<1>p. PInv'
  BY <1>0, PInvStep
<1> DEFINE Goal == Host \notin store'.entities /\ Renewed' /\ NoGhosts'
<1>q. ASSUME UNCHANGED <<session, store, since, previous, tick>> PROVE Goal
  BY <1>0, <1>q DEF NoGhosts, Renewed
<1>1. ASSUME NEW t \in BOOLEAN, connect_failed(t) PROVE Goal
  BY <1>1, <1>q DEF connect_failed
<1>2. ASSUME NEW t \in BOOLEAN, probe_failed(t) \/ tick_failed(t) \/ run_command_failed(t)
      PROVE  Goal
  BY <1>0, <1>2 DEF probe_failed, tick_failed, run_command_failed, on_disconnect, NoGhosts,
     Renewed
<1>3. ASSUME NEW found \in SUBSET Sources, connect(found) PROVE Goal
  BY <1>0, <1>3 DEF connect, Connecting, Online, clear, NoHistory, NoGhosts, Renewed
<1>4. ASSUME NEW broken \in SUBSET Sources, NEW odd \in SUBSET Gauges, tick_ok(broken, odd)
      PROVE  Goal
  BY <1>4, GhostStep
<1>5. ASSUME NEW source \in Sources, NEW enabled \in BOOLEAN, set_source_enabled(source, enabled)
      PROVE  Goal
  BY <1>5, <1>q DEF set_source_enabled, session_vars
<1>6. ASSUME Environment PROVE Goal
  <2>1. UNCHANGED runtime
    BY <1>6 DEF Environment, counter_moves, counter_restarts, entity_appears, entity_vanishes,
       time_passes, clock_set
  <2> QED
    BY <1>q, <2>1 DEF runtime, session_vars
<1>7. ASSUME UNCHANGED vars PROVE Goal
  BY <1>7, <1>q DEF vars, session_vars
<1> QED
  BY <1>p, <1>1, <1>2, <1>3, <1>4, <1>5, <1>6, <1>7 DEF Next, GInv

(* The invariant holds throughout.                                         *)
LEMMA StoreInvariant == Spec => []GInv
<1>1. Init => Host \notin store.entities /\ Renewed /\ NoGhosts
  BY SeriesAssumption DEF Init, NoGhosts, Renewed
<1>2. Init => GInv
  BY <1>1, PInvInit DEF GInv
<1> QED
  BY <1>2, GInvStep, PTL DEF Spec

(* After a refresh the store holds what that refresh reported: a stopped   *)
(* container leaves the dashboard.                                         *)
THEOREM NoFrozenReadings == Spec => []NoGhosts
<1>1. GInv => NoGhosts
  BY DEF GInv
<1> QED
  BY <1>1, StoreInvariant, PTL

(* A window ends in the point that was appended last.                      *)
LEMMA TrimEnds ==
  ASSUME NEW h \in Seq(Points), NEW p \in Points
  PROVE  LET t == Trim(Append(h, p)) IN t # <<>> /\ t[Len(t)] = p
<1> USE SizeAssumption
<1> DEFINE a == Append(h, p)
<1>1. a \in Seq(Points) /\ Len(a) = Len(h) + 1 /\ a[Len(a)] = p /\ Len(h) \in Nat
  OBVIOUS
<1>2. CASE Len(a) > Window
  <2>1. Trim(a) = Tail(a)
    BY <1>2 DEF Trim
  <2>2. /\ Tail(a) \in Seq(Points) /\ Len(Tail(a)) = Len(a) - 1 /\ Len(Tail(a)) > 0
        /\ \A i \in 1..Len(Tail(a)) : Tail(a)[i] = a[i + 1]
    BY <1>1, <1>2
  <2>3. Tail(a)[Len(Tail(a))] = a[Len(a)]
    BY <1>1, <2>2
  <2> QED
    BY <1>1, <2>1, <2>2, <2>3
<1>3. CASE ~(Len(a) > Window)
  BY <1>1, <1>3 DEF Trim
<1> QED
  BY <1>2, <1>3

(* A refresh keeps a series that it reported, and the chart of one it has  *)
(* a point for ends in that point.                                         *)
LEMMA ReportedCharts ==
  ASSUME PInv, NEW broken \in SUBSET Sources, NEW odd \in SUBSET Gauges, tick_ok(broken, odd),
         NEW s \in Reported(broken),
         \/ s \in Gauges \ odd
         \/ \E r \in samples' : r.series = s
  PROVE  UpToDate(s)'
<1> USE SeriesAssumption
<1> DEFINE reported == Reported(broken)
           gauges == (reported \intersect Gauges) \ odd
           points == [t \in gauges \union {r.series : r \in samples'} |->
                       IF t \in gauges THEN PointOf(t, tick + 1)
                       ELSE PointOf(t, (CHOOSE r \in samples' : r.series = t).from)]
           present == Announced(reported)
           taken == ingest(store, present, reported, points, reported \intersect Texts)
           kept == retain_series(taken, reported)
<1>0. RateType /\ ChartType
  BY DEF PInv, RInv
<1>1. store' = retain_entities(kept, present \union {Host}) /\ tick' = tick + 1
  BY DEF tick_ok
<1>2. s \in Series /\ EntityOf[s] \in present \union {Host}
  BY DEF Announced, Reported
<1>3. kept.history[s] = taken.history[s]
  BY <1>2 DEF retain_series, Without
<1>4. store'.history[s] = kept.history[s]
  BY <1>1, <1>2 DEF retain_entities, Without
<1>5. s \in DOMAIN points
  OBVIOUS
<1>6. taken.history[s] = Trim(Append(store.history[s], points[s]))
  BY <1>2, <1>5 DEF ingest
<1>7. points[s] \in Points /\ points[s].tick = tick + 1
  <2>1. CASE s \in gauges
    BY <1>0, <2>1 DEF PointOf, Points, RateType
  <2>2. CASE s \notin gauges
    <3> DEFINE r == CHOOSE x \in samples' : x.series = s
    <3>1. r \in samples' /\ r.series = s
      BY <2>2
    <3>2. PICK t \in Counters : r = RateOf(retain(reported)[t], t) /\ Rated(retain(reported)[t], t)
      BY <3>1 DEF tick_ok, process
    <3>3. retain(reported)[t] \in Readings
      BY <1>0, <3>2 DEF Rated, retain, RateType
    <3>4. r.from \in Nat
      <4>1. RateOf(retain(reported)[t], t).from \in Nat
        BY <3>3 DEF RateOf, Readings
      <4> HIDE DEF r
      <4> QED
        BY <3>2, <4>1
    <3>5. points[s] = [tick |-> tick + 1, from |-> r.from]
      BY <1>5, <2>2 DEF PointOf
    <3> QED
      BY <1>0, <3>4, <3>5 DEF Points, RateType
  <2> QED
    BY <2>1, <2>2
<1>8. store.history[s] \in Seq(Points)
  BY <1>0, <1>2 DEF ChartType
<1> HIDE DEF points, taken, kept
<1> QED
  BY <1>1, <1>3, <1>4, <1>6, <1>7, <1>8, TrimEnds DEF UpToDate

(* A collector that fails costs its own series and no other: every series  *)
(* another one reported ends in a point of this refresh.                   *)
THEOREM OneFailureIsContained == Spec => BrokenCostsItsOwn
<1> USE SeriesAssumption
<1>1. ASSUME GInv, NEW broken \in SUBSET Sources, NEW odd \in SUBSET Gauges,
             tick_ok(broken, odd), NEW s \in Series,
             SourceOf[s] \in applicable \ broken, EntityOf[s] \in alive \union {Host}
      PROVE  /\ s \in Gauges \ odd => UpToDate(s)'
             /\ s \in Texts => s \in store'.text
             /\ s \in Counters /\ since[s] > 0 =>
                  UpToDate(s)' \/ raw[s] < previous[s].raw \/ wall <= previous[s].at
  <2>0. PInv /\ Renewed /\ RateType /\ Host \notin store.entities
    BY <1>1 DEF GInv, PInv, RInv
  <2>1. s \in Reported(broken)
    BY <1>1 DEF Reported
  <2>2. s \in Gauges \ odd => UpToDate(s)'
    BY <1>1, <2>0, <2>1, ReportedCharts
  <2>3. s \in Texts => s \in store'.text
    BY <1>1, <2>0, <2>1, RefreshStore
  <2>4. ASSUME s \in Counters, since[s] > 0,
               ~(raw[s] < previous[s].raw), ~(wall <= previous[s].at)
        PROVE  UpToDate(s)'
    <3>1. retain(Reported(broken))[s] = previous[s] /\ previous[s] # None
      BY <2>0, <2>1, <2>4 DEF retain, Renewed
    <3>2. previous[s] \in Readings
      BY <2>0, <2>4, <3>1 DEF RateType
    <3>3. Rated(previous[s], s)
      BY <2>0, <2>4, <3>1, <3>2 DEF Rated, RateType, Readings
    <3>4. RateOf(previous[s], s) \in samples' /\ RateOf(previous[s], s).series = s
      BY <1>1, <2>1, <2>4, <3>1, <3>3 DEF tick_ok, process, RateOf
    <3> QED
      BY <1>1, <2>0, <2>1, <3>4, ReportedCharts
  <2> QED
    BY <2>2, <2>3, <2>4
<1>2. GInv => [tick' # tick => \A broken \in SUBSET Sources, odd \in SUBSET Gauges :
        tick_ok(broken, odd) =>
          \A s \in Series :
            SourceOf[s] \in applicable \ broken /\ EntityOf[s] \in alive \union {Host} =>
              /\ s \in Gauges \ odd => UpToDate(s)'
              /\ s \in Texts => s \in store'.text
              /\ s \in Counters /\ since[s] > 0 =>
                   UpToDate(s)' \/ raw[s] < previous[s].raw \/ wall <= previous[s].at]_vars
  BY <1>1
<1> QED
  BY <1>2, StoreInvariant, PTL DEF BrokenCostsItsOwn

(* Appending to a window that is not too long leaves it so.                *)
LEMMA TrimBounds ==
  ASSUME NEW h \in Seq(Points), NEW p \in Points, Len(h) <= Window
  PROVE  Len(Trim(Append(h, p))) <= Window
<1> USE SizeAssumption
<1>1. /\ Append(h, p) \in Seq(Points) /\ Len(Append(h, p)) = Len(h) + 1 /\ Len(h) \in Nat
      /\ Append(h, p) # <<>>
  OBVIOUS
<1>2. CASE Len(Append(h, p)) > Window
  BY <1>1, <1>2 DEF Trim
<1>3. CASE ~(Len(Append(h, p)) > Window)
  BY <1>1, <1>3 DEF Trim
<1> QED
  BY <1>2, <1>3

(* A refresh keeps the types of the store and of the rates.                *)
LEMMA RefreshTypes ==
  ASSUME TypeOK, PInv, NEW broken \in SUBSET Sources, NEW odd \in SUBSET Gauges,
         tick_ok(broken, odd)
  PROVE  /\ store' \in Stores
         /\ \A s \in Series : Len(store'.history[s]) <= Window
         /\ samples' \subseteq Samples
<1> USE SeriesAssumption, SizeAssumption
<1> DEFINE reported == Reported(broken)
           present == Announced(reported)
<1>0. RateType /\ ChartType /\ store \in Stores
  BY DEF PInv, RInv, TypeOK
<1>1. ChartType'
  BY PresenceStep
<1>2. PICK points :
        store' = retain_entities(
                   retain_series(
                     ingest(store, present, reported, points, reported \intersect Texts),
                     reported), present \union {Host})
  BY DEF tick_ok
<1> DEFINE taken == ingest(store, present, reported, points, reported \intersect Texts)
           kept == retain_series(taken, reported)
<1>3. /\ taken.descriptors \subseteq Series /\ taken.text \subseteq Series
      /\ taken.entities \subseteq Entities
  <2>1. reported \subseteq Series /\ present \subseteq Entities
    BY DEF Reported, Announced
  <2>2. /\ store.descriptors \subseteq Series /\ store.text \subseteq Series
        /\ store.entities \subseteq Entities
    BY <1>0 DEF Stores
  <2> QED
    BY <2>1, <2>2 DEF ingest
<1>4. /\ kept.descriptors \subseteq Series /\ kept.text \subseteq Series
      /\ kept.entities \subseteq Entities
  BY <1>3 DEF retain_series, Without
<1> HIDE DEF kept, taken
<1>5. store' = retain_entities(kept, present \union {Host})
  BY <1>2 DEF kept, taken
<1>6. store' \in Stores
  <2>1. store' = [history |-> store'.history, descriptors |-> store'.descriptors,
                  text |-> store'.text, entities |-> store'.entities]
    BY <1>5 DEF retain_entities, Without
  <2>2. /\ store'.descriptors \subseteq Series /\ store'.text \subseteq Series
        /\ store'.entities \subseteq Entities
    BY <1>4, <1>5 DEF retain_entities, Without
  <2>3. store'.history \in [Series -> Seq(Points)]
    BY <1>1 DEF ChartType
  <2> QED
    BY <2>1, <2>2, <2>3 DEF Stores
<1>7. ASSUME NEW s \in Series PROVE Len(store'.history[s]) <= Window
  <2>1. store.history[s] \in Seq(Points) /\ Len(store.history[s]) <= Window
    BY <1>0 DEF ChartType, TypeOK
  <2>2. Len(<<>>) <= Window
    OBVIOUS
  <2>3. ASSUME NEW p \in Points, store'.history[s] = Trim(Append(store.history[s], p))
        PROVE  Len(store'.history[s]) <= Window
    BY <2>1, <2>3, TrimBounds
  <2>4. \/ store'.history[s] = <<>>
        \/ store'.history[s] = store.history[s]
        \/ \E p \in Points : store'.history[s] = Trim(Append(store.history[s], p))
    BY ChartStep
  <2> QED
    BY <2>1, <2>2, <2>3, <2>4
<1>8. samples' \subseteq Samples
  <2> SUFFICES ASSUME NEW r \in samples' PROVE r \in Samples
    OBVIOUS
  <2>1. PICK t \in Counters : r = RateOf(retain(reported)[t], t) /\ Rated(retain(reported)[t], t)
    BY DEF tick_ok, process
  <2>2. retain(reported)[t] \in Readings
    BY <1>0, <2>1 DEF Rated, retain, RateType
  <2>3. /\ raw[t] \in Nat /\ total[t] \in Nat /\ now \in Nat /\ wall \in Int
    BY <1>0 DEF RateType
  <2> QED
    BY <2>1, <2>2, <2>3 DEF RateOf, Delta, Readings, Samples
<1> QED
  BY <1>6, <1>7, <1>8

(* Every step keeps every variable in its type.                            *)
LEMMA TypeStep == TypeOK /\ PInv /\ [Next]_vars => TypeOK'
<1> SUFFICES ASSUME TypeOK, PInv, [Next]_vars PROVE TypeOK'
  OBVIOUS
<1> USE SeriesAssumption, SizeAssumption
<1>p. PInv'
  BY PInvStep
<1>r. /\ previous' \in [Counters -> Readings \union {None}] /\ total' \in [Counters -> Nat]
      /\ since' \in [Series -> Nat] /\ now' \in Nat /\ wall' \in Int /\ tick' \in Nat
  BY <1>p DEF PInv, RInv, RateType, ChartType
<1>1. ASSUME NEW t \in BOOLEAN, connect_failed(t) PROVE TypeOK'
  BY <1>r, <1>1 DEF connect_failed, TypeOK, TargetState, host
<1>2. ASSUME NEW t \in BOOLEAN, probe_failed(t) \/ tick_failed(t) \/ run_command_failed(t)
      PROVE  TypeOK'
  <2>1. on_disconnect(t)
    BY <1>2 DEF probe_failed, tick_failed, run_command_failed
  <2>2. /\ session' = FALSE /\ state' \in TargetState /\ attempt' \in Nat
        /\ UNCHANGED <<raw, alive, disabled, caps, store, samples>>
    BY <2>1 DEF on_disconnect, TypeOK, TargetState, host
  <2> QED
    BY <1>r, <2>2 DEF TypeOK
<1>3. ASSUME NEW found \in SUBSET Sources, connect(found) PROVE TypeOK'
  <2>1. store' \in Stores /\ \A s \in Series : Len(store'.history[s]) <= Window
    BY <1>3 DEF connect, clear, NoHistory, Stores
  <2>2. /\ caps' = found /\ session' = TRUE /\ state' = "Online" /\ attempt' = 0
        /\ UNCHANGED <<raw, alive, disabled, samples>>
    BY <1>3 DEF connect, Online, host
  <2> QED
    BY <1>r, <2>1, <2>2 DEF TypeOK, TargetState
<1>4. ASSUME NEW broken \in SUBSET Sources, NEW odd \in SUBSET Gauges, tick_ok(broken, odd)
      PROVE  TypeOK'
  <2>1. UNCHANGED <<host, session_vars, disabled, caps>>
    BY <1>4 DEF tick_ok
  <2> QED
    BY <1>r, <1>4, <2>1, RefreshTypes DEF TypeOK, host, session_vars
<1>5. ASSUME NEW source \in Sources, NEW enabled \in BOOLEAN, set_source_enabled(source, enabled)
      PROVE  TypeOK'
  BY <1>5 DEF set_source_enabled, session_vars, host, TypeOK
<1>6. ASSUME Environment PROVE TypeOK'
  <2>1. UNCHANGED runtime
    BY <1>6 DEF Environment, counter_moves, counter_restarts, entity_appears, entity_vanishes,
       time_passes, clock_set
  <2>2. alive' \subseteq Entities
    BY <1>6 DEF Environment, counter_moves, counter_restarts, entity_appears, entity_vanishes,
       time_passes, clock_set, TypeOK
  <2>3. raw' \in [Counters -> 0..(Width - 1)]
    <3>1. ASSUME NEW s \in Counters, NEW d \in 1..MaxTotal, counter_moves(s, d)
          PROVE  raw' \in [Counters -> 0..(Width - 1)]
      <4>1. raw[s] + d \in Nat
        BY DEF TypeOK
      <4>2. (raw[s] + d) % Width \in 0..(Width - 1)
        BY <4>1
      <4> QED
        BY <3>1, <4>2 DEF counter_moves, TypeOK
    <3>2. ASSUME NEW s \in Counters, counter_restarts(s)
          PROVE  raw' \in [Counters -> 0..(Width - 1)]
      BY <3>2 DEF counter_restarts, TypeOK
    <3> QED
      BY <1>6, <3>1, <3>2 DEF Environment, entity_appears, entity_vanishes, time_passes, clock_set,
         TypeOK
  <2> QED
    BY <1>r, <2>1, <2>2, <2>3 DEF runtime, session_vars, TypeOK
<1>7. ASSUME UNCHANGED vars PROVE TypeOK'
  BY <1>7 DEF vars, host, session_vars, TypeOK
<1> QED
  BY <1>1, <1>2, <1>3, <1>4, <1>5, <1>6, <1>7 DEF Next

(* Every variable of the runtime keeps its type, and no window grows past  *)
(* its bound.                                                              *)
THEOREM TypeCorrect == Spec => []TypeOK
<1>1. Init => TypeOK
  <2> SUFFICES ASSUME Init PROVE TypeOK
    OBVIOUS
  <2>1. store \in Stores /\ \A s \in Series : Len(store.history[s]) <= Window
    BY SizeAssumption DEF Init, NoHistory, Stores
  <2>2. raw \in [Counters -> 0..(Width - 1)] /\ total \in [Counters -> Nat]
    BY SizeAssumption DEF Init
  <2>3. previous \in [Counters -> Readings \union {None}] /\ since \in [Series -> Nat]
    BY DEF Init, NoReadings
  <2>4. /\ alive \subseteq Entities /\ disabled \subseteq Sources /\ caps \subseteq Sources
        /\ samples \subseteq Samples /\ session \in BOOLEAN /\ state \in TargetState
    BY DEF Init, TargetState
  <2>5. now \in Nat /\ wall \in Int /\ attempt \in Nat /\ tick \in Nat
    BY DEF Init
  <2> QED
    BY <2>1, <2>2, <2>3, <2>4, <2>5 DEF TypeOK
<1> QED
  BY <1>1, PInvInit, PInvStep, TypeStep, PTL DEF Spec
=============================================================================
