--------------------------- MODULE TargetRuntime ---------------------------
(***************************************************************************)
(* What one monitored host's readings go through: TargetRuntime of         *)
(* crates/sg-core/src/runtime.rs with its Collector (collector.rs), its    *)
(* RateEngine (rate.rs) and its LiveStore (store.rs).                      *)
(*                                                                         *)
(* The host is the environment: its counters move, wrap and restart, its   *)
(* disks, containers and processes come and go.  So are this machine's     *)
(* wall clock, which samples are stamped with and which may be set, and    *)
(* the parsers, each of which may fail on what it was sent.                *)
(*                                                                         *)
(* Values are kept only where a rate is made of them.  Points and readings *)
(* carry the number of the refresh they come from, and readings what the   *)
(* host had really done by then: the properties compare against these.     *)
(***************************************************************************)
EXTENDS Integers, Sequences

CONSTANTS
  Sources,     \* collectors
  Entities,    \* things on the host that come and go
  Host,        \* the host itself, always there
  Series, Counters, Texts,  \* all series, and those that are not gauges
  EntityOf, SourceOf,       \* what a series is about and who reports it
  Window,      \* points a chart keeps
  Width,       \* values of the host's counters
  None,
  MaxTotal, MaxTick, MaxTime, MaxAttempt  \* bounds for model checking

ASSUME SeriesAssumption ==
  /\ Host \notin Entities
  /\ Counters \subseteq Series /\ Texts \subseteq Series /\ Counters \intersect Texts = {}
  /\ EntityOf \in [Series -> Entities \union {Host}]
  /\ SourceOf \in [Series -> Sources]
ASSUME SizeAssumption ==
  /\ Window \in Nat \ {0} /\ Width \in Nat \ {0}
  /\ {MaxTotal, MaxTick, MaxTime, MaxAttempt} \subseteq Nat

VARIABLES
  raw, total,   \* the host's counters, and all they ever counted
  alive,        \* the entities the host has now
  now, wall,    \* time, and what this machine takes it for
  session, state, attempt, disabled,  \* of TargetRuntime and its Collector
  caps,         \* the collectors whose requirements the host meets
  previous,     \* RateEngine.previous
  store,        \* LiveStore
  samples,      \* the rates of the last Tick
  tick,         \* refreshes so far
  since         \* the refresh since which each series was reported without a break

host    == <<raw, total, alive, now, wall>>
session_vars == <<session, state, attempt>>
vars    == <<host, session_vars, disabled, caps, previous, store, samples, tick, since>>

Gauges == Series \ (Counters \union Texts)
TargetState == {"Idle", "Online", "Reconnecting", "FailedRecoverable", "FailedFatal"}

Readings == [at : Int, raw : Nat, total : Nat, now : Nat, tick : Nat]
Points   == [tick : Nat, from : Nat]
Samples  == [series : Counters, from : Nat, delta : Int, moved : Int, elapsed : Int, real : Int]
Stores   == [history : [Series -> Seq(Points)], descriptors : SUBSET Series,
             text : SUBSET Series, entities : SUBSET Entities]

ASSUME NoneAssumption == None \notin Readings

TypeOK ==
  /\ raw \in [Counters -> 0..(Width - 1)]
  /\ total \in [Counters -> Nat]
  /\ alive \subseteq Entities
  /\ now \in Nat
  /\ wall \in Int
  /\ session \in BOOLEAN
  /\ state \in TargetState
  /\ attempt \in Nat
  /\ disabled \subseteq Sources
  /\ caps \subseteq Sources
  /\ previous \in [Counters -> Readings \union {None}]
  /\ store \in Stores
  /\ \A s \in Series : Len(store.history[s]) <= Window
  /\ samples \subseteq Samples
  /\ tick \in Nat
  /\ since \in [Series -> Nat]

NoHistory == [s \in Series |-> <<>>]
NoReadings == [s \in Counters |-> None]

Init ==
  /\ raw = [s \in Counters |-> 0]
  /\ total = [s \in Counters |-> 0]
  /\ alive \in SUBSET Entities
  /\ now = 0
  /\ wall = 0
  /\ session = FALSE
  /\ state = "Idle"
  /\ attempt = 0
  /\ disabled \in SUBSET Sources
  /\ caps = {}
  /\ previous = NoReadings
  /\ store = [history |-> NoHistory, descriptors |-> {}, text |-> {}, entities |-> {}]
  /\ samples = {}
  /\ tick = 0
  /\ since = [s \in Series |-> 0]

-----------------------------------------------------------------------------
(* RateEngine.                                                             *)

(* A mutation: the baselines of series nobody reports any more are kept.   *)
retain_all(reported) == previous

(* process first drops the baselines of series that were not described.    *)
retain(reported) == [s \in Counters |-> IF s \in reported THEN previous[s] ELSE None]

Reading(s) == [at |-> wall, raw |-> raw[s], total |-> total[s], now |-> now, tick |-> tick + 1]

insert(baselines, reported) ==
  [s \in Counters |-> IF s \in reported THEN Reading(s) ELSE baselines[s]]

(* A mutation: a counter that went backwards is not noticed.               *)
RatedAnyway(p, s) == p # None /\ wall - p.at > 0

(* A rate needs a baseline, time since it, and a counter that did not go   *)
(* back.                                                                   *)
Rated(p, s) ==
  /\ p # None
  /\ wall - p.at > 0
  /\ raw[s] >= p.raw

Delta(p, s) == raw[s] - p.raw

RateOf(p, s) ==
  [series |-> s, from |-> p.tick, delta |-> Delta(p, s), moved |-> total[s] - p.total,
   elapsed |-> wall - p.at, real |-> now - p.now]

process(reported) ==
  LET base  == retain(reported)
      rated == {s \in Counters \intersect reported : Rated(base[s], s)}
  IN  /\ previous' = insert(base, reported)
      /\ samples' = {RateOf(base[s], s) : s \in rated}

reset == previous' = NoReadings

-----------------------------------------------------------------------------
(* LiveStore.                                                              *)

(* A mutation: the window is one point too long.                           *)
TrimLate(h) == IF Len(h) > Window + 1 THEN Tail(h) ELSE h

Trim(h) == IF Len(h) > Window THEN Tail(h) ELSE h

ingest(st, entities, descriptors, points, texts) ==
  [history |-> [s \in Series |->
                 IF s \in DOMAIN points THEN Trim(Append(st.history[s], points[s]))
                                        ELSE st.history[s]],
   descriptors |-> st.descriptors \union descriptors,
   text |-> st.text \union texts,
   entities |-> st.entities \union entities]

Without(st, gone) ==
  [history |-> [s \in Series |-> IF s \in gone THEN <<>> ELSE st.history[s]],
   descriptors |-> st.descriptors \ gone,
   text |-> st.text \ gone,
   entities |-> st.entities]

(* A mutation: what the collectors stopped reporting stays in the store.   *)
retain_everything(st, descriptors) == st

retain_series(st, descriptors) == Without(st, Series \ descriptors)

retain_entities(st, present) ==
  [Without(st, {s \in st.descriptors : EntityOf[s] \notin present}) EXCEPT
    !.entities = @ \intersect present]

clear == [history |-> NoHistory, descriptors |-> {}, text |-> {}, entities |-> {}]

-----------------------------------------------------------------------------
(* TargetRuntime and Collector.                                            *)

applicable == (Sources \ disabled) \intersect caps

(* A mutation: one parser that fails costs the refresh all of its samples. *)
ReportedIfAllParse(broken) ==
  IF broken # {} THEN {}
  ELSE {s \in Series : SourceOf[s] \in applicable /\ EntityOf[s] \in alive \union {Host}}

(* What the collectors that could read their answers describe, each series *)
(* with its entity.                                                        *)
Reported(broken) ==
  {s \in Series : SourceOf[s] \in applicable \ broken /\ EntityOf[s] \in alive \union {Host}}

Announced(reported) == {EntityOf[s] : s \in reported} \ {Host}

Online == session' = TRUE /\ state' = "Online" /\ attempt' = 0

on_disconnect(transient) ==
  /\ session' = FALSE
  /\ reset
  /\ since' = [s \in Series |-> 0]
  /\ IF transient
     THEN attempt' = attempt + 1 /\ state' = "Reconnecting"
     ELSE state' = "FailedFatal" /\ UNCHANGED attempt
  /\ UNCHANGED <<host, disabled, caps, store, samples, tick>>

(* The poll loop connects when there is no session, until it is told that  *)
(* trying again is no use.                                                 *)
Connecting == ~session /\ state # "FailedFatal"

connect_failed(transient) ==
  /\ Connecting
  /\ state' = IF transient THEN "FailedRecoverable" ELSE "FailedFatal"
  /\ UNCHANGED <<host, session, attempt, disabled, caps, previous, store, samples, tick, since>>

probe_failed(transient) ==
  /\ Connecting
  /\ attempt < MaxAttempt
  /\ on_disconnect(transient)

connect(found) ==
  /\ Connecting
  /\ caps' = found
  /\ reset
  /\ store' = clear
  /\ Online
  /\ UNCHANGED <<host, disabled, samples, tick, since>>

PointOf(s, p) == [tick |-> tick + 1, from |-> p]

(* One refresh, in which some collectors fail on their answers and some    *)
(* gauges are no numbers.                                                  *)
tick_ok(broken, odd) ==
  LET reported == Reported(broken)
      gauges   == (reported \intersect Gauges) \ odd
      points   == [s \in gauges \union {r.series : r \in samples'} |->
                    IF s \in gauges THEN PointOf(s, tick + 1)
                    ELSE PointOf(s, (CHOOSE r \in samples' : r.series = s).from)]
      present  == Announced(reported)
      taken    == ingest(store, present, reported, points, reported \intersect Texts)
  IN
  /\ session
  /\ tick < MaxTick
  /\ broken \subseteq applicable
  /\ process(reported)
  /\ store' = retain_entities(retain_series(taken, reported), present \union {Host})
  /\ tick' = tick + 1
  /\ since' = [s \in Series |-> IF s \notin reported THEN 0
                                ELSE IF since[s] = 0 THEN tick + 1 ELSE since[s]]
  /\ UNCHANGED <<host, session_vars, disabled, caps>>

(* The batch of a refresh fails; with no collector to ask there is none.   *)
tick_failed(transient) ==
  /\ session
  /\ applicable # {}
  /\ attempt < MaxAttempt
  /\ on_disconnect(transient)

run_command_failed(transient) ==
  /\ session
  /\ attempt < MaxAttempt
  /\ on_disconnect(transient)

set_source_enabled(source, enabled) ==
  /\ disabled' = IF enabled THEN disabled \ {source} ELSE disabled \union {source}
  /\ UNCHANGED <<host, session_vars, caps, previous, store, samples, tick, since>>

-----------------------------------------------------------------------------
(* The environment.                                                        *)

runtime == <<session_vars, disabled, caps, previous, store, samples, tick, since>>

counter_moves(s, d) ==
  /\ total[s] + d <= MaxTotal
  /\ raw' = [raw EXCEPT ![s] = (@ + d) % Width]
  /\ total' = [total EXCEPT ![s] = @ + d]
  /\ UNCHANGED <<alive, now, wall, runtime>>

(* A reboot, a device that is recreated, a process id that is used again.  *)
counter_restarts(s) ==
  /\ raw' = [raw EXCEPT ![s] = 0]
  /\ UNCHANGED <<total, alive, now, wall, runtime>>

entity_appears(e) ==
  /\ alive' = alive \union {e}
  /\ UNCHANGED <<raw, total, now, wall, runtime>>

entity_vanishes(e) ==
  /\ alive' = alive \ {e}
  /\ UNCHANGED <<raw, total, now, wall, runtime>>

time_passes ==
  /\ now < MaxTime
  /\ now' = now + 1
  /\ wall' = wall + 1
  /\ UNCHANGED <<raw, total, alive, runtime>>

clock_set(w) ==
  /\ wall' = w
  /\ UNCHANGED <<raw, total, alive, now, runtime>>

Environment ==
  \/ \E s \in Counters, d \in 1..MaxTotal : counter_moves(s, d)
  \/ \E s \in Counters : counter_restarts(s)
  \/ \E e \in Entities : entity_appears(e) \/ entity_vanishes(e)
  \/ time_passes
  \/ \E w \in 0..MaxTime : clock_set(w)

Next ==
  \/ \E t \in BOOLEAN : connect_failed(t) \/ probe_failed(t) \/ tick_failed(t)
                          \/ run_command_failed(t)
  \/ \E found \in SUBSET Sources : connect(found)
  \/ \E broken \in SUBSET Sources, odd \in SUBSET Gauges : tick_ok(broken, odd)
  \/ \E source \in Sources, enabled \in BOOLEAN : set_source_enabled(source, enabled)
  \/ Environment

Spec == Init /\ [][Next]_vars

-----------------------------------------------------------------------------
(* A chart is made of one presence: whatever vanished, was switched off,   *)
(* broke or was disconnected in between, every point of a series comes     *)
(* from the unbroken run of reports that it is in, and every rate from two *)
(* readings of that run, one refresh apart ("an absent series must         *)
(* establish a new baseline", "a reconnect must not derive a rate across   *)
(* the gap").                                                              *)
OnePresence ==
  session => \A s \in Series : \A i \in DOMAIN store.history[s] :
    LET p == store.history[s][i] IN
    /\ since[s] > 0 /\ since[s] <= p.from /\ p.tick <= tick
    /\ p.from = IF s \in Counters THEN p.tick - 1 ELSE p.tick

(* A rate never claims more than the host did: however a counter wrapped   *)
(* or restarted between two readings, the difference that is shown is at   *)
(* most what was counted between them ("would render as a spike").         *)
NeverOverstated == \A r \in samples : 0 <= r.delta /\ r.delta <= r.moved

(* Nothing stays on the dashboard that the last refresh of the session did *)
(* not report: "a stopped container must leave the dashboard rather than   *)
(* sitting there with its last reading frozen".                            *)
NoGhosts ==
  session /\ tick > 0 =>
    /\ \A s \in Series : store.history[s] # <<>> \/ s \in store.descriptors \union store.text
         => since[s] > 0 /\ EntityOf[s] \in store.entities \union {Host}
    /\ \A e \in store.entities : \E s \in Series : EntityOf[s] = e /\ since[s] > 0

(* The chart ends in the point of the last refresh.                        *)
UpToDate(s) ==
  /\ store.history[s] # <<>>
  /\ store.history[s][Len(store.history[s])].tick = tick

(* "One broken collector cannot blank the dashboard": after a refresh      *)
(* every gauge that was reported in it as a number ends in its point, and  *)
(* every counter reported in it and in the one before in a rate, unless    *)
(* it went back or the clock did not move.                                 *)
BrokenCostsItsOwn ==
  [][tick' # tick => \A broken \in SUBSET Sources, odd \in SUBSET Gauges :
      tick_ok(broken, odd) =>
        \A s \in Series :
          SourceOf[s] \in applicable \ broken /\ EntityOf[s] \in alive \union {Host} =>
            /\ s \in Gauges \ odd => UpToDate(s)'
            /\ s \in Texts => s \in store'.text
            /\ s \in Counters /\ since[s] > 0 =>
                 UpToDate(s)' \/ raw[s] < previous[s].raw \/ wall <= previous[s].at]_vars
=============================================================================
