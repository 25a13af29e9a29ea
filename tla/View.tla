-------------------------------- MODULE View --------------------------------
(***************************************************************************)
(* What is shown of a host: the view model (crates/sg-ffi/src/view.rs) and *)
(* its plain language (plain.rs).  Pure: operators from what the live      *)
(* store holds to a snapshot.                                              *)
(*                                                                         *)
(* A store is the descriptors of the last refresh and, per series, the     *)
(* points it holds.  Words are left out: a text is the name of what it     *)
(* says.  Numbers are whole, and a fraction is a pair.                     *)
(***************************************************************************)
EXTENDS Collectors

CONSTANTS TopLimit   \* busiest processes a snapshot carries (12)

ASSUME TopLimitAssumption == TopLimit \in Nat \ {0}

Id(d) == <<d.ent, d.met>>
series_for(store, ent) == {d \in store.descriptors : d.ent = ent}
latest(store, d) == store.history[Id(d)][Len(store.history[Id(d)])].val
HasPoint(store, d) == store.history[Id(d)] # <<>>

-----------------------------------------------------------------------------
(* Gauges. *)

\* A reading of pct per cent of the whole, against a warning and an alarm.
Level(pct, warn, bad) == IF pct >= bad THEN "problem" ELSE IF pct >= warn THEN "busy" ELSE "ok"
Percent(value, max) == (value * 100) \div max

severity_of(unit, value, max) ==
    LET known == {m \in max : m > 0}
    IN  CASE unit = "celsius" /\ known = {} -> Level(value, 80, 90)
          [] unit = "celsius" /\ known # {} -> Level(Percent(value, or_else(known, 1)), 85, 95)
          [] unit # "celsius" /\ known = {} -> "none"
          [] unit # "celsius" /\ known # {} -> Level(Percent(value, or_else(known, 1)), 60, 85)

gauge_from(d, store) ==
    LET unit == effective_unit(d)
    IN  [met |-> d.met, val |-> latest(store, d), max |-> display_max(d), unit |-> unit,
         history |-> [i \in DOMAIN store.history[Id(d)] |-> store.history[Id(d)][i].val],
         severity |-> severity_of(unit, latest(store, d), display_max(d))]

GaugesOf(ds, store) == {gauge_from(d, store) : d \in {x \in ds : HasPoint(store, x)}}

HeadlineWithoutHeat ==
    <<"cpu_usage", "mem_usage", "disk_usage", "swap_usage", "load1", "net_rx", "net_tx", "uptime">>

\* The tiles of the status grid, in their order.
HEADLINE ==
    <<"cpu_usage", "mem_usage", "disk_usage", "swap_usage", "cpu_temp", "load1", "net_rx",
      "net_tx", "uptime">>

host_gauges(store) ==
    LET shown(m) == GaugesOf({d \in series_for(store, Host) : d.met = m}, store)
        of(m) == When(shown(m) # {}, <<CHOOSE g \in shown(m) : TRUE>>)
    IN  ForEach(HEADLINE, of)

\* The section a collector's other host series are shown in, if any.
group_title(src) ==
    CASE src = "cpu" -> {"CPU"} [] src = "memory" -> {"Memory"} [] src = "load" -> {"Load"}
      [] src = "diskio" -> {"Disk I/O"} [] src = "network" -> {"Network totals"}
      [] src = "tcp" -> {"Sockets & TCP"}
      [] src \in {"sensors", "filesystem"} -> {}
      [] OTHER -> {"Other"}

\* The sections that have a gauge, and their gauges; the order on the screen is left out.
host_details(store) ==
    LET rest == {d \in series_for(store, Host) : d.met \notin Range(HEADLINE)
                                                 /\ group_title(d.src) # {} /\ HasPoint(store, d)}
    IN  [t \in UNION {group_title(d.src) : d \in rest} |->
            GaugesOf({d \in rest : t \in group_title(d.src)}, store)]

-----------------------------------------------------------------------------
(* Things on the host. *)

Children(store) == {d.ent : d \in store.descriptors} \ {Host}
Kind(ent) == ent[1]

entity_view(ent, store) == [id |-> ent, gauges |-> GaugesOf(series_for(store, ent), store)]
entities(store) == {entity_view(e, store) : e \in {x \in Children(store) : Kind(x) # "proc"}}

\* A process whose rate is not known yet counts as idle.
ProcessView(ent, store, cpu_count) ==
    LET value(m) == or_else({latest(store, d) : d \in {x \in series_for(store, ent) :
                                                        x.met = m /\ HasPoint(store, x)}}, 0)
        machine == Larger(cpu_count, 1) * 100
    IN  [pid |-> ent[2], cpu |-> value("cpu"), rss |-> value("rss"),
         fraction |-> <<Smaller(value("cpu"), machine), machine>>,
         severity |-> severity_of("percent", (value("cpu") * 100) \div machine, {100})]

\* By processor, then memory; equal ones in the order of their names.
top_processes(store, cpu_count) ==
    LET rows == {ProcessView(e, store, cpu_count) :
                   e \in {x \in Children(store) : Kind(x) = "proc"}}
        ranked == SetToSortSeq(rows, LAMBDA p, q :
                     \/ p.cpu > q.cpu
                     \/ p.cpu = q.cpu /\ p.rss > q.rss
                     \/ p.cpu = q.cpu /\ p.rss = q.rss /\ p.pid < q.pid)
    IN  SubSeq(ranked, 1, Smaller(TopLimit, Len(ranked)))

-----------------------------------------------------------------------------
(* A chart. *)

Highest(s) == CHOOSE x \in Range(s) : \A y \in Range(s) : x >= y
Lowest(s)  == CHOOSE x \in Range(s) : \A y \in Range(s) : x <= y

\* The range a chart is stretched over, times twenty: at least a twentieth of the largest value.
SpanOfRange(high, low) == 20 * (high - low)
Span(high, low) == Larger(20 * (high - low), Larger(Larger(high, -high), Larger(low, -low)))

\* The height of each point: a fraction of the box, and the middle where all is zero.
sparkline_points(history) ==
    [i \in DOMAIN history |->
        LET span == Span(Highest(history), Lowest(history))
        IN  IF span > 0 THEN <<20 * (history[i] - Lowest(history)), span>> ELSE <<1, 2>>]

-----------------------------------------------------------------------------
(* Plain language. *)

NEARLY_FULL == 90
FILLING_UP == 80
WORKING_HARD == 85
STALLING == 20
STALLING_BADLY == 40
RUNNING_WARM == 80
OVERHEATING == 90

\* What a message says, in the order it is looked for, and the advice it gets.
Phrases == <<"authentication failed", "no usable identity", "not in known_hosts", "changed",
             "could not reach", "timed out", "no ssh-agent", "pasted private key",
             "private key", "closed">>
Advice == <<"sign-in", "sign-in", "first time", "identity changed", "no answer", "no answer",
            "no agent", "unreadable key text", "unreadable key file", "closed">>
MessageOf ==
    [AuthFailed |-> {1}, AgentNoIdentity |-> {2}, UnknownHostKey |-> {3}, HostKeyMismatch |-> {4},
     Connect |-> {5}, Timeout |-> {6}, NoAgent |-> {7}, KeyText |-> {8}, KeyFile |-> {9},
     Closed |-> {10}, HostKeyStorage |-> {}, OutputTooLarge |-> {}, ShellNotStarted |-> {},
     Ssh |-> {}, Io |-> {}]
friendly_failure(error) ==
    IF MessageOf[error] = {} THEN "something went wrong"
    ELSE Advice[CHOOSE i \in MessageOf[error] : \A j \in MessageOf[error] : i <= j]

Verdict(level, headline, detail) == [level |-> level, headline |-> headline, detail |-> detail]

\* The verdict on a host that is online and has readings: the worst thing first.
Judge(gauges) ==
    LET known(m) == {g.val : g \in {x \in gauges : x.met = m}}
        over(m, n) == \E v \in known(m) : v >= n
        either(m, fallback, n) == over(IF known(m) # {} THEN m ELSE fallback, n)
        rules == <<
            <<over("disk_usage", NEARLY_FULL), "problem", "Storage is almost full">>,
            <<over("mem_usage", NEARLY_FULL), "problem", "Running out of memory">>,
            <<either("pressure_io_60s", "pressure_io", STALLING_BADLY),
              "problem", "Waiting on storage">>,
            <<either("pressure_memory_full", "pressure_memory", STALLING),
              "problem", "Struggling for memory">>,
            <<over("cpu_temp", OVERHEATING), "problem", "Running very hot">>,
            <<over("disk_usage", FILLING_UP), "busy", "Storage is filling up">>,
            <<over("mem_usage", WORKING_HARD), "busy", "Memory is under pressure">>,
            <<either("pressure_cpu_60s", "pressure_cpu", STALLING), "busy", "Work is queueing up">>,
            <<over("cpu_temp", RUNNING_WARM), "busy", "Running warm">>,
            <<over("cpu_usage", WORKING_HARD), "busy", "Working very hard">>,
            <<TRUE, "ok", "Everything looks good">> >>
        first == CHOOSE i \in 1..Len(rules) : rules[i][1] /\ \A j \in 1..(i - 1) : ~rules[j][1]
    IN  Verdict(rules[first][2], rules[first][3], "")

assess(state, error, gauges) ==
    CASE state = "Idle" -> Verdict("checking", "Not connected", "")
      [] state = "Connecting" -> Verdict("checking", "Connecting", "")
      [] state = "Reconnecting" -> Verdict("offline", "Lost connection", "")
      [] state = "Failed" -> Verdict("offline", "Can't reach this server", friendly_failure(error))
      [] state = "Online" /\ gauges = {} -> Verdict("checking", "Getting readings", "")
      [] state = "Online" /\ gauges # {} -> Judge(gauges)

plain_name == [cpu_usage |-> "Processor", mem_usage |-> "Memory", disk_usage |-> "Storage"]

\* What a tile says: how busy, how much is left of how much, or only the share that is used.
plain_summary(g, used, total) ==
    IF g.met = "cpu_usage"
    THEN <<IF g.val < 25 THEN "Barely working" ELSE IF g.val < 60 THEN "Working normally"
           ELSE IF g.val < 85 THEN "Working hard" ELSE "Very busy">>
    ELSE IF used # {} /\ or_else(total, 0) > 0
         THEN <<"free of", or_else(total, 0) - or_else(used, 0), or_else(total, 0)>>
         ELSE <<"used", g.val>>

fraction_percent(g) == {Percent(g.val, m) : m \in {x \in g.max : x > 0}}

simple_tiles(headline, all, ents) ==
    LET of(gs, m) == {g.val : g \in {x \in gs : x.met = m}}
        root == UNION {e.gauges : e \in {x \in ents : x.id = <<"fs", <<>>>>}}
        sizes(m) == CASE m = "mem_usage" -> <<of(all, "mem_used"), of(all, "mem_total")>>
                      [] m = "disk_usage" -> <<of(root, "used"), of(root, "total")>>
                      [] OTHER -> <<{}, {}>>
        tile(g) == [met |-> g.met, name |-> plain_name[g.met],
                    summary |-> plain_summary(g, sizes(g.met)[1], sizes(g.met)[2]),
                    level |-> IF \E p \in fraction_percent(g) : p >= 90 THEN "problem"
                              ELSE IF \E p \in fraction_percent(g) : p >= 80 THEN "busy" ELSE "ok"]
    IN  {tile(g) : g \in {x \in Range(headline) : x.met \in DOMAIN plain_name}}

-----------------------------------------------------------------------------
(* Snapshots. *)

AllGauges(snap) == Range(snap.gauges) \union UNION Range(snap.details)

placeholder(state) ==
    [state |-> state, gauges |-> <<>>, details |-> <<>>, entities |-> {}, top |-> <<>>,
     health |-> assess(state, "Io", {}), tiles |-> {}]

build_snapshot(store, caps) ==
    LET gauges == host_gauges(store)
        details == host_details(store)
        all == Range(gauges) \union UNION Range(details)
    IN  [state |-> "Online", gauges |-> gauges, details |-> details, entities |-> entities(store),
         top |-> top_processes(store, caps.cpu_count), health |-> assess("Online", "Io", all),
         tiles |-> simple_tiles(gauges, all, entities(store))]

StateOnly(snap, state, error) == [snap EXCEPT !.state = state]

\* The verdict changes with the state, over the gauges that stay.
set_state(snap, state, error) ==
    [snap EXCEPT !.state = state, !.health = assess(state, error, AllGauges(snap))]
=============================================================================
