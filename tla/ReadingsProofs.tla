--------------------------- MODULE ReadingsProofs ---------------------------
(***************************************************************************)
(* What is proved of Readings for every host that answers what its         *)
(* collectors can read: every number of refreshes, sessions, devices,      *)
(* processes and points.                                                   *)
(*                                                                         *)
(* Every parser emits series over one set, Good, that says what the view   *)
(* relies on; a store of such series is shown as a snapshot that is what   *)
(* the properties ask for; and a state that is published into a snapshot   *)
(* keeps it so.                                                            *)
(***************************************************************************)
EXTENDS Readings, SequenceFacts, FiniteSetTheorems

-----------------------------------------------------------------------------
(* Numbers and charts. *)

\* A sum of whole numbers is one.
LEMMA SumType ==
    ASSUME NEW ns \in Seq(Int)
    PROVE  Sum(ns) \in Int
  <1> DEFINE N == Len(ns)
             step == [n \in Nat |-> [q \in Int |-> IF n \in 1..N THEN q + ns[n] ELSE q]]
             Body(g) == [n \in 0..N |-> IF n = 0 THEN 0 ELSE g[n - 1] + ns[n]]
             g == CHOOSE h : h = Body(h)
  <1>1. N \in Nat /\ \A n \in 1..N : ns[n] \in Int
    OBVIOUS
  <1>2. Sum(ns) = g[N]
    BY DEF Sum
  <1> HIDE DEF N
  <1>3. step \in [Nat -> [Int -> Int]]
    BY <1>1
  <1>4. \A n \in 1..N : \A q \in Int : step[n][q] = q + ns[n]
    BY <1>1
  <1> HIDE DEF step
  <1>5. Upto(N, Int, 0, step) # {}
    <2>1. 0 \in Int
      OBVIOUS
    <2> QED
      BY <2>1, <1>1, <1>3, UptoExists
  <1>6. PICK F : F \in Upto(N, Int, 0, step)
    BY <1>5
  <1>7. F \in [0..N -> Int] /\ F[0] = 0 /\ \A n \in 1..N : F[n] = step[n][F[n - 1]]
    BY <1>6 DEF Upto
  <1>8. ASSUME NEW n \in 1..N PROVE F[n] = F[n - 1] + ns[n]
    <2>1. F[n - 1] \in Int
      BY <1>1, <1>7
    <2> QED
      BY <1>4, <1>7, <2>1
  <1>9. F = Body(F)
    BY <1>1, <1>7, <1>8
  <1>10. g = Body(g)
    BY <1>9
  <1>11. g[0] = 0 /\ \A n \in 1..N : g[n] = g[n - 1] + ns[n]
    <2> HIDE DEF g
    <2>1. \A n \in 0..N : g[n] = IF n = 0 THEN 0 ELSE g[n - 1] + ns[n]
      BY <1>10
    <2>2. 0 \in 0..N /\ \A n \in 1..N : n \in 0..N /\ n # 0
      BY <1>1
    <2> QED
      BY <2>1, <2>2
  <1> HIDE DEF g, Body
  <1> DEFINE T == {n \in Nat : n <= N => g[n] \in Int}
  <1>12. 0 \in T
    BY <1>11
  <1>13. ASSUME NEW n \in Nat, n \in T PROVE n + 1 \in T
    <2> SUFFICES ASSUME n + 1 <= N PROVE g[n + 1] \in Int
      OBVIOUS
    <2>1. g[n] \in Int /\ ns[n + 1] \in Int
      BY <1>1, <1>13
    <2>2. g[n + 1] = g[(n + 1) - 1] + ns[n + 1]
      BY <1>1, <1>11
    <2>3. (n + 1) - 1 = n
      OBVIOUS
    <2> QED
      BY <2>1, <2>2, <2>3
  <1>14. T \in SUBSET Nat
    OBVIOUS
  <1> HIDE DEF T
  <1>15. T = Nat
    BY <1>12, <1>13, <1>14, SetInduction
  <1> QED
    BY <1>1, <1>2, <1>15 DEF T

\* A sequence of numbers that is not empty has a highest and a lowest value.
LEMMA HighestLowest ==
    ASSUME NEW s \in Seq(Int), s # <<>>
    PROVE  /\ Highest(s) \in Int /\ Lowest(s) \in Int
           /\ \A i \in DOMAIN s : s[i] <= Highest(s) /\ Lowest(s) <= s[i]
           /\ Highest(s) \in Range(s)
  <1>1. Range(s) \in SUBSET Int /\ \A i \in DOMAIN s : s[i] \in Range(s)
    BY DEF Range
  <1>2. Range(s) # {}
    <2>1. 1 \in DOMAIN s
      OBVIOUS
    <2> QED
      BY <1>1, <2>1
  <1>3. PICK b \in Int : \A i \in 1..Len(s) : s[i] <= b /\ -s[i] <= b
    BY ValuesBounded
  <1>4. \A x \in Range(s) : x <= b /\ -x <= b
    BY <1>3 DEF Range
  <1>5. \E x \in Range(s) : \A y \in Range(s) : x >= y
    BY <1>1, <1>2, <1>4, Greatest
  <1>6. \E x \in Range(s) : \A y \in Range(s) : x <= y
    <2> DEFINE T == {-x : x \in Range(s)}
    <2>1. T \in SUBSET Int /\ T # {} /\ \A t \in T : t <= b
      BY <1>1, <1>2, <1>4
    <2>2. PICK t \in T : \A u \in T : t >= u
      BY <2>1, Greatest
    <2>3. PICK x \in Range(s) : t = -x
      OBVIOUS
    <2>4. \A y \in Range(s) : t >= -y
      BY <2>2
    <2>5. \A y \in Range(s) : x <= y
      BY <2>3, <2>4, <1>1
    <2> QED
      BY <2>5
  <1>7. Highest(s) \in Range(s) /\ \A y \in Range(s) : Highest(s) >= y
    BY <1>5 DEF Highest
  <1>8. Lowest(s) \in Range(s) /\ \A y \in Range(s) : Lowest(s) <= y
    BY <1>6 DEF Lowest
  <1> QED
    BY <1>1, <1>7, <1>8

\* Products keep the order of their factors.
LEMMA TimesOrder ==
    ASSUME NEW a \in Int, NEW b \in Int, NEW k \in Int, a <= b, 0 <= k
    PROVE  a * k <= b * k /\ k * a <= k * b
  OBVIOUS

\* What ChartsAreHonest says of one chart.
HonestChart(h) ==
    LET p == sparkline_points(h)
        largest == Highest(h)
    IN  \A i, j \in DOMAIN p :
          /\ 0 <= p[i][1] /\ p[i][1] <= p[i][2]
          /\ h[i] <= h[j] =>
               /\ p[i][1] * p[j][2] <= p[j][1] * p[i][2]
               /\ (p[j][1] - p[i][1]) * largest <= 20 * (h[j] - h[i]) * p[j][2]

\* A chart of whole numbers is honest.
LEMMA ChartIsHonest ==
    ASSUME NEW h \in Seq(Int)
    PROVE  HonestChart(h)
  <1> DEFINE p == sparkline_points(h)
             hi == Highest(h)
             lo == Lowest(h)
             span == Span(hi, lo)
  <1>1. DOMAIN p = DOMAIN h
    BY DEF sparkline_points
  <1> SUFFICES ASSUME NEW i \in DOMAIN h, NEW j \in DOMAIN h
               PROVE  /\ 0 <= p[i][1] /\ p[i][1] <= p[i][2]
                      /\ h[i] <= h[j] =>
                           /\ p[i][1] * p[j][2] <= p[j][1] * p[i][2]
                           /\ (p[j][1] - p[i][1]) * hi <= 20 * (h[j] - h[i]) * p[j][2]
    BY <1>1 DEF HonestChart
  <1>2. h # <<>>
    OBVIOUS
  <1>3. /\ hi \in Int /\ lo \in Int
        /\ h[i] <= hi /\ lo <= h[i] /\ h[j] <= hi /\ lo <= h[j]
    BY <1>2, HighestLowest
  <1>4. h[i] \in Int /\ h[j] \in Int
    OBVIOUS
  <1>5. /\ p[i] = IF span > 0 THEN <<20 * (h[i] - lo), span>> ELSE <<1, 2>>
        /\ p[j] = IF span > 0 THEN <<20 * (h[j] - lo), span>> ELSE <<1, 2>>
    BY DEF sparkline_points
  <1> HIDE DEF hi, lo
  <1>6. span \in Int /\ span >= 20 * (hi - lo) /\ span >= hi /\ span >= -hi
        /\ span >= lo /\ span >= -lo
    BY <1>3 DEF Span, Larger
  <1> HIDE DEF span, p
  <1>7. CASE span > 0
    <2>1. p[i] = <<20 * (h[i] - lo), span>> /\ p[j] = <<20 * (h[j] - lo), span>>
      BY <1>5, <1>7
    <2>2. PICK a \in Int : a = 20 * (h[i] - lo)
      BY <1>3, <1>4
    <2>3. PICK b \in Int : b = 20 * (h[j] - lo)
      BY <1>3, <1>4
    <2>4. p[i][1] = a /\ p[i][2] = span /\ p[j][1] = b /\ p[j][2] = span
      BY <2>1, <2>2, <2>3
    <2>5. 0 <= a /\ a <= span
      BY <1>3, <1>4, <1>6, <2>2
    <2>6. ASSUME h[i] <= h[j] PROVE a * span <= b * span
      <3>1. a <= b /\ 0 <= span
        BY <2>6, <2>2, <2>3, <1>3, <1>4, <1>7, <1>6
      <3> QED
        BY <3>1, <1>6, TimesOrder
    <2>7. ASSUME h[i] <= h[j] PROVE (b - a) * hi <= 20 * (h[j] - h[i]) * span
      <3>1. PICK d \in Int : d = 20 * (h[j] - h[i])
        BY <1>4
      <3>2. b - a = d /\ 0 <= d
        <4>1. \A x, y, z \in Int : 20 * (y - z) - 20 * (x - z) = 20 * (y - x)
          OBVIOUS
        <4>2. \A x, y \in Int : x <= y => 0 <= 20 * (y - x)
          OBVIOUS
        <4>3. b - a = d
          BY <4>1, <3>1, <2>2, <2>3, <1>3, <1>4
        <4>4. 0 <= d
          BY <4>2, <2>7, <3>1, <1>4
        <4> QED
          BY <4>3, <4>4
      <3>3. d * hi <= d * span
        BY <3>2, <1>3, <1>6, TimesOrder
      <3>4. (b - a) * hi = d * hi
        BY <3>2
      <3>5. 20 * (h[j] - h[i]) * span = d * span
        BY <3>1
      <3> QED
        BY <3>3, <3>4, <3>5
    <2> QED
      BY <2>4, <2>5, <2>6, <2>7
  <1>8. CASE ~(span > 0)
    <2>1. p[i][1] = 1 /\ p[i][2] = 2 /\ p[j][1] = 1 /\ p[j][2] = 2
      BY <1>5, <1>8
    <2>2. hi = 0 /\ h[i] = h[j]
      BY <1>3, <1>4, <1>6, <1>8
    <2>3. (1 - 1) * hi = 0 /\ 20 * (h[j] - h[i]) * 2 = 0
      BY <2>2, <1>4
    <2> QED
      BY <2>1, <2>3
  <1> QED
    BY <1>7, <1>8

-----------------------------------------------------------------------------
(* What the view relies on of an emission. *)

TileMetrics == {"cpu_usage", "mem_usage", "disk_usage"}
ShareMetrics == {"mem_usage", "swap_usage", "disk_usage"}
ProcessorMetrics == {"cpu_usage", "cpu_user", "cpu_system", "cpu_steal"}
SizeMetrics == {"mem_used", "mem_total"}
SpecialMetrics == {"cpu_usage", "cpu_user", "cpu_system", "cpu_steal", "mem_usage", "mem_used",
                   "mem_total", "disk_usage", "swap_usage"}
HeadlineMetrics == {"cpu_usage", "mem_usage", "disk_usage", "swap_usage", "cpu_temp", "load1",
                    "net_rx", "net_tx", "uptime"}
SourceNames == {"cpu", "memory", "load", "filesystem", "diskio", "network", "tcp", "pressure",
                "sensors", "cgroup", "process"}

\* The series there are.
HostMetrics ==
    {"cpu_usage", "cpu_user", "cpu_system", "cpu_iowait", "cpu_steal", "procs_running",
     "procs_blocked", "ctx_switches", "mem_usage", "mem_used", "mem_total", "mem_available",
     "mem_free", "mem_cached", "mem_buffers", "swap_usage", "swap_used", "swap_total", "load1",
     "load5", "load15", "procs_total", "uptime", "disk_read", "disk_write", "net_rx", "net_tx",
     "disk_usage", "pressure_cpu", "pressure_cpu_60s", "pressure_cpu_full", "pressure_memory",
     "pressure_memory_60s", "pressure_memory_full", "pressure_io", "pressure_io_60s",
     "pressure_io_full", "cpu_temp", "sockets", "tcp_inuse", "tcp_timewait", "tcp_orphan",
     "udp_inuse", "tcp_established", "tcp_in_segs", "tcp_out_segs", "tcp_retrans",
     "tcp_active_opens", "tcp_passive_opens"}
ThingMetrics ==
    {"usage", "read_bytes", "write_bytes", "reads", "writes", "in_flight", "rx_bytes", "tx_bytes",
     "rx_packets", "tx_packets", "rx_errors", "tx_errors", "rx_dropped", "tx_dropped", "used",
     "total", "available", "cpu", "rss", "temp", "fan", "power", "memory", "memory_usage", "pids"}
Metrics == HostMetrics \union ThingMetrics
Units == {"percent", "count", "bytes", "seconds", "operations", "packets", "celsius", "rpm",
          "watts"}

Root == <<"fs", <<>>>>
Mounts == {"fs"} \X Seq(STRING)
Kinds == {"cpu", "disk", "net", "proc", "sensor", "container", "vm"}
Names == Nat \union STRING \union Seq(STRING)
Things == Kinds \X Names
Entities == {Host} \union Things \union Mounts

\* What a series of the host itself must look like for the view: what becomes a tile is a
\* percentage without a bound of its own, and a source without a section has headlines only.
Fits(src, ent, met, unit, max) ==
    ent = Host => /\ met \in TileMetrics => unit = "percent" /\ max = {}
                  /\ src \in {"sensors", "filesystem"} => met \in HeadlineMetrics

\* A share is a gauge, and at most all of it.
InRange(ent, met, kind, val) ==
    ent = Host /\ met \in ShareMetrics => kind = "gauge" /\ val \in 0..100

Emission ==
    [src : SourceNames, ent : Entities, met : Metrics, unit : Units, kind : {"gauge", "counter"},
     val : Int, max : SUBSET Int, num : Int, den : Nat \ {0}]
Good == {e \in Emission : /\ Fits(e.src, e.ent, e.met, e.unit, e.max)
                          /\ InRange(e.ent, e.met, e.kind, e.val)}

\* The series whose values are compared with each other, and emissions of the others.
Processing(ent, met) == ent = Host /\ met \in ProcessorMetrics
Sizing(ent, met) == ent = Root \/ (ent = Host /\ met \in SizeMetrics)
Others == {e \in Good : ~Processing(e.ent, e.met)}
Unsized == {e \in Good : ~Sizing(e.ent, e.met)}
Plain == {e \in Good : ~Processing(e.ent, e.met) /\ ~Sizing(e.ent, e.met)}
Marked(ent, met) == Processing(ent, met) \/ Sizing(ent, met)

\* A thing on the host and a mount are not the host, and a thing is not the root.
LEMMA ThingIsNotHost ==
    /\ \A e \in Things \union Mounts : e # Host
    /\ \A e \in Things : e # Root
    /\ Root \in Mounts /\ Root # Host
  <1>1. ASSUME NEW k, NEW n PROVE <<k, n>> # Host
    <2>1. Len(<<k, n>>) = 2 /\ Len(Host) = 1
      BY DEF Host
    <2> QED
      BY <2>1
  <1>2. \A e \in Things \union Mounts : \E k, n : e = <<k, n>>
    BY DEF Things, Mounts
  <1>3. \A e \in Things : e[1] \in Kinds
    BY DEF Things
  <1>4. Root[1] \notin Kinds
    BY DEF Root, Kinds
  <1>5. Root \in Mounts
    <2>1. <<>> \in Seq(STRING)
      OBVIOUS
    <2> QED
      BY <2>1 DEF Root, Mounts
  <1> QED
    BY <1>1, <1>2, <1>3, <1>4, <1>5

\* A series of a thing or a mount fits whatever it is.
LEMMA ThingFits ==
    ASSUME NEW ent \in Things \union Mounts, NEW src, NEW met, NEW unit, NEW max
    PROVE  Fits(src, ent, met, unit, max) /\ \A kind, val : InRange(ent, met, kind, val)
  BY ThingIsNotHost DEF Fits, InRange

\* The four ways in which an emission is put together: a gauge,
LEMMA GoodGauge ==
    ASSUME NEW src \in SourceNames, NEW ent \in Entities, NEW met \in Metrics, NEW unit \in Units,
           NEW val \in Int,
           Fits(src, ent, met, unit, {}), InRange(ent, met, "gauge", val)
    PROVE  LET g == gauge(src, ent, met, unit, val) IN
           /\ g \in Good /\ (~Processing(ent, met) => g \in Others)
           /\ (~Sizing(ent, met) => g \in Unsized) /\ (~Marked(ent, met) => g \in Plain)
           /\ g.ent = ent /\ g.met = met /\ g.kind = "gauge" /\ g.val = val
           /\ g.num = 1 /\ g.den = 1
  <1> DEFINE g == gauge(src, ent, met, unit, val)
  <1>1. g = [src |-> src, ent |-> ent, met |-> met, unit |-> unit, kind |-> "gauge", val |-> val,
             max |-> {}, num |-> 1, den |-> 1]
    BY DEF gauge
  <1> HIDE DEF g
  <1>2. /\ g \in Emission /\ g.kind = "gauge" /\ g.val = val /\ g.num = 1 /\ g.den = 1
        /\ g.src = src /\ g.ent = ent /\ g.met = met /\ g.unit = unit /\ g.max = {}
    BY <1>1 DEF Emission
  <1>3. g \in Good
    BY <1>2 DEF Good, Fits, InRange
  <1>4. /\ ~Processing(ent, met) => g \in Others
        /\ ~Sizing(ent, met) => g \in Unsized
        /\ ~Marked(ent, met) => g \in Plain
    BY <1>2, <1>3 DEF Others, Unsized, Plain, Marked
  <1> QED
    BY <1>2, <1>3, <1>4 DEF g

\* a gauge with a bound,
LEMMA GoodBounded ==
    ASSUME NEW src \in SourceNames, NEW ent \in Entities, NEW met \in Metrics, NEW unit \in Units,
           NEW val \in Int, NEW max \in Int,
           Fits(src, ent, met, unit, {max}), InRange(ent, met, "gauge", val)
    PROVE  LET g == with_max(gauge(src, ent, met, unit, val), max) IN
           /\ g \in Good /\ (~Processing(ent, met) => g \in Others)
           /\ (~Sizing(ent, met) => g \in Unsized) /\ (~Marked(ent, met) => g \in Plain)
           /\ g.ent = ent /\ g.met = met /\ g.kind = "gauge" /\ g.val = val
           /\ g.num = 1 /\ g.den = 1
  <1> DEFINE g == with_max(gauge(src, ent, met, unit, val), max)
  <1>1. g = [src |-> src, ent |-> ent, met |-> met, unit |-> unit, kind |-> "gauge", val |-> val,
             max |-> {max}, num |-> 1, den |-> 1]
    BY DEF gauge, with_max
  <1> HIDE DEF g
  <1>2. /\ g \in Emission /\ g.kind = "gauge" /\ g.val = val /\ g.num = 1 /\ g.den = 1
        /\ g.src = src /\ g.ent = ent /\ g.met = met /\ g.unit = unit /\ g.max = {max}
    BY <1>1 DEF Emission
  <1>3. g \in Good
    BY <1>2 DEF Good, Fits, InRange
  <1>4. /\ ~Processing(ent, met) => g \in Others
        /\ ~Sizing(ent, met) => g \in Unsized
        /\ ~Marked(ent, met) => g \in Plain
    BY <1>2, <1>3 DEF Others, Unsized, Plain, Marked
  <1> QED
    BY <1>2, <1>3, <1>4 DEF g

\* a counter,
LEMMA GoodCounter ==
    ASSUME NEW src \in SourceNames, NEW ent \in Entities, NEW met \in Metrics, NEW unit \in Units,
           NEW val \in Int,
           Fits(src, ent, met, unit, {}), InRange(ent, met, "counter", val)
    PROVE  LET g == counter(src, ent, met, unit, val) IN
           /\ g \in Good /\ (~Processing(ent, met) => g \in Others)
           /\ (~Sizing(ent, met) => g \in Unsized) /\ (~Marked(ent, met) => g \in Plain)
           /\ g.ent = ent /\ g.met = met /\ g.kind = "counter" /\ g.val = val
           /\ g.num = 1 /\ g.den = 1
  <1> DEFINE g == counter(src, ent, met, unit, val)
  <1>1. g = [src |-> src, ent |-> ent, met |-> met, unit |-> unit, kind |-> "counter", val |-> val,
             max |-> {}, num |-> 1, den |-> 1]
    BY DEF gauge, counter
  <1> HIDE DEF g
  <1>2. /\ g \in Emission /\ g.kind = "counter" /\ g.val = val /\ g.num = 1 /\ g.den = 1
        /\ g.src = src /\ g.ent = ent /\ g.met = met /\ g.unit = unit /\ g.max = {}
    BY <1>1 DEF Emission
  <1>3. g \in Good
    BY <1>2 DEF Good, Fits, InRange
  <1>4. /\ ~Processing(ent, met) => g \in Others
        /\ ~Sizing(ent, met) => g \in Unsized
        /\ ~Marked(ent, met) => g \in Plain
    BY <1>2, <1>3 DEF Others, Unsized, Plain, Marked
  <1> QED
    BY <1>2, <1>3, <1>4 DEF g

\* and a counter whose rate is scaled.
LEMMA GoodScaled ==
    ASSUME NEW src \in SourceNames, NEW ent \in Entities, NEW met \in Metrics, NEW unit \in Units,
           NEW val \in Int, NEW num \in Int, NEW den \in Nat \ {0},
           Fits(src, ent, met, unit, {}), InRange(ent, met, "counter", val)
    PROVE  LET g == with_scale(counter(src, ent, met, unit, val), num, den) IN
           /\ g \in Good /\ (~Processing(ent, met) => g \in Others)
           /\ (~Sizing(ent, met) => g \in Unsized) /\ (~Marked(ent, met) => g \in Plain)
           /\ g.ent = ent /\ g.met = met /\ g.kind = "counter" /\ g.val = val
           /\ g.num = num /\ g.den = den
  <1> DEFINE g == with_scale(counter(src, ent, met, unit, val), num, den)
  <1>1. g = [src |-> src, ent |-> ent, met |-> met, unit |-> unit, kind |-> "counter", val |-> val,
             max |-> {}, num |-> num, den |-> den]
    <2> DEFINE k == counter(src, ent, met, unit, val)
    <2>1. k = [src |-> src, ent |-> ent, met |-> met, unit |-> unit, kind |-> "counter",
               val |-> val, max |-> {}, num |-> 1, den |-> 1]
      BY DEF gauge, counter
    <2>2. g = [k EXCEPT !.num = num, !.den = den]
      BY DEF with_scale
    <2> HIDE DEF k, g
    <2> QED
      BY <2>1, <2>2
  <1> HIDE DEF g
  <1>2. /\ g \in Emission /\ g.kind = "counter" /\ g.val = val /\ g.num = num /\ g.den = den
        /\ g.src = src /\ g.ent = ent /\ g.met = met /\ g.unit = unit /\ g.max = {}
    BY <1>1 DEF Emission
  <1>3. g \in Good
    BY <1>2 DEF Good, Fits, InRange
  <1>4. /\ ~Processing(ent, met) => g \in Others
        /\ ~Sizing(ent, met) => g \in Unsized
        /\ ~Marked(ent, met) => g \in Plain
    BY <1>2, <1>3 DEF Others, Unsized, Plain, Marked
  <1> QED
    BY <1>2, <1>3, <1>4 DEF g

\* An emission of no series that is compared is one of no processor and one of no size.
LEMMA PlainSeq ==
    /\ \A q \in Seq(Plain) : q \in Seq(Good) /\ q \in Seq(Others) /\ q \in Seq(Unsized)
    /\ \A q \in Seq(Others) : q \in Seq(Good)
    /\ \A q \in Seq(Unsized) : q \in Seq(Good)
  <1>1. /\ Plain \subseteq Good /\ Plain \subseteq Others /\ Plain \subseteq Unsized
        /\ Others \subseteq Good /\ Unsized \subseteq Good
    BY DEF Plain, Others, Unsized
  <1> QED
    BY <1>1, SeqOfMore

\* A missing field is replaced by a number.
LEMMA OrElseType ==
    ASSUME NEW x \in SUBSET Int, NEW d \in Int
    PROVE  or_else(x, d) \in Int
  BY DEF or_else

\* The same of natural numbers.
LEMMA OrElseNat ==
    ASSUME NEW x \in SUBSET Nat, NEW d \in Nat
    PROVE  or_else(x, d) \in Nat
  BY DEF or_else

\* A field that may be missing holds values of its type.
LEMMA OptionType ==
    ASSUME NEW S, NEW x \in Option(S)
    PROVE  x \in SUBSET S
  BY DEF Option

\* A host that reports fewer fields has zeroes for the others.
LEMMA FieldType ==
    ASSUME NEW row \in Seq(Nat), NEW i \in 1..8
    PROVE  Field(row, i) \in Nat
  <1>1. CASE i <= Len(row)
    BY <1>1 DEF Field
  <1>2. CASE ~(i <= Len(row))
    BY <1>2 DEF Field
  <1> QED
    BY <1>1, <1>2

\* What a processor was busy for is a natural number.
LEMMA BusyType ==
    ASSUME NEW row \in Seq(Nat)
    PROVE  busy(row) \in Nat
  <1>1. \A i \in 1..8 : Field(row, i) \in Nat
    BY FieldType
  <1>2. /\ Field(row, 1) \in Nat /\ Field(row, 2) \in Nat /\ Field(row, 3) \in Nat
        /\ Field(row, 6) \in Nat /\ Field(row, 7) \in Nat /\ Field(row, 8) \in Nat
    BY <1>1
  <1>3. \A a, b, d, e, g, h \in Nat : a + b + d + e + g + h \in Nat
    OBVIOUS
  <1> QED
    BY <1>2, <1>3 DEF busy

\* A size is emitted right before the size it is a part of, and neither without the other.
Coupled(q, x, y) ==
    \A i \in 1..Len(q) :
      /\ Id(q[i]) = x => /\ i + 1 \in 1..Len(q) /\ Id(q[i + 1]) = y
                         /\ q[i].kind = "gauge" /\ q[i + 1].kind = "gauge"
                         /\ q[i].val \in 0..q[i + 1].val
      /\ Id(q[i]) = y => i - 1 \in 1..Len(q) /\ Id(q[i - 1]) = x

Paired(q) == /\ Coupled(q, <<Host, "mem_used">>, <<Host, "mem_total">>)
             /\ Coupled(q, <<Root, "used">>, <<Root, "total">>)

\* Parts that are coupled are coupled together.
LEMMA CoupledConcat ==
    ASSUME NEW S, NEW a \in Seq(S), NEW b \in Seq(S), NEW x, NEW y,
           Coupled(a, x, y), Coupled(b, x, y)
    PROVE  Coupled(a \o b, x, y)
  <1>1. PICK m \in Nat, n \in Nat : m = Len(a) /\ n = Len(b)
    BY SeqFacts
  <1>2. PICK q : q = a \o b
    OBVIOUS
  <1>3. Len(q) = m + n /\ \A i \in 1..(m + n) : q[i] = IF i <= m THEN a[i] ELSE b[i - m]
    BY <1>1, <1>2, ConcatProperties
  <1>4. ASSUME NEW i \in 1..m PROVE i \in 1..(m + n) /\ q[i] = a[i]
    BY <1>3
  <1>5. ASSUME NEW i \in 1..n PROVE i + m \in 1..(m + n) /\ q[i + m] = b[i]
    <2>1. PICK j \in 1..(m + n) : j = i + m /\ ~(j <= m) /\ j - m = i
      OBVIOUS
    <2> QED
      BY <2>1, <1>3
  <1>6. ASSUME NEW i \in 1..m
        PROVE  /\ Id(q[i]) = x => /\ i + 1 \in 1..Len(q) /\ Id(q[i + 1]) = y
                                  /\ q[i].kind = "gauge" /\ q[i + 1].kind = "gauge"
                                  /\ q[i].val \in 0..q[i + 1].val
               /\ Id(q[i]) = y => i - 1 \in 1..Len(q) /\ Id(q[i - 1]) = x
    <2>1. q[i] = a[i]
      BY <1>4
    <2>2. ASSUME Id(q[i]) = x
          PROVE  /\ i + 1 \in 1..Len(q) /\ Id(q[i + 1]) = y
                 /\ q[i].kind = "gauge" /\ q[i + 1].kind = "gauge"
                 /\ q[i].val \in 0..q[i + 1].val
      <3>1. /\ i + 1 \in 1..m /\ Id(a[i + 1]) = y
            /\ a[i].kind = "gauge" /\ a[i + 1].kind = "gauge" /\ a[i].val \in 0..a[i + 1].val
        BY <2>1, <2>2, <1>1 DEF Coupled
      <3>2. i + 1 \in 1..(m + n) /\ q[i + 1] = a[i + 1]
        BY <3>1, <1>4
      <3> QED
        BY <3>1, <3>2, <2>1, <1>3
    <2>3. ASSUME Id(q[i]) = y PROVE i - 1 \in 1..Len(q) /\ Id(q[i - 1]) = x
      <3>1. i - 1 \in 1..m /\ Id(a[i - 1]) = x
        BY <2>1, <2>3, <1>1 DEF Coupled
      <3>2. i - 1 \in 1..(m + n) /\ q[i - 1] = a[i - 1]
        BY <3>1, <1>4
      <3> QED
        BY <3>1, <3>2, <1>3
    <2> QED
      BY <2>2, <2>3
  <1>7. ASSUME NEW j \in 1..n
        PROVE  LET i == j + m IN
               /\ Id(q[i]) = x => /\ i + 1 \in 1..Len(q) /\ Id(q[i + 1]) = y
                                  /\ q[i].kind = "gauge" /\ q[i + 1].kind = "gauge"
                                  /\ q[i].val \in 0..q[i + 1].val
               /\ Id(q[i]) = y => i - 1 \in 1..Len(q) /\ Id(q[i - 1]) = x
    <2>1. PICK i \in 1..(m + n) : i = j + m /\ q[i] = b[j]
      BY <1>5
    <2>2. ASSUME Id(q[i]) = x
          PROVE  /\ i + 1 \in 1..Len(q) /\ Id(q[i + 1]) = y
                 /\ q[i].kind = "gauge" /\ q[i + 1].kind = "gauge"
                 /\ q[i].val \in 0..q[i + 1].val
      <3>1. /\ j + 1 \in 1..n /\ Id(b[j + 1]) = y
            /\ b[j].kind = "gauge" /\ b[j + 1].kind = "gauge" /\ b[j].val \in 0..b[j + 1].val
        BY <2>1, <2>2, <1>1 DEF Coupled
      <3>2. (j + 1) + m \in 1..(m + n) /\ q[(j + 1) + m] = b[j + 1]
        BY <3>1, <1>5
      <3>3. (j + 1) + m = i + 1
        BY <2>1
      <3>4. i + 1 \in 1..(m + n) /\ q[i + 1] = b[j + 1]
        BY <3>2, <3>3
      <3> QED
        BY <3>1, <3>4, <2>1, <1>3
    <2>3. ASSUME Id(q[i]) = y PROVE i - 1 \in 1..Len(q) /\ Id(q[i - 1]) = x
      <3>1. j - 1 \in 1..n /\ Id(b[j - 1]) = x
        BY <2>1, <2>3, <1>1 DEF Coupled
      <3>2. (j - 1) + m \in 1..(m + n) /\ q[(j - 1) + m] = b[j - 1]
        BY <3>1, <1>5
      <3>3. (j - 1) + m = i - 1
        BY <2>1
      <3>4. i - 1 \in 1..(m + n) /\ q[i - 1] = b[j - 1]
        BY <3>2, <3>3
      <3> QED
        BY <3>1, <3>4, <1>3
    <2> QED
      BY <2>1, <2>2, <2>3
  <1>8. Coupled(q, x, y)
    <2> SUFFICES ASSUME NEW i \in 1..Len(q)
                 PROVE  /\ Id(q[i]) = x => /\ i + 1 \in 1..Len(q) /\ Id(q[i + 1]) = y
                                           /\ q[i].kind = "gauge" /\ q[i + 1].kind = "gauge"
                                           /\ q[i].val \in 0..q[i + 1].val
                        /\ Id(q[i]) = y => i - 1 \in 1..Len(q) /\ Id(q[i - 1]) = x
      BY DEF Coupled
    <2>1. CASE i \in 1..m
      BY <2>1, <1>6
    <2>2. CASE i \notin 1..m
      <3>1. PICK j \in 1..n : i = j + m
        <4>1. i - m \in 1..n /\ i = (i - m) + m
          BY <2>2, <1>3
        <4> QED
          BY <4>1
      <3> QED
        BY <3>1, <1>7
    <2> QED
      BY <2>1, <2>2
  <1> QED
    BY <1>2, <1>8

\* The same of both pairs.
LEMMA PairedConcat ==
    ASSUME NEW a \in Seq(Good), NEW b \in Seq(Good), Paired(a), Paired(b)
    PROVE  Paired(a \o b)
  BY CoupledConcat DEF Paired

\* Where there is no size there is nothing to couple.
LEMMA UnsizedPaired ==
    ASSUME NEW q \in Seq(Unsized)
    PROVE  Paired(q)
  <1>1. \A i \in 1..Len(q) : q[i] \in Unsized
    BY SeqFacts
  <1>2. ASSUME NEW e \in Unsized
        PROVE  /\ Id(e) # <<Host, "mem_used">> /\ Id(e) # <<Host, "mem_total">>
               /\ Id(e) # <<Root, "used">> /\ Id(e) # <<Root, "total">>
    <2>1. ~Sizing(e.ent, e.met)
      BY DEF Unsized
    <2> QED
      BY <2>1 DEF Sizing, SizeMetrics, Id
  <1> QED
    BY <1>1, <1>2 DEF Paired, Coupled

\* Four emissions of which the second is a part of the third.
LEMMA FourCoupled ==
    ASSUME NEW a, NEW b, NEW c, NEW d, NEW x, NEW y, Id(b) = x, Id(c) = y, x # y,
           Id(a) \notin {x, y}, Id(d) \notin {x, y}, b.kind = "gauge", c.kind = "gauge",
           b.val \in 0..c.val
    PROVE  Coupled(<<a, b, c, d>>, x, y)
  <1>1. PICK q : q = <<a, b, c, d>>
    OBVIOUS
  <1>2. Len(q) = 4 /\ q[1] = a /\ q[2] = b /\ q[3] = c /\ q[4] = d
    BY <1>1
  <1>3. \A i \in 1..4 : i = 1 \/ i = 2 \/ i = 3 \/ i = 4
    OBVIOUS
  <1>4. /\ Id(q[1]) \notin {x, y} /\ Id(q[4]) \notin {x, y}
        /\ Id(q[2]) = x /\ Id(q[3]) = y /\ q[2].kind = "gauge" /\ q[3].kind = "gauge"
        /\ q[2].val \in 0..q[3].val
    BY <1>2
  <1>5. 2 + 1 = 3 /\ 3 - 1 = 2 /\ 3 \in 1..4 /\ 2 \in 1..4
    OBVIOUS
  <1>6. ASSUME NEW i \in 1..4, Id(q[i]) = x PROVE i = 2
    BY <1>3, <1>4, <1>6
  <1>7. ASSUME NEW i \in 1..4, Id(q[i]) = y PROVE i = 3
    BY <1>3, <1>4, <1>7
  <1>8. ASSUME NEW i \in 1..4, Id(q[i]) = x
        PROVE  /\ i + 1 \in 1..4 /\ Id(q[i + 1]) = y
               /\ q[i].kind = "gauge" /\ q[i + 1].kind = "gauge"
               /\ q[i].val \in 0..q[i + 1].val
    BY <1>4, <1>5, <1>6, <1>8
  <1>9. ASSUME NEW i \in 1..4, Id(q[i]) = y PROVE i - 1 \in 1..4 /\ Id(q[i - 1]) = x
    BY <1>4, <1>5, <1>7, <1>9
  <1>10. Coupled(q, x, y)
    BY <1>2, <1>8, <1>9 DEF Coupled
  <1> QED
    BY <1>1, <1>10

-----------------------------------------------------------------------------
(* The collectors. *)

\* What a collector may count on about the host.
CapsOK(c) == c.clock_ticks \in Nat \ {0} /\ c.cpu_count \in Nat /\ c.page_size \in Nat

\* What the processor's counters come to: programs, the kernel, interrupts and the hypervisor,
\* over one scale, and nothing else of the host's.
Processor(es) ==
    /\ Len(es) >= 5
    /\ Id(es[1]) = <<Host, "cpu_usage">> /\ Id(es[2]) = <<Host, "cpu_user">>
    /\ Id(es[3]) = <<Host, "cpu_system">> /\ Id(es[5]) = <<Host, "cpu_steal">>
    /\ es[1].val = es[2].val + es[3].val + es[5].val
    /\ \A i \in {1, 2, 3, 5} : es[i].kind = "counter" /\ es[i].num = 100 /\ es[i].den = es[1].den
    /\ es[4] \in Others
    /\ \A i \in 6..Len(es) : es[i] \in Others

\* A part that has none of them does not disturb the ones before it.
LEMMA ProcessorLeads ==
    ASSUME NEW a \in Seq(Good), Processor(a), NEW r \in Seq(Others)
    PROVE  a \o r \in Seq(Good) /\ Processor(a \o r)
  <1> DEFINE q == a \o r
  <1>1. PICK m \in Nat, n \in Nat : m = Len(a) /\ n = Len(r)
    BY SeqFacts
  <1>2. /\ q \in Seq(Good) /\ Len(q) = m + n
        /\ \A i \in 1..(m + n) : q[i] = IF i <= m THEN a[i] ELSE r[i - m]
    <2>1. r \in Seq(Good)
      BY PlainSeq
    <2> QED
      BY <1>1, <2>1, ConcatProperties
  <1> HIDE DEF q
  <1>3. m >= 5
    BY <1>1 DEF Processor
  <1>4. q[1] = a[1] /\ q[2] = a[2] /\ q[3] = a[3] /\ q[4] = a[4] /\ q[5] = a[5]
    BY <1>2, <1>3
  <1>5. ASSUME NEW i \in 6..Len(q) PROVE q[i] \in Others
    <2>1. CASE i <= m
      <3>1. i \in 6..Len(a) /\ q[i] = a[i]
        BY <2>1, <1>1, <1>2
      <3> QED
        BY <3>1 DEF Processor
    <2>2. CASE ~(i <= m)
      <3>1. i - m \in 1..n /\ q[i] = r[i - m]
        BY <2>2, <1>2
      <3> QED
        BY <3>1, <1>1, SeqFacts
    <2> QED
      BY <2>1, <2>2
  <1>6. Len(q) >= 5
    BY <1>2, <1>3
  <1>7. \A i \in {1, 2, 3, 5} : q[i].kind = "counter" /\ q[i].num = 100 /\ q[i].den = q[1].den
    BY <1>4 DEF Processor
  <1>8. Processor(q)
    BY <1>4, <1>5, <1>6, <1>7 DEF Processor
  <1> QED
    BY <1>2, <1>8 DEF q

\* cpu.rs: the processor's series.  The scale of their rates is never zero, and the use of the
\* processor is a percentage.
LEMMA CpuGood ==
    ASSUME NEW f, NEW c, CapsOK(c), is_answer("cpu", f)
    PROVE  cpu(f, c) \in Seq(Unsized) /\ Processor(cpu(f, c))
  <1> DEFINE cores == Larger(Len(f.cores), 1)
             den == c.clock_ticks * cores
             host(met, ticks) == with_scale(counter("cpu", Host, met, "percent", ticks), 100, den)
             opt(met, n) == When(n # {}, <<gauge("cpu", Host, met, "count", or_else(n, 0))>>)
             A == <<host("cpu_usage", busy(f.cpu)),
                    host("cpu_user", Field(f.cpu, 1) + Field(f.cpu, 2)),
                    host("cpu_system", Field(f.cpu, 3) + Field(f.cpu, 6) + Field(f.cpu, 7)),
                    host("cpu_iowait", Field(f.cpu, 5)),
                    host("cpu_steal", Field(f.cpu, 8))>>
             B == When(f.ctxt # {},
                       <<counter("cpu", Host, "ctx_switches", "count", or_else(f.ctxt, 0))>>)
             core(i) == with_scale(counter("cpu", child("cpu", i), "usage", "percent",
                                           busy(f.cores[i])), 100, c.clock_ticks)
             C == [i \in 1..Len(f.cores) |-> core(i)]
  <1>1. f \in [cpu : Seq(Nat), cores : Seq(Seq(Nat)),
               running : Option(Nat), blocked : Option(Nat), ctxt : Option(Nat)]
    BY DEF is_answer
  <1>2. /\ f.cpu \in Seq(Nat) /\ f.cores \in Seq(Seq(Nat)) /\ f.running \in SUBSET Nat
        /\ f.blocked \in SUBSET Nat /\ f.ctxt \in SUBSET Nat
    BY <1>1, OptionType
  <1>3. cpu(f, c) = A \o opt("procs_running", f.running) \o opt("procs_blocked", f.blocked)
                    \o B \o C
    BY DEF cpu
  <1>4. cores \in Nat \ {0} /\ Len(f.cores) \in Nat
    BY <1>2 DEF Larger
  <1> HIDE DEF cores
  <1>5. den \in Nat \ {0} /\ c.clock_ticks \in Nat \ {0}
    BY <1>4 DEF CapsOK
  <1> HIDE DEF den
  <1>6. Host \in Entities
    BY DEF Entities
  <1>7. ASSUME NEW met \in Metrics \ (ShareMetrics \union SizeMetrics), NEW t \in Int
        PROVE  /\ host(met, t) \in Unsized
               /\ met \notin ProcessorMetrics => host(met, t) \in Others
               /\ Id(host(met, t)) = <<Host, met>> /\ host(met, t).kind = "counter"
               /\ host(met, t).val = t /\ host(met, t).num = 100 /\ host(met, t).den = den
    <2>1. Fits("cpu", Host, met, "percent", {}) /\ InRange(Host, met, "counter", t)
      BY DEF Fits, InRange
    <2>2. "cpu" \in SourceNames /\ "percent" \in Units
      BY DEF SourceNames, Units
    <2>3. 100 \in Int
      OBVIOUS
    <2>4. ~Sizing(Host, met) /\ (met \notin ProcessorMetrics => ~Processing(Host, met))
      BY ThingIsNotHost DEF Sizing, Processing
    <2> QED
      BY <2>1, <2>2, <2>3, <2>4, <1>5, <1>6, GoodScaled DEF Id
  <1> HIDE DEF host
  <1>8. /\ A \in Seq(Unsized) /\ Len(A) = 5
        /\ Id(A[1]) = <<Host, "cpu_usage">> /\ Id(A[2]) = <<Host, "cpu_user">>
        /\ Id(A[3]) = <<Host, "cpu_system">> /\ Id(A[5]) = <<Host, "cpu_steal">>
        /\ A[1].val = A[2].val + A[3].val + A[5].val
        /\ \A i \in {1, 2, 3, 5} : A[i].kind = "counter" /\ A[i].num = 100 /\ A[i].den = den
        /\ A[4] \in Others
    <2>0. busy(f.cpu) \in Nat /\ \A i \in 1..8 : Field(f.cpu, i) \in Nat
      BY <1>2, BusyType, FieldType
    <2>1. busy(f.cpu) \in Int /\ \A i \in 1..8 : Field(f.cpu, i) \in Int
      BY <2>0
    <2>2. /\ Field(f.cpu, 1) \in Int /\ Field(f.cpu, 2) \in Int /\ Field(f.cpu, 3) \in Int
          /\ Field(f.cpu, 5) \in Int /\ Field(f.cpu, 6) \in Int /\ Field(f.cpu, 7) \in Int
          /\ Field(f.cpu, 8) \in Int
      BY <2>1
    <2>3. \A m \in {"cpu_usage", "cpu_user", "cpu_system", "cpu_iowait", "cpu_steal"} :
            m \in Metrics \ (ShareMetrics \union SizeMetrics)
      BY DEF Metrics, HostMetrics, ShareMetrics, SizeMetrics
    <2>4. "cpu_iowait" \notin ProcessorMetrics
      BY DEF ProcessorMetrics
    <2>5. PICK w \in Int : w = busy(f.cpu)
      BY <2>1
    <2>6. PICK u \in Int : u = Field(f.cpu, 1) + Field(f.cpu, 2)
      BY <2>2
    <2>7. PICK s \in Int : s = Field(f.cpu, 3) + Field(f.cpu, 6) + Field(f.cpu, 7)
      BY <2>2
    <2>8. PICK v \in Int : v = Field(f.cpu, 5)
      BY <2>2
    <2>9. PICK t \in Int : t = Field(f.cpu, 8)
      BY <2>2
    <2>10. w = u + s + t
      BY <2>2, <2>5, <2>6, <2>7, <2>9 DEF busy
    <2>11. A = <<host("cpu_usage", w), host("cpu_user", u), host("cpu_system", s),
                 host("cpu_iowait", v), host("cpu_steal", t)>>
      BY <2>5, <2>6, <2>7, <2>8, <2>9
    <2> HIDE DEF A
    <2>12. /\ Len(A) = 5 /\ A[1] = host("cpu_usage", w) /\ A[2] = host("cpu_user", u)
           /\ A[3] = host("cpu_system", s) /\ A[4] = host("cpu_iowait", v)
           /\ A[5] = host("cpu_steal", t)
      BY <2>11
    <2>13. A \in Seq(Unsized)
      <3>1. /\ host("cpu_usage", w) \in Unsized /\ host("cpu_user", u) \in Unsized
            /\ host("cpu_system", s) \in Unsized /\ host("cpu_iowait", v) \in Unsized
            /\ host("cpu_steal", t) \in Unsized
        BY <2>3, <1>7
      <3> QED
        BY <2>11, <3>1
    <2>14. /\ A[1].val = w /\ A[2].val = u /\ A[3].val = s /\ A[5].val = t
      BY <2>3, <2>12, <1>7
    <2>15. /\ Id(A[1]) = <<Host, "cpu_usage">> /\ Id(A[2]) = <<Host, "cpu_user">>
           /\ Id(A[3]) = <<Host, "cpu_system">> /\ Id(A[5]) = <<Host, "cpu_steal">>
      BY <2>3, <2>12, <1>7
    <2>16. \A i \in {1, 2, 3, 5} : A[i].kind = "counter" /\ A[i].num = 100 /\ A[i].den = den
      BY <2>3, <2>12, <1>7
    <2>17. A[4] \in Others
      BY <2>3, <2>4, <2>12, <1>7
    <2> QED
      BY <2>10, <2>12, <2>13, <2>14, <2>15, <2>16, <2>17
  <1>9. ASSUME NEW met \in Metrics \ SpecialMetrics, NEW n \in SUBSET Nat
        PROVE  opt(met, n) \in Seq(Plain)
    <2>1. Fits("cpu", Host, met, "count", {}) /\ "cpu" \in SourceNames /\ "count" \in Units
      BY <1>9 DEF Fits, SourceNames, Units, SpecialMetrics, TileMetrics
    <2>2. or_else(n, 0) \in Int /\ InRange(Host, met, "gauge", or_else(n, 0))
      BY OrElseNat DEF InRange, SpecialMetrics, ShareMetrics
    <2>3. ~Marked(Host, met)
      BY ThingIsNotHost
      DEF Marked, Processing, Sizing, SpecialMetrics, ProcessorMetrics, SizeMetrics
    <2>4. gauge("cpu", Host, met, "count", or_else(n, 0)) \in Plain
      BY <2>1, <2>2, <2>3, <1>6, GoodGauge
    <2> QED
      BY <2>4 DEF When
  <1>10. B \in Seq(Plain)
    <2>1. /\ Fits("cpu", Host, "ctx_switches", "count", {}) /\ "cpu" \in SourceNames
          /\ "count" \in Units /\ "ctx_switches" \in Metrics
      BY DEF Fits, SourceNames, TileMetrics, Units, Metrics, HostMetrics
    <2>2. or_else(f.ctxt, 0) \in Int /\ InRange(Host, "ctx_switches", "counter", or_else(f.ctxt, 0))
      BY <1>2, OrElseNat DEF InRange, ShareMetrics
    <2>3. ~Marked(Host, "ctx_switches")
      BY ThingIsNotHost DEF Marked, Processing, Sizing, ProcessorMetrics, SizeMetrics
    <2>4. counter("cpu", Host, "ctx_switches", "count", or_else(f.ctxt, 0)) \in Plain
      BY <2>1, <2>2, <2>3, <1>6, GoodCounter
    <2> QED
      BY <2>4 DEF When
  <1>11. C \in Seq(Plain)
    <2>1. ASSUME NEW i \in 1..Len(f.cores) PROVE core(i) \in Plain
      <3>1. PICK x \in Things : x = child("cpu", i)
        <4>1. i \in Nat
          BY <1>4
        <4>2. "cpu" \in Kinds /\ i \in Names
          BY <4>1 DEF Kinds, Names
        <4>3. child("cpu", i) \in Things
          BY <4>2 DEF child, Things
        <4> QED
          BY <4>3
      <3>2. busy(f.cores[i]) \in Int
        BY <1>2, BusyType
      <3>3. /\ Fits("cpu", x, "usage", "percent", {}) /\ "cpu" \in SourceNames
            /\ InRange(x, "usage", "counter", busy(f.cores[i])) /\ x \in Entities
            /\ "percent" \in Units /\ "usage" \in Metrics
        BY ThingFits DEF SourceNames, Units, Metrics, ThingMetrics, Entities
      <3>4. ~Marked(x, "usage") /\ 100 \in Int
        BY ThingIsNotHost DEF Marked, Processing, Sizing
      <3>5. with_scale(counter("cpu", x, "usage", "percent", busy(f.cores[i])), 100,
                       c.clock_ticks) \in Plain
        BY <3>2, <3>3, <3>4, <1>5, GoodScaled
      <3> QED
        BY <3>1, <3>5
    <2> HIDE DEF core
    <2> QED
      BY <2>1, <1>4
  <1>12. /\ opt("procs_running", f.running) \in Seq(Plain)
         /\ opt("procs_blocked", f.blocked) \in Seq(Plain)
    <2>1. /\ "procs_running" \in Metrics \ SpecialMetrics
          /\ "procs_blocked" \in Metrics \ SpecialMetrics
      BY DEF SpecialMetrics, Metrics, HostMetrics
    <2> HIDE DEF opt
    <2> QED
      BY <2>1, <1>2, <1>9
  <1> HIDE DEF A, B, C, opt
  <1>13. Processor(A)
    <2>1. \A i \in 6..Len(A) : A[i] \in Others
      BY <1>8
    <2> QED
      BY <2>1, <1>8 DEF Processor
  <1>14. PICK x \in Seq(Plain), y \in Seq(Plain), v \in Seq(Plain), w \in Seq(Plain) :
           /\ x = opt("procs_running", f.running) /\ y = opt("procs_blocked", f.blocked)
           /\ v = B /\ w = C
    BY <1>10, <1>11, <1>12
  <1>15. /\ x \in Seq(Others) /\ y \in Seq(Others) /\ v \in Seq(Others) /\ w \in Seq(Others)
         /\ x \in Seq(Unsized) /\ y \in Seq(Unsized) /\ v \in Seq(Unsized) /\ w \in Seq(Unsized)
         /\ A \in Seq(Good)
    BY <1>8, PlainSeq
  <1>16. A \o x \in Seq(Good) /\ Processor(A \o x)
    BY <1>13, <1>15, ProcessorLeads
  <1>17. A \o x \o y \in Seq(Good) /\ Processor(A \o x \o y)
    BY <1>15, <1>16, ProcessorLeads
  <1>18. A \o x \o y \o v \in Seq(Good) /\ Processor(A \o x \o y \o v)
    BY <1>15, <1>17, ProcessorLeads
  <1>19. Processor(A \o x \o y \o v \o w)
    BY <1>15, <1>18, ProcessorLeads
  <1>20. A \o x \o y \o v \o w \in Seq(Unsized)
    BY <1>8, <1>15, ConcatType
  <1> QED
    BY <1>3, <1>14, <1>19, <1>20

\* Names used all over.
LEMMA NameFacts ==
    /\ Host \in Entities
    /\ \A u \in {"percent", "count", "bytes", "seconds", "operations", "packets", "celsius"} :
         u \in Units
    /\ \A s \in {"cpu", "memory", "load", "filesystem", "diskio", "network", "tcp", "pressure",
                 "sensors", "cgroup", "process"} : s \in SourceNames
  BY DEF Entities, Units, SourceNames

\* An entity under the host is a thing.
LEMMA ChildIsThing ==
    ASSUME NEW k \in Kinds, NEW n \in Names
    PROVE  child(k, n) \in Things
  BY DEF child, Things

\* A series of a thing may be anything.
LEMMA ThingSeries ==
    ASSUME NEW src \in SourceNames, NEW ent \in Things, NEW met \in ThingMetrics,
           NEW unit \in Units, NEW val \in Int
    PROVE  /\ gauge(src, ent, met, unit, val) \in Plain
           /\ counter(src, ent, met, unit, val) \in Plain
           /\ \A max \in Int : with_max(gauge(src, ent, met, unit, val), max) \in Plain
           /\ \A num \in Int : \A den \in Nat \ {0} :
                with_scale(counter(src, ent, met, unit, val), num, den) \in Plain
  <1>1. ent \in Entities /\ met \in Metrics
    BY DEF Entities, Metrics
  <1>2. /\ \A max : Fits(src, ent, met, unit, max)
        /\ InRange(ent, met, "gauge", val) /\ InRange(ent, met, "counter", val)
    BY ThingFits
  <1>0. ~Marked(ent, met)
    BY ThingIsNotHost DEF Marked, Processing, Sizing
  <1>3. gauge(src, ent, met, unit, val) \in Plain
    BY <1>0, <1>1, <1>2, GoodGauge
  <1>4. counter(src, ent, met, unit, val) \in Plain
    BY <1>0, <1>1, <1>2, GoodCounter
  <1>5. ASSUME NEW max \in Int PROVE with_max(gauge(src, ent, met, unit, val), max) \in Plain
    BY <1>0, <1>1, <1>2, GoodBounded
  <1>6. ASSUME NEW num \in Int, NEW den \in Nat \ {0}
        PROVE  with_scale(counter(src, ent, met, unit, val), num, den) \in Plain
    BY <1>0, <1>1, <1>2, GoodScaled
  <1> QED
    BY <1>3, <1>4, <1>5, <1>6

\* A series of the host that is no tile, from a source that has a section.
LEMMA HostSeries ==
    ASSUME NEW src \in SourceNames \ {"sensors", "filesystem"},
           NEW met \in HostMetrics \ SpecialMetrics, NEW unit \in Units, NEW val \in Int
    PROVE  /\ gauge(src, Host, met, unit, val) \in Plain
           /\ counter(src, Host, met, unit, val) \in Plain
           /\ \A max \in Int : with_max(gauge(src, Host, met, unit, val), max) \in Plain
  <1>1. Host \in Entities /\ met \in Metrics
    BY DEF Entities, Metrics
  <1>2. /\ \A max : Fits(src, Host, met, unit, max)
        /\ InRange(Host, met, "gauge", val) /\ InRange(Host, met, "counter", val)
    BY DEF Fits, InRange, SpecialMetrics, TileMetrics, ShareMetrics
  <1>0. ~Marked(Host, met)
    BY ThingIsNotHost
    DEF Marked, Processing, Sizing, SpecialMetrics, ProcessorMetrics, SizeMetrics
  <1>3. gauge(src, Host, met, unit, val) \in Plain
    BY <1>0, <1>1, <1>2, GoodGauge
  <1>4. counter(src, Host, met, unit, val) \in Plain
    BY <1>0, <1>1, <1>2, GoodCounter
  <1>5. ASSUME NEW max \in Int PROVE with_max(gauge(src, Host, met, unit, val), max) \in Plain
    BY <1>0, <1>1, <1>2, GoodBounded
  <1> QED
    BY <1>3, <1>4, <1>5

\* A share of the host's.
LEMMA HostShare ==
    ASSUME NEW src \in SourceNames, NEW met \in ShareMetrics, NEW val \in 0..100
    PROVE  gauge(src, Host, met, "percent", val) \in Plain
  <1>1. /\ Host \in Entities /\ met \in Metrics /\ "percent" \in Units /\ val \in Int
        /\ met \in HeadlineMetrics
    BY DEF Entities, Metrics, Units, HeadlineMetrics, HostMetrics, ShareMetrics
  <1>2. Fits(src, Host, met, "percent", {}) /\ InRange(Host, met, "gauge", val)
    BY <1>1 DEF Fits, InRange
  <1>3. ~Marked(Host, met)
    BY ThingIsNotHost
    DEF Marked, Processing, Sizing, ShareMetrics, ProcessorMetrics, SizeMetrics
  <1> QED
    BY <1>1, <1>2, <1>3, GoodGauge

\* A part of a whole is between nothing and all of it, in per cent.
LEMMA PartOfWhole ==
    ASSUME NEW total \in Nat \ {0}, NEW part \in 0..total
    PROVE  (part * 100) \div total \in 0..100
  <1>1. PICK a \in Nat : a = part * 100
    OBVIOUS
  <1>2. a <= 100 * total
    BY <1>1
  <1>3. PICK q \in Int : q = a \div total
    OBVIOUS
  <1>4. q * total <= a /\ a < (q + 1) * total
    BY <1>3
  <1>5. q <= 100
    <2> SUFFICES ASSUME q >= 101 PROVE FALSE
      OBVIOUS
    <2>1. 101 * total <= q * total
      BY TimesOrder
    <2> QED
      BY <1>2, <1>4, <2>1
  <1>6. q >= 0
    <2> SUFFICES ASSUME q + 1 <= 0 PROVE FALSE
      OBVIOUS
    <2>1. (q + 1) * total <= 0 * total
      BY TimesOrder
    <2> QED
      BY <1>4, <2>1
  <1> QED
    BY <1>1, <1>3, <1>5, <1>6

\* memory.rs: the series of memory and swap, whatever lines the host leaves out.
LEMMA MemoryGood ==
    ASSUME NEW f, NEW c, is_answer("memory", f)
    PROVE  memory(f, c) \in Seq(Others) /\ Paired(memory(f, c))
  <1> DEFINE of(k) == IF k \in DOMAIN f THEN f[k] ELSE 0
             host(met, unit, v) == gauge("memory", Host, met, unit, v)
             total == of("MemTotal")
             raw == IF "MemAvailable" \in DOMAIN f THEN f["MemAvailable"]
                      ELSE of("MemFree") + of("Buffers") + of("Cached")
             available == Capped(raw, total)
             used == total - available
             plain(k, met) == When(k \in DOMAIN f, <<host(met, "bytes", of(k))>>)
             swap == of("SwapTotal")
             swapUsed == swap - Smaller(of("SwapFree"), swap)
             A == <<host("mem_usage", "percent", (used * 100) \div total),
                    with_max(host("mem_used", "bytes", used), total),
                    host("mem_total", "bytes", total), host("mem_available", "bytes", available)>>
             B == <<host("swap_usage", "percent", (swapUsed * 100) \div swap),
                    with_max(host("swap_used", "bytes", swapUsed), swap),
                    host("swap_total", "bytes", swap)>>
  <1>1. f \in [DOMAIN f -> Nat]
    BY DEF is_answer, Partial
  <1>2. \A k : of(k) \in Nat
    BY <1>1
  <1>3. memory(f, c) =
          When(total > 0, A \o plain("MemFree", "mem_free") \o plain("Cached", "mem_cached")
                            \o plain("Buffers", "mem_buffers") \o When(swap > 0, B))
    BY DEF memory
  <1>4. raw \in Nat
    <2>1. CASE "MemAvailable" \in DOMAIN f
      BY <2>1, <1>1
    <2>2. CASE "MemAvailable" \notin DOMAIN f
      <3>1. of("MemFree") \in Nat /\ of("Buffers") \in Nat /\ of("Cached") \in Nat
        BY <1>2
      <3> HIDE DEF of
      <3> QED
        BY <2>2, <3>1
    <2> QED
      BY <2>1, <2>2
  <1>5. total \in Nat /\ swap \in Nat /\ of("SwapFree") \in Nat
    BY <1>2
  <1> HIDE DEF raw, total, swap
  <1>6. available \in Nat /\ used \in 0..total
    BY <1>4, <1>5 DEF Capped, Smaller
  <1>7. swapUsed \in 0..swap
    <2> HIDE DEF of
    <2> QED
      BY <1>5 DEF Smaller
  <1> HIDE DEF available, used, swapUsed
  <1>8. "memory" \in SourceNames \ {"sensors", "filesystem"} /\ "bytes" \in Units
    BY DEF SourceNames, Units
  <1>9. /\ \A m \in {"mem_available", "mem_free", "mem_cached", "mem_buffers", "swap_used",
                     "swap_total"} : m \in HostMetrics \ SpecialMetrics
        /\ "mem_usage" \in ShareMetrics /\ "swap_usage" \in ShareMetrics
        /\ "mem_used" \in Metrics /\ "mem_total" \in Metrics
    BY DEF Metrics, HostMetrics, SpecialMetrics, ShareMetrics
  <1>10. total > 0 => A \in Seq(Others) /\ Paired(A)
    <2> SUFFICES ASSUME total > 0 PROVE A \in Seq(Others) /\ Paired(A)
      OBVIOUS
    <2>1. (used * 100) \div total \in 0..100
      BY <1>5, <1>6, PartOfWhole
    <2>2. PICK a \in Plain : a = host("mem_usage", "percent", (used * 100) \div total)
      BY <2>1, <1>8, <1>9, HostShare
    <2>3. PICK d \in Plain : d = host("mem_available", "bytes", available)
      BY <1>5, <1>6, <1>8, <1>9, HostSeries
    <2>4. ASSUME NEW m \in {"mem_used", "mem_total"}
          PROVE  /\ \A max : Fits("memory", Host, m, "bytes", max)
                 /\ \A v : InRange(Host, m, "gauge", v)
                 /\ ~Processing(Host, m) /\ m \in Metrics
      BY <1>9 DEF Fits, InRange, TileMetrics, ShareMetrics, Processing, ProcessorMetrics
    <2>5. used \in Int /\ total \in Int /\ "memory" \in SourceNames /\ Host \in Entities
      BY <1>5, <1>6, <1>8, NameFacts
    <2>6. PICK b \in Others : /\ b = with_max(host("mem_used", "bytes", used), total)
                              /\ b.ent = Host /\ b.met = "mem_used" /\ b.kind = "gauge"
                              /\ b.val = used
      <3>1. /\ Fits("memory", Host, "mem_used", "bytes", {total}) /\ "mem_used" \in Metrics
            /\ InRange(Host, "mem_used", "gauge", used) /\ ~Processing(Host, "mem_used")
        BY <2>4
      <3>2. PICK b : b = with_max(host("mem_used", "bytes", used), total)
        OBVIOUS
      <3>3. /\ b \in Others /\ b.ent = Host /\ b.met = "mem_used" /\ b.kind = "gauge"
            /\ b.val = used
        BY <3>1, <3>2, <2>5, <1>8, GoodBounded
      <3> QED
        BY <3>2, <3>3
    <2>7. PICK e \in Others : /\ e = host("mem_total", "bytes", total)
                              /\ e.ent = Host /\ e.met = "mem_total" /\ e.kind = "gauge"
                              /\ e.val = total
      BY <2>4, <2>5, <1>8, GoodGauge
    <2>8. A = <<a, b, e, d>>
      BY <2>2, <2>3, <2>6, <2>7
    <2> HIDE DEF A
    <2>9. a \in Others /\ d \in Others /\ ~Sizing(a.ent, a.met) /\ ~Sizing(d.ent, d.met)
      BY DEF Plain, Others
    <2>10. A \in Seq(Others)
      BY <2>8, <2>9
    <2>11. Coupled(A, <<Host, "mem_used">>, <<Host, "mem_total">>)
      <3>1. /\ Id(b) = <<Host, "mem_used">> /\ Id(e) = <<Host, "mem_total">>
            /\ <<Host, "mem_used">> # <<Host, "mem_total">>
        BY <2>6, <2>7 DEF Id
      <3>2. /\ Id(a) \notin {<<Host, "mem_used">>, <<Host, "mem_total">>}
            /\ Id(d) \notin {<<Host, "mem_used">>, <<Host, "mem_total">>}
        BY <2>9 DEF Sizing, SizeMetrics, Id
      <3>3. b.val \in 0..e.val
        BY <2>6, <2>7, <1>6
      <3> QED
        BY <3>1, <3>2, <3>3, <2>6, <2>7, <2>8, FourCoupled
    <2>12. Coupled(A, <<Root, "used">>, <<Root, "total">>)
      <3>1. \A i \in 1..Len(A) : A[i] \in {a, b, e, d}
        BY <2>8
      <3>2. \A x \in {a, b, e, d} : x.ent # Root
        BY <2>6, <2>7, <2>9, ThingIsNotHost DEF Sizing
      <3>3. \A i \in 1..Len(A) : Id(A[i]) # <<Root, "used">> /\ Id(A[i]) # <<Root, "total">>
        BY <3>1, <3>2 DEF Id
      <3> QED
        BY <3>3 DEF Coupled
    <2> QED
      BY <2>10, <2>11, <2>12 DEF Paired
  <1>11. swap > 0 => B \in Seq(Plain)
    <2> SUFFICES ASSUME swap > 0 PROVE B \in Seq(Plain)
      OBVIOUS
    <2>1. (swapUsed * 100) \div swap \in 0..100
      BY <1>5, <1>7, PartOfWhole
    <2>2. host("swap_usage", "percent", (swapUsed * 100) \div swap) \in Plain
      BY <2>1, <1>8, <1>9, HostShare
    <2>3. with_max(host("swap_used", "bytes", swapUsed), swap) \in Plain
      BY <1>5, <1>7, <1>8, <1>9, HostSeries
    <2>4. host("swap_total", "bytes", swap) \in Plain
      BY <1>5, <1>8, <1>9, HostSeries
    <2> HIDE DEF host
    <2> QED
      BY <2>2, <2>3, <2>4
  <1>12. ASSUME NEW k, NEW m \in HostMetrics \ SpecialMetrics PROVE plain(k, m) \in Seq(Plain)
    <2>1. of(k) \in Int
      BY <1>2
    <2> HIDE DEF of
    <2>2. host(m, "bytes", of(k)) \in Plain
      BY <2>1, <1>8, HostSeries
    <2> HIDE DEF host
    <2> QED
      BY <2>2 DEF When
  <1>13. /\ plain("MemFree", "mem_free") \in Seq(Plain)
         /\ plain("Cached", "mem_cached") \in Seq(Plain)
         /\ plain("Buffers", "mem_buffers") \in Seq(Plain)
    <2> HIDE DEF plain
    <2> QED
      BY <1>9, <1>12
  <1>14. When(swap > 0, B) \in Seq(Plain)
    <2> HIDE DEF B
    <2> QED
      BY <1>11 DEF When
  <1>15. CASE total > 0
    <2> HIDE DEF A
    <2>1. PICK x \in Seq(Plain), y \in Seq(Plain), z \in Seq(Plain), w \in Seq(Plain) :
            /\ x = plain("MemFree", "mem_free") /\ y = plain("Cached", "mem_cached")
            /\ z = plain("Buffers", "mem_buffers") /\ w = When(swap > 0, B)
      <3> HIDE DEF plain, B
      <3> QED
        BY <1>13, <1>14
    <2>2. memory(f, c) = A \o x \o y \o z \o w
      BY <2>1, <1>3, <1>15 DEF When
    <2>3. /\ x \in Seq(Others) /\ y \in Seq(Others) /\ z \in Seq(Others) /\ w \in Seq(Others)
          /\ x \in Seq(Good) /\ y \in Seq(Good) /\ z \in Seq(Good) /\ w \in Seq(Good)
          /\ A \in Seq(Others) /\ A \in Seq(Good)
      BY <1>10, <1>15, PlainSeq
    <2>4. Paired(A) /\ Paired(x) /\ Paired(y) /\ Paired(z) /\ Paired(w)
      BY <1>10, <1>15, PlainSeq, UnsizedPaired
    <2>5. A \o x \in Seq(Good) /\ Paired(A \o x)
      BY <2>3, <2>4, ConcatType, PairedConcat
    <2>6. A \o x \o y \in Seq(Good) /\ Paired(A \o x \o y)
      BY <2>3, <2>4, <2>5, ConcatType, PairedConcat
    <2>7. A \o x \o y \o z \in Seq(Good) /\ Paired(A \o x \o y \o z)
      BY <2>3, <2>4, <2>6, ConcatType, PairedConcat
    <2>8. Paired(A \o x \o y \o z \o w)
      BY <2>3, <2>4, <2>7, PairedConcat
    <2>9. A \o x \o y \o z \o w \in Seq(Others)
      BY <2>3, ConcatType
    <2> QED
      BY <2>2, <2>8, <2>9
  <1>16. CASE ~(total > 0)
    <2>1. memory(f, c) = <<>>
      BY <1>3, <1>16 DEF When
    <2>2. <<>> \in Seq(Others) /\ <<>> \in Seq(Unsized)
      OBVIOUS
    <2> QED
      BY <2>1, <2>2, UnsizedPaired
  <1> QED
    BY <1>15, <1>16

\* load.rs: the averages, bounded by the processors, and the time since the host started.
LEMMA LoadGood ==
    ASSUME NEW f, NEW c, CapsOK(c), is_answer("load", f)
    PROVE  load(f, c) \in Seq(Plain)
  <1> DEFINE host(met, unit, v) == gauge("load", Host, met, unit, v)
             most == Larger(c.cpu_count, 1)
             avg(met, i) == with_max(host(met, "count", f.avg[i]), most)
             A == <<avg("load1", 1), avg("load5", 2), avg("load15", 3)>>
             B == When(f.procs > 0, <<host("procs_total", "count", f.procs)>>)
             D == When(f.uptime # {}, <<host("uptime", "seconds", or_else(f.uptime, 0))>>)
  <1>1. f \in [avg : {<<>>} \union (Nat \X Nat \X Nat), procs : Nat, uptime : Option(Nat)]
    BY DEF is_answer
  <1>2. /\ f.avg \in {<<>>} \union (Nat \X Nat \X Nat) /\ f.procs \in Nat
        /\ f.uptime \in SUBSET Nat
    BY <1>1, OptionType
  <1>3. load(f, c) = When(f.avg # <<>>, A \o B) \o D
    BY DEF load
  <1>4. most \in Int
    BY DEF CapsOK, Larger
  <1> HIDE DEF most
  <1>5. /\ "load" \in SourceNames \ {"sensors", "filesystem"} /\ "count" \in Units
        /\ "seconds" \in Units
    BY DEF SourceNames, Units
  <1>6. \A m \in {"load1", "load5", "load15", "procs_total", "uptime"} :
          m \in HostMetrics \ SpecialMetrics
    BY DEF HostMetrics, SpecialMetrics
  <1>7. f.avg # <<>> => A \in Seq(Plain)
    <2> SUFFICES ASSUME f.avg # <<>> PROVE A \in Seq(Plain)
      OBVIOUS
    <2>1. f.avg[1] \in Int /\ f.avg[2] \in Int /\ f.avg[3] \in Int
      BY <1>2
    <2>2. avg("load1", 1) \in Plain /\ avg("load5", 2) \in Plain /\ avg("load15", 3) \in Plain
      BY <2>1, <1>4, <1>5, <1>6, HostSeries
    <2> HIDE DEF avg
    <2> QED
      BY <2>2
  <1>8. B \in Seq(Plain)
    <2>1. host("procs_total", "count", f.procs) \in Plain
      BY <1>2, <1>5, <1>6, HostSeries
    <2> HIDE DEF host
    <2> QED
      BY <2>1 DEF When
  <1>9. D \in Seq(Plain)
    <2>1. or_else(f.uptime, 0) \in Int
      BY <1>2, OrElseNat
    <2>2. host("uptime", "seconds", or_else(f.uptime, 0)) \in Plain
      BY <2>1, <1>5, <1>6, HostSeries
    <2> HIDE DEF host
    <2> QED
      BY <2>2 DEF When
  <1> HIDE DEF A, B, D
  <1>10. When(f.avg # <<>>, A \o B) \in Seq(Plain)
    <2>1. CASE f.avg # <<>>
      BY <2>1, <1>7, <1>8, ConcatType DEF When
    <2>2. CASE f.avg = <<>>
      BY <2>2 DEF When
    <2> QED
      BY <2>1, <2>2
  <1> QED
    BY <1>3, <1>9, <1>10, ConcatType

\* diskio.rs: the series of the disks that are shown, and the host's totals.
LEMMA DiskioGood ==
    ASSUME NEW f, NEW c, is_answer("diskio", f)
    PROVE  diskio(f, c) \in Seq(Plain)
  <1> DEFINE s == f.disks
             shown(d) == d.name[1] \notin Virtual /\ ~(d.reads = 0 /\ d.writes = 0)
             kept(d) == shown(d) /\ Counted(d, f)
             R == [i \in DOMAIN s |-> IF kept(s[i]) THEN s[i].reads ELSE 0]
             W == [i \in DOMAIN s |-> IF kept(s[i]) THEN s[i].writes ELSE 0]
             ent(d) == child("disk", d.name)
             five(d) == <<counter("diskio", ent(d), "read_bytes", "bytes", d.reads),
                          counter("diskio", ent(d), "write_bytes", "bytes", d.writes),
                          counter("diskio", ent(d), "reads", "operations", d.reads),
                          counter("diskio", ent(d), "writes", "operations", d.writes),
                          gauge("diskio", ent(d), "in_flight", "count", 0)>>
             of(d) == When(shown(d), five(d))
             A == [i \in 1..Len(s) |-> of(s[i])]
             B == <<counter("diskio", Host, "disk_read", "bytes", Sum(R)),
                    counter("diskio", Host, "disk_write", "bytes", Sum(W))>>
             Disk == [name : Seq(STRING), hw : BOOLEAN, reads : Nat, writes : Nat]
  <1>1. s \in Seq(Disk)
    BY DEF is_answer
  <1>2. diskio(f, c) = FlattenSeq(A) \o B
    BY DEF diskio, ForEach
  <1>3. Len(s) \in Nat /\ DOMAIN s = 1..Len(s) /\ \A i \in 1..Len(s) : s[i] \in Disk
    BY <1>1, SeqFacts
  <1>4. "diskio" \in SourceNames \ {"sensors", "filesystem"} /\ "bytes" \in Units
        /\ "operations" \in Units /\ "count" \in Units
    BY DEF SourceNames, Units
  <1>5. \A m \in {"read_bytes", "write_bytes", "reads", "writes", "in_flight"} : m \in ThingMetrics
    BY DEF ThingMetrics
  <1>6. \A m \in {"disk_read", "disk_write"} : m \in HostMetrics \ SpecialMetrics
    BY DEF HostMetrics, SpecialMetrics
  <1> HIDE DEF s, kept
  <1>7. R \in Seq(Int) /\ W \in Seq(Int)
    <2>1. \A i \in 1..Len(s) : s[i].reads \in Int /\ s[i].writes \in Int
      BY <1>3
    <2>2. ASSUME NEW i \in 1..Len(s)
          PROVE  /\ (IF kept(s[i]) THEN s[i].reads ELSE 0) \in Int
                 /\ (IF kept(s[i]) THEN s[i].writes ELSE 0) \in Int
      BY <2>1
    <2> QED
      BY <2>2, <1>3
  <1>8. Sum(R) \in Int /\ Sum(W) \in Int
    BY <1>7, SumType
  <1> HIDE DEF R, W
  <1>9. B \in Seq(Plain)
    <2>1. counter("diskio", Host, "disk_read", "bytes", Sum(R)) \in Plain
      BY <1>8, <1>4, <1>6, HostSeries
    <2>2. counter("diskio", Host, "disk_write", "bytes", Sum(W)) \in Plain
      BY <1>8, <1>4, <1>6, HostSeries
    <2> QED
      BY <2>1, <2>2
  <1>10. ASSUME NEW d \in Disk PROVE of(d) \in Seq(Plain)
    <2>1. d.name \in Names /\ d.reads \in Int /\ d.writes \in Int
      BY DEF Names
    <2>2. PICK x \in Things : x = ent(d)
      <3>1. "disk" \in Kinds
        BY DEF Kinds
      <3> QED
        BY <3>1, <2>1, ChildIsThing
    <2>3. /\ counter("diskio", x, "read_bytes", "bytes", d.reads) \in Plain
          /\ counter("diskio", x, "write_bytes", "bytes", d.writes) \in Plain
      BY <2>1, <1>4, <1>5, ThingSeries
    <2>4. /\ counter("diskio", x, "reads", "operations", d.reads) \in Plain
          /\ counter("diskio", x, "writes", "operations", d.writes) \in Plain
      BY <2>1, <1>4, <1>5, ThingSeries
    <2>5. gauge("diskio", x, "in_flight", "count", 0) \in Plain
      <3>1. 0 \in Int
        OBVIOUS
      <3> QED
        BY <3>1, <1>4, <1>5, ThingSeries
    <2>6. five(d) \in Seq(Plain)
      BY <2>2, <2>3, <2>4, <2>5
    <2> HIDE DEF five, shown
    <2> QED
      BY <2>6 DEF When
  <1> HIDE DEF of
  <1>11. A \in Seq(Seq(Plain))
    BY <1>3, <1>10
  <1> HIDE DEF A, B
  <1>12. FlattenSeq(A) \in Seq(Plain)
    BY <1>11, FlattenType
  <1> QED
    BY <1>2, <1>9, <1>12, ConcatType

\* network.rs: the series of the interfaces that are shown, and the host's totals.
LEMMA NetworkGood ==
    ASSUME NEW f, NEW c, is_answer("network", f)
    PROVE  network(f, c) \in Seq(Plain)
  <1> DEFINE s == f.ifaces
             shown(i) == i.name = "lo" \/ ~(i.rx = 0 /\ i.tx = 0)
             kept(i) == shown(i) /\ counts_toward_total(i, f)
             R == [k \in DOMAIN s |-> IF kept(s[k]) THEN s[k].rx ELSE 0]
             W == [k \in DOMAIN s |-> IF kept(s[k]) THEN s[k].tx ELSE 0]
             names == <<"rx_packets", "tx_packets", "rx_errors", "tx_errors", "rx_dropped",
                        "tx_dropped">>
             two(i) == <<counter("network", child("net", i.name), "rx_bytes", "bytes", i.rx),
                         counter("network", child("net", i.name), "tx_bytes", "bytes", i.tx)>>
             six(i) == [k \in 1..6 |-> counter("network", child("net", i.name), names[k],
                                               IF k <= 2 THEN "packets" ELSE "count", 0)]
             of(i) == When(shown(i), two(i) \o six(i))
             A == [k \in 1..Len(s) |-> of(s[k])]
             B == <<counter("network", Host, "net_rx", "bytes", Sum(R)),
                    counter("network", Host, "net_tx", "bytes", Sum(W))>>
             Iface == [name : STRING, hw : BOOLEAN, rx : Nat, tx : Nat]
  <1>1. s \in Seq(Iface)
    BY DEF is_answer
  <1>2. network(f, c) = FlattenSeq(A) \o B
    BY DEF network, ForEach
  <1>3. Len(s) \in Nat /\ DOMAIN s = 1..Len(s) /\ \A k \in 1..Len(s) : s[k] \in Iface
    BY <1>1, SeqFacts
  <1>4. "network" \in SourceNames \ {"sensors", "filesystem"} /\ "bytes" \in Units
        /\ "packets" \in Units /\ "count" \in Units
    BY DEF SourceNames, Units
  <1>5. "rx_bytes" \in ThingMetrics /\ "tx_bytes" \in ThingMetrics
        /\ \A k \in 1..6 : names[k] \in ThingMetrics
    BY DEF ThingMetrics
  <1>6. \A m \in {"net_rx", "net_tx"} : m \in HostMetrics \ SpecialMetrics
    BY DEF HostMetrics, SpecialMetrics
  <1> HIDE DEF s, kept, names
  <1>7. R \in Seq(Int) /\ W \in Seq(Int)
    <2>1. \A k \in 1..Len(s) : s[k].rx \in Int /\ s[k].tx \in Int
      BY <1>3
    <2>2. ASSUME NEW k \in 1..Len(s)
          PROVE  /\ (IF kept(s[k]) THEN s[k].rx ELSE 0) \in Int
                 /\ (IF kept(s[k]) THEN s[k].tx ELSE 0) \in Int
      BY <2>1
    <2> QED
      BY <2>2, <1>3
  <1>8. Sum(R) \in Int /\ Sum(W) \in Int
    BY <1>7, SumType
  <1> HIDE DEF R, W
  <1>9. B \in Seq(Plain)
    <2>1. counter("network", Host, "net_rx", "bytes", Sum(R)) \in Plain
      BY <1>8, <1>4, <1>6, HostSeries
    <2>2. counter("network", Host, "net_tx", "bytes", Sum(W)) \in Plain
      BY <1>8, <1>4, <1>6, HostSeries
    <2> QED
      BY <2>1, <2>2
  <1>10. ASSUME NEW i \in Iface PROVE of(i) \in Seq(Plain)
    <2>1. i.name \in Names /\ i.rx \in Int /\ i.tx \in Int
      BY DEF Names
    <2>2. PICK ent \in Things : ent = child("net", i.name)
      <3>1. "net" \in Kinds
        BY DEF Kinds
      <3> QED
        BY <3>1, <2>1, ChildIsThing
    <2>3. /\ counter("network", ent, "rx_bytes", "bytes", i.rx) \in Plain
          /\ counter("network", ent, "tx_bytes", "bytes", i.tx) \in Plain
      BY <2>1, <1>4, <1>5, ThingSeries
    <2>4. two(i) \in Seq(Plain)
      BY <2>2, <2>3
    <2>5. ASSUME NEW k \in 1..6
          PROVE  counter("network", ent, names[k],
                         IF k <= 2 THEN "packets" ELSE "count", 0) \in Plain
      <3>1. 0 \in Int
        OBVIOUS
      <3>2. PICK unit \in Units : unit = IF k <= 2 THEN "packets" ELSE "count"
        BY <1>4
      <3>3. counter("network", ent, names[k], unit, 0) \in Plain
        BY <3>1, <1>4, <1>5, ThingSeries
      <3> QED
        BY <3>2, <3>3
    <2>6. six(i) \in Seq(Plain)
      <3>1. \A k \in 1..6 : counter("network", child("net", i.name), names[k],
                                    IF k <= 2 THEN "packets" ELSE "count", 0) \in Plain
        BY <2>2, <2>5
      <3> QED
        BY <3>1
    <2> HIDE DEF two, six, shown
    <2>7. two(i) \o six(i) \in Seq(Plain)
      BY <2>4, <2>6, ConcatType
    <2> QED
      BY <2>7 DEF When
  <1> HIDE DEF of
  <1>11. A \in Seq(Seq(Plain))
    BY <1>3, <1>10
  <1> HIDE DEF A, B
  <1>12. FlattenSeq(A) \in Seq(Plain)
    BY <1>11, FlattenType
  <1> QED
    BY <1>2, <1>9, <1>12, ConcatType

\* filesystem.rs: the series of the file systems; the host has one, and only with a root.
LEMMA FilesystemGood ==
    ASSUME NEW f, NEW c, is_answer("filesystem", f)
    PROVE  filesystem(f, c) \in Seq(Others) /\ Paired(filesystem(f, c))
  <1> DEFINE shown(fs) == ~is_pseudo(fs) /\ fs.total > 0
             roots == {i \in 1..Len(f) : shown(f[i]) /\ f[i].mount = <<>>}
             last == CHOOSE i \in roots : \A j \in roots : i >= j
             four(fs) ==
               <<gauge("filesystem", child("fs", fs.mount), "usage", "percent", usage_percent(fs)),
                 with_max(gauge("filesystem", child("fs", fs.mount), "used", "bytes", fs.used),
                          fs.total),
                 gauge("filesystem", child("fs", fs.mount), "total", "bytes", fs.total),
                 gauge("filesystem", child("fs", fs.mount), "available", "bytes", fs.available)>>
             of(fs) == When(shown(fs), four(fs))
             A == [i \in 1..Len(f) |-> of(f[i])]
             B == When(roots # {}, <<gauge("filesystem", Host, "disk_usage", "percent",
                                           usage_percent(f[last]))>>)
             Fs == {fs \in [device : STRING, mount : Seq(STRING), total : Nat, used : Nat,
                             available : Nat] : fs.used <= fs.total}
  <1>1. f \in Seq(Fs)
    BY DEF is_answer
  <1>2. filesystem(f, c) = FlattenSeq(A) \o B
    BY DEF filesystem, ForEach
  <1>3. Len(f) \in Nat /\ \A i \in 1..Len(f) : f[i] \in Fs
    BY <1>1, SeqFacts
  <1>4. "filesystem" \in SourceNames /\ "bytes" \in Units /\ "percent" \in Units
        /\ "disk_usage" \in ShareMetrics
    BY DEF SourceNames, Units, ShareMetrics
  <1>5. \A m \in {"usage", "used", "total", "available"} : m \in Metrics
    BY DEF Metrics, ThingMetrics
  <1>6. ASSUME NEW fs \in Fs PROVE usage_percent(fs) \in 0..100
    <2>1. fs.total \in Nat /\ fs.used \in Nat /\ fs.used <= fs.total
      OBVIOUS
    <2>2. CASE fs.total = 0
      BY <2>2 DEF usage_percent
    <2>3. CASE fs.total # 0
      <3>1. fs.total \in Nat \ {0} /\ fs.used \in 0..fs.total
        BY <2>1, <2>3
      <3>2. (fs.used * 100) \div fs.total \in 0..100
        BY <3>1, PartOfWhole
      <3> QED
        BY <2>3, <3>2 DEF usage_percent
    <2> QED
      BY <2>2, <2>3
  <1> HIDE DEF shown
  <1>7. B \in Seq(Plain)
    <2>1. CASE roots = {}
      BY <2>1 DEF When
    <2>2. CASE roots # {}
      <3>1. roots \in SUBSET Int /\ \A i \in roots : i <= Len(f)
        BY <1>3
      <3>2. \E i \in roots : \A j \in roots : i >= j
        <4> HIDE DEF roots
        <4>1. PICK b \in Int : b = Len(f)
          BY <1>3
        <4> QED
          BY <2>2, <3>1, <4>1, Greatest
      <3>3. last \in roots
        <4> HIDE DEF roots
        <4> QED
          BY <3>2
      <3>4. last \in 1..Len(f)
        <4> HIDE DEF last
        <4> QED
          BY <3>3
      <3> HIDE DEF last, roots
      <3>5. usage_percent(f[last]) \in 0..100
        BY <3>4, <1>3, <1>6
      <3>6. gauge("filesystem", Host, "disk_usage", "percent", usage_percent(f[last])) \in Plain
        BY <3>5, <1>4, HostShare
      <3> QED
        BY <3>6 DEF When
    <2> QED
      BY <2>1, <2>2
  <1>8. ASSUME NEW fs \in Fs PROVE of(fs) \in Seq(Others) /\ Paired(of(fs))
    <2>1. /\ fs.mount \in Seq(STRING) /\ fs.total \in Int /\ fs.used \in 0..fs.total
          /\ fs.used \in Int /\ fs.available \in Int /\ usage_percent(fs) \in Int
      <3>1. /\ fs.mount \in Seq(STRING) /\ fs.total \in Nat /\ fs.used \in Nat
            /\ fs.used <= fs.total /\ fs.available \in Nat
        OBVIOUS
      <3> HIDE DEF Fs
      <3>2. usage_percent(fs) \in Int
        <4>1. usage_percent(fs) \in 0..100
          BY <1>6
        <4>2. \A n \in 0..100 : n \in Int
          OBVIOUS
        <4> QED
          BY <4>1, <4>2, Zenon
      <3> QED
        BY <3>1, <3>2
    <2>2. PICK ent \in Mounts : ent = child("fs", fs.mount)
      BY <2>1 DEF child, Mounts
    <2>3. ent \in Entities /\ ent # Host /\ \A m : ~Processing(ent, m)
      BY ThingIsNotHost DEF Entities, Processing
    <2>4. /\ \A m, unit, max : Fits("filesystem", ent, m, unit, max)
          /\ \A m, v : InRange(ent, m, "gauge", v)
      BY ThingFits
    <2>5. PICK a \in Others :
            /\ a = gauge("filesystem", ent, "usage", "percent", usage_percent(fs))
            /\ a.ent = ent /\ a.met = "usage"
      BY <2>1, <2>3, <2>4, <1>4, <1>5, GoodGauge
    <2>6. PICK b \in Others :
            /\ b = with_max(gauge("filesystem", ent, "used", "bytes", fs.used), fs.total)
            /\ b.ent = ent /\ b.met = "used" /\ b.kind = "gauge" /\ b.val = fs.used
      <3>1. /\ Fits("filesystem", ent, "used", "bytes", {fs.total}) /\ "used" \in Metrics
            /\ InRange(ent, "used", "gauge", fs.used) /\ ~Processing(ent, "used")
        BY <2>3, <2>4, <1>5
      <3>2. PICK b : b = with_max(gauge("filesystem", ent, "used", "bytes", fs.used), fs.total)
        OBVIOUS
      <3>3. /\ b \in Others /\ b.ent = ent /\ b.met = "used" /\ b.kind = "gauge"
            /\ b.val = fs.used
        <4> HIDE DEF Fs
        <4> QED
          BY <3>1, <3>2, <2>1, <2>3, <1>4, GoodBounded
      <3> QED
        BY <3>2, <3>3
    <2>7. PICK e \in Others :
            /\ e = gauge("filesystem", ent, "total", "bytes", fs.total)
            /\ e.ent = ent /\ e.met = "total" /\ e.kind = "gauge" /\ e.val = fs.total
      BY <2>1, <2>3, <2>4, <1>4, <1>5, GoodGauge
    <2>8. PICK d \in Others :
            /\ d = gauge("filesystem", ent, "available", "bytes", fs.available)
            /\ d.ent = ent /\ d.met = "available"
      BY <2>1, <2>3, <2>4, <1>4, <1>5, GoodGauge
    <2>9. PICK q \in Seq(Others) : q = four(fs) /\ q = <<a, b, e, d>>
      <3>1. four(fs) = <<a, b, e, d>>
        BY <2>2, <2>5, <2>6, <2>7, <2>8
      <3>2. <<a, b, e, d>> \in Seq(Others)
        OBVIOUS
      <3> QED
        BY <3>1, <3>2
    <2>10. /\ Id(a) = <<ent, "usage">> /\ Id(b) = <<ent, "used">> /\ Id(e) = <<ent, "total">>
           /\ Id(d) = <<ent, "available">>
      BY <2>5, <2>6, <2>7, <2>8 DEF Id
    <2>11. Coupled(q, <<ent, "used">>, <<ent, "total">>)
      <3>1. /\ <<ent, "used">> # <<ent, "total">>
            /\ Id(a) \notin {<<ent, "used">>, <<ent, "total">>}
            /\ Id(d) \notin {<<ent, "used">>, <<ent, "total">>}
        BY <2>10
      <3>2. b.val \in 0..e.val
        BY <2>1, <2>6, <2>7
      <3>3. Coupled(<<a, b, e, d>>, <<ent, "used">>, <<ent, "total">>)
        <4> HIDE DEF Fs
        <4>1. PICK x, y : x = <<ent, "used">> /\ y = <<ent, "total">>
          OBVIOUS
        <4>2. /\ Id(b) = x /\ Id(e) = y /\ x # y /\ Id(a) \notin {x, y} /\ Id(d) \notin {x, y}
              /\ b.kind = "gauge" /\ e.kind = "gauge" /\ b.val \in 0..e.val
          BY <4>1, <3>1, <3>2, <2>6, <2>7, <2>10
        <4>3. Coupled(<<a, b, e, d>>, x, y)
          BY <4>2, FourCoupled
        <4> QED
          BY <4>1, <4>3
      <3> QED
        BY <3>3, <2>9
    <2>12. \A i \in 1..Len(q) : q[i].ent = ent
      BY <2>5, <2>6, <2>7, <2>8, <2>9
    <2>13. ASSUME NEW x, x # ent, NEW m, NEW n PROVE Coupled(q, <<x, m>>, <<x, n>>)
      <3>1. \A i \in 1..Len(q) : Id(q[i]) # <<x, m>> /\ Id(q[i]) # <<x, n>>
        BY <2>12, <2>13 DEF Id
      <3> QED
        BY <3>1 DEF Coupled
    <2>14. Paired(q)
      <3>1. Coupled(q, <<Root, "used">>, <<Root, "total">>)
        BY <2>11, <2>13
      <3>2. Coupled(q, <<Host, "mem_used">>, <<Host, "mem_total">>)
        BY <2>3, <2>13
      <3> QED
        BY <3>1, <3>2 DEF Paired
    <2>15. <<>> \in Seq(Others) /\ Paired(<<>>)
      <3>1. <<>> \in Seq(Others) /\ <<>> \in Seq(Unsized)
        OBVIOUS
      <3> QED
        BY <3>1, UnsizedPaired
    <2> HIDE DEF four
    <2> QED
      BY <2>9, <2>14, <2>15 DEF When
  <1> HIDE DEF of
  <1> DEFINE W == {q \in Seq(Others) : Paired(q)}
  <1>9. /\ W \in SUBSET Seq(Others) /\ <<>> \in W
        /\ \A a, b \in W : a \o b \in W
    <2>1. <<>> \in Seq(Others) /\ <<>> \in Seq(Unsized)
      OBVIOUS
    <2>2. ASSUME NEW a \in W, NEW b \in W PROVE a \o b \in W
      BY PlainSeq, ConcatType, PairedConcat
    <2> QED
      BY <2>1, <2>2, UnsizedPaired
  <1>10. A \in Seq(W)
    <2>1. \A i \in 1..Len(f) : of(f[i]) \in W
      BY <1>3, <1>8
    <2> HIDE DEF W
    <2> QED
      BY <2>1, <1>3
  <1> HIDE DEF A, B, W
  <1>11. FlattenSeq(A) \in W
    BY <1>9, <1>10, FlattenClosed
  <1>12. FlattenSeq(A) \in Seq(Others) /\ Paired(FlattenSeq(A))
    BY <1>11 DEF W
  <1>13. B \in Seq(Others) /\ B \in Seq(Good) /\ Paired(B)
    BY <1>7, PlainSeq, UnsizedPaired
  <1>14. FlattenSeq(A) \in Seq(Good)
    BY <1>12, PlainSeq
  <1> QED
    BY <1>2, <1>12, <1>13, <1>14, ConcatType, PairedConcat

\* A process of every place is found, so that each entry of the list is a process.
LEMMA LargestType ==
    ASSUME NEW S, NEW f \in Seq(S), \A i \in 1..Len(f) : f[i].rss \in Nat
    PROVE  Largest(f) \in Seq(S)
  <1> DEFINE user == {i \in 1..Len(f) : f[i].rss > 0}
             ahead(i, j) == f[i].rss > f[j].rss \/ (f[i].rss = f[j].rss /\ i < j)
             H(j) == {i \in user : ahead(i, j)}
             place(j) == Cardinality(H(j)) + 1
             N == Cardinality(user)
             P == [j \in user |-> place(j)]
  <1>1. PICK n \in Nat : n = Len(f)
    OBVIOUS
  <1>2. IsFiniteSet(user) /\ N \in Nat
    <2>1. IsFiniteSet(1..n)
      BY FS_Interval
    <2>2. user \in SUBSET (1..n)
      BY <1>1
    <2> HIDE DEF user
    <2>3. IsFiniteSet(user)
      BY <2>1, <2>2, FS_Subset
    <2> QED
      BY <2>3, FS_CardinalityType
  <1>3. \A i \in user : i \in 1..n /\ f[i].rss \in Nat /\ f[i] \in S
    BY <1>1
  <1>4. \A i, j, k \in user : ahead(i, j) /\ ahead(j, k) => ahead(i, k)
    <2> HIDE DEF user
    <2> QED
      BY <1>3
  <1>5. \A i \in user : ~ahead(i, i)
    <2> HIDE DEF user
    <2> QED
      BY <1>3
  <1>6. \A i, j \in user : i # j => ahead(i, j) \/ ahead(j, i)
    <2> HIDE DEF user
    <2> QED
      BY <1>3
  <1> HIDE DEF user, ahead
  <1>7. ASSUME NEW j \in user PROVE IsFiniteSet(H(j)) /\ Cardinality(H(j)) \in Nat
    <2>1. H(j) \in SUBSET user
      OBVIOUS
    <2> HIDE DEF H
    <2>2. IsFiniteSet(H(j))
      BY <2>1, <1>2, FS_Subset
    <2> QED
      BY <2>2, FS_CardinalityType
  <1>8. ASSUME NEW j \in user, NEW k \in user, ahead(j, k)
        PROVE  Cardinality(H(j)) < Cardinality(H(k))
    <2>1. H(j) \in SUBSET H(k)
      BY <1>4, <1>8
    <2>2. j \in H(k) /\ j \notin H(j)
      BY <1>5, <1>8
    <2>3. /\ IsFiniteSet(H(k)) /\ Cardinality(H(j)) \in Nat /\ Cardinality(H(k)) \in Nat
      BY <1>7
    <2> HIDE DEF H
    <2>4. /\ Cardinality(H(j)) <= Cardinality(H(k))
          /\ Cardinality(H(k)) = Cardinality(H(j)) => H(k) = H(j)
      BY <2>1, <2>3, FS_Subset
    <2>5. Cardinality(H(k)) # Cardinality(H(j))
      BY <2>2, <2>4
    <2> QED
      BY <2>3, <2>4, <2>5
  <1>9. ASSUME NEW j \in user PROVE place(j) \in 1..N
    <2>1. H(j) \in SUBSET user /\ j \notin H(j)
      BY <1>5
    <2>2. Cardinality(H(j)) \in Nat
      BY <1>7
    <2> HIDE DEF H
    <2>3. Cardinality(H(j)) <= N /\ (N = Cardinality(H(j)) => user = H(j))
      BY <2>1, <1>2, FS_Subset
    <2>4. N # Cardinality(H(j))
      BY <2>1, <2>3
    <2> HIDE DEF N
    <2> QED
      BY <2>2, <2>3, <2>4, <1>2
  <1>10. ASSUME NEW j \in user, NEW k \in user, place(j) = place(k) PROVE j = k
    <2>1. Cardinality(H(j)) \in Nat /\ Cardinality(H(k)) \in Nat
      BY <1>7
    <2>2. Cardinality(H(j)) = Cardinality(H(k))
      BY <2>1, <1>10
    <2>3. ASSUME ahead(j, k) PROVE FALSE
      <3>1. Cardinality(H(j)) < Cardinality(H(k))
        BY <2>3, <1>8
      <3> HIDE DEF H
      <3> QED
        BY <2>1, <2>2, <3>1
    <2>4. ASSUME ahead(k, j) PROVE FALSE
      <3>1. Cardinality(H(k)) < Cardinality(H(j))
        BY <2>4, <1>8
      <3> HIDE DEF H
      <3> QED
        BY <2>1, <2>2, <3>1
    <2> QED
      BY <2>3, <2>4, <1>6
  <1> HIDE DEF place
  <1>11. P \in [user -> 1..N] /\ \A j, k \in user : P[j] = P[k] => j = k
    BY <1>9, <1>10
  <1>12. P \in Injection(user, 1..N)
    <2> HIDE DEF P, N
    <2> QED
      BY <1>11 DEF Injection, IsInjective
  <1>13. IsFiniteSet(1..N) /\ Cardinality(1..N) = N
    <2> HIDE DEF N
    <2> QED
      BY <1>2, FS_Interval
  <1>14. P \in Surjection(user, 1..N)
    <2> HIDE DEF P
    <2> QED
      BY <1>12, <1>13, FS_Injection
  <1>15. \A m \in 1..N : \E j \in user : place(j) = m
    <2>1. \A m \in 1..N : \E j \in user : P[j] = m
      <3> HIDE DEF P, N
      <3> QED
        BY <1>14 DEF Surjection
    <2> QED
      BY <2>1
  <1> DEFINE M == Smaller(MAX_PROCESSES, N)
             pick(m) == CHOOSE j \in user : place(j) = m
  <1>16. M \in Nat /\ M <= N
    <2> HIDE DEF N
    <2> QED
      BY <1>2, MaxProcessesAssumption DEF Smaller
  <1>17. ASSUME NEW m \in 1..M PROVE f[pick(m)] \in S
    <2>1. m \in 1..N
      <3> HIDE DEF M, N
      <3> QED
        BY <1>2, <1>16
    <2>2. pick(m) \in user
      <3>1. \E j \in user : place(j) = m
        BY <2>1, <1>15
      <3> QED
        BY <3>1
    <2> HIDE DEF pick
    <2> QED
      BY <2>2, <1>3
  <1>18. Largest(f) = [m \in 1..M |-> f[pick(m)]]
    BY DEF Largest, user, ahead, place
  <1> HIDE DEF M, pick
  <1>19. [m \in 1..M |-> f[pick(m)]] \in Seq(S)
    BY <1>16, <1>17
  <1> QED
    BY <1>18, <1>19

\* process.rs: the series of the processes that are kept.
LEMMA ProcessGood ==
    ASSUME NEW f, NEW c, CapsOK(c), is_answer("process", f)
    PROVE  process(f, c) \in Seq(Plain)
  <1> DEFINE page == Larger(c.page_size, 1)
             of(p) == <<with_scale(counter("process", child("proc", p.pid), "cpu", "percent",
                                           p.ticks), 100, c.clock_ticks),
                        gauge("process", child("proc", p.pid), "rss", "bytes", p.rss * page)>>
             s == Largest(f)
             A == [i \in 1..Len(s) |-> of(s[i])]
             Proc == [pid : Nat, ticks : Nat, rss : Nat]
  <1>1. f \in Seq(Proc)
    BY DEF is_answer
  <1>2. s \in Seq(Proc)
    <2>1. \A i \in 1..Len(f) : f[i] \in Proc
      BY <1>1, SeqFacts
    <2>2. \A i \in 1..Len(f) : f[i].rss \in Nat
      BY <2>1
    <2> HIDE DEF Proc
    <2> QED
      BY <1>1, <2>2, LargestType
  <1>3. process(f, c) = FlattenSeq(A)
    BY DEF process, ForEach
  <1> HIDE DEF s
  <1>4. Len(s) \in Nat /\ \A i \in 1..Len(s) : s[i] \in Proc
    BY <1>2, SeqFacts
  <1>5. /\ page \in Int /\ c.clock_ticks \in Nat \ {0}
    BY DEF CapsOK, Larger
  <1> HIDE DEF page
  <1>6. /\ "process" \in SourceNames /\ "percent" \in Units /\ "bytes" \in Units
        /\ "cpu" \in ThingMetrics /\ "rss" \in ThingMetrics /\ "proc" \in Kinds
    BY DEF SourceNames, Units, ThingMetrics, Kinds
  <1>7. ASSUME NEW p \in Proc PROVE of(p) \in Seq(Plain)
    <2>1. p.pid \in Names /\ p.ticks \in Int /\ p.rss * page \in Int
      BY <1>5 DEF Names
    <2>2. PICK ent \in Things : ent = child("proc", p.pid)
      BY <2>1, <1>6, ChildIsThing
    <2>3. with_scale(counter("process", ent, "cpu", "percent", p.ticks), 100, c.clock_ticks)
            \in Plain
      <3>1. 100 \in Int
        OBVIOUS
      <3> QED
        BY <3>1, <2>1, <1>5, <1>6, ThingSeries
    <2>4. gauge("process", ent, "rss", "bytes", p.rss * page) \in Plain
      BY <2>1, <1>6, ThingSeries
    <2> QED
      BY <2>2, <2>3, <2>4
  <1> HIDE DEF of
  <1>8. A \in Seq(Seq(Plain))
    BY <1>4, <1>7
  <1> HIDE DEF A
  <1> QED
    BY <1>3, <1>8, FlattenType

\* pressure.rs: the stalls of the resources that answered.
LEMMA PressureGood ==
    ASSUME NEW f, NEW c, is_answer("pressure", f)
    PROVE  pressure(f, c) \in Seq(Plain)
  <1> DEFINE host(met, v) == gauge("pressure", Host, met, "percent", v)
             two(r) == <<host(StallMetrics[r][1], f[r].avg10),
                         host(StallMetrics[r][2], f[r].avg60)>>
             one(r) == When(f[r].full # {}, <<host(StallMetrics[r][3], or_else(f[r].full, 0))>>)
             of(r) == When(r \in DOMAIN f, two(r) \o one(r))
             s == <<"cpu", "memory", "io">>
             A == [i \in 1..Len(s) |-> of(s[i])]
  <1>1. f \in [DOMAIN f -> [avg10 : Nat, avg60 : Nat, full : Option(Nat)]]
    BY DEF is_answer, Partial
  <1>2. pressure(f, c) = FlattenSeq(A)
    BY DEF pressure, ForEach
  <1>3. Len(s) = 3 /\ \A i \in 1..3 : s[i] \in {"cpu", "memory", "io"}
    OBVIOUS
  <1> HIDE DEF s
  <1>4. ASSUME NEW r \in {"cpu", "memory", "io"}, NEW k \in 1..3
        PROVE  StallMetrics[r][k] \in HostMetrics \ SpecialMetrics
    <2>1. CASE r = "cpu"
      BY <2>1 DEF StallMetrics, HostMetrics, SpecialMetrics
    <2>2. CASE r = "memory"
      BY <2>2 DEF StallMetrics, HostMetrics, SpecialMetrics
    <2>3. CASE r = "io"
      BY <2>3 DEF StallMetrics, HostMetrics, SpecialMetrics
    <2> QED
      BY <2>1, <2>2, <2>3
  <1>5. ASSUME NEW met \in HostMetrics \ SpecialMetrics, NEW v \in Int PROVE host(met, v) \in Plain
    <2>1. "pressure" \in SourceNames \ {"sensors", "filesystem"} /\ "percent" \in Units
      BY DEF SourceNames, Units
    <2> QED
      BY <2>1, HostSeries
  <1> HIDE DEF host
  <1>6. ASSUME NEW r \in {"cpu", "memory", "io"} PROVE of(r) \in Seq(Plain)
    <2>1. CASE r \in DOMAIN f
      <3>1. f[r] \in [avg10 : Nat, avg60 : Nat, full : Option(Nat)]
        BY <1>1, <2>1
      <3>2. f[r].avg10 \in Int /\ f[r].avg60 \in Int /\ f[r].full \in SUBSET Nat
        BY <3>1, OptionType
      <3>3. or_else(f[r].full, 0) \in Int
        BY <3>2, OrElseNat
      <3>4. /\ StallMetrics[r][1] \in HostMetrics \ SpecialMetrics
            /\ StallMetrics[r][2] \in HostMetrics \ SpecialMetrics
            /\ StallMetrics[r][3] \in HostMetrics \ SpecialMetrics
        BY <1>4
      <3>5. two(r) \in Seq(Plain)
        <4>1. /\ host(StallMetrics[r][1], f[r].avg10) \in Plain
              /\ host(StallMetrics[r][2], f[r].avg60) \in Plain
          BY <3>2, <3>4, <1>5
        <4> QED
          BY <4>1
      <3>6. one(r) \in Seq(Plain)
        <4>1. host(StallMetrics[r][3], or_else(f[r].full, 0)) \in Plain
          BY <3>3, <3>4, <1>5
        <4> QED
          BY <4>1 DEF When
      <3> HIDE DEF two, one
      <3>7. two(r) \o one(r) \in Seq(Plain)
        BY <3>5, <3>6, ConcatType
      <3> QED
        BY <2>1, <3>7 DEF When
    <2>2. CASE r \notin DOMAIN f
      BY <2>2 DEF When
    <2> QED
      BY <2>1, <2>2
  <1> HIDE DEF of
  <1>7. A \in Seq(Seq(Plain))
    BY <1>3, <1>6
  <1> HIDE DEF A
  <1> QED
    BY <1>2, <1>7, FlattenType

\* sensors.rs: the readings, and the hottest processor as the host's own.
LEMMA SensorsGood ==
    ASSUME NEW f, NEW c, is_answer("sensors", f)
    PROVE  sensors(f, c) \in Seq(Plain)
  <1> DEFINE temps == {r.value : r \in {x \in Range(f) : is_reading(x) /\ is_cpu_temperature(x)}}
             top == CHOOSE t \in temps : \A u \in temps : t >= u
             g(r) == gauge("sensors", child("sensor", SensorName(r)), r.metric,
                           SensorUnit[r.metric], r.value)
             h(r) == IF critical(r) = {} THEN g(r) ELSE with_max(g(r), or_else(critical(r), 0))
             of(r) == When(is_reading(r), <<h(r)>>)
             A == When(temps # {}, <<gauge("sensors", Host, "cpu_temp", "celsius", top)>>)
             B == [i \in 1..Len(f) |-> of(f[i])]
             Sensor == [chip : STRING, key : STRING, metric : DOMAIN SensorUnit, label : STRING,
                        value : Int, crit : Option(Int)]
  <1>1. f \in Seq(Sensor)
    BY DEF is_answer
  <1>2. sensors(f, c) = A \o FlattenSeq(B)
    BY DEF sensors, ForEach
  <1>3. Len(f) \in Nat /\ DOMAIN f = 1..Len(f) /\ \A i \in 1..Len(f) : f[i] \in Sensor
    BY <1>1, SeqFacts
  <1>4. \A r \in Sensor : r.value \in Int
    OBVIOUS
  <1>5. "sensors" \in SourceNames /\ "celsius" \in Units /\ "sensor" \in Kinds
    BY DEF SourceNames, Units, Kinds
  <1>6. A \in Seq(Plain)
    <2>1. CASE temps = {}
      BY <2>1 DEF When
    <2>2. CASE temps # {}
      <3> DEFINE v == [i \in 1..Len(f) |-> f[i].value]
      <3>1. v \in Seq(Int) /\ Len(v) = Len(f)
        <4> HIDE DEF Sensor
        <4> QED
          BY <1>3, <1>4
      <3>2. PICK b \in Int : \A i \in 1..Len(v) : v[i] <= b /\ -v[i] <= b
        BY <3>1, ValuesBounded
      <3>3. ASSUME NEW t \in temps PROVE t \in Int /\ t <= b
        <4>1. PICK r \in Range(f) : t = r.value
          OBVIOUS
        <4>2. PICK i \in 1..Len(f) : r = f[i]
          BY <1>3 DEF Range
        <4>3. v[i] = t /\ i \in 1..Len(v)
          BY <4>1, <4>2, <3>1
        <4>4. t \in Int
          <5> HIDE DEF Sensor
          <5> QED
            BY <4>1, <4>2, <1>3, <1>4
        <4> HIDE DEF v, temps
        <4> QED
          BY <4>3, <4>4, <3>2
      <3> HIDE DEF temps, v
      <3>4. temps \in SUBSET Int
        BY <3>3
      <3>5. \E t \in temps : \A u \in temps : t >= u
        BY <2>2, <3>3, <3>4, Greatest
      <3>6. top \in temps
        BY <3>5
      <3> HIDE DEF top
      <3>7. top \in Int
        BY <3>6, <3>4
      <3>8. /\ "cpu_temp" \in Metrics /\ Fits("sensors", Host, "cpu_temp", "celsius", {})
            /\ Host \in Entities /\ InRange(Host, "cpu_temp", "gauge", top)
        BY DEF Metrics, HostMetrics, Fits, TileMetrics, HeadlineMetrics, Entities, InRange,
               ShareMetrics
      <3>9. ~Marked(Host, "cpu_temp")
        BY ThingIsNotHost DEF Marked, Processing, Sizing, ProcessorMetrics, SizeMetrics
      <3>10. gauge("sensors", Host, "cpu_temp", "celsius", top) \in Plain
        BY <3>7, <3>8, <3>9, <1>5, GoodGauge
      <3> QED
        BY <3>10 DEF When
    <2> QED
      BY <2>1, <2>2
  <1>7. ASSUME NEW r \in Sensor PROVE of(r) \in Seq(Plain)
    <2>1. /\ r.chip \in STRING /\ r.key \in STRING /\ r.label \in STRING /\ r.value \in Int
          /\ r.metric \in DOMAIN SensorUnit /\ r.crit \in Option(Int)
      OBVIOUS
    <2>2. r.metric \in ThingMetrics /\ SensorUnit[r.metric] \in Units
      <3>1. r.metric \in {"temp", "fan", "power"}
        BY <2>1 DEF SensorUnit
      <3> HIDE DEF Sensor
      <3>2. CASE r.metric = "temp"
        BY <3>2 DEF SensorUnit, ThingMetrics, Units
      <3>3. CASE r.metric = "fan"
        BY <3>3 DEF SensorUnit, ThingMetrics, Units
      <3>4. CASE r.metric = "power"
        BY <3>4 DEF SensorUnit, ThingMetrics, Units
      <3> QED
        BY <3>1, <3>2, <3>3, <3>4
    <2>3. SensorName(r) \in Names
      <3>1. <<r.chip, r.key>> \in Seq(STRING) /\ <<r.label>> \in Seq(STRING)
        BY <2>1
      <3> QED
        BY <3>1 DEF SensorName, Names
    <2>4. PICK ent \in Things : ent = child("sensor", SensorName(r))
      BY <2>3, <1>5, ChildIsThing
    <2>5. critical(r) \in SUBSET Int
      <3>1. r.crit \in SUBSET Int
        BY <2>1, OptionType
      <3> QED
        BY <3>1 DEF critical
    <2>6. or_else(critical(r), 0) \in Int
      BY <2>5, OrElseType
    <2> HIDE DEF Sensor
    <2>7. gauge("sensors", ent, r.metric, SensorUnit[r.metric], r.value) \in Plain
      BY <2>1, <2>2, <1>5, ThingSeries
    <2>8. with_max(gauge("sensors", ent, r.metric, SensorUnit[r.metric], r.value),
                   or_else(critical(r), 0)) \in Plain
      BY <2>1, <2>2, <2>6, <1>5, ThingSeries
    <2>9. h(r) \in Plain
      BY <2>4, <2>7, <2>8
    <2> HIDE DEF h
    <2> QED
      BY <2>9 DEF When
  <1> HIDE DEF of, Sensor
  <1>8. B \in Seq(Seq(Plain))
    BY <1>3, <1>7
  <1> HIDE DEF A, B
  <1>9. FlattenSeq(B) \in Seq(Plain)
    BY <1>8, FlattenType
  <1> QED
    BY <1>2, <1>6, <1>9, ConcatType

\* A control group is a container or a guest.
LEMMA IdentifyType ==
    ASSUME NEW g, g.leaf \in Seq(STRING) \ {<<>>}
    PROVE  identify(g) \in Things
  <1> DEFINE scope(pre) == g.leaf[1] = pre /\ g.leaf[Len(g.leaf)] = ".scope"
             unscoped == IF g.leaf[Len(g.leaf)] = ".scope"
                           THEN SubSeq(g.leaf, 1, Len(g.leaf) - 1) ELSE g.leaf
  <1>1. PICK n \in Nat \ {0} : n = Len(g.leaf)
    OBVIOUS
  <1>2. "container" \in Kinds /\ "vm" \in Kinds
    BY DEF Kinds
  <1>3. \A i \in 1..n : g.leaf[i] \in STRING
    BY <1>1
  <1>4. scope("docker-") \/ scope("libpod-") => <<g.leaf[2]>> \in Names
    <2> SUFFICES ASSUME scope("docker-") \/ scope("libpod-") PROVE <<g.leaf[2]>> \in Names
      OBVIOUS
    <2>1. n # 1
      BY <1>1
    <2>2. g.leaf[2] \in STRING
      BY <2>1, <1>3
    <2> QED
      BY <2>2 DEF Names
  <1>5. <<g.leaf[1]>> \in Names
    <2>1. g.leaf[1] \in STRING
      BY <1>3
    <2> QED
      BY <2>1 DEF Names
  <1>6. unscoped \in Names /\ g.leaf \in Names
    <2>1. SubSeq(g.leaf, 1, Len(g.leaf) - 1) \in Seq(STRING) /\ g.leaf \in Seq(STRING)
      OBVIOUS
    <2> QED
      BY <2>1 DEF Names
  <1>7. identify(g) = CASE scope("docker-") \/ scope("libpod-") -> child("container", <<g.leaf[2]>>)
                        [] ~(scope("docker-") \/ scope("libpod-")) /\ g.parent = "docker" ->
                             child("container", <<g.leaf[1]>>)
                        [] ~(scope("docker-") \/ scope("libpod-")) /\ g.parent = "qemu.slice" ->
                             child("vm", unscoped)
                        [] OTHER -> child("container", g.leaf)
    BY DEF identify
  <1> HIDE DEF scope, unscoped
  <1>8. \/ /\ scope("docker-") \/ scope("libpod-")
           /\ identify(g) = child("container", <<g.leaf[2]>>)
        \/ identify(g) = child("container", <<g.leaf[1]>>)
        \/ identify(g) = child("vm", unscoped)
        \/ identify(g) = child("container", g.leaf)
    <2>1. CASE scope("docker-") \/ scope("libpod-")
      BY <2>1, <1>7
    <2>2. CASE ~(scope("docker-") \/ scope("libpod-")) /\ g.parent = "docker"
      BY <2>2, <1>7
    <2>3. CASE ~(scope("docker-") \/ scope("libpod-")) /\ g.parent = "qemu.slice"
      BY <2>3, <1>7
    <2>4. CASE ~(scope("docker-") \/ scope("libpod-")) /\ g.parent # "docker"
               /\ g.parent # "qemu.slice"
      BY <2>4, <1>7
    <2> QED
      BY <2>1, <2>2, <2>3, <2>4
  <1> QED
    BY <1>2, <1>4, <1>5, <1>6, <1>8, ChildIsThing

\* cgroup.rs: the series of containers and guests; a share needs a limit.
LEMMA CgroupGood ==
    ASSUME NEW f, NEW c, is_answer("cgroup", f)
    PROVE  cgroup(f, c) \in Seq(Plain)
  <1> DEFINE micro == 1000000
             mem(g) == gauge("cgroup", identify(g), "memory", "bytes", working_set(g))
             two(g) == <<with_scale(counter("cgroup", identify(g), "cpu", "percent", g.usage),
                                    100, micro),
                         IF g.limit = {} THEN mem(g) ELSE with_max(mem(g), or_else(g.limit, 0))>>
             share(g) == When(or_else(g.limit, 0) > 0,
                              <<gauge("cgroup", identify(g), "memory_usage", "percent",
                                      (working_set(g) * 100) \div or_else(g.limit, 1))>>)
             one(g) == <<gauge("cgroup", identify(g), "pids", "count", g.pids)>>
             of(g) == When(is_running(g), two(g) \o share(g) \o one(g))
             A == [i \in 1..Len(f) |-> of(f[i])]
             Group == [parent : STRING, leaf : Seq(STRING) \ {<<>>}, usage : Nat, memory : Nat,
                       inactive : Nat, limit : Option(Nat), pids : Nat]
  <1>1. f \in Seq(Group)
    BY DEF is_answer
  <1>2. cgroup(f, c) = FlattenSeq(A)
    BY SMT DEF cgroup, ForEach
  <1>0. micro \in Nat \ {0}
    BY SMT
  <1> HIDE DEF micro
  <1>3. Len(f) \in Nat /\ \A i \in 1..Len(f) : f[i] \in Group
    BY <1>1, SeqFacts
  <1>4. /\ "cgroup" \in SourceNames /\ "percent" \in Units /\ "bytes" \in Units
        /\ "count" \in Units
    BY DEF SourceNames, Units
  <1>5. \A m \in {"cpu", "memory", "memory_usage", "pids"} : m \in ThingMetrics
    BY DEF ThingMetrics
  <1>6. ASSUME NEW g \in Group PROVE of(g) \in Seq(Plain)
    <2>1. /\ g.leaf \in Seq(STRING) \ {<<>>} /\ g.usage \in Int /\ g.memory \in Nat
          /\ g.inactive \in Nat /\ g.limit \in Option(Nat) /\ g.pids \in Int
      OBVIOUS
    <2> HIDE DEF Group
    <2>2. PICK ent \in Things : ent = identify(g)
      BY <2>1, IdentifyType
    <2>3. working_set(g) \in Int
      BY <2>1 DEF working_set, Larger
    <2>4. g.limit \in SUBSET Nat
      BY <2>1, OptionType
    <2>5. or_else(g.limit, 0) \in Nat /\ or_else(g.limit, 1) \in Nat
      BY <2>4, OrElseNat
    <2>6. two(g) \in Seq(Plain)
      <3>1. with_scale(counter("cgroup", ent, "cpu", "percent", g.usage), 100, micro) \in Plain
        <4>1. 100 \in Int
          OBVIOUS
        <4> QED
          BY <4>1, <1>0, <2>1, <1>4, <1>5, ThingSeries
      <3>2. gauge("cgroup", ent, "memory", "bytes", working_set(g)) \in Plain
        BY <2>3, <1>4, <1>5, ThingSeries
      <3>3. with_max(gauge("cgroup", ent, "memory", "bytes", working_set(g)),
                     or_else(g.limit, 0)) \in Plain
        BY <2>3, <2>5, <1>4, <1>5, ThingSeries
      <3>4. (IF g.limit = {} THEN mem(g) ELSE with_max(mem(g), or_else(g.limit, 0))) \in Plain
        BY <2>2, <3>2, <3>3
      <3>5. with_scale(counter("cgroup", identify(g), "cpu", "percent", g.usage), 100, micro)
              \in Plain
        BY <2>2, <3>1
      <3> HIDE DEF mem
      <3> QED
        BY <3>4, <3>5
    <2>7. share(g) \in Seq(Plain)
      <3>1. CASE or_else(g.limit, 0) > 0
        <4>1. or_else(g.limit, 0) = or_else(g.limit, 1)
          BY <3>1 DEF or_else
        <4>2. PICK k \in Nat \ {0} : k = or_else(g.limit, 1)
          BY <3>1, <4>1, <2>5
        <4>3. (working_set(g) * 100) \div k \in Int
          BY <2>3, <4>2
        <4>4. gauge("cgroup", ent, "memory_usage", "percent",
                    (working_set(g) * 100) \div k) \in Plain
          BY <4>3, <1>4, <1>5, ThingSeries
        <4> QED
          BY <2>2, <4>2, <4>4 DEF When
      <3>2. CASE ~(or_else(g.limit, 0) > 0)
        BY <3>2 DEF When
      <3> QED
        BY <3>1, <3>2
    <2>8. one(g) \in Seq(Plain)
      <3>1. gauge("cgroup", ent, "pids", "count", g.pids) \in Plain
        BY <2>1, <1>4, <1>5, ThingSeries
      <3> QED
        BY <3>1, <2>2
    <2> HIDE DEF two, share, one
    <2>9. two(g) \o share(g) \o one(g) \in Seq(Plain)
      BY <2>6, <2>7, <2>8, ConcatType
    <2> QED
      BY <2>9 DEF When
  <1> HIDE DEF of, Group
  <1>7. A \in Seq(Seq(Plain))
    BY <1>3, <1>6
  <1> HIDE DEF A
  <1> QED
    BY <1>2, <1>7, FlattenType

\* tcp.rs: the sockets and segments the host counts.
LEMMA TcpGood ==
    ASSUME NEW f, NEW c, is_answer("tcp", f)
    PROVE  tcp(f, c) \in Seq(Plain)
  <1> DEFINE sock(k) == When(k \in DOMAIN f.sock,
                             <<gauge("tcp", Host, SockMetric[k], "count", f.sock[k])>>)
             snmp(k) == When(k \in DOMAIN f.snmp /\ f.snmp[k] >= 0,
                             <<counter("tcp", Host, SnmpMetric[k], "count", f.snmp[k])>>)
             s == <<"used", "tcp", "tw", "orphan", "udp">>
             t == <<"InSegs", "OutSegs", "RetransSegs", "ActiveOpens", "PassiveOpens">>
             A == [i \in 1..Len(s) |-> sock(s[i])]
             B == When("CurrEstab" \in DOMAIN f.snmp,
                       <<gauge("tcp", Host, "tcp_established", "count", f.snmp["CurrEstab"])>>)
             C == [i \in 1..Len(t) |-> snmp(t[i])]
             socks == {"used", "tcp", "tw", "orphan", "udp"}
             snmps == {"InSegs", "OutSegs", "RetransSegs", "ActiveOpens", "PassiveOpens"}
  <1>1. f.sock \in [DOMAIN f.sock -> Nat] /\ f.snmp \in [DOMAIN f.snmp -> Int]
    BY DEF is_answer, Partial
  <1>2. tcp(f, c) = FlattenSeq(A) \o B \o FlattenSeq(C)
    BY DEF tcp, ForEach
  <1>3. /\ Len(s) = 5 /\ \A i \in 1..5 : s[i] \in socks
        /\ Len(t) = 5 /\ \A i \in 1..5 : t[i] \in snmps
    OBVIOUS
  <1> HIDE DEF s, t
  <1>4. "tcp" \in SourceNames \ {"sensors", "filesystem"} /\ "count" \in Units
    BY DEF SourceNames, Units
  <1>5. \A k \in socks : SockMetric[k] \in HostMetrics \ SpecialMetrics
    BY DEF SockMetric, HostMetrics, SpecialMetrics
  <1>6. \A k \in snmps : SnmpMetric[k] \in HostMetrics \ SpecialMetrics
    BY DEF SnmpMetric, HostMetrics, SpecialMetrics
  <1>7. "tcp_established" \in HostMetrics \ SpecialMetrics
    BY DEF HostMetrics, SpecialMetrics
  <1> HIDE DEF socks, snmps
  <1>8. ASSUME NEW k \in socks PROVE sock(k) \in Seq(Plain)
    <2>1. CASE k \in DOMAIN f.sock
      <3>1. gauge("tcp", Host, SockMetric[k], "count", f.sock[k]) \in Plain
        BY <2>1, <1>1, <1>4, <1>5, HostSeries
      <3> QED
        BY <3>1 DEF When
    <2>2. CASE k \notin DOMAIN f.sock
      BY <2>2 DEF When
    <2> QED
      BY <2>1, <2>2
  <1>9. ASSUME NEW k \in snmps PROVE snmp(k) \in Seq(Plain)
    <2>1. CASE k \in DOMAIN f.snmp
      <3>1. counter("tcp", Host, SnmpMetric[k], "count", f.snmp[k]) \in Plain
        BY <2>1, <1>1, <1>4, <1>6, HostSeries
      <3> QED
        BY <3>1 DEF When
    <2>2. CASE k \notin DOMAIN f.snmp
      BY <2>2 DEF When
    <2> QED
      BY <2>1, <2>2
  <1>10. B \in Seq(Plain)
    <2>1. CASE "CurrEstab" \in DOMAIN f.snmp
      <3>1. gauge("tcp", Host, "tcp_established", "count", f.snmp["CurrEstab"]) \in Plain
        BY <2>1, <1>1, <1>4, <1>7, HostSeries
      <3> QED
        BY <3>1 DEF When
    <2>2. CASE "CurrEstab" \notin DOMAIN f.snmp
      BY <2>2 DEF When
    <2> QED
      BY <2>1, <2>2
  <1> HIDE DEF sock, snmp
  <1>11. A \in Seq(Seq(Plain)) /\ C \in Seq(Seq(Plain))
    BY <1>3, <1>8, <1>9
  <1> HIDE DEF A, B, C
  <1>12. FlattenSeq(A) \in Seq(Plain) /\ FlattenSeq(C) \in Seq(Plain)
    BY <1>11, FlattenType
  <1> QED
    BY <1>2, <1>10, <1>12, ConcatType

\* The collectors there are.
LEMMA SourcesAreNames == Sources = SourceNames
  BY DEF Sources, requires, SourceNames

\* Every collector turns an answer it can read into series the view can show: sizes in pairs, and
\* the processor's from one collector only.
LEMMA ParseGood ==
    ASSUME NEW s \in SourceNames, NEW f, NEW c, CapsOK(c), is_answer(s, f)
    PROVE  /\ parse(s, f, c) \in Seq(Good) /\ Paired(parse(s, f, c))
           /\ s = "cpu" => Processor(parse(s, f, c))
           /\ s # "cpu" => parse(s, f, c) \in Seq(Others)
  <1>0. ASSUME NEW q \in Seq(Plain) PROVE q \in Seq(Good) /\ Paired(q) /\ q \in Seq(Others)
    BY PlainSeq, UnsizedPaired
  <1>1. CASE s = "cpu"
    <2>1. parse(s, f, c) = cpu(f, c)
      BY <1>1 DEF parse
    <2>2. cpu(f, c) \in Seq(Unsized) /\ Processor(cpu(f, c))
      BY <1>1, CpuGood
    <2>3. cpu(f, c) \in Seq(Good) /\ Paired(cpu(f, c))
      BY <2>2, PlainSeq, UnsizedPaired
    <2> QED
      BY <1>1, <2>1, <2>2, <2>3
  <1>2. CASE s = "memory"
    <2>1. parse(s, f, c) = memory(f, c)
      BY <1>2 DEF parse
    <2>2. memory(f, c) \in Seq(Others) /\ Paired(memory(f, c))
      BY <1>2, MemoryGood
    <2>3. memory(f, c) \in Seq(Good)
      BY <2>2, PlainSeq
    <2> QED
      BY <1>2, <2>1, <2>2, <2>3
  <1>3. CASE s = "filesystem"
    <2>1. parse(s, f, c) = filesystem(f, c)
      BY <1>3 DEF parse
    <2>2. filesystem(f, c) \in Seq(Others) /\ Paired(filesystem(f, c))
      BY <1>3, FilesystemGood
    <2>3. filesystem(f, c) \in Seq(Good)
      BY <2>2, PlainSeq
    <2> QED
      BY <1>3, <2>1, <2>2, <2>3
  <1>4. CASE s = "load"
    <2>1. parse(s, f, c) = load(f, c)
      BY <1>4 DEF parse
    <2>2. parse(s, f, c) \in Seq(Plain)
      BY <1>4, <2>1, LoadGood
    <2> QED
      BY <1>4, <2>2, <1>0
  <1>5. CASE s = "diskio"
    <2>1. parse(s, f, c) = diskio(f, c)
      BY <1>5 DEF parse
    <2>2. parse(s, f, c) \in Seq(Plain)
      BY <1>5, <2>1, DiskioGood
    <2> QED
      BY <1>5, <2>2, <1>0
  <1>6. CASE s = "network"
    <2>1. parse(s, f, c) = network(f, c)
      BY <1>6 DEF parse
    <2>2. parse(s, f, c) \in Seq(Plain)
      BY <1>6, <2>1, NetworkGood
    <2> QED
      BY <1>6, <2>2, <1>0
  <1>7. CASE s = "process"
    <2>1. parse(s, f, c) = process(f, c)
      BY <1>7 DEF parse
    <2>2. parse(s, f, c) \in Seq(Plain)
      BY <1>7, <2>1, ProcessGood
    <2> QED
      BY <1>7, <2>2, <1>0
  <1>8. CASE s = "pressure"
    <2>1. parse(s, f, c) = pressure(f, c)
      BY <1>8 DEF parse
    <2>2. parse(s, f, c) \in Seq(Plain)
      BY <1>8, <2>1, PressureGood
    <2> QED
      BY <1>8, <2>2, <1>0
  <1>9. CASE s = "sensors"
    <2>1. parse(s, f, c) = sensors(f, c)
      BY <1>9 DEF parse
    <2>2. parse(s, f, c) \in Seq(Plain)
      BY <1>9, <2>1, SensorsGood
    <2> QED
      BY <1>9, <2>2, <1>0
  <1>10. CASE s = "cgroup"
    <2>1. parse(s, f, c) = cgroup(f, c)
      BY <1>10 DEF parse
    <2>2. parse(s, f, c) \in Seq(Plain)
      BY <1>10, <2>1, CgroupGood
    <2> QED
      BY <1>10, <2>2, <1>0
  <1>11. CASE s = "tcp"
    <2>1. parse(s, f, c) = tcp(f, c)
      BY <1>11 DEF parse
    <2>2. parse(s, f, c) \in Seq(Plain)
      BY <1>11, <2>1, TcpGood
    <2> QED
      BY <1>11, <2>2, <1>0
  <1> QED
    BY <1>1, <1>2, <1>3, <1>4, <1>5, <1>6, <1>7, <1>8, <1>9, <1>10, <1>11 DEF SourceNames

\* What the collectors emit of a host's answers to one refresh: the processor's series, if any,
\* are the first.
LEMMA EmittedGood ==
    ASSUME machine \in DOMAIN Machines, CapsOK(caps), NEW f \in Answers
    PROVE  /\ Emitted(f) \in Seq(Good) /\ Paired(Emitted(f))
           /\ Emitted(f) \in Seq(Others) \/ Processor(Emitted(f))
  <1> DEFINE of(s) == When(s \in applicable \intersect focus, parse(s, f[s], caps))
             b == builtin_sources
             A == [i \in 1..Len(b) |-> of(b[i])]
             W == {q \in Seq(Good) : Paired(q)}
  <1>1. Emitted(f) = FlattenSeq(A)
    BY DEF Emitted, ForEach
  <1>2. /\ Len(b) = 11 /\ b[1] = "cpu"
        /\ \A i \in 1..11 : b[i] \in SourceNames /\ (i # 1 => b[i] # "cpu")
    BY DEF builtin_sources, SourceNames
  <1> HIDE DEF b
  <1>3. ASSUME NEW s \in focus PROVE s \in SourceNames /\ is_answer(s, f[s])
    <2>1. PICK k : /\ \A t \in focus : k[t] \in DOMAIN Machines[machine][t]
                   /\ f = [t \in focus |-> Machines[machine][t][k[t]]]
      BY DEF Answers
    <2>2. f[s] \in Range(Machines[machine][s])
      BY <2>1 DEF Range
    <2>3. s \in DOMAIN Machines[machine]
      BY DEF focus
    <2> QED
      BY <2>2, <2>3, HostsAssumption, SourcesAreNames
  <1>4. <<>> \in Seq(Good) /\ <<>> \in Seq(Others) /\ Paired(<<>>)
    <2>1. <<>> \in Seq(Good) /\ <<>> \in Seq(Others) /\ <<>> \in Seq(Unsized)
      OBVIOUS
    <2> QED
      BY <2>1, UnsizedPaired
  <1>5. ASSUME NEW s \in SourceNames
        PROVE  /\ of(s) \in Seq(Good) /\ Paired(of(s))
               /\ s = "cpu" => of(s) = <<>> \/ Processor(of(s))
               /\ s # "cpu" => of(s) \in Seq(Others)
    <2>1. CASE s \in applicable \intersect focus
      <3>1. is_answer(s, f[s])
        BY <2>1, <1>3
      <3>2. PICK q : q = parse(s, f[s], caps)
        OBVIOUS
      <3>3. /\ q \in Seq(Good) /\ Paired(q) /\ (s = "cpu" => Processor(q))
            /\ s # "cpu" => q \in Seq(Others)
        BY <3>1, <3>2, ParseGood
      <3>4. of(s) = q
        BY <2>1, <3>2 DEF When
      <3> HIDE DEF of
      <3> QED
        BY <3>3, <3>4
    <2>2. CASE s \notin applicable \intersect focus
      <3>1. of(s) = <<>>
        BY <2>2 DEF When
      <3> HIDE DEF of
      <3> QED
        BY <3>1, <1>4
    <2> QED
      BY <2>1, <2>2
  <1> HIDE DEF of
  <1>6. Len(A) = 11 /\ \A i \in 1..11 : A[i] = of(b[i])
    BY <1>2
  <1>7. A \in Seq(Seq(Good)) /\ A \in Seq(W)
    <2>1. \A i \in 1..11 : of(b[i]) \in Seq(Good) /\ of(b[i]) \in W
      BY <1>2, <1>5
    <2> HIDE DEF W
    <2> QED
      BY <2>1, <1>2
  <1> HIDE DEF A
  <1>8. Emitted(f) \in Seq(Good) /\ Paired(Emitted(f))
    <2>1. /\ W \in SUBSET Seq(Good) /\ <<>> \in W
          /\ \A x, y \in W : x \o y \in W
      BY <1>4, ConcatType, PairedConcat
    <2> HIDE DEF W
    <2>2. FlattenSeq(A) \in W
      BY <2>1, <1>7, FlattenClosed
    <2> QED
      BY <2>2, <1>1 DEF W
  <1>9. PICK r \in Seq(Others) : FlattenSeq(A) = A[1] \o r
    <2>1. Others \in SUBSET Good
      BY DEF Others
    <2>2. ASSUME NEW k \in 2..Len(A) PROVE A[k] \in Seq(Others)
      <3>1. k \in 1..11 /\ k # 1
        BY <1>6
      <3> QED
        BY <3>1, <1>2, <1>5, <1>6
    <2>3. Len(A) >= 1
      BY <1>6
    <2> QED
      BY <2>1, <2>2, <2>3, <1>7, FlattenLead
  <1>10. A[1] \in Seq(Good) /\ (A[1] = <<>> \/ Processor(A[1]))
    <2>1. A[1] = of("cpu") /\ "cpu" \in SourceNames
      BY <1>2, <1>6 DEF SourceNames
    <2> QED
      BY <2>1, <1>5
  <1>11. CASE A[1] = <<>>
    <2>1. <<>> \o r = r
      BY ConcatEmptySeq
    <2> QED
      BY <2>1, <1>1, <1>8, <1>9, <1>11
  <1>12. CASE Processor(A[1])
    <2>1. Processor(A[1] \o r)
      BY <1>10, <1>12, ProcessorLeads
    <2> QED
      BY <2>1, <1>1, <1>8, <1>9
  <1> QED
    BY <1>10, <1>11, <1>12

-----------------------------------------------------------------------------
(* Points and the store. *)

Point == [tick : Nat, val : Int]

\* The points a series may have: a share has no others than shares.
PointsOf(id) == {p \in Point : id[1] = Host /\ id[2] \in ShareMetrics => p.val \in 0..100}

Fresh(id) == {p \in PointsOf(id) : p.tick = tick + 1}

Pointed(I) == {f \in [I -> Seq(Point)] : \A id \in I : f[id] \in Seq(Fresh(id))}
Progress(I) == [previous : [I -> Point], points : Pointed(I)]

\* One emission gives a point or none, and a baseline or none.
LEMMA SampleType ==
    ASSUME tick \in Nat, NEW I, NEW acc \in Progress(I), NEW e \in Good, Id(e) \in I
    PROVE  process_sample(acc, e) \in Progress(I)
  <1> DEFINE id == Id(e)
             base == acc.previous[id]
             now(v) == [tick |-> tick + 1, val |-> v]
             rated(v) == [acc.points EXCEPT ![id] = Append(@, now(v))]
             kept == [acc.previous EXCEPT ![id] = now(e.val)]
  <1>1. acc.previous \in [I -> Point] /\ acc.points \in Pointed(I) /\ id \in I
    BY DEF Progress
  <1>2. /\ e.val \in Int /\ e.num \in Int /\ e.den \in Nat \ {0}
        /\ InRange(e.ent, e.met, e.kind, e.val)
    BY DEF Good, Emission
  <1>3. base \in Point
    BY <1>1
  <1>4. base.val \in Int
    BY <1>3 DEF Point
  <1>5. ASSUME NEW v \in Int PROVE now(v) \in Point
    BY DEF Point
  <1>6. ASSUME NEW v \in Int, now(v) \in Fresh(id) PROVE rated(v) \in Pointed(I)
    <2>1. now(v) \in Point
      BY <1>5
    <2>2. /\ acc.points \in [I -> Seq(Point)]
          /\ \A x \in I : acc.points[x] \in Seq(Fresh(x))
      BY <1>1 DEF Pointed
    <2> DEFINE a == Append(acc.points[id], now(v))
    <2> HIDE DEF now, id
    <2>3. a \in Seq(Point) /\ a \in Seq(Fresh(id))
      BY <2>1, <2>2, <1>1, <1>6, AppendProperties
    <2>4. rated(v) = [acc.points EXCEPT ![id] = a]
      OBVIOUS
    <2> HIDE DEF a, rated
    <2>5. rated(v) \in [I -> Seq(Point)]
      BY <2>2, <2>3, <2>4
    <2>6. \A x \in I : rated(v)[x] = IF x = id THEN a ELSE acc.points[x]
      BY <2>2, <2>4
    <2>7. \A x \in I : rated(v)[x] \in Seq(Fresh(x))
      BY <2>2, <2>3, <2>6
    <2> QED
      BY <2>5, <2>7 DEF Pointed
  <1>7. kept \in [I -> Point]
    <2>1. now(e.val) \in Point
      BY <1>2, <1>5
    <2> HIDE DEF now, id
    <2> QED
      BY <2>1, <1>1
  <1>8. Rate(e, base) \in Int
    <2>1. PICK a \in Int : a = (e.val - base.val) * e.num
      BY <1>2, <1>4
    <2>2. PICK b \in Nat \ {0} : b = e.den
      BY <1>2
    <2>3. a \div b \in Int
      OBVIOUS
    <2> QED
      BY <2>1, <2>2, <2>3 DEF Rate
  <1>9. \/ process_sample(acc, e) = [previous |-> acc.previous, points |-> rated(e.val)]
        \/ process_sample(acc, e) = [previous |-> kept, points |-> acc.points]
        \/ /\ process_sample(acc, e) = [previous |-> kept, points |-> rated(Rate(e, base))]
           /\ e.kind = "counter"
    <2>1. e.kind \in {"gauge", "counter"}
      BY DEF Good, Emission
    <2> QED
      BY <2>1 DEF process_sample
  <1>10. id[1] = e.ent /\ id[2] = e.met
    BY DEF Id
  <1>11. rated(e.val) \in Pointed(I)
    <2>1. now(e.val) \in Fresh(id)
      <3>1. now(e.val) \in Point /\ now(e.val).val = e.val
            /\ now(e.val).tick = tick + 1
        BY <1>2, <1>5
      <3> HIDE DEF now, id
      <3> QED
        BY <3>1, <1>2, <1>10 DEF Fresh, PointsOf, InRange
    <2> QED
      BY <2>1, <1>2, <1>6
  <1>12. e.kind = "counter" => rated(Rate(e, base)) \in Pointed(I)
    <2> SUFFICES ASSUME e.kind = "counter" PROVE rated(Rate(e, base)) \in Pointed(I)
      OBVIOUS
    <2>1. ~(id[1] = Host /\ id[2] \in ShareMetrics)
      BY <1>2, <1>10 DEF InRange
    <2>2. now(Rate(e, base)) \in Fresh(id)
      <3>1. now(Rate(e, base)) \in Point /\ now(Rate(e, base)).tick = tick + 1
        BY <1>5, <1>8
      <3> HIDE DEF now, id
      <3> QED
        BY <3>1, <2>1 DEF Fresh, PointsOf
    <2> QED
      BY <2>2, <1>6, <1>8
  <1> HIDE DEF rated, kept, base
  <1> QED
    BY <1>1, <1>7, <1>9, <1>11, <1>12 DEF Progress

Baselines == \A id \in DOMAIN previous : previous[id] \in Point

\* What one emission does to its own series, and that it does nothing to the others.
Sampled(I, acc, e, r) ==
    LET id == Id(e)
        now(v) == [tick |-> tick + 1, val |-> v]
    IN  /\ \A x \in I : x # id => /\ r.points[x] = acc.points[x]
                                  /\ r.previous[x] = acc.previous[x]
        /\ e.kind = "gauge" => r.points[id] = Append(acc.points[id], now(e.val))
        /\ e.kind = "counter" =>
             /\ r.previous[id] = now(e.val)
             /\ \/ r.points[id] = acc.points[id]
                \/ /\ acc.previous[id].tick # 0
                   /\ r.points[id] = Append(acc.points[id], now(Rate(e, acc.previous[id])))

\* That is what process_sample does.
LEMMA SampleFacts ==
    ASSUME tick \in Nat, NEW I, NEW acc \in Progress(I), NEW e \in Good, Id(e) \in I
    PROVE  Sampled(I, acc, e, process_sample(acc, e))
  <1> DEFINE r == process_sample(acc, e)
             id == Id(e)
             base == acc.previous[id]
             now(v) == [tick |-> tick + 1, val |-> v]
             rated(v) == [acc.points EXCEPT ![id] = Append(@, now(v))]
             kept == [acc.previous EXCEPT ![id] = now(e.val)]
  <1>1. /\ acc.previous \in [I -> Point] /\ acc.points \in [I -> Seq(Point)] /\ id \in I
    BY DEF Progress, Pointed
  <1>2. e.kind \in {"gauge", "counter"}
    BY DEF Good, Emission
  <1>3. /\ e.kind = "gauge" => r = [previous |-> acc.previous, points |-> rated(e.val)]
        /\ e.kind = "counter" =>
             \/ r = [previous |-> kept, points |-> acc.points]
             \/ /\ base.tick # 0
                /\ r = [previous |-> kept, points |-> rated(Rate(e, base))]
    BY <1>2 DEF process_sample
  <1> HIDE DEF now, id, r
  <1>4. ASSUME NEW v
        PROVE  /\ rated(v)[id] = Append(acc.points[id], now(v))
               /\ \A x \in I : x # id => rated(v)[x] = acc.points[x]
    BY <1>1
  <1>5. kept[id] = now(e.val) /\ \A x \in I : x # id => kept[x] = acc.previous[x]
    BY <1>1
  <1> HIDE DEF rated, kept
  <1>6. ASSUME e.kind = "gauge" PROVE Sampled(I, acc, e, r)
    <2>1. r.previous = acc.previous /\ r.points = rated(e.val)
      BY <1>3, <1>6
    <2> QED
      BY <2>1, <1>4, <1>6 DEF Sampled, id, now
  <1>7. ASSUME e.kind = "counter" PROVE Sampled(I, acc, e, r)
    <2>1. CASE r = [previous |-> kept, points |-> acc.points]
      <3>1. r.previous = kept /\ r.points = acc.points
        BY <2>1
      <3> QED
        BY <3>1, <1>5, <1>7 DEF Sampled, id, now
    <2>2. CASE base.tick # 0 /\ r = [previous |-> kept, points |-> rated(Rate(e, base))]
      <3>1. r.previous = kept /\ r.points = rated(Rate(e, base))
        BY <2>2
      <3> QED
        BY <3>1, <2>2, <1>4, <1>5, <1>7 DEF Sampled, id, now
    <2> QED
      BY <2>1, <2>2, <1>3, <1>7
  <1> QED
    BY <1>2, <1>6, <1>7 DEF r

\* The baseline a refresh starts with: of a series it does not know, none.
Start(es) == [id \in Ids(es) |-> IF id \in DOMAIN previous THEN previous[id]
                                                           ELSE [tick |-> 0, val |-> 0]]

\* A refresh goes from emission to emission, and keeps a baseline and some points of every series
\* that is emitted.
LEMMA ProcessSteps ==
    ASSUME tick \in Nat, Baselines, NEW es \in Seq(Good)
    PROVE  \E g : /\ process_samples(es) = g[Len(es)]
                  /\ g[0] = [previous |-> Start(es), points |-> [id \in Ids(es) |-> <<>>]]
                  /\ \A n \in 1..Len(es) : g[n] = process_sample(g[n - 1], es[n])
                  /\ \A n \in 0..Len(es) : g[n] \in Progress(Ids(es))
  <1> DEFINE N == Len(es)
             I == Ids(es)
             V == Progress(I)
             base == [id \in I |-> IF id \in DOMAIN previous THEN previous[id]
                                                             ELSE [tick |-> 0, val |-> 0]]
             first == [previous |-> base, points |-> [id \in I |-> <<>>]]
             step == [n \in Nat |->
                        [q \in V |-> IF n \in 1..N THEN process_sample(q, es[n]) ELSE q]]
             Body(g) == [n \in 0..N |-> IF n = 0 THEN first ELSE process_sample(g[n - 1], es[n])]
             g == CHOOSE h : h = Body(h)
  <1>1. N \in Nat /\ \A n \in 1..N : es[n] \in Good /\ Id(es[n]) \in I
    <2>1. N \in Nat /\ \A n \in 1..N : es[n] \in Good
      BY SeqFacts
    <2> QED
      BY <2>1 DEF Ids
  <1>2. process_samples(es) = g[N]
    BY DEF process_samples
  <1> HIDE DEF N, I
  <1>3. first \in V
    <2>1. [tick |-> 0, val |-> 0] \in Point
      BY DEF Point
    <2>2. base \in [I -> Point]
      BY <2>1 DEF Baselines
    <2>3. \A S : <<>> \in Seq(S)
      OBVIOUS
    <2>4. [id \in I |-> <<>>] \in Pointed(I)
      <3> DEFINE z == [id \in I |-> <<>>]
      <3>1. z \in [I -> Seq(Point)]
        BY <2>3
      <3>2. ASSUME NEW id \in I PROVE z[id] \in Seq(Fresh(id))
        BY <2>3
      <3> HIDE DEF z
      <3>3. z \in Pointed(I)
        BY <3>1, <3>2 DEF Pointed
      <3> QED
        BY <3>3 DEF z
    <2> HIDE DEF base
    <2> QED
      BY <2>2, <2>4 DEF Progress
  <1> HIDE DEF first
  <1>4. ASSUME NEW n \in 1..N, NEW q \in V PROVE process_sample(q, es[n]) \in V
    BY <1>1, SampleType
  <1> HIDE DEF V
  <1>5. step \in [Nat -> [V -> V]]
    <2>1. ASSUME NEW n \in Nat, NEW q \in V
          PROVE  (IF n \in 1..N THEN process_sample(q, es[n]) ELSE q) \in V
      BY <1>4
    <2> QED
      BY <2>1
  <1>6. \A n \in 1..N : \A q \in V : step[n][q] = process_sample(q, es[n])
    BY <1>1
  <1> HIDE DEF step
  <1>7. Upto(N, V, first, step) # {}
    BY <1>1, <1>3, <1>5, UptoExists
  <1>8. PICK F : F \in Upto(N, V, first, step)
    BY <1>7
  <1>9. F \in [0..N -> V] /\ F[0] = first /\ \A n \in 1..N : F[n] = step[n][F[n - 1]]
    BY <1>8 DEF Upto
  <1>10. ASSUME NEW n \in 1..N PROVE F[n] = process_sample(F[n - 1], es[n])
    <2>1. F[n - 1] \in V
      BY <1>1, <1>9
    <2> QED
      BY <1>6, <1>9, <2>1
  <1>11. F = Body(F)
    BY <1>1, <1>9, <1>10
  <1>12. g = Body(g)
    BY <1>11
  <1>13. g[0] = first /\ \A n \in 1..N : g[n] = process_sample(g[n - 1], es[n])
    <2> HIDE DEF g
    <2>1. \A n \in 0..N : g[n] = IF n = 0 THEN first ELSE process_sample(g[n - 1], es[n])
      BY <1>12
    <2>2. 0 \in 0..N /\ \A n \in 1..N : n \in 0..N /\ n # 0
      BY <1>1
    <2> QED
      BY <2>1, <2>2
  <1> HIDE DEF g, Body
  <1> DEFINE T == {n \in Nat : n <= N => g[n] \in V}
  <1>14. 0 \in T
    BY <1>3, <1>13
  <1>15. ASSUME NEW n \in Nat, n \in T PROVE n + 1 \in T
    <2> SUFFICES ASSUME n + 1 <= N PROVE g[n + 1] \in V
      OBVIOUS
    <2>1. g[n] \in V /\ n + 1 \in 1..N
      BY <1>1, <1>15
    <2>2. g[n + 1] = process_sample(g[(n + 1) - 1], es[n + 1])
      BY <2>1, <1>13
    <2>3. (n + 1) - 1 = n
      OBVIOUS
    <2>4. g[n + 1] = process_sample(g[n], es[n + 1])
      BY <2>2, <2>3
    <2> QED
      BY <2>1, <2>4, <1>4
  <1>16. T \in SUBSET Nat
    OBVIOUS
  <1> HIDE DEF T
  <1>17. T = Nat
    BY <1>14, <1>15, <1>16, SetInduction
  <1>18. \A n \in 0..N : g[n] \in V
    BY <1>1, <1>17 DEF T
  <1>19. g[0] = [previous |-> Start(es), points |-> [id \in Ids(es) |-> <<>>]]
    BY <1>13 DEF first, Start, I
  <1> QED
    BY <1>2, <1>13, <1>18, <1>19 DEF V, I, N

\* What a refresh leaves has its type.
LEMMA ProcessType ==
    ASSUME tick \in Nat, Baselines, NEW es \in Seq(Good)
    PROVE  process_samples(es) \in Progress(Ids(es))
  <1>1. PICK g : /\ process_samples(es) = g[Len(es)]
                 /\ \A n \in 0..Len(es) : g[n] \in Progress(Ids(es))
    BY ProcessSteps
  <1>2. Len(es) \in 0..Len(es)
    BY SeqFacts
  <1> QED
    BY <1>1, <1>2

\* A store has one descriptor for each series and the points of those series only.
StoreOK(s) ==
    /\ s.descriptors \subseteq Good
    /\ \A d, e \in s.descriptors : Id(d) = Id(e) => d = e
    /\ DOMAIN s.history = {Id(d) : d \in s.descriptors}
    /\ \A id \in DOMAIN s.history : s.history[id] \in Seq(PointsOf(id))

\* A descriptor is an emission without its value.
LEMMA BlankType ==
    ASSUME NEW e \in Good
    PROVE  [e EXCEPT !.val = 0] \in Good /\ Id([e EXCEPT !.val = 0]) = Id(e)
  <1> DEFINE b == [e EXCEPT !.val = 0]
  <1>1. /\ e \in Emission /\ Fits(e.src, e.ent, e.met, e.unit, e.max)
        /\ InRange(e.ent, e.met, e.kind, e.val)
    BY DEF Good
  <1>2. /\ b \in Emission /\ b.kind = e.kind /\ b.val = 0
        /\ b.src = e.src /\ b.ent = e.ent /\ b.met = e.met /\ b.unit = e.unit /\ b.max = e.max
    BY <1>1 DEF Emission
  <1> HIDE DEF b
  <1>3. b \in Good
    BY <1>1, <1>2 DEF Good, Fits, InRange
  <1>4. Id(b) = Id(e)
    BY <1>2 DEF Id
  <1> QED
    BY <1>3, <1>4 DEF b

\* The last emission of each series is its descriptor.
LEMMA DescribedType ==
    ASSUME NEW es \in Seq(Good)
    PROVE  /\ Described(es) \subseteq Good
           /\ \A d, e \in Described(es) : Id(d) = Id(e) => d = e
           /\ {Id(d) : d \in Described(es)} = Ids(es)
  <1> DEFINE b(i) == [es[i] EXCEPT !.val = 0]
  <1>1. PICK N \in Nat : N = Len(es)
    BY SeqFacts
  <1>2. \A i \in 1..N : es[i] \in Good
    BY <1>1, SeqFacts
  <1>3. \A i \in 1..N : b(i) \in Good /\ Id(b(i)) = Id(es[i])
    BY <1>2, BlankType
  <1> DEFINE last == {k \in 1..N : \A j \in (k + 1)..N : Id(es[j]) # Id(es[k])}
  <1>4. Described(es) = {b(i) : i \in last}
    BY <1>1 DEF Described
  <1>5. \A i, j \in last : Id(es[i]) = Id(es[j]) => i = j
    <2> SUFFICES ASSUME NEW i \in last, NEW j \in last, Id(es[i]) = Id(es[j]) PROVE i = j
      OBVIOUS
    <2>1. i \in 1..N /\ j \in 1..N
      OBVIOUS
    <2>2. ~(i < j)
      <3>1. i < j => j \in (i + 1)..N
        BY <2>1
      <3> QED
        BY <3>1
    <2>3. ~(j < i)
      <3>1. j < i => i \in (j + 1)..N
        BY <2>1
      <3> QED
        BY <3>1
    <2> QED
      BY <2>1, <2>2, <2>3
  <1>6. ASSUME NEW i \in 1..N PROVE \E k \in last : Id(es[k]) = Id(es[i])
    <2> DEFINE T == {k \in 1..N : Id(es[k]) = Id(es[i])}
    <2>1. N \in Int /\ T \in SUBSET Int /\ T # {} /\ \A k \in T : k <= N
      OBVIOUS
    <2>2. PICK k \in T : \A j \in T : k >= j
      <3> HIDE DEF T
      <3> QED
        BY <2>1, Greatest
    <2>3. ASSUME NEW j \in (k + 1)..N PROVE Id(es[j]) # Id(es[k])
      <3>1. j \in 1..N /\ j > k
        OBVIOUS
      <3>2. j \in T => k >= j
        BY <2>2
      <3>3. j \notin T
        BY <3>1, <3>2
      <3> QED
        BY <3>1, <3>3
    <2>4. k \in last
      BY <2>3
    <2> QED
      BY <2>4
  <1>7. \A i \in last : i \in 1..N
    OBVIOUS
  <1>8. Ids(es) = {Id(es[i]) : i \in 1..N}
    BY <1>1 DEF Ids
  <1> HIDE DEF last, b
  <1>9. \A d \in Described(es) : d \in Good
    BY <1>3, <1>4, <1>7
  <1>10. ASSUME NEW d \in Described(es), NEW e \in Described(es), Id(d) = Id(e) PROVE d = e
    <2>1. PICK i \in last, j \in last : d = b(i) /\ e = b(j)
      BY <1>4
    <2>2. Id(es[i]) = Id(es[j])
      BY <2>1, <1>3, <1>7, <1>10
    <2> QED
      BY <2>1, <2>2, <1>5
  <1>11. ASSUME NEW x \in Ids(es) PROVE \E d \in Described(es) : x = Id(d)
    <2>1. PICK i \in 1..N : x = Id(es[i])
      BY <1>8
    <2>2. PICK k \in last : Id(es[k]) = Id(es[i])
      BY <1>6
    <2>3. b(k) \in Described(es) /\ Id(b(k)) = x
      BY <2>1, <2>2, <1>3, <1>4, <1>7
    <2> QED
      BY <2>3
  <1>12. ASSUME NEW d \in Described(es) PROVE Id(d) \in Ids(es)
    <2>1. PICK i \in last : d = b(i)
      BY <1>4
    <2>2. Id(d) = Id(es[i])
      BY <2>1, <1>3, <1>7
    <2> QED
      BY <2>2, <1>7, <1>8
  <1>13. {Id(d) : d \in Described(es)} = Ids(es)
    BY <1>11, <1>12
  <1> QED
    BY <1>9, <1>10, <1>13

\* The newest points are points.
LEMMA NewestType ==
    ASSUME NEW S, NEW h \in Seq(S)
    PROVE  Newest(h) \in Seq(S)
  <1>1. Window \in Nat \ {0}
    BY BoundsAssumption
  <1>2. PICK n \in Nat : n = Len(h)
    BY SeqFacts
  <1>3. PICK m \in Int : m = Larger(1, Len(h) - Window + 1) /\ 1 <= m
    BY <1>1, <1>2 DEF Larger
  <1>4. \A i \in m..n : h[i] \in S
    BY <1>2, <1>3, SeqFacts
  <1>5. SubSeq(h, m, n) \in Seq(S)
    BY <1>3, <1>4
  <1> QED
    BY <1>2, <1>3, <1>5 DEF Newest

\* A refresh leaves a store of what was emitted.
LEMMA IngestType ==
    ASSUME StoreOK(store), NEW es \in Seq(Good), NEW points \in Pointed(Ids(es))
    PROVE  StoreOK(ingest(es, points))
  <1> DEFINE s == ingest(es, points)
             old(id) == IF id \in DOMAIN store.history THEN store.history[id] ELSE <<>>
  <1>1. s.descriptors = Described(es)
        /\ s.history = [id \in Ids(es) |-> Newest(old(id) \o points[id])]
    BY DEF ingest
  <1>2. ASSUME NEW id \in Ids(es) PROVE Newest(old(id) \o points[id]) \in Seq(PointsOf(id))
    <2>1. old(id) \in Seq(PointsOf(id))
      <3>1. <<>> \in Seq(PointsOf(id))
        OBVIOUS
      <3> QED
        BY <3>1 DEF StoreOK
    <2>2. points[id] \in Seq(PointsOf(id))
      <3>1. points[id] \in Seq(Fresh(id))
        BY DEF Pointed
      <3>2. Fresh(id) \subseteq PointsOf(id)
        BY DEF Fresh
      <3> QED
        BY <3>1, <3>2, SeqOfMore
    <2> HIDE DEF old
    <2> QED
      BY <2>1, <2>2, ConcatType, NewestType
  <1> HIDE DEF s, old
  <1>3. DOMAIN s.history = Ids(es) /\ \A id \in Ids(es) : s.history[id] \in Seq(PointsOf(id))
    BY <1>1, <1>2
  <1>4. StoreOK(s)
    BY <1>1, <1>3, DescribedType DEF StoreOK
  <1> QED
    BY <1>4 DEF s

-----------------------------------------------------------------------------
(* Series whose values are compared. *)

\* The last value of a series.
LastVal(q) == q[Len(q)].val

\* A size and the whole it is a part of get their last points together.
LEMMA CoupledPoints ==
    ASSUME tick \in Nat, Baselines, NEW es \in Seq(Good), NEW x \in Ids(es), NEW y, x # y,
           Coupled(es, x, y)
    PROVE  LET p == process_samples(es).points IN
           /\ y \in Ids(es) /\ p[x] # <<>> /\ p[y] # <<>>
           /\ LastVal(p[x]) \in 0..LastVal(p[y])
  <1>1. PICK N \in Nat : N = Len(es)
    BY SeqFacts
  <1>2. \A n \in 1..N : es[n] \in Good /\ Id(es[n]) \in Ids(es)
    BY <1>1, SeqFacts DEF Ids
  <1>3. PICK I : I = Ids(es)
    OBVIOUS
  <1>4. PICK k \in 1..N : Id(es[k]) = x
    BY <1>1 DEF Ids
  <1>5. ASSUME NEW i \in 1..N
        PROVE  /\ Id(es[i]) = x => /\ i + 1 \in 1..N /\ Id(es[i + 1]) = y
                                   /\ es[i].kind = "gauge" /\ es[i + 1].kind = "gauge"
                                   /\ es[i].val \in 0..es[i + 1].val
               /\ Id(es[i]) = y => i - 1 \in 1..N /\ Id(es[i - 1]) = x
    BY <1>1 DEF Coupled
  <1>6. x \in I /\ y \in I
    <2>1. k + 1 \in 1..N /\ Id(es[k + 1]) = y
      BY <1>4, <1>5
    <2> QED
      BY <2>1, <1>2, <1>3
  <1>7. PICK g : /\ process_samples(es) = g[N]
                 /\ g[0] = [previous |-> Start(es), points |-> [id \in I |-> <<>>]]
                 /\ \A n \in 1..N : g[n] = process_sample(g[n - 1], es[n])
                 /\ \A n \in 0..N : g[n] \in Progress(I)
    BY <1>1, <1>3, ProcessSteps
  <1> DEFINE a(n) == g[n].points[x]
             b(n) == g[n].points[y]
             P(n) == /\ \A i \in 1..n : Id(es[i]) = x => a(n) # <<>>
                     /\ n \in 1..N /\ Id(es[n]) = x => LastVal(a(n)) = es[n].val
                     /\ ~(n \in 1..N /\ Id(es[n]) = x) /\ a(n) # <<>> =>
                          b(n) # <<>> /\ LastVal(a(n)) \in 0..LastVal(b(n))
             T == {n \in Nat : n <= N => P(n)}
  <1>8. 0 \in T
    <2>1. a(0) = <<>>
      BY <1>6, <1>7
    <2>2. P(0)
      BY <2>1
    <2> QED
      BY <2>2
  <1>9. ASSUME NEW n \in Nat, n \in T PROVE n + 1 \in T
    <2> SUFFICES ASSUME n + 1 <= N PROVE P(n + 1)
      OBVIOUS
    <2>1. P(n) /\ n \in 0..N
      BY <1>9
    <2>2. PICK m : m = n + 1 /\ m \in 1..N /\ m - 1 = n
      OBVIOUS
    <2>3. PICK e : e = es[m] /\ e \in Good /\ Id(e) \in I
      BY <2>2, <1>2, <1>3
    <2>4. PICK acc, r : /\ acc \in Progress(I) /\ acc = g[n] /\ r = g[m]
                       /\ r = process_sample(acc, e)
      BY <2>1, <2>2, <2>3, <1>7
    <2>5. /\ \A z \in I : z # Id(e) => r.points[z] = acc.points[z]
          /\ e.kind = "gauge" =>
               r.points[Id(e)] = Append(acc.points[Id(e)], [tick |-> tick + 1, val |-> e.val])
      <3>1. Sampled(I, acc, e, r)
        BY <2>3, <2>4, SampleFacts
      <3> QED
        BY <3>1 DEF Sampled
    <2>6. acc.points \in [I -> Seq(Point)]
      BY <2>4 DEF Progress, Pointed
    <2>7. ASSUME NEW z \in I, Id(e) = z, e.kind = "gauge"
          PROVE  r.points[z] # <<>> /\ LastVal(r.points[z]) = e.val
      <3>1. PICK q \in Seq(Point) : q = acc.points[z]
        BY <2>6
      <3>2. PICK p : p = [tick |-> tick + 1, val |-> e.val]
        OBVIOUS
      <3>3. r.points[z] = Append(q, p) /\ p.val = e.val
        BY <3>1, <3>2, <2>5, <2>7
      <3>4. Len(q) \in Nat /\ Len(Append(q, p)) = Len(q) + 1 /\ Append(q, p)[Len(q) + 1] = p
        BY AppendProperties, SeqFacts
      <3> QED
        BY <3>3, <3>4 DEF LastVal
    <2>8. /\ acc.points[x] = a(n) /\ acc.points[y] = b(n)
          /\ r.points[x] = a(m) /\ r.points[y] = b(m)
      BY <2>4
    <2>9. P(m)
      <3> HIDE DEF a, b
      <3>1. CASE Id(e) = x
        <4>1. a(m) # <<>> /\ LastVal(a(m)) = es[m].val
          BY <3>1, <2>2, <2>3, <2>7, <2>8, <1>5, <1>6
        <4> QED
          BY <4>1, <3>1, <2>2, <2>3
      <3>2. CASE Id(e) = y
        <4>1. n \in 1..N /\ Id(es[n]) = x
          BY <3>2, <2>2, <2>3, <1>5
        <4>2. es[n + 1] = e /\ e.kind = "gauge" /\ es[n].val \in 0..e.val
          BY <4>1, <2>2, <2>3, <1>5
        <4>3. b(m) # <<>> /\ LastVal(b(m)) = e.val
          BY <3>2, <4>2, <2>7, <2>8, <1>6
        <4>4. a(n) # <<>> /\ LastVal(a(n)) = es[n].val
          BY <4>1, <2>1
        <4>5. a(m) = a(n)
          BY <3>2, <2>5, <2>8, <1>6
        <4>6. LastVal(a(m)) \in 0..LastVal(b(m)) /\ a(m) # <<>>
          BY <4>2, <4>3, <4>4, <4>5
        <4>7. Id(es[m]) # x
          BY <3>2, <2>3
        <4> QED
          BY <4>3, <4>6, <4>7
      <3>3. CASE Id(e) # x /\ Id(e) # y
        <4>1. a(m) = a(n) /\ b(m) = b(n)
          BY <3>3, <2>5, <2>8, <1>6
        <4>2. ~(n \in 1..N /\ Id(es[n]) = x)
          BY <3>3, <2>2, <2>3, <1>5
        <4>3. a(n) # <<>> => b(n) # <<>> /\ LastVal(a(n)) \in 0..LastVal(b(n))
          BY <4>2, <2>1
        <4>4. ASSUME NEW i \in 1..m, Id(es[i]) = x PROVE a(m) # <<>>
          <5>1. i # m
            BY <4>4, <3>3, <2>3
          <5>2. i \in 1..n
            BY <5>1, <2>2
          <5> QED
            BY <5>2, <4>1, <4>4, <2>1
        <4>5. Id(es[m]) # x
          BY <3>3, <2>3
        <4> QED
          BY <4>1, <4>3, <4>4, <4>5
      <3> QED
        BY <3>1, <3>2, <3>3
    <2> QED
      BY <2>2, <2>9
  <1>10. T \in SUBSET Nat
    OBVIOUS
  <1> HIDE DEF T, P
  <1>11. T = Nat
    BY <1>8, <1>9, <1>10, SetInduction
  <1>12. P(N)
    BY <1>11 DEF T
  <1>13. ~(N \in 1..N /\ Id(es[N]) = x)
    <2>1. ~(N + 1 \in 1..N)
      OBVIOUS
    <2> QED
      BY <2>1, <1>5
  <1>14. a(N) # <<>>
    BY <1>4, <1>12 DEF P
  <1>15. b(N) # <<>> /\ LastVal(a(N)) \in 0..LastVal(b(N))
    BY <1>12, <1>13, <1>14 DEF P
  <1> QED
    BY <1>3, <1>6, <1>7, <1>14, <1>15

\* A counter that is emitted once is compared with what it was, if that is known, and becomes the
\* next baseline.
LEMMA UniqueCounter ==
    ASSUME tick \in Nat, Baselines, NEW es \in Seq(Good), NEW k \in 1..Len(es),
           es[k].kind = "counter", \A j \in 1..Len(es) : Id(es[j]) = Id(es[k]) => j = k
    PROVE  LET done == process_samples(es)
               id == Id(es[k])
           IN  /\ done.previous[id] = [tick |-> tick + 1, val |-> es[k].val]
               /\ \A p \in Range(done.points[id]) :
                    id \in DOMAIN previous /\ p.val = Rate(es[k], previous[id])
  <1>1. PICK N \in Nat : N = Len(es)
    BY SeqFacts
  <1>2. \A n \in 1..N : es[n] \in Good /\ Id(es[n]) \in Ids(es)
    BY <1>1, SeqFacts DEF Ids
  <1>3. PICK I : I = Ids(es)
    OBVIOUS
  <1>4. PICK id : id = Id(es[k]) /\ id \in I
    BY <1>1, <1>2, <1>3
  <1>5. PICK g : /\ process_samples(es) = g[N]
                 /\ g[0] = [previous |-> Start(es), points |-> [i \in I |-> <<>>]]
                 /\ \A n \in 1..N : g[n] = process_sample(g[n - 1], es[n])
                 /\ \A n \in 0..N : g[n] \in Progress(I)
    BY <1>1, <1>3, ProcessSteps
  <1>6. PICK base : base = Start(es)[id]
    OBVIOUS
  <1> DEFINE a(n) == g[n].previous[id]
             b(n) == g[n].points[id]
             now(v) == [tick |-> tick + 1, val |-> v]
             P(n) == /\ n < k => a(n) = base /\ b(n) = <<>>
                     /\ n >= k => /\ a(n) = now(es[k].val)
                                  /\ \/ b(n) = <<>>
                                     \/ base.tick # 0 /\ b(n) = <<now(Rate(es[k], base))>>
             T == {n \in Nat : n <= N => P(n)}
  <1>7. 0 \in T
    <2>1. a(0) = base /\ b(0) = <<>>
      BY <1>4, <1>5, <1>6
    <2>2. P(0)
      <3> HIDE DEF a, b, now
      <3> QED
        BY <2>1, <1>1
    <2> QED
      BY <2>2
  <1>8. ASSUME NEW n \in Nat, n \in T PROVE n + 1 \in T
    <2> SUFFICES ASSUME n + 1 <= N PROVE P(n + 1)
      OBVIOUS
    <2>1. P(n) /\ n \in 0..N
      BY <1>8
    <2>2. PICK m : m = n + 1 /\ m \in 1..N /\ m - 1 = n
      OBVIOUS
    <2>3. PICK e : e = es[m] /\ e \in Good /\ Id(e) \in I
      BY <2>2, <1>2, <1>3
    <2>4. PICK acc, r : /\ acc \in Progress(I) /\ acc = g[n] /\ r = g[m]
                       /\ r = process_sample(acc, e)
      BY <2>1, <2>2, <2>3, <1>5
    <2>5. /\ \A z \in I : z # Id(e) => /\ r.points[z] = acc.points[z]
                                       /\ r.previous[z] = acc.previous[z]
          /\ e.kind = "counter" =>
               /\ r.previous[Id(e)] = now(e.val)
               /\ \/ r.points[Id(e)] = acc.points[Id(e)]
                  \/ /\ acc.previous[Id(e)].tick # 0
                     /\ r.points[Id(e)] = Append(acc.points[Id(e)],
                                                 now(Rate(e, acc.previous[Id(e)])))
      <3>1. Sampled(I, acc, e, r)
        BY <2>3, <2>4, SampleFacts
      <3> QED
        BY <3>1 DEF Sampled
    <2>6. /\ acc.points[id] = b(n) /\ acc.previous[id] = a(n)
          /\ r.points[id] = b(m) /\ r.previous[id] = a(m)
      BY <2>4
    <2> HIDE DEF a, b, now
    <2>7. CASE m = k
      <3>1. a(n) = base /\ b(n) = <<>>
        BY <2>1, <2>2, <2>7
      <3>2. Id(e) = id /\ e = es[k] /\ e.kind = "counter"
        BY <2>3, <2>7, <1>4
      <3>3. a(m) = now(es[k].val)
        BY <3>2, <2>5, <2>6
      <3>4. \/ b(m) = <<>>
            \/ base.tick # 0 /\ b(m) = Append(<<>>, now(Rate(es[k], base)))
        BY <3>1, <3>2, <2>5, <2>6
      <3>5. \A z : Append(<<>>, z) = <<z>>
        OBVIOUS
      <3>6. m >= k /\ ~(m < k)
        BY <2>7
      <3> QED
        BY <3>3, <3>4, <3>5, <3>6, <2>2
    <2>8. CASE m # k
      <3>1. Id(e) # id
        BY <2>2, <2>3, <2>8, <1>1, <1>4
      <3>2. a(m) = a(n) /\ b(m) = b(n)
        BY <3>1, <2>5, <2>6, <1>4
      <3>3. (m < k => n < k) /\ (m >= k => n >= k)
        BY <2>2, <2>8, <1>1
      <3> QED
        BY <3>2, <3>3, <2>1, <2>2
    <2> QED
      BY <2>7, <2>8
  <1>9. T \in SUBSET Nat
    OBVIOUS
  <1> HIDE DEF T, P
  <1>10. T = Nat
    BY <1>7, <1>8, <1>9, SetInduction
  <1>11. P(N)
    BY <1>10 DEF T
  <1>12. N >= k
    BY <1>1
  <1>13. /\ a(N) = now(es[k].val)
         /\ \/ b(N) = <<>>
            \/ base.tick # 0 /\ b(N) = <<now(Rate(es[k], base))>>
    BY <1>11, <1>12 DEF P
  <1>14. base.tick # 0 => id \in DOMAIN previous /\ base = previous[id]
    BY <1>3, <1>4, <1>6 DEF Start
  <1>15. ASSUME NEW p \in Range(b(N))
         PROVE  id \in DOMAIN previous /\ p.val = Rate(es[k], previous[id])
    <2>1. b(N) # <<>>
      BY <1>15 DEF Range
    <2>2. b(N) = <<now(Rate(es[k], base))>> /\ base.tick # 0
      BY <2>1, <1>13
    <2>3. p = now(Rate(es[k], base))
      BY <2>2, <1>15 DEF Range
    <2> QED
      BY <2>2, <2>3, <1>14
  <1> QED
    BY <1>4, <1>5, <1>13, <1>15

\* Quotients that are rounded down: of three parts they come to the quotient of the whole, or to
\* at most two less.
LEMMA QuotientsAdd ==
    ASSUME NEW d \in Nat \ {0}, NEW x \in Int, NEW y \in Int, NEW z \in Int
    PROVE  ((x + y + z) \div d) - ((x \div d) + (y \div d) + (z \div d)) \in 0..2
  <1>1. ASSUME NEW v \in Int
        PROVE  v \div d \in Int /\ d * (v \div d) <= v /\ v < d * (v \div d) + d
    OBVIOUS
  <1>2. PICK a \in Int, b \in Int, c \in Int, k \in Int :
          a = x \div d /\ b = y \div d /\ c = z \div d /\ k = (x + y + z) \div d
    BY <1>1
  <1>3. /\ d * a <= x /\ x < d * a + d /\ d * b <= y /\ y < d * b + d
        /\ d * c <= z /\ z < d * c + d
    BY <1>1, <1>2
  <1>4. d * k <= x + y + z /\ x + y + z < d * k + d
    <2>1. x + y + z \in Int
      OBVIOUS
    <2> QED
      BY <2>1, <1>1, <1>2
  <1>5. PICK q \in Int : q = a + b + c
    OBVIOUS
  <1>6. d * q = d * a + d * b + d * c
    BY <1>5
  <1>7. d * (k + 1) = d * k + d /\ d * (q + 3) = d * q + d + d + d
    OBVIOUS
  <1>8. /\ d * a \in Int /\ d * b \in Int /\ d * c \in Int /\ d * k \in Int /\ d * q \in Int
        /\ d * (k + 1) \in Int /\ d * (q + 3) \in Int
    OBVIOUS
  <1>9. d * q < d * (k + 1) /\ d * k < d * (q + 3)
    BY <1>3, <1>4, <1>6, <1>7, <1>8
  <1>10. ASSUME NEW m \in Int, NEW n \in Int, d * m < d * n PROVE m < n
    BY <1>10
  <1>11. q < k + 1 /\ k < q + 3
    BY <1>9, <1>10
  <1>12. k - q \in 0..2
    BY <1>11
  <1> QED
    BY <1>2, <1>5, <1>12

\* What follows in a sequence is the end of both.
LEMMA ConcatLast ==
    ASSUME NEW S, NEW a \in Seq(S), NEW b \in Seq(S), b # <<>>
    PROVE  a \o b # <<>> /\ (a \o b)[Len(a \o b)] = b[Len(b)]
  <1>1. PICK m \in Nat, n \in Nat : m = Len(a) /\ n = Len(b)
    BY SeqFacts
  <1>2. n >= 1
    BY <1>1
  <1>3. PICK q : q = a \o b
    OBVIOUS
  <1>4. q \in Seq(S) /\ Len(q) = m + n
        /\ \A i \in 1..(m + n) : q[i] = IF i <= m THEN a[i] ELSE b[i - m]
    BY <1>1, <1>3, ConcatProperties
  <1>5. m + n \in 1..(m + n) /\ ~(m + n <= m) /\ (m + n) - m = n
    BY <1>2
  <1>6. q[m + n] = b[n]
    BY <1>4, <1>5
  <1>7. q # <<>>
    BY <1>2, <1>4
  <1> QED
    BY <1>1, <1>3, <1>4, <1>6, <1>7

\* A window keeps points it had, the newest among them.
LEMMA NewestFacts ==
    ASSUME NEW S, NEW h \in Seq(S)
    PROVE  /\ Range(Newest(h)) \subseteq Range(h)
           /\ h # <<>> => Newest(h) # <<>> /\ Newest(h)[Len(Newest(h))] = h[Len(h)]
  <1>1. Window \in Nat \ {0}
    BY BoundsAssumption
  <1>2. PICK n \in Nat : n = Len(h) /\ DOMAIN h = 1..n
    BY SeqFacts
  <1>3. PICK m \in Int : m = Larger(1, Len(h) - Window + 1) /\ 1 <= m /\ (n >= 1 => m <= n)
    BY <1>1, <1>2 DEF Larger
  <1>4. PICK w : w = Newest(h)
    OBVIOUS
  <1>5. w = SubSeq(h, m, n)
    BY <1>2, <1>3, <1>4 DEF Newest
  <1>6. CASE n = 0
    <2>1. h = <<>> /\ DOMAIN w = {}
      BY <1>2, <1>3, <1>5, <1>6
    <2> QED
      BY <2>1, <1>4 DEF Range
  <1>7. CASE n # 0
    <2>1. m <= n /\ m \in Nat
      BY <1>3, <1>7
    <2>2. PICK l \in Nat : l = (n - m) + 1 /\ l >= 1 /\ (l + m) - 1 = n
      BY <2>1
    <2>3. Len(w) = l /\ DOMAIN w = 1..l
      BY <1>2, <1>3, <1>5, <2>1, <2>2
    <2>4. ASSUME NEW i \in 1..l PROVE (i + m) - 1 \in 1..n /\ w[i] = h[(i + m) - 1]
      <3>1. (i + m) - 1 \in 1..n
        <4>1. i \in Int /\ 1 <= i /\ i <= l
          OBVIOUS
        <4>2. (i + m) - 1 <= (l + m) - 1 /\ 1 <= (i + m) - 1 /\ (i + m) - 1 \in Int
          BY <4>1, <1>3
        <4> QED
          BY <4>2, <2>2
      <3>2. w[i] = h[(i + m) - 1]
        BY <1>2, <1>3, <1>5, <2>1, <2>2
      <3> QED
        BY <3>1, <3>2
    <2>5. l \in 1..l
      BY <2>2
    <2>6. w[l] = h[n]
      BY <2>2, <2>4, <2>5
    <2>7. w # <<>>
      BY <2>2, <2>3
    <2>8. Range(w) \subseteq Range(h)
      BY <1>2, <2>3, <2>4 DEF Range
    <2> QED
      BY <1>2, <1>4, <2>3, <2>6, <2>7, <2>8
  <1> QED
    BY <1>6, <1>7

\* No point is from a refresh to come.
Dated(s, t) == \A id \in DOMAIN s.history : \A p \in Range(s.history[id]) : p.tick <= t

\* The points a refresh adds are the ones of its time.
LEMMA IngestDated ==
    ASSUME tick \in Nat, StoreOK(store), Dated(store, tick), NEW es \in Seq(Good),
           NEW points \in Pointed(Ids(es))
    PROVE  LET s == ingest(es, points) IN
           /\ DOMAIN s.history = Ids(es)
           /\ Dated(s, tick + 1)
           /\ \A id \in Ids(es) : \A p \in Range(s.history[id]) :
                p.tick = tick + 1 => p \in Range(points[id])
  <1> DEFINE s == ingest(es, points)
             old(id) == IF id \in DOMAIN store.history THEN store.history[id] ELSE <<>>
  <1>1. s.history = [id \in Ids(es) |-> Newest(old(id) \o points[id])]
    BY DEF ingest
  <1>2. ASSUME NEW id \in Ids(es)
        PROVE  /\ old(id) \in Seq(Point) /\ \A p \in Range(old(id)) : p.tick <= tick
               /\ points[id] \in Seq(Point) /\ \A p \in Range(points[id]) : p.tick = tick + 1
    <2>1. points[id] \in Seq(Point) /\ points[id] \in Seq(Fresh(id))
      BY DEF Pointed
    <2>2. PICK q \in Seq(Fresh(id)) : q = points[id]
      BY <2>1
    <2>3. \A i \in DOMAIN q : q[i] \in Fresh(id)
      BY SeqFacts
    <2>4. \A p \in Range(q) : p.tick = tick + 1
      BY <2>3 DEF Fresh, Range
    <2>5. CASE id \in DOMAIN store.history
      <3>1. store.history[id] \in Seq(PointsOf(id)) /\ PointsOf(id) \subseteq Point
        BY <2>5 DEF StoreOK, PointsOf
      <3>2. store.history[id] \in Seq(Point)
        BY <3>1, SeqOfMore
      <3>3. \A p \in Range(store.history[id]) : p.tick <= tick
        BY <2>5 DEF Dated
      <3> QED
        BY <2>1, <2>2, <2>4, <2>5, <3>2, <3>3
    <2>6. CASE id \notin DOMAIN store.history
      <3>1. old(id) = <<>> /\ <<>> \in Seq(Point)
        BY <2>6
      <3>2. Range(old(id)) = {}
        BY <3>1 DEF Range
      <3> QED
        BY <2>1, <2>2, <2>4, <3>1, <3>2
    <2> QED
      BY <2>5, <2>6
  <1> HIDE DEF s, old
  <1>3. ASSUME NEW id \in Ids(es), NEW p \in Range(s.history[id])
        PROVE  p \in Range(old(id)) \/ p \in Range(points[id])
    <2>1. PICK a \in Seq(Point), b \in Seq(Point) : a = old(id) /\ b = points[id]
      BY <1>2
    <2>2. s.history[id] = Newest(a \o b) /\ a \o b \in Seq(Point)
      BY <1>1, <2>1, ConcatType
    <2>3. p \in Range(a \o b)
      BY <1>3, <2>2, NewestFacts
    <2>4. PICK m \in Nat, n \in Nat : m = Len(a) /\ n = Len(b) /\ DOMAIN a = 1..m /\ DOMAIN b = 1..n
      BY SeqFacts
    <2>5. PICK q : q = a \o b
      OBVIOUS
    <2>6. DOMAIN q = 1..(m + n) /\ \A i \in 1..(m + n) : q[i] = IF i <= m THEN a[i] ELSE b[i - m]
      BY <2>4, <2>5, ConcatProperties
    <2>7. PICK i \in 1..(m + n) : p = q[i]
      BY <2>3, <2>5, <2>6 DEF Range
    <2>8. CASE i <= m
      <3>1. i \in DOMAIN a /\ p = a[i]
        BY <2>4, <2>6, <2>7, <2>8
      <3> QED
        BY <3>1, <2>1 DEF Range
    <2>9. CASE ~(i <= m)
      <3>1. i - m \in DOMAIN b /\ p = b[i - m]
        BY <2>4, <2>6, <2>7, <2>9
      <3> QED
        BY <3>1, <2>1 DEF Range
    <2> QED
      BY <2>8, <2>9
  <1>4. DOMAIN s.history = Ids(es)
    BY <1>1
  <1>5. ASSUME NEW id \in Ids(es), NEW p \in Range(s.history[id])
        PROVE  p.tick <= tick + 1 /\ (p.tick = tick + 1 => p \in Range(points[id]))
    <2>1. CASE p \in Range(old(id))
      <3>1. PICK t : t = p.tick /\ t <= tick /\ t \in Nat
        <4>1. p \in Point
          BY <2>1, <1>2 DEF Range
        <4> QED
          BY <4>1, <2>1, <1>2 DEF Point
      <3>2. t <= tick + 1 /\ t # tick + 1
        BY <3>1
      <3> QED
        BY <3>1, <3>2
    <2>2. CASE p \in Range(points[id])
      <3>1. p.tick = tick + 1
        BY <2>2, <1>2
      <3>2. tick + 1 <= tick + 1
        OBVIOUS
      <3> QED
        BY <2>2, <3>1, <3>2
    <2> QED
      BY <2>1, <2>2, <1>3
  <1>6. Dated(s, tick + 1)
    BY <1>4, <1>5 DEF Dated
  <1> QED
    BY <1>4, <1>5, <1>6 DEF s

\* A size that is known is known with the whole it is a part of, and not more than it.
SizedPair(s, x, y) ==
    x \in DOMAIN s.history /\ s.history[x] # <<>> =>
      /\ y \in DOMAIN s.history /\ s.history[y] # <<>>
      /\ LastVal(s.history[x]) \in 0..LastVal(s.history[y])
Sized(s) == /\ SizedPair(s, <<Host, "mem_used">>, <<Host, "mem_total">>)
            /\ SizedPair(s, <<Root, "used">>, <<Root, "total">>)

\* A refresh leaves sizes that fit together.
LEMMA IngestPair ==
    ASSUME tick \in Nat, Baselines, StoreOK(store), NEW es \in Seq(Good), NEW x, NEW y, x # y,
           Coupled(es, x, y)
    PROVE  SizedPair(ingest(es, process_samples(es).points), x, y)
  <1> DEFINE points == process_samples(es).points
             s == ingest(es, points)
             old(id) == IF id \in DOMAIN store.history THEN store.history[id] ELSE <<>>
  <1>1. s.history = [id \in Ids(es) |-> Newest(old(id) \o points[id])]
    BY DEF ingest
  <1>2. points \in Pointed(Ids(es))
    BY ProcessType DEF Progress
  <1>3. ASSUME NEW id \in Ids(es), points[id] # <<>>
        PROVE  s.history[id] # <<>> /\ LastVal(s.history[id]) = LastVal(points[id])
    <2>1. old(id) \in Seq(Point)
      <3>1. PointsOf(id) \subseteq Point /\ <<>> \in Seq(Point)
        BY DEF PointsOf
      <3>2. id \in DOMAIN store.history => store.history[id] \in Seq(PointsOf(id))
        BY DEF StoreOK
      <3>3. id \in DOMAIN store.history => store.history[id] \in Seq(Point)
        BY <3>1, <3>2, SeqOfMore
      <3> QED
        BY <3>1, <3>3
    <2>2. points[id] \in Seq(Point)
      BY <1>2 DEF Pointed
    <2> HIDE DEF s, points, old
    <2>3. PICK a \in Seq(Point), b \in Seq(Point) : a = old(id) /\ b = points[id] /\ b # <<>>
      BY <2>1, <2>2, <1>3
    <2>4. PICK h \in Seq(Point) : h = a \o b
      BY ConcatType
    <2>5. h # <<>> /\ h[Len(h)] = b[Len(b)]
      BY <2>3, <2>4, ConcatLast
    <2>6. Newest(h) # <<>> /\ Newest(h)[Len(Newest(h))] = h[Len(h)]
      BY <2>5, NewestFacts
    <2>7. s.history[id] = Newest(h)
      BY <1>1, <2>3, <2>4
    <2> QED
      BY <2>3, <2>5, <2>6, <2>7 DEF LastVal
  <1>4. x \in Ids(es) => /\ y \in Ids(es) /\ points[x] # <<>> /\ points[y] # <<>>
                         /\ LastVal(points[x]) \in 0..LastVal(points[y])
    BY CoupledPoints
  <1>5. DOMAIN s.history = Ids(es)
    BY <1>1
  <1> HIDE DEF points, old, s
  <1>6. SizedPair(s, x, y)
    <2> SUFFICES ASSUME x \in Ids(es)
                 PROVE  /\ y \in Ids(es) /\ s.history[y] # <<>>
                        /\ LastVal(s.history[x]) \in 0..LastVal(s.history[y])
      BY <1>5 DEF SizedPair
    <2> QED
      BY <1>3, <1>4
  <1> QED
    BY <1>6 DEF s, points

\* The same of both pairs.
LEMMA IngestSized ==
    ASSUME tick \in Nat, Baselines, StoreOK(store), NEW es \in Seq(Good), Paired(es)
    PROVE  Sized(ingest(es, process_samples(es).points))
  <1>1. <<Host, "mem_used">> # <<Host, "mem_total">> /\ <<Root, "used">> # <<Root, "total">>
    OBVIOUS
  <1> QED
    BY <1>1, IngestPair DEF Sized, Paired

\* The baselines of the processor's counters add up, and so do the rates of a refresh, rounded down.
BaseAdds(b) ==
    (\A m \in ProcessorMetrics : <<Host, m>> \in DOMAIN b) =>
      b[<<Host, "cpu_usage">>].val = b[<<Host, "cpu_user">>].val + b[<<Host, "cpu_system">>].val
                                     + b[<<Host, "cpu_steal">>].val
At(s, met, t) == {p \in Points(s, <<Host, met>>) : p.tick = t}
RatesAdd(s, t) ==
    \A w \in At(s, "cpu_usage", t), u \in At(s, "cpu_user", t), k \in At(s, "cpu_system", t),
       h \in At(s, "cpu_steal", t) : w.val - (u.val + k.val + h.val) \in 0..2

\* Each of the processor's counters is emitted once.
LEMMA ProcessorOnce ==
    ASSUME NEW es \in Seq(Good), Processor(es), NEW k \in {1, 2, 3, 5}
    PROVE  /\ k \in 1..Len(es) /\ es[k].kind = "counter"
           /\ \A j \in 1..Len(es) : Id(es[j]) = Id(es[k]) => j = k
  <1>1. PICK N \in Nat : N = Len(es) /\ N >= 5
    BY SeqFacts DEF Processor
  <1>2. k \in 1..N
    BY <1>1
  <1>3. PICK m : m \in ProcessorMetrics /\ Id(es[k]) = <<Host, m>>
    <2>1. /\ "cpu_usage" \in ProcessorMetrics /\ "cpu_user" \in ProcessorMetrics
          /\ "cpu_system" \in ProcessorMetrics /\ "cpu_steal" \in ProcessorMetrics
      BY DEF ProcessorMetrics
    <2> QED
      BY <2>1 DEF Processor
  <1>4. ASSUME NEW j \in 1..N, Id(es[j]) = Id(es[k]) PROVE j = k
    <2>1. CASE j \in {1, 2, 3, 5}
      BY <2>1, <1>4 DEF Processor
    <2>2. CASE j \notin {1, 2, 3, 5}
      <3>1. j = 4 \/ j \in 6..N
        BY <2>2
      <3>2. es[j] \in Others
        BY <3>1, <1>1 DEF Processor
      <3>3. es[j].ent = Host /\ es[j].met = m
        BY <1>3, <1>4 DEF Id
      <3> QED
        BY <3>2, <3>3, <1>3 DEF Others, Processing
    <2> QED
      BY <2>1, <2>2
  <1>5. es[k].kind = "counter"
    BY DEF Processor
  <1> QED
    BY <1>1, <1>2, <1>4, <1>5

\* The rate of a counter that went from b to v, in per cent of d.
PerCent(v, b, d) == ((v - b) * 100) \div d

\* Differences between two readings that both add up come, as rates, to the rate of the whole.
LEMMA ScaledAdd ==
    ASSUME NEW d \in Nat \ {0},
           NEW v \in Int, NEW v1 \in Int, NEW v2 \in Int, NEW v3 \in Int, v = v1 + v2 + v3,
           NEW b \in Int, NEW b1 \in Int, NEW b2 \in Int, NEW b3 \in Int, b = b1 + b2 + b3
    PROVE  PerCent(v, b, d) - (PerCent(v1, b1, d) + PerCent(v2, b2, d) + PerCent(v3, b3, d))
             \in 0..2
  <1>1. PICK x \in Int, y \in Int, z \in Int :
          x = (v1 - b1) * 100 /\ y = (v2 - b2) * 100 /\ z = (v3 - b3) * 100
    OBVIOUS
  <1>2. (v - b) * 100 = x + y + z
    BY <1>1
  <1>3. ((x + y + z) \div d) - ((x \div d) + (y \div d) + (z \div d)) \in 0..2
    BY QuotientsAdd
  <1> QED
    BY <1>1, <1>2, <1>3 DEF PerCent

\* A refresh leaves baselines and rates that add up.
LEMMA IngestAdds ==
    ASSUME tick \in Nat, Baselines, StoreOK(store), Dated(store, tick), BaseAdds(previous),
           NEW es \in Seq(Good), es \in Seq(Others) \/ Processor(es)
    PROVE  /\ BaseAdds(process_samples(es).previous)
           /\ RatesAdd(ingest(es, process_samples(es).points), tick + 1)
  <1>1. PICK done : done = process_samples(es)
    OBVIOUS
  <1>2. /\ done.previous \in [Ids(es) -> Point] /\ done.points \in Pointed(Ids(es))
    BY <1>1, ProcessType DEF Progress
  <1>3. PICK s : s = ingest(es, done.points)
    OBVIOUS
  <1>4. /\ DOMAIN s.history = Ids(es)
        /\ \A id \in Ids(es) : \A p \in Range(s.history[id]) :
             p.tick = tick + 1 => p \in Range(done.points[id])
    BY <1>2, <1>3, IngestDated
  <1>5. ASSUME NEW m, NEW p \in At(s, m, tick + 1)
        PROVE  <<Host, m>> \in Ids(es) /\ p \in Range(done.points[<<Host, m>>])
    BY <1>4 DEF At, Points
  <1>6. "cpu_usage" \in ProcessorMetrics
    BY DEF ProcessorMetrics
  <1>7. CASE es \in Seq(Others)
    <2>1. <<Host, "cpu_usage">> \notin Ids(es)
      <3> SUFFICES ASSUME NEW i \in 1..Len(es), Id(es[i]) = <<Host, "cpu_usage">> PROVE FALSE
        BY DEF Ids
      <3>1. es[i] \in Others
        BY <1>7, SeqFacts
      <3>2. es[i].ent = Host /\ es[i].met = "cpu_usage"
        BY DEF Id
      <3> QED
        BY <3>1, <3>2, <1>6 DEF Others, Processing
    <2>2. BaseAdds(done.previous)
      BY <2>1, <1>2, <1>6 DEF BaseAdds
    <2>3. At(s, "cpu_usage", tick + 1) = {}
      BY <2>1, <1>5
    <2>4. RatesAdd(s, tick + 1)
      BY <2>3 DEF RatesAdd
    <2> QED
      BY <1>1, <1>3, <2>2, <2>4
  <1>8. CASE Processor(es)
    <2>1. PICK iw, iu, ik, ih :
            /\ iw = <<Host, "cpu_usage">> /\ iu = <<Host, "cpu_user">>
            /\ ik = <<Host, "cpu_system">> /\ ih = <<Host, "cpu_steal">>
      OBVIOUS
    <2>2. /\ Id(es[1]) = iw /\ Id(es[2]) = iu /\ Id(es[3]) = ik /\ Id(es[5]) = ih
          /\ es[1].val = es[2].val + es[3].val + es[5].val
          /\ \A i \in {1, 2, 3, 5} : es[i].num = 100 /\ es[i].den = es[1].den
      BY <1>8, <2>1 DEF Processor
    <2>3. ASSUME NEW k \in {1, 2, 3, 5}
          PROVE  /\ es[k] \in Good /\ done.previous[Id(es[k])].val = es[k].val
                 /\ \A p \in Range(done.points[Id(es[k])]) :
                      /\ Id(es[k]) \in DOMAIN previous
                      /\ p.val = Rate(es[k], previous[Id(es[k])])
      <3>1. /\ k \in 1..Len(es) /\ es[k].kind = "counter"
            /\ \A j \in 1..Len(es) : Id(es[j]) = Id(es[k]) => j = k
        BY <1>8, ProcessorOnce
      <3>2. /\ done.previous[Id(es[k])] = [tick |-> tick + 1, val |-> es[k].val]
            /\ \A p \in Range(done.points[Id(es[k])]) :
                 /\ Id(es[k]) \in DOMAIN previous
                 /\ p.val = Rate(es[k], previous[Id(es[k])])
        BY <1>1, <3>1, UniqueCounter
      <3>3. es[k] \in Good
        BY <3>1, SeqFacts
      <3> QED
        BY <3>2, <3>3
    <2>4. BaseAdds(done.previous)
      <3>1. /\ done.previous[iw].val = es[1].val /\ done.previous[iu].val = es[2].val
            /\ done.previous[ik].val = es[3].val /\ done.previous[ih].val = es[5].val
        BY <2>2, <2>3
      <3> QED
        BY <3>1, <2>1, <2>2 DEF BaseAdds
    <2>5. ASSUME NEW w \in At(s, "cpu_usage", tick + 1), NEW u \in At(s, "cpu_user", tick + 1),
                 NEW k \in At(s, "cpu_system", tick + 1), NEW h \in At(s, "cpu_steal", tick + 1)
          PROVE  w.val - (u.val + k.val + h.val) \in 0..2
      <3>1. /\ w \in Range(done.points[iw]) /\ u \in Range(done.points[iu])
            /\ k \in Range(done.points[ik]) /\ h \in Range(done.points[ih])
        BY <1>5, <2>1
      <3>2. /\ iw \in DOMAIN previous /\ w.val = Rate(es[1], previous[iw])
            /\ iu \in DOMAIN previous /\ u.val = Rate(es[2], previous[iu])
            /\ ik \in DOMAIN previous /\ k.val = Rate(es[3], previous[ik])
            /\ ih \in DOMAIN previous /\ h.val = Rate(es[5], previous[ih])
        BY <3>1, <2>2, <2>3
      <3>3. \A id \in DOMAIN previous : previous[id].val \in Int
        BY DEF Baselines, Point
      <3>4. PICK b \in Int, b1 \in Int, b2 \in Int, b3 \in Int :
              /\ b = previous[iw].val /\ b1 = previous[iu].val
              /\ b2 = previous[ik].val /\ b3 = previous[ih].val
        BY <3>2, <3>3
      <3>5. b = b1 + b2 + b3
        <4>1. \A m \in ProcessorMetrics : <<Host, m>> \in DOMAIN previous
          BY <3>2, <2>1 DEF ProcessorMetrics
        <4> QED
          BY <4>1, <3>4, <2>1 DEF BaseAdds
      <3>6. /\ es[1].val \in Int /\ es[2].val \in Int /\ es[3].val \in Int /\ es[5].val \in Int
            /\ es[1].den \in Nat \ {0}
        <4>1. \A e \in Good : e.val \in Int /\ e.den \in Nat \ {0}
          BY DEF Good, Emission
        <4> QED
          BY <4>1, <2>3
      <3>7. PICK d \in Nat \ {0}, v \in Int, v1 \in Int, v2 \in Int, v3 \in Int :
              /\ d = es[1].den /\ v = es[1].val /\ v1 = es[2].val /\ v2 = es[3].val
              /\ v3 = es[5].val
        BY <3>6
      <3>8. v = v1 + v2 + v3
        BY <3>7, <2>2
      <3>9. /\ w.val = PerCent(v, b, d) /\ u.val = PerCent(v1, b1, d)
            /\ k.val = PerCent(v2, b2, d) /\ h.val = PerCent(v3, b3, d)
        <4>1. /\ es[1].num = 100 /\ es[2].num = 100 /\ es[3].num = 100 /\ es[5].num = 100
              /\ es[1].den = d /\ es[2].den = d /\ es[3].den = d /\ es[5].den = d
          BY <2>2, <3>7
        <4> QED
          BY <4>1, <3>2, <3>4, <3>7 DEF Rate, PerCent
      <3>10. PerCent(v, b, d) - (PerCent(v1, b1, d) + PerCent(v2, b2, d) + PerCent(v3, b3, d))
               \in 0..2
        BY <3>5, <3>8, ScaledAdd
      <3> QED
        BY <3>9, <3>10
    <2>6. RatesAdd(s, tick + 1)
      BY <2>5 DEF RatesAdd
    <2> QED
      BY <1>1, <1>3, <2>4, <2>6
  <1> QED
    BY <1>7, <1>8

-----------------------------------------------------------------------------
(* What is shown. *)

\* A gauge is made from a described series that has a point.
LEMMA GaugeType ==
    ASSUME NEW s, StoreOK(s), NEW ds \in SUBSET s.descriptors, NEW g \in GaugesOf(ds, s)
    PROVE  \E d \in ds : /\ HasPoint(s, d) /\ g = gauge_from(d, s) /\ d \in Good
                         /\ g.met = d.met /\ g.max = display_max(d)
                         /\ g.val \in Int /\ g.history \in Seq(Int)
                         /\ d.ent = Host /\ d.met \in ShareMetrics => g.val \in 0..100
  <1>1. PICK d \in ds : HasPoint(s, d) /\ g = gauge_from(d, s)
    BY DEF GaugesOf
  <1>2. d \in Good /\ Id(d) \in DOMAIN s.history
    BY DEF StoreOK
  <1> DEFINE S == PointsOf(Id(d))
  <1>0. \A p \in S : p.val \in Int /\ (d.ent = Host /\ d.met \in ShareMetrics => p.val \in 0..100)
    BY DEF PointsOf, Point, Id
  <1> HIDE DEF S
  <1>3. PICK h \in Seq(S) : h = s.history[Id(d)]
    BY <1>2 DEF StoreOK, S
  <1>4. h # <<>>
    BY <1>1, <1>3 DEF HasPoint
  <1>5. Len(h) \in Nat /\ DOMAIN h = 1..Len(h) /\ \A i \in 1..Len(h) : h[i] \in S
    BY SeqFacts
  <1>6. Len(h) \in 1..Len(h)
    BY <1>4
  <1>7. \A i \in 1..Len(h) : h[i].val \in Int
    BY <1>5, <1>0
  <1>8. /\ g.met = d.met /\ g.max = display_max(d) /\ g.val = latest(s, d)
        /\ g.history = [i \in DOMAIN h |-> h[i].val]
    BY <1>1, <1>3 DEF gauge_from
  <1>9. g.val \in Int
    BY <1>3, <1>6, <1>7, <1>8 DEF latest
  <1>10. g.history \in Seq(Int)
    BY <1>5, <1>7, <1>8
  <1>11. d.ent = Host /\ d.met \in ShareMetrics => g.val \in 0..100
    BY <1>0, <1>3, <1>5, <1>6, <1>8 DEF latest
  <1> QED
    BY <1>1, <1>2, <1>8, <1>9, <1>10, <1>11

HostGauges(s) == GaugesOf(series_for(s, Host), s)
Has(s, m) == \E d \in series_for(s, Host) : d.met = m /\ HasPoint(s, d)

\* The headlines' places.
LEMMA HeadlineFacts ==
    /\ Len(HEADLINE) = 9 /\ Range(HEADLINE) = HeadlineMetrics
    /\ \A i \in 1..9 : HEADLINE[i] \in HeadlineMetrics
    /\ \A m \in HeadlineMetrics : \E i \in 1..9 : HEADLINE[i] = m
    /\ \A i, j \in 1..9 : HEADLINE[i] = HEADLINE[j] => i = j
  <1>1. Len(HEADLINE) = 9 /\ DOMAIN HEADLINE = 1..9
    BY DEF HEADLINE
  <1>2. \A i \in 1..9 : HEADLINE[i] \in HeadlineMetrics
    BY DEF HEADLINE, HeadlineMetrics
  <1>3. /\ HEADLINE[1] = "cpu_usage" /\ HEADLINE[2] = "mem_usage" /\ HEADLINE[3] = "disk_usage"
        /\ HEADLINE[4] = "swap_usage" /\ HEADLINE[5] = "cpu_temp" /\ HEADLINE[6] = "load1"
        /\ HEADLINE[7] = "net_rx" /\ HEADLINE[8] = "net_tx" /\ HEADLINE[9] = "uptime"
    BY DEF HEADLINE
  <1>4. \A m \in HeadlineMetrics : \E i \in 1..9 : HEADLINE[i] = m
    BY <1>3 DEF HeadlineMetrics
  <1>5. Range(HEADLINE) = HeadlineMetrics
    BY <1>1, <1>2, <1>4 DEF Range
  <1>6. \A i, j \in 1..9 : HEADLINE[i] = HEADLINE[j] => i = j
    BY <1>3
  <1> QED
    BY <1>1, <1>2, <1>4, <1>5, <1>6

\* The status grid has each headline once, if it has a reading, and nothing else.
LEMMA GridFacts ==
    ASSUME NEW s, StoreOK(s)
    PROVE  LET h == host_gauges(s) IN
           /\ h \in Seq(HostGauges(s))
           /\ \A i \in 1..Len(h) : h[i].met \in HeadlineMetrics
           /\ \A i, j \in 1..Len(h) : h[i].met = h[j].met => i = j
           /\ \A m \in HeadlineMetrics : Has(s, m) => \E i \in 1..Len(h) : h[i].met = m
  <1> DEFINE S == HostGauges(s)
             shown(m) == GaugesOf({d \in series_for(s, Host) : d.met = m}, s)
             one(m) == CHOOSE g \in shown(m) : TRUE
             of(m) == When(shown(m) # {}, <<one(m)>>)
             ss == [i \in 1..Len(HEADLINE) |-> of(HEADLINE[i])]
             h == host_gauges(s)
  <1>1. h = FlattenSeq(ss)
    BY DEF host_gauges, ForEach
  <1>2. ASSUME NEW m, NEW g \in shown(m) PROVE g \in S /\ g.met = m
    <2>1. {d \in series_for(s, Host) : d.met = m} \in SUBSET s.descriptors
      BY DEF series_for
    <2>2. g.met = m
      BY <2>1, GaugeType
    <2>3. g \in S
      BY DEF GaugesOf, HostGauges
    <2> QED
      BY <2>2, <2>3
  <1>3. ASSUME NEW m, Has(s, m) PROVE shown(m) # {}
    <2>1. PICK d \in series_for(s, Host) : d.met = m /\ HasPoint(s, d)
      BY <1>3 DEF Has
    <2>2. gauge_from(d, s) \in shown(m)
      BY <2>1 DEF GaugesOf
    <2> QED
      BY <2>2
  <1> HIDE DEF shown
  <1>4. ASSUME NEW m PROVE \/ of(m) = <<>> /\ ~Has(s, m)
                           \/ \E g \in S : of(m) = <<g>> /\ g.met = m
    <2>1. CASE shown(m) = {}
      BY <2>1, <1>3 DEF When
    <2>2. CASE shown(m) # {}
      <3>1. one(m) \in shown(m)
        BY <2>2
      <3>2. one(m) \in S /\ one(m).met = m
        BY <3>1, <1>2
      <3> HIDE DEF one
      <3> QED
        BY <2>2, <3>2 DEF When
    <2> QED
      BY <2>1, <2>2
  <1> HIDE DEF of, S
  <1>5. /\ Len(HEADLINE) = 9 /\ \A i \in 1..9 : HEADLINE[i] \in HeadlineMetrics
        /\ \A m \in HeadlineMetrics : \E i \in 1..9 : HEADLINE[i] = m
        /\ \A i, j \in 1..9 : HEADLINE[i] = HEADLINE[j] => i = j
    BY HeadlineFacts
  <1>6. ASSUME NEW m PROVE of(m) \in Seq(S)
    <2>1. \A g \in S : <<g>> \in Seq(S)
      OBVIOUS
    <2>2. <<>> \in Seq(S)
      OBVIOUS
    <2> QED
      BY <2>1, <2>2, <1>4
  <1>7. ss \in Seq(Seq(S)) /\ Len(ss) = 9 /\ \A i \in 1..9 : ss[i] = of(HEADLINE[i])
    BY <1>5, <1>6
  <1> HIDE DEF ss
  <1>8. PICK F : F \in Glued(S, ss)
    BY <1>7, GluedExists
  <1>9. h = F[9]
    BY <1>1, <1>7, <1>8, FlattenIsGlued
  <1>10. F \in [0..9 -> Seq(S)] /\ F[0] = <<>> /\ \A k \in 1..9 : F[k] = F[k - 1] \o ss[k]
    BY <1>7, <1>8 DEF Glued
  <1> HIDE DEF h
  <1> DEFINE P(n) ==
               /\ \A i \in 1..Len(F[n]) : \E k \in 1..n : F[n][i].met = HEADLINE[k]
               /\ \A i, j \in 1..Len(F[n]) : F[n][i].met = F[n][j].met => i = j
               /\ \A k \in 1..n : Has(s, HEADLINE[k]) =>
                    \E i \in 1..Len(F[n]) : F[n][i].met = HEADLINE[k]
             T == {n \in Nat : n <= 9 => P(n)}
  <1>11. 0 \in T
    <2>1. Len(F[0]) = 0
      BY <1>10
    <2>2. P(0)
      BY <2>1
    <2> QED
      BY <2>2
  <1>12. ASSUME NEW n \in Nat, n \in T PROVE n + 1 \in T
    <2> SUFFICES ASSUME n + 1 <= 9 PROVE P(n + 1)
      OBVIOUS
    <2>1. P(n)
      BY <1>12
    <2>2. PICK a \in Seq(S) : a = F[n]
      <3>1. n \in 0..9
        OBVIOUS
      <3>2. F[n] \in Seq(S)
        BY <3>1, <1>10
      <3> HIDE DEF P
      <3> QED
        BY <3>2
    <2>3. PICK m : m = HEADLINE[n + 1]
      OBVIOUS
    <2>4. F[n + 1] = a \o of(m)
      <3>1. n + 1 \in 1..9 /\ (n + 1) - 1 = n
        OBVIOUS
      <3>2. F[n + 1] = F[(n + 1) - 1] \o ss[n + 1] /\ ss[n + 1] = of(m)
        BY <3>1, <1>7, <1>10, <2>3
      <3> QED
        BY <3>1, <3>2, <2>2
    <2>5. PICK L \in Nat : L = Len(a)
      BY SeqFacts
    <2>6. /\ \A i \in 1..L : \E k \in 1..n : a[i].met = HEADLINE[k]
          /\ \A i, j \in 1..L : a[i].met = a[j].met => i = j
          /\ \A k \in 1..n : Has(s, HEADLINE[k]) => \E i \in 1..L : a[i].met = HEADLINE[k]
      BY <2>1, <2>2, <2>5
    <2> HIDE DEF P
    <2>7. CASE of(m) = <<>> /\ ~Has(s, m)
      <3>1. F[n + 1] = a
        BY <2>4, <2>7
      <3>2. ASSUME NEW i \in 1..L PROVE \E k \in 1..(n + 1) : a[i].met = HEADLINE[k]
        <4>1. PICK k \in 1..n : a[i].met = HEADLINE[k]
          BY <2>6
        <4>2. k \in 1..(n + 1)
          OBVIOUS
        <4> QED
          BY <4>1, <4>2
      <3>3. ASSUME NEW k \in 1..(n + 1), Has(s, HEADLINE[k])
            PROVE  \E i \in 1..L : a[i].met = HEADLINE[k]
        <4>1. k # n + 1
          BY <3>3, <2>7, <2>3
        <4>2. k \in 1..n
          BY <4>1
        <4> QED
          BY <4>2, <3>3, <2>6
      <3> QED
        BY <3>1, <3>2, <3>3, <2>5, <2>6 DEF P
    <2>8. CASE \E g \in S : of(m) = <<g>> /\ g.met = m
      <3>1. PICK g \in S : of(m) = <<g>> /\ g.met = m
        BY <2>8
      <3>2. PICK b : b = F[n + 1]
        OBVIOUS
      <3>3. /\ Len(b) = L + 1 /\ \A i \in 1..L : b[i] = a[i]
            /\ b[L + 1] = g
        <4>1. b = a \o <<g>>
          BY <3>1, <3>2, <2>4
        <4> QED
          BY <4>1, <2>5
      <3>4. ASSUME NEW i \in 1..(L + 1) PROVE \E k \in 1..(n + 1) : b[i].met = HEADLINE[k]
        <4>1. CASE i = L + 1
          <5>1. n + 1 \in 1..(n + 1) /\ b[i].met = HEADLINE[n + 1]
            BY <4>1, <3>1, <3>3, <2>3
          <5> QED
            BY <5>1
        <4>2. CASE i # L + 1
          <5>1. i \in 1..L
            BY <4>2
          <5>2. PICK k \in 1..n : a[i].met = HEADLINE[k]
            BY <5>1, <2>6
          <5>3. k \in 1..(n + 1) /\ b[i].met = HEADLINE[k]
            BY <5>1, <5>2, <3>3
          <5> QED
            BY <5>3
        <4> QED
          BY <4>1, <4>2
      <3>5. \A i \in 1..L : a[i].met # m
        <4> SUFFICES ASSUME NEW i \in 1..L, a[i].met = m PROVE FALSE
          OBVIOUS
        <4>1. PICK k \in 1..n : a[i].met = HEADLINE[k]
          BY <2>6
        <4>2. k \in 1..9 /\ n + 1 \in 1..9 /\ k # n + 1
          OBVIOUS
        <4>3. HEADLINE[k] = HEADLINE[n + 1]
          BY <4>1, <2>3
        <4> QED
          BY <4>2, <4>3, <1>5
      <3>6. ASSUME NEW i \in 1..(L + 1), NEW j \in 1..(L + 1), b[i].met = b[j].met PROVE i = j
        <4>1. CASE i \in 1..L /\ j \in 1..L
          BY <4>1, <3>3, <3>6, <2>6
        <4>2. CASE i \in 1..L /\ j = L + 1
          BY <4>2, <3>1, <3>3, <3>5, <3>6
        <4>3. CASE i = L + 1 /\ j \in 1..L
          BY <4>3, <3>1, <3>3, <3>5, <3>6
        <4>4. CASE i = L + 1 /\ j = L + 1
          BY <4>4
        <4>5. (i \in 1..L \/ i = L + 1) /\ (j \in 1..L \/ j = L + 1)
          OBVIOUS
        <4> QED
          BY <4>1, <4>2, <4>3, <4>4, <4>5
      <3>7. ASSUME NEW k \in 1..(n + 1), Has(s, HEADLINE[k])
            PROVE  \E i \in 1..(L + 1) : b[i].met = HEADLINE[k]
        <4>1. CASE k = n + 1
          <5>1. L + 1 \in 1..(L + 1) /\ b[L + 1].met = HEADLINE[k]
            BY <4>1, <3>1, <3>3, <2>3
          <5> QED
            BY <5>1
        <4>2. CASE k # n + 1
          <5>1. k \in 1..n
            BY <4>2
          <5>2. PICK i \in 1..L : a[i].met = HEADLINE[k]
            BY <5>1, <3>7, <2>6
          <5>3. i \in 1..(L + 1) /\ b[i].met = HEADLINE[k]
            BY <5>2, <3>3
          <5> QED
            BY <5>3
        <4> QED
          BY <4>1, <4>2
      <3>8. Len(F[n + 1]) = L + 1
        BY <3>2, <3>3
      <3> QED
        BY <3>2, <3>4, <3>6, <3>7, <3>8 DEF P
    <2> QED
      BY <2>7, <2>8, <1>4
  <1>13. T \in SUBSET Nat
    OBVIOUS
  <1> HIDE DEF T, P
  <1>14. T = Nat
    BY <1>11, <1>12, <1>13, SetInduction
  <1>15. P(9)
    <2>1. 9 \in T /\ 9 <= 9
      BY <1>14
    <2> QED
      BY <2>1 DEF T
  <1>16. h \in Seq(S)
    BY <1>9, <1>10
  <1>17. /\ \A i \in 1..Len(h) : \E k \in 1..9 : h[i].met = HEADLINE[k]
         /\ \A i, j \in 1..Len(h) : h[i].met = h[j].met => i = j
         /\ \A k \in 1..9 : Has(s, HEADLINE[k]) => \E i \in 1..Len(h) : h[i].met = HEADLINE[k]
    BY <1>9, <1>15 DEF P
  <1>18. \A i \in 1..Len(h) : h[i].met \in HeadlineMetrics
    BY <1>5, <1>17
  <1>19. \A m \in HeadlineMetrics : Has(s, m) => \E i \in 1..Len(h) : h[i].met = m
    BY <1>5, <1>17
  <1> QED
    BY <1>16, <1>17, <1>18, <1>19 DEF S, h

\* A source has one section or none, and one that has none has headlines only.
LEMMA SectionFacts ==
    ASSUME NEW src \in SourceNames
    PROVE  \/ src \in {"sensors", "filesystem"} /\ group_title(src) = {}
           \/ \E t : group_title(src) = {t}
  <1>1. CASE src \in {"sensors", "filesystem"}
    BY <1>1 DEF group_title
  <1>2. CASE src \notin {"sensors", "filesystem"}
    <2>1. \/ group_title(src) = {"CPU"} \/ group_title(src) = {"Memory"}
          \/ group_title(src) = {"Load"} \/ group_title(src) = {"Disk I/O"}
          \/ group_title(src) = {"Network totals"} \/ group_title(src) = {"Sockets & TCP"}
          \/ group_title(src) = {"Other"}
      BY <1>2 DEF group_title
    <2> QED
      BY <2>1
  <1> QED
    BY <1>1, <1>2

\* The series of the host that are shown in a section.
Rest(s) == {d \in series_for(s, Host) : d.met \notin Range(HEADLINE)
                                        /\ group_title(d.src) # {} /\ HasPoint(s, d)}

\* A section holds the gauges of its series.
LEMMA DetailFacts ==
    ASSUME NEW s, StoreOK(s)
    PROVE  LET v == host_details(s) IN
           /\ DOMAIN v = UNION {group_title(d.src) : d \in Rest(s)}
           /\ \A t \in DOMAIN v : \A g \in v[t] :
                \E d \in Rest(s) : g = gauge_from(d, s) /\ g.met = d.met /\ t \in group_title(d.src)
           /\ \A d \in Rest(s) : \A t \in group_title(d.src) :
                t \in DOMAIN v /\ gauge_from(d, s) \in v[t] /\ gauge_from(d, s).met = d.met
  <1> DEFINE v == host_details(s)
             R == Rest(s)
             of(t) == GaugesOf({d \in R : t \in group_title(d.src)}, s)
  <1>1. v = [t \in UNION {group_title(d.src) : d \in R} |-> of(t)]
    BY DEF host_details, Rest
  <1>2. R \in SUBSET s.descriptors /\ \A d \in R : HasPoint(s, d)
    BY DEF Rest, series_for
  <1> HIDE DEF v, R
  <1>3. ASSUME NEW t \in DOMAIN v, NEW g \in v[t]
        PROVE  \E d \in R : g = gauge_from(d, s) /\ g.met = d.met /\ t \in group_title(d.src)
    <2>1. g \in GaugesOf({d \in R : t \in group_title(d.src)}, s)
      BY <1>1
    <2>2. PICK d \in {x \in R : t \in group_title(x.src)} : g = gauge_from(d, s) /\ g.met = d.met
      <3>1. {d \in R : t \in group_title(d.src)} \in SUBSET s.descriptors
        BY <1>2
      <3> QED
        BY <2>1, <3>1, GaugeType
    <2> QED
      BY <2>2
  <1>4. ASSUME NEW d \in R, NEW t \in group_title(d.src)
        PROVE  t \in DOMAIN v /\ gauge_from(d, s) \in v[t] /\ gauge_from(d, s).met = d.met
    <2>1. t \in DOMAIN v /\ v[t] = of(t)
      BY <1>1
    <2>2. gauge_from(d, s) \in of(t)
      BY <1>2 DEF GaugesOf
    <2>3. gauge_from(d, s).met = d.met
      BY DEF gauge_from
    <2> QED
      BY <2>1, <2>2, <2>3
  <1>5. DOMAIN v = UNION {group_title(d.src) : d \in R}
    BY <1>1
  <1> QED
    BY <1>3, <1>4, <1>5 DEF v, R

\* Everything shown of the host itself is a gauge of one of its series.
LEMMA AllFacts ==
    ASSUME NEW s, StoreOK(s)
    PROVE  Range(host_gauges(s)) \union UNION Range(host_details(s)) \subseteq HostGauges(s)
  <1>1. Range(host_gauges(s)) \subseteq HostGauges(s)
    <2>1. host_gauges(s) \in Seq(HostGauges(s))
      BY GridFacts
    <2>2. \A i \in DOMAIN host_gauges(s) : host_gauges(s)[i] \in HostGauges(s)
      BY <2>1
    <2> QED
      BY <2>2 DEF Range
  <1>2. ASSUME NEW x \in Range(host_details(s)), NEW g \in x PROVE g \in HostGauges(s)
    <2>1. PICK t \in DOMAIN host_details(s) : x = host_details(s)[t]
      BY DEF Range
    <2>2. PICK d \in Rest(s) : g = gauge_from(d, s)
      BY <2>1, DetailFacts
    <2> QED
      BY <2>2 DEF Rest, HostGauges, GaugesOf
  <1> QED
    BY <1>1, <1>2

\* A verdict on readings is one of three, and not "all is well" while a share is nearly used up.
LEMMA JudgeFacts ==
    ASSUME NEW gauges, \A g \in gauges : g.val \in Int
    PROVE  /\ Judge(gauges).level \in {"ok", "busy", "problem"}
           /\ (\E g \in gauges : g.met \in TileMetrics /\ g.val >= 90) => Judge(gauges).level # "ok"
  <1> DEFINE known(m) == {g.val : g \in {x \in gauges : x.met = m}}
             over(m, n) == \E v \in known(m) : v >= n
             either(m, fallback, n) == over(IF known(m) # {} THEN m ELSE fallback, n)
             rules == <<
               <<over("disk_usage", NEARLY_FULL), "problem", "Storage is almost full">>,
               <<over("mem_usage", NEARLY_FULL), "problem", "Running out of memory">>,
               <<either("pressure_io_60s", "pressure_io", STALLING_BADLY),
                 "problem", "Waiting on storage">>,
               <<either("pressure_memory_full", "pressure_memory", STALLING),
                 "problem", "Struggling for memory">>,
               <<over("cpu_temp", OVERHEATING), "problem", "Running very hot">>,
               <<over("disk_usage", FILLING_UP), "busy", "Storage is filling up">>,
               <<over("mem_usage", WORKING_HARD), "busy", "Memory is under pressure">>,
               <<either("pressure_cpu_60s", "pressure_cpu", STALLING), "busy",
                 "Work is queueing up">>,
               <<over("cpu_temp", RUNNING_WARM), "busy", "Running warm">>,
               <<over("cpu_usage", WORKING_HARD), "busy", "Working very hard">>,
               <<TRUE, "ok", "Everything looks good">> >>
             first == CHOOSE i \in 1..Len(rules) : rules[i][1] /\ \A j \in 1..(i - 1) : ~rules[j][1]
  <1>1. Judge(gauges).level = rules[first][2]
    BY DEF Judge, Verdict
  <1>2. Len(rules) = 11
    <2> HIDE DEF over, either
    <2> QED
      OBVIOUS
  <1>3. /\ rules[1][1] = over("disk_usage", NEARLY_FULL)
        /\ rules[2][1] = over("mem_usage", NEARLY_FULL)
        /\ rules[10][1] = over("cpu_usage", WORKING_HARD)
        /\ rules[11][1] = TRUE
    <2> HIDE DEF over, either
    <2> QED
      OBVIOUS
  <1>4. /\ \A i \in 1..10 : rules[i][2] \in {"busy", "problem"}
        /\ rules[11][2] = "ok"
    <2> HIDE DEF over, either
    <2> QED
      OBVIOUS
  <1> HIDE DEF rules
  <1>5. first \in 1..11 /\ rules[first][1] /\ \A j \in 1..(first - 1) : ~rules[j][1]
    BY <1>2, <1>3
  <1> HIDE DEF first
  <1>6. Judge(gauges).level \in {"ok", "busy", "problem"}
    <2>1. first \in 1..10 \/ first = 11
      BY <1>5
    <2> QED
      BY <2>1, <1>1, <1>4
  <1>7. ASSUME NEW g \in gauges, g.met \in TileMetrics, g.val >= 90
        PROVE  Judge(gauges).level # "ok"
    <2>1. g.val \in known(g.met) /\ g.val \in Int
      OBVIOUS
    <2>2. rules[1][1] \/ rules[2][1] \/ rules[10][1]
      <3>1. CASE g.met = "disk_usage"
        <4>1. over("disk_usage", NEARLY_FULL)
          BY <3>1, <2>1, <1>7 DEF NEARLY_FULL
        <4> HIDE DEF over
        <4> QED
          BY <4>1, <1>3
      <3>2. CASE g.met = "mem_usage"
        <4>1. over("mem_usage", NEARLY_FULL)
          BY <3>2, <2>1, <1>7 DEF NEARLY_FULL
        <4> HIDE DEF over
        <4> QED
          BY <4>1, <1>3
      <3>3. CASE g.met = "cpu_usage"
        <4>1. over("cpu_usage", WORKING_HARD)
          BY <3>3, <2>1, <1>7 DEF WORKING_HARD
        <4> HIDE DEF over
        <4> QED
          BY <4>1, <1>3
      <3> QED
        BY <3>1, <3>2, <3>3, <1>7 DEF TileMetrics
    <2>3. first # 11
      <3> SUFFICES ASSUME first = 11 PROVE FALSE
        OBVIOUS
      <3>1. \A j \in 1..10 : ~rules[j][1]
        BY <1>5
      <3> QED
        BY <2>2, <3>1
    <2>4. first \in 1..10
      BY <1>5, <2>3
    <2> QED
      BY <1>1, <1>4, <2>4
  <1> QED
    BY <1>6, <1>7

\* The values of some gauges of an entity, by series.
Values(gs, m) == {g.val : g \in {x \in gs : x.met = m}}

\* A value that is shown is the last one of its series.
LEMMA ValueFacts ==
    ASSUME NEW s, StoreOK(s), NEW ent, NEW gs \in SUBSET GaugesOf(series_for(s, ent), s), NEW m,
           NEW v \in Values(gs, m)
    PROVE  LET id == <<ent, m>> IN
           id \in DOMAIN s.history /\ s.history[id] # <<>> /\ v = LastVal(s.history[id])
  <1>1. PICK g \in gs : g.met = m /\ v = g.val
    BY DEF Values
  <1>2. PICK d \in series_for(s, ent) : HasPoint(s, d) /\ g = gauge_from(d, s)
    BY DEF GaugesOf
  <1>3. g.met = d.met /\ g.val = latest(s, d)
    BY <1>2 DEF gauge_from
  <1>4. d \in s.descriptors /\ d.ent = ent
    BY DEF series_for
  <1>5. Id(d) = <<ent, m>> /\ Id(d) \in DOMAIN s.history
    BY <1>1, <1>3, <1>4 DEF Id, StoreOK
  <1> QED
    BY <1>1, <1>2, <1>3, <1>5 DEF HasPoint, latest, LastVal

\* What is free of a whole is a part of it.
LEMMA FreeFacts ==
    ASSUME NEW s, StoreOK(s), NEW ent, NEW gs \in SUBSET GaugesOf(series_for(s, ent), s),
           NEW a, NEW b, SizedPair(s, <<ent, a>>, <<ent, b>>),
           Values(gs, a) # {}, or_else(Values(gs, b), 0) > 0
    PROVE  or_else(Values(gs, b), 0) - or_else(Values(gs, a), 0) \in 0..or_else(Values(gs, b), 0)
  <1>1. PICK used : used = or_else(Values(gs, a), 0) /\ used \in Values(gs, a)
    BY DEF or_else
  <1>2. PICK x, y : x = <<ent, a>> /\ y = <<ent, b>>
    OBVIOUS
  <1>3. x \in DOMAIN s.history /\ s.history[x] # <<>> /\ used = LastVal(s.history[x])
    BY <1>1, <1>2, ValueFacts
  <1>4. /\ y \in DOMAIN s.history /\ s.history[y] # <<>>
        /\ used \in 0..LastVal(s.history[y])
    BY <1>2, <1>3 DEF SizedPair
  <1>5. Values(gs, b) # {}
    <2> SUFFICES ASSUME Values(gs, b) = {} PROVE FALSE
      OBVIOUS
    <2>1. or_else(Values(gs, b), 0) = 0
      BY DEF or_else
    <2> QED
      BY <2>1
  <1>6. PICK total : total = or_else(Values(gs, b), 0) /\ total \in Values(gs, b)
    BY <1>5 DEF or_else
  <1>7. total = LastVal(s.history[y])
    BY <1>2, <1>6, ValueFacts
  <1>8. total \in Int
    <2>1. PICK h \in Seq(PointsOf(y)) : h = s.history[y] /\ h # <<>>
      BY <1>4 DEF StoreOK
    <2>2. h[Len(h)] \in PointsOf(y)
      BY <2>1, SeqFacts
    <2>3. h[Len(h)].val \in Int
      BY <2>2 DEF PointsOf, Point
    <2> QED
      BY <2>1, <2>3, <1>7 DEF LastVal
  <1>9. total - used \in 0..total
    BY <1>4, <1>7, <1>8
  <1> QED
    BY <1>1, <1>6, <1>9

\* The parts of a tuple.
LEMMA TupleParts ==
    /\ \A a : <<a>>[1] = a
    /\ \A a, b : <<a, b>>[1] = a
    /\ \A a, b, c : <<a, b, c>>[2] = b /\ <<a, b, c>>[3] = c
  OBVIOUS

\* A tile says that something is free only of a whole that is known.
FreeOf(q, g, u, w) ==
    /\ g.met # "cpu_usage" /\ u # {} /\ or_else(w, 0) > 0
    /\ q[2] = or_else(w, 0) - or_else(u, 0) /\ q[3] = or_else(w, 0)

\* That is so whatever is known.
LEMMA PlainFacts ==
    ASSUME NEW g, NEW u, NEW w, NEW q, q = plain_summary(g, u, w), q[1] = "free of"
    PROVE  FreeOf(q, g, u, w)
  <1>1. PICK c, d : c = or_else(w, 0) - or_else(u, 0) /\ d = or_else(w, 0)
    OBVIOUS
  <1>2. CASE g.met = "cpu_usage"
    <2>1. PICK x \in {"Barely working", "Working normally", "Working hard", "Very busy"} :
            q = <<x>>
      BY <1>2 DEF plain_summary
    <2>2. q[1] = x
      BY <2>1, TupleParts, Zenon
    <2> QED
      BY <2>2
  <1>3. CASE g.met # "cpu_usage" /\ u # {} /\ d > 0
    <2>1. q = <<"free of", c, d>>
      BY <1>1, <1>3 DEF plain_summary
    <2>2. <<"free of", c, d>>[2] = c /\ <<"free of", c, d>>[3] = d
      BY TupleParts
    <2>3. q[2] = c /\ q[3] = d
      BY <2>1, <2>2, Zenon
    <2> QED
      BY <2>3, <1>1, <1>3 DEF FreeOf
  <1>4. CASE g.met # "cpu_usage" /\ ~(u # {} /\ d > 0)
    <2>1. q = <<"used", g.val>>
      BY <1>1, <1>4 DEF plain_summary
    <2>2. q[1] = "used"
      BY <2>1, TupleParts, Zenon
    <2> QED
      BY <2>2
  <1> QED
    BY <1>2, <1>3, <1>4

\* What a tile says is free is a part of the whole.
LEMMA SummaryFacts ==
    ASSUME NEW s, StoreOK(s), Sized(s), NEW all \in SUBSET HostGauges(s),
           NEW t \in simple_tiles(host_gauges(s), all, entities(s)), t.summary[1] = "free of"
    PROVE  t.summary[2] \in 0..t.summary[3]
  <1> DEFINE hg == host_gauges(s)
             ents == entities(s)
             root == UNION {e.gauges : e \in {x \in ents : x.id = <<"fs", <<>>>>}}
             sizes(m) == CASE m = "mem_usage" -> <<Values(all, "mem_used"),
                                                   Values(all, "mem_total")>>
                           [] m = "disk_usage" -> <<Values(root, "used"), Values(root, "total")>>
                           [] OTHER -> <<{}, {}>>
             words(g) == plain_summary(g, sizes(g.met)[1], sizes(g.met)[2])
             lev(g) == IF \E p \in fraction_percent(g) : p >= 90 THEN "problem"
                       ELSE IF \E p \in fraction_percent(g) : p >= 80 THEN "busy" ELSE "ok"
             tile(g) == [met |-> g.met, name |-> plain_name[g.met], summary |-> words(g),
                         level |-> lev(g)]
  <1>1. PICK g \in Range(hg) : g.met \in DOMAIN plain_name /\ t.summary = words(g)
    <2>1. simple_tiles(hg, all, ents) =
            {tile(g) : g \in {x \in Range(hg) : x.met \in DOMAIN plain_name}}
      BY DEF simple_tiles, Values
    <2> HIDE DEF words, lev, hg
    <2>2. PICK g \in {x \in Range(hg) : x.met \in DOMAIN plain_name} : t = tile(g)
      BY <2>1 DEF hg
    <2>3. t.summary = words(g)
      BY <2>2
    <2> QED
      BY <2>2, <2>3 DEF hg
  <1>2. g.met \in {"cpu_usage", "mem_usage", "disk_usage"}
    BY <1>1 DEF plain_name
  <1>3. ASSUME NEW u, NEW w, t.summary = plain_summary(g, u, w)
        PROVE  /\ g.met # "cpu_usage" /\ u # {} /\ or_else(w, 0) > 0
               /\ t.summary[2] = or_else(w, 0) - or_else(u, 0) /\ t.summary[3] = or_else(w, 0)
    <2>1. FreeOf(t.summary, g, u, w)
      BY <1>3, PlainFacts, Zenon
    <2> QED
      BY <2>1 DEF FreeOf
  <1>4. CASE g.met = "cpu_usage"
    BY <1>1, <1>3, <1>4
  <1>5. CASE g.met = "mem_usage"
    <2>1. sizes(g.met)[1] = Values(all, "mem_used") /\ sizes(g.met)[2] = Values(all, "mem_total")
      BY <1>5
    <2>2. t.summary = plain_summary(g, Values(all, "mem_used"), Values(all, "mem_total"))
      BY <1>1, <2>1
    <2>3. /\ Values(all, "mem_used") # {} /\ or_else(Values(all, "mem_total"), 0) > 0
          /\ t.summary[2] = or_else(Values(all, "mem_total"), 0)
                            - or_else(Values(all, "mem_used"), 0)
          /\ t.summary[3] = or_else(Values(all, "mem_total"), 0)
      BY <2>2, <1>3, <1>5
    <2>4. /\ all \in SUBSET GaugesOf(series_for(s, Host), s)
          /\ SizedPair(s, <<Host, "mem_used">>, <<Host, "mem_total">>)
      BY DEF HostGauges, Sized
    <2> QED
      BY <2>3, <2>4, FreeFacts
  <1>6. CASE g.met = "disk_usage"
    <2>1. sizes(g.met)[1] = Values(root, "used") /\ sizes(g.met)[2] = Values(root, "total")
      BY <1>6
    <2>2. t.summary = plain_summary(g, Values(root, "used"), Values(root, "total"))
      BY <1>1, <2>1
    <2>3. root \in SUBSET GaugesOf(series_for(s, Root), s)
      <3> SUFFICES ASSUME NEW e \in ents, e.id = Root, NEW x \in e.gauges
                   PROVE  x \in GaugesOf(series_for(s, Root), s)
        BY DEF Root
      <3>1. PICK y : e = entity_view(y, s)
        BY DEF entities
      <3>2. e.id = y /\ e.gauges = GaugesOf(series_for(s, y), s)
        BY <3>1 DEF entity_view
      <3> QED
        BY <3>2
    <2> HIDE DEF root
    <2>4. /\ Values(root, "used") # {} /\ or_else(Values(root, "total"), 0) > 0
          /\ t.summary[2] = or_else(Values(root, "total"), 0) - or_else(Values(root, "used"), 0)
          /\ t.summary[3] = or_else(Values(root, "total"), 0)
      BY <2>2, <1>3, <1>6
    <2>5. SizedPair(s, <<Root, "used">>, <<Root, "total">>)
      BY DEF Sized
    <2> QED
      BY <2>3, <2>4, <2>5, FreeFacts
  <1> QED
    BY <1>2, <1>4, <1>5, <1>6

States == {"Idle", "Connecting", "Reconnecting", "Failed", "Online"}

\* A share that is nearly used up.
Red(gauges) == \E g \in gauges : g.met \in TileMetrics /\ g.val >= 90

\* A tile is red only for a share that is nearly used up.
LEMMA TileFacts ==
    ASSUME NEW s, StoreOK(s), NEW all, NEW ents,
           NEW t \in simple_tiles(host_gauges(s), all, ents), t.level = "problem"
    PROVE  Red(Range(host_gauges(s)))
  <1> DEFINE hg == host_gauges(s)
             of(gs, m) == {g.val : g \in {x \in gs : x.met = m}}
             root == UNION {e.gauges : e \in {x \in ents : x.id = <<"fs", <<>>>>}}
             sizes(m) == CASE m = "mem_usage" -> <<of(all, "mem_used"), of(all, "mem_total")>>
                           [] m = "disk_usage" -> <<of(root, "used"), of(root, "total")>>
                           [] OTHER -> <<{}, {}>>
             words(g) == plain_summary(g, sizes(g.met)[1], sizes(g.met)[2])
             lev(g) == IF \E p \in fraction_percent(g) : p >= 90 THEN "problem"
                       ELSE IF \E p \in fraction_percent(g) : p >= 80 THEN "busy" ELSE "ok"
             tile(g) == [met |-> g.met, name |-> plain_name[g.met], summary |-> words(g),
                         level |-> lev(g)]
  <1>1. PICK g \in Range(host_gauges(s)) :
          /\ g.met \in DOMAIN plain_name
          /\ t.level = lev(g)
    <2>1. simple_tiles(hg, all, ents) =
            {tile(g) : g \in {x \in Range(hg) : x.met \in DOMAIN plain_name}}
      BY DEF simple_tiles
    <2> HIDE DEF words, lev, hg
    <2>2. PICK g \in {x \in Range(hg) : x.met \in DOMAIN plain_name} : t = tile(g)
      BY <2>1 DEF hg
    <2>3. t.level = lev(g)
      BY <2>2
    <2> QED
      BY <2>2, <2>3 DEF hg
  <1>2. PICK p \in fraction_percent(g) : p >= 90
    BY <1>1
  <1>3. g.met \in TileMetrics
    BY <1>1 DEF plain_name, TileMetrics
  <1>4. PICK m \in g.max : p = Percent(g.val, m)
    BY DEF fraction_percent
  <1>5. g \in HostGauges(s)
    BY AllFacts
  <1>6. PICK d \in series_for(s, Host) : /\ d \in Good /\ g.met = d.met /\ g.max = display_max(d)
                                         /\ g.val \in Int
    <2>1. series_for(s, Host) \in SUBSET s.descriptors
      BY DEF series_for
    <2> QED
      BY <1>5, <2>1, GaugeType DEF HostGauges
  <1>7. d.unit = "percent" /\ d.max = {}
    <2>1. d.ent = Host
      BY DEF series_for
    <2> QED
      BY <2>1, <1>3, <1>6 DEF Good, Fits
  <1>8. m = 100
    BY <1>4, <1>6, <1>7 DEF display_max
  <1>9. PICK v \in Int : v = g.val
    BY <1>6
  <1>10. (v * 100) \div 100 = v
    OBVIOUS
  <1>11. g.val >= 90
    BY <1>2, <1>4, <1>8, <1>9, <1>10 DEF Percent
  <1> QED
    BY <1>3, <1>11 DEF Red

\* The verdict of a state: offline is for the two in which the host is not reached.
LEMMA AssessFacts ==
    ASSUME NEW state \in States, NEW error, NEW gauges, \A g \in gauges : g.val \in Int
    PROVE  LET l == assess(state, error, gauges).level IN
           /\ l = "ok" => state = "Online" /\ ~Red(gauges)
           /\ state \in {"Reconnecting", "Failed"} <=> l = "offline"
  <1> DEFINE l == assess(state, error, gauges).level
  <1>1. CASE state \in {"Idle", "Connecting"}
    <2>1. l = "checking"
      BY <1>1 DEF assess, Verdict
    <2> HIDE DEF l
    <2> QED
      BY <1>1, <2>1 DEF l
  <1>2. CASE state \in {"Reconnecting", "Failed"}
    <2>1. l = "offline"
      BY <1>2 DEF assess, Verdict
    <2> HIDE DEF l
    <2> QED
      BY <1>2, <2>1 DEF l
  <1>3. CASE state = "Online" /\ gauges = {}
    <2>1. l = "checking"
      BY <1>3 DEF assess, Verdict
    <2> HIDE DEF l
    <2> QED
      BY <1>3, <2>1 DEF l
  <1>4. CASE state = "Online" /\ gauges # {}
    <2>1. assess(state, error, gauges) = Judge(gauges)
      BY <1>4 DEF assess
    <2>2. l \in {"ok", "busy", "problem"} /\ (Red(gauges) => l # "ok")
      BY <2>1, JudgeFacts DEF Red
    <2> HIDE DEF l
    <2> QED
      BY <1>4, <2>2 DEF l
  <1> QED
    BY <1>1, <1>2, <1>3, <1>4 DEF States

FreeIsPart(t) == t.summary[1] = "free of" => t.summary[2] \in 0..t.summary[3]

\* A snapshot that can be shown: whole numbers, a red tile only beside the gauge that made it red,
\* nothing free beyond the whole, and a verdict that fits the state and the tiles.
SnapshotOK(s) ==
    /\ s = [state |-> s.state, gauges |-> s.gauges, details |-> s.details,
            entities |-> s.entities, top |-> s.top, health |-> s.health, tiles |-> s.tiles]
    /\ s.state \in States
    /\ \A g \in AllGauges(s) : g.val \in Int /\ g.history \in Seq(Int)
    /\ \A g \in AllGauges(s) : g.met \in ShareMetrics => g.val \in 0..100
    /\ \A t \in s.tiles : t.level = "problem" => Red(AllGauges(s))
    /\ \A t \in s.tiles : FreeIsPart(t)
    /\ s.health.level = "ok" => s.state = "Online" /\ \A t \in s.tiles : t.level # "problem"
    /\ s.state \in {"Reconnecting", "Failed"} <=> s.health.level = "offline"

\* What is shown before the first connection.
LEMMA PlaceholderOK == SnapshotOK(placeholder("Idle"))
  <1> DEFINE p == placeholder("Idle")
  <1>1. /\ p = [state |-> p.state, gauges |-> p.gauges, details |-> p.details,
                entities |-> p.entities, top |-> p.top, health |-> p.health, tiles |-> p.tiles]
        /\ p.state = "Idle" /\ p.gauges = <<>> /\ p.details = <<>> /\ p.tiles = {}
        /\ p.health = assess("Idle", "Io", {})
    BY DEF placeholder
  <1> HIDE DEF p
  <1>2. AllGauges(p) = {}
    BY <1>1 DEF AllGauges, Range
  <1>3. p.health.level # "ok" /\ p.health.level # "offline"
    <2>1. "Idle" \in States /\ \A g \in {} : g.val \in Int
      BY DEF States
    <2> QED
      BY <1>1, <2>1, AssessFacts
  <1>4. SnapshotOK(p)
    BY <1>1, <1>2, <1>3 DEF SnapshotOK, States
  <1> QED
    BY <1>4 DEF p

\* A state that is published keeps the gauges and takes the verdict along.
LEMMA SetStateOK ==
    ASSUME NEW s, SnapshotOK(s), NEW state \in States, NEW error
    PROVE  /\ SnapshotOK(set_state(s, state, error))
           /\ set_state(s, state, error).state = state
  <1> DEFINE w == set_state(s, state, error)
             v == assess(state, error, AllGauges(s))
  <1>1. w = [s EXCEPT !.state = state, !.health = v]
    BY DEF set_state
  <1> HIDE DEF w, v
  <1>2. PICK a, b, c, d, e, f, g :
          s = [state |-> a, gauges |-> b, details |-> c, entities |-> d, top |-> e, health |-> f,
               tiles |-> g]
    BY DEF SnapshotOK
  <1>3. w = [state |-> state, gauges |-> b, details |-> c, entities |-> d, top |-> e,
             health |-> v, tiles |-> g]
    BY <1>1, <1>2
  <1>4. /\ w = [state |-> w.state, gauges |-> w.gauges, details |-> w.details,
                entities |-> w.entities, top |-> w.top, health |-> w.health, tiles |-> w.tiles]
        /\ w.state = state /\ w.health = v
        /\ w.gauges = s.gauges /\ w.details = s.details /\ w.tiles = s.tiles
    BY <1>2, <1>3
  <1>5. AllGauges(w) = AllGauges(s)
    BY <1>4 DEF AllGauges
  <1>6. /\ \A x \in AllGauges(s) : x.val \in Int /\ x.history \in Seq(Int)
        /\ \A x \in AllGauges(s) : x.met \in ShareMetrics => x.val \in 0..100
        /\ \A t \in s.tiles : t.level = "problem" => Red(AllGauges(s))
        /\ \A t \in s.tiles : FreeIsPart(t)
    BY DEF SnapshotOK
  <1>7. /\ v.level = "ok" => state = "Online" /\ ~Red(AllGauges(s))
        /\ state \in {"Reconnecting", "Failed"} <=> v.level = "offline"
    BY <1>6, AssessFacts DEF v
  <1>8. SnapshotOK(w)
    BY <1>4, <1>5, <1>6, <1>7 DEF SnapshotOK
  <1> QED
    BY <1>4, <1>8 DEF w

\* A snapshot that is built from a store.
LEMMA BuildOK ==
    ASSUME NEW s, StoreOK(s), Sized(s), NEW c
    PROVE  /\ SnapshotOK(build_snapshot(s, c))
           /\ build_snapshot(s, c).gauges = host_gauges(s)
           /\ build_snapshot(s, c).details = host_details(s)
           /\ build_snapshot(s, c).state = "Online"
  <1> DEFINE w == build_snapshot(s, c)
             all == Range(host_gauges(s)) \union UNION Range(host_details(s))
             v == assess("Online", "Io", all)
  <1>1. /\ w = [state |-> w.state, gauges |-> w.gauges, details |-> w.details,
                entities |-> w.entities, top |-> w.top, health |-> w.health, tiles |-> w.tiles]
        /\ w.state = "Online" /\ w.health = v
        /\ w.gauges = host_gauges(s) /\ w.details = host_details(s)
        /\ w.tiles = simple_tiles(host_gauges(s), all, entities(s))
    BY DEF build_snapshot
  <1>2. all \subseteq HostGauges(s)
    BY AllFacts
  <1>3. ASSUME NEW x \in HostGauges(s)
        PROVE  /\ x.val \in Int /\ x.history \in Seq(Int)
               /\ x.met \in ShareMetrics => x.val \in 0..100
    <2>1. /\ series_for(s, Host) \in SUBSET s.descriptors
          /\ \A d \in series_for(s, Host) : d.ent = Host
      BY DEF series_for
    <2>2. x \in GaugesOf(series_for(s, Host), s)
      BY DEF HostGauges
    <2>3. PICK d \in series_for(s, Host) :
            /\ x.met = d.met /\ x.val \in Int /\ x.history \in Seq(Int)
            /\ d.ent = Host /\ d.met \in ShareMetrics => x.val \in 0..100
      BY <2>1, <2>2, GaugeType
    <2> QED
      BY <2>1, <2>3
  <1>4. \A t \in w.tiles : t.level = "problem" => Red(all)
    <2> SUFFICES ASSUME NEW t \in w.tiles, t.level = "problem" PROVE Red(all)
      OBVIOUS
    <2>1. Red(Range(host_gauges(s)))
      BY <1>1, TileFacts
    <2> QED
      BY <2>1 DEF Red
  <1>5. \A t \in w.tiles : FreeIsPart(t)
    BY <1>1, <1>2, SummaryFacts DEF FreeIsPart
  <1> HIDE DEF w
  <1>6. AllGauges(w) = all
    BY <1>1 DEF AllGauges
  <1> HIDE DEF all
  <1>7. /\ \A x \in all : x.val \in Int /\ x.history \in Seq(Int)
        /\ \A x \in all : x.met \in ShareMetrics => x.val \in 0..100
    BY <1>2, <1>3
  <1>8. "Online" \in States
    BY DEF States
  <1>9. v.level = "ok" => ~Red(all)
    BY <1>7, <1>8, AssessFacts
  <1>10. v.level # "offline"
    <2>1. "Online" \in {"Reconnecting", "Failed"} <=> v.level = "offline"
      <3> HIDE DEF v
      <3> QED
        BY <1>7, <1>8, AssessFacts DEF v
    <2> QED
      BY <2>1
  <1> HIDE DEF v
  <1>11. SnapshotOK(w)
    BY <1>1, <1>4, <1>5, <1>6, <1>7, <1>8, <1>9, <1>10 DEF SnapshotOK
  <1> QED
    BY <1>1, <1>11 DEF w

-----------------------------------------------------------------------------
(* The invariant. *)

\* While the card follows a session it shows what the store holds.
Follows == Shown => /\ snapshot.gauges = host_gauges(store)
                    /\ snapshot.details = host_details(store)

IInv ==
    /\ machine \in DOMAIN Machines
    /\ tick \in Nat
    /\ session \in BOOLEAN
    /\ CapsOK(caps)
    /\ Baselines
    /\ StoreOK(store)
    /\ Dated(store, tick)
    /\ BaseAdds(previous)
    /\ RatesAdd(store, tick)
    /\ SnapshotOK(snapshot)
    /\ Follows

\* What the probe finds is what a collector may count on.
LEMMA ProbeFacts ==
    /\ CapsOK(probe({}, {}, {}, {}))
    /\ \A r : CapsOK(probe(r, {ClockTicks}, {1}, {Cores}))
  <1>1. ASSUME NEW r, NEW a, NEW b, NEW c, or_else(a, 100) \in Nat \ {0},
               or_else(b, 4096) \in Nat, or_else(c, 0) \in Nat
        PROVE  CapsOK(probe(r, a, b, c))
    <2> DEFINE p == probe(r, a, b, c)
    <2>1. /\ p.clock_ticks = or_else(a, 100) /\ p.page_size = or_else(b, 4096)
          /\ p.cpu_count = or_else(c, 0)
      BY SMT DEF probe
    <2> HIDE DEF p
    <2>2. CapsOK(p)
      BY SMT, <2>1, <1>1 DEF CapsOK
    <2> QED
      BY <2>2 DEF p
  <1>2. or_else({}, 100) = 100 /\ or_else({}, 4096) = 4096 /\ or_else({}, 0) = 0
    BY SMT DEF or_else
  <1>3. /\ or_else({ClockTicks}, 100) = ClockTicks /\ or_else({1}, 4096) = 1
        /\ or_else({Cores}, 0) = Cores
    BY SMT DEF or_else
  <1>4. CapsOK(probe({}, {}, {}, {}))
    BY SMT, <1>1, <1>2
  <1>5. \A r : CapsOK(probe(r, {ClockTicks}, {1}, {Cores}))
    BY SMT, <1>1, <1>3, HostsAssumption
  <1> QED
    BY <1>4, <1>5

\* A store without series, and no baselines.
LEMMA EmptyOK ==
    StoreOK(Empty) /\ BaseAdds(<<>>) /\ \A t : Dated(Empty, t) /\ RatesAdd(Empty, t)
  <1>1. Empty.descriptors = {} /\ Empty.history = <<>> /\ DOMAIN Empty.history = {}
    BY DEF Empty
  <1>2. StoreOK(Empty)
    BY <1>1 DEF StoreOK
  <1>3. BaseAdds(<<>>)
    <2>1. "cpu_usage" \in ProcessorMetrics /\ \A x : x \notin DOMAIN <<>>
      BY DEF ProcessorMetrics
    <2> QED
      BY <2>1 DEF BaseAdds
  <1>4. \A t : Dated(Empty, t) /\ RatesAdd(Empty, t)
    BY <1>1 DEF Dated, RatesAdd, At, Points
  <1> QED
    BY <1>2, <1>3, <1>4

\* A run starts with nothing known and nothing shown.
LEMMA InitIInv == Init => IInv
  <1> SUFFICES ASSUME Init PROVE IInv
    OBVIOUS
  <1>1. CapsOK(caps)
    BY ProbeFacts DEF Init
  <1>2. Baselines
    BY DEF Init, Baselines
  <1>3. /\ StoreOK(store) /\ SnapshotOK(snapshot) /\ Dated(store, tick)
        /\ BaseAdds(previous) /\ RatesAdd(store, tick)
    BY EmptyOK, PlaceholderOK DEF Init
  <1>4. Follows
    BY DEF Init, Follows, Shown
  <1> QED
    BY <1>1, <1>2, <1>3, <1>4 DEF Init, IInv

\* A state that is published leaves a snapshot that can be shown.
LEMMA PublishOK ==
    ASSUME IInv, NEW state \in States, NEW error, publish(state, error)
    PROVE  SnapshotOK(snapshot')
  BY SetStateOK DEF IInv, publish

\* A refresh stores what was emitted and shows what is stored.
LEMMA RefreshIInv ==
    ASSUME IInv, NEW f \in Answers, refresh(f)
    PROVE  IInv'
  <1>1. PICK es : /\ es = Emitted(f)
                  /\ previous' = process_samples(es).previous
                  /\ store' = ingest(es, process_samples(es).points)
    BY DEF refresh
  <1>2. es \in Seq(Good) /\ Paired(es) /\ (es \in Seq(Others) \/ Processor(es))
    BY <1>1, EmittedGood DEF IInv
  <1>3. process_samples(es) \in Progress(Ids(es))
    BY <1>2, ProcessType DEF IInv
  <1>4. /\ previous' \in [Ids(es) -> Point]
        /\ process_samples(es).points \in Pointed(Ids(es))
    BY <1>1, <1>3 DEF Progress
  <1>5. Baselines'
    BY <1>4 DEF Baselines
  <1>6. StoreOK(store')
    BY <1>1, <1>2, <1>4, IngestType DEF IInv
  <1>7. /\ session /\ tick \in Nat /\ tick' = tick + 1
        /\ UNCHANGED <<readable, machine, caps, session, sessions>>
    BY DEF refresh, IInv
  <1>8. Dated(store', tick') /\ BaseAdds(previous') /\ RatesAdd(store', tick')
    BY <1>1, <1>2, <1>4, <1>7, IngestDated, IngestAdds DEF IInv
  <1>9. Sized(store')
    BY <1>1, <1>2, IngestSized DEF IInv
  <1>10. CASE tick = 0
    <2>1. publish("Online", "Io") /\ "Online" \in States
      BY <1>10 DEF refresh, States
    <2>2. SnapshotOK(snapshot')
      BY <2>1, PublishOK
    <2>3. Follows'
      BY <1>7, <1>10 DEF Follows, Shown
    <2> QED
      BY <1>5, <1>6, <1>7, <1>8, <2>2, <2>3 DEF IInv
  <1>11. CASE tick # 0
    <2>1. snapshot' = build_snapshot(store', caps)
      BY <1>11 DEF refresh
    <2>2. /\ SnapshotOK(snapshot')
          /\ snapshot'.gauges = host_gauges(store') /\ snapshot'.details = host_details(store')
      BY <2>1, <1>6, <1>9, BuildOK
    <2>3. Follows'
      BY <2>2 DEF Follows
    <2> QED
      BY <1>5, <1>6, <1>7, <1>8, <2>2, <2>3 DEF IInv
  <1> QED
    BY <1>10, <1>11

\* Every step keeps the invariant.
LEMMA NextIInv == IInv /\ [Next]_vars => IInv'
  <1> SUFFICES ASSUME IInv, [Next]_vars PROVE IInv'
    OBVIOUS
  <1>1. CASE begin
    <2>1. publish("Connecting", "Io") /\ "Connecting" \in States
      BY <1>1 DEF begin, States
    <2>2. SnapshotOK(snapshot')
      BY <2>1, PublishOK
    <2>3. /\ ~session
          /\ UNCHANGED <<readable, machine, caps, session, sessions, tick, answers, before,
                         previous, store>>
      BY <1>1 DEF begin
    <2>4. Follows' /\ Baselines'
      BY <2>3 DEF Follows, Shown, Baselines, IInv
    <2> QED
      BY <2>2, <2>3, <2>4 DEF IInv
  <1>2. CASE connect
    <2>1. /\ caps' = probe(readable, {ClockTicks}, {1}, {Cores})
          /\ session' = TRUE /\ tick' = 0 /\ previous' = <<>> /\ store' = Empty
          /\ UNCHANGED <<readable, machine, snapshot>>
      BY <1>2 DEF connect
    <2>2. /\ CapsOK(caps') /\ StoreOK(store') /\ Dated(store', tick')
          /\ BaseAdds(previous') /\ RatesAdd(store', tick')
      BY <2>1, ProbeFacts, EmptyOK
    <2>3. Follows' /\ Baselines'
      BY <2>1 DEF Follows, Shown, Baselines
    <2> QED
      BY <2>1, <2>2, <2>3 DEF IInv
  <1>3. ASSUME NEW f \in Answers, refresh(f) PROVE IInv'
    BY <1>3, RefreshIInv
  <1>4. ASSUME NEW error \in Errors, connect_fails(error) PROVE IInv'
    <2>1. publish("Failed", error) /\ "Failed" \in States
      BY <1>4 DEF connect_fails, States
    <2>2. SnapshotOK(snapshot')
      BY <2>1, PublishOK
    <2>3. /\ ~session
          /\ UNCHANGED <<readable, machine, caps, session, sessions, tick, answers, before,
                         previous, store>>
      BY <1>4 DEF connect_fails
    <2>4. Follows' /\ Baselines'
      BY <2>3 DEF Follows, Shown, Baselines, IInv
    <2> QED
      BY <2>2, <2>3, <2>4 DEF IInv
  <1>5. ASSUME NEW error \in Errors, refresh_fails(error) PROVE IInv'
    <2>1. \E state \in {"Reconnecting", "Failed"} : publish(state, error)
      BY <1>5 DEF refresh_fails
    <2>2. SnapshotOK(snapshot')
      BY <2>1, PublishOK DEF States
    <2>3. /\ session' = FALSE /\ previous' = <<>>
          /\ UNCHANGED <<readable, machine, caps, sessions, tick, answers, before, store>>
      BY <1>5 DEF refresh_fails
    <2>4. Follows' /\ Baselines' /\ BaseAdds(previous')
      BY <2>3, EmptyOK DEF Follows, Shown, Baselines
    <2> QED
      BY <2>2, <2>3, <2>4 DEF IInv
  <1>6. CASE UNCHANGED vars
    <2>1. Follows' /\ Baselines'
      BY <1>6 DEF vars, IInv, Follows, Shown, Baselines
    <2> QED
      BY <2>1, <1>6 DEF vars, IInv
  <1> QED
    BY <1>1, <1>2, <1>3, <1>4, <1>5, <1>6 DEF Next

-----------------------------------------------------------------------------
(* Theorems. *)

\* Whatever a host answers that its collectors can read, what is kept and what is shown of it has
\* its types, a store has one descriptor per series (run_poll's descriptors are keyed by series),
\* and the card of a session follows its store.
THEOREM ReadingsInvariant == Spec => []IInv
  BY InitIInv, NextIInv, PTL DEF Spec

\* A card's verdict fits its state and its tiles: for every host, every number of refreshes and
\* every failure in between, "all is well" is said of a host online without a red tile only.
THEOREM VerdictAlwaysFits == Spec => []VerdictFits
  <1>1. IInv => VerdictFits
    BY DEF IInv, SnapshotOK, VerdictFits
  <1> QED
    BY <1>1, ReadingsInvariant, PTL

\* Every share on a card is between 0 and 100 and what a tile says is free is a part of the whole,
\* on hosts too that report more memory available than they have; and when the processor's four
\* counters all have a rate, its use is what programs, the kernel and the hypervisor took, but for
\* what rounding each of them down loses.
THEOREM SharesAlwaysAddUp == Spec => []SharesAddUp
  <1>1. IInv => SharesAddUp
    <2> SUFFICES ASSUME IInv PROVE SharesAddUp
      OBVIOUS
    <2>1. /\ \A g \in AllGauges(snapshot) : g.met \in ShareMetrics => g.val \in 0..100
          /\ \A t \in snapshot.tiles : FreeIsPart(t)
          /\ RatesAdd(store, tick)
      BY DEF IInv, SnapshotOK
    <2>2. \A met : At(store, met, tick) = PointNow(met)
      BY DEF At, PointNow
    <2>3. \A whole \in PointNow("cpu_usage"), u \in PointNow("cpu_user"),
             s \in PointNow("cpu_system"), t \in PointNow("cpu_steal") :
            whole.val - (u.val + s.val + t.val) \in 0..2
      BY <2>1, <2>2 DEF RatesAdd
    <2>4. \A t \in snapshot.tiles :
            t.summary[1] = "free of" => t.summary[2] \in 0..t.summary[3]
      BY <2>1 DEF FreeIsPart
    <2>5. \A g \in AllGauges(snapshot) :
            g.met \in {"mem_usage", "swap_usage", "disk_usage"} => g.val \in 0..100
      BY <2>1 DEF ShareMetrics
    <2> QED
      BY <2>3, <2>4, <2>5 DEF SharesAddUp
  <1> QED
    BY <1>1, ReadingsInvariant, PTL

\* Every chart on every card is honest: its points are in the box, in their order, and no movement
\* is drawn larger than twenty times its share of the largest value.
THEOREM ChartsAreAlwaysHonest == Spec => []ChartsAreHonest
  <1>1. IInv => ChartsAreHonest
    <2> SUFFICES ASSUME IInv PROVE ChartsAreHonest
      OBVIOUS
    <2>1. ASSUME NEW g \in AllGauges(snapshot) PROVE HonestChart(g.history)
      BY ChartIsHonest DEF IInv, SnapshotOK
    <2> QED
      BY <2>1 DEF ChartsAreHonest, HonestChart
  <1> QED
    BY <1>1, ReadingsInvariant, PTL

\* Every reading of the host itself is on the grid or in one section of the details, once.
LEMMA ShownOnce ==
    ASSUME IInv, Shown
    PROVE  NothingDiscarded
  <1> DEFINE s == store
             h == snapshot.gauges
             v == snapshot.details
             known == {d.met : d \in {x \in series_for(s, Host) : HasPoint(s, x)}}
             places == [i \in DOMAIN h |-> h[i].met]
             P(m) == {i \in DOMAIN places : places[i] = m}
             Q(m) == {t \in DOMAIN v : \E g \in v[t] : g.met = m}
  <1>1. StoreOK(s) /\ h = host_gauges(s) /\ v = host_details(s)
    BY DEF IInv, Follows
  <1>2. /\ h \in Seq(HostGauges(s))
        /\ \A i \in 1..Len(h) : h[i].met \in HeadlineMetrics
        /\ \A i, j \in 1..Len(h) : h[i].met = h[j].met => i = j
        /\ \A m \in HeadlineMetrics : Has(s, m) => \E i \in 1..Len(h) : h[i].met = m
    BY <1>1, GridFacts
  <1>3. /\ \A t \in DOMAIN v : \A g \in v[t] :
             \E d \in Rest(s) : g.met = d.met /\ t \in group_title(d.src)
        /\ \A d \in Rest(s) : \A t \in group_title(d.src) :
             t \in DOMAIN v /\ gauge_from(d, s) \in v[t] /\ gauge_from(d, s).met = d.met
    BY <1>1, DetailFacts
  <1>4. DOMAIN h = 1..Len(h) /\ DOMAIN places = 1..Len(h)
        /\ \A i \in 1..Len(h) : places[i] = h[i].met
    BY <1>2
  <1>5. Range(HEADLINE) = HeadlineMetrics
    BY HeadlineFacts
  <1>6. {g.met : g \in AllGauges(snapshot)} \subseteq known
    <2>1. AllGauges(snapshot) \subseteq HostGauges(s)
      BY <1>1, AllFacts DEF AllGauges
    <2>2. ASSUME NEW g \in HostGauges(s) PROVE g.met \in known
      <3>1. series_for(s, Host) \in SUBSET s.descriptors
        BY DEF series_for
      <3>2. \E d \in series_for(s, Host) : HasPoint(s, d) /\ g.met = d.met
        BY <3>1, <1>1, GaugeType DEF HostGauges
      <3> QED
        BY <3>2
    <2> QED
      BY <2>1, <2>2
  <1>7. \A x : Cardinality({x}) = 1
    BY FS_Singleton
  <1>8. Cardinality({}) = 0
    BY FS_EmptySet
  <1>9. NothingDiscarded <=> /\ \A m \in known : Cardinality(P(m)) + Cardinality(Q(m)) = 1
                             /\ {g.met : g \in AllGauges(snapshot)} \subseteq known
    BY DEF NothingDiscarded
  <1>10. ASSUME NEW m \in known PROVE Cardinality(P(m)) + Cardinality(Q(m)) = 1
    <2>1. PICK d \in series_for(s, Host) : d.met = m /\ HasPoint(s, d)
      OBVIOUS
    <2>2. d \in s.descriptors /\ d.ent = Host /\ d \in Good
      BY <1>1 DEF series_for, StoreOK
    <2> HIDE DEF s, h, v, known, places
    <2>3. CASE m \in HeadlineMetrics
      <3>1. PICK i \in 1..Len(h) : h[i].met = m
        BY <2>1, <2>3, <1>2 DEF Has
      <3>2. P(m) = {i}
        BY <3>1, <1>2, <1>4
      <3>3. Q(m) = {}
        <4> SUFFICES ASSUME NEW t \in DOMAIN v, NEW g \in v[t], g.met = m PROVE FALSE
          OBVIOUS
        <4>1. PICK e \in Rest(s) : g.met = e.met
          BY <1>3
        <4>2. e.met \notin HeadlineMetrics
          BY <1>5 DEF Rest
        <4> QED
          BY <4>1, <4>2, <2>3
      <3> HIDE DEF P, Q
      <3>4. Cardinality(P(m)) = 1 /\ Cardinality(Q(m)) = 0
        BY <3>2, <3>3, <1>7, <1>8
      <3> QED
        BY <3>4
    <2>4. CASE m \notin HeadlineMetrics
      <3>1. P(m) = {}
        BY <1>2, <1>4, <2>4
      <3>2. PICK t : group_title(d.src) = {t}
        <4>1. d.src \in SourceNames /\ d.src \notin {"sensors", "filesystem"}
          BY <2>1, <2>2, <2>4 DEF Good, Emission, Fits
        <4> QED
          BY <4>1, SectionFacts
      <3>3. d \in Rest(s)
        BY <3>2, <2>1, <2>4, <1>5 DEF Rest
      <3>4. t \in Q(m)
        BY <3>2, <3>3, <1>3, <2>1
      <3>5. ASSUME NEW u \in Q(m) PROVE u = t
        <4>1. PICK g \in v[u] : g.met = m
          OBVIOUS
        <4>2. PICK e \in Rest(s) : g.met = e.met /\ u \in group_title(e.src)
          BY <1>3
        <4>3. e \in s.descriptors /\ e.ent = Host
          BY DEF Rest, series_for
        <4>4. Id(e) = Id(d)
          BY <4>1, <4>2, <4>3, <2>1, <2>2 DEF Id
        <4>5. e = d
          BY <4>3, <4>4, <2>2, <1>1 DEF StoreOK
        <4> QED
          BY <4>2, <4>5, <3>2
      <3>6. Q(m) = {t}
        BY <3>4, <3>5
      <3> HIDE DEF P, Q
      <3>7. Cardinality(P(m)) = 0 /\ Cardinality(Q(m)) = 1
        BY <3>1, <3>6, <1>7, <1>8
      <3> QED
        BY <3>7
    <2> QED
      BY <2>3, <2>4
  <1> QED
    BY <1>6, <1>9, <1>10

\* Nothing is discarded and nothing is shown twice: with every set of sources a host may have, each
\* of its own series that has a reading has one place on the card, and the card has no others.
THEOREM NothingIsDiscarded == Spec => []NothingDiscarded
  <1>1. IInv => NothingDiscarded
    <2>1. CASE Shown
      BY <2>1, ShownOnce
    <2>2. CASE ~Shown
      BY <2>2 DEF NothingDiscarded
    <2> QED
      BY <2>1, <2>2
  <1> QED
    BY <1>1, ReadingsInvariant, PTL
=============================================================================
