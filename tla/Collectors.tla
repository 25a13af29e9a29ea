----------------------------- MODULE Collectors -----------------------------
(***************************************************************************)
(* The collectors: what each asks of a host and what it makes of the       *)
(* answer.  They keep no state, so each is an operator from the answer of  *)
(* one refresh to the series it emits, in the order it emits them.         *)
(*                                                                         *)
(* An answer is modelled by the fields the parser reads; a line it skips   *)
(* as malformed is not in it.  A field that may be missing is a set of at  *)
(* most one value.  A device name is a tuple of its parts, so that a name  *)
(* may begin with another: sda1 is <<"sda", "1">>.                         *)
(***************************************************************************)
EXTENDS Integers, Sequences, FiniteSets, SequencesExt

CONSTANTS MAX_PROCESSES   \* processes a refresh turns into entities (256)

ASSUME MaxProcessesAssumption == MAX_PROCESSES \in Nat \ {0}

\* A set of at most one number, as the number or a default; the larger of two.
or_else(opt, default) == IF opt = {} THEN default ELSE CHOOSE x \in opt : TRUE
Larger(a, b) == IF a >= b THEN a ELSE b
Smaller(a, b) == IF a <= b THEN a ELSE b
When(c, s) == IF c THEN s ELSE <<>>

\* What a loop over s adds up, and what it emits.
Sum(ns) == LET upTo[n \in 0..Len(ns)] == IF n = 0 THEN 0 ELSE upTo[n - 1] + ns[n]
           IN  upTo[Len(ns)]
ForEach(s, of(_)) == FlattenSeq([i \in 1..Len(s) |-> of(s[i])])

-----------------------------------------------------------------------------
(* What a host can tell: the capability probe and what collectors need. *)

\* The paths whose readability the probe asks for.
PROBED_PATHS ==
    {"/proc/stat", "/proc/meminfo", "/proc/loadavg", "/proc/uptime", "/proc/net/dev",
     "/proc/net/snmp", "/proc/net/sockstat", "/proc/diskstats", "/proc/mounts",
     "/proc/pressure/cpu", "/sys/class/hwmon", "/sys/class/thermal", "/sys/block",
     "/sys/fs/cgroup/cgroup.controllers", "/sys/fs/cgroup/cpu"}

\* The requirement each source declares.
requires ==
    [cpu |-> {"/proc/stat"}, memory |-> {"/proc/meminfo"}, load |-> {"/proc/loadavg"},
     diskio |-> {"/proc/diskstats"}, network |-> {"/proc/net/dev"}, filesystem |-> {},
     process |-> {"/proc/stat"}, pressure |-> {"/proc/pressure/cpu"},
     sensors |-> {"/sys/class/hwmon"}, cgroup |-> {"/sys/fs/cgroup/cgroup.controllers"},
     tcp |-> {"/proc/net/sockstat"}]

Sources == DOMAIN requires

\* The collectors in the order in which they run.
builtin_sources ==
    <<"cpu", "memory", "load", "filesystem", "diskio", "network", "tcp", "pressure", "sensors",
      "cgroup", "process">>

\* probe::parse: what the host answered, with its defaults.
probe(readable, ticks, pages, cores) ==
    [paths |-> readable \intersect PROBED_PATHS,
     clock_ticks |-> or_else(ticks, 100), page_size |-> or_else(pages, 4096),
     cpu_count |-> or_else(cores, 0)]

satisfied_by(s, caps) == requires[s] \subseteq caps.paths

-----------------------------------------------------------------------------
(* Series. *)

Host == <<"host">>
child(kind, name) == <<kind, name>>

gauge(src, ent, met, unit, val) ==
    [src |-> src, ent |-> ent, met |-> met, unit |-> unit, kind |-> "gauge", val |-> val,
     max |-> {}, num |-> 1, den |-> 1]
with_max(g, max) == [g EXCEPT !.max = {max}]

\* A counter is differentiated later; num / den is the scale of its rate.
counter(src, ent, met, unit, val) == [gauge(src, ent, met, unit, val) EXCEPT !.kind = "counter"]
with_scale(c, num, den) == [c EXCEPT !.num = num, !.den = den]

\* The unit of what is shown: a counter that is not scaled becomes a rate.
per_second(unit) == IF unit \in {"bytes", "packets", "count", "operations"}
                      THEN unit \o "/s" ELSE unit
effective_unit(d) == IF d.kind = "counter" /\ d.num = d.den THEN per_second(d.unit) ELSE d.unit

\* The bound a gauge is drawn against: the series' own, or a percentage's.
display_max(d) == IF d.max # {} THEN d.max ELSE IF d.unit = "percent" THEN {100} ELSE {}

-----------------------------------------------------------------------------
(* /proc/stat *)

\* Fields a kernel does not report count as zero.
Field(row, i) == IF i <= Len(row) THEN row[i] ELSE 0
BusyWithIowait(row) ==
    Field(row, 1) + Field(row, 2) + Field(row, 3) + Field(row, 5) + Field(row, 6) + Field(row, 7)
    + Field(row, 8)
busy(row) == Field(row, 1) + Field(row, 2) + Field(row, 3) + Field(row, 6) + Field(row, 7)
             + Field(row, 8)

cpu(f, caps) ==
    LET cores == Larger(Len(f.cores), 1)
        host(met, ticks) == with_scale(counter("cpu", Host, met, "percent", ticks),
                                       100, caps.clock_ticks * cores)
        opt(met, n) == When(n # {}, <<gauge("cpu", Host, met, "count", or_else(n, 0))>>)
    IN  <<host("cpu_usage", busy(f.cpu)),
          host("cpu_user", Field(f.cpu, 1) + Field(f.cpu, 2)),
          host("cpu_system", Field(f.cpu, 3) + Field(f.cpu, 6) + Field(f.cpu, 7)),
          host("cpu_iowait", Field(f.cpu, 5)),
          host("cpu_steal", Field(f.cpu, 8))>>
        \o opt("procs_running", f.running) \o opt("procs_blocked", f.blocked)
        \o When(f.ctxt # {}, <<counter("cpu", Host, "ctx_switches", "count", or_else(f.ctxt, 0))>>)
        \o [i \in 1..Len(f.cores) |->
              with_scale(counter("cpu", child("cpu", i), "usage", "percent", busy(f.cores[i])),
                         100, caps.clock_ticks)]

-----------------------------------------------------------------------------
(* /proc/meminfo: a function from the fields it has to bytes. *)

Capped(available, total) == Smaller(available, total)

memory(f, caps) ==
    LET of(k) == IF k \in DOMAIN f THEN f[k] ELSE 0
        host(met, unit, v) == gauge("memory", Host, met, unit, v)
        total == of("MemTotal")
        available == Capped(IF "MemAvailable" \in DOMAIN f THEN f["MemAvailable"]
                              ELSE of("MemFree") + of("Buffers") + of("Cached"), total)
        used == total - available
        plain(k, met) == When(k \in DOMAIN f, <<host(met, "bytes", of(k))>>)
        swap == of("SwapTotal")
        swapUsed == swap - Smaller(of("SwapFree"), swap)
    IN  When(total > 0,
          <<host("mem_usage", "percent", (used * 100) \div total),
            with_max(host("mem_used", "bytes", used), total),
            host("mem_total", "bytes", total), host("mem_available", "bytes", available)>>
          \o plain("MemFree", "mem_free") \o plain("Cached", "mem_cached")
          \o plain("Buffers", "mem_buffers")
          \o When(swap > 0,
               <<host("swap_usage", "percent", (swapUsed * 100) \div swap),
                 with_max(host("swap_used", "bytes", swapUsed), swap),
                 host("swap_total", "bytes", swap)>>))

-----------------------------------------------------------------------------
(* /proc/loadavg and /proc/uptime *)

load(f, caps) ==
    LET host(met, unit, v) == gauge("load", Host, met, unit, v)
        avg(met, i) == with_max(host(met, "count", f.avg[i]), Larger(caps.cpu_count, 1))
    IN  When(f.avg # <<>>,
             <<avg("load1", 1), avg("load5", 2), avg("load15", 3)>>
             \o When(f.procs > 0, <<host("procs_total", "count", f.procs)>>))
        \o When(f.uptime # {}, <<host("uptime", "seconds", or_else(f.uptime, 0))>>)

-----------------------------------------------------------------------------
(* /proc/diskstats, and the devices built on others. *)

Digits == {"0", "1", "2", "10"}
Virtual == {"loop0", "ram0", "fd0", "sr0", "zram0"}

\* Devices of which name is a partition: name is theirs and digits, perhaps after a "p".
parent_device(name, all) ==
    {c \in all :
        /\ c # name /\ IsPrefix(c, name)
        /\ LET suffix == SubSeq(name, Len(c) + 1, Len(name))
               digits == IF suffix[1] = "p" THEN Tail(suffix) ELSE suffix
           IN digits # <<>> /\ \A i \in 1..Len(digits) : digits[i] \in Digits}

EveryDevice(d, f) == TRUE

\* Only whole devices that are not built on others count towards the host's total.
Counted(d, f) ==
    /\ parent_device(d.name, {x.name : x \in Range(f.disks)}) = {}
    /\ d.name \notin f.stacked /\ d.name[1] # "zd0"

diskio(f, caps) ==
    LET shown(d) == d.name[1] \notin Virtual /\ ~(d.reads = 0 /\ d.writes = 0)
        total(bytes(_)) == Sum([i \in DOMAIN f.disks |->
            IF shown(f.disks[i]) /\ Counted(f.disks[i], f) THEN bytes(f.disks[i]) ELSE 0])
        of(d) == LET ent == child("disk", d.name) IN When(shown(d),
            <<counter("diskio", ent, "read_bytes", "bytes", d.reads),
              counter("diskio", ent, "write_bytes", "bytes", d.writes),
              counter("diskio", ent, "reads", "operations", d.reads),
              counter("diskio", ent, "writes", "operations", d.writes),
              gauge("diskio", ent, "in_flight", "count", 0)>>)
    IN  ForEach(f.disks, of)
        \o <<counter("diskio", Host, "disk_read", "bytes", total(LAMBDA d : d.reads)),
             counter("diskio", Host, "disk_write", "bytes", total(LAMBDA d : d.writes))>>

-----------------------------------------------------------------------------
(* /proc/net/dev, and the interfaces that are hardware. *)

counts_toward_total(i, f) == i.name # "lo" /\ (f.physical = {} \/ i.name \in f.physical)

network(f, caps) ==
    LET shown(i) == i.name = "lo" \/ ~(i.rx = 0 /\ i.tx = 0)
        total(bytes(_)) == Sum([k \in DOMAIN f.ifaces |->
            IF shown(f.ifaces[k]) /\ counts_toward_total(f.ifaces[k], f)
            THEN bytes(f.ifaces[k]) ELSE 0])
        of(i) == LET ent == child("net", i.name) IN When(shown(i),
            <<counter("network", ent, "rx_bytes", "bytes", i.rx),
              counter("network", ent, "tx_bytes", "bytes", i.tx)>>
            \o [k \in 1..6 |-> counter("network", ent,
                  <<"rx_packets", "tx_packets", "rx_errors", "tx_errors", "rx_dropped",
                    "tx_dropped">>[k], IF k <= 2 THEN "packets" ELSE "count", 0)])
    IN  ForEach(f.ifaces, of)
        \o <<counter("network", Host, "net_rx", "bytes", total(LAMBDA i : i.rx)),
             counter("network", Host, "net_tx", "bytes", total(LAMBDA i : i.tx))>>

-----------------------------------------------------------------------------
(* df -P -k *)

\* A mount point is the tuple of its path's parts: the root is <<>>.
is_pseudo(fs) ==
    \/ fs.device \in {"/dev/fuse", "fusectl", "devtmpfs", "udev", "none", "cgroup", "cgroup2"}
    \/ fs.mount # <<>> /\ fs.mount[1] \in {"proc", "sys", "dev", "run"}
usage_percent(fs) == IF fs.total = 0 THEN 0 ELSE (fs.used * 100) \div fs.total

filesystem(f, caps) ==
    LET shown(fs) == ~is_pseudo(fs) /\ fs.total > 0
        roots == {i \in 1..Len(f) : shown(f[i]) /\ f[i].mount = <<>>}
        root_usage == usage_percent(f[CHOOSE i \in roots : \A j \in roots : i >= j])
        of(fs) == LET ent == child("fs", fs.mount) IN When(shown(fs),
            <<gauge("filesystem", ent, "usage", "percent", usage_percent(fs)),
              with_max(gauge("filesystem", ent, "used", "bytes", fs.used), fs.total),
              gauge("filesystem", ent, "total", "bytes", fs.total),
              gauge("filesystem", ent, "available", "bytes", fs.available)>>)
    IN  ForEach(f, of)
        \o When(roots # {}, <<gauge("filesystem", Host, "disk_usage", "percent", root_usage)>>)

-----------------------------------------------------------------------------
(* /proc/<pid>/stat *)

\* The processes with most resident memory, kernel threads left out; a tie keeps its order.
Largest(f) ==
    LET user == {i \in 1..Len(f) : f[i].rss > 0}
        before(i, j) == f[i].rss > f[j].rss \/ (f[i].rss = f[j].rss /\ i < j)
        place(j) == Cardinality({i \in user : before(i, j)}) + 1
    IN  [n \in 1..Smaller(MAX_PROCESSES, Cardinality(user)) |->
            f[CHOOSE j \in user : place(j) = n]]

process(f, caps) ==
    LET of(p) == LET ent == child("proc", p.pid) IN
            <<with_scale(counter("process", ent, "cpu", "percent", p.ticks),
                         100, caps.clock_ticks),
              gauge("process", ent, "rss", "bytes", p.rss * Larger(caps.page_size, 1))>>
    IN  ForEach(Largest(f), of)

-----------------------------------------------------------------------------
(* /proc/pressure: a function from the resources that answered. *)

\* The names of a resource's three series: now, over a minute, and everything stalled at once.
StallMetrics ==
    [cpu |-> <<"pressure_cpu", "pressure_cpu_60s", "pressure_cpu_full">>,
     memory |-> <<"pressure_memory", "pressure_memory_60s", "pressure_memory_full">>,
     io |-> <<"pressure_io", "pressure_io_60s", "pressure_io_full">>]

pressure(f, caps) ==
    LET host(met, v) == gauge("pressure", Host, met, "percent", v)
        of(r) == When(r \in DOMAIN f,
            <<host(StallMetrics[r][1], f[r].avg10), host(StallMetrics[r][2], f[r].avg60)>>
            \o When(f[r].full # {}, <<host(StallMetrics[r][3], or_else(f[r].full, 0))>>))
    IN  ForEach(<<"cpu", "memory", "io">>, of)

-----------------------------------------------------------------------------
(* /sys/class/hwmon and /sys/class/thermal *)

CPU_CHIPS == {"coretemp", "k10temp", "k8temp", "zenpower", "cpu_thermal", "x86_pkg_temp"}

\* Lines of a chip without a name are dropped; zero is no reading; only a temperature has a limit.
is_reading(r) == r.chip # "" /\ r.value > 0
critical(r) == IF r.metric = "temp" THEN r.crit ELSE {}
is_cpu_temperature(r) == r.metric = "temp" /\ r.chip \in CPU_CHIPS
SensorName(r) == IF r.label = "" THEN <<r.chip, r.key>> ELSE <<r.label>>
SensorUnit == [temp |-> "celsius", fan |-> "rpm", power |-> "watts"]

sensors(f, caps) ==
    LET temps == {r.value : r \in {x \in Range(f) : is_reading(x) /\ is_cpu_temperature(x)}}
        of(r) ==
            LET g == gauge("sensors", child("sensor", SensorName(r)), r.metric,
                           SensorUnit[r.metric], r.value)
            IN When(is_reading(r),
                    <<IF critical(r) = {} THEN g ELSE with_max(g, or_else(critical(r), 0))>>)
    IN  When(temps # {}, <<gauge("sensors", Host, "cpu_temp", "celsius",
                                 CHOOSE t \in temps : \A u \in temps : t >= u)>>)
        \o ForEach(f, of)

-----------------------------------------------------------------------------
(* /sys/fs/cgroup *)

\* What a path names: a guest of QEMU, or a container under the name its runtime shows.  The
\* last part of a path is a tuple of pieces, an identifier's first twelve characters one of them.
identify(g) ==
    LET scope(pre) == g.leaf[1] = pre /\ g.leaf[Len(g.leaf)] = ".scope"
        unscoped == IF g.leaf[Len(g.leaf)] = ".scope" THEN SubSeq(g.leaf, 1, Len(g.leaf) - 1)
                                                      ELSE g.leaf
    IN  CASE scope("docker-") \/ scope("libpod-") -> child("container", <<g.leaf[2]>>)
          [] ~(scope("docker-") \/ scope("libpod-")) /\ g.parent = "docker" ->
               child("container", <<g.leaf[1]>>)
          [] ~(scope("docker-") \/ scope("libpod-")) /\ g.parent = "qemu.slice" ->
               child("vm", unscoped)
          [] OTHER -> child("container", g.leaf)
working_set(g) == Larger(g.memory - g.inactive, 0)
is_running(g) == g.pids > 0 \/ g.memory > 0

cgroup(f, caps) ==
    LET of(g) ==
            LET ent == identify(g)
                mem == gauge("cgroup", ent, "memory", "bytes", working_set(g))
            IN  When(is_running(g),
                <<with_scale(counter("cgroup", ent, "cpu", "percent", g.usage), 100, 1000000),
                  IF g.limit = {} THEN mem ELSE with_max(mem, or_else(g.limit, 0))>>
                \o When(or_else(g.limit, 0) > 0,
                     <<gauge("cgroup", ent, "memory_usage", "percent",
                             (working_set(g) * 100) \div or_else(g.limit, 1))>>)
                \o <<gauge("cgroup", ent, "pids", "count", g.pids)>>)
    IN  ForEach(f, of)

-----------------------------------------------------------------------------
(* /proc/net/sockstat and /proc/net/snmp: functions from the fields they have. *)

SockMetric == [used |-> "sockets", tcp |-> "tcp_inuse", tw |-> "tcp_timewait",
               orphan |-> "tcp_orphan", udp |-> "udp_inuse"]
SnmpMetric == [InSegs |-> "tcp_in_segs", OutSegs |-> "tcp_out_segs", RetransSegs |-> "tcp_retrans",
               ActiveOpens |-> "tcp_active_opens", PassiveOpens |-> "tcp_passive_opens"]

\* A counter of /proc/net/snmp that is negative is malformed, and left out.
tcp(f, caps) ==
    LET sock(k) == When(k \in DOMAIN f.sock,
                        <<gauge("tcp", Host, SockMetric[k], "count", f.sock[k])>>)
        snmp(k) == When(k \in DOMAIN f.snmp /\ f.snmp[k] >= 0,
                        <<counter("tcp", Host, SnmpMetric[k], "count", f.snmp[k])>>)
    IN  ForEach(<<"used", "tcp", "tw", "orphan", "udp">>, sock)
        \o When("CurrEstab" \in DOMAIN f.snmp,
                <<gauge("tcp", Host, "tcp_established", "count", f.snmp["CurrEstab"])>>)
        \o ForEach(<<"InSegs", "OutSegs", "RetransSegs", "ActiveOpens", "PassiveOpens">>, snmp)

-----------------------------------------------------------------------------
(* What a collector may be answered. *)

\* A field that may be missing, and a file of named numbers of which some may be.  What df calls
\* used is what is left of the total without the free blocks, so never more than the total.
Option(S) == {x \in SUBSET S : \A a, b \in x : a = b}
Partial(f, keys, S) == DOMAIN f \subseteq keys /\ f \in [DOMAIN f -> S]

is_answer(s, f) ==
    CASE s = "cpu" ->
           f \in [cpu : Seq(Nat), cores : Seq(Seq(Nat)),
                  running : Option(Nat), blocked : Option(Nat), ctxt : Option(Nat)]
      [] s = "memory" ->
           Partial(f, {"MemTotal", "MemAvailable", "MemFree", "Buffers", "Cached", "SwapTotal",
                       "SwapFree"}, Nat)
      [] s = "load" ->
           f \in [avg : {<<>>} \union (Nat \X Nat \X Nat), procs : Nat, uptime : Option(Nat)]
      [] s = "diskio" ->
           f \in [disks : Seq([name : Seq(STRING), hw : BOOLEAN, reads : Nat, writes : Nat]),
                  mapped : SUBSET Seq(STRING), stacked : SUBSET Seq(STRING)]
      [] s = "network" ->
           f \in [ifaces : Seq([name : STRING, hw : BOOLEAN, rx : Nat, tx : Nat]),
                  physical : SUBSET STRING]
      [] s = "filesystem" ->
           f \in Seq({fs \in [device : STRING, mount : Seq(STRING), total : Nat, used : Nat,
                              available : Nat] : fs.used <= fs.total})
      [] s = "process" -> f \in Seq([pid : Nat, ticks : Nat, rss : Nat])
      [] s = "pressure" ->
           Partial(f, DOMAIN StallMetrics, [avg10 : Nat, avg60 : Nat, full : Option(Nat)])
      [] s = "sensors" ->
           f \in Seq([chip : STRING, key : STRING, metric : DOMAIN SensorUnit, label : STRING,
                      value : Int, crit : Option(Int)])
      [] s = "cgroup" ->
           f \in Seq([parent : STRING, leaf : Seq(STRING) \ {<<>>}, usage : Nat, memory : Nat,
                      inactive : Nat, limit : Option(Nat), pids : Nat])
      [] s = "tcp" ->
           /\ Partial(f.sock, DOMAIN SockMetric, Nat)
           /\ Partial(f.snmp, DOMAIN SnmpMetric \union {"CurrEstab"}, Int)

-----------------------------------------------------------------------------
\* Source::parse of source s on its answer.
parse(s, f, caps) ==
    CASE s = "cpu" -> cpu(f, caps)            [] s = "memory" -> memory(f, caps)
      [] s = "load" -> load(f, caps)          [] s = "diskio" -> diskio(f, caps)
      [] s = "network" -> network(f, caps)    [] s = "filesystem" -> filesystem(f, caps)
      [] s = "process" -> process(f, caps)    [] s = "pressure" -> pressure(f, caps)
      [] s = "sensors" -> sensors(f, caps)    [] s = "cgroup" -> cgroup(f, caps)
      [] s = "tcp" -> tcp(f, caps)
=============================================================================
