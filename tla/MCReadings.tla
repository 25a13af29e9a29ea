----------------------------- MODULE MCReadings -----------------------------
(* Readings on small answers: each collector has a few, chosen for the     *)
(* cases its parser tells apart.                                           *)
EXTENDS Readings

AllPaths == PROBED_PATHS \union {"/proc/net/sockstat"}
MCHosts == {AllPaths, AllPaths \ {"/proc/pressure/cpu", "/sys/class/hwmon"}}

(* user nice system idle iowait irq softirq steal; a small kernel reports fewer. *)
Row(a, b) == <<a, 0, b, 9, a, b, 0, b>>
Stat(row, cores) == [cpu |-> row, cores |-> cores, running |-> {1}, blocked |-> {}, ctxt |-> {5}]
Cpu == <<Stat(Row(2, 1), <<Row(1, 1), Row(1, 0)>>), Stat(Row(4, 3), <<Row(3, 2), Row(1, 1)>>),
        Stat(<<6, 0, 2, 1>>, <<<<6, 0, 2, 1>>>>)>>

Mem(t, k, n) == [MemTotal |-> t] @@ (k :> n)
Memory == <<Mem(10, "MemAvailable", 1), Mem(10, "MemAvailable", 12),
           [MemTotal |-> 10, MemFree |-> 1, Buffers |-> 0, Cached |-> 1, SwapTotal |-> 2,
            SwapFree |-> 3],
           Mem(0, "MemFree", 0)>>

Fs(device, mount, total, used) ==
    [device |-> device, mount |-> mount, total |-> total, used |-> used, available |-> total - used]
Filesystem == <<<<Fs("/dev/sda1", <<>>, 10, 7), Fs("udev", <<"dev">>, 4, 0)>>,
               <<Fs("/dev/sda1", <<>>, 10, 9), Fs("/dev/sdb1", <<"srv">>, 5, 1)>>>>

(* sda with a partition, volumes on it, a disk that comes and goes, a zvol.  The probe may miss a *)
(* volume that is unmapped before it looks, or fail and name none.                                *)
Disk(name, hw, n) == [name |-> name, hw |-> hw, reads |-> n, writes |-> n]
Disks(n, volumes, stacked, more) ==
    [disks |-> <<Disk(<<"sda">>, TRUE, n), Disk(<<"sda", "1">>, FALSE, n),
                 Disk(<<"zd0">>, FALSE, n), Disk(<<"loop0">>, FALSE, 1)>>
               \o [i \in DOMAIN volumes |-> Disk(<<volumes[i]>>, FALSE, n)] \o more,
     mapped |-> {<<volumes[i]>> : i \in DOMAIN volumes},
     stacked |-> {<<s>> : s \in stacked}]
Nvme(n) == <<Disk(<<"nvme0n1">>, TRUE, n), Disk(<<"nvme0n1", "p", "1">>, FALSE, n)>>
DiskAnswers == <<Disks(0, <<"dm-0">>, {"dm-0"}, <<>>), Disks(1, <<"dm-0">>, {"dm-0"}, <<>>),
                Disks(2, <<"dm-0", "dm-1">>, {"dm-0"}, <<>>), Disks(2, <<"dm-0">>, {}, <<>>),
                Disks(3, <<"dm-0">>, {"dm-0"}, Nvme(0)), Disks(3, <<>>, {}, Nvme(2))>>

(* Two hardware ports behind a bridge and a virtual one.  One is pulled, or both, or the probe    *)
(* fails and names none.                                                                          *)
Iface(name, hw, n) == [name |-> name, hw |-> hw, rx |-> n, tx |-> n]
Net(n, ports, physical) ==
    [ifaces |-> <<Iface("lo", FALSE, 9)>>
                \o [i \in DOMAIN ports |-> Iface(ports[i], TRUE, n)]
                \o <<Iface("vmbr0", FALSE, 2 * n), Iface("tap0", FALSE, n)>>,
     physical |-> physical]
NetAnswers == <<Net(1, <<"eth0", "eth1">>, {"eth0", "eth1"}), Net(2, <<"eth0", "eth1">>, {}),
               Net(3, <<"eth0", "eth1">>, {"eth0", "eth1"}), Net(4, <<"eth0">>, {"eth0"}),
               Net(5, <<>>, {})>>
(* A container: every port is virtual, and counts. *)
Inside(n) == [ifaces |-> <<Iface("lo", FALSE, 1), Iface("veth0", TRUE, n)>>, physical |-> {}]

Proc(pid, ticks, rss) == [pid |-> pid, ticks |-> ticks, rss |-> rss]
Processes == <<<<Proc(1, 1, 2), Proc(2, 0, 0), Proc(3, 5, 1)>>,
              <<Proc(1, 2, 1), Proc(3, 1, 3), Proc(4, 0, 2)>>>>

Stall(a, m, full) == [avg10 |-> a, avg60 |-> m, full |-> full]
Pressure == <<[cpu |-> Stall(30, 10, {}), memory |-> Stall(5, 5, {1}), io |-> Stall(50, 45, {9})],
             [cpu |-> Stall(1, 25, {}), memory |-> Stall(5, 5, {25})], [cpu |-> Stall(0, 0, {})]>>
Load == <<[avg |-> <<1, 2, 3>>, procs |-> 4, uptime |-> {60}],
         [avg |-> <<>>, procs |-> 0, uptime |-> {61}]>>

Sensor(chip, key, metric, label, value, crit) ==
    [chip |-> chip, key |-> key, metric |-> metric, label |-> label, value |-> value,
     crit |-> crit]
Chips(t, f) == <<Sensor("coretemp", "temp1", "temp", "Package id 0", t, {100}),
                 Sensor("coretemp", "temp2", "temp", "", 60, {}),
                 Sensor("nvme", "temp1", "temp", "Composite", 68, {70}),
                 Sensor("", "fan1", "fan", "", 900, {}),
                 Sensor("it87", "fan2", "fan", "", f, {})>>
Sensors == <<Chips(70, 0), Chips(92, 800), Chips(82, 800)>>

Group(parent, leaf, usage, mem, limit, pids) ==
    [parent |-> parent, leaf |-> leaf, usage |-> usage, memory |-> mem, inactive |-> 1,
     limit |-> limit, pids |-> pids]
Groups == <<<<Group("system.slice", <<"docker-", "0a1b", "rest", ".scope">>, 1000000, 4, {8}, 2),
             Group("qemu.slice", <<"100", ".scope">>, 5000000, 9, {}, 1),
             Group("docker", <<"buildkit">>, 7, 0, {}, 0)>>,
           <<Group("docker", <<"0a1b", "rest">>, 1500000, 0, {8}, 1),
             Group("lxc", <<"101">>, 0, 3, {0}, 1)>>>>
Sockets(n) == [sock |-> [used |-> 3, tcp |-> 1, udp |-> 2],
               snmp |-> [CurrEstab |-> 1, InSegs |-> n, RetransSegs |-> 0 - 1]]
Tcp == <<Sockets(4), Sockets(6)>>

MCMachines ==
    <<[cpu |-> Cpu, process |-> Processes], [memory |-> Memory, filesystem |-> Filesystem],
      [diskio |-> DiskAnswers], [network |-> NetAnswers], [network |-> <<Inside(1), Inside(3)>>],
      [pressure |-> Pressure, load |-> Load], [sensors |-> Sensors, cpu |-> Cpu],
      [cgroup |-> Groups, tcp |-> Tcp]>>
=============================================================================
