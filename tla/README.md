# ServerGlass in TLA+

ServerGlass watches servers over SSH without installing anything on them. This directory holds
TLA+ specifications of its core and of its Linux application, the TLC configurations that check
them on small instances, and proofs, checked by TLAPS, of the most important properties for
instances of any size.

## 1. Inventory

| Part | Source | State it keeps | Operations | Module |
|---|---|---|---|---|
| Core object and poll loop | `crates/sg-ffi/src/lib.rs` | the map of targets; per target a task slot, a generation counter, the published snapshot; per run of `poll_loop` the session, the failure count, the inbox of commands | `add_target`, `start`, `stop`, `remove_target`, `run_command`, `snapshot`; the steps of `poll_loop` | `TargetPoller`, `CommandContract` |
| Target runtime | `crates/sg-core/src/runtime.rs` | the session, the state of the target, its own attempt count, collector, live store | `connect`, `tick`, `run_command`, `on_disconnect` | `TargetRuntime` |
| Rates, live store, collector | `crates/sg-core/src/{rate,store,collector}.rs` | last counter per series; a bounded window of points per series; the enabled sources | `process`, `reset`; `ingest`, `retain_*`, `clear`; `requests`, `collect` | `TargetRuntime`, `Readings` |
| Host keys and authentication | `crates/sg-transport/src/{session,error,auth}.rs` | the SSH handle; the file of pinned host keys | `check_server_key`, `learn`, `connect`, `authenticate` | `HostKeys` |
| Batches and framing | `crates/sg-transport/src/{session,frame}.rs` | the channel of one long-lived shell, a nonce | `batch`; `encode`, `decode` | `SshSession` |
| Probe, parsers, data model | `crates/sg-transport/src/probe.rs`, `crates/sg-collect`, `crates/sg-model` | none | one parser per source of readings | `Collectors` |
| View model, plain language | `crates/sg-ffi/src/{view,plain}.rs` | the snapshot | `set_state`, ranking, the verdict, charts | `View`, `Readings` |
| Pairing, transfer, C interface | `crates/sg-sync`, `crates/sg-ffi/src/{sync,cabi}.rs` | the registry of offers and scans in flight; an offer's listener and connection | `sg_start_receiving`, `await_connection`, `receive`, `scan`, `send`, `sg_pairing_forget`; `merge` | `Pairing`, `OneTransfer`, `LinuxApp` |
| Linux application | `apps/linux/src` | the saved inventory and its file, passwords, the running targets, dialogs, the command runner | `load`, `save`, `start`, `forget`, `restart`, the handlers of the window and of the pairing sheet | `LinuxApp` |
| Other applications | `apps/{windows,shared,android}` | the same inventory and mapping, in C#, Swift and Kotlin | the same | none |
| Binding generator | `crates/sg-bindgen` | none | none | none |

How they interact. The UI threads of an application call the core object directly, or through
UniFFI or the C interface. `start` spawns one Tokio task per target, which runs `poll_loop`:
it owns a `TargetRuntime`, which owns the SSH session, the collector and the live store. The
loop and the UI threads share the snapshot (a read-write lock), the task slot (a mutex), the
generation (an atomic, only ever used under the snapshot's lock), and the inbox of commands
(an unbounded channel, with a one-shot reply channel for each command). The application keeps
the inventory and turns each saved server into a target; pairing moves an inventory and its
pinned keys between two devices, over a connection two people confirm by comparing six digits.

What is hard.

- `abort()` takes effect only at the task's next blocking await, so a stopped run overlaps with
  the next one. Commands arrive from other threads while a refresh is waiting for the host, while
  the session is being lost, while the target is being stopped. A caller gives up after sixty
  seconds while its command is queued or running.
- A host's key is checked and recorded by every connection in one file of pins, under one lock,
  while servers, permissions and people change things around it; which failures are retried
  decides whether a host that refused credentials is asked again.
- One shell answers batch after batch on one channel. A reply comes in chunks that may end inside
  a marker, other programs may print between two of them, and a batch that ran into its deadline
  leaves commands behind that are still printing.
- Readings become rates only by comparison with the refresh before, on a host whose counters wrap
  and restart and whose processes, containers and disks come and go; a disk, its partitions and
  the volumes on it count the same bytes.
- An offer waits for one connection while its dialog may be closed, its time may run out, two
  threads may hold it, and the other device may be trying its addresses one after another.
- The Linux application writes its list and the pins in several disk operations, any of which may
  fail or be the last before the process dies; answers of commands, prompts and transfers come
  back to a window that has moved on.

`hazards` in `PROJECT.json` lists these and the rest of them, each at its line.

What makes each part correct:

- *Core object and poll loop*: one poller per target; `Online` means a live session; `Idle`
  stays after a stop; a command runs at most once, over the session it was typed against, and
  what its caller is told is true; every call returns, every stopped run ends, a reachable host
  comes online.
- *Host keys*: one key per endpoint, credentials to that key only, a pin is never replaced,
  refused credentials are not offered again.
- *Batches and framing*: a batch answers its own requests with what they printed, misses no
  terminator, keeps a bounded buffer and returns.
- *Rates, live store, collector*: a rate spans two consecutive refreshes of one session and
  never claims more than was counted; the store holds what the last refresh reported and no
  more; one failing collector costs its own series.
- *Parsers and view*: totals count hardware once, every reading of the host is shown once, the
  verdict fits the state and the tiles, shares are shares, charts do not exaggerate.
- *Pairing and transfer*: an offer is good for one transfer, both people see the same digits, what
  may be sent may be received, every call returns.
- *Linux application*: the file is a complete list at every moment, a change that is not in it was
  reported, nothing of a removed server stays, a target is built from the record as it is now, a
  transfer leaves the records as they were and the keys it read.

## 2. Modules

| Module | What it is |
|---|---|
| `TargetPoller` | one target of `lib.rs`: UI threads, runs of `poll_loop`, the snapshot, the command queue |
| `CommandContract` | what `run_command` promises, with no task, queue or lock; `TargetPoller` implements it |
| `HostKeys` | connections that share the file of pinned keys: handshake, check, learning, authentication, retry |
| `SshSession` | `batch` over one shell, with its framing, and the shell at the other end |
| `TargetRuntime` | the runtime of one target: collectors, rates and live store over a changing host |
| `Collectors`, `View` | pure: the probe and the parsers; the view model and its plain language |
| `Readings` | composes the two with rates, store and poll loop: from a host's answers to its card |
| `Pairing` | offers, scans and connections of two devices, with the registry of the C interface |
| `OneTransfer` | what an offer promises; `Pairing` implements it |
| `LinuxApp` | the window, its dialogs, the engine, the files, the command runner, the receiving sheet and the merge |
| `MC...` | the small instances: symmetry sets, the series, hosts and payloads of the instance |
| `TargetPollerProofs`, `HostKeysProofs`, `TargetRuntimeProofs`, `SshSessionProofs`, `PairingProofs`, `LinuxAppProofs`, `ReadingsProofs` | the theorems and their proofs |
| `SequenceFacts` | lemmas the last four share: induction and recursion over the naturals, and what sequence operators return |

`map` in `PROJECT.json` gives the source lines of every definition. A definition whose comment
calls it a mutation is no part of a specification: it is what a mutant puts in the place of the
definition below it, as are the ones `mutants` in `PROJECT.json` names.

### TargetPoller

A step is the code between two points where another thread can get in: an await or the taking
of a lock. A background task is named by the generation `start` gave it. `pc[r]` is the await or
the stretch of `poll_loop` that run `r` is in; `aborted` holds the runs whose handle was aborted,
`doomed` those of them that have come to an await that blocks, after which they take no step but
`abort_lands`. `slot` is `Target.task`, and a thread in `start` or `stop` that holds its mutex is
in `Holding`. `publish` writes only if the run's generation is the current one, as in the code.
`start` is `target`, then `start_running` or `start_claim` and `start_spawn`; `stop` is
`stop_abort` and `stop_publish`; `remove_target` adds `remove_forget`. `run_command` is
`run_command_lookup`, then `run_command_send` or `run_command_refuse`, then an answer or
`run_command_timeout`. The other actions are the stretches of `poll_loop`, with the outcome of
`connect`, `tick` and `run_command` of the runtime chosen by the environment.

Left out: readings (`Readings` has them, with the rule that the first refresh of a session
publishes only the state), `target_ids` and `snapshot`, which only read, the early return of
`run_command` for an empty command, and memory orderings, as the generation is only read and
written under the snapshot's lock. Several targets do not interact in `lib.rs`, so one is enough.

`CommandContract` is implemented by `TargetPoller` under the mapping `Answer`, which forgets how
far a call has got inside `run_command`.

### HostKeys

Each connection has its `ConnectionSpec` (`endpoint`, `policy`, whether a file of pins can be
located, `auth`), a point `pc` in `connect`, and the verdict of `check_server_key`. `lock_pins`
takes `PIN_STORE`; `check_unreadable`, `check_known_hosts`, or `check_new` and `learn` are what
happens under it. `handshake_done` turns the verdict into a `TransportError` or goes on to
authentication. `basis` remembers what the file held when the key was accepted, and `refusals`
counts attempts in which the server refused credentials, up to two. The opening of the file
and russh's own reading of it are one step. russh runs the handler in a task of its own, so a
handshake that timed out may still record its key: `late` holds those keys, and `late_learn`
records one, under the lock like any other. The algorithms of keys are not told apart: russh
compares keys of one kind, and the model has one kind.

### SshSession

The channel carries tokens; a marker is several of them, so that a chunk may end inside one, and
the tokens `B`, `E`, `Z` stand for markers with the session's nonce, which the host does not know.
`batch` encodes its requests (each once, those a host cannot serve not at all), `raw_write` gives
the script to the remote shell, `data(k)` takes `k` tokens of what the shell has written, checks
the limit, looks for the terminator where the code looks for it, and decodes. One deadline covers
the write and every wait. `drop` is what `TargetRuntime` does with any error: the session goes,
with its shell and whatever was on the wire. The shell works through the script whether anyone
waits or not; its commands print what they like or kill it, and something in the background
prints on either stream. `printed` is what each command of this batch really printed. Decoding is
a recursive function over the positions of the reply, one round of its loop (`Frame`) at each.

### TargetRuntime

The host is `raw` (what its counters show, modulo `Width`), `total` (all they ever counted, which
the code cannot see) and `alive`. `tick_ok` is one refresh: the collectors that apply and whose
parsers succeed report the series of what is alive; `process` turns counters into rates,
`ingest`, `retain_series` and `retain_entities` update the store, in the order of `tick`. Points
carry the number of their refresh and of the one their baseline is from instead of a value;
`samples` holds, for each rate of the last refresh, the difference and the elapsed time it was
made of, next to what really happened. `since` is the refresh from which a series has been
reported without a break in the present session. A series and its entity are reported together,
as all collectors of `sg-collect` do. `clear` happens on the next successful connection and not,
as its comment has it, on disconnection: what the store holds in between is the lost session's,
which is why `OnePresence` and `NoGhosts` speak of a session that is up. Merging of requests and
of labels is left out.

### Collectors, View and Readings

Collectors and the view keep no state, so each is an operator. `Collectors` has one per source of
readings, from the fields its parser reads to the series it emits, with kind, unit, scale and
bound, and `builtin_sources` is the order they run in. Splitting text into fields is left out:
`is_answer` says which fields an answer may have, and of which kind, after it. `View` turns the
store into gauges, details, entities, ranked processes and tiles, and gives the verdict. `Readings`
puts them together: the host is probed, each refresh parses one answer per collector that applies, counters become rates,
points go into the window, and `build_snapshot` or `set_state` publishes, as `poll_loop` does. The
first refresh of a session publishes only the state. Answers say, beside what the parser reads,
which devices are hardware and which are volumes (`hw`, `mapped`), so that `HostTotalsAreReal`
compares with the truth; what the probes say of it (`stacked`, `physical`) is a part of the answer
by itself, which may be missing or of a later moment than the counters. Numbers are whole
and fractions are pairs, so a rate is rounded down; wording, formatting and the order of details
are left out.

### Pairing

Threads of the device being set up find an offer in the registry and go on with a clone of it, so
the registry may change while they wait. `await_connection` takes the listener out of its mutex,
`accept`, `handshake`, `handshake_failed` and `accept_times_out` are `Listener::accept`, `receive`
takes the connection and `accept_transfer` reads it. The other device tries the addresses of the
code in order; behind each stands the device, something silent, another service, or nothing.
`stream` holds both ends of every connection: a key may be swallowed on the way, an answer may be
read after the other end has closed, and an end that nothing refers to any more is closed, as Rust
drops it. A key, a nonce and the six digits are modelled by what they are computed from. People
compare honestly: `receive` and `send` are called only when the digits agree.

`OneTransfer` is implemented under the mapping `OfferState`: open while its sockets are, paired
while a connection waits to be read, done when an inventory was returned.

### LinuxApp

One thread drives the interface, so a handler is one step in memory followed, before any other
handler, by the disk operations it makes, one by one (`jobs`): `save` is check, open, write and
rename, `write_known_hosts` truncates and writes. Any of them may fail, and the process may die
between two. `read_known_hosts` gives the pins of the file, or none when the file cannot be read;
`plan` keeps what it gave, what is to be written and, for the properties, what the file held. The code saves before it rebuilds the list; the model changes memory first, which
only lets a poller record a key a little earlier. Dialogs are modal: the newest takes input.
What workers deliver (an answer, a code to compare, an inventory) arrives whatever is open. The
file may be damaged while the application is not running and repaired at any time. Simplified: one
transfer at a time; ids are given when a record is saved rather than when its sheet opens; power
loss is not modelled, so what was written stays written.

## 3. Runs

| Run | Question | Result |
|---|---|---|
| `commands` | two threads start, stop, remove and send commands to a target while its runs connect, refresh, fail, back off and are aborted | one poller; `Online` has a session; `Idle` stays; the wait shown is the wait served; nothing is carried over to another session, nothing withdrawn runs, answers are true |
| `liveness` | is the contract of `run_command` kept, is every accepted command answered, does every stopped run end, does a reachable host come online | yes; the last, or the run is stopped or fails for good |
| `host_keys` | two connections, one endpoint whose key changes, one file | one key, never replaced; credentials to it only; a refused secret is not offered again |
| `ssh` | batches over a shell that prints, hangs, floods and dies, cut into any chunks | own answers only, no terminator missed, bounded buffer, every batch returns |
| `runtime` | two collectors that fail, are switched off or do not apply; a counter that wraps, restarts and vanishes; lost sessions; a clock that is set | the store is what the last refresh reported; rates of one presence, never overstated |
| `readings` | eight kinds of hosts, from their answers to their cards | totals of hardware only where the probes tell it apart, each reading shown once, fitting verdicts, shares that add up, honest charts |
| `pairing` | an offer with two waiting threads, a scan over several addresses, expiry, forgotten handles | same digits, one transfer per offer, what was sent fits, calls return |
| `linux_app` | a person, failing disks, transfers and a process that dies anywhere | the file is whole, changes are saved or reported, no trace of removed servers, targets match, a transfer changes no record and writes back the keys it read or says that it could not |
| `remove_race`, `wrong_host_output`, `repaired_lost`, `pin_conflict_applied` | what a comment or a test says | violated: see the findings |

Bounds. `commands` has two threads, which is what a race between calls takes, two commands, so
that one is queued behind the other, and three generations, so that a target is stopped and
restarted under them and an aborted run overlaps the current one. `MaxAttempt` is 2, so that
counting on, saturating and starting over are told apart. `liveness` has the same two threads, one
command and two generations, which a stop and its restart take. `host_keys` has two connections,
two keys and one endpoint: endpoints share the lock only. `ssh` has two batches, of two, one or no
commands, over two sessions, so that what a dropped session left behind could reach the next one,
an output without a last newline, chunks of one token and of more than a terminator, a limit that
a long answer crosses, and one line from something in the background. `runtime` has two
collectors, one with a counter and a text of an entity and one with a gauge of the host, three
refreshes, so that a series can be absent for one and come back, a window of two, and a counter of
width two that wraps. `readings` has three refreshes, one more than its window, in each of two
sessions, and answers chosen for the cases each parser tells apart: partitions, stacked volumes,
volumes the probe misses and a probe that fails, bridges and virtual ports with both hardware
ports, one, none or none named, a kernel with fewer fields, more memory available than there is, lost
pressure files. `pairing` has one offer, as offers share nothing but the registry, held by two
threads, an address list of both families, behind which stand the device, something silent or
another service, and two scans, whose inventories are exactly as long as the limit and a byte
longer. `linux_app` has two servers, one with a password and one without, and two payloads: one
lists an identity twice and brings another key than the one known here, the other brings other
settings. Threads, commands and connections are symmetric where a cfg says so, and no liveness
property is checked under symmetry. Deadlock is checked where the system never rightly stops: in
`host_keys` and `runtime`.

Fairness. In `TargetPoller`, `Fairness` is weak fairness of every run of `poll_loop`, as Tokio
polls every task that can go on and each await ends (connecting and batches have time limits, the
sleeps are timers), and strong fairness of `take_job`, as `select!` picks at random among its
ready branches. Nothing is asked of the threads that call, nor of `run_command_timeout`:
`EveryCallReturns` holds without the sixty second limit. `ComesOnline` assumes `HostFairness` on top
of it: connecting and refreshing succeed in the end if they are tried again and again. In
`SshSession` time passes and the executor polls the caller; of the host nothing is assumed. In
`Pairing` offers grow old, a thread that can go on goes on, and so does a scan, whose attempts have
a time limit each; of the other device nothing is assumed.

## 4. Findings

Each has a run that shows it.

1. `remove_race`: `remove_target` stops a target and then takes it out of the map; a `start` that
   found it before that spawns a poller nobody can stop.
2. `wrong_host_output`: the answer of a command that is running when another server is selected is
   printed under that other server.
3. `repaired_lost`: a list that could not be read at launch and is repaired while the application
   runs is overwritten, without its servers, by the next change.
4. `pin_conflict_applied`: when `known_hosts` cannot be read as an inventory arrives, it counts as
   empty: the other device's key conflicts with nothing and is written over the one held here. The
   run has the instance of `linux_app`, which meets the same failure and shows what holds in spite
   of it.

Observed while modelling, and not the subject of a run:

- A `start` that meets a run on its way out after a fatal failure returns `Ok` and begins nothing
  (`lib.rs:148`).
- After a reconnection `Online` is published over the readings of the lost session until the
  second refresh, against the comment about holding the first tick back (`lib.rs:376`).
- The elapsed time a rate is divided by is a difference of wall clock readings (`rate.rs:82`): a
  clock set forward between two refreshes makes the divisor wrong.
- `apply` of the Linux application reads `known_hosts` and rewrites it later without the lock under
  which the core records keys, though SYNC.md calls pins append-only: a key recorded in between is
  dropped, or replaced by the other device's without a conflict. The file is truncated in place: a
  crash before the write leaves no pins, and a poller that connects meanwhile meets every server
  for the first time.
- Identities of an agent that are refused one after another until the time limit passes end as
  `Timeout`, which counts as transient (`session.rs:237`), and are offered again on every retry.
- Editing a server that signs in with a password restarts it without one if none is held, and
  rebuilding the list asks for the password of the selected server twice.
- `save` does not flush the temporary file to disk before it renames it.
- Volumes and hardware ports are asked for after the counters were read, and no answer counts as
  none. A volume unmapped in between, and each one when that command fails, counts as a disk of the
  host with its whole history, against `diskio.rs:187`; bridges and virtual ports do when the probe
  for ports fails or the last hardware port goes, against `network.rs:150`. `HostTotalsAreReal` is
  therefore stated for refreshes whose probes told devices apart; `readings` has the others too.
- `nvme0n10` is taken for a partition of `nvme0n1`. Sensors with equal labels share one entity.
- The 256 processes that are read are those with most memory, so that a small one that keeps a
  processor busy may not be among the ranked ones.

## 5. Proofs

All theorems hold for every value of the constants allowed by the named assumptions
(`ConstantsAssumption`, `NoneAssumption`, `SeriesAssumption`, `SizeAssumption`, `BatchAssumption`,
`PairingAssumption`, `BoundAssumption`, `InputAssumption`, `BoundsAssumption`, `HostsAssumption`,
`MaxProcessesAssumption`, `TopLimitAssumption`): sets that do not contain their own "none", positive
sizes, and inputs of the shape their types in the code give them. `HostsAssumption` adds one thing
the code takes from `df` without a check: that no more of a file system is used than there is.

The lists of the application, the listeners of an offer, the frames and answers of a batch, and the
sums, emissions and baselines of a refresh are built by recursion over their input. A recursive
function of TLA+ is whatever `CHOOSE` finds for its equation, so a proof about it has first to show
that some function satisfies the equation and then to go through it by induction. `SequenceFacts` does both once, over sets and functions
instead of operators: `UptoExists` says that a recursion can be followed as far as any number,
`SetInduction` that a set with 0 and closed under successor is all of the naturals. The lemmas
`FramesFacts`, `WithoutEnds`, `DecodeFrom`, `BindFacts`, `RetainFacts`, `AppliedFacts`, `SumType`,
`FlattenIsGlued`, `ProcessSteps`, `CoupledPoints` and `UniqueCounter` rest on them.

- `TargetPollerProofs`. `IInv` adds to `TypeOK` who owns what (`Ownership`: threads that hold the
  task lock exclude each other, the slot holds the only run that is not aborted, an aborted run is
  current only until `stop` retires its generation, `Idle` is shown only between a stop and a
  start, a run that sets out for a session has an empty inbox) and that the attempt shown is the
  one counted (`Counted`). None of the properties is inductive without the others: a publication is
  right because the run's generation is current, and the generation is current because of who
  holds the slot. From it follow `TypeCorrect`, `AtMostOnePoller`, `OnlineIsUp`, `NoCarryOver`,
  `RetryIsServed` and `StopIsFinal`.
- `TargetPollerProofs`, the commands. `CInv` says in which state of its call, of its queue and of its session a
  command can be, and that a command waits in one place only. From it follow `AnswersAreHonest`,
  `WithdrawnIsFinal`, `NeverLate`, and `Implements`: initial states map to initial states of
  `CommandContract` and every step to a step or a stutter.
- `HostKeysProofs`. `IInv` says that whoever looks keys up or records one holds the lock, that a
  key is being recorded only where there is none, that an accepted key rests on the one pin, and
  that a refused secret leaves a failure nobody retries.
- `TargetRuntimeProofs`. For `RatesAreHonest`: since its baseline a counter has not risen by more
  than was counted (`Covered`), which wraps and restarts keep because they only take away. For
  `ChartsOfOnePresence`: a baseline is always a reading of the last refresh of the present
  session (`Baselines`), because every refresh drops the ones it did not renew. For
  `NoFrozenReadings` and `OneFailureIsContained`: what the last refresh reported has a baseline
  (`Renewed`), the host is no entity of its own store, and `RefreshStore` and `ReportedCharts` say
  what the order of `ingest`, `retain_series` and `retain_entities` leaves. `TypeCorrect` bounds
  every window.
- `SshSessionProofs`. `IInv` adds to `TypeOK` that a batch that is being written has received
  nothing. The step that matters is `TailSearch`: where a terminator stood nowhere in what had come
  and stands nowhere from `SearchFrom` on, it stands nowhere, as an occurrence before `SearchFrom`
  would lie in the old data entirely. From it follow `SessionTypes`, with the bound on the buffer,
  and `TerminatorIsFound`.
- `SshSessionProofs`, the answers. `OwnAnswers` says nothing of a batch that still waits, so `AInv`
  does: what was received and what is on its way, without the signals of the channel, is `Said`,
  and there are a number `q` of commands the shell has run and places of its begin and end lines
  such that `Said` is laid out accordingly (`Layout`: the lines of the frames so far stand where
  they should, in order, with each command's own output between them, no other token of `Said`
  belongs to a marker, and after the terminator there is only noise), the shell has the rest of the
  script before it or died, and `$__sg` is the status of the command just run. Between batches
  there is only noise on its way. The steps are `BeginLayout`, `RunLayout`, `EndLayout`,
  `TerminatorLayout` and `NoiseLayout`; taking a packet moves a piece of `Said` and changes nothing
  of it. When the terminator is found, `Received` shows that the whole reply has come and the rest
  is noise, and `Decoded` that `decode` finds every frame of a whole reply and no other, by going
  backwards from the last frame. This needs that ids and exit codes are told apart from the tokens
  of the markers (`BatchAssumption`: ids are hexadecimal, exit codes decimal), that a batch names
  no request twice (`FramesFacts`), and that any error ends the session.
- `PairingProofs`. `PairingInv` says where everything of an offer is: at most one thread accepts
  for it and at most one reads from it (`CallInv`); it listens, or a thread accepts for it, only
  while it shows no code; it shows at most one code; its connection waits in one place and was
  shown (`OfferInv`); a connection is in the backlog of the offer that was scanned, or in a
  handshake for it, or answered exactly if its code is shown (`StreamInv`); an attempt that is not
  made has no other end. `CodesAgreeAlways` and `SentFitsAlways` follow from it, and so does
  `OfferKeepsPromise`: initial states map to initial states of `OneTransfer`, and each action's
  lemma shows for the offer it concerns which step of the promise it takes, and for the others
  that nothing is changed.
- `LinuxAppProofs`, the disk. `IInv` says what a handler can still have to do (`JobsOK`: one save,
  or a transfer's save, pins and save, each from some step on, so that the last thing is always a
  save), that a save past its check has found a file that loads (`Checked`), and that what a
  transfer will write back contains the keys it read (`PlanOK`). From it follow
  `NothingLostSilently`, `FileIsWhole` and `ReadKeysAreKept`. The last says only what holds: keys that
  could not be read, that were recorded after the reading, or that a crash during the write loses
  are not among those it keeps (finding 4 and the observations after it).
- `LinuxAppProofs`, the list. `ListInv` says that the list and the file hold records with distinct
  ids, all below the next one; that passwords belong to records of the list; that a target runs
  the record with its id as the list has it now; that a dialog about a server holds its present
  record and a sheet of the main window is the bottom one; that the command runner points at the
  selected server, which is listed. Dialogs have to be part of it: a prompt that is answered starts
  the record it was opened with, which is right only because nothing that changes a record can
  happen below it. From it follow `RemovedLeavesNoTrace`, `TargetsAreCurrent` and, with what
  `merge_hosts` and `Applied` do to a list, `WhatWasFoundIsKept`.

- `ReadingsProofs`. `Good` is the set of emissions the view can rely on: what a tile is made of is a
  percentage without a bound of its own, a source without a section of details has nothing but
  headline metrics, and the shares of memory, swap and disk are gauges between 0 and 100. Each
  parser emits a sequence over it for every answer it can read (`CpuGood`, `MemoryGood` and so on
  up to `ParseGood`), whatever the number of devices, mounts, processes, chips and containers. A
  store of such emissions has one descriptor per series and a window of points for each
  (`StoreOK`), as `ingest` and `retain_series` keep it. `SnapshotOK` says of a snapshot that its
  gauges have charts, that its verdict is one `assess` gives for its state and gauges, that a red
  tile stands beside the gauge of 90 or more that made it red, and that what a tile calls free is a
  part of the whole. It has to speak of the gauges because `set_state` keeps the gauges and tiles of
  a lost session and judges them again, so that a verdict that fits now would not follow from one
  that fitted before. `Follows` says that after a second refresh what is shown is what the store
  holds. From them follow `VerdictAlwaysFits`, `ChartsAreAlwaysHonest` (with `ChartIsHonest`, which
  is about any sequence of numbers) and, with `GridFacts` and `DetailFacts` on how the grid and the
  sections divide the series between them, `NothingIsDiscarded`.
- `ReadingsProofs`, what is compared. `SharesAlwaysAddUp` needs more than a type of emissions. A
  refresh emits a size right before the whole it is a part of, and neither without the other
  (`Paired`), so the last points of the two are from one answer (`CoupledPoints`) and stay the last
  ones in their windows (`IngestPair`). The processor's counters come first and once each, over one
  scale, and the whole is the sum of its parts (`Processor`); so each is compared with its own
  baseline (`UniqueCounter`), the baselines of the refresh before add up too (`BaseAdds`), and no
  point in the store is from a later refresh (`Dated`), which makes the points of this refresh the
  rates of these counters. Quotients of parts rounded down come to that of the whole or to at most
  two less (`QuotientsAdd`).

Only model-checked: the liveness properties of `TargetPoller`, `SshSession` and `Pairing`, as
fairness and `ENABLED` are out of the prover's reach; and `HostTotalsAreReal`, a comparison of sums
over sets of devices. Which of them are hardware is part of an answer, and the code goes by names
and lists of the kernel: for every host the theorem would have to assume what it is to show, so it
is left with the hosts of the instance.

## 6. Not modelled, and the plan

Not modelled, and why:

- The Windows, Apple and Android applications keep the same inventory and make the same calls of
  the core, in C#, Swift and Kotlin; `LinuxApp` stands for the Rust one, and nothing here says that
  the others agree with it.
- `views.rs` and `widgets.rs` of the Linux application lay out and draw a snapshot and keep no state
  that outlives it. The binding generator is a call of UniFFI.
- Of the C interface, pairing is modelled; the functions that only convert arguments and forward to
  the core object are not, nor is the ownership of the strings they hand out.
- Splitting text into fields, quoting of commands, formatting and wording are left out. So are the
  cryptography of pairing, modelled by what its values are computed from, and russh, modelled by
  the callbacks and errors the code sees.
- Power loss and `fsync`: what was written stays written. The sheet that sends an inventory changes
  nothing on its own device.

What is left to do: the totals of `Readings` for any set of devices, which takes a theory of sums
over sets, and type correctness of `HostKeys`, already part of its invariant, as a theorem of its
own.
