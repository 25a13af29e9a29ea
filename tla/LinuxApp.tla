------------------------------ MODULE LinuxApp ------------------------------
(***************************************************************************)
(* The Linux application (apps/linux/src): the saved inventory and its     *)
(* file, the targets the engine runs for it, the dialogs, the command      *)
(* runner and the pairing sheet.                                           *)
(*                                                                         *)
(* One thread drives the interface.  A handler changes memory and writes   *)
(* files without returning to the event loop, so what it does in memory is *)
(* one step here and the disk operations it makes follow one by one in     *)
(* jobs, with every other handler waiting: only the process's death and    *)
(* the core's own threads can come between them.  Dialogs are modal, so    *)
(* only the newest one takes input, and the main window none while one is  *)
(* open; what a worker thread delivers (an inventory, a command's answer)  *)
(* arrives whatever is open.                                               *)
(*                                                                         *)
(* Left out: the record's port, user, key path, policy and interval (addr  *)
(* stands for the identity, auth for the settings a person chose), what a  *)
(* secret is, report dialogs as windows (reported says that one was        *)
(* shown), and the sheet that sends, which changes nothing here.           *)
(***************************************************************************)
EXTENDS Integers, Sequences, FiniteSets, SequencesExt

CONSTANTS Addrs,     \* identities a record may have (address, port and user)
          Entries,   \* what a person may type into the add and edit sheets: [addr, auth],
                     \* with the sign-in method "agent", "key" or "password"
          Presented, \* the keys a poller may be shown at each address
          Incoming,  \* payloads the other device may send: [hosts, pins]
          MaxId      \* bound: records made by add_host and apply

\* What an entry, and a record of the other device, says.
Entry == [addr : Addrs, auth : {"agent", "key", "password"}]

ASSUME BoundAssumption == MaxId \in Nat
ASSUME InputAssumption ==
  Entries \subseteq Entry /\ \A payload \in Incoming : payload.hosts \in Seq(Entry)

NoKey == "none"
NoHost == 0

VARIABLES
  up,         \* the process runs
  file,       \* hosts.json: [kind, hosts]; a damaged file keeps what can be repaired
  tmp,        \* hosts.json.tmp: "none", "torn" or "whole"
  pins,       \* known_hosts: the key recorded for each address
  next,       \* the next id new_id gives
  hosts,      \* Window.hosts
  secrets,    \* ids Window.secrets holds a password for
  selected,   \* Window.selected
  targets,    \* Engine.targets: the record each target was built from, by id
  modals,     \* open dialogs, the newest last: [kind, host]
  command,    \* CommandView: [host, output (ids whose answers it shows), running]
  receiving,  \* pairing::receive's worker: "none", "offered", "asked", "confirmed"
  jobs,       \* disk operations the current handler still has to make
  plan,       \* apply's pins: those the file held, those apply read, and the merged ones
  reported,   \* a failed load or write was reported and no save has succeeded since
  unread      \* ids of the file that this launch could not read

memory == <<hosts, secrets, selected, targets, modals, command, receiving>>
disk == <<file, tmp, pins>>
vars == <<up, disk, next, memory, jobs, plan, reported, unread>>

Ids(hs) == {hs[i].id : i \in 1..Len(hs)}
Find(hs, id) == hs[SelectInSeq(hs, LAMBDA h : h.id = id)]
NoPins == [a \in Addrs |-> NoKey]
NoPlan == [held |-> NoPins, read |-> NoPins, result |-> NoPins]
Dialog(kind, h) == [kind |-> kind, host |-> h]
Nobody == [id |-> NoHost, addr |-> NoKey, auth |-> NoKey]

(***************************************************************************)
(* The file (store.rs).                                                    *)
(***************************************************************************)

\* What load returns when it succeeds; a missing file is an empty list.
load == IF file.kind = "missing" THEN <<>> ELSE file.hosts

\* save begins by loading the file, and goes no further when that fails.
CanSave == file.kind # "damaged"

\* The steps of save, and of write_known_hosts, which truncates in place.
save == <<"check", "open_tmp", "write", "rename">>
write_known_hosts == <<"truncate", "write_pins">>

\* The handler's next disk operation is step, and the event loop is still waiting for it.
AtStep(step) == up /\ jobs # <<>> /\ jobs[1][1] = step
Advance == jobs' = IF Len(jobs[1]) = 1 THEN Tail(jobs) ELSE [jobs EXCEPT ![1] = Tail(@)]
GiveUp == jobs' = Tail(jobs)
FailedSilently == GiveUp /\ UNCHANGED reported
Failed == GiveUp /\ reported' = TRUE

save_check ==
  /\ AtStep("check")
  /\ \/ CanSave /\ Advance /\ UNCHANGED reported
     \/ ~CanSave /\ Failed
  /\ UNCHANGED <<up, disk, next, memory, plan, unread>>

\* The list goes to a file beside the inventory, torn from when it is opened until the last
\* byte is written.
OpenInventory == file' = [file EXCEPT !.kind = "damaged"] /\ tmp' = "torn"
OpenTemporary == tmp' = "torn" /\ UNCHANGED file

save_open ==
  /\ AtStep("open_tmp")
  /\ \/ OpenTemporary /\ Advance /\ UNCHANGED reported
     \/ Failed /\ UNCHANGED <<file, tmp>>
  /\ UNCHANGED <<up, pins, next, memory, plan, unread>>

save_write ==
  /\ AtStep("write")
  /\ \/ tmp' = "whole" /\ Advance /\ UNCHANGED reported
     \/ Failed /\ UNCHANGED tmp
  /\ UNCHANGED <<up, file, pins, next, memory, plan, unread>>

save_rename ==
  /\ AtStep("rename")
  /\ \/ /\ file' = [kind |-> "ok", hosts |-> hosts]
        /\ tmp' = "none"
        /\ reported' = FALSE
        /\ Advance
     \/ Failed /\ UNCHANGED <<file, tmp>>
  /\ UNCHANGED <<up, pins, next, memory, plan, unread>>

pins_truncate ==
  /\ AtStep("truncate")
  /\ \/ pins' = NoPins /\ Advance /\ UNCHANGED <<plan, reported>>
     \/ Failed /\ plan' = NoPlan /\ UNCHANGED pins
  /\ UNCHANGED <<up, file, tmp, next, memory, unread>>

pins_write ==
  /\ AtStep("write_pins")
  /\ \/ pins' = plan.result /\ Advance /\ UNCHANGED reported
     \/ Failed /\ UNCHANGED pins
  /\ plan' = NoPlan
  /\ UNCHANGED <<up, file, tmp, next, memory, unread>>

DiskStep ==
  save_check \/ save_open \/ save_write \/ save_rename \/ pins_truncate \/ pins_write

(***************************************************************************)
(* The list and its selection (window.rs, engine.rs, command.rs).          *)
(***************************************************************************)

\* CommandView::set_host: the output goes when the host changes, a running command stays.
set_host(id) ==
  [command EXCEPT !.host = id, !.output = IF id = command.host THEN @ ELSE {}]

\* Engine::start: the record is copied into the target, and a second start does nothing.
start(run, h) ==
  IF h.id \in DOMAIN run THEN run
  ELSE [i \in DOMAIN run \cup {h.id} |-> IF i = h.id THEN h ELSE run[i]]
forget(run, id) == [i \in DOMAIN run \ {id} |-> run[i]]
StartOnly(run, h) == start(run, h)
restart(run, h) == start(forget(run, h.id), h)

\* ensure_started asks for a password before it starts a host that needs one; ask_for_secret
\* keeps the record it was called with.
Prompts(run, sec, h) == h.id \notin DOMAIN run /\ h.auth = "password" /\ h.id \notin sec

\* select, times times over: rebuild_list selects the row, whose signal selects the host, and
\* then selects the host itself, so a host that needs its password is asked for twice.
Select(h, run, sec, open, times) ==
  /\ selected' = h.id
  /\ command' = set_host(h.id)
  /\ targets' = IF Prompts(run, sec, h) THEN run ELSE start(run, h)
  /\ modals' = IF Prompts(run, sec, h)
               THEN open \o [i \in 1..times |-> Dialog("prompt", h)] ELSE open

\* rebuild_list keeps the selection if it still exists and takes the first host otherwise.
rebuild_list(hs, keep, run, sec, open) ==
  IF hs = <<>>
  THEN /\ selected' = NoHost
       /\ command' = set_host(NoHost)
       /\ targets' = run
       /\ modals' = open
  ELSE Select(IF keep \in Ids(hs) THEN Find(hs, keep) ELSE hs[1], run, sec, open, 2)

(***************************************************************************)
(* What a person does.                                                     *)
(***************************************************************************)

AtMain == up /\ jobs = <<>> /\ modals = <<>>
Top(kind) == up /\ jobs = <<>> /\ modals # <<>> /\ Last(modals).kind = kind
Below == Front(modals)
UnchangedElse == UNCHANGED <<up, disk, plan, unread>>

Open(kind, h) ==
  /\ modals' = <<Dialog(kind, h)>>
  /\ UNCHANGED <<next, hosts, secrets, selected, targets, command, receiving, jobs, reported>>
  /\ UnchangedElse

select ==
  /\ AtMain
  /\ \E h \in ToSet(hosts) :
       /\ h.id # selected
       /\ Select(h, targets, secrets, modals, 1)
  /\ UNCHANGED <<next, hosts, secrets, receiving, jobs, reported>>
  /\ UnchangedElse

\* The buttons of the main window.
open_add == AtMain /\ next <= MaxId /\ Open("add", Nobody)
open_edit == AtMain /\ selected # NoHost /\ Open("edit", Find(hosts, selected))
open_remove == AtMain /\ selected # NoHost /\ Open("remove", Find(hosts, selected))

\* Cancel, or the close button: nothing else happens.  Closing the sheet of a transfer leaves
\* its worker and its channel as they are.
cancel ==
  /\ \E kind \in {"add", "edit", "remove", "prompt", "receive"} : Top(kind)
  /\ modals' = Below
  /\ UNCHANGED <<next, hosts, secrets, selected, targets, command, receiving, jobs, reported>>
  /\ UnchangedElse

\* ask_for_secret's Connect: an empty password is no secret, and the host is started anyway.
prompt_connect ==
  /\ Top("prompt")
  /\ \E typed \in BOOLEAN :
       secrets' = IF typed THEN secrets \cup {Last(modals).host.id} ELSE secrets
  /\ targets' = start(targets, Last(modals).host)
  /\ modals' = Below
  /\ UNCHANGED <<next, hosts, selected, command, receiving, jobs, reported>>
  /\ UnchangedElse

\* The secret edit_host hands back: none for an agent, or when nothing was typed.
Secrets(h, typed) == IF typed /\ h.auth # "agent" THEN secrets \cup {h.id} ELSE secrets

NewRecord(id, entry) == [id |-> id, addr |-> entry.addr, auth |-> entry.auth]

add_host ==
  /\ Top("add") /\ next <= MaxId
  /\ \E entry \in Entries, typed \in BOOLEAN :
       LET h == NewRecord(next, entry)
           sec == Secrets(h, typed)
       IN /\ hosts' = Append(hosts, h)
          /\ secrets' = sec
          /\ rebuild_list(Append(hosts, h), h.id, targets, sec, Below)
  /\ next' = next + 1
  /\ jobs' = <<save>>
  /\ UNCHANGED <<receiving, reported>>
  /\ UnchangedElse

\* The slot with the edited record's id takes the record.
Edited(hs, h) == [i \in 1..Len(hs) |-> IF hs[i].id = h.id THEN h ELSE hs[i]]

edit_selected ==
  /\ Top("edit")
  /\ \E entry \in Entries, typed \in BOOLEAN :
       LET h == [Last(modals).host EXCEPT !.addr = entry.addr, !.auth = entry.auth]
           sec == Secrets(h, typed)
       IN /\ hosts' = Edited(hosts, h)
          /\ secrets' = sec
          /\ rebuild_list(Edited(hosts, h), selected, restart(targets, h), sec, Below)
  /\ jobs' = <<save>>
  /\ UNCHANGED <<next, receiving, reported>>
  /\ UnchangedElse

\* Vec::retain: what is not dropped stays, in its order.
retain(s, drop) ==
  LET upTo[n \in 0..Len(s)] ==
        IF n = 0 THEN <<>>
        ELSE IF s[n] \in drop THEN upTo[n - 1] ELSE Append(upTo[n - 1], s[n])
  IN upTo[Len(s)]

Removed(hs, id) == retain(hs, {h \in ToSet(hs) : h.id = id})
SecretsKept(sec, id) == sec
WithoutSecret(sec, id) == sec \ {id}

remove_selected ==
  /\ Top("remove")
  /\ LET id == Last(modals).host.id
         sec == WithoutSecret(secrets, id)
     IN /\ hosts' = Removed(hosts, id)
        /\ secrets' = sec
        /\ rebuild_list(Removed(hosts, id), NoHost, forget(targets, id), sec, Below)
  /\ jobs' = <<save>>
  /\ UNCHANGED <<next, receiving, reported>>
  /\ UnchangedElse

(***************************************************************************)
(* The command runner: the answer is shown when it comes, and nothing      *)
(* looks at which host the runner points at by then.                       *)
(***************************************************************************)

submit ==
  /\ AtMain /\ command.running = NoHost
  /\ command.host \in DOMAIN targets
  /\ command' = [command EXCEPT !.running = command.host]
  /\ UNCHANGED <<next, hosts, secrets, selected, targets, modals, receiving, jobs, reported>>
  /\ UnchangedElse

command_answers ==
  /\ up /\ jobs = <<>> /\ command.running # NoHost
  /\ \E ok \in BOOLEAN :
       command' = [command EXCEPT !.running = NoHost,
                                  !.output = IF ok THEN @ \cup {command.running} ELSE @]
  /\ UNCHANGED <<next, hosts, secrets, selected, targets, modals, receiving, jobs, reported>>
  /\ UnchangedElse

(***************************************************************************)
(* Receiving an inventory (pairing.rs, sg-sync merge.rs).                  *)
(***************************************************************************)

\* merge: a record with an identity already there is not taken, whatever else it says, and a
\* pin is taken only for an address that has none.
Already(hs, h) == \E g \in ToSet(hs) : g.addr = h.addr
merge_hosts(mine, theirs) ==
  LET out[n \in 0..Len(theirs)] ==
        IF n = 0 THEN mine
        ELSE IF Already(out[n - 1], theirs[n]) THEN out[n - 1] ELSE Append(out[n - 1], theirs[n])
  IN out[Len(theirs)]
TheirPinsWin(mine, theirs) == [a \in Addrs |-> IF theirs[a] # NoKey THEN theirs[a] ELSE mine[a]]
merge_pins(mine, theirs) == [a \in Addrs |-> IF mine[a] # NoKey THEN mine[a] ELSE theirs[a]]

\* apply saves the records that are not already here, each under an id of its own.
Applied(hs, merged) ==
  LET out[n \in 0..Len(merged)] ==
        IF n = 0 THEN hs
        ELSE IF Already(out[n - 1], merged[n]) THEN out[n - 1]
        ELSE Append(out[n - 1], NewRecord(next + Len(out[n - 1]) - Len(hs), merged[n]))
  IN out[Len(merged)]

\* The sheet opens and a worker waits for the other device.
receive ==
  /\ AtMain /\ receiving = "none"
  /\ receiving' = "offered"
  /\ modals' = <<Dialog("receive", Nobody)>>
  /\ UNCHANGED <<next, hosts, secrets, selected, targets, command, jobs, reported>>
  /\ UnchangedElse

\* Somebody connects: the two codes are to be compared, on top of whatever is open.
code_shown ==
  /\ up /\ jobs = <<>> /\ receiving = "offered"
  /\ receiving' = "asked"
  /\ modals' = Append(modals, Dialog("compare", Nobody))
  /\ UNCHANGED <<next, hosts, secrets, selected, targets, command, jobs, reported>>
  /\ UnchangedElse

Sheetless(open) == retain(open, {d \in ToSet(open) : d.kind = "receive"})

compare_codes ==
  /\ Top("compare")
  /\ \/ receiving' = "confirmed" /\ modals' = Below
     \/ receiving' = "none" /\ modals' = Sheetless(Below)
  /\ UNCHANGED <<next, hosts, secrets, selected, targets, command, jobs, reported>>
  /\ UnchangedElse

\* The offer expires, or the transfer fails.
receive_fails ==
  /\ up /\ jobs = <<>> /\ receiving \in {"offered", "confirmed"}
  /\ receiving' = "none"
  /\ modals' = Sheetless(modals)
  /\ UNCHANGED <<next, hosts, secrets, selected, targets, command, jobs, reported>>
  /\ UnchangedElse

\* What inventory takes for the pins of this device: the file's, or none at all when the file
\* cannot be read or is not text.
read_known_hosts == {pins, NoPins}

\* The inventory arrives: apply merges and saves it and writes the pins, on_change saves again
\* and rebuilds the list.
apply ==
  /\ up /\ jobs = <<>> /\ receiving = "confirmed"
  /\ \E payload \in Incoming, read \in read_known_hosts :
       LET now == Applied(hosts, merge_hosts(hosts, payload.hosts)) IN
       /\ next + Len(now) - Len(hosts) <= MaxId + 1
       /\ hosts' = now
       /\ next' = next + Len(now) - Len(hosts)
       /\ plan' = [held |-> pins, read |-> read, result |-> merge_pins(read, payload.pins)]
       /\ rebuild_list(now, selected, targets, secrets, Sheetless(modals))
  /\ receiving' = "none"
  /\ jobs' = <<save, write_known_hosts, save>>
  /\ UNCHANGED <<up, disk, secrets, reported, unread>>

\* A poller of the core meets a host for the first time and records its key.
learn ==
  /\ up
  /\ \E i \in DOMAIN targets : \E key \in Presented[targets[i].addr] :
       /\ pins[targets[i].addr] = NoKey
       /\ pins' = [pins EXCEPT ![targets[i].addr] = key]
  /\ UNCHANGED <<up, file, tmp, next, memory, jobs, plan, reported, unread>>

(***************************************************************************)
(* The process and its surroundings.                                       *)
(***************************************************************************)

\* Window::new: the list is what load returns, or empty with a report.
launch ==
  /\ ~up /\ up' = TRUE
  /\ LET hs == IF file.kind = "damaged" THEN <<>> ELSE load IN
     /\ hosts' = hs
     /\ rebuild_list(hs, NoHost, <<>>, {}, <<>>)
  /\ reported' = (file.kind = "damaged")
  /\ unread' = IF file.kind = "damaged" THEN Ids(file.hosts) ELSE {}
  /\ secrets' = {} /\ receiving' = "none"
  /\ UNCHANGED <<disk, next, jobs, plan>>

Down ==
  /\ up' = FALSE
  /\ hosts' = <<>> /\ secrets' = {} /\ selected' = NoHost /\ targets' = <<>>
  /\ modals' = <<>> /\ receiving' = "none" /\ jobs' = <<>>
  /\ command' = [host |-> NoHost, output |-> {}, running |-> NoHost]
  /\ plan' = NoPlan
  /\ reported' = FALSE /\ unread' = {}

\* The process ends, at any point: the window is closed, or it is killed.
crash == up /\ Down /\ UNCHANGED <<disk, next>>

\* Something outside the application spoils the file, and a person mends it.
file_damaged ==
  /\ ~up /\ file.kind = "ok" /\ file.hosts # <<>>
  /\ file' = [file EXCEPT !.kind = "damaged"]
  /\ UNCHANGED <<up, tmp, pins, next, memory, jobs, plan, reported, unread>>

file_repaired ==
  /\ file.kind = "damaged"
  /\ file' = [file EXCEPT !.kind = "ok"]
  /\ UNCHANGED <<up, tmp, pins, next, memory, jobs, plan, reported, unread>>

Init ==
  /\ up = FALSE
  /\ file = [kind |-> "missing", hosts |-> <<>>] /\ tmp = "none" /\ pins = NoPins
  /\ next = 1
  /\ hosts = <<>> /\ secrets = {} /\ selected = NoHost /\ targets = <<>>
  /\ modals = <<>> /\ receiving = "none" /\ jobs = <<>>
  /\ command = [host |-> NoHost, output |-> {}, running |-> NoHost]
  /\ plan = NoPlan
  /\ reported = FALSE /\ unread = {}

Person ==
  \/ select \/ open_add \/ open_edit \/ open_remove \/ cancel \/ prompt_connect
  \/ add_host \/ edit_selected \/ remove_selected \/ submit \/ receive \/ compare_codes
Workers == command_answers \/ code_shown \/ receive_fails \/ apply \/ learn
Surroundings == launch \/ crash \/ file_damaged \/ file_repaired
Next == DiskStep \/ Person \/ Workers \/ Surroundings
Spec == Init /\ [][Next]_vars
-----------------------------------------------------------------------------
\* store::save's promise ("a crash or a full disk midway through must not leave a half-written
\* inventory where a complete one used to be"), with its check that a file that did not load is
\* not saved over: while the application runs, the inventory goes from one complete list to the
\* next, and an unreadable one changes only by being repaired.
InventoryIsWhole ==
  [][file' # file /\ up =>
       \/ file' = [kind |-> "ok", hosts |-> hosts] /\ file.kind # "damaged"
       \/ file.kind = "damaged" /\ file' = [file EXCEPT !.kind = "ok"]]_vars

\* Whatever a handler or a transfer changed in the list is in the file when the interface comes
\* back, or the person was told: closing the application then loses nothing silently.
SavedOrReported == up /\ jobs = <<>> /\ ~reported => load = hosts

\* A server that was removed is not connected to, holds no password and is not what the
\* command runner points at, whatever dialogs and transfers were open around the removal.
NoTraceOfRemoved ==
  up => /\ DOMAIN targets \cup secrets \subseteq Ids(hosts)
        /\ {selected, command.host} \subseteq Ids(hosts) \cup {NoHost}
        /\ command.host = selected

\* A running target is built from the record as it is now: a prompt that kept an older copy, or
\* an edit, never leaves a connection to the address the list no longer shows.
TargetsMatch == up => \A i \in DOMAIN targets : targets[i] = Find(hosts, i)

\* No record that was here changes or moves when an inventory arrives, and no identity already
\* listed comes in again ("A host already here keeps the settings chosen on *this* device").
KeepsRecords ==
  Len(jobs') = 3 /\ jobs = <<>> =>
    /\ IsPrefix(hosts, hosts')
    /\ \A i \in (Len(hosts) + 1)..Len(hosts') :
         \A j \in 1..Len(hosts') : hosts'[j].addr = hosts'[i].addr => i = j

\* In this step the write of the pins comes to its end, having succeeded or not.
PinsWritten ==
  up' /\ jobs # <<>> /\ jobs[1][1] \in {"truncate", "write_pins"} /\ Len(jobs') < Len(jobs)

\* When the write of the pins is over, every key the transfer read from the file is in it as it
\* was, whatever the other device trusts and whatever pollers recorded meanwhile; or writing
\* failed, nothing more was written, and the person was told.  It says nothing of a process that
\* dies in between, which leaves the file empty, nor of keys that were not read.
KeepsKeys ==
  PinsWritten => \/ \A a \in Addrs : plan.read[a] # NoKey => pins'[a] = plan.read[a]
                 \/ UNCHANGED pins /\ reported'

\* A transfer leaves the records of this device as they were, and the keys it could read.
TransferKeepsWhatItFound == [][KeepsRecords /\ KeepsKeys]_vars

\* pairing.rs: "A conflicting pin is never applied."  What a transfer writes has no other key for
\* an address than the file held when the transfer began.
ConflictNeverApplied ==
  [][AtStep("write_pins") /\ pins' # pins =>
       \A a \in Addrs : plan.held[a] # NoKey => pins'[a] \in {NoKey, plan.held[a]}]_vars

\* command.rs: "Output is not carried across a change of host".
OutputIsOwn == command.output \subseteq {command.host}

\* store.rs: "Never turn a failed restore into permanent loss when the next Add or pairing
\* saves."  A file that was unreadable at launch and has been repaired holds what it held.
RestoreKept == file.kind = "ok" => unread \subseteq Ids(file.hosts)
=============================================================================
