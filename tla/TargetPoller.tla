---------------------------- MODULE TargetPoller ----------------------------
(***************************************************************************)
(* One monitored host of the ServerGlass object (crates/sg-ffi/src/lib.rs):*)
(* the Target record shared by the UI threads that call start, stop,       *)
(* remove_target and run_command, and by the background tasks that run     *)
(* poll_loop for it.  The host at the other end of the session is the      *)
(* environment: connecting, refreshing and running a command may succeed,  *)
(* fail in a way a retry can fix, or fail for good.                        *)
(*                                                                         *)
(* A step is one stretch of code between two points where another thread   *)
(* can get in: an await, or the acquisition of a lock.  A background task  *)
(* is named by the generation it was given at start, which no other task   *)
(* ever gets.                                                              *)
(***************************************************************************)
EXTENDS Naturals, Sequences, FiniteSets

CONSTANTS
  Controllers,    \* threads that call start, stop and remove_target
  Commands,       \* calls of run_command, each with a thread of its own
  NoCommand,      \* no command is running
  MaxGeneration,  \* bound on the number of starts and stops
  MaxAttempt      \* where the count of failed attempts saturates

ASSUME ConstantsAssumption ==
  /\ NoCommand \notin Commands
  /\ MaxGeneration \in Nat \ {0}
  /\ MaxAttempt \in Nat \ {0}

VARIABLES
  registered,      \* whether the targets map holds the target
  op,              \* what each controller thread is doing
  generation,      \* Target.generation
  slot,            \* Target.task: the run it holds, or NoRun
  state, retry,    \* snapshot.state, and the attempt a Reconnecting shows
  pc,              \* where each run of poll_loop is
  aborted,         \* runs whose handle has been aborted
  doomed,          \* aborted runs that have come to an await that blocks
  attempt,         \* poll_loop's count of consecutive failures
  fatal,           \* runtime.state() is Failed { recoverable: false }
  inbox,           \* each run's queue of commands
  current,         \* the command a run is executing
  call,            \* how far each call of run_command got
  against,         \* whether the session a command was typed against is up
  ran,             \* commands handed to the host
  withdrawn        \* commands whose caller gave up while they were queued

ui     == <<registered, op>>
shared == <<generation, slot>>
shown  == <<state, retry>>
task   == <<pc, doomed, attempt, fatal, current>>
calls  == <<call, against, ran, withdrawn>>
vars   == <<ui, shared, shown, task, aborted, inbox, calls>>

Runs  == 1..MaxGeneration
NoRun == 0

ConnectionState ==
  {"Idle", "Connecting", "Online", "Reconnecting", "FailedRecoverable", "FailedFatal"}

(* Threads inside start or stop that hold Target.task.                     *)
Holding  == {"starting", "stopping", "removing"}
Ops      == {"idle", "start", "stop", "remove", "forget"} \union Holding
TaskLockFree == \A c \in Controllers : op[c] \notin Holding

(* The awaits of poll_loop, where an abort takes effect, and the rest.     *)
(* Those that wait for the host or for a timer never complete at once.     *)
Awaiting == {"begin", "connect", "tick", "gap", "command", "answer", "sleep"}
Blocking == {"connect", "tick", "answer", "sleep"}
Points   == Awaiting \union {"unborn", "failing", "lost", "returning", "ended"}

Outcomes == {"ok", "failed", "notrun", "dropped", "timedout", "refused"}

TypeOK ==
  /\ registered \in {"unknown", "known", "removed"}
  /\ op \in [Controllers -> Ops]
  /\ generation \in 0..MaxGeneration
  /\ slot \in Runs \union {NoRun}
  /\ state \in ConnectionState
  /\ retry \in 0..MaxAttempt
  /\ pc \in [Runs -> Points]
  /\ aborted \in SUBSET Runs
  /\ doomed \in SUBSET aborted
  /\ attempt \in [Runs -> 0..MaxAttempt]
  /\ fatal \in [Runs -> BOOLEAN]
  /\ inbox \in [Runs -> Seq(Commands)]
  /\ current \in [Runs -> Commands \union {NoCommand}]
  /\ call \in [Commands -> {"new", "looking", "waiting"} \union Outcomes]
  /\ against \in [Commands -> {"none", "live", "gone"}]
  /\ ran \in SUBSET Commands
  /\ withdrawn \in SUBSET Commands

Init ==
  /\ registered = "unknown"
  /\ op = [c \in Controllers |-> "idle"]
  /\ generation = 0
  /\ slot = NoRun
  /\ state = "Idle"
  /\ retry = 0
  /\ pc = [r \in Runs |-> "unborn"]
  /\ aborted = {}
  /\ doomed = {}
  /\ attempt = [r \in Runs |-> 0]
  /\ fatal = [r \in Runs |-> FALSE]
  /\ inbox = [r \in Runs |-> <<>>]
  /\ current = [r \in Runs |-> NoCommand]
  /\ call = [k \in Commands |-> "new"]
  /\ against = [k \in Commands |-> "none"]
  /\ ran = {}
  /\ withdrawn = {}

-----------------------------------------------------------------------------
(* Reading the state.                                                      *)

(* The session of run r is up: poll_loop is inside its refresh loop, and   *)
(* has not yet published that the session is gone.                         *)
SessionUp(r) == pc[r] \in {"tick", "gap", "command", "answer", "failing"}

(* Target.task holds a handle that has not finished.                       *)
Running == slot # NoRun /\ pc[slot] # "ended"

Elems(s) == {s[i] : i \in 1..Len(s)}
Queued(r) == Elems(inbox[r])

(* The commands run r still owes an answer.                                *)
Owed(r) == (Queued(r) \union {current[r]}) \ {NoCommand}

-----------------------------------------------------------------------------
(* Pieces the operations are made of.                                      *)

(* A mutation: publish without comparing generations.                      *)
CurrentUnchecked(r) == r \in Runs

(* The comparison every write of a poll task makes under the write lock.   *)
Current(r) == generation = r

(* A mutation: a count that is never put back.                             *)
AttemptKept(r) == attempt' = attempt

ResetAttempt(r) == attempt' = [attempt EXCEPT ![r] = 0]

(* A mutation: a count that overflows.                                     *)
CountAttemptUnchecked(r) == attempt' = [attempt EXCEPT ![r] = @ + 1]

(* attempt.saturating_add(1)                                               *)
CountAttempt(r) ==
  attempt' = [attempt EXCEPT ![r] = IF @ < MaxAttempt THEN @ + 1 ELSE @]

(* An aborted run goes on until an await blocks: a refresh that is already *)
(* building its view publishes it, a job that is ready is taken.           *)
At(r, points) == pc[r] \in points /\ r \notin doomed

MoveTo(r, point) ==
  /\ pc' = [pc EXCEPT ![r] = point]
  /\ doomed' = IF r \in aborted /\ point \in Blocking
               THEN doomed \union {r} ELSE doomed

(* poll_loop returns or is dropped, and its locals with it.                *)
Finish(r) ==
  /\ pc' = [pc EXCEPT ![r] = "ended"]
  /\ doomed' = doomed \ {r}
  /\ attempt' = [attempt EXCEPT ![r] = 0]
  /\ fatal' = [fatal EXCEPT ![r] = FALSE]
  /\ current' = [current EXCEPT ![r] = NoCommand]

(* TargetSnapshot::set_state leaves the gauges alone.                      *)
SetState(s, k) == state' = s /\ retry' = k

(* The closure publish of poll_loop.                                       *)
publish(r, s, k) ==
  IF Current(r) THEN SetState(s, k) ELSE UNCHANGED <<state, retry>>

(* Replies reach a caller only while it waits.                             *)
Reply(K, outcome) ==
  call' = [k \in Commands |->
             IF k \in K /\ call[k] = "waiting" THEN outcome ELSE call[k]]

(* The session of run r goes: what was typed against it is now late.       *)
LoseSession(r) ==
  against' = [k \in Commands |-> IF k \in Owed(r) THEN "gone" ELSE against[k]]

-----------------------------------------------------------------------------
(* The registry and the controller threads.                                *)

add_target ==
  /\ registered = "unknown"
  /\ registered' = "known"
  /\ UNCHANGED <<op, shared, shown, task, aborted, inbox, calls>>

(* Every operation first clones the Arc out of the targets map.            *)
target(c, o) ==
  /\ registered = "known"
  /\ op[c] = "idle"
  /\ op' = [op EXCEPT ![c] = o]
  /\ UNCHANGED <<registered, shared, shown, task, aborted, inbox, calls>>

(* start finds a run that has not finished.                                *)
start_running(c) ==
  /\ op[c] = "start" /\ TaskLockFree
  /\ Running
  /\ op' = [op EXCEPT ![c] = "idle"]
  /\ UNCHANGED <<registered, shared, shown, task, aborted, inbox, calls>>

(* A mutation: start does not ask whether a run is still going.            *)
StartableAlways == TRUE

(* start may spawn: the slot is empty or holds a finished run.             *)
Startable == ~Running

(* start takes a generation and shows Connecting, under the write lock.    *)
start_claim(c) ==
  /\ op[c] = "start" /\ TaskLockFree
  /\ Startable
  /\ generation < MaxGeneration
  /\ generation' = generation + 1
  /\ SetState("Connecting", 0)
  /\ op' = [op EXCEPT ![c] = "starting"]
  /\ UNCHANGED <<registered, slot, task, aborted, inbox, calls>>

(* start spawns poll_loop with an inbox of its own and fills the slot.     *)
start_spawn(c) ==
  /\ op[c] = "starting"
  /\ pc' = [pc EXCEPT ![generation] = "begin"]
  /\ slot' = generation
  /\ op' = [op EXCEPT ![c] = "idle"]
  /\ UNCHANGED <<registered, generation, shown, doomed, attempt, fatal,
                 current, aborted, inbox, calls>>

(* A mutation: dropping a JoinHandle only detaches its task.               *)
Detach == aborted' = aborted

(* handle.abort() on the run in the slot.                                  *)
Abort == aborted' = aborted \union ({slot} \ {NoRun})

(* stop empties the slot and aborts; remove_target begins with a stop.     *)
stop_abort(c) ==
  /\ op[c] \in {"stop", "remove"} /\ TaskLockFree
  /\ generation < MaxGeneration
  /\ Abort
  /\ slot' = NoRun
  /\ op' = [op EXCEPT ![c] = IF @ = "stop" THEN "stopping" ELSE "removing"]
  /\ UNCHANGED <<registered, generation, shown, task, inbox, calls>>

(* stop retires the generation and shows Idle, then releases the slot.     *)
stop_publish(c) ==
  /\ op[c] \in {"stopping", "removing"}
  /\ generation' = generation + 1
  /\ SetState("Idle", 0)
  /\ op' = [op EXCEPT ![c] = IF @ = "stopping" THEN "idle" ELSE "forget"]
  /\ UNCHANGED <<registered, slot, task, aborted, inbox, calls>>

(* remove_target takes the target out of the map.                          *)
remove_forget(c) ==
  /\ op[c] = "forget"
  /\ registered' = "removed"
  /\ op' = [op EXCEPT ![c] = "idle"]
  /\ UNCHANGED <<shared, shown, task, aborted, inbox, calls>>

-----------------------------------------------------------------------------
(* The threads that call run_command.                                      *)

run_command_lookup(k) ==
  /\ registered = "known"
  /\ call[k] = "new"
  /\ call' = [call EXCEPT ![k] = "looking"]
  /\ UNCHANGED <<ui, shared, shown, task, aborted, inbox, against, ran, withdrawn>>

(* A mutation: any run will do, online or not.                             *)
AcceptsOffline == Running

(* What run_command asks for, holding the task lock and the read lock.     *)
Accepts == Running /\ state = "Online"

run_command_send(k) ==
  /\ call[k] = "looking" /\ TaskLockFree
  /\ Accepts
  /\ inbox' = [inbox EXCEPT ![slot] = Append(@, k)]
  /\ call' = [call EXCEPT ![k] = "waiting"]
  /\ against' = [against EXCEPT ![k] = IF SessionUp(slot) THEN "live" ELSE "gone"]
  /\ UNCHANGED <<ui, shared, shown, task, aborted, ran, withdrawn>>

run_command_refuse(k) ==
  /\ call[k] = "looking" /\ TaskLockFree
  /\ ~Accepts
  /\ call' = [call EXCEPT ![k] = "refused"]
  /\ UNCHANGED <<ui, shared, shown, task, aborted, inbox, against, ran, withdrawn>>

(* Sixty seconds passed; the receiving end of the reply is dropped.        *)
run_command_timeout(k) ==
  /\ call[k] = "waiting"
  /\ call' = [call EXCEPT ![k] = "timedout"]
  /\ withdrawn' = IF \E r \in Runs : k \in Queued(r)
                  THEN withdrawn \union {k} ELSE withdrawn
  /\ UNCHANGED <<ui, shared, shown, task, aborted, inbox, against, ran>>

-----------------------------------------------------------------------------
(* poll_loop.                                                              *)

(* The head of the outer loop: a new runtime sets out to connect.          *)
connect(r) ==
  /\ At(r, {"begin", "sleep"})
  /\ publish(r, "Connecting", 0)
  /\ MoveTo(r, "connect")
  /\ UNCHANGED <<ui, shared, attempt, fatal, current, aborted, inbox, calls>>

(* A mutation: any failure to connect ends the run.                        *)
connect_give_up(r) ==
  /\ At(r, {"connect"})
  /\ publish(r, "FailedRecoverable", 0)
  /\ Finish(r)
  /\ UNCHANGED <<ui, shared, aborted, inbox, calls>>

(* A transient failure to connect: wait, longer each time.                 *)
connect_retry(r) ==
  /\ At(r, {"connect"})
  /\ publish(r, "FailedRecoverable", 0)
  /\ CountAttempt(r)
  /\ MoveTo(r, "sleep")
  /\ UNCHANGED <<ui, shared, fatal, current, aborted, inbox, calls>>

(* A failure no retry can fix is published ...                             *)
connect_fatal(r) ==
  /\ At(r, {"connect"})
  /\ publish(r, "FailedFatal", 0)
  /\ MoveTo(r, "returning")
  /\ UNCHANGED <<ui, shared, attempt, fatal, current, aborted, inbox, calls>>

(* ... and ends the run, and its inbox with it.                            *)
poll_loop_return(r) ==
  /\ At(r, {"returning"})
  /\ Finish(r)
  /\ Reply(Queued(r), "dropped")
  /\ inbox' = [inbox EXCEPT ![r] = <<>>]
  /\ UNCHANGED <<ui, shared, shown, aborted, against, ran, withdrawn>>

connected(r) ==
  /\ At(r, {"connect"})
  /\ ResetAttempt(r)
  /\ MoveTo(r, "tick")
  /\ UNCHANGED <<ui, shared, shown, fatal, current, aborted, inbox, calls>>

(* A refresh announces the host; Readings models what it shows of it.      *)
tick_ok(r) ==
  /\ At(r, {"tick"})
  /\ publish(r, "Online", 0)
  /\ MoveTo(r, "gap")
  /\ UNCHANGED <<ui, shared, attempt, fatal, current, aborted, inbox, calls>>

(* TargetRuntime::on_disconnect has left the runtime Reconnecting, or      *)
(* Failed for good, and poll_loop publishes that.  The runtime was made    *)
(* for this session, so its own count of attempts is at 1.                 *)
publish_loss(r, recoverable) ==
  /\ publish(r, IF recoverable THEN "Reconnecting" ELSE "FailedFatal",
                IF recoverable THEN 1 ELSE 0)
  /\ MoveTo(r, "lost")
  /\ LoseSession(r)

tick_failed(r, recoverable) ==
  /\ At(r, {"tick"})
  /\ fatal' = [fatal EXCEPT ![r] = ~recoverable]
  /\ publish_loss(r, recoverable)
  /\ UNCHANGED <<ui, shared, attempt, current, aborted, inbox, call, ran, withdrawn>>

(* The interval is over, or the sending end is gone and the inbox empty.   *)
next_refresh(r) ==
  /\ At(r, {"gap"})
  /\ MoveTo(r, "tick")
  /\ UNCHANGED <<ui, shared, shown, attempt, fatal, current, aborted, inbox, calls>>

(* A mutation: run the job without asking whether anybody waits for it.    *)
WantedAlways(k) == k \in Commands

(* ~reply.is_closed()                                                      *)
Wanted(k) == call[k] = "waiting"

take_job(r) ==
  /\ At(r, {"gap"})
  /\ inbox[r] # <<>>
  /\ inbox' = [inbox EXCEPT ![r] = Tail(@)]
  /\ IF Wanted(Head(inbox[r]))
     THEN /\ current' = [current EXCEPT ![r] = Head(inbox[r])]
          /\ MoveTo(r, "command")
     ELSE UNCHANGED <<current, pc, doomed>>
  /\ UNCHANGED <<ui, shared, shown, attempt, fatal, aborted, calls>>

(* The command is written to the session.                                  *)
command_write(r) ==
  /\ At(r, {"command"})
  /\ ran' = ran \union {current[r]}
  /\ MoveTo(r, "answer")
  /\ UNCHANGED <<ui, shared, shown, attempt, fatal, current, aborted,
                 inbox, call, against, withdrawn>>

command_ok(r) ==
  /\ At(r, {"answer"})
  /\ Reply({current[r]}, "ok")
  /\ current' = [current EXCEPT ![r] = NoCommand]
  /\ MoveTo(r, "gap")
  /\ UNCHANGED <<ui, shared, shown, attempt, fatal, aborted, inbox,
                 against, ran, withdrawn>>

(* A mutation: the failure is worded as if the host never had the command. *)
command_disowned(r, recoverable) ==
  /\ At(r, {"command", "answer"})
  /\ Reply({current[r]}, "notrun")
  /\ current' = [current EXCEPT ![r] = NoCommand]
  /\ fatal' = [fatal EXCEPT ![r] = ~recoverable]
  /\ MoveTo(r, "failing")
  /\ UNCHANGED <<ui, shared, shown, attempt, aborted, inbox, against, ran, withdrawn>>

(* The batch failed, before or after the host had the command.  The caller *)
(* knows before the loss is published.                                     *)
command_failed(r, recoverable) ==
  /\ At(r, {"command", "answer"})
  /\ Reply({current[r]}, "failed")
  /\ current' = [current EXCEPT ![r] = NoCommand]
  /\ fatal' = [fatal EXCEPT ![r] = ~recoverable]
  /\ MoveTo(r, "failing")
  /\ UNCHANGED <<ui, shared, shown, attempt, aborted, inbox, against, ran, withdrawn>>

command_lost(r) ==
  /\ At(r, {"failing"})
  /\ publish_loss(r, ~fatal[r])
  /\ UNCHANGED <<ui, shared, attempt, fatal, current, aborted, inbox,
                 call, ran, withdrawn>>

(* A mutation: a lost session leaves the inbox as it is.                   *)
DrainedAlways(r) == r \in Runs

(* try_recv found the inbox empty.                                         *)
Drained(r) == inbox[r] = <<>>

(* What was queued when the session went is refused, one job at a time.    *)
drain(r) ==
  /\ At(r, {"lost"})
  /\ ~Drained(r)
  /\ Reply({Head(inbox[r])}, "notrun")
  /\ inbox' = [inbox EXCEPT ![r] = Tail(@)]
  /\ UNCHANGED <<ui, shared, shown, task, aborted, against, ran, withdrawn>>

(* ... and then the run waits for its next attempt, or returns.            *)
drained(r) ==
  /\ At(r, {"lost"})
  /\ Drained(r)
  /\ IF fatal[r]
     THEN Finish(r)
     ELSE /\ MoveTo(r, "sleep")
          /\ CountAttempt(r)
          /\ UNCHANGED <<fatal, current>>
  /\ UNCHANGED <<ui, shared, shown, aborted, inbox, calls>>

(* abort() takes effect at an await: the future is dropped, and with it    *)
(* the session, the inbox and every reply it still owed.                   *)
abort_lands(r) ==
  /\ r \in aborted
  /\ pc[r] \in Awaiting
  /\ Finish(r)
  /\ Reply(Owed(r), "dropped")
  /\ LoseSession(r)
  /\ inbox' = [inbox EXCEPT ![r] = <<>>]
  /\ UNCHANGED <<ui, shared, state, retry, aborted, ran, withdrawn>>

-----------------------------------------------------------------------------
Controller(c) ==
  \/ \E o \in {"start", "stop", "remove"} : target(c, o)
  \/ start_running(c)
  \/ start_claim(c)
  \/ start_spawn(c)
  \/ stop_abort(c)
  \/ stop_publish(c)
  \/ remove_forget(c)

Caller(k) ==
  \/ run_command_lookup(k)
  \/ run_command_send(k)
  \/ run_command_refuse(k)
  \/ run_command_timeout(k)

poll_loop(r) ==
  \/ connect(r)
  \/ connect_retry(r)
  \/ connect_fatal(r)
  \/ poll_loop_return(r)
  \/ connected(r)
  \/ tick_ok(r)
  \/ \E recoverable \in BOOLEAN : tick_failed(r, recoverable)
  \/ next_refresh(r)
  \/ take_job(r)
  \/ command_write(r)
  \/ command_ok(r)
  \/ \E recoverable \in BOOLEAN : command_failed(r, recoverable)
  \/ command_lost(r)
  \/ drain(r)
  \/ drained(r)
  \/ abort_lands(r)

Next ==
  \/ add_target
  \/ \E c \in Controllers : Controller(c)
  \/ \E k \in Commands : Caller(k)
  \/ \E r \in Runs : poll_loop(r)

Spec == Init /\ [][Next]_vars

(***************************************************************************)
(* Fairness.  The Tokio runtime polls every task that can go on, and each  *)
(* of poll_loop's awaits ends: connecting and batches have timeouts, the   *)
(* sleeps are timers.  select! picks at random among its ready branches,   *)
(* so a job that keeps being ready is taken in the end.  Nothing is asked  *)
(* of the controllers or of the sixty second timeout.                      *)
(***************************************************************************)
Fairness ==
  \A r \in Runs : WF_vars(poll_loop(r)) /\ SF_vars(take_job(r))

(* A host that keeps being reachable: connecting and refreshing succeed in *)
(* the end if they are tried again and again.                              *)
HostFairness ==
  \A r \in Runs : SF_vars(connected(r)) /\ SF_vars(tick_ok(r))

FairSpec == Spec /\ Fairness

-----------------------------------------------------------------------------
(* A run that has been spawned, has not returned and was not told to stop. *)
Polling(r) == pc[r] \notin {"unborn", "ended"} /\ r \notin aborted

(* stop has emptied the slot and not yet retired the generation.           *)
Stopping == \E c \in Controllers : op[c] \in {"stopping", "removing"}

(* However starts and stops of several threads interleave, the host has at *)
(* most one poller that is not on its way out, and it is the one in the    *)
(* slot, where stop finds it.                                              *)
OnePoller == \A r \in Runs : Polling(r) => slot = r

(* A host is shown Online only while the session of the current run is up: *)
(* no late write of an aborted run, no failure without its publication.    *)
OnlineHasSession ==
  state = "Online" /\ ~Stopping => generation \in Runs /\ SessionUp(generation)

(* run_command, "Refuse rather than queue": when a run sets out for a new  *)
(* session there is nothing in its inbox, although commands are sent from  *)
(* other threads right up to the moment the loss is published.             *)
NothingCarriedOver ==
  \A r \in Runs : ~SessionUp(r) /\ pc[r] # "lost" => inbox[r] = <<>>

(* A command is only ever handed to the session it was typed against.      *)
NoLateCommand ==
  [][\A k \in ran' \ ran : against[k] = "live"]_vars

(* The answers are true: "was not run" and "before the command could run"  *)
(* are said only of commands the host never had, and a result only of one  *)
(* that it had.                                                            *)
HonestAnswers ==
  \A k \in Commands : /\ call[k] \in {"refused", "notrun"} => k \notin ran
                      /\ call[k] = "ok" => k \in ran

(* A caller that gave up while its command was queued can rely on it: the  *)
(* command is never run afterwards.                                        *)
WithdrawnNeverRuns == \A k \in withdrawn : k \notin ran

(* After stop the snapshot stays Idle until somebody starts the target     *)
(* again, although the aborted run may still be finishing a refresh.       *)
StoppedStaysIdle ==
  [][state = "Idle" /\ state' # "Idle" => generation' # generation]_vars

(* The attempt on screen is the one whose wait poll_loop is serving.       *)
ShownRetryIsServed ==
  generation \in Runs /\ state = "Reconnecting" /\ pc[generation] = "sleep"
    => attempt[generation] = retry

(* Every accepted command is answered or dropped, without the help of the  *)
(* sixty second timeout.                                                   *)
EveryCallReturns == \A k \in Commands : call[k] = "waiting" ~> call[k] \in Outcomes

(* Every stop takes effect: a run that is no longer in the slot ends, and  *)
(* its session with it.                                                    *)
StopTakesEffect ==
  \A r \in Runs : pc[r] \notin {"unborn", "ended"} /\ slot # r ~> pc[r] = "ended"

(* Retrying never gives up: with a host that keeps being reachable a run   *)
(* comes online, unless it is stopped or fails for good.                   *)
ComesOnline ==
  HostFairness =>
    \A r \in Runs : Polling(r) ~> \/ r \in aborted
                                  \/ generation = r /\ state \in {"Online", "FailedFatal"}

(* What the caller of run_command can tell of its call.                    *)
Answer == [k \in Commands |->
             CASE call[k] \in {"new", "looking"} -> "pending"
               [] call[k] = "waiting"           -> "accepted"
               [] OTHER                         -> call[k]]

Contract == INSTANCE CommandContract WITH answer <- Answer

(* However the locks, the queue, the refreshes, the losses of the session  *)
(* and the aborts interleave, run_command keeps the contract.              *)
KeepsContract == Contract!Spec

(* removing_a_target_stops_it_and_forgets_it: once the target is gone from *)
(* the map and every call has returned, nobody polls the host.             *)
RemovedIsNotPolled ==
  registered = "removed" /\ (\A c \in Controllers : op[c] = "idle")
    => \A r \in Runs : ~Polling(r)
=============================================================================
