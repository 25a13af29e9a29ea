------------------------- MODULE TargetPollerProofs -------------------------
(***************************************************************************)
(* Proofs about TargetPoller, for any number of threads, commands, starts  *)
(* and stops: first its own invariants, then that what it does with        *)
(* commands keeps the contract of run_command stated in CommandContract.   *)
(***************************************************************************)
EXTENDS TargetPoller, TLAPS

(* At most one thread holds Target.task.                                   *)
TaskMutex ==
  \A c, d \in Controllers : op[c] \in Holding /\ op[d] \in Holding => c = d

(* Between taking a generation and filling the slot, start shows           *)
(* Connecting and nobody polls in its name.                                *)
Spawning ==
  \A c \in Controllers : op[c] = "starting" =>
    /\ generation \in Runs
    /\ pc[generation] = "unborn"
    /\ state = "Connecting"
    /\ ~Running

(* Between emptying the slot and retiring the generation, stop leaves room *)
(* for one more generation.                                                *)
Halting ==
  \A c \in Controllers : op[c] \in {"stopping", "removing"} =>
    slot = NoRun /\ generation < MaxGeneration

(* What the slot holds was spawned, was not aborted, and is the current    *)
(* run unless it has ended.                                                *)
Slotted ==
  slot # NoRun =>
    /\ slot \notin aborted
    /\ pc[slot] # "unborn"
    /\ slot = generation \/ pc[slot] = "ended"

(* Generations not yet given out have no run.                              *)
Unborn ==
  \A r \in Runs : /\ r > generation => pc[r] = "unborn"
                  /\ pc[r] = "unborn" => r \notin aborted

(* An aborted run is current only until stop retires its generation.       *)
Retired == \A r \in aborted : r = generation => Stopping

(* Idle is shown only between a stop and the next start.                   *)
IdleUnowned == state = "Idle" /\ generation \in Runs => pc[generation] = "unborn"

(* A run has a command in hand exactly while it executes one.              *)
Busy ==
  \A r \in Runs : pc[r] \in {"command", "answer"} <=> current[r] # NoCommand

Ownership ==
  /\ TaskMutex
  /\ Spawning
  /\ Halting
  /\ Slotted
  /\ Unborn
  /\ Retired
  /\ IdleUnowned
  /\ Busy
  /\ OnePoller
  /\ OnlineHasSession
  /\ NothingCarriedOver

(* The count of failures is that of the session shown as lost.             *)
Counted ==
  /\ \A r \in Runs : SessionUp(r) \/ pc[r] = "lost" => attempt[r] = 0
  /\ state = "Reconnecting" /\ generation \in Runs =>
       /\ retry = 1
       /\ pc[generation] \in {"lost", "sleep", "ended"}
       /\ pc[generation] = "sleep" => attempt[generation] = 1

IInv == TypeOK /\ Ownership /\ Counted

-----------------------------------------------------------------------------
(* A ServerGlass object without targets satisfies the invariant.           *)
LEMMA IInvInit == Init => IInv
  BY ConstantsAssumption
  DEF Init, IInv, TypeOK, Ownership, Counted, TaskMutex, Spawning, Halting, Slotted,
      Unborn, Retired, IdleUnowned, Busy, OnePoller, OnlineHasSession, NothingCarriedOver,
      Runs, NoRun, Points, Awaiting, Ops, Holding,
      ConnectionState, Outcomes, Polling, SessionUp, Running, Stopping

(* Going to another point of poll_loop keeps the types.                    *)
LEMMA MoveToType ==
  ASSUME TypeOK, NEW r \in Runs, NEW point \in Points, MoveTo(r, point), UNCHANGED aborted
  PROVE  pc' \in [Runs -> Points] /\ aborted' \in SUBSET Runs /\ doomed' \in SUBSET aborted'
  BY DEF TypeOK, MoveTo

(* A state published, or held back by the generation, is a state.          *)
LEMMA PublishType ==
  ASSUME TypeOK, NEW r \in Runs, NEW s \in ConnectionState, NEW k \in 0..MaxAttempt,
         publish(r, s, k)
  PROVE  state' \in ConnectionState /\ retry' \in 0..MaxAttempt
<1>1. SetState(s, k) \/ UNCHANGED <<state, retry>>
  BY Zenon DEF publish
<1> QED
  BY <1>1 DEF TypeOK, SetState

(* A run that ends leaves locals of the right type.                        *)
LEMMA FinishType ==
  ASSUME TypeOK, NEW r \in Runs, Finish(r), UNCHANGED aborted
  PROVE  /\ pc' \in [Runs -> Points] /\ aborted' \in SUBSET Runs /\ doomed' \in SUBSET aborted'
         /\ attempt' \in [Runs -> 0..MaxAttempt]
         /\ fatal' \in [Runs -> BOOLEAN]
         /\ current' \in [Runs -> Commands \union {NoCommand}]
<1>1. "ended" \in Points /\ 0 \in 0..MaxAttempt
  BY ConstantsAssumption DEF Points
<1> QED
  BY <1>1 DEF TypeOK, Finish

(* The count of attempts saturates, or goes back to 0: it stays in range.  *)
LEMMA CountType ==
  ASSUME TypeOK, NEW r \in Runs, CountAttempt(r) \/ ResetAttempt(r)
  PROVE  attempt' \in [Runs -> 0..MaxAttempt]
<1>1. PICK v \in 0..MaxAttempt : attempt' = [attempt EXCEPT ![r] = v]
  <2>1. attempt[r] \in 0..MaxAttempt /\ attempt \in [Runs -> 0..MaxAttempt]
    BY DEF TypeOK
  <2>2. CASE CountAttempt(r) /\ attempt[r] < MaxAttempt
    <3>1. attempt[r] + 1 \in 0..MaxAttempt
      BY <2>1, <2>2, ConstantsAssumption
    <3>2. attempt' = [attempt EXCEPT ![r] = attempt[r] + 1]
      BY <2>1, <2>2 DEF CountAttempt
    <3> QED
      BY <3>1, <3>2
  <2>3. CASE CountAttempt(r) /\ ~(attempt[r] < MaxAttempt)
    <3>1. attempt' = [attempt EXCEPT ![r] = attempt[r]]
      BY <2>1, <2>3 DEF CountAttempt
    <3> QED
      BY <2>1, <3>1
  <2>4. CASE ResetAttempt(r)
    <3>1. 0 \in 0..MaxAttempt
      BY ConstantsAssumption
    <3> QED
      BY <2>4, <3>1 DEF ResetAttempt
  <2> QED
    BY <2>2, <2>3, <2>4
<1> QED
  BY <1>1 DEF TypeOK

(* A reply leaves every call in one of its stages.                         *)
LEMMA ReplyType ==
  ASSUME TypeOK, NEW K, NEW outcome \in Outcomes, Reply(K, outcome)
  PROVE  call' \in [Commands -> {"new", "looking", "waiting"} \union Outcomes]
  BY DEF TypeOK, Reply

(* Losing a session keeps the types of what was typed against it.          *)
LEMMA LoseType ==
  ASSUME TypeOK, NEW r \in Runs, LoseSession(r)
  PROVE  against' \in [Commands -> {"none", "live", "gone"}]
  BY DEF TypeOK, LoseSession

(* Publishing the loss of a session keeps the types.                       *)
LEMMA LossType ==
  ASSUME TypeOK, NEW r \in Runs, NEW recoverable \in BOOLEAN, publish_loss(r, recoverable),
         UNCHANGED aborted
  PROVE  /\ pc' \in [Runs -> Points] /\ aborted' \in SUBSET Runs /\ doomed' \in SUBSET aborted'
         /\ state' \in ConnectionState /\ retry' \in 0..MaxAttempt
         /\ against' \in [Commands -> {"none", "live", "gone"}]
<1>1. PICK s \in ConnectionState, k \in 0..MaxAttempt : publish(r, s, k)
  <2>1. {0, 1} \subseteq 0..MaxAttempt /\ {"Reconnecting", "FailedFatal"} \subseteq ConnectionState
    BY ConstantsAssumption DEF ConnectionState
  <2>2. publish(r, "Reconnecting", 1) \/ publish(r, "FailedFatal", 0)
    BY Zenon DEF publish_loss
  <2> QED
    BY <2>1, <2>2
<1>2. MoveTo(r, "lost") /\ LoseSession(r) /\ "lost" \in Points
  BY DEF publish_loss, Points
<1> QED
  BY <1>1, <1>2, PublishType, MoveToType, LoseType

(* Every step keeps every variable in its type.                            *)
LEMMA TypeStep == IInv /\ [Next]_vars => TypeOK'
<1> SUFFICES ASSUME IInv, [Next]_vars PROVE TypeOK'
  OBVIOUS
<1> USE ConstantsAssumption DEF ui, shared, shown, task, calls
<1>0. TypeOK
  BY DEF IInv
<1>p. /\ {"connect", "sleep", "returning", "tick", "gap", "command", "answer", "failing", "lost",
          "begin"} \subseteq Points
      /\ {"Connecting", "Online", "Idle", "FailedRecoverable", "FailedFatal"}
           \subseteq ConnectionState
      /\ 0 \in 0..MaxAttempt
      /\ {"ok", "failed", "notrun", "dropped"} \subseteq Outcomes
  BY DEF Points, Awaiting, ConnectionState, Outcomes
<1>1. CASE add_target
  BY <1>0, <1>1 DEF add_target, TypeOK
<1>2. ASSUME NEW c \in Controllers, NEW o \in {"start", "stop", "remove"}, target(c, o)
      PROVE  TypeOK'
  BY <1>0, <1>2 DEF target, TypeOK, Ops
<1>3. ASSUME NEW c \in Controllers, start_running(c)
      PROVE  TypeOK'
  BY <1>0, <1>3 DEF start_running, TypeOK, Ops
<1>4. ASSUME NEW c \in Controllers, start_claim(c)
      PROVE  TypeOK'
  BY <1>0, <1>4, <1>p DEF start_claim, SetState, TypeOK, Ops, Holding
<1>5. ASSUME NEW c \in Controllers, start_spawn(c)
      PROVE  TypeOK'
  BY <1>0, <1>5, <1>p DEF start_spawn, IInv, Ownership, Spawning, TypeOK, Ops
<1>6. ASSUME NEW c \in Controllers, stop_abort(c)
      PROVE  TypeOK'
  BY <1>0, <1>6 DEF stop_abort, Abort, TypeOK, Ops, Holding, NoRun
<1>7. ASSUME NEW c \in Controllers, stop_publish(c)
      PROVE  TypeOK'
  BY <1>0, <1>7, <1>p DEF stop_publish, SetState, IInv, Ownership, Halting, TypeOK, Ops
<1>8. ASSUME NEW c \in Controllers, remove_forget(c)
      PROVE  TypeOK'
  BY <1>0, <1>8 DEF remove_forget, TypeOK, Ops
<1>9. ASSUME NEW k \in Commands, run_command_lookup(k)
      PROVE  TypeOK'
  BY <1>0, <1>9 DEF run_command_lookup, TypeOK
<1>10. ASSUME NEW k \in Commands, run_command_send(k)
      PROVE  TypeOK'
  BY <1>0, <1>10 DEF run_command_send, Accepts, Running, SessionUp, TypeOK, NoRun
<1>11. ASSUME NEW k \in Commands, run_command_refuse(k)
      PROVE  TypeOK'
  BY <1>0, <1>11 DEF run_command_refuse, TypeOK, Outcomes
<1>12. ASSUME NEW k \in Commands, run_command_timeout(k)
      PROVE  TypeOK'
  BY <1>0, <1>12 DEF run_command_timeout, TypeOK, Outcomes
<1>13. ASSUME NEW r \in Runs, connect(r)
      PROVE  TypeOK'
  <2>1. /\ publish(r, "Connecting", 0) /\ MoveTo(r, "connect")
        /\ UNCHANGED <<ui, shared, attempt, fatal, current, aborted, inbox, calls>>
    BY <1>13 DEF connect
  <2> QED
    BY <1>0, <1>p, <2>1, PublishType, MoveToType DEF TypeOK
<1>14. ASSUME NEW r \in Runs, connect_retry(r)
      PROVE  TypeOK'
  <2>1. /\ publish(r, "FailedRecoverable", 0) /\ MoveTo(r, "sleep") /\ CountAttempt(r)
        /\ UNCHANGED <<ui, shared, fatal, current, aborted, inbox, calls>>
    BY <1>14 DEF connect_retry
  <2> QED
    BY <1>0, <1>p, <2>1, PublishType, MoveToType, CountType DEF TypeOK
<1>15. ASSUME NEW r \in Runs, connect_fatal(r)
      PROVE  TypeOK'
  <2>1. /\ publish(r, "FailedFatal", 0) /\ MoveTo(r, "returning")
        /\ UNCHANGED <<ui, shared, attempt, fatal, current, aborted, inbox, calls>>
    BY <1>15 DEF connect_fatal
  <2> QED
    BY <1>0, <1>p, <2>1, PublishType, MoveToType DEF TypeOK
<1>15r. ASSUME NEW r \in Runs, poll_loop_return(r)
      PROVE  TypeOK'
  <2>1. /\ Finish(r) /\ Reply(Queued(r), "dropped")
        /\ UNCHANGED <<ui, shared, shown, aborted, against, ran, withdrawn>>
        /\ inbox' \in [Runs -> Seq(Commands)]
    BY <1>0, <1>15r DEF poll_loop_return, TypeOK
  <2> QED
    BY <1>0, <1>p, <2>1, FinishType, ReplyType DEF TypeOK
<1>16. ASSUME NEW r \in Runs, connected(r)
      PROVE  TypeOK'
  <2>1. /\ MoveTo(r, "tick") /\ ResetAttempt(r)
        /\ UNCHANGED <<ui, shared, shown, fatal, current, aborted, inbox, calls>>
    BY <1>0, <1>16 DEF connected, TypeOK
  <2> QED
    BY <1>0, <1>p, <2>1, MoveToType, CountType DEF TypeOK
<1>17. ASSUME NEW r \in Runs, tick_ok(r)
      PROVE  TypeOK'
  <2>1. /\ publish(r, "Online", 0) /\ MoveTo(r, "gap")
        /\ UNCHANGED <<ui, shared, attempt, fatal, current, aborted, inbox, calls>>
    BY <1>0, <1>17 DEF tick_ok, TypeOK
  <2> QED
    BY <1>0, <1>p, <2>1, PublishType, MoveToType DEF TypeOK
<1>18. ASSUME NEW r \in Runs, NEW recoverable \in BOOLEAN, tick_failed(r, recoverable)
      PROVE  TypeOK'
  <2>1. /\ publish_loss(r, recoverable)
        /\ fatal' \in [Runs -> BOOLEAN]
        /\ UNCHANGED <<ui, shared, attempt, current, aborted, inbox,
                       call, ran, withdrawn>>
    BY <1>0, <1>18 DEF tick_failed, TypeOK
  <2> QED
    BY <1>0, <2>1, LossType DEF TypeOK
<1>19. ASSUME NEW r \in Runs, next_refresh(r)
      PROVE  TypeOK'
  BY <1>0, <1>p, <1>19, MoveToType DEF next_refresh, TypeOK
<1>20. ASSUME NEW r \in Runs, take_job(r)
      PROVE  TypeOK'
  <2>1. Head(inbox[r]) \in Commands /\ Tail(inbox[r]) \in Seq(Commands)
    BY <1>0, <1>20 DEF take_job, TypeOK
  <2>2. /\ inbox' \in [Runs -> Seq(Commands)]
        /\ UNCHANGED <<ui, shared, shown, attempt, fatal, aborted, calls>>
    BY <1>0, <1>20, <2>1 DEF take_job, TypeOK
  <2>3. CASE /\ current' = [current EXCEPT ![r] = Head(inbox[r])]
             /\ MoveTo(r, "command")
    <3>1. current' \in [Runs -> Commands \union {NoCommand}]
      BY <1>0, <2>1, <2>3 DEF TypeOK
    <3> QED
      BY <1>0, <1>p, <2>2, <2>3, <3>1, MoveToType DEF TypeOK
  <2>4. CASE UNCHANGED <<current, pc, doomed>>
    BY <1>0, <2>2, <2>4 DEF TypeOK
  <2> QED
    BY <1>20, <2>3, <2>4, Zenon DEF take_job
<1>21. ASSUME NEW r \in Runs, command_write(r)
      PROVE  TypeOK'
  <2>1. current[r] \in Commands
    BY <1>0, <1>21 DEF command_write, At, IInv, Ownership, Busy, TypeOK
  <2> QED
    BY <1>0, <1>p, <1>21, <2>1, MoveToType DEF command_write, TypeOK
<1>22. ASSUME NEW r \in Runs, command_ok(r)
      PROVE  TypeOK'
  <2>1. /\ Reply({current[r]}, "ok") /\ MoveTo(r, "gap")
        /\ current' \in [Runs -> Commands \union {NoCommand}]
        /\ UNCHANGED <<ui, shared, shown, attempt, fatal, aborted, inbox,
                       against, ran, withdrawn>>
    BY <1>0, <1>22 DEF command_ok, TypeOK
  <2> QED
    BY <1>0, <1>p, <2>1, MoveToType, ReplyType DEF TypeOK
<1>23. ASSUME NEW r \in Runs, NEW recoverable \in BOOLEAN, command_failed(r, recoverable)
      PROVE  TypeOK'
  <2>1. /\ Reply({current[r]}, "failed") /\ MoveTo(r, "failing")
        /\ current' \in [Runs -> Commands \union {NoCommand}]
        /\ fatal' \in [Runs -> BOOLEAN]
        /\ UNCHANGED <<ui, shared, shown, attempt, aborted, inbox,
                       against, ran, withdrawn>>
    BY <1>0, <1>23 DEF command_failed, TypeOK
  <2> QED
    BY <1>0, <1>p, <2>1, MoveToType, ReplyType DEF TypeOK
<1>23p. ASSUME NEW r \in Runs, command_lost(r)
      PROVE  TypeOK'
  <2>1. PICK recoverable \in BOOLEAN : publish_loss(r, recoverable)
    BY <1>0, <1>23p DEF command_lost, TypeOK
  <2>2. UNCHANGED <<ui, shared, attempt, fatal, current, aborted, inbox,
                    call, ran, withdrawn>>
    BY <1>23p DEF command_lost
  <2> QED
    BY <1>0, <2>1, <2>2, LossType DEF TypeOK
<1>24. ASSUME NEW r \in Runs, drain(r)
      PROVE  TypeOK'
  <2>1. /\ Reply({Head(inbox[r])}, "notrun")
        /\ inbox' \in [Runs -> Seq(Commands)]
        /\ UNCHANGED <<ui, shared, shown, task, aborted, against, ran, withdrawn>>
    BY <1>0, <1>24 DEF drain, Drained, TypeOK
  <2> QED
    BY <1>0, <1>p, <2>1, ReplyType DEF TypeOK
<1>25. ASSUME NEW r \in Runs, drained(r)
      PROVE  TypeOK'
  <2>0. UNCHANGED <<ui, shared, shown, aborted, inbox, calls>>
    BY <1>25 DEF drained
  <2>1. CASE Finish(r)
    BY <1>0, <2>0, <2>1, FinishType DEF TypeOK
  <2>2. CASE /\ MoveTo(r, "sleep") /\ CountAttempt(r)
             /\ UNCHANGED <<fatal, current>>
    BY <1>0, <1>p, <2>0, <2>2, MoveToType, CountType DEF TypeOK
  <2> QED
    BY <1>25, <2>1, <2>2, Zenon DEF drained
<1>26. ASSUME NEW r \in Runs, abort_lands(r)
      PROVE  TypeOK'
  <2>1. /\ Finish(r) /\ Reply(Owed(r), "dropped") /\ LoseSession(r)
        /\ inbox' \in [Runs -> Seq(Commands)]
        /\ UNCHANGED <<ui, shared, state, retry, aborted, ran, withdrawn>>
    BY <1>0, <1>26 DEF abort_lands, TypeOK
  <2> QED
    BY <1>0, <1>p, <2>1, FinishType, ReplyType, LoseType DEF TypeOK
<1>27. CASE UNCHANGED vars
  BY <1>0, <1>27 DEF vars, TypeOK
<1> QED
  BY <1>1, <1>2, <1>3, <1>4, <1>5, <1>6, <1>7, <1>8, <1>9, <1>10, <1>11, <1>12, <1>13,
     <1>14, <1>15, <1>15r, <1>16, <1>17, <1>18, <1>19, <1>20, <1>21, <1>22, <1>23, <1>23p,
     <1>24, <1>25, <1>26, <1>27
  DEF Next, Controller, Caller, poll_loop

(* Every step keeps the relation between the slot, the generation, the     *)
(* runs and the snapshot.                                                  *)
LEMMA OwnershipStep == IInv /\ [Next]_vars => Ownership'
<1> SUFFICES ASSUME IInv, [Next]_vars PROVE Ownership'
  OBVIOUS
<1> USE ConstantsAssumption DEF Runs, NoRun, Points, Awaiting, Ops, Holding,
      ui, shared, shown, task, calls,
      Ownership, TaskMutex, Spawning, Halting, Slotted, Unborn, Retired,
      IdleUnowned, Busy, OnePoller, OnlineHasSession, NothingCarriedOver, Polling,
      SessionUp, Running, Stopping
<1>0. TypeOK /\ Ownership
  BY DEF IInv
<1>1. CASE add_target
  BY <1>0, <1>1 DEF add_target, TypeOK
<1>2. ASSUME NEW c \in Controllers, NEW o \in {"start", "stop", "remove"}, target(c, o)
      PROVE  Ownership'
  BY <1>0, <1>2 DEF target, TypeOK
<1>3. ASSUME NEW c \in Controllers, start_running(c)
      PROVE  Ownership'
  BY <1>0, <1>3 DEF start_running, TaskLockFree, TypeOK
<1>4. ASSUME NEW c \in Controllers, start_claim(c)
      PROVE  Ownership'
  BY <1>0, <1>4 DEF start_claim, SetState, Startable, TaskLockFree, TypeOK
<1>5. ASSUME NEW c \in Controllers, start_spawn(c)
      PROVE  Ownership'
  BY <1>0, <1>5 DEF start_spawn, TaskLockFree, TypeOK
<1>6. ASSUME NEW c \in Controllers, stop_abort(c)
      PROVE  Ownership'
  BY <1>0, <1>6 DEF stop_abort, Abort, TaskLockFree, TypeOK
<1>7. ASSUME NEW c \in Controllers, stop_publish(c)
      PROVE  Ownership'
  BY <1>0, <1>7 DEF stop_publish, SetState, TaskLockFree, TypeOK
<1>8. ASSUME NEW c \in Controllers, remove_forget(c)
      PROVE  Ownership'
  BY <1>0, <1>8 DEF remove_forget, TaskLockFree, TypeOK
<1>9. ASSUME NEW k \in Commands, run_command_lookup(k)
      PROVE  Ownership'
  BY <1>0, <1>9 DEF run_command_lookup, TypeOK
<1>10. ASSUME NEW k \in Commands, run_command_send(k)
      PROVE  Ownership'
  BY <1>0, <1>10 DEF run_command_send, TaskLockFree, Accepts, TypeOK
<1>11. ASSUME NEW k \in Commands, run_command_refuse(k)
      PROVE  Ownership'
  BY <1>0, <1>11 DEF run_command_refuse, TypeOK
<1>12. ASSUME NEW k \in Commands, run_command_timeout(k)
      PROVE  Ownership'
  BY <1>0, <1>12 DEF run_command_timeout, TypeOK
<1>13. ASSUME NEW r \in Runs, connect(r)
      PROVE  Ownership'
  BY <1>0, <1>13 DEF connect, At, MoveTo, publish, SetState, Current, TypeOK
<1>14. ASSUME NEW r \in Runs, connect_retry(r)
      PROVE  Ownership'
  BY <1>0, <1>14 DEF connect_retry, At, MoveTo, publish, SetState, Current, CountAttempt, TypeOK
<1>15. ASSUME NEW r \in Runs, connect_fatal(r)
      PROVE  Ownership'
  BY <1>0, <1>15 DEF connect_fatal, At, MoveTo, publish, SetState, Current, TypeOK
<1>15r. ASSUME NEW r \in Runs, poll_loop_return(r)
      PROVE  Ownership'
  BY <1>0, <1>15r DEF poll_loop_return, At, Finish, Reply, TypeOK
<1>16. ASSUME NEW r \in Runs, connected(r)
      PROVE  Ownership'
  BY <1>0, <1>16 DEF connected, At, MoveTo, ResetAttempt, TypeOK
<1>17. ASSUME NEW r \in Runs, tick_ok(r)
      PROVE  Ownership'
  BY <1>0, <1>17 DEF tick_ok, At, MoveTo, publish, SetState, Current, TypeOK
<1>18. ASSUME NEW r \in Runs, pc[r] \in {"tick", "failing"}, current[r] = NoCommand,
             NEW recoverable \in BOOLEAN, publish_loss(r, recoverable),
             UNCHANGED <<ui, shared, current, aborted, inbox>>
      PROVE  Ownership'
  <2>1. pc' = [pc EXCEPT ![r] = "lost"]
    BY <1>18 DEF publish_loss, MoveTo
  <2>2. \/ generation = r /\ state' \in {"Reconnecting", "FailedFatal"}
        \/ generation # r /\ state' = state
    BY <1>18 DEF publish_loss, publish, Current, SetState
  <2> HIDE DEF Points, Awaiting
  <2> QED
    BY <1>0, <1>18, <2>1, <2>2 DEF TypeOK
<1>18t. ASSUME NEW r \in Runs, NEW recoverable \in BOOLEAN, tick_failed(r, recoverable)
      PROVE  Ownership'
  BY <1>0, <1>18, <1>18t DEF tick_failed, At
<1>19. ASSUME NEW r \in Runs, next_refresh(r)
      PROVE  Ownership'
  BY <1>0, <1>19 DEF next_refresh, At, MoveTo, TypeOK
<1>20. ASSUME NEW r \in Runs, take_job(r)
      PROVE  Ownership'
  <2>0. /\ UNCHANGED <<ui, shared, shown, attempt, fatal, aborted, calls>>
        /\ pc[r] = "gap"
        /\ inbox' = [inbox EXCEPT ![r] = Tail(@)]
    BY <1>20 DEF take_job, At
  <2>1. Head(inbox[r]) \in Commands
    BY <1>0, <1>20 DEF take_job, TypeOK
  <2>2. CASE /\ current' = [current EXCEPT ![r] = Head(inbox[r])]
             /\ MoveTo(r, "command")
    BY <1>0, <2>0, <2>1, <2>2 DEF MoveTo, TypeOK
  <2>3. CASE UNCHANGED <<current, pc, doomed>>
    BY <1>0, <2>0, <2>3 DEF TypeOK
  <2> QED
    BY <1>20, <2>2, <2>3, Zenon DEF take_job
<1>21. ASSUME NEW r \in Runs, command_write(r)
      PROVE  Ownership'
  BY <1>0, <1>21 DEF command_write, At, MoveTo, TypeOK
<1>22. ASSUME NEW r \in Runs, command_ok(r)
      PROVE  Ownership'
  BY <1>0, <1>22 DEF command_ok, At, MoveTo, Reply, TypeOK
<1>23. ASSUME NEW r \in Runs, NEW recoverable \in BOOLEAN, command_failed(r, recoverable)
      PROVE  Ownership'
  BY <1>0, <1>23 DEF command_failed, At, MoveTo, Reply, TypeOK
<1>23p. ASSUME NEW r \in Runs, command_lost(r)
      PROVE  Ownership'
  <2>1. PICK recoverable \in BOOLEAN : publish_loss(r, recoverable)
    BY <1>0, <1>23p DEF command_lost, TypeOK
  <2> QED
    BY <1>0, <1>18, <1>23p, <2>1 DEF command_lost, At
<1>24. ASSUME NEW r \in Runs, drain(r)
      PROVE  Ownership'
  BY <1>0, <1>24 DEF drain, At, Reply, Drained, TypeOK
<1>25. ASSUME NEW r \in Runs, drained(r)
      PROVE  Ownership'
  <2>0. /\ UNCHANGED <<ui, shared, shown, aborted, inbox, calls>>
        /\ pc[r] = "lost" /\ inbox[r] = <<>>
    BY <1>25 DEF drained, At, Drained
  <2>1. CASE Finish(r)
    BY <1>0, <2>0, <2>1 DEF Finish, TypeOK
  <2>2. CASE MoveTo(r, "sleep") /\ CountAttempt(r) /\ UNCHANGED <<fatal, current>>
    BY <1>0, <2>0, <2>2 DEF MoveTo, TypeOK
  <2> QED
    BY <1>25, <2>1, <2>2, Zenon DEF drained
<1>26. ASSUME NEW r \in Runs, abort_lands(r)
      PROVE  Ownership'
  BY <1>0, <1>26 DEF abort_lands, Finish, Reply, LoseSession, TypeOK
<1>27. CASE UNCHANGED vars
  BY <1>0, <1>27 DEF vars
<1> QED
  BY <1>1, <1>2, <1>3, <1>4, <1>5, <1>6, <1>7, <1>8, <1>9, <1>10, <1>11, <1>12, <1>13,
     <1>14, <1>15, <1>15r, <1>16, <1>17, <1>18t, <1>19, <1>20, <1>21, <1>22, <1>23, <1>23p,
     <1>24, <1>25, <1>26, <1>27
  DEF Next, Controller, Caller, poll_loop

(* Every step keeps the count of failures in line with what is shown.      *)
LEMMA CountedStep == IInv /\ [Next]_vars => Counted'
<1> SUFFICES ASSUME IInv, [Next]_vars PROVE Counted'
  OBVIOUS
<1> USE ConstantsAssumption DEF Runs, NoRun, Points, Awaiting, ui, shared, shown, task,
      calls, Counted, SessionUp, TypeOK
<1>0. TypeOK /\ Counted /\ Spawning /\ Slotted /\ Unborn /\ OnlineHasSession
  BY DEF IInv, Ownership
<1>1. CASE add_target
  BY <1>0, <1>1 DEF add_target
<1>2. ASSUME NEW c \in Controllers, NEW o \in {"start", "stop", "remove"}, target(c, o)
      PROVE  Counted'
  BY <1>0, <1>2 DEF target
<1>3. ASSUME NEW c \in Controllers, start_running(c)
      PROVE  Counted'
  BY <1>0, <1>3 DEF start_running
<1>4. ASSUME NEW c \in Controllers, start_claim(c)
      PROVE  Counted'
  BY <1>0, <1>4 DEF start_claim, SetState
<1>5. ASSUME NEW c \in Controllers, start_spawn(c)
      PROVE  Counted'
  BY <1>0, <1>5 DEF start_spawn, Spawning
<1>6. ASSUME NEW c \in Controllers, stop_abort(c)
      PROVE  Counted'
  BY <1>0, <1>6 DEF stop_abort, Abort
<1>7. ASSUME NEW c \in Controllers, stop_publish(c)
      PROVE  Counted'
  BY <1>0, <1>7 DEF stop_publish, SetState
<1>8. ASSUME NEW c \in Controllers, remove_forget(c)
      PROVE  Counted'
  BY <1>0, <1>8 DEF remove_forget
<1>9. ASSUME NEW k \in Commands, run_command_lookup(k)
      PROVE  Counted'
  BY <1>0, <1>9 DEF run_command_lookup
<1>10. ASSUME NEW k \in Commands, run_command_send(k)
      PROVE  Counted'
  BY <1>0, <1>10 DEF run_command_send
<1>11. ASSUME NEW k \in Commands, run_command_refuse(k)
      PROVE  Counted'
  BY <1>0, <1>11 DEF run_command_refuse
<1>12. ASSUME NEW k \in Commands, run_command_timeout(k)
      PROVE  Counted'
  BY <1>0, <1>12 DEF run_command_timeout
<1>13. ASSUME NEW r \in Runs, connect(r)
      PROVE  Counted'
  BY <1>0, <1>13 DEF connect, At, MoveTo, publish, SetState, Current
<1>14. ASSUME NEW r \in Runs, connect_retry(r)
      PROVE  Counted'
  BY <1>0, <1>14 DEF connect_retry, At, MoveTo, publish, SetState, Current, CountAttempt
<1>15. ASSUME NEW r \in Runs, connect_fatal(r)
      PROVE  Counted'
  BY <1>0, <1>15 DEF connect_fatal, At, MoveTo, publish, SetState, Current
<1>15r. ASSUME NEW r \in Runs, poll_loop_return(r)
      PROVE  Counted'
  BY <1>0, <1>15r DEF poll_loop_return, At, Finish, Reply
<1>16. ASSUME NEW r \in Runs, connected(r)
      PROVE  Counted'
  BY <1>0, <1>16 DEF connected, At, MoveTo, ResetAttempt
<1>17. ASSUME NEW r \in Runs, tick_ok(r)
      PROVE  Counted'
  BY <1>0, <1>17 DEF tick_ok, At, MoveTo, publish, SetState, Current
<1>18. ASSUME NEW r \in Runs, NEW recoverable \in BOOLEAN, tick_failed(r, recoverable)
      PROVE  Counted'
  BY <1>0, <1>18 DEF tick_failed, At, MoveTo, publish, SetState, Current, publish_loss,
     LoseSession
<1>19. ASSUME NEW r \in Runs, next_refresh(r)
      PROVE  Counted'
  BY <1>0, <1>19 DEF next_refresh, At, MoveTo
<1>20. ASSUME NEW r \in Runs, take_job(r)
      PROVE  Counted'
  <2>0. /\ UNCHANGED <<ui, shared, shown, attempt, fatal, aborted, calls>>
        /\ pc[r] = "gap"
    BY <1>20 DEF take_job, At
  <2>1. CASE MoveTo(r, "command")
    BY <1>0, <2>0, <2>1 DEF MoveTo
  <2>2. CASE UNCHANGED pc
    BY <1>0, <2>0, <2>2
  <2> QED
    BY <1>20, <2>1, <2>2, Zenon DEF take_job
<1>21. ASSUME NEW r \in Runs, command_write(r)
      PROVE  Counted'
  BY <1>0, <1>21 DEF command_write, At, MoveTo
<1>22. ASSUME NEW r \in Runs, command_ok(r)
      PROVE  Counted'
  BY <1>0, <1>22 DEF command_ok, At, MoveTo, Reply
<1>23. ASSUME NEW r \in Runs, NEW recoverable \in BOOLEAN, command_failed(r, recoverable)
      PROVE  Counted'
  BY <1>0, <1>23 DEF command_failed, At, MoveTo, Reply
<1>23p. ASSUME NEW r \in Runs, command_lost(r)
      PROVE  Counted'
  <2>1. PICK recoverable \in BOOLEAN : publish_loss(r, recoverable)
    BY <1>0, <1>23p DEF command_lost
  <2> QED
    BY <1>0, <1>23p, <2>1 DEF command_lost, At, MoveTo, publish, SetState, Current,
       publish_loss, LoseSession
<1>24. ASSUME NEW r \in Runs, drain(r)
      PROVE  Counted'
  BY <1>0, <1>24 DEF drain, At, Reply, Drained
<1>25. ASSUME NEW r \in Runs, drained(r)
      PROVE  Counted'
  <2>0. /\ UNCHANGED <<ui, shared, shown, aborted, inbox, calls>>
        /\ pc[r] = "lost"
    BY <1>25 DEF drained, At
  <2>1. CASE Finish(r)
    BY <1>0, <2>0, <2>1 DEF Finish
  <2>2. CASE MoveTo(r, "sleep") /\ CountAttempt(r) /\ UNCHANGED <<fatal, current>>
    BY <1>0, <2>0, <2>2 DEF MoveTo, CountAttempt
  <2> QED
    BY <1>25, <2>1, <2>2, Zenon DEF drained
<1>26. ASSUME NEW r \in Runs, abort_lands(r)
      PROVE  Counted'
  BY <1>0, <1>26 DEF abort_lands, Finish, Reply, LoseSession
<1>27. CASE UNCHANGED vars
  BY <1>0, <1>27 DEF vars
<1> QED
  BY <1>1, <1>2, <1>3, <1>4, <1>5, <1>6, <1>7, <1>8, <1>9, <1>10, <1>11, <1>12, <1>13,
     <1>14, <1>15, <1>15r, <1>16, <1>17, <1>18, <1>19, <1>20, <1>21, <1>22, <1>23, <1>23p,
     <1>24, <1>25, <1>26, <1>27
  DEF Next, Controller, Caller, poll_loop

(* The inductive invariant holds in every reachable state.                 *)
THEOREM InductiveInvariant == Spec => []IInv
<1>1. IInv /\ [Next]_vars => IInv'
  BY TypeStep, OwnershipStep, CountedStep DEF IInv
<1> QED
  BY IInvInit, <1>1, PTL DEF Spec

(* Every variable keeps its type: in particular no generation, attempt or  *)
(* queue leaves its range.                                                 *)
THEOREM TypeCorrect == Spec => []TypeOK
<1>1. IInv => TypeOK
  BY DEF IInv
<1> QED
  BY InductiveInvariant, <1>1, PTL

(* start and stop, from any number of threads, never leave a second poller *)
(* running.                                                                *)
THEOREM AtMostOnePoller == Spec => []OnePoller
<1>1. IInv => OnePoller
  BY DEF IInv, Ownership
<1> QED
  BY InductiveInvariant, <1>1, PTL

(* A host shown Online has a session that is up.                           *)
THEOREM OnlineIsUp == Spec => []OnlineHasSession
<1>1. IInv => OnlineHasSession
  BY DEF IInv, Ownership
<1> QED
  BY InductiveInvariant, <1>1, PTL

(* No queued command survives the session it was typed against.            *)
THEOREM NoCarryOver == Spec => []NothingCarriedOver
<1>1. IInv => NothingCarriedOver
  BY DEF IInv, Ownership
<1> QED
  BY InductiveInvariant, <1>1, PTL

(* The attempt on screen is the one whose wait poll_loop serves.           *)
THEOREM RetryIsServed == Spec => []ShownRetryIsServed
<1>1. IInv => ShownRetryIsServed
  BY DEF IInv, Counted, ShownRetryIsServed
<1> QED
  BY InductiveInvariant, <1>1, PTL

(* No late write of an aborted run replaces the Idle that stop has shown.  *)
THEOREM StopIsFinal == Spec => StoppedStaysIdle
<1> DEFINE Stays == state = "Idle" /\ state' # "Idle" => generation' # generation
<1>1. IInv /\ [Next]_vars => [Stays]_vars
  <2> SUFFICES ASSUME IInv, Next, state = "Idle", state' # "Idle", generation' = generation
               PROVE  FALSE
    OBVIOUS
  <2>1. PICK r \in Runs : poll_loop(r)
    <3> USE DEF TypeOK, ui, shared, shown, task, calls, IInv
    <3>1. ASSUME NEW c \in Controllers, Controller(c) PROVE FALSE
      BY <3>1 DEF Controller, target, start_running, start_claim, start_spawn, stop_abort,
         stop_publish, remove_forget, SetState, Runs, NoRun
    <3>2. ASSUME NEW k \in Commands, Caller(k) PROVE FALSE
      BY <3>2 DEF Caller, run_command_lookup, run_command_send, run_command_refuse,
         run_command_timeout
    <3>3. ~add_target
      BY DEF add_target
    <3> QED
      BY <3>1, <3>2, <3>3 DEF Next
  <2>2. generation = r
    BY <2>1 DEF poll_loop, connect, connect_retry, connect_fatal, poll_loop_return, connected,
       tick_ok, tick_failed, next_refresh, take_job, command_write, command_ok,
       command_failed, command_lost, drain,
       drained, abort_lands, publish_loss, publish, Current, ui, shared, shown, task, calls
  <2>3. pc[r] # "unborn"
    BY <2>1 DEF poll_loop, connect, connect_retry, connect_fatal, poll_loop_return, connected,
       tick_ok, tick_failed, next_refresh, take_job, command_write, command_ok,
       command_failed, command_lost, drain,
       drained, abort_lands, At, Awaiting
  <2> QED
    BY <2>2, <2>3 DEF IInv, Ownership, IdleUnowned
<1> QED
  BY InductiveInvariant, <1>1, PTL DEF Spec, StoppedStaysIdle

-----------------------------------------------------------------------------
(* Commands.                                                               *)

(* No job is in a queue twice.                                             *)
Once(s) == \A i, j \in 1..Len(s) : s[i] = s[j] => i = j

(* The commands in each run's inbox, and those it owes an answer.          *)
Queues == [r \in Runs |-> Elems(inbox[r])]
Has(r, k) == k \in Queues[r] \/ current[r] = k

(* A command that was sent is owed by one run, in one place.               *)
OwedOnce ==
  /\ \A r \in Runs : Once(inbox[r]) /\ current[r] \notin Queues[r]
  /\ \A r, q \in Runs : \A k \in Commands : Has(r, k) /\ Has(q, k) => r = q

(* What a run owes was accepted, and against its present session: the      *)
(* session is up, or the run is refusing what is left of its queue.        *)
OwedAccepted ==
  \A r \in Runs : \A k \in Commands : Has(r, k) =>
    /\ call[k] \in {"waiting", "timedout"}
    /\ SessionUp(r) => against[k] = "live"
    /\ ~SessionUp(r) => against[k] = "gone"

(* The host has a command once it is written and not before.               *)
HostHas ==
  \A r \in Runs : /\ \A k \in Queues[r] : k \notin ran
                  /\ pc[r] = "command" => current[r] \notin ran /\ current[r] \notin withdrawn
                  /\ pc[r] = "answer" => current[r] \in ran

(* What the callers were told agrees with what the host has had.           *)
Told ==
  \A k \in Commands : /\ call[k] \in {"new", "looking"} => k \notin ran
                      /\ k \in withdrawn => call[k] = "timedout"

CInv ==
  /\ OwedOnce
  /\ OwedAccepted
  /\ HostHas
  /\ Told
  /\ HonestAnswers
  /\ WithdrawnNeverRuns

-----------------------------------------------------------------------------
(* Sending a command that is not in the queue adds it, once.               *)
LEMMA AppendElems ==
  ASSUME NEW S, NEW s \in Seq(S), NEW k \in S, Once(s), k \notin Elems(s)
  PROVE  /\ Once(Append(s, k))
         /\ Elems(Append(s, k)) = Elems(s) \union {k}
<1>1. /\ Len(Append(s, k)) = Len(s) + 1
      /\ \A i \in 1..Len(s) : Append(s, k)[i] = s[i]
      /\ Append(s, k)[Len(s) + 1] = k
      /\ Len(s) \in Nat
  OBVIOUS
<1>2. \A i \in 1..Len(s) : s[i] # k
  BY DEF Elems
<1> QED
  BY <1>1, <1>2 DEF Once, Elems

(* Taking the first job of a queue takes it out of the queue.              *)
LEMMA TailElems ==
  ASSUME NEW S, NEW s \in Seq(S), s # <<>>, Once(s)
  PROVE  /\ Once(Tail(s))
         /\ Elems(Tail(s)) = Elems(s) \ {Head(s)}
         /\ Head(s) \in Elems(s)
         /\ Elems(s) \subseteq S
<1>1. /\ Len(Tail(s)) = Len(s) - 1
      /\ \A i \in 1..(Len(s) - 1) : Tail(s)[i] = s[i + 1]
      /\ Head(s) = s[1]
      /\ Len(s) \in Nat \ {0}
  OBVIOUS
<1>2. Once(Tail(s))
  BY <1>1 DEF Once
<1>3. Head(s) \in Elems(s) /\ Elems(s) \subseteq S
  BY <1>1 DEF Elems
<1>4. ASSUME NEW x \in Elems(Tail(s)) PROVE x \in Elems(s) \ {Head(s)}
  <2>1. PICK i \in 1..(Len(s) - 1) : x = s[i + 1]
    BY <1>1 DEF Elems
  <2> QED
    BY <1>1, <2>1 DEF Elems, Once
<1>5. ASSUME NEW x \in Elems(s) \ {Head(s)} PROVE x \in Elems(Tail(s))
  <2>1. PICK i \in 1..Len(s) : x = s[i]
    BY DEF Elems
  <2>2. i - 1 \in 1..(Len(s) - 1) /\ Tail(s)[i - 1] = s[i]
    BY <1>1, <1>5, <2>1
  <2> QED
    BY <1>1, <2>1, <2>2 DEF Elems
<1> QED
  BY <1>2, <1>3, <1>4, <1>5

(* An empty queue holds nothing.                                           *)
LEMMA EmptyElems == Elems(<<>>) = {} /\ Once(<<>>)
  BY DEF Elems, Once

(* A queue of commands holds commands.                                     *)
LEMMA SeqElems == ASSUME NEW S, NEW s \in Seq(S) PROVE Elems(s) \subseteq S
  BY DEF Elems

(* The sets of queued commands, typed and related to Owed.                 *)
LEMMA QueuesType ==
  ASSUME TypeOK
  PROVE  /\ Queues \in [Runs -> SUBSET Commands]
         /\ \A r \in Runs : Queued(r) = Queues[r]
         /\ \A r \in Runs : \A k \in Commands : k \in Owed(r) <=> Has(r, k)
<1>1. \A r \in Runs : Elems(inbox[r]) \subseteq Commands
  BY SeqElems DEF TypeOK
<1> QED
  BY <1>1, ConstantsAssumption DEF Queues, Queued, Owed, Has, TypeOK

(* A run without a session has nothing to answer for.                      *)
LEMMA NothingOwed ==
  ASSUME IInv, NEW r \in Runs, ~SessionUp(r), pc[r] # "lost"
  PROVE  /\ inbox[r] = <<>> /\ current[r] = NoCommand /\ Queues[r] = {}
         /\ \A k \in Commands : ~Has(r, k)
<1>1. inbox[r] = <<>> /\ current[r] = NoCommand
  BY DEF IInv, Ownership, NothingCarriedOver, Busy, SessionUp
<1> QED
  BY <1>1, EmptyElems, ConstantsAssumption DEF Queues, Has

(* What one inbox becomes is what its set of queued commands becomes.      *)
LEMMA QueueChange ==
  ASSUME TypeOK, NEW r \in Runs, NEW s \in Seq(Commands), Once(s),
         \A q \in Runs : Once(inbox[q]), inbox' = [inbox EXCEPT ![r] = s]
  PROVE  /\ Queues' = [Queues EXCEPT ![r] = Elems(s)]
         /\ \A q \in Runs : Once(inbox'[q])
<1>1. \A q \in Runs : inbox'[q] = IF q = r THEN s ELSE inbox[q]
  BY DEF TypeOK
<1>2. Queues' = [q \in Runs |-> Elems(inbox'[q])]
  BY DEF Queues
<1>3. [Queues EXCEPT ![r] = Elems(s)] = [q \in Runs |-> IF q = r THEN Elems(s) ELSE Elems(inbox[q])]
  BY Zenon DEF Queues
<1>4. ASSUME NEW q \in Runs
      PROVE  Elems(inbox'[q]) = IF q = r THEN Elems(s) ELSE Elems(inbox[q])
  <2>1. CASE q = r
    <3>1. inbox'[q] = s
      BY <1>1, <2>1
    <3> QED
      BY <2>1, <3>1
  <2>2. CASE q # r
    <3>1. inbox'[q] = inbox[q]
      BY <1>1, <2>2
    <3> QED
      BY <2>2, <3>1
  <2> QED
    BY <2>1, <2>2, Zenon
<1> QED
  BY <1>1, <1>2, <1>3, <1>4, Zenon

(* Nothing is queued at first.                                             *)
LEMMA CInvInit == Init => CInv
  BY EmptyElems, ConstantsAssumption DEF Init, CInv, OwedOnce, OwedAccepted, HostHas, Told,
     HonestAnswers, WithdrawnNeverRuns, Queues, Has

(* A step that touches no command, and moves only runs that have none in   *)
(* hand, within a session or with nothing to answer for.                   *)
LEMMA CInvFrame ==
  ASSUME CInv, UNCHANGED <<inbox, current, calls>>,
         \A r \in Runs : pc'[r] # pc[r] =>
           /\ pc[r] \notin {"command", "answer"} /\ pc'[r] \notin {"command", "answer"}
           /\ \/ SessionUp(r) /\ SessionUp(r)'
              \/ ~SessionUp(r) /\ ~SessionUp(r)'
              \/ \A k \in Commands : ~Has(r, k)
  PROVE  CInv'
<1>1. Queues' = Queues
  BY DEF Queues, calls
<1>2. OwedAccepted'
  BY <1>1 DEF CInv, OwedAccepted, Has, calls, SessionUp
<1>3. HostHas'
  BY <1>1 DEF CInv, HostHas, calls
<1> QED
  BY <1>1, <1>2, <1>3
  DEF CInv, OwedOnce, Told, HonestAnswers, WithdrawnNeverRuns, Has, calls

(* Every step keeps the account of every command straight.                 *)
LEMMA CInvStep == IInv /\ CInv /\ [Next]_vars => CInv'
<1> SUFFICES ASSUME IInv, CInv, [Next]_vars PROVE CInv'
  OBVIOUS
<1> USE ConstantsAssumption DEF ui, shared, shown, task, calls
<1>0. /\ TypeOK /\ Busy
      /\ Queues \in [Runs -> SUBSET Commands]
      /\ \A r \in Runs : Queued(r) = Queues[r]
      /\ \A r \in Runs : \A k \in Commands : k \in Owed(r) <=> Has(r, k)
  BY QueuesType DEF IInv, Ownership
<1>a. CASE \/ add_target
           \/ \E c \in Controllers :
                \/ \E o \in {"start", "stop", "remove"} : target(c, o)
                \/ start_running(c) \/ start_claim(c)
                \/ stop_abort(c) \/ stop_publish(c) \/ remove_forget(c)
           \/ UNCHANGED vars
  <2>1. UNCHANGED <<inbox, current, calls, pc>>
    BY <1>a DEF add_target, target, start_running, start_claim, stop_abort, stop_publish,
       remove_forget, vars
  <2> QED
    BY <2>1, CInvFrame
<1>b. ASSUME NEW c \in Controllers, start_spawn(c)
      PROVE  CInv'
  <2>1. generation \in Runs /\ pc[generation] = "unborn"
    BY <1>b DEF start_spawn, IInv, Ownership, Spawning
  <2>2. \A k \in Commands : ~Has(generation, k)
    BY <2>1, NothingOwed DEF SessionUp
  <2>3. /\ UNCHANGED <<inbox, current, calls>>
        /\ \A r \in Runs : pc'[r] # pc[r] => r = generation /\ pc'[r] = "begin"
    BY <1>0, <1>b DEF start_spawn, TypeOK
  <2> QED
    BY <2>1, <2>2, <2>3, CInvFrame
<1>c. ASSUME NEW r \in Runs,
             connect(r) \/ connect_retry(r) \/ connect_fatal(r) \/ connected(r)
      PROVE  CInv'
  <2>1. ~SessionUp(r) /\ pc[r] # "lost"
    BY <1>c DEF connect, connect_retry, connect_fatal, connected, At, SessionUp
  <2>2. /\ UNCHANGED <<inbox, current, calls>>
        /\ \A q \in Runs : pc'[q] # pc[q] =>
             /\ q = r /\ pc[q] \in {"begin", "sleep", "connect"}
             /\ pc'[q] \in {"connect", "sleep", "tick", "returning"}
    BY <1>0, <1>c DEF connect, connect_retry, connect_fatal, connected, At, MoveTo, TypeOK
  <2> QED
    BY <2>1, <2>2, NothingOwed, CInvFrame
<1>d. ASSUME NEW r \in Runs, poll_loop_return(r)
      PROVE  CInv'
  <2>1. ~SessionUp(r) /\ pc[r] = "returning"
    BY <1>d DEF poll_loop_return, At, SessionUp
  <2>2. /\ inbox[r] = <<>> /\ current[r] = NoCommand
        /\ Queues[r] = {} /\ \A k \in Commands : ~Has(r, k)
    BY <2>1, NothingOwed
  <2>3. UNCHANGED <<inbox, current, calls>>
    BY <1>0, <1>d, <2>2 DEF poll_loop_return, Finish, Reply, TypeOK
  <2>4. \A q \in Runs : pc'[q] # pc[q] => q = r /\ pc'[q] = "ended"
    BY <1>0, <1>d DEF poll_loop_return, Finish, TypeOK
  <2> QED
    BY <2>1, <2>2, <2>3, <2>4, CInvFrame
<1>e. ASSUME NEW r \in Runs, tick_ok(r) \/ next_refresh(r)
      PROVE  CInv'
  <2>1. /\ UNCHANGED <<inbox, current, calls>>
        /\ \A q \in Runs : pc'[q] # pc[q] =>
             pc[q] \in {"tick", "gap"} /\ pc'[q] \in {"tick", "gap"}
    BY <1>0, <1>e DEF tick_ok, next_refresh, At, MoveTo, TypeOK
  <2> QED
    BY <2>1, CInvFrame DEF SessionUp
<1>f. ASSUME NEW r \in Runs, drained(r)
      PROVE  CInv'
  <2>1. /\ UNCHANGED <<inbox, calls>>
        /\ pc[r] = "lost" /\ current[r] = NoCommand
    BY <1>0, <1>f DEF drained, At, Busy
  <2>2. \/ Finish(r)
        \/ MoveTo(r, "sleep") /\ UNCHANGED current
    BY <1>f, Zenon DEF drained
  <2>3. /\ UNCHANGED current
        /\ \A q \in Runs : pc'[q] # pc[q] => q = r /\ pc'[q] \in {"ended", "sleep"}
    BY <1>0, <2>1, <2>2 DEF Finish, MoveTo, TypeOK
  <2> QED
    BY <2>1, <2>3, CInvFrame DEF SessionUp
<1> USE DEF CInv, OwedOnce, OwedAccepted, HostHas, Told, HonestAnswers, WithdrawnNeverRuns,
      Has, SessionUp
<1>g. ASSUME NEW k \in Commands, run_command_lookup(k) \/ run_command_refuse(k)
      PROVE  CInv'
  <2>1. Queues' = Queues
    BY <1>g DEF run_command_lookup, run_command_refuse, Queues
  <2>2. \A r \in Runs : ~Has(r, k)
    BY <1>g DEF run_command_lookup, run_command_refuse
  <2>3. /\ \A q \in Commands : q # k => call'[q] = call[q]
        /\ call[k] \in {"new", "looking"} /\ call'[k] \in {"looking", "refused"}
        /\ UNCHANGED <<pc, current, inbox, against, ran, withdrawn>>
    BY <1>0, <1>g DEF run_command_lookup, run_command_refuse, TypeOK
  <2>4. OwedOnce' /\ HostHas' /\ WithdrawnNeverRuns'
    BY <2>1, <2>3
  <2>5. OwedAccepted'
    BY <2>1, <2>2, <2>3
  <2>6. Told' /\ HonestAnswers'
    BY <2>3
  <2> QED
    BY <2>4, <2>5, <2>6
<1>h. ASSUME NEW k \in Commands, run_command_timeout(k)
      PROVE  CInv'
  <2>1. Queues' = Queues
    BY <1>h DEF run_command_timeout, Queues
  <2>2. \A q \in Commands : q \in withdrawn' /\ q \notin withdrawn =>
          q = k /\ \E r \in Runs : k \in Queues[r]
    BY <1>0, <1>h DEF run_command_timeout
  <2> QED
    BY <1>0, <1>h, <2>1, <2>2 DEF run_command_timeout, TypeOK
<1>i. ASSUME NEW k \in Commands, run_command_send(k)
      PROVE  CInv'
  <2>1. \A q \in Runs : ~Has(q, k)
    BY <1>i DEF run_command_send
  <2>2. slot \in Runs /\ SessionUp(slot)
    BY <1>0, <1>i DEF run_command_send, Accepts, Running, IInv, Ownership, Slotted, TypeOK,
       OnlineHasSession, TaskLockFree, Stopping, Holding, NoRun
  <2>3. /\ Once(Append(inbox[slot], k))
        /\ Elems(Append(inbox[slot], k)) = Elems(inbox[slot]) \union {k}
    <3>1. inbox[slot] \in Seq(Commands) /\ Once(inbox[slot]) /\ k \notin Elems(inbox[slot])
      BY <1>0, <2>1, <2>2 DEF TypeOK, Queues
    <3> QED
      BY <3>1, AppendElems
  <2>4. /\ Queues' = [Queues EXCEPT ![slot] = @ \union {k}]
        /\ \A q \in Runs : Once(inbox'[q])
    <3>1. inbox' = [inbox EXCEPT ![slot] = Append(inbox[slot], k)]
      BY <1>i DEF run_command_send
    <3>2. Append(inbox[slot], k) \in Seq(Commands)
      BY <1>0, <2>2 DEF TypeOK
    <3>3. Elems(inbox[slot]) = Queues[slot]
      BY <2>2 DEF Queues
    <3>4. \A q \in Runs : Once(inbox[q])
      OBVIOUS
    <3>5. /\ Queues' = [Queues EXCEPT ![slot] = Elems(Append(inbox[slot], k))]
          /\ \A q \in Runs : Once(inbox'[q])
      BY ONLY <1>0, <2>2, <2>3, <3>1, <3>2, <3>4, QueueChange
    <3> QED
      BY ONLY <2>3, <3>3, <3>5, Zenon
  <2> QED
    BY <1>0, <1>i, <2>1, <2>2, <2>4 DEF run_command_send, TypeOK
<1>j. ASSUME NEW r \in Runs,
             command_lost(r) \/ \E recoverable \in BOOLEAN : tick_failed(r, recoverable)
      PROVE  CInv'
  <2>1. Queues' = Queues
    BY <1>j DEF tick_failed, command_lost, Queues
  <2>2. /\ pc' = [pc EXCEPT ![r] = "lost"] /\ pc[r] \in {"tick", "failing"}
        /\ UNCHANGED <<current, call, ran, withdrawn, inbox>>
    BY <1>j DEF tick_failed, command_lost, At, publish_loss, MoveTo
  <2>3. \A k \in Commands : against'[k] = IF Has(r, k) THEN "gone" ELSE against[k]
    BY <1>0, <1>j DEF tick_failed, command_lost, publish_loss, LoseSession
  <2> QED
    BY <1>0, <2>1, <2>2, <2>3 DEF TypeOK
<1>k. ASSUME NEW r \in Runs, command_write(r)
      PROVE  CInv'
  <2>1. Queues' = Queues
    BY <1>k DEF command_write, Queues
  <2>2. current[r] \in Commands /\ Has(r, current[r]) /\ pc[r] = "command"
    BY <1>0, <1>k DEF command_write, At, Busy, TypeOK
  <2>3. /\ ran' = ran \union {current[r]} /\ pc' = [pc EXCEPT ![r] = "answer"]
        /\ UNCHANGED <<current, inbox, call, against, withdrawn>>
    BY <1>k DEF command_write, MoveTo
  <2>4. OwedOnce' /\ OwedAccepted'
    BY <1>0, <2>1, <2>2, <2>3 DEF TypeOK
  <2>5. HostHas'
    <3>1. \A q \in Runs : q # r => current[q] # current[r]
      BY <2>2
    <3>2. \A q \in Runs : current[r] \notin Queues[q]
      BY <2>2
    <3> QED
      BY <1>0, <2>1, <2>2, <2>3, <3>1, <3>2 DEF TypeOK
  <2>6. call[current[r]] \in {"waiting", "timedout"} /\ current[r] \notin withdrawn
    BY <2>2
  <2>7. Told' /\ HonestAnswers' /\ WithdrawnNeverRuns'
    BY <2>3, <2>6
  <2> QED
    BY <2>4, <2>5, <2>7
<1>l. ASSUME NEW r \in Runs, command_ok(r)
      PROVE  CInv'
  <2>1. Queues' = Queues
    BY <1>l DEF command_ok, Queues
  <2>2. current[r] \in Commands /\ Has(r, current[r]) /\ pc[r] = "answer"
    BY <1>0, <1>l DEF command_ok, At, Busy, TypeOK
  <2> QED
    BY <1>0, <1>l, <2>1, <2>2 DEF command_ok, MoveTo, Reply, TypeOK
<1>m. ASSUME NEW r \in Runs, NEW recoverable \in BOOLEAN, command_failed(r, recoverable)
      PROVE  CInv'
  <2>1. Queues' = Queues
    BY <1>m DEF command_failed, Queues
  <2>2. current[r] \in Commands /\ Has(r, current[r]) /\ pc[r] \in {"command", "answer"}
    BY <1>0, <1>m DEF command_failed, At, Busy, TypeOK
  <2> QED
    BY <1>0, <1>m, <2>1, <2>2 DEF command_failed, MoveTo, Reply, TypeOK
<1>n. ASSUME NEW r \in Runs, inbox[r] # <<>>, inbox' = [inbox EXCEPT ![r] = Tail(@)]
      PROVE  /\ Head(inbox[r]) \in Queues[r] /\ Head(inbox[r]) \in Commands
             /\ Queues' = [Queues EXCEPT ![r] = @ \ {Head(inbox[r])}]
             /\ \A q \in Runs : Once(inbox'[q])
  <2>1. /\ Once(Tail(inbox[r]))
        /\ Elems(Tail(inbox[r])) = Elems(inbox[r]) \ {Head(inbox[r])}
        /\ Head(inbox[r]) \in Elems(inbox[r])
        /\ Elems(inbox[r]) \subseteq Commands
    BY <1>0, <1>n, TailElems DEF TypeOK
  <2>2. Tail(inbox[r]) \in Seq(Commands) /\ Elems(inbox[r]) = Queues[r]
    BY <1>0, <1>n DEF TypeOK, Queues
  <2>3. \A q \in Runs : Once(inbox[q])
    OBVIOUS
  <2>4. /\ Queues' = [Queues EXCEPT ![r] = Elems(Tail(inbox[r]))]
        /\ \A q \in Runs : Once(inbox'[q])
    BY ONLY <1>0, <1>n, <2>1, <2>2, <2>3, QueueChange
  <2> QED
    BY ONLY <2>1, <2>2, <2>4, Zenon
<1>o. ASSUME NEW r \in Runs, drain(r)
      PROVE  CInv'
  <2>1. /\ Head(inbox[r]) \in Queues[r] /\ Head(inbox[r]) \in Commands
        /\ Queues' = [Queues EXCEPT ![r] = @ \ {Head(inbox[r])}]
        /\ \A q \in Runs : Once(inbox'[q])
    BY <1>n, <1>o DEF drain, Drained
  <2>2. pc[r] = "lost" /\ current[r] = NoCommand
    BY <1>0, <1>o DEF drain, At, Busy
  <2> QED
    BY <1>0, <1>o, <2>1, <2>2 DEF drain, Reply, TypeOK
<1>p. ASSUME NEW r \in Runs, take_job(r)
      PROVE  CInv'
  <2>1. /\ Head(inbox[r]) \in Queues[r] /\ Head(inbox[r]) \in Commands
        /\ Queues' = [Queues EXCEPT ![r] = @ \ {Head(inbox[r])}]
        /\ \A q \in Runs : Once(inbox'[q])
    BY <1>n, <1>p DEF take_job
  <2>2. pc[r] = "gap" /\ current[r] = NoCommand /\ UNCHANGED calls
    BY <1>0, <1>p DEF take_job, At, Busy
  <2>3. CASE Wanted(Head(inbox[r]))
    <3>1. /\ current' = [current EXCEPT ![r] = Head(inbox[r])]
          /\ pc' = [pc EXCEPT ![r] = "command"]
      BY <1>p, <2>3 DEF take_job, MoveTo
    <3>2. call[Head(inbox[r])] = "waiting"
      BY <2>3 DEF Wanted
    <3> QED
      BY <1>0, <2>1, <2>2, <3>1, <3>2 DEF TypeOK
  <2>4. CASE ~Wanted(Head(inbox[r]))
    <3>1. UNCHANGED <<current, pc>>
      BY <1>p, <2>4 DEF take_job
    <3> QED
      BY <1>0, <2>1, <2>2, <3>1 DEF TypeOK
  <2> QED
    BY <2>3, <2>4
<1>q. ASSUME NEW r \in Runs, abort_lands(r)
      PROVE  CInv'
  <2>1. /\ UNCHANGED <<ran, withdrawn>>
        /\ current' = [current EXCEPT ![r] = NoCommand]
        /\ pc' = [pc EXCEPT ![r] = "ended"]
    BY <1>q DEF abort_lands, Finish
  <2>2. /\ Queues' = [Queues EXCEPT ![r] = {}]
        /\ \A q \in Runs : Once(inbox'[q])
    <3>1. inbox' = [inbox EXCEPT ![r] = <<>>] /\ <<>> \in Seq(Commands)
      BY <1>q DEF abort_lands
    <3>2. \A q \in Runs : Once(inbox[q])
      OBVIOUS
    <3> QED
      BY ONLY <1>0, <1>q, <3>1, <3>2, EmptyElems, QueueChange
  <2>3. \A k \in Commands :
          /\ against'[k] = IF Has(r, k) THEN "gone" ELSE against[k]
          /\ call'[k] = IF Has(r, k) /\ call[k] = "waiting" THEN "dropped" ELSE call[k]
    BY <1>0, <1>q DEF abort_lands, Reply, LoseSession
  <2> QED
    BY <1>0, <2>1, <2>2, <2>3 DEF TypeOK
<1> QED
  BY <1>a, <1>b, <1>c, <1>d, <1>e, <1>f, <1>g, <1>h, <1>i, <1>j, <1>k, <1>l, <1>m, <1>o,
     <1>p, <1>q
  DEF Next, Controller, Caller, poll_loop

-----------------------------------------------------------------------------
(* The account of every command is straight in every reachable state.      *)
THEOREM CommandInvariant == Spec => [](IInv /\ CInv)
<1>1. Init => IInv /\ CInv
  BY IInvInit, CInvInit
<1>2. IInv /\ CInv /\ [Next]_vars => CInv'
  BY CInvStep
<1> QED
  BY <1>1, <1>2, InductiveInvariant, PTL DEF Spec

(* "Was not run" is said only of commands the host never had, whatever the *)
(* threads do and however many sessions, commands and runs there are.      *)
THEOREM AnswersAreHonest == Spec => []HonestAnswers
<1>1. CInv => HonestAnswers
  BY DEF CInv
<1> QED
  BY <1>1, CommandInvariant, PTL

(* A command given up while it was queued never runs.                      *)
THEOREM WithdrawnIsFinal == Spec => []WithdrawnNeverRuns
<1>1. CInv => WithdrawnNeverRuns
  BY DEF CInv
<1> QED
  BY <1>1, CommandInvariant, PTL

-----------------------------------------------------------------------------
(* What a reply does to what callers can tell.                             *)
LEMMA AnswerToReply ==
  ASSUME TypeOK, NEW K, NEW outcome \in Outcomes, Reply(K, outcome)
  PROVE  Answer' = [k \in Commands |->
                      IF k \in K /\ Answer[k] = "accepted" THEN outcome ELSE Answer[k]]
  BY DEF TypeOK, Outcomes, Reply, Answer

(* A call can tell it was accepted exactly while it waits.                 *)
LEMMA AnswerIs ==
  ASSUME TypeOK, NEW k \in Commands
  PROVE  /\ Answer[k] = "accepted" <=> call[k] = "waiting"
         /\ Answer[k] = "pending" <=> call[k] \in {"new", "looking"}
         /\ Answer[k] = "timedout" <=> call[k] = "timedout"
  BY DEF TypeOK, Outcomes, Answer

(* The first state of TargetPoller is one of the contract.                 *)
LEMMA ContractInit == Init => Contract!Init
  BY DEF Init, Contract!Init, Contract!Pending, Answer

(* Every step of TargetPoller is a step of the contract, or none at all.   *)
LEMMA ContractStep == IInv /\ CInv /\ [Next]_vars => [Contract!Next]_(Contract!vars)
<1> SUFFICES ASSUME IInv, CInv, [Next]_vars PROVE Contract!Next \/ UNCHANGED Contract!vars
  OBVIOUS
<1> USE ConstantsAssumption DEF ui, shared, shown, task, calls
<1>0. /\ TypeOK /\ Busy
      /\ Queues \in [Runs -> SUBSET Commands]
      /\ \A r \in Runs : Queued(r) = Queues[r]
      /\ \A r \in Runs : \A k \in Commands : k \in Owed(r) <=> Has(r, k)
  BY QueuesType DEF IInv, Ownership
<1>1. /\ \A r \in Runs : Owed(r) \subseteq Commands
      /\ \A r \in Runs : \A k \in Owed(r) : against[k] \in {"live", "gone"}
  BY <1>0 DEF CInv, OwedAccepted, Owed, TypeOK, Has
<1>s. ASSUME UNCHANGED calls PROVE UNCHANGED Contract!vars
  BY <1>s DEF Contract!vars, Answer
<1>a. CASE \/ add_target
           \/ \E c \in Controllers : Controller(c)
           \/ UNCHANGED vars
  BY <1>a, <1>s DEF add_target, Controller, target, start_running, start_claim, start_spawn,
     stop_abort, stop_publish, remove_forget, vars
<1>b. ASSUME NEW r \in Runs,
             \/ connect(r) \/ connect_retry(r) \/ connect_fatal(r) \/ connected(r)
             \/ tick_ok(r) \/ next_refresh(r) \/ take_job(r) \/ drained(r)
      PROVE  UNCHANGED Contract!vars
  BY <1>b, <1>s DEF connect, connect_retry, connect_fatal, connected, tick_ok, next_refresh,
     take_job, drained
<1>c. ASSUME NEW r \in Runs, poll_loop_return(r) PROVE UNCHANGED Contract!vars
  <2>1. Queued(r) = {}
    BY <1>0, <1>c, NothingOwed DEF poll_loop_return, At, SessionUp
  <2> QED
    BY <1>0, <1>c, <1>s, <2>1 DEF poll_loop_return, Reply, TypeOK
<1>d. ASSUME NEW k \in Commands, run_command_lookup(k) PROVE UNCHANGED Contract!vars
  BY <1>0, <1>d DEF run_command_lookup, Contract!vars, Answer, TypeOK
<1>e. ASSUME NEW k \in Commands, run_command_refuse(k) PROVE Contract!Refuse(k)
  BY <1>0, <1>e DEF run_command_refuse, Contract!Refuse, Contract!Pending, Answer, TypeOK
<1>f. ASSUME NEW k \in Commands, run_command_send(k) PROVE Contract!Accept(k)
  <2>1. SessionUp(slot)
    BY <1>0, <1>f DEF run_command_send, Accepts, Running, IInv, Ownership, Slotted, TypeOK,
       OnlineHasSession, TaskLockFree, Stopping, Holding, NoRun
  <2> QED
    BY <1>0, <1>f, <2>1
    DEF run_command_send, Contract!Accept, Contract!Pending, Contract!Accepted, Answer, TypeOK
<1>g. ASSUME NEW k \in Commands, run_command_timeout(k) PROVE Contract!GiveUp(k)
  <2>1. /\ Answer' = [Answer EXCEPT ![k] = "timedout"]
        /\ Answer[k] = "accepted"
    BY <1>0, <1>g DEF run_command_timeout, Answer, TypeOK
  <2>2. withdrawn' \in {withdrawn, withdrawn \union ({k} \ ran)}
    <3>1. CASE \E r \in Runs : k \in Queued(r)
      <4>1. k \notin ran
        BY <1>0, <3>1 DEF CInv, HostHas
      <4> QED
        BY <1>g, <3>1, <4>1 DEF run_command_timeout
    <3>2. CASE ~\E r \in Runs : k \in Queued(r)
      BY <1>g, <3>2 DEF run_command_timeout
    <3> QED
      BY <3>1, <3>2
  <2> QED
    BY <1>g, <2>1, <2>2 DEF run_command_timeout, Contract!GiveUp, Contract!Accepted
<1>h. ASSUME NEW r \in Runs, command_write(r) PROVE Contract!Run(current[r])
  <2>1. current[r] \in Commands /\ Has(r, current[r]) /\ pc[r] = "command"
    BY <1>0, <1>h DEF command_write, At, Busy, TypeOK, Has
  <2>2. /\ call[current[r]] \in {"waiting", "timedout"} /\ against[current[r]] = "live"
        /\ current[r] \notin ran \union withdrawn
    BY <2>1 DEF CInv, OwedAccepted, HostHas, SessionUp
  <2>3. Answer' = Answer
    BY <1>h DEF command_write, Answer
  <2> QED
    BY <1>0, <1>h, <2>1, <2>2, <2>3, AnswerIs
    DEF command_write, Contract!Run, Contract!Accepted
<1>i. ASSUME NEW r \in Runs, command_ok(r)
      PROVE  current[r] \in Commands /\ (Contract!Answer(current[r]) \/ UNCHANGED Contract!vars)
  <2>1. current[r] \in Commands /\ current[r] \in ran
    BY <1>0, <1>i DEF command_ok, At, Busy, TypeOK, CInv, HostHas
  <2>2. Answer' = [k \in Commands |->
                     IF k = current[r] /\ Answer[k] = "accepted" THEN "ok" ELSE Answer[k]]
    <3>1. Reply({current[r]}, "ok") /\ "ok" \in Outcomes
      BY <1>i DEF command_ok, Outcomes
    <3> QED
      BY <1>0, <3>1, AnswerToReply
  <2>3. /\ Answer = [k \in Commands |-> Answer[k]]
        /\ UNCHANGED <<against, ran, withdrawn>>
    BY <1>i DEF command_ok, Answer
  <2>4. CASE Answer[current[r]] = "accepted"
    BY <2>1, <2>2, <2>3, <2>4 DEF Contract!Answer, Contract!Accepted
  <2>5. CASE Answer[current[r]] # "accepted"
    BY <2>1, <2>2, <2>3, <2>5 DEF Contract!vars
  <2> QED
    BY <2>1, <2>4, <2>5
<1>j. ASSUME NEW r \in Runs,
             command_lost(r) \/ \E recoverable \in BOOLEAN : tick_failed(r, recoverable)
      PROVE  Contract!SessionEnds(Owed(r), {})
  <2>1. Answer' = Answer /\ Answer = [k \in Commands |-> Answer[k]]
    BY <1>j DEF tick_failed, command_lost, Answer
  <2> QED
    BY <1>1, <1>j, <2>1
    DEF tick_failed, command_lost, publish_loss, LoseSession, Contract!SessionEnds
<1>k. ASSUME NEW r \in Runs, NEW recoverable \in BOOLEAN, command_failed(r, recoverable)
      PROVE  current[r] \in Commands /\ (Contract!Fail(current[r]) \/ UNCHANGED Contract!vars)
  <2>1. current[r] \in Commands /\ against[current[r]] = "live"
    BY <1>0, <1>k DEF command_failed, At, Busy, TypeOK, Has, CInv, OwedAccepted, SessionUp
  <2>2. Answer' = [k \in Commands |->
                     IF k = current[r] /\ Answer[k] = "accepted" THEN "failed" ELSE Answer[k]]
    <3>1. Reply({current[r]}, "failed") /\ "failed" \in Outcomes
      BY <1>k DEF command_failed, Outcomes
    <3> QED
      BY <1>0, <3>1, AnswerToReply
  <2>3. /\ Answer = [k \in Commands |-> Answer[k]]
        /\ UNCHANGED <<against, ran, withdrawn>>
    BY <1>k DEF command_failed, Answer
  <2>4. Answer[current[r]] = "accepted" => Contract!Fail(current[r])
    BY <2>1, <2>2, <2>3 DEF Contract!Fail, Contract!Accepted
  <2>5. Answer[current[r]] # "accepted" => UNCHANGED Contract!vars
    BY <2>1, <2>2, <2>3 DEF Contract!vars
  <2> QED
    BY <2>1, <2>4, <2>5
<1>l. ASSUME NEW r \in Runs, abort_lands(r)
      PROVE  \E T \in SUBSET Owed(r) : Contract!SessionEnds(Owed(r), T)
  <2> DEFINE T == {k \in Owed(r) : Answer[k] = "accepted"}
  <2>1. Answer' = [k \in Commands |->
                     IF k \in Owed(r) /\ Answer[k] = "accepted" THEN "dropped" ELSE Answer[k]]
    <3>1. Reply(Owed(r), "dropped") /\ "dropped" \in Outcomes
      BY <1>l DEF abort_lands, Outcomes
    <3> QED
      BY <1>0, <3>1, AnswerToReply
  <2>2. Answer' = [k \in Commands |-> IF k \in T THEN "dropped" ELSE Answer[k]]
    BY <2>1
  <2>3. Contract!SessionEnds(Owed(r), T)
    BY <1>1, <1>l, <2>2 DEF abort_lands, LoseSession, Contract!SessionEnds, Contract!Accepted
  <2> QED
    BY <2>3
<1>m. ASSUME NEW r \in Runs, drain(r)
      PROVE  /\ Head(inbox[r]) \in Commands
             /\ Contract!TurnAway(Head(inbox[r])) \/ UNCHANGED Contract!vars
  <2> DEFINE h == Head(inbox[r])
  <2>1. h \in Queues[r] /\ h \in Commands
    <3>1. inbox[r] # <<>> /\ inbox[r] \in Seq(Commands) /\ Once(inbox[r])
      BY <1>0, <1>m DEF drain, Drained, TypeOK, CInv, OwedOnce
    <3>2. h \in Elems(inbox[r]) /\ Elems(inbox[r]) \subseteq Commands
      BY <3>1, TailElems
    <3> QED
      BY <3>2 DEF Queues
  <2>2. h \notin ran /\ against[h] = "gone"
    BY <1>m, <2>1 DEF drain, At, CInv, HostHas, OwedAccepted, Has, SessionUp
  <2>3. Answer' = [k \in Commands |->
                     IF k = h /\ Answer[k] = "accepted" THEN "notrun" ELSE Answer[k]]
    <3>1. Reply({h}, "notrun") /\ "notrun" \in Outcomes
      BY <1>m DEF drain, Outcomes
    <3> HIDE DEF h
    <3> QED
      BY <1>0, <3>1, AnswerToReply
  <2>4. /\ Answer = [k \in Commands |-> Answer[k]]
        /\ UNCHANGED <<against, ran, withdrawn>>
    BY <1>m DEF drain, Answer
  <2> HIDE DEF h
  <2>5. Answer[h] = "accepted" => Contract!TurnAway(h)
    BY <2>1, <2>2, <2>3, <2>4 DEF Contract!TurnAway, Contract!Accepted
  <2>6. Answer[h] # "accepted" => UNCHANGED Contract!vars
    BY <2>1, <2>3, <2>4 DEF Contract!vars
  <2> QED
    BY <2>1, <2>5, <2>6 DEF h
<1> HIDE DEF ui, shared, shown, task, calls
<1>n. ASSUME NEW r \in Runs, poll_loop(r) PROVE Contract!Next \/ UNCHANGED Contract!vars
  <2>1. ASSUME NEW T \in SUBSET Owed(r), Contract!SessionEnds(Owed(r), T)
        PROVE  Contract!Next
    BY <1>1, <2>1 DEF Contract!Next
  <2>2. CASE command_write(r)
    <3>1. current[r] \in Commands
      BY <1>0, <2>2 DEF command_write, At, Busy, TypeOK
    <3> QED
      BY <1>h, <2>2, <3>1 DEF Contract!Next
  <2>3. CASE command_ok(r)
    BY <1>i, <2>3 DEF Contract!Next
  <2>4. CASE drain(r)
    BY <1>m, <2>4 DEF Contract!Next
  <2>5. CASE \E recoverable \in BOOLEAN : command_failed(r, recoverable)
    BY <1>k, <2>5 DEF Contract!Next
  <2> QED
    BY <1>b, <1>c, <1>j, <1>l, <1>n, <2>1, <2>2, <2>3, <2>4, <2>5 DEF poll_loop
<1>o. ASSUME NEW k \in Commands, Caller(k) PROVE Contract!Next \/ UNCHANGED Contract!vars
  BY <1>d, <1>e, <1>f, <1>g, <1>o DEF Caller, Contract!Next
<1> QED
  BY <1>a, <1>n, <1>o DEF Next

(* The tasks, the queues and the locks of lib.rs keep the contract of      *)
(* run_command.                                                            *)
THEOREM Implements == Spec => KeepsContract
<1>1. Init => Contract!Init
  BY ContractInit
<1>2. IInv /\ CInv /\ [Next]_vars => [Contract!Next]_(Contract!vars)
  BY ContractStep
<1> QED
  BY <1>1, <1>2, CommandInvariant, PTL DEF Spec, KeepsContract, Contract!Spec

(* A command is only ever handed to the session it was typed against.      *)
THEOREM NeverLate == Spec => NoLateCommand
<1>1. IInv /\ CInv /\ [Next]_vars
        => [\A k \in ran' \ ran : against[k] = "live"]_vars
  <2> SUFFICES ASSUME IInv, CInv, [Next]_vars, NEW k \in ran' \ ran
               PROVE  against[k] = "live"
    OBVIOUS
  <2>1. PICK r \in Runs : command_write(r)
    BY DEF Next, add_target, Controller, target, start_running, start_claim, start_spawn,
       stop_abort, stop_publish, remove_forget, vars, Caller, run_command_lookup,
       run_command_send, run_command_refuse, run_command_timeout, poll_loop, connect,
       connect_retry, connect_fatal, poll_loop_return, connected, tick_ok, tick_failed,
       next_refresh, take_job, command_ok, command_failed, command_lost, drain, drained,
       abort_lands, calls
  <2>2. k = current[r] /\ pc[r] = "command"
    BY <2>1 DEF command_write, At
  <2>3. TypeOK /\ Busy
    BY DEF IInv, Ownership
  <2>4. k \in Commands /\ Has(r, k)
    BY <2>2, <2>3 DEF Busy, TypeOK, Has
  <2> QED
    BY <2>2, <2>4 DEF CInv, OwedAccepted, SessionUp
<1> QED
  BY <1>1, CommandInvariant, PTL DEF Spec, NoLateCommand
=============================================================================
