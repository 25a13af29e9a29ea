--------------------------- MODULE LinuxAppProofs ---------------------------
(***************************************************************************)
(* What the Linux application keeps on disk: the file goes from one        *)
(* complete list to the next, what is not in it was reported, and a        *)
(* transfer writes back every key it read; and what it keeps of servers in *)
(* memory: nothing of one that was removed, targets of the records as they *)
(* are now, every record through a transfer.  For any servers, payloads    *)
(* and keys.                                                               *)
(***************************************************************************)
EXTENDS LinuxApp, SequenceFacts

(* What is left of a save, and of a write of the pins, at each of its steps. *)
Saves == {save, <<"open_tmp", "write", "rename">>, <<"write", "rename">>, <<"rename">>}
PinWrites == {write_known_hosts, <<"write_pins">>}

(* A handler makes one save, or apply its save, its pins and on_change's   *)
(* save; while the application is down nothing is left to do.              *)
JobsOK ==
  /\ \/ jobs = <<>>
     \/ \E s \in Saves : jobs = <<s>> \/ jobs = <<s, write_known_hosts, save>>
     \/ \E k \in PinWrites : jobs = <<k, save>>
  /\ ~up => jobs = <<>>

(* A save that is past its check has found a file it could load.           *)
Checked ==
  \A step \in {"open_tmp", "write", "rename"} : AtStep(step) => file.kind # "damaged"

FileOK == file = [kind |-> file.kind, hosts |-> file.hosts]

(* The keys of a plan that were read are the ones it will write back.      *)
PlanOK == \A a \in Addrs : plan.read[a] \in {NoKey, plan.result[a]}

IInv == JobsOK /\ Checked /\ FileOK /\ PlanOK /\ SavedOrReported

(* The head of what a handler still has to do, and the rest of it.         *)
LEMMA JobShapes ==
  ASSUME NEW s, NEW k, NEW m, NEW x
  PROVE  /\ <<s>> # <<>> /\ <<s>>[1] = s /\ Tail(<<s>>) = <<>>
         /\ <<s, k>> # <<>> /\ <<s, k>>[1] = s /\ Tail(<<s, k>>) = <<k>>
         /\ <<s, k, m>> # <<>> /\ <<s, k, m>>[1] = s /\ Tail(<<s, k, m>>) = <<k, m>>
         /\ [<<s>> EXCEPT ![1] = x] = <<x>>
         /\ [<<s, k>> EXCEPT ![1] = x] = <<x, k>>
         /\ [<<s, k, m>> EXCEPT ![1] = x] = <<x, k, m>>
<1>1. <<s>> # <<>> /\ <<s>>[1] = s
  OBVIOUS
<1>2. <<s, k>> # <<>> /\ <<s, k>>[1] = s
  OBVIOUS
<1>3. <<s, k, m>> # <<>> /\ <<s, k, m>>[1] = s
  OBVIOUS
<1>4. Tail(<<s>>) = <<>>
  OBVIOUS
<1>5. Tail(<<s, k>>) = <<k>>
  OBVIOUS
<1>6. Tail(<<s, k, m>>) = <<k, m>>
  OBVIOUS
<1>7. [<<s>> EXCEPT ![1] = x] = <<x>>
  OBVIOUS
<1>8. [<<s, k>> EXCEPT ![1] = x] = <<x, k>>
  OBVIOUS
<1>9. [<<s, k, m>> EXCEPT ![1] = x] = <<x, k, m>>
  OBVIOUS
<1> QED
  BY <1>1, <1>2, <1>3, <1>4, <1>5, <1>6, <1>7, <1>8, <1>9

(* The steps of a save and of a write of the pins, in their order.         *)
LEMMA Steps ==
  /\ save[1] = "check" /\ Len(save) # 1 /\ Tail(save) = <<"open_tmp", "write", "rename">>
  /\ <<"open_tmp", "write", "rename">>[1] = "open_tmp"
  /\ Len(<<"open_tmp", "write", "rename">>) # 1
  /\ Tail(<<"open_tmp", "write", "rename">>) = <<"write", "rename">>
  /\ <<"write", "rename">>[1] = "write" /\ Len(<<"write", "rename">>) # 1
  /\ Tail(<<"write", "rename">>) = <<"rename">>
  /\ <<"rename">>[1] = "rename" /\ Len(<<"rename">>) = 1
  /\ write_known_hosts[1] = "truncate" /\ Len(write_known_hosts) # 1
  /\ Tail(write_known_hosts) = <<"write_pins">>
  /\ <<"write_pins">>[1] = "write_pins" /\ Len(<<"write_pins">>) = 1
<1>1. save[1] = "check" /\ Len(save) # 1
  BY DEF save
<1>2. Tail(save) = <<"open_tmp", "write", "rename">>
  BY DEF save
<1>3. /\ <<"open_tmp", "write", "rename">>[1] = "open_tmp"
      /\ Len(<<"open_tmp", "write", "rename">>) # 1
  OBVIOUS
<1>4. write_known_hosts[1] = "truncate" /\ Len(write_known_hosts) # 1
  BY DEF write_known_hosts
<1>5. <<"write", "rename">>[1] = "write" /\ Len(<<"write", "rename">>) # 1
  OBVIOUS
<1>6. <<"rename">>[1] = "rename" /\ Len(<<"rename">>) = 1
  OBVIOUS
<1>7. <<"write_pins">>[1] = "write_pins" /\ Len(<<"write_pins">>) = 1
  OBVIOUS
<1> QED
  BY <1>1, <1>2, <1>3, <1>4, <1>5, <1>6, <1>7, JobShapes DEF write_known_hosts

(* A save goes on until its rename, a write of the pins is two steps.      *)
LEMMA JobSteps ==
  /\ save \in Saves /\ write_known_hosts \in PinWrites
  /\ \A s \in Saves : \/ s[1] = "rename" /\ Len(s) = 1
                      \/ /\ s[1] \in {"check", "open_tmp", "write"} /\ Len(s) # 1
                         /\ Tail(s) \in Saves
  /\ \A k \in PinWrites : \/ k[1] = "write_pins" /\ Len(k) = 1
                          \/ /\ k[1] = "truncate" /\ Len(k) # 1
                             /\ Tail(k) \in PinWrites /\ Tail(k)[1] = "write_pins"
  BY Steps DEF Saves, PinWrites

(* A step that is made leads to the next one of the same job, and the last *)
(* one to the next job.                                                    *)
LEMMA Advancing ==
  ASSUME JobsOK, up, up', jobs # <<>>, Advance
  PROVE  /\ JobsOK'
         /\ jobs[1][1] # "rename" => jobs' # <<>>
         /\ jobs[1][1] \in {"rename", "truncate", "write_pins"} =>
              jobs' = <<>> \/ jobs'[1][1] \in {"check", "truncate", "write_pins"}
<1>1. ASSUME NEW s \in Saves, jobs = <<s>>
      PROVE  \/ jobs' = <<>> /\ s[1] = "rename"
             \/ \E t \in Saves : jobs' = <<t>> /\ s[1] # "rename"
  <2>1. jobs[1] = s /\ Tail(jobs) = <<>> /\ [jobs EXCEPT ![1] = Tail(jobs[1])] = <<Tail(s)>>
    BY <1>1, JobShapes
  <2> QED
    BY <2>1, JobSteps DEF Advance
<1>2. ASSUME NEW s \in Saves, jobs = <<s, write_known_hosts, save>>
      PROVE  \/ jobs' = <<write_known_hosts, save>> /\ s[1] = "rename"
             \/ \E t \in Saves : jobs' = <<t, write_known_hosts, save>> /\ s[1] # "rename"
  <2>1. /\ jobs[1] = s /\ Tail(jobs) = <<write_known_hosts, save>>
        /\ [jobs EXCEPT ![1] = Tail(jobs[1])] = <<Tail(s), write_known_hosts, save>>
    BY <1>2, JobShapes
  <2> QED
    BY <2>1, JobSteps DEF Advance
<1>3. ASSUME NEW k \in PinWrites, jobs = <<k, save>>
      PROVE  \/ jobs' = <<save>>
             \/ \E t \in PinWrites : jobs' = <<t, save>> /\ t[1] = "write_pins"
  <2>1. /\ jobs[1] = k /\ Tail(jobs) = <<save>>
        /\ [jobs EXCEPT ![1] = Tail(jobs[1])] = <<Tail(k), save>>
    BY <1>3, JobShapes
  <2> QED
    BY <2>1, JobSteps DEF Advance
<1>4. CASE \E s \in Saves : jobs = <<s>>
  <2>1. PICK s \in Saves : jobs = <<s>>
    BY <1>4
  <2>2. jobs[1][1] = s[1] /\ s[1] \notin {"truncate", "write_pins"}
    BY <2>1, JobSteps, JobShapes
  <2> QED
    BY <2>1, <2>2, <1>1, JobShapes DEF JobsOK
<1>5. CASE \E s \in Saves : jobs = <<s, write_known_hosts, save>>
  <2>1. PICK s \in Saves : jobs = <<s, write_known_hosts, save>>
    BY <1>5
  <2>2. jobs[1][1] = s[1] /\ s[1] \notin {"truncate", "write_pins"}
    BY <2>1, JobSteps, JobShapes
  <2>3. CASE jobs' = <<write_known_hosts, save>>
    <3>1. jobs'[1][1] = "truncate" /\ jobs' # <<>>
      BY <2>3, JobShapes, Steps
    <3> QED
      BY <3>1, <2>3, JobSteps DEF JobsOK
  <2>4. CASE \E t \in Saves : jobs' = <<t, write_known_hosts, save>> /\ s[1] # "rename"
    BY <2>2, <2>4, JobShapes DEF JobsOK
  <2> QED
    BY <2>1, <2>3, <2>4, <1>2
<1>6. CASE \E k \in PinWrites : jobs = <<k, save>>
  <2>1. CASE jobs' = <<save>>
    BY <2>1, JobSteps, Steps, JobShapes DEF JobsOK
  <2>2. CASE \E t \in PinWrites : jobs' = <<t, save>> /\ t[1] = "write_pins"
    BY <2>2, JobShapes DEF JobsOK
  <2> QED
    BY <2>1, <2>2, <1>3, <1>6
<1> QED
  BY <1>4, <1>5, <1>6 DEF JobsOK

(* A step that fails ends its job; only a save is the last of them.        *)
LEMMA GivingUp ==
  ASSUME JobsOK, up, up', jobs # <<>>, GiveUp
  PROVE  /\ JobsOK'
         /\ jobs' = <<>> \/ jobs'[1][1] \in {"check", "truncate"}
         /\ jobs[1][1] \in {"truncate", "write_pins"} => jobs' # <<>>
<1>1. CASE \E s \in Saves : jobs = <<s>>
  BY <1>1, Steps, JobShapes DEF GiveUp, JobsOK, Saves, PinWrites
<1>2. CASE \E s \in Saves : jobs = <<s, write_known_hosts, save>>
  BY <1>2, Steps, JobShapes DEF GiveUp, JobsOK, Saves, PinWrites
<1>3. CASE \E k \in PinWrites : jobs = <<k, save>>
  BY <1>3, Steps, JobShapes DEF GiveUp, JobsOK, Saves, PinWrites
<1> QED
  BY <1>1, <1>2, <1>3 DEF JobsOK

(* No step but a disk operation, a launch or the end of the process does   *)
(* more to the disk than record a key; a handler that changes the list     *)
(* begins with nothing left to do and leaves a save to make.               *)
LEMMA Handlers ==
  ASSUME Person \/ Workers
  PROVE  /\ up /\ up' /\ UNCHANGED <<file, reported>>
         /\ \/ UNCHANGED <<jobs, hosts>>
            \/ jobs = <<>> /\ jobs' \in {<<save>>, <<save, write_known_hosts, save>>}
<1> USE DEF UnchangedElse, disk, memory
<1>1. CASE select
  BY <1>1 DEF select, AtMain
<1>2. CASE open_add \/ open_edit \/ open_remove
  BY <1>2 DEF open_add, open_edit, open_remove, Open, AtMain
<1>3. CASE cancel
  BY <1>3 DEF cancel, Top
<1>4. CASE prompt_connect
  BY <1>4 DEF prompt_connect, Top
<1>5. CASE add_host
  BY <1>5 DEF add_host, Top
<1>6. CASE edit_selected
  BY <1>6 DEF edit_selected, Top
<1>7. CASE remove_selected
  BY <1>7 DEF remove_selected, Top
<1>8. CASE submit
  BY <1>8 DEF submit, AtMain
<1>9. CASE receive
  BY <1>9 DEF receive, AtMain
<1>10. CASE compare_codes
  BY <1>10 DEF compare_codes, Top
<1>11. CASE command_answers
  BY <1>11 DEF command_answers
<1>12. CASE code_shown
  BY <1>12 DEF code_shown
<1>13. CASE receive_fails
  BY <1>13 DEF receive_fails
<1>14. CASE apply
  BY <1>14 DEF apply
<1>15. CASE learn
  BY <1>15 DEF learn
<1> QED
  BY <1>1, <1>2, <1>3, <1>4, <1>5, <1>6, <1>7, <1>8, <1>9, <1>10, <1>11, <1>12, <1>13,
     <1>14, <1>15 DEF Person, Workers

(* Only a transfer that arrives makes a plan, from what it could read.     *)
LEMMA HandlersPlan ==
  ASSUME Person \/ Workers
  PROVE  \/ UNCHANGED plan
         \/ \E read \in read_known_hosts : \E theirs :
              plan' = [held |-> pins, read |-> read, result |-> merge_pins(read, theirs)]
<1> USE DEF UnchangedElse, disk, memory
<1>1. CASE select
  BY <1>1 DEF select
<1>2. CASE open_add \/ open_edit \/ open_remove
  BY <1>2 DEF open_add, open_edit, open_remove, Open
<1>3. CASE cancel
  BY <1>3 DEF cancel
<1>4. CASE prompt_connect
  BY <1>4 DEF prompt_connect
<1>5. CASE add_host
  BY <1>5 DEF add_host
<1>6. CASE edit_selected
  BY <1>6 DEF edit_selected
<1>7. CASE remove_selected
  BY <1>7 DEF remove_selected
<1>8. CASE submit
  BY <1>8 DEF submit
<1>9. CASE receive
  BY <1>9 DEF receive
<1>10. CASE compare_codes
  BY <1>10 DEF compare_codes
<1>11. CASE command_answers
  BY <1>11 DEF command_answers
<1>12. CASE code_shown
  BY <1>12 DEF code_shown
<1>13. CASE receive_fails
  BY <1>13 DEF receive_fails
<1>14. CASE apply
  BY <1>14 DEF apply
<1>15. CASE learn
  BY <1>15 DEF learn
<1> QED
  BY <1>1, <1>2, <1>3, <1>4, <1>5, <1>6, <1>7, <1>8, <1>9, <1>10, <1>11, <1>12, <1>13,
     <1>14, <1>15 DEF Person, Workers

(* At first there is no list, no job and no plan.                          *)
LEMMA InitHolds == Init => IInv
<1> SUFFICES ASSUME Init PROVE IInv
  OBVIOUS
<1>1. JobsOK /\ Checked /\ SavedOrReported
  BY DEF Init, JobsOK, Checked, AtStep, SavedOrReported
<1>2. FileOK
  BY DEF Init, FileOK
<1>3. PlanOK
  BY DEF Init, PlanOK, NoPlan, NoPins
<1> QED
  BY <1>1, <1>2, <1>3 DEF IInv

(* Every step keeps the jobs in shape.                                     *)
LEMMA JobsKept == IInv /\ [Next]_vars => JobsOK'
<1> SUFFICES ASSUME IInv, [Next]_vars PROVE JobsOK'
  OBVIOUS
<1> USE DEF IInv, disk, memory
<1>1. ASSUME DiskStep PROVE JobsOK'
  <2>1. up /\ up' /\ jobs # <<>> /\ (Advance \/ GiveUp)
    BY <1>1 DEF DiskStep, save_check, save_open, save_write, save_rename, pins_truncate,
       pins_write, AtStep, Failed
  <2> QED
    BY <2>1, Advancing, GivingUp
<1>2. ASSUME Person \/ Workers PROVE JobsOK'
  BY <1>2, Handlers, JobSteps DEF JobsOK
<1>3. ASSUME Surroundings PROVE JobsOK'
  BY <1>3 DEF Surroundings, launch, crash, Down, file_damaged, file_repaired, JobsOK
<1>4. ASSUME UNCHANGED vars PROVE JobsOK'
  BY <1>4 DEF vars, JobsOK
<1> QED
  BY <1>1, <1>2, <1>3, <1>4 DEF Next

(* Every step leaves the file a record.                                    *)
LEMMA FileKept == IInv /\ [Next]_vars => FileOK'
<1> SUFFICES ASSUME IInv, [Next]_vars PROVE FileOK'
  OBVIOUS
<1> USE DEF IInv, disk, memory
<1>1. ASSUME UNCHANGED file PROVE FileOK'
  BY <1>1 DEF FileOK
<1>2. ASSUME NEW kind, NEW hs, file' = [kind |-> kind, hosts |-> hs] PROVE FileOK'
  BY <1>2 DEF FileOK
<1>3. ASSUME NEW kind, file' = [file EXCEPT !.kind = kind] PROVE FileOK'
  BY <1>3 DEF FileOK
<1>4. ASSUME DiskStep PROVE FileOK'
  BY <1>4, <1>1, <1>2 DEF DiskStep, save_check, save_open, OpenTemporary, save_write, save_rename,
     pins_truncate, pins_write
<1>5. ASSUME Person \/ Workers PROVE FileOK'
  BY <1>5, <1>1, Handlers
<1>6. ASSUME Surroundings PROVE FileOK'
  BY <1>6, <1>1, <1>3 DEF Surroundings, launch, crash, file_damaged, file_repaired
<1>7. ASSUME UNCHANGED vars PROVE FileOK'
  BY <1>7, <1>1 DEF vars
<1> QED
  BY <1>4, <1>5, <1>6, <1>7 DEF Next

(* Every step keeps what a save has checked.                               *)
LEMMA CheckKept == IInv /\ [Next]_vars => Checked'
<1> SUFFICES ASSUME IInv, [Next]_vars PROVE Checked'
  OBVIOUS
<1> USE DEF IInv, disk, memory
<1>a. ASSUME jobs' = <<>> \/ jobs'[1][1] \in {"check", "truncate", "write_pins"} PROVE Checked'
  BY <1>a DEF Checked, AtStep
<1>b. ASSUME file.kind # "damaged", UNCHANGED file PROVE Checked'
  BY <1>b DEF Checked, AtStep
<1>1. ASSUME save_check PROVE Checked'
  BY <1>1, <1>a, <1>b, GivingUp DEF save_check, CanSave, AtStep, Failed
<1>2. ASSUME save_open PROVE Checked'
  BY <1>2, <1>b DEF save_open, OpenTemporary, Checked
<1>3. ASSUME save_write PROVE Checked'
  BY <1>3, <1>b DEF save_write, Checked
<1>4. ASSUME save_rename PROVE Checked'
  <2>1. up /\ up' /\ jobs # <<>> /\ jobs[1][1] = "rename" /\ (Advance \/ GiveUp)
    BY <1>4 DEF save_rename, AtStep, Failed
  <2> QED
    BY <2>1, <1>a, Advancing, GivingUp
<1>5. ASSUME pins_truncate \/ pins_write PROVE Checked'
  <2>1. /\ up /\ up' /\ jobs # <<>> /\ jobs[1][1] \in {"truncate", "write_pins"}
        /\ Advance \/ GiveUp
    BY <1>5 DEF pins_truncate, pins_write, AtStep, Failed
  <2> QED
    BY <2>1, <1>a, Advancing, GivingUp
<1>6. ASSUME Person \/ Workers PROVE Checked'
  <2>1. CASE UNCHANGED <<jobs, hosts>>
    BY <1>6, <2>1, Handlers DEF Checked, AtStep
  <2>2. CASE jobs' \in {<<save>>, <<save, write_known_hosts, save>>}
    BY <2>2, <1>a, JobShapes, Steps
  <2> QED
    BY <1>6, <2>1, <2>2, Handlers
<1>7. ASSUME launch \/ crash \/ file_damaged PROVE Checked'
  <2>1. jobs' = <<>>
    BY <1>7 DEF launch, crash, Down, file_damaged, JobsOK
  <2> QED
    BY <2>1, <1>a
<1>8. ASSUME file_repaired PROVE Checked'
  <2>1. file'.kind = "ok"
    BY <1>8 DEF file_repaired, FileOK
  <2> QED
    BY <2>1 DEF Checked
<1>9. ASSUME UNCHANGED vars PROVE Checked'
  BY <1>9 DEF vars, Checked, AtStep
<1> QED
  BY <1>1, <1>2, <1>3, <1>4, <1>5, <1>6, <1>7, <1>8, <1>9 DEF Next, DiskStep, Surroundings

(* Every step that comes back to the event loop has saved or reported.     *)
LEMMA SavedKept == IInv /\ [Next]_vars => SavedOrReported'
<1> SUFFICES ASSUME IInv, [Next]_vars PROVE SavedOrReported'
  OBVIOUS
<1> USE DEF IInv, disk, memory
<1>a. ASSUME jobs' # <<>> \/ reported' PROVE SavedOrReported'
  BY <1>a DEF SavedOrReported
<1>1. ASSUME save_check PROVE SavedOrReported'
  BY <1>1, <1>a, Advancing DEF save_check, Failed, AtStep
<1>2. ASSUME save_open PROVE SavedOrReported'
  BY <1>2, <1>a, Advancing DEF save_open, Failed, AtStep
<1>3. ASSUME save_write PROVE SavedOrReported'
  BY <1>3, <1>a, Advancing DEF save_write, Failed, AtStep
<1>4. ASSUME save_rename PROVE SavedOrReported'
  <2>1. CASE file' = [kind |-> "ok", hosts |-> hosts]
    <3>1. load' = hosts'
      BY <1>4, <2>1 DEF save_rename, load
    <3> QED
      BY <3>1 DEF SavedOrReported
  <2>2. CASE Failed
    BY <2>2, <1>a DEF Failed
  <2> QED
    BY <1>4, <2>1, <2>2 DEF save_rename
<1>5. ASSUME pins_truncate \/ pins_write PROVE SavedOrReported'
  <2>1. /\ up /\ up' /\ jobs # <<>> /\ jobs[1][1] \in {"truncate", "write_pins"}
        /\ Advance \/ GiveUp
    BY <1>5 DEF pins_truncate, pins_write, AtStep, Failed
  <2> QED
    BY <2>1, <1>a, Advancing, GivingUp
<1>6. ASSUME Person \/ Workers PROVE SavedOrReported'
  <2>1. CASE UNCHANGED <<jobs, hosts>>
    BY <1>6, <2>1, Handlers DEF SavedOrReported, load
  <2>2. CASE jobs' \in {<<save>>, <<save, write_known_hosts, save>>}
    BY <2>2, <1>a, JobShapes
  <2> QED
    BY <1>6, <2>1, <2>2, Handlers
<1>7. ASSUME launch PROVE SavedOrReported'
  BY <1>7 DEF launch, SavedOrReported, load
<1>8. ASSUME crash \/ file_damaged PROVE SavedOrReported'
  BY <1>8 DEF crash, Down, file_damaged, SavedOrReported
<1>9. ASSUME file_repaired PROVE SavedOrReported'
  <2>1. file.kind = "damaged" /\ file'.kind = "ok" /\ file'.hosts = file.hosts
    BY <1>9 DEF file_repaired, FileOK
  <2>2. load' = load
    BY <2>1 DEF load
  <2> QED
    BY <1>9, <2>2 DEF file_repaired, SavedOrReported
<1>10. ASSUME UNCHANGED vars PROVE SavedOrReported'
  BY <1>10 DEF vars, SavedOrReported, load
<1> QED
  BY <1>1, <1>2, <1>3, <1>4, <1>5, <1>6, <1>7, <1>8, <1>9, <1>10
     DEF Next, DiskStep, Surroundings

(* Every step keeps what a transfer has planned for the pins.              *)
LEMMA PlanKept == IInv /\ [Next]_vars => PlanOK'
<1> SUFFICES ASSUME IInv, [Next]_vars PROVE PlanOK'
  OBVIOUS
<1> USE DEF IInv, disk, memory
<1>a. ASSUME plan' \in {plan, NoPlan} PROVE PlanOK'
  BY <1>a DEF PlanOK, NoPlan, NoPins
<1>1. ASSUME DiskStep PROVE PlanOK'
  BY <1>1, <1>a DEF DiskStep, save_check, save_open, save_write, save_rename, pins_truncate,
     pins_write
<1>2. ASSUME Person \/ Workers PROVE PlanOK'
  <2>1. CASE UNCHANGED plan
    BY <2>1, <1>a
  <2>2. ASSUME NEW read \in read_known_hosts, NEW theirs,
               plan' = [held |-> pins, read |-> read, result |-> merge_pins(read, theirs)]
        PROVE  PlanOK'
    BY <2>2 DEF PlanOK, merge_pins
  <2> QED
    BY <1>2, <2>1, <2>2, HandlersPlan
<1>3. ASSUME Surroundings PROVE PlanOK'
  BY <1>3, <1>a DEF Surroundings, launch, crash, Down, file_damaged, file_repaired
<1>4. ASSUME UNCHANGED vars PROVE PlanOK'
  BY <1>4, <1>a DEF vars
<1> QED
  BY <1>1, <1>2, <1>3, <1>4 DEF Next

(* Every step keeps the invariant, which therefore holds throughout.       *)
LEMMA Inductive == IInv /\ [Next]_vars => IInv'
  BY JobsKept, FileKept, CheckKept, SavedKept, PlanKept DEF IInv

(* The invariant holds in every state of every behaviour.                  *)
LEMMA Invariance == Spec => []IInv
<1> QED
  BY InitHolds, Inductive, PTL DEF Spec

(* Whatever a handler or a transfer changed in the list is in the file     *)
(* when the interface comes back, or the person was told.                  *)
THEOREM NothingLostSilently == Spec => []SavedOrReported
<1>1. IInv => SavedOrReported
  BY DEF IInv
<1> QED
  BY <1>1, Invariance, PTL

(* store::save: while the application runs its file goes from one complete *)
(* list to the next, and an unreadable one is never saved over.            *)
THEOREM FileIsWhole == Spec => InventoryIsWhole
<1>1. ASSUME IInv, [Next]_vars, file' # file, up
      PROVE  \/ file' = [kind |-> "ok", hosts |-> hosts] /\ file.kind # "damaged"
             \/ file.kind = "damaged" /\ file' = [file EXCEPT !.kind = "ok"]
  <2> USE DEF disk, memory
  <2>1. CASE save_rename
    BY <1>1, <2>1 DEF save_rename, IInv, Checked
  <2>2. CASE DiskStep /\ ~save_rename
    BY <1>1, <2>2 DEF DiskStep, save_check, save_open, OpenTemporary, save_write, pins_truncate,
       pins_write
  <2>3. CASE Person \/ Workers
    BY <1>1, <2>3, Handlers
  <2>4. CASE Surroundings
    BY <1>1, <2>4 DEF Surroundings, launch, crash, file_damaged, file_repaired
  <2>5. CASE UNCHANGED vars
    BY <1>1, <2>5 DEF vars
  <2> QED
    BY <1>1, <2>1, <2>2, <2>3, <2>4, <2>5 DEF Next
<1> QED
  BY <1>1, Invariance, PTL DEF Spec, InventoryIsWhole

(* The first step of a write of the pins is not its end.                   *)
LEMMA Truncating ==
  ASSUME JobsOK, AtStep("truncate"), Advance
  PROVE  Len(jobs') = Len(jobs)
<1>1. PICK k \in PinWrites : jobs = <<k, save>>
  <2>1. jobs[1][1] = "truncate" /\ jobs # <<>>
    BY DEF AtStep
  <2>2. ASSUME NEW s \in Saves, jobs = <<s>> \/ jobs = <<s, write_known_hosts, save>> PROVE FALSE
    BY <2>1, <2>2, JobShapes, JobSteps
  <2> QED
    BY <2>1, <2>2 DEF JobsOK
<1>2. jobs[1] = k /\ k[1] = "truncate" /\ Len(k) # 1
  BY <1>1, JobShapes, JobSteps DEF AtStep
<1>3. jobs' = <<Tail(k), save>>
  BY <1>1, <1>2, JobShapes DEF Advance
<1> QED
  BY <1>1, <1>3

(* merge and apply: when the pins have been written, every key that could  *)
(* be read is among them as it was, or the write failed and was reported.  *)
THEOREM ReadKeysAreKept == Spec => [][KeepsKeys]_vars
<1>1. ASSUME IInv, [Next]_vars, PinsWritten
      PROVE  \/ \A a \in Addrs : plan.read[a] # NoKey => pins'[a] = plan.read[a]
             \/ UNCHANGED pins /\ reported'
  <2> USE DEF disk, memory
  <2>a. up' /\ jobs # <<>> /\ jobs[1][1] \in {"truncate", "write_pins"} /\ jobs' # jobs
    BY <1>1 DEF PinsWritten
  <2>1. CASE pins_truncate
    <3>1. CASE Advance
      BY <1>1, <2>1, <3>1, Truncating DEF pins_truncate, IInv, PinsWritten
    <3>2. CASE Failed /\ UNCHANGED pins
      BY <3>2 DEF Failed
    <3> QED
      BY <2>1, <3>1, <3>2 DEF pins_truncate
  <2>2. CASE pins_write
    <3>1. CASE pins' = plan.result
      BY <1>1, <3>1 DEF IInv, PlanOK
    <3>2. CASE Failed /\ UNCHANGED pins
      BY <3>2 DEF Failed
    <3> QED
      BY <2>2, <3>1, <3>2 DEF pins_write
  <2>3. CASE save_check \/ save_open \/ save_write \/ save_rename
    BY <2>a, <2>3 DEF save_check, save_open, save_write, save_rename, AtStep
  <2>4. CASE Person \/ Workers
    BY <2>a, <2>4, Handlers
  <2>5. CASE Surroundings
    BY <1>1, <2>a, <2>5 DEF Surroundings, launch, crash, Down, file_damaged, file_repaired, IInv,
       JobsOK
  <2>6. CASE UNCHANGED vars
    BY <2>a, <2>6 DEF vars
  <2> QED
    BY <1>1, <2>1, <2>2, <2>3, <2>4, <2>5, <2>6 DEF Next, DiskStep
<1>2. IInv /\ [Next]_vars => KeepsKeys
  BY <1>1 DEF KeepsKeys
<1> QED
  BY <1>2, Invariance, PTL DEF Spec
-----------------------------------------------------------------------------
(* What the operations on lists compute.                                   *)

(* r has the elements of s up to n that are not dropped, in their order.   *)
KeptUpTo(r, n, s, drop) ==
  /\ \A i \in 1..Len(r) : \E j \in i..n : r[i] = s[j] /\ s[j] \notin drop
  /\ \A j \in 1..n : s[j] \notin drop => \E i \in 1..Len(r) : r[i] = s[j]
  /\ \A i, k \in 1..Len(r) : i < k =>
       \E j, l \in 1..n : j < l /\ r[i] = s[j] /\ r[k] = s[l]

(* retain keeps what is not dropped, and the order of what it keeps.       *)
LEMMA RetainFacts ==
  ASSUME NEW S, NEW s \in Seq(S), NEW drop
  PROVE  retain(s, drop) \in Seq(S) /\ KeptUpTo(retain(s, drop), Len(s), s, drop)
<1> DEFINE N == Len(s)
           step == [n \in Nat |-> [q \in Seq(S) |->
                      IF n \in 1..N /\ s[n] \notin drop THEN Append(q, s[n]) ELSE q]]
           Body(g) == [n \in 0..N |-> IF n = 0 THEN <<>>
                         ELSE IF s[n] \in drop THEN g[n - 1] ELSE Append(g[n - 1], s[n])]
           upTo == CHOOSE g : g = Body(g)
<1>1. N \in Nat /\ \A n \in 1..N : s[n] \in S
  OBVIOUS
<1>2. retain(s, drop) = upTo[N]
  BY DEF retain
<1> HIDE DEF N
<1>3. PICK h \in [0..N -> Seq(S)] : h[0] = <<>> /\ \A n \in 1..N : h[n] = step[n][h[n - 1]]
  <2>1. ASSUME NEW n \in Nat, NEW q \in Seq(S) PROVE step[n][q] \in Seq(S)
    <3>1. n \in 1..N => Append(q, s[n]) \in Seq(S)
      BY <1>1
    <3>2. step[n][q] = IF n \in 1..N /\ s[n] \notin drop THEN Append(q, s[n]) ELSE q
      OBVIOUS
    <3> HIDE DEF step
    <3> QED
      BY <3>1, <3>2
  <2>2. step \in [Nat -> [Seq(S) -> Seq(S)]]
    BY <2>1
  <2>3. <<>> \in Seq(S)
    OBVIOUS
  <2> HIDE DEF step
  <2>4. Upto(N, Seq(S), <<>>, step) # {}
    BY <1>1, <2>2, <2>3, UptoExists
  <2>5. PICK g : g \in Upto(N, Seq(S), <<>>, step)
    BY <2>4
  <2> QED
    BY <2>5 DEF Upto
<1>4. ASSUME NEW n \in 1..N
      PROVE  h[n] = IF s[n] \in drop THEN h[n - 1] ELSE Append(h[n - 1], s[n])
  <2>1. n \in Nat /\ n - 1 \in 0..N
    BY <1>1
  <2> QED
    BY <1>3, <2>1
<1>5. h = Body(h)
  <2>1. ASSUME NEW n \in 0..N PROVE Body(h)[n] = h[n]
    <3>1. n = 0 \/ n \in 1..N
      BY <1>1
    <3>2. h[0] = <<>>
      BY <1>3
    <3> HIDE DEF step
    <3> QED
      BY <1>4, <3>1, <3>2
  <2> QED
    BY <1>3, <2>1
<1>6. upTo = Body(upTo)
  <2> HIDE DEF Body
  <2> QED
    BY <1>5
<1> HIDE DEF upTo
<1> DEFINE Kept(n) == upTo[n] \in Seq(S) /\ KeptUpTo(upTo[n], n, s, drop)
           K == {n \in Nat : n <= N => Kept(n)}
<1> HIDE DEF Kept
<1>7. 0 \in K
  <2>1. upTo[0] = <<>> /\ <<>> \in Seq(S) /\ Len(upTo[0]) = 0
    BY <1>1, <1>6
  <2>2. 1..Len(upTo[0]) = {} /\ 1..0 = {}
    BY <2>1
  <2>3. Kept(0)
    BY <2>1, <2>2 DEF Kept, KeptUpTo
  <2> QED
    BY <2>3
<1>8. ASSUME NEW n \in Nat, n \in K PROVE n + 1 \in K
  <2> SUFFICES ASSUME n + 1 <= N PROVE Kept(n + 1)
    OBVIOUS
  <2>1. Kept(n)
    BY <1>1, <1>8
  <2>2. n + 1 \in 0..N /\ n + 1 # 0 /\ (n + 1) - 1 = n /\ n + 1 \in 1..N
    BY <1>1
  <2>3. upTo[n + 1] = IF s[n + 1] \in drop THEN upTo[n] ELSE Append(upTo[n], s[n + 1])
    BY <1>6, <2>2
  <2>4. CASE s[n + 1] \in drop
    <3>1. upTo[n + 1] = upTo[n]
      BY <2>3, <2>4
    <3> DEFINE q == upTo[n]
    <3>2. /\ q \in Seq(S)
          /\ \A i \in 1..Len(q) : \E j \in i..n : q[i] = s[j] /\ s[j] \notin drop
          /\ \A j \in 1..n : s[j] \notin drop => \E i \in 1..Len(q) : q[i] = s[j]
          /\ \A i, k \in 1..Len(q) : i < k =>
               \E j, l \in 1..n : j < l /\ q[i] = s[j] /\ q[k] = s[l]
      BY <2>1 DEF Kept, KeptUpTo
    <3> HIDE DEF q
    <3>3. \A i \in 1..Len(q) : \E j \in i..(n + 1) : q[i] = s[j] /\ s[j] \notin drop
      <4>1. \A i \in 1..Len(q) : i..n \subseteq i..(n + 1)
        BY <3>2
      <4> QED
        BY <3>2, <4>1
    <3>4. \A j \in 1..(n + 1) : s[j] \notin drop => \E i \in 1..Len(q) : q[i] = s[j]
      <4>1. \A j \in 1..(n + 1) : s[j] \notin drop => j \in 1..n
        BY <2>4
      <4> QED
        BY <3>2, <4>1
    <3>5. \A i, k \in 1..Len(q) : i < k =>
            \E j, l \in 1..(n + 1) : j < l /\ q[i] = s[j] /\ q[k] = s[l]
      <4>1. \A j \in 1..n : j \in 1..(n + 1)
        OBVIOUS
      <4> QED
        BY <3>2, <4>1
    <3>6. KeptUpTo(q, n + 1, s, drop)
      BY <3>3, <3>4, <3>5 DEF KeptUpTo
    <3> QED
      BY <3>1, <3>2, <3>6 DEF Kept, q
  <2>5. CASE s[n + 1] \notin drop
    <3> DEFINE q == upTo[n]
               r == upTo[n + 1]
    <3>1. q \in Seq(S) /\ r = Append(q, s[n + 1])
      BY <2>1, <2>3, <2>5 DEF Kept, KeptUpTo
    <3>2. /\ r \in Seq(S) /\ Len(r) = Len(q) + 1 /\ r[Len(q) + 1] = s[n + 1]
          /\ \A i \in 1..Len(q) : r[i] = q[i]
      BY <1>1, <2>2, <3>1
    <3>3. /\ \A i \in 1..Len(q) : \E j \in i..n : q[i] = s[j] /\ s[j] \notin drop
          /\ \A j \in 1..n : s[j] \notin drop => \E i \in 1..Len(q) : q[i] = s[j]
          /\ \A i, k \in 1..Len(q) : i < k =>
               \E j, l \in 1..n : j < l /\ q[i] = s[j] /\ q[k] = s[l]
      BY <2>1 DEF Kept, KeptUpTo
    <3>4. Len(q) \in Nat /\ Len(q) <= n
      <4>1. Len(q) \in Nat
        BY <3>1
      <4>2. Len(q) # 0 => \E j \in Len(q)..n : q[Len(q)] = s[j]
        <5> HIDE DEF q
        <5> QED
          BY <3>3, <4>1
      <4> QED
        BY <4>1, <4>2
    <3> HIDE DEF q, r
    <3>5. \A i \in 1..Len(r) : i \in 1..Len(q) \/ i = Len(q) + 1
      BY <3>2, <3>4
    <3>6. ASSUME NEW i \in 1..Len(r)
          PROVE  \E j \in i..(n + 1) : r[i] = s[j] /\ s[j] \notin drop
      <4>1. CASE i \in 1..Len(q)
        <5>1. PICK j \in i..n : q[i] = s[j] /\ s[j] \notin drop
          BY <3>3, <4>1
        <5>2. j \in i..(n + 1) /\ r[i] = s[j]
          BY <3>2, <4>1, <5>1
        <5> QED
          BY <5>1, <5>2
      <4>2. CASE i = Len(q) + 1
        BY <2>5, <3>2, <3>4, <4>2
      <4> QED
        BY <3>5, <4>1, <4>2
    <3>7. ASSUME NEW j \in 1..(n + 1), s[j] \notin drop PROVE \E i \in 1..Len(r) : r[i] = s[j]
      <4>1. CASE j = n + 1
        BY <3>2, <3>4, <4>1
      <4>2. CASE j # n + 1
        <5>1. PICK i \in 1..Len(q) : q[i] = s[j]
          BY <3>3, <3>7, <4>2
        <5>2. i \in 1..Len(r) /\ r[i] = s[j]
          BY <3>2, <3>4, <5>1
        <5> QED
          BY <5>2
      <4> QED
        BY <4>1, <4>2
    <3>8. ASSUME NEW i \in 1..Len(r), NEW k \in 1..Len(r), i < k
          PROVE  \E j, l \in 1..(n + 1) : j < l /\ r[i] = s[j] /\ r[k] = s[l]
      <4>1. i \in 1..Len(q)
        BY <3>2, <3>4, <3>8
      <4>2. CASE k \in 1..Len(q)
        <5>1. PICK j \in 1..n, l \in 1..n : j < l /\ q[i] = s[j] /\ q[k] = s[l]
          BY <3>3, <3>8, <4>1, <4>2
        <5>2. j \in 1..(n + 1) /\ l \in 1..(n + 1) /\ r[i] = s[j] /\ r[k] = s[l]
          BY <3>2, <4>1, <4>2, <5>1
        <5> QED
          BY <5>1, <5>2
      <4>3. CASE k = Len(q) + 1
        <5>1. PICK j \in i..n : q[i] = s[j]
          BY <3>3, <4>1
        <5>2. j \in 1..(n + 1) /\ n + 1 \in 1..(n + 1) /\ j < n + 1
          BY <5>1
        <5>3. r[i] = s[j] /\ r[k] = s[n + 1]
          BY <3>2, <4>1, <4>3, <5>1
        <5> QED
          BY <5>2, <5>3
      <4> QED
        BY <3>5, <4>2, <4>3
    <3> QED
      BY <3>2, <3>6, <3>7, <3>8 DEF Kept, KeptUpTo, r
  <2> QED
    BY <2>4, <2>5
<1>9. K \in SUBSET Nat
  OBVIOUS
<1> HIDE DEF K
<1>10. K = Nat
  BY <1>7, <1>8, <1>9, SetInduction
<1>11. N \in K /\ N <= N
  BY <1>1, <1>10
<1>12. Kept(N)
  BY <1>11 DEF K
<1> QED
  BY <1>2, <1>12 DEF N, Kept

Auths == {"agent", "key", "password"}
Records == [id : Nat \ {0}, addr : Addrs, auth : Auths]

(* What merge and apply put together: a list, and what may be added to it. *)
LEMMA MergeFacts ==
  ASSUME NEW mine \in Seq(Records), NEW theirs \in Seq(Entry)
  PROVE  merge_hosts(mine, theirs) \in Seq(Records \cup Entry)
<1> DEFINE N == Len(theirs)
           V == Seq(Records \cup Entry)
           step == [n \in Nat |-> [q \in V |->
                      IF n \notin 1..N \/ Already(q, theirs[n]) THEN q ELSE Append(q, theirs[n])]]
           Body(g) == [n \in 0..N |-> IF n = 0 THEN mine
                         ELSE IF Already(g[n - 1], theirs[n]) THEN g[n - 1]
                         ELSE Append(g[n - 1], theirs[n])]
           out == CHOOSE g : g = Body(g)
<1>1. N \in Nat /\ \A n \in 1..N : theirs[n] \in Records \cup Entry
  OBVIOUS
<1>2. merge_hosts(mine, theirs) = out[N]
  BY DEF merge_hosts
<1> HIDE DEF N
<1>3. mine \in V
  OBVIOUS
<1>4. ASSUME NEW n \in Nat, NEW q \in V PROVE step[n][q] \in V
  <2>1. n \in 1..N => Append(q, theirs[n]) \in V
    BY <1>1
  <2>2. step[n][q] = IF n \notin 1..N \/ Already(q, theirs[n]) THEN q ELSE Append(q, theirs[n])
    OBVIOUS
  <2> HIDE DEF step, V
  <2> QED
    BY <2>1, <2>2
<1> HIDE DEF V
<1>5. PICK h \in [0..N -> V] : h[0] = mine /\ \A n \in 1..N : h[n] = step[n][h[n - 1]]
  <2>1. step \in [Nat -> [V -> V]]
    BY <1>4
  <2> HIDE DEF step
  <2>2. Upto(N, V, mine, step) # {}
    BY <1>1, <1>3, <2>1, UptoExists
  <2>3. PICK g : g \in Upto(N, V, mine, step)
    BY <2>2
  <2> QED
    BY <2>3 DEF Upto
<1>6. ASSUME NEW n \in 1..N
      PROVE  h[n] = IF Already(h[n - 1], theirs[n]) THEN h[n - 1] ELSE Append(h[n - 1], theirs[n])
  <2>1. n \in Nat /\ n - 1 \in 0..N
    BY <1>1
  <2> QED
    BY <1>5, <2>1
<1>7. h = Body(h)
  <2>1. ASSUME NEW n \in 0..N PROVE Body(h)[n] = h[n]
    <3>1. n = 0 \/ n \in 1..N
      BY <1>1
    <3>2. h[0] = mine
      BY <1>5
    <3> HIDE DEF step
    <3> QED
      BY <1>6, <3>1, <3>2
  <2> QED
    BY <1>5, <2>1
<1>8. out = Body(out)
  <2> HIDE DEF Body
  <2> QED
    BY <1>7
<1> HIDE DEF out
<1> DEFINE K == {n \in Nat : n <= N => out[n] \in V}
<1>9. 0 \in K
  BY <1>1, <1>3, <1>8
<1>10. ASSUME NEW n \in Nat, n \in K PROVE n + 1 \in K
  <2> SUFFICES ASSUME n + 1 <= N PROVE out[n + 1] \in V
    OBVIOUS
  <2>1. out[n] \in V
    BY <1>1, <1>10
  <2>2. n + 1 \in 0..N /\ n + 1 # 0 /\ (n + 1) - 1 = n /\ n + 1 \in 1..N
    BY <1>1
  <2>3. out[n + 1] = IF Already(out[n], theirs[n + 1]) THEN out[n]
                     ELSE Append(out[n], theirs[n + 1])
    BY <1>8, <2>2
  <2>4. Append(out[n], theirs[n + 1]) \in V
    BY <1>1, <2>1, <2>2 DEF V
  <2> QED
    BY <2>1, <2>3, <2>4
<1>11. K \in SUBSET Nat
  OBVIOUS
<1> HIDE DEF K
<1>12. K = Nat
  BY <1>9, <1>10, <1>11, SetInduction
<1>13. N \in K /\ N <= N
  BY <1>1, <1>12
<1>14. out[N] \in V
  BY <1>13 DEF K
<1> QED
  BY <1>2, <1>14 DEF V

(* apply's list: ours first, then new records, numbered from next on, with *)
(* identities that nothing else in the list has.                           *)
Extends(out, hs) ==
  /\ out \in Seq(Records) /\ Len(hs) <= Len(out)
  /\ \A i \in 1..Len(hs) : out[i] = hs[i]
  /\ \A i \in (Len(hs) + 1)..Len(out) :
       /\ out[i].id = next + i - Len(hs) - 1
       /\ \A j \in 1..Len(out) : out[j].addr = out[i].addr => i = j

(* One more record that is not already there.                              *)
LEMMA ExtendsMore ==
  ASSUME NEW hs \in Seq(Records), NEW out, Extends(out, hs), next \in Nat \ {0},
         NEW h \in Records \cup Entry, ~Already(out, h)
  PROVE  Extends(Append(out, NewRecord(next + Len(out) - Len(hs), h)), hs)
<1> DEFINE id == next + Len(out) - Len(hs)
           w == NewRecord(id, h)
           more == Append(out, w)
<1>1. out \in Seq(Records) /\ Len(hs) \in Nat /\ Len(out) \in Nat /\ Len(hs) <= Len(out)
  BY DEF Extends
<1>2. w \in Records /\ w.id = id /\ w.addr = h.addr
  <2>1. id \in Nat \ {0}
    BY <1>1
  <2>2. h.addr \in Addrs /\ h.auth \in Auths
    BY DEF Records, Entry, Auths
  <2> HIDE DEF id
  <2> QED
    BY <2>1, <2>2 DEF NewRecord, Records
<1> HIDE DEF w
<1>3. /\ more \in Seq(Records) /\ Len(more) = Len(out) + 1 /\ more[Len(out) + 1] = w
      /\ \A i \in 1..Len(out) : more[i] = out[i]
  BY <1>1, <1>2
<1> HIDE DEF more
<1>4. \A i \in 1..Len(hs) : more[i] = hs[i]
  <2>1. \A i \in 1..Len(hs) : out[i] = hs[i]
    BY DEF Extends
  <2>2. \A i \in 1..Len(hs) : i \in 1..Len(out)
    BY <1>1
  <2> QED
    BY <1>3, <2>1, <2>2
<1>5. \A j \in 1..Len(out) : out[j].addr # w.addr
  <2>1. \A j \in 1..Len(out) : out[j] \in ToSet(out)
    BY <1>1 DEF ToSet
  <2> QED
    BY <1>2, <2>1 DEF Already
<1>6. ASSUME NEW i \in (Len(hs) + 1)..Len(more)
      PROVE  /\ more[i].id = next + i - Len(hs) - 1
             /\ \A j \in 1..Len(more) : more[j].addr = more[i].addr => i = j
  <2>1. \A j \in 1..Len(more) : j \in 1..Len(out) \/ j = Len(out) + 1
    BY <1>1, <1>3
  <2>2. CASE i = Len(out) + 1
    <3>1. more[i].id = next + i - Len(hs) - 1
      BY <1>1, <1>2, <1>3, <2>2
    <3>2. \A j \in 1..Len(more) : more[j].addr = more[i].addr => i = j
      BY <1>3, <1>5, <2>1, <2>2
    <3> QED
      BY <3>1, <3>2
  <2>3. CASE i \in (Len(hs) + 1)..Len(out)
    <3>1. i \in 1..Len(out) /\ more[i] = out[i]
      BY <1>1, <1>3, <2>3
    <3>2. /\ out[i].id = next + i - Len(hs) - 1
          /\ \A j \in 1..Len(out) : out[j].addr = out[i].addr => i = j
      BY <2>3 DEF Extends
    <3>3. \A j \in 1..Len(more) : more[j].addr = more[i].addr => i = j
      BY <1>3, <1>5, <2>1, <3>1, <3>2
    <3> QED
      BY <3>1, <3>2, <3>3
  <2> QED
    BY <1>1, <1>3, <2>2, <2>3
<1>7. Len(hs) <= Len(more)
  BY <1>1, <1>3
<1>8. Extends(more, hs)
  BY <1>3, <1>4, <1>6, <1>7 DEF Extends
<1> QED
  BY <1>8 DEF more, w

(* Applied is the list it starts from with new records behind it.          *)
LEMMA AppliedFacts ==
  ASSUME NEW hs \in Seq(Records), NEW merged \in Seq(Records \cup Entry), next \in Nat \ {0}
  PROVE  Extends(Applied(hs, merged), hs)
<1> DEFINE N == Len(merged)
           V == Seq([id : Int, addr : Addrs, auth : Auths])
           new(q, n) == NewRecord(next + Len(q) - Len(hs), merged[n])
           step == [n \in Nat |-> [q \in V |->
                      IF n \notin 1..N \/ Already(q, merged[n]) THEN q ELSE Append(q, new(q, n))]]
           Body(g) == [n \in 0..N |-> IF n = 0 THEN hs
                         ELSE IF Already(g[n - 1], merged[n]) THEN g[n - 1]
                         ELSE Append(g[n - 1], new(g[n - 1], n))]
           out == CHOOSE g : g = Body(g)
<1>1. N \in Nat /\ \A n \in 1..N : merged[n] \in Records \cup Entry
  OBVIOUS
<1>2. Applied(hs, merged) = out[N]
  BY DEF Applied
<1> HIDE DEF N
<1>3. hs \in V
  <2>1. Records \subseteq [id : Int, addr : Addrs, auth : Auths]
    BY DEF Records
  <2> QED
    BY <2>1, SeqOfMore
<1>4. ASSUME NEW n \in 1..N, NEW q \in V PROVE Append(q, new(q, n)) \in V
  <2>1. next + Len(q) - Len(hs) \in Int
    OBVIOUS
  <2>2. merged[n].addr \in Addrs /\ merged[n].auth \in Auths
    BY <1>1 DEF Records, Entry, Auths
  <2>3. new(q, n) \in [id : Int, addr : Addrs, auth : Auths]
    BY <2>1, <2>2 DEF NewRecord
  <2> HIDE DEF new
  <2> QED
    BY <2>3
<1> HIDE DEF V, new
<1>5. PICK h \in [0..N -> V] : h[0] = hs /\ \A n \in 1..N : h[n] = step[n][h[n - 1]]
  <2>1. ASSUME NEW n \in Nat, NEW q \in V PROVE step[n][q] \in V
    <3>1. step[n][q] = IF n \notin 1..N \/ Already(q, merged[n]) THEN q ELSE Append(q, new(q, n))
      OBVIOUS
    <3> HIDE DEF step
    <3> QED
      BY <1>4, <3>1
  <2>2. step \in [Nat -> [V -> V]]
    BY <2>1
  <2> HIDE DEF step
  <2>3. Upto(N, V, hs, step) # {}
    BY <1>1, <1>3, <2>2, UptoExists
  <2>4. PICK g : g \in Upto(N, V, hs, step)
    BY <2>3
  <2> QED
    BY <2>4 DEF Upto
<1>6. ASSUME NEW n \in 1..N
      PROVE  h[n] = IF Already(h[n - 1], merged[n]) THEN h[n - 1]
                    ELSE Append(h[n - 1], new(h[n - 1], n))
  <2>1. n \in Nat /\ n - 1 \in 0..N
    BY <1>1
  <2> QED
    BY <1>5, <2>1
<1>7. h = Body(h)
  <2>1. ASSUME NEW n \in 0..N PROVE Body(h)[n] = h[n]
    <3>1. n = 0 \/ n \in 1..N
      BY <1>1
    <3>2. h[0] = hs
      BY <1>5
    <3> HIDE DEF step
    <3> QED
      BY <1>6, <3>1, <3>2
  <2> QED
    BY <1>5, <2>1
<1>8. out = Body(out)
  <2> HIDE DEF Body
  <2> QED
    BY <1>7
<1> HIDE DEF out
<1> DEFINE K == {n \in Nat : n <= N => Extends(out[n], hs)}
<1>9. 0 \in K
  <2>1. out[0] = hs
    BY <1>1, <1>8
  <2>2. Extends(hs, hs)
    BY DEF Extends
  <2> QED
    BY <2>1, <2>2
<1>10. ASSUME NEW n \in Nat, n \in K PROVE n + 1 \in K
  <2> SUFFICES ASSUME n + 1 <= N PROVE Extends(out[n + 1], hs)
    OBVIOUS
  <2>1. Extends(out[n], hs)
    BY <1>1, <1>10
  <2>2. n + 1 \in 0..N /\ n + 1 # 0 /\ (n + 1) - 1 = n /\ n + 1 \in 1..N
    BY <1>1
  <2>3. out[n + 1] = IF Already(out[n], merged[n + 1]) THEN out[n]
                     ELSE Append(out[n], new(out[n], n + 1))
    BY <1>8, <2>2
  <2>4. ~Already(out[n], merged[n + 1]) => Extends(Append(out[n], new(out[n], n + 1)), hs)
    BY <1>1, <2>1, <2>2, ExtendsMore DEF new
  <2> QED
    BY <2>1, <2>3, <2>4
<1>11. K \in SUBSET Nat
  OBVIOUS
<1> HIDE DEF K
<1>12. K = Nat
  BY <1>9, <1>10, <1>11, SetInduction
<1>13. N \in K /\ N <= N
  BY <1>1, <1>12
<1>14. Extends(out[N], hs)
  BY <1>13 DEF K
<1> QED
  BY <1>2, <1>14

(* A list of records with ids of their own, all below n.                   *)
GoodList(hs, n) ==
  /\ hs \in Seq(Records)
  /\ \A i, j \in 1..Len(hs) : hs[i].id = hs[j].id => i = j
  /\ \A i \in 1..Len(hs) : hs[i].id < n

(* Find gives the record with the id.                                      *)
LEMMA FindFacts ==
  ASSUME NEW hs, NEW n, GoodList(hs, n), NEW id \in Ids(hs)
  PROVE  Find(hs, id) \in ToSet(hs) /\ Find(hs, id).id = id
<1> DEFINE T == {i \in 1..Len(hs) : hs[i].id = id}
<1>1. hs \in Seq(Records) /\ T \in SUBSET Nat /\ T # {}
  BY DEF GoodList, Ids
<1>2. \E x \in T : \A y \in T : x <= y
  BY <1>1, Least
<1>3. Find(hs, id) = hs[Min(T)]
  BY <1>1 DEF Find, SelectInSeq
<1>4. Min(T) \in T
  BY <1>2 DEF Min
<1>5. PICK x \in 1..Len(hs) : hs[x].id = id /\ x = Min(T)
  BY <1>4
<1> HIDE DEF T
<1>6. Find(hs, id) = hs[x] /\ hs[x] \in ToSet(hs)
  BY <1>1, <1>3, <1>5 DEF ToSet
<1> QED
  BY <1>5, <1>6

(* The records of a list are told apart by their ids.                      *)
LEMMA SameRecord ==
  ASSUME NEW hs, NEW n, GoodList(hs, n), NEW g \in ToSet(hs), NEW h \in ToSet(hs), g.id = h.id
  PROVE  g = h
  BY DEF GoodList, ToSet

(* The ids of a list are those of its records.                             *)
LEMMA IdsFacts ==
  ASSUME NEW hs, NEW n, GoodList(hs, n)
  PROVE  /\ \A h \in ToSet(hs) : h.id \in Ids(hs) /\ h \in Records
         /\ \A id \in Ids(hs) : id \in Nat \ {0} /\ \E h \in ToSet(hs) : h.id = id
         /\ hs # <<>> => hs[1] \in ToSet(hs)
<1>1. hs \in Seq(Records) /\ \A i \in 1..Len(hs) : hs[i] \in Records
  BY DEF GoodList
<1>2. ToSet(hs) = {hs[i] : i \in 1..Len(hs)}
  BY <1>1 DEF ToSet
<1>3. \A h \in ToSet(hs) : h.id \in Ids(hs) /\ h \in Records
  BY <1>1, <1>2 DEF Ids
<1>4. ASSUME NEW id \in Ids(hs) PROVE id \in Nat \ {0} /\ \E h \in ToSet(hs) : h.id = id
  <2>1. PICK i \in 1..Len(hs) : id = hs[i].id
    BY DEF Ids
  <2>2. hs[i] \in ToSet(hs) /\ hs[i].id \in Nat \ {0}
    BY <1>1, <1>2 DEF Records
  <2> QED
    BY <2>1, <2>2
<1>5. hs # <<>> => 1 \in 1..Len(hs)
  BY <1>1
<1> QED
  BY <1>2, <1>3, <1>4, <1>5

-----------------------------------------------------------------------------
(* The list, and what is built from its records.                           *)

(* A target runs the record with its id.                                   *)
GoodTargets(run, hs) == \A i \in DOMAIN run : run[i].id = i /\ run[i] \in ToSet(hs)

Kinds == {"add", "edit", "remove", "prompt", "receive", "compare"}
Dialogs == [kind : Kinds, host : Records \cup {Nobody}]

(* A sheet of the main window is the bottom one, so nothing is open below  *)
(* it when its button is pressed; a dialog about a server holds its        *)
(* record as the list has it now.                                          *)
GoodDialogs(open, hs) ==
  /\ open \in Seq(Dialogs)
  /\ \A i \in 1..Len(open) :
       /\ open[i].kind \in {"add", "edit", "remove"} => i = 1
       /\ open[i].kind \in {"edit", "remove", "prompt"} => open[i].host \in ToSet(hs)

(* The command runner points at the selected server, which is in the list. *)
GoodRunner(cmd, sel, hs) ==
  /\ cmd = [host |-> cmd.host, output |-> cmd.output, running |-> cmd.running]
  /\ cmd.host = sel /\ sel \in Ids(hs) \cup {NoHost}

(* The inductive invariant of the list.                                    *)
ListInv ==
  /\ next \in Nat \ {0}
  /\ GoodList(hosts, next) /\ GoodList(file.hosts, next)
  /\ secrets \subseteq Ids(hosts)
  /\ GoodTargets(targets, hosts)
  /\ GoodDialogs(modals, hosts)
  /\ GoodRunner(command, selected, hosts)

(* Starting a host of the list.                                            *)
LEMMA StartKeeps ==
  ASSUME NEW hs, NEW run, GoodTargets(run, hs), NEW h \in ToSet(hs)
  PROVE  GoodTargets(start(run, h), hs)
<1>1. CASE h.id \in DOMAIN run
  BY <1>1 DEF start
<1>2. CASE h.id \notin DOMAIN run
  <2> DEFINE r == start(run, h)
  <2>1. r = [i \in DOMAIN run \cup {h.id} |-> IF i = h.id THEN h ELSE run[i]]
    BY <1>2 DEF start
  <2> HIDE DEF r
  <2> QED
    BY <2>1 DEF GoodTargets, r
<1> QED
  BY <1>1, <1>2

(* The empty list and nothing open.                                        *)
LEMMA NothingOpen ==
  ASSUME NEW hs
  PROVE  GoodDialogs(<<>>, hs) /\ GoodTargets(<<>>, hs)
<1>1. <<>> \in Seq(Dialogs) /\ 1..Len(<<>>) = {} /\ DOMAIN <<>> = {}
  OBVIOUS
<1> QED
  BY <1>1 DEF GoodDialogs, GoodTargets

(* Prompts for a host of the list, on top of what is open.                 *)
LEMMA PromptsKeep ==
  ASSUME NEW hs, NEW n, GoodList(hs, n), NEW open, GoodDialogs(open, hs), NEW h \in ToSet(hs),
         NEW times \in Nat
  PROVE  GoodDialogs(open \o [i \in 1..times |-> Dialog("prompt", h)], hs)
<1> DEFINE p == [i \in 1..times |-> Dialog("prompt", h)]
           q == open \o p
<1>1. Dialog("prompt", h) \in Dialogs
  BY IdsFacts DEF Dialog, Dialogs, Kinds
<1>2. p \in Seq(Dialogs) /\ Len(p) = times
  BY <1>1
<1>3. \A i \in 1..times : p[i].kind = "prompt" /\ p[i].host = h
  BY DEF Dialog
<1>4. open \in Seq(Dialogs)
  BY DEF GoodDialogs
<1> HIDE DEF p
<1>5. /\ q \in Seq(Dialogs) /\ Len(q) = Len(open) + Len(p)
      /\ \A i \in 1..(Len(open) + Len(p)) :
            q[i] = IF i <= Len(open) THEN open[i] ELSE p[i - Len(open)]
  BY <1>2, <1>4, ConcatProperties
<1> HIDE DEF q
<1>6. ASSUME NEW i \in 1..Len(q)
      PROVE  /\ q[i].kind \in {"add", "edit", "remove"} => i = 1
             /\ q[i].kind \in {"edit", "remove", "prompt"} => q[i].host \in ToSet(hs)
  <2>1. CASE i <= Len(open)
    <3>1. i \in 1..Len(open) /\ q[i] = open[i]
      BY <1>4, <1>5, <2>1
    <3> QED
      BY <3>1 DEF GoodDialogs
  <2>2. CASE ~(i <= Len(open))
    <3>1. i - Len(open) \in 1..times /\ q[i] = p[i - Len(open)]
      BY <1>2, <1>4, <1>5, <2>2
    <3> QED
      BY <1>3, <3>1
  <2> QED
    BY <2>1, <2>2
<1>7. GoodDialogs(q, hs)
  BY <1>5, <1>6 DEF GoodDialogs
<1> QED
  BY <1>7 DEF q, p

(* select and rebuild_list keep the list's invariant.                      *)
LEMMA SelectKeeps ==
  ASSUME NEW hs, NEW n, GoodList(hs, n), NEW h \in ToSet(hs), NEW run, GoodTargets(run, hs),
         NEW sec, NEW open, GoodDialogs(open, hs), NEW times \in Nat,
         command = [host |-> command.host, output |-> command.output,
                    running |-> command.running],
         Select(h, run, sec, open, times)
  PROVE  GoodTargets(targets', hs) /\ GoodDialogs(modals', hs)
         /\ GoodRunner(command', selected', hs)
<1>1. GoodTargets(targets', hs)
  BY StartKeeps DEF Select
<1>2. GoodDialogs(modals', hs)
  <2> DEFINE more == open \o [i \in 1..times |-> Dialog("prompt", h)]
  <2>1. GoodDialogs(more, hs)
    BY PromptsKeep
  <2>2. modals' = more \/ modals' = open
    BY DEF Select
  <2> HIDE DEF more
  <2> QED
    BY <2>1, <2>2
<1>3. selected' = h.id /\ h.id \in Ids(hs)
  BY IdsFacts DEF Select
<1>4. PICK out : command' = [command EXCEPT !.host = h.id, !.output = out]
  BY DEF Select, set_host
<1>5. command' = [host |-> h.id, output |-> out, running |-> command.running]
  BY <1>4
<1>6. GoodRunner(command', selected', hs)
  BY <1>3, <1>5 DEF GoodRunner
<1> QED
  BY <1>1, <1>2, <1>6

LEMMA RebuildKeeps ==
  ASSUME NEW hs, NEW n, GoodList(hs, n), NEW keep, NEW run, GoodTargets(run, hs),
         NEW sec, NEW open, GoodDialogs(open, hs),
         command = [host |-> command.host, output |-> command.output,
                    running |-> command.running],
         rebuild_list(hs, keep, run, sec, open)
  PROVE  GoodTargets(targets', hs) /\ GoodDialogs(modals', hs)
         /\ GoodRunner(command', selected', hs)
<1>1. CASE hs = <<>>
  <2>1. /\ selected' = NoHost /\ command' = set_host(NoHost) /\ targets' = run
        /\ modals' = open
    BY <1>1 DEF rebuild_list
  <2>2. PICK out : command' = [command EXCEPT !.host = NoHost, !.output = out]
    BY <2>1 DEF set_host
  <2>3. command' = [host |-> NoHost, output |-> out, running |-> command.running]
    BY <2>2
  <2>4. GoodRunner(command', selected', hs)
    BY <2>1, <2>3 DEF GoodRunner
  <2> QED
    BY <2>1, <2>4
<1>2. CASE hs # <<>>
  <2> DEFINE h == IF keep \in Ids(hs) THEN Find(hs, keep) ELSE hs[1]
  <2>1. h \in ToSet(hs)
    BY <1>2, FindFacts, IdsFacts
  <2>2. Select(h, run, sec, open, 2)
    BY <1>2 DEF rebuild_list
  <2> HIDE DEF h
  <2> QED
    BY <2>1, <2>2, SelectKeeps
<1> QED
  BY <1>1, <1>2

(* The newest dialog, and the ones below it.                               *)
LEMMA DialogsBelow ==
  ASSUME NEW hs, GoodDialogs(modals, hs), modals # <<>>
  PROVE  /\ GoodDialogs(Below, hs)
         /\ Last(modals) \in Dialogs
         /\ Last(modals).kind \in {"edit", "remove", "prompt"} => Last(modals).host \in ToSet(hs)
         /\ Last(modals).kind \in {"add", "edit", "remove"} => Below = <<>>
<1> DEFINE m == Len(modals)
<1>1. modals \in Seq(Dialogs) /\ m \in Nat \ {0}
  BY DEF GoodDialogs
<1>2. Last(modals) = modals[m] /\ m \in 1..Len(modals)
  BY <1>1 DEF Last
<1>3. /\ Below \in Seq(Dialogs) /\ Len(Below) = m - 1
      /\ \A i \in 1..(m - 1) : Below[i] = modals[i]
  BY <1>1, FrontFacts DEF Below
<1> HIDE DEF m
<1>4. ASSUME NEW i \in 1..Len(Below) PROVE i \in 1..Len(modals) /\ Below[i] = modals[i]
  BY <1>1, <1>3 DEF m
<1>5. GoodDialogs(Below, hs)
  BY <1>3, <1>4 DEF GoodDialogs
<1>6. m = 1 => Below = <<>>
  BY <1>3
<1>7. /\ modals[m] \in Dialogs
      /\ modals[m].kind \in {"add", "edit", "remove"} => m = 1
      /\ modals[m].kind \in {"edit", "remove", "prompt"} => modals[m].host \in ToSet(hs)
  BY <1>1, <1>2 DEF GoodDialogs
<1> QED
  BY <1>2, <1>5, <1>6, <1>7

(* Closing the transfer's sheet leaves the others in their order.          *)
LEMMA SheetlessKeeps ==
  ASSUME NEW hs, NEW open, GoodDialogs(open, hs)
  PROVE  GoodDialogs(Sheetless(open), hs)
<1> DEFINE r == Sheetless(open)
<1>1. open \in Seq(Dialogs)
  BY DEF GoodDialogs
<1>2. r \in Seq(Dialogs) /\ \A i \in 1..Len(r) : \E j \in i..Len(open) : r[i] = open[j]
  <2> DEFINE drop == {d \in ToSet(open) : d.kind = "receive"}
  <2>1. r = retain(open, drop)
    BY DEF Sheetless
  <2> HIDE DEF r, drop
  <2> QED
    BY <1>1, <2>1, RetainFacts DEF KeptUpTo
<1> HIDE DEF r
<1>3. ASSUME NEW i \in 1..Len(r)
      PROVE  /\ r[i].kind \in {"add", "edit", "remove"} => i = 1
             /\ r[i].kind \in {"edit", "remove", "prompt"} => r[i].host \in ToSet(hs)
  <2>1. PICK j \in i..Len(open) : r[i] = open[j]
    BY <1>2
  <2>2. j \in 1..Len(open) /\ (j = 1 => i = 1)
    BY <2>1
  <2> QED
    BY <2>1, <2>2 DEF GoodDialogs
<1> QED
  BY <1>2, <1>3 DEF GoodDialogs, r

(* One dialog, and one dialog more.                                        *)
LEMMA OneDialog ==
  ASSUME NEW hs, NEW d \in Dialogs,
         d.kind \in {"edit", "remove", "prompt"} => d.host \in ToSet(hs)
  PROVE  /\ GoodDialogs(<<d>>, hs)
         /\ GoodDialogs(modals, hs) /\ d.kind \notin {"add", "edit", "remove"} =>
              GoodDialogs(Append(modals, d), hs)
<1>1. <<d>> \in Seq(Dialogs) /\ Len(<<d>>) = 1 /\ <<d>>[1] = d
  OBVIOUS
<1>2. GoodDialogs(<<d>>, hs)
  BY <1>1 DEF GoodDialogs
<1>3. ASSUME GoodDialogs(modals, hs), d.kind \notin {"add", "edit", "remove"}
      PROVE  GoodDialogs(Append(modals, d), hs)
  <2> DEFINE q == Append(modals, d)
  <2>1. modals \in Seq(Dialogs)
    BY <1>3 DEF GoodDialogs
  <2>2. /\ q \in Seq(Dialogs) /\ Len(q) = Len(modals) + 1 /\ q[Len(modals) + 1] = d
        /\ \A i \in 1..Len(modals) : q[i] = modals[i]
    BY <2>1
  <2> HIDE DEF q
  <2>3. \A i \in 1..Len(q) : i \in 1..Len(modals) \/ i = Len(modals) + 1
    BY <2>1, <2>2
  <2>4. GoodDialogs(q, hs)
    BY <1>3, <2>2, <2>3 DEF GoodDialogs
  <2> QED
    BY <2>4 DEF q
<1> QED
  BY <1>2, <1>3

(* Dialogs stay right while no record leaves the list.                     *)
LEMMA DialogsOfMore ==
  ASSUME NEW hs, NEW more, ToSet(hs) \subseteq ToSet(more), NEW open, GoodDialogs(open, hs)
  PROVE  GoodDialogs(open, more)
  BY DEF GoodDialogs

(* remove_selected's list: the records with other ids.                     *)
LEMMA RemovedFacts ==
  ASSUME NEW hs, NEW n, GoodList(hs, n), NEW id
  PROVE  /\ GoodList(Removed(hs, id), n)
         /\ ToSet(Removed(hs, id)) = {h \in ToSet(hs) : h.id # id}
         /\ Ids(Removed(hs, id)) = Ids(hs) \ {id}
<1> DEFINE drop == {h \in ToSet(hs) : h.id = id}
           r == Removed(hs, id)
<1>1. hs \in Seq(Records) /\ r = retain(hs, drop)
  BY DEF GoodList, Removed
<1> HIDE DEF drop, r
<1>2. r \in Seq(Records) /\ KeptUpTo(r, Len(hs), hs, drop)
  BY <1>1, RetainFacts
<1>3. \A i \in 1..Len(r) : \E j \in i..Len(hs) : r[i] = hs[j] /\ hs[j] \notin drop
  BY <1>2 DEF KeptUpTo
<1>4. \A j \in 1..Len(hs) : hs[j] \notin drop => \E i \in 1..Len(r) : r[i] = hs[j]
  BY <1>2 DEF KeptUpTo
<1>5. \A i, k \in 1..Len(r) : i < k =>
        \E j, l \in 1..Len(hs) : j < l /\ r[i] = hs[j] /\ r[k] = hs[l]
  BY <1>2 DEF KeptUpTo
<1>6. ToSet(hs) = {hs[i] : i \in 1..Len(hs)} /\ ToSet(r) = {r[i] : i \in 1..Len(r)}
  BY <1>1, <1>2 DEF ToSet
<1>7. \A j \in 1..Len(hs) : hs[j] \notin drop <=> hs[j].id # id
  BY <1>6 DEF drop
<1>8. ASSUME NEW i \in 1..Len(r) PROVE \E j \in 1..Len(hs) : r[i] = hs[j] /\ hs[j].id # id
  <2>1. PICK j \in i..Len(hs) : r[i] = hs[j] /\ hs[j] \notin drop
    BY <1>3
  <2>2. j \in 1..Len(hs)
    BY <2>1
  <2> QED
    BY <1>7, <2>1, <2>2
<1>9. ToSet(r) = {h \in ToSet(hs) : h.id # id}
  <2>1. ToSet(r) \subseteq {h \in ToSet(hs) : h.id # id}
    BY <1>6, <1>8
  <2>2. {h \in ToSet(hs) : h.id # id} \subseteq ToSet(r)
    BY <1>4, <1>6, <1>7
  <2> QED
    BY <2>1, <2>2
<1>10. Ids(hs) = {h.id : h \in ToSet(hs)} /\ Ids(r) = {h.id : h \in ToSet(r)}
  BY <1>6 DEF Ids
<1>11. Ids(r) = Ids(hs) \ {id}
  BY <1>9, <1>10
<1>12. GoodList(r, n)
  <2>1. \A i \in 1..Len(r) : r[i].id < n
    BY <1>8 DEF GoodList
  <2>2. ASSUME NEW i \in 1..Len(r), NEW k \in 1..Len(r), i < k PROVE r[i].id # r[k].id
    <3>1. PICK j \in 1..Len(hs), l \in 1..Len(hs) : j < l /\ r[i] = hs[j] /\ r[k] = hs[l]
      BY <1>5, <2>2
    <3> QED
      BY <3>1 DEF GoodList
  <2>3. \A i, k \in 1..Len(r) : i = k \/ i < k \/ k < i
    OBVIOUS
  <2> QED
    BY <1>2, <2>1, <2>2, <2>3 DEF GoodList
<1> QED
  BY <1>9, <1>11, <1>12 DEF r

(* edit_selected's list: the record with the id is the edited one.         *)
LEMMA EditedFacts ==
  ASSUME NEW hs, NEW n, GoodList(hs, n), NEW h \in Records, h.id \in Ids(hs)
  PROVE  /\ GoodList(Edited(hs, h), n)
         /\ Ids(Edited(hs, h)) = Ids(hs)
         /\ h \in ToSet(Edited(hs, h))
         /\ \A g \in ToSet(hs) : g.id # h.id => g \in ToSet(Edited(hs, h))
<1> DEFINE r == Edited(hs, h)
<1>1. hs \in Seq(Records) /\ Len(hs) \in Nat
  BY DEF GoodList
<1>2. r = [i \in 1..Len(hs) |-> IF hs[i].id = h.id THEN h ELSE hs[i]]
  BY DEF Edited
<1> HIDE DEF r
<1>3. r \in Seq(Records) /\ Len(r) = Len(hs)
  BY <1>1, <1>2
<1>4. \A i \in 1..Len(hs) : r[i].id = hs[i].id /\ (hs[i].id = h.id => r[i] = h)
                            /\ (hs[i].id # h.id => r[i] = hs[i])
  BY <1>2
<1>5. GoodList(r, n)
  BY <1>3, <1>4 DEF GoodList
<1>6. Ids(r) = Ids(hs)
  BY <1>3, <1>4 DEF Ids
<1>7. ToSet(hs) = {hs[i] : i \in 1..Len(hs)} /\ ToSet(r) = {r[i] : i \in 1..Len(r)}
  BY <1>1, <1>3 DEF ToSet
<1>8. h \in ToSet(r)
  BY <1>3, <1>4, <1>7 DEF Ids
<1>9. \A g \in ToSet(hs) : g.id # h.id => g \in ToSet(r)
  BY <1>3, <1>4, <1>7
<1> QED
  BY <1>5, <1>6, <1>8, <1>9 DEF r

(* The ids of a list are numbers below its bound.                          *)
LEMMA GoodIds ==
  ASSUME NEW hs, NEW n, GoodList(hs, n)
  PROVE  \A i \in 1..Len(hs) : hs[i].id \in Nat /\ hs[i].id < n
<1>1. \A i \in 1..Len(hs) : hs[i] \in Records /\ hs[i].id < n
  BY DEF GoodList
<1>2. \A r \in Records : r.id \in Nat
  BY DEF Records
<1> QED
  BY <1>1, <1>2

(* More ids can only be in use later.                                      *)
LEMMA ListOfMore ==
  ASSUME NEW hs, NEW n \in Nat, NEW m \in Nat, n <= m, GoodList(hs, n)
  PROVE  GoodList(hs, m)
<1>1. \A i \in 1..Len(hs) : hs[i].id < m
  BY GoodIds
<1> QED
  BY <1>1 DEF GoodList

(* add_host's list, and apply's.                                           *)
LEMMA ExtendsGood ==
  ASSUME next \in Nat \ {0}, GoodList(hosts, next), NEW now, Extends(now, hosts)
  PROVE  /\ next + Len(now) - Len(hosts) \in Nat \ {0}
         /\ next <= next + Len(now) - Len(hosts)
         /\ GoodList(now, next + Len(now) - Len(hosts))
         /\ ToSet(hosts) \subseteq ToSet(now) /\ Ids(hosts) \subseteq Ids(now)
<1> DEFINE k == Len(hosts)
           m == Len(now)
<1>1. k \in Nat /\ m \in Nat /\ k <= m /\ now \in Seq(Records) /\ hosts \in Seq(Records)
  BY DEF GoodList, Extends
<1>2. \A i \in 1..k : now[i] = hosts[i]
  BY DEF Extends
<1>3. \A i \in (k + 1)..m : now[i].id = next + i - k - 1
  BY DEF Extends
<1>4. /\ \A i, j \in 1..k : hosts[i].id = hosts[j].id => i = j
      /\ \A i \in 1..k : hosts[i].id \in Nat /\ hosts[i].id < next
  BY <1>1, GoodIds DEF GoodList
<1>5. ToSet(hosts) = {hosts[i] : i \in 1..k} /\ ToSet(now) = {now[i] : i \in 1..m}
      /\ 1..k \subseteq 1..m
  BY <1>1 DEF ToSet
<1>6. Ids(hosts) \subseteq Ids(now)
  BY <1>2, <1>5 DEF Ids
<1>7. now \in Seq(Records) /\ m = Len(now) /\ k = Len(hosts)
  BY <1>1
<1>8. ToSet(hosts) \subseteq ToSet(now)
  BY <1>2, <1>5
<1> HIDE DEF k, m
<1>9. \A i \in 1..m : i \in 1..k \/ i \in (k + 1)..m
  BY <1>1
<1>10. ASSUME NEW i \in 1..m PROVE now[i].id < next + m - k
  <2>1. CASE i \in 1..k
    BY <1>1, <1>2, <1>4, <2>1
  <2>2. CASE i \in (k + 1)..m
    BY <1>1, <1>3, <2>2
  <2> QED
    BY <1>9, <2>1, <2>2
<1>11. ASSUME NEW i \in 1..m, NEW j \in 1..m, now[i].id = now[j].id PROVE i = j
  <2>1. CASE i \in 1..k /\ j \in 1..k
    BY <1>2, <1>4, <1>11, <2>1
  <2>2. CASE i \in 1..k /\ j \in (k + 1)..m
    <3>1. now[i].id \in Nat /\ now[i].id < next /\ now[j].id = next + j - k - 1
      BY <1>2, <1>3, <1>4, <2>2
    <3> QED
      BY <1>1, <1>11, <2>2, <3>1
  <2>3. CASE i \in (k + 1)..m /\ j \in 1..k
    <3>1. now[j].id \in Nat /\ now[j].id < next /\ now[i].id = next + i - k - 1
      BY <1>2, <1>3, <1>4, <2>3
    <3> QED
      BY <1>1, <1>11, <2>3, <3>1
  <2>4. CASE i \in (k + 1)..m /\ j \in (k + 1)..m
    BY <1>1, <1>3, <1>11, <2>4
  <2> QED
    BY <1>9, <2>1, <2>2, <2>3, <2>4
<1>12. GoodList(now, next + m - k)
  BY <1>1, <1>7, <1>10, <1>11 DEF GoodList
<1> QED
  BY <1>1, <1>6, <1>7, <1>8, <1>12

(* add_host puts the new record behind the others.                         *)
LEMMA AddStep ==
  ASSUME ListInv, add_host
  PROVE  ListInv'
<1>1. PICK entry \in Entries, typed \in BOOLEAN :
        /\ hosts' = Append(hosts, NewRecord(next, entry))
        /\ secrets' = Secrets(NewRecord(next, entry), typed)
        /\ rebuild_list(Append(hosts, NewRecord(next, entry)), NewRecord(next, entry).id, targets,
                        Secrets(NewRecord(next, entry), typed), Below)
  BY DEF add_host
<1> DEFINE h == NewRecord(next, entry)
           hs == Append(hosts, h)
           sec == Secrets(h, typed)
<1>2. Top("add") /\ next' = next + 1 /\ UNCHANGED file
  BY DEF add_host, UnchangedElse, disk
<1>3. next \in Nat \ {0} /\ GoodList(hosts, next) /\ hosts \in Seq(Records)
  BY DEF ListInv, GoodList
<1>4. h \in Records /\ h.id = next
  <2>1. entry.addr \in Addrs /\ entry.auth \in Auths
    BY InputAssumption DEF Entry, Auths
  <2> QED
    BY <1>3, <2>1 DEF NewRecord, Records
<1> HIDE DEF h
<1>5. /\ hs \in Seq(Records) /\ Len(hs) = Len(hosts) + 1 /\ hs[Len(hosts) + 1] = h
      /\ \A i \in 1..Len(hosts) : hs[i] = hosts[i]
  BY <1>3, <1>4
<1>6. hosts' = hs /\ secrets' = sec /\ rebuild_list(hs, h.id, targets, sec, Below)
  BY <1>1 DEF h
<1> HIDE DEF hs, sec
<1>7. GoodList(hs, next + 1)
  <2>1. \A i \in 1..Len(hosts) : hosts[i].id \in Nat /\ hosts[i].id < next
    BY <1>3, GoodIds
  <2>2. \A i \in 1..Len(hs) : i \in 1..Len(hosts) \/ i = Len(hosts) + 1
    BY <1>3, <1>5
  <2>3. \A i \in 1..Len(hs) : hs[i].id < next + 1
    BY <1>3, <1>4, <1>5, <2>1, <2>2
  <2>4. \A i \in 1..Len(hosts) : hs[i].id # next
    BY <1>3, <1>5, <2>1
  <2>5. ASSUME NEW i \in 1..Len(hs), NEW j \in 1..Len(hs), hs[i].id = hs[j].id PROVE i = j
    <3>1. CASE i \in 1..Len(hosts) /\ j \in 1..Len(hosts)
      BY <1>3, <1>5, <2>5, <3>1 DEF GoodList
    <3>2. CASE i = Len(hosts) + 1 \/ j = Len(hosts) + 1
      BY <1>4, <1>5, <2>2, <2>4, <2>5, <3>2
    <3> QED
      BY <2>2, <3>1, <3>2
  <2> QED
    BY <1>5, <2>3, <2>5 DEF GoodList
<1>8. ToSet(hosts) = {hosts[i] : i \in 1..Len(hosts)} /\ ToSet(hs) = {hs[i] : i \in 1..Len(hs)}
      /\ 1..Len(hosts) \subseteq 1..Len(hs) /\ Len(hosts) + 1 \in 1..Len(hs)
  BY <1>3, <1>5 DEF ToSet
<1>9. ToSet(hosts) \subseteq ToSet(hs) /\ Ids(hosts) \subseteq Ids(hs) /\ h.id \in Ids(hs)
  BY <1>5, <1>8 DEF Ids
<1>10. GoodTargets(targets, hs)
  BY <1>9 DEF ListInv, GoodTargets
<1>11. GoodDialogs(Below, hs)
  <2>1. GoodDialogs(Below, hosts)
    BY <1>2, DialogsBelow DEF ListInv, Top
  <2> QED
    BY <1>9, <2>1, DialogsOfMore
<1>12. GoodTargets(targets', hs) /\ GoodDialogs(modals', hs)
       /\ GoodRunner(command', selected', hs)
  BY <1>6, <1>7, <1>10, <1>11, RebuildKeeps DEF ListInv, GoodRunner
<1>13. secrets' \subseteq Ids(hs)
  BY <1>6, <1>9 DEF ListInv, Secrets, sec
<1>14. GoodList(file.hosts, next + 1)
  BY <1>3, ListOfMore DEF ListInv
<1> QED
  BY <1>2, <1>3, <1>6, <1>7, <1>12, <1>13, <1>14 DEF ListInv

(* edit_selected restarts the target with the edited record.               *)
LEMMA EditStep ==
  ASSUME ListInv, edit_selected
  PROVE  ListInv'
<1> DEFINE old == Last(modals).host
<1>1. PICK entry \in Entries, typed \in BOOLEAN :
        LET h == [old EXCEPT !.addr = entry.addr, !.auth = entry.auth] IN
        /\ hosts' = Edited(hosts, h)
        /\ secrets' = Secrets(h, typed)
        /\ rebuild_list(Edited(hosts, h), selected, restart(targets, h), Secrets(h, typed), Below)
  BY DEF edit_selected
<1> DEFINE h == [old EXCEPT !.addr = entry.addr, !.auth = entry.auth]
           hs == Edited(hosts, h)
<1>2. Top("edit") /\ UNCHANGED <<next, file>>
  BY DEF edit_selected, UnchangedElse, disk
<1>3. GoodList(hosts, next) /\ modals # <<>> /\ Last(modals).kind = "edit"
  BY <1>2 DEF ListInv, Top
<1>4. old \in ToSet(hosts) /\ Below = <<>>
  BY <1>3, DialogsBelow DEF ListInv
<1>5. old \in Records /\ old.id \in Ids(hosts)
  BY <1>3, <1>4, IdsFacts
<1>6. h \in Records /\ h.id = old.id
  <2>1. entry.addr \in Addrs /\ entry.auth \in Auths
    BY InputAssumption DEF Entry, Auths
  <2> HIDE DEF old
  <2> QED
    BY <1>5, <2>1 DEF Records
<1>7. /\ hosts' = hs /\ secrets' = Secrets(h, typed)
      /\ rebuild_list(hs, selected, restart(targets, h), Secrets(h, typed), Below)
  BY <1>1
<1> HIDE DEF h, old
<1>8. /\ GoodList(hs, next) /\ Ids(hs) = Ids(hosts) /\ h \in ToSet(hs)
      /\ \A g \in ToSet(hosts) : g.id # h.id => g \in ToSet(hs)
  BY <1>3, <1>5, <1>6, EditedFacts
<1> HIDE DEF hs
<1>9. GoodTargets(restart(targets, h), hs)
  <2>1. GoodTargets(forget(targets, h.id), hs)
    BY <1>8 DEF ListInv, GoodTargets, forget
  <2> QED
    BY <1>8, <2>1, StartKeeps DEF restart
<1>10. GoodDialogs(Below, hs)
  BY <1>4, NothingOpen
<1>11. GoodTargets(targets', hs) /\ GoodDialogs(modals', hs)
       /\ GoodRunner(command', selected', hs)
  BY <1>7, <1>8, <1>9, <1>10, RebuildKeeps DEF ListInv, GoodRunner
<1>12. secrets' \subseteq Ids(hs)
  BY <1>5, <1>6, <1>7, <1>8 DEF ListInv, Secrets
<1> QED
  BY <1>2, <1>7, <1>8, <1>11, <1>12 DEF ListInv

(* remove_selected forgets the target and the password with the record.    *)
LEMMA RemoveStep ==
  ASSUME ListInv, remove_selected
  PROVE  ListInv'
<1> DEFINE id == Last(modals).host.id
           hs == Removed(hosts, id)
<1>1. /\ Top("remove") /\ UNCHANGED <<next, file>>
      /\ hosts' = hs /\ secrets' = secrets \ {id}
      /\ rebuild_list(hs, NoHost, forget(targets, id), secrets \ {id}, Below)
  BY DEF remove_selected, WithoutSecret, UnchangedElse, disk
<1>2. GoodList(hosts, next) /\ modals # <<>> /\ Last(modals).kind = "remove"
  BY <1>1 DEF ListInv, Top
<1>3. Below = <<>>
  BY <1>2, DialogsBelow DEF ListInv
<1> HIDE DEF id
<1>4. /\ GoodList(hs, next) /\ ToSet(hs) = {h \in ToSet(hosts) : h.id # id}
      /\ Ids(hs) = Ids(hosts) \ {id}
  BY <1>2, RemovedFacts
<1> HIDE DEF hs
<1>5. GoodTargets(forget(targets, id), hs)
  BY <1>4 DEF ListInv, GoodTargets, forget
<1>6. GoodDialogs(Below, hs)
  BY <1>3, NothingOpen
<1>7. GoodTargets(targets', hs) /\ GoodDialogs(modals', hs)
      /\ GoodRunner(command', selected', hs)
  BY <1>1, <1>4, <1>5, <1>6, RebuildKeeps DEF ListInv, GoodRunner
<1>8. secrets' \subseteq Ids(hs)
  BY <1>1, <1>4 DEF ListInv
<1> QED
  BY <1>1, <1>4, <1>7, <1>8 DEF ListInv

(* apply's list extends the one that is there.                             *)
LEMMA TransferExtends ==
  ASSUME ListInv, NEW payload \in Incoming
  PROVE  Extends(Applied(hosts, merge_hosts(hosts, payload.hosts)), hosts)
<1>1. hosts \in Seq(Records) /\ next \in Nat \ {0} /\ payload.hosts \in Seq(Entry)
  BY InputAssumption DEF ListInv, GoodList
<1>2. merge_hosts(hosts, payload.hosts) \in Seq(Records \cup Entry)
  BY <1>1, MergeFacts
<1> QED
  BY <1>1, <1>2, AppliedFacts

(* apply adds records, and takes nothing from what is open or running.     *)
LEMMA ApplyStep ==
  ASSUME ListInv, apply
  PROVE  ListInv'
<1>1. PICK payload \in Incoming :
        LET now == Applied(hosts, merge_hosts(hosts, payload.hosts)) IN
        /\ hosts' = now
        /\ next' = next + Len(now) - Len(hosts)
        /\ rebuild_list(now, selected, targets, secrets, Sheetless(modals))
  BY DEF apply
<1> DEFINE hs == Applied(hosts, merge_hosts(hosts, payload.hosts))
<1>2. /\ hosts' = hs /\ next' = next + Len(hs) - Len(hosts)
      /\ rebuild_list(hs, selected, targets, secrets, Sheetless(modals))
      /\ UNCHANGED <<file, secrets>>
  BY <1>1 DEF apply, disk
<1>3. next \in Nat \ {0} /\ GoodList(hosts, next) /\ Extends(hs, hosts)
  BY TransferExtends DEF ListInv
<1> HIDE DEF hs
<1>4. /\ next' \in Nat \ {0} /\ next <= next' /\ GoodList(hs, next')
      /\ ToSet(hosts) \subseteq ToSet(hs) /\ Ids(hosts) \subseteq Ids(hs)
  BY <1>2, <1>3, ExtendsGood
<1>5. GoodTargets(targets, hs)
  BY <1>4 DEF ListInv, GoodTargets
<1>6. GoodDialogs(Sheetless(modals), hs)
  BY <1>4, SheetlessKeeps, DialogsOfMore DEF ListInv
<1>7. GoodTargets(targets', hs) /\ GoodDialogs(modals', hs)
      /\ GoodRunner(command', selected', hs)
  BY <1>2, <1>4, <1>5, <1>6, RebuildKeeps DEF ListInv, GoodRunner
<1>8. secrets' \subseteq Ids(hs)
  BY <1>2, <1>4 DEF ListInv
<1>9. GoodList(file.hosts, next')
  BY <1>3, <1>4, ListOfMore DEF ListInv
<1> QED
  BY <1>2, <1>4, <1>7, <1>8, <1>9 DEF ListInv

(* The other handlers of a person: nothing joins or leaves the list.       *)
LEMMA DialogSteps ==
  ASSUME ListInv,
         select \/ open_add \/ open_edit \/ open_remove \/ cancel \/ prompt_connect \/ submit
           \/ receive \/ compare_codes
  PROVE  ListInv'
<1> USE DEF UnchangedElse, disk
<1>1. next \in Nat \ {0} /\ GoodList(hosts, next) /\ GoodDialogs(modals, hosts)
  BY DEF ListInv
<1>2. CASE select
  <2>1. PICK h \in ToSet(hosts) : Select(h, targets, secrets, modals, 1)
    BY <1>2 DEF select
  <2>2. GoodTargets(targets', hosts) /\ GoodDialogs(modals', hosts)
        /\ GoodRunner(command', selected', hosts)
    BY <1>1, <2>1, SelectKeeps DEF ListInv, GoodRunner
  <2> QED
    BY <1>2, <2>2 DEF select, ListInv
<1>3. ASSUME NEW d, d \in Dialogs, modals' = <<d>>,
             d.kind \in {"edit", "remove", "prompt"} => d.host \in ToSet(hosts),
             UNCHANGED <<next, file, hosts, secrets, selected, targets, command>>
      PROVE  ListInv'
  <2>1. GoodDialogs(<<d>>, hosts)
    BY <1>3, OneDialog
  <2> QED
    BY <1>3, <2>1 DEF ListInv
<1>4. Dialog("add", Nobody) \in Dialogs /\ Dialog("add", Nobody).kind = "add"
      /\ Dialog("receive", Nobody) \in Dialogs /\ Dialog("receive", Nobody).kind = "receive"
  BY DEF Dialog, Dialogs, Kinds
<1>5. CASE open_add
  <2>1. modals' = <<Dialog("add", Nobody)>>
        /\ UNCHANGED <<next, file, hosts, secrets, selected, targets, command>>
    BY <1>5 DEF open_add, Open
  <2> QED
    BY <1>3, <1>4, <2>1
<1>6. CASE receive
  <2>1. modals' = <<Dialog("receive", Nobody)>>
        /\ UNCHANGED <<next, file, hosts, secrets, selected, targets, command>>
    BY <1>6 DEF receive
  <2> QED
    BY <1>3, <1>4, <2>1
<1>7. CASE open_edit \/ open_remove
  <2>1. PICK kind \in {"edit", "remove"} :
          modals' = <<Dialog(kind, Find(hosts, selected))>>
    BY <1>7 DEF open_edit, open_remove, Open
  <2>2. selected # NoHost /\ UNCHANGED <<next, file, hosts, secrets, selected, targets, command>>
    BY <1>7 DEF open_edit, open_remove, Open
  <2>3. selected \in Ids(hosts)
    BY <2>2 DEF ListInv, GoodRunner
  <2>4. Find(hosts, selected) \in ToSet(hosts) /\ Find(hosts, selected) \in Records
    BY <1>1, <2>3, FindFacts, IdsFacts
  <2>5. Dialog(kind, Find(hosts, selected)) \in Dialogs
        /\ Dialog(kind, Find(hosts, selected)).host = Find(hosts, selected)
    BY <2>4 DEF Dialog, Dialogs, Kinds
  <2> QED
    BY <1>3, <2>1, <2>2, <2>4, <2>5
<1>8. CASE cancel
  <2>1. modals # <<>> /\ modals' = Below
        /\ UNCHANGED <<next, file, hosts, secrets, selected, targets, command>>
    BY <1>8 DEF cancel, Top
  <2>2. GoodDialogs(Below, hosts)
    BY <1>1, <2>1, DialogsBelow
  <2> QED
    BY <2>1, <2>2 DEF ListInv
<1>9. CASE prompt_connect
  <2> DEFINE h == Last(modals).host
  <2>1. /\ modals # <<>> /\ Last(modals).kind = "prompt" /\ modals' = Below
        /\ secrets' \in {secrets, secrets \cup {h.id}} /\ targets' = start(targets, h)
        /\ UNCHANGED <<next, file, hosts, selected, command>>
    BY <1>9 DEF prompt_connect, Top
  <2>2. GoodDialogs(Below, hosts) /\ h \in ToSet(hosts)
    BY <1>1, <2>1, DialogsBelow
  <2> HIDE DEF h
  <2>3. GoodTargets(targets', hosts)
    BY <2>1, <2>2, StartKeeps DEF ListInv
  <2>4. h.id \in Ids(hosts)
    BY <1>1, <2>2, IdsFacts
  <2> QED
    BY <2>1, <2>2, <2>3, <2>4 DEF ListInv
<1>10. CASE submit
  <2>1. command' = [command EXCEPT !.running = command.host]
        /\ UNCHANGED <<next, file, hosts, secrets, selected, targets, modals>>
    BY <1>10 DEF submit
  <2>2. GoodRunner(command', selected, hosts)
    BY <2>1 DEF ListInv, GoodRunner
  <2> QED
    BY <2>1, <2>2 DEF ListInv
<1>11. CASE compare_codes
  <2>1. /\ modals # <<>> /\ modals' \in {Below, Sheetless(Below)}
        /\ UNCHANGED <<next, file, hosts, secrets, selected, targets, command>>
    BY <1>11 DEF compare_codes, Top
  <2>2. GoodDialogs(Below, hosts)
    BY <1>1, <2>1, DialogsBelow
  <2>3. GoodDialogs(Sheetless(Below), hosts)
    BY <2>2, SheetlessKeeps
  <2> QED
    BY <2>1, <2>2, <2>3 DEF ListInv
<1> QED
  BY <1>2, <1>5, <1>6, <1>7, <1>8, <1>9, <1>10, <1>11

(* What worker threads deliver.                                            *)
LEMMA WorkerSteps ==
  ASSUME ListInv, command_answers \/ code_shown \/ receive_fails \/ learn
  PROVE  ListInv'
<1> USE DEF UnchangedElse, disk, memory
<1>1. GoodDialogs(modals, hosts)
  BY DEF ListInv
<1>2. CASE command_answers
  <2>1. PICK out : command' = [command EXCEPT !.running = NoHost, !.output = out]
    BY <1>2 DEF command_answers
  <2>2. UNCHANGED <<next, file, hosts, secrets, selected, targets, modals>>
    BY <1>2 DEF command_answers
  <2>3. command' = [host |-> command.host, output |-> out, running |-> NoHost]
    BY <2>1 DEF ListInv, GoodRunner
  <2>4. GoodRunner(command', selected, hosts)
    BY <2>3 DEF ListInv, GoodRunner
  <2> QED
    BY <2>2, <2>4 DEF ListInv
<1>3. CASE code_shown
  <2> DEFINE d == Dialog("compare", Nobody)
  <2>1. /\ modals' = Append(modals, d)
        /\ UNCHANGED <<next, file, hosts, secrets, selected, targets, command>>
    BY <1>3 DEF code_shown
  <2>2. d \in Dialogs /\ d.kind = "compare"
    BY DEF Dialog, Dialogs, Kinds
  <2> HIDE DEF d
  <2>3. GoodDialogs(Append(modals, d), hosts)
    BY <1>1, <2>2, OneDialog
  <2> QED
    BY <2>1, <2>3 DEF ListInv
<1>4. CASE receive_fails
  <2>1. /\ modals' = Sheetless(modals)
        /\ UNCHANGED <<next, file, hosts, secrets, selected, targets, command>>
    BY <1>4 DEF receive_fails
  <2>2. GoodDialogs(Sheetless(modals), hosts)
    BY <1>1, SheetlessKeeps
  <2> QED
    BY <2>1, <2>2 DEF ListInv
<1>5. CASE learn
  BY <1>5 DEF learn, ListInv
<1> QED
  BY <1>2, <1>3, <1>4, <1>5

(* A list that is empty.                                                   *)
LEMMA EmptyList ==
  ASSUME NEW n
  PROVE  GoodList(<<>>, n)
<1>1. <<>> \in Seq(Records) /\ 1..Len(<<>>) = {}
  OBVIOUS
<1> QED
  BY <1>1 DEF GoodList

(* The disk, the process and its surroundings.                             *)
LEMMA OutsideSteps ==
  ASSUME IInv, ListInv, DiskStep \/ Surroundings \/ UNCHANGED vars
  PROVE  ListInv'
<1> USE DEF disk, memory
<1>1. ASSUME UNCHANGED <<next, hosts, secrets, selected, targets, modals, command>>,
             file'.hosts \in {file.hosts, hosts}
      PROVE  ListInv'
  BY <1>1 DEF ListInv
<1>2. CASE DiskStep
  <2>1. UNCHANGED <<next, hosts, secrets, selected, targets, modals, command>>
    BY <1>2 DEF DiskStep, save_check, save_open, save_write, save_rename, pins_truncate, pins_write
  <2>2. file' = file \/ file' = [kind |-> "ok", hosts |-> hosts]
    BY <1>2 DEF DiskStep, save_check, save_open, OpenTemporary, save_write, save_rename,
       pins_truncate, pins_write
  <2> QED
    BY <1>1, <2>1, <2>2
<1>3. CASE launch
  <2> DEFINE hs == IF file.kind = "damaged" THEN <<>> ELSE load
  <2>1. /\ hosts' = hs /\ rebuild_list(hs, NoHost, <<>>, {}, <<>>)
        /\ secrets' = {} /\ UNCHANGED <<file, next>>
    BY <1>3 DEF launch
  <2>2. GoodList(hs, next)
    BY EmptyList DEF ListInv, load
  <2> HIDE DEF hs
  <2>3. GoodTargets(targets', hs) /\ GoodDialogs(modals', hs)
        /\ GoodRunner(command', selected', hs)
    BY <2>1, <2>2, NothingOpen, RebuildKeeps DEF ListInv, GoodRunner
  <2> QED
    BY <2>1, <2>2, <2>3 DEF ListInv
<1>4. CASE crash
  <2>1. /\ hosts' = <<>> /\ secrets' = {} /\ selected' = NoHost /\ targets' = <<>>
        /\ modals' = <<>> /\ UNCHANGED <<file, next>>
        /\ command' = [host |-> NoHost, output |-> {}, running |-> NoHost]
    BY <1>4 DEF crash, Down
  <2>2. GoodRunner(command', selected', <<>>)
    BY <2>1 DEF GoodRunner
  <2> QED
    BY <2>1, <2>2, EmptyList, NothingOpen DEF ListInv
<1>5. CASE file_damaged \/ file_repaired
  <2>1. PICK kind : file' = [file EXCEPT !.kind = kind]
    BY <1>5 DEF file_damaged, file_repaired
  <2>2. UNCHANGED <<next, hosts, secrets, selected, targets, modals, command>>
    BY <1>5 DEF file_damaged, file_repaired
  <2>3. file'.hosts = file.hosts
    BY <2>1 DEF IInv, FileOK
  <2> QED
    BY <1>1, <2>2, <2>3
<1>6. CASE UNCHANGED vars
  BY <1>1, <1>6 DEF vars
<1> QED
  BY <1>2, <1>3, <1>4, <1>5, <1>6 DEF Surroundings

(* At first there is nothing.                                              *)
LEMMA InitList == Init => ListInv
<1> SUFFICES ASSUME Init PROVE ListInv
  OBVIOUS
<1>1. /\ next = 1 /\ hosts = <<>> /\ file.hosts = <<>> /\ secrets = {} /\ targets = <<>>
      /\ modals = <<>> /\ selected = NoHost
      /\ command = [host |-> NoHost, output |-> {}, running |-> NoHost]
  BY DEF Init
<1>2. GoodRunner(command, selected, hosts)
  BY <1>1 DEF GoodRunner
<1> QED
  BY <1>1, <1>2, EmptyList, NothingOpen DEF ListInv

(* The list's invariant holds in every state of every behaviour: records   *)
(* have ids of their own, which no later record gets again, and targets,   *)
(* passwords, dialogs and the command runner only know records of the list *)
(* as they are now.                                                        *)
THEOREM ListIsConsistent == Spec => []ListInv
<1>1. IInv /\ ListInv /\ [Next]_vars => ListInv'
  BY AddStep, EditStep, RemoveStep, ApplyStep, DialogSteps, WorkerSteps, OutsideSteps
     DEF Next, Person, Workers
<1> QED
  BY <1>1, InitList, Invariance, PTL DEF Spec

(* window.rs: a server that was removed is not connected to, holds no      *)
(* password and is not what the command runner points at, whatever dialogs *)
(* and transfers were open around the removal.                             *)
THEOREM RemovedLeavesNoTrace == Spec => []NoTraceOfRemoved
<1>1. ASSUME ListInv PROVE NoTraceOfRemoved
  <2>1. ASSUME NEW i \in DOMAIN targets PROVE i \in Ids(hosts)
    <3>1. targets[i].id = i /\ targets[i] \in ToSet(hosts)
      BY <1>1 DEF ListInv, GoodTargets
    <3> QED
      BY <1>1, <3>1, IdsFacts DEF ListInv
  <2> QED
    BY <1>1, <2>1 DEF ListInv, GoodRunner, NoTraceOfRemoved
<1> QED
  BY <1>1, ListIsConsistent, PTL

(* engine.rs: a running target is built from the record as the list has it *)
(* now, after an edit and after a prompt that kept its own copy.           *)
THEOREM TargetsAreCurrent == Spec => []TargetsMatch
<1>1. ASSUME ListInv PROVE TargetsMatch
  <2>1. ASSUME NEW i \in DOMAIN targets PROVE targets[i] = Find(hosts, i)
    <3>1. targets[i].id = i /\ targets[i] \in ToSet(hosts) /\ GoodList(hosts, next)
      BY <1>1 DEF ListInv, GoodTargets
    <3>2. i \in Ids(hosts)
      BY <3>1, IdsFacts
    <3>3. Find(hosts, i) \in ToSet(hosts) /\ Find(hosts, i).id = i
      BY <3>1, <3>2, FindFacts
    <3> QED
      BY <3>1, <3>3, SameRecord
  <2> QED
    BY <2>1 DEF TargetsMatch
<1> QED
  BY <1>1, ListIsConsistent, PTL

(* pairing.rs: the records that were here stay where and as they were and  *)
(* no identity comes in twice, and the keys the transfer read are there    *)
(* when it has written, or it said that it could not write.                *)
THEOREM WhatWasFoundIsKept == Spec => TransferKeepsWhatItFound
<1>1. ASSUME ListInv, [Next]_vars PROVE KeepsRecords
  <2> SUFFICES ASSUME Len(jobs') = 3, jobs = <<>>
               PROVE  /\ IsPrefix(hosts, hosts')
                      /\ \A i \in (Len(hosts) + 1)..Len(hosts') :
                           \A j \in 1..Len(hosts') : hosts'[j].addr = hosts'[i].addr => i = j
    BY DEF KeepsRecords
  <2>1. apply
    <3> USE DEF disk, memory, UnchangedElse
    <3>1. jobs' # jobs
      OBVIOUS
    <3>2. ~DiskStep
      BY DEF DiskStep, save_check, save_open, save_write, save_rename, pins_truncate, pins_write,
         AtStep
    <3>3. ~Surroundings
      BY <3>1 DEF Surroundings, launch, crash, Down, file_damaged, file_repaired
    <3>4. ~(select \/ open_add \/ open_edit \/ open_remove \/ cancel \/ prompt_connect \/ submit
              \/ receive \/ compare_codes)
      BY <3>1 DEF select, open_add, open_edit, open_remove, Open, cancel, prompt_connect, submit,
         receive, compare_codes
    <3>5. ~(command_answers \/ code_shown \/ receive_fails \/ learn)
      BY <3>1 DEF command_answers, code_shown, receive_fails, learn
    <3>6. ~(add_host \/ edit_selected \/ remove_selected)
      <4>1. Len(<<save>>) = 1
        OBVIOUS
      <4>2. jobs' # <<save>>
        BY <4>1
      <4> QED
        BY <4>2 DEF add_host, edit_selected, remove_selected
    <3> QED
      BY <1>1, <3>1, <3>2, <3>3, <3>4, <3>5, <3>6 DEF Next, Person, Workers, vars
  <2>2. PICK payload \in Incoming :
          hosts' = Applied(hosts, merge_hosts(hosts, payload.hosts))
    BY <2>1 DEF apply
  <2>3. Extends(hosts', hosts)
    BY <1>1, <2>2, TransferExtends
  <2>4. hosts \in Seq(Records)
    BY <1>1 DEF ListInv, GoodList
  <2>5. IsPrefix(hosts, hosts')
    BY <2>3, <2>4 DEF Extends, IsPrefix
  <2> QED
    BY <2>3, <2>5 DEF Extends
<1> QED
  BY <1>1, ListIsConsistent, ReadKeysAreKept, PTL DEF Spec, TransferKeepsWhatItFound

=============================================================================
