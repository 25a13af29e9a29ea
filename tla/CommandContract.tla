--------------------------- MODULE CommandContract --------------------------
(***************************************************************************)
(* What ServerGlass::run_command (crates/sg-ffi/src/lib.rs) promises to    *)
(* the person who pressed Return, with no task, queue or lock in sight:    *)
(* a command is refused outright or accepted against the session that is   *)
(* up at that moment; it reaches the host at most once and only over that  *)
(* session; and what the caller is told about it is true.                  *)
(***************************************************************************)
CONSTANT Commands

VARIABLES
  answer,     \* what the caller has been told, or how far the call got
  against,    \* whether the session the command was accepted against is up
  ran,        \* commands the host has had
  withdrawn   \* commands given up before the host had them

vars == <<answer, against, ran, withdrawn>>

Pending  == "pending"   \* not yet accepted or refused
Accepted == "accepted"
Answers  == {"ok", "failed", "notrun", "dropped", "timedout", "refused"}

Init ==
  /\ answer = [k \in Commands |-> Pending]
  /\ against = [k \in Commands |-> "none"]
  /\ ran = {}
  /\ withdrawn = {}

Refuse(k) ==
  /\ answer[k] = Pending
  /\ answer' = [answer EXCEPT ![k] = "refused"]
  /\ UNCHANGED <<against, ran, withdrawn>>

Accept(k) ==
  /\ answer[k] = Pending
  /\ answer' = [answer EXCEPT ![k] = Accepted]
  /\ against' = [against EXCEPT ![k] = "live"]
  /\ UNCHANGED <<ran, withdrawn>>

(* The host gets the command, over the session it was accepted against.    *)
Run(k) ==
  /\ answer[k] \in {Accepted, "timedout"}
  /\ against[k] = "live"
  /\ k \notin ran \union withdrawn
  /\ ran' = ran \union {k}
  /\ UNCHANGED <<answer, against, withdrawn>>

Answer(k) ==
  /\ answer[k] = Accepted
  /\ k \in ran
  /\ answer' = [answer EXCEPT ![k] = "ok"]
  /\ UNCHANGED <<against, ran, withdrawn>>

(* The session failed under the command, before or after the host had it.  *)
Fail(k) ==
  /\ answer[k] = Accepted
  /\ against[k] = "live"
  /\ answer' = [answer EXCEPT ![k] = "failed"]
  /\ UNCHANGED <<against, ran, withdrawn>>

(* The caller's patience ends.  A command given up is either withdrawn, so *)
(* that the host never gets it, or already on its way.                     *)
GiveUp(k) ==
  /\ answer[k] = Accepted
  /\ answer' = [answer EXCEPT ![k] = "timedout"]
  /\ withdrawn' \in {withdrawn, withdrawn \union ({k} \ ran)}
  /\ UNCHANGED <<against, ran>>

(* The session ends: commands accepted against it can no longer run.  When *)
(* it was stopped, callers are told so in the same moment.                 *)
SessionEnds(Gone, Told) ==
  /\ \A k \in Gone : against[k] # "none"
  /\ \A k \in Told : answer[k] = Accepted /\ k \in Gone
  /\ against' = [k \in Commands |-> IF k \in Gone THEN "gone" ELSE against[k]]
  /\ answer' = [k \in Commands |-> IF k \in Told THEN "dropped" ELSE answer[k]]
  /\ UNCHANGED <<ran, withdrawn>>

(* A command that had not run when its session ended is turned away.       *)
TurnAway(k) ==
  /\ answer[k] = Accepted
  /\ against[k] = "gone"
  /\ k \notin ran
  /\ answer' = [answer EXCEPT ![k] = "notrun"]
  /\ UNCHANGED <<against, ran, withdrawn>>

Next ==
  \/ \E k \in Commands :
       \/ Refuse(k) \/ Accept(k) \/ Run(k) \/ Answer(k) \/ Fail(k)
       \/ GiveUp(k) \/ TurnAway(k)
  \/ \E Gone \in SUBSET Commands : \E Told \in SUBSET Gone : SessionEnds(Gone, Told)

Spec == Init /\ [][Next]_vars
=============================================================================
