----------------------------- MODULE SshSession -----------------------------
(***************************************************************************)
(* One batch at a time over one long-lived shell: SshSession::batch of     *)
(* crates/sg-transport/src/session.rs with its Framing (frame.rs), and the *)
(* session's loss and replacement by TargetRuntime (sg-core/runtime.rs).   *)
(*                                                                         *)
(* The channel carries tokens.  A marker is a few of them, so that a chunk *)
(* may end inside one; "B", "E" and "Z" stand for the session's nonce and  *)
(* the letter after it, which the host cannot write because it never knows *)
(* the nonce.  The remote shell runs the script in order; its commands     *)
(* print what they like, hang, or kill it.  Something the shell left in    *)
(* the background, or the login profile, may print between two writes.     *)
(***************************************************************************)
EXTENDS Integers, Sequences, FiniteSets

CONSTANTS
  Reads, Dirs, Execs,   \* requests that become a command
  EmptyExecs, Https,    \* requests that do not
  Batches,              \* the lists of requests callers send
  Codes,                \* exit codes
  Outputs,              \* what commands may print ("x" and "nl") and return
  MAX_BATCH_BYTES,
  Deadline,             \* batch_timeout_ms, in clock steps
  Chunks,               \* how many tokens a packet may carry
  MaxBatches, MaxSessions, MaxNoise   \* bounds for model checking

Requests == Reads \union Dirs \union Execs \union EmptyExecs \union Https

(* What stands on the wire beside ids and exit codes.                      *)
Marks == {"x", "nl", "sp", "B", "E", "Z", "noise"}
(* ChannelMsg that is not Data: dropped, or the end of the channel.        *)
Signals == {"ExtendedData", "Closed"}

(* An id is hexadecimal digits, an exit code decimal ones.                 *)
ASSUME BatchAssumption ==
  /\ (Requests \union Codes) \intersect (Marks \union Signals) = {}
  /\ Batches \subseteq Seq(Requests)
  /\ Outputs \subseteq [body : Seq({"x", "nl"}), exit_code : Seq(Codes)]
  /\ Chunks \subseteq Nat \ {0}
  /\ {MAX_BATCH_BYTES, Deadline, MaxBatches, MaxSessions, MaxNoise} \subseteq Nat

VARIABLES
  phase,     \* where the one caller of batch is
  ids,       \* the frames the batch expects
  buf,       \* what batch has received
  clock,     \* time since the batch began
  result,    \* what the last batch returned
  script,    \* what the remote shell has still to do
  sg,        \* its variable __sg, the status of the last command
  wire,      \* what it wrote and the client has not received
  printed,   \* what each command of the batch printed and returned
  batches, sessions, noise   \* how many there were

client == <<phase, ids, buf, clock, result>>
remote == <<script, sg, wire, printed>>
vars   == <<client, remote, batches, sessions, noise>>

Phases == {"down", "idle", "writing", "waiting"}
Errors == {"Timeout", "Closed", "OutputTooLarge", "Ssh"}
Tokens == Requests \union Codes \union Marks
Steps  == [do : {"begin", "run", "end"}, id : Requests] \union {[do |-> "terminate"]}

-----------------------------------------------------------------------------
(* Framing.                                                                *)

begin(id) == <<"nl", "B", id, "nl">>
end_prefix(id) == <<"nl", "E", id, "sp">>
terminator == <<"nl", "Z", "nl">>

(* Requests are told apart by their ids, and an id stands for its request. *)
command_for(request) == request \notin EmptyExecs \union Https

(* The frames of a batch, each request once, in order.                     *)
frames(requests) ==
  LET upTo[n \in 0..Len(requests)] ==
        IF n = 0 THEN <<>>
        ELSE IF command_for(requests[n]) /\ \A j \in 1..(n - 1) : requests[j] # requests[n]
        THEN Append(upTo[n - 1], requests[n]) ELSE upTo[n - 1]
  IN  upTo[Len(requests)]

(* The script: three commands to a frame, and the terminator's printf.     *)
encode(list) ==
  [n \in 1..(3 * Len(list) + 1) |->
     IF n > 3 * Len(list) THEN [do |-> "terminate"]
     ELSE [do |-> <<"begin", "run", "end">>[((n - 1) % 3) + 1], id |-> list[((n - 1) \div 3) + 1]]]

(* Where needle first stands in s at or after a position; 0 if nowhere.    *)
find(needle, s, from) ==
  LET at == {i \in from..(Len(s) - Len(needle) + 1) :
               \A j \in DOMAIN needle : s[i + j - 1] = needle[j]}
  IN  IF at = {} THEN 0 ELSE CHOOSE i \in at : \A j \in at : i <= j

NoResponses == [id \in {} |-> <<>>]
Put(responses, id, answer) ==
  [i \in DOMAIN responses \union {id} |-> IF i = id THEN answer ELSE responses[i]]

(* One round of decode's loop from a cursor.  An id is whatever stands on  *)
(* the begin line.  rest has what the later rounds find, from any cursor:  *)
(* a later frame of the same id replaces an earlier one.                   *)
Frame(stream, rest, cursor) ==
  LET b  == find(<<"nl", "B">>, stream, cursor)
      l  == find(<<"nl">>, stream, b + 2)
      id == SubSeq(stream, b + 2, l - 1)
      e  == find(<<"nl", "E">> \o id \o <<"sp">>, stream, l + 1)
      n  == e + 3 + Len(id)
      z  == find(<<"nl">>, stream, n)
  IN  IF b = 0 \/ l = 0 THEN NoResponses
      ELSE IF e = 0 THEN rest[l + 1]
      ELSE IF z = 0 THEN NoResponses
      ELSE IF id \in DOMAIN rest[z + 1] THEN rest[z + 1]
      ELSE Put(rest[z + 1], id, [exit_code |-> SubSeq(stream, n, z - 1),
                                 body |-> SubSeq(stream, l + 1, e - 1)])

(* The responses of a reply.                                               *)
decode(stream) ==
  LET from[cursor \in 1..(Len(stream) + 1)] == Frame(stream, from, cursor)
  IN  from[1]

-----------------------------------------------------------------------------
Returned(kind, responses) == [kind |-> kind, responses |-> responses]

TypeOK ==
  /\ phase \in Phases
  /\ ids \in Seq(Requests)
  /\ buf \in Seq(Tokens) /\ Len(buf) <= MAX_BATCH_BYTES
  /\ clock \in 0..Deadline
  /\ result.kind \in {"none", "Ok"} \union Errors
  /\ script \in Seq(Steps) /\ sg \in Seq(Codes)
  /\ wire \in Seq(Tokens \union Signals)
  /\ DOMAIN printed \subseteq Requests

Init ==
  /\ phase = "down"
  /\ ids = <<>> /\ buf = <<>> /\ clock = 0
  /\ result = Returned("none", NoResponses)
  /\ script = <<>> /\ wire = <<>>
  /\ sg = <<>> /\ printed = NoResponses
  /\ batches = 0 /\ sessions = 0 /\ noise = 0

-----------------------------------------------------------------------------
(* The client.                                                             *)

(* SshSession::connect: a new channel, a new shell, a new nonce.           *)
connect ==
  /\ phase = "down" /\ sessions < MaxSessions
  /\ phase' = "idle"
  /\ sessions' = sessions + 1
  /\ wire' = <<>> /\ script' = <<>>
  /\ UNCHANGED <<ids, buf, clock, result, sg, printed, batches, noise>>

(* A batch none of whose requests is the host's answers at once.           *)
batch(requests) ==
  /\ phase = "idle" /\ batches < MaxBatches
  /\ batches' = batches + 1
  /\ ids' = frames(requests)
  /\ printed' = NoResponses
  /\ buf' = <<>> /\ clock' = 0
  /\ IF ids' = <<>>
     THEN phase' = phase /\ result' = Returned("Ok", NoResponses)
     ELSE phase' = "writing" /\ result' = Returned("none", NoResponses)
  /\ UNCHANGED <<script, sg, wire, sessions, noise>>

raw_write ==
  /\ phase = "writing"
  /\ phase' = "waiting"
  /\ script' = encode(ids)
  /\ UNCHANGED <<ids, buf, clock, result, wire, sg, printed, batches, sessions, noise>>

(* Any error of a batch makes the runtime drop the session, and with it    *)
(* whatever its shell may still say.                                       *)
Fail(error) ==
  /\ result' = Returned(error, NoResponses)
  /\ phase' = "down"
  /\ buf' = <<>>
  /\ script' = <<>> /\ wire' = <<>>
  /\ UNCHANGED <<ids, clock, sg, printed, batches, sessions, noise>>

(* A mutation: a batch that failed leaves the session in use.              *)
FailAndStay(error) ==
  /\ result' = Returned(error, NoResponses)
  /\ phase' = "idle"
  /\ buf' = <<>>
  /\ UNCHANGED <<ids, clock, script, wire, sg, printed, batches, sessions, noise>>

drop(error) == Fail(error)

write_failed == phase = "writing" /\ drop("Ssh")

(* A mutation: only the write has a deadline.                              *)
ExpiredWriting == phase = "writing" /\ clock = Deadline

(* timeout_at around the write and around every wait, one deadline for     *)
(* all.  A message that is ready may be taken first.                       *)
Expired == clock = Deadline
timed_out == phase \in {"writing", "waiting"} /\ Expired /\ drop("Timeout")

(* A mutation: only the new data is searched for the terminator.           *)
SearchData == Len(buf) + 1
(* Where the search starts: as much before the data as a terminator has.   *)
SearchFrom == IF Len(buf) > Len(terminator) THEN Len(buf) - Len(terminator) + 1 ELSE 1

(* A mutation: the limit is looked at without the data that came.          *)
TooLargeBefore(k) == Len(buf) > MAX_BATCH_BYTES
TooLarge(k) == k > MAX_BATCH_BYTES - Len(buf)

(* ChannelMsg::Data: any part of what is on the wire.                      *)
data(k) ==
  /\ phase = "waiting" /\ k <= Len(wire)
  /\ \A i \in 1..k : wire[i] \notin Signals
  /\ IF TooLarge(k) THEN drop("OutputTooLarge")
     ELSE /\ wire' = SubSeq(wire, k + 1, Len(wire))
          /\ UNCHANGED <<ids, clock, script, sg, printed, batches, sessions, noise>>
          /\ \E reply \in {buf \o SubSeq(wire, 1, k)} :
               IF find(terminator, reply, SearchFrom) = 0
               THEN buf' = reply /\ UNCHANGED <<phase, result>>
               ELSE /\ buf' = <<>>
                    /\ phase' = "idle"
                    /\ result' = Returned("Ok", decode(reply))

(* ExtendedData is somebody's standard error.                              *)
extended_data ==
  /\ phase = "waiting" /\ wire # <<>> /\ Head(wire) = "ExtendedData"
  /\ wire' = Tail(wire)
  /\ UNCHANGED <<client, script, sg, printed, batches, sessions, noise>>

closed == phase = "waiting" /\ wire # <<>> /\ Head(wire) = "Closed" /\ drop("Closed")

-----------------------------------------------------------------------------
(* The host: it works whether anyone waits or not.                         *)

Alive == phase # "down" /\ "Closed" \notin {wire[i] : i \in DOMAIN wire}
Write(tokens) == wire' = wire \o tokens
Do(step) ==
  /\ Alive /\ script # <<>> /\ Head(script).do = step
  /\ script' = Tail(script)
  /\ UNCHANGED <<client, batches, sessions, noise>>

print_begin == Do("begin") /\ Write(begin(Head(script).id)) /\ UNCHANGED <<sg, printed>>

run_command(output) ==
  /\ Do("run")
  /\ Write(output.body)
  /\ sg' = output.exit_code
  /\ printed' = Put(printed, Head(script).id, output)

print_end ==
  /\ Do("end")
  /\ Write(end_prefix(Head(script).id) \o sg \o <<"nl">>)
  /\ UNCHANGED <<sg, printed>>

print_terminator == Do("terminate") /\ Write(terminator) /\ UNCHANGED <<sg, printed>>

(* A command may kill its shell; a connection may break.                   *)
shell_dies ==
  /\ Alive
  /\ Write(<<"Closed">>)
  /\ script' = <<>>
  /\ UNCHANGED <<client, sg, printed, batches, sessions, noise>>

(* Output that belongs to no command, on either stream.                    *)
background_prints ==
  /\ Alive /\ noise < MaxNoise
  /\ noise' = noise + 1
  /\ \E token \in {"noise", "ExtendedData"} : Write(<<token>>)
  /\ UNCHANGED <<client, script, sg, printed, batches, sessions>>

time_passes ==
  /\ phase \in {"writing", "waiting"} /\ clock < Deadline
  /\ clock' = clock + 1
  /\ UNCHANGED <<phase, ids, buf, result, remote, batches, sessions, noise>>

-----------------------------------------------------------------------------
receive == (\E k \in Chunks : data(k)) \/ extended_data \/ closed

Caller == (\E requests \in Batches : batch(requests)) \/ raw_write \/ write_failed \/ timed_out

Host ==
  \/ print_begin
  \/ \E output \in Outputs : run_command(output)
  \/ print_end
  \/ print_terminator
  \/ shell_dies
  \/ background_prints

Next == connect \/ Caller \/ receive \/ Host \/ time_passes

Spec == Init /\ [][Next]_vars

(* Time passes, and the executor polls the caller: it takes what has       *)
(* arrived or notices the deadline.  Of the host nothing is assumed.       *)
FairSpec == Spec /\ WF_vars(time_passes) /\ WF_vars(receive \/ timed_out)

-----------------------------------------------------------------------------
(* What is left of a sequence without the members of gone.                 *)
Without(s, gone) ==
  LET upTo[n \in 0..Len(s)] ==
        IF n = 0 THEN <<>>
        ELSE IF s[n] \in gone THEN upTo[n - 1] ELSE Append(upTo[n - 1], s[n])
  IN  upTo[Len(s)]

(* A command's own part of a body.                                         *)
Own(body) == Without(body, {"noise"})

(* A batch that succeeds answers each of its requests, once, with what     *)
(* that command printed and returned during this very batch, and nothing   *)
(* else: output without a last newline, output of another batch, chunks    *)
(* that split a marker and background noise change no exit code and lose   *)
(* nothing of a body.                                                      *)
OwnAnswers ==
  phase = "idle" /\ result.kind = "Ok" =>
    /\ DOMAIN result.responses = {<<ids[i]>> : i \in DOMAIN ids}
    /\ \A id \in DOMAIN result.responses :
         LET answer == result.responses[id]
         IN  /\ answer.exit_code = printed[id[1]].exit_code
             /\ Own(answer.body) = printed[id[1]].body

(* However a reply is cut into chunks, a batch that goes on waiting has    *)
(* not received its terminator: looking only at the tail misses none.      *)
TerminatorNotMissed == phase = "waiting" => find(terminator, buf, 1) = 0

(* A batch returns, whatever the host does: it answers, breaks, floods or  *)
(* is silent.                                                              *)
EveryBatchReturns == phase \in {"writing", "waiting"} ~> phase \in {"idle", "down"}
=============================================================================
