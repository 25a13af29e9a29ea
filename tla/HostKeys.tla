------------------------------ MODULE HostKeys ------------------------------
(***************************************************************************)
(* Coming online over SSH (crates/sg-transport/src/session.rs): the        *)
(* handshake, the comparison of the server's key with the file of pinned   *)
(* keys, the recording of a new one, and authentication, for several       *)
(* connections that share that file.  An entry of TransportError decides   *)
(* whether the poll loop tries again by itself.                            *)
(*                                                                         *)
(* The servers, the file's permissions and the person who edits the file   *)
(* are the environment.  russh looks keys up in the file and appends to    *)
(* it; it is modelled from how check_server_key uses it.                   *)
(***************************************************************************)
EXTENDS Naturals, FiniteSets

CONSTANTS
  Conns,      \* connections, one per monitored host
  Endpoints,  \* host and port
  Keys,       \* host keys
  NoKey, NoConn

ASSUME NoneAssumption == NoKey \notin Keys /\ NoConn \notin Conns

VARIABLES
  endpoint, policy, located, auth,  \* the ConnectionSpec of each connection
  server,      \* the key each server presents
  readable, writable,         \* what the file's permissions allow
  pins,        \* the keys recorded for each endpoint
  late,        \* the keys that handshakes given up on may still record
  lock,        \* who holds PIN_STORE
  pc,          \* where each connection is
  seen,        \* the key it was shown
  verdict,     \* HostKeyVerdict
  error,       \* the TransportError it ended with
  basis,       \* what was pinned for its endpoint when its key was accepted
  refusals     \* attempts in a row in which the server refused its credentials

spec  == <<endpoint, policy, located, auth>>
world == <<server, readable, writable>>
conn  == <<pc, seen, verdict, error, basis, refusals>>
vars  == <<spec, world, pins, late, lock, conn>>

Policies == {"Strict", "AcceptNew", "AcceptAny"}
Verdicts == {"None", "Accepted", "StorageFailed", "Unknown", "Changed"}
Auths    == {"Secret", "Agent"}  \* one password or key, or those an agent holds
Points   == {"idle", "handshake", "locked", "learning", "checked", "auth", "refused", "shell",
             "up", "failed"}
Transient == {"Ssh", "Closed", "Timeout"}
Fatal     == {"AuthFailed", "UnknownHostKey", "HostKeyMismatch", "HostKeyStorage", "NoIdentity",
              "OutputTooLarge"}
Many      == 2  \* refusals are counted up to here

TypeOK ==
  /\ endpoint \in [Conns -> Endpoints]
  /\ policy \in [Conns -> Policies]
  /\ located \in [Conns -> BOOLEAN]
  /\ auth \in [Conns -> Auths]
  /\ server \in [Endpoints -> Keys]
  /\ readable \in BOOLEAN
  /\ writable \in BOOLEAN
  /\ pins \in [Endpoints -> SUBSET Keys]
  /\ late \in [Endpoints -> SUBSET Keys]
  /\ lock \in Conns \union {NoConn}
  /\ pc \in [Conns -> Points]
  /\ seen \in [Conns -> Keys \union {NoKey}]
  /\ verdict \in [Conns -> Verdicts]
  /\ error \in [Conns -> {"none"} \union Transient \union Fatal]
  /\ basis \in [Conns -> SUBSET Keys]
  /\ refusals \in [Conns -> 0..Many]

(* known_hosts as it is found: at most one key for each endpoint.          *)
Init ==
  /\ endpoint \in [Conns -> Endpoints]
  /\ policy \in [Conns -> Policies]
  /\ located \in [Conns -> BOOLEAN]
  /\ auth \in [Conns -> Auths]
  /\ server \in [Endpoints -> Keys]
  /\ readable = TRUE
  /\ writable = TRUE
  /\ pins \in [Endpoints -> {{}} \union {{k} : k \in Keys}]
  /\ late = [e \in Endpoints |-> {}]
  /\ lock = NoConn
  /\ pc = [c \in Conns |-> "idle"]
  /\ seen = [c \in Conns |-> NoKey]
  /\ verdict = [c \in Conns |-> "None"]
  /\ error = [c \in Conns |-> "none"]
  /\ basis = [c \in Conns |-> {}]
  /\ refusals = [c \in Conns |-> 0]

-----------------------------------------------------------------------------
(* The file of pins.                                                       *)

(* A mutation: every failure to open the file passes for a missing file.   *)
OpenFailsNever == FALSE

(* File::open fails otherwise than because there is no file.               *)
OpenFails == ~readable

(* check_known_hosts_path, which takes a file it cannot open for an empty  *)
(* one.                                                                    *)
Recorded(e) == IF readable THEN pins[e] ELSE {}
Known(e, k)   == k \in Recorded(e)
Changed(e, k) == Recorded(e) # {} /\ k \notin Recorded(e)
Absent(e)     == Recorded(e) = {}

(* A mutation: the look-up and the recording are not one critical section. *)
LockFreeAlways == TRUE

LockFree == lock = NoConn

-----------------------------------------------------------------------------
(* TransportError::is_transient                                            *)

(* A mutation: refused credentials are retried like a lost connection.     *)
is_transient_or_refused(e) == e \in Transient \union {"AuthFailed"}

is_transient(e) == e \in Transient

Move(c, point) == pc' = [pc EXCEPT ![c] = point]

(* connect or batch returns the error, and the session is dropped.         *)
Fail(c, e) ==
  /\ Move(c, "failed")
  /\ error' = [error EXCEPT ![c] = e]
  /\ seen' = [seen EXCEPT ![c] = NoKey]
  /\ verdict' = [verdict EXCEPT ![c] = "None"]
  /\ basis' = [basis EXCEPT ![c] = {}]

Record(c, v) ==
  /\ verdict' = [verdict EXCEPT ![c] = v]
  /\ basis' = IF v = "Accepted" THEN [basis EXCEPT ![c] = pins'[endpoint[c]]] ELSE basis

Dial(c) ==
  /\ Move(c, "handshake")
  /\ seen' = [seen EXCEPT ![c] = server[endpoint[c]]]
  /\ error' = [error EXCEPT ![c] = "none"]
  /\ UNCHANGED <<spec, world, pins, late, lock, verdict, basis>>

(* A person starts the connection, for the first time or after a failure.  *)
start(c) ==
  /\ pc[c] \in {"idle", "failed"}
  /\ Dial(c)
  /\ refusals' = [refusals EXCEPT ![c] = 0]

(* The poll loop tries again by itself.                                    *)
retry(c) ==
  /\ pc[c] = "failed"
  /\ is_transient(error[c])
  /\ Dial(c)
  /\ UNCHANGED refusals

(* A handshake given up on goes on in russh's own task: its key may yet be *)
(* recorded.                                                               *)
Abandon(c) ==
  IF pc[c] = "handshake" /\ policy[c] = "AcceptNew" /\ located[c]
  THEN late' = [late EXCEPT ![endpoint[c]] = @ \union {seen[c]}]
  ELSE UNCHANGED late

(* connect_timeout_ms passes, in the handshake or in what follows it.      *)
connect_timeout(c) ==
  /\ pc[c] \in {"handshake", "checked", "auth", "refused", "shell"}
  /\ Fail(c, "Timeout")
  /\ Abandon(c)
  /\ UNCHANGED <<spec, world, pins, lock, refusals>>

(* The connection breaks.  A verdict that refuses the key goes before the  *)
(* error of the protocol; between the identities of an agent, authenticate *)
(* drops it.                                                               *)
connect_failed(c) ==
  /\ pc[c] \in {"handshake", "auth", "shell"} \/ (pc[c] = "checked" /\ verdict[c] = "Accepted")
  /\ Fail(c, "Ssh")
  /\ UNCHANGED <<spec, world, pins, late, lock, refusals>>

-----------------------------------------------------------------------------
(* check_server_key.                                                       *)

(* Nothing to compare: any key will do, or there is nowhere to look.       *)
check_nothing(c) ==
  /\ pc[c] = "handshake"
  /\ \/ policy[c] = "AcceptAny" /\ verdict' = [verdict EXCEPT ![c] = "Accepted"]
     \/ policy[c] # "AcceptAny" /\ ~located[c] /\ verdict' = [verdict EXCEPT ![c] = "StorageFailed"]
  /\ Move(c, "checked")
  /\ UNCHANGED <<spec, world, pins, late, lock, seen, error, basis, refusals>>

lock_pins(c) ==
  /\ pc[c] = "handshake"
  /\ policy[c] # "AcceptAny" /\ located[c]
  /\ LockFree
  /\ lock' = c
  /\ Move(c, "locked")
  /\ UNCHANGED <<spec, world, pins, late, seen, verdict, error, basis, refusals>>

(* The file cannot be read, or holds something that is not a pin.          *)
check_unreadable(c) ==
  /\ pc[c] = "locked"
  /\ UNCHANGED pins
  /\ Record(c, "StorageFailed")
  /\ Move(c, "checked")
  /\ lock' = NoConn
  /\ UNCHANGED <<spec, world, late, seen, error, refusals>>

check_known_hosts(c) ==
  LET e == endpoint[c] IN
  /\ pc[c] = "locked"
  /\ ~OpenFails
  /\ UNCHANGED pins
  /\ \/ Known(e, seen[c]) /\ Record(c, "Accepted")
     \/ Changed(e, seen[c]) /\ Record(c, "Changed")
     \/ Absent(e) /\ policy[c] = "Strict" /\ Record(c, "Unknown")
  /\ Move(c, "checked")
  /\ lock' = NoConn
  /\ UNCHANGED <<spec, world, late, seen, error, refusals>>

(* An unknown host under AcceptNew: the key is to be recorded.             *)
check_new(c) ==
  /\ pc[c] = "locked"
  /\ ~OpenFails
  /\ Absent(endpoint[c]) /\ policy[c] = "AcceptNew"
  /\ Move(c, "learning")
  /\ UNCHANGED <<spec, world, pins, late, lock, seen, verdict, error, basis, refusals>>

(* A mutation: a key that could not be recorded is good enough this time.  *)
learn_or_go_on(c) ==
  /\ pc[c] = "learning"
  /\ \/ writable /\ pins' = [pins EXCEPT ![endpoint[c]] = @ \union {seen[c]}]
     \/ UNCHANGED pins
  /\ Record(c, "Accepted")
  /\ Move(c, "checked")
  /\ lock' = NoConn
  /\ UNCHANGED <<spec, world, late, seen, error, refusals>>

(* learn appends the key, or fails with the disk or the permissions.       *)
learn(c) ==
  /\ pc[c] = "learning"
  /\ \/ /\ writable
        /\ pins' = [pins EXCEPT ![endpoint[c]] = @ \union {seen[c]}]
        /\ Record(c, "Accepted")
     \/ UNCHANGED pins /\ Record(c, "StorageFailed")
  /\ Move(c, "checked")
  /\ lock' = NoConn
  /\ UNCHANGED <<spec, world, late, seen, error, refusals>>

-----------------------------------------------------------------------------
(* SshSession::connect goes on from the verdict.                           *)

(* A mutation: the verdict itself is handed on as the error.               *)
VerdictItself(v) == v

(* The rejection surfaces as a protocol failure; the verdict says which.   *)
VerdictError(v) ==
  CASE v = "Unknown"       -> "UnknownHostKey"
    [] v = "Changed"       -> "HostKeyMismatch"
    [] v = "StorageFailed" -> "HostKeyStorage"

handshake_done(c) ==
  /\ pc[c] = "checked"
  /\ IF verdict[c] = "Accepted"
     THEN Move(c, "auth") /\ UNCHANGED <<seen, verdict, error, basis>>
     ELSE Fail(c, VerdictError(verdict[c]))
  /\ UNCHANGED <<spec, world, pins, late, lock, refusals>>

(* The server lets the credentials in, at once or after other identities   *)
(* of the agent.                                                           *)
authenticated(c) ==
  /\ pc[c] \in {"auth", "refused"}
  /\ Move(c, "shell")
  /\ refusals' = [refusals EXCEPT ![c] = 0]
  /\ UNCHANGED <<spec, world, pins, late, lock, seen, verdict, error, basis>>

CountRefusal(c) == refusals' = [refusals EXCEPT ![c] = IF @ < Many THEN @ + 1 ELSE @]

(* authenticate: the password or the key is refused.                       *)
authentication_refused(c) ==
  /\ pc[c] = "auth" /\ auth[c] = "Secret"
  /\ Fail(c, "AuthFailed")
  /\ CountRefusal(c)
  /\ UNCHANGED <<spec, world, pins, late, lock>>

(* authenticate_with_agent: an identity is refused, the next one is tried. *)
identity_refused(c) ==
  /\ pc[c] = "auth" /\ auth[c] = "Agent"
  /\ Move(c, "refused")
  /\ CountRefusal(c)
  /\ UNCHANGED <<spec, world, pins, late, lock, seen, verdict, error, basis>>

(* The key file, the pasted key or the agent yields nothing more to offer. *)
no_identity(c) ==
  /\ pc[c] \in {"auth", "refused"}
  /\ Fail(c, "NoIdentity")
  /\ UNCHANGED <<spec, world, pins, late, lock, refusals>>

shell_started(c) ==
  /\ pc[c] = "shell"
  /\ Move(c, "up")
  /\ UNCHANGED <<spec, world, pins, late, lock, seen, verdict, error, basis, refusals>>

(* batch fails, or its answer grows past the limit.                        *)
session_lost(c, e) ==
  /\ pc[c] = "up"
  /\ Fail(c, e)
  /\ UNCHANGED <<spec, world, pins, late, lock, refusals>>

-----------------------------------------------------------------------------
(* The environment.                                                        *)

server_replaced(e, k) ==
  /\ server' = [server EXCEPT ![e] = k]
  /\ UNCHANGED <<spec, readable, writable, pins, late, lock, conn>>

permissions_change(r, w) ==
  /\ readable' = r /\ writable' = w
  /\ UNCHANGED <<spec, server, pins, late, lock, conn>>

(* A person takes the endpoint out of the file.                            *)
pins_forgotten(e) ==
  /\ pins' = [pins EXCEPT ![e] = {}]
  /\ UNCHANGED <<spec, world, late, lock, conn>>

(* A handshake given up on gets to the file after all, and finds no pin.   *)
late_learn(e, k) ==
  /\ k \in late[e]
  /\ LockFree
  /\ pins[e] = {} /\ writable
  /\ pins' = [pins EXCEPT ![e] = {k}]
  /\ late' = [late EXCEPT ![e] = @ \ {k}]
  /\ UNCHANGED <<spec, world, lock, conn>>

(* It does not, or is refused there.                                       *)
late_gone(e, k) ==
  /\ k \in late[e]
  /\ late' = [late EXCEPT ![e] = @ \ {k}]
  /\ UNCHANGED <<spec, world, pins, lock, conn>>

Connection(c) ==
  \/ start(c)
  \/ retry(c)
  \/ connect_timeout(c)
  \/ connect_failed(c)
  \/ check_nothing(c)
  \/ lock_pins(c)
  \/ check_unreadable(c)
  \/ check_known_hosts(c)
  \/ check_new(c)
  \/ learn(c)
  \/ handshake_done(c)
  \/ authenticated(c)
  \/ authentication_refused(c)
  \/ identity_refused(c)
  \/ no_identity(c)
  \/ shell_started(c)
  \/ \E e \in {"Ssh", "Closed", "Timeout", "OutputTooLarge"} : session_lost(c, e)

Environment ==
  \/ \E e \in Endpoints, k \in Keys : server_replaced(e, k)
  \/ \E r, w \in BOOLEAN : permissions_change(r, w)
  \/ \E e \in Endpoints : pins_forgotten(e)
  \/ \E e \in Endpoints, k \in Keys : late_learn(e, k) \/ late_gone(e, k)

Next == (\E c \in Conns : Connection(c)) \/ Environment

Spec == Init /\ [][Next]_vars

-----------------------------------------------------------------------------
(* "Serialise the read/learn pair so simultaneous connections cannot race  *)
(* to trust two different keys": whatever the servers present and whatever *)
(* happens to the file, no endpoint gets two keys.                         *)
OneKeyPerEndpoint == \A e \in Endpoints : \A j, k \in pins[e] : j = k

(* "Do not send credentials until the promised pin is durable": a          *)
(* connection that gets to authentication talks to the very key the file   *)
(* held for its endpoint when the key was accepted, and to no other.       *)
CredentialsToPinnedKey ==
  \A c \in Conns : pc[c] \in {"auth", "refused", "shell", "up"} /\ policy[c] # "AcceptAny"
    => basis[c] = {seen[c]}

(* A pinned endpoint stays pinned to its key until a person takes the pin  *)
(* out: no failure to read the file, no policy, no race replaces it.       *)
PinIsKept ==
  [][\A e \in Endpoints : pins[e] # {} => pins'[e] \in {pins[e], {}}]_vars

(* A password or a key that was refused is not offered again until a       *)
(* person asks for it: no failure that is retried comes after a refusal.   *)
RefusedOnce == \A c \in Conns : auth[c] = "Secret" => refusals[c] <= 1
=============================================================================
