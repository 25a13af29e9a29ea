--------------------------- MODULE HostKeysProofs ---------------------------
(***************************************************************************)
(* Proofs about HostKeys, for any number of connections, endpoints and     *)
(* keys.                                                                   *)
(***************************************************************************)
EXTENDS HostKeys, TLAPS

(* The look-up and the recording are one critical section.                 *)
Critical == \A c \in Conns : pc[c] \in {"locked", "learning"} => lock = c

(* Inside it, a key is recorded only where there is none.                  *)
NewOnly == \A c \in Conns : pc[c] = "learning" => pins[endpoint[c]] = {}

(* A key is accepted on the strength of the one pin of its endpoint, and   *)
(* authentication follows acceptance.                                      *)
Vouched ==
  \A c \in Conns :
    /\ pc[c] \in {"checked", "auth", "refused", "shell", "up"} /\ verdict[c] = "Accepted"
         /\ policy[c] # "AcceptAny" => basis[c] = {seen[c]}
    /\ pc[c] \in {"auth", "refused", "shell", "up"} => verdict[c] = "Accepted"
    /\ pc[c] = "checked" => verdict[c] # "None"
    /\ pc[c] \notin {"idle", "failed"} => seen[c] \in Keys

(* A refused secret leaves the connection in a state nobody retries.       *)
Refused ==
  \A c \in Conns : auth[c] = "Secret" =>
    /\ pc[c] # "refused"
    /\ refusals[c] = 0 \/ (refusals[c] = 1 /\ pc[c] = "failed" /\ error[c] = "AuthFailed")

IInv ==
  /\ TypeOK
  /\ OneKeyPerEndpoint
  /\ Critical
  /\ NewOnly
  /\ Vouched
  /\ Refused

(* The invariant holds at first.                                           *)
LEMMA IInvInit == Init => IInv
<1> SUFFICES ASSUME Init PROVE IInv
  OBVIOUS
<1> USE NoneAssumption DEF Init
<1>1. TypeOK
  BY DEF TypeOK, Verdicts, Points, Many
<1>2. OneKeyPerEndpoint
  BY DEF OneKeyPerEndpoint
<1> QED
  BY <1>1, <1>2 DEF IInv, Critical, NewOnly, Vouched, Refused

(* Every step keeps every variable in its type.                            *)
LEMMA TypeStep == IInv /\ [Next]_vars => TypeOK'
<1> SUFFICES ASSUME IInv, [Next]_vars PROVE TypeOK'
  OBVIOUS
<1> USE NoneAssumption DEF spec, world, conn
<1>0. TypeOK /\ Vouched
  BY DEF IInv
<1>p. /\ {"handshake", "locked", "learning", "checked", "auth", "refused", "shell", "up",
          "failed"} \subseteq Points
      /\ Verdicts = {"Accepted", "StorageFailed", "Unknown", "Changed", "None"}
  BY DEF Points, Verdicts
<1>e. /\ {"Ssh", "Timeout", "Closed"} \subseteq Transient
      /\ {"AuthFailed", "UnknownHostKey", "HostKeyMismatch", "HostKeyStorage", "NoIdentity",
          "OutputTooLarge"} \subseteq Fatal
  BY DEF Transient, Fatal
<1>f. ASSUME NEW c \in Conns, NEW e \in Transient \union Fatal, Fail(c, e)
      PROVE  /\ pc' \in [Conns -> Points]
             /\ error' \in [Conns -> {"none"} \union Transient \union Fatal]
             /\ seen' \in [Conns -> Keys \union {NoKey}]
             /\ verdict' \in [Conns -> Verdicts]
             /\ basis' \in [Conns -> SUBSET Keys]
  BY <1>0, <1>p, <1>f DEF Fail, Move, TypeOK
<1>1. ASSUME NEW c \in Conns, start(c) \/ retry(c) PROVE TypeOK'
  BY <1>0, <1>p, <1>1 DEF start, retry, Dial, Move, TypeOK, Many
<1>2. ASSUME NEW c \in Conns, connect_timeout(c) PROVE TypeOK'
  <2>1. late' \in [Endpoints -> SUBSET Keys]
    BY <1>0, <1>2 DEF connect_timeout, Abandon, TypeOK, Vouched
  <2> QED
    BY <1>0, <1>e, <1>f, <1>2, <2>1 DEF connect_timeout, TypeOK
<1>2f. ASSUME NEW c \in Conns, connect_failed(c) PROVE TypeOK'
  BY <1>0, <1>e, <1>f, <1>2f DEF connect_failed, TypeOK
<1>3. ASSUME NEW c \in Conns, check_nothing(c) \/ lock_pins(c) \/ check_new(c) PROVE TypeOK'
  BY <1>0, <1>p, <1>3 DEF check_nothing, lock_pins, check_new, Move, TypeOK
<1>4. ASSUME NEW c \in Conns, NEW v \in Verdicts, Record(c, v), pins' \in [Endpoints -> SUBSET Keys]
      PROVE  verdict' \in [Conns -> Verdicts] /\ basis' \in [Conns -> SUBSET Keys]
  BY <1>0, <1>4 DEF Record, TypeOK
<1>5. ASSUME NEW c \in Conns, check_unreadable(c) PROVE TypeOK'
  BY <1>0, <1>p, <1>4, <1>5 DEF check_unreadable, Move, TypeOK
<1>6. ASSUME NEW c \in Conns, check_known_hosts(c) PROVE TypeOK'
  BY <1>0, <1>p, <1>4, <1>6 DEF check_known_hosts, Move, TypeOK
<1>7. ASSUME NEW c \in Conns, learn(c) PROVE TypeOK'
  <2>1. pins' \in [Endpoints -> SUBSET Keys]
    BY <1>0, <1>7 DEF learn, TypeOK, Vouched
  <2> QED
    BY <1>0, <1>p, <1>4, <1>7, <2>1 DEF learn, Move, TypeOK
<1>8. ASSUME NEW c \in Conns, handshake_done(c) PROVE TypeOK'
  <2>1. CASE verdict[c] = "Accepted"
    BY <1>0, <1>p, <1>8, <2>1 DEF handshake_done, Move, TypeOK
  <2>2. CASE verdict[c] # "Accepted"
    <3>1. VerdictError(verdict[c]) \in Fatal
      BY <1>0, <1>p, <1>e, <1>8, <2>2 DEF handshake_done, VerdictError, Vouched, TypeOK
    <3> QED
      BY <1>0, <1>f, <1>8, <2>2, <3>1 DEF handshake_done, TypeOK
  <2> QED
    BY <2>1, <2>2
<1>9. ASSUME NEW c \in Conns, authenticated(c) \/ identity_refused(c) \/ shell_started(c)
      PROVE  TypeOK'
  BY <1>0, <1>p, <1>9 DEF authenticated, identity_refused, shell_started, CountRefusal, Many,
     Move, TypeOK
<1>9f. ASSUME NEW c \in Conns, authentication_refused(c) \/ no_identity(c) PROVE TypeOK'
  BY <1>0, <1>e, <1>f, <1>9f DEF authentication_refused, no_identity, CountRefusal, Many, TypeOK
<1>9s. ASSUME NEW c \in Conns, NEW e \in {"Ssh", "Closed", "Timeout", "OutputTooLarge"},
              session_lost(c, e)
       PROVE  TypeOK'
  BY <1>0, <1>e, <1>f, <1>9s DEF session_lost, TypeOK
<1>10. CASE Environment
  BY <1>0, <1>10 DEF Environment, server_replaced, permissions_change, pins_forgotten,
     late_learn, late_gone, TypeOK
<1>11. CASE UNCHANGED vars
  BY <1>0, <1>11 DEF vars, TypeOK
<1> QED
  BY <1>1, <1>2, <1>2f, <1>3, <1>5, <1>6, <1>7, <1>8, <1>9, <1>9f, <1>9s, <1>10, <1>11
  DEF Next, Connection

(* Every step keeps the pins, the critical section, what a key was         *)
(* accepted on, and the count of refusals straight.                        *)
LEMMA SafeStep ==
  IInv /\ [Next]_vars => (OneKeyPerEndpoint /\ Critical /\ NewOnly /\ Vouched /\ Refused)'
<1> SUFFICES ASSUME IInv, [Next]_vars
             PROVE  (OneKeyPerEndpoint /\ Critical /\ NewOnly /\ Vouched /\ Refused)'
  OBVIOUS
<1> USE NoneAssumption DEF spec, world, conn, OneKeyPerEndpoint, Critical, NewOnly, Vouched,
      Refused
<1> DEFINE Goal == OneKeyPerEndpoint' /\ Critical' /\ NewOnly' /\ Vouched' /\ Refused'
<1>0. TypeOK /\ OneKeyPerEndpoint /\ Critical /\ NewOnly /\ Vouched /\ Refused
  BY DEF IInv
<1>1. ASSUME NEW c \in Conns, start(c) PROVE Goal
  BY <1>0, <1>1 DEF start, Dial, Move, TypeOK
<1>1r. ASSUME NEW c \in Conns, retry(c) PROVE Goal
  BY <1>0, <1>1r DEF retry, Dial, Move, is_transient, Transient, TypeOK
<1>2. ASSUME NEW c \in Conns, connect_timeout(c) \/ connect_failed(c) PROVE Goal
  BY <1>0, <1>2 DEF connect_timeout, connect_failed, Fail, Move, TypeOK
<1>3. ASSUME NEW c \in Conns, check_nothing(c) PROVE Goal
  BY <1>0, <1>3 DEF check_nothing, Move, TypeOK
<1>4. ASSUME NEW c \in Conns, lock_pins(c) PROVE Goal
  BY <1>0, <1>4 DEF lock_pins, LockFree, Move, TypeOK
<1>5. ASSUME NEW c \in Conns, check_unreadable(c) PROVE Goal
  BY <1>0, <1>5 DEF check_unreadable, Record, Move, TypeOK
<1>6. ASSUME NEW c \in Conns, check_known_hosts(c) PROVE Goal
  <2>1. Recorded(endpoint[c]) = pins[endpoint[c]]
    BY <1>6 DEF check_known_hosts, OpenFails, Recorded
  <2>2. CASE Known(endpoint[c], seen[c]) /\ Record(c, "Accepted")
    <3>1. pins[endpoint[c]] = {seen[c]}
      BY <1>0, <2>1, <2>2 DEF Known, TypeOK
    <3>2. verdict' = [verdict EXCEPT ![c] = "Accepted"] /\ basis' = [basis EXCEPT ![c] = {seen[c]}]
      BY <1>6, <2>2, <3>1 DEF Record, check_known_hosts
    <3> QED
      BY <1>0, <1>6, <3>2 DEF check_known_hosts, Move, TypeOK
  <2>3. CASE Record(c, "Changed") \/ Record(c, "Unknown")
    BY <1>0, <1>6, <2>3 DEF check_known_hosts, Record, Move, TypeOK
  <2> QED
    BY <1>6, <2>2, <2>3 DEF check_known_hosts
<1>7. ASSUME NEW c \in Conns, check_new(c) PROVE Goal
  BY <1>0, <1>7 DEF check_new, Absent, Recorded, OpenFails, Move, TypeOK
<1>8. ASSUME NEW c \in Conns, learn(c) PROVE Goal
  <2>1. CASE UNCHANGED pins /\ Record(c, "StorageFailed")
    BY <1>0, <1>8, <2>1 DEF learn, Record, Move, TypeOK
  <2>2. CASE pins' = [pins EXCEPT ![endpoint[c]] = @ \union {seen[c]}] /\ Record(c, "Accepted")
    <3>1. pins[endpoint[c]] = {} /\ pc[c] = "learning" /\ endpoint[c] \in Endpoints
      BY <1>0, <1>8 DEF learn, TypeOK
    <3>2. pins' = [pins EXCEPT ![endpoint[c]] = {seen[c]}]
      BY <1>0, <2>2, <3>1 DEF TypeOK
    <3>3. verdict' = [verdict EXCEPT ![c] = "Accepted"] /\ basis' = [basis EXCEPT ![c] = {seen[c]}]
      BY <1>0, <1>8, <2>2, <3>1, <3>2 DEF Record, TypeOK, learn
    <3>4. \A d \in Conns : pc[d] = "learning" => d = c
      BY <1>0, <3>1
    <3> QED
      BY <1>0, <1>8, <3>1, <3>2, <3>3, <3>4 DEF learn, Move, TypeOK
  <2> QED
    BY <1>8, <2>1, <2>2 DEF learn
<1>9. ASSUME NEW c \in Conns, handshake_done(c) PROVE Goal
  <2>1. CASE Move(c, "auth") /\ UNCHANGED <<seen, verdict, error, basis>> /\ verdict[c] = "Accepted"
    BY <1>0, <1>9, <2>1 DEF handshake_done, Move, TypeOK
  <2>2. CASE Fail(c, VerdictError(verdict[c]))
    BY <1>0, <1>9, <2>2 DEF handshake_done, Fail, Move, TypeOK
  <2> QED
    BY <1>9, <2>1, <2>2 DEF handshake_done
<1>10. ASSUME NEW c \in Conns, authenticated(c) \/ shell_started(c) PROVE Goal
  BY <1>0, <1>10 DEF authenticated, shell_started, Move, TypeOK
<1>10r. ASSUME NEW c \in Conns, identity_refused(c) PROVE Goal
  BY <1>0, <1>10r DEF identity_refused, CountRefusal, Move, TypeOK
<1>11. ASSUME NEW c \in Conns, no_identity(c) PROVE Goal
  BY <1>0, <1>11 DEF no_identity, Fail, Move, TypeOK
<1>11s. ASSUME NEW c \in Conns, NEW e \in {"Ssh", "Closed", "Timeout", "OutputTooLarge"},
               session_lost(c, e)
        PROVE  Goal
  BY <1>0, <1>11s DEF session_lost, Fail, Move, TypeOK
<1>12. ASSUME NEW c \in Conns, authentication_refused(c) PROVE Goal
  BY <1>0, <1>12 DEF authentication_refused, CountRefusal, Many, Fail, Move, TypeOK
<1>12l. ASSUME NEW e \in Endpoints, NEW k \in Keys, late_learn(e, k) PROVE Goal
  <2>1. \A c \in Conns : pc[c] \notin {"locked", "learning"}
    BY <1>0, <1>12l DEF late_learn, LockFree
  <2> QED
    BY <1>0, <1>12l, <2>1 DEF late_learn, TypeOK
<1>13. ASSUME UNCHANGED <<spec, pins, lock, conn>> PROVE Goal
  BY <1>0, <1>13
<1>13f. ASSUME NEW e \in Endpoints, pins_forgotten(e) PROVE Goal
  BY <1>0, <1>13f DEF pins_forgotten, TypeOK
<1>13e. CASE Environment
  <2>1. ASSUME NEW e \in Endpoints, NEW k \in Keys, server_replaced(e, k) \/ late_gone(e, k)
        PROVE  Goal
    BY <1>13, <2>1 DEF server_replaced, late_gone
  <2>2. ASSUME NEW r \in BOOLEAN, NEW w \in BOOLEAN, permissions_change(r, w) PROVE Goal
    BY <1>13, <2>2 DEF permissions_change
  <2> QED
    BY <1>12l, <1>13e, <1>13f, <2>1, <2>2 DEF Environment
<1>14. CASE UNCHANGED vars
  BY <1>0, <1>14 DEF vars
<1> QED
  BY <1>1, <1>1r, <1>2, <1>3, <1>4, <1>5, <1>6, <1>7, <1>8, <1>9, <1>10, <1>10r, <1>11,
     <1>11s, <1>12, <1>13e, <1>14
  DEF Next, Connection

(* The inductive invariant holds in every reachable state.                 *)
THEOREM KeyInvariant == Spec => []IInv
<1>1. IInv /\ [Next]_vars => IInv'
  BY TypeStep, SafeStep DEF IInv
<1> QED
  BY IInvInit, <1>1, PTL DEF Spec

(* No interleaving of connections gives an endpoint two keys.              *)
THEOREM OneKey == Spec => []OneKeyPerEndpoint
<1>1. IInv => OneKeyPerEndpoint
  BY DEF IInv
<1> QED
  BY KeyInvariant, <1>1, PTL

(* Credentials only go to the key the file held when it was accepted.      *)
THEOREM CredentialsArePinned == Spec => []CredentialsToPinnedKey
<1>1. IInv => CredentialsToPinnedKey
  BY DEF IInv, Vouched, CredentialsToPinnedKey
<1> QED
  BY KeyInvariant, <1>1, PTL

(* A refused password or key is not offered again by itself.               *)
THEOREM SecretRefusedOnce == Spec => []RefusedOnce
<1>1. IInv => RefusedOnce
  BY DEF IInv, Refused, RefusedOnce
<1> QED
  BY KeyInvariant, <1>1, PTL

(* A pin is never replaced, only taken out by a person.                    *)
THEOREM PinsAreKept == Spec => PinIsKept
<1> DEFINE Kept == \A e \in Endpoints : pins[e] # {} => pins'[e] \in {pins[e], {}}
<1>1. IInv /\ [Next]_vars => [Kept]_vars
  <2> SUFFICES ASSUME IInv, Next PROVE Kept
    BY DEF vars
  <2>0. TypeOK /\ NewOnly
    BY DEF IInv
  <2>1. ASSUME NEW c \in Conns, learn(c) PROVE Kept
    BY <2>0, <2>1 DEF learn, NewOnly, TypeOK
  <2>2. ASSUME NEW c \in Conns, Connection(c), ~learn(c) PROVE Kept
    BY <2>2 DEF Connection, start, retry, Dial, connect_timeout, connect_failed, check_nothing,
       lock_pins, check_unreadable, check_known_hosts, check_new, handshake_done, authenticated,
       authentication_refused, identity_refused, no_identity, shell_started, session_lost
  <2>3. CASE Environment
    BY <2>0, <2>3 DEF Environment, server_replaced, permissions_change, pins_forgotten,
       late_learn, late_gone, TypeOK, world
  <2> QED
    BY <2>1, <2>2, <2>3 DEF Next
<1> QED
  BY KeyInvariant, <1>1, PTL DEF Spec, PinIsKept
=============================================================================
