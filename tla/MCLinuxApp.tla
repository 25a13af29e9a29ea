---------------------------- MODULE MCLinuxApp ----------------------------
(* Instances of LinuxApp for TLC. *)
EXTENDS LinuxApp

CONSTANTS a1, a2, k1, k2

Typed(addr, auth) == [addr |-> addr, auth |-> auth]

\* A server with a password and one without, so that a prompt opens for one of them only.
TwoEntries == {Typed(a1, "password"), Typed(a2, "agent")}

\* The second server is never reached.
FirstAnswers == [a \in Addrs |-> IF a = a1 THEN {k1} ELSE {}]

\* One device lists an identity twice and trusts another key for it than a poller here may;
\* the other has both servers, and its own settings for the second.
TwoIncoming ==
  {[hosts |-> <<Typed(a1, "password"), Typed(a1, "agent")>>,
    pins |-> [a \in Addrs |-> IF a = a1 THEN k2 ELSE NoKey]],
   [hosts |-> <<Typed(a1, "password"), Typed(a2, "password")>>, pins |-> NoPins]}
===========================================================================
