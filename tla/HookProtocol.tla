---------------------------- MODULE HookProtocol ----------------------------
(***************************************************************************)
(* What libasyncd promises the hook at the top of the chain about the      *)
(* events of one connection, without saying how: sessions that begin with  *)
(* INIT and end with CLOSE, reads and writes only inside a session, a new  *)
(* session only right after the last one was closed, and silence after     *)
(* the CLOSE that ends the connection.                                     *)
(*                                                                         *)
(* One step is one callback of the event loop; heard holds the events the  *)
(* hook heard during it, in order.                                         *)
(***************************************************************************)
EXTENDS Sequences

CONSTANT Conns

VARIABLES
  phase,   \* "none" before the connection, "open", "freed" after it
  heard    \* the events of the last callback, per connection

Opening == {"INIT", "WRITE"}
Traffic == {{"READ"}, {"WRITE"}}
Closing == {{"CLOSE"}, {"CLOSE", "TIMEOUT"}, {"CLOSE", "SHUTDOWN"}}

Init ==
  /\ phase = [c \in Conns |-> "none"]
  /\ heard = [c \in Conns |-> <<>>]

Tell(c, batch) == heard' = [x \in Conns |-> IF x = c THEN batch ELSE <<>>]

\* The events that may come before the end of a session in one callback.
Before == {<<>>} \cup {<<e>> : e \in Traffic}

Begin(c) ==
  /\ phase[c] = "none"
  /\ phase' = [phase EXCEPT ![c] = "open"]
  /\ Tell(c, <<Opening>>)

Serve(c) ==
  /\ phase[c] = "open"
  /\ UNCHANGED phase
  /\ \E b \in Before : Tell(c, b)

Renew(c) ==
  /\ phase[c] = "open"
  /\ UNCHANGED phase
  /\ \E b \in Before : Tell(c, b \o <<{"CLOSE"}, {"INIT"}>>)

End(c) ==
  /\ phase[c] = "open"
  /\ phase' = [phase EXCEPT ![c] = "freed"]
  /\ \E b \in Before, e \in Closing : Tell(c, b \o <<e>>)

Elsewhere ==
  /\ UNCHANGED phase
  /\ heard' = [c \in Conns |-> <<>>]

Next ==
  \/ \E c \in Conns : Begin(c) \/ Serve(c) \/ Renew(c) \/ End(c)
  \/ Elsewhere

Spec == Init /\ [][Next]_<<phase, heard>>
=============================================================================
