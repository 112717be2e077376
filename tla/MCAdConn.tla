------------------------------ MODULE MCAdConn ------------------------------
(* Constants for model checking AdConn. *)
EXTENDS AdConn

\* Hooks that answer anything to anything.
AnyReply == [e \in Events |-> Status]

OneHook   == <<NoMethod>>
GetSecond == <<NoMethod, "GET">>

\* Output when a connection begins and on reads, userdata on INIT.
SpeakBeforeClose == {EvNew, EvRead}
AttachNever      == {}
AttachOnInit     == {EvNew, EvRenew}
=============================================================================
