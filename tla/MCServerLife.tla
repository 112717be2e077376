---------------------------- MODULE MCServerLife ----------------------------
(* The servers that ServerLife is checked for.                             *)
EXTENDS ServerLife

\* Every combination but two, both with the loop in the thread of start: with
\* free_on_stop (bad_stop_frees), and with a failing accept, where start may
\* release the channel that a stop in another thread is about to write to.
SafeSettings ==
  {s \in Setting : s.threaded \/ (~s.free_on_stop /\ "accept" \notin s.trouble)}

\* The default options of ad_server_start.
DefaultSettings ==
  {s \in Setting : ~s.threaded /\ s.free_on_stop /\ s.trouble = {}}
=============================================================================
