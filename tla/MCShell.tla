------------------------------- MODULE MCShell -------------------------------
(* Two sleeps, one lock request and one fault for the lock; two senders, one of  *)
(* them resident, and a history of two entries for the centre.                   *)
EXTENDS Shell
==============================================================================
