----------------------------- MODULE MCServices -----------------------------
(* Values for Services that a configuration cannot write: the lists of topics  *)
(* that the two connections may send.                                          *)
EXTENDS Services, TLC

CONSTANTS network, bogus

\* A topic, a topic twice, and a bad name before a good one.
SmallRequests == {<<network>>, <<network, network>>, <<bogus, network>>}
=============================================================================
