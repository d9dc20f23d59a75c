----------------------------- MODULE MCStateFeed -----------------------------
(* Model values and bounds for StateFeed.                                  *)
EXTENDS StateFeed

CONSTANTS theme, network

MCTopics == {theme, network}
=============================================================================
