-------------------------------- MODULE MCHub --------------------------------
(* Model values and bounds for Hub.                                        *)
EXTENDS Hub, TLC

CONSTANTS c1, c2, clipboard, network, bogus

MCConns   == {c1, c2}
MCTopics  == {clipboard, network}

\* A repeated name, a name that is no topic before one that is, two topics of which
\* one is always on.  Their tails are handled on the way.
MCRequests ==
  {<<network, network>>, <<bogus, network>>, <<clipboard, network>>}

\* The specification never tells one connection from another.
MCSymmetry == Permutations(MCConns)
=============================================================================
