--------------------------- MODULE MCBackendClient ---------------------------
(* Model values for BackendClient: a volatile topic and one that is not.   *)
EXTENDS BackendClient

CONSTANTS theme, network

MCTopics == {theme, network}
=============================================================================
