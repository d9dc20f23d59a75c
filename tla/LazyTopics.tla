----------------------------- MODULE LazyTopics -----------------------------
(***************************************************************************)
(* What the hub promises about streaming loops (backend/src/ipc/hub.rs,    *)
(* header and `acquire` / `release`): the loop of a topic is on exactly    *)
(* while somebody is interested in the topic, the first holder switches it *)
(* on and the last one to leave switches it off.  Nothing is said about    *)
(* how interest is counted, nor about how a holder comes and goes.         *)
(***************************************************************************)
CONSTANTS Users,   \* everybody who can hold a topic
          Topics   \* the topics of the registry

VARIABLES holders, \* holders[t]: the users interested in topic t
          on       \* on[t]: a streaming loop is owned by topic t

vars == <<holders, on>>

Init == /\ holders \in [Topics -> SUBSET Users]
        /\ on = [t \in Topics |-> holders[t] # {}]

Join(u, t) == /\ u \notin holders[t]
              /\ holders' = [holders EXCEPT ![t] = @ \cup {u}]
              /\ on' = [on EXCEPT ![t] = TRUE]

Leave(u, t) == /\ u \in holders[t]
               /\ holders' = [holders EXCEPT ![t] = @ \ {u}]
               /\ on' = [on EXCEPT ![t] = holders[t] # {u}]

Next == \E u \in Users, t \in Topics : Join(u, t) \/ Leave(u, t)

Spec == Init /\ [][Next]_vars
=============================================================================
