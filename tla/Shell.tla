-------------------------------- MODULE Shell --------------------------------
(* The shell's two parts with a state of their own: the lock, with what of the   *)
(* daemon and of logind it depends on, and the notification centre.  They share  *)
(* nothing: a behaviour is of one of them, which is chosen at the start.         *)
EXTENDS SleepLock

CONSTANTS Apps, Resident, historyLimit, MaxNotices, MaxRestarts  \* centre

VARIABLES component, controller, stored, notices, restarts

Centre == INSTANCE Notifications WITH c <- controller

centre == <<controller, stored, notices, restarts>>

ASSUME ShellAssumption ==
  Centre!AppsAssumption /\ Centre!LimitAssumption /\ Centre!NoticesAssumption

ShellInit == Init /\ Centre!Init /\ component \in {"lock", "centre"}

One(c) == component = c /\ UNCHANGED component

ShellNext ==
  \/ One("lock")   /\ Next        /\ UNCHANGED centre
  \/ One("centre") /\ Centre!Next /\ UNCHANGED vars

ShellSpec == ShellInit /\ [][ShellNext]_<<component, vars, centre>>

\* See NotificationsInv in Notifications.
CentreInv == component = "centre" => Centre!NotificationsInv
==============================================================================
