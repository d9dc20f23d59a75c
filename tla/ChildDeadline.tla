---------------------------- MODULE ChildDeadline ----------------------------
(***************************************************************************)
(* A command run with a deadline (proc.rs): every hyprctl, nmcli, udisks   *)
(* and VPN command goes through it, most of them under a module's lock.    *)
(*                                                                         *)
(* A thread of its own drains the child's output and reaps it; the caller  *)
(* waits for that thread's message no longer than the deadline, then kills *)
(* the child's process group.  The child may start another process, which  *)
(* inherits the pipe, may close it, and may leave the group.               *)
(***************************************************************************)
EXTENDS Naturals

CONSTANTS PipeSize,  \* what the pipe holds
          MaxOutput  \* bound: what child and grandchild write together

SizesAssumption == PipeSize \in Nat \ {0} /\ MaxOutput \in Nat

VARIABLES caller,  \* where the call is
          result,  \* what it has returned
          child,   \* the child process, which leads its group
          grand,   \* the process the child has started
          holding, \* the grandchild has the pipe open
          written, \* output written so far
          read,    \* and taken out of the pipe
          waiter,  \* the thread
          message, \* the channel from the thread
          killed   \* whom the kill has reached

processes == <<child, grand, holding, written>>
thread == <<read, waiter, message>>
vars == <<caller, result, processes, thread, killed>>

Init ==
  /\ caller = "idle" /\ result = "none"
  /\ child = "none" /\ grand = "none" /\ holding = FALSE
  /\ written = 0 /\ read = 0
  /\ waiter = "none" /\ message = "none"
  /\ killed = "nobody"

Return(r) == caller' = "done" /\ result' = r

\* A program that is not there is an error at once.
spawn ==
  /\ caller = "idle"
  /\ \/ Return("failed") /\ UNCHANGED child
     \/ caller' \in {"input", "wait"} /\ child' = "running" /\ UNCHANGED result
  /\ UNCHANGED <<grand, holding, written, thread, killed>>

\* run_with_input: what is written fits into the pipe (a password); a child that has
\* closed its input is killed and reaped, alone.
run_with_input ==
  /\ caller = "input"
  /\ \/ caller' = "wait" /\ UNCHANGED <<result, child>>
     \/ Return("failed") /\ child' = "reaped"
  /\ UNCHANGED <<grand, holding, written, thread, killed>>

\* The waiting thread starts.
wait_for_output ==
  /\ caller = "wait" /\ waiter = "none"
  /\ waiter' = "drain"
  /\ UNCHANGED <<caller, result, processes, read, message, killed>>

-----------------------------------------------------------------------------
(* The processes.  Nothing makes them go on.                                *)

Alive(p) == p \in {"running", "left"}

Write ==
  /\ \/ child = "running"
     \/ Alive(grand) /\ holding
  /\ written < MaxOutput /\ written - read < PipeSize
  /\ written' = written + 1
  /\ UNCHANGED <<caller, result, child, grand, holding, thread, killed>>

Fork ==
  /\ child = "running" /\ grand = "none"
  /\ grand' = "running" /\ holding' = TRUE
  /\ UNCHANGED <<caller, result, child, written, thread, killed>>

ChildExits ==
  /\ child = "running"
  /\ child' = "exited"
  /\ UNCHANGED <<caller, result, grand, holding, written, thread, killed>>

\* The grandchild ends, makes a session of its own, or lets go of the pipe.
GrandchildActs ==
  /\ Alive(grand)
  /\ \/ grand' = "gone" /\ holding' = FALSE
     \/ grand' = "left" /\ UNCHANGED holding
     \/ holding' = FALSE /\ UNCHANGED grand
  /\ UNCHANGED <<caller, result, child, written, thread, killed>>

-----------------------------------------------------------------------------
(* The thread: wait_with_output reads to the end of the pipe, then reaps.   *)

Drain ==
  /\ waiter = "drain" /\ read < written
  /\ read' = written
  /\ UNCHANGED <<caller, result, processes, waiter, message, killed>>

Closed == child # "running" /\ ~holding

\* Mutant: the thread waits for the child, not for the end of its output.
ReapUnread ==
  /\ waiter = "drain" /\ child = "exited"
  /\ child' = "reaped"
  /\ waiter' = "send"
  /\ UNCHANGED <<caller, result, grand, holding, written, read, message, killed>>

Reap ==
  /\ waiter = "drain" /\ read = written /\ Closed
  /\ child' = "reaped"
  /\ waiter' = "send"
  /\ UNCHANGED <<caller, result, grand, holding, written, read, message, killed>>

\* Sent or not: the caller may have gone.
SendOutput ==
  /\ waiter = "send"
  /\ waiter' = "end"
  /\ message' = "output"
  /\ UNCHANGED <<caller, result, processes, read, killed>>

-----------------------------------------------------------------------------
(* The caller.                                                              *)

Receive ==
  /\ caller = "wait" /\ message = "output"
  /\ Return("output")
  /\ UNCHANGED <<processes, thread, killed>>

Deadline ==
  /\ caller = "wait" /\ waiter # "none" /\ message = "none"
  /\ caller' = "kill"
  /\ UNCHANGED <<result, processes, thread, killed>>

\* Mutant: only the child itself is killed.
KillChild ==
  /\ caller = "kill"
  /\ child' = IF child = "running" THEN "exited" ELSE child
  /\ killed' = "group"
  /\ Return("late")
  /\ UNCHANGED <<grand, holding, written, thread>>

\* kill(-pid): the group, if the child is not reaped or another is still in it; a
\* number nobody has any more reaches nobody, or whoever has been given it since.
Kill ==
  /\ caller = "kill"
  /\ IF child # "reaped" \/ grand = "running"
     THEN /\ child' = IF child = "running" THEN "exited" ELSE child
          /\ IF grand = "running" THEN grand' = "gone" /\ holding' = FALSE
             ELSE UNCHANGED <<grand, holding>>
          /\ killed' = "group"
     ELSE killed' \in {"nobody", "others"} /\ UNCHANGED <<child, grand, holding>>
  /\ Return("late")
  /\ UNCHANGED <<written, thread>>

Proc == wait_for_output \/ Drain \/ Reap \/ SendOutput \/ Receive \/ Kill

Next ==
  \/ spawn \/ run_with_input \/ Proc \/ Deadline
  \/ Write \/ Fork \/ ChildExits \/ GrandchildActs

\* The threads run, the clock runs, and the input is written.
Fairness == WF_vars(Proc) /\ WF_vars(Deadline) /\ WF_vars(spawn \/ run_with_input)

Spec == Init /\ [][Next]_vars /\ Fairness

-----------------------------------------------------------------------------
(* Properties.                                                              *)

TypeOK ==
  /\ caller \in {"idle", "input", "wait", "kill", "done"}
  /\ result \in {"none", "failed", "output", "late"}
  /\ child \in {"none", "running", "exited", "reaped"}
  /\ grand \in {"none", "running", "left", "gone"} /\ holding \in BOOLEAN
  /\ written \in 0..MaxOutput /\ read \in 0..written
  /\ waiter \in {"none", "drain", "send", "end"}
  /\ message \in {"none", "output"}
  /\ killed \in {"nobody", "group", "others"}

\* An answer is the whole answer: what a command returns with holds all that was
\* written, by its own children too, and the child has been reaped.
OutputIsWhole ==
  /\ TypeOK
  /\ result = "output" => child = "reaped" /\ read = written /\ ~holding

\* Why it is whole: the thread goes on to its message when nobody can write any more,
\* and the caller's answer is that message.
IInv ==
  /\ TypeOK
  /\ waiter \in {"send", "end"} => child = "reaped" /\ read = written /\ ~holding
  /\ caller \in {"idle", "input"} => waiter = "none"
  /\ message = "output" => waiter = "end"
  /\ result = "output" => message = "output"

\* A command that hangs, fills the pipe or leaves a child of its own behind it holds up
\* nobody for good: the call returns, and the thread ends too (proc.rs:13-16), unless
\* the grandchild has left the group and keeps the pipe.
Over == caller = "done" /\ (waiter \in {"none", "end"} \/ grand = "left")

EveryRunEnds == <>[]Over

\* "The pid is still ours: the waiting thread holds the Child, so it has not been
\* reaped" (proc.rs:105-109): the thread may reap it between the deadline and the
\* signal, and the number may be another's by then.
KillsItsOwn == killed # "others"
=============================================================================
