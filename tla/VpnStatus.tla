------------------------------ MODULE VpnStatus ------------------------------
(***************************************************************************)
(* The VPN module (modules/vpn.rs).  Two sources write one cache: the      *)
(* loop, which follows NetworkManager and knows that there is a tunnel and *)
(* its name, and the calls, which run a slow command line program and know *)
(* the rest.  What each has read may be old when it is written.            *)
(***************************************************************************)
EXTENDS Naturals

CONSTANTS Servers,    \* servers a tunnel may lead to
          Slots,      \* commands that may run at the same time
          MaxChanges, \* bound: how often the tunnel changes by itself
          MaxCalls,   \* bound: calls of the command
          None        \* no tunnel

NoneAssumption == None \notin Servers
BoundsAssumption == MaxChanges \in Nat /\ MaxCalls \in Nat

VARIABLES tunnel,  \* the tunnel NetworkManager has
          cache,   \* the module's state, with the details' key and age
          step,    \* where the loop is
          found,   \* the tunnel it has read
          signal,  \* NetworkManager has signalled a change not taken yet
          job,     \* the commands under way and what they have answered
          first,   \* the loop has pushed nothing yet
          shown,   \* the state last pushed
          plan,    \* the account may choose a location
          late,    \* the loop's last reading failed, or a connect or disconnect has
                   \* answered since it began (history)
          changes, calls

bounds == <<changes, calls>>
vars == <<tunnel, cache, step, found, signal, job, first, shown, plan, late, bounds>>

Tunnels == Servers \cup {None}

\* raw is raw_name, and name follows from it; active is kept beside it.  Of the
\* details only the server is kept, None being what is cleared.
State == [raw: Tunnels, active: BOOLEAN, connected: BOOLEAN, server: Tunnels,
          selection: BOOLEAN, countries: BOOLEAN]

Cache == [state: State, key: Tunnels, fresh: BOOLEAN, config: BOOLEAN]

Blank == [raw |-> None, active |-> FALSE, connected |-> FALSE, server |-> None,
          selection |-> FALSE, countries |-> FALSE]

Commands == {"status", "config", "countries", "connect", "disconnect"}

Job == [command: Commands \cup {"none"}, outcome: {"none", "done", "failed"}, tunnel: Tunnels]

NoJob == [command |-> "none", outcome |-> "none", tunnel |-> None]

Init ==
  /\ tunnel \in Tunnels
  /\ cache = [state |-> Blank, key |-> None, fresh |-> FALSE, config |-> FALSE]
  /\ step = "read" /\ found = None
  /\ signal = FALSE
  /\ job = [i \in Slots |-> NoJob]
  /\ first = TRUE /\ shown = Blank
  /\ plan \in BOOLEAN
  /\ late = FALSE
  /\ changes = 0 /\ calls = 0

\* The tunnel changes behind the daemon's back: the other application, the network.
Change ==
  /\ changes < MaxChanges /\ changes' = changes + 1
  /\ tunnel' \in Tunnels \ {tunnel}
  /\ signal' = TRUE
  /\ UNCHANGED <<cache, step, found, job, first, shown, plan, late, calls>>

-----------------------------------------------------------------------------
(* The loop.                                                                *)

\* What NetworkManager does not answer for is left out.
active_links == \/ found' = tunnel /\ late' = FALSE
                \/ found' = None /\ late' = (tunnel # None)

Read ==
  /\ step = "read"
  /\ active_links
  /\ step' = "write"
  /\ UNCHANGED <<tunnel, cache, signal, job, first, shown, plan, bounds>>

\* Another tunnel: the details that are of an earlier one are cleared.
Followed(c, raw) ==
  LET stale == raw # c.key IN
    [c EXCEPT !.state.raw = raw, !.state.active = raw # None,
              !.state.server = IF stale THEN raw ELSE @,
              !.fresh = IF stale THEN FALSE ELSE @,
              !.state.connected = IF raw = None THEN FALSE ELSE @]

\* The first state is pushed whatever it is.
Write ==
  /\ step = "write"
  /\ cache' = IF cache.state.raw = found THEN cache ELSE Followed(cache, found)
  /\ shown' = IF cache.state.raw # found \/ first THEN cache'.state ELSE shown
  /\ first' = FALSE
  /\ step' = "wait"
  /\ UNCHANGED <<tunnel, found, signal, job, plan, late, bounds>>

Wake ==
  /\ step = "wait" /\ signal
  /\ signal' = FALSE
  /\ step' = "read"
  /\ UNCHANGED <<tunnel, cache, found, job, first, shown, plan, late, bounds>>

-----------------------------------------------------------------------------
(* The calls.  Each holds the cache only before and after the command.      *)

Begin(i, command) ==
  /\ job[i] = NoJob /\ calls < MaxCalls /\ calls' = calls + 1
  /\ job' = [job EXCEPT ![i].command = command]
  /\ UNCHANGED <<tunnel, cache, step, found, signal, first, shown, plan, late, changes>>

\* What the cache has is answered from it, unless the caller insists.
details(i) == \E force \in BOOLEAN :
  (force \/ ~cache.fresh \/ cache.key # cache.state.raw) /\ Begin(i, "status")

config(i) == \E force \in BOOLEAN : (force \/ ~cache.config) /\ Begin(i, "config")

\* A free account is not asked.
countries(i) == cache.state.selection /\ ~cache.state.countries /\ Begin(i, "countries")

connect(i) == Begin(i, "connect")

disconnect(i) == Begin(i, "disconnect")

\* What the command does and finds; the daemon has its answer a while later, or an
\* error, or none within the deadline.
run_cli_result(i) ==
  /\ job[i].command # "none" /\ job[i].outcome = "none"
  /\ \/ job' = [job EXCEPT ![i].outcome = "failed"] /\ UNCHANGED <<tunnel, signal>>
     \/ /\ tunnel' \in CASE job[i].command = "connect"    -> Servers
                         [] job[i].command = "disconnect" -> {None}
                         [] OTHER                         -> {tunnel}
        /\ job' = [job EXCEPT ![i].outcome = "done", ![i].tunnel = tunnel']
        /\ signal' = (signal \/ tunnel' # tunnel)
  /\ UNCHANGED <<cache, step, found, first, shown, plan, late, bounds>>

\* The cache is locked again, written and pushed.
Answer(i, new) ==
  /\ cache' = new
  /\ shown' = new.state
  /\ job' = [job EXCEPT ![i] = NoJob]
  /\ UNCHANGED <<tunnel, step, found, signal, first, plan, bounds>>

Done(i, command) == job[i].command = command /\ job[i].outcome = "done"

\* The details are filed under the name the cache has by now.
Details(i) ==
  /\ Done(i, "status")
  /\ LET at == job[i].tunnel IN
       Answer(i, [cache EXCEPT !.key = cache.state.raw, !.fresh = TRUE,
                               !.state.connected = at # None,
                               !.state.server = IF at # None THEN at
                                                ELSE IF cache.state.raw = None THEN None ELSE @])
  /\ UNCHANGED late

Config(i) ==
  /\ Done(i, "config")
  /\ \E known \in BOOLEAN :
       Answer(i, [cache EXCEPT !.config = known, !.state.selection = known /\ plan])
  /\ UNCHANGED late

Countries(i) ==
  /\ Done(i, "countries")
  /\ \E some \in BOOLEAN : Answer(i, [cache EXCEPT !.state.countries = some])
  /\ UNCHANGED late

Connected(i) ==
  /\ Done(i, "connect")
  /\ LET at == job[i].tunnel IN
       Answer(i, [cache EXCEPT !.key = at, !.fresh = TRUE, !.state.raw = at,
                               !.state.active = TRUE, !.state.connected = TRUE,
                               !.state.server = at])
  /\ late' = TRUE

\* Mutant: the tunnel that is gone stays active.
DisconnectedActive(i) ==
  /\ Done(i, "disconnect")
  /\ Answer(i, [cache EXCEPT !.key = None, !.fresh = FALSE,
                             !.state = [Blank EXCEPT !.active = cache.state.active,
                                                     !.selection = cache.state.selection,
                                                     !.countries = cache.state.countries]])
  /\ late' = TRUE

Disconnected(i) ==
  /\ Done(i, "disconnect")
  /\ Answer(i, [cache EXCEPT !.key = None, !.fresh = FALSE,
                             !.state = [Blank EXCEPT !.selection = cache.state.selection,
                                                     !.countries = cache.state.countries]])
  /\ late' = TRUE

\* An output that says neither where the tunnel leads nor that it is gone.
Unrecognised(i) ==
  /\ Done(i, "connect") \/ Done(i, "disconnect")
  /\ Answer(i, cache)
  /\ UNCHANGED late

\* connect and disconnect push what there is, the others only answer with the error.
Failed(i) ==
  /\ job[i].outcome = "failed"
  /\ job' = [job EXCEPT ![i] = NoJob]
  /\ shown' = IF job[i].command \in {"connect", "disconnect"} THEN cache.state ELSE shown
  /\ UNCHANGED <<tunnel, cache, step, found, signal, first, plan, late, bounds>>

Loop == Read \/ Write \/ Wake

CallSteps(i) ==
  \/ details(i) \/ config(i) \/ countries(i) \/ connect(i) \/ disconnect(i)
  \/ run_cli_result(i) \/ Failed(i)
  \/ Details(i) \/ Config(i) \/ Countries(i) \/ Connected(i) \/ Disconnected(i)
  \/ Unrecognised(i)

Next == Change \/ Loop \/ \E i \in Slots : CallSteps(i)

Spec == Init /\ [][Next]_vars

-----------------------------------------------------------------------------
(* Properties.                                                              *)

TypeOK ==
  /\ tunnel \in Tunnels /\ found \in Tunnels
  /\ job \in [Slots -> Job]
  /\ cache \in Cache
  /\ shown \in State
  /\ step \in {"read", "write", "wait"}
  /\ signal \in BOOLEAN /\ first \in BOOLEAN /\ plan \in BOOLEAN /\ late \in BOOLEAN

\* "NetworkManager says that there is a tunnel, the program says the details": at rest,
\* with no signal left, the tunnel that is shown is NetworkManager's, whatever the
\* loop and the commands read while it came and went; the exceptions are a connect
\* or disconnect that answers after the loop's last reading, whose word then stands,
\* and a reading NetworkManager did not answer, which nothing repeats.
\* However the two write over each other, active goes with a name, and the
\* subscribers have what the cache has.
TunnelIsNetworkManagers ==
  /\ TypeOK
  /\ cache.state.active <=> cache.state.raw # None
  /\ ~first => shown = cache.state
  /\ step = "wait" /\ ~signal /\ ~late => cache.state.raw = tunnel

\* Why the tunnel is the right one: what the loop has read is right until a signal says
\* otherwise, and a command that connects knows where to.
IInv ==
  /\ TunnelIsNetworkManagers
  /\ step = "write" /\ ~signal /\ ~late => found = tunnel
  /\ \A i \in Slots : Done(i, "connect") => job[i].tunnel \in Servers
=============================================================================
