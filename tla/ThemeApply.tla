----------------------------- MODULE ThemeApply -----------------------------
(***************************************************************************)
(* Changing the theme and the wallpaper: the theme module's calls          *)
(* (modules/theme.rs), the transaction behind them (theme/mod.rs), the     *)
(* generators it runs (theme/generators) and the staged files it commits   *)
(* (theme/render.rs).                                                      *)
(*                                                                         *)
(* An apply runs on a thread of its own, so its steps interleave with the  *)
(* daemon's; the mutation lock keeps other changes out.  The generators    *)
(* stand here as two: "gtk", one whose failure refuses the theme, and the  *)
(* greeter's, which may fail or be left out as the other optional ones     *)
(* may, and also keeps a copy of the wallpaper.                            *)
(***************************************************************************)
EXTENDS Naturals, Sequences, FiniteSets

CONSTANTS Calls,   \* calls that may be under way
          Themes,  \* the themes to choose from
          Dynamic, \* the one that is made from the wallpaper
          First,   \* the theme the installation has applied
          Walls,   \* the wallpapers
          None     \* nothing recorded, nobody

ThemesAssumption == Dynamic \in Themes /\ First \in Themes \ {Dynamic}
NoneAssumption == None \notin Themes \cup Walls \cup Calls

VARIABLES record,   \* the files current-theme and current-wallpaper
          conf,     \* the wallpaper the dynamic theme's file was made from
          out,      \* what each generator's output was painted with
          portrait, \* the greeter's copy of the wallpaper
          temp,     \* state files written beside their place
          turn,     \* the call that holds the mutation lock
          job,      \* each call, and how far it is
          todo,     \* the generators the apply has before it
          failed,   \* those that have failed
          feed,     \* the state last pushed
          behind    \* what failures and deaths have left behind the record

files == <<record, conf, out, portrait>>
vars == <<files, temp, turn, job, todo, failed, feed, behind>>

Generators == <<"gtk", "greeter">>

Outputs == {"gtk", "greeter"}

required_failures == failed \cap {"gtk"}

Everything == Outputs \cup {"portrait", "feed"}

NoJob == [op |-> "none", theme |-> None, wall |-> None, step |-> "idle"]

Waiting == [NoJob EXCEPT !.step = "wait"]

\* What an apply was asked; it matters from when it has the lock.
Applies == [op: {"apply"}, theme: Themes, wall: Walls \cup {None}, step: {"generate"}]

\* A palette is known by its theme, and the dynamic one by its wallpaper too.
Palette(theme, c) == <<theme, IF theme = Dynamic THEN c ELSE None>>

snapshot(r, c) == [theme |-> r.theme, wall |-> r.wall,
                   palette |-> Palette(r.theme, c)]

Init ==
  /\ record = [theme |-> First, wall |-> None]
  /\ conf = None
  /\ out = [g \in Outputs |-> Palette(First, None)]
  /\ portrait = None
  /\ temp = {}
  /\ turn = None
  /\ job = [c \in Calls |-> NoJob]
  /\ todo = <<>> /\ failed = {}
  /\ feed = None
  /\ behind = {}

\* The module's loop has one thing to do: to say how things stand.
Run ==
  /\ feed = None
  /\ feed' = snapshot(record, conf)
  /\ UNCHANGED <<files, temp, turn, job, todo, failed, behind>>

Call(c) ==
  /\ job[c] = NoJob
  /\ job' = [job EXCEPT ![c] = Waiting]
  /\ UNCHANGED <<files, temp, turn, todo, failed, feed, behind>>

Step(c, step) == job' = [job EXCEPT ![c].step = step]

Acquire(c) == turn = None /\ job[c].step = "wait"

\* The call is answered, the lock is free, whatever was only staged is dropped.
End(c) ==
  /\ turn' = None
  /\ job' = [job EXCEPT ![c] = NoJob]
  /\ temp' = {} /\ todo' = <<>> /\ failed' = {}

\* The theme, the wallpaper or its colours cannot be read.
Refuse(c) ==
  /\ Acquire(c)
  /\ End(c)
  /\ UNCHANGED <<files, feed, behind>>

Source(r) == IF r.wall = None THEN record.wall ELSE r.wall

\* The dynamic theme is made from its wallpaper.
generate(r) == conf' = IF r.theme = Dynamic THEN Source(r) ELSE conf

\* The greeter's copy of the wallpaper; that it could not be made is only logged.
sync_background(wall, copied) == portrait' = IF copied THEN wall ELSE portrait

Copies(wall) == IF wall = None THEN {FALSE} ELSE BOOLEAN

Without(done, what) == IF done THEN {} ELSE {what}

\* Mutant: nobody waits for the change that is under way.
PrepareUnlocked(c) ==
  /\ job[c].step = "wait"
  /\ \E r \in Applies :
       /\ r.theme = Dynamic => Source(r) # None
       /\ generate(r)
       /\ job' = [job EXCEPT ![c] = r]
  /\ turn' = c
  /\ todo' = Generators /\ failed' = {}
  /\ UNCHANGED <<record, out, portrait, temp, feed, behind>>

\* What the theme is made from comes before anything that is painted with it.
Prepare(c) ==
  /\ Acquire(c)
  /\ \E r \in Applies :
       /\ r.theme = Dynamic => Source(r) # None
       /\ generate(r)
       /\ job' = [job EXCEPT ![c] = r]
  /\ turn' = c
  /\ todo' = Generators /\ failed' = {}
  /\ UNCHANGED <<record, out, portrait, temp, feed, behind>>

\* The palette the apply has read, or made.
Applied(c) == Palette(job[c].theme, Source(job[c]))

\* One generator runs; its failure does not stop the others.  The greeter's makes its
\* copy of the wallpaper first.
Generate(c) ==
  /\ job[c].step = "generate" /\ todo # <<>>
  /\ LET g == Head(todo)
         wall == IF g = "greeter" THEN Source(job[c]) ELSE None
     IN \E painted \in BOOLEAN, copied \in Copies(wall) :
          /\ out' = IF painted THEN [out EXCEPT ![g] = Applied(c)] ELSE out
          /\ sync_background(wall, copied)
          /\ failed' = failed \cup Without(painted, g)
                              \cup Without(copied \/ wall = None, "portrait")
  /\ todo' = Tail(todo)
  /\ UNCHANGED <<record, conf, temp, turn, job, feed, behind>>

\* An apply that fails once it has begun has painted something already.
Fails(c) ==
  /\ End(c)
  /\ behind' = Everything
  /\ UNCHANGED <<conf, out, portrait, feed>>

\* Mutant: a generator that failed is no reason to refuse the theme.
commit_state_anyway(c) ==
  /\ job[c].step = "generate" /\ todo = <<>>
  /\ \/ Fails(c) /\ UNCHANGED record
     \/ /\ temp' = {"theme"} \cup (IF job[c].wall = None THEN {} ELSE {"wall"})
        /\ Step(c, "theme")
        /\ UNCHANGED <<files, turn, todo, failed, feed, behind>>

\* A failed generator that is required refuses the theme; else the files are staged.
commit_state(c) ==
  /\ job[c].step = "generate" /\ todo = <<>>
  /\ \/ Fails(c) /\ UNCHANGED record
     \/ /\ required_failures = {}
        /\ temp' = {"theme"} \cup (IF job[c].wall = None THEN {} ELSE {"wall"})
        /\ Step(c, "theme")
        /\ UNCHANGED <<files, turn, todo, failed, feed, behind>>

CommitTheme(c) ==
  /\ job[c].step = "theme"
  /\ \/ Fails(c) /\ UNCHANGED record
     \/ /\ record' = [record EXCEPT !.theme = job[c].theme]
        /\ temp' = temp \ {"theme"}
        /\ Step(c, IF "wall" \in temp THEN "wall" ELSE "answer")
        /\ UNCHANGED <<conf, out, portrait, turn, todo, failed, feed, behind>>

CommitWall(c) ==
  /\ job[c].step = "wall"
  /\ \/ Fails(c) /\ UNCHANGED record
     \/ /\ record' = [record EXCEPT !.wall = job[c].wall]
        /\ temp' = temp \ {"wall"}
        /\ Step(c, "answer")
        /\ UNCHANGED <<conf, out, portrait, turn, todo, failed, feed, behind>>

\* Mutant: the lock is given back where a generator has failed, with no answer.
AnswerOnlyWhole(c) ==
  /\ job[c].step = "answer" /\ failed = {}
  /\ End(c)
  /\ feed' = snapshot(record, conf)
  /\ behind' = failed
  /\ UNCHANGED files

Answer(c) ==
  /\ job[c].step = "answer"
  /\ End(c)
  /\ feed' = snapshot(record, conf)
  /\ behind' = failed
  /\ UNCHANGED files

\* Only the wallpaper changes: the file is rewritten in place, so that a failed
\* write may lose it; the greeter's copy follows if it can.
SetWallpaper(c) ==
  /\ Acquire(c)
  /\ End(c)
  /\ \/ /\ \E w \in {record.wall, None} : record' = [record EXCEPT !.wall = w]
        /\ behind' = behind \cup {"feed"}
        /\ UNCHANGED <<conf, out, portrait, feed>>
     \/ /\ \E w \in Walls : record' = [record EXCEPT !.wall = w]
        /\ feed' = snapshot(record', conf)
        /\ \E painted, copied \in BOOLEAN :
             /\ out' = IF painted THEN [out EXCEPT !["greeter"] = Palette(record.theme, conf)]
                       ELSE out
             /\ sync_background(record'.wall, copied)
             /\ behind' = (behind \cap {"gtk"}) \cup Without(painted, "greeter")
                                              \cup Without(copied, "portrait")
        /\ UNCHANGED conf

\* The daemon dies, in the middle of an apply perhaps, and comes back.
Restart ==
  /\ behind' = IF turn = None THEN behind ELSE Everything
  /\ temp' = {} /\ turn' = None /\ todo' = <<>> /\ failed' = {}
  /\ job' = [c \in Calls |-> NoJob]
  /\ feed' = None
  /\ UNCHANGED files

Work(c) ==
  \/ Refuse(c) \/ Prepare(c) \/ Generate(c) \/ commit_state(c) \/ CommitTheme(c)
  \/ CommitWall(c) \/ Answer(c) \/ SetWallpaper(c)

Next == Run \/ Restart \/ \E c \in Calls : Call(c) \/ Work(c)

\* The lock is given to those who wait for it in turn.
Fairness == \A c \in Calls : SF_vars(Work(c))

Spec == Init /\ [][Next]_vars /\ Fairness

-----------------------------------------------------------------------------
(* Properties.                                                              *)

TypeOK ==
  /\ record \in [theme: Themes, wall: Walls \cup {None}]
  /\ conf \in Walls \cup {None}
  /\ out \in [Outputs -> Themes \X (Walls \cup {None})]
  /\ portrait \in Walls \cup {None}
  /\ temp \subseteq {"theme", "wall"}
  /\ turn \in Calls \cup {None}
  /\ todo \in Seq(Outputs) /\ failed \subseteq Everything
  /\ behind \subseteq Everything
  /\ feed = None \/ feed \in [theme: Themes, wall: Walls \cup {None},
                              palette: Themes \X (Walls \cup {None})]

\* Two changes at once could mix: files painted with the palette of one beside the
\* slug of the other.  Whenever no change is under way, every output no failure
\* left behind has the colours of the theme in force, the greeter has the
\* wallpaper that is recorded, the subscribers know both, and no staged file lies
\* about.
ChangesDoNotMix ==
  /\ TypeOK
  /\ turn = None =>
       /\ temp = {}
       /\ \A g \in Outputs \ behind : out[g] = Palette(record.theme, conf)
       /\ "portrait" \notin behind /\ record.wall # None => portrait = record.wall
       /\ "feed" \notin behind /\ feed # None => feed = snapshot(record, conf)

\* However applies fail and whenever the daemon dies: a theme is only recorded when
\* what must be painted has its colours, so that no start comes up with a theme
\* that was never applied.
RecordsApplied ==
  record'.theme # record.theme => out["gtk"] = Palette(record'.theme, conf)

RecordedWasApplied == [][RecordsApplied]_vars

\* Why they do not mix: only the call that holds the lock is at work, and whatever it has
\* painted, and no failure spoilt, has the colours it will record.
Working == [op: {"apply"}, theme: Themes, wall: Walls \cup {None},
            step: {"generate", "theme", "wall", "answer"}]

Waiters ==
  /\ job \in [Calls -> {NoJob, Waiting} \cup Working]
  /\ \A c \in Calls : c # turn => job[c] \in {NoJob, Waiting}

Painted(g) == g \in failed \/ out[g] = Palette(job[turn].theme, conf)

Copied == "portrait" \in failed \/ Source(job[turn]) \in {None, portrait}

AtWork ==
  LET r == job[turn] IN
    /\ r \in Working
    /\ r.theme = Dynamic => conf = Source(r)
    /\ todo \in {Generators, <<"greeter">>, <<>>} /\ failed \subseteq Outputs \cup {"portrait"}
    /\ todo # Generators => Painted("gtk")
    /\ todo = <<>> => Painted("greeter") /\ Copied
    /\ r.step # "generate" => todo = <<>> /\ required_failures = {}
    /\ r.step = "theme" => temp = {"theme"} \cup (IF r.wall = None THEN {} ELSE {"wall"})
    /\ r.step = "wall" => temp = {"wall"} /\ r.wall # None
    /\ r.step \in {"wall", "answer"} => record.theme = r.theme
    /\ r.step = "answer" => temp = {} /\ r.wall \in {None, record.wall}

IInv == ChangesDoNotMix /\ Waiters /\ (turn # None => AtWork)

\* Every failure gives the lock back: no call waits for ever.
Ended(c) == job[c] = NoJob

EveryCallEnds == \A c \in Calls : []<>Ended(c)
=============================================================================
