---------------------------- MODULE DisplayLayout ----------------------------
(***************************************************************************)
(* What a display layout is made of (modules/hypr.rs): a request names     *)
(* some of the screens, is laid over the live state, checked as a whole,   *)
(* and what is confirmed is merged into the store, screen by screen.       *)
(* DisplayPreview has the transaction with its failures and its timer;     *)
(* here Hyprland is there, nothing fails, and layouts have sizes and       *)
(* places.                                                                 *)
(*                                                                         *)
(* A request gives a screen all its fields, as the settings application    *)
(* does (DisplayPage.qml, settingForMonitor).  The compositor is external: *)
(* it shows what it is told, and on a reload the user's own configuration  *)
(* overlaid with the stored screens.                                       *)
(***************************************************************************)
EXTENDS Integers, Sequences, Functions

CONSTANTS Monitors, \* the screens that are connected, in the compositor's order
          Settings, \* what a request may ask of each of them
          Base,     \* the layout of the user's own configuration
          None

\* A setting has its mode's width and height, its place, its scale in quarters, its
\* transform, and whether it is off.  The scale is between a quarter and eight, and no
\* mode is so small that it leaves nothing.
Setting ==
  {m \in [width: Nat, height: Nat, x: Int, y: Int, scale: 1..32, transform: 0..7,
          disabled: BOOLEAN] : 8 * m.width >= m.scale /\ 8 * m.height >= m.scale}

Names == Range(Monitors)

LayoutAssumption ==
  /\ Monitors \in Seq(Names)
  /\ Settings \in [Names -> SUBSET Setting]
  /\ \A o \in Names : Base[o] \in Settings[o] /\ None \notin Settings[o]

VARIABLES live,    \* the compositor's layout
          stored,  \* the stored settings
          preview, \* the layout to go back to and the request, while one is tried out
          mixed    \* a request was saved that had been checked against more than
                   \* what is saved: another one on trial (history)

vars == <<live, stored, preview, mixed>>

Overlay(request, layout) ==
  [o \in Names |-> IF o \in DOMAIN request THEN request[o] ELSE layout[o]]

\* What the next start of the compositor shows.
Reloaded(s) == [o \in Names |-> IF s[o] = None THEN Base[o] ELSE s[o]]

Init ==
  /\ live = Base
  /\ stored = [o \in Names |-> None]
  /\ preview = None
  /\ mixed = FALSE

-----------------------------------------------------------------------------
(* The gate.                                                                *)

\* Logical pixels: rounded, half away from zero.
Logical(length, scale) == (8 * length + scale) \div (2 * scale)

\* Mutant: any transform swaps the sides, half a turn too.
ResolvedSwapped(m) ==
  [x |-> m.x, y |-> m.y, disabled |-> m.disabled,
   width |-> Logical(IF m.transform = 0 THEN m.width ELSE m.height, m.scale),
   height |-> Logical(IF m.transform = 0 THEN m.height ELSE m.width, m.scale)]

\* One screen of resolve_layout; the odd transforms swap its sides.
Resolved(m) ==
  LET w == Logical(m.width, m.scale)
      h == Logical(m.height, m.scale)
      turned == m.transform % 2 = 1
  IN [x |-> m.x, y |-> m.y, disabled |-> m.disabled,
      width |-> IF turned THEN h ELSE w, height |-> IF turned THEN w ELSE h]

Lower(a, b) == IF a < b THEN a ELSE b
Upper(a, b) == IF a > b THEN a ELSE b

\* Some pair, the later after the earlier, shares more than a pixel both ways.
first_overlap(layout) ==
  \E i, j \in DOMAIN Monitors :
    LET a == Resolved(layout[Monitors[i]])
        b == Resolved(layout[Monitors[j]])
    IN /\ i < j
       /\ \A m \in {a, b} : ~m.disabled /\ m.width > 0 /\ m.height > 0
       /\ Lower(a.x + a.width, b.x + b.width) - Upper(a.x, b.x) > 1
       /\ Lower(a.y + a.height, b.y + b.height) - Upper(a.y, b.y) > 1

Layouts == {l \in [Names -> UNION Range(Settings)] : \A o \in Names : l[o] \in Settings[o]}

\* A request is judged by what it makes of the live layout: one screen stays on, and no
\* two overlap.
validate_layout(request, layout) ==
  LET l == Overlay(request, layout) IN
    (\E o \in Names : ~Resolved(l[o]).disabled) /\ ~first_overlap(l)

\* What the settings application asks for: one screen, or all that matter.
Requests ==
  UNION {{r \in [D -> UNION Range(Settings)] : \A o \in D : r[o] \in Settings[o]} :
           D \in SUBSET Names \ {{}}}

\* A layout to go back to and a request, that may be tried over another one.
Previews == [previous: Layouts, requested: Requests, chained: BOOLEAN]

PreviewAssumption == None \notin Previews

\* The store keeps one setting for each screen, the newest.
upsert_monitor(request) == Overlay(request, stored)

-----------------------------------------------------------------------------
(* The calls, each from the mutex to its end.                               *)

\* A pending preview is replaced, and what it would go back to is kept.
begin_preview(request) ==
  /\ validate_layout(request, live)
  /\ preview' = [previous |-> IF preview = None THEN live ELSE preview.previous,
                 requested |-> request,
                 chained |-> preview # None]
  /\ live' = Overlay(request, live)
  /\ UNCHANGED <<stored, mixed>>

confirm_preview ==
  /\ preview # None
  /\ stored' = upsert_monitor(preview.requested)
  /\ mixed' = (mixed \/ preview.chained)
  /\ preview' = None
  /\ UNCHANGED live

\* revertMonitors and the timer.
revert_preview ==
  /\ preview # None
  /\ live' = preview.previous
  /\ preview' = None
  /\ UNCHANGED <<stored, mixed>>

set_monitors(request) ==
  /\ validate_layout(request, live)
  /\ live' = Overlay(request, live)
  /\ stored' = upsert_monitor(request)
  /\ mixed' = (mixed \/ preview # None)
  /\ UNCHANGED preview

\* Of the options alone, the stored screens stay; the reload comes in any case.
reset(scope) ==
  /\ stored' = IF scope = "options" THEN stored ELSE [o \in Names |-> None]
  /\ live' = Reloaded(stored')
  /\ mixed' = (mixed \/ preview # None)
  /\ UNCHANGED preview

\* The session starts anew, and the daemon with it.
Start ==
  /\ live' = Reloaded(stored)
  /\ preview' = None
  /\ UNCHANGED <<stored, mixed>>

Next ==
  \/ \E request \in Requests : begin_preview(request) \/ set_monitors(request)
  \/ \E scope \in {"options", "monitors", "all"} : reset(scope)
  \/ confirm_preview \/ revert_preview \/ Start

Spec == Init /\ [][Next]_vars

-----------------------------------------------------------------------------
(* Properties.                                                              *)

TypeOK ==
  /\ live \in Layouts
  /\ \A o \in Names : stored[o] \in Settings[o] \cup {None}
  /\ preview \in Previews \cup {None}
  /\ mixed \in BOOLEAN

\* The pixels a screen covers.
Pixels(m) ==
  LET s == IF m.transform \in {1, 3, 5, 7} THEN <<m.height, m.width>> ELSE <<m.width, m.height>>
  IN IF m.disabled THEN {}
     ELSE (m.x .. m.x + Logical(s[1], m.scale) - 1) \X (m.y .. m.y + Logical(s[2], m.scale) - 1)

\* There is something to click on, and no two pixels square are shown twice.
Usable(layout) ==
  /\ \E o \in Names : Pixels(layout[o]) # {}
  /\ \A o, p \in Names : o # p =>
       LET shared == Pixels(layout[o]) \cap Pixels(layout[p]) IN
         ~\E d \in shared : {<<d[1] + 1, d[2]>>, <<d[1], d[2] + 1>>,
                             <<d[1] + 1, d[2] + 1>>} \subseteq shared

\* The user's own configuration is his affair.
BaseAssumption == Base \in Layouts /\ Usable(Base)

\* The gate checks every request against the live layout alone, and the store collects
\* them piece by piece: still, whatever is tried, reverted, saved and reset in
\* whatever order, the screen is usable, and so is the one the next start will show,
\* which with nothing on trial is the one that is live.  The exception is a request
\* saved over another that is on trial: what that one changed is live and not saved.
ScreenStaysUsable ==
  /\ TypeOK
  /\ ~mixed => /\ Usable(live) /\ Usable(Reloaded(stored))
               /\ preview = None => live = Reloaded(stored)

\* What is tried out, if nothing else was on trial before, is all that the live layout
\* differs from the stored one by, and what it would go back to is the stored one.
Tried ==
  ~mixed /\ preview # None =>
    /\ preview.previous = Reloaded(stored)
    /\ ~preview.chained => live = Overlay(preview.requested, preview.previous)

IInv == ScreenStaysUsable /\ Tried
=============================================================================
