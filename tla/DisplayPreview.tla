--------------------------- MODULE DisplayPreview ---------------------------
(***************************************************************************)
(* The display transaction of the hypr module (modules/hypr.rs): a layout  *)
(* is tried out live with an automatic revert armed, and reaches the store *)
(* when it is confirmed.  The mutex of the module serialises the calls, so *)
(* at most one of them is under way; it is split where it waits for        *)
(* hyprctl or for the disk.  Waiting for the mutex changes nothing and is  *)
(* not modelled: whoever may start next is chosen freely.                  *)
(*                                                                         *)
(* The compositor is external: it applies a layout, or fails and then may  *)
(* be left with a torn one.                                                *)
(***************************************************************************)
EXTENDS Naturals, FiniteSets

CONSTANTS Layouts,   \* complete layouts a client may ask for
          Base,      \* the layout of the user's own configuration
          Torn,      \* a layout applied by half
          None,
          MaxTokens  \* bound of the model: previews

ASSUME DisplayAssumption ==
  /\ Base \in Layouts
  /\ Torn \notin Layouts /\ None \notin Layouts \cup {Torn}
  /\ MaxTokens \in Nat

VARIABLES
  live,      \* the layout the compositor shows
  config,    \* the monitors in the generated Lua module, None when it has none
  stored,    \* the monitors in the JSON store
  greeter,   \* the layout handed to the greeter
  preview,   \* HyprState::preview
  guards,    \* tokens of the revert tasks that are alive and wait
  op,        \* the call that holds the mutex, with what it has to do next
  settling,  \* a call has let go of the mutex and still has to push a snapshot
  rendering, \* the monitors run() or prepare has loaded and not yet rendered
  token,     \* the next token
  shown,     \* shown[k]: the layout the user saw under token k (history)
  approved,  \* layouts the user confirmed or set (history)
  agreed,    \* the last of them, Base before the first (history)
  trouble    \* what may go wrong in this behaviour: nothing, and setMonitors and
             \* reset are not called; also a layout that cannot be applied; or
             \* hyprctl, the disk, crashes, and every call

files == <<config, stored>>
user  == <<shown, approved, agreed>>
moves == <<live, files, greeter, preview, guards, op, settling, rendering, token, user>>
vars  == <<moves, trouble>>

Tokens  == 1..MaxTokens
AnyLive == Layouts \cup {Torn}
Stored  == Layouts \cup {None}
Calls   == {"preview", "confirm", "revert", "expire", "set", "reset"}
Steps   == {"apply", "rollback", "render", "save", "reload", "restore", "snapshot"}

\* What preview and op hold when they are not None.
Previews == [token : Tokens, previous : AnyLive, requested : Layouts]
Ops == [call : Calls, step : Steps, layout : AnyLive \cup {None}, previous : AnyLive]

ASSUME NoneAssumption == None \notin Previews \cup Ops

TypeOK ==
  /\ live \in AnyLive /\ config \in Stored /\ stored \in Stored /\ greeter \in AnyLive
  /\ preview \in {None} \cup Previews
  /\ guards \in SUBSET Tokens
  /\ op \in {None} \cup Ops
  /\ settling \in BOOLEAN
  /\ rendering \in {"nothing"} \cup Stored
  /\ token \in 1..(MaxTokens + 1)
  /\ shown \in [Tokens -> Stored]
  /\ approved \in SUBSET Layouts /\ agreed \in Layouts
  /\ trouble \in {"none", "applies", "any"}

Init ==
  /\ live = Base /\ greeter = Base
  /\ config = None /\ stored = None
  /\ preview = None /\ guards = {} /\ op = None
  /\ settling = FALSE /\ rendering = "nothing"
  /\ token = 1
  /\ shown = [k \in Tokens |-> None] /\ approved = {} /\ agreed = Base
  /\ trouble \in {"none", "applies", "any"}

Op(call, step, layout, previous) ==
  [call |-> call, step |-> step, layout |-> layout, previous |-> previous]
Continue(step) == op' = [op EXCEPT !.step = step]
Doing(step) == op # None /\ op.step = step

-----------------------------------------------------------------------------
(* The calls, from the mutex to their first await.                         *)

\* Mutant: the revert of the preview that is replaced stays armed.
PreviewStartKeepsGuard(layout) ==
  /\ op = None /\ token \in Tokens
  /\ op' = Op("preview", "apply", layout, IF preview = None THEN live ELSE preview.previous)
  /\ preview' = None
  /\ UNCHANGED <<live, files, greeter, guards, settling, rendering, token, user>>

\* previewMonitors.  A preview that is pending is replaced, and its `previous` kept.
PreviewStart(layout) ==
  /\ op = None /\ token \in Tokens
  /\ op' = Op("preview", "apply", layout, IF preview = None THEN live ELSE preview.previous)
  /\ preview' = None
  /\ guards' = IF preview = None THEN guards ELSE guards \ {preview.token}
  /\ UNCHANGED <<live, files, greeter, settling, rendering, token, user>>

\* The user may confirm any token ever shown; only the pending one is taken.
Holds(k) == preview # None /\ preview.token = k

\* Mutant: whatever is pending is confirmed.
ConfirmAny(k) ==
  /\ op = None /\ preview # None /\ shown[k] # None
  /\ op' = Op("confirm", "render", preview.requested, preview.previous)
  /\ approved' = approved \cup {shown[k]} /\ agreed' = shown[k]
  /\ preview' = None /\ guards' = {}
  /\ UNCHANGED <<live, files, greeter, settling, rendering, token, shown>>

\* confirmMonitors.
Confirm(k) ==
  /\ op = None
  /\ Holds(k)
  /\ op' = Op("confirm", "render", preview.requested, preview.previous)
  /\ approved' = approved \cup {shown[k]} /\ agreed' = shown[k]
  /\ preview' = None /\ guards' = guards \ {k}
  /\ UNCHANGED <<live, files, greeter, settling, rendering, token, shown>>

\* revertMonitors.
Revert(k) ==
  /\ op = None
  /\ Holds(k)
  /\ op' = Op("revert", "restore", preview.previous, preview.previous)
  /\ preview' = None /\ guards' = guards \ {k}
  /\ UNCHANGED <<live, files, greeter, settling, rendering, token, user>>

\* The revert task after its sleep; it finds its preview, or nothing to do.
Expire(k) ==
  /\ op = None /\ k \in guards
  /\ guards' = guards \ {k}
  /\ IF Holds(k)
     THEN /\ op' = Op("expire", "restore", preview.previous, preview.previous)
          /\ preview' = None
     ELSE UNCHANGED <<op, preview>>
  /\ UNCHANGED <<live, files, greeter, settling, rendering, token, user>>

\* setMonitors takes the mutex and not the preview.
SetMonitors(layout) ==
  /\ trouble = "any"
  /\ op = None
  /\ op' = Op("set", "apply", layout, live)
  /\ UNCHANGED <<live, files, greeter, preview, guards, settling, rendering, token, user>>

\* reset, of the options alone or of the monitors too: both files, then a reload of the
\* compositor in any case.
Reset ==
  /\ trouble = "any"
  /\ op = None
  /\ \E kept \in {stored, None} : op' = Op("reset", "render", kept, live)
  /\ UNCHANGED <<live, files, greeter, preview, guards, settling, rendering, token, user>>

\* The greeter gets what is live, unless hyprctl cannot tell.
sync_greeter_layout == greeter' = live \/ (trouble = "any" /\ UNCHANGED greeter)

\* setOptions: of what is kept here it rewrites the generated module from the store.
SetOptions ==
  /\ op = None
  /\ config' = stored
  /\ sync_greeter_layout
  /\ UNCHANGED <<live, stored, preview, guards, op, settling, rendering, token, user>>

-----------------------------------------------------------------------------
(* The rest of a call.                                                     *)

Apply(layout) == live' = layout
Tear == live' \in {live, Torn}

\* Mutant: the preview is noted and no revert armed.
PreviewAppliedUnguarded ==
  /\ Doing("apply") /\ op.call = "preview"
  /\ Apply(op.layout)
  /\ preview' = [token |-> token, previous |-> op.previous, requested |-> op.layout]
  /\ shown' = [shown EXCEPT ![token] = op.layout]
  /\ token' = token + 1
  /\ op' = None
  /\ UNCHANGED <<files, greeter, guards, settling, rendering, approved, agreed>>

PreviewApplied ==
  /\ Doing("apply") /\ op.call = "preview"
  /\ Apply(op.layout)
  /\ preview' = [token |-> token, previous |-> op.previous, requested |-> op.layout]
  /\ guards' = guards \cup {token}
  /\ shown' = [shown EXCEPT ![token] = op.layout]
  /\ token' = token + 1
  /\ op' = None
  /\ UNCHANGED <<files, greeter, settling, rendering, approved, agreed>>

SetApplied ==
  /\ Doing("apply") /\ op.call = "set"
  /\ Apply(op.layout)
  /\ Continue("render")
  /\ approved' = approved \cup {op.layout} /\ agreed' = op.layout
  /\ UNCHANGED <<files, greeter, preview, guards, settling, rendering, token, shown>>

\* Hyprland is not there: what was asked for is stored for its next start, unchecked.
SetOffline ==
  /\ trouble = "any"
  /\ Doing("apply") /\ op.call = "set"
  /\ Continue("render")
  /\ approved' = approved \cup {op.layout} /\ agreed' = op.layout
  /\ UNCHANGED <<live, files, greeter, preview, guards, settling, rendering, token, shown>>

\* A layout that could not be applied is taken back.
ApplyFails ==
  /\ trouble # "none"
  /\ Doing("apply")
  /\ Tear
  /\ op' = [op EXCEPT !.step = "rollback", !.layout = op.previous]
  /\ UNCHANGED <<files, greeter, preview, guards, settling, rendering, token, user>>

Rollback ==
  /\ Doing("rollback")
  /\ Apply(op.layout) \/ (trouble = "any" /\ Tear)
  /\ op' = None
  /\ UNCHANGED <<files, greeter, preview, guards, settling, rendering, token, user>>

\* A failed restore is reported by the revert call, and only logged on expiry.
Restore ==
  /\ Doing("restore")
  /\ \/ Apply(op.layout) /\ settling' = TRUE
     \/ trouble = "any" /\ Tear /\ settling' = (settling \/ op.call = "expire")
  /\ op' = None
  /\ UNCHANGED <<files, greeter, preview, guards, rendering, token, user>>

\* The Lua module first, then the store.
Render ==
  /\ Doing("render")
  /\ config' = op.layout
  /\ Continue("save")
  /\ UNCHANGED <<live, stored, greeter, preview, guards, settling, rendering, token, user>>

\* confirm lets go of the mutex before its snapshot, set and reset after it.
Save ==
  /\ Doing("save")
  /\ stored' = op.layout
  /\ \/ op.call = "confirm" /\ op' = None /\ settling' = TRUE
     \/ op.call = "set" /\ Continue("snapshot") /\ UNCHANGED settling
     \/ op.call = "reset" /\ Continue("reload") /\ UNCHANGED settling
  /\ UNCHANGED <<live, config, greeter, preview, guards, rendering, token, user>>

\* A write that fails ends the call; what it did before stays.
PersistFails ==
  /\ trouble = "any"
  /\ Doing("render") \/ Doing("save")
  /\ op' = None
  /\ UNCHANGED <<live, files, greeter, preview, guards, settling, rendering, token, user>>

\* The user's own configuration, overlaid with the generated module.
Reload ==
  /\ Doing("reload")
  /\ LET layout == IF config = None THEN Base ELSE config IN
       /\ Apply(layout) \/ UNCHANGED live
       /\ agreed' = layout
  /\ Continue("snapshot")
  /\ UNCHANGED <<files, greeter, preview, guards, settling, rendering, token, shown, approved>>

SnapshotHeld ==
  /\ Doing("snapshot")
  /\ sync_greeter_layout
  /\ op' = None
  /\ UNCHANGED <<live, files, preview, guards, settling, rendering, token, user>>

-----------------------------------------------------------------------------
\* settled_snapshot after a call: no mutex is held.
Settle ==
  /\ settling
  /\ settling' = FALSE
  /\ sync_greeter_layout
  /\ UNCHANGED <<live, files, preview, guards, op, rendering, token, user>>

\* watch_events: a monitor event of the compositor has come, whatever caused it.
Watch ==
  /\ sync_greeter_layout
  /\ UNCHANGED <<live, files, preview, guards, op, settling, rendering, token, user>>

\* The daemon dies, and with it the pending preview, its guard and any call.
Crash ==
  /\ trouble = "any"
  /\ preview' = None /\ guards' = {} /\ op' = None
  /\ settling' = FALSE /\ rendering' = "nothing"
  /\ UNCHANGED <<live, files, greeter, token, user>>

\* run() and prepare render the store without the mutex: they load it ...
RenderLoad ==
  /\ rendering = "nothing"
  /\ rendering' = stored
  /\ UNCHANGED <<live, files, greeter, preview, guards, op, settling, token, user>>

\* ... and write the generated module.
RenderWrite ==
  /\ rendering # "nothing"
  /\ config' = rendering
  /\ rendering' = "nothing"
  /\ UNCHANGED <<live, stored, greeter, preview, guards, op, settling, token, user>>

Expiry == \E k \in Tokens : Expire(k)

Finish ==
  \/ PreviewApplied \/ SetApplied \/ SetOffline \/ ApplyFails \/ Rollback \/ Restore
  \/ Render \/ Save \/ PersistFails \/ Reload \/ SnapshotHeld

Next ==
  /\ \/ \E layout \in Layouts : PreviewStart(layout) \/ SetMonitors(layout)
     \/ \E k \in Tokens : Confirm(k) \/ Revert(k)
     \/ Expiry \/ Finish \/ Reset \/ SetOptions \/ Settle \/ Watch
     \/ RenderLoad \/ RenderWrite \/ Crash
  /\ UNCHANGED trouble

Spec == Init /\ [][Next]_vars

\* hyprctl and the disk return, and the revert task's sleep ends.  The mutex is
\* fair, so the task gets it although other calls keep coming.
FairSpec == Spec /\ WF_moves(Finish) /\ SF_moves(Expiry) /\ WF_moves(Settle)

-----------------------------------------------------------------------------
\* A pending preview has its revert armed, and no other revert is alive that could
\* undo something else (hypr.rs:249-283, 644-653).
ArmedWhilePending ==
  guards = IF preview = None THEN {} ELSE {preview.token}

\* Only what the user has agreed to reaches the store, and under the token it was
\* shown with: a late or repeated confirmation persists nothing (README.md:649-650
\* "Nothing reaches vellum-settings.json until it is confirmed").
StoredWasApproved == stored \in approved \cup {None}

\* What was agreed to last is what is stored; nothing is, before the first time.
Kept == stored = agreed \/ (stored = None /\ agreed = Base)

\* Without direct sets, and as long as what a failed apply has left is at least taken
\* back, an unconfirmed layout never outlives its preview: between calls the screen shows
\* what was last agreed, or what is on trial, and what was confirmed and so stored is what
\* was on the screen (hypr.rs:177-186, 263-267, 291).
ScreenIsAgreed ==
  trouble # "any" /\ op = None =>
    live = (IF preview = None THEN agreed ELSE preview.requested) /\ Kept

\* The greeter may get a layout nobody has confirmed (every snapshot hands it the live
\* one, hypr.rs:233-234), and never keeps it when the preview has ended.
GreeterGetsAgreed ==
  trouble = "none" /\ op = None /\ preview = None /\ ~settling => greeter = agreed

\* A trial of a layout is guarded while it lasts and leaves nothing behind it.
PreviewInv == TypeOK /\ ArmedWhilePending /\ ScreenIsAgreed /\ GreeterGetsAgreed

\* A preview nobody answers ends by itself, and so does the call that puts the earlier
\* layout back, although other calls keep taking the mutex (hypr.rs:308-328).
UnconfirmedEnds == preview # None ~> (preview = None /\ op = None)

\* What the compositor will load at its next start is what the store says: the mutex
\* serialises every modification (hypr.rs:206-209), so that with nothing failing the two
\* agree whenever no call and no rendering is under way.
ConfigIsStored ==
  trouble = "none" /\ op = None /\ rendering = "nothing" => config = stored
=============================================================================
