------------------------- MODULE DisplayPreviewProofs -------------------------
(***************************************************************************)
(* What holds of DisplayPreview for every set of layouts and any number of *)
(* previews.                                                               *)
(*                                                                         *)
(* The properties speak of the moments between two calls.  What a call     *)
(* still owes has to be known while it is under way: which steps it may    *)
(* be at and with which layout (OpShape), that what it is about to store   *)
(* was approved (StoresApproved), and, as long as failures are made good,  *)
(* which layout is on the screen and which one it will leave there         *)
(* (CalmOp).                                                               *)
(***************************************************************************)
EXTENDS DisplayPreview, TLAPS

\* A call and the step it may be at.
OpShape ==
  op # None =>
    /\ op.call = "preview" => op.step \in {"apply", "rollback"}
    /\ op.call \in {"revert", "expire"} => op.step = "restore"
    /\ op.call = "confirm" => op.step \in {"render", "save"}
    /\ op.call = "set"   => op.step \in {"apply", "rollback", "render", "save", "snapshot"}
    /\ op.call = "reset" => op.step \in {"render", "save", "reload", "snapshot"}
    /\ op.step = "apply" => op.layout \in Layouts
    /\ op.step \in {"rollback", "restore"} => op.layout \in AnyLive
    /\ op.step \in {"render", "save"} => op.layout \in Stored
    /\ op.call = "preview" => preview = None /\ (op.step = "apply" => token \in Tokens)

\* What the user saw under the pending token is what would be stored.
ShownIsPending == preview # None => shown[preview.token] = preview.requested

\* A call that is about to store something has been allowed to.
StoresApproved ==
  op # None /\ op.step \in {"render", "save"} => op.layout \in approved \cup {None}

\* As long as what fails is taken back, a preview knows the way back, a call ends with the
\* agreed layout, and only a confirmation that is under way has still to store it.
CalmPreview ==
  trouble # "any" /\ preview # None => op = None /\ preview.previous = agreed
CalmOp ==
  trouble # "any" /\ op # None =>
    /\ op.call \notin {"set", "reset"}
    /\ op.call = "preview" => op.previous = agreed /\ Kept
    /\ op.step = "rollback" => trouble # "none" /\ op.layout = agreed
    /\ op.call \in {"revert", "expire"} => op.layout = agreed /\ Kept
    /\ op.call = "confirm" => live = agreed /\ op.layout = agreed

IInv ==
  /\ PreviewInv /\ StoredWasApproved
  /\ OpShape /\ ShownIsPending /\ StoresApproved /\ CalmPreview /\ CalmOp

-----------------------------------------------------------------------------
\* The daemon starts with nothing pending and the user's own layout on the screen.
LEMMA InvInit == Init => IInv
<1> SUFFICES ASSUME Init PROVE IInv
  OBVIOUS
<1> USE DEF Init
<1>1. TypeOK
  <2>1. /\ live \in AnyLive /\ config \in Stored /\ stored \in Stored /\ greeter \in AnyLive
        /\ token \in 1..(MaxTokens + 1) /\ shown \in [Tokens -> Stored] /\ agreed \in Layouts
        /\ rendering \in {"nothing"} \cup Stored
    BY DisplayAssumption DEF AnyLive, Stored
  <2> QED BY <2>1 DEF TypeOK
<1>2. ArmedWhilePending /\ ScreenIsAgreed /\ GreeterGetsAgreed /\ StoredWasApproved
  BY DEF Kept, ArmedWhilePending, ScreenIsAgreed, GreeterGetsAgreed, StoredWasApproved
<1>3. OpShape /\ ShownIsPending /\ StoresApproved /\ CalmPreview /\ CalmOp
  BY DEF OpShape, ShownIsPending, StoresApproved, CalmPreview, CalmOp
<1> QED BY <1>1, <1>2, <1>3 DEF IInv, PreviewInv

\* Every call and every step of one leaves the variables in their sets; a preview that
\* is noted has a token left (begin_preview).
LEMMA TypeStep ==
  ASSUME TypeOK, OpShape, ShownIsPending, Next
  PROVE  TypeOK'
<1> USE DisplayAssumption DEF TypeOK, OpShape, ShownIsPending, AnyLive, Stored, Previews, Ops, Calls, Steps, Op, Continue, Doing, Apply, Tear, Holds, files, user
<1>0. UNCHANGED trouble
  BY DEF Next
<1>1. ASSUME NEW layout \in Layouts, PreviewStart(layout)
      PROVE  TypeOK'
  BY <1>0, <1>1 DEF PreviewStart
<1>2. ASSUME NEW layout \in Layouts, SetMonitors(layout)
      PROVE  TypeOK'
  BY <1>0, <1>2 DEF SetMonitors
<1>3. ASSUME NEW k \in Tokens, Confirm(k)
      PROVE  TypeOK'
  BY <1>0, <1>3 DEF Confirm
<1>4. ASSUME NEW k \in Tokens, Revert(k)
      PROVE  TypeOK'
  BY <1>0, <1>4 DEF Revert
<1>5. ASSUME NEW k \in Tokens, Expire(k)
      PROVE  TypeOK'
  BY <1>0, <1>5 DEF Expire
<1>6. CASE PreviewApplied
  <2>1. token \in Tokens /\ op.layout \in Layouts /\ op.previous \in AnyLive
    BY <1>6 DEF PreviewApplied
  <2>2. token' \in 1..(MaxTokens + 1)
    BY <1>6, <2>1 DEF PreviewApplied, Tokens
  <2>3. shown' \in [Tokens -> Stored] /\ guards' \in SUBSET Tokens
    BY <1>6, <2>1 DEF PreviewApplied
  <2> QED BY <1>0, <1>6, <2>1, <2>2, <2>3 DEF PreviewApplied
<1>7. CASE SetApplied
  BY <1>0, <1>7 DEF SetApplied
<1>23. CASE SetOffline
  BY <1>0, <1>23 DEF SetOffline
<1>8. CASE ApplyFails
  BY <1>0, <1>8 DEF ApplyFails
<1>9. CASE Rollback
  BY <1>0, <1>9 DEF Rollback
<1>10. CASE Restore
  BY <1>0, <1>10 DEF Restore
<1>11. CASE Render
  BY <1>0, <1>11 DEF Render
<1>12. CASE Save
  <2>1. settling' \in BOOLEAN
    BY <1>12 DEF Save
  <2>2. op' \in {None} \cup Ops /\ stored' \in Stored
    BY <1>12 DEF Save
  <2> QED BY <1>0, <1>12, <2>1, <2>2 DEF Save
<1>13. CASE PersistFails
  BY <1>0, <1>13 DEF PersistFails
<1>14. CASE Reload
  BY <1>0, <1>14 DEF Reload
<1>15. CASE SnapshotHeld
  BY <1>0, <1>15 DEF SnapshotHeld, sync_greeter_layout
<1>16. CASE Reset
  BY <1>0, <1>16 DEF Reset
<1>17. CASE SetOptions
  BY <1>0, <1>17 DEF SetOptions, sync_greeter_layout
<1>18. CASE Settle
  <2>1. settling' \in BOOLEAN
    BY <1>18 DEF Settle, sync_greeter_layout
  <2> QED BY <1>0, <1>18, <2>1 DEF Settle, sync_greeter_layout
<1>19. CASE Watch
  BY <1>0, <1>19 DEF Watch, sync_greeter_layout
<1>20. CASE RenderLoad
  BY <1>0, <1>20 DEF RenderLoad
<1>21. CASE RenderWrite
  BY <1>0, <1>21 DEF RenderWrite
<1>22. CASE Crash
  BY <1>0, <1>22 DEF Crash
<1> QED BY <1>1, <1>2, <1>3, <1>4, <1>5, <1>6, <1>7, <1>8, <1>9, <1>10, <1>11, <1>12, <1>13, <1>14, <1>15, <1>16, <1>17, <1>18, <1>19, <1>20, <1>21, <1>22, <1>23 DEF Next, Expiry, Finish

\* Each call goes through its own steps only, and while a preview is being applied none
\* is pending.
LEMMA ShapeStep ==
  ASSUME TypeOK, OpShape, Next
  PROVE  OpShape'
<1> USE DisplayAssumption, NoneAssumption DEF TypeOK, OpShape, AnyLive, Stored, Previews, Ops, Calls, Steps, Op, Continue, Doing, Apply, Tear, Holds, files, user
<1>1. ASSUME NEW layout \in Layouts, PreviewStart(layout)
      PROVE  OpShape'
  BY <1>1 DEF PreviewStart
<1>2. ASSUME NEW layout \in Layouts, SetMonitors(layout)
      PROVE  OpShape'
  BY <1>2 DEF SetMonitors
<1>3. ASSUME NEW k \in Tokens, Confirm(k)
      PROVE  OpShape'
  BY <1>3 DEF Confirm
<1>4. ASSUME NEW k \in Tokens, Revert(k)
      PROVE  OpShape'
  BY <1>4 DEF Revert
<1>5. ASSUME NEW k \in Tokens, Expire(k)
      PROVE  OpShape'
  BY <1>5 DEF Expire
<1>6. CASE PreviewApplied
  BY <1>6 DEF PreviewApplied
<1>7. CASE SetApplied
  BY <1>7 DEF SetApplied
<1>23. CASE SetOffline
  BY <1>23 DEF SetOffline
<1>8. CASE ApplyFails
  BY <1>8 DEF ApplyFails
<1>9. CASE Rollback
  BY <1>9 DEF Rollback
<1>10. CASE Restore
  BY <1>10 DEF Restore
<1>11. CASE Render
  BY <1>11 DEF Render
<1>12. CASE Save
  BY <1>12 DEF Save
<1>13. CASE PersistFails
  BY <1>13 DEF PersistFails
<1>14. CASE Reload
  BY <1>14 DEF Reload
<1>15. CASE SnapshotHeld
  BY <1>15 DEF SnapshotHeld, sync_greeter_layout
<1>16. CASE Reset
  BY <1>16 DEF Reset
<1>17. CASE SetOptions
  BY <1>17 DEF SetOptions, sync_greeter_layout
<1>18. CASE Settle
  BY <1>18 DEF Settle, sync_greeter_layout
<1>19. CASE Watch
  BY <1>19 DEF Watch, sync_greeter_layout
<1>20. CASE RenderLoad
  BY <1>20 DEF RenderLoad
<1>21. CASE RenderWrite
  BY <1>21 DEF RenderWrite
<1>22. CASE Crash
  BY <1>22 DEF Crash
<1> QED BY <1>1, <1>2, <1>3, <1>4, <1>5, <1>6, <1>7, <1>8, <1>9, <1>10, <1>11, <1>12, <1>13, <1>14, <1>15, <1>16, <1>17, <1>18, <1>19, <1>20, <1>21, <1>22, <1>23 DEF Next, Expiry, Finish

\* begin_preview cancels the revert of the preview it replaces, and whatever takes the
\* pending preview away takes its guard along.
LEMMA ArmedStep ==
  ASSUME TypeOK, OpShape, ArmedWhilePending, ShownIsPending, Next
  PROVE  ArmedWhilePending' /\ ShownIsPending'
<1> USE NoneAssumption DEF TypeOK, OpShape, ArmedWhilePending, ShownIsPending, Previews, Op, Continue, Doing, Apply, Tear, Holds, files, user
<1>1. ASSUME NEW layout \in Layouts, PreviewStart(layout)
      PROVE  ArmedWhilePending' /\ ShownIsPending'
  BY <1>1 DEF PreviewStart
<1>2. ASSUME NEW layout \in Layouts, SetMonitors(layout)
      PROVE  ArmedWhilePending' /\ ShownIsPending'
  BY <1>2 DEF SetMonitors
<1>3. ASSUME NEW k \in Tokens, Confirm(k)
      PROVE  ArmedWhilePending' /\ ShownIsPending'
  BY <1>3 DEF Confirm
<1>4. ASSUME NEW k \in Tokens, Revert(k)
      PROVE  ArmedWhilePending' /\ ShownIsPending'
  BY <1>4 DEF Revert
<1>5. ASSUME NEW k \in Tokens, Expire(k)
      PROVE  ArmedWhilePending' /\ ShownIsPending'
  BY <1>5 DEF Expire
<1>6. CASE PreviewApplied
  <2>0. op \in Ops /\ op.layout \in Layouts /\ op.previous \in AnyLive
    BY <1>6 DEF PreviewApplied, Ops
  <2>1. token \in Tokens /\ guards = {}
    BY <1>6 DEF PreviewApplied
  <2>2. preview' \in Previews /\ preview'.token = token /\ preview'.requested = op.layout
    BY <1>6, <2>0, <2>1 DEF PreviewApplied
  <2> QED BY <1>6, <2>1, <2>2 DEF PreviewApplied
<1>7. CASE SetApplied
  BY <1>7 DEF SetApplied
<1>23. CASE SetOffline
  BY <1>23 DEF SetOffline
<1>8. CASE ApplyFails
  BY <1>8 DEF ApplyFails
<1>9. CASE Rollback
  BY <1>9 DEF Rollback
<1>10. CASE Restore
  BY <1>10 DEF Restore
<1>11. CASE Render
  BY <1>11 DEF Render
<1>12. CASE Save
  BY <1>12 DEF Save
<1>13. CASE PersistFails
  BY <1>13 DEF PersistFails
<1>14. CASE Reload
  BY <1>14 DEF Reload
<1>15. CASE SnapshotHeld
  BY <1>15 DEF SnapshotHeld, sync_greeter_layout
<1>16. CASE Reset
  BY <1>16 DEF Reset
<1>17. CASE SetOptions
  BY <1>17 DEF SetOptions, sync_greeter_layout
<1>18. CASE Settle
  BY <1>18 DEF Settle, sync_greeter_layout
<1>19. CASE Watch
  BY <1>19 DEF Watch, sync_greeter_layout
<1>20. CASE RenderLoad
  BY <1>20 DEF RenderLoad
<1>21. CASE RenderWrite
  BY <1>21 DEF RenderWrite
<1>22. CASE Crash
  BY <1>22 DEF Crash
<1> QED BY <1>1, <1>2, <1>3, <1>4, <1>5, <1>6, <1>7, <1>8, <1>9, <1>10, <1>11, <1>12, <1>13, <1>14, <1>15, <1>16, <1>17, <1>18, <1>19, <1>20, <1>21, <1>22, <1>23 DEF Next, Expiry, Finish

\* persist_monitors writes what the call carries, and only confirm, set and reset carry
\* something to it.
LEMMA StoreStep ==
  ASSUME TypeOK, OpShape, ShownIsPending, StoresApproved, StoredWasApproved, Next
  PROVE  StoresApproved' /\ StoredWasApproved'
<1> USE NoneAssumption DEF TypeOK, OpShape, ShownIsPending, StoresApproved, StoredWasApproved, Previews, Ops, Calls, Steps, Op, Continue, Doing, Apply, Tear, Holds, files, user
<1>1. ASSUME NEW layout \in Layouts, PreviewStart(layout)
      PROVE  StoresApproved' /\ StoredWasApproved'
  BY <1>1 DEF PreviewStart
<1>2. ASSUME NEW layout \in Layouts, SetMonitors(layout)
      PROVE  StoresApproved' /\ StoredWasApproved'
  BY <1>2 DEF SetMonitors
<1>3. ASSUME NEW k \in Tokens, Confirm(k)
      PROVE  StoresApproved' /\ StoredWasApproved'
  BY <1>3 DEF Confirm
<1>4. ASSUME NEW k \in Tokens, Revert(k)
      PROVE  StoresApproved' /\ StoredWasApproved'
  BY <1>4 DEF Revert
<1>5. ASSUME NEW k \in Tokens, Expire(k)
      PROVE  StoresApproved' /\ StoredWasApproved'
  BY <1>5 DEF Expire
<1>6. CASE PreviewApplied
  BY <1>6 DEF PreviewApplied
<1>7. CASE SetApplied
  BY <1>7 DEF SetApplied
<1>23. CASE SetOffline
  BY <1>23 DEF SetOffline
<1>8. CASE ApplyFails
  BY <1>8 DEF ApplyFails
<1>9. CASE Rollback
  BY <1>9 DEF Rollback
<1>10. CASE Restore
  BY <1>10 DEF Restore
<1>11. CASE Render
  BY <1>11 DEF Render
<1>12. CASE Save
  BY <1>12 DEF Save
<1>13. CASE PersistFails
  BY <1>13 DEF PersistFails
<1>14. CASE Reload
  BY <1>14 DEF Reload
<1>15. CASE SnapshotHeld
  BY <1>15 DEF SnapshotHeld, sync_greeter_layout
<1>16. CASE Reset
  BY <1>16 DEF Reset
<1>17. CASE SetOptions
  BY <1>17 DEF SetOptions, sync_greeter_layout
<1>18. CASE Settle
  BY <1>18 DEF Settle, sync_greeter_layout
<1>19. CASE Watch
  BY <1>19 DEF Watch, sync_greeter_layout
<1>20. CASE RenderLoad
  BY <1>20 DEF RenderLoad
<1>21. CASE RenderWrite
  BY <1>21 DEF RenderWrite
<1>22. CASE Crash
  BY <1>22 DEF Crash
<1> QED BY <1>1, <1>2, <1>3, <1>4, <1>5, <1>6, <1>7, <1>8, <1>9, <1>10, <1>11, <1>12, <1>13, <1>14, <1>15, <1>16, <1>17, <1>18, <1>19, <1>20, <1>21, <1>22, <1>23 DEF Next, Expiry, Finish

\* As long as failures are made good, the way back of a preview is the agreed layout even when
\* previews follow each other, and every call that ends leaves it on the screen.
LEMMA CalmStep ==
  ASSUME TypeOK, OpShape, ShownIsPending, CalmPreview, CalmOp, ScreenIsAgreed, GreeterGetsAgreed, Next
  PROVE  CalmPreview' /\ CalmOp' /\ ScreenIsAgreed' /\ GreeterGetsAgreed'
<1> USE NoneAssumption DEF TypeOK, OpShape, ShownIsPending, CalmPreview, CalmOp, ScreenIsAgreed, GreeterGetsAgreed, Kept, Previews, Ops, Calls, Steps, Op, Continue, Doing, Apply, Tear, Holds, files, user
<1>0. UNCHANGED trouble
  BY DEF Next
<1>1. ASSUME NEW layout \in Layouts, PreviewStart(layout)
      PROVE  CalmPreview' /\ CalmOp' /\ ScreenIsAgreed' /\ GreeterGetsAgreed'
  <2>1. trouble # "any" => (IF preview = None THEN live ELSE preview.previous) = agreed /\ Kept
    BY <1>1 DEF PreviewStart
  <2>0. (IF preview = None THEN live ELSE preview.previous) \in AnyLive
    BY <1>1 DEF PreviewStart
  <2>2. op' \in Ops /\ op' # None /\ op'.call = "preview" /\ op'.step = "apply" /\ (trouble # "any" => op'.previous = agreed /\ Kept)
    BY <1>1, <2>0, <2>1 DEF PreviewStart, AnyLive
  <2>3. preview' = None /\ agreed' = agreed /\ stored' = stored
    BY <1>1 DEF PreviewStart
  <2> QED BY <1>0, <2>2, <2>3 DEF Kept
<1>2. ASSUME NEW layout \in Layouts, SetMonitors(layout)
      PROVE  CalmPreview' /\ CalmOp' /\ ScreenIsAgreed' /\ GreeterGetsAgreed'
  BY <1>0, <1>2 DEF SetMonitors
<1>3. ASSUME NEW k \in Tokens, Confirm(k)
      PROVE  CalmPreview' /\ CalmOp' /\ ScreenIsAgreed' /\ GreeterGetsAgreed'
  BY <1>0, <1>3 DEF Confirm
<1>4. ASSUME NEW k \in Tokens, Revert(k)
      PROVE  CalmPreview' /\ CalmOp' /\ ScreenIsAgreed' /\ GreeterGetsAgreed'
  BY <1>0, <1>4 DEF Revert
<1>5. ASSUME NEW k \in Tokens, Expire(k)
      PROVE  CalmPreview' /\ CalmOp' /\ ScreenIsAgreed' /\ GreeterGetsAgreed'
  BY <1>0, <1>5 DEF Expire
<1>6. CASE PreviewApplied
  BY <1>0, <1>6 DEF PreviewApplied
<1>7. CASE SetApplied
  BY <1>0, <1>7 DEF SetApplied
<1>23. CASE SetOffline
  BY <1>0, <1>23 DEF SetOffline
<1>8. CASE ApplyFails
  BY <1>0, <1>8 DEF ApplyFails
<1>9. CASE Rollback
  BY <1>0, <1>9 DEF Rollback
<1>10. CASE Restore
  BY <1>0, <1>10 DEF Restore
<1>11. CASE Render
  BY <1>0, <1>11 DEF Render
<1>12. CASE Save
  BY <1>0, <1>12 DEF Save
<1>13. CASE PersistFails
  BY <1>0, <1>13 DEF PersistFails
<1>14. CASE Reload
  BY <1>0, <1>14 DEF Reload
<1>15. CASE SnapshotHeld
  BY <1>0, <1>15 DEF SnapshotHeld, sync_greeter_layout
<1>16. CASE Reset
  BY <1>0, <1>16 DEF Reset
<1>17. CASE SetOptions
  BY <1>0, <1>17 DEF SetOptions, sync_greeter_layout
<1>18. CASE Settle
  BY <1>0, <1>18 DEF Settle, sync_greeter_layout
<1>19. CASE Watch
  BY <1>0, <1>19 DEF Watch, sync_greeter_layout
<1>20. CASE RenderLoad
  BY <1>0, <1>20 DEF RenderLoad
<1>21. CASE RenderWrite
  BY <1>0, <1>21 DEF RenderWrite
<1>22. CASE Crash
  BY <1>0, <1>22 DEF Crash
<1> QED BY <1>1, <1>2, <1>3, <1>4, <1>5, <1>6, <1>7, <1>8, <1>9, <1>10, <1>11, <1>12, <1>13, <1>14, <1>15, <1>16, <1>17, <1>18, <1>19, <1>20, <1>21, <1>22, <1>23 DEF Next, Expiry, Finish

\* Nothing moves in a step that stutters.
LEMMA InvStutter == IInv /\ UNCHANGED vars => IInv'
BY DEF IInv, PreviewInv, TypeOK, ArmedWhilePending, ScreenIsAgreed, GreeterGetsAgreed,
       StoredWasApproved, OpShape, ShownIsPending, StoresApproved, CalmPreview, CalmOp,
       Doing, Kept, vars, moves, files, user

\* IInv holds in every state of every behaviour of the module.
THEOREM Invariant == Spec => []IInv
<1>1. Init => IInv
  BY InvInit
<1>2. IInv /\ [Next]_vars => IInv'
  <2> SUFFICES ASSUME IInv, Next PROVE IInv'
    BY InvStutter
  <2>1. TypeOK /\ ArmedWhilePending /\ ScreenIsAgreed /\ GreeterGetsAgreed
    BY DEF IInv, PreviewInv
  <2>2. StoredWasApproved /\ OpShape /\ ShownIsPending /\ StoresApproved /\ CalmPreview /\ CalmOp
    BY DEF IInv
  <2>3. TypeOK' /\ OpShape'
    BY <2>1, <2>2, TypeStep, ShapeStep
  <2>4. ArmedWhilePending' /\ ShownIsPending'
    BY <2>1, <2>2, ArmedStep
  <2>5. StoresApproved' /\ StoredWasApproved'
    BY <2>1, <2>2, StoreStep
  <2>6. CalmPreview' /\ CalmOp' /\ ScreenIsAgreed' /\ GreeterGetsAgreed'
    BY <2>1, <2>2, CalmStep
  <2> QED BY <2>3, <2>4, <2>5, <2>6 DEF IInv, PreviewInv
<1> QED BY <1>1, <1>2, PTL DEF Spec

\* A trial of a layout is guarded by exactly its own revert while it lasts, whatever calls,
\* expiries, failures and crashes come in any order.  It leaves on the screen and in the
\* store only what was agreed to, also when a layout cannot be applied and is taken back,
\* and if nothing fails the greeter has that too (hypr.rs:242-328).
THEOREM TrialsAreGuarded == Spec => []PreviewInv
<1>1. IInv => PreviewInv
  BY DEF IInv
<1> QED BY <1>1, Invariant, PTL

\* Nothing but what the user confirmed, or set directly, ever reaches the store, under
\* failures and crashes too (hypr.rs:291-297, 559-569).
THEOREM OnlyApprovedIsStored == Spec => []StoredWasApproved
<1>1. IInv => StoredWasApproved
  BY DEF IInv
<1> QED BY <1>1, Invariant, PTL
=============================================================================
