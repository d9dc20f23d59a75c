------------------------------ MODULE MCModules ------------------------------
(* A small instance of Modules. *)
EXTENDS Modules, TLC

CONSTANTS dp, hdmi  \* the screens

\* A mode of six by four, so that a scale and a turn change what a screen takes.
Screen(at, scale, transform, disabled) ==
  [width |-> 6, height |-> 4, x |-> at, y |-> 0, scale |-> scale, transform |-> transform,
   disabled |-> disabled]

TwoMonitors == <<dp, hdmi>>

SmallSettings ==
  dp :> {Screen(0, 4, 2, FALSE), Screen(0, 8, 0, FALSE), Screen(0, 4, 1, FALSE),
         Screen(0, 4, 0, TRUE)}
  @@ hdmi :> {Screen(6, 4, 0, FALSE), Screen(3, 6, 0, FALSE), Screen(6, 4, 0, TRUE)}

SideBySide == dp :> Screen(0, 4, 2, FALSE) @@ hdmi :> Screen(6, 4, 0, FALSE)

\* Zones on either side, half hours, fourteen.
FiveOffsets == {-720, -330, 0, 60, 840}

SmallDeltas == {-5, -1, 1, 5}
==============================================================================
