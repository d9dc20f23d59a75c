--------------------------- MODULE BrightnessSteps ---------------------------
(***************************************************************************)
(* The level of the built-in display (modules/brightness.rs): the keys and *)
(* the slider speak of percents, the panel has levels of its own, seven of *)
(* them or a hundred thousand.  Both conversions round, and the key must   *)
(* still do something, and never make the screen black.                    *)
(***************************************************************************)
EXTENDS Integers

CONSTANTS Panels, \* how many levels the panels looked at have
          Deltas, \* steps asked for, in percent
          Asked   \* percents asked for

PanelsAssumption == Panels \subseteq Nat \ {0}
AskedAssumption == Deltas \subseteq -100..100 /\ Asked \subseteq 0..100

VARIABLES max,    \* the panel's highest level
          current \* its level

vars == <<max, current>>

MIN_PERCENT == 1

Clamp(n, low, high) == IF n < low THEN low ELSE IF n > high THEN high ELSE n

to_percent(level) == (level * 100 + max \div 2) \div max

\* Never black: one percent at least, and one level at least.
from_percent(percent) ==
  Clamp((Clamp(percent, MIN_PERCENT, 100) * max + 50) \div 100, 1, max)

\* Mutant: a step that rounds to where the level is goes nowhere.
stepped_rounded(level, delta) == from_percent(Clamp(to_percent(level) + delta, 0, 100))

\* A step that rounds to where the level is moves it by one.
stepped(level, delta) ==
  LET target == from_percent(Clamp(to_percent(level) + delta, 0, 100)) IN
    IF target # level \/ delta = 0 THEN target
    ELSE IF delta > 0 THEN Clamp(level + 1, 1, max) ELSE Clamp(level - 1, 1, max)

Init == max \in Panels /\ current \in {0, max}

Apply(level) == current' = level /\ UNCHANGED max

set == \E percent \in Asked : Apply(from_percent(percent))

step(delta) == Apply(stepped(current, delta))

\* Another program: any level, black included.
Elsewhere == \E percent \in 0..100 : Apply((percent * max) \div 100)

Next == set \/ Elsewhere \/ \E delta \in Deltas : step(delta)

Spec == Init /\ [][Next]_vars

-----------------------------------------------------------------------------
(* Properties.                                                              *)

InRange == max \in Panels /\ current \in 0..max

\* On the coarsest panel and on the finest: a key press moves the level its own way by
\* at least one, unless it is at that end already, within the least percent at the
\* dark one, where a press may also bring it back to that; and neither the keys
\* nor the slider reach black, or leave the panel's range.
PressMoves ==
  /\ current \in 0..max
  /\ \A delta \in Deltas :
       LET next == stepped(current, delta) IN
         /\ next \in 1..max
         /\ delta > 0 => next > current \/ current = max
         /\ delta < 0 /\ current > from_percent(0) => next < current
         /\ delta < 0 /\ current <= from_percent(0) => next <= from_percent(0)
  /\ \A percent \in Asked :
       /\ from_percent(percent) \in 1..max
       /\ max >= 100 /\ percent >= MIN_PERCENT => to_percent(from_percent(percent)) = percent
=============================================================================
