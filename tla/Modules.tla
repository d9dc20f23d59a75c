-------------------------------- MODULE Modules -------------------------------
(* The clipboard's store, and other modules and helpers of the daemon whose      *)
(* safety is looked at.  They share nothing: a behaviour is of one of them,      *)
(* which is chosen at the start; all but the clipboard use as many of the        *)
(* variables s1 to s12 as they have.  Each keeps its own constants.              *)
EXTENDS ClipboardStore, Integers

CONSTANTS
  Calls, Themes, Dynamic, First, Walls,             \* theme
  Servers, Slots, MaxChanges, MaxCalls,             \* vpn
  Monitors, Settings, Base,                         \* layout
  FirstYear, FirstDay, LastYear, Seconds, Offsets,  \* time
  Panels, Deltas, Asked                             \* panel

VARIABLES component, s1, s2, s3, s4, s5, s6, s7, s8, s9, s10, s11, s12

slots == <<s1, s2, s3, s4, s5, s6, s7, s8, s9, s10, s11, s12>>

-----------------------------------------------------------------------------
(* The instances.                                                            *)

Theme == INSTANCE ThemeApply WITH
  record <- s1, conf <- s2, out <- s3, portrait <- s4, temp <- s5, turn <- s6, job <- s7,
  todo <- s8, failed <- s9, feed <- s10, behind <- s11

Vpn == INSTANCE VpnStatus WITH
  tunnel <- s1, cache <- s2, step <- s3, found <- s4, signal <- s5, job <- s6, first <- s7,
  shown <- s8, plan <- s9, late <- s10, changes <- s11, calls <- s12

Layout == INSTANCE DisplayLayout WITH live <- s1, stored <- s2, preview <- s3, mixed <- s4

Time == INSTANCE CalendarTime WITH year <- s1, month <- s2, first <- s3

Panel == INSTANCE BrightnessSteps WITH max <- s1, current <- s2

ASSUME ModulesAssumption ==
  /\ Theme!ThemesAssumption /\ Theme!NoneAssumption
  /\ Vpn!NoneAssumption /\ Vpn!BoundsAssumption
  /\ Layout!LayoutAssumption /\ Layout!BaseAssumption /\ Layout!PreviewAssumption
  /\ Time!WalkAssumption /\ Time!TimesAssumption
  /\ Panel!PanelsAssumption /\ Panel!AskedAssumption

-----------------------------------------------------------------------------
(* One of them runs.                                                         *)

From5 == /\ s5 = None /\ s6 = None /\ s7 = None /\ s8 = None
         /\ s9 = None /\ s10 = None /\ s11 = None /\ s12 = None
From3 == s3 = None /\ s4 = None /\ From5

ModulesInit ==
  /\ Init
  /\ component = "clipboard" \/ calm
  /\ \/ component = "clipboard" /\ s1 = None /\ s2 = None /\ From3
     \/ component = "theme"  /\ Theme!Init  /\ s12 = None
     \/ component = "vpn"    /\ Vpn!Init
     \/ component = "layout" /\ Layout!Init /\ From5
     \/ component = "time"   /\ Time!Init   /\ s4 = None /\ From5
     \/ component = "panel"  /\ Panel!Init  /\ From3

After4 == UNCHANGED <<s5, s6, s7, s8, s9, s10, s11, s12>>

One(c) == component = c /\ UNCHANGED component

ModulesNext ==
  \/ One("clipboard") /\ Next        /\ UNCHANGED slots
  \/ One("theme")     /\ Theme!Next  /\ UNCHANGED <<s12, vars>>
  \/ One("vpn")       /\ Vpn!Next    /\ UNCHANGED vars
  \/ One("layout")    /\ Layout!Next /\ After4 /\ UNCHANGED vars
  \/ One("time")      /\ Time!Next   /\ After4 /\ UNCHANGED <<s4, vars>>
  \/ One("panel")     /\ Panel!Next  /\ After4 /\ UNCHANGED <<s3, s4, vars>>

all == <<component, vars, slots>>

ModulesSpec == ModulesInit /\ [][ModulesNext]_all

-----------------------------------------------------------------------------
(* Their properties.                                                         *)

\* See ChangesDoNotMix and RecordedWasApplied in ThemeApply.
ThemeChangesDoNotMix    == component = "theme" => Theme!ChangesDoNotMix
ThemeRecordedWasApplied == [][component = "theme" => Theme!RecordsApplied]_slots

\* See TunnelIsNetworkManagers in VpnStatus.
VpnTunnelIsNetworkManagers == component = "vpn" => Vpn!TunnelIsNetworkManagers

\* See ScreenStaysUsable in DisplayLayout, DatesAreRight in CalendarTime and PressMoves
\* in BrightnessSteps.
LayoutScreenStaysUsable == component = "layout" => Layout!ScreenStaysUsable
TimeDatesAreRight       == component = "time"   => Time!DatesAreRight
PanelPressMoves         == component = "panel"  => Panel!PressMoves
===============================================================================
