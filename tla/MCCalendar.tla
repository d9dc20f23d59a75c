------------------------------ MODULE MCCalendar ------------------------------
(* Sign-ins that may overlap, one calendar to switch, and who asks for a sync. *)
EXTENDS CalendarAccount
===============================================================================
