-------------------------- MODULE MCDisplayPreview --------------------------
(* Model values for DisplayPreview: the user's layout and another one.     *)
EXTENDS DisplayPreview

CONSTANTS base, wide

MCLayouts == {base, wide}
=============================================================================
