-------------------------- MODULE MCClipboardStore --------------------------
(* Model values for ClipboardStore: a text, a picture, a broken picture    *)
(* and a blank text.                                                       *)
EXTENDS ClipboardStore

CONSTANTS text, photo, broken, blank
=============================================================================
