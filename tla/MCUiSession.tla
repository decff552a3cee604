---------------------------- MODULE MCUiSession -----------------------------
(* Three calls of the UI's connect and disconnect commands.                *)
EXTENDS UiSession

MCCall == 1..3
=============================================================================
