----------------------------- MODULE MCCapture ------------------------------
(* Escape and Ctrl, each with two names, the latter with two keys; a       *)
(* screen of four pixels whose two outermost are the edges.                *)
EXTENDS Capture

CONSTANTS escape, ctrlL, ctrlR

MCKey     == {escape, ctrlL, ctrlR}
MCModKeys == [m \in {"CTRL"} |-> {ctrlL, ctrlR}]
MCModName == [w \in {"ctrl", "control"} |-> "CTRL"]
MCKeyName == [w \in {"esc", "escape"} |-> escape]
=============================================================================
