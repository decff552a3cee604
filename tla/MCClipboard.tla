---------------------------- MODULE MCClipboard -----------------------------
(* Two clients, two texts that are sent and one that is not. *)
EXTENDS Clipboard

CONSTANTS c1, c2, x, y, big
MCClient == {c1, c2}
MCText == {x, y, big}
MCUnsent == {big}
=============================================================================
