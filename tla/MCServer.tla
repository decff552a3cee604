------------------------------ MODULE MCServer ------------------------------
(* Instances of Server for TLC. *)
EXTENDS Server, TLC

CONSTANTS c1, c2, d1, d2

MCConn    == {c1, c2}
MCDevice  == {d1, d2}
MCNone    == {}
MCToggles == BOOLEAN
=============================================================================
