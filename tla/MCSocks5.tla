------------------------------ MODULE MCSocks5 ------------------------------
(* Three connections of one address, a window of three ticks, three failures. *)
EXTENDS Socks5, TLC

CONSTANTS t1, t2, t3
MCTask == {t1, t2, t3}
MCSymmetry == Permutations(MCTask)
=============================================================================
