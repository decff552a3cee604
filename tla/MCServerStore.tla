--------------------------- MODULE MCServerStore ----------------------------
(* Two devices, and key pairs for two starts that crash before they serve. *)
EXTENDS ServerStore, TLC

CONSTANTS d1, d2, k1, k2, k3

MCDevice == {d1, d2}
MCCert   == {k1, k2, k3}
MCSymmetry == Permutations(MCDevice) \cup Permutations(MCCert)
=============================================================================
