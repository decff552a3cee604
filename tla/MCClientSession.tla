-------------------------- MODULE MCClientSession ---------------------------
(* One program, two secrets and two server certificates.                 *)
EXTENDS ClientSession

CONSTANTS cli, s1, s2, k1, k2

MCOne    == {cli}
MCSecret == {s1, s2}
MCCert   == {k1, k2}
MCDemands == {Stored, Any} \cup MCCert
=============================================================================
