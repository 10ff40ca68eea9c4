----------------------------- MODULE MCOCPPeer -----------------------------
(* Small instances of OCPPeer for TLC. *)
EXTENDS OCPPeer

CONSTANTS n1, n2, n3

TwoTimers == {n1, n2}
ThreeTimers == {n1, n2, n3}
=============================================================================
