---------------------------- MODULE MCHandshake -----------------------------
(***************************************************************************)
(* Handshake on a small instance: the integers modulo 5 for the curve, and *)
(* two codes that name the same room.                                      *)
(***************************************************************************)
EXTENDS Handshake

CONSTANTS s1, s2

MCPoint == 0 .. 4
MCAdd(p, q) == (p + q) % 5
MCMult(w, p) == (w * p) % 5
MCSecret == {1, 3}
MCCode == {2, 4}
MCSalt == {s1, s2}
MCHosts == {"left"}
=============================================================================
