------------------------------ MODULE MCRelay -------------------------------
(***************************************************************************)
(* Relay on a small instance.  Three connections are the fewest with which *)
(* one can come too late for a pair.  Liveness is checked with two: what   *)
(* a third adds, to be alone again, either of two can be.                  *)
(***************************************************************************)
EXTENDS Relay, TLC

CONSTANTS c1, c2, c3, r1, r2

MCConn == {c1, c2, c3}
MCRoom == {r1, r2}
MCTwoConn == {c1, c2}

Symmetry == Permutations(MCConn) \cup Permutations(MCRoom)
=============================================================================
