----------------------------- MODULE MCTransfer -----------------------------
(***************************************************************************)
(* Transfer on a small instance: two files of at most two blocks, so that  *)
(* a file can be empty, grow, shrink, change half way and change without   *)
(* changing its size; two names the receiver can write, so that two files  *)
(* may share one, and one that it refuses.                                 *)
(***************************************************************************)
EXTENDS Transfer

CONSTANTS x, y, p1, p2, up

MCBlock == {x, y}
MCContents == {<<>>, <<x, y>>, <<y, x>>}
MCExisting == {<<y>>}
MCPath == {p1, p2, up}
MCUnsafe == {up}
MCHosts == {"left"}
=============================================================================
