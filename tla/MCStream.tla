------------------------------ MODULE MCStream ------------------------------
(***************************************************************************)
(* Stream on a small instance.  An empty message, one that needs the       *)
(* longest length encoding and several buffers of io.Copy, and one that is *)
(* refused; cuts within a key's four bytes.  The limit of 65536 bytes, for *)
(* comm.MaxMessage (8 MiB) and twice as many for ws.maxFrame (16 MiB), is  *)
(* the second's size: a message as long as it may be.                      *)
(***************************************************************************)
EXTENDS Stream

MCSizes == {0, 65536, 65537}
MCCuts == {3}
=============================================================================
