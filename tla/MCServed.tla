------------------------------ MODULE MCServed ------------------------------
(***************************************************************************)
(* Served on a small instance: two files of none or two blocks, one        *)
(* change, one resumption.  Three log lines fill the channel of tunnel,    *)
(* the pipe, and block what comes after.  The command lines are those of   *)
(* the README, with and without a tunnel and a page, and one --listen that *)
(* names the machine's own address.                                        *)
(***************************************************************************)
EXTENDS Served

MCSetups ==
  [tunnel : {FALSE}, web : BOOLEAN, bound : {"any"}]
    \cup [tunnel : {TRUE}, web : BOOLEAN, bound : {"loopback"}]
    \cup [tunnel : {FALSE}, web : {FALSE}, bound : {"lan"}]

MCFileSizes == {0, 2}
=============================================================================
