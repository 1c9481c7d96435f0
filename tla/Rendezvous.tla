----------------------------- MODULE Rendezvous -----------------------------
(***************************************************************************)
(* What the relay promises its clients, without saying how: a connection   *)
(* joins at most one room, at most one connection is alone in a room, the  *)
(* next to arrive there is paired with it, a lone one may be dropped, and  *)
(* a pair is for ever.                                                     *)
(***************************************************************************)
EXTENDS Integers

CONSTANTS Conn, Room

VARIABLES
  seen,   \* connections that have joined a room
  lone,   \* <<c, r>>: c waits in room r for a partner
  pairs   \* the pairs that were made

vars == <<seen, lone, pairs>>

Init == seen = {} /\ lone = {} /\ pairs = {}

Wait(c, r) ==
  /\ c \notin seen
  /\ \A d \in Conn : <<d, r>> \notin lone
  /\ seen' = seen \cup {c}
  /\ lone' = lone \cup {<<c, r>>}
  /\ UNCHANGED pairs

Meet(c, d, r) ==
  /\ c \notin seen
  /\ <<d, r>> \in lone
  /\ seen' = seen \cup {c}
  /\ lone' = lone \ {<<d, r>>}
  /\ pairs' = pairs \cup {{c, d}}

Drop(c, r) ==
  /\ <<c, r>> \in lone
  /\ lone' = lone \ {<<c, r>>}
  /\ UNCHANGED <<seen, pairs>>

Next ==
  \E c \in Conn, r \in Room :
    \/ Wait(c, r)
    \/ \E d \in Conn : Meet(c, d, r)
    \/ Drop(c, r)

Spec == Init /\ [][Next]_vars
=============================================================================
