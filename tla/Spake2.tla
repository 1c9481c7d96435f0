------------------------------- MODULE Spake2 -------------------------------
(***************************************************************************)
(* The key agreement of internal/pake, over any group in which its         *)
(* arithmetic makes sense.  A hash is taken to be injective: a session key *)
(* is the transcript that is hashed, and a code stands for the scalar it   *)
(* is hashed to.                                                           *)
(***************************************************************************)
EXTENDS Integers

CONSTANTS
  Point,        \* points of the curve
  Order,        \* number of scalars
  Base,         \* the generator
  MaskA,        \* m, the mask of RoleA
  MaskB,        \* n, the mask of RoleB
  Add(_, _),    \* curve.Add
  Mult(_, _)    \* curve.ScalarMult: scalar, point

Scalar == 0 .. Order - 1
Role == {"A", "B"}

(* What the protocol needs of the curve: the operations stay on it, a mask *)
(* can be taken off with the complement of the scalar it was put on with,  *)
(* and multiplications commute.                                            *)
ASSUME CurveAssumption ==
  /\ Order \in Nat \ {0}
  /\ {Base, MaskA, MaskB} \subseteq Point
  /\ \A p, q \in Point : Add(p, q) \in Point
  /\ \A w \in 0 .. Order, p \in Point : Mult(w, p) \in Point
  /\ \A p, q \in Point, w \in Scalar :
       Add(Add(p, Mult(w, q)), Mult(Order - w, q)) = p
  /\ \A v, w \in Scalar, p \in Point : Mult(v, Mult(w, p)) = Mult(w, Mult(v, p))

OtherRole(r) == IF r = "A" THEN "B" ELSE "A"

BlindPoint(r) == IF r = "A" THEN MaskA ELSE MaskB

(* New: the share a party sends, for its secret x and the code's scalar w  *)
Share(r, x, w) == Add(Mult(x, Base), Mult(w, BlindPoint(r)))

KeyOwnFirst(r, x, w, peer) ==  \* faulty: the transcript depends on the side
  [first |-> Share(r, x, w),
   second |-> peer,
   point |-> Mult(x, Add(peer, Mult(Order - w, BlindPoint(OtherRole(r))))),
   password |-> w]

(* Update: the key a party derives from the share of its peer              *)
Key(r, x, w, peer) ==
  LET mine == Share(r, x, w)
      stripped == Add(peer, Mult(Order - w, BlindPoint(OtherRole(r))))
  IN [first |-> IF r = "A" THEN mine ELSE peer,
      second |-> IF r = "A" THEN peer ELSE mine,
      point |-> Mult(x, stripped),
      password |-> w]
=============================================================================
