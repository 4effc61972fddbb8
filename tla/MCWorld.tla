------------------------------- MODULE MCWorld -------------------------------
(* Instances of World for TLC. *)
EXTENDS World, TLC

CONSTANTS r1, r2, r3, p1, p2, food, cup, key, door

(* Three rooms in a row *)
Row == (r1 :> {r2}) @@ (r2 :> {r1, r3}) @@ (r3 :> {r2})

(* The cup lies at the other end; food and key come later. *)
Party == (r1 :> {p1, p2}) @@ (r2 :> {}) @@ (r3 :> {cup})

KeyFirst == (food :> 0) @@ (cup :> 1) @@ (key :> 2)
InTheMiddle == (door :> r2)

(* The players differ in nothing but their names. *)
EitherPlayer == Permutations(Players)
=============================================================================
