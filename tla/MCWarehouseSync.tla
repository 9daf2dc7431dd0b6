-------------------------- MODULE MCWarehouseSync --------------------------
(* Instances of WarehouseSync for TLC. *)
EXTENDS WarehouseSync, TLC

CONSTANTS c1, c2

\* Versions 1 and 2 are two rows of one date; version 3 updates the first, in
\* another date.
UpdatedPk == 1 :> 1 @@ 2 :> 2 @@ 3 :> 1
TwoDates == 1 :> 1 @@ 2 :> 1 @@ 3 :> 2

\* Two rows of one date.
PlainPk == 1 :> 1 @@ 2 :> 2
OneDate == 1 :> 1 @@ 2 :> 1

ConsumerSymmetry == Permutations(Consumers)

=============================================================================
