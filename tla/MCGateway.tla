----------------------------- MODULE MCGateway ------------------------------
(* Gateway on small instances. *)
EXTENDS Gateway, TLC

CONSTANTS p1, p2, p3, p4, r1, r2, r3, r4

\* One row, two rows, none, and one of an unsupported schema version.
MixedRows == p1 :> {r1} @@ p2 :> {r2, r3} @@ p3 :> {} @@ p4 :> {r4}
OneRow == p1 :> {r1} @@ p2 :> {r2, r3}
=============================================================================
