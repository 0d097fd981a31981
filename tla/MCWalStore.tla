----------------------------- MODULE MCWalStore -----------------------------
(* Instances of WalStore for TLC. *)
EXTENDS WalStore

CONSTANTS b1, b2, b3, b4

\* Equal payloads: two frames fill a segment of 80 bytes.
EqualLen == [b \in Batch |-> 16]

\* A batch larger than a whole segment among small ones.
MixedLen == [b \in Batch |-> IF b = b2 THEN 80 ELSE 16]
=============================================================================
