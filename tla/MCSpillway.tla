----------------------------- MODULE MCSpillway -----------------------------
(* Spillway on small instances. *)
EXTENDS Spillway, TLC

CONSTANTS b1, b2, b3, b4

EqualLen == [b \in Batch |-> 16]

\* Batches are interchangeable when they have the same length.
BatchSymmetry == Permutations(Batch)

\* The same reduction where a property is about liveness, for which symmetry is not
\* sound: the batches are emitted in one order.
InOrder == produced \in {{}, {b1}, {b1, b2}, Batch}
OrderedSpec == SpillInit /\ [][SpillNext /\ InOrder']_allVars /\ SpillFairness
=============================================================================
