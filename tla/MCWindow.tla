------------------------------ MODULE MCWindow ------------------------------
(* Window on small instances. *)
EXTENDS Window, TLC

CONSTANTS c1, c2

CgroupSymmetry == Permutations(Cgroup)
=============================================================================
