---- MODULE MCPermissionFlow ----
(* PermissionFlow with interchangeable requests, for the safety runs. *)
EXTENDS PermissionFlow, TLC

Symmetry == Permutations(Requests)
====
