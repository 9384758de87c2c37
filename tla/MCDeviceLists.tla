---------------------------- MODULE MCDeviceLists -----------------------------
(* Small instances of DeviceLists for TLC. *)
EXTENDS DeviceLists, TLC

CONSTANTS c1, c2, r1, r2

\* The replicas are alike.
ReplicaSymmetry == Permutations({r1, r2})

===============================================================================
