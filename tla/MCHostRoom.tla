----------------------------- MODULE MCHostRoom -----------------------------
(* Model-checking instances of HostRoom: see the .cfg files.               *)
EXTENDS HostRoom, TLC

Symmetry == Permutations(HostSockets) \cup Permutations(ViewerSockets)
              \cup Permutations(Keys)
=============================================================================
