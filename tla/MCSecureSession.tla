--------------------------- MODULE MCSecureSession ---------------------------
(* SecureSession for TLC: no end, code or host ID differs from the others.   *)
EXTENDS SecureSession, TLC

Symmetry == Permutations(Viewers) \cup Permutations(Attempts)
              \cup Permutations(Codes) \cup Permutations(HostIds)
=============================================================================
