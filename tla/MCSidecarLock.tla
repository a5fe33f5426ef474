-------------------------- MODULE MCSidecarLock --------------------------
(* SidecarLock with three callers, the fewest that can race to unlink an  *)
(* abandoned lock, and a retry budget of two, so that the last attempt    *)
(* and the ones before it both occur.                                     *)
EXTENDS SidecarLock, TLC

CallerSymmetry == Permutations(Procs)
=============================================================================
