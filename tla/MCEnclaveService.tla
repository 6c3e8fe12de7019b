-------------------------- MODULE MCEnclaveService --------------------------
(***************************************************************************)
(* EnclaveService with two requests that may carry the same task id or     *)
(* different ones.  No definition tells one request, or one task id, from  *)
(* another, so both sets are symmetric.                                    *)
(***************************************************************************)
EXTENDS EnclaveService, TLC

Symmetry == Permutations(Requests) \cup Permutations(TaskIds)
=============================================================================
