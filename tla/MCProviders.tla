------------------------------ MODULE MCProviders ------------------------------
(***************************************************************************)
(* Providers for TLC.  The two providers that need a key differ in nothing *)
(* that the specification or its properties mention.                       *)
(***************************************************************************)
EXTENDS Providers, TLC

KeyedProviders == Permutations(NeedsKey)
=============================================================================
