-------------------------- MODULE MCStoreController --------------------------
(* One key or two, one configured and one added adapter.                     *)
EXTENDS StoreController, TLC

Symmetric == Permutations(Keys) \cup Permutations(Bufs)
=============================================================================
