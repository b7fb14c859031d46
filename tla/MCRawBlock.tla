------------------------------ MODULE MCRawBlock ------------------------------
(* Model checking of RawBlock: keys and clients are interchangeable.          *)
EXTENDS RawBlock, TLC

Symmetry == Permutations(Keys) \cup Permutations(Clients)
=============================================================================
