------------------------ MODULE MCMuxConnectionWrite ------------------------
(***************************************************************************)
(* Instances of MuxConnectionWrite for TLC.                                *)
(***************************************************************************)
EXTENDS MuxConnectionWrite, TLC

\* Sound for invariants only: the writers are interchangeable.
WriterSymmetry == Permutations(Writers)
=============================================================================
