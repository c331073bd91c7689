------------------------------ MODULE MCUpload ------------------------------
(***************************************************************************)
(* Instances of Upload for TLC.                                            *)
(***************************************************************************)
EXTENDS Upload, TLC

\* The part buffers of the pool are interchangeable.  Used for safety only.
BufferSymmetry == Permutations(Buffers)
=============================================================================
