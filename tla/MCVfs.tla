-------------------------------- MODULE MCVfs --------------------------------
(* Two descriptors, which are interchangeable. *)
EXTENDS Vfs, TLC
Descriptors == Permutations(Fd)
==============================================================================
