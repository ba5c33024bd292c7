---------------------------- MODULE MCPmemBucket -----------------------------
(* Instance of PmemBucket for TLC: three threads, two growths and more. The *)
(* threads run the same code, so permuting them is a symmetry.              *)
EXTENDS PmemBucket, TLC

ThreadSymmetry == Permutations(Threads)

=============================================================================
