----------------------------- MODULE MCDiskCache -----------------------------
(* DiskCache with workers that are interchangeable.                         *)
EXTENDS DiskCache, TLC

CONSTANTS w1, w2, w3

ThreeWorkers == {w1, w2, w3}

WorkerSymmetry == Permutations(ThreeWorkers)
=============================================================================
