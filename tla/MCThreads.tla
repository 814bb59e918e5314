------------------------------ MODULE MCThreads -------------------------------
(* A host and two workers, so that two states can create at once; one name *)
(* over two channel objects, so that a destroyed channel lives beside its  *)
(* successor; two blocks, reused after every free; ids up to 3.*)
EXTENDS Threads, TLC

CONSTANTS m, w1, w2, c1, c2, n1, b1, b2

MCWorker == {w1, w2}
MCChan == {c1, c2}
MCName == {n1}
MCBlock == {b1, b2}

MCSymmetry == Permutations(MCWorker) \cup Permutations(MCChan)
              \cup Permutations(MCBlock)
===============================================================================
