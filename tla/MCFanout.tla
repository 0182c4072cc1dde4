------------------------------ MODULE MCFanout ------------------------------
(* Fanout on small instances.                                               *)
EXTENDS Fanout, TLC

MCTx == Journals \X (0..(MaxChunks - 1))
MCRows == {2, 3}
MCOneRow == {2}
MCDirSame == [j \in Journals |-> DefaultDir]
MCSymmetry == Permutations(Procs)
=============================================================================
