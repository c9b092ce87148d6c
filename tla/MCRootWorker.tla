---------------------------- MODULE MCRootWorker ----------------------------
(* RootWorker with three executor threads and two commands.          *)
EXTENDS RootWorker, TLC

CONSTANTS t1, t2, t3, update, install

MCThreads == {t1, t2, t3}
MCCommands == {update, install}

MCSymmetry == Permutations(MCThreads) \union Permutations(MCCommands)

=============================================================================
