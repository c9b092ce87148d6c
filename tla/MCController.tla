---------------------------- MODULE MCController ----------------------------
(* Controller with two executor threads and two requests.                   *)
EXTENDS Controller, TLC

CONSTANTS t1, t2, p1, p2, install

MCThreads == {t1, t2}
MCPosts == {p1, p2}
MCCommands == {install}

MCSymmetry == Permutations(MCThreads) \union Permutations(MCPosts)

=============================================================================
