----------------------------- MODULE MCSharedFile -----------------------------
(***************************************************************************)
(* Three variables, two files, a parser.                                   *)
(***************************************************************************)
EXTENDS SharedFile, TLC

CONSTANTS h1, h2, h3, f1, f2, p1

MCHandles == {h1, h2, h3}
MCFiles   == {f1, f2}
MCParsers == {p1}

\* Variables are alike, and so are files.
Symmetric == Permutations(MCHandles) \cup Permutations(MCFiles)

=============================================================================
