---------------------------- MODULE MCPersistence ----------------------------
(***************************************************************************)
(* Constants of Persistence for model checking.                            *)
(***************************************************************************)
EXTENDS Persistence, TLC

CONSTANTS n1, n2, broken, empty, a, b

OneUser == {[uid |-> 1, gid |-> 1]}

\* A mode that no unsigned holds; chmod, and a save and a start, make it 0600.
LongMode == {4096 + 6 * 64}

\* The text n1, newline, 0, comma, n2.
BrokenName == (broken :> [first |-> n1, later |-> (n2 :> 0)])

\* Data of one block.
TwoBuffers == {<<a>>, <<b>>}

\* Bounds: what follows an interrupted save, and the names that do not load as
\* they are, are explored as long as nothing has been written to the data file,
\* and then no inode counts more than two names (a save that is interrupted
\* again and again can raise a count for ever).
OddNames == {broken, empty}
OddEmpty ==
    torn \/ (DOMAIN names \cup DOMAIN filenames_file.names) \cap OddNames # {} =>
        disk = <<>> /\ \A i \in DOMAIN inodes : inodes[i].ref_count <= 2

LifeView == <<tables, up, files, stage, torn>>
=============================================================================
