---------------------------- MODULE MCFileSystem ----------------------------
(***************************************************************************)
(* Constants of FileSystem for model checking.                             *)
(***************************************************************************)
EXTENDS FileSystem, TLC

CONSTANTS n1, n2, n3, a, b

User(uid, gid) == [uid |-> uid, gid |-> gid]
OwnerGroupOther == {User(1, 1), User(2, 1), User(3, 2)}
OneUser == {User(1, 1)}

\* 0620, rw--w----, and 01004: the owner's digit is 0, yet nothing cuts off
\* what is above it.
GroupMode == 6 * 64 + 2 * 8
AboveMode == 512 + 4
TwoModes == {GroupMode, AboveMode}
OpenMode == {6 * 64}

\* Data that ends inside a block of two units, and data that runs into a
\* second.
TwoBuffers == {<<b>>, <<a, b, b>>}

NameSymmetry == Permutations(Names)

\* The last answer decides nothing about the steps to come, and no invariant
\* speaks of it: states that differ in it alone count as one.
StateView == <<tables, up>>
=============================================================================
