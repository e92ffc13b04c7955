-------------------------- MODULE FileSystem_proofs --------------------------
(***************************************************************************)
(* Of two descriptors of one inode at most one writes, for any number of   *)
(* files, users and descriptors.                                           *)
(***************************************************************************)
EXTENDS FileSystem, TLAPS

Fields == {"node_index", "mode", "offset"}

\* What moving an offset needs to know of the descriptor table.
DescriptorShape ==
    /\ descriptors = [d \in DOMAIN descriptors |-> descriptors[d]]
    /\ \A d \in DOMAIN descriptors :
          /\ DOMAIN descriptors[d] = Fields
          /\ descriptors[d] = [x \in Fields |-> descriptors[d][x]]

WriterInv == DescriptorShape /\ OneWriter

\* An operation that moves the offset of a descriptor leaves its mode and inode.
Moves(d) == \E off : descriptors' = [descriptors EXCEPT ![d] = [@ EXCEPT !.offset = off]]

(* Moving an offset (write, read and seek) keeps the invariant.             *)
LEMMA MovePreserves ==
    ASSUME WriterInv, NEW d \in DOMAIN descriptors, Moves(d)
    PROVE  WriterInv'
<1>1. PICK off : descriptors' = [descriptors EXCEPT ![d] = [descriptors[d] EXCEPT !.offset = off]]
    BY DEF Moves
<1>2. DOMAIN descriptors' = DOMAIN descriptors
    BY <1>1
<1>3. \A e \in DOMAIN descriptors \ {d} : descriptors'[e] = descriptors[e]
    BY <1>1
<1>4. descriptors'[d] = [descriptors[d] EXCEPT !.offset = off]
    BY <1>1
<1>5. /\ DOMAIN descriptors'[d] = Fields
      /\ descriptors'[d] = [x \in Fields |-> descriptors'[d][x]]
      /\ descriptors'[d].mode = descriptors[d].mode
      /\ descriptors'[d].node_index = descriptors[d].node_index
    BY <1>4 DEF WriterInv, DescriptorShape, Fields
<1>6. descriptors' = [e \in DOMAIN descriptors' |-> descriptors'[e]]
    BY <1>1
<1>7. DescriptorShape'
    BY <1>2, <1>3, <1>5, <1>6 DEF WriterInv, DescriptorShape
<1>8. OneWriter'
    BY <1>2, <1>3, <1>5 DEF WriterInv, OneWriter
<1>9. QED
    BY <1>7, <1>8 DEF WriterInv

(* An operation that leaves the descriptor table keeps the invariant.       *)
LEMMA SamePreserves ==
    ASSUME WriterInv, UNCHANGED descriptors
    PROVE  WriterInv'
    BY DEF WriterInv, DescriptorShape, OneWriter

(* A successful open adds a descriptor of an inode that has no writer       *)
(* (inode.c 457-464), so the new one may be its only writer.                *)
LEMMA OpenPreserves ==
    ASSUME WriterInv, NEW u, NEW n, NEW flag, Open(u, n, flag)
    PROVE  WriterInv'
<1>1. CASE UNCHANGED descriptors
    BY <1>1, SamePreserves
<1>2. CASE ~ UNCHANGED descriptors
  <2> DEFINE i == Resolved(n)
             k == NextNumber(DOMAIN descriptors)
             new == [node_index |-> i, mode |-> flag, offset |-> 0]
  <2>1. ~Writer(i) /\ descriptors' = With(descriptors, k, new)
    BY <1>2 DEF Open, Refuse, tables
  <2> HIDE DEF i, k
  <2>2. descriptors' = [x \in DOMAIN descriptors \cup {k} |-> IF x = k THEN new ELSE descriptors[x]]
    BY <2>1 DEF With
  <2>3. /\ DOMAIN descriptors' = DOMAIN descriptors \cup {k}
        /\ descriptors'[k] = new
        /\ \A e \in DOMAIN descriptors \ {k} : descriptors'[e] = descriptors[e]
    BY <2>2
  <2>4. DOMAIN new = Fields /\ new = [x \in Fields |-> new[x]]
    BY DEF Fields
  <2>5. DescriptorShape'
    BY <2>2, <2>3, <2>4 DEF WriterInv, DescriptorShape
  <2>6. OneWriter'
    BY <2>1, <2>3 DEF WriterInv, OneWriter, Writer
  <2>7. QED
    BY <2>5, <2>6 DEF WriterInv
<1>3. QED
    BY <1>1, <1>2

(* Closing a descriptor keeps the invariant.                                *)
LEMMA ClosePreserves ==
    ASSUME WriterInv, NEW d, Close(d)
    PROVE  WriterInv'
<1>1. CASE UNCHANGED descriptors
    BY <1>1, SamePreserves
<1>2. CASE ~ UNCHANGED descriptors
  <2>1. descriptors' = [x \in DOMAIN descriptors \ {d} |-> descriptors[x]]
    BY <1>2 DEF Close, Refuse, tables, Without
  <2>2. QED
    BY <2>1 DEF WriterInv, DescriptorShape, OneWriter
<1>3. QED
    BY <1>1, <1>2

(* The operations on names other than open leave the descriptor table.      *)
LEMMA NamesPreserve ==
    ASSUME WriterInv, NameOperation
    PROVE  WriterInv'
<1>1. CASE \E u \in Users, n \in Names, flag \in {"READ_ONLY", "WRITE_ONLY", "OTHER"} : Open(u, n, flag)
    BY <1>1, OpenPreserves
<1>2. CASE \E u \in Users, n \in Names, mode \in Modes : Create(u, n, mode) \/ Chmode(u, n, mode)
  <2>1. UNCHANGED descriptors
    BY <1>2 DEF Create, Chmode, Refuse, tables
  <2>2. QED
    BY <2>1, SamePreserves
<1>3. CASE \E u \in Users, n \in Names : Stat(u, n) \/ Unlink(n)
  <2>1. UNCHANGED descriptors
    BY <1>3 DEF Stat, Unlink, Refuse, tables
  <2>2. QED
    BY <2>1, SamePreserves
<1>4. CASE \E u \in Users, n \in Names, new \in Names : Rename(n, new) \/ Link(u, n, new)
  <2>1. UNCHANGED descriptors
    BY <1>4 DEF Rename, Link, Refuse, tables
  <2>2. QED
    BY <2>1, SamePreserves
<1>5. CASE \E u \in Users, n \in Names, new \in Names, mode \in Modes : Symlink(u, n, new, mode)
  <2>1. UNCHANGED descriptors
    BY <1>5 DEF Symlink, Refuse, tables
  <2>2. QED
    BY <2>1, SamePreserves
<1>6. QED
    BY <1>1, <1>2, <1>3, <1>4, <1>5 DEF NameOperation

(* Write, read and seek move the offset of their descriptor or nothing.     *)
LEMMA FilesPreserve ==
    ASSUME WriterInv, FileOperation
    PROVE  WriterInv'
<1>1. PICK d : \/ Close(d)
               \/ \E buf \in Buffers : Write(d, buf)
               \/ \E size \in Sizes : Read(d, size) \/ Seek(d, size)
    BY DEF FileOperation
<1>2. CASE Close(d)
    BY <1>2, ClosePreserves
<1>3. CASE \E buf \in Buffers : Write(d, buf)
  <2>1. PICK buf \in Buffers : Write(d, buf)
    BY <1>3
  <2>2. UNCHANGED descriptors \/ (d \in DOMAIN descriptors /\ Moves(d))
    BY <2>1 DEF Write, Refuse, tables, Attached, Moves
  <2>3. QED
    BY <2>2, SamePreserves, MovePreserves
<1>4. CASE \E size \in Sizes : Read(d, size)
  <2>1. PICK size \in Sizes : Read(d, size)
    BY <1>4
  <2>2. UNCHANGED descriptors \/ (d \in DOMAIN descriptors /\ Moves(d))
    BY <2>1 DEF Read, Refuse, tables, Attached, Moves
  <2>3. QED
    BY <2>2, SamePreserves, MovePreserves
<1>5. CASE \E size \in Sizes : Seek(d, size)
  <2>1. PICK size \in Sizes : Seek(d, size)
    BY <1>5
  <2>2. UNCHANGED descriptors \/ (d \in DOMAIN descriptors /\ Moves(d))
    BY <2>1 DEF Seek, Refuse, tables, Attached, Moves
  <2>3. QED
    BY <2>2, SamePreserves, MovePreserves
<1>6. QED
    BY <1>1, <1>2, <1>3, <1>4, <1>5

(* Every step keeps the invariant.                                          *)
LEMMA StepPreserves ==
    ASSUME WriterInv, Next \/ UNCHANGED vars
    PROVE  WriterInv'
<1>1. CASE UNCHANGED vars
    BY <1>1, SamePreserves DEF vars, tables
<1>2. CASE Crash
    BY <1>2, SamePreserves DEF Crash, tables
<1>3. QED
    BY <1>1, <1>2, NamesPreserve, FilesPreserve DEF Next

(* No two open descriptors write the same inode, whatever files are created *)
(* and unlinked in between: open_inode asks look_for_opened_write before it *)
(* adds a descriptor (inode.c 457-464).                                     *)
THEOREM SingleWriter == Spec => []OneWriter
<1>1. Init => WriterInv
    BY DEF Init, WriterInv, DescriptorShape, OneWriter
<1>2. WriterInv /\ [Next]_vars => WriterInv'
    BY StepPreserves
<1>3. WriterInv => OneWriter
    BY DEF WriterInv
<1>4. QED
    BY <1>1, <1>2, <1>3, PTL DEF Spec
===============================================================================
