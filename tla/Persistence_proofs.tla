-------------------------- MODULE Persistence_proofs --------------------------
(***************************************************************************)
(* A restart after an orderly end brings back what the text of the tables  *)
(* can hold, and one after a crash brings back tables that agree with each *)
(* other and with the data file, for any number of files, users, blocks    *)
(* and restarts.                                                           *)
(***************************************************************************)
EXTENDS Persistence, FileSystemTables_proofs

\* What main has saved so far is what the tables still hold; it is out of date
\* at no later stage because nothing operates on the tables any more.
SavedInv ==
    /\ stage \in {"blocks", "filenames", "saved"} => inodes_file = inodes
    /\ stage \in {"filenames", "saved"} => blocks_file = blocks
    /\ stage = "saved" => filenames_file = [names |-> names, first |-> first]

Life == LifeNext \/ UNCHANGED lifeVars

(* Initially nothing is saved and main runs the service.                    *)
LEMMA SavedInit == LifeInit => SavedInv
    BY DEF LifeInit, SavedInv

(* Each step of main, of the worker and of a failure keeps the invariant.   *)
LEMMA SavedStep ==
    ASSUME SavedInv, Life
    PROVE  SavedInv'
<1>1. CASE Operate
    BY <1>1 DEF Operate, SavedInv
<1>2. CASE EndService
    BY <1>2 DEF EndService, SavedInv
<1>3. CASE CloseInodeTable
  <2>1. stage = "inodes" /\ stage' \in {"inodes", "blocks"}
      BY <1>3 DEF CloseInodeTable
  <2>2. stage' = "blocks" => inodes_file' = inodes /\ inodes' = inodes
      BY <1>3 DEF CloseInodeTable, tables
  <2>3. QED
      BY <2>1, <2>2 DEF SavedInv
<1>4. CASE CloseDataBlockTable
    BY <1>4 DEF CloseDataBlockTable, SavedInv, vars, tables
<1>5. CASE CloseFilenameTable
    BY <1>5 DEF CloseFilenameTable, SavedInv, tables
<1>d. CASE DieWriting
    BY <1>d DEF DieWriting, SavedInv, files
<1>6. CASE Die
  <2>1. /\ stage' = stage
        /\ UNCHANGED <<inodes, blocks, names, first>>
      BY <1>6 DEF Die, tables
  <2>2. /\ stage # "inodes" => inodes_file' = inodes_file
        /\ stage # "blocks" => blocks_file' = blocks_file
        /\ stage # "filenames" => filenames_file' = filenames_file
      BY <1>6 DEF Die
  <2>3. QED
      BY <2>1, <2>2 DEF SavedInv
<1>7. CASE Start
    BY <1>7 DEF Start, SavedInv
<1>8. CASE UNCHANGED lifeVars
    BY <1>8 DEF SavedInv, lifeVars, vars, tables, files
<1>9. QED
    BY <1>1, <1>2, <1>3, <1>4, <1>5, <1>6, <1>7, <1>8, <1>d DEF Life, LifeNext
-----------------------------------------------------------------------------
(* What loading makes of the lines.                                         *)
LEMMA AtoiOfInt ==
    ASSUME NEW m \in Int, FitsInt(m)
    PROVE  Atoi(m) = m
<1>1. PICK h : h = UnsignedRange \div 2
    OBVIOUS
<1>2. h \in Nat \ {0} /\ UnsignedRange = 2 * h
    BY <1>1, ArgsAssumption, IntAssumption
<1>3. m + h \in 0 .. UnsignedRange - 1
    BY <1>2 DEF FitsInt
<1>4. (m + h) % UnsignedRange = m + h
  <2>1. \A u \in Nat \ {0}, k \in Nat : k < u => k % u = k
      OBVIOUS
  <2>2. UnsignedRange \in Nat \ {0} /\ m + h \in Nat /\ m + h < UnsignedRange
      BY <1>2, <1>3
  <2>3. QED
      BY <2>1, <2>2
<1>5. QED
    BY <1>1, <1>2, <1>4 DEF Atoi

LEMMA AtoiInt == ASSUME NEW m \in Int PROVE Atoi(m) \in Int
<1>1. PICK h : h = UnsignedRange \div 2
    OBVIOUS
<1>2. h \in Int /\ UnsignedRange \in Nat \ {0}
    BY <1>1, ArgsAssumption
<1>3. (m + h) % UnsignedRange \in Int
    BY <1>2
<1>4. QED
    BY <1>1, <1>2, <1>3 DEF Atoi

LEMMA PlainLines ==
    ASSUME NEW f, LinesApart(f), NEW n \in DOMAIN f \ DOMAIN Broken
    PROVE  n \in DOMAIN ParsedNames(f) /\ ParsedNames(f)[n] = f[n]
<1>1. FirstLine(n) = n
    BY DEF FirstLine
<1>2. n \in DOMAIN ParsedNames(f)
    BY <1>1 DEF ParsedNames
<1>3. \A m \in DOMAIN f : FirstLine(m) = n \/ n \in DOMAIN LaterLines(m) => m = n
    BY <1>1 DEF LinesApart
<1>4. n = CHOOSE m \in DOMAIN f : FirstLine(m) = n \/ n \in DOMAIN LaterLines(m)
    BY <1>1, <1>3
<1>5. QED
    BY <1>1, <1>2, <1>4 DEF ParsedNames

LEMMA PlainTable ==
    ASSUME NEW f, DOMAIN f \cap DOMAIN Broken = {}
    PROVE  /\ LinesApart(f) /\ DOMAIN ParsedNames(f) = DOMAIN f
<1>1. \A n \in DOMAIN f : FirstLine(n) = n /\ LaterLines(n) = <<>>
    BY DEF FirstLine, LaterLines
<1>2. DOMAIN <<>> = {}
    OBVIOUS
<1>3. LinesApart(f)
    BY <1>1, <1>2 DEF LinesApart
<1>4. {FirstLine(n) : n \in DOMAIN f} = DOMAIN f /\ UNION {DOMAIN LaterLines(n) : n \in DOMAIN f} = {}
    BY <1>1, <1>2
<1>5. QED
    BY <1>3, <1>4 DEF ParsedNames

\* An inode is a record with a mode, and the name of the head node is there.
Shaped(v) == v = [f \in DOMAIN v |-> v[f]] /\ "mode" \in DOMAIN v /\ v.mode \in Int
FirstNamed(t, n) == n \in DOMAIN t \/ n = NoName
ShapeInv ==
    /\ \A i \in DOMAIN inodes : Shaped(inodes[i])
    /\ \A i \in DOMAIN inodes_file : Shaped(inodes_file[i])
    /\ FirstNamed(names, first)
    /\ FirstNamed(filenames_file.names, filenames_file.first)
InodesShaped == \A i \in DOMAIN inodes : Shaped(inodes[i])

LEMMA ShapeInit == LifeInit => ShapeInv
    BY DEF LifeInit, Init, NoFilenames, ShapeInv, FirstNamed

LEMMA FieldShaped ==
    ASSUME NEW v, Shaped(v), NEW k \in {"mode", "ref_count", "data_blocks", "st_size"}, NEW x,
           k = "mode" => x \in Int
    PROVE  Shaped([v EXCEPT ![k] = x])
<1> DEFINE w == [v EXCEPT ![k] = x]
<1>1. w = [f \in DOMAIN v |-> IF f = k THEN x ELSE v[f]]
    BY DEF Shaped
<1>2. DOMAIN w = DOMAIN v /\ w.mode \in Int
    BY DEF Shaped
<1>3. \A f \in DOMAIN v : w[f] = IF f = k THEN x ELSE v[f]
    BY DEF Shaped
<1>4. [f \in DOMAIN w |-> w[f]] = [f \in DOMAIN v |-> IF f = k THEN x ELSE v[f]]
  <2> HIDE DEF w
  <2>1. QED
      BY <1>2, <1>3
<1>5. "mode" \in DOMAIN w
    BY <1>2 DEF Shaped
<1> HIDE DEF w
<1>6. Shaped(w)
    BY <1>1, <1>2, <1>4, <1>5 DEF Shaped
<1>7. QED
    BY <1>6 DEF w

LEMMA FieldsShaped ==
    ASSUME NEW v, Shaped(v)
    PROVE  /\ \A m \in Int : Shaped([v EXCEPT !.mode = m])
           /\ \A c : Shaped([v EXCEPT !.ref_count = c])
           /\ \A d, z : Shaped([v EXCEPT !.data_blocks = d, !.st_size = z])
<1>1. ASSUME NEW d, NEW z PROVE Shaped([v EXCEPT !.data_blocks = d, !.st_size = z])
  <2>1. PICK w : w = [v EXCEPT !.data_blocks = d]
      OBVIOUS
  <2>2. Shaped(w)
      BY <2>1, FieldShaped
  <2>3. Shaped([w EXCEPT !.st_size = z])
      BY <2>2, FieldShaped
  <2>4. QED
      BY <2>1, <2>3
<1>2. QED
    BY <1>1, FieldShaped

LEMMA NewShaped == ASSUME NEW u, NEW mode \in Modes, NEW refs PROVE Shaped(NewInode(u, mode, refs))
    BY ArgsAssumption DEF NewInode, Shaped, Mode

LEMMA AddShaped == ASSUME InodesShaped, NEW i, NEW v, Shaped(v), inodes' = With(inodes, i, v) PROVE InodesShaped'
    BY DEF InodesShaped, With

LEMMA UpdateShaped ==
    ASSUME InodesShaped, NEW i, NEW v, i \in DOMAIN inodes => Shaped(v), inodes' = [inodes EXCEPT ![i] = v]
    PROVE  InodesShaped'
    BY DEF InodesShaped

LEMMA AddNameNamed == ASSUME FirstNamed(names, first), NEW n, NEW i, AddName(n, i) PROVE FirstNamed(names, first)'
    BY DEF AddName, With, FirstNamed

(* No operation gives an inode another form or loses the head's name.       *)
LEMMA OperationShape ==
    ASSUME InodesShaped, FirstNamed(names, first), Next
    PROVE  InodesShaped' /\ FirstNamed(names, first)'
<1> DEFINE Kept == InodesShaped' /\ FirstNamed(names, first)'
<1>1. UNCHANGED <<inodes, names, first>> => Kept
    BY DEF InodesShaped
<1>2. \A request, status : Refuse(request, status) => Kept
    BY <1>1 DEF Refuse, tables
<1>3. UNCHANGED <<names, first>> => FirstNamed(names, first)'
    OBVIOUS
<1>4. UNCHANGED inodes => InodesShaped'
    BY DEF InodesShaped
<1> HIDE DEF Kept
<1>5. ASSUME NEW u \in Users, NEW n \in Names, NEW mode \in Modes, Create(u, n, mode) PROVE Kept
  <2>1. CASE n \in DOMAIN names
      BY <1>2, <1>5, <2>1 DEF Create
  <2>2. CASE n \notin DOMAIN names
    <3>1. PICK i : inodes' = With(inodes, i, NewInode(u, mode, 1)) /\ AddName(n, i)
        BY <1>5, <2>2 DEF Create
    <3>2. QED
        BY <3>1, NewShaped, AddShaped, AddNameNamed DEF Kept
  <2>3. QED
      BY <2>1, <2>2
<1>6. ASSUME NEW u \in Users, NEW n \in Names, NEW mode \in Modes, Chmode(u, n, mode) PROVE Kept
  <2>1. CASE ~WritePermitted(u, n) \/ n \notin DOMAIN names
      BY <1>2, <1>6, <2>1 DEF Chmode
  <2>2. CASE WritePermitted(u, n) /\ n \in DOMAIN names
    <3>1. PICK m : m = mode % UnsignedRange
        OBVIOUS
    <3>2. mode \in Int /\ UnsignedRange \in Nat \ {0}
        BY ArgsAssumption DEF Mode
    <3>3. m \in Int
        BY <3>1, <3>2
    <3>4. /\ inodes' = [inodes EXCEPT ![names[n]] = [inodes[names[n]] EXCEPT !.mode = m]]
          /\ UNCHANGED <<names, first>>
        BY <1>6, <2>2, <3>1 DEF Chmode
    <3>5. names[n] \in DOMAIN inodes => Shaped([inodes[names[n]] EXCEPT !.mode = m])
        BY <3>3, FieldsShaped DEF InodesShaped
    <3>6. QED
        BY <1>3, <3>4, <3>5, UpdateShaped DEF Kept
  <2>3. QED
      BY <2>1, <2>2
<1>7. ASSUME NEW u \in Users, NEW n \in Names, NEW new \in Names, Link(u, n, new) PROVE Kept
  <2>1. CASE ~ReadPermitted(u, n) \/ new \in DOMAIN names
      BY <1>2, <1>7, <2>1 DEF Link
  <2>2. CASE ReadPermitted(u, n) /\ new \notin DOMAIN names
    <3>1. PICK i, c : c = inodes[i].ref_count + 1 /\ AddName(new, i)
                      /\ inodes' = [inodes EXCEPT ![i] = [inodes[i] EXCEPT !.ref_count = c]]
        BY <1>7, <2>2 DEF Link
    <3>2. i \in DOMAIN inodes => Shaped([inodes[i] EXCEPT !.ref_count = c])
        BY FieldsShaped DEF InodesShaped
    <3>3. QED
        BY <3>1, <3>2, UpdateShaped, AddNameNamed DEF Kept
  <2>3. QED
      BY <2>1, <2>2
<1>8. ASSUME NEW n \in Names, NEW new \in Names, Rename(n, new) PROVE Kept
  <2>1. CASE new \in DOMAIN names \/ n \notin DOMAIN names
      BY <1>2, <1>8, <2>1 DEF Rename
  <2>2. CASE ~(new \in DOMAIN names \/ n \notin DOMAIN names)
    <3>1. /\ names' = With(Without(names, n), new, names[n]) /\ UNCHANGED inodes
          /\ first' = IF first = n THEN new ELSE first
        BY <1>8, <2>2 DEF Rename
    <3>2. FirstNamed(names, first)'
        BY <3>1 DEF With, Without, FirstNamed
    <3>3. QED
        BY <1>4, <3>1, <3>2 DEF Kept
  <2>3. QED
      BY <2>1, <2>2
<1>9. ASSUME NEW u \in Users, NEW n \in Names, NEW new \in Names, NEW mode \in Modes, Symlink(u, n, new, mode)
      PROVE  Kept
  <2>1. CASE ~ReadPermitted(u, n) \/ n \notin DOMAIN names \/ new \in DOMAIN names
      BY <1>2, <1>9, <2>1 DEF Symlink
  <2>2. CASE ~(~ReadPermitted(u, n) \/ n \notin DOMAIN names \/ new \in DOMAIN names)
    <3> DEFINE parent == inodes[names[n]]
               i == NextNumber(DOMAIN inodes)
               child == NewInode(u, mode, 1)
               t == ReadBack(parent.data_blocks, 0, parent.st_size)
               w == Written(i, child.data_blocks, 0, t.data)
               d == w.data_blocks
               z == IF w.ok THEN parent.st_size ELSE 0
               full == [child EXCEPT !.data_blocks = d, !.st_size = z]
               v == IF ~t.ok THEN child ELSE full
    <3>1. AddName(new, i) /\ inodes' = With(inodes, i, v)
        BY <1>9, <2>2 DEF Symlink
    <3>2. Shaped(child)
        BY NewShaped
    <3> HIDE DEF child, d, z
    <3>3. Shaped(full)
        BY <3>2, FieldsShaped
    <3> HIDE DEF full, i
    <3>4. Shaped(v)
        BY <3>2, <3>3
    <3> HIDE DEF v
    <3>5. QED
        BY <3>1, <3>4, AddShaped, AddNameNamed DEF Kept
  <2>3. QED
      BY <2>1, <2>2
<1>10. ASSUME NEW n \in Names, Unlink(n) PROVE Kept
  <2>1. CASE n \notin DOMAIN names \/ names[n] \notin DOMAIN inodes
      BY <1>2, <1>10, <2>1 DEF Unlink
  <2>2. CASE n \in DOMAIN names /\ names[n] \in DOMAIN inodes
    <3>1. PICK i \in DOMAIN inodes, gone \in BOOLEAN : Dropped(i, gone) /\ NameRemoved(n)
        BY <1>10, <2>2 DEF Unlink
    <3>2. FirstNamed(names, first)'
        BY <3>1 DEF NameRemoved, Without, FirstNamed
    <3>3. CASE gone
      <4>1. inodes' = Without(inodes, i)
          BY <3>1, <3>3 DEF Dropped
      <4>2. QED
          BY <3>2, <4>1 DEF Without, InodesShaped, Kept
    <3>4. CASE ~gone
      <4>1. PICK c : inodes' = [inodes EXCEPT ![i] = [inodes[i] EXCEPT !.ref_count = c]]
          BY <3>1, <3>4 DEF Dropped
      <4>2. Shaped([inodes[i] EXCEPT !.ref_count = c])
          BY FieldsShaped DEF InodesShaped
      <4>3. QED
          BY <3>2, <4>1, <4>2, UpdateShaped DEF Kept
    <3>5. QED
        BY <3>3, <3>4
  <2>3. QED
      BY <2>1, <2>2
<1>11. ASSUME NEW d, NEW buf, Write(d, buf) PROVE Kept
  <2>1. CASE \/ ~Attached(d) \/ descriptors[d].mode = "READ_ONLY"
             \/ descriptors[d].offset + Len(buf) > BlockSize * FileMaxBlocks
      BY <1>2, <1>11, <2>1 DEF Write
  <2>2. CASE ~(\/ ~Attached(d) \/ descriptors[d].mode = "READ_ONLY"
               \/ descriptors[d].offset + Len(buf) > BlockSize * FileMaxBlocks)
    <3> DEFINE i == descriptors[d].node_index
               w == Written(i, inodes[i].data_blocks, descriptors[d].offset, buf)
               b == w.data_blocks
               z == IF w.ok THEN descriptors[d].offset + Len(buf) ELSE inodes[i].st_size
    <3>1. /\ inodes' = [inodes EXCEPT ![i] = [inodes[i] EXCEPT !.data_blocks = b, !.st_size = z]]
          /\ UNCHANGED <<names, first>>
        BY <1>11, <2>2 DEF Write
    <3> HIDE DEF i, b, z
    <3>2. i \in DOMAIN inodes => Shaped([inodes[i] EXCEPT !.data_blocks = b, !.st_size = z])
        BY FieldsShaped DEF InodesShaped
    <3>3. QED
        BY <1>3, <3>1, <3>2, UpdateShaped DEF Kept
  <2>3. QED
      BY <2>1, <2>2
<1>12. \A u, n : Stat(u, n) => Kept
    BY <1>2 DEF Stat
<1>13. ASSUME NEW u, NEW n, NEW flag, Open(u, n, flag) PROVE Kept
    BY <1>1, <1>2, <1>13 DEF Open
<1>14. ASSUME NEW d PROVE Close(d) => Kept
    BY <1>1, <1>2 DEF Close
<1>15. ASSUME NEW d, NEW size PROVE (Read(d, size) => Kept) /\ (Seek(d, size) => Kept)
    BY <1>1, <1>2 DEF Read, Seek
<1>16. Crash => Kept
    BY <1>1 DEF Crash, tables
<1>17. CASE NameOperation
    BY <1>5, <1>6, <1>7, <1>8, <1>9, <1>10, <1>12, <1>13, <1>17 DEF NameOperation, Kept
<1>18. CASE FileOperation
    BY <1>11, <1>14, <1>15, <1>18 DEF FileOperation, Kept
<1>19. QED
    BY <1>16, <1>17, <1>18 DEF Next, Kept

LEMMA ShapeStep ==
    ASSUME ShapeInv, Life
    PROVE  ShapeInv'
<1>1. CASE Operate
  <2>1. UNCHANGED <<inodes_file, filenames_file>> /\ Next
      BY <1>1 DEF Operate, files
  <2>2. InodesShaped' /\ FirstNamed(names, first)'
      BY <2>1, OperationShape DEF ShapeInv, InodesShaped
  <2>3. QED
      BY <2>1, <2>2 DEF ShapeInv, InodesShaped
<1>2. CASE Start
  <2>1. /\ inodes' = ParsedInodes(inodes_file) /\ UNCHANGED <<inodes_file, filenames_file>>
        /\ names' = ParsedNames(filenames_file.names) /\ first' = FirstLine(filenames_file.first)
      BY <1>2 DEF Start, files
  <2>2. ASSUME NEW i \in DOMAIN inodes' PROVE Shaped(inodes'[i])
    <3>1. i \in DOMAIN inodes_file /\ Shaped(inodes_file[i])
          /\ inodes'[i] = [inodes_file[i] EXCEPT !.mode = Atoi(inodes_file[i].mode)]
        BY <2>1, <2>2 DEF ParsedInodes, ShapeInv
    <3>2. QED
        BY <3>1, AtoiInt, FieldsShaped DEF Shaped
  <2>3. FirstNamed(names', first')
    <3>1. CASE filenames_file.first \in DOMAIN filenames_file.names
        BY <2>1, <3>1 DEF ParsedNames, FirstNamed
    <3>2. CASE filenames_file.first = NoName
        BY <2>1, <3>2, BrokenAssumption, ArgsAssumption DEF FirstLine, FirstNamed
    <3>3. QED
        BY <3>1, <3>2 DEF ShapeInv, FirstNamed
  <2>4. QED
      BY <2>1, <2>2, <2>3 DEF ShapeInv, FirstNamed
<1>3. CASE LifeNext /\ ~Operate /\ ~Start
  <2>1. UNCHANGED <<inodes, names, first>>
      BY <1>3 DEF LifeNext, EndService, CloseInodeTable, CloseDataBlockTable, CloseFilenameTable, Die,
                  DieWriting, vars, tables
  <2>2. inodes_file' \in {inodes_file, inodes, <<>>}
      BY <1>3 DEF LifeNext, EndService, CloseInodeTable, CloseDataBlockTable, CloseFilenameTable, Die,
                  DieWriting, files
  <2>3. filenames_file' \in {filenames_file, NoFilenames, [names |-> names, first |-> first]}
      BY <1>3 DEF LifeNext, EndService, CloseInodeTable, CloseDataBlockTable, CloseFilenameTable, Die,
                  DieWriting, files
  <2>4. \A i \in DOMAIN inodes_file' : Shaped(inodes_file'[i])
      BY <2>2 DEF ShapeInv
  <2>5. FirstNamed(filenames_file'.names, filenames_file'.first)
      BY <2>3 DEF ShapeInv, FirstNamed, NoFilenames
  <2>6. QED
      BY <2>1, <2>4, <2>5 DEF ShapeInv, FirstNamed
<1>4. CASE UNCHANGED lifeVars
    BY <1>4 DEF lifeVars, vars, tables, files, ShapeInv, FirstNamed
<1>5. QED
    BY <1>1, <1>2, <1>3, <1>4 DEF Life
-----------------------------------------------------------------------------
(* Only a start makes a stopped process run, and it loads what the lines    *)
(* that were saved say.                                                     *)
LEMMA RestartStep ==
    ASSUME SavedInv, ShapeInv, Life, ~up, up', stage = "saved"
    PROVE  Restored
<1>1. Start
    BY DEF Life, LifeNext, Operate, EndService, CloseInodeTable, CloseDataBlockTable,
           CloseFilenameTable, Die, DieWriting, lifeVars, vars
<1>2. inodes_file = inodes /\ blocks_file = blocks
      /\ filenames_file.names = names /\ filenames_file.first = first
    BY DEF SavedInv
<1>3. /\ LinesApart(names) /\ UNCHANGED <<blocks, disk>>
      /\ inodes' = ParsedInodes(inodes)
      /\ names' = ParsedNames(names) /\ first' = FirstLine(first)
    BY <1>1, <1>2 DEF Start
<1>4. DOMAIN inodes' = DOMAIN inodes
    BY <1>3 DEF ParsedInodes
<1>5. ASSUME NEW i \in DOMAIN inodes
      PROVE  /\ inodes'[i] = [inodes[i] EXCEPT !.mode = inodes'[i].mode]
             /\ FitsInt(inodes[i].mode) => inodes'[i] = inodes[i]
  <2>1. Shaped(inodes[i])
      BY DEF ShapeInv
  <2>2. inodes'[i] = [inodes[i] EXCEPT !.mode = Atoi(inodes[i].mode)]
      BY <1>3 DEF ParsedInodes
  <2>3. inodes'[i].mode = Atoi(inodes[i].mode)
      BY <2>1, <2>2 DEF Shaped
  <2>4. ASSUME FitsInt(inodes[i].mode) PROVE inodes'[i] = inodes[i]
    <3>1. Atoi(inodes[i].mode) = inodes[i].mode
        BY <2>1, <2>4, AtoiOfInt DEF Shaped
    <3>2. QED
        BY <2>1, <2>2, <3>1 DEF Shaped
  <2>5. QED
      BY <2>2, <2>3, <2>4
<1>6. ASSUME NEW n \in DOMAIN names \ DOMAIN Broken
      PROVE  n \in DOMAIN names' /\ names'[n] = names[n]
    BY <1>3, <1>6, PlainLines
<1>7. ASSUME DOMAIN names \cap DOMAIN Broken = {}
      PROVE  DOMAIN names' = DOMAIN names /\ first' = first
  <2>1. DOMAIN names' = DOMAIN names
      BY <1>3, <1>7, PlainTable
  <2>2. first \notin DOMAIN Broken
      BY <1>7, BrokenAssumption, ArgsAssumption DEF ShapeInv, FirstNamed
  <2>3. QED
      BY <1>3, <2>1, <2>2 DEF FirstLine
<1>8. QED
    BY <1>3, <1>4, <1>5, <1>6, <1>7 DEF Restored

(* OrderlyRestart for every value of the constants: the orderly end of main *)
(* followed by its start loses nothing but the upper bits of a mode and the *)
(* names with newlines, whatever their lines load as (service.c 223-234 and *)
(* 201-203, inode.c 28-94, 200-206, 903-931, 962).                          *)
THEOREM RestartLosesNothing == LifeSpec => OrderlyRestart
<1>1. SavedInv /\ [LifeNext]_lifeVars => SavedInv'
    BY SavedStep DEF Life
<1>2. ShapeInv /\ [LifeNext]_lifeVars => ShapeInv'
    BY ShapeStep DEF Life
<1>3. SavedInv /\ ShapeInv /\ [LifeNext]_lifeVars =>
          [~up /\ up' /\ stage = "saved" => Restored]_lifeVars
    BY RestartStep DEF Life
<1>4. QED
    BY SavedInit, ShapeInit, <1>1, <1>2, <1>3, PTL DEF LifeSpec, OrderlyRestart

(* No step of the process's life opens a second descriptor to write.        *)
LEMMA LifePreserves ==
    ASSUME WriterInv, Life
    PROVE  WriterInv'
<1>1. CASE Operate
    BY <1>1, StepPreserves DEF Operate
<1>2. CASE Start
    BY <1>2 DEF Start, WriterInv, DescriptorShape, OneWriter
<1>3. CASE ~ (Operate \/ Start)
  <2>1. UNCHANGED descriptors
      BY <1>3 DEF Life, LifeNext, EndService, CloseInodeTable, CloseDataBlockTable,
                  CloseFilenameTable, Die, DieWriting, lifeVars, vars, tables
  <2>2. QED
      BY <2>1, SamePreserves
<1>4. QED
    BY <1>1, <1>2, <1>3

(* OneWriter also across ends, crashes and restarts, which leave no         *)
(* descriptor open: main never loads descriptor_table (service.c 201-203).  *)
THEOREM SingleWriterAlways == LifeSpec => []OneWriter
<1>1. LifeInit => WriterInv
    BY DEF LifeInit, Init, WriterInv, DescriptorShape, OneWriter
<1>2. WriterInv /\ [LifeNext]_lifeVars => WriterInv'
    BY LifePreserves DEF Life
<1>3. WriterInv => OneWriter
    BY DEF WriterInv
<1>4. QED
    BY <1>1, <1>2, <1>3, PTL DEF LifeSpec
-----------------------------------------------------------------------------
\* What is saved would load as tables that agree, with the data file as it is
\* now: the parts of TablesInv, of the files.
SavedNames == filenames_file.names
SavedFirst == filenames_file.first
SavedInodesOK == inodes_file \in [DOMAIN inodes_file -> Inode] /\ DOMAIN inodes_file \subseteq 0 .. MaxIndex
SavedNamesOK ==
    /\ SavedNames \in [DOMAIN SavedNames -> 0 .. MaxIndex] /\ DOMAIN SavedNames \subseteq Names
    /\ IsFiniteSet(DOMAIN SavedNames)
    /\ SavedFirst \in DOMAIN SavedNames \/ (SavedNames = <<>> /\ SavedFirst = NoName)
SavedCounts ==
    /\ \A n \in DOMAIN SavedNames : SavedNames[n] \in DOMAIN inodes_file
    /\ \A i \in DOMAIN inodes_file :
          /\ inodes_file[i].ref_count = Cardinality({n \in DOMAIN SavedNames : SavedNames[n] = i})
          /\ inodes_file[i].ref_count > 0
    /\ SavedFirst # NoName => \A i \in DOMAIN inodes_file : SavedNames[SavedFirst] <= i
SavedExclusive ==
    \A i, j \in DOMAIN inodes_file, b, c \in FileBlocks :
        LET s == inodes_file[i].data_blocks[b]
        IN  s # 0 => /\ blocks_file[s - 1] = [allocated |-> TRUE, inode_index |-> i]
                     /\ inodes_file[j].data_blocks[c] = s => i = j /\ b = c
SavedSlots ==
    /\ blocks_file \in [Slots -> TableEntry]
    /\ \A s \in Slots : blocks_file[s].allocated => s < Len(disk)
SavedPlain == DOMAIN SavedNames \cap DOMAIN Broken = {}
FilesAgree == SavedInodesOK /\ SavedNamesOK /\ SavedCounts /\ SavedExclusive /\ SavedSlots /\ SavedPlain

\* The invariant of main's life.  Between the first and the last save the
\* files are of two ages, and whatever ends the process then leaves torn.
LifeInv ==
    /\ SavedInv
    /\ stage \in {"running", "inodes", "blocks", "filenames", "saved"}
    /\ ~torn => /\ TablesInv
                /\ stage \in {"running", "inodes", "saved"} => FilesAgree
                /\ stage \in {"blocks", "filenames"} => up

(* Initially there are no files and no tables.                              *)
LEMMA LifeInitially == LifeInit => LifeInv
<1> SUFFICES ASSUME LifeInit PROVE LifeInv
    OBVIOUS
<1>1. TablesInv
    BY TablesInit DEF LifeInit
<1>2. FilesAgree
  <2>1. /\ inodes_file = <<>> /\ filenames_file = [names |-> <<>>, first |-> NoName]
        /\ blocks_file = [s \in Slots |-> [allocated |-> FALSE, inode_index |-> 0]]
    BY DEF LifeInit, NoFilenames, FreeBlocks
  <2>2. DOMAIN inodes_file = {} /\ DOMAIN filenames_file.names = {}
    BY <2>1
  <2>3. IsFiniteSet(DOMAIN filenames_file.names)
    BY <2>2, FS_EmptySet
  <2>4. blocks_file \in [Slots -> TableEntry] /\ \A s \in Slots : ~blocks_file[s].allocated
    BY <2>1 DEF TableEntry
  <2>5. /\ inodes_file \in [DOMAIN inodes_file -> Inode] /\ DOMAIN inodes_file \subseteq 0 .. MaxIndex
        /\ filenames_file.names \in [DOMAIN filenames_file.names -> 0 .. MaxIndex]
        /\ DOMAIN filenames_file.names \subseteq Names
        /\ filenames_file.names = <<>> /\ filenames_file.first = NoName
    BY <2>1, <2>2
  <2>6. SavedInodesOK /\ SavedNamesOK
    BY <2>3, <2>5 DEF SavedInodesOK, SavedNamesOK, SavedNames, SavedFirst
  <2>7. SavedCounts /\ SavedExclusive /\ SavedSlots
    BY <2>2, <2>4, <2>5 DEF SavedCounts, SavedExclusive, SavedSlots, SavedNames, SavedFirst
  <2>8. SavedPlain
    BY <2>2 DEF SavedPlain, SavedNames
  <2>9. QED
    BY <2>6, <2>7, <2>8 DEF FilesAgree
<1>3. SavedInv /\ stage = "running"
    BY SavedInit DEF LifeInit
<1>4. QED
    BY <1>1, <1>2, <1>3 DEF LifeInv

(* The files stay as they are and the data file only grows.                 *)
LEMMA FilesStay ==
    ASSUME FilesAgree, UNCHANGED files, Len(disk) \in Nat, Len(disk') \in Nat, Len(disk) <= Len(disk')
    PROVE  FilesAgree'
<1>1. UNCHANGED <<inodes_file, blocks_file, filenames_file>>
    BY DEF files
<1>2. SavedSlots'
  <2>1. \A s \in Slots : s \in Nat
    BY BlocksAssumption DEF Slots
  <2>2. \A s \in Slots : blocks_file[s].allocated => s < Len(disk)
    BY DEF FilesAgree, SavedSlots
  <2>3. \A s \in Slots : blocks_file[s].allocated => s < Len(disk')
    BY <2>1, <2>2
  <2>4. QED
    BY <1>1, <2>3 DEF FilesAgree, SavedSlots
<1>3. SavedInodesOK' /\ SavedNamesOK'
    BY <1>1 DEF FilesAgree, SavedInodesOK, SavedNamesOK, SavedNames, SavedFirst
<1>p. SavedPlain'
    BY <1>1 DEF FilesAgree, SavedPlain, SavedNames
<1>4. SavedCounts' /\ SavedExclusive'
    BY <1>1 DEF FilesAgree, SavedCounts, SavedExclusive, SavedNames, SavedFirst
<1>5. QED
    BY <1>2, <1>3, <1>4, <1>p DEF FilesAgree

(* A step of the worker keeps both the tables and what is saved.            *)
LEMMA OperateKeeps ==
    ASSUME LifeInv, Operate
    PROVE  LifeInv'
<1>1. Next /\ stage = "running" /\ UNCHANGED <<files, stage, torn>>
    BY DEF Operate
<1>2. SavedInv'
    BY SavedStep DEF LifeInv, Life, LifeNext
<1>3. ASSUME ~torn PROVE TablesInv' /\ FilesAgree'
  <2>1. TablesInv /\ FilesAgree
    BY <1>1, <1>3 DEF LifeInv
  <2>2. TablesInv'
    BY <1>1, <2>1, TablesStep
  <2>3. Len(disk) \in Nat /\ Len(disk') \in Nat
    BY <2>1, <2>2 DEF TablesInv, BlocksOK
  <2>4. Len(disk) <= Len(disk')
    BY <1>1, <2>1, StepChanges DEF KeepsBlocks, Writes
  <2>5. QED
    BY <1>1, <2>1, <2>2, <2>3, <2>4, FilesStay
<1>4. QED
    BY <1>1, <1>2, <1>3 DEF LifeInv

(* A kill within a write leaves a longer data file, and no block of a file  *)
(* but the one that is written is another.                                  *)
LEMMA CutFacts ==
    ASSUME NEW db, NEW off, NEW buf, Writable(0, db, off, buf), disk' \in CutShort(db, off, buf)
    PROVE  /\ disk' \in Seq(Block) /\ Len(disk) \in Nat /\ Len(disk') \in Nat
           /\ Len(disk) <= Len(disk') /\ Len(disk') <= NumBlocks
           /\ \A s \in 1 .. Len(disk) : disk'[s] = disk[s] \/ \E b \in FileBlocks : db[b] = s
<1> DEFINE w == Written(0, db, off, buf)
<1>1. WroteDisk(w, db)
    BY WrittenFacts
<1>2. PICK k \in Len(disk) .. Len(w.disk) : disk' = SubSeq(w.disk, 1, k)
    BY DEF CutShort
<1> HIDE DEF w
<1>3. Len(disk) \in Nat /\ Len(w.disk) \in Nat /\ NumBlocks \in Nat
    BY <1>1, BlocksAssumption DEF WroteDisk, Writable
<1>4. k \in Nat /\ Len(disk) <= k /\ k <= NumBlocks /\ \A s \in 1 .. k : w.disk[s] \in Block
    BY <1>1, <1>2, <1>3 DEF WroteDisk
<1>5. /\ SubSeq(w.disk, 1, k) \in Seq(Block) /\ Len(SubSeq(w.disk, 1, k)) = k
      /\ \A s \in 1 .. k : SubSeq(w.disk, 1, k)[s] = w.disk[s]
  <2>1. /\ SubSeq(w.disk, 1, k) \in Seq(Block)
        /\ Len(SubSeq(w.disk, 1, k)) = IF 1 <= k THEN k - 1 + 1 ELSE 0
        /\ \A s \in 1 .. k - 1 + 1 : SubSeq(w.disk, 1, k)[s] = w.disk[1 + s - 1]
      BY <1>4, SubSeqProperties
  <2>2. k - 1 + 1 = k /\ (k = 0 \/ 1 <= k) /\ \A s \in 1 .. k : 1 + s - 1 = s
      BY <1>4
  <2>3. QED
      BY <2>1, <2>2
<1>6. \A s \in 1 .. Len(disk) : s \in 1 .. k /\ (w.disk[s] = disk[s] \/ \E b \in FileBlocks : db[b] = s)
    BY <1>1, <1>3, <1>4 DEF WroteDisk
<1>7. QED
    BY <1>2, <1>3, <1>4, <1>5, <1>6

LEMMA KilledKeeps ==
    ASSUME TablesInv, DieWriting
    PROVE  /\ TablesInv' /\ Len(disk) \in Nat /\ Len(disk') \in Nat /\ Len(disk) <= Len(disk')
           /\ KeepsBlocks \/ \E i : Writes(i)
<1> DEFINE Longer == /\ disk' \in Seq(Block) /\ Len(disk) \in Nat /\ Len(disk') \in Nat
                     /\ Len(disk) <= Len(disk') /\ Len(disk') <= NumBlocks
<1>1. UNCHANGED <<inodes, names, first, stale, lost, descriptors, blocks>> /\ ~up'
    BY DEF DieWriting
<1>2. ASSUME \E d \in DOMAIN descriptors, buf \in Buffers :
               LET off == descriptors[d].offset
               IN  /\ Attached(d) /\ descriptors[d].mode = "WRITE_ONLY"
                   /\ off + Len(buf) <= BlockSize * FileMaxBlocks
                   /\ disk' \in CutShort(inodes[descriptors[d].node_index].data_blocks, off, buf)
      PROVE  Longer /\ (KeepsBlocks \/ \E i : Writes(i))
  <2>1. PICK d, buf, off, i, db :
            /\ d \in DOMAIN descriptors /\ buf \in Buffers
            /\ off = descriptors[d].offset /\ i = descriptors[d].node_index /\ db = inodes[i].data_blocks
            /\ Attached(d) /\ descriptors[d].mode = "WRITE_ONLY"
            /\ off + Len(buf) <= BlockSize * FileMaxBlocks
            /\ disk' \in CutShort(db, off, buf)
      BY <1>2
  <2>2. i \in DOMAIN inodes /\ off \in Nat
      BY <2>1, AttachedFacts
  <2>3. db \in [FileBlocks -> 0 .. NumBlocks]
      BY <2>1, <2>2, BlocksWithin
  <2>4. Writable(0, db, off, buf)
      BY <2>1, <2>2, <2>3, ArgsAssumption DEF Writable, TablesInv, BlocksOK
  <2>5. /\ Longer
        /\ \A s \in 1 .. Len(disk) : disk'[s] = disk[s] \/ \E b \in FileBlocks : db[b] = s
      BY <2>1, <2>4, CutFacts
  <2>6. Writer(i)
      BY <2>1 DEF Writer
  <2>7. Writes(i)
      BY <1>1, <2>1, <2>2, <2>5, <2>6 DEF Writes
  <2>8. QED
      BY <2>5, <2>7
<1>3. ASSUME \E u \in Users, n \in DOMAIN names, new \in Names \ DOMAIN names :
               /\ Searchable(n) /\ Searchable(new) /\ ReadPermitted(u, n)
               /\ LET parent == inodes[names[n]]
                      r == ReadBack(parent.data_blocks, 0, parent.st_size)
                  IN  r.ok /\ disk' \in CutShort([b \in FileBlocks |-> 0], 0, r.data)
      PROVE  Longer /\ (KeepsBlocks \/ \E i : Writes(i))
  <2>1. PICK n, u, pdb, size, r, db :
            /\ n \in DOMAIN names /\ u \in Users /\ ReadPermitted(u, n)
            /\ pdb = inodes[names[n]].data_blocks /\ size = inodes[names[n]].st_size
            /\ r = ReadBack(pdb, 0, size) /\ db = [b \in FileBlocks |-> 0]
            /\ r.ok /\ disk' \in CutShort(db, 0, r.data)
      BY <1>3
  <2>2. names[n] \in DOMAIN inodes
      BY <2>1 DEF ReadPermitted, Resolved
  <2>3. /\ pdb \in [FileBlocks -> 0 .. NumBlocks] /\ size \in Nat
        /\ \A b \in FileBlocks : pdb[b] # 0 => pdb[b] \in 1 .. Len(disk)
      BY <2>1, <2>2, BlocksWithin DEF Inode
  <2>4. r.data \in Seq(Values) /\ Len(r.data) = size /\ 0 + size <= BlockSize * FileMaxBlocks
    <3>1. disk \in Seq(Block) /\ 0 \in Nat
        BY DEF TablesInv, BlocksOK
    <3>2. QED
        BY <2>1, <2>3, <3>1, ReadBackFacts
  <2>5. db \in [FileBlocks -> 0 .. NumBlocks] /\ \A b \in FileBlocks : db[b] = 0
      BY <2>1, BlocksAssumption
  <2>6. Writable(0, db, 0, r.data)
      BY <2>4, <2>5 DEF Writable, TablesInv, BlocksOK
  <2>7. /\ Longer
        /\ \A s \in 1 .. Len(disk) : disk'[s] = disk[s] \/ \E b \in FileBlocks : db[b] = s
      BY <2>1, <2>6, CutFacts
  <2>8. KeepsBlocks
      BY <1>1, <2>5, <2>7 DEF KeepsBlocks
  <2>9. QED
      BY <2>7, <2>8
<1>4. Longer /\ (KeepsBlocks \/ \E i : Writes(i))
    BY <1>2, <1>3 DEF DieWriting
<1>5. BlocksOK'
  <2>1. \A s \in Slots : s \in Nat
      BY BlocksAssumption DEF Slots
  <2>2. \A s \in Slots : blocks[s].allocated => s < Len(disk)
      BY DEF TablesInv, BlocksOK, DataFileCoversSlots
  <2>3. \A s \in Slots : blocks'[s].allocated => s < Len(disk')
      BY <1>1, <1>4, <2>1, <2>2
  <2>4. QED
      BY <1>1, <1>4, <2>3 DEF TablesInv, BlocksOK, DataFileCoversSlots
<1>6. up' = FALSE
    BY <1>1 DEF DieWriting
<1>7. DescriptorsOK' /\ InodesOK' /\ NamesOK' /\ BlocksExclusive' /\ ReferenceCount'
    BY <1>1, PartsSame DEF TablesInv
<1>8. TablesInv'
    BY <1>5, <1>6, <1>7 DEF TablesInv
<1>9. QED
    BY <1>4, <1>8

LEMMA DieWritingKeeps ==
    ASSUME LifeInv, DieWriting
    PROVE  LifeInv'
<1>1. stage = "running" /\ UNCHANGED <<files, stage, torn>>
    BY DEF DieWriting
<1>2. SavedInv'
    BY SavedStep DEF LifeInv, Life, LifeNext
<1>3. ASSUME ~torn PROVE TablesInv' /\ FilesAgree'
  <2>1. TablesInv /\ FilesAgree
    BY <1>1, <1>3 DEF LifeInv
  <2>2. QED
    BY <1>1, <2>1, KilledKeeps, FilesStay
<1>4. QED
    BY <1>1, <1>2, <1>3 DEF LifeInv

(* Tables without newlines load as they were printed, modes aside.          *)
LEMMA ParsedSame ==
    ASSUME NEW f, f \in [DOMAIN f -> 0 .. MaxIndex], DOMAIN f \cap DOMAIN Broken = {}
    PROVE  ParsedNames(f) = f
<1>1. LinesApart(f) /\ DOMAIN ParsedNames(f) = DOMAIN f
    BY PlainTable
<1>2. \A n \in DOMAIN f : ParsedNames(f)[n] = f[n]
    BY <1>1, PlainLines
<1>3. PICK g : g = ParsedNames(f)
    OBVIOUS
<1>4. g = [x \in DOMAIN g |-> g[x]]
    BY <1>3 DEF ParsedNames
<1>5. QED
    BY <1>1, <1>2, <1>3, <1>4

LEMMA ParsedInode ==
    ASSUME NEW v \in Inode, NEW w, w = [v EXCEPT !.mode = Atoi(v.mode)]
    PROVE  w \in Inode /\ w.ref_count = v.ref_count /\ w.data_blocks = v.data_blocks
<1>1. v.mode \in Int
    BY DEF Inode, Mode
<1>2. PICK m : m = Atoi(v.mode)
    OBVIOUS
<1>3. m \in Mode
    BY <1>1, <1>2, AtoiInt DEF Mode
<1>4. QED
    BY <1>2, <1>3, InodeFields

(* What a start loads agrees, because what is saved did.                    *)
LEMMA StartKeeps ==
    ASSUME LifeInv, Start
    PROVE  LifeInv'
<1>1. /\ ~up /\ inodes' = ParsedInodes(inodes_file) /\ blocks' = blocks_file
      /\ names' = ParsedNames(filenames_file.names) /\ first' = FirstLine(filenames_file.first)
      /\ stale' = NoName /\ lost' = FALSE /\ descriptors' = <<>>
      /\ up' = TRUE /\ stage' = "running" /\ UNCHANGED <<disk, files, torn>>
    BY DEF Start
<1>2. SavedInv'
    BY SavedStep DEF LifeInv, Life, LifeNext
<1>3. ASSUME ~torn PROVE TablesInv' /\ FilesAgree'
  <2>1. TablesInv /\ FilesAgree
    BY <1>1, <1>3 DEF LifeInv
  <2>n. names' = filenames_file.names /\ first' = filenames_file.first
    <3>1. names' = filenames_file.names
        BY <1>1, <2>1, ParsedSame DEF FilesAgree, SavedNamesOK, SavedPlain, SavedNames
    <3>2. filenames_file.first \notin DOMAIN Broken
        BY <2>1, BrokenAssumption, ArgsAssumption DEF FilesAgree, SavedNamesOK, SavedPlain, SavedNames, SavedFirst
    <3>3. QED
        BY <1>1, <3>1, <3>2 DEF FirstLine
  <2>i. /\ DOMAIN inodes' = DOMAIN inodes_file
        /\ \A i \in DOMAIN inodes_file :
              /\ inodes'[i] \in Inode /\ inodes'[i].ref_count = inodes_file[i].ref_count
              /\ inodes'[i].data_blocks = inodes_file[i].data_blocks
    <3>1. DOMAIN inodes' = DOMAIN inodes_file
        BY <1>1 DEF ParsedInodes
    <3>2. ASSUME NEW i \in DOMAIN inodes_file
          PROVE  /\ inodes'[i] \in Inode /\ inodes'[i].ref_count = inodes_file[i].ref_count
                 /\ inodes'[i].data_blocks = inodes_file[i].data_blocks
      <4>1. inodes_file[i] \in Inode
          BY <2>1 DEF FilesAgree, SavedInodesOK
      <4>2. inodes'[i] = [inodes_file[i] EXCEPT !.mode = Atoi(inodes_file[i].mode)]
          BY <1>1 DEF ParsedInodes
      <4>3. QED
          BY <4>1, <4>2, ParsedInode
    <3>3. QED
        BY <3>1, <3>2
  <2>2. DOMAIN descriptors' = {}
    BY <1>1
  <2>f. inodes' = [i \in DOMAIN inodes' |-> inodes'[i]]
    BY <1>1 DEF ParsedInodes
  <2>3. InodesOK' /\ DescriptorsOK' /\ up' \in BOOLEAN
    <3>1. DOMAIN inodes' \subseteq 0 .. MaxIndex /\ \A i \in DOMAIN inodes' : inodes'[i] \in Inode
        BY <2>1, <2>i DEF FilesAgree, SavedInodesOK
    <3>2. InodesOK'
        BY <2>f, <3>1 DEF InodesOK
    <3>3. QED
        BY <1>1, <2>2, <3>2 DEF DescriptorsOK
  <2>4. NamesOK'
    BY <1>1, <2>1, <2>n DEF FilesAgree, SavedNamesOK, SavedNames, SavedFirst, NamesOK
  <2>5. BlocksOK'
    BY <1>1, <2>1 DEF FilesAgree, SavedSlots, BlocksOK, TablesInv, DataFileCoversSlots
  <2>6. BlocksExclusive'
    <3>1. SavedExclusive
        BY <2>1 DEF FilesAgree
    <3>2. \A i, j \in DOMAIN inodes', b, c \in FileBlocks :
              LET s == inodes'[i].data_blocks[b]
              IN  s # 0 => /\ blocks'[s - 1] = [allocated |-> TRUE, inode_index |-> i]
                           /\ inodes'[j].data_blocks[c] = s => i = j /\ b = c
        BY <1>1, <2>i, <3>1 DEF SavedExclusive
    <3>3. QED
        BY <3>2 DEF BlocksExclusive, FileBlocks
  <2>7. ReferenceCount'
    <3>1. SavedCounts
        BY <2>1 DEF FilesAgree
    <3>2. /\ \A n \in DOMAIN names' : names'[n] \in DOMAIN inodes'
          /\ \A i \in DOMAIN inodes' :
                /\ inodes'[i].ref_count = Cardinality({n \in DOMAIN names' : names'[n] = i})
                /\ inodes'[i].ref_count > 0
          /\ first' # NoName => \A i \in DOMAIN inodes' : names'[first'] <= i
        BY <2>n, <2>i, <3>1 DEF SavedCounts, SavedNames, SavedFirst
    <3>3. QED
        BY <3>2 DEF ReferenceCount
  <2>8. Len(disk) \in Nat
    BY <2>1 DEF TablesInv, BlocksOK
  <2>9. FilesAgree'
    BY <1>1, <2>1, <2>8, FilesStay
  <2>10. QED
    BY <2>3, <2>4, <2>5, <2>6, <2>7, <2>9 DEF TablesInv
<1>4. QED
    BY <1>1, <1>2, <1>3 DEF LifeInv

(* Saving the tables, whole or interrupted.                                 *)
LEMMA SavingKeeps ==
    ASSUME LifeInv, EndService \/ CloseInodeTable \/ CloseDataBlockTable \/ CloseFilenameTable \/ Die
    PROVE  LifeInv'
<1>1. SavedInv'
    BY SavedStep DEF LifeInv, Life, LifeNext
<1>2. UNCHANGED tables
    BY DEF EndService, CloseInodeTable, CloseDataBlockTable, CloseFilenameTable, Die, vars
<1>3. ASSUME ~torn' PROVE TablesInv'
  <2>1. ~torn
    BY <1>3 DEF EndService, CloseInodeTable, CloseDataBlockTable, CloseFilenameTable, Die
  <2>2. up' \in BOOLEAN
    BY <2>1 DEF EndService, CloseInodeTable, CloseDataBlockTable, CloseFilenameTable, Die, vars, LifeInv, TablesInv
  <2>3. TablesInv
    BY <2>1 DEF LifeInv
  <2>4. QED
    BY <1>2, <2>2, <2>3, TablesSame
<1>4. ~torn => Len(disk) \in Nat
    BY DEF LifeInv, TablesInv, BlocksOK
<1>5. UNCHANGED disk /\ (~torn' => ~torn)
  <2>1. UNCHANGED disk
    BY <1>2 DEF tables
  <2>2. ASSUME ~torn' PROVE ~torn
    BY <2>2 DEF EndService, CloseInodeTable, CloseDataBlockTable, CloseFilenameTable, Die
  <2>3. QED
    BY <2>1, <2>2
<1>6. FilesAgree /\ UNCHANGED files /\ ~torn => FilesAgree'
    BY <1>4, <1>5, FilesStay
<1>7. CASE EndService
  <2>1. stage = "running" /\ stage' = "inodes" /\ UNCHANGED <<files, torn>>
    BY <1>7 DEF EndService
  <2>2. QED
    BY <1>1, <1>3, <1>6, <2>1 DEF LifeInv
<1>8. CASE CloseInodeTable
  <2>1. CASE lost
    BY <1>1, <1>8, <2>1 DEF CloseInodeTable, LifeInv
  <2>2. CASE ~lost
    BY <1>1, <1>3, <1>8, <2>2 DEF CloseInodeTable, LifeInv
  <2>3. QED
    BY <2>1, <2>2
<1>9. CASE CloseDataBlockTable
    BY <1>1, <1>3, <1>9 DEF CloseDataBlockTable, LifeInv, vars
<1>10. CASE CloseFilenameTable
  <2>1. stage = "filenames"
    BY <1>10 DEF CloseFilenameTable
  <2>2. CASE stale # NoName
    BY <1>1, <1>10, <2>1, <2>2 DEF CloseFilenameTable, LifeInv
  <2>3. CASE stale = NoName
    <3>1. /\ filenames_file' = [names |-> names, first |-> first] /\ stage' = "saved"
          /\ UNCHANGED <<inodes_file, blocks_file>>
          /\ torn' = (torn \/ DOMAIN names \cap DOMAIN Broken # {})
        BY <1>10, <2>3 DEF CloseFilenameTable
    <3>2. inodes_file' = inodes /\ blocks_file' = blocks
        BY <2>1, <3>1 DEF LifeInv, SavedInv
    <3>t. ~torn' => ~torn /\ DOMAIN names \cap DOMAIN Broken = {}
        BY <3>1
    <3>3. ASSUME ~torn' PROVE FilesAgree'
      <4>1. TablesInv
        BY <3>3, <3>t DEF LifeInv
      <4>p. SavedPlain'
        BY <3>1, <3>3, <3>t DEF SavedPlain, SavedNames
      <4>2. filenames_file'.names = names /\ filenames_file'.first = first
        BY <3>1
      <4>3. /\ inodes_file' \in [DOMAIN inodes_file' -> Inode] /\ DOMAIN inodes_file' \subseteq 0 .. MaxIndex
            /\ blocks_file' \in [Slots -> TableEntry]
            /\ \A s \in Slots : blocks_file'[s].allocated => s < Len(disk')
        BY <1>5, <3>2, <4>1 DEF TablesInv, InodesOK, BlocksOK, DataFileCoversSlots
      <4>4. /\ names \in [DOMAIN names -> 0 .. MaxIndex] /\ DOMAIN names \subseteq Names
            /\ IsFiniteSet(DOMAIN names)
            /\ first \in DOMAIN names \/ (names = <<>> /\ first = NoName)
        BY <4>1 DEF TablesInv, NamesOK
      <4>5. ReferenceCount /\ BlocksExclusive
        BY <4>1 DEF TablesInv
      <4>6. /\ \A n \in DOMAIN names : names[n] \in DOMAIN inodes
            /\ \A i \in DOMAIN inodes :
                  /\ inodes[i].ref_count = Cardinality({n \in DOMAIN names : names[n] = i})
                  /\ inodes[i].ref_count > 0
            /\ first # NoName => \A i \in DOMAIN inodes : names[first] <= i
        BY <2>3, <4>5 DEF ReferenceCount
      <4>7. SavedInodesOK' /\ SavedNamesOK' /\ SavedSlots'
        BY <4>2, <4>3, <4>4 DEF SavedInodesOK, SavedNamesOK, SavedSlots, SavedNames, SavedFirst
      <4>8. SavedCounts' /\ SavedExclusive'
        BY <3>2, <4>2, <4>5, <4>6 DEF SavedCounts, SavedExclusive, SavedNames, SavedFirst, BlocksExclusive
      <4>9. QED
        BY <4>7, <4>8, <4>p DEF FilesAgree
    <3>4. QED
        BY <1>1, <1>3, <3>1, <3>3 DEF LifeInv
  <2>4. QED
    BY <2>2, <2>3
<1>11. CASE Die
  <2>1. stage' = stage /\ ~up'
    BY <1>11 DEF Die
  <2>2. ASSUME ~torn' PROVE stage \notin {"blocks", "filenames"} /\ UNCHANGED files
    BY <1>11, <2>2 DEF Die, files
  <2>3. QED
    BY <1>1, <1>3, <1>5, <1>6, <2>1, <2>2 DEF LifeInv
<1>12. QED
    BY <1>7, <1>8, <1>9, <1>10, <1>11

(* Every step of the process's life keeps the invariant.                    *)
LEMMA LifeStep ==
    ASSUME LifeInv, Life
    PROVE  LifeInv'
<1>1. CASE LifeNext
    BY <1>1, OperateKeeps, StartKeeps, SavingKeeps, DieWritingKeeps DEF LifeNext
<1>2. CASE UNCHANGED lifeVars
  <2>1. UNCHANGED <<vars, files, stage, torn>>
    BY <1>2 DEF lifeVars
  <2>2. SavedInv'
    BY <1>2, SavedStep DEF LifeInv, Life
  <2>3. ASSUME ~torn PROVE TablesInv' /\ (FilesAgree => FilesAgree')
    <3>1. TablesInv
        BY <2>3 DEF LifeInv
    <3>2. TablesInv'
        BY <2>1, <3>1, TablesStep
    <3>3. UNCHANGED disk /\ Len(disk) \in Nat
        BY <2>1, <3>1 DEF vars, tables, TablesInv, BlocksOK
    <3>4. FilesAgree => FilesAgree'
        BY <2>1, <3>3, FilesStay
    <3>5. QED
        BY <3>2, <3>4
  <2>4. up' = up
    BY <2>1 DEF vars
  <2>5. QED
    BY <2>1, <2>2, <2>3, <2>4 DEF LifeInv
<1>3. QED
    BY <1>1, <1>2 DEF Life

LEMMA LifeInvariance == LifeSpec => []LifeInv
<1>1. LifeInv /\ [LifeNext]_lifeVars => LifeInv'
    BY LifeStep DEF Life
<1>2. QED
    BY LifeInitially, <1>1, PTL DEF LifeSpec

(* ConsistentAfterCrash for every value of the constants: tables loaded     *)
(* from files older than the data file still fit it, since slots never move *)
(* and the data file never shrinks (service.c 201-203, 227-230, inode.c     *)
(* 794).                                                                    *)
THEOREM LoadedTablesAgree == LifeSpec => []ConsistentAfterCrash
<1>1. LifeInv => ConsistentAfterCrash
    BY TablesImply DEF LifeInv, ConsistentAfterCrash
<1>2. QED
    BY LifeInvariance, <1>1, PTL

(* While a saved file has its blocks only its writer changes what is saved. *)
LEMMA SavedKept ==
    ASSUME LifeInv, Life, ~torn, up, NEW i \in DOMAIN inodes_file \cap DOMAIN inodes,
           inodes[i].data_blocks = inodes_file[i].data_blocks, inodes_file' = inodes_file,
           SavedContents(i)' # SavedContents(i)
    PROVE  Writer(i)
<1>1. TablesInv
    BY DEF LifeInv
<1>2. SUFFICES ASSUME ~Writer(i)
               PROVE  \A b \in FileBlocks : inodes[i].data_blocks[b] # 0 =>
                          disk'[inodes[i].data_blocks[b]] = disk[inodes[i].data_blocks[b]]
  <2>1. PICK b \in {c \in FileBlocks : inodes_file[i].data_blocks[c] # 0} :
            disk'[inodes_file[i].data_blocks[b]] # disk[inodes_file[i].data_blocks[b]]
    BY DEF SavedContents
  <2>2. QED
    BY <1>2, <2>1
<1>3. CASE UNCHANGED disk
    BY <1>3
<1>4. CASE Operate \/ DieWriting
  <2>1. KeepsBlocks \/ \E j : Writes(j)
    BY <1>1, <1>4, StepChanges, KilledKeeps DEF Operate
  <2>2. CASE KeepsBlocks
    BY <1>1, <2>2, BlocksWithin DEF KeepsBlocks
  <2>3. CASE \E j : Writes(j)
    <3>1. PICK j : Writes(j)
        BY <2>3
    <3>2. j # i
        BY <1>2, <3>1 DEF Writes
    <3>3. QED
        BY <1>1, <3>1, <3>2, BlocksOfOthers
  <2>4. QED
    BY <2>1, <2>2, <2>3
<1>5. CASE ~(Operate \/ DieWriting)
  <2>1. UNCHANGED disk
    BY <1>5 DEF Life, LifeNext, EndService, CloseInodeTable, CloseDataBlockTable,
                CloseFilenameTable, Die, Start, lifeVars, vars, tables
  <2>2. QED
    BY <1>3, <2>1
<1>6. QED
    BY <1>4, <1>5

(* SavedDataKept for every value of the constants: between two saves no     *)
(* other file's writes reach the data that a crash would bring back         *)
(* (write_inode, inode.c 304-313, occupy_block_table_slot, 794-805).        *)
THEOREM SavedDataOfWriter == LifeSpec => SavedDataKept
<1>1. LifeInv /\ [LifeNext]_lifeVars =>
          [~torn /\ up =>
              \A i \in DOMAIN inodes_file \cap DOMAIN inodes :
                 /\ inodes[i].data_blocks = inodes_file[i].data_blocks
                 /\ inodes_file' = inodes_file
                 /\ SavedContents(i)' # SavedContents(i)
                 => Writer(i)]_lifeVars
    BY SavedKept DEF Life
<1>2. QED
    BY LifeInvariance, <1>1, PTL DEF LifeSpec, SavedDataKept
=============================================================================
