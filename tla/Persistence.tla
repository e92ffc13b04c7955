----------------------------- MODULE Persistence -----------------------------
(***************************************************************************)
(* The life of the service process around its tables: main loads the       *)
(* inode, data block and filename tables, the worker operates on them      *)
(* (FileSystem), and once both threads have ended main saves them, one     *)
(* file after another.  Nothing is saved before; an exit, a crash or a     *)
(* kill leaves the files as they were, while the data file has been        *)
(* written all along.                                                      *)
(*                                                                         *)
(* A table file is represented by the table that was printed to it, a      *)
(* missing file by an empty one; what loading makes of the lines is Start. *)
(* fopen "w" empties the file, and what is printed reaches it with fclose  *)
(* (tables within one stdio buffer).  After the process is gone the        *)
(* variables of FileSystem other than disk keep the values its memory had  *)
(* last: history, until the next start.                                    *)
(***************************************************************************)
EXTENDS FileSystem

\* A name is printed as it is, and nothing keeps a newline out of it.
CONSTANTS
    Unreadable,   \* names some line of which main crashes on: one that lacks
                  \* a number or a name, as the line of the name "" does
    Broken        \* the other names with newlines: what their lines load as,
                  \* [first |-> name, later |-> the numbers of more names]

PlainNames == Names \ (Unreadable \cup DOMAIN Broken)

ASSUME BrokenAssumption ==
    /\ DOMAIN Broken \subseteq Names \ Unreadable
    /\ \A n \in DOMAIN Broken : /\ Broken[n].first \in PlainNames
                                /\ DOMAIN Broken[n].later \subseteq PlainNames
ASSUME IntAssumption == UnsignedRange % 2 = 0

VARIABLES
    inodes_file,      \* the file "inodes"
    blocks_file,      \* the file "data-blocks"
    filenames_file,   \* the file "filenames": [names, first]
    stage,            \* what main does: "running", the file it saves, "saved"
    torn              \* a save was interrupted and left files of two ages, or
                      \* it printed a name with a newline

files == <<inodes_file, blocks_file, filenames_file>>
lifeVars == <<vars, files, stage, torn>>

FreeBlocks == [s \in Slots |-> [allocated |-> FALSE, inode_index |-> 0]]
NoFilenames == [names |-> <<>>, first |-> NoName]

\* atoi: the lower bits of a long, as an int.
Atoi(m) == ((m + UnsignedRange \div 2) % UnsignedRange) - UnsignedRange \div 2
FitsInt(m) == - UnsignedRange <= 2 * m /\ 2 * m < UnsignedRange

\* The lines of a name: the name after its number, and what more lines say.
FirstLine(n) == IF n \in DOMAIN Broken THEN Broken[n].first ELSE n
LaterLines(n) == IF n \in DOMAIN Broken THEN Broken[n].later ELSE <<>>

\* No two of the lines that are printed for the names of f have one name.
LinesApart(f) ==
    \A m, n \in DOMAIN f :
        /\ FirstLine(m) \notin DOMAIN LaterLines(n)
        /\ m # n => /\ FirstLine(m) # FirstLine(n)
                    /\ DOMAIN LaterLines(m) \cap DOMAIN LaterLines(n) = {}

\* open_inode_table and open_filename_table.
ParsedInodes(f) == [i \in DOMAIN f |-> [f[i] EXCEPT !.mode = Atoi(@)]]
ParsedNames(f) ==
    [x \in {FirstLine(n) : n \in DOMAIN f} \cup UNION {DOMAIN LaterLines(n) : n \in DOMAIN f} |->
        LET n == CHOOSE m \in DOMAIN f : FirstLine(m) = x \/ x \in DOMAIN LaterLines(m)
        IN  IF FirstLine(n) = x THEN f[n] ELSE LaterLines(n)[x]]

LifeInit ==
    /\ Init
    /\ inodes_file = <<>> /\ blocks_file = FreeBlocks /\ filenames_file = NoFilenames
    /\ stage = "running"
    /\ torn = FALSE
-----------------------------------------------------------------------------
\* Variant: an operation saves the data block table at once.
OperateSavingBlocks ==
    /\ stage = "running"
    /\ Next
    /\ blocks_file' = blocks'
    /\ UNCHANGED <<inodes_file, filenames_file, stage, torn>>

\* The worker serves a request, or crashes in it.
Operate ==
    /\ stage = "running"
    /\ Next
    /\ UNCHANGED <<files, stage, torn>>

\* main has joined both threads.
EndService ==
    /\ up /\ stage = "running"
    /\ stage' = "inodes"
    /\ UNCHANGED <<vars, files, torn>>

\* close_inode_table empties the file before it walks the list, which begins
\* with a freed node when the first inode was removed.
CloseInodeTable ==
    /\ up /\ stage = "inodes"
    /\ IF lost THEN inodes_file' = <<>> /\ up' = FALSE /\ torn' = TRUE /\ UNCHANGED stage
       ELSE inodes_file' = inodes /\ stage' = "blocks" /\ UNCHANGED <<up, torn>>
    /\ UNCHANGED <<tables, reply, blocks_file, filenames_file>>

\* close_data_block_table; the descriptors are dropped before.
CloseDataBlockTable ==
    /\ up /\ stage = "blocks"
    /\ blocks_file' = blocks
    /\ stage' = "filenames"
    /\ UNCHANGED <<vars, inodes_file, filenames_file, torn>>

\* close_filename_table, whose list begins with a freed node when the first
\* name was removed; then main exits.
CloseFilenameTable ==
    /\ up /\ stage = "filenames"
    /\ up' = FALSE
    /\ IF stale # NoName
       THEN filenames_file' = NoFilenames /\ torn' = TRUE /\ UNCHANGED stage
       ELSE /\ filenames_file' = [names |-> names, first |-> first] /\ stage' = "saved"
            /\ torn' = (torn \/ DOMAIN names \cap DOMAIN Broken # {})
    /\ UNCHANGED <<tables, reply, inodes_file, blocks_file>>

\* The process exits on an error or is killed; the file it is saving may have
\* been emptied.
Die ==
    /\ up
    /\ up' = FALSE
    /\ inodes_file' \in {inodes_file} \cup (IF stage = "inodes" THEN {<<>>} ELSE {})
    /\ blocks_file' \in {blocks_file} \cup (IF stage = "blocks" THEN {FreeBlocks} ELSE {})
    /\ filenames_file' \in {filenames_file} \cup (IF stage = "filenames" THEN {NoFilenames} ELSE {})
    /\ torn' = (torn \/ stage \in {"blocks", "filenames"} \/ inodes_file' # inodes_file)
    /\ UNCHANGED <<tables, reply, stage>>

\* What a write of buf at off into the blocks db leaves in the data file when it
\* is killed: each block is written and closed on its own.
CutShort(db, off, buf) ==
    LET w == Written(0, db, off, buf)
    IN  {SubSeq(w.disk, 1, k) : k \in Len(disk) .. Len(w.disk)}

\* The process is killed in a write, or in the copy of a symlink.
DieWriting ==
    /\ up /\ stage = "running" /\ ~lost
    /\ \/ \E d \in DOMAIN descriptors, buf \in Buffers :
             LET off == descriptors[d].offset
             IN  /\ Attached(d) /\ descriptors[d].mode = "WRITE_ONLY"
                 /\ off + Len(buf) <= BlockSize * FileMaxBlocks
                 /\ disk' \in CutShort(inodes[descriptors[d].node_index].data_blocks, off, buf)
       \/ \E u \in Users, n \in DOMAIN names, new \in Names \ DOMAIN names :
             /\ Searchable(n) /\ Searchable(new) /\ ReadPermitted(u, n)
             /\ LET parent == inodes[names[n]]
                    r == ReadBack(parent.data_blocks, 0, parent.st_size)
                IN  r.ok /\ disk' \in CutShort([b \in FileBlocks |-> 0], 0, r.data)
    /\ up' = FALSE
    /\ UNCHANGED <<inodes, names, first, stale, lost, descriptors, blocks, reply, files, stage, torn>>

\* Variant: open_data_block_table clears the table after it has read it.
StartBlocksCleared ==
    /\ ~up
    /\ DOMAIN filenames_file.names \cap Unreadable = {}
    /\ LinesApart(filenames_file.names)
    /\ inodes' = ParsedInodes(inodes_file) /\ blocks' = FreeBlocks
    /\ names' = ParsedNames(filenames_file.names) /\ first' = FirstLine(filenames_file.first)
    /\ stale' = NoName /\ lost' = FALSE /\ descriptors' = <<>>
    /\ up' = TRUE /\ reply' = NoReply
    /\ stage' = "running"
    /\ UNCHANGED <<disk, files, torn>>

\* main loads the tables.  Their nodes are appended in the order of the lines,
\* so the first name's line is first again; no descriptor is open.  Bound: no
\* two lines have one name (LinesApart).
Start ==
    /\ ~up
    /\ DOMAIN filenames_file.names \cap Unreadable = {}
    /\ LinesApart(filenames_file.names)
    /\ inodes' = ParsedInodes(inodes_file) /\ blocks' = blocks_file
    /\ names' = ParsedNames(filenames_file.names) /\ first' = FirstLine(filenames_file.first)
    /\ stale' = NoName /\ lost' = FALSE /\ descriptors' = <<>>
    /\ up' = TRUE /\ reply' = NoReply
    /\ stage' = "running"
    /\ UNCHANGED <<disk, files, torn>>

LifeNext ==
    \/ Operate
    \/ EndService \/ CloseInodeTable \/ CloseDataBlockTable \/ CloseFilenameTable
    \/ Die \/ DieWriting
    \/ Start

LifeSpec == LifeInit /\ [][LifeNext]_lifeVars
-----------------------------------------------------------------------------
\* What is still there: the blocks and the data file, every inode but for a mode
\* that is no int, every name without a newline, and no other name unless a
\* newline was printed.
Restored ==
    /\ <<blocks, disk>>' = <<blocks, disk>>
    /\ DOMAIN inodes' = DOMAIN inodes
    /\ \A i \in DOMAIN inodes :
          /\ inodes'[i] = [inodes[i] EXCEPT !.mode = inodes'[i].mode]
          /\ FitsInt(inodes[i].mode) => inodes'[i] = inodes[i]
    /\ \A n \in DOMAIN names \ DOMAIN Broken : n \in DOMAIN names' /\ names'[n] = names[n]
    /\ DOMAIN names \cap DOMAIN Broken = {} => DOMAIN names' = DOMAIN names /\ first' = first

\* OrderlyRestart: after main has saved everything, the next start brings back
\* all that the text of the tables can hold, what was answered last included
\* (main, service.c 223-234 and 201-203; inode.c 50, 200-206, 909-914, 962).
OrderlyRestart == [][~up /\ up' /\ stage = "saved" => Restored]_lifeVars

\* ConsistentAfterCrash: unless a save was interrupted, or a name with a newline
\* was saved, the tables that main loads agree with each other and with the data
\* file, also when they are older than the data, which a kill may have cut short
\* in a write: names with inodes, inodes with blocks, blocks with the length of
\* the file (service.c 201-203, 227-230, inode.c 794).
ConsistentAfterCrash ==
    up /\ ~torn => ReferenceCount /\ BlocksExclusive /\ DataFileCoversSlots

\* What a crash would bring back of inode i.
SavedContents(i) ==
    [c \in {b \in FileBlocks : inodes_file[i].data_blocks[b] # 0} |->
        disk[inodes_file[i].data_blocks[c]]]

\* SavedDataKept: as long as a saved file still has its blocks, what a crash
\* would bring back of it is changed by its own writer only, in a write that is
\* killed too (write_inode, inode.c 304-313, occupy_block_table_slot, 794-805).
SavedDataKept ==
    [][~torn /\ up =>
          \A i \in DOMAIN inodes_file \cap DOMAIN inodes :
             /\ inodes[i].data_blocks = inodes_file[i].data_blocks
             /\ inodes_file' = inodes_file
             /\ SavedContents(i)' # SavedContents(i)
             => Writer(i)]_lifeVars
=============================================================================
