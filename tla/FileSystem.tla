------------------------------ MODULE FileSystem ------------------------------
(***************************************************************************)
(* The file system inside the service: the inode, filename, descriptor and *)
(* data block tables and the data file, and the twelve operations the      *)
(* worker thread runs on them one at a time (service_* in operations.c and *)
(* the functions of inode.c they call).  One action is one operation, from *)
(* the arguments in the request to the status in the answer.               *)
(*                                                                         *)
(* The linked tables append at the tail and number a new node one above    *)
(* the tail's number, so a table is a function from numbers to nodes, its  *)
(* head at the least number and its tail at the greatest.  The filename    *)
(* table is a function from names, of which only the head matters: when    *)
(* unlink removes a head, filename_table (or inode_table) keeps pointing   *)
(* to the freed node.  A freed filename node still shows its name, since   *)
(* free overwrites only the links before it; whatever follows those links, *)
(* and any use of a freed inode, is a crash.                               *)
(*                                                                         *)
(* Offsets and sizes count units of which a block holds BlockSize; a unit  *)
(* holds one of Values.  Times and file types are left out.                *)
(***************************************************************************)
EXTENDS Permissions, Sequences, FiniteSets

CONSTANTS
    Names, NoName,   \* file names
    Users,           \* callers: [uid, gid]
    Modes,           \* bound: the modes callers ask for
    UnsignedRange,   \* UINT_MAX + 1
    Values, Zero,    \* contents of a unit; Zero pads a new block
    BlockSize,       \* DATA_BLOCK_ALLOC_SIZE
    NumBlocks,       \* NUM_OF_DATA_BLOCKS
    FileMaxBlocks,   \* FILE_MAX_BLOCKS
    Buffers,         \* bound: the data callers write
    Sizes,           \* bound: sizes callers read, offsets they seek
    MaxIndex,        \* bound: greatest inode number
    MaxDesc          \* bound: greatest descriptor

ASSUME BlocksAssumption ==
    BlockSize \in Nat \ {0} /\ NumBlocks \in Nat \ {0} /\ FileMaxBlocks \in Nat \ {0}
ASSUME ArgsAssumption ==
    /\ NoName \notin Names /\ Zero \in Values
    /\ Modes \subseteq Mode /\ UnsignedRange \in Nat \ {0}
    /\ Buffers \subseteq Seq(Values) /\ Sizes \subseteq Nat /\ MaxIndex \in Nat /\ MaxDesc \in Nat

VARIABLES
    inodes,       \* inode_table
    names,        \* filename_table: the inode number of each name
    first,        \* name in the head node of filename_table
    stale,        \* that name once the node is freed, or NoName
    lost,         \* inode_table points to a freed inode
    descriptors,  \* descriptor_table
    blocks,       \* data_block_table, by slot
    disk,         \* the data file, as far as some slot can refer to it
    reply,        \* the last answer: its request, status, and data of a read
    up            \* the process has not crashed

tables == <<inodes, names, first, stale, lost, descriptors, blocks, disk>>
vars == <<tables, reply, up>>

Slots == 0 .. NumBlocks - 1
FileBlocks == 0 .. FileMaxBlocks - 1
Block == [0 .. BlockSize - 1 -> Values]
Inode == [owner : {u.uid : u \in Users}, owner_group : {u.gid : u \in Users},
          mode : Mode, ref_count : Nat, st_size : Nat,
          data_blocks : [FileBlocks -> 0 .. NumBlocks]]
Descriptor == [node_index : Nat, mode : {"READ_ONLY", "WRITE_ONLY"}, offset : Nat]
TableEntry == [allocated : BOOLEAN, inode_index : Nat]

Least(a, b) == IF a < b THEN a ELSE b
\* The number of the node appended to a table with these numbers.
NextNumber(S) == IF S = {} THEN 0 ELSE (CHOOSE m \in S : \A k \in S : k <= m) + 1

\* A function with one more argument, and one with one less.
With(f, k, v) == [x \in DOMAIN f \cup {k} |-> IF x = k THEN v ELSE f[x]]
Without(f, k) == [x \in DOMAIN f \ {k} |-> f[x]]
-----------------------------------------------------------------------------
NoReply == [request |-> <<>>, status |-> "SUCCESS", data |-> <<>>]

Init ==
    /\ inodes = <<>> /\ names = <<>> /\ descriptors = <<>>
    /\ first = NoName /\ stale = NoName /\ lost = FALSE
    /\ blocks = [s \in Slots |-> [allocated |-> FALSE, inode_index |-> 0]]
    /\ disk = <<>>
    /\ reply = NoReply
    /\ up = TRUE

\* The process is there and the handler ends by sending its answer.
Answer(request, status) ==
    /\ up
    /\ reply' = [request |-> request, status |-> status, data |-> <<>>]
    /\ UNCHANGED up

\* The operation fails before it has changed anything.
Refuse(request, status) == Answer(request, status) /\ UNCHANGED tables

\* A search of filename_table for n stays in memory that is not freed.
Searchable(n) == stale = NoName \/ n = stale

\* get_inode_index_for_filename leaves node_index 0 when there is no such
\* name; chmod, unlink and symlink look at its result, the other callers
\* compare it with -1, which it never is.
Resolved(n) == IF n \in DOMAIN names THEN names[n] ELSE 0

\* get_file_owner_group_permissions and the checks after it: a missing inode
\* counts as one of user 0, group 0 and mode 0, which nobody may use.
ReadPermitted(u, n) ==
    LET i == Resolved(n)
    IN  i \in DOMAIN inodes /\ MayRead(Class(u, inodes[i]), inodes[i].mode)
WritePermitted(u, n) ==
    LET i == Resolved(n)
    IN  i \in DOMAIN inodes /\ MayWrite(Class(u, inodes[i]), inodes[i].mode)

\* add_filename_to_table on a name that is not taken.
AddName(n, i) ==
    /\ names' = With(names, n, i)
    /\ first' = IF names = <<>> THEN n ELSE first

NewInode(u, mode, refs) ==
    [owner |-> u.uid, owner_group |-> u.gid, mode |-> mode, ref_count |-> refs,
     st_size |-> 0, data_blocks |-> [b \in FileBlocks |-> 0]]
-----------------------------------------------------------------------------
\* service_create.
Create(u, n, mode) ==
    /\ Searchable(n)
    /\ IF n \in DOMAIN names THEN Refuse(<<"create", u, n, mode>>, "FILENAME_TAKEN")
       ELSE LET i == NextNumber(DOMAIN inodes)
            IN  /\ ~lost /\ i <= MaxIndex
                /\ inodes' = With(inodes, i, NewInode(u, mode, 1))
                /\ AddName(n, i)
                /\ Answer(<<"create", u, n, mode>>, "SUCCESS")
                /\ UNCHANGED <<stale, lost, descriptors, blocks, disk>>

\* service_rename: the handler looks for status -2, and so reports a name
\* that is taken as FAILURE.
Rename(old, new) ==
    /\ Searchable(new)
    /\ IF new \in DOMAIN names \/ old \notin DOMAIN names THEN Refuse(<<"rename", old, new>>, "FAILURE")
       ELSE /\ names' = With(Without(names, old), new, names[old])
            /\ first' = IF first = old THEN new ELSE first
            /\ Answer(<<"rename", old, new>>, "SUCCESS")
            /\ UNCHANGED <<inodes, stale, lost, descriptors, blocks, disk>>

\* service_chmode: chmod_inode takes the mode as an unsigned.
Chmode(u, n, mode) ==
    /\ Searchable(n) /\ ~lost
    /\ IF ~WritePermitted(u, n) THEN Refuse(<<"chmode", u, n, mode>>, "INSUFFICIENT_PERMS")
       ELSE IF n \notin DOMAIN names THEN Refuse(<<"chmode", u, n, mode>>, "FILE_NOT_FOUND")
       ELSE /\ inodes' = [inodes EXCEPT ![names[n]] = [@ EXCEPT !.mode = mode % UnsignedRange]]
            /\ Answer(<<"chmode", u, n, mode>>, "SUCCESS")
            /\ UNCHANGED <<names, first, stale, lost, descriptors, blocks, disk>>

\* service_stat: it changes access times only.
Stat(u, n) ==
    /\ Searchable(n) /\ ~lost
    /\ IF ReadPermitted(u, n) THEN Refuse(<<"stat", u, n>>, "SUCCESS")
       ELSE Refuse(<<"stat", u, n>>, "INSUFFICIENT_PERMS")

\* service_link.
Link(u, n, new) ==
    /\ Searchable(n) /\ ~lost
    /\ IF ~ReadPermitted(u, n) THEN Refuse(<<"link", u, n, new>>, "INSUFFICIENT_PERMS")
       ELSE /\ Searchable(new)
            /\ IF new \in DOMAIN names THEN Refuse(<<"link", u, n, new>>, "FILENAME_TAKEN")
               ELSE LET i == Resolved(n)
                    IN  /\ inodes' = [inodes EXCEPT ![i].ref_count = @ + 1]
                        /\ AddName(new, i)
                        /\ Answer(<<"link", u, n, new>>, "SUCCESS")
                        /\ UNCHANGED <<stale, lost, descriptors, blocks, disk>>
-----------------------------------------------------------------------------
BlocksFor(units) == units \div BlockSize + IF units % BlockSize = 0 THEN 0 ELSE 1

\* What an update of the block at off takes of size units, and a variant that
\* takes a block's worth wherever in the block it starts.
InPlaceWhole(off, size) == Least(size, BlockSize)
InPlace(off, size) == Least(size, BlockSize - (off % BlockSize))

FreeSlots == {s \in Slots : ~blocks[s].allocated}
\* Variant: it takes the highest.
KthFreeFromTop(k) == CHOOSE s \in FreeSlots : Cardinality({t \in FreeSlots : t > s}) = k
\* occupy_block_table_slot takes the lowest free slot: the k-th call of a write.
KthFree(k) == CHOOSE s \in FreeSlots : Cardinality({t \in FreeSlots : t < s}) = k

\* write_inode: buf goes to offset off of a file with the blocks db of inode i.
\* A first block that the file has is updated in place; each block after it
\* is a new one, filled from its start, also where the file has a block.  A
\* new block is appended to the data file, whatever its slot (fopen "a+").
Written(i, db, off, buf) ==
    LET size == Len(buf)
        cur == off \div BlockSize
        hit == cur < BlocksFor(off + size) /\ db[cur] # 0
        inplace == IF hit THEN InPlace(off, size) ELSE 0
        start == IF hit THEN cur + 1 ELSE cur
        wanted == BlocksFor(off + size) - start
        got == Least(wanted, Cardinality(FreeSlots))
        slot == [k \in 0 .. got - 1 |-> KthFree(k)]
        part(k) == [x \in 0 .. BlockSize - 1 |->
                       LET p == inplace + k * BlockSize + x
                       IN  IF p < size THEN buf[p + 1] ELSE Zero]
        updated == [b \in DOMAIN disk |->
                       IF hit /\ b = db[cur]
                       THEN [x \in 0 .. BlockSize - 1 |->
                                LET p == x - (off % BlockSize)
                                IN  IF p \in 0 .. inplace - 1 THEN buf[p + 1] ELSE disk[b][x]]
                       ELSE disk[b]]
        appended == updated \o [k \in 1 .. got |-> part(k - 1)]
    IN  [ok |-> got = wanted,
         data_blocks |-> [b \in FileBlocks |->
                             IF b \in start .. start + got - 1 THEN slot[b - start] + 1 ELSE db[b]],
         blocks |-> [s \in Slots |->
                        IF \E k \in DOMAIN slot : slot[k] = s
                        THEN [allocated |-> TRUE, inode_index |-> i] ELSE blocks[s]],
         disk |-> SubSeq(appended, 1, Least(Len(appended), NumBlocks))]

\* read_inode: it stops at the first block the file does not have, with the
\* offset at its start; nothing compares the offset with st_size.
ReadBack(db, off, size) ==
    LET cur == off \div BlockSize
        missing == {b \in cur .. BlocksFor(off + size) - 1 : db[b] = 0}
        stop == CHOOSE b \in missing : \A c \in missing : b <= c
        unit(p) == disk[db[p \div BlockSize]][p % BlockSize]
    IN  IF off + size > BlockSize * FileMaxBlocks
        THEN [ok |-> FALSE, offset |-> off, data |-> <<>>]
        ELSE IF size > 0 /\ missing # {}
        THEN [ok |-> FALSE, data |-> <<>>,
              offset |-> IF stop = cur THEN off ELSE stop * BlockSize]
        ELSE [ok |-> TRUE, offset |-> off + size, data |-> [k \in 1 .. size |-> unit(off + k - 1)]]

\* service_symlink: the new inode gets the mode the caller asks for and a copy
\* of the data.  When the copy fails the name and the inode stay.
Symlink(u, n, new, mode) ==
    /\ Searchable(n) /\ ~lost
    /\ IF ~ReadPermitted(u, n) THEN Refuse(<<"symlink", u, n, new, mode>>, "INSUFFICIENT_PERMS")
       ELSE IF n \notin DOMAIN names THEN Refuse(<<"symlink", u, n, new, mode>>, "FILE_NOT_FOUND")
       ELSE /\ Searchable(new)
            /\ IF new \in DOMAIN names THEN Refuse(<<"symlink", u, n, new, mode>>, "FILENAME_TAKEN")
               ELSE LET parent == inodes[names[n]]
                        i == NextNumber(DOMAIN inodes)
                        child == NewInode(u, mode, 1)
                        r == ReadBack(parent.data_blocks, 0, parent.st_size)
                        w == Written(i, child.data_blocks, 0, r.data)
                    IN  /\ i <= MaxIndex
                        /\ inodes' = With(inodes, i,
                              IF ~r.ok THEN child
                              ELSE [child EXCEPT !.data_blocks = w.data_blocks,
                                                 !.st_size = IF w.ok THEN parent.st_size ELSE 0])
                        /\ blocks' = IF r.ok THEN w.blocks ELSE blocks
                        /\ disk' = IF r.ok THEN w.disk ELSE disk
                        /\ AddName(new, i)
                        /\ Answer(<<"symlink", u, n, new, mode>>, IF r.ok /\ w.ok THEN "SUCCESS" ELSE "FAILURE")
                        /\ UNCHANGED <<stale, lost, descriptors>>
-----------------------------------------------------------------------------
\* Variant: the check takes the number of the inode for that of a descriptor.
WriterByNumber(i) == i \in DOMAIN descriptors /\ descriptors[i].mode = "WRITE_ONLY"

\* look_for_opened_write.
Writer(i) == \E d \in DOMAIN descriptors :
                 descriptors[d].node_index = i /\ descriptors[d].mode = "WRITE_ONLY"

\* service_open.
Open(u, n, flag) ==
    /\ Searchable(n) /\ ~lost
    /\ IF flag \notin {"READ_ONLY", "WRITE_ONLY"} THEN Refuse(<<"open", u, n, flag>>, "FAILURE")
       ELSE IF \/ flag = "READ_ONLY" /\ ~ReadPermitted(u, n)
               \/ flag = "WRITE_ONLY" /\ ~WritePermitted(u, n)
       THEN Refuse(<<"open", u, n, flag>>, "INSUFFICIENT_PERMS")
       ELSE IF Writer(Resolved(n)) THEN Refuse(<<"open", u, n, flag>>, "DOUBLE_WRITE")
       ELSE LET d == NextNumber(DOMAIN descriptors)
            IN  /\ d <= MaxDesc
                /\ descriptors' = With(descriptors, d,
                      [node_index |-> Resolved(n), mode |-> flag, offset |-> 0])
                /\ Answer(<<"open", u, n, flag>>, "SUCCESS")
                /\ UNCHANGED <<inodes, names, first, stale, lost, blocks, disk>>

\* service_close.
Close(d) ==
    IF d \notin DOMAIN descriptors THEN Refuse(<<"close", d>>, "FAILURE")
    ELSE /\ descriptors' = Without(descriptors, d)
         /\ Answer(<<"close", d>>, "SUCCESS")
         /\ UNCHANGED <<inodes, names, first, stale, lost, blocks, disk>>

\* The inode of an open descriptor is still in the table.
Attached(d) == d \in DOMAIN descriptors /\ descriptors[d].node_index \in DOMAIN inodes

\* service_write: when a block cannot be allocated, those before it stay.
Write(d, buf) ==
    /\ d \in DOMAIN descriptors /\ descriptors[d].mode = "WRITE_ONLY" => ~lost
    /\ IF \/ ~Attached(d)
          \/ descriptors[d].mode = "READ_ONLY"
          \/ descriptors[d].offset + Len(buf) > BlockSize * FileMaxBlocks
       THEN Refuse(<<"write", d, buf>>, "FAILURE")
       ELSE LET off == descriptors[d].offset
                i == descriptors[d].node_index
                w == Written(i, inodes[i].data_blocks, off, buf)
                end == off + Len(buf)
            IN  /\ inodes' = [inodes EXCEPT ![i] =
                      [@ EXCEPT !.data_blocks = w.data_blocks,
                                !.st_size = IF w.ok THEN end ELSE inodes[i].st_size]]
                /\ descriptors' = [descriptors EXCEPT ![d] =
                      [@ EXCEPT !.offset = IF w.ok THEN end ELSE off]]
                /\ blocks' = w.blocks
                /\ disk' = w.disk
                /\ Answer(<<"write", d, buf>>, IF w.ok THEN "SUCCESS" ELSE "FAILURE")
                /\ UNCHANGED <<names, first, stale, lost>>

\* service_read: any descriptor may read, one opened to write included.
Read(d, size) ==
    /\ up
    /\ d \in DOMAIN descriptors => ~lost
    /\ IF ~Attached(d) THEN Refuse(<<"read", d, size>>, "FAILURE")
       ELSE LET r == ReadBack(inodes[descriptors[d].node_index].data_blocks,
                              descriptors[d].offset, size)
            IN  /\ descriptors' = [descriptors EXCEPT ![d] = [@ EXCEPT !.offset = r.offset]]
                /\ reply' = [request |-> <<"read", d, size>>, data |-> r.data,
                             status |-> IF r.ok THEN "SUCCESS" ELSE "FAILURE"]
                /\ UNCHANGED <<inodes, names, first, stale, lost, blocks, disk, up>>

\* service_seek.
Seek(d, off) ==
    /\ d \in DOMAIN descriptors => ~lost
    /\ IF ~Attached(d) \/ off > inodes[descriptors[d].node_index].st_size
       THEN Refuse(<<"seek", d, off>>, "FAILURE")
       ELSE /\ descriptors' = [descriptors EXCEPT ![d] = [@ EXCEPT !.offset = off]]
            /\ Answer(<<"seek", d, off>>, "SUCCESS")
            /\ UNCHANGED <<inodes, names, first, stale, lost, blocks, disk>>

\* Variant: the address of a block is taken for its slot.
FreedOffByOne(db) == {db[b] : b \in {c \in FileBlocks : \A a \in 0 .. c : db[a] # 0}}

\* Slots of an inode's blocks that unlink frees: it stops at the first gap.
Freed(db) == {db[b] - 1 : b \in {c \in FileBlocks : \A a \in 0 .. c : db[a] # 0}}

\* Variants: the count of an inode stays, and its blocks are freed with its first name.
DroppedUncounted(i, gone) ==
    /\ inodes' = IF gone THEN Without(inodes, i) ELSE inodes
    /\ UNCHANGED blocks
DroppedWithBlocks(i, gone) ==
    /\ inodes' = IF gone THEN Without(inodes, i)
                 ELSE [inodes EXCEPT ![i].ref_count = @ - 1]
    /\ blocks' = [s \in Slots |-> IF s \in Freed(inodes[i].data_blocks)
                                  THEN [allocated |-> FALSE, inode_index |-> 0] ELSE blocks[s]]

\* unlink_inode removes a node whose last name goes; descriptors stay.
Dropped(i, gone) ==
    /\ inodes' = IF gone THEN Without(inodes, i)
                 ELSE [inodes EXCEPT ![i].ref_count = @ - 1]
    /\ blocks' = IF gone
                 THEN [s \in Slots |-> IF s \in Freed(inodes[i].data_blocks)
                                       THEN [allocated |-> FALSE, inode_index |-> 0]
                                       ELSE blocks[s]]
                 ELSE blocks

\* Variant: the head is removed like any other node.
NameRemovedAnywhere(n) == names' = Without(names, n) /\ UNCHANGED <<first, stale>>

\* remove_filename_from_table: the head is freed but filename_table stays.
NameRemoved(n) ==
    IF n = first THEN stale' = n /\ UNCHANGED <<names, first>>
    ELSE names' = Without(names, n) /\ UNCHANGED <<first, stale>>

\* service_unlink, by any caller.
Unlink(n) ==
    /\ stale = NoName
    /\ IF n \notin DOMAIN names THEN Refuse(<<"unlink", n>>, "FILE_NOT_FOUND")
       ELSE IF names[n] \notin DOMAIN inodes THEN ~lost /\ Refuse(<<"unlink", n>>, "FAILURE")
       ELSE /\ ~lost
            /\ Dropped(names[n], inodes[names[n]].ref_count = 1)
            /\ lost' = (inodes[names[n]].ref_count = 1 /\ \A i \in DOMAIN inodes : names[n] <= i)
            /\ NameRemoved(n)
            /\ Answer(<<"unlink", n>>, "SUCCESS")
            /\ UNCHANGED <<descriptors, disk>>

\* An operation follows a pointer to a freed node and is not answered.
Crash == /\ up /\ (stale # NoName \/ lost)
         /\ up' = FALSE
         /\ reply' = NoReply
         /\ UNCHANGED tables

\* The name operations, and those of an open file, that some caller asks for.
NameOperation ==
    \E u \in Users, n \in Names :
        \/ \E mode \in Modes : Create(u, n, mode) \/ Chmode(u, n, mode)
        \/ Stat(u, n)
        \/ \E new \in Names : \/ Rename(n, new) \/ Link(u, n, new)
                              \/ \E mode \in Modes : Symlink(u, n, new, mode)
        \/ \E flag \in {"READ_ONLY", "WRITE_ONLY", "OTHER"} : Open(u, n, flag)
        \/ Unlink(n)

FileOperation ==
    \E d \in 0 .. MaxDesc + 1 :
        \/ Close(d)
        \/ \E buf \in Buffers : Write(d, buf)
        \/ \E size \in Sizes : Read(d, size) \/ Seek(d, size)

Next == NameOperation \/ FileOperation \/ Crash

Spec == Init /\ [][Next]_vars
-----------------------------------------------------------------------------
\* TypeOK: the tables hold entries of their types, the data file no more
\* blocks than there are slots, and filename_table points to a node whose
\* name, freed or not, is the one recorded (inode.h 16-48).
TypeOK ==
    /\ inodes \in [DOMAIN inodes -> Inode] /\ DOMAIN inodes \subseteq 0 .. MaxIndex
    /\ names \in [DOMAIN names -> 0 .. MaxIndex] /\ DOMAIN names \subseteq Names
    /\ first \in DOMAIN names \/ (names = <<>> /\ first = NoName)
    /\ stale \in {NoName, first} /\ lost \in BOOLEAN
    /\ descriptors \in [DOMAIN descriptors -> Descriptor]
    /\ DOMAIN descriptors \subseteq 0 .. MaxDesc
    /\ blocks \in [Slots -> TableEntry]
    /\ disk \in Seq(Block) /\ Len(disk) <= NumBlocks
    /\ up \in BOOLEAN

\* ReferenceCount: while filename_table is intact, an inode has as many names
\* as it counts, at least one, no name is without an inode, and the head name
\* is a name of the head inode.  Counts change in create_hard_link (inode.c
\* 534), create_soft_link (592) and unlink_inode (256), names elsewhere.
ReferenceCount ==
    stale = NoName =>
        /\ \A n \in DOMAIN names : names[n] \in DOMAIN inodes
        /\ \A i \in DOMAIN inodes :
              /\ inodes[i].ref_count = Cardinality({n \in DOMAIN names : names[n] = i})
              /\ inodes[i].ref_count > 0
        /\ first # NoName => \A i \in DOMAIN inodes : names[first] <= i

\* OneWriter: no two open descriptors write the same inode, also when the
\* number of a removed inode is given to a new one (open_inode, inode.c 457).
OneWriter ==
    \A d, e \in DOMAIN descriptors :
        /\ descriptors[d].node_index = descriptors[e].node_index
        /\ descriptors[d].mode = "WRITE_ONLY" /\ descriptors[e].mode = "WRITE_ONLY"
        => d = e

\* Who of a class a mode lets open a file to read, or to write it.
Entitled(class, mode, flag) ==
    /\ mode >= 0
    /\ \/ AboveDigits(class, mode)
       \/ flag = "READ_ONLY" /\ ReadBit(class, mode)
       \/ flag = "WRITE_ONLY" /\ WriteBit(class, mode)

\* OpensWithPermission: whoever opens a file that exists has the bit of its
\* mode for what they open it to do, through files that are made, linked,
\* renamed, copied and removed under other users and modes; only an owner
\* whose mode is above 0777 needs no bit (service_open, operations.c 497-536).
OpensWithPermission ==
    [][\A u \in Users, n \in DOMAIN names, flag \in {"READ_ONLY", "WRITE_ONLY"} :
          reply'.request = <<"open", u, n, flag>> /\ reply'.status = "SUCCESS" =>
              LET file == inodes[names[n]]
              IN  Entitled(Class(u, file), file.mode, flag)]_vars

\* MissingNameRefused: to open a name that no file has fails ("open should
\* fail", test-main.c 154-162).
MissingNameRefused ==
    [][\A u \in Users, n \in Names \ DOMAIN names, flag \in {"READ_ONLY", "WRITE_ONLY"} :
          reply'.request = <<"open", u, n, flag>> => reply'.status # "SUCCESS"]_vars

\* BlocksExclusive: a block of a file is allocated, under the file's number,
\* and is no other block of that file or of another, through failed writes,
\* copies and unlinked files (occupy_block_table_slot, inode.c 777-812, and
\* unlink_inode, 258-265).
BlocksExclusive ==
    \A i, j \in DOMAIN inodes, b, c \in FileBlocks :
        LET s == inodes[i].data_blocks[b]
        IN  s # 0 => /\ blocks[s - 1] = [allocated |-> TRUE, inode_index |-> i]
                     /\ inodes[j].data_blocks[c] = s => i = j /\ b = c

\* DataFileCoversSlots: every allocated slot lies within the data file, which
\* only grows by appending, so that no read of a block runs past its end
\* (occupy_block_table_slot, inode.c 794-805, read_block_table_slot, 868-869).
DataFileCoversSlots == \A s \in Slots : blocks[s].allocated => s < Len(disk)

\* What the blocks of inode i hold.
Contents(i) == [b \in {c \in FileBlocks : inodes[i].data_blocks[c] # 0} |->
                   disk[inodes[i].data_blocks[b]]]

\* OnlyWriterChanges: a file's blocks change only when its number is open for
\* writing, and those of at most one file change in a step, whatever slots the
\* other operations take and free (write_inode, inode.c 302-335).
OnlyWriterChanges ==
    [][LET kept == DOMAIN inodes \cap DOMAIN inodes'
           changed == {i \in kept : Contents(i)' # Contents(i)}
       IN  /\ \A i \in changed : Writer(i)
           /\ Cardinality(changed) <= 1]_vars

\* What a read of size units at off in inode i returns.
Readable(i, off, size) == ReadBack(inodes[i].data_blocks, off, size).data

\* The writes of descriptor d that succeed, its offset not beyond the file,
\* read back as written, after the units that were there before.
ReadsBackAsWritten(d, buf) ==
    \A i \in DOMAIN inodes, off \in 0 .. BlockSize * FileMaxBlocks :
        /\ descriptors[d].node_index = i /\ descriptors[d].offset = off
        /\ off <= inodes[i].st_size
        /\ reply'.request = <<"write", d, buf>> /\ reply'.status = "SUCCESS"
        => /\ Readable(i, off, Len(buf))' = buf
           /\ Readable(i, 0, off)' = Readable(i, 0, off)

\* WriteReadsBack: a write reads back as long as no slot was freed and the data
\* file is not at its end, so that the slot a block takes is the place where
\* it is appended (write_inode, inode.c 289-340).
WriteReadsBack ==
    [][FreeSlots = Len(disk) .. NumBlocks - 1 =>
          \A d \in DOMAIN descriptors, buf \in Buffers : ReadsBackAsWritten(d, buf)]_vars

\* OverwritesWithBuf: every write that succeeds reads back ("Overwrite inode
\* data with buf", inode.h 58).
OverwritesWithBuf ==
    [][\A d \in DOMAIN descriptors, buf \in Buffers : ReadsBackAsWritten(d, buf)]_vars
=============================================================================
