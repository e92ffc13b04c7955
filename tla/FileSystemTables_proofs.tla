----------------------- MODULE FileSystemTables_proofs -----------------------
(***************************************************************************)
(* The tables of the file system agree with each other, for any number of  *)
(* names, files, users, blocks and descriptors: names with the counts of   *)
(* the inodes, the blocks of the inodes with the data block table, and the *)
(* data block table with the data file.                                    *)
(***************************************************************************)
EXTENDS FileSystem_proofs, Permissions_proofs, FiniteSetTheorems, SequenceTheorems,
        WellFoundedInduction

(* A set of numbers has a least one.                                        *)
LEMMA LeastExists ==
    ASSUME NEW T, T \subseteq Nat, T # {}
    PROVE  \E m \in T : \A k \in T : m <= k
<1> DEFINE R == OpToRel(<, Nat)
<1>1. IsWellFoundedOn(R, Nat)
    BY NatLessThanWellFounded
<1>2. \A x, y \in Nat : x < y => <<x, y>> \in R
    BY DEF OpToRel
<1> HIDE DEF R
<1>3. PICK m \in T : \A k \in T : ~ (<<k, m>> \in R)
    BY <1>1, WFMin
<1>4. \A k \in T : ~ (k < m)
    BY <1>2, <1>3
<1>5. QED
    BY <1>4

(* The number given to a new node is above those of the table.              *)
LEMMA NextNumberAbove ==
    ASSUME NEW top \in Nat, NEW S, S \subseteq 0 .. top
    PROVE  NextNumber(S) \in Nat /\ \A k \in S : k < NextNumber(S)
<1>1. CASE S = {}
    BY <1>1 DEF NextNumber
<1>2. CASE S # {}
  <2> DEFINE T == {b \in Nat : \A k \in S : k <= b}
  <2>0. S \subseteq Nat /\ \A k \in S : k <= top
    OBVIOUS
  <2>1. T \subseteq Nat /\ top \in T
    BY <2>0
  <2>2. PICK m \in T : \A b \in T : m <= b
    <3> HIDE DEF T
    <3>1. QED
        BY <2>1, LeastExists
  <2>m. m \in Nat /\ \A k \in S : k <= m
    BY <2>2
  <2>3. m \in S
    <3> SUFFICES ASSUME m \notin S PROVE FALSE
        OBVIOUS
    <3>1. \A k \in S : k \in Nat /\ k < m
        BY <2>0, <2>m
    <3>2. PICK k \in S : k \in Nat /\ k < m
        BY <1>2, <3>1
    <3>3. m - 1 \in Nat /\ \A j \in S : j <= m - 1
        BY <2>m, <3>1, <3>2
    <3>4. m - 1 \in T
        BY <3>3
    <3>5. QED
        BY <2>m, <2>2, <3>4
  <2>4. m \in S /\ \A k \in S : k <= m
    BY <2>m, <2>3
  <2> DEFINE c == CHOOSE x \in S : \A k \in S : k <= x
  <2>5. c \in S /\ \A k \in S : k <= c
    BY <2>4
  <2>6. NextNumber(S) = c + 1
    BY <1>2 DEF NextNumber
  <2> HIDE DEF c
  <2>7. QED
    BY <2>0, <2>5, <2>6
<1>3. QED
    BY <1>1, <1>2

(* Sets of slots are finite.                                                *)
LEMMA FiniteSlots ==
    ASSUME NEW N \in Nat, NEW F \in SUBSET (0 .. N - 1)
    PROVE  /\ IsFiniteSet(F) /\ Cardinality(F) \in Nat
           /\ \A t \in F : t \in Nat /\ t < N
<1>1. IsFiniteSet(0 .. N - 1)
    BY FS_Interval
<1>2. IsFiniteSet(F) /\ Cardinality(F) \in Nat
    BY <1>1, FS_Subset, FS_CardinalityType
<1>3. \A t \in F : t \in Nat /\ t < N
  <2>1. \A t \in 0 .. N - 1 : t \in Nat /\ t < N
    OBVIOUS
  <2>2. QED
    BY <2>1
<1>4. QED
    BY <1>2, <1>3

\* The members of F below m.
Below(F, m) == {t \in F : t < m}

(* Counting the free slots below a slot.                                    *)
LEMMA CountBelow ==
    ASSUME NEW N \in Nat, NEW F \in SUBSET (0 .. N - 1), NEW m \in Nat
    PROVE  /\ Cardinality(Below(F, m)) \in Nat
           /\ Cardinality(Below(F, m + 1)) =
                 IF m \in F THEN Cardinality(Below(F, m)) + 1 ELSE Cardinality(Below(F, m))
<1>2. IsFiniteSet(F) /\ Cardinality(F) \in Nat /\ \A t \in F : t \in Nat /\ t < N
    BY FiniteSlots
<1>3. IsFiniteSet(Below(F, m)) /\ Cardinality(Below(F, m)) \in Nat
  <2>1. Below(F, m) \subseteq F
    BY DEF Below
  <2>2. QED
    BY <1>2, <2>1, FS_Subset, FS_CardinalityType
<1>4. CASE m \in F
  <2>1. Below(F, m + 1) = Below(F, m) \cup {m} /\ m \notin Below(F, m)
    <3>1. \A t \in F : t < m + 1 <=> t < m \/ t = m
        BY <1>2
    <3>2. ~ (m < m)
        OBVIOUS
    <3>3. QED
        BY <1>4, <3>1, <3>2 DEF Below
  <2>2. Cardinality(Below(F, m) \cup {m}) = Cardinality(Below(F, m)) + 1
    BY <1>3, <2>1, FS_AddElement
  <2>3. QED
    BY <1>2, <1>3, <1>4, <2>1, <2>2
<1>5. CASE m \notin F
  <2>1. Below(F, m + 1) = Below(F, m)
    <3>1. \A t \in F : t < m + 1 <=> t < m
        BY <1>2, <1>5
    <3>2. QED
        BY <3>1 DEF Below
  <2>2. QED
    BY <1>2, <1>3, <1>5, <2>1
<1>6. QED
    BY <1>4, <1>5

(* There is a free slot with k free slots below it, for every k less than   *)
(* their number (occupy_block_table_slot takes the first free slot it       *)
(* meets).                                                                  *)
LEMMA KthExists ==
    ASSUME NEW N \in Nat, NEW F \in SUBSET (0 .. N - 1), NEW k \in 0 .. Cardinality(F) - 1
    PROVE  \E s \in F : Cardinality(Below(F, s)) = k
<1> DEFINE c(m) == Cardinality(Below(F, m))
           T == {m \in Nat : c(m) > k}
<1>0. Cardinality(F) \in Nat /\ \A t \in F : t \in Nat /\ t < N
    BY FiniteSlots
<1>1. k \in Nat /\ k < Cardinality(F)
    BY <1>0
<1>2. Below(F, N) = F
    BY <1>0 DEF Below
<1>3. N \in T
    BY <1>1, <1>2
<1>4. PICK m \in T : \A n \in T : m <= n
  <2> HIDE DEF T
  <2>1. T \subseteq Nat
    BY DEF T
  <2>2. QED
    BY <1>3, <2>1, LeastExists
<1>5. m # 0
  <2>0. \A t \in F : ~ (t < 0)
    BY <1>0
  <2>1. Below(F, 0) = {}
    BY <2>0 DEF Below
  <2>2. c(0) = 0
    BY <2>1, FS_EmptySet
  <2>3. m = 0 => c(0) > k
    BY <1>4
  <2>4. QED
    BY <1>1, <2>2, <2>3
<1>6. m - 1 \in Nat /\ m = (m - 1) + 1
    BY <1>4, <1>5
<1>7. /\ c(m - 1) \in Nat
      /\ c((m - 1) + 1) = IF m - 1 \in F THEN c(m - 1) + 1 ELSE c(m - 1)
    BY <1>6, CountBelow
<1>8. ~ (c(m - 1) > k) /\ c(m) > k
    BY <1>4, <1>6
<1> HIDE DEF c
<1>9. m - 1 \in F /\ c(m - 1) = k
    BY <1>1, <1>6, <1>7, <1>8
<1>10. QED
    BY <1>9 DEF c
-----------------------------------------------------------------------------
(* Quotient and remainder, which the other lemmas use by name.              *)
LEMMA DivMod ==
    ASSUME NEW B \in Nat \ {0}, NEW a \in Nat
    PROVE  \E q \in Nat, r \in 0 .. B - 1 : a \div B = q /\ a % B = r /\ a = q * B + r
<1> DEFINE q == a \div B
           r == a % B
<1>1. q \in Int /\ r \in 0 .. B - 1
    OBVIOUS
<1>2. \A x, y : x = a \div B /\ y = a % B => a = B * x + y
    OBVIOUS
<1>3. a \div B = q /\ a % B = r
    OBVIOUS
<1> HIDE DEF q, r
<1>4. a = B * q + r
    BY <1>2, <1>3
<1>5. q >= 0
  <2> SUFFICES ASSUME q <= -1 PROVE FALSE
    BY <1>1
  <2>1. B * q <= -B
    BY <1>1
  <2>2. QED
    BY <1>1, <1>4, <2>1
<1>6. q \in Nat /\ a = q * B + r
    BY <1>1, <1>4, <1>5
<1>7. QED
    BY <1>1, <1>3, <1>6

(* The next multiple.                                                       *)
LEMMA MultipleStep ==
    ASSUME NEW B \in Nat \ {0}, NEW x \in Int, NEW y \in Int, x < y
    PROVE  x * B + B <= y * B
    OBVIOUS

(* The blocks n units take, and the blocks of the units below n.            *)
LEMMA BlocksForFacts ==
    ASSUME NEW n \in Nat
    PROVE  /\ BlocksFor(n) \in Nat
           /\ n <= BlockSize * FileMaxBlocks => BlocksFor(n) <= FileMaxBlocks
           /\ \A p \in Nat : p < n => p \div BlockSize < BlocksFor(n)
           /\ \A p \in Nat : p <= n => p \div BlockSize <= BlocksFor(n)
<1> USE BlocksAssumption
<1>1. PICK q \in Nat, r \in 0 .. BlockSize - 1 :
          n \div BlockSize = q /\ n % BlockSize = r /\ n = q * BlockSize + r
    BY DivMod
<1>2. BlocksFor(n) = IF r = 0 THEN q ELSE q + 1
    BY <1>1 DEF BlocksFor
<1>3. ASSUME n <= BlockSize * FileMaxBlocks
      PROVE  BlocksFor(n) <= FileMaxBlocks
  <2> SUFFICES ASSUME FileMaxBlocks < BlocksFor(n) PROVE FALSE
    BY <1>2
  <2>1. FileMaxBlocks < q \/ (FileMaxBlocks = q /\ r > 0)
    BY <1>2
  <2>2. n <= FileMaxBlocks * BlockSize
    BY <1>3
  <2>3. FileMaxBlocks < q => FileMaxBlocks * BlockSize + BlockSize <= q * BlockSize
    BY MultipleStep
  <2>4. FileMaxBlocks * BlockSize \in Nat /\ q * BlockSize \in Nat
    OBVIOUS
  <2>5. CASE FileMaxBlocks < q
    BY <1>1, <2>2, <2>3, <2>4, <2>5
  <2>6. CASE FileMaxBlocks = q /\ r > 0
    BY <1>1, <2>2, <2>4, <2>6
  <2>7. QED
    BY <2>1, <2>5, <2>6
<1>4. ASSUME NEW p \in Nat, p <= n
      PROVE  /\ p < n => p \div BlockSize < BlocksFor(n)
             /\ p \div BlockSize <= BlocksFor(n)
  <2>1. PICK x \in Nat, y \in 0 .. BlockSize - 1 :
            p \div BlockSize = x /\ p % BlockSize = y /\ p = x * BlockSize + y
    BY DivMod
  <2>2. q < x => q * BlockSize + BlockSize <= x * BlockSize
    BY MultipleStep
  <2>3. q * BlockSize \in Nat /\ x * BlockSize \in Nat
    OBVIOUS
  <2>4. ~ (q < x)
    BY <1>1, <1>4, <2>1, <2>2, <2>3
  <2>5. p < n /\ x = q => r > 0
    BY <1>1, <2>1, <2>3
  <2>6. QED
    BY <1>2, <2>1, <2>4, <2>5
<1>5. \A p \in Nat : p < n => p \div BlockSize < BlocksFor(n)
  <2> SUFFICES ASSUME NEW p \in Nat, p < n PROVE p \div BlockSize < BlocksFor(n)
    OBVIOUS
  <2>1. p <= n
    OBVIOUS
  <2>2. QED
    BY <1>4, <2>1
<1>6. \A p \in Nat : p <= n => p \div BlockSize <= BlocksFor(n)
    BY <1>4
<1>7. BlocksFor(n) \in Nat
    BY <1>2
<1>8. QED
    BY <1>3, <1>5, <1>6, <1>7
-----------------------------------------------------------------------------
(* A function on 1 .. n is a sequence of length n.                          *)
LEMMA FunctionIsSeq ==
    ASSUME NEW S, NEW n \in Nat, NEW f \in [1 .. n -> S]
    PROVE  f \in Seq(S) /\ Len(f) = n /\ DOMAIN f = 1 .. n
    OBVIOUS

(* The k-th slot that a write takes is free and has k free slots below it.  *)
LEMMA KthFreeFacts ==
    ASSUME NEW k \in 0 .. Cardinality(FreeSlots) - 1
    PROVE  KthFree(k) \in FreeSlots /\ Cardinality(Below(FreeSlots, KthFree(k))) = k
<1>1. NumBlocks \in Nat /\ FreeSlots \in SUBSET (0 .. NumBlocks - 1)
    BY BlocksAssumption DEF FreeSlots, Slots
<1>2. PICK s \in FreeSlots : Cardinality(Below(FreeSlots, s)) = k
    BY <1>1, KthExists
<1>3. QED
    BY <1>2 DEF KthFree, Below

(* When every slot from L on is free, at most L slots lie between the k-th  *)
(* and the zeroth place; when no other slot is free, the k-th is L + k.     *)
LEMMA KthPlace ==
    ASSUME NEW N \in Nat, NEW F \in SUBSET (0 .. N - 1), NEW L \in Nat, L .. N - 1 \subseteq F,
           NEW s \in F
    PROVE  /\ s <= L + Cardinality(Below(F, s))
           /\ F = L .. N - 1 => s = L + Cardinality(Below(F, s))
<1>1. IsFiniteSet(F) /\ Cardinality(F) \in Nat /\ \A t \in F : t \in Nat /\ t < N
    BY FiniteSlots
<1>2. Below(F, s) \in SUBSET F
    BY DEF Below
<1>3. IsFiniteSet(Below(F, s)) /\ Cardinality(Below(F, s)) \in Nat
    BY <1>1, <1>2, FS_Subset, FS_CardinalityType
<1>4. L .. s - 1 \subseteq Below(F, s)
  <2>1. \A t \in L .. s - 1 : t \in L .. N - 1 /\ t < s
    BY <1>1
  <2>2. QED
    BY <2>1 DEF Below
<1>5. Cardinality(L .. s - 1) = IF L > s - 1 THEN 0 ELSE s - L
    BY <1>1, FS_Interval
<1>6. Cardinality(L .. s - 1) <= Cardinality(Below(F, s))
    BY <1>3, <1>4, FS_Subset
<1>7. s <= L + Cardinality(Below(F, s))
    BY <1>1, <1>3, <1>5, <1>6
<1>8. ASSUME F = L .. N - 1 PROVE s = L + Cardinality(Below(F, s))
  <2>1. \A t \in F : t \in Int /\ L <= t
    BY <1>8
  <2>a. \A t \in F : t < s => t \in L .. s - 1
    BY <1>1, <2>1
  <2>2. Below(F, s) \subseteq L .. s - 1
    BY <2>a DEF Below
  <2>3. Below(F, s) = L .. s - 1
    BY <1>4, <2>2
  <2>4. QED
    BY <1>1, <1>5, <2>1, <2>3
<1>9. QED
    BY <1>7, <1>8

\* The tables a write needs: block table and data file of their types, the
\* blocks db of the file, and an end within the file size limit.
Writable(i, db, off, buf) ==
    /\ i \in Nat /\ off \in Nat /\ buf \in Seq(Values) /\ db \in [FileBlocks -> 0 .. NumBlocks]
    /\ off + Len(buf) <= BlockSize * FileMaxBlocks
    /\ blocks \in [Slots -> TableEntry] /\ disk \in Seq(Block) /\ Len(disk) <= NumBlocks
    /\ DataFileCoversSlots

\* What a write does to the block table, the data file and the file's blocks.
WroteBlocks(w, i) ==
    /\ w.blocks \in [Slots -> TableEntry]
    /\ \A s \in Slots : \/ w.blocks[s] = blocks[s]
                        \/ ~blocks[s].allocated /\ w.blocks[s] = [allocated |-> TRUE, inode_index |-> i]
    /\ \A s \in Slots : w.blocks[s].allocated => s < Len(w.disk)
WroteDisk(w, db) ==
    /\ w.disk \in Seq(Block) /\ Len(disk) <= Len(w.disk) /\ Len(w.disk) <= NumBlocks
    /\ \A s \in 1 .. Len(disk) : w.disk[s] = disk[s] \/ \E b \in FileBlocks : db[b] = s
WroteFile(w, i, db) ==
    /\ w.data_blocks \in [FileBlocks -> 0 .. NumBlocks]
    /\ \A b \in FileBlocks :
          \/ w.data_blocks[b] = db[b]
          \/ /\ w.data_blocks[b] - 1 \in FreeSlots
             /\ w.blocks[w.data_blocks[b] - 1] = [allocated |-> TRUE, inode_index |-> i]
             /\ \A c \in FileBlocks :
                   w.data_blocks[c] = w.data_blocks[b] => w.data_blocks[c] = db[c] \/ b = c

\* How a write of size units at off goes: whether it begins in a block that
\* the file has, how many units go there, which block is its first new one,
\* how many new blocks it lacks, and how many it gets.
Hits(db, off, size) == off \div BlockSize < BlocksFor(off + size) /\ db[off \div BlockSize] # 0
FirstUnits(db, off, size) == IF Hits(db, off, size) THEN InPlace(off, size) ELSE 0
FirstNew(db, off, size) ==
    IF Hits(db, off, size) THEN off \div BlockSize + 1 ELSE off \div BlockSize
Lacks(db, off, size) == BlocksFor(off + size) - FirstNew(db, off, size)
Gets(db, off, size) == Least(Lacks(db, off, size), Cardinality(FreeSlots))

\* What the first block, and the k-th new one, hold after the write.
FirstBlock(db, off, buf) ==
    [x \in 0 .. BlockSize - 1 |->
        LET p == x - (off % BlockSize)
        IN  IF p \in 0 .. FirstUnits(db, off, Len(buf)) - 1 THEN buf[p + 1]
            ELSE disk[db[off \div BlockSize]][x]]
NewBlock(db, off, buf, k) ==
    [x \in 0 .. BlockSize - 1 |->
        LET p == FirstUnits(db, off, Len(buf)) + k * BlockSize + x
        IN  IF p < Len(buf) THEN buf[p + 1] ELSE Zero]

\* The outcome w of a write in these terms.
WroteSlots(w, i, db, off, size) ==
    LET start == FirstNew(db, off, size)
        wanted == Lacks(db, off, size)
        got == Gets(db, off, size)
    IN  /\ start \in Nat /\ wanted \in Nat /\ start + wanted = BlocksFor(off + size)
        /\ got \in Nat /\ got <= wanted /\ got <= Cardinality(FreeSlots)
        /\ w.ok = (got = wanted)
        /\ \A k \in 0 .. got - 1 :
              KthFree(k) \in FreeSlots /\ Cardinality(Below(FreeSlots, KthFree(k))) = k
        /\ w.data_blocks = [b \in FileBlocks |->
              IF b \in start .. start + got - 1 THEN KthFree(b - start) + 1 ELSE db[b]]
        /\ w.blocks = [s \in Slots |->
              IF \E k \in 0 .. got - 1 : KthFree(k) = s
              THEN [allocated |-> TRUE, inode_index |-> i] ELSE blocks[s]]
WroteUnits(w, db, off, buf) ==
    /\ w.disk \in Seq(Block) /\ Len(w.disk) = Least(Len(disk) + Gets(db, off, Len(buf)), NumBlocks)
    /\ \A s \in 1 .. Len(w.disk) :
          w.disk[s] = IF s > Len(disk) THEN NewBlock(db, off, buf, s - Len(disk) - 1)
                      ELSE IF Hits(db, off, Len(buf)) /\ s = db[off \div BlockSize]
                      THEN FirstBlock(db, off, buf) ELSE disk[s]

(* The steps of write_inode put together (inode.c 302-335).                 *)
LEMMA WrittenShape ==
    ASSUME NEW i, NEW db, NEW off, NEW buf, Writable(i, db, off, buf)
    PROVE  LET w == Written(i, db, off, buf)
           IN  WroteSlots(w, i, db, off, Len(buf)) /\ WroteUnits(w, db, off, buf)
<1> DEFINE size == Len(buf)
           cur == off \div BlockSize
           total == BlocksFor(off + size)
           hit == Hits(db, off, size)
           inplace == FirstUnits(db, off, size)
           start == FirstNew(db, off, size)
           wanted == Lacks(db, off, size)
           got == Gets(db, off, size)
           slot == [k \in 0 .. got - 1 |-> KthFree(k)]
           within(b) == [x \in 0 .. BlockSize - 1 |->
                            LET p == x - (off % BlockSize)
                            IN  IF p \in 0 .. inplace - 1 THEN buf[p + 1] ELSE disk[b][x]]
           updated == [b \in DOMAIN disk |-> IF hit /\ b = db[cur] THEN within(b) ELSE disk[b]]
           new == [k \in 1 .. got |-> NewBlock(db, off, buf, k - 1)]
           appended == updated \o new
           w == Written(i, db, off, buf)
<1> USE BlocksAssumption, ArgsAssumption
<1>0. /\ i \in Nat /\ off \in Nat /\ buf \in Seq(Values) /\ db \in [FileBlocks -> 0 .. NumBlocks]
      /\ off + Len(buf) <= BlockSize * FileMaxBlocks
      /\ blocks \in [Slots -> TableEntry] /\ disk \in Seq(Block) /\ Len(disk) <= NumBlocks
      /\ DataFileCoversSlots
    BY DEF Writable
<1>1. w = [ok |-> got = wanted,
           data_blocks |-> [b \in FileBlocks |->
                               IF b \in start .. start + got - 1 THEN slot[b - start] + 1 ELSE db[b]],
           blocks |-> [s \in Slots |->
                          IF \E k \in DOMAIN slot : slot[k] = s
                          THEN [allocated |-> TRUE, inode_index |-> i] ELSE blocks[s]],
           disk |-> SubSeq(appended, 1, Least(Len(appended), NumBlocks))]
    BY DEF Written, Hits, FirstUnits, FirstNew, Lacks, Gets, NewBlock
<1> HIDE DEF w
<1>2. size \in Nat /\ off + size \in Nat
    BY <1>0
<1>3. PICK q \in Nat, r \in 0 .. BlockSize - 1 : cur = q /\ off % BlockSize = r
    BY <1>0, DivMod
<1>4. total \in Nat /\ total <= FileMaxBlocks /\ q <= total
  <2>1. total \in Nat /\ total <= FileMaxBlocks
    BY <1>0, <1>2, BlocksForFacts
  <2>2. off <= off + size
    BY <1>0, <1>2
  <2>3. off \div BlockSize <= total
    BY <1>0, <1>2, <2>2, BlocksForFacts
  <2>4. QED
    BY <1>3, <2>1, <2>3
<1>h. hit <=> q < total /\ db[q] # 0
    BY <1>3 DEF Hits
<1>5. start \in Nat /\ wanted \in Nat /\ start + wanted = total
  <2>1. start = IF hit THEN q + 1 ELSE q
    BY <1>3 DEF FirstNew
  <2>2. wanted = total - start
    BY DEF Lacks
  <2> HIDE DEF hit, start, wanted, total
  <2>3. QED
    BY <1>4, <1>h, <2>1, <2>2
<1>6. IsFiniteSet(FreeSlots) /\ Cardinality(FreeSlots) \in Nat /\ FreeSlots \subseteq Slots
    BY FiniteSlots DEF FreeSlots, Slots
<1>7. got \in Nat /\ got <= wanted /\ got <= Cardinality(FreeSlots)
    BY <1>5, <1>6 DEF Gets, Least
<1>8. inplace \in Int /\ inplace >= 0 /\ inplace <= size
    BY <1>2, <1>3 DEF FirstUnits, InPlace, Least
<1> HIDE DEF hit, inplace, start, wanted, got, total
<1>9. Len(disk) \in Nat /\ DOMAIN disk = 1 .. Len(disk) /\ \A b \in 1 .. Len(disk) : disk[b] \in Block
    BY <1>0
<1>s. \A p \in 1 .. size : buf[p] \in Values
    BY <1>0
<1>10. ASSUME NEW k \in Nat PROVE NewBlock(db, off, buf, k) \in Block
  <2>1. k * BlockSize \in Nat
    OBVIOUS
  <2>2. \A x \in 0 .. BlockSize - 1 : inplace + k * BlockSize + x \in Nat
    BY <1>8, <2>1
  <2>d. NewBlock(db, off, buf, k) =
            [x \in 0 .. BlockSize - 1 |->
                IF inplace + k * BlockSize + x < size THEN buf[inplace + k * BlockSize + x + 1] ELSE Zero]
    BY DEF NewBlock, inplace
  <2> HIDE DEF size
  <2>3. ASSUME NEW x \in 0 .. BlockSize - 1, NEW p \in Nat
        PROVE  (IF p < size THEN buf[p + 1] ELSE Zero) \in Values
    BY <1>2, <1>s
  <2>4. QED
    BY <2>2, <2>3, <2>d DEF Block
<1>11. ASSUME NEW b \in 1 .. Len(disk) PROVE within(b) \in Block
  <2> HIDE DEF size
  <2>1. ASSUME NEW p \in 0 .. inplace - 1 PROVE buf[p + 1] \in Values
    BY <1>2, <1>8, <1>s
  <2>2. \A x \in 0 .. BlockSize - 1 : disk[b][x] \in Values
    BY <1>9 DEF Block
  <2>3. QED
    BY <2>1, <2>2 DEF Block
<1>b. within(db[cur]) = FirstBlock(db, off, buf)
    BY DEF FirstBlock, inplace
<1> HIDE DEF within, size
<1>12. updated \in Seq(Block) /\ Len(updated) = Len(disk)
  <2>1. updated \in [1 .. Len(disk) -> Block]
    BY <1>9, <1>11
  <2> HIDE DEF updated
  <2>2. QED
    BY <1>9, <2>1, FunctionIsSeq
<1>13. new \in Seq(Block) /\ Len(new) = got
  <2>1. \A k \in 1 .. got : k - 1 \in Nat
    BY <1>7
  <2>2. new \in [1 .. got -> Block]
    BY <1>10, <2>1
  <2> HIDE DEF new
  <2>3. QED
    BY <1>7, <2>2, FunctionIsSeq
<1> DEFINE length == Least(Len(disk) + got, NumBlocks)
<1>14. length \in Nat /\ Len(disk) <= length /\ length <= NumBlocks /\ length <= Len(disk) + got
    BY <1>0, <1>7, <1>9 DEF Least
<1>15. /\ w.disk \in Seq(Block) /\ Len(w.disk) = length
       /\ \A s \in 1 .. length : w.disk[s] = IF s <= Len(disk) THEN updated[s] ELSE new[s - Len(disk)]
  <2> HIDE DEF updated, new
  <2>1. /\ appended \in Seq(Block) /\ Len(appended) = Len(disk) + got
        /\ \A s \in 1 .. Len(disk) + got :
              appended[s] = IF s <= Len(disk) THEN updated[s] ELSE new[s - Len(disk)]
    <3>1. /\ updated \o new \in Seq(Block) /\ Len(updated \o new) = Len(updated) + Len(new)
          /\ \A s \in 1 .. Len(updated) + Len(new) : (updated \o new)[s] =
                IF s <= Len(updated) THEN updated[s] ELSE new[s - Len(updated)]
        BY <1>12, <1>13, ConcatProperties
    <3>2. QED
        BY <1>12, <1>13, <3>1
  <2> HIDE DEF appended
  <2>2. w.disk = SubSeq(appended, 1, length)
    BY <1>1, <2>1
  <2> HIDE DEF length
  <2>3. \A s \in 1 .. length : s \in 1 .. Len(disk) + got /\ appended[s] \in Block
    BY <1>7, <1>9, <1>14, <2>1
  <2>4. /\ SubSeq(appended, 1, length) \in Seq(Block)
        /\ Len(SubSeq(appended, 1, length)) = (IF 1 <= length THEN length - 1 + 1 ELSE 0)
        /\ \A s \in 1 .. length - 1 + 1 : SubSeq(appended, 1, length)[s] = appended[1 + s - 1]
    BY <1>14, <2>3, SubSeqProperties
  <2>5. Len(w.disk) = length /\ w.disk \in Seq(Block)
    BY <1>14, <2>2, <2>4
  <2>6. \A s \in 1 .. length : w.disk[s] = appended[s]
    BY <1>14, <2>2, <2>4
  <2>7. QED
    BY <2>1, <2>3, <2>5, <2>6
<1>16. ASSUME NEW s \in 1 .. length
       PROVE  w.disk[s] = IF s > Len(disk) THEN NewBlock(db, off, buf, s - Len(disk) - 1)
                          ELSE IF hit /\ s = db[cur] THEN FirstBlock(db, off, buf) ELSE disk[s]
  <2> HIDE DEF length
  <2>1. CASE s > Len(disk)
    <3>1. s - Len(disk) \in 1 .. got /\ w.disk[s] = new[s - Len(disk)]
      <4> HIDE DEF updated, new
      <4>1. QED
        BY <1>7, <1>9, <1>14, <1>15, <2>1
    <3>2. QED
        BY <2>1, <3>1
  <2>2. CASE ~ (s > Len(disk))
    <3>1. s \in DOMAIN disk /\ w.disk[s] = updated[s]
      <4> HIDE DEF updated, new
      <4>1. QED
        BY <1>9, <1>14, <1>15, <2>2
    <3>2. updated[s] = IF hit /\ s = db[cur] THEN within(s) ELSE disk[s]
        BY <3>1
    <3>3. QED
        BY <1>b, <2>2, <3>1, <3>2
  <2>3. QED
    BY <2>1, <2>2
<1>17. \A k \in 0 .. got - 1 : KthFree(k) \in FreeSlots /\ Cardinality(Below(FreeSlots, KthFree(k))) = k
  <2>1. ASSUME NEW k \in 0 .. got - 1
        PROVE  KthFree(k) \in FreeSlots /\ Cardinality(Below(FreeSlots, KthFree(k))) = k
    <3>1. k \in 0 .. Cardinality(FreeSlots) - 1
        BY <1>6, <1>7
    <3>2. QED
        BY <3>1, KthFreeFacts
  <2>2. QED
    BY <2>1
<1> HIDE DEF updated, new, appended, cur
<1>18. w.data_blocks = [b \in FileBlocks |->
            IF b \in start .. start + got - 1 THEN KthFree(b - start) + 1 ELSE db[b]]
  <2>1. \A b \in start .. start + got - 1 : b - start \in 0 .. got - 1
    BY <1>5, <1>7
  <2>2. \A b \in start .. start + got - 1 : slot[b - start] = KthFree(b - start)
    BY <2>1
  <2> HIDE DEF slot
  <2>3. QED
    BY <1>1, <2>2
<1>19. w.blocks = [s \in Slots |-> IF \E k \in 0 .. got - 1 : KthFree(k) = s
                                   THEN [allocated |-> TRUE, inode_index |-> i] ELSE blocks[s]]
  <2>1. DOMAIN slot = 0 .. got - 1 /\ \A k \in 0 .. got - 1 : slot[k] = KthFree(k)
    OBVIOUS
  <2> HIDE DEF slot
  <2>2. \A s : (\E k \in DOMAIN slot : slot[k] = s) <=> \E k \in 0 .. got - 1 : KthFree(k) = s
    BY <2>1
  <2>3. w.blocks = [s \in Slots |-> IF \E k \in DOMAIN slot : slot[k] = s
                                    THEN [allocated |-> TRUE, inode_index |-> i] ELSE blocks[s]]
    BY <1>1
  <2>4. QED
    BY <2>2, <2>3
<1>20. w.ok = (got = wanted)
    BY <1>1
<1>21. /\ start \in Nat /\ wanted \in Nat /\ start + wanted = total
       /\ got \in Nat /\ got <= wanted /\ got <= Cardinality(FreeSlots)
    BY <1>5, <1>7
<1> HIDE DEF length
<1>22. \A s \in 1 .. Len(w.disk) :
           w.disk[s] = IF s > Len(disk) THEN NewBlock(db, off, buf, s - Len(disk) - 1)
                       ELSE IF hit /\ s = db[cur] THEN FirstBlock(db, off, buf) ELSE disk[s]
    BY <1>15, <1>16
<1>23. QED
  <2>1. WroteSlots(w, i, db, off, size)
    BY <1>17, <1>18, <1>19, <1>20, <1>21 DEF WroteSlots, start, wanted, got, total
  <2>2. WroteUnits(w, db, off, buf)
    BY <1>15, <1>22 DEF WroteUnits, size, hit, got, cur, length
  <2>3. QED
    BY <2>1, <2>2 DEF w, size

(* What write_inode does, whatever is free and wherever it begins (inode.c  *)
(* 302-335).                                                                *)
LEMMA WrittenFacts ==
    ASSUME NEW i, NEW db, NEW off, NEW buf, Writable(i, db, off, buf)
    PROVE  LET w == Written(i, db, off, buf)
           IN  w.ok \in BOOLEAN /\ WroteBlocks(w, i) /\ WroteDisk(w, db) /\ WroteFile(w, i, db)
<1> DEFINE start == FirstNew(db, off, Len(buf))
           got == Gets(db, off, Len(buf))
           hit == Hits(db, off, Len(buf))
           length == Least(Len(disk) + got, NumBlocks)
           w == Written(i, db, off, buf)
<1> USE BlocksAssumption, ArgsAssumption
<1>0. /\ i \in Nat /\ db \in [FileBlocks -> 0 .. NumBlocks] /\ blocks \in [Slots -> TableEntry]
      /\ Len(disk) \in Nat /\ Len(disk) <= NumBlocks /\ DataFileCoversSlots
    BY DEF Writable
<1>w. WroteSlots(w, i, db, off, Len(buf)) /\ WroteUnits(w, db, off, buf)
    BY WrittenShape
<1> HIDE DEF w
<1>1. /\ start \in Nat /\ got \in Nat /\ w.ok \in BOOLEAN
      /\ \A k \in 0 .. got - 1 :
            KthFree(k) \in FreeSlots /\ Cardinality(Below(FreeSlots, KthFree(k))) = k
    BY <1>w DEF WroteSlots
<1>2. /\ w.data_blocks = [b \in FileBlocks |->
            IF b \in start .. start + got - 1 THEN KthFree(b - start) + 1 ELSE db[b]]
      /\ w.blocks = [s \in Slots |-> IF \E k \in 0 .. got - 1 : KthFree(k) = s
                                     THEN [allocated |-> TRUE, inode_index |-> i] ELSE blocks[s]]
    BY <1>w DEF WroteSlots
<1>3. /\ w.disk \in Seq(Block) /\ Len(w.disk) = length
      /\ \A s \in 1 .. length : s <= Len(disk) /\ ~ (hit /\ s = db[off \div BlockSize])
            => w.disk[s] = disk[s]
  <2>1. \A s \in 1 .. length : s <= Len(disk) => ~ (s > Len(disk))
    BY <1>0
  <2>2. QED
    BY <1>w, <2>1 DEF WroteUnits
<1>4. hit => off \div BlockSize \in FileBlocks
  <2>1. /\ off \in Nat /\ off + Len(buf) \in Nat /\ off + Len(buf) <= BlockSize * FileMaxBlocks
    BY DEF Writable
  <2>2. BlocksFor(off + Len(buf)) \in Nat /\ BlocksFor(off + Len(buf)) <= FileMaxBlocks
    BY <2>1, BlocksForFacts
  <2>3. PICK q \in Nat : q = off \div BlockSize
    BY <2>1, DivMod
  <2>4. QED
    BY <2>2, <2>3 DEF Hits, FileBlocks
<1>5. FreeSlots \subseteq Slots
    BY DEF FreeSlots
<1> HIDE DEF hit, start, got
<1>6. length \in Nat /\ Len(disk) <= length /\ length <= NumBlocks /\ length <= Len(disk) + got
    BY <1>0, <1>1 DEF Least
<1>7. WroteDisk(w, db)
  <2> HIDE DEF length
  <2>1. ASSUME NEW s \in 1 .. Len(disk)
        PROVE  w.disk[s] = disk[s] \/ \E b \in FileBlocks : db[b] = s
    <3>1. s \in 1 .. length /\ s <= Len(disk)
        BY <1>0, <1>6
    <3>2. QED
        BY <1>3, <1>4, <3>1
  <2>2. QED
    BY <1>3, <1>6, <2>1 DEF WroteDisk
<1>8. \A k \in 0 .. got - 1 : KthFree(k) < length
  <2> SUFFICES ASSUME NEW k \in 0 .. got - 1 PROVE KthFree(k) < length
    OBVIOUS
  <2>1. \A s \in Slots : s >= Len(disk) => s \in FreeSlots
    BY <1>0 DEF DataFileCoversSlots, FreeSlots, Slots
  <2>2. Len(disk) .. NumBlocks - 1 \subseteq FreeSlots
    BY <1>0, <2>1 DEF Slots
  <2>3. KthFree(k) \in FreeSlots /\ Cardinality(Below(FreeSlots, KthFree(k))) = k
    BY <1>1
  <2>a. FreeSlots \in SUBSET (0 .. NumBlocks - 1) /\ Len(disk) \in Nat /\ NumBlocks \in Nat
    BY <1>5, <1>0 DEF Slots
  <2>b. PICK s \in FreeSlots : s = KthFree(k)
    BY <2>3
  <2>c. s <= Len(disk) + Cardinality(Below(FreeSlots, s))
    BY <2>a, <2>2, KthPlace
  <2>4. KthFree(k) <= Len(disk) + k
    BY <2>b, <2>c, <2>3
  <2>5. KthFree(k) \in Nat /\ KthFree(k) < NumBlocks
    BY <1>5, <2>a, <2>b
  <2>6. QED
    BY <1>1, <1>0, <2>4, <2>5 DEF Least
<1> HIDE DEF length
<1>9. /\ \A s \in Slots : \/ w.blocks[s] = blocks[s]
                          \/ s \in FreeSlots /\ w.blocks[s] = [allocated |-> TRUE, inode_index |-> i] /\ s < length
      /\ w.blocks = [s \in Slots |-> w.blocks[s]]
      /\ \A k \in 0 .. got - 1 : w.blocks[KthFree(k)] = [allocated |-> TRUE, inode_index |-> i]
  <2>1. w.blocks = [s \in Slots |-> IF \E k \in 0 .. got - 1 : KthFree(k) = s
                                    THEN [allocated |-> TRUE, inode_index |-> i] ELSE blocks[s]]
    BY <1>2
  <2>2. ASSUME NEW k \in 0 .. got - 1
        PROVE  w.blocks[KthFree(k)] = [allocated |-> TRUE, inode_index |-> i]
    BY <1>5, <1>1, <2>1
  <2>3. ASSUME NEW s \in Slots
        PROVE  \/ w.blocks[s] = blocks[s]
               \/ s \in FreeSlots /\ w.blocks[s] = [allocated |-> TRUE, inode_index |-> i] /\ s < length
    <3>1. CASE \E k \in 0 .. got - 1 : KthFree(k) = s
        BY <1>1, <1>8, <2>2, <3>1
    <3>2. CASE ~ \E k \in 0 .. got - 1 : KthFree(k) = s
        BY <2>1, <3>2
    <3>3. QED
        BY <3>1, <3>2
  <2>4. w.blocks = [s \in Slots |-> w.blocks[s]]
    BY <2>1
  <2>5. \A s \in Slots : \/ w.blocks[s] = blocks[s]
                         \/ s \in FreeSlots /\ w.blocks[s] = [allocated |-> TRUE, inode_index |-> i] /\ s < length
    BY <2>3
  <2>6. \A k \in 0 .. got - 1 : w.blocks[KthFree(k)] = [allocated |-> TRUE, inode_index |-> i]
    BY <2>2
  <2>7. QED
    BY <2>4, <2>5, <2>6
<1>10. WroteBlocks(w, i)
  <2>1. \A s \in Slots : w.blocks[s] \in TableEntry
    <3>1. [allocated |-> TRUE, inode_index |-> i] \in TableEntry
        BY <1>0 DEF TableEntry
    <3>2. \A s \in Slots : blocks[s] \in TableEntry
        BY <1>0
    <3>3. QED
        BY <1>9, <3>1, <3>2
  <2>2. w.blocks \in [Slots -> TableEntry]
    BY <1>9, <2>1
  <2>3. \A s \in Slots : w.blocks[s].allocated => s < Len(w.disk)
    <3>1. ASSUME NEW s \in Slots, blocks[s].allocated PROVE s < length
        BY <1>0, <1>6, <3>1 DEF DataFileCoversSlots, Slots
    <3>2. QED
        BY <1>3, <1>9, <3>1
  <2>4. QED
    BY <1>9, <2>2, <2>3 DEF WroteBlocks, FreeSlots
<1>11. WroteFile(w, i, db)
  <2> DEFINE taken == start .. start + got - 1
  <2>1. w.data_blocks = [b \in FileBlocks |-> IF b \in taken THEN KthFree(b - start) + 1 ELSE db[b]]
    BY <1>2
  <2>2. \A b \in taken : b - start \in 0 .. got - 1
    BY <1>1
  <2> HIDE DEF taken
  <2>3. \A b \in FileBlocks : b \in taken =>
            /\ w.data_blocks[b] = KthFree(b - start) + 1
            /\ KthFree(b - start) \in FreeSlots /\ KthFree(b - start) \in 0 .. NumBlocks - 1
            /\ w.blocks[KthFree(b - start)] = [allocated |-> TRUE, inode_index |-> i]
    <3> SUFFICES ASSUME NEW b \in FileBlocks, b \in taken
                 PROVE  /\ w.data_blocks[b] = KthFree(b - start) + 1
                        /\ KthFree(b - start) \in FreeSlots /\ KthFree(b - start) \in 0 .. NumBlocks - 1
                        /\ w.blocks[KthFree(b - start)] = [allocated |-> TRUE, inode_index |-> i]
        OBVIOUS
    <3>1. w.data_blocks[b] = KthFree(b - start) + 1
        BY <2>1
    <3>2. PICK k \in 0 .. got - 1 : k = b - start
        BY <2>2
    <3>3. /\ KthFree(k) \in FreeSlots
          /\ w.blocks[KthFree(k)] = [allocated |-> TRUE, inode_index |-> i]
        BY <1>1, <1>9
    <3>4. KthFree(k) \in 0 .. NumBlocks - 1
        BY <1>5, <3>3 DEF Slots
    <3>5. QED
        BY <3>1, <3>2, <3>3, <3>4
  <2>4. \A b \in FileBlocks : b \notin taken => w.data_blocks[b] = db[b]
    BY <2>1
  <2>5. ASSUME NEW b \in FileBlocks PROVE w.data_blocks[b] \in 0 .. NumBlocks
    <3>1. CASE b \in taken
      <4>1. PICK s \in 0 .. NumBlocks - 1 : w.data_blocks[b] = s + 1
        BY <2>3, <3>1
      <4>2. QED
        BY <4>1
    <3>2. CASE b \notin taken
        BY <1>0, <2>4, <3>2
    <3>3. QED
        BY <3>1, <3>2
  <2>6. w.data_blocks \in [FileBlocks -> 0 .. NumBlocks]
    BY <2>1, <2>5
  <2>7. ASSUME NEW b \in FileBlocks, NEW c \in FileBlocks, b \in taken, c \in taken,
               w.data_blocks[c] = w.data_blocks[b]
        PROVE  b = c
    <3>1. KthFree(b - start) = KthFree(c - start)
        BY <2>3, <2>7
    <3>2. b - start = c - start
        BY <1>1, <2>2, <2>7, <3>1
    <3>3. b \in Int /\ c \in Int
        BY DEF FileBlocks
    <3>4. QED
        BY <1>1, <3>2, <3>3
  <2>8. ASSUME NEW b \in FileBlocks, b \in taken
        PROVE  /\ w.data_blocks[b] - 1 \in FreeSlots
               /\ w.blocks[w.data_blocks[b] - 1] = [allocated |-> TRUE, inode_index |-> i]
    <3>1. PICK s \in 0 .. NumBlocks - 1 : s = KthFree(b - start)
        BY <2>3, <2>8
    <3>2. w.data_blocks[b] - 1 = s
        BY <2>3, <2>8, <3>1
    <3>3. QED
        BY <2>3, <2>8, <3>1, <3>2
  <2>9. QED
    BY <2>4, <2>6, <2>7, <2>8 DEF WroteFile
<1>12. QED
    BY <1>7, <1>10, <1>11, <1>1 DEF w
-----------------------------------------------------------------------------
\* The invariant.  The parts need each other: a copy reads blocks that exist
\* because the data file covers the slots, and a count stays a number because
\* it counts names.
InodesOK == inodes \in [DOMAIN inodes -> Inode] /\ DOMAIN inodes \subseteq 0 .. MaxIndex
NamesOK ==
    /\ names \in [DOMAIN names -> 0 .. MaxIndex] /\ DOMAIN names \subseteq Names
    /\ IsFiniteSet(DOMAIN names)
    /\ first \in DOMAIN names \/ (names = <<>> /\ first = NoName)
    /\ stale \in {NoName, first} /\ lost \in BOOLEAN
DescriptorsOK ==
    /\ descriptors \in [DOMAIN descriptors -> Descriptor]
    /\ DOMAIN descriptors \subseteq 0 .. MaxDesc
BlocksOK ==
    /\ blocks \in [Slots -> TableEntry] /\ disk \in Seq(Block) /\ Len(disk) <= NumBlocks
    /\ DataFileCoversSlots
TablesInv ==
    /\ InodesOK /\ NamesOK /\ DescriptorsOK /\ BlocksOK /\ up \in BOOLEAN
    /\ BlocksExclusive /\ ReferenceCount

(* The invariant holds of empty tables.                                     *)
LEMMA TablesInit == Init => TablesInv
<1> SUFFICES ASSUME Init PROVE TablesInv
    OBVIOUS
<1> USE BlocksAssumption, ArgsAssumption
<1>1. /\ inodes = <<>> /\ names = <<>> /\ descriptors = <<>> /\ first = NoName /\ stale = NoName
      /\ lost = FALSE /\ disk = <<>> /\ up = TRUE
      /\ blocks = [s \in Slots |-> [allocated |-> FALSE, inode_index |-> 0]]
    BY DEF Init
<1>2. DOMAIN inodes = {} /\ DOMAIN names = {} /\ DOMAIN descriptors = {}
    BY <1>1
<1>3. InodesOK
    BY <1>1, <1>2 DEF InodesOK
<1>4. NamesOK
  <2>1. IsFiniteSet(DOMAIN names)
    BY <1>2, FS_EmptySet
  <2>2. names \in [DOMAIN names -> 0 .. MaxIndex] /\ DOMAIN names \subseteq Names
    BY <1>1, <1>2
  <2>3. QED
    BY <1>1, <2>1, <2>2 DEF NamesOK
<1>5. DescriptorsOK
    BY <1>1, <1>2 DEF DescriptorsOK
<1>6. BlocksOK
    BY <1>1 DEF BlocksOK, TableEntry, DataFileCoversSlots
<1>7. BlocksExclusive /\ ReferenceCount
    BY <1>1, <1>2 DEF BlocksExclusive, ReferenceCount
<1>8. QED
    BY <1>1, <1>3, <1>4, <1>5, <1>6, <1>7 DEF TablesInv

(* The invariant says what the checked invariants say.                      *)
LEMMA TablesImply ==
    ASSUME TablesInv
    PROVE  TypeOK /\ BlocksExclusive /\ DataFileCoversSlots /\ ReferenceCount
    BY DEF TablesInv, TypeOK, InodesOK, NamesOK, DescriptorsOK, BlocksOK

\* The names of i.
NamesOf(f, i) == {n \in DOMAIN f : f[n] = i}

(* The names of each number, as names come and go.                          *)
LEMMA NamesOfFacts ==
    ASSUME NEW f, IsFiniteSet(DOMAIN f), NEW i
    PROVE  /\ IsFiniteSet(NamesOf(f, i)) /\ Cardinality(NamesOf(f, i)) \in Nat
           /\ \A n \in DOMAIN f : f[n] = i =>
                 /\ Cardinality(NamesOf(f, i)) > 0
                 /\ Cardinality(NamesOf(f, i)) = 1 => NamesOf(f, i) = {n}
           /\ \A k, v : k \notin DOMAIN f =>
                 Cardinality(NamesOf(With(f, k, v), i)) =
                     IF v = i THEN Cardinality(NamesOf(f, i)) + 1 ELSE Cardinality(NamesOf(f, i))
           /\ \A k \in DOMAIN f :
                 Cardinality(NamesOf(Without(f, k), i)) =
                     IF f[k] = i THEN Cardinality(NamesOf(f, i)) - 1 ELSE Cardinality(NamesOf(f, i))
<1>1. NamesOf(f, i) \in SUBSET DOMAIN f
    BY DEF NamesOf
<1>2. IsFiniteSet(NamesOf(f, i)) /\ Cardinality(NamesOf(f, i)) \in Nat
    BY <1>1, FS_Subset, FS_CardinalityType
<1>3. ASSUME NEW n \in DOMAIN f, f[n] = i
      PROVE  /\ Cardinality(NamesOf(f, i)) > 0
             /\ Cardinality(NamesOf(f, i)) = 1 => NamesOf(f, i) = {n}
  <2>1. n \in NamesOf(f, i)
    BY <1>3 DEF NamesOf
  <2>2. Cardinality(NamesOf(f, i)) # 0
    BY <1>2, <2>1, FS_EmptySet
  <2>3. Cardinality(NamesOf(f, i)) = 1 => \E x : NamesOf(f, i) = {x}
    BY <1>2, FS_Singleton
  <2>4. QED
    BY <1>2, <2>1, <2>2, <2>3
<1>4. ASSUME NEW k, NEW v, k \notin DOMAIN f
      PROVE  Cardinality(NamesOf(With(f, k, v), i)) =
                 IF v = i THEN Cardinality(NamesOf(f, i)) + 1 ELSE Cardinality(NamesOf(f, i))
  <2>1. NamesOf(With(f, k, v), i) = IF v = i THEN NamesOf(f, i) \cup {k} ELSE NamesOf(f, i)
    <3> DEFINE g == With(f, k, v)
    <3>1. DOMAIN g = DOMAIN f \cup {k} /\ g[k] = v /\ \A x \in DOMAIN f : g[x] = f[x]
      <4>1. DOMAIN g = DOMAIN f \cup {k} /\ g[k] = v /\ \A x \in DOMAIN f : x # k => g[x] = f[x]
        BY DEF With
      <4>2. QED
        BY <1>4, <4>1
    <3> HIDE DEF g
    <3>2. NamesOf(g, i) = IF v = i THEN NamesOf(f, i) \cup {k} ELSE NamesOf(f, i)
      <4>1. CASE v = i
        BY <1>4, <3>1, <4>1 DEF NamesOf
      <4>2. CASE v # i
        BY <1>4, <3>1, <4>2 DEF NamesOf
      <4>3. QED
        BY <4>1, <4>2
    <3>3. QED
        BY <3>2 DEF g
  <2>2. k \notin NamesOf(f, i)
    BY <1>4 DEF NamesOf
  <2>3. Cardinality(NamesOf(f, i) \cup {k}) = Cardinality(NamesOf(f, i)) + 1
    BY <1>2, <2>2, FS_AddElement
  <2>4. QED
    BY <2>1, <2>3
<1>5. ASSUME NEW k \in DOMAIN f
      PROVE  Cardinality(NamesOf(Without(f, k), i)) =
                 IF f[k] = i THEN Cardinality(NamesOf(f, i)) - 1 ELSE Cardinality(NamesOf(f, i))
  <2>1. NamesOf(Without(f, k), i) = NamesOf(f, i) \ {k}
    <3> DEFINE g == Without(f, k)
    <3>1. DOMAIN g = DOMAIN f \ {k} /\ \A x \in DOMAIN f \ {k} : g[x] = f[x]
        BY DEF Without
    <3> HIDE DEF g
    <3>2. NamesOf(g, i) = NamesOf(f, i) \ {k}
        BY <3>1 DEF NamesOf
    <3>3. QED
        BY <3>2 DEF g
  <2>2. k \in NamesOf(f, i) <=> f[k] = i
    BY DEF NamesOf
  <2>3. Cardinality(NamesOf(f, i) \ {k}) =
            IF k \in NamesOf(f, i) THEN Cardinality(NamesOf(f, i)) - 1 ELSE Cardinality(NamesOf(f, i))
    BY <1>2, FS_RemoveElement
  <2>4. QED
    BY <2>1, <2>2, <2>3
<1>6. QED
    BY <1>2, <1>3, <1>4, <1>5

(* A step that changes no table keeps the invariant.                        *)
LEMMA TablesSame ==
    ASSUME TablesInv, UNCHANGED tables, up' \in BOOLEAN
    PROVE  TablesInv'
<1>1. /\ inodes' = inodes /\ names' = names /\ first' = first /\ stale' = stale /\ lost' = lost
      /\ descriptors' = descriptors /\ blocks' = blocks /\ disk' = disk
    BY DEF tables
<1>2. InodesOK' /\ NamesOK' /\ DescriptorsOK' /\ BlocksOK'
    BY <1>1 DEF TablesInv, InodesOK, NamesOK, DescriptorsOK, BlocksOK, DataFileCoversSlots
<1>3. BlocksExclusive'
    BY <1>1 DEF TablesInv, BlocksExclusive
<1>4. ReferenceCount'
    BY <1>1 DEF TablesInv, ReferenceCount
<1>5. QED
    BY <1>2, <1>3, <1>4 DEF TablesInv

(* An answer, and a refusal, keep the process up.                           *)
LEMMA RefuseKeeps ==
    ASSUME TablesInv, NEW request, NEW status, Refuse(request, status)
    PROVE  TablesInv' /\ UNCHANGED tables
<1>1. UNCHANGED <<tables, up>>
    BY DEF Refuse, Answer
<1>2. QED
    BY <1>1, TablesSame DEF TablesInv

(* Counts are kept when names stay and inodes keep their counts.            *)
LEMMA CountsKept ==
    ASSUME ReferenceCount, UNCHANGED <<names, first, stale>>, DOMAIN inodes' = DOMAIN inodes,
           \A i \in DOMAIN inodes : inodes'[i].ref_count = inodes[i].ref_count
    PROVE  ReferenceCount'
    BY DEF ReferenceCount

(* Blocks stay exclusive when inodes keep their blocks or have none.        *)
LEMMA BlocksKept ==
    ASSUME BlocksExclusive, UNCHANGED blocks,
           \A i \in DOMAIN inodes' :
              \/ i \in DOMAIN inodes /\ inodes'[i].data_blocks = inodes[i].data_blocks
              \/ \A b \in FileBlocks : inodes'[i].data_blocks[b] = 0
    PROVE  BlocksExclusive'
<1> SUFFICES ASSUME NEW i \in DOMAIN inodes', NEW j \in DOMAIN inodes',
                    NEW b \in FileBlocks, NEW c \in FileBlocks, inodes'[i].data_blocks[b] # 0
             PROVE  LET s == inodes'[i].data_blocks[b]
                    IN  /\ blocks'[s - 1] = [allocated |-> TRUE, inode_index |-> i]
                        /\ inodes'[j].data_blocks[c] = s => i = j /\ b = c
    BY DEF BlocksExclusive
<1>1. i \in DOMAIN inodes /\ inodes'[i].data_blocks = inodes[i].data_blocks
    OBVIOUS
<1>2. CASE j \in DOMAIN inodes /\ inodes'[j].data_blocks = inodes[j].data_blocks
    BY <1>1, <1>2 DEF BlocksExclusive
<1>3. CASE \A d \in FileBlocks : inodes'[j].data_blocks[d] = 0
    BY <1>1, <1>3 DEF BlocksExclusive
<1>4. QED
    BY <1>2, <1>3
-----------------------------------------------------------------------------
(* While the head name is freed, every search for a name that is not taken  *)
(* follows its links, so a name is only added to an intact table.           *)
LEMMA SearchIntact ==
    ASSUME NamesOK, NEW n \in Names, Searchable(n), n \notin DOMAIN names
    PROVE  stale = NoName
    BY ArgsAssumption DEF NamesOK, Searchable

(* A name is added.                                                         *)
LEMMA AddNameKeeps ==
    ASSUME NamesOK, stale = NoName, NEW n \in Names, n \notin DOMAIN names, NEW i \in 0 .. MaxIndex,
           AddName(n, i), UNCHANGED <<stale, lost>>
    PROVE  NamesOK'
<1>1. /\ names' = [x \in DOMAIN names \cup {n} |-> names'[x]]
      /\ DOMAIN names' = DOMAIN names \cup {n} /\ names'[n] = i
      /\ \A x \in DOMAIN names : x # n => names'[x] = names[x]
    BY DEF AddName, With
<1>2. \A x \in DOMAIN names' : names'[x] \in 0 .. MaxIndex
    BY <1>1 DEF NamesOK
<1>3. names' \in [DOMAIN names' -> 0 .. MaxIndex]
    BY <1>1, <1>2
<1>4. IsFiniteSet(DOMAIN names')
    BY <1>1, FS_AddElement DEF NamesOK
<1>5. first' \in DOMAIN names'
    BY <1>1 DEF NamesOK, AddName
<1>6. QED
    BY <1>1, <1>3, <1>4, <1>5 DEF NamesOK

(* A name is added to an inode that counts it, new or not.                  *)
LEMMA AddNameCounts ==
    ASSUME NamesOK, InodesOK, ReferenceCount, stale = NoName, UNCHANGED stale,
           NEW n \in Names, n \notin DOMAIN names, NEW i \in 0 .. MaxIndex, AddName(n, i),
           DOMAIN inodes' = DOMAIN inodes \cup {i},
           \A j \in DOMAIN inodes : j # i => inodes'[j].ref_count = inodes[j].ref_count,
           inodes'[i].ref_count = IF i \in DOMAIN inodes THEN inodes[i].ref_count + 1 ELSE 1,
           i \notin DOMAIN inodes => \A j \in DOMAIN inodes : j < i
    PROVE  ReferenceCount'
<1>1. /\ DOMAIN names' = DOMAIN names \cup {n} /\ names'[n] = i
      /\ \A x \in DOMAIN names : x # n => names'[x] = names[x]
    BY DEF AddName, With
<1>2. \A x \in DOMAIN names : names[x] \in DOMAIN inodes
    BY DEF ReferenceCount
<1>3. \A j \in DOMAIN inodes : /\ inodes[j].ref_count = Cardinality(NamesOf(names, j))
                               /\ inodes[j].ref_count > 0
    BY DEF ReferenceCount, NamesOf
<1>4. \A x \in DOMAIN names' : names'[x] \in DOMAIN inodes'
    BY <1>1, <1>2
<1>5. ASSUME NEW j \in DOMAIN inodes'
      PROVE  /\ inodes'[j].ref_count = Cardinality(NamesOf(names', j))
             /\ inodes'[j].ref_count > 0
  <2> DEFINE c == Cardinality(NamesOf(names, j))
  <2>1. c \in Nat /\ Cardinality(NamesOf(names', j)) = IF i = j THEN c + 1 ELSE c
    BY NamesOfFacts DEF NamesOK, AddName
  <2>2. j \notin DOMAIN inodes => c = 0
    <3>1. j \notin DOMAIN inodes => NamesOf(names, j) = {}
        BY <1>2 DEF NamesOf
    <3>2. QED
        BY <3>1, FS_EmptySet
  <2>3. j \in DOMAIN inodes => inodes[j].ref_count = c /\ c > 0
    BY <1>3
  <2> HIDE DEF c
  <2>4. CASE j = i
    BY <2>1, <2>2, <2>3, <2>4
  <2>5. CASE j # i
    BY <2>1, <2>3, <2>5
  <2>6. QED
    BY <2>4, <2>5
<1>6. ASSUME NEW j \in DOMAIN inodes' PROVE names'[first'] <= j
  <2>0. i \in Nat /\ \A k \in DOMAIN inodes : k \in Nat
    BY DEF InodesOK
  <2>1. CASE names = <<>>
    <3>1. \A k : NamesOf(names, k) = {}
        BY <2>1 DEF NamesOf
    <3>2. \A k : Cardinality(NamesOf(names, k)) = 0
        BY <3>1, FS_EmptySet
    <3>3. DOMAIN inodes = {}
      <4> SUFFICES ASSUME NEW k \in DOMAIN inodes PROVE FALSE
        OBVIOUS
      <4>1. inodes[k].ref_count = Cardinality(NamesOf(names, k)) /\ inodes[k].ref_count > 0
        BY <1>3
      <4>2. Cardinality(NamesOf(names, k)) = 0
        BY <3>2
      <4>3. QED
        BY <4>1, <4>2
    <3>4. first' = n /\ j = i
        BY <2>1, <3>3 DEF AddName
    <3>5. QED
        BY <1>1, <2>0, <3>4
  <2>2. CASE names # <<>>
    <3>1. first \in DOMAIN names /\ first' = first /\ first # n /\ first # NoName
        BY <2>2, ArgsAssumption DEF NamesOK, AddName
    <3>2. names'[first'] = names[first] /\ \A k \in DOMAIN inodes : names[first] <= k
        BY <1>1, <3>1 DEF ReferenceCount
    <3>3. names[first] \in DOMAIN inodes
        BY <1>2, <3>1
    <3>4. QED
        BY <2>0, <3>2, <3>3
  <2>3. QED
    BY <2>1, <2>2
<1>7. QED
    BY <1>4, <1>5, <1>6 DEF ReferenceCount, NamesOf

(* Two parts of the invariant at once: tables a step leaves alone.          *)
LEMMA PartsSame ==
    ASSUME TablesInv
    PROVE  /\ UNCHANGED inodes => InodesOK'
           /\ UNCHANGED <<names, first, stale, lost>> => NamesOK'
           /\ UNCHANGED descriptors => DescriptorsOK'
           /\ UNCHANGED <<blocks, disk>> => BlocksOK'
           /\ UNCHANGED <<inodes, blocks>> => BlocksExclusive'
           /\ UNCHANGED <<inodes, names, first, stale>> => ReferenceCount'
<1>1. UNCHANGED inodes => InodesOK'
    BY DEF TablesInv, InodesOK
<1>2. UNCHANGED <<names, first, stale, lost>> => NamesOK'
    BY DEF TablesInv, NamesOK
<1>3. UNCHANGED descriptors => DescriptorsOK'
    BY DEF TablesInv, DescriptorsOK
<1>4. UNCHANGED <<blocks, disk>> => BlocksOK'
    BY DEF TablesInv, BlocksOK, DataFileCoversSlots
<1>5. UNCHANGED <<inodes, blocks>> => BlocksExclusive'
    BY DEF TablesInv, BlocksExclusive
<1>6. UNCHANGED <<inodes, names, first, stale>> => ReferenceCount'
    BY DEF TablesInv, ReferenceCount
<1>7. QED
    BY <1>1, <1>2, <1>3, <1>4, <1>5, <1>6

(* A new inode.                                                             *)
LEMMA NewInodeFacts ==
    ASSUME NEW u \in Users, NEW mode \in Modes, NEW refs \in Nat
    PROVE  /\ NewInode(u, mode, refs) \in Inode
           /\ NewInode(u, mode, refs).ref_count = refs
           /\ NewInode(u, mode, refs).data_blocks = [b \in FileBlocks |-> 0]
           /\ NewInode(u, mode, refs).st_size = 0
<1>1. mode \in Mode
    BY ArgsAssumption
<1>2. [b \in FileBlocks |-> 0] \in [FileBlocks -> 0 .. NumBlocks]
    BY BlocksAssumption
<1>3. QED
    BY <1>1, <1>2 DEF NewInode, Inode

(* An inode is added.                                                       *)
LEMMA WithInode ==
    ASSUME InodesOK, NEW i \in 0 .. MaxIndex, NEW v \in Inode, inodes' = With(inodes, i, v)
    PROVE  InodesOK'
<1>1. /\ inodes' = [x \in DOMAIN inodes \cup {i} |-> inodes'[x]]
      /\ DOMAIN inodes' = DOMAIN inodes \cup {i} /\ inodes'[i] = v
      /\ \A x \in DOMAIN inodes : x # i => inodes'[x] = inodes[x]
    BY DEF With
<1>2. \A x \in DOMAIN inodes' : inodes'[x] \in Inode
    BY <1>1 DEF InodesOK
<1>3. QED
    BY <1>1, <1>2 DEF InodesOK

(* The number of a new inode.                                               *)
LEMMA NewNumber ==
    ASSUME InodesOK
    PROVE  LET i == NextNumber(DOMAIN inodes)
           IN  i \in Nat /\ i \notin DOMAIN inodes /\ \A j \in DOMAIN inodes : j < i
<1>1. MaxIndex \in Nat /\ DOMAIN inodes \subseteq 0 .. MaxIndex
    BY ArgsAssumption DEF InodesOK
<1>2. NextNumber(DOMAIN inodes) \in Nat /\ \A j \in DOMAIN inodes : j < NextNumber(DOMAIN inodes)
    BY <1>1, NextNumberAbove
<1>3. QED
    BY <1>2

LEMMA CreateKeeps ==
    ASSUME TablesInv, NEW u \in Users, NEW n \in Names, NEW mode \in Modes, Create(u, n, mode)
    PROVE  TablesInv'
<1>0. n \in DOMAIN names => Refuse(<<"create", u, n, mode>>, "FILENAME_TAKEN")
    BY DEF Create
<1>1. CASE n \in DOMAIN names
    BY <1>0, <1>1, RefuseKeeps
<1>2. CASE n \notin DOMAIN names
  <2> DEFINE i == NextNumber(DOMAIN inodes)
             v == NewInode(u, mode, 1)
  <2>1. /\ Searchable(n) /\ i <= MaxIndex /\ inodes' = With(inodes, i, v) /\ AddName(n, i)
        /\ UNCHANGED <<up, stale, lost, descriptors, blocks, disk>>
    BY <1>2 DEF Create, Answer
  <2>2. i \in Nat /\ i \notin DOMAIN inodes /\ \A j \in DOMAIN inodes : j < i
    BY NewNumber DEF TablesInv
  <2>3. /\ v \in Inode /\ v.ref_count = 1
        /\ v.data_blocks = [b \in FileBlocks |-> 0]
    BY NewInodeFacts
  <2> HIDE DEF i, v
  <2>4. stale = NoName
    BY <1>2, <2>1, SearchIntact DEF TablesInv
  <2>5. i \in 0 .. MaxIndex
    BY <2>1, <2>2, ArgsAssumption
  <2>6. InodesOK'
    BY <2>1, <2>3, <2>5, WithInode DEF TablesInv
  <2>7. NamesOK'
    BY <1>2, <2>1, <2>4, <2>5, AddNameKeeps DEF TablesInv
  <2>8. /\ DOMAIN inodes' = DOMAIN inodes \cup {i} /\ inodes'[i] = v
        /\ \A x \in DOMAIN inodes : x # i => inodes'[x] = inodes[x]
    BY <2>1 DEF With
  <2>9. ReferenceCount'
    BY <1>2, <2>1, <2>2, <2>3, <2>4, <2>5, <2>8, AddNameCounts DEF TablesInv
  <2>10. BlocksExclusive'
    BY <2>1, <2>2, <2>3, <2>8, BlocksKept DEF TablesInv
  <2>11. DescriptorsOK' /\ BlocksOK' /\ up' \in BOOLEAN
    BY <2>1, PartsSame DEF TablesInv
  <2>12. QED
    BY <2>6, <2>7, <2>9, <2>10, <2>11 DEF TablesInv
<1>3. QED
    BY <1>1, <1>2

LEMMA RenameKeeps ==
    ASSUME TablesInv, NEW old \in Names, NEW new \in Names, Rename(old, new)
    PROVE  TablesInv'
<1>1. CASE new \in DOMAIN names \/ old \notin DOMAIN names
    BY <1>1, RefuseKeeps DEF Rename
<1>2. CASE new \notin DOMAIN names /\ old \in DOMAIN names
  <2> DEFINE f == Without(names, old)
             g == With(f, new, names[old])
  <2>1. /\ Searchable(new) /\ names' = g /\ first' = IF first = old THEN new ELSE first
        /\ UNCHANGED <<up, inodes, stale, lost, descriptors, blocks, disk>>
    BY <1>2 DEF Rename, Answer
  <2>2. stale = NoName
    BY <1>2, <2>1, SearchIntact DEF TablesInv
  <2>3. DOMAIN f = DOMAIN names \ {old} /\ \A x \in DOMAIN f : f[x] = names[x]
    BY DEF Without
  <2>4. /\ g = [x \in DOMAIN f \cup {new} |-> g[x]] /\ DOMAIN g = DOMAIN f \cup {new}
        /\ g[new] = names[old] /\ \A x \in DOMAIN f : x # new => g[x] = f[x]
    BY DEF With
  <2>5. \A i : Cardinality(NamesOf(g, i)) = Cardinality(NamesOf(names, i))
    <3> SUFFICES ASSUME NEW i PROVE Cardinality(NamesOf(g, i)) = Cardinality(NamesOf(names, i))
        OBVIOUS
    <3>1. /\ IsFiniteSet(DOMAIN names) /\ IsFiniteSet(DOMAIN f) /\ new \notin DOMAIN f
      <4>1. IsFiniteSet(DOMAIN names)
        BY DEF TablesInv, NamesOK
      <4>2. DOMAIN f \in SUBSET DOMAIN names
        BY <2>3
      <4>3. QED
        BY <1>2, <2>3, <4>1, <4>2, FS_Subset
    <3>2. /\ Cardinality(NamesOf(names, i)) \in Nat
          /\ Cardinality(NamesOf(f, i)) = IF names[old] = i THEN Cardinality(NamesOf(names, i)) - 1
                                          ELSE Cardinality(NamesOf(names, i))
        BY <1>2, <3>1, NamesOfFacts
    <3> HIDE DEF f
    <3>3. Cardinality(NamesOf(g, i)) = IF names[old] = i THEN Cardinality(NamesOf(f, i)) + 1
                                       ELSE Cardinality(NamesOf(f, i))
        BY <3>1, NamesOfFacts
    <3>4. QED
        BY <3>2, <3>3
  <2> HIDE DEF f, g
  <2>6. DOMAIN g = (DOMAIN names \ {old}) \cup {new} /\ g[new] = names[old]
        /\ \A x \in DOMAIN names \ {old} : g[x] = names[x]
    BY <1>2, <2>3, <2>4
  <2>7. NamesOK'
    <3>1. \A x \in DOMAIN g : g[x] \in 0 .. MaxIndex
        BY <1>2, <2>6 DEF TablesInv, NamesOK
    <3>2. g \in [DOMAIN g -> 0 .. MaxIndex]
        BY <2>4, <3>1
    <3>3. IsFiniteSet(DOMAIN g)
      <4>1. IsFiniteSet(DOMAIN names \ {old})
        BY FS_RemoveElement DEF TablesInv, NamesOK
      <4>2. QED
        BY <2>6, <4>1, FS_AddElement
    <3>4. first' \in DOMAIN g
        BY <1>2, <2>1, <2>6 DEF TablesInv, NamesOK
    <3>5. DOMAIN g \subseteq Names
        BY <2>6 DEF TablesInv, NamesOK
    <3>6. QED
        BY <2>1, <2>2, <3>2, <3>3, <3>4, <3>5 DEF TablesInv, NamesOK
  <2>8. ReferenceCount'
    <3>1. \A x \in DOMAIN g : g[x] \in DOMAIN inodes
        BY <1>2, <2>2, <2>6 DEF TablesInv, ReferenceCount
    <3>2. \A i \in DOMAIN inodes : /\ inodes[i].ref_count = Cardinality(NamesOf(g, i))
                                   /\ inodes[i].ref_count > 0
        BY <2>2, <2>5 DEF TablesInv, ReferenceCount, NamesOf
    <3>3. first \in DOMAIN names /\ first # NoName
        BY <1>2, ArgsAssumption DEF TablesInv, NamesOK
    <3>4. g[first'] = names[first]
        BY <2>1, <2>6, <3>3
    <3>5. \A i \in DOMAIN inodes : g[first'] <= i
        BY <2>2, <3>3, <3>4 DEF TablesInv, ReferenceCount
    <3>6. QED
        BY <2>1, <3>1, <3>2, <3>5 DEF ReferenceCount, NamesOf
  <2>9. InodesOK' /\ DescriptorsOK' /\ BlocksOK' /\ BlocksExclusive' /\ up' \in BOOLEAN
    BY <2>1, PartsSame DEF TablesInv
  <2>10. QED
    BY <2>7, <2>8, <2>9 DEF TablesInv
<1>3. QED
    BY <1>1, <1>2
-----------------------------------------------------------------------------
(* The blocks of a file lie within the data file.                           *)
LEMMA BlocksWithin ==
    ASSUME TablesInv, NEW i \in DOMAIN inodes
    PROVE  /\ inodes[i] \in Inode
           /\ inodes[i].data_blocks \in [FileBlocks -> 0 .. NumBlocks]
           /\ \A b \in FileBlocks : inodes[i].data_blocks[b] # 0 =>
                 inodes[i].data_blocks[b] \in 1 .. Len(disk)
<1>1. inodes[i] \in Inode
    BY DEF TablesInv, InodesOK
<1>2. inodes[i].data_blocks \in [FileBlocks -> 0 .. NumBlocks]
    BY <1>1 DEF Inode
<1>3. ASSUME NEW b \in FileBlocks, inodes[i].data_blocks[b] # 0
      PROVE  inodes[i].data_blocks[b] \in 1 .. Len(disk)
  <2>1. PICK s \in 0 .. NumBlocks : s = inodes[i].data_blocks[b]
    BY <1>2
  <2>2. blocks[s - 1] = [allocated |-> TRUE, inode_index |-> i]
    BY <1>3, <2>1 DEF TablesInv, BlocksExclusive
  <2>3. s \in 1 .. NumBlocks /\ s - 1 \in Slots
    BY <1>3, <2>1, BlocksAssumption DEF Slots
  <2>4. s - 1 < Len(disk)
    BY <2>2, <2>3 DEF TablesInv, BlocksOK, DataFileCoversSlots
  <2>5. Len(disk) \in Nat
    BY DEF TablesInv, BlocksOK
  <2>6. QED
    BY <2>1, <2>3, <2>4, <2>5
<1>4. QED
    BY <1>1, <1>2, <1>3

(* What a read gives of a file whose blocks lie within the data file.       *)
LEMMA ReadBackFacts ==
    ASSUME NEW db \in [FileBlocks -> 0 .. NumBlocks], NEW off \in Nat, NEW size \in Nat,
           disk \in Seq(Block), \A b \in FileBlocks : db[b] # 0 => db[b] \in 1 .. Len(disk)
    PROVE  LET r == ReadBack(db, off, size)
           IN  /\ r.ok \in BOOLEAN /\ r.offset \in Nat
               /\ r.ok => /\ r.data \in Seq(Values) /\ Len(r.data) = size
                          /\ off + size <= BlockSize * FileMaxBlocks
<1> DEFINE cur == off \div BlockSize
           total == BlocksFor(off + size)
           missing == {b \in cur .. total - 1 : db[b] = 0}
           stop == CHOOSE b \in missing : \A c \in missing : b <= c
           unit(p) == disk[db[p \div BlockSize]][p % BlockSize]
           r == ReadBack(db, off, size)
<1> USE BlocksAssumption
<1>1. off + size > BlockSize * FileMaxBlocks => r = [ok |-> FALSE, offset |-> off, data |-> <<>>]
    BY DEF ReadBack
<1>2. ~ (off + size > BlockSize * FileMaxBlocks) /\ size > 0 /\ missing # {} =>
          r = [ok |-> FALSE, data |-> <<>>, offset |-> IF stop = cur THEN off ELSE stop * BlockSize]
    BY DEF ReadBack
<1>3. ~ (off + size > BlockSize * FileMaxBlocks) /\ ~ (size > 0 /\ missing # {}) =>
          r = [ok |-> TRUE, offset |-> off + size, data |-> [k \in 1 .. size |-> unit(off + k - 1)]]
    BY DEF ReadBack
<1>4. PICK q \in Nat, y \in 0 .. BlockSize - 1 : cur = q /\ off % BlockSize = y /\ off = q * BlockSize + y
    BY DivMod
<1>5. CASE off + size > BlockSize * FileMaxBlocks
  <2> HIDE DEF r
  <2>1. r = [ok |-> FALSE, offset |-> off, data |-> <<>>]
    BY <1>1, <1>5
  <2>2. r.ok = FALSE /\ r.offset = off
    BY <2>1
  <2>3. QED
    BY <2>2 DEF r
<1>6. CASE ~ (off + size > BlockSize * FileMaxBlocks) /\ size > 0 /\ missing # {}
  <2>1. missing \subseteq Nat
    BY <1>4
  <2>2. \E m \in missing : \A c \in missing : m <= c
    <3> HIDE DEF missing
    <3>1. QED
        BY <1>6, <2>1, LeastExists
  <2>3. stop \in Nat
    <3>1. stop \in missing
        BY <2>2
    <3>2. QED
        BY <2>1, <3>1
  <2> HIDE DEF stop
  <2>4. stop * BlockSize \in Nat
    BY <2>3
  <2> HIDE DEF r, missing
  <2>5. r = [ok |-> FALSE, data |-> <<>>, offset |-> IF stop = cur THEN off ELSE stop * BlockSize]
    BY <1>2, <1>6
  <2>6. r.ok = FALSE /\ r.offset \in Nat
    BY <2>4, <2>5
  <2>7. QED
    BY <2>6 DEF r
<1>7. CASE ~ (off + size > BlockSize * FileMaxBlocks) /\ ~ (size > 0 /\ missing # {})
  <2>1. off + size \in Nat /\ off + size <= BlockSize * FileMaxBlocks
    <3>1. BlockSize * FileMaxBlocks \in Nat
        OBVIOUS
    <3>2. QED
        BY <1>7, <3>1
  <2>2. total \in Nat /\ total <= FileMaxBlocks
    BY <2>1, BlocksForFacts
  <2>3. ASSUME NEW k \in 1 .. size PROVE unit(off + k - 1) \in Values
    <3> DEFINE p == off + k - 1
    <3>1. p \in Nat /\ p < off + size /\ off <= p /\ size > 0
        OBVIOUS
    <3>2. p \div BlockSize < total
        BY <2>1, <3>1, BlocksForFacts
    <3> HIDE DEF p
    <3>3. PICK a \in Nat, z \in 0 .. BlockSize - 1 :
              p \div BlockSize = a /\ p % BlockSize = z /\ p = a * BlockSize + z
        BY <3>1, DivMod
    <3>4. q <= a
      <4> SUFFICES ASSUME a < q PROVE FALSE
        BY <1>4, <3>3
      <4>1. a * BlockSize + BlockSize <= q * BlockSize
        BY MultipleStep
      <4>2. a * BlockSize \in Nat /\ q * BlockSize \in Nat
        OBVIOUS
      <4>3. QED
        BY <1>4, <3>1, <3>3, <4>1, <4>2
    <3>5. a \in q .. total - 1 /\ a \in FileBlocks
        BY <2>2, <3>2, <3>3, <3>4 DEF FileBlocks
    <3>6. db[a] # 0
        BY <1>4, <1>7, <3>1, <3>5
    <3>7. disk[db[a]] \in Block
        BY <3>5, <3>6
    <3>8. disk[db[a]][z] \in Values
        BY <3>7 DEF Block
    <3>9. QED
        BY <3>3, <3>8 DEF p
  <2> HIDE DEF unit, total, missing
  <2>4. [k \in 1 .. size |-> unit(off + k - 1)] \in [1 .. size -> Values]
    BY <2>3
  <2>5. /\ [k \in 1 .. size |-> unit(off + k - 1)] \in Seq(Values)
        /\ Len([k \in 1 .. size |-> unit(off + k - 1)]) = size
    BY <2>4, FunctionIsSeq
  <2> HIDE DEF r
  <2>6. r.ok = TRUE /\ r.offset = off + size /\ r.data = [k \in 1 .. size |-> unit(off + k - 1)]
    BY <1>3, <1>7
  <2>7. r.ok \in BOOLEAN /\ r.offset \in Nat /\ r.data \in Seq(Values) /\ Len(r.data) = size
    BY <2>1, <2>5, <2>6
  <2>8. QED
    BY <2>1, <2>7 DEF r
<1>8. QED
    BY <1>5, <1>6, <1>7

(* A write to inode i, old or new, leaves the blocks exclusive: what it     *)
(* takes was free, and so of no file.                                       *)
LEMMA BlocksWritten ==
    ASSUME TablesInv, NEW i \in Nat, NEW db, NEW w, WroteBlocks(w, i), WroteFile(w, i, db),
           blocks' = w.blocks, DOMAIN inodes' = DOMAIN inodes \cup {i},
           inodes'[i].data_blocks = w.data_blocks,
           \A j \in DOMAIN inodes : j # i => inodes'[j].data_blocks = inodes[j].data_blocks,
           \/ i \in DOMAIN inodes /\ db = inodes[i].data_blocks
           \/ i \notin DOMAIN inodes /\ \A b \in FileBlocks : db[b] = 0
    PROVE  BlocksExclusive'
\* A block of x that it had before.
<1> DEFINE Old(x, b) == /\ x \in DOMAIN inodes /\ inodes[x].data_blocks[b] # 0
                        /\ inodes'[x].data_blocks[b] = inodes[x].data_blocks[b]
\* A block that the write took.
           Taken(x, b) == /\ x = i /\ w.data_blocks[b] - 1 \in FreeSlots
                          /\ w.blocks[w.data_blocks[b] - 1] = [allocated |-> TRUE, inode_index |-> i]
                          /\ \A c \in FileBlocks : w.data_blocks[c] = w.data_blocks[b] =>
                                w.data_blocks[c] = db[c] \/ b = c
<1>1. ASSUME NEW x, NEW b \in FileBlocks, Old(x, b), NEW s, s = inodes'[x].data_blocks[b]
      PROVE  s - 1 \in Slots /\ s - 1 \notin FreeSlots /\ s # 0
             /\ w.blocks[s - 1] = [allocated |-> TRUE, inode_index |-> x]
  <2>1. x \in DOMAIN inodes /\ s = inodes[x].data_blocks[b] /\ s # 0
    BY <1>1
  <2>2. blocks[s - 1] = [allocated |-> TRUE, inode_index |-> x]
    BY <2>1 DEF TablesInv, BlocksExclusive
  <2>3. s \in 0 .. NumBlocks
    BY <2>1, BlocksWithin
  <2>4. s - 1 \in Slots
    BY <2>1, <2>3, BlocksAssumption DEF Slots
  <2>5. s - 1 \notin FreeSlots
    BY <2>2 DEF FreeSlots
  <2>6. w.blocks[s - 1] = blocks[s - 1]
    BY <2>2, <2>4 DEF WroteBlocks
  <2>7. QED
    BY <2>1, <2>2, <2>4, <2>5, <2>6
<1>2. ASSUME NEW x \in DOMAIN inodes', NEW b \in FileBlocks, inodes'[x].data_blocks[b] # 0
      PROVE  Old(x, b) \/ Taken(x, b)
  <2>1. CASE x # i
    BY <1>2, <2>1
  <2>2. CASE x = i
    <3>1. inodes'[x].data_blocks[b] = w.data_blocks[b]
        BY <2>2
    <3>2. w.data_blocks[b] = db[b] \/ Taken(x, b)
        BY <2>2 DEF WroteFile
    <3>3. QED
        BY <1>2, <2>2, <3>1, <3>2
  <2>3. QED
    BY <2>1, <2>2
<1>3. ASSUME NEW x, NEW b \in FileBlocks, Taken(x, b), NEW s, s = inodes'[x].data_blocks[b]
      PROVE  x = i /\ s - 1 \in FreeSlots /\ w.blocks[s - 1] = [allocated |-> TRUE, inode_index |-> x]
    BY <1>3
<1>a. ASSUME NEW x, NEW b \in FileBlocks, Taken(x, b), NEW c \in FileBlocks,
             inodes'[i].data_blocks[c] = inodes'[x].data_blocks[b]
      PROVE  inodes'[i].data_blocks[c] = db[c] \/ b = c
    BY <1>a
<1>4. ASSUME NEW x, NEW b \in FileBlocks, NEW y, NEW c \in FileBlocks, Old(x, b), Old(y, c),
             inodes'[x].data_blocks[b] = inodes'[y].data_blocks[c]
      PROVE  x = y /\ b = c
  <2>1. /\ x \in DOMAIN inodes /\ y \in DOMAIN inodes /\ inodes[x].data_blocks[b] # 0
        /\ inodes[x].data_blocks[b] = inodes[y].data_blocks[c]
    BY <1>4
  <2>2. inodes[x].data_blocks[b] # 0 =>
            /\ blocks[inodes[x].data_blocks[b] - 1] = [allocated |-> TRUE, inode_index |-> x]
            /\ inodes[y].data_blocks[c] = inodes[x].data_blocks[b] => x = y /\ b = c
    BY <2>1 DEF TablesInv, BlocksExclusive
  <2>3. QED
    BY <2>1, <2>2
<1>5. ASSUME NEW c \in FileBlocks, inodes'[i].data_blocks[c] = db[c], db[c] # 0 PROVE Old(i, c)
    BY <1>5
<1>6. 0 - 1 \notin FreeSlots
    BY DEF FreeSlots, Slots
<1> HIDE DEF Old, Taken
<1> SUFFICES ASSUME NEW x \in DOMAIN inodes', NEW y \in DOMAIN inodes',
                    NEW b \in FileBlocks, NEW c \in FileBlocks
             PROVE  LET s == inodes'[x].data_blocks[b]
                    IN  s # 0 => /\ blocks'[s - 1] = [allocated |-> TRUE, inode_index |-> x]
                                 /\ inodes'[y].data_blocks[c] = s => x = y /\ b = c
    BY DEF BlocksExclusive
<1> SUFFICES ASSUME NEW s, s = inodes'[x].data_blocks[b], s # 0
             PROVE  /\ blocks'[s - 1] = [allocated |-> TRUE, inode_index |-> x]
                    /\ inodes'[y].data_blocks[c] = s => x = y /\ b = c
    OBVIOUS
<1>7. Old(x, b) \/ Taken(x, b)
    BY <1>2
<1>8. w.blocks[s - 1] = [allocated |-> TRUE, inode_index |-> x]
    BY <1>1, <1>3, <1>7
<1>9. ASSUME inodes'[y].data_blocks[c] = s PROVE x = y /\ b = c
  <2>0. s = inodes'[y].data_blocks[c]
    BY <1>9
  <2>1. Old(y, c) \/ Taken(y, c)
    BY <1>2, <1>9
  <2>2. CASE Old(x, b) /\ Old(y, c)
    BY <1>4, <1>9, <2>2
  <2>3. CASE Old(x, b) /\ Taken(y, c)
    <3>1. s - 1 \notin FreeSlots
        BY <1>1, <2>3
    <3>2. s - 1 \in FreeSlots
        BY <1>3, <2>0, <2>3
    <3>3. QED
        BY <3>1, <3>2
  <2>4. CASE Taken(x, b) /\ Old(y, c)
    <3>1. s - 1 \notin FreeSlots
        BY <1>1, <1>9, <2>4
    <3>2. s - 1 \in FreeSlots
        BY <1>3, <2>4
    <3>3. QED
        BY <3>1, <3>2
  <2>5. CASE Taken(x, b) /\ Taken(y, c)
    <3>1. x = i /\ s - 1 \in FreeSlots
        BY <1>3, <2>5
    <3>2. y = i
        BY <1>3, <1>9, <2>5
    <3>3. CASE b # c
      <4>1. inodes'[i].data_blocks[c] = db[c]
        BY <1>a, <2>0, <2>5, <3>2, <3>3
      <4>2. db[c] # 0
        BY <1>9, <3>2, <4>1
      <4>3. Old(i, c)
        BY <1>5, <4>1, <4>2
      <4>4. s - 1 \notin FreeSlots
        BY <1>1, <1>9, <3>2, <4>3
      <4>5. QED
        BY <3>1, <4>4
    <3>4. QED
        BY <3>1, <3>2, <3>3
  <2>6. QED
    BY <1>7, <2>1, <2>2, <2>3, <2>4, <2>5
<1>10. QED
    BY <1>8, <1>9
-----------------------------------------------------------------------------
(* The entry of an inode changes, and its names and their count may.        *)
LEMMA InodeChanged ==
    ASSUME TablesInv, NEW i \in DOMAIN inodes, NEW v \in Inode, inodes' = [inodes EXCEPT ![i] = v]
    PROVE  /\ InodesOK' /\ DOMAIN inodes' = DOMAIN inodes /\ inodes'[i] = v
           /\ \A j \in DOMAIN inodes : j # i => inodes'[j] = inodes[j]
           /\ v.ref_count = inodes[i].ref_count /\ UNCHANGED <<names, first, stale>> => ReferenceCount'
           /\ v.data_blocks = inodes[i].data_blocks /\ UNCHANGED blocks => BlocksExclusive'
<1>1. /\ DOMAIN inodes' = DOMAIN inodes /\ inodes'[i] = v
      /\ \A j \in DOMAIN inodes : j # i => inodes'[j] = inodes[j]
    OBVIOUS
<1>2. InodesOK'
    BY DEF TablesInv, InodesOK
<1>3. ASSUME v.ref_count = inodes[i].ref_count, UNCHANGED <<names, first, stale>> PROVE ReferenceCount'
    BY <1>1, <1>3, CountsKept DEF TablesInv
<1>4. ASSUME v.data_blocks = inodes[i].data_blocks, UNCHANGED blocks PROVE BlocksExclusive'
    BY <1>1, <1>4, BlocksKept DEF TablesInv
<1>5. QED
    BY <1>1, <1>2, <1>3, <1>4

(* What an update of some fields of an inode leaves.                        *)
LEMMA InodeFields ==
    ASSUME NEW v \in Inode
    PROVE  /\ \A m \in Mode : LET w == [v EXCEPT !.mode = m]
                              IN  w \in Inode /\ w.ref_count = v.ref_count /\ w.data_blocks = v.data_blocks
           /\ \A c \in Nat : LET w == [v EXCEPT !.ref_count = c]
                             IN  w \in Inode /\ w.ref_count = c /\ w.data_blocks = v.data_blocks
    BY DEF Inode

LEMMA ChmodeKeeps ==
    ASSUME TablesInv, NEW u, NEW n, NEW mode \in Modes, Chmode(u, n, mode)
    PROVE  TablesInv'
<1>1. CASE ~WritePermitted(u, n) \/ n \notin DOMAIN names
    BY <1>1, RefuseKeeps DEF Chmode
<1>2. CASE WritePermitted(u, n) /\ n \in DOMAIN names
  <2> DEFINE i == names[n]
             kept == mode % UnsignedRange
             v == [inodes[i] EXCEPT !.mode = kept]
  <2>1. i \in DOMAIN inodes
    BY <1>2 DEF WritePermitted, Resolved
  <2>2. /\ inodes' = [inodes EXCEPT ![i] = v]
        /\ UNCHANGED <<up, names, first, stale, lost, descriptors, blocks, disk>>
    BY <1>2 DEF Chmode, Answer
  <2>3. inodes[i] \in Inode /\ kept \in Mode
    <3>1. mode \in Int /\ UnsignedRange \in Nat \ {0}
        BY ArgsAssumption DEF Mode
    <3>2. kept \in Int
        BY <3>1
    <3>3. QED
        BY <2>1, <3>2 DEF TablesInv, InodesOK, Mode
  <2>4. v \in Inode /\ v.ref_count = inodes[i].ref_count /\ v.data_blocks = inodes[i].data_blocks
    BY <2>3, InodeFields
  <2> HIDE DEF i, v
  <2>5. InodesOK' /\ ReferenceCount' /\ BlocksExclusive'
    BY <2>1, <2>2, <2>4, InodeChanged
  <2>6. NamesOK' /\ DescriptorsOK' /\ BlocksOK' /\ up' \in BOOLEAN
    BY <2>2, PartsSame DEF TablesInv
  <2>7. QED
    BY <2>5, <2>6 DEF TablesInv
<1>3. QED
    BY <1>1, <1>2

LEMMA LinkKeeps ==
    ASSUME TablesInv, NEW u, NEW n \in Names, NEW new \in Names, Link(u, n, new)
    PROVE  TablesInv'
<1>1. CASE ~ReadPermitted(u, n) \/ new \in DOMAIN names
    BY <1>1, RefuseKeeps DEF Link
<1>2. CASE ReadPermitted(u, n) /\ new \notin DOMAIN names
  <2> DEFINE i == Resolved(n)
             v == [inodes[i] EXCEPT !.ref_count = @ + 1]
  <2>1. i \in DOMAIN inodes
    BY <1>2 DEF ReadPermitted
  <2>2. /\ Searchable(new) /\ inodes' = [inodes EXCEPT ![i] = v] /\ AddName(new, i)
        /\ UNCHANGED <<up, stale, lost, descriptors, blocks, disk>>
    BY <1>2 DEF Link, Answer
  <2>3. inodes[i] \in Inode /\ inodes[i].ref_count \in Nat /\ i \in 0 .. MaxIndex
    BY <2>1 DEF TablesInv, InodesOK, Inode
  <2>4. v \in Inode /\ v.ref_count = inodes[i].ref_count + 1 /\ v.data_blocks = inodes[i].data_blocks
    <3>1. PICK c \in Nat : c = inodes[i].ref_count + 1
        BY <2>3
    <3>2. v = [inodes[i] EXCEPT !.ref_count = c]
        BY <3>1
    <3> HIDE DEF v
    <3>3. QED
        BY <2>3, <3>1, <3>2, InodeFields
  <2> HIDE DEF i, v
  <2>5. stale = NoName
    BY <1>2, <2>2, SearchIntact DEF TablesInv
  <2>6. /\ InodesOK' /\ DOMAIN inodes' = DOMAIN inodes /\ inodes'[i] = v /\ BlocksExclusive'
        /\ \A j \in DOMAIN inodes : j # i => inodes'[j] = inodes[j]
    BY <2>1, <2>2, <2>4, InodeChanged
  <2>7. NamesOK'
    BY <1>2, <2>2, <2>3, <2>5, AddNameKeeps DEF TablesInv
  <2>8. ReferenceCount'
    <3>1. DOMAIN inodes' = DOMAIN inodes \cup {i}
        BY <2>1, <2>6
    <3>2. inodes'[i].ref_count = IF i \in DOMAIN inodes THEN inodes[i].ref_count + 1 ELSE 1
        BY <2>1, <2>4, <2>6
    <3>3. \A j \in DOMAIN inodes : j # i => inodes'[j].ref_count = inodes[j].ref_count
        BY <2>6
    <3>4. QED
        BY <1>2, <2>1, <2>2, <2>3, <2>5, <3>1, <3>2, <3>3, AddNameCounts DEF TablesInv
  <2>9. DescriptorsOK' /\ BlocksOK' /\ up' \in BOOLEAN
    BY <2>2, PartsSame DEF TablesInv
  <2>10. QED
    BY <2>6, <2>7, <2>8, <2>9 DEF TablesInv
<1>3. QED
    BY <1>1, <1>2

(* An operation on the descriptors leaves the other tables.                 *)
LEMMA DescriptorsOnly ==
    ASSUME TablesInv, DescriptorsOK', up' \in BOOLEAN,
           UNCHANGED <<inodes, names, first, stale, lost, blocks, disk>>
    PROVE  TablesInv'
<1>1. InodesOK' /\ NamesOK' /\ BlocksOK' /\ BlocksExclusive' /\ ReferenceCount'
    BY PartsSame
<1>2. QED
    BY <1>1 DEF TablesInv

(* An offset moves.                                                         *)
LEMMA OffsetKeeps ==
    ASSUME DescriptorsOK, NEW d \in DOMAIN descriptors, NEW off \in Nat,
           descriptors' = [descriptors EXCEPT ![d] = [@ EXCEPT !.offset = off]]
    PROVE  DescriptorsOK'
<1>1. descriptors[d] \in Descriptor
    BY DEF DescriptorsOK
<1>2. [descriptors[d] EXCEPT !.offset = off] \in Descriptor
    BY <1>1 DEF Descriptor
<1>3. QED
    BY <1>2 DEF DescriptorsOK

LEMMA OpenKeeps ==
    ASSUME TablesInv, NEW u, NEW n, NEW flag, Open(u, n, flag)
    PROVE  TablesInv'
<1> DEFINE refused == \/ flag \notin {"READ_ONLY", "WRITE_ONLY"}
                      \/ flag = "READ_ONLY" /\ ~ReadPermitted(u, n)
                      \/ flag = "WRITE_ONLY" /\ ~WritePermitted(u, n)
                      \/ Writer(Resolved(n))
<1>1. CASE refused
    BY <1>1, RefuseKeeps DEF Open
<1>2. CASE ~refused
  <2> DEFINE d == NextNumber(DOMAIN descriptors)
             v == [node_index |-> Resolved(n), mode |-> flag, offset |-> 0]
  <2>1. /\ d <= MaxDesc /\ descriptors' = With(descriptors, d, v)
        /\ UNCHANGED <<up, inodes, names, first, stale, lost, blocks, disk>>
    BY <1>2 DEF Open, Answer
  <2>2. Resolved(n) \in Nat /\ v \in Descriptor
    BY <1>2 DEF TablesInv, NamesOK, Resolved, Descriptor
  <2>3. d \in Nat
    <3>1. MaxDesc \in Nat /\ DOMAIN descriptors \subseteq 0 .. MaxDesc
        BY ArgsAssumption DEF TablesInv, DescriptorsOK
    <3>2. QED
        BY <3>1, NextNumberAbove
  <2> HIDE DEF d, v
  <2>4. d \in 0 .. MaxDesc
    BY <2>1, <2>3, ArgsAssumption
  <2>5. /\ descriptors' = [x \in DOMAIN descriptors \cup {d} |-> descriptors'[x]]
        /\ DOMAIN descriptors' = DOMAIN descriptors \cup {d} /\ descriptors'[d] = v
        /\ \A x \in DOMAIN descriptors : x # d => descriptors'[x] = descriptors[x]
    BY <2>1 DEF With
  <2>6. \A x \in DOMAIN descriptors' : descriptors'[x] \in Descriptor
    BY <2>2, <2>5 DEF TablesInv, DescriptorsOK
  <2>7. DescriptorsOK'
    BY <2>4, <2>5, <2>6 DEF TablesInv, DescriptorsOK
  <2>8. QED
    BY <2>1, <2>7, DescriptorsOnly DEF TablesInv
<1>3. QED
    BY <1>1, <1>2

LEMMA CloseKeeps ==
    ASSUME TablesInv, NEW d, Close(d)
    PROVE  TablesInv'
<1>1. CASE d \notin DOMAIN descriptors
    BY <1>1, RefuseKeeps DEF Close
<1>2. CASE d \in DOMAIN descriptors
  <2>1. /\ descriptors' = [x \in DOMAIN descriptors \ {d} |-> descriptors[x]]
        /\ UNCHANGED <<up, inodes, names, first, stale, lost, blocks, disk>>
    BY <1>2 DEF Close, Answer, Without
  <2>2. DescriptorsOK'
    BY <2>1 DEF TablesInv, DescriptorsOK
  <2>3. QED
    BY <2>1, <2>2, DescriptorsOnly DEF TablesInv
<1>3. QED
    BY <1>1, <1>2

LEMMA SeekKeeps ==
    ASSUME TablesInv, NEW d, NEW off \in Sizes, Seek(d, off)
    PROVE  TablesInv'
<1> DEFINE refused == ~Attached(d) \/ off > inodes[descriptors[d].node_index].st_size
<1>1. CASE refused
    BY <1>1, RefuseKeeps DEF Seek
<1>2. CASE ~refused
  <2>1. /\ d \in DOMAIN descriptors /\ off \in Nat
        /\ descriptors' = [descriptors EXCEPT ![d] = [@ EXCEPT !.offset = off]]
        /\ UNCHANGED <<up, inodes, names, first, stale, lost, blocks, disk>>
    BY <1>2, ArgsAssumption DEF Seek, Answer, Attached
  <2>2. DescriptorsOK'
    BY <2>1, OffsetKeeps DEF TablesInv
  <2>3. QED
    BY <2>1, <2>2, DescriptorsOnly DEF TablesInv
<1>3. QED
    BY <1>1, <1>2

(* What a descriptor refers to.                                             *)
LEMMA AttachedFacts ==
    ASSUME TablesInv, NEW d, Attached(d)
    PROVE  /\ d \in DOMAIN descriptors /\ descriptors[d].node_index \in DOMAIN inodes
           /\ descriptors[d].offset \in Nat /\ descriptors[d].node_index \in Nat
           /\ descriptors[d].mode \in {"READ_ONLY", "WRITE_ONLY"}
    BY DEF TablesInv, DescriptorsOK, Descriptor, Attached

LEMMA ReadKeeps ==
    ASSUME TablesInv, NEW d, NEW size \in Sizes, Read(d, size)
    PROVE  TablesInv'
<1>1. CASE ~Attached(d)
    BY <1>1, RefuseKeeps DEF Read
<1>2. CASE Attached(d)
  <2> DEFINE i == descriptors[d].node_index
             off == descriptors[d].offset
             r == ReadBack(inodes[i].data_blocks, off, size)
  <2>1. /\ descriptors' = [descriptors EXCEPT ![d] = [@ EXCEPT !.offset = r.offset]]
        /\ UNCHANGED <<up, inodes, names, first, stale, lost, blocks, disk>>
    BY <1>2 DEF Read
  <2>2. d \in DOMAIN descriptors /\ i \in DOMAIN inodes /\ off \in Nat /\ size \in Nat
    BY <1>2, AttachedFacts, ArgsAssumption
  <2> HIDE DEF i, off
  <2>3. r.offset \in Nat
    <3>1. /\ inodes[i].data_blocks \in [FileBlocks -> 0 .. NumBlocks] /\ disk \in Seq(Block)
          /\ \A b \in FileBlocks : inodes[i].data_blocks[b] # 0 =>
                inodes[i].data_blocks[b] \in 1 .. Len(disk)
        BY <2>2, BlocksWithin DEF TablesInv, BlocksOK
    <3>2. QED
        BY <2>2, <3>1, ReadBackFacts
  <2> HIDE DEF r
  <2>4. DescriptorsOK'
    BY <2>1, <2>2, <2>3, OffsetKeeps DEF TablesInv
  <2>5. QED
    BY <2>1, <2>4, DescriptorsOnly DEF TablesInv
<1>3. QED
    BY <1>1, <1>2
-----------------------------------------------------------------------------
\* A step that keeps the blocks of every inode and what they hold.
KeepsBlocks ==
    /\ \A j \in DOMAIN inodes \cap DOMAIN inodes' : inodes'[j].data_blocks = inodes[j].data_blocks
    /\ \A s \in 1 .. Len(disk) : disk'[s] = disk[s]
    /\ Len(disk) <= Len(disk')

\* A step that changes one inode that is open for writing, and its blocks.
Writes(i) ==
    /\ i \in DOMAIN inodes /\ Writer(i)
    /\ \A j \in DOMAIN inodes : j # i => inodes'[j].data_blocks = inodes[j].data_blocks
    /\ \A s \in 1 .. Len(disk) :
          disk'[s] = disk[s] \/ \E b \in FileBlocks : inodes[i].data_blocks[b] = s
    /\ Len(disk) <= Len(disk')

(* A write changes the blocks of one inode, which is open for writing.      *)
LEMMA WriteKeeps ==
    ASSUME TablesInv, NEW d, NEW buf \in Buffers, Write(d, buf)
    PROVE  TablesInv' /\ (UNCHANGED <<inodes, disk>> \/ \E i : Writes(i))
<1> DEFINE refused == \/ ~Attached(d)
                      \/ descriptors[d].mode = "READ_ONLY"
                      \/ descriptors[d].offset + Len(buf) > BlockSize * FileMaxBlocks
<1>1. CASE refused
    BY <1>1, RefuseKeeps DEF Write, tables
<1>2. CASE ~refused
  <2> DEFINE i == descriptors[d].node_index
             off == descriptors[d].offset
             db == inodes[i].data_blocks
             w == Written(i, db, off, buf)
             end == off + Len(buf)
             size == IF w.ok THEN end ELSE inodes[i].st_size
             v == [inodes[i] EXCEPT !.data_blocks = w.data_blocks, !.st_size = size]
             moved == IF w.ok THEN end ELSE off
  <2>0. inodes' = [inodes EXCEPT ![i] = v]
    BY <1>2 DEF Write, Answer
  <2>1. /\ descriptors' = [descriptors EXCEPT ![d] = [@ EXCEPT !.offset = moved]]
        /\ blocks' = w.blocks /\ disk' = w.disk
        /\ UNCHANGED <<up, names, first, stale, lost>>
    BY <1>2 DEF Write, Answer
  <2>2. /\ d \in DOMAIN descriptors /\ i \in DOMAIN inodes /\ off \in Nat /\ i \in Nat
    BY <1>2, AttachedFacts
  <2>3. buf \in Seq(Values) /\ end \in Nat /\ ~ (end > BlockSize * FileMaxBlocks)
    BY <1>2, <2>2, ArgsAssumption
  <2>4. end <= BlockSize * FileMaxBlocks
    <3>1. BlockSize * FileMaxBlocks \in Nat
        BY BlocksAssumption
    <3> HIDE DEF end
    <3>2. QED
        BY <2>3, <3>1
  <2> HIDE DEF i, off
  <2>5. inodes[i] \in Inode /\ db \in [FileBlocks -> 0 .. NumBlocks] /\ inodes[i].st_size \in Nat
    BY <2>2, BlocksWithin DEF Inode
  <2>6. Writable(i, db, off, buf)
    BY <2>2, <2>3, <2>4, <2>5 DEF Writable, TablesInv, BlocksOK
  <2>7. w.ok \in BOOLEAN /\ WroteBlocks(w, i) /\ WroteDisk(w, db) /\ WroteFile(w, i, db)
    <3> HIDE DEF db
    <3>1. QED
        BY <2>6, WrittenFacts
  <2> HIDE DEF w, end
  <2>8. size \in Nat /\ moved \in Nat
    BY <2>2, <2>3, <2>5
  <2>9. v \in Inode /\ v.ref_count = inodes[i].ref_count /\ v.data_blocks = w.data_blocks
    <3>1. w.data_blocks \in [FileBlocks -> 0 .. NumBlocks]
        BY <2>7 DEF WroteFile
    <3>2. PICK a \in [FileBlocks -> 0 .. NumBlocks], z \in Nat : a = w.data_blocks /\ z = size
        BY <2>8, <3>1
    <3>3. v = [inodes[i] EXCEPT !.data_blocks = a, !.st_size = z]
        BY <3>2
    <3> HIDE DEF v
    <3>4. QED
        BY <2>5, <3>2, <3>3 DEF Inode
  <2> HIDE DEF size, moved
  <2> HIDE DEF v
  <2>10. /\ InodesOK' /\ DOMAIN inodes' = DOMAIN inodes /\ inodes'[i] = v
         /\ \A j \in DOMAIN inodes : j # i => inodes'[j] = inodes[j]
         /\ ReferenceCount'
    BY <2>0, <2>1, <2>2, <2>9, InodeChanged
  <2>11. BlocksExclusive'
    <3> HIDE DEF db
    <3>1. DOMAIN inodes' = DOMAIN inodes \cup {i} /\ db = inodes[i].data_blocks
        BY <2>2, <2>10 DEF db
    <3>2. inodes'[i].data_blocks = w.data_blocks
        BY <2>9, <2>10
    <3>3. \A j \in DOMAIN inodes : j # i => inodes'[j].data_blocks = inodes[j].data_blocks
        BY <2>10
    <3>4. QED
        BY <2>1, <2>2, <2>7, <3>1, <3>2, <3>3, BlocksWritten
  <2>12. BlocksOK'
    BY <2>1, <2>7 DEF BlocksOK, WroteBlocks, WroteDisk, DataFileCoversSlots
  <2>13. DescriptorsOK'
    BY <2>1, <2>2, <2>8, OffsetKeeps DEF TablesInv
  <2>14. NamesOK' /\ up' \in BOOLEAN
    BY <2>1, PartsSame DEF TablesInv
  <2>15. Writes(i)
    <3>1. Writer(i)
        BY <1>2, AttachedFacts DEF Writer, i
    <3>2. \A s \in 1 .. Len(disk) :
              disk'[s] = disk[s] \/ \E b \in FileBlocks : inodes[i].data_blocks[b] = s
        BY <2>1, <2>7 DEF WroteDisk
    <3>3. Len(disk) <= Len(disk')
        BY <2>1, <2>7 DEF WroteDisk
    <3>4. QED
        BY <2>2, <2>10, <3>1, <3>2, <3>3 DEF Writes
  <2>16. QED
    BY <2>10, <2>11, <2>12, <2>13, <2>14, <2>15 DEF TablesInv
<1>3. QED
    BY <1>1, <1>2

(* A copy whose read fails leaves an empty file, one whose write fails what *)
(* was written.                                                             *)
LEMMA SymlinkKeeps ==
    ASSUME TablesInv, NEW u \in Users, NEW n, NEW new \in Names, NEW mode \in Modes,
           Symlink(u, n, new, mode)
    PROVE  TablesInv' /\ KeepsBlocks
<1> DEFINE refused == ~ReadPermitted(u, n) \/ n \notin DOMAIN names \/ new \in DOMAIN names
<1>1. CASE refused
    BY <1>1, RefuseKeeps DEF Symlink, tables, KeepsBlocks
<1>2. CASE ~refused
  <2> DEFINE parent == inodes[names[n]]
             i == NextNumber(DOMAIN inodes)
             child == NewInode(u, mode, 1)
             r == ReadBack(parent.data_blocks, 0, parent.st_size)
             db == child.data_blocks
             w == Written(i, db, 0, r.data)
             size == IF w.ok THEN parent.st_size ELSE 0
             full == [child EXCEPT !.data_blocks = w.data_blocks, !.st_size = size]
             v == IF ~r.ok THEN child ELSE full
  <2>1. /\ Searchable(new) /\ i <= MaxIndex
        /\ inodes' = With(inodes, i, v)
        /\ blocks' = IF r.ok THEN w.blocks ELSE blocks
        /\ disk' = IF r.ok THEN w.disk ELSE disk
        /\ AddName(new, i)
        /\ UNCHANGED <<up, stale, lost, descriptors>>
    BY <1>2 DEF Symlink, Answer
  <2>2. i \in Nat /\ i \notin DOMAIN inodes /\ \A j \in DOMAIN inodes : j < i
    BY NewNumber DEF TablesInv
  <2> HIDE DEF i
  <2>3. names[n] \in DOMAIN inodes
    BY <1>2 DEF ReadPermitted, Resolved
  <2>4. /\ child \in Inode /\ child.ref_count = 1 /\ db = [b \in FileBlocks |-> 0]
        /\ db \in [FileBlocks -> 0 .. NumBlocks]
    BY NewInodeFacts, BlocksAssumption
  <2>5. /\ parent.data_blocks \in [FileBlocks -> 0 .. NumBlocks] /\ parent.st_size \in Nat
        /\ \A b \in FileBlocks : parent.data_blocks[b] # 0 => parent.data_blocks[b] \in 1 .. Len(disk)
    BY <2>3, BlocksWithin DEF Inode
  <2>6. /\ r.ok \in BOOLEAN
        /\ r.ok => /\ r.data \in Seq(Values) /\ Len(r.data) = parent.st_size
                   /\ 0 + parent.st_size <= BlockSize * FileMaxBlocks
    <3> HIDE DEF parent
    <3>1. disk \in Seq(Block) /\ 0 \in Nat
        BY DEF TablesInv, BlocksOK
    <3>2. QED
        BY <2>5, <3>1, ReadBackFacts
  <2> HIDE DEF r, parent, child
  <2>7. r.ok => w.ok \in BOOLEAN /\ WroteBlocks(w, i) /\ WroteDisk(w, db) /\ WroteFile(w, i, db)
    <3> HIDE DEF db
    <3> SUFFICES ASSUME r.ok
                 PROVE  w.ok \in BOOLEAN /\ WroteBlocks(w, i) /\ WroteDisk(w, db) /\ WroteFile(w, i, db)
        OBVIOUS
    <3>1. 0 + Len(r.data) <= BlockSize * FileMaxBlocks
        BY <2>6
    <3>2. Writable(i, db, 0, r.data)
        BY <2>2, <2>4, <2>6, <3>1 DEF Writable, TablesInv, BlocksOK
    <3>3. QED
        BY <3>2, WrittenFacts
  <2> HIDE DEF w, db
  <2>8. size \in Nat
    BY <2>5
  <2> HIDE DEF size
  <2>9. r.ok => full \in Inode /\ full.ref_count = 1 /\ full.data_blocks = w.data_blocks
    <3>1. r.ok => w.data_blocks \in [FileBlocks -> 0 .. NumBlocks]
        BY <2>7 DEF WroteFile
    <3> SUFFICES ASSUME r.ok
                 PROVE  full \in Inode /\ full.ref_count = 1 /\ full.data_blocks = w.data_blocks
        OBVIOUS
    <3>2. PICK a \in [FileBlocks -> 0 .. NumBlocks], z \in Nat : a = w.data_blocks /\ z = size
        BY <2>8, <3>1
    <3>3. full = [child EXCEPT !.data_blocks = a, !.st_size = z]
        BY <3>2
    <3> HIDE DEF full
    <3>4. QED
        BY <2>4, <3>2, <3>3 DEF Inode
  <2> HIDE DEF full
  <2>10. v \in Inode /\ v.ref_count = 1 /\ v.data_blocks = IF r.ok THEN w.data_blocks ELSE db
    BY <2>4, <2>6, <2>9 DEF db
  <2> HIDE DEF v
  <2>11. /\ DOMAIN inodes' = DOMAIN inodes \cup {i} /\ inodes'[i] = v
         /\ \A x \in DOMAIN inodes : x # i => inodes'[x] = inodes[x]
    BY <2>1 DEF With
  <2>12. stale = NoName
    BY <1>2, <2>1, SearchIntact DEF TablesInv
  <2>13. i \in 0 .. MaxIndex
    BY <2>1, <2>2, ArgsAssumption
  <2>14. InodesOK'
    BY <2>1, <2>10, <2>13, WithInode DEF TablesInv
  <2>15. NamesOK'
    BY <1>2, <2>1, <2>12, <2>13, AddNameKeeps DEF TablesInv
  <2>16. ReferenceCount'
    <3>1. inodes'[i].ref_count = IF i \in DOMAIN inodes THEN inodes[i].ref_count + 1 ELSE 1
        BY <2>2, <2>10, <2>11
    <3>2. \A j \in DOMAIN inodes : j # i => inodes'[j].ref_count = inodes[j].ref_count
        BY <2>11
    <3>3. QED
        BY <1>2, <2>1, <2>2, <2>11, <2>12, <2>13, <3>1, <3>2, AddNameCounts DEF TablesInv
  <2>17. BlocksExclusive'
    <3>1. \A b \in FileBlocks : db[b] = 0
        BY <2>4
    <3>2. CASE r.ok
      <4>1. inodes'[i].data_blocks = w.data_blocks /\ blocks' = w.blocks
        BY <2>1, <2>10, <2>11, <3>2
      <4>2. \A j \in DOMAIN inodes : j # i => inodes'[j].data_blocks = inodes[j].data_blocks
        BY <2>11
      <4>3. QED
        BY <2>2, <2>7, <2>11, <3>1, <3>2, <4>1, <4>2, BlocksWritten
    <3>3. CASE ~r.ok
      <4>1. blocks' = blocks /\ \A b \in FileBlocks : inodes'[i].data_blocks[b] = 0
        BY <2>1, <2>10, <2>11, <3>1, <3>3
      <4>2. QED
        BY <2>2, <2>11, <4>1, BlocksKept DEF TablesInv
    <3>4. QED
        BY <3>2, <3>3
  <2>18. BlocksOK'
    <3>1. CASE r.ok
        BY <2>1, <2>7, <3>1 DEF BlocksOK, WroteBlocks, WroteDisk, DataFileCoversSlots
    <3>2. CASE ~r.ok
        BY <2>1, <3>2, PartsSame
    <3>3. QED
        BY <3>1, <3>2
  <2>19. DescriptorsOK' /\ up' \in BOOLEAN
    BY <2>1, PartsSame DEF TablesInv
  <2>20. KeepsBlocks
    <3>1. \A b \in FileBlocks : db[b] = 0
        BY <2>4
    <3>2. \A s \in 1 .. Len(disk) : disk'[s] = disk[s]
      <4>1. CASE r.ok
        <5>1. ASSUME NEW s \in 1 .. Len(disk) PROVE w.disk[s] = disk[s]
          <6>1. \A b \in FileBlocks : db[b] # s
            BY <3>1
          <6>2. QED
            BY <2>7, <4>1, <6>1 DEF WroteDisk
        <5>2. QED
            BY <2>1, <4>1, <5>1
      <4>2. CASE ~r.ok
        BY <2>1, <4>2
      <4>3. QED
        BY <4>1, <4>2
    <3>3. Len(disk) <= Len(disk')
      <4>1. Len(disk) \in Nat
        BY DEF TablesInv, BlocksOK
      <4>2. QED
        BY <2>1, <2>6, <2>7, <4>1 DEF WroteDisk
    <3>4. QED
        BY <2>2, <2>11, <3>2, <3>3 DEF KeepsBlocks
  <2>21. QED
    BY <2>14, <2>15, <2>16, <2>17, <2>18, <2>19, <2>20 DEF TablesInv
<1>3. QED
    BY <1>1, <1>2

(* The slots freed with the last name of an inode are of no other inode.    *)
LEMMA DroppedBlocks ==
    ASSUME TablesInv, NEW i \in DOMAIN inodes, inodes' = Without(inodes, i),
           blocks' = [s \in Slots |-> IF s \in Freed(inodes[i].data_blocks)
                                      THEN [allocated |-> FALSE, inode_index |-> 0] ELSE blocks[s]]
    PROVE  BlocksExclusive'
<1>1. /\ DOMAIN inodes' = DOMAIN inodes \ {i}
      /\ \A x \in DOMAIN inodes \ {i} : inodes'[x] = inodes[x]
    BY DEF Without
<1>2. \A b \in FileBlocks : inodes[i].data_blocks[b] \in 0 .. NumBlocks
    BY BlocksWithin
<1>3. ASSUME NEW s \in Slots, s \in Freed(inodes[i].data_blocks) PROVE blocks[s].inode_index = i
  <2>1. PICK b \in FileBlocks : s = inodes[i].data_blocks[b] - 1 /\ \A a \in 0 .. b : inodes[i].data_blocks[a] # 0
    BY <1>3 DEF Freed
  <2>2. b \in 0 .. b
    BY DEF FileBlocks
  <2>3. inodes[i].data_blocks[b] # 0
    BY <2>1, <2>2
  <2>4. blocks[inodes[i].data_blocks[b] - 1] = [allocated |-> TRUE, inode_index |-> i]
    BY <2>3 DEF TablesInv, BlocksExclusive
  <2>5. QED
    BY <2>1, <2>4
<1>4. ASSUME NEW x \in DOMAIN inodes \ {i}, NEW b \in FileBlocks, NEW s \in 1 .. NumBlocks,
             s = inodes[x].data_blocks[b]
      PROVE  blocks'[s - 1] = [allocated |-> TRUE, inode_index |-> x]
  <2>1. s # 0 /\ s - 1 \in Slots
    BY BlocksAssumption DEF Slots
  <2>2. blocks[s - 1] = [allocated |-> TRUE, inode_index |-> x]
    BY <1>4, <2>1 DEF TablesInv, BlocksExclusive
  <2>3. s - 1 \notin Freed(inodes[i].data_blocks)
    BY <1>3, <2>1, <2>2
  <2>4. QED
    BY <2>1, <2>2, <2>3
<1> SUFFICES ASSUME NEW x \in DOMAIN inodes', NEW y \in DOMAIN inodes',
                    NEW b \in FileBlocks, NEW c \in FileBlocks
             PROVE  LET s == inodes'[x].data_blocks[b]
                    IN  s # 0 => /\ blocks'[s - 1] = [allocated |-> TRUE, inode_index |-> x]
                                 /\ inodes'[y].data_blocks[c] = s => x = y /\ b = c
    BY DEF BlocksExclusive
<1>5. x \in DOMAIN inodes \ {i} /\ y \in DOMAIN inodes \ {i}
    BY <1>1
<1>6. inodes'[x] = inodes[x] /\ inodes'[y] = inodes[y]
    BY <1>1, <1>5
<1>7. PICK s \in 0 .. NumBlocks : s = inodes[x].data_blocks[b]
    BY <1>5, BlocksWithin
<1>8. s # 0 => blocks'[s - 1] = [allocated |-> TRUE, inode_index |-> x]
  <2>1. s # 0 => s \in 1 .. NumBlocks
    BY BlocksAssumption
  <2>2. QED
    BY <1>4, <1>5, <1>7, <2>1
<1>9. inodes[x].data_blocks[b] # 0 =>
          /\ blocks[inodes[x].data_blocks[b] - 1] = [allocated |-> TRUE, inode_index |-> x]
          /\ inodes[y].data_blocks[c] = inodes[x].data_blocks[b] => x = y /\ b = c
    BY <1>5 DEF TablesInv, BlocksExclusive
<1>10. QED
    BY <1>6, <1>7, <1>8, <1>9

(* Unlink takes a count or the inode, and the name.                         *)
LEMMA UnlinkKeeps ==
    ASSUME TablesInv, NEW n \in Names, Unlink(n)
    PROVE  TablesInv'
<1>1. CASE n \notin DOMAIN names \/ names[n] \notin DOMAIN inodes
    BY <1>1, RefuseKeeps DEF Unlink
<1>2. CASE n \in DOMAIN names /\ names[n] \in DOMAIN inodes
  <2> DEFINE i == names[n]
             count == inodes[i].ref_count
  <2>1. /\ stale = NoName /\ Dropped(i, count = 1) /\ lost' \in BOOLEAN /\ NameRemoved(n)
        /\ UNCHANGED <<up, descriptors, disk>>
    BY <1>2 DEF Unlink, Answer
  <2>2. n # NoName /\ first \in DOMAIN names /\ first # NoName
    BY <1>2, ArgsAssumption DEF TablesInv, NamesOK
  <2>3. i \in DOMAIN inodes /\ count \in Nat /\ inodes[i] \in Inode
    BY <1>2 DEF TablesInv, InodesOK, Inode
  <2>4. /\ \A x \in DOMAIN names : names[x] \in DOMAIN inodes
        /\ \A j \in DOMAIN inodes : /\ inodes[j].ref_count = Cardinality(NamesOf(names, j))
                                    /\ inodes[j].ref_count > 0
        /\ \A j \in DOMAIN inodes : names[first] <= j
    BY <2>1, <2>2 DEF TablesInv, ReferenceCount, NamesOf
  <2>5. IsFiniteSet(DOMAIN names)
    BY DEF TablesInv, NamesOK
\* What is left of the names, unless the head is freed.
  <2>6. NamesOK'
    <3>1. CASE n = first
        BY <2>1, <2>2, <3>1 DEF TablesInv, NamesOK, NameRemoved
    <3>2. CASE n # first
      <4>1. /\ names' = [x \in DOMAIN names \ {n} |-> names[x]] /\ UNCHANGED <<first, stale>>
        BY <2>1, <3>2 DEF NameRemoved, Without
      <4>2. IsFiniteSet(DOMAIN names')
        BY <2>5, <4>1, FS_RemoveElement
      <4>3. first' \in DOMAIN names'
        BY <2>2, <3>2, <4>1
      <4>4. names' \in [DOMAIN names' -> 0 .. MaxIndex] /\ DOMAIN names' \subseteq Names
        BY <4>1 DEF TablesInv, NamesOK
      <4>5. QED
        BY <2>1, <4>1, <4>2, <4>3, <4>4 DEF NamesOK
    <3>3. QED
        BY <3>1, <3>2
  <2> HIDE DEF i
  <2>7. CASE count = 1
    <3>1. /\ inodes' = Without(inodes, i)
          /\ blocks' = [s \in Slots |-> IF s \in Freed(inodes[i].data_blocks)
                                        THEN [allocated |-> FALSE, inode_index |-> 0] ELSE blocks[s]]
        BY <2>1, <2>7 DEF Dropped
    <3>2. /\ inodes' = [x \in DOMAIN inodes \ {i} |-> inodes[x]]
        BY <3>1 DEF Without
    <3>3. InodesOK'
        BY <3>2 DEF TablesInv, InodesOK
    <3>4. BlocksExclusive'
        BY <2>3, <3>1, DroppedBlocks
    <3>5. BlocksOK'
      <4>1. \A s \in Slots : /\ blocks'[s] \in TableEntry
                             /\ blocks'[s].allocated => blocks[s].allocated
        BY <3>1 DEF TablesInv, BlocksOK, TableEntry
      <4>2. blocks' \in [Slots -> TableEntry]
        BY <3>1, <4>1
      <4>3. QED
        BY <2>1, <4>1, <4>2 DEF TablesInv, BlocksOK, DataFileCoversSlots
    <3>6. ReferenceCount'
      <4>1. CASE n = first
        BY <2>1, <2>2, <4>1 DEF NameRemoved, ReferenceCount
      <4>2. CASE n # first
        <5>1. names' = Without(names, n) /\ UNCHANGED <<first, stale>>
            BY <2>1, <4>2 DEF NameRemoved
        <5>2. DOMAIN names' = DOMAIN names \ {n} /\ \A x \in DOMAIN names \ {n} : names'[x] = names[x]
            BY <5>1 DEF Without
        <5>3. NamesOf(names, i) = {n}
            BY <1>2, <2>3, <2>4, <2>5, <2>7, NamesOfFacts DEF i
        <5>4. \A x \in DOMAIN names \ {n} : names[x] # i
            BY <5>3 DEF NamesOf
        <5>5. \A x \in DOMAIN names' : names'[x] \in DOMAIN inodes'
            BY <2>4, <3>2, <5>2, <5>4
        <5>6. \A j \in DOMAIN inodes' : NamesOf(names', j) = NamesOf(names, j)
          <6>1. \A j \in DOMAIN inodes' : j # i
            BY <3>2
          <6>2. names[n] = i
            BY DEF i
          <6>3. QED
            BY <5>2, <6>1, <6>2 DEF NamesOf
        <5>7. \A j \in DOMAIN inodes' : /\ inodes'[j].ref_count = Cardinality(NamesOf(names', j))
                                        /\ inodes'[j].ref_count > 0
            BY <2>4, <3>2, <5>6
        <5>8. \A j \in DOMAIN inodes' : names'[first'] <= j
            BY <2>2, <2>4, <3>2, <4>2, <5>1, <5>2
        <5>9. QED
            BY <5>5, <5>7, <5>8 DEF ReferenceCount, NamesOf
      <4>3. QED
        BY <4>1, <4>2
    <3>7. DescriptorsOK' /\ up' \in BOOLEAN
        BY <2>1, PartsSame DEF TablesInv
    <3>8. QED
        BY <2>6, <3>3, <3>4, <3>5, <3>6, <3>7 DEF TablesInv
  <2>8. CASE count # 1
    <3> DEFINE v == [inodes[i] EXCEPT !.ref_count = @ - 1]
    <3>1. inodes' = [inodes EXCEPT ![i] = v] /\ blocks' = blocks
        BY <2>1, <2>8 DEF Dropped
    <3>2. /\ v \in Inode /\ v.ref_count = count - 1 /\ v.data_blocks = inodes[i].data_blocks
          /\ count - 1 > 0
      <4>1. count > 0
        BY <2>3, <2>4
      <4>2. PICK c \in Nat : c = count - 1 /\ c > 0
        BY <2>3, <2>8, <4>1
      <4>3. v = [inodes[i] EXCEPT !.ref_count = c]
        BY <4>2
      <4> HIDE DEF v
      <4>4. QED
        BY <2>3, <4>2, <4>3, InodeFields
    <3> HIDE DEF v
    <3>3. /\ InodesOK' /\ DOMAIN inodes' = DOMAIN inodes /\ inodes'[i] = v /\ BlocksExclusive'
          /\ \A j \in DOMAIN inodes : j # i => inodes'[j] = inodes[j]
        BY <2>3, <3>1, <3>2, InodeChanged
    <3>4. ReferenceCount'
      <4>1. CASE n = first
        BY <2>1, <2>2, <4>1 DEF NameRemoved, ReferenceCount
      <4>2. CASE n # first
        <5>1. names' = Without(names, n) /\ UNCHANGED <<first, stale>>
            BY <2>1, <4>2 DEF NameRemoved
        <5>2. DOMAIN names' = DOMAIN names \ {n} /\ \A x \in DOMAIN names \ {n} : names'[x] = names[x]
            BY <5>1 DEF Without
        <5>3. \A x \in DOMAIN names' : names'[x] \in DOMAIN inodes'
            BY <2>4, <3>3, <5>2
        <5>4. \A j \in DOMAIN inodes :
                  Cardinality(NamesOf(names', j)) =
                      IF i = j THEN Cardinality(NamesOf(names, j)) - 1 ELSE Cardinality(NamesOf(names, j))
            BY <1>2, <2>5, <5>1, NamesOfFacts DEF i
        <5>5. ASSUME NEW j \in DOMAIN inodes'
              PROVE  /\ inodes'[j].ref_count = Cardinality(NamesOf(names', j))
                     /\ inodes'[j].ref_count > 0
          <6>1. CASE j = i
            BY <2>3, <2>4, <3>2, <3>3, <5>4, <6>1
          <6>2. CASE j # i
            BY <2>4, <3>3, <5>4, <6>2
          <6>3. QED
            BY <6>1, <6>2
        <5>6. \A j \in DOMAIN inodes' : names'[first'] <= j
            BY <2>2, <2>4, <3>3, <4>2, <5>1, <5>2
        <5>7. QED
            BY <5>3, <5>5, <5>6 DEF ReferenceCount, NamesOf
      <4>3. QED
        BY <4>1, <4>2
    <3>5. DescriptorsOK' /\ BlocksOK' /\ up' \in BOOLEAN
        BY <2>1, <3>1, PartsSame DEF TablesInv
    <3>6. QED
        BY <2>6, <3>3, <3>4, <3>5 DEF TablesInv
  <2>9. QED
    BY <2>7, <2>8
<1>3. QED
    BY <1>1, <1>2
-----------------------------------------------------------------------------
(* The operations other than write keep what the files hold.                *)
LEMMA QuietOperations ==
    ASSUME TablesInv, NEW u, NEW n
    PROVE  /\ \A mode \in Modes : Create(u, n, mode) \/ Chmode(u, n, mode) => KeepsBlocks
           /\ Stat(u, n) \/ Unlink(n) => KeepsBlocks
           /\ \A new \in Names : Rename(n, new) \/ Link(u, n, new) => KeepsBlocks
           /\ \A flag : Open(u, n, flag) => KeepsBlocks
           /\ \A d, size : Close(d) \/ Read(d, size) \/ Seek(d, size) => KeepsBlocks
<1>l. Len(disk) \in Nat
    BY DEF TablesInv, BlocksOK
<1>0. UNCHANGED <<inodes, disk>> => KeepsBlocks
    BY <1>l DEF KeepsBlocks
<1>t. UNCHANGED tables => KeepsBlocks
    BY <1>0 DEF tables
<1>r. \A request, status : Refuse(request, status) => KeepsBlocks
    BY <1>t DEF Refuse
<1>1. ASSUME NEW mode \in Modes, Create(u, n, mode) PROVE KeepsBlocks
  <2>1. CASE n \in DOMAIN names
    BY <1>1, <1>r, <2>1 DEF Create
  <2>2. CASE n \notin DOMAIN names
    <3> DEFINE i == NextNumber(DOMAIN inodes)
               v == NewInode(u, mode, 1)
    <3>1. inodes' = With(inodes, i, v) /\ UNCHANGED disk
        BY <1>1, <2>2 DEF Create
    <3>2. i \notin DOMAIN inodes
        BY NewNumber DEF TablesInv
    <3> HIDE DEF i, v
    <3>3. \A j \in DOMAIN inodes : inodes'[j] = inodes[j]
        BY <3>1, <3>2 DEF With
    <3>4. QED
        BY <3>1, <3>3 DEF KeepsBlocks
  <2>3. QED
    BY <2>1, <2>2
<1>2. ASSUME NEW mode \in Modes, Chmode(u, n, mode) PROVE KeepsBlocks
  <2>1. CASE ~WritePermitted(u, n) \/ n \notin DOMAIN names
    BY <1>2, <1>r, <2>1 DEF Chmode
  <2>2. CASE WritePermitted(u, n) /\ n \in DOMAIN names
    <3>1. names[n] \in DOMAIN inodes
        BY <2>2 DEF WritePermitted, Resolved
    <3>2. inodes' = [inodes EXCEPT ![names[n]] = [@ EXCEPT !.mode = mode % UnsignedRange]] /\ UNCHANGED disk
        BY <1>2, <2>2 DEF Chmode
    <3>3. inodes[names[n]] \in Inode
        BY <3>1 DEF TablesInv, InodesOK
    <3>4. \A j \in DOMAIN inodes : inodes'[j].data_blocks = inodes[j].data_blocks
        BY <3>2, <3>3 DEF Inode
    <3>5. QED
        BY <3>2, <3>4 DEF KeepsBlocks
  <2>3. QED
    BY <2>1, <2>2
<1>3. Stat(u, n) => KeepsBlocks
    BY <1>r DEF Stat
<1>4. ASSUME Unlink(n) PROVE KeepsBlocks
  <2>1. CASE n \notin DOMAIN names \/ names[n] \notin DOMAIN inodes
    BY <1>4, <1>r, <2>1 DEF Unlink
  <2>2. CASE n \in DOMAIN names /\ names[n] \in DOMAIN inodes
    <3> DEFINE i == names[n]
    <3>1. Dropped(i, inodes[i].ref_count = 1) /\ UNCHANGED disk
        BY <1>4, <2>2 DEF Unlink
    <3>2. inodes[i] \in Inode
        BY <2>2 DEF TablesInv, InodesOK
    <3> HIDE DEF i
    <3>3. inodes' = Without(inodes, i) \/ inodes' = [inodes EXCEPT ![i].ref_count = @ - 1]
        BY <3>1 DEF Dropped
    <3>4. \A j \in DOMAIN inodes \cap DOMAIN inodes' : inodes'[j].data_blocks = inodes[j].data_blocks
      <4>1. CASE inodes' = Without(inodes, i)
        BY <4>1 DEF Without
      <4>2. CASE inodes' = [inodes EXCEPT ![i].ref_count = @ - 1]
        BY <3>2, <4>2 DEF Inode
      <4>3. QED
        BY <3>3, <4>1, <4>2
    <3>5. QED
        BY <3>1, <3>4 DEF KeepsBlocks
  <2>3. QED
    BY <2>1, <2>2
<1>5. ASSUME NEW new \in Names, Rename(n, new) PROVE KeepsBlocks
    BY <1>5, <1>0, <1>r DEF Rename
<1>6. ASSUME NEW new \in Names, Link(u, n, new) PROVE KeepsBlocks
  <2>1. CASE ~ReadPermitted(u, n) \/ new \in DOMAIN names
    BY <1>6, <1>r, <2>1 DEF Link
  <2>2. CASE ReadPermitted(u, n) /\ new \notin DOMAIN names
    <3> DEFINE i == Resolved(n)
    <3>1. i \in DOMAIN inodes
        BY <2>2 DEF ReadPermitted
    <3>2. inodes' = [inodes EXCEPT ![i].ref_count = @ + 1] /\ UNCHANGED disk
        BY <1>6, <2>2 DEF Link
    <3> HIDE DEF i
    <3>3. inodes[i] \in Inode
        BY <3>1 DEF TablesInv, InodesOK
    <3>4. \A j \in DOMAIN inodes : inodes'[j].data_blocks = inodes[j].data_blocks
        BY <3>2, <3>3 DEF Inode
    <3>5. QED
        BY <3>2, <3>4 DEF KeepsBlocks
  <2>3. QED
    BY <2>1, <2>2
<1>7. ASSUME NEW flag, Open(u, n, flag) PROVE KeepsBlocks
    BY <1>7, <1>0, <1>r DEF Open
<1>8. ASSUME NEW d, NEW size, Close(d) \/ Read(d, size) \/ Seek(d, size) PROVE KeepsBlocks
  <2>1. Close(d) => KeepsBlocks
    BY <1>0, <1>r DEF Close
  <2>2. Read(d, size) => KeepsBlocks
    BY <1>0, <1>r DEF Read
  <2>3. Seek(d, size) => KeepsBlocks
    BY <1>0, <1>r DEF Seek
  <2>4. QED
    BY <1>8, <2>1, <2>2, <2>3
<1>9. QED
    BY <1>1, <1>2, <1>3, <1>4, <1>5, <1>6, <1>7, <1>8

(* Every step keeps the invariant.                                          *)
LEMMA TablesStep ==
    ASSUME TablesInv, Next \/ UNCHANGED vars
    PROVE  TablesInv'
<1>1. CASE UNCHANGED vars
    BY <1>1, TablesSame DEF vars, TablesInv
<1>2. CASE Crash
    BY <1>2, TablesSame DEF Crash
<1>3. CASE NameOperation
  <2>1. PICK u \in Users, n \in Names :
            \/ \E mode \in Modes : Create(u, n, mode) \/ Chmode(u, n, mode)
            \/ Stat(u, n)
            \/ \E new \in Names : \/ Rename(n, new) \/ Link(u, n, new)
                                  \/ \E mode \in Modes : Symlink(u, n, new, mode)
            \/ \E flag \in {"READ_ONLY", "WRITE_ONLY", "OTHER"} : Open(u, n, flag)
            \/ Unlink(n)
    BY <1>3 DEF NameOperation
  <2>2. Stat(u, n) => TablesInv'
    BY RefuseKeeps DEF Stat
  <2>3. QED
    BY <2>1, <2>2, CreateKeeps, ChmodeKeeps, RenameKeeps, LinkKeeps, SymlinkKeeps, OpenKeeps, UnlinkKeeps
<1>4. CASE FileOperation
    BY <1>4, CloseKeeps, WriteKeeps, ReadKeeps, SeekKeeps DEF FileOperation
<1>5. QED
    BY <1>1, <1>2, <1>3, <1>4 DEF Next

(* The tables agree with each other after every operation: an allocation    *)
(* follows each of the paths of inode.c, failed ones included.              *)
THEOREM TablesInvariance == Spec => []TablesInv
<1>1. TablesInv /\ [Next]_vars => TablesInv'
    BY TablesStep
<1>2. QED
    BY TablesInit, <1>1, PTL DEF Spec

(* TypeOK for every value of the constants: what a copy stores was read     *)
(* from blocks that exist, and a count taken down was of a name (inode.h    *)
(* 16-48).                                                                  *)
THEOREM TablesTyped == Spec => []TypeOK
<1>1. TablesInv => TypeOK
    BY TablesImply
<1>2. QED
    BY TablesInvariance, <1>1, PTL

(* ReferenceCount for every value of the constants: names and counts agree  *)
(* while filename_table is intact (create_hard_link, inode.c 534,           *)
(* create_soft_link, 592, unlink_inode, 256).                               *)
THEOREM NamesCounted == Spec => []ReferenceCount
<1>1. TablesInv => ReferenceCount
    BY TablesImply
<1>2. QED
    BY TablesInvariance, <1>1, PTL

(* BlocksExclusive for every value of the constants: no two blocks share a  *)
(* slot (occupy_block_table_slot, inode.c 777-812, unlink_inode, 258-265).  *)
THEOREM BlocksOfOneFile == Spec => []BlocksExclusive
<1>1. TablesInv => BlocksExclusive
    BY TablesImply
<1>2. QED
    BY TablesInvariance, <1>1, PTL

(* DataFileCoversSlots for every value of the constants: the slots a write  *)
(* takes are the lowest free ones, of which at most as many lie below the   *)
(* end of the data file as blocks are appended (inode.c 794-805).           *)
THEOREM SlotsCovered == Spec => []DataFileCoversSlots
<1>1. TablesInv => DataFileCoversSlots
    BY TablesImply
<1>2. QED
    BY TablesInvariance, <1>1, PTL

(* Only a write changes the blocks of a file or what they hold.             *)
LEMMA StepChanges ==
    ASSUME TablesInv, Next \/ UNCHANGED vars
    PROVE  KeepsBlocks \/ \E i : Writes(i)
<1>l. Len(disk) \in Nat
    BY DEF TablesInv, BlocksOK
<1>0. UNCHANGED <<inodes, disk>> => KeepsBlocks
    BY <1>l DEF KeepsBlocks
<1>1. CASE UNCHANGED vars \/ Crash
    BY <1>0, <1>1 DEF vars, Crash, tables
<1>2. CASE NameOperation
  <2>1. PICK u \in Users, n \in Names :
            \/ \E mode \in Modes : Create(u, n, mode) \/ Chmode(u, n, mode)
            \/ Stat(u, n)
            \/ \E new \in Names : \/ Rename(n, new) \/ Link(u, n, new)
                                  \/ \E mode \in Modes : Symlink(u, n, new, mode)
            \/ \E flag \in {"READ_ONLY", "WRITE_ONLY", "OTHER"} : Open(u, n, flag)
            \/ Unlink(n)
    BY <1>2 DEF NameOperation
  <2>2. QED
    BY <2>1, QuietOperations, SymlinkKeeps
<1>3. CASE FileOperation
    BY <1>0, <1>3, QuietOperations, WriteKeeps DEF FileOperation
<1>4. QED
    BY <1>1, <1>2, <1>3 DEF Next

(* A file whose blocks are the same and hold the same is the same.          *)
LEMMA ContentsKept ==
    ASSUME TablesInv, NEW j \in DOMAIN inodes \cap DOMAIN inodes',
           inodes'[j].data_blocks = inodes[j].data_blocks,
           \A b \in FileBlocks : inodes[j].data_blocks[b] # 0 =>
               disk'[inodes[j].data_blocks[b]] = disk[inodes[j].data_blocks[b]]
    PROVE  Contents(j)' = Contents(j)
<1>1. FileBlocks' = FileBlocks
    BY DEF FileBlocks
<1>2. \A b \in {c \in FileBlocks : inodes[j].data_blocks[c] # 0} :
          disk'[inodes[j].data_blocks[b]] = disk[inodes[j].data_blocks[b]]
    OBVIOUS
<1>3. QED
    BY <1>2 DEF Contents

(* A write leaves the blocks of every other file as they are, because no    *)
(* two files share a block.                                                 *)
LEMMA BlocksOfOthers ==
    ASSUME TablesInv, NEW i, Writes(i), NEW j \in DOMAIN inodes, j # i,
           NEW c \in FileBlocks, inodes[j].data_blocks[c] # 0
    PROVE  disk'[inodes[j].data_blocks[c]] = disk[inodes[j].data_blocks[c]]
<1>1. PICK s \in 1 .. Len(disk) : s = inodes[j].data_blocks[c]
    BY BlocksWithin
<1>2. ASSUME NEW b \in FileBlocks, inodes[i].data_blocks[b] = s
      PROVE  FALSE
  <2>1. i \in DOMAIN inodes
    BY DEF Writes
  <2>2. inodes[j].data_blocks[c] # 0 =>
            /\ blocks[inodes[j].data_blocks[c] - 1] = [allocated |-> TRUE, inode_index |-> j]
            /\ inodes[i].data_blocks[b] = inodes[j].data_blocks[c] => j = i /\ c = b
    BY <2>1 DEF TablesInv, BlocksExclusive
  <2>3. QED
    BY <1>1, <1>2, <2>2
<1>3. disk'[s] = disk[s]
    BY <1>2 DEF Writes
<1>4. QED
    BY <1>1, <1>3

LEMMA OthersKept ==
    ASSUME TablesInv, NEW i, Writes(i), NEW j \in DOMAIN inodes \cap DOMAIN inodes', j # i
    PROVE  Contents(j)' = Contents(j)
<1>1. inodes'[j].data_blocks = inodes[j].data_blocks
    BY DEF Writes
<1>2. QED
    BY <1>1, BlocksOfOthers, ContentsKept

(* In a step at most one file changes, and it is open for writing.          *)
LEMMA ChangedByWriter ==
    ASSUME TablesInv, Next \/ UNCHANGED vars
    PROVE  LET kept == DOMAIN inodes \cap DOMAIN inodes'
               changed == {i \in kept : Contents(i)' # Contents(i)}
           IN  /\ \A i \in changed : Writer(i)
               /\ Cardinality(changed) <= 1
<1> DEFINE kept == DOMAIN inodes \cap DOMAIN inodes'
           changed == {i \in kept : Contents(i)' # Contents(i)}
<1>1. CASE KeepsBlocks
  <2>1. ASSUME NEW j \in kept
        PROVE  Contents(j)' = Contents(j)
    <3>1. \A b \in FileBlocks : inodes[j].data_blocks[b] # 0 =>
              disk'[inodes[j].data_blocks[b]] = disk[inodes[j].data_blocks[b]]
        BY <1>1, BlocksWithin DEF KeepsBlocks
    <3>2. QED
        BY <1>1, <3>1, ContentsKept DEF KeepsBlocks
  <2>2. changed = {}
    BY <2>1
  <2>3. QED
    BY <2>2, FS_EmptySet
<1>2. CASE \E i : Writes(i)
  <2>1. PICK i : Writes(i)
    BY <1>2
  <2>2. \A j \in kept : j # i => Contents(j)' = Contents(j)
    BY <2>1, OthersKept
  <2>3. changed \subseteq {i}
    BY <2>2
  <2>4. Cardinality(changed) <= 1
    <3>1. IsFiniteSet({i}) /\ Cardinality({i}) = 1
        BY FS_Singleton
    <3> HIDE DEF changed
    <3>2. Cardinality(changed) \in Nat /\ Cardinality(changed) <= Cardinality({i})
        BY <2>3, <3>1, FS_Subset, FS_CardinalityType
    <3>3. QED
        BY <3>1, <3>2
  <2>5. QED
    BY <2>1, <2>3, <2>4 DEF Writes
<1>3. QED
    BY <1>1, <1>2, StepChanges

(* OnlyWriterChanges for every value of the constants: no operation reaches *)
(* the blocks of a file it does not write, whatever slots were freed and    *)
(* taken again (write_inode, inode.c 302-335).                              *)
THEOREM WriterAlone == Spec => OnlyWriterChanges
<1>1. TablesInv /\ [Next]_vars =>
          [LET kept == DOMAIN inodes \cap DOMAIN inodes'
               changed == {i \in kept : Contents(i)' # Contents(i)}
           IN  /\ \A i \in changed : Writer(i)
               /\ Cardinality(changed) <= 1]_vars
    BY ChangedByWriter
<1>2. QED
    BY TablesInvariance, <1>1, PTL DEF Spec, OnlyWriterChanges

(* An answer to open is given by open.                                      *)
LEMMA OpenAnswers ==
    ASSUME NEW u, NEW n, NEW flag, Next, reply'.request = <<"open", u, n, flag>>
    PROVE  Open(u, n, flag)
<1>1. Len(reply'.request) = 4 /\ reply'.request[1] = "open"
    BY SMT
<1>r. \A request, status : Refuse(request, status) \/ Answer(request, status) =>
          reply'.request = request
    BY DEF Refuse, Answer
<1>2. ~Crash
  <2>1. Crash => reply'.request = <<>>
    BY DEF Crash, NoReply
  <2>2. QED
    BY <1>1, <2>1
<1>3. ~FileOperation
  <2>1. \A d : Close(d) => reply'.request = <<"close", d>>
    BY <1>r DEF Close
  <2>2. \A d, buf : Write(d, buf) => reply'.request = <<"write", d, buf>>
    BY <1>r DEF Write
  <2>3. ASSUME NEW d, NEW size, Read(d, size)
        PROVE  reply'.request = <<"read", d, size>>
    <3>1. CASE ~Attached(d)
        BY <1>r, <2>3, <3>1 DEF Read
    <3>2. CASE Attached(d)
      <4>1. PICK data, status : reply' = [request |-> <<"read", d, size>>, data |-> data, status |-> status]
        BY <2>3, <3>2 DEF Read
      <4>2. QED
        BY <4>1
    <3>3. QED
        BY <3>1, <3>2
  <2>4. \A d, size : Seek(d, size) => reply'.request = <<"seek", d, size>>
    BY <1>r DEF Seek
  <2>5. QED
    BY <1>1, <2>1, <2>2, <2>3, <2>4 DEF FileOperation
<1>4. PICK v \in Users, m \in Names :
            \/ \E mode \in Modes : Create(v, m, mode) \/ Chmode(v, m, mode)
            \/ Stat(v, m)
            \/ \E new \in Names : \/ Rename(m, new) \/ Link(v, m, new)
                                  \/ \E mode \in Modes : Symlink(v, m, new, mode)
            \/ \E way \in {"READ_ONLY", "WRITE_ONLY", "OTHER"} : Open(v, m, way)
            \/ Unlink(m)
    BY <1>2, <1>3 DEF Next, NameOperation
<1>5. \A mode : ~Create(v, m, mode) /\ ~Chmode(v, m, mode)
  <2>1. \A mode : Create(v, m, mode) => reply'.request = <<"create", v, m, mode>>
    BY <1>r DEF Create
  <2>2. \A mode : Chmode(v, m, mode) => reply'.request = <<"chmode", v, m, mode>>
    BY <1>r DEF Chmode
  <2>3. QED
    BY <1>1, <2>1, <2>2
<1>6. ~Stat(v, m) /\ ~Unlink(m)
  <2>1. Stat(v, m) => reply'.request = <<"stat", v, m>>
    BY <1>r DEF Stat
  <2>2. Unlink(m) => reply'.request = <<"unlink", m>>
    BY <1>r DEF Unlink
  <2>3. QED
    BY <1>1, <2>1, <2>2
<1>7. \A new, mode : ~Rename(m, new) /\ ~Link(v, m, new) /\ ~Symlink(v, m, new, mode)
  <2>1. \A new : Rename(m, new) => reply'.request = <<"rename", m, new>>
    BY <1>r DEF Rename
  <2>2. \A new : Link(v, m, new) => reply'.request = <<"link", v, m, new>>
    BY <1>r DEF Link
  <2>3. \A new, mode : Symlink(v, m, new, mode) => reply'.request = <<"symlink", v, m, new, mode>>
    BY <1>r DEF Symlink
  <2>4. QED
    BY <1>1, <2>1, <2>2, <2>3
<1>8. PICK way \in {"READ_ONLY", "WRITE_ONLY", "OTHER"} : Open(v, m, way)
    BY <1>4, <1>5, <1>6, <1>7
<1>9. reply'.request = <<"open", v, m, way>>
    BY <1>8, <1>r DEF Open
<1>10. v = u /\ m = n /\ way = flag
    BY <1>9
<1>11. QED
    BY <1>8, <1>10

(* Who opens an existing file is entitled to.                               *)
LEMMA OpenChecks ==
    ASSUME TablesInv, NEW u \in Users, NEW n \in DOMAIN names, NEW flag \in {"READ_ONLY", "WRITE_ONLY"},
           Open(u, n, flag), reply'.status = "SUCCESS"
    PROVE  LET file == inodes[names[n]]
           IN  Entitled(Class(u, file), file.mode, flag)
<1> DEFINE i == Resolved(n)
           class == Class(u, inodes[i])
<1>1. i = names[n]
    BY DEF Resolved
<1>2. \A status \in {"FAILURE", "INSUFFICIENT_PERMS", "DOUBLE_WRITE"} :
          ~Refuse(<<"open", u, n, flag>>, status)
    BY DEF Refuse, Answer
<1>3. IF flag = "READ_ONLY" THEN ReadPermitted(u, n) ELSE WritePermitted(u, n)
    BY <1>2 DEF Open
<1>4. i \in DOMAIN inodes /\ IF flag = "READ_ONLY" THEN MayRead(class, inodes[i].mode)
                             ELSE MayWrite(class, inodes[i].mode)
    BY <1>3 DEF ReadPermitted, WritePermitted
<1>5. inodes[i].mode \in Mode /\ class \in Classes
    BY <1>4 DEF TablesInv, InodesOK, Inode, Class, Classes
<1> HIDE DEF i, class
<1>6. Entitled(class, inodes[i].mode, flag)
    BY <1>4, <1>5, ReadCheck, WriteCheck DEF Entitled
<1>7. QED
    BY <1>1, <1>6 DEF class

(* OpensWithPermission for every value of the constants, with any users'    *)
(* ids and any longs as modes, negative ones and those above 0777 among     *)
(* them: no way through service_open avoids the check, and the comparisons  *)
(* err on the side ReadCheck and WriteCheck say (operations.c 497-536).     *)
THEOREM OpenedWithPermission == Spec => OpensWithPermission
<1>1. TablesInv /\ [Next]_vars =>
          [\A u \in Users, n \in DOMAIN names, flag \in {"READ_ONLY", "WRITE_ONLY"} :
              reply'.request = <<"open", u, n, flag>> /\ reply'.status = "SUCCESS" =>
                  LET file == inodes[names[n]]
                  IN  Entitled(Class(u, file), file.mode, flag)]_vars
    BY OpenAnswers, OpenChecks
<1>2. QED
    BY TablesInvariance, <1>1, PTL DEF Spec, OpensWithPermission
-----------------------------------------------------------------------------
\* Every block has its own place in the data file: no slot was used twice.
Fresh == FreeSlots = Len(disk) .. NumBlocks - 1

\* Inode i has the blocks of the units below off.
Backed(i, off) ==
    \A b \in FileBlocks : b < BlocksFor(off) => i \in DOMAIN inodes /\ inodes[i].data_blocks[b] # 0

\* No file has a gap below its size or below an open offset, as long as slots
\* are fresh and some are left.  A file unlinked while it is open, whose number
\* goes to a new file, leaves an offset without blocks; but then slots are freed.
NoGaps ==
    /\ \A i \in DOMAIN inodes : Backed(i, inodes[i].st_size)
    /\ \A d \in DOMAIN descriptors : Backed(descriptors[d].node_index, descriptors[d].offset)
GapsInv == Fresh /\ FreeSlots # {} => NoGaps

(* More units take no fewer blocks.                                         *)
LEMMA BlocksMonotone ==
    ASSUME NEW m \in Nat, NEW n \in Nat, m <= n
    PROVE  /\ BlocksFor(m) \in Nat /\ BlocksFor(n) \in Nat /\ BlocksFor(m) <= BlocksFor(n)
           /\ BlocksFor(m) = IF m % BlockSize = 0 THEN m \div BlockSize ELSE m \div BlockSize + 1
<1> USE BlocksAssumption
<1>1. PICK q \in Nat, r \in 0 .. BlockSize - 1 :
          m \div BlockSize = q /\ m % BlockSize = r /\ m = q * BlockSize + r
    BY DivMod
<1>2. BlocksFor(m) = IF r = 0 THEN q ELSE q + 1
    BY <1>1 DEF BlocksFor
<1>3. BlocksFor(n) \in Nat /\ q <= BlocksFor(n)
    BY <1>1, BlocksForFacts
<1>4. r > 0 => q < BlocksFor(n)
  <2> SUFFICES ASSUME r > 0 PROVE q < BlocksFor(n)
    OBVIOUS
  <2>1. q * BlockSize \in Nat /\ q * BlockSize < n
    BY <1>1
  <2>2. (q * BlockSize) \div BlockSize < BlocksFor(n)
    BY <2>1, BlocksForFacts
  <2>3. PICK x \in Nat, y \in 0 .. BlockSize - 1 :
            (q * BlockSize) \div BlockSize = x /\ q * BlockSize = x * BlockSize + y
    BY <2>1, DivMod
  <2>4. /\ x < q => x * BlockSize + BlockSize <= q * BlockSize
        /\ q < x => q * BlockSize + BlockSize <= x * BlockSize
    BY MultipleStep
  <2>5. x * BlockSize \in Nat
    OBVIOUS
  <2>6. x = q
    BY <2>1, <2>3, <2>4, <2>5
  <2>7. QED
    BY <2>2, <2>3, <2>6
<1>5. QED
    BY <1>1, <1>2, <1>3, <1>4

(* If slots are fresh after a write they were fresh before: it takes the    *)
(* lowest free slots, and the first of them all is not below the end of the *)
(* data file.                                                               *)
LEMMA FreshBefore ==
    ASSUME TablesInv, NEW i, NEW db, NEW off, NEW buf, Writable(i, db, off, buf),
           NEW w, w = Written(i, db, off, buf), blocks' = w.blocks, disk' = w.disk,
           Fresh', FreeSlots' # {}
    PROVE  Fresh /\ FreeSlots # {}
<1> DEFINE got == Gets(db, off, Len(buf))
           L == Len(disk)
           F == FreeSlots
           G == FreeSlots'
           t == L + got
<1> USE BlocksAssumption
<1>1. WroteSlots(w, i, db, off, Len(buf)) /\ WroteUnits(w, db, off, buf)
    BY WrittenShape
<1>2. /\ got \in Nat /\ got <= Cardinality(F)
      /\ \A k \in 0 .. got - 1 : KthFree(k) \in F /\ Cardinality(Below(F, KthFree(k))) = k
      /\ w.blocks = [s \in Slots |-> IF \E k \in 0 .. got - 1 : KthFree(k) = s
                                     THEN [allocated |-> TRUE, inode_index |-> i] ELSE blocks[s]]
      /\ Len(w.disk) = Least(L + got, NumBlocks)
    BY <1>1 DEF WroteSlots, WroteUnits
<1> HIDE DEF got
<1>3. L \in Nat /\ F \in SUBSET (0 .. NumBlocks - 1) /\ NumBlocks \in Nat
    BY DEF TablesInv, BlocksOK, FreeSlots, Slots
<1>4. /\ IsFiniteSet(F) /\ Cardinality(F) \in Nat
      /\ \A s \in F : s \in Nat /\ s < NumBlocks
    BY <1>3, FiniteSlots
<1>5. G = {s \in F : ~ \E k \in 0 .. got - 1 : KthFree(k) = s}
  <2>1. \A s \in Slots : blocks'[s].allocated <=>
            blocks[s].allocated \/ \E k \in 0 .. got - 1 : KthFree(k) = s
    BY <1>2
  <2>2. G = {s \in Slots : ~blocks'[s].allocated}
    BY DEF FreeSlots, Slots
  <2>3. QED
    BY <2>1, <2>2 DEF FreeSlots
<1>6. G = Len(disk') .. NumBlocks - 1 /\ G # {}
    BY DEF Fresh
<1>7. Len(disk') = t /\ t \in Nat /\ t < NumBlocks
  <2>1. Len(disk') = Least(t, NumBlocks) /\ t \in Nat
    BY <1>2, <1>3
  <2>2. Len(disk') \in Nat
    BY <1>3, <2>1 DEF Least
  <2>3. Len(disk') < NumBlocks
    BY <1>3, <1>6, <2>2
  <2>4. QED
    BY <1>3, <2>1, <2>3 DEF Least
<1>8. L .. NumBlocks - 1 \subseteq F
  <2>1. \A s \in Slots : s >= L => s \in F
    BY <1>3 DEF TablesInv, BlocksOK, DataFileCoversSlots, FreeSlots, Slots
  <2>2. QED
    BY <1>3, <2>1 DEF Slots
<1>9. t \in F /\ t \in G
    BY <1>3, <1>5, <1>6, <1>7
<1> HIDE DEF F, G
<1>10. t <= L + Cardinality(Below(F, t))
    BY <1>3, <1>8, <1>9, KthPlace
<1>11. /\ IsFiniteSet(Below(F, t)) /\ Cardinality(Below(F, t)) \in Nat
       /\ Cardinality(Below(F, t)) < Cardinality(F)
  <2>1. Below(F, t) \in SUBSET F /\ t \notin Below(F, t)
    BY <1>7 DEF Below
  <2>2. Below(F, t) # F
    BY <1>9, <2>1
  <2>3. /\ IsFiniteSet(Below(F, t)) /\ Cardinality(Below(F, t)) <= Cardinality(F)
        /\ Cardinality(Below(F, t)) = Cardinality(F) => Below(F, t) = F
    BY <1>4, <2>1, FS_Subset
  <2>4. Cardinality(Below(F, t)) \in Nat
    BY <2>3, FS_CardinalityType
  <2>5. QED
    BY <1>4, <2>2, <2>3, <2>4
<1>12. got \in 0 .. Cardinality(F) - 1
    BY <1>2, <1>3, <1>4, <1>10, <1>11
<1>13. PICK e \in F : Cardinality(Below(F, e)) = got
    BY <1>3, <1>12, KthExists
<1>14. e \in G
  <2>1. \A k \in 0 .. got - 1 : KthFree(k) # e
    BY <1>2, <1>13
  <2>2. QED
    BY <1>5, <1>13, <2>1
<1>15. e = t
  <2>1. e \in Nat /\ t <= e
    BY <1>4, <1>6, <1>7, <1>14
  <2>2. e <= L + got
    BY <1>3, <1>8, <1>13, KthPlace
  <2>3. QED
    BY <1>7, <2>1, <2>2
<1>16. L .. t - 1 = Below(F, t)
  <2>1. L .. t - 1 \subseteq F
    BY <1>3, <1>7, <1>8
  <2>2. L .. t - 1 \subseteq Below(F, t)
    BY <1>7, <2>1 DEF Below
  <2>3. Cardinality(L .. t - 1) = got
    <3>1. Cardinality(L .. t - 1) = IF L > t - 1 THEN 0 ELSE (t - 1) - L + 1
      <4>1. L \in Int /\ t - 1 \in Int
        BY <1>3, <1>7
      <4> HIDE DEF L, t
      <4>2. QED
        BY <4>1, FS_Interval
    <3>2. QED
        BY <1>2, <1>3, <3>1
  <2>4. Cardinality(Below(F, t)) = got
    BY <1>13, <1>15
  <2>5. QED
    BY <1>11, <2>2, <2>3, <2>4, FS_Subset
<1>17. \A s \in F : s \in L .. NumBlocks - 1
  <2> SUFFICES ASSUME NEW s \in F PROVE s \in L .. NumBlocks - 1
    OBVIOUS
  <2>1. s \in Nat /\ s < NumBlocks
    BY <1>4
  <2>2. s < t => s \in L .. t - 1
    BY <1>16 DEF Below
  <2>3. QED
    BY <1>2, <1>3, <1>7, <2>1, <2>2
<1>18. F = L .. NumBlocks - 1 /\ F # {}
    BY <1>8, <1>9, <1>17
<1>19. QED
    BY <1>18 DEF F, Fresh

(* A step keeps the invariant if it gives no file more units and no         *)
(* descriptor a greater offset than it has blocks for.                      *)
LEMMA GapsStep ==
    ASSUME GapsInv,
           Fresh' /\ FreeSlots' # {} => Fresh /\ FreeSlots # {},
           \A j \in DOMAIN inodes : j \in DOMAIN inodes' /\
               \A b \in FileBlocks : inodes[j].data_blocks[b] # 0 => inodes'[j].data_blocks[b] # 0,
           NoGaps => \A j \in DOMAIN inodes' :
               \/ j \in DOMAIN inodes /\ inodes'[j].st_size = inodes[j].st_size
               \/ Backed(j, inodes[j].st_size)',
           NoGaps => \A d \in DOMAIN descriptors' :
               \/ d \in DOMAIN descriptors /\ descriptors'[d] = descriptors[d]
               \/ Backed(descriptors[d].node_index, descriptors[d].offset)'
    PROVE  GapsInv'
<1> SUFFICES ASSUME NoGaps PROVE NoGaps'
    BY DEF GapsInv
<1>1. ASSUME NEW j, NEW n, Backed(j, n)
      PROVE  Backed(j, n)'
  <2>1. FileBlocks' = FileBlocks /\ BlocksFor(n)' = BlocksFor(n)
    BY DEF FileBlocks, BlocksFor
  <2>2. QED
    BY <1>1, <2>1 DEF Backed
<1>2. ASSUME NEW j \in DOMAIN inodes'
      PROVE  Backed(j, inodes[j].st_size)'
  <2>1. CASE j \in DOMAIN inodes /\ inodes'[j].st_size = inodes[j].st_size
    <3>1. PICK n : n = inodes[j].st_size /\ n = inodes'[j].st_size
        BY <2>1
    <3>2. Backed(j, n)
        BY <2>1, <3>1 DEF NoGaps
    <3>3. Backed(j, n)'
        BY <1>1, <3>2
    <3>4. QED
        BY <3>1, <3>3 DEF Backed
  <2>2. QED
    BY <2>1
<1>3. ASSUME NEW d \in DOMAIN descriptors'
      PROVE  Backed(descriptors[d].node_index, descriptors[d].offset)'
  <2>1. CASE d \in DOMAIN descriptors /\ descriptors'[d] = descriptors[d]
    <3>1. PICK j, n : j = descriptors[d].node_index /\ n = descriptors[d].offset
        OBVIOUS
    <3>2. Backed(j, n)
        BY <2>1, <3>1 DEF NoGaps
    <3>3. Backed(j, n)'
        BY <1>1, <3>2
    <3>4. j = descriptors'[d].node_index /\ n = descriptors'[d].offset
        BY <2>1, <3>1
    <3>5. QED
        BY <3>3, <3>4 DEF Backed
  <2>2. QED
    BY <2>1
<1>4. QED
    BY <1>2, <1>3 DEF NoGaps

(* No units take no blocks.                                                 *)
LEMMA NoUnits == \A i : Backed(i, 0) /\ Backed(i, 0)'
<1> USE BlocksAssumption
<1>1. BlocksFor(0) = 0
  <2>1. PICK q \in Nat, r \in 0 .. BlockSize - 1 :
            0 \div BlockSize = q /\ 0 % BlockSize = r /\ 0 = q * BlockSize + r
    BY DivMod
  <2>2. q > 0 => q * BlockSize > 0
    OBVIOUS
  <2>3. q = 0 /\ r = 0
    BY <2>1, <2>2
  <2>4. QED
    BY <2>1, <2>3 DEF BlocksFor
<1>2. \A b \in FileBlocks : ~ (b < 0)
    BY DEF FileBlocks
<1>3. ASSUME NEW i PROVE Backed(i, 0)
    BY <1>1, <1>2 DEF Backed
<1>4. ASSUME NEW i PROVE Backed(i, 0)'
    BY <1>1, <1>2 DEF Backed, BlocksFor
<1>5. QED
    BY <1>3, <1>4

(* Steps that leave the block table and the data file, and the size and     *)
(* blocks of every inode there is.                                          *)
LEMMA GapsQuiet ==
    ASSUME GapsInv, UNCHANGED <<blocks, disk>>,
           \A j \in DOMAIN inodes :
               /\ j \in DOMAIN inodes' /\ inodes'[j].st_size = inodes[j].st_size
               /\ inodes'[j].data_blocks = inodes[j].data_blocks,
           \A j \in DOMAIN inodes' : j \in DOMAIN inodes \/ inodes'[j].st_size = 0,
           NoGaps => \A d \in DOMAIN descriptors' :
               \/ d \in DOMAIN descriptors /\ descriptors'[d] = descriptors[d]
               \/ descriptors'[d].offset = 0
               \/ Backed(descriptors'[d].node_index, descriptors'[d].offset)
    PROVE  GapsInv'
<1>1. Fresh' /\ FreeSlots' # {} => Fresh /\ FreeSlots # {}
    BY DEF Fresh, FreeSlots, Slots
<1>2. \A j \in DOMAIN inodes' : \/ j \in DOMAIN inodes /\ inodes'[j].st_size = inodes[j].st_size
                                \/ Backed(j, inodes[j].st_size)'
  <2> SUFFICES ASSUME NEW j \in DOMAIN inodes', inodes'[j].st_size = 0
               PROVE  Backed(j, inodes[j].st_size)'
    OBVIOUS
  <2>1. Backed(j, 0)'
    BY NoUnits
  <2>2. QED
    BY <2>1 DEF Backed
<1>3. ASSUME NoGaps, NEW d \in DOMAIN descriptors'
      PROVE  \/ d \in DOMAIN descriptors /\ descriptors'[d] = descriptors[d]
             \/ Backed(descriptors[d].node_index, descriptors[d].offset)'
  <2>1. CASE descriptors'[d].offset = 0
    <3>1. PICK j : j = descriptors'[d].node_index
        OBVIOUS
    <3>2. Backed(j, 0)'
        BY NoUnits
    <3>3. QED
        BY <2>1, <3>1, <3>2 DEF Backed
  <2>2. CASE Backed(descriptors'[d].node_index, descriptors'[d].offset)
    <3>1. PICK j, n : j = descriptors'[d].node_index /\ n = descriptors'[d].offset
        OBVIOUS
    <3>2. Backed(j, n)
        BY <2>2, <3>1
    <3>3. FileBlocks' = FileBlocks /\ BlocksFor(n)' = BlocksFor(n)
        BY DEF FileBlocks, BlocksFor
    <3>4. Backed(j, n)'
        BY <3>2, <3>3 DEF Backed
    <3>5. QED
        BY <3>1, <3>4 DEF Backed
  <2>3. QED
    BY <1>3, <2>1, <2>2
<1>4. \A j \in DOMAIN inodes : j \in DOMAIN inodes' /\
          \A b \in FileBlocks : inodes[j].data_blocks[b] # 0 => inodes'[j].data_blocks[b] # 0
    OBVIOUS
<1>5. QED
    BY <1>1, <1>2, <1>3, <1>4, GapsStep

LEMMA GapsSame == ASSUME GapsInv, UNCHANGED tables PROVE GapsInv'
<1>1. UNCHANGED <<blocks, disk, inodes, descriptors>>
    BY DEF tables
<1>2. QED
    BY <1>1, GapsQuiet

(* The operations on names alone: a new file is empty, and the others keep  *)
(* sizes and blocks.                                                        *)
LEMMA GapsNames ==
    ASSUME TablesInv, GapsInv, NEW u \in Users, NEW n
    PROVE  /\ \A mode \in Modes : Create(u, n, mode) \/ Chmode(u, n, mode) => GapsInv'
           /\ Stat(u, n) => GapsInv'
           /\ \A new : Rename(n, new) \/ Link(u, n, new) => GapsInv'
<1>r. \A request, status : Refuse(request, status) => GapsInv'
    BY GapsSame DEF Refuse
<1>d. UNCHANGED <<blocks, disk, inodes, descriptors>> => GapsInv'
    BY GapsQuiet
<1>1. ASSUME NEW mode \in Modes, Create(u, n, mode) PROVE GapsInv'
  <2>1. CASE n \in DOMAIN names
    BY <1>1, <1>r, <2>1 DEF Create
  <2>2. CASE n \notin DOMAIN names
    <3> DEFINE i == NextNumber(DOMAIN inodes)
               v == NewInode(u, mode, 1)
    <3>1. inodes' = With(inodes, i, v) /\ UNCHANGED <<disk, blocks, descriptors>>
        BY <1>1, <2>2 DEF Create
    <3>2. i \notin DOMAIN inodes
        BY NewNumber DEF TablesInv
    <3>3. v.st_size = 0
        BY NewInodeFacts
    <3> HIDE DEF i, v
    <3>4. /\ DOMAIN inodes' = DOMAIN inodes \cup {i} /\ inodes'[i] = v
          /\ \A j \in DOMAIN inodes : inodes'[j] = inodes[j]
        BY <3>1, <3>2 DEF With
    <3>5. QED
        BY <3>1, <3>3, <3>4, GapsQuiet
  <2>3. QED
    BY <2>1, <2>2
<1>2. ASSUME NEW mode \in Modes, Chmode(u, n, mode) PROVE GapsInv'
  <2>1. CASE ~WritePermitted(u, n) \/ n \notin DOMAIN names
    BY <1>2, <1>r, <2>1 DEF Chmode
  <2>2. CASE WritePermitted(u, n) /\ n \in DOMAIN names
    <3>1. names[n] \in DOMAIN inodes
        BY <2>2 DEF WritePermitted, Resolved
    <3>2. /\ inodes' = [inodes EXCEPT ![names[n]] = [@ EXCEPT !.mode = mode % UnsignedRange]]
          /\ UNCHANGED <<disk, blocks, descriptors>>
        BY <1>2, <2>2 DEF Chmode
    <3>3. inodes[names[n]] \in Inode
        BY <3>1 DEF TablesInv, InodesOK
    <3>4. DOMAIN inodes' = DOMAIN inodes
        BY <3>2
    <3>5. \A j \in DOMAIN inodes : /\ inodes'[j].data_blocks = inodes[j].data_blocks
                                   /\ inodes'[j].st_size = inodes[j].st_size
        BY <3>2, <3>3 DEF Inode
    <3>6. QED
        BY <3>2, <3>4, <3>5, GapsQuiet
  <2>3. QED
    BY <2>1, <2>2
<1>3. Stat(u, n) => GapsInv'
    BY <1>r DEF Stat
<1>4. ASSUME NEW new, Rename(n, new) PROVE GapsInv'
    BY <1>4, <1>d, <1>r DEF Rename
<1>5. ASSUME NEW new, Link(u, n, new) PROVE GapsInv'
  <2>1. CASE ~ReadPermitted(u, n) \/ new \in DOMAIN names
    BY <1>5, <1>r, <2>1 DEF Link
  <2>2. CASE ReadPermitted(u, n) /\ new \notin DOMAIN names
    <3> DEFINE i == Resolved(n)
    <3>1. i \in DOMAIN inodes
        BY <2>2 DEF ReadPermitted
    <3>2. inodes' = [inodes EXCEPT ![i].ref_count = @ + 1] /\ UNCHANGED <<disk, blocks, descriptors>>
        BY <1>5, <2>2 DEF Link
    <3> HIDE DEF i
    <3>3. inodes[i] \in Inode
        BY <3>1 DEF TablesInv, InodesOK
    <3>4. DOMAIN inodes' = DOMAIN inodes
        BY <3>2
    <3>5. \A j \in DOMAIN inodes : /\ inodes'[j].data_blocks = inodes[j].data_blocks
                                   /\ inodes'[j].st_size = inodes[j].st_size
        BY <3>2, <3>3 DEF Inode
    <3>6. QED
        BY <3>2, <3>4, <3>5, GapsQuiet
  <2>3. QED
    BY <2>1, <2>2
<1>6. QED
    BY <1>1, <1>2, <1>3, <1>4, <1>5

(* A read moves the offset no further than the first missing block.         *)
LEMMA ReadCovers ==
    ASSUME NEW db \in [FileBlocks -> 0 .. NumBlocks], NEW off \in Nat, NEW size \in Nat,
           \A b \in FileBlocks : b < BlocksFor(off) => db[b] # 0
    PROVE  \A b \in FileBlocks : b < BlocksFor(ReadBack(db, off, size).offset) => db[b] # 0
<1> DEFINE cur == off \div BlockSize
           total == BlocksFor(off + size)
           missing == {b \in cur .. total - 1 : db[b] = 0}
           stop == CHOOSE b \in missing : \A c \in missing : b <= c
           r == ReadBack(db, off, size)
<1> USE BlocksAssumption
<1>1. \/ r.offset = off
      \/ size > 0 /\ missing # {} /\ r.offset = stop * BlockSize
      \/ ~ (size > 0 /\ missing # {}) /\ r.offset = off + size
    BY DEF ReadBack
<1> HIDE DEF r
<1>2. PICK q \in Nat, y \in 0 .. BlockSize - 1 : cur = q /\ off % BlockSize = y
    BY DivMod
<1>3. q <= BlocksFor(off) /\ BlocksFor(off) \in Nat
    BY <1>2, BlocksForFacts
<1>4. total \in Nat
    BY BlocksForFacts
<1>5. CASE size > 0 /\ missing # {} /\ r.offset = stop * BlockSize
  <2>1. missing \subseteq Nat
    BY <1>2
  <2>2. \E m \in missing : \A c \in missing : m <= c
    <3> HIDE DEF missing
    <3>1. QED
        BY <1>5, <2>1, LeastExists
  <2>3. stop \in missing /\ \A c \in missing : stop <= c
    BY <2>2
  <2>4. PICK s \in Nat : s = stop
    BY <2>1, <2>3
  <2> HIDE DEF stop, missing
  <2>5. r.offset = s * BlockSize /\ s * BlockSize \in Nat
    BY <1>5, <2>4
  <2>6. BlocksFor(s * BlockSize) = s
    <3>1. PICK x \in Nat, z \in 0 .. BlockSize - 1 :
              /\ (s * BlockSize) \div BlockSize = x /\ (s * BlockSize) % BlockSize = z
              /\ s * BlockSize = x * BlockSize + z
        BY <2>5, DivMod
    <3>2. /\ x < s => x * BlockSize + BlockSize <= s * BlockSize
          /\ s < x => s * BlockSize + BlockSize <= x * BlockSize
        BY MultipleStep
    <3>3. x * BlockSize \in Nat
        OBVIOUS
    <3>4. x = s /\ z = 0
        BY <2>5, <3>1, <3>2, <3>3
    <3>5. QED
        BY <3>1, <3>4 DEF BlocksFor
  <2>7. ASSUME NEW b \in FileBlocks, b < s PROVE db[b] # 0
    <3>1. b \in Nat
        BY DEF FileBlocks
    <3>2. CASE b < q
        BY <1>3, <3>1, <3>2
    <3>3. CASE q <= b
      <4>1. s \in q .. total - 1
        BY <1>2, <2>3, <2>4 DEF missing
      <4>2. b \in cur .. total - 1
        BY <1>2, <1>4, <2>7, <3>1, <3>3, <4>1
      <4>3. b \notin missing
        BY <2>3, <2>4, <2>7, <3>1
      <4>4. QED
        BY <4>2, <4>3 DEF missing
    <3>4. QED
        BY <3>1, <3>2, <3>3
  <2>8. QED
    BY <2>5, <2>6, <2>7 DEF r
<1>6. CASE ~ (size > 0 /\ missing # {}) /\ r.offset = off + size
  <2>1. CASE size = 0
    BY <1>6, <2>1 DEF r
  <2>2. CASE size > 0
    <3>1. \A b \in cur .. total - 1 : db[b] # 0
        BY <1>6, <2>2
    <3>2. ASSUME NEW b \in FileBlocks, b < total PROVE db[b] # 0
      <4>1. b \in Nat
        BY DEF FileBlocks
      <4>2. CASE b < q
        BY <1>3, <4>1, <4>2
      <4>3. CASE q <= b
        <5> HIDE DEF total
        <5>1. b \in cur .. total - 1
            BY <1>2, <1>4, <3>2, <4>1, <4>3
        <5>2. QED
            BY <3>1, <5>1
      <4>4. QED
        BY <4>1, <4>2, <4>3
    <3>3. QED
        BY <1>6, <3>2 DEF r
  <2>3. QED
    BY <2>1, <2>2
<1>7. CASE r.offset = off
    BY <1>7 DEF r
<1>8. QED
    BY <1>1, <1>5, <1>6, <1>7

(* Operations on descriptors: a new one is at 0, a read or seek stays where *)
(* the file has blocks.                                                     *)
LEMMA GapsDescriptors ==
    ASSUME TablesInv, GapsInv
    PROVE  /\ \A u, n, flag : Open(u, n, flag) => GapsInv'
           /\ \A d : Close(d) => GapsInv'
           /\ \A d : \A size \in Sizes : Read(d, size) \/ Seek(d, size) => GapsInv'
<1>r. \A request, status : Refuse(request, status) => GapsInv'
    BY GapsSame DEF Refuse
<1>d. ASSUME UNCHANGED <<blocks, disk, inodes>>, NEW d,
             \A e \in DOMAIN descriptors' :
                 \/ e \in DOMAIN descriptors /\ descriptors'[e] = descriptors[e]
                 \/ e = d,
             NoGaps => \/ d \notin DOMAIN descriptors'
                       \/ descriptors'[d].offset = 0
                       \/ Backed(descriptors'[d].node_index, descriptors'[d].offset)
      PROVE  GapsInv'
    BY <1>d, GapsQuiet
<1>1. ASSUME NEW u, NEW n, NEW flag, Open(u, n, flag) PROVE GapsInv'
  <2>1. CASE \E status : Refuse(<<"open", u, n, flag>>, status)
    BY <1>r, <2>1
  <2>2. CASE ~ \E status : Refuse(<<"open", u, n, flag>>, status)
    <3> DEFINE d == NextNumber(DOMAIN descriptors)
               v == [node_index |-> Resolved(n), mode |-> flag, offset |-> 0]
    <3>1. descriptors' = With(descriptors, d, v) /\ UNCHANGED <<blocks, disk, inodes>>
        BY <1>1, <2>2 DEF Open
    <3>2. v.offset = 0
        OBVIOUS
    <3> HIDE DEF d, v
    <3>3. /\ DOMAIN descriptors' = DOMAIN descriptors \cup {d}
          /\ \A e \in DOMAIN descriptors' :
                 descriptors'[e] = IF e = d THEN v ELSE descriptors[e]
        BY <3>1 DEF With
    <3>4. PICK e : e = d
        OBVIOUS
    <3>5. descriptors'[e].offset = 0
        BY <3>2, <3>3, <3>4
    <3>6. \A x \in DOMAIN descriptors' :
              (x \in DOMAIN descriptors /\ descriptors'[x] = descriptors[x]) \/ x = e
        BY <3>3, <3>4
    <3>7. QED
        BY <1>d, <3>1, <3>5, <3>6
  <2>3. QED
    BY <2>1, <2>2
<1>2. ASSUME NEW d, Close(d) PROVE GapsInv'
  <2>1. CASE d \notin DOMAIN descriptors
    BY <1>2, <1>r, <2>1 DEF Close
  <2>2. CASE d \in DOMAIN descriptors
    <3>1. descriptors' = Without(descriptors, d) /\ UNCHANGED <<blocks, disk, inodes>>
        BY <1>2, <2>2 DEF Close
    <3>2. \A e \in DOMAIN descriptors' : e \in DOMAIN descriptors /\ descriptors'[e] = descriptors[e]
        BY <3>1 DEF Without
    <3>3. d \notin DOMAIN descriptors'
        BY <3>1 DEF Without
    <3>4. QED
        BY <1>d, <3>1, <3>2, <3>3
  <2>3. QED
    BY <2>1, <2>2
\* An offset moves to n, of which the file has the blocks.
<1>3. ASSUME UNCHANGED <<blocks, disk, inodes>>, NEW d \in DOMAIN descriptors, NEW n,
             descriptors' = [descriptors EXCEPT ![d] = [@ EXCEPT !.offset = n]],
             NoGaps => Backed(descriptors[d].node_index, n)
      PROVE  GapsInv'
  <2>1. descriptors[d] \in Descriptor
    BY DEF TablesInv, DescriptorsOK
  <2>2. descriptors'[d].offset = n /\ descriptors'[d].node_index = descriptors[d].node_index
    BY <1>3, <2>1 DEF Descriptor
  <2>3. \A e \in DOMAIN descriptors' :
            (e \in DOMAIN descriptors /\ descriptors'[e] = descriptors[e]) \/ e = d
    BY <1>3
  <2>4. NoGaps => Backed(descriptors'[d].node_index, descriptors'[d].offset)
    BY <1>3, <2>2
  <2>5. QED
    BY <1>3, <1>d, <2>3, <2>4
<1>4. ASSUME NEW d, NEW size \in Sizes, Read(d, size) PROVE GapsInv'
  <2>1. CASE ~Attached(d)
    BY <1>4, <1>r, <2>1 DEF Read
  <2>2. CASE Attached(d)
    <3> DEFINE i == descriptors[d].node_index
               off == descriptors[d].offset
               db == inodes[i].data_blocks
    <3>1. /\ descriptors' = [descriptors EXCEPT ![d] = [@ EXCEPT !.offset = ReadBack(db, off, size).offset]]
          /\ UNCHANGED <<blocks, disk, inodes>>
        BY <1>4, <2>2 DEF Read
    <3>2. d \in DOMAIN descriptors /\ i \in DOMAIN inodes /\ off \in Nat /\ size \in Nat
        BY <2>2, AttachedFacts, ArgsAssumption
    <3>3. db \in [FileBlocks -> 0 .. NumBlocks]
        BY <3>2, BlocksWithin
    <3>4. PICK n : n = ReadBack(db, off, size).offset
        OBVIOUS
    <3>5. ASSUME NoGaps PROVE Backed(i, n)
      <4>1. \A b \in FileBlocks : b < BlocksFor(off) => db[b] # 0
        BY <3>2, <3>5 DEF NoGaps, Backed
      <4> HIDE DEF db, off, i
      <4>2. \A b \in FileBlocks : b < BlocksFor(n) => db[b] # 0
        BY <3>2, <3>3, <3>4, <4>1, ReadCovers
      <4>3. QED
        BY <3>2, <4>2 DEF Backed, db
    <3>6. descriptors' = [descriptors EXCEPT ![d] = [@ EXCEPT !.offset = n]]
        BY <3>1, <3>4
    <3>7. QED
        BY <1>3, <3>1, <3>2, <3>5, <3>6
  <2>3. QED
    BY <2>1, <2>2
<1>5. ASSUME NEW d, NEW off \in Sizes, Seek(d, off) PROVE GapsInv'
  <2> DEFINE i == descriptors[d].node_index
  <2>1. CASE ~Attached(d) \/ off > inodes[i].st_size
    BY <1>5, <1>r, <2>1 DEF Seek
  <2>2. CASE Attached(d) /\ ~ (off > inodes[i].st_size)
    <3>1. /\ descriptors' = [descriptors EXCEPT ![d] = [@ EXCEPT !.offset = off]]
          /\ UNCHANGED <<blocks, disk, inodes>>
        BY <1>5, <2>2 DEF Seek
    <3>2. d \in DOMAIN descriptors /\ i \in DOMAIN inodes /\ off \in Nat
        BY <2>2, AttachedFacts, ArgsAssumption
    <3>3. PICK n \in Nat : n = inodes[i].st_size
        BY <3>2, BlocksWithin DEF Inode
    <3>4. off <= n
        BY <2>2, <3>2, <3>3
    <3>5. BlocksFor(off) \in Nat /\ BlocksFor(n) \in Nat /\ BlocksFor(off) <= BlocksFor(n)
        BY <3>2, <3>4, BlocksMonotone
    <3>6. ASSUME NoGaps PROVE Backed(i, off)
      <4>1. Backed(i, n)
        BY <3>2, <3>3, <3>6 DEF NoGaps
      <4>2. \A b \in FileBlocks : b < BlocksFor(off) => b < BlocksFor(n)
        BY <3>5 DEF FileBlocks
      <4>3. QED
        BY <4>1, <4>2 DEF Backed
    <3>7. QED
        BY <1>3, <3>1, <3>2, <3>6
  <2>3. QED
    BY <2>1, <2>2
<1>6. QED
    BY <1>1, <1>2, <1>4, <1>5

(* A write gives the file the blocks up to its end, or keeps those it has.  *)
LEMMA WriteCovers ==
    ASSUME NEW i, NEW db, NEW off, NEW buf, Writable(i, db, off, buf),
           NEW w, w = Written(i, db, off, buf)
    PROVE  /\ \A b \in FileBlocks : db[b] # 0 => w.data_blocks[b] # 0
           /\ w.ok /\ (\A b \in FileBlocks : b < BlocksFor(off) => db[b] # 0)
                => \A b \in FileBlocks : b < BlocksFor(off + Len(buf)) => w.data_blocks[b] # 0
<1> DEFINE start == FirstNew(db, off, Len(buf))
           got == Gets(db, off, Len(buf))
           total == BlocksFor(off + Len(buf))
           taken == start .. start + got - 1
<1> USE BlocksAssumption
<1>0. off \in Nat
    BY DEF Writable
<1>1. WroteSlots(w, i, db, off, Len(buf))
    BY WrittenShape
<1>a. /\ start \in Nat /\ got \in Nat /\ total \in Nat
      /\ \A k \in 0 .. got - 1 : KthFree(k) \in FreeSlots
    BY <1>1 DEF WroteSlots
<1>b. w.ok => start + got = total
    BY <1>1 DEF WroteSlots
<1>2. /\ start \in Nat /\ got \in Nat /\ total \in Nat
      /\ w.ok => start + got = total
      /\ \A k \in 0 .. got - 1 : KthFree(k) \in FreeSlots
      /\ w.data_blocks = [b \in FileBlocks |-> IF b \in taken THEN KthFree(b - start) + 1 ELSE db[b]]
  <2>1. w.data_blocks = [b \in FileBlocks |-> IF b \in taken THEN KthFree(b - start) + 1 ELSE db[b]]
    BY <1>1 DEF WroteSlots
  <2> HIDE DEF start, got, total, taken
  <2>2. QED
    BY <1>a, <1>b, <2>1
<1>3. \A b \in FileBlocks : b \in Nat
    BY DEF FileBlocks
<1>4. PICK q \in Nat, y \in 0 .. BlockSize - 1 : off \div BlockSize = q /\ off % BlockSize = y
    BY <1>0, DivMod
<1>5. start = q \/ (start = q + 1 /\ db[q] # 0)
    BY <1>4 DEF FirstNew, Hits
<1>6. q <= BlocksFor(off) /\ BlocksFor(off) \in Nat
    BY <1>0, <1>4, BlocksForFacts
<1> HIDE DEF start, got, total
<1>7. ASSUME NEW b \in FileBlocks, b \in taken PROVE w.data_blocks[b] # 0
  <2>1. b - start \in 0 .. got - 1
    BY <1>2, <1>7
  <2>2. PICK s \in Nat : s = KthFree(b - start)
    BY <1>2, <2>1 DEF FreeSlots, Slots
  <2>3. w.data_blocks[b] = s + 1
    BY <1>2, <1>7, <2>2
  <2>4. QED
    BY <2>2, <2>3
<1>8. \A b \in FileBlocks : db[b] # 0 => w.data_blocks[b] # 0
    BY <1>2, <1>7
<1>9. ASSUME w.ok, \A b \in FileBlocks : b < BlocksFor(off) => db[b] # 0, NEW b \in FileBlocks, b < total
      PROVE  w.data_blocks[b] # 0
  <2>1. CASE start <= b
    <3>1. b \in taken
        BY <1>2, <1>3, <1>9, <2>1
    <3>2. QED
        BY <1>7, <3>1
  <2>2. CASE b < start
    <3>1. b < q \/ (b = q /\ db[q] # 0)
        BY <1>3, <1>5, <2>2
    <3>2. db[b] # 0
        BY <1>3, <1>6, <1>9, <3>1
    <3>3. QED
        BY <1>8, <3>2
  <2>3. QED
    BY <1>2, <1>3, <2>1, <2>2
<1>10. QED
    BY <1>8, <1>9 DEF total

\* What a write that is not refused does to file i, from offset off.
Wrote(d, buf, i, off, w) ==
    /\ i = descriptors[d].node_index /\ off = descriptors[d].offset
    /\ d \in DOMAIN descriptors /\ i \in DOMAIN inodes
    /\ Writable(i, inodes[i].data_blocks, off, buf)
    /\ w = Written(i, inodes[i].data_blocks, off, buf)
    /\ blocks' = w.blocks /\ disk' = w.disk
    /\ DOMAIN inodes' = DOMAIN inodes /\ inodes'[i].data_blocks = w.data_blocks
    /\ inodes'[i].st_size = IF w.ok THEN off + Len(buf) ELSE inodes[i].st_size
    /\ \A j \in DOMAIN inodes : j # i => inodes'[j] = inodes[j]
    /\ descriptors' = [descriptors EXCEPT ![d] =
                          [@ EXCEPT !.offset = IF w.ok THEN off + Len(buf) ELSE off]]
    /\ reply'.status = "SUCCESS" => w.ok

LEMMA WriteDone ==
    ASSUME TablesInv, NEW d, NEW buf \in Buffers, Write(d, buf)
    PROVE  \/ UNCHANGED tables /\ reply'.status # "SUCCESS"
           \/ \E i, off, w : Wrote(d, buf, i, off, w)
<1> DEFINE refused == \/ ~Attached(d)
                      \/ descriptors[d].mode = "READ_ONLY"
                      \/ descriptors[d].offset + Len(buf) > BlockSize * FileMaxBlocks
<1>1. CASE refused
    BY <1>1 DEF Write, Refuse, Answer
<1>2. CASE ~refused
  <2> DEFINE n == descriptors[d].node_index
             at == descriptors[d].offset
  <2>0. PICK i, off : i = n /\ off = at
    OBVIOUS
  <2> DEFINE db == inodes[i].data_blocks
             w == Written(i, db, off, buf)
             end == off + Len(buf)
             v == [inodes[i] EXCEPT !.data_blocks = w.data_blocks,
                                    !.st_size = IF w.ok THEN end ELSE inodes[i].st_size]
  <2>1. /\ inodes' = [inodes EXCEPT ![i] = v]
        /\ descriptors' = [descriptors EXCEPT ![d] = [@ EXCEPT !.offset = IF w.ok THEN end ELSE off]]
        /\ blocks' = w.blocks /\ disk' = w.disk
    BY <1>2, <2>0 DEF Write, Answer
  <2>2. reply' = [request |-> <<"write", d, buf>>, status |-> IF w.ok THEN "SUCCESS" ELSE "FAILURE",
                  data |-> <<>>]
    BY <1>2, <2>0 DEF Write, Answer
  <2>3. /\ d \in DOMAIN descriptors /\ i \in DOMAIN inodes /\ off \in Nat /\ i \in Nat
        /\ i = descriptors[d].node_index /\ off = descriptors[d].offset
    BY <1>2, <2>0, AttachedFacts
  <2>4. buf \in Seq(Values) /\ end \in Nat /\ ~ (end > BlockSize * FileMaxBlocks)
    BY <1>2, <2>3, ArgsAssumption
  <2>5. end <= BlockSize * FileMaxBlocks
    <3>1. BlockSize * FileMaxBlocks \in Nat
        BY BlocksAssumption
    <3> HIDE DEF end
    <3>2. QED
        BY <2>4, <3>1
  <2>6. inodes[i] \in Inode /\ db \in [FileBlocks -> 0 .. NumBlocks]
    BY <2>3, BlocksWithin
  <2>7. Writable(i, db, off, buf)
    BY <2>3, <2>4, <2>5, <2>6 DEF Writable, TablesInv, BlocksOK
  <2> HIDE DEF w, end, n, at
  <2>8. /\ DOMAIN inodes' = DOMAIN inodes /\ inodes'[i] = v
        /\ \A j \in DOMAIN inodes : j # i => inodes'[j] = inodes[j]
    BY <2>1, <2>3
  <2>9. /\ v.data_blocks = w.data_blocks
        /\ v.st_size = IF w.ok THEN end ELSE inodes[i].st_size
    BY <2>6 DEF Inode
  <2>10. reply'.status = "SUCCESS" => w.ok
    BY <2>2
  <2> HIDE DEF v
  <2>11. Wrote(d, buf, i, off, w)
    BY <2>1, <2>3, <2>7, <2>8, <2>9, <2>10 DEF Wrote, w, end
  <2>12. QED
    BY <2>11
<1>3. QED
    BY <1>1, <1>2

LEMMA GapsWrite ==
    ASSUME TablesInv, GapsInv, NEW d, NEW buf \in Buffers, Write(d, buf)
    PROVE  GapsInv'
<1>1. CASE UNCHANGED tables
    BY <1>1, GapsSame
<1>2. CASE \E i, off, w : Wrote(d, buf, i, off, w)
  <2>1. PICK i, off, w : Wrote(d, buf, i, off, w)
    BY <1>2
  <2> DEFINE db == inodes[i].data_blocks
             end == off + Len(buf)
  <2>2. /\ i = descriptors[d].node_index /\ off = descriptors[d].offset
        /\ d \in DOMAIN descriptors /\ i \in DOMAIN inodes
        /\ Writable(i, db, off, buf) /\ w = Written(i, db, off, buf)
        /\ blocks' = w.blocks /\ disk' = w.disk
        /\ DOMAIN inodes' = DOMAIN inodes /\ inodes'[i].data_blocks = w.data_blocks
        /\ \A j \in DOMAIN inodes : j # i => inodes'[j] = inodes[j]
    BY <2>1 DEF Wrote
  <2>3. /\ inodes'[i].st_size = IF w.ok THEN end ELSE inodes[i].st_size
        /\ descriptors' = [descriptors EXCEPT ![d] = [@ EXCEPT !.offset = IF w.ok THEN end ELSE off]]
    BY <2>1 DEF Wrote
  <2>4. PICK e : e = IF w.ok THEN end ELSE off
    OBVIOUS
  <2>5. descriptors[d] \in Descriptor
    BY <2>2 DEF TablesInv, DescriptorsOK
  <2> HIDE DEF db, end
  <2>6. Fresh' /\ FreeSlots' # {} => Fresh /\ FreeSlots # {}
    BY <2>2, FreshBefore
  <2>7. /\ \A b \in FileBlocks : db[b] # 0 => w.data_blocks[b] # 0
        /\ w.ok /\ (\A b \in FileBlocks : b < BlocksFor(off) => db[b] # 0)
             => \A b \in FileBlocks : b < BlocksFor(end) => w.data_blocks[b] # 0
    BY <2>2, WriteCovers DEF end
  <2>8. \A j \in DOMAIN inodes : j \in DOMAIN inodes' /\
            \A b \in FileBlocks : inodes[j].data_blocks[b] # 0 => inodes'[j].data_blocks[b] # 0
    BY <2>2, <2>7 DEF db
  <2>9. NoGaps => \A b \in FileBlocks : b < BlocksFor(off) => db[b] # 0
    BY <2>2 DEF NoGaps, Backed, db
  <2>10. ASSUME NoGaps PROVE Backed(i, e)'
    <3>1. \A b \in FileBlocks : b < BlocksFor(e) => w.data_blocks[b] # 0
      <4>1. CASE w.ok
        BY <2>4, <2>7, <2>9, <2>10, <4>1
      <4>2. CASE ~w.ok
        BY <2>4, <2>7, <2>9, <2>10, <4>2
      <4>3. QED
        BY <4>1, <4>2
    <3>2. FileBlocks' = FileBlocks /\ BlocksFor(e)' = BlocksFor(e)
        BY DEF FileBlocks, BlocksFor
    <3>3. QED
        BY <2>2, <3>1, <3>2 DEF Backed
  <2>11. ASSUME NoGaps, NEW j \in DOMAIN inodes'
         PROVE  \/ j \in DOMAIN inodes /\ inodes'[j].st_size = inodes[j].st_size
                \/ Backed(j, inodes[j].st_size)'
    <3>1. CASE j = i /\ w.ok
      <4>1. inodes'[i].st_size = e
        BY <2>3, <2>4, <3>1
      <4>2. QED
        BY <2>10, <2>11, <3>1, <4>1 DEF Backed
    <3>2. CASE ~ (j = i /\ w.ok)
        BY <2>2, <2>3, <3>2
    <3>3. QED
        BY <3>1, <3>2
  <2>12. ASSUME NoGaps, NEW c \in DOMAIN descriptors'
         PROVE  \/ c \in DOMAIN descriptors /\ descriptors'[c] = descriptors[c]
                \/ Backed(descriptors[c].node_index, descriptors[c].offset)'
    <3>1. CASE c = d
      <4>1. descriptors'[c].offset = e /\ descriptors'[c].node_index = i
        BY <2>2, <2>3, <2>4, <2>5, <3>1 DEF Descriptor
      <4>2. QED
        BY <2>10, <2>12, <4>1 DEF Backed
    <3>2. CASE c # d
        BY <2>3, <3>2
    <3>3. QED
        BY <3>1, <3>2
  <2>13. QED
    BY <2>6, <2>8, <2>11, <2>12, GapsStep
<1>3. QED
    BY <1>1, <1>2, WriteDone

(* A copy that succeeds has all the blocks, one that fails has no size.     *)
LEMMA GapsSymlink ==
    ASSUME TablesInv, GapsInv, NEW u \in Users, NEW n, NEW new \in Names, NEW mode \in Modes,
           Symlink(u, n, new, mode)
    PROVE  GapsInv'
<1> DEFINE refused == ~ReadPermitted(u, n) \/ n \notin DOMAIN names \/ new \in DOMAIN names
<1>1. CASE refused
    BY <1>1, GapsSame DEF Symlink, Refuse
<1>2. CASE ~refused
  <2> DEFINE parent == inodes[names[n]]
             k == NextNumber(DOMAIN inodes)
             child == NewInode(u, mode, 1)
             r == ReadBack(parent.data_blocks, 0, parent.st_size)
             full == Written(k, child.data_blocks, 0, r.data)
             entry == IF ~r.ok THEN child
                      ELSE [child EXCEPT !.data_blocks = full.data_blocks,
                                         !.st_size = IF full.ok THEN parent.st_size ELSE 0]
  <2>1. /\ inodes' = With(inodes, k, entry)
        /\ blocks' = IF r.ok THEN full.blocks ELSE blocks
        /\ disk' = IF r.ok THEN full.disk ELSE disk
        /\ UNCHANGED descriptors
    BY <1>2 DEF Symlink
  <2>2. PICK i, w, db, data, v :
            i = k /\ w = full /\ db = child.data_blocks /\ data = r.data /\ v = entry
    OBVIOUS
  <2>3. i \in Nat /\ i \notin DOMAIN inodes
    BY <2>2, NewNumber DEF TablesInv
  <2>4. names[n] \in DOMAIN inodes
    BY <1>2 DEF ReadPermitted, Resolved
  <2>5. /\ child \in Inode /\ child.st_size = 0 /\ db = [b \in FileBlocks |-> 0]
        /\ db \in [FileBlocks -> 0 .. NumBlocks]
    BY <2>2, NewInodeFacts, BlocksAssumption
  <2>6. /\ parent.data_blocks \in [FileBlocks -> 0 .. NumBlocks] /\ parent.st_size \in Nat
        /\ \A b \in FileBlocks : parent.data_blocks[b] # 0 => parent.data_blocks[b] \in 1 .. Len(disk)
    BY <2>4, BlocksWithin DEF Inode
  <2>7. r.ok => /\ data \in Seq(Values) /\ Len(data) = parent.st_size
                /\ 0 + parent.st_size <= BlockSize * FileMaxBlocks
    <3> HIDE DEF parent
    <3>1. disk \in Seq(Block) /\ 0 \in Nat
        BY DEF TablesInv, BlocksOK
    <3>2. QED
        BY <2>2, <2>6, <3>1, ReadBackFacts
  <2>8. /\ DOMAIN inodes' = DOMAIN inodes \cup {i} /\ inodes'[i] = v
        /\ \A j \in DOMAIN inodes : inodes'[j] = inodes[j]
    <3>1. inodes' = With(inodes, i, v)
        BY <2>1, <2>2
    <3>2. QED
        BY <2>3, <3>1 DEF With
  <2> HIDE DEF k, child, parent, r, full, entry
  <2>9. CASE ~r.ok
    <3>1. v.st_size = 0 /\ UNCHANGED <<blocks, disk>>
        BY <2>1, <2>2, <2>5, <2>9 DEF entry
    <3>2. QED
        BY <2>1, <2>8, <3>1, GapsQuiet
  <2>10. CASE r.ok
    <3>1. Writable(i, db, 0, data) /\ w = Written(i, db, 0, data)
      <4>1. 0 + Len(data) <= BlockSize * FileMaxBlocks
        BY <2>7, <2>10
      <4>2. Writable(i, db, 0, data)
        BY <2>3, <2>5, <2>7, <2>10, <4>1 DEF Writable, TablesInv, BlocksOK
      <4>3. QED
        BY <2>2, <4>2 DEF full
    <3>2. blocks' = w.blocks /\ disk' = w.disk
        BY <2>1, <2>2, <2>10
    <3>3. v.data_blocks = w.data_blocks /\ v.st_size = IF w.ok THEN 0 + Len(data) ELSE 0
      <4>1. PICK size : size = IF full.ok THEN parent.st_size ELSE 0
        OBVIOUS
      <4>2. v = [child EXCEPT !.data_blocks = w.data_blocks, !.st_size = size]
        BY <2>2, <2>10, <4>1 DEF entry
      <4>3. v.data_blocks = w.data_blocks /\ v.st_size = size
        BY <2>5, <4>2 DEF Inode
      <4>4. size = IF w.ok THEN 0 + Len(data) ELSE 0
        BY <2>2, <2>6, <2>7, <2>10, <4>1
      <4>5. QED
        BY <4>3, <4>4
    <3>4. \A b \in FileBlocks : ~ (b < BlocksFor(0))
      <4>1. Backed(i, 0)
        BY NoUnits
      <4>2. QED
        BY <2>3, <4>1 DEF Backed
    <3>5. w.ok => \A b \in FileBlocks : b < BlocksFor(0 + Len(data)) => w.data_blocks[b] # 0
        BY <3>1, <3>4, WriteCovers
    <3>6. Backed(i, inodes[i].st_size)'
      <4>1. FileBlocks' = FileBlocks /\ \A m : BlocksFor(m)' = BlocksFor(m)
        BY DEF FileBlocks, BlocksFor
      <4>2. PICK m : m = v.st_size
        OBVIOUS
      <4>3. \A b \in FileBlocks : b < BlocksFor(m) => w.data_blocks[b] # 0
        <5>1. CASE w.ok
            BY <3>3, <3>5, <4>2, <5>1
        <5>2. CASE ~w.ok
            BY <3>3, <3>4, <4>2, <5>2
        <5>3. QED
            BY <5>1, <5>2
      <4>4. inodes'[i].st_size = m /\ inodes'[i].data_blocks = w.data_blocks
        BY <2>8, <3>3, <4>2
      <4>5. QED
        BY <2>8, <4>1, <4>3, <4>4 DEF Backed
    <3>7. Fresh' /\ FreeSlots' # {} => Fresh /\ FreeSlots # {}
        BY <3>1, <3>2, FreshBefore
    <3>8. \A j \in DOMAIN inodes' : \/ j \in DOMAIN inodes /\ inodes'[j].st_size = inodes[j].st_size
                                    \/ Backed(j, inodes[j].st_size)'
        BY <2>8, <3>6
    <3>9. QED
        BY <2>1, <2>8, <3>7, <3>8, GapsStep
  <2>11. QED
    BY <2>9, <2>10
<1>3. QED
    BY <1>1, <1>2

(* Unlink leaves slots fresh only when it frees none, and so with files     *)
(* that have no blocks and no open offset beyond 0.                         *)
LEMMA GapsUnlink ==
    ASSUME TablesInv, GapsInv, NEW n, Unlink(n)
    PROVE  GapsInv'
<1>1. CASE n \notin DOMAIN names \/ names[n] \notin DOMAIN inodes
    BY <1>1, GapsSame DEF Unlink, Refuse
<1>2. CASE n \in DOMAIN names /\ names[n] \in DOMAIN inodes
  <2>1. PICK i : i = names[n]
    OBVIOUS
  <2> DEFINE db == inodes[i].data_blocks
  <2>2. Dropped(i, inodes[i].ref_count = 1) /\ UNCHANGED <<disk, descriptors>> /\ i \in DOMAIN inodes
    BY <1>2, <2>1 DEF Unlink
  <2>3. inodes[i] \in Inode
    BY <2>2 DEF TablesInv, InodesOK
  <2>4. CASE inodes[i].ref_count # 1
    <3>1. inodes' = [inodes EXCEPT ![i].ref_count = @ - 1] /\ UNCHANGED blocks
        BY <2>2, <2>4 DEF Dropped
    <3>2. \A j \in DOMAIN inodes : /\ inodes'[j].data_blocks = inodes[j].data_blocks
                                   /\ inodes'[j].st_size = inodes[j].st_size
        BY <2>3, <3>1 DEF Inode
    <3>3. DOMAIN inodes' = DOMAIN inodes
        BY <3>1
    <3>4. QED
        BY <2>2, <3>1, <3>2, <3>3, GapsQuiet
  <2>5. CASE inodes[i].ref_count = 1
    <3>1. /\ inodes' = Without(inodes, i)
          /\ blocks' = [s \in Slots |-> IF s \in Freed(db)
                                        THEN [allocated |-> FALSE, inode_index |-> 0] ELSE blocks[s]]
        BY <2>2, <2>5 DEF Dropped
    <3>2. /\ DOMAIN inodes' = DOMAIN inodes \ {i}
          /\ \A j \in DOMAIN inodes' : inodes'[j] = inodes[j]
        BY <3>1 DEF Without
    <3> SUFFICES ASSUME Fresh', FreeSlots' # {} PROVE NoGaps'
        BY DEF GapsInv
    <3>3. FreeSlots' = {s \in Slots : ~blocks'[s].allocated}
        BY DEF FreeSlots, Slots
    <3>4. FreeSlots' = Len(disk) .. NumBlocks - 1
        BY <2>2 DEF Fresh
    <3>5. \A s \in Slots : s \notin Freed(db)
      <4> SUFFICES ASSUME NEW s \in Slots, s \in Freed(db) PROVE FALSE
        OBVIOUS
      <4>1. PICK b \in FileBlocks : s = db[b] - 1 /\ \A a \in 0 .. b : db[a] # 0
        BY DEF Freed
      <4>2. db[b] # 0
        BY <4>1 DEF FileBlocks
      <4>3. PICK x \in 1 .. Len(disk) : x = db[b]
        BY <2>2, <4>2, BlocksWithin
      <4>4. s < Len(disk) /\ Len(disk) \in Nat /\ s \in Nat
        BY <4>1, <4>3 DEF TablesInv, BlocksOK
      <4>5. s \in FreeSlots'
        BY <3>1, <3>3
      <4>6. QED
        BY <3>4, <4>4, <4>5
    <3>6. blocks' = blocks
      <4>1. blocks \in [Slots -> TableEntry]
        BY DEF TablesInv, BlocksOK
      <4>2. \A s \in Slots : blocks'[s] = blocks[s]
        BY <3>1, <3>5
      <4>3. QED
        BY <3>1, <4>1, <4>2
    <3>7. NoGaps
      <4>1. FreeSlots = FreeSlots'
        BY <3>3, <3>6 DEF FreeSlots
      <4>2. QED
        BY <3>4, <4>1 DEF GapsInv, Fresh
    <3>8. db[0] = 0 /\ 0 \in FileBlocks
      <4>1. 0 \in FileBlocks /\ \A a \in 0 .. 0 : a = 0
        BY BlocksAssumption DEF FileBlocks
      <4>2. db[0] # 0 => db[0] - 1 \in Freed(db)
        BY <4>1 DEF Freed
      <4>3. db[0] # 0 => db[0] - 1 \in Slots
        <5>1. db[0] \in 0 .. NumBlocks
            BY <2>2, <4>1, BlocksWithin
        <5>2. QED
            BY <5>1, BlocksAssumption DEF Slots
      <4>4. QED
        BY <3>5, <4>1, <4>2, <4>3
    <3>9. FileBlocks' = FileBlocks /\ \A m : BlocksFor(m)' = BlocksFor(m)
        BY DEF FileBlocks, BlocksFor
    <3>10. ASSUME NEW j, NEW m, Backed(j, m), m \in Nat PROVE Backed(j, m)'
      <4>1. CASE j # i
        <5>1. j \in DOMAIN inodes => j \in DOMAIN inodes' /\ inodes'[j] = inodes[j]
            BY <3>2, <4>1
        <5>2. QED
            BY <3>9, <3>10, <5>1 DEF Backed
      <4>2. CASE j = i
        <5>1. ~ (0 < BlocksFor(m)) /\ BlocksFor(m) \in Nat
            BY <3>8, <3>10, <4>2, BlocksForFacts DEF Backed
        <5>2. \A b \in FileBlocks : ~ (b < BlocksFor(m))
            BY <5>1 DEF FileBlocks
        <5>3. QED
            BY <3>9, <5>2 DEF Backed
      <4>3. QED
        BY <4>1, <4>2
    <3>11. ASSUME NEW j \in DOMAIN inodes' PROVE Backed(j, inodes[j].st_size)'
      <4>1. j \in DOMAIN inodes /\ inodes'[j] = inodes[j]
        BY <3>2
      <4>2. PICK m \in Nat : m = inodes[j].st_size
        BY <4>1, BlocksWithin DEF Inode
      <4>3. Backed(j, m)'
        BY <3>7, <3>10, <4>1, <4>2 DEF NoGaps
      <4>4. QED
        BY <4>1, <4>2, <4>3 DEF Backed
    <3>12. ASSUME NEW d \in DOMAIN descriptors'
           PROVE  Backed(descriptors[d].node_index, descriptors[d].offset)'
      <4>1. d \in DOMAIN descriptors /\ descriptors'[d] = descriptors[d]
        BY <2>2
      <4>2. descriptors[d] \in Descriptor
        BY <4>1 DEF TablesInv, DescriptorsOK
      <4>3. PICK j, m \in Nat : j = descriptors[d].node_index /\ m = descriptors[d].offset
        BY <4>2 DEF Descriptor
      <4>4. Backed(j, m)'
        BY <3>7, <3>10, <4>1, <4>3 DEF NoGaps
      <4>5. QED
        BY <4>1, <4>3, <4>4 DEF Backed
    <3>13. QED
        BY <3>11, <3>12 DEF NoGaps
  <2>6. QED
    BY <2>4, <2>5
<1>3. QED
    BY <1>1, <1>2

LEMMA GapsKept == ASSUME TablesInv, GapsInv, Next \/ UNCHANGED vars PROVE GapsInv'
<1>1. CASE UNCHANGED vars \/ Crash
    BY <1>1, GapsSame DEF vars, Crash
<1>2. CASE NameOperation
  <2>1. PICK u \in Users, n \in Names :
            \/ \E mode \in Modes : Create(u, n, mode) \/ Chmode(u, n, mode)
            \/ Stat(u, n)
            \/ \E new \in Names : \/ Rename(n, new) \/ Link(u, n, new)
                                  \/ \E mode \in Modes : Symlink(u, n, new, mode)
            \/ \E flag \in {"READ_ONLY", "WRITE_ONLY", "OTHER"} : Open(u, n, flag)
            \/ Unlink(n)
    BY <1>2 DEF NameOperation
  <2>2. QED
    BY <2>1, GapsNames, GapsDescriptors, GapsSymlink, GapsUnlink
<1>3. CASE FileOperation
  <2>1. PICK d : \/ Close(d)
                 \/ \E buf \in Buffers : Write(d, buf)
                 \/ \E size \in Sizes : Read(d, size) \/ Seek(d, size)
    BY <1>3 DEF FileOperation
  <2>2. CASE \E buf \in Buffers : Write(d, buf)
    BY <2>2, GapsWrite
  <2>3. CASE ~ \E buf \in Buffers : Write(d, buf)
    BY <2>1, <2>3, GapsDescriptors
  <2>4. QED
    BY <2>2, <2>3
<1>4. QED
    BY <1>1, <1>2, <1>3 DEF Next

LEMMA GapsInvariance == Spec => [](TablesInv /\ GapsInv)
<1>1. Init => GapsInv
    BY DEF Init, GapsInv, NoGaps
<1>2. TablesInv /\ GapsInv /\ [Next]_vars => GapsInv'
    BY GapsKept
<1>3. QED
    BY <1>1, <1>2, TablesInit, TablesStep, PTL DEF Spec

-----------------------------------------------------------------------------
\* The file after a write of buf to offset off of a file with the blocks db:
\* the blocks from off on are there and hold buf, and those before it, where
\* they were there, hold the units of before.
UnitsKept(w, db, off, buf) ==
    /\ \A b \in FileBlocks : b < BlocksFor(off) => (w.data_blocks[b] = 0 <=> db[b] = 0)
    /\ \A b \in FileBlocks :
          off \div BlockSize <= b /\ b < BlocksFor(off + Len(buf)) => w.data_blocks[b] # 0
    /\ \A p \in Nat : off <= p /\ p < off + Len(buf) =>
          w.disk[w.data_blocks[p \div BlockSize]][p % BlockSize] = buf[p - off + 1]
    /\ \A p \in Nat : p < off /\ db[p \div BlockSize] # 0 =>
          w.disk[w.data_blocks[p \div BlockSize]][p % BlockSize]
              = disk[db[p \div BlockSize]][p % BlockSize]
Unbroken(db, off) == \A b \in FileBlocks : b < BlocksFor(off) => db[b] # 0

(* A write that succeeds when slots are fresh does that.  Only a missing    *)
(* last block of the file before off could make it go wrong: the new one    *)
(* would then be filled from its start (inode.c 302-316).                   *)
LEMMA UnitsWritten ==
    ASSUME TablesInv, Fresh, NEW i \in DOMAIN inodes, NEW db, db = inodes[i].data_blocks,
           NEW off, NEW buf, Writable(i, db, off, buf), FreeSlots # {} => Unbroken(db, off),
           NEW w, w = Written(i, db, off, buf), w.ok
    PROVE  UnitsKept(w, db, off, buf)
<1> DEFINE size == Len(buf)
           hit == Hits(db, off, size)
           inplace == FirstUnits(db, off, size)
           start == FirstNew(db, off, size)
           got == Gets(db, off, size)
           total == BlocksFor(off + size)
           L == Len(disk)
           F == FreeSlots
<1> USE BlocksAssumption
<1>1. /\ off \in Nat /\ size \in Nat /\ buf \in Seq(Values) /\ off + size <= BlockSize * FileMaxBlocks
      /\ db \in [FileBlocks -> 0 .. NumBlocks] /\ L \in Nat /\ L <= NumBlocks
    BY DEF Writable
<1>2. PICK cur \in Nat, r \in 0 .. BlockSize - 1 :
          off \div BlockSize = cur /\ off % BlockSize = r /\ off = cur * BlockSize + r
    BY <1>1, DivMod
<1>3. /\ total \in Nat /\ total <= FileMaxBlocks /\ cur <= total
      /\ \A p \in Nat : p < off + size => p \div BlockSize < total
  <2>1. PICK m \in Nat : m = off + size
    BY <1>1
  <2>2. BlocksFor(m) \in Nat /\ BlocksFor(m) <= FileMaxBlocks
    BY <1>1, <2>1, BlocksForFacts
  <2>3. /\ \A p \in Nat : p < m => p \div BlockSize < BlocksFor(m)
        /\ \A p \in Nat : p <= m => p \div BlockSize <= BlocksFor(m)
    BY BlocksForFacts
  <2>4. off <= m
    BY <1>1, <2>1
  <2>5. QED
    BY <1>1, <1>2, <2>1, <2>2, <2>3, <2>4
<1>4. WroteSlots(w, i, db, off, size) /\ WroteUnits(w, db, off, buf)
    BY WrittenShape
<1>5. /\ got \in Nat /\ start + got = total /\ start \in Nat /\ got <= Cardinality(F)
      /\ \A k \in 0 .. got - 1 : KthFree(k) \in F /\ Cardinality(Below(F, KthFree(k))) = k
      /\ w.data_blocks = [b \in FileBlocks |->
            IF b \in start .. start + got - 1 THEN KthFree(b - start) + 1 ELSE db[b]]
    BY <1>4 DEF WroteSlots
<1>6. /\ Len(w.disk) = Least(L + got, NumBlocks)
      /\ \A s \in 1 .. Len(w.disk) :
            w.disk[s] = IF s > L THEN NewBlock(db, off, buf, s - L - 1)
                        ELSE IF hit /\ s = db[cur] THEN FirstBlock(db, off, buf) ELSE disk[s]
    BY <1>2, <1>4 DEF WroteUnits
<1>7. /\ hit => start = cur + 1 /\ inplace = Least(size, BlockSize - r)
      /\ hit => cur < total /\ db[cur] # 0
      /\ ~hit => start = cur /\ inplace = 0 /\ (cur < total => db[cur] = 0)
    BY <1>2 DEF FirstNew, FirstUnits, Hits, InPlace
<1>s. \A s \in 1 .. Len(w.disk) :
          /\ s > L => w.disk[s] = NewBlock(db, off, buf, s - L - 1)
          /\ s <= L /\ hit /\ s = db[cur] => w.disk[s] = FirstBlock(db, off, buf)
          /\ s <= L /\ ~ (hit /\ s = db[cur]) => w.disk[s] = disk[s]
    BY <1>1, <1>6
<1> HIDE DEF size, hit, inplace, start, got, total, L, F
<1>l. /\ off \in Nat /\ size \in Nat /\ L \in Nat /\ NumBlocks \in Nat /\ L <= NumBlocks
      /\ BlockSize \in Nat /\ r \in Nat /\ r < BlockSize
    BY <1>1
<1>u. hit => /\ inplace <= size /\ inplace <= BlockSize - r /\ inplace \in Nat
             /\ inplace = size \/ inplace = BlockSize - r
    BY <1>l, <1>7 DEF Least
<1>8. \A k \in 0 .. got - 1 : KthFree(k) = L + k /\ L + k < NumBlocks
  <2> SUFFICES ASSUME NEW k \in 0 .. got - 1 PROVE KthFree(k) = L + k /\ L + k < NumBlocks
    OBVIOUS
  <2>1. F = L .. NumBlocks - 1 /\ NumBlocks \in Nat
    BY DEF Fresh, F, L
  <2>2. KthFree(k) \in F /\ Cardinality(Below(F, KthFree(k))) = k
    BY <1>5
  <2>3. F \in SUBSET (0 .. NumBlocks - 1) /\ L .. NumBlocks - 1 \subseteq F
    BY <1>1, <2>1
  <2>4. KthFree(k) = L + Cardinality(Below(F, KthFree(k)))
    BY <1>1, <2>1, <2>2, <2>3, KthPlace
  <2>5. QED
    BY <2>1, <2>2, <2>4
<1>9. \A b \in FileBlocks : db[b] # 0 => db[b] \in 1 .. L
  <2> SUFFICES ASSUME NEW b \in FileBlocks, db[b] # 0 PROVE db[b] \in 1 .. L
    OBVIOUS
  <2>0. db[b] \in Nat /\ db[b] - 1 \in Slots
    BY <1>1 DEF Slots
  <2>1. blocks[db[b] - 1] = [allocated |-> TRUE, inode_index |-> i]
    BY DEF TablesInv, BlocksExclusive
  <2>2. db[b] - 1 < L
    BY <2>0, <2>1 DEF TablesInv, BlocksOK, DataFileCoversSlots, L
  <2>3. QED
    BY <1>1, <2>0, <2>2
<1>e. ASSUME NEW b \in FileBlocks, NEW c \in FileBlocks, db[b] # 0, db[b] = db[c]
      PROVE  b = c
  <2>1. inodes[i].data_blocks[b] # 0 =>
            /\ blocks[inodes[i].data_blocks[b] - 1] = [allocated |-> TRUE, inode_index |-> i]
            /\ inodes[i].data_blocks[c] = inodes[i].data_blocks[b] => i = i /\ b = c
    BY DEF TablesInv, BlocksExclusive
  <2>2. QED
    BY <1>e, <2>1
<1>f. /\ L <= Len(w.disk) /\ Len(w.disk) \in Nat
      /\ \A k \in 0 .. got - 1 : L + k + 1 \in 1 .. Len(w.disk)
  <2>1. got \in Nat
    BY <1>5
  <2>2. PICK len \in Nat : len = Len(w.disk) /\ len = Least(L + got, NumBlocks)
    BY <1>l, <1>6, <2>1 DEF Least
  <2>3. L <= len
    BY <1>l, <2>1, <2>2 DEF Least
  <2>4. ASSUME NEW k \in 0 .. got - 1 PROVE L + k + 1 \in 1 .. len
    <3>1. L + k < NumBlocks /\ k \in Nat /\ k < got
        BY <1>8, <2>1
    <3>2. L + k + 1 <= len
        BY <1>l, <2>1, <2>2, <3>1 DEF Least
    <3>3. QED
        BY <1>l, <2>2, <3>1, <3>2
  <2>5. QED
    BY <2>2, <2>3, <2>4
\* A new block comes with the file's block of the offset in place.
<1>10. got > 0 => hit \/ r = 0
  <2> SUFFICES ASSUME got > 0, ~hit, r # 0 PROVE FALSE
    OBVIOUS
  <2>1. 0 \in 0 .. got - 1
    BY <1>5
  <2>2. FreeSlots # {}
    BY <1>5, <2>1 DEF F
  <2>3. cur < total /\ db[cur] = 0
    BY <1>3, <1>5, <1>7
  <2>4. cur \in FileBlocks
    BY <1>3, <2>3 DEF FileBlocks
  <2>5. cur < BlocksFor(off)
    BY <1>2 DEF BlocksFor
  <2>6. QED
    BY <2>2, <2>3, <2>4, <2>5 DEF Unbroken
<1>11. ASSUME NEW b \in FileBlocks, b < BlocksFor(off)
       PROVE  w.data_blocks[b] = 0 <=> db[b] = 0
  <2>1. CASE FreeSlots = {}
    <3>1. got = 0
      <4>1. ~ (0 \in 0 .. got - 1)
        BY <1>5, <2>1 DEF F
      <4>2. QED
        BY <1>5, <4>1
    <3>2. QED
        BY <1>5, <3>1
  <2>2. CASE FreeSlots # {}
    <3>1. db[b] # 0
        BY <1>11, <2>2 DEF Unbroken
    <3>2. w.data_blocks[b] # 0
        BY <3>1, WriteCovers
    <3>3. QED
        BY <3>1, <3>2
  <2>3. QED
    BY <2>1, <2>2
<1>12. ASSUME NEW b \in FileBlocks, cur <= b, b < total
       PROVE  w.data_blocks[b] # 0
  <2>0. b \in Nat
    BY DEF FileBlocks
  <2>1. CASE b < start
    <3>1. hit /\ b = cur
        BY <1>7, <1>12, <2>0, <2>1
    <3>2. w.data_blocks[b] = db[b]
        BY <1>5, <2>0, <2>1
    <3>3. QED
        BY <1>7, <3>1, <3>2
  <2>2. CASE start <= b
    <3>1. b \in start .. start + got - 1 /\ b - start \in 0 .. got - 1
        BY <1>5, <1>12, <2>0, <2>2
    <3>2. w.data_blocks[b] = L + (b - start) + 1
        BY <1>5, <1>8, <3>1
    <3>3. QED
        BY <1>1, <3>1, <3>2
  <2>3. QED
    BY <1>5, <2>0, <2>1, <2>2
<1>13. ASSUME NEW p \in Nat, off <= p, p < off + size
       PROVE  w.disk[w.data_blocks[p \div BlockSize]][p % BlockSize] = buf[p - off + 1]
  <2>1. PICK c \in Nat, x \in 0 .. BlockSize - 1 :
            p \div BlockSize = c /\ p % BlockSize = x /\ p = c * BlockSize + x
    BY DivMod
  <2>2. /\ c < cur => c * BlockSize + BlockSize <= cur * BlockSize
        /\ cur < c => cur * BlockSize + BlockSize <= c * BlockSize
    BY MultipleStep
  <2>a. c * BlockSize \in Nat /\ cur * BlockSize \in Nat
    OBVIOUS
  <2>3. PICK m, n \in Nat :
            /\ m = c * BlockSize /\ n = cur * BlockSize /\ p = m + x /\ off = n + r
            /\ (c < cur => m + BlockSize <= n) /\ (cur < c => n + BlockSize <= m)
            /\ (c = cur => m = n)
    BY <1>2, <2>1, <2>2, <2>a
  <2>b. /\ p = m + x /\ off = n + r /\ m \in Nat /\ n \in Nat /\ x \in Nat /\ x < BlockSize
        /\ (c < cur => m + BlockSize <= n) /\ (cur < c => n + BlockSize <= m)
        /\ (c = cur => m = n)
    BY <1>l, <2>1, <2>3
  <2>4. cur <= c /\ c < total
    <3>1. cur <= c
        BY <1>l, <1>13, <2>b
    <3>2. QED
        BY <1>3, <1>13, <2>1, <3>1
  <2>5. c \in FileBlocks
    BY <1>3, <2>4 DEF FileBlocks
  <2>6. CASE c < start
    <3>1. hit /\ c = cur
        BY <1>7, <2>4, <2>6
    <3>2. w.data_blocks[c] = db[cur] /\ db[cur] # 0
        BY <1>5, <1>7, <2>5, <2>6, <3>1
    <3>3. db[cur] \in 1 .. L /\ db[cur] \in 1 .. Len(w.disk)
        BY <1>1, <1>9, <1>f, <2>5, <3>1, <3>2
    <3>4. w.disk[db[cur]] = FirstBlock(db, off, buf)
        BY <1>1, <1>s, <3>1, <3>3
    <3>5. x - r = p - off
        BY <1>l, <2>b, <3>1
    <3>6. x - r \in 0 .. inplace - 1
        BY <1>l, <1>u, <1>13, <2>b, <3>1, <3>5
    <3>7. FirstBlock(db, off, buf)[x] = buf[p - off + 1]
        BY <1>2, <3>5, <3>6 DEF FirstBlock, inplace, size
    <3>8. QED
        BY <2>1, <3>2, <3>4, <3>7
  <2>7. CASE start <= c
    <3>1. PICK k \in 0 .. got - 1 : k = c - start
        BY <1>5, <2>4, <2>7
    <3>2. w.data_blocks[c] = L + k + 1
        BY <1>1, <1>5, <1>8, <2>5, <2>7, <3>1
    <3>3. L + k + 1 \in 1 .. Len(w.disk)
        BY <1>f
    <3>4. w.disk[L + k + 1] = NewBlock(db, off, buf, k)
      <4>1. PICK s \in 1 .. Len(w.disk) : s = L + k + 1
        BY <3>3
      <4>2. s > L /\ s - L - 1 = k
        BY <1>l, <1>5, <4>1
      <4>3. w.disk[s] = NewBlock(db, off, buf, s - L - 1)
        BY <1>s, <4>2
      <4>4. QED
        BY <4>1, <4>2, <4>3
    <3>5. inplace + k * BlockSize + x = p - off
      <4>1. CASE hit
        <5>1. k = c - cur - 1 /\ cur < c
            BY <1>2, <1>5, <1>7, <3>1, <4>1
        <5>2. k * BlockSize = m - n - BlockSize
          <6>1. k * BlockSize = c * BlockSize - cur * BlockSize - BlockSize
            BY <5>1
          <6>2. QED
            BY <2>3, <6>1
        <5>3. BlockSize - r <= p - off /\ p - off < size
            BY <1>l, <1>13, <2>b, <5>1
        <5>4. inplace = BlockSize - r
            BY <1>l, <1>13, <1>u, <4>1, <5>3
        <5>5. PICK q \in Int : q = k * BlockSize
            BY <5>1
        <5>6. QED
            BY <1>l, <2>b, <5>2, <5>4, <5>5
      <4>2. CASE ~hit
        <5>1. r = 0 /\ inplace = 0
            BY <1>5, <1>7, <1>10, <3>1, <4>2
        <5>2. k = c - cur
            BY <1>7, <3>1, <4>2
        <5>3. k * BlockSize = m - n
          <6>1. k * BlockSize = c * BlockSize - cur * BlockSize
            BY <5>2
          <6>2. QED
            BY <2>3, <6>1
        <5>4. PICK q \in Int : q = k * BlockSize
            BY <5>2
        <5>5. QED
            BY <1>l, <2>b, <5>1, <5>3, <5>4
      <4>3. QED
        BY <4>1, <4>2
    <3>6. NewBlock(db, off, buf, k)[x] = buf[p - off + 1]
      <4>1. NewBlock(db, off, buf, k)[x] =
                LET q == inplace + k * BlockSize + x IN IF q < size THEN buf[q + 1] ELSE Zero
        BY DEF NewBlock, inplace, size
      <4>2. p - off < size
        BY <1>l, <1>13
      <4>3. QED
        BY <3>5, <4>1, <4>2
    <3>7. QED
        BY <2>1, <3>2, <3>4, <3>6
  <2>8. QED
    BY <1>5, <2>6, <2>7
<1>14. ASSUME NEW p \in Nat, p < off, db[p \div BlockSize] # 0
       PROVE  w.disk[w.data_blocks[p \div BlockSize]][p % BlockSize]
                  = disk[db[p \div BlockSize]][p % BlockSize]
  <2>1. PICK c \in Nat, x \in 0 .. BlockSize - 1 :
            p \div BlockSize = c /\ p % BlockSize = x /\ p = c * BlockSize + x
    BY DivMod
  <2>2. /\ c < cur => c * BlockSize + BlockSize <= cur * BlockSize
        /\ cur < c => cur * BlockSize + BlockSize <= c * BlockSize
    BY MultipleStep
  <2>a. c * BlockSize \in Nat /\ cur * BlockSize \in Nat
    OBVIOUS
  <2>3. PICK m, n \in Nat :
            /\ m = c * BlockSize /\ n = cur * BlockSize /\ p = m + x /\ off = n + r
            /\ (c < cur => m + BlockSize <= n) /\ (cur < c => n + BlockSize <= m)
            /\ (c = cur => m = n)
    BY <1>2, <2>1, <2>2, <2>a
  <2>b. /\ p = m + x /\ off = n + r /\ m \in Nat /\ n \in Nat /\ x \in Nat /\ x < BlockSize
        /\ (c < cur => m + BlockSize <= n) /\ (cur < c => n + BlockSize <= m)
        /\ (c = cur => m = n)
    BY <1>l, <2>1, <2>3
  <2>4. c <= cur /\ (c = cur => r > 0 /\ x < r)
    BY <1>l, <1>14, <2>b
  <2>5. c < total /\ c \in FileBlocks
    <3>1. p < off + size
        BY <1>1, <1>14
    <3>2. c < total
        BY <1>3, <2>1, <3>1
    <3>3. QED
        BY <1>3, <2>1, <3>2 DEF FileBlocks
  <2>6. w.data_blocks[c] = db[c]
    <3>1. c < start \/ got = 0
        BY <1>5, <1>7, <1>10, <2>4
    <3>2. QED
        BY <1>5, <2>5, <3>1
  <2>7. db[c] \in 1 .. L /\ db[c] \in 1 .. Len(w.disk)
    <3>1. db[c] \in 1 .. L
        BY <1>9, <1>14, <2>1, <2>5
    <3>2. QED
        BY <1>l, <1>f, <3>1
  <2>8. CASE hit /\ db[c] = db[cur]
    <3>1. cur \in FileBlocks
        BY <1>3, <1>7, <2>8 DEF FileBlocks
    <3>2. c = cur
        BY <1>14, <1>e, <2>1, <2>5, <2>8, <3>1
    <3>3. w.disk[db[c]] = FirstBlock(db, off, buf)
        BY <1>1, <1>s, <2>7, <2>8
    <3>4. ~ (x - r \in 0 .. inplace - 1)
        BY <1>2, <2>1, <2>4, <3>2
    <3>5. FirstBlock(db, off, buf)[x] = disk[db[cur]][x]
        BY <1>2, <3>4 DEF FirstBlock, inplace, size
    <3>6. QED
        BY <2>1, <2>6, <3>2, <3>3, <3>5
  <2>9. CASE ~ (hit /\ db[c] = db[cur])
    <3>1. w.disk[db[c]] = disk[db[c]]
        BY <1>1, <1>s, <2>7, <2>9
    <3>2. QED
        BY <2>1, <2>6, <3>1
  <2>10. QED
    BY <2>8, <2>9
<1>15. QED
    BY <1>2, <1>11, <1>12, <1>13, <1>14 DEF UnitsKept, size, total

\* What a file of blocks db in data file dk gives for size units from off on.
DataRead(dk, db, off, size) ==
    IF \/ off + size > BlockSize * FileMaxBlocks
       \/ size > 0 /\ \E b \in off \div BlockSize .. BlocksFor(off + size) - 1 : db[b] = 0
    THEN <<>>
    ELSE [k \in 1 .. size |-> dk[db[(off + k - 1) \div BlockSize]][(off + k - 1) % BlockSize]]

(* It is what read_inode gives, before a step and after it.                 *)
LEMMA ReadableIs ==
    \A i, off, size :
        /\ Readable(i, off, size) = DataRead(disk, inodes[i].data_blocks, off, size)
        /\ Readable(i, off, size)' = DataRead(disk', inodes'[i].data_blocks, off, size)
<1>1. TAKE i, off, size
<1>2. Readable(i, off, size) = DataRead(disk, inodes[i].data_blocks, off, size)
    BY DEF Readable, ReadBack, DataRead
<1>3. Readable(i, off, size)' = DataRead(disk', inodes'[i].data_blocks, off, size)
    BY DEF Readable, ReadBack, DataRead
<1>4. QED
    BY <1>2, <1>3

(* A write that succeeds reads back, when slots are fresh.                  *)
LEMMA WriteReads ==
    ASSUME TablesInv, GapsInv, Fresh, NEW d, NEW buf, NEW i, NEW off, NEW w,
           Wrote(d, buf, i, off, w), w.ok, off <= inodes[i].st_size
    PROVE  Readable(i, off, Len(buf))' = buf /\ Readable(i, 0, off)' = Readable(i, 0, off)
<1> USE BlocksAssumption
<1>1. PICK db : db = inodes[i].data_blocks
    OBVIOUS
<1>2. PICK nb, nd : nb = w.data_blocks /\ nd = w.disk
    OBVIOUS
<1>3. /\ i \in DOMAIN inodes /\ Writable(i, db, off, buf) /\ w = Written(i, db, off, buf)
      /\ disk' = nd /\ inodes'[i].data_blocks = nb
    BY <1>1, <1>2 DEF Wrote
<1>4. FreeSlots # {} => Unbroken(db, off)
  <2> SUFFICES ASSUME FreeSlots # {}, NEW b \in FileBlocks, b < BlocksFor(off) PROVE db[b] # 0
    BY DEF Unbroken
  <2>1. off \in Nat /\ inodes[i].st_size \in Nat
    BY <1>3 DEF Writable, TablesInv, InodesOK, Inode
  <2>2. /\ BlocksFor(off) \in Nat /\ BlocksFor(inodes[i].st_size) \in Nat
        /\ BlocksFor(off) <= BlocksFor(inodes[i].st_size)
    BY <2>1, BlocksMonotone
  <2>3. Backed(i, inodes[i].st_size)
    BY <1>3 DEF GapsInv, NoGaps
  <2>4. b < BlocksFor(inodes[i].st_size)
    BY <2>2 DEF FileBlocks
  <2>5. QED
    BY <1>1, <2>3, <2>4 DEF Backed
<1>5. PICK size \in Nat, total \in Nat :
          /\ size = Len(buf) /\ total = BlocksFor(off + size) /\ total <= FileMaxBlocks
          /\ off \in Nat /\ buf \in Seq(Values) /\ off + size <= BlockSize * FileMaxBlocks
          /\ BlocksFor(off) \in Nat /\ BlocksFor(off) <= total
  <2>1. /\ off \in Nat /\ buf \in Seq(Values) /\ Len(buf) \in Nat
        /\ off + Len(buf) <= BlockSize * FileMaxBlocks
    BY <1>3 DEF Writable
  <2>2. off + Len(buf) \in Nat /\ off <= off + Len(buf)
    BY <2>1
  <2>3. BlocksFor(off + Len(buf)) \in Nat /\ BlocksFor(off + Len(buf)) <= FileMaxBlocks
    BY <2>1, <2>2, BlocksForFacts
  <2>4. BlocksFor(off) \in Nat /\ BlocksFor(off) <= BlocksFor(off + Len(buf))
    BY <2>1, <2>2, BlocksMonotone
  <2>5. QED
    BY <2>1, <2>3, <2>4
<1>6. /\ \A b \in FileBlocks : b < BlocksFor(off) => (nb[b] = 0 <=> db[b] = 0)
      /\ \A b \in FileBlocks : off \div BlockSize <= b /\ b < total => nb[b] # 0
      /\ \A p \in Nat : off <= p /\ p < off + size =>
            nd[nb[p \div BlockSize]][p % BlockSize] = buf[p - off + 1]
      /\ \A p \in Nat : p < off /\ db[p \div BlockSize] # 0 =>
            nd[nb[p \div BlockSize]][p % BlockSize] = disk[db[p \div BlockSize]][p % BlockSize]
  <2>1. UnitsKept(w, db, off, buf)
    BY <1>1, <1>3, <1>4, UnitsWritten
  <2>2. Len(buf) = size /\ BlocksFor(off + Len(buf)) = total
    BY <1>5
  <2>3. QED
    BY <1>2, <2>1, <2>2 DEF UnitsKept
<1>7. DataRead(nd, nb, off, size) = buf
  <2>1. ~ \E b \in off \div BlockSize .. total - 1 : nb[b] = 0
    <3> SUFFICES ASSUME NEW b \in off \div BlockSize .. total - 1 PROVE nb[b] # 0
        OBVIOUS
    <3>1. off \div BlockSize \in Nat
        BY <1>5, DivMod
    <3>2. b \in FileBlocks /\ off \div BlockSize <= b /\ b < total
        BY <1>5, <3>1 DEF FileBlocks
    <3>3. QED
        BY <1>6, <3>2
  <2>2. ~ (off + size > BlockSize * FileMaxBlocks)
    BY <1>5
  <2>3. DataRead(nd, nb, off, size) =
            [k \in 1 .. size |-> nd[nb[(off + k - 1) \div BlockSize]][(off + k - 1) % BlockSize]]
    BY <1>5, <2>1, <2>2 DEF DataRead
  <2>4. ASSUME NEW k \in 1 .. size
        PROVE  nd[nb[(off + k - 1) \div BlockSize]][(off + k - 1) % BlockSize] = buf[k]
    <3>1. PICK p \in Nat : p = off + k - 1
        BY <1>5
    <3>2. off <= p /\ p < off + size /\ p - off + 1 = k
        BY <1>5, <3>1
    <3>3. QED
        BY <1>6, <3>1, <3>2
  <2>5. buf = [k \in 1 .. size |-> buf[k]]
    BY <1>5
  <2>6. QED
    BY <2>3, <2>4, <2>5
<1>8. DataRead(nd, nb, 0, off) = DataRead(disk, db, 0, off)
  <2>0. 0 + off = off /\ 0 \div BlockSize = 0 /\ ~ (off > BlockSize * FileMaxBlocks)
    <3>1. 0 \div BlockSize = 0
        BY BlocksAssumption
    <3>2. PICK limit \in Nat : limit = BlockSize * FileMaxBlocks
        OBVIOUS
    <3>3. QED
        BY <1>5, <3>1, <3>2
  <2>a. \A b \in 0 .. BlocksFor(off) - 1 : b \in FileBlocks /\ b < BlocksFor(off)
    BY <1>5 DEF FileBlocks
  <2>1. CASE off > 0 /\ \E b \in 0 .. BlocksFor(off) - 1 : db[b] = 0
    <3>1. \E b \in 0 .. BlocksFor(off) - 1 : nb[b] = 0
        BY <1>6, <2>a, <2>1
    <3>2. DataRead(nd, nb, 0, off) = <<>>
        BY <2>0, <2>1, <3>1 DEF DataRead
    <3>3. DataRead(disk, db, 0, off) = <<>>
        BY <2>0, <2>1 DEF DataRead
    <3>4. QED
        BY <3>2, <3>3
  <2>2. CASE ~ (off > 0 /\ \E b \in 0 .. BlocksFor(off) - 1 : db[b] = 0)
    <3>1. ~ (off > 0 /\ \E b \in 0 .. BlocksFor(off) - 1 : nb[b] = 0)
        BY <1>6, <2>a, <2>2
    <3>2. DataRead(nd, nb, 0, off) =
              [k \in 1 .. off |-> nd[nb[(0 + k - 1) \div BlockSize]][(0 + k - 1) % BlockSize]]
        BY <2>0, <3>1 DEF DataRead
    <3>3. DataRead(disk, db, 0, off) =
              [k \in 1 .. off |-> disk[db[(0 + k - 1) \div BlockSize]][(0 + k - 1) % BlockSize]]
        BY <2>0, <2>2 DEF DataRead
    <3>4. ASSUME NEW k \in 1 .. off
          PROVE  nd[nb[(0 + k - 1) \div BlockSize]][(0 + k - 1) % BlockSize]
                     = disk[db[(0 + k - 1) \div BlockSize]][(0 + k - 1) % BlockSize]
      <4>1. PICK p \in Nat : p = 0 + k - 1 /\ p < off
        BY <1>5
      <4>2. p \div BlockSize < BlocksFor(off) /\ p \div BlockSize \in Nat
        BY <1>5, <4>1, BlocksForFacts, DivMod
      <4>3. off > 0 /\ p \div BlockSize \in 0 .. BlocksFor(off) - 1
        BY <1>5, <4>1, <4>2
      <4>4. db[p \div BlockSize] # 0
        BY <2>2, <4>3
      <4>5. QED
        BY <1>6, <4>1, <4>4
    <3>5. QED
        BY <3>2, <3>3, <3>4
  <2>3. QED
    BY <2>1, <2>2
<1>9. QED
    BY <1>1, <1>3, <1>5, <1>7, <1>8, ReadableIs

(* The step that answers a write is that write.                             *)
LEMMA WriteAnswers ==
    ASSUME NEW d, NEW buf, Next, reply'.request = <<"write", d, buf>>
    PROVE  Write(d, buf)
<1>1. Len(reply'.request) = 3 /\ reply'.request[1] = "write"
    BY SMT
<1>r. \A request, status : Refuse(request, status) \/ Answer(request, status) =>
          reply'.request = request
  <2>1. ASSUME NEW request, NEW status, Answer(request, status) PROVE reply'.request = request
    BY <2>1 DEF Answer
  <2>2. QED
    BY <2>1 DEF Refuse
<1>2. ~Crash
  <2>1. Crash => reply'.request = <<>>
    BY DEF Crash, NoReply
  <2>2. QED
    BY <1>1, <2>1
<1>3. ~NameOperation
  <2>1. \A u, n, mode : Create(u, n, mode) => reply'.request = <<"create", u, n, mode>>
    BY <1>r DEF Create
  <2>2. \A u, n, mode : Chmode(u, n, mode) => reply'.request = <<"chmode", u, n, mode>>
    BY <1>r DEF Chmode
  <2>3. \A u, n : Stat(u, n) => reply'.request = <<"stat", u, n>>
    BY <1>r DEF Stat
  <2>4. \A n, new : Rename(n, new) => reply'.request = <<"rename", n, new>>
    BY <1>r DEF Rename
  <2>5. \A u, n, new : Link(u, n, new) => reply'.request = <<"link", u, n, new>>
    BY <1>r DEF Link
  <2>6. \A u, n, new, mode : Symlink(u, n, new, mode) => reply'.request = <<"symlink", u, n, new, mode>>
    BY <1>r DEF Symlink
  <2>7. \A u, n, flag : Open(u, n, flag) => reply'.request = <<"open", u, n, flag>>
    BY <1>r DEF Open
  <2>8. \A n : Unlink(n) => reply'.request = <<"unlink", n>>
    BY <1>r DEF Unlink
  <2>9. QED
    BY <1>1, <2>1, <2>2, <2>3, <2>4, <2>5, <2>6, <2>7, <2>8 DEF NameOperation
<1>4. PICK e \in 0 .. MaxDesc + 1 :
            \/ Close(e)
            \/ \E other \in Buffers : Write(e, other)
            \/ \E size \in Sizes : Read(e, size) \/ Seek(e, size)
    BY <1>2, <1>3 DEF Next, FileOperation
<1>5. ~Close(e)
  <2>1. Close(e) => reply'.request = <<"close", e>>
    BY <1>r DEF Close
  <2>2. QED
    BY <1>1, <2>1
<1>6. \A size : ~Read(e, size) /\ ~Seek(e, size)
  <2>1. ASSUME NEW size, Read(e, size)
        PROVE  reply'.request = <<"read", e, size>>
    <3>1. CASE ~Attached(e)
        BY <1>r, <2>1, <3>1 DEF Read
    <3>2. CASE Attached(e)
      <4>1. PICK data, status : reply' = [request |-> <<"read", e, size>>, data |-> data, status |-> status]
        BY <2>1, <3>2 DEF Read
      <4>2. QED
        BY <4>1
    <3>3. QED
        BY <3>1, <3>2
  <2>2. \A size : Seek(e, size) => reply'.request = <<"seek", e, size>>
    BY <1>r DEF Seek
  <2>3. QED
    BY <1>1, <2>1, <2>2
<1>7. PICK other \in Buffers : Write(e, other)
    BY <1>4, <1>5, <1>6
<1>8. reply'.request = <<"write", e, other>>
    BY <1>7, <1>r DEF Write
<1>9. e = d /\ other = buf
    BY <1>8
<1>10. QED
    BY <1>7, <1>9

(* WriteReadsBack for every value of the constants: a write of service_write *)
(* that succeeds with its offset in the file reads back, and leaves what was *)
(* before it, while no slot was freed and the data file is not at its end    *)
(* (write_inode, inode.c 289-340; read_inode, 351-420).                      *)
THEOREM WrittenIsRead == Spec => WriteReadsBack
<1>1. ASSUME TablesInv, GapsInv, Next, Fresh, NEW d \in DOMAIN descriptors, NEW buf \in Buffers
      PROVE  ReadsBackAsWritten(d, buf)
  <2> SUFFICES ASSUME NEW i \in DOMAIN inodes, NEW off \in 0 .. BlockSize * FileMaxBlocks,
                      descriptors[d].node_index = i, descriptors[d].offset = off,
                      off <= inodes[i].st_size,
                      reply'.request = <<"write", d, buf>>, reply'.status = "SUCCESS"
               PROVE  /\ Readable(i, off, Len(buf))' = buf
                      /\ Readable(i, 0, off)' = Readable(i, 0, off)
    BY DEF ReadsBackAsWritten
  <2>1. Write(d, buf)
    BY <1>1, WriteAnswers
  <2>2. PICK j, at, w : Wrote(d, buf, j, at, w)
    BY <1>1, <2>1, WriteDone
  <2>3. Wrote(d, buf, i, off, w) /\ w.ok
    BY <2>2 DEF Wrote
  <2>4. QED
    BY <1>1, <2>3, WriteReads
<1>2. TablesInv /\ GapsInv /\ [Next]_vars =>
          [FreeSlots = Len(disk) .. NumBlocks - 1 =>
              \A d \in DOMAIN descriptors, buf \in Buffers : ReadsBackAsWritten(d, buf)]_vars
    BY <1>1 DEF Fresh
<1>3. QED
    BY <1>2, GapsInvariance, PTL DEF Spec, WriteReadsBack
===============================================================================
