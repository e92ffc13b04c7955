# Simulated file system: a TLA+ model

The repository is a file system in user space.  A *service* process keeps inodes,
file names, open descriptors and data blocks in memory and the data in one file;
*client* processes call a library (`src/lib/libfs.c`) that sends each operation to the
service over a System V message queue and waits for the answer on another.  This
directory holds a model of it, the TLC runs that check it and proofs about it.

## Parts of the system

| part | state | operations | interacts with |
|---|---|---|---|
| client library (`lib/libfs.c`) | sequence counter, `libfs_errno` | `libfs_create` ... `libfs_unlink`: split the arguments into messages, send them, take the answer | both queues |
| receiver thread (`service.c` `receive`) | the message it handles | `msgrcv`, `handle_msg` | request queue, ring |
| request ring (`req_buffer.c`) | `reqs`, `wr_idx`, `rd_idx`, `empty`, `full`, `lock` | `handle_msg` (first part, later part), `get_service_req` | both threads |
| worker thread (`service.c` `operate`) | the slot it serves | `get_service_req`, one `service_*` handler, freeing the slot | ring, tables, response queue |
| operation handlers (`operations.c`) | none | `service_create`, `rename`, `chmode`, `stat`, `link`, `symlink`, `open`, `close`, `write`, `read`, `seek`, `unlink` | tables |
| tables (`inode.c`) | `inode_table`, `filename_table`, `descriptor_table`, `data_block_table`, the data file | add, find, change and remove entries; `write_inode`, `read_inode` | handlers |
| start, shutdown, persistence (`service.c` `main`, `inode.c` `open_*`, `close_*`) | `working`, four files | load, handle signals, save | threads, tables |

What is hard:

* two threads share the ring, and only part of what they do with a slot is under the
  lock: the search for a later part is not, and the worker uses its slot after it has
  given it back;
* a request of several parts takes its slot with the first part and its token with the
  last, while other requests are served;
* all four tables point to each other by number, numbers are reused, and each operation
  has failure paths that keep some of what was done;
* slots of the data file are reused, but the file is opened for appending;
* clients, receiver and worker each wait for room that another makes: in the request queue,
  in the ring, in the response queue;
* a signal can reach either thread at any point of its loop, and clients can be cut off in
  any call; the queues survive both sides;
* the tables are saved only when `main` ends, one file after another, while the data
  file is written all along.

What makes each part correct:

* ring and threads: indices and semaphores describe the same ring; a slot in use is not
  written; requests are served in order, complete, at most once; each is answered, and
  to its own client;
* tables: names, inodes and reference counts agree; a file has one writer; a block
  belongs to one file; only a file's writer changes its data; what is written is read;
* handlers: access is granted when the caller's bit of the mode is set, whatever number a
  caller asked for as a mode;
* client library: a call gets the answer to its own request, and returns;
* start and shutdown: a signal ends the service, nothing is executed twice, the tables are
  saved when no thread uses them;
* persistence: an orderly end loses nothing that the text of the tables can hold, and what a
  crash leaves agrees with itself.

## Modules

| module | models | checked by | proofs |
|---|---|---|---|
| `RequestService` | what the request path promises: a queue served in order, one at a time | as a property of `ReqBuffer` | `ReqBufferOrder_proofs` |
| `ReqBuffer` | receiver, worker, ring, clients | `MCReqBuffer`, `Ring*.cfg` | `ReqBuffer_proofs`, `ReqBufferOrder_proofs` |
| `Permissions` | the permission checks of the handlers | with `FileSystem` | `Permissions_proofs` |
| `FileSystem` | the twelve operations, the tables, the data file | `MCFileSystem`, `Fs*.cfg` | `FileSystem_proofs`, `FileSystemTables_proofs` |
| `Persistence` | `main` around the tables of `FileSystem`: load, save, crash, restart | `MCPersistence`, `Restart.cfg` | `Persistence_proofs` |
| `Clients` | the client library and the two queues | with `Service` | `Clients_proofs` |
| `Service` | clients, receiver, worker, `main` and signals together | `MCService`, `Service.cfg` | `Service_proofs` |

`Persistence` extends `FileSystem`, `Service` extends `Clients`.  `Service` takes the ring at the
level of `RequestService`, which `ReqBuffer` is proved to implement while clients are fewer than slots, and an operation as
one step, as `FileSystem` does.

### `ReqBuffer`

`rx_pc` and `wk_pc` say where the two threads are; `reqs`, `wr_idx`, `rd_idx`, `empty`
and `full` are the fields of `req_buffer_t`.  A request is its sequence number and its
data is counted in parts, so `data_size` is the number of parts and the data pointer is
the request the data came from, or `NoReq` for NULL.

* `RxFirst`, `RxNext`: `msgrcv` returns a first or a later part.  A client is a process
  that has one request in flight: `MaxOutstanding` is the number of clients.  The parts
  of one request arrive in order; those of different clients interleave.
* `RxWaitEmpty`, `RxPut`, `RxFill`, `RxPost`: the first-part branches of `handle_msg`.
  The struct copy into the slot is two steps, since the worker may read or write the same slot
  meanwhile without the lock.
* `RxFind`, `RxNotFound`, `RxCopy`: the later-part branch; the search is outside the lock.
* `WkWaitFull`, `WkTake`, `WkPostEmpty`: `get_service_req`.
* `WkSkip` ... `WkComplete`: `operate`, one step for each access to the slot.
* `ClRecv`: the client takes its answer; `Rest`: both threads wait, or the process has
  gone.  Deadlock is checked: a receiver blocked on `empty` with a worker blocked on
  `full` is one.

`up` becomes FALSE where the code exits (`RxNotFound`, `WkCorrupted`, too much data) or
dereferences NULL.

`ServesInOrder` and `ServesAllInOrder` are refinements: `ReqBuffer` with `queueBar`,
`servingBar`, `answeredBar` and `passedBar` implements `RequestService`.

### `Permissions`

A mode is any integer: it is what a caller asked for, and nothing masks it.  `Field` is what the
comparisons look at: all of the mode for the owner, the remainder by 0100 or 010 for the others, with the
sign of C (`Remainder`).  `AboveDigits` names where that is not the bit of the class's digit: the owner of a
file with a mode above 0777 passes whatever the bits are.

### `FileSystem`

One action per handler, from its arguments to its answer; the worker runs one at a time,
so the handlers do not interleave with each other.  The tables are functions from
numbers (names) to entries; the linked lists are in the order of their numbers, because
a new node goes to the tail and gets the tail's number plus one (`NextNumber`).

* `Create` keeps the mode as the `long` it is, `Chmode` as an `unsigned` (`UnsignedRange`).
* `Resolved`: a missing name gives node number 0.  `chmode`, `unlink` and `symlink`
  notice; `stat`, `link` and `open` compare the result with -1 and do not.
* `stale`, `lost`, `Crash`: `unlink` of the first name frees the head of
  `filename_table`, which goes on pointing to it, and with the file's last name the head of
  `inode_table` too.  The name in a freed node stays readable and is still found; a
  search past it, or any use of the freed inode, is undefined behaviour.  `Crash` is
  possible from then on, and the operations that would follow a freed link are disabled.
* `Written` is `write_inode` with `occupy_block_table_slot` and `update_block_table_slot`;
  `ReadBack` is `read_inode`.  `disk` is the data file as a sequence of blocks, cut at
  `NumBlocks`, beyond which no slot points.  `Symlink` copies data with the same two
  operators, as `create_soft_link` does.

### `Persistence`

`inodes_file`, `blocks_file` and `filenames_file` are the three table files, each represented by the
table that was printed to it; the data file is `disk` of `FileSystem` and is written by the
operations.  `stage` is what `main` does: it runs the service, saves one of the files, or has saved all.

* `Operate` is any step of `FileSystem`; `EndService` is `main` after both `pthread_join`.
* `CloseInodeTable`, `CloseDataBlockTable`, `CloseFilenameTable` are the three saves.  `fopen "w"`
  empties a file and `fclose` writes it.  When the list's first node was freed (`lost`,
  `stale`), the loop frees it again and the process aborts with the file empty.
* `Die` is `exit(EXIT_FAILURE)` or a kill between two operations or in a save; in a save the file may be
  empty by then.  `DieWriting` is a kill within a write or a symlink's copy: some of its blocks are in the
  data file (`CutShort`), and the tables in memory are gone.
* `Start` is `open_inode_table`, `open_data_block_table`, `open_filename_table`.  No descriptor is loaded.
  `ParsedInodes`: every number is read with `atoi`, so a mode, which is printed with `%ld`, comes back as
  the `int` of its lower bits (`Atoi`).  The other numbers are `int`s or small.
  `ParsedNames`: a name is printed as it is and read up to the end of the line.  `Broken` are the names
  with a newline that load as other names, with what they load as: the text before the newline, and for each
  further line the number and the name that it says.  `Unreadable` are the names some line of which
  lacks a number or a name, the empty name above all: `strtok` returns NULL and `main` crashes at this and every
  later start.

`torn` remembers that a save was interrupted, so that the files are of two ages, or that a name with a newline
was saved, so that names and counts no longer agree.

### `Clients`

`counter` is `seq_counter`, `call` where a process is in its library call, `requests` and
`responses` the two System V queues.  The twelve functions are written out one by one in
the code and are copies of each other; `Function` records how they differ in what decides where a call
goes on: whether the result of `msgrcv` is looked at, and whether an answer of several parts is gathered.
Statuses, data and results are left out: what the queues and the threads do does not depend on them.

* `Begin`, `Send`, `Receive`: a call takes a number, sends its parts, waits for messages of
  its number.  `msgsnd` blocks while the queue is full.  Only a write is long enough for several parts.
* `Exit`: a signal or a kill ends the process within a call.  `Guess`: in `libfs_rename` and
  `libfs_chmode` an interrupted `msgrcv` goes unnoticed and the call returns.
* `GetSeq`: `(pid << 4) + counter`; `Window` is 16 in the code.

A message carries its call, `id`, as a history variable, so that a property can say whose
answer it is; no action looks at it.

### `Service`

* `RxTest`, `RxReceive`, `RxBlock`: the loop of `receive`.  Between the test of `working` and the moment
  `msgrcv` blocks (`rx` is "call") a signal is lost on the receiver; blocked (`rx` is "recv") it is not.
* `RxPut`: the branches of `handle_msg` for a short request and a first part.  A `sem_wait` that a
  signal interrupts is not repeated ("forced"): the receiver goes on and writes the slot that `wr_idx` points to,
  which in a full ring is the next to be read.
* `RxFind`, `RxCopy`: the branch for a later part, in two steps as in `ReqBuffer`: the search is outside the
  lock, and the worker may pass the slot (`Passed`) before the part is copied.  `found` is the slot found, and
  its place is 0 once it was passed; the part then goes to a slot that nobody reads, and the last one still gives
  its token.
* `WkServe`, `WkSkip`, `WkReply`, `WkEnd`, `WkKill`: `operate`, with the answer sent part by part
  to the bounded response queue.
* `MainJoinReceiver`, `MainJoinWorker`, `MainSave`: the end of `main`.
* `Signal`: SIGINT or SIGTERM in any thread: it clears `working`; in a receiver blocked in `msgrcv` it
  ends the loop; in a worker blocked in `msgsnd` it ends the process; while
  `main` saves, the ring is gone and `end_service` may crash.
* `Start`: the service is started again; the queues hold what they held.

Definitions introduced as "Variant" are plausible mistakes in the code.  They are not
part of the specification: replacing the definition they vary violates a property,
which shows that the property depends on that code.

## Runs

| run | instance | properties |
|---|---|---|
| `ring_single` | 5 requests of 1 part, 4 slots, 3 clients | `TypeOK`, `SlotInUseIsStable`, `OwnAnswer`, `ServesAllInOrder` |
| `ring_parts` | 4 requests of 1 or 2 parts, 3 slots, 2 clients | `TokenSync`, `ServedComplete`, `SlotInUseIsStable`, `ExitsOnlySearching`, `ServesInOrder`, `OnePartAnswered` |
| `ring_full` | 4 requests of 1 part, 2 slots, 3 clients | `RingSync`, `OnePartAnswered` |
| `ring_corrupted` | 4 requests, 2 slots, 2 clients | `StaysUp` is violated |
| `ring_waits` | 2 requests of 1 or 2 parts, 4 slots | `WaitsForData` is violated |
| `ring_part_found` | 2 requests of 1 or 2 parts, 2 slots, 1 client | `PartIsFound` is violated |
| `fs_names` | 3 names, 3 inodes, 2 descriptors, 3 users, 2 modes | `TypeOK`, `ReferenceCount`, `OneWriter`, `OpensWithPermission` |
| `fs_blocks` | 2 names, 2 descriptors, 2 slots of 2 units, files of up to 2 blocks | `BlocksExclusive`, `DataFileCoversSlots`, `OnlyWriterChanges`, `WriteReadsBack` |
| `restart` | 4 names of which one has a newline and one is empty, a mode beyond `unsigned`, 2 inodes, 1 descriptor, 2 slots of 1 unit | `ConsistentAfterCrash`, `OrderlyRestart`, `SavedDataKept` |
| `service` | 2 processes with 3 and 1 calls of up to 2 parts, queues of 1 message, 3 ring slots, 2 signals, 1 restart | `TypeOK`, `OwnAnswer`, `AnswerWanted`, `AtMostOnce`, `TablesQuiescent`, `CallsReturn`, `SignalEnds` |
| `fs_missing` | as `fs_names`, property of a missing name | `MissingNameRefused` is violated |
| `fs_overwrite` | as `fs_blocks` | `OverwritesWithBuf` is violated |

**Bounds.**  The ring runs have more requests than slots, so that both indices wrap
around.  With fewer clients than slots, as in `ring_single` and `ring_parts`, a slot in use is never
reused; `ring_full` and `ring_corrupted` are the other side.  Two parts are enough for a
request to be incomplete while others are served.  In `fs_names` three names give an inode
two names while another comes and goes, and the third inode number a removal in the middle of the
table; two descriptors are what a double open needs.  The three users are an owner, another of the owner's
group and one of neither; the modes are 0620, which tells the three apart, and 01004, whose
owner's digit is 0.  In `fs_blocks` a write of
three units crosses from one block of two units into the next at every starting point,
and two slots run out with one full file, or when a write in place allocates the second
block again.  Files hold at most one block per slot, so that both the limit of the file and that of
the table are met.

In `restart` two inodes and two slots are enough for a slot to be freed and given to
another file between a save and a crash, which is what tells old tables from new ones;
restarts are not bounded.  `LongMode` is a mode that no `unsigned` holds, which `create` keeps and a save
and a start cut down; the name `broken` has the text of two lines, with names of the run.  What follows an
interrupted save, and the two odd names, are explored as long as the data file is
empty and then no inode counts more than two names (`OddEmpty`): after such a save the tables disagree, which no
property denies, and from there on they only come further apart.  A filename table two lines of which have one
name is not loaded (`LinesApart`): it would be a table with a name twice, which `FileSystem` does not have.

In `service` a request and an answer have up to two parts, so that either can be cut between them, and a skip can
come between them too.  Each queue has room for one message, less than the processes
send, so that every wait happens; one process calls three times and so meets what its earlier
calls left behind; two calls are cut off, and a second signal can come while `main` saves.
The ring has three slots for four calls, so that the indices wrap around: a process whose rename is
cut off goes on to its next call, and the ring can fill up.  It holds more long requests than there are
processes: with more processes than slots, each with a long request, the receiver would wait for a slot that only
the later parts behind it in the queue can free.  Two processes with long requests at once are in `ring_parts`
only; one here writes, the other reads.  The properties of answers assume `NumbersApart`, which holds for
three calls and `Window` 4; the theorems say up to where it holds in the code.

**View and symmetry.**  `MCFileSystem` leaves the last answer out of the fingerprint
(`StateView`): nothing reads it, and the action properties look at it in each step that
is made; `LifeView` does the same for `restart`.  Names and, in the runs that check only safety, requests are symmetric.

**Deadlock.**  The `Fs*` runs do not check it: after `Crash` nothing happens.  Nor does
`restart`: with an empty name saved the service cannot start.  Nor does `service`: a service without
requests waits, and a client whose request a signal dropped waits for ever.  What must not wait for
ever there is said by `CallsReturn` and `SignalEnds`.

**Fairness.**  The liveness part of `ring_*` assumes that each of the two threads takes a
step when it can (the operating system schedules both; neither holds the lock across a
wait), that a client that began a request sends the rest of it (its `msgsnd` calls are a
loop), and that it takes its answer.  No client has to begin a request.
`service` assumes the same of the receiver, the worker, `main` and of a client in `msgsnd` or
`msgrcv`, and weak fairness is enough: a thread waits for a condition that only it can undo, and clients
that compete for room in the request queue make a bounded number of calls.
Signals, restarts, new calls and the death of a client are not assumed to happen.

## What the passing runs show about failures

* `SignalEnds`: a signal ends the service, with its tables saved or not, but for two races, which the property
  names: the worker's `pthread_kill` finds the receiver between its test of `working` and `msgrcv`, where
  a signal is lost (`SignalLost`), or the worker blocks for good on a response queue that only answers to dead clients
  fill (`NobodyReceives`).  An idle receiver, blocked in `msgrcv`, does end: without the `pthread_kill` the property
  fails (`WkKillNone`).
* `CallsReturn`: without signals and deaths no call hangs, although three bounded
  stores are passed in a circle, but for one case (`Overtaken`): the worker skips the slot of a long request after the
  receiver has found it for a later part and before that part is copied.  That is the behaviour `ring_waits`
  shows, and it takes a token of a short request that came in between.  `AnswerWanted` is why nothing else hangs: a
  client sends all of its request before the worker can answer, so the worker never waits for a client that is
  itself sending.
* `AtMostOnce`: a request dropped by the end of the service stays dropped; parts of it
  that come later make the next service exit, but nothing runs twice.
* `OrderlyRestart`: an orderly end and a start bring back all blocks, every inode, but for a mode that is no `int`,
  and every name without a newline.
* `ConsistentAfterCrash`: after a crash, within a write too, the old tables still agree with each other and with the longer data file;
  `SavedDataKept`: what they bring back of a file that kept its blocks was changed by its own writer only.

## What the violations show

* `ring_corrupted`: `get_service_req` posts `empty` before the slot is used
  (`req_buffer.c` 134).  The worker answers, the client sends its next request into
  the same slot, and the worker's last assignment marks it COMPLETED.  The next time round
  the worker exits with "Data is corrupted!".  It needs as many clients as slots (256).
* `ring_waits`: the worker says "Waiting for data..." and does not: the request is never
  served.
* `ring_part_found`: if the first part took the last slot, `wr_idx` is 0 and the search
  from `rd_idx` to `wr_idx` is empty; the process exits.  One client and long
  requests are enough.
* `fs_missing`: `open` of a missing name opens the file with inode number 0, if the
  caller may; the test "open should fail" expects a failure.
* `fs_overwrite`: blocks written to a slot that was freed before are appended elsewhere
  in the data file.

## Proofs

* `ReqBuffer_proofs`: `TypeCorrect` (`Spec => []TypeOK`) and `RingSynchronised`
  (`Spec => []RingSync`), for every ring size, number of parts, requests and clients, overload
  included.  Neither is inductive.  `RingSync` depends on `empty` being given back only for
  a slot that was taken, and so on tokens: the worker takes a slot when `full` says there is
  one.  `TokenBound` says `full` never exceeds the unread slots less the incomplete
  requests; for it to survive a step the receiver's message must agree with what clients
  sent (`MsgOK`, `SeqOK`) and slots with their requests (`SlotOK`).  `IInv` is their
  conjunction, `Invariance` its proof: one lemma per conjunct, one step per action.
  Assumptions: `Size` and `MaxParts` are positive, `NoReq` is no request.
* `ReqBufferOrder_proofs`: what the ring promises while clients are fewer than slots (`FewClients`; the code
  has 256 slots and one request in flight per client process).  `SlotInUse`, `AnswersOwn`, `ServesComplete` and
  `TokensSynchronised` are the invariants of the runs, `ImplementsService` is the refinement
  (`Spec => ServesInOrder`), `ImplementsReliably` its stronger form without the step that loses a request when all
  requests have one part, and `ExitsSearching` says that the process then goes down nowhere but in the
  unlocked search.  All rest on one count (`UnreadBound`): an unread slot holds a request whose client still
  waits, each client waits for one, so the ring is never full, and the slot the receiver writes is not the one
  that `get_service_req` has given back while it is still used.  That needs the slots, the worker's
  program counter and the answers to agree (`DataInv`, `QueueInv`, `WorkerInv`, `AnswerInv`, together
  `ServingInv`), which `ring_corrupted` shows to fail without `FewClients`.
* `FileSystem_proofs`: `SingleWriter` (`Spec => []OneWriter`), for any number of files,
  users, blocks and descriptors.  The strengthening is only that descriptors are records, so
  that moving an offset keeps their mode.
* `FileSystemTables_proofs`: `TablesTyped` (`TypeOK`), `NamesCounted` (`ReferenceCount`), `BlocksOfOneFile`
  (`BlocksExclusive`) and `SlotsCovered` (`DataFileCoversSlots`), from one inductive invariant,
  `TablesInv`, whose parts need each other: a copy stores values only because the blocks it reads lie in the data
  file, and a count stays a number because it counts names.  The slots a write takes lie within the data file because it takes
  the lowest free ones and appends a block for each (`KthPlace`, by counting the free slots
  below a slot); they are of no other file because they were free (`BlocksWritten`).  `WriterAlone`
  (`OnlyWriterChanges`) follows from what each operation does to the blocks (`StepChanges`),
  `OpenedWithPermission` (`OpensWithPermission`) from `ReadCheck` and `WriteCheck` of `Permissions_proofs`, for every
  set of modes.
  `WrittenIsRead` (`WriteReadsBack`) needs a second invariant, `GapsInv`: as long as no slot was used twice and some are
  left, no file lacks a block below its size or below the offset of a descriptor (`NoGaps`).  Without it a write
  that starts within a missing block would fill the new one from its start.  It is guarded by
  free slots because an unlink while the file is open, after which its number goes to a new file, leaves an offset
  without blocks; then a slot was freed, and `FreshBefore` shows that no write makes slots
  fresh again while some are left.  `UnitsWritten` is `write_inode` unit by unit.
* `Persistence_proofs`: `RestartLosesNothing` (`LifeSpec => OrderlyRestart`), for any number of files, blocks,
  crashes and restarts.  The strengthening, `SavedInv`, says of each stage of `main` which files are up
  to date with the tables; it holds because nothing operates on the tables once `main` saves.  That a table survives
  the text needs more: inodes in memory are records of numbers (`ShapeInv`), `Atoi` keeps what an `int` holds
  (`AtoiInt`), and the lines of a name without a newline are that name (`PlainLines`).
  `SingleWriterAlways` extends `OneWriter` to the whole life of the service, with
  `StepPreserves` of `FileSystem_proofs` for the operations.  `LoadedTablesAgree` (`ConsistentAfterCrash`) and
  `SavedDataOfWriter` (`SavedDataKept`) say what a crash leaves.  Their invariant, `LifeInv`, is `TablesInv` of the tables in memory
  and, as long as no save was torn, the same of the three files (`FilesAgree`), whose
  slots stay within the data file because it only grows, also when a write is cut short (`KilledKeeps`).
* `Clients_proofs`: `FewCallsStayApart`: numbers are distinct for up to `Window` calls of each process and process ids
  that fit; `NumbersMeet`: the call after that meets the next process's first
  number.  The arithmetic rests on the lemma `Parts`, uniqueness of quotient and remainder.
* `Service_proofs`: `SavesAlone` (`Spec => []TablesQuiescent`), from `JoinInv`: `main` is past a `pthread_join`
  only when that thread has ended.  `ExecutedOnce` (`Spec => []AtMostOnce`), for any number of processes, calls,
  signals and restarts, and whether or not numbers collide.  `AtMostOnce` is not inductive: a request must also not be
  in a slot, in the receiver's hands or in the queue when it has been executed, nor twice in any of them, and a call
  that has sent nothing must be nowhere.  `OnceInv` says so: `InOnePlace` and `InOrder` of the four places, `Known` of
  the calls to come.  One lemma per action that moves a call, and one (`QuietKeeps`) for those
  that move none.
  `ServiceTyped` (`TypeOK`) is a matter of tokens: `full` is at most the number of whole requests in the
  ring, plus one that the worker leaves when it ends, and one for a slot that a receiver without a token overwrote;
  a token that the last part of a skipped request gives stands for one that the skip took (`TokensOK`).  `AnsweredByOwn` (`OwnAnswer`) and `AnswersWanted` (`AnswerWanted`) come from
  `ServiceInv`, which adds to that, as long as `NumbersApart`: a message says what its call sent (`PathRight`); the parts of a request
  are in order along queue, receiver and ring, so that a whole slot means that all was sent (`PartsInOrder`);
  a call that still sends has no answer, and one that returned was answered or cut off (`CallsRight`, `AnswersRight`);
  the parts of an answer that its client has, those in the queue and those still to send are consecutive (`AnswersInOrder`).
* `Permissions_proofs`: `ReadCheck` and `WriteCheck`: for every integer and each class of
  caller what the comparisons of the handlers decide: the read and the write bit, but that nobody passes
  with a negative mode and an owner always with one above 0777.

Only model-checked: the liveness properties (`OnePartAnswered`, `CallsReturn`, `SignalEnds` and the fair part of
`ServesAllInOrder`), which are out of the prover's reach, as is `ENABLED`.

## Not modelled

* Bytes of messages and argument packing, logging, times, file types: no property is
  about them.
* The characters of the table files: what is modelled is what printing and parsing lose.  A table longer than
  one stdio buffer may be cut in the middle by a crash; here it is whole or empty.  Lines longer than
  the 4096 characters of the buffer they are read into.
* What a library function returns and `libfs_errno`: the status of an answer, the descriptor cut down to a `char`
  (`libfs.c` 756), an error number that is never reset (107-115).
* The 32 bits of `offset + size` in `write_inode` and `read_inode` (`inode.c` 294, 386), which may wrap
  around: offsets and sizes are numbers without bound, of which the runs use small ones.
* Calls whose numbers meet, which the properties of answers exclude.
* Two services at once, process ids used again while an old answer is in the queue, removal of the
  queues, failures of `msgget` and of memory; of `msgsnd` and `msgrcv` only interruption by a signal.
* The ring in `Service` is that of `RequestService`: a slot rewritten under the worker
  (`ring_corrupted`) needs the finer steps of `ReqBuffer`.
* A call's arguments and data in `Service`, and requests in `FileSystem`: the two meet in the step of one operation.
* `remove_inode`, `free_block_table_slot` (never called), `fork` and the other start-up of a daemon.
* The test framework `ctest.h` and the demonstration programs.

## Plan

1. `RequestService`, `ReqBuffer` and proofs of type correctness and `RingSync` (done).
2. `Permissions`, `FileSystem` and proof of `OneWriter` (done).
3. `Persistence` and proofs of `OrderlyRestart` and of `OneWriter` across restarts (done).
4. `Clients`, `Service`, and proofs about numbers, shutdown and single execution (done).
5. The ring with fewer clients than slots, its refinement, the tables, what a crash leaves, and whose the answers are:
   all safety invariants of the runs (done).
6. `WriteReadsBack` for every size of block, file and data file (done).
7. The text of the tables, modes of any size, kills within a write, and the window between search and copy in
   `Service` (done).
8. A run for the ring full of incomplete requests, with more clients than slots.
