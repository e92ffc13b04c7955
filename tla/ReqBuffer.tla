------------------------------ MODULE ReqBuffer ------------------------------
(***************************************************************************)
(* The request path of the service process: the receiver thread (receive   *)
(* and handle_msg), the worker thread (operate and get_service_req) and    *)
(* the ring of request slots the two share.                                *)
(*                                                                         *)
(* A client process sends the parts of one request and waits for its       *)
(* answer before it sends another, so MaxOutstanding bounds the requests   *)
(* in flight.  A request is its sequence number; the unit of data is the   *)
(* part, so a request of n parts has data_size n.  The bytes of a request  *)
(* are represented by the request they came from.                          *)
(*                                                                         *)
(* Each critical section under rbuf->lock is one step; what the code does  *)
(* outside the lock (the search for a part's slot, everything the worker   *)
(* does with the slot it took) is split where the other thread can come    *)
(* in between.  The unlocked struct copy into a slot is split at its       *)
(* 16-byte halves {seq, type, req_status} and {data_size, data_offset,     *)
(* data}, written in address order.                                        *)
(***************************************************************************)
EXTENDS Integers, FiniteSets

CONSTANTS
    Reqs,            \* requests, named by their sequence numbers
    NoReq,           \* no request, and the NULL data pointer
    Size,            \* slots in the ring (BUFFER_SIZE in the service)
    MaxParts,        \* bound: parts of the longest request
    MaxOutstanding   \* bound: client processes, one request each at a time

ASSUME SizeAssumption == Size \in Nat \ {0}
ASSUME PartsAssumption == MaxParts \in Nat \ {0}
ASSUME ReqsAssumption == NoReq \notin Reqs

VARIABLES
    reqs,        \* the slots
    wr_idx,      \* next slot to write
    rd_idx,      \* next slot to read
    empty, full, \* the two semaphores
    rx_pc,       \* where the receiver is
    msg,         \* the message it handles
    at,          \* slot its search found
    wk_pc,       \* where the worker is
    slot,        \* slot get_service_req returned
    of,          \* request whose data the worker executed
    parts,       \* parts of each issued request, 0 before it is issued
    sent,        \* parts of it the receiver has taken from the queue
    responses,   \* answers in the response queue
    got,         \* what each request's client received
    up           \* the process has neither exited nor crashed

ring == <<reqs, wr_idx, rd_idx, empty, full>>
rx == <<rx_pc, msg, at>>
wk == <<wk_pc, slot, of>>
client == <<parts, sent, got>>
vars == <<reqs, wr_idx, rd_idx, empty, full, rx_pc, msg, at, wk_pc, slot, of,
          parts, sent, responses, got, up>>

Slots == 0 .. Size - 1
Status == {"COMPLETED", "IN_PROGRESS", "READY"}
Slot == [seq : Reqs \cup {NoReq}, req_status : Status,
         data_offset : Nat, data_size : Nat, data : Reqs \cup {NoReq}]
Msg == [seq : Reqs \cup {NoReq}, data_offset : Nat, data_size : Nat]

NoMsg == [seq |-> NoReq, data_offset |-> 0, data_size |-> 0]
AsSlot(seq, status, data, size, offset) ==
    [seq |-> seq, req_status |-> status,
     data_offset |-> offset, data_size |-> size, data |-> data]
EmptySlot == AsSlot(NoReq, "COMPLETED", NoReq, 0, 0)

Succ(i) == (i + 1) % Size

Outstanding == {r \in Reqs : parts[r] > 0 /\ got[r] = NoReq}
-----------------------------------------------------------------------------
Init ==
    /\ reqs = [i \in Slots |-> EmptySlot]
    /\ wr_idx = 0 /\ rd_idx = 0
    /\ empty = Size /\ full = 0
    /\ rx_pc = "recv" /\ msg = NoMsg /\ at = 0
    /\ wk_pc = "wait" /\ slot = 0 /\ of = NoReq
    /\ parts = [r \in Reqs |-> 0]
    /\ sent = [r \in Reqs |-> 0]
    /\ responses = {}
    /\ got = [r \in Reqs |-> NoReq]
    /\ up = TRUE
-----------------------------------------------------------------------------
(***************************************************************************)
(* The receiver.  RxFirst and RxNext are msgrcv returning the first and a  *)
(* later part of a request.                                                *)
(***************************************************************************)
RxFirst(r, n) ==
    /\ up /\ rx_pc = "recv"
    /\ parts[r] = 0
    /\ Cardinality(Outstanding) < MaxOutstanding
    /\ parts' = [parts EXCEPT ![r] = n]
    /\ sent' = [sent EXCEPT ![r] = 1]
    /\ msg' = [seq |-> r, data_offset |-> 0, data_size |-> n]
    /\ rx_pc' = "wait"
    /\ UNCHANGED <<ring, at, wk, responses, got, up>>

RxNext(r) ==
    /\ up /\ rx_pc = "recv"
    /\ 0 < sent[r] /\ sent[r] < parts[r]
    /\ sent' = [sent EXCEPT ![r] = @ + 1]
    /\ msg' = [seq |-> r, data_offset |-> sent[r], data_size |-> parts[r]]
    /\ rx_pc' = "find"
    /\ UNCHANGED <<ring, at, wk, parts, responses, got, up>>

\* Variant: the receiver does not wait for a free slot.
RxWaitEmptyNever ==
    /\ up /\ rx_pc = "wait"
    /\ empty' = empty - 1
    /\ rx_pc' = "put"
    /\ UNCHANGED <<reqs, wr_idx, rd_idx, full, msg, at, wk, client, responses, up>>

\* sem_wait(&rbuf->empty)
RxWaitEmpty ==
    /\ up /\ rx_pc = "wait"
    /\ empty > 0
    /\ empty' = empty - 1
    /\ rx_pc' = "put"
    /\ UNCHANGED <<reqs, wr_idx, rd_idx, full, msg, at, wk, client, responses, up>>

\* What RxPut and its variant write.
Put(status) ==
    [reqs EXCEPT ![wr_idx] =
        AsSlot(msg.seq, status, @.data, @.data_size, @.data_offset)]

\* Variant: a first part is marked ready like a whole request.
RxPutReady ==
    /\ up /\ rx_pc = "put"
    /\ reqs' = Put("READY")
    /\ rx_pc' = "fill"
    /\ UNCHANGED <<wr_idx, rd_idx, empty, full, msg, at, wk, client, responses, up>>

\* The first half of the struct copy into the slot at wr_idx.
RxPut ==
    /\ up /\ rx_pc = "put"
    /\ reqs' = Put(IF msg.data_size = 1 THEN "READY" ELSE "IN_PROGRESS")
    /\ rx_pc' = "fill"
    /\ UNCHANGED <<wr_idx, rd_idx, empty, full, msg, at, wk, client, responses, up>>

\* What RxFill and its variants write.
Filled ==
    [reqs EXCEPT ![wr_idx] =
        AsSlot(@.seq, @.req_status, msg.seq, msg.data_size,
               IF msg.data_size = 1 THEN 0 ELSE 1)]

\* Variant: wr_idx runs past the end of the ring.
RxFillNoWrap ==
    /\ up /\ rx_pc = "fill"
    /\ reqs' = Filled
    /\ wr_idx' = wr_idx + 1
    /\ rx_pc' = "post"
    /\ UNCHANGED <<rd_idx, empty, full, msg, at, wk, client, responses, up>>

\* Variant: a first part is announced to the worker too.
RxFillPosts ==
    /\ up /\ rx_pc = "fill"
    /\ reqs' = Filled
    /\ wr_idx' = Succ(wr_idx)
    /\ rx_pc' = "post"
    /\ UNCHANGED <<rd_idx, empty, full, msg, at, wk, client, responses, up>>

\* Variant: nothing is announced to the worker.
RxFillSilent ==
    /\ up /\ rx_pc = "fill"
    /\ reqs' = Filled
    /\ wr_idx' = Succ(wr_idx)
    /\ rx_pc' = "recv" /\ msg' = NoMsg
    /\ UNCHANGED <<rd_idx, empty, full, at, wk, client, responses, up>>

\* The second half, the new wr_idx, and the unlock.  Only a request of one
\* part is announced to the worker at once.
RxFill ==
    /\ up /\ rx_pc = "fill"
    /\ reqs' = Filled
    /\ wr_idx' = Succ(wr_idx)
    /\ IF msg.data_size = 1
       THEN rx_pc' = "post" /\ UNCHANGED msg
       ELSE rx_pc' = "recv" /\ msg' = NoMsg
    /\ UNCHANGED <<rd_idx, empty, full, at, wk, client, responses, up>>

\* Where handle_msg looks for the slot of a later part: from rd_idx up to
\* wr_idx, without following the ring around its end.
Searched == {i \in Slots : rd_idx <= i /\ i < wr_idx /\ reqs[i].seq = msg.seq}

RxFind ==
    /\ up /\ rx_pc = "find"
    /\ \E i \in Searched :
          /\ \A j \in Searched : i <= j
          /\ at' = i
    /\ rx_pc' = "copy"
    /\ UNCHANGED <<ring, msg, wk, client, responses, up>>

\* "No sequence in buffer": handle_msg fails and receive exits the process.
RxNotFound ==
    /\ up /\ rx_pc = "find"
    /\ Searched = {}
    /\ up' = FALSE
    /\ UNCHANGED <<ring, rx, wk, client, responses>>

\* memcpy into the slot (a crash if its data pointer is NULL), then the
\* three outcomes of comparing data_offset with data_size.
RxCopy ==
    LET offset == reqs[at].data_offset + 1
        done == offset = reqs[at].data_size
    IN  /\ up /\ rx_pc = "copy"
        /\ up' = (reqs[at].data # NoReq /\ offset <= reqs[at].data_size)
        /\ reqs' = [reqs EXCEPT ![at] =
              AsSlot(@.seq, IF done THEN "READY" ELSE @.req_status,
                     @.data, @.data_size, offset)]
        /\ rx_pc' = IF done THEN "post" ELSE "recv"
        /\ msg' = IF done THEN msg ELSE NoMsg
        /\ UNCHANGED <<wr_idx, rd_idx, empty, full, at, wk, client, responses>>

\* sem_post(&rbuf->full)
RxPost ==
    /\ up /\ rx_pc = "post"
    /\ full' = full + 1
    /\ rx_pc' = "recv"
    /\ msg' = NoMsg
    /\ UNCHANGED <<reqs, wr_idx, rd_idx, empty, at, wk, client, responses, up>>
-----------------------------------------------------------------------------
(***************************************************************************)
(* The worker.  The first three steps are get_service_req.                 *)
(***************************************************************************)
WkWaitFull ==
    /\ up /\ wk_pc = "wait"
    /\ full > 0
    /\ full' = full - 1
    /\ wk_pc' = "take"
    /\ UNCHANGED <<reqs, wr_idx, rd_idx, empty, rx, slot, of, client, responses, up>>

\* Variant: rd_idx is advanced before the slot is picked.
WkTakeNext ==
    /\ up /\ wk_pc = "take"
    /\ slot' = Succ(rd_idx)
    /\ rd_idx' = Succ(rd_idx)
    /\ wk_pc' = "post"
    /\ UNCHANGED <<reqs, wr_idx, empty, full, rx, of, client, responses, up>>

WkTake ==
    /\ up /\ wk_pc = "take"
    /\ slot' = rd_idx
    /\ rd_idx' = Succ(rd_idx)
    /\ wk_pc' = "post"
    /\ UNCHANGED <<reqs, wr_idx, empty, full, rx, of, client, responses, up>>

\* The slot is offered for reuse here, before the worker has looked at it.
WkPostEmpty ==
    /\ up /\ wk_pc = "post"
    /\ empty' = empty + 1
    /\ wk_pc' = "progress"
    /\ UNCHANGED <<reqs, wr_idx, rd_idx, full, rx, slot, of, client, responses, up>>

\* "Waiting for data...": the worker goes back to get_service_req.
WkSkip ==
    /\ up /\ wk_pc = "progress"
    /\ reqs[slot].req_status = "IN_PROGRESS"
    /\ wk_pc' = "wait"
    /\ UNCHANGED <<ring, rx, slot, of, client, responses, up>>

WkNotInProgress ==
    /\ up /\ wk_pc = "progress"
    /\ reqs[slot].req_status # "IN_PROGRESS"
    /\ wk_pc' = "ready"
    /\ UNCHANGED <<ring, rx, slot, of, client, responses, up>>

\* "Data is corrupted!": the worker exits the process.
WkCorrupted ==
    /\ up /\ wk_pc = "ready"
    /\ reqs[slot].req_status # "READY"
    /\ up' = FALSE
    /\ UNCHANGED <<ring, rx, wk, client, responses>>

WkReady ==
    /\ up /\ wk_pc = "ready"
    /\ reqs[slot].req_status = "READY"
    /\ wk_pc' = "exec"
    /\ UNCHANGED <<ring, rx, slot, of, client, responses, up>>

\* The service_* handler reads its arguments from req->data and acts on the
\* file system.
WkExec ==
    /\ up /\ wk_pc = "exec"
    /\ of' = reqs[slot].data
    /\ up' = (reqs[slot].data # NoReq)
    /\ wk_pc' = "reply"
    /\ UNCHANGED <<ring, rx, slot, client, responses>>

\* Variant: the answer goes to the request at rd_idx.
WkReplyHead ==
    /\ up /\ wk_pc = "reply"
    /\ responses' = responses \cup {[seq |-> reqs[rd_idx].seq, of |-> of]}
    /\ wk_pc' = "free"
    /\ UNCHANGED <<ring, rx, slot, of, client, up>>

\* The handler ends by sending its result to req->seq, read only now.
WkReply ==
    /\ up /\ wk_pc = "reply"
    /\ responses' = responses \cup {[seq |-> reqs[slot].seq, of |-> of]}
    /\ wk_pc' = "free"
    /\ UNCHANGED <<ring, rx, slot, of, client, up>>

\* free(req->data); req->data = NULL
WkFree ==
    /\ up /\ wk_pc = "free"
    /\ reqs' = [reqs EXCEPT ![slot] =
          AsSlot(@.seq, @.req_status, NoReq, @.data_size, @.data_offset)]
    /\ wk_pc' = "reset"
    /\ UNCHANGED <<wr_idx, rd_idx, empty, full, rx, slot, of, client, responses, up>>

\* req->data_offset = 0; req->data_size = 0
WkReset ==
    /\ up /\ wk_pc = "reset"
    /\ reqs' = [reqs EXCEPT ![slot] = AsSlot(@.seq, @.req_status, @.data, 0, 0)]
    /\ wk_pc' = "complete"
    /\ UNCHANGED <<wr_idx, rd_idx, empty, full, rx, slot, of, client, responses, up>>

WkComplete ==
    /\ up /\ wk_pc = "complete"
    /\ reqs' = [reqs EXCEPT ![slot] =
          AsSlot(@.seq, "COMPLETED", @.data, @.data_size, @.data_offset)]
    /\ wk_pc' = "wait"
    /\ UNCHANGED <<wr_idx, rd_idx, empty, full, rx, slot, of, client, responses, up>>
-----------------------------------------------------------------------------
\* A client's msgrcv on its own sequence number; it works even after the
\* service is gone, since the kernel keeps the queue.
ClRecv(r) ==
    /\ got[r] = NoReq
    /\ \E m \in responses :
          /\ m.seq = r
          /\ got' = [got EXCEPT ![r] = m.of]
          /\ responses' = responses \ {m}
    /\ UNCHANGED <<ring, rx, wk, parts, sent, up>>

\* Both threads wait for work, or the process is gone: the system may rest
\* here.  A receiver blocked on empty with the worker blocked on full may not.
Rest ==
    /\ ~ up \/ (rx_pc = "recv" /\ wk_pc = "wait" /\ full = 0)
    /\ UNCHANGED vars
-----------------------------------------------------------------------------
Receiver == RxWaitEmpty \/ RxPut \/ RxFill \/ RxFind \/ RxNotFound \/ RxCopy \/ RxPost
Worker ==
    \/ WkWaitFull \/ WkTake \/ WkPostEmpty
    \/ WkSkip \/ WkNotInProgress \/ WkCorrupted \/ WkReady
    \/ WkExec \/ WkReply \/ WkFree \/ WkReset \/ WkComplete

Next ==
    \/ \E r \in Reqs, n \in 1 .. MaxParts : RxFirst(r, n)
    \/ \E r \in Reqs : RxNext(r)
    \/ Receiver
    \/ Worker
    \/ \E r \in Reqs : ClRecv(r)
    \/ Rest

\* The operating system runs both threads, a client that began a request
\* sends the rest of it, and takes its answer.  Nobody has to begin one.
Fairness ==
    /\ WF_vars(Receiver)
    /\ WF_vars(Worker)
    /\ \A r \in Reqs : WF_vars(RxNext(r)) /\ WF_vars(ClRecv(r))

Spec == Init /\ [][Next]_vars
FairSpec == Spec /\ Fairness
-----------------------------------------------------------------------------
(***************************************************************************)
(* State the code has only implicitly.                                     *)
(***************************************************************************)
Held == IF rx_pc \in {"put", "fill"} THEN 1 ELSE 0
Taken == IF wk_pc = "post" THEN 1 ELSE 0

\* A token about to be added to full, and one just taken from it.
Posting == IF rx_pc = "post" THEN 1 ELSE 0
Taking == IF wk_pc = "take" THEN 1 ELSE 0

\* Slots written and not yet taken: the ones neither free, nor between the
\* receiver's sem_wait and its wr_idx step, nor between the worker's rd_idx
\* step and its sem_post.
Unread == Size - empty - Held - Taken

\* The k-th oldest of them, and all of them.
UnreadAt(k) == (rd_idx + k - 1) % Size
UnreadSlots == {UnreadAt(k) : k \in 1 .. Unread}

\* Parts of r that are in its slot.
Stored(r) ==
    IF msg.seq = r /\ rx_pc \in {"wait", "put", "fill", "find", "copy"}
    THEN sent[r] - 1 ELSE sent[r]

Incomplete == {r \in Reqs : 0 < Stored(r) /\ Stored(r) < parts[r]}

\* The worker is past its status checks and not yet done with its slot.
InService == wk_pc \in {"exec", "reply", "free", "reset", "complete"}
-----------------------------------------------------------------------------
(***************************************************************************)
(* Properties                                                              *)
(***************************************************************************)
\* Every variable stays in its range; the semaphores never exceed what the
\* ring can account for.
TypeOK ==
    /\ reqs \in [Slots -> Slot]
    /\ wr_idx \in Slots /\ rd_idx \in Slots
    /\ empty \in 0 .. Size /\ full \in Nat
    /\ rx_pc \in {"recv", "wait", "put", "fill", "find", "copy", "post"}
    /\ msg \in Msg /\ at \in Slots
    /\ wk_pc \in {"wait", "take", "post", "progress", "ready",
                  "exec", "reply", "free", "reset", "complete"}
    /\ slot \in Slots /\ of \in Reqs \cup {NoReq}
    /\ parts \in [Reqs -> 0 .. MaxParts]
    /\ sent \in [Reqs -> 0 .. MaxParts]
    /\ responses \subseteq [seq : Reqs \cup {NoReq}, of : Reqs \cup {NoReq}]
    /\ got \in [Reqs -> Reqs \cup {NoReq}]
    /\ up \in BOOLEAN

\* The indices and the two semaphores, updated at four different places of
\* two threads, always describe the same ring: wr_idx is Unread slots ahead
\* of rd_idx.  In particular handle_msg never writes over an unread slot and
\* get_service_req never returns one that was not written.
RingSync ==
    /\ Unread \in 0 .. Size
    /\ wr_idx = (rd_idx + Unread) % Size
    /\ Held = 1 => Unread < Size

\* full counts the unread slots whose request is complete, or was passed
\* over by a worker that used up another slot's token ("Waiting for data..."
\* does not give the token back).
TokenSync ==
    Unread = full + Posting + Taking + Cardinality(Incomplete)

\* get_service_req gives the slot back before the worker has used it
\* (sem_post(&rbuf->empty)); even so handle_msg does not touch the slot a
\* request is served from.
SlotInUseIsStable ==
    InService => /\ rx_pc \in {"put", "fill"} => wr_idx # slot
                 /\ rx_pc = "copy" => at # slot

\* operate reads req->data first and req->seq last: the answer a client gets
\* was computed from its own request's data.
OwnAnswer ==
    /\ \A m \in responses : m.of = m.seq
    /\ \A r \in Reqs : got[r] \in {NoReq, r}

\* A handler runs only on a request all of whose parts are in its slot.
ServedComplete ==
    InService => LET r == reqs[slot].seq
                 IN  r \in Reqs /\ Stored(r) = parts[r]

\* operate never finds a slot that is neither in progress nor ready ("Data is
\* corrupted!"), handle_msg never finds corrupted data: the process stays up.
StaysUp == up

\* Fewer clients than slots leave one way down: the search of a later part
\* that misses its slot.  handle_msg finds room for every part, the worker no
\* slot in a state it rejects, and the handlers no freed data.
ExitsOnlySearching == up \/ (rx_pc = "find" /\ Searched = {})

\* The log line "Waiting for data..." is what happens: a request whose slot
\* the worker meets before its data is complete is served once it is.
WaitsForData ==
    \A r \in Reqs :
        (wk_pc = "progress" /\ reqs[slot].seq = r
            /\ reqs[slot].req_status = "IN_PROGRESS") ~> (got[r] # NoReq \/ ~ up)

\* A later part of a request finds the slot its first part was put in.
PartIsFound == rx_pc = "find" => Searched # {}

\* A request that fits in one message is answered, whatever the requests of
\* several parts do to the tokens, unless the process has exited.
OnePartAnswered ==
    \A r \in Reqs : parts[r] = 1 ~> (got[r] = r \/ ~ up)
-----------------------------------------------------------------------------
(***************************************************************************)
(* The two threads and the ring implement a service that takes requests in *)
(* the order their first parts were put, one at a time.                    *)
(***************************************************************************)
queueBar == [k \in 1 .. Unread |-> reqs[UnreadAt(k)].seq]
servingBar ==
    IF wk_pc \in {"post", "progress", "ready", "exec", "reply"}
    THEN reqs[slot].seq ELSE NoReq
answeredBar == {m.seq : m \in responses} \cup {r \in Reqs : got[r] # NoReq}
passedBar ==
    {r \in Reqs :
        /\ Stored(r) > 0
        /\ r \notin answeredBar \cup {servingBar}
        /\ \A i \in UnreadSlots : reqs[i].seq # r}

Service == INSTANCE RequestService
           WITH Capacity <- Size, queue <- queueBar, serving <- servingBar,
                answered <- answeredBar, passed <- passedBar, alive <- up

\* Each request is served at most once, in arrival order, or passed over.
ServesInOrder == Service!Spec

\* With requests of one part only, none is passed over or lost and each is
\* answered, in arrival order.
ServesAllInOrder == Service!ReliableSpec
=============================================================================
