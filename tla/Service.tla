------------------------------- MODULE Service -------------------------------
(***************************************************************************)
(* The service and its clients from end to end: the clients and the two    *)
(* queues (Clients), the receiver and the worker over the ring, main, and  *)
(* the signals that end the service.  Taking a slot and looking at it is   *)
(* one step here, and so is filling one; their insides are in ReqBuffer,   *)
(* what an operation does in FileSystem, and what main saves in            *)
(* Persistence.  The receiver looks for the slot of a later part without   *)
(* the lock, so the worker may pass the slot before the part is copied.    *)
(*                                                                         *)
(* SIGINT and SIGTERM run end_service in any thread, and interrupt it if   *)
(* it is blocked (sa_flags is 0).  The queues survive the process.         *)
(***************************************************************************)
EXTENDS Clients

CONSTANTS
    RingSize,     \* BUFFER_SIZE
    MaxSignals,   \* bound: signals sent to the service
    MaxStarts     \* bound: times the service is started again

ASSUME ServiceAssumption == RingSize \in Nat \ {0} /\ MaxSignals \in Nat /\ MaxStarts \in Nat

VARIABLES
    working,      \* cleared by end_service
    rx,           \* receiver: "test", "call" to "recv" (blocked in msgrcv), "put",
                  \* "forced" (its sem_wait was interrupted), "copy", "ended"
    msg,          \* the message it has received
    found,        \* the slot it has found for a later part, and its place in the
                  \* ring: 0 once the worker has passed it
    ring,         \* slots from rd_idx up to wr_idx
    rd,           \* rd_idx
    full,         \* the semaphore full
    wk,           \* worker: "wait", "reply", "kill", "ended"
    cur,          \* the request it serves, the parts of its answer, and those sent
    main,         \* "join_rx", "join_wk", "save", "saved"
    up,           \* the process is there
    executed,     \* history: the calls executed, in order
    signals,      \* signals so far
    starts        \* restarts so far

threadVars == <<working, rx, msg, found, ring, rd, full, wk, cur, main, up>>
serviceVars == <<threadVars, executed, signals, starts>>
vars == <<clientVars, serviceVars>>

NoMsg == [id |-> <<>>]
NoWork == [req |-> NoMsg, answers |-> 0, sent |-> 0]
NoSlot == [at |-> 0, slot |-> NoMsg]

\* main creates the ring and both threads.
Started ==
    /\ working' = TRUE /\ rx' = "test" /\ wk' = "wait" /\ main' = "join_rx"
    /\ ring' = <<>> /\ rd' = 0 /\ full' = 0
    /\ msg' = NoMsg /\ found' = NoSlot /\ cur' = NoWork
    /\ up' = TRUE

Init ==
    /\ ClientInit
    /\ working = TRUE /\ rx = "test" /\ wk = "wait" /\ main = "join_rx"
    /\ ring = <<>> /\ rd = 0 /\ full = 0
    /\ msg = NoMsg /\ found = NoSlot /\ cur = NoWork
    /\ up = TRUE
    /\ executed = <<>> /\ signals = 0 /\ starts = 0

\* exit(EXIT_FAILURE), or a crash.
Dies == up' = FALSE
-----------------------------------------------------------------------------
RxTest ==
    /\ up /\ rx = "test"
    /\ rx' = IF working THEN "call" ELSE "ended"
    /\ UNCHANGED <<clientVars, working, msg, found, ring, rd, full, wk, cur, main, up, executed, signals, starts>>

\* msgrcv takes a message, or blocks until there is one.
RxReceive ==
    /\ up /\ rx \in {"call", "recv"} /\ requests # <<>>
    /\ msg' = Head(requests) /\ requests' = Tail(requests)
    /\ rx' = "put"
    /\ UNCHANGED <<counter, call, responses, abandoned,
                   working, found, ring, rd, full, wk, cur, main, up, executed, signals, starts>>

RxBlock ==
    /\ up /\ rx = "call" /\ requests = <<>>
    /\ rx' = "recv"
    /\ UNCHANGED <<clientVars, working, msg, found, ring, rd, full, wk, cur, main, up, executed, signals, starts>>

Slot(m) == [id |-> m.id, seq |-> m.seq, op |-> m.op, parts |-> m.parts, got |-> 1]

\* It may fill a slot: there is room, or sem_wait has ended without a token.
MayPut == rx = "forced" \/ (rx = "put" /\ Len(ring) < RingSize)

\* Variant: a short request gives no token.
RxPutSilent ==
    /\ up /\ MayPut /\ msg.part = 0
    /\ rx' = "test" /\ msg' = NoMsg
    /\ ring' = Append(ring, Slot(msg))
    /\ UNCHANGED <<clientVars, working, found, rd, full, wk, cur, main, up, executed, signals, starts>>

\* A short request or the first part of a long one, which without room goes to
\* the slot that is read next; a short one gives a token on full.
RxPut ==
    /\ up /\ MayPut /\ msg.part = 0
    /\ rx' = "test" /\ msg' = NoMsg
    /\ ring' = IF Len(ring) < RingSize THEN Append(ring, Slot(msg))
               ELSE [ring EXCEPT ![1] = Slot(msg)]
    /\ full' = IF msg.parts = 1 THEN full + 1 ELSE full
    /\ UNCHANGED <<clientVars, working, found, rd, wk, cur, main, up, executed, signals, starts>>

\* The search goes from rd_idx up to wr_idx: it is empty when wr_idx has
\* wrapped around.
SlotsOf(seq) ==
    IF rd + Len(ring) < RingSize THEN {k \in DOMAIN ring : ring[k].seq = seq} ELSE {}

\* A later part: the receiver looks for its slot without the lock.  Without a
\* slot main's process exits.
RxFind ==
    /\ up /\ rx = "put" /\ msg.part > 0
    /\ IF SlotsOf(msg.seq) = {} THEN Dies /\ UNCHANGED <<rx, found>>
       ELSE LET k == CHOOSE k \in SlotsOf(msg.seq) : \A j \in SlotsOf(msg.seq) : k <= j
            IN  /\ found' = [at |-> k, slot |-> ring[k]]
                /\ rx' = "copy"
                /\ UNCHANGED up
    /\ UNCHANGED <<clientVars, working, msg, ring, rd, full, wk, cur, main, executed, signals, starts>>

\* It copies the part to the slot it found, which the worker may have passed.
\* The last part gives the token; one that is too many ends the process.
RxCopy ==
    /\ up /\ rx = "copy"
    /\ LET slot == [found.slot EXCEPT !.got = @ + 1]
       IN  IF slot.got > slot.parts THEN Dies /\ UNCHANGED <<rx, msg, found, ring, full>>
           ELSE /\ ring' = IF found.at > 0 THEN [ring EXCEPT ![found.at] = slot] ELSE ring
                /\ full' = IF slot.got = slot.parts THEN full + 1 ELSE full
                /\ rx' = "test" /\ msg' = NoMsg /\ found' = NoSlot
                /\ UNCHANGED up
    /\ UNCHANGED <<clientVars, working, rd, wk, cur, main, executed, signals, starts>>
-----------------------------------------------------------------------------
\* Variant: rd_idx stays.
TakenKept ==
    /\ up /\ wk = "wait" /\ working /\ full > 0 /\ ring # <<>>
    /\ UNCHANGED <<ring, rd, found>>
    /\ full' = full - 1

\* Variant: rd_idx does not wrap around.
PassedNoWrap ==
    /\ ring' = IF ring = <<>> THEN ring ELSE Tail(ring)
    /\ rd' = rd + 1
    /\ found' = [found EXCEPT !.at = IF @ > 0 THEN @ - 1 ELSE 0]

\* rd_idx passes a slot; the one that the receiver has found moves up.
Passed ==
    /\ ring' = IF ring = <<>> THEN ring ELSE Tail(ring)
    /\ rd' = (rd + 1) % RingSize
    /\ found' = [found EXCEPT !.at = IF @ > 0 THEN @ - 1 ELSE 0]

\* get_service_req while the service works.
Taken ==
    /\ up /\ wk = "wait" /\ working /\ full > 0 /\ ring # <<>>
    /\ Passed
    /\ full' = full - 1

Complete(slot) == slot.got = slot.parts

\* The worker executes the request; only a read is answered in several parts.
WkServe ==
    /\ Taken /\ Complete(Head(ring))
    /\ \E n \in 1 .. MaxAnswers :
          /\ n = 1 \/ Head(ring).op = "read"
          /\ cur' = [req |-> Head(ring), answers |-> n, sent |-> 0]
    /\ executed' = Append(executed, Head(ring).id)
    /\ wk' = "reply"
    /\ UNCHANGED <<clientVars, working, rx, msg, main, up, signals, starts>>

\* A request whose parts have not all arrived is dropped.
WkSkip ==
    /\ Taken /\ ~Complete(Head(ring))
    /\ UNCHANGED <<clientVars, working, rx, msg, wk, cur, main, up, executed, signals, starts>>

\* Variant: the last part is sent twice.
WkReplyTwice ==
    /\ up /\ wk = "reply" /\ Len(responses) < ResponseRoom
    /\ responses' = Append(responses, [id |-> cur.req.id, seq |-> cur.req.seq, parts |-> cur.answers])
    /\ IF cur.sent = cur.answers THEN wk' = "wait" /\ cur' = NoWork
       ELSE cur' = [cur EXCEPT !.sent = @ + 1] /\ UNCHANGED wk
    /\ UNCHANGED <<counter, call, requests, abandoned,
                   working, rx, msg, found, ring, rd, full, main, up, executed, signals, starts>>

\* It sends the next part of the answer; msgsnd blocks while the queue is full.
WkReply ==
    /\ up /\ wk = "reply" /\ Len(responses) < ResponseRoom
    /\ responses' = Append(responses, [id |-> cur.req.id, seq |-> cur.req.seq, parts |-> cur.answers])
    /\ IF cur.sent + 1 = cur.answers THEN wk' = "wait" /\ cur' = NoWork
       ELSE cur' = [cur EXCEPT !.sent = @ + 1] /\ UNCHANGED wk
    /\ UNCHANGED <<counter, call, requests, abandoned,
                   working, rx, msg, found, ring, rd, full, main, up, executed, signals, starts>>

\* end_service has posted full, so that get_service_req returns; the slot it
\* takes, if there is one, is dropped.
WkEnd ==
    /\ up /\ wk = "wait" /\ ~working
    /\ wk' = "kill"
    /\ Passed
    /\ UNCHANGED <<clientVars, working, rx, msg, full, cur, main, up, executed, signals, starts>>

\* A signal in the receiver ends it when it is blocked in msgrcv and no message
\* has come; blocked in sem_wait, it goes on as if it had a token.  Elsewhere,
\* between its test of working and msgrcv too, the signal is lost on it.
Interrupted ==
    \/ rx = "recv" /\ rx' = "ended"
    \/ rx = "put" /\ msg.part = 0 /\ Len(ring) = RingSize /\ rx' = "forced"
    \/ (rx = "recv" => requests # <<>>) /\ UNCHANGED rx

\* Variant: no signal is sent to the receiver.
WkKillNone ==
    /\ up /\ wk = "kill"
    /\ wk' = "ended"
    /\ IF main = "join_rx" THEN UNCHANGED <<rx, up>> ELSE up' \in BOOLEAN /\ UNCHANGED rx
    /\ UNCHANGED <<clientVars, working, msg, found, ring, rd, full, cur, main, executed, signals, starts>>

\* pthread_kill; when main has joined the receiver already, it is undefined.
WkKill ==
    /\ up /\ wk = "kill"
    /\ wk' = "ended"
    /\ IF main = "join_rx" THEN Interrupted /\ UNCHANGED up ELSE up' \in BOOLEAN /\ UNCHANGED rx
    /\ UNCHANGED <<clientVars, working, msg, found, ring, rd, full, cur, main, executed, signals, starts>>
-----------------------------------------------------------------------------
MainJoinReceiver ==
    /\ up /\ main = "join_rx" /\ rx = "ended"
    /\ main' = "join_wk"
    /\ UNCHANGED <<clientVars, working, rx, msg, found, ring, rd, full, wk, cur, up, executed, signals, starts>>

\* Variant: main does not wait for the worker.
MainJoinNone ==
    /\ up /\ main = "join_wk"
    /\ main' = "save"
    /\ UNCHANGED <<clientVars, working, rx, msg, found, ring, rd, full, wk, cur, up, executed, signals, starts>>

MainJoinWorker ==
    /\ up /\ main = "join_wk" /\ wk = "ended"
    /\ main' = "save"
    /\ UNCHANGED <<clientVars, working, rx, msg, found, ring, rd, full, wk, cur, up, executed, signals, starts>>

\* main destroys the ring, saves the tables and exits.
MainSave ==
    /\ up /\ main = "save"
    /\ main' = "saved" /\ up' = FALSE
    /\ UNCHANGED <<clientVars, working, rx, msg, found, ring, rd, full, wk, cur, executed, signals, starts>>

\* SIGINT or SIGTERM, taken by a thread that is there.  The worker exits when
\* it is blocked in msgsnd, and end_service crashes once the ring is destroyed.
Signal ==
    /\ up /\ signals < MaxSignals
    /\ signals' = signals + 1
    /\ working' = FALSE
    /\ \/ main # "save" /\ UNCHANGED <<rx, up>>
       \/ main = "save" /\ up' \in BOOLEAN /\ UNCHANGED rx
       \/ rx # "ended" /\ Interrupted /\ UNCHANGED up
       \/ wk = "reply" /\ Len(responses) >= ResponseRoom /\ Dies /\ UNCHANGED rx
    /\ UNCHANGED <<clientVars, msg, found, ring, rd, full, wk, cur, main, executed, starts>>

\* The service is started again after it has ended.
Start ==
    /\ ~up /\ starts < MaxStarts
    /\ Started
    /\ starts' = starts + 1
    /\ UNCHANGED <<clientVars, executed, signals>>

Receiver == RxTest \/ RxReceive \/ RxBlock \/ RxPut \/ RxFind \/ RxCopy
Worker == WkServe \/ WkSkip \/ WkReply \/ WkEnd \/ WkKill
Main == MainJoinReceiver \/ MainJoinWorker \/ MainSave

Next ==
    \/ \E p \in Processes : Client(p) /\ UNCHANGED serviceVars
    \/ Receiver \/ Worker \/ Main
    \/ Signal
    \/ Start

Fairness ==
    /\ WF_vars(Receiver) /\ WF_vars(Worker) /\ WF_vars(Main)
    /\ \A p \in Processes : WF_vars((Send(p) \/ Receive(p)) /\ UNCHANGED serviceVars)

Spec == Init /\ [][Next]_vars /\ Fairness
-----------------------------------------------------------------------------
Executed == {executed[k] : k \in DOMAIN executed}

TypeOK ==
    /\ \A p \in Processes : counter[p] \in 0 .. MaxCalls[p]
    /\ \A p \in Processes : call[p].pc \in {"idle", "send", "recv", "exited"}
    /\ Len(requests) <= RequestRoom /\ Len(responses) <= ResponseRoom /\ Len(ring) <= RingSize
    /\ rx \in {"test", "call", "recv", "put", "forced", "copy", "ended"}
    /\ found.at \in 0 .. Len(ring) /\ wk \in {"wait", "reply", "kill", "ended"}
    /\ main \in {"join_rx", "join_wk", "save", "saved"}
    /\ rd \in 0 .. RingSize - 1 /\ full \in 0 .. RingSize + 2
    /\ {working, up} \subseteq BOOLEAN
    /\ Executed \cup abandoned \subseteq Ids

\* OwnAnswer: if numbers are apart, a call gathers its parts from the answer to
\* its own request only, and one that returned and was not interrupted was
\* executed, whatever answers dead clients and earlier services left in the
\* queue (get_seq, libfs.c 6, msgrcv by number, e.g. 706, operations.c 547).
OwnAnswer ==
    NumbersApart =>
        \A p \in Processes :
            /\ call[p].from \subseteq {Id(p)}
            /\ call[p].pc = "idle" /\ counter[p] > 0 /\ Id(p) \notin abandoned
                  => call[p].from = {Id(p)} /\ Id(p) \in Executed

\* AnswerWanted: every answer in the queue is one that its client waits for, or
\* of a call that was given up; so as long as clients live, a worker blocked on
\* a full response queue waits for a client that receives, and never for one
\* that is itself blocked sending (service_read, operations.c 730, libfs.c 1032).
AnswerWanted ==
    NumbersApart =>
        \A k \in DOMAIN responses :
            \/ responses[k].id \in abandoned
            \/ \E p \in Processes : responses[k].id = Id(p) /\ call[p].pc = "recv"

\* AtMostOnce: no request is executed twice, also when the service is ended or
\* crashes and another takes over the queues (service.c 46, 81-83).
AtMostOnce == \A j, k \in DOMAIN executed : executed[j] = executed[k] => j = k

\* TablesQuiescent: while main frees the ring and saves the tables, neither
\* thread is there to use them, whatever thread took the signal (main,
\* service.c 223-230).
TablesQuiescent == up /\ main = "save" => rx = "ended" /\ wk = "ended"

\* The worker has skipped the request of process p for its missing parts, while
\* the receiver was about to copy one of them.
Overtaken(p) == rx = "copy" /\ found.at = 0 /\ found.slot.id = Id(p)

\* CallsReturn: unless a client dies in a call or the service ends, every call
\* to the first service returns, at a full request and response queue too, but
\* for one whose request is overtaken (service.c 45-70, 79-147).
CallsReturn ==
    \A p \in Processes :
        call[p].pc = "send" /\ call[p].sent = 0 /\ starts = 0
            ~> call[p].pc \in {"idle", "exited"} \/ ~working \/ ~up \/ abandoned # {} \/ Overtaken(p)

\* SignalEnds: after SIGINT or SIGTERM the process ends, but for two races.
\* Either the worker's pthread_kill finds the receiver between its test of
\* working and msgrcv, or the worker blocks for good on a response queue that
\* only dead clients' answers fill (service.c 27-30, 42-51, 151, operations.c
\* 730).
SignalLost == wk = "ended" /\ rx = "call"
NobodyReceives ==
    wk = "reply" /\ Len(responses) = ResponseRoom /\ \A k \in DOMAIN responses : responses[k].id \in abandoned
SignalEnds == up /\ ~working /\ wk # "ended" ~> ~up \/ SignalLost \/ NobodyReceives
=============================================================================
