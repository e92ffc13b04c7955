------------------------------- MODULE Clients -------------------------------
(***************************************************************************)
(* The client library (libfs.c) over the two System V message queues.  A   *)
(* call numbers its request after the process and a counter, sends it in   *)
(* one or several parts, and waits on the response queue for a message of  *)
(* that number.  The twelve functions are copies of each other that differ *)
(* in what Function records.                                               *)
(*                                                                         *)
(* A message carries the call it belongs to as a history variable, id; the *)
(* code sees its number, seq, only.  Statuses and data are left out of the *)
(* messages, and with them what a call returns.                            *)
(***************************************************************************)
EXTENDS Integers, SequencesExt

CONSTANTS
    Processes,      \* client processes
    Pid,            \* their process ids
    Window,         \* numbers per process: 2^(sizeof(long) / 2)
    Unsigned,       \* 2^w for the unsigned int w bits wide
    Operations,     \* bound: the functions each process calls
    MaxCalls,       \* bound: calls of each process
    MaxAbandoned,   \* bound: calls cut off by a signal
    MaxParts,       \* bound: parts of a request
    MaxAnswers,     \* bound: parts of an answer
    RequestRoom,    \* messages the request queue holds
    ResponseRoom    \* messages the response queue holds

ASSUME ProcessAssumption ==
    /\ Pid \in [Processes -> Nat \ {0}] /\ \A p, q \in Processes : Pid[p] = Pid[q] => p = q
    /\ Window \in Nat \ {0}
ASSUME WidthAssumption == Unsigned \in Nat \ {0}
ASSUME RoomAssumption ==
    /\ MaxCalls \in [Processes -> Nat] /\ MaxAbandoned \in Nat
    /\ MaxParts \in Nat \ {0} /\ MaxAnswers \in Nat \ {0}
    /\ RequestRoom \in Nat \ {0} /\ ResponseRoom \in Nat \ {0}

VARIABLES
    counter,        \* seq_counter of each process
    call,           \* where each process is in its call
    requests,       \* the queue IPC_REQUESTS_KEY
    responses,      \* the queue IPC_RESPONSE_KEY
    abandoned       \* history: calls that ended without an answer

clientVars == <<counter, call, requests, responses, abandoned>>
-----------------------------------------------------------------------------
\* What decides how a library function goes on when an answer or a signal
\* comes: whether it looks at what msgrcv returns, and whether it gathers an
\* answer of several parts.
Function(checks, gathers) == [checks |-> checks, gathers |-> gathers]

libfs_create == Function(TRUE, TRUE)
libfs_rename == Function(FALSE, FALSE)
libfs_chmode == Function(FALSE, FALSE)
libfs_stat == Function(TRUE, TRUE)
libfs_link == Function(TRUE, TRUE)
libfs_symlink == Function(TRUE, TRUE)
libfs_open == Function(TRUE, TRUE)
libfs_close == Function(TRUE, TRUE)
libfs_write == Function(TRUE, FALSE)
libfs_read == Function(TRUE, TRUE)
libfs_seek == Function(TRUE, FALSE)
libfs_unlink == Function(TRUE, FALSE)

Library == [create |-> libfs_create, rename |-> libfs_rename, chmode |-> libfs_chmode,
            stat |-> libfs_stat, link |-> libfs_link, symlink |-> libfs_symlink,
            open |-> libfs_open, close |-> libfs_close, write |-> libfs_write,
            read |-> libfs_read, seek |-> libfs_seek, unlink |-> libfs_unlink]

ASSUME OperationsAssumption == Operations \in [Processes -> SUBSET DOMAIN Library]
-----------------------------------------------------------------------------
\* get_seq.
GetSeq(pid, n) == (pid * Window + n) % Unsigned

\* The calls, and that no two of them have the same number.
Ids == UNION {{p} \X (0 .. MaxCalls[p] - 1) : p \in Processes}
NumbersApart ==
    \A x, y \in Ids : GetSeq(Pid[x[1]], x[2]) = GetSeq(Pid[y[1]], y[2]) => x = y

\* The call a process is in, and its number.
Id(p) == <<p, counter[p] - 1>>
Seq_(p) == GetSeq(Pid[p], counter[p] - 1)

NoCall == [pc |-> "idle", op |-> "none", parts |-> 0, sent |-> 0, got |-> 0, from |-> {}]

ClientInit ==
    /\ counter = [p \in Processes |-> 0]
    /\ call = [p \in Processes |-> NoCall]
    /\ requests = <<>> /\ responses = <<>>
    /\ abandoned = {}

\* A process calls a function.  Only the data of a write is long enough for
\* several parts.
Begin(p, op, parts) ==
    /\ call[p].pc = "idle" /\ counter[p] < MaxCalls[p]
    /\ parts = 1 \/ op = "write"
    /\ counter' = [counter EXCEPT ![p] = @ + 1]
    /\ call' = [call EXCEPT ![p] = [NoCall EXCEPT !.pc = "send", !.op = op, !.parts = parts]]
    /\ UNCHANGED <<requests, responses, abandoned>>

\* msgsnd blocks while the queue is full.
Send(p) ==
    /\ call[p].pc = "send" /\ Len(requests) < RequestRoom
    /\ requests' = Append(requests, [id |-> Id(p), seq |-> Seq_(p), op |-> call[p].op,
                                     parts |-> call[p].parts, part |-> call[p].sent])
    /\ call' = [call EXCEPT ![p].sent = @ + 1,
                            ![p].pc = IF call[p].sent + 1 = call[p].parts THEN "recv" ELSE "send"]
    /\ UNCHANGED <<counter, responses, abandoned>>

\* Variant: msgrcv takes messages of any number.
MineAny(p) == DOMAIN responses

\* The places of the answers that process p may take.
Mine(p) == {k \in DOMAIN responses : responses[k].seq = Seq_(p)}

\* msgrcv takes the first message of the number.  A function that gathers goes
\* on until it has all parts, and exits when a further one is not marked as
\* one of several.
Receive(p) ==
    /\ call[p].pc = "recv" /\ Mine(p) # {}
    /\ LET k == CHOOSE k \in Mine(p) : \A j \in Mine(p) : k <= j
           r == responses[k]
           more == Library[call[p].op].gathers /\ call[p].got + 1 < r.parts
           broken == call[p].got > 0 /\ r.parts = 1
       IN  /\ responses' = RemoveAt(responses, k)
           /\ call' = [call EXCEPT ![p].got = @ + 1, ![p].from = @ \cup {r.id},
                                   ![p].pc = IF broken THEN "exited" ELSE IF more THEN "recv" ELSE "idle"]
           /\ abandoned' = IF broken THEN abandoned \cup {Id(p)} ELSE abandoned
    /\ UNCHANGED <<counter, requests>>

\* A process is killed in a call, or a signal interrupts it in msgsnd or in a
\* msgrcv whose result is looked at: it exits.
Exit(p) ==
    /\ call[p].pc \in {"send", "recv"} /\ Cardinality(abandoned) < MaxAbandoned
    /\ call' = [call EXCEPT ![p].pc = "exited"]
    /\ abandoned' = abandoned \cup {Id(p)}
    /\ UNCHANGED <<counter, requests, responses>>

\* A signal interrupts a msgrcv whose result is not looked at: the call
\* returns the status it finds in its buffer.
Guess(p) ==
    /\ call[p].pc = "recv" /\ ~Library[call[p].op].checks /\ Cardinality(abandoned) < MaxAbandoned
    /\ call' = [call EXCEPT ![p].pc = "idle"]
    /\ abandoned' = abandoned \cup {Id(p)}
    /\ UNCHANGED <<counter, requests, responses>>

Client(p) ==
    \/ \E op \in Operations[p], parts \in 1 .. MaxParts : Begin(p, op, parts)
    \/ Send(p) \/ Receive(p)
    \/ Exit(p) \/ Guess(p)
=============================================================================
