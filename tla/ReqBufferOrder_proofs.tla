------------------------ MODULE ReqBufferOrder_proofs ------------------------
(***************************************************************************)
(* The request path with fewer clients than slots, for any set of          *)
(* requests and any number of slots and parts: what the worker serves is   *)
(* left alone, each client gets its own answer, and the two threads        *)
(* implement RequestService.                                               *)
(*                                                                         *)
(* All of it rests on counting.  Every unread slot holds a request whose   *)
(* client still waits, and each client waits for one request, so the       *)
(* unread slots never fill the ring, and the receiver's next slot is not   *)
(* the one that get_service_req gave back too early.                       *)
(***************************************************************************)
EXTENDS ReqBuffer_proofs, FunctionTheorems, SequenceTheorems

\* The service has BUFFER_SIZE slots for the requests of fewer clients.
FewClients == MaxOutstanding \in Nat /\ MaxOutstanding < Size

Complete(r) == Stored(r) = parts[r]

\* What the worker needs of a slot it is going to look at.
Serveable(i) ==
    LET r == reqs[i].seq
    IN  /\ r \in Reqs /\ Stored(r) > 0
        /\ Complete(r) => reqs[i].req_status = "READY" /\ reqs[i].data = r

\* The receiver writes the slot at wr_idx, or the worker has one in its hands.
Writing == rx_pc \in {"put", "fill"}
AtWork == wk_pc \notin {"wait", "take"}

\* The slot of a request that is not complete waits for its parts.
DataInv ==
    /\ \A i \in Slots :
          LET r == reqs[i].seq
          IN  r \in Reqs /\ ~ (rx_pc = "fill" /\ i = wr_idx) /\ ~ Complete(r) =>
                 /\ reqs[i].req_status = "IN_PROGRESS"
                 /\ reqs[i].data = r /\ reqs[i].data_size = parts[r]
    /\ rx_pc = "fill" =>
          reqs[wr_idx].req_status = IF parts[msg.seq] = 1 THEN "READY" ELSE "IN_PROGRESS"

\* Unread slots hold requests that have no answer.
QueueInv ==
    \A k \in 1 .. Unread :
        Serveable(UnreadAt(k)) /\ reqs[UnreadAt(k)].seq \notin answeredBar

\* The worker's slot is the one before rd_idx, and past the status checks its
\* request is complete.
WorkerInv ==
    /\ AtWork => rd_idx = Succ(slot)
    /\ wk_pc \in {"post", "progress"} => Serveable(slot)
    /\ InService \/ wk_pc = "ready" => reqs[slot].seq \in Reqs /\ Complete(reqs[slot].seq)
    /\ wk_pc \in {"ready", "exec"} =>
          reqs[slot].req_status = "READY" /\ reqs[slot].data = reqs[slot].seq
    /\ wk_pc = "reply" => of = reqs[slot].seq

\* Answers are of complete requests and computed from their data.
AnswerInv ==
    /\ OwnAnswer
    /\ \A r \in answeredBar : r \in Reqs /\ parts[r] > 0 /\ Complete(r)
    /\ servingBar \notin answeredBar

ClientsInv ==
    IsFiniteSet(Outstanding) /\ Cardinality(Outstanding) <= MaxOutstanding

ServingInv == DataInv /\ QueueInv /\ WorkerInv /\ AnswerInv /\ ClientsInv
-----------------------------------------------------------------------------
\* Where the unread slots are in the ring.
LEMMA UnreadPlaces ==
    ASSUME TypeOK, RingSync
    PROVE  /\ \A k \in 1 .. Unread :
                 /\ UnreadAt(k) \in Slots
                 /\ UnreadAt(k) = IF rd_idx + k - 1 < Size THEN rd_idx + k - 1
                                                          ELSE rd_idx + k - 1 - Size
           /\ \A j, k \in 1 .. Unread : UnreadAt(j) = UnreadAt(k) => j = k
           /\ Unread < Size => \A k \in 1 .. Unread : UnreadAt(k) # wr_idx
  <1>1. /\ Size \in Nat \ {0} /\ Unread \in 0 .. Size /\ rd_idx \in Slots /\ wr_idx \in Slots
        /\ wr_idx = (rd_idx + Unread) % Size
    BY SizeAssumption DEF TypeOK, RingSync
  <1>2. \A k \in 1 .. Unread : k - 1 \in 0 .. Size /\ rd_idx + k - 1 = rd_idx + (k - 1)
    BY <1>1 DEF Slots
  <1>3. \A u \in 0 .. Size :
           (rd_idx + u) % Size = IF rd_idx + u < Size THEN rd_idx + u ELSE rd_idx + u - Size
    BY <1>1, RingIndex
  <1>4. \A k \in 1 .. Unread :
           UnreadAt(k) = IF rd_idx + k - 1 < Size THEN rd_idx + k - 1
                                                  ELSE rd_idx + k - 1 - Size
    BY <1>2, <1>3 DEF UnreadAt
  <1>5. wr_idx = IF rd_idx + Unread < Size THEN rd_idx + Unread ELSE rd_idx + Unread - Size
    BY <1>1, <1>3
  <1>6. \A k \in 1 .. Unread : UnreadAt(k) \in Slots
    BY <1>1, <1>4 DEF Slots
  <1>7. \A j, k \in 1 .. Unread : UnreadAt(j) = UnreadAt(k) => j = k
    BY <1>1, <1>4 DEF Slots
  <1>8. Unread < Size => \A k \in 1 .. Unread : UnreadAt(k) # wr_idx
    BY <1>1, <1>4, <1>5 DEF Slots
  <1> QED
    BY <1>4, <1>6, <1>7, <1>8

\* The slot before rd_idx is unread only in a full ring, and the next to be
\* written only if all the others are unread.
LEMMA SlotBefore ==
    ASSUME TypeOK, RingSync, rd_idx = Succ(slot)
    PROVE  /\ Unread < Size => \A k \in 1 .. Unread : UnreadAt(k) # slot
           /\ Unread + 1 < Size => wr_idx # slot
  <1>1. /\ Size \in Nat \ {0} /\ Unread \in 0 .. Size /\ rd_idx \in Slots /\ slot \in Slots
        /\ wr_idx = (rd_idx + Unread) % Size
    BY SizeAssumption DEF TypeOK, RingSync
  <1>2. rd_idx = IF slot + 1 = Size THEN 0 ELSE slot + 1
    BY <1>1, SuccWraps
  <1>3. wr_idx = IF rd_idx + Unread < Size THEN rd_idx + Unread ELSE rd_idx + Unread - Size
    BY <1>1, RingIndex
  <1>4. ASSUME Unread < Size, NEW k \in 1 .. Unread
        PROVE  UnreadAt(k) # slot
    <2>1. UnreadAt(k) = IF rd_idx + k - 1 < Size THEN rd_idx + k - 1
                                                 ELSE rd_idx + k - 1 - Size
      BY UnreadPlaces
    <2> QED
      BY <1>1, <1>2, <1>4, <2>1 DEF Slots
  <1>5. Unread + 1 < Size => wr_idx # slot
    BY <1>1, <1>2, <1>3 DEF Slots
  <1> QED
    BY <1>4, <1>5

\* Every unread slot, and the message a slot is sought for, has its own
\* client waiting.
LEMMA UnreadBound ==
    ASSUME FewClients, IInv, QueueInv, AnswerInv, ClientsInv
    PROVE  /\ Unread < Size
           /\ rx_pc \in {"wait", "put", "fill"} => Unread + 1 < Size
  <1>t. TypeOK /\ MsgOK /\ SeqOK /\ RingSync /\ Unread \in Nat /\ Size \in Nat
    BY SizeAssumption DEF IInv, RingSync
  <1> DEFINE f == [k \in 1 .. Unread |-> reqs[UnreadAt(k)].seq]
             Arriving == rx_pc \in {"wait", "put", "fill"}
             others == IF Arriving THEN Outstanding \ {msg.seq} ELSE Outstanding
  <1>1. \A k \in 1 .. Unread : UnreadAt(k) \in Slots /\ reqs[UnreadAt(k)].seq \in Reqs
    BY <1>t, UnreadPlaces DEF QueueInv, Serveable
  <1>2. \A k \in 1 .. Unread : reqs[UnreadAt(k)].seq \in Outstanding
    <2> SUFFICES ASSUME NEW k \in 1 .. Unread
                 PROVE  reqs[UnreadAt(k)].seq \in Outstanding
      OBVIOUS
    <2> DEFINE r == reqs[UnreadAt(k)].seq
    <2>1. r \in Reqs /\ r \notin answeredBar /\ UnreadAt(k) \in Slots
      BY <1>1 DEF QueueInv
    <2>2. got[r] = NoReq
      BY <2>1 DEF answeredBar
    <2>3. parts[r] # 0 /\ parts[r] \in Nat
      BY <2>1, <1>t, PartsAssumption DEF SeqOK, TypeOK
    <2> QED
      BY <2>1, <2>2, <2>3 DEF Outstanding
  <1>3. Arriving => msg.seq \in Outstanding /\ \A k \in 1 .. Unread : reqs[UnreadAt(k)].seq # msg.seq
    <2> SUFFICES ASSUME Arriving
                 PROVE  /\ msg.seq \in Outstanding
                        /\ \A k \in 1 .. Unread : reqs[UnreadAt(k)].seq # msg.seq
      OBVIOUS
    <2>1. msg.seq \in Reqs /\ parts[msg.seq] > 0 /\ sent[msg.seq] = 1
      BY <1>t DEF MsgOK
    <2>2. Stored(msg.seq) = 0
      BY <2>1 DEF Stored
    <2>3. msg.seq \notin answeredBar
      BY <2>1, <2>2 DEF AnswerInv, Complete
    <2>4. msg.seq \in Outstanding
      BY <2>1, <2>3 DEF Outstanding, answeredBar
    <2>5. \A k \in 1 .. Unread : Stored(reqs[UnreadAt(k)].seq) > 0
      BY DEF QueueInv, Serveable
    <2> QED
      BY <2>2, <2>4, <2>5
  <1>4. IsFiniteSet(others)
        /\ Cardinality(others) = IF Arriving THEN Cardinality(Outstanding) - 1 ELSE Cardinality(Outstanding)
    BY <1>3, FS_RemoveElement DEF ClientsInv
  <1>5. f \in Injection(1 .. Unread, others)
    <2>1. f \in [1 .. Unread -> others]
      BY <1>2, <1>3
    <2>2. \A j, k \in 1 .. Unread : f[j] = f[k] => j = k
      BY <1>1, <1>t, UnreadPlaces DEF SeqOK
    <2> QED
      BY <2>1, <2>2, Fun_IsInj
  <1>6. Cardinality(1 .. Unread) <= Cardinality(others)
    BY <1>4, <1>5, FS_Injection
  <1>7. Cardinality(1 .. Unread) = Unread
    BY <1>t, FS_Interval
  <1>8. Cardinality(Outstanding) \in Nat /\ Cardinality(Outstanding) <= MaxOutstanding
    BY FS_CardinalityType DEF ClientsInv
  <1> QED
    BY <1>4, <1>6, <1>7, <1>8, <1>t DEF FewClients
-----------------------------------------------------------------------------
\* The facts about a state that its steps rely on.
LEMMA Apart ==
    ASSUME FewClients, IInv, ServingInv
    PROVE  /\ Unread \in Nat /\ Unread < Size
           /\ \A k \in 1 .. Unread : UnreadAt(k) \in Slots
           /\ \A j, k \in 1 .. Unread : UnreadAt(j) = UnreadAt(k) => j = k
           /\ AtWork => \A k \in 1 .. Unread : UnreadAt(k) # slot
           /\ \A k \in 1 .. Unread : UnreadAt(k) # wr_idx
           /\ AtWork /\ Writing => wr_idx # slot
           /\ rx_pc = "copy" => at \in Slots /\ reqs[at].seq = msg.seq
           /\ rx_pc \in {"wait", "put", "fill"} => Stored(msg.seq) = 0
           /\ rx_pc = "copy" => Stored(msg.seq) = sent[msg.seq] - 1
           /\ rx_pc \in {"wait", "put", "fill", "copy"} =>
                 msg.seq \in Reqs /\ parts[msg.seq] > 0 /\ ~ Complete(msg.seq)
  <1>t. TypeOK /\ MsgOK /\ RingSync /\ Unread \in Nat
    BY DEF IInv, RingSync
  <1>i. QueueInv /\ AnswerInv /\ ClientsInv /\ (AtWork => rd_idx = Succ(slot))
    BY DEF ServingInv, WorkerInv
  <1>1. Unread < Size /\ (rx_pc \in {"wait", "put", "fill"} => Unread + 1 < Size)
    BY <1>i, UnreadBound
  <1>2. /\ AtWork => \A k \in 1 .. Unread : UnreadAt(k) # slot
        /\ AtWork /\ Writing => wr_idx # slot
    BY <1>t, <1>i, <1>1, SlotBefore DEF Writing
  <1>3. ASSUME rx_pc \in {"wait", "put", "fill"}
        PROVE  Stored(msg.seq) = 0 /\ msg.seq \in Reqs /\ parts[msg.seq] > 0 /\ ~ Complete(msg.seq)
    BY <1>3, <1>t DEF MsgOK, Stored, Complete
  <1>4. ASSUME rx_pc = "copy"
        PROVE  /\ Stored(msg.seq) = sent[msg.seq] - 1
               /\ at \in Slots /\ reqs[at].seq = msg.seq
               /\ msg.seq \in Reqs /\ parts[msg.seq] > 0 /\ ~ Complete(msg.seq)
    <2>1. /\ msg.seq \in Reqs /\ sent[msg.seq] > 1 /\ sent[msg.seq] <= parts[msg.seq]
          /\ reqs[at].seq = msg.seq /\ at \in Slots
      BY <1>4, <1>t DEF MsgOK, TypeOK
    <2>2. Stored(msg.seq) = sent[msg.seq] - 1
      BY <1>4 DEF Stored
    <2>3. sent[msg.seq] \in Nat /\ parts[msg.seq] \in Nat
      BY <2>1, <1>t, PartsAssumption DEF TypeOK
    <2> QED
      BY <2>1, <2>2, <2>3 DEF Complete
  <1> QED
    BY <1>t, <1>1, <1>2, <1>3, <1>4, UnreadPlaces

\* What a step does to the number of unread slots and to rd_idx.
LEMMA UnreadStep ==
    ASSUME IInv, [Next]_vars
    PROVE  /\ RxFill => Unread' = Unread + 1 /\ rd_idx' = rd_idx
           /\ WkTake => Unread > 0 /\ Unread' = Unread - 1 /\ rd_idx' = Succ(rd_idx)
           /\ ~ (RxFill \/ WkTake) => Unread' = Unread /\ rd_idx' = rd_idx
  <1>c. /\ Size \in Nat /\ empty \in Nat /\ Held \in 0 .. 1 /\ Taken \in 0 .. 1
        /\ full \in Nat /\ Posting \in 0 .. 1 /\ Taking \in 0 .. 1 /\ Unread \in Int
        /\ TokenBound /\ Cardinality(Incomplete) \in Nat
    BY Counters, FS_CardinalityType DEF IInv, TokenBound
  <1>1. ASSUME RxFill
        PROVE  Unread' = Unread + 1 /\ rd_idx' = rd_idx
    <2>1. /\ Held = 1 /\ Held' = 0 /\ UNCHANGED <<rd_idx, empty, Taken>>
      BY <1>1 DEF RxFill, Held, Taken, wk
    <2> QED
      BY <1>c, <2>1 DEF Unread
  <1>2. ASSUME WkTake
        PROVE  Unread > 0 /\ Unread' = Unread - 1 /\ rd_idx' = Succ(rd_idx)
    <2>1. /\ Taking = 1 /\ Taken = 0 /\ Taken' = 1 /\ UNCHANGED <<empty, Held>>
          /\ rd_idx' = Succ(rd_idx)
      BY <1>2 DEF WkTake, Held, Taken, Taking, rx
    <2> QED
      BY <1>c, <2>1 DEF Unread, TokenBound
  <1>3. CASE RxWaitEmpty
    <2>1. /\ Held = 0 /\ Held' = 1 /\ empty' = empty - 1 /\ UNCHANGED <<rd_idx, Taken>>
          /\ ~ (RxFill \/ WkTake)
      BY <1>3 DEF RxWaitEmpty, Held, Taken, wk, RxFill, WkTake
    <2> QED
      BY <1>c, <2>1 DEF Unread
  <1>4. CASE WkPostEmpty
    <2>1. /\ Taken = 1 /\ Taken' = 0 /\ empty' = empty + 1 /\ UNCHANGED <<rd_idx, Held>>
          /\ ~ (RxFill \/ WkTake)
      BY <1>4 DEF WkPostEmpty, Held, Taken, rx, RxFill, WkTake
    <2> QED
      BY <1>c, <2>1 DEF Unread
  <1>5. CASE ~ (RxFill \/ WkTake \/ RxWaitEmpty \/ WkPostEmpty)
    <2>1. UNCHANGED <<rd_idx, empty, Held, Taken>>
      <3>1. CASE \E r \in Reqs, n \in 1 .. MaxParts : RxFirst(r, n)
        BY <3>1 DEF RxFirst, Held, Taken, ring, wk
      <3>2. CASE \E r \in Reqs : RxNext(r)
        BY <3>2 DEF RxNext, Held, Taken, ring, wk
      <3>3. CASE RxPut \/ RxFind \/ RxPost
        BY <3>3 DEF RxPut, RxFind, RxPost, Held, Taken, ring, wk
      <3>4. CASE RxCopy
        <4>1. /\ UNCHANGED <<rd_idx, empty, wk_pc>>
              /\ rx_pc = "copy" /\ rx_pc' \in {"post", "recv"}
          BY <3>4, Zenon DEF RxCopy, wk
        <4> QED
          BY <4>1 DEF Held, Taken
      <3>5. CASE Quiet /\ ~ (WkTake \/ WkPostEmpty)
        BY <3>5
        DEF Quiet, Worker, WkWaitFull, WkSkip, WkNotInProgress, WkCorrupted, WkReady,
            WkExec, WkReply, WkFree, WkReset, WkComplete, RxNotFound, ClRecv, Rest, vars,
            ring, rx, wk, Held, Taken
      <3> QED
        BY <1>5, <3>1, <3>2, <3>3, <3>4, <3>5, Cases
    <2> QED
      BY <1>5, <2>1 DEF Unread
  <1> QED
    BY <1>1, <1>2, <1>3, <1>4, <1>5

\* What a step does to the parts that have arrived: only issued requests
\* count, and of those only the one whose part is copied.
LEMMA CompleteStep ==
    ASSUME IInv, [Next]_vars
    PROVE  /\ \A r \in Reqs : parts[r] > 0 => parts'[r] = parts[r]
           /\ \A r \in Reqs : parts[r] > 0 /\ ~ ((RxFill \/ RxCopy) /\ r = msg.seq) =>
                 Stored(r)' = Stored(r) /\ Complete(r)' = Complete(r)
           /\ \A r \in Reqs : (RxFill \/ RxCopy) /\ r = msg.seq => Stored(r)' = Stored(r) + 1
           /\ \A r \in Reqs : Stored(r) \in Nat /\ parts[r] \in Nat
  <1>t. /\ parts \in [Reqs -> 0 .. MaxParts] /\ MaxParts \in Nat /\ MsgOK
    BY PartsAssumption DEF IInv, TypeOK
  <1>1. \A r \in Reqs : parts[r] > 0 => parts'[r] = parts[r]
    <2>1. ASSUME NEW q \in Reqs, NEW n \in 1 .. MaxParts, RxFirst(q, n)
          PROVE  \A r \in Reqs : parts[r] > 0 => parts'[r] = parts[r]
      BY <2>1, <1>t DEF RxFirst
    <2>2. \/ parts' = parts
          \/ \E q \in Reqs, n \in 1 .. MaxParts : RxFirst(q, n)
      <3>1. RxCopy => parts' = parts
        BY Zenon DEF RxCopy, client
      <3> QED
        BY <3>1, Cases, QuietStep
        DEF RxNext, RxWaitEmpty, RxPut, RxFind, RxPost, RxFill, client
    <2> QED
      BY <2>1, <2>2
  <1>2. \A r \in Reqs : ~ ((RxFill \/ RxCopy) /\ r = msg.seq) => Stored(r)' = Stored(r)
    BY StoredStep
  <1>3. \A r \in Reqs : (RxFill \/ RxCopy) /\ r = msg.seq => Stored(r)' = Stored(r) + 1
    BY StoredStep
  <1> QED
    BY <1>1, <1>2, <1>3, <1>t, StoredStep DEF Complete

\* Who touches the answers.
LEMMA RepliesOrNot ==
    ASSUME [Next]_vars
    PROVE  \/ WkReply
           \/ \E r \in Reqs : ClRecv(r)
           \/ UNCHANGED <<responses, got>>
  <1>1. RxCopy => UNCHANGED <<responses, got>>
    BY Zenon DEF RxCopy, client
  <1> QED
    BY <1>1, Cases
    DEF Quiet, Worker, WkWaitFull, WkTake, WkPostEmpty, WkSkip, WkNotInProgress,
        WkCorrupted, WkReady, WkExec, WkFree, WkReset, WkComplete, RxNotFound, Rest, vars,
        client, RxFirst, RxNext, RxWaitEmpty, RxPut, RxFill, RxFind, RxPost

\* The answers given grow by the worker's reply only: a client that takes its
\* answer stays answered.
LEMMA AnsweredStep ==
    ASSUME IInv, ServingInv, [Next]_vars
    PROVE  /\ WkReply => answeredBar' = answeredBar \cup {reqs[slot].seq}
           /\ ~ WkReply => answeredBar' = answeredBar
  <1>n. NoReq \notin Reqs /\ got \in [Reqs -> Reqs \cup {NoReq}]
    BY ReqsAssumption DEF IInv, TypeOK
  <1>a. /\ \A m \in responses : m.of = m.seq /\ m.seq \in Reqs
    BY DEF ServingInv, AnswerInv, OwnAnswer, answeredBar
  <1>1. ASSUME WkReply
        PROVE  answeredBar' = answeredBar \cup {reqs[slot].seq}
    <2> DEFINE answer == [seq |-> reqs[slot].seq, of |-> of]
    <2>1. responses' = responses \cup {answer} /\ got' = got
      BY <1>1 DEF WkReply, client
    <2>2. \A q : q \in {m.seq : m \in responses'}
                    <=> q \in {m.seq : m \in responses} \/ q = answer.seq
      BY <2>1
    <2>3. answer.seq = reqs[slot].seq
      OBVIOUS
    <2> HIDE DEF answer
    <2> QED
      BY <2>1, <2>2, <2>3 DEF answeredBar
  <1>2. ASSUME NEW r \in Reqs, ClRecv(r)
        PROVE  answeredBar' = answeredBar
    <2>1. PICK m \in responses : /\ m.seq = r
                                 /\ got' = [got EXCEPT ![r] = m.of]
                                 /\ responses' = responses \ {m}
      BY <1>2 DEF ClRecv
    <2>2. m.of = r /\ r # NoReq
      BY <2>1, <1>a, <1>n
    <2>3. \A q \in Reqs : got'[q] # NoReq <=> q = r \/ got[q] # NoReq
      BY <2>1, <2>2, <1>n
    <2> QED
      BY <2>1, <2>3 DEF answeredBar
  <1>3. CASE UNCHANGED <<responses, got>>
    <2>1. answeredBar' = answeredBar
      BY <1>3 DEF answeredBar
    <2> QED
      BY <1>1, <2>1
  <1> QED
    BY <1>1, <1>2, <1>3, RepliesOrNot

\* The worker's writes leave all slots but its own, and their requests.
LEMMA WorkerWrites ==
    ASSUME IInv, WkFree \/ WkReset \/ WkComplete
    PROVE  /\ \A i \in Slots : reqs'[i].seq = reqs[i].seq
           /\ \A i \in Slots : i # slot => reqs'[i] = reqs[i]
           /\ UNCHANGED <<wr_idx, rd_idx, rx_pc, msg, at, slot, of, parts, sent, responses, got, up>>
           /\ wk_pc \in {"free", "reset", "complete"}
           /\ wk_pc' \in {"wait", "reset", "complete"}
  <1>1. reqs \in [Slots -> Slot] /\ slot \in Slots
    BY DEF IInv, TypeOK
  <1>2. \E q, st, d, n, o : /\ reqs' = [reqs EXCEPT ![slot] = AsSlot(q, st, d, n, o)]
                            /\ q = reqs[slot].seq
    BY Zenon DEF WkFree, WkReset, WkComplete
  <1>3. /\ \A i \in Slots : reqs'[i].seq = reqs[i].seq
        /\ \A i \in Slots : i # slot => reqs'[i] = reqs[i]
    BY <1>1, <1>2 DEF AsSlot
  <1> QED
    BY <1>3 DEF WkFree, WkReset, WkComplete, rx, client

\* Steps that leave the slots alone.
Still ==
    /\ reqs' = reqs /\ wr_idx' = wr_idx
    /\ ~ (RxFill \/ RxCopy)
    /\ rx_pc' = "fill" <=> rx_pc = "fill"
    /\ rx_pc = "fill" => msg' = msg

LEMMA StillSteps ==
    ASSUME [Next]_vars
    PROVE  RxPut \/ RxFill \/ RxCopy \/ WkFree \/ WkReset \/ WkComplete \/ Still
  <1>1. CASE \E r \in Reqs, n \in 1 .. MaxParts : RxFirst(r, n)
    BY <1>1 DEF RxFirst, Still, ring, RxFill, RxCopy
  <1>2. CASE \E r \in Reqs : RxNext(r)
    BY <1>2 DEF RxNext, Still, ring, RxFill, RxCopy
  <1>3. CASE RxWaitEmpty \/ RxFind \/ RxPost
    BY <1>3 DEF RxWaitEmpty, RxFind, RxPost, Still, ring, RxFill, RxCopy
  <1>4. CASE Quiet /\ ~ (WkFree \/ WkReset \/ WkComplete \/ RxFill \/ RxCopy)
    BY <1>4 DEF Quiet, Worker, WkWaitFull, WkTake, WkPostEmpty, WkSkip, WkNotInProgress,
        WkCorrupted, WkReady, WkExec, WkReply, RxNotFound, ClRecv, Rest, vars, ring, rx, Still
  <1> QED
    BY <1>1, <1>2, <1>3, <1>4, Cases

\* The sequence number in a slot changes only when a first part is put there.
LEMMA SeqKept ==
    ASSUME IInv, [Next]_vars, NEW i \in Slots, ~ (RxPut /\ i = wr_idx)
    PROVE  reqs'[i].seq = reqs[i].seq
  <1>t. reqs \in [Slots -> Slot] /\ wr_idx \in Slots /\ at \in Slots
    BY DEF IInv, TypeOK
  <1>1. CASE RxPut
    BY <1>1, <1>t DEF RxPut, Put, AsSlot
  <1>2. CASE RxFill
    BY <1>2, <1>t DEF RxFill, Filled, AsSlot
  <1>3. CASE RxCopy
    BY <1>3, <1>t DEF RxCopy, AsSlot
  <1>4. CASE WkFree \/ WkReset \/ WkComplete
    BY <1>4, WorkerWrites
  <1>5. CASE Still
    BY <1>5 DEF Still
  <1> QED
    BY <1>1, <1>2, <1>3, <1>4, <1>5, StillSteps

\* A request whose parts have all arrived stays complete.
LEMMA CompleteKept ==
    ASSUME FewClients, IInv, ServingInv, [Next]_vars,
           NEW r \in Reqs, parts[r] > 0, Complete(r)
    PROVE  Complete(r)' /\ parts'[r] = parts[r] /\ Stored(r)' = Stored(r)
  <1>1. RxFill \/ RxCopy => ~ Complete(msg.seq)
    <2>1. RxFill \/ RxCopy => rx_pc \in {"fill", "copy"}
      BY Zenon DEF RxFill, RxCopy
    <2> QED
      BY <2>1, Apart
  <1> QED
    BY <1>1, CompleteStep

\* The slot the receiver copies a part to is ready once the request is
\* complete, and in progress until then.
LEMMA CopyStep ==
    ASSUME FewClients, IInv, ServingInv, [Next]_vars, RxCopy
    PROVE  /\ at \in Slots /\ reqs[at].seq = msg.seq /\ msg.seq \in Reqs
           /\ reqs'[at].data = msg.seq /\ reqs'[at].seq = msg.seq
           /\ reqs[at].data = msg.seq /\ reqs'[at].data_size = parts[msg.seq]
           /\ reqs[at].data_offset + 1 = reqs[at].data_size <=>
                 \A r \in Reqs : r = msg.seq => Complete(r)'
           /\ reqs[at].data_offset < reqs[at].data_size
           /\ reqs'[at].req_status =
                 IF reqs[at].data_offset + 1 = reqs[at].data_size
                 THEN "READY" ELSE "IN_PROGRESS"
           /\ \A j \in Slots : j # at => reqs'[j] = reqs[j]
  <1>t. /\ TypeOK /\ MsgOK /\ SeqOK /\ DataInv /\ SlotOK /\ reqs \in [Slots -> Slot]
    BY DEF IInv, ServingInv, TypeOK
  <1>q. \A r \in Reqs : Stored(r) \in Nat /\ parts[r] \in Nat
    BY CompleteStep
  <1> DEFINE done == reqs[at].data_offset + 1 = reqs[at].data_size
  <1>1. /\ UNCHANGED <<parts, sent>> /\ rx_pc = "copy"
        /\ reqs'[at].seq = reqs[at].seq /\ reqs'[at].data = reqs[at].data
        /\ reqs'[at].data_size = reqs[at].data_size
        /\ reqs'[at].req_status = IF done THEN "READY" ELSE reqs[at].req_status
        /\ \A j \in Slots : j # at => reqs'[j] = reqs[j]
    BY <1>t DEF RxCopy, AsSlot, client, TypeOK
  <1>2. /\ reqs[at].seq = msg.seq /\ msg.seq \in Reqs /\ parts[msg.seq] > 0 /\ at \in Slots
        /\ Stored(msg.seq) > 0 /\ ~ Complete(msg.seq) /\ Stored(msg.seq) < parts[msg.seq]
        /\ parts[msg.seq] # 1
    <2>1. /\ sent[msg.seq] > 1 /\ sent[msg.seq] \in Nat /\ sent[msg.seq] <= parts[msg.seq]
          /\ parts[msg.seq] \in Nat
      BY <1>t, <1>1, PartsAssumption DEF MsgOK, TypeOK
    <2> QED
      BY <1>1, <2>1, Apart
  <1>3. /\ reqs[at].data = msg.seq /\ reqs[at].data_size = parts[msg.seq]
        /\ reqs[at].req_status = "IN_PROGRESS"
    BY <1>t, <1>1, <1>2 DEF DataInv
  <1>4. reqs[at].data_offset = Stored(msg.seq)
    <2>1. reqs[at].data_size # 0
      BY <1>2, <1>3
    <2> QED
      BY <1>t, <1>1, <1>2, <2>1 DEF SlotOK
  <1>5. \A r \in Reqs : r = msg.seq => Stored(r)' = Stored(r) + 1
    BY CompleteStep
  <1>6. done <=> \A r \in Reqs : r = msg.seq => Complete(r)'
    BY <1>1, <1>2, <1>3, <1>4, <1>5 DEF Complete
  <1>7. reqs[at].data_offset < reqs[at].data_size
    BY <1>2, <1>3, <1>4
  <1> HIDE DEF done
  <1>8. reqs'[at].req_status = IF done THEN "READY" ELSE "IN_PROGRESS"
    BY <1>1, <1>3
  <1> QED
    BY <1>1, <1>2, <1>3, <1>6, <1>7, <1>8 DEF done
-----------------------------------------------------------------------------
\* Slots of incomplete requests keep their status and data.
LEMMA DataStep ==
    ASSUME FewClients, IInv, ServingInv, [Next]_vars
    PROVE  DataInv'
  <1>t. /\ TypeOK /\ MsgOK /\ SeqOK /\ DataInv /\ reqs \in [Slots -> Slot] /\ wr_idx \in Slots
        /\ TypeOK' /\ SlotOK
    BY TypeStep DEF IInv, ServingInv, TypeOK
  <1>p. \A i \in Slots : reqs[i].seq \in Reqs => parts[reqs[i].seq] > 0
    BY <1>t, CompleteStep DEF SeqOK
  <1>q. \A r \in Reqs : Stored(r) \in Nat /\ parts[r] \in Nat
    BY CompleteStep
  <1>1. CASE Still
    <2>1. \A r \in Reqs : parts[r] > 0 =>
             parts'[r] = parts[r] /\ Complete(r)' = Complete(r)
      BY <1>1, CompleteStep DEF Still
    <2>2. rx_pc = "fill" => msg.seq \in Reqs /\ parts[msg.seq] > 0
      BY <1>t DEF MsgOK
    <2> QED
      BY <1>1, <1>t, <1>p, <2>1, <2>2 DEF DataInv, Still
  <1>2. CASE RxPut
    <2>1. /\ UNCHANGED <<parts, wr_idx, msg>> /\ rx_pc = "put" /\ rx_pc' = "fill"
          /\ \A j \in Slots : j # wr_idx => reqs'[j] = reqs[j]
          /\ reqs'[wr_idx].req_status = IF msg.data_size = 1 THEN "READY" ELSE "IN_PROGRESS"
      BY <1>2, <1>t DEF RxPut, Put, client, AsSlot
    <2>2. \A r \in Reqs : parts[r] > 0 => Complete(r)' = Complete(r)
      BY <2>1, CompleteStep DEF RxFill, RxCopy
    <2>3. msg.data_size = parts[msg.seq]
      BY <1>t, <2>1 DEF MsgOK
    <2> QED
      BY <1>t, <1>p, <2>1, <2>2, <2>3 DEF DataInv
  <1>3. CASE RxFill
    <2>1. /\ UNCHANGED <<parts, sent>> /\ rx_pc = "fill" /\ rx_pc' # "fill"
          /\ reqs'[wr_idx].seq = reqs[wr_idx].seq
          /\ reqs'[wr_idx].data_size = msg.data_size /\ reqs'[wr_idx].data = msg.seq
          /\ reqs'[wr_idx].req_status = reqs[wr_idx].req_status
          /\ \A j \in Slots : j # wr_idx => reqs'[j] = reqs[j]
      BY <1>3, <1>t DEF RxFill, Filled, AsSlot, client
    <2>2. /\ reqs[wr_idx].seq = msg.seq /\ msg.seq \in Reqs /\ Stored(msg.seq) = 0
          /\ msg.data_size = parts[msg.seq]
      BY <1>t, <2>1 DEF MsgOK, Stored
    <2>3. \A j \in Slots : j # wr_idx => reqs[j].seq # msg.seq
      BY <1>t, <2>2 DEF SeqOK
    <2>4. \A r \in Reqs : parts[r] > 0 /\ r # msg.seq => Complete(r)' = Complete(r)
      BY CompleteStep
    <2>5. \A r \in Reqs : r = msg.seq => Stored(r)' = 1
      BY <1>3, <2>2, CompleteStep
    <2> QED
      BY <1>t, <1>p, <2>1, <2>2, <2>3, <2>4, <2>5 DEF DataInv, Complete
  <1>4. CASE RxCopy
    <2>1. UNCHANGED <<parts, sent, wr_idx>> /\ rx_pc' # "fill" /\ rx_pc = "copy"
      BY <1>4, Zenon DEF RxCopy, client
    <2>2. /\ at \in Slots /\ reqs[at].seq = msg.seq /\ msg.seq \in Reqs
          /\ reqs'[at].data = msg.seq /\ reqs'[at].seq = msg.seq
          /\ reqs'[at].data_size = parts[msg.seq]
          /\ \/ reqs'[at].req_status = "IN_PROGRESS"
             \/ \A r \in Reqs : r = msg.seq => Complete(r)'
          /\ \A j \in Slots : j # at => reqs'[j] = reqs[j]
      BY <1>4, CopyStep
    <2>3. \A j \in Slots : j # at => reqs[j].seq # msg.seq
      BY <1>t, <2>2 DEF SeqOK
    <2>4. \A r \in Reqs : parts[r] > 0 /\ r # msg.seq => Complete(r)' = Complete(r)
      BY CompleteStep
    <2> QED
      BY <1>t, <1>p, <2>1, <2>2, <2>3, <2>4 DEF DataInv
  <1>5. CASE WkFree \/ WkReset \/ WkComplete
    <2>1. /\ \A i \in Slots : reqs'[i].seq = reqs[i].seq
          /\ \A i \in Slots : i # slot => reqs'[i] = reqs[i]
          /\ UNCHANGED <<wr_idx, rx_pc, msg, parts, sent>>
          /\ wk_pc \in {"free", "reset", "complete"}
      BY <1>5, WorkerWrites
    <2>2. \A r \in Reqs : Complete(r)' = Complete(r)
      BY <2>1 DEF Complete, Stored
    <2>3. Complete(reqs[slot].seq) /\ AtWork
      BY <2>1 DEF ServingInv, WorkerInv, InService, AtWork
    <2>4. rx_pc = "fill" => slot # wr_idx
      BY <2>3, Apart DEF Writing
    <2> QED
      BY <1>t, <2>1, <2>2, <2>3, <2>4 DEF DataInv
  <1> QED
    BY <1>1, <1>2, <1>3, <1>4, <1>5, StillSteps

\* A slot that nobody writes to, except for another part, stays serveable.
LEMMA ServeableStep ==
    ASSUME FewClients, IInv, ServingInv, [Next]_vars,
           NEW i \in Slots, Serveable(i), Writing => i # wr_idx,
           i = slot => wk_pc \notin {"free", "reset", "complete"}
    PROVE  Serveable(i)' /\ reqs'[i].seq = reqs[i].seq
  <1>t. /\ SeqOK /\ reqs \in [Slots -> Slot]
    BY DEF IInv, TypeOK
  <1> DEFINE r == reqs[i].seq
  <1>1. reqs'[i].seq = r
    <2>1. RxPut => Writing
      BY DEF RxPut, Writing
    <2> QED
      BY <2>1, SeqKept
  <1>2. r \in Reqs /\ Stored(r) > 0 /\ parts[r] > 0 /\ Stored(r) \in Nat
    BY <1>t, CompleteStep DEF SeqOK, Serveable
  <1>3. \A q \in Reqs : q = r => Stored(q)' > 0
    BY <1>2, CompleteStep
  <1>4. CASE Complete(r)
    <2>1. ~ (RxCopy /\ i = at)
      <3>1. RxCopy => rx_pc = "copy"
        BY Zenon DEF RxCopy
      <3> QED
        BY <1>4, <3>1, Apart
    <2>2. reqs'[i] = reqs[i]
      <3>1. RxPut \/ RxFill => i # wr_idx
        BY DEF RxPut, RxFill, Writing
      <3>2. WkFree \/ WkReset \/ WkComplete => i # slot
        BY DEF WkFree, WkReset, WkComplete
      <3>3. RxPut \/ RxFill \/ RxCopy => reqs'[i] = reqs[i]
        BY <1>t, <2>1, <3>1, CopyStep DEF RxPut, Put, RxFill, Filled
      <3>4. WkFree \/ WkReset \/ WkComplete => reqs'[i] = reqs[i]
        BY <3>2, WorkerWrites
      <3> QED
        BY <3>3, <3>4, StillSteps DEF Still
    <2> QED
      BY <1>1, <1>2, <1>3, <1>4, <2>2 DEF Serveable
  <1>5. CASE ~ Complete(r)
    <2>1. RxFill => r # msg.seq
      BY <1>2, Apart DEF RxFill
    <2>2. ASSUME RxCopy, r = msg.seq
          PROVE  /\ reqs'[i].data = r
                 /\ reqs'[i].req_status = "READY" \/ \A q \in Reqs : q = r => ~ Complete(q)'
      <3>1. i = at
        BY <1>t, <1>2, <2>2, CopyStep DEF SeqOK
      <3> QED
        BY <1>2, <2>2, <3>1, CopyStep
    <2>3. ASSUME ~ (RxCopy /\ r = msg.seq)
          PROVE  \A q \in Reqs : q = r => ~ Complete(q)'
      BY <1>2, <1>5, <2>1, <2>3, CompleteStep
    <2> QED
      BY <1>1, <1>2, <1>3, <2>2, <2>3 DEF Serveable
  <1> QED
    BY <1>1, <1>4, <1>5
-----------------------------------------------------------------------------
\* What a step does to the places of the unread slots.
LEMMA PlaceStep ==
    ASSUME FewClients, IInv, ServingInv, [Next]_vars
    PROVE  /\ RxFill => /\ \A k \in {Unread + 1} : UnreadAt(k)' = wr_idx
                        /\ \A k \in 1 .. Unread : UnreadAt(k)' = UnreadAt(k)
           /\ WkTake => /\ UnreadAt(1) = rd_idx
                        /\ \A k \in 1 .. Unread' : UnreadAt(k)' = UnreadAt(k + 1)
           /\ ~ (RxFill \/ WkTake) => \A k \in 1 .. Unread' : UnreadAt(k)' = UnreadAt(k)
  <1>t. /\ TypeOK /\ RingSync /\ Unread \in Nat /\ rd_idx \in Slots /\ wr_idx \in Slots
        /\ Size \in Nat \ {0}
    BY SizeAssumption DEF IInv, TypeOK, RingSync
  <1>i. TypeOK' /\ RingSync'
    BY TypeStep, TokenStep
  <1>1. ASSUME RxFill
        PROVE  /\ \A k \in {Unread + 1} : UnreadAt(k)' = wr_idx
               /\ \A k \in 1 .. Unread : UnreadAt(k)' = UnreadAt(k)
    <2>1. rd_idx' = rd_idx /\ Unread' = Unread + 1
      BY <1>1, UnreadStep
    <2>2. wr_idx = (rd_idx + Unread) % Size
      BY <1>t DEF RingSync
    <2>3. rd_idx + (Unread + 1) - 1 = rd_idx + Unread
      BY <1>t DEF Slots
    <2>4. (rd_idx + (Unread + 1) - 1) % Size = wr_idx
      BY <2>2, <2>3
    <2> QED
      BY <2>1, <2>4 DEF UnreadAt
  <1>2. ASSUME WkTake
        PROVE  /\ UnreadAt(1) = rd_idx
               /\ \A k \in 1 .. Unread' : UnreadAt(k)' = UnreadAt(k + 1)
    <2>1. rd_idx' = Succ(rd_idx) /\ Unread' = Unread - 1 /\ Unread > 0
      BY <1>2, UnreadStep
    <2>2. UnreadAt(1) = rd_idx
      BY <1>t, <2>1, UnreadPlaces DEF Slots
    <2>3. rd_idx' = IF rd_idx + 1 = Size THEN 0 ELSE rd_idx + 1
      BY <1>t, <2>1, SuccWraps
    <2>4. ASSUME NEW k \in 1 .. Unread'
          PROVE  UnreadAt(k)' = UnreadAt(k + 1)
      <3>1. UnreadAt(k)' = IF rd_idx' + k - 1 < Size THEN rd_idx' + k - 1
                                                    ELSE rd_idx' + k - 1 - Size
        <4>1. /\ rd_idx' \in Slots /\ rd_idx' \in Nat /\ k \in Nat /\ k - 1 \in 0 .. Size
              /\ rd_idx' + k - 1 = rd_idx' + (k - 1)
          BY <1>t, <1>i, <2>1 DEF TypeOK, RingSync, Slots
        <4>2. \A i \in Slots, u \in 0 .. Size :
                 (i + u) % Size = IF i + u < Size THEN i + u ELSE i + u - Size
          BY RingIndex
        <4>3. UnreadAt(k)' = (rd_idx' + (k - 1)) % Size
          BY <4>1 DEF UnreadAt
        <4> QED
          BY <4>1, <4>2, <4>3
      <3>2. k + 1 \in 1 .. Unread /\ k \in Nat /\ k <= Unread - 1
        BY <1>t, <2>1
      <3>3. UnreadAt(k + 1) = IF rd_idx + (k + 1) - 1 < Size THEN rd_idx + (k + 1) - 1
                                                    ELSE rd_idx + (k + 1) - 1 - Size
        BY <1>t, <3>2, UnreadPlaces
      <3>4. Unread <= Size
        BY <1>t DEF RingSync
      <3> QED
        BY <1>t, <2>3, <3>1, <3>2, <3>3, <3>4 DEF Slots
    <2> QED
      BY <2>2, <2>4
  <1>3. ASSUME ~ (RxFill \/ WkTake)
        PROVE  \A k \in 1 .. Unread' : UnreadAt(k)' = UnreadAt(k)
    <2>1. rd_idx' = rd_idx
      BY <1>3, UnreadStep
    <2> QED
      BY <2>1 DEF UnreadAt
  <1> QED
    BY <1>1, <1>2, <1>3

\* Unread slots stay serveable and unanswered.
LEMMA QueueStep ==
    ASSUME FewClients, IInv, ServingInv, [Next]_vars
    PROVE  QueueInv'
  <1>t. /\ TypeOK /\ SeqOK /\ MsgOK /\ DataInv /\ QueueInv /\ AnswerInv /\ WorkerInv /\ Unread \in Nat
        /\ reqs \in [Slots -> Slot] /\ slot \in Slots /\ wr_idx \in Slots
    BY DEF IInv, ServingInv, TypeOK, RingSync
  <1>1. ASSUME NEW k \in 1 .. Unread, NEW j \in 1 .. Unread', UnreadAt(j)' = UnreadAt(k)
        PROVE  Serveable(UnreadAt(j))' /\ reqs'[UnreadAt(j)'].seq \notin answeredBar'
    <2>0. PICK i \in Slots : i = UnreadAt(k)
      BY Apart
    <2>1. /\ i \in Slots /\ i # wr_idx /\ Serveable(i) /\ reqs[i].seq \notin answeredBar
          /\ AtWork => i # slot
      BY <1>t, <2>0, Apart DEF QueueInv
    <2>2. wk_pc \in {"free", "reset", "complete"} => i # slot
      BY <2>1 DEF AtWork
    <2>3. Serveable(i)' /\ reqs'[i].seq = reqs[i].seq
      BY <2>1, <2>2, ServeableStep
    <2>4. reqs[i].seq \notin answeredBar'
      <3>1. WkReply => AtWork /\ InService
        BY DEF WkReply, AtWork, InService
      <3>2. WkReply => reqs[slot].seq # reqs[i].seq
        BY <1>t, <2>1, <3>1 DEF SeqOK, Serveable
      <3> QED
        BY <2>1, <3>2, AnsweredStep
    <2> QED
      BY <1>1, <2>0, <2>3, <2>4 DEF Serveable
  <1>2. ASSUME RxFill, NEW j \in 1 .. Unread', UnreadAt(j)' = wr_idx
        PROVE  Serveable(UnreadAt(j))' /\ reqs'[UnreadAt(j)'].seq \notin answeredBar'
    <2>1. /\ rx_pc = "fill" /\ parts' = parts
          /\ reqs'[wr_idx].seq = reqs[wr_idx].seq /\ reqs'[wr_idx].data = msg.seq
          /\ reqs'[wr_idx].req_status = reqs[wr_idx].req_status
      BY <1>2, <1>t DEF RxFill, Filled, AsSlot, client
    <2>2. /\ reqs[wr_idx].seq = msg.seq /\ msg.seq \in Reqs /\ Stored(msg.seq) = 0
          /\ ~ Complete(msg.seq) /\ parts[msg.seq] > 0 /\ parts[msg.seq] \in Nat
      BY <1>t, <2>1, Apart, CompleteStep DEF MsgOK
    <2>3. \A r \in Reqs : r = msg.seq => Stored(r)' = 1
      BY <1>2, <2>2, CompleteStep
    <2>4. \A r \in Reqs : r = msg.seq /\ Complete(r)' => parts[msg.seq] = 1
      BY <2>1, <2>3 DEF Complete
    <2>5. parts[msg.seq] = 1 => reqs[wr_idx].req_status = "READY"
      BY <1>t, <2>1 DEF DataInv
    <2>6. \A r \in Reqs : r = reqs'[wr_idx].seq =>
              Stored(r)' > 0 /\ (Complete(r)' => reqs'[wr_idx].req_status = "READY")
      BY <2>1, <2>2, <2>3, <2>4, <2>5
    <2>7. msg.seq \notin answeredBar'
      <3>1. ~ WkReply \/ reqs[slot].seq # msg.seq
        BY <2>2, <1>t DEF WkReply, WorkerInv, InService
      <3> QED
        BY <1>t, <2>2, <3>1, AnsweredStep DEF AnswerInv
    <2> QED
      BY <1>2, <2>1, <2>2, <2>6, <2>7 DEF Serveable
  <1> SUFFICES ASSUME NEW j \in 1 .. Unread'
               PROVE  Serveable(UnreadAt(j))' /\ reqs'[UnreadAt(j)'].seq \notin answeredBar'
    BY DEF QueueInv
  <1>3. CASE RxFill
    <2>1. Unread' = Unread + 1
      BY <1>3, UnreadStep
    <2>2. CASE j \in 1 .. Unread
      BY <1>1, <1>3, <2>2, PlaceStep
    <2>3. CASE j = Unread + 1
      <3>1. UnreadAt(j)' = wr_idx
        BY <1>3, <2>1, <2>3, PlaceStep
      <3> QED
        BY <1>2, <1>3, <3>1
    <2> QED
      BY <1>t, <2>1, <2>2, <2>3
  <1>4. CASE WkTake
    <2>1. j + 1 \in 1 .. Unread
      BY <1>t, <1>4, UnreadStep
    <2>2. UnreadAt(j)' = UnreadAt(j + 1)
      BY <1>4, PlaceStep
    <2> QED
      BY <1>1, <2>1, <2>2
  <1>5. CASE ~ (RxFill \/ WkTake)
    <2>1. j \in 1 .. Unread /\ UnreadAt(j)' = UnreadAt(j)
      BY <1>5, UnreadStep, PlaceStep
    <2> QED
      BY <1>1, <2>1
  <1> QED
    BY <1>3, <1>4, <1>5
-----------------------------------------------------------------------------
\* Only the worker moves the worker.
LEMMA OthersStep ==
    ASSUME [Next]_vars, ~ Worker
    PROVE  UNCHANGED <<wk_pc, slot, of, rd_idx>>
  <1>1. RxCopy => UNCHANGED <<wk_pc, slot, of, rd_idx>>
    BY Zenon DEF RxCopy, wk
  <1>2. ~ RxCopy => UNCHANGED <<wk_pc, slot, of, rd_idx>>
    BY DEF Next, Receiver, RxFirst, RxNext, RxWaitEmpty, RxPut, RxFill, RxFind, RxNotFound,
           RxPost, ClRecv, Rest, vars, wk, ring
  <1> QED
    BY <1>1, <1>2

\* The worker's slot keeps what the worker knows of it.
LEMMA WorkerStep ==
    ASSUME FewClients, IInv, ServingInv, [Next]_vars
    PROVE  WorkerInv'
  <1>t. /\ TypeOK /\ SeqOK /\ MsgOK /\ DataInv /\ QueueInv /\ WorkerInv /\ Unread \in Nat
        /\ reqs \in [Slots -> Slot] /\ slot \in Slots /\ wr_idx \in Slots /\ rd_idx \in Slots
    BY DEF IInv, ServingInv, TypeOK, RingSync
  \* Where the worker stands, its slot's request stays complete.
  <1>k. ASSUME InService \/ wk_pc = "ready"
        PROVE  /\ reqs'[slot].seq = reqs[slot].seq /\ reqs[slot].seq \in Reqs
               /\ \A r \in Reqs : r = reqs[slot].seq => Complete(r)'
    <2>1. reqs[slot].seq \in Reqs /\ Complete(reqs[slot].seq) /\ parts[reqs[slot].seq] > 0
      BY <1>t, <1>k, CompleteStep DEF WorkerInv, SeqOK
    <2>2. AtWork
      BY <1>k DEF InService, AtWork
    <2>3. reqs'[slot].seq = reqs[slot].seq
      <3>1. RxPut => Writing
        BY DEF RxPut, Writing
      <3> QED
        BY <1>t, <2>2, <3>1, Apart, SeqKept
    <2> QED
      BY <2>1, <2>3, CompleteKept
  \* The worker's slot stays serveable until the worker has served it.
  <1>s. ASSUME wk_pc \in {"post", "progress"}
        PROVE  Serveable(slot) /\ \A i \in Slots : i = slot => Serveable(i)' /\ reqs'[i].seq = reqs[i].seq
    <2>1. AtWork /\ Serveable(slot)
      BY <1>s, <1>t DEF AtWork, WorkerInv
    <2> QED
      BY <1>s, <1>t, <2>1, Apart, ServeableStep
  \* A slot past the status checks keeps its status and data.
  <1>r. ASSUME wk_pc \in {"ready", "exec"}
        PROVE  reqs'[slot].req_status = "READY" /\ reqs'[slot].data = reqs[slot].seq
    <2>1. /\ reqs[slot].req_status = "READY" /\ reqs[slot].data = reqs[slot].seq
          /\ reqs[slot].seq \in Reqs /\ Complete(reqs[slot].seq) /\ AtWork
      BY <1>r, <1>t DEF WorkerInv, InService, AtWork
    <2>2. Serveable(slot)
      <3>1. parts[reqs[slot].seq] > 0 /\ Stored(reqs[slot].seq) > 0
        BY <2>1, <1>t, CompleteStep DEF SeqOK, Complete
      <3> QED
        BY <2>1, <3>1 DEF Serveable
    <2>3. \A i \in Slots : i = slot => Serveable(i)' /\ reqs'[i].seq = reqs[i].seq
      BY <1>r, <1>t, <2>1, <2>2, Apart, ServeableStep
    <2>4. \A r \in Reqs : r = reqs[slot].seq => Complete(r)'
      BY <1>k, <1>r DEF InService
    <2>5. \A i \in Slots : i = slot => reqs'[i].req_status = "READY" /\ reqs'[i].data = reqs[i].seq
      BY <2>1, <2>3, <2>4 DEF Serveable
    <2> QED
      BY <1>t, <2>5
  <1>1. CASE UNCHANGED <<wk_pc, slot, of, rd_idx>>
    <2>1. (AtWork => rd_idx = Succ(slot))'
      BY <1>1, <1>t DEF AtWork, WorkerInv, Succ
    <2>2. (wk_pc \in {"post", "progress"} => Serveable(slot))'
      BY <1>1, <1>s, <1>t DEF Serveable
    <2>3. (InService \/ wk_pc = "ready" => reqs[slot].seq \in Reqs /\ Complete(reqs[slot].seq))'
      BY <1>1, <1>k DEF InService
    <2>4. (wk_pc \in {"ready", "exec"} =>
             reqs[slot].req_status = "READY" /\ reqs[slot].data = reqs[slot].seq)'
      BY <1>1, <1>r, <1>k DEF InService
    <2>5. (wk_pc = "reply" => of = reqs[slot].seq)'
      BY <1>1, <1>t, <1>k DEF InService, WorkerInv
    <2> QED
      BY <2>1, <2>2, <2>3, <2>4, <2>5 DEF WorkerInv
  <1>2. CASE WkWaitFull \/ WkSkip
    BY <1>2 DEF WkWaitFull, WkSkip, WorkerInv, AtWork, InService
  <1>3. CASE WkTake
    <2>1. /\ slot' = rd_idx /\ rd_idx' = Succ(rd_idx) /\ wk_pc = "take" /\ wk_pc' = "post"
          /\ Unread > 0 /\ UnreadAt(1) = rd_idx
      BY <1>3, UnreadStep, PlaceStep DEF WkTake
    <2>2. Serveable(rd_idx) /\ rd_idx # wr_idx
      BY <1>t, <2>1, Apart DEF QueueInv
    <2>3. \A i \in Slots : i = rd_idx => Serveable(i)'
      BY <1>t, <2>1, <2>2, ServeableStep
    <2>4. Serveable(slot)'
      BY <1>t, <2>1, <2>3 DEF Serveable
    <2> QED
      BY <2>1, <2>4 DEF WorkerInv, AtWork, InService, Succ
  <1>4. CASE WkPostEmpty
    <2>1. wk_pc = "post" /\ wk_pc' = "progress" /\ UNCHANGED <<slot, rd_idx>> /\ AtWork
      BY <1>4 DEF WkPostEmpty, AtWork
    <2>2. Serveable(slot)'
      BY <1>t, <1>s, <2>1 DEF Serveable
    <2> QED
      BY <1>t, <2>1, <2>2 DEF WorkerInv, AtWork, InService, Succ
  <1>5. CASE WkNotInProgress
    <2>1. /\ wk_pc = "progress" /\ wk_pc' = "ready" /\ AtWork /\ Serveable(slot)
          /\ reqs[slot].req_status # "IN_PROGRESS"
          /\ UNCHANGED <<reqs, slot, rd_idx, parts, sent, msg, rx_pc>>
      BY <1>5, <1>s DEF WkNotInProgress, AtWork, ring, rx, client
    <2>2. reqs[slot].seq \in Reqs /\ Complete(reqs[slot].seq)
      BY <1>t, <2>1, Apart DEF DataInv, Serveable, Writing
    <2>3. reqs[slot].req_status = "READY" /\ reqs[slot].data = reqs[slot].seq
      BY <2>1, <2>2 DEF Serveable
    <2>4. (reqs[slot].seq \in Reqs /\ Complete(reqs[slot].seq))'
      BY <2>1, <2>2 DEF Complete, Stored
    <2> QED
      BY <1>t, <2>1, <2>3, <2>4 DEF WorkerInv, AtWork, InService, Succ
  <1>6. CASE WkReady
    <2>1. /\ wk_pc = "ready" /\ wk_pc' = "exec" /\ AtWork
          /\ UNCHANGED <<slot, rd_idx>>
      BY <1>6 DEF WkReady, AtWork, ring
    <2> QED
      BY <1>t, <2>1, <1>k, <1>r DEF WorkerInv, AtWork, InService, Succ
  <1>7. CASE WkExec
    <2>1. /\ wk_pc = "exec" /\ wk_pc' = "reply" /\ AtWork /\ of' = reqs[slot].data
          /\ UNCHANGED <<slot, rd_idx, reqs>> /\ InService
      BY <1>7 DEF WkExec, AtWork, ring, InService
    <2> QED
      BY <1>t, <2>1, <1>k, <1>r DEF WorkerInv, AtWork, InService, Succ
  <1>8. CASE WkReply \/ WkFree \/ WkReset \/ WkComplete
    <2>1. /\ wk_pc \in {"reply", "free", "reset", "complete"} /\ InService /\ AtWork
          /\ wk_pc' \in {"free", "reset", "complete", "wait"}
          /\ UNCHANGED <<slot, rd_idx>>
      BY <1>8 DEF WkReply, WkFree, WkReset, WkComplete, AtWork, ring, InService
    <2> QED
      BY <1>t, <2>1, <1>k DEF WorkerInv, AtWork, InService, Succ
  <1> QED
    BY <1>1, <1>2, <1>3, <1>4, <1>5, <1>6, <1>7, <1>8, OthersStep
    DEF Worker, WkCorrupted, ring, wk
\* Between WkTake and the end of its turn the request being served is the same.
LEMMA ServingStep ==
    ASSUME FewClients, IInv, ServingInv, [Next]_vars, ~ WkTake
    PROVE  servingBar' = IF WkReply \/ WkSkip THEN NoReq ELSE servingBar
  <1>t. slot \in Slots /\ NoReq \notin Reqs
    BY ReqsAssumption DEF IInv, TypeOK
  <1>1. slot' = slot
    BY OthersStep
    DEF Worker, WkWaitFull, WkPostEmpty, WkSkip, WkNotInProgress, WkCorrupted, WkReady,
        WkExec, WkReply, WkFree, WkReset, WkComplete, wk
  <1>2. AtWork => reqs'[slot].seq = reqs[slot].seq
    <2>1. RxPut => Writing
      BY DEF RxPut, Writing
    <2> QED
      BY <1>t, <2>1, Apart, SeqKept
  <1>3. CASE WkReply \/ WkSkip
    BY <1>3 DEF WkReply, WkSkip, servingBar
  <1>4. CASE ~ (WkReply \/ WkSkip)
    <2>1. wk_pc' \in {"post", "progress", "ready", "exec", "reply"}
              <=> wk_pc \in {"post", "progress", "ready", "exec", "reply"}
      BY <1>4, OthersStep
      DEF Worker, WkWaitFull, WkPostEmpty, WkNotInProgress, WkCorrupted, WkReady,
          WkExec, WkFree, WkReset, WkComplete, wk
    <2> QED
      BY <1>1, <1>2, <1>4, <2>1 DEF servingBar, AtWork
  <1> QED
    BY <1>3, <1>4


\* No request is answered before it is complete, with another's data, or
\* while it is still to be answered.
LEMMA AnswerStep ==
    ASSUME FewClients, IInv, ServingInv, [Next]_vars
    PROVE  AnswerInv'
  <1>t. /\ TypeOK /\ SeqOK /\ QueueInv /\ WorkerInv /\ AnswerInv /\ OwnAnswer
        /\ reqs \in [Slots -> Slot] /\ slot \in Slots /\ rd_idx \in Slots
        /\ got \in [Reqs -> Reqs \cup {NoReq}] /\ NoReq \notin Reqs
    BY ReqsAssumption DEF IInv, ServingInv, TypeOK, AnswerInv
  <1>1. OwnAnswer'
    <2>1. CASE WkReply
      <3>1. /\ responses' = responses \cup {[seq |-> reqs[slot].seq, of |-> of]} /\ got' = got
            /\ of = reqs[slot].seq
        BY <2>1, <1>t DEF WkReply, client, WorkerInv
      <3> QED
        BY <1>t, <3>1 DEF OwnAnswer
    <2>2. ASSUME NEW r \in Reqs, ClRecv(r)
          PROVE  OwnAnswer'
      BY <1>t, <2>2 DEF ClRecv, OwnAnswer
    <2>3. CASE UNCHANGED <<responses, got>>
      BY <1>t, <2>3 DEF OwnAnswer
    <2> QED
      BY <2>1, <2>2, <2>3, RepliesOrNot
  <1>2. (\A r \in answeredBar : r \in Reqs /\ parts[r] > 0 /\ Complete(r))'
    <2>1. \A r \in answeredBar : r \in Reqs /\ parts'[r] > 0 /\ Complete(r)'
      BY <1>t, CompleteKept DEF AnswerInv
    <2>2. ASSUME WkReply
          PROVE  \A r \in {reqs[slot].seq} : r \in Reqs /\ parts'[r] > 0 /\ Complete(r)'
      <3>1. reqs[slot].seq \in Reqs /\ Complete(reqs[slot].seq) /\ parts[reqs[slot].seq] > 0
        BY <1>t, <2>2, CompleteStep DEF WkReply, WorkerInv, InService, SeqOK
      <3> QED
        BY <3>1, CompleteKept
    <2> QED
      BY <2>1, <2>2, AnsweredStep
  <1>n. NoReq \notin answeredBar'
    BY <1>2, <1>t
  <1>3. (servingBar \notin answeredBar)'
    <2>1. CASE WkTake
      <3>1. /\ slot' = rd_idx /\ reqs' = reqs /\ wk_pc' = "post" /\ UnreadAt(1) = rd_idx
            /\ Unread > 0 /\ Unread \in Nat /\ ~ WkReply
        BY <2>1, UnreadStep, PlaceStep, Apart DEF WkTake, WkReply
      <3> QED
        BY <3>1, <1>t, AnsweredStep DEF QueueInv, servingBar
    <2>2. CASE WkReply
      <3>1. servingBar' = NoReq
        BY <2>2 DEF WkReply, servingBar
      <3> QED
        BY <3>1, <1>n
    <2>3. CASE ~ (WkTake \/ WkReply)
      <3>1. servingBar' = servingBar \/ servingBar' = NoReq
        BY <2>3, ServingStep
      <3> QED
        BY <1>n, <1>t, <2>3, <3>1, AnsweredStep DEF AnswerInv
    <2> QED
      BY <2>1, <2>2, <2>3
  <1> QED
    BY <1>1, <1>2, <1>3 DEF AnswerInv

\* A client has one request at a time.
LEMMA ClientsStep ==
    ASSUME FewClients, IInv, ServingInv, [Next]_vars
    PROVE  ClientsInv'
  <1>t. /\ IsFiniteSet(Outstanding) /\ Cardinality(Outstanding) \in Nat
        /\ Cardinality(Outstanding) <= MaxOutstanding /\ MaxOutstanding \in Nat
        /\ parts \in [Reqs -> 0 .. MaxParts] /\ AnswerInv /\ NoReq \notin Reqs
        /\ got \in [Reqs -> Reqs \cup {NoReq}]
    BY FS_CardinalityType, ReqsAssumption DEF ServingInv, ClientsInv, IInv, TypeOK, FewClients
  <1>1. ASSUME NEW q \in Reqs, NEW n \in 1 .. MaxParts, RxFirst(q, n)
        PROVE  ClientsInv'
    <2>1. /\ parts' = [parts EXCEPT ![q] = n] /\ got' = got /\ parts[q] = 0
          /\ Cardinality(Outstanding) < MaxOutstanding
      BY <1>1 DEF RxFirst
    <2>2. Outstanding' \subseteq Outstanding \cup {q}
      BY <1>t, <2>1 DEF Outstanding
    <2>3. q \notin Outstanding
      BY <2>1 DEF Outstanding
    <2>4. /\ IsFiniteSet(Outstanding \cup {q})
          /\ Cardinality(Outstanding \cup {q}) = Cardinality(Outstanding) + 1
      BY <1>t, <2>3, FS_AddElement
    <2>5. /\ IsFiniteSet(Outstanding')
          /\ Cardinality(Outstanding') <= Cardinality(Outstanding \cup {q})
      BY <2>2, <2>4, FS_Subset
    <2>6. Cardinality(Outstanding') \in Nat
      BY <2>5, FS_CardinalityType
    <2> QED
      BY <1>t, <2>1, <2>4, <2>5, <2>6 DEF ClientsInv
  <1>2. CASE parts' = parts
    <2>1. \A r \in Reqs : got[r] # NoReq => got'[r] # NoReq
      <3>2. CASE UNCHANGED <<responses, got>>
        BY <3>2
      <3>3. ASSUME NEW q \in Reqs, ClRecv(q)
            PROVE  \A r \in Reqs : got[r] # NoReq => got'[r] # NoReq
        BY <1>t, <3>3 DEF ClRecv
      <3>4. WkReply => got' = got
        BY DEF WkReply, client
      <3> QED
        BY <3>2, <3>3, <3>4, RepliesOrNot
    <2>2. Outstanding' \subseteq Outstanding
      BY <1>2, <2>1 DEF Outstanding
    <2>3. /\ IsFiniteSet(Outstanding')
          /\ Cardinality(Outstanding') <= Cardinality(Outstanding)
      BY <1>t, <2>2, FS_Subset
    <2>4. Cardinality(Outstanding') \in Nat
      BY <2>3, FS_CardinalityType
    <2> QED
      BY <1>t, <2>3, <2>4 DEF ClientsInv
  <1>3. \/ parts' = parts
        \/ \E q \in Reqs, n \in 1 .. MaxParts : RxFirst(q, n)
    <2>1. RxCopy => parts' = parts
      BY Zenon DEF RxCopy, client
    <2> QED
      BY <2>1, Cases, QuietStep
      DEF RxNext, RxWaitEmpty, RxPut, RxFind, RxPost, RxFill, client
  <1> QED
    BY <1>1, <1>2, <1>3
-----------------------------------------------------------------------------
\* ServingInv holds initially.
LEMMA ServingInit == FewClients /\ Init => ServingInv
  <1> SUFFICES ASSUME FewClients, Init PROVE ServingInv
    OBVIOUS
  <1>n. NoReq \notin Reqs /\ \A i \in Slots : reqs[i].seq = NoReq
    BY ReqsAssumption DEF Init, EmptySlot, AsSlot
  <1>1. DataInv
    BY <1>n DEF Init, DataInv
  <1>2. QueueInv
    <2>1. Held = 0 /\ Taken = 0 /\ empty = Size
      BY DEF Init, Held, Taken
    <2>2. Unread = 0
      BY <2>1, SizeAssumption DEF Unread
    <2> QED
      BY <2>2 DEF QueueInv
  <1>3. WorkerInv
    BY DEF Init, WorkerInv, AtWork, InService
  <1>4. answeredBar = {}
    BY DEF Init, answeredBar
  <1>5. AnswerInv
    BY <1>4 DEF Init, AnswerInv, OwnAnswer
  <1>6. Outstanding = {}
    BY DEF Init, Outstanding
  <1>7. ClientsInv
    BY <1>6, FS_EmptySet DEF ClientsInv, FewClients
  <1> QED
    BY <1>1, <1>2, <1>3, <1>5, <1>7 DEF ServingInv

\* With fewer clients than slots, ServingInv is an invariant.
THEOREM ServingInvariance == ASSUME FewClients PROVE Spec => [](IInv /\ ServingInv)
  <1>1. IInv /\ ServingInv /\ [Next]_vars => (IInv /\ ServingInv)'
    <2>1. IInv /\ [Next]_vars => IInv'
      BY TypeStep, MsgStep, SlotStep, TokenStep DEF IInv
    <2>2. ASSUME IInv, ServingInv, [Next]_vars
          PROVE  ServingInv'
      BY <2>2, DataStep, QueueStep, WorkerStep, AnswerStep, ClientsStep DEF ServingInv
    <2> QED
      BY <2>1, <2>2
  <1>2. Init => IInv /\ ServingInv
    BY InitIInv, ServingInit
  <1> QED
    BY <1>1, <1>2, PTL DEF Spec

\* However many clients there are, as long as they are fewer than the slots,
\* the receiver does not write to the slot the worker is serving, although
\* get_service_req has given it back.
THEOREM SlotInUse == ASSUME FewClients PROVE Spec => []SlotInUseIsStable
  <1>1. IInv /\ ServingInv => SlotInUseIsStable
    <2> SUFFICES ASSUME IInv, ServingInv, InService
                 PROVE  /\ rx_pc \in {"put", "fill"} => wr_idx # slot
                        /\ rx_pc = "copy" => at # slot
      BY DEF SlotInUseIsStable
    <2>1. AtWork /\ Complete(reqs[slot].seq)
      BY DEF ServingInv, WorkerInv, InService, AtWork
    <2> QED
      BY <2>1, Apart DEF Writing
  <1> QED
    BY <1>1, ServingInvariance, PTL

\* Each client gets the answer to its own request.
THEOREM AnswersOwn == ASSUME FewClients PROVE Spec => []OwnAnswer
  <1>1. IInv /\ ServingInv => OwnAnswer
    BY DEF ServingInv, AnswerInv
  <1> QED
    BY <1>1, ServingInvariance, PTL

\* Handlers run on complete requests only.
THEOREM ServesComplete == ASSUME FewClients PROVE Spec => []ServedComplete
  <1>1. IInv /\ ServingInv => ServedComplete
    BY DEF ServingInv, WorkerInv, ServedComplete, Complete
  <1> QED
    BY <1>1, ServingInvariance, PTL
-----------------------------------------------------------------------------
\* A token is made exactly when the last part of a request is in its slot.
LEMMA TokenSyncStep ==
    ASSUME FewClients, IInv, ServingInv, TokenSync, [Next]_vars
    PROVE  TokenSync'
  <1>t. /\ MsgOK /\ IsFiniteSet(Incomplete) /\ Cardinality(Incomplete) \in Nat
        /\ full \in Nat /\ Unread \in Int /\ Posting \in 0 .. 1 /\ Taking \in 0 .. 1
        /\ Unread = full + Posting + Taking + Cardinality(Incomplete)
    BY FS_CardinalityType, Counters DEF IInv, TokenBound, TokenSync
  <1>1. CASE RxFill
    <2>1. /\ UNCHANGED <<full, Taking>> /\ Posting = 0 /\ msg.data_size = parts[msg.seq]
          /\ Posting' = IF msg.data_size = 1 THEN 1 ELSE 0
      BY <1>1, <1>t DEF RxFill, Posting, Taking, wk, MsgOK
    <2>2. CASE parts[msg.seq] = 1
      <3>1. Incomplete' = Incomplete
        BY <1>1, <2>2, IncompleteStep
      <3> QED
        BY <1>1, <1>t, <2>1, <2>2, <3>1, UnreadStep DEF TokenSync
    <2>3. CASE parts[msg.seq] # 1
      <3>1. Incomplete' = Incomplete \cup {msg.seq} /\ msg.seq \notin Incomplete
        BY <1>1, <2>3, IncompleteStep
      <3>2. Cardinality(Incomplete') = Cardinality(Incomplete) + 1
        BY <1>t, <3>1, FS_AddElement
      <3> QED
        BY <1>1, <1>t, <2>1, <2>3, <3>2, UnreadStep DEF TokenSync
    <2> QED
      BY <2>2, <2>3
  <1>2. CASE RxCopy
    <2> DEFINE done == reqs[at].data_offset + 1 = reqs[at].data_size
    <2>1. /\ UNCHANGED <<full, Taking>> /\ Posting = 0 /\ rx_pc = "copy"
          /\ Posting' = (IF done THEN 1 ELSE 0) /\ ~ RxFill /\ ~ WkTake
      <3>1. /\ full' = full /\ wk_pc' = wk_pc /\ rx_pc = "copy" /\ rd_idx' = rd_idx
            /\ rx_pc' = IF done THEN "post" ELSE "recv"
        BY <1>2, Zenon DEF RxCopy, wk
      <3>2. ~ RxFill /\ ~ WkTake
        BY <3>1 DEF RxFill, WkTake
      <3> QED
        BY <3>1, <3>2 DEF Posting, Taking
    <2>2. done <=> sent[msg.seq] = parts[msg.seq]
      <3>1. /\ msg.seq \in Reqs
            /\ done <=> \A r \in Reqs : r = msg.seq => Complete(r)'
        BY <1>2, CopyStep
      <3>2. \A r \in Reqs : r = msg.seq => Stored(r)' = sent[r] /\ parts'[r] = parts[r]
        <4>1. /\ Stored(msg.seq) = sent[msg.seq] - 1 /\ parts[msg.seq] > 0
              /\ sent[msg.seq] \in Nat
          BY <2>1, <3>1, Apart, PartsAssumption DEF IInv, TypeOK
        <4> QED
          BY <1>2, <3>1, <4>1, CompleteStep
      <3> QED
        BY <3>1, <3>2 DEF Complete
    <2>3. /\ Incomplete' = IF sent[msg.seq] = parts[msg.seq]
                           THEN Incomplete \ {msg.seq} ELSE Incomplete
          /\ msg.seq \in Incomplete
      BY <1>2, IncompleteStep
    <2>4. Cardinality(Incomplete') = IF done THEN Cardinality(Incomplete) - 1
                                             ELSE Cardinality(Incomplete)
      BY <1>t, <2>2, <2>3, FS_RemoveElement
    <2> HIDE DEF done
    <2> QED
      BY <1>t, <2>1, <2>4, UnreadStep DEF TokenSync
  <1>3. CASE ~ RxFill /\ ~ RxCopy
    <2>1. Incomplete' = Incomplete
      BY <1>3, IncompleteStep
    <2>2. full' + Posting' + Taking' =
             IF WkTake THEN full + Posting + Taking - 1 ELSE full + Posting + Taking
      <3>1. CASE RxPost
        <4>1. full' = full + 1 /\ Posting = 1 /\ Posting' = 0 /\ Taking' = Taking /\ ~ WkTake
          BY <3>1 DEF RxPost, Posting, Taking, wk, WkTake
        <4> QED
          BY <1>t, <4>1
      <3>2. CASE WkWaitFull
        <4>1. full' = full - 1 /\ Taking = 0 /\ Taking' = 1 /\ Posting' = Posting /\ ~ WkTake
          BY <3>2 DEF WkWaitFull, Posting, Taking, rx, WkTake
        <4> QED
          BY <1>t, <4>1
      <3>3. CASE WkTake
        <4>1. full' = full /\ Taking = 1 /\ Taking' = 0 /\ Posting' = Posting
          BY <3>3 DEF WkTake, Posting, Taking, rx
        <4> QED
          BY <1>t, <3>3, <4>1
      <3>4. CASE ~ (RxPost \/ WkWaitFull \/ WkTake)
        <4>1. UNCHANGED <<full, Posting, Taking>>
          BY <1>3, <3>4
          DEF Next, Receiver, Worker, RxFirst, RxNext, RxWaitEmpty, RxPut, RxFind, RxNotFound,
              WkPostEmpty, WkSkip, WkNotInProgress, WkCorrupted, WkReady, WkExec, WkReply,
              WkFree, WkReset, WkComplete, ClRecv, Rest, vars, ring, rx, wk, Posting, Taking
        <4> QED
          BY <3>4, <4>1
      <3> QED
        BY <3>1, <3>2, <3>3, <3>4
    <2>3. Unread' = IF WkTake THEN Unread - 1 ELSE Unread
      BY <1>3, UnreadStep
    <2>4. CASE WkTake
      <3>1. full' + Posting' + Taking' = full + Posting + Taking - 1 /\ Unread' = Unread - 1
        BY <2>2, <2>3, <2>4
      <3> QED
        BY <1>t, <2>1, <3>1 DEF TokenSync
    <2>5. CASE ~ WkTake
      BY <1>t, <2>1, <2>2, <2>3, <2>5 DEF TokenSync
    <2> QED
      BY <2>4, <2>5
  <1> QED
    BY <1>1, <1>2, <1>3

\* The tokens in the semaphore full, and the ones on their way to and from
\* it, are the unread slots that are complete or were passed over: none is
\* made twice or lost, over any run of two threads.
THEOREM TokensSynchronised == ASSUME FewClients PROVE Spec => []TokenSync
  <1>1. Init => TokenSync
    <2> SUFFICES ASSUME Init PROVE TokenSync
      OBVIOUS
    <2>1. Incomplete = {}
      BY DEF Init, Incomplete, Stored, NoMsg
    <2>2. /\ Held = 0 /\ Taken = 0 /\ empty = Size /\ full = 0 /\ Posting = 0 /\ Taking = 0
      BY DEF Init, Held, Taken, Posting, Taking
    <2>3. Unread = 0
      BY <2>2, SizeAssumption DEF Unread
    <2> QED
      BY <2>1, <2>2, <2>3, FS_EmptySet DEF TokenSync
  <1>2. IInv /\ ServingInv /\ TokenSync /\ [Next]_vars => TokenSync'
    BY TokenSyncStep
  <1> QED
    BY <1>1, <1>2, ServingInvariance, PTL DEF Spec
\* An issued request has parts.
LEMMA IssuedParts ==
    ASSUME IInv
    PROVE  /\ \A r \in Reqs : parts[r] \in Nat /\ Stored(r) \in Nat
           /\ \A i \in Slots : reqs[i].seq \in Reqs => parts[reqs[i].seq] > 0
  <1>1. /\ parts \in [Reqs -> 0 .. MaxParts] /\ sent \in [Reqs -> 0 .. MaxParts]
        /\ MaxParts \in Nat /\ SeqOK /\ MsgOK
    BY PartsAssumption DEF IInv, TypeOK
  <1> QED
    BY <1>1 DEF SeqOK, Stored, MsgOK
-----------------------------------------------------------------------------
(***************************************************************************)
(* The refinement of RequestService, one lemma per step that means          *)
(* something to it.                                                        *)
(***************************************************************************)
\* The queue as a sequence of requests, and what it tells about the others.
LEMMA QueueFacts ==
    ASSUME FewClients, IInv, ServingInv
    PROVE  /\ queueBar \in Seq(Reqs) /\ Len(queueBar) = Unread /\ Unread < Size
           /\ Service!Queued = {reqs[i].seq : i \in UnreadSlots}
           /\ \A r \in Service!Queued : r \in Reqs /\ Stored(r) > 0 /\ r \notin answeredBar
           /\ servingBar # NoReq => /\ servingBar \in Reqs /\ Stored(servingBar) > 0
                                    /\ servingBar \notin Service!Queued \cup answeredBar
           /\ \A r \in answeredBar : r \in Reqs /\ Stored(r) > 0
           /\ NoReq \notin Reqs
  <1>t. /\ SeqOK /\ QueueInv /\ WorkerInv /\ AnswerInv /\ Unread \in Nat /\ slot \in Slots
        /\ NoReq \notin Reqs
    BY ReqsAssumption, Apart DEF IInv, TypeOK, ServingInv
  <1>1. \A k \in 1 .. Unread : /\ reqs[UnreadAt(k)].seq \in Reqs
                               /\ Stored(reqs[UnreadAt(k)].seq) > 0
                               /\ reqs[UnreadAt(k)].seq \notin answeredBar
    BY <1>t DEF QueueInv, Serveable
  <1>2. queueBar \in [1 .. Unread -> Reqs]
    BY <1>1 DEF queueBar
  <1>3. queueBar \in Seq(Reqs) /\ Len(queueBar) = Unread
    BY <1>t, <1>2
  <1>4. Service!Queued = {reqs[i].seq : i \in UnreadSlots}
    <2>1. Service!Queued = {queueBar[k] : k \in 1 .. Unread}
      BY <1>3 DEF Service!Queued
    <2> QED
      BY <2>1 DEF queueBar, UnreadSlots
  <1>5. \A r \in Service!Queued : r \in Reqs /\ Stored(r) > 0 /\ r \notin answeredBar
    BY <1>1, <1>4 DEF UnreadSlots
  <1>6. ASSUME servingBar # NoReq
        PROVE  /\ servingBar \in Reqs /\ Stored(servingBar) > 0
               /\ servingBar \notin Service!Queued \cup answeredBar
    <2>1. servingBar = reqs[slot].seq /\ AtWork
      BY <1>6 DEF servingBar, AtWork
    <2>2. /\ reqs[slot].seq \in Reqs
          /\ Stored(reqs[slot].seq) > 0 \/ Complete(reqs[slot].seq)
      BY <1>6, <1>t DEF servingBar, WorkerInv, Serveable, InService
    <2>3. Stored(reqs[slot].seq) > 0
      BY <1>t, <2>2, IssuedParts DEF Complete, SeqOK
    <2>4. \A k \in 1 .. Unread : reqs[UnreadAt(k)].seq # reqs[slot].seq
      BY <1>t, <2>1, <2>2, Apart DEF SeqOK
    <2> QED
      BY <1>t, <1>4, <2>1, <2>2, <2>3, <2>4 DEF AnswerInv, UnreadSlots
  <1>7. \A r \in answeredBar : r \in Reqs /\ Stored(r) > 0
    BY <1>t, IssuedParts DEF AnswerInv, Complete
  <1> QED
    BY <1>t, <1>3, <1>4, <1>5, <1>6, <1>7, Apart

\* A step that adds nothing to the queue and takes nothing from it keeps it.
LEMMA QueueKept ==
    ASSUME FewClients, IInv, ServingInv, [Next]_vars, ~ RxFill, ~ WkTake
    PROVE  /\ queueBar' = queueBar
           /\ {reqs[i].seq : i \in UnreadSlots}' = {reqs[i].seq : i \in UnreadSlots}
  <1>1. Unread' = Unread /\ \A k \in 1 .. Unread : UnreadAt(k)' = UnreadAt(k)
    BY UnreadStep, PlaceStep
  <1>2. \A k \in 1 .. Unread : reqs'[UnreadAt(k)].seq = reqs[UnreadAt(k)].seq
    BY Apart, SeqKept
  <1>3. queueBar' = queueBar
    BY <1>1, <1>2 DEF queueBar
  <1>4. UnreadSlots' = UnreadSlots
    BY <1>1 DEF UnreadSlots
  <1>5. \A i \in UnreadSlots : reqs'[i].seq = reqs[i].seq
    BY <1>2 DEF UnreadSlots
  <1> QED
    BY <1>3, <1>4, <1>5

\* A request has arrived once and for all.
LEMMA ArrivedStep ==
    ASSUME FewClients, IInv, ServingInv, [Next]_vars, NEW r \in Reqs
    PROVE  /\ Stored(r) \in Nat
           /\ ~ RxFill => (Stored(r)' > 0 <=> Stored(r) > 0)
           /\ RxFill => (Stored(r)' > 0 <=> Stored(r) > 0 \/ r = msg.seq)
  <1>1. Stored(r) \in Nat
    BY CompleteStep
  <1>2. ~ ((RxFill \/ RxCopy) /\ r = msg.seq) => Stored(r)' = Stored(r)
    BY StoredStep
  <1>3. (RxFill \/ RxCopy) /\ r = msg.seq => Stored(r)' = Stored(r) + 1
    BY CompleteStep
  <1>4. RxCopy => Stored(msg.seq) > 0
    <2>1. ASSUME RxCopy
          PROVE  Stored(msg.seq) > 0
      <3>1. rx_pc = "copy"
        BY <2>1, Zenon DEF RxCopy
      <3>2. sent[msg.seq] > 1 /\ sent[msg.seq] \in Nat /\ Stored(msg.seq) = sent[msg.seq] - 1
        BY <3>1, Apart, PartsAssumption DEF IInv, MsgOK, TypeOK
      <3> QED
        BY <3>2
    <2> QED
      BY <2>1
  <1> QED
    BY <1>1, <1>2, <1>3, <1>4


\* The requests in the unread slots.
Waiting == {reqs[i].seq : i \in UnreadSlots}

\* What a step does to the queue.
LEMMA WaitingStep ==
    ASSUME FewClients, IInv, ServingInv, [Next]_vars
    PROVE  /\ RxFill => queueBar' = Append(queueBar, msg.seq) /\ Waiting' = Waiting \cup {msg.seq}
           /\ WkTake => /\ queueBar # <<>> /\ servingBar' = Head(queueBar)
                        /\ queueBar' = Tail(queueBar)
                        /\ Waiting = Waiting' \cup {servingBar'}
  <1>t. /\ queueBar \in Seq(Reqs) /\ Len(queueBar) = Unread /\ Unread < Size /\ Unread \in Nat
        /\ wr_idx \in Slots /\ rd_idx \in Slots /\ slot \in Slots /\ MsgOK
        /\ \A k \in 1 .. Unread : UnreadAt(k) \in Slots /\ UnreadAt(k) # wr_idx
    BY QueueFacts, Apart DEF IInv, TypeOK
  <1>w. Waiting = {reqs[UnreadAt(k)].seq : k \in 1 .. Unread}
    BY DEF Waiting, UnreadSlots
  <1>x. Waiting' = {reqs'[UnreadAt(k)'].seq : k \in 1 .. Unread'}
    BY DEF Waiting, UnreadSlots
  <1>1. ASSUME RxFill
        PROVE  queueBar' = Append(queueBar, msg.seq) /\ Waiting' = Waiting \cup {msg.seq}
    <2>1. /\ Unread' = Unread + 1 /\ \A k \in {Unread + 1} : UnreadAt(k)' = wr_idx
          /\ \A k \in 1 .. Unread : UnreadAt(k)' = UnreadAt(k)
      BY <1>1, UnreadStep, PlaceStep
    <2>2. reqs[wr_idx].seq = msg.seq /\ \A i \in Slots : reqs'[i].seq = reqs[i].seq
      <3>1. rx_pc = "fill" /\ ~ RxPut
        BY <1>1 DEF RxFill, RxPut
      <3> QED
        BY <1>t, <3>1, SeqKept DEF MsgOK
    <2>3. \A k \in 1 .. Unread + 1 :
             reqs'[UnreadAt(k)'].seq = IF k = Unread + 1 THEN msg.seq ELSE reqs[UnreadAt(k)].seq
      BY <1>t, <2>1, <2>2
    <2>4. queueBar' = Append(queueBar, msg.seq)
      BY <1>t, <2>1, <2>3 DEF queueBar
    <2>5. \A q : q \in {reqs'[UnreadAt(k)'].seq : k \in 1 .. Unread + 1}
                    <=> q = msg.seq \/ q \in {reqs[UnreadAt(k)].seq : k \in 1 .. Unread}
      BY <1>t, <2>3
    <2> QED
      BY <1>w, <1>x, <2>1, <2>4, <2>5
  <1>2. ASSUME WkTake
        PROVE  /\ queueBar # <<>> /\ servingBar' = Head(queueBar)
               /\ queueBar' = Tail(queueBar)
               /\ Waiting = Waiting' \cup {servingBar'}
    <2>1. /\ Unread > 0 /\ Unread' = Unread - 1 /\ UnreadAt(1) = rd_idx
          /\ \A k \in 1 .. Unread' : UnreadAt(k)' = UnreadAt(k + 1)
          /\ reqs' = reqs /\ slot' = rd_idx /\ wk_pc' = "post"
      BY <1>2, UnreadStep, PlaceStep DEF WkTake
    <2>2. servingBar' = reqs[UnreadAt(1)].seq
      BY <2>1 DEF servingBar
    <2>3. queueBar # <<>> /\ Head(queueBar) = reqs[UnreadAt(1)].seq
      BY <1>t, <2>1 DEF queueBar
    <2>4. queueBar' = Tail(queueBar)
      <3>1. queueBar' = [k \in 1 .. Unread - 1 |-> reqs[UnreadAt(k + 1)].seq]
        BY <2>1 DEF queueBar
      <3>2. \A k \in 1 .. Unread - 1 : queueBar[k + 1] = reqs[UnreadAt(k + 1)].seq
        BY <1>t DEF queueBar
      <3>3. Tail(queueBar) = [k \in 1 .. Unread - 1 |-> queueBar[k + 1]]
        <4> DEFINE s == queueBar
        <4>1. s \in Seq(Reqs) /\ s # <<>> /\ Len(s) = Unread
          BY <1>t, <2>3
        <4> HIDE DEF s
        <4>2. Tail(s) \in Seq(Reqs) /\ Len(Tail(s)) = Unread - 1
              /\ \A i \in 1 .. Len(Tail(s)) : Tail(s)[i] = s[i + 1]
          BY <4>1, HeadTailProperties
        <4>3. Tail(s) \in [1 .. Unread - 1 -> Reqs]
          BY <4>2, LenProperties
        <4>4. Tail(s) = [k \in 1 .. Unread - 1 |-> s[k + 1]]
          BY <4>2, <4>3
        <4> QED
          BY <4>4 DEF s
      <3> QED
        BY <3>1, <3>2, <3>3
    <2>5. \A q : q \in Waiting <=> q \in Waiting' \/ q = servingBar'
      <3>1. Waiting' = {reqs[UnreadAt(k + 1)].seq : k \in 1 .. Unread - 1}
        BY <1>x, <2>1
      <3>2. \A k \in 1 .. Unread : k = 1 \/ (k - 1 \in 1 .. Unread - 1 /\ k = (k - 1) + 1)
        BY <1>t
      <3>3. \A k \in 1 .. Unread - 1 : k + 1 \in 1 .. Unread
        BY <1>t
      <3>4. ASSUME NEW q \in Waiting
            PROVE  q \in Waiting' \/ q = servingBar'
        <4>1. PICK k \in 1 .. Unread : q = reqs[UnreadAt(k)].seq
          BY <1>w
        <4>2. CASE k = 1
          BY <2>2, <4>1, <4>2
        <4>3. CASE k - 1 \in 1 .. Unread - 1 /\ k = (k - 1) + 1
          BY <3>1, <4>1, <4>3
        <4> QED
          BY <3>2, <4>2, <4>3
      <3>5. ASSUME NEW q \in Waiting'
            PROVE  q \in Waiting
        <4>1. PICK k \in 1 .. Unread - 1 : q = reqs[UnreadAt(k + 1)].seq
          BY <3>1
        <4> QED
          BY <1>w, <3>3, <4>1
      <3>6. servingBar' \in Waiting
        BY <1>t, <1>w, <2>1, <2>2
      <3> QED
        BY <3>4, <3>5, <3>6
    <2> QED
      BY <2>2, <2>3, <2>4, <2>5
  <1> QED
    BY <1>1, <1>2

\* A request is passed over when the worker skips it, and only then.
LEMMA PassedStep ==
    ASSUME FewClients, IInv, ServingInv, [Next]_vars
    PROVE  passedBar' = IF WkSkip THEN passedBar \cup {servingBar} ELSE passedBar
  <1> DEFINE Known == answeredBar \cup {servingBar} \cup Waiting
  <1>1. \A r \in Reqs : r \in passedBar <=> Stored(r) > 0 /\ r \notin Known
    BY DEF passedBar, Waiting
  <1>2. \A r \in Reqs : r \in passedBar' <=> Stored(r)' > 0 /\ r \notin Known'
    BY DEF passedBar, Waiting
  <1>3. passedBar \subseteq Reqs /\ passedBar' \subseteq Reqs
    BY DEF passedBar
  <1>t. /\ NoReq \notin Reqs /\ (WkTake => servingBar = NoReq) /\ Waiting \subseteq Reqs
        /\ WkReply \/ WkSkip => servingBar # NoReq
        /\ servingBar # NoReq => servingBar \in Reqs /\ Stored(servingBar) > 0
                                 /\ servingBar \notin Waiting \cup answeredBar
    <2>1. servingBar # NoReq => servingBar \in Reqs /\ Stored(servingBar) > 0
                                 /\ servingBar \notin Waiting \cup answeredBar
      BY QueueFacts DEF Waiting
    <2>2. WkTake => servingBar = NoReq
      BY DEF WkTake, servingBar
    <2>3. WkReply \/ WkSkip => servingBar = reqs[slot].seq /\ reqs[slot].seq \in Reqs
      BY DEF WkReply, WkSkip, servingBar, ServingInv, WorkerInv, InService, Serveable
    <2> QED
      BY <2>1, <2>2, <2>3, QueueFacts DEF Waiting
  <1>n. ~ (WkSkip /\ RxFill) /\ ~ (WkSkip /\ WkTake) /\ ~ (WkSkip /\ WkReply)
        /\ ~ (RxFill /\ (WkTake \/ WkReply)) /\ ~ (WkTake /\ WkReply)
    BY DEF WkSkip, RxFill, WkTake, WkReply, wk, rx
  <1>4. CASE RxFill
    <2>1. Waiting' = Waiting \cup {msg.seq} /\ servingBar' = servingBar
          /\ answeredBar' = answeredBar
      BY <1>4, <1>n, WaitingStep, ServingStep, AnsweredStep
    <2>2. msg.seq \notin passedBar
      BY <1>4, Apart DEF RxFill, passedBar
    <2> HIDE DEF Known
    <2>3. Known' = Known \cup {msg.seq}
      BY <2>1 DEF Known
    <2>4. \A r \in Reqs : r \in passedBar' <=> r \in passedBar
      BY <1>1, <1>2, <1>4, <2>2, <2>3, ArrivedStep
    <2> QED
      BY <1>3, <1>4, <1>n, <2>4
  <1>5. CASE ~ RxFill
    <2>1. \A r \in Reqs : Stored(r)' > 0 <=> Stored(r) > 0
      BY <1>5, ArrivedStep
    <2>2. \A r \in Reqs : r \in Known' <=> r \in Known /\ ~ (WkSkip /\ r = servingBar)
      <3>1. CASE WkTake
        BY <1>n, <1>t, <3>1, WaitingStep, AnsweredStep
      <3>2. CASE ~ WkTake
        <4>1. /\ Waiting' = Waiting
              /\ servingBar' = IF WkReply \/ WkSkip THEN NoReq ELSE servingBar
              /\ answeredBar' = IF WkReply THEN answeredBar \cup {reqs[slot].seq} ELSE answeredBar
          BY <1>5, <3>2, QueueKept, ServingStep, AnsweredStep DEF Waiting
        <4>2. WkReply => servingBar = reqs[slot].seq
          BY DEF WkReply, servingBar
        <4> QED
          BY <1>n, <1>t, <4>1, <4>2
      <3> QED
        BY <3>1, <3>2
    <2> HIDE DEF Known
    <2>3. servingBar \in Known
      BY DEF Known
    <2>4. \A r \in Reqs : r \in passedBar' <=> r \in passedBar \/ (WkSkip /\ r = servingBar)
      BY <1>1, <1>2, <1>t, <2>1, <2>2, <2>3
    <2> QED
      BY <1>3, <1>t, <2>4
  <1> QED
    BY <1>4, <1>5
-----------------------------------------------------------------------------
\* The process goes down only when the search for a part's slot fails.
LEMMA UpStep ==
    ASSUME FewClients, IInv, ServingInv, [Next]_vars
    PROVE  up' = up \/ (RxNotFound /\ up /\ up' = FALSE)
  <1>n. NoReq \notin Reqs
    BY ReqsAssumption
  <1>1. CASE RxCopy
    <2>1. up /\ up' = (reqs[at].data # NoReq /\ reqs[at].data_offset + 1 <= reqs[at].data_size)
      BY <1>1, Zenon DEF RxCopy
    <2>2. reqs[at].data # NoReq /\ reqs[at].data_offset + 1 <= reqs[at].data_size
      <3>1. /\ reqs[at].data = msg.seq /\ msg.seq \in Reqs /\ at \in Slots
            /\ reqs[at].data_offset < reqs[at].data_size
        BY <1>1, CopyStep
      <3>2. reqs[at].data_offset \in Nat /\ reqs[at].data_size \in Nat
        BY <3>1, Fields DEF IInv
      <3> QED
        BY <1>n, <3>1, <3>2
    <2> QED
      BY <2>1, <2>2, Zenon
  <1>2. CASE WkExec
    <2>1. up /\ up' = (reqs[slot].data # NoReq) /\ wk_pc = "exec"
      BY <1>2, Zenon DEF WkExec
    <2>2. reqs[slot].data # NoReq
      BY <1>n, <2>1 DEF ServingInv, WorkerInv, InService
    <2> QED
      BY <2>1, <2>2, Zenon
  <1>3. ~ WkCorrupted
    BY DEF WkCorrupted, ServingInv, WorkerInv
  <1>4. CASE RxNotFound
    BY <1>4 DEF RxNotFound
  <1>5. CASE ~ (RxCopy \/ WkExec \/ RxNotFound)
    BY <1>3, <1>5
    DEF Next, Receiver, Worker, RxFirst, RxNext, RxWaitEmpty, RxPut, RxFill, RxFind, RxPost,
        WkWaitFull, WkTake, WkPostEmpty, WkSkip, WkNotInProgress, WkReady, WkReply,
        WkFree, WkReset, WkComplete, ClRecv, Rest, vars
  <1> QED
    BY <1>1, <1>2, <1>4, <1>5

\* Every step is one of RequestService's, or changes nothing it knows of.
LEMMA RefinementStep ==
    ASSUME FewClients, IInv, ServingInv, [Next]_vars
    PROVE  \/ Service!NextReliable
           \/ WkSkip /\ Service!PassOver
           \/ RxNotFound /\ Service!Fail
           \/ UNCHANGED Service!vars
  <1>p. passedBar' = IF WkSkip THEN passedBar \cup {servingBar} ELSE passedBar
    BY PassedStep
  <1>u. up' = up \/ (RxNotFound /\ up /\ up' = FALSE)
    BY UpStep
  <1>1. CASE RxFill
    <2>1. /\ rx_pc = "fill" /\ up /\ up' = up
          /\ ~ WkTake /\ ~ WkReply /\ ~ WkSkip
      BY <1>1 DEF RxFill, WkTake, WkReply, WkSkip, wk
    <2>2. /\ queueBar' = Append(queueBar, msg.seq)
          /\ servingBar' = servingBar /\ answeredBar' = answeredBar /\ passedBar' = passedBar
      BY <1>1, <1>p, <2>1, WaitingStep, ServingStep, AnsweredStep
    <2>3. /\ msg.seq \in Reqs /\ Len(queueBar) < Size
          /\ msg.seq \notin Service!Queued \cup answeredBar \cup passedBar \cup {servingBar}
      <3>1. msg.seq \in Reqs /\ Stored(msg.seq) = 0
        BY <2>1, Apart
      <3> QED
        BY <3>1, QueueFacts, Apart DEF passedBar
    <2> QED
      BY <2>1, <2>2, <2>3 DEF Service!NextReliable, Service!Accept
  <1>2. CASE WkTake
    <2>1. up /\ up' = up /\ servingBar = NoReq /\ ~ WkReply /\ ~ WkSkip
      BY <1>2 DEF WkTake, servingBar, WkReply, WkSkip
    <2>2. /\ queueBar # <<>> /\ servingBar' = Head(queueBar) /\ queueBar' = Tail(queueBar)
          /\ answeredBar' = answeredBar /\ passedBar' = passedBar
      BY <1>2, <1>p, <2>1, WaitingStep, AnsweredStep
    <2> QED
      BY <2>1, <2>2 DEF Service!NextReliable, Service!Begin
  <1>3. CASE WkReply
    <2>1. /\ up /\ up' = up /\ servingBar = reqs[slot].seq /\ servingBar # NoReq
          /\ ~ RxFill /\ ~ WkTake /\ ~ WkSkip
      BY <1>3, ReqsAssumption
      DEF WkReply, servingBar, ServingInv, WorkerInv, InService, RxFill, rx, wk, WkTake, WkSkip
    <2>2. /\ queueBar' = queueBar /\ servingBar' = NoReq
          /\ answeredBar' = answeredBar \cup {servingBar} /\ passedBar' = passedBar
      BY <1>3, <1>p, <2>1, QueueKept, ServingStep, AnsweredStep
    <2> QED
      BY <2>1, <2>2 DEF Service!NextReliable, Service!Answer
  <1>4. CASE WkSkip
    <2>1. /\ up /\ up' = up /\ servingBar = reqs[slot].seq /\ servingBar # NoReq
          /\ ~ RxFill /\ ~ WkTake /\ ~ WkReply
      BY <1>4, ReqsAssumption
      DEF WkSkip, servingBar, ServingInv, WorkerInv, Serveable, RxFill, rx, wk, WkTake, WkReply
    <2>2. /\ queueBar' = queueBar /\ servingBar' = NoReq
          /\ answeredBar' = answeredBar /\ passedBar' = passedBar \cup {servingBar}
      BY <1>4, <1>p, <2>1, QueueKept, ServingStep, AnsweredStep
    <2> QED
      BY <1>4, <2>1, <2>2 DEF Service!PassOver
  <1>5. CASE ~ (RxFill \/ WkTake \/ WkReply \/ WkSkip)
    <2>1. /\ queueBar' = queueBar /\ servingBar' = servingBar
          /\ answeredBar' = answeredBar /\ passedBar' = passedBar
      BY <1>5, <1>p, QueueKept, ServingStep, AnsweredStep
    <2> QED
      BY <1>u, <2>1 DEF Service!Fail, Service!vars
  <1> QED
    BY <1>1, <1>2, <1>3, <1>4, <1>5

\* The mapped variables have RequestService's initial values.
LEMMA RefinementInit == ASSUME Init PROVE Service!Init
  <1>1. Unread = 0
    <2>1. Held = 0 /\ Taken = 0 /\ empty = Size
      BY DEF Init, Held, Taken
    <2> QED
      BY <2>1, SizeAssumption DEF Unread
  <1>2. queueBar = <<>>
    BY <1>1 DEF queueBar
  <1>3. servingBar = NoReq /\ answeredBar = {} /\ up = TRUE
    BY DEF Init, servingBar, answeredBar
  <1>4. \A r \in Reqs : Stored(r) = 0
    BY DEF Init, Stored, NoMsg
  <1>5. passedBar = {}
    BY <1>4 DEF passedBar
  <1> QED
    BY <1>2, <1>3, <1>5 DEF Service!Init

\* With fewer clients than slots the two threads, their semaphores and the
\* ring implement a service that takes requests in the order their first
\* parts were put, serves one at a time, and answers each at most once.
THEOREM ImplementsService == ASSUME FewClients PROVE Spec => ServesInOrder
  <1>1. Init => Service!Init
    BY RefinementInit
  <1>2. IInv /\ ServingInv /\ [Next]_vars => [Service!Next]_(Service!vars)
    BY RefinementStep DEF Service!Next
  <1> QED
    BY <1>1, <1>2, ServingInvariance, PTL DEF Spec, ServesInOrder, Service!Spec

\* With fewer clients than slots the process goes down only in the search for
\* a later part's slot.
THEOREM ExitsSearching == ASSUME FewClients PROVE Spec => []ExitsOnlySearching
  <1>1. Init => ExitsOnlySearching
    BY DEF Init, ExitsOnlySearching
  <1>2. IInv /\ ServingInv /\ ExitsOnlySearching /\ [Next]_vars => ExitsOnlySearching'
    <2> SUFFICES ASSUME IInv, ServingInv, ExitsOnlySearching, [Next]_vars
                 PROVE  ExitsOnlySearching'
      OBVIOUS
    <2>1. CASE up' = up
      <3>1. CASE up
        BY <2>1, <3>1 DEF ExitsOnlySearching
      <3>2. CASE ~ up
        <4>1. UNCHANGED <<rx_pc, rd_idx, wr_idx, reqs, msg>>
          <5>1. ~ RxCopy
            BY <3>2, Zenon DEF RxCopy
          <5> QED
            BY <3>2, <5>1
            DEF Next, Receiver, Worker, RxFirst, RxNext, RxWaitEmpty, RxPut, RxFill, RxFind,
                RxNotFound, RxPost, WkWaitFull, WkTake, WkPostEmpty, WkSkip,
                WkNotInProgress, WkCorrupted, WkReady, WkExec, WkReply, WkFree, WkReset,
                WkComplete, ClRecv, Rest, vars, ring, rx
        <4> QED
          BY <3>2, <4>1 DEF ExitsOnlySearching, Searched
      <3> QED
        BY <3>1, <3>2
    <2>2. CASE RxNotFound
      BY <2>2 DEF RxNotFound, ExitsOnlySearching, Searched, ring, rx
    <2> QED
      BY <2>1, <2>2, UpStep
  <1> QED
    BY <1>1, <1>2, ServingInvariance, PTL DEF Spec

\* The safety part of ServesAllInOrder.
NoneLost == Service!Init /\ [][Service!NextReliable]_(Service!vars)

\* If moreover every request fits in one message, no request is passed over
\* or lost and the process stays up.
THEOREM ImplementsReliably == ASSUME FewClients, MaxParts = 1 PROVE Spec => NoneLost
  <1>1. Init => Service!Init
    BY RefinementInit
  <1>2. IInv /\ ServingInv /\ [Next]_vars => [Service!NextReliable]_(Service!vars)
    <2> SUFFICES ASSUME IInv, ServingInv, [Next]_vars
                 PROVE  Service!NextReliable \/ UNCHANGED Service!vars
      OBVIOUS
    <2>t. /\ \A r \in Reqs : parts[r] <= 1 /\ sent[r] <= parts[r]
                             /\ parts[r] \in Nat /\ sent[r] \in Nat
          /\ MsgOK
      BY DEF IInv, TypeOK, SeqOK
    <2>1. ~ RxNotFound
      BY <2>t DEF RxNotFound, MsgOK
    <2>2. ~ WkSkip
      <3> SUFFICES ASSUME WkSkip PROVE FALSE
        OBVIOUS
      <3> DEFINE r == reqs[slot].seq
      <3>1. r \in Reqs /\ Stored(r) > 0 /\ (Complete(r) => reqs[slot].req_status = "READY")
        BY DEF WkSkip, ServingInv, WorkerInv, Serveable
      <3>2. Stored(r) = sent[r] \/ Stored(r) = sent[r] - 1
        BY DEF Stored
      <3>3. Complete(r)
        BY <2>t, <3>1, <3>2 DEF Complete
      <3> QED
        BY <3>1, <3>3 DEF WkSkip
    <2> QED
      BY <2>1, <2>2, RefinementStep
  <1> QED
    BY <1>1, <1>2, ServingInvariance, PTL DEF Spec, NoneLost
=============================================================================
