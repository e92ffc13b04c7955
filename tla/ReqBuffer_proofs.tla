-------------------------- MODULE ReqBuffer_proofs --------------------------
(***************************************************************************)
(* Proofs about the request path, for any set of requests, any number of   *)
(* clients, slots and parts.                                               *)
(*                                                                         *)
(* RingSync needs that the worker never takes a slot when none is unread,  *)
(* so that every token in full stands for an unread slot.  A token for a   *)
(* request of several parts is made when its slot's data_offset reaches    *)
(* data_size, so the slots must agree with what their clients have sent.   *)
(***************************************************************************)
EXTENDS ReqBuffer, FiniteSetTheorems, TLAPS

\* What the receiver is handling is a request that was sent, and the first
\* part of a request is the first its slots hear of it.
MsgOK ==
    /\ rx_pc \in {"wait", "put", "fill"} =>
          /\ msg.seq \in Reqs
          /\ sent[msg.seq] = 1
          /\ msg.data_size = parts[msg.seq] /\ parts[msg.seq] > 0
    /\ rx_pc \in {"wait", "put"} => \A i \in Slots : reqs[i].seq # msg.seq
    /\ rx_pc = "fill" => reqs[wr_idx].seq = msg.seq
    /\ rx_pc \in {"find", "copy"} =>
          /\ msg.seq \in Reqs
          /\ sent[msg.seq] > 1 /\ sent[msg.seq] <= parts[msg.seq]
    /\ rx_pc = "copy" => reqs[at].seq = msg.seq
    /\ rx_pc = "recv" => msg = NoMsg

\* A request that was not issued is nowhere, and none is in two slots.
SeqOK ==
    /\ \A r \in Reqs : parts[r] = 0 => sent[r] = 0 /\ \A i \in Slots : reqs[i].seq # r
    /\ \A r \in Reqs : sent[r] <= parts[r]
    /\ \A i, j \in Slots : reqs[i].seq = reqs[j].seq /\ reqs[i].seq \in Reqs => i = j

\* A slot's sizes are its request's, unless the worker has reset them or the
\* receiver has yet to write them.
SlotOK ==
    \A i \in Slots :
        (reqs[i].seq \in Reqs /\ ~ (rx_pc = "fill" /\ i = wr_idx)) =>
            \/ reqs[i].data_size = 0
            \/ /\ reqs[i].data_size = parts[reqs[i].seq]
               /\ \/ parts[reqs[i].seq] = 1
                  \/ reqs[i].data_offset = Stored(reqs[i].seq)

\* No more tokens than unread slots, even counting the ones to be made.
TokenBound ==
    /\ IsFiniteSet(Incomplete)
    /\ full + Posting + Taking + Cardinality(Incomplete) <= Unread

IInv == TypeOK /\ MsgOK /\ SeqOK /\ SlotOK /\ TokenBound /\ RingSync
-----------------------------------------------------------------------------
\* The remainder, for the sums of two indices it is applied to.
LEMMA ModWrap ==
    ASSUME NEW N \in Nat \ {0}, NEW x \in Nat, x < 2 * N
    PROVE  x % N = IF x < N THEN x ELSE x - N
  OBVIOUS

\* The step to the next slot, without the remainder.
LEMMA SuccWraps ==
    ASSUME NEW i \in Slots
    PROVE  /\ Succ(i) \in Slots
           /\ Succ(i) = IF i + 1 = Size THEN 0 ELSE i + 1
  <1>1. /\ i \in Nat /\ i + 1 \in Nat /\ i + 1 < 2 * Size
        /\ i + 1 < Size \/ i + 1 = Size
    BY SizeAssumption DEF Slots
  <1>2. \A x \in Nat : x < 2 * Size =>
                          x % Size = IF x < Size THEN x ELSE x - Size
    BY SizeAssumption, ModWrap
  <1>3. (i + 1) % Size = IF i + 1 < Size THEN i + 1 ELSE i + 1 - Size
    BY <1>1, <1>2
  <1> QED
    BY <1>1, <1>3, SizeAssumption DEF Slots, Succ

\* A slot made of well-typed fields, and what writing it does to the slots.
LEMMA SlotWrite ==
    ASSUME reqs \in [Slots -> Slot], NEW i \in Slots,
           NEW seq \in Reqs \cup {NoReq}, NEW status \in Status,
           NEW data \in Reqs \cup {NoReq}, NEW size \in Nat, NEW offset \in Nat
    PROVE  [reqs EXCEPT ![i] = AsSlot(seq, status, data, size, offset)]
               \in [Slots -> Slot]
  BY DEF AsSlot, Slot

\* What such a write leaves in the slot and in the others.
LEMMA SlotWritten ==
    ASSUME reqs \in [Slots -> Slot], NEW i \in Slots,
           NEW seq, NEW status, NEW data, NEW size, NEW offset,
           reqs' = [reqs EXCEPT ![i] = AsSlot(seq, status, data, size, offset)]
    PROVE  /\ reqs'[i].seq = seq /\ reqs'[i].data_size = size
           /\ reqs'[i].data_offset = offset
           /\ \A j \in Slots : j # i => reqs'[j] = reqs[j]
  BY DEF AsSlot

\* The fields of a slot and of a message have their types.
LEMMA Fields ==
    ASSUME TypeOK
    PROVE  /\ \A i \in Slots : /\ reqs[i].seq \in Reqs \cup {NoReq}
                               /\ reqs[i].data \in Reqs \cup {NoReq}
                               /\ reqs[i].req_status \in Status
                               /\ reqs[i].data_size \in Nat
                               /\ reqs[i].data_offset \in Nat
           /\ msg.seq \in Reqs \cup {NoReq}
           /\ msg.data_size \in Nat
           /\ msg.data_offset \in Nat
  BY DEF TypeOK, Slot, Msg

\* IInv holds initially.
LEMMA InitIInv == Init => IInv
  <1> SUFFICES ASSUME Init PROVE IInv
    OBVIOUS
  <1> USE SizeAssumption, PartsAssumption, ReqsAssumption
  <1>1. TypeOK
    BY DEF Init, TypeOK, Slots, Slot, EmptySlot, AsSlot, Status, Msg, NoMsg
  <1>2. MsgOK
    BY DEF Init, MsgOK
  <1>3. SeqOK
    BY DEF Init, SeqOK, EmptySlot, AsSlot
  <1>4. SlotOK
    BY DEF Init, SlotOK, EmptySlot, AsSlot
  <1>5. Incomplete = {}
    BY DEF Init, Incomplete, Stored, NoMsg
  <1>6. Unread = 0
    <2>1. Held = 0 /\ Taken = 0 /\ empty = Size
      BY DEF Init, Held, Taken
    <2> QED
      BY <2>1 DEF Unread
  <1>7. TokenBound
    BY <1>5, <1>6, FS_EmptySet DEF Init, TokenBound, Posting, Taking
  <1>8. RingSync
    BY <1>6, ModWrap DEF Init, RingSync, Held
  <1> QED
    BY <1>1, <1>2, <1>3, <1>4, <1>7, <1>8 DEF IInv

\* Every step keeps the variables in their ranges; that empty stays below
\* Size follows from RingSync.
LEMMA TypeStep == IInv /\ [Next]_vars => TypeOK'
  <1> SUFFICES ASSUME IInv, [Next]_vars PROVE TypeOK'
    OBVIOUS
  <1> TypeOK
    BY DEF IInv
  <1>f. /\ NoMsg \in Msg
        /\ "READY" \in Status /\ "IN_PROGRESS" \in Status /\ "COMPLETED" \in Status
    BY DEF NoMsg, Msg, Status
  <1> USE SizeAssumption, PartsAssumption, ReqsAssumption
      DEF TypeOK, ring, rx, wk, client
  <1>1. ASSUME NEW r \in Reqs, NEW n \in 1 .. MaxParts, RxFirst(r, n)
        PROVE  TypeOK'
    BY <1>1 DEF RxFirst, Msg
  <1>2. ASSUME NEW r \in Reqs, RxNext(r)
        PROVE  TypeOK'
    BY <1>2 DEF RxNext, Msg
  <1>3. CASE RxWaitEmpty
    BY <1>3 DEF RxWaitEmpty
  <1>4. CASE RxPut
    <2>1. reqs' \in [Slots -> Slot]
      BY <1>4, <1>f, Fields, SlotWrite DEF RxPut, Put
    <2> QED
      BY <1>4, <2>1 DEF RxPut
  <1>5. CASE RxFill
    <2>1. reqs' \in [Slots -> Slot]
      BY <1>5, <1>f, Fields, SlotWrite DEF RxFill, Filled
    <2> QED
      BY <1>5, <1>f, <2>1, SuccWraps DEF RxFill
  <1>6. CASE RxFind
    BY <1>6 DEF RxFind, Searched
  <1>7. CASE RxNotFound
    BY <1>7 DEF RxNotFound
  <1>8. CASE RxCopy
    <2> DEFINE offset == reqs[at].data_offset + 1
               status == IF offset = reqs[at].data_size
                         THEN "READY" ELSE reqs[at].req_status
    <2>0. offset \in Nat /\ status \in Status
      BY <1>f, Fields
    <2>1. reqs' = [reqs EXCEPT ![at] = AsSlot(reqs[at].seq, status, reqs[at].data,
                                              reqs[at].data_size, offset)]
      BY <1>8 DEF RxCopy
    <2> HIDE DEF offset, status
    <2>2. reqs' \in [Slots -> Slot]
      BY <2>0, <2>1, Fields, SlotWrite
    <2>3. up' \in BOOLEAN /\ rx_pc' \in {"recv", "post"} /\ msg' \in {msg, NoMsg}
      BY <1>8, Zenon DEF RxCopy
    <2> QED
      BY <1>8, <1>f, <2>2, <2>3 DEF RxCopy
  <1>9. CASE RxPost
    BY <1>9, <1>f DEF RxPost
  <1>10. CASE WkWaitFull
    BY <1>10 DEF WkWaitFull
  <1>11. CASE WkTake
    BY <1>11, SuccWraps DEF WkTake
  <1>12. CASE WkPostEmpty
    <2>1. Unread \in 0 .. Size /\ Held \in 0 .. 1 /\ Taken = 1
      BY <1>12 DEF WkPostEmpty, IInv, RingSync, Held, Taken
    <2>2. empty + 1 \in 0 .. Size
      BY <2>1 DEF Unread
    <2> QED
      BY <1>12, <2>2 DEF WkPostEmpty
  <1>13. CASE WkSkip \/ WkNotInProgress \/ WkCorrupted \/ WkReady
    BY <1>13 DEF WkSkip, WkNotInProgress, WkCorrupted, WkReady
  <1>14. CASE WkExec
    <2>1. of' \in Reqs \cup {NoReq} /\ up' \in BOOLEAN
      BY <1>14, Fields, Zenon DEF WkExec
    <2> QED
      BY <1>14, <2>1 DEF WkExec
  <1>15. CASE WkReply
    BY <1>15, Fields DEF WkReply
  <1>16. CASE WkFree \/ WkReset \/ WkComplete
    <2>1. reqs' \in [Slots -> Slot]
      <3>1. CASE WkFree
        BY <3>1, <1>f, Fields, SlotWrite DEF WkFree
      <3>2. CASE WkReset
        BY <3>2, <1>f, Fields, SlotWrite DEF WkReset
      <3>3. CASE WkComplete
        BY <3>3, <1>f, Fields, SlotWrite DEF WkComplete
      <3> QED
        BY <1>16, <3>1, <3>2, <3>3
    <2> QED
      BY <1>16, <2>1 DEF WkFree, WkReset, WkComplete
  <1>17. ASSUME NEW r \in Reqs, ClRecv(r)
         PROVE  TypeOK'
    BY <1>17 DEF ClRecv
  <1>18. CASE Rest \/ UNCHANGED vars
    BY <1>18 DEF Rest, vars
  <1> QED
    BY <1>1, <1>2, <1>3, <1>4, <1>5, <1>6, <1>7, <1>8, <1>9, <1>10, <1>11,
       <1>12, <1>13, <1>14, <1>15, <1>16, <1>17, <1>18
    DEF Next, Receiver, Worker
-----------------------------------------------------------------------------
\* Steps that are not the receiver's, and its failures.
Quiet == Worker \/ RxNotFound \/ (\E r \in Reqs : ClRecv(r)) \/ Rest \/ UNCHANGED vars

\* They change nothing the receiver relies on: a slot keeps its request, and
\* its sizes unless they are reset.
LEMMA QuietStep ==
    ASSUME IInv, Quiet
    PROVE  /\ UNCHANGED <<parts, sent, msg, rx_pc, wr_idx, at>>
           /\ \A i \in Slots :
                 /\ reqs'[i].seq = reqs[i].seq
                 /\ \/ reqs'[i].data_size = 0
                    \/ /\ reqs'[i].data_size = reqs[i].data_size
                       /\ reqs'[i].data_offset = reqs[i].data_offset
  <1>1. reqs \in [Slots -> Slot] /\ slot \in Slots
    BY DEF IInv, TypeOK
  <1>2. CASE WkFree \/ WkReset \/ WkComplete
    <2>1. UNCHANGED <<parts, sent, msg, rx_pc, wr_idx, at>>
      BY <1>2 DEF WkFree, WkReset, WkComplete, rx, client
    <2>2. CASE WkFree
      <3>1. /\ reqs'[slot].seq = reqs[slot].seq
            /\ \/ reqs'[slot].data_size = 0
               \/ /\ reqs'[slot].data_size = reqs[slot].data_size
                  /\ reqs'[slot].data_offset = reqs[slot].data_offset
            /\ \A j \in Slots : j # slot => reqs'[j] = reqs[j]
        BY <1>1, <2>2 DEF WkFree, AsSlot
      <3> QED
        BY <2>1, <3>1
    <2>3. CASE WkReset
      <3>1. /\ reqs'[slot].seq = reqs[slot].seq
            /\ \/ reqs'[slot].data_size = 0
               \/ /\ reqs'[slot].data_size = reqs[slot].data_size
                  /\ reqs'[slot].data_offset = reqs[slot].data_offset
            /\ \A j \in Slots : j # slot => reqs'[j] = reqs[j]
        BY <1>1, <2>3 DEF WkReset, AsSlot
      <3> QED
        BY <2>1, <3>1
    <2>4. CASE WkComplete
      <3>1. /\ reqs'[slot].seq = reqs[slot].seq
            /\ \/ reqs'[slot].data_size = 0
               \/ /\ reqs'[slot].data_size = reqs[slot].data_size
                  /\ reqs'[slot].data_offset = reqs[slot].data_offset
            /\ \A j \in Slots : j # slot => reqs'[j] = reqs[j]
        BY <1>1, <2>4 DEF WkComplete, AsSlot
      <3> QED
        BY <2>1, <3>1
    <2> QED
      BY <1>2, <2>2, <2>3, <2>4
  <1>3. CASE ~ (WkFree \/ WkReset \/ WkComplete)
    <2>1. UNCHANGED <<reqs, parts, sent, msg, rx_pc, wr_idx, at>>
      BY <1>3
      DEF Quiet, Worker, WkWaitFull, WkTake, WkPostEmpty, WkSkip, WkNotInProgress,
          WkCorrupted, WkReady, WkExec, WkReply, RxNotFound, ClRecv, Rest, vars,
          ring, rx, client
    <2> QED
      BY <2>1
  <1> QED
    BY <1>2, <1>3

\* The case distinction the proofs below share.
LEMMA Cases ==
    ASSUME [Next]_vars
    PROVE  \/ \E r \in Reqs, n \in 1 .. MaxParts : RxFirst(r, n)
           \/ \E r \in Reqs : RxNext(r)
           \/ RxWaitEmpty \/ RxPut \/ RxFill \/ RxFind \/ RxCopy \/ RxPost
           \/ Quiet
  BY DEF Next, Receiver, Quiet

\* What the receiver handles stays what the clients sent.
LEMMA MsgStep == IInv /\ [Next]_vars => MsgOK' /\ SeqOK'
  <1> SUFFICES ASSUME IInv, [Next]_vars PROVE MsgOK' /\ SeqOK'
    OBVIOUS
  <1>t. TypeOK /\ TypeOK'
    BY TypeStep DEF IInv
  <1>n. NoReq \notin Reqs /\ NoMsg.seq = NoReq
    BY ReqsAssumption DEF NoMsg
  <1>1. ASSUME NEW r \in Reqs, NEW n \in 1 .. MaxParts, RxFirst(r, n)
        PROVE  MsgOK' /\ SeqOK'
    <2>1. /\ parts[r] = 0 /\ rx_pc' = "wait" /\ reqs' = reqs
          /\ parts' = [parts EXCEPT ![r] = n]
          /\ sent' = [sent EXCEPT ![r] = 1]
          /\ msg'.seq = r /\ msg'.data_size = n
      BY <1>1 DEF RxFirst, ring
    <2>2. /\ parts \in [Reqs -> 0 .. MaxParts] /\ sent \in [Reqs -> 0 .. MaxParts]
          /\ n \in Nat /\ n > 0
      BY <1>t, PartsAssumption DEF TypeOK
    <2>3. MsgOK'
      BY <2>1, <2>2 DEF MsgOK, IInv, SeqOK
    <2>4. SeqOK'
      BY <2>1, <2>2 DEF IInv, SeqOK
    <2> QED
      BY <2>3, <2>4
  <1>2. ASSUME NEW r \in Reqs, RxNext(r)
        PROVE  MsgOK' /\ SeqOK'
    <2>1. /\ 0 < sent[r] /\ sent[r] < parts[r]
          /\ rx_pc' = "find" /\ reqs' = reqs /\ parts' = parts
          /\ sent' = [sent EXCEPT ![r] = sent[r] + 1]
          /\ msg'.seq = r
      BY <1>2 DEF RxNext, ring
    <2>2. parts \in [Reqs -> 0 .. MaxParts] /\ sent \in [Reqs -> 0 .. MaxParts]
      BY <1>t DEF TypeOK
    <2>3. MsgOK'
      BY <2>1, <2>2, PartsAssumption DEF MsgOK
    <2>4. SeqOK'
      BY <2>1, <2>2, PartsAssumption DEF IInv, SeqOK
    <2> QED
      BY <2>3, <2>4
  <1>3. CASE RxWaitEmpty
    BY <1>3 DEF RxWaitEmpty, IInv, MsgOK, SeqOK, client
  <1>4. CASE RxPut
    <2>1. /\ reqs'[wr_idx].seq = msg.seq
          /\ \A j \in Slots : j # wr_idx => reqs'[j] = reqs[j]
      BY <1>4, <1>t, SlotWritten DEF RxPut, Put, TypeOK
    <2>2. UNCHANGED <<wr_idx, msg, at, parts, sent>> /\ rx_pc = "put" /\ rx_pc' = "fill"
      BY <1>4 DEF RxPut, client
    <2>3. \A j \in Slots : reqs[j].seq # msg.seq
      BY <2>2 DEF IInv, MsgOK
    <2>4. msg.seq \in Reqs /\ sent[msg.seq] = 1 /\ parts[msg.seq] > 0
      BY <2>2 DEF IInv, MsgOK
    <2>5. MsgOK'
      BY <2>1, <2>2 DEF IInv, MsgOK
    <2>6. SeqOK'
      BY <2>1, <2>2, <2>3, <2>4, <1>t DEF IInv, SeqOK, TypeOK
    <2> QED
      BY <2>5, <2>6
  <1>5. CASE RxFill
    <2>1. \A j \in Slots : reqs'[j].seq = reqs[j].seq
      BY <1>5, <1>t DEF RxFill, Filled, TypeOK, AsSlot
    <2>2. /\ UNCHANGED <<parts, sent>>
          /\ rx_pc' = "post" \/ (rx_pc' = "recv" /\ msg' = NoMsg)
      BY <1>5 DEF RxFill, client
    <2>3. MsgOK'
      BY <2>2, Zenon DEF MsgOK
    <2> QED
      BY <2>1, <2>2, <2>3 DEF IInv, SeqOK
  <1>6. CASE RxFind
    <2>1. /\ UNCHANGED <<reqs, msg, parts, sent>> /\ rx_pc = "find" /\ rx_pc' = "copy"
          /\ reqs[at'].seq = msg.seq
      BY <1>6 DEF RxFind, Searched, ring, client
    <2> QED
      BY <2>1 DEF IInv, MsgOK, SeqOK
  <1>7. CASE RxCopy
    <2>1. \A j \in Slots : reqs'[j].seq = reqs[j].seq
      BY <1>7, <1>t DEF RxCopy, TypeOK, AsSlot
    <2>2. /\ UNCHANGED <<parts, sent>>
          /\ rx_pc' = "post" \/ (rx_pc' = "recv" /\ msg' = NoMsg)
      BY <1>7, Zenon DEF RxCopy, client
    <2>3. MsgOK'
      BY <2>2, Zenon DEF MsgOK
    <2> QED
      BY <2>1, <2>2, <2>3 DEF IInv, SeqOK
  <1>8. CASE RxPost
    BY <1>8 DEF RxPost, IInv, MsgOK, SeqOK, client
  <1>9. CASE Quiet
    <2>1. MsgOK'
      BY <1>9, <1>t, QuietStep DEF IInv, MsgOK, TypeOK
    <2>2. SeqOK'
      BY <1>9, QuietStep DEF IInv, SeqOK
    <2> QED
      BY <2>1, <2>2
  <1> QED
    BY <1>1, <1>2, <1>3, <1>4, <1>5, <1>6, <1>7, <1>8, <1>9, Cases
-----------------------------------------------------------------------------
\* How far each request's data has come, before and after a step.
LEMMA StoredStep ==
    ASSUME IInv, [Next]_vars
    PROVE  /\ \A q \in Reqs : Stored(q) \in Nat
           /\ (RxFill \/ RxCopy) =>
                 \A q \in Reqs : Stored(q)' = IF q = msg.seq THEN Stored(q) + 1 ELSE Stored(q)
           /\ ~ (RxFill \/ RxCopy) => \A q \in Reqs : Stored(q)' = Stored(q)
  <1>t. /\ sent \in [Reqs -> 0 .. MaxParts] /\ SeqOK /\ MsgOK
        /\ MaxParts \in Nat
    BY PartsAssumption DEF IInv, TypeOK
  <1>n. NoReq \notin Reqs /\ NoMsg.seq = NoReq
    BY ReqsAssumption DEF NoMsg
  <1>0. \A q \in Reqs : Stored(q) \in Nat
    BY <1>t DEF Stored, MsgOK
  <1>1. ASSUME NEW r \in Reqs, NEW n \in 1 .. MaxParts, RxFirst(r, n)
        PROVE  \A q \in Reqs : Stored(q)' = Stored(q)
    BY <1>1, <1>t, <1>n DEF RxFirst, Stored, MsgOK, SeqOK
  <1>2. ASSUME NEW r \in Reqs, RxNext(r)
        PROVE  \A q \in Reqs : Stored(q)' = Stored(q)
    BY <1>2, <1>t, <1>n DEF RxNext, Stored, MsgOK
  <1>3. CASE RxWaitEmpty \/ RxPut \/ RxFind
    <2>1. /\ UNCHANGED <<sent, msg>>
          /\ \/ rx_pc = "wait" /\ rx_pc' = "put"
             \/ rx_pc = "put" /\ rx_pc' = "fill"
             \/ rx_pc = "find" /\ rx_pc' = "copy"
      BY <1>3 DEF RxWaitEmpty, RxPut, RxFind, client
    <2>2. ~ (RxFill \/ RxCopy)
      BY <2>1 DEF RxFill, RxCopy
    <2> QED
      BY <1>0, <2>1, <2>2 DEF Stored
  <1>4. CASE RxFill
    <2>1. /\ sent' = sent /\ rx_pc = "fill" /\ rx_pc' \in {"recv", "post"}
      BY <1>4 DEF RxFill, client
    <2> QED
      BY <1>0, <2>1, <1>4, <1>t DEF Stored
  <1>5. CASE RxCopy
    <2>1. /\ sent' = sent /\ rx_pc = "copy" /\ rx_pc' \in {"recv", "post"}
      BY <1>5, Zenon DEF RxCopy, client
    <2> QED
      BY <1>0, <2>1, <1>5, <1>t DEF Stored
  <1>6. CASE RxPost
    BY <1>6, <1>t DEF RxPost, Stored, client, RxFill, RxCopy
  <1>7. CASE Quiet
    <2>1. UNCHANGED <<sent, msg, rx_pc>>
      BY <1>7, QuietStep
    <2>2. ~ (RxFill \/ RxCopy)
      BY <2>1 DEF RxFill, RxCopy
    <2> QED
      BY <2>1, <2>2, <1>0 DEF Stored
  <1>8. \A r \in Reqs, n \in 1 .. MaxParts : RxFirst(r, n) => ~ (RxFill \/ RxCopy)
    BY DEF RxFirst, RxFill, RxCopy
  <1>9. \A r \in Reqs : RxNext(r) => ~ (RxFill \/ RxCopy)
    BY DEF RxNext, RxFill, RxCopy
  <1> QED
    BY <1>0, <1>1, <1>2, <1>3, <1>4, <1>5, <1>6, <1>7, <1>8, <1>9, Cases
-----------------------------------------------------------------------------
\* Slots and requests keep agreeing on sizes.
LEMMA SlotStep == IInv /\ [Next]_vars => SlotOK'
  <1> SUFFICES ASSUME IInv, [Next]_vars PROVE SlotOK'
    OBVIOUS
  <1>t. /\ TypeOK /\ MsgOK /\ SeqOK /\ SlotOK
        /\ reqs \in [Slots -> Slot] /\ wr_idx \in Slots /\ at \in Slots
    BY DEF IInv, TypeOK
  <1>s. TypeOK' /\ MsgOK' /\ SeqOK'
    BY TypeStep, MsgStep
  <1>1. ASSUME NEW r \in Reqs, NEW n \in 1 .. MaxParts, RxFirst(r, n)
        PROVE  SlotOK'
    <2>1. /\ reqs' = reqs /\ rx_pc = "recv" /\ rx_pc' = "wait"
          /\ \A q \in Reqs : q # r => parts'[q] = parts[q]
          /\ \A i \in Slots : reqs[i].seq # r
      BY <1>1, <1>t DEF RxFirst, ring, SeqOK, TypeOK
    <2>2. \A q \in Reqs : Stored(q)' = Stored(q)
      BY <1>1, StoredStep DEF RxFirst, RxFill, RxCopy
    <2> QED
      BY <1>t, <2>1, <2>2 DEF SlotOK
  <1>2. ASSUME NEW r \in Reqs, RxNext(r)
        PROVE  SlotOK'
    <2>1. reqs' = reqs /\ rx_pc = "recv" /\ rx_pc' = "find" /\ parts' = parts
      BY <1>2 DEF RxNext, ring
    <2>2. \A q \in Reqs : Stored(q)' = Stored(q)
      BY <1>2, StoredStep DEF RxNext, RxFill, RxCopy
    <2> QED
      BY <1>t, <2>1, <2>2 DEF SlotOK
  <1>3. CASE RxWaitEmpty \/ RxFind \/ RxPost
    <2>1. /\ reqs' = reqs /\ parts' = parts /\ rx_pc # "fill" /\ rx_pc' # "fill"
          /\ ~ (RxFill \/ RxCopy)
      BY <1>3 DEF RxWaitEmpty, RxFind, RxPost, RxFill, RxCopy, client, ring
    <2>2. \A q \in Reqs : Stored(q)' = Stored(q)
      BY <2>1, StoredStep
    <2> QED
      BY <1>t, <2>1, <2>2 DEF SlotOK
  <1>4. CASE RxPut
    <2>1. /\ UNCHANGED <<parts, wr_idx>> /\ rx_pc = "put" /\ rx_pc' = "fill"
          /\ \A j \in Slots : j # wr_idx => reqs'[j] = reqs[j]
      BY <1>4, <1>t DEF RxPut, Put, client
    <2>2. \A q \in Reqs : Stored(q)' = Stored(q)
      BY <2>1, StoredStep DEF RxFill, RxCopy
    <2> QED
      BY <1>t, <2>1, <2>2 DEF SlotOK
  <1>5. CASE RxFill
    <2>1. /\ UNCHANGED <<parts, sent>> /\ rx_pc = "fill" /\ rx_pc' # "fill"
          /\ reqs'[wr_idx].seq = reqs[wr_idx].seq
          /\ reqs'[wr_idx].data_size = msg.data_size
          /\ reqs'[wr_idx].data_offset = IF msg.data_size = 1 THEN 0 ELSE 1
          /\ \A j \in Slots : j # wr_idx => reqs'[j] = reqs[j]
      BY <1>5, <1>t DEF RxFill, Filled, AsSlot, client
    <2>2. /\ reqs[wr_idx].seq = msg.seq /\ msg.seq \in Reqs
          /\ msg.data_size = parts[msg.seq] /\ sent[msg.seq] = 1
      BY <1>t, <2>1 DEF MsgOK
    <2>3. \A j \in Slots : j # wr_idx => reqs[j].seq # msg.seq
      BY <1>t, <2>2 DEF SeqOK
    <2>4. \A q \in Reqs : Stored(q)' = IF q = msg.seq THEN 1 ELSE Stored(q)
      <3>1. Stored(msg.seq) = 0
        BY <2>1, <2>2 DEF Stored
      <3> QED
        BY <1>5, <3>1, StoredStep
    <2> QED
      BY <1>t, <2>1, <2>2, <2>3, <2>4 DEF SlotOK
  <1>6. CASE RxCopy
    <2>1. /\ UNCHANGED <<parts, sent>> /\ rx_pc = "copy"
          /\ reqs'[at].seq = reqs[at].seq
          /\ reqs'[at].data_size = reqs[at].data_size
          /\ reqs'[at].data_offset = reqs[at].data_offset + 1
          /\ \A j \in Slots : j # at => reqs'[j] = reqs[j]
      BY <1>6, <1>t DEF RxCopy, AsSlot, client
    <2>2. reqs[at].seq = msg.seq /\ msg.seq \in Reqs /\ parts[msg.seq] # 1
      BY <1>t, <2>1 DEF MsgOK, TypeOK
    <2>3. \A j \in Slots : j # at => reqs[j].seq # msg.seq
      BY <1>t, <2>2 DEF SeqOK
    <2>4. \A q \in Reqs : Stored(q)' = IF q = msg.seq THEN Stored(q) + 1 ELSE Stored(q)
      BY <1>6, StoredStep
    <2> QED
      BY <1>t, <2>1, <2>2, <2>3, <2>4 DEF SlotOK
  <1>7. CASE Quiet
    <2>1. /\ UNCHANGED <<parts, rx_pc, wr_idx>>
          /\ \A i \in Slots :
                 /\ reqs'[i].seq = reqs[i].seq
                 /\ \/ reqs'[i].data_size = 0
                    \/ /\ reqs'[i].data_size = reqs[i].data_size
                       /\ reqs'[i].data_offset = reqs[i].data_offset
      BY <1>7, QuietStep
    <2>2. ~ (RxFill \/ RxCopy)
      BY <2>1 DEF RxFill, RxCopy
    <2>3. \A q \in Reqs : Stored(q)' = Stored(q)
      BY <2>2, StoredStep
    <2> QED
      BY <1>t, <2>1, <2>3 DEF SlotOK
  <1> QED
    BY <1>1, <1>2, <1>3, <1>4, <1>5, <1>6, <1>7, Cases
-----------------------------------------------------------------------------
\* RingSync with the remainder worked out.
LEMMA RingIndex ==
    ASSUME NEW i \in Slots, NEW u \in 0 .. Size
    PROVE  (i + u) % Size = IF i + u < Size THEN i + u ELSE i + u - Size
  <1>1. /\ i \in Nat /\ u \in Nat /\ Size \in Nat
        /\ i + u \in Nat /\ i + u < 2 * Size
    BY SizeAssumption DEF Slots
  <1>2. \A x \in Nat : x < 2 * Size =>
                          x % Size = IF x < Size THEN x ELSE x - Size
    BY SizeAssumption, ModWrap
  <1> QED
    BY <1>1, <1>2

\* The counters as numbers.
LEMMA Counters ==
    ASSUME TypeOK
    PROVE  /\ Size \in Nat /\ Size > 0 /\ empty \in Nat /\ full \in Nat
           /\ Held \in 0 .. 1 /\ Taken \in 0 .. 1 /\ Unread \in Int
           /\ Posting \in 0 .. 1 /\ Taking \in 0 .. 1
  BY SizeAssumption DEF TypeOK, Held, Taken, Unread, Posting, Taking

\* What a step does to the set of incomplete requests.
LEMMA IncompleteStep ==
    ASSUME IInv, [Next]_vars
    PROVE  /\ RxFill => Incomplete' = IF parts[msg.seq] = 1 THEN Incomplete
                                      ELSE Incomplete \cup {msg.seq}
           /\ RxFill => msg.seq \notin Incomplete
           /\ RxCopy => Incomplete' = IF sent[msg.seq] = parts[msg.seq]
                                      THEN Incomplete \ {msg.seq} ELSE Incomplete
           /\ RxCopy => msg.seq \in Incomplete
           /\ ~ (RxFill \/ RxCopy) => Incomplete' = Incomplete
  <1>t. /\ TypeOK /\ MsgOK /\ SeqOK /\ MaxParts \in Nat
        /\ sent \in [Reqs -> 0 .. MaxParts] /\ parts \in [Reqs -> 0 .. MaxParts]
    BY PartsAssumption DEF IInv, TypeOK
  <1>0. \A q \in Reqs : Stored(q) \in Nat
    BY StoredStep
  <1>1. ASSUME RxFill
        PROVE  /\ Incomplete' = IF parts[msg.seq] = 1 THEN Incomplete
                                ELSE Incomplete \cup {msg.seq}
               /\ msg.seq \notin Incomplete
    <2>1. /\ msg.seq \in Reqs /\ parts[msg.seq] > 0 /\ parts' = parts
          /\ Stored(msg.seq) = 0
      BY <1>1, <1>t DEF RxFill, MsgOK, Stored, client
    <2>2. \A q \in Reqs : Stored(q)' = IF q = msg.seq THEN 1 ELSE Stored(q)
      BY <1>1, <2>1, StoredStep
    <2>3. \A q \in Reqs : parts[q] \in Nat
      BY <1>t
    <2> QED
      BY <1>0, <2>1, <2>2, <2>3 DEF Incomplete
  <1>2. ASSUME RxCopy
        PROVE  /\ Incomplete' = IF sent[msg.seq] = parts[msg.seq]
                                THEN Incomplete \ {msg.seq} ELSE Incomplete
               /\ msg.seq \in Incomplete
    <2>1. /\ msg.seq \in Reqs /\ parts' = parts
          /\ Stored(msg.seq) = sent[msg.seq] - 1
          /\ sent[msg.seq] > 1 /\ sent[msg.seq] <= parts[msg.seq]
      BY <1>2, <1>t DEF RxCopy, MsgOK, Stored, client
    <2>2. \A q \in Reqs : Stored(q)' = IF q = msg.seq THEN sent[q] ELSE Stored(q)
      <3>1. sent[msg.seq] \in Nat /\ Stored(msg.seq) + 1 = sent[msg.seq]
        BY <1>t, <2>1
      <3> QED
        BY <1>2, <3>1, StoredStep
    <2>3. \A q \in Reqs : parts[q] \in Nat /\ sent[q] \in Nat
      BY <1>t
    <2> QED
      BY <1>0, <2>1, <2>2, <2>3 DEF Incomplete
  <1>3. ASSUME ~ (RxFill \/ RxCopy)
        PROVE  Incomplete' = Incomplete
    <2>1. \A q \in Reqs : Stored(q)' = Stored(q)
      BY <1>3, StoredStep
    <2>2. CASE parts' = parts
      BY <2>1, <2>2 DEF Incomplete
    <2>3. ASSUME NEW r \in Reqs, NEW n \in 1 .. MaxParts, RxFirst(r, n)
          PROVE  Incomplete' = Incomplete
      <3>1. /\ \A q \in Reqs : q # r => parts'[q] = parts[q]
            /\ parts[r] = 0 /\ rx_pc = "recv"
        BY <2>3, <1>t DEF RxFirst
      <3>2. Stored(r) = 0
        BY <3>1, <1>t DEF SeqOK, Stored
      <3> QED
        BY <2>1, <3>1, <3>2 DEF Incomplete
    <2>4. \/ parts' = parts
          \/ \E r \in Reqs, n \in 1 .. MaxParts : RxFirst(r, n)
      BY <1>3, Cases, QuietStep
      DEF RxNext, RxWaitEmpty, RxPut, RxFind, RxPost, client
    <2> QED
      BY <2>2, <2>3, <2>4
  <1> QED
    BY <1>1, <1>2, <1>3
-----------------------------------------------------------------------------
\* The tokens stay covered by unread slots, and the indices in step.
LEMMA TokenStep == IInv /\ [Next]_vars => TokenBound' /\ RingSync'
  <1> SUFFICES ASSUME IInv, [Next]_vars PROVE TokenBound' /\ RingSync'
    OBVIOUS
  <1>t. /\ TypeOK /\ MsgOK /\ SeqOK /\ SlotOK /\ TokenBound /\ RingSync
        /\ TypeOK' /\ at \in Slots /\ wr_idx \in Slots /\ rd_idx \in Slots
    BY TypeStep DEF IInv, TypeOK
  <1>c. /\ Size \in Nat /\ Size > 0 /\ empty \in Nat /\ full \in Nat
        /\ Held \in 0 .. 1 /\ Taken \in 0 .. 1 /\ Unread \in 0 .. Size
        /\ Posting \in 0 .. 1 /\ Taking \in 0 .. 1
        /\ Held' \in 0 .. 1 /\ Taken' \in 0 .. 1
        /\ Posting' \in 0 .. 1 /\ Taking' \in 0 .. 1
    <2>1. Unread \in 0 .. Size
      BY <1>t DEF RingSync
    <2>2. /\ Held' \in 0 .. 1 /\ Taken' \in 0 .. 1
          /\ Posting' \in 0 .. 1 /\ Taking' \in 0 .. 1
      BY DEF Held, Taken, Posting, Taking
    <2> QED
      BY <1>t, <2>1, <2>2, Counters
  <1>i. /\ IsFiniteSet(Incomplete) /\ Cardinality(Incomplete) \in Nat
        /\ full + Posting + Taking + Cardinality(Incomplete) <= Unread
    BY <1>t, FS_CardinalityType DEF TokenBound
  <1>u. wr_idx = IF rd_idx + Unread < Size THEN rd_idx + Unread
                                           ELSE rd_idx + Unread - Size
    BY <1>t, <1>c, RingIndex DEF RingSync
  \* A step that moves no index and leaves Unread alone keeps RingSync.
  <1>k. ASSUME UNCHANGED <<wr_idx, rd_idx, Unread>>, Held' = 1 => Unread < Size
        PROVE  RingSync'
    BY <1>k, <1>t DEF RingSync
  <1>1. CASE RxWaitEmpty
    <2>1. /\ Held = 0 /\ Held' = 1 /\ empty > 0 /\ empty' = empty - 1
          /\ UNCHANGED <<wr_idx, rd_idx, full, Taken, Taking, Posting>>
          /\ ~ (RxFill \/ RxCopy)
      BY <1>1 DEF RxWaitEmpty, Held, Taken, Taking, Posting, wk, RxFill, RxCopy
    <2>2. Unread' = Unread /\ Unread < Size
      BY <2>1, <1>c DEF Unread
    <2>3. Incomplete' = Incomplete
      BY <2>1, IncompleteStep
    <2> QED
      BY <2>1, <2>2, <2>3, <1>i, <1>k DEF TokenBound
  <1>2. CASE RxFill
    <2>1. /\ Held = 1 /\ Held' = 0 /\ wr_idx' = Succ(wr_idx) /\ Posting = 0
          /\ Posting' = (IF msg.data_size = 1 THEN 1 ELSE 0)
          /\ UNCHANGED <<rd_idx, empty, full, Taken, Taking>>
      BY <1>2 DEF RxFill, Held, Taken, Taking, Posting, wk
    <2>2. Unread' = Unread + 1 /\ Unread < Size
      BY <2>1, <1>c DEF Unread
    <2>3. /\ IsFiniteSet(Incomplete') /\ Cardinality(Incomplete') \in Nat
          /\ Posting' + Cardinality(Incomplete') = 1 + Cardinality(Incomplete)
      <3>1. msg.data_size = parts[msg.seq]
        BY <1>2, <1>t DEF RxFill, MsgOK
      <3>2. CASE parts[msg.seq] = 1
        <4>1. Incomplete' = Incomplete /\ Posting' = 1
          BY <1>2, <2>1, <3>1, <3>2, IncompleteStep
        <4> QED
          BY <4>1, <1>i
      <3>3. CASE parts[msg.seq] # 1
        <4>1. /\ Incomplete' = Incomplete \cup {msg.seq} /\ msg.seq \notin Incomplete
              /\ Posting' = 0
          BY <1>2, <2>1, <3>1, <3>3, IncompleteStep
        <4>2. /\ IsFiniteSet(Incomplete')
              /\ Cardinality(Incomplete') = Cardinality(Incomplete) + 1
          BY <4>1, <1>i, FS_AddElement
        <4> QED
          BY <4>1, <4>2, <1>i
      <3> QED
        BY <3>2, <3>3
    <2>4. TokenBound'
      BY <2>1, <2>2, <2>3, <1>i, <1>c DEF TokenBound
    <2>5. wr_idx' = IF rd_idx + Unread' < Size THEN rd_idx + Unread'
                                               ELSE rd_idx + Unread' - Size
      BY <2>1, <2>2, <1>u, <1>c, <1>t, SuccWraps DEF Slots
    <2>6. Unread' \in 0 .. Size
      BY <2>2, <1>c
    <2>7. RingSync'
      BY <2>1, <2>5, <2>6, <1>t, RingIndex DEF RingSync
    <2> QED
      BY <2>4, <2>7
  <1>3. CASE RxCopy
    <2>1. /\ Posting = 0 /\ UNCHANGED <<wr_idx, rd_idx, empty, full, Held, Taken, Taking>>
          /\ Held = 0
      BY <1>3, Zenon DEF RxCopy, Held, Taken, Taking, Posting, wk
    <2>2. Unread' = Unread /\ Held' = 0
      BY <2>1 DEF Unread
    <2>3. /\ Incomplete' = IF sent[msg.seq] = parts[msg.seq]
                           THEN Incomplete \ {msg.seq} ELSE Incomplete
          /\ msg.seq \in Incomplete
      BY <1>3, IncompleteStep
    <2>4. /\ IsFiniteSet(Incomplete')
          /\ Cardinality(Incomplete') =
                IF sent[msg.seq] = parts[msg.seq]
                THEN Cardinality(Incomplete) - 1 ELSE Cardinality(Incomplete)
      BY <2>3, <1>i, FS_RemoveElement
    <2>5. Posting' = 1 => sent[msg.seq] = parts[msg.seq]
      <3>1. /\ reqs[at].seq = msg.seq /\ msg.seq \in Reqs /\ rx_pc = "copy"
            /\ sent[msg.seq] > 1 /\ sent[msg.seq] <= parts[msg.seq]
        BY <1>3, <1>t DEF RxCopy, MsgOK
      <3>2. Posting' = 1 => reqs[at].data_offset + 1 = reqs[at].data_size
        BY <1>3 DEF RxCopy, Posting
      <3>3. Stored(msg.seq) = sent[msg.seq] - 1
        BY <3>1 DEF Stored
      <3>4. /\ sent[msg.seq] \in Nat /\ parts[msg.seq] \in Nat
            /\ reqs[at].data_offset \in Nat
        BY <3>1, <1>t, Fields, PartsAssumption DEF TypeOK
      <3>5. \/ reqs[at].data_size = 0
            \/ /\ reqs[at].data_size = parts[msg.seq]
               /\ parts[msg.seq] = 1 \/ reqs[at].data_offset = Stored(msg.seq)
        BY <3>1, <1>t DEF SlotOK
      <3> QED
        BY <3>1, <3>2, <3>3, <3>4, <3>5
    <2>6. TokenBound'
      BY <2>1, <2>2, <2>4, <2>5, <1>i, <1>c DEF TokenBound
    <2> QED
      BY <2>1, <2>2, <2>6, <1>k
  <1>4. CASE RxPost
    <2>1. /\ Posting = 1 /\ Posting' = 0 /\ full' = full + 1 /\ Held = 0 /\ Held' = 0
          /\ UNCHANGED <<wr_idx, rd_idx, empty, Taken, Taking>>
          /\ ~ (RxFill \/ RxCopy)
      BY <1>4 DEF RxPost, Held, Taken, Taking, Posting, wk, RxFill, RxCopy
    <2>2. Unread' = Unread
      BY <2>1 DEF Unread
    <2>3. Incomplete' = Incomplete
      BY <2>1, IncompleteStep
    <2>4. TokenBound'
      BY <2>1, <2>2, <2>3, <1>i, <1>c DEF TokenBound
    <2> QED
      BY <2>1, <2>2, <2>4, <1>k
  <1>5. CASE WkWaitFull
    <2>1. /\ Taking = 0 /\ Taking' = 1 /\ full > 0 /\ full' = full - 1
          /\ Taken = 0 /\ Taken' = 0 /\ UNCHANGED <<wr_idx, rd_idx, empty, Held, Posting>>
          /\ ~ (RxFill \/ RxCopy)
      BY <1>5 DEF WkWaitFull, Held, Taken, Taking, Posting, rx, RxFill, RxCopy
    <2>2. Unread' = Unread
      BY <2>1 DEF Unread
    <2>3. Incomplete' = Incomplete
      BY <2>1, IncompleteStep
    <2>4. TokenBound'
      BY <2>1, <2>2, <2>3, <1>i, <1>c DEF TokenBound
    <2> QED
      BY <2>1, <2>2, <2>4, <1>k, <1>t DEF RingSync
  <1>6. CASE WkTake
    <2>1. /\ Taking = 1 /\ Taking' = 0 /\ Taken = 0 /\ Taken' = 1
          /\ rd_idx' = Succ(rd_idx)
          /\ UNCHANGED <<wr_idx, empty, full, Held, Posting>>
          /\ ~ (RxFill \/ RxCopy)
      BY <1>6 DEF WkTake, Held, Taken, Taking, Posting, rx, RxFill, RxCopy
    <2>2. Unread > 0 /\ Unread' = Unread - 1
      BY <2>1, <1>i, <1>c DEF Unread
    <2>3. Incomplete' = Incomplete
      BY <2>1, IncompleteStep
    <2>4. TokenBound'
      BY <2>1, <2>2, <2>3, <1>i, <1>c DEF TokenBound
    <2>5. Unread' \in 0 .. Size /\ Unread' < Size
      BY <2>2, <1>c
    <2>6. wr_idx' = IF rd_idx' + Unread' < Size THEN rd_idx' + Unread'
                                                ELSE rd_idx' + Unread' - Size
      BY <2>1, <2>2, <1>u, <1>c, <1>t, SuccWraps DEF Slots
    <2>7. (rd_idx' + Unread') % Size =
              IF rd_idx' + Unread' < Size THEN rd_idx' + Unread'
                                          ELSE rd_idx' + Unread' - Size
      <3>1. rd_idx' \in Slots
        BY <1>t DEF TypeOK
      <3>2. \A i \in Slots, u \in 0 .. Size :
                (i + u) % Size = IF i + u < Size THEN i + u ELSE i + u - Size
        BY RingIndex
      <3> QED
        BY <2>5, <3>1, <3>2
    <2>8. RingSync'
      BY <2>5, <2>6, <2>7 DEF RingSync
    <2> QED
      BY <2>4, <2>8
  <1>7. CASE WkPostEmpty
    <2>1. /\ Taken = 1 /\ Taken' = 0 /\ empty' = empty + 1
          /\ UNCHANGED <<wr_idx, rd_idx, full, Held, Posting, Taking>>
          /\ ~ (RxFill \/ RxCopy)
      BY <1>7 DEF WkPostEmpty, Held, Taken, Taking, Posting, rx, RxFill, RxCopy
    <2>2. Unread' = Unread
      BY <2>1, <1>c DEF Unread
    <2>3. Incomplete' = Incomplete
      BY <2>1, IncompleteStep
    <2> QED
      BY <2>1, <2>2, <2>3, <1>i, <1>k, <1>t DEF TokenBound, RingSync
  <1>8. CASE \/ \E r \in Reqs, n \in 1 .. MaxParts : RxFirst(r, n)
             \/ \E r \in Reqs : RxNext(r)
             \/ RxPut \/ RxFind
             \/ Quiet /\ ~ (WkWaitFull \/ WkTake \/ WkPostEmpty)
    <2> DEFINE Same ==
                 /\ UNCHANGED <<wr_idx, rd_idx, empty, full, Held, Taken, Taking, Posting>>
                 /\ ~ (RxFill \/ RxCopy)
    <2>1. Same
      <3>1. ASSUME NEW r \in Reqs, NEW n \in 1 .. MaxParts, RxFirst(r, n)
            PROVE  Same
        BY <3>1 DEF RxFirst, Held, Taken, Taking, Posting, ring, wk, RxFill, RxCopy
      <3>2. ASSUME NEW r \in Reqs, RxNext(r)
            PROVE  Same
        BY <3>2 DEF RxNext, Held, Taken, Taking, Posting, ring, wk, RxFill, RxCopy
      <3>3. CASE RxPut
        BY <3>3 DEF RxPut, Held, Taken, Taking, Posting, wk, RxFill, RxCopy
      <3>4. CASE RxFind
        BY <3>4 DEF RxFind, Held, Taken, Taking, Posting, ring, wk, RxFill, RxCopy
      <3>5. CASE Quiet /\ ~ (WkWaitFull \/ WkTake \/ WkPostEmpty)
        <4>1. /\ UNCHANGED <<wr_idx, rd_idx, empty, full, rx_pc>>
              /\ Taken' = Taken /\ Taking' = Taking
          BY <3>5
          DEF Quiet, Worker, WkSkip, WkNotInProgress, WkCorrupted, WkReady, WkExec,
              WkReply, WkFree, WkReset, WkComplete, RxNotFound, ClRecv, Rest, vars,
              ring, rx, wk, Taken, Taking
        <4> QED
          BY <4>1 DEF Held, Posting, RxFill, RxCopy
      <3> QED
        BY <1>8, <3>1, <3>2, <3>3, <3>4, <3>5
    <2>2. Unread' = Unread
      BY <2>1 DEF Unread
    <2>3. Incomplete' = Incomplete
      BY <2>1, IncompleteStep
    <2> QED
      BY <2>1, <2>2, <2>3, <1>i, <1>k, <1>t DEF TokenBound, RingSync
  <1> QED
    BY <1>1, <1>2, <1>3, <1>4, <1>5, <1>6, <1>7, <1>8, Cases
-----------------------------------------------------------------------------
\* IInv is an invariant of the request path.
THEOREM Invariance == Spec => []IInv
  <1>1. IInv /\ [Next]_vars => IInv'
    BY TypeStep, MsgStep, SlotStep, TokenStep DEF IInv
  <1> QED
    BY <1>1, InitIInv, PTL DEF Spec

\* Every variable of the request path stays in its range; in particular the
\* receiver's sem_wait and the worker's sem_post keep empty between 0 and Size.
THEOREM TypeCorrect == Spec => []TypeOK
  <1>1. IInv => TypeOK
    BY DEF IInv
  <1> QED
    BY <1>1, Invariance, PTL

\* However many clients, slots and parts, and even while the worker and the
\* receiver fight over a slot, wr_idx is Unread slots ahead of rd_idx.
THEOREM RingSynchronised == Spec => []RingSync
  <1>1. IInv => RingSync
    BY DEF IInv
  <1> QED
    BY <1>1, Invariance, PTL
=============================================================================
