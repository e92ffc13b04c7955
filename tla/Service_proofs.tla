---------------------------- MODULE Service_proofs ----------------------------
(***************************************************************************)
(* Shutdown is safe for the tables, no request is executed twice, the      *)
(* queues and the semaphore keep their bounds, and every call gets its own *)
(* answer, for any number of processes, calls, signals and restarts.       *)
(***************************************************************************)
EXTENDS Service, Clients_proofs, FiniteSetTheorems, SequenceTheorems, WellFoundedInduction

Step == Next \/ UNCHANGED vars

\* main goes on only when a thread has ended, and none comes back.
JoinInv ==
    /\ main # "join_rx" => rx = "ended"
    /\ main \in {"save", "saved"} => wk = "ended"

(* A step of a client touches no thread.                                    *)
LEMMA JoinStep ==
    ASSUME JoinInv, Step
    PROVE  JoinInv'
<1>1. CASE UNCHANGED serviceVars
    BY <1>1 DEF JoinInv, serviceVars, threadVars
<1>2. CASE Receiver
    BY <1>2 DEF Receiver, RxTest, RxReceive, RxBlock, RxPut, MayPut, RxFind, RxCopy, JoinInv
<1>3. CASE Worker
  <2>1. CASE WkServe \/ WkSkip \/ WkReply \/ WkEnd
      BY <2>1 DEF WkServe, WkSkip, Taken, WkReply, WkEnd, JoinInv
  <2>2. CASE WkKill
      BY <2>2 DEF WkKill, Interrupted, JoinInv
  <2>3. QED
      BY <1>3, <2>1, <2>2 DEF Worker
<1>4. CASE Main
    BY <1>4 DEF Main, MainJoinReceiver, MainJoinWorker, MainSave, JoinInv
<1>5. CASE Signal
    BY <1>5 DEF Signal, Interrupted, JoinInv
<1>6. CASE Start
    BY <1>6 DEF Start, Started, JoinInv
<1>7. CASE UNCHANGED vars
    BY <1>1, <1>7 DEF vars
<1>8. QED
    BY <1>1, <1>2, <1>3, <1>4, <1>5, <1>6, <1>7 DEF Step, Next

(* TablesQuiescent for every number of clients, signals and restarts: main  *)
(* saves the tables when both threads have ended (service.c 223-230).       *)
THEOREM SavesAlone == Spec => []TablesQuiescent
<1>1. Init => JoinInv
    BY DEF Init, JoinInv
<1>2. JoinInv /\ [Next]_vars => JoinInv'
    BY JoinStep DEF Step
<1>3. JoinInv => TablesQuiescent
    BY DEF JoinInv, TablesQuiescent
<1>4. QED
    BY <1>1, <1>2, <1>3, PTL DEF Spec
-----------------------------------------------------------------------------
(* Where a call is on its way from the request queue to its execution.      *)
Ops == DOMAIN Library \cup {"none"}
Message == [id : Processes \X Nat, seq : Int, op : Ops, parts : Nat, part : Nat]
RingSlot == [id : Processes \X Nat, seq : Int, op : Ops, parts : Nat, got : Nat]

Firsts(s) == {k \in DOMAIN s : s[k].part = 0}
Asked == {requests[k].id : k \in Firsts(requests)}
Holds == rx \in {"put", "forced", "copy"}
Held == IF Holds /\ msg.part = 0 THEN {msg.id} ELSE {}
Waiting == {ring[k].id : k \in DOMAIN ring}
Begun == {x \in Processes \X Nat : x[2] < counter[x[1]]}
Somewhere == Asked \cup Held \cup Waiting \cup Executed

PCs == {"idle", "send", "recv", "exited"}
CallRecord(U) ==
    [pc : PCs, op : Ops, parts : Nat, sent : Nat, got : Nat, from : SUBSET U]

CallShape ==
    /\ counter \in [Processes -> Nat]
    /\ \E U : call \in [Processes -> CallRecord(U)]
    /\ \A p \in Processes : call[p].pc # "idle" => counter[p] > 0
PathShape ==
    /\ requests \in Seq(Message) /\ ring \in Seq(RingSlot)
    /\ Holds => msg \in Message
    /\ executed \in Seq(Processes \X Nat)

\* No call is in two places, and one that has sent nothing is in none.
InOrder ==
    /\ \A j, k \in Firsts(requests) : requests[j].id = requests[k].id => j = k
    /\ \A j, k \in DOMAIN ring : ring[j].id = ring[k].id => j = k
    /\ AtMostOnce
InOnePlace ==
    /\ Asked \cap (Held \cup Waiting \cup Executed) = {}
    /\ Held \cap (Waiting \cup Executed) = {}
    /\ Waiting \cap Executed = {}
Known ==
    /\ Somewhere \subseteq Begun
    /\ \A p \in Processes : call[p].pc = "send" /\ call[p].sent = 0 => Id(p) \notin Somewhere

\* The slot that the receiver has found is the one at its place in the ring.
FoundShape ==
    /\ found \in [at : 0 .. Len(ring), slot : RingSlot \cup {NoMsg}]
    /\ rx = "copy" =>
          /\ found.slot \in RingSlot /\ found.slot.seq = msg.seq
          /\ found.at > 0 => ring[found.at] = found.slot

OnceInv == CallShape /\ PathShape /\ InOrder /\ InOnePlace /\ Known

(* What Tail and Append do to the places of a queue.                        *)
LEMMA TailPlaces ==
    ASSUME NEW S, NEW s \in Seq(S), s # <<>>
    PROVE  /\ Tail(s) \in Seq(S) /\ Head(s) = s[1] /\ 1 \in DOMAIN s /\ Head(s) \in S
           /\ \A k \in DOMAIN Tail(s) : k + 1 \in DOMAIN s /\ Tail(s)[k] = s[k + 1] /\ k \in Nat \ {0}
    OBVIOUS

LEMMA AppendPlaces ==
    ASSUME NEW S, NEW s \in Seq(S), NEW e \in S
    PROVE  /\ Append(s, e) \in Seq(S)
           /\ DOMAIN Append(s, e) = DOMAIN s \cup {Len(s) + 1} /\ Len(s) + 1 \notin DOMAIN s
           /\ \A k \in DOMAIN s : Append(s, e)[k] = s[k]
           /\ Append(s, e)[Len(s) + 1] = e
    OBVIOUS

\* Nothing moves but what is left behind.
OnlyFewer ==
    /\ Asked' \subseteq Asked /\ Held' \subseteq Held /\ Waiting' \subseteq Waiting
    /\ UNCHANGED <<counter, call, executed>>

(* A step after which every place holds the same calls or fewer.            *)
LEMMA FewerKeeps ==
    ASSUME OnceInv, OnlyFewer, PathShape', InOrder'
    PROVE  OnceInv'
<1>1. CallShape'
    BY DEF OnceInv, OnlyFewer, CallShape
<1>2. Executed' = Executed /\ Begun' = Begun
    BY DEF OnlyFewer, Executed, Begun
<1>3. InOnePlace'
    BY <1>2 DEF OnceInv, OnlyFewer, InOnePlace
<1>4. Somewhere' \subseteq Somewhere
    BY <1>2 DEF OnlyFewer, Somewhere
<1>5. \A p \in Processes : Id(p)' = Id(p)
    BY DEF OnlyFewer, Id
<1>6. Known'
    BY <1>2, <1>4, <1>5 DEF OnceInv, OnlyFewer, Known
<1>7. QED
    BY <1>1, <1>3, <1>6 DEF OnceInv

(* Steps that touch neither the queue nor the ring.                         *)
LEMMA QuietKeeps ==
    ASSUME OnceInv, UNCHANGED <<counter, call, requests, ring, executed>>,
           Holds' => Holds /\ msg' = msg
    PROVE  OnceInv'
<1>1. OnlyFewer
    BY DEF OnlyFewer, Asked, Firsts, Held, Waiting
<1>2. PathShape' /\ InOrder'
    BY DEF OnceInv, PathShape, InOrder, Firsts, AtMostOnce
<1>3. QED
    BY <1>1, <1>2, FewerKeeps

(* What follows when no message moves.                                      *)
LEMMA PathKeeps ==
    ASSUME OnceInv, UNCHANGED <<requests, ring, executed, rx, msg>>
    PROVE  PathShape' /\ InOrder' /\ InOnePlace' /\ Somewhere' = Somewhere
<1>1. /\ requests' = requests /\ ring' = ring /\ executed' = executed
      /\ rx' = rx /\ msg' = msg
    OBVIOUS
<1>2. PathShape'
    BY <1>1 DEF OnceInv, PathShape, Holds
<1>3. InOrder'
    BY <1>1 DEF OnceInv, InOrder, Firsts, AtMostOnce
<1>4. Asked' = Asked /\ Held' = Held /\ Waiting' = Waiting /\ Executed' = Executed
    BY <1>1 DEF Asked, Firsts, Held, Holds, Waiting, Executed
<1>5. InOnePlace' /\ Somewhere' = Somewhere
    BY <1>4 DEF OnceInv, InOnePlace, Somewhere
<1>6. QED
    BY <1>2, <1>3, <1>5

(* The slots that are left keep their order when the ring loses its head.   *)
LEMMA DropKeeps ==
    ASSUME OnceInv, ring # <<>>, ring' = Tail(ring)
    PROVE  /\ ring' \in Seq(RingSlot)
           /\ \A j, k \in DOMAIN ring' : ring'[j].id = ring'[k].id => j = k
           /\ Waiting' \subseteq Waiting \ {Head(ring).id}
           /\ Head(ring).id \in Waiting /\ Head(ring) \in RingSlot
<1>1. ring \in Seq(RingSlot)
    BY DEF OnceInv, PathShape
<1>2. /\ ring' \in Seq(RingSlot) /\ Head(ring) = ring[1] /\ 1 \in DOMAIN ring /\ Head(ring) \in RingSlot
      /\ \A k \in DOMAIN ring' : k + 1 \in DOMAIN ring /\ ring'[k] = ring[k + 1] /\ k \in Nat \ {0}
    BY <1>1, TailPlaces
<1>3. \A j, k \in DOMAIN ring : ring[j].id = ring[k].id => j = k
    BY DEF OnceInv, InOrder
<1>4. ASSUME NEW j \in DOMAIN ring', NEW k \in DOMAIN ring', ring'[j].id = ring'[k].id
      PROVE  j = k
  <2>1. j + 1 = k + 1
      BY <1>2, <1>3, <1>4
  <2>2. QED
      BY <1>2, <2>1
<1>5. ASSUME NEW k \in DOMAIN ring'
      PROVE  ring'[k].id \in Waiting /\ ring'[k].id # Head(ring).id
  <2>1. k + 1 # 1
      BY <1>2
  <2>2. QED
      BY <1>2, <1>3, <2>1 DEF Waiting
<1>6. QED
    BY <1>2, <1>4, <1>5 DEF Waiting
-----------------------------------------------------------------------------
(* What a part sent changes in the call.                                    *)
LEMMA Sent ==
    ASSUME NEW U, call \in [Processes -> CallRecord(U)], NEW p \in Processes, Send(p)
    PROVE  /\ call' \in [Processes -> CallRecord(U)]
           /\ \A q \in Processes \ {p} : call'[q] = call[q]
           /\ call'[p].sent = call[p].sent + 1
<1> DEFINE x == IF call[p].sent + 1 = call[p].parts THEN "recv" ELSE "send"
           n == call[p].sent + 1
           f == [call EXCEPT ![p].sent = n]
<1>1. call' = [call EXCEPT ![p].sent = n, ![p].pc = x]
    BY Zenon DEF Send
<1>2. x \in PCs /\ n \in Nat
    BY DEF CallRecord, PCs
<1> HIDE DEF x, n
<1>3. f \in [Processes -> CallRecord(U)] /\ f[p].sent = n /\ \A q \in Processes \ {p} : f[q] = call[q]
    BY <1>2 DEF CallRecord
<1>4. call' \in [Processes -> CallRecord(U)]
    BY <1>1, <1>2, <1>3 DEF CallRecord
<1>5. \A q \in Processes \ {p} : call'[q] = call[q]
    BY <1>1, <1>3 DEF CallRecord
<1>6. call'[p].sent = n
    BY <1>1, <1>2, <1>3 DEF CallRecord
<1>7. QED
    BY <1>4, <1>5, <1>6 DEF n

(* What an answer received changes in it.                                   *)
LEMMA Received ==
    ASSUME NEW U, call \in [Processes -> CallRecord(U)], NEW p \in Processes, Receive(p)
    PROVE  \E V : /\ call' \in [Processes -> CallRecord(V)]
                  /\ \A q \in Processes \ {p} : call'[q] = call[q]
                  /\ call'[p].pc # "send" 
<1> DEFINE k == CHOOSE k \in Mine(p) : \A j \in Mine(p) : k <= j
           r == responses[k]
           more == Library[call[p].op].gathers /\ call[p].got + 1 < r.parts
           broken == call[p].got > 0 /\ r.parts = 1
           x == IF broken THEN "exited" ELSE IF more THEN "recv" ELSE "idle"
           V == U \cup {r.id}
           n == call[p].got + 1
           s == call[p].from \cup {r.id}
<1>1. call' = [call EXCEPT ![p].got = n, ![p].from = s, ![p].pc = x]
    BY Zenon DEF Receive
<1>2. x \in PCs /\ x # "send"
    BY DEF PCs
<1>3. n \in Nat /\ s \in SUBSET V /\ call \in [Processes -> CallRecord(V)]
    BY DEF CallRecord
<1> HIDE DEF k, r, x, V, n, s
<1>4. [call EXCEPT ![p].got = n] \in [Processes -> CallRecord(V)]
    BY <1>3 DEF CallRecord
<1>5. [call EXCEPT ![p].got = n, ![p].from = s] \in [Processes -> CallRecord(V)]
    BY <1>3, <1>4 DEF CallRecord
<1>6. \A q \in Processes \ {p} : [call EXCEPT ![p].got = n, ![p].from = s][q] = call[q]
    BY <1>3, <1>4 DEF CallRecord
<1>7. call' \in [Processes -> CallRecord(V)]
    BY <1>1, <1>2, <1>5 DEF CallRecord
<1>8. \A q \in Processes \ {p} : call'[q] = call[q]
    BY <1>1, <1>5, <1>6 DEF CallRecord
<1>9. call'[p].pc = x
    BY <1>1, <1>2, <1>5 DEF CallRecord
<1>10. QED
    BY <1>2, <1>7, <1>8, <1>9

(* A call that begins is nowhere yet.                                       *)
LEMMA BeginKeeps ==
    ASSUME OnceInv, NEW p \in Processes, NEW op \in Operations[p], NEW parts \in 1 .. MaxParts,
           Begin(p, op, parts), UNCHANGED serviceVars
    PROVE  OnceInv'
<1>1. UNCHANGED <<requests, ring, executed, rx, msg>>
    BY DEF Begin, serviceVars, threadVars
<1>2. /\ counter' = [counter EXCEPT ![p] = @ + 1]
      /\ call' = [call EXCEPT ![p] = [NoCall EXCEPT !.pc = "send", !.op = op, !.parts = parts]]
      /\ counter \in [Processes -> Nat]
    BY DEF Begin, OnceInv, CallShape
<1>3. parts \in Nat /\ op \in Ops
    BY RoomAssumption, OperationsAssumption DEF Ops
<1>4. counter' \in [Processes -> Nat] /\ counter'[p] = counter[p] + 1
      /\ \A q \in Processes \ {p} : counter'[q] = counter[q]
    BY <1>2
<1>5. PICK U : call \in [Processes -> CallRecord(U)]
    BY DEF OnceInv, CallShape
<1>6. /\ call' \in [Processes -> CallRecord(U)]
      /\ call'[p].pc = "send"
      /\ \A q \in Processes \ {p} : call'[q] = call[q]
  <2> DEFINE r == [NoCall EXCEPT !.pc = "send", !.op = op, !.parts = parts]
  <2>1. NoCall \in CallRecord(U)
      BY DEF NoCall, CallRecord, PCs, Ops
  <2>2. [NoCall EXCEPT !.pc = "send"] \in CallRecord(U) /\ [NoCall EXCEPT !.pc = "send"].pc = "send"
      BY <2>1 DEF CallRecord, PCs
  <2>3. /\ [NoCall EXCEPT !.pc = "send", !.op = op] \in CallRecord(U)
        /\ [NoCall EXCEPT !.pc = "send", !.op = op].pc = "send"
      BY <1>3, <2>2 DEF CallRecord
  <2>4. r \in CallRecord(U) /\ r.pc = "send"
      BY <1>3, <2>3 DEF CallRecord
  <2>5. call' = [call EXCEPT ![p] = r]
      BY <1>2
  <2> HIDE DEF r
  <2>6. QED
      BY <1>5, <2>4, <2>5
<1>6a. CallShape'
  <2>1. \A q \in Processes : call'[q].pc # "idle" => counter'[q] > 0
      BY <1>2, <1>4, <1>6 DEF OnceInv, CallShape
  <2>2. \E V : call' \in [Processes -> CallRecord(V)]
      BY <1>6
  <2>3. QED
      BY <1>4, <2>1, <2>2 DEF CallShape, CallRecord, Ops
<1>7. PathShape' /\ InOrder' /\ InOnePlace' /\ Somewhere' = Somewhere
    BY <1>1, PathKeeps
<1>8. Known'
  <2>1. Begun \subseteq Begun'
      BY <1>2, <1>4 DEF Begun
  <2>2. <<p, counter[p]>> \notin Begun
      BY <1>2 DEF Begun
  <2>3. Id(p)' = <<p, counter[p]>>
      BY <1>2, <1>4 DEF Id
  <2>4. \A q \in Processes \ {p} : Id(q)' = Id(q)
      BY <1>4 DEF Id
  <2>5. QED
      BY <1>6, <1>7, <2>1, <2>2, <2>3, <2>4 DEF OnceInv, Known
<1>9. QED
    BY <1>6a, <1>7, <1>8 DEF OnceInv

(* Only the first part of a request brings its call into the queue.         *)
LEMMA SendKeeps ==
    ASSUME OnceInv, NEW p \in Processes, Send(p), UNCHANGED serviceVars
    PROVE  OnceInv'
<1> DEFINE m == [id |-> Id(p), seq |-> Seq_(p), op |-> call[p].op,
                 parts |-> call[p].parts, part |-> call[p].sent]
<1>1. UNCHANGED <<counter, ring, executed, rx, msg>>
    BY DEF Send, serviceVars, threadVars
<1>2. /\ requests' = Append(requests, m)
      /\ call[p].pc = "send"
    BY DEF Send
<1>3. counter \in [Processes -> Nat] /\ counter[p] > 0 /\ requests \in Seq(Message)
    BY <1>2 DEF OnceInv, CallShape, PathShape
<1>0. PICK U : call \in [Processes -> CallRecord(U)]
    BY DEF OnceInv, CallShape
<1>4. Id(p) \in Begun /\ Id(p) \in Processes \X Nat
    BY <1>3 DEF Id, Begun
<1>5. m \in Message
  <2>1. Seq_(p) \in Int
    <3>1. Pid[p] \in Nat /\ Window \in Nat /\ Unsigned \in Nat \ {0} /\ counter[p] - 1 \in Nat
        BY <1>3, ProcessAssumption, WidthAssumption
    <3>2. Pid[p] * Window + (counter[p] - 1) \in Int
        BY <3>1
    <3>3. QED
        BY <3>1, <3>2 DEF Seq_, GetSeq
  <2>2. QED
      BY <1>0, <1>4, <2>1 DEF Message, CallRecord
<1>6. /\ requests' \in Seq(Message)
      /\ DOMAIN requests' = DOMAIN requests \cup {Len(requests) + 1} /\ Len(requests) + 1 \notin DOMAIN requests
      /\ \A k \in DOMAIN requests : requests'[k] = requests[k]
      /\ requests'[Len(requests) + 1] = m
    BY <1>2, <1>3, <1>5, AppendPlaces
<1>7. /\ call' \in [Processes -> CallRecord(U)]
      /\ \A q \in Processes \ {p} : call'[q] = call[q]
      /\ call'[p].sent = call[p].sent + 1
    BY <1>0, Sent
<1>7a. call[p].sent \in Nat
    BY <1>0 DEF CallRecord
<1>8. CallShape'
  <2>1. \A q \in Processes : call'[q].pc # "idle" => counter'[q] > 0
      BY <1>1, <1>3, <1>7 DEF OnceInv, CallShape
  <2>2. \E V : call' \in [Processes -> CallRecord(V)]
      BY <1>7
  <2>3. QED
      BY <1>1, <1>3, <2>1, <2>2 DEF CallShape, CallRecord, Ops
<1>9. PathShape'
    BY <1>1, <1>6 DEF OnceInv, PathShape, Holds, Message, RingSlot, Ops
<1>10. UNCHANGED <<Held, Waiting, Executed, Begun>> /\ \A q \in Processes : Id(q)' = Id(q)
    BY <1>1 DEF Held, Holds, Waiting, Executed, Begun, Id
<1>11. CASE call[p].sent = 0
  <2>1. Id(p) \notin Somewhere
      BY <1>2, <1>11 DEF OnceInv, Known
  <2>2. Firsts(requests)' = Firsts(requests) \cup {Len(requests) + 1}
      BY <1>6, <1>11 DEF Firsts
  <2>3. Asked' = Asked \cup {Id(p)}
      BY <1>6, <2>2 DEF Asked, Firsts
  <2>4. InOrder'
    <3>1. ASSUME NEW k \in Firsts(requests)
          PROVE  requests'[k].id = requests[k].id /\ requests[k].id # Id(p)
        BY <1>6, <2>1 DEF Somewhere, Asked, Firsts
    <3>2. requests'[Len(requests) + 1].id = Id(p)
        BY <1>6
    <3>3. \A j, k \in Firsts(requests)' : requests'[j].id = requests'[k].id => j = k
        BY <2>2, <3>1, <3>2 DEF OnceInv, InOrder
    <3>4. QED
        BY <1>1, <3>3 DEF OnceInv, InOrder, AtMostOnce
  <2>5. InOnePlace'
      BY <1>10, <2>1, <2>3 DEF OnceInv, InOnePlace, Somewhere
  <2>6. Somewhere' = Somewhere \cup {Id(p)}
      BY <1>10, <2>3 DEF Somewhere
  <2>7. \A q \in Processes \ {p} : Id(q) # Id(p)
      BY DEF Id
  <2>8. call'[p].sent # 0
      BY <1>7, <1>11
  <2>9. Known'
      BY <1>4, <1>7, <1>10, <2>6, <2>7, <2>8 DEF OnceInv, Known
  <2>10. QED
      BY <1>8, <1>9, <2>4, <2>5, <2>9 DEF OnceInv
<1>12. CASE call[p].sent # 0
  <2>1. Firsts(requests)' = Firsts(requests)
      BY <1>6, <1>12 DEF Firsts
  <2>2. Asked' = Asked
      BY <1>6, <2>1 DEF Asked, Firsts
  <2>3. InOrder'
      BY <1>1, <1>6, <2>1 DEF OnceInv, InOrder, AtMostOnce, Firsts
  <2>4. InOnePlace' /\ Somewhere' = Somewhere
      BY <1>10, <2>2 DEF OnceInv, InOnePlace, Somewhere
  <2>5. call'[p].sent # 0
      BY <1>7, <1>7a
  <2>6. Known'
      BY <1>7, <1>10, <2>4, <2>5 DEF OnceInv, Known
  <2>7. QED
      BY <1>8, <1>9, <2>3, <2>4, <2>6 DEF OnceInv
<1>13. QED
    BY <1>11, <1>12

(* A call that waits, ends or is cut off sends nothing more.                *)
LEMMA WaitKeeps ==
    ASSUME OnceInv, NEW p \in Processes, Receive(p) \/ Exit(p) \/ Guess(p), UNCHANGED serviceVars
    PROVE  OnceInv'
<1>1. UNCHANGED <<counter, requests, ring, executed, rx, msg>>
    BY DEF Receive, Exit, Guess, serviceVars, threadVars
<1>2. call[p].pc # "idle"
    BY DEF Receive, Exit, Guess
<1>0. PICK U : call \in [Processes -> CallRecord(U)]
    BY DEF OnceInv, CallShape
<1>3. \E V : /\ call' \in [Processes -> CallRecord(V)]
             /\ \A q \in Processes \ {p} : call'[q] = call[q]
             /\ call'[p].pc # "send"
  <2>1. CASE Receive(p)
      BY <1>0, <2>1, Received
  <2>2. CASE Exit(p)
    <3>1. call' = [call EXCEPT ![p].pc = "exited"]
        BY <2>2 DEF Exit
    <3>2. QED
        BY <1>0, <3>1 DEF CallRecord, PCs
  <2>3. CASE Guess(p)
      BY <1>0, <2>3 DEF Guess, CallRecord, PCs
  <2>4. QED
      BY <2>1, <2>2, <2>3
<1>4. CallShape'
  <2>1. \A q \in Processes : call'[q].pc # "idle" => counter'[q] > 0
      BY <1>1, <1>2, <1>3 DEF OnceInv, CallShape
  <2>2. QED
      BY <1>1, <1>3, <2>1 DEF OnceInv, CallShape, CallRecord, Ops
<1>5. PathShape' /\ InOrder' /\ InOnePlace' /\ Somewhere' = Somewhere
    BY <1>1, PathKeeps
<1>6. Known'
    BY <1>1, <1>3, <1>5 DEF OnceInv, Known, Begun, Id
<1>7. QED
    BY <1>4, <1>5, <1>6 DEF OnceInv
-----------------------------------------------------------------------------
(* The receiver takes the head of the request queue.                        *)
LEMMA ReceiveKeeps ==
    ASSUME OnceInv, RxReceive
    PROVE  OnceInv'
<1>1. /\ requests # <<>> /\ requests' = Tail(requests) /\ msg' = Head(requests) /\ rx' = "put" /\ rx \in {"call", "recv"}
      /\ UNCHANGED <<counter, call, ring, executed>>
    BY DEF RxReceive
<1>2. requests \in Seq(Message)
    BY DEF OnceInv, PathShape
<1>3. /\ requests' \in Seq(Message) /\ msg' = requests[1] /\ 1 \in DOMAIN requests /\ msg' \in Message
      /\ \A k \in DOMAIN requests' : k + 1 \in DOMAIN requests /\ requests'[k] = requests[k + 1] /\ k \in Nat \ {0}
    BY <1>1, <1>2, TailPlaces
<1>4. \A j, k \in Firsts(requests) : requests[j].id = requests[k].id => j = k
    BY DEF OnceInv, InOrder
<1>5. \A k \in Firsts(requests)' : k + 1 \in Firsts(requests) /\ requests'[k] = requests[k + 1] /\ k \in Nat \ {0}
    BY <1>3 DEF Firsts
<1>6. \A j, k \in Firsts(requests)' : requests'[j].id = requests'[k].id => j = k
  <2>1. ASSUME NEW j \in Firsts(requests)', NEW k \in Firsts(requests)', requests'[j].id = requests'[k].id
        PROVE  j = k
    <3>1. j + 1 = k + 1
        BY <1>4, <1>5, <2>1
    <3>2. QED
        BY <1>5, <3>1
  <2>2. QED
      BY <2>1
<1>7. Asked' \subseteq Asked
    BY <1>5 DEF Asked
<1>8. Held = {} /\ Held' \subseteq Asked
    BY <1>1, <1>3 DEF Held, Holds, Asked, Firsts
<1>9. Held' \cap Asked' = {}
  <2>1. ASSUME NEW k \in Firsts(requests)', msg'.part = 0, requests'[k].id = msg'.id
        PROVE  FALSE
    <3>1. 1 \in Firsts(requests)
        BY <1>3, <2>1 DEF Firsts
    <3>2. k + 1 = 1
        BY <1>3, <1>4, <1>5, <2>1, <3>1
    <3>3. QED
        BY <1>5, <3>2
  <2>2. QED
      BY <2>1 DEF Held, Asked
<1>10. Waiting' = Waiting /\ Executed' = Executed /\ Begun' = Begun
    BY <1>1 DEF Waiting, Executed, Begun
<1>11. PathShape'
    BY <1>1, <1>3 DEF OnceInv, PathShape, Holds, Message, RingSlot, Ops
<1>12. InOrder'
    BY <1>1, <1>6 DEF OnceInv, InOrder, AtMostOnce
<1>13. InOnePlace' /\ Somewhere' \subseteq Somewhere
    BY <1>7, <1>8, <1>9, <1>10 DEF OnceInv, InOnePlace, Somewhere
<1>14. CallShape'
    BY <1>1 DEF OnceInv, CallShape, CallRecord, Ops
<1>15. Known'
  <2>1. \A p \in Processes : Id(p)' = Id(p)
      BY <1>1 DEF Id
  <2>2. QED
      BY <1>1, <1>10, <1>13, <2>1 DEF OnceInv, Known
<1>16. QED
    BY <1>11, <1>12, <1>13, <1>14, <1>15 DEF OnceInv

(* The slot that a first part makes: a new one, or, when the receiver could *)
(* not wait for room, the one that is read next.                            *)
LEMMA PutPlaces ==
    ASSUME OnceInv, RxPut
    PROVE  \E n \in DOMAIN ring' :
              /\ ring' \in Seq(RingSlot) /\ ring'[n] = Slot(msg)
              /\ DOMAIN ring' = DOMAIN ring \cup {n}
              /\ \A i \in DOMAIN ring \ {n} : ring'[i] = ring[i]
              /\ n \in DOMAIN ring => rx = "forced"
              /\ Len(ring) <= RingSize => Len(ring') <= RingSize
              /\ Len(ring) <= Len(ring')
<1>1. /\ ring' = IF Len(ring) < RingSize THEN Append(ring, Slot(msg)) ELSE [ring EXCEPT ![1] = Slot(msg)]
      /\ MayPut
    BY DEF RxPut
<1>2. ring \in Seq(RingSlot) /\ msg \in Message
    BY <1>1 DEF OnceInv, PathShape, Holds, MayPut
<1>3. PICK s : s = Slot(msg)
    OBVIOUS
<1>4. s \in RingSlot
    BY <1>2, <1>3 DEF Slot, Message, RingSlot
<1>5. CASE Len(ring) < RingSize
  <2>1. ring' = Append(ring, s)
      BY <1>1, <1>3, <1>5
  <2>2. /\ ring' \in Seq(RingSlot)
        /\ DOMAIN ring' = DOMAIN ring \cup {Len(ring) + 1} /\ Len(ring) + 1 \notin DOMAIN ring
        /\ \A k \in DOMAIN ring : ring'[k] = ring[k]
        /\ ring'[Len(ring) + 1] = s
      BY <1>2, <1>4, <2>1, AppendPlaces
  <2>3. Len(ring') = Len(ring) + 1
      BY <1>2, <1>4, <2>1
  <2>4. Len(ring') <= RingSize /\ Len(ring) <= Len(ring')
      BY <1>2, <1>5, <2>3, ServiceAssumption
  <2>5. QED
      BY <1>3, <2>2, <2>4
<1>6. CASE ~(Len(ring) < RingSize)
  <2>1. ring' = [ring EXCEPT ![1] = s] /\ rx = "forced"
      BY <1>1, <1>3, <1>6 DEF MayPut
  <2>2. 1 \in DOMAIN ring
      BY <1>2, <1>6, ServiceAssumption
  <2>3. /\ ring' \in Seq(RingSlot) /\ Len(ring') = Len(ring) /\ DOMAIN ring' = DOMAIN ring
        /\ ring'[1] = s /\ \A i \in DOMAIN ring \ {1} : ring'[i] = ring[i]
      BY <1>2, <1>4, <2>1, <2>2
  <2>4. Len(ring) <= Len(ring)
      BY <1>2
  <2>5. QED
      BY <1>3, <2>1, <2>2, <2>3, <2>4
<1>7. QED
    BY <1>5, <1>6

(* A first part goes from the receiver to a slot.                           *)
LEMMA PutKeeps ==
    ASSUME OnceInv, RxPut
    PROVE  OnceInv'
<1>1. /\ rx \in {"put", "forced"} /\ msg.part = 0 /\ rx' = "test"
      /\ UNCHANGED <<counter, call, requests, executed>>
    BY DEF RxPut, MayPut, clientVars
<1>2. ring \in Seq(RingSlot) /\ msg \in Message
    BY <1>1 DEF OnceInv, PathShape, Holds
<1>3. Slot(msg).id = msg.id
    BY DEF Slot
<1>4. PICK n \in DOMAIN ring' :
              /\ ring' \in Seq(RingSlot) /\ ring'[n].id = msg.id
              /\ DOMAIN ring' = DOMAIN ring \cup {n}
              /\ \A i \in DOMAIN ring \ {n} : ring'[i] = ring[i]
    BY <1>3, PutPlaces
<1>5. Held = {msg.id} /\ Held' = {}
    BY <1>1 DEF Held, Holds
<1>6. Waiting' \subseteq Waiting \cup {msg.id}
    BY <1>4 DEF Waiting
<1>7. msg.id \notin Waiting
    BY <1>5 DEF OnceInv, InOnePlace
<1>8. \A j, k \in DOMAIN ring' : ring'[j].id = ring'[k].id => j = k
  <2>1. \A k \in DOMAIN ring \ {n} : ring'[k].id = ring[k].id /\ ring[k].id # msg.id
      BY <1>4, <1>7 DEF Waiting
  <2>2. QED
      BY <1>4, <2>1 DEF OnceInv, InOrder
<1>9. Asked' = Asked /\ Executed' = Executed /\ Begun' = Begun
    BY <1>1 DEF Asked, Firsts, Executed, Begun
<1>10. InOnePlace' /\ Somewhere' \subseteq Somewhere
    BY <1>5, <1>6, <1>9 DEF OnceInv, InOnePlace, Somewhere
<1>11. PathShape'
    BY <1>1, <1>4 DEF OnceInv, PathShape, Holds, Message, RingSlot, Ops
<1>12. InOrder'
    BY <1>1, <1>8 DEF OnceInv, InOrder, AtMostOnce, Firsts
<1>13. CallShape'
    BY <1>1 DEF OnceInv, CallShape, CallRecord, Ops
<1>14. Known'
  <2>1. \A p \in Processes : Id(p)' = Id(p)
      BY <1>1 DEF Id
  <2>2. QED
      BY <1>1, <1>9, <1>10, <2>1 DEF OnceInv, Known
<1>15. QED
    BY <1>10, <1>11, <1>12, <1>13, <1>14 DEF OnceInv

\* A later part is counted in the k-th slot.
Copied(k) ==
    /\ k \in DOMAIN ring /\ ring[k] = found.slot /\ ring[k] \in RingSlot /\ ring[k].seq = msg.seq
    /\ ring' \in Seq(RingSlot) /\ Len(ring') = Len(ring) /\ DOMAIN ring' = DOMAIN ring
    /\ \A i \in DOMAIN ring : i # k => ring'[i] = ring[i]
    /\ ring'[k] = [ring[k] EXCEPT !.got = ring[k].got + 1]

(* A later part is counted in the slot found for it, or comes too late; one *)
(* too many changes nothing but ends the process.                           *)
LEMMA CopyPlaces ==
    ASSUME OnceInv, FoundShape, RxCopy
    PROVE  \/ UNCHANGED <<rx, msg, found, ring, full>>
           \/ /\ rx' = "test" /\ found' = NoSlot
              /\ found.slot \in RingSlot
              /\ full' = IF found.slot.got + 1 = found.slot.parts THEN full + 1 ELSE full
              /\ (found.at = 0 /\ ring' = ring) \/ Copied(found.at)
<1>1. PICK s : s = [found.slot EXCEPT !.got = found.slot.got + 1]
    OBVIOUS
<1>2. /\ rx = "copy" /\ found.slot \in RingSlot /\ found.slot.seq = msg.seq /\ found.at \in 0 .. Len(ring)
      /\ found.at > 0 => ring[found.at] = found.slot
    BY DEF RxCopy, FoundShape
<1>3. s \in RingSlot /\ s.got = found.slot.got + 1 /\ s.parts = found.slot.parts
    BY <1>1, <1>2 DEF RingSlot
<1>4. IF s.got > s.parts THEN UNCHANGED <<rx, msg, found, ring, full>>
      ELSE /\ ring' = IF found.at > 0 THEN [ring EXCEPT ![found.at] = s] ELSE ring
           /\ full' = IF s.got = s.parts THEN full + 1 ELSE full
           /\ rx' = "test" /\ found' = NoSlot
    BY <1>1 DEF RxCopy
<1>5. ring \in Seq(RingSlot)
    BY DEF OnceInv, PathShape
<1>6. CASE s.got > s.parts
    BY <1>4, <1>6
<1>7. CASE ~(s.got > s.parts) /\ found.at = 0
    BY <1>2, <1>3, <1>4, <1>7
<1>8. CASE ~(s.got > s.parts) /\ found.at # 0
  <2>1. found.at \in DOMAIN ring /\ found.at > 0
      BY <1>2, <1>5, <1>8
  <2>2. ring' = [ring EXCEPT ![found.at] = s]
      BY <1>4, <1>8, <2>1
  <2>3. /\ ring' \in Seq(RingSlot) /\ Len(ring') = Len(ring) /\ DOMAIN ring' = DOMAIN ring
        /\ \A i \in DOMAIN ring : i # found.at => ring'[i] = ring[i]
        /\ ring'[found.at] = s
      BY <1>3, <1>5, <2>1, <2>2
  <2>4. Copied(found.at)
      BY <1>1, <1>2, <2>1, <2>3 DEF Copied
  <2>5. QED
      BY <1>2, <1>3, <1>4, <1>8, <2>4
<1>9. QED
    BY <1>6, <1>7, <1>8

(* A later part changes no call's place.                                    *)
LEMMA CopyKeeps ==
    ASSUME OnceInv, FoundShape, RxCopy
    PROVE  OnceInv'
<1>1. UNCHANGED <<counter, call, requests, executed>> /\ rx = "copy"
    BY DEF RxCopy, clientVars
<1>2. CASE UNCHANGED <<rx, msg, ring>>
    BY <1>1, <1>2, QuietKeeps DEF Holds
<1>3. CASE rx' = "test" /\ ring' = ring
    BY <1>1, <1>3, QuietKeeps DEF Holds
<1>4. CASE rx' = "test" /\ Copied(found.at)
  <2>1. /\ ring' \in Seq(RingSlot) /\ DOMAIN ring' = DOMAIN ring
        /\ \A i \in DOMAIN ring : ring'[i].id = ring[i].id
    <3>1. PICK k : k = found.at
        OBVIOUS
    <3>2. ring[k] \in RingSlot /\ ring'[k] = [ring[k] EXCEPT !.got = ring[k].got + 1]
        BY <1>4, <3>1 DEF Copied
    <3>3. ring'[k].id = ring[k].id
        BY <3>2 DEF RingSlot
    <3>4. QED
        BY <1>4, <3>1, <3>3 DEF Copied
  <2>2. Waiting' = Waiting
      BY <2>1 DEF Waiting
  <2>3. OnlyFewer
      BY <1>1, <1>4, <2>2 DEF OnlyFewer, Asked, Firsts, Held, Holds
  <2>4. PathShape'
      BY <1>1, <1>4, <2>1 DEF OnceInv, PathShape, Holds, Message, RingSlot, Ops
  <2>5. InOrder'
      BY <1>1, <2>1 DEF OnceInv, InOrder, AtMostOnce, Firsts
  <2>6. QED
      BY <2>3, <2>4, <2>5, FewerKeeps
<1>5. QED
    BY <1>2, <1>3, <1>4, CopyPlaces

(* The worker moves a call from its slot to those executed.                 *)
LEMMA ServeKeeps ==
    ASSUME OnceInv, WkServe
    PROVE  OnceInv'
<1> DEFINE x == Head(ring).id
<1>1. /\ ring # <<>> /\ ring' = Tail(ring) /\ executed' = Append(executed, x)
      /\ UNCHANGED <<counter, call, requests, rx, msg>>
    BY DEF WkServe, Taken, Passed, clientVars
<1>2. /\ ring' \in Seq(RingSlot)
      /\ \A j, k \in DOMAIN ring' : ring'[j].id = ring'[k].id => j = k
      /\ Waiting' \subseteq Waiting \ {x}
      /\ x \in Waiting /\ Head(ring) \in RingSlot
    BY <1>1, DropKeeps
<1>3. x \in Processes \X Nat /\ executed \in Seq(Processes \X Nat)
    BY <1>2 DEF RingSlot, OnceInv, PathShape
<1> HIDE DEF x
<1>4. /\ executed' \in Seq(Processes \X Nat)
      /\ DOMAIN executed' = DOMAIN executed \cup {Len(executed) + 1} /\ Len(executed) + 1 \notin DOMAIN executed
      /\ \A k \in DOMAIN executed : executed'[k] = executed[k]
      /\ executed'[Len(executed) + 1] = x
    BY <1>1, <1>3, AppendPlaces
<1>5. x \notin Executed
    BY <1>2 DEF OnceInv, InOnePlace
<1>6. AtMostOnce'
  <2>1. \A k \in DOMAIN executed : executed'[k] = executed[k] /\ executed[k] # x
      BY <1>4, <1>5 DEF Executed
  <2>2. QED
      BY <1>4, <2>1 DEF OnceInv, InOrder, AtMostOnce
<1>7. Executed' = Executed \cup {x}
    BY <1>4 DEF Executed
<1>8. Asked' = Asked /\ Held' = Held /\ Begun' = Begun
    BY <1>1 DEF Asked, Firsts, Held, Holds, Begun
<1>9. InOnePlace' /\ Somewhere' \subseteq Somewhere
    BY <1>2, <1>7, <1>8 DEF OnceInv, InOnePlace, Somewhere
<1>10. PathShape'
    BY <1>1, <1>2, <1>4 DEF OnceInv, PathShape, Holds, Message, RingSlot, Ops
<1>11. InOrder'
    BY <1>1, <1>2, <1>6 DEF OnceInv, InOrder, Firsts
<1>12. CallShape'
    BY <1>1 DEF OnceInv, CallShape, CallRecord, Ops
<1>13. Known'
  <2>1. \A p \in Processes : Id(p)' = Id(p)
      BY <1>1 DEF Id
  <2>2. QED
      BY <1>1, <1>8, <1>9, <2>1 DEF OnceInv, Known
<1>14. QED
    BY <1>9, <1>10, <1>11, <1>12, <1>13 DEF OnceInv

(* A slot that is dropped leaves the others as they were.                   *)
LEMMA SkipKeeps ==
    ASSUME OnceInv, WkSkip \/ WkEnd
    PROVE  OnceInv'
<1>1. /\ UNCHANGED <<counter, call, requests, executed, rx, msg>>
      /\ \/ ring' = ring
         \/ ring # <<>> /\ ring' = Tail(ring)
    BY DEF WkSkip, Taken, WkEnd, Passed, clientVars
<1>2. CASE ring' = ring
    BY <1>1, <1>2, QuietKeeps DEF Holds
<1>3. CASE ring # <<>> /\ ring' = Tail(ring)
  <2>1. /\ ring' \in Seq(RingSlot)
        /\ \A j, k \in DOMAIN ring' : ring'[j].id = ring'[k].id => j = k
        /\ Waiting' \subseteq Waiting
      BY <1>3, DropKeeps
  <2>2. OnlyFewer
      BY <1>1, <2>1 DEF OnlyFewer, Asked, Firsts, Held, Holds
  <2>3. PathShape' /\ InOrder'
      BY <1>1, <2>1 DEF OnceInv, PathShape, Holds, InOrder, AtMostOnce, Firsts, Message, RingSlot, Ops
  <2>4. QED
      BY <2>2, <2>3, FewerKeeps
<1>4. QED
    BY <1>1, <1>2, <1>3

(* The ring of a service that is started again is empty.                    *)
LEMMA StartKeeps ==
    ASSUME OnceInv, Start
    PROVE  OnceInv'
<1>1. UNCHANGED <<counter, call, requests, executed>> /\ ring' = <<>> /\ rx' = "test"
    BY DEF Start, Started, clientVars
<1>2. Waiting' = {} /\ Held' = {} /\ DOMAIN ring' = {}
    BY <1>1 DEF Waiting, Held, Holds
<1>3. OnlyFewer
    BY <1>1, <1>2 DEF OnlyFewer, Asked, Firsts
<1>4. PathShape'
    BY <1>1 DEF OnceInv, PathShape, Holds, Message, RingSlot, Ops
<1>5. InOrder'
    BY <1>1, <1>2 DEF OnceInv, InOrder, AtMostOnce, Firsts
<1>6. QED
    BY <1>3, <1>4, <1>5, FewerKeeps

(* Every step keeps each call in one place.                                 *)
LEMMA OnceStep ==
    ASSUME OnceInv, FoundShape, Step
    PROVE  OnceInv'
<1>1. ASSUME NEW p \in Processes, Client(p), UNCHANGED serviceVars
      PROVE  OnceInv'
    BY <1>1, BeginKeeps, SendKeeps, WaitKeeps DEF Client
<1>2. CASE RxTest \/ RxBlock \/ RxFind \/ WkReply \/ WkKill \/ Main \/ Signal \/ UNCHANGED vars
  <2>1. /\ UNCHANGED <<counter, call, requests, ring, executed>>
        /\ Holds' => Holds /\ msg' = msg
    <3>1. CASE RxTest \/ RxBlock \/ WkReply \/ Main \/ UNCHANGED vars
        BY <3>1 DEF Holds, RxTest, RxBlock, WkReply, Main, MainJoinReceiver, MainJoinWorker, MainSave, vars,
                    clientVars, serviceVars, threadVars
    <3>2. CASE WkKill
        BY <3>2 DEF Holds, WkKill, Interrupted, clientVars
    <3>3. CASE Signal
        BY <3>3 DEF Holds, Signal, Interrupted, clientVars
    <3>4. CASE RxFind
        BY <3>4 DEF Holds, RxFind, clientVars
    <3>5. QED
        BY <1>2, <3>1, <3>2, <3>3, <3>4
  <2>2. QED
      BY <2>1, QuietKeeps
<1>3. QED
    BY <1>1, <1>2, ReceiveKeeps, PutKeeps, CopyKeeps, ServeKeeps, SkipKeeps, StartKeeps
       DEF Step, Next, Receiver, Worker

(* The first slot of a number, the first message of a number.               *)
LEMMA FirstExists ==
    ASSUME NEW T, T \subseteq Nat, T # {}
    PROVE  \E m \in T : \A k \in T : m <= k
<1> DEFINE R == OpToRel(<, Nat)
<1>1. IsWellFoundedOn(R, Nat)
    BY NatLessThanWellFounded
<1>2. \A x, y \in Nat : x < y => <<x, y>> \in R
    BY DEF OpToRel
<1> HIDE DEF R
<1>3. PICK m \in T : \A k \in T : ~ (<<k, m>> \in R)
    BY <1>1, WFMin
<1>4. \A k \in T : ~ (k < m)
    BY <1>2, <1>3
<1>5. QED
    BY <1>4

(* The slot that the receiver has found moves with the ring.                *)
LEMMA FoundPassed ==
    ASSUME OnceInv, FoundShape, Passed, UNCHANGED <<rx, msg>>
    PROVE  FoundShape'
<1>1. ring \in Seq(RingSlot) /\ found \in [at : 0 .. Len(ring), slot : RingSlot \cup {NoMsg}]
    BY DEF OnceInv, PathShape, FoundShape
<1>2. PICK n, s : n = found.at /\ s = found.slot
    OBVIOUS
<1>3. n \in 0 .. Len(ring) /\ s \in RingSlot \cup {NoMsg} /\ found = [at |-> n, slot |-> s]
    BY <1>1, <1>2
<1>4. found' = [at |-> IF n > 0 THEN n - 1 ELSE 0, slot |-> s]
    BY <1>2, <1>3 DEF Passed
<1>5. CASE ring = <<>>
  <2>1. ring' = ring /\ n = 0
      BY <1>3, <1>5 DEF Passed
  <2>2. found' = found
      BY <1>3, <1>4, <2>1
  <2>3. QED
      BY <2>1, <2>2 DEF FoundShape, RingSlot, Ops
<1>6. CASE ring # <<>>
  <2>1. ring' = Tail(ring)
      BY <1>6 DEF Passed
  <2>2. ring' \in Seq(RingSlot) /\ Len(ring') = Len(ring) - 1 /\ \A k \in 1 .. Len(ring) - 1 : ring'[k] = ring[k + 1]
      BY <1>1, <1>6, <2>1
  <2>3. PICK m : m = IF n > 0 THEN n - 1 ELSE 0
      OBVIOUS
  <2>4. m \in 0 .. Len(ring') /\ (m > 0 => n = m + 1 /\ m \in 1 .. Len(ring) - 1)
      BY <1>1, <1>3, <1>6, <2>2, <2>3
  <2>5. found' \in [at : 0 .. Len(ring'), slot : RingSlot \cup {NoMsg}] /\ found'.at = m /\ found'.slot = s
      BY <1>3, <1>4, <2>3, <2>4
  <2>6. ASSUME rx = "copy"
        PROVE  s \in RingSlot /\ s.seq = msg.seq /\ (m > 0 => ring'[m] = s)
    <3>1. s \in RingSlot /\ s.seq = msg.seq /\ (n > 0 => ring[n] = s)
        BY <1>2, <2>6 DEF FoundShape
    <3>2. m > 0 => n > 0
        BY <1>3, <2>4
    <3>3. QED
        BY <2>2, <2>4, <3>1, <3>2
  <2>7. QED
      BY <2>5, <2>6 DEF FoundShape, RingSlot, Ops
<1>7. QED
    BY <1>5, <1>6

LEMMA FoundStep ==
    ASSUME OnceInv, FoundShape, Step
    PROVE  FoundShape'
<1>0. /\ ring \in Seq(RingSlot) /\ found \in [at : 0 .. Len(ring), slot : RingSlot \cup {NoMsg}]
      /\ NoSlot \in [at : {0}, slot : {NoMsg}]
      /\ RingSlot' = RingSlot /\ NoMsg' = NoMsg /\ NoSlot' = NoSlot
    BY DEF OnceInv, PathShape, FoundShape, RingSlot, Ops, NoMsg, NoSlot
<1>1. CASE UNCHANGED <<ring, found>> /\ (rx' = "copy" => rx = "copy" /\ msg' = msg)
    BY <1>0, <1>1 DEF FoundShape
<1>2. CASE RxPut
  <2>1. rx' = "test" /\ found' = found
      BY <1>2 DEF RxPut
  <2>2. Len(ring) <= Len(ring') /\ Len(ring') \in Nat
    <3>1. ring' \in Seq(RingSlot) /\ Len(ring) <= Len(ring')
        BY <1>2, PutPlaces
    <3>2. QED
        BY <3>1
  <2>3. 0 .. Len(ring) \subseteq 0 .. Len(ring')
      BY <1>0, <2>2
  <2>4. QED
      BY <1>0, <2>1, <2>3 DEF FoundShape
<1>3. CASE RxFind
  <2>1. CASE SlotsOf(msg.seq) = {}
      BY <1>1, <1>3, <2>1 DEF RxFind
  <2>2. CASE SlotsOf(msg.seq) # {}
    <3> DEFINE k == CHOOSE k \in SlotsOf(msg.seq) : \A j \in SlotsOf(msg.seq) : k <= j
    <3>1. found' = [at |-> k, slot |-> ring[k]] /\ UNCHANGED <<msg, ring>>
        BY <1>3, <2>2, Zenon DEF RxFind
    <3>2. SlotsOf(msg.seq) \subseteq DOMAIN ring /\ DOMAIN ring \subseteq Nat
          /\ \A j \in SlotsOf(msg.seq) : ring[j].seq = msg.seq
        BY <1>0 DEF SlotsOf
    <3>3. k \in SlotsOf(msg.seq)
      <4>1. PICK m \in SlotsOf(msg.seq) : \A j \in SlotsOf(msg.seq) : m <= j
          BY <2>2, <3>2, FirstExists
      <4>2. QED
          BY <4>1
    <3> HIDE DEF k
    <3>4. k \in 0 .. Len(ring) /\ ring[k] \in RingSlot /\ ring[k].seq = msg.seq
        BY <1>0, <3>2, <3>3
    <3>5. found'.at = k /\ found'.slot = ring[k] /\ found' \in [at : 0 .. Len(ring), slot : RingSlot \cup {NoMsg}]
        BY <3>1, <3>4
    <3>6. QED
        BY <1>0, <3>1, <3>4, <3>5 DEF FoundShape
  <2>3. QED
      BY <2>1, <2>2
<1>4. CASE RxCopy
  <2>1. CASE UNCHANGED <<rx, msg, found, ring, full>>
      BY <1>1, <2>1
  <2>2. CASE rx' = "test" /\ found' = NoSlot /\ (ring' = ring \/ Copied(found.at))
    <3>1. Len(ring') \in Nat
        BY <1>0, <2>2 DEF Copied
    <3>2. 0 \in 0 .. Len(ring')
        BY <3>1
    <3>3. QED
        BY <1>0, <2>2, <3>2 DEF FoundShape
  <2>3. QED
      BY <1>4, <2>1, <2>2, CopyPlaces
<1>5. CASE WkServe \/ WkSkip \/ WkEnd
  <2>1. Passed /\ UNCHANGED <<rx, msg>>
      BY <1>5 DEF WkServe, WkSkip, WkEnd, Taken
  <2>2. QED
      BY <2>1, FoundPassed
<1>6. CASE Start
  <2>1. ring' = <<>> /\ found' = NoSlot /\ rx' = "test"
      BY <1>6 DEF Start, Started
  <2>2. 0 \in 0 .. Len(ring')
      BY <2>1
  <2>3. QED
      BY <1>0, <2>1, <2>2 DEF FoundShape
<1>7. CASE RxTest \/ RxReceive \/ RxBlock \/ WkReply \/ WkKill \/ Main \/ Signal \/ UNCHANGED serviceVars \/ UNCHANGED vars
  <2>1. UNCHANGED <<ring, found>> /\ (rx' = "copy" => rx = "copy" /\ msg' = msg)
    <3>1. CASE RxTest \/ RxReceive \/ RxBlock \/ WkReply \/ Main \/ UNCHANGED serviceVars \/ UNCHANGED vars
        BY <3>1 DEF RxTest, RxReceive, RxBlock, WkReply, Main, MainJoinReceiver, MainJoinWorker, MainSave,
                    vars, serviceVars, threadVars
    <3>2. CASE WkKill
        BY <3>2 DEF WkKill, Interrupted
    <3>3. CASE Signal
        BY <3>3 DEF Signal, Interrupted
    <3>4. QED
        BY <1>7, <3>1, <3>2, <3>3
  <2>2. QED
      BY <1>1, <2>1
<1>8. QED
    BY <1>2, <1>3, <1>4, <1>5, <1>6, <1>7 DEF Step, Next, Receiver, Worker

(* At first nothing is on its way.                                          *)
LEMMA OnceInit == Init => OnceInv /\ FoundShape
<1> SUFFICES ASSUME Init
             PROVE  OnceInv /\ FoundShape
    OBVIOUS
<1>1. /\ found = NoSlot /\ counter = [p \in Processes |-> 0] /\ call = [p \in Processes |-> NoCall]
      /\ requests = <<>> /\ ring = <<>> /\ executed = <<>> /\ rx = "test"
    BY DEF Init, ClientInit
<1>2. NoCall \in CallRecord({}) /\ NoCall.pc = "idle"
    BY DEF NoCall, CallRecord, PCs, Ops
<1>3. CallShape
  <2>1. call \in [Processes -> CallRecord({})]
      BY <1>1, <1>2
  <2>2. QED
      BY <1>1, <1>2, <2>1 DEF CallShape
<1>4. DOMAIN requests = {} /\ DOMAIN ring = {} /\ DOMAIN executed = {}
    BY <1>1
<1>5. Asked = {} /\ Held = {} /\ Waiting = {} /\ Executed = {}
    BY <1>1, <1>4 DEF Asked, Firsts, Held, Holds, Waiting, Executed
<1>6. PathShape /\ InOrder /\ FoundShape
    BY <1>1, <1>4 DEF PathShape, FoundShape, NoSlot, Holds, InOrder, Firsts, AtMostOnce
<1>7. InOnePlace /\ Known
    BY <1>5 DEF InOnePlace, Known, Somewhere
<1>8. QED
    BY <1>3, <1>6, <1>7 DEF OnceInv

(* The invariant that the next result follows from.                         *)
THEOREM OnceInvariance == Spec => [](OnceInv /\ FoundShape)
<1>1. OnceInv /\ FoundShape /\ [Next]_vars => (OnceInv /\ FoundShape)'
    BY OnceStep, FoundStep DEF Step
<1>2. QED
    BY OnceInit, <1>1, PTL DEF Spec

(* AtMostOnce for every number of processes, calls, signals and restarts:   *)
(* no request is executed twice, however its parts and the ends of the      *)
(* service interleave (service.c 40-70, 79-147).                            *)
THEOREM ExecutedOnce == Spec => []AtMostOnce
<1>1. OnceInv /\ FoundShape => AtMostOnce
    BY DEF OnceInv, InOrder
<1>2. QED
    BY OnceInvariance, <1>1, PTL
-----------------------------------------------------------------------------
\* The types that TypeOK adds: what the threads do, and the room in the queues.
ThreadsOK ==
    /\ rx \in {"test", "call", "recv", "put", "forced", "copy", "ended"} /\ wk \in {"wait", "reply", "kill", "ended"}
    /\ main \in {"join_rx", "join_wk", "save", "saved"}
    /\ rd \in 0 .. RingSize - 1 /\ working \in BOOLEAN /\ up \in BOOLEAN
    /\ rx = "forced" \/ wk = "kill" => ~working
Response == [id : Processes \X Nat, seq : Int, parts : Nat]
QueuesOK ==
    /\ responses \in Seq(Response)
    /\ wk = "reply" => cur \in [req : RingSlot, answers : Nat, sent : Nat]
    /\ Len(requests) <= RequestRoom /\ Len(responses) <= ResponseRoom /\ Len(ring) <= RingSize
CallsBounded ==
    /\ \A p \in Processes : counter[p] <= MaxCalls[p]
    /\ abandoned \subseteq Begun

\* Every token is one for a request whose parts have all come, but for three:
\* one more is left when the worker takes a slot without a token on its way
\* out, when the receiver overwrites a slot on its own, and when the last part
\* of a request is counted that the worker has skipped.
Whole == {k \in DOMAIN ring : ring[k].got >= ring[k].parts}
Untaken == IF wk \in {"kill", "ended"} THEN 1 ELSE 0
Overrun == IF ~working /\ rx \in {"test", "ended"} THEN 1 ELSE 0
Pending == IF rx = "copy" /\ found.at = 0 /\ found.slot.got < found.slot.parts THEN 1 ELSE 0
TokensOK == full \in Nat /\ full + Pending <= Cardinality(Whole) + Untaken + Overrun

RoomInv == OnceInv /\ FoundShape /\ ThreadsOK /\ QueuesOK /\ CallsBounded /\ TokensOK

(* What the threads do.                                                     *)
LEMMA ThreadsStep ==
    ASSUME ThreadsOK, Step
    PROVE  ThreadsOK'
<1>0. \A i \in 0 .. RingSize - 1 : (i + 1) % RingSize \in 0 .. RingSize - 1
    BY ServiceAssumption
<1>1. CASE UNCHANGED serviceVars
    BY <1>1 DEF ThreadsOK, serviceVars, threadVars
<1>2. CASE Receiver
  <2>1. CASE RxTest \/ RxReceive \/ RxBlock \/ RxPut
    BY <2>1 DEF RxTest, RxReceive, RxBlock, RxPut, ThreadsOK
  <2>2. CASE RxFind \/ RxCopy
    <3>1. /\ rx \in {"put", "copy"} /\ rx' \in {"put", "copy", "test"} /\ (up' = up \/ up' = FALSE)
          /\ UNCHANGED <<wk, main, rd, working>>
        BY <2>2 DEF RxFind, RxCopy, Dies
    <3>2. QED
        BY <3>1 DEF ThreadsOK
  <2>3. QED
    BY <1>2, <2>1, <2>2 DEF Receiver
<1>3. CASE Worker
  <2>1. CASE WkServe
    BY <1>0, <2>1 DEF WkServe, Taken, Passed, ThreadsOK
  <2>2. CASE WkSkip
    BY <1>0, <2>2 DEF WkSkip, Taken, Passed, ThreadsOK
  <2>3. CASE WkReply
    BY <2>3 DEF WkReply, ThreadsOK
  <2>4. CASE WkEnd
    BY <1>0, <2>4 DEF WkEnd, Passed, ThreadsOK
  <2>5. CASE WkKill
    BY <2>5 DEF WkKill, Interrupted, ThreadsOK
  <2>6. QED
    BY <1>3, <2>1, <2>2, <2>3, <2>4, <2>5 DEF Worker
<1>4. CASE Main
  <2>1. main' \in {"join_wk", "save", "saved"} /\ UNCHANGED <<rx, wk, rd, working>> /\ (up' = up \/ up' = FALSE)
    BY <1>4, Zenon DEF Main, MainJoinReceiver, MainJoinWorker, MainSave
  <2>2. QED
    BY <2>1 DEF ThreadsOK
<1>5. CASE Signal
  <2>1. /\ UNCHANGED <<wk, main, rd>> /\ working' = FALSE
        /\ rx' \in {rx, "forced", "ended"}
    BY <1>5 DEF Signal, Interrupted
  <2>2. up' = up \/ up' \in BOOLEAN
    BY <1>5, Zenon DEF Signal, Dies
  <2>3. QED
    BY <2>1, <2>2 DEF ThreadsOK
<1>6. CASE Start
  <2>1. 0 \in 0 .. RingSize - 1
    BY ServiceAssumption
  <2>2. QED
    BY <1>6, <2>1 DEF Start, Started, ThreadsOK
<1>7. CASE UNCHANGED vars
    BY <1>1, <1>7 DEF vars
<1>8. QED
    BY <1>1, <1>2, <1>3, <1>4, <1>5, <1>6, <1>7 DEF Step, Next

(* Removing a message leaves the others in their order.                     *)
LEMMA RemovePlaces ==
    ASSUME NEW S, NEW s \in Seq(S), NEW k \in DOMAIN s
    PROVE  /\ RemoveAt(s, k) \in Seq(S) /\ Len(RemoveAt(s, k)) = Len(s) - 1
           /\ \A j \in DOMAIN RemoveAt(s, k) :
                 LET i == IF j < k THEN j ELSE j + 1
                 IN  i \in DOMAIN s /\ i # k /\ RemoveAt(s, k)[j] = s[i]
<1>1. Len(s) \in Nat /\ DOMAIN s = 1 .. Len(s) /\ k \in 1 .. Len(s)
    OBVIOUS
<1> DEFINE a == SubSeq(s, 1, k - 1)
           b == SubSeq(s, k + 1, Len(s))
<1>2. a \in Seq(S) /\ Len(a) = k - 1 /\ \A j \in 1 .. k - 1 : a[j] = s[j]
    BY <1>1
<1>3. b \in Seq(S) /\ Len(b) = Len(s) - k /\ \A j \in 1 .. Len(s) - k : b[j] = s[k + j]
    BY <1>1
<1>4. RemoveAt(s, k) = a \o b
    BY DEF RemoveAt
<1> HIDE DEF a, b
<1>5. /\ a \o b \in Seq(S) /\ Len(a \o b) = Len(s) - 1
      /\ \A j \in 1 .. Len(s) - 1 : (a \o b)[j] = IF j <= k - 1 THEN a[j] ELSE b[j - (k - 1)]
  <2>1. /\ a \o b \in Seq(S) /\ Len(a \o b) = Len(a) + Len(b)
        /\ \A j \in 1 .. Len(a) + Len(b) :
              (a \o b)[j] = IF j <= Len(a) THEN a[j] ELSE b[j - Len(a)]
    BY <1>2, <1>3, ConcatProperties
  <2>2. Len(a) + Len(b) = Len(s) - 1
    BY <1>1, <1>2, <1>3
  <2>3. QED
    BY <1>2, <2>1, <2>2
<1>6. ASSUME NEW j \in 1 .. Len(s) - 1
      PROVE  LET i == IF j < k THEN j ELSE j + 1
             IN  i \in DOMAIN s /\ i # k /\ (a \o b)[j] = s[i]
  <2>1. CASE j < k
    BY <1>1, <1>2, <1>5, <2>1
  <2>2. CASE ~ (j < k)
    <3>1. (a \o b)[j] = b[j - (k - 1)] /\ j - (k - 1) \in 1 .. Len(s) - k
        BY <1>1, <1>5, <2>2
    <3>2. k + (j - (k - 1)) = j + 1
        BY <1>1
    <3>3. QED
        BY <1>1, <1>3, <2>2, <3>1, <3>2
  <2>3. QED
    BY <2>1, <2>2
<1>7. DOMAIN (a \o b) = 1 .. Len(s) - 1
    BY <1>5, LenProperties
<1>8. QED
    BY <1>4, <1>5, <1>6, <1>7

(* The service's steps leave the clients' calls alone.                      *)
LEMMA ClientsStill ==
    ASSUME Receiver \/ Worker \/ Main \/ Signal \/ Start \/ UNCHANGED vars
    PROVE  UNCHANGED <<counter, call, abandoned>>
<1>1. CASE Receiver \/ Worker
    BY <1>1 DEF Receiver, RxTest, RxReceive, RxBlock, RxPut, RxFind, RxCopy, Worker, WkServe, WkSkip,
                WkReply, WkEnd, WkKill, clientVars
<1>2. CASE Main \/ Signal \/ Start \/ UNCHANGED vars
    BY <1>2 DEF Main, MainJoinReceiver, MainJoinWorker, MainSave, Signal, Start, vars, clientVars
<1>3. QED
    BY <1>1, <1>2

(* No call is made beyond MaxCalls, and a call given up is one that began.  *)
LEMMA CallsBoundedStep ==
    ASSUME OnceInv, CallsBounded, Step
    PROVE  CallsBounded'
<1>0. counter \in [Processes -> Nat] /\ MaxCalls \in [Processes -> Nat]
    BY RoomAssumption DEF OnceInv, CallShape
<1>1. ASSUME NEW p \in Processes, Client(p), UNCHANGED serviceVars
      PROVE  CallsBounded'
  <2>1. CASE \E op \in Operations[p], parts \in 1 .. MaxParts : Begin(p, op, parts)
    <3>1. counter' = [counter EXCEPT ![p] = @ + 1] /\ counter[p] < MaxCalls[p] /\ abandoned' = abandoned
        BY <2>1 DEF Begin
    <3>2. \A q \in Processes : counter'[q] <= MaxCalls[q] /\ counter[q] <= counter'[q]
        BY <1>0, <3>1 DEF CallsBounded
    <3>3. Begun \subseteq Begun'
      <4>1. \A q \in Processes : counter[q] \in Nat /\ counter'[q] \in Nat
        BY <1>0, <3>1
      <4>2. QED
        BY <3>2, <4>1 DEF Begun
    <3>4. QED
        BY <3>1, <3>2, <3>3 DEF CallsBounded
  <2>2. CASE Send(p)
    BY <2>2 DEF Send, CallsBounded, Begun
  <2>3. CASE Receive(p) \/ Exit(p) \/ Guess(p)
    <3>1. counter' = counter /\ call[p].pc # "idle" /\ abandoned' \subseteq abandoned \cup {Id(p)}
        BY <2>3 DEF Receive, Exit, Guess
    <3>2. counter[p] > 0
        BY <3>1 DEF OnceInv, CallShape
    <3>3. Id(p) \in Begun
        BY <1>0, <3>2 DEF Id, Begun
    <3>4. QED
        BY <3>1, <3>3 DEF CallsBounded, Begun
  <2>4. QED
    BY <1>1, <2>1, <2>2, <2>3 DEF Client
<1>2. CASE Receiver \/ Worker \/ Main \/ Signal \/ Start \/ UNCHANGED vars
    BY <1>2, ClientsStill DEF CallsBounded, Begun
<1>3. QED
    BY <1>1, <1>2 DEF Step, Next

(* What the answer to a call takes from the response queue.                 *)
LEMMA ReceivedPlace ==
    ASSUME QueuesOK, NEW p \in Processes, Receive(p)
    PROVE  \E k \in Mine(p) :
              /\ k \in DOMAIN responses /\ responses[k].seq = Seq_(p) /\ responses[k] \in Response
              /\ responses' = RemoveAt(responses, k)
              /\ \A j \in Mine(p) : k <= j
              /\ LET r == responses[k]
                     more == Library[call[p].op].gathers /\ call[p].got + 1 < r.parts
                     broken == call[p].got > 0 /\ r.parts = 1
                 IN  /\ call' = [call EXCEPT ![p].got = @ + 1, ![p].from = @ \cup {r.id},
                                    ![p].pc = IF broken THEN "exited" ELSE IF more THEN "recv" ELSE "idle"]
                     /\ abandoned' = IF broken THEN abandoned \cup {Id(p)} ELSE abandoned
<1> DEFINE k == CHOOSE k \in Mine(p) : \A j \in Mine(p) : k <= j
<1>1. Mine(p) \subseteq DOMAIN responses /\ DOMAIN responses \subseteq Nat /\ Mine(p) # {}
  <2>1. responses \in Seq(Response)
    BY DEF QueuesOK
  <2>2. DOMAIN responses \subseteq Nat
    BY <2>1
  <2>3. QED
    BY <2>2 DEF Mine, Receive
<1>2. k \in Mine(p) /\ \A j \in Mine(p) : k <= j
  <2>1. PICK m \in Mine(p) : \A j \in Mine(p) : m <= j
    BY <1>1, FirstExists
  <2>2. QED
    BY <2>1
<1>3. /\ responses' = RemoveAt(responses, k)
      /\ LET r == responses[k]
             more == Library[call[p].op].gathers /\ call[p].got + 1 < r.parts
             broken == call[p].got > 0 /\ r.parts = 1
         IN  /\ call' = [call EXCEPT ![p].got = @ + 1, ![p].from = @ \cup {r.id},
                            ![p].pc = IF broken THEN "exited" ELSE IF more THEN "recv" ELSE "idle"]
             /\ abandoned' = IF broken THEN abandoned \cup {Id(p)} ELSE abandoned
    BY Zenon DEF Receive
<1> HIDE DEF k
<1>4. k \in DOMAIN responses /\ responses[k].seq = Seq_(p)
    BY <1>2 DEF Mine
<1>5. responses[k] \in Response
    BY <1>4 DEF QueuesOK
<1>6. QED
    BY <1>2, <1>3, <1>4, <1>5, Zenon

(* The queues and the ring hold no more than they have room for.            *)
LEMMA QueuesStep ==
    ASSUME OnceInv, FoundShape, QueuesOK, Step
    PROVE  QueuesOK'
<1>0. /\ requests \in Seq(Message) /\ ring \in Seq(RingSlot) /\ responses \in Seq(Response)
      /\ RequestRoom \in Nat /\ ResponseRoom \in Nat /\ RingSize \in Nat \ {0} /\ MaxAnswers \in Nat \ {0}
      /\ Len(requests) <= RequestRoom /\ Len(responses) <= ResponseRoom /\ Len(ring) <= RingSize
    BY RoomAssumption, ServiceAssumption DEF OnceInv, PathShape, QueuesOK
<1>t. Response' = Response /\ RingSlot' = RingSlot
    BY DEF Response, RingSlot, Ops
<1>1. ASSUME NEW p \in Processes, Client(p), UNCHANGED serviceVars
      PROVE  QueuesOK'
  <2>0. UNCHANGED <<ring, wk, cur>>
    BY <1>1 DEF serviceVars, threadVars
  <2>1. CASE Send(p)
    <3>1. /\ Len(requests) < RequestRoom /\ responses' = responses
          /\ \E m : requests' = Append(requests, m)
        BY <2>1 DEF Send
    <3>2. Len(requests') = Len(requests) + 1
        BY <1>0, <3>1
    <3>3. QED
        BY <1>0, <1>t, <2>0, <3>1, <3>2 DEF QueuesOK
  <2>2. CASE Receive(p)
    <3>1. PICK k \in DOMAIN responses : responses' = RemoveAt(responses, k)
        BY <2>2, ReceivedPlace
    <3>2. responses' \in Seq(Response) /\ Len(responses') = Len(responses) - 1
        BY <1>0, <3>1, RemovePlaces
    <3>3. requests' = requests
        BY <2>2 DEF Receive
    <3>4. QED
        BY <1>0, <1>t, <2>0, <3>2, <3>3 DEF QueuesOK
  <2>3. CASE Exit(p) \/ Guess(p) \/ \E op \in Operations[p], parts \in 1 .. MaxParts : Begin(p, op, parts)
    <3>1. UNCHANGED <<requests, responses>>
        BY <2>3 DEF Exit, Guess, Begin
    <3>2. QED
        BY <1>t, <2>0, <3>1 DEF QueuesOK
  <2>4. QED
    BY <1>1, <2>1, <2>2, <2>3 DEF Client
<1>2. CASE RxTest \/ RxBlock \/ RxFind \/ WkKill \/ Main \/ Signal \/ UNCHANGED vars
  <2>1. UNCHANGED <<requests, responses, ring, cur>> /\ (wk' = "reply" => wk = "reply")
    BY <1>2 DEF RxTest, RxBlock, RxFind, WkKill, Main, MainJoinReceiver, MainJoinWorker, MainSave, Signal, vars,
                clientVars, serviceVars, threadVars
  <2>2. QED
    BY <1>t, <2>1 DEF QueuesOK
<1>3. CASE RxReceive
  <2>1. /\ requests # <<>> /\ requests' = Tail(requests) /\ UNCHANGED <<responses, ring, cur, wk>>
    BY <1>3 DEF RxReceive
  <2>2. Len(requests') <= RequestRoom
    BY <1>0, <2>1
  <2>3. QED
    BY <1>t, <2>1, <2>2 DEF QueuesOK
<1>4. CASE RxPut
  <2>1. UNCHANGED <<requests, responses, cur, wk>>
    BY <1>4 DEF RxPut, clientVars
  <2>2. Len(ring') <= RingSize
    BY <1>0, <1>4, PutPlaces
  <2>3. QED
    BY <1>t, <2>1, <2>2 DEF QueuesOK
<1>5. CASE RxCopy
  <2>1. UNCHANGED <<requests, responses, cur, wk>>
    BY <1>5 DEF RxCopy, clientVars
  <2>2. Len(ring') = Len(ring)
    BY <1>5, CopyPlaces DEF Copied
  <2>3. QED
    BY <1>0, <1>t, <2>1, <2>2 DEF QueuesOK
<1>6. CASE WkServe
  <2>1. /\ ring # <<>> /\ ring' = Tail(ring) /\ UNCHANGED <<requests, responses>>
        /\ \E n \in 1 .. MaxAnswers : cur' = [req |-> Head(ring), answers |-> n, sent |-> 0]
    BY <1>6 DEF WkServe, Taken, Passed, clientVars
  <2>2. Len(ring') <= RingSize /\ Head(ring) \in RingSlot
    BY <1>0, <2>1
  <2>3. QED
    BY <1>0, <1>t, <2>1, <2>2 DEF QueuesOK
<1>7. CASE WkSkip \/ WkEnd
  <2>1. /\ ring' = ring \/ (ring # <<>> /\ ring' = Tail(ring))
        /\ UNCHANGED <<requests, responses, cur>> /\ wk' # "reply"
    BY <1>7 DEF WkSkip, WkEnd, Taken, Passed, clientVars
  <2>2. Len(ring') <= RingSize
    BY <1>0, <2>1
  <2>3. QED
    BY <1>t, <2>1, <2>2 DEF QueuesOK
<1>8. CASE WkReply
  <2> DEFINE r == [id |-> cur.req.id, seq |-> cur.req.seq, parts |-> cur.answers]
  <2>1. /\ Len(responses) < ResponseRoom /\ responses' = Append(responses, r)
        /\ UNCHANGED <<requests, ring>> /\ wk = "reply"
        /\ wk' = "wait" \/ cur' = [cur EXCEPT !.sent = @ + 1]
    BY <1>8 DEF WkReply
  <2>2. r \in Response /\ cur \in [req : RingSlot, answers : Nat, sent : Nat] /\ cur.sent + 1 \in Nat
    BY <2>1 DEF QueuesOK, Response, RingSlot
  <2>3. responses' \in Seq(Response) /\ Len(responses') <= ResponseRoom
    <3> HIDE DEF r
    <3>1. QED
        BY <1>0, <2>1, <2>2
  <2>4. wk' = "reply" => cur' \in [req : RingSlot, answers : Nat, sent : Nat]
    BY <2>1, <2>2
  <2>5. QED
    BY <1>0, <1>t, <2>1, <2>2, <2>3, <2>4 DEF QueuesOK
<1>9. CASE Start
  <2>1. ring' = <<>> /\ wk' = "wait" /\ UNCHANGED <<requests, responses>>
    BY <1>9 DEF Start, Started, clientVars
  <2>2. QED
    BY <1>0, <1>t, <2>1 DEF QueuesOK
<1>10. QED
    BY <1>1, <1>2, <1>3, <1>4, <1>5, <1>6, <1>7, <1>8, <1>9 DEF Step, Next, Receiver, Worker

(* Places of a sequence are finitely many.                                  *)
LEMMA PlacesFinite ==
    ASSUME NEW S, NEW s \in Seq(S), NEW F \in SUBSET DOMAIN s
    PROVE  IsFiniteSet(F) /\ Cardinality(F) \in Nat
<1>1. IsFiniteSet(1 .. Len(s)) /\ DOMAIN s = 1 .. Len(s)
    BY FS_Interval
<1>2. QED
    BY <1>1, FS_Subset, FS_CardinalityType

(* Of the places of a sequence that loses its head at most one is lost.     *)
LEMMA TailCount ==
    ASSUME NEW S, NEW s \in Seq(S), s # <<>>, NEW F \in SUBSET DOMAIN s, NEW G \in SUBSET DOMAIN Tail(s),
           \A k \in DOMAIN Tail(s) : k + 1 \in F => k \in G
    PROVE  Cardinality(F) <= Cardinality(G) + 1
<1>1. /\ Tail(s) \in Seq(S)
      /\ \A k \in DOMAIN s \ {1} : k - 1 \in DOMAIN Tail(s) /\ (k - 1) + 1 = k
      /\ DOMAIN s \subseteq Nat
    OBVIOUS
<1>2. IsFiniteSet(F) /\ IsFiniteSet(G) /\ Cardinality(F) \in Nat /\ Cardinality(G) \in Nat
    BY <1>1, PlacesFinite
<1> DEFINE E == F \ {1}
           f == [k \in E |-> k - 1]
<1>3. f \in Injection(E, G)
  <2>1. \A k \in E : k - 1 \in G /\ k \in Nat
    BY <1>1
  <2>2. f \in [E -> G]
    BY <2>1
  <2>3. \A j, k \in E : f[j] = f[k] => j = k
    BY <2>1
  <2>4. QED
    BY <2>2, <2>3, Zenon DEF Injection, IsInjective
<1>4. Cardinality(E) <= Cardinality(G)
    BY <1>2, <1>3, FS_Injection
<1>5. Cardinality(F) <= Cardinality(E) + 1 /\ Cardinality(E) \in Nat
  <2>1. IsFiniteSet(E) /\ Cardinality(E) \in Nat
    BY <1>2, FS_RemoveElement, FS_CardinalityType, FS_Subset
  <2>2. CASE 1 \in F
    <3>1. Cardinality(E) = Cardinality(F) - 1
        BY <1>2, <2>2, FS_RemoveElement
    <3>2. QED
        BY <1>2, <2>1, <3>1
  <2>3. CASE 1 \notin F
    <3>1. Cardinality(E) = Cardinality(F)
        BY <1>2, <2>3, FS_RemoveElement
    <3> HIDE DEF E
    <3>2. QED
        BY <1>2, <2>1, <3>1
  <2>4. QED
    BY <2>2, <2>3
<1>6. QED
    BY <1>2, <1>4, <1>5

(* Taking a slot takes at most one whole request.                           *)
LEMMA TakenCount ==
    ASSUME OnceInv, ring # <<>>, ring' = Tail(ring)
    PROVE  Cardinality(Whole) <= Cardinality(Whole') + 1 /\ Cardinality(Whole') \in Nat
<1>1. ring \in Seq(RingSlot)
    BY DEF OnceInv, PathShape
<1>2. /\ ring' \in Seq(RingSlot)
      /\ \A k \in DOMAIN ring' : k + 1 \in DOMAIN ring /\ ring'[k] = ring[k + 1]
    BY <1>1, TailPlaces
<1>3. Whole \in SUBSET DOMAIN ring /\ Whole' \in SUBSET DOMAIN Tail(ring)
    BY DEF Whole
<1>4. \A k \in DOMAIN Tail(ring) : k + 1 \in Whole => k \in Whole'
    BY <1>2 DEF Whole
<1>5. Cardinality(Whole) <= Cardinality(Whole') + 1
    BY <1>1, <1>3, <1>4, TailCount
<1>6. Cardinality(Whole') \in Nat
    BY <1>2, <1>3, PlacesFinite
<1>7. QED
    BY <1>5, <1>6

(* A slot that is dropped gives no token but for the part that comes late.  *)
LEMMA PassedCount ==
    ASSUME OnceInv, OnceInv', FoundShape, Passed, UNCHANGED rx
    PROVE  Cardinality(Whole) + Pending' <= Cardinality(Whole') + 1 + Pending
<1>0. /\ ring \in Seq(RingSlot) /\ ring' \in Seq(RingSlot)
      /\ Whole \in SUBSET DOMAIN ring /\ Whole' \in SUBSET DOMAIN ring'
      /\ found \in [at : 0 .. Len(ring), slot : RingSlot \cup {NoMsg}]
    BY DEF OnceInv, PathShape, Whole, FoundShape
<1>n. /\ IsFiniteSet(Whole) /\ IsFiniteSet(Whole') /\ Cardinality(Whole) \in Nat /\ Cardinality(Whole') \in Nat
      /\ Pending \in {0, 1} /\ Pending' \in {0, 1}
    BY <1>0, PlacesFinite DEF Pending
<1>1. CASE ring = <<>>
  <2>1. Whole' = Whole
    BY <1>1 DEF Passed, Whole
  <2>2. QED
    BY <1>n, <2>1
<1>2. CASE ring # <<>> /\ Pending' <= Pending
  <2>1. Cardinality(Whole) <= Cardinality(Whole') + 1
    BY <1>2, TakenCount DEF Passed
  <2>2. QED
    BY <1>n, <1>2, <2>1
\* The slot found is the one that is passed, and parts of it are missing.
<1>3. CASE ring # <<>> /\ ~(Pending' <= Pending)
  <2>1. Pending = 0 /\ Pending' = 1
    BY <1>n, <1>3
  <2>2. found'.at = (IF found.at > 0 THEN found.at - 1 ELSE 0) /\ found'.slot = found.slot
    BY <1>0 DEF Passed
  <2>3. /\ rx = "copy" /\ found'.at = 0 /\ found.slot.got < found.slot.parts
    BY <2>1, <2>2 DEF Pending
  <2>4. found.at # 0
    BY <2>1, <2>3 DEF Pending
  <2>5. found.at = 1
    BY <1>0, <2>2, <2>3, <2>4
  <2>6. ring[1] = found.slot /\ found.slot \in RingSlot
    BY <2>3, <2>5 DEF FoundShape
  <2>7. 1 \notin Whole
    BY <2>3, <2>6 DEF Whole, RingSlot
  <2>8. ring' = Tail(ring)
    BY <1>3 DEF Passed
  <2>9. /\ \A k \in DOMAIN ring \ {1} : k - 1 \in DOMAIN ring' /\ ring'[k - 1] = ring[k]
        /\ DOMAIN ring \subseteq Nat
    BY <1>0, <1>3, <2>8
  <2> DEFINE f == [k \in Whole |-> k - 1]
  <2>10. f \in Injection(Whole, Whole')
    <3>1. \A k \in Whole : k - 1 \in Whole' /\ k \in Nat
      <4>1. ASSUME NEW k \in Whole PROVE k - 1 \in Whole' /\ k \in Nat
        <5>1. k \in DOMAIN ring \ {1} /\ ring[k].got >= ring[k].parts
          BY <2>7 DEF Whole
        <5>2. k - 1 \in DOMAIN ring' /\ ring'[k - 1] = ring[k] /\ k \in Nat
          BY <2>9, <5>1
        <5>3. QED
          BY <5>1, <5>2 DEF Whole
      <4>2. QED
        BY <4>1
    <3>2. f \in [Whole -> Whole']
      BY <3>1
    <3>3. \A j, k \in Whole : f[j] = f[k] => j = k
      BY <3>1
    <3>4. QED
      BY <3>2, <3>3, Zenon DEF Injection, IsInjective
  <2>11. Cardinality(Whole) <= Cardinality(Whole')
    BY <1>n, <2>10, FS_Injection
  <2>12. QED
    BY <1>n, <2>1, <2>11
<1>4. QED
    BY <1>1, <1>2, <1>3

(* Every token is of a slot, but for three.                                 *)
LEMMA TokensStep ==
    ASSUME OnceInv, OnceInv', FoundShape, ThreadsOK, TokensOK, Step
    PROVE  TokensOK'
<1>0. /\ ring \in Seq(RingSlot) /\ ring' \in Seq(RingSlot)
      /\ Whole \in SUBSET DOMAIN ring /\ Whole' \in SUBSET DOMAIN ring'
    BY DEF OnceInv, PathShape, Whole
<1>n. /\ IsFiniteSet(Whole) /\ IsFiniteSet(Whole') /\ Cardinality(Whole) \in Nat /\ Cardinality(Whole') \in Nat
      /\ {Untaken, Overrun, Pending, Untaken', Overrun', Pending'} \subseteq {0, 1}
      /\ full \in Nat /\ full + Pending <= Cardinality(Whole) + Untaken + Overrun
    BY <1>0, PlacesFinite DEF Untaken, Overrun, Pending, TokensOK
<1>m. Whole \subseteq Whole' => Cardinality(Whole) <= Cardinality(Whole')
    BY <1>n, FS_Subset
<1>1. CASE UNCHANGED <<ring, full>> /\ Untaken' = Untaken /\ Overrun <= Overrun' /\ Pending' <= Pending
  <2>1. Whole' = Whole
    BY <1>1 DEF Whole
  <2>2. QED
    BY <1>1, <1>n, <2>1 DEF TokensOK
<1>2. CASE RxPut
  <2>1. /\ full' = IF msg.parts = 1 THEN full + 1 ELSE full
        /\ wk' = wk /\ msg \in Message /\ rx \in {"put", "forced"} /\ rx' = "test" /\ working' = working
    BY <1>2 DEF RxPut, MayPut, Holds, OnceInv, PathShape
  <2>2. Slot(msg).got = 1 /\ Slot(msg).parts = msg.parts /\ msg.parts \in Nat
    BY <2>1 DEF Slot, Message
  <2>3. PICK n \in DOMAIN ring' :
            /\ ring'[n] = Slot(msg) /\ DOMAIN ring' = DOMAIN ring \cup {n}
            /\ \A i \in DOMAIN ring \ {n} : ring'[i] = ring[i]
            /\ n \in DOMAIN ring => rx = "forced"
    BY <1>2, PutPlaces
  <2>4. Whole \ {n} \subseteq Whole'
    BY <2>3 DEF Whole
  <2>5. Untaken' = Untaken /\ Pending = 0 /\ Pending' = 0 /\ Overrun = 0
    BY <2>1 DEF Untaken, Pending, Overrun
  <2>6. msg.parts = 1 => n \in Whole'
    BY <2>2, <2>3 DEF Whole
  <2>7. CASE n \notin DOMAIN ring
    <3>1. n \notin Whole /\ Whole \subseteq Whole'
      BY <2>4, <2>7 DEF Whole
    <3>2. CASE msg.parts = 1
      <4>1. Whole \cup {n} \subseteq Whole'
        BY <2>6, <3>1, <3>2
      <4>2. Cardinality(Whole) + 1 <= Cardinality(Whole')
        BY <1>n, <3>1, <4>1, FS_AddElement, FS_Subset
      <4>3. full' = full + 1
        BY <2>1, <3>2
      <4>4. QED
        BY <1>n, <2>5, <4>2, <4>3 DEF TokensOK
    <3>3. CASE msg.parts # 1
      <4>1. full' = full
        BY <2>1, <3>3
      <4>2. QED
        BY <1>n, <1>m, <2>5, <3>1, <4>1 DEF TokensOK
    <3>4. QED
      BY <3>2, <3>3
  <2>8. CASE n \in DOMAIN ring
    <3>1. Overrun' = 1
      BY <2>1, <2>3, <2>8 DEF ThreadsOK, Overrun
    <3>2. CASE msg.parts = 1
      <4>1. Whole \subseteq Whole'
        BY <2>4, <2>6, <3>2
      <4>2. full' = full + 1
        BY <2>1, <3>2
      <4>3. QED
        BY <1>n, <1>m, <2>5, <3>1, <4>1, <4>2 DEF TokensOK
    <3>3. CASE msg.parts # 1
      <4>1. Cardinality(Whole) <= Cardinality(Whole') + 1
        <5>1. IsFiniteSet(Whole \ {n}) /\ Cardinality(Whole \ {n}) <= Cardinality(Whole')
          BY <1>n, <2>4, FS_Subset
        <5>2. Cardinality(Whole \ {n}) \in Nat
          BY <5>1, FS_CardinalityType
        <5>3. Cardinality(Whole \ {n}) = IF n \in Whole THEN Cardinality(Whole) - 1 ELSE Cardinality(Whole)
          BY <1>n, FS_RemoveElement
        <5>4. QED
          BY <1>n, <5>1, <5>2, <5>3
      <4>2. full' = full
        BY <2>1, <3>3
      <4>3. QED
        BY <1>n, <2>5, <3>1, <4>1, <4>2 DEF TokensOK
    <3>4. QED
      BY <3>2, <3>3
  <2>9. QED
    BY <2>7, <2>8
<1>3. CASE RxCopy
  <2>1. Untaken' = Untaken /\ Overrun = 0 /\ rx = "copy"
    BY <1>3 DEF RxCopy, Untaken, Overrun
  <2>2. CASE UNCHANGED <<rx, msg, found, ring, full>>
    <3>1. Pending' = Pending
      BY <2>2 DEF Pending
    <3>2. QED
      BY <1>1, <1>n, <2>1, <2>2, <3>1
  <2>3. CASE /\ rx' = "test" /\ found.slot \in RingSlot
             /\ full' = IF found.slot.got + 1 = found.slot.parts THEN full + 1 ELSE full
             /\ found.at = 0 /\ ring' = ring
    <3>1. Whole' = Whole /\ Pending' = 0
      BY <2>3 DEF Whole, Pending
    <3>2. CASE found.slot.got + 1 = found.slot.parts
      <4>1. Pending = 1
        BY <2>1, <2>3, <3>2 DEF Pending, RingSlot
      <4>2. full' = full + 1
        BY <2>3, <3>2
      <4>3. QED
        BY <1>n, <2>1, <3>1, <4>1, <4>2 DEF TokensOK
    <3>3. CASE found.slot.got + 1 # found.slot.parts
      <4>1. full' = full
        BY <2>3, <3>3
      <4>2. QED
        BY <1>n, <2>1, <3>1, <4>1 DEF TokensOK
    <3>4. QED
      BY <3>2, <3>3
  <2>4. CASE /\ rx' = "test"
             /\ full' = IF found.slot.got + 1 = found.slot.parts THEN full + 1 ELSE full
             /\ Copied(found.at)
    <3>1. PICK k : k = found.at
      OBVIOUS
    <3>2. /\ k \in DOMAIN ring /\ ring[k] = found.slot /\ ring[k] \in RingSlot /\ DOMAIN ring' = DOMAIN ring
          /\ \A i \in DOMAIN ring : i # k => ring'[i] = ring[i]
          /\ ring'[k] = [ring[k] EXCEPT !.got = ring[k].got + 1]
          /\ full' = IF ring[k].got + 1 = ring[k].parts THEN full + 1 ELSE full
      BY <2>4, <3>1 DEF Copied
    <3>3. /\ ring[k].got \in Nat /\ ring[k].parts \in Nat
          /\ ring'[k].got = ring[k].got + 1 /\ ring'[k].parts = ring[k].parts
      BY <3>2 DEF RingSlot
    <3>4. Whole \subseteq Whole'
      <4>1. ASSUME NEW i \in Whole PROVE i \in Whole'
        <5>1. i \in DOMAIN ring /\ ring[i].got >= ring[i].parts
          BY DEF Whole
        <5>2. ring'[i].got >= ring'[i].parts
          <6>1. CASE i = k
            BY <3>3, <5>1, <6>1
          <6>2. CASE i # k
            BY <3>2, <5>1, <6>2
          <6>3. QED
            BY <6>1, <6>2
        <5>3. QED
          BY <3>2, <5>1, <5>2 DEF Whole
      <4>2. QED
        BY <4>1
    <3>5. Pending' = 0
      BY <2>4 DEF Pending
    <3>6. CASE ring[k].got + 1 = ring[k].parts
      <4>1. k \notin Whole /\ k \in Whole'
        <5>1. ~(ring[k].got >= ring[k].parts) /\ ring'[k].got >= ring'[k].parts
          BY <3>3, <3>6
        <5>2. QED
          BY <3>2, <5>1 DEF Whole
      <4>2. Cardinality(Whole) + 1 <= Cardinality(Whole')
        <5>1. Whole \cup {k} \subseteq Whole'
          BY <3>4, <4>1
        <5>2. QED
          BY <1>n, <4>1, <5>1, FS_AddElement, FS_Subset
      <4>3. full' = full + 1
        BY <3>2, <3>6
      <4>4. QED
        BY <1>n, <2>1, <3>5, <4>2, <4>3 DEF TokensOK
    <3>7. CASE ring[k].got + 1 # ring[k].parts
      <4>1. full' = full
        BY <3>2, <3>7
      <4>2. QED
        BY <1>n, <1>m, <2>1, <3>4, <3>5, <4>1 DEF TokensOK
    <3>8. QED
      BY <3>6, <3>7
  <2>5. QED
    BY <1>3, <2>2, <2>3, <2>4, CopyPlaces
<1>4. CASE WkServe \/ WkSkip
  <2>1. /\ Passed /\ full' = full - 1 /\ full > 0 /\ UNCHANGED <<rx, working>>
        /\ wk = "wait" /\ wk' \in {"wait", "reply"}
    BY <1>4 DEF WkServe, WkSkip, Taken
  <2>2. Cardinality(Whole) + Pending' <= Cardinality(Whole') + 1 + Pending
    BY <2>1, PassedCount
  <2>3. Untaken = 0 /\ Untaken' = 0 /\ Overrun' = Overrun
    BY <2>1 DEF Untaken, Overrun
  <2>4. QED
    BY <1>n, <2>1, <2>2, <2>3 DEF TokensOK
<1>5. CASE WkEnd
  <2>1. wk = "wait" /\ wk' = "kill" /\ full' = full /\ Passed /\ UNCHANGED <<rx, working>>
    BY <1>5 DEF WkEnd
  <2>2. Untaken = 0 /\ Untaken' = 1 /\ Overrun' = Overrun
    BY <2>1 DEF Untaken, Overrun
  <2>3. Cardinality(Whole) + Pending' <= Cardinality(Whole') + 1 + Pending
    BY <2>1, PassedCount
  <2>4. QED
    BY <1>n, <2>1, <2>2, <2>3 DEF TokensOK
<1>6. CASE Start
  <2>1. full' = 0 /\ rx' = "test"
    BY <1>6 DEF Start, Started
  <2>2. Pending' = 0
    BY <2>1 DEF Pending
  <2>3. QED
    BY <1>n, <2>1, <2>2 DEF TokensOK
<1>7. CASE RxFind
  <2>1. UNCHANGED <<ring, full, wk, working>> /\ rx = "put" /\ rx' \in {"put", "copy"}
        /\ (rx' = "copy" => SlotsOf(msg.seq) # {}
                            /\ found' = [at |-> CHOOSE k \in SlotsOf(msg.seq) : \A j \in SlotsOf(msg.seq) : k <= j,
                                         slot |-> ring[CHOOSE k \in SlotsOf(msg.seq) : \A j \in SlotsOf(msg.seq) : k <= j]])
    BY <1>7, Zenon DEF RxFind
  <2>2. rx' = "copy" => found'.at # 0
    <3>1. ASSUME rx' = "copy" PROVE found'.at # 0
      <4>1. SlotsOf(msg.seq) \subseteq DOMAIN ring /\ DOMAIN ring \subseteq Nat /\ 0 \notin DOMAIN ring
        BY <1>0 DEF SlotsOf
      <4>2. PICK m \in SlotsOf(msg.seq) : \A j \in SlotsOf(msg.seq) : m <= j
        BY <2>1, <3>1, <4>1, FirstExists
      <4>3. QED
        BY <2>1, <3>1, <4>1, <4>2
    <3>2. QED
      BY <3>1
  <2>3. Pending' = 0 /\ Untaken' = Untaken /\ Overrun = 0
    BY <2>1, <2>2 DEF Pending, Untaken, Overrun
  <2>4. QED
    BY <1>1, <1>n, <2>1, <2>3
<1>8. CASE RxTest \/ RxReceive \/ RxBlock \/ WkReply \/ WkKill \/ Main \/ Signal \/ UNCHANGED serviceVars \/ UNCHANGED vars
  <2>1. /\ UNCHANGED <<ring, full, found>> /\ (wk' \in {"kill", "ended"} <=> wk \in {"kill", "ended"})
        /\ ~working => ~working' /\ (rx \in {"test", "ended"} => rx' \in {"test", "ended"})
        /\ rx' = "copy" => rx = "copy"
    <3>1. CASE RxTest \/ RxReceive \/ RxBlock \/ WkReply \/ Main \/ UNCHANGED serviceVars \/ UNCHANGED vars
      BY <3>1 DEF RxTest, RxReceive, RxBlock, WkReply, Main, MainJoinReceiver, MainJoinWorker, MainSave,
                  vars, serviceVars, threadVars
    <3>2. CASE WkKill
      BY <3>2 DEF WkKill, Interrupted
    <3>3. CASE Signal
      BY <3>3 DEF Signal, Interrupted
    <3>4. QED
      BY <1>8, <3>1, <3>2, <3>3
  <2>2. Untaken' = Untaken /\ Overrun <= Overrun' /\ Pending' <= Pending
    <3>1. Untaken' = Untaken
      BY <2>1 DEF Untaken
    <3>2. Overrun <= Overrun'
      BY <2>1 DEF Overrun
    <3>3. Pending' <= Pending
      BY <2>1 DEF Pending
    <3>4. QED
      BY <3>1, <3>2, <3>3
  <2>3. QED
    BY <1>1, <2>1, <2>2
<1>9. QED
    BY <1>2, <1>3, <1>4, <1>5, <1>6, <1>7, <1>8 DEF Step, Next, Receiver, Worker

(* The types hold, from the first state on.                                 *)
LEMMA RoomStep ==
    ASSUME RoomInv, Step
    PROVE  RoomInv'
<1>1. OnceInv' /\ FoundShape'
    BY OnceStep, FoundStep DEF RoomInv
<1>2. QED
    BY <1>1, ThreadsStep, QueuesStep, CallsBoundedStep, TokensStep DEF RoomInv

LEMMA RoomInit == Init => RoomInv
<1> SUFFICES ASSUME Init PROVE RoomInv
    OBVIOUS
<1>1. /\ counter = [p \in Processes |-> 0] /\ requests = <<>> /\ responses = <<>> /\ ring = <<>>
      /\ abandoned = {} /\ full = 0 /\ wk = "wait" /\ rx = "test" /\ main = "join_rx" /\ rd = 0
      /\ working = TRUE /\ up = TRUE
    BY DEF Init, ClientInit
<1>2. ThreadsOK
    BY <1>1, ServiceAssumption DEF ThreadsOK
<1>3. QueuesOK
    BY <1>1, RoomAssumption, ServiceAssumption DEF QueuesOK
<1>4. CallsBounded
    BY <1>1, RoomAssumption DEF CallsBounded
<1>5. TokensOK
  <2>1. Whole = {} /\ Untaken = 0 /\ Pending = 0 /\ Overrun = 0
    BY <1>1 DEF Whole, Untaken, Pending, Overrun
  <2>2. QED
    BY <1>1, <2>1, FS_EmptySet DEF TokensOK
<1>6. QED
    BY <1>2, <1>3, <1>4, <1>5, OnceInit DEF RoomInv

(* What they say of TypeOK.                                                 *)
LEMMA RoomImplies ==
    ASSUME RoomInv
    PROVE  TypeOK
<1>1. /\ counter \in [Processes -> Nat] /\ MaxCalls \in [Processes -> Nat]
      /\ \A p \in Processes : counter[p] <= MaxCalls[p]
    BY RoomAssumption DEF RoomInv, OnceInv, CallShape, CallsBounded
<1>2. \A p \in Processes : counter[p] \in 0 .. MaxCalls[p]
    BY <1>1
<1>3. \A p \in Processes : call[p].pc \in {"idle", "send", "recv", "exited"}
    BY DEF RoomInv, OnceInv, CallShape, CallRecord, PCs
<1>4. Begun \subseteq Ids
  <2>1. ASSUME NEW p \in Processes, NEW n \in Nat, n < counter[p]
        PROVE  <<p, n>> \in Ids
    <3>1. n \in 0 .. MaxCalls[p] - 1
        BY <1>1, <2>1
    <3>2. QED
        BY <3>1 DEF Ids
  <2>2. QED
    BY <2>1 DEF Begun
<1>5. Executed \cup abandoned \subseteq Ids
    BY <1>4 DEF RoomInv, CallsBounded, OnceInv, Known, Somewhere
<1>6. full \in 0 .. RingSize + 2
  <2>1. ring \in Seq(RingSlot) /\ Len(ring) <= RingSize
    BY DEF RoomInv, OnceInv, PathShape, QueuesOK
  <2>2. Cardinality(Whole) <= Len(ring) /\ Cardinality(Whole) \in Nat /\ Len(ring) \in Nat
    <3>1. Len(ring) \in Nat /\ DOMAIN ring = 1 .. Len(ring)
        BY <2>1
    <3> DEFINE places == 1 .. Len(ring)
    <3>2. IsFiniteSet(places) /\ Cardinality(places) = Len(ring)
      <4>1. IsFiniteSet(1 .. Len(ring)) /\ Cardinality(1 .. Len(ring)) = IF 1 > Len(ring) THEN 0 ELSE Len(ring) - 1 + 1
        BY <3>1, FS_Interval
      <4>2. QED
        BY <3>1, <4>1
    <3>3. Whole \subseteq places
        BY <3>1 DEF Whole
    <3> HIDE DEF places
    <3>4. IsFiniteSet(Whole) /\ Cardinality(Whole) <= Cardinality(places)
        BY <3>2, <3>3, FS_Subset
    <3>5. QED
        BY <3>1, <3>2, <3>4, FS_CardinalityType
  <2>3. /\ full \in Nat /\ full + Pending <= Cardinality(Whole) + Untaken + Overrun
        /\ Pending \in {0, 1} /\ Untaken \in {0, 1} /\ Overrun \in {0, 1}
    BY DEF RoomInv, TokensOK, Untaken, Pending, Overrun
  <2>4. QED
    BY <2>1, <2>2, <2>3, ServiceAssumption
<1>7. QED
    BY <1>2, <1>3, <1>5, <1>6 DEF RoomInv, FoundShape, ThreadsOK, QueuesOK, TypeOK

THEOREM RoomInvariance == Spec => []RoomInv
<1>1. RoomInv /\ [Next]_vars => RoomInv'
    BY RoomStep DEF Step
<1>2. QED
    BY RoomInit, <1>1, PTL DEF Spec

(* TypeOK of the service for every value of the constants: the semaphore    *)
(* never counts more than one request per slot, one token left by the       *)
(* worker's way out and one of a slot that is overwritten when a signal     *)
(* ends the receiver's wait for room (service.c 117, 127, 27-30,            *)
(* req_buffer.c 45, 64).                                                    *)
THEOREM ServiceTyped == Spec => []TypeOK
<1>1. RoomInv => TypeOK
    BY RoomImplies
<1>2. QED
    BY RoomInvariance, <1>1, PTL
-----------------------------------------------------------------------------
\* The number of a call; whether it is the one its process is in, or was last.
Number(x) == GetSeq(Pid[x[1]], x[2])
IsCurrent(x) == x = Id(x[1])
CallOf(x) == call[x[1]]

\* A message says what its call sent, and was sent.
Right(m) ==
    /\ m.id \in Begun /\ m.seq = Number(m.id)
    /\ IsCurrent(m.id) => m.op = CallOf(m.id).op /\ m.parts = CallOf(m.id).parts
BySent(x, n) == IsCurrent(x) => n <= CallOf(x).sent

RequestRight(k) == Right(requests[k]) /\ BySent(requests[k].id, requests[k].part + 1)
MsgRight == Holds => Right(msg) /\ BySent(msg.id, msg.part + 1)
SlotRight(i) == Right(ring[i]) /\ BySent(ring[i].id, ring[i].got)
CurRight == wk = "reply" => Right(cur.req)
PathRight ==
    /\ \A k \in DOMAIN requests : RequestRight(k)
    /\ MsgRight
    /\ \A i \in DOMAIN ring : SlotRight(i)
    /\ CurRight

\* The parts of a request come one after the other, each counted once.
RequestsInOrder ==
    \A j, k \in DOMAIN requests :
        j < k /\ requests[j].id = requests[k].id => requests[j].part < requests[k].part
MsgInOrder ==
    Holds => \A k \in DOMAIN requests : msg.id = requests[k].id => msg.part < requests[k].part
SlotsInOrder ==
    \A i \in DOMAIN ring :
        /\ \A k \in DOMAIN requests : ring[i].id = requests[k].id => ring[i].got <= requests[k].part
        /\ Holds /\ ring[i].id = msg.id => ring[i].got <= msg.part
PartsInOrder == RequestsInOrder /\ MsgInOrder /\ SlotsInOrder

\* Every call but the last was executed or given up.
CallRight(p) ==
    /\ \A n \in Nat : n + 1 < counter[p] => <<p, n>> \in abandoned \cup Executed
    /\ call[p].pc = "send" => call[p].sent < call[p].parts
    /\ call[p].pc = "exited" => Id(p) \in abandoned
    /\ call[p].pc \in {"send", "recv"} => Id(p) \notin abandoned
    /\ call[p].from \subseteq {Id(p)}
    /\ call[p].got > 0 => call[p].from = {Id(p)} /\ Id(p) \in Executed
    /\ call[p].pc = "idle" /\ counter[p] > 0 /\ Id(p) \notin abandoned => call[p].got > 0
CallsRight == \A p \in Processes : CallRight(p)

\* A call whose answer may still come, and an answer of so many parts.
Wanted(x) == x \in abandoned \/ (IsCurrent(x) /\ CallOf(x).pc = "recv")
OneOrRead(x, n) == n = 1 \/ (IsCurrent(x) => CallOf(x).op = "read")
Answers(x, n) == x \in Executed /\ Wanted(x) /\ OneOrRead(x, n)

AnswersRight ==
    /\ \A k \in DOMAIN responses :
          responses[k].seq = Number(responses[k].id) /\ Answers(responses[k].id, responses[k].parts)
    /\ wk = "reply" => cur.sent < cur.answers /\ Answers(cur.req.id, cur.answers)

\* The parts of an answer in the queue are labelled in the order they were
\* sent in: what the call has gathered comes before them, and what the worker
\* has still to send after them.
Labels(place) ==
    /\ \A k \in DOMAIN responses :
          /\ place[k] \in 1 .. responses[k].parts
          /\ IsCurrent(responses[k].id) /\ CallOf(responses[k].id).pc = "recv"
                => CallOf(responses[k].id).got < place[k]
          /\ wk = "reply" /\ responses[k].id = cur.req.id
                => place[k] <= cur.sent /\ responses[k].parts = cur.answers
    /\ \A j, k \in DOMAIN responses :
          j < k /\ responses[j].id = responses[k].id
              => place[j] < place[k] /\ responses[j].parts = responses[k].parts
AnswersInOrder ==
    /\ \E place : Labels(place)
    /\ wk = "reply" /\ IsCurrent(cur.req.id) /\ CallOf(cur.req.id).pc = "recv"
          => CallOf(cur.req.id).got <= cur.sent

OwnInv == PathRight /\ PartsInOrder /\ CallsRight /\ AnswersRight /\ AnswersInOrder

(* What a call's step changes in it.                                        *)
LEMMA BeginFacts ==
    ASSUME RoomInv, NEW p \in Processes, NEW op \in Operations[p], NEW parts \in 1 .. MaxParts,
           Begin(p, op, parts)
    PROVE  /\ call[p].pc = "idle" /\ UNCHANGED <<requests, responses, abandoned>>
           /\ \A q \in Processes \ {p} : call'[q] = call[q] /\ counter'[q] = counter[q] /\ Id(q)' = Id(q)
           /\ counter'[p] = counter[p] + 1 /\ Id(p)' = <<p, counter[p]>> /\ Id(p)' \notin Begun
           /\ call'[p].pc = "send" /\ call'[p].parts = parts
           /\ call'[p].sent = 0 /\ call'[p].got = 0 /\ call'[p].from = {}
<1>1. /\ counter' = [counter EXCEPT ![p] = counter[p] + 1] /\ call[p].pc = "idle"
      /\ call' = [call EXCEPT ![p] = [NoCall EXCEPT !.pc = "send", !.op = op, !.parts = parts]]
      /\ UNCHANGED <<requests, responses, abandoned>>
    BY DEF Begin
<1>2. counter \in [Processes -> Nat] /\ \E U : call \in [Processes -> CallRecord(U)]
    BY DEF RoomInv, OnceInv, CallShape
<1>3. /\ counter'[p] = counter[p] + 1 /\ counter[p] \in Nat
      /\ \A q \in Processes \ {p} : counter'[q] = counter[q]
    BY <1>1, <1>2
<1>4. Id(p)' = <<p, counter[p]>> /\ \A q \in Processes \ {p} : Id(q)' = Id(q)
    BY <1>3 DEF Id
<1>5. <<p, counter[p]>> \notin Begun
    BY <1>3 DEF Begun
<1> DEFINE r == [NoCall EXCEPT !.pc = "send", !.op = op, !.parts = parts]
<1>6. r.pc = "send" /\ r.parts = parts /\ r.sent = 0 /\ r.got = 0 /\ r.from = {}
    BY DEF NoCall
<1> HIDE DEF r
<1>7. call'[p] = r /\ \A q \in Processes \ {p} : call'[q] = call[q]
    BY <1>1, <1>2 DEF r
<1>8. QED
    BY <1>1, <1>3, <1>4, <1>5, <1>6, <1>7

LEMMA SendFacts ==
    ASSUME RoomInv, NEW p \in Processes, Send(p)
    PROVE  /\ call[p].pc = "send" /\ UNCHANGED <<counter, responses, abandoned>>
           /\ requests' = Append(requests, [id |-> Id(p), seq |-> Seq_(p), op |-> call[p].op,
                                            parts |-> call[p].parts, part |-> call[p].sent])
           /\ \A q \in Processes \ {p} : call'[q] = call[q]
           /\ call'[p].sent = call[p].sent + 1 /\ call[p].sent \in Nat
           /\ call'[p].pc = IF call[p].sent + 1 = call[p].parts THEN "recv" ELSE "send"
           /\ call'[p].op = call[p].op /\ call'[p].parts = call[p].parts
           /\ call'[p].got = call[p].got /\ call'[p].from = call[p].from
<1> DEFINE x == IF call[p].sent + 1 = call[p].parts THEN "recv" ELSE "send"
           n == call[p].sent + 1
           f == [call EXCEPT ![p].sent = n]
<1>0. PICK U : call \in [Processes -> CallRecord(U)]
    BY DEF RoomInv, OnceInv, CallShape
<1>1. call' = [call EXCEPT ![p].sent = n, ![p].pc = x]
    BY Zenon DEF Send
<1>2. call[p] \in CallRecord(U) /\ call[p].sent \in Nat /\ n \in Nat
    BY <1>0 DEF CallRecord
<1> HIDE DEF x, n
<1>3. f[p] = [call[p] EXCEPT !.sent = n] /\ DOMAIN f = Processes /\ \A q \in Processes \ {p} : f[q] = call[q]
    BY <1>0
<1>4. call' = [f EXCEPT ![p].pc = x]
    BY <1>1
<1> HIDE DEF f
<1>5. call'[p] = [[call[p] EXCEPT !.sent = n] EXCEPT !.pc = x] /\ \A q \in Processes \ {p} : call'[q] = call[q]
    BY <1>0, <1>3, <1>4
<1>6. /\ call'[p].sent = n /\ call'[p].pc = x /\ call'[p].op = call[p].op /\ call'[p].parts = call[p].parts
      /\ call'[p].got = call[p].got /\ call'[p].from = call[p].from
    BY <1>2, <1>5 DEF CallRecord
<1>7. QED
    BY <1>2, <1>5, <1>6 DEF Send, n, x

LEMMA LeaveFacts ==
    ASSUME RoomInv, NEW p \in Processes, Exit(p) \/ Guess(p)
    PROVE  /\ call[p].pc \in {"send", "recv"} /\ UNCHANGED <<counter, requests, responses>>
           /\ abandoned' = abandoned \cup {Id(p)}
           /\ \A q \in Processes \ {p} : call'[q] = call[q]
           /\ call'[p].pc \in {"exited", "idle"}
           /\ call'[p].op = call[p].op /\ call'[p].parts = call[p].parts /\ call'[p].sent = call[p].sent
           /\ call'[p].got = call[p].got /\ call'[p].from = call[p].from
<1>0. PICK U : call \in [Processes -> CallRecord(U)]
    BY DEF RoomInv, OnceInv, CallShape
<1>1. PICK x \in {"exited", "idle"} : call' = [call EXCEPT ![p].pc = x]
    BY DEF Exit, Guess
<1>2. call'[p] = [call[p] EXCEPT !.pc = x] /\ call[p] \in CallRecord(U) /\ \A q \in Processes \ {p} : call'[q] = call[q]
    BY <1>0, <1>1
<1>3. /\ call'[p].pc = x /\ call'[p].op = call[p].op /\ call'[p].parts = call[p].parts
      /\ call'[p].sent = call[p].sent /\ call'[p].got = call[p].got /\ call'[p].from = call[p].from
    BY <1>2 DEF CallRecord
<1>4. QED
    BY <1>2, <1>3 DEF Exit, Guess

LEMMA ReceiveFacts ==
    ASSUME RoomInv, NEW p \in Processes, Receive(p)
    PROVE  \E k \in DOMAIN responses :
              LET r == responses[k]
                  more == Library[call[p].op].gathers /\ call[p].got + 1 < r.parts
                  broken == call[p].got > 0 /\ r.parts = 1
              IN  /\ r.seq = Seq_(p) /\ responses' = RemoveAt(responses, k)
                  /\ \A j \in DOMAIN responses : responses[j].seq = Seq_(p) => k <= j
                  /\ call[p].pc = "recv" /\ UNCHANGED <<counter, requests>>
                  /\ \A q \in Processes \ {p} : call'[q] = call[q]
                  /\ call'[p].op = call[p].op /\ call'[p].parts = call[p].parts /\ call'[p].sent = call[p].sent
                  /\ call'[p].got = call[p].got + 1 /\ call[p].got \in Nat
                  /\ call'[p].from = call[p].from \cup {r.id}
                  /\ call'[p].pc = IF broken THEN "exited" ELSE IF more THEN "recv" ELSE "idle"
                  /\ abandoned' = IF broken THEN abandoned \cup {Id(p)} ELSE abandoned
<1>0. PICK U : call \in [Processes -> CallRecord(U)]
    BY DEF RoomInv, OnceInv, CallShape
<1>1. PICK k \in Mine(p) :
              /\ k \in DOMAIN responses /\ responses[k].seq = Seq_(p)
              /\ responses' = RemoveAt(responses, k)
              /\ \A j \in Mine(p) : k <= j
              /\ LET r == responses[k]
                     more == Library[call[p].op].gathers /\ call[p].got + 1 < r.parts
                     broken == call[p].got > 0 /\ r.parts = 1
                 IN  /\ call' = [call EXCEPT ![p].got = @ + 1, ![p].from = @ \cup {r.id},
                                    ![p].pc = IF broken THEN "exited" ELSE IF more THEN "recv" ELSE "idle"]
                     /\ abandoned' = IF broken THEN abandoned \cup {Id(p)} ELSE abandoned
    BY ReceivedPlace DEF RoomInv
<1> DEFINE r == responses[k]
           more == Library[call[p].op].gathers /\ call[p].got + 1 < r.parts
           broken == call[p].got > 0 /\ r.parts = 1
           x == IF broken THEN "exited" ELSE IF more THEN "recv" ELSE "idle"
           n == call[p].got + 1
           s == call[p].from \cup {r.id}
           f == [call EXCEPT ![p].got = n]
           g == [f EXCEPT ![p].from = s]
<1>2. call' = [call EXCEPT ![p].got = n, ![p].from = s, ![p].pc = x]
    BY <1>1, Zenon
<1>3. call[p] \in CallRecord(U) /\ call[p].got \in Nat
    BY <1>0 DEF CallRecord
<1> HIDE DEF x, n, s
<1>4. f[p] = [call[p] EXCEPT !.got = n] /\ DOMAIN f = Processes /\ \A q \in Processes \ {p} : f[q] = call[q]
    BY <1>0
<1>5. call' = [g EXCEPT ![p].pc = x]
    BY <1>2
<1> HIDE DEF f
<1>6. /\ g[p] = [[call[p] EXCEPT !.got = n] EXCEPT !.from = s] /\ DOMAIN g = Processes
      /\ \A q \in Processes \ {p} : g[q] = call[q]
    BY <1>4
<1> HIDE DEF g
<1>7. call'[p] = [[[call[p] EXCEPT !.got = n] EXCEPT !.from = s] EXCEPT !.pc = x]
      /\ \A q \in Processes \ {p} : call'[q] = call[q]
    BY <1>5, <1>6
<1>8. /\ call'[p].got = n /\ call'[p].from = s /\ call'[p].pc = x /\ call'[p].op = call[p].op
      /\ call'[p].parts = call[p].parts /\ call'[p].sent = call[p].sent
    BY <1>3, <1>7 DEF CallRecord
<1>9. \A j \in DOMAIN responses : responses[j].seq = Seq_(p) => k <= j
    BY <1>1 DEF Mine
<1>10. call[p].pc = "recv" /\ UNCHANGED <<counter, requests>>
    BY DEF Receive
<1>11. /\ call'[p].got = call[p].got + 1 /\ call'[p].from = call[p].from \cup {responses[k].id}
       /\ call'[p].pc = x
    BY <1>8 DEF n, s
<1>12. /\ call'[p].pc = IF broken THEN "exited" ELSE IF more THEN "recv" ELSE "idle"
       /\ abandoned' = IF broken THEN abandoned \cup {Id(p)} ELSE abandoned
    BY <1>1, <1>11, Zenon DEF x
<1>13. QED
    BY <1>1, <1>3, <1>7, <1>8, <1>9, <1>10, <1>11, <1>12, Zenon

(* Calls that have begun are in Ids, so that their numbers are apart.       *)
LEMMA Apart ==
    ASSUME RoomInv, NumbersApart, NEW x \in Begun, NEW y \in Begun, Number(x) = Number(y)
    PROVE  x = y
<1>1. ASSUME NEW z \in Begun PROVE z \in Ids
  <2>1. /\ counter \in [Processes -> Nat] /\ MaxCalls \in [Processes -> Nat]
        /\ \A p \in Processes : counter[p] <= MaxCalls[p]
    BY RoomAssumption DEF RoomInv, OnceInv, CallShape, CallsBounded
  <2>2. PICK p \in Processes, n \in Nat : z = <<p, n>> /\ n < counter[p]
    BY DEF Begun
  <2>3. n \in 0 .. MaxCalls[p] - 1
    BY <2>1, <2>2
  <2>4. QED
    BY <2>2, <2>3 DEF Ids
<1>2. x \in Ids /\ y \in Ids
    BY <1>1
<1>3. QED
    BY <1>2 DEF NumbersApart, Number

\* A call stays the current one of its process or is so no longer, and what it
\* asked for does not change.
Onward ==
    /\ Begun \subseteq Begun' /\ abandoned \subseteq abandoned' /\ Executed \subseteq Executed'
    /\ \A x \in Begun : IsCurrent(x)' =>
          /\ IsCurrent(x) /\ CallOf(x)'.op = CallOf(x).op /\ CallOf(x)'.parts = CallOf(x).parts
          /\ CallOf(x).sent <= CallOf(x)'.sent

(* Every step leads a call onward.                                          *)
LEMMA OnwardStep ==
    ASSUME RoomInv, Step
    PROVE  Onward
<1>0. counter \in [Processes -> Nat] /\ \A p \in Processes : call[p].sent \in Nat
    BY DEF RoomInv, OnceInv, CallShape, CallRecord
<1>b. \A x \in Begun : x \in Processes \X Nat /\ x[1] \in Processes
    BY DEF Begun
<1>1. ASSUME NEW p \in Processes, Client(p), UNCHANGED serviceVars
      PROVE  Onward
  <2>e. Executed' = Executed
    BY <1>1 DEF Executed, serviceVars
  <2>1. ASSUME NEW op \in Operations[p], NEW parts \in 1 .. MaxParts, Begin(p, op, parts)
        PROVE  Onward
    <3>1. /\ \A q \in Processes \ {p} : call'[q] = call[q] /\ counter'[q] = counter[q] /\ Id(q)' = Id(q)
          /\ counter'[p] = counter[p] + 1 /\ Id(p)' \notin Begun /\ UNCHANGED abandoned
        BY <2>1, BeginFacts
    <3>2. Begun \subseteq Begun'
        BY <1>0, <3>1 DEF Begun
    <3>3. ASSUME NEW x \in Begun, IsCurrent(x)'
          PROVE  /\ IsCurrent(x) /\ CallOf(x)'.op = CallOf(x).op /\ CallOf(x)'.parts = CallOf(x).parts
                 /\ CallOf(x).sent <= CallOf(x)'.sent
      <4>1. x[1] \in Processes /\ x[1] # p
        BY <1>b, <3>1, <3>3 DEF IsCurrent
      <4>2. call'[x[1]] = call[x[1]] /\ IsCurrent(x)
        BY <3>1, <3>3, <4>1 DEF IsCurrent
      <4>3. QED
        BY <1>0, <4>1, <4>2 DEF CallOf
    <3>4. QED
        BY <2>e, <3>1, <3>2, <3>3 DEF Onward
  <2>2. CASE Send(p) \/ Receive(p) \/ Exit(p) \/ Guess(p)
    <3>1. /\ UNCHANGED counter /\ abandoned \subseteq abandoned'
          /\ \A q \in Processes \ {p} : call'[q] = call[q]
          /\ call'[p].op = call[p].op /\ call'[p].parts = call[p].parts
          /\ call'[p].sent \in {call[p].sent, call[p].sent + 1}
      <4>1. CASE Send(p)
        BY <4>1, SendFacts
      <4>2. CASE Receive(p)
        BY <4>2, ReceiveFacts
      <4>3. CASE Exit(p) \/ Guess(p)
        BY <4>3, LeaveFacts
      <4>4. QED
        BY <2>2, <4>1, <4>2, <4>3
    <3>2. /\ Begun' = Begun /\ \A q \in Processes : Id(q)' = Id(q)
          /\ \A q \in Processes : /\ call'[q].op = call[q].op /\ call'[q].parts = call[q].parts
                                  /\ call[q].sent <= call'[q].sent
        BY <1>0, <3>1 DEF Begun, Id
    <3>3. QED
        BY <1>b, <2>e, <3>1, <3>2 DEF Onward, IsCurrent, CallOf
  <2>3. QED
    BY <1>1, <2>1, <2>2 DEF Client
<1>2. CASE Receiver \/ Worker \/ Main \/ Signal \/ Start \/ UNCHANGED vars
  <2>1. UNCHANGED <<counter, call, abandoned>>
    BY <1>2, ClientsStill
  <2>2. Executed \subseteq Executed'
    <3>1. CASE WkServe
      <4>1. executed \in Seq(Processes \X Nat) /\ executed' = Append(executed, Head(ring).id)
        BY <3>1 DEF WkServe, RoomInv, OnceInv, PathShape
      <4>2. \A k \in DOMAIN executed : k \in DOMAIN executed' /\ executed'[k] = executed[k]
        BY <4>1
      <4>3. QED
        BY <4>2 DEF Executed
    <3>2. CASE ~WkServe
      <4>1. executed' = executed
        BY <1>2, <3>2 DEF Receiver, RxTest, RxReceive, RxBlock, RxPut, RxFind, RxCopy, Worker, WkSkip, WkReply, WkEnd, WkKill,
                          Main, MainJoinReceiver, MainJoinWorker, MainSave, Signal, Start, vars, serviceVars
      <4>2. QED
        BY <4>1 DEF Executed
    <3>3. QED
        BY <3>1, <3>2
  <2>3. Begun' = Begun /\ \A x : (IsCurrent(x)' <=> IsCurrent(x)) /\ CallOf(x)' = CallOf(x)
    BY <2>1 DEF Begun, IsCurrent, CallOf, Id
  <2>4. \A x \in Begun : CallOf(x).sent <= CallOf(x).sent
    BY <1>0, <1>b DEF CallOf
  <2>5. QED
    BY <2>1, <2>2, <2>3, <2>4 DEF Onward
<1>3. QED
    BY <1>1, <1>2 DEF Step, Next

(* What a message said stays true.                                          *)
LEMMA RightKeeps ==
    ASSUME Onward, NEW m, Right(m), NEW n \in Nat, NEW x \in Begun, BySent(x, n),
           \A p \in Processes : call[p].sent \in Nat /\ call'[p].sent \in Nat
    PROVE  /\ m.id \in Begun' /\ m.seq = Number(m.id)
           /\ IsCurrent(m.id)' => m.op = CallOf(m.id)'.op /\ m.parts = CallOf(m.id)'.parts
           /\ IsCurrent(x)' => n <= CallOf(x)'.sent
<1>1. x[1] \in Processes
    BY DEF Begun
<1>2. call[x[1]].sent \in Nat /\ call'[x[1]].sent \in Nat
    BY <1>1
<1>3. IsCurrent(x)' => n <= CallOf(x)'.sent
    BY <1>2 DEF Onward, BySent, CallOf
<1>4. QED
    BY <1>3 DEF Onward, Right

(* What stays where it is, or moves with its queue, stays right.            *)
LEMMA PathKeepsRight ==
    ASSUME RoomInv, RoomInv', Onward, PathRight
    PROVE  /\ \A k \in DOMAIN requests', j \in DOMAIN requests : requests'[k] = requests[j] => RequestRight(k)'
           /\ \A i \in DOMAIN ring', j \in DOMAIN ring : ring'[i] = ring[j] => SlotRight(i)'
           /\ Holds /\ msg' = msg => MsgRight'
           /\ wk = "reply" /\ cur'.req = cur.req => CurRight'
<1>0. \A p \in Processes : call[p].sent \in Nat /\ call'[p].sent \in Nat
    BY DEF RoomInv, OnceInv, CallShape, CallRecord
<1>1. ASSUME NEW k \in DOMAIN requests', NEW j \in DOMAIN requests, requests'[k] = requests[j]
      PROVE  RequestRight(k)'
  <2>1. PICK m : m = requests[j]
    OBVIOUS
  <2>2. m \in Message
    <3>1. requests \in Seq(Message)
        BY DEF RoomInv, OnceInv, PathShape
    <3>2. QED
        BY <2>1, <3>1
  <2>3. m.part + 1 \in Nat /\ Right(m) /\ BySent(m.id, m.part + 1) /\ m.id \in Begun
    BY <2>1, <2>2 DEF Message, PathRight, RequestRight, Right
  <2>4. /\ m.id \in Begun' /\ m.seq = Number(m.id)
        /\ IsCurrent(m.id)' => m.op = CallOf(m.id)'.op /\ m.parts = CallOf(m.id)'.parts
        /\ IsCurrent(m.id)' => m.part + 1 <= CallOf(m.id)'.sent
    BY <1>0, <2>3, RightKeeps
  <2>5. requests'[k] = m
    BY <1>1, <2>1
  <2>6. QED
    BY <2>4, <2>5 DEF RequestRight, Right, BySent, IsCurrent, CallOf, Number
<1>2. ASSUME NEW i \in DOMAIN ring', NEW j \in DOMAIN ring, ring'[i] = ring[j]
      PROVE  SlotRight(i)'
  <2>1. PICK m : m = ring[j]
    OBVIOUS
  <2>2. m \in RingSlot
    <3>1. ring \in Seq(RingSlot)
        BY DEF RoomInv, OnceInv, PathShape
    <3>2. QED
        BY <2>1, <3>1
  <2>3. m.got \in Nat /\ Right(m) /\ BySent(m.id, m.got) /\ m.id \in Begun
    BY <2>1, <2>2 DEF RingSlot, PathRight, SlotRight, Right
  <2>4. /\ m.id \in Begun' /\ m.seq = Number(m.id)
        /\ IsCurrent(m.id)' => m.op = CallOf(m.id)'.op /\ m.parts = CallOf(m.id)'.parts
        /\ IsCurrent(m.id)' => m.got <= CallOf(m.id)'.sent
    BY <1>0, <2>3, RightKeeps
  <2>5. ring'[i] = m
    BY <1>2, <2>1
  <2>6. QED
    BY <2>4, <2>5 DEF SlotRight, Right, BySent, IsCurrent, CallOf, Number
<1>3. ASSUME Holds, msg' = msg
      PROVE  MsgRight'
  <2>1. PICK m : m = msg
    OBVIOUS
  <2>2. m \in Message
    BY <1>3, <2>1 DEF RoomInv, OnceInv, PathShape
  <2>3. m.part + 1 \in Nat /\ Right(m) /\ BySent(m.id, m.part + 1) /\ m.id \in Begun
    BY <1>3, <2>1, <2>2 DEF Message, PathRight, MsgRight, Right
  <2>4. /\ m.id \in Begun' /\ m.seq = Number(m.id)
        /\ IsCurrent(m.id)' => m.op = CallOf(m.id)'.op /\ m.parts = CallOf(m.id)'.parts
        /\ IsCurrent(m.id)' => m.part + 1 <= CallOf(m.id)'.sent
    BY <1>0, <2>3, RightKeeps
  <2>5. msg' = m
    BY <1>3, <2>1
  <2>6. QED
    BY <2>4, <2>5 DEF MsgRight, Right, BySent, IsCurrent, CallOf, Number
<1>4. ASSUME wk = "reply", cur'.req = cur.req
      PROVE  CurRight'
  <2>1. PICK m : m = cur.req
    OBVIOUS
  <2>2. Right(m) /\ m.id \in Begun /\ BySent(m.id, 0)
    BY <1>0, <1>4, <2>1 DEF PathRight, CurRight, Right, BySent, CallOf, Begun
  <2>3. /\ m.id \in Begun' /\ m.seq = Number(m.id)
        /\ IsCurrent(m.id)' => m.op = CallOf(m.id)'.op /\ m.parts = CallOf(m.id)'.parts
    BY <1>0, <2>2, RightKeeps
  <2>4. cur'.req = m
    BY <1>4, <2>1
  <2>5. QED
    BY <2>3, <2>4 DEF CurRight, Right, IsCurrent, CallOf, Number
<1>5. QED
    BY <1>1, <1>2, <1>3, <1>4

(* Steps that move no part of a request.                                    *)
LEMMA PathQuiet ==
    ASSUME RoomInv, RoomInv', Onward, PathRight, PartsInOrder,
           requests' = requests, ring' \in {ring, <<>>},
           Holds' => Holds /\ msg' = msg,
           wk' = "reply" => wk = "reply" /\ cur'.req = cur.req
    PROVE  PathRight' /\ PartsInOrder'
<1>1. DOMAIN ring' \subseteq DOMAIN ring /\ \A i \in DOMAIN ring' : ring'[i] = ring[i]
    OBVIOUS
<1>2. (\A k \in DOMAIN requests' : RequestRight(k)') /\ (\A i \in DOMAIN ring' : SlotRight(i)')
    BY <1>1, PathKeepsRight
<1>3. MsgRight'
  <2>1. CASE Holds'
    BY <2>1, PathKeepsRight
  <2>2. CASE ~Holds'
    BY <2>2 DEF MsgRight
  <2>3. QED
    BY <2>1, <2>2
<1>4. CurRight'
  <2>1. CASE wk' = "reply"
    BY <2>1, PathKeepsRight
  <2>2. CASE wk' # "reply"
    BY <2>2 DEF CurRight
  <2>3. QED
    BY <2>1, <2>2
<1>5. RequestsInOrder' /\ MsgInOrder' /\ SlotsInOrder'
    BY <1>1 DEF PartsInOrder, RequestsInOrder, MsgInOrder, SlotsInOrder
<1>6. QED
    BY <1>2, <1>3, <1>4, <1>5 DEF PathRight, PartsInOrder

(* A part that is sent comes after all that were sent before it.            *)
LEMMA PathSend ==
    ASSUME RoomInv, RoomInv', Onward, PathRight, PartsInOrder,
           NEW p \in Processes, Send(p), UNCHANGED serviceVars
    PROVE  PathRight' /\ PartsInOrder'
<1>0. PICK m, n : /\ m = [id |-> Id(p), seq |-> Seq_(p), op |-> call[p].op,
                         parts |-> call[p].parts, part |-> call[p].sent]
                  /\ n = Len(requests) + 1
    OBVIOUS
<1>1. /\ UNCHANGED <<counter, ring, rx, msg, wk, cur>> /\ requests' = Append(requests, m)
      /\ call'[p].sent = call[p].sent + 1 /\ call[p].sent \in Nat /\ call[p].pc = "send"
      /\ call'[p].op = call[p].op /\ call'[p].parts = call[p].parts
    BY <1>0, SendFacts DEF serviceVars, threadVars
<1>2. requests \in Seq(Message) /\ ring \in Seq(RingSlot) /\ requests' \in Seq(Message)
    BY DEF RoomInv, OnceInv, PathShape, Message, Ops
<1>3. /\ DOMAIN requests' = DOMAIN requests \cup {n} /\ n \notin DOMAIN requests
      /\ \A k \in DOMAIN requests : requests'[k] = requests[k] /\ k < n /\ ~(n < k)
      /\ requests'[n] = m /\ ~(n < n)
    BY <1>0, <1>1, <1>2
<1>4. m.id = Id(p) /\ m.id[1] = p /\ m.id \in Begun /\ m.part = call[p].sent
  <2>1. counter[p] \in Nat /\ counter[p] > 0
    BY <1>1 DEF RoomInv, OnceInv, CallShape
  <2>2. Id(p)[1] = p /\ Id(p) \in Begun
    BY <2>1 DEF Id, Begun
  <2>3. QED
    BY <1>0, <2>2
<1>5. RequestRight(n)'
  <2>1. m.id \in Begun' /\ m.seq = Number(m.id)
    BY <1>0, <1>4 DEF Onward, Number, Seq_, Id
  <2>2. m.op = CallOf(m.id)'.op /\ m.parts = CallOf(m.id)'.parts /\ m.part + 1 <= CallOf(m.id)'.sent
    BY <1>0, <1>1, <1>4 DEF CallOf
  <2>3. QED
    BY <1>3, <2>1, <2>2 DEF RequestRight, Right, BySent, IsCurrent, CallOf, Number
<1>6. /\ \A k \in DOMAIN requests : RequestRight(k)'
      /\ \A i \in DOMAIN ring' : SlotRight(i)'
    BY <1>1, <1>3, PathKeepsRight
<1>7. MsgRight' /\ CurRight'
    BY <1>1, PathKeepsRight DEF PathRight, MsgRight, CurRight, Holds
<1>8. IsCurrent(m.id) /\ CallOf(m.id).sent = m.part
    BY <1>4 DEF IsCurrent, CallOf
<1>9. RequestsInOrder'
  <2>1. ASSUME NEW j \in DOMAIN requests, requests[j].id = m.id
        PROVE  requests[j].part < m.part
    <3>1. requests[j] \in Message
        BY <1>2
    <3>2. requests[j].part \in Nat
        BY <3>1 DEF Message
    <3>3. requests[j].part + 1 <= m.part
        BY <1>8, <2>1 DEF PathRight, RequestRight, BySent
    <3>4. QED
        BY <1>1, <1>4, <3>2, <3>3
  <2>2. QED
    BY <1>3, <2>1 DEF PartsInOrder, RequestsInOrder
<1>10. MsgInOrder'
  <2>1. ASSUME Holds, msg.id = m.id
        PROVE  msg.part < m.part
    <3>1. msg.part + 1 <= m.part /\ msg.part \in Nat
        BY <1>8, <2>1 DEF PathRight, MsgRight, BySent, RoomInv, OnceInv, PathShape, Message
    <3>2. QED
        BY <1>1, <1>4, <3>1
  <2>2. QED
    BY <1>1, <1>3, <2>1 DEF PartsInOrder, MsgInOrder, Holds
<1>11. SlotsInOrder'
  <2>1. ASSUME NEW i \in DOMAIN ring, ring[i].id = m.id
        PROVE  ring[i].got <= m.part
    BY <1>8, <2>1 DEF PathRight, SlotRight, BySent
  <2>2. QED
    BY <1>1, <1>3, <2>1 DEF PartsInOrder, SlotsInOrder, Holds
<1>12. QED
    BY <1>3, <1>5, <1>6, <1>7, <1>9, <1>10, <1>11 DEF PathRight, PartsInOrder

(* The receiver holds what was at the head of its queue.                    *)
LEMMA PathReceive ==
    ASSUME RoomInv, RoomInv', Onward, PathRight, PartsInOrder, RxReceive
    PROVE  PathRight' /\ PartsInOrder'
<1>1. /\ requests # <<>> /\ requests' = Tail(requests) /\ msg' = Head(requests)
      /\ UNCHANGED <<counter, call, ring, wk, cur>>
    BY DEF RxReceive
<1>2. requests \in Seq(Message)
    BY DEF RoomInv, OnceInv, PathShape
<1>3. /\ msg' = requests[1] /\ 1 \in DOMAIN requests
      /\ \A k \in DOMAIN requests' : /\ k + 1 \in DOMAIN requests /\ requests'[k] = requests[k + 1]
                                     /\ k \in Nat \ {0} /\ 1 < k + 1
      /\ \A j, k \in DOMAIN requests' : j < k => j + 1 < k + 1
    BY <1>1, <1>2
<1>4. \A k \in DOMAIN requests' : RequestRight(k)'
    BY <1>3, PathKeepsRight
<1>5. (\A i \in DOMAIN ring' : SlotRight(i)') /\ CurRight'
    BY <1>1, PathKeepsRight DEF CurRight
<1>6. MsgRight'
    BY <1>1, <1>3 DEF PathRight, RequestRight, MsgRight, Right, BySent, IsCurrent, CallOf, Number, Id, Begun
<1>7. RequestsInOrder'
    BY <1>3 DEF PartsInOrder, RequestsInOrder
<1>8. MsgInOrder'
    BY <1>3 DEF PartsInOrder, RequestsInOrder, MsgInOrder
<1>9. SlotsInOrder'
    BY <1>1, <1>3 DEF PartsInOrder, SlotsInOrder, Holds
<1>10. QED
    BY <1>4, <1>5, <1>6, <1>7, <1>8, <1>9 DEF PathRight, PartsInOrder

(* A first part makes a slot that has got one part.                         *)
LEMMA PathPut ==
    ASSUME RoomInv, RoomInv', Onward, PathRight, PartsInOrder, RxPut
    PROVE  PathRight' /\ PartsInOrder'
<1>1. /\ UNCHANGED <<counter, call, requests, wk, cur>>
      /\ Holds /\ msg.part = 0 /\ rx' = "test"
    BY DEF RxPut, MayPut, Holds, clientVars
<1>2. requests \in Seq(Message) /\ msg \in Message
    BY <1>1 DEF RoomInv, OnceInv, PathShape
<1>0. PICK s : s = Slot(msg)
    OBVIOUS
<1>3. PICK n \in DOMAIN ring' :
          /\ ring'[n] = s /\ DOMAIN ring' = DOMAIN ring \cup {n}
          /\ \A i \in DOMAIN ring \ {n} : ring'[i] = ring[i]
    BY <1>0, PutPlaces DEF RoomInv
<1>4. /\ s.id = msg.id /\ s.seq = msg.seq /\ s.op = msg.op /\ s.parts = msg.parts /\ s.got = 1 /\ msg.part + 1 = 1
    BY <1>0, <1>1 DEF Slot
<1>5. SlotRight(n)'
    BY <1>1, <1>3, <1>4 DEF PathRight, SlotRight, MsgRight, Right, BySent, IsCurrent, CallOf, Number, Id, Begun
<1>6. (\A k \in DOMAIN requests' : RequestRight(k)') /\ (\A i \in DOMAIN ring \ {n} : SlotRight(i)')
    BY <1>1, <1>3, PathKeepsRight
<1>7. MsgRight' /\ CurRight'
    BY <1>1, PathKeepsRight DEF CurRight, MsgRight, Holds
<1>8. RequestsInOrder' /\ MsgInOrder'
    BY <1>1 DEF PartsInOrder, RequestsInOrder, MsgInOrder, Holds
<1>9. SlotsInOrder'
  <2>1. ASSUME NEW k \in DOMAIN requests, s.id = requests[k].id
        PROVE  s.got <= requests[k].part
    <3>1. requests[k] \in Message
        BY <1>2
    <3>2. requests[k].part \in Nat
        BY <3>1 DEF Message
    <3>3. 0 < requests[k].part
        BY <1>1, <1>4, <2>1 DEF PartsInOrder, MsgInOrder
    <3>4. QED
        BY <1>4, <3>2, <3>3
  <2>2. QED
    BY <1>1, <1>3, <2>1 DEF PartsInOrder, SlotsInOrder, Holds
<1>10. QED
    BY <1>3, <1>5, <1>6, <1>7, <1>8, <1>9 DEF PathRight, PartsInOrder

(* A later part is counted in the slot of its own request, which has got    *)
(* only parts before it.                                                    *)
LEMMA PathCopied ==
    ASSUME RoomInv, RoomInv', Onward, PathRight, PartsInOrder, NumbersApart, RxCopy,
           rx' = "test", Copied(found.at)
    PROVE  PathRight' /\ PartsInOrder'
<1>0. OnceInv
    BY DEF RoomInv
<1>1. PICK i \in DOMAIN ring :
              /\ ring[i].seq = msg.seq /\ ring[i] \in RingSlot
              /\ ring' \in Seq(RingSlot) /\ DOMAIN ring' = DOMAIN ring
              /\ \A j \in DOMAIN ring : j # i => ring'[j] = ring[j]
              /\ ring'[i] = [ring[i] EXCEPT !.got = ring[i].got + 1]
    BY DEF Copied
<1>2. /\ UNCHANGED <<counter, call, requests, wk, cur>> /\ Holds
    BY Zenon DEF RxCopy, Holds, clientVars
<1>3. requests \in Seq(Message) /\ msg \in Message /\ Right(msg) /\ Right(ring[i])
    BY <1>0, <1>1, <1>2 DEF OnceInv, PathShape, PathRight, MsgRight, SlotRight
<1>4. ring[i].id = msg.id
    BY <1>1, <1>3, Apart DEF Right
<1>5. /\ ring'[i].id = ring[i].id /\ ring'[i].seq = ring[i].seq /\ ring'[i].op = ring[i].op
      /\ ring'[i].parts = ring[i].parts /\ ring'[i].got = ring[i].got + 1 /\ ring[i].got \in Nat
    BY <1>1 DEF RingSlot
<1>6. ring[i].got <= msg.part /\ msg.part \in Nat /\ (IsCurrent(msg.id) => msg.part + 1 <= CallOf(msg.id).sent)
    BY <1>2, <1>3, <1>4 DEF PartsInOrder, SlotsInOrder, PathRight, MsgRight, BySent, Message
<1>7. SlotRight(i)'
  <2>1. Right(ring[i])'
    BY <1>2, <1>3, <1>5 DEF Right, IsCurrent, CallOf, Number, Id, Begun
  <2>2. BySent(ring[i].id, ring[i].got)'
    <3>1. msg.id \in Processes \X Nat /\ CallOf(msg.id).sent \in Nat
        BY <1>3 DEF Message, CallOf, RoomInv, OnceInv, CallShape, CallRecord
    <3>2. IsCurrent(msg.id) => ring[i].got + 1 <= CallOf(msg.id).sent
        BY <1>5, <1>6, <3>1
    <3>3. QED
        BY <1>2, <1>4, <1>5, <3>2 DEF BySent, IsCurrent, CallOf, Id
  <2>3. QED
    BY <2>1, <2>2 DEF SlotRight
<1>8. (\A k \in DOMAIN requests' : RequestRight(k)') /\ (\A j \in DOMAIN ring : j # i => SlotRight(j)')
    BY <1>1, <1>2, PathKeepsRight
<1>9. MsgRight' /\ CurRight'
    BY <1>2, PathKeepsRight DEF CurRight, MsgRight, Holds
<1>10. RequestsInOrder' /\ MsgInOrder'
    BY <1>2 DEF PartsInOrder, RequestsInOrder, MsgInOrder, Holds
<1>11. SlotsInOrder'
  <2>1. ASSUME NEW k \in DOMAIN requests, ring[i].id = requests[k].id
        PROVE  ring[i].got + 1 <= requests[k].part
    <3>1. requests[k] \in Message
        BY <1>3
    <3>2. requests[k].part \in Nat
        BY <3>1 DEF Message
    <3>3. msg.part < requests[k].part
        BY <1>2, <1>4, <2>1 DEF PartsInOrder, MsgInOrder
    <3>4. QED
        BY <1>5, <1>6, <3>2, <3>3
  <2>2. ASSUME NEW j \in DOMAIN ring, NEW k \in DOMAIN requests, ring'[j].id = requests[k].id
        PROVE  ring'[j].got <= requests[k].part
    <3>1. CASE j = i
        BY <1>5, <2>1, <2>2, <3>1
    <3>2. CASE j # i
        BY <1>1, <2>2, <3>2 DEF PartsInOrder, SlotsInOrder
    <3>3. QED
        BY <3>1, <3>2
  <2>3. QED
    BY <1>1, <1>2, <2>2 DEF SlotsInOrder, Holds
<1>12. QED
    BY <1>1, <1>7, <1>8, <1>9, <1>10, <1>11 DEF PathRight, PartsInOrder

(* The worker takes the head of the ring, or drops it.                      *)
LEMMA PathDrop ==
    ASSUME RoomInv, RoomInv', Onward, PathRight, PartsInOrder,
           UNCHANGED <<counter, call, requests, rx, msg>>, ring # <<>>, ring' = Tail(ring),
           wk' = "reply" => cur'.req = Head(ring)
    PROVE  PathRight' /\ PartsInOrder'
<1>1. ring \in Seq(RingSlot)
    BY DEF RoomInv, OnceInv, PathShape
<1>2. /\ Head(ring) = ring[1] /\ 1 \in DOMAIN ring
      /\ \A i \in DOMAIN ring' : i + 1 \in DOMAIN ring /\ ring'[i] = ring[i + 1]
    BY <1>1
<1>3. (\A k \in DOMAIN requests' : RequestRight(k)') /\ (\A i \in DOMAIN ring' : SlotRight(i)')
    BY <1>2, PathKeepsRight
<1>4. MsgRight'
    BY PathKeepsRight DEF MsgRight, Holds
<1>5. CurRight'
    BY <1>2 DEF PathRight, SlotRight, CurRight, Right, IsCurrent, CallOf, Number, Id, Begun
<1>6. RequestsInOrder' /\ MsgInOrder'
    BY DEF PartsInOrder, RequestsInOrder, MsgInOrder, Holds
<1>7. SlotsInOrder'
    BY <1>2 DEF PartsInOrder, SlotsInOrder, Holds
<1>8. QED
    BY <1>3, <1>4, <1>5, <1>6, <1>7 DEF PathRight, PartsInOrder

(* No step mixes up the parts of requests.                                  *)
LEMMA PathStep ==
    ASSUME RoomInv, RoomInv', PathRight, PartsInOrder, NumbersApart, Step
    PROVE  PathRight' /\ PartsInOrder'
<1>0. Onward
    BY OnwardStep
<1>1. ASSUME NEW p \in Processes, Client(p), UNCHANGED serviceVars
      PROVE  PathRight' /\ PartsInOrder'
  <2>1. CASE Send(p)
    BY <1>0, <1>1, <2>1, PathSend
  <2>2. CASE ~Send(p)
    <3>1. UNCHANGED <<requests, ring, rx, msg, wk, cur>>
        BY <1>1, <2>2 DEF Client, Begin, Receive, Exit, Guess, serviceVars, threadVars
    <3>2. QED
        BY <1>0, <3>1, PathQuiet DEF Holds
  <2>3. QED
    BY <2>1, <2>2
<1>2. CASE RxReceive
    BY <1>0, <1>2, PathReceive
<1>3. CASE RxPut
    BY <1>0, <1>3, PathPut
<1>4. CASE RxCopy
  <2>0. UNCHANGED <<requests, wk, cur>>
    BY <1>4 DEF RxCopy, clientVars
  <2>1. CASE UNCHANGED <<rx, msg, ring>> \/ (rx' = "test" /\ ring' = ring)
    BY <1>0, <2>0, <2>1, PathQuiet DEF Holds
  <2>2. CASE rx' = "test" /\ Copied(found.at)
    BY <1>0, <1>4, <2>2, PathCopied
  <2>3. QED
    BY <1>4, <2>1, <2>2, CopyPlaces DEF RoomInv
<1>5. CASE WkServe \/ WkSkip \/ (WkEnd /\ ring # <<>>)
  <2>1. /\ UNCHANGED <<counter, call, requests, rx, msg>> /\ ring # <<>> /\ ring' = Tail(ring)
        /\ wk' = "reply" => cur'.req = Head(ring)
    BY <1>5 DEF WkServe, WkSkip, WkEnd, Taken, Passed, clientVars
  <2>2. QED
    BY <1>0, <2>1, PathDrop
<1>6. CASE RxTest \/ RxBlock \/ RxFind \/ WkReply \/ (WkEnd /\ ring = <<>>) \/ WkKill \/ Main \/ Signal \/ Start \/ UNCHANGED vars
  <2>1. requests' = requests /\ ring' \in {ring, <<>>}
    BY <1>6 DEF RxTest, RxBlock, RxFind, WkReply, WkEnd, Passed, WkKill, Main, MainJoinReceiver, MainJoinWorker,
                MainSave, Signal, Start, Started, vars, clientVars, serviceVars, threadVars
  <2>2. Holds' => Holds /\ msg' = msg
    <3>1. CASE RxTest \/ RxBlock \/ RxFind \/ WkReply \/ WkEnd \/ Main \/ Start \/ UNCHANGED vars
        BY <3>1 DEF Holds, RxTest, RxBlock, RxFind, WkReply, WkEnd, Main, MainJoinReceiver, MainJoinWorker,
                    MainSave, Start, Started, vars, serviceVars, threadVars
    <3>2. CASE WkKill
        BY <3>2 DEF Holds, WkKill, Interrupted
    <3>3. CASE Signal
        BY <3>3 DEF Holds, Signal, Interrupted
    <3>4. QED
        BY <1>6, <3>1, <3>2, <3>3
  <2>3. wk' = "reply" => wk = "reply" /\ cur'.req = cur.req
    <3>1. CASE WkReply
      <4>1. /\ wk = "reply" /\ cur \in [req : RingSlot, answers : Nat, sent : Nat]
            /\ wk' = "reply" => cur' = [cur EXCEPT !.sent = @ + 1]
        BY <3>1 DEF WkReply, RoomInv, QueuesOK
      <4>2. QED
        BY <4>1
    <3>2. CASE ~WkReply
        BY <1>6, <3>2 DEF RxTest, RxBlock, RxFind, WkEnd, WkKill, Main, MainJoinReceiver, MainJoinWorker, MainSave, Signal,
                          Start, Started, vars, serviceVars, threadVars
    <3>3. QED
        BY <3>1, <3>2
  <2>4. QED
    BY <1>0, <2>1, <2>2, <2>3, PathQuiet
<1>7. QED
    BY <1>1, <1>2, <1>3, <1>4, <1>5, <1>6 DEF Step, Next, Receiver, Worker

(* The parts a call gathers are of the answer to its own request.           *)
LEMMA OwnReceived ==
    ASSUME RoomInv, CallsRight, AnswersRight, NumbersApart, NEW p \in Processes, call[p].pc = "recv",
           NEW k \in DOMAIN responses
    PROVE  responses[k].seq = Seq_(p) <=> responses[k].id = Id(p)
<1>1. Id(p) \in Begun /\ Seq_(p) = Number(Id(p))
  <2>1. counter[p] \in Nat /\ counter[p] > 0
    BY DEF RoomInv, OnceInv, CallShape
  <2>2. QED
    BY <2>1 DEF Id, Begun, Seq_, Number
<1>2. responses[k].id \in Begun /\ responses[k].seq = Number(responses[k].id)
  <2>1. Executed \subseteq Begun
    BY DEF RoomInv, OnceInv, Known, Somewhere
  <2>2. QED
    BY <2>1 DEF AnswersRight, Answers
<1>3. QED
    BY <1>1, <1>2, Apart

(* A call ends when it is answered or given up.                             *)
LEMMA CallsStep ==
    ASSUME RoomInv, RoomInv', CallsRight, AnswersRight, NumbersApart, Step
    PROVE  CallsRight'
<1>0. Onward
    BY OnwardStep
<1>a. counter \in [Processes -> Nat] /\ abandoned \subseteq Begun /\ Executed \subseteq Begun
    BY DEF RoomInv, OnceInv, CallShape, CallsBounded, Known, Somewhere
\* A process whose call did not change.
<1>b. ASSUME NEW q \in Processes, call'[q] = call[q], counter'[q] = counter[q], call[q].pc \in {"send", "recv"} =>
                 (Id(q) \in abandoned' => Id(q) \in abandoned)
      PROVE  CallRight(q)'
  <2>1. Id(q)' = Id(q)
    BY <1>b DEF Id
  <2>2. CallRight(q)
    BY DEF CallsRight
  <2>3. QED
    BY <1>0, <1>b, <2>1, <2>2 DEF Onward, CallRight
<1>1. ASSUME NEW p \in Processes, Client(p), UNCHANGED serviceVars
      PROVE  CallsRight'
  <2>c. CallRight(p)
    BY DEF CallsRight
  <2>1. ASSUME NEW op \in Operations[p], NEW parts \in 1 .. MaxParts, Begin(p, op, parts)
        PROVE  CallsRight'
    <3>1. /\ call[p].pc = "idle" /\ UNCHANGED <<requests, responses, abandoned>>
          /\ \A q \in Processes \ {p} : call'[q] = call[q] /\ counter'[q] = counter[q] /\ Id(q)' = Id(q)
          /\ counter'[p] = counter[p] + 1 /\ Id(p)' \notin Begun
          /\ call'[p].pc = "send" /\ call'[p].parts = parts
          /\ call'[p].sent = 0 /\ call'[p].got = 0 /\ call'[p].from = {}
        BY <2>1, BeginFacts
    <3>2. ASSUME NEW n \in Nat, n + 1 < counter'[p]
          PROVE  <<p, n>> \in abandoned' \cup Executed'
      <4>1. CASE n + 1 < counter[p]
        BY <1>0, <2>c, <4>1 DEF CallRight, Onward
      <4>2. CASE ~(n + 1 < counter[p])
        <5>1. n = counter[p] - 1 /\ counter[p] > 0
            BY <1>a, <3>1, <3>2, <4>2
        <5>2. <<p, n>> = Id(p)
            BY <5>1 DEF Id
        <5>3. QED
            BY <1>0, <2>c, <3>1, <5>1, <5>2 DEF CallRight, Onward
      <4>3. QED
        BY <4>1, <4>2
    <3>3. CallRight(p)'
        BY <1>a, <3>1, <3>2 DEF CallRight
    <3>4. QED
        BY <1>b, <3>1, <3>3 DEF CallsRight
  <2>2. CASE Send(p)
    <3>1. /\ call[p].pc = "send" /\ UNCHANGED <<counter, responses, abandoned>>
          /\ \A q \in Processes \ {p} : call'[q] = call[q]
          /\ call'[p].sent = call[p].sent + 1 /\ call[p].sent \in Nat
          /\ call'[p].pc = IF call[p].sent + 1 = call[p].parts THEN "recv" ELSE "send"
          /\ call'[p].op = call[p].op /\ call'[p].parts = call[p].parts
          /\ call'[p].got = call[p].got /\ call'[p].from = call[p].from
        BY <2>2, SendFacts
    <3>2. Id(p)' = Id(p) /\ call[p].parts \in Nat
        BY <3>1 DEF Id, RoomInv, OnceInv, CallShape, CallRecord
    <3>3. call'[p].pc = "send" => call'[p].sent < call'[p].parts
        BY <2>c, <3>1, <3>2 DEF CallRight
    <3>4. call'[p].pc \in {"send", "recv"}
        BY <3>1
    <3>5. CallRight(p)'
        BY <1>0, <2>c, <3>1, <3>2, <3>3, <3>4 DEF CallRight, Onward
    <3>6. QED
        BY <1>b, <3>1, <3>5 DEF CallsRight
  <2>3. CASE Receive(p)
    <3>1. PICK k \in DOMAIN responses :
              LET r == responses[k]
                  more == Library[call[p].op].gathers /\ call[p].got + 1 < r.parts
                  broken == call[p].got > 0 /\ r.parts = 1
              IN  /\ r.seq = Seq_(p)
                  /\ call[p].pc = "recv" /\ UNCHANGED counter
                  /\ \A q \in Processes \ {p} : call'[q] = call[q]
                  /\ call'[p].got = call[p].got + 1 /\ call[p].got \in Nat
                  /\ call'[p].from = call[p].from \cup {r.id}
                  /\ call'[p].pc = IF broken THEN "exited" ELSE IF more THEN "recv" ELSE "idle"
                  /\ abandoned' = IF broken THEN abandoned \cup {Id(p)} ELSE abandoned
        BY <2>3, ReceiveFacts
    <3>2. Id(p)' = Id(p)
        BY <3>1 DEF Id
    <3>3. responses[k].id = Id(p) /\ responses[k].id \in Executed
        BY <3>1, OwnReceived DEF AnswersRight, Answers
    <3>4. /\ call'[p].got > 0 /\ call'[p].from = {Id(p)}
          /\ call'[p].pc \in {"exited", "recv", "idle"}
          /\ call'[p].pc = "exited" => Id(p) \in abandoned'
          /\ call'[p].pc = "recv" => Id(p) \notin abandoned'
        BY <2>c, <3>1, <3>3 DEF CallRight
    <3>5. CallRight(p)'
        BY <1>0, <2>c, <3>1, <3>2, <3>3, <3>4 DEF CallRight, Onward
    <3>6. \A q \in Processes \ {p} : Id(q) # Id(p)
        BY DEF Id
    <3>7. \A q \in Processes \ {p} : CallRight(q)'
        BY <1>b, <3>1, <3>6
    <3>8. QED
        BY <3>5, <3>7 DEF CallsRight
  <2>4. CASE Exit(p) \/ Guess(p)
    <3>1. /\ call[p].pc \in {"send", "recv"} /\ UNCHANGED <<counter, requests, responses>>
          /\ abandoned' = abandoned \cup {Id(p)}
          /\ \A q \in Processes \ {p} : call'[q] = call[q]
          /\ call'[p].pc \in {"exited", "idle"}
          /\ call'[p].got = call[p].got /\ call'[p].from = call[p].from
        BY <2>4, LeaveFacts
    <3>2. Id(p)' = Id(p) /\ \A q \in Processes \ {p} : Id(q) # Id(p)
        BY <3>1 DEF Id
    <3>3. CallRight(p)'
        BY <1>0, <2>c, <3>1, <3>2 DEF CallRight, Onward
    <3>4. \A q \in Processes \ {p} : CallRight(q)'
        BY <1>b, <3>1, <3>2
    <3>5. QED
        BY <3>3, <3>4 DEF CallsRight
  <2>5. QED
    BY <1>1, <2>1, <2>2, <2>3, <2>4 DEF Client
<1>2. CASE Receiver \/ Worker \/ Main \/ Signal \/ Start \/ UNCHANGED vars
    BY <1>2, <1>b, ClientsStill DEF CallsRight
<1>3. QED
    BY <1>1, <1>2 DEF Step, Next

\* A call that waits for its answer waits on, or is given up; none begins to
\* wait for an answer that is there.
Stays ==
    \A x \in Begun : Wanted(x) =>
        /\ Wanted(x)'
        /\ IsCurrent(x)' /\ CallOf(x)'.pc = "recv" =>
              IsCurrent(x) /\ CallOf(x).pc = "recv" /\ CallOf(x)'.got = CallOf(x).got

(* Only receiving an answer changes what is wanted.                         *)
LEMMA StaysStep ==
    ASSUME RoomInv, CallsRight,
           \/ \E p \in Processes : Client(p) /\ ~Receive(p) /\ UNCHANGED serviceVars
           \/ Receiver \/ Worker \/ Main \/ Signal \/ Start \/ UNCHANGED vars
    PROVE  Stays
<1>b. \A x \in Begun : x \in Processes \X Nat /\ x[1] \in Processes
    BY DEF Begun
<1>1. ASSUME NEW p \in Processes, Client(p), ~Receive(p)
      PROVE  Stays
  <2>c. CallRight(p)
    BY DEF CallsRight
  <2>1. CASE \E op \in Operations[p], parts \in 1 .. MaxParts : Begin(p, op, parts)
    <3>1. /\ call[p].pc = "idle" /\ UNCHANGED abandoned /\ Id(p)' \notin Begun
          /\ \A q \in Processes \ {p} : call'[q] = call[q] /\ counter'[q] = counter[q] /\ Id(q)' = Id(q)
        BY <2>1, BeginFacts
    <3>2. ASSUME NEW x \in Begun, Wanted(x)
          PROVE  /\ Wanted(x)'
                 /\ IsCurrent(x)' /\ CallOf(x)'.pc = "recv" =>
                       IsCurrent(x) /\ CallOf(x).pc = "recv" /\ CallOf(x)'.got = CallOf(x).got
      <4>1. CASE x[1] = p
        BY <3>1, <3>2, <4>1 DEF Wanted, IsCurrent, CallOf
      <4>2. CASE x[1] # p
        BY <1>b, <3>1, <3>2, <4>2 DEF Wanted, IsCurrent, CallOf
      <4>3. QED
        BY <4>1, <4>2
    <3>3. QED
        BY <3>2 DEF Stays
  <2>2. CASE Send(p)
    <3>1. /\ call[p].pc = "send" /\ UNCHANGED <<counter, abandoned>>
          /\ \A q \in Processes \ {p} : call'[q] = call[q]
        BY <2>2, SendFacts
    <3>2. Id(p) \notin abandoned /\ \A q \in Processes : Id(q)' = Id(q)
        BY <2>c, <3>1 DEF CallRight, Id
    <3>3. ASSUME NEW x \in Begun, Wanted(x)
          PROVE  /\ Wanted(x)'
                 /\ IsCurrent(x)' /\ CallOf(x)'.pc = "recv" =>
                       IsCurrent(x) /\ CallOf(x).pc = "recv" /\ CallOf(x)'.got = CallOf(x).got
      <4>1. CASE x[1] = p
        BY <3>1, <3>2, <3>3, <4>1 DEF Wanted, IsCurrent, CallOf
      <4>2. CASE x[1] # p
        BY <1>b, <3>1, <3>2, <3>3, <4>2 DEF Wanted, IsCurrent, CallOf
      <4>3. QED
        BY <4>1, <4>2
    <3>4. QED
        BY <3>3 DEF Stays
  <2>3. CASE Exit(p) \/ Guess(p)
    <3>1. /\ UNCHANGED counter /\ abandoned' = abandoned \cup {Id(p)}
          /\ \A q \in Processes \ {p} : call'[q] = call[q]
          /\ call'[p].pc \in {"exited", "idle"}
        BY <2>3, LeaveFacts
    <3>2. \A q \in Processes : Id(q)' = Id(q)
        BY <3>1 DEF Id
    <3>3. ASSUME NEW x \in Begun, Wanted(x)
          PROVE  /\ Wanted(x)'
                 /\ IsCurrent(x)' /\ CallOf(x)'.pc = "recv" =>
                       IsCurrent(x) /\ CallOf(x).pc = "recv" /\ CallOf(x)'.got = CallOf(x).got
      <4>1. CASE x[1] = p
        BY <3>1, <3>2, <3>3, <4>1 DEF Wanted, IsCurrent, CallOf
      <4>2. CASE x[1] # p
        BY <1>b, <3>1, <3>2, <3>3, <4>2 DEF Wanted, IsCurrent, CallOf
      <4>3. QED
        BY <4>1, <4>2
    <3>4. QED
        BY <3>3 DEF Stays
  <2>4. QED
    BY <1>1, <2>1, <2>2, <2>3 DEF Client
<1>2. CASE Receiver \/ Worker \/ Main \/ Signal \/ Start \/ UNCHANGED vars
  <2>1. UNCHANGED <<counter, call, abandoned>>
    BY <1>2, ClientsStill
  <2>2. QED
    BY <2>1 DEF Stays, Wanted, IsCurrent, CallOf, Id
<1>3. QED
    BY <1>1, <1>2

(* What keeps an answer right.                                              *)
LEMMA AnswerKeeps ==
    ASSUME RoomInv, Onward, NEW x, NEW n, Answers(x, n), Wanted(x)'
    PROVE  x \in Begun /\ Answers(x, n)'
<1>1. x \in Begun
    BY DEF Answers, RoomInv, OnceInv, Known, Somewhere
<1>2. OneOrRead(x, n)'
    BY <1>1 DEF Answers, Onward, OneOrRead
<1>3. QED
    BY <1>1, <1>2 DEF Answers, Onward

LEMMA AnswerStays ==
    ASSUME RoomInv, Onward, Stays, NEW x, NEW n, Answers(x, n)
    PROVE  Answers(x, n)'
<1>1. x \in Begun
    BY DEF Answers, RoomInv, OnceInv, Known, Somewhere
<1>2. Wanted(x)'
    BY <1>1 DEF Stays, Answers
<1>3. QED
    BY <1>2, AnswerKeeps

(* Steps that leave the answers where they are.                             *)
LEMMA AnswersQuiet ==
    ASSUME RoomInv, Onward, Stays, AnswersRight, AnswersInOrder,
           responses' = responses, wk' = "reply" => wk = "reply" /\ cur' = cur
    PROVE  AnswersRight' /\ AnswersInOrder'
<1>b. /\ \A k \in DOMAIN responses : responses[k].id \in Begun
      /\ wk = "reply" => cur.req.id \in Begun
    BY DEF AnswersRight, Answers, RoomInv, OnceInv, Known, Somewhere
<1>1. AnswersRight'
  <2>1. \A k \in DOMAIN responses : Answers(responses[k].id, responses[k].parts)'
    <3>1. ASSUME NEW k \in DOMAIN responses PROVE Answers(responses[k].id, responses[k].parts)'
      <4>1. PICK x, n : x = responses[k].id /\ n = responses[k].parts
        OBVIOUS
      <4>2. Answers(x, n)
        BY <4>1 DEF AnswersRight
      <4>3. Answers(x, n)'
        BY <4>2, AnswerStays
      <4>4. x = responses'[k].id /\ n = responses'[k].parts
        BY <4>1
      <4>5. QED
        BY <4>3, <4>4 DEF Answers, Wanted, OneOrRead, IsCurrent, CallOf
    <3>2. QED
        BY <3>1
  <2>2. wk' = "reply" => cur'.sent < cur'.answers /\ Answers(cur.req.id, cur.answers)'
    <3>1. ASSUME wk' = "reply" PROVE cur'.sent < cur'.answers /\ Answers(cur.req.id, cur.answers)'
      <4>1. PICK x, n : x = cur.req.id /\ n = cur.answers
        OBVIOUS
      <4>2. Answers(x, n) /\ cur.sent < cur.answers
        BY <3>1, <4>1 DEF AnswersRight
      <4>3. Answers(x, n)'
        BY <4>2, AnswerStays
      <4>4. x = cur'.req.id /\ n = cur'.answers
        BY <3>1, <4>1
      <4>5. QED
        BY <3>1, <4>2, <4>3, <4>4 DEF Answers, Wanted, OneOrRead, IsCurrent, CallOf
    <3>2. QED
        BY <3>1
  <2>3. QED
    BY <2>1, <2>2 DEF AnswersRight, Number
<1>2. AnswersInOrder'
  <2>1. PICK place : Labels(place)
    BY DEF AnswersInOrder
  <2>2. \A k \in DOMAIN responses : IsCurrent(responses[k].id)' /\ CallOf(responses[k].id)'.pc = "recv" =>
            CallOf(responses[k].id)'.got < place[k]
    <3>1. ASSUME NEW k \in DOMAIN responses, IsCurrent(responses[k].id)', CallOf(responses[k].id)'.pc = "recv"
          PROVE  CallOf(responses[k].id)'.got < place[k]
      <4>1. PICK x : x = responses[k].id
        OBVIOUS
      <4>2. x \in Begun /\ Wanted(x)
        BY <1>b, <4>1 DEF AnswersRight, Answers
      <4>3. IsCurrent(x)' /\ CallOf(x)'.pc = "recv"
        BY <3>1, <4>1 DEF IsCurrent, CallOf
      <4>4. IsCurrent(x) /\ CallOf(x).pc = "recv" /\ CallOf(x)'.got = CallOf(x).got
        BY <4>2, <4>3 DEF Stays
      <4>5. CallOf(x).got < place[k]
        BY <2>1, <4>1, <4>4 DEF Labels
      <4>6. QED
        BY <4>1, <4>4, <4>5 DEF CallOf
    <3>2. QED
        BY <3>1
  <2>3. Labels(place)'
    BY <2>1, <2>2 DEF Labels
  <2>4. ASSUME wk' = "reply", IsCurrent(cur.req.id)', CallOf(cur.req.id)'.pc = "recv"
        PROVE  CallOf(cur.req.id)'.got <= cur'.sent
    <3>1. PICK x : x = cur.req.id /\ x = cur'.req.id
        BY <2>4
    <3>2. x \in Begun /\ Wanted(x)
        BY <1>b, <2>4, <3>1 DEF AnswersRight, Answers
    <3>3. IsCurrent(x)' /\ CallOf(x)'.pc = "recv"
        BY <2>4, <3>1 DEF IsCurrent, CallOf
    <3>4. IsCurrent(x) /\ CallOf(x).pc = "recv" /\ CallOf(x)'.got = CallOf(x).got
        BY <3>2, <3>3 DEF Stays
    <3>5. CallOf(x).got <= cur.sent
        BY <2>4, <3>1, <3>4 DEF AnswersInOrder
    <3>6. QED
        BY <2>4, <3>1, <3>4, <3>5 DEF CallOf
  <2>5. QED
    BY <2>3, <2>4 DEF AnswersInOrder
<1>3. QED
    BY <1>1, <1>2

(* A request that the worker executes has no answer yet, and its call waits *)
(* for one: all its parts were sent.                                        *)
LEMMA AnswersServe ==
    ASSUME RoomInv, PathRight, CallsRight, AnswersRight, AnswersInOrder, WkServe
    PROVE  AnswersRight' /\ AnswersInOrder'
<1>0. /\ ring # <<>> /\ UNCHANGED <<counter, call, responses, abandoned>>
      /\ Head(ring).got = Head(ring).parts /\ wk' = "reply" /\ wk = "wait"
      /\ executed' = Append(executed, Head(ring).id)
      /\ \E n \in 1 .. MaxAnswers : /\ n = 1 \/ Head(ring).op = "read"
                                    /\ cur' = [req |-> Head(ring), answers |-> n, sent |-> 0]
    BY DEF WkServe, Taken, Complete, clientVars
<1>1. PICK s, x, n : /\ s = Head(ring) /\ x = Head(ring).id
                     /\ n \in 1 .. MaxAnswers /\ (n = 1 \/ s.op = "read")
                     /\ cur' = [req |-> s, answers |-> n, sent |-> 0]
    BY <1>0
<1>2. s = ring[1] /\ 1 \in DOMAIN ring /\ s \in RingSlot /\ executed \in Seq(Processes \X Nat)
  <2>1. ring \in Seq(RingSlot) /\ executed \in Seq(Processes \X Nat)
    BY DEF RoomInv, OnceInv, PathShape
  <2>2. QED
    BY <1>0, <1>1, <2>1
<1>3. Executed' = Executed \cup {x} /\ x \notin Executed
  <2>1. x \in Waiting
    BY <1>1, <1>2 DEF Waiting
  <2>2. x \notin Executed
    BY <2>1 DEF RoomInv, OnceInv, InOnePlace
  <2>3. x \in Processes \X Nat
    BY <1>1, <1>2 DEF RingSlot
  <2>4. /\ DOMAIN executed' = DOMAIN executed \cup {Len(executed) + 1}
        /\ \A k \in DOMAIN executed : executed'[k] = executed[k]
        /\ executed'[Len(executed) + 1] = x
    BY <1>0, <1>1, <1>2, <2>3, AppendPlaces
  <2>5. QED
    BY <2>2, <2>4 DEF Executed
<1>4. Right(s) /\ (IsCurrent(x) => s.got <= CallOf(x).sent) /\ x = s.id /\ s.got = s.parts
    BY <1>0, <1>1, <1>2 DEF PathRight, SlotRight, BySent
<1>5. x \in Processes \X Nat /\ x[1] \in Processes /\ x \in Begun
    BY <1>4 DEF Right, Begun
<1>6. CallRight(x[1]) /\ CallOf(x).pc \in PCs /\ CallOf(x).got \in Nat /\ CallOf(x).sent \in Nat /\ CallOf(x).parts \in Nat
      /\ counter[x[1]] \in Nat
    BY <1>5 DEF CallsRight, CallOf, RoomInv, OnceInv, CallShape, CallRecord
<1>7. Wanted(x) /\ OneOrRead(x, n) /\ (IsCurrent(x) /\ CallOf(x).pc = "recv" => CallOf(x).got = 0)
  <2>1. CASE IsCurrent(x)
    <3>1. s.parts = CallOf(x).parts /\ s.op = CallOf(x).op /\ CallOf(x).parts <= CallOf(x).sent
        BY <1>4, <2>1 DEF Right
    <3>2. CallOf(x).pc # "send"
        BY <1>6, <2>1, <3>1 DEF CallRight, CallOf
    <3>3. CallOf(x).got = 0
        BY <1>3, <1>6, <2>1 DEF CallRight, CallOf, IsCurrent
    <3>4. counter[x[1]] > 0
        BY <1>5, <1>6 DEF Begun
    <3>5. CallOf(x).pc = "idle" => x \in abandoned
        BY <1>6, <2>1, <3>3, <3>4 DEF CallRight, CallOf, IsCurrent
    <3>6. CallOf(x).pc = "exited" => x \in abandoned
        BY <1>6, <2>1 DEF CallRight, CallOf, IsCurrent
    <3>7. Wanted(x)
        BY <1>6, <2>1, <3>2, <3>5, <3>6 DEF Wanted, PCs
    <3>8. QED
        BY <1>1, <3>1, <3>3, <3>7 DEF OneOrRead
  <2>2. CASE ~IsCurrent(x)
    <3>1. PICK p \in Processes, k \in Nat : x = <<p, k>> /\ k < counter[p] /\ p = x[1]
        BY <1>5 DEF Begun
    <3>2. k # counter[p] - 1
        BY <2>2, <3>1 DEF IsCurrent, Id
    <3>3. k + 1 < counter[p]
        BY <1>6, <3>1, <3>2
    <3>4. x \in abandoned \cup Executed
        BY <1>6, <3>1, <3>3 DEF CallRight
    <3>5. QED
        BY <1>3, <2>2, <3>4 DEF Wanted, OneOrRead
  <2>3. QED
    BY <2>1, <2>2
<1>8. /\ cur'.req.id = x /\ cur'.answers = n /\ cur'.sent = 0
    BY <1>1, <1>4
<1>9. AnswersRight'
  <2>1. 0 < n
    BY <1>1
  <2>2. \A k \in DOMAIN responses : Answers(responses[k].id, responses[k].parts)'
    BY <1>0, <1>3 DEF AnswersRight, Answers, Wanted, OneOrRead, IsCurrent, CallOf, Id
  <2>3. Answers(cur.req.id, cur.answers)'
    BY <1>0, <1>3, <1>7, <1>8 DEF Answers, Wanted, OneOrRead, IsCurrent, CallOf, Id
  <2>4. QED
    BY <1>0, <1>8, <2>1, <2>2, <2>3 DEF AnswersRight, Number
<1>10. AnswersInOrder'
  <2>1. PICK place : Labels(place)
    BY DEF AnswersInOrder
  <2>2. \A k \in DOMAIN responses : responses[k].id # x
    BY <1>3 DEF AnswersRight, Answers
  <2>3. Labels(place)'
    BY <1>0, <1>8, <2>1, <2>2 DEF Labels, IsCurrent, CallOf, Id
  <2>4. IsCurrent(x) /\ CallOf(x).pc = "recv" => CallOf(x).got <= 0
    BY <1>7
  <2>5. QED
    BY <1>0, <1>8, <2>3, <2>4 DEF AnswersInOrder, IsCurrent, CallOf, Id
<1>11. QED
    BY <1>9, <1>10

(* The next part of the answer goes behind those sent before it.            *)
LEMMA AnswersReply ==
    ASSUME RoomInv, PathRight, AnswersRight, AnswersInOrder, WkReply
    PROVE  AnswersRight' /\ AnswersInOrder'
<1>0. PICK r, m, x, n, d :
          /\ r = [id |-> cur.req.id, seq |-> cur.req.seq, parts |-> cur.answers]
          /\ m = Len(responses) + 1 /\ x = cur.req.id /\ n = cur.answers /\ d = cur.sent
    OBVIOUS
<1>1. /\ wk = "reply" /\ responses' = Append(responses, r)
      /\ UNCHANGED <<counter, call, abandoned, executed>>
      /\ wk' = "reply" => cur' = [cur EXCEPT !.sent = @ + 1] /\ d + 1 # n
    BY <1>0 DEF WkReply
<1>2. /\ responses \in Seq(Response) /\ cur \in [req : RingSlot, answers : Nat, sent : Nat]
      /\ d \in Nat /\ n \in Nat /\ x \in Processes \X Nat
    BY <1>0, <1>1 DEF RoomInv, QueuesOK, RingSlot
<1>3. /\ DOMAIN responses' = DOMAIN responses \cup {m} /\ m \notin DOMAIN responses
      /\ \A k \in DOMAIN responses : responses'[k] = responses[k] /\ k < m /\ ~(m < k)
      /\ responses'[m] = r /\ ~(m < m)
  <2>1. Len(responses) \in Nat /\ DOMAIN responses = 1 .. Len(responses)
    BY <1>2
  <2>2. DOMAIN responses' = 1 .. m /\ responses'[m] = r /\ \A k \in DOMAIN responses : responses'[k] = responses[k]
    BY <1>0, <1>1, <1>2
  <2>3. QED
    BY <1>0, <2>1, <2>2
<1>4. wk' = "reply" => cur'.req.id = x /\ cur'.answers = n /\ cur'.sent = d + 1 /\ d + 1 < n
  <2>1. d < n
    BY <1>0, <1>1 DEF AnswersRight
  <2>2. ASSUME wk' = "reply" PROVE cur'.req.id = x /\ cur'.answers = n /\ cur'.sent = d + 1 /\ d + 1 < n
    <3>1. d + 1 < n
        BY <1>1, <1>2, <2>1, <2>2
    <3>2. QED
        BY <1>0, <1>1, <1>2, <2>2, <3>1
  <2>3. QED
    BY <2>2
<1>5. /\ r.id = x /\ r.parts = n /\ Answers(x, n) /\ r.seq = Number(x) /\ d < n
    BY <1>0, <1>1 DEF AnswersRight, PathRight, CurRight, Right
<1>6. \A y, c : Answers(y, c) => Answers(y, c)'
    BY <1>1 DEF Answers, Wanted, OneOrRead, IsCurrent, CallOf, Id, Executed
<1>7. AnswersRight'
  <2>1. \A k \in DOMAIN responses : Answers(responses[k].id, responses[k].parts)
                                    /\ responses[k].seq = Number(responses[k].id)
    BY DEF AnswersRight
  <2>2. ASSUME NEW k \in DOMAIN responses'
        PROVE  responses'[k].seq = Number(responses'[k].id) /\ Answers(responses[k].id, responses[k].parts)'
    <3>1. PICK y, c, e : y = responses'[k].id /\ c = responses'[k].parts /\ e = responses'[k].seq
        OBVIOUS
    <3>2. Answers(y, c) /\ e = Number(y)
        BY <1>3, <1>5, <2>1, <3>1
    <3>3. Answers(y, c)'
        BY <1>6, <3>2
    <3>4. QED
        BY <3>1, <3>2, <3>3 DEF Answers, Wanted, OneOrRead, IsCurrent, CallOf, Number
  <2>3. ASSUME wk' = "reply" PROVE cur'.sent < cur'.answers /\ Answers(cur.req.id, cur.answers)'
    <3>1. Answers(x, n)'
        BY <1>5, <1>6
    <3>2. QED
        BY <1>4, <2>3, <3>1 DEF Answers, Wanted, OneOrRead, IsCurrent, CallOf
  <2>4. QED
    BY <2>2, <2>3 DEF AnswersRight, Number
<1>8. AnswersInOrder'
  <2>1. PICK place : Labels(place)
    BY DEF AnswersInOrder
  <2>2. PICK label : label = [k \in DOMAIN responses' |-> IF k = m THEN d + 1 ELSE place[k]]
    OBVIOUS
  <2>3. label[m] = d + 1 /\ \A k \in DOMAIN responses : label[k] = place[k]
    BY <1>3, <2>2
  <2>4. IsCurrent(x) /\ CallOf(x).pc = "recv" => CallOf(x).got <= d
    BY <1>0, <1>1 DEF AnswersInOrder
  <2>g. CallOf(x).got \in Nat
    BY <1>2 DEF CallOf, RoomInv, OnceInv, CallShape, CallRecord
  <2>5. \A k \in DOMAIN responses :
            /\ place[k] \in 1 .. responses[k].parts
            /\ IsCurrent(responses[k].id) /\ CallOf(responses[k].id).pc = "recv" => CallOf(responses[k].id).got < place[k]
            /\ responses[k].id = x => place[k] <= d /\ responses[k].parts = n
    BY <1>0, <1>1, <2>1 DEF Labels
  <2>5a. \A k \in DOMAIN responses : place[k] \in Nat
    <3>1. \A k \in DOMAIN responses : responses[k].parts \in Nat
      <4>1. ASSUME NEW k \in DOMAIN responses PROVE responses[k].parts \in Nat
        <5>1. responses[k] \in Response
            BY <1>2
        <5>2. QED
            BY <5>1 DEF Response
      <4>2. QED
        BY <4>1
    <3>2. QED
        BY <2>5, <3>1
  <2>6. ASSUME NEW k \in DOMAIN responses'
        PROVE  /\ label[k] \in 1 .. responses'[k].parts
               /\ IsCurrent(responses[k].id)' /\ CallOf(responses[k].id)'.pc = "recv" => CallOf(responses[k].id)'.got < label[k]
               /\ wk' = "reply" /\ responses'[k].id = cur'.req.id
                    => label[k] <= cur'.sent /\ responses'[k].parts = cur'.answers
    <3>1. CASE k = m
      <4>1. d + 1 \in 1 .. n /\ d + 1 <= d + 1
        BY <1>2, <1>5
      <4>2. IsCurrent(x) /\ CallOf(x).pc = "recv" => CallOf(x).got < d + 1
        BY <1>2, <2>4, <2>g
      <4>3. QED
        BY <1>1, <1>3, <1>4, <1>5, <2>3, <3>1, <4>1, <4>2 DEF IsCurrent, CallOf, Id
    <3>2. CASE k # m
      <4>1. k \in DOMAIN responses /\ responses'[k] = responses[k] /\ label[k] = place[k]
        BY <1>3, <2>3, <3>2
      <4>2. responses[k].id = x => place[k] <= d + 1
        BY <1>2, <2>5, <2>5a, <4>1
      <4>3. QED
        BY <1>1, <1>4, <2>5, <4>1, <4>2 DEF IsCurrent, CallOf, Id
    <3>3. QED
        BY <3>1, <3>2
  <2>7. ASSUME NEW j \in DOMAIN responses', NEW k \in DOMAIN responses', j < k, responses'[j].id = responses'[k].id
        PROVE  label[j] < label[k] /\ responses'[j].parts = responses'[k].parts
    <3>1. j # m
        BY <1>3, <2>7
    <3>2. CASE k = m
      <4>1. j \in DOMAIN responses /\ responses[j].id = x
        BY <1>3, <1>5, <2>7, <3>1, <3>2
      <4>2. place[j] <= d /\ responses[j].parts = n /\ place[j] \in Nat
        BY <2>5, <2>5a, <4>1
      <4>3. place[j] < d + 1
        BY <1>2, <4>2
      <4>4. QED
        BY <1>3, <1>5, <2>3, <3>2, <4>1, <4>2, <4>3
    <3>3. CASE k # m
        BY <1>3, <2>1, <2>3, <2>7, <3>1, <3>3 DEF Labels
    <3>4. QED
        BY <3>2, <3>3
  <2>8. Labels(label)'
    BY <2>6, <2>7 DEF Labels
  <2>9. ASSUME wk' = "reply", IsCurrent(cur.req.id)', CallOf(cur.req.id)'.pc = "recv"
        PROVE  CallOf(cur.req.id)'.got <= cur'.sent
    <3>1. IsCurrent(x) /\ CallOf(x).pc = "recv"
        BY <1>1, <1>4, <2>9 DEF IsCurrent, CallOf, Id
    <3>2. CallOf(x).got <= d + 1
        BY <1>2, <2>4, <2>g, <3>1
    <3>3. QED
        BY <1>1, <1>4, <2>9, <3>2 DEF CallOf
  <2>10. QED
    BY <2>8, <2>9 DEF AnswersInOrder
<1>9. QED
    BY <1>7, <1>8

(* A call takes the parts of its answer in their order, and ends with the   *)
(* last: what is left in the queue, or still to be sent, makes it go on.    *)
LEMMA AnswersReceive ==
    ASSUME RoomInv, CallsRight, AnswersRight, AnswersInOrder, NumbersApart,
           NEW p \in Processes, Receive(p), UNCHANGED serviceVars, Onward
    PROVE  AnswersRight' /\ AnswersInOrder'
<1>1. PICK k \in DOMAIN responses :
          LET r == responses[k]
              more == Library[call[p].op].gathers /\ call[p].got + 1 < r.parts
              broken == call[p].got > 0 /\ r.parts = 1
          IN  /\ r.seq = Seq_(p) /\ responses' = RemoveAt(responses, k)
              /\ \A j \in DOMAIN responses : responses[j].seq = Seq_(p) => k <= j
              /\ call[p].pc = "recv" /\ UNCHANGED <<counter, requests>>
              /\ \A q \in Processes \ {p} : call'[q] = call[q]
              /\ call'[p].got = call[p].got + 1 /\ call[p].got \in Nat
              /\ call'[p].pc = IF broken THEN "exited" ELSE IF more THEN "recv" ELSE "idle"
              /\ abandoned' = IF broken THEN abandoned \cup {Id(p)} ELSE abandoned
    BY ReceiveFacts
<1>2. PICK x, n, g : x = Id(p) /\ n = responses[k].parts /\ g = call[p].got
    OBVIOUS
<1>3. UNCHANGED <<wk, cur, executed>>
    BY DEF serviceVars, threadVars
<1>4. /\ responses \in Seq(Response) /\ n \in Nat /\ g \in Nat
      /\ DOMAIN responses \subseteq Nat \ {0} /\ \A j \in DOMAIN responses : responses[j].parts \in Nat
  <2>1. responses \in Seq(Response)
    BY DEF RoomInv, QueuesOK
  <2>2. \A j \in DOMAIN responses : responses[j] \in Response /\ j \in Nat \ {0}
    BY <2>1
  <2>3. \A j \in DOMAIN responses : responses[j].parts \in Nat
    BY <2>2 DEF Response
  <2>4. QED
    BY <1>1, <1>2, <2>1, <2>2, <2>3
<1>5. responses[k].id = x /\ \A j \in DOMAIN responses : responses[j].id = x => k <= j
    BY <1>1, <1>2, OwnReceived
<1>6. IsCurrent(x) /\ x[1] = p /\ CallOf(x).pc = "recv" /\ CallOf(x).got = g /\ IsCurrent(x)'
      /\ CallOf(x)'.got = g + 1 /\ CallOf(x)'.pc = call'[p].pc
    BY <1>1, <1>2 DEF IsCurrent, CallOf, Id
<1>7. PICK place : Labels(place)
    BY DEF AnswersInOrder
<1>8. /\ place[k] \in 1 .. n /\ g < place[k]
      /\ \A j \in DOMAIN responses : place[j] \in Nat /\ place[j] <= responses[j].parts
    BY <1>2, <1>4, <1>5, <1>6, <1>7 DEF Labels
\* Any other part of this answer keeps the call waiting.
<1>9. ASSUME g + 1 < n
      PROVE  call'[p].pc = "recv"
  <2>1. n # 1 /\ ~(g > 0 /\ n = 1)
    BY <1>4, <1>9
  <2>2. OneOrRead(x, n)
    BY <1>2, <1>5 DEF AnswersRight, Answers
  <2>3. call[p].op = "read"
    BY <1>6, <2>1, <2>2 DEF OneOrRead, CallOf
  <2>4. Library[call[p].op].gathers
    BY <2>3 DEF Library, libfs_read, Function
  <2>5. QED
    BY <1>1, <1>2, <1>9, <2>1, <2>4
<1>10. ASSUME NEW i \in DOMAIN responses, i # k, responses[i].id = x
       PROVE  g + 1 < place[i] /\ g + 1 < n
  <2>1. k < i
    BY <1>4, <1>5, <1>10
  <2>2. place[k] < place[i] /\ responses[i].parts = n
    BY <1>2, <1>5, <1>7, <1>10, <2>1 DEF Labels
  <2>3. QED
    BY <1>4, <1>8, <2>2
<1>11. ASSUME wk = "reply", cur.req.id = x
       PROVE  g + 1 <= cur.sent /\ g + 1 < n
  <2>1. place[k] <= cur.sent /\ cur.answers = n /\ cur.sent < n
    BY <1>2, <1>5, <1>7, <1>11 DEF Labels, AnswersRight
  <2>2. cur.sent \in Nat
    BY <1>11 DEF RoomInv, QueuesOK
  <2>3. QED
    BY <1>4, <1>8, <2>1, <2>2
\* What every other call waits for does not change.
<1>12. ASSUME NEW y \in Begun, Wanted(y), y = x => g + 1 < n
       PROVE  Wanted(y)'
  <2>1. CASE y = x
    BY <1>6, <1>9, <1>12, <2>1 DEF Wanted
  <2>2. CASE y # x
    <3>1. y[1] \in Processes /\ (IsCurrent(y) => y[1] # p)
        BY <1>2, <2>2 DEF Begun, IsCurrent
    <3>2. abandoned \subseteq abandoned'
        BY DEF Onward
    <3>3. IsCurrent(y)' <=> IsCurrent(y)
        BY <1>1 DEF IsCurrent, Id
    <3>4. IsCurrent(y) => CallOf(y)' = CallOf(y)
        BY <1>1, <3>1 DEF CallOf
    <3>5. QED
        BY <1>12, <3>2, <3>3, <3>4 DEF Wanted
  <2>3. QED
    BY <2>1, <2>2
<1>13. PICK src, label :
           /\ src = [j \in DOMAIN responses' |-> IF j < k THEN j ELSE j + 1]
           /\ label = [j \in DOMAIN responses' |-> place[src[j]]]
    OBVIOUS
<1>14. /\ \A j \in DOMAIN responses' :
              src[j] \in DOMAIN responses /\ src[j] # k /\ responses'[j] = responses[src[j]] /\ label[j] = place[src[j]]
       /\ \A i, j \in DOMAIN responses' : i < j => src[i] < src[j]
  <2>1. /\ responses' \in Seq(Response)
        /\ \A j \in DOMAIN responses' :
              LET i == IF j < k THEN j ELSE j + 1
              IN  i \in DOMAIN responses /\ i # k /\ responses'[j] = responses[i]
    <3>1. responses' = RemoveAt(responses, k)
        BY <1>1
    <3>2. /\ RemoveAt(responses, k) \in Seq(Response)
          /\ \A j \in DOMAIN RemoveAt(responses, k) :
                LET i == IF j < k THEN j ELSE j + 1
                IN  i \in DOMAIN responses /\ i # k /\ RemoveAt(responses, k)[j] = responses[i]
        BY <1>4, RemovePlaces
    <3>3. QED
        BY <3>1, <3>2
  <2>2. \A j \in DOMAIN responses' : j \in Nat
    BY <2>1
  <2>3. \A j \in DOMAIN responses' : src[j] = IF j < k THEN j ELSE j + 1
    BY <1>13
  <2>4. ASSUME NEW i \in DOMAIN responses', NEW j \in DOMAIN responses', i < j
        PROVE  src[i] < src[j]
    <3>1. i \in Nat /\ j \in Nat /\ k \in Nat
        BY <1>4, <2>2
    <3>2. QED
        BY <2>3, <2>4, <3>1
  <2>5. QED
    BY <1>13, <2>1, <2>3, <2>4
<1>15. AnswersRight'
  <2>1. ASSUME NEW j \in DOMAIN responses'
        PROVE  responses'[j].seq = Number(responses'[j].id) /\ Answers(responses[j].id, responses[j].parts)'
    <3>1. PICK i, y, c : i = src[j] /\ y = responses'[j].id /\ c = responses'[j].parts
        OBVIOUS
    <3>2. i \in DOMAIN responses /\ i # k /\ y = responses[i].id /\ c = responses[i].parts /\ responses'[j] = responses[i]
        BY <1>14, <3>1
    <3>3. Answers(y, c) /\ responses[i].seq = Number(y)
        BY <3>2 DEF AnswersRight
    <3>4. y \in Begun /\ Wanted(y)
        BY <3>3 DEF Answers, RoomInv, OnceInv, Known, Somewhere
    <3>5. Wanted(y)'
        BY <1>10, <1>12, <3>2, <3>4
    <3>6. Answers(y, c)'
        BY <3>3, <3>5, AnswerKeeps
    <3>7. QED
        BY <3>1, <3>2, <3>3, <3>6 DEF Answers, Wanted, OneOrRead, IsCurrent, CallOf
  <2>2. ASSUME wk' = "reply"
        PROVE  cur'.sent < cur'.answers /\ Answers(cur.req.id, cur.answers)'
    <3>1. PICK y, c : y = cur.req.id /\ c = cur.answers
        OBVIOUS
    <3>2. Answers(y, c) /\ cur.sent < c
        BY <1>3, <2>2, <3>1 DEF AnswersRight
    <3>3. y \in Begun /\ Wanted(y)
        BY <3>2 DEF Answers, RoomInv, OnceInv, Known, Somewhere
    <3>4. Wanted(y)'
        BY <1>3, <1>11, <1>12, <2>2, <3>1, <3>3
    <3>5. Answers(y, c)'
        BY <3>2, <3>4, AnswerKeeps
    <3>6. QED
        BY <1>3, <3>1, <3>2, <3>5 DEF Answers, Wanted, OneOrRead, IsCurrent, CallOf
  <2>3. QED
    BY <2>1, <2>2 DEF AnswersRight, Number
\* A call that waits after the step waited before it.
<1>16. ASSUME NEW y, IsCurrent(y)', CallOf(y)'.pc = "recv", y \in Begun
       PROVE  IsCurrent(y) /\ CallOf(y).pc = "recv" /\ (y # x => CallOf(y)'.got = CallOf(y).got)
  <2>1. IsCurrent(y)
    BY <1>1, <1>16 DEF IsCurrent, Id
  <2>2. CASE y = x
    BY <1>6, <2>1, <2>2
  <2>3. CASE y # x
    <3>1. y[1] \in Processes \ {p}
        BY <1>2, <1>16, <2>1, <2>3 DEF IsCurrent, Begun
    <3>2. CallOf(y)' = CallOf(y)
        BY <1>1, <3>1 DEF CallOf
    <3>3. QED
        BY <1>16, <2>1, <3>2
  <2>4. QED
    BY <2>2, <2>3
<1>17. Labels(label)'
  <2>1. ASSUME NEW j \in DOMAIN responses'
        PROVE  /\ label[j] \in 1 .. responses'[j].parts
               /\ IsCurrent(responses[j].id)' /\ CallOf(responses[j].id)'.pc = "recv" => CallOf(responses[j].id)'.got < label[j]
               /\ wk' = "reply" /\ responses'[j].id = cur'.req.id
                    => label[j] <= cur'.sent /\ responses'[j].parts = cur'.answers
    <3>1. PICK i, y : i = src[j] /\ y = responses'[j].id
        OBVIOUS
    <3>2. /\ i \in DOMAIN responses /\ i # k /\ y = responses[i].id /\ responses'[j] = responses[i] /\ label[j] = place[i]
        BY <1>14, <3>1
    <3>3. label[j] \in 1 .. responses'[j].parts
        BY <1>7, <3>2 DEF Labels
    <3>4. wk' = "reply" /\ responses'[j].id = cur'.req.id => label[j] <= cur'.sent /\ responses'[j].parts = cur'.answers
        BY <1>3, <1>7, <3>2 DEF Labels
    <3>5. ASSUME IsCurrent(y)', CallOf(y)'.pc = "recv"
          PROVE  CallOf(y)'.got < place[i]
      <4>1. y \in Begun
        BY <3>2 DEF AnswersRight, Answers, RoomInv, OnceInv, Known, Somewhere
      <4>2. IsCurrent(y) /\ CallOf(y).pc = "recv" /\ (y # x => CallOf(y)'.got = CallOf(y).got)
        BY <1>16, <3>5, <4>1
      <4>3. CASE y = x
        BY <1>6, <1>10, <3>2, <4>3
      <4>4. CASE y # x
        BY <1>7, <3>2, <4>2, <4>4 DEF Labels
      <4>5. QED
        BY <4>3, <4>4
    <3>6. IsCurrent(responses[j].id)' /\ CallOf(responses[j].id)'.pc = "recv" => CallOf(responses[j].id)'.got < label[j]
        BY <3>1, <3>2, <3>5 DEF IsCurrent, CallOf
    <3>7. QED
        BY <3>3, <3>4, <3>6
  <2>2. ASSUME NEW i \in DOMAIN responses', NEW j \in DOMAIN responses', i < j, responses'[i].id = responses'[j].id
        PROVE  label[i] < label[j] /\ responses'[i].parts = responses'[j].parts
    <3>1. PICK a, b : a = src[i] /\ b = src[j]
        OBVIOUS
    <3>2. /\ a \in DOMAIN responses /\ b \in DOMAIN responses /\ a < b
          /\ responses'[i] = responses[a] /\ responses'[j] = responses[b] /\ label[i] = place[a] /\ label[j] = place[b]
        BY <1>14, <2>2, <3>1
    <3>3. QED
        BY <1>7, <2>2, <3>2 DEF Labels
  <2>3. QED
    BY <2>1, <2>2 DEF Labels
<1>18. ASSUME wk' = "reply", IsCurrent(cur.req.id)', CallOf(cur.req.id)'.pc = "recv"
       PROVE  CallOf(cur.req.id)'.got <= cur'.sent
  <2>1. PICK y : y = cur.req.id
    OBVIOUS
  <2>2. y \in Begun /\ IsCurrent(y)' /\ CallOf(y)'.pc = "recv" /\ wk = "reply"
    BY <1>3, <1>18, <2>1 DEF AnswersRight, Answers, RoomInv, OnceInv, Known, Somewhere, IsCurrent, CallOf
  <2>3. IsCurrent(y) /\ CallOf(y).pc = "recv" /\ (y # x => CallOf(y)'.got = CallOf(y).got)
    BY <1>16, <2>2
  <2>4. CASE y = x
    BY <1>3, <1>6, <1>11, <2>1, <2>2, <2>4 DEF CallOf
  <2>5. CASE y # x
    BY <1>3, <2>1, <2>2, <2>3, <2>5 DEF AnswersInOrder, CallOf
  <2>6. QED
    BY <2>4, <2>5
<1>19. AnswersInOrder'
    BY <1>17, <1>18 DEF AnswersInOrder
<1>20. QED
    BY <1>15, <1>19

(* No step gives a call another's answer.                                   *)
LEMMA AnswersStep ==
    ASSUME RoomInv, PathRight, CallsRight, AnswersRight, AnswersInOrder, NumbersApart, Step
    PROVE  AnswersRight' /\ AnswersInOrder'
<1>0. Onward
    BY OnwardStep
<1>1. CASE WkServe
    BY <1>1, AnswersServe
<1>2. CASE WkReply
    BY <1>2, AnswersReply
<1>3. ASSUME NEW p \in Processes, Receive(p), UNCHANGED serviceVars
      PROVE  AnswersRight' /\ AnswersInOrder'
    BY <1>0, <1>3, AnswersReceive
<1>4. ASSUME NEW p \in Processes, Client(p), ~Receive(p), UNCHANGED serviceVars
      PROVE  AnswersRight' /\ AnswersInOrder'
  <2>1. UNCHANGED <<responses, wk, cur>>
    BY <1>4 DEF Client, Begin, Send, Exit, Guess, serviceVars, threadVars
  <2>2. Stays
    BY <1>4, StaysStep
  <2>3. QED
    BY <1>0, <2>1, <2>2, AnswersQuiet
<1>5. CASE Receiver \/ WkSkip \/ WkEnd \/ WkKill \/ Main \/ Signal \/ Start \/ UNCHANGED vars
  <2>1. responses' = responses /\ (wk' = "reply" => wk = "reply" /\ cur' = cur)
    BY <1>5 DEF Receiver, RxTest, RxReceive, RxBlock, RxPut, RxFind, RxCopy, WkSkip, Taken, WkEnd, WkKill, Main,
                MainJoinReceiver, MainJoinWorker, MainSave, Signal, Start, Started, vars,
                clientVars, serviceVars, threadVars
  <2>2. Stays
    BY <1>5, StaysStep DEF Worker
  <2>3. QED
    BY <1>0, <2>1, <2>2, AnswersQuiet
<1>6. QED
    BY <1>1, <1>2, <1>3, <1>4, <1>5 DEF Step, Next, Worker, Client

\* The inductive invariant: if numbers are apart, each call has its own answer.
ServiceInv == RoomInv /\ (NumbersApart => OwnInv)

LEMMA OwnInit ==
    ASSUME Init
    PROVE  OwnInv
<1>1. /\ counter = [p \in Processes |-> 0] /\ call = [p \in Processes |-> NoCall]
      /\ requests = <<>> /\ responses = <<>> /\ ring = <<>> /\ rx = "test" /\ wk = "wait"
    BY DEF Init, ClientInit
<1>2. DOMAIN requests = {} /\ DOMAIN responses = {} /\ DOMAIN ring = {}
    BY <1>1
<1>3. PathRight /\ PartsInOrder
    BY <1>1, <1>2 DEF PathRight, MsgRight, CurRight, PartsInOrder, RequestsInOrder, MsgInOrder, SlotsInOrder, Holds
<1>4. CallsRight
    BY <1>1 DEF CallsRight, CallRight, NoCall
<1>5. AnswersRight /\ AnswersInOrder
    BY <1>1, <1>2 DEF AnswersRight, AnswersInOrder, Labels
<1>6. QED
    BY <1>3, <1>4, <1>5 DEF OwnInv

THEOREM ServiceInvariance == Spec => []ServiceInv
<1>1. Init => ServiceInv
    BY RoomInit, OwnInit DEF ServiceInv
<1>2. ServiceInv /\ [Next]_vars => ServiceInv'
  <2> SUFFICES ASSUME ServiceInv, Step
               PROVE  ServiceInv'
    BY DEF Step
  <2>1. RoomInv /\ RoomInv'
    BY RoomStep DEF ServiceInv
  <2>2. ASSUME NumbersApart
        PROVE  OwnInv'
    <3>1. OwnInv
        BY <2>2 DEF ServiceInv
    <3>2. PathRight' /\ PartsInOrder'
        BY <2>1, <2>2, <3>1, PathStep DEF OwnInv
    <3>3. CallsRight'
        BY <2>1, <2>2, <3>1, CallsStep DEF OwnInv
    <3>4. AnswersRight' /\ AnswersInOrder'
        BY <2>1, <2>2, <3>1, AnswersStep DEF OwnInv
    <3>5. QED
        BY <3>2, <3>3, <3>4 DEF OwnInv
  <2>3. NumbersApart' <=> NumbersApart
    BY DEF NumbersApart, Ids, GetSeq
  <2>4. QED
    BY <2>1, <2>2, <2>3 DEF ServiceInv
<1>3. QED
    BY <1>1, <1>2, PTL DEF Spec

(* OwnAnswer for every number of processes, calls, parts, signals and       *)
(* restarts: a call gathers only the answer to its own request, whatever    *)
(* answers of dead clients and earlier services are in the queue (libfs.c   *)
(* 6, 706, operations.c 547).                                               *)
THEOREM AnsweredByOwn == Spec => []OwnAnswer
<1>1. ServiceInv => OwnAnswer
    BY DEF ServiceInv, OwnInv, CallsRight, CallRight, OwnAnswer
<1>2. QED
    BY ServiceInvariance, <1>1, PTL

(* AnswerWanted for every size of the queues and every number of parts: in  *)
(* the response queue is nothing but what a waiting client takes or a dead  *)
(* one left, so that the worker blocks on no client that waits for it       *)
(* (service_read, operations.c 730, libfs.c 1032).                          *)
THEOREM AnswersWanted == Spec => []AnswerWanted
<1>1. ServiceInv => AnswerWanted
  <2>1. ASSUME ServiceInv, NumbersApart, NEW k \in DOMAIN responses
        PROVE  \/ responses[k].id \in abandoned
               \/ \E p \in Processes : responses[k].id = Id(p) /\ call[p].pc = "recv"
    <3>1. Wanted(responses[k].id) /\ responses[k].id \in Executed
        BY <2>1 DEF ServiceInv, OwnInv, AnswersRight, Answers
    <3>2. responses[k].id[1] \in Processes
        BY <2>1, <3>1 DEF ServiceInv, RoomInv, OnceInv, Known, Somewhere, Begun
    <3>3. QED
        BY <3>1, <3>2 DEF Wanted, IsCurrent, CallOf
  <2>2. QED
    BY <2>1 DEF AnswerWanted
<1>2. QED
    BY ServiceInvariance, <1>1, PTL
=============================================================================
