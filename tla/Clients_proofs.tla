---------------------------- MODULE Clients_proofs ----------------------------
(***************************************************************************)
(* When the numbers of the client library tell its calls apart, for all    *)
(* process ids, counters and widths.                                       *)
(***************************************************************************)
EXTENDS Clients, TLAPS

(* A number below the modulus is its own remainder.                         *)
LEMMA SmallRemainder ==
    ASSUME NEW m \in Nat \ {0}, NEW n \in 0 .. m - 1
    PROVE  n % m = n
    BY SMT

(* Two multiples of w plus less than w each are equal only part by part.    *)
LEMMA Parts ==
    ASSUME NEW w \in Nat \ {0}, NEW a \in Nat, NEW b \in Nat,
           NEW i \in 0 .. w - 1, NEW j \in 0 .. w - 1, a * w + i = b * w + j
    PROVE  a = b /\ i = j
<1>1. ASSUME NEW c \in Nat, NEW d \in Nat, c < d
      PROVE  c * w + w <= d * w
  <2>1. PICK e \in Nat : d = c + 1 + e
      BY <1>1
  <2>2. d * w = c * w + w + e * w /\ e * w >= 0
      BY <2>1
  <2>3. QED
      BY <2>2
<1>2. ~(a < b) /\ ~(b < a)
    BY <1>1
<1>3. QED
    BY <1>2

\* Calls of a process before its numbers run into those of the next process,
\* and process ids small enough for an unsigned.
NumbersFit ==
    \A p \in Processes : MaxCalls[p] <= Window /\ Pid[p] * Window + Window <= Unsigned

(* NumbersApart holds as long as no process makes more than Window calls,   *)
(* 16 for a long of 8 bytes (get_seq, libfs.c 6).                           *)
THEOREM FewCallsStayApart ==
    ASSUME NumbersFit
    PROVE  NumbersApart
<1>1. SUFFICES ASSUME NEW x \in Ids, NEW y \in Ids,
                      GetSeq(Pid[x[1]], x[2]) = GetSeq(Pid[y[1]], y[2])
               PROVE  x = y
    BY DEF NumbersApart
<1>2. PICK p \in Processes : \E i \in 0 .. MaxCalls[p] - 1 : x = <<p, i>>
    BY DEF Ids
<1>3. PICK q \in Processes : \E j \in 0 .. MaxCalls[q] - 1 : y = <<q, j>>
    BY DEF Ids
<1>4. PICK i \in 0 .. MaxCalls[p] - 1, j \in 0 .. MaxCalls[q] - 1 : x = <<p, i>> /\ y = <<q, j>>
    BY <1>2, <1>3
<1>5. /\ Pid[p] \in Nat /\ Pid[q] \in Nat /\ Window \in Nat \ {0} /\ Unsigned \in Nat \ {0}
      /\ i \in 0 .. Window - 1 /\ j \in 0 .. Window - 1
    BY ProcessAssumption, RoomAssumption, WidthAssumption DEF NumbersFit
<1>6. ASSUME NEW a \in Nat, NEW k \in 0 .. Window - 1, a * Window + Window <= Unsigned
      PROVE  GetSeq(a, k) = a * Window + k
  <2>1. a * Window \in Nat
      BY <1>5
  <2>2. a * Window + k \in 0 .. Unsigned - 1
      BY <1>5, <1>6, <2>1
  <2>3. QED
      BY <1>5, <2>2, SmallRemainder DEF GetSeq
<1>7. Pid[p] * Window + i = Pid[q] * Window + j
    BY <1>1, <1>5, <1>6, <1>4 DEF NumbersFit
<1>8. Pid[p] = Pid[q] /\ i = j
  <2> DEFINE a == Pid[p]
             b == Pid[q]
  <2>1. a \in Nat /\ b \in Nat /\ a * Window + i = b * Window + j
      BY <1>5, <1>7
  <2>2. Window \in Nat \ {0} /\ i \in 0 .. Window - 1 /\ j \in 0 .. Window - 1
      BY <1>5
  <2> HIDE DEF a, b
  <2>3. a = b /\ i = j
      BY <2>1, <2>2, Parts
  <2>4. QED
      BY <2>3 DEF a, b
<1>9. QED
    BY <1>8, <1>4, ProcessAssumption

(* The bound is exact: after Window calls a process uses the first number   *)
(* of the process after it (libfs.c 6).                                     *)
THEOREM NumbersMeet ==
    ASSUME NEW pid \in Nat
    PROVE  GetSeq(pid, Window) = GetSeq(pid + 1, 0)
<1>1. pid * Window + Window = (pid + 1) * Window + 0
    BY ProcessAssumption
<1>2. QED
    BY <1>1 DEF GetSeq
=============================================================================
