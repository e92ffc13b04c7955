-------------------------- MODULE Permissions_proofs --------------------------
(***************************************************************************)
(* What the comparisons of the handlers decide, for every long a mode can  *)
(* be: the bit of the caller's class, but for modes that are not made of   *)
(* three octal digits.                                                     *)
(***************************************************************************)
EXTENDS Permissions, TLAPS

Classes == {"owner", "group", "other"}

(* The tests for reading (file_perms < 0400 and its group and other forms,  *)
(* operations.c 242-254) let in exactly the callers whose read bit is set   *)
(* in a mode that is not negative, and the owner of a file whose mode is    *)
(* above 0777, whatever its bits: the mode is a long nobody masks.          *)
THEOREM ReadCheck ==
    \A class \in Classes, mode \in Mode :
        MayRead(class, mode) <=> mode >= 0 /\ (ReadBit(class, mode) \/ AboveDigits(class, mode))
<1> SUFFICES ASSUME NEW class \in Classes, NEW mode \in Int
             PROVE  MayRead(class, mode)
                    <=> mode >= 0 /\ (ReadBit(class, mode) \/ AboveDigits(class, mode))
    BY DEF Mode
<1>1. CASE class = "owner"
    BY <1>1 DEF MayRead, ReadBit, Field, Unit, AboveDigits
<1>2. CASE class = "group" /\ mode >= 0
    BY <1>2 DEF MayRead, ReadBit, Field, Unit, Remainder, AboveDigits
<1>3. CASE class = "other" /\ mode >= 0
    BY <1>3 DEF MayRead, ReadBit, Field, Unit, Remainder, AboveDigits
<1>4. CASE class \in {"group", "other"} /\ mode < 0
  <2>1. \A k \in {8, 64} : Remainder(mode, k) <= 0 /\ Remainder(mode, k) \in Int
      BY <1>4 DEF Remainder
  <2>2. Field(class, mode) <= 0 /\ Field(class, mode) \in Int
      BY <1>4, <2>1 DEF Field
  <2>3. Unit(class) \in {1, 8}
      BY <1>4 DEF Unit
  <2>4. QED
      BY <1>4, <2>2, <2>3 DEF MayRead
<1>5. QED
    BY <1>1, <1>2, <1>3, <1>4 DEF Classes

(* The tests for writing (file_perms < 0200, or from 0400 and below 0600,   *)
(* operations.c 170-182) decide the write bit with the same two exceptions. *)
THEOREM WriteCheck ==
    \A class \in Classes, mode \in Mode :
        MayWrite(class, mode) <=> mode >= 0 /\ (WriteBit(class, mode) \/ AboveDigits(class, mode))
<1> SUFFICES ASSUME NEW class \in Classes, NEW mode \in Int
             PROVE  MayWrite(class, mode)
                    <=> mode >= 0 /\ (WriteBit(class, mode) \/ AboveDigits(class, mode))
    BY DEF Mode
<1>1. CASE class = "owner"
    BY <1>1 DEF MayWrite, WriteBit, Field, Unit, AboveDigits
<1>2. CASE class = "group" /\ mode >= 0
    BY <1>2 DEF MayWrite, WriteBit, Field, Unit, Remainder, AboveDigits
<1>3. CASE class = "other" /\ mode >= 0
    BY <1>3 DEF MayWrite, WriteBit, Field, Unit, Remainder, AboveDigits
<1>4. CASE class \in {"group", "other"} /\ mode < 0
  <2>1. \A k \in {8, 64} : Remainder(mode, k) <= 0 /\ Remainder(mode, k) \in Int
      BY <1>4 DEF Remainder
  <2>2. Field(class, mode) <= 0 /\ Field(class, mode) \in Int
      BY <1>4, <2>1 DEF Field
  <2>3. Unit(class) \in {1, 8}
      BY <1>4 DEF Unit
  <2>4. QED
      BY <1>4, <2>2, <2>3 DEF MayWrite
<1>5. QED
    BY <1>1, <1>2, <1>3, <1>4 DEF Classes
===============================================================================
