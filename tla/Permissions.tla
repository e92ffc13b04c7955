----------------------------- MODULE Permissions -----------------------------
(***************************************************************************)
(* The permission checks of the service_* handlers.  A mode is the long a  *)
(* caller asked for, never masked; the handlers pick the octal digit of    *)
(* the caller's class by comparing and taking remainders.                  *)
(***************************************************************************)
EXTENDS Integers

Mode == Int

\* How the caller stands to a file: its owner, else of its group, else other.
Class(user, file) ==
    IF user.uid = file.owner THEN "owner"
    ELSE IF user.gid = file.owner_group THEN "group" ELSE "other"

\* The remainder of C, which has the sign of m.
Remainder(m, k) == IF m < 0 THEN - ((- m) % k) ELSE m % k

\* The part of the mode the comparisons look at: an owner's is not cut off.
Field(class, mode) ==
    CASE class = "owner" -> mode
      [] class = "group" -> Remainder(mode, 64)       \* file_perms % 0100
      [] class = "other" -> Remainder(mode, 8)        \* file_perms % 010

\* One octal unit of the class's digit.
Unit(class) == CASE class = "owner" -> 64 [] class = "group" -> 8 [] class = "other" -> 1

\* Variant: the write check forgets modes that have the read bit set.
MayWriteNoRead(class, mode) == ~ (Field(class, mode) < 2 * Unit(class))

\* Not (perms < 0400), and its group and other forms.
MayRead(class, mode) == ~ (Field(class, mode) < 4 * Unit(class))

\* Not (perms < 0200 || (perms >= 0400 && perms < 0600)), and likewise.
MayWrite(class, mode) ==
    LET f == Field(class, mode)
        u == Unit(class)
    IN  ~ (f < 2 * u \/ (f >= 4 * u /\ f < 6 * u))

\* What the checks are for: the read and the write bit of the class's digit.
ReadBit(class, mode) == (mode \div (4 * Unit(class))) % 2 = 1
WriteBit(class, mode) == (mode \div (2 * Unit(class))) % 2 = 1

\* Where the checks depart from the bits: nobody may use a negative mode, and
\* a mode above 0777 lets the owner do everything.
AboveDigits(class, mode) == class = "owner" /\ mode > 511
=============================================================================
