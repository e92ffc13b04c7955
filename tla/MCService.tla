------------------------------ MODULE MCService ------------------------------
(***************************************************************************)
(* Constants of Service for model checking.                                *)
(***************************************************************************)
EXTENDS Service, TLC

CONSTANTS p1, p2

TwoPids == p1 :> 1 @@ p2 :> 2

\* One call more than there are slots: a process goes on to its next call when
\* a signal interrupts a rename.
FourCalls == p1 :> 3 @@ p2 :> 1
SomeOperations == p1 :> {"rename", "write"} @@ p2 :> {"read"}
=============================================================================
