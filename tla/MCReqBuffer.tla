---------------------------- MODULE MCReqBuffer ----------------------------
(* Instances of ReqBuffer small enough for TLC; the cfgs give the constants. *)
EXTENDS ReqBuffer, TLC

\* Requests are interchangeable, except in liveness checks.
Symmetry == Permutations(Reqs)
=============================================================================
