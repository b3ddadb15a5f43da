--------------------------- MODULE MCServerResponse ---------------------------
(***************************************************************************)
(* Instances of ServerResponse for TLC: reader r1 has two tasks, r2 one.   *)
(***************************************************************************)
EXTENDS ServerResponse, TLC

CONSTANTS r1, r2, t1, t2, t3

TwoReaders == t1 :> r1 @@ t2 :> r1 @@ t3 :> r2
=============================================================================
