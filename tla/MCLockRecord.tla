---------------------------- MODULE MCLockRecord ----------------------------
(* Two processes with the same lock id: t1 and t2 in one, t3 in the other. *)
EXTENDS LockRecord, TLC

CONSTANTS p1, p2, t1, t2, t3

MCProcessOf  == t1 :> p1 @@ t2 :> p1 @@ t3 :> p2
=============================================================================
