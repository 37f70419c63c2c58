--------------------------- MODULE MCTokenRefresh ---------------------------
(* Two threads in one client, one in another, and a manual get_token.py. *)
EXTENDS TokenRefresh, TLC

CONSTANTS c1, c2, t1, t2, t3, m

MCClientOf == t1 :> c1 @@ t2 :> c1 @@ t3 :> c2
=============================================================================
