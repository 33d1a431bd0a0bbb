----------------------------- MODULE MCLockMode -----------------------------
(* LockMode for TLC: two threads share a proxy, a third has its own, and   *)
(* the extension thread holds one more.                                    *)
EXTENDS LockMode, TLC

CONSTANTS t1, t2, t3, p1, p2

MCProxyOf == (t1 :> p1) @@ (t2 :> p1) @@ (t3 :> p2)
=============================================================================
