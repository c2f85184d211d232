----------------------------- MODULE MCNetwork -----------------------------
EXTENDS Network, TLC

CONSTANTS c1, a1, k1, t1, t2

MCNumbers == "0" :> 0 @@ "80" :> 80 @@ "70000" :> 70000
=============================================================================
