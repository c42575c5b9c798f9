----------------------------- MODULE MCTSQueue -----------------------------
EXTENDS TSQueue, TLC
CONSTANTS t1, t2, t3

MCThread == {t1, t2, t3}
MCBudgets == {t1 :> 2 @@ t2 :> 3 @@ t3 :> 0, t1 :> 1 @@ t2 :> 1 @@ t3 :> 2}
=============================================================================
