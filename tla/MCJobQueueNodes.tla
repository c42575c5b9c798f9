-------------------------- MODULE MCJobQueueNodes --------------------------
EXTENDS JobQueueNodes, TLC
CONSTANTS t1, t2

MCThread == {t1, t2}
MCBudgets == {t1 :> 2 @@ t2 :> 3}
=============================================================================
