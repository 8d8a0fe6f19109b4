-------------------------- MODULE MCStripeMetering --------------------------
EXTENDS StripeMetering, TLC

CONSTANTS r1, r2, r3, t1, w1, w2

\* The second settlement crosses the allowance of pro.
MCCost == 1 :> 1 @@ 2 :> 3 @@ 3 :> 1 @@ 4 :> 2
MCAllowance == "starter" :> 1 @@ "pro" :> 2

\* One settlement, above the allowance of either plan.
MCOneCost == 1 :> 3
============================================================================
