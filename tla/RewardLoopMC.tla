----------------------------- MODULE RewardLoopMC -----------------------------
EXTENDS RewardLoop

\* One request a tick from a bucket of two; and requests of three tokens from
\* a bucket of two.
TwoBuckets == <<[max |-> 2, need |-> 1], [max |-> 2, need |-> 3]>>

\* What math_dapo returns; gsm8k, for one, returns a float.
MathDapo == [math_dapo |-> {"score", "acc", "pred"}]
=============================================================================
