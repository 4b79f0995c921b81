---------------------------- MODULE MCQuotaLogger ---------------------------
EXTENDS QuotaLogger, TLC

CONSTANTS a, b

\* A password with a quota beside one that is counted without limit, so that
\* a reset of one password differs from a reset of all.
TwoIds == {a, b}
TwoQuotas == (a :> 1) @@ (b :> 0)
=============================================================================
