------------------------------- MODULE MCDemo -------------------------------
EXTENDS DemoPool, TLC
\* One task at the least percentage, one at half, one that does not parse.
CONSTANTS t1, t2, t3
Tasks3 == {t1, t2, t3}
Percent3 == (t1 :> 1) @@ (t2 :> 50) @@ (t3 :> 100)
=============================================================================
