----------------------------- MODULE MCFileLeases -----------------------------
\* FileLeases for TLC: three calls for one file, of two runs.
EXTENDS FileLeases

MCPathOf == [w \in Writes |-> "p1"]
MCRunOf  == [w \in Writes |-> IF w = "w2" THEN "r2" ELSE "r1"]
=============================================================================
