---------------------------- MODULE MCNumberText ----------------------------
(* Model checking of NumberText: ints of 13 bits, floats of two decimals.   *)
EXTENDS NumberText

MCNumbers == {n \in -12000 .. 12000 : n % 7 = 0 \/ Abs(n) \in 0 .. 120 \cup 980 .. 1020
                  \/ Abs(n) \in 4080 .. 4110 \cup 8180 .. 8210 \cup 9990 .. 10010}
MCTags == 0 .. 4095
MCSums == 0 .. 255
MCFloats == -1300 .. 4100
=============================================================================
