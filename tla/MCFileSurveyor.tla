---- MODULE MCFileSurveyor ----
EXTENDS FileSurveyor, TLC
MCTokens == [open |-> <<"open">>, seek |-> <<"lseek">>, read |-> <<"read">>, write |-> <<"write">>, close |-> <<"close">>]
MCSymmetry == Permutations(Threads)
====
