------------------------------ MODULE MCCmdArgs ------------------------------
(* Commands for CmdArgs: every kind of argument, alone and next to others. *)
EXTENDS CmdArgs

Raw(k) == [kind |-> "raw", size |-> k, elem |-> 1]
Str(n) == [kind |-> "str", size |-> n, elem |-> 1]
Bin(n) == [kind |-> "bin", size |-> n, elem |-> 1]
Arr(e, n) == [kind |-> "arr", size |-> 1 + e * n, elem |-> e]

MCSignatures ==
    {<<Raw(1), Raw(2)>>, <<Bin(3), Raw(1)>>, <<Raw(1), Str(3)>>,
     <<Str(3), Raw(3)>>, <<Arr(2, 1), Str(2)>>, <<Raw(1), Arr(2, 2)>>}

MCStrings == {<<Raw(1), Str(3)>>, <<Str(3), Raw(1)>>}

=============================================================================
