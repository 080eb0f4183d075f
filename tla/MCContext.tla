----------------------------- MODULE MCContext ------------------------------
(***************************************************************************)
(* An instance of Context for TLC: the idle task, the shell and one child, *)
(* whose slot is used again; one call of every kind.                       *)
(***************************************************************************)
EXTENDS Context

Call(fn, args) == [fn |-> fn, args |-> args]

MCCalls == {Call("sleep", <<1>>), Call("wait", <<2>>), Call("read", <<0, 40, 1>>),
            Call("write", <<1, 40, 5>>), Call("lstat", <<40, 41>>),
            Call("exit", <<>>), Call("fork", <<>>), Call("exec", <<42>>),
            Call("unknown", <<>>)}
MCResults    == {3}
MCSleepTicks == {1}
MCWaitPids   == {2}

=============================================================================
