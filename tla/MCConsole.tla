----------------------------- MODULE MCConsole ------------------------------
(***************************************************************************)
(* Instances of Console for TLC.  The keys make "%s"; moduli of 2 and 20   *)
(* in place of 2^32 and 2^64 leave few digits for the screen.              *)
(***************************************************************************)
EXTENDS Console

MCChars  == {"s", "%"}
MCPrompt == <<"s">>
MCFiles  == {<<"s">>, <<"s", "s">>}
MCBuiltIns == {<<"%">>}

MCMessages == {<<String(<<k>>)>> : k \in {"s", NEWLINE, BACKSPACE}}
                \cup {<<Number("d", "long", n)>> : n \in {-10, 0}}
                \cup {<<Number("d", "int", -1)>>,
                      <<Number("x", "long", 17), String(<<"%">>)>>}

MCLeftovers == {[word |-> 1, text |-> <<"s">>], [word |-> 0, text |-> <<FAULT>>]}

=============================================================================
