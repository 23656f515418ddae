--------------------------- MODULE MCInitialStack ---------------------------
(***************************************************************************)
(* Command lines for InitialStack: the loader called with and without a    *)
(* directory, program names shorter and longer than its own, and further   *)
(* arguments; every character occurs once.                                 *)
(***************************************************************************)
EXTENDS InitialStack

Chars(from, n) == [k \in 1 .. n |-> from + k]

Loaders == {<<11, Slash>> \o Chars(20, n) : n \in 0 .. 3}
             \cup {<<Slash, 12, Slash>> \o Chars(20, 1), Chars(20, 2)}

Lines == {<<l>> : l \in Loaders}
           \cup {<<l, Chars(30, n)>> \o more : l \in Loaders, n \in 0 .. 5,
                    more \in {<< >>, <<Chars(40, 1)>>, <<Chars(40, 2), Chars(50, 1)>>,
                              <<Chars(40, 1), << >>, Chars(60, 1)>>}}

Envs == {<< >>, <<Chars(70, 1)>>, <<Chars(70, 2), Chars(80, 1)>>}

Aux(type) == [type |-> type, val |-> 90 + type]

Vectors == {<< >>, <<Aux(6), Aux(AT_EXECFN)>>,
            <<Aux(33), Aux(AT_PHDR), Aux(AT_PHENT), Aux(AT_PHNUM), Aux(AT_BASE), Aux(AT_ENTRY), Aux(11),
              Aux(AT_RANDOM), Aux(AT_EXECFN), Aux(AT_PLATFORM)>>}
=============================================================================
