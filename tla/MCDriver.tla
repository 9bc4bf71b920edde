------------------------------ MODULE MCDriver ------------------------------
(***************************************************************************)
(* No input, or two: the second one shares the name of its outputs with    *)
(* two of the first ones.  For the name edge the buffer of saveOutput is   *)
(* one byte short, and a.edge is too long for it.                          *)
(***************************************************************************)
EXTENDS Driver

Source(dir, name) == [dir |-> dir, name |-> name]

Second == {Source("", <<"a", "as">>), Source("src", <<"a", "asm">>)}

First == Second \cup {Source("", <<"edge">>), Source("", <<"a", "edge", "as">>)}

NoneOrTwo == {<<>>} \cup {<<p, q>> : p \in First, q \in Second}

Lengths == [a |-> 1, as |-> 2, asm |-> 3, edge |-> 4]

Sizes == {18}
=============================================================================
