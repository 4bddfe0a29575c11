----------------------------- MODULE MCEditing -----------------------------
(* A list of two records, a wildcard and its apex among the names: see     *)
(* Editing.cfg.                                                            *)
EXTENDS Editing

MCLabels == {"", "*", "foo", "FOO", "test", "local"}
MCFolded == [l \in MCLabels |-> IF l = "FOO" THEN "foo" ELSE l]

Foo == <<"foo", "test">>
Shout == <<"FOO", "test", "">>
AllFoo == <<"*", "foo", "test">>
Short == <<"foo">>

MCTyped == {Foo, Shout, AllFoo, Short}

Sees(name, address) == [name |-> name, address |-> address]

MCListings == {<<>>, <<Sees(Foo, "other")>>,
               <<Sees(Short, "other"), Sees(Shout, "home"), Sees(Foo, "other")>>}
=============================================================================
