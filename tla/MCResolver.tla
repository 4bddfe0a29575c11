----------------------------- MODULE MCResolver -----------------------------
(* A small resolver: two questions in flight, two servers, and the lists   *)
(* of records that claim, change and release the names they ask for.       *)
EXTENDS Resolver, SequencesExt

CONSTANTS q1, q2, s1, s2, us

MCLabels == {"", "*", "a", "foo", "FOO", "test", "local", "x-", "o_o!", "lll"}
MCFolded == [l \in MCLabels |-> IF l = "FOO" THEN "foo" ELSE l]
MCOdd == {"*", "o_o!"}

Foo == <<"foo", "test">>
AFoo == <<"a", "foo", "test">>
Shout == <<"FOO", "test", "">>
AllFoo == <<"*", "foo", "test">>

Ask(form, name, type) == [form |-> form, name |-> name, type |-> type, do |-> FALSE]

MCQuestions == {Ask("good", Shout, "A"), Ask("good", AFoo, "HTTPS"),
                Ask("opcode", Foo, "A")}

MCDomainLists == {<<>>, <<Domain(Foo, "v4", TRUE)>>, <<Domain(Foo, "v6", TRUE)>>,
                  <<Domain(AllFoo, "v4", TRUE), Domain(Foo, "v4", FALSE)>>}

MCCaptured == <<us, s1, s1, s2>>
MCFallback == <<s2>>

(* Over more names and lists than the runs go through.                     *)
MCProbedNames == {Foo, AFoo, Shout, AllFoo, <<"*", "test">>, <<"*", "a", "foo", "test">>,
                  <<"test">>, <<>>}
MCProbedRecords == {Domain(n, x, e) : n \in {m \in MCProbedNames : Len(m) > 1},
                                      x \in {"v4", "v6"}, e \in BOOLEAN}
MCProbedLists == SeqOf(MCProbedRecords, 2) \union MCDomainLists
MCProbedInputs == SeqOf(MCLabels, 3)
=============================================================================
