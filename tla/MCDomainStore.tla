--------------------------- MODULE MCDomainStore ---------------------------
(***************************************************************************)
(* An instance of DomainStore for TLC: a list is the set of its names, and *)
(* a change adds one, as add does, or takes one away, as delete does.      *)
(***************************************************************************)
EXTENDS DomainStore

CONSTANTS a, b

Names == {a, b}
MCContents == SUBSET Names
MCEmpty == {}
MCChanges == {<<"add", a>>, <<"add", b>>, <<"delete", a>>}

MCEffect(c, d) == IF c[1] = "add" THEN d \union {c[2]} ELSE d \ {c[2]}

\* add refuses a name that is taken; delete of a name that is not there
\* returns False and changes nothing.
MCRefuses(c, d) == c[1] = "add" /\ c[2] \in d
=============================================================================
