-------------------------------- MODULE Zone --------------------------------
(***************************************************************************)
(* Names, their validation and the zone (src/core/match.py).               *)
(*                                                                         *)
(* A name is the sequence of its labels, as split(".") gives it: the name  *)
(* *.foo.test is <<"*", "foo", "test">> and a stray dot is an empty label. *)
(* What makes a label unusable (its length, a hyphen at an end, a          *)
(* character) is a set the label belongs to, and what lower() and the      *)
(* punycode of a label make of it is the function Folded.                  *)
(***************************************************************************)
EXTENDS Integers, Sequences, FiniteSetsExt

CONSTANTS
    Labels,         \* what may stand between two dots, "" and "*" included
    Folded,         \* [Labels -> Labels]: lower case and punycode
    LongLabels,     \* labels of more than MAX_LABEL_LENGTH characters
    HyphenLabels,   \* labels that begin or end with a hyphen
    OddLabels,      \* labels with a character outside _LABEL_ALLOWED
    HstsLabels,     \* HSTS_PRELOADED_TLDS
    MaxLabels,      \* stands for MAX_NAME_LENGTH: more labels are too many
    Addresses

(* What stands between two dots in a row, and after the last.             *)
NoLabel == ""

ASSUME LabelsAssumption ==
    /\ {NoLabel, "*", "local"} \subseteq Labels
    /\ Folded \in [Labels -> Labels]
    /\ \A l \in Labels : Folded[Folded[l]] = Folded[l]
    /\ \A l \in Labels : Folded[l] = NoLabel <=> l = NoLabel
    /\ \A l \in Labels : Folded[l] = "*" <=> l = "*"
    /\ "*" \in OddLabels
    /\ MaxLabels \in Nat

-----------------------------------------------------------------------------
(* Names.                                                                  *)

(* The root dot goes, however many there are.                              *)
WithoutRoot(raw) ==
    SubSeq(raw, 1, Max({0} \union {i \in 1..Len(raw) : raw[i] # NoLabel}))

normalise(raw) ==
    LET kept == WithoutRoot(raw) IN [i \in 1..Len(kept) |-> Folded[kept[i]]]

is_wildcard(name) == Len(name) > 1 /\ name[1] = "*"

apex_of(name) == IF is_wildcard(name) THEN Tail(name) ELSE name

tld_of(name) == name[Len(name)]

(* What validate refuses, all of it: the code reports the first it meets.  *)
NameErrors(name) ==
    LET body == apex_of(name)
        labels == {body[i] : i \in DOMAIN body}
    IN  {e \in {"empty", "wildcard_bare", "wildcard_position", "too_long",
                "empty_label", "label_too_long", "label_hyphen",
                "label_chars", "single_label"} :
            \/ e = "empty"             /\ name = <<>>
            \/ e = "wildcard_bare"     /\ name = <<"*">>
            \/ e = "wildcard_position" /\ "*" \in labels
            \/ e = "too_long"          /\ Len(name) > MaxLabels
            \/ e = "empty_label"       /\ NoLabel \in labels
            \/ e = "label_too_long"    /\ labels \intersect LongLabels # {}
            \/ e = "label_hyphen"      /\ labels \intersect HyphenLabels # {}
            \/ e = "label_chars"       /\ labels \intersect OddLabels # {}
            \/ e = "single_label"      /\ Len(body) = 1}

NameWarnings(name) ==
    {w \in {"mdns", "hsts_tld", "wildcard_apex"} :
        \/ w = "mdns"          /\ tld_of(name) = "local"
        \/ w = "hsts_tld"      /\ tld_of(name) \in HstsLabels \ {"local"}
        \/ w = "wildcard_apex" /\ is_wildcard(name)}

\* Mutant: a name of one label is let through.
ValidateShort(raw) ==
    LET name == normalise(raw)
    IN  [name |-> name, ok |-> NameErrors(name) \subseteq {"single_label"},
         warnings |-> IF name = <<>> THEN {} ELSE NameWarnings(name)]

validate(raw) ==
    LET name == normalise(raw)
        ok == NameErrors(name) = {}
    IN  [name |-> name, ok |-> ok,
         warnings |-> IF ok THEN NameWarnings(name) ELSE {}]

-----------------------------------------------------------------------------
(* The zone: a compiled view of the enabled records.                       *)

Domain(name, address, enabled) ==
    [name |-> name, address |-> address, enabled |-> enabled]

(* The enabled records the table of names, or of wildcards, is made from.  *)
Tabled(domains, wildcard) ==
    {i \in DOMAIN domains :
        /\ domains[i].enabled
        /\ normalise(domains[i].name) # <<>>
        /\ is_wildcard(normalise(domains[i].name)) = wildcard}

KeyOf(domain) == apex_of(normalise(domain.name))

(* dict[name] = address, record after record: the last one stays.          *)
Table(domains, wildcard) ==
    [key \in {KeyOf(domains[i]) : i \in Tabled(domains, wildcard)} |->
        domains[Max({i \in Tabled(domains, wildcard) : KeyOf(domains[i]) = key})].address]

from_domains(domains) ==
    [exact |-> Table(domains, FALSE), wildcards |-> Table(domains, TRUE)]

(* The ancestors of a name, by the index they begin at: longest first.     *)
parent_suffixes(name) == 2..Len(name)
Suffix(name, i) == SubSeq(name, i, Len(name))

NoMatch == [wildcard |-> FALSE, apex |-> <<>>, address |-> "none"]

\* Mutant: the shortest suffix wins, as if the ancestors came in the other order.
MatchShortest(table, qname) ==
    LET name == normalise(qname)
        hits == {i \in parent_suffixes(name) : Suffix(name, i) \in DOMAIN table.wildcards}
    IN  IF name \in DOMAIN table.exact
        THEN [wildcard |-> FALSE, apex |-> name, address |-> table.exact[name]]
        ELSE IF hits = {} THEN NoMatch
        ELSE LET s == Suffix(name, Max(hits))
             IN  [wildcard |-> TRUE, apex |-> s, address |-> table.wildcards[s]]

(* Exact name, else the wildcard with the longest suffix, else nothing.    *)
match(table, qname) ==
    LET name == normalise(qname)
        hits == {i \in parent_suffixes(name) : Suffix(name, i) \in DOMAIN table.wildcards}
    IN  IF name \in DOMAIN table.exact
        THEN [wildcard |-> FALSE, apex |-> name, address |-> table.exact[name]]
        ELSE IF hits = {} THEN NoMatch
        ELSE LET s == Suffix(name, Min(hits))
             IN  [wildcard |-> TRUE, apex |-> s, address |-> table.wildcards[s]]

IsOurs(table, qname) == match(table, qname) # NoMatch

(* What is registered with the system: a name, or a subtree by its apex.   *)
namespaces(table) ==
    [names |-> DOMAIN table.exact, subtrees |-> DOMAIN table.wildcards]

-----------------------------------------------------------------------------
(* What the zone promises, said of the records and not of the tables.      *)

Covers(d, name) ==
    LET own == normalise(d.name)
    IN  IF is_wildcard(own)
        THEN \E i \in 2..Len(name) : Suffix(name, i) = Tail(own)
        ELSE own = name

(* Between two records that cover a name: a name before a subtree, a       *)
(* deeper subtree before a shallower one, the later record of the same.    *)
Outranks(domains, i, j) ==
    LET a == normalise(domains[i].name)
        b == normalise(domains[j].name)
    IN  \/ ~ is_wildcard(a) /\ is_wildcard(b)
        \/ is_wildcard(a) /\ is_wildcard(b) /\ Len(a) > Len(b)
        \/ a = b /\ i > j

(* The zone gives a name the address of the one enabled record that        *)
(* outranks every other that covers it, and matches nothing when none      *)
(* covers it: the precedence the module's comment promises, whatever the   *)
(* order of the records and however many share a name.                     *)
AnswersByRank(domains, qname) ==
    LET name == normalise(qname)
        covering == {i \in DOMAIN domains :
                        domains[i].enabled /\ Covers(domains[i], name)}
        found == match(from_domains(domains), qname)
    IN  IF covering = {} THEN found = NoMatch
        ELSE \E i \in covering :
                /\ found.address = domains[i].address
                /\ \A j \in covering \ {i} : Outranks(domains, i, j)

(* A name that validate lets through can be served: as the only record it  *)
(* claims neither the root nor a whole top-level domain, it is answered    *)
(* itself (a wildcard: for what lies below it), and when its bare apex is  *)
(* not answered the user has been told.                                    *)
AcceptedIsServable(raw, address) ==
    LET v == validate(raw)
        table == from_domains(<<Domain(raw, address, TRUE)>>)
        claimed == namespaces(table).names \union namespaces(table).subtrees
    IN  v.ok =>
        /\ claimed = {apex_of(v.name)} /\ \A n \in claimed : Len(n) > 1
        /\ match(table, v.name).address = address
        /\ IsOurs(table, apex_of(v.name)) \/ "wildcard_apex" \in v.warnings
=============================================================================
