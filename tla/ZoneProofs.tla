----------------------------- MODULE ZoneProofs -----------------------------
(***************************************************************************)
(* Proofs about Zone: what the tables say of every list of records and     *)
(* every name; and, before that, about the lists of Sublists.              *)
(***************************************************************************)
EXTENDS Zone, Sublists, WellFoundedInduction, TLAPS

-----------------------------------------------------------------------------
(* Naturals and lists. *)

Less == {ss \in Nat \X Nat : ss[1] < ss[2]}

\* A set of naturals that is bounded has a greatest element, and Max is it.
LEMMA MaxIsGreatest ==
    ASSUME NEW n \in Nat, NEW S \in SUBSET (0..n), S # {}
    PROVE  Max(S) \in S /\ \A y \in S : Max(S) >= y
<1>. DEFINE T == {k \in 0..n : n - k \in S}
<1>1. IsWellFoundedOn(Less, Nat)
  BY NatLessThanWellFounded DEF OpToRel, Less
<1>2. T \subseteq Nat /\ T # {}
  <2>1. PICK s \in S : TRUE
    OBVIOUS
  <2>2. n - s \in 0..n /\ n - (n - s) = s
    OBVIOUS
  <2>3. n - s \in T
    BY <2>2
  <2>4. QED
    BY <2>3
<1>3. \E x \in T : \A y \in T : <<y, x>> \notin Less
  <2>. HIDE DEF T
  <2>1. QED
    BY <1>1, <1>2, WFMin
<1>4. PICK k \in T : \A y \in T : <<y, k>> \notin Less
  BY <1>3
<1>5. ASSUME NEW j \in S
      PROVE  n - k >= j
  <2>1. j \in 0..n /\ n - j \in 0..n /\ n - (n - j) = j
    OBVIOUS
  <2>2. n - j \in T
    BY <2>1
  <2>3. <<n - j, k>> \in Less <=> n - j < k
    BY <2>1 DEF Less
  <2>4. ~ (n - j < k)
    <3>. HIDE DEF T
    <3>1. QED
      BY <1>4, <2>2, <2>3
  <2>5. QED
    BY <2>1, <2>4
<1>6. n - k \in S
  OBVIOUS
<1>7. QED
  BY <1>5, <1>6 DEF Max

\* A set of naturals has a least element, and Min is it.
LEMMA MinIsLeast ==
    ASSUME NEW S \in SUBSET Nat, S # {}
    PROVE  Min(S) \in S /\ \A y \in S : Min(S) <= y
<1>1. IsWellFoundedOn(Less, Nat)
  BY NatLessThanWellFounded DEF OpToRel, Less
<1>2. PICK k \in S : \A y \in S : <<y, k>> \notin Less
  BY <1>1, WFMin
<1>3. ASSUME NEW y \in S PROVE k <= y
  <2>1. y \in Nat /\ k \in Nat
    OBVIOUS
  <2>2. <<y, k>> \in Less <=> y < k
    BY <2>1 DEF Less
  <2>3. <<y, k>> \notin Less
    BY <1>2
  <2>4. QED
    BY <2>1, <2>2, <2>3
<1>4. QED
  BY <1>2, <1>3 DEF Min

\* Induction over the naturals, for a set of them.
LEMMA NatSetInduction ==
    ASSUME NEW S, 0 \in S, \A n \in Nat : n \in S => n + 1 \in S
    PROVE  Nat \subseteq S
<1>. SUFFICES ASSUME NEW m \in Nat, m \notin S PROVE FALSE
  OBVIOUS
<1>. DEFINE T == {n \in Nat : n \notin S}
<1>1. IsWellFoundedOn(Less, Nat)
  BY NatLessThanWellFounded DEF OpToRel, Less
<1>2. T \subseteq Nat /\ T # {}
  OBVIOUS
<1>3. PICK x \in T : \A y \in T : <<y, x>> \notin Less
  <2>. HIDE DEF T
  <2>1. QED
    BY <1>1, <1>2, WFMin
<1>4. x # 0 /\ x \in Nat /\ x - 1 \in Nat /\ <<x - 1, x>> \in Less
  BY DEF Less
<1>5. x - 1 \in S
  BY <1>3, <1>4
<1>6. QED
  BY <1>4, <1>5

\* One step of the loop, and its result after n steps as a function of n.
OneRound(s, places, f, n) ==
    IF n = 0 THEN <<>>
    ELSE IF n \in places THEN Append(f[n - 1], s[n]) ELSE f[n - 1]

IsLoop(s, places, m, f) == f = [n \in 0..m |-> OneRound(s, places, f, n)]

\* The recursive function that Sublist is defined by exists.
LEMMA LoopExists ==
    ASSUME NEW s, NEW places, NEW l \in Nat
    PROVE  \E f : IsLoop(s, places, l, f)
<1>. DEFINE S == {m \in Nat : \E f : IsLoop(s, places, m, f)}
<1>1. 0 \in S
  <2>. DEFINE f == [n \in 0..0 |-> <<>>]
  <2>1. f = [n \in 0..0 |-> OneRound(s, places, f, n)]
    BY DEF OneRound
  <2>. HIDE DEF f
  <2>2. QED
    BY <2>1 DEF IsLoop
<1>2. ASSUME NEW m \in Nat, m \in S PROVE m + 1 \in S
  <2>1. PICK f : IsLoop(s, places, m, f)
    BY <1>2
  <2>. DEFINE g == [n \in 0..(m + 1) |-> IF n <= m THEN f[n] ELSE OneRound(s, places, f, n)]
  <2>2. ASSUME NEW n \in 0..(m + 1) PROVE g[n] = OneRound(s, places, g, n)
    <3>1. n # 0 => g[n - 1] = f[n - 1]
      OBVIOUS
    <3>2. OneRound(s, places, g, n) = OneRound(s, places, f, n)
      <4>. HIDE DEF g
      <4>1. QED
        BY <3>1 DEF OneRound
    <3>3. g[n] = OneRound(s, places, f, n)
      <4>1. CASE n <= m
        <5>1. f[n] = OneRound(s, places, f, n)
          BY <2>1, <4>1 DEF IsLoop
        <5>2. QED
          BY <4>1, <5>1
      <4>2. CASE ~ (n <= m)
        BY <4>2
      <4>3. QED
        BY <4>1, <4>2
    <3>4. QED
      BY <3>2, <3>3
  <2>3. g = [n \in 0..(m + 1) |-> g[n]]
    OBVIOUS
  <2>. HIDE DEF g
  <2>4. IsLoop(s, places, m + 1, g)
    BY <2>2, <2>3 DEF IsLoop
  <2>5. QED
    BY <2>4
<1>. HIDE DEF S
<1>3. l \in S
  BY <1>1, <1>2, NatSetInduction
<1>4. QED
  BY <1>3 DEF S

LEMMA SublistIsLoop ==
    ASSUME NEW s, NEW places, Len(s) \in Nat
    PROVE  \E f : IsLoop(s, places, Len(s), f) /\ Sublist(s, places) = f[Len(s)]
<1>. DEFINE f == CHOOSE f : IsLoop(s, places, Len(s), f)
<1>1. IsLoop(s, places, Len(s), f)
  BY LoopExists
<1>2. Sublist(s, places) = f[Len(s)]
  BY DEF Sublist, IsLoop, OneRound
<1>3. QED
  BY <1>1, <1>2

\* The places of a sublist in its list.
Places(h, s, places, n, t) ==
    /\ h \in [1..Len(t) -> places \intersect (1..n)]
    /\ \A k \in 1..Len(t) : t[k] = s[h[k]]
    /\ \A j, k \in 1..Len(t) : j < k => h[j] < h[k]
    /\ \A i \in places \intersect (1..n) : \E k \in 1..Len(t) : h[k] = i

\* A sublist has the items of its list at the given places, each once and in order.
LEMMA SublistIs ==
    ASSUME NEW T, NEW s \in Seq(T), NEW places
    PROVE  LET t == Sublist(s, places)
           IN  /\ t \in Seq(T) /\ Len(t) <= Len(s)
               /\ \E h : Places(h, s, places, Len(s), t)
<1>. DEFINE l == Len(s)
<1>1. PICK f : IsLoop(s, places, l, f) /\ Sublist(s, places) = f[l]
  BY SublistIsLoop
<1>. DEFINE Good(n) == /\ f[n] \in Seq(T) /\ Len(f[n]) <= n
                       /\ \E h : Places(h, s, places, n, f[n])
            S == {n \in Nat : n <= l => Good(n)}
<1>2. 0 \in S
  <2>1. f[0] = <<>>
    BY <1>1 DEF IsLoop, OneRound
  <2>2. Places(<<>>, s, places, 0, <<>>)
    BY DEF Places
  <2>3. <<>> \in Seq(T) /\ Len(<<>>) <= 0
    OBVIOUS
  <2>4. Places(<<>>, s, places, 0, f[0])
    BY <2>1, <2>2
  <2>5. f[0] \in Seq(T) /\ Len(f[0]) <= 0
    BY <2>1, <2>3
  <2>6. Good(0)
    BY <2>4, <2>5
  <2>7. QED
    BY <2>6
<1>3. ASSUME NEW n \in Nat, n \in S PROVE n + 1 \in S
  <2>. SUFFICES ASSUME n + 1 <= l PROVE Good(n + 1)
    OBVIOUS
  <2>1. Good(n)
    BY <1>3
  <2>2. f[n + 1] = IF n + 1 \in places THEN Append(f[n], s[n + 1]) ELSE f[n]
    <3>1. n + 1 \in 0..l /\ (n + 1) - 1 = n /\ n + 1 # 0
      OBVIOUS
    <3>2. f[n + 1] = OneRound(s, places, f, n + 1)
      BY <1>1, <3>1 DEF IsLoop
    <3>3. QED
      BY <3>1, <3>2 DEF OneRound
  <2>3. PICK h : Places(h, s, places, n, f[n])
    BY <2>1
  <2>. DEFINE t == f[n]
              m == Len(t)
  <2>4. t \in Seq(T) /\ m \in Nat /\ m <= n /\ s[n + 1] \in T
    BY <2>1
  <2>. HIDE DEF t
  <2>5. CASE n + 1 \notin places
    <3>1. places \intersect (1..(n + 1)) = places \intersect (1..n)
      BY <2>5
    <3>2. Places(h, s, places, n + 1, t)
      BY <2>3, <3>1 DEF Places, t
    <3>3. f[n + 1] = t
      BY <2>2, <2>5 DEF t
    <3>4. QED
      BY <2>4, <3>2, <3>3
  <2>6. CASE n + 1 \in places
    <3>. DEFINE u == Append(t, s[n + 1])
                g == [k \in 1..(m + 1) |-> IF k = m + 1 THEN n + 1 ELSE h[k]]
    <3>1. /\ u \in Seq(T) /\ Len(u) = m + 1 /\ u[m + 1] = s[n + 1]
          /\ \A k \in 1..m : u[k] = t[k]
      BY <2>4
    <3>. HIDE DEF u
    <3>2a. \A k \in 1..m : h[k] \in places /\ h[k] \in 1..n /\ t[k] = s[h[k]]
      BY <2>3, <2>4 DEF Places, t
    <3>2b. /\ \A k \in 1..m : g[k] = h[k]
           /\ g[m + 1] = n + 1
           /\ g = [k \in 1..(m + 1) |-> g[k]]
      BY <2>4
    <3>2c. \A k \in 1..m : k \in 1..(m + 1)
      BY <2>4
    <3>. HIDE DEF g
    <3>2. /\ \A k \in 1..m : g[k] = h[k] /\ h[k] \in places /\ h[k] \in 1..n
                             /\ t[k] = s[h[k]]
          /\ g[m + 1] = n + 1
          /\ g = [k \in 1..(m + 1) |-> g[k]]
      BY <3>2a, <3>2b
    <3>3. \A k \in 1..(m + 1) : k \in 1..m \/ k = m + 1
      BY <2>4
    <3>4. g \in [1..(m + 1) -> places \intersect (1..(n + 1))]
      <4>1. ASSUME NEW k \in 1..(m + 1) PROVE g[k] \in places \intersect (1..(n + 1))
        <5>1. CASE k \in 1..m
          <6>1. g[k] = h[k] /\ h[k] \in places /\ h[k] \in 1..n
            BY <3>2, <5>1
          <6>2. QED
            BY <6>1
        <5>2. CASE k = m + 1
          <6>1. g[k] = n + 1 /\ n + 1 \in 1..(n + 1)
            BY <3>2, <5>2
          <6>2. QED
            BY <2>6, <6>1
        <5>3. QED
          BY <3>3, <5>1, <5>2
      <4>2. QED
        BY <3>2b, <4>1
    <3>5. \A k \in 1..(m + 1) : u[k] = s[g[k]]
      BY <3>1, <3>2, <3>3
    <3>6. ASSUME NEW j \in 1..(m + 1), NEW k \in 1..(m + 1), j < k PROVE g[j] < g[k]
      <4>1. j \in 1..m
        BY <2>4, <3>6
      <4>2. CASE k = m + 1
        <5>1. g[j] \in 1..n /\ g[k] = n + 1
          BY <3>2, <4>1, <4>2
        <5>2. QED
          BY <5>1
      <4>3. CASE k \in 1..m
        BY <2>3, <3>2, <3>6, <4>1, <4>3 DEF Places, t
      <4>4. QED
        BY <3>3, <4>2, <4>3
    <3>7. ASSUME NEW i \in places \intersect (1..(n + 1))
          PROVE  \E k \in 1..(m + 1) : g[k] = i
      <4>1. CASE i = n + 1
        BY <2>4, <3>2, <4>1
      <4>2. CASE i \in 1..n
        <5>1. PICK k \in 1..m : h[k] = i
          BY <2>3, <4>2 DEF Places, t
        <5>2. QED
          BY <3>2, <3>2c, <5>1
      <4>3. QED
        BY <4>1, <4>2
    <3>8. Places(g, s, places, n + 1, u)
      BY <3>1, <3>4, <3>5, <3>6, <3>7 DEF Places
    <3>9. f[n + 1] = u
      BY <2>2, <2>6 DEF t, u
    <3>10. QED
      BY <2>4, <3>1, <3>8, <3>9
  <2>7. QED
    BY <2>5, <2>6
<1>. HIDE DEF S
<1>4. l \in S
  BY <1>2, <1>3, NatSetInduction
<1>5. Good(l)
  BY <1>4 DEF S
<1>6. QED
  BY <1>1, <1>5

LEMMA SublistIn ==
    ASSUME NEW T, NEW s \in Seq(T), NEW places
    PROVE  Sublist(s, places) \in Seq(T) /\ Len(Sublist(s, places)) <= Len(s)
BY SublistIs

LEMMA SublistFrom ==
    ASSUME NEW T, NEW s \in Seq(T), NEW places, NEW k \in 1..Len(Sublist(s, places))
    PROVE  \E i \in places : i \in 1..Len(s) /\ Sublist(s, places)[k] = s[i]
<1>1. PICK h : Places(h, s, places, Len(s), Sublist(s, places))
  BY SublistIs
<1>2. QED
  BY <1>1 DEF Places

LEMMA SublistHas ==
    ASSUME NEW T, NEW s \in Seq(T), NEW places, NEW i \in places, i \in 1..Len(s)
    PROVE  \E k \in 1..Len(Sublist(s, places)) : Sublist(s, places)[k] = s[i]
<1>1. PICK h : Places(h, s, places, Len(s), Sublist(s, places))
  BY SublistIs
<1>2. QED
  BY <1>1 DEF Places

LEMMA SublistInOrder ==
    ASSUME NEW T, NEW s \in Seq(T), NEW places,
           NEW j \in 1..Len(Sublist(s, places)), NEW k \in 1..Len(Sublist(s, places)), j < k
    PROVE  \E g, h \in places :
              /\ g \in 1..Len(s) /\ h \in 1..Len(s) /\ g < h
              /\ Sublist(s, places)[j] = s[g] /\ Sublist(s, places)[k] = s[h]
<1>1. PICK h : Places(h, s, places, Len(s), Sublist(s, places))
  BY SublistIs
<1>2. /\ h[j] \in places \intersect (1..Len(s)) /\ h[k] \in places \intersect (1..Len(s))
      /\ h[j] < h[k] /\ Sublist(s, places)[j] = s[h[j]] /\ Sublist(s, places)[k] = s[h[k]]
  BY <1>1 DEF Places
<1>3. QED
  BY <1>2

LEMMA BothParts ==
    ASSUME NEW T, NEW w \in Seq(T), NEW c \in Seq(T)
    PROVE  /\ w \o c \in Seq(T) /\ Len(w \o c) = Len(w) + Len(c)
           /\ \A k \in 1..Len(w) : k \in 1..Len(w \o c) /\ (w \o c)[k] = w[k]
           /\ \A k \in 1..Len(c) : Len(w) + k \in 1..Len(w \o c) /\ (w \o c)[Len(w) + k] = c[k]
<1>1. w \o c \in Seq(T) /\ Len(w \o c) = Len(w) + Len(c) /\ Len(w) \in Nat /\ Len(c) \in Nat
  OBVIOUS
<1>2. ASSUME NEW k \in 1..Len(w) PROVE k \in 1..Len(w \o c) /\ (w \o c)[k] = w[k]
  BY <1>1
<1>3. ASSUME NEW k \in 1..Len(c)
      PROVE  Len(w) + k \in 1..Len(w \o c) /\ (w \o c)[Len(w) + k] = c[k]
  <2>1. k \in Nat /\ k >= 1 /\ k <= Len(c) /\ Len(w) + k - Len(w) = k
    BY <1>1
  <2>2. Len(w) + k \in 1..Len(w \o c)
    BY <1>1, <2>1
  <2>3. QED
    BY <1>1, <2>1, <2>2
<1>4. QED
  BY <1>1, <1>2, <1>3

-----------------------------------------------------------------------------
(* Names. *)

\* Where a name ends once its root dots are gone.
NameEnd(raw) == Max({0} \union {i \in 1..Len(raw) : raw[i] # NoLabel})

LEMMA LastIs ==
    ASSUME NEW raw \in Seq(Labels)
    PROVE  /\ NameEnd(raw) \in 0..Len(raw)
           /\ NameEnd(raw) > 0 => raw[NameEnd(raw)] # NoLabel
           /\ \A i \in 1..Len(raw) : raw[i] # NoLabel => i <= NameEnd(raw)
<1>. DEFINE S == {0} \union {i \in 1..Len(raw) : raw[i] # NoLabel}
<1>1. Len(raw) \in Nat /\ S \in SUBSET (0..Len(raw)) /\ S # {}
  OBVIOUS
<1>2. Max(S) \in S /\ \A y \in S : Max(S) >= y
  BY <1>1, MaxIsGreatest
<1>3. NameEnd(raw) = Max(S)
  BY DEF NameEnd
<1>4. QED
  BY <1>2, <1>3

LEMMA NormaliseIs ==
    ASSUME NEW raw \in Seq(Labels)
    PROVE  /\ normalise(raw) \in Seq(Labels)
           /\ Len(normalise(raw)) = NameEnd(raw)
           /\ \A i \in 1..NameEnd(raw) : normalise(raw)[i] = Folded[raw[i]]
<1>. DEFINE m == NameEnd(raw)
<1>1. m \in Nat /\ m <= Len(raw)
  BY LastIs
<1>2. /\ WithoutRoot(raw) \in Seq(Labels) /\ Len(WithoutRoot(raw)) = m
      /\ \A i \in 1..m : WithoutRoot(raw)[i] = raw[i]
  <2>1. WithoutRoot(raw) = SubSeq(raw, 1, m)
    BY DEF WithoutRoot, NameEnd
  <2>. HIDE DEF m
  <2>2. QED
    BY <1>1, <2>1
<1>3. normalise(raw) = [i \in 1..m |-> Folded[WithoutRoot(raw)[i]]]
  BY <1>2 DEF normalise
<1>. HIDE DEF m
<1>4. normalise(raw) \in Seq(Labels) /\ Len(normalise(raw)) = m
  BY <1>1, <1>2, <1>3, LabelsAssumption
<1>5. QED
  BY <1>2, <1>3, <1>4 DEF m

\* The key of a question is matched like the question itself.
LEMMA NormaliseTwice ==
    ASSUME NEW raw \in Seq(Labels)
    PROVE  normalise(normalise(raw)) = normalise(raw)
<1>. DEFINE name == normalise(raw)
            m == NameEnd(raw)
<1>1. name \in Seq(Labels) /\ Len(name) = m /\ \A i \in 1..m : name[i] = Folded[raw[i]]
  BY NormaliseIs
<1>2. m \in Nat /\ m <= Len(raw) /\ (m > 0 => raw[m] # NoLabel)
  BY LastIs
<1>3. NameEnd(name) = m
  <2>1. m > 0 => name[m] # NoLabel
    BY <1>1, <1>2, LabelsAssumption
  <2>2. NameEnd(name) \in 0..m /\ \A i \in 1..m : name[i] # NoLabel => i <= NameEnd(name)
    BY <1>1, LastIs
  <2>3. QED
    BY <1>2, <2>1, <2>2
<1>4. /\ normalise(name) \in Seq(Labels) /\ Len(normalise(name)) = m
      /\ \A i \in 1..m : normalise(name)[i] = Folded[name[i]]
  BY <1>1, <1>3, NormaliseIs
<1>5. \A i \in 1..m : normalise(name)[i] = name[i]
  BY <1>1, <1>2, <1>4, LabelsAssumption
<1>6. QED
  BY <1>1, <1>4, <1>5

-----------------------------------------------------------------------------
(* What is ours. *)

\* No record claims the root.
RootIsFree(table) == <<>> \notin DOMAIN table.exact

LEMMA CompiledIsRootFree == ASSUME NEW domains PROVE RootIsFree(from_domains(domains))
<1>1. DOMAIN from_domains(domains).exact = {KeyOf(domains[i]) : i \in Tabled(domains, FALSE)}
  BY DEF from_domains, Table
<1>2. ASSUME NEW i \in Tabled(domains, FALSE)
      PROVE  KeyOf(domains[i]) # <<>>
  BY DEF Tabled, KeyOf, apex_of
<1>3. QED
  BY <1>1, <1>2 DEF RootIsFree

Claims(table, name) ==
    \/ name \in DOMAIN table.exact
    \/ \E i \in parent_suffixes(name) : Suffix(name, i) \in DOMAIN table.wildcards

\* Whose a name is depends on the namespaces of the zone and on nothing else.
LEMMA OursIsClaimed ==
    ASSUME NEW table, RootIsFree(table), NEW qname
    PROVE  IsOurs(table, qname) <=> Claims(table, normalise(qname))
<1>. DEFINE name == normalise(qname)
            hits == {i \in parent_suffixes(name) : Suffix(name, i) \in DOMAIN table.wildcards}
<1>1. CASE name \in DOMAIN table.exact
  <2>1. match(table, qname) = [wildcard |-> FALSE, apex |-> name, address |-> table.exact[name]]
    BY <1>1 DEF match
  <2>2. name # <<>>
    BY <1>1 DEF RootIsFree
  <2>. HIDE DEF name
  <2>3. match(table, qname).apex # NoMatch.apex
    BY <2>1, <2>2 DEF NoMatch
  <2>4. QED
    BY <1>1, <2>3 DEF IsOurs, Claims, name
<1>2. CASE name \notin DOMAIN table.exact /\ hits = {}
  BY <1>2 DEF match, IsOurs, Claims
<1>3. CASE name \notin DOMAIN table.exact /\ hits # {}
  <2>1. match(table, qname) = [wildcard |-> TRUE, apex |-> Suffix(name, Min(hits)),
                               address |-> table.wildcards[Suffix(name, Min(hits))]]
    BY <1>3 DEF match
  <2>2. match(table, qname).wildcard # NoMatch.wildcard
    BY <2>1 DEF NoMatch
  <2>3. QED
    BY <1>3, <2>2 DEF IsOurs, Claims
<1>4. QED
  BY <1>1, <1>2, <1>3

LEMMA SameNamespacesSameOwner ==
    ASSUME NEW table, NEW other, RootIsFree(table), RootIsFree(other),
           namespaces(table) = namespaces(other), NEW name
    PROVE  IsOurs(table, name) <=> IsOurs(other, name)
<1>1. DOMAIN table.exact = DOMAIN other.exact /\ DOMAIN table.wildcards = DOMAIN other.wildcards
  BY DEF namespaces
<1>2. QED
  BY <1>1, OursIsClaimed DEF Claims

-----------------------------------------------------------------------------
(* Precedence. *)

\* What the records of a store are like: a name that is not the root.
NamedRecords ==
    {d \in [name : Seq(Labels), address : Addresses, enabled : BOOLEAN] : normalise(d.name) # <<>>}

Own(d) == normalise(d.name)

LEMMA OwnIs ==
    ASSUME NEW d \in NamedRecords
    PROVE  /\ Own(d) \in Seq(Labels) /\ Own(d) # <<>>
           /\ is_wildcard(Own(d)) => Len(Own(d)) > 1 /\ Own(d)[1] = "*"
           /\ is_wildcard(Own(d)) \in BOOLEAN
BY NormaliseIs DEF NamedRecords, Own, is_wildcard

LEMMA TabledIs ==
    ASSUME NEW domains \in Seq(NamedRecords), NEW wildcard \in BOOLEAN
    PROVE  Tabled(domains, wildcard) =
              {i \in DOMAIN domains : domains[i].enabled
                                      /\ is_wildcard(Own(domains[i])) = wildcard}
<1>1. \A i \in DOMAIN domains : domains[i] \in NamedRecords
  OBVIOUS
<1>2. QED
  BY <1>1 DEF Tabled, Own, NamedRecords

\* What a table holds for a key is the address of the last record that has it.
LEMMA TableHolds ==
    ASSUME NEW domains \in Seq(NamedRecords), NEW wildcard \in BOOLEAN,
           NEW key \in DOMAIN Table(domains, wildcard)
    PROVE  \E m \in Tabled(domains, wildcard) :
              /\ KeyOf(domains[m]) = key
              /\ Table(domains, wildcard)[key] = domains[m].address
              /\ \A i \in Tabled(domains, wildcard) : KeyOf(domains[i]) = key => m >= i
<1>. DEFINE S == {i \in Tabled(domains, wildcard) : KeyOf(domains[i]) = key}
<1>1. key \in {KeyOf(domains[i]) : i \in Tabled(domains, wildcard)}
  BY DEF Table
<1>2. S # {}
  BY <1>1
<1>3. Len(domains) \in Nat /\ S \in SUBSET (0..Len(domains))
  BY TabledIs
<1>4. Max(S) \in S /\ \A y \in S : Max(S) >= y
  <2>. HIDE DEF S
  <2>1. QED
    BY <1>2, <1>3, MaxIsGreatest
<1>5. Table(domains, wildcard)[key] = domains[Max(S)].address
  BY <1>1 DEF Table
<1>6. QED
  BY <1>4, <1>5

LEMMA TableKeys ==
    ASSUME NEW domains \in Seq(NamedRecords), NEW wildcard \in BOOLEAN
    PROVE  DOMAIN Table(domains, wildcard) =
              {KeyOf(domains[i]) : i \in Tabled(domains, wildcard)}
BY DEF Table

\* A subtree is all of a wildcard name but its first label.
LEMMA TailIs ==
    ASSUME NEW own \in Seq(Labels), Len(own) > 1
    PROVE  /\ Tail(own) \in Seq(Labels) /\ Len(Tail(own)) = Len(own) - 1
           /\ \A i \in 1..(Len(own) - 1) : Tail(own)[i] = own[i + 1]
OBVIOUS

LEMMA SameTail ==
    ASSUME NEW a \in Seq(Labels), NEW b \in Seq(Labels), Len(a) > 1, Len(b) > 1,
           a[1] = b[1], Tail(a) = Tail(b)
    PROVE  a = b
<1>1. Len(a) = Len(b)
  BY TailIs
<1>2. ASSUME NEW i \in 1..Len(a) PROVE a[i] = b[i]
  <2>1. CASE i = 1
    BY <2>1
  <2>2. CASE i # 1
    <3>1. i - 1 \in 1..(Len(a) - 1) /\ (i - 1) + 1 = i
      BY <2>2
    <3>2. a[i] = Tail(a)[i - 1] /\ b[i] = Tail(b)[i - 1]
      BY <1>1, <3>1, TailIs
    <3>3. QED
      BY <3>2
  <2>3. QED
    BY <2>1, <2>2
<1>3. QED
  BY <1>1, <1>2

LEMMA SuffixIs ==
    ASSUME NEW name \in Seq(Labels), NEW i \in 2..Len(name)
    PROVE  Len(Suffix(name, i)) = Len(name) - i + 1
BY DEF Suffix

\* Whatever the records of the store, their order, duplicates and disabled ones included,
\* the zone answers a name by precedence: a name before a subtree, a deeper subtree before
\* a shallower one, the last record of one name; and it answers no name nobody covers.
THEOREM ZoneAnswersByRank ==
    \A domains \in Seq(NamedRecords), qname \in Seq(Labels) : AnswersByRank(domains, qname)
<1>. SUFFICES ASSUME NEW domains \in Seq(NamedRecords), NEW qname \in Seq(Labels)
              PROVE  AnswersByRank(domains, qname)
  OBVIOUS
<1>. DEFINE name == normalise(qname)
            table == from_domains(domains)
            found == match(table, qname)
            covering == {i \in DOMAIN domains : domains[i].enabled /\ Covers(domains[i], name)}
            own(i) == Own(domains[i])
            hits == {i \in parent_suffixes(name) : Suffix(name, i) \in DOMAIN table.wildcards}
<1>1. name \in Seq(Labels) /\ Len(name) \in Nat
  BY NormaliseIs
<1>1a. DOMAIN domains \in SUBSET Nat
  OBVIOUS
<1>2. \A i \in DOMAIN domains :
         /\ domains[i] \in NamedRecords
         /\ own(i) \in Seq(Labels) /\ own(i) # <<>>
         /\ is_wildcard(own(i)) \in BOOLEAN
         /\ is_wildcard(own(i)) => Len(own(i)) > 1 /\ own(i)[1] = "*"
         /\ KeyOf(domains[i]) = IF is_wildcard(own(i)) THEN Tail(own(i)) ELSE own(i)
         /\ Covers(domains[i], name) <=>
               IF is_wildcard(own(i))
               THEN \E k \in 2..Len(name) : Suffix(name, k) = Tail(own(i))
               ELSE own(i) = name
  <2>1. ASSUME NEW i \in DOMAIN domains PROVE domains[i] \in NamedRecords
    OBVIOUS
  <2>2. QED
    BY <2>1, OwnIs DEF Own, KeyOf, apex_of, Covers
<1>3. /\ table.exact = Table(domains, FALSE) /\ table.wildcards = Table(domains, TRUE)
      /\ Tabled(domains, FALSE) = {i \in DOMAIN domains :
                domains[i].enabled /\ is_wildcard(own(i)) = FALSE}
      /\ Tabled(domains, TRUE) = {i \in DOMAIN domains :
                domains[i].enabled /\ is_wildcard(own(i)) = TRUE}
  BY TabledIs DEF from_domains
<1>4. /\ DOMAIN table.exact = {KeyOf(domains[i]) : i \in Tabled(domains, FALSE)}
      /\ DOMAIN table.wildcards = {KeyOf(domains[i]) : i \in Tabled(domains, TRUE)}
  BY <1>3, TableKeys
<1>5. \A i \in covering : is_wildcard(own(i)) \/ name \in DOMAIN table.exact
  <2>1. ASSUME NEW i \in covering, ~ is_wildcard(own(i))
        PROVE  name \in DOMAIN table.exact
    <3>1. own(i) = name /\ KeyOf(domains[i]) = name
      BY <1>2, <2>1
    <3>2. i \in Tabled(domains, FALSE)
      BY <1>2, <1>3, <2>1
    <3>3. QED
      BY <1>4, <3>1, <3>2
  <2>2. QED
    BY <2>1
<1>6. \A i \in covering : is_wildcard(own(i)) => \E k \in hits : Suffix(name, k) = Tail(own(i))
  <2>1. ASSUME NEW i \in covering, is_wildcard(own(i))
        PROVE  \E k \in hits : Suffix(name, k) = Tail(own(i))
    <3>1. PICK k \in 2..Len(name) : Suffix(name, k) = Tail(own(i))
      BY <1>2, <2>1
    <3>2. i \in Tabled(domains, TRUE) /\ KeyOf(domains[i]) = Tail(own(i))
      BY <1>2, <1>3, <2>1
    <3>3. k \in hits
      BY <1>4, <3>1, <3>2 DEF parent_suffixes
    <3>4. QED
      BY <3>1, <3>3
  <2>2. QED
    BY <2>1
<1>7. SUFFICES IF covering = {} THEN found = NoMatch
               ELSE \E i \in covering :
                       /\ found.address = domains[i].address
                       /\ \A j \in covering \ {i} : Outranks(domains, i, j)
  BY DEF AnswersByRank
<1>8. \A i, j : Outranks(domains, i, j) <=>
         \/ ~ is_wildcard(own(i)) /\ is_wildcard(own(j))
         \/ is_wildcard(own(i)) /\ is_wildcard(own(j)) /\ Len(own(i)) > Len(own(j))
         \/ own(i) = own(j) /\ i > j
  BY DEF Outranks, Own
<1>9. CASE name \in DOMAIN table.exact
  <2>1. PICK m \in Tabled(domains, FALSE) :
            /\ KeyOf(domains[m]) = name
            /\ table.exact[name] = domains[m].address
            /\ \A i \in Tabled(domains, FALSE) : KeyOf(domains[i]) = name => m >= i
    <3>. HIDE DEF name, table
    <3>1. name \in DOMAIN Table(domains, FALSE)
      BY <1>3, <1>9
    <3>2. \E m \in Tabled(domains, FALSE) :
             /\ KeyOf(domains[m]) = name
             /\ Table(domains, FALSE)[name] = domains[m].address
             /\ \A i \in Tabled(domains, FALSE) : KeyOf(domains[i]) = name => m >= i
      BY <3>1, TableHolds
    <3>3. QED
      BY <1>3, <3>2
  <2>2. m \in DOMAIN domains /\ domains[m].enabled /\ ~ is_wildcard(own(m)) /\ own(m) = name
    BY <1>2, <1>3, <2>1
  <2>3. m \in covering
    BY <1>2, <2>2
  <2>4. found.address = domains[m].address
    BY <1>9, <2>1 DEF match
  <2>5. ASSUME NEW j \in covering \ {m}
        PROVE  Outranks(domains, m, j)
    <3>1. CASE is_wildcard(own(j))
      BY <1>8, <2>2, <3>1
    <3>2. CASE ~ is_wildcard(own(j))
      <4>1. own(j) = name /\ j \in Tabled(domains, FALSE) /\ KeyOf(domains[j]) = name
        BY <1>2, <1>3, <2>5, <3>2
      <4>2. m \in Nat /\ j \in Nat /\ m # j
        BY <1>1a, <2>2, <2>5
      <4>2a. m >= j
        BY <2>1, <4>1
      <4>3. m > j
        BY <4>2, <4>2a
      <4>4. QED
        BY <1>8, <2>2, <4>1, <4>3
    <3>3. QED
      BY <3>1, <3>2
  <2>6. QED
    BY <2>3, <2>4, <2>5
<1>10. CASE name \notin DOMAIN table.exact /\ hits = {}
  <2>1. covering = {}
    BY <1>5, <1>6, <1>10
  <2>2. found = NoMatch
    BY <1>10 DEF match
  <2>3. QED
    BY <2>1, <2>2
<1>11. CASE name \notin DOMAIN table.exact /\ hits # {}
  <2>. DEFINE k == Min(hits)
              s == Suffix(name, k)
  <2>1. hits \in SUBSET Nat
    BY DEF parent_suffixes
  <2>2. k \in hits /\ \A y \in hits : k <= y
    <3>. HIDE DEF hits
    <3>1. QED
      BY <1>11, <2>1, MinIsLeast
  <2>3. k \in 2..Len(name) /\ s \in DOMAIN table.wildcards
    BY <2>2 DEF parent_suffixes
  <2>4. found.address = table.wildcards[s]
    BY <1>11 DEF match
  <2>. HIDE DEF k
  <2>5. PICK m \in Tabled(domains, TRUE) :
            /\ KeyOf(domains[m]) = s
            /\ table.wildcards[s] = domains[m].address
            /\ \A i \in Tabled(domains, TRUE) : KeyOf(domains[i]) = s => m >= i
    <3>. HIDE DEF s, table
    <3>1. s \in DOMAIN Table(domains, TRUE)
      BY <1>3, <2>3
    <3>2. \E m \in Tabled(domains, TRUE) :
             /\ KeyOf(domains[m]) = s
             /\ Table(domains, TRUE)[s] = domains[m].address
             /\ \A i \in Tabled(domains, TRUE) : KeyOf(domains[i]) = s => m >= i
      BY <3>1, TableHolds
    <3>3. QED
      BY <1>3, <3>2
  <2>6. m \in DOMAIN domains /\ domains[m].enabled /\ is_wildcard(own(m)) /\ Tail(own(m)) = s
    BY <1>2, <1>3, <2>5
  <2>7. m \in covering
    BY <1>2, <2>3, <2>6
  <2>8. ASSUME NEW j \in covering \ {m}
        PROVE  Outranks(domains, m, j)
    <3>1. is_wildcard(own(j))
      BY <1>5, <1>11
    <3>2. PICK i \in hits : Suffix(name, i) = Tail(own(j))
      BY <1>6, <3>1
    <3>3. i \in 2..Len(name) /\ k <= i
      BY <2>2, <3>2 DEF parent_suffixes
    <3>4. /\ own(m) \in Seq(Labels) /\ own(j) \in Seq(Labels)
          /\ Len(own(m)) > 1 /\ Len(own(j)) > 1 /\ own(m)[1] = own(j)[1]
      BY <1>2, <2>6, <3>1
    <3>. HIDE DEF own, name
    <3>5. /\ Len(own(m)) - 1 = Len(name) - k + 1
          /\ Len(own(j)) - 1 = Len(name) - i + 1
      BY <1>1, <2>3, <2>6, <3>2, <3>3, <3>4, SuffixIs, TailIs
    <3>6. Len(own(m)) \in Nat /\ Len(own(j)) \in Nat
      BY <3>4
    <3>7. CASE k < i
      <4>1. Len(own(m)) > Len(own(j))
        BY <1>1, <2>3, <3>3, <3>5, <3>6, <3>7
      <4>2. QED
        BY <1>8, <2>6, <3>1, <4>1
    <3>8. CASE k = i
      <4>1. own(m) = own(j)
        BY <2>6, <3>2, <3>4, <3>8, SameTail
      <4>2. j \in Tabled(domains, TRUE) /\ KeyOf(domains[j]) = s
        <5>1. j \in DOMAIN domains /\ domains[j].enabled
          OBVIOUS
        <5>2. QED
          BY <1>2, <1>3, <2>6, <3>1, <4>1, <5>1
      <4>3. m \in Nat /\ j \in Nat /\ m # j
        <5>1. j \in DOMAIN domains /\ j # m
          OBVIOUS
        <5>2. QED
          BY <1>1a, <2>6, <5>1
      <4>3a. m >= j
        BY <2>5, <4>2
      <4>4. m > j
        BY <4>3, <4>3a
      <4>5. QED
        BY <1>8, <4>1, <4>4
    <3>9. QED
      BY <2>3, <3>3, <3>7, <3>8
  <2>9. QED
    BY <2>4, <2>5, <2>7, <2>8
<1>12. QED
  BY <1>9, <1>10, <1>11

\* validate wants two labels, besides the star of a wildcard.
LEMMA TwoLabels ==
    ASSUME NEW name \in Seq(Labels), NameErrors(name) = {}
    PROVE  apex_of(name) \in Seq(Labels) /\ Len(apex_of(name)) > 1
<1>0. name # <<>> /\ Len(apex_of(name)) # 1
  BY DEF NameErrors
<1>1. name # <<>> /\ Len(apex_of(name)) # 1 /\ Len(name) \in Nat /\ Len(name) # 0
  BY <1>0
<1>2. CASE is_wildcard(name)
  <2>1. Len(name) > 1 /\ apex_of(name) = Tail(name)
    BY <1>2 DEF is_wildcard, apex_of
  <2>2. Tail(name) \in Seq(Labels) /\ Len(Tail(name)) = Len(name) - 1
    BY <1>1, <2>1
  <2>3. QED
    BY <1>1, <2>1, <2>2
<1>3. CASE ~ is_wildcard(name)
  <2>1. apex_of(name) = name
    BY <1>3 DEF apex_of
  <2>2. \A n \in Nat : n # 0 /\ n # 1 => n > 1
    OBVIOUS
  <2>3. QED
    BY <1>1, <2>1, <2>2
<1>4. QED
  BY <1>2, <1>3

\* A name that validate lets through is served: whatever is typed, the record it makes
\* claims one namespace of more than one label, answers its own name, and answers its
\* bare apex too unless the user is warned that it does not.
THEOREM WhatIsAcceptedIsServed ==
    \A raw \in Seq(Labels), address \in Addresses : AcceptedIsServable(raw, address)
<1>. SUFFICES ASSUME NEW raw \in Seq(Labels), NEW address \in Addresses, validate(raw).ok
              PROVE  AcceptedIsServable(raw, address)
  BY DEF AcceptedIsServable
<1>. DEFINE name == normalise(raw)
            d == Domain(raw, address, TRUE)
            domains == <<d>>
            table == from_domains(domains)
<1>1. name \in Seq(Labels) /\ Len(name) \in Nat /\ normalise(name) = name
  BY NormaliseIs, NormaliseTwice
<1>2. NameErrors(name) = {} /\ validate(raw).name = name
      /\ validate(raw).warnings = NameWarnings(name)
  BY DEF validate
<1>3. name # <<>> /\ Len(apex_of(name)) # 1
  BY <1>2 DEF NameErrors
<1>4. /\ apex_of(name) = IF is_wildcard(name) THEN Tail(name) ELSE name
      /\ is_wildcard(name) <=> Len(name) > 1 /\ name[1] = "*"
      /\ is_wildcard(name) \in BOOLEAN
  BY DEF apex_of, is_wildcard
<1>5. Len(apex_of(name)) > 1
  BY <1>1, <1>2, TwoLabels
<1>6. d \in NamedRecords /\ domains \in Seq(NamedRecords) /\ DOMAIN domains = {1}
      /\ domains[1] = d /\ d.name = raw /\ d.address = address /\ d.enabled = TRUE
  BY <1>3 DEF NamedRecords, Domain
<1>. HIDE DEF d, domains
<1>7. /\ Tabled(domains, TRUE) = IF is_wildcard(name) THEN {1} ELSE {}
      /\ Tabled(domains, FALSE) = IF is_wildcard(name) THEN {} ELSE {1}
      /\ KeyOf(domains[1]) = apex_of(name)
  BY <1>4, <1>6, TabledIs DEF Own, KeyOf
<1>8. /\ DOMAIN table.wildcards = IF is_wildcard(name) THEN {apex_of(name)} ELSE {}
      /\ DOMAIN table.exact = IF is_wildcard(name) THEN {} ELSE {apex_of(name)}
  <2>1. /\ DOMAIN table.wildcards = {KeyOf(domains[i]) : i \in Tabled(domains, TRUE)}
        /\ DOMAIN table.exact = {KeyOf(domains[i]) : i \in Tabled(domains, FALSE)}
    BY <1>6, TableKeys DEF from_domains
  <2>. HIDE DEF name, table
  <2>2. QED
    BY <1>7, <2>1
<1>9. namespaces(table).names \union namespaces(table).subtrees = {apex_of(name)}
  BY <1>4, <1>8 DEF namespaces
<1>10. match(table, name).address = address
  <2>1. Covers(d, name)
    <3>1. CASE is_wildcard(name)
      <4>1. 2 \in 2..Len(name) /\ Suffix(name, 2) = Tail(name)
        <5>. HIDE DEF name
        <5>1. QED
          BY <1>1, <1>4, <3>1 DEF Suffix
      <4>2. QED
        BY <1>6, <3>1, <4>1 DEF Covers
    <3>2. CASE ~ is_wildcard(name)
      BY <1>6, <3>2 DEF Covers
    <3>3. QED
      BY <3>1, <3>2
  <2>2. {i \in DOMAIN domains : domains[i].enabled /\ Covers(domains[i], name)} = {1}
    BY <1>6, <2>1
  <2>3. AnswersByRank(domains, name)
    BY <1>1, <1>6, ZoneAnswersByRank
  <2>4. match(table, name).address = domains[1].address
    BY <1>1, <2>2, <2>3 DEF AnswersByRank
  <2>5. QED
    BY <1>6, <2>4
<1>11. IsOurs(table, apex_of(name)) \/ "wildcard_apex" \in NameWarnings(name)
  <2>1. CASE is_wildcard(name)
    BY <2>1 DEF NameWarnings
  <2>2. CASE ~ is_wildcard(name)
    <3>1. name \in DOMAIN table.exact
      BY <1>4, <1>8, <2>2
    <3>2. RootIsFree(table)
      BY CompiledIsRootFree
    <3>3. QED
      BY <1>1, <1>4, <2>2, <3>1, <3>2, OursIsClaimed DEF Claims
  <2>3. QED
    BY <2>1, <2>2
<1>12. QED
  BY <1>2, <1>5, <1>6, <1>9, <1>10, <1>11 DEF AcceptedIsServable, domains, d
=============================================================================
