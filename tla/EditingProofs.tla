---------------------------- MODULE EditingProofs ----------------------------
(***************************************************************************)
(* Proofs about Editing, for every set of names, addresses, importers and  *)
(* listings, and for any number of records.                                *)
(***************************************************************************)
EXTENDS Editing, ZoneProofs

-----------------------------------------------------------------------------
(* What the interfaces send. *)

\* What both backends understand alike: a creation says nothing of the switch, a change
\* says something, and a name in it is the one the route would make of it.
Sound(r) ==
    /\ r = Request(r.op, r.id, r.name, r.address, r.enabled)
    /\ r.op \in {"create", "update", "toggle", "delete"}
    /\ r.op = "create" => r.enabled = {}
    /\ r.op = "update" =>
          /\ r.address # {}
          /\ \A n \in r.name : validate(n).ok /\ validate(n).name = n

LEMMA SoundAgrees ==
    ASSUME NEW domains, NEW r, Sound(r)
    PROVE  Http(domains, r) = Local(domains, r)
<1>1. CASE r.op = "create"
  <2>1. Or(r.enabled, TRUE) = TRUE
    BY <1>1 DEF Sound, Or
  <2>2. QED
    BY <1>1, <2>1 DEF Http, Local
<1>2. CASE r.op = "update"
  <2>1. ~ Unusable(r)
    BY <1>2 DEF Sound, Unusable, Only
  <2>2. <<r.name, r.address, r.enabled>> # <<{}, {}, {}>>
    BY <1>2 DEF Sound
  <2>3. {validate(n).name : n \in r.name} = r.name
    BY <1>2 DEF Sound
  <2>4. [r EXCEPT !.name = {validate(n).name : n \in @}] = r
    BY <2>3 DEF Sound, Request
  <2>5. QED
    BY <1>2, <2>1, <2>2, <2>4 DEF Http, Local
<1>3. CASE r.op = "toggle"
  BY <1>3 DEF Http, Local
<1>4. CASE r.op = "delete"
  BY <1>4 DEF Http, Local
<1>5. QED
  BY <1>1, <1>2, <1>3, <1>4 DEF Sound

LEMMA SoundRequests ==
    /\ \A name, address : Sound(Create(name, address))
    /\ \A id, address : Sound(Update(id, {}, address))
    /\ \A id, enabled : Sound(Toggle(id, enabled))
    /\ \A id : Sound(Delete(id))
BY DEF Sound, Create, Update, Toggle, Delete, Request

-----------------------------------------------------------------------------
(* Names that can be stored. *)

Usable(name) == name \in Seq(Labels) /\ validate(name).ok /\ validate(name).name = name

LEMMA UsableIs ==
    ASSUME NEW name
    PROVE  Usable(name) <=>
              name \in Seq(Labels) /\ normalise(name) = name /\ NameErrors(name) = {}
BY DEF Usable, validate

LEMMA TypedIsUsable ==
    ASSUME NEW raw \in Seq(Labels), validate(raw).ok
    PROVE  Usable(validate(raw).name) /\ validate(raw).name = normalise(raw)
<1>1. validate(raw).name = normalise(raw) /\ NameErrors(normalise(raw)) = {}
  BY DEF validate
<1>2. normalise(raw) \in Seq(Labels) /\ normalise(normalise(raw)) = normalise(raw)
  BY NormaliseIs, NormaliseTwice
<1>3. QED
  BY <1>1, <1>2, UsableIs

LEMMA UsableIsLong ==
    ASSUME NEW name, Usable(name) PROVE Len(name) \in Nat /\ Len(name) > 1
<1>1. name \in Seq(Labels) /\ NameErrors(name) = {}
  BY UsableIs
<1>2. apex_of(name) \in Seq(Labels) /\ Len(apex_of(name)) > 1
  BY <1>1, TwoLabels
<1>3. CASE is_wildcard(name)
  BY <1>1, <1>3 DEF is_wildcard
<1>4. CASE ~ is_wildcard(name)
  BY <1>1, <1>2, <1>4 DEF apex_of
<1>5. QED
  BY <1>3, <1>4

\* The apex of a wildcard is a name of its own.
LEMMA ApexIsUsable ==
    ASSUME NEW name, Usable(name), is_wildcard(name)
    PROVE  Usable(apex_of(name))
<1>. DEFINE t == apex_of(name)
            labels == {t[i] : i \in DOMAIN t}
<1>1. name \in Seq(Labels) /\ normalise(name) = name /\ NameErrors(name) = {}
  BY UsableIs
<1>2. t \in Seq(Labels) /\ Len(t) > 1 /\ Len(t) \in Nat /\ DOMAIN t = 1..Len(t)
  BY <1>1, TwoLabels
<1>3. t = Tail(name) /\ Len(name) \in Nat /\ Len(name) > 1
  BY <1>1 DEF apex_of, is_wildcard
<1>4. Len(t) = Len(name) - 1 /\ \A i \in 1..Len(t) : i + 1 \in 1..Len(name) /\ t[i] = name[i + 1]
  BY <1>1, <1>3
<1>. HIDE DEF t
<1>5. /\ "*" \notin labels /\ NoLabel \notin labels /\ labels \intersect LongLabels = {}
      /\ labels \intersect HyphenLabels = {} /\ labels \intersect OddLabels = {}
      /\ ~ (Len(name) > MaxLabels)
  <2>1. \A e \in {"wildcard_position", "too_long", "empty_label", "label_too_long",
                  "label_hyphen", "label_chars"} : e \notin NameErrors(name)
    BY <1>1
  <2>. HIDE DEF labels
  <2>2. QED
    BY <2>1 DEF NameErrors, labels, t
<1>6. ~ is_wildcard(t)
  <2>1. t[1] \in labels
    BY <1>2
  <2>. HIDE DEF labels
  <2>2. QED
    BY <1>5, <2>1 DEF is_wildcard
<1>7. apex_of(t) = t
  BY <1>6 DEF apex_of
<1>8. NameErrors(t) = {}
  <2>1. t # <<>> /\ t # <<"*">> /\ Len(t) # 1 /\ ~ (Len(t) > MaxLabels)
    <3>1. MaxLabels \in Nat
      BY LabelsAssumption
    <3>2. QED
      BY <1>2, <1>3, <1>4, <1>5, <3>1
  <2>. DEFINE same == {apex_of(t)[i] : i \in DOMAIN apex_of(t)}
  <2>2. same = labels
    BY <1>7
  <2>. HIDE DEF labels
  <2>3. QED
    BY <1>5, <1>7, <2>1, <2>2 DEF NameErrors
<1>9. normalise(t) = t
  <2>1. \A i \in 1..Len(name) : name[i] \in Labels /\ Folded[name[i]] = name[i]
    <3>1. /\ Len(name) = NameEnd(name) /\ NameEnd(name) \in 0..Len(name)
          /\ \A i \in 1..NameEnd(name) : name[i] = Folded[name[i]]
      BY <1>1, NormaliseIs, LastIs
    <3>2. QED
      BY <1>1, <3>1
  <2>2. \A i \in 1..Len(t) : t[i] # NoLabel /\ Folded[t[i]] = t[i]
    <3>1. \A i \in 1..Len(t) : t[i] \in labels
      BY <1>2
    <3>. HIDE DEF labels
    <3>2. QED
      BY <1>4, <1>5, <2>1, <3>1
  <2>3. NameEnd(t) = Len(t)
    <3>1. NameEnd(t) \in 0..Len(t) /\ \A i \in 1..Len(t) : t[i] # NoLabel => i <= NameEnd(t)
      BY <1>2, LastIs
    <3>2. Len(t) \in 1..Len(t)
      BY <1>2
    <3>3. QED
      BY <1>2, <2>2, <3>1, <3>2
  <2>4. /\ normalise(t) \in Seq(Labels) /\ Len(normalise(t)) = Len(t)
        /\ \A i \in 1..Len(t) : normalise(t)[i] = t[i]
    BY <1>2, <2>2, <2>3, NormaliseIs
  <2>5. QED
    BY <1>2, <2>4
<1>10. QED
  BY <1>2, <1>8, <1>9, UsableIs DEF t

-----------------------------------------------------------------------------
(* Lists of records. *)

\* The names can be stored, and the ids are among those given out, each once.
GoodList(domains, upto) ==
    /\ domains \in Seq(Record)
    /\ \A d \in ToSet(domains) : Usable(d.name) /\ d.id \in 1..upto
    /\ \A j, k \in 1..Len(domains) : domains[j].id = domains[k].id => j = k

LEMMA ItemsAre ==
    ASSUME NEW T, NEW s \in Seq(T)
    PROVE  /\ Len(s) \in Nat /\ DOMAIN s = 1..Len(s)
           /\ ToSet(s) = {s[i] : i \in 1..Len(s)} /\ ToSet(s) \subseteq T
BY DEF ToSet

LEMMA ListSets ==
    ASSUME NEW s \in Seq(Record)
    PROVE  /\ NamesIn(s) = {d.name : d \in ToSet(s)}
           /\ IdsIn(s) = {d.id : d \in ToSet(s)}
           /\ Records(s) = {Abstract(d) : d \in ToSet(s)}
BY DEF NamesIn, IdsIn, Records, ToSet

\* An id has one record.
LEMMA OneOfAnId ==
    ASSUME NEW upto, NEW s, GoodList(s, upto), NEW d \in ToSet(s), NEW e \in ToSet(s), d.id = e.id
    PROVE  d = e
<1>1. PICK i \in 1..Len(s), j \in 1..Len(s) : d = s[i] /\ e = s[j]
  BY ItemsAre DEF GoodList
<1>2. QED
  BY <1>1 DEF GoodList

LEMMA WithId ==
    ASSUME NEW s, NEW upto, GoodList(s, upto), NEW id
    PROVE  /\ with_id(s, id) = {} => id \notin IdsIn(s)
           /\ with_id(s, id) # {} =>
                 /\ Min(with_id(s, id)) \in 1..Len(s)
                 /\ s[Min(with_id(s, id))].id = id
                 /\ s[Min(with_id(s, id))] \in ToSet(s)
<1>1. s \in Seq(Record) /\ DOMAIN s = 1..Len(s) /\ Len(s) \in Nat
  BY DEF GoodList
<1>2. with_id(s, id) \in SUBSET Nat
  BY <1>1 DEF with_id
<1>3. with_id(s, id) # {} => Min(with_id(s, id)) \in with_id(s, id)
  BY <1>2, MinIsLeast
<1>4. QED
  BY <1>1, <1>3, ItemsAre DEF with_id, IdsIn

\* A stored name is its own normal form, so that by_name compares names.
LEMMA ByName ==
    ASSUME NEW s, NEW upto, GoodList(s, upto), NEW name, Usable(name)
    PROVE  /\ by_name(s, name) = {k \in 1..Len(s) : s[k].name = name}
           /\ by_name(s, name) = {} <=> name \notin NamesIn(s)
<1>1. s \in Seq(Record) /\ DOMAIN s = 1..Len(s) /\ \A k \in 1..Len(s) : s[k] \in ToSet(s)
  BY ItemsAre DEF GoodList
<1>2. \A k \in 1..Len(s) : normalise(s[k].name) = s[k].name
  BY <1>1, UsableIs DEF GoodList
<1>3. normalise(name) = name
  BY UsableIs
<1>4. by_name(s, name) = {k \in 1..Len(s) : s[k].name = name}
  BY <1>1, <1>2, <1>3 DEF by_name
<1>5. QED
  BY <1>1, <1>4 DEF NamesIn

LEMMA Appended ==
    ASSUME NEW s, NEW upto \in Nat, GoodList(s, upto), NEW d \in Record, Usable(d.name),
           d.id = upto + 1
    PROVE  /\ GoodList(Append(s, d), upto + 1)
           /\ ToSet(Append(s, d)) = ToSet(s) \union {d}
<1>. DEFINE t == Append(s, d)
            n == Len(s)
<1>1. s \in Seq(Record) /\ n \in Nat /\ ToSet(s) = {s[i] : i \in 1..n}
  BY ItemsAre DEF GoodList
<1>2. /\ t \in Seq(Record) /\ Len(t) = n + 1 /\ t[n + 1] = d
      /\ \A i \in 1..n : t[i] = s[i]
  BY <1>1
<1>. HIDE DEF t
<1>3. ToSet(t) = {t[i] : i \in 1..(n + 1)}
  BY <1>2, ItemsAre
<1>. HIDE DEF n
<1>4. \A i \in 1..(n + 1) : i \in 1..n \/ i = n + 1
  BY <1>1
<1>4a. n + 1 \in 1..(n + 1) /\ \A i \in 1..n : i \in 1..(n + 1)
  BY <1>1
<1>5. ToSet(t) = ToSet(s) \union {d}
  <2>1. ASSUME NEW x \in ToSet(t) PROVE x \in ToSet(s) \union {d}
    BY <1>1, <1>2, <1>3, <1>4, <2>1
  <2>2. ASSUME NEW x \in ToSet(s) \union {d} PROVE x \in ToSet(t)
    BY <1>1, <1>2, <1>3, <1>4a, <2>2
  <2>3. QED
    BY <2>1, <2>2
<1>6. \A i \in 1..n : s[i].id \in 1..upto
  BY <1>1 DEF GoodList
<1>7. ASSUME NEW j \in 1..(n + 1), NEW k \in 1..(n + 1), t[j].id = t[k].id PROVE j = k
  <2>1. \A i \in 1..n : t[i].id # t[n + 1].id
    BY <1>2, <1>6
  <2>2. \A i, h \in 1..n : t[i].id = t[h].id => i = h
    BY <1>2 DEF GoodList, n
  <2>3. QED
    BY <1>4, <1>7, <2>1, <2>2
<1>8. \A e \in ToSet(t) : Usable(e.name) /\ e.id \in 1..(upto + 1)
  BY <1>5 DEF GoodList
<1>9. QED
  BY <1>2, <1>5, <1>7, <1>8 DEF GoodList, t

LEMMA Replaced ==
    ASSUME NEW s, NEW upto \in Nat, GoodList(s, upto), NEW k \in 1..Len(s),
           NEW d \in Record, Usable(d.name), d.id = s[k].id, NEW t \in Seq(Record),
           Len(t) = Len(s), t[k] = d, \A i \in 1..Len(s) : i # k => t[i] = s[i]
    PROVE  GoodList(t, upto) /\ ToSet(t) = (ToSet(s) \ {s[k]}) \union {d}
<1>. DEFINE n == Len(s)
<1>1. s \in Seq(Record) /\ n \in Nat /\ ToSet(s) = {s[i] : i \in 1..n}
  BY ItemsAre DEF GoodList
<1>2. /\ t \in Seq(Record) /\ Len(t) = n /\ t[k] = d
      /\ \A i \in 1..n : i # k => t[i] = s[i]
  OBVIOUS
<1>3. ToSet(t) = {t[i] : i \in 1..n}
  BY <1>2, ItemsAre
<1>4. \A i \in 1..n : t[i].id = s[i].id
  BY <1>2
<1>5. \A i, j \in 1..n : s[i].id = s[j].id => i = j
  BY DEF GoodList
<1>6. ToSet(t) = (ToSet(s) \ {s[k]}) \union {d}
  <2>1. ASSUME NEW x \in ToSet(t) PROVE x \in (ToSet(s) \ {s[k]}) \union {d}
    <3>1. PICK i \in 1..n : x = t[i]
      BY <1>3
    <3>2. i = k \/ s[i] # s[k]
      BY <1>5
    <3>3. QED
      BY <1>1, <1>2, <3>1, <3>2
  <2>2. ASSUME NEW x \in (ToSet(s) \ {s[k]}) \union {d} PROVE x \in ToSet(t)
    BY <1>1, <1>2, <1>3, <2>2
  <2>3. QED
    BY <2>1, <2>2
<1>7. \A e \in ToSet(t) : Usable(e.name) /\ e.id \in 1..upto
  BY <1>1, <1>6 DEF GoodList
<1>8. \A i, j \in 1..Len(t) : t[i].id = t[j].id => i = j
  BY <1>2, <1>4, <1>5
<1>9. QED
  BY <1>2, <1>6, <1>7, <1>8 DEF GoodList

LEMMA Removed ==
    ASSUME NEW s, NEW upto \in Nat, GoodList(s, upto), NEW k \in 1..Len(s)
    PROVE  LET t == RemoveAt(s, k)
           IN  GoodList(t, upto) /\ ToSet(t) = ToSet(s) \ {s[k]}
<1>. DEFINE t == RemoveAt(s, k)
            n == Len(s)
            a == SubSeq(s, 1, k - 1)
            b == SubSeq(s, k + 1, n)
            At(i) == IF i < k THEN i ELSE i + 1
<1>1. s \in Seq(Record) /\ n \in Nat /\ ToSet(s) = {s[i] : i \in 1..n}
  BY ItemsAre DEF GoodList
<1>2. /\ a \in Seq(Record) /\ Len(a) = k - 1 /\ \A i \in 1..(k - 1) : a[i] = s[i]
      /\ b \in Seq(Record) /\ Len(b) = n - k /\ \A i \in 1..(n - k) : b[i] = s[k + i]
  BY <1>1
<1>3. t = a \o b
  BY DEF RemoveAt
<1>. HIDE DEF a, b, t
<1>4. /\ t \in Seq(Record) /\ Len(t) = n - 1
      /\ \A i \in 1..(k - 1) : t[i] = s[i]
      /\ \A i \in 1..(n - k) : t[(k - 1) + i] = s[k + i]
  <2>1. k \in Nat /\ k >= 1 /\ k <= n
    BY <1>1
  <2>2. /\ t \in Seq(Record) /\ Len(t) = (k - 1) + (n - k)
        /\ \A i \in 1..(k - 1) : t[i] = a[i]
        /\ \A i \in 1..(n - k) : t[(k - 1) + i] = b[i]
    <3>1. /\ a \o b \in Seq(Record) /\ Len(a \o b) = Len(a) + Len(b)
          /\ \A i \in 1..Len(a) : (a \o b)[i] = a[i]
          /\ \A i \in 1..Len(b) : (a \o b)[Len(a) + i] = b[i]
      <4>1. a \in Seq(Record) /\ b \in Seq(Record)
        BY <1>2
      <4>2. QED
        BY <4>1, BothParts
    <3>2. Len(a) = k - 1 /\ Len(b) = n - k
      BY <1>2
    <3>3. QED
      BY <1>3, <3>1, <3>2, Zenon
  <2>3. (k - 1) + (n - k) = n - 1
    BY <1>1, <2>1
  <2>4. QED
    BY <1>2, <2>2, <2>3
<1>5. ASSUME NEW i \in 1..(n - 1)
      PROVE  At(i) \in 1..n /\ At(i) # k /\ t[i] = s[At(i)]
  <2>1. CASE i < k
    BY <1>1, <1>4, <2>1
  <2>2. CASE ~ (i < k)
    <3>1. i - (k - 1) \in 1..(n - k) /\ (k - 1) + (i - (k - 1)) = i /\ k + (i - (k - 1)) = i + 1
      BY <1>1, <2>2
    <3>2. t[i] = s[i + 1]
      BY <1>4, <3>1
    <3>3. QED
      BY <1>1, <2>2, <3>2
  <2>3. QED
    BY <2>1, <2>2
<1>6. \A i, j \in 1..(n - 1) : At(i) = At(j) => i = j
  BY <1>1
<1>7. ASSUME NEW j \in 1..n, j # k PROVE \E i \in 1..(n - 1) : At(i) = j
  <2>1. CASE j < k
    <3>1. j \in 1..(n - 1) /\ At(j) = j
      BY <1>1, <2>1
    <3>2. QED
      BY <3>1
  <2>2. CASE ~ (j < k)
    <3>1. j - 1 \in 1..(n - 1) /\ ~ (j - 1 < k) /\ (j - 1) + 1 = j
      BY <1>1, <1>7, <2>2
    <3>2. QED
      BY <3>1
  <2>3. QED
    BY <2>1, <2>2
<1>. HIDE DEF At
<1>8. \A i, j \in 1..n : s[i].id = s[j].id => i = j
  BY DEF GoodList
<1>9. ToSet(t) = {t[i] : i \in 1..(n - 1)}
  BY <1>4, ItemsAre
<1>10. ToSet(t) = ToSet(s) \ {s[k]}
  <2>1. ASSUME NEW x \in ToSet(t) PROVE x \in ToSet(s) \ {s[k]}
    <3>1. PICK i \in 1..(n - 1) : x = t[i]
      BY <1>9
    <3>2. At(i) \in 1..n /\ At(i) # k /\ x = s[At(i)]
      BY <1>5, <3>1
    <3>3. s[At(i)] # s[k]
      BY <1>8, <3>2
    <3>4. QED
      BY <1>1, <3>2, <3>3
  <2>2. ASSUME NEW x \in ToSet(s) \ {s[k]} PROVE x \in ToSet(t)
    <3>1. PICK j \in 1..n : x = s[j] /\ j # k
      BY <1>1
    <3>2. PICK i \in 1..(n - 1) : At(i) = j
      BY <1>7, <3>1
    <3>3. QED
      BY <1>5, <1>9, <3>1, <3>2
  <2>3. QED
    BY <2>1, <2>2
<1>11. \A i, j \in 1..Len(t) : t[i].id = t[j].id => i = j
  <2>1. ASSUME NEW i \in 1..(n - 1), NEW j \in 1..(n - 1), t[i].id = t[j].id PROVE i = j
    BY <1>5, <1>6, <1>8, <2>1
  <2>2. QED
    BY <1>4, <2>1
<1>12. QED
  BY <1>4, <1>10, <1>11 DEF GoodList, t

-----------------------------------------------------------------------------
(* The records a list stands for. *)

LEMMA AbstractIs ==
    ASSUME NEW d \in Record
    PROVE  /\ Abstract(d).name = d.name /\ Abstract(d).source = d.source
           /\ is_discovered(d) <=> d.source # "manual"
           /\ ~ is_discovered(d) =>
                 Abstract(d) = [source |-> "manual", id |-> <<d.id>>, name |-> d.name]
           /\ is_discovered(d) =>
                 Abstract(d) = [source |-> d.source, id |-> d.name, name |-> d.name]
BY DEF Abstract, is_discovered, DR!Manual, DR!Discovered

LEMMA OneManualOfAnId ==
    ASSUME NEW upto, NEW s, GoodList(s, upto), NEW d \in ToSet(s), NEW e \in ToSet(s),
           ~ is_discovered(d), Abstract(d) = Abstract(e)
    PROVE  d = e
<1>1. d \in Record /\ e \in Record
  BY ItemsAre DEF GoodList
<1>2. d.source = "manual" /\ e.source = "manual"
  BY <1>1, AbstractIs
<1>3. Abstract(d).id = <<d.id>> /\ Abstract(e).id = <<e.id>>
  BY <1>1, <1>2, AbstractIs
<1>4. <<d.id>>[1] = <<e.id>>[1]
  BY <1>3
<1>5. d.id = e.id
  BY <1>4
<1>6. QED
  BY <1>5, OneOfAnId

LEMMA ManualRemoved ==
    ASSUME NEW upto, NEW s, GoodList(s, upto), NEW t \in Seq(Record), NEW d \in ToSet(s),
           ~ is_discovered(d), ToSet(t) = ToSet(s) \ {d}
    PROVE  /\ Abstract(d) \in DR!Editable(Records(s))
           /\ Records(t) = Records(s) \ {Abstract(d)}
<1>1. s \in Seq(Record) /\ d \in Record
  BY ItemsAre DEF GoodList
<1>2. /\ Records(s) = {Abstract(e) : e \in ToSet(s)}
      /\ Records(t) = {Abstract(e) : e \in ToSet(s) \ {d}}
  BY <1>1, ListSets
<1>3. \A e \in ToSet(s) \ {d} : Abstract(e) # Abstract(d)
  BY OneManualOfAnId
<1>4. Abstract(d).source = "manual"
  BY <1>1, AbstractIs
<1>5. Abstract(d) \in Records(s)
  BY <1>2
<1>6. Abstract(d) \in DR!Editable(Records(s))
  BY <1>4, <1>5 DEF DR!Editable, DR!Of
<1>7. QED
  BY <1>2, <1>3, <1>6

LEMMA ManualReplaced ==
    ASSUME NEW upto, NEW s, GoodList(s, upto), NEW t \in Seq(Record), NEW d \in ToSet(s),
           ~ is_discovered(d), NEW e \in Record, ToSet(t) = (ToSet(s) \ {d}) \union {e}
    PROVE  /\ Abstract(d) \in DR!Editable(Records(s))
           /\ Records(t) = (Records(s) \ {Abstract(d)}) \union {Abstract(e)}
<1>1. s \in Seq(Record) /\ d \in Record
  BY ItemsAre DEF GoodList
<1>2. /\ Records(s) = {Abstract(x) : x \in ToSet(s)}
      /\ Records(t) = {Abstract(x) : x \in (ToSet(s) \ {d}) \union {e}}
  BY <1>1, ListSets
<1>3. \A x \in ToSet(s) \ {d} : Abstract(x) # Abstract(d)
  BY OneManualOfAnId
<1>4. Abstract(d).source = "manual"
  BY <1>1, AbstractIs
<1>5. Abstract(d) \in Records(s)
  BY <1>2
<1>6. Abstract(d) \in DR!Editable(Records(s))
  BY <1>4, <1>5 DEF DR!Editable, DR!Of
<1>7. Records(t) = (Records(s) \ {Abstract(d)}) \union {Abstract(e)}
  BY <1>2, <1>3
<1>8. QED
  BY <1>6, <1>7

LEMMA SameReplaced ==
    ASSUME NEW s \in Seq(Record), NEW t \in Seq(Record), NEW d \in ToSet(s),
           NEW e, Abstract(e) = Abstract(d), ToSet(t) = (ToSet(s) \ {d}) \union {e}
    PROVE  Records(t) = Records(s)
<1>1. /\ Records(s) = {Abstract(x) : x \in ToSet(s)}
      /\ Records(t) = {Abstract(x) : x \in (ToSet(s) \ {d}) \union {e}}
  BY ListSets
<1>2. QED
  BY <1>1

LEMMA OneAdded ==
    ASSUME NEW upto \in Nat, NEW s, GoodList(s, upto), NEW t \in Seq(Record), NEW d \in Record,
           d.id = upto + 1, ~ is_discovered(d), d.name \notin NamesIn(s),
           ToSet(t) = ToSet(s) \union {d}
    PROVE  /\ DR!MayAdd(Records(s), <<d.id>>, d.name)
           /\ Records(t) = DR!Added(Records(s), <<d.id>>, d.name)
<1>1. s \in Seq(Record) /\ \A e \in ToSet(s) : e \in Record
  BY ItemsAre DEF GoodList
<1>2. /\ Records(s) = {Abstract(e) : e \in ToSet(s)}
      /\ Records(t) = {Abstract(e) : e \in ToSet(s) \union {d}}
      /\ NamesIn(s) = {e.name : e \in ToSet(s)}
  BY <1>1, ListSets
<1>3. Abstract(d) = DR!Manual(<<d.id>>, d.name)
  BY DEF Abstract
<1>4. ASSUME NEW e \in ToSet(s) PROVE Abstract(e).id # <<d.id>> /\ Abstract(e).name # d.name
  <2>1. Abstract(e).name # d.name
    BY <1>1, <1>2, AbstractIs
  <2>2. CASE is_discovered(e)
    <3>1. Abstract(e).id = e.name
      BY <1>1, <2>2, AbstractIs
    <3>2. Len(e.name) \in Nat /\ Len(e.name) > 1
      BY UsableIsLong DEF GoodList
    <3>. DEFINE n == Len(e.name)
    <3>3. n # 1
      <4>1. n \in Nat /\ n > 1
        BY <3>2
      <4>. HIDE DEF n
      <4>2. QED
        BY <4>1
    <3>. DEFINE one == <<d.id>>
    <3>4. Len(one) = 1
      OBVIOUS
    <3>. HIDE DEF one
    <3>5. Abstract(e).id # one
      BY <3>1, <3>3, <3>4
    <3>6. QED
      BY <2>1, <3>5 DEF one
  <2>3. CASE ~ is_discovered(e)
    <3>1. Abstract(e).id = <<e.id>>
      BY <1>1, <2>3, AbstractIs
    <3>2. e.id \in 1..upto
      BY DEF GoodList
    <3>3. e.id # d.id
      BY <3>2
    <3>4. <<e.id>>[1] # <<d.id>>[1]
      BY <3>3
    <3>5. QED
      BY <2>1, <3>1, <3>4
  <2>4. QED
    BY <2>2, <2>3
<1>5. DR!MayAdd(Records(s), <<d.id>>, d.name)
  BY <1>2, <1>4 DEF DR!MayAdd, DR!NamesIn
<1>6. Records(t) = Records(s) \union {Abstract(d)}
  BY <1>2
<1>7. QED
  BY <1>3, <1>5, <1>6 DEF DR!Added

-----------------------------------------------------------------------------
(* What a request does to the list. *)

Rename(r, domains) ==
    \E o \in DR!Editable(Records(list)), n \in NamesIn(domains) :
        /\ Records(domains) = DR!Renamed(Records(list), o, n)
        /\ r.op = "update" /\ r.name = {n}

EditOf(r, domains) ==
    \/ Records(domains) = Records(list)
    \/ \E k \in DOMAIN domains :
          /\ DR!MayAdd(Records(list), <<domains[k].id>>, domains[k].name)
          /\ Records(domains) = DR!Added(Records(list), <<domains[k].id>>, domains[k].name)
    \/ Rename(r, domains)
    \/ \E o \in DR!Editable(Records(list)) : Records(domains) = Records(list) \ {o}

\* What was asked for is there.
Met(r, domains) ==
    /\ r.op = "create" => Only(r.name) \in NamesIn(domains)
    /\ r.op \in {"update", "toggle"} =>
          \E d \in ToSet(domains) :
             /\ d.id = r.id /\ d.name = Or(r.name, d.name)
             /\ d.address = Or(r.address, d.address)
             /\ d.enabled = Or(r.enabled, d.enabled)
    /\ r.op = "delete" => r.id \notin IdsIn(domains)

\* The list after a request that was carried out, or the list as it was.
Does(r, answer) ==
    /\ answer.told \in {"done", "taken", "error"} /\ {"list", "told"} \subseteq DOMAIN answer
    /\ \/ answer.list = list /\ answer.told # "done"
       \/ /\ GoodList(answer.list, issued + 1)
          /\ IdsIn(answer.list) \subseteq IdsIn(list) \union {issued + 1}
          /\ EditOf(r, answer.list) /\ Met(r, answer.list)

ListInv == GoodList(list, issued) /\ issued \in Nat

LEMMA OnlyIs == ASSUME NEW x PROVE Only({x}) = x
BY DEF Only

LEMMA OrIs == \A x, y : Or({x}, y) = x /\ Or({}, y) = y
BY OnlyIs DEF Or

LEMMA GoodLater ==
    ASSUME NEW s, NEW n \in Nat, NEW m \in Nat, n <= m, GoodList(s, n)
    PROVE  GoodList(s, m)
<1>1. \A id \in 1..n : id \in 1..m
  OBVIOUS
<1>2. QED
  BY <1>1 DEF GoodList

LEMMA Refused ==
    ASSUME NEW r
    PROVE  \A how \in {"taken", "missing", "managed"} : Does(r, Answer(Outcome(list, how)))
BY DEF Does, Answer, Outcome

LEMMA CreateDoes ==
    ASSUME ListInv, NEW name, Usable(name), NEW address \in Addresses
    PROVE  Does(Create(name, address), Local(list, Create(name, address)))
<1>. DEFINE r == Create(name, address)
            d == New(r, TRUE)
            t == Append(list, d)
<1>1. /\ r.op = "create" /\ r.name = {name} /\ r.address = {address}
  BY DEF Create, Request
<1>2. Only(r.name) = name /\ ~ Unusable(r)
  BY <1>1, OnlyIs DEF Unusable, Usable
<1>3. /\ d = [id |-> issued + 1, name |-> name, address |-> address, source |-> "manual",
               enabled |-> TRUE]
  <2>1. validate(Only(r.name)).name = name
    BY <1>2 DEF Usable
  <2>2. Or(r.address \ {""}, DefaultAddress) = address
    <3>1. r.address \ {""} = {address}
      BY <1>1, EditingAssumption
    <3>2. QED
      BY <3>1, OrIs
  <2>. HIDE DEF r
  <2>3. QED
    BY <2>1, <2>2 DEF New
<1>4. Local(list, r) = Answer(add(list, d))
  BY <1>1, <1>2 DEF Local
<1>. HIDE DEF r, d
<1>5. /\ d \in Record /\ d.name = name /\ d.id = issued + 1 /\ ~ is_discovered(d)
      /\ issued \in Nat /\ GoodList(list, issued)
  <2>1. issued + 1 \in Nat /\ name \in Seq(Labels)
    BY DEF ListInv, Usable
  <2>2. QED
    BY <1>3, <2>1 DEF Record, is_discovered, ListInv
<1>6. CASE by_name(list, name) # {}
  <2>1. add(list, d) = Outcome(list, "taken")
    BY <1>5, <1>6 DEF add
  <2>2. QED
    BY <1>4, <2>1, Refused DEF r
<1>7. CASE by_name(list, name) = {}
  <2>1. Local(list, r) = [list |-> t, told |-> "done"]
    BY <1>4, <1>5, <1>7 DEF add, Answer, Outcome
  <2>2. name \notin NamesIn(list)
    BY <1>5, <1>7, ByName
  <2>3. GoodList(t, issued + 1) /\ ToSet(t) = ToSet(list) \union {d}
    BY <1>5, Appended
  <2>. HIDE DEF t
  <2>4. /\ t \in Seq(Record) /\ list \in Seq(Record)
        /\ NamesIn(t) = {e.name : e \in ToSet(t)}
        /\ IdsIn(t) = {e.id : e \in ToSet(t)} /\ IdsIn(list) = {e.id : e \in ToSet(list)}
    BY <1>5, <2>3, ListSets DEF GoodList
  <2>5. /\ DR!MayAdd(Records(list), <<d.id>>, d.name)
        /\ Records(t) = DR!Added(Records(list), <<d.id>>, d.name)
    BY <1>5, <2>2, <2>3, <2>4, OneAdded
  <2>6. PICK k \in DOMAIN t : t[k] = d
    BY <2>3, <2>4, ItemsAre
  <2>7. EditOf(r, t)
    BY <2>5, <2>6 DEF EditOf
  <2>8. Met(r, t)
    <3>1. Only(r.name) \in NamesIn(t)
      BY <1>2, <1>5, <2>3, <2>4
    <3>2. QED
      BY <1>1, <3>1 DEF Met
  <2>9. IdsIn(t) \subseteq IdsIn(list) \union {issued + 1}
    BY <1>5, <2>3, <2>4
  <2>10. Does(r, [list |-> t, told |-> "done"])
    BY <2>3, <2>7, <2>8, <2>9 DEF Does
  <2>11. QED
    BY <2>1, <2>10 DEF r
<1>8. QED
  BY <1>6, <1>7

\* A record in place of another of the same id.
LEMMA ReplacedDoes ==
    ASSUME ListInv, NEW k \in 1..Len(list), NEW e \in Record, Usable(e.name),
           e.id = list[k].id
    PROVE  \A t : t = [list EXCEPT ![k] = e] =>
              /\ GoodList(t, issued + 1) /\ IdsIn(t) \subseteq IdsIn(list) \union {issued + 1}
              /\ t \in Seq(Record) /\ list[k] \in ToSet(list)
              /\ ToSet(t) = (ToSet(list) \ {list[k]}) \union {e}
<1>. DEFINE t == [list EXCEPT ![k] = e]
<1>0. list \in Seq(Record) /\ issued \in Nat
  BY DEF ListInv, GoodList
<1>1. list \in Seq(Record) /\ list[k] \in ToSet(list) /\ issued \in Nat
  <2>1. ToSet(list) = {list[i] : i \in 1..Len(list)}
    BY <1>0, ItemsAre
  <2>2. QED
    BY <1>0, <2>1
<1>2. GoodList(t, issued) /\ ToSet(t) = (ToSet(list) \ {list[k]}) \union {e}
  <2>1. issued \in Nat /\ GoodList(list, issued)
    BY DEF ListInv
  <2>2. /\ t \in Seq(Record) /\ Len(t) = Len(list) /\ t[k] = e
        /\ \A i \in 1..Len(list) : i # k => t[i] = list[i]
    BY <1>0
  <2>. HIDE DEF t
  <2>3. QED
    BY <2>1, <2>2, Replaced
<1>. HIDE DEF t
<1>3. GoodList(t, issued + 1)
  BY <1>1, <1>2, GoodLater
<1>4. t \in Seq(Record)
  BY <1>2 DEF GoodList
<1>5. IdsIn(t) = {d.id : d \in ToSet(t)} /\ IdsIn(list) = {d.id : d \in ToSet(list)}
  BY <1>1, <1>4, ListSets
<1>6. IdsIn(t) \subseteq IdsIn(list)
  BY <1>1, <1>2, <1>5
<1>7. QED
  BY <1>1, <1>2, <1>3, <1>4, <1>6 DEF t

LEMMA UpdateDoes ==
    ASSUME ListInv, NEW id, NEW names, \A n \in names : Usable(n), NEW address \in Addresses,
           names = {} \/ \E n : names = {n}
    PROVE  Does(Update(id, names, address), Local(list, Update(id, names, address)))
<1>. DEFINE r == Update(id, names, address)
            k == Min(with_id(list, id))
            d == list[k]
            e == [d EXCEPT !.name = Or(r.name, d.name), !.address = Or(r.address, d.address),
                           !.enabled = Or(r.enabled, d.enabled)]
            t == [list EXCEPT ![k] = e]
<1>1. /\ r.op = "update" /\ r.id = id /\ r.name = names /\ r.address = {address}
      /\ r.enabled = {}
  BY DEF Update, Request
<1>2. Local(list, r) = Answer(update(list, r))
  BY <1>1 DEF Local
<1>. HIDE DEF r
<1>3. CASE with_id(list, id) = {}
  <2>1. update(list, r) = Outcome(list, "missing")
    BY <1>1, <1>3 DEF update
  <2>2. QED
    BY <1>2, <2>1, Refused DEF r
<1>4. CASE with_id(list, id) # {} /\ is_discovered(d)
  <2>1. update(list, r) = Outcome(list, "managed")
    BY <1>1, <1>4 DEF update
  <2>2. QED
    BY <1>2, <2>1, Refused DEF r
<1>5. CASE with_id(list, id) # {} /\ ~ is_discovered(d)
  <2>1. Local(list, r) = [list |-> t, told |-> "done"]
    BY <1>1, <1>2, <1>5 DEF update, Answer, Outcome
  <2>2. k \in 1..Len(list) /\ d.id = id /\ d \in ToSet(list)
    BY <1>5, WithId DEF ListInv
  <2>3. d \in Record /\ Usable(d.name) /\ list \in Seq(Record)
    BY <2>2, ItemsAre DEF ListInv, GoodList
  <2>. DEFINE name == Or(names, d.name)
  <2>4. /\ Usable(name)
        /\ names = {} => name = d.name
        /\ \A n : names = {n} => name = n
    <3>1. CASE names = {}
      BY <2>3, <3>1, OrIs
    <3>2. CASE \E n : names = {n}
      <4>1. PICK n : names = {n}
        BY <3>2
      <4>2. name = n /\ Usable(n)
        BY <4>1, OrIs
      <4>. HIDE DEF name
      <4>3. QED
        BY <4>1, <4>2
    <3>3. QED
      BY <3>1, <3>2
  <2>. HIDE DEF name
  <2>5. Or(r.name, d.name) = name /\ Or(r.address, d.address) = address
        /\ Or(r.enabled, d.enabled) = d.enabled
    BY <1>1, OrIs DEF name
  <2>. HIDE DEF k, d
  <2>6. /\ e \in Record /\ e.id = id /\ e.name = name /\ e.address = address
        /\ e.enabled = d.enabled /\ e.source = d.source
    <3>1. e = [d EXCEPT !.name = name, !.address = address, !.enabled = d.enabled]
      BY <2>5
    <3>2. name \in Seq(Labels)
      BY <2>4 DEF Usable
    <3>. HIDE DEF e
    <3>2a. d \in Record
      BY <2>3
    <3>3. /\ e \in Record /\ e.id = d.id /\ e.name = name /\ e.address = address
          /\ e.enabled = d.enabled /\ e.source = d.source
      BY <3>1, <3>2, <3>2a DEF Record
    <3>4. QED
      BY <2>2, <3>3
  <2>. HIDE DEF e
  <2>7. /\ GoodList(t, issued + 1) /\ IdsIn(t) \subseteq IdsIn(list) \union {issued + 1}
        /\ t \in Seq(Record) /\ ToSet(t) = (ToSet(list) \ {d}) \union {e}
    <3>1. e \in Record /\ Usable(e.name) /\ e.id = list[k].id
      BY <2>2, <2>4, <2>6 DEF d
    <3>2. d = list[k]
      BY DEF d
    <3>3. /\ GoodList(t, issued + 1) /\ IdsIn(t) \subseteq IdsIn(list) \union {issued + 1}
          /\ t \in Seq(Record) /\ ToSet(t) = (ToSet(list) \ {list[k]}) \union {e}
      BY <2>2, <3>1, ReplacedDoes
    <3>4. QED
      BY <3>2, <3>3
  <2>. HIDE DEF t
  <2>8. /\ Abstract(d) \in DR!Editable(Records(list))
        /\ Records(t) = (Records(list) \ {Abstract(d)}) \union {Abstract(e)}
    BY <1>5, <2>2, <2>6, <2>7, ManualReplaced DEF ListInv
  <2>9. /\ Abstract(d) = [source |-> "manual", id |-> <<id>>, name |-> d.name]
        /\ Abstract(e) = [source |-> "manual", id |-> <<id>>, name |-> name]
    BY <1>5, <2>2, <2>3, <2>6, AbstractIs
  <2>10. EditOf(r, t)
    <3>1. CASE names = {}
      <4>1. Records(t) = Records(list)
        <5>1. Abstract(e) = Abstract(d)
          BY <2>4, <2>9, <3>1
        <5>2. Abstract(d) \in Records(list)
          BY <2>8 DEF DR!Editable, DR!Of
        <5>3. QED
          BY <2>8, <5>1, <5>2
      <4>2. QED
        BY <4>1 DEF EditOf
    <3>2. CASE \E n : names = {n}
      <4>1. names = {name}
        BY <2>4, <3>2
      <4>2. name \in NamesIn(t)
        BY <2>6, <2>7, ListSets
      <4>3. Abstract(e) = [Abstract(d) EXCEPT !.name = name]
        BY <2>9
      <4>4. Records(t) = DR!Renamed(Records(list), Abstract(d), name)
        BY <2>8, <4>3 DEF DR!Renamed
      <4>5. QED
        BY <1>1, <2>8, <4>1, <4>2, <4>4 DEF EditOf, Rename
    <3>3. QED
      BY <3>1, <3>2
  <2>11. Met(r, t)
    <3>1. e \in ToSet(t)
      BY <2>7
    <3>2. /\ e.id = r.id /\ e.name = Or(r.name, e.name)
          /\ e.address = Or(r.address, e.address) /\ e.enabled = Or(r.enabled, e.enabled)
      <4>1. Or(r.name, e.name) = name
        <5>1. CASE names = {}
          BY <1>1, <2>6, <5>1, OrIs
        <5>2. CASE \E n : names = {n}
          <6>1. PICK n : names = {n}
            BY <5>2
          <6>2. name = n
            BY <2>4, <6>1
          <6>3. QED
            BY <1>1, <6>1, <6>2, OrIs
        <5>3. QED
          BY <5>1, <5>2
      <4>2. Or(r.address, e.address) = address /\ Or(r.enabled, e.enabled) = e.enabled
        BY <1>1, OrIs
      <4>3. QED
        BY <1>1, <2>2, <2>6, <4>1, <4>2
    <3>3. QED
      BY <1>1, <3>1, <3>2 DEF Met
  <2>12. Does(r, [list |-> t, told |-> "done"])
    BY <2>7, <2>10, <2>11 DEF Does
  <2>13. QED
    BY <2>1, <2>12 DEF r
<1>6. QED
  BY <1>3, <1>4, <1>5

LEMMA ToggleDoes ==
    ASSUME ListInv, NEW id, NEW enabled, enabled = {} \/ \E b \in BOOLEAN : enabled = {b}
    PROVE  Does(Toggle(id, enabled), Local(list, Toggle(id, enabled)))
<1>. DEFINE r == Toggle(id, enabled)
            k == Min(with_id(list, id))
            d == list[k]
            b == Or(enabled, ~ d.enabled)
            e == [d EXCEPT !.enabled = b]
            t == [list EXCEPT ![k] = e]
<1>1. /\ r.op = "toggle" /\ r.id = id /\ r.name = {} /\ r.address = {} /\ r.enabled = enabled
  BY DEF Toggle, Request
<1>2. Local(list, r) = Answer(toggle(list, r))
  BY <1>1 DEF Local
<1>. HIDE DEF r
<1>3. CASE with_id(list, id) = {}
  <2>1. toggle(list, r) = Outcome(list, "missing")
    BY <1>1, <1>3 DEF toggle
  <2>2. QED
    BY <1>2, <2>1, Refused DEF r
<1>4. CASE with_id(list, id) # {}
  <2>1. Local(list, r) = [list |-> t, told |-> "done"]
    BY <1>1, <1>2, <1>4 DEF toggle, Answer, Outcome
  <2>2. k \in 1..Len(list) /\ d.id = id /\ d \in ToSet(list)
    BY <1>4, WithId DEF ListInv
  <2>3. d \in Record /\ Usable(d.name) /\ list \in Seq(Record)
    BY <2>2, ItemsAre DEF ListInv, GoodList
  <2>. HIDE DEF k, d
  <2>4. b \in BOOLEAN
    <3>1. d.enabled \in BOOLEAN
      BY <2>3 DEF Record
    <3>2. CASE enabled = {}
      BY <3>2, OrIs
    <3>3. CASE \E x \in BOOLEAN : enabled = {x}
      BY <3>3, OrIs
    <3>4. QED
      BY <3>2, <3>3
  <2>. HIDE DEF b
  <2>5. /\ e \in Record /\ e.id = id /\ e.name = d.name /\ e.address = d.address
        /\ e.enabled = b /\ e.source = d.source
    BY <2>2, <2>3, <2>4 DEF Record
  <2>. HIDE DEF e
  <2>6. /\ GoodList(t, issued + 1) /\ IdsIn(t) \subseteq IdsIn(list) \union {issued + 1}
        /\ t \in Seq(Record) /\ ToSet(t) = (ToSet(list) \ {d}) \union {e}
    BY <2>2, <2>3, <2>5, ReplacedDoes DEF d
  <2>. HIDE DEF t
  <2>7. Abstract(e) = Abstract(d)
    BY <2>2, <2>3, <2>5, AbstractIs
  <2>8. Records(t) = Records(list)
    BY <2>2, <2>3, <2>6, <2>7, SameReplaced
  <2>9. Met(r, t)
    <3>1. e \in ToSet(t) /\ e.id = r.id
      BY <1>1, <2>5, <2>6
    <3>2. e.name = Or(r.name, e.name) /\ e.address = Or(r.address, e.address)
      BY <1>1, OrIs
    <3>3. e.enabled = Or(r.enabled, e.enabled)
      <4>1. CASE enabled = {}
        BY <1>1, <4>1, OrIs
      <4>2. CASE \E x \in BOOLEAN : enabled = {x}
        BY <1>1, <2>5, <4>2, OrIs DEF b
      <4>3. QED
        BY <4>1, <4>2
    <3>4. QED
      BY <1>1, <3>1, <3>2, <3>3 DEF Met
  <2>10. Does(r, [list |-> t, told |-> "done"])
    BY <2>6, <2>8, <2>9 DEF Does, EditOf
  <2>11. QED
    BY <2>1, <2>10 DEF r
<1>5. QED
  BY <1>3, <1>4

LEMMA DeleteDoes ==
    ASSUME ListInv, NEW id
    PROVE  Does(Delete(id), Local(list, Delete(id)))
<1>. DEFINE r == Delete(id)
            k == Min(with_id(list, id))
            d == list[k]
            t == RemoveAt(list, k)
<1>1. r.op = "delete" /\ r.id = id
  BY DEF Delete, Request
<1>2. Local(list, r) = Answer(delete(list, r))
  BY <1>1 DEF Local
<1>. HIDE DEF r
<1>3. CASE with_id(list, id) = {}
  <2>1. delete(list, r) = Outcome(list, "missing")
    BY <1>1, <1>3 DEF delete
  <2>2. QED
    BY <1>2, <2>1, Refused DEF r
<1>4. CASE with_id(list, id) # {} /\ is_discovered(d)
  <2>1. delete(list, r) = Outcome(list, "managed")
    BY <1>1, <1>4 DEF delete
  <2>2. QED
    BY <1>2, <2>1, Refused DEF r
<1>5. CASE with_id(list, id) # {} /\ ~ is_discovered(d)
  <2>1. Local(list, r) = [list |-> t, told |-> "done"]
    BY <1>1, <1>2, <1>5 DEF delete, Answer, Outcome
  <2>2. k \in 1..Len(list) /\ d.id = id /\ d \in ToSet(list)
    BY <1>5, WithId DEF ListInv
  <2>3. list \in Seq(Record) /\ issued \in Nat /\ GoodList(list, issued)
    BY DEF ListInv, GoodList
  <2>. HIDE DEF k
  <2>4. GoodList(t, issued) /\ ToSet(t) = ToSet(list) \ {d}
    BY <2>2, <2>3, Removed
  <2>. HIDE DEF t, d
  <2>5. GoodList(t, issued + 1) /\ t \in Seq(Record)
    <3>1. GoodList(t, issued + 1)
      BY <2>3, <2>4, GoodLater
    <3>2. QED
      BY <3>1 DEF GoodList
  <2>6. IdsIn(t) = {x.id : x \in ToSet(t)} /\ IdsIn(list) = {x.id : x \in ToSet(list)}
    BY <2>3, <2>5, ListSets
  <2>7. id \notin IdsIn(t) /\ IdsIn(t) \subseteq IdsIn(list)
    <3>1. \A x \in ToSet(list) : x.id = id => x = d
      BY <2>2, <2>3, OneOfAnId
    <3>2. QED
      BY <2>4, <2>6, <3>1
  <2>8. /\ Abstract(d) \in DR!Editable(Records(list))
        /\ Records(t) = Records(list) \ {Abstract(d)}
    BY <1>5, <2>2, <2>3, <2>4, <2>5, ManualRemoved
  <2>9. EditOf(r, t) /\ Met(r, t)
    BY <1>1, <2>7, <2>8 DEF EditOf, Met
  <2>10. Does(r, [list |-> t, told |-> "done"])
    BY <2>5, <2>7, <2>9 DEF Does
  <2>11. QED
    BY <2>1, <2>10 DEF r
<1>6. QED
  BY <1>3, <1>4, <1>5

-----------------------------------------------------------------------------
(* What the interfaces ask for can be stored. *)

GoodRequest(r) ==
    \/ \E name, address : Usable(name) /\ address \in Addresses /\ r = Create(name, address)
    \/ \E id, names, address :
          /\ names = {} \/ \E n : names = {n} /\ Usable(n)
          /\ address \in Addresses /\ r = Update(id, names, address)
    \/ \E id, enabled :
          /\ enabled = {} \/ \E b \in BOOLEAN : enabled = {b}
          /\ r = Toggle(id, enabled)
    \/ \E id : r = Delete(id)

LEMMA GoodDoes ==
    ASSUME ListInv, NEW r, GoodRequest(r)
    PROVE  Does(r, Local(list, r)) /\ Sound(r)
<1>1. ASSUME NEW name, NEW address, Usable(name), address \in Addresses, r = Create(name, address)
      PROVE  Does(r, Local(list, r)) /\ Sound(r)
  BY <1>1, CreateDoes, SoundRequests
<1>2. ASSUME NEW id, NEW names, NEW address, names = {} \/ \E n : names = {n} /\ Usable(n),
             address \in Addresses, r = Update(id, names, address)
      PROVE  Does(r, Local(list, r)) /\ Sound(r)
  <2>1. names = {} \/ \E n : names = {n}
    BY <1>2
  <2>2. \A n \in names : Usable(n)
    BY <1>2
  <2>3. Does(r, Local(list, r))
    BY <1>2, <2>1, <2>2, UpdateDoes
  <2>4. r.address # {} /\ r.op = "update" /\ r.name = names
    BY <1>2 DEF Update, Request
  <2>5. r = Request(r.op, r.id, r.name, r.address, r.enabled)
    BY <1>2 DEF Update, Request
  <2>6. Sound(r)
    BY <2>2, <2>4, <2>5 DEF Sound, Usable
  <2>7. QED
    BY <2>3, <2>6
<1>3. ASSUME NEW id, NEW enabled, enabled = {} \/ \E b \in BOOLEAN : enabled = {b},
             r = Toggle(id, enabled)
      PROVE  Does(r, Local(list, r)) /\ Sound(r)
  BY <1>3, ToggleDoes, SoundRequests
<1>4. ASSUME NEW id, r = Delete(id) PROVE Does(r, Local(list, r)) /\ Sound(r)
  BY <1>4, DeleteDoes, SoundRequests
<1>5. QED
  BY <1>1, <1>2, <1>3, <1>4 DEF GoodRequest

\* Through either backend, the answer lost or not.
LEMMA CallDoes ==
    ASSUME ListInv, NEW r, GoodRequest(r), NEW backend, NEW answer \in Call(backend, r)
    PROVE  Does(r, answer)
<1>. DEFINE done == Local(list, r)
<1>1. Does(r, done) /\ Http(list, r) = done
  BY GoodDoes, SoundAgrees
<1>. HIDE DEF done
<1>2. answer \in {done, Invalid(list), [done EXCEPT !.told = "error"]}
  BY <1>1 DEF Call, done
<1>3. CASE answer = Invalid(list)
  BY <1>3 DEF Invalid, Does
<1>4. CASE answer = [done EXCEPT !.told = "error"]
  <2>1. {"list", "told"} \subseteq DOMAIN done
    BY <1>1 DEF Does
  <2>2. answer.list = done.list /\ answer.told = "error" /\ DOMAIN answer = DOMAIN done
    BY <1>4, <2>1
  <2>3. QED
    BY <1>1, <2>1, <2>2 DEF Does
<1>5. QED
  BY <1>1, <1>2, <1>3, <1>4

\* An address as it is typed.
LEMMA AddressIsGiven ==
    /\ \A address \in TypedAddresses : TypedAddress(address) \in Addresses
    /\ GivenAddresses \subseteq Addresses
BY EditingAssumption DEF TypedAddress, GivenAddresses

LEMMA ResultIsUsable ==
    ASSUME NEW raw \in Typed, validate(raw).ok
    PROVE  /\ Usable(result_values(raw)) /\ result_values(raw) = validate(raw).name
           /\ is_wildcard(validate(raw).name) => Usable(apex_of(validate(raw).name))
<1>1. raw \in Seq(Labels)
  BY EditingAssumption
<1>2. Usable(validate(raw).name)
  BY <1>1, TypedIsUsable
<1>3. QED
  BY <1>2, ApexIsUsable DEF result_values

LEMMA ConsoleIsGood ==
    ASSUME NEW r \in ConsoleRequests
    PROVE  GoodRequest(r) /\ ~ (r.op = "update" /\ r.name # {})
<1>1. CASE r \in ConsoleCreates
  <2>1. PICK raw \in UsableNames, address \in GivenAddresses :
            r = Create(result_values(raw), address)
    BY <1>1 DEF ConsoleCreates
  <2>2. Usable(result_values(raw)) /\ address \in Addresses
    BY ResultIsUsable, AddressIsGiven DEF UsableNames
  <2>3. r.op = "create"
    BY <2>1 DEF Create, Request
  <2>4. QED
    BY <2>1, <2>2, <2>3 DEF GoodRequest
<1>2. CASE r \in {Toggle(id, {}) : id \in IssuedIds}
  <2>1. PICK id : r = Toggle(id, {})
    BY <1>2
  <2>2. r.op = "toggle"
    BY <2>1 DEF Toggle, Request
  <2>3. QED
    BY <2>1, <2>2 DEF GoodRequest
<1>3. CASE r \in {Update(id, {}, address) : id \in IssuedIds, address \in GivenAddresses}
  <2>1. PICK id \in IssuedIds, address \in GivenAddresses : r = Update(id, {}, address)
    BY <1>3
  <2>2. r.name = {} /\ address \in Addresses
    BY <2>1, AddressIsGiven DEF Update, Request
  <2>3. QED
    BY <2>1, <2>2 DEF GoodRequest
<1>4. CASE r \in {Delete(id) : id \in IssuedIds}
  <2>1. PICK id : r = Delete(id)
    BY <1>4
  <2>2. r.op = "delete"
    BY <2>1 DEF Delete, Request
  <2>3. QED
    BY <2>1, <2>2 DEF GoodRequest
<1>5. QED
  BY <1>1, <1>2, <1>3, <1>4 DEF ConsoleRequests, ConsoleEdits

-----------------------------------------------------------------------------
(* The list after a change of any kind. *)

\* Only records that were there have the ids given out before.
Later(domains) ==
    \E u \in Nat :
        /\ issued <= u /\ GoodList(domains, u)
        /\ IdsIn(domains) \intersect (1..issued) \subseteq IdsIn(list)

LEMMA DoesLater == ASSUME ListInv, NEW r, NEW answer, Does(r, answer) PROVE Later(answer.list)
<1>1. issued \in Nat /\ GoodList(list, issued)
  BY DEF ListInv
<1>2. CASE answer.list = list
  BY <1>1, <1>2 DEF Later
<1>3. CASE /\ GoodList(answer.list, issued + 1)
           /\ IdsIn(answer.list) \subseteq IdsIn(list) \union {issued + 1}
  <2>1. issued + 1 \in Nat /\ issued <= issued + 1 /\ issued + 1 \notin 1..issued
    BY <1>1
  <2>2. IdsIn(answer.list) \intersect (1..issued) \subseteq IdsIn(list)
    BY <1>3, <2>1
  <2>3. QED
    BY <1>3, <2>1, <2>2 DEF Later
<1>4. QED
  BY <1>2, <1>3 DEF Does

LEMMA BecomesGood ==
    ASSUME ListInv, NEW domains, Later(domains), Becomes(domains)
    PROVE  /\ ListInv' /\ issued <= issued' /\ issued' <= MaxIssued
           /\ list' = domains
           /\ IdsIn(list') \intersect (1..issued) \subseteq IdsIn(list)
<1>1. PICK u \in Nat : /\ issued <= u /\ GoodList(domains, u)
                       /\ IdsIn(domains) \intersect (1..issued) \subseteq IdsIn(list)
  BY DEF Later
<1>2. /\ list' = domains /\ issued' <= MaxIssued
      /\ issued' = Max({issued} \union IdsIn(domains))
  BY DEF Becomes
<1>3. issued \in Nat
  BY DEF ListInv
<1>4. domains \in Seq(Record)
  BY <1>1 DEF GoodList
<1>5. IdsIn(domains) = {d.id : d \in ToSet(domains)}
  BY <1>4, ListSets
<1>. DEFINE S == {issued} \union IdsIn(domains)
<1>6. \A id \in IdsIn(domains) : id \in 1..u
  BY <1>1, <1>5 DEF GoodList
<1>7. S \in SUBSET (0..u) /\ S # {}
  BY <1>1, <1>3, <1>6
<1>8. Max(S) \in S /\ \A y \in S : Max(S) >= y
  <2>. HIDE DEF S
  <2>1. QED
    BY <1>7, MaxIsGreatest
<1>9. issued' \in 0..u /\ \A y \in S : issued' >= y
  BY <1>2, <1>7, <1>8
<1>10. issued' \in Nat /\ issued <= issued'
  BY <1>9
<1>11. \A d \in ToSet(domains) : Usable(d.name) /\ d.id \in 1..issued'
  <2>1. ASSUME NEW d \in ToSet(domains) PROVE Usable(d.name) /\ d.id \in 1..issued'
    <3>1. d.id \in S /\ d.id \in 1..u
      BY <1>5, <1>6
    <3>2. Usable(d.name)
      BY <1>1 DEF GoodList
    <3>. HIDE DEF S
    <3>3. QED
      BY <1>9, <1>10, <3>1, <3>2
  <2>2. QED
    BY <2>1
<1>12. GoodList(domains, issued')
  BY <1>1, <1>11 DEF GoodList
<1>13. QED
  BY <1>1, <1>2, <1>10, <1>12 DEF ListInv

-----------------------------------------------------------------------------
(* What a pass of an importer does to the list. *)

\* What the labels of a listing come to.
Wanted(wanted) ==
    /\ wanted \in Seq([name : Seq(Labels), address : Addresses])
    /\ \A w \in ToSet(wanted) : Usable(w.name)

LEMMA ListingIsWanted == ASSUME NEW listed \in Listings PROVE Wanted(containers_to_domains(listed))
<1>. DEFINE T == [name : Typed, address : Addresses]
            W == [name : Seq(Labels), address : Addresses]
            firsts == {i \in DOMAIN listed :
                         /\ validate(listed[i].name).ok
                         /\ \A j \in 1..(i - 1) :
                               normalise(listed[j].name) # normalise(listed[i].name)}
            usable == Sublist(listed, firsts)
            wanted == [i \in 1..Len(usable) |->
                         [name |-> normalise(usable[i].name), address |-> usable[i].address]]
<1>1. listed \in Seq(T)
  BY EditingAssumption
<1>2. containers_to_domains(listed) = wanted
  BY DEF containers_to_domains
<1>3. \A i \in firsts : validate(listed[i].name).ok
  OBVIOUS
<1>. HIDE DEF firsts, T
<1>4. usable \in Seq(T)
  BY <1>1, SublistIn
<1>5. \A k \in 1..Len(usable) : \E i \in firsts : i \in 1..Len(listed) /\ usable[k] = listed[i]
  BY <1>1, SublistFrom
<1>. HIDE DEF usable
<1>6. ASSUME NEW k \in 1..Len(usable)
      PROVE  wanted[k] \in W /\ Usable(wanted[k].name)
  <2>1. usable[k] \in T
    BY <1>4
  <2>2. usable[k].name \in Seq(Labels) /\ usable[k].address \in Addresses
    BY <2>1, EditingAssumption DEF T
  <2>3. validate(usable[k].name).ok
    BY <1>3, <1>5
  <2>4. Usable(validate(usable[k].name).name)
        /\ validate(usable[k].name).name = normalise(usable[k].name)
    BY <2>2, <2>3, TypedIsUsable
  <2>5. normalise(usable[k].name) \in Seq(Labels)
    BY <2>4 DEF Usable
  <2>6. QED
    BY <2>2, <2>4, <2>5
<1>7. Len(usable) \in Nat
  BY <1>4
<1>8. wanted \in Seq(W) /\ Len(wanted) = Len(usable)
  <2>1. \A k \in 1..Len(usable) : wanted[k] \in W
    BY <1>6
  <2>. HIDE DEF W
  <2>2. QED
    BY <1>7, <2>1
<1>. HIDE DEF wanted
<1>9. ToSet(wanted) = {wanted[i] : i \in 1..Len(wanted)}
  BY <1>8, ItemsAre
<1>10. \A w \in ToSet(wanted) : Usable(w.name)
  BY <1>6, <1>8, <1>9
<1>11. QED
  BY <1>2, <1>8, <1>10 DEF Wanted

\* The parts of reconcile.
Observed(d, wanted) == \E w \in ToSet(wanted) : w.name = d.name

Refreshed(d, source, wanted) ==
    IF d.source = source /\ ~ Clash(list, source, d.name)
    THEN [d EXCEPT !.address = (CHOOSE w \in ToSet(wanted) : w.name = d.name).address]
    ELSE d

Kept(source, wanted) ==
    Sublist(list, {k \in DOMAIN list : list[k].source = source => Observed(list[k], wanted)})

Fresh(source, wanted) ==
    Sublist(wanted, {k \in DOMAIN wanted :
        /\ ~ Clash(list, source, wanted[k].name)
        /\ \A d \in ToSet(list) : d.source = source => d.name # wanted[k].name})

AsNew(new, source) ==
    [k \in 1..Len(new) |->
        [id |-> issued + k, name |-> new[k].name, address |-> new[k].address,
         source |-> source, enabled |-> TRUE]]

AsOld(kept, source, wanted) ==
    [k \in 1..Len(kept) |-> Refreshed(kept[k], source, wanted)]

LEMMA ReconcileIs ==
    ASSUME NEW source, NEW wanted
    PROVE  reconcile(list, source, wanted, issued) =
              AsOld(Kept(source, wanted), source, wanted) \o AsNew(Fresh(source, wanted), source)
BY DEF reconcile, Observed, Refreshed, Kept, Fresh, AsNew, AsOld

LEMMA RefreshedIs ==
    ASSUME NEW source, NEW wanted, Wanted(wanted), NEW d \in Record,
           d.source = source => Observed(d, wanted)
    PROVE  LET e == Refreshed(d, source, wanted)
           IN  e \in Record /\ e.id = d.id /\ e.name = d.name /\ e.source = d.source
<1>1. CASE d.source = source /\ ~ Clash(list, source, d.name)
  <2>. DEFINE w == CHOOSE w \in ToSet(wanted) : w.name = d.name
  <2>1. w \in ToSet(wanted)
    BY <1>1 DEF Observed
  <2>2. w \in [name : Seq(Labels), address : Addresses]
    BY <2>1, ItemsAre DEF Wanted
  <2>. DEFINE address == w.address
  <2>3. address \in Addresses
    BY <2>2
  <2>4. Refreshed(d, source, wanted) = [d EXCEPT !.address = address]
    BY <1>1 DEF Refreshed
  <2>. HIDE DEF address
  <2>5. QED
    BY <2>3, <2>4 DEF Record
<1>2. CASE ~ (d.source = source /\ ~ Clash(list, source, d.name))
  BY <1>2 DEF Refreshed
<1>3. QED
  BY <1>1, <1>2

LEMMA KeptIs ==
    ASSUME ListInv, NEW source, NEW wanted
    PROVE  LET kept == Kept(source, wanted)
           IN  /\ kept \in Seq(Record)
               /\ ToSet(kept) =
                     {d \in ToSet(list) : d.source = source => Observed(d, wanted)}
               /\ \A j, k \in 1..Len(kept) : kept[j].id = kept[k].id => j = k
<1>. DEFINE places == {k \in DOMAIN list : list[k].source = source => Observed(list[k], wanted)}
            kept == Sublist(list, places)
<1>1. /\ list \in Seq(Record) /\ DOMAIN list = 1..Len(list)
      /\ \A j, k \in 1..Len(list) : list[j].id = list[k].id => j = k
  BY DEF ListInv, GoodList
<1>2. ToSet(list) = {list[i] : i \in 1..Len(list)}
  BY <1>1, ItemsAre
<1>3. \A k : k \in places <=>
          k \in 1..Len(list) /\ (list[k].source = source => Observed(list[k], wanted))
  BY <1>1
<1>4. Kept(source, wanted) = kept
  BY DEF Kept
<1>. HIDE DEF places
<1>5. kept \in Seq(Record)
  BY <1>1, SublistIn
<1>6. \A k \in 1..Len(kept) : \E i \in places : i \in 1..Len(list) /\ kept[k] = list[i]
  BY <1>1, SublistFrom
<1>7. \A i \in places : i \in 1..Len(list) => \E k \in 1..Len(kept) : kept[k] = list[i]
  BY <1>1, SublistHas
<1>8. \A j, k \in 1..Len(kept) : j < k =>
          \E g, h \in places : /\ g \in 1..Len(list) /\ h \in 1..Len(list) /\ g < h
                               /\ kept[j] = list[g] /\ kept[k] = list[h]
  BY <1>1, SublistInOrder
<1>. HIDE DEF kept
<1>9. ToSet(kept) = {kept[i] : i \in 1..Len(kept)}
  BY <1>5, ItemsAre
<1>10. ToSet(kept) = {d \in ToSet(list) : d.source = source => Observed(d, wanted)}
  <2>1. ASSUME NEW d \in ToSet(kept)
        PROVE  d \in ToSet(list) /\ (d.source = source => Observed(d, wanted))
    BY <1>2, <1>3, <1>6, <1>9
  <2>2. ASSUME NEW d \in ToSet(list), d.source = source => Observed(d, wanted)
        PROVE  d \in ToSet(kept)
    <3>1. PICK i \in 1..Len(list) : d = list[i]
      BY <1>2
    <3>2. i \in places
      BY <1>3, <2>2, <3>1
    <3>3. QED
      BY <1>7, <1>9, <3>1, <3>2
  <2>3. QED
    BY <2>1, <2>2
<1>11. ASSUME NEW j \in 1..Len(kept), NEW k \in 1..Len(kept), kept[j].id = kept[k].id, j # k
       PROVE  FALSE
  <2>1. ASSUME NEW a \in 1..Len(kept), NEW b \in 1..Len(kept), a < b PROVE kept[a].id # kept[b].id
    <3>1. PICK g \in places, h \in places :
              /\ g \in 1..Len(list) /\ h \in 1..Len(list) /\ g < h
              /\ kept[a] = list[g] /\ kept[b] = list[h]
      BY <1>8, <2>1
    <3>2. g # h
      BY <3>1
    <3>3. QED
      BY <1>1, <3>1, <3>2
  <2>2. j < k \/ k < j
    BY <1>11
  <2>3. QED
    BY <1>11, <2>1, <2>2
<1>12. QED
  BY <1>4, <1>5, <1>10, <1>11

\* Nobody has the name: no other source, since it would clash, nor the source itself.
LEMMA FreeIs ==
    ASSUME ListInv, NEW source, NEW name, Usable(name)
    PROVE  name \notin NamesIn(list) <=>
              /\ ~ Clash(list, source, name)
              /\ \A d \in ToSet(list) : d.source = source => d.name # name
<1>. DEFINE named == by_name(list, name)
<1>1. list \in Seq(Record) /\ GoodList(list, issued)
  BY DEF ListInv, GoodList
<1>2. /\ named = {k \in 1..Len(list) : list[k].name = name}
      /\ named = {} <=> name \notin NamesIn(list)
  BY <1>1, ByName
<1>3. NamesIn(list) = {d.name : d \in ToSet(list)} /\ \A k \in 1..Len(list) : list[k] \in ToSet(list)
  BY <1>1, ListSets, ItemsAre
<1>. HIDE DEF named
<1>4. CASE name \notin NamesIn(list)
  <2>1. ~ Clash(list, source, name)
    BY <1>2, <1>4 DEF Clash, named
  <2>2. QED
    BY <1>3, <1>4, <2>1
<1>5. CASE name \in NamesIn(list)
  <2>1. named # {} /\ named \in SUBSET Nat
    BY <1>1, <1>2, <1>5
  <2>2. Min(named) \in named
    BY <2>1, MinIsLeast
  <2>3. list[Min(named)].name = name /\ list[Min(named)] \in ToSet(list)
    BY <1>2, <1>3, <2>2
  <2>4. ~ Clash(list, source, name) => list[Min(named)].source = source
    BY <2>1 DEF Clash, named
  <2>5. QED
    BY <1>5, <2>3, <2>4
<1>6. QED
  BY <1>4, <1>5

LEMMA FreshIs ==
    ASSUME ListInv, NEW source, NEW wanted, Wanted(wanted)
    PROVE  LET new == Fresh(source, wanted)
           IN  /\ new \in Seq([name : Seq(Labels), address : Addresses])
               /\ ToSet(new) = {w \in ToSet(wanted) : w.name \notin NamesIn(list)}
<1>. DEFINE W == [name : Seq(Labels), address : Addresses]
            places == {k \in DOMAIN wanted :
                         /\ ~ Clash(list, source, wanted[k].name)
                         /\ \A d \in ToSet(list) : d.source = source => d.name # wanted[k].name}
            new == Sublist(wanted, places)
<1>1. wanted \in Seq(W) /\ DOMAIN wanted = 1..Len(wanted)
  BY DEF Wanted
<1>2. Fresh(source, wanted) = new
  BY DEF Fresh
<1>. HIDE DEF W
<1>3. ToSet(wanted) = {wanted[i] : i \in 1..Len(wanted)}
  BY <1>1, ItemsAre
<1>4. \A k : k \in places <=> k \in 1..Len(wanted) /\ wanted[k].name \notin NamesIn(list)
  <2>1. \A k \in 1..Len(wanted) : Usable(wanted[k].name)
    BY <1>3 DEF Wanted
  <2>2. \A k \in 1..Len(wanted) :
            wanted[k].name \notin NamesIn(list) <=>
              /\ ~ Clash(list, source, wanted[k].name)
              /\ \A d \in ToSet(list) : d.source = source => d.name # wanted[k].name
    BY <2>1, FreeIs
  <2>3. QED
    BY <1>1, <2>2
<1>. HIDE DEF places
<1>5. new \in Seq(W)
  BY <1>1, SublistIn
<1>6. \A k \in 1..Len(new) : \E i \in places : i \in 1..Len(wanted) /\ new[k] = wanted[i]
  BY <1>1, SublistFrom
<1>7. \A i \in places : i \in 1..Len(wanted) => \E k \in 1..Len(new) : new[k] = wanted[i]
  BY <1>1, SublistHas
<1>. HIDE DEF new
<1>8. ToSet(new) = {new[i] : i \in 1..Len(new)}
  BY <1>5, ItemsAre
<1>9. ToSet(new) = {w \in ToSet(wanted) : w.name \notin NamesIn(list)}
  <2>1. ASSUME NEW w \in ToSet(new) PROVE w \in ToSet(wanted) /\ w.name \notin NamesIn(list)
    BY <1>3, <1>4, <1>6, <1>8
  <2>2. ASSUME NEW w \in ToSet(wanted), w.name \notin NamesIn(list) PROVE w \in ToSet(new)
    <3>1. PICK i \in 1..Len(wanted) : w = wanted[i]
      BY <1>3
    <3>2. i \in places
      BY <1>4, <2>2, <3>1
    <3>3. QED
      BY <1>7, <1>8, <3>1, <3>2
  <2>3. QED
    BY <2>1, <2>2
<1>10. QED
  BY <1>2, <1>5, <1>9 DEF W

LEMMA AsNewIs ==
    ASSUME issued \in Nat, NEW source \in Importers,
           NEW new \in Seq([name : Seq(Labels), address : Addresses])
    PROVE  LET b == AsNew(new, source)
           IN  /\ b \in Seq(Record) /\ Len(b) = Len(new)
               /\ \A k \in 1..Len(new) :
                     b[k].id = issued + k /\ b[k].name = new[k].name /\ b[k].source = source
<1>. DEFINE item(k) == [id |-> issued + k, name |-> new[k].name, address |-> new[k].address,
                        source |-> source, enabled |-> TRUE]
            b == [k \in 1..Len(new) |-> item(k)]
<1>1. AsNew(new, source) = b
  BY DEF AsNew
<1>2. ASSUME NEW k \in 1..Len(new)
      PROVE  /\ item(k) \in Record /\ item(k).id = issued + k /\ item(k).name = new[k].name
             /\ item(k).source = source
  <2>1. new[k].name \in Seq(Labels) /\ new[k].address \in Addresses
    <3>. DEFINE W == [name : Seq(Labels), address : Addresses]
    <3>1. \A w \in W : w.name \in Seq(Labels) /\ w.address \in Addresses
      OBVIOUS
    <3>2. new \in Seq(W)
      OBVIOUS
    <3>. HIDE DEF W
    <3>3. new[k] \in W
      BY <3>2
    <3>4. QED
      BY <3>1, <3>3
  <2>2. issued + k \in Nat
    OBVIOUS
  <2>3. QED
    BY <2>1, <2>2 DEF Record
<1>3. Len(new) \in Nat
  OBVIOUS
<1>. HIDE DEF item
<1>4. b \in Seq(Record) /\ Len(b) = Len(new) /\ \A k \in 1..Len(new) : b[k] = item(k)
  BY <1>2, <1>3
<1>. HIDE DEF b
<1>5. QED
  BY <1>1, <1>2, <1>4

LEMMA Joined ==
    ASSUME NEW a \in Seq(Record), NEW b \in Seq(Record),
           \A j, k \in 1..Len(a) : a[j].id = a[k].id => j = k,
           \A j, k \in 1..Len(b) : b[j].id = b[k].id => j = k,
           \A j \in 1..Len(a), k \in 1..Len(b) : a[j].id # b[k].id
    PROVE  LET t == a \o b
           IN  /\ t \in Seq(Record) /\ ToSet(t) = ToSet(a) \union ToSet(b)
               /\ \A j, k \in 1..Len(t) : t[j].id = t[k].id => j = k
<1>. DEFINE t == a \o b
            m == Len(a)
            n == Len(b)
<1>1. /\ t \in Seq(Record) /\ Len(t) = m + n
      /\ \A i \in 1..m : t[i] = a[i]
      /\ \A i \in 1..n : t[m + i] = b[i]
  BY BothParts
<1>2. m \in Nat /\ n \in Nat
  OBVIOUS
<1>. HIDE DEF t
<1>3. /\ ToSet(t) = {t[i] : i \in 1..Len(t)} /\ ToSet(a) = {a[i] : i \in 1..Len(a)}
      /\ ToSet(b) = {b[i] : i \in 1..Len(b)}
  BY <1>1, ItemsAre
<1>4. ASSUME NEW i \in 1..(m + n)
      PROVE  \/ i \in 1..m /\ t[i] = a[i]
             \/ i - m \in 1..n /\ t[i] = b[i - m]
  <2>1. CASE i <= m
    BY <1>1, <1>2, <2>1
  <2>2. CASE ~ (i <= m)
    <3>1. i - m \in 1..n /\ m + (i - m) = i
      BY <1>2, <2>2
    <3>2. QED
      BY <1>1, <3>1
  <2>3. QED
    BY <2>1, <2>2
<1>5. /\ \A i \in 1..m : i \in 1..(m + n)
      /\ \A i \in 1..n : m + i \in 1..(m + n)
  BY <1>2
<1>6. ToSet(t) = ToSet(a) \union ToSet(b)
  <2>. HIDE DEF m, n
  <2>1. ASSUME NEW x \in ToSet(t) PROVE x \in ToSet(a) \union ToSet(b)
    <3>1. PICK i \in 1..(m + n) : x = t[i]
      BY <1>1, <1>3
    <3>2. QED
      BY <1>3, <1>4, <3>1 DEF m, n
  <2>2. ASSUME NEW x \in ToSet(a) PROVE x \in ToSet(t)
    <3>1. PICK i \in 1..m : x = a[i]
      BY <1>3 DEF m
    <3>2. QED
      BY <1>1, <1>3, <1>5, <3>1
  <2>3. ASSUME NEW x \in ToSet(b) PROVE x \in ToSet(t)
    <3>1. PICK i \in 1..n : x = b[i]
      BY <1>3 DEF n
    <3>2. t[m + i] = x /\ m + i \in 1..Len(t)
      BY <1>1, <1>5, <3>1
    <3>3. QED
      BY <1>3, <3>2
  <2>4. QED
    BY <2>1, <2>2, <2>3
<1>7. ASSUME NEW j \in 1..(m + n), NEW k \in 1..(m + n), t[j].id = t[k].id PROVE j = k
  <2>1. CASE j \in 1..m /\ t[j] = a[j]
    <3>1. CASE k \in 1..m /\ t[k] = a[k]
      BY <1>7, <2>1, <3>1
    <3>2. CASE k - m \in 1..n /\ t[k] = b[k - m]
      BY <1>7, <2>1, <3>2
    <3>3. QED
      BY <1>4, <3>1, <3>2
  <2>2. CASE j - m \in 1..n /\ t[j] = b[j - m]
    <3>1. CASE k \in 1..m /\ t[k] = a[k]
      <4>1. a[k].id = b[j - m].id
        BY <1>7, <2>2, <3>1
      <4>2. QED
        BY <2>2, <3>1, <4>1
    <3>2. CASE k - m \in 1..n /\ t[k] = b[k - m]
      <4>1. j - m = k - m
        BY <1>7, <2>2, <3>2
      <4>2. QED
        BY <1>2, <4>1
    <3>3. QED
      BY <1>4, <3>1, <3>2
  <2>3. QED
    BY <1>4, <2>1, <2>2
<1>8. QED
  BY <1>1, <1>6, <1>7 DEF t

\* Addresses and switches are nothing to the record it stands for.
LEMMA SameAbstract ==
    ASSUME NEW d \in Record, NEW e \in Record, d.id = e.id, d.name = e.name, d.source = e.source
    PROVE  Abstract(d) = Abstract(e)
BY DEF Abstract, is_discovered

LEMMA AsOldIs ==
    ASSUME NEW source, NEW wanted, Wanted(wanted), NEW kept \in Seq(Record),
           \A d \in ToSet(kept) : d.source = source => Observed(d, wanted)
    PROVE  LET a == AsOld(kept, source, wanted)
           IN  /\ a \in Seq(Record) /\ Len(a) = Len(kept)
               /\ \A k \in 1..Len(kept) :
                     /\ a[k].id = kept[k].id /\ a[k].name = kept[k].name
                     /\ Abstract(a[k]) = Abstract(kept[k])
<1>. DEFINE item(k) == Refreshed(kept[k], source, wanted)
            a == [k \in 1..Len(kept) |-> item(k)]
<1>0. AsOld(kept, source, wanted) = a
  BY DEF AsOld
<1>1. ToSet(kept) = {kept[i] : i \in 1..Len(kept)} /\ Len(kept) \in Nat
  BY ItemsAre
<1>2. ASSUME NEW k \in 1..Len(kept)
      PROVE  /\ item(k) \in Record /\ item(k).id = kept[k].id /\ item(k).name = kept[k].name
             /\ Abstract(item(k)) = Abstract(kept[k])
  <2>1. kept[k] \in Record /\ (kept[k].source = source => Observed(kept[k], wanted))
    BY <1>1
  <2>2. /\ item(k) \in Record /\ item(k).id = kept[k].id /\ item(k).name = kept[k].name
        /\ item(k).source = kept[k].source
    BY <2>1, RefreshedIs
  <2>. HIDE DEF item
  <2>3. Abstract(item(k)) = Abstract(kept[k])
    BY <2>1, <2>2, SameAbstract
  <2>4. QED
    BY <2>2, <2>3
<1>. HIDE DEF item
<1>3. a \in Seq(Record) /\ Len(a) = Len(kept) /\ \A k \in 1..Len(kept) : a[k] = item(k)
  BY <1>1, <1>2
<1>. HIDE DEF a
<1>4. QED
  BY <1>0, <1>2, <1>3

\* What reconcile makes of the list, said of sets.
LEMMA Reconciling ==
    ASSUME ListInv, NEW source \in Importers, NEW wanted, Wanted(wanted)
    PROVE  LET t == reconcile(list, source, wanted, issued)
               kept == {d \in ToSet(list) : d.source = source => Observed(d, wanted)}
               new == {w \in ToSet(wanted) : w.name \notin NamesIn(list)}
           IN  /\ Later(t)
               /\ NamesIn(t) = {d.name : d \in kept} \union {w.name : w \in new}
               /\ Records(t) = {Abstract(d) : d \in kept}
                                  \union {DR!Discovered(source, w.name) : w \in new}
<1>. DEFINE t == reconcile(list, source, wanted, issued)
            ks == Kept(source, wanted)
            ns == Fresh(source, wanted)
            a == AsOld(ks, source, wanted)
            b == AsNew(ns, source)
            kept == {d \in ToSet(list) : d.source = source => Observed(d, wanted)}
            new == {w \in ToSet(wanted) : w.name \notin NamesIn(list)}
<1>1. t = a \o b
  BY ReconcileIs
<1>2. /\ ks \in Seq(Record) /\ ToSet(ks) = kept
      /\ \A j, k \in 1..Len(ks) : ks[j].id = ks[k].id => j = k
  BY KeptIs
<1>3. ns \in Seq([name : Seq(Labels), address : Addresses]) /\ ToSet(ns) = new
  BY FreshIs
<1>4. issued \in Nat /\ GoodList(list, issued)
  BY DEF ListInv
<1>. HIDE DEF t, ks, ns
<1>5. /\ a \in Seq(Record) /\ Len(a) = Len(ks)
      /\ \A k \in 1..Len(ks) : /\ a[k].id = ks[k].id /\ a[k].name = ks[k].name
                               /\ Abstract(a[k]) = Abstract(ks[k])
  BY <1>2, AsOldIs
<1>6. /\ b \in Seq(Record) /\ Len(b) = Len(ns)
      /\ \A k \in 1..Len(ns) :
            b[k].id = issued + k /\ b[k].name = ns[k].name /\ b[k].source = source
  BY <1>3, <1>4, AsNewIs
<1>. HIDE DEF a, b
<1>7. ToSet(ks) = {ks[k] : k \in 1..Len(ks)}
  BY <1>2, ItemsAre
<1>8. ToSet(ns) = {ns[k] : k \in 1..Len(ns)} /\ Len(ns) \in Nat
  BY <1>3, ItemsAre
<1>9. ToSet(a) = {a[k] : k \in 1..Len(ks)}
  BY <1>5, ItemsAre
<1>10. ToSet(b) = {b[k] : k \in 1..Len(ns)}
  BY <1>6, ItemsAre
<1>11. \A d \in ToSet(list) : Usable(d.name) /\ d.id \in 1..issued
  BY <1>4 DEF GoodList
<1>12. \A w \in ToSet(wanted) : Usable(w.name)
  BY DEF Wanted
<1>13. /\ \A k \in 1..Len(ks) : ks[k] \in ToSet(list)
       /\ \A k \in 1..Len(ns) : ns[k] \in ToSet(wanted)
  BY <1>2, <1>3, <1>7, <1>8
<1>14. \A k \in 1..Len(ks) : a[k].id \in 1..issued
  BY <1>5, <1>11, <1>13
<1>15. /\ \A j, k \in 1..Len(a) : a[j].id = a[k].id => j = k
       /\ \A j, k \in 1..Len(b) : b[j].id = b[k].id => j = k
       /\ \A j \in 1..Len(a), k \in 1..Len(b) : a[j].id # b[k].id
  <2>1. \A j, k \in 1..Len(ks) : a[j].id = a[k].id => j = k
    BY <1>2, <1>5
  <2>2. \A j, k \in 1..Len(ns) : issued + j = issued + k => j = k
    BY <1>4, <1>8
  <2>3. \A j, k \in 1..Len(ns) : b[j].id = b[k].id => j = k
    BY <1>6, <2>2
  <2>4. \A k \in 1..Len(ns) : issued + k \notin 1..issued
    BY <1>4, <1>8
  <2>5. \A j \in 1..Len(ks), k \in 1..Len(ns) : a[j].id # b[k].id
    BY <1>6, <1>14, <2>4
  <2>6. QED
    BY <1>5, <1>6, <2>1, <2>3, <2>5
<1>16. /\ t \in Seq(Record) /\ ToSet(t) = ToSet(a) \union ToSet(b)
       /\ \A j, k \in 1..Len(t) : t[j].id = t[k].id => j = k
  <2>1. /\ a \o b \in Seq(Record) /\ ToSet(a \o b) = ToSet(a) \union ToSet(b)
        /\ \A j, k \in 1..Len(a \o b) : (a \o b)[j].id = (a \o b)[k].id => j = k
    BY <1>5, <1>6, <1>15, Joined
  <2>2. QED
    BY <1>1, <2>1, Zenon
<1>. DEFINE u == issued + Len(ns)
<1>17. \A d \in ToSet(a) : Usable(d.name) /\ d.id \in 1..issued
  BY <1>5, <1>9, <1>11, <1>13, <1>14
<1>18. \A d \in ToSet(b) : /\ Usable(d.name) /\ d.id \in 1..u /\ d.id \notin 1..issued
                           /\ d.source = source
  <2>1. \A k \in 1..Len(ns) : issued + k \in 1..u /\ issued + k \notin 1..issued
    BY <1>4, <1>8
  <2>. HIDE DEF u
  <2>2. QED
    BY <1>6, <1>10, <1>12, <1>13, <2>1
<1>19. u \in Nat /\ issued <= u /\ \A id \in 1..issued : id \in 1..u
  BY <1>4, <1>8
<1>. HIDE DEF u
<1>20. GoodList(t, u)
  BY <1>16, <1>17, <1>18, <1>19 DEF GoodList
<1>21. /\ NamesIn(t) = {d.name : d \in ToSet(a) \union ToSet(b)}
       /\ IdsIn(t) = {d.id : d \in ToSet(a) \union ToSet(b)}
       /\ Records(t) = {Abstract(d) : d \in ToSet(a) \union ToSet(b)}
  BY <1>16, ListSets
<1>22. IdsIn(t) \intersect (1..issued) \subseteq IdsIn(list)
  <2>1. IdsIn(list) = {d.id : d \in ToSet(list)}
    BY <1>4, ListSets DEF GoodList
  <2>2. \A k \in 1..Len(ks) : a[k].id \in IdsIn(list)
    BY <1>5, <1>13, <2>1
  <2>3. QED
    BY <1>9, <1>18, <1>21, <2>2
<1>23. Later(t)
  BY <1>19, <1>20, <1>22 DEF Later
<1>. HIDE DEF kept, new
<1>24. NamesIn(t) = {d.name : d \in kept} \union {w.name : w \in new}
  <2>1. {d.name : d \in ToSet(a)} = {d.name : d \in kept}
    <3>1. {d.name : d \in ToSet(a)} = {a[k].name : k \in 1..Len(ks)}
      BY <1>9
    <3>2. {d.name : d \in kept} = {ks[k].name : k \in 1..Len(ks)}
      BY <1>2, <1>7
    <3>3. QED
      BY <1>5, <3>1, <3>2
  <2>2. {d.name : d \in ToSet(b)} = {w.name : w \in new}
    <3>1. {d.name : d \in ToSet(b)} = {b[k].name : k \in 1..Len(ns)}
      BY <1>10
    <3>2. {w.name : w \in new} = {ns[k].name : k \in 1..Len(ns)}
      BY <1>3, <1>8
    <3>3. QED
      BY <1>6, <3>1, <3>2
  <2>3. NamesIn(t) = {d.name : d \in ToSet(a)} \union {d.name : d \in ToSet(b)}
    BY <1>21
  <2>4. QED
    BY <2>1, <2>2, <2>3
<1>25. \A k \in 1..Len(ns) : Abstract(b[k]) = DR!Discovered(source, ns[k].name)
  <2>1. source # "manual"
    BY EditingAssumption
  <2>2. QED
    BY <1>6, <2>1 DEF Abstract, is_discovered
<1>26. Records(t) = {Abstract(d) : d \in kept} \union {DR!Discovered(source, w.name) : w \in new}
  <2>1. {Abstract(d) : d \in ToSet(a)} = {Abstract(d) : d \in kept}
    <3>1. {Abstract(d) : d \in ToSet(a)} = {Abstract(a[k]) : k \in 1..Len(ks)}
      BY <1>9
    <3>2. {Abstract(d) : d \in kept} = {Abstract(ks[k]) : k \in 1..Len(ks)}
      BY <1>2, <1>7
    <3>3. QED
      BY <1>5, <3>1, <3>2
  <2>2. {Abstract(d) : d \in ToSet(b)} = {DR!Discovered(source, w.name) : w \in new}
    <3>1. {Abstract(d) : d \in ToSet(b)} = {Abstract(b[k]) : k \in 1..Len(ns)}
      BY <1>10
    <3>2. {DR!Discovered(source, w.name) : w \in new} =
              {DR!Discovered(source, ns[k].name) : k \in 1..Len(ns)}
      BY <1>3, <1>8
    <3>3. QED
      BY <1>25, <3>1, <3>2
  <2>3. Records(t) = {Abstract(d) : d \in ToSet(a)} \union {Abstract(d) : d \in ToSet(b)}
    BY <1>21
  <2>4. QED
    BY <2>1, <2>2, <2>3
<1>27. QED
  BY <1>23, <1>24, <1>26 DEF t, kept, new

\* It is Reconciled, with the names of the listing; and nobody's name is lost on the way.
LEMMA ReconcileDoes ==
    ASSUME ListInv, NEW source \in Importers, NEW wanted, Wanted(wanted)
    PROVE  LET t == reconcile(list, source, wanted, issued)
           IN  /\ Later(t)
               /\ \E listed \in SUBSET NamesIn(t) :
                     Records(t) = DR!Reconciled(Records(list), source, listed)
<1>. DEFINE t == reconcile(list, source, wanted, issued)
            kept == {d \in ToSet(list) : d.source = source => Observed(d, wanted)}
            new == {w \in ToSet(wanted) : w.name \notin NamesIn(list)}
            listed == {w.name : w \in ToSet(wanted)}
            was == Records(list)
            stale == DR!Stale(was, source, listed)
            missing == DR!Missing(was, source, listed)
<1>1. /\ Later(t)
      /\ NamesIn(t) = {d.name : d \in kept} \union {w.name : w \in new}
      /\ Records(t) = {Abstract(d) : d \in kept}
                         \union {DR!Discovered(source, w.name) : w \in new}
  BY Reconciling
<1>2. list \in Seq(Record) /\ \A d \in ToSet(list) : d \in Record
  BY ItemsAre DEF ListInv, GoodList
<1>3. was = {Abstract(d) : d \in ToSet(list)} /\ NamesIn(list) = {d.name : d \in ToSet(list)}
  BY <1>2, ListSets
<1>4. \A d \in ToSet(list) : Abstract(d).source = d.source /\ Abstract(d).name = d.name
  BY <1>2, AbstractIs
<1>5. \A d \in ToSet(list) : d.source = source => Abstract(d) = DR!Discovered(source, d.name)
  BY EditingAssumption DEF Abstract, is_discovered
<1>. HIDE DEF t, was
<1>6. \A d : Observed(d, wanted) <=> d.name \in listed
  BY DEF Observed
<1>. HIDE DEF listed
<1>7. \A d \in ToSet(list) : Abstract(d) \in stale <=> d.source = source /\ d.name \notin listed
  <2>1. \A n : DR!Discovered(source, n).id = n
    BY DEF DR!Discovered
  <2>2. \A r : r \in stale <=> r \in was /\ r.source = source /\ r.id \notin listed
    BY DEF DR!Stale, DR!Of
  <2>3. \A d \in ToSet(list) : d.source = source => Abstract(d).id = d.name
    BY <1>5, <2>1
  <2>. HIDE DEF stale
  <2>4. QED
    BY <1>3, <1>4, <2>2, <2>3
<1>8. {Abstract(d) : d \in kept} = was \ stale
  <2>1. \A d \in ToSet(list) : d \in kept <=> ~ (Abstract(d) \in stale)
    BY <1>6, <1>7
  <2>2. \A d \in kept : d \in ToSet(list)
    OBVIOUS
  <2>. HIDE DEF kept, stale
  <2>3. QED
    BY <1>3, <2>1, <2>2
<1>9. ASSUME NEW n \in listed
      PROVE  n \in missing <=> n \notin NamesIn(list)
  <2>1. n \in missing <=>
            /\ \A r \in was : r.name = n => r.source = source
            /\ DR!Discovered(source, n) \notin was
    BY DEF DR!Missing, DR!Clashes
  <2>. HIDE DEF missing
  <2>2. CASE n \notin NamesIn(list)
    <3>1. \A d \in ToSet(list) : Abstract(d).name # n
      BY <1>3, <1>4, <2>2
    <3>2. DR!Discovered(source, n).name = n
      BY DEF DR!Discovered
    <3>3. QED
      BY <1>3, <2>1, <2>2, <3>1, <3>2
  <2>3. CASE n \in NamesIn(list)
    <3>1. PICK d \in ToSet(list) : d.name = n
      BY <1>3, <2>3
    <3>2. Abstract(d) \in was /\ Abstract(d).name = n /\ Abstract(d).source = d.source
      BY <1>3, <1>4, <3>1
    <3>3. CASE d.source = source
      <4>1. DR!Discovered(source, n) \in was
        BY <1>5, <3>1, <3>2, <3>3
      <4>2. QED
        BY <2>1, <2>3, <4>1
    <3>4. CASE d.source # source
      BY <2>1, <2>3, <3>2, <3>4
    <3>5. QED
      BY <3>3, <3>4
  <2>4. QED
    BY <2>2, <2>3
<1>10. missing = {w.name : w \in new}
  <2>1. \A n \in missing : n \in listed
    BY DEF DR!Missing
  <2>2. \A w \in ToSet(wanted) : w.name \in listed
    BY DEF listed
  <2>3. \A n \in listed : \E w \in ToSet(wanted) : w.name = n
    BY DEF listed
  <2>. HIDE DEF missing
  <2>4. ASSUME NEW n \in missing PROVE n \in {w.name : w \in new}
    <3>1. n \in listed /\ n \notin NamesIn(list)
      BY <1>9, <2>1
    <3>2. PICK w \in ToSet(wanted) : w.name = n
      BY <2>3, <3>1
    <3>3. QED
      BY <3>1, <3>2
  <2>5. ASSUME NEW w \in new PROVE w.name \in missing
    BY <1>9, <2>2
  <2>6. QED
    BY <2>4, <2>5
<1>11. Records(t) = DR!Reconciled(was, source, listed)
  <2>1. DR!Reconciled(was, source, listed) =
            (was \ stale) \union {DR!Discovered(source, n) : n \in missing}
    BY DEF DR!Reconciled
  <2>2. {DR!Discovered(source, w.name) : w \in new} = {DR!Discovered(source, n) : n \in missing}
    <3>. HIDE DEF missing, new
    <3>1. QED
      BY <1>10
  <2>. HIDE DEF stale, missing, kept, new
  <2>3. QED
    BY <1>1, <1>8, <2>1, <2>2
<1>12. listed \subseteq NamesIn(t)
  <2>1. ASSUME NEW w \in ToSet(wanted) PROVE w.name \in NamesIn(t)
    <3>1. CASE w.name \notin NamesIn(list)
      BY <1>1, <3>1
    <3>2. CASE w.name \in NamesIn(list)
      <4>1. PICK d \in ToSet(list) : d.name = w.name
        BY <1>3, <3>2
      <4>2. Observed(d, wanted)
        BY <4>1 DEF Observed
      <4>3. d \in kept
        BY <4>2
      <4>. HIDE DEF kept, new
      <4>4. QED
        BY <1>1, <4>1, <4>3
    <3>3. QED
      BY <3>1, <3>2
  <2>2. QED
    BY <2>1 DEF listed
<1>13. QED
  BY <1>1, <1>11, <1>12 DEF t, was

-----------------------------------------------------------------------------
(* The inductive invariant. *)

Row == [id : Nat, name : Seq(Labels), source : {"manual"} \union Importers, enabled : BOOLEAN]

\* What a tab or a dialog may still have to ask for.
StorableNames == {n \in Seq(Labels) : Usable(n)}
Creations == {Create(name, address) : name \in StorableNames, address \in Addresses}
Edits(ids, taken) ==
    {Update(id, names, address) :
        id \in ids, names \in {{n} : n \in StorableNames \ taken}, address \in Addresses}
Toggles(ids) == {Toggle(id, {enabled}) : id \in ids, enabled \in BOOLEAN}
Deletions(ids) == {Delete(id) : id \in ids}

MayAsk(doing, ids, taken) ==
    CASE doing = "adding" -> Creations
      [] doing = "editing" -> Edits(ids, taken)
      [] doing = "toggling" -> Toggles(ids)
      [] doing = "deleting" -> Deletions(ids)
      [] doing = "nothing" -> {}

Doings == {"nothing", "adding", "editing", "deleting", "toggling"}

ViewInv == view \in Seq(Row) /\ \A k \in 1..Len(view) : view[k].id \in 1..issued

\* Of the records that were to be deleted one that is there has failed or is still to come.
WindowInv ==
    /\ DOMAIN window = {"doing", "ids", "taken", "backend", "todo", "failed"}
    /\ window.doing \in Doings /\ window.backend \in Backends
    /\ window.ids \subseteq 1..issued /\ window.failed \subseteq 0..issued
    /\ window.taken \subseteq Seq(Labels)
    /\ window.doing = "editing" => window.ids # {}
    /\ window.todo \in Seq(MayAsk(window.doing, window.ids, window.taken))
    /\ window.doing = "deleting" /\ window.todo # <<>> =>
          window.ids \intersect IdsIn(list) \subseteq
              window.failed \union {r.id : r \in ToSet(window.todo)}

EditingInv == ListInv /\ issued <= MaxIssued /\ ViewInv /\ WindowInv

LEMMA MayAskIs ==
    ASSUME NEW doing \in Doings, NEW ids, NEW taken, NEW r \in MayAsk(doing, ids, taken)
    PROVE  /\ GoodRequest(r) /\ r.id \in ids \union {NoId}
           /\ doing = "adding" => r.op = "create" /\ r.id = NoId
           /\ doing = "editing" => r.op = "update" /\ \E n : r.name = {n} /\ n \notin taken
           /\ doing = "toggling" => r.op = "toggle"
           /\ doing = "deleting" => r.op = "delete" /\ r.id \in ids
           /\ doing # "nothing"
<1>1. CASE doing = "adding"
  <2>1. PICK name \in StorableNames, address \in Addresses : r = Create(name, address)
    BY <1>1 DEF MayAsk, Creations
  <2>2. Usable(name)
    BY DEF StorableNames
  <2>3. r.op = "create" /\ r.id = NoId
    BY <2>1 DEF Create, Request
  <2>4. GoodRequest(r)
    BY <2>1, <2>2 DEF GoodRequest
  <2>5. QED
    BY <1>1, <2>3, <2>4
<1>2. CASE doing = "editing"
  <2>0. PICK id \in ids, names \in {{n} : n \in StorableNames \ taken}, address \in Addresses :
            r = Update(id, names, address)
    BY <1>2 DEF MayAsk, Edits
  <2>1. PICK name \in StorableNames \ taken : r = Update(id, {name}, address)
    BY <2>0
  <2>2. Usable(name) /\ name \notin taken
    BY DEF StorableNames
  <2>3. r.op = "update" /\ r.id = id /\ r.name = {name}
    BY <2>1 DEF Update, Request
  <2>4. GoodRequest(r)
    BY <2>1, <2>2 DEF GoodRequest
  <2>5. QED
    BY <1>2, <2>2, <2>3, <2>4
<1>3. CASE doing = "toggling"
  <2>1. PICK id \in ids, enabled \in BOOLEAN : r = Toggle(id, {enabled})
    BY <1>3 DEF MayAsk, Toggles
  <2>2. r.op = "toggle" /\ r.id = id
    BY <2>1 DEF Toggle, Request
  <2>3. GoodRequest(r)
    BY <2>1 DEF GoodRequest
  <2>4. QED
    BY <1>3, <2>2, <2>3
<1>4. CASE doing = "deleting"
  <2>1. PICK id \in ids : r = Delete(id)
    BY <1>4 DEF MayAsk, Deletions
  <2>2. r.op = "delete" /\ r.id = id
    BY <2>1 DEF Delete, Request
  <2>3. GoodRequest(r)
    BY <2>1 DEF GoodRequest
  <2>4. QED
    BY <1>4, <2>2, <2>3
<1>5. CASE doing = "nothing"
  BY <1>5 DEF MayAsk
<1>6. QED
  BY <1>1, <1>2, <1>3, <1>4, <1>5 DEF Doings

LEMMA ShownIs ==
    ASSUME NEW domains, NEW upto, GoodList(domains, upto)
    PROVE  LET rows == Shown(domains)
           IN  /\ rows \in Seq(Row) /\ \A k \in 1..Len(rows) : rows[k].id \in 1..upto
<1>. DEFINE item(k) == [id |-> domains[k].id, name |-> domains[k].name,
                        source |-> domains[k].source, enabled |-> domains[k].enabled]
            rows == [k \in 1..Len(domains) |-> item(k)]
<1>1. domains \in Seq(Record) /\ DOMAIN domains = 1..Len(domains) /\ Len(domains) \in Nat
  BY ItemsAre DEF GoodList
<1>2. ToSet(domains) = {domains[k] : k \in 1..Len(domains)}
  BY <1>1, ItemsAre
<1>3. Shown(domains) = rows
  BY <1>1 DEF Shown
<1>4. ASSUME NEW k \in 1..Len(domains) PROVE item(k) \in Row /\ item(k).id \in 1..upto
  <2>1. domains[k] \in Record
    BY <1>1
  <2>2. domains[k].id \in 1..upto
    BY <1>2 DEF GoodList
  <2>3. item(k) \in Row
    BY <2>1 DEF Record, Row
  <2>4. QED
    BY <2>2, <2>3
<1>. HIDE DEF item
<1>5. /\ rows \in Seq(Row) /\ Len(rows) = Len(domains)
      /\ \A k \in 1..Len(domains) : rows[k] = item(k)
  BY <1>1, <1>4
<1>. HIDE DEF rows
<1>6. QED
  BY <1>3, <1>4, <1>5

\* The list changes, the window does not.
LEMMA ChangeKeeps ==
    ASSUME EditingInv, NEW domains, Later(domains), Becomes(domains), UNCHANGED <<view, window>>
    PROVE  EditingInv'
<1>1. /\ ListInv' /\ issued <= issued' /\ issued' <= MaxIssued
      /\ IdsIn(list') \intersect (1..issued) \subseteq IdsIn(list)
      /\ issued \in Nat /\ issued' \in Nat
  BY BecomesGood DEF EditingInv, ListInv
<1>2. 1..issued \subseteq 1..issued' /\ 0..issued \subseteq 0..issued'
  BY <1>1
<1>3. ViewInv'
  BY <1>2 DEF EditingInv, ViewInv
<1>4. WindowInv'
  <2>1. window' = window /\ WindowInv
    BY DEF EditingInv
  <2>2. window.ids \subseteq 1..issued' /\ window.failed \subseteq 0..issued'
    BY <1>2, <2>1 DEF WindowInv
  <2>3. window.ids \intersect IdsIn(list') \subseteq window.ids \intersect IdsIn(list)
    BY <1>1, <2>1 DEF WindowInv
  <2>4. QED
    BY <2>1, <2>2, <2>3 DEF WindowInv
<1>5. QED
  BY <1>1, <1>3, <1>4 DEF EditingInv

\* The window opens, closes or is filled in; the list and what is shown stay.
LEMMA WindowKeeps ==
    ASSUME EditingInv, UNCHANGED <<list, issued, view>>, WindowInv'
    PROVE  EditingInv'
<1>1. ListInv' /\ issued' <= MaxIssued /\ ViewInv'
  BY DEF EditingInv, ListInv, ViewInv
<1>2. QED
  BY <1>1 DEF EditingInv

LEMMA ShowsKeeps ==
    ASSUME EditingInv, NEW doing \in Doings, NEW ids \in SUBSET (1..issued),
           NEW taken \in SUBSET Seq(Labels), doing = "editing" => ids # {},
           Shows(doing, ids, taken)
    PROVE  EditingInv'
<1>1. /\ DOMAIN window' = {"doing", "ids", "taken", "backend", "todo", "failed"}
      /\ window'.doing = doing /\ window'.ids = ids /\ window'.taken = taken
      /\ window'.backend = "local" /\ window'.todo = <<>> /\ window'.failed = {}
      /\ UNCHANGED <<list, issued, view>>
  BY DEF Shows, Idle
<1>2. WindowInv'
  BY <1>1 DEF WindowInv, Backends
<1>3. QED
  BY <1>1, <1>2, WindowKeeps

LEMMA CloseKeeps ==
    ASSUME EditingInv, window' = Idle, UNCHANGED <<list, issued, view>>
    PROVE  EditingInv'
<1>1. WindowInv'
  BY DEF WindowInv, Idle, Backends, Doings
<1>2. QED
  BY <1>1, WindowKeeps

LEMMA FilledKeeps ==
    ASSUME EditingInv, NEW todo \in Seq(MayAsk(window.doing, window.ids, window.taken)),
           window.doing = "deleting" => window.ids \subseteq {r.id : r \in ToSet(todo)},
           Submit(todo)
    PROVE  EditingInv'
<1>1. WindowInv
  BY DEF EditingInv
<1>2. PICK backend \in Backends : window' = [window EXCEPT !.backend = backend, !.todo = todo]
  BY DEF Submit
<1>3. /\ DOMAIN window' = {"doing", "ids", "taken", "backend", "todo", "failed"}
      /\ window'.doing = window.doing /\ window'.ids = window.ids
      /\ window'.taken = window.taken /\ window'.failed = window.failed
      /\ window'.backend = backend /\ window'.todo = todo
  BY <1>1, <1>2 DEF WindowInv
<1>4. UNCHANGED <<list, issued, view>>
  BY DEF Submit
<1>5. WindowInv'
  BY <1>1, <1>3, <1>4 DEF WindowInv
<1>6. QED
  BY <1>4, <1>5, WindowKeeps

-----------------------------------------------------------------------------
(* Each action keeps it. *)

LEMMA ViewIs ==
    ASSUME EditingInv
    PROVE  /\ DOMAIN view = 1..Len(view)
           /\ \A k \in DOMAIN view :
                 /\ view[k].id \in 1..issued /\ view[k].name \in Seq(Labels)
                 /\ view[k].enabled \in BOOLEAN
           /\ NamesIn(view) \subseteq Seq(Labels)
<1>1. view \in Seq(Row) /\ \A k \in 1..Len(view) : view[k].id \in 1..issued
  BY DEF EditingInv, ViewInv
<1>2. DOMAIN view = 1..Len(view) /\ \A k \in 1..Len(view) : view[k] \in Row
  BY <1>1
<1>3. \A d \in Row : d.name \in Seq(Labels) /\ d.enabled \in BOOLEAN
  BY DEF Row
<1>4. QED
  BY <1>1, <1>2, <1>3 DEF NamesIn

LEMMA RefreshKeeps == ASSUME EditingInv, Refresh PROVE EditingInv'
<1>1. GoodList(list, issued) /\ UNCHANGED <<list, issued, window>> /\ view' = Shown(list)
  BY DEF EditingInv, ListInv, Refresh
<1>2. ListInv' /\ issued' <= MaxIssued
  BY <1>1 DEF EditingInv, ListInv
<1>3. WindowInv'
  BY <1>1 DEF EditingInv, WindowInv
<1>4. ViewInv'
  BY <1>1, ShownIs DEF ViewInv
<1>5. QED
  BY <1>2, <1>3, <1>4 DEF EditingInv

LEMMA OpenKeeps == ASSUME EditingInv, OpenAdd \/ OpenEdit \/ OpenDelete PROVE EditingInv'
<1>1. CASE OpenAdd
  <2>1. {} \in SUBSET (1..issued) /\ "adding" \in Doings /\ NamesIn(view) \in SUBSET Seq(Labels)
    BY ViewIs DEF Doings
  <2>2. Shows("adding", {}, NamesIn(view))
    BY <1>1 DEF OpenAdd
  <2>3. QED
    BY <2>1, <2>2, ShowsKeeps
<1>2. CASE OpenEdit
  <2>1. PICK k \in DOMAIN view : Shows("editing", {view[k].id}, NamesIn(view) \ {view[k].name})
    BY <1>2 DEF OpenEdit
  <2>2. /\ {view[k].id} \in SUBSET (1..issued) /\ {view[k].id} # {} /\ "editing" \in Doings
        /\ NamesIn(view) \ {view[k].name} \in SUBSET Seq(Labels)
    BY ViewIs DEF Doings
  <2>3. QED
    BY <2>1, <2>2, ShowsKeeps
<1>3. CASE OpenDelete
  <2>1. PICK rows \in SUBSET DOMAIN view : Shows("deleting", {view[k].id : k \in rows}, {})
    BY <1>3 DEF OpenDelete
  <2>2. {view[k].id : k \in rows} \in SUBSET (1..issued) /\ "deleting" \in Doings
    BY ViewIs DEF Doings
  <2>3. QED
    BY <2>1, <2>2, ShowsKeeps
<1>4. QED
  BY <1>1, <1>2, <1>3

LEMMA AcceptAddKeeps == ASSUME EditingInv, AcceptAdd PROVE EditingInv'
<1>1. PICK raw \in Typed, address \in TypedAddresses, ticked \in BOOLEAN :
          /\ ~ Blocked(raw)
          /\ Submit(<<Create(result_values(raw), TypedAddress(address))>>
                    \o IF wants_apex(raw, ticked)
                       THEN <<Create(apex_of(validate(raw).name), TypedAddress(address))>>
                       ELSE <<>>)
  BY DEF AcceptAdd
<1>. DEFINE r == Create(result_values(raw), TypedAddress(address))
            apex == Create(apex_of(validate(raw).name), TypedAddress(address))
            rest == IF wants_apex(raw, ticked) THEN <<apex>> ELSE <<>>
            S == MayAsk(window.doing, window.ids, window.taken)
<1>2. window.doing = "adding" /\ S = Creations
  BY DEF AcceptAdd, MayAsk
<1>3. validate(raw).ok
  BY <1>1 DEF Blocked
<1>4. TypedAddress(address) \in Addresses
  BY AddressIsGiven
<1>5. r \in S
  BY <1>2, <1>3, <1>4, ResultIsUsable DEF Creations, StorableNames, Usable
<1>6. wants_apex(raw, ticked) => apex \in S
  BY <1>2, <1>3, <1>4, ResultIsUsable DEF Creations, StorableNames, Usable, wants_apex
<1>. HIDE DEF r, apex, S
<1>7. rest \in Seq(S) /\ <<r>> \in Seq(S)
  <2>1. CASE wants_apex(raw, ticked)
    BY <1>5, <1>6, <2>1
  <2>2. CASE ~ wants_apex(raw, ticked)
    BY <1>5, <2>2
  <2>3. QED
    BY <2>1, <2>2
<1>8. Submit(<<r>> \o rest)
  BY <1>1 DEF r, apex
<1>. HIDE DEF rest
<1>9. <<r>> \o rest \in Seq(S)
  BY <1>7, BothParts
<1>10. QED
  BY <1>2, <1>8, <1>9, FilledKeeps DEF S

LEMMA AcceptEditKeeps == ASSUME EditingInv, AcceptEdit PROVE EditingInv'
<1>1. PICK raw \in Typed, address \in TypedAddresses :
          /\ ~ Blocked(raw)
          /\ Submit(<<Update(Only(window.ids), {result_values(raw)}, TypedAddress(address))>>)
  BY DEF AcceptEdit
<1>. DEFINE r == Update(Only(window.ids), {result_values(raw)}, TypedAddress(address))
            S == MayAsk(window.doing, window.ids, window.taken)
<1>2. window.doing = "editing" /\ S = Edits(window.ids, window.taken)
  BY DEF AcceptEdit, MayAsk
<1>3. validate(raw).ok /\ result_values(raw) \notin window.taken
  BY <1>1 DEF Blocked, result_values
<1>4. TypedAddress(address) \in Addresses
  BY AddressIsGiven
<1>5. Only(window.ids) \in window.ids
  BY <1>2 DEF EditingInv, WindowInv, Only
<1>6. result_values(raw) \in StorableNames \ window.taken
  BY <1>3, ResultIsUsable DEF StorableNames, Usable
<1>7. r \in S
  <2>. DEFINE id == Only(window.ids)
              names == {result_values(raw)}
              a == TypedAddress(address)
              free == {{n} : n \in StorableNames \ window.taken}
  <2>1. id \in window.ids /\ names \in free /\ a \in Addresses
    BY <1>4, <1>5, <1>6
  <2>2. Edits(window.ids, window.taken) =
            {Update(i, ns, b) : i \in window.ids, ns \in free, b \in Addresses}
    BY DEF Edits
  <2>. HIDE DEF id, names, a, free
  <2>3. Update(id, names, a) \in Edits(window.ids, window.taken)
    BY <2>1, <2>2
  <2>4. QED
    BY <1>2, <2>3 DEF id, names, a
<1>8. Submit(<<r>>)
  BY <1>1
<1>. HIDE DEF r, S
<1>9. <<r>> \in Seq(S)
  BY <1>7
<1>10. QED
  BY <1>2, <1>8, <1>9, FilledKeeps DEF S

LEMMA ConfirmKeeps == ASSUME EditingInv, ConfirmDelete PROVE EditingInv'
<1>1. PICK rows \in SeqOf(window.ids, MaxRecords) :
          ToSet(rows) = window.ids /\ Submit([k \in DOMAIN rows |-> Delete(rows[k])])
  BY DEF ConfirmDelete
<1>. DEFINE todo == [k \in DOMAIN rows |-> Delete(rows[k])]
            S == MayAsk(window.doing, window.ids, window.taken)
<1>2. window.doing = "deleting" /\ S = Deletions(window.ids)
  BY DEF ConfirmDelete, MayAsk
<1>3. PICK n \in Nat : rows \in [1..n -> window.ids]
  <2>1. MaxRecords \in Nat
    BY EditingAssumption
  <2>2. QED
    BY <2>1 DEF SeqOf
<1>4. todo = [k \in 1..n |-> Delete(rows[k])]
  BY <1>3
<1>5. \A k \in 1..n : Delete(rows[k]) \in S
  BY <1>2, <1>3 DEF Deletions
<1>. HIDE DEF todo, S
<1>6. todo \in Seq(S) /\ Len(todo) = n /\ \A k \in 1..n : todo[k] = Delete(rows[k])
  BY <1>4, <1>5
<1>7. ToSet(rows) = {rows[k] : k \in 1..n}
  BY <1>3 DEF ToSet
<1>8. ToSet(todo) = {todo[k] : k \in 1..n}
  BY <1>6, ItemsAre
<1>9. \A k \in 1..n : todo[k].id = rows[k]
  BY <1>6 DEF Delete, Request
<1>10. window.ids \subseteq {r.id : r \in ToSet(todo)}
  BY <1>1, <1>7, <1>8, <1>9
<1>11. Submit(todo)
  BY <1>1 DEF todo
<1>12. QED
  BY <1>6, <1>10, <1>11, FilledKeeps DEF S

LEMMA ClickKeeps == ASSUME EditingInv, Click PROVE EditingInv'
<1>1. PICK k \in DOMAIN view, backend \in Backends :
          window' = [Idle EXCEPT !.doing = "toggling", !.ids = {view[k].id}, !.backend = backend,
                                 !.todo = <<Toggle(view[k].id, {~ view[k].enabled})>>]
  BY DEF Click
<1>. DEFINE r == Toggle(view[k].id, {~ view[k].enabled})
            id == view[k].id
            S == MayAsk("toggling", {id}, {})
<1>2. id \in 1..issued /\ view[k].enabled \in BOOLEAN
  BY ViewIs
<1>3. r \in S
  <2>1. \A i \in {id}, enabled \in BOOLEAN : Toggle(i, {enabled}) \in Toggles({id})
    BY DEF Toggles
  <2>2. (~ view[k].enabled) \in BOOLEAN
    BY <1>2
  <2>3. r \in Toggles({id})
    BY <2>1, <2>2
  <2>4. QED
    BY <2>3 DEF MayAsk
<1>4. /\ DOMAIN window' = {"doing", "ids", "taken", "backend", "todo", "failed"}
      /\ window'.doing = "toggling" /\ window'.ids = {id} /\ window'.taken = {}
      /\ window'.backend = backend /\ window'.todo = <<r>> /\ window'.failed = {}
  BY <1>1 DEF Idle
<1>. HIDE DEF r, id
<1>5. <<r>> \in Seq(S)
  <2>. HIDE DEF S
  <2>1. QED
    BY <1>3
<1>6. UNCHANGED <<list, issued, view>>
  BY DEF Click
<1>7. WindowInv'
  BY <1>2, <1>4, <1>5, <1>6 DEF WindowInv, Doings
<1>8. QED
  BY <1>6, <1>7, WindowKeeps

\* What an answered request of the window leaves.
AskedFor(r, answer) ==
    /\ r = Head(window.todo) /\ r \in MayAsk(window.doing, window.ids, window.taken)
    /\ Does(r, answer) /\ list' = answer.list
    /\ ListInv' /\ issued <= issued' /\ issued' <= MaxIssued
    /\ IdsIn(list') \intersect (1..issued) \subseteq IdsIn(list)
    /\ answer.told = "done" => Met(r, list')
    /\ \/ /\ Rest(answer.told) # <<>> /\ UNCHANGED view
          /\ window' = [window EXCEPT !.todo = Tail(@), !.failed = Failed(r, answer.told)]
       \/ /\ Rest(answer.told) = <<>> /\ view' \in {view, Shown(list')}
          /\ window' = [Idle EXCEPT !.failed = Failed(r, answer.told)]

LEMMA AskIs == ASSUME EditingInv, Ask PROVE \E r, answer : AskedFor(r, answer)
<1>. DEFINE S == MayAsk(window.doing, window.ids, window.taken)
            r == Head(window.todo)
<1>1. window.todo # <<>> /\ window.todo \in Seq(S) /\ window.doing \in Doings /\ ListInv
  BY DEF Ask, EditingInv, WindowInv
<1>2. PICK answer \in Call(window.backend, r) :
          /\ Becomes(answer.list)
          /\ IF Rest(answer.told) # <<>>
             THEN /\ window' = [window EXCEPT !.todo = Tail(@), !.failed = Failed(r, answer.told)]
                  /\ UNCHANGED view
             ELSE /\ window' = [Idle EXCEPT !.failed = Failed(r, answer.told)]
                  /\ view' \in {view, Shown(list')}
  BY DEF Ask
<1>3. r \in S
  <2>. HIDE DEF S
  <2>1. QED
    BY <1>1
<1>4. r = Head(window.todo)
  OBVIOUS
<1>. HIDE DEF r
<1>5. GoodRequest(r)
  BY <1>1, <1>3, MayAskIs
<1>6. Does(r, answer)
  BY <1>1, <1>2, <1>5, CallDoes
<1>7. Later(answer.list)
  BY <1>1, <1>6, DoesLater
<1>8. /\ ListInv' /\ issued <= issued' /\ issued' <= MaxIssued /\ list' = answer.list
      /\ IdsIn(list') \intersect (1..issued) \subseteq IdsIn(list)
  BY <1>1, <1>2, <1>7, BecomesGood
<1>9. answer.told = "done" => Met(r, list')
  BY <1>6, <1>8 DEF Does
<1>10. AskedFor(r, answer)
  BY <1>2, <1>3, <1>4, <1>6, <1>8, <1>9 DEF AskedFor
<1>11. QED
  BY <1>10

\* What of a deletion is still there has failed, this request included, or is to come.
LEMMA DeletionGoesOn ==
    ASSUME EditingInv, NEW r, NEW answer, AskedFor(r, answer), window.todo # <<>>,
           window.doing = "deleting"
    PROVE  window.ids \intersect IdsIn(list') \subseteq
              Failed(r, answer.told) \union {q.id : q \in ToSet(Tail(window.todo))}
<1>. DEFINE S == MayAsk(window.doing, window.ids, window.taken)
            todo == window.todo
<1>1. /\ window.ids \intersect IdsIn(list) \subseteq window.failed \union {q.id : q \in ToSet(todo)}
      /\ window.ids \subseteq 1..issued /\ todo \in Seq(S)
  BY DEF EditingInv, WindowInv
<1>2. /\ r = Head(todo) /\ r \in S
      /\ IdsIn(list') \intersect (1..issued) \subseteq IdsIn(list)
      /\ answer.told = "done" => Met(r, list')
  BY DEF AskedFor
<1>3. r.op = "delete"
  BY <1>2, MayAskIs DEF Doings
<1>4. answer.told = "done" => r.id \notin IdsIn(list')
  BY <1>2, <1>3 DEF Met
<1>. HIDE DEF S
<1>5. ToSet(todo) \subseteq {r} \union ToSet(Tail(todo))
  <2>1. Tail(todo) \in Seq(S) /\ Len(todo) \in Nat /\ Len(todo) > 0
        /\ Len(Tail(todo)) = Len(todo) - 1
    BY <1>1
  <2>2. /\ ToSet(todo) = {todo[i] : i \in 1..Len(todo)}
        /\ ToSet(Tail(todo)) = {Tail(todo)[i] : i \in 1..Len(Tail(todo))}
    BY <1>1, <2>1, ItemsAre
  <2>3. ASSUME NEW i \in 1..Len(todo) PROVE todo[i] \in {r} \union ToSet(Tail(todo))
    <3>1. CASE i = 1
      BY <1>2, <3>1
    <3>2. CASE i # 1
      <4>1. i - 1 \in 1..Len(Tail(todo)) /\ Tail(todo)[i - 1] = todo[i]
        BY <1>1, <2>1, <3>2
      <4>2. QED
        BY <2>2, <4>1
    <3>3. QED
      BY <3>1, <3>2
  <2>4. QED
    BY <2>2, <2>3
<1>6. QED
  BY <1>1, <1>2, <1>4, <1>5 DEF Failed

LEMMA AskKeeps == ASSUME EditingInv, Ask PROVE EditingInv'
<1>1. PICK r, answer : AskedFor(r, answer)
  BY AskIs
<1>2. /\ ListInv' /\ issued <= issued' /\ issued' <= MaxIssued
      /\ issued \in Nat /\ issued' \in Nat /\ window.todo # <<>>
  BY <1>1 DEF AskedFor, EditingInv, ListInv, Ask
<1>3. 1..issued \subseteq 1..issued' /\ 0..issued \subseteq 0..issued'
  BY <1>2
<1>4. ViewInv'
  <2>1. CASE view' = view
    BY <1>3, <2>1 DEF EditingInv, ViewInv
  <2>2. CASE view' = Shown(list')
    <3>1. GoodList(list', issued')
      BY <1>2 DEF ListInv
    <3>2. QED
      BY <2>2, <3>1, ShownIs DEF ViewInv
  <2>3. QED
    BY <1>1, <2>1, <2>2 DEF AskedFor
<1>5. Failed(r, answer.told) \subseteq 0..issued
  <2>1. r.id \in window.ids \union {NoId} /\ window.ids \subseteq 1..issued
        /\ window.failed \subseteq 0..issued
    BY <1>1, MayAskIs DEF AskedFor, EditingInv, WindowInv
  <2>2. r.id \in 0..issued
    BY <1>2, <2>1 DEF NoId
  <2>3. QED
    BY <2>1, <2>2 DEF Failed
<1>6. CASE window' = [Idle EXCEPT !.failed = Failed(r, answer.told)]
  <2>1. WindowInv'
    BY <1>3, <1>5, <1>6 DEF WindowInv, Idle, Backends, Doings
  <2>2. QED
    BY <1>2, <1>4, <2>1 DEF EditingInv
<1>7. CASE window' = [window EXCEPT !.todo = Tail(@), !.failed = Failed(r, answer.told)]
  <2>. DEFINE S == MayAsk(window.doing, window.ids, window.taken)
  <2>1. WindowInv
    BY DEF EditingInv
  <2>2. /\ DOMAIN window' = {"doing", "ids", "taken", "backend", "todo", "failed"}
        /\ window'.doing = window.doing /\ window'.ids = window.ids
        /\ window'.taken = window.taken /\ window'.failed = Failed(r, answer.told)
        /\ window'.backend = window.backend /\ window'.todo = Tail(window.todo)
    BY <1>7, <2>1 DEF WindowInv
  <2>3. Tail(window.todo) \in Seq(S)
    <3>1. window.todo \in Seq(S)
      BY <2>1 DEF WindowInv
    <3>. HIDE DEF S
    <3>2. QED
      BY <1>2, <3>1
  <2>4. window.doing = "deleting" =>
            window.ids \intersect IdsIn(list') \subseteq
                Failed(r, answer.told) \union {q.id : q \in ToSet(Tail(window.todo))}
    BY <1>1, <1>2, DeletionGoesOn
  <2>5. WindowInv'
    BY <1>3, <1>5, <2>1, <2>2, <2>3, <2>4 DEF WindowInv
  <2>6. QED
    BY <1>2, <1>4, <2>5 DEF EditingInv
<1>8. QED
  BY <1>1, <1>6, <1>7 DEF AskedFor

LEMMA ConsoleChange ==
    ASSUME EditingInv, Console
    PROVE  \E r \in ConsoleRequests : \E answer :
              /\ Does(r, answer) /\ list' = answer.list /\ Later(answer.list)
              /\ Becomes(answer.list) /\ UNCHANGED <<view, window>>
<1>1. PICK r \in ConsoleRequests, backend \in Backends :
          \E answer \in Call(backend, r) : Becomes(answer.list)
  BY DEF Console
<1>2. PICK answer \in Call(backend, r) : Becomes(answer.list)
  BY <1>1
<1>3. ListInv /\ GoodRequest(r)
  BY ConsoleIsGood DEF EditingInv
<1>4. Does(r, answer)
  BY <1>3, CallDoes
<1>5. Later(answer.list)
  BY <1>3, <1>4, DoesLater
<1>6. QED
  BY <1>2, <1>4, <1>5 DEF Becomes, Console

LEMMA SyncChange ==
    ASSUME EditingInv, Sync
    PROVE  /\ Later(list') /\ Becomes(list') /\ UNCHANGED <<view, window>>
           /\ \E source \in Importers, listed \in SUBSET NamesIn(list') :
                 Records(list') = DR!Reconciled(Records(list), source, listed)
<1>1. PICK source \in Importers, listing \in Listings :
          Becomes(reconcile(list, source, containers_to_domains(listing), issued))
  BY DEF Sync
<1>. DEFINE wanted == containers_to_domains(listing)
            t == reconcile(list, source, wanted, issued)
<1>2. Wanted(wanted) /\ ListInv
  BY ListingIsWanted DEF EditingInv
<1>. HIDE DEF wanted
<1>3. Later(t) /\ \E listed \in SUBSET NamesIn(t) :
                     Records(t) = DR!Reconciled(Records(list), source, listed)
  BY <1>2, ReconcileDoes
<1>4. Becomes(t)
  BY <1>1 DEF wanted
<1>. HIDE DEF t
<1>5. list' = t
  BY <1>4 DEF Becomes
<1>6. QED
  BY <1>3, <1>4, <1>5 DEF Sync

LEMMA EditingInit == Init => EditingInv
<1>. SUFFICES ASSUME Init PROVE EditingInv
  OBVIOUS
<1>1. ListInv
  <2>1. list = <<>> /\ issued = 0
    BY DEF Init
  <2>2. <<>> \in Seq(Record) /\ Len(<<>>) = 0
    OBVIOUS
  <2>3. ToSet(<<>>) = {<<>>[i] : i \in 1..Len(<<>>)}
    BY <2>2, ItemsAre
  <2>4. ToSet(<<>>) = {}
    BY <2>2, <2>3
  <2>5. GoodList(<<>>, 0)
    BY <2>2, <2>4 DEF GoodList
  <2>6. QED
    BY <2>1, <2>5 DEF ListInv
<1>2. issued <= MaxIssued
  <2>1. MaxIssued \in Nat
    BY EditingAssumption
  <2>2. QED
    BY <2>1 DEF Init
<1>3. ViewInv
  <2>1. view = <<>> /\ <<>> \in Seq(Row) /\ Len(<<>>) = 0
    BY DEF Init
  <2>2. QED
    BY <2>1 DEF ViewInv
<1>4. WindowInv
  BY DEF Init, WindowInv, Idle, Backends, Doings
<1>5. QED
  BY <1>1, <1>2, <1>3, <1>4 DEF EditingInv

LEMMA EditingStep == EditingInv /\ [Next]_vars => EditingInv'
<1>. SUFFICES ASSUME EditingInv, [Next]_vars PROVE EditingInv'
  OBVIOUS
<1>1. CASE Refresh
  BY <1>1, RefreshKeeps
<1>2. CASE OpenAdd \/ OpenEdit \/ OpenDelete
  BY <1>2, OpenKeeps
<1>3. CASE Cancel
  BY <1>3, CloseKeeps DEF Cancel
<1>4. CASE AcceptAdd
  BY <1>4, AcceptAddKeeps
<1>5. CASE AcceptEdit
  BY <1>5, AcceptEditKeeps
<1>6. CASE ConfirmDelete
  BY <1>6, ConfirmKeeps
<1>7. CASE Click
  BY <1>7, ClickKeeps
<1>8. CASE Ask
  BY <1>8, AskKeeps
<1>9. CASE Console
  <2>1. PICK r, answer : /\ Later(answer.list) /\ Becomes(answer.list)
                         /\ UNCHANGED <<view, window>>
    BY <1>9, ConsoleChange
  <2>2. QED
    BY <2>1, ChangeKeeps
<1>10. CASE Sync
  BY <1>10, SyncChange, ChangeKeeps
<1>11. CASE UNCHANGED vars
  <2>1. ListInv' /\ issued' <= MaxIssued /\ ViewInv'
    BY <1>11 DEF vars, EditingInv, ListInv, ViewInv
  <2>2. WindowInv'
    BY <1>11 DEF vars, EditingInv, WindowInv
  <2>3. QED
    BY <2>1, <2>2 DEF EditingInv
<1>12. QED
  BY <1>1, <1>2, <1>3, <1>4, <1>5, <1>6, <1>7, <1>8, <1>9, <1>10, <1>11 DEF Next, Window

LEMMA EditingStaysGood == Spec => []EditingInv
BY EditingInit, EditingStep, PTL DEF Spec

-----------------------------------------------------------------------------
(* What follows. *)

LEMMA GoodIsTyped == EditingInv => EditingTypeOK
<1>. SUFFICES ASSUME EditingInv PROVE EditingTypeOK
  OBVIOUS
<1>1. /\ list \in Seq(Record) /\ DOMAIN list = 1..Len(list)
      /\ issued \in Nat /\ issued <= MaxIssued /\ MaxIssued \in Nat
      /\ \A j, k \in 1..Len(list) : list[j].id = list[k].id => j = k
  <2>1. list \in Seq(Record) /\ \A j, k \in 1..Len(list) : list[j].id = list[k].id => j = k
    BY DEF EditingInv, ListInv, GoodList
  <2>2. DOMAIN list = 1..Len(list)
    BY <2>1
  <2>3. issued \in Nat /\ issued <= MaxIssued /\ MaxIssued \in Nat
    BY EditingAssumption DEF EditingInv, ListInv
  <2>4. QED
    BY <2>1, <2>2, <2>3
<1>2. \A k \in 1..Len(list) : Usable(list[k].name)
  <2>1. \A k \in 1..Len(list) : list[k] \in ToSet(list)
    BY <1>1 DEF ToSet
  <2>2. QED
    BY <2>1 DEF EditingInv, ListInv, GoodList
<1>3. view \in Seq(Row)
  BY DEF EditingInv, ViewInv
<1>4. /\ window.doing \in Doings /\ window.taken \subseteq Seq(Labels)
      /\ window.ids \subseteq 1..issued /\ window.failed \subseteq 0..issued
      /\ window.backend \in Backends
  BY DEF EditingInv, WindowInv
<1>5. window.ids \union window.failed \subseteq 0..MaxIssued
  BY <1>1, <1>4
<1>6. window.doing = "nothing" => window.todo = <<>>
  <2>1. window.todo \in Seq(MayAsk(window.doing, window.ids, window.taken))
    BY DEF EditingInv, WindowInv
  <2>2. ASSUME window.doing = "nothing" PROVE window.todo \in Seq({})
    BY <2>1, <2>2 DEF MayAsk
  <2>3. \A s \in Seq({}) : s = <<>>
    OBVIOUS
  <2>4. QED
    BY <2>2, <2>3
<1>7. QED
  BY <1>1, <1>2, <1>3, <1>4, <1>5, <1>6 DEF EditingTypeOK, Usable, Row, Doings

\* Every variable keeps its type; the names in the list are usable and normalised, and no
\* two records share an id, whoever changes the list.
THEOREM EditingTypeCorrect == Spec => []EditingTypeOK
BY EditingStaysGood, GoodIsTyped, PTL

LEMMA GoodAgrees == EditingInv => BackendsAgree
<1>. SUFFICES ASSUME EditingInv, NEW r \in ToSet(window.todo) \union ConsoleRequests
              PROVE  Http(list, r) = Local(list, r)
  BY DEF BackendsAgree
<1>1. CASE r \in ToSet(window.todo)
  <2>. DEFINE S == MayAsk(window.doing, window.ids, window.taken)
  <2>1. window.todo \in Seq(S) /\ window.doing \in Doings
    BY DEF EditingInv, WindowInv
  <2>2. r \in S
    <3>. HIDE DEF S
    <3>1. QED
      BY <1>1, <2>1, ItemsAre
  <2>3. GoodRequest(r)
    BY <2>1, <2>2, MayAskIs
  <2>4. QED
    BY <2>3, GoodDoes, SoundAgrees DEF EditingInv
<1>2. CASE r \in ConsoleRequests
  BY <1>2, ConsoleIsGood, GoodDoes, SoundAgrees DEF EditingInv
<1>3. QED
  BY <1>1, <1>2

\* Whatever the list has become, through whichever interface: the daemon and the store on
\* its own make the same of every request the window is about to make or the console may.
THEOREM BackendsAlwaysAgree == Spec => []BackendsAgree
BY EditingStaysGood, GoodAgrees, PTL

-----------------------------------------------------------------------------
(* The list does what DomainRecords says of the bare records. *)

LEMMA EditIsRecordEdit ==
    ASSUME NEW r, EditOf(r, list'),
           Rename(r, list') => window.doing = "editing" /\ \A n : r.name = {n} => n \notin window.taken
    PROVE  RecordEdit
<1>1. CASE Rename(r, list')
  <2>1. PICK o \in DR!Editable(Records(list)), n \in NamesIn(list') :
            Records(list') = DR!Renamed(Records(list), o, n) /\ r.name = {n}
    BY <1>1 DEF Rename
  <2>2. window.doing = "editing" /\ n \notin window.taken
    BY <1>1, <2>1
  <2>3. QED
    BY <2>1, <2>2 DEF RecordEdit
<1>2. CASE ~ Rename(r, list')
  BY <1>2 DEF EditOf, RecordEdit
<1>3. QED
  BY <1>1, <1>2

LEMMA StepIsRecordEdit == EditingInv /\ [Next]_vars => [RecordEdit]_list
<1>. SUFFICES ASSUME EditingInv, [Next]_vars, list' # list PROVE RecordEdit
  OBVIOUS
<1>1. CASE Ask
  <2>1. PICK r, answer : AskedFor(r, answer)
    BY <1>1, AskIs
  <2>2. Does(r, answer) /\ list' = answer.list
        /\ r \in MayAsk(window.doing, window.ids, window.taken) /\ window.doing \in Doings
    BY <2>1 DEF AskedFor, EditingInv, WindowInv
  <2>3. EditOf(r, list')
    BY <2>2 DEF Does
  <2>4. r.op = "update" => window.doing = "editing" /\ \E n : r.name = {n} /\ n \notin window.taken
    BY <2>2, MayAskIs DEF Doings
  <2>5. Rename(r, list') => r.op = "update"
    BY DEF Rename
  <2>6. \A n, m : {n} = {m} => n = m
    OBVIOUS
  <2>7. ASSUME r.op = "update" PROVE \A n : r.name = {n} => n \notin window.taken
    BY <2>4, <2>6, <2>7
  <2>8. QED
    BY <2>3, <2>4, <2>5, <2>7, EditIsRecordEdit
<1>2. CASE Console
  <2>0. PICK r \in ConsoleRequests : \E answer : Does(r, answer) /\ list' = answer.list
    BY <1>2, ConsoleChange
  <2>1. PICK answer : Does(r, answer) /\ list' = answer.list
    BY <2>0
  <2>2. EditOf(r, list')
    BY <2>1 DEF Does
  <2>3. ~ Rename(r, list')
    <3>1. ~ (r.op = "update" /\ r.name # {})
      BY ConsoleIsGood
    <3>2. QED
      BY <3>1 DEF Rename
  <2>4. QED
    BY <2>2, <2>3, EditIsRecordEdit
<1>3. CASE Sync
  BY <1>3, SyncChange DEF RecordEdit
<1>4. CASE Refresh \/ OpenAdd \/ OpenEdit \/ OpenDelete \/ Cancel \/ Click
  BY <1>4 DEF Refresh, OpenAdd, OpenEdit, OpenDelete, Shows, Cancel, Click
<1>5. CASE AcceptAdd \/ AcceptEdit \/ ConfirmDelete
  BY <1>5 DEF AcceptAdd, AcceptEdit, ConfirmDelete, Submit
<1>6. CASE UNCHANGED vars
  BY <1>6 DEF vars
<1>7. QED
  BY <1>1, <1>2, <1>3, <1>4, <1>5, <1>6 DEF Next, Window

\* Whatever is asked, by whom and through which backend, and whatever an importer sees: a step
\* is one of the operations DomainRecords allows.  A name comes to be there twice only where the
\* dialog renames to one that was not in the list it was opened over.
THEOREM EditsImplementRecords == Spec => EditsAreRecordEdits
<1>1. EditingInv /\ [Next]_vars => [RecordEdit]_list
  BY StepIsRecordEdit
<1>2. QED
  BY <1>1, EditingStaysGood, PTL DEF Spec, EditsAreRecordEdits

-----------------------------------------------------------------------------
(* What the window says when it is done. *)

LEMMA NobodyElseAnswers ==
    ASSUME EditingInv, [Next]_vars, ~ Ask, window.todo # <<>>
    PROVE  UNCHANGED window
<1>1. window.doing # "nothing"
  <2>1. window.todo \in Seq(MayAsk(window.doing, window.ids, window.taken))
    BY DEF EditingInv, WindowInv
  <2>2. ASSUME window.doing = "nothing" PROVE window.todo \in Seq({})
    BY <2>1, <2>2 DEF MayAsk
  <2>3. \A s \in Seq({}) : s = <<>>
    OBVIOUS
  <2>4. QED
    BY <2>2, <2>3
<1>2. ~ Open /\ ~ Refresh
  BY DEF Open, Refresh
<1>3. ~ (OpenAdd \/ OpenEdit \/ OpenDelete \/ Click)
  BY <1>1 DEF OpenAdd, OpenEdit, OpenDelete, Click, Shows
<1>4. ~ (Cancel \/ AcceptAdd \/ AcceptEdit \/ ConfirmDelete)
  BY <1>2 DEF Cancel, AcceptAdd, AcceptEdit, ConfirmDelete, Submit
<1>5. CASE Console \/ Sync
  BY <1>5 DEF Console, Sync
<1>6. CASE UNCHANGED vars
  BY <1>6 DEF vars
<1>7. QED
  BY <1>2, <1>3, <1>4, <1>5, <1>6 DEF Next, Window

LEMMA StepTells == EditingInv /\ [Next]_vars => [LastAnswer]_vars
<1>. SUFFICES ASSUME EditingInv, [Next]_vars, window.todo # <<>>, window'.todo = <<>>
              PROVE  LastAnswer
  BY DEF LastAnswer
<1>1. Ask
  BY NobodyElseAnswers
<1>2. PICK r, answer : AskedFor(r, answer)
  BY <1>1, AskIs
<1>3. /\ r = Head(window.todo) /\ r \in MayAsk(window.doing, window.ids, window.taken)
      /\ window.doing \in Doings
      /\ answer.told = "done" => Met(r, list')
  BY <1>2 DEF AskedFor, EditingInv, WindowInv
<1>4. Rest(answer.told) = <<>> /\ window'.failed = Failed(r, answer.told)
  <2>1. CASE /\ Rest(answer.told) # <<>>
             /\ window' = [window EXCEPT !.todo = Tail(@), !.failed = Failed(r, answer.told)]
    <3>1. "todo" \in DOMAIN window
      BY DEF EditingInv, WindowInv
    <3>2. window'.todo = Tail(window.todo)
      BY <2>1, <3>1
    <3>3. QED
      BY <2>1, <3>2 DEF Rest
  <2>2. CASE /\ Rest(answer.told) = <<>>
             /\ window' = [Idle EXCEPT !.failed = Failed(r, answer.told)]
    BY <2>2 DEF Idle
  <2>3. QED
    BY <1>2, <2>1, <2>2 DEF AskedFor
<1>5. ASSUME window.doing = "deleting"
      PROVE  window.ids \intersect IdsIn(list') \subseteq window'.failed
  <2>1. Tail(window.todo) = <<>>
    BY <1>4, <1>5 DEF Rest
  <2>2. window.ids \intersect IdsIn(list') \subseteq
            Failed(r, answer.told) \union {q.id : q \in ToSet(Tail(window.todo))}
    BY <1>2, <1>5, DeletionGoesOn
  <2>3. ToSet(<<>>) = {}
    <3>1. <<>> \in Seq({}) /\ Len(<<>>) = 0
      OBVIOUS
    <3>2. ToSet(<<>>) = {<<>>[i] : i \in 1..Len(<<>>)}
      BY <3>1, ItemsAre
    <3>3. QED
      BY <3>1, <3>2
  <2>4. QED
    BY <1>4, <2>1, <2>2, <2>3
<1>6. ASSUME window'.failed = {} PROVE Met(r, list')
  <2>1. Failed(r, answer.told) = {}
    BY <1>4, <1>6
  <2>2. answer.told = "done"
    BY <2>1 DEF Failed
  <2>3. QED
    BY <1>3, <2>2
<1>7. ASSUME window.doing \in {"editing", "toggling"}, window'.failed = {}
      PROVE  \E d \in ToSet(list') :
                /\ d.id = r.id /\ d.name = Or(r.name, d.name)
                /\ d.address = Or(r.address, d.address)
                /\ d.enabled = Or(r.enabled, d.enabled)
  <2>1. r.op \in {"update", "toggle"}
    <3>1. /\ window.doing = "editing" => r.op = "update"
          /\ window.doing = "toggling" => r.op = "toggle"
      BY <1>3, MayAskIs
    <3>2. QED
      BY <1>7, <3>1
  <2>2. QED
    BY <1>6, <1>7, <2>1 DEF Met
<1>8. ASSUME window.doing = "adding", window'.failed = {} PROVE Only(r.name) \in NamesIn(list')
  <2>1. r.op = "create"
    BY <1>3, <1>8, MayAskIs
  <2>2. QED
    BY <1>6, <1>8, <2>1 DEF Met
<1>9. QED
  BY <1>3, <1>5, <1>7, <1>8 DEF LastAnswer

\* What the window says at the end is true of the list, whatever the console and the importers
\* have made of it between its requests: no record that was to go and is still there is left
\* unmentioned, and what failed is never shown as done.
THEOREM FailuresAlwaysTold == Spec => FailuresAreTold
<1>1. EditingInv /\ [Next]_vars => [LastAnswer]_vars
  BY StepTells
<1>2. QED
  BY <1>1, EditingStaysGood, PTL DEF Spec, FailuresAreTold
=============================================================================
