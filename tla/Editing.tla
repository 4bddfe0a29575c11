------------------------------ MODULE Editing ------------------------------
(***************************************************************************)
(* Changing the list of domains: the window's tab and dialog               *)
(* (src/ui/domains_tab.py, src/ui/domain_dialog.py), the console screen    *)
(* (src/ui/console.py) and the importers, through the two backends of the  *)
(* bridge (src/client/api.py) and the routes of the control API            *)
(* (src/daemon/api.py), down to what DomainStore makes of the list.        *)
(*                                                                         *)
(* A request is one step: DomainStore, which implements AtomicStore, is    *)
(* why.  The window decides what to ask from the list it shows, which may  *)
(* be old; the console and the importers act between any two requests of   *)
(* it.  The note of a record, and the times, are left out; ids are numbers *)
(* given out in turn.                                                      *)
(***************************************************************************)
EXTENDS Zone, Sublists, SequencesExt

CONSTANTS
    Typed,          \* names as they are typed, or as labels give them
    TypedAddresses, \* addresses as they are typed, "" included
    DefaultAddress, \* 127.0.0.1
    Importers,      \* sources of discovered records
    Listings,       \* what an importer may see: sequences of [name, address]
    MaxRecords,     \* records in the list
    MaxIssued       \* ids a behaviour gives out

ASSUME EditingAssumption ==
    /\ \A raw \in Typed : raw \in Seq(Labels)
    /\ DefaultAddress \in Addresses /\ "" \notin Addresses
    /\ TypedAddresses \subseteq Addresses \union {""}
    /\ "manual" \notin Importers
    /\ \A s \in Listings : s \in Seq([name : Typed, address : Addresses])
    /\ {MaxRecords, MaxIssued} \subseteq Nat

VARIABLES
    list,       \* domains.json: a sequence of records
    issued,     \* ids given out so far
    view,       \* the list the window shows, as far as it decides anything
    window      \* [doing, ids, taken, backend, todo, failed]: what its tab is
                \* at, the records that is about, the names its dialog refuses,
                \* the requests still to make and what has failed

vars == <<list, issued, view, window>>

Record == [id : Nat, name : Seq(Labels), address : Addresses,
           source : {"manual"} \union Importers, enabled : BOOLEAN]

NamesIn(domains) == {domains[k].name : k \in DOMAIN domains}
IdsIn(domains) == {domains[k].id : k \in DOMAIN domains}
is_discovered(d) == d.source # "manual"

(* Fields a body need not have are sets of at most one value.              *)
Request(op, id, name, address, enabled) ==
    [op |-> op, id |-> id, name |-> name, address |-> address, enabled |-> enabled]

NoId == 0
Create(name, address) == Request("create", NoId, {name}, {address}, {})
Update(id, name, address) == Request("update", id, name, {address}, {})
Toggle(id, enabled) == Request("toggle", id, {}, {}, enabled)
Delete(id) == Request("delete", id, {}, {}, {})

Only(field) == CHOOSE x \in field : TRUE
Or(field, otherwise) == IF field = {} THEN otherwise ELSE Only(field)

-----------------------------------------------------------------------------
(* The operations of DomainStore on the list it read under its lock.       *)

Outcome(domains, how) == [list |-> domains, how |-> how]

by_name(domains, name) ==
    {k \in DOMAIN domains : normalise(domains[k].name) = normalise(name)}
with_id(domains, id) == {k \in DOMAIN domains : domains[k].id = id}

\* Mutant: add looks at manual records only.
AddBesideDiscovered(domains, d) ==
    IF \E k \in by_name(domains, d.name) : ~ is_discovered(domains[k])
    THEN Outcome(domains, "taken")
    ELSE Outcome(Append(domains, d), "done")

add(domains, d) ==
    IF by_name(domains, d.name) # {}
    THEN Outcome(domains, "taken")
    ELSE Outcome(Append(domains, d), "done")

update(domains, r) ==
    LET k == Min(with_id(domains, r.id))
        d == domains[k]
    IN  IF with_id(domains, r.id) = {} THEN Outcome(domains, "missing")
        ELSE IF is_discovered(d) THEN Outcome(domains, "managed")
        ELSE Outcome([domains EXCEPT ![k] =
                [d EXCEPT !.name = Or(r.name, d.name),
                          !.address = Or(r.address, d.address),
                          !.enabled = Or(r.enabled, d.enabled)]], "done")

(* Discovered records too: nobody need say to what.                        *)
toggle(domains, r) ==
    LET k == Min(with_id(domains, r.id))
    IN  IF with_id(domains, r.id) = {} THEN Outcome(domains, "missing")
        ELSE Outcome([domains EXCEPT ![k].enabled = Or(r.enabled, ~ @)], "done")

delete(domains, r) ==
    LET k == Min(with_id(domains, r.id))
    IN  IF with_id(domains, r.id) = {} THEN Outcome(domains, "missing")
        ELSE IF is_discovered(domains[k]) THEN Outcome(domains, "managed")
        ELSE Outcome(RemoveAt(domains, k), "done")

\* Mutant: names are kept as the labels give them.
ContainersAsGiven(listed) ==
    LET firsts == {i \in DOMAIN listed :
            /\ validate(listed[i].name).ok
            /\ \A j \in 1..(i - 1) :
                    normalise(listed[j].name) # normalise(listed[i].name)}
    IN  Sublist(listed, firsts)

(* What the labels of a listing ask for: usable names, each once.          *)
containers_to_domains(listed) ==
    LET firsts == {i \in DOMAIN listed :
            /\ validate(listed[i].name).ok
            /\ \A j \in 1..(i - 1) :
                    normalise(listed[j].name) # normalise(listed[i].name)}
        usable == Sublist(listed, firsts)
    IN  [i \in 1..Len(usable) |->
            [name |-> normalise(usable[i].name), address |-> usable[i].address]]

(* A record of another source has the name: the first that has it decides. *)
Clash(domains, source, name) ==
    by_name(domains, name) # {} /\ domains[Min(by_name(domains, name))].source # source

(* The owner of a discovered record is host:<name>.                        *)
reconcile(domains, source, wanted, newest) ==
    LET Mine(d) == d.source = source
        Observed(d) == \E w \in ToSet(wanted) : w.name = d.name
        Refreshed(d) ==
            IF Mine(d) /\ ~ Clash(domains, source, d.name)
            THEN [d EXCEPT !.address = (CHOOSE w \in ToSet(wanted) : w.name = d.name).address]
            ELSE d
        kept == Sublist(domains, {k \in DOMAIN domains : Mine(domains[k]) => Observed(domains[k])})
        new == Sublist(wanted, {k \in DOMAIN wanted :
                    /\ ~ Clash(domains, source, wanted[k].name)
                    /\ \A d \in ToSet(domains) : Mine(d) => d.name # wanted[k].name})
    IN  [k \in 1..Len(kept) |-> Refreshed(kept[k])]
        \o [k \in 1..Len(new) |->
                [id |-> newest + k, name |-> new[k].name, address |-> new[k].address,
                 source |-> source, enabled |-> TRUE]]

-----------------------------------------------------------------------------
(* The two backends: what a request does, and what the bridge says of it.  *)

Answer(outcome) ==
    [list |-> outcome.list,
     told |-> IF outcome.how \in {"done", "taken"} THEN outcome.how ELSE "error"]

Invalid(domains) == [list |-> domains, told |-> "error"]

New(r, enabled) ==
    [id |-> issued + 1, name |-> validate(Only(r.name)).name,
     address |-> Or(r.address \ {""}, DefaultAddress), source |-> "manual",
     enabled |-> enabled]

Unusable(r) == r.name # {} /\ ~ validate(Only(r.name)).ok

(* The routes of the daemon, as the client reads their status.             *)
Http(domains, r) ==
    CASE r.op = "create" ->
            IF Unusable(r) THEN Invalid(domains)
            ELSE Answer(add(domains, New(r, Or(r.enabled, TRUE))))
      [] r.op = "update" ->
            IF Unusable(r) \/ <<r.name, r.address, r.enabled>> = <<{}, {}, {}>>
            THEN Invalid(domains)
            ELSE Answer(update(domains, [r EXCEPT !.name = {validate(n).name : n \in @}]))
      [] r.op = "toggle" -> Answer(toggle(domains, r))
      [] r.op = "delete" -> Answer(delete(domains, r))

(* The store itself.                                                       *)
Local(domains, r) ==
    CASE r.op = "create" ->
            IF Unusable(r) THEN Invalid(domains) ELSE Answer(add(domains, New(r, TRUE)))
      [] r.op = "update" -> Answer(update(domains, r))
      [] r.op = "toggle" -> Answer(toggle(domains, r))
      [] r.op = "delete" -> Answer(delete(domains, r))

Backends == {"http", "local"}

(* A request is carried out and answered; or refused by the lock, by a     *)
(* newer file or by a daemon that is gone; or, over HTTP, carried out and  *)
(* its answer lost.                                                        *)
Call(backend, r) ==
    LET done == IF backend = "http" THEN Http(list, r) ELSE Local(list, r)
    IN  {done, Invalid(list)}
            \union (IF backend = "http" THEN {[done EXCEPT !.told = "error"]} ELSE {})

(* The bounds: of the list and of the ids.                                 *)
Becomes(domains) ==
    /\ Len(domains) <= MaxRecords
    /\ list' = domains
    /\ issued' = Max({issued} \union IdsIn(domains))
    /\ issued' <= MaxIssued

-----------------------------------------------------------------------------
(* The window.  While a dialog is open the list behind it still follows    *)
(* the store; the names it refuses and the records it is about are those   *)
(* shown when it opened.  While requests are made nothing else runs.       *)

Idle == [doing |-> "nothing", ids |-> {}, taken |-> {}, backend |-> "local",
         todo |-> <<>>, failed |-> {}]

Init ==
    /\ list = <<>> /\ issued = 0
    /\ view = <<>>
    /\ window = Idle

Open == window.doing # "nothing" /\ window.todo = <<>>

(* The addresses in the table are only looked at.                          *)
Shown(domains) ==
    [k \in DOMAIN domains |->
        [id |-> domains[k].id, name |-> domains[k].name,
         source |-> domains[k].source, enabled |-> domains[k].enabled]]

Refresh ==
    /\ window.todo = <<>>
    /\ view' = Shown(list)
    /\ UNCHANGED <<list, issued, window>>

Shows(doing, ids, taken) ==
    /\ window.doing = "nothing"
    /\ window' = [Idle EXCEPT !.doing = doing, !.ids = ids, !.taken = taken]
    /\ UNCHANGED <<list, issued, view>>

OpenAdd == Shows("adding", {}, NamesIn(view))

(* Its own name an edited record may keep.                                 *)
OpenEdit ==
    \E k \in DOMAIN view :
        /\ ~ is_discovered(view[k])
        /\ Shows("editing", {view[k].id}, NamesIn(view) \ {view[k].name})

OpenDelete ==
    \E rows \in SUBSET DOMAIN view :
        /\ rows # {}
        /\ \A k \in rows : ~ is_discovered(view[k])
        /\ Shows("deleting", {view[k].id : k \in rows}, {})

Cancel ==
    /\ Open
    /\ window' = Idle
    /\ UNCHANGED <<list, issued, view>>

Submit(todo) ==
    /\ Open
    /\ \E backend \in Backends :
            window' = [window EXCEPT !.backend = backend, !.todo = todo]
    /\ UNCHANGED <<list, issued, view>>

(* What OK needs.                                                          *)
Blocked(raw) == ~ validate(raw).ok \/ validate(raw).name \in window.taken

\* Mutant: the dialog hands over what was typed.
ResultRaw(raw) == raw

result_values(raw) == validate(raw).name

TypedAddress(address) == IF address = "" THEN DefaultAddress ELSE address

(* A wildcard can be added together with its apex.                         *)
wants_apex(raw, ticked) ==
    LET apex == apex_of(validate(raw).name)
    IN  is_wildcard(validate(raw).name) /\ ticked /\ apex \notin window.taken

AcceptAdd ==
    /\ window.doing = "adding"
    /\ \E raw \in Typed, address \in TypedAddresses, ticked \in BOOLEAN :
            /\ ~ Blocked(raw)
            /\ Submit(<<Create(result_values(raw), TypedAddress(address))>>
                      \o IF wants_apex(raw, ticked)
                         THEN <<Create(apex_of(validate(raw).name), TypedAddress(address))>>
                         ELSE <<>>)

AcceptEdit ==
    /\ window.doing = "editing"
    /\ \E raw \in Typed, address \in TypedAddresses :
            /\ ~ Blocked(raw)
            /\ Submit(<<Update(Only(window.ids), {result_values(raw)}, TypedAddress(address))>>)

(* The rows in the order the table is sorted by: any.                      *)
ConfirmDelete ==
    /\ window.doing = "deleting"
    /\ \E rows \in SeqOf(window.ids, MaxRecords) :
            /\ IsInjective(rows) /\ ToSet(rows) = window.ids
            /\ Submit([k \in DOMAIN rows |-> Delete(rows[k])])

(* A click on a checkbox asks for the opposite of what it shows.           *)
Click ==
    \E k \in DOMAIN view, backend \in Backends :
        /\ window.doing = "nothing"
        /\ window' = [Idle EXCEPT !.doing = "toggling", !.ids = {view[k].id}, !.backend = backend,
                                  !.todo = <<Toggle(view[k].id, {~ view[k].enabled})>>]
        /\ UNCHANGED <<list, issued, view>>

\* Mutant: the last failure is the one that is shown.
FailedLast(r, told) == IF told = "done" THEN {} ELSE {r.id}

(* What has failed so far, this request included.                          *)
Failed(r, told) == window.failed \union (IF told = "done" THEN {} ELSE {r.id})

(* A failure ends what was begun, except a deletion of several.            *)
Rest(told) ==
    IF told = "done" \/ window.doing = "deleting" THEN Tail(window.todo) ELSE <<>>

(* The next request of the window; after the last the message is shown and *)
(* the list fetched, which may fail too.                                   *)
Ask ==
    /\ window.todo # <<>>
    /\ LET r == Head(window.todo)
       IN  \E answer \in Call(window.backend, r) :
            /\ Becomes(answer.list)
            /\ IF Rest(answer.told) # <<>>
               THEN /\ window' = [window EXCEPT !.todo = Tail(@), !.failed = Failed(r, answer.told)]
                    /\ UNCHANGED view
               ELSE /\ window' = [Idle EXCEPT !.failed = Failed(r, answer.told)]
                    /\ view' \in {view, Shown(list')}

-----------------------------------------------------------------------------
(* Beside the window.                                                      *)

(* What the console asks.  It names what it showed, which may be gone, and *)
(* edits and deletes manual records only; a toggle says no value, and an   *)
(* edit sends the address alone.                                           *)
UsableNames == {n \in Typed : validate(n).ok}
GivenAddresses == TypedAddresses \ {""}
IssuedIds == 1..issued

ConsoleCreates ==
    {Create(result_values(raw), address) : raw \in UsableNames, address \in GivenAddresses}

ConsoleEdits ==
    {Update(id, {}, address) : id \in IssuedIds, address \in GivenAddresses}
    \union {Delete(id) : id \in IssuedIds}

ConsoleRequests ==
    ConsoleCreates
    \union {Toggle(id, {}) : id \in IssuedIds}
    \union {r \in ConsoleEdits : \A k \in with_id(list, r.id) : ~ is_discovered(list[k])}

Console ==
    /\ \E r \in ConsoleRequests, backend \in Backends :
            \E answer \in Call(backend, r) : Becomes(answer.list)
    /\ UNCHANGED <<view, window>>

Sync ==
    /\ \E source \in Importers, listed \in Listings :
            Becomes(reconcile(list, source, containers_to_domains(listed), issued))
    /\ UNCHANGED <<view, window>>

Window ==
    \/ Refresh
    \/ OpenAdd
    \/ OpenEdit
    \/ OpenDelete
    \/ Cancel
    \/ AcceptAdd
    \/ AcceptEdit
    \/ ConfirmDelete
    \/ Click
    \/ Ask

Next ==
    \/ Window
    \/ Console
    \/ Sync

Spec == Init /\ [][Next]_vars

-----------------------------------------------------------------------------

(* Every variable keeps its type; the names in the list are usable and     *)
(* normalised, and no two records share an id.                             *)
EditingTypeOK ==
    /\ list \in Seq(Record)
    /\ view \in Seq([id : Nat, name : Seq(Labels),
                   source : {"manual"} \union Importers, enabled : BOOLEAN])
    /\ issued \in 0..MaxIssued
    /\ \A k \in DOMAIN list :
            /\ validate(list[k].name).ok /\ validate(list[k].name).name = list[k].name
            /\ \A j \in DOMAIN list : list[j].id = list[k].id => j = k
    /\ window.doing \in {"nothing", "adding", "editing", "deleting", "toggling"}
    /\ window.taken \subseteq Seq(Labels)
    /\ window.ids \union window.failed \subseteq 0..MaxIssued
    /\ window.backend \in Backends
    /\ window.doing = "nothing" => window.todo = <<>>

(* The two backends are interchangeable, as LocalBackend says of itself:   *)
(* whatever the window is about to ask or the console may ask, of whatever *)
(* the list has become meanwhile, the daemon and the store on its own make *)
(* the same list of it and the bridge says the same.  The routes validate  *)
(* and choose what they pass on and LocalBackend does not: it holds        *)
(* because of what the interfaces send.                                    *)
BackendsAgree ==
    \A r \in ToSet(window.todo) \union ConsoleRequests : Http(list, r) = Local(list, r)

(* An id is told from a name by its length: no usable name has one label.  *)
DR == INSTANCE DomainRecords
        WITH Names <- {n \in Seq(Labels) : Len(n) > 1}, Ids <- {<<id>> : id \in Nat}

Abstract(d) ==
    IF is_discovered(d) THEN DR!Discovered(d.source, d.name) ELSE DR!Manual(<<d.id>>, d.name)
Records(domains) == {Abstract(domains[k]) : k \in DOMAIN domains}

(* A step adds a name nobody has, renames or removes a manual record, or   *)
(* brings the records of one source in line.                               *)
RecordEdit ==
    LET was == Records(list)
        now == Records(list')
        names == NamesIn(list')
    IN  \/ now = was
        \/ \E k \in DOMAIN list' :
               /\ DR!MayAdd(was, <<list'[k].id>>, list'[k].name)
               /\ now = DR!Added(was, <<list'[k].id>>, list'[k].name)
        \/ \E r \in DR!Editable(was), n \in names :
               /\ now = DR!Renamed(was, r, n)
               /\ n \in {o.name : o \in was \ {r}} =>
                     window.doing = "editing" /\ n \notin window.taken
        \/ \E r \in DR!Editable(was) : now = was \ {r}
        \/ \E s \in Importers, listed \in SUBSET names :
               now = DR!Reconciled(was, s, listed)

(* A list with its order, addresses and switches does what DomainRecords   *)
(* says of the bare records, through either backend; a pass leaves the     *)
(* names of others alone.  Two records come to share a name in one way     *)
(* only: the dialog of the window renames a record to a name that was not  *)
(* in the list it was opened over.                                         *)
EditsAreRecordEdits == [][RecordEdit]_list

(* The last request of what the window began is answered.                  *)
LastAnswer ==
    LET done == window.todo # <<>> /\ window'.todo = <<>>
        r == Head(window.todo)
    IN  /\ done /\ window.doing = "deleting" =>
              window.ids \intersect IdsIn(list') \subseteq window'.failed
        /\ done /\ window.doing \in {"editing", "toggling"} /\ window'.failed = {} =>
              \E d \in ToSet(list') :
                 /\ d.id = r.id /\ d.name = Or(r.name, d.name)
                 /\ d.address = Or(r.address, d.address)
                 /\ d.enabled = Or(r.enabled, d.enabled)
        /\ done /\ window.doing = "adding" /\ window'.failed = {} =>
              Only(r.name) \in NamesIn(list')

(* What the window says when it is done: of the records it was to delete   *)
(* it names every one that is still there, and when it names none a record *)
(* it was to edit or switch is as it was asked to be.                      *)
FailuresAreTold == [][LastAnswer]_vars
=============================================================================
