----------------------------- MODULE ItemGroups -----------------------------
(***************************************************************************)
(* spead2.ItemGroup and spead2.send.HeapGenerator (spead2/__init__.py,     *)
(* spead2/send/__init__.py): a sender changes the items of its group tx    *)
(* and makes heaps of what is stale, and a receiver updates its own group  *)
(* rx from the heaps that arrive.  The receiver may start again, and heaps *)
(* may be lost.  The two sides share nothing but the heaps, so one on its  *)
(* way arrives or is lost before the sender's next step.                   *)
(*                                                                         *)
(* Items are objects: item[o] is the o-th one a group created.  by_id maps *)
(* IDs to objects, by_name lists the objects in the order of the           *)
(* dictionary.                                                             *)
(***************************************************************************)
EXTENDS ItemCodec, FiniteSets

CONSTANTS
    Offers,     \* for every descriptor_frequency (a number of heaps, or 0 for None)
                \* what add_item is called with: [id, name, meta, value]
    ValuesOf(_),            \* the values the user assigns to items of a metadata
    Requests,   \* the pairs <<descriptors, data>> get_heap is called with
    MaxSteps,   \* bound on the sender's calls
    MaxTroubles \* bound on lost heaps and restarts

VARIABLES
    tx, rx,             \* [item, by_id, by_name]
    info,               \* HeapGenerator._info, and the object whose value was added
                        \* last (given, history)
    descriptor_frequency,
    descriptor_cnt, steps,
    network,            \* the heap on its way
    last,               \* history: what the heap just received was made of, whether
                        \* there was trouble before it, and whether update raised
    joined,             \* history: descriptor_cnt when the receiver started
    trouble,            \* history: a heap was lost, a call raised, or a value went
                        \* before its descriptor
    troubles
vars == <<tx, rx, info, descriptor_frequency, descriptor_cnt, steps, network, last,
          joined, trouble, troubles>>

_UNRESERVED_ID == 4096
STREAM_CTRL_ID == 6
Ids == _UNRESERVED_ID.._UNRESERVED_ID + MaxSteps

NoGroup == [item |-> <<>>, by_id |-> [i \in Ids |-> 0], by_name |-> <<>>]
NoInfo == [version |-> 0, descriptor_cnt |-> -1, item |-> 0, given |-> 0]
NoHeap == [items |-> <<>>, descriptors |-> "none", data |-> "none",
           sent |-> {}, unnoticed |-> {}, before |-> FALSE, raised |-> FALSE]

Init ==
    /\ tx = NoGroup /\ rx = NoGroup
    /\ info = [i \in Ids |-> NoInfo]
    /\ descriptor_frequency \in DOMAIN Offers /\ descriptor_cnt = 0 /\ steps = 0
    /\ network = <<>> /\ last = NoHeap /\ joined = 0 /\ trouble = FALSE /\ troubles = 0

-----------------------------------------------------------------------------
(* ItemGroup *)

Members(g) == {g.by_id[i] : i \in {j \in Ids : g.by_id[j] # 0}}
Named(g, name) == {o \in ToSet(g.by_name) : g.item[o].name = name}

\* The setter of Item.value.
assign(g, o, value) ==
    [g EXCEPT !.item[o].value = value, !.item[o].version = @ + 1]

_remove_item(g, o) ==
    [g EXCEPT !.by_id[g.item[o].id] = 0, !.by_name = SelectSeq(@, LAMBDA x : x # o)]

\* Mutant: only the item of the same ID is dropped.
RemoveById(g, it) ==
    IF g.by_id[it.id] = 0 THEN g ELSE _remove_item(g, g.by_id[it.id])

\* The existing items with the same name or ID are dropped.
remove_old(g, it) ==
    LET old == {g.by_id[it.id]} \ {0} IN
    FoldLeft(_remove_item, g, SetToSeq(old \cup Named(g, it.name)))

\* Mutant: the version of an item dropped for its name is not looked at.
VersionById(g, it) ==
    IF g.by_id[it.id] = 0 THEN it.version ELSE g.item[g.by_id[it.id]].version + 1

\* The version is seen to increment, whether accessed by name or by ID.
new_version(g, it) ==
    LET old == ({g.by_id[it.id]} \ {0}) \cup Named(g, it.name) IN
    Max({it.version} \cup {g.item[o].version + 1 : o \in old})

_add_item(g, it) ==
    LET old == g.by_id[it.id]
        same == old # 0 /\ g.item[old].name = it.name /\ g.item[old].meta = it.meta
        new == Len(g.item) + 1
        removed == remove_old(g, it)
    IN  IF same
        THEN IF it.value = NoValue THEN g ELSE assign(g, old, it.value)
        ELSE [item |-> Append(g.item, [it EXCEPT !.version = new_version(g, it)]),
              by_id |-> [removed.by_id EXCEPT ![it.id] = new],
              by_name |-> Append(removed.by_name, new)]

\* add_item; an ID of 0 is None, and the first unused one is taken.
AddItem(offer) ==
    LET id == IF offer.id # 0 THEN offer.id
              ELSE Min({i \in Ids : tx.by_id[i] = 0})
    IN  /\ steps < MaxSteps /\ network = <<>> /\ valid(offer.meta)
        /\ tx' = _add_item(tx, [id |-> id, name |-> offer.name, meta |-> offer.meta,
                                value |-> offer.value, version |-> 1])
        /\ steps' = steps + 1
        /\ last' = NoHeap
        /\ UNCHANGED <<rx, info, descriptor_frequency, descriptor_cnt, network, joined,
                       trouble, troubles>>

SetValue(o) ==
    /\ steps < MaxSteps /\ network = <<>>
    /\ \E v \in ValuesOf(tx.item[o].meta) : tx' = assign(tx, o, v)
    /\ steps' = steps + 1
    /\ last' = NoHeap
    /\ UNCHANGED <<rx, info, descriptor_frequency, descriptor_cnt, network, joined,
                   trouble, troubles>>

-----------------------------------------------------------------------------
(* HeapGenerator *)

\* Mutant: a descriptor is due one heap late.
DueLate(i) ==
    descriptor_frequency # 0 /\ descriptor_cnt - i.descriptor_cnt > descriptor_frequency

due(i) ==
    descriptor_frequency # 0 /\ descriptor_cnt - i.descriptor_cnt >= descriptor_frequency

\* Complete replacement of the item: the weak reference is to another object.
replaced(o, i) == i.item # o

\* _descriptor_stale: the answer, and the information it leaves.
_descriptor_stale(o, i) ==
    IF i.descriptor_cnt = -1 \/ due(i) THEN [stale |-> TRUE, info |-> i]
    ELSE IF replaced(o, i) THEN [stale |-> TRUE, info |-> [i EXCEPT !.version = 0, !.item = o]]
    ELSE [stale |-> FALSE, info |-> i]

_get_info(it, o, all) ==
    IF all[it.id] = NoInfo THEN [NoInfo EXCEPT !.item = o] ELSE all[it.id]

\* heap_wrapper::add_descriptor and add_item: an item on the wire.
wire_descriptor(it) ==
    [id |-> it.id, descriptor |-> TRUE, is_immediate |-> FALSE, bytes |-> <<>>,
     packet |-> encode_descriptor(to_raw(it.id, it.name, it.meta))]

immediate(it) ==
    allow_immediate(it.meta) /\ Len(to_buffer(it.meta, it.value)) <= immediate_size

wire_item(it) ==
    LET bytes == to_buffer(it.meta, it.value)
        padding == [i \in 1..(immediate_size - Len(bytes)) |-> 0]
    IN  [id |-> it.id, descriptor |-> FALSE, is_immediate |-> immediate(it),
         bytes |-> IF immediate(it) THEN padding \o bytes ELSE bytes]

\* One iteration of add_to_heap, which raises if the value cannot be encoded.
add_one(s, o, descriptors, data) ==
    LET it == tx.item[o]
        i0 == _get_info(it, o, s.info)
        check == _descriptor_stale(o, i0)
        i1 == IF descriptors = "stale" THEN check.info ELSE i0
        describe == descriptors = "all" \/ (descriptors = "stale" /\ check.stale)
        i2 == IF describe THEN [i1 EXCEPT !.descriptor_cnt = descriptor_cnt] ELSE i1
        add == it.value # NoValue
               /\ (data = "all" \/ (data = "stale" /\ i2.version # it.version))
        ok == ~add \/ sendable(it.meta, it.value)
        i3 == IF add /\ ok THEN [i2 EXCEPT !.version = it.version, !.given = o] ELSE i2
    IN  IF s.raised THEN s
        ELSE [items |-> s.items \o (IF describe THEN <<wire_descriptor(it)>> ELSE <<>>)
                                \o (IF add /\ ok THEN <<wire_item(it)>> ELSE <<>>),
              info |-> [s.info EXCEPT ![it.id] = i3], raised |-> ~ok]

\* Items whose value was in no heap although the generator believes it sent: the
\* object has been replaced by another of the same version.
Unnoticed(all) ==
    {o \in ToSet(tx.by_name) :
       LET i == all[tx.item[o].id] IN
       i.item # o /\ i.version = tx.item[o].version /\ i.given # o}

\* The heap has a value whose current descriptor never was in a heap, which the
\* user may ask for with descriptors = "none".
Undescribed(s) ==
    \E o \in ToSet(tx.by_name) :
       LET i == s.info[tx.item[o].id] IN
       /\ \E k \in DOMAIN s.items : ~s.items[k].descriptor /\ s.items[k].id = tx.item[o].id
       /\ i.descriptor_cnt = -1 \/ (i.item # o /\ i.descriptor_cnt # descriptor_cnt)

\* get_heap; when it raises, the heap is lost and the information kept.
GetHeap(descriptors, data) ==
    LET s == FoldLeft(LAMBDA acc, o : add_one(acc, o, descriptors, data),
                      [items |-> <<>>, info |-> info, raised |-> FALSE], tx.by_name)
    IN  /\ steps < MaxSteps /\ network = <<>>
        /\ steps' = steps + 1
        /\ info' = s.info
        /\ descriptor_cnt' = IF s.raised THEN descriptor_cnt ELSE descriptor_cnt + 1
        /\ trouble' = (trouble \/ s.raised \/ Undescribed(s))
        /\ network' = IF s.raised THEN network
                      ELSE Append(network,
                             [items |-> s.items, descriptors |-> descriptors, data |-> data,
                              sent |-> {tx.item[o] : o \in ToSet(tx.by_name)},
                              unnoticed |-> {tx.item[o] : o \in Unnoticed(s.info)},
                              before |-> FALSE, raised |-> FALSE])
        /\ last' = NoHeap
        /\ UNCHANGED <<tx, rx, descriptor_frequency, joined, troubles>>

\* get_start and get_end: a heap with a control item only.
GetMarker ==
    /\ steps < MaxSteps /\ network = <<>>
    /\ steps' = steps + 1
    /\ network' = Append(network, [NoHeap EXCEPT !.items =
           <<[id |-> STREAM_CTRL_ID, descriptor |-> FALSE, is_immediate |-> TRUE,
              bytes |-> [i \in 1..immediate_size |-> 0]]>>])
    /\ last' = NoHeap
    /\ UNCHANGED <<tx, rx, info, descriptor_frequency, descriptor_cnt, joined, trouble,
                   troubles>>

-----------------------------------------------------------------------------
(* The receiver *)

\* The items of the heap that heap_base::load keeps: the addressed ones that
\* are not empty, and after them the immediates, sorted by value.
immediate_value(w) == get_bits(w.bytes, 0, heap_address_bits)
get_items(heap) ==
    SelectSeq(heap.items, LAMBDA w : ~w.descriptor /\ ~w.is_immediate /\ w.bytes # <<>>)
    \o SortSeq(SelectSeq(heap.items, LAMBDA w : w.is_immediate),
               LAMBDA v, w : immediate_value(v) < immediate_value(w))
get_descriptors(heap) ==
    LET d == SelectSeq(heap.items, LAMBDA w : w.descriptor)
    IN  [k \in DOMAIN d |-> to_descriptor(d[k].packet)]

update_descriptor(s, raw) ==
    LET m == from_raw(raw) IN
    IF s.raised THEN s
    ELSE IF ~valid(m) THEN [s EXCEPT !.raised = TRUE]
    ELSE [s EXCEPT !.group = _add_item(@, [id |-> raw.id, name |-> raw.name, meta |-> m,
                                           value |-> NoValue, version |-> 1])]

\* The version is incremented by the setter and once more here.
update_item(s, w) ==
    LET o == s.group.by_id[w.id]
        value == set_from_raw(s.group.item[o].meta, w)
    IN  IF s.raised \/ w.id <= STREAM_CTRL_ID \/ o = 0 THEN s
        ELSE IF value = Raises THEN [s EXCEPT !.raised = TRUE]
        ELSE [s EXCEPT !.group = [assign(@, o, value) EXCEPT !.item[o].version = @ + 1]]

updated(g, heap) ==
    FoldLeft(update_item,
             FoldLeft(update_descriptor, [group |-> g, raised |-> FALSE], get_descriptors(heap)),
             get_items(heap))

Update ==
    LET s == updated(rx, Head(network)) IN
    /\ network # <<>>
    /\ rx' = s.group
    /\ last' = [Head(network) EXCEPT !.items = <<>>, !.before = trouble, !.raised = s.raised]
    /\ trouble' = (trouble \/ s.raised)
    /\ network' = Tail(network)
    /\ UNCHANGED <<tx, info, descriptor_frequency, descriptor_cnt, steps, joined, troubles>>

LoseHeap ==
    /\ network # <<>> /\ troubles < MaxTroubles
    /\ network' = Tail(network)
    /\ trouble' = TRUE /\ troubles' = troubles + 1
    /\ UNCHANGED <<tx, rx, info, descriptor_frequency, descriptor_cnt, steps, last, joined>>

\* A receiver that joins late, with an empty group.
Restart ==
    /\ network = <<>> /\ troubles < MaxTroubles /\ descriptor_cnt > 0 /\ ~trouble
    /\ rx' = NoGroup /\ last' = NoHeap
    /\ joined' = descriptor_cnt /\ troubles' = troubles + 1
    /\ UNCHANGED <<tx, info, descriptor_frequency, descriptor_cnt, steps, network, trouble>>

Next ==
    \/ \E offer \in Offers[descriptor_frequency] : AddItem(offer)
    \/ \E o \in ToSet(tx.by_name) : SetValue(o)
    \/ \E r \in Requests : GetHeap(r[1], r[2])
    \/ GetMarker \/ Update \/ LoseHeap \/ Restart

Spec == Init /\ [][Next]_vars

-----------------------------------------------------------------------------
(* Properties *)

\* Both dictionaries of an ItemGroup hold the same items, each under its own ID
\* and name, whatever is added, replaced or received (_remove_item deletes from
\* both, and would raise KeyError otherwise).
Consistent(g) ==
    /\ \A i \in Ids : g.by_id[i] # 0 => g.item[g.by_id[i]].id = i
    /\ ToSet(g.by_name) = Members(g) /\ Len(g.by_name) = Cardinality(Members(g))
    /\ \A o \in Members(g) : Named(g, g.item[o].name) = {o}
GroupsConsistent == Consistent(tx) /\ Consistent(rx)

Has(g, it) ==
    /\ g.by_id[it.id] # 0
    /\ g.item[g.by_id[it.id]].name = it.name /\ g.item[g.by_id[it.id]].meta = it.meta

\* The protocol cannot carry every value: a variable-size item of no bytes is
\* not received, and one of fractional bytes has no certain length.
Carried(it) ==
    /\ it.value # NoValue
    /\ is_variable_size(it.meta) => it.value.elements # <<>> /\ itemsize_bits(it.meta) >= 8

\* The value cannot be read back, and update raises: a numpy array with no
\* elements is an immediate, and raw_value[-0:] takes all of its padding.
Unreadable(it) ==
    /\ it.value # NoValue /\ it.value.elements = <<>>
    /\ immediate(it) /\ _fastpath(it.meta) = "numpy"

\* The receiver's group holds every item of the sender, with the descriptor and
\* the value it had when the heap was made: after any heap with all descriptors
\* and all data, and, as long as nothing was lost and nothing raised before,
\* after any heap of what was stale ("all the new items and item descriptors
\* since the last call").  update raises for an unreadable item and for no other
\* reason; the descriptors and the addressed items are in the group even so.
Mirrored ==
    \/ last.descriptors = "all" /\ last.data = "all"
    \/ last.descriptors = "stale" /\ last.data = "stale" /\ ~last.before /\ joined = 0
    =>
    /\ last.raised => \E it \in last.sent : Unreadable(it)
    /\ \A it \in last.sent :
         /\ Has(rx, it)
         /\ Carried(it) /\ it \notin last.unnoticed /\ (last.raised => ~immediate(it))
            => rx.item[rx.by_id[it.id]].value = it.value

\* What add_item, update and get_heap of both sides keep: no item is in one
\* dictionary and not in the other, and the receiver's group is the sender's,
\* whenever a heap can be read.
GroupsSound == GroupsConsistent /\ Mirrored

\* A receiver that joins late knows every descriptor of the sender after
\* descriptor_frequency heaps made of what was stale.
LateJoinerLearns ==
    /\ last.descriptors = "stale" /\ ~last.before
    /\ descriptor_frequency # 0 /\ descriptor_cnt >= joined + descriptor_frequency
    => \A it \in last.sent : Has(rx, it)

\* "Consumers who only check the version will detect the change": the item found
\* under an ID or a name changes only with a higher version; a heap with several
\* descriptors is excepted, since the second may bring back what the first
\* removed, with a version that starts again.
Grows(g, h) ==
    \A o \in Members(g), p \in Members(h) :
       \/ g.item[o].id # h.item[p].id /\ g.item[o].name # h.item[p].name
       \/ g.item[o] = h.item[p]
       \/ g.item[o].version < h.item[p].version
VersionsGrow ==
    [][/\ Grows(tx, tx')
       /\ Grows(rx, rx') \/ (network # <<>> /\ Len(get_descriptors(Head(network))) > 1)]_vars
=============================================================================
