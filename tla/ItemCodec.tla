----------------------------- MODULE ItemCodec -----------------------------
(***************************************************************************)
(* spead2.Descriptor and spead2.Item (spead2/__init__.py), with the wire   *)
(* form of a descriptor (send_heap.cpp, recv_heap.cpp): how the value of   *)
(* an item becomes bytes and how the receiver makes a value of them.       *)
(*                                                                         *)
(* The metadata m of an item: description (empty or not), shape (-1 is     *)
(* None), dtype (NoType, or a number of `size` bytes, little-endian or     *)
(* not), order, format (a sequence of [code, length]).  A value is its     *)
(* shape and its elements in C order, each a tuple of fields.              *)
(***************************************************************************)
EXTENDS Integers, SequencesExt

CONSTANTS
    heap_address_bits,  \* of the flavour
    bug_compat          \* the set of bug_compat flags of the flavour

NoType == [size |-> 0, little |-> FALSE]
NoValue == [shape |-> <<-1>>, elements |-> <<>>]
Raises == [shape |-> <<-2>>, elements |-> <<>>]

immediate_size == heap_address_bits \div 8

-----------------------------------------------------------------------------
(* Descriptor *)

_shape_elements(shape) == FoldLeft(LAMBDA n, x : n * x, 1, shape)

\* The fields for which _parse_format finds a numpy type.
numpy_field(f) ==
    \/ f.code \in {"u", "i"} /\ f.length \in {8, 16, 32, 64}
    \/ f.code = "f" /\ f.length \in {32, 64}
    \/ f.code \in {"b", "c"} /\ f.length = 8

_parse_format(format) ==
    /\ format # <<>>
    /\ \A i \in DOMAIN format :
         /\ format[i].length > 0
         /\ numpy_field(format[i]) \/ format[i].code \in {"u", "i", "b"}

\* The constructor does not raise.
valid(m) ==
    LET unknowns == {i \in DOMAIN m.shape : m.shape[i] = -1} IN
    /\ \A i, j \in unknowns : i = j
    /\ IF m.dtype # NoType
       THEN m.format = <<>> /\ unknowns = {}
       ELSE m.order = "C" /\ _parse_format(m.format)
    /\ m.order \in {"C", "F"}

_fastpath(m) ==
    IF m.dtype # NoType \/ \A i \in DOMAIN m.format : numpy_field(m.format[i]) THEN "numpy"
    ELSE IF m.shape = <<>> /\ Len(m.format) = 1 /\ m.format[1].code \in {"u", "i"}
         THEN "immediate"
         ELSE "none"

itemsize_bits(m) ==
    IF m.dtype # NoType THEN 8 * m.dtype.size
    ELSE FoldLeft(LAMBDA n, f : n + f.length, 0, m.format)

is_variable_size(m) == \E i \in DOMAIN m.shape : m.shape[i] = -1

allow_immediate(m) ==
    ~is_variable_size(m) /\ (m.dtype # NoType \/ itemsize_bits(m) % 8 = 0)

dynamic_shape(m, max_elements) ==
    LET known == _shape_elements(SelectSeq(m.shape, LAMBDA x : x # -1))
        free == IF known = 0 THEN 0 ELSE max_elements \div known
    IN  [i \in DOMAIN m.shape |-> IF m.shape[i] = -1 THEN free ELSE m.shape[i]]

compatible_shape(m, shape) ==
    /\ Len(shape) = Len(m.shape)
    /\ \A i \in DOMAIN shape : m.shape[i] \in {-1, shape[i]}

-----------------------------------------------------------------------------
(* Descriptors on the wire.  The numpy header carries shape, order and     *)
(* dtype; a string or a sequence of length 0 is an item of length 0.       *)

swapped(t) ==
    IF "SWAP_ENDIAN" \in bug_compat THEN [t EXCEPT !.little = ~@] ELSE t

NoHeader == [shape |-> <<>>, order |-> "C", dtype |-> NoType]

to_raw(id, name, m) ==
    [id |-> id, name |-> name, description |-> m.description, shape |-> m.shape,
     format |-> m.format,
     numpy_header |-> IF m.dtype = NoType THEN NoHeader
                      ELSE [shape |-> m.shape, order |-> m.order, dtype |-> swapped(m.dtype)]]

\* The items of the packet that is the descriptor; a dimension is a tag byte
\* and a size.
variable_tag == IF "SHAPE_BIT_1" \in bug_compat THEN 2 ELSE 1

encode_descriptor(raw) ==
    [id |-> raw.id, name |-> raw.name, description |-> raw.description,
     format |-> raw.format,
     shape |-> [i \in DOMAIN raw.shape |->
                  IF raw.shape[i] < 0 THEN <<variable_tag, 0>> ELSE <<0, raw.shape[i]>>],
     dtype |-> raw.numpy_header]

\* heap::to_descriptor, a missing item leaving the default, which is empty.
\* DTYPE overrides format and shape.
to_descriptor(packet) ==
    LET numpy == packet.dtype # NoHeader
        dim(x) == IF (x[1] \div variable_tag) % 2 = 1 THEN -1 ELSE x[2]
    IN  [id |-> packet.id, name |-> packet.name, description |-> packet.description,
         shape |-> IF numpy THEN <<>> ELSE [i \in DOMAIN packet.shape |-> dim(packet.shape[i])],
         format |-> IF numpy THEN <<>> ELSE packet.format,
         numpy_header |-> packet.dtype]

\* The metadata Item.from_raw gives to its constructor.
from_raw(raw) ==
    LET h == raw.numpy_header
        numpy == h # NoHeader
    IN  [description |-> raw.description,
         shape |-> IF numpy THEN h.shape ELSE raw.shape,
         dtype |-> IF numpy THEN swapped(h.dtype) ELSE NoType,
         order |-> IF numpy THEN h.order ELSE "C",
         format |-> raw.format]

-----------------------------------------------------------------------------
(* Bit fields *)

pow(n) == 2 ^ n

\* One value sent to the generator _write_bits: the bytes written, and the bits
\* that do not fill a byte yet.
put_bits(s, value, bits) ==
    LET current == s.current * pow(bits) + value
        total == s.bits + bits
    IN  [out |-> s.out \o [i \in 1..(total \div 8) |-> (current \div pow(total - 8 * i)) % 256],
         current |-> current % pow(total % 8), bits |-> total % 8]

\* close() flushes the partial byte.
close_bits(s) ==
    IF s.bits > 0 THEN Append(s.out, s.current * pow(8 - s.bits)) ELSE s.out

\* The bits [first, first + need) of the bytes: what _read_bits yields when
\* first bits have been taken.
get_bits(bytes, first, need) ==
    LET lo == first \div 8 + 1
        hi == (first + need - 1) \div 8 + 1
        bits == FoldLeft(LAMBDA n, b : n * 256 + b, 0, SubSeq(bytes, lo, hi))
    IN  (bits \div pow(8 * hi - (first + need))) % pow(need)

\* _store_recursive, for one field: in range, and as a natural.
storable(f, x) ==
    CASE f.code = "u" -> 0 <= x /\ x < pow(f.length)
      [] f.code = "i" -> -pow(f.length - 1) <= x /\ x < pow(f.length - 1)
      [] OTHER -> TRUE
store_field(f, x) == IF f.code = "i" /\ x < 0 THEN x + pow(f.length) ELSE x

\* _load_recursive, for one field.
load_field(f, raw) ==
    IF f.code = "i" /\ raw >= pow(f.length - 1) THEN raw - pow(f.length) ELSE raw

\* A number of the dtype is an unsigned field of its size.
fields(m) ==
    IF m.dtype # NoType THEN <<[code |-> "u", length |-> 8 * m.dtype.size]>> ELSE m.format

-----------------------------------------------------------------------------
(* Item *)

\* The k-th number of an array of this shape in Fortran order is the
\* fortran(shape, k)-th in C order; arrays of at most two dimensions.
fortran(shape, k) ==
    IF Len(shape) < 2 THEN k
    ELSE ((k - 1) % shape[1]) * shape[2] + (k - 1) \div shape[1] + 1

in_order(m, shape, elements) ==
    IF m.order = "C" THEN elements
    ELSE [k \in DOMAIN elements |-> elements[fortran(shape, k)]]
from_order(m, shape, elements) ==
    IF m.order = "C" THEN elements
    ELSE [k \in DOMAIN elements |->
            elements[CHOOSE j \in DOMAIN elements : fortran(shape, j) = k]]

\* The bytes of one number: a little-endian one is reversed.
ends(m, bytes) == IF m.dtype.little THEN Reverse(bytes) ELSE bytes

\* to_buffer raises: wrong shape, or a field out of range.
sendable(m, v) ==
    /\ compatible_shape(m, v.shape)
    /\ \A e \in DOMAIN v.elements : \A i \in DOMAIN fields(m) :
          storable(fields(m)[i], v.elements[e][i])

to_bytes(m, element) ==
    FoldLeft(LAMBDA s, i : put_bits(s, store_field(fields(m)[i], element[i]), fields(m)[i].length),
             [out |-> <<>>, current |-> 0, bits |-> 0], [i \in DOMAIN fields(m) |-> i])

to_buffer(m, v) ==
    LET ordered == in_order(m, v.shape, v.elements)
        flat == FlattenSeq([e \in DOMAIN ordered |->
                   [i \in DOMAIN fields(m) |-> <<store_field(fields(m)[i], ordered[e][i]),
                                                 fields(m)[i].length>>]])
    IN  IF m.dtype # NoType
        THEN FlattenSeq([e \in DOMAIN ordered |-> ends(m, to_bytes(m, ordered[e]).out)])
        ELSE close_bits(FoldLeft(LAMBDA s, f : put_bits(s, f[1], f[2]),
                                 [out |-> <<>>, current |-> 0, bits |-> 0], flat))

\* raw_value[-size:], which is everything if size is 0.
tail(bytes, size) ==
    IF size = 0 THEN bytes ELSE SubSeq(bytes, Len(bytes) - size + 1, Len(bytes))

\* The bytes of the item: immediates get head padding instead of tail padding.
\* On the bit path an addressed item is not cut.
raw_bytes(m, raw, size) ==
    IF raw.is_immediate THEN tail(raw.bytes, size)
    ELSE IF _fastpath(m) = "numpy" THEN SubSeq(raw.bytes, 1, size) ELSE raw.bytes

\* set_from_raw: the new value.  reshape raises if the number of bytes is wrong.
set_from_raw(m, raw) ==
    LET max_elements == (8 * Len(raw.bytes)) \div itemsize_bits(m)
        shape == dynamic_shape(m, max_elements)
        elements == _shape_elements(shape)
        size_bytes == (elements * itemsize_bits(m) + 7) \div 8
        bytes == raw_bytes(m, raw, size_bytes)
        first(e, i) == (e - 1) * itemsize_bits(m)
                       + FoldLeft(LAMBDA n, f : n + f.length, 0, SubSeq(fields(m), 1, i - 1))
        number(e) == LET n == m.dtype.size
                     IN  get_bits(ends(m, SubSeq(bytes, (e - 1) * n + 1, e * n)), 0, 8 * n)
        element(e) == IF m.dtype # NoType THEN <<number(e)>>
                      ELSE [i \in DOMAIN m.format |->
                              load_field(m.format[i],
                                         get_bits(bytes, first(e, i), m.format[i].length))]
        whole == /\ _fastpath(m) = "immediate" /\ raw.is_immediate
                 /\ 8 * Len(raw.bytes) = m.format[1].length
    IN  IF whole
        THEN [shape |-> <<>>, elements |->
                <<<<load_field(m.format[1], get_bits(raw.bytes, 0, m.format[1].length))>>>>]
        ELSE
        IF \/ elements > max_elements
           \/ _fastpath(m) = "numpy" /\ Len(bytes) # size_bytes
        THEN Raises
        ELSE [shape |-> shape,
              elements |-> from_order(m, shape, [e \in 1..elements |-> element(e)])]
=============================================================================
