---------------------------- MODULE MCItemGroups ----------------------------
(* Instances of ItemGroups: one item of every kind the codec tells apart. *)
EXTENDS ItemGroups

Field(code, length) == [code |-> code, length |-> length]
Generic(shape, format) ==
    [description |-> <<>>, shape |-> shape, dtype |-> NoType, order |-> "C", format |-> format]
Numpy(shape, size, little, order) ==
    [description |-> <<"d">>, shape |-> shape, dtype |-> [size |-> size, little |-> little],
     order |-> order, format |-> <<>>]
Scalar(x) == [shape |-> <<>>, elements |-> <<<<x>>>>]
Vector(s) == [shape |-> <<Len(s)>>, elements |-> [i \in DOMAIN s |-> <<s[i]>>]]

I24 == Generic(<<>>, <<Field("i", 24)>>)                        \* the immediate fast path
Nibbles == Generic(<<3>>, <<Field("i", 4)>>)                    \* 12 bits
Bytes == Generic(<<-1>>, <<Field("u", 8)>>)                     \* variable size
Flags == Generic(<<>>, <<Field("b", 1), Field("u", 7)>>)        \* a record
Little == Numpy(<<>>, 2, TRUE, "C")                             \* little-endian
Columns == Numpy(<<2, 2>>, 1, FALSE, "F")                       \* Fortran order
Empty == Numpy(<<0>>, 1, FALSE, "C")                            \* no bytes
Unknown == Numpy(<<-1>>, 1, FALSE, "C")                         \* not valid

MCValuesOf(m) ==
    CASE m = I24 -> {Scalar(-2), Scalar(8388608)}               \* the second is out of range
      [] m = Nibbles -> {Vector(<<7, -8, -1>>)}
      [] m = Bytes -> {Vector(<<>>), Vector(<<1, 2>>)}
      [] m = Flags -> {[shape |-> <<>>, elements |-> <<<<1, 100>>>>]}
      [] m = Little -> {Scalar(258)}
      [] m = Columns -> {[shape |-> <<2, 2>>, elements |-> <<<<1>>, <<2>>, <<3>>, <<4>>>>],
                         Vector(<<1>>)}                         \* the second has the wrong shape
      [] OTHER -> {Vector(<<>>)}

Offer(id, name, meta, value) == [id |-> id, name |-> name, meta |-> meta, value |-> value]
AllOffers ==
    {Offer(4096, "a", I24, Scalar(-2)), Offer(4097, "a", Nibbles, Vector(<<7, -8, -1>>)),
     Offer(4096, "b", I24, Scalar(5)), Offer(4097, "b", Bytes, NoValue),
     Offer(0, "c", Flags, [shape |-> <<>>, elements |-> <<<<1, 100>>>>]),
     Offer(0, "b", Little, Scalar(258)), Offer(4096, "c", Columns, NoValue),
     Offer(4097, "c", Empty, Vector(<<>>)), Offer(0, "a", Unknown, NoValue)}

\* With a descriptor in every heap, three items that replace one another: the
\* third has the ID of the first, and the version of the first when it was sent.
Replacements ==
    {Offer(4096, "a", I24, Scalar(-2)), Offer(4097, "a", Nibbles, Vector(<<7, -8, -1>>)),
     Offer(4096, "b", I24, Scalar(5))}
MCOffers == [f \in {1, 2} |-> IF f = 1 THEN Replacements ELSE AllOffers]

MCRequests ==
    {<<"stale", "stale">>, <<"all", "all">>, <<"all", "stale">>, <<"none", "stale">>,
     <<"stale", "none">>}
=============================================================================
