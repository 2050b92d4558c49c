----------------------------- MODULE TableCodec -----------------------------
(***************************************************************************)
(* The AMQP field-table codec of pika/table.py: encode_table and           *)
(* decode_table, over byte sequences (offsets from 0).                     *)
(*                                                                         *)
(* A table is the Python dict handed to encode_table, as the sequence of   *)
(* its <<key, value>> pairs in iteration order; a key is a sequence of     *)
(* bytes.  A value is a record tagged by its Python type:                  *)
(*   [t |-> "S", s |-> bytes]              str                             *)
(*   [t |-> "I", i |-> n]                  int                             *)
(*   [t |-> "D", digits |-> n, exp |-> e]  Decimal digits * 10^e           *)
(*   [t |-> "T", secs |-> n]               datetime, whole UTC seconds     *)
(*   [t |-> "F", tab |-> table]            dict                            *)
(*   [t |-> "A", items |-> values]         list                            *)
(* A failed struct.pack/unpack or a raised error is a result with ok FALSE.*)
(*                                                                         *)
(* A byte is a digit of base Base: the code's 256 does not fit TLC's       *)
(* integers once packed into 8 bytes, so a model run uses a smaller base.  *)
(* Field widths in bytes are the code's, and so are the signed and         *)
(* unsigned ranges relative to them; the type letters are distinct bytes.  *)
(***************************************************************************)
EXTENDS Integers, Sequences, SequencesExt

CONSTANT Base

ASSUME Base \in 7..14

\* The byte codes of the type letters.
TypeCode == [S |-> 1, I |-> 2, D |-> 3, T |-> 4, F |-> 5, A |-> 6]

Fail == [ok |-> FALSE, bytes |-> <<>>]
Packed(b) == [ok |-> TRUE, bytes |-> b]

\* Mutant: the range check admits Base^w, which wraps to zero.
Unsigned_InclusiveBound(n, w) ==
    IF 0 =< n /\ n =< Base^w
    THEN Packed([i \in 1..w |-> (n \div Base^(w - i)) % Base])
    ELSE Fail

\* struct.pack of an unsigned big-endian integer of w bytes ('B', '>I',
\* '>Q'): fails unless 0 <= n < Base^w.
Unsigned(n, w) ==
    IF 0 =< n /\ n < Base^w
    THEN Packed([i \in 1..w |-> (n \div Base^(w - i)) % Base])
    ELSE Fail

\* struct.pack of a signed big-endian integer ('>i'): two's complement.
Signed(n, w) ==
    IF -(Base^w \div 2) =< n /\ n < Base^w \div 2
    THEN Unsigned((n + Base^w) % Base^w, w)
    ELSE Fail

\* Pieces appended one after the other; an exception stops the encoding.
Cat(r1, r2) == IF r1.ok /\ r2.ok THEN Packed(r1.bytes \o r2.bytes) ELSE Fail

\* Decimal.normalize(): strip trailing zeros; zero becomes 0E0.
RECURSIVE Normalize(_)
Normalize(d) ==
    IF d.digits = 0 THEN [d EXCEPT !.exp = 0]
    ELSE IF d.digits % 10 = 0
         THEN Normalize([d EXCEPT !.digits = d.digits \div 10, !.exp = d.exp + 1])
         ELSE d

-----------------------------------------------------------------------------
(***************************************************************************)
(* encode_table(pieces, table).  A field's result carries, besides the     *)
(* bytes, "acct": what the code adds to tablesize for it.  EncodeTable     *)
(* returns the bytes (length prefix first) and "ret", the code's return    *)
(* value tablesize + 4.                                                    *)
(***************************************************************************)
Field(r, acct) == [ok |-> r.ok, bytes |-> r.bytes, acct |-> acct]

\* The scalar branches of the isinstance chain.
EncodeScalar(v) ==
    CASE v.t = "S" -> Field(Cat(Unsigned(TypeCode.S, 1),
                                Cat(Unsigned(Len(v.s), 4), Packed(v.s))),
                            5 + Len(v.s))
      [] v.t = "I" -> Field(Cat(Unsigned(TypeCode.I, 1), Unsigned(v.i, 4)), 5)
      [] v.t = "D" ->
           LET d == Normalize(v)
           IN Field(IF d.exp < 0
                    THEN Cat(Unsigned(TypeCode.D, 1),
                             Cat(Unsigned(-d.exp, 1), Signed(d.digits, 4)))
                    ELSE Cat(Unsigned(TypeCode.D, 1),
                             Cat(Unsigned(0, 1), Unsigned(d.digits * 10^d.exp, 4))),
                    6)
      [] v.t = "T" -> Field(Cat(Unsigned(TypeCode.T, 1), Unsigned(v.secs, 8)), 9)

RECURSIVE EncodeTable(_)

\* Mutant: a nested dict adds encode_table's result without the byte of
\* its type letter.
EncodeValue_NoTagByte(v) ==
    CASE v.t \in {"S", "I", "D", "T"} -> EncodeScalar(v)
      [] v.t = "F" ->
           LET r == EncodeTable(v.tab)
           IN Field(Cat(Unsigned(TypeCode.F, 1), r), r.ret)
      [] v.t = "A" ->
           LET items == [i \in 1..Len(v.items) |->
                           IF v.items[i].t = "F" THEN EncodeTable(v.items[i].tab)
                           ELSE Fail]
               ok    == \A i \in 1..Len(items) : items[i].ok
               piece == [i \in 1..Len(items) |-> items[i].bytes]
               joined == IF ok THEN Packed(FlattenSeq(piece)) ELSE Fail
           IN Field(Cat(Unsigned(TypeCode.A, 1),
                        Cat(Unsigned(Len(joined.bytes), 4), joined)),
                    5 + Len(joined.bytes))

\* One value: a dict recurses into encode_table; a list encodes each item
\* with encode_table into a separate piece list (an item that is not a
\* dict has no iteritems and raises).
EncodeValue(v) ==
    CASE v.t \in {"S", "I", "D", "T"} -> EncodeScalar(v)
      [] v.t = "F" ->
           LET r == EncodeTable(v.tab)
           IN Field(Cat(Unsigned(TypeCode.F, 1), r), 1 + r.ret)
      [] v.t = "A" ->
           LET items == [i \in 1..Len(v.items) |->
                           IF v.items[i].t = "F" THEN EncodeTable(v.items[i].tab)
                           ELSE Fail]
               ok    == \A i \in 1..Len(items) : items[i].ok
               piece == [i \in 1..Len(items) |-> items[i].bytes]
               joined == IF ok THEN Packed(FlattenSeq(piece)) ELSE Fail
           IN Field(Cat(Unsigned(TypeCode.A, 1),
                        Cat(Unsigned(Len(joined.bytes), 4), joined)),
                    5 + Len(joined.bytes))

\* encode_table: per key, pack('B', len(key)), the key and the value;
\* tablesize sums what the code adds per field; the placeholder becomes
\* pack('>I', tablesize); the result is tablesize + 4.
EncodeTable(t) ==
    LET fields == [i \in 1..Len(t) |->
                    LET key == t[i][1]
                        r   == EncodeValue(t[i][2])
                        b   == Cat(Cat(Unsigned(Len(key), 1), Packed(key)), r)
                    IN [ok |-> b.ok, bytes |-> b.bytes, acct |-> 1 + Len(key) + r.acct]]
        tablesize == FoldLeft(LAMBDA a, f : a + f.acct, 0, fields)
        body == Packed(FlattenSeq([i \in 1..Len(fields) |-> fields[i].bytes]))
        all  == Cat(Unsigned(tablesize, 4), body)
    IN IF (\A i \in 1..Len(fields) : fields[i].ok) /\ all.ok
       THEN [ok |-> TRUE, bytes |-> all.bytes, ret |-> tablesize + 4]
       ELSE [ok |-> FALSE, bytes |-> <<>>, ret |-> 0]

-----------------------------------------------------------------------------
(***************************************************************************)
(* decode_table(encoded, offset): returns the dict, as the sequence of its *)
(* pairs, and the offset after it.                                         *)
(***************************************************************************)
DFail == [ok |-> FALSE, val |-> <<>>, off |-> 0]
DOk(v, o) == [ok |-> TRUE, val |-> v, off |-> o]

\* struct.unpack_from of a w-byte unsigned big-endian integer at offset o.
Unpack(b, o, w) ==
    IF 0 =< o /\ o + w =< Len(b)
    THEN [ok |-> TRUE,
          n  |-> FoldLeft(LAMBDA a, x : a * Base + x, 0, SubSeq(b, o + 1, o + w))]
    ELSE [ok |-> FALSE, n |-> 0]

\* encoded[from:to], which Python clamps to the end of the buffer.
Slice(b, from, to) == SubSeq(b, from + 1, IF to < Len(b) THEN to ELSE Len(b))

\* result[key] = value
Store(acc, key, v) ==
    IF \E i \in 1..Len(acc) : acc[i][1] = key
    THEN LET i == CHOOSE i \in 1..Len(acc) : acc[i][1] = key
         IN [acc EXCEPT ![i] = <<key, v>>]
    ELSE Append(acc, <<key, v>>)

RECURSIVE DecodeTable(_, _), DecodeFields(_, _, _, _), DecodeItems(_, _, _, _)

\* The branches on the type letter.  "D" reads the scale and an unsigned
\* '>I' mantissa: value = raw * 10^-decimals.
DecodeValue(b, kind, o) ==
    CASE kind = TypeCode.S ->
           LET l == Unpack(b, o, 4)
           IN IF l.ok THEN DOk([t |-> "S", s |-> Slice(b, o + 4, o + 4 + l.n)],
                               o + 4 + l.n)
              ELSE DFail
      [] kind = TypeCode.I ->
           LET n == Unpack(b, o, 4)
           IN IF n.ok THEN DOk([t |-> "I", i |-> n.n], o + 4) ELSE DFail
      [] kind = TypeCode.D ->
           LET dec == Unpack(b, o, 1)
               raw == Unpack(b, o + 1, 4)
           IN IF dec.ok /\ raw.ok
              THEN DOk([t |-> "D", digits |-> raw.n, exp |-> -dec.n], o + 5)
              ELSE DFail
      [] kind = TypeCode.T ->
           LET n == Unpack(b, o, 8)
           IN IF n.ok THEN DOk([t |-> "T", secs |-> n.n], o + 8) ELSE DFail
      [] kind = TypeCode.F ->
           LET r == DecodeTable(b, o)
           IN IF r.ok THEN DOk([t |-> "F", tab |-> r.val], r.off) ELSE DFail
      [] kind = TypeCode.A ->
           LET l == Unpack(b, o, 4)
               r == DecodeItems(b, o + 4, o + 4 + l.n, <<>>)
           IN IF l.ok /\ r.ok /\ r.off = o + 4 + l.n
              THEN DOk([t |-> "A", items |-> r.val], r.off)
              ELSE DFail
      [] OTHER -> DFail

\* The while loop over the fields, up to offset + tablesize.
DecodeFields(b, o, limit, acc) ==
    IF o >= limit THEN DOk(acc, o)
    ELSE LET kl  == Unpack(b, o, 1)
             key == Slice(b, o + 1, o + 1 + kl.n)
             ko  == o + 1 + kl.n
             r   == DecodeValue(b, b[ko + 1], ko + 1)
         IN IF ~kl.ok \/ ko >= Len(b) \/ ~r.ok THEN DFail
            ELSE DecodeFields(b, r.off, limit, Store(acc, key, r.val))

\* The items of an array: one decode_table each, up to offset_end.
DecodeItems(b, o, end, acc) ==
    IF o >= end THEN DOk(acc, o)
    ELSE LET r == DecodeTable(b, o)
         IN IF r.ok THEN DecodeItems(b, r.off, end, Append(acc, [t |-> "F", tab |-> r.val]))
            ELSE DFail

DecodeTable(b, o) ==
    LET size == Unpack(b, o, 4)
    IN IF size.ok THEN DecodeFields(b, o + 4, o + 4 + size.n, <<>>) ELSE DFail

-----------------------------------------------------------------------------
(***************************************************************************)
(* Python equality of the values: dicts ignore order, Decimals compare by  *)
(* value.                                                                  *)
(***************************************************************************)
RECURSIVE Canon(_), CanonTable(_)
Canon(v) ==
    CASE v.t = "D" -> [t |-> "D", d |-> Normalize(v)]
      [] v.t = "F" -> [t |-> "F", tab |-> CanonTable(v.tab)]
      [] v.t = "A" -> [t |-> "A", items |-> [i \in 1..Len(v.items) |-> Canon(v.items[i])]]
      [] OTHER -> v
CanonTable(t) ==
    [k \in {t[i][1] : i \in 1..Len(t)} |->
        Canon(t[CHOOSE i \in 1..Len(t) : t[i][1] = k][2])]
=============================================================================
