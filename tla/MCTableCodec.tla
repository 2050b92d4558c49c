---------------------------- MODULE MCTableCodec ----------------------------
(***************************************************************************)
(* A harness for TableCodec: a caller hands encode_table one table from a  *)
(* bounded pool, and the bytes it returns go to decode_table.             *)
(***************************************************************************)
EXTENDS TableCodec, FiniteSets

\* The values a table may hold; the cfg picks one of the pools below.
CONSTANT Values

\* Keys: the empty short string and a one-byte one.
Keys == {<<>>, <<1>>}

\* Tables: up to two fields with distinct keys, in insertion order.
Tables ==
    {<<>>} \cup {<<<<k, v>>>> : k \in Keys, v \in Values}
           \cup {<<<<<<>>, v>>, <<<<1>>, w>>>> : v \in Values, w \in Values}

\* Scalars of the four kinds, at and past the edges of their widths.
ScalarPool ==
    {[t |-> "S", s |-> s] : s \in {<<>>, <<6, 0>>}}
    \cup {[t |-> "I", i |-> i] : i \in {0, Base^4 - 1, Base^4}}
    \cup {[t |-> "D", digits |-> d, exp |-> e] : d \in {0, 7, 70, 5000}, e \in {-2, 0, 1}}
    \cup {[t |-> "T", secs |-> s] : s \in {0, Base^8 - 1}}

\* A nested dict and arrays of dicts, as the code encodes arrays.
NestedPool ==
    LET inner == [t |-> "F", tab |-> <<<<<<1>>, [t |-> "I", i |-> 3]>>>>]
    IN {inner, [t |-> "F", tab |-> <<>>],
        [t |-> "A", items |-> <<>>],
        [t |-> "A", items |-> <<inner, [t |-> "F", tab |-> <<>>]>>]}

RoundTripValues == ScalarPool \cup NestedPool

\* Adds Decimals with a negative mantissa.
NegativeDecimalValues ==
    RoundTripValues \cup {[t |-> "D", digits |-> -7, exp |-> e] : e \in {-1, 0}}

VARIABLES table, encoded, wire, result, phase

vars == <<table, encoded, wire, result, phase>>

Init ==
    /\ table \in Tables
    /\ encoded = [ok |-> FALSE, bytes |-> <<>>, ret |-> 0]
    /\ wire = <<>>
    /\ result = DFail
    /\ phase = "input"

\* pieces = []; encode_table(pieces, table); ''.join(pieces)
Encode ==
    /\ phase = "input"
    /\ encoded' = EncodeTable(table)
    /\ wire' = encoded'.bytes
    /\ phase' = IF encoded'.ok THEN "encoded" ELSE "failed"
    /\ UNCHANGED <<table, result>>

\* decode_table(encoded, 0)
Decode ==
    /\ phase = "encoded"
    /\ result' = DecodeTable(wire, 0)
    /\ phase' = "decoded"
    /\ UNCHANGED <<table, encoded, wire>>

Next == Encode \/ Decode

Spec == Init /\ [][Next]_vars

-----------------------------------------------------------------------------
\* decode_table(encode_table(T)) == T (spec section 8): whenever
\* encode_table accepts a table, decode_table of the whole bytes returns
\* an equal dict and stops exactly at their end.
RoundTrip ==
    phase = "decoded" =>
        /\ result.ok
        /\ result.off = Len(wire)
        /\ CanonTable(result.val) = CanonTable(table)

\* encode_table returns tablesize + 4, which its caller adds to its own
\* tablesize (the nested dict branch): it must be the number of bytes the
\* call appended, in every nested table as in the outer one.
LengthAccounting ==
    phase \in {"encoded", "decoded"} => encoded.ret = Len(encoded.bytes)
=============================================================================
