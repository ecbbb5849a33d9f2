------------------------------ MODULE XdrCodec ------------------------------
(***************************************************************************)
(* The XDR codec: Serializer and Deserializer (truenas_xdr/src/ser.rs,     *)
(* src/de.rs), the wrapper types (src/wrappers.rs), the entry points       *)
(* (src/lib.rs) and what XdrEnum and XdrUnion expand to                    *)
(* (truenas_xdr_derive/src/lib.rs).                                        *)
(*                                                                         *)
(* A Rust type is a record with its kind k.  The byte is scaled: it has    *)
(* Radix values, so a unit of four bytes counts to Radix^4.  The highest   *)
(* byte stands for one that is not UTF-8.  The visitors of serde are       *)
(* modelled from the methods they call.  Errors keep their kind and leave  *)
(* out the numbers they report.                                            *)
(***************************************************************************)
EXTENDS Integers, Sequences, SequencesExt, FiniteSets

CONSTANTS Radix,     \* the values of a byte
          MaxDepth   \* Deserializer::DEFAULT_MAX_DEPTH

ASSUME XdrAssumption == Radix > 1 /\ Radix % 2 = 0 /\ MaxDepth > 0

Byte == 0 .. Radix - 1
BYTES_PER_XDR_UNIT == 4
Unbounded == -1
Words == Radix ^ BYTES_PER_XDR_UNIT

pad4(n) ==
    (BYTES_PER_XDR_UNIT - (n % BYTES_PER_XDR_UNIT)) % BYTES_PER_XDR_UNIT

\* to_be_bytes and from_be_bytes
ToBe(n, w) == [i \in 1 .. w |-> (n \div Radix ^ (w - i)) % Radix]
FromBe(bytes) == FoldLeft(LAMBDA n, b : n * Radix + b, 0, bytes)

\* The integer types: bytes on the wire, sign, and what the type holds.
Wide   == {"i64", "u64", "f64"}
Signed == {"i8", "i16", "i32", "i64"}
Ints   == Wide \cup Signed \cup {"u8", "u16", "u32", "f32", "char"}

Width(k) == IF k \in Wide THEN 2 * BYTES_PER_XDR_UNIT ELSE BYTES_PER_XDR_UNIT

\* char::try_from: a value past the last code point, or a surrogate, is not
\* one.  One value stands for the surrogates.
CharMax   == Words \div 2
Surrogate == Words \div 4

Fits(k, n) ==
    CASE k = "i8"   -> n \in -(Radix \div 2) .. Radix \div 2 - 1
      [] k = "u8"   -> n \in Byte
      [] k = "i16"  -> n \in -(Radix ^ 2 \div 2) .. Radix ^ 2 \div 2 - 1
      [] k = "u16"  -> n \in 0 .. Radix ^ 2 - 1
      [] k = "char" -> n \in (0 .. CharMax) \ {Surrogate}
      [] OTHER      -> TRUE

-----------------------------------------------------------------------------
(* The derive macros: an enum's declaration is a sequence of variants, each *)
(* with the discriminant it declares (<<>> or <<n>>), its fields and        *)
(* whether it is marked default.                                           *)

\* discriminants: the literal, else the previous one plus one.
Discriminants(decl) ==
    FoldLeft(LAMBDA out, v :
                 Append(out, IF v.disc # <<>> THEN v.disc[1]
                             ELSE IF out = <<>> THEN 0 ELSE Last(out) + 1),
             <<>>, decl)

Overflows(decl) ==
    \E i \in DOMAIN decl : Discriminants(decl)[i] + 1 >= Words \div 2

\* has_default_arm: where the default arm may not be.
DefaultRefused(decl) ==
    \E i \in DOMAIN decl :
        /\ decl[i].default
        /\ i # Len(decl) \/ decl[i].disc # <<>> \/ decl[i].fields = <<>>

\* expand_enum and expand_union: the declarations that compile.
Compiles(t) ==
    /\ ~Overflows(t.decl)
    /\ t.k = "xenum" => \A i \in DOMAIN t.decl : t.decl[i].fields = <<>>
    /\ t.k = "xunion" => ~DefaultRefused(t.decl)

HasDefault(decl) == decl # <<>> /\ Last(decl).default
Explicit(decl) == 1 .. IF HasDefault(decl) THEN Len(decl) - 1 ELSE Len(decl)
Owned(decl) == {Discriminants(decl)[i] : i \in Explicit(decl)}

\* max_elems: the widest arm, its discriminant included.
MaxElems(decl) ==
    LET elems(i) == IF i \in Explicit(decl) THEN 1 + Len(decl[i].fields)
                                            ELSE Len(decl[i].fields)
        all == {1} \cup {elems(i) : i \in DOMAIN decl}
    IN CHOOSE n \in all : \A m \in all : m <= n

-----------------------------------------------------------------------------
(* The serializer: the output, the two pending marks, the room the writer  *)
(* has (-1 for a Vec) and the error it stopped at.                         *)

Failed(x) == x.err # "none"
Fail(x, e) == [x EXCEPT !.err = e]
Bind(x, F(_)) == IF Failed(x) THEN x ELSE F(x)

Serializer(room) ==
    [out |-> <<>>, fixed |-> FALSE, bound |-> Unbounded, room |-> room,
     err |-> "none"]

Put(s, bytes) ==
    IF Failed(s) THEN s
    ELSE IF s.room # Unbounded /\ Len(s.out) + Len(bytes) > s.room
         THEN Fail(s, "Io")
         ELSE [s EXCEPT !.out = @ \o bytes]

PutU32(s, n) == Put(s, ToBe(n % Words, BYTES_PER_XDR_UNIT))

PutLen(s, n) ==
    LET taken == [s EXCEPT !.bound = Unbounded]
    IN IF s.bound # Unbounded /\ n > s.bound THEN Fail(taken, "TooLong")
       ELSE IF n >= Words THEN Fail(taken, "Unsupported")
       ELSE PutU32(taken, n)

PutBody(s, bytes) == Put(Put(s, bytes), [i \in 1 .. pad4(Len(bytes)) |-> 0])

SerStr(s, v) ==
    LET t == PutLen([s EXCEPT !.fixed = FALSE], Len(v)) IN PutBody(t, v)

SerBytes(s, v) ==
    IF s.fixed THEN PutBody([s EXCEPT !.fixed = FALSE], v)
               ELSE PutBody(PutLen(s, Len(v)), v)

\* Encoded: bytes that are XDR already.
SerEncoded(s, v) == IF Failed(s) THEN s
                    ELSE SerBytes([s EXCEPT !.fixed = TRUE], v)

RECURSIVE Ser(_, _, _), SerAll(_, _, _)

\* __private::discriminant, into a writer of one unit.
Discriminant(t, v) ==
    LET s == Ser(t, v, Serializer(BYTES_PER_XDR_UNIT))
    IN IF ~Failed(s) /\ Len(s.out) = BYTES_PER_XDR_UNIT
       THEN <<FromBe(s.out)>> ELSE <<>>

AsI32(n) == IF n >= Words \div 2 THEN n - Words ELSE n

\* default_arm, encoding: the first field is the discriminant.
SerDefault(t, v, s) ==
    LET fields == Last(t.decl).fields
        disc == Discriminant(fields[1], v.body[1])
    IN IF disc = <<>> \/ AsI32(disc[1]) \in Owned(t.decl)
       THEN Fail(s, "Message")
       ELSE SerAll(Tail(fields), Tail(v.body), PutU32(s, disc[1]))

SerUnion(t, v, s) ==
    IF v.arm \in Explicit(t.decl)
    THEN SerAll(t.decl[v.arm].fields, v.body,
                PutU32(s, Discriminants(t.decl)[v.arm]))
    ELSE SerDefault(t, v, s)

\* Compound values write each element as it arrives.
SerAll(ts, vs, s) ==
    IF ts = <<>> \/ Failed(s) THEN s
    ELSE SerAll(Tail(ts), Tail(vs), Ser(Head(ts), Head(vs), s))

Repeat(t, n) == [i \in 1 .. n |-> t]

Ser(t, v, s) ==
    CASE t.k \in Ints      -> Put(s, ToBe(v % Radix ^ Width(t.k), Width(t.k)))
      [] t.k = "bool"      -> PutU32(s, IF v THEN 1 ELSE 0)
      [] t.k = "str"       -> SerStr(s, v)
      [] t.k = "opaque"    -> SerBytes(s, v)
      [] t.k = "fixed"     -> SerBytes([s EXCEPT !.fixed = TRUE], v)
      [] t.k = "bounded"   -> Ser(t.of, v, [s EXCEPT !.bound = t.max])
      [] t.k = "option"    -> SerAll(Repeat(t.of, Len(v)), v, PutU32(s, Len(v)))
      [] t.k = "unit"      -> s
      [] t.k = "newtype"   -> Ser(t.of, v, s)
      [] t.k = "seq"       -> SerAll(Repeat(t.of, Len(v)), v, PutLen(s, Len(v)))
      [] t.k \in {"struct", "tuple"} -> SerAll(t.fields, v, s)
      [] t.k = "enum"      -> SerAll(t.arms[v.arm], v.body, PutU32(s, v.arm - 1))
      [] t.k = "array_ref" -> SerEncoded(PutLen(s, v.len), v.encoded)
      [] t.k = "list_ref"  -> SerEncoded(s, v.encoded)
      [] t.k = "xenum"     -> PutU32(s, Discriminants(t.decl)[v])
      [] t.k = "xunion"    -> SerUnion(t, v, s)

ToBytes(t, v) == Ser(t, v, Serializer(Unbounded))

-----------------------------------------------------------------------------
(* The deserializer: the input, the position in it, the pending marks, the *)
(* start of the array being borrowed, the depth, the error it stopped at   *)
(* and the value it handed to the visitor last.                            *)

NoSpan == -1
Endless == 1000   \* usize::MAX

Deserializer(input, mode, max) ==
    [input |-> input, pos |-> 0, mode |-> mode, fixed |-> FALSE,
     bound |-> Unbounded, span |-> NoSpan, depth |-> 0, max |-> max,
     err |-> "none", v |-> <<>>]

Yield(d, v) == [d EXCEPT !.v = v]
Left(d) == Len(d.input) - d.pos
Remaining(d) == SubSeq(d.input, d.pos + 1, Len(d.input))

Descend(d) ==
    LET e == [d EXCEPT !.depth = @ + 1]
    IN IF e.depth > d.max THEN Fail(e, "RecursionLimit") ELSE e

Ascend(d) == [d EXCEPT !.depth = @ - 1]

\* A compound: ascend follows whether or not the visit failed.
Within(d, Visit(_)) == Bind(Descend(d), LAMBDA e : Ascend(Visit(e)))

Take(d, n) ==
    IF n > Left(d) THEN Fail(d, "Eof")
    ELSE [d EXCEPT !.pos = @ + n, !.v = SubSeq(d.input, d.pos + 1, d.pos + n)]

ReadWord(d, w) == Bind(Take(d, w), LAMBDA e : Yield(e, FromBe(e.v)))
ReadU32(d) == ReadWord(d, BYTES_PER_XDR_UNIT)

\* The bytes just taken stay the value.
ReadPad(d) ==
    Bind(Take(d, pad4(Len(d.v))),
         LAMBDA e : IF d.mode = "Strict" /\ ToSet(e.v) \ {0} # {}
                    THEN Fail(e, "NonZeroPadding") ELSE Yield(e, d.v))


CheckBound(d, n) ==
    LET taken == [d EXCEPT !.bound = Unbounded]
    IN IF d.bound # Unbounded /\ n > d.bound THEN Fail(taken, "TooLong")
                                             ELSE taken

ReadFixed(d, n) == Bind(Take(d, n), ReadPad)

ReadOpaque(d) ==
    Bind(Bind(ReadU32(d), LAMBDA e : CheckBound(e, e.v)),
         LAMBDA e : ReadFixed(e, e.v))

ReadBool(d) ==
    Bind(ReadU32(d),
         LAMBDA e : IF e.v \notin {0, 1} /\ d.mode = "Strict"
                    THEN Fail(e, "InvalidBool") ELSE Yield(e, e.v # 0))

ReadStr(d) ==
    Bind(ReadOpaque(d),
         LAMBDA e : IF Radix - 1 \in ToSet(e.v) THEN Fail(e, "Utf8")
                    ELSE IF d.mode = "Strict" /\ 0 \in ToSet(e.v)
                    THEN Fail(e, "EmbeddedNul")
                    ELSE e)

DeInt(k, d) ==
    Bind(ReadWord(d, Width(k)),
         LAMBDA e : LET all == Radix ^ Width(k)
                        n == IF k \in Signed /\ e.v >= all \div 2
                             THEN e.v - all ELSE e.v
                    IN IF Fits(k, n) THEN Yield(e, n) ELSE Fail(e, "Range"))

RECURSIVE De(_, _), DeFields(_, _, _, _), DeChain(_, _, _)

\* SeqReader: the fields in order, of at most left elements.
DeFields(ts, left, d, got) ==
    IF ts = <<>> THEN Yield(d, got)
    ELSE IF left = 0 THEN Fail(d, "Message")
    ELSE Bind(De(Head(ts), d),
              LAMBDA e : DeFields(Tail(ts), left - 1, e, Append(got, e.v)))

DeOption(t, d) ==
    Bind(ReadBool(d),
         LAMBDA e : IF ~e.v THEN Yield(e, <<>>)
                    ELSE Within(e, LAMBDA f : Bind(De(t.of, f),
                                         LAMBDA g : Yield(g, <<g.v>>))))

\* deserialize_seq: the count is held to its bound, then to the input.
DeSeq(t, d) ==
    Bind(Bind(ReadU32(d), LAMBDA e : CheckBound(e, e.v)),
         LAMBDA e : IF e.v > Left(e) \div BYTES_PER_XDR_UNIT
                    THEN Fail(e, "Eof")
                    ELSE Within(e, LAMBDA f :
                              DeFields(Repeat(t.of, e.v), e.v, f, <<>>)))

\* deserialize_tuple: raw bytes under the mark, else a reader of len fields.
TakeFixed(d, len) == ReadFixed([d EXCEPT !.fixed = FALSE], len)
DeTuple(d, len, Visit(_)) ==
    IF d.fixed THEN TakeFixed(d, len) ELSE Within(d, Visit)

\* deserialize_newtype_struct(SENTINEL_FIXED) around deserialize_tuple(N).
DeFixed(n, d) ==
    Within([d EXCEPT !.fixed = TRUE], LAMBDA e : DeTuple(e, n, LAMBDA f : f))

DeBounded(t, d) ==
    Within(d, LAMBDA e : De(t.of, [e EXCEPT !.bound = t.max]))

\* EnumReader: the variant of the index, and the fields that follow it.
DeVariant(t, index, d) ==
    IF index + 1 \notin DOMAIN t.arms THEN Fail(d, "Message")
    ELSE LET ts == t.arms[index + 1]
         IN Bind(DeFields(ts, Len(ts), d, <<>>),
                 LAMBDA e : Yield(e, [arm |-> index + 1, body |-> e.v]))

\* deserialize_enum: the declaration index.
DeEnum(t, d) ==
    Bind(ReadU32(d), LAMBDA e : Within(e, LAMBDA f : DeVariant(t, e.v, f)))

\* deserialize_tuple_struct(SENTINEL_ARRAY_REF): mark, visit, put back.
Mark(d) == [d EXCEPT !.span = d.pos]
PutBack(d, outer) == [d EXCEPT !.span = outer]
Marked(d, Visit(_)) ==
    Within(d, LAMBDA e : PutBack(Visit(Mark(e)), e.span))

\* Span: the input since the mark, with the first skip bytes left out.
DeSpan(d, len, skip) ==
    IF d.span = NoSpan THEN Fail(d, "Unsupported")
    ELSE Yield(d, [len |-> len,
                   encoded |-> SubSeq(d.input, d.span + skip + 1, d.pos)])

\* ArrayRefVisitor: ElementCount and then Span, past the count.
DeArrayRef(t, d) ==
    Marked(d, LAMBDA e : Bind(DeSeq(t, e),
              LAMBDA f : DeSpan(f, Len(f.v), BYTES_PER_XDR_UNIT)))

\* ListCount: optional data until the boolean of 0.
DeChain(t, n, d) ==
    Bind(DeOption(t, d),
         LAMBDA e : IF e.v = <<>> THEN Yield(e, n) ELSE DeChain(t, n + 1, e))

DeListRef(t, d) ==
    Marked(d, LAMBDA e :
        Bind(DeTuple(e, Endless, LAMBDA f : DeChain(t, 0, f)),
             LAMBDA f : DeSpan(f, f.v, 0)))

\* The variant that declares the i32 just read.
VariantOf(t, d) ==
    LET is(i) == Discriminants(t.decl)[i] = d.v
    IN IF \E i \in DOMAIN t.decl : is(i)
       THEN Yield(d, CHOOSE i \in DOMAIN t.decl : is(i))
       ELSE Fail(d, "Message")

\* What XdrEnum expands to.
DeXdrEnum(t, d) == Bind(DeInt("i32", d), LAMBDA e : VariantOf(t, e))

\* serde's I32Deserializer, which hands its i32 to the visitor of the first
\* field: an XdrEnum, or an integer type, which may not hold it.
DeI32(t, d) ==
    IF t.k = "xenum" THEN VariantOf(t, d)
    ELSE IF Fits(t.k, d.v) /\ (t.k \in Signed \/ d.v >= 0) THEN d
    ELSE Fail(d, "Message")

\* default_arm, decoding: the first field is made from the discriminant.
DeDefault(t, d) ==
    LET fields == Last(t.decl).fields
    IN Bind(DeI32(fields[1], d),
            LAMBDA e :
              Bind(DeFields(Tail(fields), MaxElems(t.decl) - 1, e, <<e.v>>),
                   LAMBDA f : Yield(f, [arm |-> Len(t.decl), body |-> f.v])))

\* What XdrUnion expands to: deserialize_tuple(max_elems).
DeXdrUnion(t, d) ==
    DeTuple(d, MaxElems(t.decl), LAMBDA e : Bind(DeInt("i32", e),
        LAMBDA f : LET is(i) == Discriminants(t.decl)[i] = f.v
                       i == CHOOSE j \in Explicit(t.decl) : is(j)
                   IN CASE f.v \in Owned(t.decl) ->
                            Bind(DeFields(t.decl[i].fields,
                                          MaxElems(t.decl) - 1, f, <<>>),
                                 LAMBDA g : Yield(g, [arm |-> i, body |-> g.v]))
                        [] f.v \notin Owned(t.decl) /\ HasDefault(t.decl) ->
                            DeDefault(t, f)
                        [] OTHER -> Fail(f, "Message")))

De(t, d) ==
    CASE t.k \in Ints      -> DeInt(t.k, d)
      [] t.k = "bool"      -> ReadBool(d)
      [] t.k = "str"       -> ReadStr(d)
      [] t.k = "opaque"    -> ReadOpaque(d)
      [] t.k = "fixed"     -> DeFixed(t.n, d)
      [] t.k = "bounded"   -> DeBounded(t, d)
      [] t.k = "option"    -> DeOption(t, d)
      [] t.k = "unit"      -> Yield(d, <<>>)
      [] t.k = "newtype"   -> Within(d, LAMBDA e : De(t.of, e))
      [] t.k = "seq"       -> DeSeq(t, d)
      [] t.k = "struct"    -> Within(d, LAMBDA e :
                                  DeFields(t.fields, Len(t.fields), e, <<>>))
      [] t.k = "tuple"     -> DeTuple(d, Len(t.fields), LAMBDA e :
                                  DeFields(t.fields, Len(t.fields), e, <<>>))
      [] t.k = "enum"      -> DeEnum(t, d)
      [] t.k = "array_ref" -> DeArrayRef(t, d)
      [] t.k = "list_ref"  -> DeListRef(t, d)
      [] t.k = "xenum"     -> DeXdrEnum(t, d)
      [] t.k = "xunion"    -> DeXdrUnion(t, d)

\* from_prefix_with: what is left stays in the input.
FromPrefix(t, bytes, mode) == De(t, Deserializer(bytes, mode, MaxDepth))

\* from_bytes_with: all of the input, and nothing left.
FromBytes(t, bytes, mode) ==
    Bind(FromPrefix(t, bytes, mode),
         LAMBDA d : IF Left(d) = 0 THEN d ELSE Fail(d, "TrailingBytes"))
=============================================================================
