-------------------------------- MODULE Xdr ---------------------------------
(***************************************************************************)
(* A caller of the XDR codec: values are encoded and decoded, the arrays   *)
(* and lists of truenas_xdr/src/wrappers.rs are kept as their bytes and    *)
(* iterated, and bytes may be damaged between the two ends.                *)
(***************************************************************************)
EXTENDS XdrCodec

CONSTANTS Values,    \* the values given to the codec, as <<type, value>>
          Encodings  \* what is given to from_encoded: <<type, len, bytes>>

-----------------------------------------------------------------------------
(* Arrays and lists kept as the bytes they arrived in.                     *)

Element(t) == IF t.k = "array_ref" THEN t.of ELSE [k |-> "option", of |-> t.of]

\* All of the bytes are what d has read.
AllOf(bytes, d) ==
    Bind(d, LAMBDA e : IF Left(e) # 0 THEN Fail(e, "TrailingBytes")
                       ELSE Yield(e, [len |-> e.v, encoded |-> bytes]))

\* VarArrayRef::from_encoded
ArrayFromEncoded(t, len, bytes) ==
    LET d == Deserializer(bytes, "Strict", MaxDepth)
    IN IF len > Len(bytes) \div BYTES_PER_XDR_UNIT THEN Fail(d, "Eof")
       ELSE AllOf(bytes, Bind(DeFields(Repeat(t.of, len), len, d, <<>>),
                              LAMBDA e : Yield(e, len)))

\* ListRef::from_encoded
ListFromEncoded(t, bytes) ==
    AllOf(bytes, DeChain(t, 0, Deserializer(bytes, "Strict", MaxDepth)))

FromEncoded(t, len, bytes) ==
    IF t.k = "list_ref" THEN ListFromEncoded(t, bytes)
                        ELSE ArrayFromEncoded(t, len, bytes)

\* Mutant: an element is held to the strictness of from_encoded again.
ReadElement_Strict(t, rest) ==
    De(Element(t), Deserializer(rest, "Strict", Endless))

\* The element an iterator reads, under neither strictness nor a depth.
ReadElement(t, rest) ==
    De(Element(t), Deserializer(rest, "Lenient", Endless))

\* Iterator::next of VarArrayIter and ListIter.
Advance(t, it) ==
    LET d == ReadElement(t, it.rest)
        item == CASE Failed(d) -> <<>>
                  [] ~Failed(d) /\ t.k = "list_ref" -> d.v
                  [] OTHER -> <<d.v>>
    IN IF item = <<>> THEN [it EXCEPT !.left = 0, !.failed = TRUE]
       ELSE [it EXCEPT !.left = @ - 1, !.rest = Remaining(d),
                       !.items = @ \o item]

-----------------------------------------------------------------------------
(* A caller: a value is built and encoded, its bytes may be damaged on the *)
(* way, they are decoded, and a borrowed array is iterated.                *)

VARIABLES
    stage,   \* "idle", "value", "wire", "decoded" or "iterate"
    ty,      \* the type in hand
    val,     \* the value encoded
    wire,    \* its bytes, as they arrive
    damaged, \* the bytes are not the ones that were sent
    got,     \* the deserializer after the decode
    iter     \* the iterator over the array in hand

vars == <<stage, ty, val, wire, damaged, got, iter>>

NoType == [k |-> "unit"]
NoIter == [rest |-> <<>>, left |-> 0, items |-> <<>>, failed |-> FALSE,
           of |-> [len |-> 0, encoded |-> <<>>]]
Fresh  == Deserializer(<<>>, "Strict", MaxDepth)

Init ==
    /\ stage = "idle" /\ ty = NoType /\ val = <<>> /\ wire = <<>>
    /\ damaged = FALSE /\ got = Fresh /\ iter = NoIter

Build ==
    /\ stage = "idle"
    /\ \/ \E x \in Values : ty' = x[1] /\ val' = x[2]
       \/ \E x \in Encodings :
              LET d == FromEncoded(x[1], x[2], x[3])
              IN ~Failed(d) /\ ty' = x[1] /\ val' = d.v
    /\ stage' = "value" /\ UNCHANGED <<wire, damaged, got, iter>>

Encode ==
    /\ stage = "value" /\ ~Failed(ToBytes(ty, val))
    /\ stage' = "wire" /\ wire' = ToBytes(ty, val).out
    /\ UNCHANGED <<ty, val, damaged, got, iter>>

\* One byte is another, the tail is missing, or there is more.
Damage ==
    /\ stage = "wire" /\ ~damaged /\ damaged' = TRUE
    /\ \/ \E i \in DOMAIN wire, b \in Byte :
              b # wire[i] /\ wire' = [wire EXCEPT ![i] = b]
       \/ \E n \in 0 .. Len(wire) - 1 : wire' = SubSeq(wire, 1, n)
       \/ wire' = wire \o ToBe(0, BYTES_PER_XDR_UNIT)
    /\ UNCHANGED <<stage, ty, val, got, iter>>

Decode ==
    /\ stage = "wire"
    /\ \E mode \in {"Strict", "Lenient"} : got' = FromBytes(ty, wire, mode)
    /\ stage' = "decoded" /\ UNCHANGED <<ty, val, wire, damaged, iter>>

Borrowed(t) == t.k \in {"array_ref", "list_ref"}

Iterate ==
    /\ Borrowed(ty)
    /\ \/ stage = "value" /\ iter' = [NoIter EXCEPT !.rest = val.encoded,
                                            !.left = val.len, !.of = val]
       \/ stage = "decoded" /\ ~Failed(got)
          /\ iter' = [NoIter EXCEPT !.rest = got.v.encoded,
                                    !.left = got.v.len, !.of = got.v]
    /\ stage' = "iterate" /\ UNCHANGED <<ty, val, wire, damaged, got>>

Step ==
    /\ stage = "iterate" /\ iter.left > 0
    /\ iter' = Advance(ty, iter)
    /\ UNCHANGED <<stage, ty, val, wire, damaged, got>>

\* The value is dropped, or its encoding was refused.
DropAll ==
    /\ stage \in {"value", "decoded", "iterate"}
    /\ stage' = "idle" /\ ty' = NoType /\ val' = <<>> /\ wire' = <<>>
    /\ damaged' = FALSE /\ got' = Fresh /\ iter' = NoIter

Next == Build \/ Encode \/ Damage \/ Decode \/ Iterate \/ Step \/ DropAll
Spec == Init /\ [][Next]_vars

-----------------------------------------------------------------------------
(* Properties. *)

\* As many units as a count can ask for.
Beyond == [i \in 1 .. BYTES_PER_XDR_UNIT * Words |-> 0]

\* The elements an array or list in hand was decoded to, the end of a list
\* included: read as they were, with more of a message behind them.
Elements(t, arr) ==
    LET n == IF t.k = "list_ref" THEN arr.len + 1 ELSE arr.len
    IN DeFields(Repeat(Element(t), n), n,
                Deserializer(arr.encoded \o Beyond, "Lenient", Endless), <<>>).v

Each(t, vs) == [i \in DOMAIN vs |-> <<t, vs[i]>>]
Fieldwise(ts, vs) == [i \in DOMAIN ts |-> <<ts[i], vs[i]>>]

\* What a value is made of, in the order it is written, as <<type, value>>.
Parts(t, v) ==
    CASE t.k \in {"bounded", "newtype"} -> <<<<t.of, v>>>>
      [] t.k \in {"option", "seq"}      -> Each(t.of, v)
      [] t.k \in {"struct", "tuple"}    -> Fieldwise(t.fields, v)
      [] t.k = "enum"                   -> Fieldwise(t.arms[v.arm], v.body)
      [] t.k = "xunion"          -> Fieldwise(t.decl[v.arm].fields, v.body)
      [] Borrowed(t)                    -> Each(Element(t), Elements(t, v))
      [] OTHER                          -> <<>>

\* DEFAULT_MAX_DEPTH: "Every struct, array, optional, union, and newtype is
\* one level".  A borrowed array is marked in one and read in another.
Levels(t, v) ==
    CASE Borrowed(t)     -> 2
      [] t.k = "option"  -> Len(v)
      [] t.k \in {"fixed", "bounded", "newtype", "seq", "struct", "tuple",
                  "enum", "xunion"} -> 1
      [] OTHER           -> 0

RECURSIVE Nesting(_, _), HasNul(_, _), Starved(_, _, _)

Nesting(t, v) ==
    Levels(t, v) + Max({0} \cup {Nesting(p[1], p[2]) : p \in ToSet(Parts(t, v))})

HasNul(t, v) ==
    \/ t.k = "str" /\ 0 \in ToSet(v)
    \/ \E p \in ToSet(Parts(t, v)) : HasNul(p[1], p[2])

SizeOf(parts) ==
    Len(SerAll([i \in DOMAIN parts |-> parts[i][1]],
               [i \in DOMAIN parts |-> parts[i][2]], Serializer(Unbounded)).out)

\* deserialize_seq: "An array element is at least one 4-byte unit".  Elements
\* of no size are not: an array in v counts more of them than there are units
\* behind its count, up to the end of an input that goes on for after bytes.
Starved(t, v, after) ==
    LET parts == Parts(t, v)
        behind(i) == SizeOf(SubSeq(parts, i + 1, Len(parts))) + after
    IN \/ /\ t.k \in {"seq", "array_ref"}
          /\ Len(parts) > behind(0) \div BYTES_PER_XDR_UNIT
       \/ \E i \in DOMAIN parts : Starved(parts[i][1], parts[i][2], behind(i))

\* The errors that a value to_bytes accepts may come back as.
Refusals(t, v, mode) ==
    {e \in {"RecursionLimit", "EmbeddedNul", "Eof"} :
        \/ e = "RecursionLimit" /\ Nesting(t, v) > MaxDepth
        \/ e = "EmbeddedNul" /\ mode = "Strict" /\ HasNul(t, v)
        \/ e = "Eof" /\ Starved(t, v, 0)}

\* What to_bytes wrote, from_bytes reads back, and no mark of one field (a
\* bound, the fixed mark, a span, a level) outlives it.  Three kinds of value
\* are written and refused: one nested past the limit, a string with a NUL
\* under Strict (strict_decoding_rejects_padding_and_nuls), and an array of
\* elements of no size with too little behind it
\* (a_hostile_count_cannot_outrun_the_input).  No other is, and these always.
RoundTrip ==
    stage = "decoded" /\ ~damaged =>
        LET refusals == Refusals(ty, val, got.mode)
        IN IF refusals # {} THEN got.err \in refusals
           ELSE /\ ~Failed(got) /\ got.v = val
                /\ ~got.fixed /\ got.bound = Unbounded
                /\ got.span = NoSpan /\ got.depth = 0

\* Strictness::Strict accepts canonical XDR only: what decodes encodes back
\* to the same bytes, whatever the bytes were.  A borrowed array or list is
\* handed on as it arrived in either mode.
DecodedIsCanonical ==
    stage = "decoded" /\ ~Failed(got) /\ (got.mode = "Strict" \/ Borrowed(ty)) =>
        LET s == ToBytes(ty, got.v) IN ~Failed(s) /\ s.out = wire


\* VarArrayIter and ListIter: "what decoded once decodes now".  An iterator
\* over an array or list that was decoded or checked, in either mode, yields
\* its elements one by one.  One kind of element fails: an array of elements
\* of no size that the rest of its message had made room for, and the bytes
\* kept of the outer array do not.
IteratesWhole ==
    stage = "iterate" =>
        LET all   == Elements(ty, iter.of)
            whole == IF ty.k = "list_ref" THEN FlattenSeq(all) ELSE all
            n     == Len(iter.items)
            size  == SizeOf(<<<<Element(ty), all[n + 1]>>>>)
        IN /\ iter.items = SubSeq(whole, 1, n)
           /\ IF iter.failed
              THEN Starved(Element(ty), all[n + 1], Len(iter.rest) - size)
              ELSE n + iter.left = iter.of.len
=============================================================================
