---------------------------- MODULE CratesProofs ----------------------------
(***************************************************************************)
(* Parts of the system that one thread works through alone.                *)
(*                                                                         *)
(* GssAccept: every object of the library has one owner, which is an       *)
(* invariant once it is said of each of the five places an object can be   *)
(* (Places) and of what an acceptor not in use holds.                      *)
(* GssMessage: the buffer of a checksum is what it was and a tail, and a   *)
(* sealed token is laid out part by part (Laid), which is what             *)
(* gss_unwrap_iov counts on to find the message (Counted).                 *)
(* Ktls: each step of the failure path has read what the handshake left    *)
(* (ReadSoFar).                                                            *)
(* PamTransaction: the failure kept is the first of the call's rounds      *)
(* (FirstFailed), and there is none between calls.                         *)
(***************************************************************************)
EXTENDS GssAccept, GssMessage, Ktls, PamTransaction, FiniteSetTheorems, TLAPS

-----------------------------------------------------------------------------
(* GssAccept. *)

\* What the values of the crate hold, and where they hold nothing.
AcceptTypeOK ==
    /\ made \in Nat
    /\ cred \in [raw : 0 .. made, by : {"caller", "acceptor"}]
    /\ acc \in [on : BOOLEAN, context : 0 .. made, established : BOOLEAN,
                source : 0 .. made, mech : BOOLEAN]
    /\ ctx \in [raw : 0 .. made, source : 0 .. made]

\* The objects in the five places, each alive and no two the same.
Unshared(a, b) == a # b \/ a = Null
Places(a, b, c, d, e) ==
    /\ live = {a, b, c, d, e} \ {Null}
    /\ Unshared(a, b) /\ Unshared(a, c) /\ Unshared(a, d) /\ Unshared(a, e)
    /\ Unshared(b, c) /\ Unshared(b, d) /\ Unshared(b, e)
    /\ Unshared(c, d) /\ Unshared(c, e) /\ Unshared(d, e)

AcceptInv ==
    /\ AcceptTypeOK
    /\ Places(cred.raw, acc.context, acc.source, ctx.raw, ctx.source)
    /\ ~acc.on => acc = NoAcceptor
    /\ ctx.raw = Null => ctx.source = Null
    /\ acc.established => proven /\ acc.context # Null

\* So each object has one owner.
LEMMA PlacesOwned ==
    Places(cred.raw, acc.context, acc.source, ctx.raw, ctx.source)
      => /\ live = {Owned[p] : p \in DOMAIN Owned} \ {Null}
         /\ \A p, q \in DOMAIN Owned :
               p # q /\ Owned[p] = Owned[q] => Owned[p] = Null
BY DEF Places, Unshared, Owned

\* Nothing is held at the start.
LEMMA AcceptInitInv == AcceptInit => AcceptInv
<1> SUFFICES ASSUME AcceptInit PROVE AcceptInv
  OBVIOUS
<1>1. AcceptTypeOK
  BY DEF AcceptInit, AcceptTypeOK, NoAcceptor, NoContext, Null
<1> QED
  BY <1>1 DEF AcceptInit, AcceptInv, Places, Unshared, NoAcceptor, NoContext,
              Null

\* The types of the fields, and that no place is beyond what was made.
LEMMA AcceptFacts ==
    ASSUME AcceptInv
    PROVE  /\ made \in Nat /\ cred.raw \in 0 .. made
           /\ acc.context \in 0 .. made /\ acc.source \in 0 .. made
           /\ ctx.raw \in 0 .. made /\ ctx.source \in 0 .. made
           /\ acc.on \in BOOLEAN /\ acc.established \in BOOLEAN
           /\ acc.mech \in BOOLEAN /\ cred.by \in {"caller", "acceptor"}
           /\ Places(cred.raw, acc.context, acc.source, ctx.raw, ctx.source)
BY DEF AcceptInv, AcceptTypeOK

\* State::step: what a call made takes the place of what it released.
LEMMA StepInv == AcceptInv /\ step => AcceptInv'
<1> SUFFICES ASSUME AcceptInv, step PROVE AcceptInv'
  OBVIOUS
<1>1. PICK o \in Outcomes :
        /\ made' = made + 2
        /\ live' = (live \ ((IF o.context = "delete" THEN {acc.context}
                             ELSE {})
                            \cup (IF o.src THEN {acc.source} ELSE {})))
                   \cup (IF o.context = "make" THEN {made + 1} ELSE {})
                   \cup (IF o.src THEN {made + 2} ELSE {})
        /\ acc' = [acc EXCEPT
             !.context = CASE o.context = "make" -> made + 1
                           [] o.context = "delete" -> Null
                           [] OTHER -> @,
             !.source = IF o.src THEN made + 2 ELSE @,
             !.mech = @ \/ o.mech,
             !.established = @ \/ (~Failed(o.major) /\ ~o.major.continue)]
        /\ proven' = (proven \/ (~Failed(o.major) /\ ~o.major.continue))
  BY Zenon DEF step
<1>2. acc.on /\ cred' = cred /\ ctx' = ctx
  BY DEF step
<1>3. /\ o.src \in BOOLEAN /\ o.mech \in BOOLEAN
      /\ o.context \in {"make", "keep", "delete"}
      /\ acc.established => Failed(o.major) /\ o.context = "keep"
      /\ o.context = "make" => acc.context = Null
      /\ o.context = "keep" /\ acc.context = Null => Failed(o.major)
      /\ o.context = "delete" => Failed(o.major)
  BY DEF Outcomes
<1>4. acc \in [on : BOOLEAN, context : 0 .. made, established : BOOLEAN,
               source : 0 .. made, mech : BOOLEAN]
  BY DEF AcceptInv, AcceptTypeOK
<1>5. /\ acc'.on = acc.on
      /\ acc'.context = IF o.context = "make" THEN made + 1
                        ELSE IF o.context = "delete" THEN Null ELSE acc.context
      /\ acc'.source = IF o.src THEN made + 2 ELSE acc.source
      /\ acc'.established =
           (acc.established \/ (~Failed(o.major) /\ ~o.major.continue))
  BY <1>1, <1>3, <1>4
<1>6. /\ made' \in Nat /\ made <= made' /\ made + 1 \in 0 .. made'
      /\ made + 2 \in 0 .. made' /\ Null \in 0 .. made'
      /\ \A i \in 0 .. made : i \in 0 .. made'
  BY <1>1, AcceptFacts DEF Null
<1>7. AcceptTypeOK'
  <2>1. acc' \in [on : BOOLEAN, context : 0 .. made', established : BOOLEAN,
                  source : 0 .. made', mech : BOOLEAN]
    BY <1>1, <1>3, <1>4, <1>6, Zenon
  <2>2. /\ cred' \in [raw : 0 .. made', by : {"caller", "acceptor"}]
        /\ ctx' \in [raw : 0 .. made', source : 0 .. made']
    BY <1>2, <1>6 DEF AcceptInv, AcceptTypeOK
  <2> QED
    BY <1>6, <2>1, <2>2, Zenon DEF AcceptTypeOK
<1>8. Places(cred.raw, acc.context, acc.source, ctx.raw, ctx.source)'
  <2> USE <1>2, <1>5, AcceptFacts DEF Places, Unshared, Null
  <2>1. CASE o.context = "make" /\ o.src
    BY <1>1, <1>3, <2>1
  <2>2. CASE o.context = "make" /\ ~o.src
    BY <1>1, <1>3, <2>2
  <2>3. CASE o.context = "delete" /\ o.src
    BY <1>1, <2>3
  <2>4. CASE o.context = "delete" /\ ~o.src
    BY <1>1, <2>4
  <2>5. CASE o.context = "keep" /\ o.src
    BY <1>1, <2>5
  <2>6. CASE o.context = "keep" /\ ~o.src
    BY <1>1, <2>6
  <2> QED
    BY <1>3, <2>1, <2>2, <2>3, <2>4, <2>5, <2>6, Zenon
<1>9. acc'.established => proven' /\ acc'.context # Null
  BY <1>1, <1>3, <1>5, AcceptFacts DEF AcceptInv, Null
<1> QED
  BY <1>2, <1>5, <1>7, <1>8, <1>9 DEF AcceptInv

\* The other operations move what they hold, or let it go.
LEMMA AcceptNextInv == AcceptInv /\ [AcceptNext]_acceptVars => AcceptInv'
<1> SUFFICES ASSUME AcceptInv, [AcceptNext]_acceptVars PROVE AcceptInv'
  OBVIOUS
<1> USE DEF Null
<1>1. CASE acquire
  <2>1. /\ cred' = [raw |-> made + 1, by |-> "caller"] /\ cred.raw = 0
        /\ made' = made + 1 /\ live' = live \cup {made + 1}
        /\ acc' = acc /\ ctx' = ctx /\ proven' = proven
    BY <1>1 DEF acquire
  <2>2. AcceptTypeOK'
    BY <2>1 DEF AcceptInv, AcceptTypeOK
  <2>3. Places(cred.raw, acc.context, acc.source, ctx.raw, ctx.source)'
    BY <2>1, AcceptFacts DEF Places, Unshared
  <2> QED
    BY <2>1, <2>2, <2>3 DEF AcceptInv
<1>2. CASE new
  <2>1. /\ acc' = [NoAcceptor EXCEPT !.on = TRUE] /\ acc = NoAcceptor
        /\ \E by \in {"caller", "acceptor"} : cred' = [cred EXCEPT !.by = by]
        /\ ctx' = ctx /\ live' = live /\ made' = made
    BY <1>2 DEF new, AcceptInv
  <2>2. AcceptTypeOK' /\ cred'.raw = cred.raw
    BY <2>1, Zenon DEF AcceptInv, AcceptTypeOK, NoAcceptor
  <2>3. /\ acc'.context = 0 /\ acc'.source = 0 /\ ~acc'.established /\ acc'.on
        /\ acc.context = 0 /\ acc.source = 0
    BY <2>1 DEF NoAcceptor
  <2>4. Places(cred.raw, acc.context, acc.source, ctx.raw, ctx.source)'
    BY <2>1, <2>2, <2>3, AcceptFacts, Zenon DEF Places
  <2> QED
    BY <2>1, <2>2, <2>3, <2>4 DEF AcceptInv
<1>3. CASE step
  BY <1>3, StepInv
<1>4. ASSUME acc' = NoAcceptor, cred' = CredAfter, made' = made
      PROVE  /\ cred'.raw = IF cred.by = "acceptor" THEN 0 ELSE cred.raw
             /\ cred' \in [raw : 0 .. made', by : {"caller", "acceptor"}]
             /\ acc' \in [on : BOOLEAN, context : 0 .. made',
                          established : BOOLEAN, source : 0 .. made',
                          mech : BOOLEAN]
             /\ acc'.context = 0 /\ acc'.source = 0 /\ ~acc'.established
  BY <1>4 DEF CredAfter, NoAcceptor, AcceptInv, AcceptTypeOK
<1>5. CASE drop_acceptor
  <2>1. /\ live' = live \ Going /\ cred' = CredAfter /\ acc' = NoAcceptor
        /\ ctx' = ctx /\ made' = made
    BY <1>5 DEF drop_acceptor
  <2>2. AcceptTypeOK'
    BY <1>4, <2>1 DEF AcceptInv, AcceptTypeOK
  <2>3. Places(cred.raw, acc.context, acc.source, ctx.raw, ctx.source)'
    BY <1>4, <2>1, AcceptFacts DEF Places, Unshared, Going
  <2> QED
    BY <1>4, <2>1, <2>2, <2>3 DEF AcceptInv
<1>6. CASE into_context
  <2>1. /\ cred' = CredAfter /\ acc' = NoAcceptor /\ made' = made
        /\ ctx = NoContext /\ ctx.raw = 0 /\ ctx.source = 0
    BY <1>6 DEF into_context, NoContext
  <2>2. CASE acc.established
    <3>1. /\ ctx' = [raw |-> acc.context, source |-> acc.source]
          /\ live' = live \ (Going \ {acc.context, acc.source})
      BY <1>6, <2>2 DEF into_context
    <3>2. AcceptTypeOK'
      BY <1>4, <2>1, <3>1, AcceptFacts DEF AcceptTypeOK
    <3>3. Places(cred.raw, acc.context, acc.source, ctx.raw, ctx.source)'
      BY <1>4, <2>1, <3>1, AcceptFacts DEF Places, Unshared, Going
    <3> QED
      BY <1>4, <2>1, <2>2, <3>1, <3>2, <3>3 DEF AcceptInv
  <2>3. CASE ~acc.established
    <3>1. ctx' = ctx /\ live' = live \ Going
      BY <1>6, <2>3 DEF into_context
    <3>2. AcceptTypeOK'
      BY <1>4, <2>1, <3>1 DEF AcceptInv, AcceptTypeOK
    <3>3. Places(cred.raw, acc.context, acc.source, ctx.raw, ctx.source)'
      BY <1>4, <2>1, <3>1, AcceptFacts DEF Places, Unshared, Going
    <3> QED
      BY <1>4, <2>1, <3>1, <3>2, <3>3 DEF AcceptInv
  <2> QED
    BY <2>2, <2>3
<1>7. CASE drop_context
  <2>1. /\ live' = live \ {ctx.raw, ctx.source} /\ ctx' = NoContext
        /\ cred' = cred /\ acc' = acc /\ made' = made /\ proven' = proven
        /\ ctx'.raw = 0 /\ ctx'.source = 0
    BY <1>7 DEF drop_context, NoContext
  <2>2. AcceptTypeOK'
    BY <2>1, AcceptFacts DEF AcceptInv, AcceptTypeOK, NoContext
  <2>3. Places(cred.raw, acc.context, acc.source, ctx.raw, ctx.source)'
    BY <2>1, AcceptFacts DEF Places, Unshared
  <2> QED
    BY <2>1, <2>2, <2>3 DEF AcceptInv
<1>8. CASE drop_cred
  <2>1. /\ live' = live \ {cred.raw} /\ cred' = [raw |-> 0, by |-> "caller"]
        /\ ctx' = ctx /\ acc' = acc /\ made' = made /\ proven' = proven
    BY <1>8 DEF drop_cred
  <2>2. AcceptTypeOK' /\ cred'.raw = 0
    BY <2>1, AcceptFacts DEF AcceptInv, AcceptTypeOK
  <2>3. Places(cred.raw, acc.context, acc.source, ctx.raw, ctx.source)'
    BY <2>1, <2>2, AcceptFacts DEF Places, Unshared
  <2> QED
    BY <2>1, <2>2, <2>3 DEF AcceptInv
<1>9. CASE UNCHANGED acceptVars
  BY <1>9 DEF acceptVars, AcceptInv, AcceptTypeOK, Places
<1> QED
  BY <1>1, <1>2, <1>3, <1>5, <1>6, <1>7, <1>8, <1>9 DEF AcceptNext

\* Acceptor, OwningAcceptor and Context, for any number of exchanges: every
\* object of the library has one owner, and a completed exchange a context.
THEOREM OwnedOnceHolds == AcceptSpec => []OwnedOnce
<1>1. AcceptInv => OwnedOnce
  BY PlacesOwned DEF AcceptInv, OwnedOnce, source_name
<1> QED
  BY <1>1, AcceptInitInv, AcceptNextInv, PTL DEF AcceptSpec

-----------------------------------------------------------------------------
(* GssMessage. *)

\* Whatever bytes a buffer holds, it is a sequence of them.
Buffer(s) == s \in Seq(Range(s))

\* A sealed token, part by part.
Laid(t, m, h, p, r) ==
    /\ Buffer(t) /\ Len(t) = h + Len(m) + p + r
    /\ \A i \in 1 .. h : t[i] = <<"header">>
    /\ \A i \in 1 .. Len(m) : t[h + i] = <<"sealed">> \o m[i]
    /\ \A i \in h + Len(m) + 1 .. Len(t) :
          t[i] \in {<<"padding">>, <<"trailer">>}

MessageInv ==
    /\ Buffer(out) /\ Buffer(was)
    /\ doing = "mic" => Len(was) <= Len(out) /\ SubSeq(out, 1, Len(was)) = was
    /\ doing = "sealed" =>
          /\ out = was /\ Buffer(msg) /\ \A byte \in Range(msg) : Buffer(byte)
          /\ \E h \in Headers, p \in Paddings, r \in Trailers :
                Laid(token, msg, h, p, r)
    /\ InPlaceIsExact

\* The bytes of a buffer.
LEMMA BufferFacts ==
    ASSUME NEW s, Buffer(s)
    PROVE  /\ Len(s) \in Nat /\ DOMAIN s = 1 .. Len(s)
           /\ \A i \in 1 .. Len(s) : s[i] \in Range(s)
BY DEF Buffer, Range

\* A sequence of anything is a buffer.
LEMMA IsBuffer ==
    ASSUME NEW S, NEW s \in Seq(S)
    PROVE  Buffer(s)
BY DEF Buffer, Range

\* What is appended to a buffer leaves the front as it was.
LEMMA Appended ==
    ASSUME NEW s, Buffer(s), NEW T, NEW t \in Seq(T)
    PROVE  /\ Buffer(s \o t) /\ Len(s) <= Len(s \o t)
           /\ SubSeq(s \o t, 1, Len(s)) = s
<1> DEFINE S == Range(s) \cup T
<1>1. s \in Seq(S) /\ t \in Seq(S) /\ Len(s) \in Nat /\ Len(t) \in Nat
  BY DEF Buffer, Range
<1> HIDE DEF S
<1>2. s \o t \in Seq(S) /\ Len(s \o t) = Len(s) + Len(t)
  BY <1>1
<1>3. Buffer(s \o t)
  BY <1>2, IsBuffer, Zenon
<1>4. \A i \in 1 .. Len(s) : (s \o t)[i] = s[i]
  BY <1>1
<1>5. /\ SubSeq(s \o t, 1, Len(s)) \in Seq(S)
      /\ Len(SubSeq(s \o t, 1, Len(s))) = Len(s)
      /\ \A i \in 1 .. Len(s) : SubSeq(s \o t, 1, Len(s))[i] = (s \o t)[i]
  BY <1>1, <1>2
<1> QED
  BY <1>1, <1>2, <1>3, <1>4, <1>5

\* The invariant holds at the start.
LEMMA MessageInitInv == MessageInit => MessageInv
<1> SUFFICES ASSUME MessageInit PROVE MessageInv
  OBVIOUS
<1>1. Buffer(<<>>)
  BY DEF Buffer
<1> QED
  BY <1>1 DEF MessageInit, MessageInv, InPlaceIsExact

\* The parts of a token one behind the other.
Chain(s, a, x, b, y) ==
    /\ Buffer(s) /\ Len(s) = x + y
    /\ \A i \in 1 .. x : s[i] = a[i]
    /\ \A i \in 1 .. y : s[x + i] = b[i]

\* Two buffers joined.
LEMMA Joined ==
    ASSUME NEW a, Buffer(a), NEW b, Buffer(b)
    PROVE  Chain(a \o b, a, Len(a), b, Len(b))
<1> DEFINE S == Range(a) \cup Range(b)
<1>1. a \in Seq(S) /\ b \in Seq(S)
  BY DEF Buffer
<1> HIDE DEF S
<1>2. /\ a \o b \in Seq(S) /\ Len(a \o b) = Len(a) + Len(b)
      /\ \A i \in 1 .. Len(a) : (a \o b)[i] = a[i]
  BY <1>1
<1>3. ASSUME NEW i \in 1 .. Len(b) PROVE (a \o b)[Len(a) + i] = b[i]
  BY <1>1
<1>4. Buffer(a \o b)
  BY <1>2, IsBuffer, Zenon
<1> QED
  BY <1>2, <1>3, <1>4, Zenon DEF Chain

\* A part of one length is a buffer.
LEMMA FunctionBuffer ==
    ASSUME NEW n \in Nat, NEW S, NEW f \in [1 .. n -> S]
    PROVE  Buffer(f) /\ Len(f) = n
<1>1. f \in Seq(S) /\ Len(f) = n
  OBVIOUS
<1> QED
  BY <1>1, IsBuffer

\* wrap_in_place writes each part within its own.
LEMMA LaidOut ==
    ASSUME NEW m, Buffer(m), NEW h \in Nat, NEW p \in Nat, NEW r \in Nat
    PROVE  Laid(Bytes("header", h) \o Seal(m) \o Bytes("padding", p)
                  \o Bytes("trailer", r), m, h, p, r)
<1> DEFINE a == Bytes("header", h)
           b == Seal(m)
           c == Bytes("padding", p)
           d == Bytes("trailer", r)
<1>1. /\ Buffer(a) /\ Len(a) = h /\ \A i \in 1 .. h : a[i] = <<"header">>
  <2>1. a \in [1 .. h -> {<<"header">>}]
    BY DEF Bytes
  <2> HIDE DEF a
  <2> QED
    BY <2>1, FunctionBuffer, Zenon
<1>2. /\ Buffer(c) /\ Len(c) = p /\ \A i \in 1 .. p : c[i] = <<"padding">>
  <2>1. c \in [1 .. p -> {<<"padding">>}]
    BY DEF Bytes
  <2> HIDE DEF c
  <2> QED
    BY <2>1, FunctionBuffer, Zenon
<1>3. /\ Buffer(d) /\ Len(d) = r /\ \A i \in 1 .. r : d[i] = <<"trailer">>
  <2>1. d \in [1 .. r -> {<<"trailer">>}]
    BY DEF Bytes
  <2> HIDE DEF d
  <2> QED
    BY <2>1, FunctionBuffer, Zenon
<1>4. /\ Buffer(b) /\ Len(b) = Len(m) /\ Len(m) \in Nat
      /\ \A i \in 1 .. Len(m) : b[i] = <<"sealed">> \o m[i]
  <2>1. Len(m) \in Nat /\ DOMAIN m = 1 .. Len(m)
    BY BufferFacts
  <2>2. b \in [1 .. Len(m) -> {<<"sealed">> \o m[i] : i \in 1 .. Len(m)}]
    BY <2>1, Zenon DEF Seal
  <2>3. \A i \in 1 .. Len(m) : b[i] = <<"sealed">> \o m[i]
    BY <2>1, Zenon DEF Seal
  <2> HIDE DEF b
  <2> QED
    BY <2>1, <2>2, <2>3, FunctionBuffer, Zenon
<1> HIDE DEF a, b, c, d
<1>5. /\ Buffer(a \o b) /\ Len(a \o b) = h + Len(m)
      /\ \A i \in 1 .. h : (a \o b)[i] = a[i]
      /\ \A i \in 1 .. Len(m) : (a \o b)[h + i] = b[i]
  <2>1. Buffer(a) /\ Len(a) = h /\ Buffer(b) /\ Len(b) = Len(m)
    BY <1>1, <1>4, Zenon
  <2>2. Chain(a \o b, a, h, b, Len(m))
    BY <2>1, Joined, Zenon
  <2> QED
    BY <2>2, Zenon DEF Chain
<1>6. /\ Buffer(a \o b \o c) /\ Len(a \o b \o c) = h + Len(m) + p
      /\ \A i \in 1 .. h + Len(m) : (a \o b \o c)[i] = (a \o b)[i]
      /\ \A i \in 1 .. p : (a \o b \o c)[h + Len(m) + i] = c[i]
  <2>1. Buffer(a \o b) /\ Len(a \o b) = h + Len(m) /\ Buffer(c) /\ Len(c) = p
    BY <1>5, <1>2, Zenon
  <2>2. Chain(a \o b \o c, a \o b, h + Len(m), c, p)
    BY <2>1, Joined, Zenon
  <2> QED
    BY <2>2, Zenon DEF Chain
<1> DEFINE t == a \o b \o c \o d
<1>7. /\ Buffer(t) /\ Len(t) = h + Len(m) + p + r
      /\ \A i \in 1 .. h + Len(m) + p : t[i] = (a \o b \o c)[i]
      /\ \A i \in 1 .. r : t[h + Len(m) + p + i] = d[i]
  <2>1. /\ Buffer(a \o b \o c) /\ Len(a \o b \o c) = h + Len(m) + p
        /\ Buffer(d) /\ Len(d) = r
    BY <1>6, <1>3, Zenon
  <2>2. Chain(t, a \o b \o c, h + Len(m) + p, d, r)
    BY <2>1, Joined, Zenon
  <2> QED
    BY <2>2, Zenon DEF Chain
<1> HIDE DEF t
<1>8. \A i \in 1 .. h : t[i] = <<"header">>
  <2> SUFFICES ASSUME NEW i \in 1 .. h PROVE t[i] = <<"header">>
    OBVIOUS
  <2>1. i \in 1 .. h + Len(m) /\ i \in 1 .. h + Len(m) + p
    BY <1>4
  <2>2. t[i] = (a \o b \o c)[i] /\ (a \o b \o c)[i] = (a \o b)[i]
    BY <1>6, <1>7, <2>1, Zenon
  <2>3. (a \o b)[i] = a[i] /\ a[i] = <<"header">>
    BY <1>1, <1>5, Zenon
  <2> QED
    BY <2>2, <2>3, Zenon
<1>9. \A i \in 1 .. Len(m) : t[h + i] = <<"sealed">> \o m[i]
  <2> SUFFICES ASSUME NEW i \in 1 .. Len(m)
               PROVE  t[h + i] = <<"sealed">> \o m[i]
    OBVIOUS
  <2>1. h + i \in 1 .. h + Len(m) /\ h + i \in 1 .. h + Len(m) + p
    BY <1>4
  <2> QED
    BY <1>4, <1>5, <1>6, <1>7, <2>1, Zenon
<1>10. \A i \in h + Len(m) + 1 .. Len(t) :
          t[i] \in {<<"padding">>, <<"trailer">>}
  <2> SUFFICES ASSUME NEW i \in h + Len(m) + 1 .. Len(t)
               PROVE  t[i] \in {<<"padding">>, <<"trailer">>}
    OBVIOUS
  <2>1. CASE i <= h + Len(m) + p
    <3> DEFINE j == i - (h + Len(m))
    <3>1. /\ j \in 1 .. p /\ i = h + Len(m) + j
          /\ i \in 1 .. h + Len(m) + p
      BY <1>4, <1>7, <2>1
    <3> QED
      BY <1>2, <1>6, <1>7, <3>1, Zenon
  <2>2. CASE i > h + Len(m) + p
    <3> DEFINE j == i - (h + Len(m) + p)
    <3>1. j \in 1 .. r /\ i = h + Len(m) + p + j
      BY <1>4, <1>7, <2>2
    <3> QED
      BY <1>3, <1>7, <3>1, Zenon
  <2> QED
    BY <1>4, <1>7, <2>1, <2>2
<1> QED
  BY <1>7, <1>8, <1>9, <1>10, Zenon DEF Laid, t, a, b, c, d

\* What gss_unwrap_iov finds in a token: the header's length is the number of
\* its bytes, and behind it is the message.
Counted(t, m, h, p, r) ==
    /\ Cardinality({i \in DOMAIN t : t[i] = <<"header">>}) = h
    /\ Len(m) \in Nat /\ DOMAIN t = 1 .. Len(t)
    /\ Len(t) = h + Len(m) + p + r
    /\ \A i \in 1 .. Len(m) : t[h + i][1] = "sealed" /\ Tail(t[h + i]) = m[i]

\* A token laid out is one gss_unwrap_iov can open.
LEMMA HeaderCounted ==
    ASSUME NEW t, NEW m, Buffer(m), NEW h \in Nat, NEW p \in Nat, NEW r \in Nat,
           Laid(t, m, h, p, r), \A byte \in Range(m) : Buffer(byte)
    PROVE  Counted(t, m, h, p, r)
<1>1. /\ Len(m) \in Nat /\ DOMAIN m = 1 .. Len(m)
      /\ \A i \in 1 .. Len(m) : m[i] \in Range(m)
  BY BufferFacts
<1>2. /\ DOMAIN t = 1 .. Len(t) /\ Len(t) = h + Len(m) + p + r
      /\ \A i \in 1 .. h : t[i] = <<"header">>
      /\ \A i \in 1 .. Len(m) : t[h + i] = <<"sealed">> \o m[i]
      /\ \A i \in h + Len(m) + 1 .. Len(t) :
            t[i] \in {<<"padding">>, <<"trailer">>}
  BY BufferFacts, Zenon DEF Laid
<1>3. ASSUME NEW byte, Buffer(byte)
      PROVE  /\ (<<"sealed">> \o byte)[1] = "sealed"
             /\ Tail(<<"sealed">> \o byte) = byte
  <2> DEFINE S == Range(byte) \cup {"sealed"}
  <2>1. byte \in Seq(S) /\ <<"sealed">> \in Seq(S)
    BY <1>3 DEF Buffer
  <2> HIDE DEF S
  <2> QED
    BY <2>1
<1>4. \A i \in 1 .. Len(m) : t[h + i][1] = "sealed" /\ Tail(t[h + i]) = m[i]
  <2> SUFFICES ASSUME NEW i \in 1 .. Len(m)
               PROVE  t[h + i][1] = "sealed" /\ Tail(t[h + i]) = m[i]
    BY Zenon
  <2>1. Buffer(m[i])
    BY <1>1, Zenon
  <2>2. /\ (<<"sealed">> \o m[i])[1] = "sealed"
        /\ Tail(<<"sealed">> \o m[i]) = m[i]
    BY <1>3, <2>1, Zenon
  <2>3. t[h + i] = <<"sealed">> \o m[i]
    BY <1>2, Zenon
  <2> QED
    BY <2>2, <2>3, Zenon
<1>5. {i \in DOMAIN t : t[i] = <<"header">>} = 1 .. h
  <2>1. \A i \in 1 .. h : i \in DOMAIN t /\ t[i] = <<"header">>
    BY <1>1, <1>2
  <2>2. ASSUME NEW i \in DOMAIN t, i \notin 1 .. h PROVE t[i] # <<"header">>
    <3>1. CASE i <= h + Len(m)
      <4> DEFINE j == i - h
      <4>1. j \in 1 .. Len(m) /\ i = h + j
        BY <1>1, <1>2, <2>2, <3>1
      <4>2. t[i][1] = "sealed"
        BY <1>4, <4>1, Zenon
      <4> QED
        BY <4>2
    <3>2. CASE ~(i <= h + Len(m))
      <4>1. i \in h + Len(m) + 1 .. Len(t)
        BY <1>1, <1>2, <3>2
      <4>2. t[i] \in {<<"padding">>, <<"trailer">>}
        BY <1>2, <4>1, Zenon
      <4> QED
        BY <4>2
    <3> QED
      BY <3>1, <3>2
  <2> QED
    BY <2>1, <2>2, Zenon
<1>6. Cardinality(1 .. h) = h
  BY FS_Interval
<1> QED
  BY <1>1, <1>2, <1>4, <1>5, <1>6, Zenon DEF Counted

\* Two sequences with the same bytes are the same.
LEMMA SameSequence ==
    ASSUME NEW S, NEW s \in Seq(S), NEW t, Buffer(t), Len(s) = Len(t),
           \A i \in 1 .. Len(t) : s[i] = t[i]
    PROVE  s = t
BY DEF Buffer

\* What gss_unwrap_iov leaves in place is the message.
LEMMA OpenedInPlace ==
    ASSUME NEW t, NEW m, Buffer(m), NEW h \in Nat, Len(m) \in Nat,
           DOMAIN t = 1 .. Len(t), Len(t) \in Nat, h + Len(m) <= Len(t),
           \A i \in 1 .. Len(m) :
              t[h + i][1] = "sealed" /\ Tail(t[h + i]) = m[i]
    PROVE  SubSeq([i \in DOMAIN t |-> IF t[i][1] = "sealed" THEN Tail(t[i])
                                      ELSE t[i]], h + 1, h + Len(m)) = m
<1> DEFINE plain == [i \in DOMAIN t |-> IF t[i][1] = "sealed" THEN Tail(t[i])
                                        ELSE t[i]]
<1>1. \A i \in 1 .. Len(m) : plain[h + i] = m[i]
  <2> SUFFICES ASSUME NEW i \in 1 .. Len(m) PROVE plain[h + i] = m[i]
    BY Zenon
  <2>1. h + i \in DOMAIN t
    OBVIOUS
  <2>2. plain[h + i] =
           IF t[h + i][1] = "sealed" THEN Tail(t[h + i]) ELSE t[h + i]
    BY <2>1, Zenon
  <2> QED
    BY <2>2, Zenon
<1>2. plain \in Seq(Range(plain)) /\ Len(plain) = Len(t)
  <2>1. plain \in [1 .. Len(t) -> Range(plain)]
    BY Zenon DEF Range
  <2> HIDE DEF plain
  <2> QED
    BY <2>1, FunctionBuffer, Zenon DEF Buffer
<1> HIDE DEF plain
<1>3. /\ SubSeq(plain, h + 1, h + Len(m)) \in Seq(Range(plain))
      /\ Len(SubSeq(plain, h + 1, h + Len(m))) = Len(m)
      /\ \A i \in 1 .. Len(m) :
            SubSeq(plain, h + 1, h + Len(m))[i] = plain[h + i]
  BY <1>2
<1>4. \A i \in 1 .. Len(m) : SubSeq(plain, h + 1, h + Len(m))[i] = m[i]
  BY <1>1, <1>3, Zenon
<1> QED
  BY <1>3, <1>4, SameSequence, Zenon DEF plain

\* The front of a copy is what was copied.
LEMMA CopiedFront ==
    ASSUME NEW m, Buffer(m), NEW t, Buffer(t)
    PROVE  SubSeq(SubSeq(m, 1, Len(m)) \o t, 1, Len(m)) = m
<1> DEFINE S == Range(m)
<1>1. m \in Seq(S)
  BY DEF Buffer
<1> HIDE DEF S
<1>2. SubSeq(m, 1, Len(m)) = m
  BY <1>1
<1> QED
  BY <1>2, Appended, Zenon DEF Buffer

\* get_mic_into and get_mic_within grow the buffer behind what it held,
LEMMA GetMicInv == MessageInv /\ get_mic => MessageInv'
<1> SUFFICES ASSUME MessageInv, get_mic PROVE MessageInv'
  OBVIOUS
<1>1. PICK more \in 0 .. 1 : out' = out \o Zeros(2 + more)
  BY DEF get_mic
<1>2. /\ was' = out /\ doing' = "mic" /\ copies' = copies
      /\ copies = 0 /\ Buffer(out)
  BY DEF get_mic, MessageInv, InPlaceIsExact
<1>3. Zeros(2 + more) \in Seq({<<"0">>})
  <2>1. Zeros(2 + more) \in [1 .. 2 + more -> {<<"0">>}] /\ 2 + more \in Nat
    BY DEF Zeros
  <2> QED
    BY <2>1
<1>4. /\ Buffer(out') /\ Len(was') <= Len(out')
      /\ SubSeq(out', 1, Len(was')) = was'
  BY <1>1, <1>2, <1>3, Appended, Zenon
<1> QED
  BY <1>2, <1>4, Zenon DEF MessageInv, InPlaceIsExact

\* and write the checksum there or take the growth back.
LEMMA GetMicEndsInv == MessageInv /\ (get_mic_ok \/ get_mic_err) => MessageInv'
<1> SUFFICES ASSUME MessageInv, get_mic_ok \/ get_mic_err PROVE MessageInv'
  OBVIOUS
<1>1. /\ SubSeq(out, 1, Len(was)) = was /\ Buffer(was) /\ was' = was
      /\ msg' = msg /\ copies' = copies /\ copies = 0
  BY DEF get_mic_ok, get_mic_err, MessageInv, InPlaceIsExact
<1>2. CASE get_mic_ok
  <2>1. doing' = "signed" /\ out' = was \o Mic(msg)
    BY <1>1, <1>2, Zenon DEF get_mic_ok
  <2>2. Mic(msg) \in Seq({<<"mic", msg>>, <<"mic">>})
    BY DEF Mic
  <2>3. Buffer(out')
    BY <1>1, <2>1, <2>2, Appended, Zenon
  <2> QED
    BY <1>1, <2>1, <2>3 DEF MessageInv, InPlaceIsExact, Mic
<1>3. CASE get_mic_err
  <2>1. doing' = "failed" /\ out' = was
    BY <1>1, <1>3 DEF get_mic_err
  <2> QED
    BY <1>1, <2>1 DEF MessageInv, InPlaceIsExact
<1> QED
  BY <1>2, <1>3

\* wrap_in_place leaves a token laid out, or refuses.
LEMMA WrapInv == MessageInv /\ wrap_in_place => MessageInv'
<1> SUFFICES ASSUME MessageInv, wrap_in_place PROVE MessageInv'
  OBVIOUS
<1>1. PICK m \in Plaintexts, h \in Headers, p \in Paddings, t \in Trailers,
           short \in BOOLEAN :
         LET len == IF short THEN h + p + t - 1 ELSE h + Len(m) + p + t
             message == len - (h + p + t)
         IN  /\ short => h + p + t > 0
             /\ msg' = m /\ was' = out
             /\ IF len < h + p + t
                THEN doing' = "failed" /\ token' = Zeros(len)
                ELSE /\ doing' = "sealed"
                     /\ token' = Bytes("header", h) \o Seal(SubSeq(m, 1, message))
                                 \o Bytes("padding", p) \o Bytes("trailer", t)
  BY Zenon DEF wrap_in_place
<1>2. out' = out /\ copies' = copies /\ copies = 0 /\ Buffer(out)
  BY DEF wrap_in_place, MessageInv, InPlaceIsExact
<1>3. /\ h \in Nat /\ p \in Nat /\ t \in Nat
      /\ Buffer(m) /\ \A byte \in Range(m) : Buffer(byte)
  BY MessageAssumption DEF Buffer
<1>4. Len(m) \in Nat /\ SubSeq(m, 1, Len(m)) = m
  <2> DEFINE S == Range(m)
  <2>1. m \in Seq(S)
    BY <1>3 DEF Buffer
  <2> HIDE DEF S
  <2> QED
    BY <2>1
<1>5. CASE short
  <2>1. h + p + t - 1 < h + p + t
    BY <1>3
  <2>2. doing' = "failed" /\ was' = out
    BY <1>1, <1>5, <2>1, Zenon
  <2> QED
    BY <1>2, <2>2 DEF MessageInv, InPlaceIsExact
<1>6. CASE ~short
  <2>1. /\ ~(h + Len(m) + p + t < h + p + t)
        /\ (h + Len(m) + p + t) - (h + p + t) = Len(m)
    BY <1>3, <1>4
  <2>2. /\ doing' = "sealed" /\ was' = out /\ msg' = m
        /\ token' = Bytes("header", h) \o Seal(m)
                    \o Bytes("padding", p) \o Bytes("trailer", t)
    BY <1>1, <1>4, <1>6, <2>1, Zenon
  <2>3. Laid(token', m, h, p, t)
    BY <1>3, <2>2, LaidOut, Zenon
  <2>4. \E hh \in Headers, pp \in Paddings, rr \in Trailers :
           Laid(token', msg', hh, pp, rr)
    BY <2>2, <2>3, Zenon
  <2> QED
    BY <1>2, <1>3, <2>2, <2>4, Zenon DEF MessageInv, InPlaceIsExact
<1> QED
  BY <1>5, <1>6

\* A length query or a gss_wrap_iov that fails leaves out alone.
LEMMA RefusedInv ==
    MessageInv /\ (lengths_err \/ wrap_in_place_err) => MessageInv'
<1> SUFFICES ASSUME MessageInv, lengths_err \/ wrap_in_place_err
             PROVE  MessageInv'
  OBVIOUS
<1>1. /\ doing' = "failed" /\ was' = out /\ out' = out /\ copies' = copies
      /\ copies = 0 /\ Buffer(out)
  BY DEF lengths_err, wrap_in_place_err, MessageInv, InPlaceIsExact
<1> QED
  BY <1>1 DEF MessageInv, InPlaceIsExact

\* An answer within the token is found there.
LEMMA FoundInside ==
    ASSUME NEW h \in Nat, NEW n \in Nat, NEW len \in Nat, h + n <= len
    PROVE  Inside([allocated |-> FALSE, at |-> h, len |-> n], len)
             = <<h + 1, h + n>>
BY DEF Inside

\* The rest of a buffer.
LEMMA PartOf ==
    ASSUME NEW t, Buffer(t), NEW i \in Nat, i + 1 <= Len(t) + 1
    PROVE  Buffer(SubSeq(t, i + 1, Len(t)))
<1> DEFINE S == Range(t)
<1>1. t \in Seq(S) /\ Len(t) \in Nat
  BY DEF Buffer
<1> HIDE DEF S
<1>2. SubSeq(t, i + 1, Len(t)) \in Seq(S)
  BY <1>1
<1> QED
  BY <1>2, IsBuffer, Zenon

\* unwrap_in_place: each of the library's three answers.
LEMMA UnwrapInv == MessageInv /\ unwrap_in_place => MessageInv'
<1> SUFFICES ASSUME MessageInv, unwrap_in_place PROVE MessageInv'
  OBVIOUS
<1>1. /\ doing = "sealed" /\ out' = out /\ was' = was /\ msg' = msg
      /\ out = was /\ Buffer(out) /\ copies = 0
      /\ Buffer(msg) /\ \A byte \in Range(msg) : Buffer(byte)
  BY DEF unwrap_in_place, MessageInv, InPlaceIsExact
<1>2. PICK h \in Headers, p \in Paddings, r \in Trailers :
         Laid(token, msg, h, p, r)
  BY <1>1, Zenon DEF MessageInv
<1>3. h \in Nat /\ p \in Nat /\ r \in Nat
  BY MessageAssumption
<1>4. /\ Cardinality({i \in DOMAIN token : token[i] = <<"header">>}) = h
      /\ Len(msg) \in Nat /\ DOMAIN token = 1 .. Len(token)
      /\ Len(token) = h + Len(msg) + p + r
      /\ \A i \in 1 .. Len(msg) :
            token[h + i][1] = "sealed" /\ Tail(token[h + i]) = msg[i]
  <2>1. Counted(token, msg, h, p, r)
    BY <1>1, <1>2, <1>3, HeaderCounted, Zenon
  <2> QED
    BY <2>1, Zenon DEF Counted
<1>5. Len(token) \in Nat /\ h + Len(msg) <= Len(token) /\ Len(msg) <= Len(token)
  BY <1>3, <1>4
<1>6. CASE doing' = "failed" /\ copies' = 0
  BY <1>1, <1>6 DEF MessageInv, InPlaceIsExact
<1>7. CASE /\ doing' = "opened" /\ copies' = 0
           /\ SubSeq(token', range'[1], range'[2]) = msg
  <2>1. InPlaceIsExact'
    BY <1>1, <1>7, Zenon DEF InPlaceIsExact
  <2> QED
    BY <1>1, <1>7, <2>1 DEF MessageInv
<1>8. CASE doing' = "failed" /\ UNCHANGED <<token, range, copies>>
  BY <1>1, <1>6, <1>8
<1> DEFINE n == Len(msg)
           len == Len(token)
           plain == [i \in DOMAIN token |->
                       IF token[i][1] = "sealed" THEN Tail(token[i]) ELSE token[i]]
           first == [data |-> [allocated |-> FALSE, at |-> h, len |-> n],
                     token |-> plain, copy |-> <<>>]
           second == [data |-> [allocated |-> TRUE, at |-> h, len |-> n],
                      token |-> token, copy |-> msg]
           third == [data |-> [allocated |-> TRUE, at |-> 0, len |-> len + 1],
                     token |-> token, copy |-> Zeros(len + 1)]
           Answered(a) ==
             LET copied == IF Len(a.copy) < len THEN Len(a.copy) ELSE len
                 inside == Inside(a.data, len)
             IN  IF inside # <<>>
                 THEN /\ range' = inside /\ token' = a.token
                      /\ doing' = "opened" /\ UNCHANGED copies
                 ELSE /\ token' = SubSeq(a.copy, 1, copied)
                                  \o SubSeq(token, copied + 1, len)
                      /\ copies' = (copies + Allocated(a)) - Released(a)
                      /\ IF copied # a.data.len
                         THEN doing' = "failed" /\ UNCHANGED range
                         ELSE doing' = "opened" /\ range' = <<1, a.data.len>>
<1>9. CASE Answered(first)
  <2>1. Inside(first.data, len) = <<h + 1, h + n>> /\ first.token = plain
    <3>1. /\ first.data = [allocated |-> FALSE, at |-> h, len |-> n]
          /\ first.token = plain
      BY Zenon
    <3> QED
      BY <1>3, <1>4, <1>5, <3>1, FoundInside, Zenon
  <2>2. /\ range' = <<h + 1, h + n>> /\ token' = plain /\ doing' = "opened"
        /\ copies' = copies
    <3>1. <<h + 1, h + n>> # <<>>
      OBVIOUS
    <3> HIDE DEF first, plain
    <3> QED
      BY <1>9, <2>1, <3>1, Zenon
  <2>3. SubSeq(plain, h + 1, h + n) = msg
    BY <1>1, <1>3, <1>4, <1>5, OpenedInPlace, Zenon
  <2> QED
    BY <1>1, <1>7, <2>2, <2>3, Zenon
<1>10. CASE Answered(second)
  <2>1. Inside(second.data, len) = <<>> /\ Len(second.copy) = n
    BY DEF Inside
  <2>2. (IF n < len THEN n ELSE len) = n
    BY <1>4, <1>5
  <2>3. /\ token' = SubSeq(msg, 1, n) \o SubSeq(token, n + 1, len)
        /\ copies' = (copies + Allocated(second)) - Released(second)
        /\ doing' = "opened" /\ range' = <<1, n>>
    BY <1>10, <2>1, <2>2, Zenon
  <2>4. Buffer(SubSeq(token, n + 1, len))
    BY <1>2, <1>4, <1>5, PartOf DEF Laid
  <2>5. SubSeq(token', 1, n) = msg
    BY <1>1, <2>3, <2>4, CopiedFront, Zenon
  <2>6. copies' = 0
    BY <1>1, <2>3 DEF Allocated, Released
  <2> QED
    BY <1>7, <2>3, <2>5, <2>6, Zenon
<1>11. CASE Answered(third)
  <2>1. Inside(third.data, len) = <<>> /\ Len(third.copy) = len + 1
    BY <1>5 DEF Inside, Zeros
  <2>2. (IF len + 1 < len THEN len + 1 ELSE len) = len /\ len # len + 1
    BY <1>5
  <2>3. /\ doing' = "failed"
        /\ copies' = (copies + Allocated(third)) - Released(third)
    BY <1>11, <2>1, <2>2
  <2>4. copies' = 0
    BY <1>1, <2>3 DEF Allocated, Released
  <2> QED
    BY <1>6, <2>3, <2>4
<1>12. Answers = {first, second, third}
  BY <1>4, Zenon DEF Answers
<1> HIDE DEF first, second, third
<1>13. \/ doing' = "failed" /\ UNCHANGED <<token, range, copies>>
       \/ \E a \in Answers : Answered(a)
  BY Zenon DEF unwrap_in_place
<1> HIDE DEF Answered
<1> QED
  BY <1>8, <1>9, <1>10, <1>11, <1>12, <1>13, Zenon

\* Every step keeps the invariant.
LEMMA MessageNextInv == MessageInv /\ [MessageNext]_messageVars => MessageInv'
<1> SUFFICES ASSUME MessageInv, [MessageNext]_messageVars PROVE MessageInv'
  OBVIOUS
<1>1. CASE Settled
  <2>1. Buffer(<<>>)
    BY DEF Buffer
  <2>2. Buffer(out') /\ Buffer(was') /\ doing' = "rest" /\ copies' = 0
    BY <1>1, <2>1 DEF Settled, MessageInv, InPlaceIsExact
  <2> QED
    BY <2>2 DEF MessageInv, InPlaceIsExact
<1>2. CASE UNCHANGED messageVars
  BY <1>2 DEF messageVars, MessageInv, InPlaceIsExact
<1> QED
  BY <1>1, <1>2, GetMicInv, GetMicEndsInv, WrapInv, RefusedInv, UnwrapInv DEF MessageNext

\* get_mic_into, get_mic_within, wrap_in_place and unwrap_in_place, for any
\* messages and any lengths of the parts of a token.
THEOREM InPlaceIsExactHolds == MessageSpec => []InPlaceIsExact
<1>1. MessageInv => InPlaceIsExact
  BY DEF MessageInv
<1> QED
  BY <1>1, MessageInitInv, MessageNextInv, PTL DEF MessageSpec

-----------------------------------------------------------------------------
(* Ktls. *)

\* What SSL_accept leaves on a queue that was cleared before it, and what
\* SSL_get_error makes of that.
LeftBy(kind) == CASE kind = "eof" -> {"unexpected eof"}
                  [] kind = "alert" -> {"alert"}
                  [] OTHER -> {}
CodeFor(kind) == CASE kind \in {"eof", "alert"} -> "SSL_ERROR_SSL"
                   [] kind = "timeout" -> "SSL_ERROR_WANT_READ"
                   [] kind = "closed" -> "SSL_ERROR_ZERO_RETURN"
                   [] OTHER -> "SSL_ERROR_SYSCALL"

\* The failure path of accept: what each step has read is the handshake's.
ReadSoFar ==
    /\ happened \in Endings /\ happened.kind # "done"
    /\ sslAt = "errno" => errno = happened.errno
    /\ sslAt # "errno" => saw.errno = happened.errno
    /\ sslAt \in {"stack", "classify"} => saw.code = CodeFor(happened.kind)
    /\ IF sslAt = "classify"
       THEN saw.stack = LeftBy(happened.kind) /\ queue = {}
       ELSE queue = LeftBy(happened.kind)

Socks == [nonblock : BOOLEAN, tx : BOOLEAN, rx : BOOLEAN, nopad : BOOLEAN]

KtlsInv ==
    /\ sock \in Socks /\ DOMAIN saw = DOMAIN NotRead
    /\ sslAt \in {"rest", "accept", "blocking", "handshake", "errno", "code",
                  "stack", "classify", "engaged?", "nopad?", "done"}
    /\ sslAt \in {"accept", "blocking", "handshake"} => happened.kind = "none"
    /\ sslAt \notin {"rest", "done"} => ~sock.nopad
    /\ sslAt \in {"errno", "code", "stack", "classify"} => ReadSoFar
    /\ sslAt \in {"engaged?", "nopad?"} =>
          happened \in Endings /\ happened.kind = "done" /\ queue = {}
    /\ sslAt = "nopad?" => sock.tx /\ sock.rx
    /\ ResultIsTheHandshakes

\* The invariant holds before the first connection.
LEMMA KtlsInitInv == KtlsInit => KtlsInv
<1> SUFFICES ASSUME KtlsInit PROVE KtlsInv
  OBVIOUS
<1>1. sslAt = "rest"
  BY DEF KtlsInit
<1>2. ResultIsTheHandshakes
  BY <1>1, Zenon DEF ResultIsTheHandshakes
<1>3. sock \in Socks
  BY Zenon DEF KtlsInit, Socks
<1>4. DOMAIN saw = DOMAIN NotRead
  BY Zenon DEF KtlsInit
<1> QED
  BY <1>1, <1>2, <1>3, <1>4, Zenon DEF KtlsInv

\* What the errors read on the failure path say of the handshake.
LEMMA ClassifiedRight ==
    ASSUME NEW e \in Endings, e.kind # "done"
    PROVE  LET r == Classify(CodeFor(e.kind), e.errno, LeftBy(e.kind)) IN
           /\ e.kind = "timeout" => r.err = "Stalled"
           /\ e.kind \in {"closed", "eof"} => r.err = "Disconnected"
           /\ e.kind = "alert" => r.err = "Handshake"
           /\ e.kind = "syscall" =>
                IF e.errno = "ENETDOWN"
                THEN r = [err |-> "Io", errno |-> "ENETDOWN"]
                ELSE r.err = "Disconnected"
           /\ e.kind \in {"timeout", "closed", "eof", "alert", "syscall"}
BY DEF Endings, Classify, CodeFor, LeftBy

\* Every step of accept keeps it.
LEMMA KtlsNextInv == KtlsInv /\ [KtlsNext]_ktlsVars => KtlsInv'
<1> SUFFICES ASSUME KtlsInv, [KtlsNext]_ktlsVars PROVE KtlsInv'
  OBVIOUS
<1>1. CASE Elsewhere
  <2>1. sslAt' = "accept" /\ happened'.kind = "none" /\ saw' = NotRead
    BY <1>1, Zenon DEF Elsewhere
  <2>2. PICK nb \in BOOLEAN :
           sock' = [nonblock |-> nb, tx |-> FALSE, rx |-> FALSE, nopad |-> FALSE]
    BY <1>1, Zenon DEF Elsewhere
  <2>3. sock' \in Socks
    BY <2>2, Zenon DEF Socks
  <2>4. ~sock'.nopad
    BY <2>2
  <2> QED
    BY <2>1, <2>3, <2>4 DEF KtlsInv, ResultIsTheHandshakes
<1>2. CASE confirm_blocking
  BY <1>2 DEF confirm_blocking, Returns, KtlsInv, ResultIsTheHandshakes
<1>3. CASE Prepare
  BY <1>3 DEF Prepare, Returns, KtlsInv, ResultIsTheHandshakes
<1>4. CASE SSL_accept
  <2>1. PICK e \in Endings :
           /\ errno' = e.errno /\ happened' = e
           /\ queue' = LeftBy(e.kind)
           /\ sslAt' = IF e.kind = "done" THEN "engaged?" ELSE "errno"
    BY <1>4, Zenon DEF SSL_accept, LeftBy, Cleared
  <2>2. sock' \in Socks /\ ~sock'.nopad
    BY <1>4, Zenon DEF SSL_accept, KtlsInv, Socks
  <2>3. saw' = saw /\ DOMAIN saw = DOMAIN NotRead
    BY <1>4, Zenon DEF SSL_accept, KtlsInv
  <2>4. ResultIsTheHandshakes'
    BY <2>1 DEF ResultIsTheHandshakes
  <2> QED
    BY <2>1, <2>2, <2>3, <2>4, Zenon DEF KtlsInv, ReadSoFar, LeftBy
<1>5. CASE ReadErrno
  <2>1. /\ ReadSoFar /\ sslAt = "errno" /\ sslAt' = "code"
        /\ happened' = happened /\ queue' = queue /\ sock' = sock
    BY <1>5 DEF ReadErrno, KtlsInv
  <2>2. DOMAIN saw' = DOMAIN NotRead /\ saw'.errno = errno
    BY <1>5 DEF ReadErrno, KtlsInv, NotRead
  <2> QED
    BY <2>1, <2>2 DEF KtlsInv, ResultIsTheHandshakes, ReadSoFar
<1>6. CASE SSL_get_error
  <2>1. /\ ReadSoFar /\ sslAt = "code" /\ sslAt' = "stack"
        /\ happened' = happened /\ queue' = queue /\ sock' = sock
    BY <1>6 DEF SSL_get_error, KtlsInv
  <2>2. /\ DOMAIN saw' = DOMAIN NotRead
        /\ saw'.errno = saw.errno /\ saw'.code = Code
    BY <1>6 DEF SSL_get_error, KtlsInv, NotRead
  <2>3. Code = CodeFor(happened.kind)
    BY <2>1, Zenon DEF Code, CodeFor, LeftBy, ReadSoFar
  <2> QED
    BY <2>1, <2>2, <2>3 DEF KtlsInv, ResultIsTheHandshakes, ReadSoFar
<1>7. CASE TakeStack
  <2>1. /\ ReadSoFar /\ sslAt = "stack" /\ sslAt' = "classify"
        /\ happened' = happened /\ queue' = {} /\ sock' = sock
    BY <1>7 DEF TakeStack, KtlsInv
  <2>2. /\ DOMAIN saw' = DOMAIN NotRead /\ saw'.errno = saw.errno
        /\ saw'.code = saw.code /\ saw'.stack = queue
    BY <1>7 DEF TakeStack, KtlsInv, NotRead
  <2> QED
    BY <2>1, <2>2 DEF KtlsInv, ResultIsTheHandshakes, ReadSoFar
<1>8. CASE ReturnError
  <2>1. /\ ReadSoFar /\ sslAt = "classify" /\ sslAt' = "done"
        /\ UNCHANGED <<happened, queue, sock, saw>>
        /\ result' = Classify(saw.code, saw.errno, saw.stack)
    BY <1>8 DEF ReturnError, Returns, KtlsInv
  <2>2. /\ happened \in Endings /\ happened.kind # "done" /\ queue = {}
        /\ result' = Classify(CodeFor(happened.kind), happened.errno,
                              LeftBy(happened.kind))
    BY <2>1 DEF ReadSoFar
  <2>3. ResultIsTheHandshakes'
    BY <2>1, <2>2, ClassifiedRight DEF ResultIsTheHandshakes
  <2> QED
    BY <2>1, <2>3 DEF KtlsInv
<1>9. CASE confirm_engaged
  BY <1>9 DEF confirm_engaged, Engaged, Returns, KtlsInv, ResultIsTheHandshakes
<1>10. CASE install_rx_no_pad
  <2>1. /\ sslAt = "nopad?" /\ sslAt' = "done"
        /\ UNCHANGED <<happened, queue, saw>>
        /\ happened \in Endings /\ happened.kind = "done" /\ queue = {}
        /\ sock \in Socks /\ sock.tx /\ sock.rx /\ sock.nopad = FALSE
    BY <1>10 DEF install_rx_no_pad, Returns, KtlsInv, Socks
  <2>2. CASE sock' = sock /\ result' = [err |-> "none", nopad |-> FALSE]
    BY <2>1, <2>2, Zenon DEF KtlsInv, ResultIsTheHandshakes
  <2>3. CASE /\ happened.version = "TLSv1.3"
             /\ sock' = [sock EXCEPT !.nopad = TRUE]
             /\ result' = [err |-> "none", nopad |-> TRUE]
    BY <2>1, <2>3, Zenon DEF KtlsInv, ResultIsTheHandshakes, Socks
  <2>4. CASE sock' = sock /\ result' = [err |-> "Io", errno |-> "EINVAL"]
    BY <2>1, <2>4 DEF KtlsInv, ResultIsTheHandshakes
  <2> QED
    BY <1>10, <2>2, <2>3, <2>4 DEF install_rx_no_pad, Returns
<1>11. CASE Done
  BY <1>11 DEF Done, KtlsInv, ResultIsTheHandshakes
<1>12. CASE UNCHANGED ktlsVars
  BY <1>12 DEF ktlsVars, KtlsInv, ResultIsTheHandshakes, ReadSoFar
<1> QED
  BY <1>1, <1>2, <1>3, <1>4, <1>5, <1>6, <1>7, <1>8, <1>9, <1>10, <1>11, <1>12
     DEF KtlsNext

\* Acceptor::accept: what it returns is about its own handshake, whatever
\* errno and the error queue held before it.
THEOREM ResultIsTheHandshakesHolds == KtlsSpec => []ResultIsTheHandshakes
<1>1. KtlsInv => ResultIsTheHandshakes
  BY DEF KtlsInv
<1> QED
  BY <1>1, KtlsInitInv, KtlsNextInv, PTL DEF KtlsSpec

-----------------------------------------------------------------------------
(* PamTransaction. *)

\* The first of a call's failures, once one has failed.
FirstFailed(f) ==
    IF FailedRounds = {} THEN f = None
    ELSE \E i \in FailedRounds :
            f = rounds[i].why /\ \A j \in FailedRounds : i <= j

TxnInv ==
    /\ rounds \in Seq(Range(rounds)) /\ code = last
    /\ \/ hdl = "none" /\ slot = "none" /\ call = "none" /\ ops = 0
       \/ hdl = "live" /\ slot = "live" /\ call = "configure" /\ ops = 0
       \/ hdl = "live" /\ slot = "live" /\ call \in {"none", "op", "end"}
       \/ hdl = "ended" /\ slot = "freed" /\ call = "none"
    /\ IF call \in {"op", "end"} THEN FirstFailed(failure) ELSE failure = None
    /\ \A i \in FailedRounds : rounds[i].why # None
    /\ call = "end" \/ hdl = "ended" => endedBy = last
    /\ ReportsItsRounds /\ AnswersHandedOrBurned

\* The invariant holds before the transaction is built.
LEMMA TxnInitInv == TxnInit => TxnInv
<1> SUFFICES ASSUME TxnInit PROVE TxnInv
  OBVIOUS
<1>1. rounds = <<>> /\ FailedRounds = {}
  BY DEF TxnInit, FailedRounds
<1>2. rounds \in Seq(Range(rounds))
  BY <1>1
<1>3. ReportsItsRounds /\ AnswersHandedOrBurned
  BY <1>1 DEF TxnInit, ReportsItsRounds, AnswersHandedOrBurned
<1> QED
  BY <1>1, <1>2, <1>3, Zenon DEF TxnInit, TxnInv

\* One round more.
LEMMA AppendRound ==
    ASSUME NEW s, s \in Seq(Range(s)), NEW r
    PROVE  /\ Append(s, r) \in Seq(Range(Append(s, r)))
           /\ Len(s) \in Nat /\ DOMAIN s = 1 .. Len(s)
           /\ DOMAIN Append(s, r) = 1 .. Len(s) + 1
           /\ \A i \in 1 .. Len(s) : Append(s, r)[i] = s[i]
           /\ Append(s, r)[Len(s) + 1] = r
<1>1. s \in Seq(Range(s) \cup {r})
  BY DEF Range
<1>2. /\ Append(s, r) \in Seq(Range(s) \cup {r})
      /\ Len(s) \in Nat /\ DOMAIN s = 1 .. Len(s)
      /\ DOMAIN Append(s, r) = 1 .. Len(s) + 1
      /\ \A i \in 1 .. Len(s) : Append(s, r)[i] = s[i]
      /\ Append(s, r)[Len(s) + 1] = r
      /\ Len(Append(s, r)) = Len(s) + 1
  BY <1>1
<1> QED
  BY <1>2 DEF Range

\* What is true of one round: AnswersHandedOrBurned says it of each.
RoundOK(r) ==
    /\ r.is = "answered" => r.strings = r.given
                           /\ DOMAIN r.strings = DOMAIN r.asked
    /\ r.is = "failed" => \A j \in DOMAIN r.strings : r.strings[j] = "scrubbed"
    /\ r.is # "refused" => r.slot = "live"

\* A round appended: the first failure stays the one recorded.
LEMMA RoundInv ==
    ASSUME TxnInv, call \in {"op", "end"}, NEW r, RoundOK(r),
           rounds' = Append(rounds, r),
           UNCHANGED <<hdl, slot, last, call, ops, ret, endedBy, code>>,
           \/ r.is # "failed" /\ failure' = failure
           \/ r.is = "failed" /\ r.why # None /\ failure' = ConvFail(r.why)
    PROVE  TxnInv'
<1> DEFINE n == Len(rounds)
<1>1. /\ rounds' \in Seq(Range(rounds')) /\ n \in Nat /\ DOMAIN rounds = 1 .. n
      /\ DOMAIN rounds' = 1 .. n + 1 /\ rounds'[n + 1] = r
      /\ \A i \in 1 .. n : rounds'[i] = rounds[i]
  BY AppendRound DEF TxnInv
<1>2. /\ FailedRounds \subseteq 1 .. n
      /\ \A i \in FailedRounds : rounds[i].why # None /\ rounds'[i] = rounds[i]
  BY <1>1 DEF FailedRounds, TxnInv
<1>3. FirstFailed(failure)
  BY DEF TxnInv
<1>4. FirstFailed(failure)' /\ \A i \in FailedRounds' : rounds'[i].why # None
  <2>1. CASE r.is # "failed" /\ failure' = failure
    <3>1. FailedRounds' = FailedRounds
      <4>1. DOMAIN rounds' = 1 .. n + 1 /\ DOMAIN rounds = 1 .. n
        BY <1>1
      <4>2. \A i \in 1 .. n + 1 : i \in 1 .. n \/ i = n + 1
        BY <1>1
      <4>3. 1 .. n \subseteq 1 .. n + 1
        BY <1>1
      <4> QED
        BY <1>1, <2>1, <4>1, <4>2, <4>3, Zenon DEF FailedRounds
    <3> QED
      BY <1>2, <1>3, <2>1, <3>1, Zenon DEF FirstFailed
  <2>2. CASE r.is = "failed" /\ r.why # None /\ failure' = ConvFail(r.why)
    <3>1. FailedRounds' = FailedRounds \cup {n + 1}
      BY <1>1, <2>2 DEF FailedRounds
    <3>2. CASE FailedRounds = {}
      <4>1. failure' = rounds'[n + 1].why /\ FailedRounds' = {n + 1}
        BY <1>1, <1>3, <2>2, <3>1, <3>2 DEF FirstFailed, ConvFail
      <4>2. n + 1 <= n + 1
        BY <1>1
      <4> QED
        BY <1>1, <2>2, <4>1, <4>2, Zenon DEF FirstFailed
    <3>3. CASE FailedRounds # {}
      <4>1. PICK i \in FailedRounds :
               failure = rounds[i].why /\ \A j \in FailedRounds : i <= j
        BY <1>3, <3>3, Zenon DEF FirstFailed
      <4>2. failure' = rounds'[i].why
        BY <1>2, <2>2, <4>1, Zenon DEF ConvFail
      <4>3. i <= n + 1
        BY <1>1, <1>2, <4>1
      <4>4. \A j \in FailedRounds' : i <= j
        BY <3>1, <4>1, <4>3, Zenon
      <4>5. \A j \in FailedRounds' : rounds'[j].why # None
        BY <1>1, <1>2, <2>2, <3>1, Zenon
      <4> QED
        BY <3>1, <4>1, <4>2, <4>4, <4>5, Zenon DEF FirstFailed
    <3> QED
      BY <3>2, <3>3, Zenon
  <2> QED
    BY <2>1, <2>2, Zenon
<1>5. AnswersHandedOrBurned'
  <2>1. \A i \in 1 .. n : RoundOK(rounds[i])
    BY <1>1, Zenon DEF TxnInv, AnswersHandedOrBurned, RoundOK
  <2>2. \A i \in 1 .. n + 1 : i \in 1 .. n \/ i = n + 1
    BY <1>1
  <2>3. \A i \in 1 .. n + 1 : RoundOK(rounds'[i])
    BY <1>1, <2>1, <2>2, Zenon
  <2> QED
    BY <1>1, <2>3, Zenon DEF AnswersHandedOrBurned, RoundOK
<1>6. ReportsItsRounds'
  BY Zenon DEF TxnInv, ReportsItsRounds
<1> QED
  BY <1>1, <1>4, <1>5, <1>6, Zenon DEF TxnInv

\* The strings a failed round frees are scrubbed first.
LEMMA Scrubbed ==
    ASSUME NEW answers, NEW short, responses_to_c(answers, short).is = "err"
    PROVE  LET built == responses_to_c(answers, short) IN
           \A j \in DOMAIN built.strings : built.strings[j] = "scrubbed"
<1> DEFINE b == responses_to_c(answers, short)
<1>1. b.strings = <<>> \/ \E copied : b.strings = free_responses(copied)
  BY Zenon DEF responses_to_c
<1> HIDE DEF b
<1>2. \A j \in DOMAIN b.strings : b.strings[j] = "scrubbed"
  <2>1. CASE b.strings = <<>>
    BY <2>1
  <2>2. ASSUME NEW copied, b.strings = free_responses(copied)
        PROVE  \A j \in DOMAIN b.strings : b.strings[j] = "scrubbed"
    <3>1. \A j \in DOMAIN free_responses(copied) :
             free_responses(copied)[j] = "scrubbed"
      BY DEF free_responses
    <3> QED
      BY <2>2, <3>1, Zenon
  <2> QED
    BY <1>1, <2>1, <2>2, Zenon
<1> QED
  BY <1>2 DEF b

\* and what responses_to_c returns is the answers, one for one.
LEMMA Handed ==
    ASSUME NEW answers, NEW short, responses_to_c(answers, short).is = "ok"
    PROVE  responses_to_c(answers, short).strings = answers
BY DEF responses_to_c

\* A round of any kind keeps the invariant.
LEMMA TxnRoundInv == TxnInv /\ Round => TxnInv'
<1> SUFFICES ASSUME TxnInv, Round PROVE TxnInv'
  OBVIOUS
<1>1. call \in {"op", "end"} /\ slot = "live"
  BY DEF Round, TxnInv
<1>2. ASSUME NEW m, Refuse(m) PROVE TxnInv'
  <2> DEFINE r == [is |-> "refused", strings |-> <<>>]
  <2>1. RoundOK(r) /\ r.is # "failed"
    BY DEF RoundOK
  <2> HIDE DEF r
  <2>2. rounds' = Append(rounds, r)
    BY <1>2 DEF Refuse, r
  <2> QED
    BY <1>1, <1>2, <2>1, <2>2, RoundInv, Zenon DEF Refuse
<1>3. ASSUME NEW f, NEW strings, RoundFails(f, strings), f.is # "none",
             \A j \in DOMAIN strings : strings[j] = "scrubbed",
             UNCHANGED <<hdl, slot, last, call, ops, ret, endedBy, code>>
      PROVE  TxnInv'
  <2> DEFINE r == [is |-> "failed", why |-> f, slot |-> slot,
                   strings |-> strings]
  <2>1. RoundOK(r) /\ r.is = "failed" /\ r.why = f /\ r.why # None
    BY <1>1, <1>3 DEF RoundOK, None
  <2> HIDE DEF r
  <2>2. rounds' = Append(rounds, r) /\ failure' = ConvFail(f)
    BY <1>3 DEF RoundFails, r
  <2> QED
    BY <1>1, <1>3, <2>1, <2>2, RoundInv, Zenon
<1>4. ASSUME NEW msgs, BadMessages(msgs) PROVE TxnInv'
  <2>1. Messages(msgs).is # "none"
    BY <1>4 DEF BadMessages, Messages, None, Err
  <2>2. \A j \in DOMAIN <<>> : <<>>[j] = "scrubbed"
    OBVIOUS
  <2> QED
    BY <1>3, <1>4, <2>1, <2>2, Zenon DEF BadMessages
<1>5. ASSUME NEW k \in Nat, NEW S, NEW msgs \in [1 .. k -> S],
             NEW answer \in Replies(msgs), NEW short,
             Converses(msgs, answer, short)
      PROVE  TxnInv'
  <2>1. UNCHANGED <<hdl, slot, last, call, ops, ret, endedBy, code>>
    BY <1>5, Zenon DEF Converses
  <2>2. \A j \in DOMAIN <<>> : <<>>[j] = "scrubbed"
    OBVIOUS
  <2>3. CASE answer.is \in {"err", "panic"} /\ RoundFails(answer, <<>>)
    BY <1>3, <2>1, <2>2, <2>3
  <2>4. CASE RoundFails(Err("ConvErr"), <<>>)
    <3>1. Err("ConvErr").is # "none"
      BY DEF Err
    <3> QED
      BY <1>3, <2>1, <2>2, <2>4, <3>1
  <2> DEFINE built == responses_to_c(answer.given, short)
  <2>5. CASE built.is = "err" /\ RoundFails(Err(built.of), built.strings)
    <3>1. Err(built.of).is # "none"
      BY DEF Err
    <3>2. \A j \in DOMAIN built.strings : built.strings[j] = "scrubbed"
      BY <2>5, Scrubbed, Zenon
    <3> QED
      BY <1>3, <2>1, <2>5, <3>1, <3>2, Zenon
  <2>6. CASE /\ answer.is = "answers" /\ Len(answer.given) = Len(msgs)
             /\ built.is = "ok" /\ UNCHANGED failure
             /\ rounds' = Append(rounds,
                   [is |-> "answered", asked |-> msgs, slot |-> slot,
                    given |-> answer.given, strings |-> built.strings])
    <3>1. built.strings = answer.given
      BY <2>6, Handed
    <3>2. DOMAIN answer.given = DOMAIN msgs
      <4>1. Len(msgs) = k /\ DOMAIN msgs = 1 .. k
        OBVIOUS
      <4>2. CASE answer = Unattended(msgs)
        BY <4>2 DEF Unattended
      <4>3. CASE \E a \in SeqUpTo(Answer, MaxMessages) :
                   answer = [is |-> "answers", given |-> a]
        <5>1. PICK m \in 0 .. MaxMessages : answer.given \in [1 .. m -> Answer]
          BY <4>3 DEF SeqUpTo
        <5>2. Len(answer.given) = m /\ DOMAIN answer.given = 1 .. m
          BY <5>1
        <5> QED
          BY <2>6, <4>1, <5>2, Zenon
      <4>4. answer # Err("converse") /\ answer # Panic
        BY <2>6 DEF Err, Panic
      <4> QED
        BY <4>2, <4>3, <4>4, Zenon DEF Replies
    <3> DEFINE r == [is |-> "answered", asked |-> msgs, slot |-> slot,
                     given |-> answer.given, strings |-> built.strings]
    <3>3. RoundOK(r) /\ r.is # "failed"
      BY <1>1, <3>1, <3>2, Zenon DEF RoundOK
    <3> HIDE DEF r
    <3>4. rounds' = Append(rounds, r)
      BY <2>6 DEF r
    <3> QED
      BY <1>1, <2>1, <2>6, <3>3, <3>4, RoundInv, Zenon
  <2> QED
    BY <1>5, <2>3, <2>4, <2>5, <2>6, Zenon DEF Converses
<1>6. \A n \in 1 .. MaxMessages : n \in Nat
  OBVIOUS
<1> QED
  BY <1>2, <1>4, <1>5, <1>6, Zenon DEF Round

\* Every step of the transaction keeps it.
LEMMA TxnNextInv == TxnInv /\ [TxnNext]_txnVars => TxnInv'
<1> SUFFICES ASSUME TxnInv, [TxnNext]_txnVars PROVE TxnInv'
  OBVIOUS
<1>1. CASE Round
  BY <1>1, TxnRoundInv
<1>2. ASSUME rounds' = rounds
      PROVE  /\ FailedRounds' = FailedRounds
             /\ AnswersHandedOrBurned'
             /\ rounds' \in Seq(Range(rounds'))
             /\ \A i \in FailedRounds' : rounds'[i].why # None
  BY <1>2, Zenon DEF FailedRounds, AnswersHandedOrBurned, TxnInv
<1>3. ASSUME rounds' = <<>>
      PROVE  /\ FailedRounds' = {} /\ AnswersHandedOrBurned'
             /\ rounds' \in Seq(Range(rounds'))
  BY <1>3 DEF FailedRounds, AnswersHandedOrBurned
<1>4. CASE Configured
  <2>1. call = "configure" /\ hdl = "live" /\ slot = "live" /\ ops = 0
    BY <1>4, Zenon DEF Configured, TxnInv
  <2>2. failure = None
    BY <2>1 DEF TxnInv
  <2>3. ReportsItsRounds'
    BY <1>4, <2>1 DEF Configured, ReportsItsRounds
  <2>4. call' # "op" /\ call' # "end" /\ hdl' # "ended"
    BY <1>4, <2>1 DEF Configured
  <2> QED
    BY <1>2, <1>4, <2>1, <2>2, <2>3, <2>4, Zenon DEF Configured, TxnInv
<1>5. CASE Begin
  BY <1>3, <1>5, Zenon DEF Begin, TxnInv, ReportsItsRounds, FirstFailed
<1>6. CASE take_messages
  BY <1>2, <1>6, Zenon DEF take_messages, TxnInv, ReportsItsRounds
<1>7. CASE Drop
  BY <1>3, <1>7, Zenon DEF Drop, TxnInv, ReportsItsRounds, FirstFailed
<1>8. CASE Dropped
  BY <1>2, <1>8, Zenon DEF Dropped, TxnInv, ReportsItsRounds
<1>9. ASSUME NEW c, Start(c) PROVE TxnInv'
  BY <1>2, <1>9, Zenon DEF Start, TxnInv, ReportsItsRounds
<1>10. ASSUME NEW c, set_conversation(c) PROVE TxnInv'
  BY <1>2, <1>10, Zenon DEF set_conversation, TxnInv, ReportsItsRounds
<1>11. ASSUME NEW rc, stack_op(rc) PROVE TxnInv'
  BY <1>2, <1>11, Zenon
     DEF stack_op, Outcome, TxnInv, FirstFailed, ReportsItsRounds
<1>12. CASE UNCHANGED txnVars
  BY <1>2, <1>12, Zenon DEF txnVars, TxnInv, FirstFailed, ReportsItsRounds
<1> QED
  BY <1>1, <1>4, <1>5, <1>6, <1>7, <1>8, <1>9, <1>10, <1>11, <1>12 DEF TxnNext

\* stack_op, for any number of rounds and operations: an operation reports
\* the first failure of its own rounds, and pam_end is told libpam's code.
THEOREM ReportsItsRoundsHolds == TxnSpec => []ReportsItsRounds
<1>1. TxnInv => ReportsItsRounds
  BY DEF TxnInv
<1> QED
  BY <1>1, TxnInitInv, TxnNextInv, PTL DEF TxnSpec

\* trampoline and responses_to_c, for any number of messages and rounds: one
\* answer per message, or every copy scrubbed before it is freed; and the
\* slot is there for as long as a module may converse.
THEOREM AnswersHandedOrBurnedHolds == TxnSpec => []AnswersHandedOrBurned
<1>1. TxnInv => AnswersHandedOrBurned
  BY DEF TxnInv
<1> QED
  BY <1>1, TxnInitInv, TxnNextInv, PTL DEF TxnSpec
=============================================================================
