----------------------------- MODULE ChronyWire -----------------------------
(* truenas_chrony: wire.rs, request.rs and the layouts of the reports.  What *)
(* a request is made of, which datagrams answer it, and the conversions of   *)
(* addresses and of the two scalars that are not plain integers.  A wire     *)
(* word has Bits bits, Exponent of them a float's exponent (32 and 7 in the  *)
(* protocol).                                                                *)
EXTENDS Integers, Sequences, FiniteSetsExt, SequencesExt

CONSTANTS Bits, Exponent, MAX_NSEC

VERSION == 6
OLDEST_MISMATCH_VERSION == 4
TYPE_REPLY == 2
REQUEST_HEADER == 20
REPLY_HEADER == 28
STATUS_OK == 0
STATUS_BAD_VERSION == 18

-----------------------------------------------------------------------------
(* The reports. *)

Floats(n) == [i \in 1 .. n |-> "float"]

\* A Layout: the command, the reply code, the declared length, and the fields
\* in the order read takes them, skipped ones included.
SourceCount ==
    [command |-> 14, reply |-> 2, len |-> 4, fields |-> <<"u32">>]

Source ==
    [command |-> 15, reply |-> 3, len |-> 48, fields |->
        <<"address", "u16", "u16", "u16", "u16", "u16", "u16", "u32">>
          \o Floats(3)]

Selection ==
    [command |-> 69, reply |-> 23, len |-> 48, fields |->
        <<"u32", "address", "u8", "u8", "u8", "u8", "u16", "u16", "u32">>
          \o Floats(3)]

Tracking ==
    [command |-> 33, reply |-> 5, len |-> 76, fields |->
        <<"u32", "address", "u16", "u16", "timestamp">> \o Floats(9)]

Authentication ==
    [command |-> 67, reply |-> 20, len |-> 24, fields |->
        <<"u16", "u16", "u32", "u16", "u16", "u32", "u16", "u16", "u16",
          "u16">>]

Layouts ==
    [count |-> SourceCount, source |-> Source, selection |-> Selection,
     tracking |-> Tracking, authentication |-> Authentication]

Reports == DOMAIN Layouts

\* What Reader takes for a field.
Size(f) == CASE f = "u8" -> 1
             [] f = "u16" -> 2
             [] f \in {"u32", "float"} -> 4
             [] f = "timestamp" -> 12
             [] f = "address" -> 20

Read(t) == FoldLeft(LAMBDA n, f : n + Size(f), 0, Layouts[t].fields)

\* The data a request carries: nothing, an index or an address.
Data(t) == CASE t \in {"source", "selection"} -> 4
             [] t = "authentication" -> 20
             [] OTHER -> 0

\* build: the request is as long as its reply.
build(t, sequence) ==
    [command |-> Layouts[t].command, sequence |-> sequence,
     len |-> REPLY_HEADER + Layouts[t].len, report |-> t]

\* wire::decode: the Reader is held to the declared length, bytes past it are
\* ignored, and a field past it is malformed.
decode_report(t, reply, len) ==
    IF reply # Layouts[t].reply THEN "UnexpectedReply"
    ELSE IF \/ len - REPLY_HEADER < Layouts[t].len
            \/ Layouts[t].len < Read(t) THEN "Malformed"
    ELSE "Ok"

\* Request::decode, of a datagram d.
decode(q, d) ==
    LET mismatch == /\ d.version # VERSION
                    /\ d.version >= OLDEST_MISMATCH_VERSION
                    /\ d.status = STATUS_BAD_VERSION
    IN  IF \/ d.len < REPLY_HEADER
           \/ d.version # VERSION /\ ~mismatch
           \/ d.type # TYPE_REPLY \/ d.reserved # 0
           \/ d.command # q.command \/ d.sequence # q.sequence
        THEN "Unrelated"
        ELSE IF mismatch THEN "Version"
        ELSE IF d.status # STATUS_OK THEN "Status"
        ELSE decode_report(q.report, d.reply, d.len)

\* What chronyd answers a request it serves with.
Served(t, sequence) ==
    [version |-> VERSION, type |-> TYPE_REPLY, reserved |-> 0,
     command |-> Layouts[t].command, reply |-> Layouts[t].reply,
     status |-> STATUS_OK, sequence |-> sequence,
     len |-> REPLY_HEADER + Layouts[t].len]

-----------------------------------------------------------------------------
(* Scalars. *)

Word == 0 .. 2^Bits - 1

\* A cast of w bits to the signed type, and its arithmetic shift.
Signed(n, w) == IF n < 2^(w - 1) THEN n ELSE n - 2^w
Shr(n, by) == n \div 2^by

\* float: what the coefficient is, and the power of two it is times.
float(raw) ==
    [exp |-> Shr(Signed(raw, Bits), Bits - Exponent) - (Bits - Exponent),
     coef |-> Shr(Signed((raw * 2^Exponent) % 2^Bits, Bits), Exponent)]

NO_HIGH_WORD == 2^(Bits - 1) - 1

\* Reader::timestamp, in nanoseconds from the epoch.  Before the epoch the
\* seconds are taken off and the nanoseconds put back on.
timestamp(high, low, nanos) ==
    LET nsec == Min({nanos, MAX_NSEC})
        word == IF high = NO_HIGH_WORD THEN 0 ELSE high
        secs == Signed(word * 2^Bits + low, 2 * Bits)
    IN  secs * (MAX_NSEC + 1) + nsec

-----------------------------------------------------------------------------
(* Addresses, as four words and a family code. *)

Families == [Unspecified |-> 0, V4 |-> 1, V6 |-> 2, Id |-> 3]

\* put_address: an identifier and an IPv4 address are in the first word.
put_address(a) ==
    [addr |-> CASE a.is = "Unspecified" -> <<0, 0, 0, 0>>
                [] a.is = "V6" -> a.ip
                [] OTHER -> <<a.ip, 0, 0, 0>>,
     family |-> Families[a.is]]

\* Reader::address: an unknown family has no address.
address(w) ==
    CASE w.family = 2 -> [is |-> "V6", ip |-> w.addr]
      [] w.family = 1 -> [is |-> "V4", ip |-> w.addr[1]]
      [] w.family = 3 -> [is |-> "Id", ip |-> w.addr[1]]
      [] OTHER -> [is |-> "Unspecified"]

-----------------------------------------------------------------------------
\* Every layout declares the length of what it reads, so that a reply that is
\* long enough for Reader::new never runs out in the middle, and no two
\* reports share a command or a reply code.
LayoutsFill ==
    /\ \A t \in Reports : Read(t) = Layouts[t].len
    /\ \A t, u \in Reports : t # u =>
           /\ Layouts[t].command # Layouts[u].command
           /\ Layouts[t].reply # Layouts[u].reply

\* build's debug_assert: what a request carries fits in the length of its
\* reply, which chronyd asks it to have.
RequestsFit ==
    \A t \in Reports : REQUEST_HEADER + Data(t) <= build(t, 0).len

Datagrams ==
    {[Served(u, s) EXCEPT !.version = v, !.type = y, !.reserved = z,
                          !.status = c, !.reply = Layouts[w].reply,
                          !.len = l] :
        u \in Reports, w \in Reports, s \in 0 .. 1, v \in 3 .. 7,
        y \in 1 .. 2, z \in 0 .. 1, c \in {STATUS_OK, STATUS_BAD_VERSION},
        l \in {27, 28, 51, 76, 104}}

\* A report is read from a whole reply in this version, to this command and
\* sequence number and of this layout, and from nothing else; another
\* version is heard only where it says that it does not speak this one.
AnswersAreReplies ==
    \A t \in Reports, d \in Datagrams :
        LET q == build(t, 0) IN
        /\ decode(q, Served(t, 0)) = "Ok"
        /\ decode(q, d) = "Ok" =>
               /\ [Served(t, 0) EXCEPT !.len = d.len] = d
               /\ d.len >= Served(t, 0).len
        /\ decode(q, d) # "Unrelated" =>
               /\ d.command = q.command /\ d.sequence = q.sequence
               /\ d.version # VERSION => decode(q, d) = "Version"

\* The two fields of a float are two's complement numbers side by side.
FloatsAreExact ==
    \A raw \in Word :
        LET f == float(raw)
            c == Bits - Exponent
        IN  /\ f.coef \in -(2^(c - 1)) .. 2^(c - 1) - 1
            /\ f.exp + c \in -(2^(Exponent - 1)) .. 2^(Exponent - 1) - 1
            /\ raw = ((f.exp + c) % 2^Exponent) * 2^c + (f.coef % 2^c)

\* Two times in the order of their seconds are read in that order, on either
\* side of the epoch and whatever their nanoseconds hold.
TimesInOrder ==
    \A high \in {0, 1, 2^(Bits - 1), 2^Bits - 1}, low \in 1 .. 2^Bits - 1,
       a, b \in {0, 1, MAX_NSEC, MAX_NSEC + 1} :
        /\ timestamp(high, low - 1, a) < timestamp(high, low, b)
        /\ a <= b => timestamp(high, low, a) <= timestamp(high, low, b)
        /\ timestamp(high, low, 0) < 0 <=> high >= 2^(Bits - 1)

Addresses ==
    {[is |-> "Unspecified"]}
      \cup [is : {"V4", "Id"}, ip : 0 .. 2]
      \cup [is : {"V6"}, ip : [1 .. 4 -> 0 .. 2]]

\* An address that is asked about is the one chronyd reads, and two addresses
\* of different families are never one on the wire; what is read from a reply
\* is read back from it.
AddressesAreExact ==
    /\ \A a \in Addresses : address(put_address(a)) = a
    /\ \A w \in [addr : [1 .. 4 -> 0 .. 2], family : 0 .. 4] :
           address(put_address(address(w))) = address(w)
=============================================================================
