------------------------------ MODULE GssMessage ------------------------------
(***************************************************************************)
(* truenas_gssapi: the per message calls on an established context, which  *)
(* write into the caller's own buffers.  A byte is a tuple that says what  *)
(* it holds.                                                               *)
(***************************************************************************)
EXTENDS Naturals, Sequences, FiniteSets, Functions

CONSTANTS
    Plaintexts, \* the messages signed and sealed: sequences of bytes
    Headers, Paddings, Trailers, \* the lengths the mechanism may ask for
    MaxOut      \* bound: checksums gather in a buffer of at most this length

ASSUME MessageAssumption ==
    /\ \A m \in Plaintexts : /\ m \in Seq(Range(m))
                             /\ \A byte \in Range(m) : byte \in Seq(Range(byte))
    /\ Headers \subseteq Nat /\ Paddings \subseteq Nat /\ Trailers \subseteq Nat

VARIABLES
    doing, \* the per message call under way
    out,   \* the caller's buffer for a checksum
    was,   \* out as the call found it
    token, \* the buffer sealed and opened in place
    msg,   \* the message the call is about
    range, \* where unwrap_in_place says it lies: <<first, last>>, or <<>>
    copies \* buffers the library allocated and nobody released yet

messageVars == <<doing, out, was, token, msg, range, copies>>

Zeros(n) == [i \in 1 .. n |-> <<"0">>]
Bytes(kind, n) == [i \in 1 .. n |-> <<kind>>]

\* The checksum of a message, which tells every message apart, and the
\* sealed form of its bytes (external: the mechanism's).
Mic(m) == <<<<"mic", m>>, <<"mic">>>>
Seal(m) == [i \in DOMAIN m |-> <<"sealed">> \o m[i]]

MessageInit ==
    /\ doing = "rest" /\ out = <<>> /\ was = <<>> /\ token = <<>>
    /\ msg = <<>> /\ range = <<>> /\ copies = 0

\* get_mic_into signs a message held elsewhere, get_mic_within one that lies
\* in out; the query gives a length of which the checksum may use less, and
\* out grows by it before the checksum is asked for.
get_mic ==
    /\ doing = "rest"
    /\ \/ \E m \in Plaintexts : msg' = m
       \/ \E i, j \in 1 .. Len(out) : i <= j /\ msg' = SubSeq(out, i, j)
    /\ \E more \in 0 .. 1 : out' = out \o Zeros(2 + more)
    /\ was' = out
    /\ doing' = "mic"
    /\ UNCHANGED <<token, range, copies>>

get_mic_ok ==
    /\ doing = "mic"
    /\ out' = SubSeq(out, 1, Len(was)) \o Mic(msg)
    /\ doing' = "signed"
    /\ UNCHANGED <<was, token, msg, range, copies>>

\* A checksum that fails takes the tail away again.
get_mic_err_Kept ==
    /\ doing = "mic"
    /\ doing' = "failed"
    /\ UNCHANGED <<out, was, token, msg, range, copies>>
get_mic_err ==
    /\ doing = "mic"
    /\ out' = SubSeq(out, 1, Len(was))
    /\ doing' = "failed"
    /\ UNCHANGED <<was, token, msg, range, copies>>

\* gss_get_mic_iov_length or gss_wrap_iov_length fails: no buffer was touched.
lengths_err ==
    /\ doing = "rest"
    /\ was' = out
    /\ doing' = "failed"
    /\ UNCHANGED <<out, token, msg, range, copies>>

\* wrap_in_place on a token laid out by wrap_lengths: the message after the
\* header and before the padding and the trailer, each written within its
\* own part.  A token shorter than its lengths is refused.
wrap_in_place ==
    /\ doing = "rest"
    /\ \E m \in Plaintexts, h \in Headers, p \in Paddings, t \in Trailers,
          short \in BOOLEAN :
        LET len == IF short THEN h + p + t - 1 ELSE h + Len(m) + p + t
            message == len - (h + p + t)
        IN  /\ short => h + p + t > 0
            /\ msg' = m /\ was' = out
            /\ IF len < h + p + t
               THEN doing' = "failed" /\ token' = Zeros(len)
               ELSE /\ doing' = "sealed"
                    /\ token' = Bytes("header", h) \o Seal(SubSeq(m, 1, message))
                                \o Bytes("padding", p) \o Bytes("trailer", t)
    /\ UNCHANGED <<out, range, copies>>

\* gss_wrap_iov fails: the token is spent, and the bytes as they were laid out
\* stand for what the library left of them.
wrap_in_place_err ==
    /\ doing = "rest"
    /\ \E m \in Plaintexts, h \in Headers, p \in Paddings, t \in Trailers :
        msg' = m /\ token' = Zeros(h) \o m \o Zeros(p + t)
    /\ was' = out
    /\ doing' = "failed"
    /\ UNCHANGED <<out, range, copies>>

\* Where the message lies when the library pointed into the token: the
\* offset from the token's start, when the bytes end within it.
Inside(data, len) ==
    IF data.allocated \/ data.at < 0 \/ data.at + data.len > len
    THEN <<>> ELSE <<data.at + 1, data.at + data.len>>

\* What gss_unwrap_iov may answer for the token: the message opened where it
\* stands, or a copy, which may be longer than the token.
Answers ==
    LET h == Cardinality({i \in DOMAIN token : token[i] = <<"header">>})
        plain == [i \in DOMAIN token |->
                    IF token[i][1] = "sealed"
                    THEN Tail(token[i]) ELSE token[i]]
        n == Len(msg)
    IN  {[data |-> [allocated |-> FALSE, at |-> h, len |-> n], token |-> plain,
          copy |-> <<>>],
         [data |-> [allocated |-> TRUE, at |-> h, len |-> n],
          token |-> token, copy |-> msg],
         [data |-> [allocated |-> TRUE, at |-> 0, len |-> Len(token) + 1],
          token |-> token, copy |-> Zeros(Len(token) + 1)]}

\* gss_release_iov_buffer frees what the library allocated, and that only.
Allocated(a) == IF a.data.allocated THEN 1 ELSE 0
Released(a) == Allocated(a)

unwrap_in_place ==
    /\ doing = "sealed"
    /\ \/ /\ doing' = "failed" /\ UNCHANGED <<token, range, copies>>
       \/ \E a \in Answers :
            LET copied == IF Len(a.copy) < Len(token) THEN Len(a.copy)
                          ELSE Len(token)
                inside == Inside(a.data, Len(token))
            IN  IF inside # <<>>
                THEN /\ range' = inside /\ token' = a.token
                     /\ doing' = "opened" /\ UNCHANGED copies
                ELSE /\ token' = SubSeq(a.copy, 1, copied)
                                 \o SubSeq(token, copied + 1, Len(token))
                     /\ copies' = (copies + Allocated(a)) - Released(a)
                     /\ IF copied # a.data.len
                        THEN doing' = "failed" /\ UNCHANGED range
                        ELSE doing' = "opened" /\ range' = <<1, a.data.len>>
    /\ UNCHANGED <<out, was, msg>>

\* The caller goes on, with the same buffer or a fresh one.
Settled ==
    /\ doing \in {"signed", "failed", "opened"}
    /\ doing' = "rest"
    /\ token' = <<>> /\ msg' = <<>> /\ range' = <<>>
    /\ was' = <<>> /\ out' = IF Len(out) > MaxOut THEN <<>> ELSE out
    /\ UNCHANGED copies

MessageNext ==
    \/ get_mic \/ get_mic_ok \/ get_mic_err \/ lengths_err
    \/ wrap_in_place \/ wrap_in_place_err \/ unwrap_in_place \/ Settled

MessageSpec == MessageInit /\ [][MessageNext]_messageVars

-----------------------------------------------------------------------------
\* A checksum is appended to the caller's buffer behind what was there, and
\* a call that fails leaves the buffer as it was; what was sealed in place
\* is found in place, at the range unwrap_in_place returns; no copy the
\* library made is left or released twice.
InPlaceIsExact ==
    /\ doing = "signed" => out = was \o Mic(msg)
    /\ doing = "failed" => out = was
    /\ doing = "opened" => SubSeq(token, range[1], range[2]) = msg
    /\ copies = 0
=============================================================================
