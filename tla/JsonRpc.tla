------------------------------ MODULE JsonRpc -------------------------------
(***************************************************************************)
(* JSON-RPC 2.0 over a byte stream (truenas_jsonrpc): a client that builds *)
(* calls with Caller and batch_of (src/client.rs) and reads answers with   *)
(* parse_answer (src/reply.rs), and a server that finds the messages with  *)
(* frame (src/frame.rs), reads them with parse (src/request.rs) and        *)
(* answers with Response and batch_frame (src/response.rs).                *)
(*                                                                         *)
(* A JSON value is a record with its type t.  Text is a sequence of        *)
(* characters, kept because framing is about them; serde_json is external  *)
(* and reads a text back to the value that was written, and nothing else.  *)
(* The stream splits anywhere.  The server's methods and the client's map  *)
(* of calls are the application's; another peer may send any object.       *)
(***************************************************************************)
EXTENDS Integers, Sequences, SequencesExt, FiniteSets, TLC

CONSTANTS Methods,    \* method name |-> the characters it is made of
          Asked,      \* the calls a client may make, as <<method, params>>
          MaxNext,    \* u64::MAX
          MaxCalls,   \* bound on the calls of a behaviour
          MaxBatch,   \* bound on the objects gathered for a batch
          Strange     \* what another peer sends: values of any shape

JsonAssumption ==
    /\ MaxNext \in Nat \ {0} /\ MaxCalls \in Nat /\ MaxBatch \in Nat

-----------------------------------------------------------------------------
(* Values and their text. *)

Num(n) == [t |-> "num", n |-> n]
Str(s) == [t |-> "str", s |-> s]
Null   == [t |-> "null"]
Obj(m) == [t |-> "obj", m |-> m]
Arr(s) == [t |-> "arr", s |-> s]
Bool   == [t |-> "bool"]
JSONRPC_VERSION == "2.0"

Has(o, name) == name \in DOMAIN o.m
IsStr(o, name) == Has(o, name) /\ o.m[name].t = "str"

Quoted(chars) == <<"quote">> \o chars \o <<"quote">>

\* The characters of a value that framing tells apart.  The member names,
\* the version, commas and colons are left out: none holds a bracket.
RECURSIVE Text(_)
Text(v) ==
    CASE v.t = "num" -> <<"1">>
      [] v.t \in {"null", "bool"} -> <<"n">>
      [] v.t = "str" -> Quoted(IF v.s \in DOMAIN Methods THEN Methods[v.s]
                                                        ELSE <<>>)
      [] v.t = "arr" -> <<"[">> \o FlattenSeq([i \in DOMAIN v.s |->
                                                 Text(v.s[i])]) \o <<"]">>
      [] v.t = "obj" ->
            LET of(name) == IF Has(v, name) THEN Text(v.m[name]) ELSE <<>>
            IN <<"{">> \o of("method") \o of("params") \o of("id") \o <<"}">>

-----------------------------------------------------------------------------
(* frame *)

\* Mutant: the escape is not followed, so an escaped quote ends the string.
InString_NoEscape(s, c) == [s EXCEPT !.string = c # "quote"]

\* A character inside a string.
InString(s, c) ==
    CASE s.escaped      -> [s EXCEPT !.escaped = FALSE]
      [] c = "\\" /\ ~s.escaped -> [s EXCEPT !.escaped = TRUE]
      [] c = "quote" /\ ~s.escaped -> [s EXCEPT !.string = FALSE]
      [] OTHER          -> s

\* A character between strings; end is where depth came back to zero.
Outside(s, c) ==
    CASE c = "quote"      -> [s EXCEPT !.string = TRUE]
      [] c \in {"{", "["} -> [s EXCEPT !.depth = @ + 1]
      [] c \in {"}", "]"} -> [s EXCEPT !.depth = @ - 1,
                                       !.end = IF s.depth = 1 THEN s.at ELSE 0]
      [] OTHER            -> s

\* The scan from where s stands, up to the end of the message or the buffer.
RECURSIVE Scan(_, _)
Scan(buf, s) ==
    IF s.end # 0 \/ s.at = Len(buf) THEN s.end
    ELSE LET t == [s EXCEPT !.at = @ + 1]
         IN Scan(buf, IF t.string THEN InString(t, buf[t.at])
                                  ELSE Outside(t, buf[t.at]))

\* Frame: Complete(n) as n, Incomplete as 0, Invalid as -1.
Incomplete == 0
Invalid == -1

Frame(buf) ==
    LET i == SelectInSeq(buf, LAMBDA c : c # "ws")
    IN IF i = 0 THEN Incomplete
       ELSE IF buf[i] \notin {"{", "["} THEN Invalid
       ELSE Scan(buf, [at |-> i - 1, depth |-> 0, string |-> FALSE,
                       escaped |-> FALSE, end |-> Incomplete])

-----------------------------------------------------------------------------
(* parse *)

\* Id::from_raw: <<id>>, or <<>> for a Boolean, an Array or an Object.
IdFromRaw(v) == IF v.t \in {"null", "str", "num"} THEN <<v>> ELSE <<>>

Refusal(id, code) == [is |-> "invalid", id |-> id, code |-> code]

Wrong(o) ==
    \/ ~IsStr(o, "jsonrpc") \/ o.m["jsonrpc"].s # JSONRPC_VERSION
    \/ ~IsStr(o, "method")
    \/ Has(o, "params") /\ o.m["params"].t \notin {"arr", "obj"}

\* Mutant: the version is checked before the id is read.
One_VersionFirst(o) ==
    LET id == IF Has(o, "id") THEN IdFromRaw(o.m["id"]) ELSE <<>>
    IN IF Wrong(o) \/ (Has(o, "id") /\ id = <<>>)
       THEN Refusal(Null, "INVALID_REQUEST")
       ELSE [is |-> "valid", id |-> id, method |-> o.m["method"].s]

\* request.rs, one: the id first, so that every later refusal names it.
One(o) ==
    LET id == IF Has(o, "id") THEN IdFromRaw(o.m["id"]) ELSE <<>>
    IN CASE Has(o, "id") /\ id = <<>> -> Refusal(Null, "INVALID_REQUEST")
         [] (Has(o, "id") => id # <<>>) /\ Wrong(o) ->
                Refusal(IF id = <<>> THEN Null ELSE id[1], "INVALID_REQUEST")
         [] OTHER -> [is |-> "valid", id |-> id, method |-> o.m["method"].s]

Element(v) == IF v.t = "obj" THEN One(v) ELSE Refusal(Null, "INVALID_REQUEST")

\* Incoming: calls of one object, of a batch, or one refusal of the frame.
Parse(v) ==
    CASE v.t = "garbled" ->
            [is |-> "frame", calls |-> <<Refusal(Null, "PARSE_ERROR")>>]
      [] v.t = "obj" -> [is |-> "single", calls |-> <<One(v)>>]
      [] v.t = "arr" /\ v.s # <<>> ->
            [is |-> "batch", calls |-> [i \in DOMAIN v.s |-> Element(v.s[i])]]
      [] OTHER ->
            [is |-> "frame", calls |-> <<Refusal(Null, "INVALID_REQUEST")>>]

-----------------------------------------------------------------------------
(* Response, batch_frame and parse_answer *)

ErrorObject(code) == Obj([code |-> Num(1), message |-> Str(code)])

\* Response::write_into: exactly one of result and error, and the id.
Response(id, is, v) ==
    Obj([jsonrpc |-> Str(JSONRPC_VERSION), id |-> id] @@ (is :> v))

\* What the application answers a call with: a refusal as it came, a method
\* it knows with a result, another with METHOD_NOT_FOUND.
Outcome(method) ==
    IF method \in DOMAIN Methods THEN [is |-> "result", v |-> Str(method)]
    ELSE [is |-> "error", v |-> ErrorObject("METHOD_NOT_FOUND")]

AnswerTo(call) ==
    IF call.is = "invalid" THEN Response(call.id, "error", ErrorObject(call.code))
    ELSE LET o == Outcome(call.method) IN Response(call.id[1], o.is, o.v)

\* A notification is not answered, inside a batch included.
Answers(calls) ==
    LET due == SelectSeq(calls, LAMBDA c : c.is = "invalid" \/ c.id # <<>>)
    IN [i \in DOMAIN due |-> AnswerTo(due[i])]

\* batch_frame for a batch, else the one response; <<>> for no frame.
ReplyFrame(incoming, responses) ==
    IF responses = <<>> THEN <<>>
    ELSE IF incoming.is = "batch" THEN <<Arr(responses)>> ELSE responses

NotAReply == [is |-> "invalid"]

ReadError(v) ==
    IF v.t = "obj" /\ Has(v, "code") /\ v.m["code"].t = "num" /\ IsStr(v, "message")
    THEN v ELSE NotAReply

\* reply.rs, one: the id is required, and one of result and error.
ReadReply(v) ==
    IF \/ v.t # "obj" \/ ~IsStr(v, "jsonrpc") \/ v.m["jsonrpc"].s # JSONRPC_VERSION
       \/ ~Has(v, "id") \/ IdFromRaw(v.m["id"]) = <<>>
       \/ Has(v, "result") = Has(v, "error")
    THEN NotAReply
    ELSE IF Has(v, "error") /\ ReadError(v.m["error"]) = NotAReply
         THEN NotAReply
         ELSE LET is == IF Has(v, "error") THEN "error" ELSE "result"
              IN [is |-> is, id |-> v.m["id"], v |-> v.m[is]]

\* parse_answer: the replies of a frame, or <<>> when any of it is none.
ParseAnswer(v) ==
    LET replies == CASE v.t = "obj" -> <<ReadReply(v)>>
                     [] v.t = "arr" -> [i \in DOMAIN v.s |-> ReadReply(v.s[i])]
                     [] OTHER -> <<>>
    IN IF NotAReply \in ToSet(replies) THEN <<>> ELSE replies

-----------------------------------------------------------------------------
(* The client, the stream and the server. *)

VARIABLES
    next,     \* Caller.next
    calls,    \* the calls built
    pending,  \* the client's map: [id, method] of each outstanding call
    gather,   \* the objects gathered for a batch
    sent,     \* the messages on their way, as [v, text]
    stream,   \* the characters the transport has not delivered yet
    buffer,   \* the characters the server holds
    replies,  \* the frames served, as [of, frame], frame <<>> for no answer
    matched   \* the calls answered, as [method, is, v]

vars == <<next, calls, pending, gather, sent, stream, buffer, replies,
          matched>>

Init ==
    /\ next = 1 /\ calls = 0 /\ pending = {} /\ gather = <<>>
    /\ sent = <<>> /\ stream = <<>> /\ buffer = <<>> /\ replies = <<>>
    /\ matched = {}

\* open: a params that is no Array or Object, or that does not encode, is
\* refused before anything is sent.
Opens(params) == params \in {"none", "arr"}

RequestObject(method, params) ==
    [jsonrpc |-> Str(JSONRPC_VERSION), method |-> Str(method)]
      @@ (IF params = "arr" THEN [params |-> Arr(<<>>)] ELSE <<>>)

\* White space between messages.
Send(v) ==
    LET text == (IF calls = 0 THEN <<>> ELSE <<"ws">>) \o Text(v)
    IN /\ sent' = Append(sent, [v |-> v, text |-> text])
       /\ stream' = stream \o text

\* An object goes out on its own or is gathered for a batch.
SendOrGather(o) ==
    \/ gather = <<>> /\ Send(o) /\ UNCHANGED gather
    \/ Len(gather) < MaxBatch /\ gather' = Append(gather, o)
       /\ UNCHANGED <<sent, stream>>

\* Mutant: a built request does not take its id.
Mint_Never == UNCHANGED next

\* self.next.saturating_add(1)
Mint == next' = IF next < MaxNext THEN next + 1 ELSE next

\* The client's turn begins once another peer's frame is done with.
MayCall == calls < MaxCalls /\ (calls = 0 => replies = <<>>)

\* Caller::request and request_with_id.
Request(method, params) ==
    /\ MayCall
    /\ \/ /\ Opens(params) /\ Mint
          /\ SendOrGather(Obj(RequestObject(method, params)
                                @@ [id |-> Num(next)]))
          /\ pending' = {p \in pending : p.id # next}
                          \cup {[id |-> next, method |-> method]}
          /\ calls' = calls + 1
       \/ /\ ~Opens(params)
          /\ UNCHANGED <<next, calls, pending, gather, sent, stream>>
    /\ UNCHANGED <<buffer, replies, matched>>

Notify(method) ==
    /\ MayCall /\ calls' = calls + 1
    /\ SendOrGather(Obj(RequestObject(method, "none")))
    /\ UNCHANGED <<next, pending, buffer, replies, matched>>

\* batch_of
SendBatch ==
    /\ gather # <<>> /\ Send(Arr(gather)) /\ gather' = <<>>
    /\ UNCHANGED <<next, calls, pending, buffer, replies, matched>>

\* The transport reads when the server has no whole message.
Deliver(n) ==
    /\ Frame(buffer) = Incomplete
    /\ buffer' = buffer \o SubSeq(stream, 1, n)
    /\ stream' = SubSeq(stream, n + 1, Len(stream))
    /\ UNCHANGED <<next, calls, pending, gather, sent, replies, matched>>

\* serde_json: the value a text was written from.
Read(text) == IF sent # <<>> /\ text = Head(sent).text THEN Head(sent).v
                                                       ELSE [t |-> "garbled"]

\* The server parses a value and answers; a batch in any order.
Serve(v) ==
    LET incoming == Parse(v)
        due == Answers(incoming.calls)
    IN \E perm \in {f \in [DOMAIN due -> DOMAIN due] :
                       \A i, j \in DOMAIN due : f[i] = f[j] => i = j} :
           replies' = Append(replies, [of |-> v, frame |->
                ReplyFrame(incoming, [i \in DOMAIN due |-> due[perm[i]]])])

TakeFrame ==
    LET n == Frame(buffer)
    IN /\ n > 0 /\ Serve(Read(SubSeq(buffer, 1, n)))
       /\ buffer' = SubSeq(buffer, n + 1, Len(buffer))
       /\ sent' = IF sent = <<>> THEN sent ELSE Tail(sent)
       /\ UNCHANGED <<next, calls, pending, gather, stream, matched>>

\* The client reads a frame and takes each reply to the call it names.
TakeAnswer ==
    /\ replies # <<>> /\ replies' = Tail(replies)
    /\ LET got == UNION {ToSet(ParseAnswer(f)) : f \in ToSet(Head(replies).frame)}
           for(p) == {r \in got : r.id = Num(p.id)}
       IN /\ matched' = matched \cup UNION {{[method |-> p.method, is |-> r.is,
                                     v |-> r.v] : r \in for(p)} : p \in pending}
          /\ pending' = {p \in pending : for(p) = {}}
    /\ UNCHANGED <<next, calls, gather, sent, stream, buffer>>

\* Another peer's frame, over a transport that delimits messages.
OtherPeer(v) ==
    /\ calls = 0 /\ Serve(v)
    /\ UNCHANGED <<next, calls, pending, gather, sent, stream, buffer, matched>>

DropReply ==
    /\ calls = 0 /\ replies # <<>>
    /\ replies' = Tail(replies)
    /\ UNCHANGED <<next, calls, pending, gather, sent, stream, buffer, matched>>

Next ==
    \/ \E a \in Asked : Request(a[1], a[2])
    \/ \E m \in {a[1] : a \in Asked} \cap DOMAIN Methods : Notify(m)
    \/ SendBatch
    \/ \E n \in 1 .. Len(stream) : Deliver(n)
    \/ TakeFrame \/ TakeAnswer
    \/ \E v \in Strange : replies = <<>> /\ OtherPeer(v)
    \/ DropReply

Spec == Init /\ [][Next]_vars

-----------------------------------------------------------------------------
(* Properties *)

\* However the stream is split, frame cuts exactly the message that was sent
\* next, with the white space before it, says Incomplete for every proper
\* prefix of it and never calls the stream Invalid: quotes, escapes and
\* brackets inside a method name included.
FramesAreTheMessages ==
    LET n == Frame(buffer)
        message == IF sent = <<>> THEN <<>> ELSE Head(sent).text
    IN /\ n # Invalid
       /\ n = Incomplete => IF sent = <<>> THEN buffer = <<>>
                                           ELSE Len(buffer) < Len(message)
       /\ n > 0 => SubSeq(buffer, 1, n) = message

\* While the id counter has not saturated, what a call is matched with is
\* what the server answered to that method, whatever shared its batch and
\* in whatever order the answers came; and once nothing is on its way no
\* call is left waiting.
AnswerIsForItsCall ==
    calls <= MaxNext =>
        /\ \A m \in matched : Outcome(m.method) = [is |-> m.is, v |-> m.v]
        /\ (gather = <<>> /\ sent = <<>> /\ replies = <<>>) => pending = {}

\* Every element of a frame that is not a well-formed notification gets
\* exactly one response, against its own id wherever that can be read and
\* Null otherwise; the answer is an Array exactly for a batch, is left out
\* when empty, and parse_answer accepts it.
RefusalsNameTheirRequest ==
    \A r \in ToSet(replies) :
        LET v == r.of
            isBatch == v.t = "arr" /\ v.s # <<>>
            Notification(e) == e.t = "obj" /\ ~Has(e, "id") /\ ~Wrong(e)
            idOf(e) == IF e.t = "obj" /\ Has(e, "id") /\ IdFromRaw(e.m["id"]) # <<>>
                       THEN e.m["id"] ELSE Null
            due == SelectSeq(IF isBatch THEN v.s ELSE <<v>>,
                             LAMBDA e : ~Notification(e))
            got == IF r.frame = <<>> THEN <<>> ELSE ParseAnswer(r.frame[1])
        IN /\ Len(got) = Len(due)
           /\ \A e \in ToSet(due) :
                Cardinality({i \in DOMAIN got : got[i].id = idOf(e)})
                  = Cardinality({i \in DOMAIN due : idOf(due[i]) = idOf(e)})
           /\ r.frame # <<>> => /\ due # <<>>
                                /\ (r.frame[1].t = "arr") = isBatch
=============================================================================
