------------------------------ MODULE MCCrates ------------------------------
(* The parts of the system that one thread works through alone, for TLC.  A *)
(* behaviour is of one part, chosen at its start, so that TLC explores the  *)
(* sum of their states.                                                     *)
EXTENDS Xdr, Metafmt, MdbWalk, GssMessage, Ktls, PamTransaction, Krb5Keytab

CONSTANTS MaxNext, MaxCalls, MaxBatch, MaxObjects

VARIABLES
    crate,
    next, calls, pending, gather, sent, stream, buffer, replies, matched,
    fn, pc, held, failed, leaving, twice,
    cred, acc, ctx, live, made, proven

-----------------------------------------------------------------------------
(* The types and values of Xdr. *)

T(k) == [k |-> k]
Of(k, t) == [k |-> k, of |-> t]
Fields(k, ts) == [k |-> k, fields |-> ts]
AtMost(n, t) == [k |-> "bounded", max |-> n, of |-> t]
FixedBytes(n) == [k |-> "fixed", n |-> n]
Variant(d, fs) == [disc |-> d, fields |-> fs, default |-> FALSE]
DefaultArm(fs) == [disc |-> <<>>, fields |-> fs, default |-> TRUE]
Declared(k, vs) == [k |-> k, decl |-> vs]

Color == Declared("xenum", <<Variant(<<4>>, <<>>), Variant(<<>>, <<>>),
                             Variant(<<-1>>, <<>>)>>)
Reply == Declared("xunion", <<Variant(<<1>>, <<T("u32")>>), Variant(<<3>>, <<>>)>>)
Open  == Declared("xunion", <<Variant(<<4>>, <<>>),
                              DefaultArm(<<Color, T("opaque"), T("bool")>>)>>)
Wild  == Declared("xunion", <<Variant(<<1>>, <<>>),
                              DefaultArm(<<T("i32"), T("u8")>>)>>)
Plain == [k |-> "enum", arms |-> <<<<>>, <<T("str")>>,
                                   <<T("u8"), Of("option", T("u8"))>>>>]
Pair  == Fields("struct", <<AtMost(1, T("str")), T("opaque")>>)
Deep  == Of("option", Of("option", Of("option",
            Of("option", Of("option", Of("option", T("u8")))))))
Arm(n, body) == [arm |-> n, body |-> body]

Word(n) == ToBe(n, 4)

\* Elements of no size, with a field behind them.
Units  == Of("seq", T("unit"))
Tagged == Fields("struct", <<Units, T("u32")>>)

\* An array and a list of them that the field behind made room for, as the
\* decode of such a message returns them.
Framed(k) == Fields("struct", <<Of(k, Units), T("u32")>>)
Kept(k, bytes) ==
    <<Of(k, Units), FromBytes(Framed(k), bytes \o Word(3), "Strict").v[1]>>
KeptArray == Kept("array_ref", Word(2) \o Word(0) \o Word(1))
KeptList  == Kept("list_ref", Word(1) \o Word(2) \o Word(0))

XdrValues ==
    {<<T("bool"), TRUE>>, <<T("i8"), -2>>, <<T("u64"), 300>>,
     <<T("i64"), -3>>, <<T("u16"), 5>>, <<T("char"), CharMax>>,
     <<T("str"), <<1, 2>>>>, <<T("str"), <<1, 0>>>>,
     <<T("opaque"), <<3, 0, 1, 2, 1>>>>, <<Pair, <<<<0>>, <<1>>>>>>,
     <<Pair, <<<<1>>, <<1, 3>>>>>>, <<Pair, <<<<1, 1>>, <<1>>>>>>,
     <<AtMost(2, Of("seq", AtMost(1, T("str")))), <<<<1>>, <<>>>>>>,
     <<Fields("tuple", <<FixedBytes(3), T("opaque")>>), <<<<1, 2, 3>>, <<2>>>>>>,
     <<Of("seq", T("bool")), <<TRUE, FALSE>>>>, <<Units, <<>>>>,
     <<Units, <<<<>>, <<>>>>>>, <<Tagged, <<<<<<>>>>, 3>>>>,
     <<Tagged, <<<<<<>>, <<>>>>, 3>>>>, KeptArray, KeptList,
     <<Framed("array_ref"), <<KeptArray[2], 3>>>>,
     <<Fields("tuple", <<T("str"), Units>>), <<<<0>>, <<<<>>>>>>>>,
     <<Of("option", Of("newtype", Of("option", T("u8")))), <<<<2>>>>>>,
     <<Deep, <<<<<<<<<<<<1>>>>>>>>>>>>>>,
     <<Plain, Arm(1, <<>>)>>, <<Plain, Arm(2, <<<<1>>>>)>>,
     <<Plain, Arm(3, <<1, <<>>>>)>>, <<Color, 2>>, <<Color, 3>>,
     <<Reply, Arm(1, <<7>>)>>, <<Open, Arm(1, <<>>)>>,
     <<Open, Arm(2, <<1, <<1>>, TRUE>>)>>, <<Open, Arm(2, <<2, <<1>>, TRUE>>)>>,
     <<Wild, Arm(2, <<-2, 3>>)>>, <<Wild, Arm(2, <<1, 3>>)>>}

XdrEncodings ==
    {<<Of("array_ref", T("bool")), n, Word(1) \o Word(0)>> : n \in 0 .. 3}
      \cup {<<Of("list_ref", T("opaque")), 0,
              Word(1) \o Word(1) \o <<2, 0, 0, 0>> \o Word(0)>>,
            <<Of("list_ref", T("bool")), 0,
              Word(1) \o Word(1) \o Word(1) \o Word(0) \o Word(0)>>,
            <<Of("list_ref", T("bool")), 0, Word(0)>>,
            <<Of("array_ref", T("u32")), 1, Word(5)>>,
            <<Of("array_ref", Of("array_ref", T("u8"))), 2,
              Word(1) \o Word(1) \o Word(0)>>}

\* The declarations above are ones the two derives accept.  A discriminant
\* past i32::MAX, a default arm that is not last and one without a field to
\* hold the discriminant are refused.
ASSUME DerivesAccepted ==
    /\ \A d \in {Color, Reply, Open, Wild} : Compiles(d)
    /\ ~Compiles(Declared("xenum", <<Variant(<<127>>, <<>>), Variant(<<>>, <<>>)>>))
    /\ ~Compiles(Declared("xunion", <<DefaultArm(<<Color>>), Variant(<<1>>, <<>>)>>))
    /\ ~Compiles(Declared("xunion", <<DefaultArm(<<>>)>>))

-----------------------------------------------------------------------------
(* The settings of Metafmt, one with a NUL and one too long for its bound. *)

Settings ==
    [filename_charset : {<<1>>, <<0>>}, smb_sfm_normalized : {TRUE},
     streams : {<<>>, <<[stream_prefix |-> <<>>, stream_suffix |-> <<2>>,
                         stream_extra_null |-> FALSE]>>}]
    \cup {[filename_charset |-> <<1, 1, 1>>, smb_sfm_normalized |-> FALSE,
           streams |-> <<>>]}

-----------------------------------------------------------------------------
(* JsonRpc: methods whose text holds what framing looks for, and objects of *)
(* every shape from another peer.                                           *)

JsonMethods == [plain |-> <<"a">>, odd |-> <<"}", "\\", "quote", "{">>]
JsonCalls == {<<"odd", "none">>, <<"unknown", "arr">>, <<"odd", "scalar">>}

Value(t, x) == IF t = "num" THEN [t |-> t, n |-> x] ELSE [t |-> t, s |-> x]
Given(r) == [t |-> "obj", m |-> [f \in {g \in DOMAIN r : r[g] # <<>>} |-> r[f][1]]]
Two == <<Value("str", "2.0")>>
NamedPlain == <<Value("str", "plain")>>
Nulls == [t |-> "null"]
Array(s) == Value("arr", s)
Seven == <<Value("num", 7)>>

Members ==
    {Value("num", 1), Array(<<>>), Given([jsonrpc |-> Two, method |-> NamedPlain]),
     Given([jsonrpc |-> Two, method |-> NamedPlain, id |-> Seven]),
     Given([jsonrpc |-> Two, id |-> Seven]),
     Given([method |-> NamedPlain, id |-> <<Value("str", "x")>>]),
     Given([jsonrpc |-> Two, method |-> <<Value("str", "none")>>,
            id |-> <<Nulls>>])}

FromOthers ==
    {Given(r) : r \in
        [jsonrpc : {<<>>, Two, <<Value("str", "1.0")>>, <<Value("num", 2)>>},
         method : {<<>>, NamedPlain, <<Nulls>>},
         params : {<<>>, <<Array(<<>>)>>, <<Nulls>>},
         id : {<<>>, <<Nulls>>, Seven, <<Value("str", "x")>>,
               <<[t |-> "bool"]>>, <<Array(<<>>)>>}]}
    \cup {Nulls, Value("str", "plain"), [t |-> "bool"], [t |-> "garbled"],
          Array(<<>>)}
    \cup {Array(<<a>>) : a \in Members} \cup {Array(<<a, b>>) : a, b \in Members}

J == INSTANCE JsonRpc WITH Methods <- JsonMethods, Asked <- JsonCalls,
                           Strange <- FromOthers

ASSUME CallerAssumption == J!JsonAssumption

-----------------------------------------------------------------------------
(* Krb5Calls, the values of Krb5Keytab, and Krb5Name. *)

C == INSTANCE Krb5Calls

Key(princ) == [princ |-> princ, enctype |-> "aes", vno |-> 1]

TableEntries == {Key("nas"), Key("web")}
TableFilters == {[princ |-> "nas", enctype |-> <<>>, vno |-> <<>>],
                 [princ |-> "nas", enctype |-> <<"aes">>, vno |-> <<1>>]}

N == INSTANCE Krb5Name

Names == UNION {[1 .. n -> {"a", "\\", "/", "@"}] : n \in 0 .. 2}

\* RawPrincipal::build: whatever a component or a realm holds, the library
\* reads the text back as the same principal.
ASSUME QuotingReadsBack ==
    \A a, b, r \in Names :
        LET p == [components |-> <<a, b>>, realm |-> r]
        IN N!ParseName(N!Build(p)) = p

-----------------------------------------------------------------------------
(* GssAccept, and the values of GssMessage. *)

G == INSTANCE GssAccept

SignedMessages == {<<>>, <<<<"x">>>>, <<<<"x">>, <<"y">>>>}

-----------------------------------------------------------------------------
(* The keys and starts of MdbWalk. *)

StoredKeys == {<<0>>, <<0, 1>>, <<1>>, <<1, 0>>}
WalkStarts == {<<>>, <<0>>, <<0, 0>>, <<1>>, <<1, 1>>}

-----------------------------------------------------------------------------
(* SipHash, on vectors of its reference implementation: every length of the *)
(* last word and a message of whole words.                                  *)

P == INSTANCE SipHash

UpTo(n) == [i \in 1 .. n |-> i - 1]

\* vectors_sip64, the output for the input 0, 1 .. n - 1.
Vectors ==
    {<<0, <<\h31, \h0e, \h0e, \hdd, \h47, \hdb, \h6f, \h72>>>>,
     <<1, <<\hfd, \h67, \hdc, \h93, \hc5, \h39, \hf8, \h74>>>>,
     <<7, <<\h37, \hd1, \h01, \h8b, \hf5, \h00, \h02, \hab>>>>,
     <<8, <<\h62, \h24, \h93, \h9a, \h79, \hf5, \hf5, \h93>>>>,
     <<15, <<\he5, \h45, \hbe, \h49, \h61, \hca, \h29, \ha1>>>>,
     <<16, <<\hdb, \h9b, \hc2, \h57, \h7f, \hcc, \h2a, \h3f>>>>,
     <<23, <<\hc8, \hce, \h5c, \hcd, \h8c, \h03, \h0c, \ha8>>>>}

ASSUME HashesAgree ==
    \A v \in Vectors :
        P!Hash(P!Key(UpTo(16)), UpTo(v[1])) = P!FromLeBytes(v[2])

-----------------------------------------------------------------------------
jsonVars == <<next, calls, pending, gather, sent, stream, buffer, replies, matched>>
callVars == <<fn, pc, held, failed, leaving, twice>>
acceptVars == <<cred, acc, ctx, live, made, proven>>

CratesInit ==
    /\ crate \in {"xdr", "metafmt", "jsonrpc", "krb5", "keytab", "accept",
                  "message", "ktls", "pam", "mdb"}
    /\ Init /\ MetaInit /\ J!Init /\ C!CallsInit /\ TableInit
    /\ G!AcceptInit /\ MessageInit /\ KtlsInit /\ TxnInit
    /\ WalkInit /\ (crate # "mdb" => stored = {})

XdrStep ==
    crate = "xdr" /\ Next /\ UNCHANGED <<crate, metaVars, jsonVars, callVars,
        tableVars, acceptVars, messageVars, ktlsVars, txnVars, walkedVars>>
MetafmtStep ==
    crate = "metafmt" /\ MetaNext /\ UNCHANGED <<crate, vars, jsonVars,
        callVars, tableVars, acceptVars, messageVars, ktlsVars, txnVars,
        walkedVars>>
JsonRpcStep ==
    crate = "jsonrpc" /\ J!Next /\ UNCHANGED <<crate, vars, metaVars,
        callVars, tableVars, acceptVars, messageVars, ktlsVars, txnVars,
        walkedVars>>
Krb5Step ==
    crate = "krb5" /\ C!CallsNext /\ UNCHANGED <<crate, vars, metaVars,
        jsonVars, tableVars, acceptVars, messageVars, ktlsVars, txnVars,
        walkedVars>>
KeytabStep ==
    crate = "keytab" /\ TableNext /\ UNCHANGED <<crate, vars, metaVars,
        jsonVars, callVars, acceptVars, messageVars, ktlsVars, txnVars,
        walkedVars>>
AcceptStep ==
    crate = "accept" /\ G!AcceptNext /\ UNCHANGED <<crate, vars, metaVars,
        jsonVars, callVars, tableVars, messageVars, ktlsVars, txnVars,
        walkedVars>>
MessageStep ==
    crate = "message" /\ MessageNext /\ UNCHANGED <<crate, vars, metaVars,
        jsonVars, callVars, tableVars, acceptVars, ktlsVars, txnVars, walkedVars>>
KtlsStep ==
    crate = "ktls" /\ KtlsNext /\ UNCHANGED <<crate, vars, metaVars,
        jsonVars, callVars, tableVars, acceptVars, messageVars, txnVars,
        walkedVars>>
PamStep ==
    crate = "pam" /\ TxnNext /\ UNCHANGED <<crate, vars, metaVars, jsonVars,
        callVars, tableVars, acceptVars, messageVars, ktlsVars, walkedVars>>
MdbStep ==
    crate = "mdb" /\ WalkNext /\ UNCHANGED <<crate, vars, metaVars,
        jsonVars, callVars, tableVars, acceptVars, messageVars, ktlsVars,
        txnVars>>

CratesNext ==
    \/ XdrStep \/ MetafmtStep \/ JsonRpcStep \/ Krb5Step \/ KeytabStep
    \/ AcceptStep \/ MessageStep \/ KtlsStep \/ PamStep \/ MdbStep

allVars == <<crate, vars, metaVars, jsonVars, callVars, tableVars, acceptVars,
             messageVars, ktlsVars, txnVars, walkedVars>>

CratesSpec == CratesInit /\ [][CratesNext]_allVars

\* See JsonRpc: frame over a stream split anywhere.
FramesAreTheMessages == J!FramesAreTheMessages

\* See JsonRpc: Caller's ids and parse_answer.
AnswerIsForItsCall == J!AnswerIsForItsCall

\* See JsonRpc: parse, Response and batch_frame.
RefusalsNameTheirRequest == J!RefusalsNameTheirRequest

\* See Krb5Calls and GssAccept: every handle of libkrb5 is given back once,
\* and what gss_accept_sec_context hands over has one owner.
ReleasedOnce == C!HandlesBalanced /\ G!OwnedOnce
=============================================================================
