------------------------------ MODULE Metafmt -------------------------------
(***************************************************************************)
(* The record of a dataset's on-disk layout (truenas_metafmt/src/lib.rs),  *)
(* over the XDR codec: pack, unpack and compare_stored, and the xattr that *)
(* the callers of different releases write and that may be damaged.        *)
(* A string is its bytes, an Option is <<>> or <<x>>.                      *)
(***************************************************************************)
EXTENDS XdrCodec

CONSTANTS MAGIC, VERSION, FILENAME_CHARSET_MAX, STREAM_AFFIX_MAX,
          Formats   \* the settings the callers want

Text(max) == [k |-> "bounded", max |-> max, of |-> [k |-> "str"]]
Struct(ts) == [k |-> "struct", fields |-> ts]
U32 == [k |-> "u32"]

Header == Struct(<<U32, U32>>)

StreamsV1 ==
    Struct(<<Text(STREAM_AFFIX_MAX), Text(STREAM_AFFIX_MAX), [k |-> "bool"]>>)

BodyV1 == Struct(<<Text(FILENAME_CHARSET_MAX), [k |-> "bool"],
                   [k |-> "option", of |-> StreamsV1]>>)

Packed == Struct(<<U32, U32, BodyV1>>)

\* The two conversions between MetaFmt and BodyV1.
ToBody(fmt) ==
    <<fmt.filename_charset, fmt.smb_sfm_normalized,
      [i \in DOMAIN fmt.streams |->
         LET s == fmt.streams[i]
         IN <<s.stream_prefix, s.stream_suffix, s.stream_extra_null>>]>>

FromBody(body) ==
    [filename_charset |-> body[1], smb_sfm_normalized |-> body[2],
     streams |-> [i \in DOMAIN body[3] |->
         [stream_prefix |-> body[3][i][1], stream_suffix |-> body[3][i][2],
          stream_extra_null |-> body[3][i][3]]]]

Strings(fmt) ==
    {fmt.filename_charset}
      \cup UNION {{s.stream_prefix, s.stream_suffix} : s \in ToSet(fmt.streams)}

\* Mutant: pack leaves the NUL to the reader.
Pack_Nul(fmt) == ToBytes(Packed, <<MAGIC, VERSION, ToBody(fmt)>>)

\* MetaFmt::pack
Pack(fmt) ==
    IF \E s \in Strings(fmt) : 0 \in ToSet(s)
    THEN Fail(Serializer(Unbounded), "EmbeddedNul")
    ELSE ToBytes(Packed, <<MAGIC, VERSION, ToBody(fmt)>>)

Contents(body) ==
    IF Failed(body) THEN [is |-> "Xdr"] ELSE [is |-> "Ok", fmt |-> FromBody(body.v)]

Release(header) ==
    CASE Failed(header) -> [is |-> "Xdr"]
      [] ~Failed(header) /\ (header.v[1] # MAGIC \/ header.v[2] = 0) ->
             [is |-> "NotARecord"]
      [] ~Failed(header) /\ header.v[1] = MAGIC /\ header.v[2] = VERSION ->
             Contents(FromBytes(BodyV1, Remaining(header), "Strict"))
      [] OTHER -> [is |-> "NewerVersion", version |-> header.v[2]]

\* MetaFmt::unpack: the settings, or one of the errors.
Unpack(bytes) == Release(FromPrefix(Header, bytes, "Strict"))

Judge(want, u) ==
    CASE u.is = "Ok" /\ u.fmt = want -> [is |-> "Same"]
      [] u.is = "Ok" /\ u.fmt # want -> [is |-> "Differs", fmt |-> u.fmt]
      [] u.is = "NewerVersion" -> [is |-> "Newer", version |-> u.version]
      [] OTHER -> [is |-> "Unreadable", error |-> u.is]

\* MetaFmt::compare_stored
CompareStored(want, stored) ==
    IF stored = <<>> THEN [is |-> "Unstamped"] ELSE Judge(want, Unpack(stored[1]))

-----------------------------------------------------------------------------
VARIABLES
    xattr,    \* the stored value, <<>> for none
    stamped,  \* what was stored and not damaged since: <<>>, <<fmt>>
    newer,    \* what is stored is a later release's
    verdict   \* the last comparison: <<>> or <<[want, got]>>

metaVars == <<xattr, stamped, newer, verdict>>

MetaInit == xattr = <<>> /\ stamped = <<>> /\ newer = FALSE /\ verdict = <<>>

Stamp(fmt) ==
    /\ ~Failed(Pack(fmt)) /\ xattr' = <<Pack(fmt).out>>
    /\ stamped' = <<fmt>> /\ newer' = FALSE /\ verdict' = <<>>

\* A release with another version and fields of its own.
StampNewer(fmt) ==
    /\ ~Failed(ToBytes(BodyV1, ToBody(fmt)))
    /\ xattr' = <<ToBytes(Header, <<MAGIC, VERSION + 1>>).out
                    \o Tail(ToBytes(BodyV1, ToBody(fmt)).out)>>
    /\ stamped' = <<>> /\ newer' = TRUE /\ verdict' = <<>>

\* A byte changes, or the end is lost.
Spoil ==
    /\ stamped # <<>> \/ newer
    /\ \/ \E i \in DOMAIN xattr[1], b \in Byte :
              b # xattr[1][i] /\ xattr' = <<[xattr[1] EXCEPT ![i] = b]>>
       \/ \E n \in 0 .. Len(xattr[1]) - 1 : xattr' = <<SubSeq(xattr[1], 1, n)>>
    /\ stamped' = <<>> /\ newer' = FALSE /\ verdict' = <<>>

Compare(want) ==
    /\ verdict' = <<[want |-> want, got |-> CompareStored(want, xattr)]>>
    /\ UNCHANGED <<xattr, stamped, newer>>

MetaNext ==
    \/ \E f \in Formats : Stamp(f) \/ StampNewer(f) \/ Compare(f)
    \/ Spoil

\* What compare_stored says is what is stored: a record that pack wrote and
\* nobody damaged is Same for exactly the settings it was packed from and
\* Differs with those settings for any other, a later release's is Newer, and
\* no bytes are Same or Differs but the ones pack writes for the settings
\* named.
VerdictIsTrue ==
    \A x \in ToSet(verdict) :
        LET got == x.got
        IN /\ got.is = "Unstamped" <=> xattr = <<>>
           /\ got.is = "Same" => ~Failed(Pack(x.want)) /\ xattr = <<Pack(x.want).out>>
           /\ got.is = "Differs" => /\ got.fmt # x.want /\ ~Failed(Pack(got.fmt))
                                    /\ xattr = <<Pack(got.fmt).out>>
           /\ newer => got.is = "Newer"
           /\ stamped # <<>> =>
                got = IF stamped[1] = x.want THEN [is |-> "Same"]
                      ELSE [is |-> "Differs", fmt |-> stamped[1]]
=============================================================================
