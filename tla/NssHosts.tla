------------------------------ MODULE NssHosts ------------------------------
(* truenas_nss, hosts.rs: the name of an address, kept only where a forward  *)
(* lookup of the name gives the address back.  glibc's two calls are what    *)
(* the reverse and the forward zone answer, or a failure of either.          *)
EXTENDS FiniteSets, Sequences, SequencesExt

CONSTANTS Addrs, HostNames

\* An IPv4 address, one mapped from IPv4 into IPv6, and another of IPv6.
IpAddrs == [family : {"v4", "mapped", "v6"}, ip : Addrs]

\* IpAddr::to_canonical.
to_canonical(addr) ==
    [addr EXCEPT !.family = IF @ = "mapped" THEN "v4" ELSE @]

Codes == {"0", "NONAME", "NODATA", "AGAIN", "SYSTEM"}

\* found: a missing name is no failure, and errno counts only for SYSTEM.
found(code, errno) ==
    CASE code = "0" -> [is |-> "ok", found |-> TRUE]
      [] code \in {"NONAME", "NODATA"} -> [is |-> "ok", found |-> FALSE]
      [] OTHER -> [is |-> "err", code |-> code,
                   errno |-> IF code = "SYSTEM" THEN errno ELSE "0"]

NoName == [is |-> "ok", name |-> <<>>]

\* getnameinfo, of what its call made of the canonical address.
getnameinfo(r) ==
    LET f == found(r.code, r.errno) IN
    IF f.is = "err" THEN f
    ELSE IF ~f.found THEN NoName
    ELSE IF ~r.utf8 THEN [is |-> "err", code |-> "NotUtf8", errno |-> "0"]
    ELSE [is |-> "ok", name |-> <<r.name>>]

\* address_of: an entry of either IP family, if its length holds an address.
address_of(e) == IF e.whole /\ e.addr \in IpAddrs THEN <<e.addr>> ELSE <<>>

\* addresses: those of the list that getaddrinfo gave.
addresses(f) ==
    LET g == found(f.code, f.errno) IN
    IF g.is = "err" THEN g
    ELSE [is |-> "ok", addrs |->
            IF g.found
            THEN FlattenSeq([i \in DOMAIN f.list |-> address_of(f.list[i])])
            ELSE <<>>]

\* confirmed_name: forward is what getaddrinfo makes of each name.
confirmed_name(addr, r, forward) ==
    LET n == getnameinfo(r) IN
    IF n.is = "err" \/ n.name = <<>> THEN n
    ELSE LET back == addresses(forward[n.name[1]]) IN
         IF back.is = "err" THEN back
         ELSE IF \E i \in DOMAIN back.addrs :
                    to_canonical(back.addrs[i]) = to_canonical(addr)
              THEN n ELSE NoName

-----------------------------------------------------------------------------
Reverses == [code : Codes, errno : {"EIO"}, name : HostNames, utf8 : BOOLEAN]

Found == {[addr |-> a, whole |-> w] :
             a \in IpAddrs \cup {[family |-> "unix"]}, w \in BOOLEAN}
Lists == {<<e>> : e \in Found} \cup {<<d, e>> : d, e \in Found}
Forwards == [code : Codes, errno : {"EIO"}, list : Lists]

\* A name is returned where the reverse lookup gave it and the forward lookup
\* of that name gave the address, in either of its forms.  Nothing is
\* reported to have no name because a lookup failed.
NamesAreConfirmed ==
    \A addr \in IpAddrs, r \in Reverses, n \in HostNames, f \in Forwards :
        LET forward == [h \in HostNames |->
                IF h = n THEN f ELSE [code |-> "NONAME", errno |-> "0",
                                      list |-> <<>>]]
            c == confirmed_name(addr, r, forward)
        IN  /\ c.is = "ok" =>
                 /\ r.code \in {"0", "NONAME", "NODATA"}
                 /\ r.code = "0" /\ r.name = n =>
                       f.code \in {"0", "NONAME", "NODATA"}
                 /\ (c.name # <<>>) <=>
                       /\ r.code = "0" /\ r.utf8 /\ r.name = n
                       /\ f.code = "0"
                       /\ \E i \in DOMAIN f.list :
                             /\ f.list[i].whole
                             /\ f.list[i].addr \in IpAddrs
                             /\ f.list[i].addr.ip = addr.ip
                             /\ (f.list[i].addr.family = "v6")
                                  <=> (addr.family = "v6")
                 /\ c.name \in {<<>>, <<r.name>>}
            /\ c.is = "err" => c.code \notin {"0", "NONAME", "NODATA"}
=============================================================================
