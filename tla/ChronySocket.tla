---------------------------- MODULE ChronySocket ----------------------------
(* The reply sockets of chrony clients (client.rs): chronyd answers a client *)
(* at a socket file the client binds in a shared directory.  A client that   *)
(* exits without dropping leaves its file behind, and every later connect    *)
(* sweeps the directory first.  Clients are processes; nothing but the       *)
(* kernel's calls, one step each, orders their sweeps, binds and drops.      *)
EXTENDS Naturals, FiniteSets

CONSTANTS Clients,    \* processes that connect, each one client at a time
          Names,      \* names of sixteen random hex digits and ".sock"
          Foreign,    \* stale sockets in the directory under other names
          Nobody      \* no socket is bound to the file

ASSUME SocketAssumption == Nobody \notin Clients /\ Names \cap Foreign = {}

VARIABLES dir,     \* the files in the directory
          used,    \* the reply names drawn so far
          owner,   \* name -> the client whose socket is bound to its file
          place,   \* client -> where it is in connect_in or in its drop
          name,    \* client -> the name of the file it is probing or bound
          left,    \* client -> names its read_dir has not returned yet
          entries,  \* client -> names that read_dir must still return
          stale    \* client -> those no socket was bound to at read_dir

socketVars == <<dir, used, owner, place, name, left, entries, stale>>

Live(c) == place[c] \in {"bound", "up"}

SocketInit ==
    /\ dir = Foreign /\ used = {}
    /\ owner = [n \in Names |-> Nobody]
    /\ place = [c \in Clients |-> "out"]
    /\ name = [c \in Clients |-> Nobody]
    /\ left = [c \in Clients |-> {}] /\ entries = left /\ stale = left

Goto(c, there) == place' = [place EXCEPT ![c] = there]

Refused_AnyError(n) ==
    n \in dir /\ (n \in Names => \A c \in Clients : owner[n] = c => place[c] = "up")

\* Whether the probe's connect to n is refused: the file is there and no
\* socket is bound to it.  A socket that has a peer answers with EPERM, and a
\* missing file with ENOENT.
Refused(n) == n \in dir /\ (n \in Names => owner[n] = Nobody)

\* bind_reply_socket up to the read_dir of sweep, or past sweep when read_dir
\* fails.  A daemon that cannot be reached changes nothing.
ReadDir(c) ==
    /\ place[c] = "out"
    /\ \/ /\ Goto(c, "sweep")
          /\ left' = [left EXCEPT ![c] = Names \cup Foreign]
          /\ entries' = [entries EXCEPT ![c] = dir]
          /\ stale' = [stale EXCEPT ![c] = {n \in dir \cap Names : Refused(n)}]
       \/ Goto(c, "bind") /\ UNCHANGED <<left, entries, stale>>
    /\ UNCHANGED <<dir, used, owner, name>>

\* The next entry: is_reply_name, and the probe.  An entry made or removed
\* since the directory was opened may or may not be returned.  A probe that
\* cannot be made leaves the file.
Probe(c, n) ==
    /\ place[c] = "sweep" /\ n \in left[c] /\ n \in dir \cup entries[c]
    /\ left' = [left EXCEPT ![c] = @ \ {n}]
    /\ entries' = [entries EXCEPT ![c] = @ \ {n}]
    /\ \/ /\ n \in Names /\ Refused(n)
          /\ Goto(c, "remove") /\ name' = [name EXCEPT ![c] = n]
          /\ UNCHANGED stale
       \/ /\ ~(n \in Names /\ Refused(n))
          /\ UNCHANGED <<place, name, stale>>
       \/ /\ stale' = [stale EXCEPT ![c] = @ \ {n}]
          /\ UNCHANGED <<place, name>>
    /\ UNCHANGED <<dir, used, owner>>

\* remove_file of a stale path: by name, whatever the name leads to by now.
RemoveStale(c) ==
    /\ place[c] = "remove"
    /\ dir' = dir \ {name[c]}
    /\ Goto(c, "sweep") /\ name' = [name EXCEPT ![c] = Nobody]
    /\ UNCHANGED <<used, owner, left, entries, stale>>

SweepEnds(c) ==
    /\ place[c] = "sweep" /\ entries[c] \cap dir = {}
    /\ Goto(c, "bind")
    /\ left' = [left EXCEPT ![c] = {}] /\ entries' = [entries EXCEPT ![c] = {}]
    /\ UNCHANGED <<dir, used, owner, name, stale>>

\* Eight random bytes: a name no client has drawn before.
Tags == Names \ used

\* read_exact of the tag, and bind: it makes the file and binds the socket.
Bind(c) ==
    /\ place[c] = "bind"
    /\ \E n \in Tags :
          /\ used' = used \cup {n} /\ dir' = dir \cup {n}
          /\ owner' = [owner EXCEPT ![n] = c]
          /\ name' = [name EXCEPT ![c] = n]
    /\ Goto(c, "bound")
    /\ stale' = [stale EXCEPT ![c] = {}] /\ UNCHANGED <<left, entries>>

\* set_permissions of the file and connect to the daemon.
Peer(c) ==
    /\ place[c] = "bound" /\ Goto(c, "up")
    /\ UNCHANGED <<dir, used, owner, name, left, entries, stale>>

\* One of them fails: the locals drop last to first, the file before the
\* socket.
PeerFails(c) ==
    /\ place[c] = "bound" /\ Goto(c, "failing")
    /\ dir' = dir \ {name[c]}
    /\ UNCHANGED <<used, owner, name, left, entries, stale>>

\* Drop of the Client's socket, its first field; or of the failed connect's.
Close(c) ==
    /\ place[c] \in {"up", "failing"}
    /\ Goto(c, IF place[c] = "up" THEN "closed" ELSE "out")
    /\ owner' = [owner EXCEPT ![name[c]] = Nobody]
    /\ name' = [name EXCEPT ![c] = IF place[c] = "up" THEN @ ELSE Nobody]
    /\ UNCHANGED <<dir, used, left, entries, stale>>

\* Drop of ReplySocket.
DropReplySocket(c) ==
    /\ place[c] = "closed" /\ Goto(c, "out")
    /\ dir' = dir \ {name[c]} /\ name' = [name EXCEPT ![c] = Nobody]
    /\ UNCHANGED <<used, owner, left, entries, stale>>

\* The process exits without running the drops: the kernel closes the socket
\* and the file stays.
Crash(c) ==
    /\ place[c] # "out" /\ Goto(c, "out")
    /\ owner' = [n \in Names |-> IF owner[n] = c THEN Nobody ELSE owner[n]]
    /\ left' = [left EXCEPT ![c] = {}] /\ entries' = [entries EXCEPT ![c] = {}]
    /\ stale' = [stale EXCEPT ![c] = {}] /\ name' = [name EXCEPT ![c] = Nobody]
    /\ UNCHANGED <<dir, used>>

SocketStep(c) ==
    \/ ReadDir(c) \/ RemoveStale(c) \/ SweepEnds(c) \/ Bind(c) \/ Peer(c)
    \/ PeerFails(c) \/ Close(c) \/ DropReplySocket(c) \/ Crash(c)
    \/ \E n \in Names \cup Foreign : Probe(c, n)

SocketNext == \E c \in Clients : SocketStep(c)
SocketSpec == SocketInit /\ [][SocketNext]_socketVars

\* sweep: "no client is bound to them, so one exited without dropping its
\* own".  However the sweeps of other clients interleave with its bind, its
\* connect and its drop, a client that is connecting or connected keeps the
\* file chronyd answers at, bound to its own socket.
LiveSocketKept ==
    \A c \in Clients : Live(c) => name[c] \in dir /\ owner[name[c]] = c

\* sweep leaves what is not a reply socket, and once its loop is over every
\* reply socket it found stale and could probe is gone, removed by it or by
\* another client.
SweepIsExact ==
    /\ Foreign \subseteq dir
    /\ \A c \in Clients : place[c] = "bind" => stale[c] \cap dir = {}

\* Both: what a connect does to the shared directory.
ReplyDirKept == LiveSocketKept /\ SweepIsExact
=============================================================================
