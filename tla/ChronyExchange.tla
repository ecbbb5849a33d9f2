--------------------------- MODULE ChronyExchange ---------------------------
(***************************************************************************)
(* Client::exchange (truenas_chrony/src/client.rs) with Request::decode    *)
(* (src/request.rs): one request at a time over a datagram socket, resent  *)
(* with a fresh sequence number until a reply echoes it or the attempts    *)
(* run out.                                                                *)
(*                                                                         *)
(* chronyd is external: it takes requests in order, answers each from its  *)
(* state at that moment or drops it, may be slow, and may exit.  A Unix    *)
(* datagram queue keeps its order and is full at Capacity.  The random     *)
(* sequence numbers are taken not to repeat one still in flight.           *)
(***************************************************************************)
EXTENDS Naturals, Sequences

CONSTANTS Queries,     \* what may be asked: [command, argument]
          Numbers,     \* the sequence numbers
          attempts,    \* Client.attempts
          Capacity,    \* datagrams a socket queue holds
          MaxChanges,  \* bound on the changes of chronyd's state
          NoQuery

ASSUME ExchangeAssumption ==
    /\ attempts \in Nat \ {0}
    /\ Capacity \in Nat \ {0}
    /\ MaxChanges \in Nat
    /\ NoQuery \notin Queries

VARIABLES
    at,         \* where the call is: "idle", "send" or "recv"
    query,      \* what the call asks
    attempt,    \* the loop counter
    sequence,   \* the sequence number of the request in hand
    expired,    \* the deadline of the attempt has passed
    ret,        \* what the last call returned
    requests,   \* the datagrams queued for chronyd
    replies,    \* the datagrams queued for the client
    up,         \* chronyd has its socket bound
    changes,    \* chronyd's state, as the number of changes to it
    since       \* that state when the call was made

clientVars == <<at, query, attempt, sequence, expired, ret>>
vars == <<clientVars, requests, replies, up, changes, since>>

Request == [query : Queries, sequence : Numbers]
Reply   == [query : Queries, sequence : Numbers, state : 0 .. MaxChanges,
            is : {"ok", "status"}]
Pending == [is |-> "pending"]
Errors  == {[is |-> "timeout"], [is |-> "io"]}

TypeOK ==
    /\ at \in {"idle", "send", "recv"}
    /\ query \in Queries \cup {NoQuery}
    /\ attempt \in 0 .. attempts
    /\ sequence \in Numbers
    /\ expired \in BOOLEAN
    /\ ret \in Reply \cup Errors \cup {Pending}
    /\ requests \in Seq(Request) /\ Len(requests) <= Capacity
    /\ replies \in Seq(Reply) /\ Len(replies) <= Capacity
    /\ up \in BOOLEAN
    /\ changes \in 0 .. MaxChanges /\ since \in 0 .. MaxChanges

Init ==
    /\ at = "idle" /\ query = NoQuery /\ attempt = 0
    /\ sequence \in Numbers /\ expired = FALSE /\ ret = Pending
    /\ requests = <<>> /\ replies = <<>> /\ up = TRUE
    /\ changes = 0 /\ since = 0

-----------------------------------------------------------------------------
(* The client. *)

Call(q) ==
    /\ at = "idle"
    /\ at' = "send" /\ query' = q /\ attempt' = 0 /\ ret' = Pending
    /\ since' = changes
    /\ UNCHANGED <<sequence, expired, requests, replies, up, changes>>

Done(r) ==
    /\ at' = "idle" /\ ret' = r
    /\ UNCHANGED <<query, attempt, sequence, expired>>

InFlight == {requests[i].sequence : i \in DOMAIN requests}
              \cup {replies[i].sequence : i \in DOMAIN replies}

\* The numbers a draw from urandom may give.
Fresh == Numbers \ InFlight

\* for attempt in 0..self.attempts
Left == attempt < attempts

\* Mutant: a retry is not counted.
Retry_Uncounted == at' = "send" /\ UNCHANGED attempt

Retry == at' = "send" /\ attempt' = attempt + 1

Send ==
    /\ at = "send" /\ Left /\ up
    /\ Len(requests) < Capacity
    /\ sequence' \in Fresh
    /\ requests' = Append(requests, [query |-> query, sequence |-> sequence'])
    /\ at' = "recv" /\ expired' = FALSE
    /\ UNCHANGED <<query, attempt, ret, replies, up, changes, since>>

\* The daemon's queue is full: the write timeout ends the attempt.
SendTimesOut ==
    /\ at = "send" /\ Left /\ up
    /\ Len(requests) = Capacity
    /\ Retry
    /\ UNCHANGED <<query, sequence, expired, ret, requests, replies, up,
                   changes, since>>

\* Any other error is returned: the daemon is gone, or urandom, a timeout
\* option, the send or the receive fails.
SocketFails ==
    /\ at \in {"send", "recv"}
    /\ at = "send" => Left
    /\ Done([is |-> "io"])
    /\ UNCHANGED <<requests, replies, up, changes, since>>

Timeout ==
    /\ at = "send" /\ ~Left
    /\ Done([is |-> "timeout"])
    /\ UNCHANGED <<requests, replies, up, changes, since>>

\* Mutant: a reply to the command is taken whatever its sequence number.
Related_Command(r) == r.query.command = query.command

\* decode: the reply echoes the command and the sequence number.  It does
\* not say which argument it is about.
Related(r) == r.query.command = query.command /\ r.sequence = sequence

Recv ==
    /\ at = "recv" /\ replies # <<>>
    /\ replies' = Tail(replies)
    /\ IF Related(Head(replies)) THEN Done(Head(replies))
                                 ELSE UNCHANGED clientVars
    /\ UNCHANGED <<requests, up, changes, since>>

Expire ==
    /\ at = "recv" /\ ~expired
    /\ expired' = TRUE
    /\ UNCHANGED <<at, query, attempt, sequence, ret, requests, replies, up,
                   changes, since>>

\* The read timeout, or the look at the deadline, ends the attempt.
NextAttempt ==
    /\ at = "recv" /\ expired
    /\ Retry
    /\ UNCHANGED <<query, sequence, expired, ret, requests, replies, up,
                   changes, since>>

-----------------------------------------------------------------------------
(* chronyd. *)

Answer(is) ==
    /\ up /\ requests # <<>>
    /\ requests' = Tail(requests)
    /\ replies' = IF Len(replies) < Capacity
                  THEN Append(replies,
                              [query |-> Head(requests).query,
                               sequence |-> Head(requests).sequence,
                               state |-> changes, is |-> is])
                  ELSE replies
    /\ UNCHANGED <<clientVars, up, changes, since>>

Ignore ==
    /\ up /\ requests # <<>>
    /\ requests' = Tail(requests)
    /\ UNCHANGED <<clientVars, replies, up, changes, since>>

Change ==
    /\ changes < MaxChanges
    /\ changes' = changes + 1
    /\ UNCHANGED <<clientVars, requests, replies, up, since>>

Exit ==
    /\ up /\ up' = FALSE
    /\ requests' = <<>>
    /\ UNCHANGED <<clientVars, replies, changes, since>>

Client == Send \/ SendTimesOut \/ SocketFails \/ Timeout \/ Recv \/ NextAttempt

Next ==
    \/ \E q \in Queries : Call(q)
    \/ Client \/ Expire
    \/ (\E is \in {"ok", "status"} : Answer(is)) \/ Ignore \/ Change \/ Exit

Spec == Init /\ [][Next]_vars

-----------------------------------------------------------------------------
\* An answer is chronyd's own answer to this call: to what was asked, and
\* from the state chronyd had at some moment after the call was made.  A late
\* reply to an earlier attempt or an earlier call never passes for it.
AnswerIsFresh ==
    ret.is \in {"ok", "status"} => ret.query = query /\ ret.state >= since

\* The client goes on, and the timer of an attempt fires.
Fairness == WF_vars(Client) /\ WF_vars(Expire)

\* Every call returns, whether chronyd answers, falls silent or exits.
CallsReturn == (at # "idle") ~> (at = "idle")
=============================================================================
