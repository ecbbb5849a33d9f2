----------------------------- MODULE ChronyProofs -----------------------------
(* The chrony client for any daemon, queue length, number of attempts, list  *)
(* of sources and number of clients.                                         *)
(*                                                                           *)
(* Exchange: AnswerIsFresh needs that no reply with the sequence number in   *)
(* hand is older than the call or answers another query (InHand).  Sources: ChangedMeansChanges and   *)
(* OneWayListIsWhole need what each walk given up has cost in changes        *)
(* (Charged) and how far a list that changes one way may have come away from *)
(* what was read of it (OneWay).  Reply sockets: ReplyDirKept needs that a   *)
(* name once found stale is never bound again (NeverBound), and that what a  *)
(* sweep still owes is what its read_dir still has to return (Owed).         *)
EXTENDS Chrony, SequenceTheorems, TLAPS

-----------------------------------------------------------------------------
(* Client::exchange *)

\* A call that is under way asks something and has an attempt left while it
\* waits; the daemon's state has not gone back since it was made.
UnderWay ==
    /\ at # "idle" => query \in Queries
    /\ at = "recv" => attempt < attempts
    /\ since <= changes

\* A request or a reply with the sequence number the client waits for is of
\* this call, since the number was drawn when nothing in flight had it; and
\* such a reply was made during the call.
InHand ==
    at = "recv" =>
        /\ \A i \in DOMAIN requests :
              requests[i].sequence = sequence => requests[i].query = query
        /\ \A i \in DOMAIN replies :
              replies[i].sequence = sequence =>
                  replies[i].query = query /\ replies[i].state >= since

ExchangeInv == TypeOK /\ UnderWay /\ InHand /\ AnswerIsFresh

\* The exchange's invariant holds before the first call.
LEMMA ExchangeInitInv == Init => ExchangeInv
<1> SUFFICES ASSUME Init PROVE ExchangeInv
  OBVIOUS
<1>1. TypeOK
  <2>1. /\ requests \in Seq(Request) /\ Len(requests) = 0
        /\ replies \in Seq(Reply) /\ Len(replies) = 0
    BY DEF Init
  <2>2. expired \in BOOLEAN /\ up \in BOOLEAN
    BY Zenon DEF Init
  <2>3. 0 \in 0 .. attempts /\ 0 \in 0 .. MaxChanges /\ 0 <= Capacity
    BY ExchangeAssumption
  <2> QED
    BY <2>1, <2>2, <2>3 DEF Init, TypeOK
<1>2. AnswerIsFresh
  BY DEF Init, AnswerIsFresh, Pending
<1> QED
  BY <1>1, <1>2 DEF Init, ExchangeInv, TypeOK, UnderWay, InHand

\* Every step of the client, the daemon and the queue keeps it.
LEMMA ExchangeStepInv ==
    ASSUME ExchangeInv, [Next]_vars
    PROVE  ExchangeInv'
<1> USE ExchangeAssumption DEF ExchangeInv
<1>1. CASE UNCHANGED vars
  BY <1>1 DEF vars, clientVars, TypeOK, UnderWay, InHand, AnswerIsFresh
<1>2. ASSUME NEW q \in Queries, Call(q) PROVE ExchangeInv'
  BY <1>2 DEF Call, TypeOK, UnderWay, InHand, AnswerIsFresh, Pending
<1>3. CASE Send
  <2>1. /\ sequence' \in Numbers /\ at' = "recv" /\ query \in Queries
        /\ requests' = Append(requests, [query |-> query, sequence |-> sequence'])
        /\ Len(requests) < Capacity
        /\ UNCHANGED <<query, attempt, ret, replies, up, changes, since>>
    BY <1>3 DEF Send, Fresh, UnderWay
  <2>2. [query |-> query, sequence |-> sequence'] \in Request
    BY <2>1 DEF Request
  <2>3. requests' \in Seq(Request) /\ Len(requests') <= Capacity
    BY <2>1, <2>2 DEF TypeOK
  <2>4. TypeOK'
    <3>1. expired' \in BOOLEAN
      BY <1>3, Zenon DEF Send
    <3> QED
      BY <2>1, <2>3, <3>1 DEF TypeOK
  <2>5. /\ \A i \in DOMAIN replies : replies[i].sequence # sequence'
        /\ \A i \in DOMAIN requests : requests[i].sequence # sequence'
    BY <1>3 DEF Send, Fresh, InFlight
  <2>6. \A i \in DOMAIN requests' :
           requests'[i].sequence = sequence' => requests'[i].query = query
    BY <2>1, <2>5 DEF TypeOK
  <2>7. InHand'
    BY <2>1, <2>5, <2>6 DEF InHand
  <2> QED
    BY <2>1, <2>4, <2>7, <1>3 DEF Send, Left, UnderWay, AnswerIsFresh
<1>4. CASE SendTimesOut
  BY <1>4 DEF SendTimesOut, Retry, Left, TypeOK, UnderWay, InHand, AnswerIsFresh
<1>5. CASE SocketFails
  BY <1>5 DEF SocketFails, Done, Errors, TypeOK, UnderWay, InHand, AnswerIsFresh
<1>6. CASE Timeout
  BY <1>6 DEF Timeout, Done, Errors, TypeOK, UnderWay, InHand, AnswerIsFresh
<1>7. CASE Recv
  <2>1. /\ replies # <<>> /\ at = "recv" /\ replies' = Tail(replies)
        /\ Head(replies) = replies[1] /\ 1 \in DOMAIN replies
        /\ replies[1] \in Reply
        /\ UNCHANGED <<requests, up, changes, since>>
    BY <1>7 DEF Recv, TypeOK
  <2>2. /\ replies' \in Seq(Reply) /\ Len(replies') <= Capacity
        /\ \A i \in DOMAIN replies' :
              i + 1 \in DOMAIN replies /\ replies'[i] = replies[i + 1]
    BY <2>1 DEF TypeOK
  <2>3. CASE Related(Head(replies))
    <3>1. at' = "idle" /\ ret' = replies[1]
          /\ UNCHANGED <<query, attempt, sequence, expired>>
      BY <2>1, <2>3, <1>7 DEF Recv, Done
    <3>2. replies[1].query = query /\ replies[1].state >= since
      BY <2>1, <2>3 DEF Related, InHand
    <3>3. TypeOK'
      BY <2>1, <2>2, <3>1 DEF TypeOK
    <3> QED
      BY <2>1, <3>1, <3>2, <3>3 DEF UnderWay, InHand, AnswerIsFresh
  <2>4. CASE ~Related(Head(replies))
    <3>1. UNCHANGED clientVars
      BY <2>4, <1>7 DEF Recv
    <3>2. TypeOK'
      BY <2>1, <2>2, <3>1 DEF TypeOK, clientVars
    <3>3. InHand'
      BY <2>1, <2>2, <3>1 DEF InHand, clientVars
    <3> QED
      BY <2>1, <3>1, <3>2, <3>3 DEF UnderWay, AnswerIsFresh, clientVars
  <2> QED
    BY <2>3, <2>4
<1>8. CASE NextAttempt
  BY <1>8 DEF NextAttempt, Retry, TypeOK, UnderWay, InHand, AnswerIsFresh
<1>9. CASE Expire
  BY <1>9 DEF Expire, TypeOK, UnderWay, InHand, AnswerIsFresh
<1>10. ASSUME NEW is \in {"ok", "status"}, Answer(is) PROVE ExchangeInv'
  <2> DEFINE r == [query |-> Head(requests).query,
                   sequence |-> Head(requests).sequence,
                   state |-> changes, is |-> is]
  <2>1. /\ requests # <<>> /\ requests' = Tail(requests)
        /\ replies' = IF Len(replies) < Capacity
                      THEN Append(replies, r) ELSE replies
        /\ UNCHANGED <<clientVars, up, changes, since>>
    BY <1>10 DEF Answer
  <2>2. /\ requests' \in Seq(Request) /\ Len(requests') <= Capacity
        /\ Head(requests) = requests[1] /\ 1 \in DOMAIN requests
        /\ \A i \in DOMAIN requests' :
              i + 1 \in DOMAIN requests /\ requests'[i] = requests[i + 1]
    BY <2>1 DEF TypeOK
  <2>3. Head(requests) \in Request
    BY <2>1 DEF TypeOK
  <2>4. /\ r \in Reply /\ r.state = changes
        /\ r.query = requests[1].query /\ r.sequence = requests[1].sequence
    BY <2>2, <2>3 DEF Request, Reply, TypeOK
  <2> HIDE DEF r
  <2>5. /\ replies' \in Seq(Reply) /\ Len(replies') <= Capacity
        /\ \A i \in DOMAIN replies' :
              \/ replies'[i] = r
              \/ i \in DOMAIN replies /\ replies'[i] = replies[i]
    BY <2>1, <2>4 DEF TypeOK
  <2>6. TypeOK'
    BY <2>1, <2>2, <2>5 DEF TypeOK, clientVars
  <2>7. InHand'
    BY <2>1, <2>2, <2>4, <2>5 DEF InHand, UnderWay, TypeOK, clientVars
  <2> QED
    BY <2>1, <2>6, <2>7 DEF UnderWay, AnswerIsFresh, clientVars
<1>11. CASE Ignore
  <2>1. /\ requests' \in Seq(Request) /\ Len(requests') <= Capacity
        /\ \A i \in DOMAIN requests' :
              i + 1 \in DOMAIN requests /\ requests'[i] = requests[i + 1]
        /\ UNCHANGED <<clientVars, replies, up, changes, since>>
    BY <1>11 DEF Ignore, TypeOK
  <2> QED
    BY <2>1 DEF clientVars, TypeOK, UnderWay, InHand, AnswerIsFresh
<1>12. CASE Change
  BY <1>12 DEF Change, clientVars, TypeOK, UnderWay, InHand, AnswerIsFresh
<1>13. CASE Exit
  <2>1. /\ requests' \in Seq(Request) /\ Len(requests') = 0
        /\ UNCHANGED <<clientVars, replies, changes, since>>
    BY <1>13 DEF Exit
  <2>2. up' \in BOOLEAN
    BY <1>13, Zenon DEF Exit
  <2> QED
    BY <2>1, <2>2 DEF clientVars, TypeOK, UnderWay, InHand, AnswerIsFresh
<1> QED
  BY <1>1, <1>2, <1>3, <1>4, <1>5, <1>6, <1>7, <1>8, <1>9, <1>10, <1>11,
     <1>12, <1>13 DEF Next, Client

\* Client::exchange, whatever the daemon answers late, drops or queues, and
\* however many calls and attempts there are: an answer is chronyd's own to
\* what was asked, from its state after the call was made.
THEOREM AnswerIsFreshHolds == Spec => []AnswerIsFresh
<1>1. ExchangeInv => AnswerIsFresh
  BY DEF ExchangeInv
<1> QED
  BY <1>1, ExchangeInitInv, ExchangeStepInv, PTL DEF Spec

-----------------------------------------------------------------------------
(* Client::sources *)

\* A call in progress has returned nothing and is in one of its walks, and
\* reads on only while it has read fewer than it counted.
Walking ==
    next # "idle" =>
        /\ listed = "pending" /\ walk \in 1 .. S!SOURCE_WALKS
        /\ next = "source" => Len(sources) < count
        /\ next = "recount" => Len(sources) = count

\* Every walk given up has cost chronyd a change, and this one has cost it
\* one if the list has another length than it counted.
Charged ==
    /\ next # "idle" => listChanges >= walk - 1
    /\ next \in {"source", "recount"} /\ Len(list) # count =>
          listChanges >= walk

\* What was read is the beginning of the list.
ReadOff ==
    /\ Len(sources) <= Len(list)
    /\ \A i \in 1 .. Len(sources) : sources[i] = list[i]

\* A list without additions is no longer than it was counted, and the same
\* list while it is as long; one without removals only grows at its end.
OneWay ==
    next \in {"source", "recount"} =>
        /\ "add" \notin kinds =>
              Len(list) <= count /\ (Len(list) = count => ReadOff)
        /\ "remove" \notin kinds => Len(list) >= count /\ ReadOff

SourcesInv ==
    S!TypeOK /\ Walking /\ Charged /\ OneWay /\ S!ChangedMeansChanges

\* The invariant of sources() holds before the first walk.
LEMMA SourcesInitInv == S!Init => SourcesInv
<1> SUFFICES ASSUME S!Init PROVE SourcesInv
  OBVIOUS
<1> USE WalksAssumption DEF S!SourcesAssumption, S!SOURCE_WALKS
<1>1. PICK n \in 0 .. MaxSources : list \in [1 .. n -> Sources]
  BY DEF S!Init
<1>2. list \in Seq(Sources) /\ Len(list) = n
  BY <1>1
<1>3. sources \in Seq(Sources) /\ Len(sources) = 0
  BY DEF S!Init
<1>4. S!TypeOK
  BY <1>2, <1>3 DEF S!Init, S!TypeOK
<1> QED
  BY <1>4 DEF S!Init, SourcesInv, Walking, Charged, OneWay,
              S!ChangedMeansChanges

\* A walk that is given up had a change of its own.
LEMMA UnsettledInv ==
    ASSUME SourcesInv, next \in {"source", "recount"}, Len(list) # count,
           S!Unsettled, UNCHANGED <<list, kinds, listChanges>>
    PROVE  SourcesInv'
<1> USE DEF S!SOURCE_WALKS
<1>1. CASE walk < 3
  BY <1>1 DEF SourcesInv, S!TypeOK, Walking, Charged, OneWay,
              S!ChangedMeansChanges, S!Unsettled, S!Walks
<1>2. CASE ~(walk < 3)
  BY <1>2 DEF SourcesInv, S!TypeOK, Walking, Charged, OneWay,
              S!ChangedMeansChanges, S!Unsettled, S!Walks, S!Return
<1> QED
  BY <1>1, <1>2

\* What chronyd's changes do to the list.
LEMMA ChangesInv ==
    ASSUME SourcesInv, NEW kind \in {"remove", "add"}, S!Changes(kind),
           list' \in Seq(Sources), Len(list') <= MaxSources,
           kind = "remove" => Len(list') < Len(list),
           kind = "add" => /\ Len(list') = Len(list) + 1
                           /\ \A i \in 1 .. Len(list) : list'[i] = list[i]
    PROVE  SourcesInv'
<1>1. /\ next # "idle" /\ kind \in kinds
      /\ listChanges < MaxListChanges /\ listChanges' = listChanges + 1
      /\ UNCHANGED <<kinds, next, walk, count, sources, listed>>
  BY DEF S!Changes, S!clientVars
<1>2. S!TypeOK'
  BY <1>1, WalksAssumption
     DEF SourcesInv, S!TypeOK, S!SOURCE_WALKS, S!SourcesAssumption
<1>3. Walking'
  BY <1>1 DEF SourcesInv, Walking
<1>4. Charged'
  <2>1. listChanges \in Nat /\ walk \in Nat
    BY DEF SourcesInv, S!TypeOK, S!SOURCE_WALKS
  <2> QED
    BY <2>1, <1>1 DEF SourcesInv, Charged
<1>5. OneWay'
  <2>1. CASE kind = "remove"
    BY <2>1, <1>1, <1>2 DEF SourcesInv, S!TypeOK, OneWay
  <2>2. CASE kind = "add"
    <3>1. ReadOff => ReadOff'
      BY <2>2, <1>1, <1>2 DEF SourcesInv, S!TypeOK, ReadOff
    <3> QED
      BY <2>2, <3>1, <1>1, <1>2 DEF SourcesInv, S!TypeOK, OneWay
  <2> QED
    BY <2>1, <2>2
<1>6. S!ChangedMeansChanges'
  BY <1>1 DEF SourcesInv, Walking, S!ChangedMeansChanges
<1> QED
  BY <1>2, <1>3, <1>4, <1>5, <1>6 DEF SourcesInv

\* Every step of a walk and every change of the list keeps it.
LEMMA SourcesStepInv ==
    ASSUME SourcesInv, [S!Next]_S!vars
    PROVE  SourcesInv'
<1> USE WalksAssumption DEF S!SourcesAssumption, S!SOURCE_WALKS, S!daemonVars
<1>1. CASE UNCHANGED S!vars
  BY <1>1 DEF S!vars, S!clientVars, SourcesInv, S!TypeOK, Walking, Charged,
              OneWay, ReadOff, S!ChangedMeansChanges
<1>2. CASE S!Call
  BY <1>2 DEF S!Call, SourcesInv, S!TypeOK, Walking, Charged, OneWay,
              S!ChangedMeansChanges
<1>3. CASE S!Count
  <2>1. /\ next = "count" /\ count' = Len(list)
        /\ sources' \in Seq(Sources) /\ Len(sources') = 0
        /\ next' = IF Len(list) = 0 THEN "recount" ELSE "source"
        /\ UNCHANGED <<walk, listed, list, kinds, listChanges>>
    BY <1>3 DEF S!Count
  <2>2. S!TypeOK'
    BY <2>1 DEF SourcesInv, S!TypeOK
  <2>3. Walking' /\ Charged'
    BY <2>1 DEF SourcesInv, S!TypeOK, Walking, Charged
  <2>4. OneWay'
    BY <2>1 DEF SourcesInv, S!TypeOK, OneWay, ReadOff
  <2> QED
    BY <2>1, <2>2, <2>3, <2>4 DEF SourcesInv, S!ChangedMeansChanges
<1>4. CASE S!Source
  <2>1. next = "source" /\ Len(sources) < count
        /\ UNCHANGED <<list, kinds, listChanges>>
    BY <1>4 DEF S!Source, SourcesInv, Walking
  <2>2. CASE ~(Len(sources) < Len(list))
    BY <2>1, <2>2, <1>4, UnsettledInv DEF S!Source, SourcesInv, S!TypeOK
  <2>3. CASE Len(sources) < Len(list)
    <3> DEFINE s == list[Len(sources) + 1]
    <3>1. /\ sources' = Append(sources, s)
          /\ next' = IF Len(sources) + 1 = count THEN "recount" ELSE "source"
          /\ UNCHANGED <<walk, count, listed>>
      BY <2>3, <1>4 DEF S!Source
    <3>2. s \in Sources /\ sources \in Seq(Sources) /\ list \in Seq(Sources)
      BY <2>3 DEF SourcesInv, S!TypeOK
    <3>3. /\ sources' \in Seq(Sources) /\ Len(sources') = Len(sources) + 1
          /\ \A i \in 1 .. Len(sources) : sources'[i] = sources[i]
          /\ sources'[Len(sources) + 1] = s
      BY <3>1, <3>2
    <3>4. S!TypeOK'
      BY <2>1, <3>1, <3>3 DEF SourcesInv, S!TypeOK
    <3>5. Walking' /\ Charged'
      BY <2>1, <3>1, <3>3 DEF SourcesInv, S!TypeOK, Walking, Charged
    <3>6. ReadOff => ReadOff'
      BY <2>1, <2>3, <3>2, <3>3 DEF ReadOff
    <3>7. OneWay'
      BY <2>1, <3>1, <3>6 DEF SourcesInv, OneWay
    <3> QED
      BY <2>1, <3>1, <3>4, <3>5, <3>7 DEF SourcesInv, S!ChangedMeansChanges
  <2> QED
    BY <2>2, <2>3
<1>5. CASE S!Recount
  <2>1. next = "recount" /\ UNCHANGED <<list, kinds, listChanges>>
    BY <1>5 DEF S!Recount
  <2>2. CASE Len(list) = count
    BY <2>1, <2>2, <1>5
       DEF S!Recount, S!Settled, S!Return, SourcesInv, S!TypeOK, Walking,
           Charged, OneWay, S!ChangedMeansChanges
  <2>3. CASE Len(list) # count
    BY <2>1, <2>3, <1>5, UnsettledInv DEF S!Recount, S!Settled
  <2> QED
    BY <2>2, <2>3
<1>6. CASE S!Fails
  BY <1>6 DEF S!Fails, S!Return, SourcesInv, S!TypeOK, Walking, Charged,
              OneWay, S!ChangedMeansChanges
<1>7. ASSUME NEW i \in DOMAIN list, S!RemoveSource(i) PROVE SourcesInv'
  <2>1. list \in Seq(Sources) /\ Len(list) <= MaxSources
    BY DEF SourcesInv, S!TypeOK
  <2>2. /\ SubSeq(list, 1, i - 1) \in Seq(Sources)
        /\ Len(SubSeq(list, 1, i - 1)) = i - 1
        /\ SubSeq(list, i + 1, Len(list)) \in Seq(Sources)
        /\ Len(SubSeq(list, i + 1, Len(list))) = Len(list) - i
    BY <2>1
  <2>3. list' = SubSeq(list, 1, i - 1) \o SubSeq(list, i + 1, Len(list))
    BY <1>7 DEF S!RemoveSource
  <2>4. list' \in Seq(Sources) /\ Len(list') = i - 1 + (Len(list) - i)
    BY <2>2, <2>3, ConcatProperties
  <2>5. Len(list') < Len(list)
    BY <2>1, <2>4
  <2> QED
    BY <2>1, <2>4, <2>5, <1>7, ChangesInv DEF S!RemoveSource
<1>8. ASSUME NEW s \in Sources, S!AddSource(s) PROVE SourcesInv'
  <2>1. list \in Seq(Sources) /\ Len(list) < MaxSources
    BY <1>8 DEF S!AddSource, SourcesInv, S!TypeOK
  <2>2. /\ list' \in Seq(Sources) /\ Len(list') = Len(list) + 1
        /\ \A i \in 1 .. Len(list) : list'[i] = list[i]
    BY <2>1, <1>8 DEF S!AddSource
  <2> QED
    BY <2>1, <2>2, <1>8, ChangesInv DEF S!AddSource
<1> QED
  BY <1>1, <1>2, <1>3, <1>4, <1>5, <1>6, <1>7, <1>8 DEF S!Next


\* Client::sources, however chronyd changes its list meanwhile: Error::Changed
\* is returned only when each of the walks had a change of its own.
THEOREM ChangedMeansChangesHolds == S!Spec => []S!ChangedMeansChanges
<1>1. SourcesInv => S!ChangedMeansChanges
  BY DEF SourcesInv
<1> QED
  BY <1>1, SourcesInitInv, SourcesStepInv, PTL DEF S!Spec

\* A walk of a list that only shrinks, or only grows, is returned only when
\* it is chronyd's list.
LEMMA ReturnsWhole ==
    ASSUME SourcesInv, [S!Next]_S!vars
    PROVE  kinds # {"remove", "add"} /\ listed' = "ok" /\ next' # next =>
               sources' = list
<1> SUFFICES ASSUME kinds # {"remove", "add"}, listed' = "ok", next' # next
             PROVE  sources' = list
  OBVIOUS
<1>1. S!Recount /\ Len(list) = count /\ sources' = sources
  BY DEF S!Next, S!vars, S!clientVars, S!Call, S!Count, S!Source, S!Unsettled,
         S!Return, S!Recount, S!Settled, S!Fails, S!RemoveSource, S!AddSource,
         S!Changes, SourcesInv, Walking
<1>2. next = "recount" /\ Len(sources) = count
  BY <1>1 DEF S!Recount, SourcesInv, Walking
<1>3. "add" \notin kinds \/ "remove" \notin kinds
  BY Zenon DEF SourcesInv, S!TypeOK
<1>4. ReadOff
  BY <1>1, <1>2, <1>3 DEF SourcesInv, OneWay
<1>5. sources \in Seq(Sources) /\ list \in Seq(Sources)
  BY DEF SourcesInv, S!TypeOK
<1> QED
  BY <1>1, <1>2, <1>4, <1>5 DEF ReadOff

\* Client::sources while chronyd only removes, or only adds: what is returned
\* as the list is the list.
THEOREM OneWayListIsWholeHolds == S!Spec => OneWayListIsWhole
<1>1. SourcesInv /\ [S!Next]_S!vars =>
         [kinds # {"remove", "add"} /\ listed' = "ok" /\ next' # next =>
             sources' = list]_S!vars
  BY ReturnsWhole
<1> QED
  BY <1>1, SourcesInitInv, SourcesStepInv, PTL
     DEF S!Spec, OneWayListIsWhole, S!OneWayListIsWhole

\* What a call of Client reports, an answer or Error::Changed, is so of what
\* chronyd did during the call.
THEOREM ReportsAreTrueHolds == ChronySpec => []ReportsAreTrue
<1>1. ChronyInit => ExchangeInv /\ SourcesInv
  BY ExchangeInitInv, SourcesInitInv DEF ChronyInit
<1>2. ExchangeInv /\ SourcesInv /\ [ChronyNext]_<<vars, walkVars, socketVars>>
         => ExchangeInv' /\ SourcesInv'
  <2>1. [ChronyNext]_<<vars, walkVars, socketVars>> =>
           [Next]_vars /\ [S!Next]_S!vars
    BY DEF ChronyNext, Ask, Walk, Bound, walkVars, S!vars, S!daemonVars,
           S!clientVars
  <2> QED
    BY <2>1, ExchangeStepInv, SourcesStepInv
<1>3. ExchangeInv /\ SourcesInv => ReportsAreTrue
  BY DEF ExchangeInv, SourcesInv, ReportsAreTrue
<1> QED
  BY <1>1, <1>2, <1>3, PTL DEF ChronySpec

-----------------------------------------------------------------------------
(* The reply sockets *)

Places == {"out", "sweep", "remove", "bind", "bound", "up", "failing",
           "closed"}

SocketTypeOK ==
    /\ dir \subseteq Names \cup Foreign
    /\ used \subseteq Names
    /\ owner \in [Names -> Clients \cup {Nobody}]
    /\ place \in [Clients -> Places]
    /\ name \in [Clients -> Names \cup {Nobody}]
    /\ left \in [Clients -> SUBSET (Names \cup Foreign)]
    /\ entries \in [Clients -> SUBSET (Names \cup Foreign)]
    /\ stale \in [Clients -> SUBSET Names]

Holding(c) == place[c] \in {"bound", "up", "failing"}

\* A socket is bound to the file its client holds, and to no other.
Held ==
    /\ dir \cap Names \subseteq used
    /\ \A n \in Names, c \in Clients :
          owner[n] = c => n \in used /\ Holding(c) /\ name[c] = n
    /\ \A c \in Clients :
          Holding(c) => name[c] \in Names /\ owner[name[c]] = c

\* The name a client is about to remove was drawn, and no socket is bound to
\* its file.
NeverBound ==
    \A c \in Clients : place[c] \in {"remove", "closed"} =>
        name[c] \in used /\ owner[name[c]] = Nobody

\* A file found stale stays so, and is gone, about to be removed, or an entry
\* the loop has still to see.
Owed ==
    \A c \in Clients :
        /\ \A n \in stale[c] : n \in used /\ owner[n] = Nobody
        /\ place[c] = "sweep" => stale[c] \cap dir \subseteq entries[c]
        /\ place[c] = "remove" =>
              stale[c] \cap dir \subseteq entries[c] \cup {name[c]}
        /\ place[c] \notin {"sweep", "remove", "bind"} => stale[c] = {}

SocketInv ==
    SocketTypeOK /\ Held /\ NeverBound /\ Owed /\ LiveSocketKept /\ SweepIsExact

\* The invariant of the directory holds while it has no client.
LEMMA SocketInitInv == SocketInit => SocketInv
BY SocketAssumption
   DEF SocketInit, SocketInv, SocketTypeOK, Places, Held, Holding, NeverBound,
       Owed, LiveSocketKept, SweepIsExact, Live

\* Every system call of a client, and its crash, keeps it.
LEMMA SocketStepInv ==
    ASSUME SocketInv, [SocketNext]_socketVars
    PROVE  SocketInv'
<1> USE SocketAssumption DEF SocketInv, SocketTypeOK, Places, Goto
<1>1. CASE UNCHANGED socketVars
  BY <1>1 DEF socketVars, Held, Holding, NeverBound, Owed, LiveSocketKept,
              SweepIsExact, Live
<1> SUFFICES ASSUME NEW c \in Clients, SocketStep(c) PROVE SocketInv'
  BY <1>1 DEF SocketNext
<1> USE DEF Held, Holding, NeverBound, Owed, LiveSocketKept, SweepIsExact, Live
<1>2. CASE ReadDir(c)
  BY <1>2 DEF ReadDir, Refused
<1>3. CASE RemoveStale(c)
  BY <1>3 DEF RemoveStale
<1>4. CASE SweepEnds(c)
  BY <1>4 DEF SweepEnds
<1>5. CASE Bind(c)
  BY <1>5 DEF Bind, Tags
<1>6. CASE Peer(c)
  BY <1>6 DEF Peer
<1>7. CASE PeerFails(c)
  BY <1>7 DEF PeerFails
<1>8. CASE Close(c)
  BY <1>8 DEF Close
<1>9. CASE DropReplySocket(c)
  BY <1>9 DEF DropReplySocket
<1>10. CASE Crash(c)
  BY <1>10 DEF Crash
<1>11. ASSUME NEW n \in Names \cup Foreign, Probe(c, n) PROVE SocketInv'
  BY <1>11 DEF Probe, Refused
<1> QED
  BY <1>2, <1>3, <1>4, <1>5, <1>6, <1>7, <1>8, <1>9, <1>10, <1>11, Zenon
     DEF SocketStep

\* The shared directory, whatever clients connect, drop and crash in it: a
\* client that is connecting or connected keeps its reply socket's file, files
\* of others are left, and a sweep that is over has taken what it found stale
\* (sweep, bind_reply_socket and the drops of client.rs).
THEOREM ReplyDirKeptHolds == SocketSpec => []ReplyDirKept
<1>1. SocketInv => ReplyDirKept
  BY DEF SocketInv, ReplyDirKept
<1> QED
  BY <1>1, SocketInitInv, SocketStepInv, PTL DEF SocketSpec
=============================================================================
