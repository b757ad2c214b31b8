------------------------ MODULE UdpForwardingProofs ------------------------
(***************************************************************************)
(* UdpForwarding proved for any number of sessions, datagrams and answers: *)
(* one live session per 5-tuple, and the datagrams upstream in order.      *)
(***************************************************************************)
EXTENDS UdpForwarding, FiniteSetTheorems, SequenceTheorems, TLAPS

(* One live session.  The key of a session is made valid in Enter, outside   *)
(* which the table may change: what holds the two together is what the VPN   *)
(* thread has looked up.                                                     *)

\* While a datagram is handled, no session but the one looked up is live: the
\* later keepSessionAlive can only confirm the table's entry.
LiveIsCurrent == vpn # "idle" => \A s \in Ids : selKey[s] = "valid" => s = current

\* A session that is about to get its key is the table's, and is alone.
NewIsAlone == vpn = "enter" /\ isNew => table = current /\ \A s \in Ids : selKey[s] # "valid"

\* The table and the VPN thread name sessions that have been created.
OnlyCreated == table <= created /\ current <= created

OneLive == LiveIsTabled /\ LiveIsCurrent /\ NewIsAlone /\ OnlyCreated

(* The order of the datagrams. *)

Increasing(q) == \A i, j \in 1 .. Len(q) : i < j => q[i] < q[j]
Below(q, n)   == \A i \in 1 .. Len(q) : q[i] < n
After(q, w)   == \A i \in 1 .. Len(q), j \in 1 .. Len(w) : w[j] < q[i]

\* The number every queued and written datagram is below: the datagram that
\* has been read but not queued is not among them.
Limit == IF vpn = "enter" THEN received ELSE received + 1

\* Every queue is in order.
QueuesInOrder == \A s \in Ids : Increasing(datagrams[s]) /\ Below(datagrams[s], Limit)

\* What a live session has queued comes after everything that was written,
\* by it and by the sessions before it.
QueuedAfterWritten == \A s \in Ids : selKey[s] = "valid" => After(datagrams[s], written)

\* A session gets its key with an empty queue.
NewIsEmpty ==
    /\ \A s \in Ids : s > created => datagrams[s] = <<>>
    /\ vpn = "enter" /\ isNew => datagrams[current] = <<>>

InOrder == WrittenInOrder /\ Below(written, Limit) /\ QueuesInOrder /\ QueuedAfterWritten
           /\ NewIsEmpty

-----------------------------------------------------------------------------
(* Facts about sequences of numbers. *)

\* Appending a number that is above all others keeps a queue in order.
LEMMA AppendInOrder ==
    ASSUME NEW q \in Seq(Nat), NEW n \in Nat, NEW m \in Nat, Increasing(q), Below(q, n), n < m
    PROVE  Increasing(Append(q, n)) /\ Below(Append(q, n), m)
BY DEF Increasing, Below

\* The rest of a queue is in order, below the same limit, and after its head.
LEMMA TailInOrder ==
    ASSUME NEW q \in Seq(Nat), NEW n \in Nat, q # <<>>, Increasing(q), Below(q, n)
    PROVE  /\ Increasing(Tail(q)) /\ Below(Tail(q), n)
           /\ Head(q) < n
           /\ Below(Tail(q), n) /\ \A i \in 1 .. Len(Tail(q)) : Head(q) < Tail(q)[i]
BY DEF Increasing, Below

\* A limit may be raised.
LEMMA BelowMore ==
    ASSUME NEW q \in Seq(Nat), NEW n \in Nat, NEW m \in Nat, Below(q, n), n <= m
    PROVE  Below(q, m)
BY DEF Below

\* The head of a queue that comes after w may follow w, and the rest of the
\* queue comes after the result.
LEMMA HeadFollows ==
    ASSUME NEW q \in Seq(Nat), NEW w \in Seq(Nat), NEW n \in Nat, q # <<>>,
           Increasing(q), Below(q, n), Increasing(w), Below(w, n), After(q, w)
    PROVE  /\ Increasing(Append(w, Head(q))) /\ Below(Append(w, Head(q)), n)
           /\ After(Tail(q), Append(w, Head(q)))
BY DEF Increasing, Below, After

\* A queue that comes after w still does with its head taken, or with a number
\* appended that w is below.
LEMMA StaysAfter ==
    ASSUME NEW q \in Seq(Nat), NEW w \in Seq(Nat), NEW n \in Nat, Below(w, n), After(q, w)
    PROVE  /\ After(Append(q, n), w)
           /\ q # <<>> => After(Tail(q), w)
BY DEF Below, After

\* requeueFirst puts back what was polled: the queue is what it was.
LEMMA RequeueRestores ==
    ASSUME NEW q \in Seq(Nat), q # <<>>
    PROVE  <<Head(q)>> \o Tail(q) = q
BY HeadTailProperties, SeqEqual, ConcatProperties

-----------------------------------------------------------------------------
(* Types. *)

\* The datagram the VPN thread has in hand joins a queue of its session.
LEMMA DatagramQueued ==
    ASSUME TypeOK, vpn = "enter",
           datagrams' = [datagrams EXCEPT ![current] = Append(@, received)]
    PROVE  datagrams' \in [Ids -> Seq(1 .. MaxDatagrams)] /\ current \in Ids
<1>1. current \in Ids
  BY DEF TypeOK
<1>2. received \in 1 .. MaxDatagrams
  <2>1. received \in 0 .. MaxDatagrams /\ received > 0 /\ MaxDatagrams \in Nat
    BY UdpAssumption DEF TypeOK
  <2> QED
    BY <2>1, SMT
<1>3. datagrams \in [Ids -> Seq(1 .. MaxDatagrams)] /\ datagrams[current] \in Seq(1 .. MaxDatagrams)
  BY <1>1 DEF TypeOK
<1>4. Append(datagrams[current], received) \in Seq(1 .. MaxDatagrams)
  BY <1>2, <1>3, AppendProperties
<1> QED
  BY <1>1, <1>3, <1>4

\* The state keeps its types: among them, that only a session with a valid key
\* is subscribed to OP_WRITE, and that the VPN thread handles a session.
THEOREM UdpTypes == Spec => []TypeOK
<1> USE UdpAssumption
<1>1. Init => TypeOK
  <2>1. <<>> \in Seq(1 .. MaxDatagrams) /\ <<>> \in Seq({"fits", "oversize"})
    OBVIOUS
  <2> SUFFICES ASSUME Init PROVE TypeOK
    OBVIOUS
  <2>2. /\ datagrams \in [Ids -> Seq(1 .. MaxDatagrams)]
        /\ inbox \in [Ids -> Seq({"fits", "oversize"})]
    BY <2>1 DEF Init
  <2>3. /\ channel \in [Ids -> {"none", "open", "closed"}]
        /\ selKey \in [Ids -> {"none", "valid", "cancelled"}]
        /\ writeOn \subseteq {s \in Ids : selKey[s] = "valid"} /\ failing \subseteq Ids
        /\ isNew \in BOOLEAN
    BY DEF Init
  <2>4. received \in 0 .. MaxDatagrams /\ replies \in 0 .. MaxReplies /\ delivered \in Nat
    BY DEF Init
  <2> QED
    BY <2>1, <2>2, <2>3, <2>4 DEF Init, TypeOK
<1>2. TypeOK /\ [Next]_vars => TypeOK'
  <2> SUFFICES ASSUME TypeOK, [Next]_vars PROVE TypeOK'
    OBVIOUS
  <2>1. CASE UNCHANGED vars
    BY <2>1 DEF vars, sessions, thread, TypeOK
  <2>2. CASE Lookup
    <3>1. received' \in 0 .. MaxDatagrams /\ received' > 0
      BY <2>2 DEF Lookup, NextDatagram, TypeOK
    <3>2. isNew' \in BOOLEAN
      BY <2>2 DEF Lookup
    <3> QED
      BY <2>2, <3>1, <3>2 DEF Lookup, NextDatagram, TypeOK
  <2>3. CASE Create
    BY <2>3 DEF Create, NextDatagram, TypeOK, Ids
  <2>4. CASE CreateFail
    BY <2>4 DEF CreateFail, NextDatagram, thread, TypeOK, Ids
  <2>5. CASE Enter
    <3>1. datagrams' \in [Ids -> Seq(1 .. MaxDatagrams)] /\ current \in Ids
      BY <2>5, DatagramQueued DEF Enter, TypeOK
    <3>2. /\ selKey' \in [Ids -> {"none", "valid", "cancelled"}]
          /\ writeOn' \subseteq {s \in Ids : selKey'[s] = "valid"}
      BY <2>5, <3>1 DEF Enter, TypeOK
    <3> QED
      BY <2>5, <3>1, <3>2 DEF Enter, TypeOK
  <2>6. CASE EnterWithoutKey
    <3>1. datagrams' \in [Ids -> Seq(1 .. MaxDatagrams)]
      BY <2>6, DatagramQueued DEF EnterWithoutKey
    <3> QED
      BY <2>6, <3>1 DEF EnterWithoutKey, TypeOK
  <2>7. CASE KeepAlive
    BY <2>7 DEF KeepAlive, sessions, TypeOK
  <2>8. ASSUME NEW s \in Ids, NioSend(s) PROVE TypeOK'
    BY <2>8 DEF NioSend, Writable, thread, TypeOK
  <2>9. ASSUME NEW s \in Ids, NioSendFull(s) PROVE TypeOK'
    <3>1. datagrams[s] \in Seq(Nat) /\ datagrams[s] # <<>>
      BY <2>9 DEF NioSendFull, TypeOK
    <3>2. UNCHANGED datagrams
      BY <2>9, <3>1, RequeueRestores DEF NioSendFull, requeueFirst, TypeOK
    <3> QED
      BY <2>9, <3>2 DEF NioSendFull, thread, TypeOK
  <2>10. ASSUME NEW s \in Ids, NioRead(s) PROVE TypeOK'
    <3> DEFINE fits == {i \in 1 .. Len(inbox[s]) : inbox[s][i] = "fits"}
    <3>1. Cardinality(fits) \in Nat
      <4>1. Len(inbox[s]) \in Nat
        BY DEF TypeOK
      <4>2. IsFiniteSet(1 .. Len(inbox[s]))
        BY <4>1, FS_Interval
      <4> QED
        BY <4>2, FS_Subset, FS_CardinalityType
    <3>2. delivered' \in Nat
      BY <2>10, <3>1 DEF NioRead, TypeOK
    <3>3. inbox' \in [Ids -> Seq({"fits", "oversize"})]
      <4>1. <<>> \in Seq({"fits", "oversize"})
        OBVIOUS
      <4> QED
        BY <2>10, <4>1 DEF NioRead, TypeOK
    <3> HIDE DEF fits
    <3> QED
      BY <2>10, <3>2, <3>3 DEF NioRead, thread, TypeOK
  <2>11. ASSUME NEW s \in Ids, NioFail(s) PROVE TypeOK'
    <3>1. datagrams' \in [Ids -> Seq(1 .. MaxDatagrams)]
      <4> DEFINE rest == IF datagrams[s] = <<>> THEN datagrams[s] ELSE Tail(datagrams[s])
      <4>1. rest \in Seq(1 .. MaxDatagrams)
        <5>1. datagrams[s] \in Seq(1 .. MaxDatagrams)
          BY DEF TypeOK
        <5> QED
          BY <5>1, HeadTailProperties
      <4>2. datagrams' = datagrams \/ datagrams' = [datagrams EXCEPT ![s] = rest]
        BY <2>11 DEF NioFail, TypeOK
      <4> HIDE DEF rest
      <4> QED
        BY <4>1, <4>2 DEF TypeOK
    <3>2. /\ table' \in Ids \cup {0}
          /\ channel' \in [Ids -> {"none", "open", "closed"}]
          /\ selKey' \in [Ids -> {"none", "valid", "cancelled"}]
      BY <2>11 DEF NioFail, Close, TypeOK
    <3>3. writeOn' \subseteq {t \in Ids : selKey'[t] = "valid"}
      BY <2>11 DEF NioFail, Close, TypeOK
    <3> QED
      BY <2>11, <3>1, <3>2, <3>3 DEF NioFail, thread, TypeOK
  <2>12. ASSUME NEW s \in Ids, UpstreamReply(s) PROVE TypeOK'
    BY <2>12 DEF UpstreamReply, thread, TypeOK
  <2>13. ASSUME NEW s \in Ids, UpstreamFail(s) PROVE TypeOK'
    BY <2>13 DEF UpstreamFail, thread, TypeOK
  <2> QED
    BY <2>1, <2>2, <2>3, <2>4, <2>5, <2>6, <2>7, <2>8, <2>9, <2>10, <2>11, <2>12, <2>13
       DEF Next, Handler, Nio
<1> QED
  BY <1>1, <1>2, PTL DEF Spec

-----------------------------------------------------------------------------
(* One live session per 5-tuple. *)

\* Every step keeps the one live session the table's.
LEMMA OneLiveStep == TypeOK /\ OneLive /\ [Next]_vars => OneLive'
<1> SUFFICES ASSUME TypeOK, OneLive, [Next]_vars PROVE OneLive'
  OBVIOUS
<1> USE DEF OneLive, LiveIsTabled, LiveIsCurrent, NewIsAlone, OnlyCreated
<1>1. CASE UNCHANGED vars
  BY <1>1 DEF vars, sessions, thread
<1>2. CASE Lookup
  BY <1>2 DEF Lookup, NextDatagram
<1>3. CASE Create
  <2>1. \A s \in Ids : selKey[s] # "valid"
    BY <1>3 DEF Create, Ids
  <2> QED
    BY <1>3, <2>1 DEF Create, NextDatagram, TypeOK, Ids
<1>4. CASE CreateFail
  <2>1. \A s \in Ids : selKey[s] # "valid"
    BY <1>4 DEF CreateFail, Ids
  <2> QED
    BY <1>4, <2>1 DEF CreateFail, NextDatagram, thread, TypeOK, Ids
<1>5. CASE Enter
  BY <1>5 DEF Enter, TypeOK
<1>6. CASE EnterWithoutKey
  BY <1>6 DEF EnterWithoutKey
<1>7. CASE KeepAlive
  BY <1>7 DEF KeepAlive, sessions
<1>8. ASSUME NEW s \in Ids, NioSend(s) \/ NioSendFull(s) \/ NioRead(s) PROVE OneLive'
  BY <1>8 DEF NioSend, NioSendFull, NioRead, thread
\* An error closes the table's session, which is the only live one.
<1>9. ASSUME NEW s \in Ids, NioFail(s) PROVE OneLive'
  <2>1. table = s
    BY <1>9 DEF NioFail
  <2>2. \A t \in Ids : selKey'[t] # "valid"
    BY <1>9, <2>1 DEF NioFail, Close
  <2>3. ~(vpn = "enter" /\ isNew) /\ UNCHANGED thread
    BY <1>9 DEF NioFail
  <2> QED
    BY <1>9, <2>2, <2>3 DEF NioFail, Close, thread, TypeOK, Ids
<1>10. ASSUME NEW s \in Ids, UpstreamReply(s) \/ UpstreamFail(s) PROVE OneLive'
  BY <1>10 DEF UpstreamReply, UpstreamFail, thread
<1> QED
  BY <1>1, <1>2, <1>3, <1>4, <1>5, <1>6, <1>7, <1>8, <1>9, <1>10 DEF Next, Handler, Nio

\* A session the NIO thread still serves is the one the table leads to, so that
\* the datagrams of a 5-tuple are never split over two sockets.
THEOREM OneSocketPerTuple == Spec => []LiveIsTabled
<1>1. Init => OneLive
  BY DEF Init, OneLive, LiveIsTabled, LiveIsCurrent, NewIsAlone, OnlyCreated
<1> QED
  BY <1>1, OneLiveStep, UdpTypes, PTL DEF Spec, OneLive

-----------------------------------------------------------------------------
(* The order of the datagrams. *)

\* Datagrams are natural numbers, and so is their limit.
LEMMA QueueTypes ==
    ASSUME TypeOK
    PROVE  /\ received \in Nat /\ written \in Seq(Nat) /\ Limit \in Nat
           /\ \A s \in Ids : datagrams[s] \in Seq(Nat)
<1>1. Seq(1 .. MaxDatagrams) \subseteq Seq(Nat)
  BY SeqMonotonic, 1 .. MaxDatagrams \subseteq Nat
<1> QED
  BY <1>1, UdpAssumption DEF TypeOK, Limit

\* A step that leaves the queues, the keys and what was written alone, and does
\* not lower the limit, keeps the order.
LEMMA OrderKept ==
    ASSUME TypeOK, TypeOK', InOrder, UNCHANGED <<datagrams, selKey, written>>,
           Limit <= Limit', NewIsEmpty'
    PROVE  InOrder'
<1>1. Limit \in Nat /\ Limit' \in Nat
  <2>1. received \in Nat /\ received' \in Nat
    BY UdpAssumption DEF TypeOK
  <2>2. (Limit = received \/ Limit = received + 1) /\ (Limit' = received' \/ Limit' = received' + 1)
    BY DEF Limit
  <2> QED
    BY <2>1, <2>2
<1>2. Below(written, Limit') /\ \A s \in Ids : Below(datagrams[s], Limit')
  BY <1>1, QueueTypes, BelowMore DEF InOrder, QueuesInOrder
<1>3. Below(written, Limit)' /\ \A s \in Ids : Below(datagrams[s], Limit)'
  BY <1>2
<1> QED
  BY <1>3 DEF InOrder, QueuesInOrder, QueuedAfterWritten, WrittenInOrder, Increasing, After

\* Handling a datagram keeps the order: it is queued behind the earlier ones.
LEMMA OrderHandler ==
    ASSUME TypeOK, TypeOK', InOrder, OneLive, Handler
    PROVE  InOrder'
<1> USE UdpAssumption
<1>1. CASE Lookup
  <2>1. Limit' = Limit
    BY <1>1 DEF Lookup, NextDatagram, Limit, TypeOK
  <2>2. NewIsEmpty'
    BY <1>1 DEF Lookup, NextDatagram, NewIsEmpty, InOrder
  <2>3. UNCHANGED <<datagrams, selKey, written>>
    BY <1>1 DEF Lookup, NextDatagram
  <2>4. Limit \in Nat
    BY QueueTypes
  <2> QED
    BY <2>1, <2>2, <2>3, <2>4, OrderKept
<1>2. CASE Create
  <2>1. Limit' = Limit
    BY <1>2 DEF Create, NextDatagram, Limit, TypeOK
  <2>2. NewIsEmpty'
    BY <1>2 DEF Create, NextDatagram, NewIsEmpty, InOrder, TypeOK, Ids
  <2>3. UNCHANGED <<datagrams, selKey, written>>
    BY <1>2 DEF Create, NextDatagram
  <2>4. Limit \in Nat
    BY QueueTypes
  <2> QED
    BY <2>1, <2>2, <2>3, <2>4, OrderKept
<1>3. CASE CreateFail
  <2>1. Limit <= Limit'
    BY <1>3 DEF CreateFail, NextDatagram, thread, Limit, TypeOK
  <2>2. NewIsEmpty'
    BY <1>3 DEF CreateFail, NextDatagram, thread, NewIsEmpty, InOrder, TypeOK, Ids
  <2>3. UNCHANGED <<datagrams, selKey, written>>
    BY <1>3 DEF CreateFail, NextDatagram
  <2> QED
    BY <2>1, <2>2, <2>3, OrderKept
<1>4. CASE Enter \/ EnterWithoutKey
  <2>1. /\ current \in Ids /\ vpn = "enter" /\ vpn' # "enter" /\ current <= created
        /\ UNCHANGED <<received, written, created>>
        /\ datagrams' = [datagrams EXCEPT ![current] = Append(datagrams[current], received)]
    BY <1>4 DEF Enter, EnterWithoutKey, TypeOK, OneLive, OnlyCreated
  <2>2. Limit = received /\ Limit' = received + 1 /\ received \in Nat
    BY <2>1, QueueTypes DEF Limit
  <2>3. Increasing(written) /\ Below(written, received) /\ Below(written, received + 1)
    BY <2>2, QueueTypes, BelowMore DEF InOrder, WrittenInOrder, Increasing
  <2>4. ASSUME NEW s \in Ids
        PROVE  Increasing(datagrams'[s]) /\ Below(datagrams'[s], received + 1)
    <3>1. datagrams[s] \in Seq(Nat) /\ Increasing(datagrams[s]) /\ Below(datagrams[s], received)
      BY <2>2, QueueTypes DEF InOrder, QueuesInOrder
    <3>2. CASE s = current
      <4>1. datagrams'[s] = Append(datagrams[s], received)
        BY <2>1, <3>2 DEF TypeOK
      <4> QED
        BY <2>2, <3>1, <4>1, AppendInOrder
    <3>3. CASE s # current
      <4>1. datagrams'[s] = datagrams[s]
        BY <2>1, <3>3 DEF TypeOK
      <4> QED
        BY <2>2, <3>1, <4>1, BelowMore
    <3> QED
      BY <3>2, <3>3
  <2>5. ASSUME NEW s \in Ids, selKey'[s] = "valid"
        PROVE  After(datagrams'[s], written)
    <3>1. CASE s = current
      <4>1. datagrams'[s] = Append(datagrams[s], received)
        BY <2>1, <3>1 DEF TypeOK
      <4>2. datagrams[s] = <<>> \/ selKey[s] = "valid"
        BY <1>4, <2>5, <3>1 DEF Enter, EnterWithoutKey, InOrder, NewIsEmpty, TypeOK
      <4>3. After(datagrams[s], written)
        BY <4>2 DEF InOrder, QueuedAfterWritten, After
      <4> QED
        BY <2>2, <2>3, <4>1, <4>3, QueueTypes, StaysAfter
    <3>2. CASE s # current
      <4>1. datagrams'[s] = datagrams[s] /\ selKey[s] = "valid"
        BY <1>4, <2>1, <2>5, <3>2 DEF Enter, EnterWithoutKey, TypeOK
      <4> QED
        BY <4>1 DEF InOrder, QueuedAfterWritten
    <3> QED
      BY <3>1, <3>2
  <2>6. NewIsEmpty'
    <3>1. ASSUME NEW s \in Ids, s > created PROVE datagrams'[s] = <<>>
      <4>1. s # current
        BY <2>1, <3>1 DEF TypeOK, Ids
      <4> QED
        BY <2>1, <3>1, <4>1 DEF InOrder, NewIsEmpty, TypeOK
    <3> QED
      BY <2>1, <3>1 DEF NewIsEmpty
  <2>7. written' = written
    BY <2>1
  <2> QED
    BY <2>2, <2>3, <2>4, <2>5, <2>6, <2>7
       DEF InOrder, QueuesInOrder, QueuedAfterWritten, WrittenInOrder, Increasing
<1>5. CASE KeepAlive
  <2>1. Limit' = Limit
    BY <1>5 DEF KeepAlive, Limit
  <2>2. UNCHANGED <<datagrams, selKey, written>> /\ NewIsEmpty'
    BY <1>5 DEF KeepAlive, sessions, NewIsEmpty, InOrder
  <2>3. Limit \in Nat
    BY QueueTypes
  <2> QED
    BY <2>1, <2>2, <2>3, OrderKept
<1> QED
  BY <1>1, <1>2, <1>3, <1>4, <1>5 DEF Handler

\* The NIO thread keeps the order: it writes the head of the one live queue.
LEMMA OrderNio ==
    ASSUME TypeOK, TypeOK', InOrder, OneLive, NEW s \in Ids, Nio(s)
    PROVE  InOrder'
<1>1. Limit' = Limit /\ Limit \in Nat
  BY QueueTypes DEF Nio, NioSend, NioSendFull, NioRead, NioFail, thread, Limit
<1>2. datagrams[s] \in Seq(Nat) /\ written \in Seq(Nat)
  BY QueueTypes
<1>3. Increasing(datagrams[s]) /\ Below(datagrams[s], Limit) /\ Increasing(written) /\ Below(written, Limit)
  BY DEF InOrder, QueuesInOrder, WrittenInOrder, Increasing
<1>4. selKey[s] = "valid" /\ After(datagrams[s], written)
  BY DEF Nio, NioSend, NioSendFull, NioRead, NioFail, Writable, InOrder, QueuedAfterWritten
<1>5. \A t \in Ids : selKey[t] = "valid" => t = s
  BY <1>4 DEF OneLive, LiveIsTabled
<1>6. ~(vpn' = "enter" /\ isNew')
  BY <1>4 DEF Nio, NioSend, NioSendFull, NioRead, NioFail, thread, OneLive, NewIsAlone
<1>7. CASE NioSend(s)
  <2>1. /\ datagrams[s] # <<>> /\ UNCHANGED <<selKey, created>>
        /\ written' = Append(written, Head(datagrams[s]))
        /\ datagrams' = [datagrams EXCEPT ![s] = Tail(datagrams[s])]
    BY <1>7 DEF NioSend, TypeOK
  <2>2. /\ Increasing(written') /\ Below(written', Limit)
        /\ After(Tail(datagrams[s]), written')
    BY <1>1, <1>2, <1>3, <1>4, <2>1, HeadFollows
  <2>3. \A t \in Ids : datagrams'[t] = IF t = s THEN Tail(datagrams[s]) ELSE datagrams[t]
    BY <2>1 DEF TypeOK
  <2>4. Increasing(Tail(datagrams[s])) /\ Below(Tail(datagrams[s]), Limit)
    BY <1>1, <1>2, <1>3, <2>1, TailInOrder
  <2>5. \A t \in Ids : Increasing(datagrams'[t]) /\ Below(datagrams'[t], Limit)
    BY <2>3, <2>4 DEF InOrder, QueuesInOrder
  <2>6. \A t \in Ids : selKey'[t] = "valid" => After(datagrams'[t], written')
    BY <1>5, <2>1, <2>2, <2>3
  <2>7. NewIsEmpty'
    <3>1. ~(s > created)
      BY <2>1 DEF InOrder, NewIsEmpty
    <3> QED
      BY <1>6, <2>1, <2>3, <3>1 DEF InOrder, NewIsEmpty
  <2> QED
    BY <1>1, <2>2, <2>5, <2>6, <2>7
       DEF InOrder, QueuesInOrder, QueuedAfterWritten, WrittenInOrder, Increasing
<1>8. CASE NioSendFull(s) \/ NioRead(s)
  <2>1. UNCHANGED <<datagrams, selKey, written, created>>
    <3>1. CASE NioSendFull(s)
      BY <1>2, <3>1, RequeueRestores DEF NioSendFull, requeueFirst, TypeOK
    <3>2. CASE NioRead(s)
      BY <3>2 DEF NioRead
    <3> QED
      BY <1>8, <3>1, <3>2
  <2>2. NewIsEmpty'
    BY <1>6, <2>1 DEF InOrder, NewIsEmpty
  <2> QED
    BY <1>1, <2>1, <2>2, OrderKept
<1>9. CASE NioFail(s)
  <2>1. \A t \in Ids : selKey'[t] # "valid"
    BY <1>5, <1>9 DEF NioFail, Close
  <2>2. written' = written /\ created' = created
    BY <1>9 DEF NioFail
  <2>3. ASSUME NEW t \in Ids
        PROVE  /\ Increasing(datagrams'[t]) /\ Below(datagrams'[t], Limit)
               /\ datagrams[t] = <<>> => datagrams'[t] = <<>>
    <3>1. datagrams[t] \in Seq(Nat) /\ Increasing(datagrams[t]) /\ Below(datagrams[t], Limit)
      BY QueueTypes DEF InOrder, QueuesInOrder
    <3>2. datagrams'[t] = datagrams[t] \/ (datagrams[t] # <<>> /\ datagrams'[t] = Tail(datagrams[t]))
      <4>1. CASE datagrams[s] = <<>>
        BY <1>9, <4>1 DEF NioFail, TypeOK
      <4>2. CASE datagrams[s] # <<>>
        <5>1. datagrams' = datagrams \/ datagrams' = [datagrams EXCEPT ![s] = Tail(datagrams[s])]
          BY <1>9, <4>2 DEF NioFail
        <5> QED
          BY <4>2, <5>1 DEF TypeOK
      <4> QED
        BY <4>1, <4>2
    <3> QED
      BY <1>1, <3>1, <3>2, TailInOrder
  <2>4. NewIsEmpty'
    BY <1>6, <2>2, <2>3 DEF InOrder, NewIsEmpty
  <2> QED
    BY <1>1, <2>1, <2>2, <2>3, <2>4
       DEF InOrder, QueuesInOrder, QueuedAfterWritten, WrittenInOrder
<1> QED
  BY <1>7, <1>8, <1>9 DEF Nio

\* The upstream host gets each datagram of the app at most once and in the order
\* in which the app sent them, over full buffers, errors and new sessions.
THEOREM DatagramsInOrder == Spec => []WrittenInOrder
<1>1. Init => InOrder
  BY UdpAssumption DEF Init, InOrder, WrittenInOrder, QueuesInOrder, QueuedAfterWritten, NewIsEmpty,
     Increasing, Below, After
<1>2. Init => OneLive
  BY DEF Init, OneLive, LiveIsTabled, LiveIsCurrent, NewIsAlone, OnlyCreated
<1>3. TypeOK /\ TypeOK' /\ OneLive /\ InOrder /\ [Next]_vars => InOrder'
  <2> SUFFICES ASSUME TypeOK, TypeOK', OneLive, InOrder, [Next]_vars PROVE InOrder'
    OBVIOUS
  <2>1. CASE UNCHANGED vars \/ \E s \in Ids : UpstreamReply(s) \/ UpstreamFail(s)
    <3>1. UNCHANGED <<datagrams, selKey, written, created, vpn, current, isNew, received>>
      BY <2>1 DEF vars, sessions, thread, UpstreamReply, UpstreamFail
    <3>2. Limit' = Limit /\ Limit \in Nat
      BY <3>1, QueueTypes DEF Limit
    <3>3. NewIsEmpty'
      BY <3>1 DEF InOrder, NewIsEmpty
    <3> QED
      BY <3>1, <3>2, <3>3, OrderKept
  <2>2. CASE Handler
    BY <2>2, OrderHandler
  <2>3. CASE \E s \in Ids : Nio(s)
    BY <2>3, OrderNio
  <2> QED
    BY <2>1, <2>2, <2>3 DEF Next
<1> QED
  BY <1>1, <1>2, <1>3, OneLiveStep, UdpTypes, PTL DEF Spec, InOrder

=============================================================================
