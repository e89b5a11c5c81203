-------------------------- MODULE MessagingProofs --------------------------
(***************************************************************************)
(* Proofs about Messaging, for any callers and underlays, any size of the  *)
(* out queue, with and without requeueing, deadlines and reaping.          *)
(***************************************************************************)
EXTENDS Messaging, FiniteSetTheorems, TLAPS

-----------------------------------------------------------------------------
(* The inductive invariants *)

InQueue(c) == \E i \in 1..Len(queue) : queue[i] = c
InTxer(c) == \E u \in Underlay : msg[u] = c

\* A call that has not queued its message, or never will.
Unsent(c) ==
    \/ call[c] \in {"idle", "sending"}
    \/ kind[c] \in {"send", "trySend", "queue"} /\ call[c] \in Returned \ {"ok"}

\* Each place holds a message of its own; a txer without one has none.
PlacesDistinct ==
    /\ \A i, j \in 1..Len(queue) : queue[i] = queue[j] => i = j
    /\ \A u, v \in Underlay : msg[u] = msg[v] /\ msg[u] # None => u = v
    /\ \A u \in Underlay : tx[u] \in {"source", "exit"} => msg[u] = None

\* A message is in the queue or in a txer, not both, and only until it has a fate; what was
\* queued and has no fate is there.
PlaceInv ==
    \A c \in Caller :
        /\ ~(InQueue(c) /\ InTxer(c))
        /\ InQueue(c) \/ InTxer(c) => fate[c] = "none"
        /\ Unsent(c) => ~InQueue(c) /\ ~InTxer(c) /\ fate[c] = "none" /\ atPeer[c] = 0
        /\ call[c] = "waiting" => kind[c] \in {"wire", "reply"}
        /\ call[c] \in {"waiting", "ok"} /\ fate[c] = "none" => InQueue(c) \/ InTxer(c)

\* errC is used once, with the fate of the message, and closed without an error only when
\* the message was written.
ErrCInv ==
    /\ ~misuse
    /\ \A c \in Caller :
        /\ fate[c] = "none" => ~errC[c].full /\ ~errC[c].closed
        /\ kind[c] # "wire" => ~errC[c].closed
        /\ kind[c] = "wire" /\ call[c] = "waiting" /\ errC[c].closed /\ ~errC[c].full => fate[c] = "written"
        /\ kind[c] = "wire" /\ call[c] = "ok" => fate[c] = "written"

\* The waiter of a request is in the map from before the write on, unless its reply has
\* taken it out; what has passed its deadline does not wait any more.
WaiterInv ==
    /\ \A c \in overdue : ctx[c] = "ended"
    /\ \A c \in Caller :
        /\ kind[c] = "reply" /\ call[c] = "waiting" /\ ctx[c] = "live" /\ ~closed
        /\ fate[c] = "written" \/ \E u \in Underlay : tx[u] \in {"write", "wrote"} /\ msg[u] = c
        => c \in waiters \cup replyC \/ \E u \in Underlay : rx[u] = c

MessagingInv == TypeOK /\ PlacesDistinct /\ PlaceInv /\ ErrCInv

-----------------------------------------------------------------------------
(* The out queue *)

\* What a message put into the out queue does to it.
LEMMA Appending ==
    ASSUME NEW c \in Caller, queue \in Seq(Caller), queue' = Append(queue, c)
    PROVE  /\ queue' \in Seq(Caller)
           /\ Len(queue') = Len(queue) + 1
           /\ \A i \in 1..Len(queue) : queue'[i] = queue[i]
           /\ queue'[Len(queue) + 1] = c
  OBVIOUS

\* What the message source's receive does to it.
LEMMA Taking ==
    ASSUME queue \in Seq(Caller), queue # <<>>, queue' = Tail(queue)
    PROVE  /\ queue' \in Seq(Caller)
           /\ Len(queue) \in Nat \ {0}
           /\ Len(queue') = Len(queue) - 1
           /\ \A i \in 1..Len(queue') : queue'[i] = queue[i + 1]
           /\ Head(queue) = queue[1]
           /\ Head(queue) \in Caller
  OBVIOUS

-----------------------------------------------------------------------------
(* Type correctness *)

\* Filling errC, or emptying it, leaves a pair of Booleans.
LEMMA SetFullKeepsType ==
    ASSUME errC \in [Caller -> ErrC], NEW c \in Caller, NEW b \in BOOLEAN,
           errC' = [errC EXCEPT ![c].full = b]
    PROVE  errC' \in [Caller -> ErrC]
<1>1. [errC[c] EXCEPT !.full = b] \in ErrC
  BY Zenon DEF ErrC
<1>2. errC' = [errC EXCEPT ![c] = [errC[c] EXCEPT !.full = b]]
  BY Zenon
<1>3. QED
  BY <1>1, <1>2, Zenon

LEMMA SetClosedKeepsType ==
    ASSUME errC \in [Caller -> ErrC], NEW c \in Caller, NEW b \in BOOLEAN,
           errC' = [errC EXCEPT ![c].closed = b]
    PROVE  errC' \in [Caller -> ErrC]
<1>1. [errC[c] EXCEPT !.closed = b] \in ErrC
  BY Zenon DEF ErrC
<1>2. errC' = [errC EXCEPT ![c] = [errC[c] EXCEPT !.closed = b]]
  BY Zenon
<1>3. QED
  BY <1>1, <1>2, Zenon

\* What a SendListener does to errC leaves a pair of Booleans there.
LEMMA NotifyKeepsType ==
    ASSUME TypeOK, NEW c \in Caller,
           NotifyErr(c) \/ NotifyAfterWrite(c) \/ NotifyFailed(c) \/ NotifyNothing(c)
    PROVE  /\ errC' \in [Caller -> ErrC]
           /\ misuse' \in BOOLEAN
<1> USE DEF TypeOK, ErrC
<1>1. CASE NotifyErr(c)
  <2>1. CASE kind[c] \in {"wire", "reply"}
    <3>1. errC' \in [Caller -> ErrC]
      BY <1>1, <2>1, SetFullKeepsType, Zenon DEF NotifyErr
    <3>2. QED
      BY <1>1, <2>1, <3>1, Zenon DEF NotifyErr
  <2>2. CASE kind[c] \notin {"wire", "reply"}
    BY <1>1, <2>2, Zenon DEF NotifyErr
  <2>3. QED
    BY <2>1, <2>2, Zenon
<1>2. CASE NotifyAfterWrite(c)
  <2>1. PICK b \in BOOLEAN : errC' = [errC EXCEPT ![c].closed = b]
    BY <1>2, Zenon DEF NotifyAfterWrite
  <2>2. errC' \in [Caller -> ErrC]
    BY <2>1, SetClosedKeepsType, Zenon
  <2>3. misuse' \in BOOLEAN
    BY <1>2, Zenon DEF NotifyAfterWrite
  <2>4. QED
    BY <2>2, <2>3, Zenon
<1>3. CASE NotifyFailed(c)
  BY <1>3, Zenon DEF NotifyFailed
<1>4. CASE NotifyNothing(c)
  BY <1>4, Zenon DEF NotifyNothing
<1>5. QED
  BY <1>1, <1>2, <1>3, <1>4, Zenon

\* A step of a caller keeps the types.
LEMMA CallingKeepsType ==
    ASSUME TypeOK, NEW c \in Caller, Calling(c)
    PROVE  TypeOK'
<1> USE MessagingAssumption
    DEF TypeOK, callVars, txVars, replyVars, Return, ReturnAndCancel, EndsContext, Returned, Kind
<1>1. CASE SendBegin(c)
  BY <1>1, ZenonT(40) DEF SendBegin
<1>2. CASE SendQueues(c)
  <2>1. queue' \in Seq(Caller) /\ Len(queue') <= QueueSize
    BY <1>2, Appending DEF SendQueues, HasRoom
  <2>2. QED
    BY <1>2, <2>1, Zenon DEF SendQueues, QueuedResult
<1>3. CASE SendGivesUp(c)
  BY <1>3, ZenonT(40) DEF SendGivesUp
<1>4. CASE TrySendBusy(c)
  BY <1>4, Zenon DEF TrySendBusy
<1>5. CASE ReadErrC(c)
  <2>1. errC' \in [Caller -> ErrC]
    BY <1>5, SetFullKeepsType, Zenon DEF ReadErrC
  <2>2. QED
    BY <1>5, <2>1, Zenon DEF ReadErrC
<1>6. CASE ReadReplyC(c)
  BY <1>6, Zenon DEF ReadReplyC
<1>7. CASE WaitGivesUp(c)
  BY <1>7, ZenonT(40) DEF WaitGivesUp
<1>8. QED
  BY <1>1, <1>2, <1>3, <1>4, <1>5, <1>6, <1>7, Zenon DEF Calling

\* A step of a txer keeps the types; from "check" on it has a message.
LEMMA SendingKeepsType ==
    ASSUME TypeOK, NEW u \in Underlay, Sending(u) \/ SourceEnds(u) \/ SetWriteTimeoutFails(u)
    PROVE  TypeOK'
<1> USE MessagingAssumption DEF TypeOK, callVars, txVars, replyVars, SetTx, Finish
<1>1. CASE TakeMessage(u)
  <2>1. queue' \in Seq(Caller) /\ Len(queue') <= QueueSize /\ Head(queue) \in Caller
    BY <1>1, Taking DEF TakeMessage
  <2>2. QED
    BY <1>1, <2>1, Zenon DEF TakeMessage
<1>2. CASE TxDrops(u)
  BY <1>2, NotifyKeepsType, Zenon DEF TxDrops
<1>3. CASE TxBegins(u)
  BY <1>3 DEF TxBegins, AddWaiter
<1>4. CASE Write(u)
  <2>1. atPeer' \in [Caller -> Nat]
    <3>1. msg[u] \in Caller
      BY <1>4, Zenon DEF Write
    <3>2. atPeer' = atPeer \/ atPeer' = [atPeer EXCEPT ![msg[u]] = @ + 1]
      BY <1>4, Zenon DEF Write
    <3>3. atPeer[msg[u]] + 1 \in Nat
      BY <3>1
    <3>4. QED
      BY <3>1, <3>2, <3>3, Zenon
  <2>2. SetTx(u, "wrote") \/ SetTx(u, "failed")
    BY <1>4, Zenon DEF Write
  <2>3. QED
    BY <1>4, <2>1, <2>2, ZenonT(40) DEF Write
<1>5. CASE TxSucceeds(u)
  BY <1>5, NotifyKeepsType, ZenonT(40) DEF TxSucceeds, NotifyAfterWrite
<1>6. CASE TxRemovesWaiter(u)
  BY <1>6, Zenon DEF TxRemovesWaiter
<1>7. CASE TxRequeues(u)
  <2>1. queue' \in Seq(Caller) /\ Len(queue') <= QueueSize
    BY <1>7, Appending DEF TxRequeues, HasRoom, Requeued
  <2>2. QED
    BY <1>7, <2>1, Zenon DEF TxRequeues, NotifyNothing
<1>8. CASE TxFails(u)
  BY <1>8, NotifyKeepsType, ZenonT(40) DEF TxFails, NotifyFailed
<1>9. CASE SourceEnds(u)
  BY <1>9, Zenon DEF SourceEnds
<1>10. CASE SetWriteTimeoutFails(u)
  BY <1>10, NotifyKeepsType, Zenon DEF SetWriteTimeoutFails
<1>11. QED
  BY <1>1, <1>2, <1>3, <1>4, <1>5, <1>6, <1>7, <1>8, <1>9, <1>10, Zenon DEF Sending

\* Every step keeps the types.
LEMMA NextKeepsType == TypeOK /\ [Next]_vars => TypeOK'
<1> SUFFICES ASSUME TypeOK, [Next]_vars
             PROVE  TypeOK'
  BY Zenon
<1> USE MessagingAssumption DEF TypeOK, callVars, txVars, replyVars
<1>1. ASSUME NEW c \in Caller, Expire(c) \/ Cancel(c)
      PROVE  TypeOK'
  <2>1. ctx' = ctx \/ ctx' = [ctx EXCEPT ![c] = "ended"]
    <3>1. CASE Deadlines
      BY <1>1, <3>1, Zenon DEF Expire, Cancel
    <3>2. CASE ~Deadlines
      BY <1>1, <3>2, Zenon DEF Expire, Cancel
    <3>3. QED
      BY <3>1, <3>2, Zenon
  <2>2. overdue' \in SUBSET Caller
    BY <1>1 DEF Expire, Cancel
  <2>3. ctx' \in [Caller -> {"live", "ended"}]
    BY <2>1, Zenon
  <2>4. QED
    BY <1>1, <2>2, <2>3, ZenonT(40) DEF Expire, Cancel
<1>2. ASSUME NEW u \in Underlay, NEW c \in Caller, RxReply(u, c)
      PROVE  TypeOK'
  BY <1>2 DEF RxReply
<1>3. ASSUME NEW u \in Underlay, AcceptReply(u)
      PROVE  TypeOK'
  BY <1>3, Zenon DEF AcceptReply
<1>4. CASE Close
  BY <1>4, Zenon DEF Close
<1>5. CASE UNCHANGED vars
  BY <1>5, Zenon DEF vars
<1>6. QED
  BY <1>1, <1>2, <1>3, <1>4, <1>5, CallingKeepsType, SendingKeepsType, Zenon DEF Next

-----------------------------------------------------------------------------
(* Where messages are *)

\* A message that was in no place is put into the queue.
LEMMA QueueGrows ==
    ASSUME TypeOK, PlacesDistinct, NEW c \in Caller, ~InQueue(c), queue' = Append(queue, c)
    PROVE  /\ \A i, j \in 1..Len(queue') : queue'[i] = queue'[j] => i = j
           /\ \A d \in Caller : InQueue(d)' <=> InQueue(d) \/ d = c
<1>1. Len(queue) \in Nat /\ Len(queue') = Len(queue) + 1
  BY Appending DEF TypeOK
<1>2. \A i \in 1..Len(queue) : queue'[i] = queue[i]
  BY Appending, Zenon DEF TypeOK
<1>3. queue'[Len(queue) + 1] = c
  BY Appending, Zenon DEF TypeOK
<1>4. QED
  BY <1>1, <1>2, <1>3 DEF PlacesDistinct, InQueue

\* The first message is taken out of the queue.
LEMMA QueueShrinks ==
    ASSUME TypeOK, PlacesDistinct, queue # <<>>, queue' = Tail(queue)
    PROVE  /\ \A i, j \in 1..Len(queue') : queue'[i] = queue'[j] => i = j
           /\ InQueue(Head(queue))
           /\ \A d \in Caller : InQueue(d)' <=> InQueue(d) /\ d # Head(queue)
<1>1. Len(queue) \in Nat \ {0} /\ Len(queue') = Len(queue) - 1 /\ Head(queue) = queue[1]
  BY Taking, Zenon DEF TypeOK
<1>2. \A i \in 1..Len(queue') : queue'[i] = queue[i + 1]
  BY Taking, Zenon DEF TypeOK
<1>3. \A i, j \in 1..Len(queue') : queue'[i] = queue'[j] => i = j
  BY <1>1, <1>2 DEF PlacesDistinct
<1>4. InQueue(Head(queue))
  BY <1>1 DEF InQueue
<1>5. ASSUME NEW d \in Caller, InQueue(d)'
      PROVE  InQueue(d) /\ d # Head(queue)
  <2>1. PICK i \in 1..Len(queue') : queue'[i] = d
    BY <1>5, Zenon DEF InQueue
  <2>2. i + 1 \in 1..Len(queue) /\ queue[i + 1] = d /\ i + 1 # 1
    BY <1>1, <1>2, <2>1
  <2>3. QED
    BY <1>1, <2>2 DEF InQueue, PlacesDistinct
<1>6. ASSUME NEW d \in Caller, InQueue(d), d # Head(queue)
      PROVE  InQueue(d)'
  <2>1. PICK i \in 1..Len(queue) : queue[i] = d
    BY <1>6, Zenon DEF InQueue
  <2>2. i - 1 \in 1..Len(queue') /\ (i - 1) + 1 = i
    BY <1>1, <1>6, <2>1
  <2>3. queue'[i - 1] = d
    BY <1>2, <2>1, <2>2, Zenon
  <2>4. QED
    BY <2>2, <2>3, Zenon DEF InQueue
<1>7. QED
  BY <1>3, <1>4, <1>5, <1>6, Zenon

\* A txer is done with its message.
LEMMA TxerEmptied ==
    ASSUME TypeOK, PlacesDistinct, NEW u \in Underlay, msg[u] # None,
           msg' = [msg EXCEPT ![u] = None]
    PROVE  /\ msg[u] \in Caller /\ InTxer(msg[u]) /\ msg'[u] = None
           /\ \A v, w \in Underlay : msg'[v] = msg'[w] /\ msg'[v] # None => v = w
           /\ \A d \in Caller : InTxer(d)' <=> InTxer(d) /\ d # msg[u]
  BY MessagingAssumption DEF TypeOK, PlacesDistinct, InTxer

\* A txer takes a message that was in no txer.
LEMMA TxerFilled ==
    ASSUME TypeOK, PlacesDistinct, NEW u \in Underlay, msg[u] = None,
           NEW c \in Caller, ~InTxer(c), msg' = [msg EXCEPT ![u] = c]
    PROVE  /\ \A v, w \in Underlay : msg'[v] = msg'[w] /\ msg'[v] # None => v = w
           /\ \A d \in Caller : InTxer(d)' <=> InTxer(d) \/ d = c
  BY MessagingAssumption DEF TypeOK, PlacesDistinct, InTxer

PlacesInv == TypeOK /\ PlacesDistinct /\ PlaceInv

\* A call queues its message at most once, and returns without it only when it has not.
LEMMA CallingKeepsPlaces ==
    ASSUME PlacesInv, NEW c \in Caller, Calling(c)
    PROVE  PlacesDistinct' /\ PlaceInv'
<1> USE DEF PlacesInv, TypeOK, txVars, replyVars
<1>1. CASE SendQueues(c)
  <2>1. ~InQueue(c) /\ ~InTxer(c) /\ fate[c] = "none"
    BY <1>1, Zenon DEF SendQueues, PlaceInv, Unsent
  <2>2. PlacesDistinct' /\ \A d \in Caller : InQueue(d)' <=> InQueue(d) \/ d = c
    BY <1>1, <2>1, QueueGrows, Zenon DEF SendQueues, PlacesDistinct
  <2>3. \A d \in Caller : InTxer(d)' <=> InTxer(d)
    BY <1>1, Zenon DEF SendQueues, InTxer
  <2>4. QED
    BY <1>1, <2>1, <2>2, <2>3
       DEF SendQueues, QueuedResult, Return, PlaceInv, Unsent, Returned, Kind
<1>2. CASE ~SendQueues(c)
  <2>1. UNCHANGED <<kind, queue, txVars, fate, atPeer>>
    BY <1>2, Zenon DEF Calling, SendBegin, SendGivesUp, TrySendBusy, ReadErrC, ReadReplyC,
       WaitGivesUp
  <2>2. PlacesDistinct'
    BY <2>1, Zenon DEF PlacesDistinct
  <2>3. \A d \in Caller : (InQueue(d)' <=> InQueue(d)) /\ (InTxer(d)' <=> InTxer(d))
    BY <2>1, Zenon DEF InQueue, InTxer
  <2>4. PICK r \in {"sending"} \cup Returned :
          /\ Return(c, r)
          /\ r = "sending" => call[c] = "idle"
          /\ r = "ok" => call[c] = "waiting"
          /\ call[c] \in {"idle", "sending", "waiting"}
    BY <1>2, Zenon DEF Calling, SendBegin, SendGivesUp, TrySendBusy, ReadErrC, ReadReplyC,
       WaitGivesUp, ReturnAndCancel, Returned
  <2>5. PlaceInv'
    BY <2>1, <2>3, <2>4 DEF Return, PlaceInv, Unsent, Returned
  <2>6. QED
    BY <2>2, <2>5, Zenon
<1>3. QED
  BY <1>1, <1>2, Zenon

\* A txer that is done with its message has given it its fate.
LEMMA FinishingKeepsPlaces ==
    ASSUME PlacesInv, NEW u \in Underlay, msg[u] # None, NEW f \in {"written", "failed", "dropped"},
           Finish(msg[u], f), NEW l \in {"source", "exit"}, SetTx(u, l),
           msg' = [msg EXCEPT ![u] = None],
           UNCHANGED <<kind, call, queue, atPeer>>
    PROVE  PlacesDistinct' /\ PlaceInv'
<1> USE DEF PlacesInv
<1>1. \A d \in Caller : InTxer(d)' <=> InTxer(d) /\ d # msg[u]
  BY TxerEmptied, Zenon
<1>2. \A d \in Caller : InQueue(d)' <=> InQueue(d)
  BY Zenon DEF InQueue
<1>3. msg[u] \in Caller /\ InTxer(msg[u])
  BY TxerEmptied, Zenon
<1>4. PlacesDistinct'
  BY TxerEmptied DEF PlacesDistinct, TypeOK, SetTx
<1>5. PlaceInv'
  BY <1>1, <1>2, <1>3 DEF PlaceInv, Unsent, TypeOK, Finish
<1>6. QED
  BY <1>4, <1>5, Zenon

\* A txer moves a message from the queue to itself, and back when it requeues it.
LEMMA SendingKeepsPlaces ==
    ASSUME PlacesInv, NEW u \in Underlay, Sending(u) \/ SourceEnds(u) \/ SetWriteTimeoutFails(u)
    PROVE  PlacesDistinct' /\ PlaceInv'
<1> USE DEF PlacesInv, txVars, replyVars, callVars
<1>1. CASE TakeMessage(u)
  <2> DEFINE c == Head(queue)
  <2>1. c \in Caller /\ InQueue(c) /\ msg[u] = None
    BY <1>1, Taking, QueueShrinks, Zenon DEF TakeMessage, TypeOK, PlacesDistinct
  <2>2. ~InTxer(c)
    BY <2>1, Zenon DEF PlaceInv
  <2>3. \A d \in Caller : InQueue(d)' <=> InQueue(d) /\ d # c
    BY <1>1, QueueShrinks, Zenon DEF TakeMessage
  <2>4. \A d \in Caller : InTxer(d)' <=> InTxer(d) \/ d = c
    BY <1>1, <2>1, <2>2, TxerFilled, Zenon DEF TakeMessage
  <2>5. PlacesDistinct'
    <3>1. \A v \in Underlay : tx'[v] \in {"source", "exit"} => msg'[v] = None
      BY <1>1, Zenon DEF TakeMessage, PlacesDistinct, TypeOK, SetTx
    <3>2. QED
      BY <1>1, <2>1, <2>2, <3>1, QueueShrinks, TxerFilled, Zenon DEF TakeMessage, PlacesDistinct
  <2> HIDE DEF c
  <2>6. PlaceInv'
    BY <1>1, <2>1, <2>3, <2>4, Zenon DEF TakeMessage, PlaceInv, Unsent
  <2>7. QED
    BY <2>5, <2>6, Zenon
<1>2. CASE TxRequeues(u)
  <2>1. msg[u] \in Caller /\ InTxer(msg[u]) /\ msg[u] # None
    BY <1>2, MessagingAssumption, Zenon DEF TxRequeues, TypeOK, InTxer
  <2>2. ~InQueue(msg[u])
    BY <2>1, Zenon DEF PlaceInv
  <2>3. \A d \in Caller : InQueue(d)' <=> InQueue(d) \/ d = msg[u]
    BY <1>2, <2>1, <2>2, QueueGrows, Zenon DEF TxRequeues, Requeued
  <2>4. \A d \in Caller : InTxer(d)' <=> InTxer(d) /\ d # msg[u]
    BY <1>2, <2>1, TxerEmptied, Zenon DEF TxRequeues
  <2>5. PlacesDistinct'
    <3>1. \A v \in Underlay : tx'[v] \in {"source", "exit"} => msg'[v] = None
      BY <1>2, Zenon DEF TxRequeues, PlacesDistinct, TypeOK, SetTx
    <3>2. QED
      BY <1>2, <2>1, <2>2, <3>1, QueueGrows, TxerEmptied, Zenon DEF TxRequeues, Requeued,
         PlacesDistinct
  <2>6. PlaceInv'
    BY <1>2, <2>1, <2>3, <2>4 DEF TxRequeues, PlaceInv, Unsent
  <2>7. QED
    BY <2>5, <2>6, Zenon
<1>3. CASE TxDrops(u)
  BY <1>3, FinishingKeepsPlaces, Zenon DEF TxDrops, TypeOK
<1>4. CASE TxSucceeds(u)
  BY <1>4, FinishingKeepsPlaces, Zenon DEF TxSucceeds, TypeOK
<1>5. CASE TxFails(u)
  BY <1>5, FinishingKeepsPlaces, Zenon DEF TxFails, TypeOK
<1>6. CASE SetWriteTimeoutFails(u)
  BY <1>6, FinishingKeepsPlaces, Zenon DEF SetWriteTimeoutFails, TypeOK
<1>7. CASE TxBegins(u) \/ Write(u) \/ TxRemovesWaiter(u) \/ SourceEnds(u)
  <2>1. UNCHANGED <<kind, call, queue, msg, fate>>
    BY <1>7, Zenon DEF TxBegins, Write, TxRemovesWaiter, SourceEnds
  <2>2. PlacesDistinct'
    BY <1>7, <2>1 DEF PlacesDistinct, TypeOK, SetTx, TxBegins, Write, TxRemovesWaiter, SourceEnds
  <2>3. \A d \in Caller : (InQueue(d)' <=> InQueue(d)) /\ (InTxer(d)' <=> InTxer(d))
    BY <2>1, Zenon DEF InQueue, InTxer
  <2>4. \A d \in Caller : Unsent(d) => atPeer'[d] = 0
    <3>1. \A d \in Caller : Unsent(d) => d # msg[u] /\ atPeer[d] = 0
      BY DEF PlaceInv, InTxer
    <3>2. atPeer' = atPeer \/ atPeer' = [atPeer EXCEPT ![msg[u]] = @ + 1]
      BY <1>7, Zenon DEF TxBegins, Write, TxRemovesWaiter, SourceEnds
    <3>3. QED
      BY <3>1, <3>2, Zenon DEF TypeOK
  <2>5. PlaceInv'
    BY <2>1, <2>3, <2>4, Zenon DEF PlaceInv, Unsent
  <2>6. QED
    BY <2>2, <2>5, Zenon
<1>8. QED
  BY <1>1, <1>2, <1>3, <1>4, <1>5, <1>6, <1>7, Zenon DEF Sending

\* Every step keeps every message in one place.
LEMMA NextKeepsPlaces == PlacesInv /\ [Next]_vars => PlacesInv'
<1> SUFFICES ASSUME PlacesInv, [Next]_vars
             PROVE  PlacesDistinct' /\ PlaceInv'
  BY NextKeepsType, Zenon DEF PlacesInv
<1>1. CASE UNCHANGED <<kind, call, queue, txVars, fate, atPeer>>
  <2>1. \A d \in Caller : (InQueue(d)' <=> InQueue(d)) /\ (InTxer(d)' <=> InTxer(d))
    BY <1>1, Zenon DEF InQueue, InTxer, txVars
  <2>2. QED
    BY <1>1, <2>1, Zenon DEF PlacesInv, PlacesDistinct, PlaceInv, Unsent, txVars
<1>2. ASSUME NEW u \in Underlay, NEW c \in Caller, RxReply(u, c)
      PROVE  PlacesDistinct' /\ PlaceInv'
  <2>1. UNCHANGED <<kind, call, queue, txVars, fate>>
    BY <1>2, Zenon DEF RxReply, callVars
  <2>2. \A d \in Caller : (InQueue(d)' <=> InQueue(d)) /\ (InTxer(d)' <=> InTxer(d))
    BY <2>1, Zenon DEF InQueue, InTxer, txVars
  <2>3. \A d \in Caller : atPeer[d] = 0 => atPeer'[d] = 0
    BY <1>2 DEF RxReply, PlacesInv, TypeOK
  <2>4. QED
    BY <2>1, <2>2, <2>3 DEF PlacesInv, PlacesDistinct, PlaceInv, Unsent, txVars
<1>3. QED
  BY <1>1, <1>2, CallingKeepsPlaces, SendingKeepsPlaces, Zenon DEF Next, Expire, Cancel,
     AcceptReply, Close, vars, callVars

-----------------------------------------------------------------------------
(* What the callers are told *)

\* The SendListener touches only the errC of its envelope, and rightly when that is unused
\* (envelope.go:147-153, 208-210).
LEMMA NotifyEffect ==
    ASSUME TypeOK, NEW c \in Caller, ~errC[c].full, ~errC[c].closed, ~misuse
    PROVE  /\ NotifyErr(c) \/ NotifyAfterWrite(c) \/ NotifyFailed(c) =>
                ~misuse' /\ \A d \in Caller : d # c => errC'[d] = errC[d]
           /\ NotifyErr(c) => ~errC'[c].closed
           /\ NotifyAfterWrite(c) \/ NotifyFailed(c) => (errC'[c].closed => kind[c] = "wire")
           /\ NotifyFailed(c) /\ kind[c] = "wire" => errC'[c].full
<1> USE DEF TypeOK, ErrC
<1>1. ASSUME NotifyErr(c)
      PROVE  ~misuse' /\ ~errC'[c].closed /\ \A d \in Caller : d # c => errC'[d] = errC[d]
  <2>1. CASE kind[c] \in {"wire", "reply"}
    <3>1. errC' = [errC EXCEPT ![c].full = TRUE]
      BY <1>1, <2>1, Zenon DEF NotifyErr
    <3>2. ~errC'[c].closed /\ \A d \in Caller : d # c => errC'[d] = errC[d]
      BY <3>1
    <3>3. ~misuse'
      BY <1>1, <2>1, Zenon DEF NotifyErr
    <3>4. QED
      BY <3>2, <3>3, Zenon
  <2>2. CASE kind[c] \notin {"wire", "reply"}
    BY <1>1, <2>2, Zenon DEF NotifyErr
  <2>3. QED
    BY <2>1, <2>2, Zenon
<1>2. ASSUME NotifyAfterWrite(c)
      PROVE  /\ ~misuse' /\ \A d \in Caller : d # c => errC'[d] = errC[d]
             /\ errC'[c].closed => kind[c] = "wire"
  BY <1>2 DEF NotifyAfterWrite
<1>3. ASSUME NotifyFailed(c)
      PROVE  /\ ~misuse' /\ \A d \in Caller : d # c => errC'[d] = errC[d]
             /\ errC'[c].closed => kind[c] = "wire"
             /\ kind[c] = "wire" => errC'[c].full
  BY <1>3, Zenon DEF NotifyFailed
<1>4. QED
  BY <1>1, <1>2, <1>3, Zenon

\* A message that is in a txer has told its caller nothing.
LEMMA TxerHasFreshErrC ==
    ASSUME MessagingInv, NEW u \in Underlay, msg[u] # None
    PROVE  /\ msg[u] \in Caller /\ fate[msg[u]] = "none"
           /\ ~errC[msg[u]].full /\ ~errC[msg[u]].closed /\ ~misuse
<1>1. msg[u] \in Caller /\ InTxer(msg[u])
  BY Zenon DEF MessagingInv, TypeOK, InTxer
<1>2. QED
  BY <1>1, Zenon DEF MessagingInv, PlaceInv, ErrCInv

\* A txer that gives a message its fate tells the caller so.
LEMMA TellingKeepsErrC ==
    ASSUME MessagingInv, NEW u \in Underlay, msg[u] # None,
           UNCHANGED <<kind, call>>,
           \/ NotifyErr(msg[u]) /\ (Finish(msg[u], "dropped") \/ Finish(msg[u], "failed"))
           \/ NotifyAfterWrite(msg[u]) /\ Finish(msg[u], "written")
           \/ NotifyFailed(msg[u]) /\ Finish(msg[u], "failed")
    PROVE  ErrCInv'
<1> DEFINE c == msg[u]
<1>1. c \in Caller /\ fate[c] = "none" /\ ~errC[c].full /\ ~errC[c].closed /\ ~misuse
  BY TxerHasFreshErrC, Zenon
<1>2. call[c] # "ok" \/ kind[c] # "wire"
  BY <1>1, Zenon DEF MessagingInv, ErrCInv
<1>3. TypeOK /\ ErrCInv
  BY Zenon DEF MessagingInv
<1> HIDE DEF c
<1>4. ~misuse' /\ \A d \in Caller : d # c => errC'[d] = errC[d]
  BY <1>1, <1>3, NotifyEffect, Zenon DEF c
<1>5. fate'[c] # "none" /\ \A d \in Caller : d # c => fate'[d] = fate[d]
  BY <1>1, <1>3, Zenon DEF Finish, TypeOK, c
<1>6. /\ errC'[c].closed => kind[c] = "wire"
      /\ errC'[c].closed /\ ~errC'[c].full => fate'[c] = "written"
  <2>1. CASE NotifyErr(c)
    BY <1>1, <1>3, <2>1, NotifyEffect, Zenon
  <2>2. CASE NotifyAfterWrite(c) /\ Finish(c, "written")
    BY <1>1, <1>3, <2>2, NotifyEffect DEF Finish, TypeOK
  <2>3. CASE NotifyFailed(c)
    BY <1>1, <1>3, <2>3, NotifyEffect, Zenon
  <2>4. QED
    BY <2>1, <2>2, <2>3, Zenon DEF c
<1>7. QED
  BY <1>1, <1>2, <1>3, <1>4, <1>5, <1>6, Zenon DEF ErrCInv

\* A call returns what errC says.
LEMMA CallingKeepsErrC ==
    ASSUME MessagingInv, NEW c \in Caller, Calling(c)
    PROVE  ErrCInv'
<1>1. TypeOK /\ ErrCInv /\ PlaceInv
  BY Zenon DEF MessagingInv
<1>2. UNCHANGED <<kind, fate, misuse>>
  BY Zenon DEF Calling, SendBegin, SendQueues, SendGivesUp, TrySendBusy, ReadErrC, ReadReplyC,
     WaitGivesUp
<1>3. CASE ReadErrC(c)
  <2>1. /\ \A d \in Caller : d # c => errC'[d] = errC[d]
        /\ errC'[c].closed = errC[c].closed /\ ~errC'[c].full
    BY <1>1, <1>3, Zenon DEF ReadErrC, TypeOK, ErrC
  <2>2. call' = [call EXCEPT ![c] = IF errC[c].full THEN "error" ELSE "ok"]
    BY <1>3, Zenon DEF ReadErrC, ReturnAndCancel, Return
  <2>3. ~errC[c].full => errC[c].closed
    BY <1>3, Zenon DEF ReadErrC
  <2>4. call'[c] # "waiting" /\ \A d \in Caller : d # c => call'[d] = call[d]
    BY <1>1, <2>2, Zenon DEF TypeOK
  <2>5. call'[c] = "ok" => ~errC[c].full
    BY <1>1, <2>2, Zenon DEF TypeOK
  <2>6. call[c] = "waiting"
    BY <1>3, Zenon DEF ReadErrC
  <2>7. QED
    BY <1>1, <1>2, <2>1, <2>3, <2>4, <2>5, <2>6, Zenon DEF ErrCInv
<1>4. CASE SendQueues(c)
  <2>1. fate[c] = "none" /\ errC' = errC
    BY <1>1, <1>4, Zenon DEF SendQueues, PlaceInv, Unsent
  <2>2. /\ \A d \in Caller : d # c => call'[d] = call[d]
        /\ kind[c] = "wire" => call'[c] = "waiting"
    BY <1>1, <1>4, Zenon DEF SendQueues, Return, QueuedResult, TypeOK
  <2>3. QED
    BY <1>1, <1>2, <2>1, <2>2, Zenon DEF ErrCInv
<1>5. CASE ~ReadErrC(c) /\ ~SendQueues(c)
  <2>1. errC' = errC
    BY <1>5, Zenon DEF Calling, SendBegin, SendGivesUp, TrySendBusy, ReadReplyC, WaitGivesUp,
       replyVars
  <2>2. \E r \in {"sending"} \cup (Returned \ {"ok"}) : Return(c, r)
    BY <1>5, Zenon DEF Calling, SendBegin, SendGivesUp, TrySendBusy, ReadReplyC, WaitGivesUp,
       ReturnAndCancel, Returned
  <2>3. \A d \in Caller : call'[d] \in {"waiting", "ok"} => call'[d] = call[d]
    BY <1>1, <2>2, Zenon DEF Return, Returned, TypeOK
  <2>4. QED
    BY <1>1, <1>2, <2>1, <2>3, Zenon DEF ErrCInv
<1>6. QED
  BY <1>3, <1>4, <1>5, Zenon

\* Every step keeps errC and what is returned from it true.
LEMMA NextKeepsErrC == MessagingInv /\ [Next]_vars => ErrCInv'
<1> SUFFICES ASSUME MessagingInv, [Next]_vars
             PROVE  ErrCInv'
  BY Zenon
<1>1. ASSUME NEW u \in Underlay, TxDrops(u) \/ TxSucceeds(u) \/ TxFails(u) \/ SetWriteTimeoutFails(u)
      PROVE  ErrCInv'
  <2>1. msg[u] # None /\ UNCHANGED <<kind, call>>
    BY <1>1, Zenon DEF TxDrops, TxSucceeds, TxFails, SetWriteTimeoutFails, MessagingInv, TypeOK,
       callVars
  <2>2. QED
    BY <1>1, <2>1, TellingKeepsErrC, Zenon DEF TxDrops, TxSucceeds, TxFails, SetWriteTimeoutFails
<1>2. CASE UNCHANGED <<kind, call, errC, fate, misuse>>
  BY <1>2, Zenon DEF MessagingInv, ErrCInv
<1>3. QED
  BY <1>1, <1>2, CallingKeepsErrC, Zenon DEF Next, Sending, TakeMessage, TxBegins, Write,
     TxRemovesWaiter, TxRequeues, SourceEnds, NotifyNothing, Expire, Cancel, RxReply, AcceptReply,
     Close, vars, callVars

-----------------------------------------------------------------------------
(* Replies *)

\* A context that has ended stays so.
LEMMA ContextStaysEnded ==
    ASSUME TypeOK, [Next]_vars, NEW c \in Caller, ctx[c] = "ended"
    PROVE  ctx'[c] = "ended"
<1> USE DEF TypeOK, callVars
<1>1. ASSUME NEW d \in Caller, Calling(d)
      PROVE  ctx'[c] = "ended"
  <2>1. UNCHANGED ctx \/ \E r \in Returned : ReturnAndCancel(d, r)
                      \/ ctx' = [ctx EXCEPT ![d] = IF kind[d] = "queue" THEN "ended" ELSE @]
    BY <1>1, Zenon DEF Calling, SendBegin, SendQueues, SendGivesUp, TrySendBusy, ReadErrC,
       ReadReplyC, WaitGivesUp, Returned
  <2>2. QED
    BY <2>1, Zenon DEF ReturnAndCancel
<1>2. ASSUME NEW d \in Caller, Expire(d) \/ Cancel(d)
      PROVE  ctx'[c] = "ended"
  BY <1>2, Zenon DEF Expire, Cancel
<1>3. ASSUME NEW u \in Underlay, Sending(u) \/ SourceEnds(u) \/ SetWriteTimeoutFails(u)
      PROVE  ctx'[c] = "ended"
  <2>1. UNCHANGED ctx \/ NotifyAfterWrite(msg[u]) \/ NotifyFailed(msg[u])
    BY <1>3, Zenon DEF Sending, TakeMessage, TxDrops, TxBegins, Write, TxSucceeds, TxRemovesWaiter,
       TxRequeues, NotifyNothing, TxFails, SourceEnds, SetWriteTimeoutFails
  <2>2. QED
    BY <2>1 DEF NotifyAfterWrite, NotifyFailed
<1>4. CASE UNCHANGED ctx
  BY <1>4, ZenonT(40)
<1>5. QED
  BY <1>1, <1>2, <1>3, <1>4, Zenon DEF Next, RxReply, AcceptReply, Close, vars

\* The peer has the request, or gets it from a working underlay.
Reached(c) == fate[c] = "written" \/ \E u \in Underlay : tx[u] \in {"write", "wrote"} /\ msg[u] = c

\* The reply has a waiter to find, or has found it.
Awaited(c) == c \in waiters \cup replyC \/ \E u \in Underlay : rx[u] = c

\* A caller that goes on waiting for a reply keeps what the reply has to find: nothing but
\* the failure of its own write takes the waiter out of the map.
LEMMA NextKeepsAwaited ==
    ASSUME MessagingInv, WaiterInv, Next, NEW c \in Caller,
           kind[c] = "reply", call[c] = "waiting", call'[c] = "waiting",
           ctx[c] = "live", ~closed', Reached(c), Awaited(c)
    PROVE  Awaited(c)'
<1> USE DEF MessagingInv, TypeOK, Awaited
<1>1. ASSUME NEW d \in Caller, Calling(d)
      PROVE  Awaited(c)'
  <2>1. CASE ReadReplyC(d)
    <3>1. c # d
      BY <2>1, Zenon DEF ReadReplyC, ReturnAndCancel, Return
    <3>2. QED
      BY <2>1, <3>1, Zenon DEF ReadReplyC
  <2>2. CASE UNCHANGED replyVars
    BY <2>2, Zenon DEF replyVars
  <2>3. QED
    BY <1>1, <2>1, <2>2, Zenon DEF Calling, SendBegin, SendQueues, SendGivesUp, TrySendBusy,
       ReadErrC, WaitGivesUp
<1>2. ASSUME NEW u \in Underlay, TxRemovesWaiter(u)
      PROVE  Awaited(c)'
  <2>1. msg[u] # c
    <3> SUFFICES ASSUME msg[u] = c
                 PROVE  FALSE
      BY Zenon
    <3>1. fate[c] = "none"
      BY Zenon DEF PlaceInv, InTxer
    <3>2. PICK v \in Underlay : tx[v] \in {"write", "wrote"} /\ msg[v] = c
      BY <3>1, Zenon DEF Reached
    <3>3. v = u
      BY <3>2, MessagingAssumption DEF PlacesDistinct
    <3>4. QED
      BY <1>2, <3>2, <3>3, Zenon DEF TxRemovesWaiter
  <2>2. QED
    BY <1>2, <2>1, Zenon DEF TxRemovesWaiter
<1>3. ASSUME NEW u \in Underlay, TxBegins(u)
      PROVE  Awaited(c)'
  BY <1>3, Zenon DEF TxBegins, AddWaiter
<1>4. ASSUME NEW u \in Underlay, NEW d \in Caller, RxReply(u, d)
      PROVE  Awaited(c)'
  <2>1. c \notin overdue
    BY Zenon DEF WaiterInv
  <2>2. PICK left \in SUBSET Caller :
          /\ left = waiters \/ left = waiters \ overdue
          /\ waiters' = left \ {d}
          /\ rx' = [rx EXCEPT ![u] = IF d \in left THEN d ELSE None]
    BY <1>4, ZenonT(40) DEF RxReply
  <2>3. rx[u] = None /\ replyC' = replyC
    BY <1>4, Zenon DEF RxReply
  <2>4. CASE c \in waiters
    BY <2>1, <2>2, <2>4, Zenon
  <2>5. CASE c \in replyC
    BY <2>3, <2>5, Zenon
  <2>6. CASE \E v \in Underlay : rx[v] = c
    BY <2>2, <2>3, <2>6, MessagingAssumption, Zenon
  <2>7. QED
    BY <2>4, <2>5, <2>6, Zenon
<1>5. ASSUME NEW u \in Underlay, AcceptReply(u)
      PROVE  Awaited(c)'
  BY <1>5, Zenon DEF AcceptReply
<1>6. CASE UNCHANGED <<waiters, replyC, rx>>
  BY <1>6, Zenon
<1>7. ~Close
  BY Zenon DEF Close
<1>8. QED
  BY <1>1, <1>2, <1>3, <1>4, <1>5, <1>6, <1>7, SMTT(30)
     DEF Next, Expire, Cancel, Sending, TakeMessage, TxDrops, Write, TxSucceeds, TxRequeues,
         TxFails, SourceEnds, SetWriteTimeoutFails, replyVars

\* A request reaches the peer only from a txer that has registered its waiter.
LEMMA ReachedFromWaiter ==
    ASSUME MessagingInv, Next, NEW c \in Caller, kind[c] = "reply", ~Reached(c), Reached(c)'
    PROVE  c \in waiters'
<1> USE DEF MessagingInv, TypeOK, Reached
<1>1. ASSUME NEW u \in Underlay, TxBegins(u)
      PROVE  c \in waiters'
  <2>1. msg[u] = c
    BY <1>1, Zenon DEF TxBegins, SetTx
  <2>2. QED
    BY <1>1, <2>1, Zenon DEF TxBegins, AddWaiter
<1>2. ASSUME NEW u \in Underlay, TakeMessage(u)
      PROVE  FALSE
  BY <1>2, Zenon DEF TakeMessage, SetTx
<1>3. ASSUME NEW u \in Underlay, TxSucceeds(u)
      PROVE  FALSE
  BY <1>3, MessagingAssumption, Zenon DEF TxSucceeds, SetTx, Finish
<1>4. ASSUME NEW u \in Underlay, TxDrops(u) \/ TxFails(u) \/ SetWriteTimeoutFails(u)
      PROVE  FALSE
  <2>1. tx' = [tx EXCEPT ![u] = "source"] \/ tx' = [tx EXCEPT ![u] = "exit"]
    BY <1>4, Zenon DEF TxDrops, TxFails, SetWriteTimeoutFails, SetTx
  <2>2. \A v \in Underlay : v # u => msg'[v] = msg[v]
    BY <1>4, Zenon DEF TxDrops, TxFails, SetWriteTimeoutFails
  <2>3. Finish(msg[u], "dropped") \/ Finish(msg[u], "failed")
    BY <1>4, Zenon DEF TxDrops, TxFails, SetWriteTimeoutFails
  <2>4. fate'[c] # "written"
    BY <2>3, Zenon DEF Finish
  <2>5. \A v \in Underlay : tx'[v] \in {"write", "wrote"} => v # u /\ tx[v] = tx'[v]
    BY <2>1, ZenonT(40)
  <2>6. QED
    BY <2>2, <2>4, <2>5, Zenon
<1>5. ASSUME NEW u \in Underlay, Write(u) \/ TxRemovesWaiter(u) \/ TxRequeues(u) \/ SourceEnds(u)
      PROVE  FALSE
  <2>1. PICK l \in {"wrote", "failed", "requeue", "exit"} : tx' = [tx EXCEPT ![u] = l]
    BY <1>5, Zenon DEF Write, TxRemovesWaiter, TxRequeues, SourceEnds, SetTx
  <2>2. l = "wrote" => tx[u] = "write"
    BY <1>5, <2>1, Zenon DEF Write, TxRemovesWaiter, TxRequeues, SourceEnds, SetTx
  <2>3. fate' = fate /\ \A v \in Underlay : v # u => msg'[v] = msg[v]
    BY <1>5, Zenon DEF Write, TxRemovesWaiter, TxRequeues, SourceEnds
  <2>4. msg' = msg \/ l = "exit"
    BY <1>5, <2>1, Zenon DEF Write, TxRemovesWaiter, TxRequeues, SourceEnds, SetTx
  <2>5. QED
    BY <2>1, <2>2, <2>3, <2>4, Zenon
<1>6. CASE UNCHANGED <<fate, txVars>>
  BY <1>6, Zenon DEF txVars
<1>7. QED
  BY <1>1, <1>2, <1>3, <1>4, <1>5, <1>6, SMTT(30)
     DEF Next, Calling, SendBegin, SendQueues, SendGivesUp, TrySendBusy, ReadErrC, ReadReplyC,
         WaitGivesUp, Expire, Cancel, Sending, RxReply, AcceptReply, Close

\* With deadlines, every step keeps the waiters that replies have to find.
LEMMA NextKeepsWaiters ==
    Deadlines /\ MessagingInv /\ WaiterInv /\ [Next]_vars => WaiterInv'
<1> SUFFICES ASSUME Deadlines, MessagingInv, WaiterInv, [Next]_vars
             PROVE  WaiterInv'
  BY Zenon
<1>1. TypeOK
  BY Zenon DEF MessagingInv
<1>2. ASSUME NEW c \in overdue'
      PROVE  ctx'[c] = "ended"
  <2>1. c \in Caller
    BY <1>1, NextKeepsType, Zenon DEF TypeOK
  <2>2. CASE c \in overdue
    BY <1>1, <2>1, <2>2, ContextStaysEnded, Zenon DEF WaiterInv
  <2>3. CASE c \notin overdue
    <3>1. Expire(c)
      BY <1>2, <2>3, SMTT(30) DEF Next, Calling, SendBegin, SendQueues, SendGivesUp, TrySendBusy, ReadErrC,
                        ReadReplyC, WaitGivesUp, Expire, Cancel, Sending, TakeMessage, TxDrops,
                        TxBegins, Write, TxSucceeds, TxRemovesWaiter, TxRequeues, TxFails,
                        SourceEnds, SetWriteTimeoutFails, RxReply, AcceptReply, Close, vars,
                        replyVars
    <3>2. QED
      BY <1>1, <2>1, <3>1, ZenonT(40) DEF Expire, TypeOK
  <2>4. QED
    BY <2>2, <2>3, Zenon
<1>3. ASSUME NEW c \in Caller, kind'[c] = "reply", call'[c] = "waiting", ctx'[c] = "live",
             ~closed', Reached(c)'
      PROVE  Awaited(c)'
  <2>1. ctx[c] = "live"
    BY <1>1, <1>3, ContextStaysEnded, Zenon DEF TypeOK
  <2>2. CASE UNCHANGED vars
    BY <1>3, <2>2, Zenon DEF vars, callVars, txVars, replyVars, WaiterInv, Reached, Awaited
  <2>3. CASE Next
    <3>1. ~closed
      BY <1>3, <2>3, ZenonT(40) DEF Next, Calling, SendBegin, SendQueues, SendGivesUp, TrySendBusy, ReadErrC,
                        ReadReplyC, WaitGivesUp, Expire, Cancel, Sending, TakeMessage, TxDrops,
                        TxBegins, Write, TxSucceeds, TxRemovesWaiter, TxRequeues, TxFails,
                        SourceEnds, SetWriteTimeoutFails, RxReply, AcceptReply, Close
    <3>2. kind' = kind
      BY <2>3, ZenonT(40) DEF Next, Calling, SendBegin, SendQueues, SendGivesUp, TrySendBusy, ReadErrC,
                  ReadReplyC, WaitGivesUp, Expire, Cancel, Sending, TakeMessage, TxDrops,
                  TxBegins, Write, TxSucceeds, TxRemovesWaiter, TxRequeues, TxFails,
                  SourceEnds, SetWriteTimeoutFails, RxReply, AcceptReply, Close, callVars
    <3>3. CASE Reached(c)
      <4>1. call[c] = "waiting"
        <5>1. ~Unsent(c)
          BY <3>3 DEF MessagingInv, PlaceInv, Reached, InTxer
        <5>2. CASE call' = call
          BY <1>3, <5>2, Zenon
        <5>3. ASSUME NEW d \in Caller, NEW r, Return(d, r), d = c => r # "waiting"
              PROVE  call[c] = "waiting"
          BY <1>1, <1>3, <5>3, Zenon DEF Return, TypeOK
        <5>4. ASSUME NEW d \in Caller, Calling(d)
              PROVE  call[c] = "waiting"
          <6>1. CASE SendQueues(d)
            BY <5>1, <5>3, <6>1, Zenon DEF SendQueues, Unsent
          <6>2. CASE ~SendQueues(d)
            BY <5>3, <5>4, <6>2, Zenon DEF Calling, SendBegin, SendGivesUp, TrySendBusy, ReadErrC,
               ReadReplyC, WaitGivesUp, ReturnAndCancel
          <6>3. QED
            BY <6>1, <6>2, Zenon
        <5>5. QED
          BY <2>3, <5>2, <5>4, Zenon DEF Next, Expire, Cancel, Sending, TakeMessage, TxDrops,
             TxBegins, Write, TxSucceeds, TxRemovesWaiter, TxRequeues, TxFails, SourceEnds,
             SetWriteTimeoutFails, RxReply, AcceptReply, Close, callVars
      <4>2. Awaited(c)
        BY <1>3, <2>1, <3>1, <3>2, <3>3, <4>1, Zenon DEF WaiterInv, Reached, Awaited
      <4>3. QED
        BY <1>3, <2>1, <2>3, <3>2, <3>3, <4>1, <4>2, NextKeepsAwaited, Zenon
    <3>4. CASE ~Reached(c)
      BY <1>3, <2>3, <3>2, <3>4, ReachedFromWaiter, Zenon DEF Awaited
    <3>5. QED
      BY <3>3, <3>4, ZenonT(40)
  <2>4. QED
    BY <2>2, <2>3, Zenon
<1>4. QED
  BY <1>2, <1>3, Zenon DEF WaiterInv, Reached, Awaited

-----------------------------------------------------------------------------
(* What follows *)

\* A channel begins with nothing sent.
LEMMA InitMessaging == Init => MessagingInv /\ WaiterInv
<1> SUFFICES ASSUME Init
             PROVE  MessagingInv /\ WaiterInv
  BY Zenon
<1> USE MessagingAssumption
<1>1. TypeOK
  <2>1. queue \in Seq(Caller) /\ Len(queue) <= QueueSize /\ atPeer \in [Caller -> Nat]
    BY DEF Init
  <2>2. errC \in [Caller -> ErrC]
    BY Zenon DEF Init, ErrC
  <2>3. \A u \in Underlay : tx[u] = "source"
    BY Zenon DEF Init
  <2>4. QED
    BY <2>1, <2>2, <2>3, Zenon DEF Init, TypeOK
<1>2. PlacesDistinct
  BY DEF Init, PlacesDistinct
<1>3. PlaceInv
  BY DEF Init, PlaceInv, Unsent, InQueue, InTxer, Returned
<1>4. ErrCInv
  BY Zenon DEF Init, ErrCInv
<1>5. WaiterInv
  BY Zenon DEF Init, WaiterInv
<1>6. QED
  BY <1>1, <1>2, <1>3, <1>4, <1>5, Zenon DEF MessagingInv

\* The invariant holds in every reachable state.
LEMMA MessagingInvariant == Spec => []MessagingInv
<1>1. Init => MessagingInv
  BY InitMessaging, Zenon
<1>2. MessagingInv /\ [Next]_vars => MessagingInv'
  BY NextKeepsPlaces, NextKeepsErrC, Zenon DEF MessagingInv, PlacesInv
<1>3. QED
  BY <1>1, <1>2, PTL DEF Spec

\* The number of places a message is in, counted.
LEMMA CountPlaces ==
    ASSUME MessagingInv, NEW c \in Caller
    PROVE  Occurrences(c) = IF InQueue(c) \/ InTxer(c) THEN 1 ELSE 0
<1> DEFINE Q == {i \in DOMAIN queue : queue[i] = c}
           T == {u \in Underlay : msg[u] = c}
<1>1. DOMAIN queue = 1..Len(queue)
  BY DEF MessagingInv, TypeOK
<1>2. Cardinality(Q) = IF InQueue(c) THEN 1 ELSE 0
  <2>1. CASE InQueue(c)
    <3>1. PICK i \in 1..Len(queue) : queue[i] = c
      BY <2>1, Zenon DEF InQueue
    <3>2. Q = {i}
      BY <1>1, <3>1, Zenon DEF MessagingInv, PlacesDistinct
    <3>3. QED
      BY <2>1, <3>2, FS_Singleton, Zenon
  <2>2. CASE ~InQueue(c)
    <3>1. Q = {}
      BY <1>1, <2>2, Zenon DEF InQueue
    <3>2. QED
      BY <2>2, <3>1, FS_EmptySet, Zenon
  <2>3. QED
    BY <2>1, <2>2, Zenon
<1>3. Cardinality(T) = IF InTxer(c) THEN 1 ELSE 0
  <2>1. CASE InTxer(c)
    <3>1. PICK u \in Underlay : msg[u] = c
      BY <2>1, Zenon DEF InTxer
    <3>2. T = {u}
      BY <3>1, MessagingAssumption DEF MessagingInv, PlacesDistinct
    <3>3. QED
      BY <2>1, <3>2, FS_Singleton, Zenon
  <2>2. CASE ~InTxer(c)
    <3>1. T = {}
      BY <2>2, Zenon DEF InTxer
    <3>2. QED
      BY <2>2, <3>1, FS_EmptySet, Zenon
  <2>3. QED
    BY <2>1, <2>2, Zenon
<1>4. ~(InQueue(c) /\ InTxer(c))
  BY Zenon DEF MessagingInv, PlaceInv
<1>5. Occurrences(c) = Cardinality(Q) + Cardinality(T)
  BY Zenon DEF Occurrences
<1> HIDE DEF Q, T
<1>6. QED
  BY <1>2, <1>3, <1>4, <1>5

\* The state of the calls, the queue, the txers and the waiters has its type; the queue
\* never holds more than its capacity, and a txer past the message source has a message.
THEOREM TypeCorrect == Spec => []TypeOK
<1>1. MessagingInv => TypeOK
  BY Zenon DEF MessagingInv
<1>2. QED
  BY <1>1, MessagingInvariant, PTL

\* impl.go's tx and RetryToQueues.  A queued message is in the queue or with one txer until it
\* is written, failed or dropped, and a message is never in two places.
THEOREM MessagesInOnePlace == Spec => []MessageInOnePlace
<1>1. MessagingInv => MessageInOnePlace
  <2> SUFFICES ASSUME MessagingInv, NEW c \in Caller
               PROVE  /\ Occurrences(c) <= 1
                      /\ fate[c] # "none" => Occurrences(c) = 0
                      /\ call[c] \in {"waiting", "ok"} /\ fate[c] = "none" => Occurrences(c) = 1
    BY Zenon DEF MessageInOnePlace
  <2>1. QED
    BY CountPlaces DEF MessagingInv, PlaceInv
<1>2. QED
  BY <1>1, MessagingInvariant, PTL

\* envelope.go:147-153, 208-210.  No txer sends on an errC that is full or closed, and none
\* closes it twice, however often the message is requeued.
THEOREM ErrCNotMisused == Spec => []NoErrCMisuse
<1>1. MessagingInv => NoErrCMisuse
  BY Zenon DEF MessagingInv, ErrCInv, NoErrCMisuse
<1>2. QED
  BY <1>1, MessagingInvariant, PTL

\* channel.go:79-80, 147-150.  A SendAndWaitForWire that returns nil has had its message
\* written; a Send, TrySend or SendAndWaitForQueue that does not succeed has sent nothing.
THEOREM ReturnsAreTrue == Spec => []ReturnIsTrue
<1>1. MessagingInv => ReturnIsTrue
  <2> SUFFICES ASSUME MessagingInv, NEW c \in Caller
               PROVE  /\ kind[c] = "wire" /\ call[c] = "ok" => fate[c] = "written"
                      /\ kind[c] \in {"send", "trySend", "queue"} /\ call[c] \in Returned \ {"ok"} =>
                            Occurrences(c) = 0 /\ fate[c] = "none" /\ atPeer[c] = 0
    BY Zenon DEF ReturnIsTrue
  <2>1. kind[c] = "wire" /\ call[c] = "ok" => fate[c] = "written"
    BY Zenon DEF MessagingInv, ErrCInv
  <2>2. ASSUME kind[c] \in {"send", "trySend", "queue"}, call[c] \in Returned \ {"ok"}
        PROVE  Occurrences(c) = 0 /\ fate[c] = "none" /\ atPeer[c] = 0
    <3>1. ~InQueue(c) /\ ~InTxer(c) /\ fate[c] = "none" /\ atPeer[c] = 0
      BY <2>2, Zenon DEF MessagingInv, PlaceInv, Unsent
    <3>2. QED
      BY <3>1, CountPlaces, Zenon
  <2>3. QED
    BY <2>1, <2>2, Zenon
<1>2. QED
  BY <1>1, MessagingInvariant, PTL

\* impl.go's tx, rx and waiterMap.reapExpired.  When contexts have deadlines, a caller that
\* waits for the reply to a request which a txer has written finds it: its waiter is in the
\* map, or its reply is on the way to it.
THEOREM RepliesFindWaiters ==
    ASSUME Deadlines
    PROVE  Spec => []ReplyFindsWaiter
<1>1. Init => WaiterInv
  BY InitMessaging, Zenon
<1>2. MessagingInv /\ WaiterInv /\ [Next]_vars => WaiterInv'
  BY NextKeepsWaiters, Zenon
<1>3. WaiterInv => ReplyFindsWaiter
  BY Zenon DEF WaiterInv, ReplyFindsWaiter
<1>4. QED
  BY <1>1, <1>2, <1>3, MessagingInvariant, PTL DEF Spec

=============================================================================
