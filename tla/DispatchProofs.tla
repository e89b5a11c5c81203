--------------------------- MODULE DispatchProofs ---------------------------
(***************************************************************************)
(* Proofs about Dispatch and the WaiterMap in it, for any numbers of       *)
(* underlays, requests and closers, any plans of the bind handlers and any *)
(* messages of the peer.                                                   *)
(***************************************************************************)
EXTENDS Dispatch, FiniteSetTheorems, TLAPS

-----------------------------------------------------------------------------
(* Sequences *)

\* What Append, Head and Tail give.
LEMMA AppendInSeq ==
    ASSUME NEW S, NEW s \in Seq(S), NEW x \in S
    PROVE  Append(s, x) \in Seq(S) /\ Append(s, x) # <<>>
<1>1. Append(s, x) \in Seq(S)
  OBVIOUS
<1>2. Len(Append(s, x)) = Len(s) + 1 /\ Len(s) \in Nat
  OBVIOUS
<1>3. Len(Append(s, x)) # Len(<<>>)
  BY <1>2
<1>4. QED
  BY <1>1, <1>3, Zenon

LEMMA AppendToEmpty ==
    ASSUME NEW x
    PROVE  Append(<<>>, x) = <<x>> /\ <<x>> # <<>>
  OBVIOUS

LEMMA HeadAndTail ==
    ASSUME NEW S, NEW s \in Seq(S), s # <<>>
    PROVE  /\ Head(s) \in S /\ Tail(s) \in Seq(S)
           /\ 1 \in 1..Len(s) /\ Head(s) = s[1]
           /\ \A i \in 1..Len(Tail(s)) : i + 1 \in 1..Len(s) /\ Tail(s)[i] = s[i + 1]
  OBVIOUS

LEMMA SeqElement ==
    ASSUME NEW S, NEW s \in Seq(S), NEW i \in 1..Len(s)
    PROVE  s[i] \in S
  OBVIOUS

LEMMA SeqOfFunction ==
    ASSUME NEW S, NEW n \in Nat, NEW f \in [1..n -> S]
    PROVE  f \in Seq(S)
  OBVIOUS

-----------------------------------------------------------------------------
(* Close *)

CloseTypes ==
    /\ channel \in {"binding", "open", "failed"}
    /\ onClose \in Seq(Nat)
    /\ closer \in [Closer -> {"idle", "close", "clear", "done"}]
    /\ lock \in Closer \cup {None}
    /\ closed \in BOOLEAN
    /\ conn \in [Underlay -> {"new", "up", "closed"}]
    /\ rxer \in [Underlay -> {"none", "rx", "reply", "reap", "remove", "accept", "dispatch", "handler", "exit"}]

\* Who is past flagClosed holds the lock until the underlays are closed.  Before the channel is
\* open only NewChannel knows it.
CloseInv ==
    /\ \A c \in Closer : closer[c] = "clear" <=> lock = c
    /\ \A c \in Closer : closer[c] = "done" => lock = None
    /\ closed <=> \E c \in Closer : closer[c] \in {"clear", "done"}
    /\ \A i \in DOMAIN onClose : onClose[i] = IF closed THEN 1 ELSE 0
    /\ closed /\ lock = None => \A u \in Underlay : conn[u] # "up"
    /\ channel = "binding" =>
          /\ \A u \in Underlay : conn[u] = "new" /\ rxer[u] = "none"
          /\ \A c \in Closer \ {Creator} : closer[c] = "idle"
    /\ channel = "failed" => conn[First] = "closed" /\ \A u \in Underlay : rxer[u] = "none"

\* The steps that neither close nor open anything.
LEMMA QuietForClose ==
    ASSUME DNext,
           ~BindStep, \A c \in Closer : ~CloseCalled(c) /\ ~CloseBegins(c) /\ ~CloseUnderlays(c),
           \A u \in Underlay : ~AcceptUnderlay(u)
    PROVE  /\ UNCHANGED <<channel, closeVars>>
           /\ \/ rxer' = rxer
              \/ \E u \in Underlay, pc \in {"rx", "reply", "reap", "remove", "accept", "dispatch", "handler", "exit"} :
                    rxer[u] # "none" /\ At(u, pc)
           /\ \/ conn' = conn
              \/ \E u \in Underlay : conn[u] # "new" /\ conn' = [conn EXCEPT ![u] = "closed"]
<1>1. ASSUME NEW c \in Closer, ClearWaiters(c)
      PROVE  UNCHANGED <<channel, closeVars, rxer, conn>>
  BY <1>1, Zenon DEF ClearWaiters, bindVars, rxVars
<1>2. ASSUME NEW u \in Underlay, ConnLost(u) \/ PeerSends(u) \/ PeerReplies(u)
      PROVE  /\ UNCHANGED <<channel, closeVars, rxer>>
             /\ \/ conn' = conn
                \/ conn[u] # "new" /\ conn' = [conn EXCEPT ![u] = "closed"]
  BY <1>2, Zenon DEF ConnLost, PeerSends, PeerReplies, bindVars, rxVars
<1>3. ASSUME NEW u \in Underlay, RxStep(u)
      PROVE  /\ UNCHANGED <<channel, closeVars, conn>>
             /\ \/ rxer' = rxer
                \/ \E pc \in {"rx", "reply", "reap", "remove", "accept", "dispatch", "handler", "exit"} :
                      rxer[u] # "none" /\ At(u, pc)
  BY <1>3, Zenon DEF RxStep, RxerReads, RxerExits, RxReply, RxReaps, RemoveWaiter, AcceptReply,
     rxHandler, HandleReceive, HandlerReturns, bindVars
<1>4. ASSUME NEW k \in Key, TxStep(k) \/ CallEnds(k) \/ Expires(k)
      PROVE  /\ UNCHANGED <<channel, closeVars, rxer>>
             /\ \/ conn' = conn
                \/ \E u \in Underlay : conn[u] # "new" /\ conn' = [conn EXCEPT ![u] = "closed"]
  BY <1>4, Zenon DEF TxStep, TxDrops, TxAddsWaiter, TxWrites, SetWriteTimeoutFails, TxFails,
     HandleTxFailed, NotifyErr, TxerEnds, CallEnds, Expires, dispatchOnly, bindVars, rxVars
<1>5. QED
  BY <1>1, <1>2, <1>3, <1>4, Zenon DEF DNext, CloseStep

LEMMA NextKeepsCloseTypes ==
    ASSUME CloseTypes, DNext
    PROVE  CloseTypes'
<1>1. CASE BindStep \/ \E u \in Underlay : AcceptUnderlay(u)
  <2>1. CASE BindChannel
    <3>1. onClose' \in Seq(Nat)
      BY <2>1, AppendInSeq DEF CloseTypes, BindChannel
    <3>2. QED
      BY <2>1, <3>1, Zenon DEF CloseTypes, BindChannel, rxVars
  <2>2. CASE BindFails \/ BindFailed
    BY <2>2, DispatchAssumption, Zenon DEF CloseTypes, BindFails, BindFailed, closeVars, bindVars, rxVars
  <2>3. CASE Started
    BY <2>3, DispatchAssumption, Zenon DEF CloseTypes, Started, startMultiplex, closeVars
  <2>4. ASSUME NEW u \in Underlay, AcceptUnderlay(u)
        PROVE  CloseTypes'
    BY <2>4, Zenon DEF CloseTypes, AcceptUnderlay, startMultiplex, closeVars, bindVars
  <2>5. QED
    BY <1>1, <2>1, <2>2, <2>3, <2>4, Zenon DEF BindStep
<1>2. ASSUME NEW c \in Closer, CloseCalled(c) \/ CloseUnderlays(c)
      PROVE  CloseTypes'
  BY <1>2, Zenon DEF CloseTypes, CloseCalled, CloseUnderlays, bindVars, rxVars
<1>3. ASSUME NEW c \in Closer, CloseBegins(c)
      PROVE  CloseTypes'
  <2>1. onClose' \in Seq(Nat)
    <3>1. onClose \in Seq(Nat) /\ DOMAIN onClose = 1..Len(onClose) /\ Len(onClose) \in Nat
      BY DEF CloseTypes
    <3>2. onClose' = onClose \/ onClose' \in [1..Len(onClose) -> Nat]
      BY <1>3, <3>1 DEF CloseBegins
    <3>3. QED
      BY <3>1, <3>2, SeqOfFunction, Zenon
  <2>2. closer' \in [Closer -> {"idle", "close", "clear", "done"}] /\ lock' \in Closer \cup {None}
    BY <1>3, Zenon DEF CloseTypes, CloseBegins
  <2>3. closed' \in BOOLEAN
    BY <1>3, Zenon DEF CloseTypes, CloseBegins
  <2>4. UNCHANGED <<channel, conn, rxer>>
    BY <1>3, Zenon DEF CloseBegins, bindVars, rxVars
  <2>5. QED
    BY <2>1, <2>2, <2>3, <2>4, Zenon DEF CloseTypes
<1>4. CASE ~BindStep /\ (\A c \in Closer : ~CloseCalled(c) /\ ~CloseBegins(c) /\ ~CloseUnderlays(c))
           /\ \A u \in Underlay : ~AcceptUnderlay(u)
  BY <1>4, QuietForClose DEF CloseTypes, closeVars, At
<1>5. QED
  BY <1>1, <1>2, <1>3, <1>4, Zenon

LEMMA NextKeepsClose ==
    ASSUME CloseTypes, CloseInv, DNext
    PROVE  CloseInv'
<1>0. closed \in BOOLEAN /\ None \notin Closer /\ Creator \in Closer /\ First \in Underlay
  BY DispatchAssumption, Zenon DEF CloseTypes
<1>1. CASE BindChannel
  <2>1. ~closed
    BY <1>0, <1>1, Zenon DEF CloseInv, BindChannel, CloseTypes
  <2>2. \A i \in DOMAIN onClose' : onClose'[i] = 0
    BY <1>1, <2>1 DEF CloseInv, BindChannel, CloseTypes
  <2>3. UNCHANGED <<channel, closer, lock, closed, conn, rxer>>
    BY <1>1, Zenon DEF BindChannel, rxVars
  <2>4. QED
    BY <2>1, <2>2, <2>3, Zenon DEF CloseInv
<1>2. CASE BindFails
  BY <1>0, <1>2, ZenonT(40) DEF CloseInv, CloseTypes, BindFails, bindVars, rxVars
<1>3. CASE BindFailed
  <2>1. lock = None
    BY <1>0, <1>3, Zenon DEF CloseInv, CloseTypes, BindFailed
  <2>2. UNCHANGED <<onClose, closer, lock, closed, rxer>> /\ channel' = "failed"
    BY <1>3, Zenon DEF BindFailed, closeVars, rxVars
  <2>3. conn'[First] = "closed" /\ \A u \in Underlay : conn'[u] # "up"
    BY <1>0, <1>3, Zenon DEF BindFailed, CloseInv, CloseTypes
  <2>4. \A u \in Underlay : rxer'[u] = "none"
    BY <1>3, <2>2, Zenon DEF BindFailed, CloseInv
  <2>5. QED
    BY <2>2, <2>3, <2>4, Zenon DEF CloseInv
<1>4. CASE Started
  <2>1. ~closed
    BY <1>0, <1>4, Zenon DEF CloseInv, Started, CloseTypes
  <2>2. UNCHANGED <<onClose, closer, lock, closed>> /\ channel' = "open"
    BY <1>4, Zenon DEF Started, closeVars
  <2>3. QED
    BY <2>1, <2>2, Zenon DEF CloseInv
<1>5. ASSUME NEW u \in Underlay, AcceptUnderlay(u)
      PROVE  CloseInv'
  <2>1. UNCHANGED <<onClose, closer, lock, closed, channel>> /\ channel = "open"
    BY <1>5, Zenon DEF AcceptUnderlay, closeVars, bindVars
  <2>2. closed /\ lock = None => \A v \in Underlay : conn'[v] # "up"
    BY <1>5 DEF AcceptUnderlay, CloseInv, CloseTypes
  <2>3. QED
    BY <2>1, <2>2, Zenon DEF CloseInv
<1>6. ASSUME NEW c \in Closer, CloseCalled(c)
      PROVE  CloseInv'
  BY <1>6 DEF CloseInv, CloseTypes, CloseCalled, bindVars, rxVars
<1>7. ASSUME NEW c \in Closer, CloseBegins(c)
      PROVE  CloseInv'
  <2>1. UNCHANGED <<channel, conn, rxer>> /\ (channel = "binding" => c = Creator)
    BY <1>7, Zenon DEF CloseBegins, bindVars, rxVars, CloseInv
  <2>2. CASE closed
    BY <1>0, <1>7, <2>1, <2>2 DEF CloseInv, CloseTypes, CloseBegins, AlreadyClosed
  <2>3. CASE ~closed
    <3>1. /\ closer' = [closer EXCEPT ![c] = "clear"] /\ lock' = c /\ closed' /\ lock = None
          /\ onClose' = [i \in DOMAIN onClose |-> onClose[i] + 1]
      BY <1>7, <2>3, Zenon DEF CloseBegins, AlreadyClosed
    <3>2. \A i \in DOMAIN onClose' : onClose'[i] = 1
      BY <2>3, <3>1 DEF CloseInv
    <3>3. closer'[c] = "clear" /\ \A d \in Closer \ {c} : closer'[d] = closer[d]
      BY <3>1, Zenon DEF CloseTypes
    <3>4. \A d \in Closer : closer[d] \notin {"clear", "done"}
      BY <2>3, Zenon DEF CloseInv
    <3>5. /\ \A d \in Closer : closer'[d] = "clear" <=> lock' = d
          /\ \A d \in Closer : closer'[d] = "done" => lock' = None
      BY <1>7, <3>1, <3>3, <3>4, Zenon
    <3>6. closed' <=> \E d \in Closer : closer'[d] \in {"clear", "done"}
      BY <3>1, <3>3, Zenon
    <3>7. \A i \in DOMAIN onClose' : onClose'[i] = IF closed' THEN 1 ELSE 0
      BY <3>1, <3>2, Zenon
    <3>8. closed' /\ lock' = None => \A u \in Underlay : conn'[u] # "up"
      BY <1>0, <1>7, <3>1, Zenon
    <3>9. channel' = "binding" =>
            /\ \A u \in Underlay : conn'[u] = "new" /\ rxer'[u] = "none"
            /\ \A d \in Closer \ {Creator} : closer'[d] = "idle"
      <4>1. channel = "binding" =>
              /\ \A u \in Underlay : conn[u] = "new" /\ rxer[u] = "none"
              /\ \A d \in Closer \ {Creator} : closer[d] = "idle"
        BY Zenon DEF CloseInv
      <4>2. QED
        BY <2>1, <3>3, <4>1, Zenon
    <3>10. channel' = "failed" => conn'[First] = "closed" /\ \A u \in Underlay : rxer'[u] = "none"
      BY <2>1, Zenon DEF CloseInv
    <3>11. QED
      BY <3>5, <3>6, <3>7, <3>8, <3>9, <3>10, Zenon DEF CloseInv
  <2>4. QED
    BY <2>2, <2>3, Zenon
<1>8. ASSUME NEW c \in Closer, CloseUnderlays(c)
      PROVE  CloseInv'
  <2>1. UNCHANGED <<onClose, closed, channel, rxer>> /\ closed /\ lock = c /\ lock' = None
    BY <1>8, Zenon DEF CloseUnderlays, bindVars, rxVars, CloseInv
  <2>2. \A u \in Underlay : conn'[u] # "up" /\ (conn[u] \in {"new", "closed"} => conn'[u] = conn[u])
    BY <1>8, Zenon DEF CloseUnderlays
  <2>3. closer' = [closer EXCEPT ![c] = "done"] /\ (channel = "binding" => c = Creator)
    BY <1>8, Zenon DEF CloseUnderlays, CloseInv
  <2>4. QED
    BY <1>0, <2>1, <2>2, <2>3 DEF CloseInv, CloseTypes
<1>9. CASE ~BindStep /\ (\A c \in Closer : ~CloseCalled(c) /\ ~CloseBegins(c) /\ ~CloseUnderlays(c))
           /\ \A u \in Underlay : ~AcceptUnderlay(u)
  BY <1>0, <1>9, QuietForClose DEF CloseInv, CloseTypes, closeVars, At
<1>10. QED
  BY <1>1, <1>2, <1>3, <1>4, <1>5, <1>6, <1>7, <1>8, <1>9, Zenon DEF BindStep

LEMMA InitClose == DInit => CloseTypes /\ CloseInv
<1> SUFFICES ASSUME DInit
             PROVE  CloseTypes /\ CloseInv
  BY Zenon
<1>1. /\ channel = "binding" /\ onClose = <<>> /\ closer = [c \in Closer |-> "idle"] /\ lock = None /\ ~closed
      /\ closed \in BOOLEAN
      /\ conn = [u \in Underlay |-> "new"] /\ rxer = [u \in Underlay |-> "none"]
  BY Zenon DEF DInit
<1>2. onClose \in Seq(Nat) /\ DOMAIN onClose = {}
  BY <1>1
<1>3. CloseTypes
  BY <1>1, <1>2, Zenon DEF CloseTypes
<1>4. CloseInv
  BY <1>1, <1>2, DispatchAssumption, Zenon DEF CloseInv
<1>5. QED
  BY <1>3, <1>4, Zenon

\* impl.go:488-522 and NewChannel.  The first of any number of goroutines in Close runs every
\* close handler once and closes every underlay before any of them returns.  When a bind handler
\* fails, NewChannel's underlay is closed and was never read.
THEOREM ChannelClosedOnce == DSpec => []ClosedOnce
<1>1. CloseTypes /\ CloseInv /\ [DNext]_dvars => CloseTypes' /\ CloseInv'
  <2>1. CloseTypes /\ CloseInv /\ UNCHANGED dvars => CloseTypes' /\ CloseInv'
    BY DEF dvars, bindVars, closeVars, rxVars, CloseTypes, CloseInv
  <2>2. QED
    BY <2>1, NextKeepsCloseTypes, NextKeepsClose, Zenon
<1>2. CloseTypes /\ CloseInv => ClosedOnce
  <2> SUFFICES ASSUME CloseTypes, CloseInv
               PROVE  ClosedOnce
    BY Zenon
  <2>1. ASSUME NEW c \in Closer, closer[c] = "done"
        PROVE  closed
    BY <2>1, Zenon DEF CloseInv
  <2>2. QED
    BY <2>1, DispatchAssumption DEF CloseTypes, CloseInv, ClosedOnce
<1>3. QED
  BY <1>1, <1>2, InitClose, PTL DEF DSpec

-----------------------------------------------------------------------------
(* What the rxers have *)

Messages == config.incoming \cup Replies
Takers == {"waiter", "any", "dropped"} \cup {msg.type : msg \in Messages}

\* The rxer of u has a message that it has yet to give to anyone.
Holds(u) == rxer[u] \in {"reply", "reap", "remove", "accept", "dispatch"}

CallAt == {"idle", "waiting", "replied", "error", "timeout", "closed"}
OutAt == {"none", "queued", "stored", "added", "failing", "sent", "failed", "notified"}
Tries == [Key -> 0..config.requeues]

RxTypes ==
    /\ config \in Configs
    /\ inbox \in [Underlay -> Seq(Messages)]
    /\ unsent \subseteq config.incoming /\ asked \subseteq Replies
    /\ cur \in [Underlay -> Messages \cup {None}]
    /\ \A u \in Underlay : Holds(u) => cur[u] \in Messages
    /\ \A u \in Underlay : rxer[u] \in {"reply", "reap", "remove", "accept"} => cur[u].type = "reply"
    /\ call \in [Key -> CallAt]
    /\ out \in [Key -> OutAt]
    /\ tries \in Tries
    /\ taken \in [Messages -> Seq(Takers)]

\* These sets depend on nothing but the configuration.
SameSets == Messages' = Messages /\ Replies' = Replies /\ Takers' = Takers /\ Tries' = Tries

LEMMA SameConfig ==
    ASSUME config' = config
    PROVE  SameSets
<1>1. Replies' = Replies
  BY DEF Replies
<1>2. QED
  BY <1>1, Zenon DEF SameSets, Messages, Takers, Tries

LEMMA ReplyIn ==
    ASSUME NEW k \in Key, NEW n \in 0..config.requeues
    PROVE  Reply(k, n) \in Replies
  BY DEF Replies

IsReply(msg) == msg.key \in Key /\ msg.try \in 0..config.requeues /\ msg = Reply(msg.key, msg.try)

\* A message is a reply or one of the peer's own.
LEMMA MessageTypes ==
    ASSUME config \in Configs, NEW msg \in Messages
    PROVE  /\ msg.type = "reply" <=> msg \in Replies
           /\ msg.type = "reply" => IsReply(msg)
           /\ msg.type = "ask" => msg.key \in Key /\ msg = Message("ask", msg.key) /\ msg \in config.incoming
           /\ msg.type \notin {"any", "dropped"}
           /\ msg.type \in Takers
<1>1. ASSUME msg \in Replies
      PROVE  msg.type = "reply" /\ IsReply(msg)
  <2>1. PICK k \in Key, n \in 0..config.requeues : msg = Reply(k, n)
    BY <1>1 DEF Replies
  <2>2. msg.type = "reply" /\ msg.key = k /\ msg.try = n
    BY <2>1, Zenon DEF Reply
  <2>3. QED
    BY <2>1, <2>2, Zenon DEF IsReply
<1>2. ASSUME msg \in config.incoming
      PROVE  /\ msg.type \notin {"reply", "any", "dropped"}
             /\ msg.type = "ask" => msg.key \in Key /\ msg = Message("ask", msg.key)
  BY <1>2, ConfigsAssumption DEF Message
<1>3. msg.type \in Takers
  BY Zenon DEF Takers
<1>4. QED
  BY <1>1, <1>2, <1>3 DEF Messages

\* The peer may have been sent what the reply answers.
Made(k, n) == n < tries[k] \/ (n = tries[k] /\ out[k] \in {"failing", "sent", "failed", "notified"})

\* The steps that move no message and begin no call.
QuietStep ==
    /\ UNCHANGED <<config, inbox, unsent, asked, cur, taken>>
    /\ \A u \in Underlay :
          \/ rxer'[u] = rxer[u]
          \/ rxer'[u] \in {"rx", "exit"}
          \/ rxer[u] \in {"reply", "reap"} /\ rxer'[u] \in {"reap", "remove"}
    /\ call' \in [Key -> CallAt] /\ out' \in [Key -> OutAt] /\ tries' \in Tries
    /\ \A k \in Key : call'[k] = "waiting" => call[k] = "waiting"
    /\ \A k \in Key : out'[k] = "none" <=> out[k] = "none"
    /\ \A k \in Key, n \in 0..config.requeues : Made(k, n) => Made(k, n)'

\* tx of request k, other than the write.
LEMMA TxIsQuiet ==
    ASSUME CloseTypes, RxTypes, NEW k \in Key,
           TxDrops(k) \/ TxAddsWaiter(k) \/ SetWriteTimeoutFails(k) \/ TxFails(k) \/ HandleTxFailed(k)
                \/ NotifyErr(k)
    PROVE  QuietStep
<1>1. UNCHANGED <<config, inbox, unsent, asked, cur, taken, rxer>>
  BY Zenon DEF TxDrops, TxAddsWaiter, SetWriteTimeoutFails, TxFails, HandleTxFailed, NotifyErr,
     dispatchOnly, bindVars, rxVars
<1>2. /\ call' \in [Key -> CallAt]
      /\ \A j \in Key : call'[j] = "waiting" => call[j] = "waiting"
  <2>1. call' = call \/ Ended(k, "timeout") \/ Ended(k, "error")
    BY Zenon DEF TxDrops, TxAddsWaiter, SetWriteTimeoutFails, TxFails, HandleTxFailed, NotifyErr
  <2>2. QED
    BY <2>1, Zenon DEF Ended, RxTypes, CallAt
<1>3. CASE ~HandleTxFailed(k)
  <2>1. PICK pc \in OutAt \ {"none"} :
           /\ out' = [out EXCEPT ![k] = pc] /\ tries' = tries /\ out[k] # "none"
           /\ out[k] \in {"failing", "sent", "failed", "notified"} => pc \in {"failing", "sent", "failed", "notified"}
    BY <1>3, Zenon DEF TxDrops, TxAddsWaiter, SetWriteTimeoutFails, TxFails, NotifyErr, OutAt
  <2>2. out'[k] = pc /\ \A j \in Key \ {k} : out'[j] = out[j]
    BY <2>1, Zenon DEF RxTypes
  <2>3. \A j \in Key, n \in 0..config.requeues : Made(j, n) => Made(j, n)'
    BY <2>1, <2>2, Zenon DEF Made
  <2>4. out' \in [Key -> OutAt] /\ tries' \in Tries /\ \A j \in Key : out'[j] = "none" <=> out[j] = "none"
    BY <1>1, <2>1, <2>2, Zenon DEF RxTypes, Tries
  <2>5. QED
    BY <1>1, <1>2, <2>3, <2>4, Zenon DEF QuietStep
<1>4. CASE HandleTxFailed(k)
  <2>1. /\ out' = [out EXCEPT ![k] = "queued"] /\ out[k] = "failed"
        /\ tries' = [tries EXCEPT ![k] = tries[k] + 1] /\ tries[k] < config.requeues
    BY <1>4, Zenon DEF HandleTxFailed
  <2>2. /\ out'[k] = "queued" /\ \A j \in Key \ {k} : out'[j] = out[j]
        /\ tries'[k] = tries[k] + 1 /\ \A j \in Key \ {k} : tries'[j] = tries[j]
    BY <2>1, Zenon DEF RxTypes, Tries
  <2>3. tries[k] \in Int /\ \A n \in 0..config.requeues : n < tries[k] \/ n = tries[k] => n < tries[k] + 1
    BY ConfigsAssumption DEF RxTypes, Tries
  <2>4. \A j \in Key, n \in 0..config.requeues : Made(j, n) => Made(j, n)'
    BY <2>2, <2>3, Zenon DEF Made
  <2>5. tries[k] + 1 \in 0..config.requeues
    BY <2>1, ConfigsAssumption DEF RxTypes, Tries
  <2>6. out' \in [Key -> OutAt] /\ tries' \in Tries /\ \A j \in Key : out'[j] = "none" <=> out[j] = "none"
    BY <1>1, <2>1, <2>2, <2>5, Zenon DEF RxTypes, OutAt, Tries
  <2>7. QED
    BY <1>1, <1>2, <2>4, <2>6, Zenon DEF QuietStep
<1>5. QED
  BY <1>3, <1>4, Zenon

\* Every step moves a message, begins a call, or is quiet.
LEMMA DispatchSteps ==
    ASSUME CloseTypes, RxTypes, DNext
    PROVE  \/ \E u \in Underlay : \/ PeerSends(u) \/ PeerReplies(u) \/ RxerReads(u)
                                  \/ RemoveWaiter(u) \/ AcceptReply(u) \/ rxHandler(u)
           \/ \E k \in Key : TxWrites(k)
           \/ QuietStep
<1>1. ASSUME UNCHANGED <<config, inbox, unsent, asked, cur, taken, call, out, tries>>,
             \A u \in Underlay :
                \/ rxer'[u] = rxer[u]
                \/ rxer'[u] \in {"rx", "exit"}
                \/ rxer[u] \in {"reply", "reap"} /\ rxer'[u] \in {"reap", "remove"}
      PROVE  QuietStep
  <2>1. \A k \in Key, n \in 0..config.requeues : Made(k, n) => Made(k, n)'
    BY <1>1, Zenon DEF Made
  <2>2. QED
    BY <1>1, <2>1, Zenon DEF QuietStep, RxTypes, Tries
<1>2. ASSUME UNCHANGED <<config, inbox, unsent, asked, cur, taken, call, out, tries>>,
             NEW u \in Underlay, rxer' = [rxer EXCEPT ![u] = "rx"]
      PROVE  QuietStep
  <2>1. \A v \in Underlay : rxer'[v] = rxer[v] \/ rxer'[v] = "rx"
    BY <1>2, Zenon DEF CloseTypes
  <2>2. QED
    BY <1>1, <1>2, <2>1, Zenon
<1>3. CASE BindStep
  <2>1. /\ UNCHANGED <<config, inbox, unsent, asked, cur, taken, call, out, tries>>
        /\ rxer' = rxer \/ rxer' = [rxer EXCEPT ![First] = "rx"]
    BY <1>3, Zenon DEF BindStep, BindChannel, BindFails, BindFailed, Started, startMultiplex, bindVars,
       peerVars, rxVars
  <2>2. QED
    BY <1>1, <1>2, <2>1, DispatchAssumption, Zenon
<1>4. ASSUME NEW c \in Closer, CloseCalled(c) \/ CloseStep(c)
      PROVE  QuietStep
  <2>1. UNCHANGED <<config, inbox, unsent, asked, rxer, cur, taken, call, out, tries>>
    BY <1>4, Zenon DEF CloseCalled, CloseStep, CloseBegins, ClearWaiters, CloseUnderlays, bindVars, peerVars,
       rxVars
  <2>2. QED
    BY <1>1, <2>1, Zenon
<1>5. ASSUME NEW u \in Underlay, AcceptUnderlay(u) \/ ConnLost(u)
      PROVE  QuietStep
  <2>1. /\ UNCHANGED <<config, inbox, unsent, asked, cur, taken, call, out, tries>>
        /\ rxer' = rxer \/ rxer' = [rxer EXCEPT ![u] = "rx"]
    BY <1>5, Zenon DEF AcceptUnderlay, ConnLost, startMultiplex, bindVars, peerVars, rxVars
  <2>2. QED
    BY <1>1, <1>2, <2>1, Zenon
<1>6. ASSUME NEW u \in Underlay, RxerExits(u) \/ RxReply(u) \/ RxReaps(u) \/ HandlerReturns(u)
      PROVE  QuietStep
  <2>1. UNCHANGED <<config, inbox, unsent, asked, cur, taken, call, out, tries>>
    BY <1>6, Zenon DEF RxerExits, RxReply, RxReaps, HandlerReturns, bindVars, peerVars
  <2>2. \/ rxer' = rxer
        \/ \E pc \in {"rx", "exit"} : rxer' = [rxer EXCEPT ![u] = pc]
        \/ rxer[u] \in {"reply", "reap"} /\ \E pc \in {"reap", "remove"} : rxer' = [rxer EXCEPT ![u] = pc]
    BY <1>6, Zenon DEF RxerExits, RxReply, RxReaps, HandlerReturns, At
  <2>3. \A v \in Underlay :
          \/ rxer'[v] = rxer[v]
          \/ rxer'[v] \in {"rx", "exit"}
          \/ rxer[v] \in {"reply", "reap"} /\ rxer'[v] \in {"reap", "remove"}
    BY <2>2, Zenon DEF CloseTypes
  <2>4. QED
    BY <1>1, <2>1, <2>3, Zenon
<1>7. ASSUME NEW k \in Key, Expires(k)
      PROVE  QuietStep
  <2>1. UNCHANGED <<config, inbox, unsent, asked, rxer, cur, taken, call, out, tries>>
    BY <1>7, Zenon DEF Expires, dispatchOnly, bindVars, rxVars
  <2>2. QED
    BY <1>1, <2>1, Zenon
<1>8. ASSUME NEW k \in Key, CallEnds(k)
      PROVE  QuietStep
  <2>1. UNCHANGED <<config, inbox, unsent, asked, rxer, cur, taken, out, tries>>
    BY <1>8, Zenon DEF CallEnds, dispatchOnly, bindVars, rxVars
  <2>2. call' \in [Key -> CallAt] /\ \A j \in Key : call'[j] = "waiting" => call[j] = "waiting"
    BY <1>8, Zenon DEF CallEnds, Ended, RxTypes, CallAt
  <2>3. \A j \in Key, n \in 0..config.requeues : Made(j, n) => Made(j, n)'
    BY <2>1, Zenon DEF Made
  <2>4. QED
    BY <2>1, <2>2, <2>3, Zenon DEF QuietStep, RxTypes, Tries
<1>10. QED
  BY <1>3, <1>4, <1>5, <1>6, <1>7, <1>8, TxIsQuiet, Zenon DEF DNext, RxStep, TxStep

\* What a rxer that has a message to give away does with it.
LEMMA RemoveWaiterEffect ==
    ASSUME CloseTypes, RxTypes, NEW u \in Underlay, RemoveWaiter(u)
    PROVE  /\ UNCHANGED <<config, inbox, unsent, asked, cur, taken, call, out, tries, closed>>
           /\ rxer[u] = "remove" /\ rxer'[u] \in {"accept", "dispatch"}
           /\ \A v \in Underlay \ {u} : rxer'[v] = rxer[v]
           /\ IsReply(cur[u])
           /\ LoadAndDelete(u, cur[u].key)
           /\ rxer'[u] = "dispatch" => cur[u].key \notin m
<1>1. IsReply(cur[u])
  BY MessageTypes, Zenon DEF RemoveWaiter, RxTypes, Holds
<1>2. QED
  BY <1>1, Zenon DEF IsReply, RemoveWaiter, At, CloseTypes, bindVars, closeVars, peerVars

LEMMA AcceptReplyEffect ==
    ASSUME CloseTypes, RxTypes, NEW u \in Underlay, AcceptReply(u)
    PROVE  /\ UNCHANGED <<config, inbox, unsent, asked, cur, out, tries, closed>>
           /\ rxer[u] = "accept" /\ rxer'[u] = "rx"
           /\ \A v \in Underlay \ {u} : rxer'[v] = rxer[v]
           /\ IsReply(cur[u]) /\ cur[u] \in Messages
           /\ CountDeleted(u) /\ call'[cur[u].key] # "waiting"
           /\ call' \in [Key -> CallAt]
           /\ \A k \in Key : call'[k] = "waiting" => call[k] = "waiting"
           /\ taken' = [taken EXCEPT ![cur[u]] = Append(@, "waiter")]
<1>1. rxer[u] = "accept" /\ cur[u] \in Messages /\ IsReply(cur[u])
  BY MessageTypes, Zenon DEF AcceptReply, RxTypes, Holds
<1>2. /\ rxer'[u] = "rx" /\ \A v \in Underlay \ {u} : rxer'[v] = rxer[v]
      /\ UNCHANGED <<config, inbox, unsent, asked, cur, out, tries, closed>>
  BY Zenon DEF AcceptReply, At, CloseTypes, bindVars, closeVars, peerVars
<1>3. /\ call' \in [Key -> CallAt]
      /\ \A k \in Key : call'[k] = "waiting" => call[k] = "waiting"
      /\ call'[cur[u].key] # "waiting"
  BY <1>1, Zenon DEF IsReply, AcceptReply, Ended, RxTypes, CallAt
<1>4. QED
  BY <1>1, <1>2, <1>3, Zenon DEF AcceptReply, Take

LEMMA rxHandlerEffect ==
    ASSUME CloseTypes, RxTypes, NEW u \in Underlay, rxHandler(u)
    PROVE  /\ UNCHANGED <<vars, config, inbox, unsent, asked, cur, tries, closed>>
           /\ rxer[u] = "dispatch" /\ rxer'[u] \in {"rx", "handler"}
           /\ \A v \in Underlay \ {u} : rxer'[v] = rxer[v]
           /\ cur[u] \in Messages
           /\ call' \in [Key -> CallAt]
           /\ out' \in [Key -> OutAt]
           /\ \A k \in Key : \/ call'[k] = call[k] /\ out'[k] = out[k]
                             \/ cur[u] = Message("ask", k) /\ cur[u] \in config.incoming /\ out'[k] = "queued"
           /\ \E who \in Takers :
                /\ taken' = [taken EXCEPT ![cur[u]] = Append(@, who)]
                /\ who # "waiter" \/ cur[u].type = "waiter"
                /\ who = "dropped" => {cur[u].type, "any"} \cap handlers = {}
                /\ who = "any" => cur[u].type \notin handlers
<1>1. rxer[u] = "dispatch" /\ cur[u] \in Messages
  BY Zenon DEF rxHandler, RxTypes, Holds
<1>2. /\ cur[u].type = "ask" => cur[u].key \in Key /\ cur[u] = Message("ask", cur[u].key) /\ cur[u] \in config.incoming
      /\ cur[u].type \notin {"any", "dropped"} /\ cur[u].type \in Takers
  BY <1>1, MessageTypes, Zenon DEF RxTypes
<1>3. UNCHANGED <<vars, config, inbox, unsent, asked, cur, tries, closed>>
  BY Zenon DEF rxHandler, bindVars, closeVars, peerVars
<1>4. rxer'[u] \in {"rx", "handler"} /\ \A v \in Underlay \ {u} : rxer'[v] = rxer[v]
  BY Zenon DEF rxHandler, HandleReceive, At, CloseTypes
<1>5. /\ call' \in [Key -> CallAt]
      /\ out' \in [Key -> OutAt]
      /\ \A k \in Key : \/ call'[k] = call[k] /\ out'[k] = out[k]
                        \/ cur[u] = Message("ask", k) /\ cur[u] \in config.incoming /\ out'[k] = "queued"
  <2>1. CASE UNCHANGED <<call, out>>
    BY <2>1, Zenon DEF RxTypes
  <2>2. CASE cur[u].type = "ask" /\ HandleReceive(u)
    BY <1>2, <2>2, Zenon DEF HandleReceive, RxTypes, CallAt, OutAt
  <2>3. QED
    BY <2>1, <2>2, Zenon DEF rxHandler
<1>6. \E who \in Takers :
        /\ taken' = [taken EXCEPT ![cur[u]] = Append(@, who)]
        /\ who # "waiter" \/ cur[u].type = "waiter"
        /\ who = "dropped" => {cur[u].type, "any"} \cap handlers = {}
        /\ who = "any" => cur[u].type \notin handlers
  <2>1. CASE cur[u].type \in handlers /\ Take(u, cur[u].type)
    BY <1>2, <2>1, Zenon DEF Take
  <2>2. CASE cur[u].type \notin handlers /\ "any" \in handlers /\ Take(u, "any")
    BY <2>2, Zenon DEF Take, Takers
  <2>3. CASE cur[u].type \notin handlers /\ "any" \notin handlers /\ Take(u, "dropped")
    BY <2>3, Zenon DEF Take, Takers
  <2>4. QED
    BY <2>1, <2>2, <2>3, Zenon DEF rxHandler
<1>7. QED
  BY <1>1, <1>3, <1>4, <1>5, <1>6, Zenon

LEMMA RxerReadsEffect ==
    ASSUME CloseTypes, RxTypes, NEW u \in Underlay, RxerReads(u)
    PROVE  /\ UNCHANGED <<vars, config, unsent, asked, taken, call, out, tries, closed>>
           /\ rxer[u] = "rx"
           /\ inbox[u] \in Seq(Messages) /\ inbox[u] # <<>> /\ Head(inbox[u]) \in Messages
           /\ cur' = [cur EXCEPT ![u] = Head(inbox[u])]
           /\ inbox' = [inbox EXCEPT ![u] = Tail(inbox[u])]
           /\ rxer'[u] = IF Head(inbox[u]).type = "reply" THEN "reply" ELSE "dispatch"
           /\ \A v \in Underlay \ {u} : rxer'[v] = rxer[v]
<1>1. inbox[u] \in Seq(Messages) /\ inbox[u] # <<>> /\ Head(inbox[u]) \in Messages
  BY HeadAndTail, Zenon DEF RxerReads, RxTypes
<1>2. QED
  BY <1>1, Zenon DEF RxerReads, At, CloseTypes, bindVars, closeVars

LEMMA NextKeepsRxTypes ==
    ASSUME CloseTypes, RxTypes, DNext
    PROVE  RxTypes'
<1>1. CASE QuietStep
  <2>1. UNCHANGED <<config, inbox, unsent, asked, cur, taken>> /\ SameSets
    BY <1>1, SameConfig, Zenon DEF QuietStep
  <2>2. \A u \in Underlay : Holds(u)' => Holds(u)
    BY <1>1, Zenon DEF QuietStep, Holds
  <2>3. \A u \in Underlay : rxer'[u] \in {"reply", "reap", "remove", "accept"} => rxer[u] \in {"reply", "reap", "remove", "accept"}
    BY <1>1, Zenon DEF QuietStep
  <2>4. /\ call' \in [Key -> CallAt]
        /\ out' \in [Key -> OutAt] /\ tries' \in Tries
    BY <1>1, Zenon DEF QuietStep
  <2>5. QED
    BY <2>1, <2>2, <2>3, <2>4, Zenon DEF RxTypes, SameSets
<1>2. ASSUME NEW u \in Underlay, PeerSends(u) \/ PeerReplies(u)
      PROVE  RxTypes'
  <2>1. UNCHANGED <<config, rxer, cur, taken, call, out, tries>> /\ SameSets
    BY <1>2, SameConfig, Zenon DEF PeerSends, PeerReplies, bindVars, rxVars
  <2>2. unsent' \subseteq config.incoming /\ asked' \subseteq Replies
    BY <1>2, Zenon DEF PeerSends, PeerReplies, RxTypes
  <2>3. PICK msg \in Messages : inbox' = [inbox EXCEPT ![u] = Append(inbox[u], msg)]
    BY <1>2, Zenon DEF PeerSends, PeerReplies, RxTypes, Messages
  <2>4. inbox' \in [Underlay -> Seq(Messages)]
    BY <2>3, AppendInSeq, Zenon DEF RxTypes, SameSets
  <2>5. QED
    BY <2>1, <2>2, <2>4, Zenon DEF RxTypes, Holds, SameSets
<1>3. ASSUME NEW u \in Underlay, RxerReads(u)
      PROVE  RxTypes'
  <2>1. UNCHANGED <<config, unsent, asked, taken, call, out, tries>>
    BY <1>3, RxerReadsEffect, Zenon
  <2>2. SameSets
    BY <2>1, SameConfig, Zenon
  <2>3. /\ Head(inbox[u]) \in Messages /\ Tail(inbox[u]) \in Seq(Messages)
        /\ cur' = [cur EXCEPT ![u] = Head(inbox[u])]
        /\ inbox' = [inbox EXCEPT ![u] = Tail(inbox[u])]
    BY <1>3, RxerReadsEffect, HeadAndTail, Zenon
  <2>4. cur' \in [Underlay -> Messages \cup {None}] /\ inbox' \in [Underlay -> Seq(Messages)]
    BY <2>3, Zenon DEF RxTypes, SameSets
  <2>5. cur'[u] = Head(inbox[u]) /\ \A v \in Underlay \ {u} : cur'[v] = cur[v]
    BY <2>3, Zenon DEF RxTypes, SameSets
  <2>6. /\ rxer'[u] \in {"reply", "reap", "remove", "accept"} => cur'[u].type = "reply"
        /\ \A v \in Underlay \ {u} : rxer'[v] = rxer[v]
    BY <1>3, <2>5, RxerReadsEffect, Zenon
  <2>7. /\ \A v \in Underlay : Holds(v)' => cur'[v] \in Messages
        /\ \A v \in Underlay : rxer'[v] \in {"reply", "reap", "remove", "accept"} => cur'[v].type = "reply"
    BY <2>3, <2>5, <2>6, Zenon DEF RxTypes, Holds, SameSets
  <2>8. QED
    BY <2>1, <2>2, <2>4, <2>7, Zenon DEF RxTypes, SameSets
<1>4. ASSUME NEW u \in Underlay, RemoveWaiter(u)
      PROVE  RxTypes'
  <2>1. UNCHANGED <<config, inbox, unsent, asked, cur, taken, call, out, tries>> /\ SameSets
    BY <1>4, RemoveWaiterEffect, SameConfig, Zenon
  <2>2. /\ \A v \in Underlay : Holds(v)' => Holds(v)
        /\ \A v \in Underlay : rxer'[v] \in {"reply", "reap", "remove", "accept"} => rxer[v] \in {"reply", "reap", "remove", "accept"}
    BY <1>4, RemoveWaiterEffect, Zenon DEF Holds
  <2>3. QED
    BY <2>1, <2>2, Zenon DEF RxTypes, SameSets
<1>5. ASSUME NEW u \in Underlay, AcceptReply(u) \/ rxHandler(u)
      PROVE  RxTypes'
  <2>1. UNCHANGED <<config, inbox, unsent, asked, cur, tries>> /\ SameSets
    BY <1>5, AcceptReplyEffect, rxHandlerEffect, SameConfig, Zenon
  <2>2. /\ \A v \in Underlay : Holds(v)' => Holds(v)
        /\ \A v \in Underlay : rxer'[v] \in {"reply", "reap", "remove", "accept"} => rxer[v] \in {"reply", "reap", "remove", "accept"}
    BY <1>5, AcceptReplyEffect, rxHandlerEffect, Zenon DEF Holds
  <2>3. /\ call' \in [Key -> CallAt]
        /\ out' \in [Key -> OutAt]
    BY <1>5, AcceptReplyEffect, rxHandlerEffect, Zenon DEF RxTypes, SameSets
  <2>4. PICK who \in Takers : taken' = [taken EXCEPT ![cur[u]] = Append(taken[cur[u]], who)] /\ cur[u] \in Messages
    BY <1>5, AcceptReplyEffect, rxHandlerEffect, Zenon DEF Takers
  <2>5. taken' \in [Messages -> Seq(Takers)]
    BY <2>4, AppendInSeq, Zenon DEF RxTypes, SameSets
  <2>6. QED
    BY <2>1, <2>2, <2>3, <2>5, Zenon DEF RxTypes, SameSets
<1>6. ASSUME NEW k \in Key, TxWrites(k)
      PROVE  RxTypes'
  <2>1. UNCHANGED <<config, inbox, unsent, rxer, cur, taken, call, tries>> /\ SameSets
    BY <1>6, SameConfig, Zenon DEF TxWrites, dispatchOnly, bindVars, rxVars
  <2>2. asked' \subseteq Replies /\ out' \in [Key -> OutAt]
    <3>1. Reply(k, tries[k]) \in Replies
      BY ReplyIn, Zenon DEF RxTypes, Tries
    <3>2. QED
      BY <1>6, <3>1, Zenon DEF TxWrites, RxTypes, OutAt
  <2>3. QED
    BY <2>1, <2>2, Zenon DEF RxTypes, Holds, SameSets
<1>7. QED
  BY <1>1, <1>2, <1>3, <1>4, <1>5, <1>6, DispatchSteps, Zenon
-----------------------------------------------------------------------------
(* The waiters and their count *)

\* Who stores a waiter, and who deletes one, has no other under way: the tx of a request is between
\* the two counts, and so is a rxer that has a reply to deliver.
OwnInv ==
    /\ \A k \in adding : out[k] = "stored"
    /\ \A k \in m : out[k] \notin {"none", "queued", "failed"}
    /\ \A k \in Key : k \in removing => out[k] = "failed"
    /\ \A u \in Underlay : u \in removing => rxer[u] = "accept"

\* The steps of WaiterMap.
WaiterStep ==
    \/ \E k \in Key : (Store(k) /\ k \notin m /\ k \notin adding) \/ CountStored(k) \/ Expire(k)
    \/ \E g \in Key \cup Reaper : (\E k \in Key : LoadAndDelete(g, k) /\ g \notin removing) \/ CountDeleted(g)
    \/ \E r \in Reaper : ReapBegin(r) \/ (\E k \in Key : Visit(r, k)) \/ Delete(r) \/ ReapEnd(r)
    \/ (\E c \in Closer : closer[c] = "clear") /\ (Zero \/ Clear)

\* Each step is one of them, or none.
LEMMA WaiterSteps ==
    ASSUME CloseTypes, RxTypes, OwnInv, DNext
    PROVE  WaiterStep \/ UNCHANGED vars
<1>1. CASE BindStep
  BY <1>1, Zenon DEF BindStep, BindChannel, BindFails, BindFailed, Started
<1>2. ASSUME NEW c \in Closer, CloseCalled(c) \/ CloseStep(c)
      PROVE  WaiterStep \/ UNCHANGED vars
  BY <1>2, Zenon DEF CloseCalled, CloseStep, CloseBegins, ClearWaiters, CloseUnderlays, WaiterStep
<1>3. ASSUME NEW u \in Underlay, AcceptUnderlay(u) \/ ConnLost(u) \/ PeerSends(u) \/ PeerReplies(u)
      PROVE  UNCHANGED vars
  BY <1>3, Zenon DEF AcceptUnderlay, ConnLost, PeerSends, PeerReplies
<1>4. ASSUME NEW u \in Underlay, RemoveWaiter(u) \/ AcceptReply(u)
      PROVE  WaiterStep
  <2>1. u \in Key \cup Reaper
    BY Zenon DEF Underlay
  <2>2. RemoveWaiter(u) => cur[u].key \in Key /\ LoadAndDelete(u, cur[u].key) /\ u \notin removing
    BY RemoveWaiterEffect, Zenon DEF IsReply, OwnInv
  <2>3. AcceptReply(u) => CountDeleted(u)
    BY Zenon DEF AcceptReply
  <2>4. QED
    BY <1>4, <2>1, <2>2, <2>3, Zenon DEF WaiterStep
<1>5. ASSUME NEW u \in Underlay, RxerExits(u) \/ RxReply(u) \/ RxReaps(u) \/ HandlerReturns(u)
      PROVE  WaiterStep \/ UNCHANGED vars
  BY <1>5, Zenon DEF RxerExits, RxReply, RxReaps, HandlerReturns, WaiterStep, Underlay
<1>6. ASSUME NEW u \in Underlay, rxHandler(u) \/ RxerReads(u)
      PROVE  UNCHANGED vars
  BY <1>6, Zenon DEF rxHandler, RxerReads
<1>7. ASSUME NEW k \in Key, TxDrops(k) \/ TxWrites(k) \/ SetWriteTimeoutFails(k) \/ CallEnds(k)
      PROVE  UNCHANGED vars
  BY <1>7, Zenon DEF TxDrops, TxWrites, SetWriteTimeoutFails, CallEnds
<1>8. ASSUME NEW k \in Key, TxAddsWaiter(k) \/ TxFails(k) \/ HandleTxFailed(k) \/ NotifyErr(k) \/ Expires(k)
      PROVE  WaiterStep \/ UNCHANGED vars
  <2>1. CASE TxAddsWaiter(k)
    <3>1. (Store(k) /\ out[k] = "queued") \/ CountStored(k)
      BY <2>1, Zenon DEF TxAddsWaiter
    <3>2. out[k] = "queued" => k \notin m /\ k \notin adding
      BY Zenon DEF OwnInv
    <3>3. QED
      BY <3>1, <3>2, Zenon DEF WaiterStep
  <2>2. CASE TxFails(k)
    <3>1. LoadAndDelete(k, k) /\ k \notin removing
      BY <2>2, Zenon DEF TxFails, OwnInv
    <3>2. QED
      BY <3>1, Zenon DEF WaiterStep
  <2>3. CASE HandleTxFailed(k) \/ NotifyErr(k) \/ Expires(k)
    BY <2>3, Zenon DEF HandleTxFailed, NotifyErr, TxCountsRemoved, Expires, WaiterStep
  <2>4. QED
    BY <1>8, <2>1, <2>2, <2>3, Zenon
<1>9. QED
  BY <1>1, <1>2, <1>3, <1>4, <1>5, <1>6, <1>7, <1>8, Zenon DEF DNext, RxStep, TxStep

\* A reaper counts only what its Range has shown it, and so each key once.
ReapInv ==
    /\ \A r \in Reaper : todo[r] # {} \/ target[r] # None => reaper[r] = "range"
    /\ \A r \in Reaper : target[r] \notin todo[r]
    /\ \A r \in Reaper, k \in Key : <<r, k>> \in counted => reaper[r] = "range" /\ k \notin todo[r] /\ k # target[r]

CountInv ==
    /\ IsFiniteSet(m) /\ IsFiniteSet(adding) /\ IsFiniteSet(removing) /\ IsFiniteSet(counted)
    /\ ReapInv

\* The numbers that the count is compared with.
LEMMA CountTypes ==
    ASSUME CountInv
    PROVE  /\ Cardinality(m) \in Nat /\ Cardinality(adding) \in Nat
           /\ Cardinality(removing) \in Nat /\ Cardinality(counted) \in Nat
  BY FS_CardinalityType, Zenon DEF CountInv

\* How each step changes them.
LEMMA StoreEffect ==
    ASSUME CountInv, NEW k \in Key, Store(k), k \notin m, k \notin adding
    PROVE  /\ IsFiniteSet(m') /\ Cardinality(m') = Cardinality(m) + 1
           /\ IsFiniteSet(adding') /\ Cardinality(adding') = Cardinality(adding) + 1
           /\ removing' = removing /\ counted' = counted /\ size' = size
<1>1. /\ m' = m \cup {k} /\ adding' = adding \cup {k}
      /\ removing' = removing /\ counted' = counted /\ size' = size
  BY Zenon DEF Store, reaperVars
<1>2. IsFiniteSet(m) /\ IsFiniteSet(adding)
  BY Zenon DEF CountInv
<1>3. QED
  BY <1>1, <1>2, FS_AddElement, Zenon

LEMMA CountStoredEffect ==
    ASSUME CountInv, NEW k \in Key, CountStored(k)
    PROVE  /\ IsFiniteSet(adding') /\ Cardinality(adding') = Cardinality(adding) - 1
           /\ m' = m /\ removing' = removing /\ counted' = counted /\ size' = size + 1
<1>1. /\ adding' = adding \ {k} /\ k \in adding
      /\ m' = m /\ removing' = removing /\ counted' = counted /\ size' = size + 1
  BY Zenon DEF CountStored, reaperVars
<1>2. IsFiniteSet(adding)
  BY Zenon DEF CountInv
<1>3. QED
  BY <1>1, <1>2, FS_RemoveElement, Zenon

LEMMA LoadAndDeleteEffect ==
    ASSUME CountInv, NEW g, NEW k \in Key, LoadAndDelete(g, k), g \notin removing
    PROVE  /\ IsFiniteSet(m') /\ IsFiniteSet(removing')
           /\ Cardinality(m') + Cardinality(removing') = Cardinality(m) + Cardinality(removing)
           /\ adding' = adding /\ counted' = counted /\ size' = size
<1>1. /\ m' = m \ {k} /\ adding' = adding /\ counted' = counted /\ size' = size
      /\ removing' = IF k \in m THEN removing \cup {g} ELSE removing
  BY Zenon DEF LoadAndDelete, reaperVars
<1>2. IsFiniteSet(m) /\ IsFiniteSet(removing)
  BY Zenon DEF CountInv
<1>3. CASE k \in m
  <2>1. IsFiniteSet(m \ {k}) /\ Cardinality(m \ {k}) = Cardinality(m) - 1
    BY <1>2, <1>3, FS_RemoveElement, Zenon
  <2>2. IsFiniteSet(removing \cup {g}) /\ Cardinality(removing \cup {g}) = Cardinality(removing) + 1
    BY <1>2, FS_AddElement, Zenon
  <2>3. QED
    BY <1>1, <1>3, <2>1, <2>2, CountTypes
<1>4. CASE k \notin m
  <2>1. removing' = removing /\ m' = m
    BY <1>1, <1>4, Zenon
  <2>2. QED
    BY <1>1, <1>2, <2>1, Zenon
<1>5. QED
  BY <1>3, <1>4, Zenon

LEMMA CountDeletedEffect ==
    ASSUME CountInv, NEW g, CountDeleted(g)
    PROVE  /\ IsFiniteSet(removing') /\ Cardinality(removing') = Cardinality(removing) - 1
           /\ m' = m /\ adding' = adding /\ counted' = counted /\ size' = size - 1
<1>1. /\ removing' = removing \ {g} /\ g \in removing
      /\ m' = m /\ adding' = adding /\ counted' = counted /\ size' = size - 1
  BY Zenon DEF CountDeleted, reaperVars
<1>2. IsFiniteSet(removing)
  BY Zenon DEF CountInv
<1>3. QED
  BY <1>1, <1>2, FS_RemoveElement, Zenon

LEMMA DeleteEffect ==
    ASSUME TypeOK, CountInv, NEW r \in Reaper, Delete(r)
    PROVE  /\ IsFiniteSet(m') /\ Cardinality(m') >= Cardinality(m) - 1
           /\ IsFiniteSet(counted') /\ Cardinality(counted') = Cardinality(counted) + 1
           /\ adding' = adding /\ removing' = removing /\ size' = size
<1>1. m' = m \ {target[r]} /\ adding' = adding /\ removing' = removing /\ size' = size
  BY Zenon DEF Delete
<1>2. IsFiniteSet(m) /\ IsFiniteSet(counted)
  BY Zenon DEF CountInv
<1>3. counted' = counted \cup {<<r, target[r]>>} /\ <<r, target[r]>> \notin counted
  BY Zenon DEF Delete, DeleteCounted, CountInv, ReapInv, TypeOK
<1>4. IsFiniteSet(counted') /\ Cardinality(counted') = Cardinality(counted) + 1
  BY <1>2, <1>3, FS_AddElement, Zenon
<1>5. /\ IsFiniteSet(m \ {target[r]})
      /\ Cardinality(m \ {target[r]}) = IF target[r] \in m THEN Cardinality(m) - 1 ELSE Cardinality(m)
  BY <1>2, FS_RemoveElement, Zenon
<1>6. QED
  BY <1>1, <1>4, <1>5, CountTypes

LEMMA ReapEndEffect ==
    ASSUME TypeOK, CountInv, NEW r \in Reaper, ReapEnd(r)
    PROVE  \E n \in Nat :
              /\ IsFiniteSet(counted') /\ Cardinality(counted') = Cardinality(counted) - n
              /\ size' = size - n
              /\ m' = m /\ adding' = adding /\ removing' = removing
<1>1. IsFiniteSet(counted)
  BY Zenon DEF CountInv
<1>2. counted' = counted \ ({r} \X Key) /\ size' = size - Cardinality(counted \cap ({r} \X Key))
  BY Zenon DEF ReapEnd, SizeAfterReap
<1>3. IsFiniteSet(counted \cap ({r} \X Key))
  BY <1>1, FS_Intersection, Zenon
<1>4. Cardinality(counted \cap ({r} \X Key)) \in Nat
  BY <1>3, FS_CardinalityType, Zenon
<1>5. /\ IsFiniteSet(counted \ ({r} \X Key))
      /\ Cardinality(counted \ ({r} \X Key)) = Cardinality(counted) - Cardinality(counted \cap ({r} \X Key))
  BY <1>1, FS_Difference, Zenon
<1>6. m' = m /\ adding' = adding /\ removing' = removing
  BY Zenon DEF ReapEnd
<1>7. QED
  BY <1>2, <1>4, <1>5, <1>6, Zenon

\* The steps that count nothing.
UncountedStep ==
    \/ \E k \in Key : Expire(k)
    \/ \E r \in Reaper : ReapBegin(r) \/ \E k \in Key : Visit(r, k)

LEMMA UncountedEffect ==
    ASSUME UncountedStep
    PROVE  m' = m /\ adding' = adding /\ removing' = removing /\ counted' = counted /\ size' = size
           /\ clearing' = clearing
  BY Zenon DEF UncountedStep, Expire, ReapBegin, Visit, reaperVars

LEMMA ClearEffect ==
    ASSUME Zero \/ Clear
    PROVE  /\ adding' = adding /\ removing' = removing /\ counted' = counted
           /\ m' \in {m, {}} /\ clearing' # "no" /\ size' \in {0, size}
  BY Zenon DEF Zero, Clear, reaperVars

\* Every variable of WaiterMap keeps its type.
LEMMA WaiterTypes ==
    ASSUME TypeOK, CountInv, WaiterStep
    PROVE  TypeOK'
<1>0. ASSUME NEW k \in Key, Store(k) \/ CountStored(k) \/ Expire(k)
      PROVE  TypeOK'
  BY <1>0 DEF TypeOK, Store, CountStored, Expire, reaperVars
<1>1. ASSUME NEW g \in Key \cup Reaper, (\E k \in Key : LoadAndDelete(g, k)) \/ CountDeleted(g)
      PROVE  TypeOK'
  BY <1>1 DEF TypeOK, LoadAndDelete, CountDeleted, reaperVars
<1>2. ASSUME NEW r \in Reaper, ReapBegin(r) \/ (\E k \in Key : Visit(r, k)) \/ Delete(r)
      PROVE  TypeOK'
  BY <1>2 DEF TypeOK, ReapBegin, Visit, Delete, DeleteCounted
<1>3. CASE Zero \/ Clear
  BY <1>3 DEF TypeOK, Zero, Clear, reaperVars
<1>4. ASSUME NEW r \in Reaper, ReapEnd(r)
      PROVE  TypeOK'
  <2>1. size' \in Int
    BY <1>4, ReapEndEffect DEF TypeOK
  <2>2. QED
    BY <1>4, <2>1, Zenon DEF TypeOK, ReapEnd
<1>5. QED
  BY <1>0, <1>1, <1>2, <1>3, <1>4, Zenon DEF WaiterStep

LEMMA WaiterKeepsCount ==
    ASSUME TypeOK, CountInv, WaiterStep
    PROVE  CountInv'
<1>1. IsFiniteSet(m') /\ IsFiniteSet(adding') /\ IsFiniteSet(removing') /\ IsFiniteSet(counted')
  <2>1. IsFiniteSet(m) /\ IsFiniteSet(adding) /\ IsFiniteSet(removing) /\ IsFiniteSet(counted) /\ IsFiniteSet({})
    BY FS_EmptySet, Zenon DEF CountInv
  <2>2. CASE UncountedStep \/ Zero \/ Clear
    BY <2>1, <2>2, UncountedEffect, ClearEffect, Zenon
  <2>3. CASE \/ \E k \in Key : (Store(k) /\ k \notin m /\ k \notin adding) \/ CountStored(k)
             \/ \E g \in Key \cup Reaper :
                   (\E k \in Key : LoadAndDelete(g, k) /\ g \notin removing) \/ CountDeleted(g)
    BY <2>1, <2>3, StoreEffect, CountStoredEffect, LoadAndDeleteEffect, CountDeletedEffect, Zenon
  <2>4. CASE \E r \in Reaper : Delete(r) \/ ReapEnd(r)
    BY <2>1, <2>4, DeleteEffect, ReapEndEffect, Zenon
  <2>5. QED
    BY <2>2, <2>3, <2>4, Zenon DEF WaiterStep, UncountedStep
<1>2. ReapInv'
  <2>0. None \notin Key
    BY WaiterMapAssumption, Zenon
  <2>1. CASE UNCHANGED reaperVars
    BY <2>1, Zenon DEF reaperVars, CountInv, ReapInv
  <2>2. ASSUME NEW r \in Reaper, ReapBegin(r)
        PROVE  ReapInv'
    <3>1. /\ reaper'[r] = "range" /\ todo'[r] = m /\ target[r] = None /\ target[r] \notin m
          /\ \A s \in Reaper \ {r} : reaper'[s] = reaper[s] /\ todo'[s] = todo[s]
          /\ \A k \in Key : <<r, k>> \notin counted
          /\ UNCHANGED <<target, counted>>
      <4>1. /\ reaper[r] = "idle" /\ reaper' = [reaper EXCEPT ![r] = "range"] /\ todo' = [todo EXCEPT ![r] = m]
            /\ UNCHANGED <<target, counted>>
        BY <2>2, Zenon DEF ReapBegin
      <4>2. target[r] = None /\ \A k \in Key : <<r, k>> \notin counted
        BY <2>2, <4>1, Zenon DEF CountInv, ReapInv
      <4>3. QED
        BY <2>0, <2>2, <4>1, <4>2, Zenon DEF TypeOK
    <3>2. QED
      BY <3>1, Zenon DEF CountInv, ReapInv
  <2>3. ASSUME NEW r \in Reaper, NEW k \in Key, Visit(r, k)
        PROVE  ReapInv'
    BY <2>0, <2>3, Zenon DEF Visit, CountInv, ReapInv, TypeOK
  <2>4. ASSUME NEW r \in Reaper, Delete(r)
        PROVE  ReapInv'
    BY <2>0, <2>4 DEF Delete, DeleteCounted, CountInv, ReapInv, TypeOK
  <2>5. ASSUME NEW r \in Reaper, ReapEnd(r)
        PROVE  ReapInv'
    BY <2>5, Zenon DEF ReapEnd, CountInv, ReapInv, TypeOK
  <2>6. ASSUME NEW k, NEW g, Store(k) \/ CountStored(k) \/ LoadAndDelete(g, k) \/ CountDeleted(g) \/ Expire(k)
        PROVE  UNCHANGED reaperVars
    BY <2>6, Zenon DEF Store, CountStored, LoadAndDelete, CountDeleted, Expire
  <2>7. CASE Zero \/ Clear
    BY <2>1, <2>7, Zenon DEF Zero, Clear
  <2>8. QED
    BY <2>1, <2>2, <2>3, <2>4, <2>5, <2>6, <2>7, Zenon DEF WaiterStep
<1>3. QED
  BY <1>1, <1>2, Zenon DEF CountInv

LEMMA WaiterKeepsBelow ==
    ASSUME TypeOK, CountInv, CountNeverAbove, WaiterStep
    PROVE  CountNeverAbove'
<1>0. CountNeverAbove <=>
        (clearing = "no" => size + Cardinality(adding) <= Cardinality(m) + Cardinality(removing) + Cardinality(counted))
  BY Zenon DEF CountNeverAbove
<1>1. CountNeverAbove' <=>
        (clearing' = "no" =>
            size' + Cardinality(adding') <= Cardinality(m') + Cardinality(removing') + Cardinality(counted'))
  BY Zenon DEF CountNeverAbove
<1>2. /\ Cardinality(m) \in Nat /\ Cardinality(adding) \in Nat /\ size \in Int
      /\ Cardinality(removing) \in Nat /\ Cardinality(counted) \in Nat
  BY CountTypes, Zenon DEF TypeOK
<1>3. CASE UncountedStep
  BY <1>0, <1>1, <1>3, UncountedEffect, Zenon
<1>4. CASE Zero \/ Clear
  BY <1>1, <1>4, ClearEffect, Zenon
<1>5. ASSUME NEW k \in Key, Store(k), k \notin m, k \notin adding
      PROVE  CountNeverAbove'
  <2>1. /\ Cardinality(m') = Cardinality(m) + 1 /\ Cardinality(adding') = Cardinality(adding) + 1
        /\ removing' = removing /\ counted' = counted /\ size' = size /\ clearing' = clearing
    BY <1>5, StoreEffect, Zenon DEF Store
  <2>2. QED
    BY <1>0, <1>1, <1>2, <2>1
<1>6. ASSUME NEW k \in Key, CountStored(k)
      PROVE  CountNeverAbove'
  <2>1. /\ Cardinality(adding') = Cardinality(adding) - 1 /\ size' = size + 1
        /\ m' = m /\ removing' = removing /\ counted' = counted /\ clearing' = clearing
    BY <1>6, CountStoredEffect, Zenon DEF CountStored
  <2>2. QED
    BY <1>0, <1>1, <1>2, <2>1
<1>7. ASSUME NEW g, NEW k \in Key, LoadAndDelete(g, k), g \notin removing
      PROVE  CountNeverAbove'
  <2>1. /\ Cardinality(m') + Cardinality(removing') = Cardinality(m) + Cardinality(removing)
        /\ adding' = adding /\ counted' = counted /\ size' = size /\ clearing' = clearing
    BY <1>7, LoadAndDeleteEffect, Zenon DEF LoadAndDelete
  <2>2. Cardinality(m') \in Nat /\ Cardinality(removing') \in Nat
    BY <1>7, LoadAndDeleteEffect, FS_CardinalityType, Zenon
  <2>3. QED
    BY <1>0, <1>1, <1>2, <2>1, <2>2, Zenon
<1>8. ASSUME NEW g, CountDeleted(g)
      PROVE  CountNeverAbove'
  <2>1. /\ Cardinality(removing') = Cardinality(removing) - 1 /\ size' = size - 1
        /\ m' = m /\ adding' = adding /\ counted' = counted /\ clearing' = clearing
    BY <1>8, CountDeletedEffect, Zenon DEF CountDeleted
  <2>2. QED
    BY <1>0, <1>1, <1>2, <2>1
<1>9. ASSUME NEW r \in Reaper, Delete(r)
      PROVE  CountNeverAbove'
  <2>1. /\ Cardinality(m') >= Cardinality(m) - 1 /\ Cardinality(counted') = Cardinality(counted) + 1
        /\ adding' = adding /\ removing' = removing /\ size' = size /\ clearing' = clearing
    BY <1>9, DeleteEffect, Zenon DEF Delete
  <2>2. Cardinality(m') \in Nat
    BY <1>9, DeleteEffect, FS_CardinalityType, Zenon
  <2>3. QED
    BY <1>0, <1>1, <1>2, <2>1, <2>2
<1>10. ASSUME NEW r \in Reaper, ReapEnd(r)
      PROVE  CountNeverAbove'
  <2>1. clearing' = clearing
    BY <1>10, Zenon DEF ReapEnd
  <2>2. PICK n \in Nat : /\ Cardinality(counted') = Cardinality(counted) - n /\ size' = size - n
                         /\ m' = m /\ adding' = adding /\ removing' = removing
    BY <1>10, ReapEndEffect, Zenon
  <2>3. QED
    BY <1>0, <1>1, <1>2, <2>1, <2>2
<1>11. QED
  BY <1>3, <1>4, <1>5, <1>6, <1>7, <1>8, <1>9, <1>10, Zenon DEF WaiterStep, UncountedStep
-----------------------------------------------------------------------------
(* A message is in one place *)

\* No rxer has the message, and it is on no connection.
Untaken(msg) == taken[msg] = <<>>
Unheld(msg) == \A u \in Underlay : Holds(u) => cur[u] # msg
Unread(msg) == \A u \in Underlay : \A i \in 1..Len(inbox[u]) : inbox[u][i] # msg
Nowhere(msg) == Untaken(msg) /\ Unheld(msg) /\ Unread(msg)

\* A message that has yet to be sent, is on a connection or is in the hands of a rxer is there
\* once, and was not taken; a request that was sent is that of an ask that was taken.
PlaceInv ==
    /\ \A msg \in unsent : Nowhere(msg)
    /\ \A msg \in asked : Made(msg.key, msg.try)
    /\ \A msg \in Replies : msg \in asked \/ ~Made(msg.key, msg.try) => Nowhere(msg)
    /\ \A u, v \in Underlay : \A i \in 1..Len(inbox[u]), j \in 1..Len(inbox[v]) :
          inbox[u][i] = inbox[v][j] => u = v /\ i = j
    /\ \A u \in Underlay : \A i \in 1..Len(inbox[u]) : Untaken(inbox[u][i]) /\ Unheld(inbox[u][i])
    /\ \A u \in Underlay : Holds(u) => Untaken(cur[u])
    /\ \A u, v \in Underlay : Holds(u) /\ Holds(v) /\ cur[u] = cur[v] => u = v
    /\ \A k \in Key : out[k] # "none" =>
          Message("ask", k) \in config.incoming /\ ~Untaken(Message("ask", k))

\* Nothing moves, or a rxer lets go of what was taken.
LEMMA HeldOrLess ==
    ASSUME PlaceInv, UNCHANGED <<config, inbox, unsent, asked, cur, taken>>,
           \A u \in Underlay : Holds(u)' => Holds(u),
           \A msg \in Replies : Made(msg.key, msg.try) => Made(msg.key, msg.try)',
           \A k \in Key : out'[k] = "none" <=> out[k] = "none",
           asked \subseteq Replies
    PROVE  PlaceInv'
<1>1. /\ \A msg : Untaken(msg)' <=> Untaken(msg)
      /\ \A msg : Unheld(msg) => Unheld(msg)'
      /\ \A msg : Unread(msg)' <=> Unread(msg)
  BY Zenon DEF Untaken, Unheld, Unread
<1>2. \A msg : Nowhere(msg) => Nowhere(msg)'
  BY <1>1, Zenon DEF Nowhere
<1>3. /\ \A msg \in unsent' : Nowhere(msg)'
      /\ \A msg \in asked' : Made(msg.key, msg.try)'
      /\ \A msg \in Replies' : msg \in asked' \/ ~Made(msg.key, msg.try)' => Nowhere(msg)'
  BY <1>2, SameConfig, Zenon DEF PlaceInv, SameSets
<1>4. QED
  BY <1>1, <1>3 DEF PlaceInv

\* The peer sends a message.
LEMMA SendingKeepsPlaces ==
    ASSUME RxTypes, PlaceInv, NEW u \in Underlay, NEW msg \in Messages,
           Nowhere(msg),
           inbox' = [inbox EXCEPT ![u] = Append(@, msg)],
           UNCHANGED <<config, rxer, cur, taken, out, tries>>,
           unsent' \subseteq unsent \ {msg}, asked' \subseteq asked,
           msg \in Replies => msg \notin asked' /\ Made(msg.key, msg.try)
    PROVE  PlaceInv'
<1>1. \A v \in Underlay : inbox[v] \in Seq(Messages) /\ Len(inbox[v]) \in Nat
  BY DEF RxTypes
<1>2. \A v \in Underlay : \A i \in 1..Len(inbox'[v]) :
        \/ i \in 1..Len(inbox[v]) /\ inbox'[v][i] = inbox[v][i]
        \/ v = u /\ i = Len(inbox[u]) + 1 /\ inbox'[v][i] = msg
  BY <1>1 DEF RxTypes
<1>3. /\ \A x : Untaken(x)' <=> Untaken(x)
      /\ \A x : Unheld(x)' <=> Unheld(x)
      /\ \A v \in Underlay : Holds(v)' <=> Holds(v)
  BY Zenon DEF Untaken, Unheld, Holds
<1>4. \A x : x # msg /\ Nowhere(x) => Nowhere(x)'
  <2>1. \A x : x # msg /\ Unread(x) => Unread(x)'
    BY <1>2 DEF Unread
  <2>2. QED
    BY <1>3, <2>1, Zenon DEF Nowhere
<1>5. /\ \A x \in unsent' : Nowhere(x)'
      /\ \A x \in asked' : Made(x.key, x.try)'
      /\ \A x \in Replies' : x \in asked' \/ ~Made(x.key, x.try)' => Nowhere(x)'
  BY <1>4, SameConfig, Zenon DEF PlaceInv, SameSets, Made
<1>6. \A v, w \in Underlay : \A i \in 1..Len(inbox'[v]), j \in 1..Len(inbox'[w]) :
        inbox'[v][i] = inbox'[w][j] => v = w /\ i = j
  BY <1>2 DEF PlaceInv, Nowhere, Unread
<1>7. \A v \in Underlay : \A i \in 1..Len(inbox'[v]) : (Untaken(inbox[v][i]) /\ Unheld(inbox[v][i]))'
  <2> TAKE v \in Underlay
  <2> TAKE i \in 1..Len(inbox'[v])
  <2>1. PICK x : x = inbox'[v][i]
    BY Zenon
  <2>2. Untaken(x) /\ Unheld(x)
    BY <1>2, <2>1, Zenon DEF PlaceInv, Nowhere
  <2>3. QED
    BY <2>1, <2>2, Zenon DEF Untaken, Unheld, Holds
<1>8. /\ \A v \in Underlay : Holds(v)' => Untaken(cur[v])'
      /\ \A v, w \in Underlay : Holds(v)' /\ Holds(w)' /\ cur'[v] = cur'[w] => v = w
      /\ \A k \in Key : out'[k] # "none" =>
            Message("ask", k) \in config'.incoming /\ ~Untaken(Message("ask", k))'
  BY <1>3, Zenon DEF PlaceInv, Untaken
<1>9. QED
  BY <1>5, <1>6, <1>7, <1>8, Zenon DEF PlaceInv

\* A rxer reads one.
LEMMA ReadingKeepsPlaces ==
    ASSUME CloseTypes, RxTypes, PlaceInv, NEW u \in Underlay, RxerReads(u)
    PROVE  PlaceInv'
<1>1. /\ UNCHANGED <<config, unsent, asked, taken, out, tries>> /\ ~Holds(u)
      /\ \A v \in Underlay \ {u} : cur'[v] = cur[v] /\ inbox'[v] = inbox[v] /\ (Holds(v)' <=> Holds(v))
      /\ inbox[u] \in Seq(Messages) /\ inbox[u] # <<>>
      /\ inbox'[u] = Tail(inbox[u]) /\ cur'[u] = Head(inbox[u])
  <2>1. /\ UNCHANGED <<config, unsent, asked, taken, out, tries>>
        /\ rxer[u] = "rx" /\ \A v \in Underlay \ {u} : rxer'[v] = rxer[v]
        /\ inbox[u] \in Seq(Messages) /\ inbox[u] # <<>>
        /\ cur' = [cur EXCEPT ![u] = Head(inbox[u])]
        /\ inbox' = [inbox EXCEPT ![u] = Tail(inbox[u])]
    BY RxerReadsEffect, Zenon
  <2>2. /\ inbox'[u] = Tail(inbox[u]) /\ cur'[u] = Head(inbox[u])
        /\ \A v \in Underlay \ {u} : cur'[v] = cur[v] /\ inbox'[v] = inbox[v]
    BY <2>1, Zenon DEF RxTypes
  <2>3. ~Holds(u) /\ \A v \in Underlay \ {u} : Holds(v)' <=> Holds(v)
    BY <2>1, Zenon DEF Holds
  <2>4. QED
    BY <2>1, <2>2, <2>3, Zenon
<1>2. PICK x : /\ x = inbox[u][1] /\ 1 \in 1..Len(inbox[u]) /\ cur'[u] = x
               /\ \A i \in 1..Len(inbox'[u]) : i + 1 \in 1..Len(inbox[u]) /\ inbox'[u][i] = inbox[u][i + 1]
  <2>1. /\ 1 \in 1..Len(inbox[u]) /\ cur'[u] = inbox[u][1]
        /\ \A i \in 1..Len(Tail(inbox[u])) : i + 1 \in 1..Len(inbox[u]) /\ Tail(inbox[u])[i] = inbox[u][i + 1]
    BY <1>1, HeadAndTail, Zenon
  <2>2. \A i \in 1..Len(inbox'[u]) : i + 1 \in 1..Len(inbox[u]) /\ inbox'[u][i] = inbox[u][i + 1]
    BY <1>1, <2>1
  <2>3. QED
    BY <2>1, <2>2, Zenon
<1>3. Untaken(x) /\ Unheld(x)
  <2>1. Untaken(inbox[u][1]) /\ Unheld(inbox[u][1])
    BY <1>2, Zenon DEF PlaceInv
  <2>2. QED
    BY <1>2, <2>1, Zenon
<1>4. /\ \A y : Untaken(y)' <=> Untaken(y)
      /\ \A y : y # x /\ Unheld(y) => Unheld(y)'
      /\ \A y : Unread(y) => y # x /\ Unread(y)'
  <2>1. \A y : Untaken(y)' <=> Untaken(y)
    BY <1>1, Zenon DEF Untaken
  <2>2. \A y : y # x /\ Unheld(y) => Unheld(y)'
    BY <1>1, <1>2, Zenon DEF Unheld
  <2>3. ASSUME NEW y, Unread(y)
        PROVE  y # x /\ Unread(y)'
    <3>1. y # x
      BY <1>2, <2>3, Zenon DEF Unread
    <3>2. ASSUME NEW v \in Underlay, NEW i \in 1..Len(inbox'[v])
          PROVE  inbox'[v][i] # y
      <4>1. CASE v = u
        BY <1>2, <2>3, <3>2, <4>1, Zenon DEF Unread
      <4>2. CASE v # u
        BY <1>1, <2>3, <3>2, <4>2, Zenon DEF Unread
      <4>3. QED
        BY <4>1, <4>2, Zenon
    <3>3. QED
      BY <3>1, <3>2, Zenon DEF Unread
  <2>4. QED
    BY <2>1, <2>2, <2>3, Zenon
<1>5. /\ \A y \in unsent' : Nowhere(y)'
      /\ \A y \in asked' : Made(y.key, y.try)'
      /\ \A y \in Replies' : y \in asked' \/ ~Made(y.key, y.try)' => Nowhere(y)'
  <2>1. \A y : Nowhere(y) => Nowhere(y)'
    BY <1>4, Zenon DEF Nowhere
  <2>2. QED
    BY <1>1, <2>1, SameConfig, Zenon DEF PlaceInv, SameSets, Made
<1>6. \A v \in Underlay : \A i \in 1..Len(inbox'[v]) :
        \E j \in 1..Len(inbox[v]) : /\ inbox'[v][i] = inbox[v][j] /\ (v = u => j = i + 1)
                                    /\ v # u => j = i
  BY <1>1, <1>2, Zenon
<1>7. \A v, w \in Underlay : \A i \in 1..Len(inbox'[v]), j \in 1..Len(inbox'[w]) :
        inbox'[v][i] = inbox'[w][j] => v = w /\ i = j
  <2> SUFFICES ASSUME NEW v \in Underlay, NEW w \in Underlay,
                      NEW i \in 1..Len(inbox'[v]), NEW j \in 1..Len(inbox'[w]), inbox'[v][i] = inbox'[w][j]
               PROVE  v = w /\ i = j
    BY Zenon
  <2>1. PICK a \in 1..Len(inbox[v]) : /\ inbox'[v][i] = inbox[v][a] /\ (v = u => a = i + 1)
                                      /\ v # u => a = i
    BY <1>6, Zenon
  <2>2. PICK b \in 1..Len(inbox[w]) : /\ inbox'[w][j] = inbox[w][b] /\ (w = u => b = j + 1)
                                      /\ w # u => b = j
    BY <1>6, Zenon
  <2>3. inbox[v][a] = inbox[w][b]
    BY <2>1, <2>2, Zenon
  <2>4. v = w /\ a = b
    <3>1. \A p, q \in Underlay : \A m1 \in 1..Len(inbox[p]), m2 \in 1..Len(inbox[q]) :
            inbox[p][m1] = inbox[q][m2] => p = q /\ m1 = m2
      BY Zenon DEF PlaceInv
    <3>2. QED
      BY <2>3, <3>1, Zenon
  <2>5. i \in Int /\ j \in Int
    OBVIOUS
  <2>6. i + 1 = j + 1 => i = j
    BY <2>5
  <2>7. QED
    BY <2>1, <2>2, <2>4, <2>6, Zenon
<1>8. \A v \in Underlay : \A i \in 1..Len(inbox'[v]) : (Untaken(inbox[v][i]) /\ Unheld(inbox[v][i]))'
  <2> SUFFICES ASSUME NEW v \in Underlay, NEW i \in 1..Len(inbox'[v])
               PROVE  (Untaken(inbox[v][i]) /\ Unheld(inbox[v][i]))'
    BY Zenon
  <2>1. PICK j \in 1..Len(inbox[v]) : inbox'[v][i] = inbox[v][j] /\ (v = u => j = i + 1)
    BY <1>6, Zenon
  <2>2. PICK y : y = inbox'[v][i]
    BY Zenon
  <2>3. y # x
    <3>1. v = u => j # 1
      BY <2>1
    <3>2. QED
      BY <1>2, <2>1, <2>2, <3>1, SMTT(30) DEF PlaceInv
  <2>4. Untaken(y) /\ Unheld(y)
    BY <2>1, <2>2, Zenon DEF PlaceInv
  <2>5. Untaken(y)' /\ Unheld(y)'
    BY <1>4, <2>3, <2>4, Zenon
  <2>6. QED
    BY <2>2, <2>5, Zenon DEF Untaken, Unheld
<1>9. /\ \A v \in Underlay : Holds(v)' => Untaken(cur[v])'
      /\ \A v, w \in Underlay : Holds(v)' /\ Holds(w)' /\ cur'[v] = cur'[w] => v = w
  BY <1>1, <1>2, <1>3 DEF PlaceInv, Untaken, Unheld
<1>10. \A k \in Key : out'[k] # "none" =>
            Message("ask", k) \in config'.incoming /\ ~Untaken(Message("ask", k))'
  BY <1>1, Zenon DEF PlaceInv, Untaken
<1>11. QED
  BY <1>5, <1>7, <1>8, <1>9, <1>10, Zenon DEF PlaceInv

\* Somebody takes the message that a rxer has.
LEMMA TakingKeepsPlaces ==
    ASSUME RxTypes, PlaceInv, NEW u \in Underlay, Holds(u), cur[u] \in Messages, ~Holds(u)',
           \A v \in Underlay \ {u} : Holds(v)' <=> Holds(v),
           UNCHANGED <<config, inbox, unsent, asked, cur, tries>>,
           NEW who \in Takers, taken' = [taken EXCEPT ![cur[u]] = Append(@, who)],
           \A k \in Key : \/ out'[k] = out[k]
                          \/ cur[u] = Message("ask", k) /\ cur[u] \in config.incoming /\ out'[k] = "queued"
    PROVE  PlaceInv'
<1>1. Untaken(cur[u]) /\ taken'[cur[u]] # <<>>
  <2>1. /\ Untaken(cur[u]) /\ taken[cur[u]] \in Seq(Takers)
        /\ taken'[cur[u]] = Append(taken[cur[u]], who)
    BY Zenon DEF PlaceInv, RxTypes
  <2>2. QED
    BY <2>1, AppendInSeq, Zenon
<1>2. \A k \in Key : out'[k] = out[k] \/ (out[k] = "none" /\ out'[k] = "queued")
  BY <1>1, Zenon DEF PlaceInv
<1>3. /\ \A x \in Messages : x # cur[u] => (Untaken(x)' <=> Untaken(x))
      /\ \A x : Unheld(x) => Unheld(x)' /\ x # cur[u]
      /\ \A x : Unread(x)' <=> Unread(x)
  <2>1. \A x \in Messages : x # cur[u] => (Untaken(x)' <=> Untaken(x))
    BY Zenon DEF Untaken, RxTypes
  <2>2. \A x : Unheld(x) => Unheld(x)' /\ x # cur[u]
    BY Zenon DEF Unheld
  <2>3. \A x : Unread(x)' <=> Unread(x)
    BY Zenon DEF Unread
  <2>4. QED
    BY <2>1, <2>2, <2>3, Zenon
<1>4. /\ \A x \in unsent : x \in Messages
      /\ \A x \in Replies : x \in Messages
      /\ \A v \in Underlay : \A i \in 1..Len(inbox[v]) : inbox[v][i] \in Messages
  <2>1. (\A x \in unsent : x \in Messages) /\ \A x \in Replies : x \in Messages
    BY Zenon DEF RxTypes, Messages
  <2>2. \A v \in Underlay : inbox[v] \in Seq(Messages)
    BY Zenon DEF RxTypes
  <2>3. QED
    BY <2>1, <2>2, SeqElement, Zenon
<1>5. /\ \A x \in unsent' : Nowhere(x)'
      /\ \A x \in asked' : Made(x.key, x.try)'
      /\ \A x \in Replies' : x \in asked' \/ ~Made(x.key, x.try)' => Nowhere(x)'
  <2>1. \A x \in Messages : Nowhere(x) => Nowhere(x)'
    BY <1>3, Zenon DEF Nowhere
  <2>2. \A x \in Replies : x.key \in Key
    BY <1>4, MessageTypes, Zenon DEF IsReply, RxTypes
  <2>3. \A x \in Replies : Made(x.key, x.try) => Made(x.key, x.try)'
    BY <1>2, <2>2, Zenon DEF Made
  <2>4. asked \subseteq Replies
    BY Zenon DEF RxTypes
  <2>5. QED
    BY <1>4, <2>1, <2>3, <2>4, SameConfig, Zenon DEF PlaceInv, SameSets
<1>6. \A v \in Underlay : \A i \in 1..Len(inbox'[v]) : (Untaken(inbox[v][i]) /\ Unheld(inbox[v][i]))'
  <2> SUFFICES ASSUME NEW v \in Underlay, NEW i \in 1..Len(inbox'[v])
               PROVE  (Untaken(inbox[v][i]) /\ Unheld(inbox[v][i]))'
    BY Zenon
  <2>1. PICK x : x = inbox'[v][i]
    BY Zenon
  <2>2. x \in Messages /\ Untaken(x) /\ Unheld(x)
    BY <1>4, <2>1, Zenon DEF PlaceInv
  <2>3. Untaken(x)' /\ Unheld(x)'
    BY <1>3, <2>2, Zenon
  <2>4. QED
    BY <2>1, <2>3, Zenon DEF Untaken, Unheld
<1>7. \A v \in Underlay : Holds(v)' => Untaken(cur[v])'
  BY <1>3, Zenon DEF PlaceInv, Untaken, RxTypes
<1>8. \A k \in Key : out'[k] # "none" =>
        Message("ask", k) \in config'.incoming /\ ~Untaken(Message("ask", k))'
  <2> SUFFICES ASSUME NEW k \in Key, out'[k] # "none"
               PROVE  Message("ask", k) \in config.incoming /\ ~Untaken(Message("ask", k))'
    BY Zenon
  <2>1. Message("ask", k) \in config.incoming
    BY Zenon DEF PlaceInv
  <2>2. Message("ask", k) # cur[u] => out[k] # "none"
    BY Zenon
  <2>3. QED
    BY <1>1, <1>3, <2>1, <2>2, Zenon DEF PlaceInv, Untaken, Messages
<1>9. /\ \A v, w \in Underlay : \A i \in 1..Len(inbox'[v]), j \in 1..Len(inbox'[w]) :
            inbox'[v][i] = inbox'[w][j] => v = w /\ i = j
      /\ \A v, w \in Underlay : Holds(v)' /\ Holds(w)' /\ cur'[v] = cur'[w] => v = w
  BY DEF PlaceInv
<1>10. QED
  BY <1>5, <1>6, <1>7, <1>8, <1>9, Zenon DEF PlaceInv

LEMMA NextKeepsPlaces ==
    ASSUME CloseTypes, RxTypes, PlaceInv, DNext
    PROVE  PlaceInv'
<1>1. CASE QuietStep
  <2>1. /\ UNCHANGED <<config, inbox, unsent, asked, cur, taken>> /\ asked \subseteq Replies
        /\ \A u \in Underlay : Holds(u)' => Holds(u)
        /\ \A k \in Key : out'[k] = "none" <=> out[k] = "none"
    BY <1>1, Zenon DEF QuietStep, Holds, RxTypes
  <2>2. \A msg \in Replies : msg.key \in Key /\ msg.try \in 0..config.requeues
    BY MessageTypes, Zenon DEF RxTypes, Messages, IsReply
  <2>3. \A msg \in Replies : Made(msg.key, msg.try) => Made(msg.key, msg.try)'
    BY <1>1, <2>2, Zenon DEF QuietStep
  <2>4. QED
    BY <2>1, <2>3, HeldOrLess, Zenon
<1>2. ASSUME NEW u \in Underlay, PeerSends(u)
      PROVE  PlaceInv'
  <2>1. PICK msg \in unsent : inbox' = [inbox EXCEPT ![u] = Append(@, msg)] /\ unsent' = unsent \ {msg}
    BY <1>2, Zenon DEF PeerSends
  <2>2. UNCHANGED <<config, rxer, cur, taken, out, tries, asked>>
    BY <1>2, Zenon DEF PeerSends, bindVars, rxVars
  <2>3. msg \in Messages /\ msg \notin Replies
    <3>1. config \in Configs /\ msg \in config.incoming /\ msg \in Messages
      BY Zenon DEF RxTypes, Messages
    <3>2. msg.type # "reply"
      BY <3>1, ConfigsAssumption
    <3>3. QED
      BY <3>1, <3>2, MessageTypes, Zenon
  <2>4. Nowhere(msg)
    BY Zenon DEF PlaceInv
  <2>5. QED
    BY <2>1, <2>2, <2>3, <2>4, SendingKeepsPlaces, Zenon
<1>3. ASSUME NEW u \in Underlay, PeerReplies(u)
      PROVE  PlaceInv'
  <2>1. PICK msg \in asked : inbox' = [inbox EXCEPT ![u] = Append(@, msg)] /\ asked' = asked \ {msg}
    BY <1>3, Zenon DEF PeerReplies
  <2>2. UNCHANGED <<config, rxer, cur, taken, out, tries, unsent>>
    BY <1>3, Zenon DEF PeerReplies, bindVars, rxVars
  <2>3. msg \in Replies /\ msg \in Messages /\ msg \notin unsent
    <3>1. config \in Configs /\ msg \in Replies /\ msg \in Messages /\ unsent \subseteq config.incoming
      BY Zenon DEF RxTypes, Messages
    <3>2. msg.type = "reply"
      BY <3>1, MessageTypes, Zenon
    <3>3. QED
      BY <3>1, <3>2, ConfigsAssumption
  <2>4. Nowhere(msg) /\ Made(msg.key, msg.try)
    BY <2>3, Zenon DEF PlaceInv
  <2>5. QED
    BY <2>1, <2>2, <2>3, <2>4, SendingKeepsPlaces, Zenon
<1>4. ASSUME NEW u \in Underlay, RxerReads(u)
      PROVE  PlaceInv'
  BY <1>4, ReadingKeepsPlaces, Zenon
<1>5. ASSUME NEW u \in Underlay, RemoveWaiter(u)
      PROVE  PlaceInv'
  <2>1. UNCHANGED <<config, inbox, unsent, asked, cur, taken, out, tries>> /\ asked \subseteq Replies
    BY <1>5, RemoveWaiterEffect, Zenon DEF RxTypes
  <2>2. \A v \in Underlay : Holds(v)' => Holds(v)
    BY <1>5, RemoveWaiterEffect, Zenon DEF Holds
  <2>3. \A k, n : Made(k, n) => Made(k, n)'
    BY <2>1, Zenon DEF Made
  <2>4. QED
    BY <2>1, <2>2, <2>3, HeldOrLess, Zenon
<1>6. ASSUME NEW u \in Underlay, AcceptReply(u)
      PROVE  PlaceInv'
  <2>1. /\ UNCHANGED <<config, inbox, unsent, asked, cur, tries>> /\ out' = out /\ cur[u] \in Messages /\ "waiter" \in Takers
        /\ taken' = [taken EXCEPT ![cur[u]] = Append(@, "waiter")]
    BY <1>6, AcceptReplyEffect, Zenon DEF Takers
  <2>2. Holds(u) /\ ~Holds(u)' /\ \A v \in Underlay \ {u} : Holds(v)' <=> Holds(v)
    BY <1>6, AcceptReplyEffect, Zenon DEF Holds
  <2>3. QED
    BY <2>1, <2>2, TakingKeepsPlaces, Zenon
<1>7. ASSUME NEW u \in Underlay, rxHandler(u)
      PROVE  PlaceInv'
  <2>1. /\ UNCHANGED <<config, inbox, unsent, asked, cur, tries>> /\ cur[u] \in Messages
        /\ \A k \in Key : \/ out'[k] = out[k]
                          \/ cur[u] = Message("ask", k) /\ cur[u] \in config.incoming /\ out'[k] = "queued"
    BY <1>7, rxHandlerEffect, Zenon
  <2>2. PICK who \in Takers :
           /\ taken' = [taken EXCEPT ![cur[u]] = Append(@, who)]
           /\ who # "waiter" \/ cur[u].type = "waiter"
           /\ who = "dropped" => {cur[u].type, "any"} \cap handlers = {}
           /\ who = "any" => cur[u].type \notin handlers
    BY <1>7, rxHandlerEffect, Zenon
  <2>3. Holds(u) /\ ~Holds(u)' /\ \A v \in Underlay \ {u} : Holds(v)' <=> Holds(v)
    <3>1. /\ rxer[u] = "dispatch" /\ rxer'[u] \in {"rx", "handler"}
          /\ \A v \in Underlay \ {u} : rxer'[v] = rxer[v]
      BY <1>7, rxHandlerEffect, ZenonT(60)
    <3>2. QED
      BY <3>1, Zenon DEF Holds
  <2>4. QED
    BY <2>1, <2>2, <2>3, TakingKeepsPlaces, Zenon
<1>8. ASSUME NEW k \in Key, TxWrites(k)
      PROVE  PlaceInv'
  <2>1. UNCHANGED <<config, inbox, unsent, rxer, cur, taken, tries>>
    BY <1>8, Zenon DEF TxWrites, dispatchOnly, bindVars, rxVars
  <2>2. /\ asked' = asked \cup {Reply(k, tries[k])} /\ out[k] = "added" /\ out'[k] \in {"sent", "failing"}
        /\ \A j \in Key \ {k} : out'[j] = out[j]
    BY <1>8, Zenon DEF TxWrites, RxTypes
  <2>3. /\ \A x : (Untaken(x)' <=> Untaken(x)) /\ (Unheld(x)' <=> Unheld(x)) /\ (Unread(x)' <=> Unread(x))
        /\ \A x : Nowhere(x)' <=> Nowhere(x)
    BY <2>1, Zenon DEF Untaken, Unheld, Unread, Nowhere, Holds
  <2>4. \A msg \in Replies : msg.key \in Key /\ msg \in Messages
    BY MessageTypes, Zenon DEF RxTypes, Messages, IsReply
  <2>5. PICK new : new = Reply(k, tries[k]) /\ new.key = k /\ new.try = tries[k]
    <3>1. Reply(k, tries[k]).key = k /\ Reply(k, tries[k]).try = tries[k]
      BY Zenon DEF Reply
    <3>2. QED
      BY <3>1, Zenon
  <2>6. new \in Replies /\ ~Made(k, tries[k]) /\ Made(k, tries[k])'
    <3>1. tries[k] \in 0..config.requeues /\ ~(tries[k] < tries[k])
      BY DEF RxTypes, Tries
    <3>2. QED
      BY <2>1, <2>2, <2>5, <3>1, ReplyIn, ZenonT(60) DEF Made
  <2>7. \A msg \in Replies : Made(msg.key, msg.try) => Made(msg.key, msg.try)'
    BY <2>1, <2>2, <2>4, Zenon DEF Made
  <2>8. /\ \A x \in unsent' : Nowhere(x)'
        /\ \A x \in asked' : Made(x.key, x.try)'
        /\ \A x \in Replies' : x \in asked' \/ ~Made(x.key, x.try)' => Nowhere(x)'
    <3>1. Nowhere(new)
      BY <2>5, <2>6, Zenon DEF PlaceInv
    <3>2. asked' = asked \cup {new} /\ asked \subseteq Replies /\ Replies' = Replies
      BY <2>1, <2>2, <2>5, SameConfig, Zenon DEF RxTypes, SameSets
    <3>3. \A x \in asked' : Made(x.key, x.try)'
      BY <2>1, <2>5, <2>6, <2>7, <3>2, Zenon DEF PlaceInv
    <3>4. QED
      BY <2>1, <2>3, <2>7, <3>1, <3>2, <3>3, Zenon DEF PlaceInv
  <2>9. \A j \in Key : out'[j] # "none" => out[j] # "none"
    BY <2>2, Zenon
  <2>10. QED
    BY <2>1, <2>3, <2>8, <2>9 DEF PlaceInv, Holds
<1>9. QED
  BY <1>1, <1>2, <1>3, <1>4, <1>5, <1>6, <1>7, <1>8, DispatchSteps, Zenon

-----------------------------------------------------------------------------
(* Whose turn it is at a waiter *)

\* No rxer runs on a connection that was not started.
NewInv == \A u \in Underlay : conn[u] = "new" => rxer[u] = "none"

LEMMA NextKeepsNew ==
    ASSUME CloseTypes, CloseInv, NewInv, DNext
    PROVE  NewInv'
<1>1. ASSUME NEW u \in Underlay, startMultiplex(u)
      PROVE  NewInv'
  BY <1>1, Zenon DEF startMultiplex, NewInv, CloseTypes
<1>2. ASSUME rxer' = rxer, \A u \in Underlay : conn'[u] = "new" => conn[u] = "new"
      PROVE  NewInv'
  BY <1>2, Zenon DEF NewInv
<1>3. CASE BindStep
  <2>1. Started \/ (rxer' = rxer /\ (conn' = conn \/ conn' = [conn EXCEPT ![First] = "closed"]))
    BY <1>3, Zenon DEF BindStep, BindChannel, BindFails, BindFailed, rxVars
  <2>2. QED
    BY <1>1, <1>2, <2>1, DispatchAssumption, Zenon DEF Started, CloseTypes
<1>4. ASSUME NEW u \in Underlay, AcceptUnderlay(u)
      PROVE  NewInv'
  BY <1>1, <1>2, <1>4, Zenon DEF AcceptUnderlay, CloseTypes
<1>5. ASSUME NEW c \in Closer, CloseCalled(c) \/ CloseBegins(c) \/ CloseUnderlays(c)
      PROVE  NewInv'
  BY <1>2, <1>5, Zenon DEF CloseCalled, CloseBegins, CloseUnderlays, rxVars
<1>6. CASE ~BindStep /\ (\A c \in Closer : ~CloseCalled(c) /\ ~CloseBegins(c) /\ ~CloseUnderlays(c))
           /\ \A u \in Underlay : ~AcceptUnderlay(u)
  BY <1>6, QuietForClose DEF NewInv, CloseTypes, At
<1>7. QED
  BY <1>3, <1>4, <1>5, <1>6, Zenon

\* The steps that leave the requests alone, and the rxers that have deleted a waiter.
Elsewhere ==
    /\ UNCHANGED <<out, tries>>
    /\ \A u \in Underlay : rxer[u] = "accept" => rxer'[u] = "accept" /\ cur'[u] = cur[u]
    /\ \A k \in Key : call'[k] = "waiting" => call[k] = "waiting"
    /\ adding' = adding /\ removing' = removing
    /\ m' \subseteq m
    /\ \A k \in m : k \in m' \/ (\E r \in Underlay : target[r] = k /\ Delete(r)) \/ (Clear /\ \E c \in Closer : closer[c] = "clear")

LEMMA ElsewhereSteps ==
    ASSUME CloseTypes, CloseInv, NewInv, RxTypes, DNext
    PROVE  \/ \E u \in Underlay : RemoveWaiter(u) \/ AcceptReply(u) \/ rxHandler(u)
           \/ \E k \in Key : TxStep(k)
           \/ Elsewhere
<1>1. ASSUME UNCHANGED <<out, tries, call, m, adding, removing>>,
             \A u \in Underlay : rxer[u] = "accept" => rxer'[u] = "accept" /\ cur'[u] = cur[u]
      PROVE  Elsewhere
  BY <1>1, Zenon DEF Elsewhere
<1>2. ASSUME UNCHANGED <<out, tries, call, m, adding, removing, cur>>,
             NEW u \in Underlay, rxer[u] # "accept", NEW pc, rxer' = [rxer EXCEPT ![u] = pc]
      PROVE  Elsewhere
  <2>1. \A v \in Underlay : rxer[v] = "accept" => rxer'[v] = "accept" /\ cur'[v] = cur[v]
    BY <1>2, Zenon DEF CloseTypes
  <2>2. QED
    BY <1>1, <1>2, <2>1, Zenon
<1>3. CASE BindStep
  <2>1. /\ UNCHANGED <<out, tries, call, m, adding, removing, cur>>
        /\ rxer' = rxer \/ (rxer' = [rxer EXCEPT ![First] = "rx"] /\ channel = "binding")
    BY <1>3, Zenon DEF BindStep, BindChannel, BindFails, BindFailed, Started, startMultiplex, rxVars, vars
  <2>2. First \in Underlay /\ (channel = "binding" => rxer[First] = "none")
    BY DispatchAssumption, Zenon DEF CloseInv
  <2>3. QED
    BY <1>1, <1>2, <2>1, <2>2, Zenon
<1>4. ASSUME NEW c \in Closer, CloseCalled(c) \/ CloseBegins(c) \/ CloseUnderlays(c)
      PROVE  Elsewhere
  BY <1>1, <1>4, Zenon DEF CloseCalled, CloseBegins, CloseUnderlays, rxVars, vars
<1>5. ASSUME NEW c \in Closer, ClearWaiters(c)
      PROVE  Elsewhere
  <2>1. UNCHANGED <<out, tries, call, adding, removing, rxer, cur>> /\ closer[c] = "clear"
    BY <1>5, Zenon DEF ClearWaiters, Zero, Clear, rxVars
  <2>2. m' = m \/ (Clear /\ m' = {})
    BY <1>5, Zenon DEF ClearWaiters, Zero, Clear
  <2>3. QED
    BY <1>5, <2>1, <2>2, Zenon DEF Elsewhere
<1>6. ASSUME NEW u \in Underlay, AcceptUnderlay(u)
      PROVE  Elsewhere
  <2>1. /\ UNCHANGED <<out, tries, call, m, adding, removing, cur>> /\ rxer[u] = "none"
        /\ rxer' = rxer \/ rxer' = [rxer EXCEPT ![u] = "rx"]
    BY <1>6, Zenon DEF AcceptUnderlay, startMultiplex, vars, NewInv
  <2>2. QED
    BY <1>1, <1>2, <2>1, Zenon
<1>7. ASSUME NEW u \in Underlay, ConnLost(u) \/ PeerSends(u) \/ PeerReplies(u)
      PROVE  Elsewhere
  BY <1>1, <1>7, Zenon DEF ConnLost, PeerSends, PeerReplies, rxVars, vars
<1>8. ASSUME NEW u \in Underlay, RxerReads(u)
      PROVE  Elsewhere
  <2>1. UNCHANGED <<out, tries, call, m, adding, removing>>
    BY <1>8, Zenon DEF RxerReads, vars
  <2>2. \A v \in Underlay : rxer[v] = "accept" => rxer'[v] = "accept" /\ cur'[v] = cur[v]
    BY <1>8, RxerReadsEffect, Zenon DEF RxTypes
  <2>3. QED
    BY <1>1, <2>1, <2>2, Zenon
<1>9. ASSUME NEW u \in Underlay, RxerExits(u) \/ RxReply(u) \/ HandlerReturns(u)
      PROVE  Elsewhere
  <2>1. UNCHANGED <<out, tries, call, m, adding, removing, cur>> /\ rxer[u] # "accept"
    BY <1>9, Zenon DEF RxerExits, RxReply, ReapBegin, HandlerReturns, vars
  <2>2. \E pc : rxer' = [rxer EXCEPT ![u] = pc]
    BY <1>9, Zenon DEF RxerExits, RxReply, HandlerReturns, At
  <2>3. QED
    BY <1>2, <2>1, <2>2, Zenon
<1>10. ASSUME NEW u \in Underlay, RxReaps(u)
      PROVE  Elsewhere
  <2>1. UNCHANGED <<out, tries, call, adding, removing, cur>> /\ rxer[u] = "reap"
    BY <1>10, Zenon DEF RxReaps, Visit, Delete, ReapEnd
  <2>2. \A v \in Underlay : rxer[v] = "accept" => rxer'[v] = "accept" /\ cur'[v] = cur[v]
    BY <1>10, <2>1, Zenon DEF RxReaps, At, CloseTypes
  <2>3. m' = m \/ (Delete(u) /\ m' = m \ {target[u]})
    BY <1>10, Zenon DEF RxReaps, Visit, Delete, ReapEnd
  <2>4. QED
    BY <2>1, <2>2, <2>3, Zenon DEF Elsewhere
<1>11. ASSUME NEW k \in Key, CallEnds(k) \/ Expires(k)
      PROVE  Elsewhere
  <2>1. UNCHANGED <<out, tries, m, adding, removing, rxer, cur>>
    BY <1>11, Zenon DEF CallEnds, Expires, Expire, dispatchOnly, rxVars, vars
  <2>2. \A j \in Key : call'[j] = "waiting" => call[j] = "waiting"
    BY <1>11, Zenon DEF CallEnds, Ended, Expires, RxTypes
  <2>3. QED
    BY <2>1, <2>2, Zenon DEF Elsewhere
<1>12. QED
  BY <1>3, <1>4, <1>5, <1>6, <1>7, <1>8, <1>9, <1>10, <1>11, Zenon DEF DNext, CloseStep, RxStep

\* What a request becomes.
LEMMA TxEffect ==
    ASSUME CloseTypes, RxTypes, NEW k \in Key, TxStep(k)
    PROVE  /\ UNCHANGED <<rxer, cur, closed>>
           /\ \A j \in Key \ {k} : out'[j] = out[j] /\ tries'[j] = tries[j]
           /\ \A j \in Key : call'[j] = "waiting" => call[j] = "waiting"
           /\ \/ out[k] \in {"queued", "added"} /\ out'[k] = "notified" /\ call'[k] # "waiting" /\ UNCHANGED <<vars, tries>>
              \/ out[k] = "queued" /\ out'[k] = "stored" /\ Store(k) /\ tries' = tries
              \/ out[k] = "stored" /\ out'[k] = "added" /\ CountStored(k) /\ tries' = tries
              \/ out[k] = "added" /\ out'[k] \in {"sent", "failing"} /\ UNCHANGED <<vars, tries>>
              \/ out[k] \in {"added", "failing"} /\ out'[k] = "failed" /\ LoadAndDelete(k, k) /\ tries' = tries
              \/ out[k] = "failed" /\ out'[k] = "queued" /\ TxCountsRemoved(k) /\ tries'[k] = tries[k] + 1
              \/ /\ out[k] = "failed" /\ out'[k] = "notified" /\ TxCountsRemoved(k) /\ tries' = tries
                 /\ call'[k] # "waiting"
<1>1. UNCHANGED <<rxer, cur, closed>>
  BY Zenon DEF TxStep, TxDrops, TxAddsWaiter, TxWrites, SetWriteTimeoutFails, TxFails, HandleTxFailed,
     NotifyErr, dispatchOnly, rxVars, closeVars
<1>2. /\ \A j \in Key \ {k} : out'[j] = out[j] /\ tries'[j] = tries[j]
      /\ \A j \in Key : call'[j] = "waiting" => call[j] = "waiting"
  <2>1. /\ \E pc : out' = [out EXCEPT ![k] = pc]
        /\ tries' = tries \/ tries' = [tries EXCEPT ![k] = tries[k] + 1]
        /\ call' = call \/ Ended(k, "timeout") \/ Ended(k, "error")
    BY Zenon DEF TxStep, TxDrops, TxAddsWaiter, TxWrites, SetWriteTimeoutFails, TxFails, HandleTxFailed,
       NotifyErr
  <2>2. QED
    BY <2>1, Zenon DEF Ended, RxTypes, Tries
<1>3. Ended(k, "timeout") \/ Ended(k, "error") => call'[k] # "waiting"
  BY Zenon DEF Ended, RxTypes
<1>4. \A pc : out' = [out EXCEPT ![k] = pc] => out'[k] = pc
  BY Zenon DEF RxTypes
<1>5. CASE TxDrops(k) \/ SetWriteTimeoutFails(k)
  BY <1>1, <1>2, <1>3, <1>4, <1>5, Zenon DEF TxDrops, SetWriteTimeoutFails
<1>6. CASE TxAddsWaiter(k)
  BY <1>1, <1>2, <1>4, <1>6, Zenon DEF TxAddsWaiter
<1>7. CASE TxWrites(k) \/ TxFails(k)
  BY <1>1, <1>2, <1>4, <1>7, Zenon DEF TxWrites, TxFails
<1>8. CASE HandleTxFailed(k)
  BY <1>1, <1>2, <1>4, <1>8, Zenon DEF HandleTxFailed, RxTypes, Tries
<1>9. CASE NotifyErr(k)
  BY <1>1, <1>2, <1>3, <1>4, <1>9, Zenon DEF NotifyErr
<1>10. QED
  BY <1>5, <1>6, <1>7, <1>8, <1>9, Zenon DEF TxStep

\* A call begins with an ask, once.
LEMMA AskIsNew ==
    ASSUME CloseTypes, RxTypes, PlaceInv, NEW u \in Underlay, rxHandler(u)
    PROVE  \A k \in Key : \/ call'[k] = call[k] /\ out'[k] = out[k]
                          \/ out[k] = "none" /\ out'[k] = "queued"
<1>1. Untaken(cur[u])
  BY rxHandlerEffect, Zenon DEF PlaceInv, Holds
<1>2. \A k \in Key : cur[u] = Message("ask", k) => out[k] = "none"
  BY <1>1, ZenonT(60) DEF PlaceInv
<1>3. QED
  BY <1>2, rxHandlerEffect, Zenon

LEMMA NextKeepsOwn ==
    ASSUME CloseTypes, CloseInv, NewInv, RxTypes, PlaceInv, TypeOK, OwnInv, DNext
    PROVE  OwnInv'
<1>1. CASE Elsewhere
  BY <1>1, Zenon DEF Elsewhere, OwnInv, TypeOK
<1>2. ASSUME NEW u \in Underlay, RemoveWaiter(u)
      PROVE  OwnInv'
  <2>1. /\ UNCHANGED <<out, adding>> /\ m' \subseteq m /\ rxer[u] = "remove"
        /\ \A v \in Underlay \ {u} : rxer'[v] = rxer[v]
    BY <1>2, RemoveWaiterEffect, Zenon DEF LoadAndDelete
  <2>2. removing' = removing \/ (removing' = removing \cup {u} /\ rxer'[u] = "accept")
    BY <1>2, Zenon DEF RemoveWaiter, LoadAndDelete, At, CloseTypes
  <2>3. u \notin Key
    BY WaiterMapAssumption, Zenon DEF Underlay
  <2>4. QED
    BY <2>1, <2>2, <2>3, Zenon DEF OwnInv
<1>3. ASSUME NEW u \in Underlay, AcceptReply(u)
      PROVE  OwnInv'
  <2>1. /\ UNCHANGED <<out, adding, m>> /\ removing' = removing \ {u}
        /\ \A v \in Underlay \ {u} : rxer'[v] = rxer[v]
    BY <1>3, AcceptReplyEffect, Zenon DEF CountDeleted
  <2>2. QED
    BY <2>1, Zenon DEF OwnInv
<1>4. ASSUME NEW u \in Underlay, rxHandler(u)
      PROVE  OwnInv'
  <2>1. /\ UNCHANGED <<adding, m, removing>> /\ rxer[u] = "dispatch"
        /\ \A v \in Underlay \ {u} : rxer'[v] = rxer[v]
    BY <1>4, rxHandlerEffect, Zenon DEF vars
  <2>2. \A k \in Key : out'[k] = out[k] \/ (out[k] = "none" /\ out'[k] = "queued")
    BY <1>4, AskIsNew, Zenon
  <2>3. QED
    BY <2>1, <2>2, ZenonT(60) DEF OwnInv, TypeOK
<1>5. ASSUME NEW k \in Key, TxStep(k)
      PROVE  OwnInv'
  <2>1. rxer' = rxer /\ \A j \in Key \ {k} : out'[j] = out[j]
    BY <1>5, TxEffect, Zenon
  <2>2. k \notin Reaper /\ m \subseteq Key /\ adding \subseteq Key
    BY WaiterMapAssumption, Zenon DEF TypeOK
  <2>3. CASE /\ out[k] \in {"queued", "added"} /\ out'[k] \in {"notified", "sent", "failing"}
             /\ UNCHANGED vars
    BY <2>1, <2>2, <2>3, Zenon DEF OwnInv, vars
  <2>4. CASE out[k] = "queued" /\ out'[k] = "stored" /\ Store(k)
    BY <2>1, <2>2, <2>4, Zenon DEF OwnInv, Store
  <2>5. CASE out[k] = "stored" /\ out'[k] = "added" /\ CountStored(k)
    BY <2>1, <2>2, <2>5, Zenon DEF OwnInv, CountStored
  <2>6. CASE out[k] \in {"added", "failing"} /\ out'[k] = "failed" /\ LoadAndDelete(k, k)
    BY <2>1, <2>2, <2>6, Zenon DEF OwnInv, LoadAndDelete, Underlay
  <2>7. CASE out[k] = "failed" /\ out'[k] \in {"queued", "notified"} /\ TxCountsRemoved(k)
    <3>1. UNCHANGED <<m, adding>> /\ removing' = removing \ {k}
      BY <2>7, Zenon DEF TxCountsRemoved, CountDeleted, vars
    <3>2. QED
      BY <2>1, <2>2, <2>7, <3>1, Zenon DEF OwnInv
  <2>8. QED
    BY <1>5, <2>3, <2>4, <2>5, <2>6, <2>7, TxEffect, Zenon
<1>6. QED
  BY <1>1, <1>2, <1>3, <1>4, <1>5, ElsewhereSteps, Zenon

-----------------------------------------------------------------------------
(* Every message goes to the one it is for *)

\* All that the bind handlers add is there when the channel opens.
HandlerInv ==
    /\ bound \in 0..Len(plan)
    /\ handlers = {plan[i] : i \in 1..bound}
    /\ channel = "open" => bound = Len(plan)

LEMMA NextKeepsHandlers ==
    ASSUME config \in Configs, HandlerInv, DNext
    PROVE  HandlerInv'
<1>1. plan \in Seq(STRING) /\ Len(plan) \in Nat
  BY ConfigsAssumption DEF plan
<1>2. CASE BindChannel
  <2>1. /\ bound' = bound + 1 /\ bound < Len(plan) /\ handlers' = handlers \cup {plan[bound + 1]}
        /\ config' = config /\ channel' = "binding"
    BY <1>2, Zenon DEF BindChannel
  <2>2. {plan[i] : i \in 1..(bound + 1)} = {plan[i] : i \in 1..bound} \cup {plan[bound + 1]}
    BY <1>1 DEF HandlerInv
  <2>3. plan' = plan
    BY <2>1, Zenon DEF plan
  <2>4. QED
    BY <1>1, <2>1, <2>2, <2>3 DEF HandlerInv
<1>3. CASE Started
  BY <1>1, <1>3, Zenon DEF Started, AllBound, HandlerInv, plan
<1>4. CASE /\ UNCHANGED <<config, bound, handlers>>
           /\ channel' = "open" => channel = "open"
  BY <1>4, Zenon DEF HandlerInv, plan
<1>5. CASE BindFails \/ BindFailed
  BY <1>4, <1>5, Zenon DEF BindFails, BindFailed, bindVars
<1>6. ASSUME NEW c \in Closer, CloseCalled(c) \/ CloseStep(c)
      PROVE  UNCHANGED bindVars
  BY <1>6, Zenon DEF CloseCalled, CloseStep, CloseBegins, ClearWaiters, CloseUnderlays
<1>7. ASSUME NEW u \in Underlay, AcceptUnderlay(u) \/ ConnLost(u) \/ PeerSends(u) \/ PeerReplies(u)
      PROVE  UNCHANGED bindVars
  BY <1>7, Zenon DEF AcceptUnderlay, ConnLost, PeerSends, PeerReplies
<1>8. ASSUME NEW u \in Underlay, RxStep(u)
      PROVE  UNCHANGED bindVars
  BY <1>8, Zenon DEF RxStep, RxerReads, RxerExits, RxReply, RxReaps, RemoveWaiter, AcceptReply,
     rxHandler, HandlerReturns
<1>9. ASSUME NEW k \in Key, TxStep(k) \/ CallEnds(k) \/ Expires(k)
      PROVE  UNCHANGED bindVars
  BY <1>9, Zenon DEF TxStep, TxDrops, TxAddsWaiter, TxWrites, SetWriteTimeoutFails, TxFails,
     HandleTxFailed, NotifyErr, CallEnds, Expires, dispatchOnly
<1>10. QED
  BY <1>2, <1>3, <1>4, <1>5, <1>6, <1>7, <1>8, <1>9, Zenon DEF DNext, BindStep, bindVars
\* The call of request k has ended, or must end without its reply.
Over(k) == call[k] # "waiting" \/ k \in expired \/ closed

\* A rxer is giving a reply to the call.
Delivering(k) == \E u \in Underlay : rxer[u] = "accept" /\ cur[u].key = k

\* The reply to the n-th requeueing of k need not get to the call.
Settled(k, n) == Over(k) \/ n < tries[k] \/ out[k] = "failed" \/ Delivering(k)

\* The waiter of a request that was sent leaves the map only with its time, with the channel, or
\* with a reply.
KeptInv ==
    /\ \A k \in Key : out[k] \in {"stored", "added", "failing", "sent"} => k \in m \/ Over(k) \/ Delivering(k)
    /\ \A k \in Key : out[k] = "notified" => call[k] # "waiting"
    /\ \A r \in Reaper : target[r] # None => target[r] \in expired

RightTaker(msg, who) ==
    who # "waiter" =>
        /\ who = "dropped" => {msg.type, "any"} \cap Range(plan) = {}
        /\ who = "any" => msg.type \notin Range(plan)
        /\ msg.type = "reply" => Settled(msg.key, msg.try)

TakerInv ==
    /\ \A msg \in Messages : taken[msg] = <<>> \/ \E who \in Takers : taken[msg] = <<who>> /\ RightTaker(msg, who)
    /\ \A u \in Underlay : rxer[u] = "dispatch" /\ cur[u].type = "reply" => Settled(cur[u].key, cur[u].try)

\* All that the rest of the proof assumes.
BaseInv ==
    /\ CloseTypes /\ CloseInv /\ NewInv
    /\ RxTypes /\ PlaceInv
    /\ TypeOK /\ OwnInv

\* A channel stays closed, and a deadline past.
LEMMA OnlyGrows ==
    ASSUME CloseTypes, RxTypes, OwnInv, DNext
    PROVE  (closed => closed') /\ expired \subseteq expired'
<1>1. closed => closed'
  <2>1. CASE \E c \in Closer : CloseCalled(c) \/ CloseBegins(c) \/ CloseUnderlays(c)
    BY <2>1, Zenon DEF CloseCalled, CloseBegins, CloseUnderlays
  <2>2. CASE BindStep \/ \E u \in Underlay : AcceptUnderlay(u)
    BY <2>2, Zenon DEF BindStep, BindChannel, BindFails, BindFailed, Started, AcceptUnderlay,
       closeVars
  <2>3. QED
    BY <2>1, <2>2, QuietForClose, Zenon DEF closeVars
<1>2. expired \subseteq expired'
  <2>1. WaiterStep => expired \subseteq expired'
    BY Zenon DEF WaiterStep, Store, CountStored, LoadAndDelete, CountDeleted, Expire, ReapBegin,
       Visit, Delete, ReapEnd, Zero, Clear
  <2>2. QED
    BY <2>1, WaiterSteps, Zenon DEF vars
<1>3. QED
  BY <1>1, <1>2, Zenon

\* No call begins for a request that was made, ...
LEMMA CallStays ==
    ASSUME BaseInv, DNext, NEW k \in Key, out[k] # "none", call'[k] = "waiting"
    PROVE  call[k] = "waiting"
<1>1. CASE Elsewhere
  BY <1>1, Zenon DEF Elsewhere
<1>2. ASSUME NEW u \in Underlay, RemoveWaiter(u) \/ AcceptReply(u)
      PROVE  call[k] = "waiting"
  BY <1>2, RemoveWaiterEffect, AcceptReplyEffect, Zenon DEF BaseInv
<1>3. ASSUME NEW u \in Underlay, rxHandler(u)
      PROVE  call[k] = "waiting"
  BY <1>3, AskIsNew, Zenon DEF BaseInv
<1>4. ASSUME NEW j \in Key, TxStep(j)
      PROVE  call[k] = "waiting"
  BY <1>4, TxEffect, Zenon DEF BaseInv
<1>5. QED
  BY <1>1, <1>2, <1>3, <1>4, ElsewhereSteps, Zenon DEF BaseInv

\* ... so what is over stays so, ...
LEMMA OverStays ==
    ASSUME BaseInv, DNext, NEW k \in Key, out[k] # "none", Over(k)
    PROVE  Over(k)'
  BY CallStays, OnlyGrows, Zenon DEF BaseInv, Over

\* ... a delivery ends with the call, ...
LEMMA DeliveringStays ==
    ASSUME BaseInv, DNext, NEW k \in Key, Delivering(k)
    PROVE  Delivering(k)' \/ Over(k)'
<1>1. PICK u \in Underlay : rxer[u] = "accept" /\ cur[u].key = k
  BY Zenon DEF Delivering
<1>2. ASSUME rxer'[u] = "accept", cur'[u] = cur[u]
      PROVE  Delivering(k)'
  BY <1>1, <1>2, Zenon DEF Delivering
<1>3. CASE Elsewhere
  BY <1>1, <1>2, <1>3, Zenon DEF Elsewhere
<1>4. ASSUME NEW v \in Underlay, RemoveWaiter(v) \/ rxHandler(v)
      PROVE  Delivering(k)'
  <2>1. v # u /\ rxer'[u] = rxer[u] /\ cur' = cur
    BY <1>1, <1>4, RemoveWaiterEffect, rxHandlerEffect, Zenon DEF BaseInv
  <2>2. QED
    BY <1>1, <1>2, <2>1, Zenon
<1>5. ASSUME NEW v \in Underlay, AcceptReply(v)
      PROVE  Delivering(k)' \/ Over(k)'
  <2>1. cur' = cur /\ call'[cur[v].key] # "waiting" /\ (v # u => rxer'[u] = rxer[u])
    BY <1>1, <1>5, AcceptReplyEffect, Zenon DEF BaseInv
  <2>2. QED
    BY <1>1, <1>2, <2>1, Zenon DEF Over
<1>6. ASSUME NEW j \in Key, TxStep(j)
      PROVE  Delivering(k)'
  BY <1>1, <1>2, <1>6, TxEffect, Zenon DEF BaseInv
<1>7. QED
  BY <1>3, <1>4, <1>5, <1>6, ElsewhereSteps, Zenon DEF BaseInv

\* ... and a failure with another try or with the call.
LEMMA FailureStays ==
    ASSUME BaseInv, DNext, NEW k \in Key
    PROVE  /\ tries'[k] \in {tries[k], tries[k] + 1}
           /\ out[k] = "failed" => out'[k] = "failed" \/ tries'[k] = tries[k] + 1 \/ Over(k)'
<1>1. CASE Elsewhere
  BY <1>1, Zenon DEF Elsewhere
<1>2. ASSUME NEW u \in Underlay, RemoveWaiter(u) \/ AcceptReply(u)
      PROVE  UNCHANGED <<out, tries>>
  BY <1>2, RemoveWaiterEffect, AcceptReplyEffect, Zenon DEF BaseInv
<1>3. ASSUME NEW u \in Underlay, rxHandler(u)
      PROVE  tries' = tries /\ (out[k] = "failed" => out'[k] = "failed")
  BY <1>3, rxHandlerEffect, AskIsNew, Zenon DEF BaseInv
<1>4. ASSUME NEW j \in Key, TxStep(j)
      PROVE  /\ tries'[k] \in {tries[k], tries[k] + 1}
             /\ out[k] = "failed" => out'[k] = "failed" \/ tries'[k] = tries[k] + 1 \/ Over(k)'
  BY <1>4, TxEffect, Zenon DEF BaseInv, Over
<1>5. QED
  BY <1>1, <1>2, <1>3, <1>4, ElsewhereSteps, Zenon DEF BaseInv

\* All this of a reply that may be there.
LEMMA SettledStays ==
    ASSUME BaseInv, DNext, NEW k \in Key, NEW n \in 0..config.requeues, Made(k, n), Settled(k, n)
    PROVE  Settled(k, n)'
<1>1. tries[k] \in Int /\ n \in Int
  BY ConfigsAssumption DEF BaseInv, RxTypes, Tries
<1>2. n < tries[k] => n < tries'[k]
  <2>1. tries'[k] \in {tries[k], tries[k] + 1}
    BY FailureStays, Zenon
  <2>2. QED
    BY <1>1, <2>1
<1>3. ASSUME ~(n < tries[k])
      PROVE  Settled(k, n)'
  <2>1. n = tries[k] /\ out[k] # "none"
    BY <1>3, Zenon DEF Made
  <2>2. n < tries[k] + 1
    BY <1>1, <2>1
  <2>3. CASE Over(k)
    BY <2>1, <2>3, OverStays, Zenon DEF Settled
  <2>4. CASE out[k] = "failed"
    BY <2>2, <2>4, FailureStays, Zenon DEF Settled
  <2>5. CASE Delivering(k)
    BY <2>5, DeliveringStays, Zenon DEF Settled
  <2>6. QED
    BY <1>3, <2>3, <2>4, <2>5, Zenon DEF Settled
<1>4. QED
  BY <1>2, <1>3, ZenonT(60) DEF Settled

\* A waiter that goes.
LEMMA WaiterGoes ==
    ASSUME BaseInv, KeptInv, DNext, NEW k \in m
    PROVE  k \in m' \/ Over(k)' \/ Delivering(k)' \/ out'[k] = "failed"
<1>0. k \in Key /\ m \subseteq Key
  BY Zenon DEF BaseInv, TypeOK
<1>1. CASE Elsewhere
  <2>1. ASSUME NEW r \in Underlay, target[r] = k
        PROVE  k \in expired
    BY <1>0, <2>1, WaiterMapAssumption, Zenon DEF KeptInv, Underlay
  <2>2. (\E c \in Closer : closer[c] = "clear") => closed
    BY Zenon DEF BaseInv, CloseInv
  <2>3. QED
    BY <1>1, <2>1, <2>2, OnlyGrows, Zenon DEF Elsewhere, BaseInv, Over
<1>2. ASSUME NEW u \in Underlay, RemoveWaiter(u)
      PROVE  k \in m' \/ Delivering(k)'
  <2>1. m' = m \ {cur[u].key} /\ cur' = cur
    BY <1>2, RemoveWaiterEffect, Zenon DEF LoadAndDelete, BaseInv
  <2>2. cur[u].key = k => rxer'[u] = "accept"
    BY <1>2, Zenon DEF RemoveWaiter, At, BaseInv, CloseTypes
  <2>3. QED
    BY <2>1, <2>2, Zenon DEF Delivering
<1>3. ASSUME NEW u \in Underlay, AcceptReply(u) \/ rxHandler(u)
      PROVE  m' = m
  BY <1>3, Zenon DEF AcceptReply, CountDeleted, rxHandler, vars
<1>4. ASSUME NEW j \in Key, TxStep(j)
      PROVE  k \in m' \/ out'[k] = "failed"
  <2>1. CASE LoadAndDelete(j, j) /\ out'[j] = "failed"
    BY <2>1, Zenon DEF LoadAndDelete
  <2>2. CASE UNCHANGED vars \/ Store(j) \/ CountStored(j) \/ TxCountsRemoved(j)
    BY <2>2, Zenon DEF vars, Store, CountStored, TxCountsRemoved, CountDeleted
  <2>3. QED
    BY <1>4, <2>1, <2>2, TxEffect, Zenon DEF BaseInv
<1>5. QED
  BY <1>1, <1>2, <1>3, <1>4, ElsewhereSteps, Zenon DEF BaseInv

LEMMA NextKeepsKept ==
    ASSUME BaseInv, KeptInv, DNext
    PROVE  KeptInv'
<1>1. ASSUME NEW k \in Key
      PROVE  \/ out'[k] = out[k]
             \/ out[k] = "none" /\ out'[k] = "queued"
             \/ out[k] = "queued" /\ out'[k] = "stored" /\ k \in m'
             \/ out[k] \in {"stored", "added", "failing", "sent"} /\ out'[k] \in {"added", "failing", "sent", "failed"}
             \/ out'[k] = "notified" /\ call'[k] # "waiting"
             \/ out'[k] = "queued"
  <2>1. CASE Elsewhere
    BY <2>1, Zenon DEF Elsewhere
  <2>2. ASSUME NEW u \in Underlay, RemoveWaiter(u) \/ AcceptReply(u)
        PROVE  out' = out
    BY <2>2, RemoveWaiterEffect, AcceptReplyEffect, Zenon DEF BaseInv
  <2>3. ASSUME NEW u \in Underlay, rxHandler(u)
        PROVE  out'[k] = out[k] \/ (out[k] = "none" /\ out'[k] = "queued")
    BY <2>3, AskIsNew, Zenon DEF BaseInv
  <2>4. ASSUME NEW j \in Key, TxStep(j), j # k
        PROVE  out'[k] = out[k]
    BY <2>4, TxEffect, Zenon DEF BaseInv
  <2>5. CASE TxStep(k)
    <3>1. Store(k) => k \in m'
      BY Zenon DEF Store
    <3>2. QED
      BY <2>5, <3>1, TxEffect, Zenon DEF BaseInv
  <2>6. QED
    BY <2>1, <2>2, <2>3, <2>4, <2>5, ElsewhereSteps, Zenon DEF BaseInv
<1>2. ASSUME NEW k \in Key, out'[k] \in {"stored", "added", "failing", "sent"}
      PROVE  k \in m' \/ Over(k)' \/ Delivering(k)'
  <2>1. k \in m' \/ out[k] \in {"stored", "added", "failing", "sent"}
    BY <1>1, <1>2, Zenon
  <2>2. ASSUME out[k] \in {"stored", "added", "failing", "sent"}
        PROVE  k \in m' \/ Over(k)' \/ Delivering(k)'
    <3>1. k \in m \/ Over(k) \/ Delivering(k)
      BY <2>2, Zenon DEF KeptInv
    <3>2. out[k] # "none" /\ out'[k] # "failed"
      BY <1>2, <2>2, Zenon
    <3>3. QED
      BY <3>1, <3>2, WaiterGoes, OverStays, DeliveringStays, Zenon
  <2>3. QED
    BY <2>1, <2>2, Zenon
<1>3. ASSUME NEW k \in Key, out'[k] = "notified"
      PROVE  call'[k] # "waiting"
  <2>1. call'[k] # "waiting" \/ out[k] = "notified"
    BY <1>1, <1>3, Zenon
  <2>2. out[k] = "notified" => out[k] # "none" /\ call[k] # "waiting"
    BY Zenon DEF KeptInv
  <2>3. QED
    BY <2>1, <2>2, CallStays, Zenon
<1>4. \A r \in Reaper : target'[r] # None => target'[r] \in expired'
  <2>1. expired \subseteq expired'
    BY OnlyGrows, Zenon DEF BaseInv
  <2>2. CASE target' = target
    BY <2>1, <2>2, Zenon DEF KeptInv
  <2>3. ASSUME NEW r \in Reaper, Delete(r)
        PROVE  \A s \in Reaper : target'[s] # None => target'[s] \in expired'
    BY <2>1, <2>3, Zenon DEF Delete, KeptInv, BaseInv, TypeOK
  <2>4. ASSUME NEW r \in Reaper, NEW k \in Key, Visit(r, k)
        PROVE  \A s \in Reaper : target'[s] # None => target'[s] \in expired'
    <3>1. /\ target'[r] = None \/ (target'[r] = k /\ k \in expired)
          /\ \A s \in Reaper \ {r} : target'[s] = target[s]
      BY <2>4, Zenon DEF Visit, Reapable, BaseInv, TypeOK
    <3>2. QED
      BY <2>1, <3>1, Zenon DEF KeptInv
  <2>5. ASSUME WaiterStep, ~\E r \in Reaper : Delete(r) \/ \E k \in Key : Visit(r, k)
        PROVE  target' = target
    BY <2>5, Zenon DEF WaiterStep, Store, CountStored, LoadAndDelete, CountDeleted, Expire, ReapBegin,
       ReapEnd, Zero, Clear, reaperVars
  <2>6. UNCHANGED vars => target' = target
    BY Zenon DEF vars, reaperVars
  <2>7. QED
    BY <2>2, <2>3, <2>4, <2>5, <2>6, WaiterSteps, Zenon DEF BaseInv
<1>5. QED
  BY <1>2, <1>3, <1>4, Zenon DEF KeptInv

\* A reply that is taken or in the hands of a rxer was made.
LEMMA OnlyWhatWasMade ==
    ASSUME RxTypes, PlaceInv, NEW msg \in Messages, msg.type = "reply",
           taken[msg] # <<>> \/ \E u \in Underlay : Holds(u) /\ cur[u] = msg
    PROVE  msg.key \in Key /\ msg.try \in 0..config.requeues /\ Made(msg.key, msg.try)
<1>1. msg \in Replies /\ IsReply(msg)
  BY MessageTypes, Zenon DEF RxTypes
<1>2. ~Nowhere(msg)
  BY Zenon DEF Nowhere, Untaken, Unheld
<1>3. QED
  BY <1>1, <1>2, Zenon DEF PlaceInv, IsReply

\* Who took a message stays the right one.
LEMMA StillRight ==
    ASSUME BaseInv, DNext, config' = config,
           NEW msg \in Messages, taken[msg] # <<>>, NEW who, RightTaker(msg, who)
    PROVE  RightTaker(msg, who)'
<1>1. plan' = plan
  BY Zenon DEF plan
<1>2. msg.type = "reply" /\ Settled(msg.key, msg.try) => Settled(msg.key, msg.try)'
  BY OnlyWhatWasMade, SettledStays, Zenon DEF BaseInv
<1>3. QED
  BY <1>1, <1>2, Zenon DEF RightTaker

\* So does what a rxer is about to give to a handler.
LEMMA StillSettled ==
    ASSUME BaseInv, DNext, NEW u \in Underlay, Holds(u), cur[u].type = "reply", cur'[u] = cur[u],
           Settled(cur[u].key, cur[u].try)
    PROVE  Settled(cur[u].key, cur[u].try)'
<1>1. PICK msg \in Messages : msg = cur[u]
  BY Zenon DEF BaseInv, RxTypes
<1>2. msg.key \in Key /\ msg.try \in 0..config.requeues /\ Made(msg.key, msg.try)
  BY <1>1, OnlyWhatWasMade, Zenon DEF BaseInv
<1>3. PICK k \in Key, n \in 0..config.requeues : k = msg.key /\ n = msg.try
  BY <1>2, Zenon
<1>4. Settled(k, n)'
  BY <1>1, <1>2, <1>3, SettledStays, Zenon
<1>5. k = cur'[u].key /\ n = cur'[u].try
  BY <1>1, <1>3, Zenon
<1>6. QED
  BY <1>4, <1>5, Zenon DEF Settled, Over, Delivering

\* No message is taken.
LEMMA NothingTaken ==
    ASSUME BaseInv, TakerInv, DNext, UNCHANGED <<config, taken>>,
           \A u \in Underlay : rxer'[u] = "dispatch" /\ cur'[u].type = "reply" =>
               cur'[u] = cur[u] /\ Holds(u) /\ (rxer[u] = "dispatch" \/ Settled(cur[u].key, cur[u].try))
    PROVE  TakerInv'
<1>1. Messages' = Messages /\ Takers' = Takers
  BY SameConfig, Zenon DEF SameSets
<1>2. ASSUME NEW msg \in Messages, taken[msg] # <<>>
      PROVE  \E who \in Takers : taken[msg] = <<who>> /\ RightTaker(msg, who)'
  <2>1. PICK who \in Takers : taken[msg] = <<who>> /\ RightTaker(msg, who)
    BY <1>2, Zenon DEF TakerInv
  <2>2. QED
    BY <1>2, <2>1, StillRight, Zenon
<1>3. ASSUME NEW u \in Underlay, rxer'[u] = "dispatch", cur'[u].type = "reply"
      PROVE  Settled(cur[u].key, cur[u].try)'
  <2>1. cur'[u] = cur[u] /\ Holds(u) /\ cur[u].type = "reply" /\ Settled(cur[u].key, cur[u].try)
    BY <1>3, Zenon DEF TakerInv
  <2>2. QED
    BY <2>1, StillSettled, Zenon
<1>4. QED
  BY <1>1, <1>2, <1>3, Zenon DEF TakerInv

\* Somebody takes the message of u.
LEMMA TakenRight ==
    ASSUME BaseInv, TakerInv, DNext,
           NEW u \in Underlay, Holds(u), cur[u] \in Messages, UNCHANGED <<config, cur>>,
           \A v \in Underlay : rxer'[v] = "dispatch" => rxer[v] = "dispatch" /\ v # u,
           NEW who \in Takers, taken' = [taken EXCEPT ![cur[u]] = Append(@, who)],
           RightTaker(cur[u], who)'
    PROVE  TakerInv'
<1>1. Messages' = Messages /\ Takers' = Takers
  BY SameConfig, Zenon DEF SameSets
<1>2. taken'[cur[u]] = <<who>> /\ \A msg \in Messages : msg # cur[u] => taken'[msg] = taken[msg]
  <2>1. taken[cur[u]] = <<>> /\ DOMAIN taken = Messages
    BY Zenon DEF BaseInv, RxTypes, PlaceInv, Untaken
  <2>2. taken'[cur[u]] = Append(<<>>, who) /\ \A msg \in Messages : msg # cur[u] => taken'[msg] = taken[msg]
    BY <2>1, Zenon
  <2>3. QED
    BY <2>2, AppendToEmpty, Zenon
<1>3. ASSUME NEW v \in Underlay, rxer'[v] = "dispatch", cur'[v].type = "reply"
      PROVE  Settled(cur[v].key, cur[v].try)'
  <2>1. cur'[v] = cur[v] /\ Holds(v) /\ cur[v].type = "reply" /\ Settled(cur[v].key, cur[v].try)
    BY <1>3, Zenon DEF TakerInv, Holds
  <2>2. QED
    BY <2>1, StillSettled, Zenon
<1>4. ASSUME NEW msg \in Messages, taken'[msg] # <<>>
      PROVE  \E w \in Takers : taken'[msg] = <<w>> /\ RightTaker(msg, w)'
  <2>1. CASE msg # cur[u]
    <3>1. taken'[msg] = taken[msg]
      BY <1>2, <2>1, Zenon
    <3>2. PICK w \in Takers : taken[msg] = <<w>> /\ RightTaker(msg, w)
      BY <1>4, <3>1, Zenon DEF TakerInv
    <3>3. QED
      BY <1>4, <3>1, <3>2, StillRight, Zenon
  <2>2. CASE msg = cur[u]
    <3>1. RightTaker(msg, who)'
      BY <2>2, Zenon DEF RightTaker, Settled, Over, Delivering
    <3>2. QED
      BY <1>2, <2>2, <3>1, Zenon
  <2>3. QED
    BY <2>1, <2>2, Zenon
<1>5. QED
  BY <1>1, <1>3, <1>4, Zenon DEF TakerInv

LEMMA NextKeepsTakers ==
    ASSUME BaseInv, HandlerInv, KeptInv, TakerInv, DNext
    PROVE  TakerInv'
<1>0. CloseTypes /\ RxTypes /\ PlaceInv
  BY Zenon DEF BaseInv
<1>1. CASE QuietStep
  <2>1. /\ UNCHANGED <<config, taken, cur>>
        /\ \A u \in Underlay : rxer'[u] = "dispatch" => rxer[u] = "dispatch"
    BY <1>1, Zenon DEF QuietStep
  <2>2. QED
    BY <2>1, NothingTaken, Zenon DEF Holds
<1>2. ASSUME NEW u \in Underlay, PeerSends(u) \/ PeerReplies(u)
      PROVE  TakerInv'
  <2>1. UNCHANGED <<config, taken, cur, rxer>>
    BY <1>2, Zenon DEF PeerSends, PeerReplies, bindVars, rxVars
  <2>2. QED
    BY <2>1, NothingTaken, Zenon DEF Holds
<1>3. ASSUME NEW k \in Key, TxWrites(k)
      PROVE  TakerInv'
  <2>1. UNCHANGED <<config, taken, cur, rxer>>
    BY <1>3, Zenon DEF TxWrites, dispatchOnly, bindVars, rxVars
  <2>2. QED
    BY <2>1, NothingTaken, Zenon DEF Holds
<1>4. ASSUME NEW u \in Underlay, RxerReads(u)
      PROVE  TakerInv'
  <2>1. UNCHANGED <<config, taken>>
    BY <1>0, <1>4, RxerReadsEffect, Zenon
  <2>2. \A v \in Underlay : rxer'[v] = "dispatch" /\ cur'[v].type = "reply" => rxer[v] = "dispatch" /\ cur'[v] = cur[v]
    BY <1>0, <1>4, RxerReadsEffect, Zenon DEF RxTypes
  <2>3. QED
    BY <2>1, <2>2, NothingTaken, Zenon DEF Holds
<1>5. ASSUME NEW u \in Underlay, RemoveWaiter(u)
      PROVE  TakerInv'
  <2>1. /\ UNCHANGED <<config, taken, cur>> /\ Holds(u)
        /\ \A v \in Underlay \ {u} : rxer'[v] = rxer[v]
    BY <1>0, <1>5, RemoveWaiterEffect, Zenon DEF Holds
  <2>2. rxer'[u] = "dispatch" => Settled(cur[u].key, cur[u].try)
    <3>1. /\ IsReply(cur[u]) /\ cur[u] \in Messages /\ cur[u].type = "reply"
          /\ rxer'[u] = "dispatch" => cur[u].key \notin m
      BY <1>0, <1>5, <2>1, RemoveWaiterEffect, Zenon DEF RxTypes
    <3>2. Made(cur[u].key, cur[u].try)
      BY <1>0, <2>1, <3>1, OnlyWhatWasMade, Zenon
    <3>3. cur[u].key \in Key
      BY <3>1, Zenon DEF IsReply
    <3>4. QED
      BY <3>1, <3>2, <3>3, Zenon DEF Made, Settled, KeptInv, Over
  <2>3. QED
    BY <2>1, <2>2, NothingTaken, Zenon DEF Holds
<1>6. ASSUME NEW u \in Underlay, AcceptReply(u)
      PROVE  TakerInv'
  <2>1. /\ UNCHANGED <<config, cur>> /\ cur[u] \in Messages
        /\ taken' = [taken EXCEPT ![cur[u]] = Append(@, "waiter")]
    BY <1>0, <1>6, AcceptReplyEffect, Zenon
  <2>2. Holds(u) /\ \A v \in Underlay : rxer'[v] = "dispatch" => rxer[v] = "dispatch" /\ v # u
    BY <1>0, <1>6, AcceptReplyEffect, Zenon DEF Holds
  <2>3. "waiter" \in Takers /\ RightTaker(cur[u], "waiter")'
    BY Zenon DEF Takers, RightTaker
  <2>4. QED
    BY <2>1, <2>2, <2>3, TakenRight, Zenon
<1>7. ASSUME NEW u \in Underlay, rxHandler(u)
      PROVE  TakerInv'
  <2>1. UNCHANGED <<config, cur>> /\ cur[u] \in Messages /\ rxer[u] = "dispatch"
    BY <1>0, <1>7, rxHandlerEffect, Zenon
  <2>2. Holds(u) /\ \A v \in Underlay : rxer'[v] = "dispatch" => rxer[v] = "dispatch" /\ v # u
    BY <1>0, <1>7, rxHandlerEffect, Zenon DEF Holds
  <2>3. PICK who \in Takers :
           /\ taken' = [taken EXCEPT ![cur[u]] = Append(@, who)]
           /\ who = "dropped" => {cur[u].type, "any"} \cap handlers = {}
           /\ who = "any" => cur[u].type \notin handlers
    BY <1>0, <1>7, rxHandlerEffect, Zenon
  <2>4. handlers = Range(plan) /\ plan' = plan
    <3>1. channel = "open"
      BY <2>1, Zenon DEF BaseInv, CloseInv, CloseTypes
    <3>2. plan \in Seq(STRING)
      BY <1>0, ConfigsAssumption, Zenon DEF plan, RxTypes
    <3>3. QED
      BY <2>1, <3>1, <3>2, SMTT(30) DEF HandlerInv, Range, plan
  <2>5. cur[u].type = "reply" => Settled(cur[u].key, cur[u].try)'
    BY <2>1, <2>2, StillSettled, Zenon DEF TakerInv
  <2>6. RightTaker(cur[u], who)'
    BY <2>1, <2>3, <2>4, <2>5, Zenon DEF RightTaker
  <2>7. QED
    BY <2>1, <2>2, <2>3, <2>6, TakenRight, Zenon
<1>8. QED
  BY <1>0, <1>1, <1>2, <1>3, <1>4, <1>5, <1>6, <1>7, DispatchSteps, Zenon

-----------------------------------------------------------------------------
(* The theorems *)

\* All of it.
DispatchInv ==
    /\ BaseInv /\ CountInv
    /\ HandlerInv /\ KeptInv /\ TakerInv

LEMMA InitDispatch == DInit => DispatchInv
<1> SUFFICES ASSUME DInit
             PROVE  DispatchInv
  BY Zenon
<1>1. CloseTypes /\ CloseInv
  BY InitClose, Zenon
<1>2. RxTypes
  <2>1. config \in Configs /\ config.requeues \in Nat
    BY ConfigsAssumption, Zenon DEF DInit
  <2>2. tries \in Tries
    BY <2>1 DEF DInit, Tries
  <2>3. QED
    BY <2>1, <2>2 DEF DInit, RxTypes, CallAt, OutAt, Holds, Messages, Underlay
<1>3. PlaceInv
  <2>1. /\ unsent = config.incoming /\ asked = {} /\ out = [k \in Key |-> "none"]
        /\ tries = [k \in Key |-> 0]
        /\ inbox = [u \in Underlay |-> <<>>] /\ rxer = [u \in Underlay |-> "none"]
        /\ taken = [msg \in config.incoming \cup Replies |-> <<>>]
    BY Zenon DEF DInit
  <2>2. Len(<<>>) = 0 /\ 1..0 = {}
    OBVIOUS
  <2>3. \A u \in Underlay : ~Holds(u) /\ 1..Len(inbox[u]) = {}
    BY <2>1, <2>2, Zenon DEF Holds
  <2>4. /\ \A msg \in config.incoming \cup Replies : Untaken(msg)
        /\ \A msg : Unheld(msg) /\ Unread(msg)
        /\ \A msg \in config.incoming \cup Replies : Nowhere(msg)
    BY <2>1, <2>3, ZenonT(60) DEF Untaken, Unheld, Unread, Nowhere
  <2>5. QED
    BY <2>1, <2>3, <2>4, Zenon DEF PlaceInv
<1>4. TypeOK
  BY DEF DInit, Init, TypeOK
<1>5. CountInv
  <2>1. m = {} /\ adding = {} /\ removing = {} /\ counted = {}
    BY Zenon DEF DInit, Init
  <2>2. ReapInv
    BY WaiterMapAssumption, Zenon DEF DInit, Init, ReapInv
  <2>3. QED
    BY <2>1, <2>2, FS_EmptySet, Zenon DEF CountInv
<1>6. HandlerInv
  <2>1. plan \in Seq(STRING)
    BY ConfigsAssumption, Zenon DEF DInit, plan
  <2>2. bound = 0 /\ handlers = {} /\ channel = "binding"
    BY Zenon DEF DInit
  <2>3. Len(plan) \in Nat
    BY <2>1
  <2>4. 0 \in 0..Len(plan) /\ 1..0 = {}
    BY <2>3
  <2>5. QED
    BY <2>2, <2>4, Zenon DEF HandlerInv
<1>7. NewInv /\ OwnInv
  BY Zenon DEF DInit, Init, NewInv, OwnInv
<1>8. KeptInv /\ TakerInv
  BY Zenon DEF DInit, Init, KeptInv, TakerInv, Messages, Underlay
<1>9. QED
  BY <1>1, <1>2, <1>3, <1>4, <1>5, <1>6, <1>7, <1>8, Zenon DEF DispatchInv, BaseInv

\* The inductive invariant of Dispatch.
THEOREM DispatchInvariant == DSpec => []DispatchInv
<1>1. DispatchInv /\ DNext => DispatchInv'
  <2> SUFFICES ASSUME DispatchInv, DNext
               PROVE  DispatchInv'
    BY Zenon
  <2>1. /\ BaseInv /\ CountInv /\ HandlerInv /\ KeptInv /\ TakerInv
        /\ CloseTypes /\ CloseInv /\ NewInv /\ RxTypes /\ PlaceInv /\ TypeOK /\ OwnInv
    BY Zenon DEF DispatchInv, BaseInv
  <2>2. TypeOK' /\ CountInv'
    <3>1. CASE UNCHANGED vars
      BY <2>1, <3>1, Zenon DEF vars, reaperVars, TypeOK, CountInv, ReapInv
    <3>2. QED
      BY <2>1, <3>1, WaiterSteps, WaiterTypes, WaiterKeepsCount, Zenon
  <2>3. CloseTypes' /\ CloseInv' /\ NewInv' /\ RxTypes'
    BY <2>1, NextKeepsCloseTypes, NextKeepsClose, NextKeepsNew, NextKeepsRxTypes, Zenon
  <2>4. PlaceInv' /\ OwnInv' /\ HandlerInv'
    BY <2>1, NextKeepsPlaces, NextKeepsOwn, NextKeepsHandlers, Zenon DEF RxTypes
  <2>5. KeptInv' /\ TakerInv'
    BY <2>1, NextKeepsKept, NextKeepsTakers, Zenon
  <2>6. QED
    BY <2>2, <2>3, <2>4, <2>5, Zenon DEF DispatchInv, BaseInv
<1>2. DispatchInv /\ UNCHANGED dvars => DispatchInv'
  <2> SUFFICES ASSUME DispatchInv, UNCHANGED dvars
               PROVE  DispatchInv'
    BY Zenon
  <2>1. UNCHANGED <<vars, bindVars, closeVars, conn, peerVars, rxVars, call, out, tries, taken>>
    BY Zenon DEF dvars
  <2>2. CloseTypes' /\ CloseInv' /\ NewInv'
    BY <2>1, ZenonT(40) DEF DispatchInv, BaseInv, CloseTypes, CloseInv, NewInv, bindVars, closeVars, rxVars
  <2>3. RxTypes' /\ PlaceInv'
    <3>1. UNCHANGED <<config, inbox, unsent, asked, rxer, cur, taken, call, out, tries>>
      BY <2>1, Zenon DEF bindVars, peerVars, rxVars
    <3>2. SameSets /\ \A u \in Underlay : Holds(u)' <=> Holds(u)
      BY <3>1, SameConfig, Zenon DEF Holds
    <3>3. RxTypes'
      BY <3>1, <3>2, Zenon DEF DispatchInv, BaseInv, RxTypes, SameSets
    <3>4. \A msg \in Replies : Made(msg.key, msg.try) => Made(msg.key, msg.try)'
      BY <3>1, Zenon DEF Made
    <3>5. QED
      BY <3>1, <3>2, <3>3, <3>4, HeldOrLess, Zenon DEF DispatchInv, BaseInv, RxTypes
  <2>4. TypeOK' /\ CountInv' /\ OwnInv'
    BY <2>1, Zenon DEF DispatchInv, BaseInv, TypeOK, CountInv, ReapInv, OwnInv, vars, reaperVars, rxVars
  <2>5. HandlerInv' /\ KeptInv' /\ TakerInv'
    <3>1. config' = config /\ plan' = plan /\ Messages' = Messages /\ Takers' = Takers
      BY <2>1, SameConfig, Zenon DEF bindVars, plan, SameSets
    <3>2. UNCHANGED <<m, expired, target, bound, channel, handlers, closed, rxer, cur>>
      BY <2>1, Zenon DEF vars, reaperVars, bindVars, closeVars, rxVars
    <3>3. HandlerInv'
      BY <3>1, <3>2, Zenon DEF DispatchInv, HandlerInv
    <3>4. KeptInv'
      BY <2>1, <3>1, <3>2, Zenon DEF DispatchInv, KeptInv, Settled, Over, Delivering
    <3>5. TakerInv'
      BY <2>1, <3>1, <3>2, ZenonT(60) DEF DispatchInv, TakerInv, RightTaker, Settled, Over, Delivering
    <3>6. QED
      BY <3>3, <3>4, <3>5, Zenon
  <2>6. QED
    BY <2>2, <2>3, <2>4, <2>5, Zenon DEF DispatchInv, BaseInv
<1>3. QED
  BY <1>1, <1>2, InitDispatch, PTL DEF DSpec

\* rx and Binding.  Every message is taken once, by the handler of its content type when the bind
\* handlers added one, and a reply by the call that waits for it unless the time of the call is up,
\* the channel closed or the write of the request failed: whatever is lost, late, requeued or reaped
\* meanwhile.
THEOREM MessagesTakenByTheRightOne == DSpec => []TakenByTheRightOne
<1>1. DispatchInv => TakenByTheRightOne
  <2> SUFFICES ASSUME DispatchInv
               PROVE  TakenByTheRightOne
    BY Zenon
  <2>1. DOMAIN taken = Messages
    BY Zenon DEF DispatchInv, BaseInv, RxTypes
  <2>2. SUFFICES ASSUME NEW msg \in Messages
                 PROVE  /\ Len(taken[msg]) <= 1
                        /\ \A who \in Range(taken[msg]) : RightTaker(msg, who)
    BY <2>1, Zenon DEF TakenByTheRightOne, Superseded, RightTaker, Settled, Over, Delivering
  <2>3. CASE taken[msg] = <<>>
    BY <2>3 DEF Range
  <2>4. ASSUME NEW who, taken[msg] = <<who>>, RightTaker(msg, who)
        PROVE  /\ Len(taken[msg]) <= 1
               /\ \A w \in Range(taken[msg]) : RightTaker(msg, w)
    <3>1. Range(taken[msg]) = {who}
      BY <2>4 DEF Range
    <3>2. QED
      BY <2>4, <3>1, SMTT(30)
  <2>5. QED
    BY <2>3, <2>4, Zenon DEF DispatchInv, TakerInv
<1>2. QED
  BY <1>1, DispatchInvariant, PTL

\* waiterMap.  Whatever AddWaiter, RemoveWaiter, reapExpired and their callers interleave, the
\* count is never above the waiters in the map, those under way apart, until Close clears it.
THEOREM WaitersNotOvercounted == DSpec => []CountNeverAbove
<1>1. DInit => CountNeverAbove
  <2> SUFFICES ASSUME DInit
               PROVE  CountNeverAbove
    BY Zenon
  <2>1. size = 0 /\ m = {} /\ counted = {} /\ adding = {} /\ removing = {}
    BY Zenon DEF DInit, Init
  <2>2. QED
    BY <2>1, FS_EmptySet DEF CountNeverAbove
<1>2. DispatchInv /\ CountNeverAbove /\ [DNext]_dvars => CountNeverAbove'
  <2> SUFFICES ASSUME DispatchInv, CountNeverAbove, [DNext]_dvars
               PROVE  CountNeverAbove'
    BY Zenon
  <2>1. CASE UNCHANGED vars
    BY <2>1, Zenon DEF vars, reaperVars, CountNeverAbove
  <2>2. CASE DNext
    BY <2>1, <2>2, WaiterSteps, WaiterKeepsBelow, Zenon DEF DispatchInv, BaseInv
  <2>3. QED
    BY <2>1, <2>2, Zenon DEF dvars
<1>3. QED
  BY <1>1, <1>2, DispatchInvariant, PTL DEF DSpec

=============================================================================
