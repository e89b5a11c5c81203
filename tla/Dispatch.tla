------------------------------ MODULE Dispatch ------------------------------
(***************************************************************************)
(* How a channel gets its handlers and what it does with what it receives: *)
(* NewChannel binds (bind.go) and starts the first underlay; the rxers     *)
(* give a reply to the waiter of its request and anything else to the      *)
(* handler of its content type (rx of impl.go, handler.go); Close runs the *)
(* close handlers.  The waiters are those of WaiterMap, whose Reaper are   *)
(* the underlays.                                                          *)
(*                                                                         *)
(* A handler of an "ask" message sends a request to the peer, named by a   *)
(* Key as the ask is, and waits for the reply.                             *)
(***************************************************************************)
EXTENDS WaiterMap, Sequences, Functions

CONSTANTS
    First,       \* the underlay given to NewChannel
    OnLoop,      \* keys whose ask is handled on the receive loop, not by the async adapter
    Configs,     \* what the initial states choose from: a record of
                 \*   plan      the content types the bind handlers add handlers for, in order
                 \*   incoming  what the peer sends of its own accord, once each
                 \*   closes    the goroutines that close the channel when it is open
                 \*   breaks    the underlays whose connection may break
                 \*   fails     the requests whose write, or the timeout set for it, may fail
                 \*   requeues  how often a request may be requeued: 0 with the HandleTxFailed of
                 \*             singleSenders, else a bound on what RetryToQueues does
    ReapEvery,   \* 100: one reply in so many may reap ...
    ReapAbove,   \* 1000: ... when there are more waiters than this
    Closer,      \* the goroutines that may close the channel; ...
    Creator      \* ... this one creates it

Underlay == Reaper

ASSUME DispatchAssumption ==
    /\ First \in Underlay /\ OnLoop \subseteq Key
    /\ ReapEvery \in Nat \ {0} /\ ReapAbove \in Nat
    /\ Creator \in Closer /\ None \notin Closer

\* No content type is called like the taker of what has no handler of its own, and a reply is
\* sent only when it was asked for.
ASSUME ConfigsAssumption ==
    \A c \in Configs :
        /\ c.plan \in Seq(STRING)
        /\ c.incoming \subseteq [type : STRING \ {"reply", "any", "dropped"}, key : Key \cup {None}]
        /\ \A msg \in c.incoming : msg.type = "ask" => msg.key \in Key
        /\ c.requeues \in Nat

VARIABLES
    config,    \* the chosen element of Configs
    bound,     \* how many have run
    channel,   \* binding, open or failed
    handlers,  \* receiveHandlers: the content types that have one
    onClose,   \* onClose[i]: how often the close handler of bind handler i was called
    closer,    \* closer[c]: where c is in Close
    lock,      \* channelImpl.lock
    closed,    \* flagClosed and closeNotify
    conn,      \* conn[u]: new, up or closed
    inbox,     \* inbox[u]: what the peer has sent over u
    unsent,    \* what it has still to send of config.incoming
    asked,     \* the replies it has still to send
    rxer,      \* rxer[u]: where the rxer of u is
    cur,       \* the message it has
    replies,   \* replyCounter
    call,      \* call[k]: where SendForReply of request k is
    out,       \* out[k]: where the request is
    tries,     \* tries[k]: how often it was requeued
    taken      \* taken[msg]: who took the message

bindVars == <<config, bound, channel, handlers>>
closeVars == <<onClose, closer, lock, closed>>
peerVars == <<inbox, unsent, asked>>
rxVars == <<rxer, cur, replies>>
dvars == <<vars, bindVars, closeVars, conn, peerVars, rxVars, call, out, tries, taken>>

plan == config.plan

Message(type, k) == [type |-> type, key |-> k]
\* The reply to what the n-th requeueing of request k has sent.
Reply(k, n) == [type |-> "reply", key |-> k, try |-> n]
Replies == {Reply(k, n) : k \in Key, n \in 0..config.requeues}

DInit ==
    /\ Init
    /\ config \in Configs
    /\ bound = 0
    /\ channel = "binding"
    /\ handlers = {}
    /\ onClose = <<>>
    /\ closer = [c \in Closer |-> "idle"]
    /\ lock = None
    /\ closed = FALSE
    /\ conn = [u \in Underlay |-> "new"]
    /\ inbox = [u \in Underlay |-> <<>>]
    /\ unsent = config.incoming
    /\ asked = {}
    /\ rxer = [u \in Underlay |-> "none"]
    /\ cur = [u \in Underlay |-> None]
    /\ replies = 0
    /\ call = [k \in Key |-> "idle"]
    /\ out = [k \in Key |-> "none"]
    /\ tries = [k \in Key |-> 0]
    /\ taken = [msg \in config.incoming \cup Replies |-> <<>>]

-----------------------------------------------------------------------------
(* NewChannel *)

\* startMultiplex of an underlay that was added.
startMultiplex(u) ==
    /\ conn' = [conn EXCEPT ![u] = "up"]
    /\ rxer' = [rxer EXCEPT ![u] = "rx"]

\* The next of the bind handlers adds a receive handler and a close handler, ...
BindChannel ==
    /\ channel = "binding" /\ closer[Creator] = "idle" /\ bound < Len(plan)
    /\ bound' = bound + 1
    /\ handlers' = handlers \cup {plan[bound + 1]}
    /\ onClose' = Append(onClose, 0)
    /\ UNCHANGED <<vars, config, channel, closer, lock, closed, conn, peerVars, rxVars, call, out, tries, taken>>

\* ... or fails: NewChannel closes the channel, then its underlay.
BindFails ==
    /\ channel = "binding" /\ closer[Creator] = "idle" /\ bound < Len(plan)
    /\ closer' = [closer EXCEPT ![Creator] = "close"]
    /\ UNCHANGED <<vars, bindVars, onClose, lock, closed, conn, peerVars, rxVars, call, out, tries, taken>>

BindFailed ==
    /\ channel = "binding" /\ closer[Creator] = "done"
    /\ channel' = "failed"
    /\ conn' = [conn EXCEPT ![First] = "closed"]
    /\ UNCHANGED <<vars, config, bound, handlers, closeVars, peerVars, rxVars, call, out, tries, taken>>

\* All the bind handlers have returned.
SomeBound == TRUE
AllBound == bound = Len(plan)

Started ==
    /\ channel = "binding" /\ closer[Creator] = "idle" /\ AllBound
    /\ channel' = "open"
    /\ startMultiplex(First)
    /\ UNCHANGED <<vars, config, bound, handlers, closeVars, peerVars, cur, replies, call, out, tries, taken>>

\* Holding the lock, which is free: a closed channel closes the underlay instead.
AcceptUnderlay(u) ==
    /\ channel = "open" /\ conn[u] = "new" /\ lock = None
    /\ IF closed THEN conn' = [conn EXCEPT ![u] = "closed"] /\ UNCHANGED rxer ELSE startMultiplex(u)
    /\ UNCHANGED <<vars, bindVars, closeVars, peerVars, cur, replies, call, out, tries, taken>>

-----------------------------------------------------------------------------
(* Close *)

CloseCalled(c) ==
    /\ channel = "open" /\ c \in config.closes /\ closer[c] = "idle"
    /\ closer' = [closer EXCEPT ![c] = "close"]
    /\ UNCHANGED <<vars, bindVars, onClose, lock, closed, conn, peerVars, rxVars, call, out, tries, taken>>

\* flagClosed is set.
NeverClosed == FALSE
AlreadyClosed == closed

\* The first runs the close handlers, with the lock.  Who comes second finds the channel closed.
CloseBegins(c) ==
    /\ closer[c] = "close" /\ lock = None
    /\ IF AlreadyClosed THEN closer' = [closer EXCEPT ![c] = "done"] /\ UNCHANGED <<lock, closed, onClose>>
       ELSE /\ closer' = [closer EXCEPT ![c] = "clear"]
            /\ lock' = c
            /\ closed' = TRUE
            /\ onClose' = [i \in DOMAIN onClose |-> onClose[i] + 1]
    /\ UNCHANGED <<vars, bindVars, conn, peerVars, rxVars, call, out, tries, taken>>

ClearWaiters(c) ==
    /\ closer[c] = "clear"
    /\ Zero \/ Clear
    /\ UNCHANGED <<bindVars, closeVars, conn, peerVars, rxVars, call, out, tries, taken>>

CloseUnderlays(c) ==
    /\ closer[c] = "clear" /\ clearing = "done"
    /\ conn' = [u \in Underlay |-> IF conn[u] = "up" THEN "closed" ELSE conn[u]]
    /\ closer' = [closer EXCEPT ![c] = "done"]
    /\ lock' = None
    /\ UNCHANGED <<vars, bindVars, onClose, closed, peerVars, rxVars, call, out, tries, taken>>

-----------------------------------------------------------------------------
(* The peer (external) *)

PeerSends(u) ==
    /\ conn[u] = "up"
    /\ \E msg \in unsent :
          /\ inbox' = [inbox EXCEPT ![u] = Append(@, msg)]
          /\ unsent' = unsent \ {msg}
    /\ UNCHANGED <<vars, bindVars, closeVars, conn, asked, rxVars, call, out, tries, taken>>

\* The connection breaks, with what was not read.  What the channel does about that is in
\* ChannelLifecycle.
ConnLost(u) ==
    /\ u \in config.breaks /\ conn[u] = "up"
    /\ conn' = [conn EXCEPT ![u] = "closed"]
    /\ UNCHANGED <<vars, bindVars, closeVars, peerVars, rxVars, call, out, tries, taken>>

PeerReplies(u) ==
    /\ conn[u] = "up"
    /\ \E msg \in asked :
          /\ inbox' = [inbox EXCEPT ![u] = Append(@, msg)]
          /\ asked' = asked \ {msg}
    /\ UNCHANGED <<vars, bindVars, closeVars, conn, unsent, rxVars, call, out, tries, taken>>

-----------------------------------------------------------------------------
(* The rxer and rx *)

At(u, pc) == rxer' = [rxer EXCEPT ![u] = pc]
Ended(k, r) == call' = [call EXCEPT ![k] = IF @ = "waiting" THEN r ELSE @]
Take(u, who) == taken' = [taken EXCEPT ![cur[u]] = Append(@, who)]

RxerReads(u) ==
    /\ rxer[u] = "rx" /\ conn[u] = "up" /\ inbox[u] # <<>>
    /\ cur' = [cur EXCEPT ![u] = Head(inbox[u])]
    /\ inbox' = [inbox EXCEPT ![u] = Tail(@)]
    /\ At(u, IF Head(inbox[u]).type = "reply" THEN "reply" ELSE "dispatch")
    /\ UNCHANGED <<vars, bindVars, closeVars, conn, unsent, asked, replies, call, out, tries, taken>>

RxerExits(u) ==
    /\ rxer[u] = "rx" /\ conn[u] = "closed"
    /\ At(u, "exit")
    /\ UNCHANGED <<vars, bindVars, closeVars, conn, peerVars, cur, replies, call, out, tries, taken>>

RxReply(u) ==
    /\ rxer[u] = "reply"
    /\ replies' = (replies + 1) % ReapEvery
    /\ IF replies' = 0 /\ size > ReapAbove THEN ReapBegin(u) /\ At(u, "reap")
       ELSE UNCHANGED vars /\ At(u, "remove")
    /\ UNCHANGED <<bindVars, closeVars, conn, peerVars, cur, call, out, tries, taken>>

RxReaps(u) ==
    /\ rxer[u] = "reap"
    /\ \/ ((\E k \in Key : Visit(u, k)) \/ Delete(u)) /\ UNCHANGED rxer
       \/ ReapEnd(u) /\ At(u, "remove")
    /\ UNCHANGED <<bindVars, closeVars, conn, peerVars, cur, replies, call, out, tries, taken>>

RemoveWaiter(u) ==
    /\ rxer[u] = "remove"
    /\ LoadAndDelete(u, cur[u].key)
    /\ At(u, IF cur[u].key \in m THEN "accept" ELSE "dispatch")
    /\ UNCHANGED <<bindVars, closeVars, conn, peerVars, cur, replies, call, out, tries, taken>>

\* The rest of RemoveWaiter, and AcceptReply: the caller may have gone.
AcceptReply(u) ==
    /\ rxer[u] = "accept"
    /\ CountDeleted(u)
    /\ Ended(cur[u].key, "replied")
    /\ Take(u, "waiter")
    /\ At(u, "rx")
    /\ UNCHANGED <<bindVars, closeVars, conn, peerVars, cur, replies, out, tries>>

\* What the handler of an ask does: it is the message's goroutine that waits, or the rxer.
HandleReceiveInline(u) ==
    /\ call' = [call EXCEPT ![cur[u].key] = "waiting"]
    /\ out' = [out EXCEPT ![cur[u].key] = "queued"]
    /\ At(u, "handler")

HandleReceive(u) ==
    LET k == cur[u].key IN
    /\ call' = [call EXCEPT ![k] = "waiting"]
    /\ out' = [out EXCEPT ![k] = "queued"]
    /\ At(u, IF k \in OnLoop THEN "handler" ELSE "rx")

rxHandler(u) ==
    LET type == cur[u].type IN
    /\ rxer[u] = "dispatch"
    /\ \/ type \in handlers /\ Take(u, type)
       \/ type \notin handlers /\ "any" \in handlers /\ Take(u, "any")
       \/ type \notin handlers /\ "any" \notin handlers /\ Take(u, "dropped")
    /\ IF type = "ask" /\ type \in handlers THEN HandleReceive(u) ELSE At(u, "rx") /\ UNCHANGED <<call, out>>
    /\ UNCHANGED <<vars, bindVars, closeVars, conn, peerVars, cur, replies, tries>>

HandlerReturns(u) ==
    /\ rxer[u] = "handler" /\ call[cur[u].key] # "waiting"
    /\ At(u, "rx")
    /\ UNCHANGED <<vars, bindVars, closeVars, conn, peerVars, cur, replies, call, out, tries, taken>>

-----------------------------------------------------------------------------
(* SendForReply of a handler, and what tx does with its request *)

dispatchOnly == <<bindVars, closeVars, inbox, unsent, rxVars, taken>>

Up == {u \in Underlay : conn[u] = "up"}

\* A request whose context is done is not sent.
TxDrops(k) ==
    /\ out[k] = "queued" /\ (k \in expired \/ call[k] # "waiting") /\ Up # {}
    /\ out' = [out EXCEPT ![k] = "notified"]
    /\ Ended(k, "timeout")
    /\ UNCHANGED <<vars, dispatchOnly, conn, asked, tries>>

\* AddWaiter, for a request whose context is live.
TxAddsWaiter(k) ==
    /\ \/ /\ out[k] = "queued" /\ call[k] = "waiting" /\ k \notin expired /\ Up # {}
          /\ Store(k)
          /\ out' = [out EXCEPT ![k] = "stored"]
       \/ /\ out[k] = "stored"
          /\ CountStored(k)
          /\ out' = [out EXCEPT ![k] = "added"]
    /\ UNCHANGED <<dispatchOnly, conn, asked, call, tries>>

\* What is written reaches the peer, and tx returns, or has yet to report an error all the same.
TxWrites(k) ==
    /\ out[k] = "added" /\ Up # {}
    /\ \/ out' = [out EXCEPT ![k] = "sent"]
       \/ k \in config.fails /\ out' = [out EXCEPT ![k] = "failing"]
    /\ asked' = asked \cup {Reply(k, tries[k])}
    /\ UNCHANGED <<vars, dispatchOnly, conn, call, tries>>

\* tx returned an error: the txer closes its underlay.
TxerEnds == \E u \in Underlay : conn[u] # "new" /\ conn' = [conn EXCEPT ![u] = "closed"]

\* SetWriteTimeout fails: the waiter stays.
SetWriteTimeoutFails(k) ==
    /\ out[k] = "added" /\ k \in config.fails
    /\ out' = [out EXCEPT ![k] = "notified"]
    /\ Ended(k, "error")
    /\ TxerEnds
    /\ UNCHANGED <<vars, dispatchOnly, asked, tries>>

\* The write fails: RemoveWaiter, ...
TxFails(k) ==
    /\ out[k] \in {"added", "failing"} /\ k \in config.fails
    /\ LoadAndDelete(k, k)
    /\ out' = [out EXCEPT ![k] = "failed"]
    /\ UNCHANGED <<dispatchOnly, conn, asked, call, tries>>

TxCountsRemoved(k) == CountDeleted(k) \/ (k \notin removing /\ UNCHANGED vars)

\* ... and then the request is requeued, ...
HandleTxFailed(k) ==
    /\ out[k] = "failed" /\ tries[k] < config.requeues
    /\ TxCountsRemoved(k)
    /\ out' = [out EXCEPT ![k] = "queued"]
    /\ tries' = [tries EXCEPT ![k] = @ + 1]
    /\ TxerEnds
    /\ UNCHANGED <<dispatchOnly, asked, call>>

\* ... or the error goes to the caller.
NotifyErr(k) ==
    /\ out[k] = "failed"
    /\ TxCountsRemoved(k)
    /\ out' = [out EXCEPT ![k] = "notified"]
    /\ Ended(k, "error")
    /\ TxerEnds
    /\ UNCHANGED <<dispatchOnly, asked, tries>>

\* The deadline of the call is that of the waiter.
CallEnds(k) ==
    /\ call[k] = "waiting"
    /\ \/ k \in expired /\ Ended(k, "timeout")
       \/ closed /\ Ended(k, "closed")
    /\ UNCHANGED <<vars, dispatchOnly, conn, asked, out, tries>>

Expires(k) ==
    /\ call[k] = "waiting" \/ k \in m
    /\ k \notin expired
    /\ Expire(k)
    /\ UNCHANGED <<dispatchOnly, conn, asked, call, out, tries>>

-----------------------------------------------------------------------------
BindStep == BindChannel \/ BindFails \/ BindFailed \/ Started
CloseStep(c) == CloseBegins(c) \/ ClearWaiters(c) \/ CloseUnderlays(c)
RxStep(u) ==
    \/ RxerReads(u) \/ RxerExits(u) \/ RxReply(u) \/ RxReaps(u) \/ RemoveWaiter(u)
    \/ AcceptReply(u) \/ rxHandler(u) \/ HandlerReturns(u)
TxStep(k) ==
    \/ TxDrops(k) \/ TxAddsWaiter(k) \/ TxWrites(k)
    \/ SetWriteTimeoutFails(k) \/ TxFails(k) \/ HandleTxFailed(k) \/ NotifyErr(k)

DNext ==
    \/ BindStep
    \/ \E c \in Closer : CloseCalled(c) \/ CloseStep(c)
    \/ \E u \in Underlay : AcceptUnderlay(u) \/ ConnLost(u) \/ PeerSends(u) \/ PeerReplies(u) \/ RxStep(u)
    \/ \E k \in Key : TxStep(k) \/ CallEnds(k) \/ Expires(k)

\* The goroutines run.  Only the calls on the receive loop have a deadline that has to pass.
DSpec ==
    /\ DInit /\ [][DNext]_dvars
    /\ \A u \in Underlay : WF_dvars(RxStep(u))
    /\ \A k \in Key : WF_dvars(TxStep(k)) /\ WF_dvars(CallEnds(k))
    /\ \A k \in OnLoop : WF_dvars(Expires(k))

-----------------------------------------------------------------------------
(* Properties *)

\* The request failed after this reply was asked for, or another reply is being delivered.
Superseded(msg) ==
    \/ msg.try < tries[msg.key] \/ out[msg.key] = "failed"
    \/ \E u \in Underlay : rxer[u] = "accept" /\ cur[u].key = msg.key

\* rx gives every message to exactly one taker, the one it is for: all the handlers are bound
\* before the first message is read, so none is dropped or left to the handler of any content
\* type while the bind handlers include one for it; and a reply goes to the caller that waits
\* for it, not to a handler, unless the caller's time is up or the write of the request was
\* reported to have failed although it reached the peer (impl.go:604-620).
TakenByTheRightOne ==
    \A msg \in DOMAIN taken :
        /\ Len(taken[msg]) <= 1
        /\ \A who \in Range(taken[msg]) \ {"waiter"} :
              /\ who = "dropped" => {msg.type, "any"} \cap Range(plan) = {}
              /\ who = "any" => msg.type \notin Range(plan)
              /\ msg.type = "reply" =>
                    call[msg.key] # "waiting" \/ msg.key \in expired \/ closed \/ Superseded(msg)

\* However many goroutines call Close, every close handler that was added runs once, before any
\* of them returns, and no underlay stays open; also when a bind handler failed half way, where
\* the underlay that NewChannel was given is closed without having been read.
ClosedOnce ==
    /\ \A i \in DOMAIN onClose : onClose[i] <= 1
    /\ (\E c \in Closer : closer[c] = "done") =>
          /\ \A i \in DOMAIN onClose : onClose[i] = 1
          /\ \A u \in Underlay : conn[u] # "up"
    /\ channel = "failed" => conn[First] = "closed" /\ rxer[First] = "none"

\* A handler behind AsyncFunctionReceiveAdapter can ask the peer and wait: once the reply is on
\* its way the call ends, however few underlays there are to receive it, unless the underlay with
\* the reply is lost, the channel closes, or the write was reported to have failed and the request
\* is requeued.
AskIsAnswered ==
    \A k \in Key \ OnLoop, u \in Underlay :
        conn[u] = "up" /\ Reply(k, 0) \in Range(inbox[u])
            ~> (call[k] # "waiting" \/ conn[u] # "up" \/ closed \/ tries[k] > 0)
=============================================================================
