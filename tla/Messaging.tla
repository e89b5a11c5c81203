------------------------------ MODULE Messaging ------------------------------
(***************************************************************************)
(* The way of a message through a channel: the send calls of envelope.go   *)
(* and senders.go, the out queue, the txer's tx and the rxer's rx of       *)
(* impl.go, and the waiters that match replies to requests.                *)
(*                                                                         *)
(* A caller makes one send call and names its message, its envelope with   *)
(* errC and replyC, and its sequence number.                               *)
(***************************************************************************)
EXTENDS Naturals, Sequences, FiniteSets

CONSTANTS
    Caller,       \* goroutines that send a message
    Underlay,     \* each has a txer and a rxer
    QueueSize,    \* capacity of the out queue
    CanRequeue,   \* HandleTxFailed is RetryToQueues (TRUE) or that of singleSenders (FALSE)
    Deadlines,    \* whether the contexts have a deadline, or can only be cancelled
    ReapAbove,    \* rx reaps expired waiters when there are more than this (1000)
    None          \* nil

ASSUME MessagingAssumption ==
    /\ QueueSize \in Nat \ {0}
    /\ CanRequeue \in BOOLEAN
    /\ Deadlines \in BOOLEAN
    /\ ReapAbove \in Nat
    /\ None \notin Caller

\* Envelope.Send, Sender.TrySend, SendAndWaitForQueue, SendAndWaitForWire, SendForReply
Kind == {"send", "trySend", "queue", "wire", "reply"}

VARIABLES
    kind,       \* the call each caller makes
    call,       \* where it is, in the end what it returned
    ctx,        \* the envelope's context
    queue,      \* the out queue
    tx,         \* where each txer is
    msg,        \* the message it is sending
    waiters,    \* waiterMap.m
    overdue,    \* the callers whose waiter is past its ttl
    errC,       \* the buffered channel of a wire or reply envelope
    replyC,     \* the callers whose replyC holds a reply
    fate,       \* what became of each message
    atPeer,     \* how many copies of a message the peer has still to answer
    rx,         \* the reply each rxer has matched and not yet delivered
    closed,     \* the channel's closeNotify
    misuse      \* a send on a full or closed errC, or a second close of it

callVars == <<kind, call, ctx>>
txVars == <<tx, msg>>
replyVars == <<waiters, overdue, replyC, rx>>
vars == <<callVars, queue, txVars, replyVars, errC, fate, atPeer, closed, misuse>>

Returned == {"ok", "timeout", "closedError", "error", "busy", "reply"}

\* The channel errC: whether it holds an error and whether it is closed.
ErrC == [full : BOOLEAN, closed : BOOLEAN]

TypeOK ==
    /\ kind \in [Caller -> Kind]
    /\ call \in [Caller -> {"idle", "sending", "waiting"} \cup Returned]
    /\ ctx \in [Caller -> {"live", "ended"}]
    /\ queue \in Seq(Caller) /\ Len(queue) <= QueueSize
    /\ tx \in [Underlay -> {"source", "check", "write", "wrote", "failed", "requeue", "exit"}]
    /\ msg \in [Underlay -> Caller \cup {None}]
    /\ \A u \in Underlay : tx[u] \in {"check", "write", "wrote", "failed", "requeue"} => msg[u] # None
    /\ waiters \in SUBSET Caller
    /\ overdue \in SUBSET Caller
    /\ errC \in [Caller -> ErrC]
    /\ replyC \in SUBSET Caller
    /\ fate \in [Caller -> {"none", "written", "failed", "dropped"}]
    /\ atPeer \in [Caller -> Nat]
    /\ rx \in [Underlay -> Caller \cup {None}]
    /\ closed \in BOOLEAN
    /\ misuse \in BOOLEAN

-----------------------------------------------------------------------------
(* Callers *)

Return(c, r) == call' = [call EXCEPT ![c] = r]

\* The wait calls end their context when they return; Send and TrySend leave it to
\* NotifyAfterWrite.
EndsContext(c) == kind[c] \in {"queue", "wire", "reply"}

ReturnAndCancel(c, r) ==
    /\ Return(c, r)
    /\ ctx' = [ctx EXCEPT ![c] = IF EndsContext(c) THEN "ended" ELSE @]

\* Send and TrySend begin by looking at the context.
SendBegin(c) ==
    /\ call[c] = "idle"
    /\ IF ctx[c] = "ended" THEN Return(c, "timeout") ELSE Return(c, "sending")
    /\ UNCHANGED <<kind, ctx, queue, txVars, replyVars, errC, fate, atPeer, closed, misuse>>

\* The select takes any of the branches that are ready.
HasRoom == Len(queue) < QueueSize

QueuedResultRechecked(c) ==
    IF ctx[c] = "ended" THEN "timeout" ELSE IF kind[c] \in {"wire", "reply"} THEN "waiting" ELSE "ok"
QueuedResult(c) == IF kind[c] \in {"wire", "reply"} THEN "waiting" ELSE "ok"

SendQueues(c) ==
    /\ call[c] = "sending"
    /\ HasRoom
    /\ queue' = Append(queue, c)
    /\ Return(c, QueuedResult(c))
    /\ ctx' = [ctx EXCEPT ![c] = IF kind[c] = "queue" THEN "ended" ELSE @]
    /\ UNCHANGED <<kind, txVars, replyVars, errC, fate, atPeer, closed, misuse>>

SendGivesUp(c) ==
    /\ call[c] = "sending"
    /\ \/ ctx[c] = "ended" /\ ReturnAndCancel(c, "timeout")
       \/ closed /\ ReturnAndCancel(c, "closedError")
    /\ UNCHANGED <<kind, queue, txVars, replyVars, errC, fate, atPeer, closed, misuse>>

\* TrySend's default branch, taken when no other is ready.
TrySendBusy(c) ==
    /\ call[c] = "sending"
    /\ kind[c] = "trySend"
    /\ ctx[c] = "live" /\ ~closed /\ ~HasRoom
    /\ Return(c, "busy")
    /\ UNCHANGED <<kind, ctx, queue, txVars, replyVars, errC, fate, atPeer, closed, misuse>>

\* WaitForWire and WaitForReply.
ReadErrC(c) ==
    /\ call[c] = "waiting"
    /\ errC[c].full \/ errC[c].closed
    /\ ReturnAndCancel(c, IF errC[c].full THEN "error" ELSE "ok")
    /\ errC' = [errC EXCEPT ![c].full = FALSE]
    /\ UNCHANGED <<kind, queue, txVars, replyVars, fate, atPeer, closed, misuse>>

ReadReplyC(c) ==
    /\ call[c] = "waiting"
    /\ c \in replyC
    /\ replyC' = replyC \ {c}
    /\ ReturnAndCancel(c, "reply")
    /\ UNCHANGED <<kind, queue, txVars, waiters, overdue, rx, errC, fate, atPeer, closed, misuse>>

WaitIgnoresClose(c) ==
    /\ call[c] = "waiting"
    /\ ctx[c] = "ended" /\ ReturnAndCancel(c, "timeout")
    /\ UNCHANGED <<kind, queue, txVars, replyVars, errC, fate, atPeer, closed, misuse>>
WaitGivesUp(c) ==
    /\ call[c] = "waiting"
    /\ \/ ctx[c] = "ended" /\ ReturnAndCancel(c, "timeout")
       \/ closed /\ ReturnAndCancel(c, "closedError")
    /\ UNCHANGED <<kind, queue, txVars, replyVars, errC, fate, atPeer, closed, misuse>>

\* The waiter's ttl passes: the deadline, or 30 s when the context has none.
Expire(c) ==
    /\ c \notin overdue
    /\ overdue' = overdue \cup {c}
    /\ ctx' = [ctx EXCEPT ![c] = IF Deadlines THEN "ended" ELSE @]
    /\ UNCHANGED <<kind, call, queue, txVars, waiters, replyC, rx, errC, fate, atPeer, closed, misuse>>

\* Whoever gave the context to WithContext cancels it.
Cancel(c) ==
    /\ ctx[c] = "live"
    /\ ctx' = [ctx EXCEPT ![c] = "ended"]
    /\ UNCHANGED <<kind, call, queue, txVars, replyVars, errC, fate, atPeer, closed, misuse>>

-----------------------------------------------------------------------------
(* The SendListener of each kind of envelope *)

NotifyErrForReply(c) ==
    IF kind[c] = "reply"
    THEN /\ errC' = [errC EXCEPT ![c].full = TRUE]
         /\ misuse' = (misuse \/ errC[c].full \/ errC[c].closed)
    ELSE UNCHANGED <<errC, misuse>>
NotifyErr(c) ==
    IF kind[c] \in {"wire", "reply"}
    THEN /\ errC' = [errC EXCEPT ![c].full = TRUE]
         /\ misuse' = (misuse \/ errC[c].full \/ errC[c].closed)
    ELSE UNCHANGED <<errC, misuse>>

\* A write is over: a wire envelope closes errC, a plain one cancels its context.
NotifyAfterWrite(c) ==
    /\ errC' = [errC EXCEPT ![c].closed = @ \/ kind[c] = "wire"]
    /\ misuse' = (misuse \/ (kind[c] = "wire" /\ errC[c].closed))
    /\ ctx' = [ctx EXCEPT ![c] = IF kind[c] \in {"send", "trySend", "queue"} THEN "ended" ELSE @]

\* NotifyErr then NotifyAfterWrite.
NotifyFailed(c) ==
    /\ errC' = [errC EXCEPT ![c] = [full   |-> @.full \/ kind[c] \in {"wire", "reply"},
                                    closed |-> @.closed \/ kind[c] = "wire"]]
    /\ misuse' = (misuse \/ (kind[c] \in {"wire", "reply"} /\ (errC[c].full \/ errC[c].closed)))
    /\ ctx' = [ctx EXCEPT ![c] = IF kind[c] \in {"send", "trySend", "queue"} THEN "ended" ELSE @]

\* SendAndWaitForQueue bounds only the wait for the queue by its context.
WriteContextEnded(c) == ctx[c] = "ended" /\ kind[c] # "queue"

-----------------------------------------------------------------------------
(* A txer *)

SetTx(u, l) == tx' = [tx EXCEPT ![u] = l]

Finish(c, f) == fate' = [fate EXCEPT ![c] = f]

\* The message source returns the next message ...
TakeMessage(u) ==
    /\ tx[u] = "source"
    /\ queue # <<>>
    /\ queue' = Tail(queue)
    /\ msg' = [msg EXCEPT ![u] = Head(queue)]
    /\ SetTx(u, "check")
    /\ UNCHANGED <<callVars, replyVars, errC, fate, atPeer, closed, misuse>>

\* ... or, when the channel or the underlay has closed, EOF.
SourceEnds(u) ==
    /\ tx[u] = "source"
    /\ SetTx(u, "exit")
    /\ UNCHANGED <<callVars, queue, msg, replyVars, errC, fate, atPeer, closed, misuse>>

TxDrops(u) ==
    /\ tx[u] = "check"
    /\ WriteContextEnded(msg[u])
    /\ NotifyErr(msg[u])
    /\ Finish(msg[u], "dropped")
    /\ SetTx(u, "source")
    /\ msg' = [msg EXCEPT ![u] = None]
    /\ UNCHANGED <<callVars, queue, replyVars, atPeer, closed>>

\* The waiter is registered before the message is written.
AddNoWaiter(c) == waiters
AddWaiter(c) == IF kind[c] = "reply" THEN waiters \cup {c} ELSE waiters

TxBegins(u) ==
    /\ tx[u] = "check"
    /\ ~WriteContextEnded(msg[u])
    /\ waiters' = AddWaiter(msg[u])
    /\ SetTx(u, "write")
    /\ UNCHANGED <<callVars, queue, msg, overdue, replyC, rx, errC, fate, atPeer, closed, misuse>>

SetWriteTimeoutFails(u) ==
    /\ tx[u] = "write"
    /\ NotifyErr(msg[u])
    /\ Finish(msg[u], "failed")
    /\ SetTx(u, "exit")
    /\ msg' = [msg EXCEPT ![u] = None]
    /\ UNCHANGED <<callVars, queue, replyVars, atPeer, closed>>

\* Underlay.Tx: the peer gets the message, or not when there is an error, and perhaps even then.
Write(u) ==
    /\ tx[u] = "write"
    /\ \/ /\ atPeer' = [atPeer EXCEPT ![msg[u]] = @ + 1]
          /\ SetTx(u, "wrote") \/ SetTx(u, "failed")
       \/ UNCHANGED atPeer /\ SetTx(u, "failed")
    /\ UNCHANGED <<callVars, queue, msg, replyVars, errC, fate, closed, misuse>>

TxSucceeds(u) ==
    /\ tx[u] = "wrote"
    /\ NotifyAfterWrite(msg[u])
    /\ Finish(msg[u], "written")
    /\ SetTx(u, "source")
    /\ msg' = [msg EXCEPT ![u] = None]
    /\ UNCHANGED <<kind, call, queue, replyVars, atPeer, closed>>

TxRemovesWaiter(u) ==
    /\ tx[u] = "failed"
    /\ waiters' = waiters \ {msg[u]}
    /\ SetTx(u, "requeue")
    /\ UNCHANGED <<callVars, queue, msg, overdue, replyC, rx, errC, fate, atPeer, closed, misuse>>

\* HandleTxFailed has put the message back: nothing is told to the caller.
NotifyRequeued(c) == NotifyFailed(c)
NotifyNothing(c) == UNCHANGED <<errC, misuse, ctx>>

RequeueForgotten(c) == queue
Requeued(c) == Append(queue, c)

TxRequeues(u) ==
    /\ tx[u] = "requeue"
    /\ CanRequeue /\ HasRoom
    /\ queue' = Requeued(msg[u])
    /\ NotifyNothing(msg[u])
    /\ SetTx(u, "exit")
    /\ msg' = [msg EXCEPT ![u] = None]
    /\ UNCHANGED <<kind, call, replyVars, fate, atPeer, closed>>

TxFails(u) ==
    /\ tx[u] = "requeue"
    /\ ~(CanRequeue /\ HasRoom)
    /\ NotifyFailed(msg[u])
    /\ Finish(msg[u], "failed")
    /\ SetTx(u, "exit")
    /\ msg' = [msg EXCEPT ![u] = None]
    /\ UNCHANGED <<kind, call, queue, replyVars, atPeer, closed>>

-----------------------------------------------------------------------------
(* Replies *)

\* The peer's answer comes in: rx may first reap the waiters past their ttl, then takes the
\* waiter out of the map.  A reply without a waiter goes to a receive handler.
RxReply(u, c) ==
    /\ atPeer[c] > 0
    /\ tx[u] # "exit" /\ rx[u] = None
    /\ atPeer' = [atPeer EXCEPT ![c] = @ - 1]
    /\ \E left \in {waiters} \cup (IF Cardinality(waiters) > ReapAbove THEN {waiters \ overdue} ELSE {}) :
        /\ waiters' = left \ {c}
        /\ rx' = [rx EXCEPT ![u] = IF c \in left THEN c ELSE None]
    /\ UNCHANGED <<callVars, queue, txVars, overdue, replyC, errC, fate, closed, misuse>>

\* AcceptReply, which does not wait when replyC is full.
AcceptReply(u) ==
    /\ rx[u] # None
    /\ replyC' = replyC \cup {rx[u]}
    /\ rx' = [rx EXCEPT ![u] = None]
    /\ UNCHANGED <<callVars, queue, txVars, waiters, overdue, errC, fate, atPeer, closed, misuse>>

\* Channel.Close closes closeNotify and clears the waiters.
Close ==
    /\ ~closed
    /\ closed' = TRUE
    /\ waiters' = {}
    /\ UNCHANGED <<callVars, queue, txVars, overdue, replyC, rx, errC, fate, atPeer, misuse>>

-----------------------------------------------------------------------------
(* Specification *)

Init ==
    /\ kind \in [Caller -> Kind]
    /\ call = [c \in Caller |-> "idle"]
    /\ ctx = [c \in Caller |-> "live"]
    /\ queue = <<>>
    /\ tx = [u \in Underlay |-> "source"]
    /\ msg = [u \in Underlay |-> None]
    /\ waiters = {}
    /\ overdue = {}
    /\ errC = [c \in Caller |-> [full |-> FALSE, closed |-> FALSE]]
    /\ replyC = {}
    /\ fate = [c \in Caller |-> "none"]
    /\ atPeer = [c \in Caller |-> 0]
    /\ rx = [u \in Underlay |-> None]
    /\ closed = FALSE
    /\ misuse = FALSE

Calling(c) ==
    \/ SendBegin(c) \/ SendQueues(c) \/ SendGivesUp(c) \/ TrySendBusy(c)
    \/ ReadErrC(c) \/ ReadReplyC(c) \/ WaitGivesUp(c)

Sending(u) ==
    \/ TakeMessage(u) \/ TxDrops(u) \/ TxBegins(u) \/ Write(u) \/ TxSucceeds(u)
    \/ TxRemovesWaiter(u) \/ TxRequeues(u) \/ TxFails(u)

Next ==
    \/ \E c \in Caller : Calling(c) \/ Expire(c) \/ Cancel(c)
    \/ \E u \in Underlay : Sending(u) \/ SourceEnds(u) \/ SetWriteTimeoutFails(u)
    \/ \E u \in Underlay, c \in Caller : RxReply(u, c)
    \/ \E u \in Underlay : AcceptReply(u)
    \/ Close

Spec == Init /\ [][Next]_vars

\* Callers and txers go on when they can.  Deadlines, replies and Close need not come.
Fairness ==
    /\ \A c \in Caller : WF_vars(Calling(c))
    /\ \A u \in Underlay : WF_vars(Sending(u)) /\ WF_vars(AcceptReply(u))

FairSpec == Spec /\ Fairness

-----------------------------------------------------------------------------
(* Properties *)

Occurrences(c) ==
    Cardinality({i \in DOMAIN queue : queue[i] = c}) + Cardinality({u \in Underlay : msg[u] = c})

\* A message that was queued is in one place until it is written, failed or dropped, and
\* one that was not is nowhere: writes, write errors and requeueing neither lose it nor
\* double it.
MessageInOnePlace ==
    \A c \in Caller :
        /\ Occurrences(c) <= 1
        /\ fate[c] # "none" => Occurrences(c) = 0
        /\ call[c] \in {"waiting", "ok"} /\ fate[c] = "none" => Occurrences(c) = 1

\* envelope.go:147-153, 208-210.  The txers never panic or block on errC: they never send
\* on it when it is closed or full and never close it twice, although a requeued message is
\* sent by a second txer.
NoErrCMisuse == ~misuse

\* channel.go:79-80, 147-150.  What a call returns is true: a SendAndWaitForWire that returns
\* nil has seen its message written; a Send, TrySend or SendAndWaitForQueue that returns an error
\* or false has not queued its message, and the peer never gets it.
ReturnIsTrue ==
    \A c \in Caller :
        /\ kind[c] = "wire" /\ call[c] = "ok" => fate[c] = "written"
        /\ kind[c] \in {"send", "trySend", "queue"} /\ call[c] \in Returned \ {"ok"} =>
              Occurrences(c) = 0 /\ fate[c] = "none" /\ atPeer[c] = 0

\* A reply in time finds its waiter: a caller that still waits for the reply to a request
\* the peer has got over a working underlay is in the map, or its reply is on its way to it.
ReplyFindsWaiter ==
    \A c \in Caller :
        /\ kind[c] = "reply" /\ call[c] = "waiting" /\ ctx[c] = "live" /\ ~closed
        /\ fate[c] = "written" \/ \E u \in Underlay : tx[u] = "wrote" /\ msg[u] = c
        => c \in waiters \cup replyC \/ \E u \in Underlay : rx[u] = c

\* A caller of SendAndWaitForWire learns what became of its message, without a deadline.
WireCallerReturns ==
    \A c \in Caller :
        kind[c] = "wire" /\ fate[c] # "none" ~> call[c] \in Returned

\* Close releases every caller, wherever its message is.
CloseReleasesCallers == closed ~> \A c \in Caller : call[c] \notin {"sending", "waiting"}

=============================================================================
