----------------------------- MODULE MetricsHub -----------------------------
(***************************************************************************)
(* The subscribers of the collector (internal/telemetry/collector.go) and  *)
(* the WebSocket handlers that serve them (internal/api/ws.go).            *)
(*                                                                         *)
(* The module stands for both hubs: snapshots, which run goroutines        *)
(* broadcast to handleMetrics, and error entries, which request workers    *)
(* broadcast to handleErrors; only handleMetrics writes on a ticker too.   *)
(* The RWMutex is read-locked from BeginBroadcast to EndBroadcast; what    *)
(* Subscribe and Unsubscribe do under the write lock is one step each.     *)
(* Messages are numbered; a handler serves one connection.                 *)
(***************************************************************************)
EXTENDS Integers, Sequences, FiniteSets

CONSTANTS
  Handlers,      \* connections, each with its handler goroutine
  Broadcasters,  \* goroutines that broadcast
  Capacity,      \* capacity of a subscriber's channel (64 or 128)
  Ticking,       \* the handlers have a status ticker (handleMetrics)
  MaxMessages    \* bound: messages broadcast

ASSUME HubAssumption ==
  /\ Capacity \in Nat \ {0}
  /\ Ticking \in BOOLEAN
  /\ MaxMessages \in Nat

Nothing == 0   \* no message: the numbers begin at 1

VARIABLES
  subscribers,  \* handlers whose channel is in the list
  queue,        \* queue[h]: contents of h's channel
  closed,       \* handlers whose channel has been closed
  hpc,          \* hpc[h]: where handler h is
  hand,         \* hand[h]: the message h is writing, or Nothing
  cut,          \* connections the client has closed
  msg,          \* msg[p]: the message p is broadcasting, or Nothing
  todo,         \* todo[p]: subscribers p still has to send it to
  sent,         \* number of messages broadcast so far
  author,       \* history: author[m]: who broadcast message m
  crashed,      \* somebody sent on a closed channel: the process is gone
  since,        \* history: since[h] messages were broadcast before h subscribed
  dropped,      \* history: handlers that have found their channel full
  written       \* history: written[h]: the messages h has written

hubVars     == <<subscribers, queue, closed>>
handlerVars == <<hpc, hand, cut>>
castVars    == <<msg, todo, sent, author, crashed>>
vars == <<hubVars, handlerVars, castVars, since, dropped, written>>

WritePCs == {"message", "status", "degradation"}

Init ==
  /\ subscribers = {}
  /\ queue = [h \in Handlers |-> <<>>]
  /\ closed = {}
  /\ hpc = [h \in Handlers |-> "new"]
  /\ hand = [h \in Handlers |-> Nothing]
  /\ cut = {}
  /\ msg = [p \in Broadcasters |-> Nothing]
  /\ todo = [p \in Broadcasters |-> {}]
  /\ sent = 0
  /\ author = <<>>
  /\ crashed = FALSE
  /\ since = [h \in Handlers |-> 0]
  /\ dropped = {}
  /\ written = [h \in Handlers |-> {}]

NoReader == \A p \in Broadcasters : msg[p] = Nothing

-----------------------------------------------------------------------------
(* A handler.                                                              *)

HandlerAt(h, from, to) ==
  /\ hpc[h] = from
  /\ hpc' = [hpc EXCEPT ![h] = to]

(* Fault variant: Subscribe does not wait for the readers of the list. *)
SubscribeUnlocked(h) ==
  /\ HandlerAt(h, "new", "serving")
  /\ subscribers' = subscribers \cup {h}
  /\ todo' = [p \in Broadcasters |-> IF msg[p] = Nothing THEN {} ELSE todo[p] \cup {h}]
  /\ since' = [since EXCEPT ![h] = sent]
  /\ UNCHANGED <<queue, closed, hand, cut, msg, sent, author, crashed, dropped, written>>

Subscribe(h) ==
  /\ NoReader
  /\ HandlerAt(h, "new", "serving")
  /\ subscribers' = subscribers \cup {h}
  /\ since' = [since EXCEPT ![h] = sent]
  /\ UNCHANGED <<queue, closed, hand, cut, castVars, dropped, written>>

(* The client goes away, whatever the handler is doing.                    *)
CloseSocket(h) ==
  /\ hpc[h] \in WritePCs \cup {"serving"}
  /\ cut' = cut \cup {h}
  /\ UNCHANGED <<hubVars, hpc, hand, castVars, since, dropped, written>>

Receive(h) ==
  /\ queue[h] # <<>>
  /\ HandlerAt(h, "serving", "message")
  /\ hand' = [hand EXCEPT ![h] = Head(queue[h])]
  /\ queue' = [queue EXCEPT ![h] = Tail(@)]
  /\ UNCHANGED <<subscribers, closed, cut, castVars, since, dropped, written>>

(* case <-statusTicker.C                                                   *)
StatusTick(h) ==
  /\ Ticking
  /\ HandlerAt(h, "serving", "status")
  /\ UNCHANGED <<hubVars, hand, cut, castVars, since, dropped, written>>

(* WriteJSON succeeds, if need be into the buffers of a closed connection; *)
(* the status is followed by the degradation result.                       *)
WriteSucceeds(h) ==
  /\ \/ HandlerAt(h, "message", "serving")
     \/ HandlerAt(h, "status", "degradation")
     \/ HandlerAt(h, "degradation", "serving")
  /\ written' = IF hand[h] = Nothing THEN written
                ELSE [written EXCEPT ![h] = @ \cup {hand[h]}]
  /\ hand' = [hand EXCEPT ![h] = Nothing]
  /\ UNCHANGED <<hubVars, cut, castVars, since, dropped>>

(* Fault variant: a failed write of the status does not end the handler. *)
WriteFailsOnMessageOnly(h) ==
  /\ h \in cut
  /\ \/ HandlerAt(h, "message", "leaving")
     \/ HandlerAt(h, "status", "serving")
     \/ HandlerAt(h, "degradation", "serving")
  /\ hand' = [hand EXCEPT ![h] = Nothing]
  /\ UNCHANGED <<hubVars, cut, castVars, since, dropped, written>>

WriteFails(h) ==
  /\ h \in cut
  /\ \E from \in WritePCs : HandlerAt(h, from, "leaving")
  /\ hand' = [hand EXCEPT ![h] = Nothing]
  /\ UNCHANGED <<hubVars, cut, castVars, since, dropped, written>>

(* Fault variant: the channel is closed but stays in the list. *)
UnsubscribeKeepsEntry(h) ==
  /\ NoReader
  /\ HandlerAt(h, "leaving", "gone")
  /\ closed' = closed \cup {h}
  /\ UNCHANGED <<subscribers, queue, hand, cut, castVars, since, dropped, written>>

(* The deferred Unsubscribe.                                               *)
Unsubscribe(h) ==
  /\ NoReader
  /\ HandlerAt(h, "leaving", "gone")
  /\ subscribers' = subscribers \ {h}
  /\ closed' = closed \cup {h}
  /\ UNCHANGED <<queue, hand, cut, castVars, since, dropped, written>>

-----------------------------------------------------------------------------
(* Broadcast, by goroutine p.                                              *)

BeginBroadcast(p) ==
  /\ msg[p] = Nothing
  /\ sent < MaxMessages
  /\ sent' = sent + 1
  /\ author' = [m \in 1..(sent + 1) |-> IF m <= sent THEN author[m] ELSE p]
  /\ msg' = [msg EXCEPT ![p] = sent + 1]
  /\ todo' = [todo EXCEPT ![p] = subscribers]
  /\ UNCHANGED <<hubVars, handlerVars, crashed, since, dropped, written>>

(* select { case ch <- snap: default: } for the channel of h.              *)
Offer(p, h) ==
  /\ h \in todo[p]
  /\ todo' = [todo EXCEPT ![p] = @ \ {h}]
  /\ crashed' = (h \in closed)
  /\ UNCHANGED <<subscribers, closed, handlerVars, msg, sent, author, since, written>>

(* Fault variant: a full channel makes room by dropping what it holds. *)
SendReplacingTheQueue(p, h) ==
  /\ Offer(p, h)
  /\ queue' = [queue EXCEPT ![h] = IF Len(@) < Capacity THEN Append(@, msg[p]) ELSE <<msg[p]>>]
  /\ UNCHANGED dropped

Send(p, h) ==
  /\ Offer(p, h)
  /\ IF Len(queue[h]) < Capacity
       THEN queue' = [queue EXCEPT ![h] = Append(@, msg[p])] /\ UNCHANGED dropped
       ELSE dropped' = dropped \cup {h} /\ UNCHANGED queue

EndBroadcast(p) ==
  /\ msg[p] # Nothing
  /\ todo[p] = {}
  /\ msg' = [msg EXCEPT ![p] = Nothing]
  /\ UNCHANGED <<hubVars, handlerVars, todo, sent, author, crashed, since, dropped, written>>

-----------------------------------------------------------------------------
(* A client may go away or stay, and read or not; everything else has to.  *)
Serve(h) ==
  \/ Receive(h)
  \/ StatusTick(h)
  \/ WriteSucceeds(h)
  \/ WriteFails(h)
  \/ Unsubscribe(h)

HandlerStep(h) == Subscribe(h) \/ CloseSocket(h) \/ Serve(h)

BroadcastStep(p) ==
  \/ BeginBroadcast(p)
  \/ \E h \in Handlers : Send(p, h)
  \/ EndBroadcast(p)

(* Nothing is left to broadcast, to write or to withdraw: handlers wait.   *)
Quiet ==
  /\ \/ crashed
     \/ /\ NoReader /\ sent = MaxMessages
        /\ \A h \in Handlers :
             hpc[h] \in {"new", "gone"} \/ (hpc[h] = "serving" /\ queue[h] = <<>>)
  /\ UNCHANGED vars

Next ==
  \/ /\ ~crashed
     /\ \/ \E h \in Handlers : HandlerStep(h)
        \/ \E p \in Broadcasters : BroadcastStep(p)
  \/ Quiet

(* The scheduler runs broadcasters and handlers; a write into a closed     *)
(* connection does not succeed for ever; Go's RWMutex does not starve a    *)
(* writer.  A write to an open connection may block for ever.              *)
Fairness ==
  /\ \A p \in Broadcasters :
       WF_vars(~crashed /\ msg[p] # Nothing /\ BroadcastStep(p))
  /\ \A h \in Handlers :
       /\ WF_vars(~crashed /\ StatusTick(h))
       /\ SF_vars(~crashed /\ WriteFails(h))
       /\ SF_vars(~crashed /\ Unsubscribe(h))

Spec == Init /\ [][Next]_vars
FairSpec == Spec /\ Fairness

-----------------------------------------------------------------------------
(* Type invariant.                                                         *)
TypeOK ==
  /\ subscribers \subseteq Handlers
  /\ queue \in [Handlers -> Seq(1..MaxMessages)]
  /\ \A h \in Handlers : Len(queue[h]) <= Capacity
  /\ closed \subseteq Handlers
  /\ hpc \in [Handlers -> {"new", "serving", "leaving", "gone"} \cup WritePCs]
  /\ hand \in [Handlers -> 0..MaxMessages]
  /\ cut \subseteq Handlers
  /\ msg \in [Broadcasters -> 0..MaxMessages]
  /\ todo \in [Broadcasters -> SUBSET Handlers]
  /\ sent \in 0..MaxMessages
  /\ author \in [1..sent -> Broadcasters]
  /\ crashed \in BOOLEAN
  /\ since \in [Handlers -> 0..MaxMessages]
  /\ dropped \subseteq Handlers
  /\ written \in [Handlers -> SUBSET (1..MaxMessages)]

(* Nobody sends on a closed channel, although handlers close their         *)
(* channels while others broadcast.                                        *)
NeverSendsOnClosed == ~crashed

(* What handler h holds, has written or can still receive.                 *)
Got(h) == {queue[h][i] : i \in 1..Len(queue[h])} \cup written[h] \cup ({hand[h]} \ {Nothing})

(* A handler whose channel was never full misses nothing broadcast since   *)
(* it subscribed, once the broadcast has passed it; and it gets nothing    *)
(* broadcast before.                                                       *)
NothingLostUnlessFull ==
  \A h \in Handlers :
    hpc[h] \in {"serving"} \cup WritePCs =>
      /\ Got(h) \subseteq (since[h] + 1)..sent
      /\ h \notin dropped =>
           Got(h) = ((since[h] + 1)..sent)
                      \ {msg[p] : p \in {q \in Broadcasters : h \in todo[q]}}

(* The hub is a lossy feed: at most once, nothing from before, and those   *)
(* of one broadcaster in order.                                            *)
Feed == INSTANCE LossyFeed WITH
  Readers <- Handlers, Publishers <- Broadcasters,
  published <- sent, joined <- since, seen <- written,
  member <- {h \in Handlers : hpc[h] # "new"}
IsLossyFeed == Feed!Spec

(* A dashboard that went away loses its subscription: the status ticker    *)
(* notices, even when no snapshot is broadcast any more.                   *)
SubscriptionWithdrawn ==
  \A h \in Handlers : (h \in cut) ~> (hpc[h] = "gone")

=============================================================================
