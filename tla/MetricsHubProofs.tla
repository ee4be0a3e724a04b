-------------------------- MODULE MetricsHubProofs --------------------------
(***************************************************************************)
(* Theorems about the hub, for any handlers, broadcasters and capacity.    *)
(***************************************************************************)
EXTENDS MetricsHub, SequenceTheorems, TLAPS

USE HubAssumption

HasJoined == {"serving", "leaving"} \cup WritePCs

(* The list holds the channels of the handlers between Subscribe and       *)
(* Unsubscribe, which are open, and a broadcast visits no others.          *)
ListConsistent ==
  /\ \A h \in Handlers : h \in closed <=> hpc[h] = "gone"
  /\ \A h \in Handlers : h \in subscribers <=> hpc[h] \in HasJoined
  /\ \A p \in Broadcasters : todo[p] \subseteq subscribers
  /\ \A p \in Broadcasters : msg[p] = Nothing => todo[p] = {}
  /\ ~crashed

IInv == TypeOK /\ ListConsistent

-----------------------------------------------------------------------------
(* The initial state satisfies the inductive invariant.                    *)
LEMMA InitIInv == Init => IInv
<1> SUFFICES ASSUME Init PROVE IInv OBVIOUS
<1>1. /\ queue \in [Handlers -> Seq(1..MaxMessages)]
      /\ \A h \in Handlers : Len(queue[h]) <= Capacity
  <2>1. <<>> \in Seq(1..MaxMessages) /\ Len(<<>>) = 0 OBVIOUS
  <2> QED BY <2>1 DEF Init
<1>2. /\ hpc \in [Handlers -> {"new", "serving", "leaving", "gone"} \cup WritePCs]
      /\ hand \in [Handlers -> 0..MaxMessages]
      /\ msg \in [Broadcasters -> 0..MaxMessages]
      /\ since \in [Handlers -> 0..MaxMessages]
      /\ sent \in 0..MaxMessages
      /\ author \in [1..sent -> Broadcasters]
  <2>1. author = <<>> /\ sent = 0 BY DEF Init
  <2>2. author \in [1..sent -> Broadcasters] BY <2>1
  <2> QED BY <2>2 DEF Init, Nothing
<1>4. /\ todo \in [Broadcasters -> SUBSET Handlers]
      /\ written \in [Handlers -> SUBSET (1..MaxMessages)]
  BY DEF Init
<1>5. TypeOK BY <1>1, <1>2, <1>4 DEF Init, TypeOK
<1>3. ListConsistent BY DEF Init, ListConsistent, HasJoined, WritePCs, Nothing
<1> QED BY <1>5, <1>3 DEF IInv

(* Every step of a handler preserves types.                                *)
LEMMA HandlerTypes ==
  ASSUME IInv, NEW h \in Handlers, HandlerStep(h)
  PROVE  TypeOK'
<1> USE DEF TypeOK, WritePCs, Nothing
<1>1. CASE Subscribe(h)
  BY <1>1 DEF IInv, Subscribe, HandlerAt, castVars
<1>2. CASE CloseSocket(h)
  BY <1>2 DEF IInv, CloseSocket, castVars, hubVars
<1>3. CASE Receive(h)
  <2>1. /\ queue[h] \in Seq(1..MaxMessages)
        /\ queue[h] # <<>>
    BY <1>3 DEF IInv, Receive
  <2>2. Head(queue[h]) \in 1..MaxMessages BY <2>1
  <2>3. /\ Tail(queue[h]) \in Seq(1..MaxMessages)
        /\ Len(Tail(queue[h])) = Len(queue[h]) - 1
    BY <2>1, HeadTailProperties
  <2>4. Len(queue[h]) \in Nat /\ Len(queue[h]) <= Capacity
    BY <2>1 DEF IInv
  <2>5. queue' \in [Handlers -> Seq(1..MaxMessages)]
    BY <1>3, <2>3 DEF IInv, Receive
  <2>6. \A k \in Handlers : Len(queue'[k]) <= Capacity
    BY <1>3, <2>3, <2>4 DEF IInv, Receive
  <2>7. hand' \in [Handlers -> 0..MaxMessages]
    BY <1>3, <2>2 DEF IInv, Receive
  <2> QED BY <1>3, <2>5, <2>6, <2>7 DEF IInv, Receive, HandlerAt, castVars
<1>4. CASE StatusTick(h)
  BY <1>4 DEF IInv, StatusTick, HandlerAt, castVars, hubVars
<1>5. CASE WriteSucceeds(h)
  <2>1. written' \in [Handlers -> SUBSET (1..MaxMessages)]
    BY <1>5 DEF IInv, WriteSucceeds
  <2>2. hand' \in [Handlers -> 0..MaxMessages]
    BY <1>5 DEF IInv, WriteSucceeds
  <2>3. hpc' \in [Handlers -> {"new", "serving", "leaving", "gone"} \cup WritePCs]
    BY <1>5 DEF IInv, WriteSucceeds, HandlerAt
  <2> QED BY <1>5, <2>1, <2>2, <2>3 DEF IInv, WriteSucceeds, HandlerAt, castVars, hubVars
<1>6. CASE WriteFails(h)
  BY <1>6 DEF IInv, WriteFails, HandlerAt, castVars, hubVars
<1>7. CASE Unsubscribe(h)
  BY <1>7 DEF IInv, Unsubscribe, HandlerAt, castVars
<1> QED BY <1>1, <1>2, <1>3, <1>4, <1>5, <1>6, <1>7 DEF HandlerStep, Serve

(* Every step of a broadcaster preserves types.                            *)
LEMMA BroadcastTypes ==
  ASSUME IInv, NEW p \in Broadcasters, BroadcastStep(p)
  PROVE  TypeOK'
<1> USE DEF TypeOK, WritePCs, Nothing
<1>1. CASE BeginBroadcast(p)
  <2>1. author' \in [1..sent' -> Broadcasters]
    BY <1>1 DEF IInv, BeginBroadcast
  <2> QED BY <1>1, <2>1 DEF IInv, BeginBroadcast, hubVars, handlerVars
<1>2. ASSUME NEW h \in Handlers, Send(p, h) PROVE TypeOK'
  <2>1. msg[p] \in 1..MaxMessages
    BY <1>2 DEF IInv, ListConsistent, Send, Offer
  <2>2. CASE Len(queue[h]) < Capacity
    <3>1. /\ Append(queue[h], msg[p]) \in Seq(1..MaxMessages)
          /\ Len(Append(queue[h], msg[p])) = Len(queue[h]) + 1
          /\ Len(queue[h]) \in Nat
      BY <2>1 DEF IInv
    <3>2. queue' = [queue EXCEPT ![h] = Append(queue[h], msg[p])]
      BY <1>2, <2>2 DEF Send
    <3>4. queue' \in [Handlers -> Seq(1..MaxMessages)]
      BY <3>1, <3>2 DEF IInv
    <3>5. \A k \in Handlers : Len(queue'[k]) <= Capacity
      BY <2>2, <3>1, <3>2 DEF IInv
    <3>3. todo' \in [Broadcasters -> SUBSET Handlers]
      BY <1>2 DEF IInv, Send, Offer
    <3> QED BY <1>2, <2>2, <3>3, <3>4, <3>5 DEF IInv, Send, Offer, handlerVars
  <2>3. CASE ~(Len(queue[h]) < Capacity)
    BY <1>2, <2>3 DEF IInv, Send, Offer, handlerVars
  <2> QED BY <2>2, <2>3
<1>3. CASE EndBroadcast(p)
  BY <1>3 DEF IInv, EndBroadcast, hubVars, handlerVars
<1> QED BY <1>1, <1>2, <1>3 DEF BroadcastStep

(* Every step keeps the list consistent: Subscribe and Unsubscribe change  *)
(* it only while nobody reads it.                                          *)
LEMMA StepConsistent ==
  ASSUME IInv, [Next]_vars
  PROVE  ListConsistent'
<1> USE DEF ListConsistent, HasJoined, WritePCs, Nothing
<1>1. ASSUME NEW h \in Handlers, HandlerStep(h) PROVE ListConsistent'
  <2>1. CASE Subscribe(h)
    BY <1>1, <2>1 DEF IInv, TypeOK, Subscribe, HandlerAt, NoReader, castVars
  <2>2. CASE CloseSocket(h)
    BY <2>2 DEF IInv, TypeOK, CloseSocket, castVars, hubVars
  <2>3. CASE Receive(h)
    BY <2>3 DEF IInv, TypeOK, Receive, HandlerAt, castVars
  <2>4. CASE StatusTick(h)
    BY <2>4 DEF IInv, TypeOK, StatusTick, HandlerAt, castVars, hubVars
  <2>5. CASE WriteSucceeds(h)
    BY <2>5 DEF IInv, TypeOK, WriteSucceeds, HandlerAt, castVars, hubVars
  <2>6. CASE WriteFails(h)
    BY <2>6 DEF IInv, TypeOK, WriteFails, HandlerAt, castVars, hubVars
  <2>7. CASE Unsubscribe(h)
    BY <2>7 DEF IInv, TypeOK, Unsubscribe, HandlerAt, NoReader, castVars
  <2> QED BY <1>1, <2>1, <2>2, <2>3, <2>4, <2>5, <2>6, <2>7 DEF HandlerStep, Serve
<1>2. ASSUME NEW p \in Broadcasters, BroadcastStep(p) PROVE ListConsistent'
  <2>1. CASE BeginBroadcast(p)
    BY <2>1 DEF IInv, TypeOK, BeginBroadcast, hubVars, handlerVars
  <2>2. ASSUME NEW h \in Handlers, Send(p, h) PROVE ListConsistent'
    BY <2>2 DEF IInv, TypeOK, Send, Offer, handlerVars
  <2>3. CASE EndBroadcast(p)
    BY <2>3 DEF IInv, TypeOK, EndBroadcast, hubVars, handlerVars
  <2> QED BY <1>2, <2>1, <2>2, <2>3 DEF BroadcastStep
<1>3. CASE UNCHANGED vars
  BY <1>3 DEF IInv, vars, hubVars, handlerVars, castVars
<1> QED BY <1>1, <1>2, <1>3 DEF Next, Quiet

(* The inductive invariant.                                                *)
LEMMA Inductive == IInv /\ [Next]_vars => IInv'
<1> SUFFICES ASSUME IInv, [Next]_vars PROVE IInv' OBVIOUS
<1>1. CASE UNCHANGED vars
  BY <1>1, StepConsistent DEF IInv, TypeOK, vars, hubVars, handlerVars, castVars
<1> QED BY <1>1, HandlerTypes, BroadcastTypes, StepConsistent DEF Next, Quiet, IInv

(* The inductive invariant holds throughout.                               *)
LEMMA SpecIInv == Spec => []IInv
  BY InitIInv, Inductive, PTL DEF Spec

(* Type correctness of the hub.                                            *)
THEOREM TypeCorrect == Spec => []TypeOK
<1>1. IInv => TypeOK BY DEF IInv
<1> QED BY SpecIInv, <1>1, PTL

(* Nobody ever sends on a channel that Unsubscribe has closed.             *)
THEOREM NobodySendsOnClosed == Spec => []NeverSendsOnClosed
<1>1. IInv => NeverSendsOnClosed BY DEF IInv, ListConsistent, NeverSendsOnClosed
<1> QED BY SpecIInv, <1>1, PTL

-----------------------------------------------------------------------------
(***************************************************************************)
(* The hub is a lossy feed.  The invariant: behind what a handler has      *)
(* written come the message in its hand, its queue in order, and the       *)
(* messages of the broadcasts that still have to visit it, in any order.   *)
(***************************************************************************)
(* A reader may get m after k: they are different, and if one goroutine    *)
(* broadcast both, it broadcast k first.                                   *)
Before(k, m) == k # m /\ (author[k] = author[m] => k < m)

(* Nothing that handler h has had, and that is not in its queue, comes     *)
(* after m.                                                                *)
Behind(h, m) ==
  /\ since[h] < m /\ m <= sent
  /\ hand[h] # Nothing => Before(hand[h], m)
  /\ \A k \in written[h] : Before(k, m)

InOrder(h) ==
  /\ \A i, j \in 1..Len(queue[h]) : i < j => Before(queue[h][i], queue[h][j])
  /\ \A i \in 1..Len(queue[h]) : Behind(h, queue[h][i])
  /\ hand[h] # Nothing =>
       since[h] < hand[h] /\ hand[h] <= sent /\ \A k \in written[h] : Before(k, hand[h])
  /\ \A k \in written[h] : since[h] < k /\ k <= sent
  /\ hpc[h] = "new" => queue[h] = <<>> /\ hand[h] = Nothing /\ written[h] = {}
  /\ since[h] <= sent

Pending(p, h) ==
  h \in todo[p] =>
    /\ Behind(h, msg[p])
    /\ \A i \in 1..Len(queue[h]) : Before(queue[h][i], msg[p])

Signed(p) ==
  /\ msg[p] <= sent
  /\ msg[p] # Nothing => author[msg[p]] = p

Ordered ==
  /\ \A h \in Handlers : InOrder(h)
  /\ \A p \in Broadcasters : Signed(p) /\ \A h \in Handlers : Pending(p, h)

(* Initially nothing has been sent.                                        *)
LEMMA InitOrdered == Init => Ordered
  BY DEF Init, Ordered, InOrder, Pending, Signed, Nothing

(* A step of handler h leaves the order of every other channel alone.      *)
LEMMA OthersOrdered ==
  ASSUME IInv, Ordered, NEW h \in Handlers, InOrder(h)',
         \A p \in Broadcasters : Pending(p, h)',
         UNCHANGED <<sent, author, since, msg, todo>>,
         \A k \in Handlers \ {h} : /\ queue'[k] = queue[k] /\ hand'[k] = hand[k]
                                  /\ hpc'[k] = hpc[k] /\ written'[k] = written[k]
  PROVE  Ordered'
<1>1. ASSUME NEW k \in Handlers, k # h PROVE InOrder(k)'
  BY <1>1 DEF Ordered, InOrder, Behind, Before
<1>2. ASSUME NEW k \in Handlers, k # h, NEW p \in Broadcasters PROVE Pending(p, k)'
  BY <1>2 DEF Ordered, Pending, Behind, Before
<1>3. \A p \in Broadcasters : Signed(p)'
  BY DEF Ordered, Signed
<1> QED BY <1>1, <1>2, <1>3 DEF Ordered

(* A step of handler h keeps its own channel in order and is behind every  *)
(* broadcast.                                                              *)
LEMMA HandlerOrdered ==
  ASSUME IInv, Ordered, NEW h \in Handlers, HandlerStep(h)
  PROVE  Ordered'
<1> USE DEF Nothing, Before, Behind, Signed
<1>0. /\ queue[h] \in Seq(1..MaxMessages)
      /\ hand[h] \in 0..MaxMessages /\ sent \in 0..MaxMessages
      /\ since[h] \in 0..MaxMessages /\ written[h] \subseteq 1..MaxMessages
      /\ InOrder(h)
  BY DEF IInv, TypeOK, Ordered
<1>1. CASE Subscribe(h)
  <2>1. \A p \in Broadcasters : h \notin todo'[p]
    BY <1>1 DEF IInv, ListConsistent, Subscribe, NoReader, castVars
  <2>2. InOrder(h)'
    BY <1>0, <1>1 DEF IInv, TypeOK, Subscribe, HandlerAt, castVars, InOrder
  <2>3. /\ UNCHANGED <<queue, hand, written, castVars>>
        /\ \A k \in Handlers \ {h} : hpc'[k] = hpc[k] /\ since'[k] = since[k]
    BY <1>1 DEF IInv, TypeOK, Subscribe, HandlerAt
  <2>4. ASSUME NEW k \in Handlers \ {h}
        PROVE  InOrder(k)' /\ \A p \in Broadcasters : Pending(p, k)'
    BY <2>3 DEF Ordered, InOrder, Pending, castVars
  <2>5. \A p \in Broadcasters : Signed(p)' /\ Pending(p, h)'
    BY <2>1, <2>3 DEF Ordered, Pending, castVars
  <2> QED BY <2>2, <2>4, <2>5 DEF Ordered
<1>2. CASE CloseSocket(h)
  BY <1>2 DEF Ordered, InOrder, Pending, CloseSocket, castVars, hubVars
<1>3. CASE Receive(h)
  <2>1. /\ Len(Tail(queue[h])) = Len(queue[h]) - 1
        /\ \A i \in 1..Len(Tail(queue[h])) : Tail(queue[h])[i] = queue[h][i + 1]
        /\ Head(queue[h]) = queue[h][1]
        /\ Len(queue[h]) \in Nat \ {0}
    BY <1>0, <1>3, HeadTailProperties DEF Receive
  <2>2. /\ queue'[h] = Tail(queue[h]) /\ hand'[h] = queue[h][1]
        /\ UNCHANGED <<since, written, sent, author, todo, msg>>
        /\ hpc'[h] # "new"
    BY <1>3, <2>1 DEF Receive, HandlerAt, castVars, IInv, TypeOK
  <2>3. \A i \in 1..Len(queue[h]) : queue[h][i] \in 1..MaxMessages
    BY <1>0
  <2>4. InOrder(h)'
    <3> DEFINE q == queue[h]
    <3>1. \A i, j \in 1..Len(q) : i < j => Before(q[i], q[j])
      BY <1>0 DEF InOrder
    <3>2. \A i \in 1..Len(q) : since[h] < q[i] /\ q[i] <= sent /\ \A k \in written[h] : Before(k, q[i])
      BY <1>0 DEF InOrder
    <3>3. \A i \in 1..Len(Tail(q)) : i + 1 \in 1..Len(q) /\ 1 < i + 1 /\ 1 \in 1..Len(q)
      BY <2>1
    <3>4. \A i, j \in 1..Len(Tail(q)) : i < j => Before(Tail(q)[i], Tail(q)[j])
      <4> TAKE i, j \in 1..Len(Tail(q))
      <4> HAVE i < j
      <4>1. i + 1 \in 1..Len(q) /\ j + 1 \in 1..Len(q) /\ i + 1 < j + 1 BY <2>1
      <4>2. Before(q[i + 1], q[j + 1]) BY <3>1, <4>1
      <4> QED BY <2>1, <4>2
    <3>5. \A i \in 1..Len(Tail(q)) :
            /\ since[h] < Tail(q)[i] /\ Tail(q)[i] <= sent
            /\ Before(q[1], Tail(q)[i])
            /\ \A k \in written[h] : Before(k, Tail(q)[i])
      BY <2>1, <3>1, <3>2, <3>3
    <3>6. since[h] < q[1] /\ q[1] <= sent /\ \A k \in written[h] : Before(k, q[1])
      BY <2>1, <3>2
    <3> QED BY <1>0, <2>2, <3>4, <3>5, <3>6 DEF InOrder
  <2>5. \A p \in Broadcasters : Pending(p, h)'
    BY <1>0, <2>1, <2>2, <2>3 DEF Ordered, Pending
  <2> QED
    BY <1>3, <2>2, <2>4, <2>5, OthersOrdered DEF IInv, TypeOK, Receive, HandlerAt
<1>4. CASE StatusTick(h)
  <2>1. /\ UNCHANGED <<queue, hand, written, since, sent, author, msg, todo>>
        /\ hpc'[h] # "new" /\ \A k \in Handlers \ {h} : hpc'[k] = hpc[k]
    BY <1>4 DEF IInv, TypeOK, StatusTick, HandlerAt, castVars, hubVars
  <2>2. InOrder(h)' BY <1>0, <2>1 DEF InOrder
  <2>3. \A p \in Broadcasters : Pending(p, h)' BY <2>1 DEF Ordered, Pending
  <2> QED BY <2>1, <2>2, <2>3, OthersOrdered
<1>5. CASE WriteSucceeds(h)
  <2>1. /\ written'[h] \subseteq written[h] \cup ({hand[h]} \ {0})
        /\ hand'[h] = 0
        /\ UNCHANGED <<queue, since, sent, author, todo, msg>>
        /\ hpc'[h] # "new"
    BY <1>5 DEF WriteSucceeds, HandlerAt, castVars, hubVars, IInv, TypeOK
  <2>2. \A i \in 1..Len(queue[h]) : queue[h][i] \in 1..MaxMessages
    BY <1>0
  <2>3. InOrder(h)'
    BY <1>0, <2>1, <2>2 DEF InOrder
  <2>4. ASSUME NEW p \in Broadcasters PROVE Pending(p, h)'
    <3>1. Pending(p, h) BY DEF Ordered
    <3> QED BY <2>1, <3>1 DEF Pending
  <2> QED
    BY <1>5, <2>1, <2>3, <2>4, OthersOrdered DEF IInv, TypeOK, WriteSucceeds, HandlerAt
<1>6. CASE WriteFails(h)
  <2>1. /\ hand'[h] = 0
        /\ UNCHANGED <<queue, written, since, sent, author, todo, msg>>
        /\ hpc'[h] # "new"
    BY <1>6 DEF WriteFails, HandlerAt, castVars, hubVars, IInv, TypeOK
  <2>2. \A i \in 1..Len(queue[h]) : queue[h][i] \in 1..MaxMessages
    BY <1>0
  <2>3. InOrder(h)' BY <1>0, <2>1, <2>2 DEF InOrder
  <2>4. ASSUME NEW p \in Broadcasters PROVE Pending(p, h)'
    <3>1. Pending(p, h) BY DEF Ordered
    <3> QED BY <2>1, <3>1 DEF Pending
  <2> QED
    BY <1>6, <2>1, <2>3, <2>4, OthersOrdered DEF IInv, TypeOK, WriteFails, HandlerAt
<1>7. CASE Unsubscribe(h)
  <2>1. /\ UNCHANGED <<queue, hand, written, since, sent, author, msg, todo>>
        /\ hpc'[h] # "new" /\ \A k \in Handlers \ {h} : hpc'[k] = hpc[k]
    BY <1>7 DEF IInv, TypeOK, Unsubscribe, HandlerAt, castVars
  <2>2. InOrder(h)' BY <1>0, <2>1 DEF InOrder
  <2>3. \A p \in Broadcasters : Pending(p, h)' BY <2>1 DEF Ordered, Pending
  <2> QED BY <2>1, <2>2, <2>3, OthersOrdered
<1> QED BY <1>1, <1>2, <1>3, <1>4, <1>5, <1>6, <1>7 DEF HandlerStep, Serve

(* What a handler has had or may still get has been sent.                  *)
LEMMA HadWasSent ==
  ASSUME IInv, NEW h \in Handlers, InOrder(h)
  PROVE  /\ \A i \in 1..Len(queue[h]) : queue[h][i] \in 1..sent
         /\ hand[h] # Nothing => hand[h] \in 1..sent
         /\ written[h] \subseteq 1..sent
<1>1. /\ queue[h] \in Seq(1..MaxMessages) /\ hand[h] \in 0..MaxMessages
      /\ written[h] \subseteq 1..MaxMessages /\ sent \in Nat
  BY DEF IInv, TypeOK
<1>2. \A i \in 1..Len(queue[h]) : queue[h][i] \in 1..MaxMessages /\ queue[h][i] <= sent
  BY <1>1 DEF InOrder, Behind
<1>3. \A k \in written[h] : k \in 1..MaxMessages /\ k <= sent
  BY <1>1 DEF InOrder
<1> QED BY <1>1, <1>2, <1>3 DEF InOrder, Nothing

(* A broadcaster numbers its message above all others, and puts it behind  *)
(* all others of a channel; what another one still has to put there bears  *)
(* another name.                                                           *)
LEMMA BroadcastOrdered ==
  ASSUME IInv, Ordered, NEW p \in Broadcasters, BroadcastStep(p)
  PROVE  Ordered'
<1>1. CASE BeginBroadcast(p)
  <2>1. /\ sent \in Nat /\ sent' = sent + 1
        /\ UNCHANGED <<queue, hand, hpc, since, written>>
        /\ msg'[p] = sent + 1 /\ \A q \in Broadcasters \ {p} : msg'[q] = msg[q] /\ todo'[q] = todo[q]
        /\ author'[sent + 1] = p /\ \A m \in 1..sent : author'[m] = author[m]
    BY <1>1 DEF BeginBroadcast, hubVars, handlerVars, IInv, TypeOK
  <2>2. \A k, m \in 1..sent : Before(k, m) => Before(k, m)'
    BY <2>1 DEF Before
  <2>3. ASSUME NEW k \in 1..sent, NEW m, m = sent + 1 PROVE Before(k, m)'
    BY <2>1, <2>3 DEF Before
  <2>4. ASSUME NEW q \in Broadcasters PROVE Signed(q)'
    <3>1. msg[q] \in 0..MaxMessages /\ Signed(q) BY DEF Ordered, IInv, TypeOK
    <3> QED BY <2>1, <3>1 DEF Signed, Nothing
  <2>5. ASSUME NEW h \in Handlers PROVE InOrder(h)' /\ \A q \in Broadcasters : Pending(q, h)'
    <3>1. /\ InOrder(h) /\ since[h] \in Nat
          /\ \A i \in 1..Len(queue[h]) : queue[h][i] \in 1..sent
          /\ hand[h] # Nothing => hand[h] \in 1..sent
          /\ written[h] \subseteq 1..sent
      BY HadWasSent DEF IInv, TypeOK, Ordered
    <3>2. ASSUME NEW m \in 1..sent, Behind(h, m) PROVE Behind(h, m)'
      BY <2>1, <2>2, <3>1, <3>2 DEF Behind, Nothing
    <3>3. InOrder(h)'
      <4>1. \A i, j \in 1..Len(queue[h]) : i < j => Before(queue[h][i], queue[h][j])'
        BY <2>1, <2>2, <3>1 DEF InOrder
      <4>2. \A i \in 1..Len(queue[h]) : Behind(h, queue[h][i])'
        BY <2>1, <3>1, <3>2 DEF InOrder
      <4>3. hand[h] # Nothing => hand[h] <= sent + 1 /\ \A k \in written[h] : Before(k, hand[h])'
        BY <2>1, <2>2, <3>1 DEF InOrder
      <4>4. (\A k \in written[h] : k <= sent + 1) /\ since[h] <= sent + 1
        BY <2>1, <3>1 DEF InOrder
      <4> QED BY <2>1, <3>1, <4>1, <4>2, <4>3, <4>4 DEF InOrder, Nothing
    <3>4. Pending(p, h)'
      <4>1. since[h] < sent + 1 BY <2>1, <3>1 DEF InOrder
      <4>2. hand[h] # Nothing => Before(hand[h], msg[p])' BY <2>1, <2>3, <3>1
      <4>3. \A k \in written[h] : Before(k, msg[p])' BY <2>1, <2>3, <3>1
      <4>4. \A i \in 1..Len(queue[h]) : Before(queue[h][i], msg[p])' BY <2>1, <2>3, <3>1
      <4> QED BY <2>1, <4>1, <4>2, <4>3, <4>4 DEF Pending, Behind, Nothing
    <3>5. ASSUME NEW q \in Broadcasters, q # p PROVE Pending(q, h)'
      <4>1. CASE h \notin todo[q] BY <2>1, <3>5, <4>1 DEF Pending
      <4>2. CASE h \in todo[q]
        <5>1. msg[q] \in 1..sent
          BY <4>2 DEF Ordered, Signed, IInv, TypeOK, ListConsistent, Nothing
        <5>2. Pending(q, h) BY DEF Ordered
        <5> QED BY <2>1, <2>2, <3>1, <3>2, <3>5, <4>2, <5>1, <5>2 DEF Pending
      <4> QED BY <4>1, <4>2
    <3> QED BY <3>3, <3>4, <3>5
  <2> QED BY <2>4, <2>5 DEF Ordered
<1>2. ASSUME NEW h \in Handlers, Send(p, h) PROVE Ordered'
  <2>1. /\ UNCHANGED <<hand, hpc, since, written, sent, author, msg>>
        /\ h \in todo[p] /\ todo'[p] = todo[p] \ {h}
        /\ \A q \in Broadcasters : todo'[q] \subseteq todo[q]
        /\ \A k \in Handlers \ {h} : queue'[k] = queue[k]
    BY <1>2 DEF Send, Offer, handlerVars, IInv, TypeOK
  <2>2. \A q \in Broadcasters : Signed(q)'
    BY <2>1 DEF Ordered, Signed
  <2>3. ASSUME NEW k \in Handlers \ {h} PROVE InOrder(k)' /\ \A q \in Broadcasters : Pending(q, k)'
    <3>1. InOrder(k)' BY <2>1 DEF Ordered, InOrder, Behind, Before
    <3>2. \A q \in Broadcasters : Pending(q, k)' BY <2>1 DEF Ordered, Pending, Behind, Before
    <3> QED BY <3>1, <3>2
  <2>4. /\ queue[h] \in Seq(1..MaxMessages) /\ msg[p] \in 1..MaxMessages
        /\ InOrder(h) /\ Behind(h, msg[p]) /\ author[msg[p]] = p /\ hpc[h] # "new"
        /\ \A i \in 1..Len(queue[h]) : Before(queue[h][i], msg[p])
    <3>1. h \in subscribers /\ hpc[h] # "new" /\ msg[p] # Nothing
      BY <2>1 DEF IInv, ListConsistent, HasJoined, WritePCs
    <3>2. msg[p] \in 1..MaxMessages /\ queue[h] \in Seq(1..MaxMessages)
      BY <3>1 DEF IInv, TypeOK, Nothing
    <3> QED BY <2>1, <3>1, <3>2 DEF Ordered, Pending, Signed
  <2>5. CASE queue'[h] = queue[h]
    <3>1. InOrder(h)' BY <2>1, <2>4, <2>5 DEF InOrder, Behind, Before
    <3>2. \A q \in Broadcasters : Pending(q, h)'
      BY <2>1, <2>5 DEF Ordered, Pending, Behind, Before
    <3> QED BY <2>2, <2>3, <3>1, <3>2 DEF Ordered
  <2>6. CASE queue'[h] = Append(queue[h], msg[p])
    <3> DEFINE n == Len(queue[h])
    <3>1. /\ Len(queue'[h]) = n + 1 /\ n \in Nat
          /\ \A i \in 1..n : queue'[h][i] = queue[h][i]
          /\ queue'[h][n + 1] = msg[p]
      BY <2>4, <2>6, AppendProperties
    <3>9. \A i \in 1..(n + 1) : i \in 1..n \/ i = n + 1
      BY <3>1
    <3>2. \A i, j \in 1..(n + 1) : i < j => Before(queue'[h][i], queue'[h][j])
      <4> TAKE i, j \in 1..(n + 1)
      <4> HAVE i < j
      <4>1. i \in 1..n /\ (j \in 1..n \/ j = n + 1) BY <3>1
      <4> QED BY <2>4, <3>1, <4>1 DEF InOrder
    <3>3. \A i \in 1..(n + 1) : Behind(h, queue'[h][i])
      BY <2>4, <3>1, <3>9 DEF InOrder
    <3>4. \A m : Behind(h, m) => Behind(h, m)'
      BY <2>1 DEF Behind, Before
    <3>5. \A k, m : Before(k, m) => Before(k, m)'
      BY <2>1 DEF Before
    <3>6. InOrder(h)'
      <4>1. \A i, j \in 1..(n + 1) : i < j => Before(queue[h][i], queue[h][j])'
        BY <2>1, <3>2 DEF Before
      <4>2. \A i \in 1..(n + 1) : Behind(h, queue[h][i])'
        BY <2>1, <3>3 DEF Behind, Before
      <4> QED BY <2>1, <2>4, <3>1, <3>5, <4>1, <4>2 DEF InOrder, Nothing
    <3>7. ASSUME NEW q \in Broadcasters, h \in todo'[q] PROVE Pending(q, h)'
      <4>1. q # p /\ h \in todo[q] BY <2>1, <3>7
      <4>2. msg[q] # Nothing BY <4>1 DEF IInv, ListConsistent
      <4>3. /\ author[msg[q]] = q /\ Behind(h, msg[q])
            /\ \A i \in 1..n : Before(queue[h][i], msg[q])
        BY <4>1, <4>2 DEF Ordered, Signed, Pending
      <4>4. Before(msg[p], msg[q]) BY <2>4, <4>1, <4>3 DEF Before
      <4>5. \A i \in 1..(n + 1) : Before(queue'[h][i], msg[q]) BY <3>1, <3>9, <4>3, <4>4
      <4> QED BY <2>1, <3>1, <4>3, <4>5 DEF Pending, Behind, Before
    <3>8. \A q \in Broadcasters : Pending(q, h)' BY <3>7 DEF Pending
    <3> QED BY <2>2, <2>3, <3>6, <3>8 DEF Ordered
  <2> QED BY <1>2, <2>5, <2>6 DEF Send, IInv, TypeOK
<1>3. CASE EndBroadcast(p)
  <2>1. /\ UNCHANGED <<queue, hand, hpc, since, written, sent, author, todo>>
        /\ todo[p] = {} /\ msg'[p] = Nothing
        /\ \A q \in Broadcasters \ {p} : msg'[q] = msg[q]
    BY <1>3 DEF EndBroadcast, hubVars, handlerVars, IInv, TypeOK
  <2>2. \A h \in Handlers : InOrder(h)' BY <2>1 DEF Ordered, InOrder, Behind, Before
  <2>3. ASSUME NEW q \in Broadcasters PROVE Signed(q)'
    <3>1. Signed(q) /\ sent \in Nat BY DEF Ordered, IInv, TypeOK
    <3>2. CASE q = p BY <2>1, <3>1, <3>2 DEF Signed, Nothing
    <3>3. CASE q # p BY <2>1, <3>1, <3>3 DEF Signed
    <3> QED BY <3>2, <3>3
  <2>4. ASSUME NEW h \in Handlers, NEW q \in Broadcasters PROVE Pending(q, h)'
    BY <2>1 DEF Ordered, Pending, Behind, Before
  <2> QED BY <2>2, <2>3, <2>4 DEF Ordered
<1> QED BY <1>1, <1>2, <1>3 DEF BroadcastStep

(* Every step is a step of the lossy feed or leaves it alone.              *)
LEMMA StepRefines ==
  ASSUME IInv, Ordered, [Next]_vars
  PROVE  [Feed!Next]_Feed!vars
<1> USE DEF Feed!Next, Feed!vars, Feed!Publish, Feed!Join, Feed!See
<1>1. ASSUME NEW h \in Handlers, HandlerStep(h) PROVE [Feed!Next]_Feed!vars
  <2>1. CASE Subscribe(h)
    BY <2>1 DEF IInv, TypeOK, Subscribe, HandlerAt, castVars
  <2>2. CASE WriteSucceeds(h) /\ hand[h] # Nothing
    <3>1. /\ hpc[h] # "new" /\ hpc' = [hpc EXCEPT ![h] = hpc'[h]] /\ hpc'[h] # "new"
          /\ written' = [written EXCEPT ![h] = @ \cup {hand[h]}]
          /\ UNCHANGED <<sent, author, since>>
      BY <2>2 DEF WriteSucceeds, HandlerAt, castVars, IInv, TypeOK
    <3>2. /\ hand[h] \in (since[h] + 1)..sent
          /\ \A k \in written[h] : Before(k, hand[h])
      BY <2>2 DEF Ordered, InOrder, IInv, TypeOK
    <3>3. {k \in Handlers : hpc'[k] # "new"} = {k \in Handlers : hpc[k] # "new"}
      BY <3>1 DEF IInv, TypeOK
    <3>4. Feed!See(h) BY <3>1, <3>2, <3>3 DEF Before
    <3> QED BY <3>4
  <2>3. CASE HandlerStep(h) /\ ~Subscribe(h) /\ ~(WriteSucceeds(h) /\ hand[h] # Nothing)
    <3>1. UNCHANGED <<sent, author, since, written>>
      BY <2>3 DEF HandlerStep, Serve, CloseSocket, Receive, StatusTick, WriteSucceeds,
                  WriteFails, Unsubscribe, castVars
    <3>2. \A k \in Handlers : hpc'[k] = "new" <=> hpc[k] = "new"
      BY <2>3 DEF HandlerStep, Serve, CloseSocket, Receive, StatusTick, WriteSucceeds,
                  WriteFails, Unsubscribe, HandlerAt, WritePCs, IInv, TypeOK
    <3> QED BY <3>1, <3>2
  <2> QED BY <1>1, <2>1, <2>2, <2>3
<1>2. ASSUME NEW p \in Broadcasters, BroadcastStep(p) PROVE [Feed!Next]_Feed!vars
  BY <1>2 DEF BroadcastStep, BeginBroadcast, Send, Offer, EndBroadcast, hubVars, handlerVars
<1>3. CASE UNCHANGED vars
  BY <1>3 DEF vars, castVars, handlerVars
<1> QED BY <1>1, <1>2, <1>3 DEF Next, Quiet

(* Every step keeps the order.                                             *)
LEMMA StepOrdered == IInv /\ Ordered /\ [Next]_vars => Ordered'
<1> SUFFICES ASSUME IInv, Ordered, [Next]_vars PROVE Ordered' OBVIOUS
<1>1. CASE UNCHANGED vars
  BY <1>1 DEF Ordered, InOrder, Pending, Signed, Behind, Before, vars, hubVars, handlerVars, castVars
<1> QED BY <1>1, HandlerOrdered, BroadcastOrdered DEF Next, Quiet

(* What handlers have had and will get is in order throughout.             *)
LEMMA SpecOrdered == Spec => []Ordered
  BY InitOrdered, StepOrdered, SpecIInv, PTL DEF Spec

(* The hub is a lossy feed: a reader gets each message at most once, those *)
(* of one goroutine in the order it broadcast them, and none from before   *)
(* it subscribed.                                                          *)
THEOREM HubIsLossyFeed == Spec => IsLossyFeed
<1> SUFFICES Spec => Feed!Spec
  BY DEF IsLossyFeed
<1>1. Init => Feed!Init
  BY DEF Init, Feed!Init
<1>2. IInv /\ Ordered /\ [Next]_vars => [Feed!Next]_Feed!vars
  BY StepRefines
<1> QED BY <1>1, <1>2, SpecIInv, SpecOrdered, PTL DEF Spec, Feed!Spec

-----------------------------------------------------------------------------
(***************************************************************************)
(* A handler that keeps up gets everything.  The invariant: of what was    *)
(* broadcast since it subscribed, whatever it does not have is still to be *)
(* offered to it by a broadcast under way.                                 *)
(***************************************************************************)
Has(h, m) ==
  \/ \E i \in 1..Len(queue[h]) : queue[h][i] = m
  \/ m \in written[h]
  \/ hand[h] = m

Due(h, m) == \E p \in Broadcasters : h \in todo[p] /\ msg[p] = m

Kept(h) ==
  /\ hand[h] # Nothing => hpc[h] = "message"
  /\ h \notin dropped /\ hpc[h] \in {"serving"} \cup WritePCs =>
       \A m \in (since[h] + 1)..sent : Has(h, m) \/ Due(h, m)

AllKept == \A h \in Handlers : Kept(h)

(* A handler gives nothing away while it serves.                           *)
LEMMA HandlerKeeps ==
  ASSUME IInv, Ordered, AllKept, NEW h \in Handlers, HandlerStep(h)
  PROVE  AllKept'
<1>1. UNCHANGED <<msg, todo, sent, dropped>>
  BY DEF HandlerStep, Serve, Subscribe, CloseSocket, Receive, StatusTick, WriteSucceeds,
         WriteFails, Unsubscribe, castVars
<1>2. ASSUME NEW k \in Handlers, k # h PROVE Kept(k)'
  <2>1. /\ queue'[k] = queue[k] /\ hand'[k] = hand[k] /\ written'[k] = written[k]
        /\ hpc'[k] = hpc[k] /\ since'[k] = since[k]
    BY <1>2 DEF HandlerStep, Serve, Subscribe, CloseSocket, Receive, StatusTick, WriteSucceeds,
                WriteFails, Unsubscribe, HandlerAt, hubVars, IInv, TypeOK
  <2> QED BY <1>1, <2>1 DEF AllKept, Kept, Has, Due
<1>3. Kept(h)'
  <2>0. /\ Kept(h) /\ queue[h] \in Seq(1..MaxMessages) /\ sent \in Nat
        /\ hand[h] \in 0..MaxMessages /\ since[h] \in Nat
    BY DEF AllKept, IInv, TypeOK
  <2>1. CASE Subscribe(h)
    <3>1. since'[h] = sent /\ sent' = sent /\ hpc'[h] = "serving" /\ hand'[h] = hand[h]
      BY <2>1 DEF Subscribe, HandlerAt, castVars, IInv, TypeOK
    <3>2. hand[h] = Nothing BY <2>1 DEF Ordered, InOrder, Subscribe, HandlerAt
    <3>3. (since'[h] + 1)..sent' = {} BY <2>0, <3>1
    <3> QED BY <3>1, <3>2, <3>3 DEF Kept
  <2>2. CASE CloseSocket(h)
    BY <1>1, <2>0, <2>2 DEF CloseSocket, hubVars, Kept, Has, Due
  <2>3. CASE Receive(h)
    <3>1. /\ hand[h] = Nothing /\ hand'[h] = queue[h][1] /\ hpc'[h] = "message"
          /\ queue'[h] = Tail(queue[h]) /\ written'[h] = written[h] /\ since'[h] = since[h]
          /\ hpc[h] = "serving"
      BY <2>0, <2>3 DEF Receive, HandlerAt, Kept, IInv, TypeOK
    <3>2. /\ Len(queue[h]) \in Nat \ {0} /\ Len(Tail(queue[h])) = Len(queue[h]) - 1
          /\ \A i \in 1..Len(Tail(queue[h])) : Tail(queue[h])[i] = queue[h][i + 1]
      BY <2>0, <2>3, HeadTailProperties DEF Receive
    <3>3. ASSUME NEW m \in (since[h] + 1)..sent, Has(h, m) PROVE Has(h, m)'
      <4>1. CASE \E i \in 1..Len(queue[h]) : queue[h][i] = m
        <5>1. PICK i \in 1..Len(queue[h]) : queue[h][i] = m BY <4>1
        <5>2. CASE i = 1 BY <3>1, <5>1, <5>2 DEF Has
        <5>3. CASE i # 1
          <6>1. i - 1 \in 1..Len(Tail(queue[h])) /\ Tail(queue[h])[i - 1] = m
            BY <3>2, <5>1, <5>3
          <6> QED BY <3>1, <6>1 DEF Has
        <5> QED BY <5>2, <5>3
      <4>2. CASE m \in written[h] BY <3>1, <4>2 DEF Has
      <4> QED BY <2>0, <3>1, <3>3, <4>1, <4>2 DEF Has, Nothing
    <3> QED BY <1>1, <2>0, <3>1, <3>3 DEF Kept, Due
  <2>4. CASE StatusTick(h)
    <3>1. /\ UNCHANGED <<queue, hand, written, since>>
          /\ hpc[h] = "serving" /\ hpc'[h] = "status"
      BY <2>4 DEF StatusTick, HandlerAt, hubVars, IInv, TypeOK
    <3> QED BY <1>1, <2>0, <3>1 DEF Kept, Has, Due, WritePCs
  <2>5. CASE WriteSucceeds(h)
    <3>1. /\ UNCHANGED <<queue, since>> /\ hand'[h] = Nothing
          /\ hpc[h] \in {"serving"} \cup WritePCs
          /\ hand[h] # Nothing => written'[h] = written[h] \cup {hand[h]}
          /\ hand[h] = Nothing => written'[h] = written[h]
      BY <2>5 DEF WriteSucceeds, HandlerAt, hubVars, IInv, TypeOK, WritePCs
    <3>2. ASSUME NEW m \in (since[h] + 1)..sent, Has(h, m) PROVE Has(h, m)'
      BY <2>0, <3>1, <3>2 DEF Has, Nothing
    <3> QED BY <1>1, <2>0, <3>1, <3>2 DEF Kept, Due
  <2>6. CASE WriteFails(h)
    BY <2>6 DEF WriteFails, HandlerAt, Kept, WritePCs, IInv, TypeOK
  <2>7. CASE Unsubscribe(h)
    <3>1. hpc[h] = "leaving" /\ hpc'[h] = "gone" /\ hand'[h] = hand[h]
      BY <2>7 DEF Unsubscribe, HandlerAt, IInv, TypeOK
    <3> QED BY <2>0, <3>1 DEF Kept, WritePCs
  <2> QED BY <2>1, <2>2, <2>3, <2>4, <2>5, <2>6, <2>7 DEF HandlerStep, Serve
<1> QED BY <1>2, <1>3 DEF AllKept

(* A broadcast is due to every subscriber, until it is in the queue or the *)
(* queue was full.                                                         *)
LEMMA BroadcastKeeps ==
  ASSUME IInv, AllKept, NEW p \in Broadcasters, BroadcastStep(p)
  PROVE  AllKept'
<1>1. ASSUME BeginBroadcast(p), NEW k \in Handlers PROVE Kept(k)'
  <2>1. /\ UNCHANGED <<queue, hand, written, since, hpc, dropped>>
        /\ sent \in Nat /\ sent' = sent + 1 /\ since[k] \in Nat
        /\ msg'[p] = sent + 1 /\ todo'[p] = subscribers /\ todo[p] = {}
        /\ \A q \in Broadcasters \ {p} : msg'[q] = msg[q] /\ todo'[q] = todo[q]
    BY <1>1 DEF BeginBroadcast, hubVars, handlerVars, IInv, TypeOK, ListConsistent
  <2>2. ASSUME NEW m, Has(k, m) \/ Due(k, m) PROVE Has(k, m)' \/ Due(k, m)'
    BY <2>1, <2>2 DEF Has, Due
  <2>3. hpc[k] \in {"serving"} \cup WritePCs => k \in todo'[p]
    BY <2>1 DEF IInv, ListConsistent, HasJoined
  <2>4. ASSUME NEW m \in (since[k] + 1)..(sent + 1) PROVE m = sent + 1 \/ m \in (since[k] + 1)..sent
    BY <2>1
  <2>5. hpc[k] \in {"serving"} \cup WritePCs => Due(k, msg[p])'
    BY <2>1, <2>3 DEF Due
  <2> QED BY <2>1, <2>2, <2>4, <2>5 DEF AllKept, Kept
<1>2. ASSUME NEW h \in Handlers, Send(p, h), NEW k \in Handlers PROVE Kept(k)'
  <2>1. /\ UNCHANGED <<hand, written, since, hpc, sent, msg>>
        /\ h \in todo[p] /\ todo'[p] = todo[p] \ {h}
        /\ \A q \in Broadcasters \ {p} : todo'[q] = todo[q]
        /\ \A j \in Handlers \ {h} : queue'[j] = queue[j]
        /\ dropped \subseteq dropped'
    BY <1>2 DEF Send, Offer, handlerVars, IInv, TypeOK
  <2>2. CASE k # h
    BY <2>1, <2>2 DEF AllKept, Kept, Has, Due
  <2>3. CASE k = h /\ h \in dropped'
    BY <2>1, <2>3 DEF AllKept, Kept
  <2>4. CASE k = h /\ h \notin dropped'
    <3>1. /\ queue'[h] = Append(queue[h], msg[p]) /\ queue[h] \in Seq(1..MaxMessages)
          /\ msg[p] \in 1..MaxMessages
      BY <1>2, <2>4 DEF Send, Offer, IInv, TypeOK, ListConsistent, Nothing
    <3>2. /\ Len(queue'[h]) = Len(queue[h]) + 1 /\ Len(queue[h]) \in Nat
          /\ \A i \in 1..Len(queue[h]) : queue'[h][i] = queue[h][i]
          /\ queue'[h][Len(queue[h]) + 1] = msg[p]
      BY <3>1, AppendProperties
    <3>3. ASSUME NEW m, Has(h, m) PROVE Has(h, m)'
      BY <2>1, <3>2, <3>3 DEF Has
    <3>4. Has(h, msg[p])' BY <2>1, <3>2 DEF Has
    <3>5. ASSUME NEW m, Due(h, m) PROVE m = msg[p] \/ Due(h, m)'
      BY <2>1, <3>5 DEF Due
    <3>6. ASSUME NEW m, Due(h, m) PROVE Has(h, m)' \/ Due(h, m)'
      <4>1. CASE m = msg[p] BY <2>1, <3>4, <4>1
      <4> QED BY <3>5, <3>6, <4>1
    <3> QED BY <2>1, <2>4, <3>3, <3>6 DEF AllKept, Kept
  <2> QED BY <2>2, <2>3, <2>4
<1>3. ASSUME EndBroadcast(p), NEW k \in Handlers PROVE Kept(k)'
  <2>1. /\ UNCHANGED <<queue, hand, written, since, hpc, sent, todo, dropped>>
        /\ todo[p] = {} /\ \A q \in Broadcasters \ {p} : msg'[q] = msg[q]
    BY <1>3 DEF EndBroadcast, hubVars, handlerVars, IInv, TypeOK
  <2> QED BY <2>1 DEF AllKept, Kept, Has, Due
<1> QED BY <1>1, <1>2, <1>3 DEF BroadcastStep, AllKept

(* A handler whose channel was never full misses nothing broadcast since   *)
(* it subscribed, and gets nothing older, whoever broadcasts at once.      *)
THEOREM NothingIsLostUnlessFull == Spec => []NothingLostUnlessFull
<1>1. Init => AllKept
  BY DEF Init, AllKept, Kept, WritePCs, Nothing
<1>2. IInv /\ Ordered /\ AllKept /\ [Next]_vars => AllKept'
  <2> SUFFICES ASSUME IInv, Ordered, AllKept, [Next]_vars PROVE AllKept' OBVIOUS
  <2>1. CASE UNCHANGED vars
    BY <2>1 DEF AllKept, Kept, Has, Due, vars, hubVars, handlerVars, castVars
  <2> QED BY <2>1, HandlerKeeps, BroadcastKeeps DEF Next, Quiet
<1>3. IInv /\ Ordered /\ AllKept => NothingLostUnlessFull
  <2> SUFFICES ASSUME IInv, Ordered, AllKept, NEW h \in Handlers,
                      hpc[h] \in {"serving"} \cup WritePCs
               PROVE  /\ Got(h) \subseteq (since[h] + 1)..sent
                      /\ h \notin dropped =>
                           Got(h) = ((since[h] + 1)..sent)
                                      \ {msg[p] : p \in {q \in Broadcasters : h \in todo[q]}}
    BY DEF NothingLostUnlessFull
  <2>1. /\ InOrder(h) /\ since[h] \in Nat /\ sent \in Nat
        /\ \A i \in 1..Len(queue[h]) : queue[h][i] \in 1..sent
        /\ hand[h] # Nothing => hand[h] \in 1..sent
        /\ written[h] \subseteq 1..sent
    BY HadWasSent DEF Ordered, IInv, TypeOK
  <2>2. \A m \in (since[h] + 1)..sent : m \in Got(h) <=> Has(h, m)
    BY <2>1 DEF Got, Has, Nothing
  <2>3. Got(h) \subseteq (since[h] + 1)..sent
    BY <2>1 DEF Got, InOrder, Behind
  <2>4. ASSUME NEW p \in Broadcasters, h \in todo[p] PROVE msg[p] \notin Got(h)
    BY <2>4 DEF Ordered, Pending, Behind, Before, Got
  <2>5. h \notin dropped => \A m \in (since[h] + 1)..sent : Has(h, m) \/ Due(h, m)
    BY DEF AllKept, Kept
  <2>6. ASSUME h \notin dropped
        PROVE  Got(h) = ((since[h] + 1)..sent)
                          \ {msg[p] : p \in {q \in Broadcasters : h \in todo[q]}}
    BY <2>2, <2>3, <2>4, <2>5, <2>6 DEF Due
  <2> QED BY <2>3, <2>6
<1> QED BY <1>1, <1>2, <1>3, SpecIInv, SpecOrdered, PTL DEF Spec

=============================================================================
