---------------------------- MODULE TestService ----------------------------
(***************************************************************************)
(* The demo service that a load test is pointed at                         *)
(* (internal/testservice/server.go).                                       *)
(*                                                                         *)
(* Handlers count themselves in reqCounter; once a second rpsTracker moves *)
(* the count to currentRPS, and above Threshold handlers become slow and   *)
(* fail more often.  Counting, reading the rate, the tracker's Swap and    *)
(* its Store are steps of their own.  Each request is served by one        *)
(* goroutine.  How often a roll fails and how long a handler sleeps is     *)
(* left open; only whether it is overloaded, and by how much, is kept.     *)
(* A payload is the status of the order it carries or asks for.            *)
(***************************************************************************)
EXTENDS Integers, FiniteSets

CONSTANTS
  Requests,   \* requests that may arrive
  Call,       \* Call[r]: the method r calls and the order status it comes with
  Threshold   \* degradationThreshold (800)

Methods == {"ProcessUser", "CreateOrder", "GetOrder", "ListOrders",
            "Authorize", "Capture", "Refund"}
NoOrder == "none"
OrderStatuses == {"unknown", "created", "paid"}

ASSUME TestServiceAssumption ==
  /\ IsFiniteSet(Requests)
  /\ Call \in [Requests -> [method : Methods, status : OrderStatuses \cup {NoOrder}]]
  /\ Threshold \in Nat

Failures == {"Unavailable", "DeadlineExceeded", "Internal"}

VARIABLES
  reqCounter,   \* requests counted since the last Swap
  currentRPS,   \* the rate handlers read
  swapped,      \* rpsTracker's count between Swap and Store
  tpc,          \* rpsTracker: "waiting" or "storing"
  rpc,          \* rpc[r]: where the handler of r is
  overload,     \* overload[r]: by how much the rate r read exceeds Threshold
  reply,        \* reply[r]: error code, or status of the order in the response
  second,       \* history: the second in which r was counted
  peak          \* history: the most requests counted in one second

tracker == <<swapped, tpc>>
handler == <<rpc, overload, reply>>
serviceVars == <<reqCounter, currentRPS, tracker, handler, second, peak>>

In(when) == {r \in Requests : second[r] = when}

ServiceInit ==
  /\ reqCounter = 0
  /\ currentRPS = 0
  /\ swapped = 0
  /\ tpc = "waiting"
  /\ rpc = [r \in Requests |-> "new"]
  /\ overload = [r \in Requests |-> 0]
  /\ reply = [r \in Requests |-> NoOrder]
  /\ second = [r \in Requests |-> "never"]
  /\ peak = 0

-----------------------------------------------------------------------------
(* rpsTracker.                                                             *)

TrackerAt(from, to) ==
  /\ tpc = from
  /\ tpc' = to
  /\ UNCHANGED <<handler, peak>>

Elapsed == [r \in Requests |-> CASE second[r] = "current" -> "last"
                                 [] second[r] = "last"    -> "past"
                                 [] OTHER                 -> second[r]]

(* Fault variant: the counter is loaded and not set back. *)
SwapKeepsCounter ==
  /\ TrackerAt("waiting", "storing")
  /\ swapped' = reqCounter
  /\ second' = Elapsed
  /\ UNCHANGED <<reqCounter, currentRPS>>

(* count := s.reqCounter.Swap(0), once a second.                           *)
Swap ==
  /\ TrackerAt("waiting", "storing")
  /\ swapped' = reqCounter
  /\ reqCounter' = 0
  /\ second' = Elapsed
  /\ UNCHANGED currentRPS

(* Fault variant: a second without requests is not stored. *)
StoreUnlessIdle ==
  /\ TrackerAt("storing", "waiting")
  /\ currentRPS' = IF swapped > 0 THEN swapped ELSE currentRPS
  /\ UNCHANGED <<reqCounter, swapped, second>>

Store ==
  /\ TrackerAt("storing", "waiting")
  /\ currentRPS' = swapped
  /\ UNCHANGED <<reqCounter, swapped, second>>

-----------------------------------------------------------------------------
(* A handler: overload(), maybeFail(), the sleep and the reply.            *)

HandlerAt(r, from, to) ==
  /\ rpc[r] = from
  /\ rpc' = [rpc EXCEPT ![r] = to]
  /\ UNCHANGED <<currentRPS, tracker>>

Count(r) ==
  /\ HandlerAt(r, "new", "counted")
  /\ reqCounter' = reqCounter + 1
  /\ second' = [second EXCEPT ![r] = "current"]
  /\ peak' = IF Cardinality(In("current")) + 1 > peak
               THEN Cardinality(In("current")) + 1 ELSE peak
  /\ UNCHANGED <<overload, reply>>

Sense(r, excess) ==
  /\ HandlerAt(r, "counted", "rolling")
  /\ overload' = [overload EXCEPT ![r] = excess]
  /\ UNCHANGED <<reqCounter, reply, second, peak>>

(* Fault variant: the requests of the second that has just begun count too.*)
SenseOverloadEarly(r) ==
  Sense(r, IF currentRPS + reqCounter > Threshold THEN currentRPS + reqCounter - Threshold ELSE 0)

SenseOverload(r) ==
  Sense(r, IF currentRPS > Threshold THEN currentRPS - Threshold ELSE 0)

(* maybeFail rolls, under rngMu, whether the call fails ...                *)
Roll(r) ==
  /\ HandlerAt(r, "rolling", "working") \/ HandlerAt(r, "rolling", "failing")
  /\ UNCHANGED <<reqCounter, overload, reply, second, peak>>

(* The status of the order in the response of each method.                 *)
CreatedOrder(status) == IF status \in {NoOrder, "unknown"} THEN "created" ELSE status
ChooseOrderStatus(filter) == IF filter # "unknown" THEN filter ELSE "paid"

Response(c) ==
  CASE c.method = "CreateOrder" -> CreatedOrder(c.status)
    [] c.method = "GetOrder"    -> "paid"
    [] c.method = "ListOrders"  -> ChooseOrderStatus(c.status)
    [] OTHER                    -> NoOrder

Respond(r) ==
  /\ HandlerAt(r, "working", "answered")
  /\ reply' = [reply EXCEPT ![r] = Response(Call[r])]
  /\ UNCHANGED <<reqCounter, overload, second, peak>>

(* ... and how: buildErr picks one of three codes.                         *)
Refuse(r) ==
  /\ HandlerAt(r, "failing", "answered")
  /\ \E code \in Failures : reply' = [reply EXCEPT ![r] = code]
  /\ UNCHANGED <<reqCounter, overload, second, peak>>

-----------------------------------------------------------------------------
Track == Swap \/ Store

Handle(r) ==
  \/ Count(r)
  \/ SenseOverload(r)
  \/ Roll(r)
  \/ Respond(r)
  \/ Refuse(r)

ServiceNext == Track \/ \E r \in Requests : Handle(r)

(* The ticker fires every second.  Requests need not arrive.               *)
ServiceSpec == ServiceInit /\ [][ServiceNext]_serviceVars
ServiceFairSpec == ServiceSpec /\ WF_serviceVars(Track)

-----------------------------------------------------------------------------
(* Type invariant.                                                         *)
ServiceTypeOK ==
  /\ reqCounter \in Nat
  /\ currentRPS \in Nat
  /\ swapped \in Nat
  /\ tpc \in {"waiting", "storing"}
  /\ rpc \in [Requests -> {"new", "counted", "rolling", "working", "failing", "answered"}]
  /\ overload \in [Requests -> Nat]
  /\ reply \in [Requests -> Failures \cup OrderStatuses \cup {NoOrder}]
  /\ second \in [Requests -> {"never", "current", "last", "past"}]
  /\ peak \in Nat

(* Handlers count themselves while the tracker swaps and stores; still     *)
(* every request is counted in exactly one second, and the rate is the     *)
(* number of requests of the last complete one.                            *)
RateOfLastSecond ==
  /\ reqCounter = Cardinality(In("current"))
  /\ (IF tpc = "storing" THEN swapped ELSE currentRPS) = Cardinality(In("last"))

(* A handler is never more overloaded than the busiest second explains: a  *)
(* test that stays at or below Threshold meets no overload.                *)
OverloadWithinPeak ==
  \A r \in Requests : overload[r] > 0 => overload[r] <= peak - Threshold

(* When requests stop coming the overload goes away.                       *)
OverloadSubsides == <>[](currentRPS = 0)

=============================================================================
