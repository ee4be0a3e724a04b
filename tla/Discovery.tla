----------------------------- MODULE Discovery -----------------------------
(***************************************************************************)
(* How the console learns what a target serves: handleReflect,             *)
(* handleParseProto and handleAutoPayloadTemplate                          *)
(* (internal/api/handler.go) with the connections, the reflection client   *)
(* and the proto files of internal/grpcclient, and the template that is    *)
(* built for the method found (TemplateBuilder).                           *)
(*                                                                         *)
(* The target is another process: it is deployed anew or falls silent      *)
(* between any two answers.  Handlers share nothing, so one request is     *)
(* followed at a time; one that is refused for its form (400, 405) changes *)
(* nothing and is left out.  A service stands for its methods.             *)
(***************************************************************************)
EXTENDS TemplateBuilder

CONSTANTS
  Services,    \* services a target may serve or a proto file define
  Reflection,  \* the reflection service, which lists itself
  Uploads      \* what uploaded proto files define

ASSUME DiscoveryAssumption ==
  /\ Reflection \notin Services
  /\ Uploads \subseteq SUBSET Services

VARIABLES
  silent,   \* the target does not answer
  serves,   \* services the target serves, and lists
  broken,   \* those of which it cannot give the descriptors
  pc,       \* where the handler of the request is
  open,     \* connections of this request that are open
  wanted,   \* the service whose method a template is asked for
  names,    \* names of the list that have not been resolved yet
  found,    \* services resolved so far
  listing,  \* the listing the user chooses from
  steady    \* history: the target has answered, and changed nothing, since
            \* the request for this listing

target  == <<silent, serves, broken>>
request == <<pc, open, wanted, names, found>>
vars == <<builder, target, request, listing, steady>>

NoService == "none"

Init ==
  /\ NotAsked
  /\ silent = FALSE /\ serves \in SUBSET Services /\ broken \in SUBSET serves
  /\ pc = "idle" /\ open = 0 /\ wanted = NoService
  /\ names = {} /\ found = {} /\ listing = {}
  /\ steady = FALSE

-----------------------------------------------------------------------------
(* The target.                                                             *)

Redeploy ==
  /\ serves' \in SUBSET Services /\ broken' \in SUBSET serves'
  /\ <<serves, broken>>' # <<serves, broken>>
  /\ steady' = FALSE
  /\ UNCHANGED <<builder, silent, request, listing>>

TurnSilent ==
  /\ silent' = ~silent
  /\ steady' = FALSE
  /\ UNCHANGED <<builder, serves, broken, request, listing>>

Resolvable(service) == service = Reflection \/ service \in serves \ broken

-----------------------------------------------------------------------------
At(from, to) == pc = from /\ pc' = to

(* The reply (200, or 502 after a failure) is written, with the connection *)
(* still open.                                                             *)
Reply(from) == At(from, "closing")

(* The deferred Close of the connection or the caller.                     *)
Close ==
  /\ At("closing", "idle")
  /\ open' = open - 1
  /\ wanted' = NoService /\ names' = {} /\ found' = {}
  /\ Forget
  /\ UNCHANGED <<target, listing, steady>>

-----------------------------------------------------------------------------
(* handleReflect                                                           *)

AskServices ==
  /\ At("idle", "dialing")
  /\ steady' = TRUE
  /\ UNCHANGED <<builder, target, open, wanted, names, found, listing>>

(* Dial blocks until the connection is up ...                              *)
Dial ==
  /\ ~silent
  /\ At("dialing", "listing")
  /\ open' = open + 1
  /\ UNCHANGED <<builder, target, wanted, names, found, listing, steady>>

(* Fault variant: Dial has no deadline of its own. *)
DialWaits ==
  /\ ~silent
  /\ At("dialing", "idle")
  /\ steady' = FALSE
  /\ UNCHANGED <<builder, target, open, wanted, names, found, listing>>

(* ... or 10 s have passed; no connection is left.                         *)
DialTimesOut ==
  /\ At("dialing", "idle")
  /\ steady' = FALSE
  /\ UNCHANGED <<builder, target, open, wanted, names, found, listing>>

ListNames ==
  /\ ~silent
  /\ At("listing", "resolving")
  /\ names' = serves \cup {Reflection}
  /\ UNCHANGED <<builder, target, open, wanted, found, listing, steady>>

(* Fault variant: the error path closes the connection as well. *)
ListTimesOutClosing ==
  /\ Reply("listing")
  /\ open' = open - 1
  /\ steady' = FALSE
  /\ UNCHANGED <<builder, target, wanted, names, found, listing>>

(* The context of the request ends after 10 s.                             *)
ListTimesOut ==
  /\ Reply("listing")
  /\ steady' = FALSE
  /\ UNCHANGED <<builder, target, open, wanted, names, found, listing>>

(* Fault variant: a service that cannot be resolved is listed by its name. *)
ListedByName(name) == name # Reflection

Listed(name) == name # Reflection /\ Resolvable(name)

(* One name is resolved; the reflection service is passed over, and so is  *)
(* one whose resolution fails.                                             *)
ResolveName ==
  /\ pc = "resolving"
  /\ ~silent
  /\ \E name \in names :
       /\ names' = names \ {name}
       /\ found' = IF Listed(name) THEN found \cup {name} ELSE found
  /\ UNCHANGED <<builder, target, pc, open, wanted, listing, steady>>

(* It fails in the same way when the context has ended: what is left of    *)
(* the names is passed over, and the listing is incomplete.                *)
ResolveTimesOut ==
  /\ pc = "resolving"
  /\ names # {}
  /\ names' = {}
  /\ steady' = FALSE
  /\ UNCHANGED <<builder, target, pc, open, wanted, found, listing>>

ShowListing ==
  /\ names = {}
  /\ Reply("resolving")
  /\ listing' = found
  /\ UNCHANGED <<builder, target, open, wanted, names, found, steady>>

-----------------------------------------------------------------------------
(* handleParseProto: nothing is connected.                                 *)
ParseProto ==
  /\ At("idle", "idle")
  /\ listing' \in Uploads
  /\ steady' = FALSE
  /\ UNCHANGED <<builder, target, open, wanted, names, found>>

-----------------------------------------------------------------------------
(* handleAutoPayloadTemplate, for a method of a service.  NewCaller makes  *)
(* a connection that is not dialed yet ...                                 *)
AskTemplate ==
  /\ At("idle", "finding")
  /\ wanted' \in Services
  /\ open' = open + 1
  /\ UNCHANGED <<builder, target, names, found, listing, steady>>

(* The descriptors of the input type are at hand, to a depth that the      *)
(* request may leave out.                                                  *)
MethodFound ==
  /\ At("finding", "building")
  /\ \E descriptors \in Schemas, depth \in MaxDepths : Describe(descriptors, depth)
  /\ UNCHANGED <<target, open, wanted, names, found, listing, steady>>

(* ... and finds the method by reflection ...                              *)
FindByReflection ==
  /\ ~silent
  /\ Resolvable(wanted)
  /\ MethodFound

(* ... or in the proto file sent along, whatever the target does.          *)
FindInProto ==
  /\ \E upload \in Uploads : wanted \in upload
  /\ MethodFound

(* Fault variant: NewCaller returns an error and leaves the connection. *)
FindFailsOpen ==
  /\ At("finding", "idle")
  /\ wanted' = NoService
  /\ UNCHANGED <<builder, target, open, names, found, listing, steady>>

(* Not there, not answered within 10 s, or a file that does not parse or   *)
(* does not define it: NewCaller closes the connection itself.             *)
FindFails ==
  /\ At("finding", "idle")
  /\ open' = open - 1
  /\ wanted' = NoService
  /\ UNCHANGED <<builder, target, names, found, listing, steady>>

(* GeneratePayloadTemplate: the target is not asked again.                 *)
Walk ==
  /\ At("building", "building")
  /\ BuildNext
  /\ UNCHANGED <<target, open, wanted, names, found, listing, steady>>

SendTemplate ==
  /\ Complete
  /\ Reply("building")
  /\ UNCHANGED <<builder, target, open, wanted, names, found, listing, steady>>

-----------------------------------------------------------------------------
TargetStep == Redeploy \/ TurnSilent

Ask == AskServices \/ ParseProto \/ AskTemplate

Answer ==
  \/ Dial \/ DialTimesOut
  \/ ListNames \/ ListTimesOut
  \/ ResolveName \/ ResolveTimesOut \/ ShowListing
  \/ FindByReflection \/ FindInProto \/ FindFails
  \/ Walk \/ SendTemplate
  \/ Close

Next == TargetStep \/ Ask \/ Answer

(* Every wait of a handler ends after 10 s, and its code goes on; nothing  *)
(* is assumed of a target.                                                 *)
Spec == Init /\ [][Next]_vars
FairSpec == Spec /\ WF_vars(Answer)

-----------------------------------------------------------------------------
(* Type invariant.                                                         *)
TypeOK ==
  /\ silent \in BOOLEAN /\ steady \in BOOLEAN
  /\ serves \subseteq Services /\ broken \subseteq serves
  /\ pc \in {"idle", "dialing", "listing", "resolving", "finding", "building", "closing"}
  /\ open \in 0..1
  /\ wanted \in Services \cup {NoService}
  /\ names \subseteq Services \cup {Reflection}
  /\ found \subseteq Services /\ listing \subseteq Services

(* Whichever way a request ends, and wherever it fails, its connection is  *)
(* closed.                                                                 *)
ConnectionReturned == pc = "idle" => open = 0

(* A listing by reflection shows exactly the services of which a method    *)
(* can be called, as long as the target answered throughout and is the     *)
(* same: none that would be refused, and none is left out.                 *)
ListingCallable ==
  steady /\ pc \notin {"dialing", "listing", "resolving"} =>
    listing = {service \in Services : Resolvable(service)}

(* Every request is answered, even by a target that falls silent, and even *)
(* if the types of a template are recursive.                               *)
EveryRequestAnswered == (pc # "idle") ~> (pc = "idle")

=============================================================================
