-------------------------- MODULE TemplateBuilder --------------------------
(***************************************************************************)
(* The payload template builder (internal/payload/template_builder.go).    *)
(*                                                                         *)
(* It walks the message types of an RPC, which may be recursive, and cuts  *)
(* the walk at a depth and at a number of nodes.  The number of nodes is   *)
(* one counter for the whole walk, so what a branch may use depends on     *)
(* what the branches before it used.  A call of buildMessage, or of        *)
(* buildField for anything but a message, is a step; what the calls under  *)
(* way have yet to build is todo.  The recursion builds the fields of a    *)
(* message in their order, with all that is in them: the places of values  *)
(* in lexicographic order.                                                 *)
(*                                                                         *)
(* A value is at a place, the pairs of a field and of an item of it that   *)
(* lead there: its length is the depth.  The choice of a string token and  *)
(* of the text of a well-known type are left out; a name of an enum value  *)
(* is "", "stub" (it ends in _INVALID or _UNKNOWN) or something else.      *)
(***************************************************************************)
EXTENDS Integers, Sequences, FiniteSets, SequencesExt

CONSTANTS
  Schemas,    \* possible schemas: message type -> sequence of its fields
  Root,       \* the input type of the RPC
  WellKnown,  \* message types of google.protobuf that are not walked
  MaxDepths,  \* requested depths
  MaxNodes    \* templateBuilder.maxNodes (5000)

Labels == {"one", "repeated", "map"}

(* A schema defines the types its fields refer to.                         *)
ASSUME BuilderAssumption ==
  /\ MaxDepths \subseteq Int /\ MaxNodes \in Nat
  /\ \A types \in Schemas :
       /\ Root \in DOMAIN types
       /\ \A type \in DOMAIN types :
            /\ Len(types[type]) \in Nat /\ DOMAIN types[type] = 1..Len(types[type])
            /\ \A i \in 1..Len(types[type]) :
                 LET field == types[type][i]
                 IN  /\ field.label \in Labels /\ field.oneof \in Nat
                     /\ field.label # "map" =>
                          /\ field.kind = "message" => field.type \in WellKnown \cup DOMAIN types
                          /\ field.kind = "enum" =>
                               /\ Len(field.names) \in Nat
                               /\ DOMAIN field.names = 1..Len(field.names)

DefaultDepth == 5

VARIABLES
  schema,    \* the descriptors given; none, when no template is asked for
  maxDepth,  \* templateBuilder.maxDepth
  nodes,     \* templateBuilder.nodes
  template,  \* the values built, by their places
  todo       \* values to be built, with their fields

builder == <<schema, maxDepth, nodes, template, todo>>

Leaf(text) == [is |-> "leaf", text |-> text]
Cut == [is |-> "cut"]
Object(type) == [is |-> "object", type |-> type]

-----------------------------------------------------------------------------
(* GeneratePayloadTemplate, with a depth that may be missing.              *)
NotAsked ==
  schema = <<>> /\ maxDepth = 0 /\ nodes = 0 /\ template = <<>> /\ todo = {}

RootValue ==
  [at |-> <<>>, field |-> [label |-> "one", kind |-> "message", type |-> Root, oneof |-> 0]]

Describe(descriptors, requested) ==
  /\ NotAsked
  /\ schema' = descriptors
  /\ maxDepth' = IF requested <= 0 THEN DefaultDepth ELSE requested
  /\ todo' = {RootValue}
  /\ UNCHANGED <<nodes, template>>

(* The template is returned, and the builder forgotten.                    *)
Forget ==
  schema' = <<>> /\ maxDepth' = 0 /\ nodes' = 0 /\ template' = <<>> /\ todo' = {}

-----------------------------------------------------------------------------
(* The first usable name; else the first name, if it has one; else "0".    *)
ChooseEnumValue(names) ==
  LET usable == SelectInSeq(names, LAMBDA name : name \notin {"", "stub"})
  IN  IF usable > 0 THEN names[usable]
      ELSE IF names # <<>> /\ names[1] # "" THEN names[1]
      ELSE "0"

(* Fault variant: every field of a oneof is set. *)
ChosenOneofAll(fields) == DOMAIN fields

(* Fields outside a oneof, and the first choice of each oneof.             *)
Chosen(fields) ==
  {i \in DOMAIN fields :
     fields[i].oneof # 0 => \A j \in 1..(i - 1) : fields[j].oneof # fields[i].oneof}

(* The items of an array; a value that is not repeated is its only item.   *)
Items(field) == IF field.label = "repeated" THEN {1, 2} ELSE {0}

Pairs(fields) == {pair \in Chosen(fields) \X (0..2) : pair[2] \in Items(fields[pair[1]])}

(* The values of the fields of a message that is at a place.               *)
Values(at, fields) ==
  {[at |-> Append(at, pair), field |-> fields[pair[1]]] : pair \in Pairs(fields)}

(* Fault variants: one level less, one node more than allowed. *)
TooDeepEarly(depth) == depth >= maxDepth
TooManyByOne(count) == count > MaxNodes + 1

TooDeep(depth) == depth > maxDepth
TooMany(count) == count > MaxNodes

-----------------------------------------------------------------------------
(* A value is built; more are those of its fields.                         *)
Build(value, built, more) ==
  /\ template' = [at \in DOMAIN template \cup {value.at} |->
                    IF at = value.at THEN built ELSE template[at]]
  /\ todo' = (todo \ {value}) \cup more
  /\ UNCHANGED <<schema, maxDepth>>

IsMessage(value) == value.field.label # "map" /\ value.field.kind = "message"
IsWellKnown(value) == value.at # <<>> /\ value.field.type \in WellKnown

(* A map is {}, and counts as a node.                                      *)
BuildMap(value) ==
  /\ value.field.label = "map"
  /\ nodes' = nodes + 1
  /\ Build(value, Cut, {})

BuildScalar(value) ==
  LET field == value.field
  IN  /\ field.label # "map" /\ field.kind # "message"
      /\ Build(value, Leaf(IF field.kind = "enum" THEN ChooseEnumValue(field.names)
                                                  ELSE field.kind), {})
      /\ UNCHANGED nodes

(* buildMessageOrWellKnown and buildMessage, which the root goes to at     *)
(* once: the depth is compared before anything else ...                    *)
CutTooDeep(value) ==
  /\ IsMessage(value) /\ TooDeep(Len(value.at))
  /\ Build(value, Cut, {})
  /\ UNCHANGED nodes

BuildWellKnown(value) ==
  /\ IsMessage(value) /\ ~TooDeep(Len(value.at)) /\ IsWellKnown(value)
  /\ Build(value, Leaf(value.field.type), {})
  /\ UNCHANGED nodes

(* ... and a message is counted before it is cut for the count.            *)
BuildMessage(value) ==
  /\ IsMessage(value) /\ ~TooDeep(Len(value.at)) /\ ~IsWellKnown(value)
  /\ nodes' = nodes + 1
  /\ IF TooMany(nodes')
       THEN Build(value, Cut, {})
       ELSE Build(value, Object(value.field.type), Values(value.at, schema[value.field.type]))

BuildValue(value) ==
  BuildMap(value) \/ BuildScalar(value) \/ CutTooDeep(value) \/ BuildWellKnown(value)
    \/ BuildMessage(value)

(* The place p comes before q.                                             *)
Before(p, q) ==
  \E n \in 1..Len(p) :
    /\ n <= Len(q) /\ SubSeq(p, 1, n - 1) = SubSeq(q, 1, n - 1)
    /\ \/ p[n][1] < q[n][1]
       \/ p[n][1] = q[n][1] /\ p[n][2] < q[n][2]

BuildNext ==
  \E value \in todo :
    /\ \A other \in todo \ {value} : Before(value.at, other.at)
    /\ BuildValue(value)

Complete == todo = {}

BuilderNext ==
  \/ \E descriptors \in Schemas, depth \in MaxDepths : Describe(descriptors, depth)
  \/ BuildNext
  \/ Complete /\ Forget

BuilderSpec == NotAsked /\ [][BuilderNext]_builder

-----------------------------------------------------------------------------
(* What a template has to be, said of the tree and not of the walk.  With   *)
(* mayCut any object may be missing; without it, only those too deep.      *)
Objects == {at \in DOMAIN template : template[at].is = "object"}

IdealEnum(names, text) ==
  LET Usable(i) == names[i] \notin {"", "stub"}
  IN  \/ \E i \in DOMAIN names :
           Usable(i) /\ text = names[i] /\ \A j \in 1..(i - 1) : ~Usable(j)
      \/ /\ \A i \in DOMAIN names : ~Usable(i)
         /\ text = IF names = <<>> \/ names[1] = "" THEN "0" ELSE names[1]

IdealMessage(value, type, depth, mayCut) ==
  \/ depth <= maxDepth /\ value = Object(type)
  \/ (mayCut \/ depth > maxDepth) /\ value = Cut

IdealField(value, field, depth, mayCut) ==
  CASE field.label = "map"    -> value = Cut
    [] field.label # "map" /\ field.kind = "enum" ->
         value = Leaf(value.text) /\ IdealEnum(field.names, value.text)
    [] field.label # "map" /\ field.kind = "message" ->
         IF field.type \in WellKnown /\ depth <= maxDepth
           THEN value = Leaf(field.type)
           ELSE IdealMessage(value, field.type, depth, mayCut)
    [] OTHER -> value = Leaf(field.kind)

(* A field outside a oneof, or the one of least number of its oneof.       *)
Set(fields) ==
  {i \in DOMAIN fields :
     \/ fields[i].oneof = 0
     \/ i = Min({j \in DOMAIN fields : fields[j].oneof = fields[i].oneof})}

IdealTree(mayCut) ==
  /\ <<>> \in DOMAIN template
  /\ IdealMessage(template[<<>>], Root, 0, mayCut)
  /\ \A at \in DOMAIN template \ {<<>>} : Front(at) \in Objects
  /\ \A at \in Objects :
       LET fields == schema[template[at].type]
       IN  \A i \in DOMAIN fields, k \in 0..2 :
             LET here == Append(at, <<i, k>>)
             IN  IF i \in Set(fields) /\ k \in (IF fields[i].label = "repeated" THEN 1..2 ELSE {0})
                   THEN /\ here \in DOMAIN template
                        /\ IdealField(template[here], fields[i], Len(here), mayCut)
                   ELSE here \notin DOMAIN template

Asked == schema # <<>>

(* Recursive and wide types are cut: however types refer to one another,   *)
(* the template has at most MaxNodes objects and is no deeper than asked.  *)
WithinLimits ==
  Cardinality(Objects) <= MaxNodes /\ \A at \in Objects : Len(at) <= maxDepth

(* The node limit only cuts subtrees away: every object that is walked has *)
(* all its fields, with one choice of each oneof and usable enum values,   *)
(* although the counter passes from branch to branch.                      *)
PrunedIdeal == Asked /\ Complete => IdealTree(TRUE)

(* As long as the counter does not exceed the limit nothing is cut.        *)
CompleteWithinLimits == Asked /\ Complete /\ nodes <= MaxNodes => IdealTree(FALSE)

=============================================================================
