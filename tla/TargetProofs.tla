--------------------------- MODULE TargetProofs ---------------------------
(* Proofs about what a load test is pointed at: how the console learns what*)
(* a target serves and builds a payload for it (Discovery, with the        *)
(* template builder), for any services, any types that may be recursive,   *)
(* and any limits; and the demo service (TestService), for any requests,   *)
(* any calls and any threshold.  The two are systems of their own, with no *)
(* variable in common.                                                     *)
EXTENDS Discovery, TestService, SequenceTheorems, FiniteSetTheorems, TLAPS

-----------------------------------------------------------------------------
(* Helpers of the builder.                                                 *)

LEMMA MinIs ==
  ASSUME NEW S, S \subseteq Nat, NEW m \in S, \A x \in S : m <= x
  PROVE  Min(S) = m
<1>1. \A z \in S : (\A x \in S : z <= x) => z = m
  OBVIOUS
<1> QED
  BY <1>1 DEF Min

LEMMA MinOfNaturals ==
  ASSUME NEW S, S \subseteq Nat, S # {}
  PROVE  Min(S) \in S /\ \A x \in S : Min(S) <= x
<1>1. PICK m \in S : \A x \in S : <<x, m>> \notin OpToRel(<, Nat)
  BY WFMin, NatLessThanWellFounded
<1>2. \A x \in S : ~(x < m)
  BY <1>1, Zenon DEF OpToRel
<1>3. \A x \in S : m <= x
  BY <1>2
<1> QED
  BY <1>3, MinIs

(* The name chosen for an enum is the first that can be used, or a token   *)
(* that stands for one.                                                    *)
LEMMA EnumIdeal ==
  ASSUME NEW list, Len(list) \in Nat, DOMAIN list = 1..Len(list)
  PROVE  IdealEnum(list, ChooseEnumValue(list))
<1> DEFINE Usable(i) == list[i] \notin {"", "stub"}
           Blank == list = <<>> \/ list[1] = ""
           I == {i \in 1..Len(list) : Usable(i)}
           first == SelectInSeq(list, LAMBDA name : name \notin {"", "stub"})
           chosen == ChooseEnumValue(list)
<1>1. first = IF I # {} THEN Min(I) ELSE 0
  BY DEF SelectInSeq
<1>2. chosen = IF first > 0 THEN list[first] ELSE IF ~Blank THEN list[1] ELSE "0"
  BY DEF ChooseEnumValue
<1>3. IdealEnum(list, chosen) =
        \/ \E i \in DOMAIN list :
             Usable(i) /\ chosen = list[i] /\ \A j \in 1..(i - 1) : ~Usable(j)
        \/ /\ \A i \in DOMAIN list : ~Usable(i)
           /\ chosen = IF Blank THEN "0" ELSE list[1]
  BY DEF IdealEnum
<1> HIDE DEF first, Usable, Blank, chosen
<1>4. CASE I # {}
  <2>1. I \subseteq Nat
    OBVIOUS
  <2>2. Min(I) \in I /\ \A x \in I : Min(I) <= x
    BY <1>4, <2>1, MinOfNaturals
  <2>3. first \in 1..Len(list) /\ Usable(first) /\ \A j \in 1..(first - 1) : ~Usable(j)
    BY <1>1, <1>4, <2>2
  <2>4. chosen = list[first]
    BY <1>2, <2>3
  <2>5. IdealEnum(list, chosen)
    BY <1>3, <2>3, <2>4
  <2> QED
    BY <2>5 DEF chosen
<1>5. CASE I = {}
  <2>1. first = 0 /\ \A i \in DOMAIN list : ~Usable(i)
    BY <1>1, <1>5
  <2>2. chosen = IF Blank THEN "0" ELSE list[1]
    BY <1>2, <2>1
  <2> QED
    BY <1>3, <2>1, <2>2 DEF chosen
<1> QED
  BY <1>4, <1>5

(* The fields built are those to be set.                                   *)
LEMMA ChosenIsSet ==
  ASSUME NEW fields, Len(fields) \in Nat, DOMAIN fields = 1..Len(fields)
  PROVE  Chosen(fields) = Set(fields)
<1>1. ASSUME NEW i \in DOMAIN fields
      PROVE  i = Min({j \in DOMAIN fields : fields[j].oneof = fields[i].oneof})
               <=> \A j \in 1..(i - 1) : fields[j].oneof # fields[i].oneof
  <2> DEFINE S == {j \in DOMAIN fields : fields[j].oneof = fields[i].oneof}
  <2>1. S \subseteq Nat /\ i \in S
    OBVIOUS
  <2>2. i = Min(S) <=> \A x \in S : i <= x
    <3> HIDE DEF S
    <3>1. (\A x \in S : i <= x) => Min(S) = i
      BY <2>1, MinIs
    <3>2. \A x \in S : Min(S) <= x
      BY <2>1, MinOfNaturals
    <3> QED BY <3>1, <3>2
  <2>3. (\A x \in S : i <= x) <=> \A j \in 1..(i - 1) : fields[j].oneof # fields[i].oneof
    OBVIOUS
  <2> QED
    BY <2>2, <2>3
<1> QED
  BY <1>1 DEF Chosen, Set

(* Places are sequences of pairs, and Front undoes Append.                 *)
Steps == Nat \X (0..2)

LEMMA PlaceAppend ==
  ASSUME NEW at \in Seq(Steps), NEW step \in Steps
  PROVE  /\ Append(at, step) \in Seq(Steps)
         /\ Append(at, step) # <<>>
         /\ Len(Append(at, step)) = Len(at) + 1
         /\ Front(Append(at, step)) = at
<1>1. /\ Append(at, step) \in Seq(Steps) /\ Append(at, step) # <<>>
      /\ Len(Append(at, step)) = Len(at) + 1
      /\ \A i \in 1..Len(at) : Append(at, step)[i] = at[i]
  BY AppendProperties
<1>2. Len(at) \in Nat /\ DOMAIN at = 1..Len(at)
  OBVIOUS
<1>3. Front(Append(at, step)) = SubSeq(Append(at, step), 1, Len(at))
  BY <1>1, <1>2 DEF Front
<1>4. SubSeq(Append(at, step), 1, Len(at)) = at
  BY <1>1, <1>2
<1> QED
  BY <1>1, <1>3, <1>4

-----------------------------------------------------------------------------
(* The invariant of the builder.  Due are the values that are asked for:   *)
(* the root, and those of the fields of the objects built so far.  Each is *)
(* in todo, or built as its field wants it; nothing else is either.        *)
Children(at) == Values(at, schema[template[at].type])
Due == {RootValue} \cup UNION {Children(at) : at \in Objects}

Ideal(value, built, mayCut) ==
  IF value.at = <<>> THEN IdealMessage(built, Root, 0, mayCut)
                     ELSE IdealField(built, value.field, Len(value.at), mayCut)

ParametersInv == schema \in Schemas /\ maxDepth \in Nat /\ nodes \in Nat

ObjectsInv ==
  /\ IsFiniteSet(DOMAIN template)
  /\ Cardinality(Objects) <= nodes /\ Cardinality(Objects) <= MaxNodes
  /\ \A at \in Objects :
       /\ at \in Seq(Steps) /\ Len(at) <= maxDepth
       /\ template[at].type \in DOMAIN schema

TodoInv ==
  /\ todo \subseteq Due
  /\ \A value \in todo : value.at \notin DOMAIN template

BuiltInv ==
  /\ \A value \in Due \ todo :
       value.at \in DOMAIN template /\ Ideal(value, template[value.at], nodes > MaxNodes)
  /\ \A at \in DOMAIN template : \E value \in Due : value.at = at

BuilderInv == NotAsked \/ (ParametersInv /\ ObjectsInv /\ TodoInv /\ BuiltInv)

(* A field has what its kind needs.                                        *)
FieldOK(field) ==
  field.label # "map" =>
    /\ field.kind = "message" => field.type \in WellKnown \cup DOMAIN schema
    /\ field.kind = "enum" =>
         Len(field.names) \in Nat /\ DOMAIN field.names = 1..Len(field.names)

LEMMA FieldsOK ==
  ASSUME ParametersInv, NEW type \in DOMAIN schema
  PROVE  /\ Len(schema[type]) \in Nat /\ DOMAIN schema[type] = 1..Len(schema[type])
         /\ \A i \in DOMAIN schema[type] : FieldOK(schema[type][i])
<1>1. schema \in Schemas
  BY DEF ParametersInv
<1>2. Len(schema[type]) \in Nat /\ DOMAIN schema[type] = 1..Len(schema[type])
  BY <1>1, BuilderAssumption
<1>3. ASSUME NEW i \in 1..Len(schema[type]) PROVE FieldOK(schema[type][i])
  BY <1>1, BuilderAssumption DEF FieldOK
<1> QED
  BY <1>2, <1>3

LEMMA PairsAreSteps ==
  ASSUME ParametersInv, NEW type \in DOMAIN schema, NEW pair \in Pairs(schema[type])
  PROVE  /\ pair \in Steps /\ pair = <<pair[1], pair[2]>>
         /\ pair[1] \in DOMAIN schema[type] /\ pair[1] \in Chosen(schema[type])
         /\ pair[2] \in Items(schema[type][pair[1]])
BY FieldsOK DEF Pairs, Chosen, Steps

(* What is asked for, and that it is asked for once.                       *)
LEMMA DueIs ==
  ASSUME ParametersInv, ObjectsInv, NEW value \in Due
  PROVE  /\ value.at \in Seq(Steps)
         /\ FieldOK(value.field)
         /\ \/ value = RootValue /\ value.at = <<>>
            \/ \E at \in Objects : \E pair \in Pairs(schema[template[at].type]) :
                 /\ value = [at |-> Append(at, pair), field |-> schema[template[at].type][pair[1]]]
                 /\ value.at # <<>>
<1>1. CASE value = RootValue
  <2>1. Root \in DOMAIN schema
    BY BuilderAssumption DEF ParametersInv
  <2> QED
    BY <1>1, <2>1 DEF RootValue, FieldOK
<1>2. CASE value # RootValue
  <2>1. PICK at \in Objects : value \in Children(at)
    BY <1>2 DEF Due
  <2> DEFINE fields == schema[template[at].type]
  <2>2. at \in Seq(Steps) /\ template[at].type \in DOMAIN schema
    BY DEF ObjectsInv
  <2>3. PICK pair \in Pairs(fields) :
          value = [at |-> Append(at, pair), field |-> fields[pair[1]]]
    BY <2>1 DEF Children, Values
  <2>4. pair \in Steps /\ pair[1] \in DOMAIN fields
    BY <2>2, PairsAreSteps
  <2>5. Append(at, pair) \in Seq(Steps) /\ Append(at, pair) # <<>>
    BY <2>2, <2>4, PlaceAppend
  <2>6. FieldOK(fields[pair[1]])
    BY <2>2, <2>4, FieldsOK
  <2> QED
    BY <2>3, <2>5, <2>6
<1> QED
  BY <1>1, <1>2

LEMMA DueUnique ==
  ASSUME ParametersInv, ObjectsInv, NEW v \in Due, NEW w \in Due, v.at = w.at
  PROVE  v = w
<1>1. CASE v.at = <<>>
  BY <1>1, DueIs
<1>2. CASE v.at # <<>>
  <2>1. PICK a \in Objects : \E p \in Pairs(schema[template[a].type]) :
          v = [at |-> Append(a, p), field |-> schema[template[a].type][p[1]]]
    BY <1>2, DueIs
  <2>2. PICK p \in Pairs(schema[template[a].type]) :
          v = [at |-> Append(a, p), field |-> schema[template[a].type][p[1]]]
    BY <2>1
  <2>3. PICK b \in Objects : \E q \in Pairs(schema[template[b].type]) :
          w = [at |-> Append(b, q), field |-> schema[template[b].type][q[1]]]
    BY <1>2, DueIs
  <2>4. PICK q \in Pairs(schema[template[b].type]) :
          w = [at |-> Append(b, q), field |-> schema[template[b].type][q[1]]]
    BY <2>3
  <2>5. a \in Seq(Steps) /\ b \in Seq(Steps) /\ p \in Steps /\ q \in Steps
    BY PairsAreSteps DEF ObjectsInv
  <2>6. a = b /\ p = q
    BY <2>2, <2>4, <2>5, AppendInjective
  <2> QED
    BY <2>2, <2>4, <2>6
<1> QED
  BY <1>1, <1>2

(* What may be cut because of the count may be cut when it has grown.      *)
LEMMA IdealMonotone ==
  ASSUME NEW value, NEW built, NEW few \in BOOLEAN, NEW more \in BOOLEAN, few => more,
         Ideal(value, built, few)
  PROVE  Ideal(value, built, more)
BY DEF Ideal, IdealField, IdealMessage

-----------------------------------------------------------------------------
(* A value is built, as its field wants it.                                *)
Extends(value, built, more) ==
  \/ built.is # "object" /\ more = {}
  \/ /\ \E type \in DOMAIN schema : built = Object(type) /\ more = Values(value.at, schema[type])
     /\ Len(value.at) <= maxDepth
     /\ nodes' = nodes + 1 /\ nodes' <= MaxNodes

LEMMA BuildInv ==
  ASSUME ParametersInv, ObjectsInv, TodoInv, BuiltInv,
         NEW value \in todo, NEW built, NEW more, Build(value, built, more),
         nodes' \in Nat, nodes <= nodes',
         Ideal(value, built, nodes' > MaxNodes), Extends(value, built, more)
  PROVE  (ParametersInv /\ ObjectsInv /\ TodoInv /\ BuiltInv)'
<1>1. /\ schema' = schema /\ maxDepth' = maxDepth /\ todo' = (todo \ {value}) \cup more
      /\ DOMAIN template' = DOMAIN template \cup {value.at}
      /\ template'[value.at] = built
      /\ \A at \in DOMAIN template : at # value.at => template'[at] = template[at]
  BY DEF Build
<1>2. value \in Due /\ value.at \notin DOMAIN template /\ value.at \in Seq(Steps)
  BY DueIs DEF TodoInv
<1>3. \A at \in DOMAIN template : template'[at] = template[at]
  BY <1>1, <1>2
<1>4. Objects' = Objects \cup (IF built.is = "object" THEN {value.at} ELSE {})
  BY <1>1, <1>2, <1>3 DEF Objects
<1>5. \A at \in Objects : Children(at)' = Children(at)
  BY <1>1, <1>3 DEF Children, Objects
<1>6. Due' = Due \cup more
  <2>1. CASE built.is # "object" /\ more = {}
    <3>1. Objects' = Objects
      BY <1>4, <2>1
    <3> QED
      BY <1>5, <2>1, <3>1 DEF Due, RootValue
  <2>2. ASSUME NEW type \in DOMAIN schema,
               built = Object(type), more = Values(value.at, schema[type])
        PROVE  Due' = Due \cup more
    <3>1. Objects' = Objects \cup {value.at}
      BY <1>4, <2>2 DEF Object
    <3>2. Children(value.at)' = more
      BY <1>1, <2>2 DEF Children, Object
    <3> QED
      BY <1>5, <3>1, <3>2 DEF Due, RootValue
  <2> QED
    BY <2>1, <2>2 DEF Extends
<1>7. ParametersInv'
  BY <1>1 DEF ParametersInv
<1>8. ObjectsInv'
  <2>1. IsFiniteSet(DOMAIN template')
    BY <1>1, FS_AddElement DEF ObjectsInv
  <2>2. IsFiniteSet(Objects) /\ Cardinality(Objects) \in Nat
    BY FS_Subset, FS_CardinalityType DEF ObjectsInv, Objects
  <2>3. CASE built.is # "object"
    <3>1. Objects' = Objects
      BY <1>4, <2>3
    <3>2. Cardinality(Objects') <= nodes' /\ Cardinality(Objects') <= MaxNodes
      BY <2>2, <3>1 DEF ObjectsInv, ParametersInv
    <3>3. ASSUME NEW at \in Objects'
          PROVE  /\ at \in Seq(Steps) /\ Len(at) <= maxDepth'
                 /\ template'[at].type \in DOMAIN schema'
      BY <1>1, <1>3, <3>1, <3>3 DEF ObjectsInv, Objects
    <3> QED
      BY <2>1, <3>2, <3>3 DEF ObjectsInv
  <2>4. CASE built.is = "object"
    <3>1. Objects' = Objects \cup {value.at} /\ value.at \notin Objects
      BY <1>2, <1>4, <2>4 DEF Objects
    <3>2. Cardinality(Objects') = Cardinality(Objects) + 1
      BY <2>2, <3>1, FS_AddElement
    <3>3. /\ Len(value.at) <= maxDepth /\ nodes' = nodes + 1 /\ nodes' <= MaxNodes
          /\ built.type \in DOMAIN schema
      BY <2>4 DEF Extends, Object
    <3>4. Cardinality(Objects') <= nodes' /\ Cardinality(Objects') <= MaxNodes
      BY <2>2, <3>2, <3>3, BuilderAssumption DEF ObjectsInv, ParametersInv
    <3>5. ASSUME NEW at \in Objects'
          PROVE  /\ at \in Seq(Steps) /\ Len(at) <= maxDepth'
                 /\ template'[at].type \in DOMAIN schema'
      BY <1>1, <1>2, <1>3, <3>1, <3>3, <3>5 DEF ObjectsInv, Objects
    <3> QED
      BY <2>1, <3>4, <3>5 DEF ObjectsInv
  <2> QED
    BY <2>3, <2>4
<1>9. TodoInv'
  <2>1. todo' \subseteq Due'
    BY <1>1, <1>6 DEF TodoInv
  <2>2. ASSUME NEW other \in todo \ {value} PROVE other.at \notin DOMAIN template'
    <3>1. other.at # value.at
      BY <1>2, DueUnique DEF TodoInv
    <3> QED
      BY <1>1, <3>1 DEF TodoInv
  <2>3. ASSUME NEW other \in more PROVE other.at \notin DOMAIN template'
    <3>1. PICK type \in DOMAIN schema : more = Values(value.at, schema[type])
      BY <2>3 DEF Extends
    <3>2. PICK pair \in Pairs(schema[type]) : other.at = Append(value.at, pair)
      BY <3>1 DEF Values
    <3>3. pair \in Steps
      BY PairsAreSteps
    <3>4. other.at # <<>> /\ other.at # value.at /\ Front(other.at) = value.at
      BY <1>2, <3>2, <3>3, PlaceAppend
    <3>5. ASSUME other.at \in DOMAIN template PROVE FALSE
      <4>1. PICK due \in Due : due.at = other.at
        BY <3>5 DEF BuiltInv
      <4>2. due.at # <<>>
        BY <3>4, <4>1
      <4>3. PICK at \in Objects : \E step \in Pairs(schema[template[at].type]) :
              due = [at |-> Append(at, step), field |-> schema[template[at].type][step[1]]]
        BY <4>2, DueIs
      <4>4. at \in Seq(Steps) /\ template[at].type \in DOMAIN schema
        BY DEF ObjectsInv
      <4>5. Front(due.at) = at
        BY <4>3, <4>4, PairsAreSteps, PlaceAppend
      <4> QED
        BY <1>2, <3>4, <4>1, <4>5 DEF Objects
    <3> QED
      BY <1>1, <3>4, <3>5
  <2> QED
    BY <1>1, <2>1, <2>2, <2>3 DEF TodoInv
<1>10. BuiltInv'
  <2> DEFINE before == nodes > MaxNodes
             cut == nodes' > MaxNodes
  <2>1. before \in BOOLEAN /\ cut \in BOOLEAN /\ (before => cut)
    BY BuilderAssumption DEF ParametersInv
  <2> HIDE DEF before, cut
  <2>2. \A other, it, mayCut : Ideal(other, it, mayCut)' <=> Ideal(other, it, mayCut)
    BY <1>1 DEF Ideal, IdealField, IdealMessage
  <2>3. ASSUME NEW other \in Due \ todo
        PROVE  other.at \in DOMAIN template' /\ Ideal(other, template'[other.at], nodes' > MaxNodes)
    <3>1. other.at \in DOMAIN template /\ Ideal(other, template[other.at], before)
      BY DEF BuiltInv, before
    <3>2. Ideal(other, template[other.at], cut)
      BY <2>1, <3>1, IdealMonotone
    <3> QED
      BY <1>1, <1>3, <3>1, <3>2 DEF cut
  <2>4. \A other \in Due' \ todo' : other \in Due \ todo \/ other = value
    BY <1>1, <1>6
  <2>5. \A at \in DOMAIN template' : \E other \in Due' : other.at = at
    BY <1>1, <1>2, <1>6 DEF BuiltInv
  <2> QED
    BY <1>1, <2>2, <2>3, <2>4, <2>5 DEF BuiltInv
<1> QED
  BY <1>7, <1>8, <1>9, <1>10

(* The steps of the walk build what the fields want.                       *)
LEMMA BuildNextInv ==
  ASSUME ParametersInv, ObjectsInv, TodoInv, BuiltInv, BuildNext
  PROVE  (ParametersInv /\ ObjectsInv /\ TodoInv /\ BuiltInv)'
<1>1. PICK value \in todo : BuildValue(value)
  BY DEF BuildNext
<1> DEFINE field == value.field
           cut == nodes' > MaxNodes
<1>2. nodes \in Nat /\ maxDepth \in Nat /\ MaxNodes \in Nat
  BY BuilderAssumption DEF ParametersInv
<1>3. value \in Due /\ value.at \in Seq(Steps) /\ FieldOK(field)
  BY DueIs DEF TodoInv
<1>4. Len(value.at) \in Nat /\ (value.at = <<>> => Len(value.at) = 0)
  BY <1>3
<1>5. value.at = <<>> => value = RootValue
  BY <1>3, DueIs
<1>6. value = RootValue => field.label # "map" /\ field.kind = "message" /\ field.type = Root
  BY DEF RootValue
<1>7. CASE BuildMap(value)
  <2>1. Build(value, Cut, {}) /\ nodes' = nodes + 1 /\ field.label = "map"
    BY <1>7 DEF BuildMap
  <2>2. Ideal(value, Cut, cut)
    BY <1>5, <1>6, <2>1 DEF Ideal, IdealField
  <2> QED
    BY <1>2, <2>1, <2>2, BuildInv DEF Extends, Cut
<1>8. CASE BuildScalar(value)
  <2> DEFINE built == Leaf(IF field.kind = "enum" THEN ChooseEnumValue(field.names) ELSE field.kind)
  <2>1. Build(value, built, {}) /\ nodes' = nodes /\ field.label # "map" /\ field.kind # "message"
    BY <1>8 DEF BuildScalar
  <2>2. value.at # <<>>
    BY <1>5, <1>6, <2>1
  <2>3. Ideal(value, built, cut)
    <3>1. CASE field.kind = "enum"
      <4>1. built = Leaf(built.text) /\ built.text = ChooseEnumValue(field.names)
        BY <3>1 DEF Leaf
      <4>2. IdealEnum(field.names, ChooseEnumValue(field.names))
        BY <1>3, <2>1, <3>1, EnumIdeal DEF FieldOK
      <4> QED
        BY <2>1, <2>2, <3>1, <4>1, <4>2 DEF Ideal, IdealField
    <3>2. CASE field.kind # "enum"
      BY <2>1, <2>2, <3>2 DEF Ideal, IdealField
    <3> QED
      BY <3>1, <3>2
  <2> QED
    BY <1>2, <2>1, <2>3, BuildInv DEF Extends, Leaf
<1>9. CASE CutTooDeep(value)
  <2>1. /\ Build(value, Cut, {}) /\ nodes' = nodes
        /\ field.label # "map" /\ field.kind = "message" /\ Len(value.at) > maxDepth
    BY <1>9 DEF CutTooDeep, IsMessage, TooDeep
  <2>2. Ideal(value, Cut, cut)
    BY <1>2, <1>4, <2>1 DEF Ideal, IdealField, IdealMessage
  <2> QED
    BY <1>2, <2>1, <2>2, BuildInv DEF Extends, Cut
<1>10. CASE BuildWellKnown(value)
  <2>1. /\ Build(value, Leaf(field.type), {}) /\ nodes' = nodes
        /\ field.label # "map" /\ field.kind = "message" /\ ~(Len(value.at) > maxDepth)
        /\ value.at # <<>> /\ field.type \in WellKnown
    BY <1>10 DEF BuildWellKnown, IsMessage, TooDeep, IsWellKnown
  <2>2. Ideal(value, Leaf(field.type), cut)
    BY <1>2, <1>4, <2>1 DEF Ideal, IdealField
  <2> QED
    BY <1>2, <2>1, <2>2, BuildInv DEF Extends, Leaf
<1>11. CASE BuildMessage(value)
  <2>1. /\ nodes' = nodes + 1
        /\ field.label # "map" /\ field.kind = "message" /\ Len(value.at) <= maxDepth
        /\ value.at = <<>> \/ field.type \notin WellKnown
    BY <1>2, <1>4, <1>11 DEF BuildMessage, IsMessage, TooDeep, IsWellKnown
  <2>2. field.type \in DOMAIN schema
    BY <1>3, <1>5, <1>6, <2>1, BuilderAssumption DEF FieldOK, ParametersInv
  <2>3. ASSUME NEW built, IdealMessage(built, field.type, Len(value.at), cut)
        PROVE  Ideal(value, built, cut)
    BY <1>2, <1>4, <1>5, <1>6, <2>1, <2>3 DEF Ideal, IdealField
  <2>4. CASE cut
    <3>1. Build(value, Cut, {})
      BY <1>11, <2>4 DEF BuildMessage, TooMany
    <3>2. Ideal(value, Cut, cut)
      BY <2>3, <2>4 DEF IdealMessage
    <3> QED
      BY <1>2, <2>1, <3>1, <3>2, BuildInv DEF Extends, Cut
  <2>5. CASE ~cut
    <3>1. Build(value, Object(field.type), Values(value.at, schema[field.type]))
      BY <1>11, <2>5 DEF BuildMessage, TooMany
    <3>2. Ideal(value, Object(field.type), cut)
      BY <2>1, <2>3 DEF IdealMessage
    <3>3. nodes' <= MaxNodes
      BY <1>2, <2>1, <2>5
    <3>4. Extends(value, Object(field.type), Values(value.at, schema[field.type]))
      BY <2>1, <2>2, <3>3 DEF Extends
    <3> QED
      BY <1>2, <2>1, <3>1, <3>2, <3>4, BuildInv
  <2> QED
    BY <2>4, <2>5
<1> QED
  BY <1>1, <1>7, <1>8, <1>9, <1>10, <1>11 DEF BuildValue

(* A walk starts with the root alone to build.                             *)
LEMMA DescribeInv ==
  ASSUME NEW descriptors \in Schemas, NEW requested \in MaxDepths,
         Describe(descriptors, requested)
  PROVE  (ParametersInv /\ ObjectsInv /\ TodoInv /\ BuiltInv)'
<1>1. /\ schema' = descriptors /\ nodes' = 0 /\ template' = <<>> /\ todo' = {RootValue}
      /\ maxDepth' = IF requested <= 0 THEN DefaultDepth ELSE requested
  BY DEF Describe, NotAsked
<1>2. ParametersInv'
  BY <1>1, BuilderAssumption DEF ParametersInv, DefaultDepth
<1>3. DOMAIN template' = {} /\ Objects' = {}
  BY <1>1 DEF Objects
<1>4. Due' = {RootValue}
  BY <1>3 DEF Due, RootValue
<1>5. ObjectsInv'
  BY <1>1, <1>3, FS_EmptySet, BuilderAssumption DEF ObjectsInv
<1>6. TodoInv' /\ BuiltInv'
  BY <1>1, <1>3, <1>4 DEF TodoInv, BuiltInv
<1> QED
  BY <1>2, <1>5, <1>6

LEMMA BuilderNextInv == BuilderInv /\ [BuilderNext]_builder => BuilderInv'
<1> SUFFICES ASSUME BuilderInv, [BuilderNext]_builder PROVE BuilderInv'
  OBVIOUS
<1>1. CASE \E descriptors \in Schemas, depth \in MaxDepths : Describe(descriptors, depth)
  BY <1>1, DescribeInv DEF BuilderInv
<1>2. CASE BuildNext
  <2>1. ~NotAsked
    BY <1>2 DEF BuildNext, NotAsked
  <2> QED
    BY <1>2, <2>1, BuildNextInv DEF BuilderInv
<1>3. CASE Complete /\ Forget
  BY <1>3 DEF Forget, BuilderInv, NotAsked
<1>4. CASE UNCHANGED builder
  BY <1>4 DEF builder, BuilderInv, NotAsked, ParametersInv, ObjectsInv, TodoInv, BuiltInv,
         Objects, Due, Children, Ideal, IdealField, IdealMessage, RootValue
<1> QED
  BY <1>1, <1>2, <1>3, <1>4 DEF BuilderNext

LEMMA SpecBuilderInv == BuilderSpec => []BuilderInv
<1>1. NotAsked => BuilderInv
  BY DEF BuilderInv
<1> QED
  BY <1>1, BuilderNextInv, PTL DEF BuilderSpec

-----------------------------------------------------------------------------
(* The properties of a template follow.                                    *)
LEMMA InvWithinLimits == BuilderInv => WithinLimits
<1>1. ASSUME NotAsked PROVE WithinLimits
  <2>1. Objects = {}
    BY <1>1 DEF NotAsked, Objects
  <2> QED
    BY <2>1, FS_EmptySet, BuilderAssumption DEF WithinLimits
<1> QED
  BY <1>1 DEF BuilderInv, ObjectsInv, WithinLimits

LEMMA CompleteIsIdeal ==
  ASSUME BuilderInv, Asked, Complete, NEW mayCut \in BOOLEAN, nodes > MaxNodes => mayCut
  PROVE  IdealTree(mayCut)
<1>1. ParametersInv /\ ObjectsInv /\ BuiltInv /\ todo = {}
  BY DEF BuilderInv, NotAsked, Asked, Complete
<1>2. ASSUME NEW value \in Due
      PROVE  value.at \in DOMAIN template /\ Ideal(value, template[value.at], mayCut)
  <2> DEFINE cut == nodes > MaxNodes
  <2>1. value.at \in DOMAIN template /\ Ideal(value, template[value.at], cut)
    BY <1>1 DEF BuiltInv
  <2>2. cut \in BOOLEAN /\ (cut => mayCut)
    BY <1>1, BuilderAssumption DEF ParametersInv
  <2> HIDE DEF cut
  <2> QED
    BY <2>1, <2>2, IdealMonotone
<1>3. <<>> \in DOMAIN template /\ IdealMessage(template[<<>>], Root, 0, mayCut)
  <2>1. RootValue \in Due /\ RootValue.at = <<>>
    BY DEF Due, RootValue
  <2> QED
    BY <1>2, <2>1 DEF Ideal
<1>4. ASSUME NEW at \in DOMAIN template, at # <<>>
      PROVE  \E parent \in Objects : \E pair \in Pairs(schema[template[parent].type]) :
               pair \in Steps /\ parent \in Seq(Steps) /\ at = Append(parent, pair)
  <2>1. PICK value \in Due : value.at = at
    BY <1>1 DEF BuiltInv
  <2>2. PICK parent \in Objects : \E pair \in Pairs(schema[template[parent].type]) :
          value = [at |-> Append(parent, pair), field |-> schema[template[parent].type][pair[1]]]
    BY <1>1, <1>4, <2>1, DueIs
  <2>3. parent \in Seq(Steps) /\ template[parent].type \in DOMAIN schema
    BY <1>1 DEF ObjectsInv
  <2> DEFINE pairs == Pairs(schema[template[parent].type])
  <2>4. pairs \subseteq Steps
    BY <1>1, <2>3, PairsAreSteps
  <2>5. \E pair \in pairs : at = Append(parent, pair)
    BY <2>1, <2>2
  <2> HIDE DEF pairs
  <2>6. \E pair \in pairs : pair \in Steps /\ parent \in Seq(Steps) /\ at = Append(parent, pair)
    BY <2>3, <2>4, <2>5
  <2> QED
    BY <2>6 DEF pairs
<1>5. \A at \in DOMAIN template \ {<<>>} : Front(at) \in Objects
  <2>1. ASSUME NEW at \in DOMAIN template, at # <<>> PROVE Front(at) \in Objects
    <3>1. PICK parent \in Objects : \E pair \in Steps :
            parent \in Seq(Steps) /\ at = Append(parent, pair)
      BY <1>4, <2>1
    <3> QED
      BY <3>1, PlaceAppend
  <2> QED
    BY <2>1
<1>6. ASSUME NEW at \in Objects,
             NEW i \in DOMAIN schema[template[at].type], NEW k \in 0..2
      PROVE  LET fields == schema[template[at].type]
                 here == Append(at, <<i, k>>)
             IN  IF i \in Set(fields) /\ k \in (IF fields[i].label = "repeated" THEN 1..2 ELSE {0})
                   THEN /\ here \in DOMAIN template
                        /\ IdealField(template[here], fields[i], Len(here), mayCut)
                   ELSE here \notin DOMAIN template
  <2> DEFINE fields == schema[template[at].type]
             here == Append(at, <<i, k>>)
             asked == <<i, k>> \in Pairs(fields)
  <2>1. at \in Seq(Steps) /\ template[at].type \in DOMAIN schema
    BY <1>1 DEF ObjectsInv
  <2>2. Len(fields) \in Nat /\ DOMAIN fields = 1..Len(fields) /\ <<i, k>> \in Steps
    BY <1>1, <2>1, FieldsOK DEF Steps
  <2>3. asked <=> i \in Set(fields) /\ k \in (IF fields[i].label = "repeated" THEN 1..2 ELSE {0})
    <3>1. Chosen(fields) = Set(fields)
      BY <2>2, ChosenIsSet
    <3>2. Items(fields[i]) = IF fields[i].label = "repeated" THEN 1..2 ELSE {0}
      BY DEF Items
    <3> QED
      BY <3>1, <3>2 DEF Pairs
  <2>4. here # <<>>
    BY <2>1, <2>2, PlaceAppend
  <2>5. CASE asked
    <3> DEFINE value == [at |-> here, field |-> fields[i]]
    <3>1. value \in Due
      <4>1. value \in Children(at)
        <5>1. fields[<<i, k>>[1]] = fields[i]
          OBVIOUS
        <5> QED
          BY <2>5, <5>1 DEF Children, Values
      <4> QED
        BY <4>1 DEF Due
    <3>2. here \in DOMAIN template /\ Ideal(value, template[here], mayCut)
      BY <1>2, <3>1
    <3>3. IdealField(template[here], fields[i], Len(here), mayCut)
      BY <2>4, <3>2 DEF Ideal
    <3> QED
      BY <2>3, <2>5, <3>2, <3>3
  <2>6. CASE ~asked
    <3>1. ASSUME here \in DOMAIN template PROVE FALSE
      <4>1. PICK parent \in Objects : \E pair \in Pairs(schema[template[parent].type]) :
              pair \in Steps /\ parent \in Seq(Steps) /\ here = Append(parent, pair)
        BY <1>4, <2>4, <3>1
      <4>2. PICK pair \in Pairs(schema[template[parent].type]) :
              pair \in Steps /\ parent \in Seq(Steps) /\ here = Append(parent, pair)
        BY <4>1
      <4>3. parent = at /\ pair = <<i, k>>
        BY <2>1, <2>2, <4>2, AppendInjective
      <4> QED
        BY <2>6, <4>2, <4>3
    <3> QED
      BY <2>3, <2>6, <3>1
  <2> QED
    BY <2>5, <2>6
<1> QED
  BY <1>3, <1>5, <1>6 DEF IdealTree

LEMMA InvIdeal == BuilderInv => PrunedIdeal /\ CompleteWithinLimits
<1>1. ASSUME BuilderInv, Asked, Complete PROVE IdealTree(TRUE)
  BY <1>1, CompleteIsIdeal
<1>2. ASSUME BuilderInv, Asked, Complete, nodes <= MaxNodes PROVE IdealTree(FALSE)
  <2>1. nodes \in Nat /\ MaxNodes \in Nat
    BY <1>2, BuilderAssumption DEF BuilderInv, ParametersInv, NotAsked, Asked
  <2>2. ~(nodes > MaxNodes)
    BY <1>2, <2>1
  <2> QED
    BY <1>2, <2>2, CompleteIsIdeal
<1> QED
  BY <1>1, <1>2 DEF PrunedIdeal, CompleteWithinLimits

(* However types refer to one another, a template has no more objects than *)
(* the node limit and none deeper than asked.                              *)
THEOREM BuilderWithinLimits == BuilderSpec => []WithinLimits
BY SpecBuilderInv, InvWithinLimits, PTL

(* A complete template is what the types ask for, cut only where the depth *)
(* or the count of nodes is exceeded: no field is lost or built twice, and *)
(* a oneof has one choice.                                                 *)
THEOREM BuilderPrunesIdeal == BuilderSpec => []PrunedIdeal
BY SpecBuilderInv, InvIdeal, PTL

(* It is cut nowhere else than at the depth as long as the count is within *)
(* the limit.                                                              *)
THEOREM BuilderCompletes == BuilderSpec => []CompleteWithinLimits
BY SpecBuilderInv, InvIdeal, PTL

-----------------------------------------------------------------------------
(* Discovery: the connection is open from the dial, or from NewCaller, to  *)
(* the reply; the builder is at work for one request only; and what has    *)
(* been resolved is, with what is left to resolve, all that can be called. *)
ConnectionInv == open = IF pc \in {"idle", "dialing"} THEN 0 ELSE 1

WalkInv ==
  /\ pc \notin {"building", "closing"} => NotAsked
  /\ pc # "building" => Complete

Callable == {service \in Services : Resolvable(service)}

ResolvingInv ==
  /\ pc \notin {"resolving", "closing"} => found = {}
  /\ steady /\ pc = "resolving" => found \cup {name \in names : Listed(name)} = Callable

IInv == TypeOK /\ ConnectionInv /\ WalkInv /\ ResolvingInv /\ ListingCallable

LEMMA InitIInv == Init => IInv
<1> SUFFICES ASSUME Init PROVE IInv
  OBVIOUS
<1>1. TypeOK
  <2>1. silent \in BOOLEAN /\ steady \in BOOLEAN
    BY DEF Init
  <2>2. serves \subseteq Services /\ broken \subseteq serves
    BY DEF Init
  <2>3. pc \in {"idle", "dialing", "listing", "resolving", "finding", "building", "closing"}
    BY DEF Init
  <2>4. open \in 0..1
    BY DEF Init
  <2>5. wanted \in Services \cup {NoService}
    BY DEF Init
  <2>6. names \subseteq Services \cup {Reflection}
    BY DEF Init
  <2>7. found \subseteq Services /\ listing \subseteq Services
    BY DEF Init
  <2> QED
    BY <2>1, <2>2, <2>3, <2>4, <2>5, <2>6, <2>7 DEF TypeOK
<1>2. ConnectionInv /\ ResolvingInv /\ ListingCallable
  BY DEF Init, ConnectionInv, ResolvingInv, ListingCallable
<1>3. WalkInv
  BY DEF Init, WalkInv, NotAsked, Complete
<1> QED
  BY <1>1, <1>2, <1>3 DEF IInv

(* The target changes: nothing that it has answered is relied on.          *)
LEMMA TargetIInv == IInv /\ TargetStep => IInv'
BY DEF TargetStep, Redeploy, TurnSilent, request, builder, IInv, TypeOK, ConnectionInv, WalkInv,
       NotAsked, Complete, ResolvingInv, ListingCallable, NoService

LEMMA AskIInv == IInv /\ Ask => IInv'
<1> SUFFICES ASSUME IInv, Ask PROVE IInv'
  OBVIOUS
<1> USE DEF IInv, At, target, builder
<1>1. TypeOK' /\ ConnectionInv'
  <2>1. open' = IF pc' \in {"idle", "dialing"} THEN 0 ELSE 1
    BY DEF Ask, AskServices, ParseProto, AskTemplate, ConnectionInv
  <2>2. silent' \in BOOLEAN /\ steady' \in BOOLEAN /\ wanted' \in Services \cup {NoService}
    BY DEF TypeOK, Ask, AskServices, ParseProto, AskTemplate
  <2>3. /\ serves' \subseteq Services /\ broken' \subseteq serves'
        /\ names' \subseteq Services \cup {Reflection}
        /\ found' \subseteq Services /\ listing' \subseteq Services
    BY DiscoveryAssumption DEF TypeOK, Ask, AskServices, ParseProto, AskTemplate
  <2>4. pc' \in {"idle", "dialing", "listing", "resolving", "finding", "building", "closing"}
    BY DEF TypeOK, Ask, AskServices, ParseProto, AskTemplate
  <2> QED
    BY <2>1, <2>2, <2>3, <2>4 DEF TypeOK, ConnectionInv
<1>2. WalkInv'
  BY DEF Ask, AskServices, ParseProto, AskTemplate, WalkInv, NotAsked, Complete
<1>3. ResolvingInv' /\ ListingCallable'
  BY DEF Ask, AskServices, ParseProto, AskTemplate, ResolvingInv, ListingCallable, Resolvable
<1> QED
  BY <1>1, <1>2, <1>3

(* A listing: names are resolved one by one, or given up.                  *)
Listings ==
  \/ Dial \/ DialTimesOut
  \/ ListNames \/ ListTimesOut
  \/ ResolveName \/ ResolveTimesOut \/ ShowListing

LEMMA ListingIInv == IInv /\ Listings => IInv'
<1> SUFFICES ASSUME IInv, Listings PROVE IInv'
  OBVIOUS
<1> USE DEF IInv, At, Reply, target, builder
<1> USE DEF Listings, Dial, DialTimesOut, ListNames, ListTimesOut, ResolveName, ResolveTimesOut,
            ShowListing
<1>1. TypeOK' /\ ConnectionInv'
  <2>1. open' = IF pc' \in {"idle", "dialing"} THEN 0 ELSE 1
    BY DEF ConnectionInv
  <2>2. silent' \in BOOLEAN /\ steady' \in BOOLEAN /\ wanted' \in Services \cup {NoService}
    BY DEF TypeOK, Listed, Resolvable
  <2>3. /\ serves' \subseteq Services /\ broken' \subseteq serves'
        /\ names' \subseteq Services \cup {Reflection}
        /\ found' \subseteq Services /\ listing' \subseteq Services
    BY DEF TypeOK, Listed, Resolvable
  <2>4. pc' \in {"idle", "dialing", "listing", "resolving", "finding", "building", "closing"}
    BY DEF TypeOK, Listed, Resolvable
  <2> QED
    BY <2>1, <2>2, <2>3, <2>4 DEF TypeOK, ConnectionInv
<1>2. WalkInv'
  BY DEF WalkInv, NotAsked, Complete
<1>3. Callable' = Callable /\ \A name : Listed(name)' <=> Listed(name)
  BY DEF Callable, Listed, Resolvable
<1>4. ResolvingInv'
  <2>1. CASE ListNames
    BY <1>3, <2>1, DiscoveryAssumption DEF ResolvingInv, Callable, Listed, Resolvable, TypeOK
  <2>2. CASE ResolveName
    BY <1>3, <2>2 DEF ResolvingInv
  <2> QED
    BY <1>3, <2>1, <2>2 DEF ResolvingInv
<1>5. ListingCallable'
  BY <1>3 DEF ListingCallable, ResolvingInv, Callable
<1> QED
  BY <1>1, <1>2, <1>4, <1>5

(* A template: the walk is over before the reply.                          *)
Templates == FindByReflection \/ FindInProto \/ FindFails \/ Walk \/ SendTemplate \/ Close

LEMMA TemplateIInv == IInv /\ Templates => IInv'
<1> SUFFICES ASSUME IInv, Templates PROVE IInv'
  OBVIOUS
<1> USE DEF IInv, At, Reply, target, MethodFound
<1> USE DEF Templates, FindByReflection, FindInProto, FindFails, Walk, SendTemplate, Close
<1>1. TypeOK' /\ ConnectionInv'
  BY DEF TypeOK, ConnectionInv
<1>2. WalkInv'
  BY DEF WalkInv, NotAsked, Complete, Forget, builder
<1>3. ResolvingInv' /\ ListingCallable'
  BY DEF ResolvingInv, ListingCallable, Resolvable
<1> QED
  BY <1>1, <1>2, <1>3

LEMMA NextIInv == IInv /\ [Next]_vars => IInv'
<1>1. IInv /\ UNCHANGED vars => IInv'
  BY DEF vars, target, request, builder, IInv, TypeOK, ConnectionInv, WalkInv, NotAsked, Complete,
         ResolvingInv, Callable, Listed, Resolvable, ListingCallable
<1> QED
  BY <1>1, TargetIInv, AskIInv, ListingIInv, TemplateIInv DEF Next, Answer, Listings, Templates

LEMMA SpecIInv == Spec => []IInv
BY InitIInv, NextIInv, PTL DEF Spec

(* The handler of a request, its connection and its listings keep to their *)
(* types, whatever the target does.                                        *)
THEOREM TypeCorrect == Spec => []TypeOK
BY SpecIInv, PTL DEF IInv

(* No connection outlives its request, on any path, answered or failed.    *)
THEOREM ConnectionIsReturned == Spec => []ConnectionReturned
<1>1. IInv => ConnectionReturned
  BY DEF IInv, ConnectionInv, ConnectionReturned
<1> QED
  BY <1>1, SpecIInv, PTL

(* A listing made while the target answered and stayed as it is shows      *)
(* exactly the services of which a method can be called.                   *)
THEOREM ListingIsCallable == Spec => []ListingCallable
BY SpecIInv, PTL DEF IInv

(* Handlers use the builder as it is meant: a walk is begun with none      *)
(* under way, and forgotten when it is over.                               *)
THEOREM DiscoveryBuilds == Spec => BuilderSpec
<1>1. Init => NotAsked
  BY DEF Init
<1>2. IInv /\ [Next]_vars => [BuilderNext]_builder
  <2> SUFFICES ASSUME IInv, [Next]_vars PROVE [BuilderNext]_builder
    OBVIOUS
  <2>1. CASE MethodFound
    BY <2>1 DEF MethodFound, BuilderNext
  <2>2. CASE Walk
    BY <2>2 DEF Walk, BuilderNext
  <2>3. CASE Close
    BY <2>3 DEF Close, At, IInv, WalkInv, BuilderNext
  <2>4. CASE TargetStep \/ Ask
    BY <2>4 DEF TargetStep, Redeploy, TurnSilent, Ask, AskServices, ParseProto, AskTemplate
  <2>5. CASE Listings
    BY <2>5 DEF Listings, Dial, DialTimesOut, ListNames, ListTimesOut, ResolveName,
                ResolveTimesOut, ShowListing
  <2>6. CASE FindFails \/ SendTemplate \/ UNCHANGED vars
    BY <2>6 DEF FindFails, SendTemplate, vars
  <2> QED
    BY <2>1, <2>2, <2>3, <2>4, <2>5, <2>6
       DEF Next, Answer, Listings, FindByReflection, FindInProto
<1> QED
  BY <1>1, <1>2, SpecIInv, PTL DEF Spec, BuilderSpec

(* So the templates that users get have all the properties above.          *)
COROLLARY DiscoveryTemplates == Spec => [](WithinLimits /\ PrunedIdeal /\ CompleteWithinLimits)
BY DiscoveryBuilds, BuilderWithinLimits, BuilderPrunesIdeal, BuilderCompletes, PTL

-----------------------------------------------------------------------------
(* The demo service, for any number of requests, any calls and any         *)
(* threshold.                                                              *)
USE TestServiceAssumption

(* A request is counted when its handler starts, in one second only; no    *)
(* count that the tracker has passed on exceeds the busiest second.        *)
CountedOnce == \A r \in Requests : rpc[r] = "new" <=> second[r] = "never"
BelowPeak   == reqCounter <= peak /\ swapped <= peak /\ currentRPS <= peak

ServiceInv == ServiceTypeOK /\ CountedOnce /\ RateOfLastSecond /\ BelowPeak /\ OverloadWithinPeak

(* The requests counted in a second are finitely many.                     *)
LEMMA SecondsFinite ==
  \A when : IsFiniteSet(In(when)) /\ Cardinality(In(when)) \in Nat
BY FS_Subset, FS_CardinalityType DEF In

LEMMA InitServiceInv == ServiceInit => ServiceInv
<1> SUFFICES ASSUME ServiceInit PROVE ServiceInv
  OBVIOUS
<1>1. In("current") = {} /\ In("last") = {}
  BY DEF ServiceInit, In
<1>2. RateOfLastSecond
  BY <1>1, FS_EmptySet DEF ServiceInit, RateOfLastSecond
<1> QED
  BY <1>2 DEF ServiceInit, ServiceInv, ServiceTypeOK, CountedOnce, BelowPeak, OverloadWithinPeak

(* The second ends: what was counted in it becomes the last second's.      *)
LEMMA SwapServiceInv == ServiceInv /\ Swap => ServiceInv'
<1> SUFFICES ASSUME ServiceInv, Swap PROVE ServiceInv'
  OBVIOUS
<1> USE DEF ServiceInv, Swap, TrackerAt, handler
<1>1. ServiceTypeOK' /\ CountedOnce'
  BY DEF ServiceTypeOK, CountedOnce, Elapsed
<1>2. In("current")' = {} /\ In("last")' = In("current")
  BY DEF In, Elapsed, ServiceTypeOK
<1>3. RateOfLastSecond'
  BY <1>2, FS_EmptySet DEF RateOfLastSecond
<1>4. BelowPeak' /\ OverloadWithinPeak'
  BY DEF BelowPeak, OverloadWithinPeak, ServiceTypeOK
<1> QED
  BY <1>1, <1>3, <1>4

LEMMA StoreServiceInv == ServiceInv /\ Store => ServiceInv'
BY DEF ServiceInv, Store, TrackerAt, handler, ServiceTypeOK, CountedOnce, RateOfLastSecond, In,
       BelowPeak, OverloadWithinPeak

(* A handler counts itself: it joins the current second.                   *)
LEMMA CountServiceInv ==
  ASSUME ServiceInv, NEW r \in Requests, Count(r)
  PROVE  ServiceInv'
<1> USE DEF ServiceInv, Count, HandlerAt, tracker
<1>1. Cardinality(In("current")) \in Nat /\ IsFiniteSet(In("current"))
  BY SecondsFinite
<1>2. second[r] = "never" /\ r \notin In("current")
  BY DEF CountedOnce, In
<1>3. In("current")' = In("current") \cup {r} /\ In("last")' = In("last")
  BY <1>2 DEF In, ServiceTypeOK
<1>4. Cardinality(In("current"))' = Cardinality(In("current")) + 1
  BY <1>1, <1>2, <1>3, FS_AddElement
<1>5. ServiceTypeOK'
  BY <1>1 DEF ServiceTypeOK
<1>6. CountedOnce'
  BY DEF CountedOnce, ServiceTypeOK
<1>7. RateOfLastSecond'
  BY <1>3, <1>4 DEF RateOfLastSecond
<1>8. peak' \in Nat /\ peak <= peak' /\ reqCounter' <= peak'
  BY <1>1, <1>5 DEF RateOfLastSecond, ServiceTypeOK
<1>9. BelowPeak' /\ OverloadWithinPeak'
  BY <1>8 DEF BelowPeak, OverloadWithinPeak, ServiceTypeOK
<1> QED
  BY <1>5, <1>6, <1>7, <1>9

(* The other steps of a handler count nothing.                             *)
LEMMA HandleServiceInv ==
  ASSUME ServiceInv, NEW r \in Requests, SenseOverload(r) \/ Roll(r) \/ Respond(r) \/ Refuse(r)
  PROVE  ServiceInv'
<1> USE DEF ServiceInv
<1>1. /\ UNCHANGED <<reqCounter, currentRPS, swapped, tpc, second, peak>>
      /\ rpc[r] # "new" /\ \A q \in Requests : rpc'[q] = "new" <=> rpc[q] = "new"
      /\ rpc' \in [Requests -> {"new", "counted", "rolling", "working", "failing", "answered"}]
  BY DEF SenseOverload, Sense, Roll, Respond, Refuse, HandlerAt, tracker, ServiceTypeOK
<1>2. CountedOnce' /\ RateOfLastSecond' /\ BelowPeak'
  BY <1>1 DEF CountedOnce, RateOfLastSecond, BelowPeak, In
<1>3. CASE SenseOverload(r)
  <2> DEFINE excess == IF currentRPS > Threshold THEN currentRPS - Threshold ELSE 0
  <2>1. overload' = [overload EXCEPT ![r] = excess] /\ reply' = reply
    BY <1>3 DEF SenseOverload, Sense
  <2>2. excess \in Nat /\ (excess > 0 => excess <= peak - Threshold)
    BY DEF BelowPeak, ServiceTypeOK
  <2> HIDE DEF excess
  <2>3. ServiceTypeOK' /\ OverloadWithinPeak'
    BY <1>1, <2>1, <2>2 DEF ServiceTypeOK, OverloadWithinPeak
  <2> QED
    BY <1>2, <2>3
<1>4. CASE Roll(r) \/ Respond(r) \/ Refuse(r)
  <2>1. overload' = overload
    BY <1>4 DEF Roll, Respond, Refuse
  <2>2. Response(Call[r]) \in OrderStatuses \cup {NoOrder}
    BY DEF Response, CreatedOrder, ChooseOrderStatus, OrderStatuses, NoOrder, Methods
  <2>3. reply' \in [Requests -> Failures \cup OrderStatuses \cup {NoOrder}]
    BY <1>4, <2>2 DEF Roll, Respond, Refuse, ServiceTypeOK
  <2> QED
    BY <1>1, <1>2, <2>1, <2>3 DEF ServiceTypeOK, OverloadWithinPeak
<1> QED
  BY <1>3, <1>4

LEMMA NextServiceInv == ServiceInv /\ [ServiceNext]_serviceVars => ServiceInv'
<1>1. ServiceInv /\ UNCHANGED serviceVars => ServiceInv'
  BY DEF serviceVars, tracker, handler, ServiceInv, ServiceTypeOK, CountedOnce, RateOfLastSecond,
         BelowPeak, OverloadWithinPeak, In
<1> QED
  BY <1>1, SwapServiceInv, StoreServiceInv, CountServiceInv, HandleServiceInv
     DEF ServiceNext, Track, Handle

LEMMA SpecServiceInv == ServiceSpec => []ServiceInv
BY InitServiceInv, NextServiceInv, PTL DEF ServiceSpec

(* Type correctness of the demo service: the rate that rpsTracker stores   *)
(* is a natural number, and every handler is in one of its steps.          *)
THEOREM ServiceTypeCorrect == ServiceSpec => []ServiceTypeOK
BY SpecServiceInv, PTL DEF ServiceInv

(* Every request is counted in exactly one second, and the rate the        *)
(* handlers read is that of the last complete one, however the tracker's   *)
(* Swap and Store fall between their Adds.                                 *)
THEOREM RateIsLastSecond == ServiceSpec => []RateOfLastSecond
BY SpecServiceInv, PTL DEF ServiceInv

(* No handler senses more overload than the busiest second explains.       *)
THEOREM OverloadIsEarned == ServiceSpec => []OverloadWithinPeak
BY SpecServiceInv, PTL DEF ServiceInv

=============================================================================
