---------------------------- MODULE MCDiscovery ----------------------------
(* Small targets for TLC: two services, and small schemas.  The root type  *)
(* has one field of any kind, or two that count as nodes or are in a oneof,*)
(* and may refer to itself and to a second type, which refers back to it.  *)
EXTENDS Discovery

Plain(kind, oneof) == [label |-> "one", kind |-> kind, oneof |-> oneof]
Enum(list) == [label |-> "one", kind |-> "enum", names |-> list, oneof |-> 0]
Message(label, type, oneof) ==
  [label |-> label, kind |-> "message", type |-> type, oneof |-> oneof]
Map == [label |-> "map", kind |-> "string", oneof |-> 0]

Fields ==
  {Plain("string", 0), Map, [label |-> "repeated", kind |-> "string", oneof |-> 0],
   Enum(<<"stub", "", "paid">>), Enum(<<"stub">>), Enum(<<"", "stub">>), Enum(<<>>),
   Message("one", "Root", 0), Message("one", "Timestamp", 0)}

Paired ==
  {Map, Plain("string", 1), Message("repeated", "Root", 1), Message("repeated", "Item", 0)}

MCSchemas ==
  [Root : BoundedSeq(Fields, 1) \cup [1..2 -> Paired],
   Item : {<<>>, <<Message("one", "Root", 0)>>}]

=============================================================================
