----------------------------- MODULE LossyFeed -----------------------------
(***************************************************************************)
(* What the hub promises to each of its readers: from the moment it joins, *)
(* a reader sees some of the messages published after that moment, each at *)
(* most once, and those of one publisher in the order of publication.      *)
(***************************************************************************)
EXTENDS Naturals

CONSTANTS Readers, Publishers

VARIABLES
  published,  \* number of messages published; they are numbered from 1
  author,     \* author[m]: who published message m
  joined,     \* joined[r]: messages published before r joined
  member,     \* readers that have joined
  seen        \* seen[r]: the messages r has seen

vars == <<published, author, joined, member, seen>>

Init ==
  /\ published = 0 /\ author = <<>>
  /\ joined = [r \in Readers |-> 0]
  /\ member = {}
  /\ seen = [r \in Readers |-> {}]

Publish(p) ==
  /\ published' = published + 1
  /\ author' = [m \in 1..(published + 1) |-> IF m <= published THEN author[m] ELSE p]
  /\ UNCHANGED <<joined, member, seen>>

Join(r) ==
  /\ r \notin member
  /\ member' = member \cup {r}
  /\ joined' = [joined EXCEPT ![r] = published]
  /\ UNCHANGED <<published, author, seen>>

See(r) ==
  /\ r \in member
  /\ \E m \in (joined[r] + 1)..published :
       /\ \A k \in seen[r] : k # m /\ (author[k] = author[m] => k < m)
       /\ seen' = [seen EXCEPT ![r] = @ \cup {m}]
  /\ UNCHANGED <<published, author, joined, member>>

Next == (\E p \in Publishers : Publish(p)) \/ \E r \in Readers : Join(r) \/ See(r)

Spec == Init /\ [][Next]_vars

=============================================================================
