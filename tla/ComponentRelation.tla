-------------------------- MODULE ComponentRelation --------------------------
(***************************************************************************)
(* What a storage of components promises its client, whatever arrays it    *)
(* keeps them in: a relation between instances and components, and one     *)
(* between instances and tags, of which a call changes the pairs of one    *)
(* instance and no others.                                                 *)
(***************************************************************************)
CONSTANTS Instances, Components, Tags

VARIABLES
  alive,      \* the instances created and not destroyed
  has,        \* the components each of them has
  tagged      \* and its tags

Of(i, pairs) == {p \in pairs : p[1] = i}

Init == alive = {} /\ has = {} /\ tagged = {}

\* A new instance has no component, or the one it is created with, and no tag.
Create(i) ==
  /\ i \notin alive
  /\ alive' = alive \cup {i}
  /\ has' \in {has} \cup {has \cup {<<i, c>>} : c \in Components}
  /\ UNCHANGED tagged

Destroy(i) ==
  /\ i \in alive
  /\ alive' = alive \ {i}
  /\ has' = has \ Of(i, has)
  /\ tagged' = tagged \ Of(i, tagged)

Add(i, c) == i \in alive /\ has' = has \cup {<<i, c>>} /\ UNCHANGED <<alive, tagged>>

Remove(i, c) == i \in alive /\ has' = has \ {<<i, c>>} /\ UNCHANGED <<alive, tagged>>

AddTag(i, t) == i \in alive /\ tagged' = tagged \cup {<<i, t>>} /\ UNCHANGED <<alive, has>>

RemoveTag(i, t) == i \in alive /\ tagged' = tagged \ {<<i, t>>} /\ UNCHANGED <<alive, has>>

\* The end of the storage.
Clear == alive' = {} /\ has' = {} /\ tagged' = {}

Next ==
  \/ Clear
  \/ \E i \in Instances : Create(i)
  \/ \E i \in Instances : Destroy(i)
  \/ \E i \in Instances, c \in Components : Add(i, c)
  \/ \E i \in Instances, c \in Components : Remove(i, c)
  \/ \E i \in Instances, t \in Tags : AddTag(i, t)
  \/ \E i \in Instances, t \in Tags : RemoveTag(i, t)

Spec == Init /\ [][Next]_<<alive, has, tagged>>

=============================================================================
