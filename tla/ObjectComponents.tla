-------------------------- MODULE ObjectComponents --------------------------
(***************************************************************************)
(* nocs::allocator_t of c_allocator_ocs.cpp, for one type of objects: an   *)
(* object has memory of its own, and of each type of component at most one *)
(* at a place of the type's data.  The places are handed out by a binmap   *)
(* and stay where they are.                                                *)
(*                                                                         *)
(* An object is known to the client by its pointer, that is its index; as  *)
(* in test_allocator_ocs.cpp the client destroys an object after its       *)
(* components.  What it writes into the data is the object it belongs to;  *)
(* data of a place that is not in use is not read, and NULL.               *)
(***************************************************************************)
EXTENDS Integers, FiniteSets

CONSTANTS
  Instances,        \* 0..m_max_objects - 1
  Components,       \* the component types
  Tags,
  MaxComponents     \* the size of the data of a type

NULL == -1          \* 0xFFFF

VARIABLES
  self,             \* object_t of the type, and its component types
  handles           \* history: the objects the client holds

vars == <<self, handles>>

Places == 0..MaxComponents - 1

Unregistered == [registered |-> FALSE, m_free_index |-> 0,
                 m_map |-> [i \in Instances |-> NULL],
                 m_unmap |-> [k \in Places |-> NULL],
                 m_component_data |-> [k \in Places |-> NULL],
                 m_occupancy |-> {}]      \* the places in use below m_free_index

\* g_create_object
Registered == [m_object_state |-> {},     \* the objects in use
               occupancy |-> {},          \* m_per_object_component_occupancy, as pairs
               tags |-> {},               \* m_per_object_tag_data, as pairs
               m_a_component |-> [c \in Components |-> Unregistered]]

Alive == self.m_object_state
Type(c) == self.m_a_component[c]

-----------------------------------------------------------------------------

\* The places g_add_cp may use: one that the binmap finds free, and only without
\* one the next place that was never used.
FreePlaces(t) == (0..t.m_free_index - 1) \ t.m_occupancy

PlacesFor(t) ==
  IF FreePlaces(t) # {} THEN FreePlaces(t) ELSE {t.m_free_index} \cap Places

\* g_add_cp at place k for an object that has no such component.
g_add_cp(t, i, k) ==
  [t EXCEPT !.m_free_index = IF k = @ THEN @ + 1 ELSE @,
            !.m_occupancy = @ \cup {k},
            !.m_map[i] = k,
            !.m_unmap[k] = i,
            !.m_component_data[k] = i]

\* g_rem_cp.  The second assignment is to m_map, where m_unmap is meant.
g_rem_cp(t, i) ==
  LET k == t.m_map[i]
  IN  [t EXCEPT !.m_map = [@ EXCEPT ![i] = NULL, ![k] = NULL], !.m_occupancy = @ \ {k},
                !.m_component_data[k] = NULL]

\* Bound: that assignment meets no other object's component.
NoClobber(t, i) ==
  LET k == t.m_map[i] IN k # NULL => k \in Instances /\ (k = i \/ t.m_map[k] = NULL)

-----------------------------------------------------------------------------

\* setup and register_object
Init == self = Registered /\ handles = {}

\* teardown, and all of it again
teardown == self' = Registered /\ handles' = {}

\* register_component; a second call changes nothing.
register_component(c) ==
  /\ self' = [self EXCEPT !.m_a_component[c] =
                IF @.registered THEN @ ELSE [Unregistered EXCEPT !.registered = TRUE]]
  /\ UNCHANGED handles

\* Mutant: the tags of the object that was there before stay.
Untagged_Kept(i) == self.tags

\* g_create_instance clears the tag bits of the object.
Untagged(i) == {p \in self.tags : p[1] # i}

\* nullptr without a free object: the client must not construct one there.
create_object ==
  \E i \in Instances \ Alive :
    /\ self' = [self EXCEPT !.m_object_state = @ \cup {i},
                            !.occupancy = {p \in @ : p[1] # i},
                            !.tags = Untagged(i)]
    /\ handles' = handles \cup {i}

\* The client has destroyed the components.
destroy_object(i) ==
  /\ \A c \in Components : Type(c).m_map[i] = NULL
  /\ self' = [self EXCEPT !.m_object_state = @ \ {i}]
  /\ handles' = handles \ {i}

\* create_cp of a component the object has not.
create_cp(i, c) ==
  /\ Type(c).registered /\ Type(c).m_map[i] = NULL
  /\ \E k \in PlacesFor(Type(c)) :
       self' = [self EXCEPT !.m_a_component[c] = g_add_cp(@, i, k),
                            !.occupancy = @ \cup {<<i, c>>}]
  /\ UNCHANGED handles

\* create_cp that returns the component the object has, where a new one is then
\* constructed, or nullptr: the type is not registered, or its data is full.
create_cp_Again(i, c) ==
  LET k == Type(c).m_map[i]
  IN  /\ k # NULL \/ ~Type(c).registered \/ PlacesFor(Type(c)) = {}
      /\ self' = IF k = NULL THEN self
                 ELSE [self EXCEPT !.m_a_component[c].m_component_data[k] = i]
      /\ UNCHANGED handles

\* Mutant: the bit is kept.
Unoccupied_Kept(i, c) == self.occupancy

\* g_clr_component_occupancy
Unoccupied(i, c) == self.occupancy \ {<<i, c>>}

destroy_cp(i, c) ==
  /\ Type(c).registered /\ Type(c).m_map[i] # NULL
  /\ NoClobber(Type(c), i)
  /\ self' = [self EXCEPT !.m_a_component[c] = g_rem_cp(@, i), !.occupancy = Unoccupied(i, c)]
  /\ UNCHANGED handles

add_tag(i, t) == self' = [self EXCEPT !.tags = @ \cup {<<i, t>>}] /\ UNCHANGED handles

rem_tag(i, t) == self' = [self EXCEPT !.tags = @ \ {<<i, t>>}] /\ UNCHANGED handles

Next ==
  \/ teardown
  \/ \E c \in Components : register_component(c)
  \/ create_object
  \/ \E i \in handles : destroy_object(i)
  \/ \E i \in handles, c \in Components : create_cp(i, c)
  \/ \E i \in handles, c \in Components : create_cp_Again(i, c)
  \/ \E i \in handles, c \in Components : destroy_cp(i, c)
  \/ \E i \in handles, t \in Tags : add_tag(i, t)
  \/ \E i \in handles, t \in Tags : rem_tag(i, t)

Spec == Init /\ [][Next]_vars

-----------------------------------------------------------------------------
(* Properties                                                              *)

\* The components the client finds with get_component, and the tags.
Has == {p \in Alive \X Components : Type(p[2]).m_map[p[1]] # NULL}
Tagged == {p \in self.tags : p[1] \in Alive}

\* Every component has a place of its own that is in use, with what was written
\* into it, and leads back to its object; no place in use has lost its object.
DataKept ==
  /\ \A p \in Has :
       LET t == Type(p[2])
           k == t.m_map[p[1]]
       IN  t.m_component_data[k] = p[1] /\ t.m_unmap[k] = p[1]
  /\ \A c \in Components :
       Type(c).m_occupancy = {Type(c).m_map[i] : i \in Instances} \ {NULL}

\* has_component answers from the bits of the object, get_component from the map
\* of the type: they agree.
AnswersAgree == Has = {p \in self.occupancy : p[1] \in Alive}

\* It implements the relation between instances, components and tags: a call changes
\* the pairs of one instance and no others.
Relation == INSTANCE ComponentRelation WITH alive <- Alive, has <- Has, tagged <- Tagged

ImplementsRelation == Relation!Spec

=============================================================================
