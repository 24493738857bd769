-------------------------- MODULE ComponentStorage --------------------------
(***************************************************************************)
(* cs_alloc_t of c_allocator_cs.cpp: for each type of component an array   *)
(* of its data without gaps, the map from instances to places of the array *)
(* and the map back.  Removing a component moves the last one of the array *)
(* into the gap.                                                           *)
(*                                                                         *)
(* An instance is known to the client by a pointer to one of its           *)
(* components: here the component Main it was created with, as in          *)
(* test_allocator_cs.cpp, whose client never removes it, and removes the   *)
(* other components before it destroys an instance.  What the client       *)
(* writes into the data is the instance it belongs to; data behind the     *)
(* last component is not read, and NULL.                                   *)
(***************************************************************************)
EXTENDS Integers, FiniteSets

CONSTANTS
  Instances,        \* 0..m_max_instances - 1
  Components,       \* the component types
  Main,             \* the one that instances are created with
  Tags,
  MaxComponents     \* the size of the data of a type other than Main

NULL == -1          \* c_null_index

VARIABLES
  self,             \* object_t, and the component types by their index
  handles           \* history: where the client knows its instances' Main from

vars == <<self, handles>>

Places == 0..Cardinality(Instances) - 1

Unregistered == [registered |-> FALSE, m_cp_count |-> 0,
                 m_map |-> [i \in Instances |-> NULL],
                 m_unmap |-> [k \in Places |-> NULL],
                 m_cp_data |-> [k \in Places |-> NULL]]

\* s_create_object
Created == [m_object_state |-> {},    \* the instances in use
            occupancy |-> {},         \* m_per_instance_component_occupancy, as pairs
            tags |-> {},              \* m_per_instance_tag_data, as pairs
            m_a_component |-> [c \in Components |-> Unregistered]]

Alive == self.m_object_state
Capacity(c) == IF c = Main THEN Cardinality(Instances) ELSE MaxComponents
Type(c) == self.m_a_component[c]

-----------------------------------------------------------------------------

\* s_instance_index: the instance a pointer to the component at place k leads to.
s_instance_index(c, k) == Type(c).m_unmap[k]

\* The instance of the call with this handle.
InstanceOf(handle) == s_instance_index(Main, handle)

\* s_add_cp: the component of the instance, a new one behind the others if it has
\* none; the client writes to the place returned.
PlaceFor(t, i) == IF t.m_map[i] = NULL THEN t.m_cp_count ELSE t.m_map[i]

s_add_cp(t, i) ==
  LET k == PlaceFor(t, i)
      added == [t EXCEPT !.m_cp_count = @ + 1, !.m_map[i] = k, !.m_unmap[k] = i]
  IN  [(IF t.m_map[i] = NULL THEN added ELSE t) EXCEPT !.m_cp_data[k] = i]

OccupancyAfterAdd(s, c, i) ==
  IF s.m_a_component[c].m_map[i] = NULL THEN s.occupancy \cup {<<i, c>>} ELSE s.occupancy

\* Mutant: the map of the moved component is not updated.
Moved_NoMap(t, to, from) == [t EXCEPT !.m_cp_data[to] = t.m_cp_data[from]]

\* The last component is moved into the gap.
Moved(t, to, from) ==
  [t EXCEPT !.m_map[t.m_unmap[from]] = to, !.m_cp_data[to] = t.m_cp_data[from]]

\* s_rem_cp, for an instance that has the component.
s_rem_cp(t, i) ==
  LET k == t.m_map[i]
      last == t.m_cp_count - 1
      removed == [t EXCEPT !.m_map[i] = NULL, !.m_unmap[k] = NULL, !.m_cp_count = last]
  IN  [(IF k < last THEN Moved(removed, k, last) ELSE removed) EXCEPT !.m_cp_data[last] = NULL]

\* Bound: the place that is moved has its instance in m_unmap.  Otherwise the code
\* writes m_map[c_null_index], which is outside of the array.
MoveIsDefined(t, i) ==
  LET k == t.m_map[i]
      last == t.m_cp_count - 1
  IN  k # NULL /\ k < last => t.m_unmap[last] # NULL

-----------------------------------------------------------------------------

\* setup
Init == self = Created /\ handles = << >>

teardown == self' = Created /\ handles' = << >>

\* register_component, which refuses one that is registered.
register_component(c) ==
  /\ ~Type(c).registered
  /\ self' = [self EXCEPT !.m_a_component[c].registered = TRUE]
  /\ UNCHANGED handles

\* Mutant: the tags of a former instance are kept.
Cleared_NotTags(s, i) == [s EXCEPT !.occupancy = {p \in @ : p[1] # i}]

\* s_create_instance for the instance i.
Cleared(s, i) ==
  [s EXCEPT !.occupancy = {p \in @ : p[1] # i}, !.tags = {p \in @ : p[1] # i}]

\* The duomap finds some instance that is not in use; without one the index is -1
\* and the code goes on with it: the client must not ask for more.
create_instance ==
  /\ Type(Main).registered
  /\ \E i \in Instances \ Alive :
       LET s == Cleared([self EXCEPT !.m_object_state = @ \cup {i}], i)
       IN  /\ self' = [s EXCEPT !.m_a_component[Main] = s_add_cp(@, i),
                                !.occupancy = OccupancyAfterAdd(s, Main, i)]
           /\ handles' = [j \in DOMAIN handles \cup {i} |->
                            IF j = i THEN PlaceFor(Type(Main), i) ELSE handles[j]]

\* The client has removed all components but Main; that one stays in the maps.
destroy_instance(handle) ==
  LET i == InstanceOf(handle)
  IN  /\ \A c \in Components \ {Main} : Type(c).m_map[i] = NULL
      /\ self' = [self EXCEPT !.m_object_state = @ \ {i}]
      /\ handles' = [j \in {j \in DOMAIN handles : handles[j] # handle} |-> handles[j]]

\* The data has no more places: nothing checks that, the client must not ask.
add_cp(handle, c) ==
  LET i == InstanceOf(handle)
  IN  /\ Type(c).registered
      /\ Type(c).m_map[i] = NULL => Type(c).m_cp_count < Capacity(c)
      /\ self' = [self EXCEPT !.m_a_component[c] = s_add_cp(@, i),
                              !.occupancy = OccupancyAfterAdd(self, c, i)]
      /\ UNCHANGED handles

rem_cp(handle, c) ==
  LET i == InstanceOf(handle)
  IN  /\ c # Main /\ Type(c).registered
      /\ MoveIsDefined(Type(c), i)
      /\ self' = IF Type(c).m_map[i] = NULL THEN self
                 ELSE [self EXCEPT !.m_a_component[c] = s_rem_cp(@, i),
                                   !.occupancy = @ \ {<<i, c>>}]
      /\ UNCHANGED handles

add_tag(handle, t) ==
  /\ self' = [self EXCEPT !.tags = @ \cup {<<InstanceOf(handle), t>>}]
  /\ UNCHANGED handles

rem_tag(handle, t) ==
  /\ self' = [self EXCEPT !.tags = @ \ {<<InstanceOf(handle), t>>}]
  /\ UNCHANGED handles

Handles == {handles[i] : i \in DOMAIN handles}

Next ==
  \/ teardown
  \/ \E c \in Components : register_component(c)
  \/ create_instance
  \/ \E h \in Handles : destroy_instance(h)
  \/ \E h \in Handles, c \in Components : add_cp(h, c)
  \/ \E h \in Handles, c \in Components : rem_cp(h, c)
  \/ \E h \in Handles, t \in Tags : add_tag(h, t)
  \/ \E h \in Handles, t \in Tags : rem_tag(h, t)

Spec == Init /\ [][Next]_vars

-----------------------------------------------------------------------------
(* Properties                                                              *)

\* The components of the instances, by the maps of their types, and the tags.
Has == {p \in Alive \X Components : Type(p[2]).m_map[p[1]] # NULL}
Tagged == {p \in self.tags : p[1] \in Alive}

\* Every component of an instance has a place of its own among those counted, with
\* what was written into it, over all moves; and a handle leads to its instance.
DataKept ==
  /\ \A p \in Has :
       LET t == Type(p[2])
           k == t.m_map[p[1]]
       IN  k < t.m_cp_count /\ t.m_cp_data[k] = p[1]
  /\ DOMAIN handles = Alive
  /\ \A i \in DOMAIN handles : InstanceOf(handles[i]) = i

\* "m_unmap; // component index -> instance index", the inverse of "m_map; //
\* instance index -> component index" (c_allocator_cs.cpp:18-19).
UnmapIsInverse == \A p \in Has : s_instance_index(p[2], Type(p[2]).m_map[p[1]]) = p[1]

\* It implements the relation between instances, components and tags: a call changes
\* the pairs of one instance and no others.
Relation == INSTANCE ComponentRelation WITH alive <- Alive, has <- Has, tagged <- Tagged

ImplementsRelation == Relation!Spec

=============================================================================
