----------------------- MODULE ComponentStorageProofs -----------------------
(***************************************************************************)
(* Proofs about ComponentStorage and ObjectComponents, for every number of *)
(* instances, component types and tags: no move of a component loses or    *)
(* mixes up data, handles stay valid, an object's component keeps its      *)
(* place, and both storages implement ComponentRelation.                   *)
(***************************************************************************)
EXTENDS MCComponents, FiniteSetTheorems, TLAPS

\* Instances are numbered, and no type has data for more of them than there are.
StorageBounds ==
  /\ IsFiniteSet(Instances) /\ Instances \subseteq Nat
  /\ MaxComponents \in 0..Cardinality(Instances)
  /\ Main \in Components

N == Cardinality(Instances)

LEMMA Numbers ==
  ASSUME StorageBounds
  PROVE  /\ N \in Nat /\ Places = 0..N - 1
         /\ NULL \in Int /\ NULL \notin Instances /\ NULL \notin Places
         /\ \A c \in Components : Capacity(c) \in 0..N
  BY FS_CardinalityType DEF StorageBounds, N, Places, NULL, Capacity

-----------------------------------------------------------------------------
(* One component type                                                      *)

TypeRecord ==
  [registered : BOOLEAN, m_cp_count : 0..N,
   m_map : [Instances -> Places \cup {NULL}],
   m_unmap : [Places -> Instances \cup {NULL}],
   m_cp_data : [Places -> Instances \cup {NULL}]]

\* The instances that have a component are those with a place, which holds theirs.
MapLeadsToData(t) ==
  \A i \in Instances :
    t.m_map[i] # NULL => t.m_map[i] < t.m_cp_count /\ t.m_cp_data[t.m_map[i]] = i

\* There are no gaps, and no place is the second one of its instance.
NoGaps(t) ==
  \A k \in Places :
    k < t.m_cp_count => t.m_cp_data[k] \in Instances /\ t.m_map[t.m_cp_data[k]] = k

\* The map back is right where it is set.
UnmapIsDataOrNull(t) ==
  \A k \in Places :
    k < t.m_cp_count => t.m_unmap[k] = NULL \/ t.m_unmap[k] = t.m_cp_data[k]

Good(t) ==
  t \in TypeRecord /\ MapLeadsToData(t) /\ NoGaps(t) /\ UnmapIsDataOrNull(t)

\* The map back is set everywhere, as it stays where nothing is removed.
UnmapIsData(t) ==
  \A k \in Places : k < t.m_cp_count => t.m_unmap[k] = t.m_cp_data[k]

LEMMA UnregisteredIsGood ==
  ASSUME StorageBounds
  PROVE  Good(Unregistered) /\ UnmapIsData(Unregistered)
  BY Numbers DEF Good, TypeRecord, MapLeadsToData, NoGaps, UnmapIsDataOrNull, UnmapIsData,
                 Unregistered

\* An instance without a component leaves room for it: the others have a place each.
LEMMA RoomForOneMore ==
  ASSUME StorageBounds, NEW t, Good(t), NEW i \in Instances, t.m_map[i] = NULL
  PROVE  t.m_cp_count < N
  <1> DEFINE n == t.m_cp_count
             Taken == 0..n - 1
             f == [k \in Taken |-> t.m_cp_data[k]]
  <1>1. n \in Nat /\ n <= N /\ N \in Nat /\ \A k \in Taken : k \in Places /\ k < n
    BY Numbers DEF Good, TypeRecord
  <1>2. \A k \in Taken : f[k] \in Instances /\ t.m_map[f[k]] = k
    BY <1>1 DEF Good, NoGaps
  <1>3. \A k \in Taken : f[k] # i
    BY <1>1, <1>2, Numbers
  <1>4. f \in Injection(Taken, Instances \ {i})
    <2>1. f \in [Taken -> Instances \ {i}]
      BY <1>2, <1>3
    <2>2. \A k, l \in Taken : f[k] = f[l] => k = l
      BY <1>2
    <2> QED BY <2>1, <2>2 DEF Injection, IsInjective
  <1>5. IsFiniteSet(Instances \ {i}) /\ Cardinality(Instances \ {i}) = N - 1
    BY FS_RemoveElement DEF StorageBounds, N
  <1>6. Cardinality(Taken) <= N - 1
    BY ONLY <1>4, <1>5, FS_Injection
  <1>7. Cardinality(Taken) = n
    <2>1. 0 \in Int /\ n - 1 \in Int /\ (n = 0 <=> 0 > n - 1) /\ n - 1 - 0 + 1 = n
      BY <1>1
    <2>2. Cardinality(0..n - 1) = IF 0 > n - 1 THEN 0 ELSE n - 1 - 0 + 1
      BY ONLY <2>1, FS_Interval
    <2> QED BY <2>1, <2>2
  <1> QED BY <1>1, <1>6, <1>7

\* What s_add_cp does to an instance that has no component yet.
LEMMA AddNew ==
  ASSUME StorageBounds, NEW t, Good(t), NEW i \in Instances, t.m_map[i] = NULL
  PROVE  /\ t.m_cp_count \in Places
         /\ s_add_cp(t, i) =
              [registered |-> t.registered, m_cp_count |-> t.m_cp_count + 1,
               m_map |-> [t.m_map EXCEPT ![i] = t.m_cp_count],
               m_unmap |-> [t.m_unmap EXCEPT ![t.m_cp_count] = i],
               m_cp_data |-> [t.m_cp_data EXCEPT ![t.m_cp_count] = i]]
  <1>1. t.m_cp_count < N
    BY RoomForOneMore
  <1>2. t.m_cp_count \in Places
    BY <1>1, Numbers DEF Good, TypeRecord
  <1>3. t.m_cp_count # NULL /\ PlaceFor(t, i) = t.m_cp_count
    BY <1>2, Numbers DEF PlaceFor
  <1>4. s_add_cp(t, i) =
          [[t EXCEPT !.m_cp_count = @ + 1, !.m_map[i] = t.m_cp_count,
                     !.m_unmap[t.m_cp_count] = i] EXCEPT !.m_cp_data[t.m_cp_count] = i]
    BY <1>3 DEF s_add_cp
  <1> QED BY <1>2, <1>4 DEF Good, TypeRecord

\* And to one that has a component: nothing, since its data is there.
LEMMA AddAgain ==
  ASSUME StorageBounds, NEW t, Good(t), NEW i \in Instances, t.m_map[i] # NULL
  PROVE  s_add_cp(t, i) = t /\ PlaceFor(t, i) = t.m_map[i]
  <1>1. t.m_map[i] \in Places /\ t.m_cp_data[t.m_map[i]] = i
    BY DEF Good, TypeRecord, MapLeadsToData
  <1>2. [t.m_cp_data EXCEPT ![t.m_map[i]] = i] = t.m_cp_data
    BY <1>1 DEF Good, TypeRecord
  <1>3. s_add_cp(t, i) = [t EXCEPT !.m_cp_data = [t.m_cp_data EXCEPT ![t.m_map[i]] = i]]
    BY DEF s_add_cp, PlaceFor, Good, TypeRecord
  <1> QED BY <1>2, <1>3 DEF PlaceFor, Good, TypeRecord

LEMMA AddGood ==
  ASSUME StorageBounds, NEW t, Good(t), NEW i \in Instances
  PROVE  LET r == s_add_cp(t, i)
         IN  /\ Good(r)
             /\ r.registered = t.registered
             /\ r.m_map = [t.m_map EXCEPT ![i] = PlaceFor(t, i)]
             /\ PlaceFor(t, i) # NULL
             /\ UnmapIsData(t) => UnmapIsData(r)
  <1> DEFINE r == s_add_cp(t, i)
             n == t.m_cp_count
  <1>1. CASE t.m_map[i] # NULL
    <2>1. [t.m_map EXCEPT ![i] = t.m_map[i]] = t.m_map
      BY DEF Good, TypeRecord
    <2> QED BY <1>1, <2>1, AddAgain
  <1>2. CASE t.m_map[i] = NULL
    <2>1. /\ n \in Places /\ PlaceFor(t, i) = n
          /\ r = [registered |-> t.registered, m_cp_count |-> n + 1,
                  m_map |-> [t.m_map EXCEPT ![i] = n],
                  m_unmap |-> [t.m_unmap EXCEPT ![n] = i],
                  m_cp_data |-> [t.m_cp_data EXCEPT ![n] = i]]
      BY <1>2, AddNew DEF PlaceFor
    <2>2. n + 1 \in 0..N /\ n # NULL
      BY <2>1, Numbers
    <2>3. r \in TypeRecord
      BY <2>1, <2>2 DEF Good, TypeRecord
    <2>4. MapLeadsToData(r)
      BY <1>2, <2>1, <2>2, Numbers DEF Good, TypeRecord, MapLeadsToData
    <2>5. NoGaps(r)
      BY <1>2, <2>1, <2>2, Numbers DEF Good, TypeRecord, NoGaps
    <2>6. /\ r.m_cp_count = n + 1
          /\ r.m_unmap[n] = i /\ r.m_cp_data[n] = i
          /\ \A p \in Places : p < n + 1 =>
               p = n \/ (p < n /\ r.m_unmap[p] = t.m_unmap[p] /\ r.m_cp_data[p] = t.m_cp_data[p])
      <3> HIDE DEF r
      <3>1. /\ r.m_cp_count = n + 1
            /\ r.m_unmap = [t.m_unmap EXCEPT ![n] = i]
            /\ r.m_cp_data = [t.m_cp_data EXCEPT ![n] = i]
        BY <2>1
      <3>2. \A p \in Places : p < n + 1 => p = n \/ (p < n /\ p # n)
        BY <2>1, Numbers
      <3>3. t.m_unmap \in [Places -> Instances \cup {NULL}] /\ t.m_cp_data \in [Places -> Instances \cup {NULL}]
        BY DEF Good, TypeRecord
      <3> QED BY <3>1, <3>2, <3>3, <2>1
    <2> HIDE DEF r
    <2>7. UnmapIsDataOrNull(r)
      BY <2>6 DEF Good, UnmapIsDataOrNull
    <2>8. UnmapIsData(t) => UnmapIsData(r)
      BY <2>6 DEF UnmapIsData
    <2> QED BY <2>1, <2>2, <2>3, <2>4, <2>5, <2>7, <2>8 DEF Good, r
  <1> QED BY <1>1, <1>2

\* s_rem_cp before a move, member by member.
LEMMA RemovedMembers ==
  ASSUME NEW t, Good(t), NEW i \in Instances, NEW k \in Places, NEW last
  PROVE  [t EXCEPT !.m_map[i] = NULL, !.m_unmap[k] = NULL, !.m_cp_count = last] =
           [registered |-> t.registered, m_cp_count |-> last,
            m_map |-> [t.m_map EXCEPT ![i] = NULL],
            m_unmap |-> [t.m_unmap EXCEPT ![k] = NULL],
            m_cp_data |-> t.m_cp_data]
  <1> DEFINE mapped == [registered |-> t.registered, m_cp_count |-> t.m_cp_count,
                        m_map |-> [t.m_map EXCEPT ![i] = NULL],
                        m_unmap |-> t.m_unmap, m_cp_data |-> t.m_cp_data]
             unmapped == [registered |-> t.registered, m_cp_count |-> t.m_cp_count,
                          m_map |-> [t.m_map EXCEPT ![i] = NULL],
                          m_unmap |-> [t.m_unmap EXCEPT ![k] = NULL],
                          m_cp_data |-> t.m_cp_data]
  <1>1. [t EXCEPT !.m_map[i] = NULL, !.m_unmap[k] = NULL, !.m_cp_count = last] =
          [[[t EXCEPT !.m_map[i] = NULL] EXCEPT !.m_unmap[k] = NULL] EXCEPT !.m_cp_count = last]
    BY Zenon
  <1>2. [t EXCEPT !.m_map[i] = NULL] = mapped
    BY DEF Good, TypeRecord
  <1>3. [mapped EXCEPT !.m_unmap[k] = NULL] = unmapped
    OBVIOUS
  <1>4. [unmapped EXCEPT !.m_cp_count = last] =
          [registered |-> t.registered, m_cp_count |-> last,
           m_map |-> [t.m_map EXCEPT ![i] = NULL],
           m_unmap |-> [t.m_unmap EXCEPT ![k] = NULL],
           m_cp_data |-> t.m_cp_data]
    OBVIOUS
  <1> HIDE DEF mapped, unmapped
  <1> QED BY ONLY <1>1, <1>2, <1>3, <1>4, Zenon

\* What s_rem_cp does, with and without a move.
LEMMA RemoveLast ==
  ASSUME StorageBounds, NEW t, Good(t), NEW i \in Instances,
         t.m_map[i] # NULL, t.m_map[i] = t.m_cp_count - 1
  PROVE  s_rem_cp(t, i) =
           [registered |-> t.registered, m_cp_count |-> t.m_cp_count - 1,
            m_map |-> [t.m_map EXCEPT ![i] = NULL],
            m_unmap |-> [t.m_unmap EXCEPT ![t.m_map[i]] = NULL],
            m_cp_data |-> [t.m_cp_data EXCEPT ![t.m_cp_count - 1] = NULL]]
  <1> DEFINE last == t.m_cp_count - 1
             removed == [t EXCEPT !.m_map[i] = NULL, !.m_unmap[t.m_map[i]] = NULL,
                                  !.m_cp_count = last]
  <1>1. ~(t.m_map[i] < last)
    BY Numbers DEF Good, TypeRecord
  <1>2. s_rem_cp(t, i) = [removed EXCEPT !.m_cp_data[last] = NULL]
    BY <1>1 DEF s_rem_cp
  <1>3. removed = [registered |-> t.registered, m_cp_count |-> last,
                   m_map |-> [t.m_map EXCEPT ![i] = NULL],
                   m_unmap |-> [t.m_unmap EXCEPT ![t.m_map[i]] = NULL],
                   m_cp_data |-> t.m_cp_data]
    <2>1. t.m_map[i] \in Places
      BY DEF Good, TypeRecord
    <2> QED BY <2>1, RemovedMembers
  <1> HIDE DEF removed
  <1> QED BY ONLY <1>2, <1>3

LEMMA RemoveMoves ==
  ASSUME StorageBounds, NEW t, Good(t), NEW i \in Instances,
         t.m_map[i] # NULL, t.m_map[i] # t.m_cp_count - 1, MoveIsDefined(t, i)
  PROVE  LET k == t.m_map[i]
             last == t.m_cp_count - 1
             moved == t.m_cp_data[last]
         IN  /\ k \in Places /\ last \in Places /\ k < last
             /\ moved \in Instances /\ moved # i /\ t.m_map[moved] = last
             /\ s_rem_cp(t, i) =
                  [registered |-> t.registered, m_cp_count |-> last,
                   m_map |-> [[t.m_map EXCEPT ![i] = NULL] EXCEPT ![moved] = k],
                   m_unmap |-> [t.m_unmap EXCEPT ![k] = NULL],
                   m_cp_data |-> [[t.m_cp_data EXCEPT ![k] = moved] EXCEPT ![last] = NULL]]
  <1> DEFINE k == t.m_map[i]
             last == t.m_cp_count - 1
             moved == t.m_cp_data[last]
  <1>1. k \in Places /\ k < t.m_cp_count /\ t.m_cp_count \in 0..N /\ t.m_cp_data[k] = i
    BY DEF Good, TypeRecord, MapLeadsToData
  <1>2. last \in Places /\ k < last /\ last < t.m_cp_count
    BY <1>1, Numbers
  <1>3. moved \in Instances /\ t.m_map[moved] = last
    BY <1>2 DEF Good, NoGaps
  <1>4. moved # i
    BY <1>2, <1>3, <1>1, Numbers
  <1>5. t.m_unmap[last] = moved
    BY <1>2 DEF MoveIsDefined, Good, UnmapIsDataOrNull
  <1>6. last # k
    BY <1>1, <1>2, Numbers
  <1>7. s_rem_cp(t, i) =
          [registered |-> t.registered, m_cp_count |-> last,
           m_map |-> [[t.m_map EXCEPT ![i] = NULL] EXCEPT ![moved] = k],
           m_unmap |-> [t.m_unmap EXCEPT ![k] = NULL],
           m_cp_data |-> [[t.m_cp_data EXCEPT ![k] = moved] EXCEPT ![last] = NULL]]
    <2> DEFINE removed == [t EXCEPT !.m_map[i] = NULL, !.m_unmap[k] = NULL,
                                    !.m_cp_count = last]
    <2>1. s_rem_cp(t, i) = [Moved(removed, k, last) EXCEPT !.m_cp_data[last] = NULL]
      BY <1>2 DEF s_rem_cp
    <2>2. removed = [registered |-> t.registered, m_cp_count |-> last,
                     m_map |-> [t.m_map EXCEPT ![i] = NULL],
                     m_unmap |-> [t.m_unmap EXCEPT ![k] = NULL],
                     m_cp_data |-> t.m_cp_data]
      BY <1>1, RemovedMembers
    <2>3. removed.m_unmap[last] = moved
      BY <2>2, <1>2, <1>5, <1>6 DEF Good, TypeRecord
    <2>4. Moved(removed, k, last) =
            [removed EXCEPT !.m_map[moved] = k, !.m_cp_data[k] = removed.m_cp_data[last]]
      BY <2>3 DEF Moved
    <2> HIDE DEF removed
    <2>5. Moved(removed, k, last) =
            [registered |-> t.registered, m_cp_count |-> last,
             m_map |-> [[t.m_map EXCEPT ![i] = NULL] EXCEPT ![moved] = k],
             m_unmap |-> [t.m_unmap EXCEPT ![k] = NULL],
             m_cp_data |-> [t.m_cp_data EXCEPT ![k] = moved]]
      BY <2>2, <2>4
    <2> QED BY <2>1, <2>5
  <1> QED BY <1>1, <1>2, <1>3, <1>4, <1>7

\* Removing a component takes it from its instance and from no other one.
LEMMA RemoveGood ==
  ASSUME StorageBounds, NEW t, Good(t), NEW i \in Instances,
         t.m_map[i] # NULL, MoveIsDefined(t, i)
  PROVE  LET r == s_rem_cp(t, i)
         IN  /\ Good(r)
             /\ r.registered = t.registered
             /\ \A j \in Instances : r.m_map[j] = NULL <=> t.m_map[j] = NULL \/ j = i
  <1> DEFINE r == s_rem_cp(t, i)
             k == t.m_map[i]
             last == t.m_cp_count - 1
  <1>1. k \in Places /\ k < t.m_cp_count /\ t.m_cp_count \in 0..N /\ t.m_cp_data[k] = i
    BY DEF Good, TypeRecord, MapLeadsToData
  <1>2. last \in 0..N /\ last \in Places
    BY <1>1, Numbers
  <1>3. CASE k = last
    <2>1. r = [registered |-> t.registered, m_cp_count |-> last,
               m_map |-> [t.m_map EXCEPT ![i] = NULL],
               m_unmap |-> [t.m_unmap EXCEPT ![k] = NULL],
               m_cp_data |-> [t.m_cp_data EXCEPT ![last] = NULL]]
      BY <1>3, RemoveLast
    <2>2. r \in TypeRecord
      BY <2>1, <1>1, <1>2 DEF Good, TypeRecord
    <2>3. MapLeadsToData(r)
      BY <2>1, <1>1, <1>2, <1>3, Numbers DEF Good, TypeRecord, MapLeadsToData
    <2>4. NoGaps(r)
      BY <2>1, <1>1, <1>2, <1>3, Numbers DEF Good, TypeRecord, NoGaps
    <2>5. UnmapIsDataOrNull(r)
      BY <2>1, <1>1, <1>2, <1>3, Numbers, SMTT(60) DEF Good, TypeRecord, UnmapIsDataOrNull
    <2>6. \A j \in Instances : r.m_map[j] = NULL <=> t.m_map[j] = NULL \/ j = i
      BY <2>1 DEF Good, TypeRecord
    <2> QED BY <2>1, <2>2, <2>3, <2>4, <2>5, <2>6 DEF Good
  <1>4. CASE k # last
    <2> DEFINE moved == t.m_cp_data[last]
    <2>1. /\ k < last /\ moved \in Instances /\ moved # i /\ t.m_map[moved] = last
          /\ r = [registered |-> t.registered, m_cp_count |-> last,
                  m_map |-> [[t.m_map EXCEPT ![i] = NULL] EXCEPT ![moved] = k],
                  m_unmap |-> [t.m_unmap EXCEPT ![k] = NULL],
                  m_cp_data |-> [[t.m_cp_data EXCEPT ![k] = moved] EXCEPT ![last] = NULL]]
      BY <1>4, RemoveMoves
    <2> HIDE DEF moved
    <2>2. r \in TypeRecord
      BY <2>1, <1>1, <1>2 DEF Good, TypeRecord
    <2>3. /\ r.m_cp_count = last
          /\ r.m_map[i] = NULL /\ r.m_map[moved] = k
          /\ \A j \in Instances \ {i, moved} : r.m_map[j] = t.m_map[j]
          /\ r.m_unmap[k] = NULL
          /\ \A p \in Places \ {k} : r.m_unmap[p] = t.m_unmap[p]
          /\ r.m_cp_data[k] = moved
          /\ \A p \in Places \ {k, last} : r.m_cp_data[p] = t.m_cp_data[p]
      BY <2>1, <1>1, <1>2, <1>4 DEF Good, TypeRecord
    <2>4. moved = t.m_cp_data[last]
      BY DEF moved
    <2> HIDE DEF r
    <2>5. MapLeadsToData(r)
      <3> SUFFICES ASSUME NEW j \in Instances, r.m_map[j] # NULL
                   PROVE  r.m_map[j] < last /\ r.m_cp_data[r.m_map[j]] = j
        BY <2>3 DEF MapLeadsToData
      <3>1. CASE j = moved
        BY <3>1, <2>1, <2>3
      <3>2. CASE j # moved
        <4>1. j # i /\ r.m_map[j] = t.m_map[j]
          BY <3>2, <2>3
        <4>2. t.m_map[j] \in Places /\ t.m_map[j] < t.m_cp_count /\ t.m_cp_data[t.m_map[j]] = j
          BY <4>1 DEF Good, TypeRecord, MapLeadsToData
        <4>3. t.m_map[j] # k /\ t.m_map[j] # last
          BY <4>1, <4>2, <3>2, <1>1, <2>4
        <4>4. t.m_map[j] < last
          BY <4>2, <4>3, <1>1, Numbers
        <4> QED BY <4>1, <4>2, <4>3, <4>4, <2>3
      <3> QED BY <3>1, <3>2
    <2>6. NoGaps(r)
      <3> SUFFICES ASSUME NEW p \in Places, p < last
                   PROVE  r.m_cp_data[p] \in Instances /\ r.m_map[r.m_cp_data[p]] = p
        BY <2>3 DEF NoGaps
      <3>1. CASE p = k
        BY <3>1, <2>1, <2>3
      <3>2. CASE p # k
        <4>1. p < t.m_cp_count /\ p # last
          BY <1>1, Numbers
        <4>2. r.m_cp_data[p] = t.m_cp_data[p]
          BY <3>2, <4>1, <2>3
        <4>3. t.m_cp_data[p] \in Instances /\ t.m_map[t.m_cp_data[p]] = p
          BY <4>1 DEF Good, NoGaps
        <4>4. t.m_cp_data[p] # i /\ t.m_cp_data[p] # moved
          BY <4>1, <4>3, <3>2, <2>1
        <4> QED BY <4>2, <4>3, <4>4, <2>3
      <3> QED BY <3>1, <3>2
    <2>7. UnmapIsDataOrNull(r)
      <3> SUFFICES ASSUME NEW p \in Places, p < last, p # k
                   PROVE  r.m_unmap[p] = NULL \/ r.m_unmap[p] = r.m_cp_data[p]
        BY <2>3 DEF UnmapIsDataOrNull
      <3>1. p < t.m_cp_count /\ p # last
        BY <1>1, Numbers
      <3> QED BY <3>1, <2>3 DEF Good, UnmapIsDataOrNull
    <2>8. \A j \in Instances : r.m_map[j] = NULL <=> t.m_map[j] = NULL \/ j = i
      BY <2>1, <2>3, <1>1, <1>2, Numbers, SMTT(60)
    <2>9. r.registered = t.registered
      BY <2>1 DEF r
    <2> QED BY <2>2, <2>5, <2>6, <2>7, <2>8, <2>9 DEF Good, r
  <1> QED BY <1>3, <1>4

-----------------------------------------------------------------------------
(* The inductive invariant                                                 *)

SelfRecord ==
  [m_object_state : SUBSET Instances, occupancy : SUBSET (Instances \X Components),
   tags : SUBSET (Instances \X Tags), m_a_component : [Components -> TypeRecord]]

TypesAreGood == \A c \in Components : Good(self.m_a_component[c])

\* An instance that is not in use has at most its Main left in the maps.
DestroyedIsEmpty ==
  \A c \in Components \ {Main}, i \in Instances \ self.m_object_state :
    self.m_a_component[c].m_map[i] = NULL

\* A handle is the place of the instance's Main, which never moves.
HandlesLead ==
  /\ DOMAIN handles = self.m_object_state
  /\ \A i \in self.m_object_state :
       /\ self.m_a_component[Main].m_map[i] # NULL
       /\ handles[i] = self.m_a_component[Main].m_map[i]

IInv ==
  /\ self \in SelfRecord
  /\ TypesAreGood
  /\ UnmapIsData(self.m_a_component[Main])
  /\ DestroyedIsEmpty
  /\ HandlesLead

LEMMA HandleOfInstance ==
  ASSUME StorageBounds, IInv, NEW i \in Alive
  PROVE  i \in Instances /\ InstanceOf(handles[i]) = i
  <1> DEFINE t == self.m_a_component[Main]
             k == t.m_map[i]
  <1>1. i \in Instances /\ Good(t) /\ UnmapIsData(t) /\ k # NULL /\ handles[i] = k
    BY DEF IInv, SelfRecord, TypesAreGood, HandlesLead, Alive, StorageBounds
  <1>2. k \in Places /\ k < t.m_cp_count /\ t.m_cp_data[k] = i
    BY <1>1 DEF Good, TypeRecord, MapLeadsToData
  <1>3. t.m_unmap[k] = i
    BY <1>1, <1>2 DEF UnmapIsData
  <1> QED BY <1>1, <1>3 DEF InstanceOf, s_instance_index, Type

\* So the instance of a call is one in use, and no other one has its handle.
LEMMA InstanceOfHandle ==
  ASSUME StorageBounds, IInv, NEW h \in Handles
  PROVE  /\ InstanceOf(h) \in Alive /\ InstanceOf(h) \in Instances
         /\ \A j \in Alive : handles[j] = h <=> j = InstanceOf(h)
  <1>1. PICK i \in Alive : h = handles[i]
    BY DEF Handles, IInv, HandlesLead, Alive
  <1> QED BY <1>1, HandleOfInstance

-----------------------------------------------------------------------------
(* The actions: each keeps the invariant and is a step of ComponentRelation *)

\* A step that changes one component type.
LEMMA TypeChanged ==
  ASSUME StorageBounds, IInv, NEW c \in Components, NEW r, Good(r),
         c = Main => UnmapIsData(r),
         self' \in SelfRecord,
         self'.m_a_component = [self.m_a_component EXCEPT ![c] = r]
  PROVE  /\ TypesAreGood'
         /\ UnmapIsData(self'.m_a_component[Main])
  <1>1. self.m_a_component \in [Components -> TypeRecord]
    BY DEF IInv, SelfRecord
  <1>2. \A d \in Components : Good(self'.m_a_component[d])
    BY <1>1 DEF IInv, TypesAreGood
  <1>3. UnmapIsData(self'.m_a_component[Main])
    BY <1>1 DEF IInv, StorageBounds
  <1> QED BY <1>2, <1>3 DEF TypesAreGood

LEMMA InitStep == ASSUME StorageBounds PROVE Init => IInv /\ Relation!Init
  <1> SUFFICES ASSUME Init PROVE IInv /\ Relation!Init
    OBVIOUS
  <1>1. Unregistered \in TypeRecord /\ Good(Unregistered) /\ UnmapIsData(Unregistered)
    BY UnregisteredIsGood DEF Good
  <1>2. /\ self \in SelfRecord
        /\ self.m_object_state = {} /\ self.tags = {}
        /\ \A c \in Components : self.m_a_component[c] = Unregistered
    BY <1>1 DEF Init, Created, SelfRecord
  <1>3. TypesAreGood /\ UnmapIsData(self.m_a_component[Main])
    BY <1>1, <1>2 DEF TypesAreGood, StorageBounds
  <1>4. DestroyedIsEmpty
    BY <1>2 DEF DestroyedIsEmpty, Unregistered
  <1>5. HandlesLead
    BY <1>2 DEF HandlesLead, Init
  <1>6. Alive = {} /\ Has = {} /\ Tagged = {}
    BY <1>2 DEF Alive, Has, Tagged
  <1> QED BY <1>2, <1>3, <1>4, <1>5, <1>6 DEF IInv, Relation!Init

LEMMA TeardownStep == ASSUME StorageBounds, IInv, teardown PROVE IInv' /\ Relation!Clear
  <1>1. Unregistered \in TypeRecord /\ Good(Unregistered) /\ UnmapIsData(Unregistered)
    BY UnregisteredIsGood DEF Good
  <1>2. /\ self' \in SelfRecord
        /\ self'.m_object_state = {} /\ self'.tags = {}
        /\ \A c \in Components : self'.m_a_component[c] = Unregistered
    BY <1>1 DEF teardown, Created, SelfRecord
  <1>3. TypesAreGood' /\ UnmapIsData(self'.m_a_component[Main])
    BY <1>1, <1>2 DEF TypesAreGood, StorageBounds
  <1>4. DestroyedIsEmpty'
    BY <1>2 DEF DestroyedIsEmpty, Unregistered
  <1>5. HandlesLead'
    BY <1>2 DEF HandlesLead, teardown
  <1>6. Alive' = {} /\ Has' = {} /\ Tagged' = {}
    BY <1>2 DEF Alive, Has, Tagged
  <1> QED BY <1>2, <1>3, <1>4, <1>5, <1>6 DEF IInv, Relation!Clear

LEMMA RegisterStep ==
  ASSUME StorageBounds, IInv, NEW c \in Components, register_component(c)
  PROVE  IInv' /\ UNCHANGED <<Alive, Has, Tagged>>
  <1> DEFINE t == self.m_a_component[c]
             r == [t EXCEPT !.registered = TRUE]
  <1>1. t \in TypeRecord /\ Good(t)
    BY DEF IInv, SelfRecord, TypesAreGood
  <1>2. /\ r \in TypeRecord /\ r.m_cp_count = t.m_cp_count /\ r.m_map = t.m_map
        /\ r.m_unmap = t.m_unmap /\ r.m_cp_data = t.m_cp_data
    BY <1>1 DEF TypeRecord
  <1>3. /\ self'.m_a_component = [self.m_a_component EXCEPT ![c] = r]
        /\ self'.m_object_state = self.m_object_state
        /\ self'.tags = self.tags
        /\ self' \in SelfRecord
        /\ handles' = handles
    BY <1>2 DEF register_component, IInv, SelfRecord
  <1> HIDE DEF r
  <1>4. Good(r) /\ (UnmapIsData(t) => UnmapIsData(r))
    BY <1>1, <1>2 DEF Good, MapLeadsToData, NoGaps, UnmapIsDataOrNull, UnmapIsData
  <1>5. TypesAreGood' /\ UnmapIsData(self'.m_a_component[Main])
    <2>1. c = Main => UnmapIsData(r)
      BY <1>4 DEF IInv
    <2> QED BY <1>3, <1>4, <2>1, TypeChanged
  <1>6. \A d \in Components : self'.m_a_component[d].m_map = self.m_a_component[d].m_map
    BY <1>2, <1>3 DEF IInv, SelfRecord
  <1>7. DestroyedIsEmpty' /\ HandlesLead'
    BY <1>3, <1>6 DEF IInv, DestroyedIsEmpty, HandlesLead, StorageBounds
  <1>8. UNCHANGED <<Alive, Has, Tagged>>
    BY <1>3, <1>6 DEF Alive, Has, Tagged, Type
  <1> QED BY <1>3, <1>5, <1>7, <1>8 DEF IInv

\* add_cp and create_instance both give the instance i a component.
LEMMA ComponentAdded ==
  ASSUME StorageBounds, IInv, NEW c \in Components, NEW i \in Instances,
         self'.m_a_component = [self.m_a_component EXCEPT ![c] = s_add_cp(Type(c), i)],
         self' \in SelfRecord
  PROVE  /\ TypesAreGood' /\ UnmapIsData(self'.m_a_component[Main])
         /\ \A d \in Components, j \in Instances :
              (d # c \/ j # i) => self'.m_a_component[d].m_map[j] = Type(d).m_map[j]
         /\ self'.m_a_component[c].m_map[i] = PlaceFor(Type(c), i)
         /\ PlaceFor(Type(c), i) # NULL
  <1> DEFINE t == self.m_a_component[c]
             r == s_add_cp(t, i)
  <1>1. Good(t) /\ t \in TypeRecord /\ (c = Main => UnmapIsData(t))
    BY DEF IInv, TypesAreGood, Good
  <1>2. /\ Good(r) /\ (UnmapIsData(t) => UnmapIsData(r))
        /\ r.m_map = [t.m_map EXCEPT ![i] = PlaceFor(t, i)]
        /\ PlaceFor(t, i) # NULL
    BY <1>1, AddGood
  <1>3. self'.m_a_component = [self.m_a_component EXCEPT ![c] = r]
    BY DEF Type
  <1> HIDE DEF r
  <1>4. TypesAreGood' /\ UnmapIsData(self'.m_a_component[Main])
    BY <1>1, <1>2, <1>3, TypeChanged
  <1>5. /\ self'.m_a_component[c] = r
        /\ \A d \in Components \ {c} : self'.m_a_component[d] = self.m_a_component[d]
    BY <1>3 DEF IInv, SelfRecord
  <1>6. /\ r.m_map[i] = PlaceFor(t, i)
        /\ \A j \in Instances \ {i} : r.m_map[j] = t.m_map[j]
    BY <1>1, <1>2 DEF TypeRecord
  <1> QED BY <1>2, <1>4, <1>5, <1>6 DEF Type

LEMMA AddStep ==
  ASSUME StorageBounds, IInv, NEW h \in Handles, NEW c \in Components, add_cp(h, c)
  PROVE  IInv' /\ Relation!Add(InstanceOf(h), c)
  <1> DEFINE i == InstanceOf(h)
  <1>1. i \in Alive /\ i \in Instances
    BY InstanceOfHandle
  <1> HIDE DEF i
  <1>2. /\ self' = [self EXCEPT !.m_a_component[c] = s_add_cp(@, i),
                                !.occupancy = OccupancyAfterAdd(self, c, i)]
        /\ handles' = handles
    BY DEF add_cp, i
  <1>3. /\ s_add_cp(Type(c), i) \in TypeRecord
        /\ OccupancyAfterAdd(self, c, i) \in SUBSET (Instances \X Components)
    <2>1. Good(Type(c)) /\ self.occupancy \in SUBSET (Instances \X Components)
      BY DEF IInv, SelfRecord, TypesAreGood, Type
    <2>2. Good(s_add_cp(Type(c), i))
      BY <1>1, <2>1, AddGood
    <2>3. OccupancyAfterAdd(self, c, i) \in SUBSET (Instances \X Components)
      BY <1>1, <2>1 DEF OccupancyAfterAdd
    <2> QED BY <2>2, <2>3 DEF Good
  <1>4. /\ self'.m_a_component = [self.m_a_component EXCEPT ![c] = s_add_cp(Type(c), i)]
        /\ self'.m_object_state = self.m_object_state
        /\ self'.tags = self.tags
        /\ self' \in SelfRecord
    BY <1>2, <1>3 DEF IInv, SelfRecord, Type
  <1>5. /\ TypesAreGood' /\ UnmapIsData(self'.m_a_component[Main])
        /\ \A d \in Components, j \in Instances :
             (d # c \/ j # i) => self'.m_a_component[d].m_map[j] = Type(d).m_map[j]
        /\ self'.m_a_component[c].m_map[i] = PlaceFor(Type(c), i)
        /\ PlaceFor(Type(c), i) # NULL
    BY <1>1, <1>4, ComponentAdded
  <1>6. DestroyedIsEmpty'
    BY <1>1, <1>4, <1>5 DEF IInv, DestroyedIsEmpty, Alive, Type
  <1>7. \A j \in Alive : self'.m_a_component[Main].m_map[j] = Type(Main).m_map[j]
    <2> SUFFICES ASSUME NEW j \in Alive
                 PROVE  self'.m_a_component[Main].m_map[j] = Type(Main).m_map[j]
      OBVIOUS
    <2>1. j \in Instances /\ Main \in Components /\ Type(Main).m_map[j] # NULL
      BY DEF IInv, SelfRecord, Alive, StorageBounds, HandlesLead, Type
    <2>2. CASE Main = c /\ j = i
      BY <2>1, <2>2, <1>5 DEF PlaceFor
    <2>3. CASE ~(Main = c /\ j = i)
      BY <2>1, <2>3, <1>5
    <2> QED BY <2>2, <2>3
  <1>8. HandlesLead'
    BY <1>2, <1>4, <1>7 DEF IInv, HandlesLead, Alive, Type
  <1>9. IInv'
    BY <1>4, <1>5, <1>6, <1>8 DEF IInv
  <1>10. Alive' = Alive /\ Tagged' = Tagged
    BY <1>4 DEF Alive, Tagged
  <1>11. Has' = Has \cup {<<i, c>>}
    BY <1>1, <1>4, <1>5 DEF Has, Alive, Type, IInv, SelfRecord
  <1> QED BY <1>1, <1>9, <1>10, <1>11 DEF Relation!Add, i

LEMMA RemoveStep ==
  ASSUME StorageBounds, IInv, NEW h \in Handles, NEW c \in Components, rem_cp(h, c)
  PROVE  IInv' /\ Relation!Remove(InstanceOf(h), c)
  <1> DEFINE i == InstanceOf(h)
             t == self.m_a_component[c]
  <1>1. i \in Alive /\ i \in Instances
    BY InstanceOfHandle
  <1>2. t \in TypeRecord /\ Good(t)
    BY DEF IInv, SelfRecord, TypesAreGood
  <1> HIDE DEF i
  <1>3. CASE t.m_map[i] = NULL
    <2>1. self' = self /\ handles' = handles
      BY <1>3 DEF rem_cp, Type, i
    <2>2. IInv' /\ Alive' = Alive /\ Has' = Has /\ Tagged' = Tagged
      BY <2>1 DEF IInv, SelfRecord, TypesAreGood, DestroyedIsEmpty, HandlesLead, Alive, Has,
                  Tagged, Type
    <2>3. Has \ {<<i, c>>} = Has
      BY <1>3 DEF Has, Type
    <2> QED BY <1>1, <2>2, <2>3 DEF Relation!Remove, i
  <1>4. CASE t.m_map[i] # NULL
    <2> DEFINE r == s_rem_cp(t, i)
    <2>1. /\ c # Main /\ MoveIsDefined(t, i) /\ handles' = handles
          /\ self' = [self EXCEPT !.m_a_component[c] = s_rem_cp(@, i),
                                  !.occupancy = @ \ {<<i, c>>}]
      BY <1>4 DEF rem_cp, Type, i
    <2>2. /\ Good(r) /\ r \in TypeRecord
          /\ \A j \in Instances : r.m_map[j] = NULL <=> t.m_map[j] = NULL \/ j = i
      BY <1>1, <1>2, <1>4, <2>1, RemoveGood DEF Good
    <2>3. /\ self'.m_a_component = [self.m_a_component EXCEPT ![c] = r]
          /\ self'.m_object_state = self.m_object_state
          /\ self'.tags = self.tags
          /\ self' \in SelfRecord
      BY <2>1, <2>2 DEF IInv, SelfRecord
    <2> HIDE DEF r
    <2>4. TypesAreGood' /\ UnmapIsData(self'.m_a_component[Main])
      BY <2>1, <2>2, <2>3, TypeChanged
    <2>5. /\ self'.m_a_component[c] = r
          /\ \A d \in Components \ {c} : self'.m_a_component[d] = self.m_a_component[d]
      BY <2>3 DEF IInv, SelfRecord
    <2>6. DestroyedIsEmpty'
      BY <2>2, <2>3, <2>5 DEF IInv, DestroyedIsEmpty
    <2>7. HandlesLead'
      BY <2>1, <2>3, <2>5 DEF IInv, HandlesLead, StorageBounds
    <2>8. Alive' = Alive /\ Tagged' = Tagged
      BY <2>3 DEF Alive, Tagged
    <2>9. Has' = Has \ {<<i, c>>}
      BY <2>2, <2>3, <2>5 DEF Has, Alive, Type, IInv, SelfRecord
    <2> QED BY <1>1, <2>3, <2>4, <2>6, <2>7, <2>8, <2>9 DEF IInv, Relation!Remove, i
  <1> QED BY <1>3, <1>4

LEMMA CreateStep ==
  ASSUME StorageBounds, IInv, create_instance
  PROVE  IInv' /\ \E i \in Instances : Relation!Create(i)
  <1> DEFINE S(i) == Cleared([self EXCEPT !.m_object_state = @ \cup {i}], i)
             O(i) == OccupancyAfterAdd(S(i), Main, i)
  <1>1. PICK i \in Instances \ Alive :
          /\ self' = [S(i) EXCEPT !.m_a_component[Main] = s_add_cp(@, i), !.occupancy = O(i)]
          /\ handles' = [j \in DOMAIN handles \cup {i} |->
                           IF j = i THEN PlaceFor(Type(Main), i) ELSE handles[j]]
    BY DEF create_instance
  <1>2. /\ S(i).m_object_state = Alive \cup {i}
        /\ S(i).m_a_component = self.m_a_component
        /\ S(i).tags = {p \in self.tags : p[1] # i}
        /\ S(i) \in SelfRecord
    BY DEF Cleared, IInv, SelfRecord, Alive
  <1>3. Main \in Components /\ Good(Type(Main))
    BY DEF IInv, TypesAreGood, Type, StorageBounds
  <1>4. s_add_cp(Type(Main), i) \in TypeRecord
    BY <1>3, AddGood DEF Good
  <1>5. O(i) \in SUBSET (Instances \X Components)
    <2>1. S(i).occupancy \in SUBSET (Instances \X Components)
      BY <1>2 DEF SelfRecord
    <2>2. O(i) \in {S(i).occupancy, S(i).occupancy \cup {<<i, Main>>}}
      BY DEF OccupancyAfterAdd
    <2> HIDE DEF O, S
    <2> QED BY <1>3, <2>1, <2>2
  <1> HIDE DEF S, O
  <1>6. /\ self'.m_a_component = [self.m_a_component EXCEPT ![Main] = s_add_cp(Type(Main), i)]
        /\ self'.m_object_state = Alive \cup {i}
        /\ self'.tags = {p \in self.tags : p[1] # i}
        /\ self' \in SelfRecord
    BY <1>1, <1>2, <1>4, <1>5 DEF SelfRecord, Type
  <1>7. /\ TypesAreGood' /\ UnmapIsData(self'.m_a_component[Main])
        /\ \A d \in Components, j \in Instances :
             (d # Main \/ j # i) => self'.m_a_component[d].m_map[j] = Type(d).m_map[j]
        /\ self'.m_a_component[Main].m_map[i] = PlaceFor(Type(Main), i)
        /\ PlaceFor(Type(Main), i) # NULL
    BY <1>3, <1>6, ComponentAdded
  <1>8. DestroyedIsEmpty'
    BY <1>6, <1>7 DEF IInv, DestroyedIsEmpty, Alive, Type
  <1>9. HandlesLead'
    BY <1>1, <1>3, <1>6, <1>7 DEF IInv, SelfRecord, HandlesLead, Alive, Type
  <1>10. IInv'
    BY <1>6, <1>7, <1>8, <1>9 DEF IInv
  <1>11. Alive' = Alive \cup {i}
    BY <1>6 DEF Alive
  <1>12. Tagged' = Tagged
    BY <1>6, <1>11 DEF Tagged
  <1>13. Has' = Has \cup {<<i, Main>>}
    BY <1>3, <1>7, <1>11 DEF Has, Alive, Type, IInv, SelfRecord, DestroyedIsEmpty
  <1> QED BY <1>3, <1>10, <1>11, <1>12, <1>13 DEF Relation!Create

LEMMA DestroyStep ==
  ASSUME StorageBounds, IInv, NEW h \in Handles, destroy_instance(h)
  PROVE  IInv' /\ Relation!Destroy(InstanceOf(h))
  <1> DEFINE i == InstanceOf(h)
  <1>1. /\ i \in Alive /\ i \in Instances
        /\ \A j \in Alive : handles[j] = h <=> j = i
    BY InstanceOfHandle
  <1> HIDE DEF i
  <1>2. /\ \A c \in Components \ {Main} : Type(c).m_map[i] = NULL
        /\ self' = [self EXCEPT !.m_object_state = @ \ {i}]
        /\ handles' = [j \in {j \in DOMAIN handles : handles[j] # h} |-> handles[j]]
    BY DEF destroy_instance, i
  <1>3. /\ self' \in SelfRecord
        /\ self'.m_object_state = Alive \ {i}
        /\ self'.tags = self.tags
        /\ self'.m_a_component = self.m_a_component
    BY <1>2 DEF IInv, SelfRecord, Alive
  <1>4. TypesAreGood' /\ UnmapIsData(self'.m_a_component[Main])
    BY <1>3 DEF IInv, TypesAreGood
  <1>5. DestroyedIsEmpty'
    BY <1>2, <1>3 DEF IInv, DestroyedIsEmpty, Alive, Type
  <1>6. HandlesLead'
    BY <1>1, <1>2, <1>3 DEF IInv, HandlesLead, Alive
  <1>7. Alive' = Alive \ {i}
    BY <1>3 DEF Alive
  <1>8. Has' = Has \ Relation!Of(i, Has) /\ Tagged' = Tagged \ Relation!Of(i, Tagged)
    BY <1>3, <1>7 DEF Has, Tagged, Relation!Of, Type
  <1> QED BY <1>1, <1>3, <1>4, <1>5, <1>6, <1>7, <1>8 DEF IInv, Relation!Destroy, i

LEMMA TagStep ==
  ASSUME StorageBounds, IInv, NEW h \in Handles, NEW t \in Tags,
         add_tag(h, t) \/ rem_tag(h, t)
  PROVE  IInv' /\ (Relation!AddTag(InstanceOf(h), t) \/ Relation!RemoveTag(InstanceOf(h), t))
  <1> DEFINE i == InstanceOf(h)
  <1>1. i \in Alive /\ i \in Instances
    BY InstanceOfHandle
  <1> HIDE DEF i
  <1>2. /\ self' \in SelfRecord
        /\ self'.m_object_state = self.m_object_state
        /\ self'.m_a_component = self.m_a_component
        /\ self'.tags = self.tags \cup {<<i, t>>} \/ self'.tags = self.tags \ {<<i, t>>}
        /\ handles' = handles
    BY <1>1 DEF add_tag, rem_tag, IInv, SelfRecord, i
  <1>3. IInv'
    BY <1>2 DEF IInv, TypesAreGood, DestroyedIsEmpty, HandlesLead
  <1>4. Alive' = Alive /\ Has' = Has
    BY <1>2 DEF Alive, Has, Type
  <1>5. Tagged' = Tagged \cup {<<i, t>>} \/ Tagged' = Tagged \ {<<i, t>>}
    BY <1>1, <1>2, <1>4 DEF Tagged
  <1> QED BY <1>1, <1>3, <1>4, <1>5 DEF Relation!AddTag, Relation!RemoveTag, i

LEMMA NextStep ==
  ASSUME StorageBounds, IInv, [Next]_vars
  PROVE  IInv' /\ [Relation!Next]_<<Alive, Has, Tagged>>
  <1>1. CASE teardown
    BY <1>1, TeardownStep DEF Relation!Next
  <1>2. ASSUME NEW c \in Components, register_component(c)
        PROVE  IInv' /\ [Relation!Next]_<<Alive, Has, Tagged>>
    BY <1>2, RegisterStep
  <1>3. CASE create_instance
    BY <1>3, CreateStep DEF Relation!Next
  <1>4. ASSUME NEW h \in Handles, destroy_instance(h)
        PROVE  IInv' /\ [Relation!Next]_<<Alive, Has, Tagged>>
    BY <1>4, DestroyStep, InstanceOfHandle DEF Relation!Next
  <1>5. ASSUME NEW h \in Handles, NEW c \in Components, add_cp(h, c)
        PROVE  IInv' /\ [Relation!Next]_<<Alive, Has, Tagged>>
    BY <1>5, AddStep, InstanceOfHandle DEF Relation!Next
  <1>6. ASSUME NEW h \in Handles, NEW c \in Components, rem_cp(h, c)
        PROVE  IInv' /\ [Relation!Next]_<<Alive, Has, Tagged>>
    BY <1>6, RemoveStep, InstanceOfHandle DEF Relation!Next
  <1>7. ASSUME NEW h \in Handles, NEW t \in Tags, add_tag(h, t) \/ rem_tag(h, t)
        PROVE  IInv' /\ [Relation!Next]_<<Alive, Has, Tagged>>
    BY <1>7, TagStep, InstanceOfHandle DEF Relation!Next
  <1>8. CASE UNCHANGED vars
    BY <1>8 DEF vars, IInv, TypesAreGood, DestroyedIsEmpty, HandlesLead, Alive, Has, Tagged, Type
  <1> QED BY <1>1, <1>2, <1>3, <1>4, <1>5, <1>6, <1>7, <1>8 DEF Next

LEMMA InvariantOfStorage == ASSUME StorageBounds PROVE Spec => []IInv
  <1>1. Init => IInv
    BY InitStep
  <1>2. IInv /\ [Next]_vars => IInv'
    BY NextStep
  <1> QED BY <1>1, <1>2, PTL DEF Spec

-----------------------------------------------------------------------------
(* The theorems                                                            *)

\* Over every sequence of moves a component of an instance has a place of its own
\* with what was written into it, and a handle leads to its instance
\* (s_add_cp, s_rem_cp and s_instance_index of c_allocator_cs.cpp).
THEOREM ComponentDataKept ==
  ASSUME StorageBounds
  PROVE  Spec => []DataKept
  <1>1. ASSUME IInv PROVE DataKept
    <2>1. ASSUME NEW p \in Has
          PROVE  /\ Type(p[2]).m_map[p[1]] < Type(p[2]).m_cp_count
                 /\ Type(p[2]).m_cp_data[Type(p[2]).m_map[p[1]]] = p[1]
      BY <1>1 DEF Has, Type, IInv, SelfRecord, Alive, TypesAreGood, Good, MapLeadsToData
    <2>2. DOMAIN handles = Alive
      BY <1>1 DEF IInv, HandlesLead, Alive
    <2>3. \A i \in DOMAIN handles : InstanceOf(handles[i]) = i
      BY <1>1, <2>2, HandleOfInstance
    <2> QED BY <2>1, <2>2, <2>3 DEF DataKept
  <1>2. IInv => DataKept
    BY <1>1
  <1> QED BY <1>2, InvariantOfStorage, PTL

\* The component storage implements the relation between instances, components and
\* tags: each call of cs_alloc_t changes the pairs of one instance and no others.
THEOREM ComponentsImplementRelation ==
  ASSUME StorageBounds
  PROVE  Spec => ImplementsRelation
  <1>1. Init => Relation!Init
    BY InitStep
  <1>2. IInv /\ [Next]_vars => [Relation!Next]_<<Alive, Has, Tagged>>
    BY NextStep
  <1> QED BY <1>1, <1>2, InvariantOfStorage, PTL DEF Spec, ImplementsRelation, Relation!Spec

-----------------------------------------------------------------------------
(* The storage of objects: one component type                              *)

ObjectBounds == Instances \subseteq Nat /\ ObjectPlaces \in Nat

ObjectType ==
  [registered : BOOLEAN, m_free_index : 0..ObjectPlaces,
   m_map : [Instances -> Ocs!Places \cup {Ocs!NULL}],
   m_unmap : [Ocs!Places -> Instances \cup {Ocs!NULL}],
   m_component_data : [Ocs!Places -> Instances \cup {Ocs!NULL}],
   m_occupancy : SUBSET Ocs!Places]

\* A component is at a place in use, which leads back to its object.
PlaceLeadsBack(t) ==
  \A i \in Instances :
    t.m_map[i] # Ocs!NULL => /\ t.m_map[i] \in t.m_occupancy
                             /\ t.m_component_data[t.m_map[i]] = i
                             /\ t.m_unmap[t.m_map[i]] = i

\* A place in use is one of an object.
PlaceHasObject(t) ==
  \A k \in t.m_occupancy : k < t.m_free_index /\ \E i \in Instances : t.m_map[i] = k

PlacesGood(t) ==
  /\ t \in ObjectType /\ PlaceLeadsBack(t) /\ PlaceHasObject(t)
  /\ ~t.registered => \A i \in Instances : t.m_map[i] = Ocs!NULL

LEMMA ObjectNumbers ==
  ASSUME ObjectBounds
  PROVE  /\ Ocs!Places = 0..ObjectPlaces - 1 /\ ObjectPlaces \in Nat
         /\ Ocs!NULL \notin Instances /\ Ocs!NULL \notin Ocs!Places
  BY DEF ObjectBounds, Ocs!Places, Ocs!NULL

LEMMA EmptyTypeIsGood ==
  ASSUME ObjectBounds, NEW t,
         t = Ocs!Unregistered \/ t = [Ocs!Unregistered EXCEPT !.registered = TRUE]
  PROVE  PlacesGood(t) /\ \A i \in Instances : t.m_map[i] = Ocs!NULL
  <1>1. Ocs!Unregistered \in ObjectType
    BY ObjectNumbers DEF ObjectType, Ocs!Unregistered
  <1>2. t \in ObjectType
    BY <1>1 DEF ObjectType
  <1>3. t.m_occupancy = {} /\ \A i \in Instances : t.m_map[i] = Ocs!NULL
    BY DEF Ocs!Unregistered
  <1> QED BY <1>2, <1>3 DEF PlacesGood, PlaceLeadsBack, PlaceHasObject

LEMMA WithFields ==
  ASSUME NEW t \in ObjectType, NEW f \in 0..ObjectPlaces, NEW O \in SUBSET Ocs!Places,
         NEW M \in [Instances -> Ocs!Places \cup {Ocs!NULL}],
         NEW U \in [Ocs!Places -> Instances \cup {Ocs!NULL}],
         NEW D \in [Ocs!Places -> Instances \cup {Ocs!NULL}]
  PROVE  [t EXCEPT !.m_free_index = f, !.m_occupancy = O, !.m_map = M, !.m_unmap = U,
                   !.m_component_data = D] \in ObjectType
  BY DEF ObjectType

LEMMA PlaceAdded ==
  ASSUME ObjectBounds, NEW t, PlacesGood(t), t.registered, NEW i \in Instances,
         t.m_map[i] = Ocs!NULL, NEW k \in Ocs!PlacesFor(t)
  PROVE  LET r == Ocs!g_add_cp(t, i, k)
         IN  PlacesGood(r) /\ r.m_map = [t.m_map EXCEPT ![i] = k] /\ k # Ocs!NULL
  <1>1. t \in ObjectType /\ PlaceLeadsBack(t) /\ PlaceHasObject(t)
    BY DEF PlacesGood
  <1>2. /\ k \in Ocs!Places /\ k \notin t.m_occupancy /\ k # Ocs!NULL
        /\ k <= t.m_free_index /\ t.m_free_index \in Nat /\ k \in Nat
    BY <1>1, ObjectNumbers DEF Ocs!PlacesFor, Ocs!FreePlaces, ObjectType, PlaceHasObject
  <1> DEFINE r == Ocs!g_add_cp(t, i, k)
             f == IF k = t.m_free_index THEN t.m_free_index + 1 ELSE t.m_free_index
  <1>3. f \in 0..ObjectPlaces /\ k < f /\ t.m_free_index <= f
    BY <1>1, <1>2, ObjectNumbers DEF ObjectType
  <1>4. /\ r.m_free_index = f /\ r.m_occupancy = t.m_occupancy \cup {k}
        /\ r.m_map = [t.m_map EXCEPT ![i] = k] /\ r.m_unmap = [t.m_unmap EXCEPT ![k] = i]
        /\ r.m_component_data = [t.m_component_data EXCEPT ![k] = i]
        /\ r.registered = t.registered
    BY <1>1 DEF Ocs!g_add_cp, ObjectType
  <1>5. r \in ObjectType
    <2>1. r = [t EXCEPT !.m_free_index = f,
                        !.m_occupancy = t.m_occupancy \cup {k},
                        !.m_map = [t.m_map EXCEPT ![i] = k],
                        !.m_unmap = [t.m_unmap EXCEPT ![k] = i],
                        !.m_component_data = [t.m_component_data EXCEPT ![k] = i]]
      BY DEF Ocs!g_add_cp
    <2> HIDE DEF r, f
    <2>2. /\ t.m_occupancy \cup {k} \in SUBSET Ocs!Places
          /\ [t.m_map EXCEPT ![i] = k] \in [Instances -> Ocs!Places \cup {Ocs!NULL}]
          /\ [t.m_unmap EXCEPT ![k] = i] \in [Ocs!Places -> Instances \cup {Ocs!NULL}]
          /\ [t.m_component_data EXCEPT ![k] = i] \in [Ocs!Places -> Instances \cup {Ocs!NULL}]
      BY <1>1, <1>2 DEF ObjectType
    <2> QED BY ONLY <1>1, <1>3, <2>1, <2>2, WithFields
  <1> HIDE DEF r, f
  <1>6. \A j \in Instances : /\ r.m_map[j] = IF j = i THEN k ELSE t.m_map[j]
                             /\ t.m_map[j] # k
    BY <1>1, <1>2, <1>4 DEF ObjectType, PlaceLeadsBack
  <1>7. \A l \in Ocs!Places : l # k => /\ r.m_unmap[l] = t.m_unmap[l]
                                       /\ r.m_component_data[l] = t.m_component_data[l]
    BY <1>1, <1>4 DEF ObjectType
  <1>8. r.m_unmap[k] = i /\ r.m_component_data[k] = i
    BY <1>1, <1>2, <1>4 DEF ObjectType
  <1>9. PlaceLeadsBack(r)
    BY <1>1, <1>4, <1>6, <1>7, <1>8 DEF PlaceLeadsBack, ObjectType
  <1>10. PlaceHasObject(r)
    <2> SUFFICES ASSUME NEW l \in r.m_occupancy
                 PROVE  l < r.m_free_index /\ \E j \in Instances : r.m_map[j] = l
      BY DEF PlaceHasObject
    <2>1. CASE l = k
      BY <1>3, <1>4, <1>6, <2>1
    <2>2. CASE l # k
      <3>1. l \in t.m_occupancy
        BY <1>4, <2>2
      <3>2. PICK j \in Instances : t.m_map[j] = l /\ l < t.m_free_index
        BY <1>1, <3>1 DEF PlaceHasObject
      <3>3. j # i /\ l \in Nat
        BY <1>1, <3>1, <3>2, ObjectNumbers DEF ObjectType
      <3>4. l < f
        BY <1>2, <1>3, <3>2, <3>3 DEF f
      <3> QED BY <1>4, <1>6, <3>2, <3>3, <3>4
    <2> QED BY <2>1, <2>2
  <1> QED BY <1>2, <1>4, <1>5, <1>9, <1>10 DEF PlacesGood, r

LEMMA PlaceRemoved ==
  ASSUME ObjectBounds, NEW t, PlacesGood(t), t.registered, NEW i \in Instances,
         t.m_map[i] # Ocs!NULL, Ocs!NoClobber(t, i)
  PROVE  LET r == Ocs!g_rem_cp(t, i)
         IN  PlacesGood(r) /\ r.m_map = [t.m_map EXCEPT ![i] = Ocs!NULL]
  <1>1. t \in ObjectType /\ PlaceLeadsBack(t) /\ PlaceHasObject(t)
    BY DEF PlacesGood
  <1>2. PICK k \in Ocs!Places :
          k = t.m_map[i] /\ k \in Instances /\ (k = i \/ t.m_map[k] = Ocs!NULL)
    BY <1>1 DEF Ocs!NoClobber, ObjectType
  <1> DEFINE r == Ocs!g_rem_cp(t, i)
  <1>3. [t.m_map EXCEPT ![i] = Ocs!NULL, ![k] = Ocs!NULL] = [t.m_map EXCEPT ![i] = Ocs!NULL]
    BY <1>1, <1>2 DEF ObjectType
  <1>4. /\ r.m_free_index = t.m_free_index /\ r.m_occupancy = t.m_occupancy \ {k}
        /\ r.m_map = [t.m_map EXCEPT ![i] = Ocs!NULL] /\ r.m_unmap = t.m_unmap
        /\ r.m_component_data = [t.m_component_data EXCEPT ![k] = Ocs!NULL]
        /\ r.registered = t.registered
    BY <1>1, <1>2, <1>3 DEF Ocs!g_rem_cp, ObjectType
  <1>5. r \in ObjectType
    <2>1. r = [t EXCEPT !.m_free_index = t.m_free_index,
                        !.m_occupancy = t.m_occupancy \ {k},
                        !.m_map = [t.m_map EXCEPT ![i] = Ocs!NULL],
                        !.m_unmap = t.m_unmap,
                        !.m_component_data = [t.m_component_data EXCEPT ![k] = Ocs!NULL]]
      BY <1>1, <1>2, <1>3 DEF Ocs!g_rem_cp, ObjectType
    <2> HIDE DEF r
    <2>2. /\ t.m_free_index \in 0..ObjectPlaces /\ t.m_occupancy \ {k} \in SUBSET Ocs!Places
          /\ [t.m_map EXCEPT ![i] = Ocs!NULL] \in [Instances -> Ocs!Places \cup {Ocs!NULL}]
          /\ t.m_unmap \in [Ocs!Places -> Instances \cup {Ocs!NULL}]
          /\ [t.m_component_data EXCEPT ![k] = Ocs!NULL] \in [Ocs!Places -> Instances \cup {Ocs!NULL}]
      BY <1>1, <1>2 DEF ObjectType
    <2> QED BY ONLY <1>1, <2>1, <2>2, WithFields
  <1> HIDE DEF r
  <1>6. \A j \in Instances : /\ r.m_map[j] = IF j = i THEN Ocs!NULL ELSE t.m_map[j]
                             /\ j # i => t.m_map[j] # k
    BY <1>1, <1>2, <1>4, ObjectNumbers DEF ObjectType, PlaceLeadsBack
  <1>7. \A l \in Ocs!Places : l # k => r.m_component_data[l] = t.m_component_data[l]
    BY <1>1, <1>4 DEF ObjectType
  <1>8. PlaceLeadsBack(r)
    BY <1>1, <1>4, <1>6, <1>7 DEF PlaceLeadsBack, ObjectType
  <1>9. PlaceHasObject(r)
    BY <1>1, <1>2, <1>4, <1>6 DEF PlaceHasObject
  <1> QED BY <1>4, <1>5, <1>8, <1>9 DEF PlacesGood, r

-----------------------------------------------------------------------------
(* The storage of objects: the whole                                       *)

ObjectRecord ==
  [m_object_state : SUBSET Instances, occupancy : SUBSET (Instances \X Components),
   tags : SUBSET (Instances \X Tags), m_a_component : [Components -> ObjectType]]

\* The client knows the objects in use; no other has a component, and the bits of an
\* object are those of its components.
ObjectsInv ==
  /\ object \in ObjectRecord /\ pointers = object.m_object_state
  /\ \A c \in Components : PlacesGood(object.m_a_component[c])
  /\ \A c \in Components, i \in Instances :
       object.m_a_component[c].m_map[i] # Ocs!NULL => i \in object.m_object_state
  /\ \A c \in Components, i \in object.m_object_state :
       object.m_a_component[c].m_map[i] # Ocs!NULL <=> <<i, c>> \in object.occupancy

LEMMA NoObjects ==
  ASSUME ObjectBounds
  PROVE  (Ocs!Init => ObjectsInv /\ Ocs!Relation!Init) /\ (Ocs!teardown => ObjectsInv' /\ Ocs!Relation!Clear)
  <1> DEFINE r == [m_object_state |-> {}, occupancy |-> {}, tags |-> {},
                   m_a_component |-> [c \in Components |-> Ocs!Unregistered]]
  <1>1. PlacesGood(Ocs!Unregistered) /\ \A i \in Instances : Ocs!Unregistered.m_map[i] = Ocs!NULL
    BY EmptyTypeIsGood
  <1>2. Ocs!Registered = r /\ r \in ObjectRecord
    BY <1>1 DEF Ocs!Registered, ObjectRecord, PlacesGood
  <1>3. ASSUME Ocs!Init PROVE ObjectsInv /\ Ocs!Relation!Init
    <2>1. object = r /\ pointers = {}
      BY <1>2, <1>3 DEF Ocs!Init
    <2>2. ObjectsInv
      BY <1>1, <1>2, <2>1 DEF ObjectsInv
    <2> QED BY <2>1, <2>2 DEF Ocs!Relation!Init, Ocs!Has, Ocs!Tagged, Ocs!Alive
  <1>4. ASSUME Ocs!teardown PROVE ObjectsInv' /\ Ocs!Relation!Clear
    <2>1. object' = r /\ pointers' = {}
      BY <1>2, <1>4 DEF Ocs!teardown
    <2>2. ObjectsInv'
      BY <1>1, <1>2, <2>1 DEF ObjectsInv
    <2> QED BY <2>1, <2>2 DEF Ocs!Relation!Clear, Ocs!Has, Ocs!Tagged, Ocs!Alive
  <1> QED BY <1>3, <1>4

\* A step that leaves the components as they are to every object.
LEMMA ObjectsStay ==
  ASSUME ObjectBounds, ObjectsInv, object' \in ObjectRecord, pointers' = object'.m_object_state,
         \A c \in Components : /\ PlacesGood(object'.m_a_component[c])
                               /\ object'.m_a_component[c].m_map = object.m_a_component[c].m_map,
         object'.m_object_state = object.m_object_state, object'.occupancy = object.occupancy
  PROVE  ObjectsInv' /\ Ocs!Alive' = Ocs!Alive /\ Ocs!Has' = Ocs!Has
  <1>1. ObjectsInv'
    BY DEF ObjectsInv
  <1> QED BY <1>1 DEF Ocs!Alive, Ocs!Has, Ocs!Type

LEMMA ObjectTypeRegistered ==
  ASSUME ObjectBounds, ObjectsInv, NEW c \in Components, Ocs!register_component(c)
  PROVE  ObjectsInv' /\ UNCHANGED <<Ocs!Alive, Ocs!Has, Ocs!Tagged>>
  <1> DEFINE t == object.m_a_component[c]
             r == IF t.registered THEN t ELSE [Ocs!Unregistered EXCEPT !.registered = TRUE]
  <1>1. object \in ObjectRecord /\ PlacesGood(t)
    BY DEF ObjectsInv
  <1>2. PlacesGood(r) /\ r \in ObjectType
    BY <1>1, EmptyTypeIsGood DEF PlacesGood
  <1>3. r.m_map = t.m_map
    <2>1. CASE t.registered
      BY <2>1
    <2>2. CASE ~t.registered
      <3>1. \A i \in Instances : r.m_map[i] = Ocs!NULL
        BY <2>2, EmptyTypeIsGood
      <3>2. \A i \in Instances : t.m_map[i] = Ocs!NULL
        BY <1>1, <2>2 DEF PlacesGood
      <3>3. DOMAIN r.m_map = Instances /\ DOMAIN t.m_map = Instances
        BY <1>1, <1>2 DEF PlacesGood, ObjectType
      <3>4. /\ r.m_map \in [Instances -> Ocs!Places \cup {Ocs!NULL}]
            /\ t.m_map \in [Instances -> Ocs!Places \cup {Ocs!NULL}]
        BY <1>1, <1>2 DEF PlacesGood, ObjectType
      <3> HIDE DEF r, t
      <3> QED BY <3>1, <3>2, <3>4
    <2> QED BY <2>1, <2>2
  <1>4. object' = [object EXCEPT !.m_a_component[c] = r] /\ pointers' = pointers
    BY DEF Ocs!register_component
  <1> HIDE DEF r
  <1>5. /\ object' \in ObjectRecord
        /\ object'.m_a_component = [object.m_a_component EXCEPT ![c] = r]
        /\ object'.m_object_state = object.m_object_state
        /\ object'.occupancy = object.occupancy /\ object'.tags = object.tags
    BY <1>1, <1>2, <1>4 DEF ObjectRecord
  <1>6. \A d \in Components : object'.m_a_component[d] = IF d = c THEN r ELSE object.m_a_component[d]
    BY <1>1, <1>5 DEF ObjectRecord
  <1>7. ObjectsInv' /\ Ocs!Alive' = Ocs!Alive /\ Ocs!Has' = Ocs!Has
    <2>1. \A d \in Components : /\ PlacesGood(object'.m_a_component[d])
                                /\ object'.m_a_component[d].m_map = object.m_a_component[d].m_map
      BY <1>2, <1>3, <1>6 DEF ObjectsInv
    <2>2. pointers' = object'.m_object_state
      BY <1>4, <1>5 DEF ObjectsInv
    <2> QED BY <1>5, <2>1, <2>2, ObjectsStay
  <1> QED BY <1>5, <1>7 DEF Ocs!Tagged, Ocs!Alive

LEMMA ObjectCreated ==
  ASSUME ObjectBounds, ObjectsInv, Ocs!create_object
  PROVE  ObjectsInv' /\ \E i \in Instances : Ocs!Relation!Create(i)
  <1>1. PICK i \in Instances \ object.m_object_state :
          /\ object' = [object EXCEPT !.m_object_state = @ \cup {i},
                                      !.occupancy = {p \in @ : p[1] # i},
                                      !.tags = {p \in object.tags : p[1] # i}]
          /\ pointers' = pointers \cup {i}
    BY DEF Ocs!create_object, Ocs!Alive, Ocs!Untagged
  <1>2. object \in ObjectRecord
    BY DEF ObjectsInv
  <1>3. /\ object'.m_object_state = object.m_object_state \cup {i}
        /\ object'.occupancy = {p \in object.occupancy : p[1] # i}
        /\ object'.tags = {p \in object.tags : p[1] # i}
        /\ object'.m_a_component = object.m_a_component
        /\ object' \in ObjectRecord
    BY <1>1, <1>2 DEF ObjectRecord
  <1>4. \A c \in Components : object.m_a_component[c].m_map[i] = Ocs!NULL
    BY <1>1 DEF ObjectsInv
  <1>5. ObjectsInv'
    <2>1. \A c \in Components, j \in object.m_object_state \cup {i} :
            object.m_a_component[c].m_map[j] # Ocs!NULL
              <=> <<j, c>> \in {p \in object.occupancy : p[1] # i}
      <3> SUFFICES ASSUME NEW c \in Components, NEW j \in object.m_object_state \cup {i}
                   PROVE  object.m_a_component[c].m_map[j] # Ocs!NULL
                            <=> <<j, c>> \in {p \in object.occupancy : p[1] # i}
        OBVIOUS
      <3>1. CASE j = i
        BY <1>4, <3>1
      <3>2. CASE j # i
        BY <3>2 DEF ObjectsInv
      <3> QED BY <3>1, <3>2
    <2> QED BY <1>1, <1>3, <2>1 DEF ObjectsInv
  <1>6. Ocs!Alive' = Ocs!Alive \cup {i} /\ i \notin Ocs!Alive
    BY <1>1, <1>3 DEF Ocs!Alive
  <1>7. Ocs!Tagged' = Ocs!Tagged
    BY <1>3, <1>6 DEF Ocs!Tagged
  <1>8. Ocs!Has' = Ocs!Has
    BY <1>3, <1>4, <1>6 DEF Ocs!Has, Ocs!Type
  <1> QED BY <1>5, <1>6, <1>7, <1>8 DEF Ocs!Relation!Create

LEMMA ObjectDestroyed ==
  ASSUME ObjectBounds, ObjectsInv, NEW i \in pointers, Ocs!destroy_object(i)
  PROVE  i \in Instances /\ ObjectsInv' /\ Ocs!Relation!Destroy(i)
  <1>1. object \in ObjectRecord /\ i \in object.m_object_state /\ i \in Instances
    BY DEF ObjectsInv, ObjectRecord
  <1>2. /\ \A c \in Components : object.m_a_component[c].m_map[i] = Ocs!NULL
        /\ object' = [object EXCEPT !.m_object_state = @ \ {i}]
        /\ pointers' = pointers \ {i}
    BY DEF Ocs!destroy_object, Ocs!Type
  <1>3. /\ object'.m_object_state = object.m_object_state \ {i}
        /\ object'.occupancy = object.occupancy /\ object'.tags = object.tags
        /\ object'.m_a_component = object.m_a_component
        /\ object' \in ObjectRecord
    BY <1>1, <1>2 DEF ObjectRecord
  <1>4. ObjectsInv'
    BY <1>2, <1>3 DEF ObjectsInv
  <1>5. Ocs!Alive' = Ocs!Alive \ {i} /\ i \in Ocs!Alive
    BY <1>1, <1>3 DEF Ocs!Alive
  <1>6. /\ Ocs!Has' = Ocs!Has \ Ocs!Relation!Of(i, Ocs!Has)
        /\ Ocs!Tagged' = Ocs!Tagged \ Ocs!Relation!Of(i, Ocs!Tagged)
    BY <1>3, <1>5 DEF Ocs!Has, Ocs!Tagged, Ocs!Relation!Of, Ocs!Type
  <1> QED BY <1>1, <1>4, <1>5, <1>6 DEF Ocs!Relation!Destroy

\* A type gets another record, in which one object alone has another place.
LEMMA ObjectTypeChanged ==
  ASSUME ObjectBounds, ObjectsInv, NEW c \in Components, NEW r, PlacesGood(r),
         NEW i \in object.m_object_state, NEW k, r.m_map = [object.m_a_component[c].m_map EXCEPT ![i] = k],
         object'.m_a_component = [object.m_a_component EXCEPT ![c] = r],
         object'.m_object_state = object.m_object_state, object'.tags = object.tags,
         object' \in ObjectRecord, pointers' = pointers,
         object'.occupancy = IF k = Ocs!NULL THEN object.occupancy \ {<<i, c>>}
                             ELSE object.occupancy \cup {<<i, c>>}
  PROVE  /\ ObjectsInv' /\ Ocs!Alive' = Ocs!Alive /\ Ocs!Tagged' = Ocs!Tagged
         /\ Ocs!Has' = IF k = Ocs!NULL THEN Ocs!Has \ {<<i, c>>} ELSE Ocs!Has \cup {<<i, c>>}
  <1>1. object \in ObjectRecord /\ i \in Instances /\ object.m_object_state \subseteq Instances
    BY DEF ObjectsInv, ObjectRecord
  <1>2. object.m_a_component[c] \in ObjectType
    BY DEF ObjectsInv, PlacesGood
  <1>3. \A d \in Components : object'.m_a_component[d] = IF d = c THEN r ELSE object.m_a_component[d]
    BY <1>1 DEF ObjectRecord
  <1>4. \A d \in Components, j \in Instances :
          object'.m_a_component[d].m_map[j]
            = IF d = c /\ j = i THEN k ELSE object.m_a_component[d].m_map[j]
    BY <1>1, <1>2, <1>3 DEF ObjectType
  <1>5. \A d \in Components : PlacesGood(object'.m_a_component[d])
    BY <1>3 DEF ObjectsInv
  <1>6. \A d \in Components, j \in Instances :
          object'.m_a_component[d].m_map[j] # Ocs!NULL => j \in object'.m_object_state
    BY <1>4 DEF ObjectsInv
  <1>7. \A d \in Components, j \in object.m_object_state :
          object'.m_a_component[d].m_map[j] # Ocs!NULL <=> <<j, d>> \in object'.occupancy
    <2> SUFFICES ASSUME NEW d \in Components, NEW j \in object.m_object_state
                 PROVE  object'.m_a_component[d].m_map[j] # Ocs!NULL <=> <<j, d>> \in object'.occupancy
      OBVIOUS
    <2>1. CASE d = c /\ j = i
      BY <1>1, <1>4, <2>1
    <2>2. CASE ~(d = c /\ j = i)
      <3>1. <<j, d>> # <<i, c>>
        BY <2>2
      <3>2. object.m_a_component[d].m_map[j] # Ocs!NULL <=> <<j, d>> \in object.occupancy
        BY DEF ObjectsInv
      <3> QED BY <1>1, <1>4, <2>2, <3>1, <3>2
    <2> QED BY <2>1, <2>2
  <1>8. ObjectsInv'
    <2>1. pointers' = object'.m_object_state
      BY DEF ObjectsInv
    <2> QED BY <1>5, <1>6, <1>7, <2>1 DEF ObjectsInv
  <1>9. Ocs!Alive' = Ocs!Alive /\ Ocs!Tagged' = Ocs!Tagged
    BY DEF Ocs!Alive, Ocs!Tagged
  <1>10. /\ Ocs!Has = {p \in object.m_object_state \X Components :
                         object.m_a_component[p[2]].m_map[p[1]] # Ocs!NULL}
         /\ Ocs!Has' = {p \in object.m_object_state \X Components :
                          object'.m_a_component[p[2]].m_map[p[1]] # Ocs!NULL}
    BY DEF Ocs!Has, Ocs!Alive, Ocs!Type
  <1>11. \A p \in object.m_object_state \X Components :
           object'.m_a_component[p[2]].m_map[p[1]]
             = IF p = <<i, c>> THEN k ELSE object.m_a_component[p[2]].m_map[p[1]]
    BY <1>1, <1>4
  <1>12. <<i, c>> \in object.m_object_state \X Components
    OBVIOUS
  <1> QED BY ONLY <1>8, <1>9, <1>10, <1>11, <1>12

LEMMA ObjectComponentCreated ==
  ASSUME ObjectBounds, ObjectsInv, NEW i \in pointers, NEW c \in Components, Ocs!create_cp(i, c)
  PROVE  i \in Instances /\ ObjectsInv' /\ Ocs!Relation!Add(i, c)
  <1> DEFINE t == object.m_a_component[c]
  <1>1. /\ object \in ObjectRecord /\ i \in object.m_object_state /\ i \in Instances
        /\ PlacesGood(t) /\ t \in ObjectType
    BY DEF ObjectsInv, ObjectRecord, PlacesGood
  <1>2. PICK k \in Ocs!PlacesFor(t) :
          object' = [object EXCEPT !.m_a_component[c] = Ocs!g_add_cp(t, i, k),
                                   !.occupancy = object.occupancy \cup {<<i, c>>}]
    BY <1>1 DEF Ocs!create_cp, Ocs!Type, ObjectRecord
  <1>3. t.registered /\ t.m_map[i] = Ocs!NULL /\ pointers' = pointers
    BY DEF Ocs!create_cp, Ocs!Type
  <1>4. PICK r : r = Ocs!g_add_cp(t, i, k)
    OBVIOUS
  <1>5. PlacesGood(r) /\ r.m_map = [t.m_map EXCEPT ![i] = k] /\ k # Ocs!NULL /\ r \in ObjectType
    BY <1>1, <1>3, <1>4, PlaceAdded DEF PlacesGood
  <1>6. /\ object' \in ObjectRecord
        /\ object'.m_a_component = [object.m_a_component EXCEPT ![c] = r]
        /\ object'.m_object_state = object.m_object_state
        /\ object'.occupancy = object.occupancy \cup {<<i, c>>} /\ object'.tags = object.tags
    <2>1. object.occupancy \cup {<<i, c>>} \in SUBSET (Instances \X Components)
      BY <1>1 DEF ObjectRecord
    <2>2. [object.m_a_component EXCEPT ![c] = r] \in [Components -> ObjectType]
      BY <1>1, <1>5 DEF ObjectRecord
    <2>3. object' = [object EXCEPT !.m_a_component = [object.m_a_component EXCEPT ![c] = r],
                                   !.occupancy = object.occupancy \cup {<<i, c>>}]
      BY <1>2, <1>4
    <2> QED BY <1>1, <2>1, <2>2, <2>3 DEF ObjectRecord
  <1>7. /\ ObjectsInv' /\ Ocs!Alive' = Ocs!Alive /\ Ocs!Tagged' = Ocs!Tagged
        /\ Ocs!Has' = Ocs!Has \cup {<<i, c>>}
    BY <1>1, <1>3, <1>5, <1>6, ObjectTypeChanged
  <1> QED BY <1>1, <1>7 DEF Ocs!Relation!Add, Ocs!Alive

LEMMA ObjectComponentThere ==
  ASSUME ObjectBounds, ObjectsInv, NEW i \in pointers, NEW c \in Components,
         Ocs!create_cp_Again(i, c)
  PROVE  UNCHANGED <<object, pointers>>
  <1> DEFINE t == object.m_a_component[c]
             k == t.m_map[i]
  <1>1. /\ object \in ObjectRecord /\ i \in Instances /\ t \in ObjectType /\ PlaceLeadsBack(t)
    BY DEF ObjectsInv, ObjectRecord, PlacesGood
  <1>2. CASE k = Ocs!NULL
    BY <1>2 DEF Ocs!create_cp_Again, Ocs!Type
  <1>3. CASE k # Ocs!NULL
    <2>1. t.m_component_data[k] = i
      BY <1>1, <1>3 DEF PlaceLeadsBack
    <2>2. [t.m_component_data EXCEPT ![k] = i] = t.m_component_data
      BY <1>1, <2>1 DEF ObjectType
    <2>3. [t EXCEPT !.m_component_data = t.m_component_data] = t
      BY <1>1 DEF ObjectType
    <2>4. [object.m_a_component EXCEPT ![c] = t] = object.m_a_component
      BY <1>1 DEF ObjectRecord
    <2>5. [object EXCEPT !.m_a_component = object.m_a_component] = object
      BY <1>1 DEF ObjectRecord
    <2>6. object' = [object EXCEPT !.m_a_component[c].m_component_data[k] = i] /\ pointers' = pointers
      BY <1>3 DEF Ocs!create_cp_Again, Ocs!Type
    <2>7. object' = [object EXCEPT !.m_a_component =
                       [object.m_a_component EXCEPT ![c] =
                          [t EXCEPT !.m_component_data = [t.m_component_data EXCEPT ![k] = i]]]]
      BY <2>6
    <2> QED BY <2>2, <2>3, <2>4, <2>5, <2>6, <2>7
  <1> QED BY <1>2, <1>3

LEMMA ObjectComponentDestroyed ==
  ASSUME ObjectBounds, ObjectsInv, NEW i \in pointers, NEW c \in Components, Ocs!destroy_cp(i, c)
  PROVE  i \in Instances /\ ObjectsInv' /\ Ocs!Relation!Remove(i, c)
  <1> DEFINE t == object.m_a_component[c]
  <1>1. /\ object \in ObjectRecord /\ i \in object.m_object_state /\ i \in Instances
        /\ PlacesGood(t) /\ t \in ObjectType
    BY DEF ObjectsInv, ObjectRecord, PlacesGood
  <1>2. /\ t.registered /\ t.m_map[i] # Ocs!NULL /\ Ocs!NoClobber(t, i) /\ pointers' = pointers
        /\ object' = [object EXCEPT !.m_a_component[c] = Ocs!g_rem_cp(t, i),
                                    !.occupancy = object.occupancy \ {<<i, c>>}]
    BY <1>1 DEF Ocs!destroy_cp, Ocs!Type, Ocs!Unoccupied, ObjectRecord
  <1>3. PICK r : r = Ocs!g_rem_cp(t, i)
    OBVIOUS
  <1>4. PlacesGood(r) /\ r.m_map = [t.m_map EXCEPT ![i] = Ocs!NULL] /\ r \in ObjectType
    BY <1>1, <1>2, <1>3, PlaceRemoved DEF PlacesGood
  <1>5. /\ object' \in ObjectRecord
        /\ object'.m_a_component = [object.m_a_component EXCEPT ![c] = r]
        /\ object'.m_object_state = object.m_object_state
        /\ object'.occupancy = object.occupancy \ {<<i, c>>} /\ object'.tags = object.tags
    BY <1>1, <1>2, <1>3, <1>4 DEF ObjectRecord
  <1>6. /\ ObjectsInv' /\ Ocs!Alive' = Ocs!Alive /\ Ocs!Tagged' = Ocs!Tagged
        /\ Ocs!Has' = Ocs!Has \ {<<i, c>>}
    BY <1>1, <1>2, <1>4, <1>5, ObjectTypeChanged
  <1> QED BY <1>1, <1>6 DEF Ocs!Relation!Remove, Ocs!Alive

LEMMA ObjectTagged ==
  ASSUME ObjectBounds, ObjectsInv, NEW i \in pointers, NEW t \in Tags,
         Ocs!add_tag(i, t) \/ Ocs!rem_tag(i, t)
  PROVE  /\ i \in Instances /\ ObjectsInv'
         /\ Ocs!Relation!AddTag(i, t) \/ Ocs!Relation!RemoveTag(i, t)
  <1>1. object \in ObjectRecord /\ i \in object.m_object_state /\ i \in Instances
    BY DEF ObjectsInv, ObjectRecord
  <1>2. /\ object' \in ObjectRecord
        /\ object'.m_object_state = object.m_object_state /\ object'.occupancy = object.occupancy
        /\ object'.m_a_component = object.m_a_component
        /\ object'.tags = object.tags \cup {<<i, t>>} \/ object'.tags = object.tags \ {<<i, t>>}
        /\ pointers' = pointers
    BY <1>1 DEF Ocs!add_tag, Ocs!rem_tag, ObjectRecord
  <1>3. ObjectsInv' /\ Ocs!Alive' = Ocs!Alive /\ Ocs!Has' = Ocs!Has
    <2>1. \A c \in Components : /\ PlacesGood(object'.m_a_component[c])
                                /\ object'.m_a_component[c].m_map = object.m_a_component[c].m_map
      BY <1>2 DEF ObjectsInv
    <2>2. pointers' = object'.m_object_state
      BY <1>2 DEF ObjectsInv
    <2> QED BY <1>2, <2>1, <2>2, ObjectsStay
  <1>4. Ocs!Tagged' = Ocs!Tagged \cup {<<i, t>>} \/ Ocs!Tagged' = Ocs!Tagged \ {<<i, t>>}
    BY <1>1, <1>2 DEF Ocs!Tagged, Ocs!Alive
  <1> QED BY <1>1, <1>3, <1>4 DEF Ocs!Relation!AddTag, Ocs!Relation!RemoveTag, Ocs!Alive

LEMMA ObjectsStep ==
  ASSUME ObjectBounds, ObjectsInv, [Ocs!Next]_objectVars
  PROVE  ObjectsInv' /\ [Ocs!Relation!Next]_<<Ocs!Alive, Ocs!Has, Ocs!Tagged>>
  <1>1. CASE Ocs!teardown
    BY <1>1, NoObjects DEF Ocs!Relation!Next
  <1>2. ASSUME NEW c \in Components, Ocs!register_component(c)
        PROVE  ObjectsInv' /\ [Ocs!Relation!Next]_<<Ocs!Alive, Ocs!Has, Ocs!Tagged>>
    BY <1>2, ObjectTypeRegistered
  <1>3. CASE Ocs!create_object
    BY <1>3, ObjectCreated DEF Ocs!Relation!Next
  <1>4. ASSUME NEW i \in pointers, Ocs!destroy_object(i)
        PROVE  ObjectsInv' /\ [Ocs!Relation!Next]_<<Ocs!Alive, Ocs!Has, Ocs!Tagged>>
    BY <1>4, ObjectDestroyed DEF Ocs!Relation!Next
  <1>5. ASSUME NEW i \in pointers, NEW c \in Components, Ocs!create_cp(i, c)
        PROVE  ObjectsInv' /\ [Ocs!Relation!Next]_<<Ocs!Alive, Ocs!Has, Ocs!Tagged>>
    BY <1>5, ObjectComponentCreated DEF Ocs!Relation!Next
  <1>6. ASSUME UNCHANGED <<object, pointers>>
        PROVE  ObjectsInv' /\ [Ocs!Relation!Next]_<<Ocs!Alive, Ocs!Has, Ocs!Tagged>>
    BY <1>6 DEF ObjectsInv, Ocs!Alive, Ocs!Has, Ocs!Tagged, Ocs!Type
  <1>7. ASSUME NEW i \in pointers, NEW c \in Components, Ocs!create_cp_Again(i, c)
        PROVE  ObjectsInv' /\ [Ocs!Relation!Next]_<<Ocs!Alive, Ocs!Has, Ocs!Tagged>>
    BY <1>6, <1>7, ObjectComponentThere
  <1>8. ASSUME NEW i \in pointers, NEW c \in Components, Ocs!destroy_cp(i, c)
        PROVE  ObjectsInv' /\ [Ocs!Relation!Next]_<<Ocs!Alive, Ocs!Has, Ocs!Tagged>>
    BY <1>8, ObjectComponentDestroyed DEF Ocs!Relation!Next
  <1>9. ASSUME NEW i \in pointers, NEW t \in Tags, Ocs!add_tag(i, t) \/ Ocs!rem_tag(i, t)
        PROVE  ObjectsInv' /\ [Ocs!Relation!Next]_<<Ocs!Alive, Ocs!Has, Ocs!Tagged>>
    BY <1>9, ObjectTagged DEF Ocs!Relation!Next
  <1> QED BY <1>1, <1>2, <1>3, <1>4, <1>5, <1>6, <1>7, <1>8, <1>9 DEF Ocs!Next, objectVars

LEMMA EitherStorage ==
  ASSUME ObjectBounds
  PROVE  MCSpec => []ObjectsInv /\ [][Ocs!Next]_objectVars
  <1>1. MCInit => ObjectsInv
    BY NoObjects DEF MCInit
  <1>2. [NextOfCs \/ NextOfOcs]_<<storage, vars, objectVars>> => [Ocs!Next]_objectVars
    BY DEF NextOfCs, NextOfOcs, objectVars
  <1>3. ObjectsInv /\ [Ocs!Next]_objectVars => ObjectsInv'
    BY ObjectsStep
  <1> QED BY <1>1, <1>2, <1>3, PTL DEF MCSpec

\* What ObjectsInv says about one type: every place in use is that of an object.
LEMMA PlacesInUse ==
  ASSUME ObjectBounds, NEW t, PlacesGood(t)
  PROVE  t.m_occupancy = {t.m_map[i] : i \in Instances} \ {Ocs!NULL}
  <1>1. t \in ObjectType /\ PlaceLeadsBack(t) /\ PlaceHasObject(t)
    BY DEF PlacesGood
  <1>2. ASSUME NEW k \in t.m_occupancy PROVE k \in {t.m_map[i] : i \in Instances} \ {Ocs!NULL}
    BY <1>1, <1>2, ObjectNumbers DEF PlaceHasObject, ObjectType
  <1>3. ASSUME NEW i \in Instances, t.m_map[i] # Ocs!NULL PROVE t.m_map[i] \in t.m_occupancy
    BY <1>1, <1>3 DEF PlaceLeadsBack, ObjectType
  <1> QED BY <1>2, <1>3

\* A component of an object keeps its place and its data as long as the object has it
\* (g_add_cp, g_rem_cp), and has_component and get_component give the same answer, for
\* any number of objects, types and places.
THEOREM ObjectsDataKept == ASSUME ObjectBounds PROVE MCSpec => []ObjectsKept
  <1>1. ASSUME ObjectsInv PROVE ObjectsKept
    <2>1. Ocs!Has = {p \in object.m_object_state \X Components :
                       object.m_a_component[p[2]].m_map[p[1]] # Ocs!NULL}
      BY DEF Ocs!Has, Ocs!Alive, Ocs!Type
    <2>2. object \in ObjectRecord
      BY <1>1 DEF ObjectsInv
    <2>3. Ocs!DataKept
      <3>1. ASSUME NEW p \in Ocs!Has
            PROVE  LET t == object.m_a_component[p[2]]
                       k == t.m_map[p[1]]
                   IN  t.m_component_data[k] = p[1] /\ t.m_unmap[k] = p[1]
        <4>1. /\ p[1] \in Instances /\ p[2] \in Components
              /\ object.m_a_component[p[2]].m_map[p[1]] # Ocs!NULL
          BY <2>1, <2>2 DEF ObjectRecord
        <4> QED BY <1>1, <4>1 DEF ObjectsInv, PlacesGood, PlaceLeadsBack
      <3>2. \A c \in Components :
              object.m_a_component[c].m_occupancy
                = {object.m_a_component[c].m_map[i] : i \in Instances} \ {Ocs!NULL}
        BY <1>1, PlacesInUse DEF ObjectsInv
      <3> QED BY <3>1, <3>2 DEF Ocs!DataKept, Ocs!Type
    <2>4. Ocs!AnswersAgree
      <3>1. object.occupancy \subseteq Instances \X Components
        BY <2>2 DEF ObjectRecord
      <3>2. \A p \in object.m_object_state \X Components :
              object.m_a_component[p[2]].m_map[p[1]] # Ocs!NULL <=> p \in object.occupancy
        BY <1>1 DEF ObjectsInv
      <3>3. \A p \in object.occupancy :
              p[1] \in object.m_object_state => p \in object.m_object_state \X Components
        BY <3>1
      <3>4. \A p \in object.m_object_state \X Components : p[1] \in object.m_object_state
        OBVIOUS
      <3> QED BY <2>1, <3>2, <3>3, <3>4 DEF Ocs!AnswersAgree, Ocs!Alive
    <2> QED BY <2>3, <2>4 DEF ObjectsKept
  <1> QED BY <1>1, EitherStorage, PTL

\* The storage of objects implements the same relation as the one of instances: a call
\* changes the components and tags of one object and of no other, although every type
\* keeps its data in arrays that all objects share.
THEOREM ObjectsImplementTheRelation ==
  ASSUME ObjectBounds PROVE MCSpec => ObjectsImplementRelation
  <1>1. MCInit => Ocs!Relation!Init
    BY NoObjects DEF MCInit
  <1>2. ObjectsInv /\ [Ocs!Next]_objectVars => [Ocs!Relation!Next]_<<Ocs!Alive, Ocs!Has, Ocs!Tagged>>
    BY ObjectsStep
  <1>3. MCSpec => MCInit
    BY DEF MCSpec
  <1>4. MCSpec => Ocs!Relation!Init /\ [][Ocs!Relation!Next]_<<Ocs!Alive, Ocs!Has, Ocs!Tagged>>
    BY <1>1, <1>2, <1>3, EitherStorage, PTL
  <1> QED BY <1>4 DEF ObjectsImplementRelation, Ocs!ImplementsRelation, Ocs!Relation!Spec

=============================================================================
