---------------------------- MODULE MCComponents ----------------------------
(***************************************************************************)
(* Model checking of the two component storages: a behaviour is one of     *)
(* ComponentStorage or one of ObjectComponents, over the same instances,   *)
(* components and tags.  Both implement the same relation.                 *)
(***************************************************************************)
EXTENDS ComponentStorage

CONSTANTS
  Storages,         \* which of "cs" and "ocs" the run is about
  ObjectPlaces      \* how many components of a type the second one has room for

VARIABLES
  storage,
  object, pointers  \* of the second one

objectVars == <<object, pointers>>

Ocs == INSTANCE ObjectComponents
         WITH MaxComponents <- ObjectPlaces, self <- object, handles <- pointers

MCInit == storage \in Storages /\ Init /\ Ocs!Init

NextOfCs == storage = "cs" /\ Next /\ UNCHANGED <<storage, objectVars>>
NextOfOcs == storage = "ocs" /\ Ocs!Next /\ UNCHANGED <<storage, vars>>

MCSpec == MCInit /\ [][NextOfCs \/ NextOfOcs]_<<storage, vars, objectVars>>

-----------------------------------------------------------------------------

\* A component of an object keeps its place and its data as long as the object has it,
\* and the bits of the object and the maps of the types, has_component and
\* get_component, give the same answer.
ObjectsKept == Ocs!DataKept /\ Ocs!AnswersAgree

\* The storage of objects implements the same relation.
ObjectsImplementRelation == Ocs!ImplementsRelation

=============================================================================
