------------------------- MODULE MCGameDataManager -------------------------
(* Instances of GameDataManager for TLC. *)
EXTENDS GameDataManager, TLC

CONSTANTS v1, v2  \* the two members of Values, named so that RefsOf can be given

(* Objects without references: they are interchangeable. *)
NoRefs == [v \in Values |-> {}]

AnySymmetry == Permutations(Names) \cup Permutations(Callers) \cup Permutations(Values)

(* The room v1 refers to the entity class v2. *)
RoomAndClass == (v1 :> {v2}) @@ (v2 :> {})

(* Bound of a run: fetches under way at the same time *)
FewFetches == Cardinality(lookups) + Cardinality(loads) <= 2
=============================================================================
