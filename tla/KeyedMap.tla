------------------------------ MODULE KeyedMap -------------------------------
(***************************************************************************)
(* What the interface of verstable.h promises: a finite map from keys to   *)
(* values, whose insertions may fail and change nothing, and an iteration  *)
(* that meets every key once although keys are erased while it goes on.    *)
(***************************************************************************)
CONSTANTS Keys, Values, End

VARIABLES
  map,    \* the value of each key present
  left,   \* the keys the iteration in progress has still to meet
  ret     \* the value behind the iterator returned last, or its result

vars == <<map, left, ret>>

With(k, v) == [x \in DOMAIN map \cup {k} |-> IF x = k THEN v ELSE map[x]]
Without(k) == [x \in DOMAIN map \ {k} |-> map[x]]
Found(k) == IF k \in DOMAIN map THEN map[k] ELSE End

Init == map = <<>> /\ left = {} /\ ret = End

(* insert replaces, get_or_insert keeps; both may run out of memory, and   *)
(* invalidate iterators.                                                   *)
Insert(k, v) == /\ left' = {} /\ ret' = v
                /\ map' = With(k, v)

InsertFails == left' = {} /\ ret' = End /\ UNCHANGED map

GetOrInsert(k, v) ==
  IF k \in DOMAIN map THEN left' = {} /\ ret' = map[k] /\ UNCHANGED map
                      ELSE Insert(k, v)

Get(k) == ret' = Found(k) /\ UNCHANGED <<map, left>>

Erase(k) == /\ left' = {} /\ ret' = (k \in DOMAIN map)
            /\ map' = Without(k)

(* reserve, shrink and init_clone move the keys and change nothing.        *)
Resize(ok) == left' = {} /\ ret' = ok /\ UNCHANGED map

(* clear and cleanup.                                                      *)
Clear == map' = <<>> /\ left' = {} /\ UNCHANGED ret

First == left' = DOMAIN map /\ UNCHANGED <<map, ret>>

IterNext == \E k \in left : left' = left \ {k} /\ UNCHANGED <<map, ret>>

EraseItr == \E k \in left : /\ map' = Without(k)
                            /\ left' = left \ {k}
                            /\ UNCHANGED ret

Next ==
  \/ \E k \in Keys, v \in Values : Insert(k, v) \/ GetOrInsert(k, v)
  \/ InsertFails
  \/ \E k \in Keys : Get(k) \/ Erase(k)
  \/ \E ok \in BOOLEAN : Resize(ok)
  \/ Clear \/ First \/ IterNext \/ EraseItr

Spec == Init /\ [][Next]_vars
=============================================================================
