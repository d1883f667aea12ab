------------------------------ MODULE Verstable ------------------------------
(***************************************************************************)
(* verstable.h, the hash table behind signo_to_sighandler_map where NSIG   *)
(* is large and behind thread_id_to_tls_map: open addressing in which the  *)
(* keys of one home bucket form a chain, linked by the quadratic           *)
(* displacement of the next key, and begin in that bucket.  A key found in *)
(* another's home bucket is evicted.                                       *)
(*                                                                         *)
(* Every caller holds the lock of the structure the table belongs to, so a *)
(* call is one action.  A table is a value; the helpers of the code take   *)
(* one and return one.  The bytes of an empty bucket are forgotten.        *)
(***************************************************************************)
EXTENDS Integers, FiniteSetsExt

CONSTANTS
  Keys, Values,
  Pairs,        \* the keys and values that clients insert
  Hash,         \* HASH_FN
  FragUnit,     \* what the hash is divided by to get the fragment
  MinBuckets,   \* VT_MIN_NONZERO_BUCKET_COUNT
  Reserves,     \* arguments of reserve
  Platforms,    \* displacement limits, and how many allocations of a call
                \* may succeed before one fails
  End           \* the end iterator

ASSUME PairsAssumption == Pairs \subseteq Keys \X Values
ASSUME HashAssumption == Hash \in [Keys -> Nat] /\ FragUnit \in Nat \ {0}
ASSUME BucketsAssumption == MinBuckets \in {2, 4, 8, 16}
ASSUME PlatformsAssumption ==
  Platforms \subseteq [limit : Nat \ {0}, mallocs : SUBSET Nat]
ASSUME ClientAssumption == IsFiniteSet(Keys) /\ Reserves \subseteq Nat
ASSUME EndAssumption == /\ End \notin Keys \cup Values \cup BOOLEAN \cup Int
                        /\ End \notin [key : Keys, val : Values]

VARIABLES
  platform,  \* the platform of this behaviour
  table,     \* the table
  itr,       \* the bucket of the iterator in use, or End
  ret        \* the result of the last call

vars == <<platform, table, itr, ret>>

(* VT_DISPLACEMENT_MASK: the displacement that ends a chain, and the limit. *)
Limit == platform.limit

Metadatum == [frag : Nat, home : BOOLEAN, disp : Nat]
VT_EMPTY == [frag |-> 0, home |-> FALSE, disp |-> 0]
Bucket == [key : Keys, val : Values]

(* NAME_init: one placeholder metadatum and no buckets.                    *)
EmptyTable == [count |-> 0, mask |-> 0, metadata |-> [b \in {0} |-> VT_EMPTY],
               buckets |-> [b \in {0} |-> End]]

Init == /\ platform \in Platforms
        /\ table = EmptyTable /\ itr = End /\ ret = End

-----------------------------------------------------------------------------
(* The layout.                                                             *)

Indices(t) == 0 .. t.mask
BucketCount(t) == IF t.mask = 0 THEN 0 ELSE t.mask + 1
Occupied(t, b) == t.metadata[b] # VT_EMPTY
HomeBucket(t, k) == Hash[k] % (t.mask + 1)
HashFrag(k) == Hash[k] \div FragUnit

Quadratic(disp) == (disp * disp + disp) \div 2
Probe(t, home, disp) == (home + Quadratic(disp)) % (t.mask + 1)

(* The load factor allows one more key: MAX_LOAD is 0.9.                   *)
HasRoom(t) == (t.count + 1) * 10 <= BucketCount(t) * 9

(* The buckets of a chain in order; the last one repeats.                  *)
Chain(t, home) ==
  LET next == [b \in Indices(t) |-> IF t.metadata[b].disp = Limit THEN b
                                    ELSE Probe(t, home, t.metadata[b].disp)]
      c[i \in Indices(t)] == IF i = 0 THEN home ELSE next[c[i - 1]]
  IN c

(* The first bucket of a chain that is in the set S, or End.               *)
FirstOf(chain, S) ==
  LET found == {i \in DOMAIN chain : chain[i] \in S}
  IN IF found = {} THEN End ELSE chain[Min(found)]
FirstInChain(t, home, S) == FirstOf(Chain(t, home), S)

(* The bucket before b in its chain, and the last one.                     *)
Previous(t, home, b) ==
  FirstInChain(t, home,
    {p \in Indices(t) : Probe(t, home, t.metadata[p].disp) = b})
LastInChain(t, home) ==
  FirstInChain(t, home, {b \in Indices(t) : t.metadata[b].disp = Limit})

(* Displacements within the limit that lead from home to an empty bucket.  *)
EmptyWithin(t, home) ==
  {d \in 1 .. Limit - 1 : ~Occupied(t, Probe(t, home, d))}

(* Mutant of InsertLocation: the new key always comes second.              *)
InsertLocationSecond(t, home, disp) == home

(* Keeps a chain in the order of displacement.                             *)
InsertLocation(t, home, disp) ==
  FirstInChain(t, home, {b \in Indices(t) : t.metadata[b].disp > disp})

Unlink(t, prev, b) ==
  [t EXCEPT !.metadata[prev].disp = t.metadata[b].disp]

(* Put an entry in the empty bucket disp from home and link it.            *)
LinkAfter(t, prev, b, disp, entry, frag) ==
  [t EXCEPT !.buckets[b] = entry,
            !.metadata = [@ EXCEPT
               ![b] = [frag |-> frag, home |-> FALSE,
                       disp |-> t.metadata[prev].disp],
               ![prev].disp = disp]]
Link(t, home, disp, entry, frag) ==
  LinkAfter(t, InsertLocation(t, home, disp), Probe(t, home, disp), disp,
            entry, frag)

-----------------------------------------------------------------------------
(* Lookup.                                                                 *)

(* The bucket of key k, or End.                                            *)
Lookup(t, k) ==
  IF ~t.metadata[HomeBucket(t, k)].home THEN End
  ELSE FirstInChain(t, HomeBucket(t, k),
         {b \in Indices(t) : /\ Occupied(t, b)
                             /\ t.metadata[b].frag = HashFrag(k)
                             /\ t.buckets[b].key = k})

ValueAt(t, b) == IF b = End THEN End ELSE t.buckets[b].val

-----------------------------------------------------------------------------
(* Insertion.  The helpers return the table and the bucket of the key, End *)
(* if there was no place for it.                                           *)

(* evict: move the key in bucket b, which is home to another, elsewhere in *)
(* its own chain.  On failure it is left out of its chain.                 *)
Relinked(t, home, b) ==
  LET places == EmptyWithin(t, home)
  IN IF places = {} THEN [table |-> t, ok |-> FALSE]
     ELSE [ok |-> TRUE,
           table |-> Link(t, home, Min(places), t.buckets[b],
                          t.metadata[b].frag)]
Evict(t, b) ==
  LET home == HomeBucket(t, t.buckets[b].key)
  IN Relinked(Unlink(t, Previous(t, home, b), b), home, b)

(* The home bucket is empty or has a key that does not belong there.       *)
SettleHome(vacated, home, k, v) ==
  IF ~vacated.ok THEN [table |-> vacated.table, at |-> End]
  ELSE [at |-> home,
        table |-> [vacated.table EXCEPT
          !.count = @ + 1,
          !.buckets[home] = [key |-> k, val |-> v],
          !.metadata[home] = [frag |-> HashFrag(k), home |-> TRUE,
                              disp |-> Limit]]]
InsertHome(t, k, v) ==
  LET home == HomeBucket(t, k)
  IN IF ~HasRoom(t) THEN [table |-> t, at |-> End]
     ELSE SettleHome(IF Occupied(t, home) THEN Evict(t, home)
                     ELSE [table |-> t, ok |-> TRUE], home, k, v)

(* The home bucket begins a chain that does not have the key.              *)
InsertChain(t, k, v) ==
  LET home == HomeBucket(t, k)
      places == EmptyWithin(t, home)
      disp == Min(places)
  IN IF ~HasRoom(t) \/ places = {} THEN [table |-> t, at |-> End]
     ELSE [at |-> Probe(t, home, disp),
           table |-> [Link(t, home, disp, [key |-> k, val |-> v], HashFrag(k))
                      EXCEPT !.count = @ + 1]]

(* The key is in bucket b, or nowhere.                                     *)
Placed(t, b, k, v, replace) ==
  IF b = End THEN InsertChain(t, k, v)
  ELSE [at |-> b,
        table |-> IF replace
                  THEN [t EXCEPT !.buckets[b] = [key |-> k, val |-> v]] ELSE t]

InsertRaw(t, k, v, unique, replace) ==
  IF ~t.metadata[HomeBucket(t, k)].home THEN InsertHome(t, k, v)
  ELSE Placed(t, IF unique THEN End ELSE Lookup(t, k), k, v, replace)

(* The keys of t inserted one by one into n new buckets, until one fails.  *)
NewTable(n) == [count |-> 0, mask |-> n - 1,
                metadata |-> [b \in 0 .. n - 1 |-> VT_EMPTY],
                buckets |-> [b \in 0 .. n - 1 |-> End]]
Reinsert(before, t, b) ==
  IF before.at = End \/ ~Occupied(t, b) THEN before
  ELSE InsertRaw(before.table, t.buckets[b].key, t.buckets[b].val, TRUE, FALSE)
Reinserted(t, n) ==
  LET done[b \in -1 .. t.mask] ==
        IF b = -1 THEN [table |-> NewTable(n), at |-> 0]
        ELSE Reinsert(done[b - 1], t, b)
  IN done[t.mask].table

(* A bucket count and what it becomes when it is doubled again and again.  *)
Doublings(n, times) ==
  LET count[i \in 0 .. times] == IF i = 0 THEN n ELSE 2 * count[i - 1]
  IN count

(* rehash: double n until every key has a place, or until malloc fails,    *)
(* here after mallocs allocations.  Returns the allocations left.          *)
FirstToFit(t, new, mallocs) ==
  LET fitting == {i \in DOMAIN new : new[i].count = t.count}
  IN IF fitting = {} THEN [ok |-> FALSE, table |-> t, mallocs |-> 0]
     ELSE [ok |-> TRUE, table |-> new[Min(fitting)],
           mallocs |-> mallocs - Min(fitting) - 1]
Rehash(t, n, mallocs) ==
  FirstToFit(t, [i \in 0 .. mallocs - 1 |-> Reinserted(t, Doublings(n, mallocs)[i])],
             mallocs)

Doubled(t) == IF t.mask # 0 THEN BucketCount(t) * 2 ELSE MinBuckets

(* insert and get_or_insert: grow and try again until the key has a place  *)
(* or there is no memory.                                                  *)
Grown(s, rehashed) ==
  IF rehashed.ok THEN [s EXCEPT !.table = rehashed.table,
                                !.mallocs = rehashed.mallocs]
  ELSE [s EXCEPT !.done = TRUE]
Tried(s, raw) ==
  IF raw.at # End THEN [s EXCEPT !.table = raw.table, !.at = raw.at,
                                 !.done = TRUE]
  ELSE Grown([s EXCEPT !.table = raw.table],
             Rehash(raw.table, Doubled(raw.table), s.mallocs))
Attempt(s, k, v, replace) ==
  IF s.done THEN s ELSE Tried(s, InsertRaw(s.table, k, v, FALSE, replace))
Inserted(t, k, v, replace, mallocs) ==
  LET try[i \in 0 .. mallocs + 1] ==
        IF i = 0
        THEN [table |-> t, mallocs |-> mallocs, at |-> End, done |-> FALSE]
        ELSE Attempt(try[i - 1], k, v, replace)
  IN try[mallocs + 1]

-----------------------------------------------------------------------------
(* Erasure and iteration.                                                  *)

Vacate(t, b) == [t EXCEPT !.metadata[b] = VT_EMPTY, !.buckets[b] = End]
EndChainAt(t, b) == [t EXCEPT !.metadata[b].disp = Limit]

(* Mutant of EraseRaw: the iterator always advances.                       *)
EraseRawAdvances(t, b) ==
  LET home == IF t.metadata[b].home THEN b
              ELSE HomeBucket(t, t.buckets[b].key)
      last == LastInChain(t, home)
      fewer == [t EXCEPT !.count = @ - 1]
  IN IF last = home THEN [table |-> Vacate(fewer, b), advance |-> TRUE]
     ELSE LET shorter == EndChainAt(fewer, Previous(t, home, last)) IN
          IF last = b THEN [table |-> Vacate(shorter, b), advance |-> TRUE]
          ELSE [table |-> Vacate([shorter EXCEPT
                            !.buckets[b] = t.buckets[last],
                            !.metadata[b].frag = t.metadata[last].frag], last),
                advance |-> TRUE]

(* erase_itr_raw: the last key of the chain takes the place of the erased  *)
(* one.  advance: the bucket has no key that an iteration has still to     *)
(* meet.                                                                   *)
EraseRaw(t, b) ==
  LET home == IF t.metadata[b].home THEN b
              ELSE HomeBucket(t, t.buckets[b].key)
      last == LastInChain(t, home)
      fewer == [t EXCEPT !.count = @ - 1]
  IN IF last = home THEN [table |-> Vacate(fewer, b), advance |-> TRUE]
     ELSE LET shorter == EndChainAt(fewer, Previous(t, home, last)) IN
          IF last = b THEN [table |-> Vacate(shorter, b), advance |-> TRUE]
          ELSE [table |-> Vacate([shorter EXCEPT
                            !.buckets[b] = t.buckets[last],
                            !.metadata[b].frag = t.metadata[last].frag], last),
                advance |-> last < b]

(* Mutant of FastForward: the stopper is taken for a bucket.               *)
FastForwardPast(t, b) ==
  Min({c \in b .. t.mask : Occupied(t, c)} \cup {t.mask + 1})

(* The first occupied bucket at or after b, or End: the stopper behind the *)
(* last metadatum.                                                         *)
FastForward(t, b) ==
  LET later == {c \in b .. t.mask : Occupied(t, c)}
  IN IF later = {} THEN End ELSE Min(later)

-----------------------------------------------------------------------------
(* The interface.                                                          *)

InsertKey(k, v, replace) ==
  \E m \in platform.mallocs :
    \E done \in {Inserted(table, k, v, replace, m)} :
      /\ table' = done.table
      /\ ret' = ValueAt(done.table, done.at)
      /\ itr' = End
      /\ UNCHANGED platform

Insert(k, v) == InsertKey(k, v, TRUE)
GetOrInsert(k, v) == InsertKey(k, v, FALSE)

Get(k) == /\ ret' = ValueAt(table, Lookup(table, k))
          /\ UNCHANGED <<platform, table, itr>>

Erase(k) ==
  LET b == Lookup(table, k) IN
  /\ table' = IF b = End THEN table ELSE EraseRaw(table, b).table
  /\ ret' = (b # End)
  /\ itr' = End
  /\ UNCHANGED platform

(* min_bucket_count_for_size.                                              *)
MinBucketCount(size) ==
  IF size = 0 THEN 0
  ELSE LET counts == Doublings(MinBuckets, size)
       IN counts[Min({i \in 0 .. size : size * 10 <= counts[i] * 9})]

ResizeTo(n) ==
  \E m \in platform.mallocs :
    \E done \in {Rehash(table, n, m)} : table' = done.table /\ ret' = done.ok

Reserve(size) ==
  /\ IF MinBucketCount(size) <= BucketCount(table)
     THEN ret' = TRUE /\ UNCHANGED table
     ELSE ResizeTo(MinBucketCount(size))
  /\ itr' = End
  /\ UNCHANGED platform

Shrink ==
  LET n == MinBucketCount(table.count) IN
  /\ CASE n = BucketCount(table) -> ret' = TRUE /\ UNCHANGED table
       [] n # BucketCount(table) /\ n = 0 -> ret' = TRUE /\ table' = EmptyTable
       [] OTHER -> ResizeTo(n)
  /\ itr' = End
  /\ UNCHANGED platform

(* clear keeps the buckets, cleanup frees them.                            *)
Clear ==
  /\ table' = IF table.count = 0 THEN table
              ELSE [table EXCEPT !.count = 0,
                                 !.metadata = [b \in Indices(table) |-> VT_EMPTY],
                                 !.buckets = [b \in Indices(table) |-> End]]
  /\ itr' = End
  /\ UNCHANGED <<platform, ret>>

Cleanup == /\ table' = EmptyTable /\ itr' = End
           /\ UNCHANGED <<platform, ret>>

(* init_clone: the client goes on with the copy, or with what it has.      *)
InitClone == \E m \in platform.mallocs :
  /\ ret' = (table.mask = 0 \/ m > 0)
  /\ itr' = End
  /\ UNCHANGED <<platform, table>>

First == /\ itr' = IF table.count = 0 THEN End ELSE FastForward(table, 0)
         /\ UNCHANGED <<platform, table, ret>>

IterNext == /\ itr # End
            /\ itr' = FastForward(table, itr + 1)
            /\ UNCHANGED <<platform, table, ret>>

EraseItr ==
  /\ itr # End
  /\ LET done == EraseRaw(table, itr) IN
       /\ table' = done.table
       /\ itr' = IF done.advance THEN FastForward(done.table, itr + 1) ELSE itr
  /\ UNCHANGED <<platform, ret>>

Next ==
  \/ \E p \in Pairs : Insert(p[1], p[2]) \/ GetOrInsert(p[1], p[2])
  \/ \E k \in Keys : Get(k) \/ Erase(k)
  \/ \E size \in Reserves : Reserve(size)
  \/ Shrink \/ Clear \/ Cleanup \/ InitClone \/ First \/ IterNext \/ EraseItr

Spec == Init /\ [][Next]_vars

-----------------------------------------------------------------------------
(* Properties.                                                             *)

(* Every variable holds a value of its C type.                             *)
TypeOK ==
  /\ platform \in Platforms
  /\ table.mask \in Nat /\ table.count \in 0 .. table.mask + 1
  /\ table.metadata \in [Indices(table) -> Metadatum]
  /\ table.buckets \in [Indices(table) -> Bucket \cup {End}]
  /\ itr \in Indices(table) \cup {End}
  /\ ret \in Values \cup BOOLEAN \cup {End}

(* What every loop over a chain or over probes relies on to end: the keys  *)
(* of a home bucket, and no others, are on the chain that begins in it, in *)
(* the order of their displacement, and the load factor leaves a bucket    *)
(* empty.                                                                  *)
ChainsWellFormed ==
  LET Used == {b \in Indices(table) : Occupied(table, b)}
      HomeOf(b) == HomeBucket(table, table.buckets[b].key)
      ChainSet(h) == {Chain(table, h)[i] : i \in Indices(table)}
  IN /\ table.count * 10 <= BucketCount(table) * 9
     /\ table.count = Cardinality(Used)
     /\ \A b, c \in Used : table.buckets[b].key = table.buckets[c].key => b = c
     /\ \A b \in Used :
          /\ table.metadata[b].home <=> b = HomeOf(b)
          /\ table.metadata[HomeOf(b)].home
          /\ ChainSet(HomeOf(b)) = {c \in Used : HomeOf(c) = HomeOf(b)}
          /\ LET d == table.metadata[b].disp
                 next == Probe(table, HomeOf(b), d)
             IN d # Limit => /\ next \in Used
                             /\ d < table.metadata[next].disp

(* The keys an iterator in use has still to meet.                          *)
Ahead == IF itr = End THEN {}
         ELSE {table.buckets[b].key :
                 b \in {c \in itr .. table.mask : Occupied(table, c)}}

Entries == {table.buckets[b] : b \in Indices(table)} \ {End}
Contents == [k \in {e.key : e \in Entries} |->
               (CHOOSE e \in Entries : e.key = k).val]

Map == INSTANCE KeyedMap WITH map <- Contents, left <- Ahead

(* The table is a map: a call changes no key but its own, also when it     *)
(* moves keys, grows or fails, lookups return what was inserted last, and  *)
(* an iteration that erases on its way meets every key exactly once.       *)
ImplementsMap == Map!Spec
=============================================================================
