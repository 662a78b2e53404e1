------------------------------- MODULE HashMap -------------------------------
(***************************************************************************)
(* The closed hash table Map of PDB/include/map.h: linear probing with     *)
(* tombstones, growth at two thirds, enumeration under removal, save and   *)
(* reload.                                                                 *)
(*                                                                         *)
(*  - rgd, rgr, isetPresent and isetDeleted are one array of slots: a slot *)
(*    is "present" with a key and a value, "deleted" or "empty".           *)
(*  - Every call holds the map's lock and is one step; memory does not run *)
(*    out, so that grow succeeds.                                          *)
(***************************************************************************)
EXTENDS Integers, FiniteSets, FiniteSetsExt

CONSTANTS
  Keys,
  Values,
  Hash,     \* HashClass::operator(): a number for each key
  NoKey     \* what a slot without a key holds

HashMapAssumption ==
  /\ Hash \in [Keys -> Nat]
  /\ NoKey \notin Keys \cup Values

VARIABLES
  map,      \* rgd.size(), the slots, and cdr
  enum,     \* an EnumMap: is one running, and its position i
  rest      \* the keys it has still to return

vars == <<map, enum, rest>>

-----------------------------------------------------------------------------
(* The table.                                                              *)

Slots(m) == 0 .. m.size - 1

NoSlot == [state |-> "empty", d |-> NoKey, r |-> NoKey]
Tombstone == [NoSlot EXCEPT !.state = "deleted"]

EmptyMap(size) == [size |-> size, slot |-> [i \in 0 .. size - 1 |-> NoSlot], cdr |-> 0]

cdrLoadMax(m) == (m.size * 2) \div 3 + 1

Present(m, i) == m.slot[i].state = "present"
Holds(m, i, d) == Present(m, i) /\ m.slot[i].d = d

\* The slot that find looks at after k others.
ProbeAt(m, d, k) == (Hash[d] + k) % m.size

\* Mutant: a search ends at a tombstone.
EndsAtTombstone(m, d, i) == Holds(m, i, d) \/ ~Present(m, i)

\* A search ends at its key or at a slot that never held one.
Ends(m, d, i) == Holds(m, i, d) \/ m.slot[i].state = "empty"

\* How many slots find looks at before its last one.
LastProbe(m, d) ==
  LET ks == {k \in Slots(m) : Ends(m, d, ProbeAt(m, d, k))} IN
  IF ks = {} THEN m.size - 1 ELSE Min(ks)

\* The slots on the way that an addition may use; find returns the first.
FreeProbes(m, d) ==
  {k \in 0 .. LastProbe(m, d) : ~Present(m, ProbeAt(m, d, k))}

contains(m, d) == Holds(m, ProbeAt(m, d, LastProbe(m, d)), d)
IndexOf(m, d) == ProbeAt(m, d, LastProbe(m, d))
FreeFor(m, d) == ProbeAt(m, d, Min(FreeProbes(m, d)))

-----------------------------------------------------------------------------
(* The operations on a table.                                              *)

Filled(m, i, d, r) == [m EXCEPT !.slot[i] = [state |-> "present", d |-> d, r |-> r]]

\* The present slots, and which of them a slot is in the order of EnumMap.
Full(m) == {i \in Slots(m) : Present(m, i)}
Rank(full, i) == Cardinality({j \in full : j <= i})

Inserted(m, d, r) == [Filled(m, FreeFor(m, d), d, r) EXCEPT !.cdr = @ + 1]

\* A mapping of m goes into a second map.
Moved(m, i, new) ==
  IF Present(m, i) THEN Inserted(new, m.slot[i].d, m.slot[i].r) ELSE new

\* That one is larger, gets every mapping in the order of the slots and becomes this one.
Rehashed(m) ==
  LET new[n \in 0 .. m.size] ==
        IF n = 0 THEN EmptyMap(2 * cdrLoadMax(m)) ELSE Moved(m, n - 1, new[n - 1])
  IN new[m.size]

\* Mutant: the limit itself is let through.
GrowsLate(m) == IF m.cdr > cdrLoadMax(m) THEN Rehashed(m) ELSE m

grow(m) == IF m.cdr >= cdrLoadMax(m) THEN Rehashed(m) ELSE m

\* Mutant: an addition takes the first slot without a key and looks no further.
AddedFirst(m, d, r) ==
  LET i == ProbeAt(m, d, Min({k \in Slots(m) : ~Present(m, ProbeAt(m, d, k))}
                             \cup {k \in Slots(m) : Holds(m, ProbeAt(m, d, k), d)})) IN
  IF Holds(m, i, d) THEN Filled(m, i, d, r)
                    ELSE grow([Filled(m, i, d, r) EXCEPT !.cdr = @ + 1])

Added(m, d, r) ==
  IF contains(m, d) THEN Filled(m, IndexOf(m, d), d, r)
                    ELSE grow(Inserted(m, d, r))

Removed(m, d) ==
  IF contains(m, d)
  THEN [m EXCEPT !.slot[IndexOf(m, d)] = Tombstone, !.cdr = @ - 1]
  ELSE m

\* save: cdr, the size, both sets, and the mappings in the order of the slots.
Saved(m) ==
  [cdr |-> m.cdr, size |-> m.size,
   isetPresent |-> Full(m),
   isetDeleted |-> {i \in Slots(m) : m.slot[i].state = "deleted"},
   pairs |-> [k \in 1 .. Cardinality(Full(m)) |->
                m.slot[CHOOSE i \in Full(m) : Rank(Full(m), i) = k]]]

\* Mutant: the tombstones are not read back.
NoTombstones(b) == {}

\* reload: the tombstones of the buffer.
DeletedIn(b) == b.isetDeleted

\* reload, into a map of one slot: the k-th pair goes to the k-th present slot.
Reloaded(b) ==
  [size |-> b.size, cdr |-> b.cdr,
   slot |-> [i \in 0 .. b.size - 1 |->
               IF i \in b.isetPresent THEN b.pairs[Rank(b.isetPresent, i)]
               ELSE IF i \in DeletedIn(b) THEN Tombstone ELSE NoSlot]]

-----------------------------------------------------------------------------
(* The calls.                                                              *)

NotRunning == [on |-> FALSE, i |-> -1]

\* A key that is new moves an enumeration's slots; a client stops it first.
add(d, r) ==
  /\ enum.on => contains(map, d)
  /\ map' = Added(map, d, r)
  /\ UNCHANGED <<enum, rest>>

\* remove, and mapThenRemove of a key that is there.
remove(d) ==
  /\ map' = Removed(map, d)
  /\ rest' = rest \ {d}
  /\ UNCHANGED enum

\* reset and clear.
reset ==
  /\ map' = EmptyMap(1)
  /\ enum' = NotRunning /\ rest' = {}

SaveAndReload ==
  /\ map' = Reloaded(Saved(map))
  /\ enum' = NotRunning /\ rest' = {}

EnumReset ==
  /\ ~enum.on
  /\ enum' = [on |-> TRUE, i |-> -1]
  /\ rest' = {map.slot[i].d : i \in Full(map)}
  /\ UNCHANGED map

\* Mutant: the slot after the one returned last is skipped.
SkipsOne(m, i) == {j \in Slots(m) : j > i + 1 /\ Present(m, j)}

\* The slots that an enumeration has before it.
Ahead(m, i) == {j \in Slots(m) : j > i /\ Present(m, j)}

EnumNext ==
  /\ enum.on
  /\ IF Ahead(map, enum.i) = {}
     THEN enum' = NotRunning /\ UNCHANGED rest
     ELSE LET i == Min(Ahead(map, enum.i)) IN
          /\ enum' = [enum EXCEPT !.i = i]
          /\ rest' = rest \ {map.slot[i].d}
  /\ UNCHANGED map

Init == map = EmptyMap(1) /\ enum = NotRunning /\ rest = {}

Next ==
  \/ \E d \in Keys, r \in Values : add(d, r)
  \/ \E d \in Keys : remove(d)
  \/ reset
  \/ SaveAndReload
  \/ EnumReset
  \/ EnumNext

Spec == Init /\ [][Next]_vars

-----------------------------------------------------------------------------
(* Properties.                                                             *)

\* fullInvariants and partialInvariants (map.h:594-627): cdr counts the
\* present slots and is under the limit, so that a slot is free for every
\* addition, whatever tombstones are left and after every growth and reload.
FullInvariants ==
  /\ map.cdr = Cardinality(Full(map))
  /\ map.cdr > 0 => map.cdr < cdrLoadMax(map)
  /\ \A d \in Keys : ~contains(map, d) => FreeProbes(map, d) # {}

\* No key has two slots: an addition that reuses a tombstone has looked for
\* the key behind it first (map.h:448-471).
OneSlotPerKey ==
  \A i, j \in Slots(map) :
    Present(map, i) /\ Present(map, j) /\ map.slot[i].d = map.slot[j].d => i = j

\* What the map stands for: what find finds.
ToDict(m) ==
  [d \in {k \in Keys : contains(m, k)} |-> m.slot[IndexOf(m, d)].r]

\* The map is a dictionary: what find finds is what was added last and not removed, over
\* collisions, tombstones, growth, save and reload (map.h:321-592).  It is DictSpec, said of
\* the steps that change the map: no other can change what it stands for.
Dict == INSTANCE Dictionary WITH dict <- ToDict(map)
ImplementsDictionary ==
  Dict!DictInit /\ [][map' # map => [Dict!DictNext]_(ToDict(map))]_map

\* "EnumMap must continue to enumerate correctly in the presence of
\* Map<foo>::remove() being called in the midst of the enumeration"
\* (map.h:670): what it has still to return, of the
\* keys that were there from its start, is what lies ahead of it.
EnumFaithful ==
  enum.on => rest = {map.slot[i].d : i \in Ahead(map, enum.i)}

\* What a client of the map relies on, in every state (map.h:321-700).
MapRight == FullInvariants /\ OneSlotPerKey /\ EnumFaithful
=============================================================================
