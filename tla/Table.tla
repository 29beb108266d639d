-------------------------------- MODULE Table ---------------------------------
(* The hash table of lws_table.c: open addressing with double hashing, where  *)
(* an insertion may move another entry out of its way (Brent's method),       *)
(* tombstones, rehashing, and a queue of the entries in the order of their    *)
(* insertion or, in a capped table, of their use.  The header tables are not  *)
(* capped and are cleared between requests; the stat cache is capped and      *)
(* never cleared.  Keys are compared whole, values are opaque, and            *)
(* the timeouts, which no caller sets, are left out.                          *)
EXTENDS Integers, FiniteSets, SequencesExt

CONSTANTS
  Keys, Values, None,
  Hashes,          \* the hash functions, [Keys -> Nat], to look at
  Sizes,           \* the first of lws_table_sizes, ascending
  Caps,            \* the caps, lws_table_set_cap, to look at; 0: not capped
  MallocFails,     \* allocations that may fail: "rehash", "key", "key after a move"
  FreedKeyIntact   \* what a removed entry's key, freed, reads as: still itself, or garbage

ASSUME SizesAssumption ==   \* the sizes are odd primes
  /\ Sizes \in Seq(Nat) /\ Sizes # <<>>
  /\ \A i \in DOMAIN Sizes : Sizes[i] > 2 /\ \A d \in 2 .. (Sizes[i] - 1) : Sizes[i] % d # 0
ASSUME CapAssumption == Caps \subseteq Nat /\ FreedKeyIntact \in BOOLEAN
ASSUME HashAssumption == Hashes \subseteq [Keys -> Nat]
ASSUME KeyAssumption == IsFiniteSet(Keys) /\ None \notin Keys \cup Nat

VARIABLES
  hash,      \* the hash function: one of Hashes, for good
  entries,   \* slot -> [state, key, value]; DOMAIN entries is 0 .. alloc - 1
  order,     \* the queue: slots, head first
  count,
  cap,       \* the cap: one of Caps, for good
  used,      \* history: in a capped table, the key last found or set
  visited    \* history: the keys lws_table_next has given, when not capped

vars == <<hash, entries, order, count, cap, used, visited>>

Unused == [state |-> "unused", key |-> None, value |-> None]
Empty(alloc) == [s \in 0 .. (alloc - 1) |-> Unused]

Alloc(es) == Cardinality(DOMAIN es)

(* lws_table_load: about 7/8 of the slots.                                    *)
Load(alloc) == (alloc \div 2) + (alloc \div 4) + (alloc \div 8)

Init ==
  /\ hash \in Hashes /\ cap \in Caps
  /\ entries = Empty(Sizes[1])
  /\ order = <<>> /\ count = 0 /\ used = None /\ visited = <<>>

(******************************* Probing *************************************)
Step(k, alloc) == (hash[k] % (alloc - 2)) + 1

(* The slot n steps from slot s on the probe chain of key k.                  *)
Along(es, s, k, n) == (s + n * Step(k, Alloc(es))) % Alloc(es)
Chain(es, k, n) == Along(es, hash[k] % Alloc(es), k, n)
Steps(es) == 0 .. (Alloc(es) - 1)

(* lws_table_find does not look at the state before it compares the key.      *)
Matches(e, k) == e.key = k /\ (e.state = "set" \/ FreedKeyIntact)

Find(k) ==
  LET hits == {n \in Steps(entries) :
                 /\ Matches(entries[Chain(entries, k, n)], k)
                 /\ \A m \in 0 .. n : entries[Chain(entries, k, m)].state # "unused"}
  IN  IF hits = {} THEN None ELSE Chain(entries, k, Min(hits))

(* Steps from s along k's chain to the first slot that is not set.            *)
Free(es, s, k) == Min({n \in Steps(es) : es[Along(es, s, k, n)].state # "set"})

(* lws_table_insert: the slot for a new key k, and the slot to which the      *)
(* entry found there is moved, None when it is free.  "worst" is the length   *)
(* of k's chain without a move.  A later move replaces an earlier one while   *)
(* its own start is nearer than the length of the earlier one's.              *)
BestMove(moves, moveLen) ==
  Max({n \in moves : \A m \in moves : m < n =>
         Min({x \in moves : x > m}) + 1 < moveLen[m]})

Place(es, k) ==
  LET home == hash[k] % Alloc(es)
      worst == Free(es, home, k) + 1
      at(n) == Chain(es, k, n)
      moveLen == [n \in 0 .. (worst - 3) |-> Free(es, at(n), es[at(n)].key)]
      moves == {n \in DOMAIN moveLen : n + 1 + moveLen[n] < worst}
      n == BestMove(moves, moveLen)
  IN  IF moves = {} THEN [slot |-> at(worst - 1), to |-> None]
      ELSE [slot |-> at(n), to |-> Along(es, at(n), es[at(n)].key, moveLen[n])]

(* The move itself: the entry is copied and its neighbours in the queue now   *)
(* point to the copy.                                                         *)
MutForgetsMove(es, p) == es   \* mutant: the entry is overwritten where it is
MovedEntries(es, p) == IF p.to = None THEN es ELSE [es EXCEPT ![p.to] = es[p.slot]]
MutKeepsLinks(q, p) == q   \* mutant: the neighbours are not told of the move
MovedOrder(q, p) == IF p.to = None THEN q ELSE ReplaceAll(q, p.slot, p.to)

(**************************** Parts of lws_table_set *************************)
(* lws_table_remove leaves a tombstone: chains may pass through the slot.     *)
MutLeavesHole(es, s) == [es EXCEPT ![s] = Unused]   \* mutant: no tombstone
Removed(es, s) == [es EXCEPT ![s].state = "deleted"]

(* The table and the queue, once room is made under the cap.                  *)
MustEvict == cap > 0 /\ count = cap

Evicted ==
  IF MustEvict THEN [es |-> Removed(entries, Head(order)), q |-> Tail(order), n |-> count - 1]
  ELSE [es |-> entries, q |-> order, n |-> count]

MutOverLoad(t) == t.n > Load(Alloc(t.es))   \* mutant: one entry too late
MustRehash(t) == t.n = Load(Alloc(t.es))

Larger(alloc) == {i \in DOMAIN Sizes : Sizes[i] > alloc}

MutReinsert(es, s, new) ==   \* mutant: the entry goes to the queue's tail
  LET p == Place(new.es, es[s].key)
  IN  [es |-> [MovedEntries(new.es, p) EXCEPT ![p.slot] = es[s]],
       q |-> Append(MovedOrder(new.q, p), p.slot)]
(* lws_table_rehash inserts the entries anew, the last one of the queue first.*)
Reinsert(es, s, new) ==
  LET p == Place(new.es, es[s].key)
  IN  [es |-> [MovedEntries(new.es, p) EXCEPT ![p.slot] = es[s]],
       q |-> <<p.slot>> \o MovedOrder(new.q, p)]

Rehashed(t) ==
  LET empty == [es |-> Empty(Sizes[Min(Larger(Alloc(t.es)))]), q |-> <<>>]
      new[n \in 0 .. Len(t.q)] ==   \* with the last n entries of the queue
        IF n = 0 THEN empty ELSE Reinsert(t.es, t.q[Len(t.q) + 1 - n], new[n - 1])
  IN  [es |-> new[Len(t.q)].es, q |-> new[Len(t.q)].q, n |-> t.n]

Roomy(t) == IF MustRehash(t) THEN Rehashed(t) ELSE t
CanGrow(t) == ~MustRehash(t) \/ Larger(Alloc(t.es)) # {}

(* In a capped table an entry in use goes to the queue's tail.                *)
Unlinked(q, s) == RemoveAt(q, SelectInSeq(q, LAMBDA x : x = s))
Touched(q, s) == IF cap > 0 THEN Append(Unlinked(q, s), s) ELSE q

Uses(k) == used' = IF cap > 0 THEN k ELSE None

(****************************** Operations ***********************************)
(* lws_table_get                                                              *)
Get(k) ==
  /\ Find(k) # None /\ Uses(k)
  /\ order' = Touched(order, Find(k))
  /\ UNCHANGED <<hash, entries, count, cap, visited>>

(* lws_table_set of a key that is found                                       *)
Update(k, v) ==
  /\ Find(k) # None /\ Uses(k)
  /\ entries' = [entries EXCEPT ![Find(k)].value = v]
  /\ order' = Touched(order, Find(k))
  /\ UNCHANGED <<hash, count, cap, visited>>

(* lws_table_set of a key that is not found                                   *)
Add(k, v) ==
  /\ Find(k) = None /\ CanGrow(Evicted) /\ Uses(k)
  /\ LET t == Roomy(Evicted)
         p == Place(t.es, k)
     IN  /\ entries' = [MovedEntries(t.es, p) EXCEPT
                          ![p.slot] = [state |-> "set", key |-> k, value |-> v]]
         /\ order' = Append(MovedOrder(t.q, p), p.slot)
         /\ count' = t.n + 1
  /\ UNCHANGED <<hash, cap, visited>>

(* There is no memory, or no larger size, for a rehash: the eviction is done. *)
AddCannotRehash(k) ==
  /\ Find(k) = None /\ MustRehash(Evicted)
  /\ "rehash" \in MallocFails \/ ~CanGrow(Evicted)
  /\ entries' = Evicted.es /\ order' = Evicted.q /\ count' = Evicted.n
  /\ UNCHANGED <<hash, cap, used, visited>>

(* There is no memory for the key: the slot keeps its state but loses its key,*)
(* and the move that made it available is done.                               *)
AddCannotCopyKey(k) ==
  /\ Find(k) = None /\ CanGrow(Evicted)
  /\ LET t == Roomy(Evicted)
         p == Place(t.es, k)
     IN  /\ (IF p.to = None THEN "key" ELSE "key after a move") \in MallocFails
         /\ entries' = [MovedEntries(t.es, p) EXCEPT ![p.slot].key = None]
         /\ order' = MovedOrder(t.q, p)
         /\ count' = t.n
  /\ UNCHANGED <<hash, cap, used, visited>>

MutClear ==   \* mutant: the number of entries is not reset
  /\ cap = 0 /\ entries' = Empty(Alloc(entries)) /\ order' = <<>> /\ visited' = <<>>
  /\ UNCHANGED <<hash, count, cap, used>>
(* lws_table_clear, called on the header tables only                          *)
Clear ==
  /\ cap = 0
  /\ entries' = Empty(Alloc(entries)) /\ order' = <<>> /\ count' = 0 /\ visited' = <<>>
  /\ UNCHANGED <<hash, cap, used>>

(* lws_table_next: the slot after the one of the last key given, which is     *)
(* looked up again, or the head of the queue; None at the queue's end, and    *)
(* when the key is not found.                                                 *)
NextSlot ==
  LET at == IF visited = <<>> THEN 0 ELSE SelectInSeq(order, LAMBDA s : s = Find(Last(visited)))
      found == visited = <<>> \/ Find(Last(visited)) # None
  IN  IF found /\ at < Len(order) THEN order[at + 1] ELSE None

NextKey ==
  /\ cap = 0 /\ NextSlot # None
  /\ visited' = Append(visited, entries[NextSlot].key)
  /\ UNCHANGED <<hash, entries, order, count, cap, used>>

NoNextKey ==
  /\ cap = 0 /\ NextSlot = None /\ visited' = <<>>
  /\ UNCHANGED <<hash, entries, order, count, cap, used>>

Next ==
  \/ \E k \in Keys : \/ Get(k) \/ AddCannotRehash(k) \/ AddCannotCopyKey(k)
                     \/ \E v \in Values : Update(k, v) \/ Add(k, v)
  \/ Clear \/ NextKey \/ NoNextKey

Spec == Init /\ [][Next]_vars

(****************************** Properties ***********************************)
(* Every variable keeps its type.                                             *)
TypeOK ==
  /\ hash \in Hashes
  /\ \E i \in DOMAIN Sizes : DOMAIN entries = 0 .. (Sizes[i] - 1)
  /\ \A s \in DOMAIN entries :
       /\ entries[s].state \in {"unused", "set", "deleted"}
       /\ entries[s].key \in Keys \cup {None} /\ entries[s].value \in Values \cup {None}
  /\ order \in Seq(DOMAIN entries)
  /\ count \in 0 .. Cardinality(Keys) /\ cap \in Caps /\ used \in Keys \cup {None}
  /\ visited \in Seq(Keys)

SetSlots == {s \in DOMAIN entries : entries[s].state = "set"}

(* The queue holds the set entries, each once, and count is their number,     *)
(* whatever was moved, rehashed or evicted.                                   *)
CountIsEntries ==
  /\ count = Cardinality(SetSlots)
  /\ ToSet(order) = SetSlots /\ Len(order) = count

(* A lookup finds entries that are set, never a removed one.                  *)
FindsOnlySet == \A k \in Keys : Find(k) # None => Find(k) \in SetSlots

(* A free slot is left, so that an insertion's probing ends.                  *)
LoadRespected == count <= Load(Alloc(entries)) /\ SetSlots # DOMAIN entries

(* An iteration (pairs in Lua, the headers' output) gives every key once, in  *)
(* the order of insertion, the keys added meanwhile included, although sets   *)
(* may move the entry it stands on or rehash the table between two steps.     *)
PairsVisitsAll ==
  LET keys == [i \in DOMAIN order |-> entries[order[i]].key]
  IN  /\ IsPrefix(visited, keys)
      /\ cap = 0 /\ NextSlot = None => visited = keys

(* The table implements the map it is used as, its order and its eviction     *)
(* included.                                                                  *)
Map == INSTANCE LruMap WITH
  content <- [i \in DOMAIN order |-> [key |-> entries[order[i]].key,
                                      value |-> entries[order[i]].value]]
ImplementsMap == Map!Spec

(* A lookup returns what the map holds: no move, rehash or tombstone has cut  *)
(* a probe chain.                                                             *)
LookupAgrees ==
  \A k \in Keys : (IF Find(k) = None THEN None ELSE entries[Find(k)].value) = Map!Lookup(k)

(************************* Inductive invariant *******************************)
(* A lookup of key k gets to slot s: no slot before it on the chain is unused.*)
Reached(es, k, s) ==
  \E n \in Steps(es) : /\ Chain(es, k, n) = s
                       /\ \A m \in 0 .. (n - 1) : es[Chain(es, k, m)].state # "unused"

Placed(es) ==
  \A s \in DOMAIN es : es[s].state = "set" => Reached(es, es[s].key, s)

(* The queue holds the set entries, whose keys are different.                 *)
Queued(es, q) ==
  /\ q \in Seq(DOMAIN es)
  /\ \A s \in DOMAIN es : es[s].state = "set" <=> \E i \in DOMAIN q : q[i] = s
  /\ \A i, j \in DOMAIN q : es[q[i]].key = es[q[j]].key => i = j

Entry == [state : {"unused", "set", "deleted"}, key : Keys \cup {None}, value : Values \cup {None}]

Typed(es) ==
  /\ \E i \in DOMAIN Sizes : DOMAIN es = 0 .. (Sizes[i] - 1)
  /\ es \in [DOMAIN es -> Entry]
  /\ \A s \in DOMAIN es : es[s].state = "set" => es[s].key \in Keys

TableInv ==
  /\ hash \in Hashes /\ cap \in Caps /\ used \in Keys \cup {None}
  /\ Typed(entries) /\ Placed(entries) /\ Queued(entries, order)
  /\ count = Len(order) /\ count <= Load(Alloc(entries))

(* An iteration has given the keys of the queue up to where it is.            *)
VisitInv ==
  /\ visited \in Seq(Keys) /\ Len(visited) <= Len(order)
  /\ \A i \in DOMAIN visited : visited[i] = entries[order[i]].key
  /\ cap > 0 => visited = <<>>
===============================================================================
