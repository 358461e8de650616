----------------------------- MODULE LruTtlStore -----------------------------
(***************************************************************************)
(* LRUTTLCache of cache/lru_ttl.py as operators on a store, a record of    *)
(*   items  the entries, least recently used first, each with its key, its *)
(*          value and the time it has left                                 *)
(*   sizes  byte estimate of each key (_entry_bytes)                       *)
(*   bytes  _current_bytes                                                 *)
(* An entry whose time is up stays until it is looked up or evicted.       *)
(***************************************************************************)
EXTENDS Integers, Sequences, FiniteSetsExt, Functions

CONSTANTS
    MaxEntries,   \* max_entries
    MaxBytes      \* max_bytes

ASSUME StoreConfig == MaxEntries \in Nat \ {0} /\ MaxBytes \in Nat \ {0}

EmptyStore == [items |-> <<>>, sizes |-> <<>>, bytes |-> 0]

KeysOf(s) == {s.items[i].key : i \in DOMAIN s.items}
Entries(s) == {s.items[i] : i \in DOMAIN s.items}

Place(s, k) == CHOOSE i \in DOMAIN s.items : s.items[i].key = k

Without(s, k) ==
    IF k \in KeysOf(s)
    THEN SubSeq(s.items, 1, Place(s, k) - 1)
         \o SubSeq(s.items, Place(s, k) + 1, Len(s.items))
    ELSE s.items

SizeOf(s, k) == IF k \in DOMAIN s.sizes THEN s.sizes[k] ELSE 0

(* Fault: the bytes of a removed entry stay counted.                       *)
RemoveKeepsBytes(s, k) ==
    [s EXCEPT !.items = Without(s, k), !.sizes = Restrict(@, DOMAIN @ \ {k})]

Remove(s, k) ==
    [items |-> Without(s, k),
     sizes |-> Restrict(s.sizes, DOMAIN s.sizes \ {k}),
     bytes |-> s.bytes - SizeOf(s, k)]

Found(s, k) == s.items[Place(s, k)]

(* Fault: whether an entry has expired is not looked at.                   *)
FreshForever(s, k) == k \in KeysOf(s)

Fresh(s, k) == k \in KeysOf(s) /\ Found(s, k).left > 0

(* The store after get(k): an expired entry is dropped, a hit moved to the *)
(* end.  Its time left does not change.                                    *)
Touch(s, k) ==
    IF Fresh(s, k) THEN [s EXCEPT !.items = Append(Without(s, k), Found(s, k))]
                   ELSE Remove(s, k)

Fits(s) ==
    /\ Len(s.items) <= MaxEntries
    /\ s.bytes <= MaxBytes \/ Len(s.items) <= 1

(* The n least recently used entries are dropped.                          *)
DropFirst(s, n) ==
    LET gone == {s.items[i].key : i \in 1 .. n}
    IN  [items |-> SubSeq(s.items, n + 1, Len(s.items)),
         sizes |-> Restrict(s.sizes, DOMAIN s.sizes \ gone),
         bytes |-> s.bytes - SumFunction([k \in gone |-> SizeOf(s, k)])]

Evicted(s) ==
    DropFirst(s, Min({n \in 0 .. Len(s.items) : Fits(DropFirst(s, n))}))

(* put: a replaced entry moves to the end and starts a new life.           *)
Put(s, entry, size) ==
    LET others == Remove(s, entry.key)
    IN  Evicted([items |-> Append(others.items, entry),
                 sizes |-> [k \in DOMAIN others.sizes \cup {entry.key} |->
                              IF k = entry.key THEN size ELSE others.sizes[k]],
                 bytes |-> others.bytes + size])

(* Time passes.                                                            *)
Aged(e) == [e EXCEPT !.left = IF @ > 0 THEN @ - 1 ELSE 0]

Older(s) == [s EXCEPT !.items = [i \in DOMAIN s.items |-> Aged(s.items[i])]]

-----------------------------------------------------------------------------

(* What the three fields of a store must have in common, whatever mixture  *)
(* of hits, expiries, replacements and evictions it has been through: one  *)
(* entry per key, bytes that are those of the entries, and both limits.    *)
Accounts(s) ==
    /\ Cardinality(KeysOf(s)) = Len(s.items)
    /\ DOMAIN s.sizes = KeysOf(s)
    /\ s.bytes = SumFunction(s.sizes)
    /\ Fits(s)

=============================================================================
