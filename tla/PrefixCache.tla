------------------------------ MODULE PrefixCache ------------------------------
(***************************************************************************)
(* The two tiers of server/prefix_cache.py: PrefixCache and its            *)
(* _BlockStore, as operators that take the cache's fields, a record `c`,   *)
(* to what the call leaves in them.                                        *)
(*                                                                         *)
(* A token sequence stands for its hash: chain_hashes and tail_hash are    *)
(* taken to be free of collisions, so the key of a checkpoint is the       *)
(* tokens it covers, and the slot of the index it is filed under is its    *)
(* whole blocks and its length.  What a block or a residual window holds   *)
(* is the tokens that were fed to compute it, from the first one on.       *)
(* Layers and the two sides of a block only multiply sizes: there is one.  *)
(***************************************************************************)
EXTENDS Integers, SequencesExt

CONSTANTS
  BlockSize,       \* block_size: tokens in a link of the hash chain
  Capacity,        \* capacity_bytes of the host tier
  SpillCapacity,   \* spill_bytes of the storage tier; 0 also stands for no spill_dir
  TokenBytes       \* bytes of an exact token; a quantized one takes 1

ASSUME PrefixCacheAssumption ==
  /\ BlockSize \in Nat \ {0} /\ Capacity \in Nat \ {0}
  /\ SpillCapacity \in Nat /\ TokenBytes \in Nat \ {0}

None == 0          \* no store key: they are positive here
NoKey == << >>     \* no entry: an entry covers at least one token

EmptyCache == [entries |-> << >>, order |-> << >>, index |-> << >>,
               store |-> << >>, spilled |-> << >>, aged |-> << >>]

Without(f, gone) == [x \in DOMAIN f \ gone |-> f[x]]
With(f, x, v) == [y \in DOMAIN f \cup {x} |-> IF y = x THEN v ELSE f[y]]
Touch(s, x) == Append(RemoveFirst(s, x), x)      \* an order lists nothing twice
\* What is left of a sequence without `gone`, in its order
Others(s, gone) ==
  LET left[n \in 0..Len(s)] ==
        IF n = 0 THEN << >>
        ELSE IF s[n] \in gone THEN left[n - 1] ELSE Append(left[n - 1], s[n])
  IN  left[Len(s)]

Occurrences(s, x) == Cardinality({i \in DOMAIN s : s[i] = x})

-----------------------------------------------------------------------------
(* Sizes.  A block is [from, text]: the tokens after `from` to the end of  *)
(* `text`.  A checkpoint is [text, split, blocks]: blocks to `split`, and  *)
(* the residual window after it.                                           *)

BlockBytes(b) == Len(b.text) - b.from
ResidentBytes(k) == TokenBytes * (Len(k.text) - k.split)
HostBytes(c) ==
  SumFunction([k \in DOMAIN c.store |-> BlockBytes(c.store[k].block)])
    + SumFunction([key \in DOMAIN c.entries |-> ResidentBytes(c.entries[key])])
FileBytes(f) ==
  ResidentBytes(f) + SumFunction([i \in DOMAIN f.blocks |-> BlockBytes(f.blocks[i])])
SpilledBytes(c, keys) == SumFunction([key \in keys |-> FileBytes(c.spilled[key])])

-----------------------------------------------------------------------------
(* _BlockStore.  A counter gives put() its keys in the code; here a key is *)
(* fresh when nothing holds it, which is all the code can tell of one.     *)

FreshKeys(used, places) ==
  CHOOSE keys \in [places -> 1..(Cardinality(used) + Cardinality(places)) \ used] : IsInjective(keys)

\* put() of blocks under new keys, referenced `refs` times
StoreBlocks(store, keys, blocks, refs) ==
  [k \in DOMAIN store \cup Range(keys) |->
     IF k \in Range(keys)
     THEN [block |-> blocks[CHOOSE i \in DOMAIN keys : keys[i] = k], refs |-> refs]
     ELSE store[k]]

\* acquire(): up to the first key the store does not have, which raises
Acquired(store, keys) ==
  LET missing == SelectInSeq(keys, LAMBDA k : k \notin DOMAIN store)
  IN  IF missing = 0 THEN keys ELSE SubSeq(keys, 1, missing - 1)
Acquire(store, keys) ==
  [k \in DOMAIN store |->
     [store[k] EXCEPT !.refs = @ + Occurrences(Acquired(store, keys), k)]]

Release(store, keys) ==
  LET left == [k \in DOMAIN store |-> [store[k] EXCEPT !.refs = @ - Occurrences(keys, k)]]
  IN  Without(left, {k \in Range(keys) : left[k].refs <= 0})

-----------------------------------------------------------------------------
(* Filing a checkpoint, and ageing one out                                 *)

WholeBlocks(key) == (Len(key) \div BlockSize) * BlockSize
Slot(key) == <<SubSeq(key, 1, WholeBlocks(key)), Len(key)>>

Index(c, key) == With(c.index, Slot(key), key)
ForgetIndex(index, key) ==
  Without(index, {slot \in DOMAIN index : slot = Slot(key) /\ index[slot] = key})

\* _materialize: a file shares nothing
Materialized(c, k) == [k EXCEPT !.blocks = [i \in DOMAIN @ |-> c.store[@[i]].block]]

\* How many of the files to drop, oldest first, for the rest to fit
Surplus(c) ==
  Min({n \in 0..Len(c.aged) :
         SpilledBytes(c, ToSet(SubSeq(c.aged, n + 1, Len(c.aged)))) <= SpillCapacity})
DropOldestFiles(c) ==
  [c EXCEPT !.spilled = Without(@, ToSet(SubSeq(c.aged, 1, Surplus(c)))),
            !.aged = SubSeq(@, Surplus(c) + 1, Len(@))]

\* `writable`: whether the disk takes what is written to it
Spill(c, key, writable) ==
  CASE SpillCapacity = 0 -> c
    [] SpillCapacity # 0 /\ key \in DOMAIN c.spilled -> [c EXCEPT !.aged = Touch(@, key)]
    [] SpillCapacity # 0 /\ key \notin DOMAIN c.spilled /\ ~writable -> c
    [] OTHER ->
         DropOldestFiles([c EXCEPT !.spilled = With(@, key, Materialized(c, c.entries[key])),
                                   !.aged = Append(@, key)])

Evict(c, key, writable) ==
  LET s == Spill(c, key, writable)
  IN  [s EXCEPT !.entries = Without(@, {key}),
                !.order = RemoveFirst(@, key),
                !.store = Release(@, c.entries[key].blocks),
                !.index = IF key \in DOMAIN s.spilled THEN @ ELSE ForgetIndex(@, key)]

EvictToFit(c, protect, writable) ==
  LET fit[n \in 0..Len(c.order)] ==
        IF n = 0 THEN c
        ELSE LET d == fit[n - 1]
             IN  IF d.order = << >> \/ HostBytes(d) <= Capacity \/ Head(d.order) = protect
                 THEN d
                 ELSE Evict(d, Head(d.order), writable)
  IN  fit[Len(c.order)]

-----------------------------------------------------------------------------
(* put, lookup and clear                                                   *)

\* What put does with a checkpoint whose blocks are in the store
Admit(c, key, k, writable) ==
  EvictToFit([c EXCEPT !.store = Acquire(@, k.blocks),
                       !.entries = With(@, key, k),
                       !.order = Append(@, key),
                       !.index = Index(c, key)], NoKey, writable)

Raises(c, key, k) == key \notin DOMAIN c.entries /\ ~(ToSet(k.blocks) \subseteq DOMAIN c.store)

Put(c, key, k, writable) ==
  CASE key \in DOMAIN c.entries -> [c EXCEPT !.order = Touch(@, key)]
    [] Raises(c, key, k) -> [c EXCEPT !.store = Acquire(@, k.blocks)]
    [] OTHER -> Admit(c, key, k, writable)

\* Broken variant: the blocks read back are not acquired
LoadUnheld(c, key, writable) ==
  LET file == c.spilled[key]
      keys == FreshKeys(DOMAIN c.store, DOMAIN file.blocks)
  IN  [c EXCEPT !.store = StoreBlocks(@, keys, file.blocks, 0),
                !.entries = With(@, key, [file EXCEPT !.blocks = keys]),
                !.order = Append(@, key),
                !.aged = Touch(@, key)]

\* _load_spilled: the blocks of the file go to the store under new keys
Load(c, key, writable) ==
  LET file == c.spilled[key]
      keys == FreshKeys(DOMAIN c.store, DOMAIN file.blocks)
  IN  EvictToFit([c EXCEPT !.store = StoreBlocks(@, keys, file.blocks, 1),
                           !.entries = With(@, key, [file EXCEPT !.blocks = keys]),
                           !.order = Append(@, key),
                           !.aged = Touch(@, key)], key, writable)

ForgetSpilled(c, keys) ==
  [c EXCEPT !.spilled = Without(@, keys), !.aged = Others(@, keys)]

\* Broken variant: a slot of the chain is taken for a match without comparing the tail
ConfirmedByChain(c, tokens) ==
  {c.index[slot] : slot \in {s \in DOMAIN c.index : IsPrefix(s[1], tokens) /\ s[2] <= Len(tokens)}}

\* The keys the walk back along the hash chain confirms against the prompt
Confirmed(c, tokens) ==
  {c.index[slot] : slot \in {s \in DOMAIN c.index : IsPrefix(c.index[s], tokens)}}

\* lookup: the longest confirmed key that is there; and what is left when the
\* files can be read or when none can
Found(c, tokens, readable) ==
  LET there == {key \in Confirmed(c, tokens) :
                  key \in DOMAIN c.entries \/ (readable /\ key \in DOMAIN c.spilled)}
  IN  IF there = {} THEN NoKey
      ELSE CHOOSE key \in there : \A other \in there : Len(other) <= Len(key)

Lookup(c, tokens, readable, writable) ==
  LET key == Found(c, tokens, readable)
      tried == {other \in Confirmed(c, tokens) :
                  other \notin DOMAIN c.entries /\ Len(other) > Len(key)}
      d == ForgetSpilled(c, tried)
  IN  CASE key = NoKey -> d
        [] key \in DOMAIN c.entries -> [d EXCEPT !.order = Touch(@, key)]
        [] OTHER -> Load(d, key, writable)

\* clear(drop_spilled) empties the host tier; the index stays
Clear(c, drop) ==
  LET released[n \in 0..Len(c.order)] ==
        IF n = 0 THEN c.store ELSE Release(released[n - 1], c.entries[c.order[n]].blocks)
      d == [c EXCEPT !.store = released[Len(c.order)], !.entries = << >>, !.order = << >>]
  IN  IF drop THEN [d EXCEPT !.spilled = << >>, !.aged = << >>] ELSE d
================================================================================
