---------------------------- MODULE GenerationProofs ----------------------------
(***************************************************************************)
(* A checkpoint holds the tokens of its key in both tiers, and the live    *)
(* cache follows the tokens of the request, for every vocabulary, prompt,  *)
(* group, window, capacity and failing disk.                               *)
(***************************************************************************)
EXTENDS Generation, Collections, FiniteSetTheorems, FunctionTheorems, TLAPS

Texts == Seq(Vocabulary)
StoreKeys == Nat \ {0}
Blocks == {b \in [from : Nat, text : Texts] : IsBlock(b)}
Checkpoints == {k \in [text : Texts, split : Nat, blocks : Seq(StoreKeys)] : k.split <= Len(k.text)}
Files == {f \in [text : Texts, split : Nat, blocks : Seq(Blocks)] : f.split <= Len(f.text)}
Stored == [block : Blocks, refs : Int]

\* The functions from some of A to B, and what the fields of a PrefixCache are.
Partial(A, B) == UNION {[S -> B] : S \in SUBSET A}
Entries == Partial(Texts \ {NoKey}, Checkpoints)
Stores == Partial(StoreKeys, Stored)
Caches == [entries : Entries, order : Seq(Texts), index : Partial({Slot(key) : key \in Texts}, Texts),
           store : Stores, spilled : Partial(Texts \ {NoKey}, Files), aged : Seq(Texts)]

\* Blocks that tile a text up to `split`, none of them past it
Tiled(blocks, text, split) ==
  Tile(blocks, text, split) /\ \A i \in DOMAIN blocks : Len(blocks[i].text) <= split

\* The boundary of n tokens: whole groups, all that go past the window, and none past the window of
\* what a pass may have fed.
Level(n, split) ==
  /\ split \in Nat /\ n - Window - split < Group /\ \E q \in Nat : split = q * Group
  /\ split = 0 \/ \E look \in Lookaheads \cup {0} : split <= n + look - Window

\* Blocks that tile a text up to its boundary
Sealed(blocks, text, split) == Tiled(blocks, text, split) /\ Level(Len(text), split)

\* What the keys of a checkpoint stand for, and the entries that name a block
Named(store, keys) == [i \in DOMAIN keys |-> store[keys[i]].block]
Namers(entries, k) == {key \in DOMAIN entries : k \in ToSet(entries[key].blocks)}

EntryHolds(entries, store, key) ==
  LET k == entries[key]
  IN  /\ k.text = key /\ IsInjective(k.blocks) /\ ToSet(k.blocks) \subseteq DOMAIN store
      /\ Sealed(Named(store, k.blocks), key, k.split)

\* The host tier: checkpoints hold their tokens and blocks are referenced as often as named
Held(entries, store) ==
  /\ \A key \in DOMAIN entries : EntryHolds(entries, store, key)
  /\ \A k \in DOMAIN store : Cardinality(Namers(entries, k)) <= store[k].refs

\* The storage tier: files hold their tokens, are listed once, and fit
FilesHold(c) ==
  \A key \in DOMAIN c.spilled :
    c.spilled[key].text = key /\ Sealed(c.spilled[key].blocks, key, c.spilled[key].split)
FilesListed(c) == Range(c.aged) = DOMAIN c.spilled /\ IsInjective(c.aged)
FilesFit(c) == SpilledBytes(c, DOMAIN c.spilled) <= SpillCapacity
Filed(c) == FilesHold(c) /\ FilesListed(c) /\ FilesFit(c)

\* The inductive invariant of a PrefixCache, but for the room in its host tier
Sound(c) ==
  /\ c \in Caches /\ IsFiniteSet(DOMAIN c.store)
  /\ Range(c.order) = DOMAIN c.entries /\ IsInjective(c.order)
  /\ Held(c.entries, c.store) /\ Filed(c)

\* What the entries hold, and whether it fits
HeldKeys(c) == UNION {ToSet(c.entries[key].blocks) : key \in DOMAIN c.entries}
HeldBytes(c) == HostBytes([c EXCEPT !.store = Without(@, DOMAIN @ \ HeldKeys(c))])
Fitting(c) == HeldBytes(c) <= Capacity \/ Len(c.order) = 1

\* The storage tier may change, the host tier does not
SameHost(c, d) ==
  d.entries = c.entries /\ d.order = c.order /\ d.store = c.store /\ d.index = c.index

\* Keys that are remembered for blocks, those still in the store being theirs
Remembers(store, keys, blocks) ==
  /\ keys \in Seq(StoreKeys) /\ IsInjective(keys) /\ Len(keys) <= Len(blocks)
  /\ \A i \in DOMAIN keys : keys[i] \in DOMAIN store => store[keys[i]].block = blocks[i]

\* A store some blocks may have gone from
Kept(store, after) ==
  DOMAIN after \subseteq DOMAIN store /\ \A k \in DOMAIN after : after[k].block = store[k].block

-----------------------------------------------------------------------------
(* Functions and sequences.                                                *)

\* A partial function is a function on its own domain.
LEMMA PartialIs ==
  ASSUME NEW A, NEW B, NEW f
  PROVE  f \in Partial(A, B) <=> f \in [DOMAIN f -> B] /\ DOMAIN f \subseteq A
BY DEF Partial

\* Adding a pair to a partial function.
LEMMA PartialMore ==
  ASSUME NEW A, NEW B, NEW f \in Partial(A, B), NEW x \in A, NEW v \in B
  PROVE  With(f, x, v) \in Partial(A, B)
<1>1. f \in [DOMAIN f -> B] /\ DOMAIN f \subseteq A BY PartialIs
<1>2. With(f, x, v) \in [DOMAIN f \cup {x} -> B] BY <1>1 DEF With
<1>3. DOMAIN f \cup {x} \in SUBSET A BY <1>1
<1> QED BY <1>2, <1>3 DEF Partial

\* Taking some away.
LEMMA PartialLess ==
  ASSUME NEW A, NEW B, NEW f \in Partial(A, B), NEW gone
  PROVE  Without(f, gone) \in Partial(A, B)
<1>1. f \in [DOMAIN f -> B] /\ DOMAIN f \subseteq A BY PartialIs
<1>2. Without(f, gone) \in [DOMAIN f \ gone -> B] BY <1>1 DEF Without
<1>3. DOMAIN f \ gone \in SUBSET A BY <1>1
<1> QED BY <1>2, <1>3 DEF Partial

\* The function from nothing.
LEMMA PartialNone == ASSUME NEW A, NEW B PROVE << >> \in Partial(A, B)
<1>1. DOMAIN << >> = {} OBVIOUS
<1>2. << >> \in [DOMAIN << >> -> B] BY <1>1
<1> QED BY <1>1, <1>2, PartialIs

\* In a sequence without repetitions a key occurs once or not at all.
LEMMA OccursOnce ==
  ASSUME NEW S, NEW s \in Seq(S), IsInjective(s), NEW x
  PROVE  Occurrences(s, x) = IF x \in ToSet(s) THEN 1 ELSE 0
<1> DEFINE I == {i \in DOMAIN s : s[i] = x}
<1>1. CASE x \in ToSet(s)
  <2>1. PICK i \in DOMAIN s : s[i] = x BY <1>1 DEF ToSet
  <2>2. I = {i} BY <2>1 DEF IsInjective
  <2> QED BY <1>1, <2>2, FS_Singleton DEF Occurrences
<1>2. CASE x \notin ToSet(s)
  <2>1. I = {} BY <1>2 DEF ToSet
  <2> QED BY <1>2, <2>1, FS_EmptySet DEF Occurrences
<1> QED BY <1>1, <1>2

\* There are enough keys that nothing has.
LEMMA KeysAreFresh ==
  ASSUME NEW used, IsFiniteSet(used), NEW places, IsFiniteSet(places)
  PROVE  /\ FreshKeys(used, places) \in [places -> StoreKeys \ used]
         /\ IsInjective(FreshKeys(used, places))
<1> DEFINE room == 1..(Cardinality(used) + Cardinality(places))
           free == room \ used
<1>1. Cardinality(used) \in Nat /\ Cardinality(places) \in Nat BY FS_CardinalityType
<1>2. IsFiniteSet(room) /\ Cardinality(room) = Cardinality(used) + Cardinality(places)
  <2>1. \A n \in Nat : IsFiniteSet(1..n) /\ Cardinality(1..n) = n
    <3>1. SUFFICES ASSUME NEW n \in Nat PROVE IsFiniteSet(1..n) /\ Cardinality(1..n) = n OBVIOUS
    <3>2. IsFiniteSet(1..n) /\ Cardinality(1..n) = IF 1 > n THEN 0 ELSE n - 1 + 1 BY FS_Interval
    <3> QED BY <3>2
  <2>2. Cardinality(used) + Cardinality(places) \in Nat BY <1>1
  <2> QED BY <2>1, <2>2
<1>3. IsFiniteSet(free) /\ Cardinality(places) <= Cardinality(free)
  <2>1. IsFiniteSet(room \cap used) /\ Cardinality(room \cap used) <= Cardinality(used)
    <3>1. room \cap used \subseteq used OBVIOUS
    <3> QED BY <3>1, FS_Subset
  <2>2. IsFiniteSet(free) /\ Cardinality(free) = Cardinality(room) - Cardinality(room \cap used)
    BY <1>2, FS_Difference
  <2>3. Cardinality(room \cap used) \in Nat BY <2>1, FS_CardinalityType
  <2> QED BY <1>1, <1>2, <2>1, <2>2, <2>3
<1>4. PICK b \in Bijection(places, 1..Cardinality(places)) : TRUE
  BY FS_CardinalityType, Fun_ExistsBijSymmetric DEF ExistsBijection
<1>5. PICK g \in Bijection(1..Cardinality(free), free) : TRUE
  BY <1>3, FS_CardinalityType DEF ExistsBijection
<1> DEFINE f == [p \in places |-> g[b[p]]]
<1>6. b \in [places -> 1..Cardinality(places)] /\ IsInjective(b)
  BY <1>4 DEF Bijection, Injection
<1>7. g \in [1..Cardinality(free) -> free] /\ IsInjective(g)
  BY <1>5 DEF Bijection, Injection
<1>8. Cardinality(free) \in Nat BY <1>3, FS_CardinalityType
<1>9. \A p \in places : b[p] \in 1..Cardinality(free) BY <1>1, <1>3, <1>6, <1>8
<1>10. f \in [places -> free] BY <1>7, <1>9
<1>11. IsInjective(f)
  <2>1. SUFFICES ASSUME NEW p \in places, NEW q \in places, g[b[p]] = g[b[q]] PROVE p = q
    BY DEF IsInjective
  <2>2. b[p] = b[q] BY <1>7, <1>9, <2>1 DEF IsInjective
  <2> QED BY <1>6, <2>2 DEF IsInjective
<1>12. FreshKeys(used, places) \in [places -> free] /\ IsInjective(FreshKeys(used, places))
  BY <1>10, <1>11 DEF FreshKeys
<1>13. free \subseteq StoreKeys \ used BY <1>1 DEF StoreKeys
<1> QED BY <1>12, <1>13

\* Removing a key from a sequence without repetitions.
LEMMA RemoveFirstOnce ==
  ASSUME NEW S, NEW s \in Seq(S), IsInjective(s), NEW e
  PROVE  /\ RemoveFirst(s, e) \in Seq(S) /\ IsInjective(RemoveFirst(s, e))
         /\ Range(RemoveFirst(s, e)) = Range(s) \ {e}
         /\ e \in Range(s) => Len(RemoveFirst(s, e)) = Len(s) - 1
<1>1. CASE RemoveFirst(s, e) = s /\ \A i \in 1..Len(s) : s[i] # e
  BY <1>1 DEF Range
<1>2. ASSUME NEW i \in 1..Len(s), s[i] = e, RemoveFirst(s, e) = RemoveAt(s, i)
      PROVE  /\ RemoveFirst(s, e) \in Seq(S) /\ IsInjective(RemoveFirst(s, e))
             /\ Range(RemoveFirst(s, e)) = Range(s) \ {e}
             /\ Len(RemoveFirst(s, e)) = Len(s) - 1
  <2> DEFINE r == RemoveAt(s, i)
  <2>1. /\ r \in Seq(S) /\ Len(r) = Len(s) - 1
        /\ \A j \in 1..(Len(s) - 1) : r[j] = IF j < i THEN s[j] ELSE s[j + 1]
    BY RemoveAtPlaces
  <2> HIDE DEF r
  <2>2. DOMAIN r = 1..(Len(s) - 1) /\ DOMAIN s = 1..Len(s) /\ Len(s) \in Nat BY <2>1
  <2>3. \A p, q \in 1..Len(s) : s[p] = s[q] => p = q BY <2>2 DEF IsInjective
  <2>4. IsInjective(r)
    <3>1. SUFFICES ASSUME NEW p \in 1..(Len(s) - 1), NEW q \in 1..(Len(s) - 1), r[p] = r[q] PROVE p = q
      BY <2>2 DEF IsInjective
    <3>2. (IF p < i THEN p ELSE p + 1) = (IF q < i THEN q ELSE q + 1)
      BY <2>1, <2>2, <2>3, <3>1
    <3> QED BY <3>2, <2>2
  <2>5. ASSUME NEW x \in Range(r) PROVE x \in Range(s) \ {e}
    <3>1. PICK j \in 1..(Len(s) - 1) : x = r[j] BY <2>2, <2>5 DEF Range
    <3>2. \E p \in 1..Len(s) : p # i /\ x = s[p]
      <4>1. CASE j < i
        <5>1. j \in 1..Len(s) /\ j # i /\ x = s[j] BY <2>1, <2>2, <3>1, <4>1
        <5> QED BY <5>1
      <4>2. CASE ~(j < i)
        <5>1. j + 1 \in 1..Len(s) /\ j + 1 # i /\ x = s[j + 1] BY <2>1, <2>2, <3>1, <4>2
        <5> QED BY <5>1
      <4> QED BY <4>1, <4>2
    <3> QED BY <1>2, <2>2, <2>3, <3>2 DEF Range
  <2>6. ASSUME NEW x \in Range(s) \ {e} PROVE x \in Range(r)
    <3>1. PICK p \in 1..Len(s) : x = s[p] /\ p # i BY <1>2, <2>2, <2>6 DEF Range
    <3>2. CASE p < i
      <4>1. p \in 1..(Len(s) - 1) /\ r[p] = x BY <2>1, <2>2, <3>1, <3>2
      <4> QED BY <2>2, <4>1 DEF Range
    <3>3. CASE p > i
      <4>1. p - 1 \in 1..(Len(s) - 1) /\ r[p - 1] = x BY <2>1, <2>2, <3>1, <3>3
      <4> QED BY <2>2, <4>1 DEF Range
    <3> QED BY <2>2, <3>1, <3>2, <3>3
  <2> QED BY <1>2, <2>1, <2>4, <2>5, <2>6 DEF r
<1> QED BY <1>1, <1>2, FirstPlace

\* Adding a key at the end of a sequence that does not have it.
LEMMA AppendOnce ==
  ASSUME NEW S, NEW s \in Seq(S), IsInjective(s), NEW e \in S, e \notin Range(s)
  PROVE  /\ Append(s, e) \in Seq(S) /\ IsInjective(Append(s, e))
         /\ Range(Append(s, e)) = Range(s) \cup {e} /\ Len(Append(s, e)) = Len(s) + 1
         /\ Last(Append(s, e)) = e
<1> DEFINE r == Append(s, e)
<1>1. /\ r \in Seq(S) /\ Len(s) \in Nat /\ DOMAIN r = 1..(Len(s) + 1) /\ DOMAIN s = 1..Len(s)
      /\ \A i \in 1..Len(s) : r[i] = s[i]
      /\ r[Len(s) + 1] = e
  OBVIOUS
<1> HIDE DEF r
<1>2. \A i \in 1..Len(s) : s[i] # e BY <1>1 DEF Range
<1>3. IsInjective(r) BY <1>1, <1>2 DEF IsInjective
<1>4. Range(r) = Range(s) \cup {e}
  <2>1. \A x \in Range(s) : x \in Range(r) BY <1>1 DEF Range
  <2>2. Len(s) + 1 \in DOMAIN r BY <1>1
  <2>3. e \in Range(r) BY <1>1, <2>2 DEF Range
  <2>4. \A x \in Range(r) : x \in Range(s) \/ x = e BY <1>1 DEF Range
  <2> QED BY <2>1, <2>3, <2>4
<1>5. Len(r) = Len(s) + 1 /\ Last(r) = e BY <1>1 DEF Last
<1> QED BY <1>1, <1>3, <1>4, <1>5 DEF r

\* Moving a key to the end.
LEMMA TouchOnce ==
  ASSUME NEW S, NEW s \in Seq(S), IsInjective(s), NEW e \in S
  PROVE  /\ Touch(s, e) \in Seq(S) /\ IsInjective(Touch(s, e))
         /\ Range(Touch(s, e)) = Range(s) \cup {e}
         /\ e \in Range(s) => Len(Touch(s, e)) = Len(s)
<1>1. /\ RemoveFirst(s, e) \in Seq(S) /\ IsInjective(RemoveFirst(s, e))
      /\ Range(RemoveFirst(s, e)) = Range(s) \ {e}
      /\ e \in Range(s) => Len(RemoveFirst(s, e)) = Len(s) - 1
  BY RemoveFirstOnce
<1>2. e \notin Range(RemoveFirst(s, e)) BY <1>1
<1>3. Len(s) \in Nat OBVIOUS
<1> QED BY <1>1, <1>2, <1>3, AppendOnce DEF Touch

\* What is left of a sequence without some keys.
LEMMA OthersOnce ==
  ASSUME NEW S, NEW s \in Seq(S), IsInjective(s), NEW gone
  PROVE  /\ Others(s, gone) \in Seq(S) /\ IsInjective(Others(s, gone))
         /\ Range(Others(s, gone)) = Range(s) \ gone
<1> DEFINE Body(n, t) == IF s[n] \in gone THEN t ELSE Append(t, s[n])
           Picks(g) == g = [n \in 0..Len(s) |-> IF n = 0 THEN << >> ELSE Body(n, g[n - 1])]
           step == [x \in (1..Len(s)) \X Seq(S) |-> Body(x[1], x[2])]
           left == CHOOSE g : Picks(g)
<1>0. Len(s) \in Nat /\ DOMAIN s = 1..Len(s) OBVIOUS
<1>1. \A n \in 1..Len(s), t \in Seq(S) : Body(n, t) \in Seq(S) OBVIOUS
<1>2. Others(s, gone) = left[Len(s)] BY DEF Others
<1> HIDE DEF Body
<1>3. step \in [(1..Len(s)) \X Seq(S) -> Seq(S)] BY <1>1
<1>4. << >> \in Seq(S) OBVIOUS
<1>5. PICK g : Walks(g, Len(s), Seq(S), << >>, step) BY <1>0, <1>3, <1>4, WalkExists
<1>6. Picks(g)
  <2>1. ASSUME NEW n \in 1..Len(s) PROVE g[n] = Body(n, g[n - 1])
    <3>1. n - 1 \in 0..Len(s) /\ g[n - 1] \in Seq(S) BY <1>5 DEF Walks
    <3> QED BY <1>5, <3>1 DEF Walks
  <2>2. g[0] = << >> /\ g = [n \in 0..Len(s) |-> g[n]] BY <1>5 DEF Walks
  <2> QED BY <2>1, <2>2
<1>7. Picks(left) BY <1>6
<1> HIDE DEF left
<1>8. left[0] = << >> /\ \A n \in 1..Len(s) : left[n] = Body(n, left[n - 1])
  BY <1>0, <1>7
<1> HIDE DEF Picks
<1> DEFINE Upto(n) == {s[i] : i \in 1..n}
           fine == {n \in 0..Len(s) : /\ left[n] \in Seq(S) /\ IsInjective(left[n])
                                      /\ Range(left[n]) = Upto(n) \ gone}
<1>9. 0 \in fine
  <2>1. left[0] \in Seq(S) /\ DOMAIN left[0] = {} BY <1>8
  <2>2. IsInjective(left[0]) /\ Range(left[0]) = {} BY <2>1 DEF IsInjective, Range
  <2>3. Upto(0) = {} OBVIOUS
  <2>4. 0 \in 0..Len(s) BY <1>0
  <2> QED BY <2>1, <2>2, <2>3, <2>4
<1>10. ASSUME NEW n \in 0..(Len(s) - 1), n \in fine PROVE n + 1 \in fine
  <2>1. /\ left[n] \in Seq(S) /\ IsInjective(left[n]) /\ Range(left[n]) = Upto(n) \ gone
        /\ n + 1 \in 1..Len(s) /\ s[n + 1] \in S
    BY <1>0, <1>10
  <2>2. left[n + 1] = IF s[n + 1] \in gone THEN left[n] ELSE Append(left[n], s[n + 1])
    BY <1>0, <1>8, <2>1 DEF Body
  <2>3. Upto(n + 1) = Upto(n) \cup {s[n + 1]} /\ s[n + 1] \notin Upto(n)
    BY <1>0, <2>1 DEF IsInjective
  <2>4. CASE s[n + 1] \in gone BY <1>0, <2>1, <2>2, <2>3, <2>4
  <2>5. CASE s[n + 1] \notin gone
    <3>1. /\ left[n + 1] \in Seq(S) /\ IsInjective(left[n + 1])
          /\ Range(left[n + 1]) = Range(left[n]) \cup {s[n + 1]}
      BY <2>1, <2>2, <2>3, <2>5, AppendOnce
    <3> QED BY <1>0, <2>1, <2>3, <2>5, <3>1
  <2> QED BY <2>4, <2>5
<1> HIDE DEF fine
<1>11. 0..Len(s) \subseteq fine BY <1>0, <1>9, <1>10, CountingUp
<1>12. Len(s) \in fine BY <1>0, <1>11
<1>13. Upto(Len(s)) = Range(s) BY <1>0 DEF Range
<1> QED BY <1>2, <1>12, <1>13 DEF fine

-----------------------------------------------------------------------------
(* Blocks in the store.                                                    *)

\* What a sequence lists is a finite set.
LEMMA ListedFinite ==
  ASSUME NEW S, NEW s \in Seq(S)
  PROVE  IsFiniteSet(Range(s)) /\ IsFiniteSet(ToSet(s)) /\ ToSet(s) = Range(s)
<1>1. ToSet(s) = Range(s) BY DEF ToSet, Range
<1>2. s \in Surjection(DOMAIN s, Range(s)) BY DEF Surjection, Range
<1>3. IsFiniteSet(DOMAIN s)
  <2>1. DOMAIN s = 1..Len(s) /\ Len(s) \in Nat BY LenProperties
  <2>2. IsFiniteSet(1..Len(s)) BY <2>1, FS_Interval
  <2> QED BY <2>1, <2>2
<1>4. IsFiniteSet(Range(s)) BY <1>2, <1>3, FS_Surjection
<1> QED BY <1>1, <1>4

\* An entry holds its tokens as long as its blocks stay.
LEMMA EntryStays ==
  ASSUME NEW entries \in Entries, NEW store \in Stores, NEW after \in Stores, Kept(store, after),
         NEW key \in DOMAIN entries, EntryHolds(entries, store, key),
         ToSet(entries[key].blocks) \subseteq DOMAIN after
  PROVE  EntryHolds(entries, after, key)
<1> DEFINE blocks == entries[key].blocks
<1>1. Named(after, blocks) = Named(store, blocks)
  <2>1. \A i \in DOMAIN blocks : blocks[i] \in DOMAIN after BY DEF ToSet
  <2>2. \A i \in DOMAIN blocks : after[blocks[i]].block = store[blocks[i]].block BY <2>1 DEF Kept
  <2> HIDE DEF blocks
  <2> QED BY <2>2 DEF Named
<1> QED BY <1>1 DEF EntryHolds

\* Releasing the blocks of an entry that goes leaves every other entry its blocks.
LEMMA ReleaseKeeps ==
  ASSUME NEW entries \in Entries, NEW store \in Stores, IsFiniteSet(DOMAIN entries), Held(entries, store),
         NEW key \in DOMAIN entries
  PROVE  /\ Release(store, entries[key].blocks) \in Stores
         /\ Kept(store, Release(store, entries[key].blocks))
         /\ Held(Without(entries, {key}), Release(store, entries[key].blocks))
<1> DEFINE blocks == entries[key].blocks
           left == [k \in DOMAIN store |-> [store[k] EXCEPT !.refs = @ - Occurrences(blocks, k)]]
           after == Release(store, blocks)
           rest == Without(entries, {key})
<1>1. entries[key] \in Checkpoints /\ blocks \in Seq(StoreKeys) /\ IsInjective(blocks)
  BY PartialIs DEF Held, EntryHolds, Entries, Checkpoints
<1>2. store \in [DOMAIN store -> Stored] /\ DOMAIN store \subseteq StoreKeys BY PartialIs DEF Stores
<1>3. ToSet(blocks) = Range(blocks) BY <1>1, ListedFinite
<1>4. \A k \in DOMAIN store :
        /\ left[k].block = store[k].block /\ left[k] \in Stored
        /\ left[k].refs = store[k].refs - IF k \in ToSet(blocks) THEN 1 ELSE 0
  <2>1. ASSUME NEW k \in DOMAIN store
        PROVE  /\ left[k].block = store[k].block /\ left[k] \in Stored
               /\ left[k].refs = store[k].refs - IF k \in ToSet(blocks) THEN 1 ELSE 0
    <3>1. Occurrences(blocks, k) = IF k \in ToSet(blocks) THEN 1 ELSE 0 BY <1>1, OccursOnce
    <3>2. store[k] \in Stored BY <1>2
    <3>3. left[k] = [store[k] EXCEPT !.refs = @ - Occurrences(blocks, k)] OBVIOUS
    <3> HIDE DEF left, blocks
    <3> QED BY <3>1, <3>2, <3>3 DEF Stored
  <2> QED BY <2>1
<1>5. after = [k \in DOMAIN store \ {k \in Range(blocks) : left[k].refs <= 0} |-> left[k]]
  BY DEF Release, Without
<1> HIDE DEF left, after, blocks
<1>6. DOMAIN after \subseteq DOMAIN store /\ \A k \in DOMAIN after : after[k] = left[k] BY <1>5
<1>7. after \in Stores
  <2>1. after \in [DOMAIN after -> Stored] BY <1>4, <1>5
  <2> QED BY <1>2, <1>6, <2>1, PartialIs DEF Stores
<1>8. Kept(store, after) BY <1>4, <1>6 DEF Kept
<1>9. DOMAIN rest = DOMAIN entries \ {key} /\ \A e \in DOMAIN rest : rest[e] = entries[e] BY DEF Without
<1>10. ASSUME NEW k \in DOMAIN store
       PROVE  /\ Namers(rest, k) = Namers(entries, k) \ {key}
              /\ IsFiniteSet(Namers(entries, k)) /\ IsFiniteSet(Namers(rest, k))
              /\ Cardinality(Namers(rest, k)) \in Nat
              /\ Cardinality(Namers(rest, k)) <= left[k].refs
  <2>1. Namers(rest, k) = Namers(entries, k) \ {key} BY <1>9 DEF Namers
  <2>2. Namers(entries, k) \subseteq DOMAIN entries BY DEF Namers
  <2>3. IsFiniteSet(Namers(entries, k)) /\ IsFiniteSet(Namers(rest, k))
    BY <2>1, <2>2, FS_Subset, FS_RemoveElement
  <2>4. Cardinality(Namers(rest, k)) = IF key \in Namers(entries, k) THEN Cardinality(Namers(entries, k)) - 1
                                       ELSE Cardinality(Namers(entries, k))
    BY <2>1, <2>3, FS_RemoveElement
  <2>5. key \in Namers(entries, k) <=> k \in ToSet(blocks) BY DEF Namers, blocks
  <2>6. Cardinality(Namers(entries, k)) <= store[k].refs BY DEF Held
  <2>7. Cardinality(Namers(rest, k)) \in Nat /\ Cardinality(Namers(entries, k)) \in Nat
    BY <2>3, FS_CardinalityType
  <2>8. store[k].refs \in Int BY <1>2 DEF Stored
  <2>9. left[k].refs = store[k].refs - IF k \in ToSet(blocks) THEN 1 ELSE 0 BY <1>4
  <2>10. Cardinality(Namers(rest, k)) <= left[k].refs
    <3>1. CASE k \in ToSet(blocks) BY <2>4, <2>5, <2>6, <2>7, <2>8, <2>9, <3>1
    <3>2. CASE k \notin ToSet(blocks) BY <2>4, <2>5, <2>6, <2>7, <2>8, <2>9, <3>2
    <3> QED BY <3>1, <3>2
  <2> QED BY <2>1, <2>3, <2>7, <2>10
<1>11. ASSUME NEW e \in DOMAIN rest PROVE EntryHolds(rest, after, e)
  <2>1. e \in DOMAIN entries /\ EntryHolds(entries, store, e) /\ rest[e] = entries[e] BY <1>9 DEF Held
  <2>2. ASSUME NEW k \in ToSet(entries[e].blocks) PROVE k \in DOMAIN after
    <3>1. k \in DOMAIN store BY <2>1 DEF EntryHolds
    <3>2. e \in Namers(rest, k) BY <1>9, <2>1 DEF Namers
    <3>3. Cardinality(Namers(rest, k)) # 0 BY <1>10, <3>1, <3>2, FS_EmptySet
    <3>4. left[k].refs > 0
      <4>1. left[k].refs \in Int BY <1>4, <3>1 DEF Stored
      <4> QED BY <1>10, <3>1, <3>3, <4>1
    <3>5. left[k].refs \in Int BY <1>4, <3>1 DEF Stored
    <3> QED BY <1>5, <3>1, <3>4, <3>5
  <2>3. EntryHolds(entries, after, e) BY <1>7, <1>8, <2>1, <2>2, EntryStays
  <2> QED BY <2>1, <2>3 DEF EntryHolds
<1>12. Held(rest, after) BY <1>6, <1>10, <1>11 DEF Held
<1> QED BY <1>7, <1>8, <1>12 DEF after, blocks

\* Acquiring keys changes nothing but counts, and lowers none of them.
LEMMA AcquireKeeps ==
  ASSUME NEW store \in Stores, NEW keys \in Seq(StoreKeys)
  PROVE  /\ Acquire(store, keys) \in Stores /\ DOMAIN Acquire(store, keys) = DOMAIN store
         /\ Kept(store, Acquire(store, keys))
         /\ \A k \in DOMAIN store : Acquire(store, keys)[k].refs >= store[k].refs
         /\ ToSet(keys) \subseteq DOMAIN store =>
              \A k \in DOMAIN store :
                Acquire(store, keys)[k].refs = store[k].refs + Occurrences(keys, k)
<1> DEFINE got == Acquired(store, keys)
           after == Acquire(store, keys)
           I == {i \in 1..Len(keys) : keys[i] \notin DOMAIN store}
<1>1. DOMAIN keys = 1..Len(keys) /\ Len(keys) \in Nat OBVIOUS
<1>2. I # {} => Min(I) \in 1..Len(keys)
  <2>1. I \in SUBSET Int /\ IsFiniteSet(I) /\ I \subseteq 1..Len(keys)
    <3>1. IsFiniteSet(1..Len(keys)) BY <1>1, FS_Interval
    <3> QED BY <3>1, FS_Subset
  <2> HIDE DEF I
  <2>2. I # {} => \E m \in I : \A x \in I : m <= x BY <2>1, HasLeast
  <2>3. I # {} => Min(I) \in I BY <2>2 DEF Min
  <2> QED BY <2>1, <2>3
<1>3. got \in Seq(StoreKeys) /\ (I = {} => got = keys)
  <2>1. SelectInSeq(keys, LAMBDA k : k \notin DOMAIN store) = IF I # {} THEN Min(I) ELSE 0
    BY DEF SelectInSeq
  <2>2. \A n \in 1..Len(keys) : SubSeq(keys, 1, n - 1) \in Seq(StoreKeys) OBVIOUS
  <2> HIDE DEF I
  <2> QED BY <1>2, <2>1, <2>2 DEF Acquired
<1>4. ToSet(keys) \subseteq DOMAIN store => got = keys
  <2>1. ToSet(keys) \subseteq DOMAIN store => I = {} BY <1>1 DEF ToSet
  <2> QED BY <1>3, <2>1
<1>5. ASSUME NEW k PROVE Occurrences(got, k) \in Nat
  <2>1. DOMAIN got = 1..Len(got) /\ Len(got) \in Nat BY <1>3
  <2>2. IsFiniteSet(DOMAIN got) BY <2>1, FS_Interval
  <2>3. IsFiniteSet({i \in DOMAIN got : got[i] = k}) BY <2>2, FS_Subset
  <2> QED BY <2>3, FS_CardinalityType DEF Occurrences
<1>6. after = [k \in DOMAIN store |-> [store[k] EXCEPT !.refs = @ + Occurrences(got, k)]] BY DEF Acquire
<1>7. store \in [DOMAIN store -> Stored] /\ DOMAIN store \subseteq StoreKeys BY PartialIs DEF Stores
<1> HIDE DEF got, after
<1>8. ASSUME NEW k \in DOMAIN store
      PROVE  /\ after[k] \in Stored /\ after[k].block = store[k].block
             /\ after[k].refs = store[k].refs + Occurrences(got, k)
             /\ after[k].refs >= store[k].refs
  <2>1. after[k] = [store[k] EXCEPT !.refs = @ + Occurrences(got, k)] BY <1>6
  <2>2. store[k] \in Stored /\ Occurrences(got, k) \in Nat BY <1>5, <1>7
  <2> QED BY <2>1, <2>2 DEF Stored
<1>9. DOMAIN after = DOMAIN store BY <1>6
<1>10. after \in Stores
  <2>1. after \in [DOMAIN store -> Stored] BY <1>6, <1>8
  <2> QED BY <1>7, <1>9, <2>1, PartialIs DEF Stores
<1>11. Kept(store, after) BY <1>8, <1>9 DEF Kept
<1> QED BY <1>4, <1>8, <1>9, <1>10, <1>11 DEF after

\* An entry that comes in acquires the blocks it names.
LEMMA AcquireHolds ==
  ASSUME NEW entries \in Entries, NEW store \in Stores, IsFiniteSet(DOMAIN entries), Held(entries, store),
         NEW key \in Texts \ {NoKey}, key \notin DOMAIN entries, NEW k \in Checkpoints,
         EntryHolds(With(entries, key, k), store, key)
  PROVE  Held(With(entries, key, k), Acquire(store, k.blocks)) /\ With(entries, key, k) \in Entries
<1> DEFINE more == With(entries, key, k)
           after == Acquire(store, k.blocks)
<1>1. more \in Entries BY PartialMore DEF Entries
<1>2. DOMAIN more = DOMAIN entries \cup {key} /\ more[key] = k /\ \A e \in DOMAIN entries : more[e] = entries[e]
  BY DEF With
<1>3. k.blocks \in Seq(StoreKeys) /\ IsInjective(k.blocks) /\ ToSet(k.blocks) \subseteq DOMAIN store
  BY <1>2 DEF EntryHolds, Checkpoints
<1>4. /\ after \in Stores /\ DOMAIN after = DOMAIN store /\ Kept(store, after)
      /\ \A b \in DOMAIN store : after[b].refs = store[b].refs + Occurrences(k.blocks, b)
  BY <1>3, AcquireKeeps
<1> HIDE DEF more, after
<1>5. ASSUME NEW e \in DOMAIN more PROVE EntryHolds(more, after, e)
  <2>1. EntryHolds(more, store, e)
    <3>1. CASE e = key BY <3>1 DEF more
    <3>2. CASE e # key
      <4>1. e \in DOMAIN entries /\ more[e] = entries[e] BY <1>2, <3>2
      <4>2. EntryHolds(entries, store, e) BY <4>1 DEF Held
      <4> QED BY <4>1, <4>2 DEF EntryHolds
    <3> QED BY <3>1, <3>2
  <2>2. ToSet(more[e].blocks) \subseteq DOMAIN after BY <1>4, <2>1 DEF EntryHolds
  <2> QED BY <1>1, <1>4, <2>1, <2>2, EntryStays
<1>6. ASSUME NEW b \in DOMAIN after PROVE Cardinality(Namers(more, b)) <= after[b].refs
  <2>1. Namers(more, b) = IF b \in ToSet(k.blocks) THEN Namers(entries, b) \cup {key} ELSE Namers(entries, b)
    BY <1>2 DEF Namers
  <2>2. IsFiniteSet(Namers(entries, b)) /\ key \notin Namers(entries, b)
    <3>1. Namers(entries, b) \subseteq DOMAIN entries BY DEF Namers
    <3> QED BY <3>1, FS_Subset
  <2>3. Cardinality(Namers(entries, b) \cup {key}) = Cardinality(Namers(entries, b)) + 1
    BY <2>2, FS_AddElement
  <2>4. Cardinality(Namers(entries, b)) <= store[b].refs /\ Cardinality(Namers(entries, b)) \in Nat
    BY <1>4, <2>2, FS_CardinalityType DEF Held
  <2>5. Occurrences(k.blocks, b) = IF b \in ToSet(k.blocks) THEN 1 ELSE 0 BY <1>3, OccursOnce
  <2>6. after[b].refs = store[b].refs + Occurrences(k.blocks, b) BY <1>4
  <2>7. store[b].refs \in Int
    <3>1. store[b] \in Stored BY <1>4, PartialIs DEF Stores
    <3> QED BY <3>1 DEF Stored
  <2>8. CASE b \in ToSet(k.blocks) BY <2>1, <2>3, <2>4, <2>5, <2>6, <2>7, <2>8
  <2>9. CASE b \notin ToSet(k.blocks) BY <2>1, <2>4, <2>5, <2>6, <2>7, <2>9
  <2> QED BY <2>8, <2>9
<1>7. Held(more, after) BY <1>5, <1>6 DEF Held
<1> QED BY <1>1, <1>7 DEF more, after

-----------------------------------------------------------------------------
(* The storage tier.                                                       *)

\* A block, and a file, have a size.
LEMMA SizesAreNatural ==
  /\ \A b \in Blocks : BlockBytes(b) \in Nat
  /\ \A k \in Checkpoints \cup Files : ResidentBytes(k) \in Nat
  /\ \A f \in Files : FileBytes(f) \in Nat
<1>1. ASSUME NEW b \in Blocks PROVE BlockBytes(b) \in Nat
  <2>1. b.from \in Nat /\ b.text \in Texts /\ Len(b.text) > b.from BY DEF Blocks, IsBlock
  <2>2. Len(b.text) \in Nat BY <2>1 DEF Texts
  <2> QED BY <2>1, <2>2 DEF BlockBytes
<1>2. ASSUME NEW k \in Checkpoints \cup Files PROVE ResidentBytes(k) \in Nat
  <2>1. k.text \in Texts /\ k.split \in Nat /\ k.split <= Len(k.text) BY DEF Checkpoints, Files
  <2>2. Len(k.text) - k.split \in Nat BY <2>1 DEF Texts
  <2>3. \A x \in Nat, y \in Nat : x * y \in Nat OBVIOUS
  <2>4. TokenBytes \in Nat BY PrefixCacheAssumption
  <2> QED BY <2>2, <2>3, <2>4 DEF ResidentBytes
<1>3. ASSUME NEW f \in Files PROVE FileBytes(f) \in Nat
  <2> DEFINE sizes == [i \in DOMAIN f.blocks |-> BlockBytes(f.blocks[i])]
  <2>1. f.blocks \in Seq(Blocks) BY DEF Files
  <2>2. DOMAIN sizes = 1..Len(f.blocks) /\ Len(f.blocks) \in Nat BY <2>1
  <2>3. IsFiniteSet(DOMAIN sizes) BY <2>2, FS_Interval
  <2>4. \A i \in DOMAIN sizes : sizes[i] \in Nat BY <1>1, <2>1
  <2> HIDE DEF sizes
  <2>5. SumFunctionOnSet(sizes, DOMAIN sizes) \in Nat BY <2>3, <2>4, SumType
  <2>6. ResidentBytes(f) \in Nat BY <1>2
  <2>7. FileBytes(f) = ResidentBytes(f) + SumFunctionOnSet(sizes, DOMAIN sizes)
    BY DEF FileBytes, SumFunction, sizes
  <2> QED BY <2>5, <2>6, <2>7
<1> QED BY <1>1, <1>2, <1>3

\* Fewer files take no more room, and files that stay as they are take the room they took.
LEMMA FewerFiles ==
  ASSUME NEW c \in Caches, NEW d \in Caches, IsFiniteSet(DOMAIN c.spilled),
         NEW T \in SUBSET DOMAIN c.spilled, NEW S \in SUBSET T, \A key \in S : d.spilled[key] = c.spilled[key]
  PROVE  /\ SpilledBytes(d, S) \in Nat /\ SpilledBytes(c, T) \in Nat
         /\ SpilledBytes(d, S) <= SpilledBytes(c, T)
         /\ S = T => SpilledBytes(d, S) = SpilledBytes(c, T)
<1> DEFINE sizes == [key \in T |-> FileBytes(c.spilled[key])]
           fewer == [key \in S |-> FileBytes(d.spilled[key])]
<1>1. IsFiniteSet(T) /\ IsFiniteSet(S) BY FS_Subset
<1>2. \A key \in DOMAIN c.spilled : c.spilled[key] \in Files BY PartialIs DEF Caches
<1>3. DOMAIN sizes = T /\ \A key \in T : sizes[key] \in Nat BY <1>2, SizesAreNatural
<1>4. DOMAIN fewer = S /\ \A key \in S : fewer[key] = sizes[key] OBVIOUS
<1>5. SpilledBytes(d, S) = SumFunctionOnSet(fewer, S) BY <1>4 DEF SpilledBytes, SumFunction
<1>6. SpilledBytes(c, T) = SumFunctionOnSet(sizes, T) BY <1>3 DEF SpilledBytes, SumFunction
<1> HIDE DEF sizes, fewer
<1>7. SumFunctionOnSet(fewer, S) = SumFunctionOnSet(sizes, S) BY <1>1, <1>4, SumSame
<1>8. SumFunctionOnSet(sizes, S) <= SumFunctionOnSet(sizes, T) BY <1>1, <1>3, SumMonotone
<1>9. SumFunctionOnSet(sizes, S) \in Nat /\ SumFunctionOnSet(sizes, T) \in Nat BY <1>1, <1>3, SumType
<1> QED BY <1>5, <1>6, <1>7, <1>8, <1>9

\* A sequence without repetitions falls in two.
LEMMA FallsInTwo ==
  ASSUME NEW S, NEW s \in Seq(S), IsInjective(s), NEW n \in 0..Len(s)
  PROVE  /\ SubSeq(s, n + 1, Len(s)) \in Seq(S) /\ IsInjective(SubSeq(s, n + 1, Len(s)))
         /\ Range(SubSeq(s, n + 1, Len(s))) = Range(s) \ ToSet(SubSeq(s, 1, n))
         /\ ToSet(SubSeq(s, n + 1, Len(s))) = Range(SubSeq(s, n + 1, Len(s)))
<1> DEFINE first == SubSeq(s, 1, n)
           rest == SubSeq(s, n + 1, Len(s))
<1>1. Len(s) \in Nat /\ DOMAIN s = 1..Len(s) OBVIOUS
<1>2. rest \in Seq(S) /\ DOMAIN rest = 1..(Len(s) - n) /\ \A i \in 1..(Len(s) - n) : rest[i] = s[i + n]
  BY <1>1
<1>3. DOMAIN first = 1..n /\ \A i \in 1..n : first[i] = s[i] BY <1>1
<1> HIDE DEF first, rest
<1>4. \A i, j \in 1..Len(s) : s[i] = s[j] => i = j BY <1>1 DEF IsInjective
<1>5. IsInjective(rest)
  <2>1. SUFFICES ASSUME NEW i \in 1..(Len(s) - n), NEW j \in 1..(Len(s) - n), rest[i] = rest[j] PROVE i = j
    BY <1>2 DEF IsInjective
  <2>2. i + n = j + n BY <1>1, <1>2, <1>4, <2>1
  <2> QED BY <1>1, <2>2
<1>6. ASSUME NEW x \in Range(rest) PROVE x \in Range(s) \ ToSet(first)
  <2>1. PICK i \in 1..(Len(s) - n) : x = rest[i] BY <1>2, <1>6 DEF Range
  <2>2. x = s[i + n] /\ i + n \in 1..Len(s) BY <1>1, <1>2, <2>1
  <2>3. \A j \in 1..n : s[j] # x BY <1>1, <1>4, <2>2
  <2> QED BY <1>1, <1>3, <2>2, <2>3 DEF Range, ToSet
<1>7. ASSUME NEW x \in Range(s) \ ToSet(first) PROVE x \in Range(rest)
  <2>1. PICK i \in 1..Len(s) : x = s[i] BY <1>1, <1>7 DEF Range
  <2>2. i \notin 1..n BY <1>3, <1>7, <2>1 DEF ToSet
  <2>3. i - n \in 1..(Len(s) - n) /\ rest[i - n] = x BY <1>1, <1>2, <2>1, <2>2
  <2> QED BY <1>2, <2>3 DEF Range
<1>8. ToSet(rest) = Range(rest) BY DEF ToSet, Range
<1> QED BY <1>2, <1>5, <1>6, <1>7, <1>8 DEF first, rest

\* Dropping the oldest files makes the rest fit.
LEMMA DroppedFit ==
  ASSUME NEW c \in Caches, FilesHold(c), FilesListed(c)
  PROVE  DropOldestFiles(c) \in Caches /\ SameHost(c, DropOldestFiles(c)) /\ Filed(DropOldestFiles(c))
<1> DEFINE L == Len(c.aged)
           n == Surplus(c)
           d == DropOldestFiles(c)
           fits == {m \in 0..L : SpilledBytes(c, ToSet(SubSeq(c.aged, m + 1, L))) <= SpillCapacity}
           gone == ToSet(SubSeq(c.aged, 1, n))
           rest == SubSeq(c.aged, n + 1, L)
<1>1. /\ c.aged \in Seq(Texts) /\ L \in Nat /\ c.spilled \in Partial(Texts \ {NoKey}, Files)
      /\ IsFiniteSet(DOMAIN c.spilled) /\ IsInjective(c.aged) /\ Range(c.aged) = DOMAIN c.spilled
  BY ListedFinite DEF Caches, FilesListed
<1>2. n \in fits
  <2>1. L \in fits
    <3>1. SubSeq(c.aged, L + 1, L) = << >> BY <1>1, SubSeqEmpty
    <3>2. ToSet(SubSeq(c.aged, L + 1, L)) = {} BY <3>1 DEF ToSet
    <3>3. SpilledBytes(c, {}) = 0
      <4>1. DOMAIN [key \in {} |-> FileBytes(c.spilled[key])] = {} OBVIOUS
      <4> QED BY <4>1, SumOfNone DEF SpilledBytes, SumFunction
    <3>4. SpilledBytes(c, ToSet(SubSeq(c.aged, L + 1, L))) <= SpillCapacity
      <4>1. 0 <= SpillCapacity BY PrefixCacheAssumption
      <4> QED BY ONLY <3>2, <3>3, <4>1
    <3>5. L \in 0..L BY <1>1
    <3> HIDE DEF L
    <3> QED BY <3>4, <3>5
  <2>2. fits \in SUBSET Int /\ IsFiniteSet(fits)
    <3>1. \A m \in Nat : IsFiniteSet(0..m) BY ONLY FS_Interval
    <3>2. IsFiniteSet(0..L) /\ fits \subseteq 0..L BY <1>1, <3>1
    <3> QED BY <1>1, <3>2, FS_Subset
  <2>3. n = Min(fits) BY DEF Surplus
  <2> HIDE DEF fits, n
  <2>4. \E m \in fits : \A x \in fits : m <= x BY <2>1, <2>2, HasLeast
  <2> QED BY <2>3, <2>4 DEF Min
<1>3. n \in 0..L /\ SpilledBytes(c, ToSet(rest)) <= SpillCapacity BY <1>2
<1>4. d = [c EXCEPT !.spilled = Without(@, gone), !.aged = rest] BY DEF DropOldestFiles
<1> HIDE DEF n, fits
<1>5. /\ rest \in Seq(Texts) /\ IsInjective(rest) /\ Range(rest) = Range(c.aged) \ gone
      /\ ToSet(rest) = Range(rest)
  BY <1>1, <1>3, FallsInTwo
<1> HIDE DEF d, rest, gone
<1>6. Without(c.spilled, gone) \in Partial(Texts \ {NoKey}, Files) BY <1>1, PartialLess
<1>7. d \in Caches /\ SameHost(c, d) /\ d.spilled = Without(c.spilled, gone) /\ d.aged = rest
  BY <1>4, <1>5, <1>6 DEF Caches, SameHost
<1>8. DOMAIN d.spilled = DOMAIN c.spilled \ gone /\ \A key \in DOMAIN d.spilled : d.spilled[key] = c.spilled[key]
  BY <1>7 DEF Without
<1>9. DOMAIN d.spilled = ToSet(rest) BY <1>1, <1>5, <1>8
<1>10. FilesHold(d) /\ FilesListed(d) BY <1>1, <1>5, <1>7, <1>8 DEF FilesHold, FilesListed
<1>11. FilesFit(d)
  <2>1. DOMAIN d.spilled \subseteq DOMAIN c.spilled BY <1>8
  <2>2. SpilledBytes(d, DOMAIN d.spilled) = SpilledBytes(c, DOMAIN d.spilled)
    BY <1>1, <1>7, <1>8, <2>1, FewerFiles
  <2> QED BY <1>3, <1>9, <2>2 DEF FilesFit
<1> QED BY <1>7, <1>10, <1>11 DEF d, Filed

\* Forgetting files leaves the others as they were.
LEMMA ForgottenFiles ==
  ASSUME NEW c \in Caches, Filed(c), NEW keys
  PROVE  /\ ForgetSpilled(c, keys) \in Caches /\ SameHost(c, ForgetSpilled(c, keys))
         /\ Filed(ForgetSpilled(c, keys))
         /\ ForgetSpilled(c, keys).spilled = Without(c.spilled, keys)
<1> DEFINE d == ForgetSpilled(c, keys)
           rest == Others(c.aged, keys)
<1>1. /\ c.aged \in Seq(Texts) /\ c.spilled \in Partial(Texts \ {NoKey}, Files)
      /\ IsFiniteSet(DOMAIN c.spilled) /\ IsInjective(c.aged) /\ Range(c.aged) = DOMAIN c.spilled
  BY ListedFinite DEF Caches, Filed, FilesListed
<1>2. rest \in Seq(Texts) /\ IsInjective(rest) /\ Range(rest) = Range(c.aged) \ keys BY <1>1, OthersOnce
<1>3. d = [c EXCEPT !.spilled = Without(@, keys), !.aged = rest] BY DEF ForgetSpilled
<1> HIDE DEF d, rest
<1>4. Without(c.spilled, keys) \in Partial(Texts \ {NoKey}, Files) BY <1>1, PartialLess
<1>5. d \in Caches /\ SameHost(c, d) /\ d.spilled = Without(c.spilled, keys) /\ d.aged = rest
  BY <1>2, <1>3, <1>4 DEF Caches, SameHost
<1>6. DOMAIN d.spilled = DOMAIN c.spilled \ keys /\ \A key \in DOMAIN d.spilled : d.spilled[key] = c.spilled[key]
  BY <1>5 DEF Without
<1>7. FilesHold(d) /\ FilesListed(d) BY <1>1, <1>2, <1>5, <1>6 DEF FilesHold, FilesListed, Filed
<1>8. FilesFit(d)
  <2>1. DOMAIN d.spilled \subseteq DOMAIN c.spilled BY <1>6
  <2>2. /\ SpilledBytes(d, DOMAIN d.spilled) <= SpilledBytes(c, DOMAIN c.spilled)
        /\ SpilledBytes(d, DOMAIN d.spilled) \in Nat /\ SpilledBytes(c, DOMAIN c.spilled) \in Nat
    BY <1>1, <1>5, <1>6, <2>1, FewerFiles
  <2>3. SpilledBytes(c, DOMAIN c.spilled) <= SpillCapacity /\ SpillCapacity \in Nat
    BY PrefixCacheAssumption DEF Filed, FilesFit
  <2> QED BY <2>2, <2>3 DEF FilesFit
<1> QED BY <1>5, <1>7, <1>8 DEF d, Filed

\* What is written to a file is what the blocks of the checkpoint hold.
LEMMA MaterializedHolds ==
  ASSUME NEW c \in Caches, Held(c.entries, c.store), NEW key \in DOMAIN c.entries
  PROVE  LET file == Materialized(c, c.entries[key])
         IN  file \in Files /\ file.text = key /\ Sealed(file.blocks, key, file.split)
<1> DEFINE k == c.entries[key]
           file == Materialized(c, k)
<1>1. k \in Checkpoints /\ EntryHolds(c.entries, c.store, key)
  BY PartialIs DEF Caches, Entries, Held
<1>2. /\ k \in [text : Texts, split : Nat, blocks : Seq(StoreKeys)] /\ k.split <= Len(k.text)
      /\ k.text = key /\ ToSet(k.blocks) \subseteq DOMAIN c.store
      /\ Sealed(Named(c.store, k.blocks), key, k.split)
  BY <1>1 DEF Checkpoints, EntryHolds
<1>3. Named(c.store, k.blocks) \in Seq(Blocks)
  <2>1. ASSUME NEW i \in DOMAIN k.blocks PROVE c.store[k.blocks[i]].block \in Blocks
    <3>1. k.blocks[i] \in DOMAIN c.store BY <1>2 DEF ToSet
    <3>2. c.store[k.blocks[i]] \in Stored BY <3>1, PartialIs DEF Caches, Stores
    <3> QED BY <3>2 DEF Stored
  <2>2. DOMAIN k.blocks = 1..Len(k.blocks) /\ Len(k.blocks) \in Nat BY <1>2
  <2> HIDE DEF k
  <2> QED BY <2>1, <2>2 DEF Named
<1>4. file = [k EXCEPT !.blocks = Named(c.store, k.blocks)] BY DEF Materialized, Named
<1> HIDE DEF k, file
<1>5. file \in [text : Texts, split : Nat, blocks : Seq(Blocks)] /\ file.text = k.text /\ file.split = k.split
      /\ file.blocks = Named(c.store, k.blocks)
  BY <1>2, <1>3, <1>4
<1>6. file \in Files BY <1>2, <1>5 DEF Files
<1> QED BY <1>2, <1>5, <1>6 DEF file, k

\* Spilling a checkpoint leaves the host tier alone and the files in order.
LEMMA SpillFiles ==
  ASSUME NEW c \in Caches, Held(c.entries, c.store), Filed(c), NEW key \in DOMAIN c.entries, NEW writable
  PROVE  LET d == Spill(c, key, writable) IN d \in Caches /\ SameHost(c, d) /\ Filed(d)
<1> DEFINE d == Spill(c, key, writable)
           file == Materialized(c, c.entries[key])
<1>1. /\ c.aged \in Seq(Texts) /\ c.spilled \in Partial(Texts \ {NoKey}, Files)
      /\ IsInjective(c.aged) /\ Range(c.aged) = DOMAIN c.spilled /\ key \in Texts \ {NoKey}
  BY PartialIs DEF Caches, Entries, Filed, FilesListed
<1>2. CASE SpillCapacity = 0 BY <1>2 DEF Spill, SameHost
<1>3. CASE SpillCapacity # 0 /\ key \in DOMAIN c.spilled
  <2>1. d = [c EXCEPT !.aged = Touch(@, key)] BY <1>3 DEF Spill
  <2>2. Touch(c.aged, key) \in Seq(Texts) /\ IsInjective(Touch(c.aged, key))
        /\ Range(Touch(c.aged, key)) = Range(c.aged) \cup {key}
    BY <1>1, TouchOnce
  <2> HIDE DEF d
  <2>3. d \in Caches /\ SameHost(c, d) /\ d.spilled = c.spilled /\ d.aged = Touch(c.aged, key)
    BY <2>1, <2>2 DEF Caches, SameHost
  <2>4. FilesHold(d) /\ FilesListed(d) BY <1>1, <1>3, <2>2, <2>3 DEF Filed, FilesHold, FilesListed
  <2>5. FilesFit(d) BY <2>3 DEF Filed, FilesFit, SpilledBytes
  <2> QED BY <2>3, <2>4, <2>5 DEF Filed, d
<1>4. CASE SpillCapacity # 0 /\ key \notin DOMAIN c.spilled /\ ~writable BY <1>4 DEF Spill, SameHost
<1>5. CASE SpillCapacity # 0 /\ key \notin DOMAIN c.spilled /\ writable
  <2> DEFINE e == [c EXCEPT !.spilled = With(@, key, file), !.aged = Append(@, key)]
  <2>1. d = DropOldestFiles(e) BY <1>5 DEF Spill
  <2>2. file \in Files /\ file.text = key /\ Sealed(file.blocks, key, file.split) BY MaterializedHolds
  <2> HIDE DEF file
  <2>3. With(c.spilled, key, file) \in Partial(Texts \ {NoKey}, Files) BY <1>1, <2>2, PartialMore
  <2>4. /\ Append(c.aged, key) \in Seq(Texts) /\ IsInjective(Append(c.aged, key))
        /\ Range(Append(c.aged, key)) = Range(c.aged) \cup {key}
    BY <1>1, <1>5, AppendOnce
  <2>5. e \in Caches /\ SameHost(c, e) /\ e.spilled = With(c.spilled, key, file) /\ e.aged = Append(c.aged, key)
    BY <2>3, <2>4 DEF Caches, SameHost
  <2> HIDE DEF e
  <2>6. /\ DOMAIN e.spilled = DOMAIN c.spilled \cup {key} /\ e.spilled[key] = file
        /\ \A other \in DOMAIN c.spilled : other # key => e.spilled[other] = c.spilled[other]
    BY <2>5 DEF With
  <2>7. FilesHold(e) BY <2>2, <2>6 DEF Filed, FilesHold
  <2>8. FilesListed(e) BY <1>1, <2>4, <2>5, <2>6 DEF FilesListed
  <2>9. d \in Caches /\ SameHost(e, d) /\ Filed(d) BY <2>1, <2>5, <2>7, <2>8, DroppedFit
  <2> QED BY <2>5, <2>9 DEF SameHost
<1> QED BY <1>2, <1>3, <1>4, <1>5

-----------------------------------------------------------------------------
(* The host tier.                                                          *)

\* What the entries hold takes no more room than all there is, and none without entries.
LEMMA HeldBytesFit ==
  ASSUME NEW c, Sound(c)
  PROVE  /\ HostBytes(c) <= Capacity => Fitting(c)
         /\ c.order = << >> => Fitting(c)
<1> DEFINE rest == Without(c.store, DOMAIN c.store \ HeldKeys(c))
           d == [c EXCEPT !.store = rest]
           sizes == [k \in DOMAIN c.store |-> BlockBytes(c.store[k].block)]
           fewer == [k \in DOMAIN rest |-> BlockBytes(rest[k].block)]
           windows == [key \in DOMAIN c.entries |-> ResidentBytes(c.entries[key])]
<1>1. c \in Caches /\ IsFiniteSet(DOMAIN c.store) /\ c.order \in Seq(Texts) /\ Range(c.order) = DOMAIN c.entries
  BY DEF Sound, Caches
<1>2. d.store = rest /\ d.entries = c.entries BY <1>1 DEF Caches
<1>3. HeldBytes(c) = SumFunctionOnSet(fewer, DOMAIN fewer) + SumFunctionOnSet(windows, DOMAIN windows)
  BY <1>2 DEF HeldBytes, HostBytes, SumFunction
<1>4. HostBytes(c) = SumFunctionOnSet(sizes, DOMAIN sizes) + SumFunctionOnSet(windows, DOMAIN windows)
  BY DEF HostBytes, SumFunction
<1>5. DOMAIN sizes = DOMAIN c.store /\ \A k \in DOMAIN c.store : sizes[k] \in Nat
  <2>1. ASSUME NEW k \in DOMAIN c.store PROVE BlockBytes(c.store[k].block) \in Nat
    <3>1. c.store[k] \in Stored BY <1>1, PartialIs DEF Caches, Stores
    <3> QED BY <3>1, SizesAreNatural DEF Stored
  <2> QED BY <2>1
<1>6. DOMAIN fewer = DOMAIN c.store \cap HeldKeys(c) /\ \A k \in DOMAIN fewer : fewer[k] = sizes[k] BY DEF Without
<1>7. DOMAIN windows = DOMAIN c.entries /\ \A key \in DOMAIN c.entries : windows[key] \in Nat
  <2>1. ASSUME NEW key \in DOMAIN c.entries PROVE ResidentBytes(c.entries[key]) \in Nat
    <3>1. c.entries[key] \in Checkpoints BY <1>1, PartialIs DEF Caches, Entries
    <3> QED BY <3>1, SizesAreNatural
  <2> QED BY <2>1
<1>8. IsFiniteSet(DOMAIN c.entries) /\ IsFiniteSet(DOMAIN c.store \cap HeldKeys(c))
  BY <1>1, ListedFinite, FS_Intersection
<1> HIDE DEF sizes, fewer, windows, rest, d
<1>9. SumFunctionOnSet(fewer, DOMAIN fewer) <= SumFunctionOnSet(sizes, DOMAIN sizes)
  <2>1. SumFunctionOnSet(fewer, DOMAIN fewer) = SumFunctionOnSet(sizes, DOMAIN fewer)
    BY <1>6, <1>8, SumSame
  <2>2. DOMAIN fewer \in SUBSET DOMAIN sizes BY <1>5, <1>6
  <2>3. SumFunctionOnSet(sizes, DOMAIN fewer) <= SumFunctionOnSet(sizes, DOMAIN sizes)
    BY <1>1, <1>5, <2>2, SumMonotone
  <2> QED BY <2>1, <2>3
<1>10. /\ SumFunctionOnSet(fewer, DOMAIN fewer) \in Nat /\ SumFunctionOnSet(sizes, DOMAIN sizes) \in Nat
       /\ SumFunctionOnSet(windows, DOMAIN windows) \in Nat
  BY <1>1, <1>5, <1>6, <1>7, <1>8, SumType
<1>11. Capacity \in Nat BY PrefixCacheAssumption
<1>12. HostBytes(c) <= Capacity => HeldBytes(c) <= Capacity BY <1>3, <1>4, <1>9, <1>10, <1>11
<1>13. ASSUME c.order = << >> PROVE HeldBytes(c) <= Capacity
  <2>1. DOMAIN c.entries = {} BY <1>1, <1>13 DEF Range
  <2>2. HeldKeys(c) = {} BY <2>1 DEF HeldKeys
  <2>3. DOMAIN fewer = {} /\ DOMAIN windows = {} BY <1>6, <1>7, <2>1, <2>2
  <2>4. HeldBytes(c) = 0 BY <1>3, <2>3, SumOfNone
  <2> QED BY <1>11, <2>4
<1> QED BY <1>12, <1>13 DEF Fitting

\* What the entries hold is told by the entries and the blocks they name.
LEMMA HeldBytesSame ==
  ASSUME NEW c, NEW d \in Caches, Sound(c), d.entries = c.entries, HeldKeys(c) \subseteq DOMAIN d.store,
         \A k \in HeldKeys(c) : d.store[k].block = c.store[k].block
  PROVE  HeldBytes(d) = HeldBytes(c)
<1> DEFINE Rest(e) == Without(e.store, DOMAIN e.store \ HeldKeys(e))
           Sizes(e) == [k \in DOMAIN Rest(e) |-> BlockBytes(Rest(e)[k].block)]
           Windows(e) == [key \in DOMAIN e.entries |-> ResidentBytes(e.entries[key])]
<1>1. c \in Caches /\ HeldKeys(c) \subseteq DOMAIN c.store BY DEF Sound, Held, EntryHolds, HeldKeys
<1>2. HeldKeys(d) = HeldKeys(c) BY DEF HeldKeys
<1>3. \A e \in Caches : HeldBytes(e) = SumFunction(Sizes(e)) + SumFunction(Windows(e))
  <2>1. SUFFICES ASSUME NEW e \in Caches PROVE HeldBytes(e) = SumFunction(Sizes(e)) + SumFunction(Windows(e))
    OBVIOUS
  <2>2. [e EXCEPT !.store = Rest(e)].store = Rest(e) /\ [e EXCEPT !.store = Rest(e)].entries = e.entries
    BY DEF Caches
  <2> QED BY <2>2 DEF HeldBytes, HostBytes
<1>4. \A e \in {c, d} : DOMAIN Rest(e) = HeldKeys(c) /\ \A k \in HeldKeys(c) : Rest(e)[k] = e.store[k]
  BY <1>1, <1>2 DEF Without
<1>5. Sizes(d) = Sizes(c) BY <1>4
<1>6. Windows(d) = Windows(c) OBVIOUS
<1> QED BY <1>1, <1>3, <1>5, <1>6

\* Evicting an entry keeps the rest in order.
LEMMA EvictKeeps ==
  ASSUME NEW c, Sound(c), NEW key \in DOMAIN c.entries, NEW writable
  PROVE  LET d == Evict(c, key, writable)
         IN  /\ Sound(d) /\ Kept(c.store, d.store) /\ d.entries = Without(c.entries, {key})
             /\ d.order = RemoveFirst(c.order, key) /\ Len(d.order) = Len(c.order) - 1
<1> DEFINE s == Spill(c, key, writable)
           d == Evict(c, key, writable)
           rest == Without(c.entries, {key})
           left == RemoveFirst(c.order, key)
           after == Release(c.store, c.entries[key].blocks)
           index == IF key \in DOMAIN s.spilled THEN s.index ELSE ForgetIndex(s.index, key)
<1>1. /\ c \in Caches /\ IsFiniteSet(DOMAIN c.store) /\ Range(c.order) = DOMAIN c.entries /\ IsInjective(c.order)
      /\ Held(c.entries, c.store) /\ Filed(c) /\ c.order \in Seq(Texts) /\ c.entries \in Entries
      /\ c.store \in Stores /\ IsFiniteSet(DOMAIN c.entries)
  BY ListedFinite DEF Sound, Caches
<1>2. s \in Caches /\ SameHost(c, s) /\ Filed(s) BY <1>1, SpillFiles
<1>3. after \in Stores /\ Kept(c.store, after) /\ Held(rest, after) BY <1>1, ReleaseKeeps
<1>4. /\ left \in Seq(Texts) /\ IsInjective(left) /\ Range(left) = Range(c.order) \ {key}
      /\ Len(left) = Len(c.order) - 1
  BY <1>1, RemoveFirstOnce
<1>5. rest \in Entries /\ DOMAIN rest = DOMAIN c.entries \ {key}
  <2>1. rest \in Entries BY <1>1, PartialLess DEF Entries
  <2> QED BY <2>1 DEF Without
<1>6. index \in Partial({Slot(k) : k \in Texts}, Texts)
  <2>1. s.index \in Partial({Slot(k) : k \in Texts}, Texts) BY <1>2 DEF Caches
  <2> QED BY <2>1, PartialLess DEF ForgetIndex
<1>7. d = [s EXCEPT !.entries = rest, !.order = left, !.store = after, !.index = index]
  <2>1. s.entries = c.entries /\ s.order = c.order /\ s.store = c.store BY <1>2 DEF SameHost
  <2>2. d = [s EXCEPT !.entries = Without(@, {key}), !.order = RemoveFirst(@, key),
                      !.store = Release(@, c.entries[key].blocks),
                      !.index = IF key \in DOMAIN s.spilled THEN @ ELSE ForgetIndex(@, key)]
    BY DEF Evict
  <2> HIDE DEF s, d
  <2> QED BY <1>2, <2>1, <2>2 DEF Caches
<1> HIDE DEF s, d, rest, left, after, index
<1>8. /\ d \in Caches /\ d.entries = rest /\ d.order = left /\ d.store = after
      /\ d.spilled = s.spilled /\ d.aged = s.aged
  BY <1>2, <1>3, <1>4, <1>5, <1>6, <1>7 DEF Caches
<1>9. IsFiniteSet(DOMAIN d.store)
  <2>1. DOMAIN after \subseteq DOMAIN c.store BY <1>3 DEF Kept
  <2> QED BY <1>1, <1>8, <2>1, FS_Subset
<1>10. Filed(d) BY <1>2, <1>8 DEF Filed, FilesHold, FilesListed, FilesFit, SpilledBytes
<1>11. Sound(d) BY <1>1, <1>3, <1>4, <1>5, <1>8, <1>9, <1>10 DEF Sound
<1> QED BY <1>3, <1>4, <1>8, <1>11 DEF d, rest, left

\* Evicting from the head of a sequence without repetitions leaves its last element.
LEMMA HeadGoesFirst ==
  ASSUME NEW S, NEW s \in Seq(S), IsInjective(s), s # << >>, RemoveFirst(s, Head(s)) # << >>
  PROVE  Last(RemoveFirst(s, Head(s))) = Last(s)
<1>1. Len(s) \in Nat \ {0} /\ Head(s) = s[1] /\ DOMAIN s = 1..Len(s) BY EmptySeq
<1>2. PICK i \in 1..Len(s) : s[i] = Head(s) /\ RemoveFirst(s, Head(s)) = RemoveAt(s, i) BY <1>1, FirstPlace
<1>3. i = 1 BY <1>1, <1>2 DEF IsInjective
<1> DEFINE r == RemoveAt(s, 1)
<1>4. r \in Seq(S) /\ Len(r) = Len(s) - 1 /\ \A j \in 1..(Len(s) - 1) : r[j] = IF j < 1 THEN s[j] ELSE s[j + 1]
  <2>1. 1 \in 1..Len(s) BY <1>1
  <2> QED BY <2>1, RemoveAtPlaces
<1> HIDE DEF r
<1>5. r # << >> /\ Len(r) # 0 BY <1>2, <1>3, <1>4 DEF r
<1>6. Len(r) \in 1..(Len(s) - 1) BY <1>1, <1>4, <1>5
<1>7. r[Len(r)] = s[Len(s)] BY <1>1, <1>4, <1>6
<1> QED BY <1>2, <1>3, <1>7 DEF Last, r

\* What a run of evictions from c leaves: the tiers in order, entries and blocks as they were, and
\* the last entry that came in until all are gone.
Aged(c, d) ==
  /\ Sound(d) /\ Kept(c.store, d.store)
  /\ DOMAIN d.entries \subseteq DOMAIN c.entries /\ \A key \in DOMAIN d.entries : d.entries[key] = c.entries[key]
  /\ d.order # << >> => Last(d.order) = Last(c.order)

\* Evicting until the rest fits (_evict_to_fit), whatever the entry it must leave alone.
LEMMA EvictToFitKeeps ==
  ASSUME NEW c, Sound(c), NEW protect, NEW writable,
         protect = NoKey \/ (c.order # << >> /\ Last(c.order) = protect)
  PROVE  LET d == EvictToFit(c, protect, writable)
         IN  Aged(c, d) /\ Fitting(d) /\ (protect \in DOMAIN c.entries => protect \in DOMAIN d.entries)
<1> DEFINE L == Len(c.order)
           Over(d) == d.order = << >> \/ HostBytes(d) <= Capacity \/ Head(d.order) = protect
           Body(d) == IF Over(d) THEN d ELSE Evict(d, Head(d.order), writable)
           Evicts(g) == g = [n \in 0..L |-> IF n = 0 THEN c ELSE Body(g[n - 1])]
           Stays(d) == protect \in DOMAIN c.entries => protect \in DOMAIN d.entries
           X == {d \in Caches : Aged(c, d) /\ Stays(d)}
           step == [x \in (1..L) \X X |-> Body(x[2])]
           fit == CHOOSE g : Evicts(g)
<1>1. c \in Caches /\ L \in Nat BY DEF Sound, Caches
<1>2. EvictToFit(c, protect, writable) = fit[L] BY DEF EvictToFit
<1>3. c \in X BY <1>1 DEF Aged, Kept
<1>4. ASSUME NEW d \in X, ~Over(d)
      PROVE  Body(d) \in X /\ Len(Body(d).order) = Len(d.order) - 1
  <2> DEFINE key == Head(d.order)
             e == Evict(d, key, writable)
  <2>1. /\ Aged(c, d) /\ Sound(d) /\ d.order \in Seq(Texts) /\ IsInjective(d.order)
        /\ d.order # << >> /\ key # protect /\ Range(d.order) = DOMAIN d.entries
    BY <1>4 DEF Aged, Sound, Caches
  <2>2. key \in DOMAIN d.entries
    <3>1. 1 \in DOMAIN d.order /\ key = d.order[1] BY <2>1, EmptySeq
    <3> QED BY <2>1, <3>1 DEF Range
  <2>3. /\ Sound(e) /\ Kept(d.store, e.store) /\ e.entries = Without(d.entries, {key})
        /\ e.order = RemoveFirst(d.order, key) /\ Len(e.order) = Len(d.order) - 1
    BY <2>1, <2>2, EvictKeeps
  <2>4. Body(d) = e BY <1>4
  <2>5. e.order # << >> => Last(e.order) = Last(d.order) BY <2>1, <2>3, HeadGoesFirst
  <2> HIDE DEF e, key, Body, Over
  <2>6. Kept(c.store, e.store) BY <2>1, <2>3 DEF Aged, Kept
  <2>7. DOMAIN e.entries = DOMAIN d.entries \ {key} /\ \A k \in DOMAIN e.entries : e.entries[k] = d.entries[k]
    BY <2>3 DEF Without
  <2>8. Aged(c, e) BY <2>1, <2>3, <2>5, <2>6, <2>7 DEF Aged
  <2>9. Stays(e) BY <1>4, <2>1, <2>7
  <2>10. e \in Caches BY <2>3 DEF Sound
  <2> QED BY <2>3, <2>4, <2>8, <2>9, <2>10
<1>5. ASSUME NEW d \in X PROVE Body(d) \in X
  <2>1. CASE Over(d) BY <2>1
  <2>2. CASE ~Over(d)
    <3> HIDE DEF Body, Over, X
    <3> QED BY <1>4, <2>2
  <2> QED BY <2>1, <2>2
<1> HIDE DEF X, Body, Over
<1>6. step \in [(1..L) \X X -> X] BY <1>5
<1>7. PICK g : Walks(g, L, X, c, step)
  <2> HIDE DEF step, L
  <2> QED BY <1>1, <1>3, <1>6, WalkExists
<1>8. Evicts(g)
  <2>1. ASSUME NEW n \in 1..L PROVE g[n] = Body(g[n - 1])
    <3>1. n - 1 \in 0..L /\ g[n - 1] \in X BY <1>1, <1>7 DEF Walks
    <3> QED BY <1>7, <3>1 DEF Walks
  <2>2. g[0] = c /\ g = [n \in 0..L |-> g[n]] BY <1>7 DEF Walks
  <2>3. ASSUME NEW n \in 0..L PROVE g[n] = IF n = 0 THEN c ELSE Body(g[n - 1])
    <3>1. CASE n = 0 BY <2>2, <3>1
    <3>2. CASE n # 0
      <4>1. n \in 1..L BY <1>1, <3>2
      <4> QED BY <2>1, <3>2, <4>1
    <3> QED BY <3>1, <3>2
  <2> QED BY <2>2, <2>3
<1>9. Evicts(fit) BY <1>8
<1> HIDE DEF fit
<1>10. fit[0] = c /\ \A n \in 1..L : fit[n] = Body(fit[n - 1]) BY <1>1, <1>9
<1> HIDE DEF Evicts
<1> DEFINE fine == {n \in 0..L : fit[n] \in X /\ (Over(fit[n]) \/ Len(fit[n].order) <= L - n)}
<1>11. 0 \in fine BY <1>1, <1>3, <1>10
<1>12. ASSUME NEW n \in 0..(L - 1), n \in fine PROVE n + 1 \in fine
  <2>1. n + 1 \in 0..L /\ fit[n + 1] = Body(fit[n]) /\ fit[n] \in X BY <1>1, <1>10, <1>12
  <2>2. CASE Over(fit[n])
    <3>1. fit[n + 1] = fit[n] BY <2>1, <2>2 DEF Body
    <3> QED BY <2>1, <2>2, <3>1
  <2>3. CASE ~Over(fit[n])
    <3>1. Body(fit[n]) \in X /\ Len(Body(fit[n]).order) = Len(fit[n].order) - 1 BY <1>4, <2>1, <2>3
    <3>2. Len(fit[n].order) <= L - n BY <1>12, <2>3
    <3>3. Len(fit[n].order) \in Nat BY <2>1 DEF X, Caches
    <3>4. Len(fit[n + 1].order) <= L - (n + 1) BY <1>1, <2>1, <3>1, <3>2, <3>3
    <3> QED BY <2>1, <3>1, <3>4
  <2> QED BY <2>2, <2>3
<1> HIDE DEF fine
<1>13. 0..L \subseteq fine
  <2> HIDE DEF L
  <2> QED BY <1>1, <1>11, <1>12, CountingUp
<1>14. L \in fine BY <1>1, <1>13
<1> DEFINE d == fit[L]
<1>15. d \in X /\ (Over(d) \/ Len(d.order) <= 0) BY <1>1, <1>14 DEF fine
<1> HIDE DEF d
<1>16. /\ Aged(c, d) /\ Stays(d) /\ Sound(d) /\ d.order \in Seq(Texts) /\ IsInjective(d.order)
       /\ Range(d.order) = DOMAIN d.entries /\ DOMAIN d.entries \subseteq Texts \ {NoKey}
  BY <1>15, PartialIs DEF X, Aged, Sound, Caches, Entries
<1>17. Fitting(d)
  <2>1. CASE d.order = << >> BY <1>16, <2>1, HeldBytesFit
  <2>2. CASE d.order # << >>
    <3>1. Len(d.order) \in Nat \ {0} BY <1>16, <2>2, EmptySeq
    <3>2. Over(d) BY <1>15, <3>1
    <3>3. CASE HostBytes(d) <= Capacity BY <1>16, <3>3, HeldBytesFit
    <3>4. CASE Head(d.order) = protect
      <4>1. Head(d.order) = d.order[1] /\ 1 \in DOMAIN d.order /\ Len(d.order) \in DOMAIN d.order BY <1>16, <3>1
      <4>2. protect # NoKey BY <1>16, <3>4, <4>1 DEF Range
      <4>3. Last(d.order) = protect BY <1>16, <2>2, <4>2 DEF Aged
      <4>4. Len(d.order) = 1 BY <1>16, <3>4, <4>1, <4>3 DEF Last, IsInjective
      <4> QED BY <4>4 DEF Fitting
    <3> QED BY <2>2, <3>2, <3>3, <3>4 DEF Over
  <2> QED BY <2>1, <2>2
<1> QED BY <1>2, <1>16, <1>17 DEF d

\* Blocks come into the store under keys that nothing has.
LEMMA StoredBlocks ==
  ASSUME NEW store \in Stores, NEW P, IsFiniteSet(P), NEW keys \in [P -> StoreKeys \ DOMAIN store],
         IsInjective(keys), NEW blocks, \A i \in P : blocks[i] \in Blocks, NEW refs \in Int
  PROVE  LET after == StoreBlocks(store, keys, blocks, refs)
         IN  /\ after \in Stores /\ DOMAIN after = DOMAIN store \cup Range(keys)
             /\ \A k \in DOMAIN store : after[k] = store[k]
             /\ \A i \in P : after[keys[i]].block = blocks[i] /\ after[keys[i]].refs = refs
             /\ IsFiniteSet(Range(keys))
<1> DEFINE after == StoreBlocks(store, keys, blocks, refs)
<1>1. after = [k \in DOMAIN store \cup Range(keys) |->
                 IF k \in Range(keys)
                 THEN [block |-> blocks[CHOOSE i \in DOMAIN keys : keys[i] = k], refs |-> refs]
                 ELSE store[k]]
  BY DEF StoreBlocks
<1> HIDE DEF after
<1>2. Range(keys) \subseteq StoreKeys \ DOMAIN store BY DEF Range
<1>3. \A k \in DOMAIN store : after[k] = store[k] BY <1>1, <1>2
<1>4. ASSUME NEW i \in P
      PROVE  /\ after[keys[i]] = [block |-> blocks[i], refs |-> refs]
             /\ after[keys[i]].block = blocks[i] /\ after[keys[i]].refs = refs
  <2>1. keys[i] \in Range(keys) BY DEF Range
  <2>2. (CHOOSE j \in DOMAIN keys : keys[j] = keys[i]) = i BY DEF IsInjective
  <2> QED BY <1>1, <2>1, <2>2
<1>5. store \in [DOMAIN store -> Stored] /\ DOMAIN store \subseteq StoreKeys BY PartialIs DEF Stores
<1>6. DOMAIN after = DOMAIN store \cup Range(keys) BY <1>1
<1>7. \A k \in DOMAIN after : after[k] \in Stored
  <2>1. \A k \in DOMAIN store : after[k] \in Stored BY <1>3, <1>5
  <2>2. \A i \in P : [block |-> blocks[i], refs |-> refs] \in Stored BY DEF Stored
  <2>3. ASSUME NEW k \in Range(keys) PROVE after[k] \in Stored
    <3>1. PICK i \in P : k = keys[i] BY DEF Range
    <3>2. after[k] = [block |-> blocks[i], refs |-> refs] BY <1>4, <3>1
    <3> QED BY <2>2, <3>2
  <2> QED BY <1>6, <2>1, <2>3
<1>8. after \in Stores
  <2>1. after \in [DOMAIN after -> Stored] BY <1>1, <1>6, <1>7
  <2> QED BY <1>2, <1>5, <1>6, <2>1, PartialIs DEF Stores
<1>9. IsFiniteSet(Range(keys))
  <2>1. keys \in Surjection(P, Range(keys)) BY DEF Surjection, Range
  <2> QED BY <2>1, FS_Surjection
<1> QED BY <1>3, <1>4, <1>6, <1>8, <1>9 DEF after

\* Entries hold their tokens whatever else is in the store.
LEMMA HeldInMore ==
  ASSUME NEW entries \in Entries, NEW store \in Stores, NEW after \in Stores, Held(entries, store),
         IsFiniteSet(DOMAIN entries), DOMAIN store \subseteq DOMAIN after,
         \A k \in DOMAIN store : after[k].block = store[k].block /\ after[k].refs >= store[k].refs,
         \A k \in DOMAIN after \ DOMAIN store : after[k].refs >= 0
  PROVE  Held(entries, after)
<1>1. ASSUME NEW e \in DOMAIN entries
      PROVE  EntryHolds(entries, after, e) /\ ToSet(entries[e].blocks) \subseteq DOMAIN store
  <2> DEFINE blocks == entries[e].blocks
  <2>1. EntryHolds(entries, store, e) BY DEF Held
  <2>2. \A i \in DOMAIN blocks : blocks[i] \in DOMAIN store BY <2>1 DEF EntryHolds, ToSet
  <2>3. Named(after, blocks) = Named(store, blocks)
    <3>1. \A i \in DOMAIN blocks : after[blocks[i]].block = store[blocks[i]].block BY <2>2
    <3> HIDE DEF blocks
    <3> QED BY <3>1 DEF Named
  <2> QED BY <2>1, <2>3 DEF EntryHolds
<1>2. ASSUME NEW k \in DOMAIN after PROVE Cardinality(Namers(entries, k)) <= after[k].refs
  <2>1. after[k].refs \in Int
    <3>1. after[k] \in Stored BY PartialIs DEF Stores
    <3> QED BY <3>1 DEF Stored
  <2>2. CASE k \in DOMAIN store
    <3>1. Cardinality(Namers(entries, k)) <= store[k].refs /\ after[k].refs >= store[k].refs
      BY <2>2 DEF Held
    <3>2. store[k].refs \in Int
      <4>1. store[k] \in Stored BY <2>2, PartialIs DEF Stores
      <4> QED BY <4>1 DEF Stored
    <3>3. Namers(entries, k) \subseteq DOMAIN entries BY DEF Namers
    <3>4. Cardinality(Namers(entries, k)) \in Nat BY <3>3, FS_Subset, FS_CardinalityType
    <3> QED BY <2>1, <3>1, <3>2, <3>4
  <2>3. CASE k \notin DOMAIN store
    <3>1. Namers(entries, k) = {} BY <1>1, <2>3 DEF Namers
    <3>2. Cardinality(Namers(entries, k)) = 0 BY <3>1, FS_EmptySet
    <3> QED BY <2>1, <2>3, <3>2
  <2> QED BY <2>2, <2>3
<1> QED BY <1>1, <1>2 DEF Held

-----------------------------------------------------------------------------
(* The operations of the cache.                                            *)

\* An entry that is used again moves to the end of the order.
LEMMA UsedAgain ==
  ASSUME NEW c, Sound(c), Fitting(c), NEW key \in DOMAIN c.entries
  PROVE  LET d == [c EXCEPT !.order = Touch(@, key)]
         IN  Sound(d) /\ Fitting(d) /\ d.store = c.store /\ d.entries = c.entries
<1> DEFINE d == [c EXCEPT !.order = Touch(@, key)]
<1>1. /\ c \in Caches /\ c.order \in Seq(Texts) /\ IsInjective(c.order) /\ Range(c.order) = DOMAIN c.entries
      /\ key \in Texts /\ key \in Range(c.order)
  BY PartialIs DEF Sound, Caches, Entries
<1>2. /\ Touch(c.order, key) \in Seq(Texts) /\ IsInjective(Touch(c.order, key))
      /\ Range(Touch(c.order, key)) = Range(c.order) \cup {key} /\ Len(Touch(c.order, key)) = Len(c.order)
  BY <1>1, TouchOnce
<1>3. /\ d \in Caches /\ d.entries = c.entries /\ d.store = c.store /\ d.spilled = c.spilled /\ d.aged = c.aged
      /\ d.order = Touch(c.order, key)
  BY <1>1, <1>2 DEF Caches
<1> HIDE DEF d
<1>4. Filed(d) BY <1>3 DEF Sound, Filed, FilesHold, FilesListed, FilesFit, SpilledBytes
<1>5. Sound(d) BY <1>1, <1>2, <1>3, <1>4 DEF Sound
<1>6. HeldKeys(c) \subseteq DOMAIN c.store BY DEF Sound, Held, EntryHolds, HeldKeys
<1>7. HeldBytes(d) = HeldBytes(c) BY <1>3, <1>6, HeldBytesSame
<1>8. Fitting(d) BY <1>2, <1>3, <1>7 DEF Fitting
<1> QED BY <1>3, <1>5, <1>8 DEF d

\* Blocks that come into the store, and counts that go up, leave the cache in order.
LEMMA StoreGrows ==
  ASSUME NEW c, Sound(c), NEW after \in Stores, IsFiniteSet(DOMAIN after),
         DOMAIN c.store \subseteq DOMAIN after,
         \A k \in DOMAIN c.store : after[k].block = c.store[k].block /\ after[k].refs >= c.store[k].refs,
         \A k \in DOMAIN after \ DOMAIN c.store : after[k].refs >= 0
  PROVE  LET d == [c EXCEPT !.store = after]
         IN  Sound(d) /\ (Fitting(c) => Fitting(d)) /\ d.store = after /\ d.entries = c.entries
<1> DEFINE d == [c EXCEPT !.store = after]
<1>1. /\ c \in Caches /\ c.entries \in Entries /\ c.store \in Stores /\ Held(c.entries, c.store)
      /\ Range(c.order) = DOMAIN c.entries /\ IsInjective(c.order) /\ IsFiniteSet(DOMAIN c.entries)
  BY ListedFinite DEF Sound, Caches
<1>2. /\ d \in Caches /\ d.entries = c.entries /\ d.order = c.order /\ d.spilled = c.spilled /\ d.aged = c.aged
      /\ d.store = after
  BY <1>1 DEF Caches
<1> HIDE DEF d
<1>3. Held(d.entries, d.store) BY <1>1, <1>2, HeldInMore
<1>4. Filed(d) BY <1>2 DEF Sound, Filed, FilesHold, FilesListed, FilesFit, SpilledBytes
<1>5. Sound(d) BY <1>1, <1>2, <1>3, <1>4 DEF Sound
<1>6. HeldKeys(c) \subseteq DOMAIN c.store BY <1>1 DEF Held, EntryHolds, HeldKeys
<1>7. HeldBytes(d) = HeldBytes(c) BY <1>2, <1>6, HeldBytesSame
<1>8. Fitting(c) => Fitting(d) BY <1>2, <1>7 DEF Fitting
<1> QED BY <1>2, <1>5, <1>8 DEF d

\* An entry that comes in with its blocks in the store, `more` and `order` being what its tier lists.
LEMMA Admitted ==
  ASSUME NEW c, Sound(c), NEW d \in Caches, NEW key \in Texts \ {NoKey}, key \notin DOMAIN c.entries,
         d.order = Append(c.order, key), DOMAIN d.entries = DOMAIN c.entries \cup {key},
         Held(d.entries, d.store), IsFiniteSet(DOMAIN d.store), Filed(d)
  PROVE  Sound(d) /\ d.order # << >> /\ Last(d.order) = key
<1>1. c.order \in Seq(Texts) /\ IsInjective(c.order) /\ Range(c.order) = DOMAIN c.entries
  BY DEF Sound, Caches
<1>2. /\ IsInjective(d.order) /\ Range(d.order) = Range(c.order) \cup {key} /\ Last(d.order) = key
      /\ Len(d.order) = Len(c.order) + 1 /\ Len(c.order) \in Nat
  BY <1>1, AppendOnce
<1>3. d.order # << >> BY <1>2, EmptySeq
<1> QED BY <1>1, <1>2, <1>3 DEF Sound

\* put() of a checkpoint that says what its blocks hold: whether it is new, known or missing blocks.
LEMMA PutKeeps ==
  ASSUME NEW c, Sound(c), Fitting(c), NEW key \in Texts \ {NoKey}, NEW k \in Checkpoints, NEW writable,
         k.text = key, IsInjective(k.blocks),
         ToSet(k.blocks) \subseteq DOMAIN c.store => Sealed(Named(c.store, k.blocks), key, k.split)
  PROVE  LET d == Put(c, key, k, writable) IN Sound(d) /\ Fitting(d) /\ Kept(c.store, d.store)
<1> DEFINE d == Put(c, key, k, writable)
           after == Acquire(c.store, k.blocks)
<1>1. /\ c \in Caches /\ c.entries \in Entries /\ c.store \in Stores /\ Held(c.entries, c.store)
      /\ IsFiniteSet(DOMAIN c.entries) /\ IsFiniteSet(DOMAIN c.store) /\ k.blocks \in Seq(StoreKeys)
      /\ c.order \in Seq(Texts)
  BY ListedFinite DEF Sound, Caches, Checkpoints
<1>2. /\ after \in Stores /\ DOMAIN after = DOMAIN c.store /\ Kept(c.store, after)
      /\ \A b \in DOMAIN c.store : after[b].refs >= c.store[b].refs
  BY <1>1, AcquireKeeps
<1>3. CASE key \in DOMAIN c.entries
  <2>1. d = [c EXCEPT !.order = Touch(@, key)] BY <1>3 DEF Put, Raises
  <2>2. Sound(d) /\ Fitting(d) /\ d.store = c.store BY <1>3, <2>1, UsedAgain
  <2> QED BY <2>2 DEF Kept
<1>4. CASE Raises(c, key, k)
  <2>1. key \notin DOMAIN c.entries BY <1>4 DEF Raises
  <2>2. d = [c EXCEPT !.store = after] BY <1>4, <2>1 DEF Put
  <2> HIDE DEF d, after
  <2>3. \A b \in DOMAIN c.store : after[b].block = c.store[b].block /\ after[b].refs >= c.store[b].refs
    BY <1>2 DEF Kept
  <2>4. Sound(d) /\ Fitting(d) /\ d.store = after BY <1>1, <1>2, <2>2, <2>3, StoreGrows
  <2> QED BY <1>2, <2>4 DEF d
<1>5. CASE key \notin DOMAIN c.entries /\ ~Raises(c, key, k)
  <2> DEFINE more == With(c.entries, key, k)
             index == Index(c, key)
             e == [c EXCEPT !.store = after, !.entries = more, !.order = Append(@, key), !.index = index]
  <2>1. d = EvictToFit(e, NoKey, writable) BY <1>5 DEF Put, Admit
  <2>2. ToSet(k.blocks) \subseteq DOMAIN c.store BY <1>5 DEF Raises
  <2>3. EntryHolds(more, c.store, key) BY <2>2 DEF EntryHolds, With
  <2>4. Held(more, after) /\ more \in Entries BY <1>1, <1>5, <2>3, AcquireHolds
  <2>5. index \in Partial({Slot(t) : t \in Texts}, Texts)
    <3>1. c.index \in Partial({Slot(t) : t \in Texts}, Texts) BY <1>1 DEF Caches
    <3> QED BY <3>1, PartialMore DEF Index
  <2>6. Append(c.order, key) \in Seq(Texts) BY <1>1
  <2>7. DOMAIN more = DOMAIN c.entries \cup {key} BY DEF With
  <2> HIDE DEF more, index, after, d
  <2>8. /\ e \in Caches /\ e.entries = more /\ e.store = after /\ e.order = Append(c.order, key)
        /\ e.spilled = c.spilled /\ e.aged = c.aged
    BY <1>1, <1>2, <2>4, <2>5, <2>6 DEF Caches
  <2> HIDE DEF e
  <2>9. Filed(e) BY <2>8 DEF Sound, Filed, FilesHold, FilesListed, FilesFit, SpilledBytes
  <2>10. Sound(e) BY <1>1, <1>2, <1>5, <2>4, <2>7, <2>8, <2>9, Admitted
  <2>11. Aged(e, d) /\ Fitting(d) BY <2>1, <2>10, EvictToFitKeeps
  <2>12. Kept(c.store, d.store) BY <1>2, <2>8, <2>11 DEF Aged, Kept
  <2> QED BY <2>11, <2>12 DEF Aged, d
<1> QED BY <1>3, <1>4, <1>5

\* Reading a file back: its blocks under new keys, referenced once, and the entry that names them.
LEMMA LoadKeeps ==
  ASSUME NEW c, Sound(c), NEW key \in DOMAIN c.spilled, key \notin DOMAIN c.entries, NEW writable
  PROVE  LET d == Load(c, key, writable) IN Sound(d) /\ Fitting(d) /\ key \in DOMAIN d.entries
<1> DEFINE file == c.spilled[key]
           keys == FreshKeys(DOMAIN c.store, DOMAIN file.blocks)
           after == StoreBlocks(c.store, keys, file.blocks, 1)
           k == [file EXCEPT !.blocks = keys]
           more == With(c.entries, key, k)
           e == [c EXCEPT !.store = after, !.entries = more, !.order = Append(@, key), !.aged = Touch(@, key)]
<1>1. /\ c \in Caches /\ c.entries \in Entries /\ c.store \in Stores /\ Held(c.entries, c.store)
      /\ IsFiniteSet(DOMAIN c.entries) /\ IsFiniteSet(DOMAIN c.store) /\ c.order \in Seq(Texts) /\ Filed(c)
      /\ c.aged \in Seq(Texts) /\ IsInjective(c.aged) /\ Range(c.aged) = DOMAIN c.spilled
  BY ListedFinite DEF Sound, Caches, Filed, FilesListed
<1>2. /\ key \in Texts \ {NoKey} /\ file \in [text : Texts, split : Nat, blocks : Seq(Blocks)]
      /\ file.split <= Len(file.text) /\ file.text = key /\ Sealed(file.blocks, key, file.split)
  <2>1. key \in Texts \ {NoKey} /\ file \in Files BY <1>1, PartialIs DEF Caches
  <2>2. file.text = key /\ Sealed(file.blocks, key, file.split) BY <1>1 DEF Filed, FilesHold
  <2> QED BY <2>1, <2>2 DEF Files
<1> HIDE DEF file
<1>3. DOMAIN file.blocks = 1..Len(file.blocks) /\ Len(file.blocks) \in Nat /\ IsFiniteSet(DOMAIN file.blocks)
  <2>1. DOMAIN file.blocks = 1..Len(file.blocks) /\ Len(file.blocks) \in Nat BY <1>2
  <2>2. IsFiniteSet(1..Len(file.blocks)) BY <2>1, FS_Interval
  <2> QED BY <2>1, <2>2
<1>4. keys \in [DOMAIN file.blocks -> StoreKeys \ DOMAIN c.store] /\ IsInjective(keys)
  BY <1>1, <1>3, KeysAreFresh
<1> HIDE DEF keys
<1>5. keys \in Seq(StoreKeys) /\ DOMAIN keys = DOMAIN file.blocks BY <1>3, <1>4
<1>6. /\ after \in Stores /\ DOMAIN after = DOMAIN c.store \cup Range(keys)
      /\ \A b \in DOMAIN c.store : after[b] = c.store[b]
      /\ \A i \in DOMAIN file.blocks : after[keys[i]].block = file.blocks[i] /\ after[keys[i]].refs = 1
      /\ IsFiniteSet(Range(keys))
  <2> DEFINE blocks == file.blocks
             store == c.store
             P == DOMAIN blocks
  <2>1. \A i \in P : blocks[i] \in Blocks BY <1>2
  <2>2. store \in Stores /\ IsFiniteSet(P) /\ keys \in [P -> StoreKeys \ DOMAIN store] BY <1>1, <1>3, <1>4
  <2>3. after = StoreBlocks(store, keys, blocks, 1) BY DEF after
  <2> HIDE DEF after, P, blocks, store
  <2>4. /\ after \in Stores /\ DOMAIN after = DOMAIN store \cup Range(keys)
        /\ \A b \in DOMAIN store : after[b] = store[b]
        /\ \A i \in P : after[keys[i]].block = blocks[i] /\ after[keys[i]].refs = 1
        /\ IsFiniteSet(Range(keys))
    BY <1>4, <2>1, <2>2, <2>3, StoredBlocks
  <2> QED BY <2>4 DEF P, blocks, store
<1> HIDE DEF after
<1>7. IsFiniteSet(DOMAIN after)
  <2>1. IsFiniteSet(DOMAIN c.store \cup Range(keys)) BY <1>1, <1>6, FS_Union
  <2> QED BY <1>6, <2>1
<1>8. /\ k \in Checkpoints /\ k.text = key /\ k.blocks = keys /\ k.split = file.split BY <1>2, <1>5 DEF Checkpoints
<1> HIDE DEF k
<1>9. /\ more \in Entries /\ DOMAIN more = DOMAIN c.entries \cup {key} /\ more[key] = k
      /\ \A x \in DOMAIN c.entries : more[x] = c.entries[x]
  <2>1. more \in Entries BY <1>1, <1>2, <1>8, PartialMore DEF Entries
  <2> QED BY <2>1 DEF With
<1> HIDE DEF more
<1>10. Held(c.entries, after)
  <2>1. \A b \in DOMAIN after \ DOMAIN c.store : after[b].refs >= 0
    <3>1. ASSUME NEW b \in DOMAIN after \ DOMAIN c.store PROVE after[b].refs = 1
      <4>1. \E i \in DOMAIN file.blocks : b = keys[i] BY <1>5, <1>6 DEF Range
      <4> QED BY <1>6, <4>1
    <3> QED BY <3>1
  <2>2. \A b \in DOMAIN c.store : after[b].block = c.store[b].block /\ after[b].refs >= c.store[b].refs
    <3>1. ASSUME NEW b \in DOMAIN c.store PROVE c.store[b].refs \in Int
      <4>1. c.store[b] \in Stored BY <1>1, PartialIs DEF Stores
      <4> QED BY <4>1 DEF Stored
    <3> QED BY <1>6, <3>1
  <2>3. DOMAIN c.store \subseteq DOMAIN after BY <1>6
  <2> QED BY <1>1, <1>6, <2>1, <2>2, <2>3, HeldInMore
<1>11. EntryHolds(more, after, key)
  <2>1. Named(after, keys) = file.blocks
    <3>1. \A i \in DOMAIN keys : after[keys[i]].block = file.blocks[i] BY <1>5, <1>6
    <3>2. file.blocks = [i \in DOMAIN keys |-> file.blocks[i]] BY <1>2, <1>5
    <3> QED BY <3>1, <3>2 DEF Named
  <2>2. ToSet(keys) \subseteq DOMAIN after BY <1>5, <1>6 DEF ToSet, Range
  <2> QED BY <1>2, <1>4, <1>8, <1>9, <2>1, <2>2 DEF EntryHolds
<1>12. Held(more, after)
  <2>1. ASSUME NEW x \in DOMAIN more PROVE EntryHolds(more, after, x)
    <3>1. CASE x = key BY <1>11, <3>1
    <3>2. CASE x # key
      <4>1. x \in DOMAIN c.entries /\ more[x] = c.entries[x] BY <1>9, <3>2
      <4>2. EntryHolds(c.entries, after, x) BY <1>10, <4>1 DEF Held
      <4> QED BY <4>1, <4>2 DEF EntryHolds
    <3> QED BY <3>1, <3>2
  <2>2. ASSUME NEW b \in DOMAIN after PROVE Cardinality(Namers(more, b)) <= after[b].refs
    <3>1. CASE b \in DOMAIN c.store
      <4>1. b \notin ToSet(keys) BY <1>4, <3>1 DEF ToSet
      <4>2. Namers(more, b) = Namers(c.entries, b) BY <1>8, <1>9, <4>1 DEF Namers
      <4> QED BY <1>10, <4>2 DEF Held
    <3>2. CASE b \notin DOMAIN c.store
      <4>1. \A x \in DOMAIN c.entries : b \notin ToSet(c.entries[x].blocks)
        BY <1>1, <3>2 DEF Held, EntryHolds
      <4>2. Namers(more, b) \subseteq {key} BY <1>9, <4>1 DEF Namers
      <4>3. Cardinality({key}) = 1 /\ IsFiniteSet({key}) BY FS_Singleton
      <4>4. Cardinality(Namers(more, b)) <= 1 BY <4>2, <4>3, FS_Subset
      <4>5. PICK i \in DOMAIN keys : b = keys[i] BY <1>6, <3>2 DEF Range
      <4>6. after[b].refs = 1 BY <1>5, <1>6, <4>5
      <4> QED BY <4>4, <4>6
    <3> QED BY <3>1, <3>2
  <2> QED BY <2>1, <2>2 DEF Held
<1>13. /\ Touch(c.aged, key) \in Seq(Texts) /\ IsInjective(Touch(c.aged, key))
       /\ Range(Touch(c.aged, key)) = Range(c.aged) \cup {key}
  BY <1>1, <1>2, TouchOnce
<1>14. Append(c.order, key) \in Seq(Texts) BY <1>1, <1>2
<1>15. /\ e \in Caches /\ e.entries = more /\ e.store = after /\ e.order = Append(c.order, key)
       /\ e.spilled = c.spilled /\ e.aged = Touch(c.aged, key)
  BY <1>1, <1>6, <1>9, <1>13, <1>14 DEF Caches
<1>16. Load(c, key, writable) = EvictToFit(e, key, writable) BY DEF Load, e, more, k, after, keys, file
<1> HIDE DEF e
<1>17. Filed(e) BY <1>1, <1>13, <1>15 DEF Filed, FilesHold, FilesListed, FilesFit, SpilledBytes
<1>18. Sound(e) /\ e.order # << >> /\ Last(e.order) = key BY <1>2, <1>7, <1>9, <1>12, <1>15, <1>17, Admitted
<1>19. key \in DOMAIN e.entries BY <1>9, <1>15
<1> QED BY <1>16, <1>18, <1>19, EvictToFitKeeps DEF Aged

\* A cache whose files alone have changed.
LEMMA FilesChanged ==
  ASSUME NEW c, Sound(c), NEW d \in Caches, SameHost(c, d), Filed(d)
  PROVE  Sound(d) /\ (Fitting(c) => Fitting(d))
<1>1. d.entries = c.entries /\ d.order = c.order /\ d.store = c.store BY DEF SameHost
<1>2. Sound(d) BY <1>1 DEF Sound
<1>3. HeldKeys(c) \subseteq DOMAIN c.store BY DEF Sound, Held, EntryHolds, HeldKeys
<1>4. HeldBytes(d) = HeldBytes(c) BY <1>1, <1>3, HeldBytesSame
<1> QED BY <1>1, <1>2, <1>4 DEF Fitting

\* What lookup finds is the longest of the checkpoints that are there and that the prompt starts with.
LEMMA FoundIsThere ==
  ASSUME NEW c, Sound(c), NEW text \in Texts, NEW readable
  PROVE  LET key == Found(c, text, readable)
         IN  \/ key = NoKey
             \/ key \in Texts /\ IsPrefix(key, text) /\ (key \in DOMAIN c.entries \/ key \in DOMAIN c.spilled)
<1> DEFINE there == {key \in Confirmed(c, text) :
                       key \in DOMAIN c.entries \/ (readable /\ key \in DOMAIN c.spilled)}
           Longest(key) == \A other \in there : Len(other) <= Len(key)
<1>1. ASSUME NEW key \in there
      PROVE  /\ key \in Texts /\ IsPrefix(key, text) /\ Len(key) \in 0..Len(text)
             /\ (key \in DOMAIN c.entries \/ key \in DOMAIN c.spilled)
  <2>1. IsPrefix(key, text) BY DEF Confirmed
  <2>2. key \in DOMAIN c.entries \/ key \in DOMAIN c.spilled OBVIOUS
  <2>3. DOMAIN c.entries \subseteq Texts /\ DOMAIN c.spilled \subseteq Texts
    <3>1. c.entries \in Entries /\ c.spilled \in Partial(Texts \ {NoKey}, Files) BY DEF Sound, Caches
    <3> QED BY <3>1, PartialIs DEF Entries
  <2>4. Len(key) \in Nat /\ Len(text) \in Nat BY <2>2, <2>3 DEF Texts
  <2>5. Len(key) <= Len(text) BY <2>1 DEF IsPrefix
  <2> QED BY <2>1, <2>2, <2>3, <2>4, <2>5
<1>2. Found(c, text, readable) = IF there = {} THEN NoKey ELSE CHOOSE key \in there : Longest(key)
  BY DEF Found
<1> HIDE DEF there
<1>3. there # {} => \E key \in there : Longest(key)
  <2> DEFINE short == {n \in 0..Len(text) : \E key \in there : Len(key) = Len(text) - n}
  <2>1. SUFFICES ASSUME there # {} PROVE \E key \in there : Longest(key) OBVIOUS
  <2>2. Len(text) \in Nat BY DEF Texts
  <2>3. short \in SUBSET Int /\ IsFiniteSet(short)
    <3>1. IsFiniteSet(0..Len(text)) BY <2>2, FS_Interval
    <3> QED BY <3>1, FS_Subset
  <2>4. \A key \in there : Len(text) - Len(key) \in short BY <1>1, <2>2
  <2>5. short # {} BY <2>1, <2>4
  <2>6. PICK m \in short : \A n \in short : m <= n
    <3> HIDE DEF short
    <3> QED BY <2>3, <2>5, HasLeast
  <2>7. PICK key \in there : Len(key) = Len(text) - m OBVIOUS
  <2>8. ASSUME NEW other \in there PROVE Len(other) <= Len(key)
    <3>1. m <= Len(text) - Len(other) BY <2>4, <2>6
    <3>2. Len(key) \in 0..Len(text) /\ Len(other) \in 0..Len(text) BY <1>1
    <3> QED BY <2>2, <2>7, <3>1, <3>2
  <2> QED BY <2>8
<1> HIDE DEF Longest
<1> QED BY <1>1, <1>2, <1>3

\* lookup() leaves the cache in order, with what it found in the host tier.
LEMMA LookupKeeps ==
  ASSUME NEW c, Sound(c), Fitting(c), NEW text \in Texts, NEW readable, NEW writable
  PROVE  LET d == Lookup(c, text, readable, writable)
             key == Found(c, text, readable)
         IN  Sound(d) /\ Fitting(d) /\ (key # NoKey => key \in DOMAIN d.entries /\ IsPrefix(key, text))
<1> DEFINE key == Found(c, text, readable)
           tried == {other \in Confirmed(c, text) : other \notin DOMAIN c.entries /\ Len(other) > Len(key)}
           f == ForgetSpilled(c, tried)
           d == Lookup(c, text, readable, writable)
<1>1. key = NoKey \/ (key \in Texts /\ IsPrefix(key, text) /\ (key \in DOMAIN c.entries \/ key \in DOMAIN c.spilled))
  BY FoundIsThere
<1>2. c \in Caches /\ Filed(c) BY DEF Sound
<1>3. f \in Caches /\ SameHost(c, f) /\ Filed(f) /\ f.spilled = Without(c.spilled, tried)
  <2> HIDE DEF tried, f
  <2> QED BY <1>2, ForgottenFiles DEF f
<1>4. Sound(f) /\ Fitting(f) /\ f.entries = c.entries
  <2> HIDE DEF f
  <2> QED BY <1>3, FilesChanged DEF SameHost
<1>5. d = CASE key = NoKey -> f
            [] key \in DOMAIN c.entries -> [f EXCEPT !.order = Touch(@, key)]
            [] OTHER -> Load(f, key, writable)
  BY DEF Lookup
<1>6. NoKey \notin DOMAIN c.entries
  <2>1. c.entries \in Entries BY <1>2 DEF Caches
  <2> QED BY <2>1, PartialIs DEF Entries
<1>7. key \notin tried
  <2>1. CASE key = NoKey BY <2>1 DEF NoKey
  <2>2. CASE key # NoKey
    <3>1. Len(key) \in Nat BY <1>1, <2>2 DEF Texts
    <3> QED BY <3>1
  <2> QED BY <2>1, <2>2
<1> HIDE DEF f, d, key, tried
<1>8. CASE key = NoKey BY <1>4, <1>5, <1>6, <1>8 DEF d, key
<1>9. CASE key # NoKey /\ key \in DOMAIN c.entries
  <2>1. d = [f EXCEPT !.order = Touch(@, key)] BY <1>5, <1>9
  <2>2. Sound(d) /\ Fitting(d) /\ d.entries = f.entries BY <1>4, <1>9, <2>1, UsedAgain
  <2> QED BY <1>1, <1>4, <1>9, <2>2 DEF d, key
<1>10. CASE key # NoKey /\ key \notin DOMAIN c.entries
  <2>1. d = Load(f, key, writable) BY <1>5, <1>10
  <2>2. key \in DOMAIN f.spilled BY <1>1, <1>3, <1>7, <1>10 DEF Without
  <2>3. Sound(d) /\ Fitting(d) /\ key \in DOMAIN d.entries BY <1>4, <1>10, <2>1, <2>2, LoadKeeps
  <2> QED BY <1>1, <1>10, <2>3 DEF d, key
<1> QED BY <1>8, <1>9, <1>10

\* Releasing keys keeps what blocks are left, and no count below zero.
LEMMA ReleaseShrinks ==
  ASSUME NEW store \in Stores, \A k \in DOMAIN store : store[k].refs >= 0, NEW keys \in Seq(StoreKeys)
  PROVE  /\ Release(store, keys) \in Stores /\ Kept(store, Release(store, keys))
         /\ \A k \in DOMAIN Release(store, keys) : Release(store, keys)[k].refs >= 0
<1> DEFINE left == [k \in DOMAIN store |-> [store[k] EXCEPT !.refs = @ - Occurrences(keys, k)]]
           after == Release(store, keys)
<1>1. store \in [DOMAIN store -> Stored] /\ DOMAIN store \subseteq StoreKeys BY PartialIs DEF Stores
<1>2. IsFiniteSet(DOMAIN keys)
  <2>1. DOMAIN keys = 1..Len(keys) /\ Len(keys) \in Nat OBVIOUS
  <2> QED BY <2>1, FS_Interval
<1>3. ASSUME NEW k \in DOMAIN store
      PROVE  /\ left[k] \in Stored /\ left[k].block = store[k].block
             /\ k \notin Range(keys) => left[k].refs = store[k].refs
  <2> DEFINE I == {i \in DOMAIN keys : keys[i] = k}
  <2>1. IsFiniteSet(I) BY <1>2, FS_Subset
  <2>2. Occurrences(keys, k) \in Nat BY <2>1, FS_CardinalityType DEF Occurrences
  <2>3. k \notin Range(keys) => Occurrences(keys, k) = 0
    <3>1. k \notin Range(keys) => I = {} BY DEF Range
    <3> QED BY <3>1, FS_EmptySet DEF Occurrences
  <2>4. store[k] \in Stored BY <1>1
  <2>5. left[k] = [store[k] EXCEPT !.refs = @ - Occurrences(keys, k)] OBVIOUS
  <2> HIDE DEF left
  <2> QED BY <2>2, <2>3, <2>4, <2>5 DEF Stored
<1>4. after = [k \in DOMAIN store \ {k \in Range(keys) : left[k].refs <= 0} |-> left[k]]
  BY DEF Release, Without
<1> HIDE DEF left, after
<1>5. DOMAIN after \subseteq DOMAIN store /\ \A k \in DOMAIN after : after[k] = left[k] BY <1>4
<1>6. after \in Stores
  <2>1. after \in [DOMAIN after -> Stored] BY <1>3, <1>4
  <2> QED BY <1>1, <1>5, <2>1, PartialIs DEF Stores
<1>7. Kept(store, after) BY <1>3, <1>5 DEF Kept
<1>8. ASSUME NEW k \in DOMAIN after PROVE after[k].refs >= 0
  <2>1. k \in DOMAIN store /\ after[k] = left[k] /\ left[k].refs \in Int BY <1>3, <1>5 DEF Stored
  <2>2. CASE k \in Range(keys) BY <1>4, <2>1, <2>2
  <2>3. CASE k \notin Range(keys) BY <1>3, <2>1, <2>3
  <2> QED BY <2>2, <2>3
<1> QED BY <1>6, <1>7, <1>8 DEF after

\* clear() leaves a host tier without entries, and the files or none.
LEMMA ClearKeeps ==
  ASSUME NEW c, Sound(c), NEW drop
  PROVE  Sound(Clear(c, drop)) /\ Fitting(Clear(c, drop))
<1> DEFINE L == Len(c.order)
           Body(n, s) == Release(s, c.entries[c.order[n]].blocks)
           Releases(g) == g = [n \in 0..L |-> IF n = 0 THEN c.store ELSE Body(n, g[n - 1])]
           X == {s \in Stores : DOMAIN s \subseteq DOMAIN c.store /\ \A k \in DOMAIN s : s[k].refs >= 0}
           step == [x \in (1..L) \X X |-> Body(x[1], x[2])]
           released == CHOOSE g : Releases(g)
           d == [c EXCEPT !.store = released[L], !.entries = << >>, !.order = << >>]
<1>1. /\ c \in Caches /\ L \in Nat /\ c.store \in Stores /\ IsFiniteSet(DOMAIN c.store) /\ Filed(c)
      /\ DOMAIN c.order = 1..L /\ Range(c.order) = DOMAIN c.entries /\ c.entries \in Entries
      /\ IsFiniteSet(DOMAIN c.entries) /\ Held(c.entries, c.store)
  BY ListedFinite DEF Sound, Caches
<1>2. Clear(c, drop) = IF drop THEN [d EXCEPT !.spilled = << >>, !.aged = << >>] ELSE d BY DEF Clear
<1>3. c.store \in X
  <2>1. ASSUME NEW k \in DOMAIN c.store PROVE c.store[k].refs >= 0
    <3>1. Namers(c.entries, k) \subseteq DOMAIN c.entries BY DEF Namers
    <3>2. Cardinality(Namers(c.entries, k)) \in Nat BY <1>1, <3>1, FS_Subset, FS_CardinalityType
    <3>3. c.store[k] \in Stored BY <1>1, PartialIs DEF Stores
    <3>4. Cardinality(Namers(c.entries, k)) <= c.store[k].refs BY <1>1 DEF Held
    <3> QED BY <3>2, <3>3, <3>4 DEF Stored
  <2> QED BY <1>1, <2>1
<1>4. ASSUME NEW n \in 1..L, NEW s \in X PROVE Body(n, s) \in X
  <2>1. c.order[n] \in DOMAIN c.entries BY <1>1 DEF Range
  <2>2. c.entries[c.order[n]].blocks \in Seq(StoreKeys)
    <3>1. c.entries[c.order[n]] \in Checkpoints BY <1>1, <2>1, PartialIs DEF Entries
    <3> QED BY <3>1 DEF Checkpoints
  <2>3. /\ Body(n, s) \in Stores /\ Kept(s, Body(n, s))
        /\ \A k \in DOMAIN Body(n, s) : Body(n, s)[k].refs >= 0
    BY <2>2, ReleaseShrinks
  <2> HIDE DEF Body
  <2> QED BY <2>3 DEF Kept
<1> HIDE DEF X, Body
<1>5. step \in [(1..L) \X X -> X] BY <1>4
<1>6. PICK g : Walks(g, L, X, c.store, step)
  <2> HIDE DEF step, L
  <2> QED BY <1>1, <1>3, <1>5, WalkExists
<1>7. Releases(g)
  <2>1. ASSUME NEW n \in 1..L PROVE g[n] = Body(n, g[n - 1])
    <3>1. n - 1 \in 0..L /\ g[n - 1] \in X BY <1>1, <1>6 DEF Walks
    <3> QED BY <1>6, <3>1 DEF Walks
  <2>2. g[0] = c.store /\ g = [n \in 0..L |-> g[n]] BY <1>6 DEF Walks
  <2>3. ASSUME NEW n \in 0..L PROVE g[n] = IF n = 0 THEN c.store ELSE Body(n, g[n - 1])
    <3>1. CASE n = 0 BY <2>2, <3>1
    <3>2. CASE n # 0
      <4>1. n \in 1..L BY <1>1, <3>2
      <4> QED BY <2>1, <3>2, <4>1
    <3> QED BY <3>1, <3>2
  <2> QED BY <2>2, <2>3
<1>8. Releases(released) BY <1>7
<1> HIDE DEF released
<1>9. released[0] = c.store /\ \A n \in 1..L : released[n] = Body(n, released[n - 1]) BY <1>1, <1>8
<1> HIDE DEF Releases
<1> DEFINE fine == {n \in 0..L : released[n] \in X}
<1>10. 0 \in fine BY <1>1, <1>3, <1>9
<1>11. ASSUME NEW n \in 0..(L - 1), n \in fine PROVE n + 1 \in fine
  <2>1. n + 1 \in 1..L /\ released[n + 1] = Body(n + 1, released[n]) /\ released[n] \in X BY <1>1, <1>9, <1>11
  <2> QED BY <1>4, <2>1
<1> HIDE DEF fine
<1>12. 0..L \subseteq fine
  <2> HIDE DEF L
  <2> QED BY <1>1, <1>10, <1>11, CountingUp
<1>13. released[L] \in X BY <1>1, <1>12 DEF fine
<1>14. << >> \in Entries /\ << >> \in Seq(Texts) /\ << >> \in Partial(Texts \ {NoKey}, Files)
  BY PartialNone DEF Entries
<1>15. /\ d \in Caches /\ d.store = released[L] /\ d.entries = << >> /\ d.order = << >>
       /\ d.spilled = c.spilled /\ d.aged = c.aged
  BY <1>1, <1>13, <1>14 DEF Caches, X
<1> HIDE DEF d
<1>16. Held(<< >>, released[L])
  <2>1. ASSUME NEW k \in DOMAIN released[L] PROVE Cardinality(Namers(<< >>, k)) <= released[L][k].refs
    <3>1. Namers(<< >>, k) = {} BY DEF Namers
    <3>2. released[L][k].refs >= 0 BY <1>13 DEF X
    <3> QED BY <3>1, <3>2, FS_EmptySet
  <2> QED BY <2>1 DEF Held
<1>17. IsFiniteSet(DOMAIN d.store)
  <2>1. DOMAIN d.store \subseteq DOMAIN c.store BY <1>13, <1>15 DEF X
  <2> QED BY <1>1, <2>1, FS_Subset
<1>18. Range(d.order) = DOMAIN d.entries /\ IsInjective(d.order)
  <2>1. DOMAIN << >> = {} OBVIOUS
  <2> QED BY <1>15, <2>1 DEF Range, IsInjective
<1>19. Filed(d) BY <1>1, <1>15 DEF Filed, FilesHold, FilesListed, FilesFit, SpilledBytes
<1>20. Sound(d) BY <1>15, <1>16, <1>17, <1>18, <1>19 DEF Sound
<1>21. CASE ~drop BY <1>2, <1>15, <1>20, <1>21, HeldBytesFit
<1>22. CASE drop
  <2> DEFINE e == [d EXCEPT !.spilled = << >>, !.aged = << >>]
  <2>1. /\ e \in Caches /\ SameHost(d, e) /\ e.spilled = << >> /\ e.aged = << >>
    BY <1>14, <1>15 DEF Caches, SameHost
  <2> HIDE DEF e
  <2>2. DOMAIN << >> = {} OBVIOUS
  <2>3. FilesHold(e) /\ FilesListed(e) BY <2>1, <2>2 DEF FilesHold, FilesListed, Range, IsInjective
  <2>4. FilesFit(e)
    <3>1. DOMAIN [key \in {} |-> FileBytes(e.spilled[key])] = {} OBVIOUS
    <3>2. SpilledBytes(e, {}) = 0 BY <3>1, SumOfNone DEF SpilledBytes, SumFunction
    <3> QED BY <2>1, <2>2, <3>2, PrefixCacheAssumption DEF FilesFit
  <2>5. Sound(e) BY <1>20, <2>1, <2>3, <2>4, FilesChanged DEF Filed
  <2>6. Fitting(e) BY <1>15, <2>1, <2>5, HeldBytesFit DEF SameHost
  <2> QED BY <1>2, <1>22, <2>5, <2>6 DEF e
<1> QED BY <1>21, <1>22

-----------------------------------------------------------------------------
(* The live cache.                                                         *)

\* What it is to be a prefix, element by element.
LEMMA PrefixIs ==
  ASSUME NEW s \in Texts, NEW t \in Texts
  PROVE  IsPrefix(s, t) <=> Len(s) <= Len(t) /\ \A i \in 1..Len(s) : s[i] = t[i]
<1>1. Len(s) \in Nat /\ Len(t) \in Nat BY DEF Texts
<1>2. s \in Seq(Vocabulary) /\ t \in Seq(Vocabulary) BY DEF Texts
<1>3. SubSeq(s, 1, Len(s)) = s BY <1>2, SubSeqFull
<1>4. ASSUME Len(s) <= Len(t)
      PROVE  /\ SubSeq(t, 1, Len(s)) \in Seq(Vocabulary) /\ Len(SubSeq(t, 1, Len(s))) = Len(s)
             /\ \A i \in 1..Len(s) : SubSeq(t, 1, Len(s))[i] = t[i]
  BY <1>1, <1>2, <1>4
<1>5. ASSUME Len(s) <= Len(t), \A i \in 1..Len(s) : s[i] = t[i] PROVE SubSeq(t, 1, Len(s)) = s
  <2> DEFINE r == SubSeq(t, 1, Len(s))
  <2>1. r \in Seq(Vocabulary) /\ Len(r) = Len(s) /\ \A i \in 1..Len(s) : r[i] = t[i] BY <1>4, <1>5
  <2> HIDE DEF r
  <2>2. r = s BY <1>2, <1>5, <2>1, SeqEqual
  <2> QED BY <2>2 DEF r
<1> QED BY <1>3, <1>4, <1>5 DEF IsPrefix

\* A text is a prefix of what it is continued to, and its beginnings are prefixes of it.
LEMMA PrefixesOf ==
  ASSUME NEW s \in Texts, NEW t \in Texts
  PROVE  /\ s \o t \in Texts /\ Len(s \o t) = Len(s) + Len(t) /\ IsPrefix(s, s \o t)
         /\ \A n \in 0..Len(s) : SubSeq(s, 1, n) \in Texts /\ Len(SubSeq(s, 1, n)) = n /\ IsPrefix(SubSeq(s, 1, n), s)
         /\ IsPrefix(s, t) /\ Len(t) <= Len(s) => s = t
<1>1. s \in Seq(Vocabulary) /\ t \in Seq(Vocabulary) /\ Len(s) \in Nat /\ Len(t) \in Nat BY DEF Texts
<1> DEFINE u == s \o t
<1>2. /\ u \in Seq(Vocabulary) /\ Len(u) = Len(s) + Len(t)
      /\ \A i \in 1..(Len(s) + Len(t)) : u[i] = IF i <= Len(s) THEN s[i] ELSE t[i - Len(s)]
  BY <1>1, ConcatProperties
<1> HIDE DEF u
<1>3. u \in Texts BY <1>2 DEF Texts
<1>4. IsPrefix(s, u) BY <1>1, <1>2, <1>3, PrefixIs
<1>5. ASSUME NEW n \in 0..Len(s)
      PROVE  SubSeq(s, 1, n) \in Texts /\ Len(SubSeq(s, 1, n)) = n /\ IsPrefix(SubSeq(s, 1, n), s)
  <2> DEFINE r == SubSeq(s, 1, n)
  <2>1. r \in Seq(Vocabulary) /\ Len(r) = n /\ \A i \in 1..n : r[i] = s[i] BY <1>1
  <2> HIDE DEF r
  <2>2. r \in Texts BY <2>1 DEF Texts
  <2>3. IsPrefix(r, s) BY <1>1, <2>1, <2>2, PrefixIs
  <2> QED BY <2>1, <2>2, <2>3 DEF r
<1>6. ASSUME IsPrefix(s, t), Len(t) <= Len(s) PROVE s = t
  <2>1. Len(s) = Len(t) /\ \A i \in 1..Len(s) : s[i] = t[i] BY <1>1, <1>6, PrefixIs
  <2> QED BY <1>1, <2>1, SeqEqual
<1> QED BY <1>2, <1>3, <1>4, <1>5, <1>6 DEF u

\* A prefix of two texts that agree that far.
LEMMA PrefixMoves ==
  ASSUME NEW r \in Texts, NEW s \in Texts, NEW t \in Texts, IsPrefix(r, s), Len(r) <= Len(t),
         IsPrefix(s, t) \/ IsPrefix(t, s)
  PROVE  IsPrefix(r, t)
<1>1. Len(r) \in Nat /\ Len(s) \in Nat /\ Len(t) \in Nat BY DEF Texts
<1>2. Len(r) <= Len(s) /\ \A i \in 1..Len(r) : r[i] = s[i] BY PrefixIs
<1>3. CASE IsPrefix(s, t)
  <2>1. Len(s) <= Len(t) /\ \A i \in 1..Len(s) : s[i] = t[i] BY <1>3, PrefixIs
  <2>2. \A i \in 1..Len(r) : r[i] = t[i] BY <1>1, <1>2, <2>1
  <2> QED BY <2>2, PrefixIs
<1>4. CASE IsPrefix(t, s)
  <2>1. Len(t) <= Len(s) /\ \A i \in 1..Len(t) : t[i] = s[i] BY <1>4, PrefixIs
  <2>2. \A i \in 1..Len(r) : r[i] = t[i] BY <1>1, <1>2, <2>1
  <2> QED BY <2>2, PrefixIs
<1> QED BY <1>3, <1>4

\* Blocks tile every text that goes on as they do.
LEMMA TiledMoves ==
  ASSUME NEW blocks \in Seq(Blocks), NEW s \in Texts, NEW t \in Texts, NEW split \in Nat,
         Tiled(blocks, s, split), split <= Len(t), IsPrefix(s, t) \/ IsPrefix(t, s)
  PROVE  Tiled(blocks, t, split)
<1>1. Len(t) \in Nat BY DEF Texts
<1>2. ASSUME NEW i \in DOMAIN blocks PROVE IsPrefix(blocks[i].text, t)
  <2>1. blocks[i].text \in Texts BY DEF Blocks
  <2>2. IsPrefix(blocks[i].text, s) /\ Len(blocks[i].text) <= split BY DEF Tiled, Tile
  <2>3. Len(blocks[i].text) \in Nat BY <2>1 DEF Texts
  <2>4. Len(blocks[i].text) <= Len(t) BY <1>1, <2>2, <2>3
  <2> QED BY <2>1, <2>2, <2>4, PrefixMoves
<1> QED BY <1>2 DEF Tiled, Tile

\* What the live cache is.
Lives == [text : Texts, blocks : Seq(Blocks)]

\* The split of a cache whose blocks tile its text is within it.
LEMMA SplitIsWithin ==
  ASSUME NEW l \in Lives, Tiled(l.blocks, l.text, Split(l))
  PROVE  Split(l) \in Nat /\ Split(l) <= Len(l.text) /\ Len(l.text) \in Nat
<1>1. Len(l.text) \in Nat /\ l.blocks \in Seq(Blocks) BY DEF Lives, Texts
<1>2. CASE l.blocks = << >> BY <1>1, <1>2 DEF Split
<1>3. CASE l.blocks # << >>
  <2>1. Len(l.blocks) \in DOMAIN l.blocks BY <1>1, <1>3, EmptySeq
  <2> DEFINE b == l.blocks[Len(l.blocks)]
  <2>2. b \in Blocks /\ IsPrefix(b.text, l.text) BY <1>1, <2>1 DEF Tiled, Tile
  <2>3. Split(l) = Len(b.text) BY <1>3 DEF Split, Last
  <2>4. Len(b.text) \in Nat BY <2>2 DEF Blocks, Texts
  <2>5. Len(b.text) <= Len(l.text) BY <2>2 DEF IsPrefix
  <2> QED BY <1>1, <2>3, <2>4, <2>5
<1> QED BY <1>2, <1>3

\* Whole groups of some tokens are no more tokens.
LEMMA WholeGroups ==
  ASSUME NEW x \in Int, NEW g \in Nat \ {0}
  PROVE  (x \div g) * g \in Int /\ (x \div g) * g <= x /\ x - (x \div g) * g < g /\ x \div g \in Int
<1>1. x \div g \in Int OBVIOUS
<1>2. x = g * (x \div g) + (x % g) /\ x % g \in 0..(g - 1) OBVIOUS
<1>3. \A a \in Int, b \in Int : a * b = b * a /\ a * b \in Int OBVIOUS
<1>4. (x \div g) * g = g * (x \div g) /\ g * (x \div g) \in Int BY <1>1, <1>3
<1> QED BY <1>2, <1>4

\* Feeding tokens: the text goes on, whole groups past the window become a block, the rest stays.
LEMMA FeedKeeps ==
  ASSUME NEW l \in Lives, Tiled(l.blocks, l.text, Split(l)), NEW fed \in Texts
  PROVE  LET d == Feed(l, fed)
         IN  /\ d \in Lives /\ d.text = l.text \o fed /\ Tiled(d.blocks, d.text, Split(d))
             /\ Len(l.blocks) <= Len(d.blocks) /\ \A i \in DOMAIN l.blocks : d.blocks[i] = l.blocks[i]
             /\ Split(d) = Split(l) \/ Split(d) <= Len(d.text) - Window
             /\ Len(d.text) - Window - Split(d) < Group
             /\ (\E q \in Nat : Split(l) = q * Group) => \E q \in Nat : Split(d) = q * Group
<1> DEFINE text == l.text \o fed
           take == ((Len(text) - Split(l) - Window) \div Group) * Group
           d == Feed(l, fed)
           b == [from |-> Split(l), text |-> SubSeq(text, 1, Split(l) + take)]
<1>1. /\ l.text \in Texts /\ l.blocks \in Seq(Blocks) /\ Split(l) \in Nat /\ Split(l) <= Len(l.text)
      /\ Len(l.text) \in Nat /\ Len(fed) \in Nat
  BY SplitIsWithin DEF Lives, Texts
<1>2. text \in Texts /\ Len(text) = Len(l.text) + Len(fed) /\ IsPrefix(l.text, text) BY <1>1, PrefixesOf
<1>3. d = [text |-> text, blocks |-> IF take <= 0 THEN l.blocks ELSE Append(l.blocks, b)] BY DEF Feed
<1> HIDE DEF text, d
<1>4. d.text = text /\ d.blocks = IF take <= 0 THEN l.blocks ELSE Append(l.blocks, b) BY <1>3
<1>5. /\ take \in Int /\ take <= Len(text) - Split(l) - Window
      /\ Len(text) - Split(l) - Window - take < Group
      /\ \E z \in Int : take = z * Group
  <2>1. Len(text) - Split(l) - Window \in Int /\ Group \in Nat \ {0} BY <1>1, <1>2, GenerationAssumption
  <2> QED BY <2>1, WholeGroups
<1>0. Group \in Nat \ {0} /\ Window \in Nat BY GenerationAssumption
<1> HIDE DEF take
<1>6. Tiled(l.blocks, text, Split(l)) BY <1>1, <1>2, TiledMoves
<1>7. CASE take <= 0
  <2>1. d.blocks = l.blocks BY <1>4, <1>7
  <2>2. Split(d) = Split(l) BY <2>1 DEF Split
  <2>3. d \in Lives BY <1>1, <1>2, <1>3, <1>7 DEF Lives
  <2>4. Len(l.blocks) \in Nat BY <1>1
  <2>5. Len(text) - Window - Split(l) < Group
    <3>1. PICK a \in Int, s \in Int, w \in Int, k \in Int, g \in Int :
             a = Len(text) /\ s = Split(l) /\ w = Window /\ k = take /\ g = Group
      BY <1>0, <1>1, <1>2, <1>5
    <3>2. a - s - w - k < g /\ k <= 0 BY <1>5, <1>7, <3>1
    <3>3. a - w - s < g BY ONLY <3>1, <3>2
    <3> QED BY <3>1, <3>3
  <2> QED BY <1>4, <1>6, <2>1, <2>2, <2>3, <2>4, <2>5 DEF d, text
<1>8. CASE take > 0
  <2> DEFINE n == Split(l) + take
             L == Len(l.blocks)
  <2>1. Window \in Nat BY GenerationAssumption
  <2>2. n \in 0..Len(text) /\ n <= Len(text) - Window /\ n > Split(l)
    <3>1. PICK a \in Int, s \in Int, w \in Nat, k \in Int :
             a = Len(text) /\ s = Split(l) /\ w = Window /\ k = take /\ s >= 0
      <4>1. take \in Int BY <1>5
      <4>2. Len(text) \in Int BY <1>2 DEF Texts
      <4>3. Split(l) \in Int /\ Split(l) >= 0 BY <1>1
      <4> HIDE DEF n, b, L
      <4> QED BY <2>1, <4>1, <4>2, <4>3
    <3>2. k <= a - s - w /\ k > 0 BY <1>5, <1>8, <3>1
    <3>3. s + k \in 0..a /\ s + k <= a - w /\ s + k > s BY ONLY <3>1, <3>2
    <3>4. n = s + k BY <3>1
    <3> HIDE DEF n
    <3> QED BY <3>1, <3>3, <3>4
  <2>3. SubSeq(text, 1, n) \in Texts /\ Len(SubSeq(text, 1, n)) = n /\ IsPrefix(SubSeq(text, 1, n), text)
    BY <1>2, <2>2, PrefixesOf
  <2>4. b \in Blocks /\ b.from = Split(l) /\ Len(b.text) = n /\ IsPrefix(b.text, text)
    BY <1>1, <2>2, <2>3 DEF Blocks, IsBlock
  <2> HIDE DEF b, n
  <2>5. d.blocks = Append(l.blocks, b) BY <1>4, <1>5, <1>8
  <2>6. /\ d.blocks \in Seq(Blocks) /\ Len(d.blocks) = L + 1 /\ \A i \in 1..L : d.blocks[i] = l.blocks[i]
        /\ d.blocks[L + 1] = b /\ L \in Nat /\ d.blocks # << >>
    BY <1>1, <2>4, <2>5, AppendProperties
  <2>7. DOMAIN d.blocks = 1..(L + 1) /\ DOMAIN l.blocks = 1..L BY <1>1, <2>6
  <2>8. Split(d) = n BY <2>4, <2>6 DEF Split, Last
  <2>9. L # 0 => Split(l) = Len(l.blocks[L].text)
    <3>1. L # 0 => l.blocks # << >> BY EmptySeq
    <3> QED BY <3>1 DEF Split, Last
  <2>10. L = 0 => Split(l) = 0 BY <1>1, EmptySeq DEF Split
  <2>11. ASSUME NEW i \in 1..(L + 1)
         PROVE  /\ d.blocks[i].from = IF i = 1 THEN 0 ELSE Len(d.blocks[i - 1].text)
                /\ IsPrefix(d.blocks[i].text, text) /\ Len(d.blocks[i].text) <= n
    <3>1. CASE i = L + 1
      <4>1. CASE L = 0 BY <2>2, <2>4, <2>6, <2>10, <3>1, <4>1
      <4>2. CASE L # 0
        <5>1. i # 1 /\ i - 1 = L /\ L \in 1..L BY <2>6, <3>1, <4>2
        <5>2. d.blocks[i - 1] = l.blocks[L] BY <2>6, <5>1
        <5>3. n <= n BY <2>2
        <5> QED BY <2>4, <2>6, <2>9, <3>1, <4>2, <5>1, <5>2, <5>3
      <4> QED BY <4>1, <4>2
    <3>2. CASE i # L + 1
      <4>1. i \in 1..L /\ d.blocks[i] = l.blocks[i] BY <2>6, <3>2
      <4>2. i # 1 => d.blocks[i - 1] = l.blocks[i - 1] BY <2>6, <4>1
      <4>3. /\ l.blocks[i].from = IF i = 1 THEN 0 ELSE Len(l.blocks[i - 1].text)
            /\ IsPrefix(l.blocks[i].text, text) /\ Len(l.blocks[i].text) <= Split(l)
        BY <1>6, <2>7, <4>1 DEF Tiled, Tile
      <4>4. Len(l.blocks[i].text) \in Nat
        <5>1. l.blocks[i] \in Blocks BY <1>1, <2>7, <4>1
        <5> QED BY <5>1 DEF Blocks, Texts
      <4>5. Len(l.blocks[i].text) <= n BY <1>1, <2>2, <4>3, <4>4
      <4> QED BY <4>1, <4>2, <4>3, <4>5
    <3> QED BY <3>1, <3>2
  <2>12. Split(d) = IF d.blocks = << >> THEN 0 ELSE Len(Last(d.blocks).text) BY DEF Split
  <2>13. Tiled(d.blocks, d.text, Split(d)) BY <1>4, <2>7, <2>8, <2>11, <2>12 DEF Tiled, Tile
  <2>14. d \in Lives
    <3>1. d = [text |-> text, blocks |-> d.blocks] BY <1>3, <1>4
    <3> QED BY <1>2, <2>6, <3>1 DEF Lives
  <2>15. Len(l.blocks) <= Len(d.blocks) BY <2>6
  <2>16. \A i \in DOMAIN l.blocks : d.blocks[i] = l.blocks[i] BY <2>6, <2>7
  <2>17. Len(text) - Window - n < Group BY <1>0, <1>1, <1>2, <1>5 DEF n
  <2>18. ASSUME NEW q \in Nat, Split(l) = q * Group PROVE \E r \in Nat : n = r * Group
    <3>1. PICK z \in Int : take = z * Group BY <1>5
    <3>2. q + z \in Int /\ n = (q + z) * Group BY <1>0, <2>18, <3>1 DEF n
    <3>3. n \in Nat BY <2>2
    <3>4. q + z \in Nat
      <4>1. ASSUME q + z < 0 PROVE FALSE
        <5>1. (q + z) * Group < 0 BY <1>0, <3>2, <4>1
        <5> QED BY <3>2, <3>3, <5>1
      <4> QED BY <3>2, <4>1
    <3> QED BY <3>2, <3>4
  <2> QED BY <1>4, <2>2, <2>8, <2>13, <2>14, <2>15, <2>16, <2>17, <2>18 DEF d, text
<1> QED BY <1>5, <1>7, <1>8

\* Cropping to a length that leaves the blocks alone.
LEMMA CropKeeps ==
  ASSUME NEW l \in Lives, Tiled(l.blocks, l.text, Split(l)), NEW n \in Nat, Split(l) <= n, n <= Len(l.text)
  PROVE  LET d == Crop(l, n)
         IN  /\ d \in Lives /\ d.text = SubSeq(l.text, 1, n) /\ d.blocks = l.blocks /\ Split(d) = Split(l)
             /\ Tiled(d.blocks, d.text, Split(d)) /\ Len(d.text) = n /\ IsPrefix(d.text, l.text)
<1> DEFINE t == SubSeq(l.text, 1, n)
           d == Crop(l, n)
<1>1. l.text \in Texts /\ l.blocks \in Seq(Blocks) /\ Split(l) \in Nat /\ n \in 0..Len(l.text)
  BY SplitIsWithin DEF Lives
<1>2. t \in Texts /\ Len(t) = n /\ IsPrefix(t, l.text) BY <1>1, PrefixesOf
<1>3. d = [l EXCEPT !.text = t] BY DEF Crop
<1> HIDE DEF t, d
<1>4. d \in Lives /\ d.text = t /\ d.blocks = l.blocks BY <1>2, <1>3 DEF Lives
<1>5. Split(d) = Split(l) BY <1>4 DEF Split
<1>6. Tiled(l.blocks, t, Split(l)) BY <1>1, <1>2, TiledMoves
<1> QED BY <1>2, <1>4, <1>5, <1>6 DEF d, t

\* The keys of a checkpoint: those that are remembered, and new ones that nothing has.
LEMMA KeysAre ==
  ASSUME Sound(cache), lost = {}, NEW l \in Lives, Remembers(cache.store, memo, l.blocks), NEW reused \in Reuses(l)
  PROVE  LET keys == Keys(l, reused)
         IN  /\ keys \in Seq(StoreKeys) /\ Len(keys) = Len(l.blocks) /\ IsInjective(keys)
             /\ DOMAIN keys = DOMAIN l.blocks
             /\ \A i \in DOMAIN keys : i <= Len(memo) => keys[i] = memo[i]
             /\ \A i \in DOMAIN keys : i > Len(memo) => keys[i] \notin DOMAIN cache.store \cup Range(memo)
<1> DEFINE L == Len(l.blocks)
           M == Len(memo)
           places == Unkeyed(l)
           used == DOMAIN cache.store \cup Range(memo)
           fresh == FreshKeys(used, places)
           keys == Keys(l, reused)
<1>1. /\ l.blocks \in Seq(Blocks) /\ DOMAIN l.blocks = 1..L /\ L \in Nat /\ memo \in Seq(StoreKeys)
      /\ DOMAIN memo = 1..M /\ M \in Nat /\ M <= L /\ IsInjective(memo) /\ IsFiniteSet(DOMAIN cache.store)
      /\ IsFiniteSet(Range(memo))
  BY ListedFinite DEF Lives, Remembers, Sound
<1>2. DOMAIN reused = {}
  <2>1. PICK S \in SUBSET places : reused \in [S -> {}] BY DEF Reuses
  <2>2. S = {} BY <2>1
  <2> QED BY <2>1, <2>2
<1>3. used = DOMAIN cache.store \cup Range(memo) \cup lost /\ places = places \ DOMAIN reused BY <1>2
<1>4. places = {i \in 1..L : i > M} BY <1>1 DEF Unkeyed
<1>5. IsFiniteSet(used) /\ IsFiniteSet(places)
  <2>1. IsFiniteSet(used) BY <1>1, FS_Union
  <2>2. IsFiniteSet(1..L) BY <1>1, FS_Interval
  <2>3. places \subseteq 1..L BY <1>4
  <2> QED BY <2>1, <2>2, <2>3, FS_Subset
<1> HIDE DEF places, used
<1>6. fresh \in [places -> StoreKeys \ used] /\ IsInjective(fresh) BY <1>5, KeysAreFresh
<1>7. keys = [i \in 1..L |-> IF i <= M THEN memo[i] ELSE fresh[i]]
  <2>1. keys = [i \in DOMAIN l.blocks |->
                  CASE i <= Len(memo) -> memo[i]
                    [] i \in DOMAIN reused -> reused[i]
                    [] OTHER -> FreshKeys(DOMAIN cache.store \cup Range(memo) \cup lost,
                                          Unkeyed(l) \ DOMAIN reused)[i]]
    BY DEF Keys
  <2>2. FreshKeys(DOMAIN cache.store \cup Range(memo) \cup lost, Unkeyed(l) \ DOMAIN reused) = fresh
    BY <1>3 DEF places, used
  <2> HIDE DEF fresh, keys
  <2> QED BY <1>1, <1>2, <2>1, <2>2
<1> HIDE DEF fresh, keys
<1>8. \A i \in 1..L : /\ i <= M => keys[i] = memo[i] /\ keys[i] \in Range(memo) /\ keys[i] \in StoreKeys
                      /\ i > M => keys[i] = fresh[i] /\ keys[i] \notin used /\ keys[i] \in StoreKeys
  <2>1. ASSUME NEW i \in 1..L, i <= M PROVE keys[i] = memo[i] /\ keys[i] \in Range(memo) /\ keys[i] \in StoreKeys
    <3>1. i \in DOMAIN memo /\ keys[i] = memo[i] BY <1>1, <1>7, <2>1
    <3> QED BY <1>1, <3>1 DEF Range
  <2>2. ASSUME NEW i \in 1..L, i > M PROVE keys[i] = fresh[i] /\ keys[i] \notin used /\ keys[i] \in StoreKeys
    <3>1. i \in places /\ keys[i] = fresh[i] BY <1>1, <1>4, <1>7, <2>2
    <3> QED BY <1>6, <3>1
  <2> QED BY <2>1, <2>2
<1>9. keys \in Seq(StoreKeys) /\ DOMAIN keys = 1..L /\ Len(keys) = L
  <2>1. \A i \in 1..L : keys[i] \in StoreKeys BY <1>1, <1>8
  <2>2. DOMAIN keys = 1..L /\ keys = [i \in 1..L |-> keys[i]] BY <1>7
  <2>3. keys \in [1..L -> StoreKeys] BY <2>1, <2>2
  <2> HIDE DEF L
  <2> QED BY <1>1, <2>2, <2>3
<1>10. IsInjective(keys)
  <2>1. SUFFICES ASSUME NEW i \in 1..L, NEW j \in 1..L, keys[i] = keys[j] PROVE i = j
    BY <1>9 DEF IsInjective
  <2>2. CASE i <= M /\ j <= M
    <3>1. i \in DOMAIN memo /\ j \in DOMAIN memo /\ memo[i] = memo[j] BY <1>1, <1>8, <2>1, <2>2
    <3> QED BY <1>1, <3>1 DEF IsInjective
  <2>3. CASE i > M /\ j > M
    <3>1. i \in places /\ j \in places /\ fresh[i] = fresh[j] BY <1>4, <1>8, <2>1, <2>3
    <3> QED BY <1>6, <3>1 DEF IsInjective
  <2>4. CASE (i <= M /\ j > M) \/ (i > M /\ j <= M) BY <1>8, <2>1, <2>4 DEF used
  <2> QED BY <1>1, <2>2, <2>3, <2>4
<1> QED BY <1>1, <1>8, <1>9, <1>10 DEF keys, used

\* A checkpoint on the way (_maybe_checkpoint): the cache stays in order whether put has a new one, knows
\* it or misses blocks, and the session remembers keys of the blocks the live cache has.
LEMMA CheckpointKeeps ==
  ASSUME Sound(cache), Fitting(cache), lost = {}, tokens \in Texts,
         NEW l \in Lives, Tiled(l.blocks, l.text, Split(l)), Remembers(cache.store, memo, l.blocks),
         NEW reused \in Reuses(l), NEW force, NEW writable,
         Len(l.text) <= Len(tokens) => IsPrefix(l.text, tokens) /\ Level(Len(l.text), Split(l))
  PROVE  LET done == Checkpointed(l, force, reused, writable)
         IN  Sound(done.cache) /\ Fitting(done.cache) /\ Remembers(done.cache.store, done.memo, l.blocks)
<1> DEFINE keys == Keys(l, reused)
           after == Copied(l, keys)
           captured == [cache EXCEPT !.store = after]
           key == SubSeq(tokens, 1, Len(l.text))
           k == [text |-> l.text, split |-> Split(l), blocks |-> keys]
           done == Checkpointed(l, force, reused, writable)
           new == {i \in DOMAIN keys : keys[i] \notin Range(memo) \cup lost}
           coming == Restrict(keys, new)
<1>1. CASE ~Interesting(Len(l.text), force) BY <1>1 DEF Checkpointed
<1>2. CASE Interesting(Len(l.text), force)
  <2>1. /\ keys \in Seq(StoreKeys) /\ Len(keys) = Len(l.blocks) /\ IsInjective(keys)
        /\ DOMAIN keys = DOMAIN l.blocks
        /\ \A i \in DOMAIN keys : i <= Len(memo) => keys[i] = memo[i]
        /\ \A i \in DOMAIN keys : i > Len(memo) => keys[i] \notin DOMAIN cache.store \cup Range(memo)
    <3> HIDE DEF keys
    <3> QED BY KeysAre DEF keys
  <2>2. done.cache = Put(captured, key, k, writable) /\ done.memo = keys BY <1>2 DEF Checkpointed
  <2> HIDE DEF keys, done
  <2>3. /\ l.blocks \in Seq(Blocks) /\ DOMAIN l.blocks = 1..Len(l.blocks) /\ Len(l.blocks) \in Nat
        /\ memo \in Seq(StoreKeys) /\ DOMAIN memo = 1..Len(memo) /\ Len(memo) \in Nat /\ cache.store \in Stores
        /\ IsFiniteSet(DOMAIN cache.store)
        /\ \A i \in DOMAIN memo : memo[i] \in DOMAIN cache.store => cache.store[memo[i]].block = l.blocks[i]
    BY DEF Lives, Remembers, Sound, Caches
  <2>4. ASSUME NEW i \in DOMAIN keys
        PROVE  (i \in new <=> i > Len(memo)) /\ (i <= Len(memo) => i \in DOMAIN memo)
    <3>1. i \in 1..Len(l.blocks) BY <2>1, <2>3
    <3>2. CASE i <= Len(memo)
      <4>1. i \in DOMAIN memo /\ keys[i] = memo[i] BY <2>1, <2>3, <3>1, <3>2
      <4>2. keys[i] \in Range(memo) BY <4>1 DEF Range
      <4> QED BY <2>3, <3>1, <3>2, <4>1, <4>2
    <3>3. CASE i > Len(memo) BY <2>1, <2>3, <3>1, <3>3
    <3> QED BY <2>3, <3>1, <3>2, <3>3
  <2>5. coming \in [new -> StoreKeys \ DOMAIN cache.store] /\ IsInjective(coming) /\ IsFiniteSet(new)
    <3>1. \A i \in new : keys[i] \in StoreKeys \ DOMAIN cache.store BY <2>1, <2>4
    <3>2. \A i, j \in new : keys[i] = keys[j] => i = j BY <2>1 DEF IsInjective
    <3>3. DOMAIN coming = new /\ \A i \in new : coming[i] = keys[i] BY DEF Restrict
    <3>4. coming \in [new -> StoreKeys \ DOMAIN cache.store] BY <3>1 DEF Restrict
    <3>5. IsInjective(coming) BY <3>2, <3>3 DEF IsInjective
    <3>6. IsFiniteSet(new)
      <4>1. new \subseteq 1..Len(l.blocks) BY <2>1, <2>3
      <4>2. IsFiniteSet(1..Len(l.blocks)) BY <2>3, FS_Interval
      <4> QED BY <4>1, <4>2, FS_Subset
    <3> QED BY <3>4, <3>5, <3>6
  <2>6. /\ after \in Stores /\ DOMAIN after = DOMAIN cache.store \cup Range(coming)
        /\ \A b \in DOMAIN cache.store : after[b] = cache.store[b]
        /\ \A i \in new : after[coming[i]].block = l.blocks[i] /\ after[coming[i]].refs = 0
        /\ IsFiniteSet(Range(coming))
    <3> DEFINE blocks == l.blocks
               store == cache.store
    <3>1. \A i \in new : blocks[i] \in Blocks BY <2>1, <2>3
    <3>2. after = StoreBlocks(store, coming, blocks, 0) BY DEF Copied
    <3>3. /\ store \in Stores /\ coming \in [new -> StoreKeys \ DOMAIN store]
          /\ IsInjective(coming) /\ IsFiniteSet(new) /\ 0 \in Int
      BY <2>3, <2>5
    <3> HIDE DEF after, coming, new, blocks, store
    <3>4. /\ after \in Stores /\ DOMAIN after = DOMAIN store \cup Range(coming)
          /\ \A b \in DOMAIN store : after[b] = store[b]
          /\ \A i \in new : after[coming[i]].block = blocks[i] /\ after[coming[i]].refs = 0
          /\ IsFiniteSet(Range(coming))
      <4> DEFINE more == StoreBlocks(store, coming, blocks, 0)
      <4>1. /\ more \in Stores /\ DOMAIN more = DOMAIN store \cup Range(coming)
            /\ \A b \in DOMAIN store : more[b] = store[b]
            /\ \A i \in new : more[coming[i]].block = blocks[i] /\ more[coming[i]].refs = 0
            /\ IsFiniteSet(Range(coming))
        BY <3>1, <3>3, StoredBlocks
      <4> HIDE DEF more
      <4> QED BY <3>2, <4>1 DEF more
    <3> QED BY <3>4 DEF blocks, store
  <2>7. \A i \in new : coming[i] = keys[i] BY DEF Restrict
  <2>8. \A b \in Range(coming) : \E i \in new : b = keys[i] BY <2>5, <2>7 DEF Range
  <2> HIDE DEF after, coming, new
  <2>9. /\ Sound(captured) /\ Fitting(captured) /\ captured.store = after /\ captured.entries = cache.entries
    <3>1. IsFiniteSet(DOMAIN after)
      <4>1. IsFiniteSet(DOMAIN cache.store \cup Range(coming)) BY <2>3, <2>6, FS_Union
      <4> QED BY <2>6, <4>1
    <3>2. \A b \in DOMAIN cache.store : after[b].block = cache.store[b].block /\ after[b].refs >= cache.store[b].refs
      <4>1. ASSUME NEW b \in DOMAIN cache.store PROVE cache.store[b].refs \in Int
        <5>1. cache.store[b] \in Stored BY <2>3, PartialIs DEF Stores
        <5> QED BY <5>1 DEF Stored
      <4> QED BY <2>6, <4>1
    <3>3. \A b \in DOMAIN after \ DOMAIN cache.store : after[b].refs >= 0
      <4>1. ASSUME NEW b \in DOMAIN after \ DOMAIN cache.store PROVE after[b].refs = 0
        <5>1. PICK i \in new : b = keys[i] BY <2>6, <2>8
        <5> QED BY <2>6, <2>7, <5>1
      <4> QED BY <4>1
    <3>4. DOMAIN cache.store \subseteq DOMAIN after BY <2>6
    <3> QED BY <2>6, <3>1, <3>2, <3>3, <3>4, StoreGrows
  <2>10. ASSUME NEW i \in DOMAIN keys, keys[i] \in DOMAIN after PROVE after[keys[i]].block = l.blocks[i]
    <3>1. CASE i \in new BY <2>6, <2>7, <3>1
    <3>2. CASE i \notin new
      <4>1. i \in DOMAIN memo /\ keys[i] = memo[i] BY <2>1, <2>3, <2>4, <3>2
      <4>2. keys[i] \in DOMAIN cache.store
        <5>1. ASSUME keys[i] \in Range(coming) PROVE FALSE
          <6>1. PICK j \in new : keys[i] = keys[j] BY <2>8, <5>1
          <6>2. j \in DOMAIN keys BY DEF new
          <6>3. i = j BY <2>1, <6>1, <6>2 DEF IsInjective
          <6> QED BY <3>2, <6>3
        <5> QED BY <2>6, <2>10, <5>1
      <4> QED BY <2>3, <2>6, <4>1, <4>2
    <3> QED BY <3>1, <3>2
  <2>11. key = l.text /\ key \in Texts \ {NoKey}
    <3>1. /\ Len(l.text) > 0 /\ Len(l.text) <= Len(tokens) /\ l.text \in Texts BY <1>2 DEF Interesting, Lives
    <3>2. IsPrefix(l.text, tokens) BY <3>1
    <3>3. SubSeq(l.text, 1, Len(l.text)) = l.text BY <3>1, SubSeqFull DEF Texts
    <3>4. key = l.text BY <3>2, <3>3 DEF IsPrefix
    <3>5. l.text # NoKey BY <3>1 DEF NoKey
    <3> QED BY <3>1, <3>4, <3>5
  <2>12. k \in Checkpoints /\ k.text = key /\ k.blocks = keys /\ k.split = Split(l)
    <3>1. Split(l) \in Nat /\ Split(l) <= Len(l.text) /\ l.text \in Texts BY SplitIsWithin DEF Lives
    <3> QED BY <2>1, <2>11, <3>1 DEF Checkpoints
  <2>17. Level(Len(key), Split(l)) BY <1>2, <2>11 DEF Interesting
  <2>13. ASSUME ToSet(keys) \subseteq DOMAIN captured.store PROVE Sealed(Named(captured.store, keys), key, Split(l))
    <3>1. \A i \in DOMAIN keys : after[keys[i]].block = l.blocks[i] BY <2>9, <2>10, <2>13 DEF ToSet
    <3>2. l.blocks = [i \in DOMAIN keys |-> l.blocks[i]]
      <4> DEFINE blocks == l.blocks
      <4>1. blocks \in Seq(Blocks) /\ DOMAIN blocks = DOMAIN keys BY <2>1, <2>3
      <4> HIDE DEF blocks
      <4>2. blocks = [i \in DOMAIN blocks |-> blocks[i]] BY ONLY <4>1
      <4> QED BY <4>1, <4>2 DEF blocks
    <3>3. Named(captured.store, keys) = l.blocks BY <2>9, <3>1, <3>2 DEF Named
    <3> QED BY <2>11, <2>17, <3>3 DEF Sealed
  <2> HIDE DEF captured, k, key
  <2>14. Sound(done.cache) /\ Fitting(done.cache) /\ Kept(captured.store, done.cache.store)
    BY <2>1, <2>2, <2>9, <2>11, <2>12, <2>13, PutKeeps
  <2>15. Remembers(done.cache.store, keys, l.blocks)
    <3>1. ASSUME NEW i \in DOMAIN keys, keys[i] \in DOMAIN done.cache.store
          PROVE  done.cache.store[keys[i]].block = l.blocks[i]
      BY <2>9, <2>10, <2>14, <3>1 DEF Kept
    <3>2. Len(keys) <= Len(l.blocks) BY <2>1, <2>3
    <3> QED BY <2>1, <3>1, <3>2 DEF Remembers
  <2> QED BY <2>2, <2>14, <2>15 DEF done
<1> QED BY <1>1, <1>2

-----------------------------------------------------------------------------
(* The session.                                                            *)

\* How far the live cache has got: a prefix of the tokens before a pass, the proposals too between the
\* pass and its verdict, and after a stop whatever the verdict left.
Follows ==
  /\ phase \in {"forward", "empty"} => IsPrefix(live.text, tokens)
  /\ phase \in {"verdict", "failed"} =>
       /\ live.text = tokens \o proposals /\ Split(live) <= Len(tokens)
       /\ Split(live) = 0 \/ \E look \in Lookaheads \cup {0} : Split(live) <= Len(tokens) + look - Window
       /\ ~ask.drafts => proposals = << >>
  /\ phase = "ended" /\ Len(live.text) <= Len(tokens) => IsPrefix(live.text, tokens)
  /\ phase = "idle" => live = EmptyLive /\ memo = << >>

\* The inductive invariant of the specification
Session ==
  /\ Sound(cache) /\ Fitting(cache) /\ lost = {} /\ phase \in Phases
  /\ tokens \in Texts /\ proposals \in Texts /\ prompt \in Nat /\ prompt <= Len(tokens)
  /\ served \in Nat /\ served <= MaxRequests
  /\ ask.reply \in Nat /\ (ask.stops => ~ask.drafts)
  /\ live \in Lives /\ Sealed(live.blocks, live.text, Split(live))
  /\ Remembers(cache.store, memo, live.blocks) /\ Follows

\* What the theorems take for granted: no speculation with stop sequences, no restore that fails after it
\* has moved a block, and a window the proposals of a pass fit in.
Reasonable == ~SpeculativeStops /\ RestoreFaults \subseteq {0} /\ \A look \in Lookaheads : look <= Window

\* A cache nothing was fed to.
LEMMA EmptyIsLive ==
  /\ EmptyLive \in Lives /\ EmptyLive.text = << >> /\ EmptyLive.blocks = << >> /\ << >> \in Texts
  /\ Sealed(EmptyLive.blocks, EmptyLive.text, Split(EmptyLive))
  /\ \A text \in Texts : IsPrefix(<< >>, text)
  /\ \A store : Remembers(store, << >>, EmptyLive.blocks)
<1>1. EmptyLive \in Lives /\ EmptyLive.text = << >> /\ EmptyLive.blocks = << >> /\ << >> \in Texts
  BY DEF EmptyLive, Lives, Texts
<1>2. DOMAIN << >> = {} OBVIOUS
<1>3. Split(EmptyLive) = 0 BY <1>1 DEF Split
<1>4. Sealed(EmptyLive.blocks, EmptyLive.text, Split(EmptyLive))
  <2>1. Tiled(EmptyLive.blocks, EmptyLive.text, Split(EmptyLive)) BY <1>1, <1>2, <1>3 DEF Tiled, Tile
  <2>2. Group \in Nat \ {0} /\ Window \in Nat /\ Len(EmptyLive.text) = 0 /\ 0 = 0 * Group
    BY <1>1, GenerationAssumption
  <2>3. Level(0, 0) BY <2>2 DEF Level
  <2> QED BY <1>3, <2>1, <2>2, <2>3 DEF Sealed
<1>5. ASSUME NEW text \in Texts PROVE IsPrefix(<< >>, text)
  <2>1. Len(<< >>) = 0 /\ Len(text) \in Nat BY DEF Texts
  <2> QED BY <1>1, <2>1, PrefixIs
<1>6. ASSUME NEW store PROVE Remembers(store, << >>, EmptyLive.blocks)
  <2>1. << >> \in Seq(StoreKeys) /\ Len(<< >>) <= Len(<< >>) OBVIOUS
  <2> QED BY <1>1, <1>2, <2>1 DEF Remembers, IsInjective
<1> QED BY <1>1, <1>4, <1>5, <1>6

\* A cache with nothing in it is in order.
LEMMA EmptyIsSound == Sound(EmptyCache) /\ Fitting(EmptyCache)
<1> DEFINE c == EmptyCache
<1>1. DOMAIN << >> = {} OBVIOUS
<1>2. /\ c.entries = << >> /\ c.order = << >> /\ c.index = << >> /\ c.store = << >> /\ c.spilled = << >>
      /\ c.aged = << >>
  BY DEF EmptyCache
<1>3. c \in Caches
  <2>1. << >> \in Entries /\ << >> \in Stores BY PartialNone DEF Entries, Stores
  <2>2. << >> \in Partial({Slot(key) : key \in Texts}, Texts) /\ << >> \in Partial(Texts \ {NoKey}, Files)
    BY PartialNone
  <2>3. << >> \in Seq(Texts) OBVIOUS
  <2> QED BY <2>1, <2>2, <2>3 DEF EmptyCache, Caches
<1> HIDE DEF c
<1>4. Range(<< >>) = {} /\ IsInjective(<< >>) BY <1>1 DEF Range, IsInjective
<1>5. Held(c.entries, c.store) BY <1>1, <1>2 DEF Held
<1>6. FilesHold(c) /\ FilesListed(c) BY <1>1, <1>2, <1>4 DEF FilesHold, FilesListed
<1>7. FilesFit(c)
  <2>1. DOMAIN [key \in {} |-> FileBytes(c.spilled[key])] = {} OBVIOUS
  <2>2. SpilledBytes(c, {}) = 0 BY <2>1, SumOfNone DEF SpilledBytes, SumFunction
  <2> QED BY <1>1, <1>2, <2>2, PrefixCacheAssumption DEF FilesFit
<1>8. IsFiniteSet(DOMAIN c.store) BY <1>1, <1>2, FS_EmptySet
<1>9. Sound(c) BY <1>1, <1>2, <1>3, <1>4, <1>5, <1>6, <1>7, <1>8 DEF Sound, Filed
<1> QED BY <1>2, <1>9, HeldBytesFit DEF c

\* What is left of a text after a prefix of it makes it whole again.
LEMMA RestOf ==
  ASSUME NEW r \in Texts, NEW s \in Texts, IsPrefix(r, s), NEW d \in Texts
  PROVE  /\ SubSeq(s, Len(r) + 1, Len(s)) \o d \in Texts
         /\ r \o (SubSeq(s, Len(r) + 1, Len(s)) \o d) = s \o d
<1> DEFINE rest == SubSeq(s, Len(r) + 1, Len(s))
<1>1. /\ r \in Seq(Vocabulary) /\ s \in Seq(Vocabulary) /\ d \in Seq(Vocabulary) /\ Len(r) \in Nat /\ Len(s) \in Nat
      /\ Len(d) \in Nat
  BY DEF Texts
<1>2. Len(r) <= Len(s) /\ \A i \in 1..Len(r) : r[i] = s[i] BY PrefixIs
<1>3. /\ rest \in Seq(Vocabulary) /\ Len(rest) = Len(s) - Len(r)
      /\ \A i \in 1..(Len(s) - Len(r)) : rest[i] = s[Len(r) + i]
  <2>1. Len(r) + 1 \in 1..(Len(s) + 1) BY <1>1, <1>2
  <2>2. \A i \in (Len(r) + 1)..Len(s) : s[i] \in Vocabulary BY <1>1, <1>2
  <2> QED BY <1>1, <1>2, <2>1, <2>2, SubSeqProperties
<1> HIDE DEF rest
<1> DEFINE v == rest \o d
           w == r \o v
           z == s \o d
<1>4. /\ v \in Seq(Vocabulary) /\ Len(v) = Len(s) - Len(r) + Len(d)
      /\ \A i \in 1..Len(v) : v[i] = IF i <= Len(s) - Len(r) THEN rest[i] ELSE d[i - (Len(s) - Len(r))]
  <2>1. rest \in Seq(Vocabulary) /\ d \in Seq(Vocabulary) BY <1>1, <1>3
  <2>2. /\ v \in Seq(Vocabulary) /\ Len(v) = Len(rest) + Len(d)
        /\ \A i \in 1..(Len(rest) + Len(d)) : v[i] = IF i <= Len(rest) THEN rest[i] ELSE d[i - Len(rest)]
    BY <2>1, ConcatProperties
  <2> HIDE DEF v
  <2> QED BY <1>3, <2>2
<1>5. /\ z \in Seq(Vocabulary) /\ Len(z) = Len(s) + Len(d)
      /\ \A i \in 1..Len(z) : z[i] = IF i <= Len(s) THEN s[i] ELSE d[i - Len(s)]
  BY <1>1, ConcatProperties
<1> HIDE DEF v, z
<1>6. /\ w \in Seq(Vocabulary) /\ Len(w) = Len(s) + Len(d)
      /\ \A i \in 1..Len(w) : w[i] = IF i <= Len(r) THEN r[i] ELSE v[i - Len(r)]
  BY <1>1, <1>2, <1>4, ConcatProperties
<1> HIDE DEF w
<1>7. ASSUME NEW i \in 1..Len(z) PROVE w[i] = z[i]
  <2>1. CASE i <= Len(r)
    <3>1. i \in 1..Len(r) /\ i \in 1..Len(w) /\ i <= Len(s) BY <1>1, <1>2, <1>5, <1>6, <2>1
    <3>2. w[i] = r[i] /\ r[i] = s[i] /\ z[i] = s[i] BY <1>2, <1>5, <1>6, <2>1, <3>1
    <3> QED BY <3>2
  <2>2. CASE i > Len(r)
    <3> DEFINE j == i - Len(r)
    <3>1. i \in 1..Len(w) /\ j \in 1..Len(v) /\ ~(i <= Len(r)) BY <1>1, <1>2, <1>4, <1>5, <1>6, <2>2
    <3>2. w[i] = v[j] BY <1>6, <3>1
    <3>3. CASE i <= Len(s)
      <4>1. j \in 1..(Len(s) - Len(r)) /\ j <= Len(s) - Len(r) /\ Len(r) + j = i BY <1>1, <2>2, <3>3
      <4>2. v[j] = rest[j] /\ rest[j] = s[i] /\ z[i] = s[i] BY <1>3, <1>4, <1>5, <3>1, <3>3, <4>1
      <4> QED BY <3>2, <4>2
    <3>4. CASE i > Len(s)
      <4>1. ~(j <= Len(s) - Len(r)) /\ ~(i <= Len(s)) /\ j - (Len(s) - Len(r)) = i - Len(s) BY <1>1, <1>5, <3>4
      <4>2. v[j] = d[j - (Len(s) - Len(r))] /\ z[i] = d[i - Len(s)] BY <1>4, <1>5, <3>1, <4>1
      <4> QED BY <3>2, <4>1, <4>2
    <3> QED BY <1>1, <1>5, <3>3, <3>4
  <2> QED BY <1>1, <1>5, <2>1, <2>2
<1>8. w = z
  <2>1. Len(w) = Len(z) /\ \A i \in 1..Len(w) : w[i] = z[i] BY <1>5, <1>6, <1>7
  <2> QED BY <1>5, <1>6, <2>1, SeqEqual
<1>9. v \in Texts BY <1>4 DEF Texts
<1> QED BY <1>8, <1>9 DEF rest, v, w, z

\* What is shown of a verdict continues the tokens, and what is left of the proposals after the crop is
\* a beginning of it unless less was shown than accepted.
LEMMA VerdictShown ==
  ASSUME NEW s \in Texts, NEW p \in Texts, NEW n \in 0..Len(p), NEW e \in Vocabulary, NEW m \in 1..(n + 1)
  PROVE  LET new == Append(SubSeq(p, 1, n), e)
         IN  /\ Len(new) = n + 1 /\ s \o SubSeq(new, 1, m) \in Texts /\ Len(s \o SubSeq(new, 1, m)) = Len(s) + m
             /\ n <= m => IsPrefix(SubSeq(s \o p, 1, Len(s) + n), s \o SubSeq(new, 1, m))
<1> DEFINE first == SubSeq(p, 1, n)
           new == Append(first, e)
           shown == SubSeq(new, 1, m)
           said == s \o shown
           full == s \o p
           left == SubSeq(full, 1, Len(s) + n)
<1>1. s \in Seq(Vocabulary) /\ p \in Seq(Vocabulary) /\ Len(s) \in Nat /\ Len(p) \in Nat BY DEF Texts
<1>2. first \in Seq(Vocabulary) /\ Len(first) = n /\ \A i \in 1..n : first[i] = p[i] BY <1>1
<1> HIDE DEF first
<1>3. new \in Seq(Vocabulary) /\ Len(new) = n + 1 /\ \A i \in 1..n : new[i] = first[i]
  BY <1>2, AppendProperties
<1> HIDE DEF new
<1>4. shown \in Seq(Vocabulary) /\ Len(shown) = m /\ \A i \in 1..m : shown[i] = new[i] BY <1>3
<1> HIDE DEF shown
<1>5. /\ said \in Seq(Vocabulary) /\ Len(said) = Len(s) + Len(shown)
      /\ \A i \in 1..(Len(s) + Len(shown)) : said[i] = IF i <= Len(s) THEN s[i] ELSE shown[i - Len(s)]
  BY <1>1, <1>4, ConcatProperties
<1>6. /\ full \in Seq(Vocabulary) /\ Len(full) = Len(s) + Len(p)
      /\ \A i \in 1..(Len(s) + Len(p)) : full[i] = IF i <= Len(s) THEN s[i] ELSE p[i - Len(s)]
  BY <1>1, ConcatProperties
<1> HIDE DEF said, full
<1>7. left \in Texts /\ Len(left) = Len(s) + n /\ \A i \in 1..(Len(s) + n) : left[i] = full[i]
  <2>1. Len(s) + n \in 0..Len(full) BY <1>1, <1>6
  <2>2. left \in Seq(Vocabulary) /\ Len(left) = Len(s) + n /\ \A i \in 1..(Len(s) + n) : left[i] = full[i]
    BY <1>6, <2>1
  <2> QED BY <2>2 DEF Texts
<1> HIDE DEF left
<1>8. said \in Texts BY <1>5 DEF Texts
<1>9. ASSUME n <= m PROVE IsPrefix(left, said)
  <2>1. Len(left) <= Len(said) BY <1>1, <1>4, <1>5, <1>7, <1>9
  <2>2. ASSUME NEW i \in 1..Len(left) PROVE left[i] = said[i]
    <3>1. i \in 1..(Len(s) + n) /\ i \in 1..(Len(s) + Len(p)) /\ i \in 1..(Len(s) + Len(shown))
      BY <1>1, <1>4, <1>7, <1>9
    <3>2. left[i] = full[i] BY <1>7, <3>1
    <3>3. CASE i <= Len(s) BY <1>5, <1>6, <3>1, <3>2, <3>3
    <3>4. CASE ~(i <= Len(s))
      <4>1. i - Len(s) \in 1..n /\ i - Len(s) \in 1..m BY <1>1, <1>9, <3>1, <3>4
      <4>2. full[i] = p[i - Len(s)] /\ said[i] = shown[i - Len(s)] BY <1>5, <1>6, <3>1, <3>4
      <4>3. shown[i - Len(s)] = p[i - Len(s)] BY <1>2, <1>3, <1>4, <4>1
      <4> QED BY <3>2, <4>2, <4>3
    <3> QED BY <3>3, <3>4
  <2> QED BY <1>7, <1>8, <2>1, <2>2, PrefixIs
<1> QED BY <1>3, <1>4, <1>5, <1>8, <1>9 DEF first, new, shown, said, full, left

\* It holds at the start.
LEMMA SessionStarts == ASSUME Init PROVE Session
<1>1. Sound(cache) /\ Fitting(cache) BY EmptyIsSound DEF Init
<1>2. /\ live = EmptyLive /\ memo = << >> /\ lost = {} /\ tokens = << >> /\ proposals = << >> /\ prompt = 0
      /\ served = 0 /\ ask.reply \in Nat /\ ~ask.stops /\ phase = "idle" /\ Len(<< >>) = 0
  BY DEF Init, NoAsk
<1>3. /\ live \in Lives /\ Sealed(live.blocks, live.text, Split(live)) /\ << >> \in Texts
      /\ Remembers(cache.store, memo, live.blocks)
  BY <1>2, EmptyIsLive
<1>4. prompt <= Len(tokens) /\ prompt \in Nat BY <1>2
<1>5. Follows BY <1>2 DEF Follows
<1>6. served \in Nat /\ served <= MaxRequests BY <1>2, GenerationAssumption
<1>7. phase \in Phases BY <1>2 DEF Phases
<1> QED BY <1>1, <1>2, <1>3, <1>4, <1>5, <1>6, <1>7 DEF Session

\* Every request that ends leaves nothing but the cache.
LEMMA EndRequestKeeps ==
  ASSUME Session, EndRequest, Sound(cache'), Fitting(cache')
  PROVE  Session'
<1>1. /\ live' = EmptyLive /\ memo' = << >> /\ lost' = {} /\ tokens' = << >> /\ proposals' = << >> /\ prompt' = 0
      /\ served' = served /\ ask'.reply \in Nat /\ ~ask'.stops /\ phase' = "idle" /\ Len(<< >>) = 0
  BY DEF EndRequest, NoAsk
<1>2. /\ live' \in Lives /\ Sealed(live'.blocks, live'.text, Split(live')) /\ << >> \in Texts
      /\ Remembers(cache'.store, memo', live'.blocks)
  BY <1>1, EmptyIsLive
<1>3. prompt' <= Len(tokens') /\ prompt' \in Nat BY <1>1
<1>4. Follows' BY <1>1 DEF Follows
<1>5. phase' \in Phases BY <1>1 DEF Phases
<1> QED BY <1>1, <1>2, <1>3, <1>4, <1>5 DEF Session

\* What a checkpoint restores: its tokens, its blocks, and a memo of their keys.
LEMMA RestoredHolds ==
  ASSUME NEW c, Sound(c), NEW key \in DOMAIN c.entries
  PROVE  LET found == c.entries[key]
             l == [text |-> found.text, blocks |-> [i \in DOMAIN found.blocks |-> c.store[found.blocks[i]].block]]
         IN  /\ l \in Lives /\ l.text = key /\ Sealed(l.blocks, l.text, Split(l))
             /\ Remembers(c.store, found.blocks, l.blocks) /\ found.blocks \in Seq(StoreKeys)
<1> DEFINE found == c.entries[key]
           keys == found.blocks
           blocks == [i \in DOMAIN keys |-> c.store[keys[i]].block]
           l == [text |-> found.text, blocks |-> blocks]
           store == c.store
<1>1. c.entries \in Entries /\ store \in Stores /\ EntryHolds(c.entries, store, key)
  BY DEF Sound, Caches, Held
<1>2. found \in Checkpoints /\ key \in Texts
  BY <1>1, PartialIs DEF Entries
<1>3. /\ found.text = key /\ IsInjective(keys) /\ ToSet(keys) \subseteq DOMAIN store
      /\ Sealed(blocks, key, found.split)
  BY <1>1 DEF EntryHolds, Named
<1>4. keys \in Seq(StoreKeys) /\ DOMAIN keys = 1..Len(keys) /\ Len(keys) \in Nat BY <1>2 DEF Checkpoints
<1> HIDE DEF found, keys, store
<1>5. \A i \in DOMAIN keys : keys[i] \in DOMAIN store BY <1>3 DEF ToSet
<1>6. \A i \in DOMAIN keys : store[keys[i]].block \in Blocks
  <2>1. \A b \in DOMAIN store : store[b] \in Stored BY <1>1, PartialIs DEF Stores
  <2> QED BY <1>5, <2>1 DEF Stored
<1>7. blocks = [i \in 1..Len(keys) |-> store[keys[i]].block] BY <1>4 DEF store
<1> HIDE DEF blocks
<1>8. blocks \in Seq(Blocks) /\ Len(blocks) = Len(keys) /\ DOMAIN blocks = DOMAIN keys
      /\ \A i \in DOMAIN keys : blocks[i] = store[keys[i]].block
  <2>1. \A i \in 1..Len(keys) : blocks[i] \in Blocks /\ blocks[i] = store[keys[i]].block BY <1>4, <1>6, <1>7
  <2>2. DOMAIN blocks = 1..Len(keys) /\ blocks = [i \in 1..Len(keys) |-> blocks[i]] BY <1>7
  <2>3. blocks \in [1..Len(keys) -> Blocks] BY <2>1, <2>2
  <2> QED BY <1>4, <2>1, <2>2, <2>3
<1>9. l \in Lives /\ l.text = key /\ l.blocks = blocks BY <1>2, <1>3, <1>8 DEF Lives
<1> HIDE DEF l
<1>10. Split(l) = found.split BY <1>3, <1>9 DEF Split, Sealed, Tiled, Tile
<1>11. Remembers(store, keys, blocks)
  <2>1. Len(keys) <= Len(blocks) BY <1>4, <1>8
  <2> QED BY <1>3, <1>4, <1>8, <2>1 DEF Remembers
<1> QED BY <1>3, <1>4, <1>9, <1>10, <1>11 DEF l, blocks, keys, found, store

\* A lookup leaves the cache in order, and what it restores is a prefix of the prompt.
LEMMA BeginKeeps == ASSUME Session, Reasonable, Begin PROVE Session'
<1>1. PICK text \in Prompts, reply \in Replies, drafts \in {look # 0 : look \in Lookaheads},
           stops \in BOOLEAN, readable \in DiskWorks, writable \in DiskWorks :
       LET key == Found(cache, text, readable)
           after == Lookup(cache, text, readable, writable)
           found == after.entries[key]
       IN  /\ stops /\ drafts => SpeculativeStops
           /\ tokens' = text /\ prompt' = Len(text) /\ served' = served + 1
           /\ ask' = [reply |-> reply, drafts |-> drafts, stops |-> stops]
           /\ cache' = after /\ phase' = "forward"
           /\ \/ key = NoKey /\ live' = EmptyLive /\ memo' = << >> /\ lost' = {}
              \/ /\ key # NoKey /\ lost' = {}
                 /\ live' = [text |-> found.text,
                             blocks |-> [i \in DOMAIN found.blocks |->
                                           after.store[found.blocks[i]].block]]
                 /\ memo' = found.blocks
              \/ /\ key # NoKey /\ live' = EmptyLive /\ memo' = << >>
                 /\ \E n \in RestoreFaults :
                      n <= Len(found.blocks) /\ lost' = ToSet(SubSeq(found.blocks, 1, n))
  BY DEF Begin
<1> DEFINE key == Found(cache, text, readable)
           after == Lookup(cache, text, readable, writable)
           found == after.entries[key]
           blocks == [i \in DOMAIN found.blocks |-> after.store[found.blocks[i]].block]
           restored == [text |-> found.text, blocks |-> blocks]
<1>2. text \in Texts /\ reply \in Nat /\ Len(text) \in Nat BY GenerationAssumption DEF Texts
<1>3. Sound(after) /\ Fitting(after) /\ (key # NoKey => key \in DOMAIN after.entries /\ IsPrefix(key, text))
  BY <1>2, LookupKeeps DEF Session
<1>4. /\ stops => ~drafts
      /\ tokens' = text /\ prompt' = Len(text) /\ served' = served + 1 /\ ask'.reply = reply
      /\ ask'.stops = stops /\ ask'.drafts = drafts /\ cache' = after /\ phase' = "forward"
      /\ proposals' = << >>
  <2>1. proposals' = << >> BY DEF Begin
  <2>2. stops /\ drafts => SpeculativeStops BY <1>1
  <2>3. stops => ~drafts BY <2>2 DEF Reasonable
  <2>4. ask' = [reply |-> reply, drafts |-> drafts, stops |-> stops] BY <1>1
  <2>5. tokens' = text /\ prompt' = Len(text) /\ served' = served + 1 /\ cache' = after /\ phase' = "forward"
    BY <1>1
  <2>6. ask'.reply = reply /\ ask'.stops = stops /\ ask'.drafts = drafts BY <2>4
  <2> HIDE DEF after
  <2> QED BY <2>1, <2>3, <2>5, <2>6
<1>5. \/ live' = EmptyLive /\ memo' = << >> /\ lost' = {}
      \/ key # NoKey /\ live' = restored /\ memo' = found.blocks /\ lost' = {}
      \/ /\ key # NoKey /\ live' = EmptyLive /\ memo' = << >>
         /\ \E n \in RestoreFaults : lost' = ToSet(SubSeq(found.blocks, 1, n))
  BY <1>1
<1> HIDE DEF key, after
<1>6. key # NoKey =>
        /\ restored \in Lives /\ restored.text = key /\ Sealed(restored.blocks, restored.text, Split(restored))
        /\ Remembers(after.store, found.blocks, restored.blocks) /\ found.blocks \in Seq(StoreKeys)
  BY <1>3, RestoredHolds
<1> HIDE DEF found, restored
<1>7. /\ live' \in Lives /\ Sealed(live'.blocks, live'.text, Split(live')) /\ IsPrefix(live'.text, text)
      /\ Remembers(after.store, memo', live'.blocks) /\ lost' = {}
  <2>1. CASE live' = EmptyLive /\ memo' = << >> /\ lost' = {} BY <1>2, <2>1, EmptyIsLive
  <2>2. CASE key # NoKey /\ live' = restored /\ memo' = found.blocks /\ lost' = {} BY <1>3, <1>6, <2>2
  <2>3. CASE /\ key # NoKey /\ live' = EmptyLive /\ memo' = << >>
             /\ \E n \in RestoreFaults : lost' = ToSet(SubSeq(found.blocks, 1, n))
    <3>1. lost' = ToSet(SubSeq(found.blocks, 1, 0)) BY <2>3 DEF Reasonable
    <3>2. SubSeq(found.blocks, 1, 0) = << >> /\ DOMAIN << >> = {} BY <1>6, <2>3
    <3>3. lost' = {} BY <3>1, <3>2 DEF ToSet
    <3> QED BY <1>2, <2>3, <3>3, EmptyIsLive
  <2> QED BY <1>5, <2>1, <2>2, <2>3
<1>8. Follows' BY <1>4, <1>7 DEF Follows
<1>9. << >> \in Texts BY EmptyIsLive
<1>10. served' \in Nat /\ served' <= MaxRequests
  <2>1. served \in Nat /\ served < MaxRequests /\ MaxRequests \in Nat /\ served' = served + 1
    <3>1. served \in Nat BY DEF Session
    <3>2. served < MaxRequests BY DEF Begin
    <3> QED BY <1>4, <3>1, <3>2, GenerationAssumption
  <2> QED BY ONLY <2>1
<1>11. prompt' \in Nat /\ prompt' <= Len(tokens') BY <1>2, <1>4
<1>12. phase' \in Phases BY <1>4 DEF Phases
<1> QED BY <1>2, <1>3, <1>4, <1>7, <1>8, <1>9, <1>10, <1>11, <1>12 DEF Session

\* How many proposals a pass asks for is at most what it may look ahead.
LEMMA ProposalsAre ==
  ASSUME NEW look \in Nat, NEW room \in Int, NEW drafted \in [1..Min({look, room}) -> Vocabulary]
  PROVE  drafted \in Texts /\ Len(drafted) \in Nat /\ Len(drafted) <= look
<1> DEFINE m == Min({look, room})
<1>1. m \in {look, room} /\ m <= look
  <2>1. look <= look /\ room <= room /\ (look <= room \/ room <= look) OBVIOUS
  <2>2. \E x \in {look, room} : \A y \in {look, room} : x <= y BY <2>1
  <2>3. m \in {look, room} /\ \A y \in {look, room} : m <= y BY <2>2 DEF Min
  <2> QED BY <2>3
<1>2. drafted \in [1..m -> Vocabulary] OBVIOUS
<1> HIDE DEF m
<1>3. CASE m \in Nat
  <2>1. drafted \in Seq(Vocabulary) /\ Len(drafted) = m BY <1>2, <1>3
  <2> QED BY <1>1, <1>3, <2>1 DEF Texts
<1>4. CASE m \notin Nat
  <2>1. m \in Int /\ m < 0 BY <1>1, <1>4
  <2>2. 1..m = {} BY <2>1
  <2>3. 1..0 = {} OBVIOUS
  <2>4. drafted \in [1..0 -> Vocabulary] BY <1>2, <2>2, <2>3
  <2>5. drafted \in Seq(Vocabulary) /\ Len(drafted) = 0 BY <2>4
  <2> QED BY <2>5 DEF Texts
<1> QED BY <1>3, <1>4

\* A pass feeds what is pending and proposed, quantizes nothing that may still be taken back, and may
\* checkpoint what it holds.
LEMMA ForwardKeeps == ASSUME Session, Reasonable, Forward PROVE Session'
<1>1. PICK look \in Lookaheads, writable \in DiskWorks :
       /\ look = 0 <=> ~ask.drafts
       /\ \E drafted \in [1..Min({look, ask.reply - Emitted - 1}) -> Vocabulary] :
            LET fed == Feed(live, SubSeq(tokens, Len(live.text) + 1, Len(tokens)) \o drafted)
            IN  \E reused \in Reuses(fed) :
                  LET done == Checkpointed(fed, FALSE, reused, writable)
                  IN  /\ proposals' = drafted /\ live' = fed
                      /\ cache' = done.cache /\ memo' = done.memo /\ taken' = done.taken
                      /\ lost' = lost \ Range(done.memo)
                      /\ phase' = IF done.raises THEN "failed" ELSE "verdict"
  BY DEF Forward
<1>2. PICK drafted \in [1..Min({look, ask.reply - Emitted - 1}) -> Vocabulary] :
            LET fed == Feed(live, SubSeq(tokens, Len(live.text) + 1, Len(tokens)) \o drafted)
            IN  \E reused \in Reuses(fed) :
                  LET done == Checkpointed(fed, FALSE, reused, writable)
                  IN  /\ proposals' = drafted /\ live' = fed
                      /\ cache' = done.cache /\ memo' = done.memo /\ taken' = done.taken
                      /\ lost' = lost \ Range(done.memo)
                      /\ phase' = IF done.raises THEN "failed" ELSE "verdict"
  BY <1>1
<1> DEFINE pending == SubSeq(tokens, Len(live.text) + 1, Len(tokens)) \o drafted
           fed == Feed(live, pending)
<1>3. PICK reused \in Reuses(fed) :
                  LET done == Checkpointed(fed, FALSE, reused, writable)
                  IN  /\ proposals' = drafted /\ live' = fed
                      /\ cache' = done.cache /\ memo' = done.memo /\ taken' = done.taken
                      /\ lost' = lost \ Range(done.memo)
                      /\ phase' = IF done.raises THEN "failed" ELSE "verdict"
  BY <1>2
<1> DEFINE done == Checkpointed(fed, FALSE, reused, writable)
<1>4. /\ proposals' = drafted /\ live' = fed /\ cache' = done.cache /\ memo' = done.memo
      /\ lost' = lost \ Range(done.memo) /\ phase' \in {"failed", "verdict"}
      /\ tokens' = tokens /\ prompt' = prompt /\ ask' = ask /\ served' = served
  BY <1>3 DEF Forward, session
<1>5. /\ look \in Nat /\ look <= Window /\ Window \in Nat /\ (~ask.drafts => look = 0)
  BY <1>1, GenerationAssumption DEF Reasonable
<1>6. /\ tokens \in Texts /\ live \in Lives /\ live.text \in Texts /\ IsPrefix(live.text, tokens)
      /\ Sealed(live.blocks, live.text, Split(live)) /\ Remembers(cache.store, memo, live.blocks)
      /\ Sound(cache) /\ Fitting(cache) /\ lost = {} /\ live.blocks \in Seq(Blocks)
  BY DEF Session, Follows, Forward, Lives
<1>7. drafted \in Texts /\ Len(drafted) \in Nat /\ Len(drafted) <= look
  <2>1. ask.reply - Emitted - 1 \in Int BY DEF Emitted, Session, Texts
  <2> QED BY <1>5, <2>1, ProposalsAre
<1> HIDE DEF done, fed, pending
<1>8. pending \in Texts /\ live.text \o pending = tokens \o drafted BY <1>6, <1>7, RestOf DEF pending
<1>0. Tiled(live.blocks, live.text, Split(live)) /\ Level(Len(live.text), Split(live)) BY <1>6 DEF Sealed
<1>9. /\ fed \in Lives /\ fed.text = tokens \o drafted /\ Tiled(fed.blocks, fed.text, Split(fed))
      /\ Len(live.blocks) <= Len(fed.blocks) /\ \A i \in DOMAIN live.blocks : fed.blocks[i] = live.blocks[i]
      /\ Split(fed) = Split(live) \/ Split(fed) <= Len(fed.text) - Window
      /\ Len(fed.text) - Window - Split(fed) < Group
      /\ (\E q \in Nat : Split(live) = q * Group) => \E q \in Nat : Split(fed) = q * Group
  BY <1>0, <1>6, <1>8, FeedKeeps DEF fed
<1>10. /\ Len(fed.text) = Len(tokens) + Len(drafted) /\ Len(tokens) \in Nat /\ IsPrefix(tokens, fed.text)
       /\ fed.text \in Texts /\ (Len(fed.text) <= Len(tokens) => fed.text = tokens)
       /\ IsPrefix(tokens, tokens)
  <2>1. IsPrefix(tokens, tokens) BY <1>6, PrefixIs DEF Texts
  <2>2. Len(tokens) \in Nat BY <1>6 DEF Texts
  <2>3. /\ tokens \o drafted \in Texts /\ Len(tokens \o drafted) = Len(tokens) + Len(drafted)
        /\ IsPrefix(tokens, tokens \o drafted)
    BY <1>6, <1>7, PrefixesOf
  <2>4. fed.text \in Texts /\ Len(fed.text) = Len(tokens) + Len(drafted) /\ IsPrefix(tokens, fed.text)
    BY <1>9, <2>3
  <2>5. Len(fed.text) <= Len(tokens) => fed.text = tokens BY <1>6, <2>4, PrefixesOf
  <2> QED BY <2>1, <2>2, <2>4, <2>5
<1>11. Split(fed) <= Len(tokens)
  <2>1. Split(live) \in Nat /\ Split(live) <= Len(live.text) /\ Len(live.text) \in Nat
    BY <1>0, <1>6, SplitIsWithin
  <2>2. Len(live.text) <= Len(tokens) BY <1>6, PrefixIs
  <2>3. Split(fed) \in Nat BY <1>9, SplitIsWithin
  <2> QED BY <1>5, <1>7, <1>9, <1>10, <2>1, <2>2, <2>3
<1>18. Split(fed) = 0 \/ \E ahead \in Lookaheads \cup {0} : Split(fed) <= Len(tokens) + ahead - Window
  <2>1. Len(live.text) <= Len(tokens) /\ Len(live.text) \in Nat BY <1>0, <1>6, PrefixIs, SplitIsWithin
  <2>2. Split(fed) \in Nat BY <1>9, SplitIsWithin
  <2>3. CASE Split(fed) = Split(live)
    <3>1. \A ahead \in Lookaheads \cup {0} : ahead \in Nat BY GenerationAssumption
    <3>2. Split(live) = 0 \/ \E ahead \in Lookaheads \cup {0} : Split(live) <= Len(live.text) + ahead - Window
      BY <1>0 DEF Level
    <3> QED BY <1>5, <1>10, <2>1, <2>2, <2>3, <3>1, <3>2
  <2>4. CASE Split(fed) <= Len(fed.text) - Window
    <3>1. Split(fed) <= Len(tokens) + look - Window BY <1>5, <1>7, <1>10, <2>2, <2>4
    <3> QED BY <3>1
  <2> QED BY <1>9, <2>3, <2>4
<1>19. Level(Len(fed.text), Split(fed))
  <2>1. Split(fed) \in Nat BY <1>9, SplitIsWithin
  <2>2. \E q \in Nat : Split(fed) = q * Group BY <1>0, <1>9 DEF Level
  <2>3. \A ahead \in Lookaheads \cup {0} : ahead \in Nat BY GenerationAssumption
  <2>4. Split(fed) = 0 \/ \E ahead \in Lookaheads \cup {0} : Split(fed) <= Len(fed.text) + ahead - Window
    BY <1>5, <1>7, <1>10, <1>18, <2>1, <2>3
  <2> QED BY <1>9, <2>1, <2>2, <2>4 DEF Level
<1>20. Sealed(fed.blocks, fed.text, Split(fed)) BY <1>9, <1>19 DEF Sealed
<1>12. Remembers(cache.store, memo, fed.blocks)
  <2>1. /\ memo \in Seq(StoreKeys) /\ IsInjective(memo) /\ Len(memo) <= Len(live.blocks)
        /\ \A i \in DOMAIN memo : memo[i] \in DOMAIN cache.store => cache.store[memo[i]].block = live.blocks[i]
    BY <1>6 DEF Remembers
  <2>2. /\ Len(memo) \in Nat /\ Len(live.blocks) \in Nat /\ Len(fed.blocks) \in Nat
        /\ DOMAIN memo = 1..Len(memo) /\ DOMAIN live.blocks = 1..Len(live.blocks)
    BY <1>6, <1>9, <2>1 DEF Lives
  <2>3. \A i \in DOMAIN memo : fed.blocks[i] = live.blocks[i] BY <1>9, <2>1, <2>2
  <2>4. Len(memo) <= Len(fed.blocks) BY <1>9, <2>1, <2>2
  <2> QED BY <2>1, <2>3, <2>4 DEF Remembers
<1>13. /\ Sound(done.cache) /\ Fitting(done.cache) /\ Remembers(done.cache.store, done.memo, fed.blocks)
  <2>1. Len(fed.text) <= Len(tokens) => IsPrefix(fed.text, tokens) /\ Level(Len(fed.text), Split(fed))
    BY <1>10, <1>19
  <2> QED BY <1>6, <1>9, <1>12, <2>1, CheckpointKeeps DEF done
<1>14. ~ask.drafts => drafted = << >>
  <2>1. ASSUME ~ask.drafts PROVE drafted = << >>
    <3>1. Len(drafted) = 0 /\ drafted \in Seq(Vocabulary) BY <1>5, <1>7, <2>1 DEF Texts
    <3> QED BY <3>1, EmptySeq
  <2> QED BY <2>1
<1>15. Follows' BY <1>4, <1>9, <1>11, <1>14, <1>18 DEF Follows
<1>16. phase' \in Phases BY <1>4 DEF Phases
<1>17. lost' = {} BY <1>4, <1>6
<1> QED BY <1>4, <1>7, <1>9, <1>13, <1>15, <1>16, <1>17, <1>20 DEF Session

\* There is nothing to feed.
LEMMA NothingToFeedKeeps == ASSUME Session, NothingToFeed PROVE Session'
<1>1. /\ phase = "forward" /\ phase' = "empty" /\ cache' = cache /\ live' = live /\ memo' = memo /\ lost' = lost
      /\ proposals' = proposals /\ served' = served /\ tokens' = tokens /\ prompt' = prompt /\ ask' = ask
  BY DEF NothingToFeed, session
<1>2. Follows' BY <1>1 DEF Session, Follows
<1>3. phase' \in Phases BY <1>1 DEF Phases
<1> QED BY <1>1, <1>2, <1>3 DEF Session

\* The verdict's crop takes back proposals only, never a block, and leaves a prefix of what was said.
LEMMA VerdictKeeps == ASSUME Session, Verdict PROVE Session'
<1>0. PICK accepted \in 0..Len(proposals) : \E next \in Corrections(accepted) :
       LET new == Append(SubSeq(proposals, 1, accepted), next)
       IN  \E shown \in 1..Len(new) :
             /\ tokens' = tokens \o SubSeq(new, 1, shown)
             /\ live' = Crop(live, Len(tokens) + accepted)
             /\ \/ phase' = "ended"
                \/ shown = Len(new) /\ Emitted + shown < ask.reply /\ phase' = "forward"
  BY DEF Verdict
<1>1. PICK next \in Corrections(accepted) :
       LET new == Append(SubSeq(proposals, 1, accepted), next)
       IN  \E shown \in 1..Len(new) :
             /\ tokens' = tokens \o SubSeq(new, 1, shown)
             /\ live' = Crop(live, Len(tokens) + accepted)
             /\ \/ phase' = "ended"
                \/ shown = Len(new) /\ Emitted + shown < ask.reply /\ phase' = "forward"
  BY <1>0
<1> DEFINE new == Append(SubSeq(proposals, 1, accepted), next)
<1>2. PICK shown \in 1..Len(new) :
             /\ tokens' = tokens \o SubSeq(new, 1, shown)
             /\ live' = Crop(live, Len(tokens) + accepted)
             /\ \/ phase' = "ended"
                \/ shown = Len(new) /\ Emitted + shown < ask.reply /\ phase' = "forward"
  BY <1>1
<1>3. /\ proposals' = << >> /\ cache' = cache /\ memo' = memo /\ lost' = lost /\ served' = served
      /\ prompt' = prompt /\ ask' = ask /\ phase = "verdict"
  BY DEF Verdict
<1>4. /\ tokens \in Texts /\ proposals \in Texts /\ live \in Lives /\ Sealed(live.blocks, live.text, Split(live))
      /\ live.text = tokens \o proposals /\ Split(live) <= Len(tokens) /\ prompt \in Nat /\ prompt <= Len(tokens)
      /\ Remembers(cache.store, memo, live.blocks) /\ Len(tokens) \in Nat /\ Len(proposals) \in Nat
      /\ Split(live) = 0 \/ \E look \in Lookaheads \cup {0} : Split(live) <= Len(tokens) + look - Window
  BY <1>3 DEF Session, Follows, Texts
<1>18. Tiled(live.blocks, live.text, Split(live)) /\ Level(Len(live.text), Split(live)) BY <1>4 DEF Sealed
<1>5. next \in Vocabulary BY DEF Corrections
<1>6. Len(new) = accepted + 1
  <2>1. proposals \in Seq(Vocabulary) BY <1>4 DEF Texts
  <2>2. SubSeq(proposals, 1, accepted) \in Seq(Vocabulary) /\ Len(SubSeq(proposals, 1, accepted)) = accepted
    BY <1>4, <2>1
  <2> QED BY <1>5, <2>2, AppendProperties
<1>7. shown \in 1..(accepted + 1) /\ shown \in Nat BY <1>4, <1>6
<1> DEFINE said == tokens \o SubSeq(new, 1, shown)
           n == Len(tokens) + accepted
           left == Crop(live, n)
<1>8. /\ said \in Texts /\ Len(said) = Len(tokens) + shown
      /\ accepted <= shown => IsPrefix(SubSeq(tokens \o proposals, 1, n), said)
  BY <1>4, <1>5, <1>7, VerdictShown
<1>9. n \in Nat /\ n <= Len(live.text) /\ Split(live) <= n
  <2>1. Len(live.text) = Len(tokens) + Len(proposals) BY <1>4, PrefixesOf
  <2>2. Split(live) \in Nat BY <1>4, <1>18, SplitIsWithin
  <2> QED BY <1>4, <2>1, <2>2
<1>19. Level(n, Split(live))
  <2>1. Window \in Nat /\ Group \in Nat /\ \A look \in Lookaheads \cup {0} : look \in Nat
    BY GenerationAssumption
  <2>2. Split(live) \in Nat /\ Len(live.text) \in Nat BY <1>4, <1>18, SplitIsWithin
  <2>5. Len(live.text) - Window - Split(live) < Group BY <1>18 DEF Level
  <2>3. n - Window - Split(live) < Group BY ONLY <1>9, <2>1, <2>2, <2>5
  <2>4. Split(live) = 0 \/ \E look \in Lookaheads \cup {0} : Split(live) <= n + look - Window
    BY <1>4, <2>1, <2>2
  <2> QED BY <1>18, <2>2, <2>3, <2>4 DEF Level
<1> HIDE DEF new, said, n
<1>10. /\ left \in Lives /\ left.text = SubSeq(tokens \o proposals, 1, n) /\ left.blocks = live.blocks
       /\ Sealed(left.blocks, left.text, Split(left)) /\ Len(left.text) = n
  BY <1>4, <1>9, <1>18, <1>19, CropKeeps DEF Sealed
<1> HIDE DEF left
<1>11. tokens' = said /\ live' = left BY <1>2 DEF said, n, left, new
<1>12. phase' \in {"ended", "forward"} /\ (phase' = "forward" => shown = accepted + 1) BY <1>2, <1>6
<1>13. accepted <= shown => IsPrefix(left.text, said) BY <1>8, <1>10
<1>14. Follows'
  <2>1. phase' = "forward" => IsPrefix(left.text, said) BY <1>4, <1>12, <1>13
  <2>2. Len(left.text) <= Len(said) => IsPrefix(left.text, said) BY <1>4, <1>7, <1>8, <1>10, <1>13 DEF n
  <2> QED BY <1>11, <1>12, <2>1, <2>2 DEF Follows
<1>15. << >> \in Texts BY EmptyIsLive
<1>16. prompt <= Len(said) BY <1>4, <1>7, <1>8
<1>17. phase' \in Phases BY <1>12 DEF Phases
<1> QED BY <1>3, <1>4, <1>8, <1>10, <1>11, <1>14, <1>15, <1>16, <1>17 DEF Session

\* A stop ends a request that speculates nothing: the live cache holds the tokens before the pass.
LEMMA StopKeeps == ASSUME Session, Stop PROVE Session'
<1>1. /\ phase = "verdict" /\ ask.stops /\ phase' = "ended" /\ proposals' = << >> /\ cache' = cache /\ live' = live
      /\ memo' = memo /\ lost' = lost /\ served' = served /\ prompt' = prompt /\ ask' = ask
  BY DEF Stop
<1>0. PICK accepted \in 0..Len(proposals) : \E next \in Corrections(accepted) :
        tokens' = tokens \o Append(SubSeq(proposals, 1, accepted), next)
  BY DEF Stop
<1>2. PICK next \in Corrections(accepted) :
        tokens' = tokens \o Append(SubSeq(proposals, 1, accepted), next)
  BY <1>0
<1>3. /\ tokens \in Texts /\ proposals \in Texts /\ live.text = tokens \o proposals /\ proposals = << >>
      /\ prompt \in Nat /\ prompt <= Len(tokens) /\ Len(tokens) \in Nat
  BY <1>1 DEF Session, Follows, Texts
<1> DEFINE new == Append(SubSeq(proposals, 1, accepted), next)
<1>4. new \in Texts
  <2>1. next \in Vocabulary BY DEF Corrections
  <2>2. proposals \in Seq(Vocabulary) /\ Len(proposals) \in Nat BY <1>3 DEF Texts
  <2>3. SubSeq(proposals, 1, accepted) \in Seq(Vocabulary) BY <2>2
  <2> QED BY <2>1, <2>3, AppendProperties DEF Texts
<1>5. tokens' = tokens \o new BY <1>2
<1> HIDE DEF new
<1>6. tokens' \in Texts /\ Len(tokens') = Len(tokens) + Len(new) /\ IsPrefix(tokens, tokens') /\ Len(new) \in Nat
  BY <1>3, <1>4, <1>5, PrefixesOf DEF Texts
<1>7. live.text = tokens
  <2>1. tokens \in Seq(Vocabulary) BY <1>3 DEF Texts
  <2>2. tokens \o << >> = tokens BY <2>1
  <2> QED BY <1>3, <2>2
<1>8. Follows' BY <1>1, <1>6, <1>7 DEF Follows
<1>9. << >> \in Texts BY EmptyIsLive
<1>10. prompt <= Len(tokens') BY <1>3, <1>6
<1>11. phase' \in Phases BY <1>1 DEF Phases
<1> QED BY <1>1, <1>3, <1>6, <1>8, <1>9, <1>10, <1>11 DEF Session

\* finish() files a checkpoint of what the live cache holds.
LEMMA FinishKeeps == ASSUME Session, Finish PROVE Session'
<1>1. PICK reused \in Reuses(live), writable \in DiskWorks :
        cache' = Checkpointed(live, TRUE, reused, writable).cache
  BY DEF Finish
<1>2. EndRequest /\ phase = "ended" BY DEF Finish
<1>3. /\ Sound(cache) /\ Fitting(cache) /\ lost = {} /\ tokens \in Texts /\ live \in Lives
      /\ Sealed(live.blocks, live.text, Split(live)) /\ Remembers(cache.store, memo, live.blocks)
      /\ Len(live.text) <= Len(tokens) => IsPrefix(live.text, tokens)
  BY <1>2 DEF Session, Follows
<1> DEFINE done == Checkpointed(live, TRUE, reused, writable)
<1>4. Sound(done.cache) /\ Fitting(done.cache)
  <2> DEFINE l == live
  <2>1. /\ l \in Lives /\ Tiled(l.blocks, l.text, Split(l)) /\ Remembers(cache.store, memo, l.blocks)
        /\ Len(l.text) <= Len(tokens) => IsPrefix(l.text, tokens) /\ Level(Len(l.text), Split(l))
        /\ reused \in Reuses(l)
    BY <1>3 DEF Sealed
  <2>2. Sound(Checkpointed(l, TRUE, reused, writable).cache) /\ Fitting(Checkpointed(l, TRUE, reused, writable).cache)
    <3> HIDE DEF l
    <3> QED BY <1>3, <2>1, CheckpointKeeps
  <2> QED BY <2>2
<1>5. Sound(cache') /\ Fitting(cache') BY <1>1, <1>4
<1> QED BY <1>2, <1>5, EndRequestKeeps

\* A request that is given up leaves the cache alone.
LEMMA AbandonKeeps == ASSUME Session, Abandon PROVE Session'
<1>1. EndRequest /\ cache' = cache BY DEF Abandon
<1>2. Sound(cache') /\ Fitting(cache') BY <1>1 DEF Session
<1> QED BY <1>1, <1>2, EndRequestKeeps

\* Clearing happens between requests.
LEMMA ClearCacheKeeps == ASSUME Session, ClearCache PROVE Session'
<1>1. PICK drop \in Clears : cache' = Clear(cache, drop) BY DEF ClearCache
<1>2. /\ phase = "idle" /\ phase' = phase /\ live' = live /\ memo' = memo /\ lost' = lost
      /\ proposals' = proposals /\ served' = served /\ tokens' = tokens /\ prompt' = prompt /\ ask' = ask
  BY DEF ClearCache, session
<1>3. Sound(Clear(cache, drop)) /\ Fitting(Clear(cache, drop)) BY ClearKeeps DEF Session
<1>4. Sound(cache') /\ Fitting(cache') BY <1>1, <1>3
<1>5. live = EmptyLive /\ memo = << >> BY <1>2 DEF Session, Follows
<1>6. Remembers(cache'.store, << >>, EmptyLive.blocks) BY EmptyIsLive
<1>7. Remembers(cache'.store, memo', live'.blocks) BY <1>2, <1>5, <1>6
<1>8. Follows' BY <1>2, <1>5 DEF Follows
<1> QED BY <1>2, <1>4, <1>7, <1>8 DEF Session

\* Every step keeps it.
LEMMA SessionKept == ASSUME Session, Reasonable, [Next]_vars PROVE Session'
<1>1. CASE Begin BY <1>1, BeginKeeps
<1>2. CASE Forward BY <1>2, ForwardKeeps
<1>3. CASE NothingToFeed BY <1>3, NothingToFeedKeeps
<1>4. CASE Verdict BY <1>4, VerdictKeeps
<1>5. CASE Stop BY <1>5, StopKeeps
<1>6. CASE Finish BY <1>6, FinishKeeps
<1>7. CASE Abandon BY <1>7, AbandonKeeps
<1>8. CASE ClearCache BY <1>8, ClearCacheKeeps
<1>9. CASE UNCHANGED vars
  <2>1. /\ phase' = phase /\ cache' = cache /\ live' = live /\ memo' = memo /\ lost' = lost
        /\ proposals' = proposals /\ served' = served /\ tokens' = tokens /\ prompt' = prompt /\ ask' = ask
    BY <1>9 DEF vars
  <2>2. Follows' BY <2>1 DEF Session, Follows
  <2> QED BY <2>1, <2>2 DEF Session
<1> QED BY <1>1, <1>2, <1>3, <1>4, <1>5, <1>6, <1>7, <1>8, <1>9 DEF Next

\* It holds in every state.
LEMMA SessionHolds == ASSUME Reasonable PROVE Spec => []Session
<1>1. Init => Session BY SessionStarts
<1>2. Session /\ [Next]_vars => Session' BY SessionKept
<1> QED BY <1>1, <1>2, PTL DEF Spec

\* Whole groups that leave less than a group past the window are what a prefill quantizes.
LEMMA PrefillSplits ==
  ASSUME NEW n \in Nat, NEW q \in Nat,
         IF q = 0 THEN n - Window < Group ELSE q * Group <= n - Window /\ n - Window - q * Group < Group
  PROVE  Quantized(n) = q * Group
<1>1. Group \in Nat \ {0} /\ Window \in Nat BY GenerationAssumption
<1>2. 0 * Group = 0 /\ q * Group \in Nat BY <1>1
<1>3. CASE n <= Window
  <2>1. q = 0
    <3>1. ASSUME q > 0 PROVE FALSE
      <4>1. q * Group >= Group BY <1>1, <3>1
      <4> QED BY <1>1, <1>3, <3>1, <4>1
    <3> QED BY <3>1
  <2> QED BY <1>2, <1>3, <2>1 DEF Quantized
<1>4. CASE n > Window
  <2> DEFINE x == n - Window
             d == x \div Group
  <2>1. x \in Nat /\ q * Group <= x /\ x < q * Group + Group BY <1>1, <1>2, <1>4
  <2>2. d \in Int /\ d * Group <= x /\ x - d * Group < Group /\ d * Group \in Int BY <1>1, <2>1, WholeGroups
  <2> HIDE DEF x, d
  <2>3. ~(d < q)
    <3>1. ASSUME d < q PROVE FALSE
      <4>1. (q - d) * Group >= Group /\ (q - d) * Group = q * Group - d * Group BY <1>1, <2>2, <3>1
      <4> QED BY <1>1, <1>2, <2>1, <2>2, <4>1
    <3> QED BY <3>1
  <2>4. ~(q < d)
    <3>1. ASSUME q < d PROVE FALSE
      <4>1. (d - q) * Group >= Group /\ (d - q) * Group = d * Group - q * Group BY <1>1, <2>2, <3>1
      <4> QED BY <1>1, <1>2, <2>1, <2>2, <4>1
    <3> QED BY <3>1
  <2>5. d = q BY <2>2, <2>3, <2>4
  <2>6. Quantized(n) = d * Group BY <1>1, <1>4 DEF Quantized, d, x
  <2> QED BY <2>5, <2>6
<1> QED BY <1>1, <1>3, <1>4

\* A level boundary is that of a prefill of the tokens, or of what a pass has put after them.
LEMMA LevelIsBalanced ==
  ASSUME NEW n \in Nat, NEW split, Level(n, split)
  PROVE  Balanced(n, split) /\ (Lookaheads \subseteq {0} => split = Quantized(n))
<1>1. /\ Group \in Nat \ {0} /\ Window \in Nat /\ split \in Nat
      /\ \A look \in Lookaheads \cup {0} : look \in Nat
  BY GenerationAssumption DEF Level
<1>2. PICK q \in Nat : split = q * Group BY DEF Level
<1>3. n - Window - split < Group BY DEF Level
<1>4. split = 0 => q = 0 BY <1>1, <1>2
<1>5. CASE split = 0 \/ split <= n - Window
  <2>1. split = Quantized(n) BY <1>1, <1>2, <1>3, <1>4, <1>5, PrefillSplits
  <2>2. n \in n..(n + 0) BY <1>1
  <2> QED BY <2>1, <2>2 DEF Balanced
<1>6. CASE ~(split = 0 \/ split <= n - Window)
  <2>1. PICK look \in Lookaheads \cup {0} : split <= n + look - Window BY <1>6 DEF Level
  <2>2. split + Window \in n..(n + look) /\ split + Window \in Nat /\ look # 0 BY <1>1, <1>6, <2>1
  <2>3. (split + Window) - Window = split /\ split - split < Group BY <1>1
  <2>4. q # 0 => Quantized(split + Window) = split BY <1>1, <1>2, <2>2, <2>3, PrefillSplits
  <2>5. q # 0 BY <1>1, <1>2, <1>6
  <2> QED BY <2>2, <2>4, <2>5 DEF Balanced
<1> QED BY <1>5, <1>6

\* In both tiers the boundary of a checkpoint is level.
LEMMA SplitsAreLevel ==
  ASSUME Session
  PROVE  /\ \A key \in DOMAIN cache.entries : Len(key) \in Nat /\ Level(Len(key), cache.entries[key].split)
         /\ \A key \in DOMAIN cache.spilled : Len(key) \in Nat /\ Level(Len(key), cache.spilled[key].split)
<1>1. Held(cache.entries, cache.store) /\ FilesHold(cache) /\ cache \in Caches BY DEF Session, Sound, Filed
<1>2. \A key \in DOMAIN cache.entries : Level(Len(key), cache.entries[key].split)
  BY <1>1 DEF Held, EntryHolds, Sealed
<1>3. \A key \in DOMAIN cache.spilled : Level(Len(key), cache.spilled[key].split)
  BY <1>1 DEF FilesHold, Sealed
<1>4. DOMAIN cache.entries \subseteq Texts /\ DOMAIN cache.spilled \subseteq Texts
  <2>1. cache.entries \in Entries /\ cache.spilled \in Partial(Texts \ {NoKey}, Files) BY <1>1 DEF Caches
  <2> QED BY <2>1, PartialIs DEF Entries
<1> QED BY <1>2, <1>3, <1>4 DEF Texts

\* In both tiers a checkpoint holds the tokens of its key, its blocks ending where a prefill of those
\* tokens, or of a pass over them and what it proposed, would end them: through crops, sharing,
\* eviction, spilling, reading back and clearing, whatever the disk does.
THEOREM EntriesHold == ASSUME Reasonable PROVE Spec => []EntriesHoldTheirTokens
<1>1. Session => EntriesHoldTheirTokens
  <2> SUFFICES ASSUME Session PROVE EntriesHoldTheirTokens OBVIOUS
  <2>1. Held(cache.entries, cache.store) /\ FilesHold(cache) BY DEF Session, Sound, Filed
  <2>2. \A key \in DOMAIN cache.entries :
          LET k == cache.entries[key]
          IN  /\ k.text = key /\ ToSet(k.blocks) \subseteq DOMAIN cache.store
              /\ Tile([i \in DOMAIN k.blocks |-> cache.store[k.blocks[i]].block], key, k.split)
    BY <2>1 DEF Held, EntryHolds, Named, Sealed, Tiled
  <2>3. \A key \in DOMAIN cache.spilled :
          LET file == cache.spilled[key] IN file.text = key /\ Tile(file.blocks, key, file.split)
    BY <2>1 DEF FilesHold, Sealed, Tiled
  <2> QED BY <2>2, <2>3, SplitsAreLevel, LevelIsBalanced DEF EntriesHoldTheirTokens
<1> QED BY <1>1, SessionHolds, PTL

\* "Which tokens sit on which side is a function of the length alone", where nothing is proposed.
THEOREM SplitIsExact == ASSUME Reasonable, Lookaheads \subseteq {0} PROVE Spec => []SplitIsOfLength
<1>1. Session => SplitIsOfLength BY SplitsAreLevel, LevelIsBalanced DEF SplitIsOfLength
<1> QED BY <1>1, SessionHolds, PTL

\* Before every pass the live cache holds a prefix of what was said, its blocks tiling it.
THEOREM CacheFollows == ASSUME Reasonable PROVE Spec => []CacheFollowsTokens
<1>1. Session => CacheFollowsTokens BY DEF Session, Follows, CacheFollowsTokens, Sealed, Tiled
<1> QED BY <1>1, SessionHolds, PTL

\* Both tiers are in order: blocks stay while they are named, each tier lists what it holds once, and
\* what it holds fits.
THEOREM StoreSound == ASSUME Reasonable PROVE Spec => []StoreIsSound
<1>1. Session => StoreIsSound
  <2> SUFFICES ASSUME Session PROVE StoreIsSound OBVIOUS
  <2> DEFINE c == cache
  <2>1. /\ c \in Caches /\ Range(c.order) = DOMAIN c.entries /\ IsInjective(c.order) /\ Held(c.entries, c.store)
        /\ FilesListed(c) /\ FilesFit(c) /\ Fitting(c)
    BY DEF Session, Sound, Filed
  <2>2. c.order \in Seq(Texts) /\ c.store \in Stores BY <2>1 DEF Caches
  <2>3. IsFiniteSet(DOMAIN c.entries) BY <2>1, <2>2, ListedFinite
  <2>4. ASSUME NEW k \in DOMAIN c.store
        PROVE  /\ IsBlock(c.store[k].block) /\ c.store[k].refs \in Nat
               /\ c.store[k].refs >= Cardinality(Namers(c.entries, k))
    <3>1. c.store[k] \in Stored BY <2>2, PartialIs DEF Stores
    <3>2. c.store[k].block \in Blocks /\ c.store[k].refs \in Int BY <3>1 DEF Stored
    <3>3. Namers(c.entries, k) \subseteq DOMAIN c.entries BY DEF Namers
    <3>4. Cardinality(Namers(c.entries, k)) \in Nat BY <2>3, <3>3, FS_Subset, FS_CardinalityType
    <3>5. Cardinality(Namers(c.entries, k)) <= c.store[k].refs BY <2>1 DEF Held
    <3> QED BY <3>2, <3>4, <3>5 DEF Blocks
  <2>5. BlocksAreHeld BY <2>4 DEF BlocksAreHeld, Namers
  <2>6. StorageTierFits BY <2>1 DEF FilesFit, StorageTierFits
  <2>7. HostTierFits BY <2>1 DEF Fitting, HeldBytes, HeldKeys, HostTierFits
  <2>8. Len(memo) <= Len(live.blocks) BY DEF Session, Remembers
  <2>9. ASSUME phase # "ended" PROVE Len(live.text) <= Len(tokens) + Len(proposals)
    <3>1. /\ tokens \in Texts /\ proposals \in Texts /\ live.text \in Texts /\ Len(tokens) \in Nat
          /\ Len(proposals) \in Nat
      BY DEF Session, Lives, Texts
    <3>2. CASE phase \in {"forward", "empty"}
      <4>1. Len(live.text) <= Len(tokens) /\ Len(live.text) \in Nat
        BY <3>1, <3>2, PrefixIs DEF Session, Follows, Texts
      <4> QED BY <3>1, <4>1
    <3>3. CASE phase \in {"verdict", "failed"}
      <4>1. live.text = tokens \o proposals BY <3>3 DEF Session, Follows
      <4>2. Len(tokens \o proposals) = Len(tokens) + Len(proposals) BY <3>1, PrefixesOf
      <4> QED BY <3>1, <4>1, <4>2
    <3>4. CASE phase = "idle"
      <4>1. Len(live.text) = 0 BY <3>4, EmptyIsLive DEF Session, Follows
      <4> QED BY <3>1, <4>1
    <3> QED BY <2>9, <3>2, <3>3, <3>4 DEF Session, Phases
  <2>10. TypeOK BY <2>1, <2>4, <2>8, <2>9 DEF TypeOK, FilesListed, Session
  <2> QED BY <2>5, <2>6, <2>7, <2>10 DEF StoreIsSound
<1> QED BY <1>1, SessionHolds, PTL

==============================================================================
