------------------------------- MODULE Generation -------------------------------
(***************************************************************************)
(* The worker serving one request after another with the prefix cache:     *)
(* PrefixSession (server/prefix_cache.py, 711-844) around a live           *)
(* QuantizedKVCache (quant/kv_cache.py), driven by the speculative loop    *)
(* (SpeculativeDecoder.generate, spec/draft.py) or by transformers' own,   *)
(* which is the same loop with no proposals.                               *)
(*                                                                         *)
(* One pass is two steps: the forward, which feeds the tokens the cache    *)
(* does not hold yet and the proposals and then calls the observer, and    *)
(* the verdict on the proposals, which hands tokens to the streamer and    *)
(* then crops the rejected ones.  The streamer may stop the loop between   *)
(* the two.  Which tokens come out is the model's choice: any.             *)
(***************************************************************************)
EXTENDS PrefixCache

CONSTANTS
  Vocabulary,        \* token ids
  Group, Window,     \* group_size and residual_length of the KVCacheConfig
  Prompts,           \* what requests may ask
  Replies,           \* max_new_tokens they may ask for
  Lookaheads,        \* proposals a pass may ask of the draft; {0} without a draft
  SpeculativeStops,  \* whether a speculative request may bring stop sequences
  RestoreFaults,     \* blocks a restore may have moved to the device when it fails
  DiskWorks,         \* what the disk may do: BOOLEAN, {TRUE} or {FALSE}
  Clears,            \* arguments clear() may be called with
  MaxRequests        \* bound: requests served

ASSUME GenerationAssumption ==
  /\ Group \in Nat \ {0, 1} /\ Window \in Nat /\ Window >= Group
  /\ Prompts \subseteq Seq(Vocabulary) \ {<< >>} /\ Replies \subseteq Nat \ {0}
  /\ Lookaheads \subseteq Nat /\ SpeculativeStops \in BOOLEAN /\ RestoreFaults \subseteq Nat
  /\ DiskWorks \subseteq BOOLEAN /\ Clears \subseteq BOOLEAN /\ MaxRequests \in Nat

VARIABLES
  cache,       \* the PrefixCache
  phase,       \* where the worker is in a request
  tokens,      \* PrefixSession.tokens: the prompt and what the streamer was shown
  prompt,      \* prompt_length
  live,        \* the live cache: what was fed to it, and its quantized blocks
  memo,        \* _memo: the store key of each block of the live cache, None without one
  lost,        \* store keys _memo has under the identity of a block that is no more
  taken,       \* _checkpointed
  ask,         \* max_new_tokens, and whether the loop speculates and stops are looked for
  proposals,   \* what the pass under way proposed
  served       \* requests begun

vars == <<cache, phase, tokens, prompt, live, memo, lost, taken, ask, proposals, served>>
session == <<tokens, prompt, ask>>

EmptyLive == [text |-> << >>, blocks |-> << >>]
Split(l) == IF l.blocks = << >> THEN 0 ELSE Len(Last(l.blocks).text)
NoAsk == [reply |-> 1, drafts |-> FALSE, stops |-> FALSE]
Emitted == Len(tokens) - prompt

Phases == {"idle", "forward", "verdict", "ended", "failed", "empty"}

Init ==
  /\ cache = EmptyCache /\ phase = "idle" /\ served = 0
  /\ tokens = << >> /\ prompt = 0 /\ live = EmptyLive
  /\ memo = << >> /\ lost = {} /\ taken = {} /\ proposals = << >>
  /\ ask = NoAsk

-----------------------------------------------------------------------------
(* The live cache                                                          *)

\* Broken variant: groups are counted in what has just arrived.
FeedByArrival(l, fed) ==
  LET text == l.text \o fed
      take == ((Len(fed) - Window) \div Group) * Group
  IN  [text |-> text,
       blocks |-> IF take <= 0 THEN l.blocks
                  ELSE Append(l.blocks,
                              [from |-> Split(l), text |-> SubSeq(text, 1, Split(l) + take)])]

\* update and _flush: whole groups past the window become a block
Feed(l, fed) ==
  LET text == l.text \o fed
      take == ((Len(text) - Split(l) - Window) \div Group) * Group
  IN  [text |-> text,
       blocks |-> IF take <= 0 THEN l.blocks
                  ELSE Append(l.blocks,
                              [from |-> Split(l), text |-> SubSeq(text, 1, Split(l) + take)])]

Crop(l, length) == [l EXCEPT !.text = SubSeq(@, 1, length)]

-----------------------------------------------------------------------------
(* Checkpoints.  _hold looks a block up by its identity, which a block     *)
(* that is no more may have left to it: `reused` says which of the blocks  *)
(* without a key find one of those in the memo, and which.                 *)

Unkeyed(l) == {i \in DOMAIN l.blocks : i > Len(memo)}
Reuses(l) == UNION {{f \in [S -> lost] : IsInjective(f)} : S \in SUBSET Unkeyed(l)}

Keys(l, reused) ==
  LET fresh == FreshKeys(DOMAIN cache.store \cup Range(memo) \cup lost, Unkeyed(l) \ DOMAIN reused)
  IN  [i \in DOMAIN l.blocks |->
         CASE i <= Len(memo) -> memo[i]
           [] i \in DOMAIN reused -> reused[i]
           [] OTHER -> fresh[i]]

\* capture() stores the blocks it has no copy of
Copied(l, keys) ==
  LET new == {i \in DOMAIN keys : keys[i] \notin Range(memo) \cup lost}
  IN  StoreBlocks(cache.store, Restrict(keys, new), l.blocks, 0)

Interesting(length, force) ==
  /\ length > 0 /\ length \notin taken /\ length <= Len(tokens)
  /\ force \/ length = prompt \/ length % BlockSize = 0

\* _maybe_checkpoint: what it leaves, and whether put raises
Checkpointed(l, force, reused, writable) ==
  LET keys == Keys(l, reused)
      key == SubSeq(tokens, 1, Len(l.text))
      captured == [cache EXCEPT !.store = Copied(l, keys)]
      checkpoint == [text |-> l.text, split |-> Split(l), blocks |-> keys]
  IN  IF Interesting(Len(l.text), force)
      THEN [cache |-> Put(captured, key, checkpoint, writable), memo |-> keys,
            taken |-> taken \cup {Len(l.text)}, raises |-> Raises(captured, key, checkpoint)]
      ELSE [cache |-> cache, memo |-> memo, taken |-> taken, raises |-> FALSE]

-----------------------------------------------------------------------------
(* A request                                                               *)

\* begin(): look the prompt up, restore what is found
Begin ==
  /\ phase = "idle" /\ served < MaxRequests
  /\ \E text \in Prompts, reply \in Replies, drafts \in {look # 0 : look \in Lookaheads},
        stops \in BOOLEAN, readable \in DiskWorks, writable \in DiskWorks :
       LET key == Found(cache, text, readable)
           after == Lookup(cache, text, readable, writable)
           found == after.entries[key]
       IN  /\ stops /\ drafts => SpeculativeStops
           /\ tokens' = text /\ prompt' = Len(text) /\ served' = served + 1
           /\ ask' = [reply |-> reply, drafts |-> drafts, stops |-> stops]
           /\ cache' = after /\ phase' = "forward"
           /\ \/ key = NoKey /\ live' = EmptyLive /\ memo' = << >> /\ lost' = {}
              \/ /\ key # NoKey /\ lost' = {}
                 /\ live' = [text |-> found.text,
                             blocks |-> [i \in DOMAIN found.blocks |->
                                           after.store[found.blocks[i]].block]]
                 /\ memo' = found.blocks
              \/ /\ key # NoKey /\ live' = EmptyLive /\ memo' = << >>
                 /\ \E n \in RestoreFaults :
                      n <= Len(found.blocks) /\ lost' = ToSet(SubSeq(found.blocks, 1, n))
  /\ taken' = {} /\ proposals' = << >>

\* The target's pass over what is pending and what is proposed, and the observer at its end
Forward ==
  /\ phase = "forward" /\ Len(live.text) < Len(tokens)
  /\ \E look \in Lookaheads, writable \in DiskWorks :
       /\ look = 0 <=> ~ask.drafts
       /\ \E drafted \in [1..Min({look, ask.reply - Emitted - 1}) -> Vocabulary] :
            LET fed == Feed(live, SubSeq(tokens, Len(live.text) + 1, Len(tokens)) \o drafted)
            IN  \E reused \in Reuses(fed) :
                  LET done == Checkpointed(fed, FALSE, reused, writable)
                  IN  /\ proposals' = drafted /\ live' = fed
                      /\ cache' = done.cache /\ memo' = done.memo /\ taken' = done.taken
                      /\ lost' = lost \ Range(done.memo)
                      /\ phase' = IF done.raises THEN "failed" ELSE "verdict"
  /\ UNCHANGED <<session, served>>

\* The cache handed in covers the whole prompt: there is no token to feed
NothingToFeed ==
  /\ phase = "forward" /\ Len(live.text) = Len(tokens)
  /\ phase' = "empty"
  /\ UNCHANGED <<cache, live, memo, lost, taken, proposals, served, session>>

\* A token the verdict may put after `accepted` proposals: not the one it has just rejected
Corrections(accepted) ==
  IF accepted < Len(proposals) THEN Vocabulary \ {proposals[accepted + 1]} ELSE Vocabulary

\* The pass yields tokens, the streamer is shown `shown` of them, and the rejected ones are cropped
Verdict ==
  /\ phase = "verdict"
  /\ \E accepted \in 0..Len(proposals) : \E next \in Corrections(accepted) :
       LET new == Append(SubSeq(proposals, 1, accepted), next)
       IN  \E shown \in 1..Len(new) :
             /\ tokens' = tokens \o SubSeq(new, 1, shown)
             /\ live' = Crop(live, Len(tokens) + accepted)
             /\ \/ phase' = "ended"                      \* its last token shown ends the sequence
                \/ shown = Len(new) /\ Emitted + shown < ask.reply /\ phase' = "forward"
  /\ proposals' = << >>
  /\ UNCHANGED <<cache, memo, lost, taken, served, prompt, ask>>

\* The streamer finds a stop sequence in what it is shown, and raises
Stop ==
  /\ phase = "verdict" /\ ask.stops
  /\ \E accepted \in 0..Len(proposals) : \E next \in Corrections(accepted) :
       tokens' = tokens \o Append(SubSeq(proposals, 1, accepted), next)
  /\ phase' = "ended" /\ proposals' = << >>
  /\ UNCHANGED <<cache, live, memo, lost, taken, served, prompt, ask>>

\* The session, its cache and its memo go with the request
EndRequest ==
  /\ phase' = "idle" /\ tokens' = << >> /\ prompt' = 0 /\ live' = EmptyLive /\ ask' = NoAsk
  /\ memo' = << >> /\ lost' = {} /\ taken' = {} /\ proposals' = << >>
  /\ UNCHANGED served

\* finish(): a checkpoint where the next turn will start; what it raises is swallowed
Finish ==
  /\ phase = "ended"
  /\ \E reused \in Reuses(live), writable \in DiskWorks :
       cache' = Checkpointed(live, TRUE, reused, writable).cache
  /\ EndRequest

\* The streamer raises for a client that has gone, or the request has failed: no finish()
Abandon ==
  /\ phase \in {"verdict", "failed", "empty"}
  /\ EndRequest /\ UNCHANGED cache

ClearCache ==
  /\ phase = "idle"
  /\ \E drop \in Clears : cache' = Clear(cache, drop)
  /\ UNCHANGED <<phase, live, memo, lost, taken, proposals, served, session>>

Next == Begin \/ Forward \/ NothingToFeed \/ Verdict \/ Stop \/ Finish \/ Abandon \/ ClearCache

Spec == Init /\ [][Next]_vars

-----------------------------------------------------------------------------
(* Properties                                                              *)

IsBlock(b) == b.from \in Nat /\ Len(b.text) > b.from
\* Each order lists what its tier holds, once, and the session's fields agree on their lengths.
TypeOK ==
  /\ phase \in Phases /\ Range(cache.order) = DOMAIN cache.entries
  /\ Range(cache.aged) = DOMAIN cache.spilled /\ IsInjective(cache.order) /\ IsInjective(cache.aged)
  /\ \A k \in DOMAIN cache.store : IsBlock(cache.store[k].block) /\ cache.store[k].refs \in Nat
  /\ Len(memo) <= Len(live.blocks)
  /\ phase # "ended" => Len(live.text) <= Len(tokens) + Len(proposals)
  /\ prompt <= Len(tokens) /\ served <= MaxRequests

\* Blocks that tile the text from its start to `split`
Tile(blocks, text, split) ==
  /\ \A i \in DOMAIN blocks :
       /\ blocks[i].from = IF i = 1 THEN 0 ELSE Len(blocks[i - 1].text)
       /\ IsPrefix(blocks[i].text, text)
  /\ split = IF blocks = << >> THEN 0 ELSE Len(Last(blocks).text)

\* quantized(n), the tokens a prefill of n tokens quantizes (server/prefix_cache.py:24)
Quantized(n) == IF n <= Window THEN 0 ELSE ((n - Window) \div Group) * Group

\* The boundary of n tokens is that of a prefill of them, or of the proposals a pass has put after
\* them and taken back: what a forward quantizes, the crop does not undo.
Balanced(n, split) == \E look \in Lookaheads \cup {0} : \E m \in n..(n + look) : split = Quantized(m)

\* In both tiers a checkpoint holds what its key says, in blocks that tile it up to its boundary,
\* and the boundary is where feeding the model those tokens puts it, give or take the proposals of
\* one pass (put, _spill, _load_spilled, and the crop of a rejected proposal).
EntriesHoldTheirTokens ==
  /\ \A key \in DOMAIN cache.entries :
       LET k == cache.entries[key]
       IN  /\ k.text = key /\ ToSet(k.blocks) \subseteq DOMAIN cache.store
           /\ Tile([i \in DOMAIN k.blocks |-> cache.store[k.blocks[i]].block], key, k.split)
           /\ Balanced(Len(key), k.split)
  /\ \A key \in DOMAIN cache.spilled :
       LET file == cache.spilled[key]
       IN  file.text = key /\ Tile(file.blocks, key, file.split) /\ Balanced(Len(key), file.split)

\* "Which tokens sit on which side is a function of the length alone" (server/prefix_cache.py:21):
\* restoring a checkpoint is then as good as a prefill.  It is so only where nothing is proposed: a
\* forward quantizes a group that the tokens it rejects have filled.
SplitIsOfLength ==
  /\ \A key \in DOMAIN cache.entries : cache.entries[key].split = Quantized(Len(key))
  /\ \A key \in DOMAIN cache.spilled : cache.spilled[key].split = Quantized(Len(key))

\* Blocks are shared: each counts at least one reference for every checkpoint that names it,
\* so that evicting one never takes a block from another (_BlockStore.acquire and release).
BlocksAreHeld ==
  \A k \in DOMAIN cache.store :
    cache.store[k].refs >=
      Cardinality({key \in DOMAIN cache.entries : k \in ToSet(cache.entries[key].blocks)})

\* What the entries hold fits the host tier, unless it is one checkpoint: the one a request has
\* read back stays however large it is (`protect` of _evict_to_fit).
HostTierFits ==
  LET held == UNION {ToSet(cache.entries[key].blocks) : key \in DOMAIN cache.entries}
      bytes == HostBytes([cache EXCEPT !.store = Without(@, DOMAIN @ \ held)])
  IN  bytes <= Capacity \/ Len(cache.order) = 1

\* The files fit the storage tier, whatever was read back, aged out again or lost (_spill).
StorageTierFits == SpilledBytes(cache, DOMAIN cache.spilled) <= SpillCapacity

\* Both tiers are in order: each lists what it holds once, blocks stay while they are named, and
\* the bytes fit.
StoreIsSound == TypeOK /\ BlocksAreHeld /\ HostTierFits /\ StorageTierFits

\* Before a pass the live cache holds a prefix of what was said, restored from whichever checkpoint
\* the index confirmed and cropped after every rejection (begin, SpeculativeDecoder.generate).
CacheFollowsTokens ==
  phase = "forward" => IsPrefix(live.text, tokens) /\ Tile(live.blocks, live.text, Split(live))

\* "never let bookkeeping fail a generation" (server/prefix_cache.py:798): a request does not end
\* on what the prefix cache raises.
BookkeepingNeverFails == phase # "failed"
================================================================================
