# A verification development for RocketLLM

RocketLLM runs a language model that does not fit on its device: the weights stay on disk and are
streamed through host memory to the device while the forward pass needs them, under a budget that
follows the free memory of the machine. Around that sit a quantized KV cache, a speculative
decoder, a cache of prompt prefixes and an HTTP server with one worker; before it, a checkpoint is
split into one file per layer and the machine is measured. This directory holds TLA+ models of those
parts, TLC configurations that check them on small instances, and proofs checked by TLAPS of what
matters most about them. Paths are relative to `src/rocketllm/`.

## 1. The system

### Components, their state and what makes them correct

| Component | State | Operations | Correct when |
|---|---|---|---|
| Weight cache (`memory/cache.py`, hooks in `base.py`) | entries with a tier, references, pins and popularity; two tiers with byte counters; reads in flight | acquire, release, prefetch, apply_plan, resize_device, clear, close | what a forward has claimed stays bound; counters are exact; capacities and policy hold; loops end |
| Staging pool and transfer (`streaming/staging.py`, `transfer.py`, `loader.py`) | pinned buffers with a leased flag and a byte budget; handles with a lease and an event; the list in flight | lease, release, send, resolve, reclaim, drain, clear, buffer | no buffer is reused under a copy; one owner each; none is lost |
| VRAM budget (`memory/budget.py`) | published target, streak, history of readings | measure, sample, reset, register_external | follows memory, not noise |
| Placement (`memory/placement.py`, `moe/expert_cache.py`) | use counts of experts, the pin plan | observe, on_router, plan_pins, replan | the plan fits; classes are absolute; no room is wasted |
| Quantized KV cache (`quant/kv_cache.py`) | quantized blocks and an exact residual window | update, crop | holds the tokens it was fed, less what was cropped |
| Speculative decoder (`spec/draft.py`) | tokens confirmed, proposals of the pass | generate | the cache holds a prefix of the sequence after every pass |
| Prefix cache (`server/prefix_cache.py`) | checkpoints in LRU order, refcounted blocks, an index, files on disk; per request the session with its memo of block identities | lookup, put, evict, spill, load, clear; begin, capture, finish | a checkpoint holds the tokens of its key; both tiers fit; blocks that are referenced exist |
| Server (`server/app.py`, `cli.py`) | deque, current job, counters; per job a cancel event, events, a sink that decodes | submit, work, emit, collect, watch, close | a stream is never contradicted; every reply ends; the worker ends |
| Layer loader and shard reader (`streaming/loader.py`, `shards.py`) | registry of open readers; per reader headers, declined shards and, by thread, mapped files | configure, read, read rows, release; load in batches on a pool | a read gives the bytes asked for; a layer is whole; handles stay under the limit and are let go |
| Mixtures (`moe/detect.py`, `router.py`, hooks in `base.py`) | what a layer's own hook loads and what is loaded by expert, by shared module or by row; the choice a router left | detect, hook, observe, take, place rows | whatever a module uses has been loaded by somebody, and no more experts than were chosen |
| Tool calls (`server/toolcalls.py`) | text so far, cursor, the open call, the fence | push, finish, in five syntaxes | a reply is read as it was meant wherever it is cut; the stream agrees with the response |
| Hardware profile (`hw/profile.py`) | a cache file by fingerprint; the knobs of a process | load_or_probe, derive, save | a profile in use has the identity of the machine; budgets fit |
| Splitting and persisters (`utils.py`, `persist/`) | units and markers on disk, shards left, a cursor, tensors in memory | split, link, copy, persist, mark, delete, and being killed | what is marked is whole; every tensor is in one unit |
| Conversion (`conversion.py`) | declared transforms | read as row arithmetic | an expert is merged only when all its sources are there |
| Quantization registry, capabilities, doctor, protocol, MLX back end, command line | none that changes | one-shot functions | see "Not modelled" |

### How they interact

```
 client --HTTP--> endpoints --submit--> RequestQueue --one worker--> PrefixSession --> generate
    ^                |  ^ events, cancel                                |                |
    +----- SSE ------+  +---- _Sink (decode, hold back, stop) <--put----+-- speculative loop
                                                                        |        |
                                                             prefix cache   quantized KV cache
 forward hooks --acquire/release--> weight cache --fetch--> loader --> shard reader --> split files
                                       |   ^                  |
                              placement|   |capacity, pins    +--> staging pool --> transfer --> device
                                       |   |
       VramBudget --on_change----------+---+---- router hooks (experts)

 checkpoint --split--> split files        machine --probe--> profile --derive--> budgets of all caches
 decoder layer --detect--> what is hooked: layer, expert, shared module, rows of a fused tensor
```

* Claims: the pre and post hooks of every streamed module call `acquire` and `release`; the cache
  calls back into the engine to place, keep and discard payloads.
* Buffers: a lease goes from the loader to a transfer handle and comes back through `resolve`,
  `reclaim` or `drain`, on whichever thread gets there first.
* Reads: a layer is read in batches by the thread that asked and by the loader's pool, all through a
  reader that the process keeps registered for the directory; the functions of `utils.py` use the
  same registry.
* Budget: `sample` runs at the first streamed module of a forward; `on_change` installs a new pin
  plan and then the new capacity.
* Server: events travel from the worker to the loop through `call_soon_threadsafe`, cancellation
  the other way through a `threading.Event`. With tools the sink pushes the text so far through the
  parser of the template's family.
* Profile: every process that starts reads or writes the same file; its knobs size the caches.
* Split files: a run of the splitter finds what an earlier one, killed or not, has left.

### Where it is hard

Concurrency: the lock of the pool is dropped in the middle of `lease`; handles are taken by several
threads; the worker emits while clients hang up and the server closes; a reader is shared by threads
and released by another. Ordering: a buffer must not be reused before its copy, a stop sequence is
found after part of it might have been sent, a rejected proposal is cropped after the streamer has
run, pins are released before a shrink. Failure: reads, placements, forwards, restores and disk
writes may raise anywhere; a split, a probe and a save may be killed between two writes, and what
they leave is found by the next process. Bounds: four byte budgets are counted by hand. Cutting: a
marker, a key or an escape may arrive in halves. Guessing: what a layer streams by expert or by row
is read off its structure, and a wrong guess is silent. `PROJECT.json` ("hazards") lists the places
by line.

## 2. Modules

| Module | Models | Checked by | Proofs |
|---|---|---|---|
| `Residency` | abstract: what the forward relies on (claimed weights are bound) | refined by WeightCache | |
| `WeightCache` | the tiered cache, its owner's callbacks, the forward's claims | `MCWeightCache` | `WeightCacheProofs` |
| `Staging` | pool, transfer, loader, engine packing | itself | `StreamingProofs` |
| `PrefixCache` | operators over the prefix cache's record | `Generation` | `GenerationProofs` |
| `Generation` | a session around a live cache and the speculative loop; composes PrefixCache, KV cache, decoder and the sink's early stop | `MCGeneration` | `GenerationProofs` |
| `Serving` | queue, worker, jobs, sink, endpoints, shutdown | `MCServing` | `ServingProofs` |
| `Placement` | budget, plan, expert counts, and what the engine does with them | `MCPlacement` | `PlanningProofs` |
| `Shards` | registry of readers, headers, handles, and a layer read in batches | `MCShards` | `ShardsProofs` |
| `LayerNames` | operators: the structure of a checkpoint from its tensor names | `Splitting` | `SplittingProofs` |
| `Splitting` | the splitter, the persister's files and markers, kills and restarts; composes LayerNames | `MCSplitting` | `SplittingProofs` |
| `ExpertLayout` | operators: experts, router and shared modules from a layer's structure | `Mixture` | `StreamingProofs` |
| `Mixture` | the hooks around a layer with a mixture, and the model that calls its modules; composes ExpertLayout | `MCMixture` | `StreamingProofs` |
| `ToolSyntax` | operators: spans, verdicts, fences and the five syntaxes | `ToolCalls` | `ServingProofs` |
| `ToolCalls` | the incremental parser, its deltas and the client that merges them; composes ToolSyntax | `MCToolCalls` | `ServingProofs` |
| `HardwareProfile` | operators: the policy, every derived knob, and the sizes an engine makes of them | `Startup` | `PlanningProofs` |
| `Startup` | processes that probe, save and reuse a profile on a machine that changes; composes HardwareProfile | `MCStartup` | `PlanningProofs` |
| `Collections` | nothing of the code: lemmas on finite sets, sums and sequences for the proofs | | itself |

### How state and steps correspond to the code

**WeightCache.** `tier`, `refcount`, `pinned`, `uses` and `inserted` are the fields of `CacheEntry`;
`inDevice` and `inHost` the two `_Tier` dicts with their byte counters; `pending` and
`pendingBytes` the reads in flight. Every public method holds one lock; a method with a loop is a
chain of steps, `job` says where it is, and nothing else may run meanwhile. `bound` and `hostCopy`
are the engine's payload, `claims` what the forward holds. A module is bound group by group: one
that a raise has stopped between two groups is in `partly`, bound in part and not known to the cache,
until a later placement of it succeeds. `inserted` keeps the order of the ordinals, `uses` is in
fixed point so that halving is exact. The order of the code is kept where it matters: a miss is
placed before room is made, a dense unit is admitted before it is claimed and the window is enforced
in between, `clear` replaces the table of reads by a plain dict. `Residency` is what the forward can
rely on: claimed weights are bound and stay so, unless the claim was granted while as many other
units as the window is wide were in use; such a claim is `bare` (finding 2).

**Staging.** One step per hold of a lock. `at`, `hold` and `task` are a thread's program counter,
the buffer it fills or is about to give back, and its locals. Copies finish in the order they were
issued, so a handle is its number and `fired` counts events. `async = FALSE` is a backend without
copy streams.

**Generation and PrefixCache.** The cache is one record; an operator per method. A hash chain is the
token sequence itself, so collisions are excluded. A pass is a forward (which feeds and calls the
observer) and a verdict (which shows tokens, then crops); the streamer may raise in between. Blocks
carry the tokens they were quantized from, which is what "changes a token" can be stated with.

**Serving.** A worker step ends where it emits or takes the lock, a loop step where a coroutine
awaits. Tokens are arbitrary; a codepoint may take two tokens and decodes to U+FFFD until both are
there. `StreamDecoder.push` is `Decode` over all tokens: its segments are cut at newlines only to
save time, at a boundary no tokenizer renders across. The sink with tools is `ToolCalls`.

**Placement.** Device memory is a pool; `others` is everything the cache does not hold. The cache
appears as capacity, pins and what is resident; which victim goes is WeightCache's question and any
choice here. Frequencies are exact fractions.

**Shards.** `pc[t]` is where a thread is in one read: `index`, `parse`, `store`, `choose`, then
`range`, or `handle`, `evict` and `mapping`; each is a stretch of `ShardReader` between two points at
which another thread may come in. `local[r][t]` is the reader's `_local` of that thread, oldest file
first. A caller's `load` cuts a layer into adjacent stretches, reads the first itself and leaves the
others to the pool (`queue`); `got`, `failed` and `leased` are what the buffer holds, whether a batch
raised, and whether the pool has it back. Another process may put another file under the name of a
shard at any moment; the name then has a new `version`, and a mapping stays that of the file it was
`opened` on. `ix[t]` is the header the thread goes on with, with the `stamp` of the file as the read
found it. What a read by range gives is decided by that header, what a mapped one gives by the
mapping, and bytes of another file or another tensor are `garbage`. That a file is rewritten in
place is not modelled, and whether the header of a shard is declined does not change with its file.
The rows of a fused read change no state: `RunsOf` and `Assembled` are operators, and `RowsCheck` of
`MCShards` evaluates them on every selection of up to four rows, unordered and repeated ones included.

**LayerNames and Splitting.** A name is the sequence of its dotted segments. `units` are the files of
the split directory with what they hold, `marks` the `.done` files, `ram` the state dict, `cursor`
the variable `shard` of the loop, `originals` what is left of the checkpoint. A step is one file
operation, so that `Die` can come between any two. A linked unit holds what its shard holds as long
as the shard is there, if the link is a symbolic one.

**ExpertLayout and Mixture.** A layer is the record of what the detector can see of each child
(numbered children, leading dimensions, what the shard stores) and of what the model does with it
(`routed`), which the detector cannot see. `Homed` is what the parameters of a module are made of:
of single experts merged into batched parameters these are the declared sources, and what else the
shard has of such an expert is dropped. `bound` is the set of tensors whose values are in the
modules' parameters, and every hook adds or removes exactly what it places or unbinds. The model may
walk all experts or only the chosen ones, in any order, and may never call its router's module.

**ToolSyntax and ToolCalls.** A text is a sequence of symbols: a marker is two, so that it can be cut
in halves, and quotes, brackets, backslashes and backticks are symbols. A turn of `_advance` is a
step. `client` is what a client has that merges deltas by index. `reply` carries what its text means,
written down with it and not read off it by the parser, which is what the parser is checked against.

**HardwareProfile and Startup.** Fractions are percentages, and bytes are small numbers. A
measurement is a record of what the machine is (`Facts`), of the memory available at the time and of
the storage rates of a probe. A file is named by a `Fingerprint`, which takes from the facts what
`profile.py:648-661` hashes (`Identity`: device, torch, device memory, host memory, cores) and leaves
out what it does not: the driver, the kernels that are installed, the link, the commit limit, the
storage. `files` is the cache directory, `pc[p]` where a process is in
`load_or_probe`; a save empties the file and then fills it. `Exit` is both an orderly end and a kill.

## 3. Runs

| Run | Instance and bounds | Shows |
|---|---|---|
| `cache_dense` | three dense units of sizes 1, 2, 1; capacities 0, 2, 4; host 2; a window of one and claims nested to 2, as a shared expert in its layer nests them; three plans; forwards that raise | a claim holds unless it was granted into a window full of units in use (`ClaimsHold`), only an exception strands a reference (`ReferencesAnswered`), host tier and reads in flight (`BooksAgree`, `PendingCapped`), capacity, termination, refinement of `Residency` |
| `cache_faults` | one dense unit, two experts; capacities 0, 2; reads fail, placements fail before or between groups, forwards raise; clear; close | tiers and counters, what is bound and what a failed placement has left bound, protection |
| `staging` | two threads, two buffers, two size classes, budget 3, two transfers, both backends, failing fills | nothing overwritten, one owner within the budget (`Accounted`), drain waits, operations end, buffers come back |
| `generation` | three requests over three prompts of a branching conversation, replies of 1 or 2, zero or one proposal, group 2, window 2, host tier of two or three checkpoints, storage of one or two, a disk that may fail, clear | checkpoints hold their tokens, quantized as far as a prefill, or a pass and its proposals, would quantize them (`Balanced`); blocks are held and both tiers fit (`StoreIsSound`), the live cache follows the tokens |
| `serving` | one client with any text of up to four tokens, in bursts of one or two, a stop of two characters and one that is a split codepoint; or two clients in turn; hang-ups, shutdown | text sent is never taken back, stream and reply agree, closing reaches all, replies end and the worker leaves (`EverythingEnds`) |
| `placement` | a dense layer, a shared expert, two routed ones on two layers; a pool of 12 with four loads; confirmation by two readings; three firings, aging every two | the plan fits and is maximal by class, a shrink is met at once, the budget settles |
| `shards` | a forward and a prefetch thread, one pool thread, two shards of three and two tensors, one with a declined header; a reader opened and closed, loads and reads of rows through it; a file replaced at any moment, at rest, half read or mapped; one read that fails; three settings on two machines, which give a reader by range and one that holds one file for each thread | bytes are those asked for, a layer is whole and its buffer kept while it is filled, handles stay under the limit, a closed model holds nothing |
| `splitting` | text, single-file, multimodal and `.bin` checkpoints of up to six shards; local or fetched; hard links, links or copies; deleting; three kills or failures; every one of the 26 initial states satisfies the conditions of the theorems (`Orderly`) | what is marked is whole, every tensor is in one unit, a split ends |
| `mixture` | thirteen layers of three experts, in 24 initial states: the three layouts, hidden routers, no top-k, a hint, quantized tensors, more stored of an expert than its batched module is made of, a model that never calls its router, a convolution that looks like experts; all of them `WellBuilt`, the condition of the theorems; two visits, one death | whatever a module uses is bound when it runs; rows read are the rows chosen |
| `toolcalls` | replies of one or two parts in five families: prose with half a marker, objects that are no call, code blocks, calls with brackets and quotes inside strings, arguments before the name, as a string, a number or a list; pieces of one symbol, two or all; an end anywhere | nothing sent has to be taken back, a reply is read as it was meant, the stream agrees with the response |
| `toolcalls_code_block` (violation) | a reply that is one block of Python with an object in it, whole or symbol by symbol | finding 1 |
| `startup` | two processes, three starts; four machines, two of which differ only in the kernels that are installed; two amounts of memory, three storages, two environments, two models, one change | a profile in use has the identity of its machine, whoever wrote the file and whatever was killed; budgets fit |

Why the bounds are enough. Every bound is a named constant and is reached in its run. Three dense
units over a window of one are the smallest instance in which a unit is in use, one is claimed inside
it and a third may be evicted, pinned or read ahead; claims nest deeper than the window is wide, so
that the case of finding 2 is in the run. Capacities 0, 2 and 4 of a total of 4 give a device that is
off, that overflows and that fits. Two buffers and two transfers are enough for a buffer to be claimed by a copy and by a thread at once, and the proof
removes the bound. Three requests are enough to store a checkpoint, evict or spill it, restore it
and store what follows. In `serving` texts and queueing are explored apart because the sink keeps
nothing between jobs: a burst, a split codepoint, a stop that straddles bursts and half a codepoint
left before it all fit in four tokens; two clients give queued, running and refused jobs. In `placement` the loads give readings
inside the band, outside it on either side, and none left. In `shards` three threads hold handles of
one reader, and one replacement gives a mapping, a header and a read that are each older or newer than
it; the four properties are proved for any number of readers, replacements and settings, and two
configurations below have a second reader and readers that hold every file. In `splitting` three faults are a kill of a run, one of the run that resumes
it, and one of the check that finds everything done; layers span two shards and share one. Two parts
of a reply bring every pair of syntax next to each other; a call is followed by prose, by another
call and by the end, and because the parser keeps nothing of a closed call but its index and the
cursor, a third part meets no state a second one does not. Three starts are one process that
writes, one that reads, and one that comes after the change.

`CHECK_DEADLOCK FALSE` stands where the system really stops: in `Generation.cfg` (all requests
served), `Serving.cfg` (all replies ended and the server stopped), `Splitting.cfg` (split and opened
for the last time), `Shards.cfg` (the model closed), `Mixture.cfg` (all visits made) and
`Startup.cfg` (no start left), and in most configurations below. Everywhere else deadlock is checked.

Every property of a passing run has a mutant: a one-definition change such as a dropped guard or a
swapped order, under a comment "Broken variant", with which the run must fail. So each property can
be broken by a bug in the code it speaks of.

### Counterexample configurations

These are kept beside the runs to show, with `tlc -config <cfg> <module>`, the states behind section
5; each is expected to fail.

| Configuration | Module | Instance | Violates | Finding |
|---|---|---|---|---|
| `WeightCacheNarrow` | `MCWeightCache` | window 1, a claim inside a claim, and no fault | `ClaimedIsBound` | 2 |
| `WeightCachePartialPlacement` | `MCWeightCache` | a placement that raises between two groups | `StoredIsUnbound` | 3 |
| `WeightCacheClearedReads` | `MCWeightCache` | clear, then read-ahead past the cap | `CapHolds` | 4 |
| `StagingLost` | `Staging` | the engine packs and packing raises | `OneOwner` | 5 |
| `GenerationLostBlocks` | `MCGeneration` | a host tier smaller than a checkpoint | `BookkeepingNeverFails` | 6 |
| `GenerationRejectedToken` | `MCGeneration` | stops with speculation | `EntriesHoldTheirTokens` | 7 |
| `GenerationReusedIdentity` | `MCGeneration` | restores that fail | `EntriesHoldTheirTokens` | 8 |
| `GenerationSplit` | `MCGeneration` | one request, one proposal, no fault | `SplitIsOfLength` | 9 |
| `ShardsTwoModels` | `MCShards` | two models on one directory | `BytesAreTheirs` | 10 |
| `ShardsHeldMapping` | `MCShards` | one model, one replaced file | `RewrittenIsReread` | 11 |
| `SplittingSkippedShard` | `MCSplitting` | a tower around a layer that is a shard | `DoneIsWhole` | 12 |
| `StartupStale` (TLC stops at the first) | `MCStartup` | memory used by others, or a package with kernels installed, between two starts | `LiveMemoryIsRespected`, `NothingIsStale` | 13, 14 |
| `MixtureTwoLists` | `MCMixture` | two lists of modules built alike | `UsedIsBound` | 15 |

### Fairness

* `WeightCache`: weak fairness of steps inside an operation. The thread that holds the lock waits
  for nothing but a read it starts itself.
* `Staging`: the device works through the copies it was given (`Fire`); a thread inside an operation
  runs on; the owner drains again and again, as `_end_generation` and `close` do. Strong fairness of
  `Drain(Owner)`, because the owner is often busy when it could drain.
* `Serving`: the worker thread runs on, and a coroutine whose wait is over is resumed. Nothing is
  assumed of clients or of shutdown. A generation ends because its budget is finite or it raises.
* `Placement`: every forward samples and forwards go on, which is what "follows" is about.
* `Splitting`: a process that is not killed works on, and one that ended is started again; kills are
  finite (`MaxFaults`). Nothing is assumed of their order.
* `Startup`: a process works on. No property of the run needs it.

`Shards`, `Mixture` and `ToolCalls` are checked for safety only: nothing in them waits but a caller
for its batches, and the end of a batch is the disk's.

## 4. Proofs

TLAPS proves the following for all values of the constants that satisfy the named assumptions.

**Collections.** The library's induction theorems take an operator as a parameter, which no
installed prover can instantiate. `SubsetInduction` states induction over a finite set with a set of
its subsets in the place of the predicate, and a property of a finite set is then the set of the
subsets that have it. From it follow that the recursive function behind `SumFunctionOnSet` exists
whatever order the sum takes (`AddsExists`, `AddsAgree`), and with it what the proofs need of sums:
`SumOfNone`, `SumAdd`, `SumRemove`, `SumMonotone`, `SumWithin`, `SumBound`. The rest is on the
sequences the models remove from (`RemoveAtPlaces`, `FirstPlace`, `RemoveFirstShortens`) and join:
`FlattenSeq` is a recursive function too, which `JoinsExists` shows to exist and `JoinsAgree` to depend
on the sequence alone, so that it types (`FlattenType`), appends and concatenates (`FlattenAppend`,
`FlattenConcat`).

**WeightCache** (`WeightCacheProofs`, from `CacheAssumption`)

* `Typed`: the type invariant.
* `BoundKnown`: `[]BoundIsKnown`, with every fault and owner call. It is not inductive: a step of an
  eviction knows its victim only by `job`, so `Coherent` adds `JobOK` (what the lock holder's place
  says about its key and victim) and `DictsOK` (the dicts agree with the tiers, but for the victim).
  `Leftover` says of `partly`, what a placement that raised has left bound, that it is only there
  where a placement may raise, and never of a module the cache knows to be bound.
* `Protection`: the action property `ProtectedStays` from the same invariant.
* `TiersInStep`: `[]TiersAgree`. To `Coherent` it adds `BytesAgree`, that both counters are the sums
  of the sizes in their dicts, between any two of the assignments that move a unit.
* `Fits`: the action property `WithinCapacity`. An operation that makes room stops only where nothing
  evictable is left, and until then evicts (`VictimExists`); ordinals of different units differ
  (`Apart`).
* `BooksKept`: `[]BooksAgree`. Of its parts `Hosted`, `ReadOnce` and `PendingCounted` are invariants of
  their own. Reads are counted as long as `clear` has not replaced the table (finding 4).
* `ReadsCapped`: the action property `PendingCapped`. A trim drops the oldest read as long as the sum
  is above the limit and more than one is left.
* `ClaimsKept`: the action property `ClaimsHold`, with no assumption on the window, on nesting or on
  what raises. The invariant `WindowOK` says that while the window is enforced the unit just admitted
  is the newest on the device. The heart is `WindowTakesTheNewest`: if the window evicts the unit
  being acquired, everything older in it is in use, and that is as many units as it is wide. So a
  claim without weights is only ever granted into a window full of units in use (`Crowded`); finding 2
  is that the code lets this happen.
* `Answered`: the action property `ReferencesAnswered`.
* `KeepsPromise`: `Spec => Residency!Spec`, again without such an assumption, with `resident` mapped
  to the bound units, `bare` to those claimed that the cache does not answer for, `crowd` to the units
  of the window that are in use. Initial states map to initial states, each step to a step or a
  stutter (`PromiseStep`).

**Staging** (`StreamingProofs`, from `StagingAssumption`)

* `NothingOverwritten`: `[]NeverOverwritten`, for any number of threads, buffers and transfers. The
  invariant adds that a buffer a thread holds is leased (`HeldIsLeased`), that no two holders share
  one (`Exclusive`), that a handle not complete still has its lease (`Guarded`), and that a filling
  thread has a buffer (`FillingHolds`).
* `DrainsWait`: the action property `DrainWaits`. The invariant `TaskInv` says that what a drain has
  taken so far is complete, or what it still waits for.
* `AccountsKept`: `[]Accounted` where no filler both raises and keeps its buffer
  (`~Faults \/ Packers = {}`; finding 5 is the rest). `HandInv` says where each buffer is: in one of
  the free lists, in one thread's hands or under one copy, and `Booked` that the counters are the
  sums over these places. Every action is one of four moves between them (`HandTake`,
  `HandCheckOut`, `HandBackKeeps`, `HandQuiet`).

**Generation** (`GenerationProofs`, from `PrefixCacheAssumption` and `GenerationAssumption`)

* `EntriesHold`, `CacheFollows` and `StoreSound`: `[]EntriesHoldTheirTokens`,
  `[]CacheFollowsTokens` and `[]StoreIsSound`, for any vocabulary, prompts, replies, block size,
  group, window and capacities, and a disk that fails when it likes. They are stated under
  `Reasonable`: no speculative request brings stop sequences (finding 7), no restore fails after it
  has moved a block (finding 8), and a pass proposes no more tokens than the window keeps exact.
  The last is what `quant/kv_cache.py:354-364` says of the crop; without it a rejected token may
  already be in a block.
* `SplitIsExact`: under the same conditions and with no proposals, `[]SplitIsOfLength`: a checkpoint is
  quantized as far as a prefill of its length, whatever it was restored from. With proposals
  `EntriesHold` still says that it is so of a length at most one pass's proposals longer
  (`Balanced`), and finding 9 that it is not exact. The invariant carries the boundary through
  feeding in any portions, capturing, restoring and cropping.
* The invariant has two halves. `Sound` is about the record of the prefix cache alone: an entry names
  blocks that are in the store, no block twice, and they tile its key up to its split (`EntryHolds`);
  a block has at least as many references as entries name it (`Held`); the files hold their tokens,
  are listed once and fit (`Filed`). `Fitting` is what the host tier has room for. Each method is
  shown to keep both: `SpillFiles`, `EvictKeeps`, `EvictToFitKeeps`, `PutKeeps`, `LoadKeeps`,
  `LookupKeeps`, `ClearKeeps`. The heart is `ReleaseKeeps`: a release takes a block out of the store
  only when no other entry names it, because an entry names a block once and every name is counted.
* `Session` adds the live cache: its blocks tile its text, the memo's keys are of those blocks if
  they are still in the store at all (`Remembers`), and how far the text has got in each phase
  (`Follows`). That the memo may name blocks that are gone is finding 6, and the invariant has to
  allow it: `PutKeeps` shows that a put which raises for it leaves the cache in order. `FeedKeeps`
  and `CropKeeps` say why a crop never reaches a block: what is quantized ends `Window` tokens
  before the end, and at most that many are taken back.
* The attempt corrected two statements the instances had been too small to refute. A checkpoint
  that is read back and alone exceeds the host tier was said to have its file still, but what is
  spilled to make room for it may push that file out of the storage tier: `HostTierFits` now asks
  only that it is the one checkpoint. And the live cache may be longer than the tokens shown, when
  one of several accepted tokens ends the sequence, which a lookahead of two reaches (`TypeOK`).

**Serving** (`ServingProofs`, from `ServingAssumption`)

* `ClosingReachesAll`: `[]ClosedIsCancelled` for any number of requests. The invariant adds the
  types and that a worker past `taken` has a job. `submit` refuses once the queue is closed, the
  worker only takes what was queued, and no step takes a cancellation back.
* `JobsEndOnce`: `[]TypeOK`. A job is queued once, taken once, concluded once (`Queued`) and counted
  when it is retired (`Counted`); a generation stays within its budget.
* `SentStays`: `[]NothingTakenBack` for any tokens, bursts and stop sequences and any number of
  clients, with hang-ups, failures and shutdown at any moment. The argument is the one of
  `server/app.py:201-206`, with the codepoints it leaves out. The text of more tokens begins as the
  text so far, but for at most one U+FFFD at its end that becomes a codepoint (`DecodeGrows`); so what
  stands of a text, all before the U+FFFDs at its end, goes on standing (`StableGrows`). While a
  generation runs (`Running`) its text has no stop sequence, and what was sent stops a hold-back short
  of what stands. A stop sequence that begins within what was sent would then lie in what stood
  already, and would have been found before: `StopComesLater`.
* `StreamsAgree`: `[]StreamIsAnswer` under the same conditions. The invariant `Stream` says what the
  events of each job may be at any time: deltas while it runs, then at most one Completed that the
  deltas before it tell in full (`Tells`), then the end. A delivery moves text from the events to what
  the client has and leaves their concatenation as it was (`DeliverStep`). Once the loop is closed it
  takes no events, and the job is cancelled and gets no Completed.
* The attempt corrected one statement. The stream was said to be the reply without the U+FFFDs at its
  end; with four tokens, two of them halves that never meet before a stop sequence, the first half is
  sent, because the stop's first character follows it, and the reply then ends in both.
  `StreamIsAnswer` now asks that the stream begins the reply and that only U+FFFDs are missing.

**Placement** (`PlanningProofs`, from `PlacementAssumption`)

* `PinsAreBest`: `[]PlanIsBest` for any units, sizes, classes, counts and budgets. The greedy fill
  of `plan_pins` is a recursive function on sets of candidates; `FillsExists` and `FillsAgree` show
  that it exists and does not depend on anything but the ranking, which is a strict order
  (`EarlierTransitive`; frequencies are compared as fractions) with a last element in every finite
  set (`HasLast`). `FillIsBest` is the induction: what was left out had no room beside what ranks
  before it. `Planned` keeps this for the plan in force, and `ReplannedAfter` for the moment in which
  every layer has routed and the experts begin to count.
* `ResizesFit`: the action property `ResizeFits`, from the same invariant.

**Shards** (`ShardsProofs`, from `ShardsAssumption`)

* `LayerComplete`: `[]LayerIsWhole` for any number of callers, pool threads, tensors, batches and
  models, with reads that fail. The invariant `LoadInv` says where each thread may be and for whom it
  works (`Typed`, `OwnWork`), that work is left only for a layer that is being loaded, whose buffer
  is leased (`InHand`), and that what has been read and what is still to be read together are the
  layer (`Covered`). `Covered` needs `PartitionIsAll`: the adjacent stretches a layer is cut into
  are all of its tensors, and one of them holds the first, which the caller reads itself.
* `ClosedLetsGo`: with one model on the directory, `[]ClosedHoldsNothing`. The invariant `Alone` says
  that the open reader is the registered one, that every read goes through it, and that no other has
  a handle. It does not hold of two models: the second would have to read, once the close of the first
  has emptied the registry, through a default reader that nothing releases.
* `BytesOfOne`: with one model on the directory, `[]BytesAreTheirs`, for any threads, refused headers
  and files replaced at any moment: a read gives the bytes of the tensor it names in the file that is
  there, unless the file was replaced since the read began or the thread reads through a mapping it
  opened before. To `Alone` the invariant `HeaderInv` adds that a header without offsets is of a shard
  the reader only reads mapped (`Marked`), and that the header a thread goes on with is one of the file
  its read found (`Knows`): a header is looked up with the stamp of the file, and a reader is released
  only when nobody reads. `ShardsTwoModels.cfg` shows why one model is needed, and
  `ShardsHeldMapping.cfg` that the case of the mapping is not empty.
* `HandlesBounded`: `[]HandleLimit` for any number of models, settings and machines, with no more
  threads than the reader is built for. Each thread keeps its own list within its share, evicting
  before it opens, and the shares sum to the limit, which `Built` raises where it is below one file
  for each thread.

**Startup** (`PlanningProofs`, from `StartupAssumption`)

* `ProfileIsOwn`: `[]OwnMachine` for any processes, machines, measurements and environments, and any
  kill: the device, torch, the sizes of both memories and the cores a profile in use names are those
  of the machine it is used on. It says nothing of the facts the fingerprint leaves out, and finding
  14 is that they may be stale. The invariant `ProfileInv` adds that a file is named by the fingerprint
  of its content, if it has content (`FilesAreNamed`), and that a process that is off has no profile.
* `BudgetsHold`: `[]BudgetsFit` for every measurement, where no override sets a share itself
  (`Modest`). Three shares of one remainder, each rounded down at its own place, stay within it; the
  reserve, the window and the host's headroom likewise.

**Splitting** (`SplittingProofs`, from `DigitsAssumption`)

* `UnitsWhole`: `OrderlySpec => []DoneIsWhole`, for any number of layers, shards, tensors, kills and
  restarts, local or fetched, linked, copied or deleted. `Orderly` is what is asked of the checkpoint:
  its layers are numbered (`Numbered`), no tensor name is under two modules and no module without
  tensors (`NamesFit`), and no one-per-shard module ends beyond the first shard of a later module
  that nothing earlier has reached (`LinksInOrder`). The last is what finding 12 violates, and its
  configuration starts from `Spec` without it.
* The invariant: a finished unit is whole (`Whole`) and is a file of the kind the split makes
  (`Kinds`); between two file operations the splitter is where it says it is (`AtWork`, `AtUnit`,
  `Rest`); every unit before the current one is marked (`Marked`), and what makes the theorem go
  through, `Walk`: the cursor has not gone past a shard that the current layer, or a later one, still
  needs, unless the tensors it has are in memory. There is one lemma for each operation; `AllIsHeld`
  is the step in which a layer is saved, and shows that memory then has all of its tensors.
* `SplitIsComplete`: `OrderlySpec /\ LinksHold => []SplitCovers`. That a name is in the file of one
  module only is `OneUnit`, from the structure of names. `LinksHold` excludes symbolic links to
  shards the same split deletes, after which the module's file holds nothing (section 5).

**Mixture** (`StreamingProofs`; no assumption on the constants)

* `UsedAreThere` and `OthersAreNotRead`: `WellBuiltSpec => []UsedIsBound` and
  `WellBuiltSpec => []OnlyRoutedAreRead`, for a layer of any modules and any number of experts in any
  layout, any routing and order of calls, any eviction of what nobody has claimed, and forwards that
  die anywhere. Batched parameters are merged from what the shard has of each expert, which may be more
  than the declared sources; that every row then has a home is `RowsAreHomed`. `WellBuilt` is what is asked of the
  layer:
  - a child is a list or has batched parameters, and experts are numbered (`ChildrenFit`);
  - one child passes for the experts, and the one a subclass names is a list (`OneMixture`; finding
    15 is what happens with two);
  - what is taken for shared is itself called (`SharedAreCalled`): a list of modules that is no
    container has no forward, so a hook on it would never load anything;
  - batched parameters used by the row have the model's scorer beside them and every row in the
    shard; batched parameters used whole have no sibling that reads their width and has as many
    scores (`RowsHaveScores`). That the detector then finds the scorer, and takes nothing else for
    experts, is proved and not assumed (`RouterIs`, `FusedIs`): with a detector that ignores what a
    router reads, the run fails.
* `UnitsApart` and `RowsApart` say that no tensor is in two units, so that an eviction takes from
  nobody else; `CallUses` and `FusedUses` that what a call uses is in its own unit, in that of the
  layer, or among the rows. The invariant adds that what is loaded is bound (`LoadedIsBound`), that
  the layer and the running module are claimed (`InForward`), that rows of the choice are there while
  the container runs (`RowsAreBound`), and `SelectionIsNew`: from the router's call to the
  container's the selection holds the choice of this forward or none, although a forward that died
  may have left an older one.

**Tool calls** (`ServingProofs`, from `BoundsAssumption` and `RepliesAssumption`, which says that a
reply is text and that a put brings some number of symbols)

* `StreamAgrees`: `ToolSpec => []ModesAgree` for any reply in any family's syntax or in none, cut
  anywhere and ended by the budget anywhere. The replies of the run are well formed but for where they
  end; the theorem also covers quotes that are never closed, objects that never name a function,
  markers in the wrong order and several names in one object.
* Whatever the parsers make of such a text, they point into it and name with parts of it
  (`Answers`, proved for each of the five in `FindCallType` and `NextInRegionType`). The search for an
  object without a marker goes forward only, which is why its answer exists (`LeapsExist` and
  `LeapsType` of `Collections`).
* The argument is that of `toolcalls.py:12-16`: what has been read of a value does not change when more
  comes. `SpanStays` shows it of the end of a value, from the escapes (`EscapedStays`) over the quotes
  (`QuotesStay`) and the brackets (`BracketsStay`) to the depth (`EndStays`); so what can be sent of the
  arguments only grows at its end (`ShownGrows`). The invariant says that of the open call the client
  has the first `sent` symbols of its arguments as they stand, and nothing of a call that is to be
  unquoted when it closes (`Underway`); that a name, and the place of the arguments, is not given up
  once found (`Carries`); and that the client's calls are numbered as they come (`Numbered`) and are
  those that are reported (`Agreed`). A fragment then completes what it is merged to (`SendIs`), and an
  object that closes without a name has sent nothing, so that its number is free (`CloseNamelessKeeps`).

What the prover cannot do stays with TLC: liveness (`OperationsEnd`, `AllReturned`,
`EverythingEnds`, `BudgetFollows`, `SplitEnds`). Of the invariants, `CannotBeUnprinted` and
`WrittenIsRead` are only model-checked: they compare with what a reply means, which is written down
with each reply of the run, and no theorem can say it of every text without a second parser to
define it.

Recursion over the places of a sequence needs for each definition what `PlanningProofs` does for the
plan and `GenerationProofs` for evictions: that a function with the recursive equations exists
(`WalkExists`), and an induction over its places. `SelectSeq` and the function operators `@@` and `:>`
of the TLC module cannot be expanded, so no theorem depends on what a definition with them computes
(the tag of a fence is such a one: `StreamAgrees` holds whatever it is).

## 5. What the models disagree with

Shown by the run `toolcalls_code_block` (`PROJECT.json`, "findings"):

1. `server/toolcalls.py:555`: the fence state is that of the end of the text, so an object that
   arrives together with the closing fence of its code block is served as a call.

Shown by the counterexample configurations of section 3:

2. `memory/cache.py:413`: the window takes the unit that is being acquired when as many others as it
   is wide are in use, and the module runs without weights. A window of one (`base.py:1487-1492`) and a
   shared expert claimed inside its layer (1259-1277) are enough, with no fault; the references a
   forward that raised has left behind, which `cache_dense` has too, are another way. "An acquired entry is refcounted and cannot
   be evicted underneath the forward that is reading it, which is the only hard invariant here"
   (97-100).
3. `base.py:929`: a placement binds group by group (888-932), and one that raises between two groups
   leaves the first bound. Nothing was recorded as moved (1822-1837) and no entry was made, so
   `clear()`, which is to "unbind it from whoever owns it" (`memory/cache.py:581`), passes it over; a
   later placement of the unit binds it again.
4. `memory/cache.py:348`: after `clear()` the table of reads is a plain dict; the first prefetch past
   the cap raises.
5. `base.py:963`: a layer that fails to pack loses its staging buffer.
6. `server/prefix_cache.py:803`: a checkpoint evicted by its own put leads to a KeyError inside the
   next forward.
7. `spec/draft.py:564`: a stop sequence in a speculative pass leaves a rejected token in the
   checkpoint of the turn.
8. `server/prefix_cache.py:752`: a failed restore leaves recycled identities that alias blocks.
9. `quant/kv_cache.py:339`: a group that the proposals of a pass have filled is quantized, and the crop
   of those rejected (354-383) does not undo it. The checkpoint then has quantized tokens where a
   prefill of its length keeps them exact: which side a token is on is not "a function of the length alone"
   (`server/prefix_cache.py:21-30`, which says that this "goes wrong quietly").
10. `streaming/shards.py:643`: a second model on the directory releases the reader the first one reads
    through (822, 773). Between the header and the choice of route a declined shard loses its mark,
    and is read by range from offset zero, though "the caller gets the same bytes either way" (31).
11. `streaming/shards.py:568`: an open file is looked up by its path alone. When a shard has been
    replaced, the header is read again and the mapping is not, and the new offsets, or names, are read
    in the old file, "so a checkpoint rewritten under a running process is re-read rather than served
    from a stale index" (483-484) holds of ranges only.
12. `utils.py:627`: linking a one-per-shard module takes the cursor past shards nobody has loaded, so
    a layer that spans such a shard is saved and marked without the tensors in it, which is what
    639-640 says the loop is there to prevent.
13. `hw/profile.py:1190`: on a cache hit the knobs are derived again from the memory that was
    available when the profile was measured, though they "depend on live free memory and on overrides,
    so they are recomputed even on a cache hit" (1187-1188).
14. `hw/profile.py:648`: the fingerprint (648-661, 1226-1239) has no driver or runtime version, no
    kernels (`fused_4bit`, triton), no commit limit, no link and no storage device but its path. A
    profile measured before a package with kernels was installed is used after it, though "a torch
    upgrade can change allocator behaviour and kernel availability, which changes what we would derive"
    (645-646) is why software is in it; `hw/doctor.py:150-153` knows that a driver change "would be
    invisible" in the profile.
15. `base.py:1241`: units of experts are named by layer and number. Two lists of modules built alike
    in one layer share their names, and the tensors of one are never loaded.

Smaller ones, seen in the models and not worth a configuration each:

* A unit evicted from the host tier is discarded with its payload already cleared
  (`memory/cache.py:550`), so the owner keeps its host copy.
* A device capacity of zero evicts nothing (459) although shrinking "evicts down to the new capacity
  immediately" (573); a promotion does not enforce the window (223); `prefetch_window` does not skip
  pinned units as its comment says (260).
* `drain` may return while another thread has a lease it has not given back yet
  (`streaming/transfer.py:257`). The copy has finished all the same.
* A `put` of a key that is there leaks the blocks captured for it past the cap
  (`server/prefix_cache.py:568`); the index keeps one tail per chain and length (575), so not always
  the longest stored prefix is found (513); a checkpoint as long as the prompt leaves nothing to feed
  (531).
* A stream whose client hangs up before its first chunk is never cancelled (`server/app.py:1144`):
  it is generated to its end for no one. `join` gives up after ten seconds (456), and the model is
  closed under whatever still runs.
* A device that is full when the cache is built gives the prefetch window a share of zero for the
  rest of the run (`base.py:1540`); later all memory goes to pins.
* Aging halves an expert's uses and not the visits they are divided by (`moe/expert_cache.py:139`).
* Handles are counted by thread, and a thread that ended keeps its share (`streaming/shards.py:568`):
  a model built on one thread and served on another holds more files than the limit it publishes.
* `remove_real_and_linked_file` takes every file for a link (`utils.py:152-158`): with
  `delete_original` on files that are none, the second removal raises. Where hard links fail and a
  symbolic one is made, deleting the original leaves it dangling. A shard is deleted while the
  tensors of an unfinished layer are only in memory (645): without a repository to fetch it from
  again, a kill loses them.
* A killed probe leaves its file beside the weights, and every later probe takes it for a shard
  (`hw/profile.py:372`).
* In one put, a bare call of Llama's followed by a tagged one is content; a fence next to an unfenced
  call is taken for its own; a fence inside arguments turns the fence state around; a call without
  arguments reports `{}` in one piece and nothing in a stream; a nameless object that closes during
  `finish` drops the text after it (`server/toolcalls.py:826`). A stop sequence inside arguments has
  already been streamed when the reply is truncated at it (`server/app.py:255-262`).
* Rows of a fused tensor are read by the highest raw scores (`moe/router.py:88`): a model that adds a
  bias or limits the groups after its router has scored uses others. Tensors of single experts that
  are no source of a declared transform have no home in a batched module and are dropped
  (`base.py:783`). A layer whose single experts nothing merges fails by name at its first forward
  and is not among the layers of the run (`Loads`).

## 6. Not modelled, and why

* Tensors, numeric codecs, dtypes, sampling distributions: data the properties do not tell apart.
* `quant/registry.py` and the quantized readers: a decision per tensor by its name and format, and
  kernels; no state that changes and nothing that interleaves.
* `server/protocol.py`, `multimodal.py`: parsing, validation and formatting of one request.
* `hw/caps.py`, `doctor.py`, and the measurements of `profile.py`: probes; what they answer is an
  input of `Startup`.
* `PinPlanner`: the engine does not use it.
* `conversion.py` as far as it applies a transform; compression, downloads as more than one step and
  the arithmetic of free space in `utils.py`.
* The MLX back end and its persister, the Baichuan tokenizer, model-specific subclasses: separate or
  vendored code.
* The draft's own cache and the lookahead controller: any choice of proposals in `Generation`.
* Statistics, reports, logging, HTTP formatting; estimated budget readings; `pin_policy="off"`.
* What `model.close()` does to a forward that outlives the ten seconds of `join` (`cli.py:317`):
  `Serving` reaches the state, `WeightCache` models close between two operations.

## 7. How it was built, and what is left

Modelled first was what every token depends on (cache, staging), then what spans requests
(generation, serving), then what decides residency (placement), then what the cache reads from
(shards, splitting), what the engine hooks (mixtures), what the sink sends (tool calls) and what sizes
it all (startup). Left, in this order:

1. An abstract prefix cache (a partial map from token sequences to themselves) that `Generation`
   refines; `GenerationProofs` has what its steps need.
2. `Shards` composed with `Staging`: one buffer pool under both.
3. The draft's own cache and the lookahead controller, refining the choice of proposals in
   `Generation`.
4. A grammar of well-formed replies, as a definition, and `WrittenIsRead` as a theorem about it, one
   syntax at a time.
