-------------------------------- MODULE Shards --------------------------------
(***************************************************************************)
(* Reading tensors out of the shards of one checkpoint directory           *)
(* (streaming/shards.py) and filling a layer's buffer from them            *)
(* (LayerLoader._fill).  The threads that ask for layers are the callers:  *)
(* the forward and the prefetch workers of the weight cache; the pool is   *)
(* the loader's own.  All of them go through a reader, of which the        *)
(* process keeps one registered for the directory.                         *)
(*                                                                         *)
(* A reader remembers the header of each shard (index), the shards it may  *)
(* only read through a mapping (mapped) and, for each thread, the mapped   *)
(* files that thread holds, oldest first (local).  A shard in Declined is  *)
(* one whose header parse_header refuses.  version counts the times a      *)
(* shard file was replaced; it stands for the size and the time of change  *)
(* a header is remembered by, and opened is the one a mapping is of.       *)
(***************************************************************************)
EXTENDS Naturals, FiniteSets, Sequences, FiniteSetsExt, SequencesExt

CONSTANTS
    Models,        \* the models that may be open on the directory
    Callers,       \* thread -> the model it works for
    Pool,          \* the threads of the loader's executor
    IoWorkers,     \* io_workers: how many batches a layer is read in
    Paths, Declined,
    Sizes,         \* path -> the sizes of its tensors in file order
    Settings,      \* what shard_handle_limit may be
    Machines,      \* what the profile and the live headroom may say of the host
    ReaderThreads, \* what the loader passes as readers
    MaxReaders, MaxRewrites, MaxFaults   \* bounds of the instance

ASSUME ShardsAssumption ==
    /\ DOMAIN Callers \cap Pool = {} /\ 0 \notin DOMAIN Callers
    /\ \A c \in DOMAIN Callers : Callers[c] \in Models
    /\ Declined \subseteq Paths
    /\ \A p \in Paths : Sizes[p] \in Seq(Nat) \ {<<>>}
    /\ \A s \in Settings : s.kind \in {"auto", "direct", "unbounded", "count"} /\ s.count \in Nat
    /\ \A m \in Machines : {m.headroom, m.largest, m.floor, m.ceiling} \subseteq Nat
    /\ IoWorkers \in Nat \ {0} /\ (IoWorkers > 1 => Pool # {})
    /\ ReaderThreads \in Nat \ {0} /\ MaxReaders \in Nat \ {0}
    /\ MaxRewrites \in Nat /\ MaxFaults \in Nat

Threads == DOMAIN Callers \cup Pool
None == 0
Ids == 1 .. MaxReaders

VARIABLES readers, registry, open, index, mapped, local, opened, version,
          pc, job, ix, queue, leased, got, failed, faults
tables == <<index, mapped, local, opened>>
loading == <<queue, leased, got, failed>>
vars == <<readers, registry, open, tables, version, pc, job, ix, loading, faults>>

Larger(a, b) == IF a > b THEN a ELSE b
Smaller(a, b) == IF a < b THEN a ELSE b

(***************************************************************************)
(* How a reader reads: by byte range, or mapped with so many files held    *)
(* (zero: as many as there are).  What may be held mapped is a share of    *)
(* the commit headroom the machine has now; a machine that does not charge *)
(* mappings, and a reader made without a profile, have no budget.          *)
(***************************************************************************)
Direct == [mode |-> "direct", limit |-> 0]
Mapped(limit) == [mode |-> "mapped", limit |-> limit]
Budget(m) == IF m.charges THEN m.headroom \div 2 ELSE 0
DirectOrBounded(m) ==
    IF m.little THEN Direct
    ELSE LET affordable == IF m.largest > 0 /\ Budget(m) > 0 THEN Budget(m) \div m.largest ELSE m.ceiling
         IN  Mapped(Larger(m.floor, Smaller(m.ceiling, affordable)))
Strategy(m, setting) ==
    CASE setting.kind = "unbounded" -> Mapped(0)
      [] setting.kind = "direct" -> DirectOrBounded(m)
      [] setting.kind = "count" -> IF setting.count = 0 THEN DirectOrBounded(m) ELSE Mapped(setting.count)
      [] setting.kind = "auto" ->
            IF Budget(m) = 0 \/ m.footprint <= Budget(m) THEN Mapped(0) ELSE DirectOrBounded(m)

(***************************************************************************)
(* The limit is shared out over the threads that read; one that gives less *)
(* than a handle to each is raised.                                        *)
(***************************************************************************)
PerThread(limit, threads) == IF limit = 0 THEN 0 ELSE Larger(1, limit \div threads)
\* Broken variant: a limit that gives no thread a handle is published as it is
BuiltAsAsked(strategy, threads) ==
    [mode |-> strategy.mode, per |-> PerThread(strategy.limit, threads), limit |-> strategy.limit]
Built(strategy, threads) ==
    LET per == PerThread(strategy.limit, threads)
    IN  [mode |-> strategy.mode, per |-> per, limit |-> Larger(strategy.limit, per * threads)]
DefaultReader == Built(Mapped(0), 1)

NoIndex == [kind |-> "none", stamp |-> 0, version |-> 0]
Init ==
    /\ readers = <<>>
    /\ registry = None
    /\ open = [m \in Models |-> None]
    /\ index = [r \in Ids |-> [p \in Paths |-> NoIndex]]
    /\ mapped = [r \in Ids |-> {}]
    /\ local = [r \in Ids |-> [t \in Threads |-> <<>>]]
    /\ opened = [r \in Ids |-> [t \in Threads |-> [p \in Paths |-> 0]]]
    /\ version = [p \in Paths |-> 0]
    /\ pc = [t \in Threads |-> "idle"]
    /\ job = [t \in Threads |-> <<>>]
    /\ ix = [t \in Threads |-> NoIndex]
    /\ queue = {} /\ leased = {} /\ failed = {}
    /\ got = [c \in DOMAIN Callers |-> {}]
    /\ faults = 0

-------------------------------------------------------------------------------
(***************************************************************************)
(* The registry.  A model that opens the directory replaces the reader     *)
(* that is there and releases it; one that closes takes its own out.  A    *)
(* release closes every handle and forgets every header.                   *)
(***************************************************************************)
\* Broken variant: a release forgets the headers and closes no handle
ReleasedHeaders(r) ==
    /\ UNCHANGED local
    /\ index' = IF r = None THEN index ELSE [index EXCEPT ![r] = [p \in Paths |-> NoIndex]]
    /\ mapped' = IF r = None THEN mapped ELSE [mapped EXCEPT ![r] = {}]
Released(r) ==
    /\ local' = IF r = None THEN local ELSE [local EXCEPT ![r] = [t \in Threads |-> <<>>]]
    /\ index' = IF r = None THEN index ELSE [index EXCEPT ![r] = [p \in Paths |-> NoIndex]]
    /\ mapped' = IF r = None THEN mapped ELSE [mapped EXCEPT ![r] = {}]
Configure(m) ==
    /\ open[m] = None
    /\ Len(readers) < MaxReaders
    /\ \E host \in Machines, s \in Settings : readers' = Append(readers, Built(Strategy(host, s), ReaderThreads))
    /\ registry' = Len(readers')
    /\ open' = [open EXCEPT ![m] = Len(readers')]
    /\ Released(registry)
    /\ UNCHANGED <<opened, version, pc, job, ix, loading, faults>>

Working(m) == {c \in DOMAIN Callers : Callers[c] = m /\ pc[c] # "idle"}
Close(m) ==
    /\ open[m] # None
    /\ Working(m) = {}
    /\ registry' = IF registry = open[m] THEN None ELSE registry
    /\ Released(open[m])
    /\ open' = [open EXCEPT ![m] = None]
    /\ UNCHANGED <<readers, opened, version, pc, job, ix, loading, faults>>

(***************************************************************************)
(* Two ways in: LayerLoader.load reads through the reader the model was    *)
(* opened with, the free functions of utils.py through the registered one, *)
(* making it when there is none.                                           *)
(***************************************************************************)
Job(r, p, tensors, for) == [reader |-> r, path |-> p, tensors |-> tensors, for |-> for]

(***************************************************************************)
(* A layer's reads are cut into adjacent stretches of the file, balanced   *)
(* by bytes: a tensor goes to the stretch the bytes before it have reached.*)
(***************************************************************************)
BytesBefore(p, i) == FoldSet(LAMBDA j, sum : sum + Sizes[p][j], 0, 1 .. i - 1)
Stretch(p, ways, i) ==
    LET n == Len(Sizes[p])
    IN  IF i = 1 THEN 1
        ELSE 1 + Cardinality({k \in 1 .. ways - 1 : BytesBefore(p, i) * ways >= BytesBefore(p, n + 1) * k})
Partition(p, ways) ==
    LET n == Len(Sizes[p])
        w == Larger(1, Smaller(ways, n))
    IN  {{i \in 1 .. n : Stretch(p, w, i) = k} : k \in 1 .. w} \ {{}}

Load(c, p) ==
    /\ pc[c] = "idle" /\ open[Callers[c]] # None
    /\ LET batches == Partition(p, IoWorkers)
           first == CHOOSE b \in batches : 1 \in b
           task(b) == Job(open[Callers[c]], p, b, c)
       IN  /\ job' = [job EXCEPT ![c] = task(first)]
           /\ queue' = queue \cup {task(b) : b \in batches \ {first}}
    /\ leased' = leased \cup {c}
    /\ pc' = [pc EXCEPT ![c] = "index"]
    /\ UNCHANGED <<readers, registry, open, tables, version, ix, got, failed, faults>>

ReadRows(c, p) ==
    /\ pc[c] = "idle" /\ open[Callers[c]] # None
    /\ registry = None => Len(readers) < MaxReaders
    /\ readers' = IF registry = None THEN Append(readers, DefaultReader) ELSE readers
    /\ registry' = IF registry = None THEN Len(readers') ELSE registry
    /\ job' = [job EXCEPT ![c] = Job(registry', p, {}, None)]
    /\ pc' = [pc EXCEPT ![c] = "index"]
    /\ UNCHANGED <<open, tables, version, ix, loading, faults>>

(***************************************************************************)
(* A pool thread takes a batch.                                            *)
(***************************************************************************)
Take(w) ==
    /\ w \in Pool /\ pc[w] = "idle"
    /\ \E j \in queue :
          /\ queue' = queue \ {j}
          /\ job' = [job EXCEPT ![w] = j]
    /\ pc' = [pc EXCEPT ![w] = "index"]
    /\ UNCHANGED <<readers, registry, open, tables, version, ix, leased, got, failed, faults>>

-------------------------------------------------------------------------------
(***************************************************************************)
(* One read, by the thread t.  The header comes from memory if its stamp   *)
(* still fits the file; parsing one and remembering it under the stamp the *)
(* read began with are two steps.                                          *)
(***************************************************************************)
R(t) == job[t].reader
P(t) == job[t].path
Goto(t, where) == pc' = [pc EXCEPT ![t] = where]
\* Broken variant: a remembered header is not compared with the file
FreshByPath(r, p) == index[r][p].kind # "none"
Fresh(r, p) == index[r][p].kind # "none" /\ index[r][p].stamp = version[p]
LookUp(t) ==
    /\ pc[t] = "index"
    /\ LET known == IF Fresh(R(t), P(t)) THEN index[R(t)][P(t)] ELSE NoIndex
       IN  /\ ix' = [ix EXCEPT ![t] = [known EXCEPT !.stamp = version[P(t)]]]
           /\ Goto(t, IF known = NoIndex THEN "parse" ELSE "choose")
    /\ UNCHANGED <<readers, registry, open, tables, version, job, loading, faults>>
ParseHeader(t) ==
    /\ pc[t] = "parse"
    /\ mapped' = [mapped EXCEPT ![R(t)] = IF P(t) \in Declined THEN @ \cup {P(t)} ELSE @]
    /\ ix' = [ix EXCEPT ![t] = [kind |-> IF P(t) \in Declined THEN "no offsets" ELSE "offsets",
                                stamp |-> ix[t].stamp, version |-> version[P(t)]]]
    /\ Goto(t, "store")
    /\ UNCHANGED <<readers, registry, open, index, local, opened, version, job, loading, faults>>
Remember(t) ==
    /\ pc[t] = "store"
    /\ index' = [index EXCEPT ![R(t)][P(t)] = ix[t]]
    /\ Goto(t, "choose")
    /\ UNCHANGED <<readers, registry, open, mapped, local, opened, version, job, ix, loading, faults>>
ByMapping(r, p) == readers[r].mode = "mapped" \/ p \in mapped[r]
Choose(t) ==
    /\ pc[t] = "choose"
    /\ Goto(t, IF ByMapping(R(t), P(t)) THEN "handle" ELSE "range")
    /\ UNCHANGED <<readers, registry, open, tables, version, job, ix, loading, faults>>

(***************************************************************************)
(* A mapped handle: the thread's own if it holds one, which becomes its    *)
(* newest, whatever has become of the file; otherwise the file is opened   *)
(* and then, above the limit, the oldest one closed.                       *)
(***************************************************************************)
Held(t) == local[R(t)][t]
Newest(seq, p) == Append(RemoveFirst(seq, p), p)
OverLimit(r, held) == readers[r].per > 0 /\ Len(held) > readers[r].per
OpenHandle(t) ==
    /\ pc[t] = "handle"
    /\ local' = [local EXCEPT ![R(t)][t] = Newest(@, P(t))]
    /\ opened' = IF P(t) \in ToSet(Held(t)) THEN opened
                 ELSE [opened EXCEPT ![R(t)][t][P(t)] = version[P(t)]]
    /\ Goto(t, IF OverLimit(R(t), Newest(Held(t), P(t))) THEN "evict" ELSE "mapping")
    /\ UNCHANGED <<readers, registry, open, index, mapped, version, job, ix, loading, faults>>
Evict(t) ==
    /\ pc[t] = "evict"
    /\ local' = [local EXCEPT ![R(t)][t] = IF @ = <<>> THEN @ ELSE Tail(@)]
    /\ Goto(t, "mapping")
    /\ UNCHANGED <<readers, registry, open, index, mapped, opened, version, job, ix, loading, faults>>

(***************************************************************************)
(* What a read gives: the bytes of the file as it is, other bytes, or an   *)
(* error.  By range the offsets of the header decide; a header taken from  *)
(* safetensors has none.  A mapping gives the file it was opened on, which *)
(* a replacement takes the name from and leaves as it was.  A handle that  *)
(* was closed underneath raises, and so may any read.                      *)
(***************************************************************************)
Outcome(t) ==
    CASE pc[t] = "range" -> IF ix[t].kind = "offsets" /\ ix[t].version = version[P(t)] THEN "bytes" ELSE "other"
      [] pc[t] = "mapping" -> IF P(t) \notin ToSet(Held(t)) THEN "error"
                              ELSE IF opened[R(t)][t][P(t)] = version[P(t)] THEN "bytes" ELSE "other"

(***************************************************************************)
(* The end of a read.  A batch of a layer reports to the caller whose      *)
(* buffer it filled; the caller waits for the other batches.               *)
(***************************************************************************)
Finish(t, outcome) ==
    LET c == job[t].for IN
    /\ got' = IF c # None /\ outcome = "bytes" THEN [got EXCEPT ![c] = @ \cup job[t].tensors] ELSE got
    /\ failed' = IF c # None /\ outcome = "error" THEN failed \cup {c} ELSE failed
    /\ Goto(t, CASE outcome = "other" -> "garbage"
                 [] outcome # "other" /\ t = c -> "wait"
                 [] OTHER -> "idle")
    /\ job' = IF pc'[t] = "idle" THEN [job EXCEPT ![t] = <<>>] ELSE job
    /\ ix' = IF outcome = "other" THEN ix ELSE [ix EXCEPT ![t] = NoIndex]
    /\ UNCHANGED <<readers, registry, open, tables, version, queue, leased>>
Read(t) == pc[t] \in {"range", "mapping"} /\ Finish(t, Outcome(t)) /\ UNCHANGED faults
ReadFails(t) ==
    /\ pc[t] \in {"range", "mapping"}
    /\ faults < MaxFaults /\ faults' = faults + 1
    /\ Finish(t, "error")

(***************************************************************************)
(* _fill returns, or raises what a batch raised, once every batch is done; *)
(* load then hands the buffer on or gives it back.                         *)
(***************************************************************************)
Batches(c) == {t \in Threads : t # c /\ pc[t] # "idle" /\ job[t].for = c}
\* Broken variant: a batch that raises is not waited for by the others
FilledEarly(c) ==
    /\ pc[c] = "wait"
    /\ c \in failed \/ (Batches(c) = {} /\ \A j \in queue : j.for # c)
    /\ Goto(c, IF c \in failed THEN "idle" ELSE "loaded")
    /\ leased' = IF c \in failed THEN leased \ {c} ELSE leased
    /\ failed' = failed \ {c}
    /\ UNCHANGED <<readers, registry, open, tables, version, job, ix, queue, got, faults>>
Filled(c) ==
    /\ pc[c] = "wait"
    /\ Batches(c) = {} /\ \A j \in queue : j.for # c
    /\ Goto(c, IF c \in failed THEN "idle" ELSE "loaded")
    /\ leased' = IF c \in failed THEN leased \ {c} ELSE leased
    /\ job' = IF c \in failed THEN [job EXCEPT ![c] = <<>>] ELSE job
    /\ got' = IF c \in failed THEN [got EXCEPT ![c] = {}] ELSE got
    /\ failed' = failed \ {c}
    /\ UNCHANGED <<readers, registry, open, tables, version, ix, queue, faults>>
Place(c) ==
    /\ pc[c] = "loaded"
    /\ leased' = leased \ {c}
    /\ Goto(c, "idle")
    /\ job' = [job EXCEPT ![c] = <<>>]
    /\ got' = [got EXCEPT ![c] = {}]
    /\ UNCHANGED <<readers, registry, open, tables, version, ix, queue, failed, faults>>

-------------------------------------------------------------------------------
(***************************************************************************)
(* A fused read asks for rows in any order, run of consecutive rows by     *)
(* run: position |-> first row and the row after the last.  What comes     *)
(* back is what was asked for, in its order.                               *)
(***************************************************************************)
RunsOf(rows) ==
    LET first == {i \in DOMAIN rows : i = 1 \/ rows[i] # rows[i - 1] + 1}
        last(i) == Max({j \in i .. Len(rows) : \A k \in i + 1 .. j : k \notin first})
    IN  [i \in first |-> <<rows[i], rows[last(i)] + 1>>]
Assembled(runs, i) ==
    LET start == Max({j \in DOMAIN runs : j <= i}) IN runs[start][1] + (i - start)
RowsInOrder(rows) ==
    LET runs == RunsOf(rows)
    IN  /\ \A i \in DOMAIN rows : Assembled(runs, i) = rows[i]
        /\ FoldSet(LAMBDA i, n : n + runs[i][2] - runs[i][1], 0, DOMAIN runs) = Len(rows)

-------------------------------------------------------------------------------
(***************************************************************************)
(* The surroundings: another process puts another file in the place of a   *)
(* shard, while it is read, mapped or at rest.                             *)
(***************************************************************************)
Rewrite(p) ==
    /\ SumFunctionOnSet(version, Paths) < MaxRewrites
    /\ version' = [version EXCEPT ![p] = @ + 1]
    /\ UNCHANGED <<readers, registry, open, tables, pc, job, ix, loading, faults>>
Step(t) == \/ LookUp(t) \/ ParseHeader(t) \/ Remember(t) \/ Choose(t)
           \/ OpenHandle(t) \/ Evict(t) \/ Read(t) \/ ReadFails(t)
Next ==
    \/ \E m \in Models : Configure(m) \/ Close(m)
    \/ \E c \in DOMAIN Callers, p \in Paths : Load(c, p) \/ ReadRows(c, p)
    \/ \E c \in DOMAIN Callers : Filled(c) \/ Place(c)
    \/ \E t \in Threads : Take(t) \/ Step(t)
    \/ \E p \in Paths : Rewrite(p)
Spec == Init /\ [][Next]_vars

-------------------------------------------------------------------------------
(***************************************************************************)
(* "A checkpoint rewritten under a running process is re-read rather than  *)
(* served from a stale index": a read gives the bytes of the tensor it     *)
(* names in the file that is there, unless the file was replaced since the *)
(* read began, or is read through a mapping this thread has held since     *)
(* before it was replaced.  No thread reads by range with a header that    *)
(* has no offsets, or with one of a file since replaced ("the caller gets  *)
(* the same bytes either way").                                            *)
(***************************************************************************)
Replaced(t) == ix[t].stamp # version[P(t)]
ThroughOldMapping(t) == P(t) \in ToSet(Held(t)) /\ opened[R(t)][t][P(t)] < ix[t].stamp
BytesAreTheirs == \A t \in Threads : pc[t] = "garbage" => Replaced(t) \/ ThroughOldMapping(t)

(***************************************************************************)
(* The sentence as it stands, of every read.  A handle is looked up by     *)
(* path alone: ShardsHeldMapping.cfg has a counterexample.                 *)
(***************************************************************************)
RewrittenIsReread == \A t \in Threads : pc[t] = "garbage" => Replaced(t)

(***************************************************************************)
(* A layer handed on has every one of its tensors, and a buffer goes back  *)
(* to the pool only when no thread will write into it any more, whichever  *)
(* of the batches raised.                                                  *)
(***************************************************************************)
LayerIsWhole ==
    /\ \A c \in DOMAIN Callers : pc[c] = "loaded" => got[c] = DOMAIN Sizes[job[c].path]
    /\ \A c \in DOMAIN Callers : (Batches(c) # {} \/ \E j \in queue : j.for = c) => c \in leased

(***************************************************************************)
(* The published limit holds over all the threads that read: above it are  *)
(* only files being swapped for another this moment.                       *)
(***************************************************************************)
HandleLimit ==
    \A r \in 1 .. Len(readers) : readers[r].limit > 0 /\ readers[r].mode = "mapped" =>
        SumFunctionOnSet([t \in Threads |-> Len(local[r][t])], Threads)
            <= readers[r].limit + Cardinality({t \in Threads : pc[t] = "evict"})

(***************************************************************************)
(* When no model is open nothing of the checkpoint is held: on Windows a   *)
(* mapped shard cannot be deleted.                                         *)
(***************************************************************************)
ClosedHoldsNothing ==
    (\A m \in Models : open[m] = None) =>
        registry = None /\ \A r \in Ids : \A t \in Threads : local[r][t] = <<>>
===============================================================================
