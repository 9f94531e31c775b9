----------------------------- MODULE ShardsProofs -----------------------------
(***************************************************************************)
(* A layer is handed on whole and its buffer is kept while anybody writes  *)
(* into it, for any number of threads, shards, tensors and batches; and,   *)
(* with one model on the directory, a closed model holds no file and every *)
(* read gives its own bytes.  With any number of models, the threads       *)
(* together hold no more files than the limit that is published.           *)
(***************************************************************************)
EXTENDS Shards, Collections, FiniteSetTheorems, TLAPS

AllCallers == DOMAIN Callers
Reading == {"index", "parse", "store", "choose", "handle", "evict", "range", "mapping", "garbage"}
Places == Reading \cup {"idle", "wait", "loaded"}
Jobs == [reader : Nat, path : Paths, tensors : SUBSET Nat, for : AllCallers \cup {None}]

Typed ==
    /\ pc \in [Threads -> Places]
    /\ job = [t \in Threads |-> job[t]]
    /\ \A t \in Threads : pc[t] # "idle" => job[t] \in Jobs
    /\ queue \subseteq Jobs
    /\ got \in [AllCallers -> SUBSET Nat]
    /\ leased \subseteq AllCallers /\ failed \subseteq AllCallers

\* A thread of the pool reads a batch of a caller's layer; a caller reads a batch of its own, or
\* rows for nobody.
OwnWork ==
    /\ \A t \in Pool : pc[t] \in Reading \cup {"idle"}
    /\ \A t \in Pool : pc[t] # "idle" => job[t].for \in AllCallers
    /\ \A c \in AllCallers : pc[c] # "idle" => job[c].for \in {c, None}
    /\ \A c \in AllCallers : pc[c] \in {"wait", "loaded"} => job[c].for = c
    /\ \A j \in queue : j.for \in AllCallers

Loading(c) == pc[c] # "idle" /\ job[c].for = c

\* The batches of c's layer that somebody still has to read.
Work(c) == {j \in queue : j.for = c} \cup {job[t] : t \in {w \in Pool : pc[w] # "idle" /\ job[w].for = c}}
           \cup (IF Loading(c) /\ pc[c] \in Reading THEN {job[c]} ELSE {})

\* There is work only for a layer that is being loaded, and a buffer is leased just as long.
InHand ==
    /\ \A c \in AllCallers : Work(c) # {} => Loading(c) /\ pc[c] # "loaded"
    /\ leased = {c \in AllCallers : Loading(c)}
    /\ \A c \in AllCallers : (~Loading(c) => got[c] = {}) /\ (c \in failed => Loading(c) /\ pc[c] # "loaded")

\* What has been read and what is still to be read is the layer.
Covered ==
    \A c \in AllCallers : Loading(c) /\ c \notin failed =>
        DOMAIN Sizes[job[c].path] = got[c] \cup UNION {j.tensors : j \in Work(c)}

LoadInv == Typed /\ OwnWork /\ InHand /\ Covered

(***************************************************************************)
(* The stretches of a shard are all of it.                                 *)
(***************************************************************************)
LEMMA LastStretch ==
  ASSUME NEW p \in Paths, NEW w \in Nat \ {0}, NEW i \in 1 .. Len(Sizes[p])
  PROVE  Stretch(p, w, i) \in 1 .. w
<1> DEFINE passed == {k \in 1 .. w - 1 : BytesBefore(p, i) * w >= BytesBefore(p, Len(Sizes[p]) + 1) * k}
<1>1. IsFiniteSet(1 .. w - 1) /\ Cardinality(1 .. w - 1) = w - 1
  <2>1. 1 \in Int /\ w - 1 \in Int OBVIOUS
  <2>2. IsFiniteSet(1 .. w - 1) /\ Cardinality(1 .. w - 1) = IF 1 > w - 1 THEN 0 ELSE (w - 1) - 1 + 1
    BY <2>1, FS_Interval
  <2> QED BY <2>2
<1>2. passed \subseteq 1 .. w - 1 OBVIOUS
<1>3. IsFiniteSet(passed) /\ Cardinality(passed) <= w - 1 BY <1>1, <1>2, FS_Subset
<1>4. Cardinality(passed) \in Nat BY <1>3, FS_CardinalityType
<1>5. Stretch(p, w, i) = IF i = 1 THEN 1 ELSE 1 + Cardinality(passed) BY DEF Stretch
<1> HIDE DEF passed
<1> QED BY <1>3, <1>4, <1>5

\* The batches of a shard together are all of its tensors, and one of them holds the first.
LEMMA PartitionIsAll ==
  ASSUME NEW p \in Paths, NEW ways \in Nat \ {0}
  PROVE  /\ UNION Partition(p, ways) = DOMAIN Sizes[p]
         /\ \A b \in Partition(p, ways) : b \subseteq Nat
         /\ \E b \in Partition(p, ways) : 1 \in b
<1> DEFINE n == Len(Sizes[p])
<1> DEFINE w == Larger(1, Smaller(ways, n))
<1> DEFINE at(k) == {i \in 1 .. n : Stretch(p, w, i) = k}
<1>1. n \in Nat \ {0} /\ DOMAIN Sizes[p] = 1 .. n BY ShardsAssumption DEF ShardsAssumption
<1>2. w \in Nat \ {0} BY <1>1 DEF Larger, Smaller
<1>3. Partition(p, ways) = {at(k) : k \in 1 .. w} \ {{}} BY DEF Partition
<1>4. \A i \in 1 .. n : Stretch(p, w, i) \in 1 .. w
  <2> HIDE DEF w
  <2> QED BY <1>2, LastStretch
<1> HIDE DEF w, n
<1>5. \A i \in 1 .. n : i \in at(Stretch(p, w, i)) /\ at(Stretch(p, w, i)) \in Partition(p, ways)
  BY <1>3, <1>4
<1>6. \A b \in Partition(p, ways) : b \subseteq 1 .. n BY <1>3
<1>7. UNION Partition(p, ways) = 1 .. n BY <1>5, <1>6
<1>8. 1 \in UNION Partition(p, ways)
  <2> HIDE DEF at
  <2> QED BY <1>1, <1>7
<1>9. \A b \in Partition(p, ways) : b \subseteq Nat BY <1>6
<1> QED BY <1>1, <1>7, <1>8, <1>9 DEF n

(***************************************************************************)
(* The invariant.                                                          *)
(***************************************************************************)
\* A step of a read changes where its thread is and nothing of the layer.
LEMMA ReadingKeeps ==
  ASSUME LoadInv, NEW t \in Threads, NEW q \in Reading,
         pc[t] \in Reading, Goto(t, q), UNCHANGED <<job, loading>>
  PROVE  LoadInv'
<1>1. pc' \in [Threads -> Places] /\ \A u \in Threads : (pc'[u] = pc[u] \/ (u = t /\ pc'[u] \in Reading))
  BY DEF LoadInv, Typed, Goto, Places, Reading
<1>2. \A u \in Threads : pc'[u] = "idle" <=> pc[u] = "idle" BY <1>1 DEF Reading
<1>3. \A u \in Threads : pc'[u] \in Reading <=> pc[u] \in Reading BY <1>1
<1>4. \A u \in Threads : (pc'[u] = "loaded" <=> pc[u] = "loaded") /\ (pc'[u] = "wait" <=> pc[u] = "wait")
  BY <1>1 DEF Reading
<1>5. UNCHANGED <<job, queue, leased, got, failed>> BY DEF loading
<1>6. AllCallers \subseteq Threads /\ Pool \subseteq Threads BY DEF Threads, AllCallers
<1>7. \A c \in AllCallers : (Loading(c)' <=> Loading(c)) /\ Work(c)' = Work(c)
  BY <1>2, <1>3, <1>5, <1>6 DEF Loading, Work
<1>8. Typed' BY <1>1, <1>2, <1>5 DEF LoadInv, Typed
<1>9. OwnWork' BY <1>1, <1>2, <1>3, <1>4, <1>5, <1>6 DEF LoadInv, OwnWork
<1>10. InHand' BY <1>4, <1>5, <1>6, <1>7 DEF LoadInv, InHand
<1>11. Covered' BY <1>5, <1>7 DEF LoadInv, Covered
<1> QED BY <1>8, <1>9, <1>10, <1>11 DEF LoadInv

\* Steps that touch no read.
LEMMA ElsewhereKeeps ==
  ASSUME LoadInv, UNCHANGED <<pc, job, loading>>
  PROVE  LoadInv'
<1>1. UNCHANGED <<pc, job, queue, leased, got, failed>> BY DEF loading
<1>2. \A c \in AllCallers : (Loading(c)' <=> Loading(c)) /\ Work(c)' = Work(c) BY <1>1 DEF Loading, Work
<1>3. Typed' /\ OwnWork' BY <1>1 DEF LoadInv, Typed, OwnWork
<1>4. InHand' BY <1>1, <1>2 DEF LoadInv, InHand
<1>5. Covered' BY <1>1, <1>2 DEF LoadInv, Covered
<1> QED BY <1>3, <1>4, <1>5 DEF LoadInv

\* Nobody is both a caller and a thread of the pool.
LEMMA CallersAndPool == Threads = AllCallers \cup Pool /\ AllCallers \cap Pool = {} /\ None \notin AllCallers
BY ShardsAssumption DEF ShardsAssumption, Threads, AllCallers, None

\* A layer begins: all of it is to be read, in batches.
LEMMA LoadKeeps ==
  ASSUME LoadInv, NEW c \in AllCallers, NEW p \in Paths, Load(c, p), open \in [Models -> Nat],
         Callers[c] \in Models
  PROVE  LoadInv'
<1> DEFINE batches == Partition(p, IoWorkers)
           first == CHOOSE b \in batches : 1 \in b
           task(b) == Job(open[Callers[c]], p, b, c)
<1>1. /\ UNION batches = DOMAIN Sizes[p] /\ \A b \in batches : b \subseteq Nat
      /\ first \in batches
  BY PartitionIsAll, ShardsAssumption DEF ShardsAssumption
<1> HIDE DEF batches, first
<1>2. \A b \in batches : task(b) \in Jobs /\ task(b).for = c /\ task(b).tensors = b /\ task(b).path = p
  BY <1>1 DEF Job, Jobs
<1>3. /\ pc[c] = "idle" /\ pc' = [pc EXCEPT ![c] = "index"]
      /\ job' = [job EXCEPT ![c] = task(first)]
      /\ queue' = queue \cup {task(b) : b \in batches \ {first}}
      /\ leased' = leased \cup {c} /\ UNCHANGED <<got, failed>>
  BY DEF Load, Goto, batches, first
<1> HIDE DEF task
<1>4. c \in Threads BY CallersAndPool
<1>5. ~Loading(c) /\ Work(c) = {} /\ got[c] = {} /\ c \notin failed BY <1>3 DEF LoadInv, InHand, Loading
<1>6. \A u \in Threads \ {c} : pc'[u] = pc[u] /\ job'[u] = job[u] BY <1>3 DEF LoadInv, Typed
<1>7. pc'[c] = "index" /\ job'[c] = task(first) BY <1>3, <1>4 DEF LoadInv, Typed
<1>8. \A d \in AllCallers \ {c} : (Loading(d)' <=> Loading(d)) /\ Work(d)' = Work(d)
  BY <1>1, <1>2, <1>3, <1>6, CallersAndPool DEF Loading, Work
<1>9. Loading(c)' /\ Work(c)' = {task(b) : b \in batches}
  <2>1. Loading(c)' BY <1>1, <1>2, <1>7 DEF Loading
  <2>2. {j \in queue' : j.for = c} = {task(b) : b \in batches \ {first}}
    BY <1>2, <1>3, <1>5 DEF Work
  <2>3. {job'[t] : t \in {w \in Pool : pc'[w] # "idle" /\ job'[w].for = c}} = {}
    BY <1>5, <1>6, CallersAndPool DEF Work
  <2>4. Work(c)' = {task(b) : b \in batches \ {first}} \cup {task(first)}
    BY <2>1, <2>2, <2>3, <1>7 DEF Work, Reading
  <2> QED BY <1>1, <2>1, <2>4
<1>10. Typed'
  <2>1. pc' \in [Threads -> Places] BY <1>3 DEF LoadInv, Typed, Places, Reading
  <2>2. job' = [t \in Threads |-> job'[t]] BY <1>3 DEF LoadInv, Typed
  <2>3. \A t \in Threads : pc'[t] # "idle" => job'[t] \in Jobs BY <1>1, <1>2, <1>6, <1>7 DEF LoadInv, Typed
  <2>4. queue' \subseteq Jobs BY <1>2, <1>3 DEF LoadInv, Typed
  <2>5. leased' \subseteq AllCallers BY <1>3 DEF LoadInv, Typed
  <2> QED BY <1>3, <2>1, <2>2, <2>3, <2>4, <2>5 DEF LoadInv, Typed
<1>11. OwnWork'
  <2>1. \A j \in queue' : j.for \in AllCallers BY <1>2, <1>3 DEF LoadInv, OwnWork
  <2>2. job'[c].for = c BY <1>1, <1>2, <1>7
  <2>3. \A t \in Pool : pc'[t] = pc[t] /\ job'[t] = job[t] BY <1>6, CallersAndPool
  <2>4. \A d \in AllCallers \ {c} : pc'[d] = pc[d] /\ job'[d] = job[d] BY <1>6, CallersAndPool
  <2> QED BY <1>7, <2>1, <2>2, <2>3, <2>4 DEF LoadInv, OwnWork
<1>12. InHand'
  <2>1. leased' = {d \in AllCallers : Loading(d)'} BY <1>3, <1>8, <1>9 DEF LoadInv, InHand
  <2>2. \A d \in AllCallers : Work(d)' # {} => Loading(d)' /\ pc'[d] # "loaded"
    BY <1>6, <1>7, <1>8, <1>9, CallersAndPool DEF LoadInv, InHand
  <2>3. \A d \in AllCallers : (~Loading(d)' => got'[d] = {})
                              /\ (d \in failed' => Loading(d)' /\ pc'[d] # "loaded")
    BY <1>3, <1>5, <1>6, <1>8, <1>9, CallersAndPool DEF LoadInv, InHand
  <2> QED BY <2>1, <2>2, <2>3 DEF InHand
<1>13. Covered'
  <2>1. UNION {j.tensors : j \in Work(c)'} = UNION batches BY <1>2, <1>9
  <2>2. DOMAIN Sizes[job'[c].path] = got'[c] \cup UNION {j.tensors : j \in Work(c)'}
    BY <1>1, <1>2, <1>3, <1>5, <1>7, <2>1
  <2>3. \A d \in AllCallers \ {c} : job'[d] = job[d] BY <1>6, CallersAndPool
  <2> QED BY <1>3, <1>8, <2>2, <2>3 DEF LoadInv, Covered
<1> QED BY <1>10, <1>11, <1>12, <1>13 DEF LoadInv

\* Rows of a fused tensor are read for nobody's layer.
LEMMA ReadRowsKeeps ==
  ASSUME LoadInv, NEW c \in AllCallers, NEW p \in Paths, ReadRows(c, p), registry' \in Nat
  PROVE  LoadInv'
<1>1. /\ pc[c] = "idle" /\ pc' = [pc EXCEPT ![c] = "index"]
      /\ job' = [job EXCEPT ![c] = Job(registry', p, {}, None)]
      /\ UNCHANGED <<queue, leased, got, failed>>
  BY DEF ReadRows, Goto, loading
<1>2. c \in Threads BY CallersAndPool
<1>3. Job(registry', p, {}, None) \in Jobs /\ Job(registry', p, {}, None).for = None BY DEF Job, Jobs
<1>4. \A u \in Threads \ {c} : pc'[u] = pc[u] /\ job'[u] = job[u] BY <1>1 DEF LoadInv, Typed
<1>5. pc'[c] = "index" /\ job'[c] \in Jobs /\ job'[c].for = None BY <1>1, <1>2, <1>3 DEF LoadInv, Typed
<1>6. ~Loading(c) /\ ~Loading(c)' BY <1>1, <1>5, CallersAndPool DEF Loading
<1>7. \A d \in AllCallers : (Loading(d)' <=> Loading(d)) /\ Work(d)' = Work(d)
  <2>1. \A t \in Pool : pc'[t] = pc[t] /\ job'[t] = job[t] BY <1>4, CallersAndPool
  <2>2. \A d \in AllCallers \ {c} : pc'[d] = pc[d] /\ job'[d] = job[d] BY <1>4, CallersAndPool
  <2> QED BY <1>1, <1>6, <2>1, <2>2 DEF Loading, Work
<1>8. Typed'
  <2>1. pc' \in [Threads -> Places] BY <1>1 DEF LoadInv, Typed, Places, Reading
  <2>2. job' = [t \in Threads |-> job'[t]] BY <1>1 DEF LoadInv, Typed
  <2>3. \A t \in Threads : pc'[t] # "idle" => job'[t] \in Jobs BY <1>4, <1>5 DEF LoadInv, Typed
  <2> QED BY <1>1, <2>1, <2>2, <2>3 DEF LoadInv, Typed
<1>9. OwnWork' BY <1>1, <1>4, <1>5, CallersAndPool DEF LoadInv, OwnWork
<1>10. InHand' BY <1>1, <1>4, <1>6, <1>7, CallersAndPool DEF LoadInv, InHand
<1>11. Covered'
  <2>1. \A d \in AllCallers \ {c} : job'[d] = job[d] BY <1>4, CallersAndPool
  <2> QED BY <1>1, <1>6, <1>7, <2>1 DEF LoadInv, Covered
<1> QED BY <1>8, <1>9, <1>10, <1>11 DEF LoadInv

\* A batch goes from the queue to a thread of the pool and stays the same work.
LEMMA TakeKeeps ==
  ASSUME LoadInv, NEW w \in Pool, Take(w)
  PROVE  LoadInv'
<1>1. PICK j \in queue : queue' = queue \ {j} /\ job' = [job EXCEPT ![w] = j] BY DEF Take
<1>2. pc[w] = "idle" /\ pc' = [pc EXCEPT ![w] = "index"] /\ UNCHANGED <<leased, got, failed>>
  BY DEF Take, Goto
<1>3. j \in Jobs /\ j.for \in AllCallers BY <1>1 DEF LoadInv, Typed, OwnWork
<1>4. \A u \in Threads \ {w} : pc'[u] = pc[u] /\ job'[u] = job[u] BY <1>1, <1>2 DEF LoadInv, Typed
<1>5. pc'[w] = "index" /\ job'[w] = j BY <1>1, <1>2, CallersAndPool DEF LoadInv, Typed
<1>6. \A d \in AllCallers : pc'[d] = pc[d] /\ job'[d] = job[d] /\ (Loading(d)' <=> Loading(d))
  BY <1>4, CallersAndPool DEF Loading
<1>7. \A d \in AllCallers : Work(d)' = Work(d)
  <2> SUFFICES ASSUME NEW d \in AllCallers PROVE Work(d)' = Work(d) OBVIOUS
  <2> DEFINE inPool == {job[t] : t \in {v \in Pool : pc[v] # "idle" /\ job[v].for = d}}
             mine == IF j.for = d THEN {j} ELSE {}
  <2>1. inPool' = inPool \cup mine
    <3>1. \A t \in Pool \ {w} : pc'[t] = pc[t] /\ job'[t] = job[t] BY <1>4, CallersAndPool
    <3> QED BY <1>2, <1>5, <3>1
  <2>2. {k \in queue' : k.for = d} \cup mine = {k \in queue : k.for = d} BY <1>1
  <2> HIDE DEF inPool, mine
  <2>3. Work(d) = {k \in queue : k.for = d} \cup inPool \cup (IF Loading(d) /\ pc[d] \in Reading THEN {job[d]} ELSE {})
    BY DEF Work, inPool
  <2>4. Work(d)' = {k \in queue' : k.for = d} \cup inPool' \cup (IF Loading(d) /\ pc[d] \in Reading THEN {job[d]} ELSE {})
    BY <1>6 DEF Work, inPool
  <2> QED BY <2>1, <2>2, <2>3, <2>4
<1>8. Typed'
  <2>1. pc' \in [Threads -> Places] BY <1>2 DEF LoadInv, Typed, Places, Reading
  <2>2. job' = [t \in Threads |-> job'[t]] BY <1>1 DEF LoadInv, Typed
  <2>3. \A t \in Threads : pc'[t] # "idle" => job'[t] \in Jobs BY <1>3, <1>4, <1>5 DEF LoadInv, Typed
  <2> QED BY <1>1, <1>2, <2>1, <2>2, <2>3 DEF LoadInv, Typed
<1>9. OwnWork' BY <1>1, <1>3, <1>4, <1>5, <1>6, CallersAndPool DEF LoadInv, OwnWork, Reading
<1>10. InHand' BY <1>2, <1>6, <1>7 DEF LoadInv, InHand
<1>11. Covered' BY <1>2, <1>6, <1>7 DEF LoadInv, Covered
<1> QED BY <1>8, <1>9, <1>10, <1>11 DEF LoadInv

\* Whoever reads for a layer is part of its work.
LEMMA ReaderWorks ==
  ASSUME LoadInv, NEW t \in Threads, pc[t] \in Reading, job[t].for # None
  PROVE  /\ job[t].for \in AllCallers /\ job[t] \in Work(job[t].for) /\ job[t].tensors \in SUBSET Nat
         /\ Loading(job[t].for) /\ pc[job[t].for] # "loaded"
<1>1. pc[t] # "idle" BY DEF Reading
<1>2. job[t].for \in AllCallers /\ job[t].tensors \in SUBSET Nat BY <1>1 DEF LoadInv, Typed, Jobs
<1>3. CASE t \in Pool
  <2>1. job[t] \in Work(job[t].for) BY <1>1, <1>3 DEF Work
  <2> QED BY <1>2, <2>1 DEF LoadInv, InHand
<1>4. CASE t \in AllCallers
  <2>1. job[t].for = t BY <1>1, <1>4 DEF LoadInv, OwnWork
  <2>2. job[t] \in Work(t) BY <1>1, <1>4, <2>1 DEF Work, Loading
  <2> QED BY <1>2, <2>1, <2>2 DEF LoadInv, InHand
<1> QED BY <1>3, <1>4, CallersAndPool

\* Work that is done is taken out of what is to be read.
LEMMA OneLess ==
  ASSUME NEW jobs, NEW j \in jobs, NEW rest \in SUBSET jobs, jobs \ {j} \subseteq rest
  PROVE  UNION {k.tensors : k \in jobs} = j.tensors \cup UNION {k.tensors : k \in rest}
OBVIOUS

\* A read that ended: its tensors are there, or its caller knows that it failed.
LEMMA FinishKeeps ==
  ASSUME LoadInv, NEW t \in Threads, NEW outcome \in {"bytes", "error", "other"},
         pc[t] \in {"range", "mapping"}, Finish(t, outcome)
  PROVE  LoadInv'
<1> DEFINE c == job[t].for
<1>1. /\ pc[t] \in Reading /\ pc[t] # "idle" /\ job[t] \in Jobs /\ UNCHANGED <<queue, leased>>
      /\ pc \in [Threads -> Places] /\ got \in [AllCallers -> SUBSET Nat]
  BY DEF LoadInv, Typed, Reading, Finish
<1>2. got' = IF c # None /\ outcome = "bytes" THEN [got EXCEPT ![c] = @ \cup job[t].tensors] ELSE got
  BY DEF Finish
<1>3. failed' = IF c # None /\ outcome = "error" THEN failed \cup {c} ELSE failed BY DEF Finish
<1>4. job' = IF pc'[t] = "idle" THEN [job EXCEPT ![t] = <<>>] ELSE job BY DEF Finish
<1>5. CASE outcome = "other"
  <2>1. Goto(t, "garbage") BY <1>5 DEF Finish
  <2>2. pc'[t] = "garbage" BY <1>1, <2>1 DEF Goto
  <2>3. UNCHANGED <<job, loading>> BY <1>1, <1>2, <1>3, <1>4, <1>5, <2>2 DEF loading
  <2>4. "garbage" \in Reading BY DEF Reading
  <2> QED BY <1>1, <2>1, <2>3, <2>4, ReadingKeeps
<1>6. CASE outcome # "other"
  <2> DEFINE next == IF t = c THEN "wait" ELSE "idle"
  <2>1. pc' = [pc EXCEPT ![t] = next] BY <1>6 DEF Finish, Goto
  <2>2. /\ pc'[t] = next /\ (next = "wait" => job' = job) /\ (next = "idle" => job' = [job EXCEPT ![t] = <<>>])
        /\ \A u \in Threads \ {t} : pc'[u] = pc[u] /\ job'[u] = job[u]
    BY <1>1, <1>4, <2>1 DEF LoadInv, Typed
  <2>3. c \in AllCallers \cup {None} /\ job[t].tensors \in SUBSET Nat BY <1>1 DEF Jobs
  <2>4. c \in AllCallers => job[t] \in Work(c) /\ Loading(c) /\ pc[c] # "loaded"
    BY <1>1, <2>3, CallersAndPool, ReaderWorks
  <2>5. t \in Pool => t \notin AllCallers /\ c \in AllCallers /\ next = "idle"
    BY <1>1, CallersAndPool DEF LoadInv, OwnWork
  <2>6. t \in AllCallers => t \notin Pool /\ (c = t \/ (c = None /\ next = "idle"))
    BY <1>1, CallersAndPool DEF LoadInv, OwnWork
  <2>7. \A d \in AllCallers : Loading(d)' <=> Loading(d)
    <3>1. \A d \in AllCallers \ {t} : Loading(d)' <=> Loading(d) BY <2>2, CallersAndPool DEF Loading
    <3>2. t \in AllCallers => (Loading(t)' <=> Loading(t))
      BY <1>1, <2>2, <2>6, CallersAndPool DEF Loading
    <3> QED BY <3>1, <3>2
  <2>8. \A d \in AllCallers : Work(d)' \subseteq Work(d) /\ Work(d) \ {job[t]} \subseteq Work(d)'
    <3> SUFFICES ASSUME NEW d \in AllCallers
                 PROVE  Work(d)' \subseteq Work(d) /\ Work(d) \ {job[t]} \subseteq Work(d)'
      OBVIOUS
    <3> DEFINE inPool == {job[v] : v \in {w \in Pool : pc[w] # "idle" /\ job[w].for = d}}
               own == IF Loading(d) /\ pc[d] \in Reading THEN {job[d]} ELSE {}
    <3>1. Work(d) = {j \in queue : j.for = d} \cup inPool \cup own
          /\ Work(d)' = {j \in queue' : j.for = d} \cup inPool' \cup own'
      BY DEF Work
    <3>2. inPool' \subseteq inPool /\ inPool \ {job[t]} \subseteq inPool'
      <4>1. \A v \in Pool \ {t} : pc'[v] = pc[v] /\ job'[v] = job[v] BY <2>2, CallersAndPool
      <4>2. t \in Pool => pc'[t] = "idle" BY <2>2, <2>5
      <4> QED BY <4>1, <4>2
    <3>3. own' \subseteq own /\ own \ {job[t]} \subseteq own'
      <4>1. CASE d # t
        <5>1. pc'[d] = pc[d] /\ job'[d] = job[d] BY <2>2, <4>1, CallersAndPool
        <5> QED BY <2>7, <5>1
      <4>2. CASE d = t
        <5>1. own \subseteq {job[t]} BY <4>2
        <5>2. pc'[d] \notin Reading BY <2>2, <4>2 DEF Reading
        <5> QED BY <5>1, <5>2
      <4> QED BY <4>1, <4>2
    <3> HIDE DEF inPool, own
    <3> QED BY <1>1, <3>1, <3>2, <3>3
  <2>9. Typed'
    <3>1. pc' \in [Threads -> Places] BY <1>1, <2>1 DEF Places
    <3>2. job' = [u \in Threads |-> job'[u]] BY <1>4 DEF LoadInv, Typed
    <3>3. \A u \in Threads : pc'[u] # "idle" => job'[u] \in Jobs BY <1>1, <2>2 DEF LoadInv, Typed
    <3>4. got' \in [AllCallers -> SUBSET Nat] BY <1>1, <1>2, <2>3 DEF LoadInv, Typed
    <3>5. failed' \subseteq AllCallers BY <1>3, <2>3 DEF LoadInv, Typed
    <3> QED BY <1>1, <3>1, <3>2, <3>3, <3>4, <3>5 DEF LoadInv, Typed
  <2>10. OwnWork'
    <3>1. \A w \in Pool : pc'[w] \in Reading \cup {"idle"} BY <2>2, <2>5, CallersAndPool DEF LoadInv, OwnWork
    <3>2. \A w \in Pool : pc'[w] # "idle" => job'[w].for \in AllCallers
      BY <2>2, <2>5, CallersAndPool DEF LoadInv, OwnWork
    <3>3. \A d \in AllCallers : pc'[d] # "idle" => job'[d].for \in {d, None}
      BY <1>1, <2>2, CallersAndPool DEF LoadInv, OwnWork
    <3>4. \A d \in AllCallers : pc'[d] \in {"wait", "loaded"} => job'[d].for = d
      BY <1>1, <2>2, CallersAndPool DEF LoadInv, OwnWork
    <3> QED BY <1>1, <3>1, <3>2, <3>3, <3>4 DEF LoadInv, OwnWork
  <2>11. \A d \in AllCallers : pc'[d] = "loaded" <=> pc[d] = "loaded" BY <1>1, <2>2, CallersAndPool DEF Reading
  <2>12. InHand'
    <3>1. \A d \in AllCallers : Work(d)' # {} => Loading(d)' /\ pc'[d] # "loaded"
      BY <2>7, <2>8, <2>11 DEF LoadInv, InHand
    <3>2. leased' = {d \in AllCallers : Loading(d)'} BY <1>1, <2>7 DEF LoadInv, InHand
    <3>3. \A d \in AllCallers : ~Loading(d)' => got'[d] = {}
      BY <1>1, <1>2, <2>3, <2>4, <2>7, CallersAndPool DEF LoadInv, InHand
    <3>4. \A d \in AllCallers : d \in failed' => Loading(d)' /\ pc'[d] # "loaded"
      BY <1>3, <2>3, <2>4, <2>7, <2>11 DEF LoadInv, InHand
    <3> QED BY <3>1, <3>2, <3>3, <3>4 DEF InHand
  <2>13. Covered'
    <3> SUFFICES ASSUME NEW d \in AllCallers, Loading(d)', d \notin failed'
                 PROVE  DOMAIN Sizes[job'[d].path] = got'[d] \cup UNION {j.tensors : j \in Work(d)'}
      BY DEF Covered
    <3>1. Loading(d) /\ d \notin failed BY <1>3, <2>7
    <3>2. DOMAIN Sizes[job[d].path] = got[d] \cup UNION {j.tensors : j \in Work(d)} BY <3>1 DEF LoadInv, Covered
    <3>3. job'[d] = job[d]
      <4>1. Loading(d)' => pc'[d] # "idle" BY DEF Loading
      <4>2. pc'[d] # "idle" BY <4>1
      <4> QED BY <2>2, <4>2, CallersAndPool
    <3>4. CASE c = d
      <4>1. outcome = "bytes" BY <1>3, <1>6, <3>4, CallersAndPool
      <4>2. got'[d] = got[d] \cup job[t].tensors BY <1>1, <1>2, <3>4, <4>1, CallersAndPool
      <4>3. job[t] \in Work(d) BY <2>4, <3>4
      <4>3a. Work(d)' \subseteq Work(d) /\ Work(d) \ {job[t]} \subseteq Work(d)' BY <2>8
      <4>4. UNION {j.tensors : j \in Work(d)} = job[t].tensors \cup UNION {j.tensors : j \in Work(d)'}
        BY <4>3, <4>3a, OneLess
      <4> QED BY <3>2, <3>3, <4>2, <4>4
    <3>5. CASE c # d
      <4>1. got'[d] = got[d] BY <1>1, <1>2, <2>3, <3>5
      <4>2. job[t] \notin Work(d)
        <5>1. \A j \in Work(d) : j.for = d BY DEF Work, Loading
        <5> QED BY <3>5, <5>1
      <4>3. Work(d)' = Work(d) BY <2>8, <4>2
      <4> QED BY <3>2, <3>3, <4>1, <4>3
    <3> QED BY <3>4, <3>5
  <2> QED BY <2>9, <2>10, <2>12, <2>13 DEF LoadInv
<1> QED BY <1>5, <1>6

\* A caller that is done: nobody has work for it any more.
LEMMA DoneKeeps ==
  ASSUME LoadInv, NEW c \in AllCallers, pc[c] \in {"wait", "loaded"}, Work(c) = {},
         NEW q \in {"idle", "loaded"}, Goto(c, q), UNCHANGED queue,
         leased' = (IF q = "idle" THEN leased \ {c} ELSE leased),
         job' = (IF q = "idle" THEN [job EXCEPT ![c] = <<>>] ELSE job),
         got' = (IF q = "idle" THEN [got EXCEPT ![c] = {}] ELSE got),
         failed' = failed \ {c}, q = "loaded" => c \notin failed
  PROVE  LoadInv'
<1>1. job[c].for = c /\ Loading(c) /\ c \in Threads /\ c \notin Pool
  BY CallersAndPool DEF LoadInv, OwnWork, Loading
<1>2. /\ pc'[c] = q /\ (q = "loaded" => job'[c] = job[c])
      /\ \A u \in Threads \ {c} : pc'[u] = pc[u] /\ job'[u] = job[u]
  BY <1>1 DEF LoadInv, Typed, Goto
<1>3. \A d \in AllCallers \ {c} : pc'[d] = pc[d] /\ job'[d] = job[d] BY <1>2, CallersAndPool
<1>4. \A w \in Pool : pc'[w] = pc[w] /\ job'[w] = job[w] BY <1>2, CallersAndPool
<1>5. \A d \in AllCallers \ {c} : (Loading(d)' <=> Loading(d)) /\ Work(d)' = Work(d)
  BY <1>3, <1>4 DEF Loading, Work
<1>6. (Loading(c)' <=> q = "loaded") /\ Work(c)' = {}
  <2>1. Loading(c)' <=> q = "loaded" BY <1>1, <1>2 DEF Loading
  <2>2. {j \in queue' : j.for = c} = {} BY DEF Work
  <2>3. {job'[t] : t \in {w \in Pool : pc'[w] # "idle" /\ job'[w].for = c}} = {} BY <1>4 DEF Work
  <2>4. pc'[c] \notin Reading BY <1>2 DEF Reading
  <2> QED BY <2>1, <2>2, <2>3, <2>4 DEF Work
<1>7. Typed'
  <2>1. pc' \in [Threads -> Places] BY DEF LoadInv, Typed, Places, Goto
  <2>2. job' = [t \in Threads |-> job'[t]] BY DEF LoadInv, Typed
  <2>3. \A t \in Threads : pc'[t] # "idle" => job'[t] \in Jobs BY <1>1, <1>2 DEF LoadInv, Typed
  <2>4. got' \in [AllCallers -> SUBSET Nat] BY DEF LoadInv, Typed
  <2>5. leased' \subseteq AllCallers /\ failed' \subseteq AllCallers BY DEF LoadInv, Typed
  <2> QED BY <2>1, <2>2, <2>3, <2>4, <2>5 DEF LoadInv, Typed
<1>8. OwnWork' BY <1>1, <1>2, <1>3, <1>4 DEF LoadInv, OwnWork
<1>9. InHand'
  <2>1. leased' = {d \in AllCallers : Loading(d)'} BY <1>1, <1>5, <1>6 DEF LoadInv, InHand
  <2>2. \A d \in AllCallers : Work(d)' # {} => Loading(d)' /\ pc'[d] # "loaded"
    BY <1>3, <1>5, <1>6 DEF LoadInv, InHand
  <2>3. \A d \in AllCallers : ~Loading(d)' => got'[d] = {}
    BY <1>5, <1>6 DEF LoadInv, InHand, Typed
  <2>4. \A d \in AllCallers : d \in failed' => Loading(d)' /\ pc'[d] # "loaded"
    BY <1>3, <1>5 DEF LoadInv, InHand
  <2> QED BY <2>1, <2>2, <2>3, <2>4 DEF InHand
<1>10. Covered'
  <2> SUFFICES ASSUME NEW d \in AllCallers, Loading(d)', d \notin failed'
               PROVE  DOMAIN Sizes[job'[d].path] = got'[d] \cup UNION {j.tensors : j \in Work(d)'}
    BY DEF Covered
  <2>1. Loading(d) /\ d \notin failed /\ Work(d)' = Work(d) /\ got'[d] = got[d] /\ job'[d] = job[d]
    BY <1>1, <1>2, <1>3, <1>5, <1>6 DEF LoadInv, Typed
  <2> QED BY <2>1 DEF LoadInv, Covered
<1> QED BY <1>7, <1>8, <1>9, <1>10 DEF LoadInv

\* Only while a caller waits with no batch queued or being read may its layer be handed on.
LEMMA NoneLeft ==
  ASSUME LoadInv, NEW c \in AllCallers, pc[c] = "wait", Batches(c) = {}, \A j \in queue : j.for # c
  PROVE  Work(c) = {}
<1>1. pc[c] \notin Reading BY DEF Reading
<1>2. {job[t] : t \in {w \in Pool : pc[w] # "idle" /\ job[w].for = c}} = {} BY CallersAndPool DEF Batches
<1> QED BY <1>1, <1>2 DEF Work

\* What is in hand for a caller is the work of the layer it loads.
LEMMA BatchesAreWork ==
  ASSUME LoadInv, NEW c \in AllCallers, Batches(c) # {} \/ \E j \in queue : j.for = c
  PROVE  c \in leased
<1>1. CASE \E j \in queue : j.for = c
  <2>1. Work(c) # {} BY <1>1 DEF Work
  <2> QED BY <2>1 DEF LoadInv, InHand
<1>2. CASE Batches(c) # {}
  <2>1. PICK t \in Threads : t # c /\ pc[t] # "idle" /\ job[t].for = c BY <1>2 DEF Batches
  <2>2. t \in Pool BY <2>1, CallersAndPool DEF LoadInv, OwnWork
  <2>3. Work(c) # {} BY <2>1, <2>2 DEF Work
  <2> QED BY <2>3 DEF LoadInv, InHand
<1> QED BY <1>1, <1>2

\* A caller whose batches have all ended keeps the layer or drops it.
LEMMA FilledKeeps ==
  ASSUME LoadInv, NEW c \in AllCallers, Filled(c)
  PROVE  LoadInv'
<1>1. pc[c] = "wait" /\ Work(c) = {} BY NoneLeft DEF Filled
<1>2. CASE c \in failed
  <2>1. /\ Goto(c, "idle") /\ UNCHANGED queue /\ leased' = leased \ {c} /\ job' = [job EXCEPT ![c] = <<>>]
        /\ got' = [got EXCEPT ![c] = {}] /\ failed' = failed \ {c}
    BY <1>2 DEF Filled
  <2> QED BY <1>1, <2>1, DoneKeeps
<1>3. CASE c \notin failed
  <2>1. /\ Goto(c, "loaded") /\ UNCHANGED <<queue, leased, job, got>> /\ failed' = failed \ {c}
    BY <1>3 DEF Filled
  <2> QED BY <1>1, <1>3, <2>1, DoneKeeps
<1> QED BY <1>2, <1>3

\* A layer that is handed on gives its buffer back.
LEMMA PlaceKeeps ==
  ASSUME LoadInv, NEW c \in AllCallers, Place(c)
  PROVE  LoadInv'
<1>1. pc[c] = "loaded" BY DEF Place
<1>2. Work(c) = {} /\ c \notin failed BY <1>1 DEF LoadInv, InHand
<1>3. /\ Goto(c, "idle") /\ UNCHANGED queue /\ leased' = leased \ {c} /\ job' = [job EXCEPT ![c] = <<>>]
      /\ got' = [got EXCEPT ![c] = {}] /\ failed' = failed \ {c}
  BY <1>2 DEF Place
<1> QED BY <1>1, <1>2, <1>3, DoneKeeps

\* The steps of one read.
LEMMA StepKeeps ==
  ASSUME LoadInv, NEW t \in Threads, Step(t)
  PROVE  LoadInv'
<1>1. ASSUME NEW q \in Reading, pc[t] \in Reading, Goto(t, q), UNCHANGED <<job, loading>> PROVE LoadInv'
  BY <1>1, ReadingKeeps
<1>2. CASE LookUp(t)
  <2>1. (Goto(t, "choose") \/ Goto(t, "parse")) /\ pc[t] = "index" /\ UNCHANGED <<job, loading>>
    BY <1>2 DEF LookUp
  <2> QED BY <1>1, <2>1 DEF Reading
<1>3. CASE ParseHeader(t) BY <1>1, <1>3 DEF ParseHeader, Reading
<1>4. CASE Remember(t) BY <1>1, <1>4 DEF Remember, Reading
<1>5. CASE Choose(t)
  <2>1. (Goto(t, "handle") \/ Goto(t, "range")) /\ pc[t] = "choose" /\ UNCHANGED <<job, loading>>
    BY <1>5 DEF Choose
  <2> QED BY <1>1, <2>1 DEF Reading
<1>6. CASE OpenHandle(t)
  <2>1. (Goto(t, "evict") \/ Goto(t, "mapping")) /\ pc[t] = "handle" /\ UNCHANGED <<job, loading>>
    BY <1>6 DEF OpenHandle
  <2> QED BY <1>1, <2>1 DEF Reading
<1>7. CASE Evict(t) BY <1>1, <1>7 DEF Evict, Reading
<1>8. CASE Read(t)
  <2>1. Outcome(t) \in {"bytes", "error", "other"} BY <1>8 DEF Read, Outcome
  <2> QED BY <1>8, <2>1, FinishKeeps DEF Read
<1>9. CASE ReadFails(t) BY <1>9, FinishKeeps DEF ReadFails
<1> QED BY <1>2, <1>3, <1>4, <1>5, <1>6, <1>7, <1>8, <1>9 DEF Step

(***************************************************************************)
(* The registry and what is open are numbers of readers.                   *)
(***************************************************************************)
Registered ==
    /\ \E S : readers \in Seq(S)
    /\ registry \in Nat /\ open \in [Models -> Nat]

\* What appending to a sequence makes of its length and of its elements.
LEMMA OneMore ==
  ASSUME NEW S, NEW seq \in Seq(S), NEW x
  PROVE  Append(seq, x) \in Seq(S \cup {x}) /\ Len(Append(seq, x)) = Len(seq) + 1 /\ Len(seq) \in Nat
<1>1. seq \in Seq(S \cup {x}) OBVIOUS
<1> QED BY <1>1

\* Every step leaves the registry and what is open numbers of readers.
LEMMA RegisteredKept ==
  ASSUME Registered, [Next]_vars
  PROVE  Registered'
<1>1. PICK S : readers \in Seq(S) BY DEF Registered
<1>2. ASSUME NEW x PROVE Append(readers, x) \in Seq(S \cup {x}) /\ Len(Append(readers, x)) \in Nat
  <2>1. Append(readers, x) \in Seq(S \cup {x}) /\ Len(Append(readers, x)) = Len(readers) + 1 /\ Len(readers) \in Nat
    BY <1>1, OneMore
  <2> QED BY <2>1
<1>3. ASSUME NEW m \in Models, Configure(m) PROVE Registered'
  <2>1. PICK x : readers' = Append(readers, x) BY <1>3 DEF Configure
  <2>2. readers' \in Seq(S \cup {x}) /\ Len(readers') \in Nat BY <1>2, <2>1
  <2> QED BY <1>3, <2>2 DEF Configure, Registered
<1>4. ASSUME NEW m \in Models, Close(m) PROVE Registered' BY <1>4 DEF Close, Registered, None
<1>5. ASSUME NEW c \in AllCallers, NEW p \in Paths, ReadRows(c, p) PROVE Registered'
  <2>1. CASE registry = None
    <3>1. readers' = Append(readers, DefaultReader) /\ registry' = Len(readers') /\ UNCHANGED open
      BY <1>5, <2>1 DEF ReadRows
    <3>2. readers' \in Seq(S \cup {DefaultReader}) /\ Len(readers') \in Nat BY <1>2, <3>1
    <3> QED BY <3>1, <3>2 DEF Registered
  <2>2. CASE registry # None BY <1>5, <2>2 DEF ReadRows, Registered
  <2> QED BY <2>1, <2>2
<1>6. ASSUME UNCHANGED <<readers, registry, open>> PROVE Registered' BY <1>6 DEF Registered
<1>7. ASSUME NEW c \in AllCallers, NEW p \in Paths, Load(c, p) PROVE UNCHANGED <<readers, registry, open>>
  BY <1>7 DEF Load
<1>8. ASSUME NEW c \in AllCallers, Filled(c) \/ Place(c) PROVE UNCHANGED <<readers, registry, open>>
  BY <1>8 DEF Filled, Place
<1>9. ASSUME NEW t \in Threads, Take(t) \/ Step(t) PROVE UNCHANGED <<readers, registry, open>>
  BY <1>9 DEF Take, Step, LookUp, ParseHeader, Remember, Choose, OpenHandle, Evict, Read, ReadFails, Finish
<1>10. ASSUME NEW p \in Paths, Rewrite(p) PROVE UNCHANGED <<readers, registry, open>> BY <1>10 DEF Rewrite
<1>11. UNCHANGED vars => UNCHANGED <<readers, registry, open>> BY DEF vars
<1> QED BY <1>3, <1>4, <1>5, <1>6, <1>7, <1>8, <1>9, <1>10, <1>11 DEF Next, AllCallers

\* Nothing is being read at the start.
LEMMA LoadInvInit == Init => LoadInv /\ Registered
<1> SUFFICES ASSUME Init PROVE LoadInv /\ Registered OBVIOUS
<1>1. \A c \in AllCallers : ~Loading(c) /\ Work(c) = {}
  BY CallersAndPool DEF Init, Loading, Work
<1>2. Typed BY DEF Init, Typed, Places, AllCallers
<1>3. OwnWork BY CallersAndPool DEF Init, OwnWork
<1>4. InHand BY <1>1 DEF Init, InHand, AllCallers
<1>5. Covered BY <1>1 DEF Covered
<1>6. readers \in Seq({}) BY DEF Init
<1>7. Registered BY <1>6 DEF Init, Registered, None
<1> QED BY <1>2, <1>3, <1>4, <1>5, <1>7 DEF LoadInv

\* Every step keeps the invariant of the loads.
LEMMA LoadInvKept ==
  ASSUME LoadInv, Registered, [Next]_vars
  PROVE  LoadInv' /\ Registered'
<1>1. Registered' BY RegisteredKept
<1>2. open \in [Models -> Nat] /\ registry' \in Nat BY <1>1 DEF Registered
<1>3. ASSUME NEW m \in Models, Configure(m) \/ Close(m) PROVE LoadInv'
  BY <1>3, ElsewhereKeeps DEF Configure, Close
<1>4. ASSUME NEW c \in AllCallers, NEW p \in Paths, Load(c, p) \/ ReadRows(c, p) PROVE LoadInv'
  <2>1. Callers[c] \in Models BY ShardsAssumption DEF ShardsAssumption, AllCallers
  <2> QED BY <1>2, <1>4, <2>1, LoadKeeps, ReadRowsKeeps
<1>5. ASSUME NEW c \in AllCallers, Filled(c) \/ Place(c) PROVE LoadInv' BY <1>5, FilledKeeps, PlaceKeeps
<1>6. ASSUME NEW t \in Threads, Take(t) \/ Step(t) PROVE LoadInv'
  <2>1. Take(t) => t \in Pool BY DEF Take
  <2> QED BY <1>6, <2>1, TakeKeeps, StepKeeps
<1>7. ASSUME NEW p \in Paths, Rewrite(p) PROVE LoadInv' BY <1>7, ElsewhereKeeps DEF Rewrite
<1>8. ASSUME UNCHANGED vars PROVE LoadInv'
  <2>1. UNCHANGED <<pc, job, loading>> BY <1>8 DEF vars
  <2> QED BY <2>1, ElsewhereKeeps
<1> QED BY <1>1, <1>3, <1>4, <1>5, <1>6, <1>7, <1>8 DEF Next, AllCallers

(***************************************************************************)
(* For every number of callers, threads, tensors and batches and every     *)
(* order of the reads and of their failures: LayerLoader.load hands on a   *)
(* buffer that has every tensor of the layer, and gives one back only when *)
(* no thread reads into it any more.                                       *)
(***************************************************************************)
THEOREM LayerComplete == Spec => []LayerIsWhole
<1>1. Init => LoadInv /\ Registered BY LoadInvInit
<1>2. LoadInv /\ Registered /\ [Next]_vars => (LoadInv /\ Registered)' BY LoadInvKept
<1>3. LoadInv => LayerIsWhole
  <2> SUFFICES ASSUME LoadInv PROVE LayerIsWhole OBVIOUS
  <2>1. ASSUME NEW c \in AllCallers, pc[c] = "loaded" PROVE got[c] = DOMAIN Sizes[job[c].path]
    <3>1. Loading(c) BY <2>1 DEF LoadInv, OwnWork, Loading
    <3>2. Work(c) = {} /\ c \notin failed BY <2>1 DEF LoadInv, InHand
    <3> QED BY <3>1, <3>2 DEF LoadInv, Covered
  <2> QED BY <2>1, BatchesAreWork DEF LayerIsWhole, AllCallers
<1> QED BY <1>1, <1>2, <1>3, PTL DEF Spec

(***************************************************************************)
(* One model on the directory: there is one reader at a time, everything   *)
(* in hand reads through it, and no other one holds a file.                *)
(***************************************************************************)
Handles == \A r \in Ids : \A t \in Threads : r # registry => local[r][t] = <<>>
Alone(m) ==
    /\ open[m] = registry
    /\ registry = None => queue = {} /\ \A t \in Threads : pc[t] = "idle"
    /\ \A t \in Threads : pc[t] # "idle" => job[t].reader = registry
    /\ \A j \in queue : j.reader = registry
    /\ local = [r \in Ids |-> local[r]] /\ \A r \in Ids : local[r] = [t \in Threads |-> local[r][t]]
    /\ Handles

\* A model that closes waits for its own threads, and with them ends every batch.
LEMMA AllIdle ==
  ASSUME LoadInv, NEW m, Models = {m}, Working(m) = {}
  PROVE  queue = {} /\ \A t \in Threads : pc[t] = "idle"
<1>1. \A c \in AllCallers : pc[c] = "idle"
  BY ShardsAssumption DEF ShardsAssumption, Working, AllCallers
<1>2. \A c \in AllCallers : Work(c) = {} BY <1>1 DEF LoadInv, InHand, Loading
<1>3. ASSUME NEW t \in Pool, pc[t] # "idle" PROVE FALSE
  <2>1. job[t].for \in AllCallers BY <1>3 DEF LoadInv, OwnWork
  <2>2. job[t] \in Work(job[t].for) BY <1>3 DEF Work
  <2> QED BY <1>2, <2>1, <2>2
<1>4. ASSUME NEW j \in queue PROVE FALSE
  <2>1. j.for \in AllCallers BY DEF LoadInv, OwnWork
  <2>2. j \in Work(j.for) BY DEF Work
  <2> QED BY <1>2, <2>1, <2>2
<1> QED BY <1>1, <1>3, <1>4, CallersAndPool

\* Steps that only end or continue work in hand.
LEMMA AloneLess ==
  ASSUME LoadInv, NEW m, Alone(m), UNCHANGED <<open, registry, local>>, queue' \subseteq queue,
         NEW t \in Threads, pc[t] # "idle", NEW q \in Places, Goto(t, q),
         (UNCHANGED job) \/ (q = "idle" /\ job' = [job EXCEPT ![t] = <<>>])
  PROVE  Alone(m)'
<1>1. registry # None BY DEF Alone
<1>2. \A u \in Threads : pc'[u] # "idle" => pc[u] # "idle" /\ job'[u] = job[u]
  BY DEF LoadInv, Typed, Goto
<1>3. Handles' BY DEF Alone, Handles
<1> QED BY <1>1, <1>2, <1>3 DEF Alone

\* A step of a read opens or closes handles of the registered reader only.
LEMMA AloneReads ==
  ASSUME LoadInv, NEW m, Alone(m), NEW t \in Threads, Step(t)
  PROVE  Alone(m)'
<1>1. ASSUME NEW q \in Places, pc[t] # "idle", Goto(t, q), UNCHANGED <<open, registry, local, queue>>,
             (UNCHANGED job) \/ (q = "idle" /\ job' = [job EXCEPT ![t] = <<>>])
      PROVE  Alone(m)'
  BY <1>1, AloneLess
<1>2. CASE LookUp(t)
  <2>1. (Goto(t, "choose") \/ Goto(t, "parse")) /\ pc[t] # "idle" /\ UNCHANGED <<open, registry, local, queue, job>>
    BY <1>2 DEF LookUp, tables, loading
  <2> QED BY <1>1, <2>1 DEF Places, Reading
<1>3. CASE ParseHeader(t) BY <1>1, <1>3 DEF ParseHeader, loading, Places, Reading
<1>4. CASE Remember(t) BY <1>1, <1>4 DEF Remember, loading, Places, Reading
<1>5. CASE Choose(t)
  <2>1. (Goto(t, "handle") \/ Goto(t, "range")) /\ pc[t] # "idle" /\ UNCHANGED <<open, registry, local, queue, job>>
    BY <1>5 DEF Choose, tables, loading
  <2> QED BY <1>1, <2>1 DEF Places, Reading
<1>6. ASSUME NEW f, local' = [local EXCEPT ![R(t)][t] = f], pc[t] # "idle", NEW q \in Reading, Goto(t, q),
             UNCHANGED <<open, registry, job, queue>>
      PROVE  Alone(m)'
  <2>1. job[t].reader = registry /\ registry # None BY <1>6 DEF Alone
  <2>2. \A r \in Ids, u \in Threads : r # registry => local'[r][u] = local[r][u]
    BY <1>6, <2>1 DEF Alone, R
  <2>3. local' = [r \in Ids |-> local'[r]] /\ \A r \in Ids : local'[r] = [u \in Threads |-> local'[r][u]]
    BY <1>6 DEF Alone
  <2>4. \A u \in Threads : pc'[u] # "idle" => pc[u] # "idle" BY <1>6 DEF LoadInv, Typed, Goto
  <2>5. Handles' BY <1>6, <2>2 DEF Alone, Handles
  <2> QED BY <1>6, <2>1, <2>3, <2>4, <2>5 DEF Alone
<1>7. CASE OpenHandle(t)
  <2>1. PICK f : local' = [local EXCEPT ![R(t)][t] = f] BY <1>7 DEF OpenHandle
  <2>2. (Goto(t, "evict") \/ Goto(t, "mapping")) /\ pc[t] # "idle" /\ UNCHANGED <<open, registry, job, queue>>
    BY <1>7 DEF OpenHandle, loading
  <2> QED BY <1>6, <2>1, <2>2 DEF Reading
<1>8. CASE Evict(t)
  <2>1. PICK f : local' = [local EXCEPT ![R(t)][t] = f] BY <1>8 DEF Evict
  <2>2. Goto(t, "mapping") /\ pc[t] # "idle" /\ UNCHANGED <<open, registry, job, queue>> BY <1>8 DEF Evict, loading
  <2> QED BY <1>6, <2>1, <2>2 DEF Reading
<1>9. ASSUME NEW outcome, Finish(t, outcome), pc[t] # "idle" PROVE Alone(m)'
  <2>1. PICK q \in {"garbage", "wait", "idle"} : Goto(t, q) BY <1>9 DEF Finish
  <2>2. pc'[t] = q BY <2>1 DEF Goto, LoadInv, Typed
  <2>3. (UNCHANGED job) \/ (q = "idle" /\ job' = [job EXCEPT ![t] = <<>>]) BY <1>9, <2>2 DEF Finish
  <2>4. UNCHANGED <<open, registry, local, queue>> BY <1>9 DEF Finish, tables
  <2> QED BY <1>1, <1>9, <2>1, <2>3, <2>4 DEF Places, Reading
<1>10. Read(t) \/ ReadFails(t) => pc[t] # "idle" /\ \E outcome : Finish(t, outcome) BY DEF Read, ReadFails
<1> QED BY <1>2, <1>3, <1>4, <1>5, <1>7, <1>8, <1>9, <1>10 DEF Step

\* The only model registers its reader when there is none.
LEMMA AloneConfigures ==
  ASSUME LoadInv, Registered, NEW m, Models = {m}, Alone(m), Configure(m)
  PROVE  Alone(m)'
<1>1. PICK x : readers' = Append(readers, x) BY DEF Configure
<1>2. PICK S : readers \in Seq(S) BY DEF Registered
<1>3. Len(readers') \in Nat \ {0}
  <2>1. Len(readers') = Len(readers) + 1 /\ Len(readers) \in Nat BY <1>1, <1>2, OneMore
  <2> QED BY <2>1
<1>4. registry = None /\ queue = {} /\ \A t \in Threads : pc[t] = "idle" BY DEF Alone, Configure
<1>5. /\ registry' = Len(readers') /\ open' = [open EXCEPT ![m] = Len(readers')]
      /\ UNCHANGED <<local, pc, queue>>
  BY <1>4 DEF Configure, Released, loading
<1>6. open'[m] = registry' BY <1>5 DEF Registered
<1>7. Handles' BY <1>4, <1>5 DEF Alone, Handles, Ids, None
<1> QED BY <1>3, <1>4, <1>5, <1>6, <1>7 DEF Alone, None

\* The only model releases the registered reader, with every handle it has.
LEMMA AloneCloses ==
  ASSUME LoadInv, Registered, NEW m, Models = {m}, Alone(m), Close(m)
  PROVE  Alone(m)'
<1>1. queue = {} /\ \A t \in Threads : pc[t] = "idle" BY AllIdle DEF Close
<1>2. open[m] = registry /\ registry # None BY DEF Alone, Close
<1>3. /\ registry' = None /\ open' = [open EXCEPT ![m] = None] /\ UNCHANGED <<pc, queue>>
      /\ local' = [local EXCEPT ![registry] = [t \in Threads |-> <<>>]]
  BY <1>2 DEF Close, Released, loading
<1>4. open'[m] = registry' BY <1>3 DEF Registered
<1>5. local' = [r \in Ids |-> local'[r]] /\ \A r \in Ids : local'[r] = [t \in Threads |-> local'[r][t]]
  BY <1>3 DEF Alone
<1>6. \A r \in Ids, t \in Threads : local'[r][t] = <<>> BY <1>3 DEF Alone, Handles
<1> QED BY <1>1, <1>3, <1>4, <1>5, <1>6 DEF Alone, Handles

\* A load of the only model reads through the registered reader.
LEMMA AloneBegins ==
  ASSUME LoadInv, Registered, NEW m, Models = {m}, Alone(m), NEW c \in AllCallers, NEW p \in Paths,
         Load(c, p) \/ ReadRows(c, p)
  PROVE  Alone(m)'
<1>1. Callers[c] = m BY ShardsAssumption DEF ShardsAssumption, AllCallers
<1>2. registry # None /\ open[m] = registry BY <1>1 DEF Alone, Load, ReadRows
<1>3. UNCHANGED <<open, registry, local>> BY <1>2 DEF Load, ReadRows, tables
<1>4. PICK j : j.reader = registry /\ job' = [job EXCEPT ![c] = j]
  BY <1>1, <1>2, <1>3 DEF Load, ReadRows, Job
<1>5. \A k \in queue' : k \in queue \/ k.reader = registry
  BY <1>1, <1>2 DEF Load, ReadRows, Job, loading
<1>6. pc' = [pc EXCEPT ![c] = "index"] BY DEF Load, ReadRows
<1>7. \A t \in Threads : pc'[t] # "idle" => job'[t].reader = registry
  BY <1>4, <1>6 DEF Alone, LoadInv, Typed
<1>8. Handles' BY <1>3 DEF Alone, Handles
<1> QED BY <1>2, <1>3, <1>5, <1>7, <1>8 DEF Alone

\* A batch taken from the queue is one of the registered reader.
LEMMA AloneTakes ==
  ASSUME LoadInv, NEW m, Alone(m), NEW t \in Threads, Take(t)
  PROVE  Alone(m)'
<1>1. PICK j \in queue : queue' = queue \ {j} /\ job' = [job EXCEPT ![t] = j] BY DEF Take
<1>2. j.reader = registry /\ registry # None BY DEF Alone
<1>3. pc' = [pc EXCEPT ![t] = "index"] /\ UNCHANGED <<open, registry, local>> BY DEF Take, tables
<1>4. \A u \in Threads : pc'[u] # "idle" => job'[u].reader = registry
  BY <1>1, <1>2, <1>3 DEF Alone, LoadInv, Typed
<1>5. Handles' BY <1>3 DEF Alone, Handles
<1> QED BY <1>1, <1>2, <1>3, <1>4, <1>5 DEF Alone

\* Every step of the only model keeps the registered reader the one with handles.
LEMMA AloneKept ==
  ASSUME LoadInv, Registered, NEW m, Models = {m}, Alone(m), [Next]_vars
  PROVE  Alone(m)'
<1>1. ASSUME NEW n \in Models, Configure(n) \/ Close(n) PROVE Alone(m)'
  BY <1>1, AloneConfigures, AloneCloses
<1>2. ASSUME NEW c \in AllCallers, NEW p \in Paths, Load(c, p) \/ ReadRows(c, p) PROVE Alone(m)'
  BY <1>2, AloneBegins
<1>3. ASSUME NEW c \in AllCallers, Filled(c) \/ Place(c) PROVE Alone(m)'
  <2>1. c \in Threads /\ pc[c] # "idle" /\ UNCHANGED <<open, registry, local, queue>>
    BY <1>3, CallersAndPool DEF Filled, Place, tables
  <2>2. (Goto(c, "loaded") /\ UNCHANGED job) \/ (Goto(c, "idle") /\ job' = [job EXCEPT ![c] = <<>>])
        \/ (Goto(c, "idle") /\ UNCHANGED job)
    BY <1>3 DEF Filled, Place
  <2> QED BY <2>1, <2>2, AloneLess DEF Places
<1>4. ASSUME NEW t \in Threads, Take(t) \/ Step(t) PROVE Alone(m)' BY <1>4, AloneTakes, AloneReads
<1>5. ASSUME UNCHANGED <<open, registry, local, pc, job, queue>> PROVE Alone(m)'
  BY <1>5 DEF Alone, Handles
<1>6. ASSUME NEW p \in Paths, Rewrite(p) PROVE Alone(m)' BY <1>5, <1>6 DEF Rewrite, tables, loading
<1>7. ASSUME UNCHANGED vars PROVE Alone(m)'
  <2>1. UNCHANGED <<open, registry, local, pc, job, queue>> BY <1>7 DEF vars, tables, loading
  <2> QED BY <1>5, <2>1
<1> QED BY <1>1, <1>2, <1>3, <1>4, <1>6, <1>7 DEF Next, AllCallers

(***************************************************************************)
(* With one model on the directory, release_reader closes every handle     *)
(* whichever thread opened it: a closed model holds no shard, for every    *)
(* number of threads, shards, settings and machines.  A second model would *)
(* have to read, when the close of the first has emptied the registry,     *)
(* through a default reader that nothing releases.                         *)
(***************************************************************************)
THEOREM ClosedLetsGo ==
  ASSUME NEW m, Models = {m}
  PROVE  Spec => []ClosedHoldsNothing
<1>1. Init => LoadInv /\ Registered /\ Alone(m)
  <2> SUFFICES ASSUME Init PROVE Alone(m) BY LoadInvInit
  <2>1. open[m] = registry BY DEF Init
  <2>2. /\ queue = {} /\ \A t \in Threads : pc[t] = "idle"
        /\ local = [r \in Ids |-> [t \in Threads |-> <<>>]]
    BY DEF Init
  <2> QED BY <2>1, <2>2 DEF Alone, Handles
<1>2. LoadInv /\ Registered /\ Alone(m) /\ [Next]_vars => (LoadInv /\ Registered /\ Alone(m))'
  BY LoadInvKept, AloneKept
<1>3. Alone(m) => ClosedHoldsNothing
  <2>1. None \notin Ids BY DEF None, Ids
  <2> QED BY <2>1 DEF Alone, Handles, ClosedHoldsNothing
<1> QED BY <1>1, <1>2, <1>3, PTL DEF Spec

(***************************************************************************)
(* What a header says is true of the shard it was parsed from, and that    *)
(* shard is the one on disk as long as the stamp the header is remembered  *)
(* by fits: replacing a file changes its stamp for ever.                   *)
(***************************************************************************)
Headers == [kind : {"none", "offsets", "no offsets"}, stamp : Nat, version : Nat]
Knowing == {"store", "choose", "handle", "evict", "mapping", "range"}
Watched == Knowing \cup {"parse", "garbage"}

Tables ==
    /\ Len(readers) <= MaxReaders /\ registry \in Ids \cup {None}
    /\ version \in [Paths -> Nat]
    /\ index \in [Ids -> [Paths -> Headers]] /\ mapped \in [Ids -> SUBSET Paths]
    /\ ix \in [Threads -> Headers]
    /\ opened \in [Ids -> [Threads -> [Paths -> Nat]]]

\* What is remembered, or read with, of the shard p by the reader r.
Tells(h, r, p) ==
    /\ h.stamp <= version[p]
    /\ h.kind # "none" /\ h.stamp = version[p] => h.version = version[p]
    /\ h.kind = "no offsets" => p \in mapped[r]
Remembered == \A r \in Ids, p \in Paths : Tells(index[r][p], r, p)
Aware(t) ==
    /\ Tells(ix[t], R(t), P(t))
    /\ pc[t] \in Knowing => ix[t].kind # "none"
    /\ pc[t] = "range" => ix[t].kind = "offsets"
    /\ pc[t] = "garbage" => Replaced(t) \/ ThroughOldMapping(t)

\* No mapping is of a file that is still to come.
Opened == \A r \in Ids, t \in Threads, p \in Paths : opened[r][t][p] <= version[p]
HeaderInv == Tables /\ Remembered /\ Opened /\ \A t \in Threads : pc[t] \in Watched => Aware(t)

\* Whoever reads, reads a shard through the registered reader.
LEMMA ReadsHere ==
  ASSUME LoadInv, NEW m, Alone(m), HeaderInv, NEW t \in Threads, pc[t] # "idle"
  PROVE  R(t) \in Ids /\ P(t) \in Paths /\ job[t].for \in AllCallers \cup {None}
<1>1. job[t] \in Jobs BY DEF LoadInv, Typed
<1>2. job[t].path \in Paths /\ job[t].for \in AllCallers \cup {None} BY <1>1 DEF Jobs
<1>3. job[t].reader = registry /\ registry # None BY DEF Alone
<1> QED BY <1>2, <1>3 DEF HeaderInv, Tables, R, P

\* What is true of a header stays true while files are replaced and shards are marked.
LEMMA TellsStill ==
  ASSUME NEW h \in Headers, NEW r, NEW p, Tells(h, r, p), version[p] \in Nat, version'[p] \in Nat,
         version[p] <= version'[p], p \in mapped[r] => p \in mapped'[r]
  PROVE  Tells(h, r, p)'
<1>1. h.stamp \in Nat BY DEF Headers
<1>2. h.stamp <= version[p] BY DEF Tells
<1>3. h.stamp <= version'[p] /\ (h.stamp = version'[p] => version'[p] = version[p]) BY <1>1, <1>2
<1> QED BY <1>2, <1>3 DEF Tells

\* A step of the thread t as the others see it: their reads, and what they hold, stay.
Apart(t) ==
    /\ \A u \in Threads \ {t} : pc'[u] = pc[u] /\ job'[u] = job[u] /\ ix'[u] = ix[u]
    /\ \A r \in Ids : mapped[r] \subseteq mapped'[r]
    /\ \A r \in Ids, u \in Threads \ {t} : local'[r][u] = local[r][u] /\ opened'[r][u] = opened[r][u]
    /\ UNCHANGED <<readers, registry, version>>

\* The others know what they knew.
LEMMA OthersAware ==
  ASSUME LoadInv, NEW m, Alone(m), HeaderInv, NEW t, Apart(t), NEW u \in Threads \ {t}, pc'[u] \in Watched
  PROVE  Aware(u)'
<1>1. /\ pc'[u] = pc[u] /\ job'[u] = job[u] /\ ix'[u] = ix[u] /\ UNCHANGED version
      /\ \A r \in Ids : local'[r][u] = local[r][u] /\ opened'[r][u] = opened[r][u] /\ mapped[r] \subseteq mapped'[r]
  BY DEF Apart
<1>2. Aware(u) /\ pc[u] # "idle" BY <1>1 DEF HeaderInv, Watched, Knowing
<1>3. PICK r \in Ids, p \in Paths : r = R(u) /\ p = P(u) BY <1>2, ReadsHere
<1>4. R(u)' = r /\ P(u)' = p BY <1>1, <1>3 DEF R, P
<1>5. PICK h \in Headers : h = ix[u] BY DEF HeaderInv, Tables
<1>6. version[p] \in Nat BY <1>3 DEF HeaderInv, Tables
<1>7. Tells(h, r, p)' BY <1>1, <1>2, <1>3, <1>5, <1>6, TellsStill DEF Aware
<1>8. Tells(ix[u], R(u), P(u))' BY <1>1, <1>4, <1>5, <1>7 DEF Tells
<1>9. (Replaced(u)' <=> Replaced(u)) /\ (ThroughOldMapping(u)' <=> ThroughOldMapping(u))
  BY <1>1, <1>3, <1>4 DEF Replaced, ThroughOldMapping, Held
<1> QED BY <1>1, <1>2, <1>8, <1>9 DEF Aware

\* A step of t that leaves what is remembered as it is, if t itself knows what it should.
LEMMA StepAware ==
  ASSUME LoadInv, NEW m, Alone(m), HeaderInv, NEW t \in Threads, Apart(t), UNCHANGED index,
         mapped' \in [Ids -> SUBSET Paths], ix' \in [Threads -> Headers],
         opened' \in [Ids -> [Threads -> [Paths -> Nat]]], Opened',
         pc'[t] \in Watched => Aware(t)'
  PROVE  HeaderInv'
<1>1. Tables' BY DEF HeaderInv, Tables, Apart
<1>2. ASSUME NEW r \in Ids, NEW p \in Paths PROVE Tells(index[r][p], r, p)'
  <2>1. PICK h \in Headers : h = index[r][p] BY DEF HeaderInv, Tables
  <2>2. Tells(h, r, p) BY <2>1 DEF HeaderInv, Remembered
  <2>3. version[p] \in Nat /\ UNCHANGED version /\ mapped[r] \subseteq mapped'[r] BY DEF HeaderInv, Tables, Apart
  <2>4. Tells(h, r, p)' BY <2>2, <2>3, TellsStill
  <2> QED BY <2>1, <2>4 DEF Tells
<1>3. Remembered' BY <1>2 DEF Remembered
<1>4. \A u \in Threads : pc'[u] \in Watched => Aware(u)' BY OthersAware
<1> QED BY <1>1, <1>3, <1>4 DEF HeaderInv

\* A header comes from memory when its stamp fits; the read begins with the stamp of the file now.
LEMMA LooksUp ==
  ASSUME LoadInv, NEW m, Alone(m), HeaderInv, NEW t \in Threads, LookUp(t)
  PROVE  HeaderInv'
<1>1. PICK r \in Ids, p \in Paths : r = R(t) /\ p = P(t) BY ReadsHere DEF LookUp
<1>2. PICK known \in Headers : known = IF Fresh(r, p) THEN index[r][p] ELSE NoIndex
  <2>1. NoIndex \in Headers BY DEF NoIndex, Headers
  <2>2. index[r][p] \in Headers BY DEF HeaderInv, Tables
  <2> QED BY <2>1, <2>2
<1>3. PICK v \in Nat : v = version[p] BY DEF HeaderInv, Tables
<1>4. PICK now : now = [known EXCEPT !.stamp = v] OBVIOUS
<1>5. now \in Headers /\ now.stamp = v /\ now.kind = known.kind /\ now.version = known.version
  BY <1>3, <1>4 DEF Headers
<1>6. ix' = [ix EXCEPT ![t] = now] BY <1>1, <1>2, <1>3, <1>4 DEF LookUp
<1>7. Goto(t, IF known = NoIndex THEN "parse" ELSE "choose") BY <1>1, <1>2 DEF LookUp
<1>8. UNCHANGED <<readers, registry, index, mapped, local, opened, version, job>> BY DEF LookUp, tables
<1>9. /\ pc'[t] = (IF known = NoIndex THEN "parse" ELSE "choose") /\ \A u \in Threads \ {t} : pc'[u] = pc[u]
      /\ ix'[t] = now /\ ix' \in [Threads -> Headers] /\ \A u \in Threads \ {t} : ix'[u] = ix[u]
  BY <1>5, <1>6, <1>7 DEF Goto, LoadInv, Typed, HeaderInv, Tables
<1>10. Apart(t) BY <1>8, <1>9 DEF Apart
<1>11. /\ known # NoIndex => known = index[r][p] /\ known.kind # "none" /\ known.stamp = v
       /\ known = NoIndex => known.kind = "none"
  BY <1>2, <1>3 DEF Fresh, NoIndex
<1>12. Tells(index[r][p], r, p) BY DEF HeaderInv, Remembered
<1>13. Tells(now, r, p)
  <2>1. CASE known = NoIndex BY <1>3, <1>5, <1>11, <2>1 DEF Tells, NoIndex
  <2>2. CASE known # NoIndex
    <3>1. now.stamp = known.stamp /\ now.kind = known.kind /\ now.version = known.version BY <1>5, <1>11, <2>2
    <3>2. Tells(known, r, p) BY <1>11, <1>12, <2>2
    <3> QED BY <3>1, <3>2 DEF Tells
  <2> QED BY <2>1, <2>2
<1>14. Aware(t)'
  <2>1. R(t)' = r /\ P(t)' = p BY <1>1, <1>8 DEF R, P
  <2>2. Tells(ix[t], R(t), P(t))' BY <1>8, <1>9, <1>13, <2>1 DEF Tells
  <2>3. pc'[t] \in Knowing => ix'[t].kind # "none" BY <1>5, <1>9, <1>11 DEF Knowing
  <2> QED BY <1>9, <2>2, <2>3 DEF Aware
<1>15. Opened' BY <1>8 DEF HeaderInv, Opened
<1> QED BY <1>8, <1>9, <1>10, <1>14, <1>15, StepAware DEF HeaderInv, Tables

\* A header parsed now is of the file as it is, and says how the shard is read.
LEMMA ParsedIsKnown ==
  ASSUME LoadInv, NEW m, Alone(m), HeaderInv, NEW t \in Threads, ParseHeader(t)
  PROVE  HeaderInv'
<1>1. PICK r \in Ids, p \in Paths : r = R(t) /\ p = P(t) BY ReadsHere DEF ParseHeader
<1>2. PICK old \in Headers : old = ix[t] BY DEF HeaderInv, Tables
<1>3. PICK v \in Nat : v = version[p] BY DEF HeaderInv, Tables
<1>4. PICK now : now = [kind |-> IF p \in Declined THEN "no offsets" ELSE "offsets", stamp |-> old.stamp, version |-> v]
  OBVIOUS
<1>5. /\ now \in Headers /\ now.stamp = old.stamp /\ now.version = v /\ now.kind # "none"
      /\ now.kind = "no offsets" => p \in Declined
  BY <1>3, <1>4 DEF Headers
<1>6. /\ ix' = [ix EXCEPT ![t] = now] /\ Goto(t, "store")
      /\ mapped' = [mapped EXCEPT ![r] = IF p \in Declined THEN mapped[r] \cup {p} ELSE mapped[r]]
      /\ UNCHANGED <<readers, registry, index, local, opened, version, job>>
  BY <1>1, <1>2, <1>3, <1>4 DEF ParseHeader
<1>7. /\ pc'[t] = "store" /\ \A u \in Threads \ {t} : pc'[u] = pc[u]
      /\ ix'[t] = now /\ ix' \in [Threads -> Headers] /\ \A u \in Threads \ {t} : ix'[u] = ix[u]
  BY <1>5, <1>6 DEF Goto, LoadInv, Typed, HeaderInv, Tables
<1>8. /\ mapped' \in [Ids -> SUBSET Paths] /\ \A q \in Ids : mapped[q] \subseteq mapped'[q]
      /\ p \in Declined => p \in mapped'[r]
  BY <1>6 DEF HeaderInv, Tables
<1>9. Apart(t) BY <1>6, <1>7, <1>8 DEF Apart
<1>10. Aware(t)'
  <2>1. R(t)' = r /\ P(t)' = p BY <1>1, <1>6 DEF R, P
  <2>2. Tells(old, r, p) BY <1>1, <1>2 DEF HeaderInv, Aware, Watched, ParseHeader
  <2>3. Tells(now, r, p)' BY <1>3, <1>5, <1>6, <1>8, <2>2 DEF Tells
  <2>4. Tells(ix[t], R(t), P(t))' BY <1>7, <2>1, <2>3 DEF Tells
  <2> QED BY <1>5, <1>7, <2>4 DEF Aware
<1>11. Opened' BY <1>6 DEF HeaderInv, Opened
<1> QED BY <1>6, <1>7, <1>8, <1>9, <1>10, <1>11, StepAware DEF HeaderInv, Tables

\* What is remembered is what the thread knows.
LEMMA RememberedIsKnown ==
  ASSUME LoadInv, NEW m, Alone(m), HeaderInv, NEW t \in Threads, Remember(t)
  PROVE  HeaderInv'
<1>1. PICK r \in Ids, p \in Paths : r = R(t) /\ p = P(t) BY ReadsHere DEF Remember
<1>2. PICK now \in Headers : now = ix[t] BY DEF HeaderInv, Tables
<1>3. /\ index' = [index EXCEPT ![r][p] = now] /\ Goto(t, "choose")
      /\ UNCHANGED <<readers, registry, mapped, local, opened, version, job, ix>>
  BY <1>1, <1>2 DEF Remember
<1>4. pc'[t] = "choose" /\ \A u \in Threads \ {t} : pc'[u] = pc[u] BY <1>3 DEF Goto, LoadInv, Typed
<1>5. Aware(t) BY DEF HeaderInv, Watched, Knowing, Remember
<1>6. Apart(t) BY <1>3, <1>4 DEF Apart
<1>7. Tables'
  <2>1. index' \in [Ids -> [Paths -> Headers]] BY <1>3 DEF HeaderInv, Tables
  <2> QED BY <1>3, <2>1 DEF HeaderInv, Tables
<1>8. Tells(now, r, p) BY <1>1, <1>2, <1>5 DEF Aware
<1>9. ASSUME NEW q \in Ids, NEW o \in Paths PROVE Tells(index[q][o], q, o)'
  <2>1. Tells(index[q][o], q, o) BY DEF HeaderInv, Remembered
  <2>2. index'[q][o] = index[q][o] \/ (index'[q][o] = now /\ q = r /\ o = p) BY <1>3 DEF HeaderInv, Tables
  <2> QED BY <1>3, <1>8, <2>1, <2>2 DEF Tells
<1>10. Aware(t)'
  <2>1. R(t)' = r /\ P(t)' = p BY <1>1, <1>3 DEF R, P
  <2>2. Tells(ix[t], R(t), P(t))' BY <1>2, <1>3, <1>8, <2>1 DEF Tells
  <2>3. ix[t].kind # "none" BY <1>5 DEF Aware, Remember, Knowing
  <2> QED BY <1>3, <1>4, <2>2, <2>3 DEF Aware
<1>11. ASSUME NEW u \in Threads, pc'[u] \in Watched PROVE Aware(u)' BY <1>6, <1>10, <1>11, OthersAware
<1>12. Opened' /\ Remembered' BY <1>3, <1>9 DEF HeaderInv, Opened, Remembered
<1> QED BY <1>7, <1>11, <1>12 DEF HeaderInv

\* A thread that goes on in a read knows what it knew, whatever handles it opens and closes.
LEMMA KnowsStill ==
  ASSUME LoadInv, NEW m, Alone(m), HeaderInv, NEW t \in Threads, pc[t] \in Knowing, NEW q \in Knowing, Goto(t, q),
         UNCHANGED <<readers, registry, index, mapped, ix, version, job>>, q = "range" => ix[t].kind = "offsets",
         \A r \in Ids, u \in Threads \ {t} : local'[r][u] = local[r][u] /\ opened'[r][u] = opened[r][u],
         opened' \in [Ids -> [Threads -> [Paths -> Nat]]], Opened'
  PROVE  HeaderInv'
<1>1. pc'[t] = q /\ \A u \in Threads \ {t} : pc'[u] = pc[u] BY DEF Goto, LoadInv, Typed
<1>2. Apart(t) BY <1>1 DEF Apart
<1>3. Aware(t) BY DEF HeaderInv, Watched
<1>4. Tells(ix[t], R(t), P(t))' BY <1>3 DEF Aware, Tells, R, P
<1>5. Aware(t)' BY <1>1, <1>3, <1>4 DEF Aware, Knowing
<1> QED BY <1>2, <1>5, StepAware DEF HeaderInv, Tables

\* A read by range gives its own bytes, or the file was replaced since the read began; one through
\* a mapping gives the bytes of the file the mapping is of.
LEMMA OutcomeIsTheirs ==
  ASSUME LoadInv, NEW m, Alone(m), HeaderInv, NEW t \in Threads, Read(t)
  PROVE  Outcome(t) = "other" => Replaced(t) \/ ThroughOldMapping(t)
<1>1. PICK r \in Ids, p \in Paths : r = R(t) /\ p = P(t) BY ReadsHere DEF Read
<1>2. PICK h \in Headers : h = ix[t] BY DEF HeaderInv, Tables
<1>3. Aware(t) BY DEF HeaderInv, Watched, Knowing, Read
<1>4. Tells(h, r, p) /\ h.kind # "none" BY <1>1, <1>2, <1>3 DEF Aware, Knowing, Read
<1>5. CASE pc[t] = "range"
  <2>1. h.kind = "offsets" BY <1>2, <1>3, <1>5 DEF Aware
  <2>2. h.stamp = version[p] => h.version = version[p] BY <1>4 DEF Tells
  <2> QED BY <1>1, <1>2, <1>5, <2>1, <2>2 DEF Outcome, Replaced
<1>6. CASE pc[t] = "mapping"
  <2>1. PICK n \in Nat : n = opened[r][t][p] BY DEF HeaderInv, Tables
  <2>2. n <= version[p] /\ version[p] \in Nat BY <2>1 DEF HeaderInv, Opened, Tables
  <2>3. Outcome(t) = "other" => P(t) \in ToSet(Held(t)) /\ n # version[p] BY <1>1, <1>6, <2>1 DEF Outcome
  <2>4. n # version[p] /\ h.stamp = version[p] => n < h.stamp BY <2>2
  <2> QED BY <1>1, <1>2, <2>1, <2>3, <2>4 DEF Replaced, ThroughOldMapping
<1> QED BY <1>5, <1>6 DEF Read

\* A thread that ends a read with its own bytes or an error knows nothing any more; one that got
\* other bytes had the file replaced under it.
LEMMA FinishForgets ==
  ASSUME LoadInv, NEW m, Alone(m), HeaderInv, NEW t \in Threads, NEW outcome \in {"bytes", "error", "other"},
         Finish(t, outcome), pc[t] \in {"range", "mapping"},
         outcome = "other" => Replaced(t) \/ ThroughOldMapping(t)
  PROVE  HeaderInv'
<1>1. PICK r \in Ids, p \in Paths : r = R(t) /\ p = P(t) BY ReadsHere
<1>2. PICK q \in {"wait", "idle", "garbage"} : Goto(t, q) /\ (q = "garbage" => outcome = "other") BY DEF Finish
<1>3. pc'[t] = q /\ \A u \in Threads \ {t} : pc'[u] = pc[u] BY <1>2 DEF Goto, LoadInv, Typed
<1>4. UNCHANGED <<readers, registry, index, mapped, local, opened, version>> BY DEF Finish, tables
<1>5. /\ \A u \in Threads \ {t} : job'[u] = job[u] /\ ix'[u] = ix[u]
      /\ ix' \in [Threads -> Headers]
      /\ outcome = "other" => ix' = ix /\ (q = "garbage" => job' = job)
  <2>1. NoIndex \in Headers BY DEF NoIndex, Headers
  <2>2. job' = (IF pc'[t] = "idle" THEN [job EXCEPT ![t] = <<>>] ELSE job)
        /\ ix' = (IF outcome = "other" THEN ix ELSE [ix EXCEPT ![t] = NoIndex])
    BY DEF Finish
  <2> QED BY <1>3, <2>1, <2>2 DEF LoadInv, Typed, HeaderInv, Tables
<1>6. Apart(t) BY <1>3, <1>4, <1>5 DEF Apart
<1>7. ASSUME pc'[t] \in Watched PROVE Aware(t)'
  <2>1. q = "garbage" /\ outcome = "other" BY <1>2, <1>3, <1>7 DEF Watched, Knowing
  <2>2. ix' = ix /\ job' = job BY <1>5, <2>1
  <2>3. Aware(t) BY DEF HeaderInv, Watched, Knowing
  <2>4. Tells(ix[t], R(t), P(t))' BY <1>4, <2>2, <2>3 DEF Aware, Tells, R, P
  <2>5. (Replaced(t) \/ ThroughOldMapping(t))' BY <1>4, <2>1, <2>2 DEF Replaced, ThroughOldMapping, Held, R, P
  <2> QED BY <1>3, <2>1, <2>4, <2>5 DEF Aware, Knowing
<1>8. Opened' BY <1>4 DEF HeaderInv, Opened
<1> QED BY <1>4, <1>5, <1>6, <1>7, <1>8, StepAware DEF HeaderInv, Tables

\* A step of a read keeps what the threads know true.
LEMMA HeadersRead ==
  ASSUME LoadInv, NEW m, Alone(m), HeaderInv, NEW t \in Threads, Step(t)
  PROVE  HeaderInv'
<1>1. pc[t] # "idle"
  BY DEF Step, LookUp, ParseHeader, Remember, Choose, OpenHandle, Evict, Read, ReadFails
<1>2. PICK r \in Ids, p \in Paths : r = R(t) /\ p = P(t) BY <1>1, ReadsHere
<1>3. ASSUME NEW q \in Knowing, pc[t] \in Knowing, Goto(t, q), q = "range" => ix[t].kind = "offsets",
             UNCHANGED <<readers, registry, index, mapped, opened, ix, version, job>>,
             \A s \in Ids, u \in Threads \ {t} : local'[s][u] = local[s][u]
      PROVE  HeaderInv'
  BY <1>3, KnowsStill DEF HeaderInv, Opened, Tables
<1>4. CASE Choose(t)
  <2>1. Aware(t) /\ pc[t] = "choose" BY <1>4 DEF HeaderInv, Watched, Knowing, Choose
  <2>2. UNCHANGED <<readers, registry, index, mapped, opened, local, ix, version, job>> BY <1>4 DEF Choose, tables
  <2>3. CASE ByMapping(r, p)
    <3>1. Goto(t, "handle") BY <1>2, <1>4, <2>3 DEF Choose
    <3> QED BY <1>3, <2>1, <2>2, <3>1 DEF Knowing
  <2>4. CASE ~ByMapping(r, p)
    <3>1. Goto(t, "range") BY <1>2, <1>4, <2>4 DEF Choose
    <3>2. ix[t] \in Headers BY DEF HeaderInv, Tables
    <3>3. ix[t].kind # "none" BY <2>1 DEF Aware, Knowing
    <3>4. ix[t].kind # "no offsets" BY <1>2, <2>1, <2>4 DEF Aware, Tells, ByMapping
    <3>5. ix[t].kind = "offsets" BY <3>2, <3>3, <3>4 DEF Headers
    <3> QED BY <1>3, <2>1, <2>2, <3>1, <3>5 DEF Knowing
  <2> QED BY <2>3, <2>4
<1>5. ASSUME NEW f, local' = [local EXCEPT ![R(t)][t] = f]
      PROVE  \A s \in Ids, u \in Threads \ {t} : local'[s][u] = local[s][u]
  BY <1>5 DEF Alone
<1>6. CASE OpenHandle(t)
  <2>1. PICK q \in {"evict", "mapping"} : Goto(t, q) BY <1>6 DEF OpenHandle
  <2>2. PICK f : local' = [local EXCEPT ![R(t)][t] = f] BY <1>6 DEF OpenHandle
  <2>3. PICK v \in Nat : v = version[p] BY DEF HeaderInv, Tables
  <2>4. opened' = opened \/ opened' = [opened EXCEPT ![r][t][p] = v] BY <1>2, <1>6, <2>3 DEF OpenHandle
  <2>5. /\ opened' \in [Ids -> [Threads -> [Paths -> Nat]]]
        /\ \A s \in Ids, u \in Threads : u # t => opened'[s][u] = opened[s][u]
        /\ \A s \in Ids, u \in Threads, o \in Paths :
              opened'[s][u][o] = opened[s][u][o] \/ (o = p /\ opened'[s][u][o] = v)
    <3>1. CASE opened' = opened BY <3>1 DEF HeaderInv, Tables
    <3>2. CASE opened' = [opened EXCEPT ![r][t][p] = v]
      <4>1. opened \in [Ids -> [Threads -> [Paths -> Nat]]] BY DEF HeaderInv, Tables
      <4>2. [opened[r][t] EXCEPT ![p] = v] \in [Paths -> Nat] BY <2>3, <4>1
      <4>3. opened' \in [Ids -> [Threads -> [Paths -> Nat]]] BY <3>2, <4>1, <4>2
      <4>4. \A s \in Ids, u \in Threads : ~(s = r /\ u = t) => opened'[s][u] = opened[s][u] BY <3>2, <4>1
      <4>5. opened'[r][t] = [opened[r][t] EXCEPT ![p] = v] BY <3>2, <4>1
      <4>6. \A o \in Paths : opened'[r][t][o] = opened[r][t][o] \/ (o = p /\ opened'[r][t][o] = v)
        BY <4>1, <4>5
      <4> QED BY <4>3, <4>4, <4>6
    <3> QED BY <2>4, <3>1, <3>2
  <2>6. UNCHANGED <<readers, registry, index, mapped, ix, version, job>> /\ pc[t] = "handle" BY <1>6 DEF OpenHandle
  <2>7. Opened'
    <3> SUFFICES ASSUME NEW s \in Ids, NEW u \in Threads, NEW o \in Paths PROVE opened'[s][u][o] <= version[o]
      BY <2>6 DEF Opened
    <3>1. opened[s][u][o] <= version[o] BY DEF HeaderInv, Opened
    <3>2. CASE opened'[s][u][o] = opened[s][u][o] BY <3>1, <3>2
    <3>3. CASE o = p /\ opened'[s][u][o] = v BY <2>3, <3>3
    <3> QED BY <2>5, <3>2, <3>3
  <2> QED BY <1>5, <2>1, <2>2, <2>5, <2>6, <2>7, KnowsStill DEF Knowing
<1>7. CASE Evict(t)
  <2>1. PICK f : local' = [local EXCEPT ![R(t)][t] = f] BY <1>7 DEF Evict
  <2>2. Goto(t, "mapping") /\ pc[t] = "evict" /\ UNCHANGED <<readers, registry, index, mapped, opened, ix, version, job>>
    BY <1>7 DEF Evict
  <2> QED BY <1>3, <1>5, <2>1, <2>2 DEF Knowing
<1>8. CASE Read(t)
  <2>1. Outcome(t) \in {"bytes", "error", "other"} BY <1>8 DEF Read, Outcome
  <2> QED BY <1>8, <2>1, OutcomeIsTheirs, FinishForgets DEF Read
<1>9. CASE ReadFails(t) BY <1>9, FinishForgets DEF ReadFails
<1> QED BY <1>4, <1>6, <1>7, <1>8, <1>9, LooksUp, ParsedIsKnown, RememberedIsKnown DEF Step

\* The only model's reader is made and released with nothing in hand.
LEMMA HeadersReleased ==
  ASSUME LoadInv, Registered, NEW m, Models = {m}, Alone(m), HeaderInv, Configure(m) \/ Close(m)
  PROVE  HeaderInv'
<1>1. \A t \in Threads : pc[t] = "idle"
  <2>1. CASE Configure(m) BY <2>1 DEF Alone, Configure
  <2>2. CASE Close(m) BY <2>2, AllIdle DEF Close
  <2> QED BY <2>1, <2>2
<1>2. UNCHANGED <<pc, version, ix, opened>> BY DEF Configure, Close
<1>3. /\ index' = index \/ \E r \in Ids : index' = [index EXCEPT ![r] = [p \in Paths |-> NoIndex]]
      /\ mapped' = mapped \/ \E r \in Ids : mapped' = [mapped EXCEPT ![r] = {}]
      /\ \A r \in Ids, p \in Paths : index'[r][p] = NoIndex \/ (index'[r][p] = index[r][p] /\ mapped'[r] = mapped[r])
  <2>1. open[m] = registry /\ registry \in Ids \cup {None} BY DEF Alone, HeaderInv, Tables
  <2>2. Released(registry) BY <2>1 DEF Configure, Close
  <2>3. CASE registry = None BY <2>2, <2>3 DEF Released
  <2>4. CASE registry \in Ids
    <3>1. registry # None BY <2>4 DEF Ids, None
    <3>2. /\ index' = [index EXCEPT ![registry] = [p \in Paths |-> NoIndex]]
          /\ mapped' = [mapped EXCEPT ![registry] = {}]
      BY <2>2, <3>1 DEF Released
    <3>3. ASSUME NEW r \in Ids, NEW p \in Paths
          PROVE  index'[r][p] = NoIndex \/ (index'[r][p] = index[r][p] /\ mapped'[r] = mapped[r])
      <4>1. CASE r = registry BY <2>4, <3>2, <4>1 DEF HeaderInv, Tables
      <4>2. CASE r # registry BY <2>4, <3>2, <4>2 DEF HeaderInv, Tables
      <4> QED BY <4>1, <4>2
    <3> QED BY <2>4, <3>2, <3>3
  <2> QED BY <2>1, <2>3, <2>4
<1>4. NoIndex \in Headers /\ NoIndex.kind = "none" /\ NoIndex.stamp = 0 BY DEF NoIndex, Headers
<1>5. index' \in [Ids -> [Paths -> Headers]] /\ mapped' \in [Ids -> SUBSET Paths]
  <2>1. index \in [Ids -> [Paths -> Headers]] /\ mapped \in [Ids -> SUBSET Paths] BY DEF HeaderInv, Tables
  <2>2. [p \in Paths |-> NoIndex] \in [Paths -> Headers] BY <1>4
  <2>3. index' \in [Ids -> [Paths -> Headers]]
    <3>1. ASSUME NEW r \in Ids, index' = [index EXCEPT ![r] = [p \in Paths |-> NoIndex]]
          PROVE  index' \in [Ids -> [Paths -> Headers]]
      BY <2>1, <2>2, <3>1
    <3> QED BY <1>3, <2>1, <3>1
  <2>4. mapped' \in [Ids -> SUBSET Paths] BY <1>3, <2>1
  <2> QED BY <2>3, <2>4
<1>6. Len(readers') <= MaxReaders /\ registry' \in Ids \cup {None}
  <2>1. CASE Configure(m)
    <3>1. PICK x : readers' = Append(readers, x) BY <2>1 DEF Configure
    <3>2. PICK S : readers \in Seq(S) BY DEF Registered
    <3>3. Len(readers') = Len(readers) + 1 /\ Len(readers) \in Nat BY <3>1, <3>2, OneMore
    <3> QED BY <2>1, <3>3, ShardsAssumption DEF Configure, Ids, ShardsAssumption
  <2>2. CASE Close(m) BY <2>2 DEF Close, HeaderInv, Tables
  <2> QED BY <2>1, <2>2
<1>7. Tables' BY <1>2, <1>5, <1>6 DEF HeaderInv, Tables
<1>8. ASSUME NEW r \in Ids, NEW p \in Paths PROVE Tells(index[r][p], r, p)'
  <2>1. Tells(index[r][p], r, p) BY DEF HeaderInv, Remembered
  <2>2. version[p] \in Nat /\ UNCHANGED version BY <1>2 DEF HeaderInv, Tables
  <2>3. CASE index'[r][p] = NoIndex
    <3>1. PICK h : h = NoIndex OBVIOUS
    <3>2. h.stamp <= version[p] /\ h.kind = "none" BY <1>4, <2>2, <3>1
    <3>3. version'[p] = version[p] /\ index'[r][p] = h BY <2>2, <2>3, <3>1
    <3> QED BY <3>2, <3>3 DEF Tells
  <2>4. CASE index'[r][p] = index[r][p] /\ mapped'[r] = mapped[r] BY <2>1, <2>2, <2>4 DEF Tells
  <2> QED BY <1>3, <2>3, <2>4
<1>9. Remembered' /\ Opened' BY <1>2, <1>8 DEF HeaderInv, Opened, Remembered
<1> QED BY <1>1, <1>2, <1>7, <1>9 DEF HeaderInv, Watched, Knowing

\* A shard that is replaced has a stamp that no header is remembered by, and no mapping is of it.
LEMMA HeadersReplaced ==
  ASSUME LoadInv, NEW m, Alone(m), HeaderInv, NEW p \in Paths, Rewrite(p)
  PROVE  HeaderInv'
<1>1. version' = [version EXCEPT ![p] = version[p] + 1]
      /\ UNCHANGED <<readers, registry, index, mapped, local, opened, ix, pc, job>>
  BY DEF Rewrite, tables
<1>2. version' \in [Paths -> Nat] /\ \A o \in Paths : version[o] \in Nat /\ version[o] <= version'[o]
  BY <1>1 DEF HeaderInv, Tables
<1>3. Tables' BY <1>1, <1>2 DEF HeaderInv, Tables
<1>4. Opened'
  <2> SUFFICES ASSUME NEW r \in Ids, NEW t \in Threads, NEW o \in Paths PROVE opened[r][t][o] <= version'[o]
    BY <1>1 DEF Opened
  <2>1. PICK n \in Nat : n = opened[r][t][o] BY DEF HeaderInv, Tables
  <2>2. n <= version[o] /\ version'[o] \in Nat BY <1>2, <2>1 DEF HeaderInv, Opened
  <2> QED BY <1>2, <2>1, <2>2
<1>5. ASSUME NEW h \in Headers, NEW r, NEW o \in Paths, Tells(h, r, o) PROVE Tells(h, r, o)'
  BY <1>1, <1>2, <1>5, TellsStill
<1>6. ASSUME NEW r \in Ids, NEW o \in Paths PROVE Tells(index[r][o], r, o)'
  <2>1. PICK h \in Headers : h = index[r][o] BY DEF HeaderInv, Tables
  <2>2. Tells(h, r, o) BY <2>1 DEF HeaderInv, Remembered
  <2>3. Tells(h, r, o)' BY <1>5, <2>2
  <2> QED BY <1>1, <2>1, <2>3 DEF Tells
<1>7. ASSUME NEW t \in Threads, pc[t] \in Watched PROVE Aware(t)'
  <2>1. Aware(t) /\ pc[t] # "idle" BY <1>7 DEF HeaderInv, Watched, Knowing
  <2>2. PICK r \in Ids, o \in Paths : r = R(t) /\ o = P(t) BY <2>1, ReadsHere
  <2>3. R(t)' = r /\ P(t)' = o BY <1>1, <2>2 DEF R, P
  <2>4. PICK h \in Headers : h = ix[t] BY DEF HeaderInv, Tables
  <2>5. Tells(h, r, o) BY <2>1, <2>2, <2>4 DEF Aware
  <2>6. Tells(ix[t], R(t), P(t))'
    <3>1. Tells(h, r, o)' BY <1>5, <2>5
    <3> QED BY <1>1, <2>3, <2>4, <3>1 DEF Tells
  <2>7. Replaced(t) => Replaced(t)'
    <3>1. h.stamp <= version[o] /\ h.stamp \in Nat /\ version'[o] \in Nat BY <1>2, <2>5 DEF Tells, Headers
    <3>2. h.stamp # version[o] => h.stamp # version'[o] BY <1>2, <3>1
    <3> QED BY <1>1, <2>2, <2>3, <2>4, <3>2 DEF Replaced
  <2>8. ThroughOldMapping(t) => ThroughOldMapping(t)' BY <1>1, <2>2, <2>3 DEF ThroughOldMapping, Held
  <2> QED BY <1>1, <2>1, <2>6, <2>7, <2>8 DEF Aware
<1> QED BY <1>1, <1>3, <1>4, <1>6, <1>7 DEF HeaderInv, Remembered

\* A step of a thread that ends or begins a read, or waits, touches no header and no handle.
LEMMA HeadersElsewhere ==
  ASSUME LoadInv, NEW m, Alone(m), HeaderInv, NEW t \in Threads,
         UNCHANGED <<readers, registry, tables, ix, version>>, pc'[t] \notin Watched,
         \A u \in Threads \ {t} : pc'[u] = pc[u] /\ job'[u] = job[u]
  PROVE  HeaderInv'
<1>1. UNCHANGED <<index, mapped, local, opened>> BY DEF tables
<1>2. Apart(t) BY <1>1 DEF Apart
<1>3. Opened' BY <1>1 DEF HeaderInv, Opened
<1> QED BY <1>1, <1>2, <1>3, StepAware DEF HeaderInv, Tables

\* Every step of the only model keeps the headers true.
LEMMA HeadersKept ==
  ASSUME LoadInv, Registered, NEW m, Models = {m}, Alone(m), HeaderInv, [Next]_vars
  PROVE  HeaderInv'
<1>1. ASSUME NEW n \in Models, Configure(n) \/ Close(n) PROVE HeaderInv' BY <1>1, HeadersReleased
<1>2. ASSUME NEW c \in AllCallers, NEW p \in Paths, Load(c, p) \/ ReadRows(c, p) PROVE HeaderInv'
  <2>1. Callers[c] = m BY ShardsAssumption DEF ShardsAssumption, AllCallers
  <2>2. registry # None BY <1>2, <2>1 DEF Alone, Load, ReadRows
  <2>3. UNCHANGED <<readers, registry, tables, ix, version>> BY <1>2, <2>2 DEF Load, ReadRows
  <2>4. pc' = [pc EXCEPT ![c] = "index"] /\ \A t \in Threads \ {c} : job'[t] = job[t]
    BY <1>2, CallersAndPool DEF Load, ReadRows, LoadInv, Typed
  <2> QED BY <2>3, <2>4, HeadersElsewhere, CallersAndPool DEF Knowing, Watched, LoadInv, Typed
<1>3. ASSUME NEW c \in AllCallers, Filled(c) \/ Place(c) PROVE HeaderInv'
  <2>1. UNCHANGED <<readers, registry, tables, ix, version>> BY <1>3 DEF Filled, Place
  <2>2. PICK q \in {"idle", "loaded"} : Goto(c, q) BY <1>3 DEF Filled, Place
  <2>3. \A t \in Threads \ {c} : job'[t] = job[t] BY <1>3, CallersAndPool DEF Filled, Place, LoadInv, Typed
  <2> QED BY <2>1, <2>2, <2>3, HeadersElsewhere, CallersAndPool DEF Knowing, Watched, Goto, LoadInv, Typed
<1>4. ASSUME NEW t \in Threads, Take(t) PROVE HeaderInv'
  <2>1. UNCHANGED <<readers, registry, tables, ix, version>> BY <1>4 DEF Take
  <2>2. pc' = [pc EXCEPT ![t] = "index"] /\ \A u \in Threads \ {t} : job'[u] = job[u]
    BY <1>4 DEF Take, LoadInv, Typed
  <2> QED BY <2>1, <2>2, HeadersElsewhere DEF Knowing, Watched, LoadInv, Typed
<1>5. ASSUME NEW t \in Threads, Step(t) PROVE HeaderInv' BY <1>5, HeadersRead
<1>6. ASSUME NEW p \in Paths, Rewrite(p) PROVE HeaderInv' BY <1>6, HeadersReplaced
<1>7. ASSUME UNCHANGED vars PROVE HeaderInv'
  BY <1>7 DEF vars, tables, HeaderInv, Tables, Remembered, Opened, Aware, Tells, Replaced, ThroughOldMapping, Held, R, P
<1> QED BY <1>1, <1>2, <1>3, <1>4, <1>5, <1>6, <1>7 DEF Next, AllCallers

(***************************************************************************)
(* With one model on the directory a read gives the bytes of the tensor it *)
(* names in the file that is there, for every number of threads and shards,*)
(* whatever headers are refused, and with files replaced at any moment,    *)
(* read, mapped or queued: unless the file was replaced since the read     *)
(* began, or is read through a mapping opened before that.  index()        *)
(* compares the stamp it took first, though header and file are looked at  *)
(* in separate steps and the reader's tables are shared.                   *)
(***************************************************************************)
THEOREM BytesOfOne ==
  ASSUME NEW m, Models = {m}
  PROVE  Spec => []BytesAreTheirs
<1> DEFINE Inv == LoadInv /\ Registered /\ Alone(m) /\ HeaderInv
<1>1. Init => Inv
  <2> SUFFICES ASSUME Init PROVE Inv OBVIOUS
  <2>1. Alone(m) BY DEF Init, Alone, Handles
  <2>2. NoIndex \in Headers /\ NoIndex.kind = "none" /\ NoIndex.stamp = 0 BY DEF NoIndex, Headers
  <2>3. Tables BY <2>2, ShardsAssumption DEF Init, Tables, ShardsAssumption
  <2>4. Remembered
    <3> SUFFICES ASSUME NEW r \in Ids, NEW p \in Paths PROVE Tells(index[r][p], r, p) BY DEF Remembered
    <3>1. PICK h : h = NoIndex OBVIOUS
    <3>2. index[r][p] = h /\ version[p] = 0 BY <3>1 DEF Init
    <3>3. h.kind = "none" /\ h.stamp = 0 BY <2>2, <3>1
    <3> QED BY <3>2, <3>3 DEF Tells
  <2>5. Opened /\ \A t \in Threads : pc[t] \notin Watched BY DEF Init, Opened, Watched, Knowing
  <2> QED BY <2>1, <2>3, <2>4, <2>5, LoadInvInit DEF HeaderInv
<1>2. Inv /\ [Next]_vars => Inv' BY LoadInvKept, AloneKept, HeadersKept
<1>3. Inv => BytesAreTheirs BY DEF HeaderInv, Watched, Aware, BytesAreTheirs
<1> QED BY <1>1, <1>2, <1>3, PTL DEF Spec

(***************************************************************************)
(* The limit on the files that are held mapped.                            *)
(***************************************************************************)
Strategies == [mode : {"direct", "mapped"}, limit : Nat]
Readers == [mode : {"direct", "mapped"}, per : Nat, limit : Nat]

\* What a reader publishes is enough for what it lets each thread hold.
Shares(n) == {x \in Readers : x.limit > 0 => x.per > 0 /\ x.per * n <= x.limit}

\* What a thread holds through a reader, while it swaps one file for another one more.
Swapping(r) == {t \in Threads : pc[t] = "evict" /\ R(t) = r}
Numbered ==
    /\ readers \in Seq(Shares(ReaderThreads)) /\ Len(readers) <= MaxReaders
    /\ registry \in 0 .. Len(readers) /\ open \in [Models -> 0 .. Len(readers)]
    /\ \A t \in Threads : pc[t] # "idle" => R(t) \in 1 .. Len(readers)
    /\ \A j \in queue : j.reader \in 1 .. Len(readers)
FewHeld ==
    /\ local \in [Ids -> [Threads -> Seq(Paths)]]
    /\ \A r \in Ids : r > Len(readers) => \A t \in Threads : local[r][t] = <<>>
    /\ \A r \in 1 .. Len(readers) : readers[r].per > 0 =>
          \A t \in Threads : Len(local[r][t]) <= readers[r].per + (IF t \in Swapping(r) THEN 1 ELSE 0)
HandleInv == Numbered /\ FewHeld

\* A setting and a machine make a reader that keeps its word.
LEMMA BuiltShares ==
  ASSUME NEW strategy \in Strategies, NEW n \in Nat \ {0}
  PROVE  Built(strategy, n) \in Shares(n)
<1> DEFINE limit == strategy.limit
<1>0. limit \in Nat /\ strategy.mode \in {"direct", "mapped"} BY DEF Strategies
<1> DEFINE per == PerThread(limit, n)
<1>3. Built(strategy, n) = [mode |-> strategy.mode, per |-> per, limit |-> Larger(limit, per * n)]
  BY DEF Built
<1> HIDE DEF limit
<1>1. limit \div n \in Nat BY <1>0
<1>2. per \in Nat /\ (limit > 0 => per > 0) /\ (limit = 0 => per = 0) BY <1>0, <1>1 DEF PerThread, Larger
<1> HIDE DEF per
<1>4. per * n \in Nat BY <1>2
<1> DEFINE all == per * n
<1>5. Larger(limit, all) \in Nat /\ all <= Larger(limit, all) /\ (Larger(limit, all) > 0 => limit > 0 \/ all > 0)
  <2>1. all \in Nat BY <1>4
  <2> HIDE DEF all
  <2> QED BY <1>0, <2>1 DEF Larger
<1>6. limit = 0 => all = 0 BY <1>2
<1>7. Larger(limit, all) > 0 => per > 0 BY <1>2, <1>5, <1>6
<1> QED BY <1>0, <1>2, <1>3, <1>5, <1>7 DEF Shares, Readers

\* Every strategy is a way to read with a natural limit, and a reader built from it keeps its word.
LEMMA ConfiguredShares ==
  ASSUME NEW host \in Machines, NEW s \in Settings
  PROVE  Built(Strategy(host, s), ReaderThreads) \in Shares(ReaderThreads)
<1>1. /\ host.headroom \in Nat /\ host.largest \in Nat /\ host.floor \in Nat /\ host.ceiling \in Nat
      /\ s.kind \in {"auto", "direct", "unbounded", "count"} /\ s.count \in Nat /\ ReaderThreads \in Nat \ {0}
  BY ShardsAssumption DEF ShardsAssumption
<1>2. Budget(host) \in Nat BY <1>1 DEF Budget
<1>3. Direct \in Strategies /\ \A limit \in Nat : Mapped(limit) \in Strategies BY DEF Direct, Mapped, Strategies
<1>4. DirectOrBounded(host) \in Strategies
  <2> DEFINE affordable == IF host.largest > 0 /\ Budget(host) > 0 THEN Budget(host) \div host.largest ELSE host.ceiling
  <2>1. affordable \in Nat
    <3>1. host.largest > 0 => Budget(host) \div host.largest \in Nat BY <1>1, <1>2
    <3> QED BY <1>1, <3>1
  <2>2. DirectOrBounded(host) = IF host.little THEN Direct ELSE Mapped(Larger(host.floor, Smaller(host.ceiling, affordable)))
    BY DEF DirectOrBounded
  <2> HIDE DEF affordable
  <2>3. Larger(host.floor, Smaller(host.ceiling, affordable)) \in Nat BY <1>1, <2>1 DEF Larger, Smaller
  <2> QED BY <1>3, <2>2, <2>3
<1>5. Mapped(0) \in Strategies /\ Mapped(s.count) \in Strategies BY <1>1, <1>3
<1>6. Strategy(host, s) \in Strategies BY <1>1, <1>4, <1>5 DEF Strategy
<1> QED BY <1>1, <1>6, BuiltShares

\* The reader that is made for whoever comes first has no limit.
LEMMA DefaultShares == DefaultReader \in Shares(ReaderThreads)
BY DEF DefaultReader, Built, Mapped, PerThread, Larger, Shares, Readers

\* A reader that is added leaves the others what they were.
LEMMA OneReaderMore ==
  ASSUME HandleInv, NEW x \in Shares(ReaderThreads), readers' = Append(readers, x), Len(readers) < MaxReaders
  PROVE  /\ readers' \in Seq(Shares(ReaderThreads)) /\ Len(readers') = Len(readers) + 1
         /\ Len(readers') <= MaxReaders /\ Len(readers) \in Nat /\ Len(readers') \in 1 .. Len(readers')
         /\ \A r \in 1 .. Len(readers) : readers'[r] = readers[r]
<1>1. readers \in Seq(Shares(ReaderThreads)) /\ MaxReaders \in Nat
  BY ShardsAssumption DEF HandleInv, Numbered, ShardsAssumption
<1> DEFINE S == Shares(ReaderThreads)
<1> HIDE DEF S
<1>2. readers \in Seq(S) /\ x \in S BY <1>1 DEF S
<1>3. /\ Append(readers, x) \in Seq(S) /\ Len(Append(readers, x)) = Len(readers) + 1 /\ Len(readers) \in Nat
      /\ \A r \in 1 .. Len(readers) : Append(readers, x)[r] = readers[r]
  BY <1>2
<1> QED BY <1>1, <1>3 DEF S

\* A release closes files and opens none.
LEMMA ReleasedLess ==
  ASSUME HandleInv, NEW r \in 0 .. Len(readers), Released(r)
  PROVE  /\ local' \in [Ids -> [Threads -> Seq(Paths)]]
         /\ \A q \in Ids, t \in Threads : local'[q][t] \in {local[q][t], <<>>}
<1>1. local \in [Ids -> [Threads -> Seq(Paths)]] BY DEF HandleInv, FewHeld
<1>2. CASE r = None BY <1>1, <1>2 DEF Released
<1>3. CASE r # None
  <2>1. r \in Ids
    <3>1. Len(readers) <= MaxReaders /\ Len(readers) \in Nat /\ MaxReaders \in Nat
      BY ShardsAssumption DEF HandleInv, Numbered, ShardsAssumption
    <3> QED BY <1>3, <3>1 DEF Ids, None
  <2>2. local' = [local EXCEPT ![r] = [t \in Threads |-> <<>>]] BY <1>3 DEF Released
  <2>3. <<>> \in Seq(Paths) OBVIOUS
  <2> DEFINE closed == [t \in Threads |-> <<>>]
  <2>4. closed \in [Threads -> Seq(Paths)] BY <2>3
  <2>5. ASSUME NEW q \in Ids, NEW t \in Threads PROVE local'[q][t] \in {local[q][t], <<>>}
    <3>1. CASE q = r BY <1>1, <2>1, <2>2, <3>1
    <3>2. CASE q # r BY <1>1, <2>2, <3>2
    <3> QED BY <3>1, <3>2
  <2> HIDE DEF closed
  <2>6. local' = [local EXCEPT ![r] = closed] BY <2>2 DEF closed
  <2> QED BY <1>1, <2>4, <2>5, <2>6
<1> QED BY <1>2, <1>3

\* While nobody starts or ends a swap, fewer or as many files held keep within the limits.
LEMMA FewStays ==
  ASSUME HandleInv, Numbered', local' \in [Ids -> [Threads -> Seq(Paths)]], Len(readers) <= Len(readers'),
         \A q \in Ids, t \in Threads : local'[q][t] \in {local[q][t], <<>>},
         \A r \in 1 .. Len(readers) : readers'[r] = readers[r],
         \A t \in Threads : pc[t] = "evict" => pc'[t] = "evict" /\ R(t)' = R(t)
  PROVE  FewHeld'
<1>1. Len(readers) \in Nat /\ Len(readers') \in Nat /\ Ids \subseteq Nat /\ Len(<<>>) = 0
  BY DEF HandleInv, Numbered, Ids
<1>2. ASSUME NEW r \in Ids, r > Len(readers'), NEW t \in Threads PROVE local'[r][t] = <<>>
  <2>1. r > Len(readers) BY <1>1, <1>2
  <2> QED BY <1>2, <2>1 DEF HandleInv, FewHeld
<1>3. ASSUME NEW r \in 1 .. Len(readers'), readers'[r].per > 0, NEW t \in Threads, r \in Ids
      PROVE  Len(local'[r][t]) <= readers'[r].per + (IF t \in Swapping(r)' THEN 1 ELSE 0)
  <2>1. Len(local'[r][t]) \in Nat BY <1>3
  <2>2. CASE r \in 1 .. Len(readers)
    <3>1. readers'[r] = readers[r] /\ readers[r].per \in Nat
      <4>1. readers[r] \in Shares(ReaderThreads) BY <2>2 DEF HandleInv, Numbered
      <4>2. readers[r].per \in Nat BY <4>1 DEF Shares, Readers
      <4> QED BY <2>2, <4>2
    <3>2. t \in Swapping(r) => t \in Swapping(r)' BY DEF Swapping
    <3>3. Len(local[r][t]) <= readers[r].per + (IF t \in Swapping(r) THEN 1 ELSE 0)
      BY <1>3, <2>2, <3>1 DEF HandleInv, FewHeld
    <3>4. Len(local'[r][t]) <= Len(local[r][t]) /\ Len(local[r][t]) \in Nat
      <4>1. local[r][t] \in Seq(Paths) BY <1>3 DEF HandleInv, FewHeld
      <4> QED BY <1>1, <1>3, <4>1
    <3> QED BY <2>1, <3>1, <3>2, <3>3, <3>4
  <2>3. CASE r \notin 1 .. Len(readers)
    <3>1. r > Len(readers) BY <1>1, <1>3, <2>3
    <3>2. local'[r][t] = <<>> BY <1>3, <3>1 DEF HandleInv, FewHeld
    <3>3. readers'[r].per \in Nat BY DEF Numbered, Shares, Readers
    <3> QED BY <1>1, <3>2, <3>3
  <2> QED BY <2>2, <2>3
<1>4. \A r \in 1 .. Len(readers') : r \in Ids
  <2>1. Len(readers') <= MaxReaders /\ MaxReaders \in Nat
    BY ShardsAssumption DEF Numbered, ShardsAssumption
  <2> QED BY <1>1, <2>1 DEF Ids
<1> QED BY <1>2, <1>3, <1>4 DEF FewHeld

\* A new reader, and a release of another one: nothing more is held.
LEMMA FewConfigure ==
  ASSUME LoadInv, HandleInv, NEW m \in Models, Configure(m)
  PROVE  HandleInv'
<1>1. PICK x \in Shares(ReaderThreads) : readers' = Append(readers, x) BY ConfiguredShares DEF Configure
<1>2. /\ Len(readers) < MaxReaders /\ registry' = Len(readers') /\ open' = [open EXCEPT ![m] = Len(readers')]
      /\ Released(registry) /\ UNCHANGED <<pc, job, queue>>
  BY DEF Configure, loading
<1>3. /\ readers' \in Seq(Shares(ReaderThreads)) /\ Len(readers') = Len(readers) + 1
      /\ Len(readers') <= MaxReaders /\ Len(readers) \in Nat /\ Len(readers') \in 1 .. Len(readers')
      /\ \A r \in 1 .. Len(readers) : readers'[r] = readers[r]
  BY <1>1, <1>2, OneReaderMore
<1>4. 0 .. Len(readers) \subseteq 0 .. Len(readers') /\ 1 .. Len(readers) \subseteq 1 .. Len(readers')
      /\ Len(readers') \in 0 .. Len(readers')
  BY <1>3
<1>5. Numbered'
  <2>1. open' \in [Models -> 0 .. Len(readers')] BY <1>2, <1>4 DEF HandleInv, Numbered
  <2> QED BY <1>2, <1>3, <1>4, <2>1 DEF HandleInv, Numbered, R
<1>6. FewHeld'
  <2>1. Len(readers) <= Len(readers') BY <1>3
  <2>2. registry \in 0 .. Len(readers) BY DEF HandleInv, Numbered
  <2>3. \A t \in Threads : pc[t] = "evict" => pc'[t] = "evict" /\ R(t)' = R(t) BY <1>2 DEF R
  <2> QED BY <1>2, <1>3, <1>5, <2>1, <2>2, <2>3, ReleasedLess, FewStays
<1> QED BY <1>5, <1>6 DEF HandleInv

\* A model that closes releases a reader.
LEMMA FewCloses ==
  ASSUME LoadInv, HandleInv, NEW m \in Models, Close(m)
  PROVE  HandleInv'
<1>1. /\ registry' \in {registry, None} /\ open' = [open EXCEPT ![m] = None]
      /\ Released(open[m]) /\ UNCHANGED <<readers, pc, job, queue>>
  BY DEF Close, loading
<1>2. Len(readers) \in Nat /\ None \in 0 .. Len(readers) BY DEF HandleInv, Numbered, None
<1>3. Numbered'
  <2>1. open' \in [Models -> 0 .. Len(readers)] BY <1>1, <1>2 DEF HandleInv, Numbered
  <2> QED BY <1>1, <1>2, <2>1 DEF HandleInv, Numbered, R
<1>4. open[m] \in 0 .. Len(readers) BY DEF HandleInv, Numbered
<1>5. \A t \in Threads : pc[t] = "evict" => pc'[t] = "evict" /\ R(t)' = R(t) BY <1>1 DEF R
<1> QED BY <1>1, <1>2, <1>3, <1>4, <1>5, ReleasedLess, FewStays DEF HandleInv

\* Steps that open and close no file and make no reader.
LEMMA FewElsewhere ==
  ASSUME HandleInv, UNCHANGED <<readers, registry, open, local>>,
         \A t \in Threads : pc'[t] # "idle" => R(t)' \in 1 .. Len(readers),
         \A j \in queue' : j.reader \in 1 .. Len(readers),
         \A t \in Threads : pc[t] = "evict" => pc'[t] = "evict" /\ R(t)' = R(t)
  PROVE  HandleInv'
<1>1. Len(readers) \in Nat BY DEF HandleInv, Numbered
<1>2. Numbered' BY DEF HandleInv, Numbered
<1>3. local \in [Ids -> [Threads -> Seq(Paths)]] BY DEF HandleInv, FewHeld
<1> QED BY <1>1, <1>2, <1>3, FewStays DEF HandleInv

\* A load reads through the reader of its model.
LEMMA FewLoads ==
  ASSUME LoadInv, HandleInv, NEW c \in AllCallers, NEW p \in Paths, Load(c, p)
  PROVE  HandleInv'
<1>1. open[Callers[c]] \in 1 .. Len(readers)
  <2>1. Callers[c] \in Models BY ShardsAssumption DEF ShardsAssumption, AllCallers
  <2>2. open[Callers[c]] \in 0 .. Len(readers) /\ Len(readers) \in Nat BY <2>1 DEF HandleInv, Numbered
  <2>3. open[Callers[c]] # None BY DEF Load
  <2> QED BY <2>2, <2>3 DEF None
<1>2. /\ UNCHANGED <<readers, registry, open, local>> /\ pc[c] = "idle" /\ pc' = [pc EXCEPT ![c] = "index"]
      /\ \E b : job' = [job EXCEPT ![c] = Job(open[Callers[c]], p, b, c)]
      /\ \A j \in queue' : j \in queue \/ \E b : j = Job(open[Callers[c]], p, b, c)
  BY DEF Load, tables, Goto
<1>3. \A j \in queue' : j.reader \in 1 .. Len(readers) BY <1>1, <1>2 DEF HandleInv, Numbered, Job
<1>4. \A t \in Threads \ {c} : pc'[t] = pc[t] /\ R(t)' = R(t) BY <1>2 DEF LoadInv, Typed, R
<1>5. pc'[c] = "index" /\ R(c)' = open[Callers[c]] BY <1>2, CallersAndPool DEF LoadInv, Typed, R, Job
<1>6. \A t \in Threads : pc'[t] # "idle" => R(t)' \in 1 .. Len(readers)
  BY <1>1, <1>4, <1>5 DEF HandleInv, Numbered
<1> QED BY <1>2, <1>3, <1>4, <1>6, FewElsewhere

\* Rows are read through the registered reader, which is made when there is none.
LEMMA FewRows ==
  ASSUME LoadInv, HandleInv, NEW c \in AllCallers, NEW p \in Paths, ReadRows(c, p)
  PROVE  HandleInv'
<1>1. /\ UNCHANGED <<open, local, queue>> /\ pc[c] = "idle" /\ pc' = [pc EXCEPT ![c] = "index"]
      /\ job' = [job EXCEPT ![c] = Job(registry', p, {}, None)]
  BY DEF ReadRows, tables, Goto, loading
<1>2. \A t \in Threads \ {c} : pc'[t] = pc[t] /\ R(t)' = R(t) BY <1>1 DEF LoadInv, Typed, R
<1>3. pc'[c] = "index" /\ R(c)' = registry' BY <1>1, CallersAndPool DEF LoadInv, Typed, R, Job
<1>4. Len(readers) \in Nat BY DEF HandleInv, Numbered
<1>5. CASE registry # None
  <2>1. UNCHANGED <<readers, registry>> BY <1>5 DEF ReadRows
  <2>2. registry \in 1 .. Len(readers) BY <1>4, <1>5 DEF HandleInv, Numbered, None
  <2>3. \A t \in Threads : pc'[t] # "idle" => R(t)' \in 1 .. Len(readers)
    BY <1>2, <1>3, <2>1, <2>2 DEF HandleInv, Numbered
  <2>4. \A j \in queue' : j.reader \in 1 .. Len(readers) BY <1>1 DEF HandleInv, Numbered
  <2> QED BY <1>1, <1>2, <2>1, <2>3, <2>4, FewElsewhere
<1>6. CASE registry = None
  <2>1. readers' = Append(readers, DefaultReader) /\ registry' = Len(readers') /\ Len(readers) < MaxReaders
    BY <1>6 DEF ReadRows
  <2>2. /\ readers' \in Seq(Shares(ReaderThreads)) /\ Len(readers') = Len(readers) + 1
        /\ Len(readers') <= MaxReaders /\ Len(readers') \in 1 .. Len(readers')
        /\ \A r \in 1 .. Len(readers) : readers'[r] = readers[r]
    BY <2>1, DefaultShares, OneReaderMore
  <2>3. 0 .. Len(readers) \subseteq 0 .. Len(readers') /\ 1 .. Len(readers) \subseteq 1 .. Len(readers')
        /\ Len(readers') \in 0 .. Len(readers')
    BY <1>4, <2>2
  <2>4. open' \in [Models -> 0 .. Len(readers')] BY <1>1, <2>3 DEF HandleInv, Numbered
  <2>5. \A t \in Threads : pc'[t] # "idle" => R(t)' \in 1 .. Len(readers')
    BY <1>2, <1>3, <2>1, <2>2, <2>3 DEF HandleInv, Numbered
  <2>6. \A j \in queue' : j.reader \in 1 .. Len(readers') BY <1>1, <2>3 DEF HandleInv, Numbered
  <2>7. Numbered' BY <2>1, <2>2, <2>3, <2>4, <2>5, <2>6 DEF Numbered
  <2>8. local' \in [Ids -> [Threads -> Seq(Paths)]] BY <1>1 DEF HandleInv, FewHeld
  <2>9. Len(readers) <= Len(readers') BY <1>4, <2>2
  <2> QED BY <1>1, <1>2, <2>2, <2>7, <2>8, <2>9, FewStays DEF HandleInv
<1> QED BY <1>5, <1>6

\* A thread opens or closes a file of its own.
LEMMA FewSwaps ==
  ASSUME LoadInv, HandleInv, NEW t \in Threads, pc[t] # "idle", NEW q \in Reading, Goto(t, q),
         NEW h \in Seq(Paths), local' = [local EXCEPT ![R(t)][t] = h],
         UNCHANGED <<readers, registry, open, job, queue>>,
         readers[R(t)].per > 0 => Len(h) <= readers[R(t)].per + (IF q = "evict" THEN 1 ELSE 0)
  PROVE  HandleInv'
<1>1. pc'[t] = q /\ q # "idle" /\ \A u \in Threads \ {t} : pc'[u] = pc[u] BY DEF LoadInv, Typed, Goto, Reading
<1>2. \A u \in Threads : R(u)' = R(u) BY DEF R
<1>3. Numbered' BY <1>1, <1>2 DEF HandleInv, Numbered
<1>4. R(t) \in 1 .. Len(readers) /\ R(t) \in Ids /\ Len(readers) \in Nat /\ Ids \subseteq Nat
  <2>1. R(t) \in 1 .. Len(readers) /\ Len(readers) <= MaxReaders /\ Len(readers) \in Nat /\ MaxReaders \in Nat
    BY ShardsAssumption DEF HandleInv, Numbered, ShardsAssumption
  <2> QED BY <2>1 DEF Ids
<1>5. local \in [Ids -> [Threads -> Seq(Paths)]] BY DEF HandleInv, FewHeld
<1>6. local' \in [Ids -> [Threads -> Seq(Paths)]] BY <1>5
<1>7. \A r \in Ids, u \in Threads :
        local'[r][u] = IF r = R(t) /\ u = t THEN h ELSE local[r][u]
  BY <1>4, <1>5
<1>8. ASSUME NEW r \in Ids, r > Len(readers), NEW u \in Threads PROVE local'[r][u] = <<>>
  <2>1. r # R(t) BY <1>4, <1>8
  <2> QED BY <1>7, <1>8, <2>1 DEF HandleInv, FewHeld
<1>9. ASSUME NEW r \in 1 .. Len(readers), r \in Ids, readers[r].per > 0, NEW u \in Threads
      PROVE  Len(local'[r][u]) <= readers[r].per + (IF u \in Swapping(r)' THEN 1 ELSE 0)
  <2>1. CASE r = R(t) /\ u = t
    <3>1. u \in Swapping(r)' <=> q = "evict" BY <1>1, <1>2, <2>1 DEF Swapping
    <3> QED BY <1>7, <1>9, <2>1, <3>1
  <2>2. CASE u # t
    <3>1. u \in Swapping(r)' <=> u \in Swapping(r) BY <1>1, <1>2, <2>2 DEF Swapping
    <3> QED BY <1>7, <1>9, <2>2, <3>1 DEF HandleInv, FewHeld
  <2>3. CASE r # R(t) /\ u = t
    <3>1. u \notin Swapping(r)' /\ u \notin Swapping(r) BY <1>2, <2>3 DEF Swapping
    <3> QED BY <1>7, <1>9, <2>3, <3>1 DEF HandleInv, FewHeld
  <2> QED BY <2>1, <2>2, <2>3
<1>10. \A r \in 1 .. Len(readers) : r \in Ids
  <2>1. Len(readers) <= MaxReaders /\ MaxReaders \in Nat
    BY ShardsAssumption DEF HandleInv, Numbered, ShardsAssumption
  <2> QED BY <1>4, <2>1 DEF Ids
<1>11. FewHeld' BY <1>6, <1>8, <1>9, <1>10 DEF FewHeld
<1> QED BY <1>3, <1>11 DEF HandleInv

\* What a thread held becomes one file more at the most, and ends with the newest.
LEMMA NewestOneMore ==
  ASSUME NEW s \in Seq(Paths), NEW p \in Paths
  PROVE  Newest(s, p) \in Seq(Paths) /\ Len(Newest(s, p)) \in Nat /\ Len(Newest(s, p)) <= Len(s) + 1
<1> DEFINE less == RemoveFirst(s, p)
<1>1. less \in Seq(Paths) /\ Len(less) <= Len(s) BY RemoveFirstShortens
<1>2. Newest(s, p) = Append(less, p) BY DEF Newest
<1> HIDE DEF less
<1> QED BY <1>1, <1>2

\* The steps of one read.
LEMMA FewReads ==
  ASSUME LoadInv, HandleInv, NEW t \in Threads, Step(t)
  PROVE  HandleInv'
<1>1. /\ R(t) \in 1 .. Len(readers) /\ Held(t) \in Seq(Paths) /\ readers[R(t)].per \in Nat
      /\ P(t) \in Paths
      /\ readers[R(t)].per > 0 => Len(Held(t)) <= readers[R(t)].per + (IF pc[t] = "evict" THEN 1 ELSE 0)
  <2>1. pc[t] # "idle"
    BY DEF Step, LookUp, ParseHeader, Remember, Choose, OpenHandle, Evict, Read, ReadFails
  <2>2. R(t) \in 1 .. Len(readers) BY <2>1 DEF HandleInv, Numbered
  <2>3. R(t) \in Ids
    <3>1. Len(readers) <= MaxReaders /\ Len(readers) \in Nat /\ MaxReaders \in Nat
      BY ShardsAssumption DEF HandleInv, Numbered, ShardsAssumption
    <3> QED BY <2>2, <3>1 DEF Ids
  <2>4. Held(t) \in Seq(Paths) BY <2>3 DEF HandleInv, FewHeld, Held
  <2>5. readers[R(t)].per \in Nat BY <2>2 DEF HandleInv, Numbered, Shares, Readers
  <2>6. P(t) \in Paths BY <2>1 DEF LoadInv, Typed, Jobs, P
  <2>7. t \in Swapping(R(t)) <=> pc[t] = "evict" BY DEF Swapping
  <2> QED BY <2>2, <2>4, <2>5, <2>6, <2>7 DEF HandleInv, FewHeld, Held
<1>2. ASSUME NEW q \in Places, Goto(t, q), pc[t] \notin {"idle", "evict"},
             UNCHANGED <<readers, registry, open, local, queue>>,
             (UNCHANGED job) \/ (q = "idle" /\ job' = [job EXCEPT ![t] = <<>>])
      PROVE  HandleInv'
  <2>1. pc'[t] = q /\ \A u \in Threads \ {t} : pc'[u] = pc[u] /\ job'[u] = job[u]
    BY <1>2 DEF LoadInv, Typed, Goto
  <2>2. \A u \in Threads : pc'[u] # "idle" => R(u)' = R(u) /\ pc[u] # "idle" BY <1>2, <2>1 DEF R
  <2>3. \A u \in Threads : pc[u] = "evict" => pc'[u] = "evict" /\ R(u)' = R(u) BY <1>2, <2>1 DEF R
  <2> QED BY <1>2, <2>2, <2>3, FewElsewhere DEF HandleInv, Numbered
<1>3. CASE LookUp(t)
  <2>1. /\ Goto(t, "choose") \/ Goto(t, "parse")
        /\ pc[t] = "index" /\ UNCHANGED <<readers, registry, open, local, queue, job>>
    BY <1>3 DEF LookUp, tables, loading
  <2> QED BY <1>2, <2>1 DEF Places, Reading
<1>4. CASE ParseHeader(t) BY <1>2, <1>4 DEF ParseHeader, loading, Places, Reading
<1>5. CASE Remember(t) BY <1>2, <1>5 DEF Remember, loading, Places, Reading
<1>6. CASE Choose(t)
  <2>1. /\ Goto(t, "handle") \/ Goto(t, "range")
        /\ pc[t] = "choose" /\ UNCHANGED <<readers, registry, open, local, queue, job>>
    BY <1>6 DEF Choose, tables, loading
  <2> QED BY <1>2, <2>1 DEF Places, Reading
<1>7. CASE OpenHandle(t)
  <2> DEFINE h == Newest(Held(t), P(t))
             q == IF OverLimit(R(t), h) THEN "evict" ELSE "mapping"
  <2>1. /\ pc[t] = "handle" /\ local' = [local EXCEPT ![R(t)][t] = Newest(@, P(t))] /\ Goto(t, q)
        /\ UNCHANGED <<readers, registry, open, job, queue>>
    BY <1>7 DEF OpenHandle, loading
  <2>2. local' = [local EXCEPT ![R(t)][t] = h] BY <2>1 DEF Held
  <2>3. h \in Seq(Paths) /\ Len(h) \in Nat /\ Len(h) <= Len(Held(t)) + 1 BY <1>1, NewestOneMore
  <2>4. q \in Reading /\ (q = "evict" <=> OverLimit(R(t), h)) BY DEF Reading
  <2> HIDE DEF h, q
  <2>5. readers[R(t)].per > 0 => Len(h) <= readers[R(t)].per + (IF q = "evict" THEN 1 ELSE 0)
    <3>1. Len(Held(t)) \in Nat BY <1>1
    <3>2. CASE q = "evict" BY <1>1, <2>1, <2>3, <3>1, <3>2
    <3>3. CASE q # "evict" BY <1>1, <2>3, <2>4, <3>3 DEF OverLimit
    <3> QED BY <3>2, <3>3
  <2> QED BY <2>1, <2>2, <2>3, <2>4, <2>5, FewSwaps
<1>8. CASE Evict(t)
  <2> DEFINE h == IF Held(t) = <<>> THEN <<>> ELSE Tail(Held(t))
  <2>1. /\ pc[t] = "evict" /\ local' = [local EXCEPT ![R(t)][t] = IF @ = <<>> THEN @ ELSE Tail(@)]
        /\ Goto(t, "mapping") /\ UNCHANGED <<readers, registry, open, job, queue>>
    BY <1>8 DEF Evict, loading
  <2>2. local' = [local EXCEPT ![R(t)][t] = h] BY <2>1 DEF Held
  <2>3. h \in Seq(Paths) /\ (Len(h) = 0 \/ Len(h) = Len(Held(t)) - 1) BY <1>1
  <2> HIDE DEF h
  <2>4. Len(Held(t)) \in Nat BY <1>1
  <2>5. readers[R(t)].per > 0 => Len(h) <= readers[R(t)].per + (IF "mapping" = "evict" THEN 1 ELSE 0)
    BY <1>1, <2>1, <2>3, <2>4
  <2>6. "mapping" \in Reading /\ pc[t] # "idle" BY <2>1 DEF Reading
  <2> QED BY <2>1, <2>2, <2>3, <2>5, <2>6, FewSwaps
<1>9. ASSUME NEW outcome, Finish(t, outcome), pc[t] \in {"range", "mapping"} PROVE HandleInv'
  <2>1. PICK q \in {"garbage", "wait", "idle"} : Goto(t, q) BY <1>9 DEF Finish
  <2>2. pc'[t] = q BY <2>1 DEF Goto, LoadInv, Typed
  <2>3. (UNCHANGED job) \/ (q = "idle" /\ job' = [job EXCEPT ![t] = <<>>]) BY <1>9, <2>2 DEF Finish
  <2>4. UNCHANGED <<readers, registry, open, local, queue>> BY <1>9 DEF Finish, tables
  <2> QED BY <1>2, <1>9, <2>1, <2>3, <2>4 DEF Places, Reading
<1>10. Read(t) \/ ReadFails(t) => pc[t] \in {"range", "mapping"} /\ \E outcome : Finish(t, outcome)
  BY DEF Read, ReadFails
<1> QED BY <1>3, <1>4, <1>5, <1>6, <1>7, <1>8, <1>9, <1>10 DEF Step

\* Every step keeps the files that are held within the limits.
LEMMA HandleInvKept ==
  ASSUME LoadInv, HandleInv, [Next]_vars
  PROVE  HandleInv'
<1>1. ASSUME NEW m \in Models, Configure(m) \/ Close(m) PROVE HandleInv' BY <1>1, FewConfigure, FewCloses
<1>2. ASSUME NEW c \in AllCallers, NEW p \in Paths, Load(c, p) \/ ReadRows(c, p) PROVE HandleInv'
  BY <1>2, FewLoads, FewRows
<1>3. ASSUME NEW t \in Threads, UNCHANGED <<readers, registry, open, local, queue>>,
             \A u \in Threads \ {t} : pc'[u] = pc[u] /\ job'[u] = job[u],
             pc[t] # "evict", pc'[t] # "idle" => R(t)' \in 1 .. Len(readers)
      PROVE  HandleInv'
  <2>1. \A u \in Threads \ {t} : R(u)' = R(u) BY <1>3 DEF R
  <2>2. \A u \in Threads : pc[u] = "evict" => pc'[u] = "evict" /\ R(u)' = R(u) BY <1>3, <2>1
  <2>3. \A u \in Threads : pc'[u] # "idle" => R(u)' \in 1 .. Len(readers)
    BY <1>3, <2>1 DEF HandleInv, Numbered
  <2> QED BY <1>3, <2>2, <2>3, FewElsewhere DEF HandleInv, Numbered
<1>4. ASSUME NEW c \in AllCallers, Filled(c) \/ Place(c) PROVE HandleInv'
  <2>1. /\ pc[c] \in {"wait", "loaded"} /\ UNCHANGED <<readers, registry, open, local, queue>>
        /\ \E q \in {"idle", "loaded"} :
              Goto(c, q) /\ (UNCHANGED job \/ (q = "idle" /\ job' = [job EXCEPT ![c] = <<>>]))
    BY <1>4 DEF Filled, Place, tables
  <2>2. PICK q \in {"idle", "loaded"} :
              Goto(c, q) /\ (UNCHANGED job \/ (q = "idle" /\ job' = [job EXCEPT ![c] = <<>>]))
    BY <2>1
  <2>3. pc'[c] = q /\ \A u \in Threads \ {c} : pc'[u] = pc[u] /\ job'[u] = job[u]
    BY <2>2, CallersAndPool DEF LoadInv, Typed, Goto
  <2>4. pc'[c] # "idle" => R(c)' \in 1 .. Len(readers)
    BY <2>1, <2>2, <2>3, CallersAndPool DEF HandleInv, Numbered, R
  <2> QED BY <1>3, <2>1, <2>3, <2>4, CallersAndPool
<1>5. ASSUME NEW t \in Threads, Take(t) PROVE HandleInv'
  <2>1. PICK j \in queue : queue' = queue \ {j} /\ job' = [job EXCEPT ![t] = j] BY <1>5 DEF Take
  <2>2. /\ pc[t] = "idle" /\ pc' = [pc EXCEPT ![t] = "index"] /\ UNCHANGED <<readers, registry, open, local>>
    BY <1>5 DEF Take, tables, Goto
  <2>3. \A u \in Threads \ {t} : pc'[u] = pc[u] /\ R(u)' = R(u) BY <2>1, <2>2 DEF LoadInv, Typed, R
  <2>4. pc'[t] = "index" /\ R(t)' = j.reader BY <2>1, <2>2 DEF LoadInv, Typed, R
  <2>5. j.reader \in 1 .. Len(readers) /\ \A k \in queue' : k.reader \in 1 .. Len(readers)
    BY <2>1 DEF HandleInv, Numbered
  <2>6. \A u \in Threads : pc'[u] # "idle" => R(u)' \in 1 .. Len(readers)
    BY <2>3, <2>4, <2>5 DEF HandleInv, Numbered
  <2>7. \A u \in Threads : pc[u] = "evict" => pc'[u] = "evict" /\ R(u)' = R(u) BY <2>2, <2>3
  <2> QED BY <2>2, <2>5, <2>6, <2>7, FewElsewhere
<1>6. ASSUME NEW t \in Threads, Step(t) PROVE HandleInv' BY <1>6, FewReads
<1>7. ASSUME UNCHANGED <<readers, registry, open, local, queue, pc, job>> PROVE HandleInv'
  BY <1>7, FewElsewhere DEF HandleInv, Numbered, R
<1>8. ASSUME NEW p \in Paths, Rewrite(p) PROVE HandleInv' BY <1>7, <1>8 DEF Rewrite, tables, loading
<1>9. UNCHANGED vars => HandleInv' BY <1>7 DEF vars, tables, loading
<1> QED BY <1>1, <1>2, <1>4, <1>5, <1>6, <1>8, <1>9 DEF Next, AllCallers

(***************************************************************************)
(* The limit a reader publishes is kept by all the threads together, for   *)
(* any number of models that open and close the directory, any number of   *)
(* shards and whatever the setting and the machine make of the limit, as   *)
(* long as no more threads read than the loader was told of (io_workers    *)
(* for the forward, as many for the prefetch, and the forward itself).     *)
(***************************************************************************)
THEOREM HandlesBounded ==
  ASSUME IsFiniteSet(Threads), Cardinality(Threads) <= ReaderThreads
  PROVE  Spec => []HandleLimit
<1> DEFINE Inv == LoadInv /\ Registered /\ HandleInv
<1>1. Init => Inv
  <2> SUFFICES ASSUME Init PROVE HandleInv BY LoadInvInit
  <2>1. readers \in Seq(Shares(ReaderThreads)) /\ Len(readers) = 0 BY DEF Init
  <2>2. Numbered BY <2>1, ShardsAssumption DEF Init, Numbered, None, ShardsAssumption
  <2>3. <<>> \in Seq(Paths) OBVIOUS
  <2>4. FewHeld BY <2>1, <2>3 DEF Init, FewHeld
  <2> QED BY <2>2, <2>4 DEF HandleInv
<1>2. Inv /\ [Next]_vars => Inv' BY LoadInvKept, HandleInvKept
<1>3. Inv => HandleLimit
  <2> SUFFICES ASSUME Inv, NEW r \in 1 .. Len(readers), readers[r].limit > 0
               PROVE  SumFunctionOnSet([t \in Threads |-> Len(local[r][t])], Threads)
                        <= readers[r].limit + Cardinality({t \in Threads : pc[t] = "evict"})
    BY DEF HandleLimit
  <2> DEFINE f == [t \in Threads |-> Len(local[r][t])]
             E == {t \in Threads : pc[t] = "evict"}
             m == readers[r].per
             n == readers[r].limit
  <2>1. m \in Nat /\ n \in Nat /\ m > 0 /\ m * ReaderThreads <= n
    BY DEF HandleInv, Numbered, Shares, Readers
  <2>2. \A t \in Threads : f[t] \in Nat /\ f[t] <= m + (IF t \in E THEN 1 ELSE 0)
    <3>1. r \in Ids
      <4>1. Len(readers) <= MaxReaders /\ Len(readers) \in Nat /\ MaxReaders \in Nat
        BY ShardsAssumption DEF HandleInv, Numbered, ShardsAssumption
      <4> QED BY <4>1 DEF Ids
    <3> SUFFICES ASSUME NEW t \in Threads PROVE f[t] \in Nat /\ f[t] <= m + (IF t \in E THEN 1 ELSE 0)
      OBVIOUS
    <3>2. local[r][t] \in Seq(Paths) BY <3>1 DEF HandleInv, FewHeld
    <3>3. f[t] \in Nat BY <3>2
    <3>4. f[t] <= m + (IF t \in Swapping(r) THEN 1 ELSE 0) BY <2>1 DEF HandleInv, FewHeld
    <3>5. t \in Swapping(r) => t \in E BY DEF Swapping
    <3> QED BY <2>1, <3>3, <3>4, <3>5
  <2>3. E \in SUBSET Threads OBVIOUS
  <2> HIDE DEF f, E, m, n
  <2>4. SumFunctionOnSet(f, Threads) <= m * Cardinality(Threads) + Cardinality(E)
    BY <2>1, <2>2, <2>3, SumWithin
  <2>5. Cardinality(Threads) \in Nat /\ Cardinality(E) \in Nat /\ SumFunctionOnSet(f, Threads) \in Nat
        /\ ReaderThreads \in Nat
    BY <2>2, <2>3, FS_Subset, FS_CardinalityType, SumType, ShardsAssumption DEF ShardsAssumption
  <2>6. m * Cardinality(Threads) <= m * ReaderThreads
    <3>1. \A a \in Nat, b \in Nat, c \in Nat : a <= b => c * a <= c * b OBVIOUS
    <3> QED BY <2>1, <2>5, <3>1
  <2>7. m * Cardinality(Threads) \in Nat /\ m * ReaderThreads \in Nat BY <2>1, <2>5
  <2>8. SumFunctionOnSet(f, Threads) <= n + Cardinality(E) BY <2>1, <2>4, <2>5, <2>6, <2>7
  <2> QED BY <2>8 DEF f, E, n
<1> QED BY <1>1, <1>2, <1>3, PTL DEF Spec
===============================================================================
