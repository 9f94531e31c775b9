------------------------------ MODULE WeightCache ------------------------------
(***************************************************************************)
(* TieredWeightCache (memory/cache.py) together with the two hooks through *)
(* which the engine owns the payloads (_cache_to_device, _cache_to_host    *)
(* and _cache_discard in base.py) and the forward pass that claims units   *)
(* around each module's forward.                                           *)
(*                                                                         *)
(* One thread runs forwards (server/app.py, 379-386), and every operation  *)
(* of the cache runs under the cache's lock.  An operation with a loop is  *)
(* a chain of steps here, one per iteration: `job` says where the thread   *)
(* that holds the lock is, and nothing else may run until it is idle.      *)
(*                                                                         *)
(* `tier`, `refcount`, `pinned`, `uses` and `inserted` are the fields of   *)
(* CacheEntry; an entry with tier "storage" is not in _entries.            *)
(* `inDevice` and `inHost` are the key sets of the two _Tier dicts.        *)
(***************************************************************************)
EXTENDS Integers, FiniteSets, Sequences, SequencesExt

CONSTANTS
  Keys,           \* units of weights: dense modules and routed experts
  Experts,        \* the keys whose kind is_expert() accepts
  NoKey,          \* not a key
  Size,           \* packed bytes of each unit, from the quant registry
  Capacities,     \* the device capacities the live budget may publish
  HostCapacity,   \* bytes of the host tier; 0 means there is none
  Window,         \* unpinned dense units the device may hold
  Plans,          \* the pin plans the planner may adopt
  AgingInterval,  \* expert accesses between two halvings
  Unit,           \* fixed-point unit of one use, so that halving is exact
  NestLimit,      \* dense units the forward claims at once (2 with a shared expert)
  Events,         \* which faults and owner calls a run includes
  MaxClaims,      \* bound: claims the forward holds on one key
  MaxRefs,        \* bound: references counted on one key, stranded ones included
  MaxReadBytes,   \* bound: bytes counted in flight
  MaxAccesses     \* bound: expert accesses counted

Dense == Keys \ Experts

ASSUME CacheAssumption ==
  /\ IsFiniteSet(Keys) /\ Experts \subseteq Keys /\ NoKey \notin Keys
  /\ Size \in [Keys -> Nat]
  /\ Capacities \subseteq Nat /\ Capacities # {} /\ HostCapacity \in Nat
  /\ Plans \subseteq SUBSET Keys /\ {} \in Plans
  /\ {Window, AgingInterval, Unit, NestLimit} \subseteq Nat \ {0}
  /\ {MaxClaims, MaxRefs, MaxReadBytes, MaxAccesses} \subseteq Nat
  /\ Events \subseteq {"read_fails", "place_fails", "forward_fails", "clear", "close"}

VARIABLES
  capacity, planned,                       \* device.capacity and self.pinned
  tier, refcount, pinned, uses, inserted,  \* the entries
  inDevice, inHost, deviceBytes, hostBytes,
  accesses,                                \* _expert_accesses
  pending, pendingBytes, pendingOrdered,   \* _pending, oldest first; FALSE: a plain dict
  executor,                                \* FALSE once close() has shut it down
  bound, hostCopy,                         \* the engine's payload: moved and host
  partly,                                  \* units a placement that raised left weights of
  claims,                                  \* claims the running forward holds
  job                                      \* where the holder of the lock is

entryVars == <<tier, refcount, pinned, uses, inserted>>
tierVars  == <<inDevice, inHost, deviceBytes, hostBytes>>
readVars  == <<pending, pendingBytes, pendingOrdered, executor>>
ownerVars == <<bound, hostCopy, partly>>
vars == <<capacity, planned, entryVars, tierVars, accesses, readVars, ownerVars, claims, job>>

Tiers == {"device", "host", "transient", "storage"}
Idle == [at |-> "idle", key |-> NoKey, victim |-> NoKey]
Doing(at, k) == [at |-> at, key |-> k, victim |-> NoKey]

Jobs == [at : {"idle", "promote", "admit", "window", "resize", "trim", "clear"},
         key : Keys \cup {NoKey}, victim : Keys \cup {NoKey}]

TypeEntries ==
  /\ tier \in [Keys -> Tiers] /\ refcount \in [Keys -> Nat]
  /\ pinned \in [Keys -> BOOLEAN]
  /\ uses \in [Keys -> Nat] /\ inserted \in [Keys -> Nat]
TypeTiers == inDevice \in SUBSET Keys /\ inHost \in SUBSET Keys
             /\ deviceBytes \in Int /\ hostBytes \in Int
TypeReads == pending \in Seq(Keys) /\ pendingBytes \in Int
             /\ pendingOrdered \in BOOLEAN /\ executor \in BOOLEAN
TypeOwner == bound \in [Keys -> BOOLEAN] /\ hostCopy \in [Keys -> BOOLEAN]
             /\ partly \in SUBSET Keys /\ claims \in [Keys -> Nat]
TypeRest == capacity \in Nat /\ planned \in SUBSET Keys /\ accesses \in Nat /\ job \in Jobs

TypeOK == TypeEntries /\ TypeTiers /\ TypeReads /\ TypeOwner /\ TypeRest

Tracked == {k \in Keys : tier[k] # "storage"}

Init ==
  /\ capacity \in Capacities /\ planned \in Plans
  /\ tier = [k \in Keys |-> "storage"] /\ refcount = [k \in Keys |-> 0]
  /\ pinned = [k \in Keys |-> FALSE]
  /\ uses = [k \in Keys |-> 0] /\ inserted = [k \in Keys |-> 0]
  /\ inDevice = {} /\ inHost = {} /\ deviceBytes = 0 /\ hostBytes = 0
  /\ accesses = 0
  /\ pending = <<>> /\ pendingBytes = 0 /\ pendingOrdered = TRUE /\ executor = TRUE
  /\ bound = [k \in Keys |-> FALSE] /\ hostCopy = [k \in Keys |-> FALSE]
  /\ partly = {}
  /\ claims = [k \in Keys |-> 0]
  /\ job = Idle

-------------------------------------------------------------------------------
(* The entries. *)

\* Broken variant, for the mutation runs: the reference count is forgotten.
EvictableInUse(k) == ~pinned[k]

Evictable(k) == ~pinned[k] /\ refcount[k] = 0

\* `inserted` keeps the order of the code's ordinals, not their values.
Ranked(S) == [k \in Keys |-> IF k \in S
                               THEN Cardinality({x \in S : inserted[x] <= inserted[k]}) ELSE 0]

\* The entries of S leave _entries.
Forget(S) ==
  /\ tier' = [k \in Keys |-> IF k \in S THEN "storage" ELSE tier[k]]
  /\ refcount' = [k \in Keys |-> IF k \in S THEN 0 ELSE refcount[k]]
  /\ pinned' = [k \in Keys |-> pinned[k] /\ k \notin S]
  /\ uses' = [k \in Keys |-> IF k \in S THEN 0 ELSE uses[k]]
  /\ inserted' = Ranked(Tracked \ S)

\* A new entry for k, admitted to tier t.
Enter(k, t, claimed) ==
  /\ tier' = [tier EXCEPT ![k] = t]
  /\ refcount' = [refcount EXCEPT ![k] = claimed]
  /\ pinned' = [pinned EXCEPT ![k] = k \in planned]
  /\ inserted' = [Ranked(Tracked) EXCEPT ![k] = Cardinality(Tracked) + 1]

\* A use of k.  Only experts keep a count; every AgingInterval uses, all of them are halved.
Touch(k) ==
  IF k \notin Experts THEN UNCHANGED <<uses, accesses>>
  ELSE LET ages == (accesses + 1) % AgingInterval = 0
           used(x) == IF x = k THEN uses[x] + Unit ELSE uses[x]
       IN /\ accesses < MaxAccesses
          /\ accesses' = accesses + 1
          /\ uses' = [x \in Keys |-> IF ages THEN used(x) \div 2 ELSE used(x)]

-------------------------------------------------------------------------------
(* The owner's calling pattern: a dense unit is claimed around its own forward, *)
(* and at most NestLimit dense units are claimed inside one another.            *)

MayClaim(k) ==
  /\ job = Idle
  /\ claims[k] < MaxClaims /\ refcount[k] < MaxRefs
  /\ k \in Dense => Cardinality({d \in Dense \ {k} : claims[d] > 0}) < NestLimit

Claimed(k) == claims' = [claims EXCEPT ![k] = @ + 1]

\* An exception leaves the hook and unwinds the forward: its post hooks never run.
Unwound == claims' = [k \in Keys |-> 0]

-------------------------------------------------------------------------------
(* acquire *)

\* Bound already, in a tier or not: one more claim.
AcquireBound(k) ==
  /\ MayClaim(k)
  /\ tier[k] \in {"device", "transient"}
  /\ IF tier[k] = "device" THEN Touch(k) ELSE UNCHANGED <<uses, accesses>>
  /\ refcount' = [refcount EXCEPT ![k] = @ + 1]
  /\ Claimed(k)
  /\ UNCHANGED <<capacity, planned, tier, pinned, inserted, tierVars, readVars, ownerVars, job>>

\* A host hit leaves the host tier first, then waits for room.
AcquireHosted(k) ==
  /\ MayClaim(k)
  /\ tier[k] = "host"
  /\ k \in Experts => accesses < MaxAccesses
  /\ inHost' = inHost \ {k}
  /\ hostBytes' = IF k \in inHost THEN hostBytes - Size[k] ELSE hostBytes
  /\ job' = Doing("promote", k)
  /\ UNCHANGED <<capacity, planned, entryVars, inDevice, deviceBytes, accesses, readVars,
                 ownerVars, claims>>

\* Broken variant: a read that is collected stays counted.
TakeLeavesBytes(k) ==
  /\ pending' = SelectSeq(pending, LAMBDA x : x # k)
  /\ UNCHANGED <<pendingBytes, pendingOrdered, executor>>

\* _take_pending: whatever read of k is in flight is collected, and is in flight no more.
TakePending(k) ==
  /\ \/ /\ \A i \in DOMAIN pending : pending[i] # k
        /\ UNCHANGED <<pending, pendingBytes>>
     \/ \E i \in DOMAIN pending : /\ pending[i] = k
                                  /\ pending' = RemoveAt(pending, i)
                                  /\ pendingBytes' = pendingBytes - Size[k]
  /\ UNCHANGED <<pendingOrdered, executor>>

\* _cache_to_device: bind the weights, over whatever an earlier attempt has left; the host copy is
\* kept only if it can be of use.
Place(k, copy) ==
  /\ bound' = [bound EXCEPT ![k] = TRUE]
  /\ partly' = partly \ {k}
  /\ hostCopy' = [hostCopy EXCEPT ![k] = copy /\ HostCapacity > 0 /\ k \notin planned]

\* move_layer_to_device binds group by group: when it raises, the groups before it are bound, and
\* `moved`, which is what _unbind goes by, has not been set.
PlaceRaises(k) ==
  /\ "place_fails" \in Events
  /\ partly' \in {partly, partly \cup {k}}
  /\ UNCHANGED <<bound, hostCopy>>

\* A miss: the payload is read and placed before any room is made for it.
AcquireMissing(k) ==
  /\ MayClaim(k)
  /\ tier[k] = "storage"
  /\ k \in Experts => accesses < MaxAccesses
  /\ TakePending(k)
  /\ Place(k, TRUE)
  /\ job' = Doing("admit", k)
  /\ UNCHANGED <<capacity, planned, entryVars, tierVars, accesses, claims>>

\* The read or the placement of a miss raised: no entry was made.
AcquireFails(k) ==
  /\ MayClaim(k)
  /\ tier[k] = "storage"
  /\ TakePending(k)
  /\ \/ "read_fails" \in Events /\ UNCHANGED ownerVars
     \/ PlaceRaises(k)
  /\ Unwound
  /\ UNCHANGED <<capacity, planned, entryVars, tierVars, accesses, job>>

-------------------------------------------------------------------------------
(* _make_room and _demote: one victim per iteration, host room one entry at a time. *)

Need == IF job.at \in {"promote", "admit"} THEN Size[job.key] ELSE 0
\* Broken variant: what is about to come in is not counted.
OverfullBefore == capacity > 0 /\ deviceBytes > capacity
Overfull == capacity > 0 /\ deviceBytes + Need > capacity

Colder(a, b) == uses[a] < uses[b] \/ (uses[a] = uses[b] /\ inserted[a] < inserted[b])
Coldest(S) == {v \in S : \A x \in S \ {v} : Colder(v, x)}
Oldest(S) == {v \in S : \A x \in S \ {v} : inserted[v] < inserted[x]}

\* _next_victim: the least popular expert, or failing that the dense unit admitted first.
\* Broken variant: pins are ignored.
UnclaimedHere == {k \in inDevice : refcount[k] = 0}
EvictableHere == {k \in inDevice : Evictable(k)}
NextVictim == IF EvictableHere \cap Experts # {}
                THEN Coldest(EvictableHere \cap Experts) ELSE Oldest(EvictableHere)

\* _enforce_window, from the front of the pipeline.
InWindow == {k \in inDevice \cap Dense : ~pinned[k]}
\* Broken variant: the window is enforced on units in use.
WindowVictimInUse == IF Cardinality(InWindow) > Window THEN Oldest(InWindow) ELSE {}
WindowVictim == IF Cardinality(InWindow) > Window
                  THEN Oldest({k \in InWindow : refcount[k] = 0}) ELSE {}

Victims == CASE job.at \in {"promote", "admit", "resize"} -> IF Overfull THEN NextVictim ELSE {}
             [] job.at = "window" -> WindowVictim
             [] OTHER -> {}

\* The loop is over: it fits, or whatever is left is pinned or in use.
RoomMade(at) == job.at = at /\ job.victim = NoKey /\ Victims = {}

\* Broken variant: the victim is not taken off the device's dict.
BeginDemotionInPlace(v) ==
  /\ job.victim = NoKey
  /\ v \in Victims
  /\ job' = [job EXCEPT !.victim = v]
  /\ UNCHANGED <<capacity, planned, entryVars, tierVars, accesses, readVars, ownerVars, claims>>

BeginDemotion(v) ==
  /\ job.victim = NoKey
  /\ v \in Victims
  /\ inDevice' = inDevice \ {v}
  /\ deviceBytes' = deviceBytes - Size[v]
  /\ job' = [job EXCEPT !.victim = v]
  /\ UNCHANGED <<capacity, planned, entryVars, inHost, hostBytes, accesses, readVars, ownerVars,
                 claims>>

HostFits(n) == hostBytes + n <= HostCapacity

\* _make_host_room: cold experts first, then the dense unit admitted first.
HostEvictable == {h \in inHost : Evictable(h)}
HostVictim == IF HostEvictable \cap Experts # {}
                THEN Coldest(HostEvictable \cap Experts) ELSE Oldest(HostEvictable)

\* The payload is cleared before the discard hook is called with it (550-552).
EvictHosted(h) ==
  /\ job.victim # NoKey /\ HostCapacity > 0
  /\ ~HostFits(Size[job.victim])
  /\ h \in HostVictim
  /\ inHost' = inHost \ {h}
  /\ hostBytes' = hostBytes - Size[h]
  /\ Forget({h})
  /\ UNCHANGED <<capacity, planned, inDevice, deviceBytes, accesses, readVars, ownerVars, claims,
                 job>>

HostRoomMade ==
  job.victim # NoKey /\ (HostCapacity = 0 \/ HostFits(Size[job.victim]) \/ HostEvictable = {})

\* _cache_to_host accepts an entry that still has its host copy, and only that.
HostTakes(v) == HostCapacity > 0 /\ HostFits(Size[v]) /\ hostCopy[v]

DemoteToHost(v) ==
  /\ HostRoomMade /\ v = job.victim /\ HostTakes(v)
  /\ tier' = [tier EXCEPT ![v] = "host"]
  /\ inHost' = inHost \cup {v}
  /\ hostBytes' = hostBytes + Size[v]
  /\ bound' = [bound EXCEPT ![v] = FALSE]
  /\ job' = [job EXCEPT !.victim = NoKey]
  /\ UNCHANGED <<capacity, planned, refcount, pinned, uses, inserted, inDevice, deviceBytes,
                 accesses, readVars, hostCopy, partly, claims>>

\* Broken variant: the module keeps the weights of what it is told to discard.
DiscardCopy(S) == UNCHANGED <<bound, partly>> /\ hostCopy' = [k \in Keys |-> hostCopy[k] /\ k \notin S]

\* _cache_discard: the module gives up the weights in `moved`, and the host copy goes.
Discard(S) ==
  /\ UNCHANGED partly
  /\ bound' = [k \in Keys |-> bound[k] /\ k \notin S]
  /\ hostCopy' = [k \in Keys |-> hostCopy[k] /\ k \notin S]

DemoteToStorage(v) ==
  /\ HostRoomMade /\ v = job.victim /\ ~HostTakes(v)
  /\ Forget({v})
  /\ Discard({v})
  /\ job' = [job EXCEPT !.victim = NoKey]
  /\ UNCHANGED <<capacity, planned, tierVars, accesses, readVars, claims>>

-------------------------------------------------------------------------------
(* The end of acquire. *)

\* Broken variant: the bytes admitted are not counted.
AddUncounted(k) == inDevice' = inDevice \cup {k} /\ UNCHANGED <<deviceBytes, inHost, hostBytes>>

AddToDevice(k) == /\ inDevice' = inDevice \cup {k}
                  /\ deviceBytes' = deviceBytes + Size[k]
                  /\ UNCHANGED <<inHost, hostBytes>>

Promote(k) ==
  /\ RoomMade("promote") /\ k = job.key
  /\ Place(k, hostCopy[k])
  /\ AddToDevice(k)
  /\ tier' = [tier EXCEPT ![k] = "device"]
  /\ refcount' = [refcount EXCEPT ![k] = @ + 1]
  /\ Touch(k)
  /\ Claimed(k)
  /\ job' = Idle
  /\ UNCHANGED <<capacity, planned, pinned, inserted, readVars>>

\* Placing the payload raised: the entry has left the host tier and reached no other.
PromoteFails(k) ==
  /\ RoomMade("promote") /\ k = job.key
  /\ PlaceRaises(k)
  /\ Unwound
  /\ job' = Idle
  /\ UNCHANGED <<capacity, planned, entryVars, tierVars, accesses, readVars>>

Unkeepable(k) == capacity = 0 \/ Size[k] > capacity

\* Nowhere to keep it: tracked, in no tier, until its claims are given up.
AdmitTransient(k) ==
  /\ RoomMade("admit") /\ k = job.key /\ Unkeepable(k)
  /\ Enter(k, "transient", 1)
  /\ Touch(k)
  /\ Claimed(k)
  /\ job' = Idle
  /\ UNCHANGED <<capacity, planned, tierVars, readVars, ownerVars>>

AdmitExpert(k) ==
  /\ RoomMade("admit") /\ k = job.key /\ ~Unkeepable(k) /\ k \in Experts
  /\ Enter(k, "device", 1)
  /\ AddToDevice(k)
  /\ Touch(k)
  /\ Claimed(k)
  /\ job' = Idle
  /\ UNCHANGED <<capacity, planned, readVars, ownerVars>>

\* A dense unit is admitted before it is claimed, and the window is enforced in between.
AdmitDense(k) ==
  /\ RoomMade("admit") /\ k = job.key /\ ~Unkeepable(k) /\ k \in Dense
  /\ Enter(k, "device", 0)
  /\ AddToDevice(k)
  /\ job' = Doing("window", k)
  /\ UNCHANGED <<capacity, planned, uses, accesses, readVars, ownerVars, claims>>

ClaimAdmitted(k) ==
  /\ RoomMade("window") /\ k = job.key
  /\ refcount' = [refcount EXCEPT ![k] = IF tier[k] = "storage" THEN 0 ELSE @ + 1]
  /\ Claimed(k)
  /\ job' = Idle
  /\ UNCHANGED <<capacity, planned, tier, pinned, uses, inserted, tierVars, accesses, readVars,
                 ownerVars>>

-------------------------------------------------------------------------------
(* release *)

\* Broken variant: release() gives up early for what a tier holds.
CountDownTransient(k) ==
  refcount' = [refcount EXCEPT ![k] = IF @ > 0 /\ tier[k] = "transient" THEN @ - 1 ELSE @]
CountDown(k) == refcount' = [refcount EXCEPT ![k] = IF @ > 0 THEN @ - 1 ELSE 0]

Release(k) ==
  /\ job = Idle
  /\ claims[k] > 0
  /\ claims' = [claims EXCEPT ![k] = @ - 1]
  /\ IF tier[k] = "transient" /\ refcount[k] <= 1
       THEN Forget({k}) /\ Discard({k})
       ELSE /\ CountDown(k)
            /\ UNCHANGED <<tier, pinned, uses, inserted, ownerVars>>
  /\ UNCHANGED <<capacity, planned, tierVars, accesses, readVars, job>>

\* A module's forward raised between its pre hook and its post hook.
ForwardFails ==
  /\ "forward_fails" \in Events
  /\ job = Idle
  /\ \E k \in Keys : claims[k] > 0
  /\ Unwound
  /\ UNCHANGED <<capacity, planned, entryVars, tierVars, accesses, readVars, ownerVars, job>>

-------------------------------------------------------------------------------
(* prefetch_window, prefetch and _start_pending: one key under one hold of the lock. *)

ReadLimit == capacity + HostCapacity
\* Broken variant: two reads are let through, not one.
ThreeInFlight == Len(pending) > 2 /\ pendingBytes > ReadLimit
TooMuchInFlight == Len(pending) > 1 /\ pendingBytes > ReadLimit

Prefetch(k) ==
  /\ job = Idle /\ executor
  /\ pendingBytes + Size[k] <= MaxReadBytes
  /\ tier[k] = "storage"
  /\ \A i \in DOMAIN pending : pending[i] # k
  /\ pending' = Append(pending, k)
  /\ pendingBytes' = pendingBytes + Size[k]
  /\ job' = Doing("trim", k)
  /\ UNCHANGED <<capacity, planned, entryVars, tierVars, accesses, pendingOrdered, executor,
                 ownerVars, claims>>

DropStalest ==
  /\ job.at = "trim" /\ TooMuchInFlight /\ pendingOrdered
  /\ pending' = Tail(pending)
  /\ pendingBytes' = pendingBytes - Size[Head(pending)]
  /\ UNCHANGED <<capacity, planned, entryVars, tierVars, accesses, pendingOrdered, executor,
                 ownerVars, claims, job>>

\* popitem(last=False) is not a call a plain dict accepts: the TypeError unwinds the forward.
DropStalestRaises ==
  /\ job.at = "trim" /\ TooMuchInFlight /\ ~pendingOrdered
  /\ Unwound
  /\ job' = Idle
  /\ UNCHANGED <<capacity, planned, entryVars, tierVars, accesses, readVars, ownerVars>>

PrefetchStarted ==
  /\ job.at = "trim" /\ ~TooMuchInFlight
  /\ job' = Idle
  /\ UNCHANGED <<capacity, planned, entryVars, tierVars, accesses, readVars, ownerVars, claims>>

-------------------------------------------------------------------------------
(* The engine's side: plans, the live budget, and the generation boundary. *)

ApplyPlan(P) ==
  /\ job = Idle
  /\ P # planned
  /\ planned' = P
  /\ pinned' = [k \in Keys |-> IF k \in P THEN tier[k] # "storage"
                                          ELSE pinned[k] /\ k \notin planned]
  /\ UNCHANGED <<capacity, tier, refcount, uses, inserted, tierVars, accesses, readVars,
                 ownerVars, claims, job>>

Resize(c) ==
  /\ job = Idle
  /\ c # capacity
  /\ capacity' = c
  /\ job' = Doing("resize", NoKey)
  /\ UNCHANGED <<planned, entryVars, tierVars, accesses, readVars, ownerVars, claims>>

Resized ==
  /\ RoomMade("resize")
  /\ job' = Idle
  /\ UNCHANGED <<capacity, planned, entryVars, tierVars, accesses, readVars, ownerVars, claims>>

\* _drop_pending: a plain dict replaces the table, and the bytes it counted stay counted.
DropPending == pending' = <<>> /\ pendingOrdered' = FALSE /\ UNCHANGED pendingBytes

Clear ==
  /\ "clear" \in Events
  /\ job = Idle
  /\ DropPending
  /\ job' = Doing("clear", NoKey)
  /\ UNCHANGED <<capacity, planned, entryVars, tierVars, accesses, executor, ownerVars, claims>>

Close ==
  /\ "close" \in Events
  /\ job = Idle
  /\ executor /\ executor' = FALSE
  /\ DropPending
  /\ job' = Doing("clear", NoKey)
  /\ UNCHANGED <<capacity, planned, entryVars, tierVars, accesses, ownerVars, claims>>

Clearable == {k \in Tracked : refcount[k] = 0}

\* Everything that is not in use leaves, pinned or not, from whichever tier holds it.
ClearEntry(k) ==
  /\ job.at = "clear"
  /\ k \in Clearable
  /\ inDevice' = inDevice \ {k} /\ inHost' = inHost \ {k}
  /\ deviceBytes' = IF k \in inDevice THEN deviceBytes - Size[k] ELSE deviceBytes
  /\ hostBytes' = IF k \in inHost THEN hostBytes - Size[k] ELSE hostBytes
  /\ Forget({k})
  /\ Discard({k})
  /\ UNCHANGED <<capacity, planned, accesses, readVars, claims, job>>

Cleared ==
  /\ job.at = "clear"
  /\ Clearable = {}
  /\ job' = Idle
  /\ UNCHANGED <<capacity, planned, entryVars, tierVars, accesses, readVars, ownerVars, claims>>

-------------------------------------------------------------------------------
Next ==
  \/ \E k \in Keys :
       \/ AcquireBound(k) \/ AcquireHosted(k) \/ AcquireMissing(k) \/ AcquireFails(k)
       \/ BeginDemotion(k) \/ EvictHosted(k) \/ DemoteToHost(k) \/ DemoteToStorage(k)
       \/ Promote(k) \/ PromoteFails(k)
       \/ AdmitTransient(k) \/ AdmitExpert(k) \/ AdmitDense(k) \/ ClaimAdmitted(k)
       \/ Release(k) \/ Prefetch(k) \/ ClearEntry(k)
  \/ ForwardFails \/ DropStalest \/ DropStalestRaises \/ PrefetchStarted
  \/ \E P \in Plans : ApplyPlan(P)
  \/ \E c \in Capacities : Resize(c)
  \/ Resized \/ Clear \/ Close \/ Cleared

Spec == Init /\ [][Next]_vars

\* The thread that holds the lock runs on: it waits for nothing but a read it starts itself.
FairSpec == Spec /\ WF_vars(job # Idle /\ Next)

-------------------------------------------------------------------------------
(* Properties. *)

\* A claim the cache stands by: the weights are bound, the entry is where the eviction loops only
\* look at what is not in use, and it counts at least the claims on it.
Held(k) == bound[k] /\ tier[k] \in {"device", "transient"} /\ refcount[k] >= claims[k]

\* The window is full of units in use when k comes to be claimed.
InUseHere == {d \in InWindow : refcount[d] > 0}
Crowded(k) == job.at = "window" /\ job.key = k /\ Cardinality(InUseHere \ {k}) >= Window

\* The hard invariant (97-100), as far as the code keeps it: a claim is granted with the weights in
\* place and nothing takes them from under it, through every interleaving of eviction, plan and
\* budget and whatever raises, unless it is granted into a window that is full of units in use.
ClaimsHold ==
  [][\A k \in Keys : claims[k] = 0 \/ Held(k) => claims'[k] = 0 \/ Held(k)' \/ Crowded(k)]_vars

\* The hard invariant as the class states it (97-100).  A shared expert is claimed inside its layer
\* (base.py, 1259-1277) and a window may be one unit wide (base.py, 1487-1492): the window then
\* takes the unit it has just admitted, before acquire counts the claim (246-249).
ClaimedIsBound ==
  \A k \in Keys : claims[k] > 0 => bound[k] /\ tier[k] \in {"device", "transient"}

\* A module has its weights exactly while the cache knows about it: no eviction, release or clear
\* leaves them bound for the rest of the run (378-382), and none takes them from an entry that is
\* still on the device.  A miss binds before it admits.  Weights the cache does not know of are
\* there only where a placement raised, and only until one of the same unit succeeds.
BoundIsKnown ==
  \A k \in Keys : /\ bound[k] <=> \/ tier[k] \in {"device", "transient"}
                                  \/ job.at = "admit" /\ job.key = k
                  /\ k \in partly => ~bound[k] /\ "place_fails" \in Events

\* What the cache says is in storage has nothing on the device: clear() is to drop everything and
\* "unbind it from whoever owns it" (581).  A placement that raised breaks it.
StoredIsUnbound ==
  job = Idle => \A k \in Keys : tier[k] = "storage" => ~bound[k] /\ k \notin partly

\* The entry's own view of its tier agrees with the tier dicts and with the byte counters every
\* admission decision is taken from; only a promotion or a demotion under way is in neither.
TiersAgree ==
  /\ inDevice = {k \in Keys : tier[k] = "device" /\ k # job.victim}
  /\ inHost \subseteq {k \in Keys : tier[k] = "host"}
  /\ deviceBytes = SumFunctionOnSet(Size, inDevice)
  /\ hostBytes = SumFunctionOnSet(Size, inHost)

\* Nothing is ever in the host tier without a host copy to serve it back from: the entry that was
\* pinned when it was placed, and so kept none, and was unpinned later goes to storage (523-529).
HostedHasCopy == \A k \in Keys : tier[k] = "host" => hostCopy[k]

\* The host tier never holds more than its bytes, whatever is pinned or in use inside it.
HostWithinCapacity == hostBytes <= HostCapacity

\* A unit is never both held and being read ahead: a read in flight is collected by the miss that
\* needs it, so no payload waits for a caller that will not come (297-304).
PendingIsMissing ==
  \A i \in DOMAIN pending : /\ tier[pending[i]] = "storage"
                            /\ \A j \in DOMAIN pending : pending[i] = pending[j] => i = j

\* The bytes the cap on reads in flight is enforced with are the bytes in flight, as long as no
\* clear() has replaced the table.
PendingCounted ==
  pendingOrdered => pendingBytes = SumFunctionOnSet(Size, {pending[i] : i \in DOMAIN pending})

\* Starting a read leaves in flight no more than the cache could admit, or that read alone
\* (295, 306-309): the stalest are dropped until it does.  A table that clear() has replaced is
\* beyond the loop: see CapHolds.
PendingCapped ==
  [][job.at = "trim" /\ job'.at # "trim" /\ pendingOrdered
     => \/ Len(pending') <= 1
        \/ SumFunctionOnSet(Size, {pending'[i] : i \in DOMAIN pending'}) <= ReadLimit]_vars

\* The cap as its comment has it (294-309), after a clear() too.
CapHolds ==
  [][job.at = "trim" /\ job'.at # "trim"
     => \/ Len(pending') <= 1
        \/ SumFunctionOnSet(Size, {pending'[i] : i \in DOMAIN pending'}) <= ReadLimit]_vars

Protected(k) == tier[k] = "device" /\ (pinned[k] \/ refcount[k] > 0)

Stays(k) == tier'[k] = "device" \/ (job.at = "clear" /\ refcount[k] = 0)

\* Pinned or in use, an entry leaves the device for nothing but clear() dropping an unclaimed one.
ProtectedStays == [][\A k \in Keys : Protected(k) => Stays(k)]_vars

\* An acquire or a shrink that leaves the device over its capacity leaves nothing on it that could
\* still have gone (457-467, 573): the unit that just came in, and what is pinned or in use.  A
\* capacity of 0 switches the tier off and evicts nothing (459-460).
WithinCapacity ==
  [][/\ job.at \in {"promote", "admit", "resize"}
     /\ job'.at \notin {"promote", "admit", "resize"}
     => \/ capacity = 0 \/ deviceBytes' <= capacity
        \/ \A d \in inDevice' \ {job.key} : ~Evictable(d)]_vars

\* The books the owner never sees: what is in the host tier can be served from it and fits, and
\* reads in flight are of units that are missing and are counted.
BooksAgree ==
  /\ HostedHasCopy /\ HostWithinCapacity
  /\ PendingIsMissing /\ PendingCounted

\* A reference no claim answers for keeps its unit from ever being evicted again.  One is left only
\* where an exception leaves the forward and its post hooks do not run: no release, eviction,
\* admission or clear leaves one.
Raises == \/ ForwardFails \/ DropStalestRaises
          \/ \E k \in Keys : AcquireFails(k) \/ PromoteFails(k)
ReferencesAnswered ==
  [][\A k \in Keys : refcount[k] <= claims[k] => refcount'[k] <= claims'[k] \/ Raises]_vars

\* The eviction loops end and the lock is given up, with everything pinned or in use, with a host
\* tier that cannot take the victim, and with reads in flight past the cap.
OperationsEnd == []<>(job = Idle)

\* The promise the forward relies on, in full: see Residency.
Promise == INSTANCE Residency WITH
  resident <- {k \in Keys : bound[k]}, bare <- {k \in Keys : claims[k] > 0 /\ ~Held(k)},
  crowd <- InUseHere, Width <- Window
Promised == Promise!Spec
================================================================================
