-------------------------------- MODULE Staging --------------------------------
(***************************************************************************)
(* The host side of a weight transfer: HostStagingPool and BufferLease     *)
(* (streaming/staging.py), TransferHandle and WeightTransfer               *)
(* (streaming/transfer.py), and the two callers that stage a layer,        *)
(* LayerLoader.load and _move_coalesced (base.py, 952-990).                *)
(*                                                                         *)
(* Several threads stage, resolve and drain.  A step is what one thread    *)
(* does under one hold of the pool's, the transfer's or a handle's lock;   *)
(* `at` is where it is between two of them.  The copy stream completes     *)
(* copies in the order they were issued, so a handle is its number in that *)
(* order and `fired` counts the events that have fired.                    *)
(***************************************************************************)
EXTENDS Integers, FiniteSets, Functions

CONSTANTS
  Threads, Packers,    \* the threads; those that pack with _move_coalesced, the rest load
  Owner,               \* the thread that owns the engine, and drains
  Slots,               \* identities for pooled buffers
  Sizes, BufferSizes,  \* the sizes leased; the sizes asked of buffer()
  Budget,              \* bytes the pool may keep resident
  Backends,            \* the backends: TRUE has copy streams, FALSE has none
  Transient, None,     \* an unpooled buffer; no buffer
  Faults,              \* whether filling a staged buffer may raise
  MaxSends             \* bound: transfers issued

ASSUME StagingAssumption ==
  /\ Packers \subseteq Threads /\ Owner \in Threads /\ IsFiniteSet(Slots)
  /\ Sizes \subseteq Nat \ {0} /\ BufferSizes \subseteq Nat \ {0}
  /\ Budget \in Nat /\ MaxSends \in Nat
  /\ Transient # None /\ Transient \notin Slots /\ None \notin Slots
  /\ Backends \subseteq BOOLEAN /\ Backends # {} /\ Faults \in BOOLEAN

Handles == 1..MaxSends
Buffers == Slots \cup {Transient, None}

VARIABLES
  slots, size, leased,      \* _slots, and the size and `leased` flag of each
  buffers, resident,        \* sizes of the buffers of buffer(); _resident_bytes
  lease,                    \* _lease of each handle
  inFlight,                 \* _in_flight
  sent, fired,              \* transfers issued; events fired
  resolved,                 \* handles resolved
  async,                    \* is_async of the transfer
  at,                       \* where a thread is
  hold,                     \* the buffer a thread is filling, or is about to give back
  task                      \* the locals of the operation a thread is in

poolVars == <<slots, size, leased, buffers, resident>>
copyVars == <<lease, inFlight, sent, fired, resolved, async>>
threadVars == <<at, hold, task>>
vars == <<poolVars, copyVars, threadVars>>

\* Why a thread harvests, the size it leases, the handle it is at, the handles it swept from the
\* list, those of them left to visit and those it keeps.
Tasks == [for : {"nothing", "lease", "resolve", "drain"}, want : Nat, cur : 0..MaxSends,
          swept : SUBSET Handles, left : SUBSET Handles, kept : SUBSET Handles]
NoTask == [for |-> "nothing", want |-> 0, cur |-> 0, swept |-> {}, left |-> {}, kept |-> {}]

Places == {"idle", "reclaim", "visit", "take", "give", "retry", "fill", "append"}

TypePool ==
  /\ slots \in SUBSET Slots /\ size \in [Slots -> Nat] /\ leased \in [Slots -> BOOLEAN]
  /\ buffers \in SUBSET BufferSizes /\ resident \in Int
TypeCopy ==
  /\ lease \in [Handles -> Buffers] /\ inFlight \in SUBSET Handles
  /\ sent \in 0..MaxSends /\ fired \in 0..MaxSends /\ resolved \in SUBSET Handles
  /\ async \in BOOLEAN
TypeThreads ==
  /\ at \in [Threads -> Places] /\ hold \in [Threads -> Buffers]
  /\ task \in [Threads -> Tasks]
TypeOK == TypePool /\ TypeCopy /\ TypeThreads

Init ==
  /\ slots = {} /\ size = [s \in Slots |-> 0] /\ leased = [s \in Slots |-> FALSE]
  /\ buffers = {} /\ resident = 0
  /\ lease = [h \in Handles |-> None] /\ inFlight = {} /\ sent = 0 /\ fired = 0 /\ resolved = {}
  /\ async \in Backends
  /\ at = [t \in Threads |-> "idle"] /\ hold = [t \in Threads |-> None]
  /\ task = [t \in Threads |-> NoTask]

Go(t, place) == at' = [at EXCEPT ![t] = place]
Return(t) == Go(t, "idle") /\ task' = [task EXCEPT ![t] = NoTask]
Hold(t, b) == hold' = [hold EXCEPT ![t] = b]
Complete(h) == ~async \/ h <= fired

-------------------------------------------------------------------------------
(* HostStagingPool.lease *)

\* Broken variant, for the mutation runs: the `leased` flag is not looked at.
Unleased(n) == {s \in slots : size[s] >= n}
Free(n) == {s \in slots : ~leased[s] /\ size[s] >= n}
Smallest(S) == {s \in S : \A x \in S : size[s] <= size[x]}

CheckOut(t, s) ==
  /\ leased' = [leased EXCEPT ![s] = TRUE]
  /\ Hold(t, s)
  /\ Go(t, "fill")

\* Bounded: no more buffers are asked for than there are transfers left to issue.
MayStage ==
  sent + Cardinality({t \in Threads : task[t].for = "lease" \/ at[t] = "fill"}) < MaxSends

LeaseFree(t, n) ==
  /\ at[t] = "idle" /\ MayStage
  /\ \E s \in Smallest(Free(n)) : CheckOut(t, s)
  /\ UNCHANGED <<slots, size, buffers, resident, copyVars, task>>

\* No free buffer: the lock is dropped and finished transfers are harvested first.
LeaseReclaims(t, n) ==
  /\ at[t] = "idle" /\ MayStage
  /\ Free(n) = {}
  /\ Go(t, "reclaim")
  /\ task' = [task EXCEPT ![t].for = "lease", ![t].want = n]
  /\ UNCHANGED <<poolVars, copyVars, hold>>

\* Broken variant: the new buffer is not counted against the budget.
AffordableBefore(n) == Budget > 0 /\ resident <= Budget
Affordable(n) == Budget > 0 /\ resident + n <= Budget

\* The lock is taken again, and what is free now need not be what was free before: a buffer that
\* came back, a new one if the budget has room for it, or one outside the pool.
LeaseRetry(t) ==
  /\ at[t] = "retry"
  /\ \/ \E s \in Smallest(Free(task[t].want)) :
          CheckOut(t, s) /\ UNCHANGED <<slots, size, resident>>
     \/ /\ Free(task[t].want) = {} /\ Affordable(task[t].want)
        /\ \E s \in Slots \ slots : /\ slots' = slots \cup {s}
                                    /\ size' = [size EXCEPT ![s] = task[t].want]
                                    /\ CheckOut(t, s)
        /\ resident' = resident + task[t].want
     \/ /\ Free(task[t].want) = {} /\ ~Affordable(task[t].want)
        /\ Hold(t, Transient) /\ Go(t, "fill")
        /\ UNCHANGED <<slots, size, leased, resident>>
  /\ task' = [task EXCEPT ![t] = NoTask]
  /\ UNCHANGED <<buffers, copyVars>>

\* Broken variant: the lease is dropped and the pool is not told.
HandNothingBack(t) == UNCHANGED leased /\ Hold(t, None)

\* BufferLease.release and _return: the flag is cleared under the pool's lock.
HandBack(t) ==
  /\ leased' = [s \in Slots |-> leased[s] /\ s # hold[t]]
  /\ Hold(t, None)

-------------------------------------------------------------------------------
(* Filling the buffer, and WeightTransfer.send_buffer. *)

\* The loader gives a half-filled buffer back; _move_coalesced falls back to placing tensors one
\* by one and forgets the lease.
FillFails(t) ==
  /\ Faults /\ at[t] = "fill"
  /\ IF t \in Packers THEN Hold(t, None) /\ UNCHANGED leased ELSE HandBack(t)
  /\ Go(t, "idle")
  /\ UNCHANGED <<slots, size, buffers, resident, copyVars, task>>

\* The copy is issued and its event recorded; only then does the transfer learn of the handle.
SendAsync(t) ==
  /\ async /\ at[t] = "fill" /\ sent < MaxSends
  /\ sent' = sent + 1
  /\ lease' = [lease EXCEPT ![sent + 1] = hold[t]]
  /\ Hold(t, None)
  /\ task' = [task EXCEPT ![t].cur = sent + 1]
  /\ Go(t, "append")
  /\ UNCHANGED <<poolVars, inFlight, fired, resolved, async>>

AppendHandle(t) ==
  /\ at[t] = "append"
  /\ inFlight' = inFlight \cup {task[t].cur}
  /\ Return(t)
  /\ UNCHANGED <<poolVars, lease, sent, fired, resolved, async, hold>>

\* Without streams the copy is done when the handle exists, and the lease goes through the guard.
SendSync(t) ==
  /\ ~async /\ at[t] = "fill" /\ sent < MaxSends
  /\ sent' = sent + 1
  /\ Go(t, "give")
  /\ UNCHANGED <<poolVars, lease, inFlight, fired, resolved, async, hold, task>>

\* The device reaches the event recorded behind the oldest copy still running.
Fire ==
  /\ async /\ fired < sent
  /\ fired' = fired + 1
  /\ UNCHANGED <<poolVars, lease, inFlight, sent, resolved, async, threadVars>>

-------------------------------------------------------------------------------
(* TransferHandle.resolve, WeightTransfer.reclaim and the guard. *)

\* The wait is queued on the device; the thread goes on to harvest what has finished.
Resolve(t, h) ==
  /\ async /\ at[t] = "idle"
  /\ h <= sent /\ h \notin resolved
  /\ \A u \in Threads : ~(at[u] = "append" /\ task[u].cur = h)
  /\ resolved' = resolved \cup {h}
  /\ Go(t, "reclaim")
  /\ task' = [task EXCEPT ![t].for = "resolve"]
  /\ UNCHANGED <<poolVars, lease, inFlight, sent, fired, async, hold>>

BeginReclaim(t) ==
  /\ at[t] = "reclaim"
  /\ task' = [task EXCEPT ![t].swept = inFlight, ![t].left = inFlight]
  /\ Go(t, "visit")
  /\ UNCHANGED <<poolVars, copyVars, hold>>

Reclaiming(t) == at[t] = "visit" /\ task[t].for # "drain"

\* Broken variant: a handle whose lease is gone is looked at again and again.
ReclaimRetries(t, h) ==
  /\ Reclaiming(t) /\ h \in task[t].left
  /\ lease[h] = None \/ ~Complete(h)
  /\ task' = [task EXCEPT ![t].left = IF lease[h] = None THEN @ ELSE @ \ {h}]
  /\ UNCHANGED <<poolVars, copyVars, at, hold>>

\* reclaim_if_complete before the handle's lock: nothing to give back, or not finished.
ReclaimSkips(t, h) ==
  /\ Reclaiming(t) /\ h \in task[t].left
  /\ lease[h] = None \/ ~Complete(h)
  /\ task' = [task EXCEPT ![t].left = @ \ {h},
                          ![t].kept = IF lease[h] = None THEN @ ELSE @ \cup {h}]
  /\ UNCHANGED <<poolVars, copyVars, at, hold>>

ReclaimFinds(t, h) ==
  /\ Reclaiming(t) /\ h \in task[t].left
  /\ lease[h] # None /\ Complete(h)
  /\ task' = [task EXCEPT ![t].left = @ \ {h}, ![t].cur = h]
  /\ Go(t, "take")
  /\ UNCHANGED <<poolVars, copyVars, hold>>

\* Broken variant: the lease is taken whether or not the copy has finished.
TakeAtOnce(t, h) == Hold(t, lease[h]) /\ lease' = [lease EXCEPT ![h] = None] /\ Go(t, "give")

\* _release_source under the handle's lock: the lease is taken once the copy has finished.
Take(t, h) ==
  /\ Complete(h)
  /\ Hold(t, lease[h])
  /\ lease' = [lease EXCEPT ![h] = None]
  /\ Go(t, "give")

\* Beaten to the lock, the guard reports no release and the handle is kept.
TakeLease(t, h) ==
  /\ at[t] = "take" /\ h = task[t].cur
  /\ \/ /\ lease[h] = None
        /\ task' = [task EXCEPT ![t].kept = @ \cup {h}]
        /\ Go(t, "visit")
        /\ UNCHANGED <<lease, hold>>
     \/ /\ lease[h] # None
        /\ Take(t, h)
        /\ UNCHANGED task
  /\ UNCHANGED <<poolVars, inFlight, sent, fired, resolved, async>>

\* The lock of the handle is free again before the buffer is back in the pool.
GiveBack(t) ==
  /\ at[t] = "give"
  /\ HandBack(t)
  /\ Go(t, IF async THEN "visit" ELSE "idle")
  /\ UNCHANGED <<slots, size, buffers, resident, copyVars, task>>

\* What was sent while harvesting stays in the list.
EndReclaim(t) ==
  /\ Reclaiming(t) /\ task[t].left = {}
  /\ inFlight' = inFlight \ (task[t].swept \ task[t].kept)
  /\ IF task[t].for = "lease"
       THEN Go(t, "retry") /\ task' = [task EXCEPT ![t].swept = {}, ![t].kept = {}, ![t].cur = 0]
       ELSE Return(t)
  /\ UNCHANGED <<poolVars, lease, sent, fired, resolved, async, hold>>

-------------------------------------------------------------------------------
(* WeightTransfer.drain, HostStagingPool.clear and HostStagingPool.buffer. *)

Drain(t) ==
  /\ at[t] = "idle"
  /\ task' = [task EXCEPT ![t].for = "drain", ![t].swept = inFlight, ![t].left = inFlight]
  /\ inFlight' = {}
  /\ Go(t, "visit")
  /\ UNCHANGED <<poolVars, lease, sent, fired, resolved, async, hold>>

Draining(t) == at[t] = "visit" /\ task[t].for = "drain"

\* The guard again, and here it may have to wait for the event.
DrainNext(t, h) ==
  /\ Draining(t) /\ h \in task[t].left
  /\ task' = [task EXCEPT ![t].left = @ \ {h}, ![t].cur = h]
  /\ \/ lease[h] = None /\ UNCHANGED <<lease, hold, at>>
     \/ lease[h] # None /\ Take(t, h)
  /\ UNCHANGED <<poolVars, inFlight, sent, fired, resolved, async>>

EndDrain(t) ==
  /\ Draining(t) /\ task[t].left = {}
  /\ Return(t)
  /\ UNCHANGED <<poolVars, copyVars, hold>>

\* A leased buffer is kept; what is resident is counted afresh.
Clear(t) ==
  /\ at[t] = "idle"
  /\ slots # {} \/ buffers # {}
  /\ buffers' = {}
  /\ slots' = {s \in slots : leased[s]}
  /\ resident' = SumFunctionOnSet(size, slots')
  /\ UNCHANGED <<size, leased, copyVars, threadVars>>

\* A larger buffer of buffer() supersedes the smaller ones, if the budget has room for it.
Total(S) == SumFunctionOnSet([n \in S |-> n], S)
BufferGrows(t, n) ==
  /\ at[t] = "idle" /\ Budget > 0
  /\ \A b \in buffers : b < n
  /\ resident - Total(buffers) + n <= Budget
  /\ buffers' = {n}
  /\ resident' = resident - Total(buffers) + n
  /\ UNCHANGED <<slots, size, leased, copyVars, threadVars>>

-------------------------------------------------------------------------------
Stage(t) == LeaseRetry(t) \/ SendAsync(t) \/ SendSync(t) \/ AppendHandle(t)
Harvest(t) ==
  \/ BeginReclaim(t) \/ GiveBack(t) \/ EndReclaim(t) \/ EndDrain(t)
  \/ \E h \in Handles :
       ReclaimSkips(t, h) \/ ReclaimFinds(t, h) \/ TakeLease(t, h) \/ DrainNext(t, h)

Next ==
  \/ Fire
  \/ \E t \in Threads :
       \/ Stage(t) \/ Harvest(t) \/ FillFails(t) \/ Drain(t) \/ Clear(t)
       \/ \E n \in Sizes : LeaseFree(t, n) \/ LeaseReclaims(t, n)
       \/ \E n \in BufferSizes : BufferGrows(t, n)
       \/ \E h \in Handles : Resolve(t, h)

Spec == Init /\ [][Next]_vars

\* A thread inside an operation runs on, the device gets through the copies it was given, and the
\* thread that owns the engine drains when a generation ends and when it closes.
FairSpec ==
  /\ Spec /\ WF_vars(Fire)
  /\ \A t \in Threads : WF_vars(Stage(t)) /\ WF_vars(Harvest(t))
  /\ SF_vars(Drain(Owner))

-------------------------------------------------------------------------------
(* Properties. *)

\* A buffer a copy is still reading is checked out, to that copy and to nobody else: nothing can be
\* written over it (the guard, transfer.py 61-77; BufferLease, staging.py 34-39).
NeverOverwritten ==
  \A h \in Handles : h <= sent /\ ~Complete(h) =>
    /\ lease[h] # None
    /\ lease[h] \in Slots =>
         /\ leased[lease[h]] /\ lease[h] \in slots
         /\ \A t \in Threads : hold[t] # lease[h]
         /\ \A g \in Handles \ {h} : lease[g] # lease[h]

Owners(s) == {<<"thread", t>> : t \in {u \in Threads : hold[u] = s}}
             \cup {<<"copy", h>> : h \in {g \in Handles : lease[g] = s}}

\* A buffer is checked out exactly while one holder is left to give it back: none is handed out
\* twice and none is lost to the pool.
OneOwner == \A s \in Slots : Cardinality(Owners(s)) = IF leased[s] THEN 1 ELSE 0

\* The pool counts what it holds and never holds more than its budget.
WithinBudget ==
  /\ resident = SumFunctionOnSet(size, slots) + Total(buffers)
  /\ resident <= Budget

\* The pool's two accounts, of who has a buffer and of how many bytes there are, are both right.
Accounted == OneOwner /\ WithinBudget

\* When drain returns, every copy that was in flight when it was called has finished.
DrainWaits ==
  [][\A t \in Threads : EndDrain(t) => \A h \in task[t].swept : Complete(h)]_vars

\* Every operation ends: no reclaim, drain or lease waits on another thread for ever.
OperationsEnd == \A t \in Threads : []<>(at[t] = "idle")

\* A buffer that is checked out comes back: its copy finishes, and somebody harvests or drains it.
AllReturned == \A s \in Slots : leased[s] ~> ~leased[s]
================================================================================
