---------------------------- MODULE StreamingProofs ----------------------------
(***************************************************************************)
(* The way of a layer's weights to the device.                             *)
(*                                                                         *)
(* Staging: for any number of threads, buffers and transfers, any sizes    *)
(* and any budget, a staged buffer is never handed out while a copy reads  *)
(* it, a drain that returns has waited for every copy, and the pool's      *)
(* accounts of who has a buffer and of what it holds are right.            *)
(*                                                                         *)
(* Mixture: for any layer that is WellBuilt, whatever a module uses is     *)
(* there when the module runs, and of rows that could be chosen the chosen *)
(* ones are read and no others.                                            *)
(***************************************************************************)
EXTENDS Staging, Mixture, Collections, TLAPS

(***************************************************************************)
(* Staging: who has a buffer.                                              *)
(***************************************************************************)

\* A buffer somebody holds, a thread or an unfinished copy, is checked out of the pool.
HeldIsLeased ==
  /\ \A t \in Threads : hold[t] \in Slots => leased[hold[t]] /\ hold[t] \in slots
  /\ \A h \in Handles : lease[h] \in Slots => leased[lease[h]] /\ lease[h] \in slots

\* No two holders hold the same one.
Exclusive ==
  /\ \A t, u \in Threads : t # u /\ hold[t] \in Slots => hold[t] # hold[u]
  /\ \A h, g \in Handles : h # g /\ lease[h] \in Slots => lease[h] # lease[g]
  /\ \A t \in Threads, h \in Handles : hold[t] \in Slots => hold[t] # lease[h]

\* A copy that has not finished has not given its lease up, and one not issued has none.
Guarded ==
  /\ fired <= sent
  /\ \A h \in Handles : /\ h <= sent /\ ~Complete(h) => lease[h] # None
                        /\ h > sent => lease[h] = None

\* A thread about to issue a copy holds a buffer for it.
FillingHolds == \A t \in Threads : at[t] = "fill" => hold[t] # None

Typed == /\ slots \in SUBSET Slots /\ leased \in [Slots -> BOOLEAN]
         /\ lease \in [Handles -> Buffers] /\ sent \in 0..MaxSends /\ fired \in 0..MaxSends
         /\ at \in [Threads -> Places] /\ hold \in [Threads -> Buffers]

IInv == Typed /\ HeldIsLeased /\ Exclusive /\ Guarded /\ FillingHolds

\* Most operations move a thread along and touch no buffer.
Quiet ==
  /\ UNCHANGED <<slots, leased, lease, hold, sent, fired, async>>
  /\ at' \in [Threads -> Places]
  /\ \A t \in Threads : at'[t] = "fill" => at[t] = "fill"

\* Such a step keeps the invariant.
LEMMA QuietKeeps == ASSUME IInv, Quiet PROVE IInv'
<1>1. Typed' BY DEF IInv, Typed, Quiet
<1>2. HeldIsLeased' /\ Exclusive' BY DEF IInv, HeldIsLeased, Exclusive, Quiet
<1>3. Guarded' BY DEF IInv, Guarded, Complete, Quiet
<1>4. FillingHolds' BY DEF IInv, FillingHolds, Quiet
<1> QED BY <1>1, <1>2, <1>3, <1>4 DEF IInv

\* A buffer leaves the pool for a thread that fills it: nobody held it before.
LEMMA CheckOutKeeps ==
  ASSUME IInv, NEW t \in Threads, NEW s \in Slots, s \notin slots \/ ~leased[s], CheckOut(t, s),
         slots' = slots \cup {s}, UNCHANGED copyVars
  PROVE IInv'
<1>1. /\ hold' = [hold EXCEPT ![t] = s] /\ leased' = [leased EXCEPT ![s] = TRUE]
      /\ at' = [at EXCEPT ![t] = "fill"] /\ UNCHANGED <<lease, sent, fired, async>>
  BY DEF CheckOut, Hold, Go, copyVars
<1>2. s # None /\ s \in Buffers BY StagingAssumption DEF StagingAssumption, Buffers
<1>3. Typed
  BY DEF IInv
<1>4. /\ \A u \in Threads : hold[u] # s
      /\ \A h \in Handles : lease[h] # s
  BY DEF IInv, HeldIsLeased
<1>5. /\ hold'[t] = s /\ \A u \in Threads \ {t} : hold'[u] = hold[u]
      /\ leased'[s] /\ \A x \in Slots \ {s} : leased'[x] = leased[x]
  BY <1>1, <1>3 DEF Typed
<1>6. Typed' BY <1>1, <1>2, <1>3 DEF Typed, Places
<1>7. HeldIsLeased'
  <2>1. \A u \in Threads : hold'[u] \in Slots => leased'[hold'[u]] /\ hold'[u] \in slots'
    BY <1>4, <1>5 DEF IInv, HeldIsLeased
  <2>2. \A h \in Handles : lease'[h] \in Slots => leased'[lease'[h]] /\ lease'[h] \in slots'
    BY <1>1, <1>4, <1>5 DEF IInv, HeldIsLeased
  <2> QED BY <2>1, <2>2 DEF HeldIsLeased
<1>8. Exclusive'
  <2>1. \A u, v \in Threads : u # v /\ hold'[u] \in Slots => hold'[u] # hold'[v]
    BY <1>4, <1>5 DEF IInv, Exclusive
  <2>2. \A u \in Threads, h \in Handles : hold'[u] \in Slots => hold'[u] # lease'[h]
    BY <1>1, <1>4, <1>5 DEF IInv, Exclusive
  <2> QED BY <1>1, <2>1, <2>2 DEF IInv, Exclusive
<1>9. Guarded' BY <1>1 DEF IInv, Guarded, Complete
<1>10. FillingHolds' BY <1>1, <1>2, <1>3, <1>5 DEF IInv, FillingHolds, Typed
<1> QED BY <1>6, <1>7, <1>8, <1>9, <1>10 DEF IInv

\* A thread gives up the buffer it holds, whether or not it gives it back to the pool.
LEMMA GiveUpKeeps ==
  ASSUME IInv, NEW t \in Threads, hold' = [hold EXCEPT ![t] = None],
         leased' = leased \/ leased' = [s \in Slots |-> leased[s] /\ s # hold[t]],
         NEW place \in Places \ {"fill"}, Go(t, place), UNCHANGED <<slots, copyVars>>
  PROVE IInv'
<1>1. /\ at' = [at EXCEPT ![t] = place] /\ UNCHANGED <<lease, sent, fired, async>>
  BY DEF Go, copyVars
<1>2. Typed /\ None \in Buffers /\ None \notin Slots
  BY StagingAssumption DEF IInv, StagingAssumption, Buffers
<1>3. /\ hold'[t] = None /\ \A u \in Threads \ {t} : hold'[u] = hold[u]
      /\ \A s \in Slots : leased[s] /\ s # hold[t] => leased'[s]
  BY <1>2 DEF Typed
<1>4. Typed' BY <1>1, <1>2 DEF Typed
<1>5. HeldIsLeased'
  <2>1. \A u \in Threads : hold'[u] \in Slots => leased'[hold'[u]] /\ hold'[u] \in slots'
    BY <1>2, <1>3 DEF IInv, HeldIsLeased, Exclusive
  <2>2. \A h \in Handles : lease'[h] \in Slots => leased'[lease'[h]] /\ lease'[h] \in slots'
    BY <1>1, <1>2, <1>3 DEF IInv, HeldIsLeased, Exclusive
  <2> QED BY <2>1, <2>2 DEF HeldIsLeased
<1>6. Exclusive' BY <1>1, <1>2, <1>3 DEF IInv, Exclusive
<1>7. Guarded' BY <1>1 DEF IInv, Guarded, Complete
<1>8. FillingHolds' BY <1>1, <1>2, <1>3 DEF IInv, FillingHolds, Typed
<1> QED BY <1>4, <1>5, <1>6, <1>7, <1>8 DEF IInv

\* The lease of a finished copy passes to the thread that takes it.
LEMMA TakeKeeps ==
  ASSUME IInv, NEW t \in Threads, NEW h \in Handles, Take(t, h),
         UNCHANGED <<slots, leased, sent, fired, async>>
  PROVE IInv'
<1>1. /\ hold' = [hold EXCEPT ![t] = lease[h]] /\ lease' = [lease EXCEPT ![h] = None]
      /\ at' = [at EXCEPT ![t] = "give"] /\ Complete(h)
  BY DEF Take, Hold, Go
<1>2. Typed /\ None \in Buffers /\ None \notin Slots
  BY StagingAssumption DEF IInv, StagingAssumption, Buffers
<1>3. /\ hold'[t] = lease[h] /\ \A u \in Threads \ {t} : hold'[u] = hold[u]
      /\ lease'[h] = None /\ \A g \in Handles \ {h} : lease'[g] = lease[g]
  BY <1>1, <1>2 DEF Typed
<1>4. Typed' BY <1>1, <1>2 DEF Typed, Places
<1>5. HeldIsLeased'
  <2>1. \A u \in Threads : hold'[u] \in Slots => leased'[hold'[u]] /\ hold'[u] \in slots'
    BY <1>3 DEF IInv, HeldIsLeased
  <2>2. \A g \in Handles : lease'[g] \in Slots => leased'[lease'[g]] /\ lease'[g] \in slots'
    BY <1>2, <1>3 DEF IInv, HeldIsLeased
  <2> QED BY <2>1, <2>2 DEF HeldIsLeased
<1>6. Exclusive'
  <2>1. \A u, v \in Threads : u # v /\ hold'[u] \in Slots => hold'[u] # hold'[v]
    BY <1>3 DEF IInv, Exclusive
  <2>2. \A g, k \in Handles : g # k /\ lease'[g] \in Slots => lease'[g] # lease'[k]
    BY <1>2, <1>3 DEF IInv, Exclusive
  <2>3. \A u \in Threads, g \in Handles : hold'[u] \in Slots => hold'[u] # lease'[g]
    BY <1>2, <1>3 DEF IInv, Exclusive
  <2> QED BY <2>1, <2>2, <2>3 DEF Exclusive
<1>7. Guarded' BY <1>1, <1>3 DEF IInv, Guarded, Complete
<1>8. FillingHolds' BY <1>1, <1>2, <1>3 DEF IInv, FillingHolds, Typed
<1> QED BY <1>4, <1>5, <1>6, <1>7, <1>8 DEF IInv

\* The buffer a thread has filled passes to the copy it issues.
LEMMA SendKeeps == ASSUME IInv, NEW t \in Threads, SendAsync(t) PROVE IInv'
<1> DEFINE h == sent + 1
<1>1. /\ hold' = [hold EXCEPT ![t] = None] /\ lease' = [lease EXCEPT ![h] = hold[t]]
      /\ at' = [at EXCEPT ![t] = "append"] /\ at[t] = "fill" /\ sent < MaxSends /\ sent' = h
      /\ UNCHANGED <<slots, leased, fired, async>>
  BY DEF SendAsync, Hold, Go, poolVars
<1>2. Typed /\ None \in Buffers /\ None \notin Slots /\ MaxSends \in Nat
  BY StagingAssumption DEF IInv, StagingAssumption, Buffers
<1>3. h \in Handles /\ hold[t] # None /\ h \in 0..MaxSends
  BY <1>1, <1>2 DEF Handles, Typed, IInv, FillingHolds
<1> HIDE DEF h
<1>4. /\ hold'[t] = None /\ \A u \in Threads \ {t} : hold'[u] = hold[u]
      /\ lease'[h] = hold[t] /\ \A g \in Handles \ {h} : lease'[g] = lease[g]
  BY <1>1, <1>2, <1>3 DEF Typed
<1>5. Typed' BY <1>1, <1>2, <1>3 DEF Typed, Places
<1>6. HeldIsLeased'
  <2>1. \A u \in Threads : hold'[u] \in Slots => leased'[hold'[u]] /\ hold'[u] \in slots'
    BY <1>1, <1>2, <1>4 DEF IInv, HeldIsLeased
  <2>2. \A g \in Handles : lease'[g] \in Slots => leased'[lease'[g]] /\ lease'[g] \in slots'
    BY <1>1, <1>4 DEF IInv, HeldIsLeased
  <2> QED BY <2>1, <2>2 DEF HeldIsLeased
<1>7. Exclusive'
  <2>1. \A u, v \in Threads : u # v /\ hold'[u] \in Slots => hold'[u] # hold'[v]
    BY <1>2, <1>4 DEF IInv, Exclusive
  <2>2. \A g, k \in Handles : g # k /\ lease'[g] \in Slots => lease'[g] # lease'[k]
    BY <1>4 DEF IInv, Exclusive
  <2>3. \A u \in Threads, g \in Handles : hold'[u] \in Slots => hold'[u] # lease'[g]
    BY <1>2, <1>4 DEF IInv, Exclusive
  <2> QED BY <2>1, <2>2, <2>3 DEF Exclusive
<1>8. Guarded'
  <2>1. fired' <= sent'
    BY <1>1, <1>2 DEF h, IInv, Guarded, Typed
  <2>2. \A g \in Handles : g <= sent' /\ ~Complete(g)' => lease'[g] # None
    BY <1>1, <1>2, <1>3, <1>4 DEF h, IInv, Guarded, Complete, Typed, Handles
  <2>3. \A g \in Handles : g > sent' => lease'[g] = None
    BY <1>1, <1>2, <1>3, <1>4 DEF h, IInv, Guarded, Typed, Handles
  <2> QED BY <2>1, <2>2, <2>3 DEF Guarded
<1>9. FillingHolds' BY <1>1, <1>2, <1>4 DEF IInv, FillingHolds, Typed
<1> QED BY <1>5, <1>6, <1>7, <1>8, <1>9 DEF IInv

\* Every step keeps the invariant.
LEMMA Step == IInv /\ [Next]_vars => IInv'
<1> SUFFICES ASSUME IInv, [Next]_vars PROVE IInv'
  OBVIOUS
<1>1. CASE UNCHANGED vars
  <2>1. Quiet BY <1>1 DEF vars, poolVars, copyVars, threadVars, Quiet, IInv, Typed
  <2> QED BY <2>1, QuietKeeps
<1>2. ASSUME NEW t \in Threads, NEW n \in Sizes, LeaseFree(t, n) PROVE IInv'
  <2>1. PICK s \in Smallest(Free(n)) : CheckOut(t, s)
    BY <1>2 DEF LeaseFree
  <2>2. s \in slots /\ ~leased[s]
    BY DEF Smallest, Free
  <2>3. s \in Slots BY <2>2 DEF IInv, Typed
  <2>4. slots' = slots \cup {s} /\ UNCHANGED copyVars
    BY <1>2, <2>2 DEF LeaseFree
  <2> QED BY <2>1, <2>2, <2>3, <2>4, CheckOutKeeps
<1>3. ASSUME NEW t \in Threads, LeaseRetry(t) PROVE IInv'
  <2> DEFINE n == task[t].want
  <2>1. ASSUME NEW s \in Smallest(Free(n)), CheckOut(t, s), UNCHANGED slots PROVE IInv'
    <3>1. s \in slots /\ ~leased[s]
      BY DEF Smallest, Free
    <3>2. s \in Slots BY <3>1 DEF IInv, Typed
    <3>3. slots' = slots \cup {s} /\ UNCHANGED copyVars
      BY <1>3, <2>1, <3>1 DEF LeaseRetry
    <3> QED BY <2>1, <3>1, <3>2, <3>3, CheckOutKeeps
  <2>2. ASSUME NEW s \in Slots \ slots, slots' = slots \cup {s}, CheckOut(t, s) PROVE IInv'
    <3>1. UNCHANGED copyVars BY <1>3 DEF LeaseRetry
    <3> QED BY <2>2, <3>1, CheckOutKeeps
  <2>3. ASSUME Hold(t, Transient), Go(t, "fill"), UNCHANGED <<slots, leased>> PROVE IInv'
    <3>1. /\ hold' = [hold EXCEPT ![t] = Transient] /\ at' = [at EXCEPT ![t] = "fill"]
          /\ UNCHANGED <<lease, sent, fired, async>>
      BY <1>3, <2>3 DEF LeaseRetry, Hold, Go, copyVars
    <3>2. Typed /\ Transient \in Buffers /\ Transient \notin Slots /\ Transient # None
      BY StagingAssumption DEF IInv, StagingAssumption, Buffers
    <3>3. Typed' BY <2>3, <3>1, <3>2 DEF Typed, Places
    <3>4. HeldIsLeased' /\ Exclusive' BY <2>3, <3>1, <3>2 DEF IInv, HeldIsLeased, Exclusive, Typed
    <3>5. Guarded' BY <3>1 DEF IInv, Guarded, Complete
    <3>6. FillingHolds' BY <3>1, <3>2 DEF IInv, FillingHolds, Typed
    <3> QED BY <3>3, <3>4, <3>5, <3>6 DEF IInv
  <2> QED BY <1>3, <2>1, <2>2, <2>3 DEF LeaseRetry
<1>4. ASSUME NEW t \in Threads, FillFails(t) PROVE IInv'
  <2>1. "idle" \in Places \ {"fill"} BY DEF Places
  <2> QED BY <1>4, <2>1, GiveUpKeeps DEF FillFails, HandBack, Hold
<1>5. ASSUME NEW t \in Threads, GiveBack(t) PROVE IInv'
  <2>1. (IF async THEN "visit" ELSE "idle") \in Places \ {"fill"} BY DEF Places
  <2> QED BY <1>5, <2>1, GiveUpKeeps DEF GiveBack, HandBack, Hold
<1>6. CASE Fire
  <2>1. /\ fired' = fired + 1 /\ fired < sent
        /\ UNCHANGED <<slots, leased, lease, sent, async, at, hold>>
    BY <1>6 DEF Fire, poolVars, threadVars
  <2>2. Typed' BY <2>1, StagingAssumption DEF IInv, Typed, StagingAssumption
  <2>3. HeldIsLeased' /\ Exclusive' /\ FillingHolds'
    BY <2>1 DEF IInv, HeldIsLeased, Exclusive, FillingHolds
  <2>4. Guarded' BY <2>1, StagingAssumption DEF IInv, Guarded, Complete, Handles, Typed,
      StagingAssumption
  <2> QED BY <2>2, <2>3, <2>4 DEF IInv
<1>7. ASSUME NEW t \in Threads, NEW h \in Handles, TakeLease(t, h) PROVE IInv'
  <2>1. UNCHANGED <<slots, leased, sent, fired, async>> BY <1>7 DEF TakeLease, poolVars
  <2>2. CASE UNCHANGED <<lease, hold>> /\ Go(t, "visit")
    <3>1. Quiet BY <2>1, <2>2 DEF Quiet, Go, Places, IInv, Typed
    <3> QED BY <3>1, QuietKeeps
  <2>3. CASE Take(t, h) BY <2>1, <2>3, TakeKeeps
  <2> QED BY <1>7, <2>2, <2>3 DEF TakeLease
<1>8. ASSUME NEW t \in Threads, NEW h \in Handles, DrainNext(t, h) PROVE IInv'
  <2>1. UNCHANGED <<slots, leased, sent, fired, async>> BY <1>8 DEF DrainNext, poolVars
  <2>2. CASE UNCHANGED <<lease, hold, at>>
    <3>1. Quiet BY <2>1, <2>2 DEF Quiet, IInv, Typed
    <3> QED BY <3>1, QuietKeeps
  <2>3. CASE Take(t, h) BY <2>1, <2>3, TakeKeeps
  <2> QED BY <1>8, <2>2, <2>3 DEF DrainNext
<1>9. ASSUME NEW t \in Threads, Clear(t) PROVE IInv'
  <2>1. /\ slots' = {s \in slots : leased[s]}
        /\ UNCHANGED <<leased, lease, sent, fired, async, at, hold>>
    BY <1>9 DEF Clear, copyVars, threadVars
  <2>2. Typed' /\ Guarded' /\ Exclusive' /\ FillingHolds'
    BY <2>1 DEF IInv, Typed, Guarded, Complete, Exclusive, FillingHolds
  <2>3. HeldIsLeased' BY <2>1 DEF IInv, HeldIsLeased
  <2> QED BY <2>2, <2>3 DEF IInv
<1>10. ASSUME NEW t \in Threads, SendSync(t) PROVE IInv'
  <2>1. /\ sent' = sent + 1 /\ sent < MaxSends /\ ~async /\ at' = [at EXCEPT ![t] = "give"]
        /\ UNCHANGED <<slots, leased, lease, fired, async, hold>>
    BY <1>10 DEF SendSync, Go, poolVars
  <2>2. Typed' BY <2>1, StagingAssumption DEF IInv, Typed, Places, StagingAssumption
  <2>3. HeldIsLeased' /\ Exclusive' BY <2>1 DEF IInv, HeldIsLeased, Exclusive
  <2>4. Guarded' BY <2>1 DEF IInv, Guarded, Complete, Handles, Typed
  <2>5. FillingHolds' BY <2>1 DEF IInv, FillingHolds, Typed
  <2> QED BY <2>2, <2>3, <2>4, <2>5 DEF IInv
<1>11. ASSUME NEW t \in Threads, NEW n \in Sizes, LeaseReclaims(t, n) PROVE IInv'
  <2>1. Quiet
    BY <1>11 DEF LeaseReclaims, Quiet, Go, Places, poolVars, copyVars, threadVars, IInv, Typed
  <2> QED BY <2>1, QuietKeeps
<1>12. ASSUME NEW t \in Threads, AppendHandle(t) PROVE IInv'
  <2>1. Quiet
    BY <1>12 DEF AppendHandle, Quiet, Return, Go, Places, poolVars, copyVars, threadVars, IInv, Typed
  <2> QED BY <2>1, QuietKeeps
<1>13. ASSUME NEW t \in Threads, NEW h \in Handles, Resolve(t, h) PROVE IInv'
  <2>1. Quiet
    BY <1>13 DEF Resolve, Quiet, Go, Places, poolVars, copyVars, threadVars, IInv, Typed
  <2> QED BY <2>1, QuietKeeps
<1>14. ASSUME NEW t \in Threads, BeginReclaim(t) PROVE IInv'
  <2>1. Quiet
    BY <1>14 DEF BeginReclaim, Quiet, Go, Places, poolVars, copyVars, threadVars, IInv, Typed
  <2> QED BY <2>1, QuietKeeps
<1>15. ASSUME NEW t \in Threads, NEW h \in Handles, ReclaimSkips(t, h) PROVE IInv'
  <2>1. Quiet
    BY <1>15 DEF ReclaimSkips, Quiet, poolVars, copyVars, threadVars, IInv, Typed
  <2> QED BY <2>1, QuietKeeps
<1>16. ASSUME NEW t \in Threads, NEW h \in Handles, ReclaimFinds(t, h) PROVE IInv'
  <2>1. Quiet
    BY <1>16 DEF ReclaimFinds, Quiet, Go, Places, poolVars, copyVars, threadVars, IInv, Typed
  <2> QED BY <2>1, QuietKeeps
<1>17. ASSUME NEW t \in Threads, EndReclaim(t) PROVE IInv'
  <2>1. Quiet
    BY <1>17 DEF EndReclaim, Quiet, Return, Go, Places, poolVars, copyVars, threadVars, IInv, Typed
  <2> QED BY <2>1, QuietKeeps
<1>18. ASSUME NEW t \in Threads, Drain(t) PROVE IInv'
  <2>1. Quiet
    BY <1>18 DEF Drain, Quiet, Go, Places, poolVars, copyVars, threadVars, IInv, Typed
  <2> QED BY <2>1, QuietKeeps
<1>19. ASSUME NEW t \in Threads, EndDrain(t) PROVE IInv'
  <2>1. Quiet
    BY <1>19 DEF EndDrain, Quiet, Return, Go, Places, poolVars, copyVars, threadVars, IInv, Typed
  <2> QED BY <2>1, QuietKeeps
<1>20. ASSUME NEW t \in Threads, NEW n \in BufferSizes, BufferGrows(t, n) PROVE IInv'
  <2>1. Quiet
    BY <1>20 DEF BufferGrows, Quiet, poolVars, copyVars, threadVars, IInv, Typed
  <2> QED BY <2>1, QuietKeeps
<1>21. ASSUME NEW t \in Threads, Stage(t) PROVE IInv'
  BY <1>3, <1>10, <1>12, <1>21, SendKeeps DEF Stage
<1>22. ASSUME NEW t \in Threads, Harvest(t) PROVE IInv'
  BY <1>5, <1>7, <1>8, <1>14, <1>15, <1>16, <1>17, <1>19, <1>22 DEF Harvest
<1> QED BY <1>1, <1>2, <1>4, <1>6, <1>9, <1>11, <1>13, <1>18, <1>20, <1>21, <1>22 DEF Next

\* It holds at the start.
LEMMA InitHolds == Init => IInv
<1> SUFFICES ASSUME Init PROVE IInv
  OBVIOUS
<1>1. /\ slots = {} /\ lease = [h \in Handles |-> None] /\ sent = 0 /\ fired = 0
      /\ at = [t \in Threads |-> "idle"] /\ hold = [t \in Threads |-> None]
      /\ leased \in [Slots -> BOOLEAN]
  BY DEF Init
<1>2. None \notin Slots /\ None \in Buffers /\ MaxSends \in Nat
  BY StagingAssumption DEF StagingAssumption, Buffers
<1>3. Typed BY <1>1, <1>2 DEF Typed, Places
<1>4. HeldIsLeased /\ Exclusive BY <1>1, <1>2 DEF HeldIsLeased, Exclusive
<1>5. Guarded /\ FillingHolds BY <1>1, <1>2 DEF Guarded, FillingHolds, Handles
<1> QED BY <1>3, <1>4, <1>5 DEF IInv

\* The guard of transfer.py holds for every interleaving of staging, resolving, reclaiming,
\* draining, clearing and failing: a buffer a copy still reads is checked out, to it alone.
THEOREM NothingOverwritten == Spec => []NeverOverwritten
<1>1. IInv => NeverOverwritten
  BY DEF IInv, Typed, HeldIsLeased, Exclusive, Guarded, NeverOverwritten
<1> QED BY <1>1, InitHolds, Step, PTL DEF Spec

-------------------------------------------------------------------------------
(* Drains. *)

\* A thread works on transfers that were issued, and a drain has left behind only finished ones.
TaskInv ==
  /\ task \in [Threads -> Tasks] /\ inFlight \subseteq 1..sent
  /\ \A t \in Threads : at[t] = "append" => task[t].cur \in 1..sent
  /\ \A t \in Threads : task[t].for = "drain" =>
       task[t].swept \subseteq 1..sent /\ \A h \in task[t].swept \ task[t].left : Complete(h)

\* A step of one thread changes that thread's task alone.
LEMMA TaskKeeps ==
  ASSUME IInv, TaskInv, NEW t \in Threads, task' \in [Threads -> Tasks],
         \A u \in Threads \ {t} : task'[u] = task[u] /\ at'[u] = at[u],
         sent' \in Nat, sent' >= sent, fired' >= fired, fired' \in Nat, async' = async,
         inFlight' \subseteq 1..sent', at'[t] = "append" => task'[t].cur \in 1..sent',
         task'[t].for = "drain" =>
           /\ task'[t].swept \subseteq 1..sent'
           /\ \A h \in task'[t].swept \ task'[t].left : Complete(h)'
  PROVE  TaskInv'
<1>1. sent \in Nat /\ fired \in Nat BY StagingAssumption DEF IInv, Typed, StagingAssumption
<1>2. ASSUME NEW u \in Threads, at'[u] = "append" PROVE task'[u].cur \in 1..sent'
  <2>1. CASE u = t BY <1>2, <2>1
  <2>2. CASE u # t
    <3>1. task'[u].cur \in 1..sent BY <1>2, <2>2 DEF TaskInv
    <3> QED BY <1>1, <3>1
  <2> QED BY <2>1, <2>2
<1>3. ASSUME NEW u \in Threads, task'[u].for = "drain"
      PROVE  task'[u].swept \subseteq 1..sent' /\ \A h \in task'[u].swept \ task'[u].left : Complete(h)'
  <2>1. CASE u = t BY <1>3, <2>1
  <2>2. CASE u # t
    <3>1. task'[u].swept \subseteq 1..sent /\ \A h \in task'[u].swept \ task'[u].left : Complete(h)
      BY <1>3, <2>2 DEF TaskInv
    <3>2. 1..sent \subseteq 1..sent' BY <1>1
    <3>3. ASSUME NEW h \in task'[u].swept \ task'[u].left PROVE Complete(h)'
      <4>1. h \in 1..sent /\ Complete(h) BY <3>1
      <4> QED BY <1>1, <4>1 DEF Complete
    <3> QED BY <3>1, <3>2, <3>3
  <2> QED BY <2>1, <2>2
<1> QED BY <1>2, <1>3 DEF TaskInv

\* Every step keeps the tasks in order.
LEMMA TaskStep == IInv /\ TaskInv /\ [Next]_vars => TaskInv'
<1> SUFFICES ASSUME IInv, TaskInv, [Next]_vars PROVE TaskInv'
  OBVIOUS
<1>0. /\ sent \in Nat /\ fired \in Nat /\ fired <= sent /\ MaxSends \in Nat /\ sent <= MaxSends
      /\ at \in [Threads -> Places] /\ task \in [Threads -> Tasks] /\ inFlight \subseteq 1..sent
      /\ lease \in [Handles -> Buffers]
  BY StagingAssumption DEF IInv, Typed, Guarded, TaskInv, StagingAssumption
<1>01. 1..sent \subseteq Handles BY <1>0 DEF Handles
<1>02. NoTask \in Tasks /\ NoTask.for # "drain" BY <1>0 DEF NoTask, Tasks
<1>1. CASE UNCHANGED vars
  BY <1>1 DEF vars, poolVars, copyVars, threadVars, TaskInv, Complete
<1>2. CASE Fire
  <2>1. /\ fired' = fired + 1 /\ UNCHANGED <<inFlight, sent, async, at, task>>
    BY <1>2 DEF Fire, poolVars, threadVars
  <2>2. \A h \in Handles : Complete(h) => Complete(h)' BY <1>0, <2>1 DEF Complete, Handles
  <2>3. ASSUME NEW t \in Threads, task[t].for = "drain", NEW h \in task[t].swept \ task[t].left
        PROVE  Complete(h)'
    <3>1. h \in 1..sent /\ Complete(h) BY <2>3 DEF TaskInv
    <3> QED BY <1>01, <2>2, <3>1
  <2> QED BY <2>1, <2>3 DEF TaskInv
<1>3. ASSUME NEW t \in Threads, task' = task, UNCHANGED <<inFlight, fired, async>>,
             NEW place \in Places \ {"append"}, at' = [at EXCEPT ![t] = place], sent' \in {sent, sent + 1}
      PROVE  TaskInv'
  <2>1. task'[t].for = "drain" =>
           /\ task'[t].swept \subseteq 1..sent'
           /\ \A h \in task'[t].swept \ task'[t].left : Complete(h)'
    <3>1. 1..sent \subseteq 1..sent' BY <1>0, <1>3
    <3> QED BY <1>3, <3>1 DEF TaskInv, Complete
  <2>2. inFlight' \subseteq 1..sent' BY <1>0, <1>3
  <2>3. at'[t] # "append" BY <1>0, <1>3
  <2>4. \A u \in Threads \ {t} : task'[u] = task[u] /\ at'[u] = at[u] BY <1>0, <1>3
  <2>5. sent' \in Nat /\ sent' >= sent /\ fired' >= fired /\ fired' \in Nat BY <1>0, <1>3
  <2> QED BY <1>0, <1>3, <2>1, <2>2, <2>3, <2>4, <2>5, TaskKeeps
<1>4. ASSUME NEW t \in Threads, NEW x \in Tasks, task' = [task EXCEPT ![t] = x],
             x.for # "drain", NEW place \in Places, at' = [at EXCEPT ![t] = place],
             UNCHANGED <<fired, async>>, sent' \in {sent, sent + 1}, inFlight' \subseteq 1..sent',
             place = "append" => x.cur \in 1..sent'
      PROVE  TaskInv'
  <2>1. task'[t] = x /\ at'[t] = place /\ task' \in [Threads -> Tasks] BY <1>0, <1>4
  <2>2. \A u \in Threads \ {t} : task'[u] = task[u] /\ at'[u] = at[u] BY <1>0, <1>4
  <2>3. sent' \in Nat /\ sent' >= sent /\ fired' >= fired /\ fired' \in Nat BY <1>0, <1>4
  <2> QED BY <1>4, <2>1, <2>2, <2>3, TaskKeeps
<1>5. ASSUME NEW t \in Threads, NEW n \in Sizes, LeaseFree(t, n) PROVE TaskInv'
  <2>1. at' = [at EXCEPT ![t] = "fill"] /\ UNCHANGED <<task, inFlight, sent, fired, async>>
    BY <1>5 DEF LeaseFree, CheckOut, Go, copyVars
  <2> QED BY <1>3, <2>1 DEF Places
<1>6. ASSUME NEW t \in Threads, NEW n \in Sizes, LeaseReclaims(t, n) PROVE TaskInv'
  <2> DEFINE x == [task[t] EXCEPT !.for = "lease", !.want = n]
  <2>1. /\ at' = [at EXCEPT ![t] = "reclaim"] /\ UNCHANGED <<inFlight, sent, fired, async>>
        /\ task' = [task EXCEPT ![t] = x]
    BY <1>6 DEF LeaseReclaims, Go, copyVars
  <2>2. n \in Nat BY StagingAssumption DEF StagingAssumption
  <2>3. x \in Tasks /\ x.for # "drain" BY <1>0, <2>2 DEF Tasks
  <2> HIDE DEF x
  <2> QED BY <1>0, <1>4, <2>1, <2>3 DEF Places
<1>7. ASSUME NEW t \in Threads, LeaseRetry(t) PROVE TaskInv'
  <2>1. /\ at' = [at EXCEPT ![t] = "fill"] /\ UNCHANGED <<inFlight, sent, fired, async>>
        /\ task' = [task EXCEPT ![t] = NoTask]
    BY <1>7 DEF LeaseRetry, CheckOut, Go, copyVars
  <2> QED BY <1>0, <1>02, <1>4, <2>1 DEF Places
<1>8. ASSUME NEW t \in Threads, FillFails(t) PROVE TaskInv'
  <2>1. at' = [at EXCEPT ![t] = "idle"] /\ UNCHANGED <<task, inFlight, sent, fired, async>>
    BY <1>8 DEF FillFails, Go, copyVars
  <2> QED BY <1>3, <2>1 DEF Places
<1>9. ASSUME NEW t \in Threads, SendAsync(t) PROVE TaskInv'
  <2> DEFINE x == [task[t] EXCEPT !.cur = sent + 1]
  <2>1. /\ at' = [at EXCEPT ![t] = "append"] /\ UNCHANGED <<inFlight, fired, async>>
        /\ task' = [task EXCEPT ![t] = x] /\ sent' = sent + 1 /\ sent < MaxSends
    BY <1>9 DEF SendAsync, Go, poolVars
  <2>2. x \in Tasks /\ x.cur = sent + 1 BY <1>0, <2>1 DEF Tasks
  <2>3. /\ x.for = task[t].for /\ x.swept = task[t].swept /\ x.left = task[t].left
    BY <1>0 DEF Tasks
  <2> HIDE DEF x
  <2>4. task'[t] = x /\ at'[t] = "append" /\ task' \in [Threads -> Tasks] BY <1>0, <2>1, <2>2
  <2>5. \A u \in Threads \ {t} : task'[u] = task[u] /\ at'[u] = at[u] BY <1>0, <2>1
  <2>6. /\ sent' \in Nat /\ sent' >= sent /\ fired' >= fired /\ fired' \in Nat
        /\ 1..sent \subseteq 1..sent'
    BY <1>0, <2>1
  <2>7. task'[t].for = "drain" =>
           /\ task'[t].swept \subseteq 1..sent'
           /\ \A h \in task'[t].swept \ task'[t].left : Complete(h)'
    BY <2>1, <2>3, <2>4, <2>6 DEF TaskInv, Complete
  <2>8. inFlight' \subseteq 1..sent' BY <1>0, <2>1, <2>6
  <2>9. task'[t].cur \in 1..sent' BY <1>0, <2>1, <2>2, <2>4
  <2> QED BY <2>1, <2>4, <2>5, <2>6, <2>7, <2>8, <2>9, TaskKeeps
<1>10. ASSUME NEW t \in Threads, AppendHandle(t) PROVE TaskInv'
  <2>1. /\ at' = [at EXCEPT ![t] = "idle"] /\ UNCHANGED <<sent, fired, async>> /\ at[t] = "append"
        /\ task' = [task EXCEPT ![t] = NoTask] /\ inFlight' = inFlight \cup {task[t].cur}
    BY <1>10 DEF AppendHandle, Return, Go
  <2>2. inFlight' \subseteq 1..sent' BY <1>0, <2>1 DEF TaskInv
  <2> QED BY <1>0, <1>02, <1>4, <2>1, <2>2 DEF Places
<1>11. ASSUME NEW t \in Threads, SendSync(t) PROVE TaskInv'
  <2>1. at' = [at EXCEPT ![t] = "give"] /\ UNCHANGED <<task, inFlight, fired, async>> /\ sent' = sent + 1
    BY <1>11 DEF SendSync, Go
  <2> QED BY <1>3, <2>1 DEF Places
<1>12. ASSUME NEW t \in Threads, NEW h \in Handles, Resolve(t, h) PROVE TaskInv'
  <2> DEFINE x == [task[t] EXCEPT !.for = "resolve"]
  <2>1. /\ at' = [at EXCEPT ![t] = "reclaim"] /\ UNCHANGED <<inFlight, sent, fired, async>>
        /\ task' = [task EXCEPT ![t] = x]
    BY <1>12 DEF Resolve, Go
  <2>2. x \in Tasks /\ x.for # "drain" BY <1>0 DEF Tasks
  <2> HIDE DEF x
  <2> QED BY <1>0, <1>4, <2>1, <2>2 DEF Places
<1>13. ASSUME NEW t \in Threads, BeginReclaim(t) PROVE TaskInv'
  <2> DEFINE x == [task[t] EXCEPT !.swept = inFlight, !.left = inFlight]
  <2>1. /\ at' = [at EXCEPT ![t] = "visit"] /\ UNCHANGED <<inFlight, sent, fired, async>>
        /\ task' = [task EXCEPT ![t] = x]
    BY <1>13 DEF BeginReclaim, Go, copyVars
  <2>2. inFlight \in SUBSET Handles BY <1>0, <1>01
  <2>3. x \in Tasks /\ x.swept = inFlight /\ x.left = inFlight BY <1>0, <2>2 DEF Tasks
  <2> HIDE DEF x
  <2>4. task'[t] = x /\ at'[t] = "visit" /\ task' \in [Threads -> Tasks] BY <1>0, <2>1, <2>3
  <2>5. \A u \in Threads \ {t} : task'[u] = task[u] /\ at'[u] = at[u] BY <1>0, <2>1
  <2>6. task'[t].swept \subseteq 1..sent' /\ task'[t].swept \ task'[t].left = {}
    BY <1>0, <2>1, <2>3, <2>4
  <2>7. inFlight' \subseteq 1..sent' /\ sent' \in Nat /\ fired' \in Nat /\ sent' >= sent /\ fired' >= fired
    BY <1>0, <2>1
  <2> QED BY <2>1, <2>4, <2>5, <2>6, <2>7, TaskKeeps
<1>14. ASSUME NEW t \in Threads, NEW x \in Tasks, task' = [task EXCEPT ![t] = x],
              x.for = task[t].for, x.swept = task[t].swept, NEW h \in Handles, x.left = task[t].left \ {h},
              x.for = "drain" => Complete(h) \/ h \notin 1..sent,
              NEW place \in Places \ {"append"}, at' = [at EXCEPT ![t] = place],
              UNCHANGED <<inFlight, sent, fired, async>>
       PROVE  TaskInv'
  <2>1. task'[t] = x /\ at'[t] = place /\ task' \in [Threads -> Tasks] BY <1>0, <1>14
  <2>2. \A u \in Threads \ {t} : task'[u] = task[u] /\ at'[u] = at[u] BY <1>0, <1>14
  <2>3. inFlight' \subseteq 1..sent' /\ sent' \in Nat /\ fired' \in Nat /\ sent' >= sent /\ fired' >= fired
    BY <1>0, <1>14
  <2>4. ASSUME x.for = "drain"
        PROVE  x.swept \subseteq 1..sent /\ \A g \in x.swept \ x.left : Complete(g)
    BY <1>14, <2>4 DEF TaskInv
  <2>5. \A g \in Handles : Complete(g)' <=> Complete(g) BY <1>14 DEF Complete
  <2>6. x.for = "drain" => x.swept \subseteq 1..sent' /\ \A g \in x.swept \ x.left : Complete(g)'
    BY <1>01, <1>14, <2>4, <2>5
  <2> QED BY <1>14, <2>1, <2>2, <2>3, <2>6, TaskKeeps
<1>15. ASSUME NEW t \in Threads, NEW h \in Handles, ReclaimSkips(t, h) PROVE TaskInv'
  <2> DEFINE kept == IF lease[h] = None THEN task[t].kept ELSE task[t].kept \cup {h}
             x == [task[t] EXCEPT !.left = task[t].left \ {h}, !.kept = kept]
  <2>1. /\ at[t] = "visit" /\ at' = at /\ UNCHANGED <<inFlight, sent, fired, async>>
        /\ task' = [task EXCEPT ![t] = x] /\ task[t].for # "drain"
    BY <1>15 DEF ReclaimSkips, Reclaiming, copyVars
  <2>2. task[t].kept \in SUBSET Handles BY <1>0 DEF Tasks
  <2>3. kept \in SUBSET Handles BY <2>2
  <2> HIDE DEF kept
  <2>4. x \in Tasks /\ x.for = task[t].for /\ x.swept = task[t].swept /\ x.left = task[t].left \ {h}
    BY <1>0, <2>3 DEF Tasks
  <2> HIDE DEF x
  <2>5. at' = [at EXCEPT ![t] = "visit"] /\ "visit" \in Places \ {"append"} BY <1>0, <2>1 DEF Places
  <2>6. x.for # "drain" /\ UNCHANGED <<inFlight, sent, fired, async>> BY <2>1, <2>4
  <2> QED BY <1>14, <2>1, <2>4, <2>5, <2>6
<1>16. ASSUME NEW t \in Threads, NEW h \in Handles, ReclaimFinds(t, h) PROVE TaskInv'
  <2> DEFINE x == [task[t] EXCEPT !.left = task[t].left \ {h}, !.cur = h]
  <2>1. /\ at' = [at EXCEPT ![t] = "take"] /\ UNCHANGED <<inFlight, sent, fired, async>>
        /\ task' = [task EXCEPT ![t] = x] /\ task[t].for # "drain"
    BY <1>16 DEF ReclaimFinds, Reclaiming, Go, copyVars
  <2>2. h \in 0..MaxSends BY <1>0 DEF Handles
  <2>3. x \in Tasks /\ x.for = task[t].for /\ x.swept = task[t].swept /\ x.left = task[t].left \ {h}
    BY <1>0, <2>2 DEF Tasks
  <2> HIDE DEF x
  <2> QED BY <1>0, <1>14, <2>1, <2>3 DEF Places
<1>17. ASSUME NEW t \in Threads, NEW h \in Handles, TakeLease(t, h) PROVE TaskInv'
  <2>1. UNCHANGED <<inFlight, sent, fired, async>> BY <1>17 DEF TakeLease
  <2>2. CASE Take(t, h) /\ UNCHANGED task
    <3>1. at' = [at EXCEPT ![t] = "give"] BY <2>2 DEF Take, Go
    <3> QED BY <1>3, <2>1, <2>2, <3>1 DEF Places
  <2>3. CASE task' = [task EXCEPT ![t].kept = @ \cup {h}] /\ Go(t, "visit")
    <3> DEFINE x == [task[t] EXCEPT !.kept = task[t].kept \cup {h}]
    <3>1. task' = [task EXCEPT ![t] = x] /\ at' = [at EXCEPT ![t] = "visit"] BY <2>3 DEF Go
    <3>2. task[t].kept \cup {h} \in SUBSET Handles BY <1>0 DEF Tasks
    <3>3. x \in Tasks /\ x.for = task[t].for /\ x.swept = task[t].swept /\ x.left = task[t].left
      BY <1>0, <3>2 DEF Tasks
    <3> HIDE DEF x
    <3>4. task'[t] = x /\ at'[t] = "visit" /\ task' \in [Threads -> Tasks] BY <1>0, <3>1, <3>3
    <3>5. \A u \in Threads \ {t} : task'[u] = task[u] /\ at'[u] = at[u] BY <1>0, <3>1
    <3>6. task'[t].for = "drain" =>
            /\ task'[t].swept \subseteq 1..sent'
            /\ \A g \in task'[t].swept \ task'[t].left : Complete(g)'
      BY <2>1, <3>3, <3>4 DEF TaskInv, Complete
    <3>7. inFlight' \subseteq 1..sent' /\ sent' \in Nat /\ fired' \in Nat /\ sent' >= sent /\ fired' >= fired
      BY <1>0, <2>1
    <3> QED BY <2>1, <3>4, <3>5, <3>6, <3>7, TaskKeeps
  <2> QED BY <1>17, <2>2, <2>3 DEF TakeLease
<1>18. ASSUME NEW t \in Threads, GiveBack(t) PROVE TaskInv'
  <2> DEFINE place == IF async THEN "visit" ELSE "idle"
  <2>1. at' = [at EXCEPT ![t] = place] /\ UNCHANGED <<task, inFlight, sent, fired, async>>
    BY <1>18 DEF GiveBack, Go, copyVars
  <2>2. place \in Places \ {"append"} BY DEF Places
  <2> HIDE DEF place
  <2> QED BY <1>3, <2>1, <2>2
<1>19. ASSUME NEW t \in Threads, EndReclaim(t) PROVE TaskInv'
  <2>1. /\ inFlight' \subseteq inFlight /\ UNCHANGED <<sent, fired, async>> /\ task[t].for # "drain"
    BY <1>19 DEF EndReclaim, Reclaiming
  <2>2. inFlight' \subseteq 1..sent' BY <1>0, <2>1
  <2>3. CASE Return(t) BY <1>0, <1>02, <1>4, <2>1, <2>2, <2>3 DEF Return, Go, Places
  <2>4. CASE Go(t, "retry") /\ task' = [task EXCEPT ![t].swept = {}, ![t].kept = {}, ![t].cur = 0]
    <3> DEFINE x == [task[t] EXCEPT !.swept = {}, !.kept = {}, !.cur = 0]
    <3>1. task' = [task EXCEPT ![t] = x] /\ at' = [at EXCEPT ![t] = "retry"] BY <2>4 DEF Go
    <3>2. {} \in SUBSET Handles /\ 0 \in 0..MaxSends BY <1>0
    <3>3. x \in Tasks /\ x.for = task[t].for BY <1>0, <3>2 DEF Tasks
    <3> HIDE DEF x
    <3> QED BY <1>0, <1>4, <2>1, <2>2, <3>1, <3>3 DEF Places
  <2> QED BY <1>19, <2>3, <2>4 DEF EndReclaim
<1>20. ASSUME NEW t \in Threads, Drain(t) PROVE TaskInv'
  <2> DEFINE x == [task[t] EXCEPT !.for = "drain", !.swept = inFlight, !.left = inFlight]
  <2>1. /\ at' = [at EXCEPT ![t] = "visit"] /\ UNCHANGED <<sent, fired, async>> /\ inFlight' = {}
        /\ task' = [task EXCEPT ![t] = x]
    BY <1>20 DEF Drain, Go
  <2>2. inFlight \in SUBSET Handles BY <1>0, <1>01
  <2>3. x \in Tasks /\ x.swept = inFlight /\ x.left = inFlight BY <1>0, <2>2 DEF Tasks
  <2> HIDE DEF x
  <2>4. task'[t] = x /\ at'[t] = "visit" /\ task' \in [Threads -> Tasks] BY <1>0, <2>1, <2>3
  <2>5. \A u \in Threads \ {t} : task'[u] = task[u] /\ at'[u] = at[u] BY <1>0, <2>1
  <2>6. task'[t].swept \subseteq 1..sent' /\ task'[t].swept \ task'[t].left = {}
    BY <1>0, <2>1, <2>3, <2>4
  <2>7. inFlight' \subseteq 1..sent' /\ sent' \in Nat /\ fired' \in Nat /\ sent' >= sent /\ fired' >= fired
    BY <1>0, <2>1
  <2> QED BY <2>1, <2>4, <2>5, <2>6, <2>7, TaskKeeps
<1>21. ASSUME NEW t \in Threads, NEW h \in Handles, DrainNext(t, h) PROVE TaskInv'
  <2> DEFINE x == [task[t] EXCEPT !.left = task[t].left \ {h}, !.cur = h]
  <2>1. /\ UNCHANGED <<inFlight, sent, fired, async>> /\ task' = [task EXCEPT ![t] = x] /\ at[t] = "visit"
    BY <1>21 DEF DrainNext, Draining
  <2>2. h \in 0..MaxSends BY <1>0 DEF Handles
  <2>3. x \in Tasks /\ x.for = task[t].for /\ x.swept = task[t].swept /\ x.left = task[t].left \ {h}
    BY <1>0, <2>2 DEF Tasks
  <2> HIDE DEF x
  <2>4. CASE Take(t, h)
    <3>1. Complete(h) /\ at' = [at EXCEPT ![t] = "give"] BY <2>4 DEF Take, Go
    <3> QED BY <1>14, <2>1, <2>3, <3>1 DEF Places
  <2>5. CASE lease[h] = None /\ UNCHANGED at
    <3>1. Complete(h) \/ h \notin 1..sent BY <1>0, <2>5 DEF IInv, Guarded, Handles
    <3>2. at' = [at EXCEPT ![t] = "visit"] BY <1>0, <2>1, <2>5
    <3> QED BY <1>14, <2>1, <2>3, <3>1, <3>2 DEF Places
  <2> QED BY <1>21, <2>4, <2>5 DEF DrainNext
<1>22. ASSUME NEW t \in Threads, EndDrain(t) PROVE TaskInv'
  BY <1>0, <1>02, <1>4, <1>22 DEF EndDrain, Return, Go, Places, copyVars
<1>23. ASSUME NEW t \in Threads, Clear(t) PROVE TaskInv'
  <2>1. UNCHANGED <<task, inFlight, sent, fired, async, at>> BY <1>23 DEF Clear, copyVars, threadVars
  <2> QED BY <2>1 DEF TaskInv, Complete
<1>24. ASSUME NEW t \in Threads, NEW n \in BufferSizes, BufferGrows(t, n) PROVE TaskInv'
  <2>1. UNCHANGED <<task, inFlight, sent, fired, async, at>> BY <1>24 DEF BufferGrows, copyVars, threadVars
  <2> QED BY <2>1 DEF TaskInv, Complete
<1>25. ASSUME NEW t \in Threads, Stage(t) PROVE TaskInv'
  BY <1>7, <1>9, <1>10, <1>11, <1>25 DEF Stage
<1>26. ASSUME NEW t \in Threads, Harvest(t) PROVE TaskInv'
  BY <1>13, <1>15, <1>16, <1>17, <1>18, <1>19, <1>21, <1>22, <1>26 DEF Harvest
<1> QED BY <1>1, <1>2, <1>5, <1>6, <1>8, <1>12, <1>20, <1>23, <1>24, <1>25, <1>26 DEF Next

\* They are in order at the start.
LEMMA TasksStart == Init => TaskInv
<1> SUFFICES ASSUME Init PROVE TaskInv
  OBVIOUS
<1>1. /\ inFlight = {} /\ at = [t \in Threads |-> "idle"] /\ task = [t \in Threads |-> NoTask]
  BY DEF Init
<1>2. NoTask \in Tasks /\ NoTask.for # "drain" BY StagingAssumption DEF NoTask, Tasks, StagingAssumption
<1> QED BY <1>1, <1>2 DEF TaskInv

\* A drain that returns has seen the end of every copy that was in flight when it was called.
THEOREM DrainsWait == Spec => DrainWaits
<1>1. TaskInv => \A t \in Threads : EndDrain(t) => \A h \in task[t].swept : Complete(h)
  BY DEF TaskInv, EndDrain, Draining
<1> QED BY <1>1, InitHolds, TasksStart, Step, TaskStep, PTL DEF Spec, DrainWaits

-------------------------------------------------------------------------------
(* Who has a buffer. *)

\* A thread has a buffer while it fills it or gives it back, and whatever is checked out is with a
\* thread or a copy.
HandInv ==
  /\ \A t \in Threads : hold[t] # None => at[t] \in {"fill", "give"}
  /\ \A s \in Slots : leased[s] =>
       (\E t \in Threads : hold[t] = s) \/ (\E h \in Handles : lease[h] = s)

\* A step that touches no buffer, and leaves a thread that has one where it was.
LEMMA HandQuiet ==
  ASSUME HandInv, NEW t \in Threads, IInv, hold[t] = None, UNCHANGED <<leased, hold, lease>>,
         \A u \in Threads \ {t} : at'[u] = at[u]
  PROVE  HandInv'
<1>1. ASSUME NEW u \in Threads, hold'[u] # None PROVE at'[u] \in {"fill", "give"}
  BY <1>1 DEF HandInv
<1> QED BY <1>1 DEF HandInv

\* A thread without a buffer checks one out.
LEMMA HandCheckOut ==
  ASSUME IInv, HandInv, NEW t \in Threads, NEW s \in Slots, CheckOut(t, s), hold[t] = None,
         UNCHANGED lease
  PROVE  HandInv'
<1>1. /\ leased' = [leased EXCEPT ![s] = TRUE] /\ hold' = [hold EXCEPT ![t] = s]
      /\ at' = [at EXCEPT ![t] = "fill"] /\ Typed
  BY DEF CheckOut, Hold, Go, IInv
<1>2. /\ hold'[t] = s /\ at'[t] = "fill"
      /\ \A u \in Threads \ {t} : hold'[u] = hold[u] /\ at'[u] = at[u]
      /\ \A x \in Slots \ {s} : leased'[x] = leased[x]
  BY <1>1 DEF Typed
<1>3. s # None BY StagingAssumption DEF StagingAssumption
<1>4. \A u \in Threads : hold'[u] # None => at'[u] \in {"fill", "give"} BY <1>2 DEF HandInv
<1>5. ASSUME NEW x \in Slots, leased'[x]
      PROVE  (\E u \in Threads : hold'[u] = x) \/ (\E h \in Handles : lease'[h] = x)
  <2>1. CASE x = s BY <1>2, <2>1
  <2>2. CASE x # s
    <3>1. x # None BY StagingAssumption DEF StagingAssumption
    <3>2. (\E u \in Threads : hold[u] = x) \/ (\E h \in Handles : lease[h] = x)
      BY <1>2, <1>5, <2>2 DEF HandInv
    <3>3. CASE \E h \in Handles : lease[h] = x BY <3>3
    <3>4. CASE \E u \in Threads : hold[u] = x
      <4>1. PICK u \in Threads : hold[u] = x BY <3>4
      <4>2. u # t BY <3>1, <4>1
      <4> QED BY <1>2, <4>1, <4>2
    <3> QED BY <3>2, <3>3, <3>4
  <2> QED BY <2>1, <2>2
<1> QED BY <1>4, <1>5 DEF HandInv

\* A thread gives its buffer back to the pool.
LEMMA HandBackKeeps ==
  ASSUME IInv, HandInv, NEW t \in Threads, HandBack(t), NEW place, Go(t, place), UNCHANGED lease
  PROVE  HandInv'
<1>1. /\ leased' = [s \in Slots |-> leased[s] /\ s # hold[t]] /\ hold' = [hold EXCEPT ![t] = None]
      /\ at' = [at EXCEPT ![t] = place] /\ Typed
  BY DEF HandBack, Hold, Go, IInv
<1>2. /\ hold'[t] = None /\ \A u \in Threads \ {t} : hold'[u] = hold[u] /\ at'[u] = at[u]
  BY <1>1 DEF Typed
<1>3. \A u \in Threads : hold'[u] # None => at'[u] \in {"fill", "give"} BY <1>2 DEF HandInv
<1>4. ASSUME NEW x \in Slots, leased'[x]
      PROVE  (\E u \in Threads : hold'[u] = x) \/ (\E h \in Handles : lease'[h] = x)
  <2>1. leased[x] /\ x # hold[t] BY <1>1, <1>4
  <2>2. CASE \E h \in Handles : lease[h] = x BY <2>2
  <2>3. CASE \E u \in Threads : hold[u] = x BY <1>2, <2>1, <2>3
  <2> QED BY <2>1, <2>2, <2>3 DEF HandInv
<1> QED BY <1>3, <1>4 DEF HandInv

\* A thread that had nothing takes the lease of a finished copy.
LEMMA HandTake ==
  ASSUME IInv, HandInv, NEW t \in Threads, NEW h \in Handles, Take(t, h), hold[t] = None,
         UNCHANGED leased
  PROVE  HandInv'
<1>1. /\ hold' = [hold EXCEPT ![t] = lease[h]] /\ lease' = [lease EXCEPT ![h] = None]
      /\ at' = [at EXCEPT ![t] = "give"] /\ Typed
  BY DEF Take, Hold, Go, IInv
<1>2. /\ hold'[t] = lease[h] /\ at'[t] = "give"
      /\ \A u \in Threads \ {t} : hold'[u] = hold[u] /\ at'[u] = at[u]
      /\ \A g \in Handles \ {h} : lease'[g] = lease[g]
  BY <1>1 DEF Typed
<1>3. \A u \in Threads : hold'[u] # None => at'[u] \in {"fill", "give"} BY <1>2 DEF HandInv
<1>4. ASSUME NEW x \in Slots, leased'[x]
      PROVE  (\E u \in Threads : hold'[u] = x) \/ (\E g \in Handles : lease'[g] = x)
  <2>1. leased[x] /\ x # None BY <1>4, StagingAssumption DEF StagingAssumption
  <2>2. CASE \E g \in Handles : lease[g] = x BY <1>2, <2>2
  <2>3. CASE \E u \in Threads : hold[u] = x
    <3>1. PICK u \in Threads : hold[u] = x BY <2>3
    <3>2. u # t BY <2>1, <3>1
    <3> QED BY <1>2, <3>1, <3>2
  <2> QED BY <2>1, <2>2, <2>3 DEF HandInv
<1> QED BY <1>3, <1>4 DEF HandInv

\* Every step keeps track of the buffers, unless a layer that is packed on the engine side fails.
LEMMA HandStep == ASSUME ~Faults \/ Packers = {} PROVE IInv /\ HandInv /\ [Next]_vars => HandInv'
<1> SUFFICES ASSUME IInv, HandInv, [Next]_vars PROVE HandInv'
  OBVIOUS
<1>0. Typed /\ None \notin Slots BY StagingAssumption DEF IInv, StagingAssumption
<1>1. CASE UNCHANGED vars
  BY <1>1 DEF vars, poolVars, copyVars, threadVars, HandInv
<1>2. CASE Fire
  BY <1>2 DEF Fire, poolVars, threadVars, HandInv
<1>3. ASSUME NEW t \in Threads, NEW n \in Sizes, LeaseFree(t, n) PROVE HandInv'
  <2>1. PICK s \in Smallest(Free(n)) : CheckOut(t, s) BY <1>3 DEF LeaseFree
  <2>2. s \in Slots BY <1>0 DEF Smallest, Free, Typed
  <2>3. hold[t] = None /\ UNCHANGED lease BY <1>3 DEF LeaseFree, HandInv, copyVars
  <2> QED BY <2>1, <2>2, <2>3, HandCheckOut
<1>4. ASSUME NEW t \in Threads, LeaseRetry(t) PROVE HandInv'
  <2>1. hold[t] = None /\ UNCHANGED lease BY <1>4 DEF LeaseRetry, HandInv, copyVars
  <2>2. ASSUME NEW s \in Slots, CheckOut(t, s) PROVE HandInv'
    BY <2>1, <2>2, HandCheckOut
  <2>3. ASSUME NEW s \in Smallest(Free(task[t].want)), CheckOut(t, s) PROVE HandInv'
    <3>1. s \in Slots BY <1>0 DEF Smallest, Free, Typed
    <3> QED BY <2>2, <2>3, <3>1
  <2>4. CASE Hold(t, Transient) /\ Go(t, "fill") /\ UNCHANGED leased
    <3>1. /\ hold' = [hold EXCEPT ![t] = Transient] /\ at' = [at EXCEPT ![t] = "fill"]
      BY <2>4 DEF Hold, Go
    <3>2. /\ hold'[t] = Transient /\ at'[t] = "fill"
          /\ \A u \in Threads \ {t} : hold'[u] = hold[u] /\ at'[u] = at[u]
      BY <1>0, <3>1 DEF Typed
    <3>3. \A u \in Threads : hold'[u] # None => at'[u] \in {"fill", "give"} BY <3>2 DEF HandInv
    <3>4. ASSUME NEW x \in Slots, leased'[x]
          PROVE  (\E u \in Threads : hold'[u] = x) \/ (\E g \in Handles : lease'[g] = x)
      BY <1>0, <2>1, <2>4, <3>2, <3>4 DEF HandInv
    <3> QED BY <3>3, <3>4 DEF HandInv
  <2> QED BY <1>4, <2>2, <2>3, <2>4 DEF LeaseRetry
<1>5. ASSUME NEW t \in Threads, FillFails(t) PROVE HandInv'
  <2>1. HandBack(t) /\ Go(t, "idle") /\ UNCHANGED lease BY <1>5 DEF FillFails, copyVars
  <2> QED BY <2>1, HandBackKeeps
<1>6. ASSUME NEW t \in Threads, GiveBack(t) PROVE HandInv'
  <2> DEFINE place == IF async THEN "visit" ELSE "idle"
  <2>1. HandBack(t) /\ Go(t, place) /\ UNCHANGED lease BY <1>6 DEF GiveBack, copyVars
  <2> HIDE DEF place
  <2> QED BY <2>1, HandBackKeeps
<1>7. ASSUME NEW t \in Threads, SendAsync(t) PROVE HandInv'
  <2> DEFINE h == sent + 1
  <2>1. /\ hold' = [hold EXCEPT ![t] = None] /\ lease' = [lease EXCEPT ![h] = hold[t]]
        /\ at' = [at EXCEPT ![t] = "append"] /\ UNCHANGED leased /\ sent < MaxSends
    BY <1>7 DEF SendAsync, Hold, Go, poolVars
  <2>2. h \in Handles /\ h > sent BY <1>0, <2>1, StagingAssumption DEF Typed, Handles, StagingAssumption
  <2>3. lease[h] = None BY <2>2 DEF IInv, Guarded
  <2> HIDE DEF h
  <2>4. /\ hold'[t] = None /\ \A u \in Threads \ {t} : hold'[u] = hold[u] /\ at'[u] = at[u]
        /\ lease'[h] = hold[t] /\ \A g \in Handles \ {h} : lease'[g] = lease[g]
    BY <1>0, <2>1, <2>2 DEF Typed
  <2>5. \A u \in Threads : hold'[u] # None => at'[u] \in {"fill", "give"} BY <2>4 DEF HandInv
  <2>6. ASSUME NEW x \in Slots, leased'[x]
        PROVE  (\E u \in Threads : hold'[u] = x) \/ (\E g \in Handles : lease'[g] = x)
    <3>1. CASE \E u \in Threads : hold[u] = x
      <4>1. PICK u \in Threads : hold[u] = x BY <3>1
      <4>2. CASE u = t BY <2>2, <2>4, <4>1, <4>2
      <4>3. CASE u # t BY <2>4, <4>1, <4>3
      <4> QED BY <4>2, <4>3
    <3>2. CASE \E g \in Handles : lease[g] = x
      <4>1. PICK g \in Handles : lease[g] = x BY <3>2
      <4>2. g # h BY <1>0, <2>3, <4>1
      <4> QED BY <2>4, <4>1, <4>2
    <3> QED BY <2>1, <2>6, <3>1, <3>2 DEF HandInv
  <2> QED BY <2>5, <2>6 DEF HandInv
<1>8. ASSUME NEW t \in Threads, SendSync(t) PROVE HandInv'
  <2>1. at' = [at EXCEPT ![t] = "give"] /\ UNCHANGED <<leased, lease, hold>>
    BY <1>8 DEF SendSync, Go, poolVars
  <2>2. at'[t] = "give" /\ \A u \in Threads \ {t} : at'[u] = at[u] BY <1>0, <2>1 DEF Typed
  <2> QED BY <2>1, <2>2 DEF HandInv
<1>9. ASSUME NEW t \in Threads, NEW h \in Handles, TakeLease(t, h) PROVE HandInv'
  <2>1. hold[t] = None /\ UNCHANGED leased BY <1>9 DEF TakeLease, HandInv, poolVars
  <2>2. CASE Go(t, "visit") /\ UNCHANGED <<lease, hold>>
    <3>1. \A u \in Threads \ {t} : at'[u] = at[u] BY <1>0, <2>2 DEF Go, Typed
    <3> QED BY <2>1, <2>2, <3>1, HandQuiet
  <2>3. CASE Take(t, h) BY <2>1, <2>3, HandTake
  <2> QED BY <1>9, <2>2, <2>3 DEF TakeLease
<1>10. ASSUME NEW t \in Threads, NEW h \in Handles, DrainNext(t, h) PROVE HandInv'
  <2>1. hold[t] = None /\ UNCHANGED leased BY <1>10 DEF DrainNext, Draining, HandInv, poolVars
  <2>2. CASE UNCHANGED <<lease, hold, at>> BY <2>1, <2>2, HandQuiet
  <2>3. CASE Take(t, h) BY <2>1, <2>3, HandTake
  <2> QED BY <1>10, <2>2, <2>3 DEF DrainNext
<1>11. ASSUME NEW t \in Threads, hold[t] = None, UNCHANGED <<leased, hold, lease>>,
              at' = at \/ \E place \in Places : at' = [at EXCEPT ![t] = place]
       PROVE  HandInv'
  <2>1. \A u \in Threads \ {t} : at'[u] = at[u] BY <1>0, <1>11 DEF Typed
  <2> QED BY <1>11, <2>1, HandQuiet
<1>12. ASSUME NEW t \in Threads, NEW n \in Sizes, LeaseReclaims(t, n) PROVE HandInv'
  <2>1. hold[t] = None /\ UNCHANGED <<leased, hold, lease>> /\ at' = [at EXCEPT ![t] = "reclaim"]
    BY <1>12 DEF LeaseReclaims, Go, HandInv, poolVars, copyVars
  <2> QED BY <1>11, <2>1 DEF Places
<1>13. ASSUME NEW t \in Threads, AppendHandle(t) PROVE HandInv'
  <2>1. hold[t] = None /\ UNCHANGED <<leased, hold, lease>> /\ at' = [at EXCEPT ![t] = "idle"]
    BY <1>13 DEF AppendHandle, Return, Go, HandInv, poolVars
  <2> QED BY <1>11, <2>1 DEF Places
<1>14. ASSUME NEW t \in Threads, NEW h \in Handles, Resolve(t, h) PROVE HandInv'
  <2>1. hold[t] = None /\ UNCHANGED <<leased, hold, lease>> /\ at' = [at EXCEPT ![t] = "reclaim"]
    BY <1>14 DEF Resolve, Go, HandInv, poolVars
  <2> QED BY <1>11, <2>1 DEF Places
<1>15. ASSUME NEW t \in Threads, BeginReclaim(t) PROVE HandInv'
  <2>1. hold[t] = None /\ UNCHANGED <<leased, hold, lease>> /\ at' = [at EXCEPT ![t] = "visit"]
    BY <1>15 DEF BeginReclaim, Go, HandInv, poolVars, copyVars
  <2> QED BY <1>11, <2>1 DEF Places
<1>16. ASSUME NEW t \in Threads, NEW h \in Handles, ReclaimSkips(t, h) PROVE HandInv'
  <2>1. hold[t] = None /\ UNCHANGED <<leased, hold, lease>> /\ at' = at
    BY <1>16 DEF ReclaimSkips, Reclaiming, HandInv, poolVars, copyVars
  <2> QED BY <1>11, <2>1
<1>17. ASSUME NEW t \in Threads, NEW h \in Handles, ReclaimFinds(t, h) PROVE HandInv'
  <2>1. hold[t] = None /\ UNCHANGED <<leased, hold, lease>> /\ at' = [at EXCEPT ![t] = "take"]
    BY <1>17 DEF ReclaimFinds, Reclaiming, Go, HandInv, poolVars, copyVars
  <2> QED BY <1>11, <2>1 DEF Places
<1>18. ASSUME NEW t \in Threads, EndReclaim(t) PROVE HandInv'
  <2>1. hold[t] = None /\ UNCHANGED <<leased, hold, lease>>
    BY <1>18 DEF EndReclaim, Reclaiming, HandInv, poolVars
  <2>2. at' = [at EXCEPT ![t] = "retry"] \/ at' = [at EXCEPT ![t] = "idle"]
    BY <1>18 DEF EndReclaim, Return, Go
  <2> QED BY <1>11, <2>1, <2>2 DEF Places
<1>19. ASSUME NEW t \in Threads, Drain(t) PROVE HandInv'
  <2>1. hold[t] = None /\ UNCHANGED <<leased, hold, lease>> /\ at' = [at EXCEPT ![t] = "visit"]
    BY <1>19 DEF Drain, Go, HandInv, poolVars
  <2> QED BY <1>11, <2>1 DEF Places
<1>20. ASSUME NEW t \in Threads, EndDrain(t) PROVE HandInv'
  <2>1. hold[t] = None /\ UNCHANGED <<leased, hold, lease>> /\ at' = [at EXCEPT ![t] = "idle"]
    BY <1>20 DEF EndDrain, Draining, Return, Go, HandInv, poolVars, copyVars
  <2> QED BY <1>11, <2>1 DEF Places
<1>21. ASSUME NEW t \in Threads, Clear(t) PROVE HandInv'
  BY <1>21 DEF Clear, HandInv, copyVars, threadVars
<1>22. ASSUME NEW t \in Threads, NEW n \in BufferSizes, BufferGrows(t, n) PROVE HandInv'
  BY <1>22 DEF BufferGrows, HandInv, copyVars, threadVars
<1>23. ASSUME NEW t \in Threads, Stage(t) PROVE HandInv'
  BY <1>4, <1>7, <1>8, <1>13, <1>23 DEF Stage
<1>24. ASSUME NEW t \in Threads, Harvest(t) PROVE HandInv'
  BY <1>6, <1>9, <1>10, <1>15, <1>16, <1>17, <1>18, <1>20, <1>24 DEF Harvest
<1> QED BY <1>1, <1>2, <1>3, <1>5, <1>12, <1>14, <1>19, <1>21, <1>22, <1>23, <1>24 DEF Next

\* Whoever has a buffer is its only owner.
LEMMA HandsOwn == ASSUME IInv, HandInv PROVE OneOwner
<1> SUFFICES ASSUME NEW s \in Slots PROVE Cardinality(Owners(s)) = IF leased[s] THEN 1 ELSE 0
  BY DEF OneOwner
<1>1. CASE ~leased[s]
  <2>1. Owners(s) = {} BY <1>1 DEF IInv, HeldIsLeased, Owners
  <2> QED BY <1>1, <2>1, FS_EmptySet
<1>2. CASE leased[s]
  <2>1. ASSUME NEW t \in Threads, hold[t] = s PROVE Owners(s) = {<<"thread", t>>}
    BY <2>1 DEF IInv, Exclusive, Owners
  <2>2. ASSUME NEW h \in Handles, lease[h] = s PROVE Owners(s) = {<<"copy", h>>}
    BY <2>2 DEF IInv, Exclusive, Owners
  <2>3. \E o : Owners(s) = {o} BY <1>2, <2>1, <2>2 DEF HandInv
  <2>4. PICK o : Owners(s) = {o} BY <2>3
  <2>5. Cardinality({o}) = 1 BY FS_Singleton
  <2> QED BY <1>2, <2>4, <2>5
<1> QED BY <1>1, <1>2

-------------------------------------------------------------------------------
(* What the pool holds. *)

Booked == /\ size \in [Slots -> Nat] /\ buffers \in SUBSET Nat /\ IsFiniteSet(buffers)
          /\ WithinBudget

\* Numbers add up to a number; none and one of them to what they should.
LEMMA Totals ==
  /\ \A S \in SUBSET Nat : IsFiniteSet(S) => Total(S) \in Nat
  /\ Total({}) = 0
  /\ \A n \in Nat : Total({n}) = n
<1>1. ASSUME NEW S \in SUBSET Nat, IsFiniteSet(S) PROVE Total(S) \in Nat
  <2> DEFINE f == [n \in S |-> n]
  <2>1. \A x \in S : f[x] \in Nat OBVIOUS
  <2>2. Total(S) = SumFunctionOnSet(f, S) BY DEF Total
  <2> HIDE DEF f
  <2> QED BY <1>1, <2>1, <2>2, SumType
<1>2. Total({}) = 0 BY SumOfNone DEF Total
<1>3. ASSUME NEW n \in Nat PROVE Total({n}) = n
  <2> DEFINE f == [k \in {n} |-> k]
  <2>1. f[n] = n /\ \A y \in {n} : f[y] \in Int OBVIOUS
  <2>2. Total({n}) = SumFunctionOnSet(f, {n}) BY DEF Total
  <2> HIDE DEF f
  <2>3. IsFiniteSet({n}) /\ {n} \ {n} = {} BY FS_Singleton
  <2>4. SumFunctionOnSet(f, {n}) = f[n] + SumFunctionOnSet(f, {n} \ {n}) BY <2>1, <2>3, SumRemove
  <2>5. SumFunctionOnSet(f, {}) = 0 BY SumOfNone
  <2> QED BY <2>1, <2>2, <2>3, <2>4, <2>5
<1> QED BY <1>1, <1>2, <1>3

\* Every step counts what comes in and what goes.
LEMMA BookedStep == IInv /\ TaskInv /\ Booked /\ [Next]_vars => Booked'
<1> SUFFICES ASSUME IInv, TaskInv, Booked, [Next]_vars PROVE Booked'
  OBVIOUS
<1>0. /\ slots \in SUBSET Slots /\ IsFiniteSet(slots) /\ task \in [Threads -> Tasks] /\ Budget \in Nat
      /\ BufferSizes \subseteq Nat
  <2>1. IsFiniteSet(Slots) /\ slots \in SUBSET Slots BY StagingAssumption DEF IInv, Typed, StagingAssumption
  <2>2. IsFiniteSet(slots) BY <2>1, FS_Subset
  <2> QED BY <2>1, <2>2, StagingAssumption DEF StagingAssumption, TaskInv
<1>1. /\ size \in [Slots -> Nat] /\ buffers \in SUBSET Nat /\ IsFiniteSet(buffers)
      /\ resident = SumFunctionOnSet(size, slots) + Total(buffers) /\ resident <= Budget
  BY DEF Booked, WithinBudget
<1>2. SumFunctionOnSet(size, slots) \in Nat
  <2>1. \A x \in slots : size[x] \in Nat BY <1>0, <1>1
  <2> QED BY <1>0, <2>1, SumType
<1>3. Total(buffers) \in Nat BY <1>1, Totals
<1>4. CASE UNCHANGED poolVars BY <1>4 DEF poolVars, Booked, WithinBudget
<1>5. CASE UNCHANGED <<slots, size, buffers, resident>> BY <1>5 DEF Booked, WithinBudget
<1>6. ASSUME NEW t \in Threads, LeaseRetry(t) PROVE Booked'
  <2> DEFINE n == task[t].want
  <2>1. n \in Nat BY <1>0 DEF Tasks
  <2>2. UNCHANGED buffers BY <1>6 DEF LeaseRetry
  <2>3. ASSUME NEW s \in Slots \ slots, slots' = slots \cup {s}, size' = [size EXCEPT ![s] = n],
               resident' = resident + n, Affordable(n)
        PROVE  Booked'
    <3> HIDE DEF n
    <3>1. size'[s] = n /\ (\A x \in slots : size[x] = size'[x]) /\ size' \in [Slots -> Nat]
      BY <1>0, <1>1, <2>1, <2>3
    <3>2. SumFunctionOnSet(size, slots) = SumFunctionOnSet(size', slots) BY <1>0, <3>1, SumSame
    <3>3. \A y \in slots \cup {s} : size'[y] \in Int BY <1>0, <3>1
    <3>4. SumFunctionOnSet(size', slots \cup {s}) = SumFunctionOnSet(size', slots) + size'[s]
      BY <1>0, <2>3, <3>3, SumAdd
    <3>5. resident' = SumFunctionOnSet(size', slots') + Total(buffers')
      BY <1>1, <1>2, <1>3, <2>1, <2>2, <2>3, <3>1, <3>2, <3>4
    <3>6. resident' <= Budget BY <2>3 DEF Affordable
    <3> QED BY <1>1, <2>2, <3>1, <3>5, <3>6 DEF Booked, WithinBudget
  <2> QED BY <1>5, <1>6, <2>2, <2>3 DEF LeaseRetry
<1>7. ASSUME NEW t \in Threads, Clear(t) PROVE Booked'
  <2>1. /\ buffers' = {} /\ slots' \subseteq slots /\ resident' = SumFunctionOnSet(size, slots')
        /\ UNCHANGED size
    BY <1>7 DEF Clear
  <2>2. SumFunctionOnSet(size, slots') <= SumFunctionOnSet(size, slots) BY <1>0, <1>1, <2>1, SumMonotone
  <2>3. SumFunctionOnSet(size, slots') \in Nat
    <3>1. IsFiniteSet(slots') BY <1>0, <2>1, FS_Subset
    <3>2. \A x \in slots' : size[x] \in Nat BY <1>0, <1>1, <2>1
    <3> QED BY <3>1, <3>2, SumType
  <2>4. Total(buffers') = 0 /\ IsFiniteSet(buffers') BY <2>1, Totals, FS_EmptySet
  <2>5. resident' = SumFunctionOnSet(size', slots') + Total(buffers') /\ resident' <= Budget
    BY <1>0, <1>1, <1>2, <1>3, <2>1, <2>2, <2>3, <2>4
  <2> QED BY <1>1, <2>1, <2>4, <2>5 DEF Booked, WithinBudget
<1>8. ASSUME NEW t \in Threads, NEW n \in BufferSizes, BufferGrows(t, n) PROVE Booked'
  <2>1. /\ buffers' = {n} /\ resident' = resident - Total(buffers) + n /\ resident' <= Budget
        /\ UNCHANGED <<slots, size>>
    BY <1>8 DEF BufferGrows
  <2>2. n \in Nat /\ Total({n}) = n /\ IsFiniteSet({n}) BY <1>0, Totals, FS_Singleton
  <2>3. resident' = SumFunctionOnSet(size', slots') + Total(buffers')
    BY <1>1, <1>2, <1>3, <2>1, <2>2
  <2> QED BY <1>1, <2>1, <2>2, <2>3 DEF Booked, WithinBudget
<1>9. CASE Fire BY <1>4, <1>9 DEF Fire
<1>10. ASSUME NEW t \in Threads, Stage(t) PROVE Booked'
  BY <1>4, <1>6, <1>10 DEF Stage, SendAsync, SendSync, AppendHandle
<1>11. ASSUME NEW t \in Threads, NEW h \in Handles,
              ReclaimSkips(t, h) \/ ReclaimFinds(t, h) \/ TakeLease(t, h) \/ DrainNext(t, h)
       PROVE  Booked'
  BY <1>4, <1>11 DEF ReclaimSkips, ReclaimFinds, TakeLease, DrainNext
<1>12. ASSUME NEW t \in Threads, Harvest(t) PROVE Booked'
  BY <1>4, <1>5, <1>11, <1>12 DEF Harvest, BeginReclaim, GiveBack, EndReclaim, EndDrain
<1>13. ASSUME NEW t \in Threads, FillFails(t) \/ Drain(t) PROVE Booked'
  BY <1>4, <1>5, <1>13 DEF FillFails, Drain
<1>14. ASSUME NEW t \in Threads, NEW n \in Sizes, LeaseFree(t, n) \/ LeaseReclaims(t, n) PROVE Booked'
  BY <1>4, <1>5, <1>14 DEF LeaseFree, LeaseReclaims
<1>15. ASSUME NEW t \in Threads, NEW h \in Handles, Resolve(t, h) PROVE Booked'
  BY <1>4, <1>15 DEF Resolve
<1>16. CASE UNCHANGED vars BY <1>4, <1>16 DEF vars
<1> QED BY <1>7, <1>8, <1>9, <1>10, <1>12, <1>13, <1>14, <1>15, <1>16 DEF Next

\* The pool knows who has every buffer, one owner each and none lost, and how many bytes it holds,
\* never more than its budget: for every caller that gives a half-filled buffer back, as
\* LayerLoader does and _move_coalesced does not.
THEOREM AccountsKept == ASSUME ~Faults \/ Packers = {} PROVE Spec => []Accounted
<1>1. Init => HandInv /\ Booked
  <2> SUFFICES ASSUME Init PROVE HandInv /\ Booked
    OBVIOUS
  <2>1. HandInv BY DEF Init, HandInv
  <2>2. /\ slots = {} /\ buffers = {} /\ resident = 0 /\ size \in [Slots -> Nat] BY DEF Init
  <2>3. Budget \in Nat BY StagingAssumption DEF StagingAssumption
  <2>4. SumFunctionOnSet(size, slots) = 0 /\ Total(buffers) = 0 /\ IsFiniteSet(buffers)
    BY <2>2, SumOfNone, Totals, FS_EmptySet
  <2> QED BY <2>1, <2>2, <2>3, <2>4 DEF Booked, WithinBudget
<1>2. IInv /\ HandInv /\ Booked => Accounted BY HandsOwn DEF Booked, Accounted
<1> QED BY <1>1, <1>2, InitHolds, TasksStart, Step, TaskStep, HandStep, BookedStep, PTL DEF Spec

--------------------------------------------------------------------------------
(***************************************************************************)
(* Mixture: what a layer is made of.                                                *)
(***************************************************************************)
\* A tensor bears the name of the child it is kept for, and the number of an expert if it has one.
LEMMA KeptIs ==
  ASSUME NEW child, NEW name, NEW t \in Kept(child, name)
  PROVE  /\ t[1] = name
         /\ t[2] # Absent => t[2] \in Held(child)
<1>1. CASE child.sources = << >> BY <1>1 DEF Kept
<1>2. CASE child.sources # << >>
  <2>1. PICK e \in DOMAIN child.sources : \E s \in child.sources[e] : t = <<name, e, s>> BY <1>2 DEF Kept
  <2> QED BY <2>1 DEF Held
<1> QED BY <1>1, <1>2

LEMMA KeptHas ==
  ASSUME NEW child, NEW name, child.shard # "nothing",
         NEW e \in DOMAIN child.sources, child.sources # << >>, NEW s \in child.sources[e]
  PROVE  <<name, e, s>> \in Kept(child, name)
BY DEF Kept

\* One sibling has the scores: the router.
IsRouter(blk, name, n, r) ==
  /\ r # NoName /\ r \in DOMAIN blk \ {name} /\ Emits(blk[r], n, TRUE)
  /\ \A s \in DOMAIN blk \ {name} : Emits(blk[s], n, TRUE) => s = r

LEMMA RouterIs ==
  ASSUME NEW blk, IsFiniteSet(DOMAIN blk), NEW name, NEW n, NEW r, r = FindRouter(blk, name, n, TRUE), r # NoName
  PROVE  IsRouter(blk, name, n, r)
<1> DEFINE Able == {s \in DOMAIN blk \ {name} : Emits(blk[s], n, TRUE)}
<1>1. Cardinality(Able) = 1 /\ r = CHOOSE s \in Able : TRUE BY DEF FindRouter
<1>2. IsFiniteSet(Able) BY FS_Subset
<1>3. PICK s : Able = {s} BY <1>1, <1>2, FS_Singleton
<1>4. r = s BY <1>1, <1>3
<1> QED BY <1>3, <1>4 DEF IsRouter

\* A container is what one of the three layouts makes of a child.
LEMMA ContainerFrom ==
  ASSUME NEW c \in Containers
  PROVE  \E name \in DOMAIN block :
           \/ c = ModuleList(block, name, layer.declared) /\ c # NoContainer /\ block[name].entries >= MinExperts
           \/ c = Fused(block, name, layer.declared, Sources(layer.transform)) /\ c # NoContainer
           \/ name = layer.hint /\ c.path = name /\ ~IsFused(c) /\ c.shared = {}
<1>1. CASE c \in Detect(block, layer.declared, layer.transform) BY <1>1 DEF Detect
<1>2. CASE c \in Configured(block, layer.hint, layer.declared)
  BY <1>2 DEF Configured, NoContainer, IsFused
<1> QED BY <1>1, <1>2 DEF Containers

LEMMA ContainerHas ==
  ASSUME NEW layout, NEW blk, NEW name, NEW n, NEW topk, NEW router
  PROVE  LET c == Container(layout, blk, name, n, topk, router)
         IN  /\ c.layout = layout /\ c.path = name /\ c.experts = n /\ c.topk = topk /\ c.router = router
             /\ c.shared \subseteq DOMAIN blk \ {name, router}
BY DEF Container, FindShared

LEMMA ModuleListIs ==
  ASSUME NEW blk, NEW name, NEW declared, NEW c, c = ModuleList(blk, name, declared), c # NoContainer
  PROVE  ~IsFused(c) /\ c.path = name /\ c.shared \subseteq DOMAIN blk \ {name}
<1>1. PICK layout, n, topk, router : c = Container(layout, blk, name, n, topk, router) /\ layout = "module list"
  BY DEF ModuleList
<1>2. c.layout = layout /\ c.path = name /\ c.shared \subseteq DOMAIN blk \ {name, router}
  <2>1. c = Container(layout, blk, name, n, topk, router) BY <1>1
  <2> QED BY <2>1, ContainerHas
<1>3. ~IsFused(c) BY <1>1, <1>2 DEF IsFused
<1> QED BY <1>2, <1>3

LEMMA FusedFinds ==
  ASSUME NEW blk, IsFiniteSet(DOMAIN blk), NEW name, NEW declared, NEW parts, NEW c,
         c = Fused(blk, name, declared, parts), c # NoContainer
  PROVE  /\ blk[name].rows >= MinExperts /\ blk[name].shard # "nothing"
         /\ IsFused(c) /\ c.path = name /\ c.experts = blk[name].rows
         /\ IsRouter(blk, name, c.experts, c.router) /\ c.topk # Absent
         /\ c.shared \subseteq DOMAIN blk \ {name}
<1>1. PICK layout, n, topk, r :
        /\ layout \in {"fused", "fused merge"} /\ blk[name].shard \in {"fused", "per expert"}
        /\ n = blk[name].rows /\ n >= MinExperts /\ r = FindRouter(blk, name, n, TRUE) /\ r # NoName /\ topk # Absent
        /\ c = Container(layout, blk, name, n, topk, r)
  BY DEF Fused
<1>2. c.layout = layout /\ c.path = name /\ c.experts = n /\ c.topk = topk /\ c.router = r
      /\ c.shared \subseteq DOMAIN blk \ {name, r}
  <2>1. c = Container(layout, blk, name, n, topk, r) BY <1>1
  <2> QED BY <2>1, ContainerHas
<1>3. IsFused(c) /\ blk[name].shard # "nothing" BY <1>1, <1>2 DEF IsFused
<1>4. c.shared \subseteq DOMAIN blk \ {name} BY <1>2
<1>5. IsRouter(blk, name, n, r) BY <1>1, RouterIs
<1> QED BY <1>1, <1>2, <1>3, <1>4, <1>5

\* Single experts are merged only if as many of them match as the module has rows.
LEMMA MergedFinds ==
  ASSUME NEW blk, NEW name, NEW declared, NEW parts, Fused(blk, name, declared, parts) # NoContainer,
         blk[name].shard = "per expert"
  PROVE  Cardinality(Matched(blk[name], parts)) = blk[name].rows
<1>1. Mergeable(blk[name], parts) BY DEF Fused
<1> QED BY <1>1 DEF Mergeable

\* A container of single modules is a list of the layer.
LEMMA ListIs ==
  ASSUME WellBuilt, NEW c \in Containers, ~IsFused(c)
  PROVE  c.path \in DOMAIN block /\ block[c.path].entries > 0 /\ c.shared \subseteq DOMAIN block \ {c.path}
<1>1. PICK name \in DOMAIN block :
           \/ c = ModuleList(block, name, layer.declared) /\ c # NoContainer /\ block[name].entries >= MinExperts
           \/ c = Fused(block, name, layer.declared, Sources(layer.transform)) /\ c # NoContainer
           \/ name = layer.hint /\ c.path = name /\ ~IsFused(c) /\ c.shared = {}
  BY ContainerFrom
<1>2. block[name].entries \in Nat BY DEF WellBuilt, ChildrenFit
<1>3. CASE c = ModuleList(block, name, layer.declared) /\ c # NoContainer /\ block[name].entries >= MinExperts
  <2>1. c.path = name /\ c.shared \subseteq DOMAIN block \ {name} BY <1>3, ModuleListIs
  <2> QED BY <1>2, <1>3, <2>1 DEF MinExperts
<1>4. CASE c = Fused(block, name, layer.declared, Sources(layer.transform)) /\ c # NoContainer
  BY <1>4, FusedFinds DEF WellBuilt
<1>5. CASE name = layer.hint /\ c.path = name /\ c.shared = {} BY <1>5 DEF WellBuilt, OneMixture
<1> QED BY <1>1, <1>3, <1>4, <1>5

\* A container of batched parameters belongs to a child with rows, one for each expert of the
\* model, and its router is the module that scores them.
LEMMA FusedIs ==
  ASSUME WellBuilt, NEW c \in Containers, IsFused(c)
  PROVE  /\ c.path \in DOMAIN block /\ block[c.path].entries = 0 /\ block[c.path].shard # "nothing"
         /\ block[c.path].shard = "per expert" =>
               Cardinality(Matched(block[c.path], Sources(layer.transform))) = block[c.path].rows
         /\ block[c.path].routed /\ HasAllRows(block[c.path])
         /\ c.experts = block[c.path].rows /\ HooksRouter(c) /\ c.router = layer.scorer
         /\ c.shared \subseteq DOMAIN block \ {c.path}
         /\ layer.scorer \in DOMAIN block /\ ~block[layer.scorer].routed
<1>1. PICK name \in DOMAIN block :
           \/ c = ModuleList(block, name, layer.declared) /\ c # NoContainer /\ block[name].entries >= MinExperts
           \/ c = Fused(block, name, layer.declared, Sources(layer.transform)) /\ c # NoContainer
           \/ name = layer.hint /\ c.path = name /\ ~IsFused(c) /\ c.shared = {}
  BY ContainerFrom
<1>2. c = Fused(block, name, layer.declared, Sources(layer.transform)) /\ c # NoContainer
  <2>1. c = ModuleList(block, name, layer.declared) /\ c # NoContainer => ~IsFused(c) BY ModuleListIs
  <2> QED BY <1>1, <2>1
<1>3. /\ block[name].rows >= MinExperts /\ block[name].shard # "nothing"
      /\ c.path = name /\ c.experts = block[name].rows
      /\ IsRouter(block, name, c.experts, c.router) /\ c.topk # Absent
      /\ c.shared \subseteq DOMAIN block \ {name}
  <2>1. IsFiniteSet(DOMAIN block) BY DEF WellBuilt
  <2> QED BY <1>2, <2>1, FusedFinds
<1>4. block[name].rows > 0 /\ block[name].entries = 0
  <2>1. block[name].rows \in Nat /\ (block[name].rows > 0 => block[name].entries = 0) BY DEF WellBuilt, ChildrenFit
  <2> QED BY <1>3, <2>1 DEF MinExperts
<1>5. block[name].routed
  <2>1. ScoresFor(block[c.router], block[name].rows) BY <1>3 DEF IsRouter, Emits, ScoresFor
  <2> QED BY <1>3, <1>4, <2>1 DEF WellBuilt, RowsHaveScores, IsRouter
<1>6. HasScorer(block[name], name) /\ HasAllRows(block[name]) BY <1>4, <1>5 DEF WellBuilt, RowsHaveScores
<1>7. layer.scorer = c.router BY <1>3, <1>6 DEF IsRouter, HasScorer, Emits, ScoresFor
<1>8. block[name].shard = "per expert" => Cardinality(Matched(block[name], Sources(layer.transform))) = block[name].rows
  BY <1>2, MergedFinds
<1>9. c.path = name BY <1>3
<1>10. HooksRouter(c) /\ c.experts = block[c.path].rows /\ c.router = layer.scorer
  BY <1>3, <1>7 DEF HooksRouter, IsRouter
<1>11. layer.scorer \in DOMAIN block /\ ~block[layer.scorer].routed BY <1>6 DEF HasScorer
<1> QED BY <1>3, <1>4, <1>5, <1>6, <1>8, <1>9, <1>10, <1>11

(***************************************************************************)
(* What the units hold: every tensor of the layer is in one of them, or in *)
(* the rows of the fused container.                                        *)
(***************************************************************************)
FusedHere == {c \in Accepted : IsFused(c)}

LEMMA UnitsDiffer ==
  /\ \A e, f : ExpertUnit(e) = ExpertUnit(f) => e = f
  /\ \A s, r : SharedUnit(s) = SharedUnit(r) => s = r
  /\ \A e, s : ExpertUnit(e) # SharedUnit(s)
  /\ \A e : ExpertUnit(e) # LayerUnit
  /\ \A s : SharedUnit(s) # LayerUnit
BY DEF ExpertUnit, SharedUnit, LayerUnit

\* One child is the container of all that were found.
LEMMA OnePath == ASSUME WellBuilt, NEW c \in Containers, NEW d \in Containers PROVE c.path = d.path
BY DEF WellBuilt, OneMixture

LEMMA AcceptedFound == Accepted \subseteq Containers
BY DEF Accepted

LEMMA RegisteredIs ==
  ASSUME WellBuilt, NEW c \in Lists, NEW e \in Held(block[c.path])
  PROVE  Registered(e) \in Lists /\ Registered(e).path = c.path
<1>1. Lists \subseteq Containers BY AcceptedFound DEF Lists
<1>2. \A d \in Lists : d.path = c.path BY <1>1, OnePath
<1>3. block[c.path].place \in Nat
  <2>1. c.path \in DOMAIN block BY <1>1, ListIs DEF Lists
  <2> QED BY <2>1 DEF WellBuilt, ChildrenFit
<1>4. \E d \in Lists : /\ e \in Held(block[d.path])
                       /\ \A f \in Lists : e \in Held(block[f.path]) => block[f.path].place <= block[d.path].place
  BY <1>2, <1>3
<1>5. Registered(e) \in Lists BY <1>4 DEF Registered, LastHolding
<1> QED BY <1>2, <1>5

\* What a module's parameters are made of is kept for it.
LEMMA HomedIs == \A name : Homed(name) \subseteq Kept(block[name], name)
BY DEF Homed

\* The units, and the tensors of each.
LEMMA UnitsAre ==
  ASSUME WellBuilt, NEW u \in Units
  PROVE  \/ u = LayerUnit /\ TensorsOf(u) = LayerTensors
         \/ \E c \in Lists : \E e \in Held(block[c.path]) :
               u = ExpertUnit(e) /\ TensorsOf(u) = Of(Homed(c.path), c.path, e)
         \/ \E c \in Accepted : \E s \in c.shared : u = SharedUnit(s) /\ TensorsOf(u) = Kept(block[s], s)
<1>1. CASE u = LayerUnit
  <2>1. u[1] # "shared" BY <1>1 DEF LayerUnit
  <2> QED BY <1>1, <2>1 DEF TensorsOf
<1>2. ASSUME NEW c \in Lists, NEW e \in Held(block[c.path]), u = ExpertUnit(e)
      PROVE  TensorsOf(u) = Of(Homed(c.path), c.path, e)
  <2>1. u # LayerUnit /\ u[1] # "shared" /\ u[3] = e BY <1>2, UnitsDiffer DEF ExpertUnit
  <2>2. Registered(e).path = c.path BY RegisteredIs
  <2> QED BY <2>1, <2>2 DEF TensorsOf
<1>3. ASSUME NEW c \in Accepted, NEW s \in c.shared, u = SharedUnit(s)
      PROVE  TensorsOf(u) = Kept(block[s], s)
  <2>1. u # LayerUnit /\ u[1] = "shared" /\ u[2] = s BY <1>3, UnitsDiffer DEF SharedUnit
  <2> QED BY <2>1 DEF TensorsOf
<1> QED BY <1>1, <1>2, <1>3 DEF Units, ExpertUnits, SharedUnits

\* What a container owns, its layer does not load.
LEMMA OwnedApart ==
  ASSUME NEW c \in Accepted
  PROVE  /\ LayerTensors \cap Homed(c.path) = {}
         /\ \A s \in c.shared : LayerTensors \cap Kept(block[s], s) = {}
<1>1. \A t \in LayerTensors : t \notin Owned(c) BY DEF LayerTensors, NonExpertKeys
<1> QED BY <1>1 DEF Owned, Under

LEMMA KeptApart ==
  ASSUME NEW c1, NEW c2, NEW n1, NEW n2, n1 # n2
  PROVE  Kept(c1, n1) \cap Kept(c2, n2) = {}
BY KeptIs

\* A shared module is no container.
LEMMA SharedApart ==
  ASSUME WellBuilt, NEW c \in Accepted, NEW s \in c.shared, NEW d \in Accepted
  PROVE  s # d.path /\ s \in DOMAIN block
<1>1. c \in Containers /\ d \in Containers BY AcceptedFound
<1>2. c.shared \subseteq DOMAIN block \ {c.path} BY <1>1, ListIs, FusedIs
<1> QED BY <1>1, <1>2, OnePath

\* No tensor is in two units.
LEMMA UnitsApart ==
  ASSUME WellBuilt, NEW u \in Units, NEW v \in Units, u # v
  PROVE  TensorsOf(u) \cap TensorsOf(v) = {}
<1> DEFINE IsLayer(w) == w = LayerUnit /\ TensorsOf(w) = LayerTensors
           IsExpert(w, c, e) == w = ExpertUnit(e) /\ TensorsOf(w) = Of(Homed(c.path), c.path, e)
           IsShared(w, s) == w = SharedUnit(s) /\ TensorsOf(w) = Kept(block[s], s)
<1>1. ASSUME NEW w \in Units
      PROVE  \/ IsLayer(w)
             \/ \E c \in Lists : \E e \in Held(block[c.path]) : IsExpert(w, c, e)
             \/ \E c \in Accepted : \E s \in c.shared : IsShared(w, s)
  BY UnitsAre
<1>2. Lists \subseteq Accepted BY DEF Lists
<1>3. ASSUME NEW w, NEW x, IsLayer(w), NEW c \in Lists, NEW e \in Held(block[c.path]), IsExpert(x, c, e)
      PROVE  TensorsOf(w) \cap TensorsOf(x) = {}
  <2>1. LayerTensors \cap Homed(c.path) = {} BY <1>2, OwnedApart
  <2> QED BY <1>3, <2>1 DEF Of
<1>4. ASSUME NEW w, NEW x, IsLayer(w), NEW c \in Accepted, NEW s \in c.shared, IsShared(x, s)
      PROVE  TensorsOf(w) \cap TensorsOf(x) = {}
  BY <1>4, OwnedApart
<1>5. ASSUME NEW w, NEW x, NEW c \in Lists, NEW e \in Held(block[c.path]), IsExpert(w, c, e),
             NEW d \in Accepted, NEW s \in d.shared, IsShared(x, s)
      PROVE  TensorsOf(w) \cap TensorsOf(x) = {}
  <2>1. s # c.path BY <1>2, SharedApart
  <2>2. Kept(block[s], s) \cap Kept(block[c.path], c.path) = {} BY <2>1, KeptApart
  <2>3. Kept(block[s], s) \cap Homed(c.path) = {} BY <2>2, HomedIs
  <2> QED BY <1>5, <2>3 DEF Of
<1>6. ASSUME NEW w, NEW x, w # x, NEW c \in Lists, NEW e \in Held(block[c.path]), IsExpert(w, c, e),
             NEW d \in Lists, NEW f \in Held(block[d.path]), IsExpert(x, d, f)
      PROVE  TensorsOf(w) \cap TensorsOf(x) = {}
  <2>1. e # f BY <1>6
  <2> QED BY <1>6, <2>1 DEF Of
<1>7. ASSUME NEW w, NEW x, w # x, NEW s, NEW r, IsShared(w, s), IsShared(x, r)
      PROVE  TensorsOf(w) \cap TensorsOf(x) = {}
  <2>1. s # r BY <1>7
  <2> QED BY <1>7, <2>1, KeptApart
<1> HIDE DEF IsLayer, IsExpert, IsShared
<1>8. CASE IsLayer(u)
  <2>1. ~IsLayer(v) BY <1>8 DEF IsLayer
  <2> QED BY <1>1, <1>3, <1>4, <1>8, <2>1
<1>9. ASSUME NEW c \in Lists, NEW e \in Held(block[c.path]), IsExpert(u, c, e)
      PROVE  TensorsOf(u) \cap TensorsOf(v) = {}
  <2>1. IsLayer(v) => TensorsOf(v) \cap TensorsOf(u) = {} BY <1>3, <1>9
  <2> QED BY <1>1, <1>5, <1>6, <1>9, <2>1
<1>10. ASSUME NEW c \in Accepted, NEW s \in c.shared, IsShared(u, s)
      PROVE  TensorsOf(u) \cap TensorsOf(v) = {}
  <2>1. IsLayer(v) => TensorsOf(v) \cap TensorsOf(u) = {} BY <1>4, <1>10
  <2>2. ASSUME NEW d \in Lists, NEW e \in Held(block[d.path]), IsExpert(v, d, e)
        PROVE  TensorsOf(v) \cap TensorsOf(u) = {}
    BY <1>5, <1>10, <2>2
  <2> QED BY <1>1, <1>7, <1>10, <2>1, <2>2
<1> QED BY <1>1, <1>8, <1>9, <1>10

\* Rows are in no unit.
LEMMA RowsApart ==
  ASSUME WellBuilt, NEW c \in FusedHere, NEW u \in Units
  PROVE  TensorsOf(u) \cap Homed(c.path) = {}
<1>1. c \in Accepted /\ c \in Containers /\ IsFused(c) BY AcceptedFound DEF FusedHere
<1>2. ASSUME NEW d \in Lists PROVE FALSE
  <2>1. d \in Containers /\ ~IsFused(d) BY AcceptedFound DEF Lists
  <2>2. block[d.path].entries > 0 BY <2>1, ListIs
  <2>3. block[c.path].entries = 0 BY <1>1, FusedIs
  <2> QED BY <1>1, <2>1, <2>2, <2>3, OnePath
<1>3. LayerTensors \cap Homed(c.path) = {} BY <1>1, OwnedApart
<1>4. ASSUME NEW d \in Accepted, NEW s \in d.shared PROVE Kept(block[s], s) \cap Homed(c.path) = {}
  <2>1. s # c.path BY <1>1, SharedApart
  <2>2. Kept(block[s], s) \cap Kept(block[c.path], c.path) = {} BY <2>1, KeptApart
  <2> QED BY <2>2, HomedIs
<1> QED BY <1>2, <1>3, <1>4, UnitsAre

(***************************************************************************)
(* The hooks load what a call uses.                                        *)
(***************************************************************************)
\* The model calls a list by its entries, and any other child as one.
CallFits(call) ==
  /\ call = <<call[1], call[2]>> /\ call[1] \in DOMAIN block
  /\ block[call[1]].entries > 0 <=> call[2] # Absent

\* What no container owns is loaded with the layer.
LEMMA NotOwned ==
  ASSUME NEW name \in DOMAIN block, \A c \in Accepted : name # c.path /\ name \notin c.shared
  PROVE  Homed(name) \subseteq LayerTensors
<1> SUFFICES ASSUME NEW t \in Homed(name) PROVE t \in LayerTensors OBVIOUS
<1>1. t \in Kept(block[name], name) BY HomedIs
<1>2. t[1] = name BY <1>1, KeptIs
<1>3. ASSUME NEW c \in Accepted PROVE t \notin Owned(c)
  <2>1. t \notin Kept(block[c.path], c.path) BY <1>2, KeptIs
  <2>2. t \notin Homed(c.path) BY <2>1, HomedIs
  <2>3. \A s \in c.shared : t \notin Kept(block[s], s) BY <1>2, KeptIs
  <2> QED BY <2>2, <2>3 DEF Owned, Under
<1>4. t \in NonExpertKeys BY <1>1, <1>3 DEF NonExpertKeys, Stored
<1> QED BY <1>2, <1>4 DEF LayerTensors

\* Every expert has a row, whether the shard stores rows or the sources they are made of.
LEMMA RowsAreHomed ==
  ASSUME WellBuilt, NEW c \in Containers, IsFused(c), NEW e \in Experts
  PROVE  \E t \in Homed(c.path) : t[2] = e
<1> DEFINE child == block[c.path]
           parts == Sources(layer.transform)
           found == Matched(child, parts)
<1>1. child.shard # "nothing" BY FusedIs
<1>2. child.rows \in Nat BY FusedIs DEF WellBuilt, ChildrenFit
<1>3. DOMAIN child.sources = Experts /\ Experts \subseteq 0..(child.rows - 1) BY FusedIs DEF HasAllRows
<1>4. child.sources[e] # {} BY FusedIs DEF HasAllRows
<1>5. child.sources # << >> BY <1>3
<1>6. ASSUME child.shard = "per expert" PROVE child.sources[e] \cap parts # {}
  <2>1. Cardinality(found) = child.rows BY <1>6, FusedIs
  <2>2. PICK n \in Nat : n = child.rows BY <1>2
  <2>3. found \in SUBSET (0..(n - 1)) /\ e \in 0..(n - 1) BY <1>3, <2>2 DEF Matched
  <2> HIDE DEF found
  <2>4. IsFiniteSet(0..(n - 1)) /\ Cardinality(0..(n - 1)) = n BY FS_Interval
  <2>5. found = 0..(n - 1) BY <2>1, <2>2, <2>3, <2>4, FS_Subset
  <2>6. e \in found BY <2>3, <2>5
  <2> QED BY <2>6 DEF found, Matched
<1>7. PICK s \in child.sources[e] : child.shard = "per expert" => s \in parts BY <1>4, <1>6
<1>8. <<c.path, e, s>> \in Kept(child, c.path) BY <1>1, <1>3, <1>5, KeptHas
<1>9. <<c.path, e, s>> \in Homed(c.path) BY <1>7, <1>8 DEF Homed
<1> QED BY <1>9

\* A call that reads no rows uses what its own unit and that of the layer hold.
LEMMA CallUses ==
  ASSUME WellBuilt, NEW call, CallFits(call), FusedAt(call) = {}, NEW t \in Used(call)
  PROVE  \E u \in {LayerUnit} \cup UnitOf(call) : t \in TensorsOf(u)
<1> DEFINE name == call[1]
<1>1. /\ name \in DOMAIN block /\ t \in Homed(name) /\ t \in Kept(block[name], name) /\ t[1] = name
      /\ call[2] # Absent => t[2] = call[2]
  <2>1. t \in Homed(name) /\ (call[2] # Absent => t[2] = call[2]) BY DEF Used, Of
  <2>2. t \in Kept(block[name], name) BY <2>1, HomedIs
  <2> QED BY <2>1, <2>2, KeptIs DEF CallFits
<1>2. TensorsOf(LayerUnit) = LayerTensors
  <2>1. LayerUnit \in Units BY DEF Units
  <2> QED BY <2>1, UnitsAre, UnitsDiffer
<1>3. \A c \in Accepted : c \in Containers BY AcceptedFound
<1>4. CASE \E c \in Accepted : name = c.path
  <2>1. PICK c \in Accepted : name = c.path BY <1>4
  <2>2. ~IsFused(c) BY <2>1 DEF FusedAt
  <2>3. c \in Lists BY <2>2 DEF Lists
  <2>4. block[name].entries > 0 BY <1>3, <2>1, <2>2, ListIs
  <2>5. call[2] # Absent BY <2>4 DEF CallFits
  <2>6. call[2] \in Held(block[c.path]) BY <1>1, <2>1, <2>5, KeptIs
  <2>7. ExpertUnit(call[2]) \in UnitOf(call) BY <2>1, <2>3, <2>5, <2>6 DEF UnitOf, Units, ExpertUnits
  <2>8. ExpertUnit(call[2]) \in Units BY <2>7 DEF UnitOf
  <2>9. PICK d \in Lists : TensorsOf(ExpertUnit(call[2])) = Of(Homed(d.path), d.path, call[2])
    BY <2>8, UnitsAre, UnitsDiffer
  <2>10. d.path = c.path BY <1>3, <2>3, OnePath DEF Lists
  <2> QED BY <1>1, <2>1, <2>5, <2>7, <2>9, <2>10 DEF Of
<1>5. CASE \E c \in Accepted : name \in c.shared
  <2>1. PICK c \in Accepted : name \in c.shared BY <1>5
  <2>2. block[name].entries = 0 BY <1>3, <2>1 DEF WellBuilt, SharedAreCalled
  <2>3. call[2] = Absent BY <2>2 DEF CallFits
  <2>4. SharedUnit(name) \in Units BY <2>1 DEF Units, SharedUnits
  <2>5. SharedUnit(name) \in UnitOf(call) BY <2>3, <2>4 DEF UnitOf
  <2>6. TensorsOf(SharedUnit(name)) = Kept(block[name], name) BY <2>4, UnitsAre, UnitsDiffer
  <2> QED BY <1>1, <2>5, <2>6
<1>6. CASE \A c \in Accepted : name # c.path /\ name \notin c.shared
  BY <1>1, <1>2, <1>6, NotOwned
<1> QED BY <1>4, <1>5, <1>6

\* The rows of the experts in a choice.
RowsOf(c, choice) == {t \in Homed(c.path) : t[2] \in choice}

\* A call that reads rows uses those of the choice.
LEMMA FusedUses ==
  ASSUME WellBuilt, NEW call, CallFits(call), NEW c \in FusedAt(call)
  PROVE  c \in FusedHere /\ call = <<c.path, Absent>> /\ Used(call) = RowsOf(c, chosen)
<1>1. c \in Accepted /\ IsFused(c) /\ c.path = call[1] BY DEF FusedAt
<1>2. c \in Containers BY <1>1, AcceptedFound
<1>3. block[c.path].entries = 0 /\ block[c.path].routed BY <1>1, <1>2, FusedIs
<1>4. call[2] = Absent BY <1>1, <1>3 DEF CallFits
<1>5. call = <<c.path, Absent>> BY <1>1, <1>4 DEF CallFits
<1>6. Used(call) = RowsOf(c, chosen) BY <1>1, <1>3, <1>4 DEF Used, RowsOf
<1> QED BY <1>1, <1>5, <1>6 DEF FusedHere

\* The layer does not change.
LEMMA Fixed ==
  ASSUME UNCHANGED model
  PROVE  /\ Units' = Units /\ Accepted' = Accepted /\ Lists' = Lists /\ FusedHere' = FusedHere
         /\ Experts' = Experts /\ block' = block /\ layer' = layer
<1>1. layer' = layer /\ seekable' = seekable /\ block' = block BY DEF model, block
<1>2. Containers' = Containers BY <1>1 DEF Containers
<1>3. Accepted' = Accepted BY <1>1, <1>2 DEF Accepted, CannotStreamAlone
<1>4. Lists' = Lists /\ FusedHere' = FusedHere BY <1>3 DEF Lists, FusedHere
<1>5. Units' = Units BY <1>1, <1>3, <1>4 DEF Units, ExpertUnits, SharedUnits
<1>6. Experts' = Experts BY <1>1 DEF Experts
<1> QED BY <1>1, <1>3, <1>4, <1>5, <1>6

LEMMA FixedOf ==
  ASSUME UNCHANGED model
  PROVE  /\ \A u : TensorsOf(u)' = TensorsOf(u)
         /\ \A call : CallFits(call)' <=> CallFits(call)
         /\ \A call : UnitOf(call)' = UnitOf(call)
         /\ \A call : FusedAt(call)' = FusedAt(call)
         /\ \A c, choice : RowsOf(c, choice)' = RowsOf(c, choice)
         /\ \A name : Homed(name)' = Homed(name)
<1>1. /\ Units' = Units /\ Accepted' = Accepted /\ Lists' = Lists /\ block' = block BY Fixed
<1>0. layer' = layer /\ \A name : Homed(name)' = Homed(name) BY <1>1, Fixed DEF Homed
<1>2. LayerTensors' = LayerTensors BY <1>0, <1>1 DEF LayerTensors, NonExpertKeys, Owned
<1>3. \A e : Registered(e)' = Registered(e) BY <1>1 DEF Registered
<1>4. \A u : TensorsOf(u)' = TensorsOf(u) BY <1>0, <1>1, <1>2, <1>3 DEF TensorsOf
<1>5. \A call : CallFits(call)' <=> CallFits(call) BY <1>1 DEF CallFits
<1>6. \A call : UnitOf(call)' = UnitOf(call) BY <1>1 DEF UnitOf
<1>7. \A call : FusedAt(call)' = FusedAt(call) BY <1>1 DEF FusedAt
<1>8. \A c, choice : RowsOf(c, choice)' = RowsOf(c, choice) BY <1>0 DEF RowsOf
<1> QED BY <1>0, <1>4, <1>5, <1>6, <1>7, <1>8

LEMMA StaysBuilt == ASSUME UNCHANGED model PROVE WellBuilt' <=> WellBuilt
<1>1. /\ Experts' = Experts /\ block' = block /\ layer' = layer BY Fixed
<1>2. Containers' = Containers BY <1>1 DEF Containers
<1>3. ChildrenFit' <=> ChildrenFit BY <1>1 DEF ChildrenFit
<1>4. OneMixture' <=> OneMixture BY <1>1, <1>2 DEF OneMixture
<1>5. SharedAreCalled' <=> SharedAreCalled BY <1>1, <1>2 DEF SharedAreCalled
<1>6. RowsHaveScores' <=> RowsHaveScores BY <1>1 DEF RowsHaveScores, HasScorer, HasAllRows
<1> QED BY <1>1, <1>3, <1>4, <1>5, <1>6 DEF WellBuilt

(***************************************************************************)
(* The invariant.                                                          *)
(***************************************************************************)
\* A unit that the cache holds is bound.
LoadedIsBound == loaded \subseteq Units /\ \A u \in loaded : TensorsOf(u) \subseteq bound

\* While the layer runs, its own unit and that of the module it is in are held.
InForward ==
  /\ active => LayerUnit \in loaded
  /\ ~active => running = NoCall /\ todo = {}
  /\ running # NoCall => running \in todo
  /\ \A call \in todo : running = call => UnitOf(call) \subseteq loaded

\* The model calls the modules of the layer, and routes to its experts.
CallsFit ==
  /\ chosen \subseteq Experts /\ (form = "scores" => chosen # Unknown)
  /\ \A call \in todo : CallFits(call)

\* A router that is used without a call never says what it chose.
SilentRouter == \A c \in FusedHere :
  ~layer.called => <<layer.scorer, Absent>> \notin todo /\ form # "scores"

\* From the router's call to that of the container whose rows it scores, the selection holds the
\* choice of this forward, or none.
SelectionIsNew == \A c \in FusedHere :
  /\ ~layer.called => slot = Unknown
  /\ <<c.path, Absent>> \in todo \ {running} => slot = IF form = "scores" THEN chosen ELSE Unknown

\* The rows of that choice are there while the container runs.
RowsAreBound == \A c \in FusedHere :
  running = <<c.path, Absent>> =>
    /\ RowsOf(c, chosen) \subseteq bound
    /\ form = "scores" => moved = RowsOf(c, chosen)

MixtureInv ==
  WellBuilt /\ LoadedIsBound /\ InForward /\ CallsFit /\ SilentRouter /\ SelectionIsNew /\ RowsAreBound

\* A choice names experts, one at least.
LEMMA ChoiceIs ==
  ASSUME WellBuilt, NEW choice \in Selections
  PROVE  choice \subseteq Experts /\ choice # Unknown
<1>1. choice \subseteq Experts /\ Cardinality(choice) >= AtLeastOne(layer.declared) BY DEF Selections
<1>2. AtLeastOne(layer.declared) \in Int /\ AtLeastOne(layer.declared) > 0 BY DEF AtLeastOne, WellBuilt
<1>3. Cardinality({}) = 0 BY FS_EmptySet
<1> QED BY <1>1, <1>2, <1>3 DEF Unknown

\* What the model calls fits the layer.
LEMMA ExpertsAreNumbers == ASSUME WellBuilt PROVE Experts \subseteq Nat
<1>1. \A name \in DOMAIN block : DOMAIN block[name].sources \subseteq Nat BY DEF WellBuilt, ChildrenFit
<1> QED BY <1>1 DEF Experts

LEMMA CallsOf ==
  ASSUME WellBuilt, NEW name \in DOMAIN block, NEW experts \in SUBSET Nat, NEW call \in Calls(name, experts)
  PROVE  CallFits(call) /\ call[1] = name
<1>1. block[name].entries \in Nat BY DEF WellBuilt, ChildrenFit
<1>2. CASE block[name].entries > 0
  <2>1. PICK e \in experts : call = <<name, e>> BY <1>2 DEF Calls
  <2> QED BY <1>2, <2>1 DEF CallFits, Absent
<1>3. CASE ~(block[name].entries > 0)
  <2>1. call = <<name, Absent>> BY <1>3 DEF Calls
  <2> QED BY <1>3, <2>1 DEF CallFits
<1> QED BY <1>2, <1>3

LEMMA AlwaysFits ==
  ASSUME WellBuilt, NEW call \in Always
  PROVE  CallFits(call) /\ ~block[call[1]].routed
<1>1. PICK name \in DOMAIN block : ~block[name].routed /\ call \in Calls(name, DOMAIN block[name].sources)
  BY DEF Always
<1>2. DOMAIN block[name].sources \in SUBSET Nat BY DEF WellBuilt, ChildrenFit
<1> QED BY <1>1, <1>2, CallsOf

LEMMA RoutedFits ==
  ASSUME WellBuilt, NEW experts \in SUBSET Experts, NEW call \in Routed(experts)
  PROVE  CallFits(call) /\ block[call[1]].routed
<1>1. PICK name \in DOMAIN block : block[name].routed /\ call \in Calls(name, experts) BY DEF Routed
<1>2. experts \in SUBSET Nat BY ExpertsAreNumbers
<1> QED BY <1>1, <1>2, CallsOf

\* A layer with rows has no other container, and the call of a container is no other module's.
LEMMA FusedAlone ==
  ASSUME WellBuilt, NEW c \in FusedHere
  PROVE  /\ c \in Containers /\ IsFused(c) /\ \A d \in Accepted : d \in FusedHere /\ d.path = c.path
         /\ <<c.path, Absent>> # NoCall /\ block[c.path].routed
<1>1. c \in Accepted /\ c \in Containers /\ IsFused(c) BY AcceptedFound DEF FusedHere
<1>2. block[c.path].entries = 0 /\ c.path \in DOMAIN block /\ block[c.path].routed BY <1>1, FusedIs
<1>3. ASSUME NEW d \in Accepted PROVE d \in FusedHere /\ d.path = c.path
  <2>1. d \in Containers BY AcceptedFound
  <2>2. d.path = c.path BY <1>1, <2>1, OnePath
  <2>3. IsFused(d)
    <3>1. ~IsFused(d) => block[d.path].entries > 0 BY <2>1, ListIs
    <3> QED BY <1>2, <2>2, <3>1
  <2> QED BY <2>2, <2>3 DEF FusedHere
<1>4. NoName \notin DOMAIN block BY DEF WellBuilt, ChildrenFit
<1> QED BY <1>1, <1>2, <1>3, <1>4 DEF NoCall

(***************************************************************************)
(* Every step keeps it.                                                    *)
(***************************************************************************)
\* What is loaded is bound after a step that takes nothing else away.
LEMMA KeepsLoaded ==
  ASSUME UNCHANGED model, loaded' \subseteq Units, \A u \in loaded' : TensorsOf(u) \subseteq bound'
  PROVE  LoadedIsBound'
BY Fixed, FixedOf DEF LoadedIsBound

\* The layer is visited: nothing is routed yet, or the choice is known to nobody.
LEMMA StartStep == ASSUME MixtureInv, Start PROVE MixtureInv'
<1>1. /\ ~active /\ active' /\ UNCHANGED <<slot, moved, running>> /\ UNCHANGED model
      /\ loaded' = loaded \cup {LayerUnit}
      /\ bound' = bound \cup UNION {TensorsOf(u) : u \in {LayerUnit} \ loaded}
  BY DEF Start, Acquire
<1>2. \/ layer.called /\ todo' = Always /\ chosen' = Unknown /\ form' = "none"
      \/ /\ ~layer.called /\ form' = "direct"
         /\ \E choice \in Selections : /\ chosen' = choice
                                   /\ todo' = (Always \ {<<layer.scorer, Absent>>}) \cup Routed(choice)
  BY DEF Start
<1>3. WellBuilt /\ WellBuilt' BY <1>1, StaysBuilt DEF MixtureInv
<1>4. /\ Units' = Units /\ Experts' = Experts /\ FusedHere' = FusedHere /\ layer' = layer
      /\ \A call : CallFits(call)' <=> CallFits(call)
  BY <1>1, Fixed, FixedOf
<1>5. running = NoCall /\ running' = NoCall BY <1>1 DEF MixtureInv, InForward
<1>6. LoadedIsBound'
  <2>1. LoadedIsBound BY DEF MixtureInv
  <2>2. loaded' \subseteq Units BY <1>1, <2>1 DEF LoadedIsBound, Units
  <2>3. ASSUME NEW u \in loaded' PROVE TensorsOf(u) \subseteq bound'
    <3>1. CASE u \in loaded BY <1>1, <2>1, <3>1 DEF LoadedIsBound
    <3>2. CASE u \in {LayerUnit} \ loaded BY <1>1, <3>2
    <3> QED BY <1>1, <3>1, <3>2
  <2> QED BY <1>1, <2>2, <2>3, KeepsLoaded
<1>7. ASSUME NEW call \in todo'
      PROVE  CallFits(call)
  <2>1. CASE call \in Always BY <1>3, <2>1, AlwaysFits
  <2>2. CASE ~layer.called /\ \E choice \in Selections : call \in Routed(choice)
    <3>1. PICK choice \in Selections : call \in Routed(choice) BY <2>2
    <3>2. choice \in SUBSET Experts BY <1>3, ChoiceIs
    <3> QED BY <1>3, <3>1, <3>2, RoutedFits
  <2> QED BY <1>2, <2>1, <2>2
<1>8. CallsFit'
  <2>1. chosen' \subseteq Experts BY <1>2, <1>3, ChoiceIs DEF Unknown
  <2>2. form' # "scores" BY <1>2
  <2> QED BY <1>4, <1>7, <2>1, <2>2 DEF CallsFit
<1>9. InForward'
  <2>1. LayerUnit \in loaded' BY <1>1
  <2>2. \A call \in todo' : running' # call
    <3>1. NoName \notin DOMAIN block BY <1>3 DEF WellBuilt, ChildrenFit
    <3> QED BY <1>5, <1>7, <3>1 DEF CallFits, NoCall
  <2> QED BY <1>1, <1>5, <2>1, <2>2 DEF InForward
<1>10. SilentRouter'
  <2> SUFFICES ASSUME NEW c \in FusedHere, ~layer.called
               PROVE  <<layer.scorer, Absent>> \notin todo' /\ form' # "scores"
    BY <1>4 DEF SilentRouter
  <2>1. ~block[layer.scorer].routed BY <1>3, FusedIs, FusedAlone
  <2>2. PICK choice \in Selections : todo' = (Always \ {<<layer.scorer, Absent>>}) \cup Routed(choice) BY <1>2
  <2>3. choice \in SUBSET Experts BY <1>3, ChoiceIs
  <2>4. <<layer.scorer, Absent>> \notin Routed(choice)
    <3> SUFFICES ASSUME <<layer.scorer, Absent>> \in Routed(choice) PROVE FALSE OBVIOUS
    <3>1. block[<<layer.scorer, Absent>>[1]].routed BY <1>3, <2>3, RoutedFits
    <3> QED BY <2>1, <3>1
  <2> QED BY <1>2, <2>2, <2>4
<1>11. SelectionIsNew'
  <2> SUFFICES ASSUME NEW c \in FusedHere
               PROVE  /\ ~layer.called => slot' = Unknown
                      /\ <<c.path, Absent>> \in todo' \ {running'} =>
                            slot' = IF form' = "scores" THEN chosen' ELSE Unknown
    BY <1>4 DEF SelectionIsNew, Unknown
  <2>1. ~layer.called => slot' = Unknown BY <1>1 DEF MixtureInv, SelectionIsNew
  <2>2. CASE layer.called
    <3>1. block[c.path].routed BY <1>3, FusedAlone
    <3>2. <<c.path, Absent>> \notin Always
      <4> SUFFICES ASSUME <<c.path, Absent>> \in Always PROVE FALSE OBVIOUS
      <4>1. ~block[<<c.path, Absent>>[1]].routed BY <1>3, AlwaysFits
      <4> QED BY <3>1, <4>1
    <3> QED BY <1>2, <2>2, <3>2
  <2>3. CASE ~layer.called BY <1>2, <2>1, <2>3
  <2> QED BY <2>2, <2>3
<1>12. RowsAreBound' BY <1>3, <1>4, <1>5, FusedAlone DEF RowsAreBound
<1> QED BY <1>3, <1>6, <1>8, <1>9, <1>10, <1>11, <1>12 DEF MixtureInv

\* The model calls a module: its hook loads the module's unit, or the rows of the container.
LEMMA EnterStep == ASSUME MixtureInv, NEW call \in todo, Enter(call) PROVE MixtureInv'
<1> DEFINE units == UnitOf(call)
           read == bound \cup UNION {TensorsOf(u) : u \in units \ loaded}
<1>1. /\ active /\ running = NoCall /\ running' = call /\ loaded' = loaded \cup units
      /\ UNCHANGED <<active, todo, chosen, form>> /\ UNCHANGED model
  BY DEF Enter
<1>2. \/ FusedAt(call) = {} /\ bound' = read /\ UNCHANGED <<slot, moved>>
      \/ \E c \in FusedAt(call) :
           /\ slot' = Unknown /\ moved' = Placed(c)
           /\ bound' = (read \ Homed(c.path)) \cup Placed(c)
  BY DEF Enter, Taken
<1>3. WellBuilt /\ WellBuilt' BY <1>1, StaysBuilt DEF MixtureInv
<1>4. /\ FusedHere' = FusedHere /\ Experts' = Experts /\ layer' = layer
      /\ \A cl : CallFits(cl)' <=> CallFits(cl)
      /\ \A cl : UnitOf(cl)' = UnitOf(cl)
      /\ \A c, choice : RowsOf(c, choice)' = RowsOf(c, choice)
  BY <1>1, Fixed, FixedOf
<1>5. LoadedIsBound /\ InForward /\ CallsFit /\ SilentRouter /\ SelectionIsNew BY DEF MixtureInv
<1>6. CallFits(call) BY <1>5 DEF CallsFit
<1>7. ASSUME NEW c \in FusedAt(call)
      PROVE  c \in FusedHere /\ call = <<c.path, Absent>>
  BY <1>3, <1>6, FusedUses
<1>8. LoadedIsBound'
  <2>1. loaded' \subseteq Units BY <1>1, <1>5 DEF LoadedIsBound, UnitOf
  <2>2. ASSUME NEW u \in loaded' PROVE TensorsOf(u) \subseteq read
    <3>1. CASE u \in loaded BY <1>5, <3>1 DEF LoadedIsBound
    <3>2. CASE u \in units \ loaded BY <3>2
    <3> QED BY <1>1, <3>1, <3>2
  <2> HIDE DEF units, read
  <2>3. ASSUME NEW u \in loaded' PROVE TensorsOf(u) \subseteq bound'
    <3>1. CASE bound' = read BY <2>2, <3>1
    <3>2. ASSUME NEW c \in FusedAt(call), bound' = (read \ Homed(c.path)) \cup Placed(c)
          PROVE  TensorsOf(u) \subseteq bound'
      <4>1. TensorsOf(u) \cap Homed(c.path) = {} BY <1>3, <1>7, <2>1, RowsApart
      <4> QED BY <2>2, <3>2, <4>1
    <3> QED BY <1>2, <3>1, <3>2
  <2> QED BY <1>1, <2>1, <2>3, KeepsLoaded
<1>9. InForward'
  <2>1. LayerUnit \in loaded' BY <1>1, <1>5 DEF InForward
  <2>2. \A cl \in todo' : running' = cl => UnitOf(cl)' \subseteq loaded' BY <1>1, <1>4
  <2> QED BY <1>1, <2>1, <2>2 DEF InForward
<1>10. CallsFit' BY <1>1, <1>4, <1>5 DEF CallsFit, Unknown
<1>11. SilentRouter' BY <1>1, <1>4, <1>5 DEF SilentRouter
<1>12. SelectionIsNew'
  <2> SUFFICES ASSUME NEW c \in FusedHere
               PROVE  /\ ~layer.called => slot' = Unknown
                      /\ <<c.path, Absent>> \in todo' \ {running'} =>
                            slot' = IF form' = "scores" THEN chosen' ELSE Unknown
    BY <1>4 DEF SelectionIsNew, Unknown
  <2>1. <<c.path, Absent>> # NoCall BY <1>3, FusedAlone
  <2>2. CASE UNCHANGED slot BY <1>1, <1>5, <2>1, <2>2 DEF SelectionIsNew
  <2>3. CASE slot' = Unknown /\ \E d \in FusedAt(call) : TRUE
    <3>1. PICK d \in FusedAt(call) : TRUE BY <2>3
    <3>2. d \in Accepted /\ call = <<d.path, Absent>> BY <1>7 DEF FusedHere
    <3>3. d.path = c.path BY <1>3, <3>2, FusedAlone
    <3> QED BY <1>1, <2>3, <3>2, <3>3
  <2> QED BY <1>2, <2>2, <2>3
<1>13. RowsAreBound'
  <2> SUFFICES ASSUME NEW c \in FusedHere, call = <<c.path, Absent>>
               PROVE  /\ RowsOf(c, chosen) \subseteq bound'
                      /\ form = "scores" => moved' = RowsOf(c, chosen)
    <3>1. \A name : Homed(name)' = Homed(name) BY <1>1, FixedOf
    <3> QED BY <1>1, <3>1, Fixed DEF RowsAreBound, RowsOf
  <2>1. c \in FusedAt(call) BY DEF FusedAt, FusedHere
  <2>2. PICK d \in FusedAt(call) : moved' = Placed(d) /\ Placed(d) \subseteq bound' BY <1>2, <2>1
  <2>3. d \in Accepted /\ d \in Containers /\ IsFused(d) BY AcceptedFound DEF FusedAt
  <2>4. d.path = c.path BY <1>3, <2>3, FusedAlone
  <2>5. call # NoCall BY <1>3, FusedAlone
  <2>6. slot = IF form = "scores" THEN chosen ELSE Unknown BY <1>1, <1>5, <2>5 DEF SelectionIsNew
  <2>7. d.experts = block[d.path].rows /\ HasAllRows(block[d.path]) BY <1>3, <2>3, FusedIs
  <2>8. chosen \subseteq 0..(d.experts - 1) BY <1>5, <2>7 DEF CallsFit, HasAllRows
  <2>9. chosen \subseteq Rows(d) BY <2>6, <2>8 DEF Rows
  <2>10. RowsOf(c, chosen) \subseteq Placed(d) BY <2>4, <2>9 DEF RowsOf, Placed
  <2>11. form = "scores" => Rows(d) = chosen BY <1>5, <2>6 DEF Rows, CallsFit
  <2>12. form = "scores" => Placed(d) = RowsOf(c, chosen) BY <2>4, <2>11 DEF RowsOf, Placed
  <2> QED BY <2>2, <2>10, <2>12
<1> QED BY <1>3, <1>8, <1>9, <1>10, <1>11, <1>12, <1>13 DEF MixtureInv

\* A module returns: rows go, and a router's hook keeps its choice.
LEMMA LeaveStep == ASSUME MixtureInv, Leave PROVE MixtureInv'
<1>1. /\ running # NoCall /\ running' = NoCall /\ UNCHANGED <<loaded, active>> /\ UNCHANGED model
      /\ bound' = bound \ UNION {Homed(c.path) : c \in FusedAt(running)}
  BY DEF Leave
<1>2. PICK choice, output :
        /\ slot' = IF Watching(running) = {} THEN slot ELSE Observed(output, choice)
        /\ \/ Scores(running) /\ choice \in Selections /\ Routes(choice) /\ form' = output
           \/ ~Scores(running) /\ todo' = todo \ {running} /\ UNCHANGED <<chosen, form>>
  BY DEF Leave
<1>3. WellBuilt /\ WellBuilt' BY <1>1, StaysBuilt DEF MixtureInv
<1>4. /\ FusedHere' = FusedHere /\ Experts' = Experts /\ layer' = layer
      /\ \A cl : CallFits(cl)' <=> CallFits(cl)
  BY <1>1, Fixed, FixedOf
<1>5. LoadedIsBound /\ InForward /\ CallsFit /\ SilentRouter /\ SelectionIsNew BY DEF MixtureInv
<1>6. running \in todo /\ active BY <1>1, <1>5 DEF InForward
<1>7. ASSUME Scores(running)
      PROVE  /\ chosen' = choice /\ choice \subseteq Experts /\ choice # Unknown /\ form' = output
             /\ \E walked \in SUBSET Experts : todo' = (todo \ {running}) \cup Routed(walked)
  <2>1. choice \subseteq Experts /\ choice # Unknown BY <1>2, <1>3, <1>7, ChoiceIs
  <2> QED BY <1>2, <1>7, <2>1 DEF Routes
<1>8. LoadedIsBound'
  <2>1. loaded' \subseteq Units BY <1>1, <1>5 DEF LoadedIsBound
  <2>2. ASSUME NEW u \in loaded', NEW c \in FusedAt(running)
        PROVE  TensorsOf(u) \cap Homed(c.path) = {}
    <3>1. c \in FusedHere BY DEF FusedAt, FusedHere
    <3> QED BY <1>3, <2>1, <3>1, RowsApart
  <2>3. \A u \in loaded' : TensorsOf(u) \subseteq bound BY <1>1, <1>5 DEF LoadedIsBound
  <2>4. \A u \in loaded' : TensorsOf(u) \subseteq bound' BY <1>1, <2>2, <2>3
  <2> QED BY <1>1, <2>1, <2>4, KeepsLoaded
<1>9. CallsFit'
  <2>1. \A cl \in todo : CallFits(cl) BY <1>5 DEF CallsFit
  <2>2. CASE Scores(running)
    <3>1. PICK walked \in SUBSET Experts : todo' = (todo \ {running}) \cup Routed(walked) BY <1>7, <2>2
    <3>2. \A cl \in Routed(walked) : CallFits(cl) BY <1>3, RoutedFits
    <3> QED BY <1>4, <1>7, <2>1, <2>2, <3>1, <3>2 DEF CallsFit, Unknown
  <2>3. CASE ~Scores(running) BY <1>2, <1>4, <1>5, <2>1, <2>3 DEF CallsFit, Unknown
  <2> QED BY <2>2, <2>3
<1>10. InForward'
  <2>1. NoCall \notin todo'
    <3>1. \A cl \in todo' : CallFits(cl) BY <1>4, <1>9 DEF CallsFit
    <3>2. NoName \notin DOMAIN block BY <1>3 DEF WellBuilt, ChildrenFit
    <3> QED BY <3>1, <3>2 DEF CallFits, NoCall
  <2>2. LayerUnit \in loaded' /\ active' BY <1>1, <1>5, <1>6 DEF InForward
  <2> QED BY <1>1, <2>1, <2>2 DEF InForward
\* With rows in the layer, the router is the module that scores.
<1>11. ASSUME NEW c \in FusedHere
       PROVE  /\ Scores(running) => layer.called /\ slot' = Observed(output, choice)
              /\ ~Scores(running) => slot' = slot
  <2>1. c \in Accepted /\ HooksRouter(c) /\ c.router = layer.scorer BY <1>3, FusedAlone, FusedIs DEF FusedHere
  <2>2. ASSUME Scores(running) PROVE layer.called BY <1>5, <1>6, <2>2 DEF SilentRouter, Scores
  <2>3. ASSUME Scores(running) PROVE Watching(running) # {} BY <2>1, <2>3 DEF Scores, Watching
  <2>4. ASSUME NEW d \in Watching(running) PROVE Scores(running)
    <3>1. d \in FusedHere /\ running = <<d.router, Absent>> BY <1>3, FusedAlone DEF Watching
    <3>2. d.router = layer.scorer BY <1>3, <3>1, FusedAlone, FusedIs
    <3> QED BY <3>1, <3>2 DEF Scores
  <2> QED BY <1>2, <2>2, <2>3, <2>4
<1>12. SilentRouter'
  <2> SUFFICES ASSUME NEW c \in FusedHere, ~layer.called
               PROVE  <<layer.scorer, Absent>> \notin todo' /\ form' # "scores"
    BY <1>4 DEF SilentRouter
  <2>1. ~Scores(running) BY <1>11
  <2> QED BY <1>2, <1>5, <2>1 DEF SilentRouter
<1>13. SelectionIsNew'
  <2> SUFFICES ASSUME NEW c \in FusedHere
               PROVE  /\ ~layer.called => slot' = Unknown
                      /\ <<c.path, Absent>> \in todo' \ {running'} =>
                            slot' = IF form' = "scores" THEN chosen' ELSE Unknown
    BY <1>4 DEF SelectionIsNew, Unknown
  <2>1. CASE Scores(running) BY <1>7, <1>11, <2>1 DEF Observed
  <2>2. CASE ~Scores(running) BY <1>2, <1>5, <1>11, <2>2 DEF SelectionIsNew
  <2> QED BY <2>1, <2>2
<1>14. RowsAreBound' BY <1>1, <1>3, <1>4, FusedAlone DEF RowsAreBound
<1> QED BY <1>3, <1>8, <1>9, <1>10, <1>12, <1>13, <1>14 DEF MixtureInv

\* The forward ends, or dies: no module runs and none is to be called.
LEMMA StopStep ==
  ASSUME MixtureInv, ~active', todo' = {}, running' = NoCall,
         UNCHANGED <<model, loaded, bound, slot, moved, chosen, form>>
  PROVE  MixtureInv'
<1>1. UNCHANGED model OBVIOUS
<1>2. WellBuilt /\ WellBuilt' BY <1>1, StaysBuilt DEF MixtureInv
<1>3. /\ FusedHere' = FusedHere /\ Experts' = Experts /\ Units' = Units /\ layer' = layer
      /\ \A u : TensorsOf(u)' = TensorsOf(u)
  BY <1>1, Fixed, FixedOf
<1>4. LoadedIsBound' BY <1>3 DEF MixtureInv, LoadedIsBound
<1>5. InForward' BY DEF InForward
<1>6. CallsFit' BY <1>3 DEF MixtureInv, CallsFit, Unknown
<1>7. SilentRouter' BY <1>3 DEF MixtureInv, SilentRouter
<1>8. SelectionIsNew' BY <1>3 DEF MixtureInv, SelectionIsNew, Unknown
<1>9. RowsAreBound' BY <1>2, <1>3, FusedAlone DEF RowsAreBound
<1> QED BY <1>2, <1>4, <1>5, <1>6, <1>7, <1>8, <1>9 DEF MixtureInv

\* The cache takes a unit away that nothing running has claimed.
LEMMA EvictStep == ASSUME MixtureInv, NEW unit \in loaded, Evict(unit) PROVE MixtureInv'
<1>1. /\ unit \notin Claimed /\ loaded' = loaded \ {unit} /\ bound' = bound \ TensorsOf(unit)
      /\ UNCHANGED <<slot, moved, active, todo, running, chosen, form>> /\ UNCHANGED model
  BY DEF Evict
<1>2. WellBuilt /\ WellBuilt' BY <1>1, StaysBuilt DEF MixtureInv
<1>3. /\ FusedHere' = FusedHere /\ Experts' = Experts /\ layer' = layer /\ block' = block
      /\ \A cl : CallFits(cl)' <=> CallFits(cl)
      /\ \A cl : UnitOf(cl)' = UnitOf(cl)
  BY <1>1, Fixed, FixedOf
<1>4. LoadedIsBound /\ InForward /\ CallsFit /\ SilentRouter /\ SelectionIsNew /\ RowsAreBound BY DEF MixtureInv
<1>5. LoadedIsBound'
  <2>1. loaded' \subseteq Units /\ unit \in Units BY <1>1, <1>4 DEF LoadedIsBound
  <2>2. ASSUME NEW u \in loaded' PROVE TensorsOf(u) \subseteq bound'
    <3>1. TensorsOf(u) \subseteq bound /\ u # unit BY <1>1, <1>4 DEF LoadedIsBound
    <3>2. TensorsOf(u) \cap TensorsOf(unit) = {} BY <1>2, <2>1, <3>1, UnitsApart
    <3> QED BY <1>1, <3>1, <3>2
  <2> QED BY <1>1, <2>1, <2>2, KeepsLoaded
<1>6. InForward'
  <2>1. active => LayerUnit \in loaded' BY <1>1, <1>4 DEF InForward, Claimed
  <2>2. \A cl \in todo : running = cl => UnitOf(cl) \subseteq loaded' BY <1>1, <1>4 DEF InForward, Claimed
  <2> QED BY <1>1, <1>3, <1>4, <2>1, <2>2 DEF InForward
<1>7. CallsFit' BY <1>1, <1>3, <1>4 DEF CallsFit, Unknown
<1>8. SilentRouter' BY <1>1, <1>3, <1>4 DEF SilentRouter
<1>9. SelectionIsNew' BY <1>1, <1>3, <1>4 DEF SelectionIsNew, Unknown
<1>10. RowsAreBound'
  <2> SUFFICES ASSUME NEW c \in FusedHere, running = <<c.path, Absent>>
               PROVE  /\ RowsOf(c, chosen) \subseteq bound'
                      /\ form = "scores" => moved = RowsOf(c, chosen)
    <3>1. \A name : Homed(name)' = Homed(name) BY <1>1, FixedOf
    <3> QED BY <1>1, <1>3, <3>1 DEF RowsAreBound, RowsOf
  <2>1. RowsOf(c, chosen) \subseteq bound /\ (form = "scores" => moved = RowsOf(c, chosen))
    BY <1>4 DEF RowsAreBound
  <2>2. TensorsOf(unit) \cap Homed(c.path) = {}
    <3>1. unit \in Units BY <1>4 DEF LoadedIsBound
    <3> QED BY <1>2, <3>1, RowsApart
  <2> QED BY <1>1, <2>1, <2>2 DEF RowsOf
<1> QED BY <1>2, <1>5, <1>6, <1>7, <1>8, <1>9, <1>10 DEF MixtureInv

\* Nothing moves.
LEMMA MixtureIdles == ASSUME MixtureInv, UNCHANGED mixtureVars PROVE MixtureInv'
<1>1. /\ UNCHANGED <<loaded, bound, slot, moved, active, todo, running, chosen, form>> /\ UNCHANGED model
  BY DEF mixtureVars
<1>2. WellBuilt' BY <1>1, StaysBuilt DEF MixtureInv
<1>3. /\ FusedHere' = FusedHere /\ Experts' = Experts /\ Units' = Units /\ layer' = layer /\ block' = block
      /\ \A u : TensorsOf(u)' = TensorsOf(u)
      /\ \A cl : CallFits(cl)' <=> CallFits(cl)
      /\ \A cl : UnitOf(cl)' = UnitOf(cl)
  BY <1>1, Fixed, FixedOf
<1>4. LoadedIsBound' BY <1>1, <1>3 DEF MixtureInv, LoadedIsBound
<1>5. InForward' BY <1>1, <1>3 DEF MixtureInv, InForward
<1>6. CallsFit' BY <1>1, <1>3 DEF MixtureInv, CallsFit, Unknown
<1>7. SilentRouter' BY <1>1, <1>3 DEF MixtureInv, SilentRouter
<1>8. SelectionIsNew' BY <1>1, <1>3 DEF MixtureInv, SelectionIsNew, Unknown
<1>9. RowsAreBound'
  <2>1. \A name : Homed(name)' = Homed(name) BY <1>1, FixedOf
  <2> QED BY <1>1, <1>3, <2>1 DEF MixtureInv, RowsAreBound, RowsOf
<1> QED BY <1>2, <1>4, <1>5, <1>6, <1>7, <1>8, <1>9 DEF MixtureInv

LEMMA MixtureBegins == ASSUME MixtureInit, WellBuilt PROVE MixtureInv
<1>1. /\ loaded = {} /\ slot = Unknown /\ ~active /\ todo = {} /\ running = NoCall
      /\ chosen = Unknown /\ form = "none"
  BY DEF MixtureInit
<1>2. LoadedIsBound BY <1>1 DEF LoadedIsBound
<1>3. InForward /\ CallsFit BY <1>1 DEF InForward, CallsFit, Unknown
<1>4. SilentRouter /\ SelectionIsNew BY <1>1 DEF SilentRouter, SelectionIsNew
<1>5. RowsAreBound BY <1>1, FusedAlone DEF RowsAreBound
<1> QED BY <1>2, <1>3, <1>4, <1>5 DEF MixtureInv

LEMMA MixtureContinues == ASSUME MixtureInv, [MixtureNext]_mixtureVars PROVE MixtureInv'
<1>1. CASE Start BY <1>1, StartStep
<1>2. ASSUME NEW call \in todo, Enter(call) PROVE MixtureInv' BY <1>2, EnterStep
<1>3. CASE Leave BY <1>3, LeaveStep
<1>4. CASE Finish
  <2>1. running = NoCall /\ todo = {} BY <1>4 DEF Finish
  <2> QED BY <1>4, <2>1, StopStep DEF Finish
<1>5. CASE Die BY <1>5, StopStep DEF Die
<1>6. ASSUME NEW u \in loaded, Evict(u) PROVE MixtureInv' BY <1>6, EvictStep
<1>7. CASE UNCHANGED mixtureVars BY <1>7, MixtureIdles
<1> QED BY <1>1, <1>2, <1>3, <1>4, <1>5, <1>6, <1>7 DEF MixtureNext

\* The invariant, along every behaviour of a layer that is built that way.
THEOREM MixtureInvariant == WellBuiltSpec => []MixtureInv
<1>1. WellBuiltInit => MixtureInv BY MixtureBegins DEF WellBuiltInit
<1>2. MixtureInv /\ [MixtureNext]_mixtureVars => MixtureInv' BY MixtureContinues
<1> QED BY <1>1, <1>2, PTL DEF WellBuiltSpec

\* UsedIsBound: whatever a module of the layer uses has its values when the module runs, whichever
\* layout the experts have, in whatever order the modules are called, whatever the cache evicts
\* and wherever an earlier forward died.
THEOREM UsedAreThere == WellBuiltSpec => []UsedIsBound
<1>1. MixtureInv => UsedIsBound
  <2> SUFFICES ASSUME MixtureInv, running # NoCall PROVE Used(running) \subseteq bound BY DEF UsedIsBound
  <2>1. /\ WellBuilt /\ running \in todo /\ CallFits(running) /\ UnitOf(running) \subseteq loaded /\ active
    BY DEF MixtureInv, InForward, CallsFit
  <2>2. CASE FusedAt(running) = {}
    <3>1. \A u \in {LayerUnit} \cup UnitOf(running) : TensorsOf(u) \subseteq bound
      BY <2>1 DEF MixtureInv, InForward, LoadedIsBound
    <3> QED BY <2>1, <2>2, <3>1, CallUses
  <2>3. ASSUME NEW c \in FusedAt(running) PROVE Used(running) \subseteq bound
    <3>1. c \in FusedHere /\ running = <<c.path, Absent>> /\ Used(running) = RowsOf(c, chosen)
      BY <2>1, FusedUses
    <3> QED BY <3>1 DEF MixtureInv, RowsAreBound
  <2> QED BY <2>2, <2>3
<1> QED BY <1>1, MixtureInvariant, PTL

\* OnlyRoutedAreRead: when the router's output can be read, the rows of the chosen experts are
\* read, and no others.
THEOREM OthersAreNotRead == WellBuiltSpec => []OnlyRoutedAreRead
<1>1. MixtureInv => OnlyRoutedAreRead
  <2> SUFFICES ASSUME MixtureInv, running # NoCall, form = "scores", NEW c \in FusedAt(running)
               PROVE  {t[2] : t \in moved} = chosen
    BY DEF OnlyRoutedAreRead
  <2>1. WellBuilt /\ CallFits(running) /\ chosen \subseteq Experts BY DEF MixtureInv, InForward, CallsFit
  <2>2. c \in FusedHere /\ running = <<c.path, Absent>> BY <2>1, FusedUses
  <2>3. moved = RowsOf(c, chosen) BY <2>2 DEF MixtureInv, RowsAreBound
  <2>4. c \in Containers /\ IsFused(c) BY <2>1, <2>2, FusedAlone
  <2>5. ASSUME NEW e \in chosen PROVE \E t \in RowsOf(c, chosen) : t[2] = e
    <3>1. PICK t \in Homed(c.path) : t[2] = e BY <2>1, <2>4, RowsAreHomed
    <3> QED BY <3>1 DEF RowsOf
  <2> QED BY <2>3, <2>5 DEF RowsOf
<1> QED BY <1>1, MixtureInvariant, PTL

================================================================================
