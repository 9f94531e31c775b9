--------------------------- MODULE WeightCacheProofs ---------------------------
(***************************************************************************)
(* What holds of the weight cache for every set of units, every capacity,  *)
(* every plan and every window.                                            *)
(***************************************************************************)
EXTENDS WeightCache, Collections, FiniteSetTheorems, TLAPS

\* The ranks `inserted` is kept by are naturals: a rank is the size of a set of units.
LEMMA RankedType ==
  ASSUME NEW S \in SUBSET Keys
  PROVE  Ranked(S) \in [Keys -> Nat]
<1>1. ASSUME NEW k \in Keys PROVE Cardinality({x \in S : inserted[x] <= inserted[k]}) \in Nat
  <2>1. IsFiniteSet({x \in S : inserted[x] <= inserted[k]})
    BY FS_Subset, CacheAssumption DEF CacheAssumption
  <2> QED BY <2>1, FS_CardinalityType
<1> QED BY <1>1 DEF Ranked

\* Dropping entries leaves every field of every entry of its type.
LEMMA ForgetType ==
  ASSUME TypeOK, NEW S \in SUBSET Keys, Forget(S)
  PROVE  /\ tier' \in [Keys -> Tiers] /\ refcount' \in [Keys -> Nat]
         /\ pinned' \in [Keys -> BOOLEAN]
         /\ uses' \in [Keys -> Nat] /\ inserted' \in [Keys -> Nat]
<1>1. tier' \in [Keys -> Tiers] /\ refcount' \in [Keys -> Nat] /\ uses' \in [Keys -> Nat]
  BY DEF Forget, TypeOK, TypeEntries, Tiers
<1>2. pinned' \in [Keys -> BOOLEAN]
  BY DEF Forget, TypeOK, TypeEntries
<1>3. inserted' \in [Keys -> Nat]
  BY RankedType DEF Forget, Tracked
<1> QED BY <1>1, <1>2, <1>3

\* So does a new entry.
LEMMA EnterType ==
  ASSUME TypeOK, NEW k \in Keys, NEW t \in Tiers, NEW n \in Nat, Enter(k, t, n)
  PROVE  /\ tier' \in [Keys -> Tiers] /\ refcount' \in [Keys -> Nat]
         /\ pinned' \in [Keys -> BOOLEAN] /\ inserted' \in [Keys -> Nat]
<1>1. tier' \in [Keys -> Tiers] /\ refcount' \in [Keys -> Nat] /\ pinned' \in [Keys -> BOOLEAN]
  BY DEF Enter, TypeOK, TypeEntries
<1>2. Cardinality(Tracked) \in Nat
  <2>1. IsFiniteSet(Tracked) BY FS_Subset, CacheAssumption DEF CacheAssumption, Tracked
  <2> QED BY <2>1, FS_CardinalityType
<1>3. Ranked(Tracked) \in [Keys -> Nat] BY RankedType DEF Tracked
<1>4. inserted' \in [Keys -> Nat] BY <1>2, <1>3 DEF Enter
<1> QED BY <1>1, <1>4

\* Popularity stays a natural, halved or not.
LEMMA TouchType ==
  ASSUME TypeOK, NEW k \in Keys, Touch(k)
  PROVE  uses' \in [Keys -> Nat] /\ accesses' \in Nat
<1>1. CASE k \notin Experts BY <1>1 DEF Touch, TypeOK, TypeEntries, TypeRest
<1>2. CASE k \in Experts
  <2>1. Unit \in Nat BY CacheAssumption DEF CacheAssumption
  <2>2. uses \in [Keys -> Nat] /\ accesses \in Nat BY DEF TypeOK, TypeEntries, TypeRest
  <2>3. \A n \in Nat : n \div 2 \in Nat OBVIOUS
  <2>4. \A x \in Keys : uses[x] \in Nat /\ uses[x] + Unit \in Nat BY <2>1, <2>2
  <2>5. accesses' \in Nat BY <1>2, <2>2 DEF Touch
  <2>6. uses' \in [Keys -> Nat] BY <1>2, <2>3, <2>4 DEF Touch
  <2> QED BY <2>5, <2>6
<1> QED BY <1>1, <1>2
\* Collecting a read leaves a sequence of units in flight.
LEMMA TakeType ==
  ASSUME TypeOK, NEW k \in Keys, TakePending(k)
  PROVE  pending' \in Seq(Keys) /\ pendingBytes' \in Int
<1>1. pending \in Seq(Keys) /\ pendingBytes \in Int /\ Size[k] \in Int
  BY CacheAssumption DEF TypeOK, TypeReads, CacheAssumption
<1>2. ASSUME NEW i \in DOMAIN pending PROVE RemoveAt(pending, i) \in Seq(Keys)
  BY <1>1 DEF RemoveAt
<1> QED BY <1>1, <1>2 DEF TakePending

\* So does dropping them all.
LEMMA DropType ==
  ASSUME TypeOK, DropPending
  PROVE  pending' \in Seq(Keys) /\ pendingBytes' \in Int /\ pendingOrdered' \in BOOLEAN
<1>1. pending' \in Seq(Keys) BY DEF DropPending
<1>2. pendingBytes' \in Int BY DEF DropPending, TypeOK, TypeReads
<1>3. pendingOrdered' \in BOOLEAN BY DEF DropPending
<1> QED BY <1>1, <1>2, <1>3

\* What an operation leaves alone keeps its type, and every step of the lock's holder is a job.
LEMMA Same ==
  ASSUME TypeOK
  PROVE  /\ UNCHANGED entryVars => TypeEntries'
         /\ UNCHANGED tierVars => TypeTiers'
         /\ UNCHANGED readVars => TypeReads'
         /\ UNCHANGED <<ownerVars, claims>> => TypeOwner'
         /\ UNCHANGED <<capacity, planned, accesses, job>> => TypeRest'
<1>1. UNCHANGED entryVars => TypeEntries' BY DEF TypeOK, TypeEntries, entryVars
<1>2. UNCHANGED tierVars => TypeTiers' BY DEF TypeOK, TypeTiers, tierVars
<1>3. UNCHANGED readVars => TypeReads' BY DEF TypeOK, TypeReads, readVars
<1>4. UNCHANGED <<ownerVars, claims>> => TypeOwner' BY DEF TypeOK, TypeOwner, ownerVars
<1>5. UNCHANGED <<capacity, planned, accesses, job>> => TypeRest' BY DEF TypeOK, TypeRest
<1> QED BY <1>1, <1>2, <1>3, <1>4, <1>5

\* What a job may hold, for the proofs that follow it.
LEMMA JobTypes ==
  ASSUME TypeOK
  PROVE  /\ Idle \in Jobs
         /\ \A k \in Keys \cup {NoKey} :
              \A at \in {"promote", "admit", "window", "resize", "trim", "clear"} :
                Doing(at, k) \in Jobs
         /\ \A k \in Keys \cup {NoKey} : [job EXCEPT !.victim = k] \in Jobs
<1>1. Idle \in Jobs BY DEF Idle, Jobs
<1>2. \A k \in Keys \cup {NoKey} :
        \A at \in {"promote", "admit", "window", "resize", "trim", "clear"} :
          Doing(at, k) \in Jobs
  BY DEF Doing, Jobs
<1>3. \A k \in Keys \cup {NoKey} : [job EXCEPT !.victim = k] \in Jobs
  BY DEF Jobs, TypeOK, TypeRest
<1> QED BY <1>1, <1>2, <1>3

\* Claims are counted in naturals; binding and discarding leave a Boolean for every unit.
LEMMA OwnerTypes ==
  ASSUME TypeOK
  PROVE  /\ \A k \in Keys : Claimed(k) => claims' \in [Keys -> Nat]
         /\ Unwound => claims' \in [Keys -> Nat]
         /\ \A k \in Keys, c \in BOOLEAN :
              Place(k, c) => /\ bound' \in [Keys -> BOOLEAN] /\ hostCopy' \in [Keys -> BOOLEAN]
                             /\ partly' \in SUBSET Keys
         /\ \A S \in SUBSET Keys :
              Discard(S) => /\ bound' \in [Keys -> BOOLEAN] /\ hostCopy' \in [Keys -> BOOLEAN]
                            /\ partly' \in SUBSET Keys
<1>1. \A k \in Keys : Claimed(k) => claims' \in [Keys -> Nat]
  BY DEF Claimed, TypeOK, TypeOwner
<1>2. Unwound => claims' \in [Keys -> Nat]
  BY DEF Unwound
<1>3. \A k \in Keys, c \in BOOLEAN :
        Place(k, c) => /\ bound' \in [Keys -> BOOLEAN] /\ hostCopy' \in [Keys -> BOOLEAN]
                       /\ partly' \in SUBSET Keys
  BY DEF Place, TypeOK, TypeOwner
<1>4. \A S \in SUBSET Keys :
        Discard(S) => /\ bound' \in [Keys -> BOOLEAN] /\ hostCopy' \in [Keys -> BOOLEAN]
                      /\ partly' \in SUBSET Keys
  BY DEF Discard, TypeOK, TypeOwner
<1> QED BY <1>1, <1>2, <1>3, <1>4

\* Every operation leaves every variable of its type.
THEOREM Typed == Spec => []TypeOK
<1>1. Init => TypeOK
  <2> SUFFICES ASSUME Init PROVE TypeOK
    OBVIOUS
  <2>1. TypeEntries BY DEF Init, TypeEntries, Tiers
  <2>2. TypeTiers /\ TypeReads /\ TypeOwner BY DEF Init, TypeTiers, TypeReads, TypeOwner
  <2>3. TypeRest BY CacheAssumption DEF Init, TypeRest, Jobs, Idle, CacheAssumption
  <2> QED BY <2>1, <2>2, <2>3 DEF TypeOK
<1>2. TypeOK /\ [Next]_vars => TypeOK'
  <2> SUFFICES ASSUME TypeOK, [Next]_vars PROVE TypeOK'
    OBVIOUS
  <2>1. CASE UNCHANGED vars
    BY <2>1, Same DEF vars, TypeOK
  <2>2. ASSUME NEW k \in Keys, AcquireBound(k) PROVE TypeOK'
    <3>1. TypeTiers' /\ TypeReads' BY <2>2, Same DEF AcquireBound
    <3>2. TypeEntries' BY <2>2, TouchType DEF AcquireBound, TypeOK, TypeEntries, entryVars
    <3>3. TypeOwner' BY <2>2, OwnerTypes DEF AcquireBound, TypeOK, TypeOwner, ownerVars
    <3>4. TypeRest' BY <2>2, TouchType DEF AcquireBound, TypeOK, TypeRest
    <3> QED BY <3>1, <3>2, <3>3, <3>4 DEF TypeOK
  <2>3. ASSUME NEW k \in Keys, AcquireHosted(k) PROVE TypeOK'
    <3>1. TypeEntries' /\ TypeReads' /\ TypeOwner' BY <2>3, Same DEF AcquireHosted
    <3>2. TypeTiers' BY <2>3, CacheAssumption DEF AcquireHosted, TypeOK, TypeTiers, CacheAssumption
    <3>3. TypeRest' BY <2>3, JobTypes DEF AcquireHosted, TypeOK, TypeRest
    <3> QED BY <3>1, <3>2, <3>3 DEF TypeOK
  <2>4. ASSUME NEW k \in Keys, AcquireMissing(k) PROVE TypeOK'
    <3>1. TypeEntries' /\ TypeTiers' BY <2>4, Same DEF AcquireMissing
    <3>2. TypeReads' BY <2>4, TakeType DEF AcquireMissing, TypeOK, TypeReads, TakePending
    <3>3. TypeOwner' BY <2>4, OwnerTypes DEF AcquireMissing, TypeOK, TypeOwner
    <3>4. TypeRest' BY <2>4, JobTypes DEF AcquireMissing, TypeOK, TypeRest
    <3> QED BY <3>1, <3>2, <3>3, <3>4 DEF TypeOK
  <2>5. ASSUME NEW k \in Keys, AcquireFails(k) PROVE TypeOK'
    <3>1. TypeEntries' /\ TypeTiers' /\ TypeRest' BY <2>5, Same DEF AcquireFails
    <3>2. TypeReads' BY <2>5, TakeType DEF AcquireFails, TypeOK, TypeReads, TakePending
    <3>3. TypeOwner' BY <2>5, OwnerTypes DEF AcquireFails, PlaceRaises, TypeOK, TypeOwner, ownerVars
    <3> QED BY <3>1, <3>2, <3>3 DEF TypeOK
  <2>6. ASSUME NEW k \in Keys, BeginDemotion(k) PROVE TypeOK'
    <3>1. TypeEntries' /\ TypeReads' /\ TypeOwner' BY <2>6, Same DEF BeginDemotion
    <3>2. TypeTiers' BY <2>6, CacheAssumption DEF BeginDemotion, TypeOK, TypeTiers, CacheAssumption
    <3>3. TypeRest' BY <2>6, JobTypes DEF BeginDemotion, TypeOK, TypeRest
    <3> QED BY <3>1, <3>2, <3>3 DEF TypeOK
  <2>7. ASSUME NEW k \in Keys, EvictHosted(k) PROVE TypeOK'
    <3>1. TypeReads' /\ TypeOwner' /\ TypeRest' BY <2>7, Same DEF EvictHosted
    <3>2. TypeEntries' BY <2>7, ForgetType DEF EvictHosted, TypeOK, TypeEntries
    <3>3. TypeTiers' BY <2>7, CacheAssumption DEF EvictHosted, TypeOK, TypeTiers, CacheAssumption
    <3> QED BY <3>1, <3>2, <3>3 DEF TypeOK
  <2>8. ASSUME NEW k \in Keys, DemoteToHost(k) PROVE TypeOK'
    <3>1. TypeReads' BY <2>8, Same DEF DemoteToHost
    <3>2. TypeEntries' BY <2>8 DEF DemoteToHost, TypeOK, TypeEntries, Tiers
    <3>3. TypeTiers' BY <2>8, CacheAssumption DEF DemoteToHost, TypeOK, TypeTiers, CacheAssumption
    <3>4. TypeOwner' BY <2>8 DEF DemoteToHost, TypeOK, TypeOwner
    <3>5. TypeRest' BY <2>8, JobTypes DEF DemoteToHost, TypeOK, TypeRest
    <3> QED BY <3>1, <3>2, <3>3, <3>4, <3>5 DEF TypeOK
  <2>9. ASSUME NEW k \in Keys, DemoteToStorage(k) PROVE TypeOK'
    <3>1. TypeTiers' /\ TypeReads' BY <2>9, Same DEF DemoteToStorage
    <3>2. TypeEntries' BY <2>9, ForgetType DEF DemoteToStorage, TypeOK, TypeEntries
    <3>3. TypeOwner' BY <2>9, OwnerTypes DEF DemoteToStorage, TypeOK, TypeOwner
    <3>4. TypeRest' BY <2>9, JobTypes DEF DemoteToStorage, TypeOK, TypeRest
    <3> QED BY <3>1, <3>2, <3>3, <3>4 DEF TypeOK
  <2>10. ASSUME NEW k \in Keys, Promote(k) PROVE TypeOK'
    <3>1. TypeReads' BY <2>10, Same DEF Promote
    <3>2. TypeEntries' BY <2>10, TouchType DEF Promote, TypeOK, TypeEntries, Tiers
    <3>3. TypeTiers' BY <2>10, CacheAssumption DEF Promote, TypeOK, TypeTiers, AddToDevice,
        CacheAssumption
    <3>4. TypeOwner' BY <2>10, OwnerTypes DEF Promote, TypeOK, TypeOwner
    <3>5. TypeRest' BY <2>10, TouchType, JobTypes DEF Promote, TypeOK, TypeRest
    <3> QED BY <3>1, <3>2, <3>3, <3>4, <3>5 DEF TypeOK
  <2>11. ASSUME NEW k \in Keys, PromoteFails(k) PROVE TypeOK'
    <3>1. TypeEntries' /\ TypeTiers' /\ TypeReads' BY <2>11, Same DEF PromoteFails
    <3>2. TypeOwner' BY <2>11, OwnerTypes DEF PromoteFails, PlaceRaises, TypeOK, TypeOwner, ownerVars
    <3>3. TypeRest' BY <2>11, JobTypes DEF PromoteFails, TypeOK, TypeRest
    <3> QED BY <3>1, <3>2, <3>3 DEF TypeOK
  <2>12. ASSUME NEW k \in Keys, AdmitTransient(k) PROVE TypeOK'
    <3>1. TypeTiers' /\ TypeReads' BY <2>12, Same DEF AdmitTransient
    <3>2. TypeEntries' BY <2>12, EnterType, TouchType DEF AdmitTransient, TypeEntries, Tiers
    <3>3. TypeOwner' BY <2>12, OwnerTypes DEF AdmitTransient, TypeOK, TypeOwner, ownerVars
    <3>4. TypeRest' BY <2>12, TouchType, JobTypes DEF AdmitTransient, TypeOK, TypeRest
    <3> QED BY <3>1, <3>2, <3>3, <3>4 DEF TypeOK
  <2>13. ASSUME NEW k \in Keys, AdmitExpert(k) PROVE TypeOK'
    <3>1. TypeReads' BY <2>13, Same DEF AdmitExpert
    <3>2. TypeEntries' BY <2>13, EnterType, TouchType DEF AdmitExpert, TypeEntries, Tiers
    <3>3. TypeTiers' BY <2>13, CacheAssumption DEF AdmitExpert, TypeOK, TypeTiers, AddToDevice,
        CacheAssumption
    <3>4. TypeOwner' BY <2>13, OwnerTypes DEF AdmitExpert, TypeOK, TypeOwner, ownerVars
    <3>5. TypeRest' BY <2>13, TouchType, JobTypes DEF AdmitExpert, TypeOK, TypeRest
    <3> QED BY <3>1, <3>2, <3>3, <3>4, <3>5 DEF TypeOK
  <2>14. ASSUME NEW k \in Keys, AdmitDense(k) PROVE TypeOK'
    <3>1. TypeReads' /\ TypeOwner' BY <2>14, Same DEF AdmitDense
    <3>2. TypeEntries' BY <2>14, EnterType DEF AdmitDense, TypeOK, TypeEntries, Tiers
    <3>3. TypeTiers' BY <2>14, CacheAssumption DEF AdmitDense, TypeOK, TypeTiers, AddToDevice,
        CacheAssumption
    <3>4. TypeRest' BY <2>14, JobTypes DEF AdmitDense, TypeOK, TypeRest
    <3> QED BY <3>1, <3>2, <3>3, <3>4 DEF TypeOK
  <2>15. ASSUME NEW k \in Keys, ClaimAdmitted(k) PROVE TypeOK'
    <3>1. TypeTiers' /\ TypeReads' BY <2>15, Same DEF ClaimAdmitted
    <3>2. TypeEntries' BY <2>15 DEF ClaimAdmitted, TypeOK, TypeEntries
    <3>3. TypeOwner' BY <2>15, OwnerTypes DEF ClaimAdmitted, TypeOK, TypeOwner, ownerVars
    <3>4. TypeRest' BY <2>15, JobTypes DEF ClaimAdmitted, TypeOK, TypeRest
    <3> QED BY <3>1, <3>2, <3>3, <3>4 DEF TypeOK
  <2>16. ASSUME NEW k \in Keys, Release(k) PROVE TypeOK'
    <3>1. TypeTiers' /\ TypeReads' /\ TypeRest' BY <2>16, Same DEF Release
    <3>2. TypeEntries' BY <2>16, ForgetType DEF Release, CountDown, TypeOK, TypeEntries
    <3>3. TypeOwner' BY <2>16, OwnerTypes DEF Release, TypeOK, TypeOwner, ownerVars
    <3> QED BY <3>1, <3>2, <3>3 DEF TypeOK
  <2>17. ASSUME NEW k \in Keys, Prefetch(k) PROVE TypeOK'
    <3>1. TypeEntries' /\ TypeTiers' /\ TypeOwner' BY <2>17, Same DEF Prefetch
    <3>2. TypeReads' BY <2>17, CacheAssumption DEF Prefetch, TypeOK, TypeReads, CacheAssumption
    <3>3. TypeRest' BY <2>17, JobTypes DEF Prefetch, TypeOK, TypeRest
    <3> QED BY <3>1, <3>2, <3>3 DEF TypeOK
  <2>18. ASSUME NEW k \in Keys, ClearEntry(k) PROVE TypeOK'
    <3>1. TypeReads' /\ TypeRest' BY <2>18, Same DEF ClearEntry, Clearable, Tracked
    <3>2. TypeEntries' BY <2>18, ForgetType DEF ClearEntry, Clearable, Tracked, TypeOK, TypeEntries
    <3>3. TypeTiers' BY <2>18, CacheAssumption DEF ClearEntry, Clearable, Tracked, TypeOK,
         TypeTiers, CacheAssumption
    <3>4. TypeOwner' BY <2>18, OwnerTypes DEF ClearEntry, Clearable, Tracked, TypeOK, TypeOwner
    <3> QED BY <3>1, <3>2, <3>3, <3>4 DEF TypeOK
  <2>19. ASSUME ForwardFails PROVE TypeOK'
    <3>1. TypeEntries' /\ TypeTiers' /\ TypeReads' /\ TypeRest' BY <2>19, Same DEF ForwardFails
    <3>2. TypeOwner' BY <2>19, OwnerTypes DEF ForwardFails, TypeOK, TypeOwner, ownerVars
    <3> QED BY <3>1, <3>2 DEF TypeOK
  <2>20. ASSUME DropStalest PROVE TypeOK'
    <3>1. TypeEntries' /\ TypeTiers' /\ TypeOwner' /\ TypeRest' BY <2>20, Same DEF DropStalest
    <3>3. pending \in Seq(Keys) /\ pending # << >> /\ pendingBytes \in Int
      BY <2>20, EmptySeq DEF DropStalest, TypeOK, TypeReads, TooMuchInFlight
    <3>4. Tail(pending) \in Seq(Keys) /\ Head(pending) \in Keys BY <3>3
    <3>5. Size[Head(pending)] \in Nat BY <3>4, CacheAssumption DEF CacheAssumption
    <3>2. TypeReads' BY <2>20, <3>3, <3>4, <3>5 DEF DropStalest, TypeOK, TypeReads
    <3> QED BY <3>1, <3>2 DEF TypeOK
  <2>21. ASSUME DropStalestRaises PROVE TypeOK'
    <3>1. TypeEntries' /\ TypeTiers' /\ TypeReads' BY <2>21, Same DEF DropStalestRaises
    <3>2. TypeOwner' BY <2>21, OwnerTypes DEF DropStalestRaises, TypeOK, TypeOwner, ownerVars
    <3>3. TypeRest' BY <2>21, JobTypes DEF DropStalestRaises, TypeOK, TypeRest
    <3> QED BY <3>1, <3>2, <3>3 DEF TypeOK
  <2>22. ASSUME PrefetchStarted PROVE TypeOK'
    <3>1. TypeEntries' /\ TypeTiers' /\ TypeReads' /\ TypeOwner' BY <2>22, Same DEF PrefetchStarted
    <3>2. TypeRest' BY <2>22, JobTypes DEF PrefetchStarted, TypeOK, TypeRest
    <3> QED BY <3>1, <3>2 DEF TypeOK
  <2>23. ASSUME NEW P \in Plans, ApplyPlan(P) PROVE TypeOK'
    <3>1. TypeTiers' /\ TypeReads' /\ TypeOwner' BY <2>23, Same DEF ApplyPlan
    <3>2. TypeEntries' BY <2>23 DEF ApplyPlan, TypeOK, TypeEntries
    <3>3. TypeRest' BY <2>23, CacheAssumption DEF ApplyPlan, TypeOK, TypeRest, CacheAssumption
    <3> QED BY <3>1, <3>2, <3>3 DEF TypeOK
  <2>24. ASSUME NEW c \in Capacities, Resize(c) PROVE TypeOK'
    <3>1. TypeEntries' /\ TypeTiers' /\ TypeReads' /\ TypeOwner' BY <2>24, Same DEF Resize
    <3>2. TypeRest' BY <2>24, CacheAssumption, JobTypes DEF Resize, TypeOK, TypeRest,
        CacheAssumption
    <3> QED BY <3>1, <3>2 DEF TypeOK
  <2>25. ASSUME Resized PROVE TypeOK'
    <3>1. TypeEntries' /\ TypeTiers' /\ TypeReads' /\ TypeOwner' BY <2>25, Same DEF Resized
    <3>2. TypeRest' BY <2>25, JobTypes DEF Resized, TypeOK, TypeRest
    <3> QED BY <3>1, <3>2 DEF TypeOK
  <2>26. ASSUME Clear PROVE TypeOK'
    <3>1. TypeEntries' /\ TypeTiers' /\ TypeOwner' BY <2>26, Same DEF Clear
    <3>2. TypeReads' BY <2>26, DropType DEF Clear, TypeOK, TypeReads
    <3>3. TypeRest' BY <2>26, JobTypes DEF Clear, TypeOK, TypeRest
    <3> QED BY <3>1, <3>2, <3>3 DEF TypeOK
  <2>27. ASSUME Close PROVE TypeOK'
    <3>1. TypeEntries' /\ TypeTiers' /\ TypeOwner' BY <2>27, Same DEF Close
    <3>2. TypeReads' BY <2>27, DropType DEF Close, TypeOK, TypeReads
    <3>3. TypeRest' BY <2>27, JobTypes DEF Close, TypeOK, TypeRest
    <3> QED BY <3>1, <3>2, <3>3 DEF TypeOK
  <2>28. ASSUME Cleared PROVE TypeOK'
    <3>1. TypeEntries' /\ TypeTiers' /\ TypeReads' /\ TypeOwner' BY <2>28, Same DEF Cleared
    <3>2. TypeRest' BY <2>28, JobTypes DEF Cleared, TypeOK, TypeRest
    <3> QED BY <3>1, <3>2 DEF TypeOK
  <2> QED BY <2>1, <2>2, <2>3, <2>4, <2>5, <2>6, <2>7, <2>8, <2>9, <2>10, <2>11, <2>12, <2>13,
    <2>14, <2>15, <2>16, <2>17, <2>18, <2>19, <2>20, <2>21, <2>22, <2>23, <2>24, <2>25, <2>26,
    <2>27, <2>28 DEF Next
<1> QED BY <1>1, <1>2, PTL DEF Spec

-------------------------------------------------------------------------------
(* Weights are bound exactly where the cache says so. *)

\* Where the holder of the lock is, against what it is working on.
JobOK ==
  /\ job.at \in {"idle", "trim", "clear"} => job.victim = NoKey
  /\ job.at \in {"promote", "admit", "window"} => job.key \in Keys
  /\ job.at = "promote" => tier[job.key] = "host" /\ job.key \notin inHost
  /\ job.at = "admit" => tier[job.key] = "storage"
  /\ job.victim # NoKey => tier[job.victim] = "device" /\ Evictable(job.victim)

\* A module has its weights while an entry of it is on the device, and while a miss is admitted.
BoundHere ==
  \A k \in Keys : bound[k] <=> \/ tier[k] \in {"device", "transient"}
                               \/ job.at = "admit" /\ job.key = k

\* The tier dicts hold what the entries say, but for the entry on its way between them.
DictsOK ==
  /\ inDevice = {k \in Keys : tier[k] = "device" /\ k # job.victim}
  /\ inHost \subseteq {k \in Keys : tier[k] = "host"}

Coherent == JobOK /\ DictsOK /\ BoundHere

\* A record with one field replaced, field by field.
LEMMA JobFields ==
  ASSUME TypeOK
  PROVE  /\ job.at \in {"idle", "promote", "admit", "window", "resize", "trim", "clear"}
         /\ job.key \in Keys \cup {NoKey} /\ job.victim \in Keys \cup {NoKey}
         /\ \A v : /\ [job EXCEPT !.victim = v].at = job.at
                   /\ [job EXCEPT !.victim = v].key = job.key
                   /\ [job EXCEPT !.victim = v].victim = v
         /\ \A at, k : Doing(at, k).at = at /\ Doing(at, k).key = k
                         /\ Doing(at, k).victim = NoKey
         /\ Idle.at = "idle" /\ Idle.key = NoKey /\ Idle.victim = NoKey
         /\ NoKey \notin Keys
BY CacheAssumption DEF TypeOK, TypeRest, Jobs, Doing, Idle, CacheAssumption

\* The operations keep the entries, the dicts and the bound weights in step with one another.
LEMMA CoherentStep == TypeOK /\ TypeOK' /\ Coherent /\ [Next]_vars => Coherent'
<1> SUFFICES ASSUME TypeOK, TypeOK', Coherent, [Next]_vars PROVE Coherent'
  OBVIOUS
<1>1. CASE UNCHANGED vars
  BY <1>1 DEF vars, Coherent, JobOK, DictsOK, BoundHere, Evictable, entryVars, tierVars,
       ownerVars
<1>2. ASSUME NEW k \in Keys, AcquireBound(k) PROVE Coherent'
  <2>1. JobOK' BY <1>2, JobFields DEF AcquireBound, MayClaim, JobOK
  <2>2. DictsOK' BY <1>2, JobFields DEF AcquireBound, tierVars, Coherent, DictsOK
  <2>3. BoundHere' BY <1>2, JobFields DEF AcquireBound, MayClaim, Claimed, entryVars, tierVars,
      ownerVars, TypeOK, TypeEntries, TypeTiers, TypeOwner, Coherent, JobOK, DictsOK, BoundHere
  <2> QED BY <2>1, <2>2, <2>3 DEF Coherent
<1>3. ASSUME NEW k \in Keys, AcquireHosted(k) PROVE Coherent'
  <2>1. JobOK' BY <1>3, JobFields DEF AcquireHosted, MayClaim, entryVars, tierVars, ownerVars,
      TypeOK, TypeEntries, TypeTiers, TypeOwner, Coherent, JobOK, DictsOK, Evictable
  <2>2. DictsOK' BY <1>3, JobFields DEF AcquireHosted, MayClaim, entryVars, Coherent, DictsOK
  <2>3. BoundHere' BY <1>3, JobFields DEF AcquireHosted, MayClaim, entryVars, ownerVars,
      Coherent, BoundHere
  <2> QED BY <2>1, <2>2, <2>3 DEF Coherent
<1>4. ASSUME NEW k \in Keys, AcquireMissing(k) PROVE Coherent'
  <2>1. JobOK' BY <1>4, JobFields DEF AcquireMissing, entryVars, JobOK
  <2>2. DictsOK' BY <1>4, JobFields DEF AcquireMissing, MayClaim, entryVars, tierVars, Coherent,
      DictsOK
  <2>3. BoundHere' BY <1>4, JobFields DEF AcquireMissing, MayClaim, Place, entryVars, TypeOK,
      TypeOwner, Coherent, BoundHere
  <2> QED BY <2>1, <2>2, <2>3 DEF Coherent
<1>5. ASSUME NEW k \in Keys, AcquireFails(k) PROVE Coherent'
  <2>1. JobOK' BY <1>5, JobFields DEF AcquireFails, MayClaim, JobOK
  <2>2. DictsOK' BY <1>5, JobFields DEF AcquireFails, entryVars, tierVars, Coherent, DictsOK
  <2>3. BoundHere' BY <1>5, JobFields DEF AcquireFails, PlaceRaises, entryVars, ownerVars, Coherent,
      BoundHere
  <2> QED BY <2>1, <2>2, <2>3 DEF Coherent
<1>6. ASSUME NEW k \in Keys, BeginDemotion(k) PROVE Coherent'
  <2>1. JobOK' BY <1>6, JobFields DEF BeginDemotion, Victims, NextVictim, EvictableHere,
      WindowVictim, InWindow, Coldest, Oldest, Evictable, entryVars, Coherent, JobOK, DictsOK
  <2>2. DictsOK' BY <1>6, JobFields DEF BeginDemotion, entryVars, Coherent, DictsOK
  <2>3. BoundHere' BY <1>6, JobFields DEF BeginDemotion, entryVars, ownerVars, Coherent,
      BoundHere
  <2> QED BY <2>1, <2>2, <2>3 DEF Coherent
<1>7. ASSUME NEW k \in Keys, EvictHosted(k) PROVE Coherent'
  <2>1. JobOK' BY <1>7, JobFields DEF EvictHosted, Forget, HostVictim, HostEvictable, Coldest,
      Oldest, TypeOK, TypeEntries, Coherent, JobOK, DictsOK, Evictable
  <2>2. DictsOK' BY <1>7, JobFields DEF EvictHosted, Forget, HostVictim, HostEvictable, Coldest,
      Oldest, Coherent, DictsOK
  <2>3. BoundHere' BY <1>7, JobFields DEF EvictHosted, Forget, HostVictim, HostEvictable,
      Coldest, Oldest, ownerVars, Coherent, DictsOK, BoundHere
  <2> QED BY <2>1, <2>2, <2>3 DEF Coherent
<1>8. ASSUME NEW k \in Keys, DemoteToHost(k) PROVE Coherent'
  <2>1. JobOK' BY <1>8, JobFields DEF DemoteToHost, Coherent, JobOK
  <2>2. DictsOK' BY <1>8, JobFields DEF DemoteToHost, TypeOK, TypeEntries, Coherent, DictsOK
  <2>3. BoundHere' BY <1>8, JobFields DEF DemoteToHost, TypeOK, TypeEntries, TypeOwner, Coherent,
      JobOK, BoundHere
  <2> QED BY <2>1, <2>2, <2>3 DEF Coherent
<1>9. ASSUME NEW k \in Keys, DemoteToStorage(k) PROVE Coherent'
  <2>1. JobOK' BY <1>9, JobFields DEF DemoteToStorage, Forget, tierVars, Coherent, JobOK
  <2>2. DictsOK' BY <1>9, JobFields DEF DemoteToStorage, Forget, tierVars, Coherent, JobOK, DictsOK
  <2>3. BoundHere'
    <3>1. ASSUME NEW x \in Keys PROVE
           bound'[x] <=> (tier'[x] \in {"device", "transient"}
                          \/ (job'.at = "admit" /\ job'.key = x))
      <4>1. job'.at = job.at /\ job'.key = job.key
        BY <1>9, JobFields DEF DemoteToStorage
      <4>2. CASE x = k
        <5>1. ~bound'[x] /\ tier'[x] = "storage"
          BY <1>9, <4>2 DEF DemoteToStorage, Forget, Discard
        <5>2. ~(job.at = "admit" /\ job.key = x)
          BY <1>9, <4>2 DEF DemoteToStorage, HostRoomMade, Coherent, JobOK
        <5> QED BY <4>1, <5>1, <5>2
      <4>3. CASE x # k
        <5>1. (bound'[x] <=> bound[x]) /\ tier'[x] = tier[x]
          BY <1>9, <4>3 DEF DemoteToStorage, Forget, Discard
        <5> QED BY <4>1, <5>1 DEF Coherent, BoundHere
      <4> QED BY <4>2, <4>3
    <3> QED BY <3>1 DEF BoundHere
  <2> QED BY <2>1, <2>2, <2>3 DEF Coherent
<1>10. ASSUME NEW k \in Keys, Promote(k) PROVE Coherent'
  <2>1. JobOK' BY <1>10, JobFields DEF Promote, JobOK
  <2>2. DictsOK' BY <1>10, JobFields DEF Promote, RoomMade, AddToDevice, TypeOK, TypeEntries,
      Coherent, JobOK, DictsOK
  <2>3. BoundHere' BY <1>10, JobFields DEF Promote, Place, TypeOK, TypeEntries, TypeOwner,
      Coherent, BoundHere
  <2> QED BY <2>1, <2>2, <2>3 DEF Coherent
<1>11. ASSUME NEW k \in Keys, PromoteFails(k) PROVE Coherent'
  <2>1. JobOK' BY <1>11, JobFields DEF PromoteFails, JobOK
  <2>2. DictsOK' BY <1>11, JobFields DEF PromoteFails, RoomMade, entryVars, tierVars, Coherent,
      DictsOK
  <2>3. BoundHere' BY <1>11, JobFields DEF PromoteFails, PlaceRaises, RoomMade, entryVars, ownerVars,
      Coherent, BoundHere
  <2> QED BY <2>1, <2>2, <2>3 DEF Coherent
<1>12. ASSUME NEW k \in Keys, AdmitTransient(k) PROVE Coherent'
  <2>1. JobOK' BY <1>12, JobFields DEF AdmitTransient, JobOK
  <2>2. DictsOK' BY <1>12, JobFields DEF AdmitTransient, RoomMade, Enter, tierVars, Coherent, JobOK,
      DictsOK
  <2>3. BoundHere' BY <1>12, JobFields DEF AdmitTransient, RoomMade, Enter, ownerVars, TypeOK,
      TypeEntries, Coherent, BoundHere
  <2> QED BY <2>1, <2>2, <2>3 DEF Coherent
<1>13. ASSUME NEW k \in Keys, AdmitExpert(k) PROVE Coherent'
  <2>1. JobOK' BY <1>13, JobFields DEF AdmitExpert, JobOK
  <2>2. DictsOK' BY <1>13, JobFields DEF AdmitExpert, RoomMade, Enter, AddToDevice, TypeOK,
      TypeEntries, Coherent, JobOK, DictsOK
  <2>3. BoundHere' BY <1>13, JobFields DEF AdmitExpert, RoomMade, Enter, ownerVars, TypeOK,
      TypeEntries, Coherent, BoundHere
  <2> QED BY <2>1, <2>2, <2>3 DEF Coherent
<1>14. ASSUME NEW k \in Keys, AdmitDense(k) PROVE Coherent'
  <2>1. JobOK' BY <1>14, JobFields DEF AdmitDense, JobOK
  <2>2. DictsOK' BY <1>14, JobFields DEF AdmitDense, RoomMade, Enter, AddToDevice, TypeOK,
      TypeEntries, Coherent, JobOK, DictsOK
  <2>3. BoundHere' BY <1>14, JobFields DEF AdmitDense, RoomMade, Enter, ownerVars, TypeOK,
      TypeEntries, Coherent, BoundHere
  <2> QED BY <2>1, <2>2, <2>3 DEF Coherent
<1>15. ASSUME NEW k \in Keys, ClaimAdmitted(k) PROVE Coherent'
  <2>1. JobOK' BY <1>15, JobFields DEF ClaimAdmitted, JobOK
  <2>2. DictsOK' BY <1>15, JobFields DEF ClaimAdmitted, RoomMade, tierVars, Coherent, DictsOK
  <2>3. BoundHere' BY <1>15, JobFields DEF ClaimAdmitted, RoomMade, ownerVars, Coherent,
      BoundHere
  <2> QED BY <2>1, <2>2, <2>3 DEF Coherent
<1>16. ASSUME NEW k \in Keys, Release(k) PROVE Coherent'
  <2>1. JobOK' BY <1>16, JobFields DEF Release, JobOK
  <2>2. DictsOK' BY <1>16, JobFields DEF Release, Forget, tierVars, Coherent, DictsOK
  <2>3. BoundHere' BY <1>16, JobFields DEF Release, Forget, Discard, ownerVars, TypeOK,
      TypeOwner, Coherent, BoundHere
  <2> QED BY <2>1, <2>2, <2>3 DEF Coherent
<1>17. ASSUME NEW k \in Keys, Prefetch(k) PROVE Coherent'
  <2>1. JobOK' BY <1>17, JobFields DEF Prefetch, JobOK, DictsOK
  <2>2. DictsOK' BY <1>17, JobFields DEF Prefetch, entryVars, tierVars, Coherent, JobOK, DictsOK
  <2>3. BoundHere' BY <1>17, JobFields DEF Prefetch, entryVars, ownerVars, Coherent, DictsOK,
      BoundHere
  <2> QED BY <2>1, <2>2, <2>3 DEF Coherent
<1>18. ASSUME NEW k \in Keys, ClearEntry(k) PROVE Coherent'
  <2>1. JobOK' BY <1>18, JobFields DEF ClearEntry, Clearable, Tracked, Coherent, JobOK
  <2>2. DictsOK' BY <1>18, JobFields DEF ClearEntry, Clearable, Tracked, Forget, Coherent, DictsOK
  <2>3. BoundHere' BY <1>18, JobFields DEF ClearEntry, Clearable, Tracked, Forget, Discard,
       entryVars, tierVars,
      ownerVars, TypeOK, TypeEntries, TypeTiers, TypeOwner, Coherent, JobOK, DictsOK, BoundHere
  <2> QED BY <2>1, <2>2, <2>3 DEF Coherent
<1>19. ASSUME ForwardFails PROVE Coherent'
  <2>1. JobOK' BY <1>19, JobFields DEF ForwardFails, JobOK
  <2>2. DictsOK' BY <1>19, JobFields DEF ForwardFails, entryVars, tierVars, Coherent, DictsOK
  <2>3. BoundHere' BY <1>19, JobFields DEF ForwardFails, entryVars, ownerVars, Coherent,
      BoundHere
  <2> QED BY <2>1, <2>2, <2>3 DEF Coherent
<1>20. ASSUME DropStalest PROVE Coherent'
  <2>1. JobOK' BY <1>20, JobFields DEF DropStalest, Coherent, JobOK
  <2>2. DictsOK' BY <1>20, JobFields DEF DropStalest, entryVars, tierVars, Coherent, DictsOK
  <2>3. BoundHere' BY <1>20, JobFields DEF DropStalest, entryVars, ownerVars, Coherent, JobOK,
      DictsOK, BoundHere
  <2> QED BY <2>1, <2>2, <2>3 DEF Coherent
<1>21. ASSUME DropStalestRaises PROVE Coherent'
  <2>1. JobOK' BY <1>21, JobFields DEF DropStalestRaises, JobOK
  <2>2. DictsOK' BY <1>21, JobFields DEF DropStalestRaises, entryVars, tierVars, Coherent, JobOK,
      DictsOK
  <2>3. BoundHere' BY <1>21, JobFields DEF DropStalestRaises, entryVars, ownerVars, Coherent,
      BoundHere
  <2> QED BY <2>1, <2>2, <2>3 DEF Coherent
<1>22. ASSUME PrefetchStarted PROVE Coherent'
  <2>1. JobOK' BY <1>22, JobFields DEF PrefetchStarted, JobOK
  <2>2. DictsOK' BY <1>22, JobFields DEF PrefetchStarted, entryVars, tierVars, Coherent, JobOK,
      DictsOK
  <2>3. BoundHere' BY <1>22, JobFields DEF PrefetchStarted, entryVars, ownerVars, Coherent,
      BoundHere
  <2> QED BY <2>1, <2>2, <2>3 DEF Coherent
<1>23. ASSUME NEW P \in Plans, ApplyPlan(P) PROVE Coherent'
  <2>1. JobOK' BY <1>23, JobFields DEF ApplyPlan, JobOK
  <2>2. DictsOK' BY <1>23, JobFields DEF ApplyPlan, tierVars, Coherent, DictsOK
  <2>3. BoundHere' BY <1>23, JobFields DEF ApplyPlan, ownerVars, Coherent, BoundHere
  <2> QED BY <2>1, <2>2, <2>3 DEF Coherent
<1>24. ASSUME NEW c \in Capacities, Resize(c) PROVE Coherent'
  <2>1. JobOK' BY <1>24, JobFields DEF Resize, JobOK
  <2>2. DictsOK' BY <1>24, JobFields DEF Resize, entryVars, tierVars, Coherent, DictsOK
  <2>3. BoundHere' BY <1>24, JobFields DEF Resize, entryVars, ownerVars, Coherent, BoundHere
  <2> QED BY <2>1, <2>2, <2>3 DEF Coherent
<1>25. ASSUME Resized PROVE Coherent'
  <2>1. JobOK' BY <1>25, JobFields DEF Resized, JobOK
  <2>2. DictsOK' BY <1>25, JobFields DEF Resized, RoomMade, entryVars, tierVars, Coherent, DictsOK
  <2>3. BoundHere' BY <1>25, JobFields DEF Resized, RoomMade, entryVars, ownerVars, Coherent,
      BoundHere
  <2> QED BY <2>1, <2>2, <2>3 DEF Coherent
<1>26. ASSUME Clear PROVE Coherent'
  <2>1. JobOK' BY <1>26, JobFields DEF Clear, JobOK
  <2>2. DictsOK' BY <1>26, JobFields DEF Clear, entryVars, tierVars, Coherent, DictsOK
  <2>3. BoundHere' BY <1>26, JobFields DEF Clear, entryVars, ownerVars, Coherent, BoundHere
  <2> QED BY <2>1, <2>2, <2>3 DEF Coherent
<1>27. ASSUME Close PROVE Coherent'
  <2>1. JobOK' BY <1>27, JobFields DEF Close, JobOK
  <2>2. DictsOK' BY <1>27, JobFields DEF Close, entryVars, tierVars, Coherent, DictsOK
  <2>3. BoundHere' BY <1>27, JobFields DEF Close, entryVars, ownerVars, Coherent, BoundHere
  <2> QED BY <2>1, <2>2, <2>3 DEF Coherent
<1>28. ASSUME Cleared PROVE Coherent'
  <2>1. JobOK' BY <1>28, JobFields DEF Cleared, JobOK
  <2>2. DictsOK' BY <1>28, JobFields DEF Cleared, entryVars, tierVars, Coherent, JobOK, DictsOK
  <2>3. BoundHere' BY <1>28, JobFields DEF Cleared, entryVars, ownerVars, Coherent, BoundHere
  <2> QED BY <2>1, <2>2, <2>3 DEF Coherent
<1> QED BY <1>1, <1>2, <1>3, <1>4, <1>5, <1>6, <1>7, <1>8, <1>9, <1>10, <1>11, <1>12, <1>13,
<1>14, <1>15, <1>16, <1>17, <1>18, <1>19, <1>20, <1>21, <1>22, <1>23, <1>24, <1>25, <1>26,
<1>27, <1>28 DEF Next

\* Coherent is an invariant of the cache, whatever fails.
LEMMA AlwaysCoherent == Spec => []Coherent
<1>1. Init => Coherent
  BY DEF Init, Coherent, JobOK, DictsOK, BoundHere, Idle
<1> QED BY <1>1, CoherentStep, Typed, PTL DEF Spec

\* What the cache does not know of is what a placement that raised has left, and it goes with the
\* next one of the same unit that does not.
Leftover == \A k \in partly : ~bound[k] /\ "place_fails" \in Events

\* Binding a unit takes it off the leftovers, and nothing is left of a unit that is bound.
LEMMA LeftoverStep ==
  ASSUME TypeOK, Coherent, Leftover, [Next]_vars
  PROVE  Leftover'
<1>1. CASE UNCHANGED <<bound, partly>> BY <1>1 DEF Leftover
<1>2. ASSUME NEW k \in Keys, AcquireMissing(k) \/ Promote(k) PROVE Leftover'
  <2>1. partly' = partly \ {k} /\ \A x \in Keys \ {k} : bound'[x] = bound[x]
    BY <1>2 DEF AcquireMissing, Promote, Place, TypeOK, TypeOwner
  <2> QED BY <2>1 DEF Leftover, TypeOK, TypeOwner
<1>3. ASSUME NEW k \in Keys, PlaceRaises(k), ~bound[k] PROVE Leftover'
  BY <1>3 DEF PlaceRaises, Leftover
<1>4. ASSUME NEW k \in Keys, AcquireFails(k) PROVE ~bound[k]
  BY <1>4, JobFields DEF AcquireFails, MayClaim, Coherent, BoundHere
<1>5. ASSUME NEW k \in Keys, PromoteFails(k) PROVE ~bound[k]
  BY <1>5 DEF PromoteFails, RoomMade, Coherent, JobOK, BoundHere
<1>6. ASSUME NEW k \in Keys, Release(k) \/ DemoteToHost(k) \/ DemoteToStorage(k) \/ ClearEntry(k)
      PROVE  Leftover'
  <2>1. UNCHANGED partly /\ \A x \in Keys : bound'[x] => bound[x]
    BY <1>6 DEF Release, DemoteToHost, DemoteToStorage, ClearEntry, Clearable, Tracked, Discard,
      ownerVars, TypeOK, TypeOwner
  <2> QED BY <2>1 DEF Leftover, TypeOK, TypeOwner
<1>7. UNCHANGED <<bound, partly>> \/ \E k \in Keys :
        \/ AcquireMissing(k) \/ Promote(k) \/ (AcquireFails(k) /\ PlaceRaises(k))
        \/ (PromoteFails(k) /\ PlaceRaises(k))
        \/ Release(k) \/ DemoteToHost(k) \/ DemoteToStorage(k) \/ ClearEntry(k)
  BY DEF Next, vars, ownerVars, AcquireBound, AcquireHosted, AcquireFails, BeginDemotion,
    EvictHosted, PromoteFails, AdmitTransient, AdmitExpert, AdmitDense, ClaimAdmitted, Prefetch,
    ForwardFails, DropStalest, DropStalestRaises, PrefetchStarted, ApplyPlan, Resize, Resized,
    Clear, Close, Cleared
<1> QED BY <1>1, <1>2, <1>3, <1>4, <1>5, <1>6, <1>7

\* Leftover is an invariant, whatever fails.
LEMMA AlwaysLeftover == Spec => []Leftover
<1>1. Init => Leftover BY DEF Init, Leftover
<1> QED BY <1>1, LeftoverStep, Typed, AlwaysCoherent, PTL DEF Spec

\* Weights are bound exactly while the cache holds their unit: no operation, failing or not,
\* leaves a module with weights nobody will discard, or takes them from one still on the device.
\* The exception is named: what a placement that raised half way has left behind, and no run
\* without such a placement has any of it.
THEOREM BoundKnown == Spec => []BoundIsKnown
<1>1. Coherent /\ Leftover => BoundIsKnown
  BY DEF Coherent, BoundHere, Leftover, BoundIsKnown
<1> QED BY <1>1, AlwaysCoherent, AlwaysLeftover, PTL

-------------------------------------------------------------------------------
(* The byte counters are the bytes of the dicts. *)

BytesAgree ==
  /\ deviceBytes = SumFunctionOnSet(Size, inDevice)
  /\ hostBytes = SumFunctionOnSet(Size, inHost)

\* What a unit that leaves a tier, or comes into it, does to the bytes of the tier.
LEMMA TierBytes ==
  ASSUME NEW S \in SUBSET Keys, NEW k \in Keys
  PROVE  /\ SumFunctionOnSet(Size, S) \in Nat
         /\ k \in S => SumFunctionOnSet(Size, S \ {k}) = SumFunctionOnSet(Size, S) - Size[k]
         /\ k \notin S => /\ SumFunctionOnSet(Size, S \ {k}) = SumFunctionOnSet(Size, S)
                          /\ SumFunctionOnSet(Size, S \cup {k}) = SumFunctionOnSet(Size, S) + Size[k]
<1>1. IsFiniteSet(S) /\ IsFiniteSet(S \ {k}) BY FS_Subset, CacheAssumption DEF CacheAssumption
<1>2. \A x \in Keys : Size[x] \in Nat BY CacheAssumption DEF CacheAssumption
<1>3. SumFunctionOnSet(Size, S) \in Nat BY <1>1, <1>2, SumType
<1>4. SumFunctionOnSet(Size, S \ {k}) \in Nat BY <1>1, <1>2, SumType
<1>5. k \in S => SumFunctionOnSet(Size, S) = Size[k] + SumFunctionOnSet(Size, S \ {k})
  BY <1>1, <1>2, SumRemove
<1>6. k \notin S => SumFunctionOnSet(Size, S \cup {k}) = SumFunctionOnSet(Size, S) + Size[k]
  BY <1>1, <1>2, SumAdd
<1>7. k \notin S => SumFunctionOnSet(Size, S \ {k}) = SumFunctionOnSet(Size, S)
  <2>1. k \notin S => S \ {k} = S OBVIOUS
  <2> QED BY <2>1
<1>8. k \in S => SumFunctionOnSet(Size, S \ {k}) = SumFunctionOnSet(Size, S) - Size[k]
  BY <1>2, <1>3, <1>4, <1>5
<1> QED BY <1>3, <1>6, <1>7, <1>8

\* Every operation that moves a unit moves its bytes with it, and no other.
LEMMA BytesStep ==
  ASSUME TypeOK, Coherent, BytesAgree, [Next]_vars
  PROVE  BytesAgree'
<1>1. CASE UNCHANGED tierVars BY <1>1 DEF tierVars, BytesAgree
<1>2. inDevice \in SUBSET Keys /\ inHost \in SUBSET Keys BY DEF TypeOK, TypeTiers
<1>3. ASSUME NEW k \in Keys, AcquireHosted(k) PROVE BytesAgree'
  BY <1>2, <1>3, TierBytes DEF AcquireHosted, BytesAgree
<1>4. ASSUME NEW k \in Keys, BeginDemotion(k) PROVE BytesAgree'
  <2>1. k \in inDevice
    BY <1>4 DEF BeginDemotion, Victims, NextVictim, EvictableHere, WindowVictim, InWindow, Coldest,
      Oldest
  <2> QED BY <1>2, <1>4, <2>1, TierBytes DEF BeginDemotion, BytesAgree
<1>5. ASSUME NEW k \in Keys, EvictHosted(k) PROVE BytesAgree'
  <2>1. k \in inHost BY <1>5 DEF EvictHosted, HostVictim, HostEvictable, Coldest, Oldest
  <2> QED BY <1>2, <1>5, <2>1, TierBytes DEF EvictHosted, BytesAgree
<1>6. ASSUME NEW k \in Keys, DemoteToHost(k) PROVE BytesAgree'
  <2>1. k \notin inHost
    BY <1>6 DEF DemoteToHost, HostRoomMade, Coherent, JobOK, DictsOK
  <2> QED BY <1>2, <1>6, <2>1, TierBytes DEF DemoteToHost, BytesAgree
<1>7. ASSUME NEW k \in Keys, Promote(k) \/ AdmitExpert(k) \/ AdmitDense(k) PROVE BytesAgree'
  <2>1. k \notin inDevice
    BY <1>7 DEF Promote, AdmitExpert, AdmitDense, RoomMade, Coherent, JobOK, DictsOK
  <2>2. AddToDevice(k) BY <1>7 DEF Promote, AdmitExpert, AdmitDense
  <2> QED BY <1>2, <2>1, <2>2, TierBytes DEF AddToDevice, BytesAgree
<1>8. ASSUME NEW k \in Keys, ClearEntry(k) PROVE BytesAgree'
  BY <1>2, <1>8, TierBytes DEF ClearEntry, BytesAgree
<1>9. UNCHANGED tierVars \/ \E k \in Keys :
        \/ AcquireHosted(k) \/ BeginDemotion(k) \/ EvictHosted(k) \/ DemoteToHost(k)
        \/ Promote(k) \/ AdmitExpert(k) \/ AdmitDense(k) \/ ClearEntry(k)
  BY DEF Next, vars, AcquireBound, AcquireMissing, AcquireFails, DemoteToStorage, PromoteFails,
    AdmitTransient, ClaimAdmitted, Release, Prefetch, ForwardFails, DropStalest,
    DropStalestRaises, PrefetchStarted, ApplyPlan, Resize, Resized, Clear, Close, Cleared
<1> QED BY <1>1, <1>3, <1>4, <1>5, <1>6, <1>7, <1>8, <1>9

\* BytesAgree is an invariant, whatever fails.
LEMMA AlwaysCountingBytes == Spec => []BytesAgree
<1>1. Init => BytesAgree
  <2>1. SumFunctionOnSet(Size, {}) = 0 BY SumOfNone
  <2> QED BY <2>1 DEF Init, BytesAgree
<1> QED BY <1>1, BytesStep, Typed, AlwaysCoherent, PTL DEF Spec

\* The entries, the tier dicts and the byte counters every admission decision is taken from agree,
\* for every set of units and sizes, and through every failure, clear and close.
THEOREM TiersInStep == Spec => []TiersAgree
<1>1. Coherent /\ BytesAgree => TiersAgree
  BY DEF Coherent, DictsOK, BytesAgree, TiersAgree
<1> QED BY <1>1, AlwaysCoherent, AlwaysCountingBytes, PTL

-------------------------------------------------------------------------------
(* Nothing leaves the device while it is pinned or in use. *)

\* One step of the cache, from a coherent state.
LEMMA ProtectedStep ==
  ASSUME TypeOK, Coherent, [Next]_vars, NEW k \in Keys, Protected(k)
  PROVE  Stays(k)
<1>1. CASE UNCHANGED entryVars
  BY <1>1 DEF Stays, Protected, entryVars
<1>2. ASSUME NEW x \in Keys, AcquireBound(x) PROVE Stays(k)
  BY <1>2 DEF AcquireBound, Stays, Protected, Evictable, TypeOK, TypeEntries
<1>3. ASSUME NEW x \in Keys, EvictHosted(x) PROVE Stays(k)
  BY <1>3 DEF EvictHosted, Stays, Protected, Evictable, TypeOK, TypeEntries, Forget, HostVictim,
    HostEvictable, Coldest, Oldest, Coherent, DictsOK
<1>4. ASSUME NEW x \in Keys, DemoteToHost(x) PROVE Stays(k)
  BY <1>4 DEF DemoteToHost, Stays, Protected, Evictable, TypeOK, TypeEntries, HostRoomMade,
    Coherent, JobOK
<1>5. ASSUME NEW x \in Keys, DemoteToStorage(x) PROVE Stays(k)
  BY <1>5 DEF DemoteToStorage, Stays, Protected, Evictable, TypeOK, TypeEntries, HostRoomMade,
    Forget, Coherent, JobOK
<1>6. ASSUME NEW x \in Keys, Promote(x) PROVE Stays(k)
  BY <1>6 DEF Promote, Stays, Protected, Evictable, TypeOK, TypeEntries
<1>7. ASSUME NEW x \in Keys, AdmitTransient(x) PROVE Stays(k)
  BY <1>7 DEF AdmitTransient, Stays, Protected, Evictable, TypeOK, TypeEntries, RoomMade, Enter,
    Coherent, JobOK
<1>8. ASSUME NEW x \in Keys, AdmitExpert(x) PROVE Stays(k)
  BY <1>8 DEF AdmitExpert, Stays, Protected, Evictable, TypeOK, TypeEntries, Enter
<1>9. ASSUME NEW x \in Keys, AdmitDense(x) PROVE Stays(k)
  BY <1>9 DEF AdmitDense, Stays, Protected, Evictable, TypeOK, TypeEntries, Enter
<1>10. ASSUME NEW x \in Keys, ClaimAdmitted(x) PROVE Stays(k)
  BY <1>10 DEF ClaimAdmitted, Stays, Protected, Evictable, TypeOK, TypeEntries
<1>11. ASSUME NEW x \in Keys, Release(x) PROVE Stays(k)
  BY <1>11 DEF Release, Stays, Protected, Evictable, TypeOK, TypeEntries, Forget
<1>12. ASSUME NEW x \in Keys, ClearEntry(x) PROVE Stays(k)
  BY <1>12 DEF ClearEntry, Clearable, Tracked, Stays, Protected, Evictable, TypeOK, TypeEntries,
       Forget
<1>13. ASSUME NEW P \in Plans, ApplyPlan(P) PROVE Stays(k)
  BY <1>13 DEF ApplyPlan, Stays, Protected, Evictable, TypeOK, TypeEntries
<1>14. UNCHANGED entryVars \/ (\E x \in Keys : AcquireBound(x)) \/ (\E x \in Keys : EvictHosted(x))
      \/ (\E x \in Keys : DemoteToHost(x)) \/ (\E x \in Keys : DemoteToStorage(x)) \/ (\E x \in
      Keys : Promote(x)) \/ (\E x \in Keys : AdmitTransient(x)) \/ (\E x \in Keys : AdmitExpert(x))
      \/ (\E x \in Keys : AdmitDense(x)) \/ (\E x \in Keys : ClaimAdmitted(x)) \/ (\E x \in Keys :
      Release(x)) \/ (\E x \in Keys : ClearEntry(x)) \/ (\E P \in Plans : ApplyPlan(P))
  BY DEF Next, vars, AcquireHosted, AcquireMissing, AcquireFails, BeginDemotion, PromoteFails,
    Prefetch, ForwardFails, DropStalest, DropStalestRaises, PrefetchStarted, Resize, Resized, Clear,
    Close, Cleared
<1> QED BY <1>1, <1>2, <1>3, <1>4, <1>5, <1>6, <1>7, <1>8, <1>9, <1>10, <1>11, <1>12, <1>13, <1>14

\* Pinned or in use, an entry stays on the device through every eviction, plan, resize, failed
\* forward and failed read; only clear() drops it, and only when it is not in use.
THEOREM Protection == Spec => ProtectedStays
<1>1. TypeOK /\ Coherent /\ [Next]_vars
        => \A k \in Keys : Protected(k) => Stays(k)
  BY ProtectedStep
<1> QED BY <1>1, AlwaysCoherent, Typed, PTL DEF Spec, ProtectedStays

-------------------------------------------------------------------------------
(* Claimed means bound: the hard invariant, as far as it is kept. *)

\* While the window is enforced, the unit just admitted is the newest on the device and no claim
\* on it is counted yet; or the window has taken it, and is full of units in use.
Newest(k) ==
  /\ tier[k] = "device" /\ job.victim # k /\ refcount[k] = 0
  /\ \A d \in inDevice \ {k} : inserted[d] < inserted[k]
Ousted(k) ==
  /\ job.victim = k \/ tier[k] \in {"host", "storage"}
  /\ Cardinality(InUseHere \ {k}) >= Window
WindowOK == job.at = "window" => job.key \in Dense /\ (Newest(job.key) \/ Ousted(job.key))

\* Ranks keep the order they were taken from.
LEMMA RankedOrder ==
  ASSUME TypeOK, NEW S \in SUBSET Keys, NEW a \in S, NEW b \in S, inserted[a] < inserted[b]
  PROVE  Ranked(S)[a] < Ranked(S)[b]
<1> DEFINE Upto(k) == {x \in S : inserted[x] <= inserted[k]}
<1>1. IsFiniteSet(Upto(b)) /\ IsFiniteSet(Upto(b) \ {b})
  BY FS_Subset, CacheAssumption DEF CacheAssumption
<1>2. b \in Upto(b) /\ Upto(a) \subseteq Upto(b) \ {b}
  BY DEF TypeOK, TypeEntries
<1>3. Cardinality(Upto(b) \ {b}) = Cardinality(Upto(b)) - 1
  BY <1>1, <1>2, FS_RemoveElement
<1>4. Cardinality(Upto(a)) <= Cardinality(Upto(b) \ {b}) /\ IsFiniteSet(Upto(a))
  BY <1>1, <1>2, FS_Subset
<1>5. Cardinality(Upto(a)) \in Nat /\ Cardinality(Upto(b)) \in Nat
  BY <1>1, <1>4, FS_CardinalityType
<1>6. Ranked(S)[a] = Cardinality(Upto(a)) /\ Ranked(S)[b] = Cardinality(Upto(b))
  BY DEF Ranked
<1> HIDE DEF Upto
<1> QED BY <1>3, <1>4, <1>5, <1>6

\* No rank exceeds the number of entries ranked.
LEMMA RankedBound ==
  ASSUME NEW S \in SUBSET Keys, NEW a \in S
  PROVE  Cardinality(S) \in Nat /\ Ranked(S)[a] <= Cardinality(S)
<1>1. IsFiniteSet(S) BY FS_Subset, CacheAssumption DEF CacheAssumption
<1>2. {x \in S : inserted[x] <= inserted[a]} \subseteq S OBVIOUS
<1> QED BY <1>1, <1>2, FS_Subset, FS_CardinalityType DEF Ranked

\* The window takes the unit that was just admitted only where all the others are in use, and are
\* as many as the window is wide.
LEMMA WindowTakesTheNewest ==
  ASSUME TypeOK, Coherent, job.at = "window", Newest(job.key), job.key \in Victims
  PROVE  Cardinality(InUseHere \ {job.key}) >= Window
<1> DEFINE v == job.key
           Free == {d \in InWindow : refcount[d] = 0}
<1>1. Cardinality(InWindow) > Window /\ v \in Oldest(Free)
  BY DEF Victims, WindowVictim
<1>2. v \in InWindow /\ \A x \in Free \ {v} : inserted[v] < inserted[x]
  BY <1>1 DEF Oldest
<1>3. \A x \in InWindow \ {v} : inserted[x] < inserted[v]
  BY DEF Newest, InWindow
<1>4. \A x \in InWindow \ {v} : x \notin Free
  <2> SUFFICES ASSUME NEW x \in InWindow \ {v}, x \in Free PROVE FALSE
    OBVIOUS
  <2>1. inserted[v] < inserted[x] /\ inserted[x] < inserted[v] BY <1>2, <1>3
  <2>2. inserted[v] \in Nat /\ inserted[x] \in Nat
    BY <1>2 DEF TypeOK, TypeEntries, TypeTiers, InWindow
  <2> QED BY <2>1, <2>2
<1>5. InWindow \ {v} \subseteq InUseHere \ {v}
  BY <1>4 DEF InWindow, InUseHere, TypeOK, TypeEntries, TypeTiers
<1>6. IsFiniteSet(InWindow) /\ IsFiniteSet(InUseHere \ {v})
  BY FS_Subset, CacheAssumption DEF CacheAssumption, InWindow, InUseHere, Dense
<1>7. Cardinality(InWindow \ {v}) = Cardinality(InWindow) - 1 BY <1>2, <1>6, FS_RemoveElement
<1>8. Cardinality(InWindow \ {v}) <= Cardinality(InUseHere \ {v}) BY <1>5, <1>6, FS_Subset
<1>9. Window \in Nat BY CacheAssumption DEF CacheAssumption
<1>10. Cardinality(InWindow) \in Nat /\ Cardinality(InUseHere \ {v}) \in Nat
  BY <1>6, FS_CardinalityType
<1> HIDE DEF Free, v
<1>11. Cardinality(InUseHere \ {v}) >= Window BY <1>1, <1>7, <1>8, <1>9, <1>10
<1> QED BY <1>11 DEF v

\* Nothing but a demotion happens while the window is enforced, and a demotion takes nothing that
\* is in use.
LEMMA WindowStep ==
  ASSUME TypeOK, TypeOK', Coherent, WindowOK, [Next]_vars
  PROVE  WindowOK'
<1>1. CASE UNCHANGED vars
  BY <1>1 DEF vars, entryVars, tierVars, WindowOK, Newest, Ousted, InUseHere, InWindow
<1>2. ASSUME NEW k \in Keys, BeginDemotion(k), job.at = "window" PROVE WindowOK'
  <2>1. job'.at = job.at /\ job'.key = job.key /\ job'.victim = k /\ k \in Victims
    BY <1>2, JobFields DEF BeginDemotion
  <2>2. job.key \in Dense /\ job.key \in Keys BY <1>2 DEF WindowOK, Dense
  <2>3. refcount[k] = 0 /\ UNCHANGED entryVars /\ inDevice' = inDevice \ {k}
    BY <1>2, <2>1 DEF BeginDemotion, Victims, WindowVictim, Oldest
  <2>4. InUseHere' = InUseHere
    BY <2>3 DEF InUseHere, InWindow, entryVars
  <2>5. CASE k = job.key /\ Newest(job.key)
    <3>1. Cardinality(InUseHere \ {job.key}) >= Window
      BY <1>2, <2>1, <2>5, WindowTakesTheNewest
    <3> QED BY <2>1, <2>2, <2>4, <2>5, <3>1 DEF WindowOK, Ousted
  <2>6. CASE k # job.key /\ Newest(job.key)
    <3>1. Newest(job.key)'
      BY <2>1, <2>3, <2>6 DEF Newest, entryVars
    <3> QED BY <2>1, <2>2, <3>1 DEF WindowOK
  <2>7. CASE Ousted(job.key)
    <3>1. job.victim # job.key BY <1>2, <2>2, JobFields DEF BeginDemotion
    <3>2. tier'[job.key] \in {"host", "storage"} BY <2>3, <2>7, <3>1 DEF Ousted, entryVars
    <3> QED BY <2>1, <2>2, <2>4, <2>7, <3>2 DEF WindowOK, Ousted
  <2> QED BY <1>2, <2>5, <2>6, <2>7 DEF WindowOK
<1>3. ASSUME NEW k \in Keys, EvictHosted(k) \/ DemoteToHost(k) \/ DemoteToStorage(k),
             job.at = "window"
      PROVE  WindowOK'
  <2>1. job.key \in Dense /\ job.key \in Keys BY <1>3 DEF WindowOK, Dense
  <2>2. job'.at = job.at /\ job'.key = job.key
    <3>1. job' = job \/ job' = [job EXCEPT !.victim = NoKey]
      BY <1>3 DEF EvictHosted, DemoteToHost, DemoteToStorage
    <3>2. [job EXCEPT !.victim = NoKey].at = job.at /\ [job EXCEPT !.victim = NoKey].key = job.key
      BY JobFields
    <3> QED BY <3>1, <3>2
  <2>3. k \notin inDevice /\ UNCHANGED inDevice /\ (tier[k] = "host" \/ k = job.victim)
    BY <1>3 DEF EvictHosted, DemoteToHost, DemoteToStorage, HostRoomMade, HostVictim,
      HostEvictable, Coldest, Oldest, tierVars, Coherent, DictsOK
  <2>4. \A x \in Keys \ {k} : /\ tier'[x] = tier[x] /\ refcount'[x] = refcount[x]
                              /\ pinned'[x] <=> pinned[x]
    BY <1>3 DEF EvictHosted, DemoteToHost, DemoteToStorage, Forget, TypeOK, TypeEntries
  <2>5. InUseHere' = InUseHere
    BY <2>3, <2>4 DEF InUseHere, InWindow, TypeOK, TypeTiers
  <2>6. tier'[k] \in {"host", "storage"}
    BY <1>3 DEF EvictHosted, DemoteToHost, DemoteToStorage, Forget, TypeOK, TypeEntries
  <2>7. job'.victim = job.victim \/ (job'.victim = NoKey /\ k = job.victim)
    BY <1>3, JobFields DEF EvictHosted, DemoteToHost, DemoteToStorage
  <2>8. CASE Newest(job.key)
    <3>1. k # job.key BY <2>3, <2>8 DEF Newest
    <3>2. tier'[job.key] = "device" /\ refcount'[job.key] = 0 /\ job'.victim # job.key
      BY <2>1, <2>4, <2>7, <2>8, <3>1, JobFields DEF Newest
    <3>3. ASSUME NEW d \in inDevice' \ {job.key} PROVE inserted'[d] < inserted'[job.key]
      <4>1. d # k /\ d \in Keys /\ inserted[d] < inserted[job.key]
        BY <2>3, <2>8, <3>3 DEF Newest, TypeOK, TypeTiers
      <4>2. job.key \in Tracked \ {k} /\ d \in Tracked \ {k} /\ Tracked \in SUBSET Keys
        BY <2>1, <2>3, <2>8, <3>1, <4>1 DEF Newest, Tracked, Coherent, DictsOK
      <4>3. inserted' = inserted \/ inserted' = Ranked(Tracked \ {k})
        BY <1>3 DEF EvictHosted, DemoteToHost, DemoteToStorage, Forget
      <4>4. Ranked(Tracked \ {k})[d] < Ranked(Tracked \ {k})[job.key]
        <5>1. Tracked \ {k} \in SUBSET Keys BY <4>2
        <5> QED BY <4>1, <4>2, <5>1, RankedOrder
      <4> QED BY <4>1, <4>3, <4>4
    <3>4. Newest(job.key)' BY <2>2, <3>2, <3>3 DEF Newest
    <3> QED BY <2>1, <2>2, <3>4 DEF WindowOK
  <2>9. CASE Ousted(job.key)
    <3>1. job'.victim = job.key \/ tier'[job.key] \in {"host", "storage"}
      BY <2>1, <2>4, <2>6, <2>7, <2>9, JobFields DEF Ousted
    <3> QED BY <2>1, <2>2, <2>5, <2>9, <3>1 DEF WindowOK, Ousted
  <2> QED BY <1>3, <2>8, <2>9 DEF WindowOK
<1>4. ASSUME NEW k \in Keys, AdmitDense(k) PROVE WindowOK'
  <2>1. job'.key = k /\ job'.victim # k /\ k \in Dense
    BY <1>4, JobFields DEF AdmitDense
  <2>2. ASSUME NEW d \in inDevice' \ {k} PROVE inserted'[d] < inserted'[k]
    <3>1. d \in Tracked /\ d # k /\ k \notin Tracked
      BY <1>4, <2>2 DEF AdmitDense, AddToDevice, RoomMade, Tracked, Coherent, JobOK, DictsOK
    <3>2. inserted'[k] = Cardinality(Tracked) + 1 /\ inserted'[d] = Ranked(Tracked)[d]
      BY <1>4, <3>1, RankedType DEF AdmitDense, Enter, Tracked
    <3>3. Cardinality(Tracked) \in Nat /\ Ranked(Tracked)[d] <= Cardinality(Tracked)
      BY <3>1, RankedBound DEF Tracked
    <3>4. Ranked(Tracked)[d] \in Nat BY <3>1, RankedType DEF Tracked
    <3> QED BY <3>2, <3>3, <3>4
  <2>3. tier'[k] = "device" /\ refcount'[k] = 0
    BY <1>4 DEF AdmitDense, Enter, TypeOK, TypeEntries
  <2> QED BY <2>1, <2>2, <2>3 DEF WindowOK, Newest
<1>5. ASSUME NEW k \in Keys,
             \/ AcquireBound(k) \/ AcquireHosted(k) \/ AcquireMissing(k) \/ AcquireFails(k)
             \/ Promote(k) \/ PromoteFails(k) \/ AdmitTransient(k) \/ AdmitExpert(k)
             \/ ClaimAdmitted(k) \/ Release(k) \/ Prefetch(k) \/ ClearEntry(k)
      PROVE  job'.at # "window"
  <2>1. \/ job' = Idle \/ job' = Doing("promote", k) \/ job' = Doing("admit", k)
        \/ job' = Doing("trim", k) \/ (job' = job /\ job.at # "window")
    BY <1>5, JobFields DEF AcquireBound, AcquireHosted, AcquireMissing, AcquireFails, Promote,
      PromoteFails, AdmitTransient, AdmitExpert, ClaimAdmitted, Release, Prefetch, ClearEntry,
      MayClaim
  <2> QED BY <2>1 DEF Idle, Doing
<1>6. ASSUME \/ ForwardFails \/ DropStalest \/ DropStalestRaises \/ PrefetchStarted \/ Resized
             \/ Clear \/ Close \/ Cleared
             \/ (\E P \in Plans : ApplyPlan(P)) \/ (\E c \in Capacities : Resize(c))
      PROVE  job'.at # "window"
  BY <1>6, JobFields DEF ForwardFails, DropStalest, DropStalestRaises, PrefetchStarted, Resized,
    Clear, Close, Cleared, ApplyPlan, Resize
<1>7. ASSUME NEW k \in Keys, job.at # "window",
             BeginDemotion(k) \/ EvictHosted(k) \/ DemoteToHost(k) \/ DemoteToStorage(k)
      PROVE  job'.at # "window"
  <2>1. job' = job \/ \E v \in Keys \cup {NoKey} : job' = [job EXCEPT !.victim = v]
    BY <1>7 DEF BeginDemotion, EvictHosted, DemoteToHost, DemoteToStorage
  <2>2. \A v \in Keys \cup {NoKey} : [job EXCEPT !.victim = v].at = job.at BY JobFields
  <2> QED BY <1>7, <2>1, <2>2
<1>8. job'.at # "window" => WindowOK' BY DEF WindowOK
<1> QED BY <1>1, <1>2, <1>3, <1>4, <1>5, <1>6, <1>7, <1>8 DEF Next

\* WindowOK is an invariant, whatever the width of the window, the nesting and the faults.
LEMMA AlwaysWindow == Spec => []WindowOK
<1>1. Init => WindowOK BY DEF Init, WindowOK, Idle
<1> QED BY <1>1, WindowStep, Typed, AlwaysCoherent, PTL DEF Spec

Resident == {k \in Keys : bound[k]}
Bare == {k \in Keys : claims[k] > 0 /\ ~Held(k)}

\* Two sets that agree but for one unit.
LEMMA OneApart ==
  ASSUME NEW A, NEW B, NEW k, A \ {k} = B \ {k}
  PROVE  /\ k \in A => A = B \cup {k}
         /\ k \notin A => A = B \ {k}
         /\ (k \in A <=> k \in B) => A = B
         /\ (k \in A => k \in B) => A \in {B, B \ {k}}
OBVIOUS

\* What a step leaves alone of a unit, it leaves held or not, bare or not.
LEMMA SameBare ==
  ASSUME NEW k \in Keys,
         \A x \in Keys \ {k} : /\ tier'[x] = tier[x] /\ refcount'[x] = refcount[x]
                               /\ bound'[x] <=> bound[x]
                               /\ claims'[x] = claims[x]
  PROVE  /\ Bare' \ {k} = Bare \ {k}
         /\ k \in Bare <=> claims[k] > 0 /\ ~Held(k)
         /\ k \in Bare' <=> claims'[k] > 0 /\ ~Held(k)'
<1>1. \A x \in Keys \ {k} : Held(x)' <=> Held(x) BY DEF Held
<1> QED BY <1>1 DEF Bare

\* Every step of the cache is a step of Residency, and only a crowded window leaves a unit bare.
LEMMA PromiseStep ==
  ASSUME TypeOK, TypeOK', Coherent, Coherent', WindowOK, [Next]_vars
  PROVE  Promise!Next /\ \A k \in Bare' \ Bare : Crowded(k)
<1> DEFINE Only(k) == \A x \in Keys \ {k} : /\ tier'[x] = tier[x] /\ refcount'[x] = refcount[x]
                                            /\ bound'[x] <=> bound[x]
                                            /\ claims'[x] = claims[x]
           Fine == Promise!Next /\ \A k \in Bare' \ Bare : Crowded(k)
<1>1. InUseHere' \subseteq Resident'
  BY DEF Coherent, DictsOK, BoundHere, InUseHere, InWindow, Resident, Dense
<1>2. \A k \in Keys : refcount[k] \in Nat /\ claims[k] \in Nat
  BY DEF TypeOK, TypeEntries, TypeOwner
<1>3. \A k \in Keys : bound[k] \in BOOLEAN BY DEF TypeOK, TypeOwner
<1>4. ASSUME NEW k \in Keys, Only(k) PROVE Bare' \ {k} = Bare \ {k}
                                           /\ (k \in Bare <=> claims[k] > 0 /\ ~Held(k))
                                           /\ (k \in Bare' <=> claims'[k] > 0 /\ ~Held(k)')
  BY <1>4, SameBare
<1>5. ASSUME Resident' = Resident, claims' = claims, Bare' = Bare PROVE Fine
  <2>1. Promise!Unbind({}) BY <1>5 DEF Promise!Unbind, Resident, Bare
  <2>2. {} \in SUBSET Resident OBVIOUS
  <2>3. Promise!Next BY <1>1, <2>1, <2>2 DEF Promise!Next, Resident
  <2> QED BY <1>5, <2>3
<1>6. CASE UNCHANGED <<bound, tier, refcount, claims>>
  <2>1. Resident' = Resident /\ Bare' = Bare BY <1>6 DEF Resident, Bare, Held
  <2> QED BY <1>5, <1>6, <2>1
<1>7. ASSUME NEW k \in Keys, Promise!Claim(k) \/ Promise!Bind(k) \/ Promise!Unclaim(k)
                               \/ Promise!Provide(k), Bare' \subseteq Bare
      PROVE  Fine
  BY <1>1, <1>7 DEF Promise!Next, Resident
<1>8. ASSUME NEW k \in Keys, AcquireBound(k) PROVE Fine
  <2>1. Only(k) /\ tier'[k] = tier[k] /\ UNCHANGED bound /\ refcount'[k] = refcount[k] + 1
        /\ claims' = [claims EXCEPT ![k] = @ + 1] /\ claims'[k] = claims[k] + 1
    BY <1>8 DEF AcquireBound, Claimed, ownerVars, TypeOK, TypeEntries, TypeOwner
  <2>2. bound[k] /\ tier[k] \in {"device", "transient"} BY <1>8 DEF AcquireBound, Coherent, BoundHere
  <2>3. Resident' = Resident /\ k \in Resident BY <2>1, <2>2 DEF Resident
  <2>5. Held(k)' <=> Held(k) BY <1>2, <2>1, <2>2 DEF Held
  <2>6. claims[k] = 0 => Held(k) BY <1>2, <2>2 DEF Held
  <2>7. k \in Bare' <=> k \in Bare BY <1>2, <1>4, <2>1, <2>5, <2>6
  <2>8. Bare' = Bare BY <1>4, <2>1, <2>7, OneApart
  <2>4. Promise!Claim(k) BY <2>1, <2>3, <2>8 DEF Promise!Claim, Resident, Bare
  <2> QED BY <1>7, <2>4, <2>8
<1>9. ASSUME NEW k \in Keys, AcquireMissing(k) PROVE Fine
  <2>1. Only(k) /\ UNCHANGED <<tier, refcount, claims>> /\ bound'[k] /\ tier[k] = "storage"
        /\ Resident' = Resident \cup {k}
    BY <1>9 DEF AcquireMissing, Place, entryVars, TypeOK, TypeOwner, Resident
  <2>2. k \notin Resident
    BY <1>9, <2>1, JobFields DEF AcquireMissing, MayClaim, Coherent, BoundHere, Resident
  <2>3. Bare' = Bare BY <1>4, <2>1 DEF Held
  <2>4. Promise!Bind(k) BY <2>1, <2>2, <2>3 DEF Promise!Bind, Resident, Bare
  <2> QED BY <1>7, <2>3, <2>4
<1>10. ASSUME Unwound, UNCHANGED bound PROVE Fine
  <2>1. Bare' = {} /\ Resident' = Resident BY <1>10 DEF Unwound, Bare, Resident
  <2>2. Promise!Abandon BY <1>10, <2>1 DEF Unwound, Promise!Abandon, Resident, Bare
  <2> QED BY <1>1, <2>1, <2>2 DEF Promise!Next, Resident
<1>11. ASSUME NEW k \in Keys, EvictHosted(k) \/ AdmitDense(k) PROVE Fine
  <2>1. Only(k) /\ UNCHANGED <<bound, claims>> /\ refcount'[k] = 0
    BY <1>11 DEF EvictHosted, AdmitDense, Forget, Enter, ownerVars, TypeOK, TypeEntries
  <2>2. tier[k] \in {"host", "storage"}
    BY <1>11 DEF EvictHosted, AdmitDense, RoomMade, HostVictim, HostEvictable, Coldest, Oldest,
      Coherent, DictsOK, JobOK
  <2>3. ~Held(k) /\ (claims[k] > 0 => ~Held(k)') BY <1>2, <2>1, <2>2 DEF Held
  <2>4. Bare' = Bare /\ Resident' = Resident BY <1>4, <2>1, <2>3 DEF Resident
  <2> QED BY <1>5, <2>1, <2>4
<1>12. ASSUME NEW k \in Keys, DemoteToHost(k) \/ DemoteToStorage(k) \/ ClearEntry(k) PROVE Fine
  <2>1. refcount[k] = 0
    BY <1>12 DEF DemoteToHost, DemoteToStorage, ClearEntry, Clearable, Tracked, HostRoomMade,
         Coherent, JobOK, Evictable
  <2>2. Only(k) /\ UNCHANGED claims /\ ~bound'[k] /\ Resident' = Resident \ {k}
    BY <1>12 DEF DemoteToHost, DemoteToStorage, ClearEntry, Clearable, Tracked, Discard, Forget,
      TypeOK, TypeEntries, TypeOwner, Resident
  <2>3. claims[k] > 0 => ~Held(k) /\ ~Held(k)' BY <1>2, <2>1, <2>2 DEF Held
  <2>8. k \in Bare' <=> k \in Bare BY <1>4, <2>2, <2>3
  <2>4. Bare' = Bare BY <1>4, <2>2, <2>8, OneApart
  <2>5. claims[k] = 0 \/ k \in Bare BY <1>2, <2>3 DEF Bare
  <2>6. CASE k \in Resident
    <3>1. Promise!Unbind({k}) BY <2>2, <2>4, <2>5 DEF Promise!Unbind, Resident, Bare
    <3>2. {k} \in SUBSET Resident BY <2>6
    <3> QED BY <1>1, <2>4, <3>1, <3>2 DEF Promise!Next, Resident
  <2>7. CASE k \notin Resident
    <3>1. Resident' = Resident BY <2>2, <2>7
    <3> QED BY <1>5, <2>2, <2>4, <3>1
  <2> QED BY <2>6, <2>7
<1>13. ASSUME NEW k \in Keys, Promote(k) PROVE Fine
  <2>1. Only(k) /\ bound'[k] /\ tier'[k] = "device" /\ refcount'[k] = refcount[k] + 1
        /\ claims' = [claims EXCEPT ![k] = @ + 1] /\ claims'[k] = claims[k] + 1
        /\ Resident' = Resident \cup {k}
    BY <1>13 DEF Promote, Place, Claimed, TypeOK, TypeEntries, TypeOwner, Resident
  <2>2. tier[k] = "host" /\ k \notin Resident
    BY <1>13 DEF Promote, RoomMade, Coherent, JobOK, BoundHere, Resident
  <2>3. k \in Bare' => k \in Bare BY <1>2, <1>4, <2>1, <2>2 DEF Held
  <2>6. Bare' \ {k} = Bare \ {k} BY <1>4, <2>1
  <2>4. Bare' \in {Bare, Bare \ {k}} BY <2>3, <2>6, OneApart
  <2>5. Promise!Provide(k) BY <2>1, <2>2, <2>4 DEF Promise!Provide, Resident, Bare
  <2> QED BY <1>7, <2>4, <2>5
<1>14. ASSUME NEW k \in Keys, AdmitTransient(k) \/ AdmitExpert(k) PROVE Fine
  <2>1. Only(k) /\ UNCHANGED bound /\ refcount'[k] = 1 /\ tier'[k] \in {"device", "transient"}
        /\ claims' = [claims EXCEPT ![k] = @ + 1] /\ claims'[k] = claims[k] + 1
    BY <1>14 DEF AdmitTransient, AdmitExpert, Enter, Claimed, ownerVars, TypeOK, TypeEntries,
      TypeOwner
  <2>2. tier[k] = "storage" /\ bound[k]
    BY <1>14 DEF AdmitTransient, AdmitExpert, RoomMade, Coherent, JobOK, BoundHere
  <2>3. Bare' = Bare /\ Resident' = Resident /\ k \in Resident
    BY <1>2, <1>4, <2>1, <2>2 DEF Held, Resident
  <2>4. Promise!Claim(k) BY <2>1, <2>3 DEF Promise!Claim, Resident, Bare
  <2> QED BY <1>7, <2>3, <2>4
<1>15. ASSUME NEW k \in Keys, ClaimAdmitted(k) PROVE Fine
  <2>1. job.at = "window" /\ job.key = k /\ job.victim # k
    BY <1>15, JobFields DEF ClaimAdmitted, RoomMade
  <2>2. Only(k) /\ UNCHANGED <<bound, tier>>
        /\ refcount'[k] = (IF tier[k] = "storage" THEN 0 ELSE refcount[k] + 1)
        /\ claims' = [claims EXCEPT ![k] = @ + 1] /\ claims'[k] = claims[k] + 1
    BY <1>15 DEF ClaimAdmitted, Claimed, ownerVars, TypeOK, TypeEntries, TypeOwner
  <2>3. bound[k] <=> tier[k] \in {"device", "transient"}
    BY <2>1 DEF Coherent, BoundHere
  <2>4. CASE Newest(k)
    <3>1. tier[k] = "device" /\ refcount[k] = 0 /\ bound[k] BY <2>3, <2>4 DEF Newest
    <3>2. Resident' = Resident /\ k \in Resident BY <2>2, <3>1 DEF Resident
    <3>4. Held(k)' <=> Held(k) BY <1>2, <2>2, <3>1 DEF Held
    <3>5. claims[k] = 0 => Held(k) BY <1>2, <3>1 DEF Held
    <3>6. k \in Bare' <=> k \in Bare BY <1>2, <1>4, <2>2, <3>4, <3>5
    <3>7. Bare' = Bare BY <1>4, <2>2, <3>6, OneApart
    <3>3. Promise!Claim(k) BY <2>2, <3>2, <3>7 DEF Promise!Claim, Resident, Bare
    <3> QED BY <1>7, <3>3, <3>7
  <2>5. CASE Ousted(k)
    <3>1. tier[k] \in {"host", "storage"} /\ Cardinality(InUseHere \ {k}) >= Window
      BY <2>1, <2>5 DEF Ousted
    <3>2. ~bound[k] BY <2>3, <3>1
    <3>3. Bare' = Bare \cup {k} /\ Resident' = Resident /\ k \notin Resident
      BY <1>2, <1>4, <2>2, <3>1, <3>2 DEF Held, Resident
    <3>6. Promise!Cardinality(InUseHere \ {k}) = Cardinality(InUseHere \ {k})
      BY DEF Promise!Cardinality, Cardinality
    <3>4. Promise!Refuse(k) BY <2>2, <3>1, <3>3, <3>6 DEF Promise!Refuse, Resident, Bare
    <3>5. Crowded(k) BY <2>1, <3>1 DEF Crowded
    <3> QED BY <1>1, <3>3, <3>4, <3>5 DEF Promise!Next, Resident
  <2> QED BY <2>1, <2>4, <2>5 DEF WindowOK
<1>16. ASSUME NEW k \in Keys, Release(k) PROVE Fine
  <2>1. Only(k) /\ claims[k] > 0 /\ claims'[k] = claims[k] - 1
        /\ claims' = [claims EXCEPT ![k] = @ - 1]
    BY <1>16 DEF Release, CountDown, Forget, Discard, ownerVars, TypeOK, TypeEntries, TypeOwner
  <2>2. CASE tier[k] = "transient" /\ refcount[k] <= 1
    <3>1. Resident' = Resident \ {k} /\ ~bound'[k]
      BY <1>16, <2>2 DEF Release, Discard, Resident, TypeOK, TypeOwner
    <3>2. claims'[k] = 0 \/ k \in Bare
      BY <1>2, <1>4, <2>1, <2>2 DEF Held
    <3>5. ~Held(k)' /\ claims'[k] \in Nat BY <1>2, <2>1, <3>1 DEF Held
    <3>6. k \in Bare' <=> claims'[k] > 0 BY <1>4, <2>1, <3>5
    <3>7. Bare' \ {k} = Bare \ {k} BY <1>4, <2>1
    <3>8. claims'[k] = 0 => Bare' = Bare \ {k} BY <3>6, <3>7, OneApart
    <3>9. claims'[k] # 0 => Bare' = Bare BY <3>2, <3>5, <3>6, <3>7, OneApart
    <3>3. Bare' = IF claims'[k] = 0 THEN Bare \ {k} ELSE Bare BY <3>8, <3>9
    <3>4. Promise!Unclaim(k) BY <2>1, <3>1, <3>2, <3>3 DEF Promise!Unclaim, Resident, Bare
    <3> QED BY <1>7, <3>3, <3>4
  <2>3. CASE ~(tier[k] = "transient" /\ refcount[k] <= 1)
    <3>1. UNCHANGED <<bound, tier>> /\ refcount'[k] = IF refcount[k] > 0 THEN refcount[k] - 1 ELSE 0
      BY <1>16, <2>3 DEF Release, CountDown, ownerVars, TypeOK, TypeEntries
    <3>2. Bare' = (IF claims'[k] = 0 THEN Bare \ {k} ELSE Bare) /\ Resident' = Resident
      BY <1>2, <1>4, <2>1, <3>1 DEF Held, Resident
    <3>3. Promise!Unclaim(k) BY <2>1, <3>2 DEF Promise!Unclaim, Resident, Bare
    <3> QED BY <1>7, <3>2, <3>3
  <2> QED BY <2>2, <2>3
<1>17. \/ UNCHANGED <<bound, tier, refcount, claims>> \/ (Unwound /\ UNCHANGED bound)
       \/ \E k \in Keys : \/ AcquireBound(k) \/ AcquireMissing(k) \/ EvictHosted(k) \/ AdmitDense(k)
                          \/ DemoteToHost(k) \/ DemoteToStorage(k) \/ ClearEntry(k) \/ Promote(k)
                          \/ AdmitTransient(k) \/ AdmitExpert(k) \/ ClaimAdmitted(k) \/ Release(k)
  BY DEF Next, vars, entryVars, ownerVars, AcquireHosted, AcquireFails, PlaceRaises, BeginDemotion,
    PromoteFails, Prefetch, ForwardFails, DropStalest, DropStalestRaises, PrefetchStarted,
    ApplyPlan, Resize, Resized, Clear, Close, Cleared
<1> HIDE DEF Fine, Only
<1>18. Fine
  <2>1. CASE UNCHANGED <<bound, tier, refcount, claims>> BY <1>6, <2>1 DEF Fine
  <2>2. CASE Unwound /\ UNCHANGED bound BY <1>10, <2>2
  <2>3. ASSUME NEW k \in Keys,
               \/ AcquireBound(k) \/ AcquireMissing(k) \/ EvictHosted(k) \/ AdmitDense(k)
               \/ DemoteToHost(k) \/ DemoteToStorage(k) \/ ClearEntry(k) \/ Promote(k)
               \/ AdmitTransient(k) \/ AdmitExpert(k) \/ ClaimAdmitted(k) \/ Release(k)
        PROVE  Fine
    BY <1>8, <1>9, <1>11, <1>12, <1>13, <1>14, <1>15, <1>16, <2>3
  <2> QED BY <1>17, <2>1, <2>2, <2>3
<1> QED BY <1>18 DEF Fine

\* The cache implements its promise to the forward, for every set of units, capacity, plan and
\* window, and whatever raises: weights appear before a claim is granted and are never withdrawn
\* under one, but for the claim granted into a window full of units in use.
THEOREM KeepsPromise == Spec => Promised
<1>1. Init => Promise!Init
  BY DEF Init, InUseHere, InWindow, Promise!Init
<1>2. TypeOK /\ TypeOK' /\ Coherent /\ Coherent' /\ WindowOK /\ [Next]_vars
        => [Promise!Next]_(Promise!vars)
  BY PromiseStep
<1> QED BY <1>1, <1>2, Typed, AlwaysCoherent, AlwaysWindow, PTL DEF Spec, Promised, Promise!Spec

\* A claim the cache stands by stays one until it is given up; what is claimed without its weights
\* was claimed into a window full of units in use.  No assumption on the window, the nesting or
\* the faults.
THEOREM ClaimsKept == Spec => ClaimsHold
<1>1. ASSUME TypeOK, TypeOK', Coherent, Coherent', WindowOK, [Next]_vars, NEW k \in Keys,
             claims[k] = 0 \/ Held(k)
      PROVE  claims'[k] = 0 \/ Held(k)' \/ Crowded(k)
  <2>1. k \notin Bare BY <1>1 DEF Bare
  <2>2. k \notin Bare' \/ Crowded(k) BY <1>1, <2>1, PromiseStep
  <2>3. claims'[k] \in Nat BY <1>1 DEF TypeOK, TypeOwner
  <2> QED BY <2>2, <2>3 DEF Bare
<1>2. TypeOK /\ TypeOK' /\ Coherent /\ Coherent' /\ WindowOK /\ [Next]_vars
        => \A k \in Keys : claims[k] = 0 \/ Held(k) => claims'[k] = 0 \/ Held(k)' \/ Crowded(k)
  BY <1>1
<1> QED BY <1>2, Typed, AlwaysCoherent, AlwaysWindow, PTL DEF Spec, ClaimsHold

\* References follow claims up and down, one for one.
LEMMA AnsweredStep ==
  ASSUME TypeOK, TypeOK', [Next]_vars, NEW k \in Keys, refcount[k] <= claims[k]
  PROVE  refcount'[k] <= claims'[k] \/ Raises
<1>1. refcount[k] \in Nat /\ claims[k] \in Nat /\ refcount'[k] \in Nat /\ claims'[k] \in Nat
  BY DEF TypeOK, TypeEntries, TypeOwner
<1>2. CASE UNCHANGED <<refcount, claims>> BY <1>2
<1>3. ASSUME NEW x \in Keys, AcquireBound(x) \/ Promote(x) PROVE refcount'[k] <= claims'[k]
  BY <1>1, <1>3 DEF AcquireBound, Promote, Claimed, TypeOK, TypeEntries, TypeOwner
<1>4. ASSUME NEW x \in Keys, AdmitTransient(x) \/ AdmitExpert(x) PROVE refcount'[k] <= claims'[k]
  BY <1>1, <1>4 DEF AdmitTransient, AdmitExpert, Enter, Claimed, TypeOK, TypeEntries, TypeOwner
<1>5. ASSUME NEW x \in Keys, AdmitDense(x) PROVE refcount'[k] <= claims'[k]
  BY <1>1, <1>5 DEF AdmitDense, Enter, TypeOK, TypeEntries, TypeOwner
<1>6. ASSUME NEW x \in Keys, ClaimAdmitted(x) PROVE refcount'[k] <= claims'[k]
  BY <1>1, <1>6 DEF ClaimAdmitted, Claimed, TypeOK, TypeEntries, TypeOwner
<1>7. ASSUME NEW x \in Keys, Release(x) PROVE refcount'[k] <= claims'[k]
  BY <1>1, <1>7 DEF Release, CountDown, Forget, TypeOK, TypeEntries, TypeOwner
<1>8. ASSUME NEW x \in Keys, Forget({x}), UNCHANGED claims PROVE refcount'[k] <= claims'[k]
  BY <1>1, <1>8 DEF Forget
<1>9. \/ UNCHANGED <<refcount, claims>> \/ Raises
      \/ \E x \in Keys : \/ AcquireBound(x) \/ Promote(x) \/ AdmitTransient(x) \/ AdmitExpert(x)
                         \/ AdmitDense(x) \/ ClaimAdmitted(x) \/ Release(x)
                         \/ (Forget({x}) /\ UNCHANGED claims)
  BY DEF Next, vars, entryVars, Raises, AcquireHosted, AcquireMissing, BeginDemotion, EvictHosted,
    DemoteToHost, DemoteToStorage, Prefetch, ClearEntry, DropStalest, PrefetchStarted, ApplyPlan,
    Resize, Resized, Clear, Close, Cleared
<1> QED BY <1>2, <1>3, <1>4, <1>5, <1>6, <1>7, <1>8, <1>9

\* Only an exception that leaves the forward leaves a reference no claim answers for, for every set
\* of units, capacity, plan and window.
THEOREM Answered == Spec => ReferencesAnswered
<1>1. TypeOK /\ TypeOK' /\ [Next]_vars
        => \A k \in Keys : refcount[k] <= claims[k] => refcount'[k] <= claims'[k] \/ Raises
  BY AnsweredStep
<1> QED BY <1>1, Typed, PTL DEF Spec, ReferencesAnswered

-------------------------------------------------------------------------------
(* The books the owner never sees. *)

\* What is in the host tier has a copy and fits, whatever fails.
Hosted == HostedHasCopy /\ HostWithinCapacity

\* A unit enters the host tier with its copy and within the capacity, and loses the copy only with
\* its place.
LEMMA HostedStep ==
  ASSUME TypeOK, Coherent, BytesAgree, Hosted, [Next]_vars
  PROVE  Hosted'
<1> USE DEF Hosted, HostedHasCopy, HostWithinCapacity
<1>1. CASE UNCHANGED <<tier, hostBytes, hostCopy>> BY <1>1
<1>2. hostBytes \in Int /\ HostCapacity \in Nat /\ \A x \in Keys : Size[x] \in Nat
  BY CacheAssumption DEF CacheAssumption, TypeOK, TypeTiers
<1>3. ASSUME NEW k \in Keys, AcquireHosted(k) PROVE Hosted'
  BY <1>2, <1>3 DEF AcquireHosted, entryVars, ownerVars
<1>4. ASSUME NEW k \in Keys, AcquireMissing(k) PROVE Hosted'
  BY <1>2, <1>4 DEF AcquireMissing, Place, entryVars, tierVars, TypeOK, TypeOwner
<1>5. ASSUME NEW k \in Keys, EvictHosted(k) PROVE Hosted'
  BY <1>2, <1>5 DEF EvictHosted, Forget, ownerVars
<1>6. ASSUME NEW k \in Keys, DemoteToHost(k) PROVE Hosted'
  BY <1>2, <1>6 DEF DemoteToHost, HostTakes, HostFits, TypeOK, TypeEntries
<1>7. ASSUME NEW k \in Keys, DemoteToStorage(k) PROVE Hosted'
  BY <1>7 DEF DemoteToStorage, Forget, Discard, tierVars
<1>8. ASSUME NEW k \in Keys, Promote(k) PROVE Hosted'
  BY <1>8 DEF Promote, Place, AddToDevice, TypeOK, TypeEntries, TypeOwner
<1>9. ASSUME NEW k \in Keys, AdmitTransient(k) \/ AdmitExpert(k) \/ AdmitDense(k) PROVE Hosted'
  BY <1>9 DEF AdmitTransient, AdmitExpert, AdmitDense, Enter, AddToDevice, tierVars, ownerVars,
    TypeOK, TypeEntries
<1>10. ASSUME NEW k \in Keys, Release(k) PROVE Hosted'
  BY <1>10 DEF Release, Forget, Discard, tierVars, ownerVars
<1>11. ASSUME NEW k \in Keys, ClearEntry(k) PROVE Hosted'
  <2>1. HostedHasCopy' BY <1>11 DEF ClearEntry, Forget, Discard, Tracked, Clearable
  <2>2. hostBytes' <= hostBytes /\ hostBytes' \in Int BY <1>2, <1>11 DEF ClearEntry
  <2> QED BY <1>2, <2>1, <2>2
<1>12. UNCHANGED <<tier, hostBytes, hostCopy>> \/ \E k \in Keys :
         \/ AcquireHosted(k) \/ AcquireMissing(k) \/ EvictHosted(k) \/ DemoteToHost(k)
         \/ DemoteToStorage(k) \/ Promote(k) \/ AdmitTransient(k) \/ AdmitExpert(k)
         \/ AdmitDense(k) \/ Release(k) \/ ClearEntry(k)
  BY DEF Next, vars, entryVars, tierVars, ownerVars, AcquireBound, AcquireFails, PlaceRaises,
    BeginDemotion, PromoteFails, ClaimAdmitted, Prefetch, ForwardFails, DropStalest,
    DropStalestRaises, PrefetchStarted, ApplyPlan, Resize, Resized, Clear, Close, Cleared
<1> QED BY <1>1, <1>3, <1>4, <1>5, <1>6, <1>7, <1>8, <1>9, <1>10, <1>11, <1>12

\* The units in flight, each of them once, and none of them the one a miss is admitting.
InFlight == {pending[i] : i \in DOMAIN pending}
ReadOnce ==
  /\ PendingIsMissing
  /\ job.at = "admit" => job.key \notin InFlight

\* Collecting a read takes it out of flight with its bytes.
LEMMA TakeEffect ==
  ASSUME TypeOK, PendingIsMissing, NEW k \in Keys, TakePending(k)
  PROVE  /\ InFlight' = InFlight \ {k}
         /\ \A i, j \in DOMAIN pending' : pending'[i] = pending'[j] => i = j
         /\ pendingBytes' = pendingBytes - (IF k \in InFlight THEN Size[k] ELSE 0)
<1>1. pending \in Seq(Keys) /\ pendingBytes \in Int BY DEF TypeOK, TypeReads
<1>2. \A i, j \in DOMAIN pending : pending[i] = pending[j] => i = j BY DEF PendingIsMissing
<1>3. CASE /\ \A i \in DOMAIN pending : pending[i] # k
           /\ UNCHANGED <<pending, pendingBytes>>
  BY <1>1, <1>2, <1>3 DEF InFlight
<1>4. ASSUME NEW i \in DOMAIN pending, pending[i] = k, pending' = RemoveAt(pending, i),
             pendingBytes' = pendingBytes - Size[k]
      PROVE  InFlight' = InFlight \ {k} /\ \A a, b \in DOMAIN pending' : pending'[a] = pending'[b] => a = b
  <2>1. i \in 1..Len(pending) /\ Len(pending) \in Nat /\ DOMAIN pending = 1..Len(pending) BY <1>1
  <2>4. DOMAIN pending' = 1..(Len(pending) - 1)
        /\ \A a \in DOMAIN pending' : pending'[a] = IF a < i THEN pending[a] ELSE pending[a + 1]
    <3>1. pending' \in Seq(Keys) /\ Len(pending') = Len(pending) - 1
          /\ \A a \in 1..(Len(pending) - 1) : pending'[a] = IF a < i THEN pending[a] ELSE pending[a + 1]
      BY <1>1, <1>4, <2>1, RemoveAtPlaces
    <3> QED BY <3>1
  <2>5. \A a, b \in DOMAIN pending' : pending'[a] = pending'[b] => a = b
    BY <1>2, <2>1, <2>4
  <2>6. InFlight' \subseteq InFlight \ {k} BY <1>2, <1>4, <2>1, <2>4 DEF InFlight
  <2>7. ASSUME NEW x \in InFlight \ {k} PROVE x \in InFlight'
    <3>1. PICK j \in 1..Len(pending) : pending[j] = x /\ j # i BY <1>4, <2>1, <2>7 DEF InFlight
    <3>2. CASE j < i BY <2>1, <2>4, <3>1, <3>2 DEF InFlight
    <3>3. CASE j > i
      <4>1. j - 1 \in DOMAIN pending' /\ pending'[j - 1] = x BY <2>1, <2>4, <3>1, <3>3
      <4> QED BY <4>1 DEF InFlight
    <3> QED BY <2>1, <3>1, <3>2, <3>3
  <2> QED BY <2>5, <2>6, <2>7
<1>5. ASSUME NEW i \in DOMAIN pending, pending[i] = k PROVE k \in InFlight BY <1>5 DEF InFlight
<1> QED BY <1>3, <1>4, <1>5 DEF TakePending

\* A read that starts or is dropped, and nothing else, changes what is in flight otherwise.
LEMMA AppendEffect ==
  ASSUME TypeOK, PendingIsMissing, NEW k \in Keys, k \notin InFlight, pending' = Append(pending, k)
  PROVE  /\ InFlight' = InFlight \cup {k}
         /\ \A i, j \in DOMAIN pending' : pending'[i] = pending'[j] => i = j
<1>1. pending \in Seq(Keys) BY DEF TypeOK, TypeReads
<1>2. /\ Len(pending) \in Nat /\ DOMAIN pending = 1..Len(pending)
      /\ DOMAIN pending' = 1..(Len(pending) + 1)
      /\ \A i \in DOMAIN pending' : pending'[i] = IF i = Len(pending) + 1 THEN k ELSE pending[i]
  BY <1>1
<1>3. \A i, j \in DOMAIN pending' : pending'[i] = pending'[j] => i = j
  BY <1>2 DEF PendingIsMissing, InFlight
<1>4. InFlight' = InFlight \cup {k} BY <1>2 DEF InFlight
<1> QED BY <1>3, <1>4

\* Dropping the oldest read in flight takes exactly that key out of flight.
LEMMA TailEffect ==
  ASSUME TypeOK, PendingIsMissing, Len(pending) > 1, pending' = Tail(pending)
  PROVE  /\ Head(pending) \in InFlight
         /\ InFlight' = InFlight \ {Head(pending)}
         /\ \A i, j \in DOMAIN pending' : pending'[i] = pending'[j] => i = j
<1>1. pending \in Seq(Keys) BY DEF TypeOK, TypeReads
<1>2. /\ Len(pending) \in Nat /\ DOMAIN pending = 1..Len(pending) /\ Head(pending) = pending[1]
      /\ DOMAIN pending' = 1..(Len(pending) - 1)
      /\ \A i \in DOMAIN pending' : pending'[i] = pending[i + 1]
  BY <1>1
<1>3. \A i, j \in DOMAIN pending' : pending'[i] = pending'[j] => i = j
  BY <1>2 DEF PendingIsMissing
<1>4. Head(pending) \in InFlight BY <1>2 DEF InFlight
<1>5. InFlight' \subseteq InFlight \ {Head(pending)} BY <1>2 DEF PendingIsMissing, InFlight
<1>6. ASSUME NEW x \in InFlight, x # Head(pending) PROVE x \in InFlight'
  <2>1. PICK i \in 1..Len(pending) : pending[i] = x /\ i # 1 BY <1>2, <1>6 DEF InFlight
  <2>2. i - 1 \in DOMAIN pending' /\ pending'[i - 1] = x BY <1>2, <2>1
  <2> QED BY <2>2 DEF InFlight
<1> QED BY <1>3, <1>4, <1>5, <1>6

\* A read in flight is of a unit that is missing, and there is one of it.
LEMMA ReadOnceStep ==
  ASSUME TypeOK, TypeOK', Coherent, ReadOnce, [Next]_vars
  PROVE  ReadOnce'
<1>1. \A x : x \in InFlight <=> \E i \in DOMAIN pending : pending[i] = x BY DEF InFlight
<1>2. \A x : x \in InFlight' <=> \E i \in DOMAIN pending' : pending'[i] = x BY DEF InFlight
<1>3. InFlight \subseteq Keys BY DEF InFlight, TypeOK, TypeReads
<1>4. \A x \in InFlight : tier[x] = "storage" BY DEF ReadOnce, PendingIsMissing, InFlight
<1> DEFINE Once == \A i, j \in DOMAIN pending' : pending'[i] = pending'[j] => i = j
           Safe == \A x \in InFlight' : tier'[x] = "storage"
           Apart == job'.at = "admit" => job'.key \notin InFlight'
<1>5. SUFFICES Once /\ Safe /\ Apart
  BY <1>2 DEF ReadOnce, PendingIsMissing
<1>6. UNCHANGED pending => Once /\ InFlight' = InFlight
  BY DEF ReadOnce, PendingIsMissing, InFlight
<1>7. CASE UNCHANGED <<tier, pending, job>> BY <1>4, <1>6, <1>7 DEF ReadOnce
<1>8. ASSUME NEW k \in Keys, AcquireMissing(k) \/ AcquireFails(k) PROVE Once /\ Safe /\ Apart
  <2>1. InFlight' = InFlight \ {k} /\ Once BY <1>8, TakeEffect DEF AcquireMissing, AcquireFails, ReadOnce
  <2>2. UNCHANGED tier BY <1>8 DEF AcquireMissing, AcquireFails, entryVars
  <2>3. job' = Doing("admit", k) \/ (job' = job /\ job.at = "idle")
    BY <1>8, JobFields DEF AcquireMissing, AcquireFails, MayClaim
  <2> QED BY <1>4, <2>1, <2>2, <2>3, JobFields
<1>9. ASSUME NEW k \in Keys, Prefetch(k) PROVE Once /\ Safe /\ Apart
  <2>1. k \notin InFlight BY <1>1, <1>9 DEF Prefetch
  <2>2. InFlight' = InFlight \cup {k} /\ Once BY <1>9, <2>1, AppendEffect DEF Prefetch, ReadOnce
  <2>3. UNCHANGED tier /\ tier[k] = "storage" BY <1>9 DEF Prefetch, entryVars
  <2> QED BY <1>4, <1>9, <2>2, <2>3, JobFields DEF Prefetch
<1>10. ASSUME DropStalest PROVE Once /\ Safe /\ Apart
  <2>1. InFlight' \subseteq InFlight /\ Once
    BY <1>10, TailEffect DEF DropStalest, TooMuchInFlight, ReadOnce
  <2> QED BY <1>4, <1>10, <2>1 DEF DropStalest, entryVars
<1>11. ASSUME Clear \/ Close PROVE Once /\ Safe /\ Apart
  <2>1. pending' = <<>> BY <1>11 DEF Clear, Close, DropPending
  <2> QED BY <2>1 DEF InFlight
<1>12. ASSUME NEW k \in Keys, AdmitTransient(k) \/ AdmitExpert(k) \/ AdmitDense(k)
       PROVE  Once /\ Safe /\ Apart
  <2>1. UNCHANGED pending /\ k \notin InFlight /\ job'.at # "admit"
    BY <1>12, JobFields DEF AdmitTransient, AdmitExpert, AdmitDense, RoomMade, readVars, ReadOnce
  <2>2. \A x \in Keys \ {k} : tier'[x] = tier[x]
    BY <1>12 DEF AdmitTransient, AdmitExpert, AdmitDense, Enter, TypeOK, TypeEntries
  <2> QED BY <1>3, <1>4, <1>6, <2>1, <2>2
<1>13. ASSUME UNCHANGED pending, job'.at = "admit" => job.at = "admit" /\ job'.key = job.key,
              \A x \in Keys : tier[x] = "storage" => tier'[x] = "storage"
       PROVE  Once /\ Safe /\ Apart
  BY <1>3, <1>4, <1>6, <1>13 DEF ReadOnce
<1>14. ASSUME NEW k \in Keys,
              \/ AcquireBound(k) \/ AcquireHosted(k) \/ BeginDemotion(k) \/ EvictHosted(k)
              \/ DemoteToHost(k) \/ DemoteToStorage(k) \/ Promote(k) \/ PromoteFails(k)
              \/ ClaimAdmitted(k) \/ Release(k) \/ ClearEntry(k)
       PROVE  Once /\ Safe /\ Apart
  <2>1. UNCHANGED pending
    BY <1>14 DEF AcquireBound, AcquireHosted, BeginDemotion, EvictHosted, DemoteToHost,
      DemoteToStorage, Promote, PromoteFails, ClaimAdmitted, Release, ClearEntry, readVars
  <2>2. job'.at = "admit" => job.at = "admit" /\ job'.key = job.key
    <3>1. \/ job' = job \/ job' = Idle \/ job' = Doing("promote", k)
          \/ \E v \in {k, NoKey} : job' = [job EXCEPT !.victim = v]
      BY <1>14 DEF AcquireBound, AcquireHosted, BeginDemotion, EvictHosted, DemoteToHost,
        DemoteToStorage, Promote, PromoteFails, ClaimAdmitted, Release, ClearEntry
    <3>2. ASSUME NEW v \in {k, NoKey}, job' = [job EXCEPT !.victim = v]
          PROVE  job'.at = job.at /\ job'.key = job.key
      BY <3>2 DEF TypeOK, TypeRest, Jobs
    <3>3. job' = Idle \/ job' = Doing("promote", k) => job'.at # "admit" BY DEF Idle, Doing
    <3> QED BY <3>1, <3>2, <3>3
  <2>3. ASSUME NEW x \in Keys, tier[x] = "storage" PROVE tier'[x] = "storage"
    <3>1. CASE DemoteToHost(k)
      BY <2>3, <3>1 DEF DemoteToHost, HostRoomMade, Coherent, JobOK, TypeOK, TypeEntries
    <3>2. CASE Promote(k)
      BY <2>3, <3>2 DEF Promote, RoomMade, Coherent, JobOK, TypeOK, TypeEntries
    <3>3. CASE UNCHANGED tier \/ \E S \in SUBSET Keys : Forget(S) BY <2>3, <3>3 DEF Forget
    <3>4. EvictHosted(k) \/ DemoteToStorage(k) \/ Release(k) \/ ClearEntry(k)
            => UNCHANGED tier \/ \E S \in SUBSET Keys : Forget(S)
      BY DEF EvictHosted, DemoteToStorage, Release, ClearEntry
    <3>5. AcquireBound(k) \/ AcquireHosted(k) \/ BeginDemotion(k) \/ PromoteFails(k)
            \/ ClaimAdmitted(k) => UNCHANGED tier
      BY DEF AcquireBound, AcquireHosted, BeginDemotion, PromoteFails, ClaimAdmitted, entryVars
    <3> QED BY <1>14, <3>1, <3>2, <3>3, <3>4, <3>5
  <2> QED BY <1>13, <2>1, <2>2, <2>3
<1>15. ASSUME \/ ForwardFails \/ DropStalestRaises \/ PrefetchStarted \/ Resized \/ Cleared
              \/ (\E P \in Plans : ApplyPlan(P)) \/ (\E c \in Capacities : Resize(c))
       PROVE  Once /\ Safe /\ Apart
  <2>1. UNCHANGED <<tier, pending>> /\ (job' = job \/ job'.at # "admit")
    BY <1>15, JobFields DEF ForwardFails, DropStalestRaises, PrefetchStarted, Resized, Cleared,
      ApplyPlan, Resize, entryVars, readVars
  <2> QED BY <1>13, <2>1
<1> HIDE DEF Once, Safe, Apart
<1> QED BY <1>7, <1>8, <1>9, <1>10, <1>11, <1>12, <1>14, <1>15 DEF Next, vars, entryVars, readVars

\* Starting, taking and dropping a read moves the count by the size of that read; a table that was
\* replaced is in order no more.
LEMMA ReadsCountedStep ==
  ASSUME TypeOK, ReadOnce, PendingCounted, [Next]_vars
  PROVE  PendingCounted'
<1>1. InFlight \in SUBSET Keys BY DEF InFlight, TypeOK, TypeReads
<1>2. pendingOrdered => pendingBytes = SumFunctionOnSet(Size, InFlight)
  BY DEF PendingCounted, InFlight
<1>3. SUFFICES ASSUME pendingOrdered' PROVE pendingBytes' = SumFunctionOnSet(Size, InFlight')
  BY DEF PendingCounted, InFlight
<1>4. UNCHANGED pending => InFlight' = InFlight BY DEF InFlight
<1>5. CASE UNCHANGED <<pending, pendingBytes, pendingOrdered>> BY <1>2, <1>3, <1>4, <1>5
<1>6. ASSUME NEW k \in Keys, AcquireMissing(k) \/ AcquireFails(k)
      PROVE  pendingBytes' = SumFunctionOnSet(Size, InFlight')
  <2>1. TakePending(k) BY <1>6 DEF AcquireMissing, AcquireFails
  <2>2. pendingOrdered /\ InFlight' = InFlight \ {k}
        /\ pendingBytes' = pendingBytes - (IF k \in InFlight THEN Size[k] ELSE 0)
    BY <1>3, <2>1, TakeEffect DEF TakePending, ReadOnce
  <2>3. k \in InFlight => pendingBytes' = SumFunctionOnSet(Size, InFlight')
    BY <1>1, <1>2, <2>2, TierBytes
  <2>4. k \notin InFlight => pendingBytes' = SumFunctionOnSet(Size, InFlight')
    <3>1. SumFunctionOnSet(Size, InFlight) \in Nat BY <1>1, TierBytes
    <3>2. k \notin InFlight => InFlight' = InFlight BY <2>2
    <3> QED BY <1>2, <2>2, <3>1, <3>2
  <2> QED BY <2>3, <2>4
<1>7. ASSUME NEW k \in Keys, Prefetch(k)
      PROVE  pendingBytes' = SumFunctionOnSet(Size, InFlight')
  <2>1. k \notin InFlight BY <1>7 DEF Prefetch, InFlight
  <2>2. InFlight' = InFlight \cup {k} BY <1>7, <2>1, AppendEffect DEF Prefetch, ReadOnce
  <2> QED BY <1>1, <1>2, <1>3, <1>7, <2>1, <2>2, TierBytes DEF Prefetch
<1>8. ASSUME DropStalest
      PROVE  pendingBytes' = SumFunctionOnSet(Size, InFlight')
  <2>1. Head(pending) \in InFlight /\ InFlight' = InFlight \ {Head(pending)}
    BY <1>8, TailEffect DEF DropStalest, TooMuchInFlight, ReadOnce
  <2> QED BY <1>1, <1>2, <1>3, <1>8, <2>1, TierBytes DEF DropStalest
<1>9. \/ UNCHANGED <<pending, pendingBytes, pendingOrdered>> \/ DropStalest
      \/ \E k \in Keys : AcquireMissing(k) \/ AcquireFails(k) \/ Prefetch(k)
  <2>1. ASSUME NEW k \in Keys,
               \/ AcquireBound(k) \/ AcquireHosted(k) \/ BeginDemotion(k) \/ EvictHosted(k)
               \/ DemoteToHost(k) \/ DemoteToStorage(k) \/ Promote(k) \/ PromoteFails(k)
        PROVE  UNCHANGED <<pending, pendingBytes, pendingOrdered>>
    BY <2>1 DEF readVars, AcquireBound, AcquireHosted, BeginDemotion, EvictHosted, DemoteToHost,
      DemoteToStorage, Promote, PromoteFails
  <2>2. ASSUME NEW k \in Keys,
               \/ AdmitTransient(k) \/ AdmitExpert(k) \/ AdmitDense(k) \/ ClaimAdmitted(k)
               \/ Release(k) \/ ClearEntry(k)
        PROVE  UNCHANGED <<pending, pendingBytes, pendingOrdered>>
    BY <2>2 DEF readVars, AdmitTransient, AdmitExpert, AdmitDense, ClaimAdmitted, Release, ClearEntry
  <2>3. ASSUME \/ ForwardFails \/ DropStalestRaises \/ PrefetchStarted \/ Resized \/ Cleared
               \/ (\E P \in Plans : ApplyPlan(P)) \/ \E c \in Capacities : Resize(c)
        PROVE  UNCHANGED <<pending, pendingBytes, pendingOrdered>>
    BY <2>3 DEF readVars, ForwardFails, DropStalestRaises, PrefetchStarted, ApplyPlan, Resize,
      Resized, Cleared
  <2>4. ~Clear /\ ~Close BY <1>3 DEF Clear, Close, DropPending
  <2> QED BY <2>1, <2>2, <2>3, <2>4 DEF Next, vars, readVars
<1> QED BY <1>5, <1>6, <1>7, <1>8, <1>9

\* The host tier can serve and has room for what is in it, and a read in flight is of a missing
\* unit, whatever fails.
LEMMA AlwaysHosted == Spec => []Hosted
<1>1. Init => Hosted
  BY CacheAssumption DEF CacheAssumption, Init, Hosted, HostedHasCopy, HostWithinCapacity
<1> QED BY <1>1, HostedStep, Typed, AlwaysCoherent, AlwaysCountingBytes, PTL DEF Spec

\* No unit is read twice at once, and none that is placed is being read.
LEMMA AlwaysReadOnce == Spec => []ReadOnce
<1>1. Init => ReadOnce
  BY DEF Init, ReadOnce, PendingIsMissing, Idle
<1> QED BY <1>1, ReadOnceStep, Typed, AlwaysCoherent, PTL DEF Spec

\* Until the table is replaced, the count is the bytes in flight.
LEMMA AlwaysReadsCounted == Spec => []PendingCounted
<1>1. Init => PendingCounted
  <2>1. SumFunctionOnSet(Size, {}) = 0 BY SumOfNone
  <2>2. Init => {pending[i] : i \in DOMAIN pending} = {} BY DEF Init
  <2> QED BY <2>1, <2>2 DEF Init, PendingCounted
<1>2. TypeOK /\ ReadOnce /\ PendingCounted /\ [Next]_vars => PendingCounted' BY ReadsCountedStep
<1> QED BY <1>1, <1>2, Typed, AlwaysReadOnce, PTL DEF Spec

\* The books agree, whatever fails: hosted units can be served back and fit, and reads in flight
\* are of missing units, once, and counted in full until clear() or close() replaces the table.
THEOREM BooksKept == Spec => []BooksAgree
<1>1. Hosted /\ ReadOnce /\ PendingCounted => BooksAgree
  BY DEF Hosted, ReadOnce, BooksAgree
<1> QED BY <1>1, AlwaysHosted, AlwaysReadOnce, AlwaysReadsCounted, PTL

\* While the table is the one it was made with, a prefetch returns with no more in flight than the
\* cache could admit, or with that one read, whatever fails meanwhile.
THEOREM ReadsCapped == Spec => PendingCapped
<1> DEFINE Capped == \/ Len(pending') <= 1
                     \/ SumFunctionOnSet(Size, {pending'[i] : i \in DOMAIN pending'}) <= ReadLimit
<1>1. ASSUME TypeOK, PendingCounted, [Next]_vars, job.at = "trim",
             job'.at # "trim", pendingOrdered
      PROVE  Capped
  <2>1. UNCHANGED pending /\ ~TooMuchInFlight
    <3>1. PrefetchStarted
      <4>1. ~(UNCHANGED vars) BY <1>1 DEF vars
      <4>2. job.at # "idle" /\ job # Idle BY <1>1, JobFields
      <4>3. ~DropStalestRaises BY <1>1 DEF DropStalestRaises
      <4>4. ~DropStalest BY <1>1 DEF DropStalest
<4>5. ASSUME NEW k \in Keys, BeginDemotion(k) \/ DemoteToHost(k) \/ DemoteToStorage(k)
              PROVE  FALSE
          <5>1. job' = [job EXCEPT !.victim = k] \/ job' = [job EXCEPT !.victim = NoKey]
            BY <4>5 DEF BeginDemotion, DemoteToHost, DemoteToStorage
          <5>2. ASSUME NEW v \in {k, NoKey}, job' = [job EXCEPT !.victim = v] PROVE job'.at = job.at
            BY <1>1, <5>2 DEF TypeOK, TypeRest, Jobs
          <5> QED BY <1>1, <5>1, <5>2
        <4>6. \A k \in Keys : ~EvictHosted(k) BY <1>1 DEF EvictHosted
        <4>7. \A k \in Keys : /\ ~AcquireBound(k) /\ ~AcquireHosted(k) /\ ~AcquireMissing(k)
                            /\ ~AcquireFails(k) /\ ~Release(k) /\ ~Prefetch(k)
        BY <4>2 DEF AcquireBound, AcquireHosted, AcquireMissing, AcquireFails, Release, Prefetch,
          MayClaim
      <4>8. \A k \in Keys : /\ ~Promote(k) /\ ~PromoteFails(k) /\ ~AdmitTransient(k)
                            /\ ~AdmitExpert(k) /\ ~AdmitDense(k) /\ ~ClaimAdmitted(k)
                            /\ ~ClearEntry(k)
        BY <1>1 DEF Promote, PromoteFails, AdmitTransient, AdmitExpert, AdmitDense, ClaimAdmitted,
          ClearEntry, RoomMade
      <4>9. /\ ~ForwardFails /\ ~Resized /\ ~Clear /\ ~Close /\ ~Cleared
            /\ \A P \in Plans : ~ApplyPlan(P)
            /\ \A c \in Capacities : ~Resize(c)
        BY <1>1, <4>2 DEF ForwardFails, Resized, Clear, Close, Cleared, ApplyPlan, Resize, RoomMade
      <4> QED BY <1>1, <4>1, <4>3, <4>4, <4>5, <4>6, <4>7, <4>8, <4>9 DEF Next
    <3> QED BY <3>1 DEF PrefetchStarted, readVars
  <2>2. Len(pending) \in Nat BY <1>1 DEF TypeOK, TypeReads
  <2>3. pendingBytes \in Int /\ ReadLimit \in Int
    BY <1>1, CacheAssumption DEF CacheAssumption, ReadLimit, TypeOK, TypeReads, TypeRest
  <2> QED BY <1>1, <2>1, <2>2, <2>3 DEF TooMuchInFlight, PendingCounted
<1>2. TypeOK /\ PendingCounted /\ [Next]_vars
        => (job.at = "trim" /\ job'.at # "trim" /\ pendingOrdered => Capped)
  BY <1>1
<1> QED BY <1>2, Typed, AlwaysReadsCounted, PTL DEF Spec, PendingCapped

-------------------------------------------------------------------------------
(* What an eviction leaves behind. *)

\* No two entries were admitted at the same time.
Apart == \A a, b \in Tracked : a # b => inserted[a] # inserted[b]

\* Among entries there is always a coldest and an oldest.
LEMMA VictimExists ==
  ASSUME TypeOK, Apart, NEW S \in SUBSET Tracked, S # {}
  PROVE  Coldest(S) # {} /\ Oldest(S) # {}
<1>1. IsFiniteSet(S) BY FS_Subset, CacheAssumption DEF CacheAssumption, Tracked
<1>2. \A x \in S : uses[x] \in Nat /\ inserted[x] \in Nat BY DEF Tracked, TypeOK, TypeEntries
<1>3. \A x, y \in S : x # y => inserted[x] # inserted[y] BY DEF Apart
<1> DEFINE Cold == {u \in SUBSET S : u # {} => \E v \in u : \A x \in u \ {v} : Colder(v, x)}
           Old == {u \in SUBSET S : u # {} => \E v \in u : \A x \in u \ {v} : inserted[v] < inserted[x]}
<1>4. ASSUME NEW s \in SUBSET S, \A t \in SUBSET s : t # s => t \in Cold PROVE s \in Cold
  <2>1. SUFFICES ASSUME s # {} PROVE \E v \in s : \A x \in s \ {v} : Colder(v, x) OBVIOUS
  <2>2. PICK p \in s : TRUE BY <2>1
  <2>3. CASE s = {p} BY <2>3
  <2>4. CASE s # {p}
    <3>0. s \ {p} \in Cold /\ s \ {p} # {}
      <4>1. s \ {p} \in SUBSET s /\ s \ {p} # s /\ s \ {p} # {} BY <2>2, <2>4
      <4> HIDE DEF Cold
      <4> QED BY <1>4, <4>1
    <3>1. PICK v \in s \ {p} : \A x \in (s \ {p}) \ {v} : Colder(v, x) BY <3>0
    <3>2. CASE Colder(v, p) BY <3>1, <3>2
    <3>3. CASE ~Colder(v, p)
      <4>1. \A x \in s \ {p} : Colder(p, x) BY <1>2, <1>3, <3>1, <3>3 DEF Colder
      <4> QED BY <4>1
    <3> QED BY <3>2, <3>3
  <2> QED BY <2>3, <2>4
<1>5. ASSUME NEW s \in SUBSET S, \A t \in SUBSET s : t # s => t \in Old PROVE s \in Old
  <2>1. SUFFICES ASSUME s # {} PROVE \E v \in s : \A x \in s \ {v} : inserted[v] < inserted[x]
    OBVIOUS
  <2>2. PICK p \in s : TRUE BY <2>1
  <2>3. CASE s = {p} BY <2>3
  <2>4. CASE s # {p}
    <3>0. s \ {p} \in Old /\ s \ {p} # {}
      <4>1. s \ {p} \in SUBSET s /\ s \ {p} # s /\ s \ {p} # {} BY <2>2, <2>4
      <4> HIDE DEF Old
      <4> QED BY <1>5, <4>1
    <3>1. PICK v \in s \ {p} : \A x \in (s \ {p}) \ {v} : inserted[v] < inserted[x] BY <3>0
    <3>2. CASE inserted[v] < inserted[p] BY <3>1, <3>2
    <3>3. CASE ~(inserted[v] < inserted[p])
      <4>1. \A x \in s \ {p} : inserted[p] < inserted[x] BY <1>2, <1>3, <3>1, <3>3
      <4> QED BY <4>1
    <3> QED BY <3>2, <3>3
  <2> QED BY <2>3, <2>4
<1> HIDE DEF Cold, Old
<1>6. SUBSET S \subseteq Cold BY <1>1, <1>4, SubsetInduction
<1>7. SUBSET S \subseteq Old BY <1>1, <1>5, SubsetInduction
<1>8. S \in Cold /\ S \in Old BY <1>6, <1>7
<1> QED BY <1>8 DEF Cold, Old, Coldest, Oldest

\* Renumbering the entries keeps them apart, and a new one comes last.
LEMMA ApartStep ==
  ASSUME TypeOK, Coherent, Apart, [Next]_vars
  PROVE  Apart'
<1>1. CASE UNCHANGED inserted /\ Tracked' \subseteq Tracked BY <1>1 DEF Apart
<1>2. ASSUME NEW S \in SUBSET Keys, Forget(S) PROVE Apart'
  <2>1. Tracked' = Tracked \ S /\ inserted' = Ranked(Tracked \ S) BY <1>2 DEF Forget, Tracked
  <2>2. SUFFICES ASSUME NEW a \in Tracked \ S, NEW b \in Tracked \ S, a # b
                 PROVE  Ranked(Tracked \ S)[a] # Ranked(Tracked \ S)[b]
    BY <2>1 DEF Apart
  <2>3. inserted[a] \in Nat /\ inserted[b] \in Nat /\ inserted[a] # inserted[b]
    BY <2>2 DEF Apart, Tracked, TypeOK, TypeEntries
  <2>4. Tracked \ S \in SUBSET Keys BY DEF Tracked
  <2>5. Ranked(Tracked \ S)[a] \in Nat /\ Ranked(Tracked \ S)[b] \in Nat
    BY <2>4, RankedType DEF Tracked
  <2>6. CASE inserted[a] < inserted[b] BY <2>4, <2>5, <2>6, RankedOrder
  <2>7. CASE inserted[b] < inserted[a] BY <2>4, <2>5, <2>7, RankedOrder
  <2> QED BY <2>3, <2>6, <2>7
<1>3. ASSUME NEW k \in Keys, NEW t \in Tiers, NEW n, Enter(k, t, n), k \notin Tracked, t # "storage"
      PROVE  Apart'
  <2>1. Tracked \in SUBSET Keys BY DEF Tracked
  <2>2. Tracked' = Tracked \cup {k} BY <1>3 DEF Enter, Tracked, TypeOK, TypeEntries
  <2>3. Ranked(Tracked) \in [Keys -> Nat] BY <2>1, RankedType
  <2>4. inserted'[k] = Cardinality(Tracked) + 1
        /\ \A x \in Tracked : inserted'[x] = Ranked(Tracked)[x]
    BY <1>3, <2>1, <2>3 DEF Enter
  <2>5. \A x \in Tracked : Ranked(Tracked)[x] <= Cardinality(Tracked) /\ Cardinality(Tracked) \in Nat
    BY <2>1, RankedBound
  <2>6. ASSUME NEW a \in Tracked, NEW b \in Tracked, a # b PROVE inserted'[a] # inserted'[b]
    <3>1. inserted[a] \in Nat /\ inserted[b] \in Nat /\ inserted[a] # inserted[b]
      BY <2>6 DEF Apart, Tracked, TypeOK, TypeEntries
    <3>2. Ranked(Tracked)[a] \in Nat /\ Ranked(Tracked)[b] \in Nat BY <2>1, <2>3
    <3>3. CASE inserted[a] < inserted[b] BY <2>1, <2>4, <3>2, <3>3, RankedOrder
    <3>4. CASE inserted[b] < inserted[a] BY <2>1, <2>4, <3>2, <3>4, RankedOrder
    <3> QED BY <3>1, <3>3, <3>4
  <2>7. ASSUME NEW a \in Tracked PROVE inserted'[a] # inserted'[k] BY <2>1, <2>3, <2>4, <2>5
  <2> QED BY <2>2, <2>6, <2>7 DEF Apart
<1>4. ASSUME NEW k \in Keys, AdmitTransient(k) \/ AdmitExpert(k) \/ AdmitDense(k) PROVE Apart'
  <2>1. k \notin Tracked
    BY <1>4 DEF AdmitTransient, AdmitExpert, AdmitDense, RoomMade, Tracked, Coherent, JobOK
  <2>2. Enter(k, "transient", 1) \/ Enter(k, "device", 1) \/ Enter(k, "device", 0)
    BY <1>4 DEF AdmitTransient, AdmitExpert, AdmitDense
  <2>3. "transient" \in Tiers /\ "device" \in Tiers BY DEF Tiers
  <2>4. CASE Enter(k, "transient", 1) BY <1>3, <2>1, <2>3, <2>4
  <2>5. CASE Enter(k, "device", 1) BY <1>3, <2>1, <2>3, <2>5
  <2>6. CASE Enter(k, "device", 0) BY <1>3, <2>1, <2>3, <2>6
  <2> QED BY <2>2, <2>4, <2>5, <2>6
<1>5. ASSUME NEW k \in Keys, DemoteToHost(k) \/ Promote(k) PROVE UNCHANGED inserted /\ Tracked' \subseteq Tracked
  BY <1>5 DEF DemoteToHost, Promote, HostRoomMade, RoomMade, Tracked, Coherent, JobOK, TypeOK,
    TypeEntries
<1>6. \/ UNCHANGED inserted /\ Tracked' \subseteq Tracked
      \/ \E k \in Keys : \/ AdmitTransient(k) \/ AdmitExpert(k) \/ AdmitDense(k)
                         \/ DemoteToHost(k) \/ Promote(k) \/ Forget({k})
  BY DEF Next, vars, entryVars, Tracked, AcquireBound, AcquireHosted, AcquireMissing, AcquireFails,
    BeginDemotion, EvictHosted, DemoteToStorage, PromoteFails, ClaimAdmitted, Release, Prefetch,
    ClearEntry, ForwardFails, DropStalest, DropStalestRaises, PrefetchStarted, ApplyPlan, Resize,
    Resized, Clear, Close, Cleared
<1> QED BY <1>1, <1>2, <1>4, <1>5, <1>6

\* Apart is an invariant, whatever fails.
LEMMA AlwaysApart == Spec => []Apart
<1>1. Init => Apart BY DEF Init, Apart, Tracked
<1> QED BY <1>1, ApartStep, Typed, AlwaysCoherent, PTL DEF Spec

\* The eviction loop stops when it fits, or when nothing on the device could still go.
LEMMA RoomOrNone ==
  ASSUME TypeOK, Coherent, Apart, NEW at \in {"promote", "admit", "resize"}, RoomMade(at)
  PROVE  ~Overfull \/ \A d \in inDevice : ~Evictable(d)
<1>1. SUFFICES ASSUME Overfull, EvictableHere # {} PROVE FALSE BY DEF EvictableHere
<1>2. NextVictim = {} BY <1>1 DEF RoomMade, Victims
<1>3. EvictableHere \in SUBSET Tracked BY DEF EvictableHere, Tracked, Coherent, DictsOK
<1>4. EvictableHere \cap Experts \in SUBSET Tracked BY <1>3
<1> QED BY <1>1, <1>2, <1>3, <1>4, VictimExists DEF NextVictim

\* An acquire or a shrink leaves the device within its capacity, or with nothing on it but what just
\* came in and what is pinned or in use: for all sizes, capacities and plans, whatever fails.
THEOREM Fits == Spec => WithinCapacity
<1> DEFINE Making == {"promote", "admit", "resize"}
           Done == \/ capacity = 0 \/ deviceBytes' <= capacity
                   \/ \A d \in inDevice' \ {job.key} : ~Evictable(d)
<1>1. ASSUME TypeOK, Coherent, BytesAgree, Apart, [Next]_vars, job.at \in Making, job'.at \notin Making
      PROVE  Done
  <2>1. deviceBytes \in Nat
    <3>1. inDevice \subseteq Keys /\ \A x \in inDevice : Size[x] \in Nat
      BY <1>1, CacheAssumption DEF CacheAssumption, TypeOK, TypeTiers
    <3>2. IsFiniteSet(inDevice) BY <3>1, FS_Subset, CacheAssumption DEF CacheAssumption
    <3> QED BY <1>1, <3>1, <3>2, SumType DEF BytesAgree
  <2>2. capacity \in Nat /\ \A x \in Keys : Size[x] \in Nat
    BY <1>1, CacheAssumption DEF CacheAssumption, TypeOK, TypeRest
  <2>3. ASSUME NEW k \in Keys, Promote(k) \/ AdmitExpert(k) \/ AdmitDense(k) PROVE Done
    <3>1. AddToDevice(k) /\ k = job.key /\ Need = Size[k] /\ (RoomMade("promote") \/ RoomMade("admit"))
      BY <2>3 DEF Promote, AdmitExpert, AdmitDense, Need, RoomMade
    <3>2. ~Overfull \/ \A d \in inDevice : ~Evictable(d)
      BY <1>1, <3>1, RoomOrNone
    <3>3. inDevice' \ {job.key} \subseteq inDevice /\ deviceBytes' = deviceBytes + Size[k]
      BY <3>1 DEF AddToDevice
    <3> QED BY <2>1, <2>2, <3>1, <3>2, <3>3 DEF Overfull
  <2>4. ASSUME UNCHANGED <<inDevice, deviceBytes>>,
               RoomMade("promote") \/ RoomMade("admit") \/ RoomMade("resize")
        PROVE  Done
    <3>1. ~Overfull \/ \A d \in inDevice : ~Evictable(d) BY <1>1, <2>4, RoomOrNone
    <3>2. Need \in Nat BY <1>1, <2>2 DEF Need, Coherent, JobOK
    <3> QED BY <2>1, <2>2, <2>4, <3>1, <3>2 DEF Overfull
  <2>5. ASSUME NEW k \in Keys, PromoteFails(k) \/ AdmitTransient(k) PROVE Done
    BY <2>4, <2>5 DEF PromoteFails, AdmitTransient, tierVars
  <2>6. ASSUME Resized PROVE Done BY <2>4, <2>6 DEF Resized, tierVars
  <2>7. ASSUME NEW k \in Keys, BeginDemotion(k) \/ DemoteToHost(k) \/ DemoteToStorage(k) PROVE FALSE
    <3>1. \E v \in {k, NoKey} : job' = [job EXCEPT !.victim = v]
      BY <2>7 DEF BeginDemotion, DemoteToHost, DemoteToStorage
    <3>2. ASSUME NEW v \in {k, NoKey}, job' = [job EXCEPT !.victim = v] PROVE job'.at = job.at
      BY <1>1, <3>2 DEF TypeOK, TypeRest, Jobs
    <3> QED BY <1>1, <3>1, <3>2
  <2>8. job.at # "idle" /\ job # Idle BY <1>1, JobFields
  <2>9. \A k \in Keys : /\ ~AcquireBound(k) /\ ~AcquireHosted(k) /\ ~AcquireMissing(k)
                        /\ ~AcquireFails(k) /\ ~Release(k) /\ ~Prefetch(k) /\ ~EvictHosted(k)
                        /\ ~ClaimAdmitted(k) /\ ~ClearEntry(k)
    BY <1>1, <2>8 DEF AcquireBound, AcquireHosted, AcquireMissing, AcquireFails, Release, Prefetch,
      MayClaim, EvictHosted, ClaimAdmitted, ClearEntry, RoomMade
  <2>10. /\ ~ForwardFails /\ ~DropStalest /\ ~DropStalestRaises /\ ~PrefetchStarted
         /\ ~Clear /\ ~Close /\ ~Cleared /\ ~(UNCHANGED vars)
         /\ \A P \in Plans : ~ApplyPlan(P)
         /\ \A c \in Capacities : ~Resize(c)
    BY <1>1, <2>8 DEF ForwardFails, DropStalest, DropStalestRaises, PrefetchStarted, Clear, Close,
      Cleared, ApplyPlan, Resize, vars
  <2> HIDE DEF Done, Making
  <2> QED BY <1>1, <2>3, <2>5, <2>6, <2>7, <2>9, <2>10 DEF Next
<1>2. TypeOK /\ Coherent /\ BytesAgree /\ Apart /\ [Next]_vars
        => (job.at \in Making /\ job'.at \notin Making => Done)
  BY <1>1
<1> QED BY <1>2, Typed, AlwaysCoherent, AlwaysCountingBytes, AlwaysApart, PTL DEF Spec, WithinCapacity
================================================================================
