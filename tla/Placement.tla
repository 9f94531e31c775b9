------------------------------- MODULE Placement -------------------------------
(***************************************************************************)
(* How much the weight cache may hold, and what it keeps: VramBudget       *)
(* (memory/budget.py), the pin plan (memory/placement.py), the popularity  *)
(* of experts (moe/expert_cache.py), and what the engine makes of them     *)
(* (base.py, _budget_changed and _replan_expert_pins).                     *)
(*                                                                         *)
(* All of it runs on the thread that generates, between two modules, so    *)
(* nothing is in use when it does.  The cache is seen from outside: what   *)
(* it holds, what is pinned, and that it evicts until it fits; WeightCache *)
(* says which.                                                             *)
(***************************************************************************)
EXTENDS Integers, FiniteSetsExt, SequencesExt

CONSTANTS
  Pool, Reserve,     \* bytes of the device; reserve_bytes
  Loads,             \* what everything but the cache may have allocated
  MaxLoads,          \* bound: how often that changes
  Ratio, Share,      \* hysteresis_ratio and the window's share, as <<numerator, denominator>>
  Samples, Depth,    \* hysteresis_samples; length of the history
  Units,             \* what can be pinned
  Class, Bytes,      \* priority and packed_bytes of each
  Named,             \* its key, in the order of str(key)
  Layers, Experts,   \* the layers that route; the routed experts of each
  AgingInterval, ReplanInterval,
  One,               \* what one use counts: enough to be halved exactly whenever counts age
  MaxFirings         \* bound: router firings

Always == 0  Shared == 1  Routed == 2

ASSUME PlacementAssumption ==
  /\ Pool \in Nat /\ Reserve \in 0..Pool /\ Loads \subseteq Nat /\ MaxLoads \in Nat
  /\ Ratio \in Nat \X (Nat \ {0}) /\ Share \in Nat \X (Nat \ {0}) /\ Share[1] <= Share[2]
  /\ Samples \in Nat \ {0} /\ Depth \in Nat /\ Depth >= Samples
  /\ Class \in [Units -> {Always, Shared, Routed}] /\ Bytes \in [Units -> Nat \ {0}]
  /\ Named \in [Units -> Nat] /\ \A u, v \in Units : Named[u] = Named[v] => u = v
  /\ IsFiniteSet(Units) /\ IsFiniteSet(Layers) /\ Experts \in [Layers -> SUBSET Units]
  /\ UNION {Experts[l] : l \in Layers} = {u \in Units : Class[u] = Routed}
  /\ \A l, m \in Layers : l # m => Experts[l] \cap Experts[m] = {}
  /\ AgingInterval \in Nat \ {0} /\ ReplanInterval \in Nat \ {0} /\ MaxFirings \in Nat
  /\ One \in Nat \ {0} /\ One % 2 ^ (MaxFirings \div AgingInterval) = 0

VARIABLES
  others, loads,           \* device bytes allocated outside the cache; changes so far
  target, streak, history, \* _target; its count, sign and low; usable of the last readings
  share,                   \* _window_share
  capacity, pinBudget,     \* cache.device.capacity; _pin_budget
  pinned, resident,        \* cache.pinned; the units on the device
  visits, uses,            \* ExpertStats: firings of each layer, uses of each expert
  sinceReplan, replanned   \* _since_replan; whether replans > 0

statVars == <<visits, uses, sinceReplan, replanned>>
cacheVars == <<capacity, pinBudget, pinned, resident>>
budgetVars == <<target, streak, history>>
vars == <<others, loads, share, budgetVars, cacheVars, statVars>>

\* The bytes of a set of units
Held == [S \in SUBSET Units |-> SumFunctionOnSet(Bytes, S)]

-----------------------------------------------------------------------------
(* VramBudget                                                              *)

\* Broken variant: what the cache holds is added after the floor
MeasureFloored ==
  Max({0, Pool - others - Held[resident] - Reserve}) + Held[resident]

\* measure(): free memory without the reserve, and what the cache holds itself
Measure ==
  LET headroom == Pool - others - Held[resident] - Reserve
  IN  Max({0, headroom + Held[resident]})

NoStreak == [count |-> 0, up |-> FALSE, low |-> 0]

\* scale() and band_for()
Band == (Max({target} \cup ToSet(history)) * Ratio[1]) \div Ratio[2]

Record(usable) ==
  history' = LET all == Append(history, usable)
             IN  SubSeq(all, Max({1, Len(all) - Depth + 1}), Len(all))

\* The streak with a reading outside the band
Streak(usable) ==
  LET goesOn == streak.count > 0 /\ streak.up = (usable > target)
  IN  [count |-> IF goesOn THEN streak.count + 1 ELSE 1, up |-> usable > target,
       low |-> IF goesOn THEN Min({streak.low, usable}) ELSE usable]

-----------------------------------------------------------------------------
(* The pin plan                                                            *)

Firings == SumFunctionOnSet(visits, Layers)

LayerOf(u) == CHOOSE l \in Layers : u \in Experts[l]

\* accesses_per_token as a fraction: frequency() for an expert, 1.0 for what every token reads
Accesses(u) ==
  IF Class[u] # Routed THEN <<1, 1>>
  ELSE IF visits[LayerOf(u)] = 0 THEN <<0, 1>>
  ELSE <<Min({uses[u], visits[LayerOf(u)] * One}), visits[LayerOf(u)] * One>>

\* rank(): class, savings per byte, size, key
Before(u, v) ==
  LET savings(a, b) == Accesses(a)[1] * (Accesses(b)[2] * Bytes[b])
  IN  \/ Class[u] < Class[v]
      \/ /\ Class[u] = Class[v]
         /\ \/ savings(u, v) > savings(v, u)
            \/ savings(u, v) = savings(v, u) /\ Bytes[u] < Bytes[v]
            \/ savings(u, v) = savings(v, u) /\ Bytes[u] = Bytes[v] /\ Named[u] < Named[v]

\* _pin_candidates: no expert before anything has routed
Candidates == {u \in Units : Class[u] = Routed => Firings > 0}

LastOf(S) == CHOOSE u \in S : \A v \in S \ {u} : Before(v, u)

\* Broken variant: the fill ends at the first that does not fit
PlanPrefix(budget) ==
  LET fill[S \in SUBSET Candidates] ==
        IF S = {} THEN {}
        ELSE LET last == LastOf(S)
                 above == fill[S \ {last}]
             IN  IF above = S \ {last} /\ Held[S] <= budget THEN S ELSE above
  IN  fill[Candidates]

\* plan_pins: each in its turn, if it fits beside those before it
Plan(budget) ==
  LET fill[S \in SUBSET Candidates] ==
        IF S = {} THEN {}
        ELSE LET last == LastOf(S)
                 above == fill[S \ {last}]
             IN  IF Held[above \cup {last}] <= budget THEN above \cup {last} ELSE above
  IN  fill[Candidates]

PinBudget(bytes) == bytes - (bytes * share[1]) \div share[2]

-----------------------------------------------------------------------------
(* The cache, from outside                                                 *)

\* _make_room: what may be left of S so that `more` bytes fit, when `kept` stays
Evicted(S, kept, more, room) ==
  IF room = 0 THEN {S}
  ELSE {R \in SUBSET S :
          /\ S \cap kept \subseteq R
          /\ Held[R] + more <= room \/ R \subseteq kept
          /\ R # S => \E u \in S \ R : Held[R \cup {u}] + more > room}

\* Broken variant: the cache is resized while it still holds the old pins
BudgetChangedFirst(bytes) ==
  /\ capacity' = bytes
  /\ pinBudget' = PinBudget(bytes)
  /\ pinned' = Plan(pinBudget')
  /\ resident' \in Evicted(resident, pinned, 0, bytes)

\* _budget_changed: the plan first, then the capacity
BudgetChanged(bytes) ==
  /\ capacity' = bytes
  /\ pinBudget' = PinBudget(bytes)
  /\ pinned' = Plan(pinBudget')
  /\ resident' \in Evicted(resident, pinned', 0, bytes)

-----------------------------------------------------------------------------
\* The budget measures before the weights are placed, the engine sizes the cache after it; a full
\* device at that moment leaves no share to compute
Init ==
  /\ others \in Loads /\ others + Reserve <= Pool /\ loads = 0
  /\ \E before \in {o \in Loads : o <= others} :
       target = Pool - Reserve - before /\ history = <<target>>
  /\ streak = NoStreak
  /\ visits = [l \in Layers |-> 0]
  /\ uses = [u \in UNION {Experts[l] : l \in Layers} |-> 0]
  /\ sinceReplan = 0 /\ replanned = FALSE /\ resident = {}
  /\ capacity = Measure /\ share = (IF capacity > 0 THEN Share ELSE <<0, 1>>)
  /\ pinBudget = PinBudget(capacity) /\ pinned = Plan(pinBudget)

\* The KV cache, a draft model, another process: memory is there or it cannot be taken
Load(bytes) ==
  /\ loads < MaxLoads /\ bytes # others
  /\ bytes + Held[resident] <= Pool
  /\ others' = bytes /\ loads' = loads + 1
  /\ UNCHANGED <<share, budgetVars, cacheVars, statVars>>

\* A module runs: its weights are brought in, and room is made for them
Use(u) ==
  /\ u \notin resident
  /\ \E rest \in Evicted(resident, pinned, Bytes[u], capacity) :
       /\ others + Held[rest \cup {u}] <= Pool
       /\ resident' = rest \cup {u}
  /\ UNCHANGED <<others, loads, share, budgetVars, capacity, pinBudget, pinned, statVars>>

\* sample(): publish the low of a streak that has lasted
Sample ==
  LET usable == Measure
      outside == usable > target + Band \/ usable < target - Band
      run == Streak(usable)
  IN  /\ UNCHANGED <<others, loads, share, statVars>>
      /\ Record(usable)
      /\ \/ ~outside /\ streak' = NoStreak /\ UNCHANGED <<target, cacheVars>>
         \/ /\ outside /\ run.count < Samples
            /\ streak' = run /\ UNCHANGED <<target, cacheVars>>
         \/ /\ outside /\ run.count >= Samples
            /\ streak' = NoStreak /\ target' = run.low
            /\ BudgetChanged(target')

\* reset(), between generations and when an external claim is registered
Republish ==
  /\ target' = Measure /\ streak' = NoStreak /\ Record(target')
  /\ IF target' # target THEN BudgetChanged(target') ELSE UNCHANGED cacheVars
  /\ UNCHANGED <<others, loads, share, statVars>>

\* The interval's firing, at which all counts are halved
Ages == (Firings + 1) % AgingInterval = 0

\* ExpertStats.observe: the selection is counted first
Observe(l, selected) ==
  LET counted == [u \in DOMAIN uses |-> uses[u] + IF u \in selected THEN One ELSE 0]
  IN  /\ visits' = [visits EXCEPT ![l] = @ + 1]
      /\ uses' = IF Ages THEN [u \in DOMAIN uses |-> counted[u] \div 2] ELSE counted

\* Broken variant: the first plan waits for its interval like any other
ShouldReplanLate == sinceReplan + 1 >= ReplanInterval

\* _should_replan: on the interval, and the first time as soon as every layer has routed
ShouldReplan ==
  \/ sinceReplan + 1 >= ReplanInterval
  \/ ~replanned /\ \A l \in Layers : Experts[l] # {} => visits'[l] > 0

\* on_router: a layer has chosen
Fire(l, selected) ==
  /\ Firings < MaxFirings /\ selected # {}
  /\ Observe(l, selected)
  /\ UNCHANGED <<others, loads, share, budgetVars, capacity, pinBudget, resident>>
  /\ IF ShouldReplan
     THEN sinceReplan' = 0 /\ replanned' = TRUE /\ pinned' = Plan(pinBudget)'
     ELSE sinceReplan' = sinceReplan + 1 /\ UNCHANGED <<replanned, pinned>>

Next ==
  \/ \E bytes \in Loads : Load(bytes)
  \/ \E u \in Units : Use(u)
  \/ Sample \/ Republish
  \/ \E l \in Layers : \E selected \in SUBSET Experts[l] : Fire(l, selected)

\* Every forward samples, and forwards go on
Spec == Init /\ [][Next]_vars
FairSpec == Spec /\ WF_vars(Sample)

-----------------------------------------------------------------------------
(* Properties                                                              *)

\* The plan fits, and what it leaves out has no room beside what ranks in its class or above: no
\* expert displaces a module every token reads (base.py:1770-1774), no room stays unused
\* (placement.py:138), and experts count as soon as every layer has routed (expert_cache.py:284).
PlanIsBest ==
  /\ Held[pinned] <= pinBudget
  /\ \A u \in Units \ pinned :
       \/ Class[u] = Routed /\ \E l \in Layers : Experts[l] # {} /\ visits[l] = 0
       \/ Held[{v \in pinned : Class[v] <= Class[u]}] + Bytes[u] > pinBudget

\* A new capacity is met at once: the pins that had to go are gone before the cache evicts
\* (base.py:1733-1737).  A capacity of zero evicts nothing (cache.py:459).
ResizeFits == [][capacity' # capacity /\ capacity' > 0 => Held[resident'] <= capacity']_vars

\* When memory stops moving, the budget comes within the band of what is there, whatever the cache
\* holds by then.
BudgetFollows ==
  <>[](LET there == Max({0, Pool - others - Reserve})
           band == (Max({target, there}) * Ratio[1]) \div Ratio[2]
       IN  target - there <= band /\ there - target <= band)
================================================================================
