-------------------------------- MODULE Mixture --------------------------------
(***************************************************************************)
(* Streaming one decoder layer that holds a mixture: the engine sets up    *)
(* hooks by what ExpertLayout finds, and the model, which knows nothing of *)
(* them, calls its modules.  What the layer's own hook does not load has   *)
(* to be loaded by somebody else before it is used: an expert or a shared  *)
(* module through the cache, the rows of a fused tensor by the container's *)
(* hook, which knows them from the router's.  The cache may evict what no  *)
(* running module has claimed, and a forward may die anywhere.             *)
(***************************************************************************)
EXTENDS ExpertLayout

CONSTANTS
    Layers,          \* [block, scorer, called, declared, transform, hint]: a layer, how its model
                     \* routes, and what is declared of it
    MaxForwards,     \* bound: visits of the layer
    MaxDeaths        \* bound: forwards that die

VARIABLES
    layer, seekable, \* the layer, and whether its shard can be read by the tensor
    loaded,        \* the units the cache holds on the device
    bound,           \* the tensors whose values are in the modules' parameters
    slot,            \* the choice a RouterSelection holds
    moved,           \* what the fused hook has placed (_rocketllm_moved)
    active, todo, running,     \* the forward: the calls the model has to make, and the one it is in
    chosen, form,    \* what the model routed to, and how the router said so
    forwards, deaths
model == <<layer, seekable>>
mixtureVars == <<model, loaded, bound, slot, moved, active, todo, running, chosen, form, forwards, deaths>>

block == layer.block
Unknown == {}        \* no choice: a choice is never empty
NoCall == <<NoName, Absent>>
LayerUnit == <<"dense", NoName, Absent>>
ExpertUnit(e) == <<"expert", NoName, e>>
SharedUnit(name) == <<"shared", name, Absent>>

(***************************************************************************)
(* _setup_expert_streaming.                                                *)
(***************************************************************************)
Containers == LET found == Detect(block, layer.declared, layer.transform)
              IN  IF found # {} THEN found ELSE Configured(block, layer.hint, layer.declared)
CannotStreamAlone(c) == IsFused(c) /\ block[c.path].quantized
Accepted == IF seekable THEN {c \in Containers : ~CannotStreamAlone(c)} ELSE {}

\* What the parameters of a module are made of.  Batched ones are made of the declared sources where
\* the shard stores single experts; what else it has of those has no home (_drop_homeless).
Homed(name) == LET child == block[name]
               IN  {t \in Kept(child, name) : child.rows > 0 /\ child.shard = "per expert"
                                                => t[3] \in Sources(layer.transform)}
Owned(c) == Homed(c.path) \cup Under(block, c.shared)
NonExpertKeys == Stored(block) \ UNION {Owned(c) : c \in Accepted}

\* Units are named by what they are, and an expert by its number in the layer; of two units of
\* one name the tensors of the one registered last are read.
Lists == {c \in Accepted : ~IsFused(c)}
ExpertUnits == UNION {{ExpertUnit(e) : e \in Held(block[c.path])} : c \in Lists}
SharedUnits == UNION {{SharedUnit(s) : s \in c.shared} : c \in Accepted}
Units == {LayerUnit} \cup ExpertUnits \cup SharedUnits
Registered(e) == LastHolding(block, Lists, e)
LayerTensors == {t \in NonExpertKeys : t \in Homed(t[1])}
TensorsOf(unit) ==
    CASE unit = LayerUnit -> LayerTensors
      [] unit[1] = "shared" -> Kept(block[unit[2]], unit[2])
      [] OTHER -> LET c == Registered(unit[3]) IN Of(Homed(c.path), c.path, unit[3])

\* The unit a call's module is hooked as; the container whose rows it reads.
UnitOf(call) == Units \cap (IF call[2] = Absent THEN {SharedUnit(call[1])}
                            ELSE IF call[1] \in {c.path : c \in Lists} THEN {ExpertUnit(call[2])}
                            ELSE {})
FusedAt(call) == {c \in Accepted : IsFused(c) /\ c.path = call[1]}
HooksRouter(c) == c.router # NoName /\ c.topk # Absent
Watching(call) == {c \in Accepted : HooksRouter(c) /\ call = <<c.router, Absent>>}

\* A batched module cannot hold the tensors of single experts: unless they are merged its parameters
\* are never placed, and the model fails by their name at the first forward.
Loads == \A name \in DOMAIN block :
    block[name].rows > 0 /\ block[name].shard = "per expert" => \E c \in Accepted : c.path = name

MixtureInit ==
    /\ layer \in Layers /\ seekable \in BOOLEAN /\ Loads
    /\ IF layer.called THEN TRUE ELSE Kept(block[layer.scorer], layer.scorer) \subseteq NonExpertKeys
    /\ loaded = {} /\ bound = {} /\ slot = Unknown /\ moved = {}
    /\ active = FALSE /\ todo = {} /\ running = NoCall
    /\ chosen = Unknown /\ form = "none"
    /\ forwards = 0 /\ deaths = 0

(***************************************************************************)
(* The model's forward.  Modules that every token uses are called in any   *)
(* order, routed ones once the router has scored; a list of experts may    *)
(* be walked to the end, whatever was chosen.                              *)
(***************************************************************************)
Experts == UNION {DOMAIN block[name].sources : name \in {n \in DOMAIN block : block[n].routed}}
Selections == {s \in SUBSET Experts : Cardinality(s) >= AtLeastOne(layer.declared)}
Calls(name, experts) == IF block[name].entries > 0 THEN {<<name, e>> : e \in experts} ELSE {<<name, Absent>>}
Always == UNION {Calls(name, DOMAIN block[name].sources) : name \in {n \in DOMAIN block : ~block[n].routed}}
Routed(experts) == UNION {Calls(name, experts) : name \in {n \in DOMAIN block : block[n].routed}}
Routes(choice) ==
    /\ chosen' = choice
    /\ \E walked \in {choice, Experts} : todo' = (todo \ {running}) \cup Routed(walked)

Claimed == (IF active THEN {LayerUnit} ELSE {}) \cup UnitOf(running)
Acquire(units) ==
    /\ loaded' = loaded \cup units
    /\ bound' = bound \cup UNION {TensorsOf(u) : u \in units \ loaded}

\* A model that uses its router's weight without calling the module fires no hook.
Start ==
    /\ ~active /\ forwards < MaxForwards
    /\ active' = TRUE /\ forwards' = forwards + 1
    /\ Acquire({LayerUnit})
    /\ IF layer.called
       THEN todo' = Always /\ chosen' = Unknown /\ form' = "none"
       ELSE \E choice \in Selections :
              /\ chosen' = choice
              /\ todo' = (Always \ {<<layer.scorer, Absent>>}) \cup Routed(choice)
              /\ form' = "direct"
    /\ UNCHANGED <<model, slot, moved, running, deaths>>

(***************************************************************************)
(* Hooks.                                                                  *)
(***************************************************************************)
\* RouterSelection.take, and _fused_pre_hook: with no choice, every row.
Taken == Unknown
\* Broken variant: every row is read, whatever was chosen
AllRows(c) == 0..(c.experts - 1)
Rows(c) == IF slot = Unknown THEN 0..(c.experts - 1) ELSE slot
Placed(c) == {t \in Homed(c.path) : t[2] \in Rows(c)}

Enter(call) ==
    /\ active /\ running = NoCall /\ call \in todo
    /\ running' = call
    /\ LET units == UnitOf(call)
           read == bound \cup UNION {TensorsOf(u) : u \in units \ loaded}
       IN  /\ loaded' = loaded \cup units
           /\ IF FusedAt(call) = {}
              THEN bound' = read /\ UNCHANGED <<slot, moved>>
              ELSE \E c \in FusedAt(call) :
                     /\ slot' = Taken
                     /\ moved' = Placed(c)
                     /\ bound' = (read \ Homed(c.path)) \cup Placed(c)
    /\ UNCHANGED <<model, active, todo, chosen, form, forwards, deaths>>

\* What a module that is no router may be read as choosing.
AnyRows(call) == IF Watching(call) = {} THEN {Unknown}
                 ELSE UNION {(SUBSET (0..(c.experts - 1))) \ {Unknown} : c \in Watching(call)}
\* RouterSelection.observe: one tensor with a score for each expert gives the choice, anything
\* else gives none.
Observed(output, choice) == IF output = "scores" THEN choice ELSE Unknown
Scores(call) == call = <<layer.scorer, Absent>>
Leave ==
    /\ running # NoCall
    /\ running' = NoCall
    /\ \E choice \in (IF Scores(running) THEN Selections ELSE AnyRows(running)), output \in {"scores", "unreadable"} :
         /\ IF Scores(running)
            THEN Routes(choice) /\ form' = output
            ELSE todo' = todo \ {running} /\ UNCHANGED <<chosen, form>>
         /\ slot' = IF Watching(running) = {} THEN slot ELSE Observed(output, choice)
    \* _fused_post_hook
    /\ bound' = bound \ UNION {Homed(c.path) : c \in FusedAt(running)}
    /\ moved' = IF FusedAt(running) = {} THEN moved ELSE {}
    /\ UNCHANGED <<model, loaded, active, forwards, deaths>>

Finish ==
    /\ active /\ running = NoCall /\ todo = {}
    /\ active' = FALSE
    /\ UNCHANGED <<model, loaded, bound, slot, moved, todo, running, chosen, form, forwards, deaths>>

\* An exception: no hook runs any more.  The references it strands (see WeightCache) are let go
\* here, which only allows more evictions.
Die ==
    /\ active /\ deaths < MaxDeaths
    /\ deaths' = deaths + 1
    /\ active' = FALSE /\ todo' = {} /\ running' = NoCall
    /\ UNCHANGED <<model, loaded, bound, slot, moved, chosen, form, forwards>>

\* The cache takes a unit off the device (_unbind).
Evict(unit) ==
    /\ unit \in loaded \ Claimed
    /\ loaded' = loaded \ {unit}
    /\ bound' = bound \ TensorsOf(unit)
    /\ UNCHANGED <<model, slot, moved, active, todo, running, chosen, form, forwards, deaths>>

MixtureNext == Start \/ (\E call \in todo : Enter(call)) \/ Leave \/ Finish \/ Die \/ (\E u \in loaded : Evict(u))
MixtureSpec == MixtureInit /\ [][MixtureNext]_mixtureVars

(***************************************************************************)
(* The layers the guarantees are about.                                    *)
(***************************************************************************)
\* A child is a list of modules, or has batched parameters, or neither.
ChildrenFit == NoName \notin DOMAIN block /\ \A name \in DOMAIN block :
    /\ block[name].entries \in Nat /\ block[name].rows \in Nat /\ block[name].place \in Nat
    /\ block[name].rows > 0 => block[name].entries = 0
    /\ DOMAIN block[name].sources \subseteq Nat

\* One child passes for the experts (two that do are a finding, see the run of TwoLists); the
\* one a subclass names is a list.
OneMixture ==
    /\ \A c, d \in Containers : c.path = d.path
    /\ layer.hint \in DOMAIN block => block[layer.hint].entries > 0

\* What is taken for shared is a module that is called: the hook of a list would never fire.
SharedAreCalled == \A c \in Containers : \A s \in c.shared : block[s].entries = 0

\* Batched parameters that are used by the row have every row in the shard and the model's scorer
\* beside them, with a score for each; batched parameters that are used whole have no sibling
\* that could be taken for one.
ScoresFor(child, n) == child.leads = n /\ child.reads
HasScorer(child, name) ==
    /\ layer.scorer \in DOMAIN block \ {name}
    /\ ~block[layer.scorer].routed /\ block[layer.scorer].entries = 0
    /\ ScoresFor(block[layer.scorer], child.rows)
HasAllRows(child) ==
    /\ DOMAIN child.sources = Experts /\ Experts \subseteq 0..(child.rows - 1)
    /\ \A e \in Experts : child.sources[e] # {}
RowsHaveScores == \A name \in DOMAIN block :
    block[name].rows > 0 =>
        IF block[name].routed THEN HasScorer(block[name], name) /\ HasAllRows(block[name])
        ELSE \A s \in DOMAIN block \ {name} : ~ScoresFor(block[s], block[name].rows)

WellBuilt ==
    /\ IsFiniteSet(DOMAIN block) /\ layer.declared \in Int
    /\ ChildrenFit /\ OneMixture /\ SharedAreCalled /\ RowsHaveScores
WellBuiltInit == MixtureInit /\ WellBuilt
WellBuiltSpec == WellBuiltInit /\ [][MixtureNext]_mixtureVars

(***************************************************************************)
(* Properties.                                                             *)
(***************************************************************************)
\* What a call uses: an expert's tensors, the rows the router chose, or everything.
Used(call) ==
    LET name == call[1]
        tensors == Homed(name)
    IN  IF call[2] # Absent THEN Of(tensors, name, call[2])
        ELSE IF block[name].routed THEN {t \in tensors : t[2] \in chosen}
        ELSE tensors

\* Whatever a module uses has its values when the module runs: each tensor of the layer has
\* somebody who loads it, rows are those of this token and not of an earlier one, and nothing in
\* use is evicted (detect.py: "guessing wrong about a mixture means silently wrong output").
UsedIsBound == running # NoCall => Used(running) \subseteq bound

\* A token pays for the experts it routed to, and no others, whenever its router can be read
\* (_fused_pre_hook).
OnlyRoutedAreRead ==
    running # NoCall /\ form = "scores" =>
        \A c \in FusedAt(running) \cap Watching(<<layer.scorer, Absent>>) : {t[2] : t \in moved} = chosen
===============================================================================
