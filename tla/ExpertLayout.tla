----------------------------- MODULE ExpertLayout -----------------------------
(***************************************************************************)
(* Finding the experts of a decoder layer from its structure (moe/detect). *)
(* A mixture block is a function from the names of its children to records:*)
(*    entries, alike    modules named by integers, built identically       *)
(*    rows              the leading dimension of its own batched parameters*)
(*    shard             what the shard stores of it: "modules", "fused",   *)
(*                      "per expert" or "nothing"                          *)
(*    sources           expert |-> the tensors the shard has of it         *)
(*    leads, reads      a parameter's leading dimension, and whether it is *)
(*                      a matrix over the width the experts use            *)
(*    quantized         its tensors are rebuilt by a quantizer             *)
(*    place             where its name comes in the order of names         *)
(*    routed            the model uses what was routed to, and no more     *)
(* A tensor of the shard is <<child, expert, source>>; the expert is Absent *)
(* for a tensor no expert owns.                                            *)
(***************************************************************************)
EXTENDS Integers, FiniteSets, Sequences

Absent == -1
NoName == ""
MinExperts == 2

(***************************************************************************)
(* What the shard stores.                                                  *)
(***************************************************************************)
Kept(child, name) ==
    IF child.shard = "nothing" THEN {}
    ELSE IF child.sources = <<>> THEN {<<name, Absent, 1>>}
    ELSE UNION {{<<name, e, s>> : s \in child.sources[e]} : e \in DOMAIN child.sources}
Stored(block) == UNION {Kept(block[name], name) : name \in DOMAIN block}
Of(tensors, name, e) == {t \in tensors : t[1] = name /\ t[2] = e}
Under(block, names) == UNION {Kept(block[name], name) : name \in names}

(***************************************************************************)
(* The router: the one sibling with a score for each expert.  Where rows   *)
(* are to be read by its choice, it must read the width the experts do.    *)
(***************************************************************************)
\* Broken variant: what a router reads is not looked at
EmitsAny(child, n, checked) == child.leads = n
Emits(child, n, checked) == child.leads = n /\ (checked => child.reads)
FindRouter(block, name, n, checked) ==
    LET candidates == {s \in DOMAIN block \ {name} : Emits(block[s], n, checked)}
    IN  IF Cardinality(candidates) = 1 THEN CHOOSE s \in candidates : TRUE ELSE NoName

\* Whatever is neither the experts nor the router is used by every token.
FindShared(block, name, router) == {s \in DOMAIN block \ {name, router} : Kept(block[s], s) # {}}

AtLeastOne(n) == IF n < 1 THEN 1 ELSE n
ResolveTopK(declared, n) == IF declared \in 1..n THEN declared ELSE Absent

(***************************************************************************)
(* What the model class declares (conversion.py): a stack over the experts,*)
(* alone or joined along a dimension of the stack, is a fusion, and a row  *)
(* is the same join one dimension lower.  It says which sources an expert  *)
(* needs; a transform of any other kind is declined.                       *)
(***************************************************************************)
RowArithmetic(operations) ==
    CASE operations = <<"stack">> -> [fusion |-> TRUE, dim |-> Absent]
      [] Len(operations) = 2 /\ Head(operations) = "stack" /\ operations[2] \in {"dim 1", "dim 2"} ->
            [fusion |-> TRUE, dim |-> IF operations[2] = "dim 1" THEN 0 ELSE 1]
      [] OTHER -> [fusion |-> FALSE, dim |-> Absent]
Declares(transform) ==
    LET row == RowArithmetic(transform.operations)
    IN  /\ transform.targets = 1 /\ transform.sources > 0
        /\ row.fusion
        /\ transform.sources > 1 => row.dim # Absent
Sources(transform) == IF Declares(transform) THEN 1..transform.sources ELSE {}

(***************************************************************************)
(* The three layouts.                                                      *)
(***************************************************************************)
Container(layout, block, name, n, topk, router) ==
    [layout |-> layout, path |-> name, experts |-> n, topk |-> topk, router |-> router,
     shared |-> FindShared(block, name, router)]
NoContainer == [layout |-> "none", path |-> NoName, experts |-> 0, topk |-> Absent,
                router |-> NoName, shared |-> {}]

Held(child) == {e \in DOMAIN child.sources : child.sources[e] # {}}
ModuleList(block, name, declared) ==
    LET child == block[name]
        n == child.entries
    IN  IF child.alike /\ Cardinality(Held(child)) >= MinExperts
        THEN Container("module list", block, name, n, ResolveTopK(declared, n),
                       FindRouter(block, name, n, FALSE))
        ELSE NoContainer

\* Every expert that has some of the sources has all of them, and there are as many as the module
\* builds.  Whatever else the shard has of an expert is not looked at.
Matched(child, parts) == {e \in DOMAIN child.sources : child.sources[e] \cap parts # {}}
Mergeable(child, parts) ==
    /\ \A e \in Matched(child, parts) : parts \subseteq child.sources[e]
    /\ Cardinality(Matched(child, parts)) = child.rows

Fused(block, name, declared, parts) ==
    LET child == block[name]
        n == child.rows
        router == FindRouter(block, name, n, TRUE)
        topk == ResolveTopK(declared, n)
        layout == IF child.shard = "fused" THEN "fused" ELSE "fused merge"
    IN  IF /\ n >= MinExperts
           /\ child.shard = "fused" \/ (child.shard = "per expert" /\ Mergeable(child, parts))
           /\ router # NoName /\ topk # Absent
        THEN Container(layout, block, name, n, topk, router)
        ELSE NoContainer

\* The containers of a block, with what the config and the model class declare.
Detect(block, declared, transform) ==
    LET candidate(name) == IF block[name].entries >= MinExperts THEN ModuleList(block, name, declared)
                           ELSE Fused(block, name, declared, Sources(transform))
    IN  {candidate(name) : name \in DOMAIN block} \ {NoContainer}

\* The container a subclass names, for experts the structure does not show.
Configured(block, hint, declared) ==
    {[NoContainer EXCEPT !.layout = "module list", !.path = name, !.experts = Cardinality(Held(block[name])),
                         !.topk = ResolveTopK(declared, Cardinality(Held(block[name])))] :
        name \in {n \in DOMAIN block \cap {hint} : Cardinality(Held(block[n])) >= MinExperts}}

\* Of two lists that hold an expert of one number, the one whose name comes last.
LastHolding(block, lists, e) == CHOOSE c \in lists :
    /\ e \in Held(block[c.path])
    /\ \A d \in lists : e \in Held(block[d.path]) => block[d.path].place <= block[c.path].place

IsFused(c) == c.layout \in {"fused", "fused merge"}
===============================================================================
