------------------------------ MODULE LayerNames ------------------------------
(***************************************************************************)
(* How the splitter reads a checkpoint's structure off its tensor names    *)
(* (utils.py).  A name is the sequence of its dotted segments, a module    *)
(* path a shorter one, so that `name.startswith(path + '.')` is Under.     *)
(* A plan is the record of paths a model class declares: the embedding,    *)
(* the prefix of the repeated decoder layers, the final norm, the head,    *)
(* a rotary table (or None) and the modules kept resident.                 *)
(***************************************************************************)
EXTENDS Naturals, FiniteSets, Sequences, FiniteSetsExt, SequencesExt

CONSTANTS
    Digits,      \* the segments that are decimal numbers, in order
    None         \* a path that is not there

ASSUME DigitsAssumption ==
    /\ Digits \in Seq(STRING) /\ IsInjective(Digits)
    /\ None \notin Seq(STRING)

Digit == ToSet(Digits)
AtOrUnder(path, name) == IsPrefix(path, name)
Under(path, name) == path # name /\ IsPrefix(path, name)
Stored(names, path) == {n \in names : Under(path, n)}
Stem(prefix) == Front(prefix)

(***************************************************************************)
(* Every path that ends in `layers` and has a numbered child.              *)
(***************************************************************************)
Stacks(names) ==
    LET ends(n) == {i \in 1 .. Len(n) - 1 : n[i] = "layers" /\ n[i + 1] \in Digit}
    IN  UNION {{SubSeq(n, 1, i) : i \in ends(n)} : n \in names}
Blocks(names, prefix) == {n[Len(prefix) + 1] : n \in Stored(names, prefix)} \cap Digit

(***************************************************************************)
(* The decoder among them: beside a token embedding first, then the longer *)
(* stack, then the outer one.                                              *)
(***************************************************************************)
HasEmbedding(names, prefix) == \E n \in names : AtOrUnder(Stem(prefix) \o <<"embed_tokens">>, n)
Outranks(names, p, q) ==
    LET rank(x) == <<IF HasEmbedding(names, x) THEN 1 ELSE 0, Cardinality(Blocks(names, x))>>
    IN  \/ rank(p)[1] > rank(q)[1]
        \/ rank(p)[1] = rank(q)[1] /\ rank(p)[2] > rank(q)[2]
        \/ rank(p) = rank(q) /\ Len(p) <= Len(q)
DecoderPrefix(names) ==
    IF Stacks(names) = {} THEN None
    ELSE CHOOSE p \in Stacks(names) : \A q \in Stacks(names) : Outranks(names, p, q)

(***************************************************************************)
(* The first candidate the checkpoint stores tensors for.                  *)
(***************************************************************************)
FirstPresent(names, candidates, declared) ==
    LET hits == {i \in DOMAIN candidates : Stored(names, candidates[i]) # {}}
    IN  IF hits = {} THEN declared ELSE candidates[Min(hits)]

(***************************************************************************)
(* The modules outside the streamed sequence, as the shallowest paths that *)
(* are not an ancestor of anything streamed.                               *)
(***************************************************************************)
\* Broken variant: only top-level modules beside the decoder are found
ResidentGroupsTop(names, streamed) ==
    {<<n[1]>> : n \in {m \in names : ~ \E s \in streamed : s[1] = m[1]}}
ResidentGroups(names, streamed) ==
    LET clear(path) == ~ \E s \in streamed : AtOrUnder(path, s)
        cuts(n) == {c \in 1 .. Len(n) - 1 : clear(SubSeq(n, 1, c))}
        left == {n \in names : ~ \E s \in streamed : AtOrUnder(s, n)}
    IN  {SubSeq(n, 1, Min(cuts(n))) : n \in {m \in left : cuts(m) # {}}}

(***************************************************************************)
(* Fit the declared plan to the names: a prefix the checkpoint disagrees   *)
(* with is replaced together with the modules named relative to it.        *)
(***************************************************************************)
Renamed(names, plan, prefix) ==
    LET stem == Stem(prefix)
        parent == IF stem = <<>> THEN <<>> ELSE Front(stem)
    IN  [plan EXCEPT
           !.layer_prefix = prefix,
           !.embed = FirstPresent(names, <<stem \o <<"embed_tokens">>>>, @),
           !.norm = FirstPresent(names, <<stem \o <<"norm">>>>, @),
           !.lm_head = FirstPresent(names, <<<<"lm_head">>, parent \o <<"lm_head">>, stem \o <<"lm_head">>>>, @)]
Streamed(plan) == {plan.embed, plan.layer_prefix, plan.norm, plan.lm_head, plan.rotary} \ {None}
WithResidents(names, plan) == [plan EXCEPT !.resident = @ \cup ResidentGroups(names, Streamed(plan))]
Resolve(names, plan) ==
    LET found == DecoderPrefix(names)
    IN  IF Stored(names, plan.layer_prefix) # {} THEN WithResidents(names, plan)
        ELSE IF found = None THEN plan
        ELSE WithResidents(names, Renamed(names, plan, found))

(***************************************************************************)
(* The modules the checkpoint is split into, those it stores nothing for   *)
(* among them: as many layers as there are different numbers, counted from *)
(* zero.                                                                   *)
(***************************************************************************)
Modules(names, plan) ==
    LET n == Cardinality(Blocks(names, plan.layer_prefix))
    IN  (IF plan.rotary = None THEN <<plan.embed>> ELSE <<plan.rotary, plan.embed>>)
        \o [i \in 1 .. n |-> Append(plan.layer_prefix, Digits[i])]
        \o <<plan.norm, plan.lm_head>> \o SetToSeq(plan.resident)
===============================================================================
