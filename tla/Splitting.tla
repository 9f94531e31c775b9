------------------------------- MODULE Splitting -------------------------------
(***************************************************************************)
(* Splitting a checkpoint into one file per module (split_and_save_layers) *)
(* and the process that runs it, which may be killed between any two file  *)
(* operations, run out of disk or network, and be started again.  A        *)
(* checkpoint is a record:                                                 *)
(*    files     tensor name -> number of the shard that holds it, 0 for a  *)
(*              single file without a number                               *)
(*    declared  the plan of the model class                                *)
(*    remote    shards can be downloaded (a repository id is known)        *)
(*    symlinks  its files are links into a cache of blobs                  *)
(*    format    "linkable" when shards are in the format of the persister  *)
(*    link      what link_or_copy_file manages on this filesystem          *)
(*    deleting  delete_original                                            *)
(* layers is the list of modules to write; units is what the split         *)
(* directory holds, marks its `.done` files, ram the tensors read and not  *)
(* yet saved, cursor the last numbered shard.                              *)
(***************************************************************************)
EXTENDS LayerNames

CONSTANTS
    Checkpoints,     \* the checkpoints a behaviour may start from
    MaxFaults        \* bound: kills and failed writes or downloads

VARIABLES ckpt, layers, originals, units, marks, todo, ram, cursor, single, pc, faults
process == <<todo, ram, cursor, single, pc>>
disk == <<originals, units, marks>>
plan == <<ckpt, layers>>
vars == <<plan, disk, process, faults>>

Names == DOMAIN ckpt.files
Shard(n) == ckpt.files[n]
Files == {Shard(n) : n \in Names}
Kept(file) == {n \in Names : Shard(n) = file}
Shards(u) == {Shard(n) : n \in Stored(Names, u)}
LastShard(u) == Max(Shards(u))

(***************************************************************************)
(* The layers that store anything, in ascending order of the last shard    *)
(* they touch; the sort is stable.                                         *)
(***************************************************************************)
Order(c) ==
    LET names == DOMAIN c.files
        all == Modules(names, Resolve(names, c.declared))
        found == {i \in DOMAIN all : Stored(names, all[i]) # {}}
        last == [i \in found |-> Max({c.files[n] : n \in Stored(names, all[i])})]
        earlier(i) == {j \in found : last[j] < last[i] \/ (last[j] = last[i] /\ j < i)}
    IN  [k \in 1 .. Cardinality(found) |-> all[CHOOSE i \in found : Cardinality(earlier(i)) = k - 1]]
OrderOf == [c \in Checkpoints |-> Order(c)]
AllUnits == ToSet(layers)

(***************************************************************************)
(* A module whose only shard holds nothing else is linked to that shard.   *)
(***************************************************************************)
Passthrough(u) ==
    /\ ckpt.format = "linkable"
    /\ Cardinality(Shards(u)) = 1
    /\ Kept(LastShard(u)) \subseteq Stored(Names, u)

(***************************************************************************)
(* What a reader finds in a unit's file, and when the splitter takes the   *)
(* unit for saved.  A dangling link is no file.                            *)
(***************************************************************************)
Exists(u) == u \in DOMAIN units /\ (units[u].kind = "symlink" => LastShard(u) \in originals)
Persisted(u) == Exists(u) /\ u \in marks
Content(u) == IF Exists(u) THEN units[u].holds ELSE {}

File(kind, holds) == [kind |-> kind, holds |-> holds]
Wrote(u, kind, holds) == units' = [v \in DOMAIN units \cup {u} |-> IF v = u THEN File(kind, holds) ELSE units[v]]

Local(c) == IF c.remote THEN {} ELSE {c.files[n] : n \in DOMAIN c.files}
Init ==
    /\ ckpt \in Checkpoints
    /\ layers = OrderOf[ckpt]
    /\ originals = Local(ckpt)
    /\ units = <<>>
    /\ marks = {}
    /\ todo = <<>> /\ ram = {} /\ cursor = 0 /\ single = None
    /\ pc = "off"
    /\ faults = 0

(***************************************************************************)
(* Opening the model: the index is read (a single file without one is      *)
(* fetched first), and nothing is left to do when every unit is there.     *)
(***************************************************************************)
Start ==
    /\ pc = "off"
    /\ 0 \in Files => ckpt.remote \/ 0 \in originals
    /\ originals' = originals \cup (IF 0 \in Files THEN {0} ELSE {})
    /\ IF \A u \in AllUnits : Persisted(u)
       THEN pc' = "done" /\ UNCHANGED todo
       ELSE pc' = "next" /\ todo' = layers
    /\ ram' = {} /\ cursor' = 0 /\ single' = None
    /\ UNCHANGED <<plan, units, marks, faults>>

Unit == Head(todo)
Advance == todo' = Tail(todo) /\ pc' = "next"

(***************************************************************************)
(* A shard the loop is about to open and does not find.                    *)
(***************************************************************************)
Wanted ==
    CASE pc = "load" -> {cursor}
      [] pc = "next" /\ todo # <<>> /\ Passthrough(Unit) -> {LastShard(Unit)}
      [] pc = "next" /\ todo # <<>> /\ ~Passthrough(Unit) /\ Shards(Unit) = {0} -> {0}
      [] OTHER -> {}
Fetch ==
    /\ ckpt.remote
    /\ Wanted \ originals # {}
    /\ originals' = originals \cup Wanted
    /\ UNCHANGED <<plan, units, marks, process, faults>>

(***************************************************************************)
(* A module that is its shard: link it, mark it, and take the cursor past  *)
(* the shard.                                                              *)
(***************************************************************************)
Skip(u) ==
    /\ cursor' = IF LastShard(u) > cursor THEN LastShard(u) ELSE cursor
    /\ Advance
LinkOriginal ==
    /\ pc = "next" /\ todo # <<>> /\ Passthrough(Unit)
    /\ Wanted \subseteq originals
    /\ IF Persisted(Unit)
       THEN Skip(Unit) /\ UNCHANGED units
       ELSE /\ pc' = IF ckpt.link = "copy" THEN "copy" ELSE "link"
            /\ IF ckpt.link = "copy" THEN Wrote(Unit, "partial", {})
               ELSE Wrote(Unit, ckpt.link, Kept(LastShard(Unit)))
            /\ UNCHANGED <<todo, cursor>>
    /\ UNCHANGED <<plan, originals, marks, ram, single, faults>>
Copied ==
    /\ pc = "copy"
    /\ Wrote(Unit, "saved", Kept(LastShard(Unit)))
    /\ pc' = "link"
    /\ UNCHANGED <<plan, originals, marks, todo, ram, cursor, single, faults>>
MarkLinked ==
    /\ pc = "link"
    /\ marks' = marks \cup {Unit}
    /\ Skip(Unit)
    /\ UNCHANGED <<plan, originals, units, ram, single, faults>>

(***************************************************************************)
(* Walk the cursor up to the last shard the layer touches, deleting the    *)
(* shard that is behind it.  remove_real_and_linked_file compares a string *)
(* with a path, so it takes every file for a link: on one that is not, the *)
(* second removal raises.                                                  *)
(***************************************************************************)
\* Broken variant: the walk goes one shard too far
NeedsShardOver == todo # <<>> /\ ~Passthrough(Unit) /\ 0 \notin Shards(Unit) /\ LastShard(Unit) >= cursor
NeedsShard == todo # <<>> /\ ~Passthrough(Unit) /\ 0 \notin Shards(Unit) /\ LastShard(Unit) > cursor
RemoveOriginal(file) == originals' = originals \ {file}
NextShard ==
    /\ pc = "next" /\ NeedsShard
    /\ IF ckpt.deleting /\ cursor # 0
       THEN /\ RemoveOriginal(cursor)
            /\ IF ckpt.symlinks THEN pc' = "load" /\ cursor' = cursor + 1
               ELSE pc' = "off" /\ UNCHANGED cursor
       ELSE pc' = "load" /\ cursor' = cursor + 1 /\ UNCHANGED originals
    /\ UNCHANGED <<plan, units, marks, todo, ram, single, faults>>
LoadShard ==
    /\ pc = "load"
    /\ cursor \in originals
    /\ ram' = ram \cup Kept(cursor)
    /\ pc' = "next"
    /\ UNCHANGED <<plan, disk, todo, cursor, single, faults>>

(***************************************************************************)
(* Save what memory holds of the layer, unless an earlier run saved it;    *)
(* the marker is written when the file is, and the tensors are dropped.    *)
(***************************************************************************)
Held == {n \in ram : Under(Unit, n)}
ReadSingle ==
    /\ pc = "next" /\ todo # <<>> /\ ~Passthrough(Unit) /\ Shards(Unit) = {0}
    /\ 0 \in originals
    /\ ram' = ram \cup Kept(0)
    /\ single' = 0
    /\ pc' = "save"
    /\ UNCHANGED <<plan, disk, todo, cursor, faults>>
Saveable ==
    /\ todo # <<>> /\ ~Passthrough(Unit)
    /\ IF 0 \in Shards(Unit) THEN pc = "save" ELSE pc = "next" /\ ~NeedsShard
\* Broken variant: the marker is written before the file is whole
PersistMarked ==
    /\ Saveable
    /\ IF Persisted(Unit)
       THEN ram' = ram \ Held /\ Advance /\ UNCHANGED <<units, marks>>
       ELSE Wrote(Unit, "partial", {}) /\ marks' = marks \cup {Unit} /\ pc' = "write" /\ UNCHANGED <<ram, todo>>
    /\ UNCHANGED <<plan, originals, cursor, single, faults>>
Persist ==
    /\ Saveable
    /\ IF Persisted(Unit)
       THEN ram' = ram \ Held /\ Advance /\ UNCHANGED units
       ELSE Wrote(Unit, "partial", {}) /\ pc' = "write" /\ UNCHANGED <<ram, todo>>
    /\ UNCHANGED <<plan, originals, marks, cursor, single, faults>>
Written ==
    /\ pc = "write"
    /\ Wrote(Unit, "saved", Held)
    /\ pc' = "mark"
    /\ UNCHANGED <<plan, originals, marks, todo, ram, cursor, single, faults>>
Mark ==
    /\ pc = "mark"
    /\ marks' = marks \cup {Unit}
    /\ ram' = ram \ Held
    /\ Advance
    /\ UNCHANGED <<plan, originals, units, cursor, single, faults>>

Finish ==
    /\ pc = "next" /\ todo = <<>>
    /\ IF ckpt.deleting /\ single = 0
       THEN RemoveOriginal(0) /\ pc' = IF ckpt.symlinks THEN "done" ELSE "off"
       ELSE pc' = "done" /\ UNCHANGED originals
    /\ UNCHANGED <<plan, units, marks, todo, ram, cursor, single, faults>>

(***************************************************************************)
(* The process dies, by a kill, a write or a download that raises, or the  *)
(* space check; or it ends and the model is opened again later.            *)
(***************************************************************************)
Running == pc \notin {"off", "done"}
Stopped == pc' = "off" /\ todo' = <<>> /\ ram' = {} /\ UNCHANGED <<cursor, single, plan, disk>>
Die == Running /\ faults < MaxFaults /\ faults' = faults + 1 /\ Stopped
Reopen == pc = "done" /\ faults < MaxFaults /\ faults' = faults + 1 /\ Stopped

Work == \/ Start \/ Fetch \/ LinkOriginal \/ Copied \/ MarkLinked \/ NextShard \/ LoadShard
        \/ ReadSingle \/ Persist \/ Written \/ Mark \/ Finish
Next == Work \/ Die \/ Reopen
Spec == Init /\ [][Next]_vars /\ WF_vars(Work)

-------------------------------------------------------------------------------
(***************************************************************************)
(* The checkpoints the splitter is written for.  Shards are numbered, or   *)
(* there is one file.                                                      *)
(***************************************************************************)
Numbered ==
    /\ IsFiniteSet(Names) /\ Names \subseteq Seq(STRING)
    /\ \A n \in Names : Shard(n) \in Nat
    /\ 0 \in Files => Files = {0}

(***************************************************************************)
(* Tensors are parameters of modules: of a numbered layer, of one of the   *)
(* others that are streamed, none of which is inside another, or of one    *)
(* that can be told from them.                                             *)
(***************************************************************************)
Plan == Resolve(Names, ckpt.declared)
Roles == {"embed", "layer_prefix", "norm", "lm_head", "rotary"}
Stores(path) == path # None /\ Stored(Names, path) # {}
Layer(i) == Append(Plan.layer_prefix, Digits[i])
Clear(path) == ~ \E s \in Streamed(Plan) : AtOrUnder(path, s)
NamesFit ==
    /\ DOMAIN ckpt.declared = Roles \cup {"resident"}
    /\ IsFiniteSet(ckpt.declared.resident) /\ ckpt.declared.resident \subseteq Seq(STRING)
    /\ \A p \in Roles \ {"rotary"} : Plan[p] # None
    /\ Streamed(Plan) \subseteq Seq(STRING) /\ Streamed(Plan) \cap Names = {}
    /\ \A p, q \in Roles : p # q /\ Stores(Plan[p]) /\ Stores(Plan[q]) => ~ AtOrUnder(Plan[p], Plan[q])
    /\ Stores(Plan.layer_prefix)
    /\ \A n \in Stored(Names, Plan.layer_prefix) :
          \E i \in 1 .. Cardinality(Blocks(Names, Plan.layer_prefix)) : Under(Layer(i), n)
    /\ \A n \in Names : \/ \E s \in Streamed(Plan) : AtOrUnder(s, n)
                         \/ \E c \in 1 .. Len(n) - 1 : Clear(SubSeq(n, 1, c))
    /\ \A r \in ckpt.declared.resident : Stores(r) => r \in ResidentGroups(Names, Streamed(Plan))

(***************************************************************************)
(* A linked module takes the cursor past no shard a later layer touches,   *)
(* unless it was past it before.                                           *)
(***************************************************************************)
LinksInOrder ==
    \A i, j \in DOMAIN layers : i < j /\ Passthrough(layers[i]) /\ ~Passthrough(layers[j]) =>
        \A s \in Shards(layers[j]) : s < LastShard(layers[i]) => \E h \in 1 .. i - 1 : s <= LastShard(layers[h])
Orderly == Numbered /\ NamesFit /\ LinksInOrder
OrderlyInit == Init /\ Orderly
OrderlySpec == OrderlyInit /\ [][Next]_vars /\ WF_vars(Work)

\* A link to a shard that is deleted holds nothing.
LinksHold == ckpt.deleting => ckpt.link # "symlink"

-------------------------------------------------------------------------------
(***************************************************************************)
(* What a later run, or the loader, takes for a finished unit is whole,    *)
(* wherever an earlier run died: model_persist_exist asks for the file and *)
(* the marker, and the walk over the shards missed none of its tensors.    *)
(***************************************************************************)
DoneIsWhole == \A u \in AllUnits : Persisted(u) => Content(u) = Stored(Names, u)

(***************************************************************************)
(* When the splitter returns, every tensor of the checkpoint is in the     *)
(* file of exactly one module (_resident_groups: otherwise "the model      *)
(* would run with those modules still on the meta device").                *)
(***************************************************************************)
SplitCovers ==
    pc = "done" => \A n \in Names : Cardinality({u \in AllUnits : n \in Content(u)}) = 1

(***************************************************************************)
(* However often it is interrupted, a split is completed in the end.       *)
(***************************************************************************)
SplitEnds == <>[](pc = "done")
===============================================================================
