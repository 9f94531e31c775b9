----------------------------- MODULE MCSplitting -----------------------------
(***************************************************************************)
(* Splitting on four layouts: a text model whose layers run across shards, *)
(* the same as one file with a tied head, a multimodal checkpoint whose    *)
(* vision tower is the longer stack and whose decoder ships one layer per  *)
(* shard, and a checkpoint in the .bin format with a rotary table.         *)
(***************************************************************************)
EXTENDS Splitting, TLC

CONSTANT NoPath

MCDigits == <<"0", "1", "2">>

Declared(e, p, n, h, r) ==
    [embed |-> e, layer_prefix |-> p, norm |-> n, lm_head |-> h, rotary |-> r, resident |-> {}]
Usual == Declared(<<"model", "embed_tokens">>, <<"model", "layers">>, <<"model", "norm">>, <<"lm_head">>, NoPath)
ChatGLM == Declared(<<"transformer", "embedding">>, <<"transformer", "encoder", "layers">>,
                    <<"transformer", "encoder", "norm">>, <<"transformer", "output">>,
                    <<"transformer", "rotary">>)

L(i) == <<"model", "layers", i>>
Text(a, b, c) ==
    (<<"model", "embed_tokens", "w">> :> a) @@ (Append(L("0"), "w") :> a) @@ (Append(L("0"), "s") :> b)
    @@ (Append(L("1"), "w") :> b) @@ (Append(L("1"), "s") :> c) @@ (<<"model", "norm", "w">> :> a)
Headed == Text(1, 2, 3) @@ (<<"lm_head", "w">> :> 3)
Tied == Text(0, 0, 0)
V == <<"model", "language_model">>
Vision ==
    ((V \o <<"embed_tokens", "w">>) :> 2) @@ ((V \o <<"layers", "0", "w">>) :> 3)
    @@ ((V \o <<"layers", "1", "w">>) :> 4) @@ ((V \o <<"norm", "w">>) :> 5)
    @@ (<<"model", "visual", "layers", "0", "w">> :> 1) @@ (<<"model", "visual", "layers", "1", "w">> :> 1)
    @@ (<<"model", "visual", "layers", "2", "w">> :> 2) @@ (<<"model", "projector", "w">> :> 5)
    @@ (<<"lm_head", "w">> :> 6)
\* A tower that fills the first shard and ends in the last, around a layer that is a shard.
Around ==
    (<<"model", "visual", "w">> :> 1) @@ (<<"model", "embed_tokens", "w">> :> 3) @@ (Append(L("0"), "w") :> 2)
    @@ (<<"model", "norm", "w">> :> 3) @@ (<<"model", "visual", "merger">> :> 3) @@ (<<"lm_head", "w">> :> 3)
Rotary ==
    (<<"transformer", "embedding", "w">> :> 1) @@ (<<"transformer", "encoder", "layers", "0", "w">> :> 2)
    @@ (<<"transformer", "encoder", "norm", "w">> :> 2) @@ (<<"transformer", "output", "w">> :> 3)
    @@ (<<"transformer", "rotary", "w">> :> 2)

Checkpoint(files, declared, remote, symlinks, format, link, deleting) ==
    [files |-> files, declared |-> declared, remote |-> remote, symlinks |-> symlinks, format |-> format,
     link |-> link, deleting |-> deleting]

(***************************************************************************)
(* What is asked of delete_original here: shards that can be downloaded    *)
(* again, kept as links into a cache, on a filesystem with hard links.     *)
(***************************************************************************)
MCCheckpoints ==
    {Checkpoint(f, Usual, FALSE, s, "linkable", k, FALSE) :
        f \in {Headed, Tied, Vision}, s \in BOOLEAN, k \in {"hardlink", "symlink", "copy"}}
    \cup {Checkpoint(f, Usual, TRUE, TRUE, "linkable", "hardlink", d) :
            f \in {Headed, Tied, Vision}, d \in BOOLEAN}
    \cup {Checkpoint(Rotary, ChatGLM, r, TRUE, "bin", "hardlink", d \/ r) : r \in BOOLEAN, d \in {FALSE}}

AroundCheckpoints == {Checkpoint(Around, Usual, FALSE, FALSE, "linkable", "hardlink", FALSE)}
===============================================================================
