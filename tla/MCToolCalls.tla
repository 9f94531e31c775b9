----------------------------- MODULE MCToolCalls -----------------------------
(***************************************************************************)
(* Replies of up to three parts in each family's syntax: prose with half a *)
(* marker or an object that is no call, and calls whose arguments hold     *)
(* brackets and escaped quotes in strings, a key called name, come before  *)
(* the name, or are a JSON string, a number or a list.                     *)
(***************************************************************************)
EXTENDS ToolCalls, TLC

CONSTANT Speaking     \* the families of this run

Key(w) == <<"q", w, "q", ":">>
Str(w) == <<"q">> \o w \o <<"q">>
Named(n) == Key("name") \o <<"sp">> \o Str(<<n>>)
Given(key, a) == Key(key) \o <<"sp">> \o a
Object(key, n, a) == <<"{">> \o Named(n) \o <<",", "sp">> \o Given(key, a) \o <<"}">>
Backwards(key, n, a) == <<"{">> \o Given(key, a) \o <<",", "sp">> \o Named(n) \o <<"}">>

Tricky == <<"{">> \o Key("name") \o Str(<<"}", "bs", "q", "x">>) \o <<"}">>
Quoted == Str(<<"{", "bs", "q", "x", "bs", "q", ":", "y", "}">>)
Meant(a) == IF a = Quoted THEN <<"{", "q", "x", "q", ":", "y", "}">> ELSE a
Arguments == {Tricky, Quoted, <<"y">>, <<"[", "{", "}", "]">>}

(***************************************************************************)
(* A part: its text, what of it is content and the calls it makes.         *)
(***************************************************************************)
Part(text, says, names, a) == [text |-> text, says |-> says, calls |-> [k \in DOMAIN names |-> <<names[k], Meant(a)>>]]
Prose == {Part(w, w, <<>>, <<>>) : w \in {<<"x", "sp">>, <<"y", "<">>, <<"{", "q", "x", "q", "}", "nl">>}}
Unnamed == Part(<<"{", "q", "x", "q", ":", "q", "name", "q", "}">>, <<"{", "q", "x", "q", ":", "q", "name", "q", "}">>, <<>>, <<>>)
Code == LET w == Fence \o <<"py", "nl">> \o Object("arguments", "f", Braces) \o <<"nl">> \o Fence \o <<"nl">>
        IN  Part(w, w, <<>>, <<>>)
Fenced(o) == Fence \o <<"json", "nl">> \o o \o <<"nl">> \o Fence
Deep(n, a) == Start \o <<"function">> \o Separator \o <<n, "nl">> \o Fenced(a) \o Finish

Calls(f) ==
    CASE f = "hermes" -> {Part(Start \o <<"nl">> \o o \o <<"nl">> \o Finish, <<>>, <<"f">>, a) :
                              <<o, a>> \in {<<Object("arguments", "f", b), b>> : b \in Arguments}
                                           \cup {<<Backwards("arguments", "f", Tricky), Tricky>>}}
      [] f = "mistral" -> {Part(Start \o <<"sp", "[">> \o Object("arguments", "f", a) \o <<",", "sp">>
                                \o Object("arguments", "g", a) \o <<"]">>, <<>>, <<"f", "g">>, a) : a \in Arguments}
      [] f = "deepseek" -> {Part(Wrapper \o Deep("f", a) \o <<"nl">> \o Deep("g", a) \o WrapperEnd, <<>>, <<"f", "g">>, a) :
                              a \in {Tricky}}
      [] f = "llama" -> {Part(s \o Object("parameters", "f", a), <<>>, <<"f">>, a) : s \in {<<>>, Start}, a \in Arguments}
                        \cup {Part(Start \o Object("parameters", "f", a) \o <<";", "sp">> \o Object("parameters", "g", a),
                                   <<>>, <<"f", "g">>, a) : a \in {Tricky}}
      [] f = "generic" -> {Part(Fenced(Object("arguments", "f", a)), <<>>, <<"f">>, a) : a \in {Tricky, Quoted}}
                          \cup {Part(Object("arguments", "f", a), <<>>, <<"f">>, a) : a \in Arguments}

Naked == {"llama", "generic"}
Parts(f) == Prose \cup Calls(f) \cup (IF f \in Naked THEN {Code, Unnamed} ELSE {})

Reply(f, parts, chunks) ==
    LET all == FlattenSeq([k \in DOMAIN parts |-> parts[k].calls])
    IN  [text |-> FlattenSeq([k \in DOMAIN parts |-> parts[k].text]),
         content |-> FlattenSeq([k \in DOMAIN parts |-> parts[k].says]),
         calls |-> [k \in DOMAIN all |-> Call(k, <<(<<all[k][1]>>)>>, all[k][2])],
         template |-> {f}, chunks |-> chunks]

(***************************************************************************)
(* A block of code whose object and closing fence come in one put is read  *)
(* as a call (ToolCallsCodeBlock.cfg), so here it comes in small pieces.   *)
(* Nor does a put bring a bare call of Llama's and a tagged one after it:  *)
(* the first is then content.  A fence next to an unfenced call, or to an  *)
(* object taken for one, counts as its own.                                *)
(***************************************************************************)
Tagged(part) == part.text[1] = Start[1]
Mixed(parts) == \E j, k \in DOMAIN parts : Tagged(parts[j]) # Tagged(parts[k]) /\ <<>> \notin {parts[j].calls, parts[k].calls}
Unfenced(part) == part = Unnamed \/ (part.calls # <<>> /\ part.text[1] = "{")
Swallowed(parts) ==
    \E j, k \in DOMAIN parts : j - k \in {-1, 1} /\ Unfenced(parts[j]) /\ parts[k].text[1] = Fence[1]
PartsOf == [f \in Speaking |-> Parts(f)]
MCReplies ==
    UNION {{Reply(f, p, IF Code \in ToSet(p) THEN {1, 2} ELSE {1, 100}) :
               p \in {q \in BoundedSeq(PartsOf[f], 2) : f \in Naked => ~Mixed(q) /\ ~Swallowed(q)}} : f \in Speaking}
CodeReplies == {Reply(f, <<Code>>, {1, 100}) : f \in Naked}
===============================================================================
