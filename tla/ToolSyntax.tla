------------------------------ MODULE ToolSyntax ------------------------------
(***************************************************************************)
(* How the parsers of server/toolcalls.py read a reply that is still       *)
(* growing.  A text is a sequence of symbols: a marker is two, so that it  *)
(* can arrive in halves; quotes, brackets, commas, spaces, new lines and   *)
(* the three backticks of a fence are symbols of their own, and so are the *)
(* words the parsers look for.  Positions count from 1, an end is the      *)
(* position after the last symbol, and None stands for a position that has *)
(* not arrived.                                                            *)
(***************************************************************************)
EXTENDS Integers, Sequences, FiniteSets, FiniteSetsExt

CONSTANTS
    TentativeBudget,      \* how far a maybe-a-call may grow (tentative_budget), in symbols
    Patience     \* how much may follow a fence before it is plain text (_FENCE_PATIENCE)

ASSUME BoundsAssumption == TentativeBudget \in Nat /\ Patience \in Nat

None == 0
Blank == {"sp", "nl"}
Fence == <<"tick", "tick", "tick">>
FromTo(t, a, b) == SubSeq(t, a, Min({b - 1, Len(t)}))
At(t, i) == IF i \in DOMAIN t THEN t[i] ELSE "end"
IsAt(t, w, i) == i + Len(w) - 1 <= Len(t) /\ \A k \in DOMAIN w : t[i + k - 1] = w[k]
Earliest(S) == IF S = {} THEN None ELSE Min(S)
Find(t, w, from) == Earliest({i \in from..Len(t) : IsAt(t, w, i)})
Skip(t, from, chars) == Min({i \in from..Len(t) : t[i] \notin chars} \cup {IF from > Len(t) THEN from ELSE Len(t) + 1})

(***************************************************************************)
(* Reading JSON from position start, which is not inside a string: the     *)
(* quotes that open and close strings, and the depth before a position.    *)
(***************************************************************************)
Escaped(t, i, start) == (i - 1 - Max({j \in start..(i - 1) : t[j] # "bs"} \cup {start - 1})) % 2 = 1
Quotes(t, start) == {i \in start..Len(t) : t[i] = "q" /\ ~Escaped(t, i, start)}
InString(quotes, i) == Cardinality({j \in quotes : j < i}) % 2 = 1
Brackets(t, start, quotes, kind) == {i \in start..Len(t) : t[i] \in kind /\ ~InString(quotes, i)}
Opening == {"{", "["}
Closing == {"}", "]"}
DepthAt(opened, closed, i) == Cardinality({j \in opened : j < i}) - Cardinality({j \in closed : j < i})

(***************************************************************************)
(* _ValueSpan: where the value that begins at start ends.  A string or a   *)
(* bracketed value ends with its last symbol, a bare one before the comma  *)
(* or the bracket that follows it.                                         *)
(***************************************************************************)
SpanEnd(t, start) ==
    LET quotes == Quotes(t, start)
        opened == Brackets(t, start, quotes, Opening)
        closed == Brackets(t, start, quotes, Closing)
        last == {i \in closed : DepthAt(opened, closed, i) = 1}
                \cup {i \in quotes : InString(quotes, i) /\ DepthAt(opened, closed, i) = 0}
        beyond == {i \in closed \cup Brackets(t, start, quotes, {","}) : DepthAt(opened, closed, i) = 0}
        at == Earliest(last \cup beyond)
    IN  IF at = None THEN None ELSE IF at \in beyond THEN at ELSE at + 1

(***************************************************************************)
(* _object_verdict: an object is a call once a string "name" or "function" *)
(* has been read directly in it, is not one once it has closed, and is     *)
(* waited for in between, up to the budget.                                *)
(***************************************************************************)
Verdict(t, start) ==
    LET quotes == Quotes(t, start)
        opened == Brackets(t, start, quotes, Opening)
        closed == Brackets(t, start, quotes, Closing)
        closes == {i \in closed : DepthAt(opened, closed, i) = 1}
        names == {i \in quotes : /\ InString(quotes, i) /\ DepthAt(opened, closed, i) = 1
                                 /\ i - 2 \in quotes /\ t[i - 1] \in {"name", "function"}}
        at == Earliest(names \cup closes)
    IN  IF at # None THEN IF at \in names THEN "call" ELSE "text"
        ELSE IF Len(t) + 1 - start <= TentativeBudget THEN "wait" ELSE "text"

(***************************************************************************)
(* The two patterns read out of an object: where the value of "arguments"  *)
(* or "parameters" begins, and the name, before the given limit.           *)
(***************************************************************************)
KeyAt(t, keys, i, limit) == /\ i + 2 < limit /\ t[i] = "q" /\ t[i + 1] \in keys /\ t[i + 2] = "q"
                            /\ LET colon == Skip(t, i + 3, Blank) IN colon < limit /\ t[colon] = ":"
ValueOf(t, i) == Skip(t, Skip(t, i + 3, Blank) + 1, Blank)
ArgumentsAt(t, from, limit) ==
    LET at == Earliest({i \in from..(limit - 1) : KeyAt(t, {"arguments", "parameters"}, i, limit)})
    IN  IF at = None THEN None ELSE Min({ValueOf(t, at), limit})
NameAt(t, from, limit) ==
    LET close(v) == Earliest({j \in (v + 1)..(limit - 1) : t[j] = "q" /\ t[j - 1] # "bs"})
        named == {i \in from..(limit - 1) : /\ KeyAt(t, {"name"}, i, limit)
                                            /\ ValueOf(t, i) < limit /\ t[ValueOf(t, i)] = "q"
                                            /\ close(ValueOf(t, i)) # None}
        v == ValueOf(t, Min(named))
    IN  IF named = {} THEN <<>> ELSE <<FromTo(t, v + 1, close(v))>>

(***************************************************************************)
(* What find_call and next_in_region answer.                               *)
(***************************************************************************)
Answer(is, content, json, name) == [is |-> is, content |-> content, json |-> json, name |-> name]
Nothing == Answer("nothing", None, None, <<>>)
Pending(at) == Answer("pending", at, None, <<>>)
Found(at, json) == Answer("found", at, json, <<>>)
FoundOrPending(at, json) == IF json = None THEN Pending(at) ELSE Found(at, json)

(***************************************************************************)
(* The families.  The start marker of deepseek is that of one call; the    *)
(* one around all of them is its wrapper.                                  *)
(***************************************************************************)
Start == <<"<", "call>">>
Finish == <<"</", "call>">>
Wrapper == <<"<<", "calls>">>
WrapperEnd == <<"<</", "calls>">>
Separator == <<"sep">>
Families == <<"hermes", "mistral", "deepseek", "llama", "generic">>

(***************************************************************************)
(* select_parser: the first family whose marker the chat template emits.   *)
(* A template is the set of families whose syntax it holds.                *)
(***************************************************************************)
SelectParser(template) ==
    Families[Min({i \in DOMAIN Families : Families[i] \in template \cup {"generic"}})]

HeldBack(family) == CASE family \in {"hermes", "mistral", "deepseek", "llama"} -> Len(Start)
                      [] family = "generic" -> Len(Fence) + 1
PayloadIsArguments(family) == family = "deepseek"

(***************************************************************************)
(* Code fences.  A tag is what follows a fence on its line.                *)
(***************************************************************************)
NoTag == <<"no fence">>
FenceTag(t, fence) ==
    LET line == Find(t, <<"nl">>, fence + 3)
    IN  IF line = None THEN NoTag ELSE SelectSeq(FromTo(t, fence + 3, line), LAMBDA c : c # "sp")

\* _track_fences, resumed from where it stopped: the open block's tag at the end of the text.
TrackFences(t, from, tag) ==
    LET limit == IF Len(t) < 3 THEN 1 ELSE Len(t) - 1
        track[a \in Nat, open \in Seq(STRING)] ==
            LET found == Find(t, Fence, a)
            IN  IF a >= limit \/ found = None THEN [at |-> Max({a, limit}), tag |-> open]
                ELSE IF open # NoTag THEN track[found + 3, NoTag]
                ELSE IF FenceTag(t, found) = NoTag THEN [at |-> a, tag |-> open]
                ELSE track[found + 3, FenceTag(t, found)]
    IN  track[from, tag]

FenceStart(t, brace, floor) ==
    LET text == Max({i \in floor..brace : i = floor \/ t[i - 1] \notin Blank})
        opens(w) == text - Len(w) >= floor /\ IsAt(t, w, text - Len(w))
    IN  IF opens(Append(Fence, "json")) THEN text - 4 ELSE IF opens(Fence) THEN text - 3 ELSE brace

(***************************************************************************)
(* _naked_object: a call with no marker.  Blocks of code are stepped over  *)
(* whole, objects that are no call one by one.                             *)
(***************************************************************************)
PlainTags == {<<>>, <<"json">>}
NakedObject(t, cursor, tag) ==
    LET look[search \in Nat] ==
            LET brace == Find(t, <<"{">>, search)
                fence == Find(t, Fence, search)
                fenced == fence # None /\ (brace = None \/ fence < brace)
                verdict == Verdict(t, brace)
                closing == Find(t, Fence, fence + 3)
                last == LET opens == {i \in search..Len(t) : IsAt(t, Fence, i)} IN IF opens = {} THEN None ELSE Max(opens)
            IN  CASE fenced /\ FenceTag(t, fence) = NoTag -> Pending(fence)
                  [] fenced /\ FenceTag(t, fence) \notin PlainTags \cup {NoTag} ->
                        IF closing = None THEN Nothing ELSE look[closing + 3]
                  [] OTHER ->
                        IF brace = None
                        THEN IF last = None \/ Len(t) + 1 - last > Patience THEN Nothing ELSE Pending(last)
                        ELSE CASE verdict = "wait" -> Pending(FenceStart(t, brace, cursor))
                               [] verdict = "call" -> Found(FenceStart(t, brace, cursor), brace)
                               [] OTHER -> look[IF SpanEnd(t, brace) = None THEN brace + 1 ELSE SpanEnd(t, brace)]
    IN  IF tag \notin PlainTags \cup {NoTag} THEN Nothing ELSE look[cursor]

(***************************************************************************)
(* find_call, after_call, next_in_region and after_region of each family.  *)
(***************************************************************************)
DeepSeekCall(t, cursor) ==
    LET at == Find(t, Start, cursor)
        wrapper == Find(t, Wrapper, cursor)
        content == IF wrapper # None /\ wrapper <= at THEN wrapper ELSE at
        separator == Find(t, Separator, at)
        line == Find(t, <<"nl">>, separator)
        brace == Find(t, <<"{">>, line)
        name == FromTo(t, separator + 1, line)
    IN  CASE at = None -> IF wrapper = None THEN Nothing ELSE Pending(wrapper)
          [] at # None /\ (separator = None \/ line = None \/ brace = None) -> Pending(content)
          [] OTHER -> Answer("found", content, brace, IF name = <<>> THEN <<>> ELSE <<name>>)

FindCall(family, t, cursor, tag) ==
    LET at == Find(t, Start, cursor)
    IN  CASE family \in {"hermes", "mistral"} ->
                IF at = None THEN Nothing ELSE FoundOrPending(at, Find(t, <<"{">>, at))
          [] family = "llama" ->
                IF at = None THEN NakedObject(t, cursor, tag) ELSE FoundOrPending(at, Find(t, <<"{">>, at))
          [] family = "deepseek" -> DeepSeekCall(t, cursor)
          [] family = "generic" -> NakedObject(t, cursor, tag)
TracksFences(family, t, cursor) == family = "generic" \/ (family = "llama" /\ Find(t, Start, cursor) = None)

StartsWith(w, t, i) == \E n \in 0..Len(w) : FromTo(t, i, i + Len(w)) = SubSeq(w, 1, n)
AfterCall(family, t, position, final) ==
    LET at == Find(t, Finish, position)
        next == Skip(t, (IF at = None THEN position ELSE at + Len(Finish)), Blank)
        tail == Skip(t, position, Blank)
    IN  CASE family \in {"mistral", "llama"} -> position
          [] family = "hermes" -> IF at # None THEN at + Len(Finish) ELSE IF final THEN position ELSE None
          [] family = "deepseek" ->
                IF at = None THEN IF final THEN position ELSE None
                ELSE IF IsAt(t, WrapperEnd, next) THEN next + Len(WrapperEnd)
                ELSE IF ~final /\ StartsWith(WrapperEnd, t, next) THEN None ELSE next
          [] family = "generic" ->
                IF IsAt(t, Fence, tail) THEN tail + 3
                ELSE IF ~final /\ StartsWith(Fence, t, tail) THEN None ELSE position

NextInRegion(family, t, position) ==
    LET comma == Skip(t, position, Blank \cup {","})
        semicolon == Skip(t, position, Blank)
        next == Skip(t, semicolon + 1, Blank)
    IN  CASE family = "mistral" -> IF comma > Len(t) THEN Pending(position)
                                   ELSE IF t[comma] = "{" THEN Found(position, comma) ELSE Nothing
          [] family = "llama" -> IF semicolon > Len(t) THEN Pending(position)
                                 ELSE IF t[semicolon] # ";" THEN Nothing
                                 ELSE IF next > Len(t) THEN Pending(position)
                                 ELSE IF t[next] = "{" THEN Found(position, next) ELSE Nothing
          [] OTHER -> Nothing

AfterRegion(family, t, position) ==
    LET at == Skip(t, position, Blank \cup {","})
    IN  IF family = "mistral" /\ At(t, at) = "]" THEN at + 1 ELSE position
===============================================================================
