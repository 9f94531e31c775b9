------------------------------- MODULE ToolCalls -------------------------------
(***************************************************************************)
(* ToolCallStream: the reply of a model, which arrives in pieces, turned   *)
(* into content and into calls, and what a client of a streamed response   *)
(* assembles from the deltas.  `reply` is what the model writes: its text, *)
(* what that text means (content and calls), the families its chat         *)
(* template speaks and how many symbols a put may bring.  One put of the   *)
(* sink pushes the text so far, which the parser interprets in the turns   *)
(* of _advance; the last one is finish, which comes at the end of the text *)
(* or where the budget of tokens ends.                                     *)
(***************************************************************************)
EXTENDS ToolSyntax, SequencesExt

CONSTANT Replies      \* what the model may write

ASSUME RepliesAssumption == \A r \in Replies : r.text \in Seq(STRING) /\ r.chunks \subseteq Nat

VARIABLES
    reply, fed, pc,                      \* the generation: how much text has been handed over
    content, calls, client,              \* what was sent, what is reported, what the client has
    cursor, open, region, trailing, nextIndex, fences     \* the parser's own

parser == <<cursor, open, region, trailing, nextIndex, fences>>
toolVars == <<reply, fed, pc, content, calls, client, parser>>

Family == SelectParser(reply.template)
Whole == Len(reply.text)
Arrived == SubSeq(reply.text, 1, fed)
Final == pc = "finishing"

NoCall == [index |-> None]
OpenCall(index, found) ==
    [index |-> index, json |-> found.json, name |-> found.name, sentOpen |-> FALSE, sent |-> 0,
     arguments |-> IF PayloadIsArguments(Family) THEN found.json ELSE None, quoted |-> FALSE]
Braces == <<"{", "}">>
Call(index, name, arguments) == [index |-> index, name |-> name, arguments |-> arguments]

ToolInit ==
    /\ reply \in Replies
    /\ fed = 0 /\ pc = "idle"
    /\ content = <<>> /\ calls = <<>> /\ client = <<>>
    /\ cursor = 1 /\ open = NoCall /\ region = FALSE /\ trailing = None /\ nextIndex = 0
    /\ fences = [at |-> 1, tag |-> NoTag]

(***************************************************************************)
(* put and end of the sink.                                                *)
(***************************************************************************)
Put(n) ==
    /\ pc = "idle" /\ fed < Whole
    /\ fed' = Min({fed + n, Whole})
    /\ pc' = "pushing"
    /\ UNCHANGED <<reply, content, calls, client, parser>>

FinishReply ==
    /\ pc = "idle"
    /\ pc' = "finishing"
    /\ UNCHANGED <<reply, fed, content, calls, client, parser>>

Return == pc' = IF Final THEN "done" ELSE "idle"

(***************************************************************************)
(* Content up to a position, from the cursor on.                           *)
(***************************************************************************)
Emitted(from, end) == IF end <= from THEN <<>> ELSE FromTo(Arrived, from, end)
EmitUpTo(from, end) == content' = content \o Emitted(from, end)
\* Broken variant: what may be half a marker is sent
SafeEndNoHold(from) == Len(Arrived) + 1
SafeEnd(from) == IF Final THEN Len(Arrived) + 1 ELSE Max({from, Len(Arrived) + 1 - HeldBack(Family)})

(***************************************************************************)
(* What a client does with a delta: index, name or <<>>, fragment.         *)
(***************************************************************************)
Merge(c, delta) ==
    IF \E k \in DOMAIN c : c[k].index = delta.index
    THEN [k \in DOMAIN c |-> IF c[k].index # delta.index THEN c[k]
                             ELSE [c[k] EXCEPT !.arguments = @ \o delta.arguments]]
    ELSE Append(c, delta)
MergeAll(c, deltas) ==
    LET merged[k \in 0..Len(deltas)] == IF k = 0 THEN c ELSE Merge(merged[k - 1], deltas[k])
    IN  merged[Len(deltas)]

(***************************************************************************)
(* _step_open: where the arguments begin, the name once it has been read,  *)
(* and the deltas these allow.                                             *)
(***************************************************************************)
ObjectEnd == SpanEnd(Arrived, open.json)
ObjectLimit == IF ObjectEnd = None THEN Len(Arrived) + 1 ELSE ObjectEnd
\* Broken variant: a value is looked at before its first symbol has come
LocatedAtOnce(at) ==
    IF open.arguments # None \/ at = None THEN open
    ELSE [open EXCEPT !.arguments = at, !.quoted = At(Arrived, at) = "q"]
Located(at) ==
    IF open.arguments # None \/ at = None \/ at > Len(Arrived) THEN open
    ELSE [open EXCEPT !.arguments = at, !.quoted = Arrived[at] = "q"]

NameAfter(to) == IF to = None THEN <<>> ELSE NameAt(Arrived, to, ObjectLimit)
NameAround(from, before) ==
    IF before # <<>> \/ from = None THEN before ELSE NameAfter(SpanEnd(Arrived, from))
NameOf(call) ==
    NameAround(call.arguments, NameAt(Arrived, call.json, IF call.arguments = None THEN ObjectLimit ELSE call.arguments))

UpTo(from, to) == FromTo(Arrived, from, IF to = None THEN Len(Arrived) + 1 ELSE to)
Available(call) ==
    IF call.arguments = None THEN <<>> ELSE UpTo(call.arguments, SpanEnd(Arrived, call.arguments))
Unescaped(raw) == FlattenSeq([k \in DOMAIN raw |-> IF raw[k] = "bs" THEN <<>> ELSE <<raw[k]>>])
Unquoted(raw) == IF Len(raw) >= 2 /\ raw[Len(raw)] = "q" THEN Unescaped(SubSeq(raw, 2, Len(raw) - 1)) ELSE raw
Complete(call) == IF call.quoted THEN Unquoted(Available(call)) ELSE Available(call)

Announced(call) == IF call.name # <<>> /\ ~call.sentOpen THEN <<Call(call.index, call.name, <<>>)>> ELSE <<>>
\* Broken variant: arguments are sent once
FragmentOnce(call, arguments) ==
    IF call.sent = 0 /\ arguments # <<>> THEN <<Call(call.index, <<>>, arguments)>> ELSE <<>>
Fragment(call, arguments) ==
    IF Len(arguments) > call.sent THEN <<Call(call.index, <<>>, SubSeq(arguments, call.sent + 1, Len(arguments)))>>
    ELSE <<>>

WithName(call) == IF call.name # <<>> THEN call ELSE [call EXCEPT !.name = NameOf(call)]
Stepped == WithName(Located(ArgumentsAt(Arrived, open.json, ObjectLimit)))
CanStream(call) == call.name # <<>> /\ call.arguments # None /\ ~call.quoted

\* The object has not closed: send what has come, and wait.
Send(call, arguments) == client' = MergeAll(client, Announced(call) \o Fragment(call, arguments))
SendReady(call, ready) ==
    /\ Send(call, ready)
    /\ open' = [call EXCEPT !.sentOpen = call.name # <<>>, !.sent = Max({@, Len(ready)})]
Ready(call) == SendReady(call, IF CanStream(call) THEN Available(call) ELSE <<>>)
StepOpen ==
    /\ pc = "pushing" /\ open # NoCall /\ ObjectEnd = None
    /\ Ready(Stepped)
    /\ Return
    /\ UNCHANGED <<reply, fed, content, calls, cursor, region, trailing, nextIndex, fences>>

\* _close: the object has closed, or no more is coming.
Report(call, arguments) ==
    /\ call.name # <<>>
    /\ Send(call, arguments)
    /\ calls' = Append(calls, Call(call.index, call.name, IF arguments = <<>> THEN Braces ELSE arguments))
Reported(call) == Report(call, Complete(call))
CloseCall ==
    /\ pc \in {"pushing", "finishing"} /\ open # NoCall /\ (ObjectEnd # None \/ Final)
    /\ Reported(Stepped)
    /\ open' = NoCall
    /\ cursor' = Max({cursor, ObjectLimit})
    /\ trailing' = ObjectLimit
    /\ UNCHANGED <<reply, fed, pc, content, region, nextIndex, fences>>

\* It never named a function: its text is content.
GivesIndexBack == nextIndex - 1
CloseNameless ==
    /\ pc \in {"pushing", "finishing"} /\ open # NoCall /\ (ObjectEnd # None \/ Final)
    /\ Stepped.name = <<>>
    /\ EmitUpTo(cursor, ObjectLimit)
    /\ cursor' = Max({cursor, ObjectLimit})
    /\ open' = NoCall
    /\ nextIndex' = GivesIndexBack
    /\ IF Final THEN Return ELSE UNCHANGED pc
    /\ UNCHANGED <<reply, fed, calls, client, region, trailing, fences>>

(***************************************************************************)
(* A turn with no call open: past the end of the last call, if it has come *)
(* whole, and on to the next.                                              *)
(***************************************************************************)
Resumed == IF trailing = None THEN None ELSE AfterCall(Family, Arrived, trailing, Final)
WaitForEnd ==
    /\ pc \in {"pushing", "finishing"} /\ open = NoCall
    /\ trailing # None /\ Resumed = None
    /\ Return
    /\ UNCHANGED <<reply, fed, content, calls, client, parser>>

\* What was found from a position on: content up to it, and the call that opens there.
Act(at, same, tracked, found, end) ==
    /\ EmitUpTo(at, end)
    /\ region' = same
    /\ trailing' = None
    /\ fences' = tracked
    /\ \/ /\ found.is = "found"
          /\ open' = OpenCall(nextIndex + 1, found)
          /\ nextIndex' = nextIndex + 1
          /\ cursor' = found.json
          /\ UNCHANGED pc
       \/ /\ found.is # "found"
          /\ cursor' = Max({at, end})
          /\ Return
          /\ UNCHANGED <<open, nextIndex>>
Heed(at, same, tracked, found) ==
    Act(at, same, tracked, found,
        CASE found.is = "nothing" -> SafeEnd(at)
          [] found.is = "pending" /\ Final -> Len(Arrived) + 1
          [] OTHER -> found.content)
FindFrom(at, tracked) == Heed(at, FALSE, tracked, FindCall(Family, Arrived, at, tracked.tag))
FindNext(at) ==
    FindFrom(at, IF TracksFences(Family, Arrived, at) THEN TrackFences(Arrived, fences.at, fences.tag) ELSE fences)
Turn(from, inRegion, next) ==
    \/ inRegion /\ next # Nothing /\ Heed(from, TRUE, fences, next)
    \/ /\ ~(inRegion /\ next # Nothing)
       /\ FindNext(IF inRegion THEN Max({from, AfterRegion(Family, Arrived, from)}) ELSE from)
TurnFrom(from) == Turn(from, region \/ trailing # None, NextInRegion(Family, Arrived, from))
Interpret ==
    /\ pc \in {"pushing", "finishing"} /\ open = NoCall
    /\ trailing # None => Resumed # None
    /\ TurnFrom(Max({cursor, Resumed}))
    /\ UNCHANGED <<reply, fed, calls, client>>

Done == pc = "done" /\ UNCHANGED toolVars
ToolNext ==
    \/ \E n \in reply.chunks : Put(n)
    \/ FinishReply \/ StepOpen \/ CloseCall \/ CloseNameless \/ WaitForEnd \/ Interpret
    \/ Done
ToolSpec == ToolInit /\ [][ToolNext]_toolVars

(***************************************************************************)
(* Properties.                                                             *)
(***************************************************************************)
\* While the reply arrives the client has read a part of what was meant: no half of a marker
\* or of a call as text, and no fragment that has to be taken back (toolcalls.py:704-707).
CannotBeUnprinted ==
    pc = "idle" =>
        /\ IsPrefix(content, reply.content)
        /\ Len(client) <= Len(reply.calls)
        /\ \A k \in DOMAIN client :
              /\ client[k].index = reply.calls[k].index /\ client[k].name = reply.calls[k].name
              /\ IsPrefix(client[k].arguments, reply.calls[k].arguments)

\* A reply that arrives whole is read as it was meant, wherever its pieces were cut
\* (tests/test_toolcalls.py:262-263).
WrittenIsRead ==
    pc = "done" /\ fed = Whole =>
        content = reply.content /\ calls = reply.calls /\ nextIndex = Len(calls)

\* A client that merges the deltas of a stream has the calls a response in one piece reports,
\* also when the budget of tokens cuts the reply short: an argument that is absent is the one
\* difference (toolcalls.py:12-16).
ModesAgree ==
    pc = "done" =>
        /\ Len(client) = Len(calls)
        /\ \A k \in DOMAIN calls :
              /\ client[k].index = k /\ calls[k].index = k /\ client[k].name = calls[k].name
              /\ \/ client[k].arguments = calls[k].arguments
                 \/ client[k].arguments = <<>> /\ calls[k].arguments = Braces

===============================================================================
