-------------------------------- MODULE Serving --------------------------------
(***************************************************************************)
(* The server around one model (server/app.py): the endpoints on the event *)
(* loop, the RequestQueue and its worker thread, the _Job between them and *)
(* the _Sink that turns tokens into text; and the shutdown of cli.py.      *)
(*                                                                         *)
(* A worker step ends where it emits events or takes the queue's lock, a   *)
(* step of the loop where a coroutine awaits.  The tokens a generation     *)
(* yields are any; a codepoint may take two of them, as it does in the     *)
(* tokenizers StreamDecoder is written for.                                *)
(***************************************************************************)
EXTENDS Integers, SequencesExt

CONSTANTS
  Jobs, Arrivals,    \* one request each; those that may come together
  Plain,             \* characters that are a token
  First, Second,     \* the two tokens of a codepoint that is split
  Joined, Bad,       \* that codepoint; what decode puts for half of it (U+FFFD)
  Stops,             \* settings.stop: sequences of characters
  Budget,            \* what _token_budget comes to for each job
  Yields,            \* tokens the model may yield for each job
  Bursts,            \* tokens a pass may show the sink at once
  Nobody             \* no job

ASSUME ServingAssumption ==
  /\ Arrivals \subseteq SUBSET Jobs
  /\ Stops \subseteq Seq(Plain \cup {Joined}) \ {<< >>} /\ IsFiniteSet(Stops)
  /\ Budget \in [Jobs -> Nat \ {0}] /\ Yields \in [Jobs -> SUBSET (Plain \cup {First, Second})]
  /\ Bursts \subseteq Nat \ {0}
  /\ {First, Second} \cap Plain = {} /\ First # Second
  /\ Bad \notin Plain \cup {Joined} /\ Nobody \notin Jobs

VARIABLES
  pending, current,  \* the deque; _current
  closed,            \* _closed
  counts,            \* completed, cancelled, failed
  worker,            \* where the worker thread is
  gen,               \* the generation it runs: its tokens, its text, `emitted`
  cancel,            \* the cancel event of each job
  outcome,           \* "none", then how execute() ended
  events,            \* the events of each job on their way to the loop
  position,          \* job.position
  endpoint,          \* where the endpoint of each job is
  gone,              \* clients that have hung up
  got, answer,       \* text of the deltas delivered; text of the Completed delivered
  server             \* "up", "closing" (queue.close), "stopped" (model.close)

queueVars == <<pending, current, closed, counts, position>>
loopVars == <<endpoint, gone, got, answer>>
vars == <<queueVars, worker, gen, cancel, outcome, events, loopVars, server>>

NoGen == [ids |-> << >>, text |-> << >>, emitted |-> 0]
NoText == <<Nobody>>

Init ==
  /\ pending = << >> /\ current = Nobody /\ closed = FALSE
  /\ counts = [completed |-> 0, cancelled |-> 0, failed |-> 0]
  /\ worker = "waiting" /\ gen = NoGen /\ server = "up" /\ gone = {}
  /\ cancel = [j \in Jobs |-> FALSE] /\ outcome = [j \in Jobs |-> "none"]
  /\ events = [j \in Jobs |-> << >>] /\ position = [j \in Jobs |-> 0]
  /\ \E come \in Arrivals : endpoint = [j \in Jobs |-> IF j \in come THEN "new" ELSE "absent"]
  /\ got = [j \in Jobs |-> << >>]
  /\ answer = [j \in Jobs |-> NoText]

-----------------------------------------------------------------------------
(* StreamDecoder                                                           *)

\* decode of all the tokens at once: halves meet, and one without the other is U+FFFD
Decode(ids) ==
  FlattenSeq([i \in DOMAIN ids |->
    CASE ids[i] \in Plain -> <<ids[i]>>
      [] ids[i] = First /\ i < Len(ids) /\ ids[i + 1] = Second -> <<Joined>>
      [] ids[i] = Second /\ i > 1 /\ ids[i - 1] = First -> << >>
      [] OTHER -> <<Bad>>])

\* rstrip of U+FFFD, down to `from`
Stable(text, from) ==
  Max({n \in from..Len(text) : n = from \/ text[n] # Bad})

HoldNothing == 0                                  \* broken: no hold-back
HoldBack == Max({0} \cup {Len(stop) : stop \in Stops})

\* take(): how much of the text may have been sent after it
Limit(text, emitted) == Max({emitted, Stable(text, emitted) - HoldBack})

\* _first_stop: where the earliest stop sequence begins, counted from 0; Len(text) for none
StopAt(text) ==
  Min({Len(text)} \cup {at \in 0..Len(text) :
         \E stop \in Stops :
           at + Len(stop) <= Len(text) /\ SubSeq(text, at + 1, at + Len(stop)) = stop})

-----------------------------------------------------------------------------
(* Events                                                                  *)

Delta(chunk) == IF chunk = << >> THEN << >> ELSE <<[kind |-> "delta", text |-> chunk]>>
Completed(text) == [kind |-> "completed", text |-> text]
Failed == [kind |-> "failed", text |-> << >>]
End == [kind |-> "end", text |-> << >>]

\* emit(): into the loop, or into nothing and the job is cancelled when the loop is closed
Emit(j, new) ==
  IF server = "stopped" /\ new # << >>
  THEN cancel' = [cancel EXCEPT ![j] = TRUE] /\ UNCHANGED events
  ELSE events' = [events EXCEPT ![j] = @ \o new] /\ UNCHANGED cancel

-----------------------------------------------------------------------------
(* The worker thread                                                       *)

\* _work: the next job, or the end of the thread
TakeJob ==
  /\ worker = "waiting" /\ pending # << >>
  /\ current' = Head(pending) /\ pending' = Tail(pending) /\ worker' = "taken"
  /\ UNCHANGED <<closed, counts, position, gen, cancel, outcome, events, loopVars, server>>

\* Broken variants: the jobs still queued are left; the wait does not look at _closed
LeaveAtOnce ==
  /\ worker = "waiting" /\ closed
  /\ worker' = "gone"
  /\ UNCHANGED <<queueVars, gen, cancel, outcome, events, loopVars, server>>
Leave ==
  /\ worker = "waiting" /\ pending = << >> /\ closed
  /\ worker' = "gone"
  /\ UNCHANGED <<queueVars, gen, cancel, outcome, events, loopVars, server>>

\* How execute() leaves `current`: its last events, and what it is counted as
Conclude(how, last) ==
  /\ outcome' = [outcome EXCEPT ![current] = how]
  /\ Emit(current, Append(last, End))
  /\ worker' = "done" /\ gen' = NoGen
  /\ UNCHANGED <<queueVars, loopVars, server>>

\* execute(): nothing for a job abandoned while it was queued, else _run prepares the prompt
Abandoned == worker = "taken" /\ cancel[current] /\ Conclude("cancelled", << >>)
Refused == worker = "taken" /\ ~cancel[current] /\ Conclude("failed", <<Failed>>)
Prepare ==
  /\ worker = "taken" /\ ~cancel[current]
  /\ worker' = "generating"
  /\ UNCHANGED <<queueVars, gen, cancel, outcome, events, loopVars, server>>

\* The sink gets the tokens of a pass and sends what it may
Generating == worker = "generating" /\ Len(gen.ids) < Budget[current]

Show(ids) ==
  LET text == Decode(gen.ids \o ids)
      limit == Limit(text, gen.emitted)
  IN  /\ StopAt(text) = Len(text)
      /\ gen' = [gen EXCEPT !.ids = @ \o ids, !.text = text, !.emitted = limit]
      /\ Emit(current, Delta(SubSeq(text, gen.emitted + 1, limit)))
      /\ UNCHANGED worker

\* Broken variant: what was held back is forgotten
RestForgotten(text, emitted) == << >>

\* flush(): the rest, without half a codepoint at its end
Rest(text, emitted) == Delta(SubSeq(text, emitted + 1, Stable(text, emitted)))

\* A stop sequence: the text is cut where it begins, and the loop left
CutShort(ids) ==
  LET text == Decode(gen.ids \o ids)
      cut == SubSeq(text, 1, StopAt(text))
      emitted == Min({gen.emitted, StopAt(text)})
  IN  /\ StopAt(text) < Len(text)
      /\ gen' = [gen EXCEPT !.ids = @ \o ids, !.text = cut, !.emitted = Len(cut)]
      /\ Emit(current, Rest(cut, emitted))
      /\ worker' = "generated"

PutTokens ==
  /\ Generating /\ ~cancel[current]
  /\ \E n \in Bursts : \E ids \in [1..Min({n, Budget[current] - Len(gen.ids)}) -> Yields[current]] :
       Show(ids) \/ CutShort(ids)
  /\ UNCHANGED <<queueVars, outcome, loopVars, server>>

\* The end of the sequence, or of the budget: end() flushes
EndGeneration ==
  /\ worker = "generating" /\ gen.ids # << >>
  /\ gen' = [gen EXCEPT !.emitted = Len(gen.text)]
  /\ Emit(current, Rest(gen.text, gen.emitted))
  /\ worker' = "generated"
  /\ UNCHANGED <<queueVars, outcome, loopVars, server>>

PutCancelled == Generating /\ cancel[current] /\ Conclude("cancelled", << >>)
GenerationFails == Generating /\ Conclude("failed", <<Failed>>)

\* _run after the generation: a client that has gone gets no result
Finished ==
  /\ worker = "generated"
  /\ \/ cancel[current] /\ Conclude("cancelled", << >>)
     \/ ~cancel[current] /\ Conclude("completed", <<Completed(gen.text)>>)

\* _work: the job is counted, under the lock
Retire ==
  /\ worker = "done"
  /\ current' = Nobody /\ worker' = "waiting"
  /\ counts' = [completed |-> counts.completed + 1,
                cancelled |-> counts.cancelled + IF outcome[current] = "cancelled" THEN 1 ELSE 0,
                failed |-> counts.failed + IF outcome[current] = "failed" THEN 1 ELSE 0]
  /\ UNCHANGED <<pending, closed, position, gen, cancel, outcome, events, loopVars, server>>

-----------------------------------------------------------------------------
(* The event loop                                                          *)

Ahead == Len(pending) + IF current = Nobody THEN 0 ELSE 1

\* An endpoint submits its job.  _collect watches the client from here on; a stream only from its
\* first chunk on.
Submit(j) ==
  /\ endpoint[j] = "new" /\ server # "stopped"
  /\ \/ /\ closed /\ endpoint' = [endpoint EXCEPT ![j] = "refused"]
        /\ UNCHANGED <<pending, position>>
     \/ /\ ~closed /\ position' = [position EXCEPT ![j] = Ahead] /\ pending' = Append(pending, j)
        /\ \E place \in {"collecting", "submitted"} : endpoint' = [endpoint EXCEPT ![j] = place]
  /\ UNCHANGED <<current, closed, counts, worker, gen, cancel, outcome, events, gone, got, answer,
                 server>>

StartStream(j) ==
  /\ endpoint[j] = "submitted" /\ server # "stopped"
  /\ endpoint' = [endpoint EXCEPT ![j] = "streaming"]
  /\ UNCHANGED <<queueVars, worker, gen, cancel, outcome, events, gone, got, answer, server>>

HangUp(j) ==
  /\ endpoint[j] \in {"submitted", "streaming", "collecting"} /\ j \notin gone
  /\ gone' = gone \cup {j}
  /\ UNCHANGED <<queueVars, worker, gen, cancel, outcome, events, endpoint, got, answer, server>>

\* _watch_for_disconnect
Watch(j) ==
  /\ endpoint[j] \in {"streaming", "collecting"} /\ j \in gone /\ ~cancel[j] /\ server # "stopped"
  /\ cancel' = [cancel EXCEPT ![j] = TRUE]
  /\ UNCHANGED <<queueVars, worker, gen, outcome, events, loopVars, server>>

\* A stream whose client has gone is dropped between two chunks, and its `finally` does not run
Drop(j) ==
  /\ endpoint[j] \in {"submitted", "streaming"} /\ j \in gone
  /\ endpoint[j] = "streaming" => cancel[j]
  /\ endpoint' = [endpoint EXCEPT ![j] = "dropped"]
  /\ UNCHANGED <<queueVars, worker, gen, cancel, outcome, events, gone, got, answer, server>>

\* events(): the next one, or the end of the response, which sets the cancel event
Deliver(j) ==
  /\ endpoint[j] \in {"streaming", "collecting"} /\ events[j] # << >> /\ server # "stopped"
  /\ LET event == Head(events[j])
     IN  /\ got' = [got EXCEPT ![j] = IF event.kind = "delta" THEN @ \o event.text ELSE @]
         /\ answer' = [answer EXCEPT ![j] = IF event.kind = "completed" THEN event.text ELSE @]
         /\ endpoint' = [endpoint EXCEPT ![j] = IF event.kind = "end" THEN "answered" ELSE @]
         /\ cancel' = [cancel EXCEPT ![j] = @ \/ event.kind = "end"]
         /\ events' = [events EXCEPT ![j] = Tail(@)]
  /\ UNCHANGED <<queueVars, worker, gen, outcome, gone, server>>

-----------------------------------------------------------------------------
(* Shutdown: the lifespan closes the queue; cli.py closes the model.       *)

\* Broken variant: the job that runs is not told
CloseQueued ==
  /\ server = "up"
  /\ closed' = TRUE /\ server' = "closing"
  /\ cancel' = [j \in Jobs |-> cancel[j] \/ j \in ToSet(pending)]
  /\ UNCHANGED <<pending, current, counts, position, worker, gen, outcome, events, loopVars>>
Close ==
  /\ server = "up"
  /\ closed' = TRUE /\ server' = "closing"
  /\ cancel' = [j \in Jobs |-> cancel[j] \/ j \in ToSet(pending) \/ j = current]
  /\ UNCHANGED <<pending, current, counts, position, worker, gen, outcome, events, loopVars>>

\* join returns when the worker has gone, or after its timeout
StopServer ==
  /\ server = "closing"
  /\ server' = "stopped"
  /\ UNCHANGED <<queueVars, worker, gen, cancel, outcome, events, loopVars>>

-----------------------------------------------------------------------------
Advance == TakeJob \/ Leave \/ Abandoned \/ Refused \/ Prepare \/ EndGeneration
             \/ PutTokens \/ PutCancelled \/ GenerationFails \/ Finished \/ Retire
Loop(j) == StartStream(j) \/ Watch(j) \/ Deliver(j)
Next ==
  \/ Advance \/ Close \/ StopServer
  \/ \E j \in Jobs : Submit(j) \/ HangUp(j) \/ Drop(j) \/ Loop(j)

Spec == Init /\ [][Next]_vars

\* The worker thread and the loop keep running: a generation ends, one way or another, because its
\* budget is finite, and a coroutine whose wait is over is resumed.
FairSpec == Spec /\ WF_vars(Advance) /\ \A j \in Jobs : WF_vars(Loop(j))

-----------------------------------------------------------------------------
(* Properties                                                              *)

\* A job is queued once, and what is left of it is where the worker and the loop look for it.
TypeOK ==
  /\ IsInjective(pending) /\ current \notin ToSet(pending)
  /\ current = Nobody <=> worker \in {"waiting", "gone"}
  /\ \A j \in Jobs : outcome[j] \in {"none", "cancelled", "failed", "completed"}
  /\ \A j \in ToSet(pending) : outcome[j] = "none" /\ endpoint[j] # "new"
  /\ gen.emitted \in 0..Len(gen.text) /\ (current # Nobody => Len(gen.ids) <= Budget[current])
  /\ counts.completed = Cardinality({j \in Jobs : outcome[j] # "none" /\ j # current})

\* What the loop has of a job's deltas, delivered or not
Sent(j) == got[j] \o FlattenSeq([i \in DOMAIN events[j] |->
             IF events[j][i].kind = "delta" THEN events[j][i].text ELSE << >>])

\* "who cannot un-print them" (server/app.py:201-206): whatever has been sent stays a prefix of the
\* text, when the halves of a codepoint meet and when a stop sequence cuts the text.
NothingTakenBack ==
  worker \in {"generating", "generated"} => IsPrefix(Sent(current), gen.text)

\* The deltas of a stream and the Completed of a reply say the same, but for halves of codepoints
\* at the end, which only the Completed is sure to show.
StreamIsAnswer ==
  \A j \in Jobs : endpoint[j] = "answered" /\ answer[j] # NoText =>
    /\ outcome[j] = "completed" /\ IsPrefix(got[j], answer[j])
    /\ \A n \in (Len(got[j]) + 1)..Len(answer[j]) : answer[j][n] = Bad

\* close() reaches every job there is: whoever is queued, running or just taken (close, submit).
ClosedIsCancelled ==
  closed => \A j \in Jobs :
    j \in ToSet(pending) \/ (j = current /\ outcome[j] = "none") => cancel[j]

\* Every reply that is waited for ends: on its result, its failure or the client's hanging up.
RepliesEnd ==
  \A j \in Jobs : endpoint[j] \in {"submitted", "streaming", "collecting"} ~>
                    endpoint[j] \in {"answered", "dropped"} \/ server = "stopped"

\* The worker comes to its end once the queue is closed, whatever it was doing.
WorkerLeaves == closed ~> worker = "gone"

\* Nothing waits for ever: no client and, at shutdown, not the process for its worker.
EverythingEnds == RepliesEnd /\ WorkerLeaves
================================================================================
