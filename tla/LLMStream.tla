---------------------------- MODULE LLMStream -----------------------------
(***************************************************************************)
(* One streamed answer of an OpenAI-compatible model, from the request to  *)
(* the last chunk (interfaces/model/openai_compatible/llm.py, with the     *)
(* think tags and invoke() of interfaces/model/large_language_model.py).   *)
(*                                                                         *)
(* The provider sends events; the generator turns each into at most one    *)
(* chunk, keeps what the chunks do not carry (tool calls, usage, finish    *)
(* reason) and puts it in a final one; the consumer asks for the next      *)
(* chunk or closes the generator.                                          *)
(*                                                                         *)
(* A piece of text, of reasoning or of arguments is the number of the      *)
(* event that brought it. A provider numbers its tool calls 0, 1, ... and  *)
(* calls the c-th "c": ids from NumCalls on are those the code generates.  *)
(***************************************************************************)
EXTENDS Naturals, Sequences, FiniteSets, SequencesExt

CONSTANTS
  Configs,   \* what may be met: records of Config
  NumCalls,  \* bound: the tool calls a provider makes in one answer
  MaxEvents, \* bound: the events it sends before the end
  None

ASSUME NumCallsAssumption == NumCalls \in Nat
ASSUME NoneAssumption == None \notin Nat
ASSUME MaxEventsAssumption == MaxEvents \in Nat

(***************************************************************************)
(* The ways in which providers name the call a fragment belongs to: by an  *)
(* index; by an id on the first fragment only; by an id on all of them; by *)
(* its name only; with the one function_call there is; or, wrongly, not.   *)
(* What else a provider says is what it fills the other fields with.       *)
(***************************************************************************)
Config == [style: {"indexed", "anchored", "everywhere", "bare", "legacy", "headless"},
           calling: {"no_call", "tool_call", "function_call"},
           mode: {"chat", "completion"},
           says: SUBSET {"reasoning", "content", "finish", "usage"},
           sse: BOOLEAN]

ASSUME ConfigsAssumption == Configs \subseteq Config

VARIABLES
  config,
  received,    \* history: the events read from the provider
  pc,          \* control of the generator, and how it ended
  response,    \* the HTTP response
  timing,      \* whether AIModel.started_at is set
  chunkIndex, isReasoning, toolCalls, toolCallIds, finishReason, usage,
  generated,   \* ids generated so far
  chunks       \* history: what the consumer was given

vars == <<config, received, pc, response, timing, chunkIndex, isReasoning,
          toolCalls, toolCallIds, finishReason, usage, generated, chunks>>

handler == <<chunkIndex, isReasoning, toolCalls, toolCallIds, finishReason,
             usage, generated>>

Calls == 0 .. NumCalls - 1
Counters == {"prompt", "completion"}

-----------------------------------------------------------------------------
(***************************************************************************)
(* What the provider may send next.                                        *)
(***************************************************************************)

Fragments(n) == received[n].fragments
Functions(n) == {i \in DOMAIN Fragments(n) : Fragments(n)[i].function}

\* The events that brought a fragment of the function of call c, in order.
Pieces(c) ==
  FlattenSeq([n \in DOMAIN received |->
    IF \E i \in Functions(n) : Fragments(n)[i].call = c THEN <<n>> ELSE <<>>])

Opened == {c \in Calls : Pieces(c) # <<>>}

\* c was opened last.
Latest(c) == c \in Opened /\ \A d \in Opened : Head(Pieces(d)) <= Head(Pieces(c))

(***************************************************************************)
(* A fragment for call c. The name comes with the first piece of the       *)
(* function; a fragment without a function only announces the id.          *)
(***************************************************************************)
FragmentOf(c) ==
  LET wire(index, ids, functions) ==
        {[call |-> c, index |-> index, id |-> id, function |-> f,
          named |-> f /\ c \notin Opened] : id \in ids, f \in functions}
  IN  CASE config.style = "indexed" ->
             wire(c, {None, c}, {TRUE}) \cup wire(c, {c}, {FALSE})
        [] config.style = "everywhere" -> wire(None, {c}, {TRUE})
        [] config.style = "anchored" ->
             IF c \notin Opened THEN wire(None, {c}, {TRUE})
             ELSE IF Latest(c) THEN wire(None, {None}, {TRUE}) ELSE {}
        [] config.style = "bare" ->
             IF c \notin Opened \/ Latest(c) THEN wire(None, {None}, {TRUE}) ELSE {}
        [] config.style = "legacy" ->
             IF c = 0 THEN wire(None, {c}, {TRUE}) ELSE {}
        [] config.style = "headless" ->
             {[f EXCEPT !.named = FALSE] : f \in wire(None, {None}, {TRUE})}

\* The calls a fragment may be for: they are numbered as they are opened.
Open == {c \in Calls : \A d \in 0 .. c - 1 : d \in Opened}

\* The fragments of one delta: none, one, or two of one kind for two calls.
FragmentLists ==
  {<<>>}
  \cup (UNION {{<<f>> : f \in FragmentOf(c)} : c \in Open})
  \cup IF config.style \notin {"indexed", "everywhere"} THEN {}
       ELSE {p \in (UNION {FragmentOf(c) : c \in Open})
                    \X (UNION {FragmentOf(c) : c \in Calls}) :
               p[1].call # p[2].call /\ p[1].function = p[2].function}

\* An event without anything in it.
Blank == [reasoning |-> FALSE, content |-> FALSE, fragments |-> <<>>,
          finish |-> FALSE, usage |-> {}]

\* The values of a field the provider fills or not.
May(field) == IF field \in config.says THEN BOOLEAN ELSE {FALSE}

\* Words, the finish reason with the last words, or fragments.
Deltas ==
  {e \in [reasoning: May("reasoning"), content: May("content"),
          fragments: FragmentLists, finish: May("finish"), usage: {{}}] :
     /\ e.finish => ~e.reasoning
     /\ e.fragments # <<>> => ~e.content /\ ~e.finish}

Receive(e) ==
  /\ pc = "reading"
  /\ Len(received) < MaxEvents
  /\ received' = Append(received, e)
  /\ UNCHANGED <<config, timing>>

-----------------------------------------------------------------------------
(***************************************************************************)
(* Tool calls.                                                             *)
(***************************************************************************)

\* The position of the call with this id, or 0.
position(calls, id) ==
  IF id = None THEN 0 ELSE SelectInSeq(calls, LAMBDA call : call.id = id)

\* mutant: an id that comes late starts a call of its own
trackLateApart(state, fragment) ==
  IF fragment.index = None
  THEN [state EXCEPT !.fragments = Append(@, fragment)]
  ELSE LET id == IF fragment.id # None THEN fragment.id
                 ELSE IF state.ids[fragment.index] # None THEN state.ids[fragment.index]
                 ELSE NumCalls + state.generated
       IN  [state EXCEPT
              !.ids[fragment.index] = id,
              !.generated = IF id = NumCalls + @ THEN @ + 1 ELSE @,
              !.fragments = Append(@, [fragment EXCEPT !.id = id])]

(***************************************************************************)
(* A fragment with an index gets the id known for the index, or a new one; *)
(* an id that comes late replaces the one that was made up.                *)
(***************************************************************************)
track(state, fragment) ==
  IF fragment.index = None
  THEN [state EXCEPT !.fragments = Append(@, fragment)]
  ELSE LET previous == state.ids[fragment.index]
           made == NumCalls + state.generated
           id == IF fragment.id # None THEN fragment.id
                 ELSE IF previous # None THEN previous ELSE made
           i == position(state.calls, previous)
       IN  [state EXCEPT
              !.calls = IF i = 0 THEN @ ELSE [@ EXCEPT ![i].id = id],
              !.ids[fragment.index] = id,
              !.generated = IF id = made THEN @ + 1 ELSE @,
              !.fragments = Append(@, [fragment EXCEPT !.id = id])]

\* The call with one more piece, and its name if it came.
update(call, fragment, n) ==
  [call EXCEPT !.name = IF fragment.named THEN fragment.call ELSE @, !.args = Append(@, n)]

(***************************************************************************)
(* A piece of a function goes to the call with its id, which may be new; a *)
(* name without an id starts a call; a piece without either goes to the    *)
(* last call, and existing_tools_calls[-1] raises if there is none.        *)
(***************************************************************************)
increase(state, fragment, n) ==
  LET fresh == fragment.named /\ fragment.id = None
      id == IF fresh THEN NumCalls + state.generated ELSE fragment.id
      i == IF id = None THEN Len(state.calls) ELSE position(state.calls, id)
      made == IF fresh THEN state.generated + 1 ELSE state.generated
      new == update([id |-> id, name |-> None, args |-> <<>>], fragment, n)
  IN  CASE i = 0 /\ id = None -> [state EXCEPT !.failed = TRUE]
        [] i = 0 /\ id # None ->
             [state EXCEPT !.calls = Append(@, new), !.generated = made]
        [] i # 0 ->
             [state EXCEPT !.calls[i] = update(@, fragment, n), !.generated = made]

\* Whether the code looks at the fragments of a delta.
accepted ==
  \/ config.calling = "tool_call" /\ config.style # "legacy"
  \/ config.calling = "function_call" /\ config.style = "legacy"

\* All ids are settled first; then come the fragments that have a function.
assemble(fragments, n) ==
  LET start == [calls |-> toolCalls, ids |-> toolCallIds,
                generated |-> generated, fragments |-> <<>>, failed |-> FALSE]
      tracked == FoldLeft(track, start, fragments)
  IN  FoldLeft(LAMBDA state, f : IF f.function THEN increase(state, f, n) ELSE state,
               tracked, tracked.fragments)

-----------------------------------------------------------------------------
(***************************************************************************)
(* Think tags.                                                             *)
(***************************************************************************)

Tag(t) == <<[tag |-> t, n |-> 0]>>
Text(t, n) == <<[tag |-> t, n |-> n]>>

wrapThinking(e, n, reasoning) ==
  LET content == IF e.content THEN Text("say", n) ELSE <<>>
      opening == IF reasoning THEN <<>> ELSE Tag("open")
  IN  IF e.reasoning
      THEN IF e.content \/ e.fragments # <<>>
           THEN [text |-> opening \o Text("think", n) \o Tag("close") \o content,
                 reasoning |-> FALSE]
           ELSE [text |-> opening \o Text("think", n), reasoning |-> TRUE]
      ELSE [text |-> (IF reasoning THEN Tag("close") ELSE <<>>) \o content,
            reasoning |-> FALSE]

\* mutant: an empty heartbeat is wrapped like everything else
textOfHeartbeat(e, n) == wrapThinking(e, n, isReasoning)

\* Empty heartbeats must not close an active thinking block.
textOf(e, n) ==
  IF isReasoning /\ ~e.reasoning /\ ~e.content /\ e.fragments = <<>>
  THEN [text |-> <<>>, reasoning |-> TRUE]
  ELSE wrapThinking(e, n, isReasoning)

Chunk(index, text) == [index |-> index, text |-> text, final |-> FALSE]

-----------------------------------------------------------------------------
(***************************************************************************)
(* The generator.                                                          *)
(***************************************************************************)

Init ==
  /\ config \in Configs
  /\ received = <<>>
  /\ pc = "fresh"
  /\ response = "none"
  /\ timing = FALSE
  /\ chunkIndex = 0
  /\ isReasoning = FALSE
  /\ toolCalls = <<>>
  /\ toolCallIds = [i \in Calls |-> None]
  /\ finishReason = None
  /\ usage = [k \in Counters |-> None]
  /\ generated = 0
  /\ chunks = <<>>

(***************************************************************************)
(* The first next(): invoke() starts the clock and sends the request. An   *)
(* answer other than 200 is read, closed and raised.                       *)
(***************************************************************************)
Start ==
  /\ pc = "fresh"
  /\ \/ /\ pc' = "reading"
        /\ response' = "open"
        /\ timing' = TRUE
     \/ /\ pc' = "raised"
        /\ response' = "closed"
        /\ timing' = FALSE
  /\ UNCHANGED <<config, received, chunks, handler>>

\* mutant: the response is only closed at the end of the stream
LeaveOpen(how) ==
  /\ pc' = how
  /\ timing' = FALSE
  /\ UNCHANGED <<config, response, chunks, handler>>

\* Every way out of the generator passes `with response` and the clock.
Leave(how) ==
  /\ pc' = how
  /\ response' = "closed"
  /\ timing' = FALSE
  /\ UNCHANGED <<config, chunks, handler>>

\* Blank events, comments, and on an event stream other fields than data.
ReadSkipped ==
  /\ config.sse
  /\ Receive(Blank)
  /\ UNCHANGED <<pc, response, chunks, handler>>

\* mutant: the last usage replaces the ones before it
ReadUsageLast ==
  /\ "usage" \in config.says
  /\ \E k \in Counters : Receive([Blank EXCEPT !.usage = {k}])
  /\ usage' = [k \in Counters |->
                 IF k \in Last(received').usage THEN Len(received') ELSE None]
  /\ UNCHANGED <<pc, response, chunkIndex, isReasoning, toolCalls, toolCallIds,
                 finishReason, generated, chunks>>

\* An event without choices may carry usage: counters that are not null.
ReadUsage ==
  /\ "usage" \in config.says
  /\ \E k \in Counters : Receive([Blank EXCEPT !.usage = {k}])
  /\ usage' = [k \in Counters |->
                 IF k \in Last(received').usage THEN Len(received') ELSE usage[k]]
  /\ UNCHANGED <<pc, response, chunkIndex, isReasoning, toolCalls, toolCallIds,
                 finishReason, generated, chunks>>

\* What the generator yields is what the consumer gets.
Yield(text) ==
  IF text = <<>>
  THEN /\ pc' = "reading"
       /\ chunkIndex' = chunkIndex + 1
       /\ UNCHANGED chunks
  ELSE /\ pc' = "yielded"
       /\ chunks' = Append(chunks, Chunk(chunkIndex + 1, text))
       /\ chunkIndex' = chunkIndex + 2

ReadDelta ==
  /\ config.mode = "chat"
  /\ \E e \in Deltas :
       LET n == Len(received) + 1
           said == textOf(e, n)
           result == assemble(IF accepted THEN e.fragments ELSE <<>>, n)
       IN  /\ Receive(e)
           /\ finishReason' = IF e.finish THEN n ELSE finishReason
           /\ isReasoning' = said.reasoning
           /\ toolCallIds' = result.ids
           /\ toolCalls' = result.calls
           /\ generated' = result.generated
           /\ ~result.failed
           /\ Yield(said.text)
  /\ UNCHANGED <<response, usage>>

\* A fragment that belongs to no call.
ReadHeadless ==
  /\ config.mode = "chat"
  /\ pc = "reading"
  /\ Len(received) < MaxEvents
  /\ \E e \in Deltas :
       LET n == Len(received) + 1
       IN  /\ assemble(IF accepted THEN e.fragments ELSE <<>>, n).failed
           /\ received' = Append(received, e)
  /\ Leave("raised")

\* The completion mode streams text without deltas.
ReadText ==
  /\ config.mode = "completion"
  /\ \E c \in BOOLEAN, f \in May("finish") :
       LET n == Len(received) + 1
       IN  /\ Receive([Blank EXCEPT !.content = c, !.finish = f])
           /\ finishReason' = IF f THEN n ELSE finishReason
           /\ Yield(IF c THEN Text("say", n) ELSE <<>>)
  /\ UNCHANGED <<response, isReasoning, toolCalls, toolCallIds, usage, generated>>

\* An error event, invalid JSON, or a connection that breaks.
ReadError ==
  /\ pc = "reading"
  /\ Leave("raised")
  /\ UNCHANGED received

\* [DONE] or the end of the body.
ReadEnd ==
  /\ pc = "reading"
  /\ response' = "closed"
  /\ IF isReasoning
     THEN /\ pc' = "closing"
          /\ chunks' = Append(chunks, Chunk(chunkIndex, Tag("close")))
          /\ chunkIndex' = chunkIndex + 1
     ELSE /\ pc' = "closed think"
          /\ UNCHANGED <<chunks, chunkIndex>>
  /\ UNCHANGED <<config, received, timing, isReasoning, toolCalls, toolCallIds,
                 finishReason, usage, generated>>

\* A counter that was not reported is estimated.
YieldFinal ==
  /\ pc = "closed think"
  /\ pc' = "final"
  /\ chunks' = Append(chunks, [index |-> chunkIndex, text |-> <<>>, final |-> TRUE,
                               toolCalls |-> toolCalls, finish |-> finishReason,
                               usage |-> usage])
  /\ UNCHANGED <<config, received, response, timing, handler>>

\* The consumer asks for the next chunk.
Resume ==
  /\ \/ pc = "yielded" /\ pc' = "reading" /\ UNCHANGED timing
     \/ pc = "closing" /\ pc' = "closed think" /\ UNCHANGED timing
     \/ pc = "final" /\ pc' = "ended" /\ timing' = FALSE
  /\ UNCHANGED <<config, received, response, chunks, handler>>

\* The consumer closes the generator: nothing runs if it was never started.
Abandon ==
  \/ /\ pc = "fresh"
     /\ pc' = "abandoned"
     /\ UNCHANGED <<config, received, response, timing, chunks, handler>>
  \/ /\ pc \in {"yielded", "closing", "final"}
     /\ Leave("abandoned")
     /\ UNCHANGED received

Over == pc \in {"ended", "raised", "abandoned"}

Next ==
  \/ Start \/ Resume \/ Abandon
  \/ ReadSkipped \/ ReadUsage \/ ReadDelta \/ ReadHeadless \/ ReadText
  \/ ReadError \/ ReadEnd \/ YieldFinal

Spec == Init /\ [][Next]_vars

-----------------------------------------------------------------------------
(***************************************************************************)
(* Properties.                                                             *)
(***************************************************************************)

Said == FlattenSeq([i \in DOMAIN chunks |-> chunks[i].text])

IsTag(piece) == piece.tag \in {"open", "close"}

\* The words of a text, and its tags.
Words(text) ==
  FlattenSeq([i \in DOMAIN text |-> IF IsTag(text[i]) THEN <<>> ELSE <<text[i]>>])

Tags(text) ==
  FlattenSeq([i \in DOMAIN text |-> IF IsTag(text[i]) THEN <<text[i]>> ELSE <<>>])

\* What the provider said, in its order.
Meant == FlattenSeq([n \in DOMAIN received |->
           (IF received[n].reasoning THEN Text("think", n) ELSE <<>>)
             \o (IF received[n].content THEN Text("say", n) ELSE <<>>)])

\* Whether position i is between an opening tag and the next closing one.
Inside(text, i) ==
  \E j \in 1 .. i : /\ text[j].tag = "open"
                    /\ \A k \in j .. i : text[k].tag # "close"

\* The pieces i and j of reasoning are in different blocks.
Parted(text, i, j) == \E k \in i .. j : text[k].tag = "close"

(***************************************************************************)
(* The chunks put together are what the provider said, nothing lost,       *)
(* doubled or moved, with the reasoning and only the reasoning inside      *)
(* think tags; the tags alternate and the last one is closed by the end;   *)
(* and a block is only closed under running reasoning by something the     *)
(* reader sees, content or a tool call, never by an empty heartbeat.       *)
(***************************************************************************)
ThinkTagsWellNested ==
  LET text == Said
      tags == Tags(text)
  IN  /\ IF pc = "raised" THEN IsPrefix(Words(text), Meant) ELSE Words(text) = Meant
      /\ \A i \in DOMAIN text : ~IsTag(text[i]) => (text[i].tag = "think" <=> Inside(text, i))
      /\ \A i \in DOMAIN tags : tags[i].tag = IF i % 2 = 1 THEN "open" ELSE "close"
      /\ pc \in {"closed think", "final", "ended"} => Len(tags) % 2 = 0
      /\ \A i, j \in DOMAIN text :
           (i < j /\ text[i].tag = "think" /\ text[j].tag = "think" /\ Parted(text, i, j))
             => \E n \in text[i].n .. text[j].n - 1 :
                  received[n].content \/ received[n].fragments # <<>>

\* The id the provider has announced for call c.
Announced(c) ==
  \E n \in DOMAIN received : \E i \in DOMAIN Fragments(n) :
    Fragments(n)[i].call = c /\ Fragments(n)[i].id = c

(***************************************************************************)
(* Whatever way the provider names its calls, and however it interleaves   *)
(* them: each call that was opened is assembled once, with its name and    *)
(* all its pieces in order and no other's, under the provider's id if      *)
(* there was one before the end, and under an id of its own if not.        *)
(***************************************************************************)
ToolCallsAssembled ==
  IF ~accepted THEN toolCalls = <<>>
  ELSE pc # "raised" =>
    /\ Len(toolCalls) = Cardinality(Opened)
    /\ \A c \in Opened : \E i \in DOMAIN toolCalls :
         /\ toolCalls[i].name = c
         /\ toolCalls[i].args = Pieces(c)
         /\ IF Announced(c) THEN toolCalls[i].id = c ELSE toolCalls[i].id >= NumCalls
    /\ \A i, j \in DOMAIN toolCalls : toolCalls[i].id = toolCalls[j].id => i = j

\* The last event with property P, or None.
LastEvent(P(_)) ==
  LET ns == {n \in DOMAIN received : P(received[n])}
  IN  IF ns = {} THEN None ELSE CHOOSE n \in ns : \A m \in ns : m <= n

(***************************************************************************)
(* The chunks are numbered upwards. A stream that went well ends with one  *)
(* final chunk that has the last finish reason, the last value of every    *)
(* counter that was reported, and every tool call; one that failed has no  *)
(* final chunk, so that no half answer passes for a whole one.             *)
(***************************************************************************)
FinalChunkTellsAll ==
  /\ \A i, j \in DOMAIN chunks : i < j => chunks[i].index < chunks[j].index
  /\ \A i \in DOMAIN chunks :
       chunks[i].final => i = Len(chunks) /\ pc \in {"final", "ended", "abandoned"}
  /\ pc = "ended" => chunks # <<>> /\ Last(chunks).final
  /\ (chunks # <<>> /\ Last(chunks).final) =>
       /\ Last(chunks).finish = LastEvent(LAMBDA e : e.finish)
       /\ \A k \in Counters : Last(chunks).usage[k] = LastEvent(LAMBDA e : k \in e.usage)
       /\ Last(chunks).toolCalls = toolCalls

(***************************************************************************)
(* The connection to the provider is held exactly while there is more to   *)
(* read from it, and the clock of the model runs until its answer is over: *)
(* however a stream ends, neither is left behind.                          *)
(***************************************************************************)
ResponseReleased ==
  /\ response = "open" <=> pc \in {"reading", "yielded"}
  /\ timing <=> pc \notin {"fresh"} /\ ~Over
=============================================================================
