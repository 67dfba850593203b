--------------------------- MODULE PiecewiseText --------------------------
(***************************************************************************)
(* Two readers of a text that comes in pieces cut anywhere: the one that   *)
(* finds the events of a model's HTTP answer (_iter_stream_events of       *)
(* interfaces/model/openai_compatible/llm.py), and the one that takes the  *)
(* markdown fence off a structured answer (the code block mode of          *)
(* interfaces/model/large_language_model.py). Both keep a state from piece *)
(* to piece. The events must not depend on the cuts; the fence has two     *)
(* processors, chosen by the first piece, which agree on a fenced block.   *)
(***************************************************************************)
EXTENDS Naturals, Sequences, SequencesExt

CONSTANTS
  CODE_FENCE_BACKTICK_COUNT,
  Alphabets,  \* the characters each reader may meet
  MaxText,    \* bound: the length of the text
  MaxPiece,   \* bound: the length of a piece
  MaxChunks   \* bound: the chunks of a structured answer

Readers == {"events", "fence"}
Characters == {"tick", "LF", "CR", "space", "other"}

ASSUME FenceAssumption == CODE_FENCE_BACKTICK_COUNT \in Nat \ {0, 1}
ASSUME AlphabetsAssumption == Alphabets \in [Readers -> SUBSET Characters]
ASSUME BoundsAssumption == MaxText \in Nat /\ MaxPiece \in Nat /\ MaxChunks \in Nat

VARIABLES
  reader,    \* which of the two reads the text
  text,      \* history: the text so far
  stage,     \* control of the reader, and how it ended
  decoder,   \* IncrementalNewlineDecoder: whether it holds back a CR
  pending,   \* _iter_stream_events: the beginning of the next event
  events,    \* history: the events yielded
  first,     \* _code_block_mode_wrapper: first_chunk, until it is read again
  processor, \* the stream processor chosen for it
  fence,     \* the state and the backtick_count of that processor
  response,  \* the provider's generator
  taken,     \* the number of chunks the provider yielded
  given,     \* history: the numbers of those the consumer was given
  content    \* history: the text it was given

eventVars == <<decoder, pending, events>>
fenceVars == <<first, processor, fence, response, taken, given, content>>
vars == <<reader, text, stage, eventVars, fenceVars>>

Pieces == BoundedSeq(Alphabets[reader], MaxPiece)

\* The least position from i on that has property P, or 0.
FirstFrom(t, i, P(_)) ==
  LET ps == {j \in i .. Len(t) : P(j)}
  IN  IF ps = {} THEN 0 ELSE CHOOSE j \in ps : \A k \in ps : j <= k

-----------------------------------------------------------------------------
(***************************************************************************)
(* Events.                                                                 *)
(***************************************************************************)

\* Universal newlines: CR LF and CR become LF.
translate(t) ==
  FlattenSeq([i \in DOMAIN t |->
    IF t[i] # "CR" THEN <<t[i]>>
    ELSE IF i < Len(t) /\ t[i + 1] = "LF" THEN <<>> ELSE <<"LF">>])

\* str.split of two LF.
split(t) ==
  LET blank(i) == FirstFrom(t, i, LAMBDA j : j < Len(t) /\ t[j] = "LF" /\ t[j + 1] = "LF")
      from[i \in 1 .. Len(t) + 1] ==
        IF blank(i) = 0 THEN <<SubSeq(t, i, Len(t))>>
        ELSE <<SubSeq(t, i, blank(i) - 1)>> \o from[blank(i) + 2]
  IN  from[1]

\* mutant: every piece is translated by itself
decodeAlone(held, piece, final) == [text |-> translate(piece), held |-> FALSE]

\* A CR at the end of the input may be half of a CR LF: it is held back.
decode(held, piece, final) ==
  LET input == (IF held /\ (final \/ piece # <<>>) THEN <<"CR">> ELSE <<>>) \o piece
      hold == ~final /\ input # <<>> /\ Last(input) = "CR"
  IN  [text |-> translate(IF hold THEN Front(input) ELSE input),
       held |-> IF piece = <<>> /\ ~final THEN held ELSE hold]

\* One turn of the loop: everything but the last part is an event.
ReadBytes ==
  /\ reader = "events" /\ stage = "reading"
  /\ \E piece \in Pieces :
       LET decoded == decode(decoder, piece, FALSE)
           parts == split(pending \o decoded.text)
       IN  /\ piece # <<>> /\ Len(text) + Len(piece) <= MaxText
           /\ text' = text \o piece
           /\ decoder' = decoded.held
           /\ events' = events \o Front(parts)
           /\ pending' = Last(parts)
  /\ UNCHANGED <<reader, stage, fenceVars>>

\* The end of the body: what is left is the last event, or more than one.
BytesEnd ==
  /\ reader = "events" /\ stage = "reading"
  /\ LET decoded == decode(decoder, <<>>, TRUE)
     IN  /\ decoder' = decoded.held
         /\ events' = events \o split(pending \o decoded.text)
  /\ stage' = "ended"
  /\ UNCHANGED <<reader, text, pending, fenceVars>>

-----------------------------------------------------------------------------
(***************************************************************************)
(* The fence. `out' is the piece of text a chunk leaves.                   *)
(***************************************************************************)

Backticks(n) == [i \in 1 .. n |-> "tick"]
isspace(char) == char \in {"space", "LF", "CR"}

\* _code_block_mode_stream_processor, for a text that does not begin with a fence.
stepOutside(f, char) ==
  CASE f.state = "normal" /\ char = "tick" -> [f EXCEPT !.state = "in_backticks", !.count = 1]
    [] f.state = "normal" /\ char # "tick" -> [f EXCEPT !.out = Append(@, char)]
    [] f.state = "in_backticks" /\ char = "tick" ->
         IF f.count + 1 = CODE_FENCE_BACKTICK_COUNT
         THEN [f EXCEPT !.state = "skip_content", !.count = 0]
         ELSE [f EXCEPT !.count = @ + 1]
    [] f.state = "in_backticks" /\ char # "tick" ->
         [state |-> "normal", count |-> 0, out |-> Append(f.out \o Backticks(f.count), char)]
    [] f.state = "skip_content" -> IF isspace(char) THEN [f EXCEPT !.state = "normal"] ELSE f

\* _code_block_mode_stream_processor_with_backtick, for one that does.
stepWithBacktick(f, char) ==
  LET one == [f EXCEPT !.count = @ + 1]
      full == f.count + 1 = CODE_FENCE_BACKTICK_COUNT
  IN  CASE f.state = "search_start" ->
             IF char # "tick" THEN [f EXCEPT !.count = 0]
             ELSE IF full THEN [f EXCEPT !.state = "skip_language", !.count = 0] ELSE one
        [] f.state = "skip_language" ->
             IF char = "LF" THEN [f EXCEPT !.state = "in_code_block"] ELSE f
        [] f.state = "in_code_block" /\ char = "tick" ->
             IF full THEN [one EXCEPT !.state = "done"] ELSE one
        [] f.state = "in_code_block" /\ char # "tick" ->
             [f EXCEPT !.count = 0, !.out = Append(@ \o Backticks(f.count), char)]
        [] f.state = "done" -> f

\* mutant: backticks at the end of a chunk are not counted on
processChunkAlone(f, piece) ==
  FoldLeft(LAMBDA g, char : IF processor = "outside" THEN stepOutside(g, char)
                            ELSE stepWithBacktick(g, char),
           [f EXCEPT !.out = <<>>, !.count = 0], piece)

\* The characters of one chunk, from the state the chunk before it left.
processChunk(f, piece) ==
  FoldLeft(LAMBDA g, char : IF processor = "outside" THEN stepOutside(g, char)
                            ELSE stepWithBacktick(g, char),
           [f EXCEPT !.out = <<>>], piece)

(***************************************************************************)
(* _code_block_mode_wrapper takes the first chunk to choose the processor, *)
(* and starts process_response() up to its first yield, which is dropped.  *)
(* A provider that yields nothing, or raises, ends the invocation.         *)
(***************************************************************************)
TakeFirst ==
  /\ reader = "fence" /\ stage = "fresh"
  /\ \E piece \in Pieces :
       /\ first' = <<piece>>
       /\ taken' = 1
       /\ processor' = IF piece # <<>> /\ Head(piece) = "tick" THEN "with_backtick"
                       ELSE "outside"
  /\ fence' = [state |-> IF processor' = "outside" THEN "normal" ELSE "search_start",
               count |-> 0, out |-> <<>>]
  /\ response' = "open"
  /\ stage' = "reading"
  /\ UNCHANGED <<reader, text, eventVars, given, content>>

TakeFirstFails ==
  /\ reader = "fence" /\ stage = "fresh"
  /\ stage' = "raised"
  /\ UNCHANGED <<reader, text, eventVars, fenceVars>>

(***************************************************************************)
(* A chunk is passed on without its content, and what is left of the       *)
(* content follows as a chunk of its own.                                  *)
(***************************************************************************)
GiveChunk(piece) ==
  LET processed == processChunk(fence, piece)
  IN  /\ fence' = processed
      /\ text' = text \o piece
      /\ given' = Append(given, taken')
      /\ content' = content \o processed.out

\* new_generator(): the first chunk once more, then the others.
GiveFirst ==
  /\ reader = "fence" /\ stage = "reading"
  /\ first # <<>>
  /\ first' = <<>>
  /\ UNCHANGED taken
  /\ GiveChunk(first[1])
  /\ UNCHANGED <<reader, stage, eventVars, processor, response>>

GiveNext ==
  /\ reader = "fence" /\ stage = "reading"
  /\ first = <<>>
  /\ \E piece \in Pieces :
       /\ Len(text) + Len(piece) <= MaxText
       /\ taken < MaxChunks
       /\ taken' = taken + 1
       /\ GiveChunk(piece)
  /\ UNCHANGED <<reader, stage, eventVars, first, processor, response>>

\* closing(response): at the end, on an error, and when the consumer leaves.
FenceEnd ==
  /\ reader = "fence" /\ stage = "reading"
  /\ \/ stage' = "ended" /\ first = <<>>
     \/ stage' = "raised" /\ first = <<>>
     \/ stage' = "abandoned"
  /\ response' = "closed"
  /\ UNCHANGED <<reader, text, eventVars, first, processor, fence, taken, given, content>>

-----------------------------------------------------------------------------
Init ==
  /\ reader \in Readers
  /\ text = <<>>
  /\ stage = IF reader = "events" THEN "reading" ELSE "fresh"
  /\ decoder = FALSE
  /\ pending = <<>>
  /\ events = <<>>
  /\ first = <<>>
  /\ processor = "none"
  /\ fence = [state |-> "none", count |-> 0, out |-> <<>>]
  /\ response = "none"
  /\ taken = 0
  /\ given = <<>>
  /\ content = <<>>

Next ==
  \/ ReadBytes \/ BytesEnd
  \/ TakeFirst \/ TakeFirstFails \/ GiveFirst \/ GiveNext \/ FenceEnd

Spec == Init /\ [][Next]_vars

-----------------------------------------------------------------------------
(***************************************************************************)
(* Properties.                                                             *)
(***************************************************************************)

(***************************************************************************)
(* However the bytes of the answer are cut, in the middle of a CR LF or of *)
(* a blank line too, _iter_stream_events yields the events of the whole    *)
(* text: none is put together from two, split in two, or given too early.  *)
(***************************************************************************)
EventsOfTheWholeText ==
  reader = "events" =>
    IF stage = "ended" THEN events = split(translate(text))
    ELSE IsStrictPrefix(events, split(translate(text)))

\* The least position from i on where a fence begins, or 0.
Fence(t, i) ==
  LET ticks == CODE_FENCE_BACKTICK_COUNT
  IN  FirstFrom(t, i, LAMBDA j : /\ j + ticks <= Len(t) + 1
                                 /\ \A k \in j .. j + ticks - 1 : t[k] = "tick")

After(t, i) == SubSeq(t, i, Len(t))

\* Backticks at the end may become a fence, and are given with what follows.
Settled(t) ==
  SubSeq(t, 1, CHOOSE n \in 0 .. Len(t) :
                 /\ n = 0 \/ t[n] # "tick"
                 /\ \A k \in n + 1 .. Len(t) : t[k] = "tick")

\* The text without its fences and what follows each of them up to a space.
OutsideFences(t) ==
  LET from[i \in 1 .. Len(t) + 1] ==
        LET opening == Fence(t, i)
            space == FirstFrom(t, opening + CODE_FENCE_BACKTICK_COUNT, LAMBDA j : isspace(t[j]))
        IN  CASE opening = 0 -> Settled(After(t, i))
              [] opening # 0 /\ space = 0 -> SubSeq(t, i, opening - 1)
              [] OTHER -> SubSeq(t, i, opening - 1) \o from[space + 1]
  IN  from[1]

\* The line that a fence at the beginning of the text is on, a fence and a word, ends here.
FencedBy(t, line) ==
  /\ line > CODE_FENCE_BACKTICK_COUNT /\ t[line] = "LF" /\ Fence(t, 1) = 1
  /\ \A i \in CODE_FENCE_BACKTICK_COUNT + 1 .. line - 1 : ~isspace(t[i])

\* The text between that line and the next fence, or the end.
Block(t, line) ==
  LET closing == Fence(t, line + 1)
  IN  IF closing = 0 THEN Settled(After(t, line + 1)) ELSE SubSeq(t, line + 1, closing - 1)

\* There is more, after the next fence and a space.
MoreFollows(t, line) ==
  LET closing == Fence(t, line + 1)
  IN  closing # 0 /\ \E i \in closing + CODE_FENCE_BACKTICK_COUNT .. Len(t) : isspace(t[i])

(***************************************************************************)
(* A structured answer, wherever its chunks are cut, in a fence too, and   *)
(* with an empty first chunk or none. One that does not begin with a       *)
(* backtick loses its fences, each with the word and the space after it,   *)
(* and nothing else: false starts of a fence stay, those at the very end   *)
(* apart, which wait for a character that may not come. One that is a      *)
(* fenced block gives the block, whole, whichever of the two processors it *)
(* was given to; only what follows the block may be given or not. Every    *)
(* chunk of the provider, the first one too, is passed on once, so that no *)
(* usage and no tool call is lost with the content; and the provider is    *)
(* let go of.                                                              *)
(***************************************************************************)
FenceStripped ==
  (reader = "fence" /\ stage # "fresh") =>
    /\ text = <<>> \/ Head(text) # "tick" => content = OutsideFences(text)
    /\ \A line \in DOMAIN text : FencedBy(text, line) =>
         /\ IsPrefix(Block(text, line), content)
         /\ content = Block(text, line) \/ MoreFollows(text, line)
    /\ given = [n \in 1 .. taken - Len(first) |-> n]
    /\ response = "open" <=> stage = "reading"
=============================================================================
