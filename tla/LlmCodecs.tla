----------------------------- MODULE LlmCodecs -----------------------------
(***************************************************************************)
(* builtin/llm_http_adapter: the three codecs between the dialog and the   *)
(* providers' protocols.  A response is a sequence of pieces, each of some *)
(* tokens.  It is received whole or as a stream of events that the codec   *)
(* gathers in acc; its blocks are stored as dialog items, tools answer its *)
(* calls, and the dialog becomes the next request.  The model behind the   *)
(* dialog may change between two responses.  The provider is external: it  *)
(* sends the events in the order its protocol allows, stops at its token   *)
(* limit, which may be inside a piece, or breaks off.                      *)
(***************************************************************************)
EXTENDS Naturals, Sequences, FiniteSets

LOCAL INSTANCE SequencesExt

CONSTANTS
  Protocols,  \* the registered codecs that are used
  Shapes,     \* the responses: sequences of kinds of pieces
  Tokens,     \* tokens of a piece
  MaxRounds   \* responses in a dialog

ApiProtocol == {"chat_completions", "responses", "anthropic_messages"}
Kinds == {"reasoning", "text", "call"}

ASSUME CodecsAssumption ==
  /\ Protocols \subseteq ApiProtocol
  /\ Shapes \subseteq Seq(Kinds)
  /\ Tokens \in Nat \ {0} /\ MaxRounds \in Nat

VARIABLES
  dialog,  \* the stored items, oldest first
  rounds,  \* the responses asked for: protocol, shape, streamed, whether the token limit
           \* cut them and after how many tokens of the last piece, whether a delta had
           \* fields of two kinds, how they ended
  sent,    \* what the provider has sent of each piece of the current response
  acc,     \* the codec's accumulator
  out,     \* blocks yielded so far
  phase    \* "idle", "whole", "stream", "tools", "truncated", "failed"

vars == <<dialog, rounds, sent, acc, out, phase>>

Round == rounds[Len(rounds)]
Pieces == DOMAIN Round.shape

\* The tokens of a piece of a response: all, unless the token limit cut it.
Size(r, i) == IF i = Len(rounds[r].shape) THEN rounds[r].last ELSE Tokens
BodyOf(r, i) == [k \in 1..Size(r, i) |-> <<r, i, k>>]
Body(i) == BodyOf(Len(rounds), i)

\* A block, or the item it becomes: its piece, its content and the protocol whose
\* form of it is kept in meta["llm"]["wire"].
Block(kind, i, body, wire) ==
  [kind |-> kind, round |-> Len(rounds), piece |-> i, body |-> body, wire |-> wire]

NoAcc ==
  [text |-> <<>>, reasoning |-> <<>>, calls |-> [i \in {} |-> <<>>], current |-> 0,
   buffer |-> <<>>, blocks |-> <<>>, response |-> FALSE, yielded |-> FALSE, length |-> FALSE]

Item(kind, n) == [kind |-> kind, round |-> n, piece |-> 0, body |-> <<>>, wire |-> "none"]

Init ==
  /\ dialog = <<Item("input", 0)>> /\ rounds = <<>>
  /\ sent = <<>> /\ acc = NoAcc /\ out = <<>> /\ phase = "idle"

-----------------------------------------------------------------------------
(* Responses. *)

\* A chat message has a field for each kind, so its pieces are in this order.
ChatShape(s) ==
  /\ \A i, j \in DOMAIN s : i < j /\ s[j] # "call" => s[i] = "reasoning"
  /\ \A i, j \in DOMAIN s : i < j /\ s[j] = "reasoning" => FALSE

\* loads() of the arguments of a call: what is cut off is not JSON.
Loads(body) == Len(body) = Tokens

\* Arguments of a streamed call that are not JSON count as {}.
ToolArgs(body) == IF Loads(body) THEN body ELSE <<>>

\* parse_response(): one block for each piece.  A chat text has no wire form of its own.
ParseChat(s) ==
  [i \in DOMAIN s |-> Block(s[i], i, Body(i), IF s[i] = "text" THEN "none" ELSE "chat_completions")]

ParseResponses(s) == [i \in DOMAIN s |-> Block(s[i], i, Body(i), "responses")]

\* The arguments of a call are an object already, an empty one if they were cut.
ParseAnthropic(s) ==
  [i \in DOMAIN s |-> Block(s[i], i, IF s[i] = "call" THEN ToolArgs(Body(i)) ELSE Body(i),
                            "anthropic_messages")]

ParseResponse(p, s) ==
  CASE p = "chat_completions"   -> ParseChat(s)
    [] p = "responses"          -> ParseResponses(s)
    [] p = "anthropic_messages" -> ParseAnthropic(s)

\* The agent keeps the tool calls at the end of a turn.
Ordered(blocks) ==
  SelectSeq(blocks, LAMBDA b : b.kind # "call") \o SelectSeq(blocks, LAMBDA b : b.kind = "call")

\* Every block becomes an item; a truncated response then fails the run, and its calls
\* are not executed.
Store(blocks, length) ==
  /\ dialog' = dialog \o Ordered(blocks)
  /\ phase' = IF length THEN "truncated"
              ELSE IF \E i \in DOMAIN blocks : blocks[i].kind = "call" THEN "tools" ELSE "idle"

\* ask_llm(): the next response, whole or as a stream.  After a final answer it is the
\* next message of the user that asks.
Ask(p, s, stream, length, last) ==
  /\ phase = "idle" /\ Len(rounds) < MaxRounds
  /\ ~length => last = Tokens
  /\ p = "chat_completions" => ChatShape(s)
  /\ rounds' = Append(rounds, [protocol |-> p, shape |-> s, stream |-> stream,
                               length |-> length, last |-> last, merged |-> FALSE,
                               ended |-> "no"])
  /\ sent' = [i \in DOMAIN s |-> [open |-> FALSE, tokens |-> 0, closed |-> FALSE]]
  /\ acc' = NoAcc /\ out' = <<>>
  /\ phase' = IF stream THEN "stream" ELSE "whole"
  /\ dialog' = IF dialog[Len(dialog)].kind \in {"input", "result"} THEN dialog
               ELSE Append(dialog, Item("input", Len(rounds)))

\* The chat and Responses codecs load the arguments of calls.
Loadable ==
  Round.protocol = "anthropic_messages" \/ \A i \in Pieces : Round.shape[i] = "call" => Loads(Body(i))

Received ==
  /\ phase = "whole" /\ Loadable
  /\ Store(ParseResponse(Round.protocol, Round.shape), Round.length)
  /\ rounds' = [rounds EXCEPT ![Len(rounds)].ended = "whole"]
  /\ UNCHANGED <<sent, acc, out>>

\* A call that the token limit cut: loads() raises, outside the try of ask_llm(), and the
\* run fails with nothing stored.
NotReceived ==
  /\ phase = "whole" /\ ~Loadable /\ phase' = "failed"
  /\ UNCHANGED <<dialog, rounds, sent, acc, out>>

-----------------------------------------------------------------------------
(* Streams.  Piece i may be sent when its predecessors have been; only calls *)
(* may overlap, and in Anthropic's protocol not even they; pieces end in     *)
(* their order.                                                              *)

Overlap(i, j) ==
  /\ Round.protocol # "anthropic_messages"
  /\ Round.shape[i] = "call" /\ Round.shape[j] = "call"

Turn(i) == \A j \in Pieces : j < i => sent[j].closed \/ Overlap(i, j)

Started(i) ==
  /\ phase = "stream" /\ i \in Pieces /\ Turn(i) /\ ~sent[i].open
  /\ sent' = [sent EXCEPT ![i].open = TRUE]
  /\ UNCHANGED <<dialog, rounds, phase>>

Kind(i) == Round.shape[i]

\* A chat stream does not announce its pieces.
ChatStarts(i) ==
  /\ Round.protocol = "chat_completions" /\ Started(i)
  /\ UNCHANGED <<acc, out>>

\* response.output_item.added.
ResponsesStarts(i) ==
  /\ Round.protocol = "responses" /\ Started(i)
  /\ acc' = IF Kind(i) = "call"
            THEN [acc EXCEPT !.calls = [j \in DOMAIN @ \cup {i} |-> IF j = i THEN <<>> ELSE @[j]]]
            ELSE acc
  /\ UNCHANGED out

\* content_block_start.
AnthropicStarts(i) ==
  /\ Round.protocol = "anthropic_messages" /\ Started(i)
  /\ acc' = [acc EXCEPT !.current = i, !.buffer = <<>>]
  /\ UNCHANGED out

\* The next token of piece i is sent.
Sends(i) ==
  /\ phase = "stream" /\ i \in Pieces /\ sent[i].open /\ sent[i].tokens < Size(Len(rounds), i)
  /\ sent' = [sent EXCEPT ![i].tokens = @ + 1]
  /\ UNCHANGED <<dialog, rounds, out, phase>>

Token(i) == <<Body(i)[sent[i].tokens + 1]>>

\* Mutant: arguments go to the call that was begun last.
GatheredByLast(a, i, token) ==
  LET last == IF DOMAIN a.calls = {} THEN i ELSE CHOOSE j \in DOMAIN a.calls : \A k \in DOMAIN a.calls : k <= j
  IN [a EXCEPT !.calls = [j \in DOMAIN @ \cup {i} |->
        (IF j \in DOMAIN @ THEN @[j] ELSE <<>>) \o (IF j = last THEN token ELSE <<>>)]]

\* Arguments are gathered by the index, or item id, of the call.
Gathered(a, i, token) ==
  [a EXCEPT !.calls = [j \in DOMAIN @ \cup {i} |->
     (IF j \in DOMAIN @ THEN @[j] ELSE <<>>) \o (IF j = i THEN token ELSE <<>>)]]

\* What a delta of the chat and Responses protocols adds.
Buffered(a, i, tokens) ==
  CASE Kind(i) = "text"      -> [a EXCEPT !.text = @ \o tokens]
    [] Kind(i) = "reasoning" -> [a EXCEPT !.reasoning = @ \o tokens]
    [] Kind(i) = "call"      -> Gathered(a, i, tokens)

BufferedDelta(i) ==
  /\ Round.protocol # "anthropic_messages" /\ Sends(i)
  /\ acc' = Buffered(acc, i, Token(i))

\* The last token of a chat piece in one delta with the whole of the next piece: the codec
\* takes the content, or else the reasoning, and drops the rest of the event.
ChatMergedDelta(i) ==
  LET j == i + 1
      taken == IF Kind(j) = "text" THEN j ELSE i
  IN /\ Round.protocol = "chat_completions" /\ phase = "stream"
     /\ j \in Pieces /\ Kind(i) # "call" /\ sent[i].open /\ sent[i].tokens = Tokens - 1
     /\ acc' = Buffered(acc, taken, IF taken = i THEN Token(i) ELSE Body(j))
     /\ sent' = [sent EXCEPT ![i] = [open |-> TRUE, tokens |-> Tokens, closed |-> TRUE],
                             ![j] = [open |-> TRUE, tokens |-> Size(Len(rounds), j), closed |-> FALSE]]
     /\ rounds' = [rounds EXCEPT ![Len(rounds)].merged = TRUE]
     /\ UNCHANGED <<dialog, out, phase>>

\* content_block_delta goes to the current block, whatever index it names.
AnthropicDelta(i) ==
  /\ Round.protocol = "anthropic_messages" /\ Sends(i)
  /\ acc' = IF acc.current = 0 THEN acc ELSE [acc EXCEPT !.buffer = @ \o Token(i)]

Closed(i) ==
  /\ phase = "stream" /\ i \in Pieces /\ sent[i].tokens = Size(Len(rounds), i) /\ ~sent[i].closed
  /\ \A j \in 1..(i - 1) : sent[j].closed
  /\ sent' = [sent EXCEPT ![i].closed = TRUE]
  /\ UNCHANGED <<dialog, rounds, phase>>

ChatCloses(i) ==
  /\ Round.protocol = "chat_completions" /\ Closed(i)
  /\ UNCHANGED <<acc, out>>

\* response.output_item.done: calls and reasoning are yielded at once, messages wait for
\* the response.
ResponsesCloses(i) ==
  /\ Round.protocol = "responses" /\ Closed(i)
  /\ out' = CASE Kind(i) = "call" ->
                   Append(out, Block("call", i, ToolArgs(acc.calls[i]), "responses"))
              [] Kind(i) = "reasoning" -> Append(out, Block("reasoning", i, Body(i), "responses"))
              [] Kind(i) = "text" -> out
  /\ acc' = [acc EXCEPT !.yielded = @ \/ Kind(i) = "reasoning"]

\* content_block_stop: a call is yielded at once, texts wait for the end.
AnthropicCloses(i) ==
  /\ Round.protocol = "anthropic_messages" /\ Closed(i)
  /\ LET block == Block(Kind(i), i, acc.buffer, "anthropic_messages") IN
       IF Kind(i) = "call"
       THEN /\ out' = Append(out, [block EXCEPT !.body = ToolArgs(@)])
            /\ acc' = [acc EXCEPT !.current = 0]
       ELSE /\ acc' = [acc EXCEPT !.current = 0, !.blocks = Append(@, block)]
            /\ UNCHANGED out

\* flush_stream() of a chat gives what its buffers hold.
FlushChat(a) ==
  LET one(kind, body) ==
        IF body = <<>> THEN <<>>
        ELSE <<Block(kind, body[1][2], body, "chat_completions")>>
      indexes == SetToSortSeq(DOMAIN a.calls, <)
  IN one("reasoning", a.reasoning) \o one("text", a.text)
       \o [k \in DOMAIN indexes |-> Block("call", indexes[k],
              ToolArgs(a.calls[indexes[k]]), "chat_completions")]

\* Responses: the messages of the final event, and nothing without one.
FlushResponses(a) ==
  IF ~a.response THEN <<>>
  ELSE SelectSeq(ParseResponses(Round.shape),
                 LAMBDA b : b.kind = "text" \/ (b.kind = "reasoning" /\ ~a.yielded))

\* Anthropic: the blocks that were closed.
FlushAnthropic(a) == a.blocks

FlushStream(a) ==
  CASE Round.protocol = "chat_completions"   -> FlushChat(a)
    [] Round.protocol = "responses"          -> FlushResponses(a)
    [] Round.protocol = "anthropic_messages" -> FlushAnthropic(a)

\* The last event says why the model stopped; response.completed repeats the whole
\* response, and response.incomplete, with which a truncated one ends, is ignored.
LastEvent(a) ==
  IF Round.protocol = "responses" THEN [a EXCEPT !.response = ~Round.length]
  ELSE [a EXCEPT !.length = Round.length]

Finish ==
  /\ phase = "stream" /\ \A i \in Pieces : sent[i].closed
  /\ acc' = LastEvent(acc)
  /\ Store(out \o FlushStream(acc'), acc'.length)
  /\ rounds' = [rounds EXCEPT ![Len(rounds)].ended = "whole"]
  /\ UNCHANGED <<sent, out>>

\* A chat's finish_reason in one delta with the last token is dropped like any other field.
ChatMergedFinish ==
  LET i == Len(Round.shape)
      a == Buffered(acc, i, Token(i))
  IN /\ phase = "stream" /\ Round.protocol = "chat_completions"
     /\ \A j \in Pieces \ {i} : sent[j].closed
     /\ sent[i].open /\ sent[i].tokens = Size(Len(rounds), i) - 1
     /\ acc' = a
     /\ Store(out \o FlushStream(a), a.length)
     /\ rounds' = [rounds EXCEPT ![Len(rounds)].merged = TRUE, ![Len(rounds)].ended = "whole"]
     /\ UNCHANGED <<sent, out>>

\* The provider breaks off after any event, and the stream ends like any other.
Cut ==
  /\ phase = "stream"
  /\ Store(out \o FlushStream(acc), acc.length)
  /\ rounds' = [rounds EXCEPT ![Len(rounds)].ended = "cut"]
  /\ UNCHANGED <<sent, acc, out>>

\* A transport error or an error status fails the run; nothing of the response is stored.
Breaks ==
  /\ phase \in {"whole", "stream"} /\ phase' = "failed"
  /\ UNCHANGED <<dialog, rounds, sent, acc, out>>

-----------------------------------------------------------------------------
(* Tools. *)

Unanswered ==
  {k \in DOMAIN dialog :
     /\ dialog[k].kind = "call"
     /\ ~\E j \in DOMAIN dialog : /\ dialog[j].kind = "result" /\ dialog[j].round = dialog[k].round
                                  /\ dialog[j].piece = dialog[k].piece}

\* The calls are executed one after the other; then the model is asked again.
ToolAnswers ==
  /\ phase = "tools"
  /\ LET k == CHOOSE k \in Unanswered : \A j \in Unanswered : k <= j IN
       dialog' = Append(dialog, [dialog[k] EXCEPT !.kind = "result", !.wire = "none", !.body = <<>>])
  /\ phase' = IF Cardinality(Unanswered) = 1 THEN "idle" ELSE "tools"
  /\ UNCHANGED <<rounds, sent, acc, out>>

Next ==
  \/ \E p \in Protocols, s \in Shapes, stream, length \in BOOLEAN, last \in 1..Tokens :
       Ask(p, s, stream, length, last)
  \/ Received \/ NotReceived
  \/ phase = "stream" /\ \E i \in Pieces :
       \/ ChatStarts(i) \/ ResponsesStarts(i) \/ AnthropicStarts(i)
       \/ BufferedDelta(i) \/ ChatMergedDelta(i) \/ AnthropicDelta(i)
       \/ ChatCloses(i) \/ ResponsesCloses(i) \/ AnthropicCloses(i)
  \/ Finish \/ ChatMergedFinish \/ Cut \/ Breaks
  \/ ToolAnswers

Spec == Init /\ [][Next]_vars

-----------------------------------------------------------------------------
(* Requests: build_request().  A message has a role and the pieces of its    *)
(* content; a piece is an item in the protocol's form for its kind, or an    *)
(* item wrapped as text.                                                     *)

Message(role, parts) == [role |-> role, parts |-> parts]
Part(form, item) == [form |-> form, item |-> item]

LastOf(messages) == messages[Len(messages)]

\* Mutant: results do not end the assistant's message.
ChatStepUnflushed(messages, item) ==
  IF item.kind = "input" THEN Append(messages, Message("user", <<Part("input", item)>>))
  ELSE IF item.kind = "reasoning" /\ item.wire # "chat_completions" THEN messages
  ELSE IF messages # <<>> /\ LastOf(messages).role = "assistant" /\ item.kind # "result"
  THEN [messages EXCEPT ![Len(messages)].parts = Append(@, Part(item.kind, item))]
  ELSE IF Len(messages) > 1 /\ messages[Len(messages) - 1].role = "assistant" /\ item.kind # "result"
  THEN [messages EXCEPT ![Len(messages) - 1].parts = Append(@, Part(item.kind, item))]
  ELSE Append(messages, Message(IF item.kind = "result" THEN "tool" ELSE "assistant",
                                <<Part(item.kind, item)>>))

\* The chat codec gathers an assistant message until something else comes; reasoning
\* without a field of its own is left out.
ChatStep(messages, item) ==
  IF item.kind \in {"input", "result"}
  THEN Append(messages, Message(IF item.kind = "input" THEN "user" ELSE "tool",
                                <<Part(item.kind, item)>>))
  ELSE IF item.kind = "reasoning" /\ item.wire # "chat_completions" THEN messages
  ELSE IF messages # <<>> /\ LastOf(messages).role = "assistant"
  THEN [messages EXCEPT ![Len(messages)].parts = Append(@, Part(item.kind, item))]
  ELSE Append(messages, Message("assistant", <<Part(item.kind, item)>>))

\* The Responses codec: an input item for each, the wire form if there is one.
ResponsesStep(messages, item) ==
  IF item.kind = "reasoning" /\ item.wire = "none" THEN messages
  ELSE Append(messages, Message(CASE item.kind = "input" -> "user" [] item.kind = "result" -> "tool"
                                  [] OTHER -> "assistant",
                                <<Part(item.kind, item)>>))

\* _append_message(): the content of a message is one piece until a second joins it; then
\* both are wrapped as text, unless they are lists, which only files are.
AppendMessage(messages, role, part) ==
  LET asText(p) == IF p.form = "text" /\ p.item.kind = "input" THEN p ELSE [p EXCEPT !.form = "text"]
  IN IF messages = <<>> \/ LastOf(messages).role # role
     THEN Append(messages, Message(role, <<part>>))
     ELSE [messages EXCEPT ![Len(messages)].parts =
             Append(IF Len(@) = 1 THEN <<asText(@[1])>> ELSE @, asText(part))]

AnthropicStep(messages, item) ==
  IF item.kind = "reasoning" /\ item.wire = "none" THEN messages
  ELSE AppendMessage(messages, IF item.kind \in {"input", "result"} THEN "user" ELSE "assistant",
                     Part(item.kind, item))

BuildRequest(p) ==
  CASE p = "chat_completions"   -> FoldLeft(ChatStep, <<>>, dialog)
    [] p = "responses"          -> FoldLeft(ResponsesStep, <<>>, dialog)
    [] p = "anthropic_messages" -> FoldLeft(AnthropicStep, <<>>, dialog)

Flat(messages) == FlattenSeq([k \in DOMAIN messages |-> messages[k].parts])

-----------------------------------------------------------------------------
(* Properties *)

Stored(r) == SelectSeq(dialog, LAMBDA item : item.round = r /\ item.kind \in Kinds)

Content(items) == [k \in DOMAIN items |-> <<items[k].kind, items[k].piece, items[k].body>>]

\* What a response says, as it would be stored if it had been received whole.
Said(r) ==
  [i \in DOMAIN rounds[r].shape |->
     LET kind == rounds[r].shape[i]
     IN [kind |-> kind, piece |-> i,
         body |-> IF kind = "call" THEN ToolArgs(BodyOf(r, i)) ELSE BodyOf(r, i)]]

OfKind(kind, items) == Content(SelectSeq(items, LAMBDA item : item.kind = kind))

\* A truncated Responses stream, whose end is ignored.
Incomplete(r) == rounds[r].protocol = "responses" /\ rounds[r].stream /\ rounds[r].length

\* A response that was streamed to its end is stored as if it had been received whole,
\* however its events interleaved: the same texts, reasoning and calls, each in their
\* order, the calls last; and the run fails as truncated iff the response is.  (Reasoning
\* that comes after a text is stored before it if it was streamed by Responses.)  Of a chat
\* that puts fields of two kinds in one delta it is the texts, of a truncated Responses
\* stream the calls.  And whatever ends a stream, each piece is stored at most once, in
\* order, from its beginning, and a call with its own arguments or none.
StreamMatchesWhole ==
  \A r \in DOMAIN rounds :
    LET same(kind) == OfKind(kind, Stored(r)) = OfKind(kind, Said(r))
        pieces(kind) == OfKind(kind, Stored(r))
    IN /\ rounds[r].ended = "whole" =>
            /\ ~Incomplete(r) => same("text")
            /\ ~rounds[r].merged => same("call")
            /\ ~Incomplete(r) /\ ~rounds[r].merged =>
                 /\ same("reasoning")
                 /\ r = Len(rounds) => (phase = "truncated" <=> rounds[r].length)
       /\ Ordered(Stored(r)) = Stored(r)
       /\ \A kind \in Kinds : \A k \in DOMAIN pieces(kind) :
            /\ IsPrefix(pieces(kind)[k][3], BodyOf(r, pieces(kind)[k][2]))
            /\ kind = "call" => pieces(kind)[k][3] = <<>> \/ Loads(pieces(kind)[k][3])
            /\ k > 1 => pieces(kind)[k - 1][2] < pieces(kind)[k][2]

\* With a model that keeps its protocol, or any history under the chat protocol, a request
\* has every input, text, call and result of the dialog once and in order, and the results
\* of a turn's calls follow the message that has the calls.
RequestKeepsDialog ==
  phase = "idle" =>
    \A p \in Protocols \ {"anthropic_messages"} :
      p = "chat_completions" \/ (\A r \in DOMAIN rounds : rounds[r].protocol = p) =>
        LET request == BuildRequest(p)
            said(items) == SelectSeq(items, LAMBDA item : item.kind # "reasoning")
            parts == Flat(request)
        IN /\ said([k \in DOMAIN parts |-> parts[k].item]) = said(dialog)
           /\ p = "chat_completions" =>
                \A k \in DOMAIN request : request[k].role = "tool" =>
                  \E j \in 1..(k - 1) :
                    /\ request[j].role = "assistant"
                    /\ \A i \in (j + 1)..k : request[i].role = "tool"
                    /\ \E n \in DOMAIN request[j].parts :
                         LET call == request[j].parts[n].item
                         IN /\ call.kind = "call" /\ call.round = request[k].parts[1].item.round
                            /\ call.piece = request[k].parts[1].item.piece

=============================================================================
