------------------------------ MODULE Completion ------------------------------
(***************************************************************************)
(* From tokens to a response: what a handler of mlx_lm/server.py makes of   *)
(* the tokens of one generation.  The sequence state machine finds the      *)
(* control sequences that open and close reasoning and tool calls, or end   *)
(* the generation (SequenceStateMachine, an Aho-Corasick automaton per      *)
(* state); _process_control_tokens holds tokens back until they can no      *)
(* longer be part of one, and blanks those that are; handle_completion and  *)
(* handle_responses_completion collect text, reasoning and tool calls, stop *)
(* at loops and limits, and send chunks or events to a client that may      *)
(* vanish.                                                                  *)
(*                                                                         *)
(* A token's text is its position: a text is the sequence of the positions  *)
(* of the tokens it consists of.  The generation thread runs ahead of the   *)
(* handler by any number of tokens, but what the handler does depends on    *)
(* the tokens alone: here it handles each as it is generated.               *)
(***************************************************************************)
EXTENDS SequencesExt, FiniteSetsExt, Integers

CONSTANTS
  Requests,     \* requests and their tokenizers: records, see RequestsAssumption
  NgramSize, Repeats, MinTokens,  \* loop_guard_ngram_size, _repeats, _min_tokens
  ToolMax,      \* tool_call_max_tokens, 0 for none
  ReasoningMax  \* reasoning_max_tokens, 0 for none

States == {"normal", "reasoning", "tool"}

Stop == "stop"

(* No state and no reason: None of the code. *)
None == "none"

ASSUME RequestsAssumption ==
  \A q \in Requests :
    /\ q.held \subseteq q.vocab                 \* held back by the detokenizer
    /\ q.blank \subseteq q.vocab                \* white space
    /\ q.leaked \subseteq q.vocab               \* <|im_end|>
    /\ q.stops \subseteq Seq(q.vocab) \ {<<>>}  \* end of sequence, stop words
    /\ q.stops # {} /\ IsFiniteSet(q.stops)
    /\ \/ q.think = <<>>                        \* or <<start, end>>
       \/ q.think \in Seq(q.vocab) \X Seq(q.vocab)
    /\ \/ q.tool = <<>>                         \* the end may be empty
       \/ q.tool \in Seq(q.vocab) \X Seq(q.vocab)
    /\ q.initial \in States
    /\ q.limit \in Nat \ {0}                    \* max_tokens
    /\ q.api \in {"chat", "responses"}
    /\ q.stream \in BOOLEAN
    /\ q.textguards \in BOOLEAN                 \* *_loop_guard_min_chars > 0

ASSUME GuardsAssumption ==
  /\ NgramSize \in Nat /\ Repeats \in Nat /\ MinTokens \in Nat
  /\ ToolMax \in Nat /\ ReasoningMax \in Nat

VARIABLES
  request,   \* the request
  tokens,    \* the tokens generated so far
  matcher,   \* the state of the state machine and its node in the trie
  unflushed, \* positions the detokenizer holds back
  buffer,    \* buffered_stream
  ended,     \* finish_reason of the generation, None while it runs
  h,         \* the local variables of the handler
  sent,      \* what the client got
  phase,     \* "loop", "final", "done"
  connected, \* client_connected
  raised     \* an exception left _process_control_tokens

vars == <<request, tokens, matcher, unflushed, buffer, ended, h, sent, phase,
          connected, raised>>

----------------------------------------
(* The sequence state machine *)

(* What newer says, and older about the rest. *)
Over(newer, older) ==
  [x \in DOMAIN newer \cup DOMAIN older |-> IF x \in DOMAIN newer THEN newer[x] ELSE older[x]]

(* The transitions of _make_state_machine, from sequences to states.  Of two *)
(* with the same sequence the one that was added last counts.               *)
Transitions(q, s) ==
  LET stops == [x \in q.stops |-> Stop]
      edge(pair, i, to) == IF pair = <<>> THEN <<>>
                           ELSE [x \in {pair[i]} \ {<<>>} |-> to]
  IN  CASE s = "normal"    -> Over(edge(q.tool, 1, "tool"),
                              Over(edge(q.think, 2, Stop),
                              Over(edge(q.think, 1, "reasoning"), stops)))
        [] s = "reasoning" -> Over(stops, edge(q.think, 2, "normal"))
        [] s = "tool"      -> Over(stops, edge(q.tool, 2, "normal"))
        [] OTHER           -> <<>>

Sequences(q, s) == DOMAIN Transitions(q, s)

(* _step_trie: up the failure links to a node with a child for x. *)
Child(nodes, fail, node, x) ==
  LET up[n \in DOMAIN fail] ==
        IF n = <<>> \/ Append(n, x) \in nodes THEN n ELSE up[fail[n]]
      child == Append(up[node], x)
  IN  IF child \in nodes THEN child ELSE <<>>

(* _build_trie: a node is the sequence that leads to it. *)
Nodes(sequences) == UNION {{SubSeq(x, 1, n) : n \in 0..Len(x)} : x \in sequences}

Depth(sequences) == Max({Len(x) : x \in sequences})

Level(sequences, n) == {p \in Nodes(sequences) : Len(p) = n}

Root == [p \in {<<>>} |-> <<>>]

(* Mutant of FailLink: a failed match starts over. *)
FailToRoot(nodes, fail, p) == <<>>

FailLink(nodes, fail, p) ==
  IF Len(p) = 1 THEN <<>> ELSE Child(nodes, fail, fail[Front(p)], Last(p))

(* The failure links of the nodes, which are gone through breadth first. *)
FailLinks(sequences) ==
  LET nodes == Nodes(sequences)
      fail[n \in 0..Depth(sequences)] ==
        IF n = 0 THEN Root
        ELSE Over([p \in Level(sequences, n) |-> FailLink(nodes, fail[n - 1], p)], fail[n - 1])
  IN  fail[Depth(sequences)]

(* The sequence that ends at a node: its own or the one of its failure link. *)
Matches(sequences, fail) ==
  LET match[n \in 0..Depth(sequences)] ==
        IF n = 0 THEN Root
        ELSE Over([p \in Level(sequences, n) |->
                      IF p \in sequences THEN p ELSE match[n - 1][fail[p]]], match[n - 1])
  IN  match[Depth(sequences)]

BuildTrie(sequences) ==
  LET fail == FailLinks(sequences)
  IN  [nodes |-> Nodes(sequences), fail |-> fail, match |-> Matches(sequences, fail)]

Tries == [q \in Requests |-> [s \in States |-> BuildTrie(Sequences(q, s))]]

StepTrie(trie, node, x) == Child(trie.nodes, trie.fail, node, x)

(* SequenceStateMachine.match: the next state and the length of the match. *)
Match(m, x) ==
  LET trie == Tries[request][m.state]
      node == StepTrie(trie, m.node, x)
      seq  == trie.match[node]
  IN  IF seq = <<>> THEN [state |-> m.state, node |-> node, length |-> 0]
      ELSE [state |-> Transitions(request, m.state)[seq], node |-> <<>>,
            length |-> Len(seq)]

----------------------------------------
(* The loop guard *)

(* Mutant of Spanned: tokens whose text is taken out are not counted. *)
SpannedVisible(h0, r) ==
  [state |-> r.state,
   tokens |-> (IF r.state = h0.span.state THEN h0.span.tokens ELSE <<>>)
              \o (IF r.text = <<>> THEN <<>> ELSE <<r.token>>)]

(* TokenLoopGuard.append: the tokens of the current span. *)
Spanned(h0, r) ==
  IF r.state \notin {"reasoning", "normal"} THEN [state |-> None, tokens |-> <<>>]
  ELSE [state |-> r.state,
        tokens |-> Append(IF r.state = h0.span.state THEN h0.span.tokens ELSE <<>>,
                          r.token)]

(* TokenLoopGuard.has_loop *)
HasLoop(span) ==
  /\ NgramSize > 0 /\ Repeats > 1
  /\ Len(span) >= MinTokens
  /\ \E n \in {8, 16, 32, 64, NgramSize} :
       /\ n <= NgramSize /\ n * Repeats <= Len(span)
       /\ \A i \in Len(span) - n * (Repeats - 1) + 1..Len(span) : span[i] = span[i - n]

----------------------------------------
(* What the handlers share *)

NoSpan == [state |-> None, tokens |-> <<>>]

NewHandler ==
  [prev |-> None, tool |-> <<>>, calls |-> <<>>, text |-> <<>>, reasoning |-> <<>>,
   made |-> FALSE, finish |-> Stop, count |-> 0, toolTokens |-> 0,
   reasoningTokens |-> 0, cut |-> FALSE, span |-> NoSpan]

(* The guards' text, put behind reasoning that repeats itself. *)
Message == 0

(* A response taken from the stream: text by state, a tool call is complete *)
(* when normal text follows it; the counters of the current span.           *)
Collected(r) ==
  LET closes == r.state = "normal" /\ h.prev = "tool"
      by(state) == IF r.state = state THEN r.text ELSE <<>>
  IN  [h EXCEPT
         !.reasoning = @ \o by("reasoning"),
         !.text = @ \o by("normal"),
         !.tool = IF closes THEN <<>> ELSE @ \o by("tool"),
         !.calls = IF closes THEN Append(@, h.tool) ELSE @,
         !.made = @ \/ closes,
         !.count = @ + 1,
         !.toolTokens = IF r.state = "tool" THEN @ + 1 ELSE 0,
         !.reasoningTokens = IF r.state = "reasoning" THEN @ + 1 ELSE 0,
         !.span = Spanned(h, r)]

ToolTooLong(c) == ToolMax > 0 /\ c.toolTokens > ToolMax

ReasoningTooLong(c) == ReasoningMax > 0 /\ c.reasoningTokens > ReasoningMax

(* The text guards look at reasoning and answer; when they trip is left open. *)
TextGuardMayTrip(r) ==
  request.textguards /\ r.state \in {"reasoning", "normal"} /\ r.text # <<>>

(* ctx.stop() and break *)
Break(c, finish) ==
  /\ h' = [c EXCEPT !.finish = finish]
  /\ phase' = "final"

TokenGuards(c) ==
  \/ HasLoop(c.span.tokens) /\ Break(c, Stop)
  \/ /\ ~HasLoop(c.span.tokens) /\ ToolTooLong(c)
     /\ Break([c EXCEPT !.cut = TRUE], "length")
  \/ /\ ~HasLoop(c.span.tokens) /\ ~ToolTooLong(c) /\ ReasoningTooLong(c)
     /\ Break(c, "length")

NoGuardTrips(c) ==
  ~HasLoop(c.span.tokens) /\ ~ToolTooLong(c) /\ ~ReasoningTooLong(c)

(* The end of the loop's body. *)
GoOn(c, r) ==
  /\ h' = [c EXCEPT !.finish = IF r.finish = None THEN @ ELSE r.finish,
                    !.prev = r.state]
  /\ UNCHANGED phase

(* The elements of s that are in S, in their order. *)
Among(s, S) ==
  LET among[n \in 0..Len(s)] ==
        IF n = 0 THEN <<>>
        ELSE IF s[n] \in S THEN Append(among[n - 1], s[n]) ELSE among[n - 1]
  IN  among[Len(s)]

(* ToolCallFormatter: a call the parser rejects is left out. *)
Formatted(calls, parsed) == Among(calls, parsed)

(* Reading ends inside a tool call: what there is of it counts as one, unless *)
(* it was cut for its length.                                                *)
Closed(c) ==
  IF c.prev = "tool" /\ c.tool # <<>> /\ ~c.cut
  THEN [c EXCEPT !.calls = Append(@, c.tool), !.made = TRUE]
  ELSE c

FinishReason(c) == IF c.finish = Stop /\ c.made THEN "tool_calls" ELSE c.finish

----------------------------------------
(* handle_completion: chunks of text, reasoning and calls *)

(* generate_response; rejected is what the parser left out. *)
Chunk(c, parsed, finish) ==
  [text |-> c.text, reasoning |-> c.reasoning, calls |-> Formatted(c.calls, parsed),
   rejected |-> Among(c.calls, Range(c.calls) \ parsed), finish |-> finish]

ChatStream(c, r) ==
  IF request.stream /\ r.state # "tool"
     /\ (c.text # <<>> \/ c.calls # <<>> \/ c.reasoning # <<>>)
  THEN \/ \E parsed \in SUBSET Range(c.calls) :
            /\ sent' = Append(sent, Chunk(c, parsed, None))
            /\ GoOn([c EXCEPT !.text = <<>>, !.reasoning = <<>>, !.calls = <<>>], r)
            /\ UNCHANGED connected
       \/ /\ connected' = FALSE
          /\ h' = c /\ phase' = "final"
          /\ UNCHANGED sent
  ELSE GoOn(c, r) /\ UNCHANGED <<sent, connected>>

ChatTake(r) ==
  LET c == Collected(r)
  IN  \/ /\ TextGuardMayTrip(r)
         /\ Break(IF r.state = "reasoning" THEN [c EXCEPT !.text = Append(@, Message)]
                  ELSE c, Stop)
         /\ UNCHANGED <<sent, connected>>
      \/ TokenGuards(c) /\ UNCHANGED <<sent, connected>>
      \/ NoGuardTrips(c) /\ ChatStream(c, r)

(* The last chunk, or the whole response; usage and [DONE] follow it. *)
ChatFinish ==
  LET c == Closed(h)
  IN  /\ phase' = "done"
      /\ h' = c
      /\ \/ /\ connected
            /\ \E parsed \in SUBSET Range(c.calls) :
                 sent' = Append(sent, Chunk(c, parsed, FinishReason(c)))
            /\ UNCHANGED connected
         \/ connected' = FALSE /\ UNCHANGED sent

----------------------------------------
(* handle_responses_completion: events about items; item 0 is the message,  *)
(* item k the k-th call.                                                     *)

Event(type, item, index, text) ==
  [type |-> type, item |-> item, index |-> index, text |-> text]

Opening ==
  <<Event("created", 0, 0, <<>>), Event("item.added", 0, 0, <<>>),
    Event("part.added", 0, 0, <<>>)>>

TextDelta(text) == Event("text.delta", 0, 0, text)

ResponsesStream(c, r) ==
  LET delta == IF r.state = "normal" THEN TextDelta(r.text)
               ELSE Event("reasoning.delta", 0, 0, r.text)
  IN  IF request.stream /\ r.text # <<>> /\ r.state \in {"normal", "reasoning"}
      THEN \/ sent' = Append(sent, delta) /\ GoOn(c, r) /\ UNCHANGED connected
           \/ /\ connected' = FALSE
              /\ h' = c /\ phase' = "final"
              /\ UNCHANGED sent
      ELSE GoOn(c, r) /\ UNCHANGED <<sent, connected>>

ResponsesTake(r) ==
  LET c == Collected(r)
  IN  \/ /\ TextGuardMayTrip(r) /\ r.state = "reasoning"
         /\ Break([c EXCEPT !.text = Append(@, Message)], Stop)
         /\ IF ~request.stream THEN UNCHANGED <<sent, connected>>
            ELSE \/ sent' = Append(sent, TextDelta(<<Message>>)) /\ UNCHANGED connected
                 \/ connected' = FALSE /\ UNCHANGED sent
      \/ /\ TextGuardMayTrip(r) /\ r.state = "normal"
         /\ Break(c, Stop)
         /\ UNCHANGED <<sent, connected>>
      \/ TokenGuards(c) /\ UNCHANGED <<sent, connected>>
      \/ NoGuardTrips(c) /\ ResponsesStream(c, r)

(* The events of a call, as item k at its output index. *)
CallEvents(k, index, text) ==
  <<Event("item.added", k, index, <<>>), Event("arguments.delta", k, index, text),
    Event("arguments.done", k, index, text), Event("item.done", k, index, text)>>

(* Mutant of Ending: the message is closed only if it has text. *)
EndingWithText(text, calls, items) ==
  (IF text = <<>> THEN <<>>
   ELSE <<Event("text.done", 0, 0, text), Event("part.done", 0, 0, text),
          Event("item.done", 0, 0, text)>>)
  \o FlattenSeq([k \in DOMAIN calls |->
                   CallEvents(k, Cardinality(items \cap {0}) + k - 1, calls[k])])
  \o <<[type |-> "completed", items |-> items]>>

Ending(text, calls, items) ==
  <<Event("text.done", 0, 0, text), Event("part.done", 0, 0, text),
    Event("item.done", 0, 0, text)>>
  \o FlattenSeq([k \in DOMAIN calls |->
                   CallEvents(k, Cardinality(items \cap {0}) + k - 1, calls[k])])
  \o <<[type |-> "completed", items |-> items]>>

Written(S) == {i \in DOMAIN tokens : tokens[i] \in S}

(* Without the white space at its end. *)
RightStripped(text) ==
  SubSeq(text, 1,
         Max({0} \cup {n \in DOMAIN text : text[n] \notin Written(request.blank)}))

(* Nor the <|im_end|> before it. *)
Stripped(text) ==
  LET t == RightStripped(text)
  IN  IF t # <<>> /\ Last(t) \in Written(request.leaked) THEN RightStripped(Front(t)) ELSE t

(* With no call, the text may be one in JSON (the fallback parser). *)
ResponsesFinish ==
  LET c == Closed(h)
      full == Stripped(c.text)
  IN  /\ phase' = "done"
      /\ h' = c
      /\ IF ~connected THEN UNCHANGED <<sent, connected>>
         ELSE \E parsed \in SUBSET Range(c.calls), fallback \in BOOLEAN :
                LET formatted == Formatted(c.calls, parsed)
                    text == IF fallback THEN <<>> ELSE full
                    calls == IF fallback THEN <<full>> ELSE formatted
                    items == DOMAIN calls \cup (IF text # <<>> \/ calls = <<>> THEN {0} ELSE {})
                    ending == Ending(text, calls, items)
                IN  /\ fallback => formatted = <<>> /\ full # <<>>
                    /\ IF request.stream
                       THEN \E n \in 0..Len(ending) :
                              /\ sent' = sent \o SubSeq(ending, 1, n)
                              /\ connected' = (n = Len(ending))
                       ELSE \/ /\ sent' = <<[Chunk(c, parsed, FinishReason(c))
                                              EXCEPT !.text = text, !.calls = calls,
                                                     !.reasoning = <<>>]>>
                               /\ UNCHANGED connected
                            \/ connected' = FALSE /\ UNCHANGED sent

----------------------------------------
(* The tokens on their way to the handler *)

Take(r) == IF request.api = "chat" THEN ChatTake(r) ELSE ResponsesTake(r)

BufferSize == Max({Len(x) : x \in UNION {Sequences(request, s) : s \in States}})

(* The texts of the last n responses are blanked. *)
Blanked(responses, n) ==
  [i \in DOMAIN responses |-> IF i > Len(responses) - n
                              THEN [responses[i] EXCEPT !.text = <<>>]
                              ELSE responses[i]]

Init ==
  /\ request \in Requests
  /\ tokens = <<>>
  /\ matcher = [state |-> request.initial, node |-> <<>>]
  /\ unflushed = <<>>
  /\ buffer = <<>>
  /\ ended = None
  /\ h = NewHandler
  /\ sent = <<>>
  /\ phase = "open"
  /\ connected = TRUE
  /\ raised = FALSE

(* Headers and, in a stream of the Responses API, the first events. *)
Open ==
  /\ phase = "open"
  /\ LET opening == IF request.api = "responses" /\ request.stream THEN Opening ELSE <<>>
     IN  \/ sent' = opening /\ phase' = "loop" /\ UNCHANGED connected
         \/ /\ request.stream
            /\ \E n \in {0} \cup 1..Len(opening) - 1 : sent' = SubSeq(opening, 1, n)
            /\ connected' = FALSE /\ phase' = "done"
  /\ UNCHANGED <<request, tokens, matcher, unflushed, buffer, ended, h, raised>>

(* A token is generated, matched and put into the buffer, whose first the   *)
(* handler takes when it is full.                                           *)
Generate ==
  /\ phase = "loop" /\ ended = None
  /\ \E x \in request.vocab :
       LET at == Len(tokens) + 1
           m  == Match(matcher, x)
           r  == [token |-> x, state |-> m.state, text |-> Append(unflushed, at),
                  finish |-> IF m.state = Stop THEN Stop
                             ELSE IF at >= request.limit THEN "length" ELSE None]
           held == x \in request.held
           full == Blanked(Append(buffer, [r EXCEPT !.text = IF held THEN <<>> ELSE @]),
                           m.length)
       IN  /\ tokens' = Append(tokens, x)
           /\ matcher' = [state |-> m.state, node |-> m.node]
           /\ unflushed' = IF held THEN r.text ELSE <<>>
           /\ ended' = r.finish
           /\ raised' = (m.length > Len(full))
           /\ IF raised' THEN /\ phase' = "done"
                              /\ UNCHANGED <<buffer, h, sent, connected>>
              ELSE IF Len(full) >= BufferSize
              THEN buffer' = Tail(full) /\ Take(Head(full))
              ELSE buffer' = full /\ UNCHANGED <<h, sent, phase, connected>>
  /\ UNCHANGED request

(* The stream has ended: the rest of the buffer. *)
Drain ==
  /\ phase = "loop" /\ ended # None /\ buffer # <<>>
  /\ buffer' = Tail(buffer)
  /\ Take(Head(buffer))
  /\ UNCHANGED <<request, tokens, matcher, unflushed, ended, raised>>

LeaveLoop ==
  /\ phase = "loop" /\ ended # None /\ buffer = <<>>
  /\ phase' = "final"
  /\ UNCHANGED <<request, tokens, matcher, unflushed, buffer, ended, h, sent,
                 connected, raised>>

Finish ==
  /\ phase = "final"
  /\ IF request.api = "chat" THEN ChatFinish ELSE ResponsesFinish
  /\ UNCHANGED <<request, tokens, matcher, unflushed, buffer, ended, raised>>

Done == phase = "done" /\ UNCHANGED vars

Next == Open \/ Generate \/ Drain \/ LeaveLoop \/ Finish \/ Done

Spec == Init /\ [][Next]_vars

----------------------------------------
(* Reference: the state of each token, by definition *)

(* The state after the first i tokens, where it was entered, and the length *)
(* of the sequence that ends there: the longest one that is a suffix of the *)
(* tokens since the state was entered.                                      *)
After(q, t, before, i) ==
  LET seen == SubSeq(t, before.from + 1, i)
      ends == {x \in Sequences(q, before.state) : IsSuffix(x, seen)}
      longest == CHOOSE x \in ends : \A y \in ends : Len(y) <= Len(x)
  IN  IF ends = {} THEN [state |-> before.state, from |-> before.from, length |-> 0]
      ELSE [state |-> Transitions(q, before.state)[longest], from |-> i,
            length |-> Len(longest)]

Start(q) == [state |-> q.initial, from |-> 0, length |-> 0]

ReferenceOf(q, t) ==
  LET ref[n \in 0..Len(t)] ==
        IF n = 0 THEN <<>>
        ELSE LET upto == ref[n - 1]
             IN  Append(upto, After(q, t, IF n = 1 THEN Start(q) ELSE upto[n - 1], n))
  IN  ref[Len(t)]

Reference == ReferenceOf(request, tokens)

Visible(ref, i) == \A j \in i..Len(ref) : ref[j].length <= j - i

InState(ref, s, n) ==
  Among([i \in 1..n |-> i], {i \in 1..n : ref[i].state = s /\ Visible(ref, i)})

(* What the first n tokens say of the tool call that begins behind from. *)
CallOf(ref, n, from) ==
  Among(InState(ref, "tool", n), {i \in 1..n : ref[i].from = from})

(* The tool calls that the tokens up to the n-th complete. *)
CallsIn(ref, n) ==
  LET closers == Among([j \in 1..n |-> j],
                       {j \in 2..n : ref[j].state = "normal" /\ ref[j - 1].state = "tool"})
  IN  [k \in DOMAIN closers |-> CallOf(ref, closers[k], ref[closers[k] - 1].from)]

(* The tool call that is open after n tokens, if it has any text. *)
OpenCall(ref, n) ==
  LET call == CallOf(ref, n, ref[n].from)
  IN  IF ref[n].state = "tool" /\ call # <<>> THEN <<call>> ELSE <<>>

----------------------------------------
(* Properties *)

(* Nothing but control sequences is waiting for its end in the buffer, and   *)
(* the matcher is at a node of the trie of its state.                         *)
TypeOK ==
  /\ request \in Requests
  /\ tokens \in Seq(request.vocab) /\ Len(tokens) <= request.limit
  /\ phase \in {"open", "loop", "final", "done"}
  /\ Len(buffer) < BufferSize
  /\ \/ matcher.state = Stop /\ ended = Stop
     \/ matcher.node \in Tries[request][matcher.state].nodes
  /\ h.count + Len(buffer) = Len(tokens) \/ raised

Pending(list) == IF phase = "done" /\ connected THEN <<>> ELSE list

AllSent(field) == FlattenSeq([k \in DOMAIN sent |-> sent[k][field]])

WithoutMessage(text) == Among(text, Nat \ {Message})

Text == WithoutMessage(IF request.api = "responses" THEN h.text
                       ELSE AllSent("text") \o Pending(h.text))

ReasoningText == IF request.api = "responses" THEN h.reasoning
                 ELSE AllSent("reasoning") \o Pending(h.reasoning)

Calls == IF request.api = "responses" THEN h.calls
         ELSE AllSent("calls") \o AllSent("rejected") \o Pending(h.calls)

SameCalls(got, expected) ==
  LET some(calls) == Among(calls, Seq(Nat) \ {<<>>})
  IN  /\ Range(some(got)) = Range(some(expected))
      /\ Len(some(got)) = Len(some(expected))

Deltas(type) == Among(sent, {e \in Range(sent) : e.type = type})

TextOf(events) == FlattenSeq([k \in DOMAIN events |-> events[k].text])

Positions(chunk) ==
  Range(chunk.text \o chunk.reasoning \o FlattenSeq(chunk.calls \o chunk.rejected))
  \ {Message}

AllDelivered ==
  LET ref == Reference
      n == h.count
      expected == CallsIn(ref, n)
                  \o (IF phase = "done" /\ ~h.cut /\ n > 0 THEN OpenCall(ref, n) ELSE <<>>)
  IN  phase # "open" /\ (phase = "done" => n > 0) =>
        /\ Text = InState(ref, "normal", n)
        /\ ReasoningText = InState(ref, "reasoning", n)
        /\ SameCalls(Calls, expected)
        /\ request.api = "chat" =>
             \A a, b \in DOMAIN sent : a < b =>
               \A i \in Positions(sent[a]), j \in Positions(sent[b]) : i < j

(* What was sent and what waits to be is, taken together, what the tokens    *)
(* say: the answer and the reasoning are the texts of the tokens in these    *)
(* states without the control sequences, and each tool call that was closed  *)
(* is there once and whole; one still open when a limit ends the generation  *)
(* counts as well.  A later chunk holds nothing from before an earlier one.  *)
(* Nor does _process_control_tokens take a response out of an empty buffer:  *)
(* no part of a control sequence was handed on when the sequence ends.       *)
DeliveredAsGenerated == TypeOK /\ ~raised /\ AllDelivered

(* The tool call that a stop, not its end, closes is delivered too.          *)
StoppedCallDelivered ==
  LET ref == Reference
      n == Len(tokens)
  IN  phase = "done" /\ connected /\ ended = Stop /\ h.count = n /\ n > 1
      /\ ref[n - 1].state = "tool" =>
        \A i \in 1..n - 1 : ref[i].state = "tool" /\ Visible(ref, i) =>
          \E c \in Range(Calls) : i \in Range(c)

(* Where the current span of tokens in one state began. *)
SpanStart(ref, n) ==
  Min({i \in 1..n : \A k \in i..n : ref[k].state = ref[n].state})

(* As long as the handler reads on, the reasoning or answer it is in does    *)
(* not end in a loop, and no tool call or reasoning exceeds its limit: the    *)
(* guards count from the last change of state, whatever came before.         *)
GuardsHold ==
  LET ref == Reference
      n == h.count
      span == SubSeq(tokens, SpanStart(ref, n), n)
  IN  /\ phase = "loop" /\ n > 0 =>
           /\ ref[n].state \in {"normal", "reasoning"} => ~HasLoop(span)
           /\ ref[n].state = "tool" /\ ToolMax > 0 => Len(span) <= ToolMax
           /\ ref[n].state = "reasoning" /\ ReasoningMax > 0 => Len(span) <= ReasoningMax
      /\ ToolMax > 0 => \A c \in Range(Calls) : Len(c) <= ToolMax

Is(k, type, item) == sent[k].type = type /\ sent[k].item = item

ItemEvents == {"part.added", "text.delta", "reasoning.delta", "text.done", "part.done",
               "item.done", "arguments.delta", "arguments.done"}

(* Of what the deltas said, only white space and <|im_end|> at the end are   *)
(* missing; at most the token a guard stopped at is behind it.               *)
FinalOf(text, said) ==
  \/ IsPrefix(said, text) /\ Len(text) <= Len(said) + 1
  \/ /\ IsPrefix(text, said)
     /\ \A i \in Len(text) + 1..Len(said) :
          said[i] \in Written(request.blank \cup request.leaked)

ReadAsCall(events) ==
  \A k \in DOMAIN events :
    events[k].type = "completed" => \E item \in events[k].items : item > 0

(* A stream of the Responses API is well-formed at every point: events of an *)
(* item come between its one "added" and its one "done", and at the same     *)
(* index; the completed response comes last, when all items are done, and    *)
(* lists only such; the final text is what the deltas said (FinalOf), or     *)
(* empty if it was read as a call (server.py 5397-5758).                     *)
EventsWellFormed ==
  request.api = "responses" /\ request.stream =>
    \A k \in DOMAIN sent :
      IF sent[k].type = "completed"
      THEN /\ k = Len(sent)
           /\ \A j \in 1..k - 1 : sent[j].type = "item.added" =>
                \E d \in j..k : Is(d, "item.done", sent[j].item)
           /\ \A item \in sent[k].items : \E d \in 1..k - 1 : Is(d, "item.done", item)
      ELSE /\ sent[k].type \in ItemEvents =>
                /\ \E j \in 1..k - 1 : /\ Is(j, "item.added", sent[k].item)
                                       /\ sent[j].index = sent[k].index
                /\ ~\E j \in 1..k - 1 : Is(j, "item.done", sent[k].item)
           /\ sent[k].type = "item.added" =>
                ~\E j \in 1..k - 1 : Is(j, "item.added", sent[k].item)
           /\ sent[k].type = "text.done" =>
                \/ FinalOf(sent[k].text, TextOf(Deltas("text.delta")))
                \/ sent[k].text = <<>> /\ ReadAsCall(sent)

=============================================================================
