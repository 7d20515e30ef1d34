------------------------------- MODULE AgentChat -------------------------------
(***************************************************************************)
(* A question to the Cortex Agent: the page (components/AgentChat.tsx),    *)
(* the route /api/agent/stream and the proxy that reads the agent's event  *)
(* stream (server/agent-proxy.ts).  Both streams come in pieces that may   *)
(* end anywhere: a line (or, on the way to the browser, an event) is two   *)
(* halves, its text and the newlines that end it, and a piece is any run   *)
(* of halves.                                                              *)
(*                                                                         *)
(* A line of the agent is [is, of]: an event line with its type, a data    *)
(* line with a text, "bad" (not JSON) or "DONE", or a blank one.           *)
(***************************************************************************)
EXTENDS Integers, Sequences, SequencesExt

CONSTANTS
  Scripts,        \* what the agent may send: a set of sequences of lines
  MaxQuestions,   \* questions that are asked (a bound)
  MaxPiece,       \* halves in a piece of a stream (a bound)
  MaxBreaks       \* requests and streams that break (a bound)

\* Types whose events are not shown; a status is told to the page.
SKIP_EVENTS == {"thinking", "status", "tool", "text"}

\* The types an event line names; "delta" is any that is not special.
EventTypes == SKIP_EVENTS \union {"delta", "error"}
AgentLine == [is : {"event"}, of : EventTypes] \union [is : {"data"}, of : STRING]
             \union [is : {"blank"}, of : {""}]

AgentAssumption ==
  /\ Scripts \subseteq Seq(AgentLine)
  /\ MaxQuestions \in Nat /\ MaxPiece \in Nat \ {0} /\ MaxBreaks \in Nat

VARIABLES
  script,    \* the lines of the agent's answer
  sent,      \* halves of them that the proxy has read
  proxy,     \* its buffer, eventType, dataBuf
  route,     \* the stream to the browser: "none", "open" or "closed"
  down,      \* events of that stream
  got,       \* halves of them that the browser has read
  buffer,    \* the browser's buffer
  chat,      \* messages
  steps,     \* statusSteps
  streaming,
  gone,      \* the page has thrown while it rendered
  cleared,   \* the chat was cleared under the current answer (history)
  asked, breaks

agentVars == << script, sent, proxy, route, down, got, buffer, chat, steps, streaming,
                gone, cleared, asked, breaks >>

Reset == [buffer |-> << >>, type |-> "none", data |-> << >>]

AgentInit ==
  /\ script = << >> /\ sent = 0 /\ proxy = Reset
  /\ route = "none" /\ down = << >> /\ got = 0 /\ buffer = << >>
  /\ chat = << >> /\ steps = << >> /\ streaming = FALSE /\ gone = FALSE
  /\ cleared = FALSE /\ asked = 0 /\ breaks = 0

Break == breaks < MaxBreaks /\ breaks' = breaks + 1

-----------------------------------------------------------------------------
(* Pieces.  Halves are numbered: 2i - 1 and 2i are those of line i.        *)

Piece(from, n) == [i \in 1 .. n |-> from + i]

\* split: the lines that end in the buffer, by number.  The buffer is a run of halves;
\* a newline at its head, whose text is not there, ends an empty line, which is 0.
Ended(halves) ==
  LET before == (halves[1] - 1) \div 2
  IN  [k \in 1 .. (halves[Len(halves)] \div 2) - before |->
         IF k = 1 /\ halves[1] % 2 = 0 THEN 0 ELSE before + k]

\* Fault: what follows the last newline is dropped.
RestDropped(halves) == << >>

\* pop: what follows the last newline stays in the buffer.
Rest(halves) == IF halves[Len(halves)] % 2 = 1 THEN << halves[Len(halves)] >> ELSE << >>

\* for (const x of xs): FoldLeft as a recursive function, which proofs can unfold.
Through(Step(_, _), start, xs) ==
  LET after[n \in 0 .. Len(xs)] == IF n = 0 THEN start ELSE Step(after[n - 1], xs[n])
  IN  after[Len(xs)]

-----------------------------------------------------------------------------
(* The proxy and the route.                                                *)

Event(type, text) == [type |-> type, text |-> text]

\* The events of one line, given the parser p: [type, data, out, over].  Every data
\* line is a whole document or "bad"; the code joins several with newlines, and two
\* documents so joined do not parse.  A document spread over lines is left out.
ProxyLine(p, line) ==
  IF p.over THEN p
  ELSE CASE line.is = "event" -> [p EXCEPT !.type = line.of, !.data = << >>]
         [] line.is = "data" /\ line.of = "DONE" ->
              [p EXCEPT !.out = Append(@, Event("done", "")), !.over = TRUE]
         [] line.is = "data" /\ line.of # "DONE" -> [p EXCEPT !.data = Append(@, line.of)]
         [] line.is = "blank" /\ p.data = << >> -> p
         [] line.is = "blank" /\ p.data # << >> ->
              LET emptied == [p EXCEPT !.data = << >>]
                  Emit(type) == [emptied EXCEPT !.out = Append(@, Event(type, p.data[1]))]
              IN  IF Len(p.data) > 1 \/ p.data[1] = "bad" THEN emptied
                  ELSE IF p.type = "status" THEN Emit("status")
                  ELSE IF p.type \in SKIP_EVENTS THEN emptied
                  ELSE IF p.type = "error" THEN [Emit("error") EXCEPT !.over = TRUE]
                  ELSE Emit("delta")

Lines(numbers) ==
  [k \in DOMAIN numbers |->
     IF numbers[k] = 0 THEN [is |-> "blank", of |-> ""] ELSE script[numbers[k]]]

\* A read of the agent's stream.
ProxyReads(n) ==
  LET halves == proxy.buffer \o Piece(sent, n)
      parsed == Through(ProxyLine,
                        [type |-> proxy.type, data |-> proxy.data, out |-> << >>, over |-> FALSE],
                        Lines(Ended(halves)))
  IN  /\ route = "open" /\ n <= 2 * Len(script) - sent
      /\ sent' = sent + n
      /\ proxy' = [buffer |-> Rest(halves), type |-> parsed.type, data |-> parsed.data]
      /\ down' = down \o parsed.out
      /\ route' = IF parsed.over THEN "closed" ELSE "open"
      /\ UNCHANGED << script, got, buffer, chat, steps, streaming, gone, cleared, asked, breaks >>

Closes(event) ==
  /\ route = "open"
  /\ down' = Append(down, event)
  /\ route' = "closed"
  /\ UNCHANGED << script, sent, proxy, got, buffer, chat, steps, streaming, gone, cleared, asked >>

\* The agent's stream ends; what is left in the buffers is not looked at.
ProxyEnds == sent = 2 * Len(script) /\ Closes(Event("done", "")) /\ UNCHANGED breaks

\* No token, no connection, an error status, a stream that breaks or takes longer
\* than 120 s: an error event, from the proxy or from the catch of the route.
ProxyBreaks == Break /\ Closes(Event("error", "proxy"))

-----------------------------------------------------------------------------
(* The page.                                                               *)

Asks(s) ==
  /\ ~streaming /\ ~gone /\ asked < MaxQuestions
  /\ asked' = asked + 1
  /\ chat' = chat \o << [role |-> "user", content |-> << >>],
                        [role |-> "assistant", content |-> << >>] >>
  /\ steps' = << >> /\ streaming' = TRUE /\ cleared' = FALSE
  /\ script' = s /\ sent' = 0 /\ proxy' = Reset /\ route' = "open"
  /\ down' = << >> /\ got' = 0 /\ buffer' = << >>
  /\ UNCHANGED << gone, breaks >>

Failed(text) == [role |-> "assistant", content |-> << "error", text >>]
Replaced(messages, m) ==
  IF messages = << >> THEN messages ELSE [messages EXCEPT ![Len(messages)] = m]

\* One event of the stream, given the page: [chat, steps, gone].  A delta is added
\* to the last message, of which there is none in a chat that was cleared.
PageEvent(page, event) ==
  CASE page.gone -> page
    [] ~page.gone /\ event.type = "delta" ->
         IF page.chat = << >> THEN [page EXCEPT !.gone = TRUE]
         ELSE [page EXCEPT !.chat[Len(page.chat)].content = Append(@, event.text)]
    [] ~page.gone /\ event.type = "status" -> [page EXCEPT !.steps = Append(@, event.text)]
    [] ~page.gone /\ event.type = "error" ->
         [page EXCEPT !.chat = Replaced(@, Failed(event.text))]
    [] ~page.gone /\ event.type = "done" -> page

EventsIn(numbers) ==
  [k \in DOMAIN numbers |->
     IF numbers[k] = 0 THEN Event("done", "") ELSE down[numbers[k]]]

\* A read of the route's stream.
PageReads(n) ==
  LET halves == buffer \o Piece(got, n)
      page == Through(PageEvent, [chat |-> chat, steps |-> steps, gone |-> gone],
                      EventsIn(Ended(halves)))
  IN  /\ streaming /\ n <= 2 * Len(down) - got
      /\ got' = got + n
      /\ buffer' = Rest(halves)
      /\ chat' = page.chat /\ gone' = page.gone
      /\ streaming' = ~page.gone
      /\ steps' = IF page.gone THEN << >> ELSE page.steps
      /\ UNCHANGED << script, sent, proxy, route, down, cleared, asked, breaks >>

Finally ==
  /\ streaming' = FALSE /\ steps' = << >>
  /\ UNCHANGED << script, sent, proxy, down, got, buffer, gone, cleared, asked >>

\* Fault: the page waits for a done event, which no error is followed by.
PageEndsWhenDone ==
  /\ streaming /\ route = "closed" /\ got = 2 * Len(down)
  /\ down[Len(down)].type = "done"
  /\ Finally
  /\ UNCHANGED << chat, route, breaks >>

PageEnds ==
  /\ streaming /\ route = "closed" /\ got = 2 * Len(down)
  /\ Finally
  /\ UNCHANGED << chat, route, breaks >>

\* The request is refused, or its stream breaks.
PageBreaks ==
  /\ streaming /\ Break
  /\ chat' = Replaced(chat, Failed("connection"))
  /\ route' = "closed"
  /\ Finally

\* Clear chat, also while an answer is streaming.
Clear ==
  /\ chat # << >> /\ ~gone
  /\ chat' = << >>
  /\ cleared' = TRUE
  /\ UNCHANGED << script, sent, proxy, route, down, got, buffer, steps, streaming,
                  gone, asked, breaks >>

Flows == \/ \E n \in 1 .. MaxPiece : ProxyReads(n)
         \/ ProxyEnds \/ ProxyBreaks
Shows == \/ \E n \in 1 .. MaxPiece : PageReads(n)
         \/ PageEnds \/ PageBreaks

AgentNext == Flows \/ Shows \/ Clear \/ \E s \in Scripts : Asks(s)

AgentSpec == AgentInit /\ [][AgentNext]_agentVars

-----------------------------------------------------------------------------

AgentTypeOK ==
  /\ sent \in 0 .. 2 * Len(script) /\ got \in 0 .. 2 * Len(down)
  /\ Len(proxy.buffer) <= 1 /\ Len(buffer) <= 1
  /\ proxy.type \in SKIP_EVENTS \union {"none", "delta", "error"}
  /\ route \in {"none", "open", "closed"}
  /\ \A i \in DOMAIN chat : chat[i].role \in {"user", "assistant"}
  /\ {streaming, gone, cleared} \subseteq BOOLEAN
  /\ gone => cleared /\ ~streaming
  /\ steps # << >> => streaming
  /\ asked \in 0 .. MaxQuestions /\ breaks \in 0 .. MaxBreaks

\* The answer, by the rules of the stream and not by its pieces: an event is the
\* data between a blank or event line and the next blank one; its type is the last
\* one named; it ends the answer if it is an error, as a data line of DONE does.
Marks == {i \in DOMAIN script : script[i].is # "data"}
DataOf(i) == {j \in 1 .. i - 1 : script[j].is = "data" /\ \A k \in Marks : k < i => k < j}
TypeOf(i) == LET named == {j \in 1 .. i : script[j].is = "event"}
             IN  IF named = {} THEN "none" ELSE script[Max(named)].of
Whole(i) == /\ script[i].is = "blank"
            /\ \E j \in DataOf(i) : DataOf(i) = {j} /\ script[j].of # "bad"
Stops(i) == script[i].of = "DONE" \/ (Whole(i) /\ TypeOf(i) = "error")
Told == {i \in DOMAIN script : /\ Whole(i) /\ TypeOf(i) \notin SKIP_EVENTS \union {"error"}
                               /\ \A j \in 1 .. i : ~Stops(j)}
ToldTo(i) == {j \in Told : j <= i}
Answer == [k \in 1 .. Cardinality(Told) |->
             LET i == CHOOSE i \in Told : Cardinality(ToldTo(i)) = k IN script[i - 1].of]

IsError(m) == m.content # << >> /\ m.content[1] = "error"

\* However the two streams are cut into pieces, the page shows a part of the
\* agent's answer, and all of it when the stream has ended, or else an error:
\* no text is lost, torn or shown twice.
AnswerIsWhole ==
  asked > 0 /\ ~cleared =>
    LET last == chat[Len(chat)] IN
    \/ IsError(last)
    \/ IsPrefix(last.content, Answer) /\ (streaming \/ last.content = Answer)

\* Every question comes to an end, with an answer or an error.
AnswerEnds == streaming ~> ~streaming
=============================================================================
