--------------------------- MODULE InferenceStream ---------------------------
(***************************************************************************)
(* Inference of the ai-service: the chat, prompt and template endpoints,    *)
(* whole or streamed as Server-Sent Events                                  *)
(* (ai-service/app/routers/inference.py, app/services/llm_service.py,       *)
(* app/services/prompt_manager.py), and what an SSE client makes of the     *)
(* bytes.  Requests share no state, so one is modelled.                     *)
(*                                                                          *)
(* A text is a sequence of characters.  Those that matter to the framing are *)
(* a character each: a line end (LF, but an SSE client also ends a line at  *)
(* CR), the name of the data field, and the marks that end a stream.  The   *)
(* provider may write any of them.                                          *)
(***************************************************************************)
EXTENDS Integers, Sequences

CONSTANTS
    Letters,    \* what else a text is made of
    MaxDelta,   \* bound of the model on the length of one chunk of the provider
    MaxDeltas   \* bound of the model on the number of chunks

LF == "LF"
FieldName == "data: "
EndMark == "[DONE]"
ErrorMark == "[ERROR]"
Marks == {EndMark, ErrorMark}

Endpoints == {"chat", "chat_stream", "prompt", "prompt_stream", "render"}

\* The longest message and the sum of all: up to max_prompt_length, more than
\* that, or more than a Message may hold.
Sizes == {"short", "long", "huge"}

\* A template that exists and gets its variables, or not.
Templates == {"complete", "unknown", "incomplete"}

Requests == [endpoint : Endpoints, stream : BOOLEAN, size : Sizes, template : Templates]

Characters == Letters \cup Marks \cup {LF, FieldName}

Deltas == UNION {[1..n -> Characters] : n \in 0..MaxDelta}

ASSUME StreamAssumption == MaxDelta \in Nat /\ MaxDeltas \in Nat

VARIABLES
    req,        \* the request
    pc,         \* where its handler stands
    status,     \* HTTP status sent to the client, 0 before
    wire,       \* body of a streamed response so far
    asked,      \* the provider was asked for a completion
    deltas,     \* number of chunks the provider has sent
    said,       \* history: the text of these chunks
    client      \* "there" or "gone"

vars == <<req, pc, status, wire, asked, deltas, said, client>>

Streamed == req.endpoint \in {"chat_stream", "prompt_stream"}

-----------------------------------------------------------------------------
Respond(code) ==
    /\ pc' = "done"
    /\ status' = code
    /\ UNCHANGED <<req, wire, asked, deltas, said, client>>

Continue(stage) ==
    /\ pc' = stage
    /\ UNCHANGED <<req, status, wire, asked, deltas, said, client>>

\* The handler up to the call of LLMService.  Body validation refuses a message
\* of more than 32000 characters; where the code builds the Message itself, from
\* a system prompt or a rendered template, that is an unhandled exception.
Receive ==
    /\ pc = "receive"
    /\ CASE req.endpoint = "chat" /\ req.stream /\ req.size # "huge" -> Respond(400)
         [] req.endpoint = "render" /\ req.template # "complete" -> Respond(422)
         [] req.size = "huge" ->
                Respond(IF req.endpoint \in {"chat", "chat_stream"} THEN 422 ELSE 500)
         [] OTHER -> Continue(IF Streamed THEN "headers" ELSE "validate")

\* StreamingResponse sends its status before it runs the generator.
SendHeaders ==
    /\ pc = "headers"
    /\ status' = 200
    /\ pc' = "validate"
    /\ UNCHANGED <<req, wire, asked, deltas, said, client>>

\* Variant: only chat() validates, stream() does not.
WithinLimitChatOnly == req.size = "short" \/ Streamed

\* _validate_messages
WithinLimit == req.size = "short"

\* A prompt over the limit: 422, or for a stream, whose 200 is out, the
\* connection is closed without a byte of body.
Validate ==
    /\ pc = "validate"
    /\ IF WithinLimit
         THEN Continue("ask")
         ELSE Respond(IF Streamed THEN 200 ELSE 422)

\* chat(): the whole completion, or 503 for an exception or no choices.
Complete ==
    /\ pc = "ask" /\ ~Streamed
    /\ \E code \in {200, 503} :
         /\ status' = code
         /\ pc' = "done"
         /\ asked' = TRUE
    /\ UNCHANGED <<req, wire, deltas, said, client>>

-----------------------------------------------------------------------------
(* stream() *)

\* Variant: the chunks are written without the field name.
FrameNoField(text) == text \o <<LF, LF>>

\* yield f"data: {text}\n\n"
Frame(text) == <<FieldName>> \o text \o <<LF, LF>>

OpenStream ==
    /\ pc = "ask" /\ Streamed
    /\ asked' = TRUE
    /\ pc' = "stream"
    /\ UNCHANGED <<req, status, wire, deltas, said, client>>

\* A chunk with no choices or no content is skipped.
Delta(d) ==
    /\ pc = "stream" /\ deltas < MaxDeltas
    /\ deltas' = deltas + 1
    /\ said' = said \o d
    /\ wire' = IF d = <<>> THEN wire ELSE wire \o Frame(d)
    /\ UNCHANGED <<req, pc, status, asked, client>>

EndStream ==
    /\ pc = "stream"
    /\ wire' = wire \o Frame(<<EndMark>>)
    /\ pc' = "done"
    /\ UNCHANGED <<req, status, asked, deltas, said, client>>

\* Variant: the error is logged and the generator goes on to its last yield.
StreamFailsAnyway ==
    /\ pc \in {"ask", "stream"} /\ Streamed
    /\ wire' = wire \o Frame(<<ErrorMark>>) \o Frame(<<EndMark>>)
    /\ asked' = TRUE
    /\ pc' = "done"
    /\ UNCHANGED <<req, status, deltas, said, client>>

\* The provider refuses, fails or breaks off.
StreamFails ==
    /\ pc \in {"ask", "stream"} /\ Streamed
    /\ wire' = wire \o Frame(<<ErrorMark>>)
    /\ asked' = TRUE
    /\ pc' = "done"
    /\ UNCHANGED <<req, status, deltas, said, client>>

\* The client closes the connection: the generator is cancelled.
Disconnect ==
    /\ pc \in {"validate", "ask", "stream"} /\ Streamed
    /\ client' = "gone"
    /\ pc' = "done"
    /\ UNCHANGED <<req, status, wire, asked, deltas, said>>

-----------------------------------------------------------------------------
(* An SSE client: a line that begins with the field name adds its text to the *)
(* event, a line without one is ignored.                                      *)

OnDataLine(body, i) ==
    \E s \in 1..(i - 1) :
        /\ body[s] = FieldName
        /\ s = 1 \/ body[s - 1] = LF
        /\ \A k \in s..i : body[k] # LF

\* Positions of the characters the client reads.
Carried(body) == {i \in 1..Len(body) : OnDataLine(body, i)}

\* Positions where it reads a mark: alone on a data line.
MarkLines(body) ==
    {i \in 2..(Len(body) - 1) : /\ body[i] \in Marks /\ body[i - 1] = FieldName
                                /\ i = 2 \/ body[i - 2] = LF
                                /\ body[i + 1] = LF}

-----------------------------------------------------------------------------
Init ==
    /\ req \in Requests
    /\ pc = "receive"
    /\ status = 0
    /\ wire = <<>>
    /\ asked = FALSE
    /\ deltas = 0
    /\ said = <<>>
    /\ client = "there"

Next ==
    \/ Receive \/ SendHeaders \/ Validate \/ Complete
    \/ OpenStream \/ (\E d \in Deltas : Delta(d)) \/ EndStream \/ StreamFails
    \/ Disconnect

Spec == Init /\ [][Next]_vars

-----------------------------------------------------------------------------
(* Properties *)

TypeOK ==
    /\ req \in Requests
    /\ pc \in {"receive", "headers", "validate", "ask", "stream", "done"}
    /\ status \in {0, 200, 400, 422, 500, 503}
    /\ wire \in Seq(Characters)
    /\ asked \in BOOLEAN
    /\ deltas \in 0..MaxDeltas
    /\ said \in Seq(Characters)
    /\ client \in {"there", "gone"}

\* No way into the service gets an over-long prompt to the provider, be it a
\* conversation, a system prompt or a rendered template.
PromptLimitHeld == asked => req.size = "short"

Marked(text) == \E k \in 1..Len(text) : text[k] \in Marks

\* When a stream with status 200 is over, the last thing a client that stays reads
\* is a mark, wherever the provider broke off and whatever it wrote; and it is the
\* only one unless the provider wrote one itself.  An empty body without a mark
\* means one thing, a prompt over the limit: the provider was never asked.
EndsWithOneMark ==
    pc = "done" /\ Streamed /\ status = 200 /\ client = "there" =>
        IF asked
          THEN \E last \in MarkLines(wire) :
                  /\ \A i \in Carried(wire) : i <= last
                  /\ ~Marked(said) => MarkLines(wire) = {last}
          ELSE wire = <<>> /\ req.size # "short"

Spoken(text) == {k \in 1..Len(text) : text[k] # LF}

\* f places every character of the text but its line ends where the client reads
\* it in the body: the same character, in the same order, and the client reads
\* no other.
Places(f, text, body) ==
    /\ \A k \in Spoken(text) : body[f[k]] = text[k]
    /\ \A j, k \in Spoken(text) : j < k => f[j] < f[k]
    /\ \A i \in Carried(body) : \E k \in Spoken(text) : f[k] = i

Arrives(text, body) == \E f \in [Spoken(text) -> Carried(body)] : Places(f, text, body)

\* What the service adds of its own to the text: one mark when it is over.
Endings == {<<>>} \cup (IF pc = "done" THEN {<<mark>> : mark \in Marks} ELSE {})

LineFeeds(text) == \E i \in 1..Len(text) : text[i] = LF

\* Chunks arrive whole and in order: as long as the provider writes no line end,
\* what the client has read is what the provider has said, and then the mark.
TextArrives == ~LineFeeds(said) => \E end \in Endings : Arrives(said \o end, wire)

\* "Stream the LLM response token-by-token using Server-Sent Events": every
\* character of the response but its line ends reaches the client.
EveryTokenArrives == \E end \in Endings : Arrives(said \o end, wire)

=============================================================================
