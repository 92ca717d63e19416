# Verification of the AI microservices platform

TLA+ models of the services in this repository, the TLC runs that check them on
small instances, and TLAPS proofs of the results that matter most. Every
definition is translated from the source; PROJECT.json (`map`) names the lines
each one stands for, and `hazards` lists the places in the code the properties
are aimed at.

To check one run, or one proof module, in this directory:

    tlc -workers 2 -config AuthCommitFirst.cfg MCAuthSessions.tla
    tlapm AuthSessionsProofs.tla

## 1. Inventory

nginx forwards HTTP to four FastAPI services. The services share one RSA key pair
(the api-gateway signs, everybody verifies) and otherwise only talk over HTTP;
the ai-service's agent calls the mcp-gateway, which calls the document service.

| Component | State it keeps | Operations | Interacts with |
|---|---|---|---|
| accounts and refresh tokens (`api-gateway`) | `users`, `refresh_tokens` in PostgreSQL | register, login, refresh, logout, me | PostgreSQL: row locks, unique index, commit per request |
| document store and search (`document-service`) | `documents`, `document_chunks` (pgvector), a pool of 10 + 20 connections | upload, list, get, delete, search, health | PostgreSQL; OpenAI embeddings while a transaction is open |
| chunker (`document-service`) | none, a loop | `chunk_text`, `_find_boundary` | called by upload |
| mcp gateway | none; each call carries its token | tools `list_documents`, `search_documents` | document service over HTTP, 15 s per call |
| document agent (`ai-service`) | one cached `Agent`; per run a toolset and an MCP session | `POST /agent/query` | model provider; mcp gateway (10 s to open, 20 s per request, 60 s per run, 6 model requests, 6 tool calls) |
| inference (`ai-service`) | none | chat, chat/stream, prompt, prompt/stream, templates | model provider, Server-Sent Events to the client |
| tokens and scopes (`shared`, `api-gateway` settings) | the public key, in the gateway also the private key, cached for the life of a process | start-up, issue, decode, `require_scopes` | every service; the key directory |
| worker service | a Celery queue in Redis | illustrative tasks, late acknowledgement | nothing else sends to it |
| key generation (`scripts`) | two PEM files | `generate_keys.py` | the mounted key directory |
| nginx, compose, schema, CI | configuration | | |

What is hard, and what makes each part correct:

* **Accounts.** Several requests may present one refresh token; the row is selected
  `FOR UPDATE`, deleted before the owner is looked at, and everything depends on one
  commit at the end of the dependency `get_db`. Correct: a token is rotated at most
  once; a session is never forked, and never lost unless somebody logs out; answers
  agree with what was committed; no wait is endless.
* **Documents.** An upload writes its row, waits for a provider with the transaction
  open, and writes its chunks; a crash, an error, a delete or a full pool may come at
  any point. Correct: documents appear and disappear whole, belong to their owner, and
  the pool gets its connections back.
* **Chunker.** Boundary searches look *back*, so the loop's progress hangs on two
  guards. Correct: it ends, no text is lost, no chunk is empty or too long.
* **Agent and gateway.** Runs overlap on one cached object, calls run side by side and
  outlive the run that made them, tokens expire on the way, three timeouts are nested.
  Correct: a run sees only its user's documents, an answer rests on reads that
  succeeded, limits hold, and everything ends even if nobody downstream answers.
* **Keys.** The script writes two files with four file operations and may run twice at
  once or be killed; every service reads a file once, the gateway two, and an operator
  may replace them at any time. Correct: no key is overwritten, no mismatched pair is
  left, and services that started on the same keys, and only they, trust each other's
  tokens.
* **Inference.** The status of a stream is sent before its prompt is validated, and the
  provider may break off. Text and the marks that end a stream are framed alike. Correct:
  over-long prompts stay inside, the text arrives, and the last thing read of a stream is
  a mark, and the only one unless the provider wrote one itself.

## 2. Modules

| Module | Models | Uses |
|---|---|---|
| `AuthSessions` | the four account operations, one SQL statement per step | |
| `RefreshLedger` | what the gateway promises about sessions, every operation atomic | |
| `AuthSessionsProofs` | theorems about `AuthSessions`, and that it implements `RefreshLedger` | both |
| `AuthAnswersProofs` | theorems about registrations, waits for locks, late rotations and the gateway's answers | extends `AuthSessionsProofs` |
| `DocumentStore` | the six operations of the document service with pool and provider | |
| `DocumentShelf` | what the document service promises | |
| `DocumentStoreProofs` | theorems about `DocumentStore`, and that it implements `DocumentShelf` | both |
| `Chunker` | `chunk_text` as a loop over character kinds | |
| `ChunkerProofs` | theorems about `Chunker` for every text and setting | `Chunker` |
| `McpGateway` | a tool call from the token check to the document service's answer | |
| `AgentQuery` | agent runs, composed with the tool calls they make | extends `McpGateway` |
| `AgentDesk` | what the ai-service promises whoever asks the agent | |
| `AgentQueryProofs` | theorems about agent runs and the tool calls below them, and that they implement `AgentDesk` | both |
| `KeyMaterial` | `generate_keys.py`, the services that read its files, the tokens they accept | |
| `KeyMaterialProofs` | theorems about `KeyMaterial` | `KeyMaterial` |
| `InferenceStream` | whole and streamed completions, and an SSE client | |
| `InferenceStreamProofs` | theorems about `InferenceStream` | `InferenceStream` |
| `MC...` | constants, inputs and symmetry for TLC | |

Operators whose comment begins with *Variant* are mutated forms of the definition
after them: each shows a plausible slip (a dropped lock, a forgotten rollback, a shared
toolset) that makes one property fail. No action of `Next` uses them.

### AuthSessions
A request is an element of `Requests`, served once, with a program counter (`pc`) at
the next SQL statement or await. A refresh token is named by the request that minted it
(jti is a fresh UUID). `users` and `rows` are the *committed* tables. `rowLock` holds
`FOR UPDATE` locks; `emailLock` holds an uncommitted `INSERT` of an e-mail, on which a
second one waits before it meets the unique index; it then fails with an exception that the
generic handler answers with a 500. A refresh is five steps: decode,
select, the expiry of the row, the owner, the new pair. `Commit` and `Refuse` are
`get_db`'s two exits; `CommitFails`, `CommitUnconfirmed`, `ResponseLost` and `Crash` are
the faults. `Deactivate` is an operator outside the code: nothing in the services clears
`is_active`. Nothing deletes a user either, so the cascade on `refresh_tokens` never
acts. Passwords are right or wrong (`loginWrong`); access tokens and `/me` change
nothing and are left out.

`ResponseFirst` is a constant because the code leaves it open: `get_db` commits *after*
its `yield`, and `requirements.txt` admits FastAPI releases that run this before the
response is sent and releases that run it after. Both are checked, and the proofs
cover both.

### DocumentStore
Same scheme. A text is its number of chunks. `conns` is the set of requests that hold a
connection: from their first statement to the commit or rollback, so an upload keeps
one while the embeddings call runs, and a search does not. `PoolTimeout` is QueuePool's
30 seconds; the health check turns it into `degraded`. Two deletes of a document both
pass their `SELECT`; the second then deletes no row and still succeeds. Ranking
and similarity are data and left out.

### Chunker
A character is a sentence end, a blank the boundary search knows, white space only
`strip()` knows, or anything else. Chunks are slices. `FindBoundary(pos, b)` states
which `b` the scan returns; a call's arguments and the look-back are the variable `setting`; the two guards are `BoundaryAhead` and `NextStart`. `Result`
is the list comprehension that strips chunks and drops empty ones.

### McpGateway, AgentQuery
`at` is where a call stands at the gateway, `verify -> invoke -> wait -> done`, and `serving`
where its request stands at the document service, `check -> read -> ok`. The two move apart:
the service checks the token once (`CheckToken`), waits for the embeddings call of a search
and for a connection, and only then reads (`ReadDocuments`), so the token may expire and the
gateway's timeout may fire in between; and it goes on with a request whose gateway has given
up (`GiveUp` leaves `serving` as it is), whose result nobody gets. `life` counts down from the
issue of a token and below zero, where it says how long ago the token expired. `waited` is
the gateway's own timeout, which covers the streamed body. `RefuseArguments` is the
validation of a search's query and limit. `ReadsAuthorized` is therefore in two parts.
Documents are read only under the scopes of the transport and of the tool, wherever the read
falls. That the token is still *valid* at the read is not true of the code; what is true,
because the service's check comes after the gateway began to wait, is that a call succeeds
less than `DownstreamTimeout` after its token expired.

A run goes `admit -> open -> think -> call -> think ...`; its calls are those of `batch`. A
run that ends abandons its open calls, which go on at the gateway. The timers of a run (`elapsed`, `pending`)
and of the gateway are due before time passes on (`NoTimerDue`, `Tick`), as in an event
loop that is not starved. `AgentDesk` keeps of all this a query's credential, what its model
was shown and its response: one final response per query, none but the asker's documents,
nothing shown for a query that is refused. The text the model writes, MCP framing and schemas
are left out.

### KeyMaterial
A key pair is named by the invocation of the script that generated it. `privateFile` and
`publicFile` hold a key and whether it has been written; `CheckPrivate`, `CheckPublic`,
`OpenPrivate`, `WritePrivate`, `OpenPublic` and `WritePublic` are the file operations of
`generate` in their order, both opens exclusive, and `Interrupt` may end it before any of
them. What is written to a file that was removed after its open is lost with it.
`RemovePrivate` and `RemovePublic` are the operator making room for a new pair. A service
is `down`, `starting` or `up`: `LoadPublic` is `public_key`, which fails the start when the
file is missing or not complete; the gateway goes on to `LoadPrivate`, which compares the
private file with the public key *already cached*. `Issue` signs a pair of tokens with the
cached private key, `decode_token` compares key, expiry and type. A signature and the kid
header stand for the key itself; PEM, 3072 bits and file modes are left out. That an
access token lives no longer than a refresh token (`KeyAssumption`) is so with the default
settings; nothing in the code compares the two. `removals`
numbers the successive public files, and `readAt` and `signedAt` remember which of them a
service or the issuer of a token had read: `TrustFollowsFiles` states with them what
README.md:123-124 asks of an installation ("Changing keys requires restarting all resource
services and signing in again"). `KeepsKeys` is the docstring of the script ("without
overwriting either key") with the comment of line 18 ("O_EXCL also prevents a concurrent
invocation from replacing a key").

### InferenceStream
One request, since requests share nothing. A text is a sequence of characters: letters, and
those that mean something to the framing, each a character of its own: a line end (`LF`, which
stands for CR too, as an SSE client ends a line at either), the field name `data: `, and the
two marks `[DONE]` and `[ERROR] ...`. The provider may write any of them: its text is framed
by the same `Frame` as the service's marks, so a chunk `[DONE]` is on the wire what the end
signal is. `wire` is the body as sent. An SSE client
reads a character when its line begins with the data field (`OnDataLine`, `Carried`), and a
mark when it is alone on such a line (`MarkLines`). `EndsWithOneMark` says what the code does
keep: the last thing read is a mark, it is the only one as long as the provider wrote none, and
a 200 without any mark has an empty body and means a prompt over the limit.
That a text has arrived is a placement of its characters in the body, all that are read and
in their order, up to one mark of the service at the end (`Places`, `Endings`), so that no
induction over the text is needed to speak of it. The two
places where a `Message` is built in the handler (system prompt, rendered template) and
may exceed 32,000 characters answer 500, not 422.

## 3. Runs

| Run | Bounds | Shows |
|---|---|---|
| `AuthCommitFirst` | 4 requests, 1 e-mail, life 1, clock 2, 1 fault | `NoSilentSignOut` and the other session invariants, `RefusalsJustified`, refinement of `RefreshLedger` |
| `AuthResponseFirst` | 3 requests, 1 fault, fair | `SessionsSound` (types and the inductive invariant), `WaitsForNoWaiter` and `EveryRequestEnds` when the commit comes last |
| `AuthLogoutFinal` | 2 requests | *violated*: see findings |
| `ChunkerCalls` | all texts up to 7 characters, with size 3, overlap 2, look-back 5 and with size 4, overlap 1, look-back 2 | under the first setting both guards act, under the second `EachChunkAddsText` applies; `NoGap`, `ChunkBounds`, `SolidTextReturned`, `Terminates` |
| `DocsCommitFirst` | 3 requests, 2 users, pool 2, 1 fault | `VisibleComplete`, `OwnersOnly`, `ConnectionsReturned`, `AnswerMatchesCommit`, `UploadsAreListed`, refinement of `DocumentShelf` |
| `DocsResponseFirst` | 2 requests, pool 1, 1 fault, fair | `StoreSound` (types and the inductive invariant) and `EveryRequestEnds` when the commit comes last |
| `DocsFailedUpload` | 2 requests | *violated*: see findings |
| `AgentRuns` | 2 queries of 2 users, 3 calls, limits 2 and 2, run deadline 3, life 1, for each user a token the query refuses | `OwnDocumentsOnly`, `AnswerComplete`, `ToolCallsLimited`, refinement of `AgentDesk` by overlapping runs |
| `AgentDeadlines` | 1 query with one call beside a call of another client, lives 1 and 2, gateway timeout 2, MCP client 3, run 4, fair | `ReadsAuthorized`, `EveryCallEnds`, `EveryQueryEnds` |
| `InferenceStreams` | chunks of at most 2 characters, at most 2 of them | `PromptLimitHeld`, `EndsWithOneMark`, `TextArrives` |
| `InferenceLineFeeds` | the same | *violated*: see findings |
| `KeyMaterialRuns` | 3 invocations, the gateway and a resource service, 1 login, lives 1 and 2, 2 removals of the public file | `PairMatches`, `KeepsKeys`, `TrustFollowsFiles` |

The refinements of `RefreshLedger` and `DocumentShelf` are checked with the commit first;
with the response first they rest on their theorems, which do not assume an order. That of
`AgentDesk` is checked for two queries that overlap, with tokens that expire or lack a scope,
so that queries are refused too. The types of `Chunker` and `InferenceStream`
are theorems only.

**Why the bounds are enough.** Four account requests are a login, two rotations of its
token and a logout (or a registration, a login and a race of two), which is every pair of
conflicting operations with the steps that set it up; the proofs then remove the bound.
One fault per behaviour meets every step. Life 1 and clock 2 let a token expire before,
during and after the wait for its row. Three document requests are an upload with two
readers or deleters; a pool of one or two is exhausted by an upload or two. Seven characters
are more than two windows of the boundary search. Two runs and three calls let calls of
different users be under way together, and a response with two calls reach the limit of two;
users, each with the tokens, are interchangeable there, as are queries and calls.
Lives 1 and 2 with a gateway timeout of 2 let a token expire before the gateway's check, before
the service's, between that and the read, and after it, as long before a successful answer as
`ReadsAuthorized` admits.
A chunk of two characters can hold a mark, a field name or a line end beside another
character, and two chunks a mark that is followed by more.
Two removals leave room for three successive public files, one for each invocation,
before, between and after the two reads of a starting gateway; two of the invocations can
race while the third is still to come; one pair of tokens can be held against every key a
service may have cached since. The deadlines keep the order of the real ones (gateway < MCP client < run).

**Deadlock** checking is off where each request is served once, since the model then
really stops; that nothing stops *early* is what `EveryRequestEnds`, `EveryCallEnds`
and `EveryQueryEnds` say. `Chunker` and `KeyMaterial` check it.

**Fairness.** `WF` of a request's own steps: the event loop schedules every ready
coroutine, PostgreSQL wakes a waiter when the row is released (the step of a waiter is
disabled until then), the OpenAI client and the pool have timeouts. Clients, faults and
`Deactivate` are not fair. In `AgentQuery` only what this code controls is fair, its
handlers, its timers and the clock: the provider and the document service may never
answer, and the runs still end. The weak fairness of `RunStep` includes `TimerFires`,
which stays enabled once due because the clock waits for it.

### Findings

* **A logout that is answered can leave the token usable** (`AuthLogoutFinal`). With the
  response before the commit, a client may log out with a token whose row is not there yet:
  logout finds nothing and says ok, then the login commits. README.md:75-76 says
  logout invalidates the supplied token. With the commit first the property holds
  (`AuthCommitFirst`).
* **The status `failed` is never recorded when embedding fails** (`DocsFailedUpload`).
  The handler sets it and raises again; `get_db` rolls it back. Only a text without
  content leaves a `failed` document.
* **A line feed in a streamed chunk breaks the event** (`InferenceLineFeeds`): the rest
  of the chunk is on a line without `data:`, which an SSE client ignores.

Met while modelling, without a run of its own:

* The provider can write the end signal. inference.py:80 makes `data: [DONE]` the end signal;
  a chunk whose text is `[DONE]` is framed to the same bytes (llm_service.py:113 and 116)
  while the stream goes on, and a client that stops there takes a part for the whole. The
  model has these chunks; `EndsWithOneMark` is what remains true.
* An over-long prompt on a streaming endpoint gets a 200 and a connection closed without a
  byte of body. `stream()` validates when its generator first runs, after the status is out
  and before its own `try`; the `except AppException` around its creation
  (inference.py:91-92) cannot catch that. `EndsWithOneMark` says that no other request ends
  so: a client may take a 200 without a mark for a refused prompt.
* The example in the docstring of `chunk_text` (chunker.py:19) is not what the code computes
  with those settings, which is the slices 0-20 and 15-25 of the text.

## 4. Proofs

`AuthSessionsProofs` proves, for any finite or infinite set of requests and e-mails,
any life, clock and fault bound and both commit orders, from `ConstantsAssumption` only:

* `TypeCorrect`: `Spec => []TypeOK`.
* `SessionsCorrect`: `SessionsSound`, which is `TypeOK` and `SessionInv`, the inductive
  invariant, and is checked by TLC in `AuthResponseFirst`. `StageInv` ties the program
  counter to the operation. `LockInv` says that a locked row exists and its holder is an
  uncommitted refresh or logout of it; `HoldInv` is the converse for refreshes: from the
  select to the commit the row stays locked, which is what makes "at most one successor"
  inductive. `CommitInv` separates requests that committed from those that may still roll
  back, in both orders. `RowInv` says that rows belong to committed logins and rotations,
  that a rotated token has none, and that a session signed out had been signed in. `RootInv`
  makes every row descend from one committed login. The last three conjuncts are the
  properties themselves.
* `RotatedOnce`, `NeverForks`, `NeverLost`: `SingleSuccessor`, `OneLivePerSession`,
  `NoSilentSignOut`. The last is an equivalence: a session has no row exactly when a logout
  deleted it. That a signed-out session stays so rests on `HoldInv`: a refresh that commits
  deletes a row of its own session, so there was one.
* `ImplementsLedger`: `Spec => KeepsLedger`. A commit maps to `SignIn`, `Rotate` or
  `SignOut` (or a stutter), every other step to a stutter. `MoveStep`, `QuietStep`,
  `RefuseStep` and `CommitStep` are the four shapes of step the proof reduces actions to.

`AuthAnswersProofs` adds more inductive invariants on top of `SessionInv`:

* `RegisteredOnce` (both commit orders). `EmailInv`: whoever holds an e-mail is an
  uncommitted registration of it past its `INSERT`, the account is not there yet, and
  conversely every such registration holds its e-mail.
* `NoLockCycle` (both orders): `WaitsForNoWaiter`. By `LockInv` and `EmailInv` whoever holds
  a row or an e-mail is past its own select or `INSERT` and has yet to commit, and no
  handler has a second statement that waits. This is why the fairness of single steps is
  enough for `EveryRequestEnds`.
* `NeverRotatedLate` (both orders). `LateInv`: a granted row was compared with the clock
  before the handler went on, and `RotatedIssued`: a token that is held was issued, so no
  later `_create_token_pair` changes its expiry.
* `AnswersTrue`, `LogoutSticks`, `RefusalsTrue`, under the assumption `~ResponseFirst`;
  without it `AuthLogoutFinal` refutes the second. `AnswersInv`: a client only holds
  issued tokens, an issued token without a row was consumed, a logout past its select
  holds the row it found, and an account that logged in exists. `LogoutFinal` follows
  because the holder of a row is uncommitted while an answered request is committed.

`DocumentStoreProofs` proves, for any requests, users, payload sizes, pool and fault bound
and both commit orders, `StoreTypeCorrect`, `DocumentsWhole`, `DocumentsPrivate`,
`PoolRefilled`, `PoolNeverOverdrawn` and `ImplementsShelf`. `StoreCorrect` is `StoreSound`,
the types with the inductive invariant `StoreInv` they rest on: `SessionInv` says that an
upload that reaches its commit has stored all its chunks or none (`ready` or `failed`);
`TableInv` that only uploads that are over have a document or have had one, and that a
removed document is gone; `SeenInv` that a delete at its commit has read its document, which
with `OwnersOnly` makes it the owner's. In the refinement a commit maps to `Add` or `Remove`
(or a stutter when a second delete finds nothing left), everything else to a stutter.
`PoolNeverOverdrawn` counts: no more connections are out than the pool has, and with
`ConnectionsReturned`, whoever waits for one holds none.

`AnswersTruthful` and `OwnWritesRead` state `AnswerMatchesCommit` and `UploadsAreListed`
under the assumption `~ResponseFirst`. The invariant behind them is `AnswerInv`: an answered
request is over, what was read belongs to a transaction that is over, and what is about to
be said or has been said holds in the tables. No later commit undoes it, because the
document of a transaction still under way has been read by nobody, so a delete that was
answered never meets an upload of its document that commits after it.

`ChunkerProofs` proves `ChunkTypes`, `ChunksCoverText`, `ChunksBounded` and `ChunksAddText`
for every text, chunk size, overlap and look-back, from `ChunkerAssumption`;
`BoundaryInWindow` is the lemma about `_find_boundary` they rest on, `LoopInv` the loop
invariant. `NoTextLost` is `SolidTextReturned`: `Covered` says that whatever lies before
`start`, and before the end of the last chunk, is in a chunk, and `LeastAndGreatest` that a
chunk with a character that is no white space has a first and a last one, between which
`strip()` leaves everything; it is proved by well-founded induction on the finite set of
such positions. `LoopAdvances` is the safety half of `Terminates`: each pass returns or
moves `start` ahead, and never past the text.

`AgentQueryProofs` proves, for any queries, calls, users, tokens, timeouts and limits, from
`AgentAssumption` and `McpGateway`'s assumption, `AgentTypes`, `RunsKeptApart`,
`AnswersComplete`, `ToolLimitKept`, `ReadsAreAuthorized` and `ImplementsDesk`. Its inductive
invariant joins three parts. `CallInv` is about one call: `CallOK`, it has found documents of
its own token's user only, and has an outcome exactly when it is done; `ScopeOK`, it is past
the gateway only with the scope of the transport, and past the service's check only with that
of the tool; `FreshOK`, from that check to the answer `life + waited >= 1`, which a tick keeps,
since it takes one from the first and adds one to the second. With `waited` at most
`DownstreamTimeout` this bounds how long a token may have been expired when its call succeeds,
which is what `ReadsAreAuthorized` adds to the scopes. `RunCalls`: the calls of a run carry
the credential of that run, the calls awaited are its own. `RunResults`: a run that thinks on,
or has answered, has only calls that succeeded. The last two need each other: a call that fails in the batch ends the run,
and a call outside the batch no longer changes its outcome. For the refinement, `Served`
adds that a run goes on only with the scopes a query needs, and is answered exactly when
over; an `Admit` that refuses maps to `Refuse`, any other end to `Reply`, results that reach
the model to `Show` or, when it has been shown documents before, to a stutter.

`KeyMaterialProofs` proves, for any invocations, services, logins, lives and number of
removals, from `KeyAssumption`, `KeyTypes`, `NothingOverwritten`, `PairsMatch` and
`TrustIsSharedFile`. `Orderly` is what holds while no file is removed under a running
script: whoever is past the exclusive open of the private file owns it, and the public file
is not there yet. `MadeOnce`: the invocation whose key a public file holds has made it and
never makes another. `Paired`: the gateway that serves signs with the key it verifies.
`ServiceKeys` and `TokenKeys`: two keys in use are the same exactly when they come from
the same public file, because each invocation makes at most one. `TrustFollowsFiles` is
then a comparison of file numbers.

`InferenceStreamProofs` proves, for any alphabet and any number and length of chunks, which may
hold marks, field names and line ends in any order, `StreamTypes`, `PromptsLimited`,
`StreamsEndWithOneMark` and `LettersArrive`; `Asking` says that no request goes past `Validate`
with a prompt over the limit. The last two need `ReadInv`: the body consists of whole lines
(`WholeLines`), has no mark before the stream is over but those of the provider, and is empty until the
provider was asked (`Unmarked`),
and has carried what was said so far. What one more event does to the client are lemmas about
sequences alone: `EventRead`, `MarkRead` and `ChunkRead` say which positions of the longer body
are on data lines and which are mark lines, `ChunkArrives` extends the placement of the text
by that of the chunk. An event only adds lines at the end, so what was read stays read.

Only model-checked: liveness (`EveryRequestEnds` of both services, `EveryCallEnds`,
`EveryQueryEnds`, `Terminates`), since TLAPS reaches neither fairness nor `ENABLED`. Every
safety property of a passing run is also a theorem.

## 5. Not modelled

* **The worker service.** Its tasks log and return values computed from their arguments, and
  `update_document_status` writes a log line (db_service.py:1-5 says so); no service sends it
  a task. Late acknowledgement and redelivery (celery_app.py:33-34) are behaviour of
  Celery, and a task that runs twice changes nothing the code has. A model would
  be one of Celery and of the comments that say what production code might do.
* **nginx, compose and CI** are configuration of other programs. What the services rely on
  in `init.sql` (the unique index, the cascades) is in the models.
* **The smoke test and the tests** are clients of the system and part of no behaviour.
* **Logging, response envelopes, settings** hold no state and decide nothing.
* **Password hashing, JWK encoding, PEM** and the claims beside key, type, expiry and scope
  are data: a password is right or wrong, a token good or not.
* **Growth of `refresh_tokens`.** Rows of expired tokens stay for ever; that is no state a
  bounded model tells apart, and no code promises otherwise.
* **A lost answer to a refresh** ends the session for the client by design: the token it
  holds is consumed. The models contain the case (`ResponseLost`), no property forbids it.
* Reads without effect (`/me`, `GET /templates`, the health checks other than the document
  service's).

## 6. Order of the work and what is left

The models were written, checked and proved about in this order: `AuthSessions` with
`RefreshLedger`; `Chunker`; `DocumentStore` with `DocumentShelf`; `McpGateway`, `AgentQuery`
and `InferenceStream`; the answers of the api-gateway; `KeyMaterial`; the agent's proofs; the
answers of the document service; streams and returned text for any length; waits, the pool and
`AgentDesk`.

Left to do:

* `LoopAdvances` and `WaitsForNoWaiter` are the safety halves of `Terminates` and
  `EveryRequestEnds`; what is missing is induction over fair steps, which stays with TLC;
* an abstract specification of `KeyMaterial`, a key ring whose pairs are made and replaced in
  one step, with a refinement for undisturbed installations;
* a model of the worker, once its tasks do what their comments describe.
