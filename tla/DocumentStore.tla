---------------------------- MODULE DocumentStore ----------------------------
(***************************************************************************)
(* The document service: upload, list, get, delete, search and health over  *)
(* PostgreSQL, with its connection pool and the embeddings provider         *)
(* (document-service/app/services/document_service.py, vector_store.py,     *)
(* app/database.py).                                                        *)
(*                                                                          *)
(* Every HTTP request is an element of Requests and is served once; a       *)
(* document is named by the request that uploads it.  A request holds a     *)
(* pool connection from its first SQL statement to its commit or rollback.  *)
(* The chunker is module Chunker; here a text is its number of chunks.      *)
(***************************************************************************)
EXTENDS Integers, FiniteSets

CONSTANTS
    Requests,       \* the HTTP requests clients send
    Users,          \* the owners, as the sub claim of a verified token
    None,           \* no answer, no argument
    ChunkCounts,    \* how many chunks chunk_text may make of a text
    PoolSize,       \* pool_size + max_overflow
    MaxFaults,      \* bound of the model on crashes and database errors
    ResponseFirst   \* FastAPI runs get_db's exit after sending the response

Ops      == {"upload", "list", "get", "delete", "search", "health"}
Answers  == {"created", "ok", "missing", "invalid", "error", "degraded", "lost"}
Statuses == {"pending", "processing", "ready", "failed"}

\* What a client uploads: more than 10 MB, no text at all, or so many chunks.
Payloads == [kind : {"big", "blank"}, chunks : {0}]
              \cup [kind : {"text"}, chunks : ChunkCounts]

ASSUME StoreAssumption ==
    /\ None \notin Requests \cup Users \cup Ops \cup Answers \cup Statuses \cup Payloads
    /\ Requests \cap Payloads = {}
    /\ ChunkCounts \subseteq Nat \ {0}
    /\ PoolSize \in Nat \ {0} /\ MaxFaults \in Nat
    /\ ResponseFirst \in BOOLEAN

VARIABLES
    docs,       \* documents table: document -> committed status or "none"
    chunkRows,  \* document_chunks table: document -> committed chunks
    conns,      \* the requests that hold a pool connection
    op,         \* what each request asks for
    user,       \* who asks
    arg,        \* the payload of an upload, the document of a get or delete
    pc,         \* where its handler stands
    answer,     \* what its client was told
    status,     \* document.status in the session of an upload
    stored,     \* chunk rows an upload has flushed
    seen,       \* the documents a list, get or search returned
    removed,    \* history: documents a committed delete took away
    faults

tables  == <<docs, chunkRows>>
asked   == <<op, user, arg>>
session == <<status, stored>>
vars    == <<tables, conns, asked, pc, answer, session, seen, removed, faults>>

Stages == {"idle", "validate", "insert", "extract", "embed", "store", "query",
           "select", "commit", "respond", "done"}

\* Stages in which a request has a connection checked out.
Connected == {"extract", "embed", "store", "commit"}

Uploads == {d \in Requests : op[d] = "upload"}
Owned(d, u) == docs[d] # "none" /\ user[d] = u

-----------------------------------------------------------------------------
AfterHandler  == IF ResponseFirst THEN "respond" ELSE "commit"
AfterCommit   == IF ResponseFirst THEN "done" ELSE "respond"
AfterResponse == IF ResponseFirst THEN "commit" ELSE "done"

Goto(r, stage) == pc' = [pc EXCEPT ![r] = stage]
Tell(r, what)  == answer' = [answer EXCEPT ![r] = what]

\* The first statement of a session takes a connection from the pool.
Connect(r) ==
    /\ Cardinality(conns) < PoolSize
    /\ conns' = conns \cup {r}

\* Variant: the session is not closed when the handler raises.
RefuseLeaking(r, what) ==
    /\ Tell(r, what)
    /\ Goto(r, "done")
    /\ UNCHANGED <<tables, conns, asked, seen, removed, faults>>

\* An exception in the handler: rollback, the connection goes back.
Refuse(r, what) ==
    /\ conns' = conns \ {r}
    /\ Tell(r, what)
    /\ Goto(r, "done")
    /\ UNCHANGED <<tables, asked, seen, removed, faults>>

\* Variant: the DELETE of the chunks is left out.
ApplyNoCascade(r) ==
    LET dead == {d \in Requests : op[r] = "delete" /\ d = arg[r] /\ docs[d] # "none"}
    IN  /\ docs' = [d \in Requests |->
                      IF d = r /\ op[r] = "upload" THEN status[r]
                      ELSE IF d \in dead THEN "none" ELSE docs[d]]
        /\ chunkRows' = [d \in Requests |->
                      IF d = r /\ op[r] = "upload" THEN stored[r] ELSE chunkRows[d]]
        /\ removed' = removed \cup dead
        /\ conns' = conns \ {r}

\* What the transaction of r leaves behind: an upload its document and chunks,
\* a delete nothing of the document, unless another delete was there first.
Apply(r) ==
    LET dead == {d \in Requests : op[r] = "delete" /\ d = arg[r] /\ docs[d] # "none"}
    IN  /\ docs' = [d \in Requests |->
                      IF d = r /\ op[r] = "upload" THEN status[r]
                      ELSE IF d \in dead THEN "none" ELSE docs[d]]
        /\ chunkRows' = [d \in Requests |->
                      IF d = r /\ op[r] = "upload" THEN stored[r]
                      ELSE IF d \in dead THEN 0 ELSE chunkRows[d]]
        /\ removed' = removed \cup dead
        /\ conns' = conns \ {r}

Commit(r) ==
    /\ pc[r] = "commit"
    /\ Apply(r)
    /\ Goto(r, AfterCommit)
    /\ UNCHANGED <<asked, answer, session, seen, faults>>

Respond(r) ==
    /\ pc[r] = "respond"
    /\ Tell(r, IF op[r] = "upload" THEN "created" ELSE "ok")
    /\ Goto(r, AfterResponse)
    /\ UNCHANGED <<tables, conns, asked, session, seen, removed, faults>>

-----------------------------------------------------------------------------
(* A client with a verified token sends a request. *)

Ask(r, o, u, a, stage) ==
    /\ pc[r] = "idle"
    /\ op' = [op EXCEPT ![r] = o]
    /\ user' = [user EXCEPT ![r] = u]
    /\ arg' = [arg EXCEPT ![r] = a]
    /\ Goto(r, stage)
    /\ UNCHANGED <<tables, conns, answer, session, seen, removed, faults>>

Start(r, u) ==
    \/ \E p \in Payloads : Ask(r, "upload", u, p, "validate")
    \/ \E o \in {"get", "delete"}, d \in Uploads : Ask(r, o, u, d, "select")
    \/ \E o \in {"list", "health"} : Ask(r, o, u, None, "select")
    \/ \E d \in Uploads \cup {None} : Ask(r, "search", u, d, "query")

-----------------------------------------------------------------------------
(* POST /upload *)

UploadValidate(r) ==
    /\ pc[r] = "validate"
    /\ IF arg[r].kind = "big"
         THEN Refuse(r, "invalid") /\ UNCHANGED session
         ELSE /\ Goto(r, "insert")
              /\ UNCHANGED <<tables, conns, asked, answer, session, seen, removed, faults>>

\* flush() of the pending row: the connection is held from here on.
UploadInsert(r) ==
    /\ pc[r] = "insert"
    /\ Connect(r)
    /\ status' = [status EXCEPT ![r] = "pending"]
    /\ Goto(r, "extract")
    /\ UNCHANGED <<tables, asked, answer, stored, seen, removed, faults>>

\* extract_text_from_bytes and chunk_text.
UploadExtract(r) ==
    /\ pc[r] = "extract"
    /\ IF arg[r].kind = "blank"
         THEN status' = [status EXCEPT ![r] = "failed"] /\ Goto(r, AfterHandler)
         ELSE status' = [status EXCEPT ![r] = "processing"] /\ Goto(r, "embed")
    /\ UNCHANGED <<tables, conns, asked, answer, stored, seen, removed, faults>>

\* _generate_embeddings: one call for all chunks, the transaction open.
EmbeddingsReturned(r) ==
    /\ pc[r] = "embed"
    /\ Goto(r, "store")
    /\ UNCHANGED <<tables, conns, asked, answer, session, seen, removed, faults>>

\* The provider fails or returns another number of vectors: the status is set
\* to failed and the exception raised again.
EmbeddingsFailed(r) ==
    /\ pc[r] = "embed"
    /\ status' = [status EXCEPT ![r] = "failed"]
    /\ UNCHANGED stored
    /\ Refuse(r, "error")

\* Variant: the chunks are stored and the status is left at processing.
StoreChunksOnly(r) ==
    /\ pc[r] = "store"
    /\ stored' = [stored EXCEPT ![r] = arg[r].chunks]
    /\ Goto(r, AfterHandler)
    /\ UNCHANGED <<tables, conns, asked, answer, status, seen, removed, faults>>

\* Variant: the chunks are stored through a second session.
StoreChunksElsewhere(r) ==
    /\ pc[r] = "store"
    /\ Cardinality(conns) < PoolSize
    /\ stored' = [stored EXCEPT ![r] = arg[r].chunks]
    /\ status' = [status EXCEPT ![r] = "ready"]
    /\ Goto(r, AfterHandler)
    /\ UNCHANGED <<tables, conns, asked, answer, seen, removed, faults>>

StoreChunks(r) ==
    /\ pc[r] = "store"
    /\ stored' = [stored EXCEPT ![r] = arg[r].chunks]
    /\ status' = [status EXCEPT ![r] = "ready"]
    /\ Goto(r, AfterHandler)
    /\ UNCHANGED <<tables, conns, asked, answer, seen, removed, faults>>

-----------------------------------------------------------------------------
(* GET /, GET /{id}, DELETE /{id}, POST /search, GET /health *)

\* Variant: every read joins the chunks, as search does.
MatchesWithChunks(r) ==
    {d \in Requests : Owned(d, user[r]) /\ arg[r] \in {d, None} /\ chunkRows[d] > 0}

\* Variant: the rows of every owner match.
MatchesAnyOwner(r) == {d \in Requests : docs[d] # "none" /\ arg[r] \in {d, None}}

\* The rows a SELECT of r returns: the owner's, of one document or of all;
\* a search joins the chunks, so documents without any do not appear.
Matches(r) ==
    {d \in Requests :
        /\ Owned(d, user[r])
        /\ arg[r] \in {d, None}
        /\ op[r] = "search" => chunkRows[d] > 0}

\* search() embeds the query before its session touches the pool.
QueryEmbedded(r) ==
    /\ pc[r] = "query"
    /\ Goto(r, "select")
    /\ UNCHANGED <<tables, conns, asked, answer, session, seen, removed, faults>>

QueryFailed(r) ==
    /\ pc[r] = "query"
    /\ Refuse(r, "error")
    /\ UNCHANGED session

Select(r) ==
    /\ pc[r] = "select"
    /\ op[r] \in {"get", "delete"} => Matches(r) # {}
    /\ Connect(r)
    /\ seen' = [seen EXCEPT ![r] = IF op[r] = "health" THEN {} ELSE Matches(r)]
    /\ Goto(r, AfterHandler)
    /\ UNCHANGED <<tables, asked, answer, session, removed, faults>>

SelectMissing(r) ==
    /\ pc[r] = "select"
    /\ op[r] \in {"get", "delete"} /\ Matches(r) = {}
    /\ Cardinality(conns) < PoolSize
    /\ Refuse(r, "missing")
    /\ UNCHANGED session

\* QueuePool: no connection for 30 seconds.  The health check reports it as
\* the database being unavailable, every other request fails.
PoolTimeout(r) ==
    /\ pc[r] \in {"insert", "select"}
    /\ Cardinality(conns) >= PoolSize
    /\ Refuse(r, IF op[r] = "health" THEN "degraded" ELSE "error")
    /\ UNCHANGED session

-----------------------------------------------------------------------------
(* Failures, each counted against MaxFaults. *)

Fault == faults < MaxFaults /\ faults' = faults + 1

\* Variant: get_db swallows the exception.
DatabaseFailsSwallowed(r) ==
    /\ pc[r] = "commit" /\ Fault
    /\ conns' = conns \ {r}
    /\ Goto(r, AfterCommit)
    /\ UNCHANGED <<tables, asked, answer, session, seen, removed>>

\* A statement or the COMMIT fails: rolled back, perhaps too late to tell.  The
\* health check catches the failure of its own statement.
DatabaseFails(r) ==
    /\ pc[r] \in {"insert", "select", "store", "commit"} /\ Fault
    /\ conns' = conns \ {r}
    /\ Goto(r, "done")
    /\ answer' = [answer EXCEPT ![r] =
                    IF @ # None THEN @
                    ELSE IF op[r] = "health" /\ pc[r] = "select" THEN "degraded"
                    ELSE "error"]
    /\ status' = [status EXCEPT ![r] = IF pc[r] = "store" THEN "failed" ELSE @]
    /\ UNCHANGED <<tables, asked, stored, seen, removed>>

ResponseLost(r) ==
    /\ pc[r] = "respond" /\ Fault
    /\ Tell(r, "lost")
    /\ Goto(r, AfterResponse)
    /\ UNCHANGED <<tables, conns, asked, session, seen, removed>>

InFlight == {r \in Requests : pc[r] \notin {"idle", "done"}}

\* The service dies: its connections close and the database rolls back.
Crash ==
    /\ InFlight # {} /\ Fault
    /\ conns' = {}
    /\ pc' = [r \in Requests |-> IF r \in InFlight THEN "done" ELSE pc[r]]
    /\ answer' = [r \in Requests |->
                    IF r \in InFlight /\ answer[r] = None THEN "lost" ELSE answer[r]]
    /\ UNCHANGED <<tables, asked, session, seen, removed>>

-----------------------------------------------------------------------------
Init ==
    /\ docs = [d \in Requests |-> "none"]
    /\ chunkRows = [d \in Requests |-> 0]
    /\ conns = {}
    /\ op = [r \in Requests |-> None]
    /\ user = [r \in Requests |-> None]
    /\ arg = [r \in Requests |-> None]
    /\ pc = [r \in Requests |-> "idle"]
    /\ answer = [r \in Requests |-> None]
    /\ status = [r \in Requests |-> None]
    /\ stored = [r \in Requests |-> 0]
    /\ seen = [r \in Requests |-> {}]
    /\ removed = {}
    /\ faults = 0

Step(r) ==
    \/ UploadValidate(r) \/ UploadInsert(r) \/ UploadExtract(r) \/ StoreChunks(r)
    \/ EmbeddingsReturned(r) \/ EmbeddingsFailed(r)
    \/ QueryEmbedded(r) \/ QueryFailed(r)
    \/ Select(r) \/ SelectMissing(r) \/ PoolTimeout(r)
    \/ Commit(r) \/ Respond(r)

Next ==
    \/ \E r \in Requests : (\E u \in Users : Start(r, u)) \/ Step(r)
                           \/ DatabaseFails(r) \/ ResponseLost(r)
    \/ Crash

Spec == Init /\ [][Next]_vars

\* Handlers run on, the OpenAI client gives up after its own timeout, and the
\* pool either serves a waiter or times it out.
FairSpec == Spec /\ \A r \in Requests : WF_vars(Step(r))

-----------------------------------------------------------------------------
(* Properties *)

TypeOK ==
    /\ docs \in [Requests -> Statuses \cup {"none"}]
    /\ chunkRows \in [Requests -> Nat]
    /\ conns \subseteq Requests
    /\ op \in [Requests -> Ops \cup {None}]
    /\ user \in [Requests -> Users \cup {None}]
    /\ arg \in [Requests -> Payloads \cup Requests \cup {None}]
    /\ pc \in [Requests -> Stages]
    /\ answer \in [Requests -> Answers \cup {None}]
    /\ status \in [Requests -> Statuses \cup {None}]
    /\ stored \in [Requests -> Nat]
    /\ seen \in [Requests -> SUBSET Requests]
    /\ removed \subseteq Requests
    /\ faults \in 0..MaxFaults

\* A document other requests can see is final: ready with every chunk of its
\* text, or failed without any, and no chunk outlives its document.  An upload
\* interrupted anywhere leaves nothing.
VisibleComplete ==
    \A d \in Requests :
        /\ docs[d] \in {"none", "ready", "failed"}
        /\ chunkRows[d] = IF docs[d] = "ready" THEN arg[d].chunks ELSE 0

\* The tables only change as DocumentShelf allows: a document appears whole and
\* disappears whole, for good, also when two deletes race.
Shelf == INSTANCE DocumentShelf
            WITH Documents <- Requests, status <- docs, chunks <- chunkRows,
                 gone <- removed

KeepsShelf == Shelf!Spec

\* Users never read or delete each other's documents, whatever id they name.
OwnersOnly ==
    /\ \A r \in Requests : \A d \in seen[r] : user[d] = user[r]
    /\ \A d \in removed : \E r \in Requests :
          op[r] = "delete" /\ arg[r] = d /\ user[r] = user[d]

\* The pool gets its connections back on every path, and neither a search that
\* embeds its query nor a request that is over holds one.
ConnectionsReturned ==
    \A r \in conns : pc[r] \in Connected \/ (pc[r] = "respond" /\ ResponseFirst)

\* The answer tells the truth about the database: a 201 document is there until
\* its owner deletes it, a 200 delete has removed it.
AnswerMatchesCommit ==
    \A r \in Requests :
        /\ answer[r] = "created" => docs[r] # "none" \/ r \in removed
        /\ answer[r] = "ok" /\ op[r] = "delete" => docs[arg[r]] = "none"

\* A list or get that reads after an upload was answered 201 finds the
\* document, unless a delete of it is under way or done.
UploadsAreListed ==
    [][\A r, d \in Requests :
         /\ pc[r] = "select" /\ pc'[r] # "select" /\ answer'[r] \in {None, "missing"}
         /\ op[r] \in {"list", "get"} /\ arg[r] \in {d, None}
         /\ answer[d] = "created" /\ user[d] = user[r] /\ d \notin removed
         => d \in seen'[r]]_vars

\* The upload docstring: "6. Update status to ready (or failed)".
FailedUploadRecorded ==
    \A d \in Requests :
        pc[d] = "done" /\ status[d] = "failed" => docs[d] = "failed" \/ d \in removed

\* The inductive invariant behind the properties above.  A request is undecided
\* until its transaction has committed or rolled back.
Undecided(r) == pc[r] # "done" /\ (pc[r] = "respond" => ResponseFirst)

StageInv ==
    \A r \in Requests :
        /\ pc[r] = "idle" => op[r] = None
        /\ op[r] = "upload" => arg[r] \in Payloads
        /\ op[r] = "delete" => arg[r] \in Requests
        /\ pc[r] \in {"validate", "insert", "extract", "embed", "store"} => op[r] = "upload"
        /\ pc[r] \in {"query", "select"} => op[r] # "upload"
        /\ pc[r] \in {"insert", "extract"} => arg[r].kind # "big"
        /\ pc[r] \in {"embed", "store"} => arg[r].kind = "text"

\* What the session of an upload holds, up to its commit.
SessionInv ==
    \A r \in Requests :
        /\ pc[r] \notin {"commit", "respond", "done"} => stored[r] = 0
        /\ op[r] = "upload" /\ pc[r] \in {"commit", "respond"} =>
              \/ status[r] = "ready" /\ arg[r].kind = "text" /\ stored[r] = arg[r].chunks
              \/ status[r] = "failed" /\ stored[r] = 0

\* Only what an ended upload wrote is in the tables or was removed from them.
TableInv ==
    \A d \in Requests :
        /\ docs[d] # "none" \/ d \in removed => op[d] = "upload" /\ ~Undecided(d)
        /\ d \in removed => docs[d] = "none"

\* A read returned documents that are not about to change hands, and a delete
\* has read the document it deletes.
SeenInv ==
    \A r \in Requests :
        /\ pc[r] = "idle" => seen[r] = {}
        /\ \A d \in seen[r] : pc[d] # "idle"
        /\ op[r] = "delete" /\ pc[r] \in {"commit", "respond"} => arg[r] \in seen[r]

StoreInv ==
    /\ StageInv /\ SessionInv /\ TableInv /\ SeenInv
    /\ VisibleComplete /\ OwnersOnly /\ ConnectionsReturned

\* The types of the state and the invariant of the store, which no step breaks
\* as long as both hold.
StoreSound == TypeOK /\ StoreInv

\* Why answers can be trusted when the commit comes first: what a request is
\* about to say or has said holds in the tables and cannot be undone by a
\* transaction still under way.
AnswerInv ==
    \A r \in Requests :
        /\ answer[r] # None => pc[r] = "done"
        /\ \A d \in seen[r] : ~Undecided(d)
        /\ answer[r] = "created" => op[r] = "upload"
        /\ pc[r] = "respond" \/ answer[r] \in {"created", "ok"} =>
              /\ op[r] = "upload" => docs[r] # "none" \/ r \in removed
              /\ op[r] = "delete" => arg[r] \in seen[r] /\ docs[arg[r]] = "none"

\* Every request is answered or dies with the service, however small the pool.
EveryRequestEnds == \A r \in Requests : pc[r] # "idle" ~> pc[r] = "done"

=============================================================================
