------------------------ MODULE DocumentStoreProofs ------------------------
(***************************************************************************)
(* Theorems about DocumentStore, for any number of requests and users, any  *)
(* pool, any number of faults, and FastAPI answering before or after the    *)
(* commit.                                                                  *)
(***************************************************************************)
EXTENDS DocumentStore, FiniteSetTheorems, TLAPS

-----------------------------------------------------------------------------
(* Type correctness.  What an upload commits is what its session holds, so  *)
(* the types of the tables need StageInv and SessionInv to be inductive.    *)

TypeInv == TypeOK /\ StageInv /\ SessionInv

\* A payload is a text of some chunks, or has none.
LEMMA PayloadType ==
  ASSUME NEW p \in Payloads
  PROVE  /\ p.chunks \in Nat
         /\ p.kind = "text" => p.chunks \in ChunkCounts
         /\ p # None /\ p \notin Requests
<1>1. p # None /\ p \notin Requests
  BY StoreAssumption
<1>2. CASE p \in [kind : {"big", "blank"}, chunks : {0}]
  BY <1>1, <1>2
<1>3. CASE p \in [kind : {"text"}, chunks : ChunkCounts]
  BY <1>1, <1>3, StoreAssumption
<1> QED
  BY <1>2, <1>3 DEF Payloads

LEMMA InitTypeInv == Init => TypeInv
  BY StoreAssumption
  DEF Init, TypeInv, TypeOK, StageInv, SessionInv, Stages, Ops

\* Each step of a handler, of get_db and of the environment keeps the types.
LEMMA NextTypeInv == TypeInv /\ [Next]_vars => TypeInv'
<1> SUFFICES ASSUME TypeInv, [Next]_vars PROVE TypeInv'
  OBVIOUS
<1> USE StoreAssumption DEF TypeInv, TypeOK, StageInv, SessionInv, Stages, Answers,
        Ops, Statuses, Goto, Tell, tables, asked, session
<1>1. ASSUME NEW r \in Requests, NEW u \in Users, NEW o \in Ops,
             NEW a \in Payloads \cup Requests \cup {None},
             NEW stage \in {"validate", "query", "select"},
             Ask(r, o, u, a, stage),
             o = "upload" <=> stage = "validate",
             o = "upload" => a \in Payloads, o = "delete" => a \in Requests
      PROVE TypeInv'
  BY <1>1 DEF Ask
<1>2. ASSUME NEW r \in Requests, NEW u \in Users, Start(r, u) PROVE TypeInv'
  <2>1. ASSUME NEW p \in Payloads, Ask(r, "upload", u, p, "validate") PROVE TypeInv'
    BY <2>1, <1>1
  <2>2. ASSUME NEW o \in {"get", "delete"}, NEW d \in Uploads, Ask(r, o, u, d, "select")
        PROVE TypeInv'
    BY <2>2, <1>1 DEF Uploads
  <2>3. ASSUME NEW o \in {"list", "health"}, Ask(r, o, u, None, "select") PROVE TypeInv'
    BY <2>3, <1>1
  <2>4. ASSUME NEW d \in Uploads \cup {None}, Ask(r, "search", u, d, "query") PROVE TypeInv'
    BY <2>4, <1>1 DEF Uploads
  <2> QED
    BY <1>2, <2>1, <2>2, <2>3, <2>4 DEF Start
<1>3. ASSUME NEW r \in Requests, NEW what \in Answers, Refuse(r, what), UNCHANGED session
      PROVE TypeInv'
  BY <1>3 DEF Refuse
<1>4. ASSUME NEW r \in Requests, UploadValidate(r) PROVE TypeInv'
  BY <1>4, <1>3 DEF UploadValidate
<1>5. ASSUME NEW r \in Requests, UploadInsert(r) PROVE TypeInv'
  BY <1>5 DEF UploadInsert, Connect
<1>6. ASSUME NEW r \in Requests, UploadExtract(r) PROVE TypeInv'
  <2>1. arg[r] \in Payloads
    BY <1>6 DEF UploadExtract
  <2>2. arg[r].kind # "blank" => arg[r].kind = "text"
    BY <1>6, <2>1 DEF UploadExtract, Payloads
  <2> QED
    BY <1>6, <2>1, <2>2 DEF UploadExtract, AfterHandler
<1>7. ASSUME NEW r \in Requests, EmbeddingsReturned(r) PROVE TypeInv'
  BY <1>7 DEF EmbeddingsReturned
<1>8. ASSUME NEW r \in Requests, EmbeddingsFailed(r) PROVE TypeInv'
  BY <1>8 DEF EmbeddingsFailed, Refuse
<1>9. ASSUME NEW r \in Requests, StoreChunks(r) PROVE TypeInv'
  <2>1. arg[r] \in Payloads /\ arg[r].kind = "text" /\ arg[r].chunks \in Nat
    BY <1>9, PayloadType DEF StoreChunks
  <2> QED
    BY <1>9, <2>1 DEF StoreChunks, AfterHandler
<1>10. ASSUME NEW r \in Requests, QueryEmbedded(r) PROVE TypeInv'
  BY <1>10 DEF QueryEmbedded
<1>11. ASSUME NEW r \in Requests, QueryFailed(r) \/ SelectMissing(r) \/ PoolTimeout(r)
       PROVE TypeInv'
  BY <1>11, <1>3 DEF QueryFailed, SelectMissing, PoolTimeout
<1>12. ASSUME NEW r \in Requests, Select(r) PROVE TypeInv'
  BY <1>12 DEF Select, Connect, Matches, AfterHandler
<1>13. ASSUME NEW r \in Requests, Commit(r) PROVE TypeInv'
  <2>1. /\ docs' \in [Requests -> Statuses \cup {"none"}]
        /\ chunkRows' \in [Requests -> Nat]
        /\ removed' \subseteq Requests /\ conns' \subseteq Requests
    BY <1>13 DEF Commit, Apply
  <2> QED
    BY <1>13, <2>1, ZenonT(40) DEF Commit, AfterCommit
<1>14. ASSUME NEW r \in Requests, Respond(r) PROVE TypeInv'
  BY <1>14 DEF Respond, AfterResponse
<1>15. ASSUME NEW r \in Requests, DatabaseFails(r) PROVE TypeInv'
  BY <1>15 DEF DatabaseFails, Fault
<1>16. ASSUME NEW r \in Requests, ResponseLost(r) PROVE TypeInv'
  BY <1>16 DEF ResponseLost, AfterResponse, Fault
<1>17. ASSUME Crash PROVE TypeInv'
  BY <1>17 DEF Crash, Fault, InFlight
<1>18. CASE UNCHANGED vars
  BY <1>18 DEF vars
<1> QED
  BY <1>2, <1>4, <1>5, <1>6, <1>7, <1>8, <1>9, <1>10, <1>11, <1>12, <1>13, <1>14,
     <1>15, <1>16, <1>17, <1>18 DEF Next, Step

\* Every reachable state is well typed, and a handler is only ever at a stage of
\* its own operation.
THEOREM StoreTypeCorrect == Spec => []TypeOK
<1>1. Spec => []TypeInv
  BY InitTypeInv, NextTypeInv, PTL DEF Spec
<1> QED
  BY <1>1, PTL DEF TypeInv

-----------------------------------------------------------------------------
(* Documents.  TableInv says that an upload still on its way has left no     *)
(* trace, so its commit adds a document that was not there and never was.   *)

LEMMA InitStoreInv == Init => StoreInv
<1> SUFFICES ASSUME Init PROVE StoreInv
  OBVIOUS
<1>1. StageInv /\ SessionInv
  BY InitTypeInv DEF TypeInv
<1>2. TableInv /\ SeenInv /\ VisibleComplete /\ OwnersOnly /\ ConnectionsReturned
  BY StoreAssumption
  DEF Init, TableInv, SeenInv, VisibleComplete, OwnersOnly, ConnectionsReturned, Ops
<1> QED
  BY <1>1, <1>2 DEF StoreInv

Sound == TableInv /\ SeenInv /\ VisibleComplete /\ OwnersOnly

\* A step that leaves the tables alone and asks nothing new: it may move handlers
\* on, but no handler goes back and none that ended is undecided again.
LEMMA MoveStep ==
  ASSUME TypeInv, Sound, pc' \in [Requests -> Stages],
         UNCHANGED <<docs, chunkRows, removed, op, user, arg, seen>>,
         \A q \in Requests : pc[q] # "idle" => pc'[q] # "idle",
         \A q \in Requests : pc[q] = "idle" => pc'[q] = "idle",
         \A q \in Requests : ~Undecided(q) => ~Undecided(q)',
         \A q \in Requests : op[q] = "delete" /\ pc'[q] \in {"commit", "respond"}
                             => pc[q] \in {"commit", "respond"}
  PROVE  Sound'
<1> USE DEF TypeInv, TypeOK, Sound
<1>1. TableInv'
  BY DEF TableInv
<1>2. SeenInv'
  BY DEF SeenInv
<1>3. VisibleComplete' /\ OwnersOnly'
  BY DEF VisibleComplete, OwnersOnly
<1> QED
  BY <1>1, <1>2, <1>3

\* A SELECT returns documents of its owner that are in the table.
LEMMA SelectStep ==
  ASSUME TypeInv, Sound, NEW r \in Requests, Select(r)
  PROVE  Sound'
<1> USE StoreAssumption DEF TypeInv, TypeOK, Sound
<1>1. /\ UNCHANGED <<docs, chunkRows, removed, op, user, arg>>
      /\ pc[r] = "select" /\ pc' = [pc EXCEPT ![r] = AfterHandler]
      /\ AfterHandler \in {"commit", "respond"} /\ (AfterHandler = "respond" => ResponseFirst)
      /\ seen'[r] \subseteq Matches(r) /\ \A q \in Requests \ {r} : seen'[q] = seen[q]
      /\ op[r] = "delete" => arg[r] \in seen'[r]
  <2>1. op[r] = "delete" => Matches(r) \subseteq {arg[r]} /\ Matches(r) # {}
    BY DEF Select, Matches, StageInv
  <2> QED
    BY <2>1 DEF Select, tables, asked, session, Goto, AfterHandler
<1>2. \A d \in seen'[r] : user[d] = user[r] /\ pc[d] # "idle" /\ docs[d] # "none"
  BY <1>1 DEF Matches, Owned, TableInv, StageInv, Ops
<1>3. TableInv'
  BY <1>1 DEF TableInv, Undecided
<1>4. SeenInv'
  BY <1>1, <1>2 DEF SeenInv
<1>5. VisibleComplete' /\ OwnersOnly'
  BY <1>1, <1>2 DEF VisibleComplete, OwnersOnly
<1> QED
  BY <1>3, <1>4, <1>5

\* A request is asked: it has no document yet, and nobody has seen one.
LEMMA AskStep ==
  ASSUME TypeInv, Sound, NEW r \in Requests, NEW o \in Ops, NEW u \in Users, NEW a,
         NEW stage \in {"validate", "query", "select"}, Ask(r, o, u, a, stage)
  PROVE  Sound'
<1> USE StoreAssumption DEF TypeInv, TypeOK, Sound
<1>1. /\ UNCHANGED <<docs, chunkRows, removed, seen>>
      /\ pc[r] = "idle" /\ op[r] = None /\ pc' = [pc EXCEPT ![r] = stage]
      /\ op' = [op EXCEPT ![r] = o] /\ user' = [user EXCEPT ![r] = u]
      /\ arg' = [arg EXCEPT ![r] = a]
  BY DEF Ask, tables, session, Goto, StageInv
<1>2. docs[r] = "none" /\ r \notin removed /\ seen[r] = {}
      /\ \A q \in Requests : r \notin seen[q]
  BY <1>1 DEF TableInv, SeenInv, Ops
<1>3. TableInv'
  BY <1>1, <1>2 DEF TableInv, Undecided
<1>4. SeenInv'
  BY <1>1, <1>2 DEF SeenInv
<1>5. VisibleComplete'
  BY <1>1, <1>2 DEF VisibleComplete
<1>6. OwnersOnly'
  <2>1. \A q \in Requests : \A d \in seen'[q] : user'[d] = user'[q]
    BY <1>1, <1>2 DEF OwnersOnly
  <2>2. \A d \in removed' : \E q \in Requests :
            op'[q] = "delete" /\ arg'[q] = d /\ user'[q] = user'[d]
    BY <1>1, <1>2 DEF OwnersOnly, Ops
  <2> QED
    BY <2>1, <2>2 DEF OwnersOnly
<1> QED
  BY <1>3, <1>4, <1>5, <1>6

\* The commit: an upload adds what its session holds, a delete takes away the
\* document it has seen if it is still there.
LEMMA CommitStep ==
  ASSUME TypeInv, Sound, NEW r \in Requests, Commit(r)
  PROVE  Sound'
<1> USE StoreAssumption DEF TypeInv, TypeOK, Sound
<1> DEFINE dead == {d \in Requests : op[r] = "delete" /\ d = arg[r] /\ docs[d] # "none"}
<1>1. /\ UNCHANGED <<op, user, arg, seen, status, stored>>
      /\ pc[r] = "commit" /\ pc' = [pc EXCEPT ![r] = AfterCommit]
      /\ docs' = [d \in Requests |->
                      IF d = r /\ op[r] = "upload" THEN status[r]
                      ELSE IF d \in dead THEN "none" ELSE docs[d]]
      /\ chunkRows' = [d \in Requests |->
                      IF d = r /\ op[r] = "upload" THEN stored[r]
                      ELSE IF d \in dead THEN 0 ELSE chunkRows[d]]
      /\ removed' = removed \cup dead
  BY DEF Commit, Apply, asked, session, Goto
<1>2. Undecided(r) /\ ~Undecided(r)'
  BY <1>1 DEF Undecided, AfterCommit
<1>3. docs[r] = "none" /\ r \notin removed
  BY <1>2 DEF TableInv
<1>4. \A q \in Requests : ~Undecided(q) => ~Undecided(q)'
  BY <1>1, <1>2 DEF Undecided
<1>5. TableInv'
  BY <1>1, <1>2, <1>3, <1>4 DEF TableInv
<1>6. SeenInv'
  BY <1>1 DEF SeenInv, AfterCommit
<1>7. VisibleComplete'
  <2>1. CASE op[r] = "upload"
    BY <2>1, <1>1 DEF VisibleComplete, SessionInv
  <2>2. CASE op[r] # "upload"
    BY <2>2, <1>1 DEF VisibleComplete
  <2> QED
    BY <2>1, <2>2
<1>8. OwnersOnly'
  <2>1. \A d \in dead : d = arg[r] /\ op[r] = "delete" /\ user[d] = user[r]
    BY <1>1 DEF SeenInv, OwnersOnly
  <2> QED
    BY <2>1, <1>1 DEF OwnersOnly
<1> QED
  BY <1>5, <1>6, <1>7, <1>8

\* Every step keeps the tables sound, action by action.
LEMMA NextSound == TypeInv /\ Sound /\ [Next]_vars => Sound'
<1> SUFFICES ASSUME TypeInv, Sound, [Next]_vars PROVE Sound'
  OBVIOUS
<1>0. TypeInv' /\ pc' \in [Requests -> Stages]
  BY NextTypeInv DEF TypeInv, TypeOK
<1> USE StoreAssumption, <1>0 DEF tables, asked, session, Goto, Tell
<1>1. ASSUME NEW r \in Requests, NEW u \in Users, Start(r, u) PROVE Sound'
  BY <1>1, AskStep DEF Start, Ops
<1>2. ASSUME NEW r \in Requests, NEW stage \in Stages \ {"idle"},
             UNCHANGED <<docs, chunkRows, removed, op, user, arg, seen>>,
             pc' = [pc EXCEPT ![r] = stage], pc[r] # "idle",
             Undecided(r), stage = "respond" => ResponseFirst \/ pc[r] = "respond",
             op[r] = "delete" /\ stage \in {"commit", "respond"}
                => pc[r] \in {"commit", "respond"}
      PROVE Sound'
  BY <1>2, MoveStep DEF TypeInv, TypeOK, Undecided
<1>3. ASSUME NEW r \in Requests, NEW what, Refuse(r, what), pc[r] \notin {"idle", "done"},
             Undecided(r)
      PROVE Sound'
  BY <1>3, <1>2 DEF Refuse, Stages
<1>4. ASSUME NEW r \in Requests,
             UploadValidate(r) \/ UploadInsert(r) \/ UploadExtract(r) \/ StoreChunks(r)
               \/ EmbeddingsReturned(r) \/ EmbeddingsFailed(r)
      PROVE Sound'
  BY <1>4, <1>2, <1>3
  DEF UploadValidate, UploadInsert, UploadExtract, StoreChunks, EmbeddingsReturned,
      EmbeddingsFailed, AfterHandler, Undecided, Stages, TypeInv, StageInv
<1>5. ASSUME NEW r \in Requests,
             QueryEmbedded(r) \/ QueryFailed(r) \/ SelectMissing(r) \/ PoolTimeout(r)
      PROVE Sound'
  BY <1>5, <1>2, <1>3
  DEF QueryEmbedded, QueryFailed, SelectMissing, PoolTimeout, Undecided, Stages
<1>6. ASSUME NEW r \in Requests, Select(r) PROVE Sound'
  BY <1>6, SelectStep
<1>7. ASSUME NEW r \in Requests, Commit(r) PROVE Sound'
  BY <1>7, CommitStep
<1>8. ASSUME NEW r \in Requests, Respond(r) \/ ResponseLost(r) PROVE Sound'
  BY <1>8, MoveStep
  DEF Respond, ResponseLost, AfterResponse, Undecided, TypeInv, TypeOK, Stages
<1>9. ASSUME NEW r \in Requests, DatabaseFails(r) PROVE Sound'
  BY <1>9, <1>2 DEF DatabaseFails, Undecided, Stages
<1>10. ASSUME Crash PROVE Sound'
  BY <1>10, MoveStep DEF Crash, InFlight, Undecided
<1>11. CASE UNCHANGED vars
  BY <1>11, MoveStep DEF vars, Undecided
<1> QED
  BY <1>1, <1>4, <1>5, <1>6, <1>7, <1>8, <1>9, <1>10, <1>11 DEF Next, Step

-----------------------------------------------------------------------------
(* Connections: every step that leaves a connected stage gives one back.    *)

LEMMA NextConnections ==
  TypeInv /\ ConnectionsReturned /\ [Next]_vars => ConnectionsReturned'
<1> SUFFICES ASSUME TypeInv, ConnectionsReturned, [Next]_vars PROVE ConnectionsReturned'
  OBVIOUS
<1> USE DEF TypeInv, TypeOK, ConnectionsReturned, Connected, Goto, Tell
<1>1. ASSUME NEW r \in Requests, NEW u \in Users, Start(r, u) PROVE ConnectionsReturned'
  BY <1>1 DEF Start, Ask
<1>2. ASSUME NEW r \in Requests, NEW what, Refuse(r, what) PROVE ConnectionsReturned'
  BY <1>2 DEF Refuse
<1>3. ASSUME NEW r \in Requests, UploadValidate(r) \/ EmbeddingsFailed(r) \/ QueryFailed(r)
                                   \/ SelectMissing(r) \/ PoolTimeout(r)
      PROVE ConnectionsReturned'
  BY <1>3, <1>2 DEF UploadValidate, EmbeddingsFailed, QueryFailed, SelectMissing, PoolTimeout
<1>4. ASSUME NEW r \in Requests, UploadInsert(r) \/ Select(r) PROVE ConnectionsReturned'
  BY <1>4, StoreAssumption DEF UploadInsert, Select, Connect, AfterHandler
<1>5. ASSUME NEW r \in Requests, UploadExtract(r) \/ EmbeddingsReturned(r) \/ StoreChunks(r)
                                   \/ QueryEmbedded(r)
      PROVE ConnectionsReturned'
  BY <1>5, StoreAssumption
  DEF UploadExtract, EmbeddingsReturned, StoreChunks, QueryEmbedded, AfterHandler
<1>6. ASSUME NEW r \in Requests, Commit(r) PROVE ConnectionsReturned'
  BY <1>6 DEF Commit, Apply
<1>7. ASSUME NEW r \in Requests, Respond(r) \/ ResponseLost(r) PROVE ConnectionsReturned'
  BY <1>7, StoreAssumption DEF Respond, ResponseLost, AfterResponse
<1>8. ASSUME NEW r \in Requests, DatabaseFails(r) PROVE ConnectionsReturned'
  BY <1>8 DEF DatabaseFails
<1>9. ASSUME Crash PROVE ConnectionsReturned'
  BY <1>9 DEF Crash
<1>10. CASE UNCHANGED vars
  BY <1>10 DEF vars
<1> QED
  BY <1>1, <1>3, <1>4, <1>5, <1>6, <1>7, <1>8, <1>9, <1>10 DEF Next, Step

LEMMA StoreInductive == Spec => [](TypeInv /\ StoreInv)
<1>1. Init => TypeInv /\ StoreInv
  BY InitTypeInv, InitStoreInv
<1>2. TypeInv /\ StoreInv /\ [Next]_vars => (TypeInv /\ StoreInv)'
  BY NextTypeInv, NextSound, NextConnections DEF TypeInv, StoreInv, Sound
<1> QED
  BY <1>1, <1>2, PTL DEF Spec

\* The inductive invariant holds in every reachable state.
THEOREM StoreCorrect == Spec => []StoreSound
<1>1. TypeInv /\ StoreInv => StoreSound
  BY DEF TypeInv, StoreSound
<1> QED
  BY <1>1, StoreInductive, PTL

\* A document others can see is whole, and nothing outlives a removed one,
\* wherever uploads are interrupted and deletes race.
THEOREM DocumentsWhole == Spec => []VisibleComplete
<1>1. StoreSound => VisibleComplete
  BY DEF StoreSound, StoreInv
<1> QED
  BY <1>1, StoreCorrect, PTL

\* Nobody reads or removes another user's document.
THEOREM DocumentsPrivate == Spec => []OwnersOnly
<1>1. StoreSound => OwnersOnly
  BY DEF StoreSound, StoreInv
<1> QED
  BY <1>1, StoreCorrect, PTL

\* No path through a handler keeps its connection.
THEOREM PoolRefilled == Spec => []ConnectionsReturned
<1>1. StoreSound => ConnectionsReturned
  BY DEF StoreSound, StoreInv
<1> QED
  BY <1>1, StoreCorrect, PTL

-----------------------------------------------------------------------------
(* The pool: it is never overdrawn, and nobody waits for a connection with  *)
(* one in hand, so whoever waits waits for requests that can go on.         *)

Drawn == IsFiniteSet(conns) /\ Cardinality(conns) <= PoolSize

PoolSound == Drawn /\ \A r \in conns : pc[r] \notin {"insert", "select"}

\* Connections are given back, or one is taken where the pool has one left.
LEMMA DrawnStep ==
  ASSUME Drawn, conns' \subseteq conns \/ \E r \in Requests : Connect(r)
  PROVE  Drawn'
<1> USE StoreAssumption DEF Drawn
<1>1. CASE conns' \subseteq conns
  <2>1. /\ IsFiniteSet(conns') /\ Cardinality(conns') <= Cardinality(conns)
        /\ Cardinality(conns) \in Nat /\ Cardinality(conns') \in Nat
    BY <1>1, FS_Subset, FS_CardinalityType
  <2> QED
    BY <2>1
<1>2. ASSUME NEW r \in Requests, Connect(r) PROVE Drawn'
  <2>1. /\ IsFiniteSet(conns')
        /\ Cardinality(conns') = IF r \in conns THEN Cardinality(conns)
                                                ELSE Cardinality(conns) + 1
    BY <1>2, FS_AddElement DEF Connect
  <2>2. Cardinality(conns) \in Nat /\ Cardinality(conns) < PoolSize
    BY <1>2, FS_CardinalityType DEF Connect
  <2> QED
    BY <2>1, <2>2
<1> QED
  BY <1>1, <1>2

LEMMA NextDrawn == TypeInv /\ Drawn /\ [Next]_vars => Drawn'
<1> SUFFICES ASSUME TypeInv, Drawn, [Next]_vars PROVE Drawn'
  OBVIOUS
<1>1. CASE UNCHANGED vars \/ Crash
  BY <1>1, DrawnStep DEF vars, Crash
<1>2. ASSUME NEW r \in Requests, UploadInsert(r) \/ Select(r) PROVE Drawn'
  BY <1>2, DrawnStep DEF UploadInsert, Select
<1>3. ASSUME NEW r \in Requests,
             (\E u \in Users : Start(r, u)) \/ Step(r) \/ DatabaseFails(r) \/ ResponseLost(r),
             ~UploadInsert(r), ~Select(r)
      PROVE Drawn'
  <2>1. conns' = conns \/ conns' = conns \ {r}
    BY <1>3
    DEF Start, Ask, Step, UploadValidate, UploadExtract, StoreChunks, EmbeddingsReturned,
        EmbeddingsFailed, QueryEmbedded, QueryFailed, SelectMissing, PoolTimeout, Commit,
        Apply, Respond, DatabaseFails, ResponseLost, Refuse
  <2> QED
    BY <2>1, DrawnStep
<1> QED
  BY <1>1, <1>2, <1>3 DEF Next

\* The service never uses more connections than its pool has, and a request that
\* waits for one holds none.
THEOREM PoolNeverOverdrawn == Spec => []PoolSound
<1>1. Init => Drawn
  BY StoreAssumption, FS_EmptySet DEF Init, Drawn
<1>2. Spec => [](TypeInv /\ Drawn)
  BY <1>1, InitTypeInv, NextTypeInv, NextDrawn, PTL DEF Spec
<1>3. Drawn /\ ConnectionsReturned => PoolSound
  BY DEF PoolSound, ConnectionsReturned, Connected
<1> QED
  BY <1>2, <1>3, PoolRefilled, PTL

-----------------------------------------------------------------------------
(* DocumentStore implements DocumentShelf: the commit of an upload adds a   *)
(* document, that of a delete removes one, every other step does neither.   *)

LEMMA ShelfInit == Init => Shelf!Init
  BY DEF Init, Shelf!Init

LEMMA ShelfCommit ==
  ASSUME TypeInv, StoreInv, NEW r \in Requests, Commit(r)
  PROVE  [Shelf!Next]_(Shelf!shelf)
<1> USE StoreAssumption DEF TypeInv, TypeOK, StoreInv
<1>1. /\ pc[r] = "commit"
      /\ docs' = [d \in Requests |->
                      IF d = r /\ op[r] = "upload" THEN status[r]
                      ELSE IF op[r] = "delete" /\ d = arg[r] /\ docs[d] # "none"
                      THEN "none" ELSE docs[d]]
      /\ chunkRows' = [d \in Requests |->
                      IF d = r /\ op[r] = "upload" THEN stored[r]
                      ELSE IF op[r] = "delete" /\ d = arg[r] /\ docs[d] # "none"
                      THEN 0 ELSE chunkRows[d]]
      /\ removed' = removed \cup {d \in Requests :
                                     op[r] = "delete" /\ d = arg[r] /\ docs[d] # "none"}
  BY DEF Commit, Apply
<1>2. docs[r] = "none" /\ r \notin removed
  BY <1>1 DEF TableInv, Undecided
<1>3. CASE op[r] = "upload"
  <2>1. Shelf!Add(r, status[r], stored[r])
    BY <1>1, <1>2, <1>3 DEF Shelf!Add
  <2>2. \/ status[r] = "ready" /\ stored[r] \in ChunkCounts
        \/ status[r] = "failed" /\ stored[r] = 0
    BY <1>1, <1>3, PayloadType DEF SessionInv, StageInv
  <2> QED
    BY <2>1, <2>2 DEF Shelf!Next
<1>4. CASE op[r] = "delete" /\ docs[arg[r]] # "none"
  <2>1. PICK d \in Requests : d = arg[r]
    BY <1>4 DEF StageInv
  <2>2. docs' = [docs EXCEPT ![d] = "none"] /\ chunkRows' = [chunkRows EXCEPT ![d] = 0]
    BY <1>1, <1>4, <2>1, ZenonT(40)
  <2>3. removed' = removed \cup {d}
    BY <1>1, <1>4, <2>1
  <2>4. Shelf!Remove(d)
    BY <1>4, <2>1, <2>2, <2>3 DEF Shelf!Remove
  <2> QED
    BY <2>1, <2>4 DEF Shelf!Next
<1>5. CASE op[r] # "upload" /\ ~(op[r] = "delete" /\ docs[arg[r]] # "none")
  BY <1>1, <1>5 DEF Shelf!shelf
<1> QED
  BY <1>3, <1>4, <1>5

LEMMA ShelfStep == TypeInv /\ StoreInv /\ [Next]_vars => [Shelf!Next]_(Shelf!shelf)
<1> SUFFICES ASSUME TypeInv, StoreInv, [Next]_vars PROVE [Shelf!Next]_(Shelf!shelf)
  OBVIOUS
<1> USE DEF tables, Shelf!shelf
<1>1. ASSUME NEW r \in Requests, NEW u \in Users, Start(r, u)
      PROVE UNCHANGED <<docs, chunkRows, removed>>
  BY <1>1 DEF Start, Ask
<1>2. ASSUME NEW r \in Requests, Step(r) \/ DatabaseFails(r) \/ ResponseLost(r), ~Commit(r)
      PROVE UNCHANGED <<docs, chunkRows, removed>>
  BY <1>2 DEF Step, UploadValidate, UploadInsert, UploadExtract, StoreChunks,
     EmbeddingsReturned, EmbeddingsFailed, QueryEmbedded, QueryFailed, Select,
     SelectMissing, PoolTimeout, Respond, DatabaseFails, ResponseLost, Refuse
<1>3. ASSUME Crash \/ UNCHANGED vars PROVE UNCHANGED <<docs, chunkRows, removed>>
  BY <1>3 DEF Crash, vars
<1> QED
  BY <1>1, <1>2, <1>3, ShelfCommit DEF Next

\* Every behaviour of the document service's tables is one of the shelf's.
THEOREM ImplementsShelf == Spec => KeepsShelf
  BY StoreInductive, ShelfInit, ShelfStep, PTL DEF Spec, KeepsShelf, Shelf!Spec

-----------------------------------------------------------------------------
(* Answers, when the commit comes first.  A transaction that is still under  *)
(* way has been read by nobody, so none can undo what an answer has said.    *)

Settled == TypeInv /\ StoreInv /\ AnswerInv

LEMMA InitAnswerInv == Init => AnswerInv
  BY StoreAssumption DEF Init, AnswerInv, Answers

\* A step that leaves the tables alone: nobody gets to respond by it, only
\* requests that end are answered, and only an error.
LEMMA AnswerMoveStep ==
  ASSUME Settled, ~ResponseFirst, pc' \in [Requests -> Stages],
         answer' \in [Requests -> Answers \cup {None}],
         UNCHANGED <<docs, removed, op, arg, seen>>,
         \A q \in Requests : pc'[q] = pc[q] \/ pc'[q] \notin {"idle", "respond"},
         \A q \in Requests : pc[q] \in {"respond", "done"} => pc'[q] \in {pc[q], "done"},
         \A q \in Requests : answer'[q] = answer[q] \/
             (pc'[q] = "done" /\ answer'[q] \notin {"created", "ok"})
  PROVE  AnswerInv'
<1> USE DEF Settled, TypeInv, TypeOK
<1>1. \A q \in Requests : ~Undecided(q) => ~Undecided(q)'
  BY DEF Undecided
<1>2. \A q \in Requests : answer'[q] # None => pc'[q] = "done"
  BY DEF AnswerInv
<1>3. \A q \in Requests : \A d \in seen'[q] : ~Undecided(d)'
  BY <1>1 DEF AnswerInv
<1>4. \A q \in Requests : answer'[q] \in {"created", "ok"} => answer[q] = answer'[q]
  OBVIOUS
<1>5. \A q \in Requests : pc'[q] = "respond" => pc[q] = "respond"
  OBVIOUS
<1> QED
  BY <1>2, <1>3, <1>4, <1>5 DEF AnswerInv

\* A request is asked: nobody has seen it, and it has said nothing.
LEMMA AnswerAskStep ==
  ASSUME Settled, ~ResponseFirst, NEW r \in Requests, NEW o \in Ops, NEW u \in Users, NEW a,
         NEW stage \in {"validate", "query", "select"}, Ask(r, o, u, a, stage)
  PROVE  AnswerInv'
<1> USE DEF Settled, TypeInv, TypeOK
<1>1. /\ UNCHANGED <<docs, removed, seen, answer>>
      /\ pc[r] = "idle" /\ pc' = [pc EXCEPT ![r] = stage]
      /\ \A q \in Requests \ {r} : op'[q] = op[q] /\ arg'[q] = arg[q]
  BY DEF Ask, tables, session, Goto
<1>2. answer[r] = None
  BY <1>1 DEF AnswerInv
<1>3. \A q \in Requests : ~Undecided(q) => ~Undecided(q)'
  BY <1>1 DEF Undecided
<1>4. None \notin {"created", "ok"}
  BY StoreAssumption DEF Answers
<1> QED
  BY <1>1, <1>2, <1>3, <1>4 DEF AnswerInv

\* A read sees documents whose transaction is over.
LEMMA AnswerSelectStep ==
  ASSUME Settled, ~ResponseFirst, NEW r \in Requests, Select(r)
  PROVE  AnswerInv'
<1> USE DEF Settled, TypeInv, TypeOK
<1>1. /\ UNCHANGED <<docs, removed, op, arg, answer>>
      /\ pc[r] = "select" /\ pc' = [pc EXCEPT ![r] = "commit"]
      /\ seen'[r] \subseteq Matches(r) /\ \A q \in Requests \ {r} : seen'[q] = seen[q]
  BY DEF Select, tables, asked, session, Goto, AfterHandler
<1>2. \A d \in Matches(r) : ~Undecided(d)
  BY DEF Matches, Owned, StoreInv, TableInv
<1>3. \A q \in Requests : ~Undecided(q) => ~Undecided(q)'
  BY <1>1 DEF Undecided
<1>4. answer[r] = None /\ None \notin {"created", "ok"}
  BY <1>1, StoreAssumption DEF AnswerInv, Answers
<1>5. \A q \in Requests : \A d \in seen'[q] : ~Undecided(d)'
  <2>1. Matches(r) \subseteq Requests
    BY DEF Matches
  <2> QED
    BY <2>1, <1>1, <1>2, <1>3 DEF AnswerInv
<1>6. \A q \in Requests \ {r} : AnswerInv => (pc'[q] = pc[q] /\ seen'[q] = seen[q])
  BY <1>1
<1> QED
  BY <1>1, <1>4, <1>5, <1>6 DEF AnswerInv

\* The commit makes true what is answered next.  No document it adds was seen,
\* and what it takes away is remembered as removed.
LEMMA AnswerCommitStep ==
  ASSUME Settled, ~ResponseFirst, NEW r \in Requests, Commit(r)
  PROVE  AnswerInv'
<1> USE DEF Settled, TypeInv, TypeOK
<1> DEFINE dead == {d \in Requests : op[r] = "delete" /\ d = arg[r] /\ docs[d] # "none"}
<1>1. /\ UNCHANGED <<op, user, arg, seen, status, stored, answer>>
      /\ pc[r] = "commit" /\ pc' = [pc EXCEPT ![r] = "respond"]
      /\ docs' = [d \in Requests |->
                      IF d = r /\ op[r] = "upload" THEN status[r]
                      ELSE IF d \in dead THEN "none" ELSE docs[d]]
      /\ removed' = removed \cup dead
  BY DEF Commit, Apply, asked, session, Goto, AfterCommit
<1>2. Undecided(r) /\ answer[r] = None /\ None \notin {"created", "ok"}
  BY <1>1, StoreAssumption DEF AnswerInv, Undecided, Answers
<1>3. \A q \in Requests : ~Undecided(q) => ~Undecided(q)'
  BY <1>1 DEF Undecided
<1>4. \A q \in Requests : r \notin seen[q]
  BY <1>2 DEF AnswerInv
<1>5. ASSUME NEW q \in Requests, op[q] = "upload", docs[q] # "none" \/ q \in removed
      PROVE docs'[q] # "none" \/ q \in removed'
  BY <1>5, <1>1, <1>2 DEF StoreInv, TableInv
<1>6. ASSUME NEW d \in Requests, docs[d] = "none", d # r PROVE docs'[d] = "none"
  BY <1>6, <1>1
<1>7. op[r] = "upload" => docs'[r] # "none"
  BY <1>1 DEF SessionInv
<1>8. op[r] = "delete" => arg[r] \in seen[r] /\ docs'[arg[r]] = "none"
  BY <1>1, <1>4 DEF StoreInv, SeenInv
<1>9. ASSUME NEW q \in Requests \ {r}, pc[q] = "respond" \/ answer[q] \in {"created", "ok"}
      PROVE  /\ op[q] = "upload" => docs'[q] # "none" \/ q \in removed'
             /\ op[q] = "delete" => arg[q] \in seen[q] /\ docs'[arg[q]] = "none"
  <2>1. op[q] = "delete" => arg[q] \in seen[q] /\ docs[arg[q]] = "none" /\ arg[q] \in Requests
    BY <1>9 DEF AnswerInv
  <2>2. op[q] = "delete" => arg[q] # r
    BY <2>1, <1>4
  <2>3. op[q] = "upload" => docs[q] # "none" \/ q \in removed
    BY <1>9 DEF AnswerInv
  <2> QED
    BY <2>1, <2>2, <2>3, <1>5, <1>6
<1> QED
  BY <1>1, <1>2, <1>3, <1>7, <1>8, <1>9 DEF AnswerInv

\* Every step keeps the answers true.
LEMMA NextAnswers ==
  ASSUME ~ResponseFirst
  PROVE  Settled /\ [Next]_vars => AnswerInv'
<1> SUFFICES ASSUME Settled, [Next]_vars PROVE AnswerInv'
  OBVIOUS
<1>0. /\ pc' \in [Requests -> Stages] /\ answer' \in [Requests -> Answers \cup {None}]
      /\ pc \in [Requests -> Stages] /\ answer \in [Requests -> Answers \cup {None}]
  BY NextTypeInv DEF Settled, TypeInv, TypeOK
<1> USE ~ResponseFirst, <1>0, StoreAssumption DEF tables, asked, session, Goto, Tell
<1>1. ASSUME NEW r \in Requests, NEW u \in Users, Start(r, u) PROVE AnswerInv'
  BY <1>1, AnswerAskStep DEF Start, Ops
<1>2. ASSUME NEW r \in Requests, NEW what \in {"missing", "invalid", "error", "degraded"},
             Refuse(r, what), pc[r] # "idle"
      PROVE AnswerInv'
  BY <1>2, AnswerMoveStep DEF Refuse
<1>3. ASSUME NEW r \in Requests, NEW stage \in {"insert", "extract", "embed", "store",
                                                "select", "commit"},
             UNCHANGED <<docs, removed, op, arg, seen, answer>>,
             pc' = [pc EXCEPT ![r] = stage], pc[r] \notin {"idle", "respond", "done"}
      PROVE AnswerInv'
  BY <1>3, AnswerMoveStep
<1>4. ASSUME NEW r \in Requests,
             UploadInsert(r) \/ UploadExtract(r) \/ StoreChunks(r)
               \/ EmbeddingsReturned(r) \/ QueryEmbedded(r)
      PROVE AnswerInv'
  BY <1>4, <1>3
  DEF UploadInsert, UploadExtract, StoreChunks, EmbeddingsReturned, QueryEmbedded,
      AfterHandler
<1>5. ASSUME NEW r \in Requests,
             EmbeddingsFailed(r) \/ QueryFailed(r) \/ SelectMissing(r) \/ PoolTimeout(r)
      PROVE AnswerInv'
  BY <1>5, <1>2 DEF EmbeddingsFailed, QueryFailed, SelectMissing, PoolTimeout
<1>6. ASSUME NEW r \in Requests, UploadValidate(r) PROVE AnswerInv'
  BY <1>6, <1>2, <1>3 DEF UploadValidate
<1>7. ASSUME NEW r \in Requests, Select(r) PROVE AnswerInv'
  BY <1>7, AnswerSelectStep
<1>8. ASSUME NEW r \in Requests, Commit(r) PROVE AnswerInv'
  BY <1>8, AnswerCommitStep
<1>9. ASSUME NEW r \in Requests, Respond(r) PROVE AnswerInv'
  <2>1. /\ UNCHANGED <<docs, removed, op, arg, seen>>
        /\ pc[r] = "respond" /\ pc' = [pc EXCEPT ![r] = "done"]
        /\ answer' = [answer EXCEPT ![r] = IF op[r] = "upload" THEN "created" ELSE "ok"]
    BY <1>9 DEF Respond, AfterResponse
  <2>2. \A q \in Requests : ~Undecided(q) => ~Undecided(q)'
    BY <2>1 DEF Undecided
  <2>3. \A q \in Requests \ {r} : pc'[q] = pc[q] /\ answer'[q] = answer[q]
    BY <2>1
  <2>4. pc'[r] = "done" /\ answer'[r] = IF op[r] = "upload" THEN "created" ELSE "ok"
    BY <2>1
  <2>5. \A q \in Requests : \A d \in seen'[q] : ~Undecided(d)'
    <3>1. \A q \in Requests : \A d \in seen[q] : d \in Requests /\ ~Undecided(d)
      BY DEF Settled, AnswerInv, TypeInv, TypeOK
    <3> QED
      BY <3>1, <2>1, <2>2
  <2>6. /\ \A q \in Requests : answer'[q] # None => pc'[q] = "done"
        /\ \A q \in Requests : answer'[q] = "created" => op'[q] = "upload"
    BY <2>1, <2>3, <2>4 DEF Settled, AnswerInv
  <2>7. ASSUME NEW q \in Requests, pc'[q] = "respond" \/ answer'[q] \in {"created", "ok"}
        PROVE  /\ op[q] = "upload" => docs[q] # "none" \/ q \in removed
               /\ op[q] = "delete" => arg[q] \in seen[q] /\ docs[arg[q]] = "none"
    BY <2>1, <2>3, <2>4, <2>7 DEF Settled, AnswerInv
  <2> QED
    BY <2>1, <2>5, <2>6, <2>7 DEF AnswerInv
<1>10. ASSUME NEW r \in Requests, ResponseLost(r) PROVE AnswerInv'
  BY <1>10, AnswerMoveStep DEF ResponseLost, AfterResponse
<1>11. ASSUME NEW r \in Requests, DatabaseFails(r) PROVE AnswerInv'
  BY <1>11, AnswerMoveStep DEF DatabaseFails
<1>12. ASSUME Crash PROVE AnswerInv'
  BY <1>12, AnswerMoveStep DEF Crash, InFlight
<1>13. CASE UNCHANGED vars
  BY <1>13, AnswerMoveStep DEF vars
<1> QED
  BY <1>1, <1>4, <1>5, <1>6, <1>7, <1>8, <1>9, <1>10, <1>11, <1>12, <1>13 DEF Next, Step

LEMMA AnswersInductive == ASSUME ~ResponseFirst PROVE Spec => []Settled
<1>1. Init => AnswerInv
  BY InitAnswerInv
<1>2. Settled /\ [Next]_vars => AnswerInv'
  BY NextAnswers
<1>3. TypeInv /\ StoreInv /\ AnswerInv <=> Settled
  BY DEF Settled
<1> QED
  BY <1>1, <1>2, <1>3, StoreInductive, PTL DEF Spec

\* Where the commit comes before the answer, a 201 document is in the table
\* until its owner deletes it, and a 200 delete is final.
THEOREM AnswersTruthful == ASSUME ~ResponseFirst PROVE Spec => []AnswerMatchesCommit
<1>1. Settled => AnswerMatchesCommit
  BY DEF Settled, AnswerInv, AnswerMatchesCommit
<1> QED
  BY <1>1, AnswersInductive, PTL

\* Where the commit comes before the answer, users read their own writes: every
\* list or get after a 201 finds the document or a delete of it.
THEOREM OwnWritesRead == ASSUME ~ResponseFirst PROVE Spec => UploadsAreListed
<1> DEFINE Reads(r, d) ==
      /\ pc[r] = "select" /\ pc'[r] # "select" /\ answer'[r] \in {None, "missing"}
      /\ op[r] \in {"list", "get"} /\ arg[r] \in {d, None}
      /\ answer[d] = "created" /\ user[d] = user[r] /\ d \notin removed
<1>1. ASSUME Settled, [Next]_vars, NEW r \in Requests, NEW d \in Requests, Reads(r, d)
      PROVE d \in seen'[r]
  <2> USE StoreAssumption, <1>1 DEF Settled, TypeInv, TypeOK, Goto, Tell, tables, asked, session
  <2>1. d \in Matches(r)
    BY DEF AnswerInv, Matches, Owned
  <2>2. answer[r] = None
    BY DEF AnswerInv
  <2>3. ASSUME Select(r) PROVE d \in seen'[r]
    BY <2>3, <2>1 DEF Select
  <2>4. ASSUME SelectMissing(r) \/ PoolTimeout(r) \/ DatabaseFails(r) PROVE FALSE
    BY <2>4, <2>1, <2>2 DEF SelectMissing, PoolTimeout, DatabaseFails, Refuse, Answers
  <2>5. ASSUME Crash PROVE FALSE
    BY <2>5, <2>2 DEF Crash, InFlight, Answers
  <2>6. ASSUME NEW q \in Requests, Step(q) \/ DatabaseFails(q) \/ ResponseLost(q), q # r
        PROVE FALSE
    <3>1. pc'[r] = pc[r]
      BY <2>6
      DEF Step, UploadValidate, UploadInsert, UploadExtract, StoreChunks,
          EmbeddingsReturned, EmbeddingsFailed, QueryEmbedded, QueryFailed, Select,
          SelectMissing, PoolTimeout, Commit, Respond, DatabaseFails, ResponseLost, Refuse
    <3> QED
      BY <3>1
  <2>7. ASSUME NEW q \in Requests, NEW u \in Users, Start(q, u) PROVE FALSE
    BY <2>7 DEF Start, Ask
  <2>8. ASSUME UNCHANGED vars PROVE FALSE
    BY <2>8 DEF vars
  <2>9. ASSUME Step(r) \/ ResponseLost(r) PROVE Select(r) \/ SelectMissing(r) \/ PoolTimeout(r)
    BY <2>9
    DEF Step, UploadValidate, UploadInsert, UploadExtract, StoreChunks,
        EmbeddingsReturned, EmbeddingsFailed, QueryEmbedded, QueryFailed, Commit,
        Respond, ResponseLost
  <2> QED
    BY <2>3, <2>4, <2>5, <2>6, <2>7, <2>8, <2>9 DEF Next
<1>2. Settled /\ [Next]_vars
        => [\A r, d \in Requests : Reads(r, d) => d \in seen'[r]]_vars
  BY <1>1
<1> QED
  BY <1>2, AnswersInductive, PTL DEF Spec, UploadsAreListed

=============================================================================
