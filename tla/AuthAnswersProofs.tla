-------------------------- MODULE AuthAnswersProofs --------------------------
(***************************************************************************)
(* More theorems about AuthSessions: registrations, the expiry of rotated   *)
(* tokens, and, where the commit comes before the response, what the        *)
(* gateway's answers tell its clients.                                      *)
(***************************************************************************)
EXTENDS AuthSessionsProofs

-----------------------------------------------------------------------------
(* Registrations.  The unique index on users.email lets one transaction hold *)
(* an e-mail; a second INSERT waits for it and then finds the account.      *)

EmailInv ==
    /\ \A e \in Emails, r \in Requests : emailLock[e] = r =>
          /\ op[r] = "register" /\ arg[r] = e
          /\ pc[r] \in {"commit", "respond"} /\ r \notin committed
          /\ users[e] = "none"
    /\ \A r \in Requests :
          op[r] = "register" /\ pc[r] \in {"commit", "respond"} /\ r \notin committed =>
              emailLock[arg[r]] = r
    /\ \A r \in committed : op[r] = "register" => users[arg[r]] # "none"
    /\ OneRegistrationPerEmail

\* A step that leaves users and e-mails alone and moves one handler on.
LEMMA EmailMove ==
  ASSUME TypeInv, SessionInv, EmailInv, NEW r \in Requests, NEW stage \in Stages,
         UNCHANGED <<users, emailLock, committed, op, arg>>,
         pc' = [pc EXCEPT ![r] = stage],
         pc[r] \notin {"idle", "done"},
         r \notin committed \/ stage \in {"respond", "done"},
         op[r] = "register" /\ r \notin committed =>
            pc[r] \in {"commit", "respond"} <=> stage \in {"commit", "respond"}
  PROVE  EmailInv'
  BY DEF TypeInv, TypeOK, SessionInv, EmailInv, OneRegistrationPerEmail

\* Handlers that end without committing let go of their e-mails.
LEMMA EmailRefuse ==
  ASSUME TypeInv, SessionInv, EmailInv, NEW rs \in SUBSET Requests,
         Unlock(rs), UNCHANGED <<users, committed, op, arg>>,
         pc' = [q \in Requests |-> IF q \in rs THEN "done" ELSE pc[q]]
  PROVE  EmailInv'
<1> USE ConstantsAssumption DEF TypeInv, TypeOK, SessionInv, StageInv
<1>1. emailLock' = [e \in Emails |-> IF emailLock[e] \in rs THEN None ELSE emailLock[e]]
  BY DEF Unlock
<1>2. \A e \in Emails, q \in Requests : emailLock'[e] = q => emailLock[e] = q /\ q \notin rs
  BY <1>1
<1>3. \A q \in Requests : op'[q] = "register" /\ pc'[q] \in {"commit", "respond"}
                            /\ q \notin committed' => emailLock'[arg'[q]] = q
  BY <1>1 DEF EmailInv, AccountOps
<1> QED
  BY <1>2, <1>3 DEF EmailInv, OneRegistrationPerEmail

LEMMA EmailCommit ==
  ASSUME TypeInv, SessionInv, EmailInv, NEW r \in Requests, NEW stage,
         pc[r] = "commit", Apply(r), UNCHANGED <<op, arg>>,
         pc' = [pc EXCEPT ![r] = stage],
         stage = "done" \/ (stage = "respond" /\ ~ResponseFirst)
  PROVE  EmailInv'
<1> USE ConstantsAssumption DEF TypeInv, TypeOK, SessionInv
<1>1. /\ r \notin committed
      /\ committed' = committed \cup {r}
      /\ users' = [e \in Emails |->
                    IF op[r] = "register" /\ e = arg[r] THEN "active" ELSE users[e]]
      /\ emailLock' = [e \in Emails |-> IF emailLock[e] = r THEN None ELSE emailLock[e]]
  BY DEF CommitInv, Apply, Unlock
<1>2. op[r] = "register" => arg[r] \in Emails /\ emailLock[arg[r]] = r /\ users[arg[r]] = "none"
  BY <1>1 DEF EmailInv, StageInv, AccountOps
<1>3. \A e \in Emails, q \in Requests : emailLock'[e] = q =>
          /\ op'[q] = "register" /\ arg'[q] = e
          /\ pc'[q] \in {"commit", "respond"} /\ q \notin committed'
          /\ users'[e] = "none"
  BY <1>1, <1>2 DEF EmailInv
<1>4. \A q \in Requests :
          op'[q] = "register" /\ pc'[q] \in {"commit", "respond"} /\ q \notin committed' =>
              emailLock'[arg'[q]] = q
  BY <1>1 DEF EmailInv, StageInv, AccountOps
<1>5. \A q \in committed' : op'[q] = "register" => users'[arg'[q]] # "none"
  BY <1>1, <1>2 DEF EmailInv, StageInv, AccountOps
<1>6. OneRegistrationPerEmail'
  BY <1>1, <1>2 DEF EmailInv, OneRegistrationPerEmail
<1> QED
  BY <1>3, <1>4, <1>5, <1>6 DEF EmailInv

LEMMA NextEmailInv == TypeInv /\ SessionInv /\ EmailInv /\ [Next]_vars => EmailInv'
<1> SUFFICES ASSUME TypeInv, SessionInv, EmailInv, [Next]_vars PROVE EmailInv'
  OBVIOUS
<1> USE ConstantsAssumption DEF asked, minted, history, world, locks, tables, Goto
<1>1. ASSUME NEW r \in Requests, Start(r) PROVE EmailInv'
  <2>1. /\ UNCHANGED <<users, emailLock, committed>>
        /\ pc[r] = "idle" /\ r \notin committed
        /\ op' = [op EXCEPT ![r] = op'[r]] /\ arg' = [arg EXCEPT ![r] = arg'[r]]
        /\ \E stage \in Waiting : pc' = [pc EXCEPT ![r] = stage]
    BY <1>1 DEF Start, StartAccount, StartToken, SessionInv, CommitInv, Waiting,
                TypeInv, TypeOK
  <2> QED
    BY <2>1 DEF EmailInv, OneRegistrationPerEmail, TypeInv, TypeOK, Waiting
<1>2. ASSUME NEW r \in Requests, NEW what, Refuse(r, what) PROVE EmailInv'
  <2>1. pc' = [q \in Requests |-> IF q \in {r} THEN "done" ELSE pc[q]]
    BY <1>2 DEF Refuse, TypeInv, TypeOK
  <2> QED
    BY <1>2, <2>1, EmailRefuse DEF Refuse, Rollback
<1>3. ASSUME NEW r \in Requests, RegisterInsert(r) PROVE EmailInv'
  <2>1. CASE users[arg[r]] # "none"
    BY <1>3, <2>1, <1>2 DEF RegisterInsert
  <2>2. CASE users[arg[r]] = "none"
    <3>1. /\ op[r] = "register" /\ arg[r] \in Emails /\ r \notin committed
          /\ pc[r] = "insert" /\ emailLock[arg[r]] = None
      BY <1>3 DEF RegisterInsert, TypeInv, StageInv, AccountOps, SessionInv, CommitInv
    <3>2. /\ emailLock' = [emailLock EXCEPT ![arg[r]] = r]
          /\ pc' = [pc EXCEPT ![r] = AfterHandler] /\ AfterHandler \in {"commit", "respond"}
          /\ UNCHANGED <<users, committed, op, arg>>
      BY <1>3, <2>2 DEF RegisterInsert, AfterHandler
    <3>3. \A e \in Emails, q \in Requests : emailLock'[e] = q =>
              emailLock[e] = q \/ (e = arg[r] /\ q = r)
      BY <3>1, <3>2 DEF TypeInv, TypeOK
    <3> QED
      BY <2>2, <3>1, <3>2, <3>3 DEF EmailInv, OneRegistrationPerEmail, TypeInv, TypeOK,
         StageInv, AccountOps
  <2> QED
    BY <2>1, <2>2
<1>4. ASSUME NEW r \in Requests,
             RegisterLookup(r) \/ LoginLookup(r) \/ CreateTokenPair(r) \/ RefreshDecode(r)
               \/ RefreshSelect(r) \/ RefreshExpiry(r) \/ RefreshOwner(r) \/ LogoutSelect(r)
      PROVE EmailInv'
  <2>1. r \notin committed
    BY <1>4 DEF SessionInv, CommitInv, RegisterLookup, LoginLookup, CreateTokenPair,
       RefreshDecode, RefreshSelect, RefreshExpiry, RefreshOwner, LogoutSelect
  <2>2. pc[r] \in {"mint", "expiry", "owner"} => op[r] # "register"
    BY DEF TypeInv, StageInv, Mints, Working, SessionInv
  <2> QED
    BY <1>4, <1>2, <2>1, <2>2, EmailMove
    DEF RegisterLookup, LoginLookup, CreateTokenPair, RefreshDecode, RefreshSelect,
        RefreshExpiry, RefreshOwner, LogoutSelect, AfterHandler, Stages, Waiting, Working
<1>5. ASSUME NEW r \in Requests, Commit(r) \/ CommitUnconfirmed(r) PROVE EmailInv'
  BY <1>5, EmailCommit DEF Commit, CommitUnconfirmed, AfterCommit
<1>6. ASSUME NEW r \in Requests, Respond(r) \/ ResponseLost(r) PROVE EmailInv'
  BY <1>6, EmailMove DEF Respond, ResponseLost, AfterResponse, Stages, SessionInv, CommitInv
<1>7. ASSUME NEW r \in Requests, CommitFails(r) PROVE EmailInv'
  <2>1. pc' = [q \in Requests |-> IF q \in {r} THEN "done" ELSE pc[q]]
    BY <1>7 DEF CommitFails, TypeInv, TypeOK
  <2> QED
    BY <1>7, <2>1, EmailRefuse DEF CommitFails, Rollback
<1>8. ASSUME Crash PROVE EmailInv'
  BY <1>8, EmailRefuse DEF Crash, InFlight
<1>9. ASSUME NEW e \in Emails, Deactivate(e) PROVE EmailInv'
  BY <1>9 DEF Deactivate, EmailInv, OneRegistrationPerEmail, TypeInv, TypeOK
<1>10. CASE Tick \/ UNCHANGED vars
  BY <1>10 DEF Tick, vars, EmailInv, OneRegistrationPerEmail
<1> QED
  BY <1>1, <1>3, <1>4, <1>5, <1>6, <1>7, <1>8, <1>9, <1>10 DEF Next, Step, RequestFault

\* Of two registrations of an e-mail at most one commits, whatever both saw.
THEOREM RegisteredOnce == Spec => []OneRegistrationPerEmail
<1>1. Init => TypeInv /\ SessionInv /\ EmailInv
  BY InitTypeInv, InitSessionInv, ConstantsAssumption
  DEF Init, EmailInv, OneRegistrationPerEmail
<1>2. TypeInv /\ SessionInv /\ EmailInv /\ [Next]_vars => (TypeInv /\ SessionInv /\ EmailInv)'
  BY NextTypeInv, NextSessionInv, NextEmailInv
<1>3. EmailInv => OneRegistrationPerEmail
  BY DEF EmailInv
<1> QED
  BY <1>1, <1>2, <1>3, PTL DEF Spec

-----------------------------------------------------------------------------
(* Waiting.  A SELECT ... FOR UPDATE waits for the transaction that holds the *)
(* row, an INSERT for the one that has inserted the same e-mail.            *)

\* Transactions of the api-gateway never deadlock in the database: no handler
\* asks for a row or an e-mail while it holds one, in both commit orders.
THEOREM NoLockCycle == Spec => []WaitsForNoWaiter
<1>1. TypeInv /\ SessionInv /\ EmailInv => WaitsForNoWaiter
  <2> SUFFICES ASSUME TypeInv, SessionInv, EmailInv,
                      NEW r \in Requests, NEW q \in Requests, WaitsFor(r, q)
               PROVE  /\ pc[q] \in Holding /\ q \notin committed
                      /\ \A p \in Requests : ~WaitsFor(q, p)
    BY DEF WaitsForNoWaiter
  <2>1. CASE arg[r] \in rows /\ rowLock[arg[r]] = q
    <3>1. arg[r] \in Requests
      BY <2>1 DEF TypeInv, TypeOK
    <3>2. pc[q] \in Holding /\ q \notin committed
      BY <2>1, <3>1 DEF SessionInv, LockInv
    <3> QED
      BY <3>2 DEF Holding, WaitsFor
  <2>2. CASE pc[r] = "insert" /\ emailLock[arg[r]] = q
    <3>1. arg[r] \in Emails
      BY <2>2 DEF TypeInv, StageInv, AccountOps
    <3>2. pc[q] \in {"commit", "respond"} /\ q \notin committed
      BY <2>2, <3>1 DEF EmailInv
    <3> QED
      BY <3>2 DEF Holding, WaitsFor
  <2> QED
    BY <2>1, <2>2 DEF WaitsFor
<1>2. Init => TypeInv /\ SessionInv /\ EmailInv
  BY InitTypeInv, InitSessionInv, ConstantsAssumption
  DEF Init, EmailInv, OneRegistrationPerEmail
<1>3. TypeInv /\ SessionInv /\ EmailInv /\ [Next]_vars => (TypeInv /\ SessionInv /\ EmailInv)'
  BY NextTypeInv, NextSessionInv, NextEmailInv
<1> QED
  BY <1>1, <1>2, <1>3, PTL DEF Spec

-----------------------------------------------------------------------------
(* Expiry.  The row was granted before it was compared with the clock, and   *)
(* the token it belongs to is never minted again.                           *)

LateInv ==
    \A r \in Requests : op[r] = "refresh" =>
        /\ pc[r] = "expiry" => grantedAt[r] <= clock
        /\ pc[r] \in Holding \ {"expiry"} \/ r \in committed =>
              grantedAt[r] <= expires[arg[r]]

\* The token a refresh holds or has rotated was issued, so it keeps its expiry.
LEMMA RotatedIssued ==
  ASSUME TypeInv, SessionInv, NEW r \in Requests, op[r] = "refresh",
         pc[r] \in Holding \/ r \in committed
  PROVE  arg[r] \in Issued
<1>1. CASE r \in committed
  BY <1>1 DEF SessionInv, RowInv
<1>2. CASE r \notin committed
  BY <1>2 DEF SessionInv, HoldInv, LockInv, RowInv
<1> QED
  BY <1>1, <1>2

LEMMA LateMove ==
  ASSUME TypeInv, SessionInv, LateInv, NEW r \in Requests, NEW stage \in Stages,
         UNCHANGED <<committed, op, arg, grantedAt, clock, expires>>,
         pc' = [pc EXCEPT ![r] = stage],
         stage = "expiry" => pc[r] = "expiry",
         op[r] = "refresh" /\ stage \in Holding \ {"expiry"} =>
            pc[r] \in Holding \ {"expiry"} \/ grantedAt[r] <= expires[arg[r]]
  PROVE  LateInv'
  BY DEF TypeInv, TypeOK, LateInv

LEMMA NextLateInv == TypeInv /\ SessionInv /\ LateInv /\ [Next]_vars => LateInv'
<1> SUFFICES ASSUME TypeInv, SessionInv, LateInv, [Next]_vars PROVE LateInv'
  OBVIOUS
<1> USE ConstantsAssumption DEF asked, minted, history, world, locks, tables, Goto
<1>1. ASSUME NEW r \in Requests, Start(r) PROVE LateInv'
  <2>1. /\ UNCHANGED <<committed, grantedAt, clock, expires>>
        /\ pc[r] = "idle" /\ r \notin committed
        /\ op' = [op EXCEPT ![r] = op'[r]] /\ arg' = [arg EXCEPT ![r] = arg'[r]]
        /\ \E stage \in Waiting : pc' = [pc EXCEPT ![r] = stage]
    BY <1>1 DEF Start, StartAccount, StartToken, SessionInv, CommitInv, Waiting,
                TypeInv, TypeOK
  <2> QED
    BY <2>1 DEF LateInv, TypeInv, TypeOK, Waiting, Holding
<1>2. ASSUME NEW r \in Requests, NEW what, Refuse(r, what) PROVE LateInv'
  BY <1>2, LateMove DEF Refuse, Rollback, Stages, Holding
<1>3. ASSUME NEW r \in Requests, CreateTokenPair(r) PROVE LateInv'
  <2>1. /\ UNCHANGED <<committed, op, arg, grantedAt, clock>>
        /\ pc[r] = "mint" /\ r \notin committed
        /\ expires' = [expires EXCEPT ![r] = clock + RefreshLife]
        /\ pc' = [pc EXCEPT ![r] = AfterHandler] /\ AfterHandler \in {"commit", "respond"}
    BY <1>3 DEF CreateTokenPair, AfterHandler, SessionInv, CommitInv
  <2>2. \A q \in Requests : op[q] = "refresh" /\ (pc[q] \in Holding \/ q \in committed) =>
            arg[q] \in Requests \ {r}
    BY <2>1, RotatedIssued DEF Issued, TypeInv, TypeOK
  <2> QED
    BY <2>1, <2>2 DEF LateInv, Holding, TypeInv, TypeOK
<1>4. ASSUME NEW r \in Requests, RefreshSelect(r) PROVE LateInv'
  <2>1. CASE arg[r] \notin rows
    BY <1>4, <2>1, <1>2 DEF RefreshSelect
  <2>2. CASE arg[r] \in rows
    <3>1. /\ UNCHANGED <<committed, op, arg, clock, expires>>
          /\ pc[r] = "select" /\ r \notin committed /\ clock \in Nat
          /\ grantedAt' = [grantedAt EXCEPT ![r] = clock]
          /\ pc' = [pc EXCEPT ![r] = "expiry"]
      BY <1>4, <2>2 DEF RefreshSelect, SessionInv, CommitInv, TypeInv, TypeOK
    <3> QED
      BY <3>1 DEF LateInv, Holding, TypeInv, TypeOK
  <2> QED
    BY <2>1, <2>2
<1>5. ASSUME NEW r \in Requests, RefreshExpiry(r) PROVE LateInv'
  <2>1. CASE Expired(arg[r])
    BY <1>5, <2>1, <1>2 DEF RefreshExpiry
  <2>2. CASE ~Expired(arg[r])
    <3>1. pc[r] = "expiry" /\ op[r] = "refresh" /\ arg[r] \in Requests
      BY <1>5, RotatedIssued DEF RefreshExpiry, SessionInv, StageInv, Holding, Issued,
         TypeInv, TypeOK
    <3>2. grantedAt[r] <= expires[arg[r]]
      BY <2>2, <3>1 DEF LateInv, Expired, TypeInv, TypeOK
    <3> QED
      BY <1>5, <2>2, <3>1, <3>2, LateMove DEF RefreshExpiry, Stages, Working
  <2> QED
    BY <2>1, <2>2
<1>6. ASSUME NEW r \in Requests,
             RegisterLookup(r) \/ RegisterInsert(r) \/ LoginLookup(r) \/ RefreshDecode(r)
               \/ RefreshOwner(r) \/ LogoutSelect(r)
      PROVE LateInv'
  <2>1. pc[r] = "insert" => op[r] = "register"
    BY DEF SessionInv, StageInv
  <2> QED
    BY <1>6, <1>2, <2>1, LateMove
    DEF RegisterLookup, RegisterInsert, LoginLookup, RefreshDecode, RefreshOwner,
        LogoutSelect, AfterHandler, Stages, Waiting, Working, Holding
<1>7. ASSUME NEW r \in Requests, Commit(r) \/ CommitUnconfirmed(r) PROVE LateInv'
  <2>1. /\ UNCHANGED <<op, arg, grantedAt, clock, expires>>
        /\ committed' = committed \cup {r} /\ pc[r] = "commit"
        /\ \E stage \in {"done", "respond"} : pc' = [pc EXCEPT ![r] = stage]
    BY <1>7 DEF Commit, CommitUnconfirmed, Apply, AfterCommit
  <2> QED
    BY <2>1 DEF LateInv, Holding, TypeInv, TypeOK
<1>8. ASSUME NEW r \in Requests, Respond(r) \/ ResponseLost(r) \/ CommitFails(r) PROVE LateInv'
  BY <1>8, LateMove
  DEF Respond, ResponseLost, CommitFails, Rollback, AfterResponse, Stages, Holding
<1>9. ASSUME Crash PROVE LateInv'
  BY <1>9 DEF Crash, LateInv, Holding, InFlight
<1>10. ASSUME Tick PROVE LateInv'
  BY <1>10 DEF Tick, LateInv, TypeInv, TypeOK
<1>11. CASE UNCHANGED vars \/ \E e \in Emails : Deactivate(e)
  BY <1>11 DEF vars, Deactivate, LateInv
<1> QED
  BY <1>1, <1>3, <1>4, <1>5, <1>6, <1>7, <1>8, <1>9, <1>10, <1>11
  DEF Next, Step, RequestFault

\* No rotation rests on a row that was granted after its token had expired.
THEOREM NeverRotatedLate == Spec => []NoLateRotation
<1>1. Init => TypeInv /\ SessionInv /\ LateInv
  BY InitTypeInv, InitSessionInv, ConstantsAssumption DEF Init, LateInv, TokenOps
<1>2. TypeInv /\ SessionInv /\ LateInv /\ [Next]_vars => (TypeInv /\ SessionInv /\ LateInv)'
  BY NextTypeInv, NextSessionInv, NextLateInv
<1>3. TypeInv /\ LateInv => NoLateRotation
  BY DEF LateInv, NoLateRotation, TypeInv, TypeOK
<1> QED
  BY <1>1, <1>2, <1>3, PTL DEF Spec

-----------------------------------------------------------------------------
(* Answers, where the commit comes first.  A client then only holds tokens   *)
(* whose row is durable, so a row that is not found was consumed.           *)

AnswersInv ==
    /\ \A r \in Requests : answer[r] # None => pc[r] = "done"
    /\ AnswerMatchesCommit
    /\ \A r \in Requests : op[r] \in TokenOps => arg[r] \in Issued \cup {Forged}
    /\ \A t \in Issued \ rows : Consumed(t)
    /\ \A r \in Requests :
          op[r] = "logout" /\ (pc[r] = "commit" \/ r \in committed) /\ arg[r] \in rows =>
              rowLock[arg[r]] = r
    /\ \A r \in Requests :
          op[r] = "login" /\ (pc[r] \in {"mint", "commit", "respond"} \/ r \in committed) =>
              users[arg[r]] # "none"

\* One handler moves on without touching the tables or a row lock.
LEMMA AnswersMove ==
  ASSUME TypeInv, SessionInv, AnswersInv, NEW r \in Requests, NEW stage \in Stages,
         UNCHANGED <<users, rows, rowLock, committed, op, arg, answer>>,
         pc' = [pc EXCEPT ![r] = stage],
         pc[r] \notin {"idle", "done"},
         op[r] = "logout" => stage # "commit",
         op[r] = "login" /\ stage \in {"mint", "commit", "respond"} =>
            pc[r] \in {"mint", "commit", "respond"} \/ users[arg[r]] # "none"
  PROVE  AnswersInv'
<1> USE DEF TypeInv, TypeOK, AnswersInv
<1>1. Issued' = Issued
  BY DEF Issued, Mints
<1>2. \A t \in Issued : Consumed(t)' <=> Consumed(t)
  BY DEF Consumed
<1>3. AnswerMatchesCommit'
  BY DEF AnswerMatchesCommit
<1> QED
  BY <1>1, <1>2, <1>3

\* Handlers end without committing anything further.
LEMMA AnswersEnd ==
  ASSUME TypeInv, SessionInv, AnswersInv, NEW rs \in SUBSET Requests,
         UNCHANGED <<users, rows, committed, op, arg>>,
         rowLock' = [t \in Requests |-> IF rowLock[t] \in rs THEN None ELSE rowLock[t]],
         pc' = [q \in Requests |-> IF q \in rs THEN "done" ELSE pc[q]],
         \A q \in Requests : answer'[q] = answer[q] \/
            /\ q \in rs
            /\ \/ answer'[q] \in {"error", "lost"}
               \/ answer'[q] \in {"unauthorized", "invalid"} /\ q \notin committed
  PROVE  AnswersInv'
<1> USE DEF TypeInv, TypeOK, AnswersInv
<1>1. Issued' = Issued
  BY DEF Issued, Mints
<1>2. \A t \in Issued : Consumed(t)' <=> Consumed(t)
  BY DEF Consumed
<1>3. AnswerMatchesCommit'
  BY DEF AnswerMatchesCommit
<1>4. ASSUME NEW q \in Requests, op'[q] = "logout",
             pc'[q] = "commit" \/ q \in committed', arg'[q] \in rows'
      PROVE rowLock'[arg'[q]] = q
  <2>1. rowLock[arg[q]] = q
    BY <1>4
  <2>2. q \notin committed
    BY <2>1, <1>4 DEF SessionInv, LockInv
  <2> QED
    BY <1>4, <2>1, <2>2
<1>5. \A q \in Requests : answer'[q] # None => pc'[q] = "done"
  OBVIOUS
<1> QED
  BY <1>1, <1>2, <1>3, <1>4, <1>5

\* A commit records what it consumed.
LEMMA AnswersCommit ==
  ASSUME TypeInv, SessionInv, AnswersInv, NEW r \in Requests, NEW stage \in Stages,
         pc[r] = "commit", Apply(r), UNCHANGED <<op, arg>>,
         pc' = [pc EXCEPT ![r] = stage], stage # "commit",
         \/ answer' = answer
         \/ stage = "done" /\ answer' = [answer EXCEPT ![r] = "error"]
  PROVE  AnswersInv'
<1> USE ConstantsAssumption DEF TypeInv, TypeOK, AnswersInv
<1>1. /\ r \notin committed /\ answer[r] = None
      /\ committed' = committed \cup {r}
      /\ users' = [e \in Emails |->
                    IF op[r] = "register" /\ e = arg[r] THEN "active" ELSE users[e]]
      /\ rows' = (rows \ HeldBy(r)) \cup {t \in {r} : Mints(r)}
      /\ rowLock' = [t \in Requests |-> IF rowLock[t] = r THEN None ELSE rowLock[t]]
  BY DEF SessionInv, CommitInv, Apply, Unlock
<1>2. Issued' = Issued \cup {t \in {r} : Mints(r)} /\ r \notin Issued /\ r # Forged
  BY <1>1 DEF Issued, Mints
<1>3. \A t \in HeldBy(r) : t = arg[r] /\ op[r] \in TokenOps
  BY DEF HeldBy, SessionInv, LockInv
<1>4. AnswerMatchesCommit'
  BY <1>1 DEF AnswerMatchesCommit, Answers
<1>5. \A t \in Issued' \ rows' : Consumed(t)'
  <2> SUFFICES ASSUME NEW t \in Issued' \ rows' PROVE Consumed(t)'
    OBVIOUS
  <2>1. t \in Issued /\ (t \notin rows \/ t \in HeldBy(r))
    BY <1>1, <1>2
  <2>2. CASE t \notin rows
    <3>1. PICK s \in committed : op[s] \in TokenOps /\ arg[s] = t
      BY <2>1, <2>2 DEF Consumed
    <3> QED
      BY <3>1, <1>1 DEF Consumed
  <2>3. CASE t \in HeldBy(r)
    <3>1. r \in committed' /\ op'[r] \in TokenOps /\ arg'[r] = t
      BY <2>3, <1>3, <1>1
    <3> QED
      BY <3>1 DEF Consumed
  <2> QED
    BY <2>1, <2>2, <2>3
<1>6. ASSUME NEW q \in Requests, op'[q] = "logout",
             pc'[q] = "commit" \/ q \in committed', arg'[q] \in rows'
      PROVE rowLock'[arg'[q]] = q
  <2>1. arg[q] \in Issued \cup {Forged} /\ arg[q] # r
    BY <1>6, <1>2 DEF TokenOps
  <2>2. arg[q] \in rows /\ arg[q] \notin HeldBy(r)
    BY <2>1, <1>1, <1>6
  <2>3. rowLock[arg[q]] = q
    BY <2>2, <1>1, <1>6
  <2>4. q # r
    BY <2>2, <2>3 DEF HeldBy
  <2> QED
    BY <2>2, <2>3, <2>4, <1>1
<1>7. ASSUME NEW q \in Requests, op'[q] = "login",
             pc'[q] \in {"mint", "commit", "respond"} \/ q \in committed'
      PROVE users'[arg'[q]] # "none"
  <2>1. arg[q] \in Emails /\ users[arg[q]] # "none"
    BY <1>1, <1>7 DEF StageInv, AccountOps
  <2> QED
    BY <2>1, <1>1
<1>8. \A q \in Requests : answer'[q] # None => pc'[q] = "done"
  BY <1>1
<1>9. \A q \in Requests : op'[q] \in TokenOps => arg'[q] \in Issued' \cup {Forged}
  BY <1>2
<1> QED
  BY <1>4, <1>5, <1>6, <1>7, <1>8, <1>9

\* A SELECT ... FOR UPDATE is granted the row: no logout was relying on it.
LEMMA AnswersGrant ==
  ASSUME TypeInv, SessionInv, AnswersInv, NEW r \in Requests, NEW stage \in Stages,
         RowFree(arg[r]), pc[r] = "select",
         op[r] \in TokenOps, op[r] = "refresh" => stage = "expiry",
         UNCHANGED <<users, rows, committed, op, arg, answer>>,
         rowLock' = [t \in Requests |-> IF t = arg[r] /\ t \in rows THEN r ELSE rowLock[t]],
         pc' = [pc EXCEPT ![r] = stage]
  PROVE  AnswersInv'
<1> USE ConstantsAssumption DEF TypeInv, TypeOK, AnswersInv
<1>1. Issued' = Issued
  BY DEF Issued, Mints
<1>2. \A t \in Issued : Consumed(t)' <=> Consumed(t)
  BY DEF Consumed
<1>3. AnswerMatchesCommit'
  BY DEF AnswerMatchesCommit
<1>4. ASSUME NEW q \in Requests, op'[q] = "logout",
             pc'[q] = "commit" \/ q \in committed', arg'[q] \in rows'
      PROVE rowLock'[arg'[q]] = q
  <2>1. CASE q = r
    BY <2>1, <1>4
  <2>2. CASE q # r
    <3>1. rowLock[arg[q]] = q
      BY <2>2, <1>4
    <3>2. arg[q] # arg[r]
      BY <3>1, <1>4 DEF RowFree
    <3> QED
      BY <3>1, <3>2, <1>4
  <2> QED
    BY <2>1, <2>2
<1>5. \A q \in Requests : answer'[q] # None => pc'[q] = "done"
  OBVIOUS
<1>6. \A q \in Requests :
          op'[q] = "login" /\ (pc'[q] \in {"mint", "commit", "respond"} \/ q \in committed') =>
              users'[arg'[q]] # "none"
  BY DEF TokenOps
<1> QED
  BY <1>1, <1>2, <1>3, <1>4, <1>5, <1>6

LEMMA NextAnswersInv ==
  ASSUME ~ResponseFirst, TypeInv, SessionInv, AnswersInv, [Next]_vars PROVE AnswersInv'
<1> USE ConstantsAssumption DEF asked, minted, history, world, locks, tables, Goto
<1>1. ASSUME NEW r \in Requests, Start(r) PROVE AnswersInv'
  <2>1. /\ UNCHANGED <<users, rows, rowLock, committed, answer>>
        /\ pc[r] = "idle" /\ r \notin committed
        /\ op' = [op EXCEPT ![r] = op'[r]] /\ arg' = [arg EXCEPT ![r] = arg'[r]]
        /\ \E stage \in Waiting : pc' = [pc EXCEPT ![r] = stage]
        /\ op'[r] \in TokenOps => arg'[r] \in Delivered \cup {Forged}
    BY <1>1 DEF Start, StartAccount, StartToken, SessionInv, CommitInv, Waiting,
                TypeInv, TypeOK, AccountOps, TokenOps
  <2>2. Issued' = Issued
    BY <2>1 DEF Issued, Mints, TypeInv, TypeOK
  <2>3. Delivered \subseteq Issued
    BY DEF Delivered, Issued, AnswersInv, AnswerMatchesCommit
  <2>4. \A t \in Issued : Consumed(t) => Consumed(t)'
    BY <2>1 DEF Consumed, TypeInv, TypeOK
  <2>5. AnswerMatchesCommit'
    BY <2>1 DEF AnswersInv, AnswerMatchesCommit
  <2>6. \A q \in Requests : answer'[q] # None => pc'[q] = "done"
    BY <2>1 DEF AnswersInv, TypeInv, TypeOK
  <2>7. \A q \in Requests : op'[q] \in TokenOps => arg'[q] \in Issued' \cup {Forged}
    BY <2>1, <2>2, <2>3 DEF AnswersInv, TypeInv, TypeOK
  <2>8. \A q \in Requests : pc'[q] \in {"mint", "commit", "respond"} \/ q \in committed' =>
            q # r /\ op'[q] = op[q] /\ arg'[q] = arg[q] /\ pc'[q] = pc[q]
    BY <2>1 DEF TypeInv, TypeOK, Waiting
  <2> QED
    BY <2>1, <2>2, <2>4, <2>5, <2>6, <2>7, <2>8 DEF AnswersInv
<1>2. ASSUME NEW r \in Requests, NEW what \in {"unauthorized", "invalid", "error"},
             pc[r] \notin {"idle", "done", "respond"}, Refuse(r, what)
      PROVE AnswersInv'
  <2>1. pc' = [q \in Requests |-> IF q \in {r} THEN "done" ELSE pc[q]]
    BY <1>2 DEF Refuse, TypeInv, TypeOK
  <2>2. r \notin committed
    BY <1>2 DEF SessionInv, CommitInv
  <2>3. \A q \in Requests : answer'[q] = answer[q] \/ (q \in {r} /\ answer'[q] = what)
    BY <1>2 DEF Refuse, TypeInv, TypeOK
  <2> QED
    BY <1>2, <2>1, <2>2, <2>3, AnswersEnd, ZenonT(40) DEF Refuse, Rollback, Unlock
<1>3. ASSUME NEW r \in Requests,
             RegisterLookup(r) \/ RegisterInsert(r) \/ LoginLookup(r) \/ CreateTokenPair(r)
               \/ RefreshDecode(r) \/ RefreshExpiry(r) \/ RefreshOwner(r)
      PROVE AnswersInv'
  <2>1. /\ pc[r] = "insert" => op[r] = "register"
        /\ pc[r] = "mint" => op[r] \in {"login", "refresh"}
        /\ pc[r] \in {"expiry", "owner"} => op[r] = "refresh"
    BY DEF TypeInv, StageInv, Mints
  <2> QED
    BY <1>2, <1>3, <2>1, AnswersMove
    DEF RegisterLookup, RegisterInsert, LoginLookup, CreateTokenPair, RefreshDecode,
        RefreshExpiry, RefreshOwner, AfterHandler, Stages, Waiting, Working
<1>4. ASSUME NEW r \in Requests, RefreshSelect(r) PROVE AnswersInv'
  <2>1. CASE arg[r] \notin rows
    BY <1>2, <1>4, <2>1 DEF RefreshSelect
  <2>2. CASE arg[r] \in rows
    <3>1. rowLock' = [t \in Requests |-> IF t = arg[r] /\ t \in rows THEN r ELSE rowLock[t]]
      BY <1>4, <2>2 DEF RefreshSelect, TypeInv, TypeOK
    <3> QED
      BY <1>4, <2>2, <3>1, AnswersGrant DEF RefreshSelect, TokenOps, Stages, Working
  <2> QED
    BY <2>1, <2>2
<1>5. ASSUME NEW r \in Requests, LogoutSelect(r) PROVE AnswersInv'
  BY <1>5, AnswersGrant DEF LogoutSelect, AfterHandler, TokenOps, Stages
<1>6. ASSUME NEW r \in Requests, Commit(r) \/ CommitUnconfirmed(r) PROVE AnswersInv'
  BY <1>6, AnswersCommit DEF Commit, CommitUnconfirmed, AfterCommit, Stages
<1>7. ASSUME NEW r \in Requests, Respond(r) \/ ResponseLost(r) PROVE AnswersInv'
  <2>1. /\ UNCHANGED <<users, rows, rowLock, committed, op, arg>>
        /\ r \in committed /\ pc[r] = "respond"
        /\ pc' = [pc EXCEPT ![r] = "done"]
        /\ \E what \in {"ok", "created", "lost"} : answer' = [answer EXCEPT ![r] = what]
    BY <1>7 DEF Respond, ResponseLost, AfterResponse, Success, SessionInv, CommitInv
  <2>2. Issued' = Issued /\ \A t \in Issued : Consumed(t)' <=> Consumed(t)
    BY <2>1 DEF Issued, Mints, Consumed
  <2>3. AnswerMatchesCommit'
    BY <2>1 DEF AnswersInv, AnswerMatchesCommit, TypeInv, TypeOK
  <2> QED
    BY <2>1, <2>2, <2>3 DEF AnswersInv, TypeInv, TypeOK
<1>8. ASSUME NEW r \in Requests, CommitFails(r) PROVE AnswersInv'
  <2>1. pc' = [q \in Requests |-> IF q \in {r} THEN "done" ELSE pc[q]]
    BY <1>8 DEF CommitFails, TypeInv, TypeOK
  <2>2. \A q \in Requests : answer'[q] = answer[q] \/ (q \in {r} /\ answer'[q] = "error")
    BY <1>8 DEF CommitFails, TypeInv, TypeOK
  <2> QED
    BY <1>8, <2>1, <2>2, AnswersEnd DEF CommitFails, Rollback, Unlock
<1>9. ASSUME Crash PROVE AnswersInv'
  <2>1. \A q \in Requests : answer'[q] = answer[q] \/ (q \in InFlight /\ answer'[q] = "lost")
    BY <1>9 DEF Crash, TypeInv, TypeOK
  <2> QED
    BY <1>9, <2>1, AnswersEnd DEF Crash, Unlock, InFlight
<1>10. ASSUME NEW e \in Emails, Deactivate(e) PROVE AnswersInv'
  <2>1. /\ UNCHANGED <<rows, rowLock, committed, op, arg, pc, answer>>
        /\ \A d \in Emails : users[d] # "none" => users'[d] # "none"
    BY <1>10 DEF Deactivate, TypeInv, TypeOK
  <2>2. Issued' = Issued /\ \A t \in Issued : Consumed(t)' <=> Consumed(t)
    BY <2>1 DEF Issued, Mints, Consumed
  <2>3. \A q \in Requests : op[q] = "login" => arg[q] \in Emails
    BY DEF TypeInv, StageInv, AccountOps
  <2> QED
    BY <2>1, <2>2, <2>3 DEF AnswersInv, AnswerMatchesCommit
<1>11. CASE Tick \/ UNCHANGED vars
  BY <1>11 DEF Tick, vars, AnswersInv, AnswerMatchesCommit, Issued, Mints, Consumed
<1> QED
  BY <1>1, <1>3, <1>4, <1>5, <1>6, <1>7, <1>8, <1>9, <1>10, <1>11
  DEF Next, Step, RequestFault

LEMMA InitAnswersInv == Init => AnswersInv
  BY ConstantsAssumption
  DEF Init, AnswersInv, AnswerMatchesCommit, Issued, Consumed, TokenOps, Answers

\* Success is told only of what is durable, a refusal only of what left no
\* trace, as long as the commit comes before the response.
THEOREM AnswersTrue ==
  ASSUME ~ResponseFirst PROVE Spec => []AnswerMatchesCommit
<1>1. Init => TypeInv /\ SessionInv /\ AnswersInv
  BY InitTypeInv, InitSessionInv, InitAnswersInv
<1>2. TypeInv /\ SessionInv /\ AnswersInv /\ [Next]_vars
        => (TypeInv /\ SessionInv /\ AnswersInv)'
  BY NextTypeInv, NextSessionInv, NextAnswersInv
<1>3. AnswersInv => AnswerMatchesCommit
  BY DEF AnswersInv
<1> QED
  BY <1>1, <1>2, <1>3, PTL DEF Spec

\* A logout that was answered leaves no row of its token, as long as the
\* commit comes before the response.
THEOREM LogoutSticks ==
  ASSUME ~ResponseFirst PROVE Spec => []LogoutFinal
<1>1. Init => TypeInv /\ SessionInv /\ AnswersInv
  BY InitTypeInv, InitSessionInv, InitAnswersInv
<1>2. TypeInv /\ SessionInv /\ AnswersInv /\ [Next]_vars
        => (TypeInv /\ SessionInv /\ AnswersInv)'
  BY NextTypeInv, NextSessionInv, NextAnswersInv
<1>3. AnswersInv => LogoutFinal
  BY DEF AnswersInv, AnswerMatchesCommit, LogoutFinal
<1> QED
  BY <1>1, <1>2, <1>3, PTL DEF Spec

\* A step that leaves the answers alone refuses nobody.
LEMMA RefusedBy ==
  ASSUME TypeInv, NEW r \in Requests, NEW what \in Answers, Refuse(r, what),
         NEW q \in Requests, answer[q] = None, answer'[q] = "unauthorized"
  PROVE  q = r
  BY ConstantsAssumption DEF Refuse, TypeInv, TypeOK, Answers

\* What a client is told with a 401 is true: the token was forged, expired or
\* consumed, or the account is disabled; a login is only refused after an
\* answered registration if the account is disabled.
LEMMA RefusalsStep ==
  ASSUME ~ResponseFirst, TypeInv, SessionInv, EmailInv, AnswersInv, [Next]_vars,
         NEW r \in Requests, answer[r] = None, answer'[r] = "unauthorized"
  PROVE  /\ op[r] = "refresh" =>
              \/ arg[r] = Forged
              \/ Expired(arg[r])
              \/ Consumed(arg[r])
              \/ users[Owner(arg[r])] = "inactive"
         /\ op[r] = "login" => ~Registered(arg[r]) \/ users[arg[r]] = "inactive"
<1> DEFINE Justified ==
      /\ op[r] = "refresh" =>
           \/ arg[r] = Forged
           \/ Expired(arg[r])
           \/ Consumed(arg[r])
           \/ users[Owner(arg[r])] = "inactive"
      /\ op[r] = "login" => ~Registered(arg[r]) \/ users[arg[r]] = "inactive"
<1> USE ConstantsAssumption
<1>1. ASSUME NEW q \in Requests,
             LoginLookup(q) \/ RefreshDecode(q) \/ RefreshSelect(q) \/ RefreshExpiry(q)
               \/ RefreshOwner(q)
      PROVE Refuse(q, "unauthorized")
  BY <1>1 DEF LoginLookup, RefreshDecode, RefreshSelect, RefreshExpiry, RefreshOwner,
     TypeInv, TypeOK, Answers
<1>2. ASSUME NEW q \in Requests,
             LoginLookup(q) \/ RefreshDecode(q) \/ RefreshSelect(q) \/ RefreshExpiry(q)
               \/ RefreshOwner(q)
      PROVE q = r
  BY <1>1, <1>2, RefusedBy DEF Answers
<1>3. ASSUME LoginLookup(r) PROVE Justified
  <2>1. op[r] \in {"login", "loginWrong"}
    BY <1>3 DEF LoginLookup
  <2>2. ASSUME op[r] = "login", Registered(arg[r]) PROVE users[arg[r]] = "inactive"
    <3>1. PICK g \in Requests : op[g] = "register" /\ arg[g] = arg[r] /\ answer[g] = "created"
      BY <2>2 DEF Registered
    <3>2. users[arg[r]] # "none"
      BY <3>1 DEF AnswersInv, AnswerMatchesCommit, EmailInv
    <3>3. users[arg[r]] # "active"
      BY <1>3, <2>2 DEF LoginLookup, TypeInv, TypeOK, Answers
    <3> QED
      BY <2>2, <3>2, <3>3 DEF TypeInv, TypeOK, StageInv, AccountOps
  <2> QED
    BY <2>1, <2>2
<1>4. ASSUME RefreshDecode(r) \/ RefreshExpiry(r) PROVE Justified
  <2>1. arg[r] = Forged \/ Expired(arg[r])
    BY <1>4 DEF RefreshDecode, RefreshExpiry, TypeInv, TypeOK, Answers
  <2>2. op[r] # "login"
    BY <1>4 DEF RefreshDecode, RefreshExpiry, TypeInv, StageInv
  <2> QED
    BY <2>1, <2>2
<1>5. ASSUME RefreshSelect(r) PROVE Justified
  <2>1. op[r] = "refresh" /\ arg[r] \notin rows
    BY <1>5 DEF RefreshSelect, TypeInv, TypeOK, Answers
  <2>2. arg[r] \in Issued \cup {Forged}
    BY <2>1 DEF AnswersInv, TokenOps
  <2> QED
    BY <2>1, <2>2 DEF AnswersInv
<1>6. ASSUME RefreshOwner(r) PROVE Justified
  <2>1. /\ pc[r] = "owner" /\ op[r] = "refresh"
        /\ users[Owner(arg[r])] # "active"
    BY <1>6 DEF RefreshOwner, TypeInv, TypeOK, StageInv, Answers
  <2>2. arg[r] \in Issued
    BY <2>1, RotatedIssued DEF Holding
  <2>3. /\ root[arg[r]] \in Requests /\ root[arg[r]] \in committed
        /\ op[root[arg[r]]] = "login"
    BY <2>2 DEF SessionInv, RootInv, Issued, TypeInv, TypeOK
  <2>4. Owner(arg[r]) \in Emails /\ users[Owner(arg[r])] # "none"
    BY <2>3 DEF Owner, AnswersInv, TypeInv, StageInv, AccountOps
  <2> QED
    BY <2>1, <2>4 DEF TypeInv, TypeOK
<1>7. ASSUME NEW q \in Requests, Start(q) PROVE FALSE
  BY <1>7 DEF Start, StartAccount, StartToken, Answers
<1>8. ASSUME NEW q \in Requests, RegisterLookup(q) \/ RegisterInsert(q) PROVE FALSE
  BY <1>8 DEF RegisterLookup, RegisterInsert, Refuse, TypeInv, TypeOK, Answers
<1>9. ASSUME NEW q \in Requests,
             CreateTokenPair(q) \/ LogoutSelect(q) \/ Commit(q) \/ Respond(q)
               \/ RequestFault(q)
      PROVE FALSE
  BY <1>9 DEF CreateTokenPair, LogoutSelect, Commit, Respond, Success, RequestFault,
     CommitFails, CommitUnconfirmed, ResponseLost, TypeInv, TypeOK, Answers
<1>10. ASSUME Crash \/ Tick \/ (\E e \in Emails : Deactivate(e)) \/ UNCHANGED vars PROVE FALSE
  BY <1>10 DEF Crash, Tick, Deactivate, vars, TypeInv, TypeOK, Answers
<1> QED
  BY <1>2, <1>3, <1>4, <1>5, <1>6, <1>7, <1>8, <1>9, <1>10 DEF Next, Step

\* Every 401 has a reason, as long as the commit comes before the response.
THEOREM RefusalsTrue ==
  ASSUME ~ResponseFirst PROVE Spec => RefusalsJustified
<1>1. Init => TypeInv /\ SessionInv /\ EmailInv /\ AnswersInv
  BY InitTypeInv, InitSessionInv, InitAnswersInv, ConstantsAssumption
  DEF Init, EmailInv, OneRegistrationPerEmail
<1>2. TypeInv /\ SessionInv /\ EmailInv /\ AnswersInv /\ [Next]_vars
        => (TypeInv /\ SessionInv /\ EmailInv /\ AnswersInv)'
  BY NextTypeInv, NextSessionInv, NextEmailInv, NextAnswersInv
<1> DEFINE Justified ==
      \A r \in Requests : answer[r] = None /\ answer'[r] = "unauthorized" =>
         /\ op[r] = "refresh" =>
              \/ arg[r] = Forged
              \/ Expired(arg[r])
              \/ Consumed(arg[r])
              \/ users[Owner(arg[r])] = "inactive"
         /\ op[r] = "login" => ~Registered(arg[r]) \/ users[arg[r]] = "inactive"
<1>3. TypeInv /\ SessionInv /\ EmailInv /\ AnswersInv /\ [Next]_vars => [Justified]_vars
  BY RefusalsStep
<1> HIDE DEF Justified
<1>4. Spec => [][Justified]_vars
  BY <1>1, <1>2, <1>3, PTL DEF Spec
<1> QED
  BY <1>4 DEF Justified, RefusalsJustified

=============================================================================
