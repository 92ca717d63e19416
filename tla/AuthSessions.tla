---------------------------- MODULE AuthSessions ----------------------------
(***************************************************************************)
(* The api-gateway's accounts and refresh tokens: register, login, refresh  *)
(* and logout as transactions over PostgreSQL, one SQL statement at a time, *)
(* with get_db's commit or rollback around every handler                    *)
(* (api-gateway/app/services/auth_service.py, app/database.py).             *)
(*                                                                          *)
(* Every HTTP request is an element of Requests and is served once.  A      *)
(* refresh token is named by the request that minted it: each request mints *)
(* at most one and its jti is a fresh UUID.  Transactions run under READ    *)
(* COMMITTED: SELECT ... FOR UPDATE waits for the transaction that holds    *)
(* the row and then sees the row as that transaction left it; an INSERT of  *)
(* an e-mail waits for an uncommitted INSERT of the same e-mail.            *)
(***************************************************************************)
EXTENDS Integers, FiniteSets

CONSTANTS
    Requests,       \* the HTTP requests clients send
    Emails,         \* the e-mail addresses of accounts
    None,           \* no answer, no argument, no lock holder
    Forged,         \* any string that is not a refresh token of this issuer
    RefreshLife,    \* jwt_refresh_token_expire_days, in clock ticks
    MaxClock,       \* bound of the model on the clock
    MaxFaults,      \* bound of the model on crashes and lost answers
    ResponseFirst   \* FastAPI runs get_db's exit after sending the response

VARIABLES
    users,      \* users table: e-mail -> "none", "active" or "inactive"
    rows,       \* refresh_tokens table: the tokens with a committed row
    rowLock,    \* the transaction that holds each row FOR UPDATE
    emailLock,  \* the transaction with an uncommitted INSERT of each e-mail
    op,         \* what each request asks for
    arg,        \* its e-mail or its refresh token
    pc,         \* where its handler stands
    answer,     \* what its client was told
    expires,    \* exp claim and expires_at of the token it minted
    root,       \* history: the login that began the minted token's session
    grantedAt,  \* history: when a refresh was given its row
    committed,  \* history: the requests whose transaction committed
    signedOut,  \* history: the sessions whose row a logout deleted
    clock,
    faults

tables   == <<users, rows>>
locks    == <<rowLock, emailLock>>
asked    == <<op, arg>>
minted   == <<expires, root>>
history  == <<grantedAt, committed, signedOut>>
world    == <<clock, faults>>
vars     == <<tables, locks, asked, pc, answer, minted, history, world>>

AccountOps == {"register", "login", "loginWrong"}
TokenOps   == {"refresh", "logout"}
Waiting    == {"lookup", "decode", "select"}
Working    == {"insert", "expiry", "owner", "mint"}
Stages     == {"idle", "commit", "respond", "done"} \cup Waiting \cup Working
Answers    == {"ok", "created", "unauthorized", "invalid", "error", "lost"}

ASSUME ConstantsAssumption ==
    /\ None \notin Requests \cup Emails \cup AccountOps \cup TokenOps \cup Answers
    /\ Forged \notin Requests \cup Emails \cup {None}
    /\ Requests \cap Emails = {}
    /\ RefreshLife \in Nat \ {0} /\ MaxClock \in Nat /\ MaxFaults \in Nat
    /\ ResponseFirst \in BOOLEAN

Mints(r)     == op[r] \in {"login", "refresh"}
Delivered    == {t \in Requests : Mints(t) /\ answer[t] = "ok"}
Owner(t)     == arg[root[t]]
Expired(t)   == clock > expires[t]
HeldBy(r)    == {t \in Requests : rowLock[t] = r}

-----------------------------------------------------------------------------
(* get_db: commit after the handler, rollback on any exception, and the     *)
(* place of the response before or after the commit.                        *)

AfterHandler  == IF ResponseFirst THEN "respond" ELSE "commit"
AfterCommit   == IF ResponseFirst THEN "done" ELSE "respond"
AfterResponse == IF ResponseFirst THEN "commit" ELSE "done"

Goto(r, stage) == pc' = [pc EXCEPT ![r] = stage]

Unlock(rs) ==
    /\ rowLock'   = [t \in Requests |-> IF rowLock[t] \in rs THEN None ELSE rowLock[t]]
    /\ emailLock' = [e \in Emails |-> IF emailLock[e] \in rs THEN None ELSE emailLock[e]]

\* Variant: an exception still keeps the row deletions made before it.
RollbackKeepsDelete(r) ==
    /\ rows' = rows \ HeldBy(r)
    /\ Unlock({r})
    /\ UNCHANGED <<users, committed, signedOut>>

\* Variant: the session is abandoned without ROLLBACK and keeps its locks.
RollbackForgotten(r) == UNCHANGED <<tables, locks, committed, signedOut>>

Rollback(r) == Unlock({r}) /\ UNCHANGED <<tables, committed, signedOut>>

\* An exception in the handler: get_db rolls back, the client sees its status.
Refuse(r, status) ==
    /\ Rollback(r)
    /\ Goto(r, "done")
    /\ answer' = [answer EXCEPT ![r] = status]
    /\ UNCHANGED <<asked, minted, grantedAt, world>>

\* Variant: the consumed row is not deleted.
ApplyNoDelete(r) ==
    /\ users' = [e \in Emails |->
                    IF op[r] = "register" /\ e = arg[r] THEN "active" ELSE users[e]]
    /\ rows' = rows \cup {t \in {r} : Mints(r)}
    /\ committed' = committed \cup {r}
    /\ UNCHANGED signedOut
    /\ Unlock({r})

\* Variant: the rows of the whole account are deleted, not the one selected.
ApplyDeleteByOwner(r) ==
    /\ users' = [e \in Emails |->
                    IF op[r] = "register" /\ e = arg[r] THEN "active" ELSE users[e]]
    /\ rows' = {t \in rows : \A u \in HeldBy(r) : Owner(t) # Owner(u)}
                 \cup {t \in {r} : Mints(r)}
    /\ committed' = committed \cup {r}
    /\ signedOut' = signedOut \cup {root[t] : t \in {u \in HeldBy(r) : op[r] = "logout"}}
    /\ Unlock({r})

\* What the transaction of r leaves behind once it is durable.
Apply(r) ==
    /\ users' = [e \in Emails |->
                    IF op[r] = "register" /\ e = arg[r] THEN "active" ELSE users[e]]
    /\ rows' = (rows \ HeldBy(r)) \cup {t \in {r} : Mints(r)}
    /\ committed' = committed \cup {r}
    /\ signedOut' = signedOut \cup {root[t] : t \in {u \in HeldBy(r) : op[r] = "logout"}}
    /\ Unlock({r})

Commit(r) ==
    /\ pc[r] = "commit"
    /\ Apply(r)
    /\ Goto(r, AfterCommit)
    /\ UNCHANGED <<asked, answer, minted, grantedAt, world>>

Success(r) == IF op[r] = "register" THEN "created" ELSE "ok"

Respond(r) ==
    /\ pc[r] = "respond"
    /\ answer' = [answer EXCEPT ![r] = Success(r)]
    /\ Goto(r, AfterResponse)
    /\ UNCHANGED <<tables, locks, asked, minted, history, world>>

-----------------------------------------------------------------------------
(* A client sends a request; tokens it presents were delivered to it, or    *)
(* are not refresh tokens of this issuer at all.                            *)

StartAccount(r, o, e) ==
    /\ pc[r] = "idle"
    /\ op' = [op EXCEPT ![r] = o]
    /\ arg' = [arg EXCEPT ![r] = e]
    /\ Goto(r, "lookup")
    /\ UNCHANGED <<tables, locks, answer, minted, history, world>>

StartToken(r, o, t) ==
    /\ pc[r] = "idle"
    /\ op' = [op EXCEPT ![r] = o]
    /\ arg' = [arg EXCEPT ![r] = t]
    /\ Goto(r, IF o = "refresh" THEN "decode" ELSE "select")
    /\ UNCHANGED <<tables, locks, answer, minted, history, world>>

Start(r) ==
    \/ \E o \in AccountOps, e \in Emails : StartAccount(r, o, e)
    \/ \E o \in TokenOps, t \in Delivered \cup {Forged} : StartToken(r, o, t)

-----------------------------------------------------------------------------
(* POST /register *)

RegisterLookup(r) ==
    /\ pc[r] = "lookup" /\ op[r] = "register"
    /\ IF users[arg[r]] # "none"
         THEN Refuse(r, "invalid")
         ELSE /\ Goto(r, "insert")
              /\ UNCHANGED <<tables, locks, asked, answer, minted, history, world>>

\* Variant: no unique index on users.email.
RegisterInsertNoIndex(r) ==
    /\ pc[r] = "insert"
    /\ Goto(r, AfterHandler)
    /\ UNCHANGED <<tables, locks, asked, answer, minted, history, world>>

\* flush(): the INSERT; a duplicate key is an IntegrityError, which no handler
\* of AppException catches.
RegisterInsert(r) ==
    /\ pc[r] = "insert"
    /\ emailLock[arg[r]] = None
    /\ IF users[arg[r]] # "none"
         THEN Refuse(r, "error")
         ELSE /\ emailLock' = [emailLock EXCEPT ![arg[r]] = r]
              /\ Goto(r, AfterHandler)
              /\ UNCHANGED <<tables, rowLock, asked, answer, minted, history, world>>

-----------------------------------------------------------------------------
(* POST /login *)

LoginLookup(r) ==
    /\ pc[r] = "lookup" /\ op[r] \in {"login", "loginWrong"}
    /\ IF op[r] = "loginWrong" \/ users[arg[r]] # "active"
         THEN Refuse(r, "unauthorized")
         ELSE /\ Goto(r, "mint")
              /\ UNCHANGED <<tables, locks, asked, answer, minted, history, world>>

\* _create_token_pair: the new row waits in the session for the commit.
CreateTokenPair(r) ==
    /\ pc[r] = "mint"
    /\ expires' = [expires EXCEPT ![r] = clock + RefreshLife]
    /\ root' = [root EXCEPT ![r] = IF op[r] = "login" THEN r ELSE root[arg[r]]]
    /\ Goto(r, AfterHandler)
    /\ UNCHANGED <<tables, locks, asked, answer, history, world>>

-----------------------------------------------------------------------------
(* POST /refresh *)

\* decode_token: signature, type and exp, before the database is asked.
RefreshDecode(r) ==
    /\ pc[r] = "decode"
    /\ IF arg[r] = Forged \/ Expired(arg[r])
         THEN Refuse(r, "unauthorized")
         ELSE /\ Goto(r, "select")
              /\ UNCHANGED <<tables, locks, asked, answer, minted, history, world>>

\* Variant: SELECT without FOR UPDATE.
RowFreeNoLock(t) == TRUE

\* No transaction holds the row the token's hash selects.
RowFree(t) == t \in rows => rowLock[t] = None

\* Variant: FOR UPDATE SKIP LOCKED, a locked row counts as consumed.
RefreshSelectSkipLocked(r) ==
    /\ pc[r] = "select" /\ op[r] = "refresh"
    /\ IF arg[r] \notin rows \/ ~RowFree(arg[r])
         THEN Refuse(r, "unauthorized")
         ELSE /\ rowLock' = [rowLock EXCEPT ![arg[r]] = r]
              /\ grantedAt' = [grantedAt EXCEPT ![r] = clock]
              /\ Goto(r, "expiry")
              /\ UNCHANGED <<tables, emailLock, asked, answer, minted,
                             committed, signedOut, world>>

RefreshSelect(r) ==
    /\ pc[r] = "select" /\ op[r] = "refresh"
    /\ RowFree(arg[r])
    /\ IF arg[r] \notin rows
         THEN Refuse(r, "unauthorized")
         ELSE /\ rowLock' = [rowLock EXCEPT ![arg[r]] = r]
              /\ grantedAt' = [grantedAt EXCEPT ![r] = clock]
              /\ Goto(r, "expiry")
              /\ UNCHANGED <<tables, emailLock, asked, answer, minted,
                             committed, signedOut, world>>

\* Variant: the row's expires_at is not compared again after the wait.
RefreshExpiryUnchecked(r) ==
    /\ pc[r] = "expiry"
    /\ Goto(r, "owner")
    /\ UNCHANGED <<tables, locks, asked, answer, minted, history, world>>

RefreshExpiry(r) ==
    /\ pc[r] = "expiry"
    /\ IF Expired(arg[r])
         THEN Refuse(r, "unauthorized")
         ELSE /\ Goto(r, "owner")
              /\ UNCHANGED <<tables, locks, asked, answer, minted, history, world>>

\* The row is already marked deleted when the owner is found inactive.
RefreshOwner(r) ==
    /\ pc[r] = "owner"
    /\ IF users[Owner(arg[r])] # "active"
         THEN Refuse(r, "unauthorized")
         ELSE /\ Goto(r, "mint")
              /\ UNCHANGED <<tables, locks, asked, answer, minted, history, world>>

-----------------------------------------------------------------------------
(* POST /logout: no token check, and success whether or not a row is found. *)

\* Variant: FOR UPDATE SKIP LOCKED, a locked row is left to its holder.
LogoutSelectSkipLocked(r) ==
    /\ pc[r] = "select" /\ op[r] = "logout"
    /\ rowLock' = [t \in Requests |->
                      IF t = arg[r] /\ t \in rows /\ RowFree(t) THEN r ELSE rowLock[t]]
    /\ Goto(r, AfterHandler)
    /\ UNCHANGED <<tables, emailLock, asked, answer, minted, history, world>>

LogoutSelect(r) ==
    /\ pc[r] = "select" /\ op[r] = "logout"
    /\ RowFree(arg[r])
    /\ rowLock' = [t \in Requests |->
                      IF t = arg[r] /\ t \in rows THEN r ELSE rowLock[t]]
    /\ Goto(r, AfterHandler)
    /\ UNCHANGED <<tables, emailLock, asked, answer, minted, history, world>>

-----------------------------------------------------------------------------
(* Failures, each counted against MaxFaults. *)

Fault == faults < MaxFaults /\ faults' = faults + 1

\* Variant: get_db swallows the exception of commit().
CommitFailsSwallowed(r) ==
    /\ pc[r] = "commit" /\ Fault
    /\ Rollback(r)
    /\ Goto(r, AfterCommit)
    /\ UNCHANGED <<asked, answer, minted, grantedAt, clock>>

\* COMMIT raises: the transaction is rolled back; after the response it is
\* too late to tell the client.
CommitFails(r) ==
    /\ pc[r] = "commit" /\ Fault
    /\ Rollback(r)
    /\ Goto(r, "done")
    /\ answer' = [answer EXCEPT ![r] = IF ResponseFirst THEN @ ELSE "error"]
    /\ UNCHANGED <<asked, minted, grantedAt, clock>>

\* COMMIT is durable but the connection drops before it is confirmed.
CommitUnconfirmed(r) ==
    /\ pc[r] = "commit" /\ Fault
    /\ Apply(r)
    /\ Goto(r, "done")
    /\ answer' = [answer EXCEPT ![r] = IF ResponseFirst THEN @ ELSE "error"]
    /\ UNCHANGED <<asked, minted, grantedAt, clock>>

ResponseLost(r) ==
    /\ pc[r] = "respond" /\ Fault
    /\ answer' = [answer EXCEPT ![r] = "lost"]
    /\ Goto(r, AfterResponse)
    /\ UNCHANGED <<tables, locks, asked, minted, history, clock>>

\* The gateway dies: the database aborts every open transaction.
InFlight == {r \in Requests : pc[r] \notin {"idle", "done"}}

Crash ==
    /\ InFlight # {} /\ Fault
    /\ Unlock(InFlight)
    /\ pc' = [r \in Requests |-> IF r \in InFlight THEN "done" ELSE pc[r]]
    /\ answer' = [r \in Requests |->
                    IF r \in InFlight /\ answer[r] = None THEN "lost" ELSE answer[r]]
    /\ UNCHANGED <<tables, asked, minted, history, clock>>

-----------------------------------------------------------------------------
(* The environment: is_active is only ever cleared by an operator.          *)

Deactivate(e) ==
    /\ users[e] = "active"
    /\ users' = [users EXCEPT ![e] = "inactive"]
    /\ UNCHANGED <<rows, locks, asked, pc, answer, minted, history, world>>

Tick ==
    /\ clock < MaxClock
    /\ clock' = clock + 1
    /\ UNCHANGED <<tables, locks, asked, pc, answer, minted, history, faults>>

-----------------------------------------------------------------------------
Init ==
    /\ users \in [Emails -> {"none", "active"}]
    /\ rows = {}
    /\ rowLock = [t \in Requests |-> None]
    /\ emailLock = [e \in Emails |-> None]
    /\ op = [r \in Requests |-> None]
    /\ arg = [r \in Requests |-> None]
    /\ pc = [r \in Requests |-> "idle"]
    /\ answer = [r \in Requests |-> None]
    /\ expires = [t \in Requests |-> 0]
    /\ root = [t \in Requests |-> t]
    /\ grantedAt = [r \in Requests |-> 0]
    /\ committed = {}
    /\ signedOut = {}
    /\ clock = 0
    /\ faults = 0

\* One step of the handler of r, of its database session or of its response.
Step(r) ==
    \/ RegisterLookup(r) \/ RegisterInsert(r)
    \/ LoginLookup(r) \/ CreateTokenPair(r)
    \/ RefreshDecode(r) \/ RefreshSelect(r) \/ RefreshExpiry(r) \/ RefreshOwner(r)
    \/ LogoutSelect(r)
    \/ Commit(r) \/ Respond(r)

RequestFault(r) == CommitFails(r) \/ CommitUnconfirmed(r) \/ ResponseLost(r)

Next ==
    \/ \E r \in Requests : Start(r) \/ Step(r) \/ RequestFault(r)
    \/ Crash
    \/ \E e \in Emails : Deactivate(e)
    \/ Tick

Spec == Init /\ [][Next]_vars

\* Every handler runs on: the event loop schedules each ready coroutine, and
\* PostgreSQL wakes a waiter once the row it waits for is released.
FairSpec == Spec /\ \A r \in Requests : WF_vars(Step(r))

-----------------------------------------------------------------------------
(* Properties *)

TypeOK ==
    /\ users \in [Emails -> {"none", "active", "inactive"}]
    /\ rows \subseteq Requests
    /\ rowLock \in [Requests -> Requests \cup {None}]
    /\ emailLock \in [Emails -> Requests \cup {None}]
    /\ op \in [Requests -> AccountOps \cup TokenOps \cup {None}]
    /\ arg \in [Requests -> Emails \cup Requests \cup {Forged, None}]
    /\ pc \in [Requests -> Stages]
    /\ answer \in [Requests -> Answers \cup {None}]
    /\ expires \in [Requests -> Nat]
    /\ root \in [Requests -> Requests]
    /\ grantedAt \in [Requests -> Nat]
    /\ committed \subseteq Requests
    /\ signedOut \subseteq Requests
    /\ clock \in 0..MaxClock
    /\ faults \in 0..MaxFaults

\* A refresh token is rotated at most once, however many requests present it
\* and whatever fails: the row lock of refresh() serializes them.
SingleSuccessor ==
    \A r, s \in committed :
        op[r] = "refresh" /\ op[s] = "refresh" /\ arg[r] = arg[s] => r = s

\* One login never has two live refresh tokens: rotation swaps the row, it
\* never forks the session.
OneLivePerSession ==
    \A t, u \in rows : root[t] = root[u] => t = u

\* A refresh that is refused, crashes or fails to commit leaves its session
\* usable: only a logout takes a session's last row away, although refresh()
\* deletes the row before it knows whether the owner may have a new one.  And
\* what a logout has taken away no refresh brings back, however many were on
\* their way when the logout came.
NoSilentSignOut ==
    \A s \in committed : op[s] = "login" =>
        (s \in signedOut <=> \A t \in rows : root[t] # s)

\* A rotation is never based on a row granted after the token had expired,
\* even when the wait for the row lock outlasts the exp claim decode_token saw.
NoLateRotation ==
    \A r \in committed : op[r] = "refresh" => grantedAt[r] <= expires[arg[r]]

\* Two registrations of an e-mail never both commit, whatever both saw when
\* they looked it up.
OneRegistrationPerEmail ==
    \A r, s \in committed :
        op[r] = "register" /\ op[s] = "register" /\ arg[r] = arg[s] => r = s

\* The answer tells the truth about the database: success means durable,
\* a refusal means nothing was kept.
AnswerMatchesCommit ==
    \A r \in Requests :
        /\ answer[r] \in {"ok", "created"} => r \in committed
        /\ answer[r] \in {"unauthorized", "invalid"} => r \notin committed

\* After a logout was answered, the token it supplied stays unusable: no row
\* of it is left, or the logout's own transaction is about to delete it.
LogoutFinal ==
    \A r \in Requests :
        op[r] = "logout" /\ answer[r] = "ok" /\ arg[r] \in rows
            => rowLock[arg[r]] = r

Consumed(t) == \E s \in committed : op[s] \in TokenOps /\ arg[s] = t

Registered(e) == \E g \in Requests : op[g] = "register" /\ arg[g] = e /\ answer[g] = "created"

\* A 401 has a reason the client could know: a token is refused only when
\* forged, expired, consumed before or its owner disabled; a login with the
\* right password is not refused once the registration was answered.
RefusalsJustified ==
    [][\A r \in Requests : answer[r] = None /\ answer'[r] = "unauthorized" =>
         /\ op[r] = "refresh" =>
              \/ arg[r] = Forged
              \/ Expired(arg[r])
              \/ Consumed(arg[r])
              \/ users[Owner(arg[r])] = "inactive"
         /\ op[r] = "login" => ~Registered(arg[r]) \/ users[arg[r]] = "inactive"]_vars

\* Sessions keep the promise of RefreshLedger: tokens whose transaction
\* committed are live while their row is there and dead afterwards.
Issued == {r \in committed : Mints(r)}

Ledger == INSTANCE RefreshLedger
              WITH Tokens <- Requests, live <- rows, dead <- Issued \ rows

KeepsLedger == Ledger!Spec

\* The inductive invariant behind the properties above: who holds a row, and
\* what the rows say about the transactions that committed.
Holding == {"expiry", "owner", "mint", "commit", "respond"}

\* A SELECT ... FOR UPDATE waits for the transaction that holds the row, an
\* INSERT for the one that has inserted the same e-mail.
WaitsFor(r, q) ==
    \/ pc[r] = "select" /\ arg[r] \in rows /\ rowLock[arg[r]] = q
    \/ pc[r] = "insert" /\ emailLock[arg[r]] = q

\* Whoever is waited for is past its own statement that may wait, has yet to
\* commit or roll back, and waits for nobody: waits form no chain and no cycle,
\* and no request that is over keeps others waiting.
WaitsForNoWaiter ==
    \A r, q \in Requests : WaitsFor(r, q) =>
        /\ pc[q] \in Holding /\ q \notin committed
        /\ \A p \in Requests : ~WaitsFor(q, p)

StageInv ==
    \A r \in Requests :
        /\ op[r] \in AccountOps => arg[r] \in Emails
        /\ op[r] \in TokenOps => arg[r] \in Requests \cup {Forged}
        /\ pc[r] = "insert" => op[r] = "register"
        /\ pc[r] = "mint" => Mints(r)
        /\ pc[r] \in {"decode", "expiry", "owner"} => op[r] = "refresh"
        /\ pc[r] \in Working /\ op[r] = "refresh" => arg[r] \in Requests

LockInv ==
    \A t, r \in Requests : rowLock[t] = r =>
        /\ t \in rows /\ arg[r] = t
        /\ op[r] \in TokenOps
        /\ pc[r] \in Holding
        /\ r \notin committed

HoldInv ==
    \A r \in Requests : op[r] = "refresh" /\ pc[r] \in Holding /\ r \notin committed =>
        arg[r] \in Requests /\ rowLock[arg[r]] = r

CommitInv ==
    /\ \A r \in committed : pc[r] = "done" \/ (pc[r] = "respond" /\ ~ResponseFirst)
    /\ \A r \in Requests : pc[r] = "respond" /\ ~ResponseFirst => r \in committed

RowInv ==
    /\ rows \subseteq Issued
    /\ \A r \in committed : op[r] = "refresh" => arg[r] \in Issued \ rows
    /\ signedOut \subseteq committed

RootInv ==
    /\ \A t \in Issued : root[t] \in committed /\ op[root[t]] = "login"
    /\ \A r \in committed : op[r] = "login" => root[r] = r
    /\ \A r \in Requests :
          Mints(r) /\ pc[r] \in {"commit", "respond"} /\ r \notin committed =>
              root[r] = IF op[r] = "login" THEN r ELSE root[arg[r]]

SessionInv ==
    /\ StageInv /\ LockInv /\ HoldInv /\ CommitInv /\ RowInv /\ RootInv
    /\ SingleSuccessor /\ OneLivePerSession /\ NoSilentSignOut

\* The types of the state and the invariant of the sessions, which no step breaks
\* as long as both hold.
SessionsSound == TypeOK /\ SessionInv

\* Every request is answered or dies with the process: nobody waits for a row
\* lock or an e-mail forever.
EveryRequestEnds == \A r \in Requests : pc[r] # "idle" ~> pc[r] = "done"

=============================================================================
