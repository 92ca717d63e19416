------------------------- MODULE AuthSessionsProofs -------------------------
(***************************************************************************)
(* Theorems about AuthSessions, for any number of requests and accounts,    *)
(* any token lifetime, and FastAPI answering before or after the commit.    *)
(***************************************************************************)
EXTENDS AuthSessions, TLAPS

-----------------------------------------------------------------------------
(* Type correctness.  The session of a rotated token is looked up through   *)
(* its argument, so the types need StageInv to be inductive.                *)

TypeInv == TypeOK /\ StageInv

LEMMA InitTypeInv == Init => TypeInv
  BY ConstantsAssumption
  DEF Init, TypeInv, TypeOK, StageInv, Stages, Waiting, Working, AccountOps,
      TokenOps, Mints

\* Each step of a handler, of get_db and of the environment keeps the types.
LEMMA NextTypeInv == TypeInv /\ [Next]_vars => TypeInv'
<1> SUFFICES ASSUME TypeInv, [Next]_vars PROVE TypeInv'
  OBVIOUS
<1> USE ConstantsAssumption DEF TypeInv, TypeOK, StageInv, Mints, Stages, Waiting,
        Working, Answers, AccountOps, TokenOps, Goto, asked, minted, history,
        world, locks, tables
<1>1. ASSUME NEW r \in Requests, Start(r) PROVE TypeInv'
  <2>1. CASE \E o \in AccountOps, e \in Emails : StartAccount(r, o, e)
    BY <2>1 DEF StartAccount
  <2>2. CASE \E o \in TokenOps, t \in Delivered \cup {Forged} : StartToken(r, o, t)
    BY <2>2 DEF StartToken, Delivered
  <2> QED
    BY <1>1, <2>1, <2>2 DEF Start
<1>2. ASSUME NEW r \in Requests, NEW status \in Answers, Refuse(r, status) PROVE TypeInv'
  BY <1>2 DEF Refuse, Rollback, Unlock
<1>3. ASSUME NEW r \in Requests, RegisterLookup(r) PROVE TypeInv'
  BY <1>3, <1>2 DEF RegisterLookup
<1>4. ASSUME NEW r \in Requests, RegisterInsert(r) PROVE TypeInv'
  BY <1>4, <1>2 DEF RegisterInsert, AfterHandler
<1>5. ASSUME NEW r \in Requests, LoginLookup(r) PROVE TypeInv'
  BY <1>5, <1>2 DEF LoginLookup
<1>6. ASSUME NEW r \in Requests, CreateTokenPair(r) PROVE TypeInv'
  BY <1>6 DEF CreateTokenPair, AfterHandler
<1>7. ASSUME NEW r \in Requests, RefreshDecode(r) PROVE TypeInv'
  BY <1>7, <1>2 DEF RefreshDecode
<1>8. ASSUME NEW r \in Requests, RefreshSelect(r) PROVE TypeInv'
  BY <1>8, <1>2 DEF RefreshSelect
<1>9. ASSUME NEW r \in Requests, RefreshExpiry(r) PROVE TypeInv'
  BY <1>9, <1>2 DEF RefreshExpiry
<1>10. ASSUME NEW r \in Requests, RefreshOwner(r) PROVE TypeInv'
  BY <1>10, <1>2 DEF RefreshOwner
<1>11. ASSUME NEW r \in Requests, LogoutSelect(r) PROVE TypeInv'
  BY <1>11 DEF LogoutSelect, AfterHandler
<1>12. ASSUME NEW r \in Requests, Apply(r), UNCHANGED <<op, arg>>
       PROVE /\ users' \in [Emails -> {"none", "active", "inactive"}]
             /\ rows' \subseteq Requests
             /\ committed' \subseteq Requests
             /\ signedOut' \subseteq Requests
             /\ rowLock' \in [Requests -> Requests \cup {None}]
             /\ emailLock' \in [Emails -> Requests \cup {None}]
  BY <1>12 DEF Apply, Unlock, HeldBy
<1>13. ASSUME NEW r \in Requests, Commit(r) PROVE TypeInv'
  BY <1>13, <1>12 DEF Commit, AfterCommit
<1>14. ASSUME NEW r \in Requests, Respond(r) PROVE TypeInv'
  BY <1>14 DEF Respond, AfterResponse, Success
<1>15. ASSUME NEW r \in Requests, CommitFails(r) PROVE TypeInv'
  BY <1>15 DEF CommitFails, Rollback, Unlock, Fault
<1>16. ASSUME NEW r \in Requests, CommitUnconfirmed(r) PROVE TypeInv'
  BY <1>16, <1>12 DEF CommitUnconfirmed, Fault
<1>17. ASSUME NEW r \in Requests, ResponseLost(r) PROVE TypeInv'
  BY <1>17 DEF ResponseLost, AfterResponse, Fault
<1>18. ASSUME Crash PROVE TypeInv'
  BY <1>18 DEF Crash, Unlock, InFlight, Fault
<1>19. ASSUME NEW e \in Emails, Deactivate(e) PROVE TypeInv'
  BY <1>19 DEF Deactivate
<1>20. ASSUME Tick PROVE TypeInv'
  BY <1>20 DEF Tick
<1>21. CASE UNCHANGED vars
  BY <1>21 DEF vars
<1> QED
  BY <1>1, <1>3, <1>4, <1>5, <1>6, <1>7, <1>8, <1>9, <1>10, <1>11, <1>13, <1>14,
     <1>15, <1>16, <1>17, <1>18, <1>19, <1>20, <1>21 DEF Next, Step, RequestFault

\* Every reachable state is well typed, and a handler is only ever at a stage of
\* its own operation, with the argument that operation takes.
THEOREM TypeCorrect == Spec => []TypeOK
<1>1. Spec => []TypeInv
  BY InitTypeInv, NextTypeInv, PTL DEF Spec
<1> QED
  BY <1>1, PTL DEF TypeInv

-----------------------------------------------------------------------------
(* Sessions.  LockInv and HoldInv say that a refresh or logout past its     *)
(* SELECT ... FOR UPDATE is the only transaction that can delete its row;   *)
(* RowInv that rows are exactly the issued tokens nobody rotated or signed  *)
(* out.  The three session properties follow when a transaction commits.    *)

LEMMA InitSessionInv == Init => SessionInv
<1> SUFFICES ASSUME Init PROVE SessionInv
  OBVIOUS
<1>1. StageInv
  BY InitTypeInv DEF TypeInv
<1>2. LockInv /\ HoldInv /\ CommitInv /\ RowInv /\ RootInv
  BY ConstantsAssumption
  DEF Init, LockInv, HoldInv, CommitInv, RowInv, RootInv, Issued, Mints, Holding
<1>3. SingleSuccessor /\ OneLivePerSession /\ NoSilentSignOut
  BY DEF Init, SingleSuccessor, OneLivePerSession, NoSilentSignOut
<1> QED
  BY <1>1, <1>2, <1>3 DEF SessionInv

\* A step that commits nothing and mints nothing keeps what the tables say,
\* provided it changes no request that has committed.
LEMMA QuietStep ==
  ASSUME TypeInv, SessionInv,
         UNCHANGED <<rows, committed, signedOut, root>>,
         \A r \in committed : op'[r] = op[r] /\ arg'[r] = arg[r]
  PROVE  /\ RowInv'
         /\ SingleSuccessor' /\ OneLivePerSession' /\ NoSilentSignOut'
         /\ \A t \in Issued' : root'[t] \in committed' /\ op'[root'[t]] = "login"
         /\ \A r \in committed' : op'[r] = "login" => root'[r] = r
<1> USE DEF TypeInv, TypeOK, SessionInv
<1>1. RowInv'
  BY DEF RowInv, Issued, Mints
<1>2. SingleSuccessor' /\ OneLivePerSession' /\ NoSilentSignOut'
  BY DEF SingleSuccessor, OneLivePerSession, NoSilentSignOut
<1>3. \A t \in Issued' : root'[t] \in committed' /\ op'[root'[t]] = "login"
  BY DEF RootInv, Issued, Mints
<1>4. \A r \in committed' : op'[r] = "login" => root'[r] = r
  BY DEF RootInv
<1> QED
  BY <1>1, <1>2, <1>3, <1>4

\* A step that moves one handler on without taking or releasing locks.
LEMMA MoveStep ==
  ASSUME TypeInv, SessionInv, NEW r \in Requests, NEW stage \in Stages,
         UNCHANGED <<rows, rowLock, committed, signedOut, root, op, arg>>,
         pc' = [pc EXCEPT ![r] = stage],
         r \notin committed,
         pc[r] \in Holding => stage \in Holding,
         op[r] = "refresh" /\ stage \in Holding => pc[r] \in Holding,
         Mints(r) /\ stage \in {"commit", "respond"} => pc[r] \in {"commit", "respond"},
         stage = "respond" => ResponseFirst
  PROVE  LockInv' /\ HoldInv' /\ CommitInv' /\ RowInv' /\ RootInv'
         /\ SingleSuccessor' /\ OneLivePerSession' /\ NoSilentSignOut'
<1> USE DEF TypeInv, TypeOK, SessionInv
<1>1. LockInv'
  BY DEF LockInv
<1>2. HoldInv'
  BY DEF HoldInv
<1>3. CommitInv'
  BY DEF CommitInv
<1>4. RootInv'
  BY QuietStep DEF RootInv, Mints
<1> QED
  BY <1>1, <1>2, <1>3, <1>4, QuietStep

\* A handler that ends without committing: its locks are released.
LEMMA RefuseStep ==
  ASSUME TypeInv, SessionInv, NEW rs \in SUBSET Requests,
         rowLock' = [t \in Requests |-> IF rowLock[t] \in rs THEN None ELSE rowLock[t]],
         UNCHANGED <<rows, committed, signedOut, root, op, arg>>,
         pc' = [q \in Requests |-> IF q \in rs THEN "done" ELSE pc[q]]
  PROVE  LockInv' /\ HoldInv' /\ CommitInv' /\ RowInv' /\ RootInv'
         /\ SingleSuccessor' /\ OneLivePerSession' /\ NoSilentSignOut'
<1> USE ConstantsAssumption DEF TypeInv, TypeOK, SessionInv
<1>1. LockInv'
  BY DEF LockInv
<1>2. HoldInv'
  BY DEF HoldInv, Holding
<1>3. CommitInv'
  BY DEF CommitInv
<1>4. RootInv'
  BY QuietStep DEF RootInv, Mints
<1> QED
  BY <1>1, <1>2, <1>3, <1>4, QuietStep

\* The commit: a rotation swaps the row it holds for its own, a logout deletes
\* the row it holds, a login adds its own.
LEMMA CommitStep ==
  ASSUME TypeInv, SessionInv, NEW r \in Requests, NEW stage,
         pc[r] = "commit", Apply(r), UNCHANGED <<op, arg, root>>,
         pc' = [pc EXCEPT ![r] = stage],
         stage = "done" \/ (stage = "respond" /\ ~ResponseFirst)
  PROVE  LockInv' /\ HoldInv' /\ CommitInv' /\ RowInv' /\ RootInv'
         /\ SingleSuccessor' /\ OneLivePerSession' /\ NoSilentSignOut'
<1> USE ConstantsAssumption DEF TypeInv, TypeOK, SessionInv
<1>1. /\ r \notin committed
      /\ committed' = committed \cup {r}
      /\ rows' = (rows \ HeldBy(r)) \cup {t \in {r} : Mints(r)}
      /\ rowLock' = [t \in Requests |-> IF rowLock[t] = r THEN None ELSE rowLock[t]]
      /\ signedOut' = signedOut \cup {root[t] : t \in {u \in HeldBy(r) : op[r] = "logout"}}
  BY DEF CommitInv, Apply, Unlock
<1>2. /\ HeldBy(r) \subseteq rows /\ HeldBy(r) \subseteq {arg[r]}
      /\ HeldBy(r) # {} => op[r] \in TokenOps
      /\ op[r] = "refresh" => HeldBy(r) = {arg[r]} /\ arg[r] \in Requests
  BY <1>1 DEF HeldBy, LockInv, HoldInv, Holding
<1>3. r \notin rows /\ r \notin Issued
  BY <1>1 DEF RowInv, Issued
<1>4. Issued' = Issued \cup {t \in {r} : Mints(r)}
  BY <1>1 DEF Issued, Mints
<1>5. LockInv'
  <2> SUFFICES ASSUME NEW t \in Requests, NEW q \in Requests, rowLock'[t] = q
      PROVE t \in rows' /\ arg'[q] = t /\ op'[q] \in TokenOps
            /\ pc'[q] \in Holding /\ q \notin committed'
    BY DEF LockInv
  <2>1. rowLock[t] = q /\ q # r
    BY <1>1
  <2>2. t \in rows /\ arg[q] = t /\ op[q] \in TokenOps /\ pc[q] \in Holding /\ q \notin committed
    BY <2>1 DEF LockInv
  <2> QED
    BY <2>1, <2>2, <1>1 DEF HeldBy
<1>6. HoldInv'
  BY <1>1 DEF HoldInv, LockInv
<1>7. CommitInv'
  BY <1>1 DEF CommitInv
<1>8. RowInv'
  <2>1. rows' \subseteq Issued' /\ \A q \in committed' : op'[q] = "refresh" => arg'[q] \in Issued' \ rows'
    BY <1>1, <1>2, <1>3, <1>4 DEF RowInv
  <2>2. \A t \in HeldBy(r) : root[t] \in committed
    BY <1>2 DEF RowInv, RootInv
  <2>3. signedOut' \subseteq committed'
    BY <1>1, <2>2 DEF RowInv
  <2> QED
    BY <2>1, <2>3 DEF RowInv
<1>9. RootInv'
  <2>1. \A t \in Issued' : root'[t] \in committed' /\ op'[root'[t]] = "login"
    BY <1>1, <1>2, <1>4 DEF RootInv, RowInv, Mints
  <2>2. \A q \in committed' : op'[q] = "login" => root'[q] = q
    BY <1>1 DEF RootInv, Mints
  <2>3. \A q \in Requests :
          Mints(q)' /\ pc'[q] \in {"commit", "respond"} /\ q \notin committed' =>
              root'[q] = IF op'[q] = "login" THEN q ELSE root'[arg'[q]]
    BY <1>1 DEF RootInv, Mints
  <2> QED
    BY <2>1, <2>2, <2>3 DEF RootInv
<1>10. SingleSuccessor'
  BY <1>1, <1>2 DEF SingleSuccessor, RowInv
<1>11. OneLivePerSession'
  <2>1. CASE op[r] = "refresh"
    BY <2>1, <1>1, <1>2 DEF OneLivePerSession, RootInv, Mints
  <2>2. CASE op[r] = "login"
    BY <2>2, <1>1, <1>2 DEF OneLivePerSession, RootInv, RowInv, Mints
  <2>3. CASE ~Mints(r)
    BY <2>3, <1>1 DEF OneLivePerSession
  <2> QED
    BY <2>1, <2>2, <2>3 DEF Mints
<1>12. NoSilentSignOut'
  <2> SUFFICES ASSUME NEW s \in committed', op'[s] = "login"
      PROVE s \in signedOut' <=> \A t \in rows' : root'[t] # s
    BY DEF NoSilentSignOut
  <2>1. CASE s = r
    <3>1. r \in rows' /\ root'[r] = r /\ HeldBy(r) = {}
      BY <2>1, <1>1, <1>2 DEF RootInv, Mints, TokenOps
    <3>2. r \notin signedOut'
      BY <3>1, <1>1 DEF RowInv
    <3> QED
      BY <2>1, <3>1, <3>2
  <2>2. CASE s # r /\ s \in signedOut
    <3>1. \A t \in rows : root[t] # s
      BY <2>2, <1>1 DEF NoSilentSignOut
    <3>2. Mints(r) => root[r] # s
      BY <2>2, <3>1, <1>1, <1>2 DEF RootInv, Mints
    <3> QED
      BY <2>2, <3>1, <3>2, <1>1
  <2>3. CASE s # r /\ s \notin signedOut
    <3>1. PICK t \in rows : root[t] = s
      BY <2>3, <1>1 DEF NoSilentSignOut
    <3>2. CASE t \notin HeldBy(r)
      <4>1. t \in rows' /\ \A u \in HeldBy(r) : root[u] # s
        BY <3>1, <3>2, <1>1, <1>2 DEF OneLivePerSession
      <4> QED
        BY <2>3, <3>1, <4>1, <1>1
    <3>3. CASE t \in HeldBy(r) /\ op[r] = "logout"
      <4>1. s \in signedOut' /\ rows' = rows \ {t}
        BY <3>1, <3>3, <1>1, <1>2 DEF Mints
      <4> QED
        BY <3>1, <4>1 DEF OneLivePerSession
    <3>4. CASE t \in HeldBy(r) /\ op[r] = "refresh"
      BY <2>3, <3>1, <3>4, <1>1, <1>2 DEF RootInv, Mints
    <3> QED
      BY <3>2, <3>3, <3>4, <1>2 DEF TokenOps
  <2> QED
    BY <2>1, <2>2, <2>3
<1> QED
  BY <1>5, <1>6, <1>7, <1>8, <1>9, <1>10, <1>11, <1>12

\* Every step keeps SessionInv, action by action.
LEMMA NextSessionInv == TypeInv /\ SessionInv /\ [Next]_vars => SessionInv'
<1> SUFFICES ASSUME TypeInv, SessionInv, [Next]_vars PROVE SessionInv'
  OBVIOUS
<1> DEFINE Rest == LockInv /\ HoldInv /\ CommitInv /\ RowInv /\ RootInv
                   /\ SingleSuccessor /\ OneLivePerSession /\ NoSilentSignOut
<1> SUFFICES Rest'
  BY NextTypeInv DEF TypeInv, SessionInv
<1> USE ConstantsAssumption DEF Stages, Waiting, Working, Goto, tables, locks,
        asked, minted, history, world
<1>0. TypeOK /\ StageInv /\ CommitInv
  BY DEF TypeInv, SessionInv
<1>1. ASSUME NEW r \in Requests, Start(r) PROVE Rest'
  <2>1. /\ pc[r] = "idle" /\ r \notin committed
        /\ pc' = [pc EXCEPT ![r] = pc'[r]] /\ pc'[r] \in {"lookup", "decode", "select"}
        /\ op' = [op EXCEPT ![r] = op'[r]] /\ arg' = [arg EXCEPT ![r] = arg'[r]]
        /\ UNCHANGED <<rows, rowLock, committed, signedOut, root>>
    BY <1>0, <1>1 DEF Start, StartAccount, StartToken, TypeOK, CommitInv
  <2>2. \A q \in Requests : q # r => op'[q] = op[q] /\ arg'[q] = arg[q] /\ pc'[q] = pc[q]
    BY <1>0, <2>1 DEF TypeOK
  <2>3. LockInv'
    BY <1>0, <2>1, <2>2 DEF SessionInv, LockInv, Holding, TypeOK
  <2>4. HoldInv'
    BY <1>0, <2>1, <2>2 DEF SessionInv, HoldInv, Holding, TypeOK
  <2>5. CommitInv'
    BY <1>0, <2>1, <2>2 DEF CommitInv, TypeOK
  <2>6. RootInv'
    BY <1>0, <2>1, <2>2, QuietStep DEF SessionInv, RootInv, Mints, TypeOK
  <2> QED
    BY <1>0, <2>1, <2>2, <2>3, <2>4, <2>5, <2>6, QuietStep DEF TypeOK
<1>2. ASSUME NEW r \in Requests, Rollback(r), pc' = [pc EXCEPT ![r] = "done"],
             UNCHANGED <<root, op, arg>>
      PROVE Rest'
  <2>1. pc' = [q \in Requests |-> IF q \in {r} THEN "done" ELSE pc[q]]
    BY <1>0, <1>2 DEF TypeOK
  <2>2. /\ rowLock' = [t \in Requests |-> IF rowLock[t] \in {r} THEN None ELSE rowLock[t]]
        /\ UNCHANGED <<rows, committed, signedOut, root, op, arg>>
    BY <1>2, Zenon DEF Rollback, Unlock
  <2> QED
    BY <2>1, <2>2, {r} \in SUBSET Requests, RefuseStep, ZenonT(40)
<1>3. ASSUME NEW r \in Requests, NEW status, Refuse(r, status) PROVE Rest'
  BY <1>2, <1>3 DEF Refuse
<1>4. ASSUME NEW r \in Requests, RegisterLookup(r) PROVE Rest'
  BY <1>0, <1>4, <1>3, MoveStep DEF RegisterLookup, CommitInv, Holding, Mints
<1>5. ASSUME NEW r \in Requests, RegisterInsert(r) PROVE Rest'
  BY <1>0, <1>5, <1>3, MoveStep
  DEF RegisterInsert, AfterHandler, CommitInv, StageInv, Holding, Mints
<1>6. ASSUME NEW r \in Requests, LoginLookup(r) PROVE Rest'
  BY <1>0, <1>6, <1>3, MoveStep DEF LoginLookup, CommitInv, Holding, Mints
<1>7. ASSUME NEW r \in Requests, CreateTokenPair(r) PROVE Rest'
  <2>1. /\ pc[r] = "mint" /\ r \notin committed /\ Mints(r) /\ r \notin Issued
        /\ op[r] = "refresh" => arg[r] \in rows /\ arg[r] \in committed
        /\ pc' = [pc EXCEPT ![r] = AfterHandler]
        /\ root' = [root EXCEPT ![r] = IF op[r] = "login" THEN r ELSE root[arg[r]]]
        /\ UNCHANGED <<rows, rowLock, committed, signedOut, op, arg>>
    BY <1>0, <1>7 DEF CreateTokenPair, CommitInv, StageInv, SessionInv, HoldInv, LockInv,
                      RowInv, Issued, Holding
  <2>2. \A t \in committed : root'[t] = root[t]
    BY <1>0, <2>1 DEF TypeOK
  <2>3. rows \subseteq committed
    BY DEF SessionInv, RowInv, Issued
  <2>4. LockInv' /\ HoldInv' /\ CommitInv'
    BY <1>0, <2>1 DEF SessionInv, LockInv, HoldInv, CommitInv, Holding, AfterHandler, TypeOK
  <2>5. RowInv'
    BY <2>1 DEF SessionInv, RowInv, Issued, Mints
  <2>6. RootInv'
    <3>1. \A t \in Issued' : root'[t] \in committed' /\ op'[root'[t]] = "login"
      BY <2>1, <2>2 DEF SessionInv, RootInv, Issued, Mints
    <3>2. \A q \in committed' : op'[q] = "login" => root'[q] = q
      BY <2>1, <2>2 DEF SessionInv, RootInv
    <3>3. ASSUME NEW q \in Requests, Mints(q)', pc'[q] \in {"commit", "respond"},
                 q \notin committed'
          PROVE root'[q] = IF op'[q] = "login" THEN q ELSE root'[arg'[q]]
      <4>1. CASE q = r
        BY <4>1, <1>0, <2>1, <2>2 DEF TypeOK
      <4>2. CASE q # r
        <5>1. /\ Mints(q) /\ pc[q] \in {"commit", "respond"} /\ q \notin committed
              /\ root'[q] = root[q]
          BY <4>2, <3>3, <1>0, <2>1 DEF TypeOK, Mints
        <5>2. op[q] = "refresh" => arg[q] \in committed
          BY <5>1, <2>3 DEF SessionInv, HoldInv, LockInv, Holding
        <5> QED
          BY <5>1, <5>2, <2>1, <2>2 DEF SessionInv, RootInv, Mints
      <4> QED
        BY <4>1, <4>2
    <3> QED
      BY <3>1, <3>2, <3>3 DEF RootInv
  <2>7. SingleSuccessor' /\ OneLivePerSession' /\ NoSilentSignOut'
    BY <2>1, <2>2, <2>3 DEF SessionInv, SingleSuccessor, OneLivePerSession, NoSilentSignOut
  <2> QED
    BY <2>4, <2>5, <2>6, <2>7
<1>8. ASSUME NEW r \in Requests, RefreshDecode(r) PROVE Rest'
  BY <1>0, <1>8, <1>3, MoveStep DEF RefreshDecode, CommitInv, Holding
<1>9. ASSUME NEW r \in Requests, pc[r] = "select", arg[r] \in rows, RowFree(arg[r]),
             rowLock' = [rowLock EXCEPT ![arg[r]] = r],
             op[r] \in TokenOps,
             NEW stage \in Holding, pc' = [pc EXCEPT ![r] = stage],
             stage = "respond" => ResponseFirst, op[r] = "refresh" => stage = "expiry",
             UNCHANGED <<rows, committed, signedOut, root, op, arg>>
      PROVE Rest'
  <2>1. r \notin committed /\ rowLock[arg[r]] = None /\ arg[r] \in Requests
    BY <1>0, <1>9 DEF CommitInv, RowFree, TypeOK
  <2>2. LockInv'
    BY <1>0, <1>9, <2>1 DEF SessionInv, LockInv, TypeOK
  <2>3. HoldInv'
    BY <1>0, <1>9, <2>1 DEF SessionInv, HoldInv, TypeOK
  <2>4. CommitInv'
    BY <1>0, <1>9, <2>1 DEF CommitInv, TypeOK
  <2>5. RootInv'
    BY <1>0, <1>9, <2>1, QuietStep DEF SessionInv, RootInv, Mints, TokenOps, TypeOK
  <2> QED
    BY <1>0, <1>9, <2>1, <2>2, <2>3, <2>4, <2>5, QuietStep DEF TypeOK
<1>10. ASSUME NEW r \in Requests, RefreshSelect(r) PROVE Rest'
  BY <1>10, <1>9, <1>3 DEF RefreshSelect, Holding, TokenOps
<1>11. ASSUME NEW r \in Requests, RefreshExpiry(r) PROVE Rest'
  BY <1>0, <1>11, <1>3, MoveStep DEF RefreshExpiry, CommitInv, Holding
<1>12. ASSUME NEW r \in Requests, RefreshOwner(r) PROVE Rest'
  BY <1>0, <1>12, <1>3, MoveStep DEF RefreshOwner, CommitInv, Holding
<1>13. ASSUME NEW r \in Requests, LogoutSelect(r) PROVE Rest'
  <2>1. CASE arg[r] \in rows
    <3>1. rowLock' = [rowLock EXCEPT ![arg[r]] = r]
      BY <1>0, <1>13, <2>1, ZenonT(40) DEF LogoutSelect, TypeOK
    <3> QED
      BY <1>13, <1>9, <2>1, <3>1 DEF LogoutSelect, AfterHandler, Holding, TokenOps
  <2>2. CASE arg[r] \notin rows
    <3>1. rowLock' = rowLock
      BY <1>0, <1>13, <2>2 DEF LogoutSelect, TypeOK
    <3>2. /\ op[r] = "logout" /\ r \notin committed /\ pc[r] \notin Holding
          /\ AfterHandler \in Stages /\ pc' = [pc EXCEPT ![r] = AfterHandler]
          /\ AfterHandler = "respond" => ResponseFirst
          /\ UNCHANGED <<rows, committed, signedOut, root, op, arg>>
      BY <1>0, <1>13 DEF LogoutSelect, AfterHandler, CommitInv, Holding
    <3>3. ~Mints(r)
      BY <3>2 DEF Mints
    <3> QED
      BY <3>1, <3>2, <3>3, MoveStep
  <2> QED
    BY <2>1, <2>2
<1>14. ASSUME NEW r \in Requests, Commit(r) PROVE Rest'
  BY <1>14, CommitStep DEF Commit, AfterCommit
<1>15. ASSUME NEW r \in Requests, pc[r] = "respond", pc' = [pc EXCEPT ![r] = AfterResponse],
              UNCHANGED <<rows, rowLock, committed, signedOut, root, op, arg>>
       PROVE Rest'
  <2>1. CASE ResponseFirst
    BY <1>0, <1>15, <2>1, MoveStep DEF AfterResponse, CommitInv, Holding
  <2>2. CASE ~ResponseFirst
    <3>1. r \in committed /\ pc' = [pc EXCEPT ![r] = "done"]
      BY <1>0, <1>15, <2>2 DEF AfterResponse, CommitInv
    <3>2. LockInv' /\ HoldInv' /\ CommitInv'
      BY <1>0, <1>15, <3>1 DEF SessionInv, LockInv, HoldInv, CommitInv, Holding, TypeOK
    <3>3. RootInv'
      BY <1>0, <1>15, <3>1, QuietStep DEF SessionInv, RootInv, Mints, TypeOK
    <3> QED
      BY <1>15, <3>2, <3>3, QuietStep
  <2> QED
    BY <2>1, <2>2
<1>16. ASSUME NEW r \in Requests, Respond(r) \/ ResponseLost(r) PROVE Rest'
  BY <1>16, <1>15 DEF Respond, ResponseLost
<1>17. ASSUME NEW r \in Requests, CommitFails(r) PROVE Rest'
  BY <1>17, <1>2 DEF CommitFails
<1>18. ASSUME NEW r \in Requests, CommitUnconfirmed(r) PROVE Rest'
  BY <1>18, CommitStep DEF CommitUnconfirmed
<1>19. ASSUME Crash PROVE Rest'
  BY <1>19, InFlight \in SUBSET Requests, RefuseStep DEF Crash, Unlock, InFlight
<1>20. ASSUME UNCHANGED <<rows, rowLock, committed, signedOut, root, op, arg, pc>>
       PROVE Rest'
  BY <1>20, QuietStep
  DEF SessionInv, LockInv, HoldInv, CommitInv, RootInv, Mints
<1>21. ASSUME Tick \/ \E e \in Emails : Deactivate(e) PROVE Rest'
  BY <1>21, <1>20 DEF Tick, Deactivate
<1>22. CASE UNCHANGED vars
  BY <1>22, <1>20 DEF vars
<1> QED
  BY <1>1, <1>4, <1>5, <1>6, <1>7, <1>8, <1>10, <1>11, <1>12, <1>13, <1>14, <1>16,
     <1>17, <1>18, <1>19, <1>21, <1>22 DEF Next, Step, RequestFault

\* The inductive invariant holds in every reachable state.
THEOREM SessionsCorrect == Spec => []SessionsSound
<1>1. Init => TypeInv /\ SessionInv
  BY InitTypeInv, InitSessionInv
<1>2. TypeInv /\ SessionInv /\ [Next]_vars => (TypeInv /\ SessionInv)'
  BY NextTypeInv, NextSessionInv
<1>3. TypeInv /\ SessionInv => SessionsSound
  BY DEF TypeInv, SessionsSound
<1> QED
  BY <1>1, <1>2, <1>3, PTL DEF Spec

\* A refresh token is rotated at most once: the row lock and the deletion of the
\* row in the rotating transaction admit one winner, however many try.
THEOREM RotatedOnce == Spec => []SingleSuccessor
<1>1. SessionsSound => SingleSuccessor
  BY DEF SessionsSound, SessionInv
<1> QED
  BY <1>1, SessionsCorrect, PTL

\* A session never has two live refresh tokens.
THEOREM NeverForks == Spec => []OneLivePerSession
<1>1. SessionsSound => OneLivePerSession
  BY DEF SessionsSound, SessionInv
<1> QED
  BY <1>1, SessionsCorrect, PTL

\* Refused, crashed and failed refreshes leave their session usable.
THEOREM NeverLost == Spec => []NoSilentSignOut
<1>1. SessionsSound => NoSilentSignOut
  BY DEF SessionsSound, SessionInv
<1> QED
  BY <1>1, SessionsCorrect, PTL

-----------------------------------------------------------------------------
(* AuthSessions implements RefreshLedger: a commit is one operation of the  *)
(* ledger, every other step leaves it alone.                                *)

LEMMA LedgerInit == Init => Ledger!Init
  BY DEF Init, Ledger!Init, Issued

LEMMA LedgerQuiet ==
  ASSUME SessionInv, UNCHANGED <<rows, committed>>,
         \A r \in committed : op'[r] = op[r]
  PROVE  UNCHANGED Ledger!ledger
  BY DEF Ledger!ledger, Issued, Mints, SessionInv

\* What a commit does to the ledger, by the operation that commits.
LEMMA LedgerCommit ==
  ASSUME TypeInv, SessionInv, NEW r \in Requests, pc[r] = "commit", Apply(r), op' = op
  PROVE  [Ledger!Next]_(Ledger!ledger)
<1> USE DEF TypeInv, TypeOK, SessionInv
<1>1. /\ r \notin committed
      /\ committed' = committed \cup {r}
      /\ rows' = (rows \ HeldBy(r)) \cup {t \in {r} : Mints(r)}
  BY DEF CommitInv, Apply
<1>2. /\ HeldBy(r) \subseteq rows /\ HeldBy(r) \subseteq {arg[r]}
      /\ HeldBy(r) # {} => op[r] \in TokenOps
      /\ op[r] = "refresh" => HeldBy(r) = {arg[r]} /\ arg[r] \in Requests
  BY <1>1 DEF HeldBy, LockInv, HoldInv, Holding
<1>3. r \notin Issued /\ rows \subseteq Issued
  BY <1>1 DEF RowInv, Issued
<1>4. Issued' = Issued \cup {t \in {r} : Mints(r)}
  BY <1>1 DEF Issued, Mints
<1>5. CASE op[r] = "login"
  <2>1. Ledger!SignIn(r)
    BY <1>1, <1>2, <1>3, <1>4, <1>5 DEF Ledger!SignIn, Ledger!Unused, Mints, TokenOps
  <2> QED
    BY <2>1 DEF Ledger!Next
<1>6. CASE op[r] = "refresh"
  <2>1. Ledger!Rotate(arg[r], r)
    BY <1>1, <1>2, <1>3, <1>4, <1>6 DEF Ledger!Rotate, Ledger!Unused, Mints
  <2> QED
    BY <2>1, <1>2, <1>6 DEF Ledger!Next
<1>7. CASE ~Mints(r) /\ HeldBy(r) = {}
  BY <1>1, <1>4, <1>7 DEF Ledger!ledger
<1>8. CASE ~Mints(r) /\ HeldBy(r) # {}
  <2>1. PICK t \in rows : HeldBy(r) = {t} /\ t \in Requests
    BY <1>2, <1>8
  <2>2. Ledger!SignOut(t)
    BY <2>1, <1>1, <1>3, <1>4, <1>8 DEF Ledger!SignOut
  <2> QED
    BY <2>1, <2>2 DEF Ledger!Next
<1> QED
  BY <1>5, <1>6, <1>7, <1>8 DEF Mints

LEMMA LedgerStep == TypeInv /\ SessionInv /\ [Next]_vars => [Ledger!Next]_(Ledger!ledger)
<1> SUFFICES ASSUME TypeInv, SessionInv, [Next]_vars PROVE [Ledger!Next]_(Ledger!ledger)
  OBVIOUS
<1> USE DEF tables, locks, asked, minted, history, world
<1>1. ASSUME NEW r \in Requests, Commit(r) \/ CommitUnconfirmed(r)
      PROVE [Ledger!Next]_(Ledger!ledger)
  BY <1>1, LedgerCommit DEF Commit, CommitUnconfirmed
<1>2. ASSUME UNCHANGED <<rows, committed, op>> PROVE [Ledger!Next]_(Ledger!ledger)
  BY <1>2, LedgerQuiet
<1>3. ASSUME NEW r \in Requests, Start(r) PROVE [Ledger!Next]_(Ledger!ledger)
  <2>1. r \notin committed /\ UNCHANGED <<rows, committed>>
        /\ op' = [op EXCEPT ![r] = op'[r]]
    BY <1>3 DEF Start, StartAccount, StartToken, SessionInv, CommitInv, TypeInv, TypeOK
  <2>2. \A q \in committed : op'[q] = op[q]
    BY <2>1 DEF TypeInv, TypeOK
  <2> QED
    BY <2>1, <2>2, LedgerQuiet
<1>4. ASSUME NEW r \in Requests, NEW status, Refuse(r, status)
      PROVE [Ledger!Next]_(Ledger!ledger)
  BY <1>4, <1>2 DEF Refuse, Rollback
<1>5. ASSUME NEW r \in Requests,
             RegisterLookup(r) \/ RegisterInsert(r) \/ LoginLookup(r) \/ CreateTokenPair(r)
      PROVE [Ledger!Next]_(Ledger!ledger)
  BY <1>5, <1>2, <1>4 DEF RegisterLookup, RegisterInsert, LoginLookup, CreateTokenPair
<1>6. ASSUME NEW r \in Requests,
             RefreshDecode(r) \/ RefreshSelect(r) \/ RefreshExpiry(r) \/ RefreshOwner(r)
      PROVE [Ledger!Next]_(Ledger!ledger)
  BY <1>6, <1>2, <1>4 DEF RefreshDecode, RefreshSelect, RefreshExpiry, RefreshOwner
<1>7. ASSUME NEW r \in Requests,
             LogoutSelect(r) \/ Respond(r) \/ ResponseLost(r) \/ CommitFails(r)
      PROVE [Ledger!Next]_(Ledger!ledger)
  BY <1>7, <1>2 DEF LogoutSelect, Respond, ResponseLost, CommitFails, Rollback
<1>8. ASSUME Crash \/ Tick \/ \E e \in Emails : Deactivate(e)
      PROVE [Ledger!Next]_(Ledger!ledger)
  BY <1>8, <1>2 DEF Crash, Tick, Deactivate
<1>9. CASE UNCHANGED vars
  BY <1>9, <1>2 DEF vars
<1> QED
  BY <1>1, <1>3, <1>5, <1>6, <1>7, <1>8, <1>9 DEF Next, Step, RequestFault

\* Every behaviour of the gateway's transactions is one of the atomic ledger's.
THEOREM ImplementsLedger == Spec => KeepsLedger
<1>1. Init => TypeInv /\ SessionInv
  BY InitTypeInv, InitSessionInv
<1>2. TypeInv /\ SessionInv /\ [Next]_vars => (TypeInv /\ SessionInv)'
  BY NextTypeInv, NextSessionInv
<1> QED
  BY <1>1, <1>2, LedgerInit, LedgerStep, PTL DEF Spec, KeepsLedger, Ledger!Spec

=============================================================================
