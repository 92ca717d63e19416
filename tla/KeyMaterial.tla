---------------------------- MODULE KeyMaterial ----------------------------
(***************************************************************************)
(* The RSA key pair of the platform: scripts/generate_keys.py writes it, the *)
(* services read it while they start and keep it for the life of their      *)
(* process (shared/config.py, api-gateway/app/config.py), and the tokens    *)
(* signed with it are accepted by it (shared/auth.py).                      *)
(*                                                                          *)
(* A key pair is named by the invocation of the script that generated it:   *)
(* an invocation generates one, from fresh randomness.  A file is opened    *)
(* and written in two steps, and each read of a service is a step of its    *)
(* own, so that the files can change between any two of them.               *)
(***************************************************************************)
EXTENDS Integers

CONSTANTS
    Invocations,    \* the runs of generate_keys.py
    Services,       \* the processes that verify tokens
    Gateway,        \* the one among them that also signs: the api-gateway
    Logins,         \* the token pairs the gateway may issue
    None,           \* no file, no key, no token
    AccessLife,     \* jwt_access_token_expire_minutes, in clock ticks
    RefreshLife,    \* jwt_refresh_token_expire_days, in clock ticks
    MaxRemovals     \* bound of the model on removals of the public file

\* A key file: the key meant for it, and whether it has been written yet.
File(i, complete) == [key |-> i, complete |-> complete]
Files == [key : Invocations, complete : BOOLEAN]

ASSUME KeyAssumption ==
    /\ Gateway \in Services
    /\ None \notin Invocations \cup Files
    /\ AccessLife \in Nat \ {0} /\ RefreshLife \in Nat /\ AccessLife <= RefreshLife
    /\ MaxRemovals \in Nat

VARIABLES
    privateFile,    \* jwt-private.pem
    publicFile,     \* jwt-public.pem
    at,             \* where each invocation stands
    state,          \* "down", "starting" or "up", for each service
    publicKey,      \* settings.public_key of each process, once cached
    signingKey,     \* settings.private_key of the gateway's, once cached
    issued,         \* the key that signed each token pair
    age,            \* ticks since it was issued
    removals,       \* history: how often the public file was removed
    disturbed,      \* history: a file was removed while a script was running
    readAt,         \* history: removals when each service read the public key
    signedAt        \* history: the same of the gateway that issued each pair

files    == <<privateFile, publicFile>>
services == <<state, publicKey, signingKey, readAt>>
tokens   == <<issued, age, signedAt>>
operator == <<removals, disturbed>>
vars     == <<files, at, services, tokens, operator>>

Complete(f) == f # None /\ f.complete

Running == {"checkPublic", "openPrivate", "writePrivate", "openPublic", "writePublic"}
Stages  == {"idle", "done", "refused", "killed"} \cup Running

UnderWay == \E i \in Invocations : at[i] \in Running

-----------------------------------------------------------------------------
(* generate_keys.py *)

Move(i, stage) == at' = [at EXCEPT ![i] = stage]

\* private_path.exists()
CheckPrivate(i) ==
    /\ at[i] = "idle"
    /\ Move(i, IF privateFile = None THEN "checkPublic" ELSE "refused")
    /\ UNCHANGED <<files, services, tokens, operator>>

\* Variant: the public file is not looked for.
CheckPublicForgotten(i) ==
    /\ at[i] = "checkPublic"
    /\ Move(i, "openPrivate")
    /\ UNCHANGED <<files, services, tokens, operator>>

\* public_path.exists(); then the key is generated.
CheckPublic(i) ==
    /\ at[i] = "checkPublic"
    /\ Move(i, IF publicFile = None THEN "openPrivate" ELSE "refused")
    /\ UNCHANGED <<files, services, tokens, operator>>

\* Variant: no O_EXCL, so that an existing file is truncated.
OpenPrivateTruncating(i) ==
    /\ at[i] = "openPrivate"
    /\ privateFile' = File(i, FALSE) /\ Move(i, "writePrivate")
    /\ UNCHANGED <<publicFile, services, tokens, operator>>

\* os.open with O_CREAT | O_EXCL.
OpenPrivate(i) ==
    /\ at[i] = "openPrivate"
    /\ IF privateFile = None
         THEN privateFile' = File(i, FALSE) /\ Move(i, "writePrivate")
         ELSE Move(i, "refused") /\ UNCHANGED privateFile
    /\ UNCHANGED <<publicFile, services, tokens, operator>>

\* What is written to an open file that was removed is lost with it.
Written(f, i) == IF f = File(i, FALSE) THEN File(i, TRUE) ELSE f

WritePrivate(i) ==
    /\ at[i] = "writePrivate"
    /\ privateFile' = Written(privateFile, i)
    /\ Move(i, "openPublic")
    /\ UNCHANGED <<publicFile, services, tokens, operator>>

\* open("xb")
OpenPublic(i) ==
    /\ at[i] = "openPublic"
    /\ IF publicFile = None
         THEN publicFile' = File(i, FALSE) /\ Move(i, "writePublic")
         ELSE Move(i, "refused") /\ UNCHANGED publicFile
    /\ UNCHANGED <<privateFile, services, tokens, operator>>

WritePublic(i) ==
    /\ at[i] = "writePublic"
    /\ publicFile' = Written(publicFile, i)
    /\ Move(i, "done")
    /\ UNCHANGED <<privateFile, services, tokens, operator>>

Generate(i) ==
    \/ CheckPrivate(i) \/ CheckPublic(i)
    \/ OpenPrivate(i) \/ WritePrivate(i) \/ OpenPublic(i) \/ WritePublic(i)

\* The script is killed, or a write fails: nothing it made is taken back.
Interrupt(i) ==
    /\ at[i] \in Running
    /\ Move(i, "killed")
    /\ UNCHANGED <<files, services, tokens, operator>>

\* The operator makes room for a new pair.
RemovePrivate ==
    /\ privateFile # None
    /\ privateFile' = None
    /\ disturbed' = (disturbed \/ UnderWay)
    /\ UNCHANGED <<publicFile, at, services, tokens, removals>>

RemovePublic ==
    /\ publicFile # None /\ removals < MaxRemovals
    /\ publicFile' = None
    /\ removals' = removals + 1
    /\ disturbed' = (disturbed \/ UnderWay)
    /\ UNCHANGED <<privateFile, at, services, tokens>>

-----------------------------------------------------------------------------
(* A service from its start to its end *)

\* The process ends, with everything it cached.
Exit(s) ==
    /\ state' = [state EXCEPT ![s] = "down"]
    /\ publicKey' = [publicKey EXCEPT ![s] = None]
    /\ signingKey' = IF s = Gateway THEN None ELSE signingKey
    /\ UNCHANGED readAt

Stop(s) ==
    /\ state[s] # "down"
    /\ Exit(s)
    /\ UNCHANGED <<files, at, tokens, operator>>

Start(s) ==
    /\ state[s] = "down"
    /\ state' = [state EXCEPT ![s] = "starting"]
    /\ UNCHANGED <<files, at, publicKey, signingKey, readAt, tokens, operator>>

\* The public key is cached; the gateway has its private key to read yet.
Cache(s, key) ==
    /\ publicKey' = [publicKey EXCEPT ![s] = key]
    /\ readAt' = [readAt EXCEPT ![s] = removals]
    /\ state' = [state EXCEPT ![s] = IF s = Gateway THEN "starting" ELSE "up"]
    /\ UNCHANGED signingKey

\* Variant: the text of the file is cached without being parsed.
LoadPublicUnparsed(s) ==
    /\ state[s] = "starting" /\ publicKey[s] = None
    /\ IF publicFile # None
         THEN Cache(s, IF publicFile.complete THEN publicFile.key ELSE None)
         ELSE Exit(s)
    /\ UNCHANGED <<files, at, tokens, operator>>

\* settings.public_key: with no file, or nothing in it yet, the start fails.
LoadPublic(s) ==
    /\ state[s] = "starting" /\ publicKey[s] = None
    /\ IF Complete(publicFile) THEN Cache(s, publicFile.key) ELSE Exit(s)
    /\ UNCHANGED <<files, at, tokens, operator>>

ServeWith(key) ==
    /\ signingKey' = key
    /\ state' = [state EXCEPT ![Gateway] = "up"]
    /\ UNCHANGED <<publicKey, readAt>>

\* Variant: the private key is not compared with the public one.
LoadPrivateUncompared ==
    /\ state[Gateway] = "starting" /\ publicKey[Gateway] # None
    /\ IF Complete(privateFile) THEN ServeWith(privateFile.key) ELSE Exit(Gateway)
    /\ UNCHANGED <<files, at, tokens, operator>>

\* settings.private_key: it must belong to the public key already cached.
LoadPrivate ==
    /\ state[Gateway] = "starting" /\ publicKey[Gateway] # None
    /\ IF Complete(privateFile) /\ privateFile.key = publicKey[Gateway]
         THEN ServeWith(privateFile.key)
         ELSE Exit(Gateway)
    /\ UNCHANGED <<files, at, tokens, operator>>

-----------------------------------------------------------------------------
(* Tokens *)

TokenTypes == {"access", "refresh"}
Life(type) == IF type = "access" THEN AccessLife ELSE RefreshLife
Oldest == RefreshLife + 1

\* A login or a refresh: an access and a refresh token, signed alike.
Issue(p) ==
    /\ state[Gateway] = "up" /\ issued[p] = None
    /\ issued' = [issued EXCEPT ![p] = signingKey]
    /\ signedAt' = [signedAt EXCEPT ![p] = readAt[Gateway]]
    /\ UNCHANGED <<files, at, services, age, operator>>

\* s, expecting a token of one type, gets the token of that or the other type
\* of the pair p.
decode_token(s, p, type, expected) ==
    /\ issued[p] = publicKey[s]
    /\ age[p] <= Life(type)
    /\ type = expected

Accepts(s, p, type, expected) ==
    /\ state[s] = "up" /\ issued[p] # None
    /\ decode_token(s, p, type, expected)

Tick ==
    /\ age' = [p \in Logins |-> IF issued[p] # None /\ age[p] < Oldest THEN age[p] + 1 ELSE age[p]]
    /\ UNCHANGED <<files, at, services, issued, signedAt, operator>>

-----------------------------------------------------------------------------
Init ==
    /\ privateFile = None /\ publicFile = None
    /\ at = [i \in Invocations |-> "idle"]
    /\ state = [s \in Services |-> "down"]
    /\ publicKey = [s \in Services |-> None]
    /\ signingKey = None
    /\ issued = [p \in Logins |-> None]
    /\ age = [p \in Logins |-> 0]
    /\ removals = 0 /\ disturbed = FALSE
    /\ readAt = [s \in Services |-> 0]
    /\ signedAt = [p \in Logins |-> 0]

Next ==
    \/ \E i \in Invocations : Generate(i) \/ Interrupt(i)
    \/ RemovePrivate \/ RemovePublic
    \/ \E s \in Services : Start(s) \/ LoadPublic(s) \/ Stop(s)
    \/ LoadPrivate
    \/ \E p \in Logins : Issue(p)
    \/ Tick

Spec == Init /\ [][Next]_vars

-----------------------------------------------------------------------------
(* Properties *)

TypeOK ==
    /\ privateFile \in Files \cup {None} /\ publicFile \in Files \cup {None}
    /\ at \in [Invocations -> Stages]
    /\ state \in [Services -> {"down", "starting", "up"}]
    /\ publicKey \in [Services -> Invocations \cup {None}]
    /\ signingKey \in Invocations \cup {None}
    /\ \A s \in Services : state[s] = "up" => publicKey[s] # None
    /\ issued \in [Logins -> Invocations \cup {None}] /\ age \in [Logins -> 0..Oldest]
    /\ removals \in Nat /\ disturbed \in BOOLEAN
    /\ readAt \in [Services -> Nat] /\ signedAt \in [Logins -> Nat]

\* No invocation replaces or empties a file another one made, whatever happened
\* between its checks and its writes: a file only goes from empty to complete,
\* or away when the operator removes it.
Kept(f, g) == f # None => g \in {f, None, File(f.key, TRUE)}

KeepsKeys == [][Kept(privateFile, privateFile') /\ Kept(publicFile, publicFile')]_files

\* As long as nobody removes files under a running script, a public key lies
\* beside the complete private key it belongs to, or beside none: interrupted and
\* concurrent invocations and the removal of one file of the two included.
PairMatches ==
    ~disturbed /\ publicFile # None /\ privateFile # None =>
        privateFile = File(publicFile.key, TRUE)

\* A service accepts a token where one of its type is expected, during its life,
\* exactly when it and the issuer read the same public file, removed neither
\* before nor in between: however the two files were replaced between the reads
\* of a starting gateway, all services that started on the same keys trust each
\* other's tokens, and one restarted on new keys trusts no old one.
TrustFollowsFiles ==
    \A s \in Services, p \in Logins, type \in TokenTypes, expected \in TokenTypes :
        state[s] = "up" /\ issued[p] # None =>
            (Accepts(s, p, type, expected) <=>
                /\ type = expected /\ age[p] <= Life(type)
                /\ readAt[s] = signedAt[p])

=============================================================================
