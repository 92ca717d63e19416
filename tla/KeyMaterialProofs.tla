------------------------- MODULE KeyMaterialProofs -------------------------
(***************************************************************************)
(* Theorems about KeyMaterial, for any number of invocations, services and  *)
(* logins and any number of removals.                                       *)
(***************************************************************************)
EXTENDS KeyMaterial, TLAPS

\* What holds of the two files while nobody removes one under a running script.
Orderly ==
    ~disturbed =>
        /\ PairMatches
        /\ \A i \in Invocations :
             /\ at[i] = "openPrivate" /\ privateFile = None => publicFile = None
             /\ at[i] = "writePrivate" => privateFile = File(i, FALSE) /\ publicFile = None
             /\ at[i] = "openPublic" => privateFile = File(i, TRUE) /\ publicFile = None
             /\ at[i] = "writePublic" =>
                  privateFile = File(i, TRUE) /\ publicFile = File(i, FALSE)

\* An invocation that has made its public file never makes one again.
MadeOnce ==
    \A i \in Invocations :
        /\ publicFile = File(i, FALSE) => at[i] \in {"writePublic", "killed"}
        /\ publicFile = File(i, TRUE) => at[i] = "done"

\* The gateway that serves has the two halves of one pair.
Paired == state[Gateway] = "up" => signingKey = publicKey[Gateway]

\* A key that came from the public file as it lay there after g removals.
Known(k, g) ==
    /\ at[k] = "done" /\ g <= removals
    /\ g = removals <=> publicFile = File(k, TRUE)

Same(k, g, l, h) == k = l <=> g = h

\* All keys in use, by services and in tokens: each is in one file only.
ServiceKeys ==
    \A s \in Services : publicKey[s] # None =>
        /\ Known(publicKey[s], readAt[s])
        /\ \A r \in Services : publicKey[r] # None =>
             Same(publicKey[s], readAt[s], publicKey[r], readAt[r])

TokenKeys ==
    \A p \in Logins : issued[p] # None =>
        /\ Known(issued[p], signedAt[p])
        /\ \A s \in Services : publicKey[s] # None =>
             Same(issued[p], signedAt[p], publicKey[s], readAt[s])

Inv == TypeOK /\ Orderly /\ MadeOnce /\ Paired /\ ServiceKeys /\ TokenKeys

-----------------------------------------------------------------------------
\* Two files are the same when their keys and their states are.
LEMMA FileEquality ==
  ASSUME NEW i, NEW j, NEW c \in BOOLEAN, NEW d \in BOOLEAN
  PROVE  File(i, c) = File(j, d) <=> i = j /\ c = d
  BY DEF File

\* A file is either absent or one of the two kinds.
LEMMA FileKinds ==
  ASSUME NEW f \in Files
  PROVE  /\ f.key \in Invocations /\ f.complete \in BOOLEAN /\ f # None
         /\ f = File(f.key, f.complete)
  BY KeyAssumption DEF KeyAssumption, Files, File

\* A file an invocation makes is a file.
LEMMA FileIsFile ==
  ASSUME NEW i \in Invocations, NEW c \in BOOLEAN
  PROVE  File(i, c) \in Files /\ File(i, c) # None /\ File(i, c).key = i
         /\ File(i, c).complete = c
  BY KeyAssumption DEF KeyAssumption, Files, File

LEMMA InitInv == Init => Inv
<1> SUFFICES ASSUME Init PROVE Inv
  OBVIOUS
<1>1. Oldest \in Nat
  BY KeyAssumption DEF KeyAssumption, Oldest
<1>2. TypeOK
  <2>1. at \in [Invocations -> Stages] /\ state \in [Services -> {"down", "starting", "up"}]
    BY DEF Init, Stages
  <2>2. publicKey \in [Services -> Invocations \cup {None}]
    BY DEF Init
  <2>3. issued \in [Logins -> Invocations \cup {None}] /\ age \in [Logins -> 0..Oldest]
    BY <1>1 DEF Init
  <2>4. readAt \in [Services -> Nat] /\ signedAt \in [Logins -> Nat]
    BY DEF Init
  <2>5. \A s \in Services : state[s] # "up"
    BY DEF Init
  <2> QED
    BY <2>1, <2>2, <2>3, <2>4, <2>5 DEF Init, TypeOK
<1>3. Orderly /\ MadeOnce
  BY FileIsFile DEF Init, Orderly, PairMatches, MadeOnce
<1>4. Paired /\ ServiceKeys /\ TokenKeys
  BY KeyAssumption DEF KeyAssumption, Init, Paired, ServiceKeys, TokenKeys
<1> QED
  BY <1>2, <1>3, <1>4 DEF Inv

-----------------------------------------------------------------------------
LEMMA ExitTypeOK ==
  ASSUME TypeOK, NEW s \in Services, Exit(s), UNCHANGED <<files, at, tokens, operator>>
  PROVE  TypeOK'
<1>1. /\ state' \in [Services -> {"down", "starting", "up"}]
      /\ publicKey' \in [Services -> Invocations \cup {None}]
      /\ signingKey' \in Invocations \cup {None}
  BY DEF Exit, TypeOK
<1>2. \A r \in Services : state'[r] = "up" => publicKey'[r] # None
  BY DEF Exit, TypeOK
<1> QED
  BY <1>1, <1>2 DEF Exit, TypeOK, files, tokens, operator

LEMMA NextTypeOK == TypeOK /\ [Next]_vars => TypeOK'
<1> SUFFICES ASSUME TypeOK, [Next]_vars PROVE TypeOK'
  OBVIOUS
<1>1. ASSUME NEW i \in Invocations, Generate(i) \/ Interrupt(i) PROVE TypeOK'
  <2>1. \E stage \in Stages : Move(i, stage)
    BY <1>1 DEF Generate, Interrupt, CheckPrivate, CheckPublic, OpenPrivate,
       WritePrivate, OpenPublic, WritePublic, Stages, Running
  <2>2. privateFile' \in Files \cup {None} /\ publicFile' \in Files \cup {None}
    BY <1>1, FileIsFile
    DEF TypeOK, Generate, Interrupt, CheckPrivate, CheckPublic, OpenPrivate,
       WritePrivate, OpenPublic, WritePublic, Written, files
  <2>3. UNCHANGED <<services, tokens, operator>>
    BY <1>1 DEF Generate, Interrupt, CheckPrivate, CheckPublic, OpenPrivate,
       WritePrivate, OpenPublic, WritePublic
  <2> QED
    BY <2>1, <2>2, <2>3 DEF Move, TypeOK, services, tokens, operator
<1>2. CASE RemovePrivate \/ RemovePublic
  <2>1. disturbed' \in BOOLEAN
    BY <1>2 DEF RemovePrivate, RemovePublic
  <2>2. /\ privateFile' \in Files \cup {None} /\ publicFile' \in Files \cup {None}
        /\ removals' \in Nat
    BY <1>2 DEF RemovePrivate, RemovePublic, TypeOK
  <2>3. UNCHANGED <<at, services, tokens>>
    BY <1>2 DEF RemovePrivate, RemovePublic
  <2> QED
    BY <2>1, <2>2, <2>3 DEF TypeOK, services, tokens
<1>3. ASSUME NEW s \in Services, Start(s) \/ LoadPublic(s) \/ Stop(s) PROVE TypeOK'
  <2>1. CASE Start(s)
    BY <2>1 DEF Start, TypeOK, files, tokens, operator
  <2>2. ASSUME UNCHANGED <<files, at, tokens, operator>>, Exit(s) PROVE TypeOK'
    BY <2>2, ExitTypeOK
  <2>3. ASSUME UNCHANGED <<files, at, tokens, operator>>,
               Complete(publicFile), Cache(s, publicFile.key)
        PROVE  TypeOK'
    <3>1. publicFile.key \in Invocations /\ publicFile.key # None
      BY <2>3, FileKinds, KeyAssumption DEF KeyAssumption, Complete, TypeOK
    <3> QED
      BY <2>3, <3>1 DEF Cache, TypeOK, files, tokens, operator
  <2> QED
    BY <1>3, <2>1, <2>2, <2>3 DEF LoadPublic, Stop
<1>4. CASE LoadPrivate
  <2>1. CASE Exit(Gateway)
    <3>1. Gateway \in Services /\ UNCHANGED <<files, at, tokens, operator>>
      BY <1>4, KeyAssumption DEF LoadPrivate, KeyAssumption
    <3> QED
      BY <2>1, <3>1, ExitTypeOK
  <2>2. ASSUME Complete(privateFile), ServeWith(privateFile.key) PROVE TypeOK'
    <3>1. privateFile.key \in Invocations
      BY <2>2, FileKinds DEF Complete, TypeOK
    <3> QED
      BY <1>4, <2>2, <3>1 DEF LoadPrivate, ServeWith, TypeOK, files, tokens, operator
  <2> QED
    BY <1>4, <2>1, <2>2 DEF LoadPrivate
<1>5. ASSUME NEW p \in Logins, Issue(p) PROVE TypeOK'
  <2>1. readAt[Gateway] \in Nat
    BY KeyAssumption DEF KeyAssumption, TypeOK
  <2> QED
    BY <1>5, <2>1 DEF Issue, TypeOK, files, services, operator
<1>6. CASE Tick
  <2>1. Oldest \in Nat
    BY KeyAssumption DEF KeyAssumption, Oldest
  <2>2. age' \in [Logins -> 0..Oldest]
    BY <1>6, <2>1 DEF Tick, TypeOK
  <2> QED
    BY <1>6, <2>2 DEF Tick, TypeOK, files, services, operator
<1>7. CASE UNCHANGED vars
  BY <1>7 DEF vars, TypeOK, files, services, tokens, operator
<1> QED
  BY <1>1, <1>2, <1>3, <1>4, <1>5, <1>6, <1>7 DEF Next

-----------------------------------------------------------------------------
(* The steps of a script and of the operator: the files change, the keys in *)
(* use do not.                                                              *)

\* Keys in use stay known, so what holds between them still does.
LEMMA KeysKept ==
  ASSUME Inv, UNCHANGED <<services, tokens>>,
         \A k \in Invocations, g \in Nat : Known(k, g) =>
            /\ at'[k] = "done" /\ g <= removals'
            /\ g = removals' <=> publicFile' = File(k, TRUE)
  PROVE  Paired' /\ ServiceKeys' /\ TokenKeys'
<1>1. Paired'
  BY DEF Inv, Paired, services
<1>2. /\ \A s \in Services : publicKey[s] \in Invocations \cup {None} /\ readAt[s] \in Nat
      /\ \A p \in Logins : issued[p] \in Invocations \cup {None} /\ signedAt[p] \in Nat
  BY DEF Inv, TypeOK
<1>3. ServiceKeys'
  BY <1>2 DEF Inv, ServiceKeys, Known, Same, services
<1>4. TokenKeys'
  BY <1>2 DEF Inv, TokenKeys, Known, Same, services, tokens
<1> QED
  BY <1>1, <1>3, <1>4

\* What the actions of a script do to the other scripts' places: nothing.
LEMMA MoveOne ==
  ASSUME TypeOK, NEW i \in Invocations, NEW stage \in Stages, Move(i, stage)
  PROVE  at'[i] = stage /\ \A j \in Invocations : j # i => at'[j] = at[j]
  BY DEF TypeOK, Move

LEMMA ScriptInv ==
  ASSUME Inv, TypeOK', NEW i \in Invocations, Generate(i) \/ Interrupt(i)
  PROVE  Inv'
<1> USE DEF Stages, Running
<1>0. UNCHANGED <<services, tokens, operator>> /\ at[i] \notin {"done", "killed"}
  BY DEF Generate, Interrupt, CheckPrivate, CheckPublic, OpenPrivate, WritePrivate, OpenPublic,
     WritePublic
<1>t. TypeOK /\ removals' = removals /\ disturbed' = disturbed
  BY <1>0 DEF Inv, operator
\* Steps that leave both files alone.
<1>1. ASSUME UNCHANGED files, NEW stage \in Stages, Move(i, stage),
             stage \in {"checkPublic", "openPrivate", "refused", "killed"},
             stage = "openPrivate" => publicFile = None,
             stage # "killed" => at[i] # "writePublic"
      PROVE  Orderly' /\ MadeOnce'
  <2>1. at'[i] = stage /\ \A j \in Invocations : j # i => at'[j] = at[j]
    BY <1>1, <1>t, MoveOne
  <2>2. privateFile' = privateFile /\ publicFile' = publicFile
    BY <1>1 DEF files
  <2>3. Orderly'
    BY <1>1, <1>t, <2>1, <2>2 DEF Inv, Orderly, PairMatches
  <2>4. MadeOnce'
    BY <1>0, <1>1, <2>1, <2>2 DEF Inv, MadeOnce
  <2> QED
    BY <2>3, <2>4
<1>2. ASSUME OpenPrivate(i), privateFile = None PROVE Orderly' /\ MadeOnce'
  <2>1. at'[i] = "writePrivate" /\ \A j \in Invocations : j # i => at'[j] = at[j]
    BY <1>2, <1>t, MoveOne DEF OpenPrivate
  <2>2. privateFile' = File(i, FALSE) /\ publicFile' = publicFile /\ at[i] = "openPrivate"
    BY <1>2 DEF OpenPrivate
  <2>3. Orderly'
    BY <1>2, <1>t, <2>1, <2>2, FileIsFile, ZenonT(40) DEF Inv, Orderly, PairMatches
  <2>4. MadeOnce'
    BY <2>1, <2>2 DEF Inv, MadeOnce
  <2> QED
    BY <2>3, <2>4
<1>3. ASSUME WritePrivate(i) PROVE Orderly' /\ MadeOnce'
  <2>1. at'[i] = "openPublic" /\ \A j \in Invocations : j # i => at'[j] = at[j]
    BY <1>3, <1>t, MoveOne DEF WritePrivate
  <2>2. /\ privateFile' = Written(privateFile, i) /\ publicFile' = publicFile
        /\ at[i] = "writePrivate"
    BY <1>3 DEF WritePrivate
  <2>3. Orderly'
    <3> SUFFICES ASSUME ~disturbed PROVE Orderly'
      BY <1>t DEF Orderly
    <3>1. \A j \in Invocations : j # i => at[j] \notin {"writePrivate", "openPublic", "writePublic"}
      BY <2>2 DEF Inv, Orderly, File
    <3>2. privateFile = File(i, FALSE) /\ publicFile = None
      BY <2>2 DEF Inv, Orderly
    <3>3. privateFile' = File(i, TRUE) /\ publicFile' = None
      BY <2>2, <3>2 DEF Written
    <3> QED
      BY <2>1, <3>1, <3>3, FileIsFile DEF Orderly, PairMatches
  <2>4. MadeOnce'
    BY <2>1, <2>2 DEF Inv, MadeOnce
  <2> QED
    BY <2>3, <2>4
<1>4. ASSUME OpenPublic(i), publicFile = None PROVE Orderly' /\ MadeOnce'
  <2>1. at'[i] = "writePublic" /\ \A j \in Invocations : j # i => at'[j] = at[j]
    BY <1>4, <1>t, MoveOne DEF OpenPublic
  <2>2. privateFile' = privateFile /\ publicFile' = File(i, FALSE) /\ at[i] = "openPublic"
    BY <1>4 DEF OpenPublic
  <2>3. Orderly'
    <3> SUFFICES ASSUME ~disturbed PROVE Orderly'
      BY <1>t DEF Orderly
    <3>1. \A j \in Invocations : j # i => at[j] \notin {"writePrivate", "openPublic", "writePublic"}
      BY <2>2 DEF Inv, Orderly, File
    <3>2. privateFile = File(i, TRUE) /\ publicFile = None
      BY <2>2 DEF Inv, Orderly
    <3>3. privateFile' = File(i, TRUE) /\ publicFile' = File(i, FALSE)
      BY <2>2, <3>2 DEF Written
    <3> QED
      BY <2>1, <3>1, <3>3, FileIsFile DEF Orderly, PairMatches
  <2>4. MadeOnce'
    BY <2>1, <2>2, FileEquality DEF MadeOnce
  <2> QED
    BY <2>3, <2>4
<1>5. ASSUME WritePublic(i) PROVE Orderly' /\ MadeOnce'
  <2>1. at'[i] = "done" /\ \A j \in Invocations : j # i => at'[j] = at[j]
    BY <1>5, <1>t, MoveOne DEF WritePublic
  <2>2. /\ privateFile' = privateFile /\ publicFile' = Written(publicFile, i)
        /\ at[i] = "writePublic"
    BY <1>5 DEF WritePublic
  <2>3. Orderly'
    <3> SUFFICES ASSUME ~disturbed PROVE Orderly'
      BY <1>t DEF Orderly
    <3>1. \A j \in Invocations : j # i => at[j] \notin {"writePrivate", "openPublic", "writePublic"}
      BY <2>2 DEF Inv, Orderly, File
    <3>2. privateFile = File(i, TRUE) /\ publicFile = File(i, FALSE)
      BY <2>2 DEF Inv, Orderly
    <3>3. privateFile' = File(i, TRUE) /\ publicFile' = File(i, TRUE)
      BY <2>2, <3>2 DEF Written
    <3> QED
      BY <2>1, <3>1, <3>3, FileIsFile DEF Orderly, PairMatches
  <2>4. MadeOnce'
    BY <2>1, <2>2, FileEquality, ZenonT(40) DEF Inv, MadeOnce, Written
  <2> QED
    BY <2>3, <2>4
<1>6. Orderly' /\ MadeOnce'
  <2>1. CASE CheckPrivate(i)
    BY <1>1, <2>1 DEF CheckPrivate, files
  <2>2. CASE CheckPublic(i)
    BY <1>1, <2>2 DEF CheckPublic, files
  <2>3. CASE OpenPrivate(i) /\ privateFile # None
    BY <1>1, <2>3 DEF OpenPrivate, files
  <2>4. CASE OpenPublic(i) /\ publicFile # None
    BY <1>1, <2>4 DEF OpenPublic, files
  <2>5. CASE Interrupt(i)
    BY <1>1, <2>5 DEF Interrupt, files
  <2> QED
    BY <1>2, <1>3, <1>4, <1>5, <2>1, <2>2, <2>3, <2>4, <2>5 DEF Generate
<1>7. ASSUME NEW k \in Invocations, NEW g \in Nat, Known(k, g)
      PROVE  /\ at'[k] = "done" /\ g <= removals'
             /\ g = removals' <=> publicFile' = File(k, TRUE)
  <2>1. at[k] = "done" /\ k # i
    BY <1>0, <1>7 DEF Known
  <2>2. \E stage \in Stages : Move(i, stage)
    BY DEF Generate, Interrupt, CheckPrivate, CheckPublic, OpenPrivate, WritePrivate,
       OpenPublic, WritePublic
  <2>3. at'[k] = "done"
    BY <1>t, <2>1, <2>2, MoveOne
  <2>4. publicFile' = File(k, TRUE) <=> publicFile = File(k, TRUE)
    <3>1. \/ publicFile' = publicFile
          \/ publicFile = None /\ publicFile' = File(i, FALSE)
          \/ publicFile = File(i, FALSE) /\ publicFile' = File(i, TRUE)
      BY DEF Generate, Interrupt, CheckPrivate, CheckPublic, OpenPrivate, WritePrivate,
         OpenPublic, WritePublic, Written, files
    <3>2. File(i, FALSE) # File(k, TRUE) /\ File(i, TRUE) # File(k, TRUE)
      BY <2>1, FileEquality
    <3> QED
      BY <3>1, <3>2, FileIsFile
  <2> QED
    BY <1>t, <1>7, <2>3, <2>4 DEF Known
<1>8. Paired' /\ ServiceKeys' /\ TokenKeys'
  BY <1>0, <1>7, KeysKept
<1> QED
  BY <1>6, <1>8 DEF Inv

LEMMA RemovalInv ==
  ASSUME Inv, TypeOK', RemovePrivate \/ RemovePublic
  PROVE  Inv'
<1>1. UNCHANGED <<at, services, tokens>>
  BY DEF RemovePrivate, RemovePublic
<1>2. Orderly'
  <2> SUFFICES ASSUME ~disturbed' PROVE Orderly'
    BY DEF Orderly
  <2>1. ~disturbed /\ ~UnderWay
    BY DEF Inv, TypeOK, RemovePrivate, RemovePublic
  <2>2. \A i \in Invocations : at'[i] \notin Running
    BY <1>1, <2>1 DEF UnderWay
  <2>3. PairMatches'
    BY <2>1 DEF Inv, Orderly, PairMatches, RemovePrivate, RemovePublic
  <2> QED
    BY <2>2, <2>3 DEF Orderly, Running
<1>3. MadeOnce'
  BY <1>1, FileIsFile DEF Inv, MadeOnce, RemovePrivate, RemovePublic
<1>4. ASSUME NEW k \in Invocations, NEW g \in Nat, Known(k, g)
      PROVE  /\ at'[k] = "done" /\ g <= removals'
             /\ g = removals' <=> publicFile' = File(k, TRUE)
  <2>1. CASE RemovePrivate
    BY <1>4, <2>1 DEF Known, RemovePrivate
  <2>2. CASE RemovePublic
    <3>1. publicFile' # File(k, TRUE) /\ removals' = removals + 1 /\ at' = at
      BY <2>2, FileIsFile DEF RemovePublic
    <3>2. at[k] = "done" /\ g <= removals /\ removals \in Nat
      BY <1>4 DEF Known, Inv, TypeOK
    <3>3. g # removals' /\ g <= removals'
      BY <1>4, <3>1, <3>2
    <3> QED
      BY <3>1, <3>2, <3>3
  <2> QED
    BY <2>1, <2>2
<1>5. Paired' /\ ServiceKeys' /\ TokenKeys'
  BY <1>1, <1>4, KeysKept
<1> QED
  BY <1>2, <1>3, <1>5 DEF Inv

-----------------------------------------------------------------------------
(* The steps of the services: the files stay, the keys in use change. *)

FilesKept == UNCHANGED <<files, at, operator>>

\* A key just read from the public file is known, and known apart from the others.
LEMMA FreshKey ==
  ASSUME Inv, Complete(publicFile)
  PROVE  /\ publicFile.key \in Invocations /\ removals \in Nat
         /\ Known(publicFile.key, removals)
         /\ \A k \in Invocations, g \in Nat :
              Known(k, g) => Same(k, g, publicFile.key, removals)
<1>1. /\ publicFile \in Files /\ publicFile.key \in Invocations /\ removals \in Nat
      /\ publicFile = File(publicFile.key, TRUE)
  BY FileKinds DEF Complete, Inv, TypeOK
<1>2. at[publicFile.key] = "done"
  BY <1>1 DEF Inv, MadeOnce
<1>3. Known(publicFile.key, removals)
  <2>1. removals <= removals
    BY <1>1
  <2> QED
    BY <1>1, <1>2, <2>1, Zenon DEF Known
<1>4. ASSUME NEW k \in Invocations, NEW g \in Nat, Known(k, g)
      PROVE  Same(k, g, publicFile.key, removals)
  <2>1. publicFile = File(k, TRUE) <=> k = publicFile.key
    BY <1>1, FileEquality
  <2> QED
    BY <1>4, <2>1 DEF Known, Same
<1> QED
  BY <1>1, <1>3, <1>4

LEMMA FilesKeptInv ==
  ASSUME Inv, FilesKept
  PROVE  /\ Orderly' /\ MadeOnce'
         /\ \A k, g : Known(k, g)' <=> Known(k, g)
  BY DEF Inv, FilesKept, files, operator, Orderly, PairMatches, MadeOnce, Known

LEMMA ReadKeys ==
  ASSUME Inv, TypeOK', FilesKept, UNCHANGED tokens,
         \A r \in Services : publicKey'[r] # None =>
            \/ publicKey'[r] = publicKey[r] /\ readAt'[r] = readAt[r]
            \/ /\ Complete(publicFile)
               /\ publicKey'[r] = publicFile.key /\ readAt'[r] = removals
  PROVE  ServiceKeys' /\ TokenKeys'
<1>1. /\ \A s \in Services : publicKey[s] \in Invocations \cup {None} /\ readAt[s] \in Nat
      /\ \A p \in Logins : issued[p] \in Invocations \cup {None} /\ signedAt[p] \in Nat
  BY DEF Inv, TypeOK
<1>2. /\ \A p \in Logins : issued'[p] = issued[p] /\ signedAt'[p] = signedAt[p]
      /\ removals' = removals /\ publicFile' = publicFile /\ at' = at
  BY DEF tokens, FilesKept, files, operator
<1>3. ASSUME NEW s \in Services, publicKey'[s] # None
      PROVE  Known(publicKey'[s], readAt'[s])
  BY <1>3, FreshKey DEF Inv, ServiceKeys
<1>4. ASSUME NEW s \in Services, NEW r \in Services,
             publicKey'[s] # None, publicKey'[r] # None
      PROVE  Same(publicKey'[s], readAt'[s], publicKey'[r], readAt'[r])
  BY <1>1, <1>4, FreshKey DEF Inv, ServiceKeys, Same
<1>5. ASSUME NEW p \in Logins, issued[p] # None
      PROVE  /\ Known(issued[p], signedAt[p])
             /\ \A s \in Services : publicKey'[s] # None =>
                  Same(issued[p], signedAt[p], publicKey'[s], readAt'[s])
  BY <1>1, <1>5, FreshKey DEF Inv, TokenKeys, Same
<1>6. ServiceKeys'
  <2>1. ASSUME NEW s \in Services, publicKey'[s] # None
        PROVE  Known(publicKey[s], readAt[s])'
    BY <2>1, <1>2, <1>3 DEF Known
  <2>2. ASSUME NEW s \in Services, NEW r \in Services,
               publicKey'[s] # None, publicKey'[r] # None
        PROVE  Same(publicKey[s], readAt[s], publicKey[r], readAt[r])'
    BY <2>2, <1>4 DEF Same
  <2> QED
    BY <2>1, <2>2, Zenon DEF ServiceKeys
<1>7. TokenKeys'
  <2>1. ASSUME NEW p \in Logins, issued'[p] # None
        PROVE  Known(issued[p], signedAt[p])'
    BY <2>1, <1>2, <1>5 DEF Known
  <2>2. ASSUME NEW p \in Logins, NEW s \in Services, issued'[p] # None, publicKey'[s] # None
        PROVE  Same(issued[p], signedAt[p], publicKey[s], readAt[s])'
    BY <2>2, <1>2, <1>5 DEF Same
  <2> QED
    BY <2>1, <2>2, Zenon DEF TokenKeys
<1> QED
  BY <1>6, <1>7

\* The end of a service takes its keys out of use.
LEMMA ExitInv ==
  ASSUME Inv, TypeOK', NEW s \in Services, Exit(s), FilesKept, UNCHANGED tokens
  PROVE  Inv'
<1>1. Paired'
  BY KeyAssumption DEF KeyAssumption, Inv, TypeOK, Paired, Exit
<1>2. \A r \in Services : publicKey'[r] # None =>
          publicKey'[r] = publicKey[r] /\ readAt'[r] = readAt[r]
  BY DEF Inv, TypeOK, Exit
<1> QED
  BY <1>1, <1>2, FilesKeptInv, ReadKeys DEF Inv

LEMMA ServiceInv ==
  ASSUME Inv, TypeOK',
         LoadPrivate \/ \E s \in Services : Start(s) \/ LoadPublic(s) \/ Stop(s)
  PROVE  Inv'
<1>0. FilesKept /\ UNCHANGED tokens
  BY DEF LoadPrivate, Start, LoadPublic, Stop, FilesKept
<1>1. ASSUME UNCHANGED <<publicKey, readAt>>, Paired' PROVE Inv'
  BY <1>0, <1>1, FilesKeptInv, ReadKeys DEF Inv
<1>2. ASSUME NEW s \in Services, Start(s) PROVE Inv'
  <2>1. Paired'
    BY <1>2, KeyAssumption DEF KeyAssumption, Inv, TypeOK, Paired, Start
  <2> QED
    BY <1>1, <1>2, <2>1 DEF Start
<1>3. ASSUME NEW s \in Services, Complete(publicFile), Cache(s, publicFile.key) PROVE Inv'
  <2>1. Paired'
    BY <1>3, KeyAssumption DEF KeyAssumption, Inv, TypeOK, Paired, Cache
  <2>2. /\ publicKey'[s] = publicFile.key /\ readAt'[s] = removals
        /\ \A r \in Services : r # s => publicKey'[r] = publicKey[r] /\ readAt'[r] = readAt[r]
    BY <1>3 DEF Cache, Inv, TypeOK
  <2> QED
    BY <1>0, <1>3, <2>1, <2>2, FilesKeptInv, ReadKeys DEF Inv
<1>4. ASSUME Complete(privateFile), privateFile.key = publicKey[Gateway],
             ServeWith(privateFile.key)
      PROVE  Inv'
  BY <1>1, <1>4 DEF ServeWith, Paired
<1>5. ASSUME NEW s \in Services, Exit(s) PROVE Inv'
  BY <1>0, <1>5, ExitInv
<1> QED
  BY <1>2, <1>3, <1>4, <1>5, KeyAssumption DEF LoadPrivate, LoadPublic, Stop, KeyAssumption

\* The gateway signs with the key it verifies with.
LEMMA IssueInv ==
  ASSUME Inv, TypeOK', NEW p \in Logins, Issue(p)
  PROVE  Inv'
<1>1. FilesKept /\ UNCHANGED services
  BY DEF Issue, FilesKept
<1>2. Paired' /\ ServiceKeys'
  BY <1>1, FilesKeptInv
  DEF Inv, Paired, ServiceKeys, Known, Same, services, FilesKept, files, operator
<1>3. /\ issued'[p] = publicKey[Gateway] /\ signedAt'[p] = readAt[Gateway]
      /\ publicKey[Gateway] # None /\ Gateway \in Services
      /\ \A q \in Logins : q # p => issued'[q] = issued[q] /\ signedAt'[q] = signedAt[q]
  BY KeyAssumption DEF KeyAssumption, Issue, Inv, TypeOK, Paired
<1>4. \A q \in Logins : issued'[q] # None =>
          /\ Known(issued'[q], signedAt'[q])
          /\ \A s \in Services : publicKey[s] # None =>
               Same(issued'[q], signedAt'[q], publicKey[s], readAt[s])
  BY <1>3 DEF Inv, ServiceKeys, TokenKeys
<1>5. TokenKeys'
  BY <1>1, <1>4 DEF TokenKeys, Known, Same, services, FilesKept, files, operator
<1> QED
  BY <1>1, <1>2, <1>5, FilesKeptInv DEF Inv

\* Time and stuttering change no file and no key.
LEMMA IdleInv ==
  ASSUME Inv, TypeOK', FilesKept, UNCHANGED <<services, issued, signedAt>>
  PROVE  Inv'
<1>1. Paired' /\ ServiceKeys' /\ TokenKeys'
  BY DEF Inv, Paired, ServiceKeys, TokenKeys, Known, Same, services, FilesKept, files, operator
<1> QED
  BY <1>1, FilesKeptInv DEF Inv

LEMMA NextInv == Inv /\ [Next]_vars => Inv'
<1> SUFFICES ASSUME Inv, [Next]_vars PROVE Inv'
  OBVIOUS
<1>1. TypeOK'
  BY NextTypeOK DEF Inv
<1>2. CASE Tick \/ UNCHANGED vars
  BY <1>1, <1>2, IdleInv DEF Tick, vars, tokens, FilesKept
<1> QED
  BY <1>1, <1>2, ScriptInv, RemovalInv, ServiceInv, IssueInv DEF Next

LEMMA Inductive == Spec => []Inv
  BY InitInv, NextInv, PTL DEF Spec

-----------------------------------------------------------------------------
\* The variables stay in their ranges; a service that serves has a key.
THEOREM KeyTypes == Spec => []TypeOK
<1>1. Inv => TypeOK
  BY DEF Inv
<1> QED
  BY <1>1, Inductive, PTL

\* generate_keys.py replaces no key file, whatever runs beside it.
THEOREM NothingOverwritten == Spec => KeepsKeys
<1>1. ASSUME [Next]_vars
      PROVE  [Kept(privateFile, privateFile') /\ Kept(publicFile, publicFile')]_files
  <2>1. ASSUME NEW i \in Invocations, Generate(i)
        PROVE  Kept(privateFile, privateFile') /\ Kept(publicFile, publicFile')
    <3>1. ASSUME NEW f PROVE Kept(f, Written(f, i)) /\ Kept(f, f)
      BY FileIsFile DEF Kept, Written
    <3> QED
      BY <2>1, <3>1 DEF Generate, CheckPrivate, CheckPublic, OpenPrivate, WritePrivate,
         OpenPublic, WritePublic, Kept, files
  <2>2. ASSUME RemovePrivate \/ RemovePublic
        PROVE  Kept(privateFile, privateFile') /\ Kept(publicFile, publicFile')
    BY <2>2 DEF RemovePrivate, RemovePublic, Kept
  <2>3. CASE UNCHANGED files
    BY <2>3
  <2> QED
    BY <1>1, <2>1, <2>2, <2>3 DEF Next, Interrupt, Start, LoadPublic, Stop, LoadPrivate,
       Issue, Tick, vars
<1> QED
  BY <1>1, PTL DEF Spec, KeepsKeys

\* Public and private file belong together, unless a file was removed while a
\* script was running.
THEOREM PairsMatch == Spec => []PairMatches
<1>1. Inv => PairMatches
  BY DEF Inv, Orderly, PairMatches
<1> QED
  BY <1>1, Inductive, PTL

\* Tokens are trusted by exactly the services that read the issuer's public file.
THEOREM TrustIsSharedFile == Spec => []TrustFollowsFiles
<1>1. Inv => TrustFollowsFiles
  <2> SUFFICES ASSUME Inv, NEW s \in Services, NEW p \in Logins,
                      NEW type \in TokenTypes, NEW expected \in TokenTypes,
                      state[s] = "up", issued[p] # None
               PROVE  Accepts(s, p, type, expected) <=>
                        /\ type = expected /\ age[p] <= Life(type)
                        /\ readAt[s] = signedAt[p]
    BY DEF TrustFollowsFiles
  <2>1. publicKey[s] # None
    BY DEF Inv, TypeOK
  <2>2. issued[p] = publicKey[s] <=> signedAt[p] = readAt[s]
    BY <2>1 DEF Inv, TokenKeys, Same
  <2> QED
    BY <2>2 DEF Accepts, decode_token
<1> QED
  BY <1>1, Inductive, PTL

=============================================================================
