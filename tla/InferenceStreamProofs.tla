------------------------ MODULE InferenceStreamProofs ------------------------
(***************************************************************************)
(* Theorems about InferenceStream, for any alphabet and for chunks of any   *)
(* length and number: what is written, what reaches the provider, and what  *)
(* a client reads.                                                          *)
(***************************************************************************)
EXTENDS InferenceStream, TLAPS

\* What is written to a stream is made of characters.
LEMMA FrameType ==
  ASSUME NEW text \in Seq(Characters)
  PROVE  Frame(text) \in Seq(Characters)
<1>1. <<FieldName>> \in Seq(Characters) /\ <<LF, LF>> \in Seq(Characters)
  BY DEF Characters
<1>2. <<FieldName>> \o text \in Seq(Characters)
  BY <1>1
<1> QED
  BY <1>1, <1>2 DEF Frame

\* A chunk of the provider is a text, and so is a mark.
LEMMA DeltaType ==
  /\ \A d \in Deltas : d \in Seq(Characters)
  /\ \A mark \in Marks : <<mark>> \in Seq(Characters) /\ Len(<<mark>>) = 1
<1>1. \A d \in Deltas : d \in Seq(Characters)
  BY StreamAssumption DEF Deltas
<1>2. ASSUME NEW mark \in Marks PROVE <<mark>> \in Seq(Characters) /\ Len(<<mark>>) = 1
  <2>1. mark \in Characters
    BY DEF Characters
  <2> QED
    BY <2>1
<1> QED
  BY <1>1, <1>2

\* The steps before the provider is asked, and what their requests are.
Asking == pc \in {"ask", "stream"} \/ asked => req.size = "short"

LEMMA InitTypes == Init => TypeOK /\ Asking
<1> SUFFICES ASSUME Init PROVE TypeOK /\ Asking
  OBVIOUS
<1>1. wire \in Seq(Characters) /\ said \in Seq(Characters)
  BY DEF Init
<1>2. deltas \in 0..MaxDeltas
  BY StreamAssumption DEF Init
<1> QED
  BY <1>1, <1>2 DEF Init, TypeOK, Asking

\* Every step keeps the types, and none but Validate lets a request through to
\* the provider.
LEMMA NextTypes == TypeOK /\ Asking /\ [Next]_vars => TypeOK' /\ Asking'
<1> SUFFICES ASSUME TypeOK, Asking, [Next]_vars PROVE TypeOK' /\ Asking'
  OBVIOUS
<1> USE StreamAssumption DEF TypeOK, Asking
<1>1. wire \in Seq(Characters) /\ said \in Seq(Characters)
  OBVIOUS
<1>2. ASSUME NEW code \in {200, 400, 422, 500, 503}, Respond(code)
      PROVE TypeOK' /\ Asking'
  BY <1>2 DEF Respond
<1>3. ASSUME NEW stage \in {"headers", "validate"}, Continue(stage)
      PROVE TypeOK' /\ Asking'
  BY <1>3 DEF Continue
<1>4. ASSUME Receive PROVE TypeOK' /\ Asking'
  <2>1. \/ \E code \in {200, 400, 422, 500, 503} : Respond(code)
        \/ \E stage \in {"headers", "validate"} : Continue(stage)
    BY <1>4 DEF Receive
  <2> QED
    BY <2>1, <1>2, <1>3
<1>5. ASSUME SendHeaders PROVE TypeOK' /\ Asking'
  BY <1>5 DEF SendHeaders
<1>6. ASSUME Validate PROVE TypeOK' /\ Asking'
  <2>1. CASE WithinLimit
    BY <1>6, <2>1 DEF Validate, Continue, WithinLimit
  <2>2. CASE ~WithinLimit
    BY <1>6, <2>2, <1>2 DEF Validate
  <2> QED
    BY <2>1, <2>2
<1>7. ASSUME Complete PROVE TypeOK' /\ Asking'
  BY <1>7 DEF Complete
<1>8. ASSUME OpenStream PROVE TypeOK' /\ Asking'
  BY <1>8 DEF OpenStream
<1>9. ASSUME NEW d \in Deltas, Delta(d) PROVE TypeOK' /\ Asking'
  <2>1. d \in Seq(Characters)
    BY DeltaType
  <2>2. said \o d \in Seq(Characters)
    BY <2>1, <1>1
  <2>3. Frame(d) \in Seq(Characters)
    BY <2>1, FrameType
  <2>5. wire' \in Seq(Characters)
    <3>1. CASE d = <<>>
      BY <3>1, <1>1, <1>9, Zenon DEF Delta
    <3>2. CASE d # <<>>
      <4>1. wire' = wire \o Frame(d)
        BY <3>2, <1>9, ZenonT(40) DEF Delta
      <4>2. wire \o Frame(d) \in Seq(Characters)
        BY <2>3, <1>1
      <4> QED
        BY <4>1, <4>2, Zenon
    <3> QED
      BY <3>1, <3>2
  <2>6. said' \in Seq(Characters)
    BY <2>2, <1>9, Zenon DEF Delta
  <2>7. deltas' \in 0..MaxDeltas
    BY <1>9 DEF Delta
  <2>8. pc = "stream" /\ UNCHANGED <<req, pc, status, asked, client>>
    BY <1>9, Zenon DEF Delta
  <2>9. TypeOK'
    BY <2>5, <2>6, <2>7, <2>8
  <2> QED
    BY <2>8, <2>9
<1>10. ASSUME NEW mark \in Marks PROVE wire \o Frame(<<mark>>) \in Seq(Characters)
  <2>1. Frame(<<mark>>) \in Seq(Characters)
    BY DeltaType, FrameType, Zenon
  <2> QED
    BY <2>1, <1>1
<1>11. ASSUME EndStream PROVE TypeOK' /\ Asking'
  BY <1>11, <1>10, SMTT(30) DEF EndStream, Marks
<1>12. ASSUME StreamFails PROVE TypeOK' /\ Asking'
  BY <1>12, <1>10, SMTT(30) DEF StreamFails, Marks
<1>13. ASSUME Disconnect PROVE TypeOK' /\ Asking'
  BY <1>13 DEF Disconnect
<1>14. CASE UNCHANGED vars
  BY <1>14 DEF vars
<1> QED
  BY <1>4, <1>5, <1>6, <1>7, <1>8, <1>9, <1>11, <1>12, <1>13, <1>14 DEF Next

\* Whatever the endpoint, the request and the provider, the state of a request
\* has its types.
THEOREM StreamTypes == Spec => []TypeOK
  BY InitTypes, NextTypes, PTL DEF Spec

\* No endpoint, streamed or whole, gets an over-long prompt to the provider.
THEOREM PromptsLimited == Spec => []PromptLimitHeld
<1>1. Asking => PromptLimitHeld
  BY DEF Asking, PromptLimitHeld
<1> QED
  BY <1>1, InitTypes, NextTypes, PTL DEF Spec

-----------------------------------------------------------------------------
(* What a client reads *)

\* What is written ends a line, so that the next event begins one.
WholeLines(body) == body # <<>> => body[Len(body)] = LF

\* Nothing is written before the provider was asked, and no mark before the end but
\* the provider's own.
Unmarked ==
    /\ pc \notin {"stream", "done"} => ~asked /\ wire = <<>> /\ said = <<>>
    /\ pc = "stream" => asked
    /\ pc # "done" /\ ~Marked(said) => \A i \in 1..Len(wire) : wire[i] \notin Marks

ReadInv == TypeOK /\ WholeLines(wire) /\ Unmarked /\ EndsWithOneMark /\ TextArrives

\* Marks, line ends and the field name are told apart.
LEMMA Distinct == FieldName # LF /\ LF \notin Marks /\ FieldName \notin Marks
  BY DEF LF, FieldName, Marks, EndMark, ErrorMark

\* Where one more event puts its characters.
Written(before, text, after) ==
    /\ after \in Seq(Characters) /\ Len(before) \in Nat /\ Len(text) \in Nat
    /\ Len(after) = Len(before) + Len(text) + 3
    /\ \A i \in 1..Len(before) : after[i] = before[i]
    /\ after[Len(before) + 1] = FieldName
    /\ \A k \in 1..Len(text) : after[Len(before) + 1 + k] = text[k]
    /\ after[Len(before) + Len(text) + 2] = LF
    /\ after[Len(before) + Len(text) + 3] = LF

LEMMA EventWritten ==
  ASSUME NEW before \in Seq(Characters), NEW text \in Seq(Characters)
  PROVE  Written(before, text, before \o Frame(text))
<1>1. FieldName \in Characters /\ LF \in Characters
  BY DEF Characters
<1> QED
  BY <1>1, SMT DEF Frame, Written

\* An event whose text has no line feed is read whole, and what the client has
\* read before stays as it was.
LEMMA EventRead ==
  ASSUME NEW before, NEW text, NEW after, Written(before, text, after),
         WholeLines(before), ~LineFeeds(text)
  PROVE  \A i \in 1..Len(after) :
             OnDataLine(after, i) <=>
                 \/ i <= Len(before) /\ OnDataLine(before, i)
                 \/ i \in (Len(before) + 2)..(Len(before) + Len(text) + 1)
<1> DEFINE n == Len(before)
           m == Len(text)
<1>1. /\ n \in Nat /\ m \in Nat /\ Len(after) = n + m + 3
      /\ \A i \in 1..n : after[i] = before[i]
      /\ after[n + 1] = FieldName
      /\ \A k \in 1..m : after[n + 1 + k] = text[k]
      /\ after[n + m + 2] = LF
      /\ after[n + m + 3] = LF
  BY DEF Written
<1>2. FieldName # LF
  BY Distinct
<1>3. n > 0 => after[n] = LF
  BY <1>1 DEF WholeLines
<1>4. \A k \in 1..m : text[k] # LF
  BY DEF LineFeeds
<1> SUFFICES ASSUME NEW i \in 1..(n + m + 3)
             PROVE  OnDataLine(after, i) <=>
                       \/ i <= n /\ OnDataLine(before, i)
                       \/ i \in (n + 2)..(n + m + 1)
  BY <1>1
<1> HIDE DEF n, m
<1>5. CASE i <= n
  <2>1. ASSUME NEW s \in 1..(i - 1)
        PROVE  /\ after[s] = before[s]
               /\ s # 1 => after[s - 1] = before[s - 1]
               /\ \A k \in s..i : after[k] = before[k]
    BY <1>1, <1>5
  <2>2. OnDataLine(after, i) <=> OnDataLine(before, i)
    BY <2>1 DEF OnDataLine
  <2>3. i \notin (n + 2)..(n + m + 1)
    BY <1>1, <1>5
  <2> QED
    BY <2>2, <2>3, <1>5
<1>6. CASE i \in (n + 2)..(n + m + 1)
  <2>1. n + 1 \in 1..(i - 1) /\ after[n + 1] = FieldName /\ (n + 1 = 1 \/ after[(n + 1) - 1] = LF)
    BY <1>1, <1>3, <1>6
  <2>2. ASSUME NEW k \in (n + 1)..i PROVE after[k] # LF
    <3>1. CASE k = n + 1
      BY <3>1, <1>1, <1>2
    <3>2. CASE k # n + 1
      <4>1. k - (n + 1) \in 1..m /\ n + 1 + (k - (n + 1)) = k
        BY <3>2, <1>1, <1>6
      <4>2. text[k - (n + 1)] # LF
        BY <4>1, <1>4, Zenon
      <4>3. after[n + 1 + (k - (n + 1))] = text[k - (n + 1)]
        BY <4>1, <1>1, Zenon
      <4> QED
        BY <4>1, <4>2, <4>3, Zenon
    <3> QED
      BY <3>1, <3>2
  <2>3. OnDataLine(after, i)
    BY <2>1, <2>2 DEF OnDataLine
  <2> QED
    BY <2>3, <1>6
<1>7. CASE i > n /\ i \notin (n + 2)..(n + m + 1)
  <2>1. i = n + 1 \/ i = n + m + 2 \/ i = n + m + 3
    BY <1>1, <1>7
  <2>2. ASSUME OnDataLine(after, i) PROVE FALSE
    <3>1. PICK s \in 1..(i - 1) : \A k \in s..i : after[k] # LF
      BY <2>2 DEF OnDataLine
    <3>2. after[i] # LF
      BY <3>1
    <3>3. i = n + 1 /\ n > 0 /\ n \in s..i
      BY <2>1, <3>1, <3>2, <1>1
    <3> QED
      BY <3>1, <3>3, <1>3
  <2> QED
    BY <2>2, <1>7, <1>1
<1> QED
  BY <1>1, <1>5, <1>6, <1>7

\* A mark that ends a body is the last thing the client reads, and the only mark
\* in a body that had none.
LEMMA MarkRead ==
  ASSUME NEW before, NEW mark \in Marks, NEW after, Written(before, <<mark>>, after),
         WholeLines(before)
  PROVE  /\ Len(before) + 2 \in MarkLines(after)
         /\ \A i \in Carried(after) : i <= Len(before) + 2
         /\ (\A i \in 1..Len(before) : before[i] \notin Marks)
               => MarkLines(after) = {Len(before) + 2}
<1> DEFINE n == Len(before)
<1>1. /\ n \in Nat /\ Len(after) = n + 4
      /\ \A i \in 1..n : after[i] = before[i]
      /\ after[n + 1] = FieldName /\ after[n + 2] = mark
      /\ after[n + 3] = LF /\ after[n + 4] = LF
      /\ n # 0 => after[n] = LF
  BY DEF Written, WholeLines
<1> HIDE DEF n
<1>2. n + 2 \in MarkLines(after)
  <2>1. n + 2 \in 2..(Len(after) - 1) /\ (n + 2) - 1 = n + 1 /\ (n + 2) - 2 = n /\ (n + 2) + 1 = n + 3
    BY <1>1
  <2>2. n + 2 = 2 \/ after[n] = LF
    BY <1>1
  <2> QED
    BY <2>1, <2>2, <1>1 DEF MarkLines
<1>3. ASSUME NEW i \in Carried(after) PROVE i <= n + 2
  <2>1. i \in 1..(n + 4) /\ OnDataLine(after, i)
    BY <1>1 DEF Carried
  <2>2. PICK s \in 1..(i - 1) : \A k \in s..i : after[k] # LF
    BY <2>1 DEF OnDataLine
  <2>3. after[i] # LF
    BY <2>1, <2>2
  <2> QED
    BY <2>1, <2>3, <1>1
<1>4. ASSUME \A i \in 1..n : before[i] \notin Marks, NEW i \in MarkLines(after)
      PROVE  i = n + 2
  <2>1. i \in 1..(n + 4) /\ after[i] \in Marks
    BY <1>1 DEF MarkLines
  <2>2. i \notin 1..n
    BY <2>1, <1>1, <1>4
  <2>3. i # n + 1 /\ i # n + 3 /\ i # n + 4
    BY <2>1, <1>1, Distinct
  <2> QED
    BY <2>1, <2>2, <2>3, <1>1
<1> QED
  BY <1>2, <1>3, <1>4 DEF n

\* The characters of a chunk without line feeds are read where its event is,
\* after all the client has read before.
LEMMA ChunkRead ==
  ASSUME NEW before, NEW d \in Seq(Characters), NEW after, Written(before, d, after),
         WholeLines(before), ~LineFeeds(d)
  PROVE  /\ \A i \in Carried(before) :
                i \in Carried(after) /\ i \in 1..Len(before) /\ after[i] = before[i]
         /\ \A k \in 1..Len(d) :
                Len(before) + 1 + k \in Carried(after) /\ after[Len(before) + 1 + k] = d[k]
         /\ \A i \in Carried(after) :
                i \in Carried(before) \/ \E k \in 1..Len(d) : i = Len(before) + 1 + k
<1> DEFINE n == Len(before)
           m == Len(d)
<1>1. /\ n \in Nat /\ m \in Nat /\ Len(after) = n + m + 3
      /\ \A i \in 1..n : after[i] = before[i]
      /\ \A k \in 1..m : after[n + 1 + k] = d[k]
  BY DEF Written
<1>3. \A i \in 1..(n + m + 3) : OnDataLine(after, i) <=> \/ i <= n /\ OnDataLine(before, i)
                                                      \/ i \in (n + 2)..(n + m + 1)
  <2>1. \A i \in 1..Len(after) :
          OnDataLine(after, i) <=> \/ i <= n /\ OnDataLine(before, i)
                                   \/ i \in (n + 2)..(n + m + 1)
    BY EventRead
  <2> QED
    BY <2>1, <1>1
<1>4. /\ \A i : i \in Carried(after)
                 <=> i \in 1..(n + m + 3) /\ OnDataLine(after, i)
      /\ \A i : i \in Carried(before)
                 <=> i \in 1..n /\ OnDataLine(before, i)
  BY <1>1 DEF Carried
<1> HIDE DEF n, m
<1>5. ASSUME NEW i \in Carried(before)
      PROVE  i \in Carried(after) /\ i \in 1..n /\ after[i] = before[i]
  <2>1. i \in 1..n /\ OnDataLine(before, i)
    BY <1>4
  <2>2. i \in 1..(n + m + 3) /\ i <= n /\ after[i] = before[i]
    BY <2>1, <1>1
  <2> QED
    BY <2>1, <2>2, <1>3, <1>4
<1>6. ASSUME NEW k \in 1..m
      PROVE  n + 1 + k \in Carried(after) /\ after[n + 1 + k] = d[k]
  <2>1. /\ n + 1 + k \in 1..(n + m + 3) /\ n + 1 + k \in (n + 2)..(n + m + 1)
        /\ after[n + 1 + k] = d[k]
    BY <1>1
  <2> QED
    BY <2>1, <1>3, <1>4
<1>7. ASSUME NEW i \in Carried(after)
      PROVE  i \in Carried(before) \/ \E k \in 1..m : i = n + 1 + k
  <2>1. i \in 1..(n + m + 3) /\ OnDataLine(after, i)
    BY <1>4
  <2>2. CASE i <= n /\ OnDataLine(before, i)
    <3>1. i \in 1..n /\ after[i] = before[i]
      BY <2>1, <2>2, <1>1
    <3> QED
      BY <3>1, <2>1, <2>2, <1>4
  <2>3. CASE i \in (n + 2)..(n + m + 1)
    <3>1. i - (n + 1) \in 1..m /\ i = n + 1 + (i - (n + 1))
      BY <2>3, <1>1
    <3> QED
      BY <3>1
  <2> QED
    BY <2>1, <2>2, <2>3, <1>3
<1> QED
  BY <1>5, <1>6, <1>7 DEF n, m

\* A chunk adds no mark.
LEMMA ChunkUnmarked ==
  ASSUME NEW before, NEW d, NEW after, Written(before, d, after),
         \A i \in 1..Len(before) : before[i] \notin Marks,
         \A k \in 1..Len(d) : d[k] \notin Marks
  PROVE  \A i \in 1..Len(after) : after[i] \notin Marks
<1> DEFINE n == Len(before)
           m == Len(d)
<1>1. /\ n \in Nat /\ m \in Nat /\ Len(after) = n + m + 3
      /\ \A i \in 1..n : after[i] \notin Marks
      /\ \A k \in 1..m : after[n + 1 + k] \notin Marks
      /\ after[n + 1] \notin Marks /\ after[n + m + 2] \notin Marks /\ after[n + m + 3] \notin Marks
  BY Distinct DEF Written
<1> HIDE DEF n, m
<1>2. \A i \in 1..(n + m + 3) :
         \/ i \in 1..n \/ i = n + 1 \/ i = n + m + 2 \/ i = n + m + 3
         \/ i - (n + 1) \in 1..m /\ i = n + 1 + (i - (n + 1))
  BY <1>1
<1> QED
  BY <1>1, <1>2

\* A text that has arrived has still arrived when one more chunk of it is sent.
LEMMA ChunkArrives ==
  ASSUME NEW text \in Seq(Characters), NEW before, Arrives(text, before),
         NEW d \in Seq(Characters), ~LineFeeds(d), NEW after, Written(before, d, after),
         WholeLines(before)
  PROVE  Arrives(text \o d, after)
<1> DEFINE t == Len(text)
           m == Len(d)
           n == Len(before)
           all == text \o d
           Old == Carried(before)
           New == Carried(after)
<1>1. /\ t \in Nat /\ m \in Nat /\ Len(all) = t + m
      /\ \A k \in 1..t : all[k] = text[k]
      /\ \A k \in 1..m : all[t + k] = d[k]
  OBVIOUS
<1>2. n \in Nat
  BY DEF Written
<1>3. /\ \A i \in Old : i \in New /\ i \in 1..n /\ after[i] = before[i]
      /\ \A k \in 1..m : n + 1 + k \in New /\ after[n + 1 + k] = d[k]
      /\ \A i \in New : i \in Old \/ \E k \in 1..m : i = n + 1 + k
  BY ChunkRead
<1>4. PICK f \in [Spoken(text) -> Old] : Places(f, text, before)
  BY DEF Arrives
<1>5. /\ \A k : k \in Spoken(all) <=> k \in 1..(t + m) /\ all[k] # LF
      /\ \A k : k \in Spoken(text) <=> k \in 1..t /\ text[k] # LF
  BY <1>1 DEF Spoken
<1>6. \A k \in 1..m : t + k \in Spoken(all)
  <2> SUFFICES ASSUME NEW k \in 1..m PROVE t + k \in Spoken(all)
    OBVIOUS
  <2>1. d[k] # LF
    BY DEF LineFeeds
  <2>2. t + k \in 1..(t + m) /\ all[t + k] = d[k]
    BY <1>1
  <2> QED
    BY <2>1, <2>2, <1>5
<1> DEFINE g == [k \in Spoken(all) |-> IF k <= t THEN f[k] ELSE n + 1 + (k - t)]
<1> HIDE DEF t, m, n, all, Old, New
<1>7. ASSUME NEW k \in Spoken(all)
      PROVE  \/ /\ k <= t /\ k \in Spoken(text) /\ all[k] = text[k]
                /\ g[k] = f[k] /\ g[k] \in Old
             \/ /\ k > t /\ k - t \in 1..m /\ all[k] = d[k - t] /\ g[k] = n + 1 + (k - t)
  <2>1. k \in 1..(t + m) /\ all[k] # LF
    BY <1>5
  <2>2. CASE k <= t
    <3>1. k \in 1..t /\ all[k] = text[k]
      BY <2>1, <2>2, <1>1
    <3>2. k \in Spoken(text)
      BY <3>1, <2>1, <1>5
    <3> QED
      BY <3>1, <3>2, <2>2, <1>4
  <2>3. CASE ~(k <= t)
    <3>1. k > t /\ k - t \in 1..m /\ t + (k - t) = k
      BY <2>1, <2>3, <1>1
    <3>2. all[k] = d[k - t]
      BY <3>1, <1>1
    <3> QED
      BY <3>1, <3>2, <2>3
  <2> QED
    BY <2>2, <2>3
<1>8. \A k \in Spoken(all) : g[k] \in New /\ after[g[k]] = all[k]
  <2> SUFFICES ASSUME NEW k \in Spoken(all) PROVE g[k] \in New /\ after[g[k]] = all[k]
    OBVIOUS
  <2>1. CASE k <= t /\ k \in Spoken(text) /\ all[k] = text[k] /\ g[k] = f[k] /\ g[k] \in Old
    <3>1. before[f[k]] = text[k]
      BY <2>1, <1>4 DEF Places
    <3> QED
      BY <3>1, <2>1, <1>3
  <2>2. CASE k - t \in 1..m /\ all[k] = d[k - t] /\ g[k] = n + 1 + (k - t)
    BY <2>2, <1>3
  <2> QED
    BY <2>1, <2>2, <1>7
<1>9. ASSUME NEW j \in Spoken(all), NEW k \in Spoken(all), j < k
      PROVE  g[j] < g[k]
  <2>1. j \in Int /\ k \in Int /\ n \in Int /\ t \in Int
    BY <1>1, <1>2, <1>5
  <2>2. CASE k <= t
    <3>1. j <= t
      BY <2>1, <2>2, <1>9
    <3>2. j \in Spoken(text) /\ k \in Spoken(text) /\ g[j] = f[j] /\ g[k] = f[k]
      BY <2>1, <2>2, <3>1, <1>7
    <3> QED
      BY <3>2, <1>4, <1>9 DEF Places
  <2>3. CASE k > t /\ j <= t
    <3>1. g[j] \in 1..n /\ g[k] = n + 1 + (k - t)
      BY <2>1, <2>3, <1>3, <1>7
    <3> QED
      BY <2>1, <2>3, <3>1
  <2>4. CASE j > t
    <3>1. g[j] = n + 1 + (j - t) /\ g[k] = n + 1 + (k - t)
      BY <2>1, <2>4, <1>7, <1>9
    <3> QED
      BY <2>1, <3>1, <1>9
  <2> QED
    BY <2>1, <2>2, <2>3, <2>4
<1>10. ASSUME NEW i \in New PROVE \E k \in Spoken(all) : g[k] = i
  <2>1. CASE i \in Old
    <3>1. PICK k \in Spoken(text) : f[k] = i
      BY <2>1, <1>4 DEF Places, Old
    <3>2. k \in 1..t /\ text[k] # LF /\ k \in 1..(t + m) /\ k <= t /\ all[k] = text[k]
      BY <1>1, <1>5
    <3>3. k \in Spoken(all)
      BY <3>2, <1>5
    <3> QED
      BY <3>1, <3>2, <3>3
  <2>2. CASE \E k \in 1..m : i = n + 1 + k
    <3>1. PICK k \in 1..m : i = n + 1 + k
      BY <2>2
    <3>2. ~(t + k <= t) /\ n + 1 + ((t + k) - t) = i
      BY <3>1, <1>1, <1>2
    <3>3. t + k \in Spoken(all)
      BY <1>6
    <3> QED
      BY <3>2, <3>3
  <2> QED
    BY <2>1, <2>2, <1>3
<1>11. g \in [Spoken(all) -> New]
  BY <1>8
<1>12. Places(g, all, after)
  BY <1>8, <1>9, <1>10 DEF Places, New
<1> QED
  BY <1>11, <1>12 DEF Arrives, all, New

\* Until a stream is over, nothing but the provider's text is read.
LEMMA TextOnly ==
  ASSUME ReadInv, pc # "done", ~LineFeeds(said)
  PROVE  Arrives(said, wire)
<1>1. Endings = {<<>>}
  BY DEF Endings
<1>2. said \in Seq(Characters)
  BY DEF ReadInv, TypeOK
<1>3. said \o <<>> = said
  BY <1>2
<1> QED
  BY <1>1, <1>3, Zenon DEF ReadInv, TextArrives

\* The last step of a stream: one mark is written, whatever was written before.
LEMMA MarkEnds ==
  ASSUME ReadInv, pc # "done", pc' = "done", said' = said, asked', NEW mark \in Marks,
         wire' = wire \o Frame(<<mark>>)
  PROVE  WholeLines(wire') /\ EndsWithOneMark' /\ TextArrives'
<1>1. wire \in Seq(Characters) /\ said \in Seq(Characters) /\ WholeLines(wire)
  BY DEF ReadInv, TypeOK
<1>2. <<mark>> \in Seq(Characters) /\ Len(<<mark>>) = 1
  BY DeltaType
<1>3. Written(wire, <<mark>>, wire')
  BY <1>1, <1>2, EventWritten, Zenon
<1>4. Len(wire) \in Nat /\ Len(wire') = Len(wire) + 4 /\ wire'[Len(wire) + 4] = LF
  BY <1>2, <1>3 DEF Written
<1>5. WholeLines(wire')
  BY <1>4 DEF WholeLines
<1>6. EndsWithOneMark'
  <2>1. /\ Len(wire) + 2 \in MarkLines(wire')
        /\ \A i \in Carried(wire') : i <= Len(wire) + 2
        /\ (\A i \in 1..Len(wire) : wire[i] \notin Marks) => MarkLines(wire') = {Len(wire) + 2}
    BY <1>1, <1>3, MarkRead
  <2>2. ~Marked(said') => \A i \in 1..Len(wire) : wire[i] \notin Marks
    BY DEF ReadInv, Unmarked
  <2> QED
    BY <2>1, <2>2 DEF EndsWithOneMark
<1>7. TextArrives'
  <2> SUFFICES ASSUME ~LineFeeds(said) PROVE Arrives(said \o <<mark>>, wire')
    BY DEF TextArrives, Endings
  <2>1. ~LineFeeds(<<mark>>)
    BY Distinct DEF LineFeeds
  <2> QED
    BY <1>1, <1>2, <1>3, <2>1, TextOnly, ChunkArrives, Zenon
<1> QED
  BY <1>5, <1>6, <1>7

LEMMA InitRead == Init => ReadInv
<1> SUFFICES ASSUME Init PROVE ReadInv
  OBVIOUS
<1>1. wire = <<>> /\ Len(wire) = 0 /\ said = <<>> /\ Len(said) = 0 /\ pc = "receive" /\ ~asked
  BY DEF Init
<1>2. WholeLines(wire) /\ Unmarked /\ EndsWithOneMark
  BY <1>1 DEF WholeLines, Unmarked, EndsWithOneMark
<1>3. TextArrives
  <2>1. said \o <<>> = <<>> /\ <<>> \in Endings
    BY <1>1 DEF Endings
  <2>2. Spoken(<<>>) = {} /\ Carried(wire) = {}
    BY <1>1 DEF Spoken, Carried
  <2>3. [k \in {} |-> k] \in [Spoken(<<>>) -> Carried(wire)]
    BY <2>2
  <2>4. Places([k \in {} |-> k], <<>>, wire)
    BY <2>2 DEF Places
  <2> QED
    BY <2>1, <2>3, <2>4 DEF TextArrives, Arrives
<1> QED
  BY <1>2, <1>3, InitTypes DEF ReadInv

LEMMA NextRead == ReadInv /\ TypeOK' /\ [Next]_vars => ReadInv'
<1> SUFFICES ASSUME ReadInv, TypeOK', [Next]_vars PROVE ReadInv'
  OBVIOUS
\* A step that writes nothing and either goes on or ends a request that is not
\* streamed, has lost its client, was refused or is over the limit.
<1>1. ASSUME UNCHANGED <<wire, said>>, pc # "done",
             pc' \notin {"stream", "done"} => ~asked' /\ wire = <<>> /\ said = <<>>,
             pc' = "stream" => asked',
             pc' = "done" => \/ ~Streamed' \/ client' = "gone" \/ status' # 200
                             \/ ~asked' /\ wire = <<>> /\ req'.size # "short"
      PROVE  ReadInv'
  <2>1. WholeLines(wire') /\ Unmarked' /\ EndsWithOneMark'
    BY <1>1 DEF ReadInv, Unmarked, EndsWithOneMark
  <2>2. TextArrives'
    <3> SUFFICES ASSUME ~LineFeeds(said) PROVE \E end \in Endings' : Arrives(said \o end, wire)
      BY <1>1 DEF TextArrives
    <3>1. Arrives(said, wire)
      BY <1>1, TextOnly
    <3>2. said \in Seq(Characters)
      BY DEF ReadInv, TypeOK
    <3>3. said \o <<>> = said
      BY <3>2
    <3>4. <<>> \in Endings'
      BY DEF Endings
    <3> QED
      BY <3>1, <3>3, <3>4, Zenon
  <2> QED
    BY <2>1, <2>2 DEF ReadInv
<1>2. ASSUME Receive \/ SendHeaders \/ Validate \/ OpenStream \/ Disconnect PROVE ReadInv'
  <2>1. /\ UNCHANGED <<wire, said>> /\ pc # "done"
        /\ pc' \notin {"stream", "done"} => ~asked' /\ wire = <<>> /\ said = <<>>
        /\ pc' = "stream" => asked'
        /\ pc' = "done" => \/ client' = "gone" \/ status' # 200
                           \/ ~Streamed'
                           \/ ~asked' /\ wire = <<>> /\ req'.size # "short"
    BY <1>2 DEF Receive, SendHeaders, Validate, WithinLimit, OpenStream, Disconnect, Respond,
                Continue, Streamed, ReadInv, Unmarked
  <2> QED
    BY <1>1, <2>1
<1>3. ASSUME Complete PROVE ReadInv'
  <2>1. /\ UNCHANGED <<wire, said>> /\ pc # "done" /\ pc' = "done" /\ ~Streamed'
    BY <1>3 DEF Complete, Streamed
  <2> QED
    BY <1>1, <2>1
<1>4. ASSUME NEW d \in Deltas, Delta(d) PROVE ReadInv'
  <2>1. /\ d \in Seq(Characters) /\ wire \in Seq(Characters) /\ said \in Seq(Characters)
        /\ said' = said \o d /\ pc = "stream" /\ pc' = "stream" /\ asked' /\ WholeLines(wire)
    <3>1. said' = said \o d /\ pc = "stream" /\ pc' = "stream" /\ asked' = asked
      BY <1>4, Zenon DEF Delta
    <3> QED
      BY <3>1, DeltaType DEF ReadInv, Unmarked, TypeOK
  <2>2. EndsWithOneMark'
    BY <2>1 DEF EndsWithOneMark
  <2>3. CASE d = <<>>
    <3>1. wire' = wire
      BY <2>3, <1>4, Zenon DEF Delta
    <3>2. said' = said
      BY <2>1, <2>3
    <3>3. pc' = pc
      BY <2>1
    <3> QED
      BY <2>1, <2>2, <3>1, <3>2, <3>3 DEF ReadInv, Unmarked, TextArrives, Endings
  <2>4. CASE d # <<>>
    <3>1. wire' = wire \o Frame(d)
      BY <2>4, <1>4, ZenonT(40) DEF Delta
    <3>2. Written(wire, d, wire')
      BY <2>1, <3>1, EventWritten, Zenon
    <3>3. /\ Len(wire) \in Nat /\ Len(d) \in Nat /\ Len(wire') = Len(wire) + Len(d) + 3
          /\ wire'[Len(wire) + Len(d) + 3] = LF
      BY <3>2 DEF Written
    <3>4. WholeLines(wire')
      BY <3>3 DEF WholeLines
    <3>5. /\ \A k \in 1..Len(said) : k \in 1..Len(said') /\ said'[k] = said[k]
          /\ \A k \in 1..Len(d) : Len(said) + k \in 1..Len(said') /\ said'[Len(said) + k] = d[k]
      BY <2>1
    <3>6. ASSUME ~Marked(said') PROVE \A i \in 1..Len(wire') : wire'[i] \notin Marks
      <4>1. ~Marked(said) /\ \A k \in 1..Len(d) : d[k] \notin Marks
        BY <3>5, <3>6 DEF Marked
      <4>2. \A i \in 1..Len(wire) : wire[i] \notin Marks
        BY <2>1, <4>1 DEF ReadInv, Unmarked
      <4> QED
        BY <3>2, <4>1, <4>2, ChunkUnmarked
    <3>7. TextArrives'
      <4> SUFFICES ASSUME ~LineFeeds(said') PROVE Arrives(said' \o <<>>, wire')
        BY DEF TextArrives, Endings
      <4>1. ~LineFeeds(said) /\ ~LineFeeds(d)
        BY <3>5 DEF LineFeeds
      <4>2. Arrives(said, wire)
        BY <2>1, <4>1, TextOnly
      <4>3. Arrives(said \o d, wire')
        BY <2>1, <3>2, <4>1, <4>2, ChunkArrives, Zenon
      <4>4. said \o d \in Seq(Characters)
        BY <2>1
      <4>5. said' \o <<>> = said \o d
        BY <2>1, <4>4
      <4> QED
        BY <4>3, <4>5, Zenon
    <3> QED
      BY <2>1, <2>2, <3>4, <3>6, <3>7 DEF ReadInv, Unmarked
  <2> QED
    BY <2>3, <2>4
<1>5. ASSUME EndStream \/ StreamFails PROVE ReadInv'
  <2>1. PICK mark \in Marks : wire' = wire \o Frame(<<mark>>)
    BY <1>5, Zenon DEF EndStream, StreamFails, Marks
  <2>2. said' = said /\ pc # "done" /\ pc' = "done" /\ asked'
    BY <1>5 DEF EndStream, StreamFails, ReadInv, Unmarked
  <2>3. WholeLines(wire') /\ EndsWithOneMark' /\ TextArrives'
    BY <2>1, <2>2, MarkEnds
  <2> QED
    BY <2>2, <2>3 DEF ReadInv, Unmarked
<1>6. CASE UNCHANGED vars
  BY <1>6 DEF vars, ReadInv, WholeLines, Unmarked, EndsWithOneMark, TextArrives, Streamed, Endings
<1> QED
  BY <1>2, <1>3, <1>4, <1>5, <1>6 DEF Next

LEMMA ReadInductive == Spec => []ReadInv
  BY InitRead, NextRead, StreamTypes, PTL DEF Spec

\* Wherever the provider refuses, fails or breaks off, and whatever it wrote, the
\* last thing a client that stays reads of a stream is a mark; and the only one,
\* unless the provider wrote one.  A 200 with an empty body is a prompt over the limit.
THEOREM StreamsEndWithOneMark == Spec => []EndsWithOneMark
<1>1. ReadInv => EndsWithOneMark
  BY DEF ReadInv
<1> QED
  BY <1>1, ReadInductive, PTL

\* A completion without line ends is read character by character as the provider
\* has sent it, at every moment and for every way to cut it into chunks; all the
\* client reads besides is the mark at the end.
THEOREM LettersArrive == Spec => []TextArrives
<1>1. ReadInv => TextArrives
  BY DEF ReadInv
<1> QED
  BY <1>1, ReadInductive, PTL

=============================================================================
