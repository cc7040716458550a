------------------------- MODULE Conversations_proof -------------------------
(***************************************************************************)
(* Proofs about Conversations, for every number of requests, however many  *)
(* of them are under way at once, and every number of failures: type       *)
(* correctness, that a conversation that was deleted stays away, that an   *)
(* answer is kept, and that the application is told each one once.         *)
(***************************************************************************)
EXTENDS Conversations, SequenceTheorems, FiniteSetTheorems, TLAPS

-----------------------------------------------------------------------------
(* Slices and arrays *)

\* What is behind a slice, in these arrays.
In(a, s) == IF s.array = 0 THEN <<>> ELSE a[s.array]

\* The requests that have not appended anything yet.
Unwritten == {"no", "find", "append", "object", "kb", "file", "drop", "unkb"}

\* Whose arrays are whose: a request in Postgres has only its own, and one in
\* memory that has appended nothing has none.
Owned ==
  /\ storage = "postgres" => stored.slice = NoSlice /\ \A r \in Reqs : reqs[r].slice.array \in {0, r}
  /\ storage = "memory" => \A r \in Reqs : reqs[r].pc \in Unwritten => arrays[r] = <<>>

\* Who has appended has a slice.
Written == \A r \in Reqs : reqs[r].pc \in {"running", "put"} => reqs[r].slice.array # 0 /\ reqs[r].slice.len > 0

\* The slices, and whose they are.
Sliced ==
  /\ arrays \in [Reqs -> Seq(Messages)]
  /\ stored \in [exists : BOOLEAN, slice : Slices] /\ stored.slice.len <= Len(In(arrays, stored.slice))
  /\ ~stored.exists => stored.slice = NoSlice
  /\ reqs \in [Reqs -> Requests] /\ \A r \in Reqs : reqs[r].slice.len <= Len(In(arrays, reqs[r].slice))
  /\ Owned /\ Written

\* And the rest of what there is.
Others ==
  /\ storage \in {"memory", "postgres"}
  /\ rows \in [exists : BOOLEAN, messages : SUBSET Messages] /\ IsFiniteSet(rows.messages)
  /\ kb \in [exists : BOOLEAN, files : SUBSET Reqs] /\ objects \subseteq Reqs
  /\ faults \in 0..MaxFaults

Typed == Sliced /\ Others

LEMMA MessageType ==
  /\ Blank \in Messages
  /\ \A r \in Reqs : Message(r, 0) \in Messages /\ Message(r, r) \in Messages
BY BoundsAssumption DEF Blank, Message, Messages, Reqs

LEMMA NoSliceType == NoSlice \in Slices /\ NoSlice.len = 0 /\ NoSlice.array = 0
BY BoundsAssumption DEF NoSlice, Slices

LEMMA ArrayType ==
  ASSUME arrays \in [Reqs -> Seq(Messages)], NEW s \in Slices
  PROVE  In(arrays, s) \in Seq(Messages) /\ Len(In(arrays, s)) \in Nat
<1>1. s.array \in 0..NReqs
  BY DEF Slices
<1>2. CASE s.array = 0
  BY <1>2, EmptySeq DEF In
<1>3. CASE s.array # 0
  BY <1>1, <1>3, LenProperties, BoundsAssumption DEF In, Reqs
<1>. QED BY <1>2, <1>3

\* What a slice holds.
LEMMA ContentType ==
  ASSUME arrays \in [Reqs -> Seq(Messages)], NEW s \in Slices, s.len <= Len(In(arrays, s))
  PROVE  /\ Content(s) \in Seq(Messages) /\ Len(Content(s)) = s.len
         /\ \A i \in 1..s.len : Content(s)[i] = In(arrays, s)[i]
<1>1. In(arrays, s) \in Seq(Messages) /\ Len(In(arrays, s)) \in Nat
  BY ArrayType
<1>2. s.len \in Nat
  BY DEF Slices
<1>3. \A i \in 1..s.len : In(arrays, s)[i] \in Messages
  BY <1>1, <1>2, ElementOfSeq
<1>. QED BY <1>2, <1>3, SubSeqProperties DEF Content, Array, In

\* An array of twice the size.
LEMMA GrownType ==
  ASSUME NEW a \in Seq(Messages)
  PROVE  /\ Grown(a) \in Seq(Messages) /\ Len(Grown(a)) > Len(a)
         /\ \A i \in 1..Len(a) : Grown(a)[i] = a[i]
<1>. DEFINE k == IF a = <<>> THEN 1 ELSE Len(a)
            b == [i \in 1..k |-> Blank]
<1>1. k \in Nat /\ k > 0
  BY EmptySeq, LenProperties
<1>. HIDE DEF k
<1>2. b \in Seq(Messages) /\ Len(b) = k
  BY <1>1, MessageType
<1>3. Len(a) \in Nat
  BY LenProperties
<1>. HIDE DEF b
<1>4. Grown(a) = a \o b
  BY DEF Grown, b, k
<1>. QED BY <1>1, <1>2, <1>3, <1>4, ConcatProperties

-----------------------------------------------------------------------------
(* What a step does to the requests *)

LEMMA GotoEffect ==
  ASSUME reqs \in [Reqs -> Requests], NEW r \in Reqs, NEW pc \in Pcs, Goto(r, pc)
  PROVE  /\ reqs' \in [Reqs -> Requests]
         /\ reqs'[r] = [reqs[r] EXCEPT !.pc = pc]
         /\ \A q \in Reqs : q # r => reqs'[q] = reqs[q]
BY DEF Goto, Requests

\* The others lose their being alone, and nothing else.
LEMMA BeginsEffect ==
  ASSUME reqs \in [Reqs -> Requests], NEW r \in Reqs, NEW pc \in Pcs, NEW kind \in Kinds,
         NEW s \in Slices, Begins(r, kind, pc, s)
  PROVE  /\ reqs' \in [Reqs -> Requests]
         /\ reqs'[r].pc = pc /\ reqs'[r].kind = kind /\ reqs'[r].slice = s /\ reqs'[r].history = <<>>
         /\ reqs'[r].alone <=> \A p \in Reqs : ~Active(p)
         /\ \A q \in Reqs : q # r =>
              /\ reqs'[q].pc = reqs[q].pc /\ reqs'[q].kind = reqs[q].kind
              /\ reqs'[q].slice = reqs[q].slice /\ reqs'[q].history = reqs[q].history
              /\ reqs'[q].alone <=> reqs[q].alone /\ ~Active(q)
<1>. DEFINE alone == \A p \in Reqs : ~Active(p)
            new == [NoReq EXCEPT !.pc = pc, !.kind = kind, !.slice = s, !.alone = alone]
            old(q) == [reqs[q] EXCEPT !.alone = @ /\ ~Active(q)]
<1>1. reqs' = [q \in Reqs |-> IF q = r THEN new ELSE old(q)]
  BY DEF Begins
<1>3. alone \in BOOLEAN /\ <<>> \in Seq(Messages)
  BY EmptySeq
<1>4. \A q \in Reqs : old(q) = [pc |-> reqs[q].pc, kind |-> reqs[q].kind, slice |-> reqs[q].slice,
                                history |-> reqs[q].history, alone |-> (reqs[q].alone /\ ~Active(q))]
  BY DEF Requests
<1>. HIDE DEF alone
<1>5. new \in Requests /\ new.pc = pc /\ new.kind = kind /\ new.slice = s /\ new.history = <<>> /\ new.alone = alone
  <2>1. NoReq \in Requests /\ NoReq.history = <<>>
    BY <1>3, NoSliceType DEF NoReq, Requests, Pcs, Kinds
  <2>. QED BY <1>3, <2>1 DEF Requests
<1>6. \A q \in Reqs : old(q) \in Requests
  BY <1>4 DEF Requests
<1>. HIDE DEF new, old
<1>7. reqs'[r] = new /\ \A q \in Reqs : q # r => reqs'[q] = old(q)
  BY <1>1
<1>8. reqs' \in [Reqs -> Requests]
  BY <1>1, <1>5, <1>6
<1>9. reqs'[r].pc = pc /\ reqs'[r].kind = kind /\ reqs'[r].slice = s /\ reqs'[r].history = <<>>
  BY <1>5, <1>7
<1>10. reqs'[r].alone = alone
  BY <1>5, <1>7
<1>11. ASSUME NEW q \in Reqs, q # r
       PROVE  /\ reqs'[q].pc = reqs[q].pc /\ reqs'[q].kind = reqs[q].kind
              /\ reqs'[q].slice = reqs[q].slice /\ reqs'[q].history = reqs[q].history
  BY <1>4, <1>7, <1>11
<1>12. ASSUME NEW q \in Reqs, q # r
       PROVE  reqs'[q].alone = (reqs[q].alone /\ ~Active(q))
  BY <1>4, <1>7, <1>12
<1>. QED BY <1>8, <1>9, <1>10, <1>11, <1>12 DEF alone

\* A message goes behind the end of the request's slice, and nobody loses what
\* a slice holds, but perhaps what is at that place of the same array.
LEMMA AppendedEffect ==
  ASSUME Typed, NEW r \in Reqs, reqs[r].pc \in Unwritten,
         NEW m \in Messages, Appended(r, m)
  PROVE  LET s == reqs[r].slice
             t == reqs'[r].slice IN
         /\ arrays' \in [Reqs -> Seq(Messages)] /\ reqs' \in [Reqs -> Requests]
         /\ reqs'[r] = [reqs[r] EXCEPT !.slice = t, !.pc = IF m.answer = 0 THEN "running" ELSE "put"]
         /\ \A q \in Reqs : q # r => reqs'[q] = reqs[q]
         /\ t \in Slices /\ t.len = s.len + 1 /\ t.array \in Reqs \cap {s.array, r}
         /\ t.len <= Len(In(arrays', t)) /\ In(arrays', t)[t.len] = m
         /\ \A i \in 1..s.len : In(arrays', t)[i] = In(arrays, s)[i]
         /\ t.array # r => t.len <= Len(In(arrays, s))
         /\ \A q \in Reqs : q # t.array => arrays'[q] = arrays[q]
         /\ \A u \in Slices : u.len <= Len(In(arrays, u)) /\ (u.array = r => u.len = 0 \/ u.array = s.array) =>
              /\ u.len <= Len(In(arrays', u))
              /\ \A i \in 1..u.len : u.array # t.array \/ i # t.len => In(arrays', u)[i] = In(arrays, u)[i]
<1>. DEFINE s == reqs[r].slice
            n == s.len + 1
            fits == n <= Len(In(arrays, s))
            a == IF fits THEN s.array ELSE r
            room == IF fits THEN arrays[a] ELSE Grown(Content(s))
            new == [room EXCEPT ![n] = m]
            t == [array |-> a, len |-> n]
<1>1. /\ arrays \in [Reqs -> Seq(Messages)] /\ reqs \in [Reqs -> Requests]
      /\ s \in Slices /\ s.len <= Len(In(arrays, s)) /\ s.len \in Nat /\ s.array \in 0..NReqs
  BY DEF Typed, Sliced, Requests, Slices
<1>2. In(arrays, s) \in Seq(Messages) /\ Len(In(arrays, s)) \in Nat
  BY <1>1, ArrayType
<1>3. /\ arrays' = [arrays EXCEPT ![a] = new]
      /\ reqs' = [reqs EXCEPT ![r].slice = t, ![r].pc = IF m.answer = 0 THEN "running" ELSE "put"]
  BY DEF Appended, In, Array
<1>. HIDE DEF s
<1>4. a \in Reqs /\ a \in {s.array, r} /\ (fits => In(arrays, s) = arrays[a]) /\ (~fits => s.len = Len(In(arrays, s)))
  <2>1. s.array = 0 => Len(In(arrays, s)) = 0
    BY EmptySeq DEF In
  <2>2. CASE fits
    <3>1. s.array # 0
      BY <1>1, <2>1, <2>2
    <3>. QED BY <1>1, <2>2, <3>1, BoundsAssumption DEF In, Reqs
  <2>3. CASE ~fits
    BY <1>1, <1>2, <2>3
  <2>. QED BY <2>2, <2>3
<1>5. /\ room \in Seq(Messages) /\ n \in 1..Len(room) /\ Len(room) >= Len(In(arrays, s))
      /\ \A i \in 1..s.len : room[i] = In(arrays, s)[i]
      /\ fits => room = arrays[a]
  <2>1. CASE fits
    BY <1>1, <1>2, <1>4, <2>1
  <2>2. CASE ~fits
    <3>1. /\ Content(s) \in Seq(Messages) /\ Len(Content(s)) = s.len
          /\ \A i \in 1..s.len : Content(s)[i] = In(arrays, s)[i]
      BY <1>1, ContentType
    <3>2. /\ Grown(Content(s)) \in Seq(Messages) /\ Len(Grown(Content(s))) > s.len
          /\ \A i \in 1..s.len : Grown(Content(s))[i] = In(arrays, s)[i]
      BY <3>1, GrownType
    <3>3. Len(Grown(Content(s))) \in Nat
      BY <3>2, LenProperties
    <3>4. room = Grown(Content(s))
      BY <2>2
    <3>. HIDE DEF room
    <3>. QED BY <1>1, <1>2, <1>4, <2>2, <3>2, <3>3, <3>4
  <2>. QED BY <2>1, <2>2
<1>. HIDE DEF room
<1>6. /\ new \in Seq(Messages) /\ Len(new) = Len(room) /\ new[n] = m
      /\ \A i \in 1..Len(room) : i # n => new[i] = room[i]
  BY <1>5, ExceptSeq
<1>. HIDE DEF new
<1>7. arrays' \in [Reqs -> Seq(Messages)] /\ arrays'[a] = new /\ \A q \in Reqs : q # a => arrays'[q] = arrays[q]
  BY <1>1, <1>3, <1>4, <1>6
<1>8. t \in Slices /\ t.len = n /\ t.array = a
  BY <1>1, <1>4, BoundsAssumption DEF Slices, Reqs
<1>. HIDE DEF t
<1>9. /\ reqs'[r] = [reqs[r] EXCEPT !.slice = t, !.pc = IF m.answer = 0 THEN "running" ELSE "put"]
      /\ \A q \in Reqs : q # r => reqs'[q] = reqs[q]
      /\ reqs' \in [Reqs -> Requests] /\ reqs'[r].slice = t
  BY <1>1, <1>3, <1>8 DEF Requests, Pcs
<1>10. In(arrays', t) = new
  BY <1>4, <1>7, <1>8, BoundsAssumption DEF In, Reqs
<1>11. n <= Len(new) /\ \A i \in 1..s.len : new[i] = In(arrays, s)[i]
  BY <1>1, <1>5, <1>6
<1>12. ASSUME NEW u \in Slices, u.len <= Len(In(arrays, u)), u.array = r => u.len = 0 \/ u.array = s.array
       PROVE  /\ u.len <= Len(In(arrays', u))
              /\ \A i \in 1..u.len : u.array # a \/ i # n => In(arrays', u)[i] = In(arrays, u)[i]
  <2>1. u.array \in 0..NReqs /\ u.len \in Nat
    BY DEF Slices
  <2>2. CASE u.array # a
    <3>1. In(arrays', u) = In(arrays, u)
      BY <1>7, <2>1, <2>2, BoundsAssumption DEF In, Reqs
    <3>. QED BY <1>12, <3>1
  <2>3. CASE u.array = a
    <3>1. In(arrays', u) = new /\ In(arrays, u) = arrays[a]
      BY <1>4, <1>7, <2>3, BoundsAssumption DEF In, Reqs
    <3>2. CASE fits
      <4>1. Len(room) \in Nat
        BY <1>5, LenProperties
      <4>2. u.len <= Len(room) /\ room = In(arrays, u)
        BY <1>5, <1>12, <3>1, <3>2
      <4>3. u.len <= Len(new) /\ \A i \in 1..u.len : i # n => new[i] = room[i]
        BY <1>6, <2>1, <4>1, <4>2
      <4>. QED BY <2>3, <3>1, <4>2, <4>3
    <3>3. CASE ~fits /\ u.len = 0
      BY <1>5, <1>6, <2>1, <3>1, <3>3
    <3>4. CASE ~fits /\ u.array = s.array
      <4>1. In(arrays, u) = In(arrays, s)
        BY <3>4 DEF In
      <4>. QED BY <1>1, <1>2, <1>4, <1>5, <1>6, <1>12, <2>1, <3>1, <3>4, <4>1
    <3>. QED BY <1>4, <1>12, <2>3, <3>2, <3>3, <3>4
  <2>. QED BY <2>2, <2>3
<1>13. /\ a # r => n <= Len(In(arrays, s))
       /\ \A q \in Reqs : q # a => arrays'[q] = arrays[q]
  BY <1>7
<1>. HIDE DEF a, n
<1>14. \A u \in Slices : u.len <= Len(In(arrays, u)) /\ (u.array = r => u.len = 0 \/ u.array = s.array) =>
         /\ u.len <= Len(In(arrays', u))
         /\ \A i \in 1..u.len : u.array # a \/ i # n => In(arrays', u)[i] = In(arrays, u)[i]
  BY <1>12
<1>15. n = s.len + 1
  BY DEF n
<1>. QED BY <1>4, <1>6, <1>7, <1>8, <1>9, <1>10, <1>11, <1>13, <1>14, <1>15 DEF s

-----------------------------------------------------------------------------
(* Type correctness *)

LEMMA TypedMeans == Typed => TypeOK
BY DEF Typed, Sliced, Others, TypeOK, Array, In

LEMMA InitTyped == Init => Typed
<1>. SUFFICES ASSUME Init PROVE Sliced /\ Others
  BY DEF Typed
<1>1. Others
  BY FS_EmptySet, BoundsAssumption DEF Init, Others
<1>2. NoReq \in Requests /\ NoReq.slice = NoSlice /\ NoReq.pc = "no"
  BY NoSliceType, EmptySeq DEF NoReq, Requests, Pcs, Kinds
<1>3. arrays \in [Reqs -> Seq(Messages)] /\ \A r \in Reqs : arrays[r] = <<>>
  BY EmptySeq DEF Init
<1>4. In(arrays, NoSlice) = <<>> /\ Len(<<>>) = 0
  BY NoSliceType, EmptySeq DEF In
<1>5. \A r \in Reqs : reqs[r] = NoReq
  BY DEF Init
<1>. QED BY <1>1, <1>2, <1>3, <1>4, <1>5, NoSliceType DEF Init, Sliced, Owned, Written

\* Nobody has another slice than before, or says that it has appended something.
SameSlices ==
  \A q \in Reqs : /\ reqs'[q].slice \in {reqs[q].slice, NoSlice}
                  /\ reqs'[q].pc \in Unwritten => reqs[q].pc \in Unwritten
                  /\ reqs'[q].pc \in {"running", "put"} =>
                       reqs'[q].slice = reqs[q].slice /\ reqs[q].pc \in {"running", "put"}

\* The arrays stay as they are, and what is stored is one of their slices.
LEMMA KeptSliced ==
  ASSUME Sliced, UNCHANGED <<storage, arrays>>, reqs' \in [Reqs -> Requests],
         SameSlices,
         NEW s \in Slices, s.len <= Len(In(arrays, s)), storage = "postgres" => s = NoSlice,
         \/ stored' = stored
         \/ stored' = [exists |-> TRUE, slice |-> s]
         \/ stored' = [exists |-> FALSE, slice |-> NoSlice]
  PROVE  Sliced'
<1>1. NoSlice.len <= Len(In(arrays, NoSlice))
  BY NoSliceType, EmptySeq DEF In
<1>2. /\ stored' \in [exists : BOOLEAN, slice : Slices] /\ stored'.slice \in {stored.slice, s, NoSlice}
      /\ stored'.slice.len <= Len(In(arrays, stored'.slice))
      /\ ~stored'.exists => stored'.slice = NoSlice
      /\ storage = "postgres" => stored'.slice = NoSlice
  <2>1. CASE stored' = stored
    BY <2>1 DEF Sliced, Owned
  <2>2. CASE stored' = [exists |-> TRUE, slice |-> s]
    BY <2>2
  <2>3. CASE stored' = [exists |-> FALSE, slice |-> NoSlice]
    BY <1>1, <2>3, NoSliceType
  <2>. QED BY <2>1, <2>2, <2>3
<1>3. \A r \in Reqs : reqs'[r].slice.len <= Len(In(arrays, reqs'[r].slice))
  BY <1>1 DEF Sliced, SameSlices
<1>4. Owned'
  <2>1. storage = "postgres" => \A r \in Reqs : reqs'[r].slice.array \in {0, r}
    BY NoSliceType DEF Sliced, Owned, SameSlices
  <2>2. storage = "memory" => \A r \in Reqs : reqs'[r].pc \in Unwritten => arrays[r] = <<>>
    BY DEF Sliced, Owned, SameSlices
  <2>. QED BY <1>2, <2>1, <2>2 DEF Owned
<1>5. Written'
  BY DEF Sliced, Written, SameSlices
<1>. QED BY <1>2, <1>3, <1>4, <1>5 DEF Sliced

\* A request goes on, and the slices stay as they are.
LEMMA GotoSliced ==
  ASSUME Sliced, NEW r \in Reqs, NEW pc \in Pcs, Goto(r, pc), UNCHANGED <<storage, arrays>>,
         pc \in Unwritten => reqs[r].pc \in Unwritten,
         pc \in {"running", "put"} => reqs[r].pc = "running",
         \/ stored' = stored
         \/ stored' = [exists |-> FALSE, slice |-> NoSlice]
         \/ storage # "postgres" /\ stored' = [exists |-> TRUE, slice |-> reqs[r].slice]
  PROVE  Sliced'
<1>1. /\ reqs' \in [Reqs -> Requests]
      /\ reqs'[r] = [reqs[r] EXCEPT !.pc = pc]
      /\ \A q \in Reqs : q # r => reqs'[q] = reqs[q]
  BY GotoEffect DEF Sliced
<1>2. reqs[r] \in Requests
  BY DEF Sliced
<1>3. \A q \in Reqs : reqs'[q].slice = reqs[q].slice
  BY <1>1, <1>2 DEF Requests
<1>4. reqs'[r].pc = pc /\ reqs[r].slice \in Slices
  BY <1>1, <1>2 DEF Requests
<1>5. \A q \in Reqs : /\ reqs'[q].pc \in Unwritten => reqs[q].pc \in Unwritten
                      /\ reqs'[q].pc \in {"running", "put"} => reqs[q].pc \in {"running", "put"}
  BY <1>1, <1>4
<1>6. NoSlice.len <= Len(In(arrays, NoSlice))
  BY NoSliceType, EmptySeq DEF In
<1>7. reqs[r].slice.len <= Len(In(arrays, reqs[r].slice))
  BY DEF Sliced
<1>10. SameSlices
  BY <1>3, <1>5 DEF SameSlices
<1>8. CASE stored' = stored \/ stored' = [exists |-> FALSE, slice |-> NoSlice]
  BY <1>1, <1>6, <1>8, <1>10, NoSliceType, KeptSliced
<1>9. CASE storage # "postgres" /\ stored' = [exists |-> TRUE, slice |-> reqs[r].slice]
  BY <1>1, <1>4, <1>7, <1>9, <1>10, KeptSliced
<1>. QED BY <1>8, <1>9

LEMMA FaultType == faults \in 0..MaxFaults /\ Fault => faults' \in 0..MaxFaults
BY BoundsAssumption DEF Fault

LEMMA StartTyped ==
  ASSUME Typed, NEW r \in Reqs, StartNew(r) \/ Start(r)
  PROVE  Typed'
<1>1. Sliced /\ Others
  BY DEF Typed
<1>2. PICK kind \in Kinds, pc \in {"append", "object", "drop", "find"} : Begins(r, kind, pc, NoSlice)
  BY DEF StartNew, Start, Following, Kinds
<1>3. reqs[r].pc = "no"
  BY DEF StartNew, Start, IsNext
<1>4. /\ reqs' \in [Reqs -> Requests] /\ reqs'[r].pc = pc /\ reqs'[r].slice = NoSlice
      /\ \A q \in Reqs : q # r => reqs'[q].pc = reqs[q].pc /\ reqs'[q].slice = reqs[q].slice
  BY <1>1, <1>2, BeginsEffect, NoSliceType DEF Sliced, Pcs
<1>5. UNCHANGED <<storage, arrays, kb, objects, faults>>
  BY DEF StartNew, Start
<1>6. In(arrays, NoSlice) = <<>> /\ Len(<<>>) = 0
  BY NoSliceType, EmptySeq DEF In
<1>7. SameSlices
  BY <1>3, <1>4 DEF SameSlices, Unwritten
<1>8. (stored' = stored /\ rows' = rows) \/ Put(NoSlice)
  BY DEF StartNew, Start
<1>9. ToSet(Content(NoSlice)) = {}
  <2>1. Content(NoSlice) \in Seq(Messages) /\ Len(Content(NoSlice)) = 0
    BY <1>1, <1>6, NoSliceType, ContentType DEF Sliced
  <2>. QED BY <2>1, LenProperties DEF ToSet
<1>10. /\ stored' = stored \/ stored' = [exists |-> TRUE, slice |-> NoSlice]
       /\ rows' = rows \/ rows' = [exists |-> TRUE, messages |-> rows.messages]
  BY <1>8, <1>9 DEF Put
<1>11. Sliced'
  <2>1. NoSlice.len <= Len(In(arrays, NoSlice))
    BY <1>6, NoSliceType
  <2>. QED BY <1>1, <1>4, <1>5, <1>7, <1>10, <2>1, NoSliceType, KeptSliced
<1>12. Others'
  <2>1. rows' \in [exists : BOOLEAN, messages : SUBSET Messages] /\ rows'.messages = rows.messages
    <3>1. CASE rows' = rows
      BY <1>1, <3>1 DEF Others
    <3>2. CASE rows' = [exists |-> TRUE, messages |-> rows.messages]
      BY <1>1, <3>2 DEF Others
    <3>. QED BY <1>10, <3>1, <3>2
  <2>. QED BY <1>1, <1>5, <2>1 DEF Others
<1>. QED BY <1>11, <1>12 DEF Typed

\* SetToSeq takes each of the messages once.
LEMMA RowsInOrder ==
  ASSUME NEW S \in SUBSET Messages, IsFiniteSet(S)
  PROVE  LET h == SetToSeq(S) IN
         /\ h \in Seq(Messages) /\ Len(h) \in Nat
         /\ \A i \in 1..Len(h) : h[i] \in S
         /\ \A i, j \in 1..Len(h) : h[i] = h[j] => i = j
<1>. DEFINE n == Cardinality(S)
            h == SetToSeq(S)
<1>1. n \in Nat /\ ExistsBijection(1..n, S)
  BY FS_CardinalityType
<1>2. \E f \in [1..n -> S] : IsInjective(f)
  BY <1>1 DEF ExistsBijection, Bijection, Injection, IsInjective
<1>3. h \in [1..n -> S] /\ IsInjective(h)
  BY <1>2 DEF SetToSeq
<1>. HIDE DEF n, h
<1>4. h \in Seq(Messages) /\ Len(h) = n
  BY <1>1, <1>3
<1>. QED BY <1>1, <1>3, <1>4 DEF IsInjective, h

\* What the application is told, and where the request goes on.
LEMMA FindEffect ==
  ASSUME Typed, NEW r \in Reqs, NEW pc \in Pcs, Find(r, pc)
  PROVE  LET h == SetToSeq(rows.messages)
             memory == storage = "memory" IN
         /\ arrays' = IF memory THEN arrays ELSE [arrays EXCEPT ![r] = h]
         /\ h \in Seq(Messages) /\ Len(h) \in Nat
         /\ reqs' \in [Reqs -> Requests]
         /\ reqs'[r].pc = pc /\ reqs'[r].kind = reqs[r].kind /\ (reqs'[r].alone <=> reqs[r].alone)
         /\ reqs'[r].slice = IF memory THEN stored.slice ELSE [array |-> r, len |-> Len(h)]
         /\ reqs'[r].history = IF memory THEN Content(stored.slice) ELSE h
         /\ \A q \in Reqs : q # r => reqs'[q] = reqs[q]
<1>. DEFINE h == SetToSeq(rows.messages)
            t == IF storage = "memory" THEN stored.slice ELSE [array |-> r, len |-> Len(h)]
            told == IF storage = "memory" THEN Content(stored.slice) ELSE h
            a == [reqs EXCEPT ![r].pc = pc]
            b == [a EXCEPT ![r].slice = t]
<1>1. Sliced /\ Others
  BY DEF Typed
<1>2. /\ arrays' = IF storage = "memory" THEN arrays ELSE [arrays EXCEPT ![r] = h]
      /\ reqs' = [b EXCEPT ![r].history = told]
  BY DEF Find
<1>3. h \in Seq(Messages) /\ Len(h) \in Nat
  BY <1>1, RowsInOrder DEF Others
<1>4. t \in Slices /\ told \in Seq(Messages)
  BY <1>1, <1>3, ContentType DEF Sliced, Slices, Reqs, Array, In
<1>. HIDE DEF h, t, told
<1>5. /\ a \in [Reqs -> Requests] /\ a[r].pc = pc /\ a[r].kind = reqs[r].kind
      /\ (a[r].alone <=> reqs[r].alone)
      /\ \A q \in Reqs : q # r => a[q] = reqs[q]
  BY <1>1 DEF Sliced, Requests
<1>. HIDE DEF a
<1>6. /\ b \in [Reqs -> Requests] /\ b[r].pc = pc /\ b[r].kind = reqs[r].kind
      /\ (b[r].alone <=> reqs[r].alone) /\ b[r].slice = t
      /\ \A q \in Reqs : q # r => b[q] = reqs[q]
  BY <1>4, <1>5 DEF Requests
<1>. HIDE DEF b
<1>7. /\ reqs' \in [Reqs -> Requests] /\ reqs'[r].pc = pc /\ reqs'[r].kind = reqs[r].kind
      /\ (reqs'[r].alone <=> reqs[r].alone) /\ reqs'[r].slice = t /\ reqs'[r].history = told
      /\ \A q \in Reqs : q # r => reqs'[q] = reqs[q]
  BY <1>2, <1>4, <1>6 DEF Requests
<1>. QED BY <1>2, <1>3, <1>7 DEF h, t, told

LEMMA FindTyped ==
  ASSUME Typed, NEW r \in Reqs, FindConversation(r)
  PROVE  Typed'
<1>1. Sliced /\ Others /\ reqs[r].pc = "find"
  BY DEF Typed, FindConversation
<1>2. UNCHANGED <<storage, stored, rows, kb, objects, faults>>
  BY DEF FindConversation
<1>3. Others'
  BY <1>1, <1>2 DEF Others
<1>4. CASE Goto(r, "failed") /\ UNCHANGED arrays
  <2>1. Sliced'
    BY <1>1, <1>2, <1>4, GotoSliced DEF Unwritten, Pcs
  <2>. QED BY <1>3, <2>1 DEF Typed
<1>5. CASE Find(r, Following(reqs[r].kind))
  <2>. DEFINE h == SetToSeq(rows.messages)
              pc == Following(reqs[r].kind)
              t == IF storage = "memory" THEN stored.slice ELSE [array |-> r, len |-> Len(h)]
  <2>1. arrays' = IF storage = "memory" THEN arrays ELSE [arrays EXCEPT ![r] = h]
    BY <1>5 DEF Find
  <2>4. pc \in {"append", "object"}
    BY DEF Following
  <2>2. /\ h \in Seq(Messages) /\ Len(h) \in Nat
        /\ reqs' \in [Reqs -> Requests] /\ reqs'[r].slice = t /\ reqs'[r].pc = pc
        /\ \A q \in Reqs : q # r => reqs'[q] = reqs[q]
    BY <1>5, <2>4, FindEffect DEF Pcs
  <2>. HIDE DEF h, pc, t
  <2>5. /\ reqs' \in [Reqs -> Requests] /\ reqs'[r].slice = t /\ reqs'[r].pc = pc
        /\ \A q \in Reqs : q # r => reqs'[q] = reqs[q]
    BY <2>2
  <2>6. arrays' \in [Reqs -> Seq(Messages)]
    BY <1>1, <2>1, <2>2 DEF Sliced
  <2>7. Written'
    BY <1>1, <2>4, <2>5 DEF Sliced, Written
  <2>8. CASE storage = "memory"
    <3>1. t = stored.slice /\ arrays' = arrays
      BY <2>1, <2>8 DEF t
    <3>2. \A q \in Reqs : reqs'[q].slice.len <= Len(In(arrays, reqs'[q].slice))
      BY <1>1, <2>5, <3>1 DEF Sliced
    <3>3. Owned'
      BY <1>1, <1>2, <2>5, <2>8, <3>1 DEF Sliced, Owned, Unwritten
    <3>. QED BY <1>1, <1>2, <1>3, <2>5, <2>7, <3>1, <3>2, <3>3 DEF Typed, Sliced
  <2>9. CASE storage = "postgres"
    <3>1. t = [array |-> r, len |-> Len(h)] /\ arrays' = [arrays EXCEPT ![r] = h]
      BY <2>1, <2>9 DEF t
    <3>2. \A q \in Reqs : q # r => In(arrays', reqs'[q].slice) = In(arrays, reqs[q].slice)
      BY <1>1, <2>5, <2>9, <3>1 DEF Sliced, Owned, In
    <3>3. In(arrays', t) = h
      BY <1>1, <3>1, BoundsAssumption DEF In, Sliced, Reqs
    <3>4. ASSUME NEW q \in Reqs
          PROVE  reqs'[q].slice.len <= Len(In(arrays', reqs'[q].slice)) /\ reqs'[q].slice.array \in {0, q}
      <4>1. CASE q = r
        BY <2>2, <2>5, <3>1, <3>3, <4>1
      <4>2. CASE q # r
        BY <1>1, <2>5, <2>9, <3>2, <4>2 DEF Sliced, Owned
      <4>. QED BY <4>1, <4>2
    <3>5. In(arrays', stored'.slice) = In(arrays, stored.slice)
      BY <1>1, <1>2, <2>9, NoSliceType DEF In, Sliced, Owned
    <3>6. Owned'
      BY <1>1, <1>2, <2>9, <3>4 DEF Sliced, Owned
    <3>. QED BY <1>1, <1>2, <1>3, <2>5, <2>6, <2>7, <3>4, <3>5, <3>6 DEF Typed, Sliced
  <2>. QED BY <1>1, <2>8, <2>9 DEF Others
<1>. QED BY <1>4, <1>5 DEF FindConversation

\* As long as a request has appended nothing, nobody else has anything in its array.
LEMMA Unshared ==
  ASSUME Typed, NEW r \in Reqs, reqs[r].pc \in Unwritten
  PROVE  /\ stored.slice.array = r => stored.slice.len = 0
         /\ \A q \in Reqs : q # r /\ reqs[q].slice.array = r => reqs[q].slice.len = 0
<1>1. Sliced /\ Others
  BY DEF Typed
<1>2. /\ stored.slice \in Slices /\ stored.slice.len \in Nat
      /\ \A q \in Reqs : reqs[q].slice \in Slices /\ reqs[q].slice.len \in Nat
  BY <1>1 DEF Sliced, Requests, Slices
<1>3. CASE storage = "memory"
  <2>1. \A u \in Slices : u.array = r => In(arrays, u) = <<>>
    BY <1>1, <1>3, BoundsAssumption DEF Sliced, Owned, In, Reqs
  <2>2. Len(<<>>) = 0
    BY EmptySeq
  <2>. QED BY <1>1, <1>2, <2>1, <2>2 DEF Sliced
<1>4. CASE storage = "postgres"
  <2>1. stored.slice.len = 0
    BY <1>1, <1>4, NoSliceType DEF Sliced, Owned
  <2>2. ASSUME NEW q \in Reqs, q # r
        PROVE  reqs[q].slice.array # r
    <3>1. reqs[q].slice.array \in {0, q} /\ r # 0
      BY <1>1, <1>4, BoundsAssumption DEF Sliced, Owned, Reqs
    <3>. QED BY <2>2, <3>1
  <2>. QED BY <2>1, <2>2
<1>. QED BY <1>1, <1>3, <1>4 DEF Others

LEMMA AppendTyped ==
  ASSUME Typed, NEW r \in Reqs, reqs[r].pc \in Unwritten, NEW m \in Messages, Appended(r, m),
         UNCHANGED <<storage, stored, rows, kb, objects, faults>>
  PROVE  Typed'
<1>1. Sliced /\ Others
  BY DEF Typed
<1>. DEFINE s == reqs[r].slice
            t == reqs'[r].slice
<1>2. /\ arrays' \in [Reqs -> Seq(Messages)] /\ reqs' \in [Reqs -> Requests]
      /\ reqs'[r] = [reqs[r] EXCEPT !.slice = t, !.pc = IF m.answer = 0 THEN "running" ELSE "put"]
      /\ \A q \in Reqs : q # r => reqs'[q] = reqs[q]
      /\ t \in Slices /\ t.len = s.len + 1 /\ t.array \in Reqs \cap {s.array, r}
      /\ t.len <= Len(In(arrays', t))
      /\ t.array # r => t.len <= Len(In(arrays, s))
      /\ \A q \in Reqs : q # t.array => arrays'[q] = arrays[q]
  BY AppendedEffect
<1>3. \A u \in Slices : u.len <= Len(In(arrays, u)) /\ (u.array = r => u.len = 0) => u.len <= Len(In(arrays', u))
  BY AppendedEffect
<1>4. /\ stored.slice \in Slices /\ reqs[r] \in Requests /\ s.len \in Nat /\ s.array \in 0..NReqs
      /\ \A q \in Reqs : reqs[q].slice \in Slices
  BY <1>1 DEF Sliced, Requests, Slices
<1>. HIDE DEF s, t
<1>5. reqs'[r].pc \in {"running", "put"} /\ reqs'[r].slice = t
  BY <1>2, <1>4 DEF Requests, t
<1>6. stored.slice.len <= Len(In(arrays', stored.slice))
  BY <1>1, <1>3, <1>4, Unshared DEF Sliced
<1>7. ASSUME NEW q \in Reqs
      PROVE  reqs'[q].slice.len <= Len(In(arrays', reqs'[q].slice))
  <2>1. CASE q = r
    BY <1>2, <1>5, <2>1
  <2>2. CASE q # r
    BY <1>1, <1>2, <1>3, <1>4, <2>2, Unshared DEF Sliced
  <2>. QED BY <2>1, <2>2
<1>8. Owned'
  <2>1. storage = "postgres" => \A q \in Reqs : reqs'[q].slice.array \in {0, q}
    BY <1>1, <1>2, <1>5 DEF Sliced, Owned, s
  <2>2. ASSUME storage = "memory", NEW q \in Reqs, reqs'[q].pc \in Unwritten
        PROVE  arrays'[q] = <<>>
    <3>1. q # r
      BY <1>5, <2>2 DEF Unwritten
    <3>2. arrays[q] = <<>> /\ reqs[q].pc \in Unwritten
      BY <1>1, <1>2, <2>2, <3>1 DEF Sliced, Owned
    <3>3. q # t.array
      <4>1. q # 0 /\ (q = s.array => In(arrays, s) = <<>>)
        BY <3>2, BoundsAssumption DEF In, Reqs
      <4>2. Len(<<>>) = 0
        BY EmptySeq
      <4>. QED BY <1>2, <1>4, <3>1, <4>1, <4>2
    <3>. QED BY <1>2, <3>2, <3>3
  <2>. QED BY <1>1, <2>1, <2>2 DEF Sliced, Owned
<1>9. Written'
  <2>1. t.array # 0 /\ t.len > 0
    BY <1>2, <1>4, BoundsAssumption DEF Reqs
  <2>. QED BY <1>1, <1>2, <1>5, <2>1 DEF Sliced, Written
<1>. QED BY <1>1, <1>2, <1>6, <1>7, <1>8, <1>9 DEF Typed, Sliced, Others

\* Nothing that a slice holds is written over, but at this place of this array.
Untouched(a, n) ==
  \A u \in Slices : u.len <= Len(In(arrays, u)) =>
    /\ u.len <= Len(In(arrays', u))
    /\ \A i \in 1..u.len : u.array # a \/ i # n => In(arrays', u)[i] = In(arrays, u)[i]

\* The answer goes where the question is, and nowhere else.
LEMMA AnsweredEffect ==
  ASSUME Typed, NEW r \in Reqs, reqs[r].pc = "running", NEW s \in Slices, s = reqs[r].slice,
         arrays' = [arrays EXCEPT ![s.array][s.len].answer = r]
  PROVE  /\ s.array \in Reqs /\ s.len \in 1..Len(In(arrays, s)) /\ In(arrays, s)[s.len] \in Messages
         /\ arrays' \in [Reqs -> Seq(Messages)]
         /\ In(arrays', s)[s.len] = [by |-> In(arrays, s)[s.len].by, answer |-> r]
         /\ Untouched(s.array, s.len)
         /\ \A q \in Reqs : arrays[q] = <<>> => arrays'[q] = <<>>
<1>1. Sliced
  BY DEF Typed
<1>. DEFINE a == s.array
            n == s.len
            old == arrays[a]
            m == [by |-> old[n].by, answer |-> r]
            new == [old EXCEPT ![n] = m]
<1>2. a \in Reqs /\ n \in Nat \ {0} /\ n <= Len(In(arrays, s)) /\ In(arrays, s) = old
  BY <1>1, BoundsAssumption DEF Sliced, Written, Slices, Reqs, In
<1>3. old \in Seq(Messages) /\ Len(old) \in Nat /\ n \in 1..Len(old) /\ old[n] \in Messages
  <2>1. old \in Seq(Messages)
    BY <1>1, <1>2 DEF Sliced
  <2>2. Len(old) \in Nat
    BY <2>1, LenProperties
  <2>. QED BY <1>2, <2>1, <2>2
<1>. HIDE DEF old, n
<1>4. m \in Messages /\ m = [old[n] EXCEPT !.answer = r] /\ m.by = old[n].by
  BY <1>3, BoundsAssumption DEF Messages, Reqs
<1>. HIDE DEF m
<1>6. /\ new \in Seq(Messages) /\ Len(new) = Len(old) /\ new[n] = m
      /\ \A i \in 1..Len(old) : i # n => new[i] = old[i]
  BY <1>3, <1>4, ExceptSeq
<1>5. arrays' = [arrays EXCEPT ![a] = new]
  BY <1>1, <1>2, <1>4 DEF Sliced, old, n
<1>7. s.array = a /\ s.len = n
  BY DEF n
<1>. HIDE DEF a, new
<1>8. arrays' \in [Reqs -> Seq(Messages)] /\ arrays'[a] = new /\ \A q \in Reqs : q # a => arrays'[q] = arrays[q]
  <2>1. arrays \in [Reqs -> Seq(Messages)]
    BY <1>1 DEF Sliced
  <2>. QED BY <1>2, <1>5, <1>6, <2>1
<1>9. In(arrays', s) = new
  BY <1>2, <1>7, <1>8, BoundsAssumption DEF In, Reqs
<1>10. ASSUME NEW u \in Slices, u.len <= Len(In(arrays, u))
       PROVE  /\ u.len <= Len(In(arrays', u))
              /\ \A i \in 1..u.len : u.array # a \/ i # n => In(arrays', u)[i] = In(arrays, u)[i]
  <2>1. u.array \in 0..NReqs /\ u.len \in Nat
    BY DEF Slices
  <2>2. CASE u.array # a
    <3>0. u.array # 0 => u.array \in Reqs
      BY <2>1, BoundsAssumption DEF Reqs
    <3>1. u.array # 0 => arrays'[u.array] = arrays[u.array]
      BY <1>8, <2>2, <3>0
    <3>2. In(arrays', u) = In(arrays, u)
      BY <3>1 DEF In
    <3>. QED BY <1>10, <3>2
  <2>3. CASE u.array = a
    <3>1. In(arrays', u) = new /\ In(arrays, u) = old
      BY <1>2, <1>7, <1>8, <2>3, BoundsAssumption DEF In, Reqs, old
    <3>2. u.len <= Len(old)
      BY <1>10, <3>1
    <3>3. u.len <= Len(new) /\ \A i \in 1..u.len : i # n => new[i] = old[i]
      BY <1>3, <1>6, <2>1, <3>2
    <3>. QED BY <2>3, <3>1, <3>3
  <2>. QED BY <2>2, <2>3
<1>11. ASSUME NEW q \in Reqs, arrays[q] = <<>>
       PROVE  arrays'[q] = <<>>
  <2>1. old # <<>>
    BY <1>3, EmptySeq
  <2>2. q # a
    BY <1>11, <2>1 DEF old
  <2>. QED BY <1>8, <1>11, <2>2
<1>12. In(arrays', s)[s.len] = [by |-> In(arrays, s)[s.len].by, answer |-> r]
  BY <1>2, <1>6, <1>7, <1>9 DEF m
<1>13. Untouched(a, n)
  BY <1>10 DEF Untouched
<1>. QED BY <1>2, <1>3, <1>7, <1>8, <1>11, <1>12, <1>13

LEMMA RunTyped ==
  ASSUME Typed, NEW r \in Reqs, RunApplication(r)
  PROVE  Typed'
<1>1. Sliced /\ Others /\ reqs[r].pc = "running" /\ reqs[r].slice \in Slices
  BY DEF Typed, RunApplication, Sliced, Requests
<1>2. UNCHANGED <<storage, stored, rows, kb, objects>>
  BY DEF RunApplication
<1>3. Others'
  BY <1>1, <1>2, FaultType DEF Others, RunApplication
<1>4. CASE Goto(r, "failed") /\ UNCHANGED arrays
  BY <1>1, <1>2, <1>3, <1>4, GotoSliced DEF Typed, Unwritten, Pcs
<1>5. CASE /\ arrays' = [arrays EXCEPT ![reqs[r].slice.array][reqs[r].slice.len].answer = r]
           /\ Goto(r, "put")
  <2>1. /\ arrays' \in [Reqs -> Seq(Messages)]
        /\ Untouched(reqs[r].slice.array, reqs[r].slice.len)
        /\ \A q \in Reqs : arrays[q] = <<>> => arrays'[q] = <<>>
    BY <1>1, <1>5, AnsweredEffect
  <2>2. /\ reqs' \in [Reqs -> Requests] /\ reqs'[r] = [reqs[r] EXCEPT !.pc = "put"]
        /\ \A q \in Reqs : q # r => reqs'[q] = reqs[q]
    BY <1>1, <1>5, GotoEffect DEF Sliced, Pcs
  <2>3. reqs'[r].pc = "put" /\ \A q \in Reqs : reqs'[q].slice = reqs[q].slice /\ reqs[q].slice \in Slices
    <3>1. \A q \in Reqs : reqs[q] \in Requests
      BY <1>1 DEF Sliced
    <3>. QED BY <2>2, <3>1 DEF Requests
  <2>4. /\ stored.slice \in Slices /\ stored.slice.len <= Len(In(arrays', stored.slice))
        /\ \A q \in Reqs : reqs'[q].slice.len <= Len(In(arrays', reqs'[q].slice))
    BY <1>1, <2>1, <2>3 DEF Sliced, Untouched
  <2>5. Owned'
    BY <1>1, <1>2, <2>1, <2>2, <2>3 DEF Sliced, Owned, Unwritten
  <2>6. Written'
    BY <1>1, <2>2, <2>3 DEF Sliced, Written
  <2>. QED BY <1>1, <1>2, <1>3, <2>1, <2>2, <2>4, <2>5, <2>6 DEF Typed, Sliced
<1>. QED BY <1>4, <1>5 DEF RunApplication

\* The messages of a slice, as the rows of a table.
LEMMA ContentRows ==
  ASSUME arrays \in [Reqs -> Seq(Messages)], NEW s \in Slices, s.len <= Len(In(arrays, s))
  PROVE  /\ ToSet(Content(s)) \subseteq Messages /\ IsFiniteSet(ToSet(Content(s)))
         /\ ToSet(Content(s)) = {In(arrays, s)[i] : i \in 1..s.len}
<1>. DEFINE c == Content(s)
<1>1. c \in Seq(Messages) /\ Len(c) = s.len /\ \A i \in 1..s.len : c[i] = In(arrays, s)[i]
  BY ContentType
<1>. HIDE DEF c
<1>2. c \in [1..s.len -> Messages] /\ DOMAIN c = 1..s.len
  BY <1>1, LenProperties
<1>3. IsFiniteSet(1..s.len)
  BY FS_Interval DEF Slices
<1>4. ToSet(c) = {c[i] : i \in 1..s.len}
  BY <1>2 DEF ToSet
<1>5. IsFiniteSet({c[i] : i \in 1..s.len})
  <2>. DEFINE T == {c[i] : i \in 1..s.len}
  <2>1. c \in Surjection(1..s.len, T)
    BY <1>2 DEF Surjection
  <2>. QED BY <1>3, <2>1, FS_Surjection
<1>. QED BY <1>1, <1>2, <1>4, <1>5 DEF c

\* What is stored after a Put, and what is not.
LEMMA PutEffect ==
  ASSUME Typed, NEW s \in Slices, s.len <= Len(In(arrays, s)), Put(s)
  PROVE  /\ storage = "memory" => stored' = [exists |-> TRUE, slice |-> s] /\ rows' = rows
         /\ storage # "memory" => /\ stored' = stored /\ rows'.exists = TRUE
                                  /\ rows'.messages = rows.messages \cup
                                       {m \in ToSet(Content(s)) : \A n \in rows.messages : n.by # m.by}
         /\ rows' \in [exists : BOOLEAN, messages : SUBSET Messages] /\ IsFiniteSet(rows'.messages)
<1>. DEFINE new == {m \in ToSet(Content(s)) : \A n \in rows.messages : n.by # m.by}
<1>1. /\ rows \in [exists : BOOLEAN, messages : SUBSET Messages] /\ IsFiniteSet(rows.messages)
      /\ arrays \in [Reqs -> Seq(Messages)]
  BY DEF Typed, Sliced, Others
<1>2. ToSet(Content(s)) \subseteq Messages /\ IsFiniteSet(ToSet(Content(s)))
  BY <1>1, ContentRows
<1>3. new \subseteq Messages /\ IsFiniteSet(new)
  BY <1>2, FS_Subset
<1>4. CASE storage = "memory"
  BY <1>1, <1>4 DEF Put
<1>5. CASE storage # "memory"
  <2>1. stored' = stored /\ rows' = [exists |-> TRUE, messages |-> rows.messages \cup new]
    BY <1>5 DEF Put
  <2>. HIDE DEF new
  <2>2. rows.messages \cup new \in SUBSET Messages /\ IsFiniteSet(rows.messages \cup new)
    BY <1>1, <1>3, FS_Union
  <2>3. rows'.exists = TRUE /\ rows'.messages = rows.messages \cup new
    BY <2>1
  <2>4. rows' \in [exists : BOOLEAN, messages : SUBSET Messages] /\ IsFiniteSet(rows'.messages)
    BY <2>1, <2>2
  <2>. QED BY <1>5, <2>1, <2>3, <2>4 DEF new
<1>. QED BY <1>4, <1>5

LEMMA DropEffect ==
  ASSUME Typed, Drop
  PROVE  /\ storage = "memory" => stored' = [exists |-> FALSE, slice |-> NoSlice] /\ rows' = rows
         /\ storage # "memory" => stored' = stored /\ rows'.exists = FALSE /\ rows'.messages = rows.messages
         /\ rows' \in [exists : BOOLEAN, messages : SUBSET Messages] /\ IsFiniteSet(rows'.messages)
<1>1. rows \in [exists : BOOLEAN, messages : SUBSET Messages] /\ IsFiniteSet(rows.messages)
  BY DEF Typed, Others
<1>2. CASE storage = "memory"
  BY <1>1, <1>2 DEF Drop
<1>3. CASE storage # "memory"
  <2>1. stored' = stored /\ rows' = [rows EXCEPT !.exists = FALSE]
    BY <1>3 DEF Drop
  <2>. QED BY <1>1, <1>3, <2>1
<1>. QED BY <1>2, <1>3

LEMMA UpdateTyped ==
  ASSUME Typed, NEW r \in Reqs, UpdateConversation(r)
  PROVE  Typed'
<1>1. /\ Sliced /\ Others /\ reqs[r].pc = "put"
      /\ reqs[r].slice \in Slices /\ reqs[r].slice.len <= Len(In(arrays, reqs[r].slice))
  BY DEF Typed, UpdateConversation, Sliced, Requests
<1>2. UNCHANGED <<storage, arrays, kb, objects>> /\ faults' \in 0..MaxFaults
  BY <1>1, FaultType DEF UpdateConversation, Others
<1>3. CASE Goto(r, "failed") /\ UNCHANGED <<stored, rows>>
  <2>1. Sliced'
    BY <1>1, <1>2, <1>3, GotoSliced DEF Unwritten, Pcs
  <2>. QED BY <1>1, <1>2, <1>3, <2>1 DEF Typed, Others
<1>4. CASE Put(reqs[r].slice) /\ Goto(r, "done")
  <2>1. /\ storage = "memory" => stored' = [exists |-> TRUE, slice |-> reqs[r].slice]
        /\ storage # "memory" => stored' = stored
        /\ rows' \in [exists : BOOLEAN, messages : SUBSET Messages] /\ IsFiniteSet(rows'.messages)
    BY <1>1, <1>4, PutEffect
  <2>2. Sliced'
    BY <1>1, <1>2, <1>4, <2>1, GotoSliced DEF Unwritten, Pcs
  <2>3. Others'
    BY <1>1, <1>2, <2>1 DEF Others
  <2>. QED BY <2>2, <2>3 DEF Typed
<1>. QED BY <1>3, <1>4 DEF UpdateConversation

LEMMA DropTyped ==
  ASSUME Typed, NEW r \in Reqs, DropConversation(r)
  PROVE  Typed'
<1>1. Sliced /\ Others /\ reqs[r].pc = "drop"
  BY DEF Typed, DropConversation
<1>2. UNCHANGED <<storage, arrays, kb, objects>> /\ faults' \in 0..MaxFaults
  BY <1>1, FaultType DEF DropConversation, Others
<1>3. PICK pc \in {"unkb", "failed"} : Goto(r, pc)
  BY DEF DropConversation
<1>4. /\ stored' = stored \/ stored' = [exists |-> FALSE, slice |-> NoSlice]
      /\ rows' \in [exists : BOOLEAN, messages : SUBSET Messages] /\ IsFiniteSet(rows'.messages)
  <2>1. CASE Drop
    BY <1>1, <2>1, DropEffect DEF Others
  <2>2. CASE UNCHANGED <<stored, rows>>
    BY <1>1, <2>2 DEF Others
  <2>. QED BY <2>1, <2>2 DEF DropConversation
<1>5. Sliced'
  BY <1>1, <1>2, <1>3, <1>4, GotoSliced DEF Unwritten, Pcs
<1>6. Others'
  BY <1>1, <1>2, <1>4 DEF Others
<1>. QED BY <1>5, <1>6 DEF Typed

\* The steps that touch the files only.
LEMMA FilesTyped ==
  ASSUME Typed, NEW r \in Reqs,
         PutObject(r) \/ BuildConversationKnowledgeBase(r) \/ DeleteKnowledgeBase(r)
  PROVE  Typed'
<1>1. Sliced /\ Others /\ reqs[r].pc \in {"object", "kb", "unkb"}
  BY DEF Typed, PutObject, BuildConversationKnowledgeBase, DeleteKnowledgeBase
<1>2. UNCHANGED <<storage, arrays, stored, rows>> /\ faults' \in 0..MaxFaults
  BY <1>1, FaultType DEF PutObject, BuildConversationKnowledgeBase, DeleteKnowledgeBase, Others
<1>3. PICK pc \in {"kb", "file", "done", "failed"} : Goto(r, pc)
  BY DEF PutObject, BuildConversationKnowledgeBase, DeleteKnowledgeBase
<1>4. kb' \in [exists : BOOLEAN, files : SUBSET Reqs] /\ objects' \subseteq Reqs
  <2>1. kb' = kb \/ kb' = [exists |-> TRUE, files |-> kb.files \cup {r}] \/ kb' = [exists |-> FALSE, files |-> {}]
    BY DEF PutObject, BuildConversationKnowledgeBase, DeleteKnowledgeBase
  <2>2. objects' = objects \/ objects' = objects \cup {r}
    BY DEF PutObject, BuildConversationKnowledgeBase, DeleteKnowledgeBase
  <2>3. kb.files \subseteq Reqs
    BY <1>1 DEF Others
  <2>4. kb' \in [exists : BOOLEAN, files : SUBSET Reqs]
    <3>1. CASE kb' = kb
      BY <1>1, <3>1 DEF Others
    <3>2. CASE kb' = [exists |-> TRUE, files |-> kb.files \cup {r}] \/ kb' = [exists |-> FALSE, files |-> {}]
      <4>1. kb.files \cup {r} \in SUBSET Reqs /\ {} \in SUBSET Reqs
        BY <2>3
      <4>2. \A S \in SUBSET Reqs, b \in BOOLEAN : [exists |-> b, files |-> S] \in [exists : BOOLEAN, files : SUBSET Reqs]
        OBVIOUS
      <4>. QED BY <3>2, <4>1, <4>2
    <3>. QED BY <2>1, <3>1, <3>2
  <2>. QED BY <1>1, <2>2, <2>4 DEF Others
<1>5. Sliced'
  BY <1>1, <1>2, <1>3, GotoSliced DEF Unwritten, Pcs
<1>6. Others'
  BY <1>1, <1>2, <1>4 DEF Others
<1>. QED BY <1>5, <1>6 DEF Typed

LEMMA NextTyped == Typed /\ [Next]_vars => Typed'
<1>. SUFFICES ASSUME Typed, [Next]_vars
              PROVE  Typed'
  OBVIOUS
<1>1. CASE UNCHANGED vars
  BY <1>1 DEF vars, Typed, Sliced, Others, Owned, Written
<1>2. ASSUME NEW r \in Reqs, Request(r)
      PROVE  Typed'
  <2>1. CASE AppendQuestion(r)
    BY <2>1, AppendTyped, MessageType DEF AppendQuestion, Unwritten
  <2>2. CASE AppendFile(r)
    BY <2>2, AppendTyped, MessageType DEF AppendFile, Unwritten
  <2>. QED BY <1>2, <2>1, <2>2, StartTyped, FindTyped, RunTyped, UpdateTyped, DropTyped, FilesTyped
           DEF Request
<1>. QED BY <1>1, <1>2 DEF Next

\* Every state has the shape that the code gives it: a slice does not reach
\* behind its array, whoever shares it.
THEOREM TypeCorrect == Spec => []TypeOK
<1>1. Spec => []Typed
  BY InitTyped, NextTyped, PTL DEF Spec
<1>. QED BY <1>1, TypedMeans, PTL

-----------------------------------------------------------------------------
(* A deleted conversation stays away *)

\* The requests begin one after the other, the first is not a deletion, and
\* who is alone and under way is the only one.
OneByOne ==
  /\ \A r \in Reqs : reqs[r].pc # "no" => \A q \in 1..(r - 1) : reqs[q].pc # "no"
  /\ \A r \in Reqs : reqs[r].pc = "no" => reqs[r].kind = "chat"
  /\ \A r \in Reqs : reqs[r].kind = "delete" => r # 1 /\ reqs[r].pc \in {"drop", "unkb", "done", "failed"}
  /\ \A r \in Reqs : reqs[r].pc \in {"drop", "unkb"} => reqs[r].kind = "delete"
  /\ \A r, q \in Reqs : reqs[r].alone /\ Active(r) /\ q # r => ~Active(q)

\* After a deletion that was alone there is nothing that a request can go on with.
Away ==
  \A r \in Reqs : reqs[r].kind = "delete" /\ reqs[r].alone =>
    /\ reqs[r].pc = "unkb" => ~Exists
    /\ reqs[r].pc = "done" => /\ ~Exists /\ ~kb.exists
                              /\ \A q \in Reqs : Active(q) => reqs[q].pc \in {"find", "drop", "unkb"}

\* A request that is under way goes on.
Acts(r) ==
  /\ Active(r) /\ reqs'[r].pc \notin {"no", "find", "drop"}
  /\ reqs'[r].kind = reqs[r].kind /\ (reqs'[r].alone <=> reqs[r].alone)
  /\ \A q \in Reqs : q # r => reqs'[q] = reqs[q]
  /\ reqs[r].pc = "find" /\ ~Exists => reqs'[r].pc = "failed"
  /\ IF reqs[r].pc = "drop" THEN reqs'[r].pc = "failed" \/ (reqs'[r].pc = "unkb" /\ ~Exists')
     ELSE reqs'[r].pc # "unkb"
  /\ reqs[r].pc = "unkb" => reqs'[r].pc = "failed" \/ (reqs'[r].pc = "done" /\ ~kb'.exists)
  /\ Exists' => Exists \/ reqs[r].pc = "put"
  /\ kb'.exists => kb.exists \/ reqs[r].pc = "kb"

LEMMA GotoActs ==
  ASSUME Typed, NEW r \in Reqs, NEW pc \in Pcs, Goto(r, pc)
  PROVE  /\ reqs'[r].pc = pc /\ reqs'[r].slice = reqs[r].slice /\ reqs'[r].history = reqs[r].history
         /\ reqs'[r].kind = reqs[r].kind /\ (reqs'[r].alone <=> reqs[r].alone)
         /\ \A q \in Reqs : q # r => reqs'[q] = reqs[q]
<1>1. reqs \in [Reqs -> Requests] /\ reqs[r] \in Requests
  BY DEF Typed, Sliced
<1>2. reqs'[r] = [reqs[r] EXCEPT !.pc = pc] /\ \A q \in Reqs : q # r => reqs'[q] = reqs[q]
  BY <1>1, GotoEffect
<1>3. /\ reqs'[r].pc = pc /\ reqs'[r].slice = reqs[r].slice /\ reqs'[r].history = reqs[r].history
      /\ reqs'[r].kind = reqs[r].kind /\ reqs'[r].alone = reqs[r].alone
  BY <1>1, <1>2 DEF Requests
<1>. QED BY <1>2, <1>3

LEMMA FindActs ==
  ASSUME Typed, NEW r \in Reqs, FindConversation(r)
  PROVE  Acts(r)
<1>1. reqs[r].pc = "find" /\ UNCHANGED <<storage, stored, rows, kb>> /\ reqs \in [Reqs -> Requests]
  BY DEF FindConversation, Typed, Sliced
<1>2. Exists' <=> Exists
  BY <1>1 DEF Exists
<1>3. CASE ~Exists /\ Goto(r, "failed")
  BY <1>1, <1>2, <1>3, GotoActs DEF Acts, Active, Pcs
<1>4. CASE Exists /\ Find(r, Following(reqs[r].kind))
  <2>1. Following(reqs[r].kind) \in {"append", "object"}
    BY DEF Following
  <2>2. PICK pc \in {"append", "object"} : Find(r, pc)
    BY <1>4, <2>1
  <2>3. /\ reqs'[r].pc = pc /\ reqs'[r].kind = reqs[r].kind /\ (reqs'[r].alone <=> reqs[r].alone)
        /\ \A q \in Reqs : q # r => reqs'[q] = reqs[q]
    BY <2>2, FindEffect DEF Pcs
  <2>. QED BY <1>1, <1>2, <1>4, <2>3 DEF Acts, Active
<1>. QED BY <1>3, <1>4 DEF FindConversation

LEMMA AppendActs ==
  ASSUME Typed, NEW r \in Reqs, AppendQuestion(r) \/ AppendFile(r)
  PROVE  Acts(r)
<1>1. PICK m \in Messages : Appended(r, m)
  BY MessageType DEF AppendQuestion, AppendFile
<1>2. reqs[r].pc \in {"append", "file"} /\ UNCHANGED <<storage, stored, rows, kb>> /\ reqs[r] \in Requests
  BY DEF AppendQuestion, AppendFile, Typed, Sliced
<1>. DEFINE t == reqs'[r].slice
            pc == IF m.answer = 0 THEN "running" ELSE "put"
<1>3. /\ reqs'[r] = [reqs[r] EXCEPT !.slice = t, !.pc = pc]
      /\ \A q \in Reqs : q # r => reqs'[q] = reqs[q]
  BY <1>1, <1>2, AppendedEffect DEF Unwritten
<1>4. reqs'[r].pc = pc /\ reqs'[r].kind = reqs[r].kind /\ reqs'[r].alone = reqs[r].alone
  BY <1>2, <1>3 DEF Requests
<1>5. Exists' <=> Exists
  BY <1>2 DEF Exists
<1>. QED BY <1>2, <1>3, <1>4, <1>5 DEF Acts, Active

LEMMA OtherActs ==
  ASSUME Typed, NEW r \in Reqs,
         \/ RunApplication(r) \/ PutObject(r) \/ BuildConversationKnowledgeBase(r)
         \/ UpdateConversation(r) \/ DropConversation(r) \/ DeleteKnowledgeBase(r)
  PROVE  Acts(r)
<1>1. CASE RunApplication(r) \/ PutObject(r)
  <2>1. PICK pc \in {"put", "kb", "failed"} : Goto(r, pc)
    BY <1>1 DEF RunApplication, PutObject
  <2>2. UNCHANGED <<storage, stored, rows, kb>> /\ reqs[r].pc \in {"running", "object"}
    BY <1>1 DEF RunApplication, PutObject
  <2>. QED BY <2>1, <2>2, GotoActs DEF Acts, Active, Pcs, Exists
<1>2. CASE BuildConversationKnowledgeBase(r)
  <2>1. UNCHANGED <<storage, stored, rows>> /\ reqs[r].pc = "kb" /\ Goto(r, "file")
    BY <1>2 DEF BuildConversationKnowledgeBase
  <2>. QED BY <2>1, GotoActs DEF Acts, Active, Pcs, Exists
<1>3. CASE UpdateConversation(r)
  <2>1. PICK pc \in {"done", "failed"} : Goto(r, pc)
    BY <1>3 DEF UpdateConversation
  <2>2. UNCHANGED <<storage, kb>> /\ reqs[r].pc = "put"
    BY <1>3 DEF UpdateConversation
  <2>. QED BY <2>1, <2>2, GotoActs DEF Acts, Active, Pcs
<1>4. CASE DropConversation(r)
  <2>1. reqs[r].pc = "drop" /\ UNCHANGED <<storage, kb>>
    BY <1>4 DEF DropConversation
  <2>2. CASE Drop /\ Goto(r, "unkb")
    <3>1. ~Exists'
      <4>1. CASE storage = "memory"
        BY <2>1, <2>2, <4>1, DropEffect DEF Exists
      <4>2. CASE storage # "memory"
        BY <2>1, <2>2, <4>2, DropEffect DEF Exists
      <4>. QED BY <4>1, <4>2
    <3>. QED BY <2>1, <2>2, <3>1, GotoActs DEF Acts, Active, Pcs
  <2>3. CASE Goto(r, "failed") /\ UNCHANGED <<stored, rows>>
    BY <2>1, <2>3, GotoActs DEF Acts, Active, Pcs, Exists
  <2>. QED BY <1>4, <2>2, <2>3 DEF DropConversation
<1>5. CASE DeleteKnowledgeBase(r)
  <2>1. reqs[r].pc = "unkb" /\ UNCHANGED <<storage, stored, rows>>
    BY <1>5 DEF DeleteKnowledgeBase
  <2>2. CASE kb' = [exists |-> FALSE, files |-> {}] /\ Goto(r, "done")
    <3>1. kb'.exists = FALSE
      BY <2>2
    <3>. QED BY <2>1, <2>2, <3>1, GotoActs DEF Acts, Active, Pcs, Exists
  <2>3. CASE UNCHANGED kb /\ Goto(r, "failed")
    BY <2>1, <2>3, GotoActs DEF Acts, Active, Pcs, Exists
  <2>. QED BY <1>5, <2>2, <2>3 DEF DeleteKnowledgeBase
<1>. QED BY <1>1, <1>2, <1>3, <1>4, <1>5

\* A request begins, when all before it have begun.
LEMMA BeginsOneByOne ==
  ASSUME Typed, OneByOne, NEW r \in Reqs, StartNew(r) \/ Start(r)
  PROVE  OneByOne'
<1>1. PICK kind \in Kinds, pc \in {"append", "object", "drop", "find"} :
        Begins(r, kind, pc, NoSlice) /\ (kind = "delete" <=> pc = "drop") /\ (kind = "delete" => r # 1)
  BY DEF StartNew, Start, Following, Kinds
<1>2. /\ reqs'[r].pc = pc /\ reqs'[r].kind = kind
      /\ reqs'[r].alone <=> \A p \in Reqs : ~Active(p)
      /\ \A q \in Reqs : q # r => /\ reqs'[q].pc = reqs[q].pc /\ reqs'[q].kind = reqs[q].kind
                                  /\ reqs'[q].alone <=> reqs[q].alone /\ ~Active(q)
  BY <1>1, BeginsEffect, NoSliceType DEF Typed, Sliced, Pcs
<1>3. reqs[r].pc = "no" /\ \A q \in 1..(r - 1) : reqs[q].pc # "no"
  BY DEF StartNew, Start, IsNext
<1>4. ASSUME NEW p \in Reqs, reqs'[p].pc # "no", NEW q \in 1..(p - 1)
      PROVE  reqs'[q].pc # "no"
  <2>1. q \in Reqs
    BY BoundsAssumption DEF Reqs
  <2>2. reqs[q].pc # "no"
    BY <1>2, <1>3, <1>4 DEF OneByOne
  <2>. QED BY <1>2, <2>1, <2>2
<1>5. ASSUME NEW p \in Reqs, NEW q \in Reqs, reqs'[p].alone, Active(p)', q # p
      PROVE  ~Active(q)'
  <2>1. CASE p = r
    BY <1>2, <1>5, <2>1 DEF Active
  <2>2. CASE p # r
    BY <1>2, <1>5, <2>2 DEF Active
  <2>. QED BY <2>1, <2>2
<1>6. \A p \in Reqs : /\ reqs'[p].pc = "no" => reqs'[p].kind = "chat"
                      /\ reqs'[p].kind = "delete" => p # 1 /\ reqs'[p].pc \in {"drop", "unkb", "done", "failed"}
                      /\ reqs'[p].pc \in {"drop", "unkb"} => reqs'[p].kind = "delete"
  BY <1>1, <1>2 DEF OneByOne
<1>. QED BY <1>4, <1>5, <1>6 DEF OneByOne

LEMMA ActsOneByOne ==
  ASSUME OneByOne, NEW r \in Reqs, Acts(r)
  PROVE  OneByOne'
<1>1. \A p \in Reqs : reqs'[p].pc = "no" <=> reqs[p].pc = "no"
  BY DEF Acts, Active
<1>2. \A p \in Reqs : reqs'[p].kind = reqs[p].kind /\ (reqs'[p].alone <=> reqs[p].alone) /\ (Active(p)' => Active(p))
  BY DEF Acts, Active
<1>3. ASSUME NEW p \in Reqs, reqs'[p].pc # "no", NEW q \in 1..(p - 1)
      PROVE  reqs'[q].pc # "no"
  <2>1. q \in Reqs
    BY BoundsAssumption DEF Reqs
  <2>. QED BY <1>1, <1>3, <2>1 DEF OneByOne
<1>4. ASSUME NEW p \in Reqs, reqs'[p].kind = "delete"
      PROVE  p # 1 /\ reqs'[p].pc \in {"drop", "unkb", "done", "failed"}
  BY <1>2, <1>4 DEF OneByOne, Acts, Active
<1>5. ASSUME NEW p \in Reqs, reqs'[p].pc \in {"drop", "unkb"}
      PROVE  reqs'[p].kind = "delete"
  BY <1>2, <1>5 DEF OneByOne, Acts
<1>6. \A p, q \in Reqs : reqs'[p].alone /\ Active(p)' /\ q # p => ~Active(q)'
  BY <1>2 DEF OneByOne
<1>7. \A p \in Reqs : reqs'[p].pc = "no" => reqs'[p].kind = "chat"
  BY <1>1, <1>2 DEF OneByOne
<1>. QED BY <1>3, <1>4, <1>5, <1>6, <1>7 DEF OneByOne

\* The conversation is only made while there was no deletion, and a request
\* that begins later looks for it first.
LEMMA BeginsAway ==
  ASSUME Typed, OneByOne, Away, NEW r \in Reqs, StartNew(r) \/ Start(r)
  PROVE  Away'
<1>1. PICK kind \in Kinds, pc \in {"append", "object", "drop", "find"} :
        Begins(r, kind, pc, NoSlice) /\ (Start(r) => pc \in {"drop", "find"})
  BY DEF StartNew, Start, Following, Kinds
<1>2. /\ reqs'[r].pc = pc
      /\ \A q \in Reqs : q # r => /\ reqs'[q].pc = reqs[q].pc /\ reqs'[q].kind = reqs[q].kind
                                  /\ reqs'[q].alone <=> reqs[q].alone /\ ~Active(q)
  BY <1>1, BeginsEffect, NoSliceType DEF Typed, Sliced, Pcs
<1>3. CASE Start(r)
  <2>1. UNCHANGED <<storage, stored, rows, kb>>
    BY <1>3 DEF Start
  <2>2. ASSUME NEW p \in Reqs, p # r, reqs'[p].kind = "delete", reqs'[p].alone
        PROVE  /\ reqs'[p].pc # "unkb"
               /\ reqs'[p].pc = "done" => /\ ~Exists /\ ~kb.exists
                                          /\ \A q \in Reqs : Active(q)' => reqs'[q].pc \in {"find", "drop", "unkb"}
    BY <1>1, <1>2, <1>3, <2>2 DEF Away, Active
  <2>. QED BY <1>1, <1>2, <1>3, <2>1, <2>2 DEF Away, Exists
<1>4. CASE StartNew(r)
  <2>1. \A p \in Reqs : reqs[p].pc = "no"
    <3>1. reqs[1].pc = "no"
      BY <1>4 DEF StartNew, IsNext
    <3>2. \A p \in Reqs : p # 1 => 1 \in 1..(p - 1)
      BY BoundsAssumption DEF Reqs
    <3>. QED BY <3>1, <3>2 DEF OneByOne
  <2>. QED BY <1>1, <1>2, <2>1 DEF Away
<1>. QED BY <1>3, <1>4

LEMMA ActsAway ==
  ASSUME OneByOne, Away, NEW r \in Reqs, Acts(r)
  PROVE  Away'
<1>. SUFFICES ASSUME NEW p \in Reqs, reqs'[p].kind = "delete", reqs'[p].alone
              PROVE  /\ reqs'[p].pc = "unkb" => ~Exists'
                     /\ reqs'[p].pc = "done" => /\ ~Exists' /\ ~kb'.exists
                          /\ \A q \in Reqs : Active(q)' => reqs'[q].pc \in {"find", "drop", "unkb"}
  BY DEF Away
<1>1. reqs[p].kind = "delete" /\ reqs[p].alone
  BY DEF Acts
<1>2. CASE p # r
  <2>1. reqs'[p] = reqs[p] /\ ~Active(p)
    BY <1>1, <1>2 DEF Acts, OneByOne
  <2>2. CASE reqs[p].pc = "done"
    <3>1. /\ ~Exists /\ ~kb.exists
          /\ \A q \in Reqs : Active(q) => reqs[q].pc \in {"find", "drop", "unkb"}
      BY <1>1, <2>2 DEF Away
    <3>2. reqs[r].pc \in {"find", "drop", "unkb"}
      BY <3>1 DEF Acts
    <3>3. ~Exists' /\ ~kb'.exists
      BY <3>1, <3>2 DEF Acts
    <3>4. reqs'[r].pc \in {"failed", "unkb", "done"}
      BY <3>1, <3>2 DEF Acts
    <3>. QED BY <2>1, <2>2, <3>1, <3>3, <3>4 DEF Acts, Active
  <2>. QED BY <2>1, <2>2 DEF Active
<1>3. CASE p = r
  <2>1. reqs[r].pc \in {"drop", "unkb"} /\ \A q \in Reqs : q # r => ~Active(q) /\ reqs'[q] = reqs[q]
    BY <1>1, <1>3 DEF Acts, OneByOne, Active
  <2>2. CASE reqs[r].pc = "drop"
    BY <1>3, <2>2 DEF Acts
  <2>3. CASE reqs[r].pc = "unkb"
    <3>1. ~Exists'
      BY <1>1, <1>3, <2>3 DEF Away, Acts
    <3>. QED BY <1>3, <2>1, <2>3, <3>1 DEF Acts, Active
  <2>. QED BY <2>1, <2>2, <2>3
<1>. QED BY <1>2, <1>3

LEMMA RequestCases ==
  ASSUME Typed, NEW r \in Reqs, Request(r)
  PROVE  StartNew(r) \/ Start(r) \/ Acts(r)
BY FindActs, AppendActs, OtherActs DEF Request

LEMMA NextOneByOne == Typed /\ OneByOne /\ [Next]_vars => OneByOne'
<1>. SUFFICES ASSUME Typed, OneByOne, [Next]_vars
              PROVE  OneByOne'
  OBVIOUS
<1>1. CASE UNCHANGED vars
  BY <1>1 DEF vars, OneByOne, Active
<1>. QED BY <1>1, RequestCases, BeginsOneByOne, ActsOneByOne DEF Next

LEMMA NextAway == Typed /\ OneByOne /\ Away /\ [Next]_vars => Away'
<1>. SUFFICES ASSUME Typed, OneByOne, Away, [Next]_vars
              PROVE  Away'
  OBVIOUS
<1>1. CASE UNCHANGED vars
  BY <1>1 DEF vars, Away, Active, Exists
<1>. QED BY <1>1, RequestCases, BeginsAway, ActsAway DEF Next

\* A deletion that was alone is final: neither the conversation nor its knowledge
\* base is there again, although every request writes the conversation back whole.
THEOREM DeletionIsFinal == Spec => []StaysDeleted
<1>1. Init => OneByOne /\ Away
  <2>. SUFFICES ASSUME Init PROVE OneByOne /\ Away
    OBVIOUS
  <2>1. \A r \in Reqs : reqs[r] = NoReq
    BY DEF Init
  <2>2. NoReq.pc = "no" /\ NoReq.kind = "chat"
    BY DEF NoReq
  <2>. QED BY <2>1, <2>2 DEF OneByOne, Away, Active
<1>2. Spec => [](Typed /\ OneByOne /\ Away)
  BY <1>1, InitTyped, NextTyped, NextOneByOne, NextAway, PTL DEF Spec
<1>3. OneByOne /\ Away => StaysDeleted
  BY DEF Away, StaysDeleted
<1>. QED BY <1>2, <1>3, PTL

-----------------------------------------------------------------------------
(* Postgres: every answer is kept, and told with its question *)

Going == {"append", "object", "kb", "file", "running", "put"}

\* A message of a request that is through.
Answered(m) == m.by \in Reqs /\ m.answer = m.by /\ reqs[m.by].pc = "done"

\* The places of a request's slice that it found there.
Earlier(r) ==
  IF reqs[r].pc \in {"running", "put"} THEN 1..(reqs[r].slice.len - 1) ELSE 1..reqs[r].slice.len

\* What the slice of a request holds: what it found, and its own message.
Holding(r) ==
  LET s == reqs[r].slice IN
  reqs[r].pc \in Going =>
    /\ \A i \in Earlier(r) : Answered(In(arrays, s)[i])
    /\ reqs[r].pc = "running" => In(arrays, s)[s.len] = Message(r, 0)
    /\ reqs[r].pc = "put" => In(arrays, s)[s.len] = Message(r, r)

WellTold(r) ==
  LET h == reqs[r].history IN
  /\ \A i \in DOMAIN h : h[i].answer = h[i].by /\ h[i].by # r
  /\ \A i, j \in DOMAIN h : h[i] = h[j] => i = j

Table ==
  storage = "postgres" =>
    /\ \A m \in rows.messages : Answered(m)
    /\ \A r \in Reqs : Holding(r) /\ WellTold(r)
    /\ \A r \in Reqs : reqs[r].kind # "delete" /\ reqs[r].pc = "done" => Message(r, r) \in rows.messages

\* A request that is through stays so.
LEMMA StaysAnswered ==
  ASSUME NEW r \in Reqs, Acts(r), NEW m, Answered(m)
  PROVE  Answered(m)'
BY DEF Answered, Acts, Active

LEMMA BeginsTable ==
  ASSUME Typed, Table, NEW r \in Reqs, StartNew(r) \/ Start(r)
  PROVE  Table'
<1>. SUFFICES ASSUME storage' = "postgres" PROVE Table'
  BY DEF Table
<1>1. PICK kind \in Kinds, pc \in {"append", "object", "drop", "find"} : Begins(r, kind, pc, NoSlice)
  BY DEF StartNew, Start, Following, Kinds
<1>2. /\ reqs'[r].pc = pc /\ reqs'[r].slice = NoSlice /\ reqs'[r].history = <<>>
      /\ \A q \in Reqs : q # r => /\ reqs'[q].pc = reqs[q].pc /\ reqs'[q].kind = reqs[q].kind
                                  /\ reqs'[q].slice = reqs[q].slice /\ reqs'[q].history = reqs[q].history
  BY <1>1, BeginsEffect, NoSliceType DEF Typed, Sliced, Pcs
<1>3. reqs[r].pc = "no" /\ storage = "postgres" /\ arrays' = arrays
  BY DEF StartNew, Start, IsNext
<1>4. rows'.messages = rows.messages
  <2>1. CASE Start(r)
    BY <2>1 DEF Start
  <2>2. CASE Put(NoSlice)
    <3>1. In(arrays, NoSlice) = <<>> /\ Len(<<>>) = 0
      BY NoSliceType, EmptySeq DEF In
    <3>2. ToSet(Content(NoSlice)) = {}
      BY <3>1, NoSliceType, ContentRows DEF Typed, Sliced
    <3>3. NoSlice.len <= Len(In(arrays, NoSlice))
      BY <3>1, NoSliceType
    <3>4. rows'.messages = rows.messages \cup
            {m \in ToSet(Content(NoSlice)) : \A n \in rows.messages : n.by # m.by}
      BY <1>3, <2>2, <3>3, NoSliceType, PutEffect
    <3>. QED BY <3>2, <3>4
  <2>. QED BY <2>1, <2>2 DEF StartNew
<1>5. \A m : Answered(m) => Answered(m)'
  BY <1>2, <1>3 DEF Answered
<1>6. ASSUME NEW q \in Reqs
      PROVE  Holding(q)' /\ WellTold(q)'
  <2>1. CASE q = r
    <3>1. Earlier(r)' = 1..0 /\ pc \notin {"running", "put"}
      BY <1>2, NoSliceType DEF Earlier
    <3>2. Holding(r)'
      BY <1>2, <3>1 DEF Holding
    <3>3. WellTold(r)'
      BY <1>2 DEF WellTold
    <3>. QED BY <2>1, <3>2, <3>3
  <2>2. CASE q # r
    <3>1. Earlier(q)' = Earlier(q)
      BY <1>2, <2>2 DEF Earlier
    <3>2. Holding(q) /\ WellTold(q)
      BY <1>3 DEF Table
    <3>. QED BY <1>2, <1>3, <1>5, <2>2, <3>1, <3>2 DEF Holding, WellTold
  <2>. QED BY <2>1, <2>2
<1>7. \A q \in Reqs : reqs'[q].kind # "delete" /\ reqs'[q].pc = "done" => Message(q, q) \in rows'.messages
  BY <1>2, <1>3, <1>4 DEF Table
<1>. QED BY <1>3, <1>4, <1>5, <1>6, <1>7 DEF Table

\* A step that leaves the arrays, the slices and the rows as they are.
LEMMA GotoTable ==
  ASSUME Typed, Table, NEW r \in Reqs, NEW pc \in Pcs, Goto(r, pc), Acts(r),
         UNCHANGED <<storage, arrays>>, rows'.messages = rows.messages,
         pc \notin {"running", "put"}, reqs[r].pc \notin {"running", "put"} \/ pc = "failed",
         pc \in Going => reqs[r].pc \in Going,
         pc = "done" => reqs[r].kind = "delete"
  PROVE  Table'
<1>. SUFFICES ASSUME storage = "postgres" PROVE Table'
  BY DEF Table
<1>1. /\ reqs'[r].pc = pc /\ reqs'[r].slice = reqs[r].slice /\ reqs'[r].history = reqs[r].history
      /\ reqs'[r].kind = reqs[r].kind
      /\ \A q \in Reqs : q # r => reqs'[q] = reqs[q]
  BY GotoActs
<1>2. \A m : Answered(m) => Answered(m)'
  BY StaysAnswered
<1>3. ASSUME NEW q \in Reqs
      PROVE  Holding(q)' /\ WellTold(q)'
  <2>1. Holding(q) /\ WellTold(q)
    BY DEF Table
  <2>2. WellTold(q)'
    BY <1>1, <2>1 DEF WellTold
  <2>3. Holding(q)'
    <3>1. CASE q = r
      <4>1. CASE pc \in Going
        <5>1. Earlier(r)' = Earlier(r)
          BY <1>1, <4>1 DEF Earlier, Going
        <5>. QED BY <1>1, <1>2, <2>1, <3>1, <4>1, <5>1 DEF Holding
      <4>2. CASE pc \notin Going
        BY <1>1, <3>1, <4>2 DEF Holding
      <4>. QED BY <4>1, <4>2
    <3>2. CASE q # r
      <4>1. Earlier(q)' = Earlier(q)
        BY <1>1, <3>2 DEF Earlier
      <4>. QED BY <1>1, <1>2, <2>1, <3>2, <4>1 DEF Holding
    <3>. QED BY <3>1, <3>2
  <2>. QED BY <2>2, <2>3
<1>4. \A q \in Reqs : reqs'[q].kind # "delete" /\ reqs'[q].pc = "done" => Message(q, q) \in rows'.messages
  BY <1>1 DEF Table
<1>. QED BY <1>2, <1>3, <1>4 DEF Table

LEMMA FindTable ==
  ASSUME Typed, Table, NEW r \in Reqs, FindConversation(r)
  PROVE  Table'
<1>. SUFFICES ASSUME storage = "postgres" PROVE Table'
  BY DEF Table, FindConversation
<1>1. Acts(r) /\ reqs[r].pc = "find" /\ UNCHANGED <<storage, stored, rows>>
  BY FindActs DEF FindConversation
<1>2. CASE Goto(r, "failed") /\ UNCHANGED arrays
  BY <1>1, <1>2, GotoTable DEF Pcs, Going
<1>3. CASE Find(r, Following(reqs[r].kind))
  <2>. DEFINE h == SetToSeq(rows.messages)
  <2>1. Following(reqs[r].kind) \in {"append", "object"}
    BY DEF Following
  <2>2. PICK pc \in {"append", "object"} : Find(r, pc)
    BY <1>3, <2>1
  <2>3. /\ arrays' = [arrays EXCEPT ![r] = h] /\ h \in Seq(Messages) /\ Len(h) \in Nat
        /\ reqs'[r].pc = pc /\ reqs'[r].slice = [array |-> r, len |-> Len(h)] /\ reqs'[r].history = h
        /\ \A q \in Reqs : q # r => reqs'[q] = reqs[q]
    BY <2>2, FindEffect DEF Pcs
  <2>4. /\ \A i \in 1..Len(h) : h[i] \in rows.messages
        /\ \A i, j \in 1..Len(h) : h[i] = h[j] => i = j
    BY RowsInOrder DEF Typed, Others
  <2>5. DOMAIN h = 1..Len(h)
    BY <2>3, LenProperties
  <2>. HIDE DEF h
  <2>6. \A m : Answered(m) => Answered(m)'
    BY <1>1, StaysAnswered
  <2>7. arrays \in [Reqs -> Seq(Messages)] /\ reqs[r].kind # "delete" => arrays'[r] = h
    BY <2>3
  <2>8. arrays'[r] = h /\ \A q \in Reqs : q # r => arrays'[q] = arrays[q]
    BY <2>3 DEF Typed, Sliced
  <2>9. ASSUME NEW q \in Reqs
        PROVE  Holding(q)' /\ WellTold(q)'
    <3>1. Holding(q) /\ WellTold(q)
      BY DEF Table
    <3>2. CASE q = r
      <4>1. In(arrays', reqs'[r].slice) = h /\ reqs'[r].slice.len = Len(h)
        BY <2>3, <2>8, BoundsAssumption DEF In, Reqs
      <4>2. Earlier(r)' = 1..Len(h)
        BY <2>3, <4>1 DEF Earlier
      <4>3. \A i \in 1..Len(h) : Answered(h[i])
        BY <2>4 DEF Table
      <4>4. Holding(r)'
        BY <2>3, <2>6, <4>1, <4>2, <4>3 DEF Holding
      <4>5. \A i \in 1..Len(h) : h[i].answer = h[i].by /\ h[i].by # r
        BY <1>1, <4>3 DEF Answered
      <4>6. WellTold(r)'
        BY <2>3, <2>4, <2>5, <4>5 DEF WellTold
      <4>. QED BY <3>2, <4>4, <4>6
    <3>3. CASE q # r
      <4>1. Earlier(q)' = Earlier(q) /\ reqs'[q] = reqs[q]
        BY <2>3, <3>3 DEF Earlier
      <4>2. In(arrays', reqs[q].slice) = In(arrays, reqs[q].slice)
        <5>1. reqs[q].slice.array \in {0, q}
          BY DEF Typed, Sliced, Owned
        <5>. QED BY <2>8, <3>3, <5>1 DEF In
      <4>. QED BY <2>6, <3>1, <4>1, <4>2 DEF Holding, WellTold
    <3>. QED BY <3>2, <3>3
  <2>10. \A q \in Reqs : reqs'[q].kind # "delete" /\ reqs'[q].pc = "done" => Message(q, q) \in rows'.messages
    BY <1>1, <2>3 DEF Table
  <2>. QED BY <1>1, <2>6, <2>9, <2>10 DEF Table
<1>. QED BY <1>2, <1>3 DEF FindConversation

\* What a request appends stands behind what it found.
LEMMA AppendTable ==
  ASSUME Typed, Table, NEW r \in Reqs, Acts(r), NEW m \in Messages, Appended(r, m),
         \/ reqs[r].pc = "append" /\ m = Message(r, 0)
         \/ reqs[r].pc = "file" /\ m = Message(r, r),
         UNCHANGED <<storage, stored, rows>>
  PROVE  Table'
<1>. SUFFICES ASSUME storage = "postgres" PROVE Table'
  BY DEF Table
<1>. DEFINE s == reqs[r].slice
            t == reqs'[r].slice
            pc == IF m.answer = 0 THEN "running" ELSE "put"
<1>1. /\ reqs'[r] = [reqs[r] EXCEPT !.slice = t, !.pc = pc]
      /\ \A q \in Reqs : q # r => reqs'[q] = reqs[q]
      /\ t \in Slices /\ t.len = s.len + 1 /\ t.array \in Reqs \cap {s.array, r}
      /\ In(arrays', t)[t.len] = m
      /\ \A i \in 1..s.len : In(arrays', t)[i] = In(arrays, s)[i]
      /\ \A q \in Reqs : q # t.array => arrays'[q] = arrays[q]
  BY AppendedEffect DEF Unwritten
<1>2. reqs[r] \in Requests /\ s.len \in Nat /\ \A q \in Reqs : reqs[q].slice.array \in {0, q}
  BY DEF Typed, Sliced, Owned, Requests, Slices
<1>3. reqs'[r].pc = pc /\ reqs'[r].slice = t /\ reqs'[r].history = reqs[r].history /\ reqs'[r].kind = reqs[r].kind
  BY <1>1, <1>2 DEF Requests
<1>4. \A p : Answered(p) => Answered(p)'
  BY StaysAnswered
<1>5. (m.answer = 0 /\ m = Message(r, 0)) \/ (m.answer # 0 /\ m = Message(r, r))
  BY BoundsAssumption DEF Message, Reqs
<1>. HIDE DEF s, t
<1>6. ASSUME NEW q \in Reqs
      PROVE  Holding(q)' /\ WellTold(q)'
  <2>1. Holding(q) /\ WellTold(q)
    BY DEF Table
  <2>2. CASE q = r
    <3>1. WellTold(r)'
      BY <1>3, <2>1, <2>2 DEF WellTold
    <3>2. Earlier(r)' = 1..s.len /\ Earlier(r) = 1..s.len
      BY <1>1, <1>2, <1>3 DEF Earlier, s
    <3>3. \A i \in 1..s.len : Answered(In(arrays, s)[i])
      BY <2>1, <2>2, <3>2 DEF Holding, Going, s
    <3>4. ASSUME NEW i \in 1..s.len, NEW x, x = In(arrays', t)[i]
          PROVE  Answered(x)'
      BY <1>1, <1>4, <3>3, <3>4
    <3>5. \A i \in 1..s.len : LET x == In(arrays', t)[i] IN
            x.by \in Reqs /\ x.answer = x.by /\ reqs'[x.by].pc = "done"
      BY <3>4 DEF Answered
    <3>6. Holding(r)'
      BY <1>1, <1>3, <1>5, <3>2, <3>5 DEF Holding, Answered
    <3>. QED BY <2>2, <3>1, <3>6
  <2>3. CASE q # r
    <3>1. Earlier(q)' = Earlier(q) /\ reqs'[q] = reqs[q]
      BY <1>1, <2>3 DEF Earlier
    <3>2. In(arrays', reqs[q].slice) = In(arrays, reqs[q].slice)
      <4>1. reqs[q].slice.array \in {0, q} /\ s.array \in {0, r} /\ r # 0
        BY <1>2, BoundsAssumption DEF s, Reqs
      <4>2. t.array = r
        BY <1>1, <4>1, BoundsAssumption DEF Reqs
      <4>. QED BY <1>1, <2>3, <4>1, <4>2 DEF In
    <3>. QED BY <1>4, <2>1, <3>1, <3>2 DEF Holding, WellTold
  <2>. QED BY <2>2, <2>3
<1>7. \A q \in Reqs : reqs'[q].kind # "delete" /\ reqs'[q].pc = "done" => Message(q, q) \in rows'.messages
  BY <1>1, <1>3 DEF Table
<1>. QED BY <1>4, <1>6, <1>7 DEF Table

LEMMA RunTable ==
  ASSUME Typed, Table, NEW r \in Reqs, RunApplication(r)
  PROVE  Table'
<1>. SUFFICES ASSUME storage = "postgres" PROVE Table'
  BY DEF Table, RunApplication
<1>1. Acts(r) /\ reqs[r].pc = "running" /\ UNCHANGED <<storage, stored, rows>> /\ reqs[r].slice \in Slices
  BY OtherActs DEF RunApplication, Typed, Sliced, Requests
<1>2. CASE Goto(r, "failed") /\ UNCHANGED arrays
  BY <1>1, <1>2, GotoTable DEF Pcs, Going
<1>3. CASE /\ arrays' = [arrays EXCEPT ![reqs[r].slice.array][reqs[r].slice.len].answer = r]
           /\ Goto(r, "put")
  <2>. DEFINE s == reqs[r].slice
              n == s.len
  <2>1. /\ s.array \in Reqs /\ n \in 1..Len(In(arrays, s))
        /\ In(arrays', s)[n] = [by |-> In(arrays, s)[n].by, answer |-> r]
        /\ \A u \in Slices : u.len <= Len(In(arrays, u)) =>
             \A i \in 1..u.len : u.array # s.array \/ i # n => In(arrays', u)[i] = In(arrays, u)[i]
    <3>1. /\ s \in Slices /\ s = reqs[r].slice
          /\ arrays' = [arrays EXCEPT ![s.array][s.len].answer = r]
      BY <1>1, <1>3
    <3>. HIDE DEF s
    <3>2. /\ s.array \in Reqs /\ s.len \in 1..Len(In(arrays, s))
          /\ In(arrays', s)[s.len] = [by |-> In(arrays, s)[s.len].by, answer |-> r]
      BY <1>1, <3>1, AnsweredEffect
    <3>3. Untouched(s.array, s.len)
      BY <1>1, <3>1, AnsweredEffect
    <3>. QED BY <3>2, <3>3 DEF Untouched
  <2>2. /\ reqs'[r].pc = "put" /\ reqs'[r].slice = s /\ reqs'[r].history = reqs[r].history
        /\ reqs'[r].kind = reqs[r].kind
        /\ \A q \in Reqs : q # r => reqs'[q] = reqs[q]
    BY <1>3, GotoActs DEF Pcs
  <2>3. s \in Slices /\ \A q \in Reqs : /\ reqs[q].slice \in Slices /\ reqs[q].slice.len \in Nat
                                        /\ reqs[q].slice.len <= Len(In(arrays, reqs[q].slice))
                                        /\ reqs[q].slice.array \in {0, q}
    BY DEF Typed, Sliced, Owned, Requests, Slices
  <2>4. \A m : Answered(m) => Answered(m)'
    BY <1>1, StaysAnswered
  <2>5. n \in Nat /\ s.len = n /\ s.array = r
    BY <2>1, <2>3, BoundsAssumption DEF Reqs
  <2>6. In(arrays, s)[n] = Message(r, 0)
    BY <1>1 DEF Table, Holding, Going
  <2>. HIDE DEF s, n
  <2>7. ASSUME NEW q \in Reqs
        PROVE  Holding(q)' /\ WellTold(q)'
    <3>1. Holding(q) /\ WellTold(q)
      BY DEF Table
    <3>2. CASE q = r
      <4>1. WellTold(r)'
        BY <2>2, <3>1, <3>2 DEF WellTold
      <4>2. Earlier(r)' = 1..(n - 1) /\ Earlier(r) = 1..(n - 1)
        BY <1>1, <2>2, <2>5 DEF Earlier, s, n
      <4>3. \A i \in 1..(n - 1) : Answered(In(arrays, s)[i])
        BY <1>1, <3>1, <3>2, <4>2 DEF Holding, Going, s
      <4>4. \A i \in 1..(n - 1) : In(arrays', s)[i] = In(arrays, s)[i]
        BY <2>1, <2>3, <2>5 DEF s
      <4>5. ASSUME NEW i \in 1..(n - 1), NEW x, x = In(arrays', s)[i]
            PROVE  Answered(x)'
        BY <2>4, <4>3, <4>4, <4>5
      <4>6. \A i \in 1..(n - 1) : LET x == In(arrays', s)[i] IN
              x.by \in Reqs /\ x.answer = x.by /\ reqs'[x.by].pc = "done"
        BY <4>5 DEF Answered
      <4>7. In(arrays', s)[n] = Message(r, r)
        BY <2>1, <2>6 DEF Message
      <4>8. Holding(r)'
        BY <2>2, <2>5, <4>2, <4>6, <4>7 DEF Holding, Answered
      <4>. QED BY <3>2, <4>1, <4>8
    <3>3. CASE q # r
      <4>1. Earlier(q)' = Earlier(q) /\ reqs'[q] = reqs[q]
        BY <2>2, <3>3 DEF Earlier
      <4>2. reqs[q].slice.array # s.array
        BY <2>1, <2>3, <2>5, <3>3, BoundsAssumption DEF Reqs
      <4>3. \A i \in 1..reqs[q].slice.len : In(arrays', reqs[q].slice)[i] = In(arrays, reqs[q].slice)[i]
        BY <2>1, <2>3, <4>2
      <4>4. Earlier(q) \subseteq 1..reqs[q].slice.len
        BY <2>3 DEF Earlier
      <4>5. reqs[q].pc \in {"running", "put"} => reqs[q].slice.len \in 1..reqs[q].slice.len
        BY <2>3 DEF Typed, Sliced, Written
      <4>6. ASSUME reqs[q].pc \in Going, NEW i \in Earlier(q), NEW x, x = In(arrays', reqs[q].slice)[i]
            PROVE  Answered(x)'
        BY <2>4, <3>1, <4>3, <4>4, <4>6 DEF Holding
      <4>7. reqs[q].pc \in Going => \A i \in Earlier(q) : LET x == In(arrays', reqs[q].slice)[i] IN
              x.by \in Reqs /\ x.answer = x.by /\ reqs'[x.by].pc = "done"
        BY <4>6 DEF Answered
      <4>8. Holding(q)'
        BY <3>1, <4>1, <4>3, <4>5, <4>7 DEF Holding, Answered
      <4>9. WellTold(q)'
        BY <3>1, <4>1 DEF WellTold
      <4>. QED BY <4>8, <4>9
    <3>. QED BY <3>2, <3>3
  <2>8. \A q \in Reqs : reqs'[q].kind # "delete" /\ reqs'[q].pc = "done" => Message(q, q) \in rows'.messages
    BY <1>1, <2>2 DEF Table
  <2>. QED BY <1>1, <2>4, <2>7, <2>8 DEF Table
<1>. QED BY <1>2, <1>3 DEF RunApplication

\* Its own message is new in the table, and the others it holds were there.
LEMMA UpdateTable ==
  ASSUME Typed, Table, NEW r \in Reqs, UpdateConversation(r)
  PROVE  Table'
<1>. SUFFICES ASSUME storage = "postgres" PROVE Table'
  BY DEF Table, UpdateConversation
<1>1. /\ Acts(r) /\ reqs[r].pc = "put" /\ UNCHANGED <<storage, arrays>>
      /\ arrays \in [Reqs -> Seq(Messages)]
      /\ reqs[r].slice \in Slices /\ reqs[r].slice.len <= Len(In(arrays, reqs[r].slice))
      /\ reqs[r].slice.len > 0 /\ reqs[r].slice.len \in Nat
  BY OtherActs DEF UpdateConversation, Typed, Sliced, Written, Requests, Slices
<1>2. CASE Goto(r, "failed") /\ UNCHANGED <<stored, rows>>
  BY <1>1, <1>2, GotoTable DEF Pcs, Going
<1>3. CASE Put(reqs[r].slice) /\ Goto(r, "done")
  <2>. DEFINE s == reqs[r].slice
              new == {m \in ToSet(Content(s)) : \A n \in rows.messages : n.by # m.by}
  <2>1. rows'.messages = rows.messages \cup new
    BY <1>1, <1>3, PutEffect
  <2>2. ToSet(Content(s)) = {In(arrays, s)[i] : i \in 1..s.len}
    BY <1>1, ContentRows
  <2>3. /\ reqs'[r].pc = "done" /\ reqs'[r].history = reqs[r].history
        /\ \A q \in Reqs : q # r => reqs'[q] = reqs[q]
    BY <1>3, GotoActs DEF Pcs
  <2>4. /\ \A i \in 1..(s.len - 1) : Answered(In(arrays, s)[i])
        /\ In(arrays, s)[s.len] = Message(r, r)
    BY <1>1 DEF Table, Holding, Going, Earlier
  <2>5. \A m : Answered(m) => Answered(m)'
    BY <1>1, StaysAnswered
  <2>. HIDE DEF s
  <2>6. \A m \in ToSet(Content(s)) : Answered(m) \/ m = Message(r, r)
    BY <1>1, <2>2, <2>4 DEF s
  <2>7. Answered(Message(r, r))'
    BY <2>3 DEF Answered, Message
  <2>8. \A m \in rows'.messages : Answered(m)'
    BY <2>1, <2>5, <2>6, <2>7 DEF Table
  <2>9. Message(r, r) \in rows'.messages
    <3>1. Message(r, r) \in ToSet(Content(s))
      BY <1>1, <2>2, <2>4 DEF s
    <3>2. \A n \in rows.messages : n.by # r
      BY <1>1 DEF Table, Answered
    <3>. QED BY <2>1, <3>1, <3>2 DEF Message
  <2>10. ASSUME NEW q \in Reqs
         PROVE  Holding(q)' /\ WellTold(q)'
    <3>1. Holding(q) /\ WellTold(q)
      BY DEF Table
    <3>2. CASE q = r
      BY <2>3, <3>1, <3>2 DEF Holding, WellTold, Going
    <3>3. CASE q # r
      <4>1. Earlier(q)' = Earlier(q) /\ reqs'[q] = reqs[q]
        BY <2>3, <3>3 DEF Earlier
      <4>. QED BY <1>1, <2>5, <3>1, <4>1 DEF Holding, WellTold
    <3>. QED BY <3>2, <3>3
  <2>11. \A q \in Reqs : reqs'[q].kind # "delete" /\ reqs'[q].pc = "done" => Message(q, q) \in rows'.messages
    BY <2>1, <2>3, <2>9 DEF Table
  <2>. QED BY <1>1, <2>8, <2>10, <2>11 DEF Table
<1>. QED BY <1>2, <1>3 DEF UpdateConversation

LEMMA OtherTable ==
  ASSUME Typed, OneByOne, Table, NEW r \in Reqs,
         \/ PutObject(r) \/ BuildConversationKnowledgeBase(r)
         \/ DropConversation(r) \/ DeleteKnowledgeBase(r)
  PROVE  Table'
<1>1. Acts(r)
  BY OtherActs
<1>2. CASE PutObject(r)
  <2>1. PICK pc \in {"kb", "failed"} : Goto(r, pc)
    BY <1>2 DEF PutObject
  <2>2. reqs[r].pc = "object" /\ UNCHANGED <<storage, arrays, rows>>
    BY <1>2 DEF PutObject
  <2>. QED BY <1>1, <2>1, <2>2, GotoTable DEF Pcs, Going
<1>3. CASE BuildConversationKnowledgeBase(r)
  <2>1. Goto(r, "file") /\ reqs[r].pc = "kb" /\ UNCHANGED <<storage, arrays, rows>>
    BY <1>3 DEF BuildConversationKnowledgeBase
  <2>. QED BY <1>1, <2>1, GotoTable DEF Pcs, Going
<1>4. CASE DropConversation(r)
  <2>1. PICK pc \in {"unkb", "failed"} : Goto(r, pc)
    BY <1>4 DEF DropConversation
  <2>2. reqs[r].pc = "drop" /\ UNCHANGED <<storage, arrays>>
    BY <1>4 DEF DropConversation
  <2>3. rows'.messages = rows.messages
    BY <1>4, DropEffect DEF DropConversation
  <2>. QED BY <1>1, <2>1, <2>2, <2>3, GotoTable DEF Pcs, Going
<1>5. CASE DeleteKnowledgeBase(r)
  <2>1. PICK pc \in {"done", "failed"} : Goto(r, pc)
    BY <1>5 DEF DeleteKnowledgeBase
  <2>2. reqs[r].pc = "unkb" /\ UNCHANGED <<storage, arrays, rows>>
    BY <1>5 DEF DeleteKnowledgeBase
  <2>3. reqs[r].kind = "delete"
    BY <2>2 DEF OneByOne
  <2>. QED BY <1>1, <2>1, <2>2, <2>3, GotoTable DEF Pcs, Going
<1>. QED BY <1>2, <1>3, <1>4, <1>5

LEMMA NextTable == Typed /\ OneByOne /\ Table /\ [Next]_vars => Table'
<1>. SUFFICES ASSUME Typed, OneByOne, Table, [Next]_vars
              PROVE  Table'
  OBVIOUS
<1>1. CASE UNCHANGED vars
  BY <1>1 DEF vars, Table, Holding, WellTold, Answered, Earlier
<1>2. ASSUME NEW r \in Reqs, Request(r)
      PROVE  Table'
  <2>1. CASE AppendQuestion(r)
    <3>1. UNCHANGED <<storage, stored, rows>> /\ reqs[r].pc = "append" /\ Appended(r, Message(r, 0))
      BY <2>1 DEF AppendQuestion
    <3>. QED BY <2>1, <3>1, AppendTable, AppendActs, MessageType
  <2>2. CASE AppendFile(r)
    <3>1. UNCHANGED <<storage, stored, rows>> /\ reqs[r].pc = "file" /\ Appended(r, Message(r, r))
      BY <2>2 DEF AppendFile
    <3>. QED BY <2>2, <3>1, AppendTable, AppendActs, MessageType
  <2>. QED BY <1>2, <2>1, <2>2, BeginsTable, FindTable, RunTable, UpdateTable, OtherTable DEF Request
<1>. QED BY <1>1, <1>2 DEF Next

-----------------------------------------------------------------------------
(* Memory: the answer to a request that was alone is kept *)

\* The answer to r at the place i of a slice.
Has(u, i, r) == i <= u.len /\ In(arrays, u)[i] = Message(r, r)

\* It is stored, and every request that is under way has found it, and writes
\* behind it.
Placed(r, i) ==
  /\ Has(stored.slice, i, r)
  /\ \A q \in Reqs : reqs[q].pc \in Going =>
       Has(reqs[q].slice, i, r) /\ (reqs[q].pc = "running" => i < reqs[q].slice.len)

Own(r) ==
  LET s == reqs[r].slice IN
  /\ reqs[r].pc = "running" => In(arrays, s)[s.len] = Message(r, 0)
  /\ reqs[r].pc = "put" => In(arrays, s)[s.len] = Message(r, r)
  /\ reqs[r].pc = "done" => \E i \in Nat \ {0} : Placed(r, i)

Shared ==
  storage = "memory" /\ (\A r \in Reqs : reqs[r].kind # "delete") =>
    \A r \in Reqs : reqs[r].alone => Own(r)

\* What a step of one request has to show: its own message is where it should be,
\* and the answers that are placed stay.
LEMMA ActsShared ==
  ASSUME OneByOne, Shared, NEW q \in Reqs, Acts(q), storage' = storage,
         storage = "memory" /\ reqs[q].kind # "delete" =>
           /\ reqs[q].alone /\ Own(q) => Own(q)'
           /\ \A r \in Reqs, i \in Nat \ {0} : r # q /\ Placed(r, i) => Placed(r, i)'
  PROVE  Shared'
<1>. SUFFICES ASSUME storage = "memory", \A r \in Reqs : reqs'[r].kind # "delete",
                     NEW r \in Reqs, reqs'[r].alone
              PROVE  Own(r)'
  BY DEF Shared
<1>1. \A p \in Reqs : reqs[p].kind # "delete"
  BY DEF Acts
<1>2. reqs[r].alone /\ Own(r)
  BY <1>1 DEF Acts, Shared
<1>3. CASE r = q
  BY <1>1, <1>2, <1>3
<1>4. CASE r # q
  <2>1. reqs'[r] = reqs[r] /\ reqs[r].pc \notin {"running", "put"}
    BY <1>2, <1>4 DEF Acts, OneByOne, Active
  <2>2. CASE reqs[r].pc = "done"
    <3>1. PICK i \in Nat \ {0} : Placed(r, i)
      BY <1>2, <2>2 DEF Own
    <3>2. Placed(r, i)'
      BY <1>1, <1>4, <3>1
    <3>. QED BY <2>1, <2>2, <3>2 DEF Own
  <2>. QED BY <2>1, <2>2 DEF Own
<1>. QED BY <1>3, <1>4

LEMMA BeginsShared ==
  ASSUME Typed, OneByOne, Shared, NEW r \in Reqs, StartNew(r) \/ Start(r)
  PROVE  Shared'
<1>1. PICK kind \in Kinds, pc \in {"append", "object", "drop", "find"} :
        Begins(r, kind, pc, NoSlice) /\ (Start(r) => pc \in {"drop", "find"})
  BY DEF StartNew, Start, Following, Kinds
<1>2. /\ reqs'[r].pc = pc /\ reqs'[r].kind = kind
      /\ \A q \in Reqs : q # r => /\ reqs'[q].pc = reqs[q].pc /\ reqs'[q].kind = reqs[q].kind
                                  /\ reqs'[q].slice = reqs[q].slice
                                  /\ reqs'[q].alone <=> reqs[q].alone /\ ~Active(q)
  BY <1>1, BeginsEffect, NoSliceType DEF Typed, Sliced, Pcs
<1>. SUFFICES ASSUME storage' = "memory", \A q \in Reqs : reqs'[q].kind # "delete",
                     NEW q \in Reqs, reqs'[q].alone
              PROVE  Own(q)'
  BY DEF Shared
<1>3. CASE q = r
  BY <1>2, <1>3 DEF Own
<1>4. CASE q # r /\ Start(r)
  <2>1. UNCHANGED <<storage, stored, arrays>>
    BY <1>4 DEF Start
  <2>2. reqs[r].kind # "delete"
    BY <1>4 DEF Start, IsNext, OneByOne
  <2>3. Own(q) /\ reqs[q].pc \notin {"running", "put"}
    BY <1>2, <1>4, <2>1, <2>2 DEF Shared, Active
  <2>4. ASSUME NEW i \in Nat \ {0}, Placed(q, i)
        PROVE  Placed(q, i)'
    BY <1>1, <1>2, <1>4, <2>1, <2>4 DEF Placed, Has, Going
  <2>. QED BY <1>2, <1>4, <2>3, <2>4 DEF Own
<1>5. CASE q # r /\ StartNew(r)
  <2>1. reqs[1].pc = "no" /\ (q # 1 => 1 \in 1..(q - 1))
    BY <1>5, BoundsAssumption DEF StartNew, IsNext, Reqs
  <2>2. reqs[q].pc = "no"
    BY <2>1 DEF OneByOne
  <2>. QED BY <1>2, <1>5, <2>2 DEF Own
<1>. QED BY <1>3, <1>4, <1>5

\* A step that leaves the arrays and the slices as they are.
LEMMA GotoShared ==
  ASSUME Typed, OneByOne, Shared, NEW r \in Reqs, NEW pc \in Pcs, Goto(r, pc), Acts(r),
         UNCHANGED <<storage, arrays>>, reqs[r].kind # "delete" => stored' = stored,
         pc \notin {"running", "put"}, pc \in Going => reqs[r].pc \in Going,
         pc = "done" => reqs[r].kind = "delete"
  PROVE  Shared'
<1>1. /\ reqs'[r].pc = pc /\ reqs'[r].slice = reqs[r].slice
      /\ \A q \in Reqs : q # r => reqs'[q] = reqs[q]
  BY GotoActs
<1>. SUFFICES ASSUME storage = "memory", reqs[r].kind # "delete"
              PROVE  /\ Own(r)'
                     /\ \A p \in Reqs, i \in Nat \ {0} : p # r /\ Placed(p, i) => Placed(p, i)'
  BY ActsShared
<1>2. Own(r)'
  BY <1>1 DEF Own
<1>3. ASSUME NEW p \in Reqs, NEW i \in Nat \ {0}, Placed(p, i)
      PROVE  Placed(p, i)'
  <2>1. Has(stored.slice, i, p)'
    BY <1>3 DEF Placed, Has
  <2>2. ASSUME NEW q \in Reqs, reqs'[q].pc \in Going
        PROVE  Has(reqs[q].slice, i, p)' /\ (reqs'[q].pc = "running" => i < reqs'[q].slice.len)
    BY <1>1, <1>3, <2>2 DEF Placed, Has
  <2>. QED BY <2>1, <2>2 DEF Placed
<1>. QED BY <1>2, <1>3

\* Whoever finds the conversation has the answers that are in it.
LEMMA FindShared ==
  ASSUME Typed, OneByOne, Shared, NEW r \in Reqs, FindConversation(r)
  PROVE  Shared'
<1>1. Acts(r) /\ reqs[r].pc = "find" /\ UNCHANGED <<storage, stored>>
  BY FindActs DEF FindConversation
<1>2. CASE Goto(r, "failed") /\ UNCHANGED arrays
  BY <1>1, <1>2, GotoShared DEF Pcs, Going
<1>3. CASE Find(r, Following(reqs[r].kind))
  <2>. SUFFICES ASSUME storage = "memory"
                PROVE  /\ Own(r)'
                       /\ \A p \in Reqs, i \in Nat \ {0} : p # r /\ Placed(p, i) => Placed(p, i)'
    BY <1>1, ActsShared
  <2>1. Following(reqs[r].kind) \in {"append", "object"}
    BY DEF Following
  <2>2. PICK pc \in {"append", "object"} : Find(r, pc)
    BY <1>3, <2>1
  <2>3. /\ arrays' = arrays /\ reqs'[r].pc = pc /\ reqs'[r].slice = stored.slice
        /\ \A q \in Reqs : q # r => reqs'[q] = reqs[q]
    BY <2>2, FindEffect DEF Pcs
  <2>4. ASSUME NEW p \in Reqs, NEW i \in Nat \ {0}, Placed(p, i)
        PROVE  Placed(p, i)'
    <3>1. Has(stored.slice, i, p)'
      BY <1>1, <2>3, <2>4 DEF Placed, Has
    <3>2. ASSUME NEW q \in Reqs, reqs'[q].pc \in Going
          PROVE  Has(reqs[q].slice, i, p)' /\ (reqs'[q].pc = "running" => i < reqs'[q].slice.len)
      BY <1>1, <2>3, <2>4, <3>2 DEF Placed, Has
    <3>. QED BY <3>1, <3>2 DEF Placed
  <2>5. Own(r)'
    BY <2>3 DEF Own
  <2>. QED BY <2>4, <2>5
<1>. QED BY <1>2, <1>3 DEF FindConversation

\* What others hold of an array stays, but at the one place.
LEMMA AppendedBehind ==
  ASSUME Typed, NEW r \in Reqs, reqs[r].pc \in Unwritten,
         NEW m \in Messages, Appended(r, m),
         NEW u \in Slices, u.len <= Len(In(arrays, u)), u.array = r => u.len = 0
  PROVE  \A i \in 1..u.len : i # reqs'[r].slice.len => In(arrays', u)[i] = In(arrays, u)[i]
<1>1. \A v \in Slices :
        v.len <= Len(In(arrays, v)) /\ (v.array = r => v.len = 0 \/ v.array = reqs[r].slice.array) =>
          \A i \in 1..v.len : v.array # reqs'[r].slice.array \/ i # reqs'[r].slice.len =>
                              In(arrays', v)[i] = In(arrays, v)[i]
  BY AppendedEffect
<1>. QED BY <1>1

\* A message goes behind the answers that are placed, also for those who share
\* the array.
LEMMA AppendShared ==
  ASSUME Typed, OneByOne, Shared, NEW r \in Reqs, Acts(r), UNCHANGED <<storage, stored>>,
         reqs[r].pc \in {"append", "file"}, NEW a \in {0, r}, Appended(r, Message(r, a))
  PROVE  Shared'
<1>. SUFFICES ASSUME storage = "memory"
              PROVE  /\ Own(r)'
                     /\ \A p \in Reqs, i \in Nat \ {0} : p # r /\ Placed(p, i) => Placed(p, i)'
  BY ActsShared
<1>. DEFINE s == reqs[r].slice
            t == reqs'[r].slice
            m == Message(r, a)
<1>1. m \in Messages /\ m.answer = a /\ r # 0 /\ reqs[r] \in Requests /\ reqs[r].pc \in Unwritten
  <2>1. m \in Messages
    BY MessageType
  <2>2. m.answer = a /\ r # 0
    BY BoundsAssumption DEF Message, Reqs
  <2>. QED BY <2>1, <2>2 DEF Typed, Sliced, Unwritten
<1>2. /\ reqs'[r] = [reqs[r] EXCEPT !.slice = t, !.pc = IF m.answer = 0 THEN "running" ELSE "put"]
      /\ \A q \in Reqs : q # r => reqs'[q] = reqs[q]
      /\ t \in Slices /\ t.len = s.len + 1
      /\ t.len <= Len(In(arrays', t)) /\ In(arrays', t)[t.len] = m
      /\ \A i \in 1..s.len : In(arrays', t)[i] = In(arrays, s)[i]
  BY <1>1, AppendedEffect
<1>3. \A u \in Slices : u.len <= Len(In(arrays, u)) /\ (u.array = r => u.len = 0) =>
        \A i \in 1..u.len : i # t.len => In(arrays', u)[i] = In(arrays, u)[i]
  BY <1>1, AppendedBehind
<1>4. reqs'[r].pc = IF a = 0 THEN "running" ELSE "put"
  BY <1>1, <1>2 DEF Requests
<1>5. /\ s.len \in Nat /\ stored.slice \in Slices /\ stored.slice.len \in Nat
      /\ stored.slice.len <= Len(In(arrays, stored.slice))
      /\ \A q \in Reqs : /\ reqs[q].slice \in Slices /\ reqs[q].slice.len \in Nat
                         /\ reqs[q].slice.len <= Len(In(arrays, reqs[q].slice))
  BY DEF Typed, Sliced, Requests, Slices
<1>6. Own(r)'
  BY <1>1, <1>2, <1>4 DEF Own
<1>7. ASSUME NEW p \in Reqs, NEW i \in Nat \ {0}, Placed(p, i)
      PROVE  Placed(p, i)'
  <2>1. i \in 1..s.len /\ In(arrays, s)[i] = Message(p, p)
    BY <1>5, <1>7 DEF Placed, Has, Going
  <2>2. i # t.len /\ i < t.len
    BY <1>2, <1>5, <2>1
  <2>3. i \in 1..stored.slice.len /\ In(arrays, stored.slice)[i] = Message(p, p)
    BY <1>5, <1>7 DEF Placed, Has
  <2>4. In(arrays', stored.slice)[i] = Message(p, p)
    BY <1>1, <1>3, <1>5, <2>2, <2>3, Unshared
  <2>5. Has(stored.slice, i, p)'
    BY <2>3, <2>4 DEF Has
  <2>6. ASSUME NEW q \in Reqs, reqs'[q].pc \in Going
        PROVE  Has(reqs[q].slice, i, p)' /\ (reqs'[q].pc = "running" => i < reqs'[q].slice.len)
    <3>1. CASE q = r
      <4>1. In(arrays', t)[i] = Message(p, p)
        BY <1>2, <2>1
      <4>. QED BY <1>2, <1>5, <2>2, <3>1, <4>1 DEF Has
    <3>2. CASE q # r
      <4>1. reqs'[q] = reqs[q] /\ Has(reqs[q].slice, i, p) /\ (reqs[q].pc = "running" => i < reqs[q].slice.len)
        BY <1>2, <1>7, <2>6, <3>2 DEF Placed
      <4>2. i \in 1..reqs[q].slice.len
        BY <1>5, <4>1 DEF Has
      <4>3. In(arrays', reqs[q].slice)[i] = In(arrays, reqs[q].slice)[i]
        BY <1>1, <1>3, <1>5, <2>2, <3>2, <4>2, Unshared
      <4>. QED BY <4>1, <4>3 DEF Has
    <3>. QED BY <3>1, <3>2
  <2>. QED BY <2>5, <2>6 DEF Placed
<1>. QED BY <1>6, <1>7

\* An answer goes to the question of the request, which is behind those that are placed.
LEMMA RunShared ==
  ASSUME Typed, OneByOne, Shared, NEW r \in Reqs, RunApplication(r)
  PROVE  Shared'
<1>1. /\ Acts(r) /\ reqs[r].pc = "running" /\ UNCHANGED <<storage, stored>>
      /\ reqs[r].slice \in Slices
  BY OtherActs DEF RunApplication, Typed, Sliced, Requests
<1>2. CASE Goto(r, "failed") /\ UNCHANGED arrays
  BY <1>1, <1>2, GotoShared DEF Pcs, Going
<1>3. CASE /\ arrays' = [arrays EXCEPT ![reqs[r].slice.array][reqs[r].slice.len].answer = r]
           /\ Goto(r, "put")
  <2>. SUFFICES ASSUME storage = "memory", reqs[r].kind # "delete"
                PROVE  /\ reqs[r].alone /\ Own(r) => Own(r)'
                       /\ \A p \in Reqs, i \in Nat \ {0} : p # r /\ Placed(p, i) => Placed(p, i)'
    BY <1>1, ActsShared
  <2>. DEFINE s == reqs[r].slice
  <2>1. /\ In(arrays', s)[s.len] = [by |-> In(arrays, s)[s.len].by, answer |-> r]
        /\ Untouched(s.array, s.len)
    BY <1>1, <1>3, AnsweredEffect
  <2>2. /\ reqs'[r].pc = "put" /\ reqs'[r].slice = s
        /\ \A q \in Reqs : q # r => reqs'[q] = reqs[q]
    BY <1>3, GotoActs DEF Pcs
  <2>3. /\ s.len \in Nat /\ stored.slice \in Slices /\ stored.slice.len \in Nat
        /\ stored.slice.len <= Len(In(arrays, stored.slice))
        /\ \A q \in Reqs : /\ reqs[q].slice \in Slices /\ reqs[q].slice.len \in Nat
                           /\ reqs[q].slice.len <= Len(In(arrays, reqs[q].slice))
    BY DEF Typed, Sliced, Requests, Slices
  <2>4. Own(r) => Own(r)'
    BY <1>1, <2>1, <2>2 DEF Own, Message
  <2>5. ASSUME NEW p \in Reqs, NEW i \in Nat \ {0}, Placed(p, i)
        PROVE  Placed(p, i)'
    <3>1. i < s.len
      BY <1>1, <2>5 DEF Placed, Going
    <3>2. ASSUME NEW u \in Slices, u.len \in Nat, u.len <= Len(In(arrays, u)), Has(u, i, p)
          PROVE  i <= u.len /\ In(arrays', u)[i] = Message(p, p)
      BY <2>1, <2>3, <3>1, <3>2 DEF Untouched, Has
    <3>3. Has(stored.slice, i, p)'
      BY <1>1, <2>3, <2>5, <3>2 DEF Placed, Has
    <3>4. ASSUME NEW q \in Reqs, reqs'[q].pc \in Going
          PROVE  Has(reqs[q].slice, i, p)' /\ (reqs'[q].pc = "running" => i < reqs'[q].slice.len)
      <4>1. reqs'[q].slice = reqs[q].slice /\ reqs[q].pc \in Going
        BY <1>1, <2>2, <3>4 DEF Going
      <4>2. Has(reqs[q].slice, i, p) /\ (reqs'[q].pc = "running" => i < reqs[q].slice.len)
        BY <2>2, <2>5, <4>1 DEF Placed
      <4>. QED BY <2>3, <3>2, <4>1, <4>2 DEF Has
    <3>. QED BY <3>3, <3>4 DEF Placed
  <2>. QED BY <2>4, <2>5
<1>. QED BY <1>2, <1>3 DEF RunApplication

\* Whoever writes the conversation back writes the answers that are placed with it.
LEMMA UpdateShared ==
  ASSUME Typed, OneByOne, Shared, NEW r \in Reqs, UpdateConversation(r)
  PROVE  Shared'
<1>1. /\ Acts(r) /\ reqs[r].pc = "put" /\ UNCHANGED <<storage, arrays>>
      /\ reqs[r].slice \in Slices /\ reqs[r].slice.len <= Len(In(arrays, reqs[r].slice))
      /\ reqs[r].slice.len \in Nat \ {0}
  BY OtherActs DEF UpdateConversation, Typed, Sliced, Written, Requests, Slices
<1>2. CASE Goto(r, "failed") /\ UNCHANGED <<stored, rows>>
  BY <1>1, <1>2, GotoShared DEF Pcs, Going
<1>3. CASE Put(reqs[r].slice) /\ Goto(r, "done")
  <2>. SUFFICES ASSUME storage = "memory"
                PROVE  /\ reqs[r].alone /\ Own(r) => Own(r)'
                       /\ \A p \in Reqs, i \in Nat \ {0} : p # r /\ Placed(p, i) => Placed(p, i)'
    BY <1>1, ActsShared
  <2>. DEFINE s == reqs[r].slice
  <2>1. stored'.slice = s
    BY <1>1, <1>3, PutEffect
  <2>2. /\ reqs'[r].pc = "done"
        /\ \A q \in Reqs : q # r => reqs'[q] = reqs[q]
    BY <1>3, GotoActs DEF Pcs
  <2>3. ASSUME reqs[r].alone, Own(r), NEW n, n = s.len
        PROVE  Own(r)'
    <3>1. Has(stored.slice, n, r)'
      BY <1>1, <2>1, <2>3 DEF Has, Own
    <3>2. \A q \in Reqs : reqs'[q].pc \notin Going
      BY <1>1, <2>2, <2>3 DEF OneByOne, Active, Going
    <3>3. Placed(r, n)'
      BY <3>1, <3>2 DEF Placed
    <3>. QED BY <1>1, <2>2, <2>3, <3>3 DEF Own
  <2>4. ASSUME NEW p \in Reqs, NEW i \in Nat \ {0}, Placed(p, i)
        PROVE  Placed(p, i)'
    <3>1. Has(stored.slice, i, p)'
      BY <1>1, <2>1, <2>4 DEF Placed, Has, Going
    <3>2. ASSUME NEW q \in Reqs, reqs'[q].pc \in Going
          PROVE  Has(reqs[q].slice, i, p)' /\ (reqs'[q].pc = "running" => i < reqs'[q].slice.len)
      BY <1>1, <2>2, <2>4, <3>2 DEF Placed, Has, Going
    <3>. QED BY <3>1, <3>2 DEF Placed
  <2>. QED BY <2>3, <2>4
<1>. QED BY <1>2, <1>3 DEF UpdateConversation

LEMMA OtherShared ==
  ASSUME Typed, OneByOne, Shared, NEW r \in Reqs,
         \/ PutObject(r) \/ BuildConversationKnowledgeBase(r)
         \/ DropConversation(r) \/ DeleteKnowledgeBase(r)
  PROVE  Shared'
<1>1. Acts(r)
  BY OtherActs
<1>2. CASE PutObject(r)
  <2>1. PICK pc \in {"kb", "failed"} : Goto(r, pc)
    BY <1>2 DEF PutObject
  <2>2. reqs[r].pc = "object" /\ UNCHANGED <<storage, arrays, stored>>
    BY <1>2 DEF PutObject
  <2>. QED BY <1>1, <2>1, <2>2, GotoShared DEF Pcs, Going
<1>3. CASE BuildConversationKnowledgeBase(r)
  <2>1. Goto(r, "file") /\ reqs[r].pc = "kb" /\ UNCHANGED <<storage, arrays, stored>>
    BY <1>3 DEF BuildConversationKnowledgeBase
  <2>. QED BY <1>1, <2>1, GotoShared DEF Pcs, Going
<1>4. CASE DropConversation(r)
  <2>1. PICK pc \in {"unkb", "failed"} : Goto(r, pc)
    BY <1>4 DEF DropConversation
  <2>2. reqs[r].kind = "delete" /\ UNCHANGED <<storage, arrays>>
    BY <1>4 DEF DropConversation, OneByOne
  <2>. QED BY <1>1, <2>1, <2>2, GotoShared DEF Pcs, Going
<1>5. CASE DeleteKnowledgeBase(r)
  <2>1. PICK pc \in {"done", "failed"} : Goto(r, pc)
    BY <1>5 DEF DeleteKnowledgeBase
  <2>2. reqs[r].kind = "delete" /\ UNCHANGED <<storage, arrays, stored>>
    BY <1>5 DEF DeleteKnowledgeBase, OneByOne
  <2>. QED BY <1>1, <2>1, <2>2, GotoShared DEF Pcs, Going
<1>. QED BY <1>2, <1>3, <1>4, <1>5

LEMMA NextShared == Typed /\ OneByOne /\ Shared /\ [Next]_vars => Shared'
<1>. SUFFICES ASSUME Typed, OneByOne, Shared, [Next]_vars
              PROVE  Shared'
  OBVIOUS
<1>1. CASE UNCHANGED vars
  BY <1>1 DEF vars, Shared, Own, Placed, Has
<1>2. ASSUME NEW r \in Reqs, Request(r)
      PROVE  Shared'
  <2>1. CASE AppendQuestion(r)
    <3>1. UNCHANGED <<storage, stored>> /\ reqs[r].pc = "append" /\ Appended(r, Message(r, 0))
      BY <2>1 DEF AppendQuestion
    <3>. QED BY <2>1, <3>1, AppendShared, AppendActs
  <2>2. CASE AppendFile(r)
    <3>1. UNCHANGED <<storage, stored>> /\ reqs[r].pc = "file" /\ Appended(r, Message(r, r))
      BY <2>2 DEF AppendFile
    <3>. QED BY <2>2, <3>1, AppendShared, AppendActs
  <2>. QED BY <1>2, <2>1, <2>2, BeginsShared, FindShared, RunShared, UpdateShared, OtherShared DEF Request
<1>. QED BY <1>1, <1>2 DEF Next

\* An answer stays in the conversation: in Postgres always, in memory when the
\* request was alone, whatever overlaps after it writes the slice it has found.
THEOREM AnswersKept == Spec => []Kept
<1>1. Init => OneByOne /\ Table /\ Shared
  <2>. SUFFICES ASSUME Init PROVE OneByOne /\ Table /\ Shared
    OBVIOUS
  <2>1. rows.messages = {} /\ \A r \in Reqs : reqs[r] = NoReq
    BY DEF Init
  <2>2. NoReq.pc = "no" /\ NoReq.kind = "chat" /\ NoReq.history = <<>>
    BY DEF NoReq
  <2>. QED BY <2>1, <2>2 DEF OneByOne, Active, Table, Holding, WellTold, Going, Shared, Own
<1>2. Spec => [](Typed /\ OneByOne /\ Table /\ Shared)
  BY <1>1, InitTyped, NextTyped, NextOneByOne, NextTable, NextShared, PTL DEF Spec
<1>3. Typed /\ Table /\ Shared => Kept
  <2>. SUFFICES ASSUME Typed, Table, Shared, \A q \in Reqs : reqs[q].kind # "delete",
                       NEW r \in Reqs, reqs[r].pc = "done", storage = "postgres" \/ reqs[r].alone
                PROVE  Message(r, r) \in Current
    BY DEF Kept, Deleting
  <2>1. CASE storage = "postgres"
    BY <2>1 DEF Table, Current
  <2>2. CASE storage = "memory"
    <3>1. PICK i \in Nat \ {0} : Has(stored.slice, i, r)
      BY <2>2 DEF Shared, Own, Placed
    <3>2. stored.slice \in Slices /\ stored.slice.len \in Nat /\ stored.slice.len <= Len(In(arrays, stored.slice))
      BY DEF Typed, Sliced, Slices
    <3>3. ToSet(Content(stored.slice)) = {In(arrays, stored.slice)[j] : j \in 1..stored.slice.len}
      BY <3>2, ContentRows DEF Typed, Sliced
    <3>. QED BY <2>2, <3>1, <3>2, <3>3 DEF Has, Current
  <2>. QED BY <2>1, <2>2 DEF Typed, Others
<1>. QED BY <1>2, <1>3, PTL

-----------------------------------------------------------------------------
(* Memory: what the application is told while no two requests overlap *)

AllAlone == \A r \in Reqs : reqs[r].pc # "no" => reqs[r].alone

\* Messages with their own answers, of requests before r, in their order.
Orderly(u, r) ==
  /\ \A i \in 1..u.len : In(arrays, u)[i].answer = In(arrays, u)[i].by /\ In(arrays, u)[i].by < r
  /\ \A i, j \in 1..u.len : i < j => In(arrays, u)[i].by < In(arrays, u)[j].by

\* A request has what is stored, and its own message behind it.
Line(r) ==
  LET s == reqs[r].slice
      a == In(arrays, s) IN
  /\ reqs[r].pc \in {"append", "object", "kb", "file"} => s = stored.slice
  /\ reqs[r].pc \in {"running", "put"} =>
       /\ s.len = stored.slice.len + 1
       /\ \A i \in 1..stored.slice.len : a[i] = In(arrays, stored.slice)[i]
  /\ reqs[r].pc = "running" => a[s.len] = Message(r, 0)
  /\ reqs[r].pc = "put" => a[s.len] = Message(r, r)

Story(r) ==
  LET h == reqs[r].history IN WellTold(r) /\ \A i \in 1..(Len(h) - 1) : h[i].by < h[i + 1].by

Lined ==
  storage = "memory" /\ AllAlone =>
    \A r \in Reqs : /\ Story(r) /\ Line(r)
                    /\ reqs[r].pc = "no" \/ Active(r) => Orderly(stored.slice, r)

\* What a step of one request has to show, when the others rest.
LEMMA ActsLined ==
  ASSUME OneByOne, Lined, NEW r \in Reqs, Acts(r), storage' = storage,
         storage = "memory" /\ Story(r) /\ Line(r) /\ Orderly(stored.slice, r)
           /\ (\A q \in Reqs : q # r => ~Active(q)) =>
             /\ Story(r)' /\ Line(r)'
             /\ Active(r)' => Orderly(stored.slice, r)'
             /\ \A q \in Reqs : reqs[q].pc = "no" /\ Orderly(stored.slice, q) => Orderly(stored.slice, q)'
  PROVE  Lined'
<1>. SUFFICES ASSUME storage = "memory", AllAlone'
              PROVE  \A q \in Reqs : /\ Story(q)' /\ Line(q)'
                                     /\ (reqs[q].pc = "no" \/ Active(q))' => Orderly(stored.slice, q)'
  BY DEF Lined
<1>1. AllAlone
  BY DEF AllAlone, Acts, Active
<1>2. \A q \in Reqs : q # r => ~Active(q)
  BY <1>1 DEF AllAlone, OneByOne, Acts, Active
<1>3. Story(r) /\ Line(r) /\ Orderly(stored.slice, r)
  BY <1>1 DEF Lined, Acts
<1>4. /\ Story(r)' /\ Line(r)' /\ (Active(r)' => Orderly(stored.slice, r)')
      /\ \A q \in Reqs : reqs[q].pc = "no" /\ Orderly(stored.slice, q) => Orderly(stored.slice, q)'
  BY <1>2, <1>3
<1>5. ASSUME NEW q \in Reqs, q # r
      PROVE  /\ Story(q)' /\ Line(q)'
             /\ (reqs[q].pc = "no" \/ Active(q))' => Orderly(stored.slice, q)'
  <2>1. reqs'[q] = reqs[q] /\ ~Active(q)
    BY <1>2, <1>5 DEF Acts
  <2>2. Story(q) /\ (reqs[q].pc = "no" => Orderly(stored.slice, q))
    BY <1>1 DEF Lined
  <2>3. Story(q)'
    BY <2>1, <2>2 DEF Story, WellTold
  <2>4. Line(q)'
    BY <2>1 DEF Line, Active
  <2>. QED BY <1>4, <2>1, <2>2, <2>3, <2>4 DEF Active
<1>6. reqs'[r].pc # "no"
  BY DEF Acts
<1>. QED BY <1>4, <1>5, <1>6

\* What is stored stays in order when none of its messages changes.
LEMMA StaysOrderly ==
  ASSUME stored' = stored,
         \A i \in 1..stored.slice.len : In(arrays', stored.slice)[i] = In(arrays, stored.slice)[i],
         NEW r, Orderly(stored.slice, r)
  PROVE  Orderly(stored.slice, r)'
BY DEF Orderly

LEMMA NothingOrderly ==
  ASSUME stored'.slice = NoSlice, NEW r
  PROVE  Orderly(stored.slice, r)'
BY NoSliceType DEF Orderly

LEMMA BeginsLined ==
  ASSUME Typed, OneByOne, Lined, NEW r \in Reqs, StartNew(r) \/ Start(r)
  PROVE  Lined'
<1>1. PICK kind \in Kinds, pc \in {"append", "object", "drop", "find"} :
        Begins(r, kind, pc, NoSlice) /\ (Start(r) => pc \in {"drop", "find"})
  BY DEF StartNew, Start, Following, Kinds
<1>2. /\ reqs'[r].pc = pc /\ reqs'[r].slice = NoSlice /\ reqs'[r].history = <<>>
      /\ reqs'[r].alone <=> \A p \in Reqs : ~Active(p)
      /\ \A q \in Reqs : q # r => /\ reqs'[q].pc = reqs[q].pc /\ reqs'[q].slice = reqs[q].slice
                                  /\ reqs'[q].history = reqs[q].history
                                  /\ reqs'[q].alone <=> reqs[q].alone /\ ~Active(q)
  BY <1>1, BeginsEffect, NoSliceType DEF Typed, Sliced, Pcs
<1>3. reqs[r].pc = "no" /\ storage' = storage /\ arrays' = arrays
  BY DEF StartNew, Start, IsNext
<1>. SUFFICES ASSUME storage = "memory", AllAlone'
              PROVE  \A q \in Reqs : /\ Story(q)' /\ Line(q)'
                                     /\ (reqs[q].pc = "no" \/ Active(q))' => Orderly(stored.slice, q)'
  BY <1>3 DEF Lined
<1>4. AllAlone /\ \A q \in Reqs : ~Active(q)
  BY <1>1, <1>2, <1>3 DEF AllAlone
<1>5. \A q \in Reqs : Story(q)'
  <2>1. ASSUME NEW q \in Reqs
        PROVE  Story(q)'
    <3>1. CASE q = r
      <4>1. Len(<<>>) = 0
        BY EmptySeq
      <4>. QED BY <1>2, <3>1, <4>1 DEF Story, WellTold
    <3>2. CASE q # r
      BY <1>2, <1>3, <1>4, <3>2 DEF Story, WellTold, Lined
    <3>. QED BY <3>1, <3>2
  <2>. QED BY <2>1
<1>6. CASE Start(r)
  <2>1. stored' = stored
    BY <1>6 DEF Start
  <2>2. \A q \in Reqs : Line(q)'
    BY <1>1, <1>2, <1>4, <1>6 DEF Line, Active
  <2>3. ASSUME NEW q \in Reqs, (reqs[q].pc = "no" \/ Active(q))'
        PROVE  Orderly(stored.slice, q)'
    <3>1. reqs[q].pc = "no"
      BY <1>2, <1>3, <1>4, <2>3 DEF Active
    <3>2. Orderly(stored.slice, q)
      BY <1>4, <3>1 DEF Lined
    <3>. QED BY <1>3, <2>1, <3>2, StaysOrderly
  <2>. QED BY <1>5, <2>2, <2>3
<1>7. CASE StartNew(r)
  <2>1. stored'.slice = NoSlice
    <3>1. Put(NoSlice)
      BY <1>7 DEF StartNew
    <3>2. NoSlice.len <= Len(In(arrays, NoSlice))
      BY NoSliceType, EmptySeq DEF In
    <3>. QED BY <3>1, <3>2, NoSliceType, PutEffect
  <2>2. \A q \in Reqs : Line(q)'
    BY <1>1, <1>2, <1>4, <2>1 DEF Line, Active
  <2>. QED BY <1>5, <2>1, <2>2, NothingOrderly
<1>. QED BY <1>6, <1>7

\* A step that leaves what is stored, and its messages; the request gets no other slice.
LEMMA GotoLined ==
  ASSUME Typed, OneByOne, Lined, NEW r \in Reqs, NEW pc \in Pcs, Goto(r, pc), Acts(r),
         UNCHANGED <<storage, arrays, stored>>,
         pc \in {"append", "object", "kb", "file"} => reqs[r].pc \in {"append", "object", "kb", "file"},
         pc \notin {"running", "put"}
  PROVE  Lined'
<1>1. /\ reqs'[r].pc = pc /\ reqs'[r].slice = reqs[r].slice /\ reqs'[r].history = reqs[r].history
      /\ \A q \in Reqs : q # r => reqs'[q] = reqs[q]
  BY GotoActs
<1>. SUFFICES ASSUME Story(r), Line(r), Orderly(stored.slice, r)
              PROVE  /\ Story(r)' /\ Line(r)' /\ Orderly(stored.slice, r)'
                     /\ \A q \in Reqs : Orderly(stored.slice, q) => Orderly(stored.slice, q)'
  BY ActsLined
<1>2. Story(r)'
  BY <1>1 DEF Story, WellTold
<1>3. Line(r)'
  BY <1>1 DEF Line
<1>. QED BY <1>2, <1>3, StaysOrderly

\* What is behind the stored slice.
LEMMA StoredType ==
  ASSUME Typed
  PROVE  /\ stored.slice \in Slices /\ stored.slice.len \in Nat
         /\ stored.slice.len <= Len(In(arrays, stored.slice))
         /\ \A i \in 1..stored.slice.len : In(arrays, stored.slice)[i].by \in Nat
<1>1. /\ stored.slice \in Slices /\ stored.slice.len \in Nat
      /\ stored.slice.len <= Len(In(arrays, stored.slice)) /\ arrays \in [Reqs -> Seq(Messages)]
  BY DEF Typed, Sliced, Slices
<1>2. In(arrays, stored.slice) \in Seq(Messages) /\ Len(In(arrays, stored.slice)) \in Nat
  BY <1>1, ArrayType
<1>3. \A i \in 1..stored.slice.len : In(arrays, stored.slice)[i] \in Messages
  BY <1>1, <1>2, ElementOfSeq
<1>. QED BY <1>1, <1>3, BoundsAssumption DEF Messages

\* The application is told what is stored.
LEMMA FindLined ==
  ASSUME Typed, OneByOne, Lined, NEW r \in Reqs, FindConversation(r)
  PROVE  Lined'
<1>1. Acts(r) /\ reqs[r].pc = "find" /\ UNCHANGED <<storage, stored>>
  BY FindActs DEF FindConversation
<1>2. CASE Goto(r, "failed") /\ UNCHANGED arrays
  BY <1>1, <1>2, GotoLined DEF Pcs
<1>3. CASE Find(r, Following(reqs[r].kind))
  <2>. SUFFICES ASSUME storage = "memory", Orderly(stored.slice, r)
                PROVE  /\ Story(r)' /\ Line(r)' /\ Orderly(stored.slice, r)'
                       /\ \A q \in Reqs : Orderly(stored.slice, q) => Orderly(stored.slice, q)'
    BY <1>1, ActsLined
  <2>1. Following(reqs[r].kind) \in {"append", "object"}
    BY DEF Following
  <2>2. PICK pc \in {"append", "object"} : Find(r, pc)
    BY <1>3, <2>1
  <2>. DEFINE h == Content(stored.slice)
  <2>3. /\ arrays' = arrays /\ reqs'[r].pc = pc /\ reqs'[r].slice = stored.slice
        /\ reqs'[r].history = h
    BY <2>2, FindEffect DEF Pcs
  <2>4. /\ h \in Seq(Messages) /\ Len(h) = stored.slice.len
        /\ \A i \in 1..stored.slice.len : h[i] = In(arrays, stored.slice)[i]
    BY StoredType, ContentType DEF Typed, Sliced
  <2>. HIDE DEF h
  <2>5. DOMAIN h = 1..stored.slice.len
    BY <2>4, LenProperties
  <2>6. r \in Nat /\ \A i \in 1..stored.slice.len : h[i].by \in Nat
    BY <2>4, StoredType, BoundsAssumption DEF Reqs
  <2>7. \A i \in DOMAIN h : h[i].answer = h[i].by /\ h[i].by # r
    BY <2>4, <2>5, <2>6 DEF Orderly
  <2>8. \A i, j \in DOMAIN h : i < j => h[i].by < h[j].by
    BY <2>4, <2>5 DEF Orderly
  <2>9. \A i, j \in DOMAIN h : h[i] = h[j] => i = j
    <3>. SUFFICES ASSUME NEW i \in DOMAIN h, NEW j \in DOMAIN h, h[i] = h[j], i # j
                  PROVE  FALSE
      OBVIOUS
    <3>1. i \in Nat /\ j \in Nat /\ h[i].by \in Nat
      BY <2>5, <2>6, StoredType
    <3>2. i < j \/ j < i
      BY <3>1
    <3>. QED BY <2>8, <3>1, <3>2
  <2>10. \A i \in 1..(Len(h) - 1) : h[i].by < h[i + 1].by
    <3>. SUFFICES ASSUME NEW i \in 1..(Len(h) - 1)
                  PROVE  h[i].by < h[i + 1].by
      OBVIOUS
    <3>1. i \in DOMAIN h /\ i + 1 \in DOMAIN h /\ i < i + 1
      BY <2>4, <2>5, StoredType
    <3>. QED BY <2>8, <3>1
  <2>11. Story(r)'
    BY <2>3, <2>7, <2>9, <2>10 DEF Story, WellTold
  <2>12. Line(r)'
    BY <1>1, <2>3 DEF Line
  <2>. QED BY <1>1, <2>3, <2>11, <2>12, StaysOrderly
<1>. QED BY <1>2, <1>3 DEF FindConversation

LEMMA AppendLined ==
  ASSUME Typed, OneByOne, Lined, NEW r \in Reqs, Acts(r), UNCHANGED <<storage, stored>>,
         reqs[r].pc \in {"append", "file"}, NEW a \in {0, r}, Appended(r, Message(r, a))
  PROVE  Lined'
<1>. SUFFICES ASSUME storage = "memory", Story(r), Line(r), Orderly(stored.slice, r)
              PROVE  /\ Story(r)' /\ Line(r)' /\ Orderly(stored.slice, r)'
                     /\ \A q \in Reqs : Orderly(stored.slice, q) => Orderly(stored.slice, q)'
  BY ActsLined
<1>. DEFINE s == reqs[r].slice
            t == reqs'[r].slice
            m == Message(r, a)
<1>1. m \in Messages /\ m.answer = a /\ r # 0 /\ reqs[r] \in Requests /\ reqs[r].pc \in Unwritten
  <2>1. m \in Messages
    BY MessageType
  <2>2. m.answer = a /\ r # 0
    BY BoundsAssumption DEF Message, Reqs
  <2>. QED BY <2>1, <2>2 DEF Typed, Sliced, Unwritten
<1>2. /\ reqs'[r] = [reqs[r] EXCEPT !.slice = t, !.pc = IF m.answer = 0 THEN "running" ELSE "put"]
      /\ t.len = s.len + 1 /\ In(arrays', t)[t.len] = m
      /\ \A i \in 1..s.len : In(arrays', t)[i] = In(arrays, s)[i]
  BY <1>1, AppendedEffect
<1>3. s = stored.slice
  BY DEF Line
<1>4. \A i \in 1..stored.slice.len : i # t.len => In(arrays', stored.slice)[i] = In(arrays, stored.slice)[i]
  BY <1>1, StoredType, Unshared, AppendedBehind
<1>5. \A i \in 1..stored.slice.len : In(arrays', stored.slice)[i] = In(arrays, stored.slice)[i]
  BY <1>2, <1>3, <1>4, StoredType
<1>6. reqs'[r].pc = (IF a = 0 THEN "running" ELSE "put") /\ reqs'[r].history = reqs[r].history
  BY <1>1, <1>2 DEF Requests
<1>7. Story(r)'
  BY <1>6 DEF Story, WellTold
<1>. HIDE DEF s, t
<1>8. /\ t.len = stored'.slice.len + 1
      /\ \A i \in 1..stored'.slice.len : In(arrays', t)[i] = In(arrays', stored'.slice)[i]
  BY <1>2, <1>3, <1>5
<1>9. Line(r)'
  BY <1>1, <1>2, <1>6, <1>8 DEF Line, t
<1>. QED BY <1>5, <1>7, <1>9, StaysOrderly

LEMMA RunLined ==
  ASSUME Typed, OneByOne, Lined, NEW r \in Reqs, RunApplication(r)
  PROVE  Lined'
<1>1. /\ Acts(r) /\ reqs[r].pc = "running" /\ UNCHANGED <<storage, stored>>
      /\ reqs[r].slice \in Slices /\ reqs[r].slice.len \in Nat
      /\ reqs[r].slice.len <= Len(In(arrays, reqs[r].slice))
  BY OtherActs DEF RunApplication, Typed, Sliced, Requests, Slices
<1>2. CASE Goto(r, "failed") /\ UNCHANGED arrays
  BY <1>1, <1>2, GotoLined DEF Pcs
<1>3. CASE /\ arrays' = [arrays EXCEPT ![reqs[r].slice.array][reqs[r].slice.len].answer = r]
           /\ Goto(r, "put")
  <2>. SUFFICES ASSUME storage = "memory", Story(r), Line(r), Orderly(stored.slice, r)
                PROVE  /\ Story(r)' /\ Line(r)' /\ Orderly(stored.slice, r)'
                       /\ \A q \in Reqs : Orderly(stored.slice, q) => Orderly(stored.slice, q)'
    BY <1>1, ActsLined
  <2>. DEFINE s == reqs[r].slice
  <2>1. /\ In(arrays', s)[s.len] = [by |-> In(arrays, s)[s.len].by, answer |-> r]
        /\ Untouched(s.array, s.len)
    BY <1>1, <1>3, AnsweredEffect
  <2>2. reqs'[r].pc = "put" /\ reqs'[r].slice = s /\ reqs'[r].history = reqs[r].history
    BY <1>3, GotoActs DEF Pcs
  <2>3. /\ s.len = stored.slice.len + 1 /\ In(arrays, s)[s.len] = Message(r, 0)
        /\ \A i \in 1..stored.slice.len : In(arrays, s)[i] = In(arrays, stored.slice)[i]
    BY <1>1 DEF Line
  <2>4. ASSUME NEW u \in Slices, stored.slice.len <= u.len, u.len <= Len(In(arrays, u)), u.len \in Nat
        PROVE  \A i \in 1..stored.slice.len : In(arrays', u)[i] = In(arrays, u)[i]
    <3>. SUFFICES ASSUME NEW i \in 1..stored.slice.len
                  PROVE  In(arrays', u)[i] = In(arrays, u)[i]
      OBVIOUS
    <3>1. i \in 1..u.len /\ i # s.len
      BY <2>3, <2>4, StoredType
    <3>. HIDE DEF s
    <3>. QED BY <2>1, <2>4, <3>1 DEF Untouched
  <2>5. \A i \in 1..stored.slice.len : In(arrays', stored.slice)[i] = In(arrays, stored.slice)[i]
    BY <2>4, StoredType
  <2>6. \A i \in 1..stored.slice.len : In(arrays', s)[i] = In(arrays, s)[i]
    BY <1>1, <2>3, <2>4, StoredType
  <2>7. In(arrays', s)[s.len] = Message(r, r)
    BY <2>1, <2>3 DEF Message
  <2>8. Story(r)'
    BY <2>2 DEF Story, WellTold
  <2>. HIDE DEF s
  <2>9. /\ s.len = stored'.slice.len + 1
        /\ \A i \in 1..stored'.slice.len : In(arrays', s)[i] = In(arrays', stored'.slice)[i]
    BY <1>1, <2>3, <2>5, <2>6
  <2>10. Line(r)'
    BY <2>2, <2>7, <2>9 DEF Line
  <2>. QED BY <1>1, <2>5, <2>8, <2>10, StaysOrderly
<1>. QED BY <1>2, <1>3 DEF RunApplication

\* The message of r is behind those of the requests before it.
LEMMA UpdateLined ==
  ASSUME Typed, OneByOne, Lined, NEW r \in Reqs, UpdateConversation(r)
  PROVE  Lined'
<1>1. /\ Acts(r) /\ reqs[r].pc = "put" /\ UNCHANGED <<storage, arrays>>
      /\ reqs[r].slice \in Slices /\ reqs[r].slice.len <= Len(In(arrays, reqs[r].slice))
      /\ reqs[r].slice.len \in Nat \ {0}
  BY OtherActs DEF UpdateConversation, Typed, Sliced, Written, Requests, Slices
<1>2. CASE Goto(r, "failed") /\ UNCHANGED <<stored, rows>>
  BY <1>1, <1>2, GotoLined DEF Pcs
<1>3. CASE Put(reqs[r].slice) /\ Goto(r, "done")
  <2>. SUFFICES ASSUME storage = "memory", Story(r), Line(r), Orderly(stored.slice, r)
                PROVE  /\ Story(r)' /\ Line(r)' /\ (Active(r)' => Orderly(stored.slice, r)')
                       /\ \A q \in Reqs : reqs[q].pc = "no" => Orderly(stored.slice, q)'
    BY <1>1, ActsLined
  <2>. DEFINE s == reqs[r].slice
              a == In(arrays, s)
  <2>1. stored'.slice = s
    BY <1>1, <1>3, PutEffect
  <2>2. reqs'[r].pc = "done" /\ reqs'[r].history = reqs[r].history
    BY <1>3, GotoActs DEF Pcs
  <2>3. Story(r)' /\ Line(r)' /\ ~Active(r)'
    BY <2>2 DEF Story, WellTold, Line, Active
  <2>4. s.len = stored.slice.len + 1 /\ a[s.len] = Message(r, r)
    BY <1>1 DEF Line
  <2>5. \A i \in 1..stored.slice.len : a[i] = In(arrays, stored.slice)[i]
    BY <1>1 DEF Line
  <2>6. ASSUME NEW q \in Reqs, reqs[q].pc = "no"
        PROVE  Orderly(stored.slice, q)'
    <3>1. r < q
      <4>1. q # r /\ (q < r => q \in 1..(r - 1))
        BY <1>1, <2>6, BoundsAssumption DEF Reqs
      <4>2. ~(q < r)
        BY <1>1, <2>6, <4>1 DEF OneByOne
      <4>. QED BY <4>1, <4>2, BoundsAssumption DEF Reqs
    <3>. HIDE DEF s, a
    <3>2. r \in Nat /\ q \in Nat /\ Message(r, r).by = r /\ Message(r, r).answer = r
      BY BoundsAssumption DEF Reqs, Message
    <3>3. \A i \in 1..s.len : i \in 1..stored.slice.len \/ i = s.len
      BY <2>4, StoredType
    <3>4. \A i \in 1..stored.slice.len : a[i].by \in Nat /\ a[i].by < r /\ a[i].answer = a[i].by
      BY <2>5, StoredType DEF Orderly
    <3>5. \A i \in 1..s.len : a[i].answer = a[i].by /\ a[i].by < q
      BY <2>4, <3>1, <3>2, <3>3, <3>4
    <3>6. ASSUME NEW i \in 1..s.len, NEW j \in 1..s.len, i < j
          PROVE  a[i].by < a[j].by
      <4>1. i \in 1..stored.slice.len
        BY <2>4, <3>6, StoredType
      <4>2. CASE j = s.len
        BY <2>4, <3>2, <3>4, <4>1, <4>2
      <4>3. CASE j \in 1..stored.slice.len
        BY <2>5, <3>6, <4>1, <4>3 DEF Orderly
      <4>. QED BY <3>3, <4>2, <4>3
    <3>. QED BY <1>1, <2>1, <3>5, <3>6 DEF Orderly, a
  <2>. QED BY <2>3, <2>6
<1>. QED BY <1>2, <1>3 DEF UpdateConversation

\* A deletion leaves nothing that is stored.
LEMMA DropLined ==
  ASSUME Typed, OneByOne, Lined, NEW r \in Reqs, DropConversation(r)
  PROVE  Lined'
<1>1. Acts(r) /\ reqs[r].pc = "drop" /\ UNCHANGED <<storage, arrays>>
  BY OtherActs DEF DropConversation
<1>2. CASE Goto(r, "failed") /\ UNCHANGED <<stored, rows>>
  BY <1>1, <1>2, GotoLined DEF Pcs
<1>3. CASE Drop /\ Goto(r, "unkb")
  <2>. SUFFICES ASSUME storage = "memory", Story(r)
                PROVE  Story(r)' /\ Line(r)' /\ \A q \in Reqs : Orderly(stored.slice, q)'
    BY <1>1, ActsLined
  <2>1. stored'.slice = NoSlice
    BY <1>3, DropEffect
  <2>2. reqs'[r].pc = "unkb" /\ reqs'[r].history = reqs[r].history
    BY <1>3, GotoActs DEF Pcs
  <2>3. Story(r)' /\ Line(r)'
    BY <2>2 DEF Story, WellTold, Line
  <2>. QED BY <2>1, <2>3, NothingOrderly
<1>. QED BY <1>2, <1>3 DEF DropConversation

LEMMA FilesLined ==
  ASSUME Typed, OneByOne, Lined, NEW r \in Reqs,
         PutObject(r) \/ BuildConversationKnowledgeBase(r) \/ DeleteKnowledgeBase(r)
  PROVE  Lined'
<1>1. Acts(r) /\ UNCHANGED <<storage, arrays, stored>>
  BY OtherActs DEF PutObject, BuildConversationKnowledgeBase, DeleteKnowledgeBase
<1>2. CASE PutObject(r)
  <2>1. PICK pc \in {"kb", "failed"} : Goto(r, pc)
    BY <1>2 DEF PutObject
  <2>2. reqs[r].pc = "object"
    BY <1>2 DEF PutObject
  <2>. QED BY <1>1, <2>1, <2>2, GotoLined DEF Pcs
<1>3. CASE BuildConversationKnowledgeBase(r)
  <2>1. Goto(r, "file") /\ reqs[r].pc = "kb"
    BY <1>3 DEF BuildConversationKnowledgeBase
  <2>. QED BY <1>1, <2>1, GotoLined DEF Pcs
<1>4. CASE DeleteKnowledgeBase(r)
  <2>1. PICK pc \in {"done", "failed"} : Goto(r, pc)
    BY <1>4 DEF DeleteKnowledgeBase
  <2>. QED BY <1>1, <2>1, GotoLined DEF Pcs
<1>. QED BY <1>2, <1>3, <1>4

LEMMA NextLined == Typed /\ OneByOne /\ Lined /\ [Next]_vars => Lined'
<1>. SUFFICES ASSUME Typed, OneByOne, Lined, [Next]_vars
              PROVE  Lined'
  OBVIOUS
<1>1. CASE UNCHANGED vars
  BY <1>1 DEF vars, Lined, AllAlone, Story, WellTold, Line, Orderly, Active
<1>2. ASSUME NEW r \in Reqs, Request(r)
      PROVE  Lined'
  <2>1. CASE AppendQuestion(r)
    <3>1. UNCHANGED <<storage, stored>> /\ reqs[r].pc = "append" /\ Appended(r, Message(r, 0))
      BY <2>1 DEF AppendQuestion
    <3>. QED BY <2>1, <3>1, AppendLined, AppendActs
  <2>2. CASE AppendFile(r)
    <3>1. UNCHANGED <<storage, stored>> /\ reqs[r].pc = "file" /\ Appended(r, Message(r, r))
      BY <2>2 DEF AppendFile
    <3>. QED BY <2>2, <3>1, AppendLined, AppendActs
  <2>. QED BY <1>2, <2>1, <2>2, BeginsLined, FindLined, RunLined, UpdateLined, DropLined, FilesLined DEF Request
<1>. QED BY <1>1, <1>2 DEF Next

\* The application is told each earlier message once, with its own answer, and in
\* memory in the order of the requests, as long as these do not overlap.
THEOREM HistoriesTold == Spec => []Told
<1>1. Init => OneByOne /\ Table /\ Lined
  <2>. SUFFICES ASSUME Init PROVE OneByOne /\ Table /\ Lined
    OBVIOUS
  <2>1. /\ rows.messages = {} /\ stored.slice = NoSlice /\ NoSlice.len = 0
        /\ \A r \in Reqs : reqs[r] = NoReq
    BY NoSliceType DEF Init
  <2>2. NoReq.pc = "no" /\ NoReq.kind = "chat" /\ NoReq.history = <<>> /\ Len(<<>>) = 0
    BY EmptySeq DEF NoReq
  <2>. QED BY <2>1, <2>2
           DEF OneByOne, Active, Table, Holding, WellTold, Going, Lined, Story, Line, Orderly
<1>2. Spec => [](Typed /\ OneByOne /\ Table /\ Lined)
  BY <1>1, InitTyped, NextTyped, NextOneByOne, NextTable, NextLined, PTL DEF Spec
<1>3. Typed /\ Table /\ Lined => Told
  <2>. SUFFICES ASSUME Typed, Table, Lined,
                       storage = "postgres" \/ (\A r \in Reqs : reqs[r].pc # "no" => reqs[r].alone),
                       NEW r \in Reqs
                PROVE  WellTold(r) /\ (storage = "memory" => Story(r))
    BY DEF Told, WellTold, Story
  <2>. QED BY DEF Table, Lined, AllAlone, Story, Typed, Others
<1>. QED BY <1>2, <1>3, PTL
=============================================================================
