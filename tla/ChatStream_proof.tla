--------------------------- MODULE ChatStream_proof ---------------------------
(***************************************************************************)
(* Proofs about ChatStream, for every number of pieces and every timeout:  *)
(* type correctness, and that a stream ends for a reason.                  *)
(***************************************************************************)
EXTENDS ChatStream, SequenceTheorems, TLAPS

-----------------------------------------------------------------------------
(* Type correctness. *)

LEMMA PieceTypes ==
  /\ SetPhrase \in Pieces /\ Unstreamed \in Pieces
  /\ \A n \in Nat : n < MaxPieces => n + 1 \in Pieces
  /\ Unstreamed # SetPhrase
<1>1. SetPhrase \in Pieces /\ Unstreamed \in Pieces /\ Unstreamed # SetPhrase
  BY PiecesAssumption DEF SetPhrase, Unstreamed, Pieces
<1>2. ASSUME NEW n \in Nat, n < MaxPieces
      PROVE  n + 1 \in Pieces
  BY <1>2, PiecesAssumption DEF Pieces
<1>. QED BY <1>1, <1>2

LEMMA SeqTypes ==
  ASSUME TypeOK
  PROVE  /\ msg \in Seq(Pieces) /\ buf \in Seq(Pieces) /\ respStream \in Seq(Pieces)
         /\ streamed \in Seq(Pieces) /\ answer \in Seq(Pieces)
  BY DEF TypeOK

LEMMA InitType == Init => TypeOK
<1>1. <<>> \in Seq(Pieces) /\ Len(<<>>) <= 1
  BY EmptySeq
<1>2. 0 \in 0..MaxQuiet
  BY TimeoutsAssumption
<1>. QED BY <1>1, <1>2 DEF Init, TypeOK, Capacity

LEMMA HandleType ==
  ASSUME TypeOK, Handle
  PROVE  TypeOK'
<1>1. CASE StreamGone
  BY <1>1 DEF TypeOK, StreamGone, stream, run
<1>2. CASE StreamStep
  BY <1>2 DEF TypeOK, StreamStep, stream, run
<1>3. CASE ReceiveStop
  BY <1>3 DEF TypeOK, ReceiveStop, stream
<1>4. CASE ReceiveMsg
  <2>1. /\ Head(respStream) \in Pieces /\ Tail(respStream) \in Seq(Pieces)
        /\ Len(Tail(respStream)) <= Capacity
    BY <1>4, HeadTailProperties DEF TypeOK, ReceiveMsg, Capacity
  <2>2. <<Head(respStream)>> \in Seq(Pieces) /\ <<Head(respStream)>> # <<>>
    BY <2>1
  <2>. QED BY <1>4, <2>1, <2>2 DEF TypeOK, ReceiveMsg, run
<1>5. CASE WriteMsg
  <2>1. buf \o msg \in Seq(Pieces)
    BY ConcatProperties DEF TypeOK
  <2>. QED BY <1>5, <2>1, TimeoutsAssumption DEF TypeOK, WriteMsg, NoMsg, run
<1>. QED BY <1>1, <1>2, <1>3, <1>4, <1>5 DEF Handle

LEMMA AppRunType ==
  ASSUME TypeOK, AppRun
  PROVE  TypeOK'
<1>1. CASE GetApp
  BY <1>1 DEF TypeOK, GetApp, stream
<1>2. CASE OpenConversation
  BY <1>2 DEF TypeOK, OpenConversation, stream
<1>3. CASE StreamPiece
  <2>1. Len(streamed) + 1 \in Pieces
    BY <1>3, PieceTypes DEF TypeOK, StreamPiece
  <2>2. /\ Append(respStream, Len(streamed) + 1) \in Seq(Pieces)
        /\ Append(streamed, Len(streamed) + 1) \in Seq(Pieces)
        /\ Len(Append(respStream, Len(streamed) + 1)) <= Capacity
    BY <1>3, <2>1, AppendProperties DEF TypeOK, StreamPiece, Capacity
  <2>. QED BY <1>3, <2>2 DEF TypeOK, StreamPiece, stream
<1>4. CASE RunAnswers
  <2>1. {streamed, <<Unstreamed>>, <<>>} \subseteq Seq(Pieces)
    BY PieceTypes DEF TypeOK
  <2>. QED BY <1>4, <2>1 DEF TypeOK, RunAnswers, stream
<1>5. CASE RunFindsNothing
  <2>1. <<SetPhrase>> \in Seq(Pieces)
    BY PieceTypes
  <2>. QED BY <1>5, <2>1 DEF TypeOK, RunFindsNothing, stream
<1>6. CASE StoreAnswer
  BY <1>6 DEF TypeOK, StoreAnswer, stream
<1>7. CASE CompareAnswer
  BY <1>7 DEF TypeOK, CompareAnswer, stream
<1>8. CASE AppFails
  BY <1>8 DEF TypeOK, AppFails, stream
<1>9. CASE AppPanics
  BY <1>9 DEF TypeOK, AppPanics, stream
<1>10. CASE ReportError
  BY <1>10 DEF TypeOK, ReportError
<1>. QED BY <1>1, <1>2, <1>3, <1>4, <1>5, <1>6, <1>7, <1>8, <1>9, <1>10 DEF AppRun

LEMMA OtherType ==
  ASSUME TypeOK, LateSend \/ TickerFires \/ TimePasses \/ ClientLeaves
  PROVE  TypeOK'
<1>1. CASE LateSend
  <2>1. /\ Append(respStream, SetPhrase) \in Seq(Pieces)
        /\ Append(streamed, SetPhrase) \in Seq(Pieces)
        /\ Len(Append(respStream, SetPhrase)) <= Capacity
    BY <1>1, PieceTypes, AppendProperties DEF TypeOK, LateSend, Capacity
  <2>. QED BY <1>1, <2>1 DEF TypeOK, LateSend, stream
<1>2. CASE TickerFires
  BY <1>2 DEF TypeOK, TickerFires, stream, run
<1>3. CASE TimePasses
  <2>1. quiet + 1 \in 0..MaxQuiet
    BY <1>3, TimeoutsAssumption DEF TypeOK, TimePasses
  <2>. QED BY <1>3, <2>1 DEF TypeOK, TimePasses, stream, run
<1>4. CASE ClientLeaves
  BY <1>4 DEF TypeOK, ClientLeaves, stream, run
<1>. QED BY <1>1, <1>2, <1>3, <1>4

\* The goroutines of ChatHandler and their channels keep their types, whatever
\* the number of pieces and the timeouts.
THEOREM StreamTypeCorrect == Spec => []TypeOK
<1>1. TypeOK /\ [Next]_vars => TypeOK'
  <2>1. TypeOK /\ UNCHANGED vars => TypeOK'
    BY DEF vars, stream, run, TypeOK
  <2>. QED BY <2>1, HandleType, AppRunType, OtherType DEF Next
<1>. QED BY <1>1, InitType, PTL DEF Spec

-----------------------------------------------------------------------------
(* The inductive invariant. *)

\* Nothing is lost or overtaken between the application and the client.
InOrder == buf \o (msg \o respStream) = streamed

\* The set phrase is streamed last and by its own goroutine.
PhraseLast ==
  \A i \in 1..Len(streamed) :
    /\ streamed[i] # Unstreamed
    /\ streamed[i] = SetPhrase => late = "ended" /\ i = Len(streamed)

PhraseAfterRun == late # "none" => app \notin {"get", "open", "run"}

\* Where the answer of a run comes from.
AnswerOfRun ==
  app \in {"store", "compare", "stop", "stopped"}
  => \/ answer = <<>>
     \/ answer = <<Unstreamed>>
     \/ answer = streamed /\ late = "none"
     \/ answer = <<SetPhrase>> /\ late # "none"

StoredFirst == app \in {"compare", "stop", "stopped"} => stored = "answer"

\* Once AppRun wants to stop the stream, nothing is on its way any more.
StopsDelivered == app \in {"stop", "stopped"} => answer = <<>> \/ Delivered

ToldFirst == app \in {"failing", "failed"} => told \/ handler = "ended"

Inv ==
  /\ InOrder /\ PhraseLast /\ PhraseAfterRun /\ AnswerOfRun
  /\ StoredFirst /\ StopsDelivered /\ ToldFirst /\ EndsForAReason

-----------------------------------------------------------------------------
(* The pieces on their way. *)

LEMMA HeadThenTail ==
  ASSUME NEW S, NEW s \in Seq(S), s # <<>>
  PROVE  <<Head(s)>> \o Tail(s) = s
<1>1. /\ Head(s) \in S /\ Tail(s) \in Seq(S) /\ Len(Tail(s)) = Len(s) - 1
      /\ \A i \in 1..Len(Tail(s)) : Tail(s)[i] = s[i + 1]
  BY HeadTailProperties
<1>2. Len(s) \in Nat \ {0} /\ Head(s) = s[1]
  BY EmptySeq
<1> DEFINE h == <<Head(s)>>
<1>3. h \in Seq(S) /\ Len(h) = 1 /\ h[1] = s[1]
  BY <1>1, <1>2
<1>4. /\ h \o Tail(s) \in Seq(S)
      /\ Len(h \o Tail(s)) = Len(s)
      /\ \A i \in 1..Len(s) :
           (h \o Tail(s))[i] = IF i <= 1 THEN h[i] ELSE Tail(s)[i - 1]
  <2>. HIDE DEF h
  <2>1. /\ h \o Tail(s) \in Seq(S)
        /\ Len(h \o Tail(s)) = Len(h) + Len(Tail(s))
        /\ \A i \in 1..Len(h) + Len(Tail(s)) :
             (h \o Tail(s))[i] = IF i <= Len(h) THEN h[i] ELSE Tail(s)[i - Len(h)]
    <3>1. h \in Seq(S) /\ Tail(s) \in Seq(S)
      BY <1>1, <1>3
    <3>. QED BY <3>1, ConcatProperties, Zenon
  <2>2. Len(h) + Len(Tail(s)) = Len(s)
    BY <1>1, <1>2, <1>3
  <2>. QED BY <2>1, <2>2, <1>3
<1>5. \A i \in 1..Len(s) : (h \o Tail(s))[i] = s[i]
  <2>. HIDE DEF h
  <2>. QED BY <1>1, <1>2, <1>3, <1>4
<1>. QED BY <1>4, <1>5, SeqEqual

LEMMA SendKeepsOrder ==
  ASSUME TypeOK, NEW x \in Pieces
  PROVE  buf \o (msg \o Append(respStream, x)) = Append(buf \o (msg \o respStream), x)
<1>1. /\ <<x>> \in Seq(Pieces)
      /\ \A s \in Seq(Pieces) : Append(s, x) = s \o <<x>>
  OBVIOUS
<1>2. msg \o respStream \in Seq(Pieces) /\ buf \o (msg \o respStream) \in Seq(Pieces)
  BY SeqTypes, ConcatProperties
<1>3. msg \o (respStream \o <<x>>) = (msg \o respStream) \o <<x>>
  BY <1>1, SeqTypes, ConcatAssociative
<1>4. buf \o ((msg \o respStream) \o <<x>>) = (buf \o (msg \o respStream)) \o <<x>>
  BY <1>1, <1>2, SeqTypes, ConcatAssociative
<1>. QED BY <1>1, <1>2, <1>3, <1>4, SeqTypes

\* A client that has all that was streamed has nothing more to wait for.
LEMMA NothingElse ==
  ASSUME TypeOK, InOrder, buf = streamed
  PROVE  msg = <<>> /\ respStream = <<>>
<1>1. msg \o respStream \in Seq(Pieces)
  BY ConcatProperties DEF TypeOK
<1>2. msg \o respStream = <<>>
  BY <1>1, ConcatEqualIffEmpty DEF TypeOK, InOrder
<1>. QED BY <1>2, ConcatEqualIffEmpty DEF TypeOK

LEMMA Written ==
  ASSUME TypeOK, InOrder
  PROVE  /\ Len(buf) <= Len(streamed)
         /\ \A i \in 1..Len(buf) : buf[i] = streamed[i]
<1>1. msg \o respStream \in Seq(Pieces)
  BY ConcatProperties DEF TypeOK
<1>. QED BY <1>1, ConcatProperties, LenProperties DEF TypeOK, InOrder

\* The comparison of the goroutine: if the client has the answer of the run,
\* it has everything, although pieces are counted nowhere.
LEMMA SameIsAll ==
  ASSUME TypeOK, Inv, app = "compare", buf = answer, answer # <<>>
  PROVE  Delivered
<1>1. InOrder /\ PhraseLast /\ AnswerOfRun /\ stored = "answer"
  BY DEF Inv, StoredFirst
<1>2. CASE answer = <<Unstreamed>>
  <2>1. streamed[1] = Unstreamed /\ 1 \in 1..Len(streamed)
    BY <1>1, <1>2, Written, LenProperties DEF TypeOK
  <2>. QED BY <2>1, <1>1 DEF PhraseLast
<1>3. CASE answer = streamed /\ late = "none"
  BY <1>1, <1>3, NothingElse DEF Delivered
<1>4. CASE answer = <<SetPhrase>> /\ late # "none"
  <2>1. streamed[1] = SetPhrase /\ 1 \in 1..Len(streamed)
    BY <1>1, <1>4, Written, LenProperties DEF TypeOK
  <2>2. late = "ended" /\ Len(streamed) = 1
    BY <2>1, <1>1 DEF PhraseLast
  <2>3. streamed = buf
    BY <2>1, <2>2, <1>4, SeqEqual DEF TypeOK
  <2>. QED BY <2>2, <2>3, <1>1, NothingElse DEF Delivered
<1>. QED BY <1>1, <1>2, <1>3, <1>4 DEF AnswerOfRun

-----------------------------------------------------------------------------
(* The steps. *)

LEMMA HandleInv ==
  ASSUME TypeOK, Inv, Handle
  PROVE  Inv'
<1>. USE DEF Inv
<1>1. CASE StreamGone \/ StreamStep
  BY <1>1 DEF StreamGone, StreamStep, stream, run, InOrder, PhraseLast, PhraseAfterRun,
              AnswerOfRun, StoredFirst, StopsDelivered, ToldFirst, EndsForAReason, Delivered
<1>2. CASE ReceiveStop
  <2>1. InOrder' /\ PhraseLast' /\ PhraseAfterRun' /\ AnswerOfRun' /\ StoredFirst' /\ ToldFirst'
    BY <1>2 DEF ReceiveStop, stream, InOrder, PhraseLast, PhraseAfterRun, AnswerOfRun,
                StoredFirst, ToldFirst
  <2>2. StopsDelivered' /\ EndsForAReason'
    BY <1>2 DEF ReceiveStop, stream, StopsDelivered, ToldFirst, EndsForAReason, Delivered
  <2>. QED BY <2>1, <2>2
<1>3. CASE ReceiveMsg
  <2>1. msg = <<>>
    BY <1>3 DEF TypeOK, ReceiveMsg
  <2>2. InOrder'
    <3>1. msg' \o respStream' = respStream
      BY <1>3, HeadThenTail DEF TypeOK, ReceiveMsg
    <3>2. msg \o respStream = respStream
      BY <2>1, ConcatEmptySeq DEF TypeOK
    <3>. QED BY <1>3, <3>1, <3>2 DEF ReceiveMsg, InOrder, run
  <2>3. app \in {"stop", "stopped"} => answer = <<>>
    BY <1>3 DEF ReceiveMsg, StopsDelivered, Delivered
  <2>. QED BY <1>3, <2>2, <2>3 DEF ReceiveMsg, run, PhraseLast, PhraseAfterRun, AnswerOfRun,
                                   StoredFirst, StopsDelivered, ToldFirst, EndsForAReason
<1>4. CASE WriteMsg
  <2>1. InOrder'
    <3>1. (buf \o msg) \o respStream = buf \o (msg \o respStream)
      BY SeqTypes, ConcatAssociative
    <3>2. msg' \o respStream' = respStream
      BY <1>4, ConcatEmptySeq DEF TypeOK, WriteMsg, NoMsg
    <3>. QED BY <1>4, <3>1, <3>2 DEF WriteMsg, InOrder, run
  <2>2. app \in {"stop", "stopped"} => answer = <<>>
    BY <1>4, NothingElse DEF TypeOK, WriteMsg, StopsDelivered, Delivered
  <2>. QED BY <1>4, <2>1, <2>2 DEF WriteMsg, run, PhraseLast, PhraseAfterRun, AnswerOfRun,
                                   StoredFirst, StopsDelivered, ToldFirst, EndsForAReason
<1>. QED BY <1>1, <1>2, <1>3, <1>4 DEF Handle

\* AppRun up to its answer.
LEMMA RunInv ==
  ASSUME TypeOK, Inv, GetApp \/ OpenConversation \/ StreamPiece \/ RunAnswers \/ RunFindsNothing
  PROVE  Inv'
<1>. USE DEF Inv
<1>1. app \in {"get", "open", "run"} /\ late = "none"
  BY DEF GetApp, OpenConversation, StreamPiece, RunAnswers, RunFindsNothing, PhraseAfterRun
<1>2. app' \notin {"compare", "stop", "stopped", "failing", "failed"}
  BY <1>1 DEF GetApp, OpenConversation, StreamPiece, RunAnswers, RunFindsNothing
<1>3. StoredFirst' /\ StopsDelivered' /\ ToldFirst'
  BY <1>2 DEF StoredFirst, StopsDelivered, ToldFirst
<1>4. EndsForAReason'
  BY <1>1 DEF GetApp, OpenConversation, StreamPiece, RunAnswers, RunFindsNothing, EndsForAReason
<1>5. CASE GetApp \/ OpenConversation
  <2>1. InOrder' /\ PhraseLast' /\ PhraseAfterRun' /\ AnswerOfRun'
    BY <1>5, <1>1 DEF GetApp, OpenConversation, stream, InOrder, PhraseLast, PhraseAfterRun, AnswerOfRun
  <2>. QED BY <2>1, <1>3, <1>4
<1>6. CASE StreamPiece
  <2> DEFINE n == Len(streamed) + 1
  <2>1. n \in Pieces /\ n # Unstreamed /\ n # SetPhrase
    <3>1. Len(streamed) \in Nat /\ Len(streamed) < MaxPieces
      BY <1>6, SeqTypes, LenProperties DEF StreamPiece
    <3>2. n \in Pieces
      BY <3>1, PieceTypes
    <3>3. n # Unstreamed /\ n # SetPhrase
      BY <3>1, PiecesAssumption DEF Unstreamed, SetPhrase
    <3>. QED BY <3>2, <3>3
  <2>2. InOrder'
    <3>1. buf \o (msg \o Append(respStream, n)) = Append(buf \o (msg \o respStream), n)
      BY <2>1, SendKeepsOrder
    <3>. QED BY <1>6, <3>1 DEF StreamPiece, InOrder, stream
  <2>3. PhraseLast'
    BY <1>1, <1>6, <2>1, AppendProperties DEF TypeOK, StreamPiece, PhraseLast
  <2>4. PhraseAfterRun' /\ AnswerOfRun'
    BY <1>1, <1>6 DEF StreamPiece, PhraseAfterRun, AnswerOfRun
  <2>. QED BY <2>2, <2>3, <2>4, <1>3, <1>4
<1>7. CASE RunAnswers \/ RunFindsNothing
  <2>1. InOrder' /\ PhraseAfterRun' /\ AnswerOfRun'
    BY <1>1, <1>7 DEF RunAnswers, RunFindsNothing, stream, InOrder, PhraseAfterRun, AnswerOfRun
  <2>2. PhraseLast'
    BY <1>1, <1>7 DEF RunAnswers, RunFindsNothing, PhraseLast
  <2>. QED BY <2>1, <2>2, <1>3, <1>4
<1>. QED BY <1>5, <1>6, <1>7

\* The storing and the comparison of the answer, and the errors.
LEMMA ResultInv ==
  ASSUME TypeOK, Inv,
         StoreAnswer \/ CompareAnswer \/ AppFails \/ AppPanics \/ ReportError
  PROVE  Inv'
<1>. USE DEF Inv
<1>1. app \notin {"stop", "stopped", "failing", "failed"}
  BY DEF StoreAnswer, CompareAnswer, AppFails, AppPanics, ReportError
<1>2. InOrder' /\ PhraseLast' /\ PhraseAfterRun'
  BY DEF StoreAnswer, CompareAnswer, AppFails, AppPanics, ReportError, stream, InOrder,
         PhraseLast, PhraseAfterRun
<1>3. EndsForAReason'
  BY <1>1 DEF StoreAnswer, CompareAnswer, AppFails, AppPanics, ReportError, EndsForAReason
<1>4. AnswerOfRun' /\ StoredFirst' /\ ToldFirst'
  BY <1>1 DEF StoreAnswer, CompareAnswer, AppFails, AppPanics, ReportError, AnswerOfRun,
              StoredFirst, ToldFirst
<1>5. StopsDelivered'
  <2>1. CASE CompareAnswer /\ SameAnswer /\ answer # <<>>
    <3>1. Delivered
      BY <2>1, SameIsAll DEF CompareAnswer, SameAnswer
    <3>. QED BY <2>1, <3>1 DEF CompareAnswer, StopsDelivered, Delivered, stream
  <2>2. CASE ~(CompareAnswer /\ SameAnswer /\ answer # <<>>)
    BY <1>1, <2>2 DEF StoreAnswer, CompareAnswer, AppFails, AppPanics, ReportError, StopsDelivered
  <2>. QED BY <2>1, <2>2
<1>. QED BY <1>2, <1>3, <1>4, <1>5

LEMMA OtherInv ==
  ASSUME TypeOK, Inv, LateSend \/ TickerFires \/ TimePasses \/ ClientLeaves
  PROVE  Inv'
<1>. USE DEF Inv
<1>1. CASE LateSend
  <2>1. InOrder'
    <3>1. buf \o (msg \o Append(respStream, SetPhrase)) = Append(buf \o (msg \o respStream), SetPhrase)
      BY PieceTypes, SendKeepsOrder
    <3>. QED BY <1>1, <3>1 DEF LateSend, InOrder, stream
  <2>2. PhraseLast'
    BY <1>1, PieceTypes, AppendProperties DEF TypeOK, LateSend, PhraseLast
  <2>3. app \in {"stop", "stopped"} => answer = <<>>
    BY <1>1 DEF LateSend, StopsDelivered, Delivered
  <2>. QED BY <1>1, <2>1, <2>2, <2>3 DEF LateSend, stream, PhraseAfterRun, AnswerOfRun,
                StoredFirst, StopsDelivered, ToldFirst, EndsForAReason
<1>2. CASE TickerFires \/ TimePasses \/ ClientLeaves
  BY <1>2 DEF TickerFires, TimePasses, ClientLeaves, stream, run, InOrder, PhraseLast,
              PhraseAfterRun, AnswerOfRun, StoredFirst, StopsDelivered, ToldFirst,
              EndsForAReason, Delivered
<1>. QED BY <1>1, <1>2

\* Every stream of ChatHandler that ends was quiet for longer than the timeout,
\* ended with an error event, or gave the client the whole answer, for every
\* number of pieces, every timeout and every order of the goroutines.
THEOREM EndsWithReason == Spec => []EndsForAReason
<1>1. Init => Inv
  <2>1. <<>> \in Seq(Pieces) /\ Len(<<>>) = 0 /\ <<>> \o (<<>> \o <<>>) = <<>>
    BY EmptySeq, ConcatEmptySeq
  <2>. QED BY <2>1 DEF Init, Inv, InOrder, PhraseLast, PhraseAfterRun, AnswerOfRun,
                       StoredFirst, StopsDelivered, ToldFirst, EndsForAReason
<1>2. TypeOK /\ Inv /\ [Next]_vars => Inv'
  <2>1. Inv /\ UNCHANGED vars => Inv'
    BY DEF vars, stream, run, Inv, InOrder, PhraseLast, PhraseAfterRun, AnswerOfRun,
           StoredFirst, StopsDelivered, ToldFirst, EndsForAReason, Delivered
  <2>. QED BY <2>1, HandleInv, RunInv, ResultInv, OtherInv DEF Next, AppRun
<1>3. Inv => EndsForAReason
  BY DEF Inv
<1>. QED BY <1>1, <1>2, <1>3, StreamTypeCorrect, PTL DEF Spec
=============================================================================
