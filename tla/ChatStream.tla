------------------------------ MODULE ChatStream ------------------------------
(***************************************************************************)
(* One streaming chat request (apiserver/service/chat.go, ChatHandler).    *)
(* Four goroutines: the handler, which copies the pieces of the answer     *)
(* from the channel respStream to the client; AppRun, which runs the       *)
(* application; a ticker, which ends a stream that has been quiet for too  *)
(* long; and, when the retriever finds no document, one that sends the     *)
(* application's set phrase. AppRun and the ticker end the stream through  *)
(* manualStop, a channel without a buffer: a send on it is one step with   *)
(* the handler's receive. The client may leave at any time.                *)
(***************************************************************************)
EXTENDS Naturals, Sequences

CONSTANTS
  MaxPieces,       \* pieces the application streams at most
  InitialTimeout,  \* WaitTimeoutForChatStreaming, until the application is read
  Timeouts,        \* values of the application's chatTimeoutSecond
  MaxQuiet         \* the clock stops counting here

ASSUME PiecesAssumption   == MaxPieces \in Nat
ASSUME TimeoutsAssumption ==
  /\ InitialTimeout \in Nat /\ Timeouts \subseteq Nat \ {0} /\ Timeouts # {}
  /\ MaxQuiet \in Nat
  /\ \A t \in Timeouts \cup {InitialTimeout} : t < MaxQuiet

VARIABLES
  client,      \* "there" or "gone", as CloseNotify has it
  handler,     \* the handler: "loop", "select", "write", "gone" or "ended"
  msg,         \* the piece the handler has taken, if any
  buf,         \* the pieces written to the client, in order
  told,        \* an error event was written to the client
  respStream,  \* the channel of the pieces
  app,         \* the goroutine of AppRun
  streamed,    \* the pieces sent on respStream
  answer,      \* the answer that AppRun returns, as pieces
  stored,      \* what the storage has: "nothing", "conversation", "answer"
  late,        \* the goroutine of the set phrase: "none", "send", "ended"
  ticker,      \* the ticker's goroutine: "watch", "stop", "stopped"
  timeout,     \* chatTimeoutSecond
  quiet        \* time since LatestTimestampGetDataFromLLM

stream == <<msg, buf, told>>
run    == <<app, streamed, answer, stored>>
vars   == <<client, handler, stream, respStream, run, late, ticker, timeout, quiet>>

-----------------------------------------------------------------------------
(* Data: the nth piece is n. An answer may also be the set phrase, or one  *)
(* that was not streamed. Pieces are not blank.                            *)

Capacity  == 1                         \* of respStream
SetPhrase == 0
Unstreamed == MaxPieces + 1
Pieces    == 0..(MaxPieces + 1)

Init ==
  /\ client = "there"
  /\ handler = "loop" /\ msg = <<>> /\ buf = <<>> /\ told = FALSE
  /\ respStream = <<>>
  /\ app = "get" /\ streamed = <<>> /\ answer = <<>>
  /\ stored \in {"nothing", "conversation"}    \* a new chat, or one that goes on
  /\ late = "none"
  /\ ticker = "watch" /\ timeout = InitialTimeout /\ quiet = 0

-----------------------------------------------------------------------------
(* The handler: gin's Stream and the function it calls for each piece. *)

\* The client is gone: the handler wants to stop what only it would receive.
StreamGone ==
  /\ handler = "loop" /\ client = "gone"
  /\ handler' = "gone"
  /\ UNCHANGED <<client, stream, respStream, run, late, ticker, timeout, quiet>>

StreamStep ==
  /\ handler = "loop" /\ client = "there"
  /\ handler' = "select"
  /\ UNCHANGED <<client, stream, respStream, run, late, ticker, timeout, quiet>>

\* manualStop: a sender and the handler go on together, and the stream ends.
ReceiveStop ==
  /\ handler = "select"
  /\ \/ app = "stop" /\ app' = "stopped" /\ UNCHANGED ticker
     \/ app = "failing" /\ app' = "failed" /\ UNCHANGED ticker
     \/ ticker = "stop" /\ ticker' = "stopped" /\ UNCHANGED app
  /\ handler' = "ended"
  /\ UNCHANGED <<client, stream, respStream, streamed, answer, stored, late, timeout, quiet>>

ReceiveMsg ==
  /\ handler = "select" /\ respStream # <<>>
  /\ msg' = <<Head(respStream)>> /\ respStream' = Tail(respStream)
  /\ handler' = "write"
  /\ UNCHANGED <<client, buf, told, run, late, ticker, timeout, quiet>>

\* Mutant: the handler keeps the piece.
KeepsMsg == msg
NoMsg == <<>>

\* The event is written, the timestamp taken and buf extended.
WriteMsg ==
  /\ handler = "write"
  /\ buf' = buf \o msg /\ msg' = NoMsg
  /\ quiet' = 0
  /\ handler' = "loop"
  /\ UNCHANGED <<client, told, respStream, run, late, ticker, timeout>>

-----------------------------------------------------------------------------
(* AppRun and what its goroutine does with the result *)

\* The application is read, and its timeout replaces the initial one.
GetApp ==
  /\ app = "get"
  /\ timeout' \in Timeouts
  /\ app' = "open"
  /\ UNCHANGED <<client, handler, stream, respStream, streamed, answer, stored, late, ticker, quiet>>

\* The conversation is found, or a new one stored; the graph is built.
OpenConversation ==
  /\ app = "open"
  /\ stored' = "conversation"
  /\ app' = "run"
  /\ UNCHANGED <<client, handler, stream, respStream, streamed, answer, late, ticker, timeout, quiet>>

\* The model's next piece; the send waits for room, whatever has become of
\* the request.
StreamPiece ==
  /\ app = "run"
  /\ Len(streamed) < MaxPieces /\ Len(respStream) < Capacity
  /\ respStream' = Append(respStream, Len(streamed) + 1)
  /\ streamed' = Append(streamed, Len(streamed) + 1)
  /\ UNCHANGED <<client, handler, stream, app, answer, stored, late, ticker, timeout, quiet>>

\* Run ends with the streamed answer, with one asked for again without
\* streaming, or with none: a node panicked and Run recovered.
RunAnswers ==
  /\ app = "run"
  /\ answer' \in {streamed, <<Unstreamed>>, <<>>}
  /\ app' = "store"
  /\ UNCHANGED <<client, handler, stream, respStream, streamed, stored, late, ticker, timeout, quiet>>

\* No document was found: the set phrase is the answer, and is sent by a
\* goroutine of its own.
RunFindsNothing ==
  /\ app = "run"
  /\ answer' = <<SetPhrase>> /\ late' = "send"
  /\ app' = "store"
  /\ UNCHANGED <<client, handler, stream, respStream, streamed, stored, ticker, timeout, quiet>>

LateSend ==
  /\ late = "send" /\ Len(respStream) < Capacity
  /\ respStream' = Append(respStream, SetPhrase)
  /\ streamed' = Append(streamed, SetPhrase)
  /\ late' = "ended"
  /\ UNCHANGED <<client, handler, stream, app, answer, stored, ticker, timeout, quiet>>

StoreAnswer ==
  /\ app = "store"
  /\ stored' = "answer"
  /\ app' = "compare"
  /\ UNCHANGED <<client, handler, stream, respStream, streamed, answer, late, ticker, timeout, quiet>>

\* Mutant: the stream is stopped without a look at what was written.
AnyAnswer == TRUE
SameAnswer == answer = buf

\* Only if the client has the whole answer is the stream stopped. Otherwise
\* nothing stops it but the ticker.
CompareAnswer ==
  /\ app = "compare"
  /\ app' = IF SameAnswer THEN "stop" ELSE "ended"
  /\ UNCHANGED <<client, handler, stream, respStream, streamed, answer, stored, late, ticker, timeout, quiet>>

\* The application, the storage or the run fails.
AppFails ==
  /\ app \in {"get", "open", "run", "store"}
  /\ app' = "error"
  /\ UNCHANGED <<client, handler, stream, respStream, streamed, answer, stored, late, ticker, timeout, quiet>>

\* The goroutine recovers from a panic, and ends.
AppPanics ==
  /\ app \in {"get", "open", "run", "store"}
  /\ app' = "ended"
  /\ UNCHANGED <<client, handler, stream, respStream, streamed, answer, stored, late, ticker, timeout, quiet>>

\* The goroutine writes the error event itself; a response that has ended
\* does not take it.
ReportError ==
  /\ app = "error"
  /\ told' = (told \/ handler # "ended")
  /\ app' = "failing"
  /\ UNCHANGED <<client, handler, msg, buf, respStream, streamed, answer, stored, late, ticker, timeout, quiet>>

-----------------------------------------------------------------------------
(* The ticker, the clock and the client *)

\* Mutant: a stream is not ended before its application has answered.
QuietAfterRun == quiet > timeout /\ app = "ended"
TooQuiet == quiet > timeout

\* The deferred ticker.Stop leaves the goroutine waiting for ever.
TickerFires ==
  /\ ticker = "watch" /\ handler # "ended"
  /\ TooQuiet
  /\ ticker' = "stop"
  /\ UNCHANGED <<client, handler, stream, respStream, run, late, timeout, quiet>>

TimePasses ==
  /\ quiet < MaxQuiet
  /\ quiet' = quiet + 1
  /\ UNCHANGED <<client, handler, stream, respStream, run, late, ticker, timeout>>

ClientLeaves ==
  /\ client = "there" /\ handler # "ended"
  /\ client' = "gone"
  /\ UNCHANGED <<handler, stream, respStream, run, late, ticker, timeout, quiet>>

-----------------------------------------------------------------------------

Handle == StreamGone \/ StreamStep \/ ReceiveStop \/ ReceiveMsg \/ WriteMsg

AppRun ==
  \/ GetApp \/ OpenConversation \/ StreamPiece \/ RunAnswers \/ RunFindsNothing
  \/ StoreAnswer \/ CompareAnswer \/ AppFails \/ AppPanics \/ ReportError

Next == Handle \/ AppRun \/ LateSend \/ TickerFires \/ TimePasses \/ ClientLeaves

Spec == Init /\ [][Next]_vars

\* The handler and the ticker run on and time passes. Nothing is assumed of
\* AppRun: a model, a storage or the channel may keep it for ever.
FairSpec == Spec /\ WF_vars(Handle) /\ WF_vars(TickerFires) /\ WF_vars(TimePasses)

-----------------------------------------------------------------------------
(* Properties *)

\* The goroutines of ChatHandler are at their points, the channel respStream
\* keeps its capacity, and the handler holds a piece only while it writes it.
TypeOK ==
  /\ client \in {"there", "gone"}
  /\ handler \in {"loop", "select", "write", "gone", "ended"}
  /\ app \in {"get", "open", "run", "store", "compare", "stop", "stopped", "error",
              "failing", "failed", "ended"}
  /\ late \in {"none", "send", "ended"}
  /\ ticker \in {"watch", "stop", "stopped"}
  /\ stored \in {"nothing", "conversation", "answer"}
  /\ told \in BOOLEAN
  /\ {msg, buf, respStream, streamed, answer} \subseteq Seq(Pieces)
  /\ Len(respStream) <= Capacity
  /\ msg # <<>> <=> handler = "write"
  /\ timeout \in Timeouts \cup {InitialTimeout}
  /\ quiet \in 0..MaxQuiet

\* The client has the whole answer, nothing more is on its way to it, and the
\* conversation keeps the answer.
Delivered ==
  /\ buf = answer /\ buf = streamed
  /\ respStream = <<>> /\ late # "send"
  /\ stored = "answer"

\* A stream ends for one of three reasons: it was quiet for too long, the
\* client was told an error, or the client has the whole answer, which is also
\* stored, and no piece is lost in the channel or in a goroutine (an empty
\* answer excepted, which Run returns when it recovers from a panic). The
\* comparison of chat.go:122 races with the pieces on their way.
EndsForAReason ==
  handler = "ended"
  => \/ ticker = "stopped"
     \/ app = "failed" /\ told
     \/ app = "stopped" /\ (answer = <<>> \/ Delivered)

\* The handler returns whatever the application does, unless the client leaves.
Closes == <>(handler = "ended" \/ client = "gone")

\* chat.go:129 says that the ticker closes the entire stream when no data
\* comes; it does not when the client has left.
EntireStreamCloses == <>(handler = "ended")
=============================================================================
