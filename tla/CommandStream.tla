---------------------------- MODULE CommandStream ----------------------------
(***************************************************************************)
(* A CommandHandle (command_handle.go): the goroutine of startStream, the  *)
(* three bounded output channels it feeds, the calls of Wait and the       *)
(* readers of the channels.  envd and the connection are the environment.  *)
(*                                                                         *)
(* A chunk of output is named by its position on its stream: chunk n is    *)
(* the n-th one envd sent there.  The accumulated bytes h.stdout and       *)
(* h.stderr only grow at the end, so each is the number of chunks in it.   *)
(***************************************************************************)
EXTENDS Naturals, Sequences, FiniteSets

CONSTANTS Callers,    \* the calls of Wait, the one inside Commands.Run included
          Streams,    \* the streams envd sends output on
          Callbacks,  \* the streams with an OnStdout or OnStderr callback
          Cap,        \* capacity of an output channel (32 in the code)
          MaxChunks,  \* bound: chunks envd sends on a stream
          Codes,      \* exit codes of the process
          NoResult    \* h.result is nil

AllStreams == {"stdout", "stderr", "pty"}
Kept       == {"stdout", "stderr"}        \* the streams the handle accumulates

ASSUME ConstantsOK ==
    /\ Streams \subseteq AllStreams
    /\ Callbacks \subseteq Streams \cap Kept
    /\ Cap \in Nat \ {0}
    /\ MaxChunks \in Nat
    /\ Codes \subseteq Nat
    /\ NoResult \notin Codes

VARIABLES
    pc,       \* where the goroutine of startStream is
    ev,       \* the event, or the stream error, it is handling
    conn,     \* the connection: "open", or how it was lost
    phase,    \* what envd has sent: "open" nothing, "started", "ended"
    sent,     \* sent[s]: the chunks received on s
    buf,      \* h.stdout and h.stderr
    result,   \* h.result: an exit code or NoResult
    doneErr,  \* h.doneErr
    done,     \* h.done is closed
    chan,     \* the output channels
    closed,   \* the output channels that are closed
    got,      \* got[s]: what the reader of channel s received
    ended,    \* the streams whose reader saw the channel close
    wait,     \* wait[c]: where call c is in Wait
    expired,  \* the calls whose context has ended
    answer    \* answer[c]: what call c returned

handle  == <<pc, ev, phase, sent, buf, result, doneErr, done, chan, closed>>
readers == <<got, ended>>
waiters == <<wait, expired, answer>>
vars    == <<handle, conn, readers, waiters>>

-------------------------------------------------------------------------------
(* Values                                                                  *)

NoErr   == "nil"
NoEvent == [type |-> "none"]

StreamErrs == {"canceled", "unavailable", "internal"}

(* mapConnectErr: an ended context, a cancelled and an unreachable server are all a TimeoutError. *)
(* The kinds that it makes of the other codes stand here as one, and as the fallback does.        *)
MapConnectErr(e) == IF e \in {"canceled", "unavailable"} THEN "TimeoutError" ELSE "SandboxError"

Events == {NoEvent} \cup [type : {"data"}, on : Streams, chunk : 1..MaxChunks]
                    \cup [type : {"end"}, code : Codes]
                    \cup [type : {"error"}, err : StreamErrs]

Failed(e)        == [kind |-> "error", err |-> e]
Exited(code, o, e) == [kind |-> IF code = 0 THEN "ok" ELSE "exitError",
                       code |-> code, stdout |-> o, stderr |-> e]
Pending          == [kind |-> "pending"]
TimedOut         == Failed("TimeoutError")
EndedWithNoResult == Failed("SandboxError")

Outcomes == [kind : {"error"}, err : {"TimeoutError", "SandboxError"}]
            \cup {Exited(k, o, e) : k \in Codes, o \in 0..MaxChunks, e \in 0..MaxChunks}

(* What Wait returns once done is closed, read under the mutex: an error of the stream first. *)
Outcome == IF doneErr # NoErr THEN Failed(doneErr)
           ELSE IF result = NoResult THEN EndedWithNoResult
           ELSE Exited(result, buf["stdout"], buf["stderr"])

\* Mutant: one place of the channel stays unused.
FullOneEarly(s) == Len(chan[s]) >= Cap - 1

Full(s) == Len(chan[s]) = Cap

-------------------------------------------------------------------------------
Init == /\ pc = "receive"
        /\ ev = NoEvent
        /\ conn = "open"
        /\ phase = "open"
        /\ sent = [s \in Streams |-> 0]
        /\ buf = [s \in Kept |-> 0]
        /\ result = NoResult
        /\ doneErr = NoErr
        /\ done = FALSE
        /\ chan = [s \in Streams |-> <<>>]
        /\ closed = {}
        /\ got = [s \in Streams |-> <<>>]
        /\ ended = {}
        /\ wait = [c \in Callers |-> "idle"]
        /\ expired = {}
        /\ answer = [c \in Callers |-> Pending]

-------------------------------------------------------------------------------
(* The goroutine: the receive loop.  A keepalive, an empty message and an  *)
(* event of no known type change nothing, so they are stuttering steps.    *)

ReceiveStart ==
    /\ pc = "receive" /\ conn = "open" /\ phase = "open"
    /\ phase' = "started"
    /\ UNCHANGED <<pc, ev, conn, sent, buf, result, doneErr, done, chan, closed, readers, waiters>>

ReceiveData(s) ==
    /\ pc = "receive" /\ conn = "open" /\ phase = "started"
    /\ sent[s] < MaxChunks
    /\ sent' = [sent EXCEPT ![s] = @ + 1]
    /\ ev' = [type |-> "data", on |-> s, chunk |-> sent[s] + 1]
    /\ pc' = IF s \in Kept THEN "append" ELSE "send"
    /\ UNCHANGED <<conn, phase, buf, result, doneErr, done, chan, closed, readers, waiters>>

ReceiveEnd(code) ==
    /\ pc = "receive" /\ conn = "open" /\ phase = "started"
    /\ phase' = "ended"
    /\ ev' = [type |-> "end", code |-> code]
    /\ pc' = "setResult"
    /\ UNCHANGED <<conn, sent, buf, result, doneErr, done, chan, closed, readers, waiters>>

(* Receive returns false with no error (or io.EOF): the server ended the stream. *)
ReceiveEOF ==
    /\ pc = "receive" /\ conn = "open"
    /\ pc' = "closeDone"
    /\ UNCHANGED <<ev, conn, phase, sent, buf, result, doneErr, done, chan, closed, readers, waiters>>

(* Receive returns false and Err is the reason. *)
ReceiveErr ==
    /\ pc = "receive" /\ conn # "open"
    /\ ev' = [type |-> "error", err |-> conn]
    /\ pc' = "setErr"
    /\ UNCHANGED <<conn, phase, sent, buf, result, doneErr, done, chan, closed, readers, waiters>>

\* Mutant: output the channel has no room for is not accumulated either.
AppendChunkIfSent ==
    /\ pc = "append"
    /\ IF Full(ev.on) THEN UNCHANGED buf ELSE buf' = [buf EXCEPT ![ev.on] = @ + 1]
    /\ pc' = IF ev.on \in Callbacks THEN "callback" ELSE "send"
    /\ UNCHANGED <<ev, conn, phase, sent, result, doneErr, done, chan, closed, readers, waiters>>

\* Mutant: the chunk is sent under the mutex, and once more after the callback.
AppendAndSend ==
    /\ pc = "append"
    /\ buf' = [buf EXCEPT ![ev.on] = @ + 1]
    /\ chan' = IF Full(ev.on) THEN chan ELSE [chan EXCEPT ![ev.on] = Append(@, ev.chunk)]
    /\ pc' = IF ev.on \in Callbacks THEN "callback" ELSE "send"
    /\ UNCHANGED <<ev, conn, phase, sent, result, doneErr, done, closed, readers, waiters>>

\* Mutant: the chunk is sent before it is accumulated.
SendThenAppend ==
    /\ pc = "append"
    /\ IF chan[ev.on] # <<>> /\ chan[ev.on][Len(chan[ev.on])] = ev.chunk
       THEN /\ buf' = [buf EXCEPT ![ev.on] = @ + 1]
            /\ ev' = NoEvent
            /\ pc' = "receive"
            /\ UNCHANGED chan
       ELSE /\ chan' = IF Full(ev.on) THEN chan ELSE [chan EXCEPT ![ev.on] = Append(@, ev.chunk)]
            /\ UNCHANGED <<buf, ev, pc>>
    /\ UNCHANGED <<conn, phase, sent, result, doneErr, done, closed, readers, waiters>>

(* The accumulated bytes grow under the mutex, before anybody is told of the chunk. *)
AppendChunk ==
    /\ pc = "append"
    /\ buf' = [buf EXCEPT ![ev.on] = @ + 1]
    /\ pc' = IF ev.on \in Callbacks THEN "callback" ELSE "send"
    /\ UNCHANGED <<ev, conn, phase, sent, result, doneErr, done, chan, closed, readers, waiters>>

(* The user's callback runs on the goroutine, without the mutex, and returns. *)
Callback ==
    /\ pc = "callback"
    /\ pc' = "send"
    /\ UNCHANGED <<ev, conn, phase, sent, buf, result, doneErr, done, chan, closed, readers, waiters>>

\* Mutant: a plain channel send, which waits for room.
SendChunkBlocking ==
    /\ pc = "send"
    /\ ~Full(ev.on)
    /\ chan' = [chan EXCEPT ![ev.on] = Append(@, ev.chunk)]
    /\ ev' = NoEvent
    /\ pc' = "receive"
    /\ UNCHANGED <<conn, phase, sent, buf, result, doneErr, done, closed, readers, waiters>>

(* select { case ch <- chunk: default: }: a chunk that finds the channel full is dropped. *)
SendChunk ==
    /\ pc = "send"
    /\ IF Full(ev.on) THEN UNCHANGED chan
       ELSE chan' = [chan EXCEPT ![ev.on] = Append(@, ev.chunk)]
    /\ ev' = NoEvent
    /\ pc' = "receive"
    /\ UNCHANGED <<conn, phase, sent, buf, result, doneErr, done, closed, readers, waiters>>

(* The loop goes on after the End event. *)
SetResult ==
    /\ pc = "setResult"
    /\ result' = ev.code
    /\ ev' = NoEvent
    /\ pc' = "receive"
    /\ UNCHANGED <<conn, phase, sent, buf, doneErr, done, chan, closed, readers, waiters>>

SetErr ==
    /\ pc = "setErr"
    /\ doneErr' = MapConnectErr(ev.err)
    /\ ev' = NoEvent
    /\ pc' = "closeDone"
    /\ UNCHANGED <<conn, phase, sent, buf, result, done, chan, closed, readers, waiters>>

\* Mutant: done is closed when the stream fails, before the error is stored.
CloseDoneBeforeErr ==
    /\ pc = "closeDone" \/ (pc = "setErr" /\ ~done)
    /\ done' = TRUE
    /\ pc' = IF pc = "setErr" THEN pc ELSE "closePty"
    /\ UNCHANGED <<ev, conn, phase, sent, buf, result, doneErr, chan, closed, readers, waiters>>

\* Mutant: the channels are closed before done.
CloseDoneLast ==
    /\ pc = "closeDone"
    /\ IF closed = AllStreams THEN /\ done' = TRUE
                                   /\ pc' = "exited"
                                   /\ UNCHANGED closed
       ELSE /\ closed' = AllStreams
            /\ UNCHANGED <<pc, done>>
    /\ UNCHANGED <<ev, conn, phase, sent, buf, result, doneErr, chan, readers, waiters>>

(* The deferred closes run last in, first out: done, then pty, stderr and stdout. *)
CloseDone ==
    /\ pc = "closeDone"
    /\ done' = TRUE
    /\ pc' = "closePty"
    /\ UNCHANGED <<ev, conn, phase, sent, buf, result, doneErr, chan, closed, readers, waiters>>

CloseChan(at, s, next) ==
    /\ pc = at
    /\ closed' = closed \cup {s}
    /\ pc' = next
    /\ UNCHANGED <<ev, conn, phase, sent, buf, result, doneErr, done, chan, readers, waiters>>

\* Mutant: the channel of standard output is left open.
CloseAllButStdout == \/ CloseChan("closePty", "pty", "closeStderr")
                     \/ CloseChan("closeStderr", "stderr", "exited")

CloseChannels == \/ CloseChan("closePty", "pty", "closeStderr")
                 \/ CloseChan("closeStderr", "stderr", "closeStdout")
                 \/ CloseChan("closeStdout", "stdout", "exited")

(* The steps of the goroutine that wait for nobody. *)
Work == AppendChunk \/ Callback \/ SendChunk \/ SetResult \/ SetErr \/ CloseDone \/ CloseChannels

-------------------------------------------------------------------------------
(* The environment: the connection is lost, the command's context ends, or *)
(* the HTTP client's request timeout fires (config.go httpClient).         *)

LoseConnection(e) ==
    /\ conn = "open"
    /\ conn' = e
    /\ UNCHANGED <<handle, readers, waiters>>

-------------------------------------------------------------------------------
(* The reader of each channel: for x := range ch.                          *)

ReadChunk(s) ==
    /\ chan[s] # <<>>
    /\ got' = [got EXCEPT ![s] = Append(@, Head(chan[s]))]
    /\ chan' = [chan EXCEPT ![s] = Tail(@)]
    /\ UNCHANGED <<pc, ev, conn, phase, sent, buf, result, doneErr, done, closed, ended, waiters>>

ReadClose(s) ==
    /\ chan[s] = <<>> /\ s \in closed
    /\ s \notin ended
    /\ ended' = ended \cup {s}
    /\ UNCHANGED <<handle, conn, got, waiters>>

-------------------------------------------------------------------------------
(* Wait                                                                    *)

StartWait(c) ==
    /\ wait[c] = "idle"
    /\ wait' = [wait EXCEPT ![c] = "select"]
    /\ UNCHANGED <<handle, conn, readers, expired, answer>>

ContextEnds(c) ==
    /\ c \notin expired
    /\ expired' = expired \cup {c}
    /\ UNCHANGED <<handle, conn, readers, wait, answer>>

(* When both cases of the select are ready Go takes either. *)
SelectDone(c) ==
    /\ wait[c] = "select" /\ done
    /\ wait' = [wait EXCEPT ![c] = "read"]
    /\ UNCHANGED <<handle, conn, readers, expired, answer>>

SelectContext(c) ==
    /\ wait[c] = "select" /\ c \in expired
    /\ wait' = [wait EXCEPT ![c] = "returned"]
    /\ answer' = [answer EXCEPT ![c] = TimedOut]
    /\ UNCHANGED <<handle, conn, readers, expired>>

ReadOutcome(c) ==
    /\ wait[c] = "read"
    /\ wait' = [wait EXCEPT ![c] = "returned"]
    /\ answer' = [answer EXCEPT ![c] = Outcome]
    /\ UNCHANGED <<handle, conn, readers, expired>>

WaitStep(c) == SelectDone(c) \/ SelectContext(c) \/ ReadOutcome(c)

-------------------------------------------------------------------------------
Receive == \/ ReceiveStart
           \/ \E s \in Streams : ReceiveData(s)
           \/ \E k \in Codes : ReceiveEnd(k)
           \/ ReceiveEOF
           \/ ReceiveErr

Next == \/ Receive
        \/ Work
        \/ \E e \in StreamErrs : LoseConnection(e)
        \/ \E s \in Streams : ReadChunk(s) \/ ReadClose(s)
        \/ \E c \in Callers : StartWait(c) \/ ContextEnds(c) \/ WaitStep(c)

Spec == Init /\ [][Next]_vars

(***************************************************************************)
(* Fairness: the goroutines that can run do run; the connection does not   *)
(* last for ever, because the default HTTP client bounds every request,    *)
(* the body of a stream included, by RequestTimeout.  Nothing is assumed   *)
(* of envd's events, of the contexts of the callers or of the readers.     *)
(***************************************************************************)
FairSpec == /\ Spec
            /\ WF_vars(Work)
            /\ WF_vars(ReceiveErr)
            /\ WF_vars(\E e \in StreamErrs : LoseConnection(e))
            /\ \A c \in Callers : WF_vars(WaitStep(c))
-------------------------------------------------------------------------------
(* Properties                                                              *)

(* Every variable keeps to the values the code can give it. *)
TypeOK ==
    /\ pc \in {"receive", "append", "callback", "send", "setResult", "setErr",
               "closeDone", "closePty", "closeStderr", "closeStdout", "exited"}
    /\ ev \in Events
    /\ conn \in StreamErrs \cup {"open"}
    /\ phase \in {"open", "started", "ended"}
    /\ sent \in [Streams -> 0..MaxChunks]
    /\ buf \in [Kept -> 0..MaxChunks]
    /\ result \in Codes \cup {NoResult}
    /\ doneErr \in {NoErr, "TimeoutError", "SandboxError"}
    /\ done \in BOOLEAN
    /\ chan \in [Streams -> Seq(1..MaxChunks)]
    /\ closed \subseteq AllStreams
    /\ got \in [Streams -> Seq(1..MaxChunks)]
    /\ ended \subseteq Streams
    /\ wait \in [Callers -> {"idle", "select", "read", "returned"}]
    /\ expired \subseteq Callers
    /\ answer \in [Callers -> Outcomes \cup {Pending}]

(* What left the goroutine on channel s, in the order it left: read already, or still queued. *)
Seen(s) == got[s] \o chan[s]

(* A reader of a channel sees chunks in the order envd sent them, none of *)
(* them twice, although chunks that find the channel full are dropped.    *)
ReadersSeeOutputInOrder ==
    \A s \in Streams : \A i, j \in DOMAIN Seen(s) : i < j => Seen(s)[i] < Seen(s)[j]

(* A chunk that reached a reader, or waits in a channel, is already part *)
(* of the output that Wait returns.                                      *)
ReadersNeverAheadOfWait ==
    \A s \in Streams \cap Kept : \A i \in DOMAIN Seen(s) : Seen(s)[i] <= buf[s]

(* The first Cap chunks of a stream are never dropped, whether or not      *)
(* anybody reads: a command with little output can be read after it ended. *)
FirstChunksKept ==
    \A s \in Streams : \A i \in 1..Cap :
        (i <= sent[s] /\ ~(ev.type = "data" /\ ev.on = s /\ ev.chunk = i))
            => i \in DOMAIN Seen(s) /\ Seen(s)[i] = i

(* Whoever ranged over a channel to its end may call Wait at once: it does not block. *)
ClosedChannelMeansDone == closed # {} => done

(* A Wait that reports an exit code reports all the output envd sent, *)
(* however much of it the channels dropped.                           *)
ExitCarriesAllOutput ==
    \A c \in Callers : answer[c].kind \in {"ok", "exitError"}
        => \A s \in Streams \cap Kept :
              (IF s = "stdout" THEN answer[c].stdout ELSE answer[c].stderr) = sent[s]

(* The handle implements the abstract command: its outcome is settled by the close of done and  *)
(* never changes, and all calls of Wait that do not time out return that one outcome.           *)
Promise == INSTANCE CommandOutcome
               WITH outcome <- IF done THEN Outcome ELSE Pending
ImplementsPromise == Promise!Spec

(* Wait returns, with nobody reading the channels. *)
WaitReturns == \A c \in Callers : wait[c] = "select" ~> wait[c] = "returned"

(* A reader that keeps reading comes to the end of its channel, whoever else reads. *)
ReadersReachTheEnd ==
    \A s \in Streams : WF_vars(ReadChunk(s) \/ ReadClose(s)) => <>(s \in ended)
===============================================================================
