------------------------------ MODULE WatchStream ------------------------------
(***************************************************************************)
(* A WatchHandle (watch_handle.go): the goroutine of consume, its bounded  *)
(* events channel, the reader of that channel and the calls of Stop.       *)
(* Unlike a command's output, an event that finds the channel full is not  *)
(* dropped: the goroutine waits.  Events are named by the order in which   *)
(* envd sent them.                                                         *)
(***************************************************************************)
EXTENDS Naturals, Sequences

CONSTANTS Stoppers,   \* the calls of Stop
          Cap,        \* capacity of the events channel (32 in the code)
          MaxEvents,  \* bound: filesystem events envd sends
          MayLeave    \* the reader may stop reading before the channel closes

ASSUME WatchOK == /\ Cap \in Nat \ {0}
                  /\ MaxEvents \in Nat
                  /\ MayLeave \in BOOLEAN

VARIABLES
    pc,        \* where consume is
    received,  \* filesystem events received from the stream
    watchCtx,  \* the context of the watch: "live", or "done" by Stop or by the caller of Watch
    conn,      \* the connection: "open", "eof" when envd ended the stream, "lost"
    err,       \* w.err
    done,      \* w.done is closed
    chan,      \* w.events
    closed,    \* w.events is closed
    got,       \* the events the reader received
    reader,    \* "reading", "left", or "ended" when it saw the channel close
    errSeen,   \* what Err() returned to the reader after the end
    stop,      \* stop[c]: "idle", "waiting", "stopped" (nil returned) or "timedOut"
    expired    \* the calls of Stop whose own context has ended

consumer == <<pc, received, err, done, closed>>
reading  == <<got, reader, errSeen>>
stopping == <<stop, expired>>
vars     == <<consumer, watchCtx, conn, chan, reading, stopping>>

NoErr  == "nil"
Unread == "unread"

Init == /\ pc = "receive" /\ received = 0
        /\ watchCtx = "live" /\ conn = "open"
        /\ err = NoErr /\ done = FALSE
        /\ chan = <<>> /\ closed = FALSE
        /\ got = <<>> /\ reader = "reading" /\ errSeen = Unread
        /\ stop = [c \in Stoppers |-> "idle"] /\ expired = {}

-------------------------------------------------------------------------------
(* consume.  Start, keepalive and empty messages change nothing. *)

ReceiveEvent ==
    /\ pc = "receive" /\ conn = "open"
    /\ received < MaxEvents
    /\ received' = received + 1
    /\ pc' = "send"
    /\ UNCHANGED <<err, done, closed, watchCtx, conn, chan, reading, stopping>>

(* Receive returns false: the stream ended, or its Err says why. *)
ReceiveEOF ==
    /\ pc = "receive" /\ conn = "eof"
    /\ pc' = "closeDone"
    /\ UNCHANGED <<received, err, done, closed, watchCtx, conn, chan, reading, stopping>>

ReceiveErr ==
    /\ pc = "receive" /\ (conn = "lost" \/ watchCtx = "done")
    /\ pc' = "setErr"
    /\ UNCHANGED <<received, err, done, closed, watchCtx, conn, chan, reading, stopping>>

\* Mutant: an event that finds the channel full is dropped.
SendOrDrop ==
    /\ pc = "send"
    /\ chan' = IF Len(chan) < Cap THEN Append(chan, received) ELSE chan
    /\ pc' = "receive"
    /\ UNCHANGED <<received, err, done, closed, watchCtx, conn, reading, stopping>>

(* A plain send: it waits for room, and for nothing else. *)
Send ==
    /\ pc = "send"
    /\ Len(chan) < Cap
    /\ chan' = Append(chan, received)
    /\ pc' = "receive"
    /\ UNCHANGED <<received, err, done, closed, watchCtx, conn, reading, stopping>>

(* mapConnectErr of an ended context or of a connection that is gone. *)
SetErr ==
    /\ pc = "setErr"
    /\ err' = "TimeoutError"
    /\ pc' = "closeDone"
    /\ UNCHANGED <<received, done, closed, watchCtx, conn, chan, reading, stopping>>

\* Mutant: done is closed and events with it before the error is stored.
CloseBeforeErr ==
    /\ pc = "closeDone" \/ (pc = "setErr" /\ ~done)
    /\ done' = TRUE
    /\ closed' = TRUE
    /\ pc' = IF pc = "setErr" THEN pc ELSE "exited"
    /\ UNCHANGED <<received, err, watchCtx, conn, chan, reading, stopping>>

(* The deferred closes, last in, first out. *)
CloseDone ==
    /\ pc = "closeDone"
    /\ done' = TRUE
    /\ pc' = "closeEvents"
    /\ UNCHANGED <<received, err, closed, watchCtx, conn, chan, reading, stopping>>

\* Mutant: the events channel stays open.
ForgetEvents ==
    /\ pc = "closeEvents"
    /\ pc' = "exited"
    /\ UNCHANGED <<received, err, done, closed, watchCtx, conn, chan, reading, stopping>>

CloseEvents ==
    /\ pc = "closeEvents"
    /\ closed' = TRUE
    /\ pc' = "exited"
    /\ UNCHANGED <<received, err, done, watchCtx, conn, chan, reading, stopping>>

Consume == ReceiveEOF \/ ReceiveErr \/ Send \/ SetErr \/ CloseDone \/ CloseEvents

-------------------------------------------------------------------------------
(* The connection, and the context that the caller gave to Watch. *)

EndConnection == /\ conn = "open"
                 /\ conn' \in {"eof", "lost"}
                 /\ UNCHANGED <<consumer, watchCtx, chan, reading, stopping>>

CancelWatch == /\ watchCtx = "live"
               /\ watchCtx' = "done"
               /\ UNCHANGED <<consumer, conn, chan, reading, stopping>>

-------------------------------------------------------------------------------
(* The reader: for ev := range w.Events(), then w.Err(). *)

Read == /\ reader = "reading" /\ chan # <<>>
        /\ got' = Append(got, Head(chan))
        /\ chan' = Tail(chan)
        /\ UNCHANGED <<consumer, watchCtx, conn, reader, errSeen, stopping>>

ReadEnd == /\ reader = "reading" /\ chan = <<>> /\ closed
           /\ reader' = "ended"
           /\ UNCHANGED <<consumer, watchCtx, conn, chan, got, errSeen, stopping>>

CallErr == /\ reader = "ended" /\ errSeen = Unread
           /\ errSeen' = err
           /\ UNCHANGED <<consumer, watchCtx, conn, chan, got, reader, stopping>>

Leave == /\ MayLeave
         /\ reader = "reading"
         /\ reader' = "left"
         /\ UNCHANGED <<consumer, watchCtx, conn, chan, got, errSeen, stopping>>

-------------------------------------------------------------------------------
(* Stop *)

StartStop(c) == /\ stop[c] = "idle"
                /\ watchCtx' = "done"
                /\ stop' = [stop EXCEPT ![c] = "waiting"]
                /\ UNCHANGED <<consumer, conn, chan, reading, expired>>

\* Mutant: Stop cancels the watch and does not wait for the goroutine.
StopAtOnce(c) == /\ stop[c] = "waiting"
                 /\ stop' = [stop EXCEPT ![c] = "stopped"]
                 /\ UNCHANGED <<consumer, watchCtx, conn, chan, reading, expired>>

StopDone(c) == /\ stop[c] = "waiting" /\ done
               /\ stop' = [stop EXCEPT ![c] = "stopped"]
               /\ UNCHANGED <<consumer, watchCtx, conn, chan, reading, expired>>

StopExpires(c) == /\ stop[c] = "waiting" /\ c \in expired
                  /\ stop' = [stop EXCEPT ![c] = "timedOut"]
                  /\ UNCHANGED <<consumer, watchCtx, conn, chan, reading, expired>>

ContextEnds(c) == /\ c \notin expired
                  /\ expired' = expired \cup {c}
                  /\ UNCHANGED <<consumer, watchCtx, conn, chan, reading, stop>>

-------------------------------------------------------------------------------
Next == \/ ReceiveEvent \/ Consume
        \/ EndConnection \/ CancelWatch
        \/ Read \/ ReadEnd \/ CallErr \/ Leave
        \/ \E c \in Stoppers : StartStop(c) \/ StopDone(c) \/ StopExpires(c) \/ ContextEnds(c)

Spec == Init /\ [][Next]_vars

(***************************************************************************)
(* Fairness: the goroutine runs when it can, Receive fails once the        *)
(* context is done, the calls of Stop and a reader that reads go on.       *)
(***************************************************************************)
FairSpec == /\ Spec
            /\ WF_vars(Consume)
            /\ WF_vars(Read \/ ReadEnd \/ CallErr)
            /\ \A c \in Stoppers : WF_vars(StopDone(c) \/ StopExpires(c))

-------------------------------------------------------------------------------
(* Properties *)

(* Every variable keeps to the values the code can give it. *)
TypeOK ==
    /\ pc \in {"receive", "send", "setErr", "closeDone", "closeEvents", "exited"}
    /\ received \in 0..MaxEvents
    /\ watchCtx \in {"live", "done"} /\ conn \in {"open", "eof", "lost"}
    /\ err \in {NoErr, "TimeoutError"} /\ errSeen \in {NoErr, "TimeoutError", Unread}
    /\ done \in BOOLEAN /\ closed \in BOOLEAN
    /\ chan \in Seq(1..MaxEvents) /\ Len(chan) <= Cap
    /\ got \in Seq(1..MaxEvents)
    /\ reader \in {"reading", "left", "ended"}
    /\ stop \in [Stoppers -> {"idle", "waiting", "stopped", "timedOut"}]
    /\ expired \subseteq Stoppers

(* No event is lost, repeated or reordered between envd and the reader,    *)
(* however slow the reader is: what was read, what is queued and what the  *)
(* goroutine holds are the events received.                                *)
NoEventLost ==
    got \o chan \o (IF pc = "send" THEN <<received>> ELSE <<>>) = [i \in 1..received |-> i]

(* "The channel is closed when the watch ends; check Err() afterwards": a *)
(* reader that does so learns of every error, as it will stand for ever.  *)
ErrIsFinalAtEnd == errSeen # Unread => errSeen = err

(* Once a Stop has returned nil, no more events come. *)
StopIsFinal ==
    [][(\E c \in Stoppers : stop[c] = "stopped") => Len(got' \o chan') = Len(got \o chan)]_vars

(* Unless the reader leaves, a Stop returns and the reader comes to the end. *)
StopReturns == \A c \in Stoppers :
    stop[c] = "waiting" ~> (reader = "left" \/ (stop[c] # "waiting" /\ reader = "ended"))
===============================================================================
