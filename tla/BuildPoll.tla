------------------------------- MODULE BuildPoll -------------------------------
(***************************************************************************)
(* The poll loop of a template build (template/build.go pollUntilDone), the *)
(* bounded channel it feeds and the consumer of that channel: Client.Build, *)
(* or a caller of BuildStream who may stop reading.  The build itself runs  *)
(* in the API server, the environment.                                      *)
(*                                                                          *)
(* A log entry is its index in the build's log; a status request with       *)
(* logsOffset = n is answered with the entries after the n-th, at most      *)
(* Batch of them.                                                           *)
(***************************************************************************)
EXTENDS Integers, Sequences

CONSTANTS Buffer,       \* buildEventBuffer (16 in the code)
          TailLimit,    \* logTailLimit (20 in the code)
          Batch,        \* entries in one answer, the API's limit (100)
          MaxLogs,      \* bound: entries the build writes
          MayAbandon,   \* the consumer may stop reading before the end
          EmptyBodies   \* a status answer may carry no JSON body

ASSUME BuildPollOK == /\ Buffer \in Nat \ {0}
                      /\ TailLimit \in Nat \ {0}
                      /\ Batch \in Nat \ {0}
                      /\ MaxLogs \in Nat
                      /\ MayAbandon \in BOOLEAN /\ EmptyBodies \in BOOLEAN

VARIABLES
    build,      \* the server: "building", "ready" or "error" ("waiting" is polled like "building")
    logs,       \* the server: entries written so far
    ctx,        \* the caller's context: "live" or "done"
    pc,         \* where pollUntilDone is
    offset,     \* logsOffset
    next,       \* the entry the loop over status.Logs emits next
    status,     \* status.Status of the last answer
    tail,       \* the last entries emitted, for BuildError
    out,        \* the terminal event about to be sent, in a sequence of length 0 or 1
    chan,       \* the events channel
    closed,     \* the events channel is closed
    got,        \* the events the consumer received
    consumer    \* "reading", "abandoned", or what Build returned

server == <<build, logs>>
poller == <<pc, offset, next, status, tail, out>>
vars   == <<server, ctx, poller, chan, closed, got, consumer>>

-------------------------------------------------------------------------------
(* Events: exactly one of Log, Done and Err. *)

Log(i)        == [kind |-> "log", index |-> i]
Done          == [kind |-> "done"]
CtxErr        == [kind |-> "err", why |-> "context"]
StatusErr     == [kind |-> "err", why |-> "status"]
BuildError(t) == [kind |-> "err", why |-> "build", tail |-> t]

Last(s, n) == SubSeq(s, IF Len(s) > n THEN Len(s) - n + 1 ELSE 1, Len(s))

(* emitLog: the tail keeps the last TailLimit entries. *)
PushTail(t, i) == IF Len(t) = TailLimit THEN Append(Tail(t), i) ELSE Append(t, i)

-------------------------------------------------------------------------------
Init == /\ build = "building" /\ logs = 0
        /\ ctx = "live"
        /\ pc = "check" /\ offset = 0 /\ next = 1
        /\ status = "building" /\ tail = <<>> /\ out = <<>>
        /\ chan = <<>> /\ closed = FALSE
        /\ got = <<>>
        /\ consumer = "reading"

-------------------------------------------------------------------------------
(* The server and the caller's context                                     *)

WriteLog == /\ build = "building" /\ logs < MaxLogs
            /\ logs' = logs + 1
            /\ UNCHANGED <<build, ctx, poller, chan, closed, got, consumer>>

Finish == /\ build = "building"
          /\ build' \in {"ready", "error"}
          /\ UNCHANGED <<logs, ctx, poller, chan, closed, got, consumer>>

CancelContext == /\ ctx = "live"
                 /\ ctx' = "done"
                 /\ UNCHANGED <<server, poller, chan, closed, got, consumer>>

-------------------------------------------------------------------------------
(* pollUntilDone                                                           *)

(* The loop makes a terminal event and goes on to send it. *)
Terminate(event) == /\ out' = <<event>>
                    /\ pc' = "terminal"

(* select on the context, first thing in every turn of the loop. *)
CheckContext ==
    /\ pc = "check"
    /\ IF ctx = "done" THEN Terminate(CtxErr)
       ELSE pc' = "request" /\ UNCHANGED out
    /\ UNCHANGED <<server, ctx, offset, next, status, tail, chan, closed, got, consumer>>

\* Mutant: the offset is set to the length of the last answer.
AnswerLastLength ==
    /\ pc = "request"
    /\ LET n == IF logs - offset > Batch THEN Batch ELSE logs - offset
       IN  /\ offset' = IF n > 0 THEN n ELSE offset
           /\ next' = offset + 1
    /\ status' = build
    /\ pc' = "emit"
    /\ UNCHANGED <<server, ctx, tail, out, chan, closed, got, consumer>>

(* getBuildStatus answers: the offset advances by what the answer holds. *)
Answer ==
    /\ pc = "request"
    /\ offset' = IF logs - offset > Batch THEN offset + Batch ELSE logs
    /\ next' = offset + 1
    /\ status' = build
    /\ pc' = "emit"
    /\ UNCHANGED <<server, ctx, tail, out, chan, closed, got, consumer>>

(* getBuildStatus fails: the transport, the context, a status of 300 or more, a body that is no JSON. *)
AnswerFails ==
    /\ pc = "request"
    /\ \E e \in {StatusErr} \cup (IF ctx = "done" THEN {CtxErr} ELSE {}) : Terminate(e)
    /\ UNCHANGED <<server, ctx, offset, next, status, tail, chan, closed, got, consumer>>

(* A 200 without a JSON body: getBuildStatus returns nil and no error, and *)
(* status.Logs is a nil dereference: the program crashes.                  *)
AnswerEmpty ==
    /\ EmptyBodies
    /\ pc = "request"
    /\ pc' = "panicked"
    /\ UNCHANGED <<server, ctx, offset, next, status, tail, out, chan, closed, got, consumer>>

(* emitLog: a send that waits for room, whatever becomes of the context. *)
EmitLog ==
    /\ pc = "emit" /\ next <= offset
    /\ Len(chan) < Buffer
    /\ tail' = PushTail(tail, next)
    /\ chan' = Append(chan, Log(next))
    /\ next' = next + 1
    /\ UNCHANGED <<server, ctx, pc, offset, status, out, closed, got, consumer>>

\* Mutant: the switch on the status comes before the loop over its log.
ActOnStatusFirst ==
    /\ pc = "emit" /\ (next > offset \/ status = "ready")
    /\ CASE status = "ready" -> Terminate(Done)
         [] status = "error" -> Terminate(BuildError(tail))
         [] OTHER            -> pc' = "sleep" /\ UNCHANGED out
    /\ UNCHANGED <<server, ctx, offset, next, status, tail, chan, closed, got, consumer>>

(* The switch on the status, once its entries are sent. *)
ActOnStatus ==
    /\ pc = "emit" /\ next > offset
    /\ CASE status = "ready" -> Terminate(Done)
         [] status = "error" -> Terminate(BuildError(tail))
         [] OTHER            -> pc' = "sleep" /\ UNCHANGED out
    /\ UNCHANGED <<server, ctx, offset, next, status, tail, chan, closed, got, consumer>>

(* select: the context ends, or the interval passes; either when both are ready. *)
Sleep ==
    /\ pc = "sleep"
    /\ \/ ctx = "done" /\ Terminate(CtxErr)
       \/ pc' = "check" /\ UNCHANGED out
    /\ UNCHANGED <<server, ctx, offset, next, status, tail, chan, closed, got, consumer>>

\* Mutant: a terminal event that finds the channel full is dropped.
SendTerminalOrDrop ==
    /\ pc = "terminal"
    /\ chan' = IF Len(chan) < Buffer THEN chan \o out ELSE chan
    /\ out' = <<>>
    /\ pc' = "close"
    /\ UNCHANGED <<server, ctx, offset, next, status, tail, closed, got, consumer>>

(* The terminal event is sent like any other, with room or not at all. *)
SendTerminal ==
    /\ pc = "terminal"
    /\ Len(chan) < Buffer
    /\ chan' = chan \o out
    /\ out' = <<>>
    /\ pc' = "close"
    /\ UNCHANGED <<server, ctx, offset, next, status, tail, closed, got, consumer>>

\* Mutant: the channel stays open when the context ended.
CloseUnlessCancelled ==
    /\ pc = "close"
    /\ closed' = (ctx = "live")
    /\ pc' = "exited"
    /\ UNCHANGED <<server, ctx, offset, next, status, tail, out, chan, got, consumer>>

(* defer close(out) *)
Close ==
    /\ pc = "close"
    /\ closed' = TRUE
    /\ pc' = "exited"
    /\ UNCHANGED <<server, ctx, offset, next, status, tail, out, chan, got, consumer>>

Poll == \/ CheckContext \/ Answer \/ AnswerFails
        \/ EmitLog \/ ActOnStatus \/ Sleep
        \/ SendTerminal \/ Close

-------------------------------------------------------------------------------
(* The consumer: Build ranges over the channel.  It returns at the first   *)
(* Err, and at the close with the Done it saw, or with the error "channel  *)
(* closed without terminal event".                                         *)

ReceiveEvent ==
    /\ consumer = "reading" /\ chan # <<>>
    /\ got' = Append(got, Head(chan))
    /\ chan' = Tail(chan)
    /\ consumer' = IF Head(chan).kind = "err" THEN "failed" ELSE consumer
    /\ UNCHANGED <<server, ctx, poller, closed>>

ReceiveClose ==
    /\ consumer = "reading" /\ chan = <<>> /\ closed
    /\ consumer' = IF \E i \in DOMAIN got : got[i] = Done THEN "built" ELSE "noTerminal"
    /\ UNCHANGED <<server, ctx, poller, chan, closed, got>>

(* A consumer of BuildStream stops reading. *)
Abandon ==
    /\ MayAbandon
    /\ consumer = "reading"
    /\ consumer' = "abandoned"
    /\ UNCHANGED <<server, ctx, poller, chan, closed, got>>

Consume == ReceiveEvent \/ ReceiveClose

-------------------------------------------------------------------------------
Next == WriteLog \/ Finish \/ CancelContext \/ Poll \/ AnswerEmpty \/ Consume \/ Abandon

Spec == Init /\ [][Next]_vars

(***************************************************************************)
(* Fairness: the poller's goroutine runs, its requests are answered or     *)
(* fail (the HTTP client has a timeout), a consumer that reads goes on     *)
(* reading.  BuildingSpec adds that the server finishes the build.         *)
(***************************************************************************)
FairSpec == Spec /\ WF_vars(Poll) /\ WF_vars(Consume)

BuildingSpec == FairSpec /\ WF_vars(Finish)

-------------------------------------------------------------------------------
(* Properties                                                              *)

(* Every variable keeps to the values the code can give it. *)
TypeOK ==
    /\ build \in {"building", "ready", "error"} /\ status \in {"building", "ready", "error"}
    /\ logs \in 0..MaxLogs
    /\ offset \in 0..logs
    /\ next \in 1..(offset + 1)
    /\ ctx \in {"live", "done"}
    /\ pc \in {"check", "request", "emit", "sleep", "terminal", "close", "exited", "panicked"}
    /\ Len(tail) <= TailLimit
    /\ Len(out) = (IF pc = "terminal" THEN 1 ELSE 0)
    /\ Len(chan) <= Buffer
    /\ closed = (pc = "exited")
    /\ consumer \in {"reading", "abandoned", "failed", "built", "noTerminal"}

(* The events sent, in the order they were sent: received already, or still queued. *)
Sent == got \o chan

Terminal(e) == e.kind # "log"

(* The poll loop implements the event stream it promises. *)
Promise == INSTANCE BuildEvents WITH events <- Sent, ended <- closed, IsTerminal <- Terminal
KeepsPromise == Promise!Spec

(* The terminal event is true: Done only of a build the server has made,   *)
(* with all the entries of the answer that said so; BuildError only of one *)
(* that failed, with the last entries sent before it.                      *)
TerminalIsTrue ==
    \A i \in DOMAIN Sent :
        /\ Sent[i] = Done => build = "ready" /\ i = offset + 1
        /\ "tail" \in DOMAIN Sent[i] =>
              /\ build = "error"
              /\ Sent[i].tail = Last([n \in 1..(i - 1) |-> n], TailLimit)

(* Build returns, once the server has finished the build or failed to answer, and always for *)
(* a terminal event or an Err, never for its "channel closed without terminal event".        *)
BuildReturns == <>(consumer \in {"built", "failed", "abandoned"} \/ pc = "panicked")

(* The channel closes, unless its reader gave up before the end, even one *)
(* that left at the first Err as Build does.                              *)
StreamEnds == <>(closed \/ consumer = "abandoned" \/ pc = "panicked")

(* "ctx.Done() -> propagate ctx.Err(), close channel": once the context of *)
(* the caller is done, the goroutine ends, whether or not anybody reads.   *)
CancelEndsPoll == ctx = "done" ~> pc = "exited"
===============================================================================
