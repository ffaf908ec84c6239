---------------------------- MODULE TemplateProofs ----------------------------
(***************************************************************************)
(* Safety of two parts of the template package.  The poll loop of a build: *)
(* for every size of the channel, the tail and an answer, every length of  *)
(* the log, and readers that stop or do not.  The Builder and the parser   *)
(* of Dockerfiles: for every text, every list of items, every Dockerfile   *)
(* and every number of calls.                                              *)
(***************************************************************************)
EXTENDS BuildPoll, TemplateBuilder, CommonLemmas, FiniteSetTheorems

(***************************************************************************)
(* The poll loop.                                                          *)
(*                                                                         *)
(* What was sent is the log up to the entry before `next`, and then, once  *)
(* the loop has ended, the terminal event it made.  That event agrees with *)
(* the last status and the tail, and both agree with the server.           *)
(***************************************************************************)

Terminals == {Done, CtxErr, StatusErr} \cup {BuildError(t) : t \in Seq(Nat)}
Events    == {Log(i) : i \in Nat} \cup Terminals

(* The first n entries of the log, and the tail that emitLog has kept of them. *)
Upto(n)   == [k \in 1..n |-> k]
LastOf(n) == Last(Upto(n), TailLimit)

Ended == pc \in {"close", "exited"}

(* The terminal event e agrees with what the loop knows. *)
Agrees(e) == /\ e \in Terminals
             /\ e = Done => status = "ready"
             /\ "tail" \in DOMAIN e => status = "error" /\ e.tail = tail

QueueInv == chan \in Seq(Events) /\ got \in Seq(Events)

(* The loop leaves no entry of an answer behind, and remembers the last ones. *)
EmitInv == /\ pc # "emit" => next = offset + 1
           /\ tail = LastOf(next - 1)
           /\ status # "building" => build = status

OutInv == pc = "terminal" => out = <<out[1]>> /\ Agrees(out[1])

SentInv == /\ Len(Sent) = IF Ended THEN next ELSE next - 1
           /\ \A i \in 1..(next - 1) : Sent[i] = Log(i)
           /\ Ended => Agrees(Sent[next])

Inv == TypeOK /\ QueueInv /\ EmitInv /\ OutInv /\ SentInv

-------------------------------------------------------------------------------
(* The events differ by their kind, and only one of them carries a tail. *)
LEMMA Kinds ==
    /\ \A i \in Nat : /\ Log(i) \in Events /\ ~Terminal(Log(i)) /\ Log(i) # Done
                      /\ "tail" \notin DOMAIN Log(i)
    /\ \A e \in Terminals : e \in Events /\ Terminal(e)
    /\ {Done, CtxErr, StatusErr} \subseteq Terminals /\ CtxErr # Done /\ StatusErr # Done
    /\ "tail" \notin DOMAIN Done /\ "tail" \notin DOMAIN CtxErr /\ "tail" \notin DOMAIN StatusErr
    /\ \A t \in Seq(Nat) : BuildError(t) \in Terminals /\ BuildError(t) # Done /\ BuildError(t).tail = t
  <1>1. \A i \in Nat : Log(i).kind = "log" /\ DOMAIN Log(i) = {"kind", "index"}
    BY DEF Log
  <1>2. /\ Done.kind = "done" /\ DOMAIN Done = {"kind"}
        /\ CtxErr.kind = "err" /\ DOMAIN CtxErr = {"kind", "why"}
        /\ StatusErr.kind = "err" /\ DOMAIN StatusErr = {"kind", "why"}
    BY DEF Done, CtxErr, StatusErr
  <1>3. \A t \in Seq(Nat) : BuildError(t).kind = "err" /\ BuildError(t).tail = t
    BY DEF BuildError
  <1>4. \A e \in Terminals : Terminal(e)
    BY <1>2, <1>3 DEF Terminals, Terminal
  <1>5. QED
    BY <1>1, <1>2, <1>3, <1>4 DEF Events, Terminals, Terminal

(* The last entries of a log, element by element. *)
LEMMA LastIs ==
    ASSUME BuildPollOK, NEW n \in Nat
    PROVE  /\ LastOf(n) \in Seq(Nat)
           /\ Len(LastOf(n)) = IF n > TailLimit THEN TailLimit ELSE n
           /\ \A k \in 1..Len(LastOf(n)) : LastOf(n)[k] = n - Len(LastOf(n)) + k
  <1>1. Upto(n) \in Seq(Nat) /\ Len(Upto(n)) = n /\ \A k \in 1..n : Upto(n)[k] = k
    BY DEF Upto
  <1> DEFINE m == IF n > TailLimit THEN n - TailLimit + 1 ELSE 1
  <1>2. m \in Nat \ {0} /\ LastOf(n) = SubSeq(Upto(n), m, n)
    BY <1>1, BuildPollOK DEF LastOf, Last
  <1> HIDE DEF m
  <1>3. \A i \in m..n : Upto(n)[i] \in Nat
    BY <1>1, <1>2
  <1>4. /\ LastOf(n) \in Seq(Nat) /\ Len(LastOf(n)) = IF m <= n THEN n - m + 1 ELSE 0
        /\ \A k \in 1..(n - m + 1) : LastOf(n)[k] = Upto(n)[m + k - 1]
    BY <1>2, <1>3, SubSeqProperties
  <1>5. Len(LastOf(n)) = IF n > TailLimit THEN TailLimit ELSE n
    BY <1>4, BuildPollOK DEF m
  <1>6. n - Len(LastOf(n)) = m - 1 /\ Len(LastOf(n)) <= n - m + 1
    BY <1>5, BuildPollOK DEF m
  <1>7. ASSUME NEW k \in 1..Len(LastOf(n)) PROVE LastOf(n)[k] = n - Len(LastOf(n)) + k
    <2>1. k \in 1..(n - m + 1) /\ m + k - 1 \in 1..n
      BY <1>2, <1>6
    <2>2. QED
      BY <1>1, <1>2, <1>4, <1>6, <2>1
  <1>8. QED
    BY <1>4, <1>5, <1>7

(* emitLog keeps the last entries: pushing the next one onto the tail gives the tail of one entry more. *)
LEMMA PushKeepsLast == ASSUME BuildPollOK, NEW n \in Nat PROVE PushTail(LastOf(n), n + 1) = LastOf(n + 1)
  <1> DEFINE t == LastOf(n)
             u == LastOf(n + 1)
  <1>1. /\ t \in Seq(Nat) /\ Len(t) = IF n > TailLimit THEN TailLimit ELSE n
        /\ \A k \in 1..Len(t) : t[k] = n - Len(t) + k
    BY LastIs
  <1>2. /\ u \in Seq(Nat) /\ Len(u) = IF n + 1 > TailLimit THEN TailLimit ELSE n + 1
        /\ \A k \in 1..Len(u) : u[k] = n + 1 - Len(u) + k
    BY LastIs
  <1> HIDE DEF t, u
  <1>3. CASE Len(t) = TailLimit
    <2>1. t # <<>> /\ n >= TailLimit /\ Len(u) = TailLimit
      BY <1>1, <1>2, <1>3, BuildPollOK, EmptySeq
    <2>2. /\ Tail(t) \in Seq(Nat) /\ Len(Tail(t)) = TailLimit - 1
          /\ \A k \in 1..(TailLimit - 1) : Tail(t)[k] = t[k + 1]
      BY <1>1, <1>3, <2>1, HeadTailProperties
    <2> DEFINE w == Append(Tail(t), n + 1)
    <2>3. /\ w \in Seq(Nat) /\ Len(w) = TailLimit
          /\ \A k \in 1..(TailLimit - 1) : w[k] = t[k + 1]
          /\ w[TailLimit] = n + 1
      BY <2>2, AppendProperties, BuildPollOK
    <2>4. \A k \in 1..TailLimit : w[k] = u[k]
      <3>1. SUFFICES ASSUME NEW k \in 1..TailLimit PROVE w[k] = u[k]
        OBVIOUS
      <3>2. u[k] = n + 1 - TailLimit + k
        BY <1>2, <2>1
      <3>3. CASE k = TailLimit
        BY <2>3, <3>2, <3>3, BuildPollOK
      <3>4. CASE k # TailLimit
        <4>1. k \in 1..(TailLimit - 1) /\ k + 1 \in 1..Len(t)
          BY <1>3, <3>4, BuildPollOK
        <4>2. t[k + 1] = n - TailLimit + (k + 1)
          BY <1>1, <1>3, <4>1
        <4>3. QED
          BY <2>3, <3>2, <4>1, <4>2, BuildPollOK
      <3>5. QED
        BY <3>3, <3>4
    <2>5. w = u
      BY <1>2, <2>1, <2>3, <2>4, SeqEqual
    <2>6. QED
      BY <1>3, <2>5 DEF PushTail, t, u
  <1>4. CASE Len(t) # TailLimit
    <2>1. n < TailLimit /\ Len(t) = n /\ Len(u) = n + 1
      BY <1>1, <1>2, <1>4, BuildPollOK
    <2> DEFINE w == Append(t, n + 1)
    <2>2. w \in Seq(Nat) /\ Len(w) = n + 1 /\ (\A k \in 1..n : w[k] = t[k]) /\ w[n + 1] = n + 1
      BY <1>1, <2>1, AppendProperties
    <2>3. \A k \in 1..(n + 1) : w[k] = u[k]
      BY <1>1, <1>2, <2>1, <2>2
    <2>4. w = u
      BY <1>2, <2>1, <2>2, <2>3, SeqEqual
    <2>5. QED
      BY <1>4, <2>4 DEF PushTail, t, u
  <1>5. QED
    BY <1>3, <1>4

-------------------------------------------------------------------------------
(* The invariant holds before the first poll. *)
LEMMA InvInit == Init => Inv
  <1> SUFFICES ASSUME Init PROVE Inv
    OBVIOUS
  <1> USE BuildPollOK DEF Init
  <1>1. <<>> \in Seq(Events) /\ Len(<<>>) = 0 /\ <<>> \o <<>> = <<>>
    BY EmptySeq, ConcatEmptySeq
  <1>2. <<>> = LastOf(0)
    <2>1. LastOf(0) \in Seq(Nat) /\ Len(LastOf(0)) = 0
      BY LastIs
    <2>2. QED
      BY <2>1, EmptySeq
  <1>3. TypeOK
    <2>1. Len(tail) <= TailLimit /\ Len(chan) <= Buffer /\ Len(out) = 0
      BY <1>1
    <2>2. logs \in 0..MaxLogs /\ offset \in 0..logs /\ next \in 1..(offset + 1)
      OBVIOUS
    <2>3. closed = (pc = "exited")
      OBVIOUS
    <2>4. QED
      BY <2>1, <2>2, <2>3 DEF TypeOK
  <1>4. QueueInv /\ EmitInv /\ OutInv
    BY <1>1, <1>2 DEF QueueInv, EmitInv, OutInv
  <1>5. SentInv
    BY <1>1 DEF SentInv, Sent, Ended
  <1>6. QED
    BY <1>3, <1>4, <1>5 DEF Inv

(* What was sent stays as it is, in a step that sends nothing. *)
LEMMA SentStays ==
    ASSUME SentInv, Sent' = Sent, next' = next, Ended' = Ended, Ended => status' = status /\ tail' = tail
    PROVE  SentInv'
  BY DEF SentInv, Agrees

(* The server and the context change nothing of the loop; a build that is over stays as it is. *)
LEMMA ServerKeeps == ASSUME Inv, WriteLog \/ Finish \/ CancelContext PROVE Inv'
  <1> USE BuildPollOK DEF Inv
  <1>1. UNCHANGED <<poller, chan, closed, got, consumer>>
    BY DEF WriteLog, Finish, CancelContext
  <1>2. /\ pc' = pc /\ offset' = offset /\ next' = next /\ status' = status /\ tail' = tail /\ out' = out
        /\ chan' = chan /\ closed' = closed /\ got' = got /\ consumer' = consumer
    BY <1>1 DEF poller
  <1>3. logs' \in 0..MaxLogs /\ logs <= logs' /\ ctx' \in {"live", "done"} /\ build' \in {"building", "ready", "error"}
    BY DEF TypeOK, WriteLog, Finish, CancelContext, server
  <1>4. TypeOK'
    BY <1>2, <1>3 DEF TypeOK
  <1>5. QueueInv' /\ EmitInv' /\ OutInv'
    <2>1. status # "building" => build' = status
      BY DEF EmitInv, WriteLog, Finish, CancelContext, server
    <2>2. QED
      BY <1>2, <2>1 DEF QueueInv, EmitInv, OutInv, Agrees
  <1>6. SentInv'
    <2>1. Sent' = Sent /\ Ended' = Ended
      BY <1>2 DEF Sent, Ended
    <2>2. QED
      BY <1>2, <2>1, SentStays
  <1>7. QED
    BY <1>4, <1>5, <1>6

(* A step of the loop that sends nothing: it goes on, or has made a terminal event that agrees. *)
LEMMA SilentKeeps ==
    ASSUME Inv, CheckContext \/ Answer \/ AnswerFails \/ AnswerEmpty \/ ActOnStatus \/ Sleep
    PROVE  Inv'
  <1> USE BuildPollOK DEF Inv
  <1>1. /\ UNCHANGED <<server, ctx, tail, chan, closed, got, consumer>>
        /\ pc \in {"check", "request", "emit", "sleep"} /\ next = offset + 1 /\ offset \in 0..logs
    BY DEF CheckContext, Answer, AnswerFails, AnswerEmpty, ActOnStatus, Sleep, EmitInv, TypeOK
  <1>2. build' = build /\ logs' = logs
    BY <1>1 DEF server
  <1>3. \/ /\ pc' = "terminal" /\ offset' = offset /\ next' = next /\ status' = status
           /\ out' = <<out'[1]>> /\ Agrees(out'[1])
        \/ /\ pc' \in {"check", "request", "sleep", "panicked"}
           /\ offset' = offset /\ next' = next /\ status' = status /\ out' = out
        \/ /\ pc' = "emit" /\ offset' \in offset..logs /\ next' = next /\ status' = build /\ out' = out
    <2>1. CASE CheckContext
      <3>1. CASE ctx = "done"
        BY <2>1, <3>1, Kinds DEF CheckContext, Terminate, Agrees
      <3>2. CASE ctx # "done"
        BY <2>1, <3>2 DEF CheckContext
      <3>3. QED
        BY <3>1, <3>2
    <2>2. CASE Answer
      <3>1. offset' \in offset..logs
        BY <1>1, <2>2 DEF Answer, TypeOK
      <3>2. QED
        BY <1>1, <2>2, <3>1 DEF Answer
    <2>3. CASE AnswerFails
      <3>1. PICK e \in {StatusErr, CtxErr} : Terminate(e)
        BY <2>3 DEF AnswerFails
      <3>2. Agrees(e)
        BY <3>1, Kinds DEF Agrees
      <3>3. QED
        BY <2>3, <3>1, <3>2 DEF AnswerFails, Terminate
    <2>4. CASE AnswerEmpty
      BY <2>4 DEF AnswerEmpty
    <2>5. CASE ActOnStatus
      <3>1. CASE status = "ready"
        <4>1. Agrees(Done)
          BY <3>1, Kinds DEF Agrees
        <4>2. QED
          BY <2>5, <3>1, <4>1 DEF ActOnStatus, Terminate
      <3>2. CASE status = "error"
        <4>1. Agrees(BuildError(tail))
          <5>1. tail \in Seq(Nat)
            BY <1>1, LastIs DEF EmitInv
          <5>2. QED
            BY <3>2, <5>1, Kinds DEF Agrees
        <4>2. QED
          BY <2>5, <3>2, <4>1 DEF ActOnStatus, Terminate
      <3>3. CASE status = "building"
        BY <2>5, <3>3 DEF ActOnStatus
      <3>4. QED
        BY <3>1, <3>2, <3>3 DEF TypeOK
    <2>6. CASE Sleep
      BY <2>6, Kinds DEF Sleep, Terminate, Agrees
    <2>7. QED
      BY <2>1, <2>2, <2>3, <2>4, <2>5, <2>6
  <1>4. TypeOK'
    <2>1. Len(out') = IF pc' = "terminal" THEN 1 ELSE 0
      BY <1>1, <1>3 DEF TypeOK
    <2>2. closed' = (pc' = "exited")
      BY <1>1, <1>3 DEF TypeOK
    <2>3. offset' \in 0..logs /\ next' \in 1..(offset' + 1) /\ status' \in {"building", "ready", "error"}
      BY <1>1, <1>3 DEF TypeOK
    <2>4. QED
      BY <1>1, <1>2, <1>3, <2>1, <2>2, <2>3 DEF TypeOK
  <1>5. QueueInv' /\ EmitInv' /\ OutInv'
    <2>1. QueueInv'
      BY <1>1 DEF QueueInv
    <2>2. EmitInv'
      BY <1>1, <1>2, <1>3 DEF EmitInv
    <2>3. OutInv'
      BY <1>1, <1>3 DEF OutInv, Agrees
    <2>4. QED
      BY <2>1, <2>2, <2>3
  <1>6. SentInv'
    <2>1. Sent' = Sent /\ next' = next
      BY <1>1, <1>3 DEF Sent
    <2>2. ~Ended /\ Ended' = Ended
      BY <1>1, <1>3 DEF Ended
    <2>3. QED
      BY <2>1, <2>2, SentStays
  <1>7. QED
    BY <1>4, <1>5, <1>6

(* emitLog sends the next entry and pushes it onto the tail. *)
LEMMA EmitKeeps == ASSUME Inv, EmitLog PROVE Inv' /\ Sent' = Append(Sent, Log(next)) /\ Len(Sent) = next - 1
  <1> USE BuildPollOK DEF Inv
  <1>1. /\ pc = "emit" /\ next <= offset /\ Len(chan) < Buffer
        /\ tail' = PushTail(tail, next) /\ chan' = Append(chan, Log(next)) /\ next' = next + 1
        /\ UNCHANGED <<server, ctx, pc, offset, status, out, closed, got, consumer>>
    BY DEF EmitLog
  <1>2. next \in Nat \ {0} /\ offset \in Nat /\ build' = build /\ logs' = logs
    BY <1>1 DEF TypeOK, server
  <1>3. Log(next) \in Events /\ chan \in Seq(Events) /\ got \in Seq(Events)
    BY <1>2, Kinds DEF QueueInv
  <1>4. /\ chan' \in Seq(Events) /\ Len(chan') = Len(chan) + 1
        /\ Sent' = Append(Sent, Log(next))
    BY <1>1, <1>3, SendAppends DEF Sent
  <1>5. Sent \in Seq(Events) /\ Len(chan) \in Nat
    BY <1>3, SentType DEF Sent
  <1>6. tail' = LastOf(next)
    <2>1. next - 1 \in Nat /\ (next - 1) + 1 = next /\ tail = LastOf(next - 1)
      BY <1>2 DEF EmitInv
    <2>2. PushTail(LastOf(next - 1), (next - 1) + 1) = LastOf((next - 1) + 1)
      BY <2>1, PushKeepsLast
    <2>3. QED
      BY <1>1, <2>1, <2>2
  <1>7. TypeOK'
    <2>1. Len(tail') <= TailLimit
      <3>1. Len(LastOf(next)) = IF next > TailLimit THEN TailLimit ELSE next
        BY <1>2, LastIs
      <3>2. QED
        BY <1>2, <1>6, <3>1
    <2>2. Len(chan') <= Buffer
      BY <1>1, <1>4, <1>5
    <2>3. next' \in 1..(offset' + 1)
      BY <1>1, <1>2
    <2>4. QED
      BY <1>1, <1>2, <2>1, <2>2, <2>3 DEF TypeOK
  <1>8. QueueInv' /\ EmitInv' /\ OutInv'
    <2>1. next' - 1 = next
      BY <1>1, <1>2
    <2>2. QED
      BY <1>1, <1>2, <1>3, <1>4, <1>6, <2>1 DEF QueueInv, EmitInv, OutInv
  <1>9. Len(Sent) = next - 1 /\ ~Ended /\ ~Ended'
    BY <1>1 DEF SentInv, Ended
  <1>10. SentInv'
    <2>1. /\ Len(Sent') = Len(Sent) + 1
          /\ \A i \in 1..Len(Sent) : Sent'[i] = Sent[i]
          /\ Sent'[Len(Sent) + 1] = Log(next)
      BY <1>3, <1>4, <1>5, AppendProperties
    <2>2. Len(Sent') = next' - 1 /\ Sent'[next] = Log(next)
      BY <1>1, <1>2, <1>9, <2>1
    <2>3. ASSUME NEW i \in 1..(next' - 1) PROVE Sent'[i] = Log(i)
      <3>1. CASE i = next
        BY <2>2, <3>1
      <3>2. CASE i # next
        <4>1. i \in 1..(next - 1)
          BY <1>1, <1>2, <3>2
        <4>2. QED
          BY <1>9, <2>1, <4>1 DEF SentInv
      <3>3. QED
        BY <3>1, <3>2
    <2>4. QED
      BY <1>9, <2>2, <2>3 DEF SentInv
  <1>11. QED
    BY <1>4, <1>7, <1>8, <1>9, <1>10

(* The terminal event is the last one sent. *)
LEMMA TerminalKeeps ==
    ASSUME Inv, SendTerminal
    PROVE  Inv' /\ Sent' = Append(Sent, out[1]) /\ Terminal(out[1]) /\ Len(Sent) = next - 1
  <1> USE BuildPollOK DEF Inv
  <1>1. /\ pc = "terminal" /\ Len(chan) < Buffer /\ chan' = chan \o out /\ out' = <<>> /\ pc' = "close"
        /\ UNCHANGED <<server, ctx, offset, next, status, tail, closed, got, consumer>>
    BY DEF SendTerminal
  <1>2. build' = build /\ logs' = logs
    BY <1>1 DEF server
  <1>3. PICK e : e = out[1] /\ out = <<e>> /\ Agrees(e)
    BY <1>1 DEF OutInv
  <1>4. e \in Events /\ Terminal(e) /\ chan \in Seq(Events) /\ got \in Seq(Events)
    BY <1>3, Kinds DEF Agrees, QueueInv
  <1>5. chan' = Append(chan, e)
    BY <1>1, <1>3, <1>4, AppendIsConcat
  <1>6. /\ chan' \in Seq(Events) /\ Len(chan') = Len(chan) + 1
        /\ Sent' = Append(Sent, e)
    BY <1>1, <1>4, <1>5, SendAppends DEF Sent
  <1>7. Sent \in Seq(Events) /\ Len(chan) \in Nat
    BY <1>4, SentType DEF Sent
  <1>8. next \in Nat \ {0} /\ Len(Sent) = next - 1 /\ Ended'
    BY <1>1 DEF SentInv, Ended, TypeOK
  <1>9. TypeOK'
    <2>1. Len(chan') <= Buffer /\ Len(out') = 0
      BY <1>1, <1>6, <1>7, EmptySeq
    <2>2. closed' = (pc' = "exited")
      BY <1>1 DEF TypeOK
    <2>3. QED
      BY <1>1, <1>2, <2>1, <2>2 DEF TypeOK
  <1>10. QueueInv' /\ EmitInv' /\ OutInv'
    BY <1>1, <1>2, <1>4, <1>6 DEF QueueInv, EmitInv, OutInv
  <1>11. SentInv'
    <2>1. /\ Len(Sent') = Len(Sent) + 1
          /\ \A i \in 1..Len(Sent) : Sent'[i] = Sent[i]
          /\ Sent'[Len(Sent) + 1] = e
      BY <1>4, <1>6, <1>7, AppendProperties
    <2>2. Len(Sent') = next /\ Sent'[next] = e
      BY <1>8, <2>1
    <2>3. \A i \in 1..(next - 1) : Sent'[i] = Log(i)
      <3>1. \A i \in 1..(next - 1) : Sent[i] = Log(i)
        BY DEF SentInv
      <3>2. QED
        BY <1>8, <2>1, <3>1, Zenon
    <2>4. Agrees(e)'
      BY <1>1, <1>3 DEF Agrees
    <2>5. QED
      BY <1>1, <1>8, <2>2, <2>3, <2>4 DEF SentInv, Agrees
  <1>12. QED
    BY <1>3, <1>4, <1>6, <1>8, <1>9, <1>10, <1>11

(* Closing the channel sends nothing more. *)
LEMMA CloseKeeps == ASSUME Inv, Close PROVE Inv' /\ Sent' = Sent
  <1> USE BuildPollOK DEF Inv
  <1>1. /\ pc = "close" /\ closed' = TRUE /\ pc' = "exited"
        /\ UNCHANGED <<server, ctx, offset, next, status, tail, out, chan, got, consumer>>
    BY DEF Close
  <1>2. build' = build /\ logs' = logs
    BY <1>1 DEF server
  <1>3. TypeOK'
    <2>1. Len(out') = 0
      BY <1>1 DEF TypeOK
    <2>2. QED
      BY <1>1, <1>2, <2>1 DEF TypeOK
  <1>4. QueueInv' /\ EmitInv' /\ OutInv'
    BY <1>1, <1>2 DEF QueueInv, EmitInv, OutInv
  <1>5. Sent' = Sent /\ Ended' = Ended
    BY <1>1 DEF Sent, Ended
  <1>6. SentInv'
    BY <1>1, <1>5, SentStays
  <1>7. QED
    BY <1>3, <1>4, <1>5, <1>6

(* The consumer moves events out of the channel, which changes nothing that was sent. *)
LEMMA ConsumerKeeps == ASSUME Inv, Consume \/ Abandon PROVE Inv' /\ Sent' = Sent /\ closed' = closed
  <1> USE BuildPollOK DEF Inv
  <1>1. UNCHANGED <<server, ctx, poller, closed>>
    BY DEF Consume, ReceiveEvent, ReceiveClose, Abandon
  <1>2. /\ build' = build /\ logs' = logs /\ ctx' = ctx /\ closed' = closed
        /\ pc' = pc /\ offset' = offset /\ next' = next /\ status' = status /\ tail' = tail /\ out' = out
    BY <1>1 DEF server, poller
  <1>3. consumer' \in {"reading", "abandoned", "failed", "built", "noTerminal"}
    BY DEF TypeOK, Consume, ReceiveEvent, ReceiveClose, Abandon
  <1>4. chan' \in Seq(Events) /\ got' \in Seq(Events) /\ Len(chan') <= Buffer /\ Sent' = Sent
    <2>1. CASE ReceiveEvent
      <3>1. chan # <<>> /\ got' = Append(got, Head(chan)) /\ chan' = Tail(chan)
        BY <2>1 DEF ReceiveEvent
      <3>2. /\ Tail(chan) \in Seq(Events) /\ Append(got, Head(chan)) \in Seq(Events)
            /\ Len(Tail(chan)) = Len(chan) - 1
            /\ Append(got, Head(chan)) \o Tail(chan) = got \o chan
        BY <3>1, ReceiveKeeps DEF QueueInv
      <3>3. Len(chan) \in Nat /\ Len(chan) <= Buffer
        BY LenProperties DEF QueueInv, TypeOK
      <3>4. Len(chan') <= Buffer
        BY <3>1, <3>2, <3>3
      <3>5. QED
        BY <3>1, <3>2, <3>4 DEF Sent
    <2>2. CASE ReceiveClose \/ Abandon
      BY <2>2 DEF ReceiveClose, Abandon, QueueInv, TypeOK, Sent
    <2>3. QED
      BY <2>1, <2>2 DEF Consume
  <1>5. TypeOK'
    BY <1>2, <1>3, <1>4 DEF TypeOK
  <1>6. QueueInv' /\ EmitInv' /\ OutInv'
    BY <1>2, <1>4 DEF QueueInv, EmitInv, OutInv, Agrees
  <1>7. SentInv'
    <2>1. Ended' = Ended
      BY <1>2 DEF Ended
    <2>2. QED
      BY <1>2, <1>4, <2>1, SentStays
  <1>8. QED
    BY <1>2, <1>4, <1>5, <1>6, <1>7

(* Every step keeps the invariant. *)
LEMMA InvNext == Inv /\ [Next]_vars => Inv'
  <1> SUFFICES ASSUME Inv, [Next]_vars PROVE Inv'
    OBVIOUS
  <1>1. CASE UNCHANGED vars
    BY <1>1 DEF Inv, vars, server, poller, TypeOK, QueueInv, EmitInv, OutInv, SentInv, Sent, Ended, Agrees
  <1>2. CASE WriteLog \/ Finish \/ CancelContext
    BY <1>2, ServerKeeps
  <1>3. CASE Poll \/ AnswerEmpty
    BY <1>3, SilentKeeps, EmitKeeps, TerminalKeeps, CloseKeeps DEF Poll
  <1>4. CASE Consume \/ Abandon
    BY <1>4, ConsumerKeeps
  <1>5. QED
    BY <1>1, <1>2, <1>3, <1>4 DEF Next

(* The inductive invariant holds in every state. *)
LEMMA Invariance == Spec => []Inv
  BY InvInit, InvNext, PTL DEF Spec

(* The offset, the entry to emit next, the tail and the channel keep to their bounds. *)
THEOREM TypeCorrect == Spec => []TypeOK
  <1>1. Inv => TypeOK
    BY DEF Inv
  <1>2. QED
    BY Invariance, <1>1, PTL

(* What the invariant says of the terminal event is what TerminalIsTrue says of the whole channel. *)
LEMMA InvIsTrue == Inv => TerminalIsTrue
  <1> SUFFICES ASSUME Inv, NEW i \in DOMAIN Sent
               PROVE  /\ Sent[i] = Done => build = "ready" /\ i = offset + 1
                      /\ "tail" \in DOMAIN Sent[i] => /\ build = "error"
                                                      /\ Sent[i].tail = Last([n \in 1..(i - 1) |-> n], TailLimit)
    BY DEF TerminalIsTrue
  <1> USE DEF Inv
  <1>1. DOMAIN Sent = 1..Len(Sent) /\ next \in Nat \ {0}
    BY SentType DEF QueueInv, Sent, TypeOK
  <1>2. CASE i \in 1..(next - 1)
    <2>1. Sent[i] = Log(i) /\ i \in Nat
      BY <1>2 DEF SentInv
    <2>2. QED
      BY <2>1, Kinds
  <1>3. CASE i \notin 1..(next - 1)
    <2>1. Ended /\ i = next
      BY <1>1, <1>3 DEF SentInv
    <2>2. Agrees(Sent[i]) /\ next = offset + 1 /\ tail = LastOf(i - 1) /\ (status # "building" => build = status)
      BY <2>1 DEF SentInv, EmitInv, Ended
    <2>3. Sent[i] = Done => build = "ready" /\ i = offset + 1
      BY <2>1, <2>2 DEF Agrees
    <2>4. "tail" \in DOMAIN Sent[i] => build = "error" /\ Sent[i].tail = LastOf(i - 1)
      BY <2>2 DEF Agrees
    <2>5. QED
      BY <2>3, <2>4 DEF LastOf, Upto
  <1>4. QED
    BY <1>2, <1>3

(* Done is sent only of a build that is ready, after the entries of all the answers that were read (an entry *)
(* beyond the last answer is never sent), and BuildError only of one that failed, with the last entries sent *)
(* before it.                                                                                               *)
THEOREM TrueTerminal == Spec => []TerminalIsTrue
  BY Invariance, InvIsTrue, PTL

-------------------------------------------------------------------------------
(* While the loop runs, nothing terminal was sent; once it has ended, the last event sent is terminal. *)
LEMMA OverWhenEnded == ASSUME Inv PROVE Promise!Over <=> Ended
  <1> USE DEF Inv
  <1>1. /\ Sent \in Seq(Events) /\ Len(Sent) \in Nat /\ next \in Nat \ {0}
    BY SentType DEF QueueInv, Sent, TypeOK
  <1>2. CASE Ended
    <2>1. Len(Sent) = next /\ Terminal(Sent[next])
      BY <1>2, Kinds DEF SentInv, Agrees
    <2>2. Sent # <<>>
      BY <1>1, <2>1, EmptySeq
    <2>3. QED
      BY <1>2, <2>1, <2>2 DEF Promise!Over
  <1>3. CASE ~Ended
    <2>1. Len(Sent) = next - 1
      BY <1>3 DEF SentInv
    <2>2. ASSUME Sent # <<>> PROVE ~Terminal(Sent[Len(Sent)])
      <3>1. Len(Sent) \in 1..(next - 1)
        BY <1>1, <2>1, <2>2, EmptySeq
      <3>2. Sent[Len(Sent)] = Log(Len(Sent)) /\ Len(Sent) \in Nat
        BY <1>1, <3>1 DEF SentInv
      <3>3. QED
        BY <3>2, Kinds
    <2>3. QED
      BY <1>3, <2>2 DEF Promise!Over
  <1>4. QED
    BY <1>2, <1>3

(* A sequence is what is left of it when its last element is cut off again. *)
LEMMA SentIsPrefix == ASSUME NEW S, NEW s \in Seq(S), NEW x \in S PROVE SubSeq(s \o <<x>>, 1, Len(s)) = s
  <1>1. <<x>> \in Seq(S) /\ Len(s) \in Nat
    BY LenProperties
  <1>2. CASE Len(s) = 0
    BY <1>1, <1>2, SubSeqEmpty, EmptySeq
  <1>3. CASE Len(s) # 0
    <2>1. SubSeq(s \o <<x>>, 1, Len(s)) = SubSeq(s, 1, Len(s))
      BY <1>1, <1>3, SubSeqOfConcat1
    <2>2. QED
      BY <2>1, SubSeqFull
  <1>4. QED
    BY <1>2, <1>3

(* Each step of the poll loop is a step of the event stream it promises, or changes nothing of it. *)
LEMMA PromiseStep == Inv /\ [Next]_vars => [Promise!Next]_(Promise!vars)
  <1> SUFFICES ASSUME Inv, [Next]_vars PROVE [Promise!Next]_(Promise!vars)
    OBVIOUS
  <1> USE DEF Inv
  <1>1. Sent \in Seq(Events) /\ Len(Sent) \in Nat /\ closed = (pc = "exited")
    BY SentType DEF QueueInv, Sent, TypeOK
  <1>2. CASE EmitLog
    <2>1. Sent' = Append(Sent, Log(next)) /\ next = Len(Sent) + 1
      BY <1>2, EmitKeeps DEF TypeOK
    <2>2. ~Ended /\ closed = FALSE /\ closed' = closed
      BY <1>1, <1>2 DEF EmitLog, Ended
    <2>3. Promise!EmitLog
      BY <2>1, <2>2, OverWhenEnded DEF Promise!EmitLog
    <2>4. QED
      BY <2>3 DEF Promise!Next
  <1>3. CASE SendTerminal
    <2>1. PICK e : e = out[1] /\ Sent' = Append(Sent, e) /\ Terminal(e)
      BY <1>3, TerminalKeeps
    <2>2. e \in Events
      BY <1>3, <2>1, Kinds DEF SendTerminal, OutInv, Agrees
    <2>3. /\ Len(Sent') = Len(Sent) + 1 /\ Sent'[Len(Sent')] = e /\ Sent' = Sent \o <<e>>
      BY <1>1, <2>1, <2>2, AppendProperties, AppendIsConcat
    <2>4. SubSeq(Sent', 1, Len(Sent)) = Sent
      BY <1>1, <2>2, <2>3, SentIsPrefix
    <2>5. ~Ended /\ closed = FALSE /\ closed' = closed
      BY <1>1, <1>3 DEF SendTerminal, Ended
    <2>6. Promise!EmitTerminal
      BY <2>1, <2>3, <2>4, <2>5, OverWhenEnded DEF Promise!EmitTerminal
    <2>7. QED
      BY <2>6 DEF Promise!Next
  <1>4. CASE Close
    <2>1. Ended /\ closed = FALSE /\ closed' = TRUE /\ Sent' = Sent
      BY <1>1, <1>4, CloseKeeps DEF Close, Ended
    <2>2. Promise!End
      BY <2>1, OverWhenEnded DEF Promise!End
    <2>3. QED
      BY <2>2 DEF Promise!Next
  <1>5. CASE Consume \/ Abandon
    BY <1>5, ConsumerKeeps DEF Promise!vars
  <1>6. CASE WriteLog \/ Finish \/ CancelContext \/ CheckContext \/ Answer \/ AnswerFails \/ AnswerEmpty
             \/ ActOnStatus \/ Sleep \/ UNCHANGED vars
    <2>1. chan' = chan /\ got' = got /\ closed' = closed
      BY <1>6 DEF WriteLog, Finish, CancelContext, CheckContext, Answer, AnswerFails, AnswerEmpty,
                  ActOnStatus, Sleep, vars
    <2>2. QED
      BY <2>1 DEF Promise!vars, Sent
  <1>7. QED
    BY <1>2, <1>3, <1>4, <1>5, <1>6 DEF Next, Poll

(* The poll loop sends the entries in order, none twice and none skipped, then one terminal event, *)
(* and closes the channel after it: BuildPoll implements BuildEvents.                              *)
THEOREM PollKeepsPromise == Spec => KeepsPromise
  <1>1. Init => Promise!Init
    BY ConcatEmptySeq, EmptySeq DEF Init, Promise!Init, Sent
  <1>2. QED
    BY <1>1, PromiseStep, Invariance, PTL DEF Spec, KeepsPromise, Promise!Spec

-------------------------------------------------------------------------------
(***************************************************************************)
(* The Builder.  Each call is judged by what it makes of a Builder: Good   *)
(* says that its instructions are shaped and forced as they should be, and *)
(* Grows that it has the instructions asked for or an error.  The loops of *)
(* the code are recursive functions, so that first it must be proved that  *)
(* there are such functions.                                               *)
(***************************************************************************)

(* The loop over the lines of a Dockerfile. *)
LEMMA ParsingIs ==
    ASSUME NEW S, NEW lines \in Seq(S), NEW x
    PROVE  /\ Parsing(x, lines)[0] = x
           /\ \A n \in 1..Len(lines) : Parsing(x, lines)[n] = FromLine(Parsing(x, lines)[n - 1], lines[n])
  <1> DEFINE N      == Len(lines)
             Is(F, n) == F = [k \in 0..n |-> IF k = 0 THEN x ELSE FromLine(F[k - 1], lines[k])]
             T      == {n \in 0..N : \E F : Is(F, n)}
  <1>1. N \in Nat
    BY LenProperties
  <1>2. 0 \in T
    <2>1. Is([k \in 0..0 |-> x], 0)
      OBVIOUS
    <2>2. 0 \in 0..N
      BY <1>1
    <2> HIDE DEF Is, N
    <2>3. QED
      BY <2>1, <2>2
  <1>3. ASSUME NEW n \in 0..(N - 1), n \in T PROVE n + 1 \in T
    <2>1. PICK F : Is(F, n)
      BY <1>3
    <2> DEFINE G == [k \in 0..(n + 1) |-> IF k = n + 1 THEN FromLine(F[n], lines[k]) ELSE F[k]]
    <2>2. \A k \in 0..n : F[k] = IF k = 0 THEN x ELSE FromLine(F[k - 1], lines[k])
      BY <2>1
    <2>3. \A k \in 0..(n + 1) : G[k] = IF k = 0 THEN x ELSE FromLine(G[k - 1], lines[k])
      <3> TAKE k \in 0..(n + 1)
      <3>1. CASE k = n + 1
        <4>1. k # 0 /\ k - 1 = n /\ G[n] = F[n] /\ G[k] = FromLine(F[n], lines[k])
          BY <1>1, <3>1
        <4>2. QED
          BY <4>1
      <3>2. CASE k # n + 1
        <4>1. k \in 0..n /\ G[k] = F[k]
          BY <1>1, <3>2
        <4>2. k # 0 => k - 1 \in 0..n /\ G[k - 1] = F[k - 1]
          BY <1>1, <4>1
        <4>3. QED
          BY <2>2, <4>1, <4>2
      <3>3. QED
        BY <3>1, <3>2
    <2> HIDE DEF G
    <2>4. G = [k \in 0..(n + 1) |-> G[k]]
      BY DEF G
    <2>5. Is(G, n + 1)
      BY <2>3, <2>4
    <2>6. QED
      BY <1>1, <2>5
  <1>4. \E F : Is(F, N)
    <2> HIDE DEF T
    <2>1. \A n \in 0..N : n \in T
      BY <1>1, <1>2, <1>3, UpTo
    <2>2. QED
      BY <1>1, <2>1 DEF T
  <1>5. Parsing(x, lines) = CHOOSE F : Is(F, N)
    BY DEF Parsing
  <1>6. Is(Parsing(x, lines), N)
    BY <1>4, <1>5
  <1>7. QED
    BY <1>1, <1>6

(* The loop over the items of a CopyItems. *)
LEMMA CopyingIs ==
    ASSUME NEW S, NEW srcs \in Seq(S), NEW x
    PROVE  /\ Copying(x, srcs)[0] = x
           /\ \A n \in 1..Len(srcs) :
                 Copying(x, srcs)[n] = CopyTo(Copying(x, srcs)[n - 1], srcs[n], <<"d">>, NoText, NoText)
  <1> DEFINE N      == Len(srcs)
             Is(F, n) == F = [k \in 0..n |-> IF k = 0 THEN x
                                            ELSE CopyTo(F[k - 1], srcs[k], <<"d">>, NoText, NoText)]
             T      == {n \in 0..N : \E F : Is(F, n)}
  <1>1. N \in Nat
    BY LenProperties
  <1>2. 0 \in T
    <2>1. Is([k \in 0..0 |-> x], 0)
      OBVIOUS
    <2>2. 0 \in 0..N
      BY <1>1
    <2> HIDE DEF Is, N
    <2>3. QED
      BY <2>1, <2>2
  <1>3. ASSUME NEW n \in 0..(N - 1), n \in T PROVE n + 1 \in T
    <2>1. PICK F : Is(F, n)
      BY <1>3
    <2> DEFINE At(H, k) == CopyTo(H[k - 1], srcs[k], <<"d">>, NoText, NoText)
               G == [k \in 0..(n + 1) |-> IF k = n + 1 THEN At(F, k) ELSE F[k]]
    <2>2. \A k \in 0..n : F[k] = IF k = 0 THEN x ELSE At(F, k)
      BY <2>1
    <2>3. \A k \in 0..(n + 1) : G[k] = IF k = 0 THEN x ELSE At(G, k)
      <3> TAKE k \in 0..(n + 1)
      <3>1. CASE k = n + 1
        <4>1. k # 0 /\ k - 1 \in 0..n /\ G[k - 1] = F[k - 1] /\ G[k] = At(F, k)
          BY <1>1, <3>1
        <4>2. QED
          BY <4>1
      <3>2. CASE k # n + 1
        <4>1. k \in 0..n /\ G[k] = F[k]
          BY <1>1, <3>2
        <4>2. k # 0 => k - 1 \in 0..n /\ G[k - 1] = F[k - 1]
          BY <1>1, <4>1
        <4>3. QED
          BY <2>2, <4>1, <4>2
      <3>3. QED
        BY <3>1, <3>2
    <2> HIDE DEF G
    <2>4. G = [k \in 0..(n + 1) |-> G[k]]
      BY DEF G
    <2>5. Is(G, n + 1)
      BY <2>3, <2>4
    <2>6. QED
      BY <1>1, <2>5
  <1>4. \E F : Is(F, N)
    <2> HIDE DEF T
    <2>1. \A n \in 0..N : n \in T
      BY <1>1, <1>2, <1>3, UpTo
    <2>2. QED
      BY <1>1, <2>1 DEF T
  <1>5. Copying(x, srcs) = CHOOSE F : Is(F, N)
    BY DEF Copying
  <1>6. Is(Copying(x, srcs), N)
    BY <1>4, <1>5
  <1>7. QED
    BY <1>1, <1>6

-------------------------------------------------------------------------------
(* An instruction that is shaped as its type says, and a COPY of a path that is not rejected. *)
Proper(i) == Shaped(i) /\ (i.type = "COPY" => ~Rejected(i.args[1]))

(* A Builder whose instructions are forced as SkipCache was called: m are the places marked. *)
Good(x, m) ==
    /\ x \in Builders
    /\ m \subseteq 1..(Len(x.instructions) + 1)
    /\ \A n \in DOMAIN x.instructions :
          Proper(x.instructions[n]) /\ (x.instructions[n].force <=> n \in m)
    /\ x.forceNext <=> Len(x.instructions) + 1 \in m

(* What is made of x has n more instructions, or an error, and no error is lost. *)
Grows(x, y, n) == y.err = NoErr => x.err = NoErr /\ Len(y.instructions) = Len(x.instructions) + n

(* The fields of a Builder. *)
LEMMA BuilderIs ==
    ASSUME NEW x \in Builders
    PROVE  /\ x.image \in AnyText /\ x.template \in Templates \cup {NoTemplate} /\ x.registry \in BOOLEAN
           /\ x.start \in AnyText /\ x.ready \in AnyText /\ x.instructions \in Seq(Instructions)
           /\ x.forceNext \in BOOLEAN /\ x.err \in Errors \cup {NoErr}
           /\ Len(x.instructions) \in Nat /\ DOMAIN x.instructions = 1..Len(x.instructions)
           /\ \A n \in DOMAIN x.instructions : x.instructions[n] \in Instructions
  <1>1. x.instructions \in Seq(Instructions)
    BY DEF Builders
  <1>2. QED
    BY <1>1, LenProperties, ElementOfSeq DEF Builders

(* An instruction comes at the end, takes the flag, and resets it. *)
LEMMA AddToIs ==
    ASSUME NEW x \in Builders, NEW type \in Types, NEW args \in Seq(AnyText), NEW env \in SUBSET Pairs
    PROVE  /\ Instruction(x, type, args, env) \in Instructions
           /\ AddTo(x, type, args, env) \in Builders
           /\ AddTo(x, type, args, env).err = x.err
           /\ AddTo(x, type, args, env).image = x.image
           /\ AddTo(x, type, args, env).forceNext = FALSE
           /\ Len(AddTo(x, type, args, env).instructions) = Len(x.instructions) + 1
           /\ \A n \in 1..Len(x.instructions) : AddTo(x, type, args, env).instructions[n] = x.instructions[n]
           /\ AddTo(x, type, args, env).instructions[Len(x.instructions) + 1] = Instruction(x, type, args, env)
  <1> DEFINE y == AddTo(x, type, args, env)
             i == Instruction(x, type, args, env)
  <1>1. x.instructions \in Seq(Instructions) /\ Len(x.instructions) \in Nat /\ x.forceNext \in BOOLEAN
    BY BuilderIs
  <1>2. i \in Instructions
    BY <1>1 DEF Instruction, Instructions
  <1>3. y.err = x.err /\ y.image = x.image /\ y.forceNext = FALSE /\ y.instructions = Append(x.instructions, i)
    BY DEF AddTo, Builders
  <1> HIDE DEF i
  <1>4. /\ Append(x.instructions, i) \in Seq(Instructions)
        /\ Len(Append(x.instructions, i)) = Len(x.instructions) + 1
        /\ \A n \in 1..Len(x.instructions) : Append(x.instructions, i)[n] = x.instructions[n]
        /\ Append(x.instructions, i)[Len(x.instructions) + 1] = i
    BY <1>1, <1>2, AppendProperties
  <1>5. y \in Builders
    BY <1>4 DEF AddTo, Builders, i
  <1> HIDE DEF y
  <1>6. /\ i \in Instructions /\ y \in Builders
        /\ y.err = x.err /\ y.image = x.image /\ y.forceNext = FALSE
        /\ Len(y.instructions) = Len(x.instructions) + 1
        /\ \A n \in 1..Len(x.instructions) : y.instructions[n] = x.instructions[n]
        /\ y.instructions[Len(x.instructions) + 1] = i
    BY <1>2, <1>3, <1>4, <1>5
  <1>7. QED
    BY <1>6 DEF y, i

(* An instruction is added as it was asked for, and forced if the place was marked. *)
LEMMA AddToKeeps ==
    ASSUME NEW x, NEW m, Good(x, m), NEW type \in Types, NEW args \in Seq(AnyText), NEW env \in SUBSET Pairs,
           Proper(Instruction(x, type, args, env))
    PROVE  Good(AddTo(x, type, args, env), m) /\ Grows(x, AddTo(x, type, args, env), 1)
  <1> DEFINE y == AddTo(x, type, args, env)
             i == Instruction(x, type, args, env)
             L == Len(x.instructions)
  <1>1. x \in Builders /\ L \in Nat /\ DOMAIN x.instructions = 1..L
    BY BuilderIs DEF Good
  <1>2. /\ y \in Builders /\ y.err = x.err /\ y.forceNext = FALSE /\ Len(y.instructions) = L + 1
        /\ \A n \in 1..L : y.instructions[n] = x.instructions[n]
        /\ y.instructions[L + 1] = i /\ i.force = x.forceNext
    BY <1>1, AddToIs DEF Instruction
  <1> HIDE DEF y, i
  <1>3. \A n \in DOMAIN y.instructions : Proper(y.instructions[n]) /\ (y.instructions[n].force <=> n \in m)
    <2> TAKE n \in DOMAIN y.instructions
    <2>1. CASE n \in 1..L
      BY <1>1, <1>2, <2>1 DEF Good
    <2>2. CASE n = L + 1
      <3>1. y.instructions[n].force = x.forceNext /\ Proper(y.instructions[n])
        BY <1>2, <2>2 DEF i
      <3>2. QED
        BY <2>2, <3>1 DEF Good
    <2>3. n \in 1..(L + 1)
      BY <1>1, <1>2, BuilderIs
    <2>4. QED
      BY <1>1, <2>1, <2>2, <2>3
  <1>4. m \subseteq 1..(L + 1) /\ L + 1 + 1 \notin m
    BY <1>1 DEF Good
  <1>5. m \subseteq 1..(Len(y.instructions) + 1) /\ (y.forceNext <=> Len(y.instructions) + 1 \in m)
    BY <1>1, <1>2, <1>4
  <1>6. Good(y, m)
    BY <1>2, <1>3, <1>5 DEF Good
  <1>7. Grows(x, y, 1)
    BY <1>2 DEF Grows
  <1>8. QED
    BY <1>6, <1>7 DEF y

(* An error stays, and nothing need be added any more. *)
LEMMA FailKeeps ==
    ASSUME NEW x, NEW m, Good(x, m), NEW e \in Errors
    PROVE  Good(Fail(x, e), m) /\ \A n : Grows(x, Fail(x, e), n)
  <1> DEFINE y == Fail(x, e)
  <1>1. x \in Builders /\ e # NoErr
    BY DEF Good, Errors, NoErr
  <1>2. /\ y \in Builders /\ y.err # NoErr
        /\ y.instructions = x.instructions /\ y.forceNext = x.forceNext
    BY <1>1 DEF Fail, Builders
  <1> HIDE DEF y
  <1>3. Good(y, m) /\ \A n : Grows(x, y, n)
    BY <1>2 DEF Good, Grows
  <1>4. QED
    BY <1>3 DEF y

(* A change of fields that are no instructions is no harm. *)
LEMMA FieldsKeep ==
    ASSUME NEW x, NEW m, Good(x, m), NEW y \in Builders,
           y.instructions = x.instructions, y.forceNext = x.forceNext, y.err = x.err
    PROVE  Good(y, m) /\ Grows(x, y, 0)
  <1>1. Len(x.instructions) \in Nat
    BY BuilderIs DEF Good
  <1>2. QED
    BY <1>1 DEF Good, Grows

(* A RUN, of the user given or of none. *)
LEMMA RunAsKeeps ==
    ASSUME NEW x, NEW m, Good(x, m), NEW cmd \in AnyText, NEW user \in AnyText
    PROVE  Good(RunAs(x, cmd, user), m) /\ Grows(x, RunAs(x, cmd, user), 1)
  <1> DEFINE args == IF user = NoText THEN <<cmd>> ELSE <<cmd, user>>
  <1>1. args \in Seq(AnyText) /\ Len(args) \in {1, 2}
    OBVIOUS
  <1> HIDE DEF args
  <1>2. Proper(Instruction(x, "RUN", args, {}))
    BY <1>1 DEF Proper, Shaped, Instruction
  <1>3. RunAs(x, cmd, user) = AddTo(x, "RUN", args, {})
    BY DEF RunAs, Add, args
  <1>4. QED
    BY <1>1, <1>2, <1>3, AddToKeeps DEF Types

(* A COPY, or the error of its path. *)
LEMMA CopyToKeeps ==
    ASSUME NEW x, NEW m, Good(x, m), NEW src \in AnyText, NEW dst \in AnyText,
           NEW user \in AnyText, NEW mode \in AnyText
    PROVE  Good(CopyTo(x, src, dst, user, mode), m) /\ Grows(x, CopyTo(x, src, dst, user, mode), 1)
  <1>1. CASE Rejected(src)
    BY <1>1, FailKeeps DEF CopyTo, Errors
  <1>2. CASE ~Rejected(src)
    <2> DEFINE args == <<src, dst, user, mode>>
    <2>1. args \in Seq(AnyText) /\ Len(args) = 4 /\ args[1] = src
      OBVIOUS
    <2> HIDE DEF args
    <2>2. Proper(Instruction(x, "COPY", args, {}))
      BY <1>2, <2>1 DEF Proper, Shaped, Instruction
    <2>3. CopyTo(x, src, dst, user, mode) = AddTo(x, "COPY", args, {})
      BY <1>2 DEF CopyTo, Add, args
    <2>4. QED
      BY <2>1, <2>2, <2>3, AddToKeeps DEF Types
  <1>3. QED
    BY <1>1, <1>2

(* WORKDIR, USER, EXPOSE, ENTRYPOINT: one argument. *)
LEMMA AddKeeps ==
    ASSUME NEW x, NEW m, Good(x, m), NEW type \in {"WORKDIR", "USER", "EXPOSE", "ENTRYPOINT"}, NEW text \in AnyText
    PROVE  Good(Add(x, type, <<text>>), m) /\ Grows(x, Add(x, type, <<text>>), 1)
  <1>1. <<text>> \in Seq(AnyText) /\ Len(<<text>>) = 1
    OBVIOUS
  <1>2. Proper(Instruction(x, type, <<text>>, {}))
    BY <1>1 DEF Proper, Shaped, Instruction
  <1>3. QED
    BY <1>1, <1>2, AddToKeeps DEF Types, Add

(* An ENV, unless there is no pair. *)
LEMMA SetEnvsKeeps ==
    ASSUME NEW x, NEW m, Good(x, m), NEW pairs \in SUBSET Pairs
    PROVE  /\ Good(SetEnvsOf(x, pairs), m)
           /\ Grows(x, SetEnvsOf(x, pairs), IF pairs = {} THEN 0 ELSE 1)
  <1>1. CASE pairs = {}
    BY <1>1, FieldsKeep DEF SetEnvsOf, Good
  <1>2. CASE pairs # {}
    <2>1. <<>> \in Seq(AnyText) /\ Len(<<>>) = 0
      BY EmptySeq
    <2>2. Proper(Instruction(x, "ENV", <<>>, pairs))
      BY <1>2, <2>1 DEF Proper, Shaped, Instruction
    <2>3. QED
      BY <1>2, <2>1, <2>2, AddToKeeps DEF Types, SetEnvsOf
  <1>3. QED
    BY <1>1, <1>2

(* A word alone is a text, and so is none. *)
LEMMA TextsAre == /\ NoText \in AnyText
                  /\ \A w \in Words : <<w>> \in AnyText /\ Len(<<w>>) = 1
                  /\ Empty \notin Words
                  /\ {<<w>> : w \in OwnWords} \subseteq AnyText
  <1>1. NoText \in AnyText
    BY EmptySeq DEF NoText, AnyText
  <1>2. \A w \in Words : <<w>> \in AnyText /\ Len(<<w>>) = 1
    BY DEF AnyText
  <1>3. OwnWords \subseteq Words
    BY DEF Words
  <1>4. Empty \notin Words
    BY BuilderOK, Zenon DEF Words, OwnWords, Empty
  <1>5. QED
    BY <1>1, <1>2, <1>3, <1>4

(* The pairs that parseEnvLine makes. *)
LEMMA ParsedPairs == ASSUME NEW tokens \in Seq(Tokens) PROVE ParseEnvLine(tokens) \in SUBSET Pairs
  <1>1. ASSUME NEW n \in DOMAIN tokens, tokens[n].key # Empty
        PROVE  <<tokens[n].key, IF tokens[n].value = Empty THEN NoText ELSE <<tokens[n].value>>>> \in Pairs
    <2>1. tokens[n] \in Tokens
      BY ElementOfSeq, LenProperties
    <2>2. tokens[n].key \in Words \cup {Empty} /\ tokens[n].value \in Words \cup {Empty}
      BY <2>1 DEF Tokens
    <2>3. (IF tokens[n].value = Empty THEN NoText ELSE <<tokens[n].value>>) \in AnyText
      BY <2>2, TextsAre
    <2>4. QED
      BY <2>2, <2>3 DEF Pairs
  <1>2. QED
    BY <1>1 DEF ParseEnvLine

(* A line of a Dockerfile adds one instruction if it asks for one. *)
LEMMA FromLineKeeps ==
    ASSUME NEW x, NEW m, Good(x, m), NEW line \in Lines
    PROVE  Good(FromLine(x, line), m) /\ Grows(x, FromLine(x, line), IF Asks(line) THEN 1 ELSE 0)
  <1>1. line.words \in AnyText /\ line.tokens \in Seq(Tokens) /\ NoText \in AnyText
    BY EmptySeq DEF Lines, NoText, AnyText
  <1>2. CASE line.head = "FROM"
    <2>1. FromLine(x, line) = [x EXCEPT !.image = line.words] /\ ~Asks(line)
      BY <1>2 DEF FromLine, Asks
    <2>2. [x EXCEPT !.image = line.words] \in Builders
      BY <1>1 DEF Good, Builders
    <2>3. QED
      BY <2>1, <2>2, FieldsKeep DEF Good, Builders
  <1>3. CASE line.head = "RUN"
    BY <1>1, <1>3, RunAsKeeps DEF FromLine, Asks
  <1>4. CASE line.head = "COPY" /\ Len(line.words) >= 2
    <2>1. <<line.words[1]>> \in AnyText /\ <<line.words[2]>> \in AnyText
      BY <1>1, <1>4, LenProperties, ElementOfSeq DEF AnyText
    <2>2. QED
      BY <1>1, <1>4, <2>1, CopyToKeeps DEF FromLine, Asks
  <1>5. CASE line.head \in {"WORKDIR", "USER"}
    BY <1>1, <1>5, AddKeeps DEF FromLine, Asks
  <1>6. CASE line.head = "ENV"
    <2>1. ParseEnvLine(line.tokens) \in SUBSET Pairs
      BY <1>1, ParsedPairs
    <2>2. FromLine(x, line) = SetEnvsOf(x, ParseEnvLine(line.tokens))
      BY <1>6 DEF FromLine
    <2>3. Asks(line) <=> ParseEnvLine(line.tokens) # {}
      BY <1>6 DEF Asks
    <2>4. QED
      BY <2>1, <2>2, <2>3, SetEnvsKeeps
  <1>7. CASE \/ line.head \notin {"FROM", "RUN", "COPY", "WORKDIR", "USER", "ENV"}
             \/ line.head = "COPY" /\ ~(Len(line.words) >= 2)
    <2>1. FromLine(x, line) = x /\ ~Asks(line)
      BY <1>7 DEF FromLine, Asks
    <2>2. QED
      BY <2>1, FieldsKeep DEF Good
  <1>8. QED
    BY <1>2, <1>3, <1>4, <1>5, <1>6, <1>7

-------------------------------------------------------------------------------
(* The loops. *)

(* Growth adds up. *)
LEMMA GrowsMore ==
    ASSUME NEW x \in Builders, NEW y, NEW z, NEW n \in Nat, NEW k \in Nat, Grows(x, y, n), Grows(y, z, k)
    PROVE  Grows(x, z, n + k)
  <1> SUFFICES ASSUME z.err = NoErr
               PROVE  x.err = NoErr /\ Len(z.instructions) = Len(x.instructions) + (n + k)
    BY DEF Grows
  <1>1. x.err = NoErr /\ Len(z.instructions) = Len(y.instructions) + k
        /\ Len(y.instructions) = Len(x.instructions) + n
    BY DEF Grows
  <1>2. Len(x.instructions) \in Nat
    BY BuilderIs
  <1>3. \A p, q \in Nat : q = p + n => q + k = p + (n + k)
    OBVIOUS
  <1>4. Len(y.instructions) \in Nat
    BY <1>1, <1>2
  <1>5. QED
    BY <1>1, <1>2, <1>3, <1>4

(* The lines scanned are lines, and all of them when none is too long. *)
LEMMA ScannedIs ==
    ASSUME NEW S, NEW lines \in Seq(S)
    PROVE  /\ Scanned(lines) \in Seq(S)
           /\ (\A n \in DOMAIN lines : ~Overlong(lines[n])) => Scanned(lines) = lines
  <1> DEFINE N    == Len(lines)
             read == {n \in DOMAIN lines : \A m \in 1..n : ~Overlong(lines[m])}
             R    == Cardinality(read)
  <1>1. N \in Nat /\ DOMAIN lines = 1..N /\ \A n \in 1..N : lines[n] \in S
    BY LenProperties, ElementOfSeq
  <1>2. IsFiniteSet(1..N) /\ Cardinality(1..N) = N
    <2> HIDE DEF N
    <2>1. IsFiniteSet(1..N) /\ Cardinality(1..N) = IF 1 > N THEN 0 ELSE N - 1 + 1
      BY <1>1, FS_Interval
    <2>2. (IF 1 > N THEN 0 ELSE N - 1 + 1) = N
      BY <1>1
    <2>3. QED
      BY <2>1, <2>2
  <1>3. IsFiniteSet(read) /\ R \in Nat /\ R <= N
    <2>1. read \subseteq 1..N
      BY <1>1
    <2> HIDE DEF read, N
    <2>2. QED
      BY <1>2, <2>1, FS_Subset, FS_CardinalityType
  <1>4. Scanned(lines) = SubSeq(lines, 1, R)
    BY DEF Scanned
  <1> HIDE DEF R
  <1>5. Scanned(lines) \in Seq(S)
    <2>1. \A i \in 1..R : lines[i] \in S
      BY <1>1, <1>3
    <2>2. QED
      BY <1>3, <1>4, <2>1, SubSeqProperties
  <1>6. ASSUME \A n \in DOMAIN lines : ~Overlong(lines[n]) PROVE Scanned(lines) = lines
    <2>1. read = 1..N
      BY <1>1, <1>6
    <2>2. R = N
      BY <1>2, <2>1, Zenon DEF R
    <2>3. QED
      BY <1>4, <2>2, SubSeqFull
  <1>7. QED
    BY <1>5, <1>6

(* Instructions are counted. *)
LEMMA AskingIs == ASSUME NEW S, NEW lines \in Seq(S), NEW from PROVE Asking(lines, from) \in Nat
  <1> DEFINE those == {n \in DOMAIN lines : n >= from /\ Asks(lines[n])}
  <1>1. IsFiniteSet(DOMAIN lines) /\ those \subseteq DOMAIN lines
    BY LenProperties, FS_Interval
  <1> HIDE DEF those
  <1>2. Cardinality(those) \in Nat
    BY <1>1, FS_Subset, FS_CardinalityType
  <1>3. QED
    BY <1>2 DEF Asking, those

(* A Dockerfile adds what its lines ask for. *)
LEMMA ParsingKeeps ==
    ASSUME NEW x, NEW m, Good(x, m), NEW lines \in Seq(Lines)
    PROVE  LET n == Asking(lines, 1)
               y == Parsing(x, lines)[Len(lines)]
           IN  n \in Nat /\ Good(y, m) /\ Grows(x, y, n)
  <1> DEFINE N == Len(lines)
             F == Parsing(x, lines)
             AskingTo(n) == {k \in 1..n : Asks(lines[k])}
             T == {n \in 0..N : /\ IsFiniteSet(AskingTo(n)) /\ Cardinality(AskingTo(n)) \in Nat
                                /\ Good(F[n], m) /\ Grows(x, F[n], Cardinality(AskingTo(n)))}
  <1>1. N \in Nat /\ DOMAIN lines = 1..N /\ \A n \in 1..N : lines[n] \in Lines
    BY LenProperties, ElementOfSeq
  <1>2. F[0] = x /\ \A n \in 1..N : F[n] = FromLine(F[n - 1], lines[n])
    BY ParsingIs
  <1> HIDE DEF F
  <1>3. 0 \in T
    <2>1. AskingTo(0) = {}
      OBVIOUS
    <2>2. IsFiniteSet(AskingTo(0)) /\ Cardinality(AskingTo(0)) = 0
      BY <2>1, FS_EmptySet
    <2>3. Good(F[0], m) /\ Grows(x, F[0], 0)
      BY <1>2, FieldsKeep DEF Good
    <2> HIDE DEF AskingTo
    <2>4. QED
      BY <1>1, <2>2, <2>3
  <1>4. ASSUME NEW n \in 0..(N - 1), n \in T PROVE n + 1 \in T
    <2> DEFINE line == lines[n + 1]
               more == IF Asks(line) THEN 1 ELSE 0
    <2>1. n \in Nat /\ n + 1 \in 1..N /\ line \in Lines /\ F[n + 1] = FromLine(F[n], line)
      BY <1>1, <1>2
    <2>2. Good(F[n + 1], m) /\ Grows(F[n], F[n + 1], more)
      BY <1>4, <2>1, FromLineKeeps
    <2>3. /\ IsFiniteSet(AskingTo(n + 1)) /\ Cardinality(AskingTo(n + 1)) \in Nat
          /\ Cardinality(AskingTo(n + 1)) = Cardinality(AskingTo(n)) + more
      <3>1. CASE Asks(line)
        <4>1. AskingTo(n + 1) = AskingTo(n) \cup {n + 1} /\ n + 1 \notin AskingTo(n)
          BY <2>1, <3>1
        <4>2. IsFiniteSet(AskingTo(n)) /\ Cardinality(AskingTo(n)) \in Nat
          BY <1>4
        <4> HIDE DEF AskingTo
        <4>3. /\ IsFiniteSet(AskingTo(n) \cup {n + 1})
              /\ Cardinality(AskingTo(n) \cup {n + 1}) = Cardinality(AskingTo(n)) + 1
          BY <4>1, <4>2, FS_AddElement
        <4>4. more = 1
          BY <3>1
        <4> HIDE DEF more
        <4>5. IsFiniteSet(AskingTo(n + 1)) /\ Cardinality(AskingTo(n + 1)) = Cardinality(AskingTo(n)) + 1
          BY <4>1, <4>3, Zenon
        <4>6. QED
          BY <4>2, <4>4, <4>5
      <3>2. CASE ~Asks(line)
        <4>1. AskingTo(n + 1) = AskingTo(n)
          BY <2>1, <3>2
        <4>2. IsFiniteSet(AskingTo(n)) /\ Cardinality(AskingTo(n)) \in Nat
          BY <1>4
        <4> HIDE DEF AskingTo
        <4>3. QED
          BY <3>2, <4>1, <4>2
      <3>3. QED
        BY <3>1, <3>2
    <2>4. Grows(x, F[n], Cardinality(AskingTo(n))) /\ Cardinality(AskingTo(n)) \in Nat
      BY <1>4
    <2>5. more \in Nat /\ x \in Builders
      BY DEF Good
    <2> HIDE DEF AskingTo, more
    <2>6. Grows(x, F[n + 1], Cardinality(AskingTo(n + 1)))
      BY <2>2, <2>3, <2>4, <2>5, GrowsMore
    <2>7. QED
      BY <1>1, <2>1, <2>2, <2>3, <2>6
  <1>5. N \in T
    <2> HIDE DEF T
    <2>1. \A n \in 0..N : n \in T
      BY <1>1, <1>3, <1>4, UpTo
    <2>2. QED
      BY <1>1, <2>1
  <1>6. {k \in DOMAIN lines : k >= 1 /\ Asks(lines[k])} = AskingTo(N)
    BY <1>1
  <1>7. Asking(lines, 1) = Cardinality(AskingTo(N))
    BY <1>6, Zenon DEF Asking
  <1>8. QED
    BY <1>1, <1>5, <1>7 DEF F

(* CopyItems adds a COPY for each item, or has an error. *)
LEMMA CopyingKeeps ==
    ASSUME NEW x, NEW m, Good(x, m), NEW srcs \in Seq(AnyText)
    PROVE  /\ Len(srcs) \in Nat
           /\ Good(Copying(x, srcs)[Len(srcs)], m) /\ Grows(x, Copying(x, srcs)[Len(srcs)], Len(srcs))
  <1> DEFINE N == Len(srcs)
             F == Copying(x, srcs)
             T == {n \in 0..N : Good(F[n], m) /\ Grows(x, F[n], n)}
  <1>1. N \in Nat /\ \A n \in 1..N : srcs[n] \in AnyText
    BY LenProperties, ElementOfSeq
  <1>2. F[0] = x /\ \A n \in 1..N : F[n] = CopyTo(F[n - 1], srcs[n], <<"d">>, NoText, NoText)
    BY CopyingIs
  <1> HIDE DEF F
  <1>3. 0 \in T
    <2>1. Good(F[0], m) /\ Grows(x, F[0], 0)
      BY <1>2, FieldsKeep DEF Good
    <2>2. QED
      BY <1>1, <2>1
  <1>4. ASSUME NEW n \in 0..(N - 1), n \in T PROVE n + 1 \in T
    <2>1. n \in Nat /\ n + 1 \in 1..N /\ F[n + 1] = CopyTo(F[n], srcs[n + 1], <<"d">>, NoText, NoText)
      BY <1>1, <1>2
    <2>2. <<"d">> \in AnyText /\ NoText \in AnyText
      BY TextsAre DEF OwnWords
    <2>3. Good(F[n], m) /\ Grows(x, F[n], n)
      BY <1>4
    <2>4. Good(F[n + 1], m) /\ Grows(F[n], F[n + 1], 1)
      BY <1>1, <2>1, <2>2, <2>3, CopyToKeeps
    <2>5. Grows(x, F[n + 1], n + 1)
      BY <2>1, <2>3, <2>4, GrowsMore DEF Good
    <2>6. QED
      BY <1>1, <2>1, <2>4, <2>5
  <1>5. N \in T
    <2> HIDE DEF T
    <2>1. \A n \in 0..N : n \in T
      BY <1>1, <1>3, <1>4, UpTo
    <2>2. QED
      BY <1>1, <2>1
  <1>6. QED
    BY <1>1, <1>5 DEF F

-------------------------------------------------------------------------------
(* The Builder is good, and holds what was asked for unless there is an error. *)
BuilderInv == /\ Good(b, marks) /\ Grows(New, b, asked - unread)
              /\ calls \in 0..MaxCalls /\ asked \in Nat /\ unread \in Nat /\ unread <= asked

(* A new Builder has no instruction and no error. *)
LEMMA NewIs == New \in Builders /\ New.err = NoErr /\ Len(New.instructions) = 0 /\ New.instructions = <<>>
               /\ New.forceNext = FALSE
  <1>1. DefaultImage \in AnyText /\ NoText \in AnyText
    BY TextsAre DEF DefaultImage, OwnWords
  <1>2. <<>> \in Seq(Instructions) /\ Len(<<>>) = 0
    BY EmptySeq
  <1>3. QED
    BY <1>1, <1>2 DEF New, Builders, NoErr, NoTemplate

(* A new Builder is good. *)
LEMMA InitBuilder == BInit => BuilderInv
  <1> SUFFICES ASSUME BInit PROVE BuilderInv
    OBVIOUS
  <1>1. b = New /\ calls = 0 /\ asked = 0 /\ unread = 0 /\ marks = {}
    BY DEF BInit
  <1>2. Good(New, {})
    BY NewIs, BuilderIs DEF Good
  <1>3. Grows(New, b, asked - unread) /\ asked \in Nat /\ unread \in Nat /\ unread <= asked
    BY <1>1, NewIs DEF Grows
  <1>4. calls \in 0..MaxCalls
    <2>1. MaxCalls \in Nat
      BY BuilderOK
    <2>2. QED
      BY <1>1, <2>1
  <1>5. QED
    BY <1>1, <1>2, <1>3, <1>4 DEF BuilderInv

(* What a call has to do to keep the invariant. *)
LEMMA CallKeeps ==
    ASSUME BuilderInv, NEW x, NEW n \in Nat, NEW k \in Nat,
           Call(x, n + k), unread' = unread + k, Good(x, marks'), Grows(b, x, n)
    PROVE  BuilderInv'
  <1>1. b' = x /\ asked' = asked + (n + k) /\ calls' = calls + 1 /\ calls < MaxCalls
    BY DEF Call
  <1>2. /\ asked' - unread' = (asked - unread) + n /\ asked - unread \in Nat
        /\ asked' \in Nat /\ unread' \in Nat /\ unread' <= asked'
    BY <1>1 DEF BuilderInv
  <1>3. Grows(New, x, (asked - unread) + n)
    BY <1>2, NewIs, GrowsMore DEF BuilderInv
  <1>4. calls' \in 0..MaxCalls
    <2>1. MaxCalls \in Nat
      BY BuilderOK
    <2>2. QED
      BY <1>1, <2>1 DEF BuilderInv
  <1>5. Good(b, marks)' /\ Grows(New, b, asked - unread)'
    BY <1>1, <1>2, <1>3
  <1>6. QED
    BY <1>2, <1>4, <1>5 DEF BuilderInv

(* The same of a call that marks nothing, and leaves nothing unread. *)
LEMMA MakeKeeps ==
    ASSUME BuilderInv, NEW x, NEW n \in Nat, Make(x, n), Good(x, marks), Grows(b, x, n)
    PROVE  BuilderInv'
  <1>1. n + 0 = n /\ unread + 0 = unread /\ 0 \in Nat
    BY DEF BuilderInv
  <1>2. QED
    BY <1>1, CallKeeps DEF Make

(* What the callers give is of its type. *)
LEMMA ConstantsAre == /\ \A t \in Images \cup Texts \cup Sources \cup Users \cup Modes : t \in AnyText
                      /\ \A srcs \in ItemLists : srcs \in Seq(AnyText)
                      /\ \A pairs \in EnvMaps : pairs \in SUBSET Pairs
                      /\ \A lines \in Dockerfiles : lines \in Seq(Lines)
  BY BuilderOK, Zenon

(* SkipCache marks the next place. *)
LEMMA SkipCacheKeeps == ASSUME BuilderInv, SkipCache PROVE BuilderInv'
  <1> DEFINE x == [b EXCEPT !.forceNext = TRUE]
             L == Len(b.instructions)
  <1>1. Call(x, 0 + 0) /\ unread' = unread + 0 /\ marks' = marks \cup {L + 1}
    BY DEF SkipCache, BuilderInv
  <1>2. b \in Builders /\ L \in Nat /\ DOMAIN b.instructions = 1..L
    BY BuilderIs DEF BuilderInv, Good
  <1>3. x \in Builders /\ x.instructions = b.instructions /\ x.err = b.err /\ x.forceNext = TRUE
    BY <1>2 DEF Builders
  <1> HIDE DEF x
  <1>4. Good(x, marks')
    <2>1. marks' \subseteq 1..(L + 1) /\ L + 1 \in marks'
      <3>1. marks \subseteq 1..(L + 1)
        BY DEF BuilderInv, Good
      <3>2. L + 1 \in 1..(L + 1)
        BY <1>2
      <3> HIDE DEF L
      <3>3. QED
        BY <1>1, <3>1, <3>2
    <2>2. \A n \in 1..L : n \in marks' <=> n \in marks
      BY <1>1, <1>2
    <2>3. \A n \in DOMAIN b.instructions :
             Proper(b.instructions[n]) /\ (b.instructions[n].force <=> n \in marks')
      BY <1>2, <2>2 DEF BuilderInv, Good
    <2>4. QED
      BY <1>3, <2>1, <2>3 DEF Good
  <1>5. Grows(b, x, 0)
    BY <1>2, <1>3 DEF Grows
  <1>6. QED
    BY <1>1, <1>4, <1>5, CallKeeps

(* The calls that only set fields of the Builder. *)
LEMMA SetFieldsKeeps ==
    ASSUME BuilderInv,
           \/ \E image \in Images, creds \in BOOLEAN : FromImage(image, creds)
           \/ \E template \in Templates : FromTemplate(template)
           \/ \E cmd, ready \in Texts : SetStartCmd(cmd, ready)
           \/ \E ready \in Texts : SetReadyCmd(ready)
    PROVE  BuilderInv'
  <1>1. ASSUME NEW y, Make(y, 0), y \in Builders, y.instructions = b.instructions,
               y.forceNext = b.forceNext, y.err = b.err
        PROVE  BuilderInv'
    BY <1>1, FieldsKeep, MakeKeeps DEF BuilderInv
  <1>2. b \in Builders
    BY DEF BuilderInv, Good
  <1>3. ASSUME NEW image \in Images, NEW creds \in BOOLEAN, FromImage(image, creds) PROVE BuilderInv'
    <2> DEFINE y == [b EXCEPT !.image = image, !.template = NoTemplate, !.registry = creds]
    <2>1. Make(y, 0) /\ image \in AnyText
      BY <1>3, ConstantsAre DEF FromImage
    <2>2. y \in Builders /\ y.instructions = b.instructions /\ y.forceNext = b.forceNext /\ y.err = b.err
      BY <1>2, <2>1 DEF Builders
    <2> HIDE DEF y
    <2>3. QED
      BY <1>1, <2>1, <2>2
  <1>4. ASSUME NEW template \in Templates, FromTemplate(template) PROVE BuilderInv'
    <2> DEFINE y == [b EXCEPT !.template = template, !.image = NoText]
    <2>1. Make(y, 0) /\ NoText \in AnyText
      BY <1>4, TextsAre DEF FromTemplate
    <2>2. y \in Builders /\ y.instructions = b.instructions /\ y.forceNext = b.forceNext /\ y.err = b.err
      BY <1>2, <2>1 DEF Builders
    <2> HIDE DEF y
    <2>3. QED
      BY <1>1, <2>1, <2>2
  <1>5. ASSUME NEW cmd \in AnyText, NEW ready \in AnyText, Make([b EXCEPT !.start = cmd, !.ready = ready], 0)
        PROVE  BuilderInv'
    <2> DEFINE y == [b EXCEPT !.start = cmd, !.ready = ready]
    <2>1. y \in Builders /\ y.instructions = b.instructions /\ y.forceNext = b.forceNext /\ y.err = b.err
      BY <1>2 DEF Builders
    <2>2. Make(y, 0)
      BY <1>5
    <2> HIDE DEF y
    <2>3. QED
      BY <1>1, <2>1, <2>2
  <1>6. ASSUME NEW ready \in AnyText, Make([b EXCEPT !.ready = ready], 0) PROVE BuilderInv'
    <2> DEFINE y == [b EXCEPT !.ready = ready]
    <2>1. y \in Builders /\ y.instructions = b.instructions /\ y.forceNext = b.forceNext /\ y.err = b.err
      BY <1>2 DEF Builders
    <2>2. Make(y, 0)
      BY <1>6
    <2> HIDE DEF y
    <2>3. QED
      BY <1>1, <2>1, <2>2
  <1>7. QED
    BY <1>3, <1>4, <1>5, <1>6, ConstantsAre DEF SetStartCmd, SetReadyCmd

(* The calls for one base template, which fail on any other. *)
LEMMA TemplateCallsKeep ==
    ASSUME BuilderInv, AddMCPServer \/ BetaDevContainerPrebuild \/ BetaSetDevContainerStart PROVE BuilderInv'
  <1>1. Good(b, marks) /\ b \in Builders
    BY DEF BuilderInv, Good
  <1>2. <<"pull">> \in AnyText /\ <<"root">> \in AnyText /\ <<"prebuild">> \in AnyText /\ <<"up">> \in AnyText
    BY TextsAre DEF OwnWords
  <1>3. CASE AddMCPServer
    <2>1. PICK y : Make(y, 1) /\ (y = RunAs(b, <<"pull">>, <<"root">>) \/ y = Fail(b, "mcp"))
      BY <1>3 DEF AddMCPServer
    <2>2. Good(y, marks) /\ Grows(b, y, 1)
      BY <1>1, <1>2, <2>1, RunAsKeeps, FailKeeps DEF Errors
    <2>3. QED
      BY <2>1, <2>2, MakeKeeps
  <1>4. CASE BetaDevContainerPrebuild
    <2>1. PICK y : Make(y, 1) /\ (y = RunAs(b, <<"prebuild">>, <<"root">>) \/ y = Fail(b, "prebuild"))
      BY <1>4 DEF BetaDevContainerPrebuild
    <2>2. Good(y, marks) /\ Grows(b, y, 1)
      BY <1>1, <1>2, <2>1, RunAsKeeps, FailKeeps DEF Errors
    <2>3. QED
      BY <2>1, <2>2, MakeKeeps
  <1>5. CASE BetaSetDevContainerStart
    <2>1. PICK y : Make(y, 0) /\ (y = [b EXCEPT !.start = <<"up">>, !.ready = <<"up">>] \/ y = Fail(b, "start"))
      BY <1>5 DEF BetaSetDevContainerStart
    <2>2. CASE y = [b EXCEPT !.start = <<"up">>, !.ready = <<"up">>]
      <3>1. y \in Builders /\ y.instructions = b.instructions /\ y.forceNext = b.forceNext /\ y.err = b.err
        BY <1>1, <1>2, <2>2 DEF Builders
      <3>2. QED
        BY <1>1, <2>1, <3>1, FieldsKeep, MakeKeeps
    <2>3. CASE y = Fail(b, "start")
      BY <1>1, <2>1, <2>3, FailKeeps, MakeKeeps DEF Errors
    <2>4. QED
      BY <2>1, <2>2, <2>3
  <1>6. QED
    BY <1>3, <1>4, <1>5

(* The calls that add one instruction. *)
LEMMA AddingKeeps ==
    ASSUME BuilderInv,
           \/ \E cmd \in Texts, user \in Users : RunCmd(cmd, user)
           \/ \E user \in Users : FileCommand(user) \/ GitClone(user)
           \/ \E system \in BOOLEAN : PackageInstall(system)
           \/ \E src \in Sources, dst \in Texts, user \in Users, mode \in Modes : Copy(src, dst, user, mode)
           \/ \E path \in Texts : SetWorkdir(path)
           \/ \E user \in Users : SetUser(user)
           \/ Expose \/ Entrypoint
    PROVE  BuilderInv'
  <1>1. Good(b, marks)
    BY DEF BuilderInv
  <1>2. ASSUME NEW cmd \in AnyText, NEW user \in AnyText, Make(RunAs(b, cmd, user), 1) PROVE BuilderInv'
    BY <1>1, <1>2, RunAsKeeps, MakeKeeps
  <1>3. ASSUME NEW type \in {"WORKDIR", "USER", "EXPOSE", "ENTRYPOINT"}, NEW text \in AnyText,
               Make(Add(b, type, <<text>>), 1)
        PROVE  BuilderInv'
    BY <1>1, <1>3, AddKeeps, MakeKeeps
  <1>4. /\ NoText \in AnyText /\ <<"root">> \in AnyText /\ <<"file">> \in AnyText /\ <<"clone">> \in AnyText
        /\ <<"install">> \in AnyText /\ <<"80">> \in AnyText /\ <<"serve">> \in AnyText
    BY TextsAre DEF OwnWords
  <1>5. ASSUME NEW cmd \in Texts, NEW user \in Users, RunCmd(cmd, user) PROVE BuilderInv'
    BY <1>2, <1>5, ConstantsAre DEF RunCmd
  <1>6. ASSUME NEW user \in Users, FileCommand(user) \/ GitClone(user) PROVE BuilderInv'
    BY <1>2, <1>4, <1>6, ConstantsAre DEF FileCommand, GitClone
  <1>7. ASSUME NEW system \in BOOLEAN, PackageInstall(system) PROVE BuilderInv'
    BY <1>2, <1>4, <1>7 DEF PackageInstall
  <1>8. ASSUME NEW src \in Sources, NEW dst \in Texts, NEW user \in Users, NEW mode \in Modes,
               Copy(src, dst, user, mode)
        PROVE  BuilderInv'
    BY <1>1, <1>8, ConstantsAre, CopyToKeeps, MakeKeeps DEF Copy
  <1>9. ASSUME NEW path \in Texts, SetWorkdir(path) PROVE BuilderInv'
    BY <1>3, <1>9, ConstantsAre DEF SetWorkdir
  <1>10. ASSUME NEW user \in Users, SetUser(user) PROVE BuilderInv'
    BY <1>3, <1>10, ConstantsAre DEF SetUser
  <1>11. CASE Expose \/ Entrypoint
    BY <1>3, <1>4, <1>11 DEF Expose, Entrypoint
  <1>12. QED
    BY <1>5, <1>6, <1>7, <1>8, <1>9, <1>10, <1>11

(* Every call keeps the invariant. *)
LEMMA BuilderStep == BuilderInv /\ [BNext]_bvars => BuilderInv'
  <1> SUFFICES ASSUME BuilderInv, [BNext]_bvars PROVE BuilderInv'
    OBVIOUS
  <1>1. Good(b, marks)
    BY DEF BuilderInv
  <1>2. ASSUME NEW items \in ItemLists, CopyItems(items) PROVE BuilderInv'
    BY <1>1, <1>2, ConstantsAre, CopyingKeeps, MakeKeeps DEF CopyItems
  <1>3. ASSUME NEW pairs \in EnvMaps, SetEnvs(pairs) PROVE BuilderInv'
    <2>1. Good(SetEnvsOf(b, pairs), marks) /\ Grows(b, SetEnvsOf(b, pairs), IF pairs = {} THEN 0 ELSE 1)
      BY <1>1, ConstantsAre, SetEnvsKeeps
    <2>2. QED
      BY <1>3, <2>1, MakeKeeps DEF SetEnvs
  <1>4. ASSUME NEW lines \in Dockerfiles, FromDockerfileContent(lines) PROVE BuilderInv'
    <2> DEFINE read == Asking(Scanned(lines), 1)
               left == Asking(lines, Len(Scanned(lines)) + 1)
    <2>1. lines \in Seq(Lines) /\ Scanned(lines) \in Seq(Lines) /\ left \in Nat
      BY ConstantsAre, ScannedIs, AskingIs
    <2>2. /\ read \in Nat /\ Good(ParseDockerfile(b, lines), marks)
          /\ Grows(b, ParseDockerfile(b, lines), read)
      BY <1>1, <2>1, ParsingKeeps DEF ParseDockerfile
    <2>3. /\ Call(ParseDockerfile(b, lines), read + left)
          /\ unread' = unread + left /\ marks' = marks
      BY <1>4 DEF FromDockerfileContent
    <2> HIDE DEF read, left
    <2>4. QED
      BY <2>1, <2>2, <2>3, CallKeeps
  <1>5. CASE FromDockerfileFile
    <2>1. Good(Fail(b, "file"), marks) /\ Grows(b, Fail(b, "file"), 0)
      BY <1>1, FailKeeps DEF Errors
    <2>2. QED
      BY <1>5, <2>1, MakeKeeps DEF FromDockerfileFile
  <1>6. CASE UNCHANGED bvars
    BY <1>6 DEF bvars, BuilderInv
  <1>7. CASE SkipCache
    BY <1>7, SkipCacheKeeps
  <1>8. QED
    BY <1>2, <1>3, <1>4, <1>5, <1>6, <1>7, SetFieldsKeeps, TemplateCallsKeep, AddingKeeps DEF BNext

(* The invariant holds. *)
LEMMA AlwaysBuilder == BSpec => []BuilderInv
  BY InitBuilder, BuilderStep, PTL DEF BSpec

(* The Builder keeps to its types, and the arguments of each instruction to their slots. *)
THEOREM BuilderTypeCorrect == BSpec => []BTypeOK
  <1>1. BuilderInv => BTypeOK
    <2> SUFFICES ASSUME BuilderInv PROVE BTypeOK
      OBVIOUS
    <2>1. b \in Builders /\ \A n \in DOMAIN b.instructions : Shaped(b.instructions[n])
      BY DEF BuilderInv, Good, Proper
    <2>2. marks \subseteq Nat
      BY <2>1, BuilderIs DEF BuilderInv, Good
    <2>3. QED
      BY <2>1, <2>2 DEF BTypeOK, BuilderInv
  <1>2. QED
    BY <1>1, AlwaysBuilder, PTL

(* The instructions forced are those that SkipCache was called right before, whatever calls *)
(* that add nothing, or fail, came between.                                                 *)
THEOREM NextIsForced == BSpec => []ForcedAreNext
  <1>1. BuilderInv => ForcedAreNext
    BY DEF BuilderInv, Good, ForcedAreNext
  <1>2. QED
    BY <1>1, AlwaysBuilder, PTL

(* A build that can be requested has every instruction that the calls asked for, but for those on *)
(* the lines of a Dockerfile that the scanner did not come to.                                    *)
THEOREM AllIsBuilt == BSpec => []NothingDropped
  <1>1. BuilderInv => NothingDropped
    <2> SUFFICES ASSUME BuilderInv, b.err = NoErr PROVE Len(b.instructions) + unread = asked
      BY DEF NothingDropped, Buildable, Body
    <2>1. /\ Len(b.instructions) = Len(New.instructions) + (asked - unread)
          /\ asked \in Nat /\ unread \in Nat /\ unread <= asked
      BY DEF BuilderInv, Grows
    <2>2. QED
      BY <2>1, NewIs
  <1>2. QED
    BY <1>1, AlwaysBuilder, PTL

-------------------------------------------------------------------------------
(* A Dockerfile that is written and read again. *)

(* A text of one word is that word. *)
LEMMA OneWord == ASSUME NEW t \in AnyText, Len(t) = 1 PROVE t = <<t[1]>> /\ t[1] \in Words /\ Head(t) = t[1] /\ t # <<>>
  <1>1. t[1] \in Words
    BY ElementOfSeq DEF AnyText
  <1>2. <<t[1]>> \in Seq(Words) /\ Len(<<t[1]>>) = 1 /\ <<t[1]>>[1] = t[1]
    BY <1>1
  <1>3. t = <<t[1]>>
    BY <1>2, SeqEqual DEF AnyText
  <1>4. Head(t) = t[1] /\ t # <<>>
    BY EmptySeq, HeadTailProperties DEF AnyText
  <1>5. QED
    BY <1>1, <1>3, <1>4

(* Two texts of one word are a text of two. *)
LEMMA TwoWords ==
    ASSUME NEW t \in AnyText, NEW u \in AnyText, Len(t) = 1, Len(u) = 1
    PROVE  Len(t \o u) = 2 /\ (t \o u)[1] = t[1] /\ (t \o u)[2] = u[1]
  <1>1. t \in Seq(Words) /\ u \in Seq(Words)
    BY DEF AnyText
  <1>2. QED
    BY <1>1, ConcatProperties

(* The token of a pair with one word at most, and the pair that is read from it. *)
LEMMA PairReadsBack ==
    ASSUME NEW pair \in Pairs, pair[1] # Empty, Len(pair[2]) <= 1,
           \A n \in DOMAIN pair[2] : Unquoted[pair[2][n]] = pair[2][n]
    PROVE  ParseEnvLine(EnvTokens(pair)) = {pair}
  <1> DEFINE t == EnvTokens(pair)
  <1>1. pair[2] \in AnyText /\ pair = <<pair[1], pair[2]>>
    BY DEF Pairs
  <1>2. PICK k, v : k = pair[1] /\ v = pair[2]
    OBVIOUS
  <1>3. k # Empty /\ v \in AnyText /\ pair = <<k, v>> /\ Len(v) \in Nat /\ Len(v) <= 1 /\ DOMAIN v = 1..Len(v)
    BY <1>1, <1>2, LenProperties DEF AnyText
  <1>4. /\ Len(t) = 1 /\ DOMAIN t = {1} /\ t[1].key = k
        /\ v = IF t[1].value = Empty THEN NoText ELSE <<t[1].value>>
    <2>1. CASE v = NoText
      <3>1. t = <<Token(k, Empty)>>
        BY <1>2, <2>1 DEF EnvTokens
      <3>2. Len(t) = 1 /\ DOMAIN t = {1} /\ t[1] = Token(k, Empty)
        BY <3>1
      <3> HIDE DEF t
      <3>3. t[1].key = k /\ t[1].value = Empty
        BY <3>2 DEF Token
      <3>4. QED
        BY <2>1, <3>2, <3>3
    <2>2. CASE v # NoText
      <3>1. Len(v) = 1
        BY <1>3, <2>2, EmptySeq DEF NoText, AnyText
      <3>2. v = <<v[1]>> /\ v[1] \in Words
        BY <1>3, <3>1, OneWord
      <3>3. t = [n \in 1..1 |-> Token(IF n = 1 THEN k ELSE Empty, Unquoted[v[n]])] /\ Unquoted[v[1]] = v[1]
        BY <1>2, <1>3, <2>2, <3>1 DEF EnvTokens
      <3>4. Len(t) = 1 /\ DOMAIN t = {1} /\ t[1] = Token(k, v[1])
        BY <3>3
      <3>5. v[1] # Empty
        BY <3>2, TextsAre
      <3> HIDE DEF t
      <3>6. t[1].key = k /\ t[1].value = v[1]
        BY <3>4 DEF Token
      <3>7. QED
        BY <3>2, <3>4, <3>5, <3>6
    <2>3. QED
      BY <2>1, <2>2
  <1> HIDE DEF t
  <1>5. {n \in DOMAIN t : /\ t[n].key # Empty
                          /\ \A m \in n + 1..Len(t) : t[m].key # t[n].key} = {1}
    <2>1. \A m \in 1 + 1..Len(t) : t[m].key # t[1].key
      BY <1>4
    <2>2. QED
      BY <1>3, <1>4, <2>1
  <1>6. ParseEnvLine(t) = {<<t[n].key, IF t[n].value = Empty THEN NoText ELSE <<t[n].value>>>> : n \in {1}}
    BY <1>5, Zenon DEF ParseEnvLine
  <1>7. ParseEnvLine(t) = {<<k, v>>}
    BY <1>4, <1>6
  <1>8. QED
    BY <1>3, <1>7 DEF t

(* An instruction that a Dockerfile can say is read from the line that is written for it. *)
LEMMA ReadsBack ==
    ASSUME NEW x, NEW i \in Instructions, Proper(i), Expressible(i)
    PROVE  FromLine(x, LineOf(i)) = AddTo(x, i.type, i.args, i.env)
  <1>1. /\ i.args \in Seq(AnyText) /\ i.env \in SUBSET Pairs
        /\ \A n \in 1..Len(i.args) : i.args[n] \in AnyText
    BY ElementOfSeq DEF Instructions
  <1>2. i.type # "ENV" => i.env = {}
    BY DEF Proper, Shaped
  <1>3. CASE i.type \in {"RUN", "WORKDIR"}
    <2>1. Len(i.args) = 1
      BY <1>3 DEF Expressible, Proper, Shaped
    <2>2. i.args = <<i.args[1]>>
      <3>1. i.args[1] \in AnyText
        BY <1>1, <2>1
      <3>2. <<i.args[1]>> \in Seq(AnyText) /\ Len(<<i.args[1]>>) = 1 /\ <<i.args[1]>>[1] = i.args[1]
        BY <3>1
      <3>3. QED
        BY <1>1, <2>1, <3>2, SeqEqual
    <2>3. LineOf(i).head = i.type /\ LineOf(i).words = i.args[1]
      BY <1>3 DEF LineOf, Line
    <2>4. FromLine(x, LineOf(i)) = Add(x, i.type, <<i.args[1]>>)
      BY <1>3, <2>3 DEF FromLine, RunAs
    <2>5. QED
      BY <1>2, <1>3, <2>2, <2>4 DEF Add
  <1>4. CASE i.type = "COPY"
    <2> DEFINE src == i.args[1]
               dst == i.args[2]
               words == src \o dst
    <2>1. Len(i.args) = 4 /\ ~Rejected(src)
      BY <1>4 DEF Proper, Shaped
    <2>2. Len(src) = 1 /\ Len(dst) = 1 /\ i.args[3] = NoText /\ i.args[4] = NoText
      BY <1>4 DEF Expressible
    <2>3. src \in AnyText /\ dst \in AnyText
      BY <1>1, <2>1
    <2>4. i.args = <<src, dst, NoText, NoText>>
      <3> DEFINE four == <<src, dst, NoText, NoText>>
      <3>1. four \in Seq(AnyText) /\ Len(four) = 4
        <4>1. NoText \in AnyText
          BY TextsAre
        <4> HIDE DEF src, dst
        <4>2. QED
          BY <2>3, <4>1
      <3>2. four[1] = i.args[1] /\ four[2] = i.args[2] /\ four[3] = i.args[3] /\ four[4] = i.args[4]
        BY <2>2
      <3> HIDE DEF four
      <3>3. \A n \in 1..4 : four[n] = i.args[n]
        BY <3>2
      <3>4. four = i.args
        BY <1>1, <2>1, <3>1, <3>3, SeqEqual
      <3>5. QED
        BY <3>4 DEF four
    <2>5. Len(words) = 2 /\ words[1] = src[1] /\ words[2] = dst[1]
      BY <2>2, <2>3, TwoWords
    <2>6. src = <<src[1]>> /\ dst = <<dst[1]>>
      BY <2>2, <2>3, OneWord
    <2>7. LineOf(i).head = "COPY" /\ LineOf(i).words = words
      BY <1>4 DEF LineOf, Line
    <2>8. FromLine(x, LineOf(i)) = CopyTo(x, <<words[1]>>, <<words[2]>>, NoText, NoText)
      <3> DEFINE line == LineOf(i)
      <3>1. line.head = "COPY" /\ line.words = words /\ Len(words) >= 2
        BY <2>5, <2>7
      <3> HIDE DEF line, words
      <3>2. FromLine(x, line) = CopyTo(x, <<line.words[1]>>, <<line.words[2]>>, NoText, NoText)
        BY <3>1 DEF FromLine
      <3>3. QED
        BY <3>1, <3>2 DEF line
    <2>9. CopyTo(x, src, dst, NoText, NoText) = Add(x, "COPY", <<src, dst, NoText, NoText>>)
      BY <2>1 DEF CopyTo
    <2> HIDE DEF src, dst, words
    <2>10. QED
      BY <1>2, <1>4, <2>4, <2>5, <2>6, <2>8, <2>9 DEF Add
  <1>5. CASE i.type = "ENV"
    <2>1. PICK pair \in i.env : /\ i.env = {pair} /\ pair[1] # Empty /\ Len(pair[2]) <= 1
                                /\ \A n \in DOMAIN pair[2] : Unquoted[pair[2][n]] = pair[2][n]
      BY <1>5 DEF Expressible
    <2>2. ParseEnvLine(EnvTokens(pair)) = {pair}
      BY <1>1, <2>1, PairReadsBack
    <2>3. (CHOOSE p \in i.env : TRUE) = pair
      BY <2>1
    <2>4. LineOf(i).head = "ENV" /\ LineOf(i).tokens = EnvTokens(pair)
      BY <1>5, <2>3 DEF LineOf, EnvLine
    <2>5. FromLine(x, LineOf(i)) = SetEnvsOf(x, {pair})
      BY <2>2, <2>4 DEF FromLine
    <2>6. i.args = <<>>
      <3>1. Len(i.args) = 0
        BY <1>5 DEF Proper, Shaped
      <3>2. QED
        BY <1>1, <3>1, EmptySeq
    <2>7. QED
      BY <1>5, <2>1, <2>5, <2>6 DEF SetEnvsOf
  <1>6. QED
    BY <1>3, <1>4, <1>5 DEF Expressible

(* No instruction that a Dockerfile can say is left out of it. *)
LEMMA LinesAre ==
    ASSUME NEW x \in Builders, \A n \in DOMAIN x.instructions : Expressible(x.instructions[n])
    PROVE  LinesOf(x) = [k \in 1..Len(x.instructions) |-> LineOf(x.instructions[k])]
  <1> DEFINE N == Len(x.instructions)
             kept == {n \in DOMAIN x.instructions : x.instructions[n].type # "USER"}
  <1>1. N \in Nat /\ DOMAIN x.instructions = 1..N
    BY BuilderIs
  <1>2. kept = 1..N
    BY <1>1 DEF Expressible
  <1> HIDE DEF kept, N
  <1>3. \A n \in 0..N : Cardinality(1..n) = n
    BY <1>1, FS_Interval
  <1>4. Cardinality(kept) = N
    BY <1>1, <1>2, <1>3
  <1>5. ASSUME NEW k \in 1..N PROVE (CHOOSE n \in kept : Cardinality(kept \cap 1..n) = k) = k
    <2>1. \A n \in kept : kept \cap 1..n = 1..n
      BY <1>1, <1>2
    <2>2. \A n \in kept : Cardinality(kept \cap 1..n) = n
      <3>1. \A n \in kept : n \in 0..N
        BY <1>1, <1>2
      <3>2. QED
        BY <1>3, <2>1, <3>1, Zenon
    <2>3. k \in kept
      BY <1>2
    <2>4. QED
      BY <2>2, <2>3
  <1>6. LinesOf(x) = [k \in 1..N |-> LineOf(x.instructions[CHOOSE n \in kept : Cardinality(kept \cap 1..n) = k])]
    BY <1>4 DEF LinesOf, kept
  <1>7. QED
    BY <1>5, <1>6 DEF N

(* The Dockerfile of such a builder: FROM, then the line of each instruction. *)
LEMMA DockerfileIs ==
    ASSUME NEW x \in Builders, x.image # NoText,
           \A n \in DOMAIN x.instructions : Expressible(x.instructions[n])
    PROVE  /\ \E S : ToDockerfile(x) \in Seq(S)
           /\ Len(ToDockerfile(x)) = Len(x.instructions) + 1
           /\ ToDockerfile(x)[1] = Line("FROM", x.image)
           /\ \A n \in 1..Len(x.instructions) : ToDockerfile(x)[n + 1] = LineOf(x.instructions[n])
  <1> DEFINE N == Len(x.instructions)
             from == Line("FROM", x.image)
             rest == [k \in 1..N |-> LineOf(x.instructions[k])]
             S == {from} \cup {LineOf(x.instructions[k]) : k \in 1..N}
  <1>1. N \in Nat
    BY BuilderIs
  <1>2. ToDockerfile(x) = <<from>> \o rest
    BY LinesAre DEF ToDockerfile
  <1> HIDE DEF N, from
  <1>3. <<from>> \in Seq(S) /\ Len(<<from>>) = 1 /\ <<from>>[1] = from
    OBVIOUS
  <1>4. rest \in Seq(S) /\ Len(rest) = N /\ \A n \in 1..N : rest[n] = LineOf(x.instructions[n])
    BY <1>1
  <1> HIDE DEF rest, S
  <1>5. /\ <<from>> \o rest \in Seq(S)
        /\ Len(<<from>> \o rest) = Len(<<from>>) + Len(rest)
        /\ \A n \in 1..(Len(<<from>>) + Len(rest)) :
              (<<from>> \o rest)[n] = IF n <= Len(<<from>>) THEN <<from>>[n] ELSE rest[n - Len(<<from>>)]
    BY <1>3, <1>4, ConcatProperties
  <1>6. /\ Len(<<from>> \o rest) = N + 1 /\ (<<from>> \o rest)[1] = from
        /\ \A n \in 1..N : (<<from>> \o rest)[n + 1] = rest[n]
    BY <1>1, <1>3, <1>4, <1>5
  <1>7. QED
    BY <1>2, <1>4, <1>5, <1>6 DEF N, from

(* The parser's builder after each line has the instructions of the lines before, unforced. *)
LEMMA ComesBack ==
    ASSUME BuilderInv, b.image # NoText, \A n \in DOMAIN b.instructions : Expressible(b.instructions[n]),
           \A n \in DOMAIN ToDockerfile(b) : ~Overlong(ToDockerfile(b)[n])
    PROVE  LET back == ParseDockerfile(New, ToDockerfile(b))
           IN  back.image = b.image /\ back.err = NoErr /\ back.instructions = Unforced(b)
  <1> DEFINE N    == Len(b.instructions)
             D    == ToDockerfile(b)
             F    == Parsing(New, D)
             Plain(n) == Instruction(New, b.instructions[n].type, b.instructions[n].args, b.instructions[n].env)
             Is(x, n) == /\ x \in Builders /\ x.image = b.image /\ x.err = NoErr /\ x.forceNext = FALSE
                         /\ Len(x.instructions) = n /\ \A k \in 1..n : x.instructions[k] = Plain(k)
             T    == {n \in 0..N : Is(F[n + 1], n)}
  <1>1. /\ b \in Builders /\ N \in Nat /\ DOMAIN b.instructions = 1..N
        /\ \A n \in 1..N : /\ b.instructions[n] \in Instructions
                           /\ Proper(b.instructions[n]) /\ Expressible(b.instructions[n])
    BY BuilderIs DEF BuilderInv, Good
  <1>2. /\ Len(D) = N + 1 /\ D[1] = Line("FROM", b.image)
        /\ \A n \in 1..N : D[n + 1] = LineOf(b.instructions[n])
    BY <1>1, DockerfileIs
  <1>3. F[0] = New /\ \A n \in 1..(N + 1) : F[n] = FromLine(F[n - 1], D[n])
    <2>1. PICK S : D \in Seq(S)
      BY <1>1, DockerfileIs
    <2>2. QED
      BY <1>2, <2>1, ParsingIs
  <1>10. Scanned(D) = D
    <2>1. PICK S : D \in Seq(S)
      BY <1>1, DockerfileIs
    <2>2. QED
      BY <2>1, ScannedIs
  <1> HIDE DEF D, F
  <1>4. 0 \in T
    <2>1. F[1] = FromLine(New, Line("FROM", b.image))
      BY <1>1, <1>2, <1>3
    <2>2. F[1] = [New EXCEPT !.image = b.image]
      BY <2>1 DEF FromLine, Line
    <2>3. b.image \in AnyText
      BY <1>1, BuilderIs
    <2>4. /\ F[1] \in Builders /\ F[1].image = b.image /\ F[1].err = New.err
          /\ F[1].forceNext = New.forceNext /\ F[1].instructions = New.instructions
      BY <2>2, <2>3, NewIs DEF Builders
    <2>5. Is(F[1], 0)
      BY <2>4, NewIs
    <2> HIDE DEF Is
    <2>6. QED
      BY <1>1, <2>5
  <1>5. ASSUME NEW n \in 0..(N - 1), n \in T PROVE n + 1 \in T
    <2> DEFINE x == F[n + 1]
               y == F[n + 2]
               i == b.instructions[n + 1]
    <2>1. n \in Nat /\ n + 1 \in 1..N /\ n + 2 \in 1..(N + 1) /\ n + 2 - 1 = n + 1 /\ n + 1 + 1 = n + 2
      BY <1>1
    <2>2. Is(x, n)
      BY <1>5
    <2>3. i \in Instructions /\ Proper(i) /\ Expressible(i)
      BY <1>1, <2>1
    <2>4. y = FromLine(x, LineOf(i))
      BY <1>2, <1>3, <2>1
    <2>5. y = AddTo(x, i.type, i.args, i.env)
      BY <2>3, <2>4, ReadsBack
    <2>6. i.type \in Types /\ i.args \in Seq(AnyText) /\ i.env \in SUBSET Pairs
      BY <2>3 DEF Instructions
    <2> HIDE DEF x, y, i
    <2>7. /\ x \in Builders /\ x.image = b.image /\ x.err = NoErr /\ x.forceNext = FALSE
          /\ Len(x.instructions) = n /\ \A k \in 1..n : x.instructions[k] = Plain(k)
      BY <2>2
    <2>8. /\ y \in Builders /\ y.err = x.err /\ y.image = x.image /\ y.forceNext = FALSE
          /\ Len(y.instructions) = Len(x.instructions) + 1
          /\ \A k \in 1..Len(x.instructions) : y.instructions[k] = x.instructions[k]
          /\ y.instructions[Len(x.instructions) + 1] = Instruction(x, i.type, i.args, i.env)
      <3> HIDE DEF Is, Plain
      <3>1. QED
        BY <2>5, <2>6, <2>7, AddToIs
    <2>9. Plain(n + 1) = Instruction(New, i.type, i.args, i.env)
      BY DEF i
    <2>10. Instruction(x, i.type, i.args, i.env) = Instruction(New, i.type, i.args, i.env)
      BY <2>7, NewIs DEF Instruction
    <2> HIDE DEF Plain
    <2>11. \A k \in 1..(n + 1) : y.instructions[k] = Plain(k)
      <3> TAKE k \in 1..(n + 1)
      <3>1. CASE k \in 1..n
        BY <2>7, <2>8, <3>1
      <3>2. CASE k = n + 1
        BY <2>7, <2>8, <2>9, <2>10, <3>2
      <3>3. QED
        BY <2>1, <3>1, <3>2
    <2>12. Is(y, n + 1)
      BY <2>7, <2>8, <2>11
    <2> HIDE DEF Is
    <2>13. QED
      BY <1>1, <2>1, <2>12 DEF y
  <1>6. Is(F[N + 1], N)
    <2> HIDE DEF T
    <2>1. \A n \in 0..N : n \in T
      BY <1>1, <1>4, <1>5, UpTo
    <2>2. N \in T
      BY <1>1, <2>1
    <2>3. QED
      BY <2>2 DEF T
  <1> DEFINE back == ParseDockerfile(New, D)
  <1>7. back = F[N + 1]
    BY <1>2, <1>10 DEF ParseDockerfile, F
  <1> HIDE DEF back
  <1>8. back.instructions = Unforced(b)
    <2>1. back \in Builders /\ Len(back.instructions) = N /\ \A k \in 1..N : back.instructions[k] = Plain(k)
      BY <1>6, <1>7
    <2>2. DOMAIN back.instructions = 1..N /\ back.instructions \in Seq(Instructions)
      BY <2>1, BuilderIs
    <2>3. back.instructions = [k \in 1..N |-> back.instructions[k]]
      BY <2>2
    <2> HIDE DEF N
    <2>4. QED
      BY <1>1, <2>1, <2>3 DEF Unforced
  <1>9. QED
    BY <1>6, <1>7, <1>8 DEF back, D

(* A Builder that a Dockerfile can say comes back from the Dockerfile written of it: values of ENV *)
(* are quoted with escapes that the parser does not undo, so they must need none.                  *)
THEOREM ComesBackFromDockerfile == BSpec => []RoundTrip
  <1>1. BuilderInv => RoundTrip
    BY ComesBack DEF RoundTrip
  <1>2. QED
    BY <1>1, AlwaysBuilder, PTL
===============================================================================
