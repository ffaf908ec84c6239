---------------------------- MODULE CommandProofs ----------------------------
(***************************************************************************)
(* Safety of the command handle, for every number of callers, every        *)
(* channel capacity, every amount of output and every set of exit codes;   *)
(* and of Kill and the pump of standard input, for every number of calls   *)
(* and of chunks.  The theorems up to the banner are about CommandStream   *)
(* alone; ControlKeepsStream carries them over to CommandControl.          *)
(***************************************************************************)
EXTENDS CommandControl, CommonLemmas

(* The goroutine holds a chunk that it has not yet offered to the channel. *)
Holding(s) == pc \in {"append", "callback", "send"} /\ ev.on = s

(* The chunks of s the goroutine is done with. *)
Handled(s) == IF Holding(s) THEN sent[s] - 1 ELSE sent[s]

Closing == {"closePty", "closeStderr", "closeStdout", "exited"}

(* What the goroutine holds is what its program counter says. *)
EventInv ==
    /\ pc \in {"append", "callback", "send"} =>
          /\ ev.type = "data"
          /\ ev.chunk = sent[ev.on]
    /\ pc \in {"append", "callback"} => ev.on \in Kept
    /\ pc = "setResult" => ev.type = "end" /\ phase = "ended"
    /\ pc = "setErr" => ev.type = "error"
    /\ pc \notin {"append", "callback", "send", "setResult", "setErr"} => ev = NoEvent

(* The accumulated output is what was received, but for a chunk being appended. *)
BufferInv ==
    \A s \in Kept : buf[s] = IF s \notin Streams THEN 0
                             ELSE IF pc = "append" /\ ev.on = s THEN sent[s] - 1
                             ELSE sent[s]

StateInv == TypeOK /\ EventInv /\ BufferInv

-------------------------------------------------------------------------------
(* Types, and the agreement of the goroutine's state with itself. *)

LEMMA InitState == Init => StateInv
  <1> SUFFICES ASSUME Init PROVE StateInv
    OBVIOUS
  <1> USE DEF Init
  <1>1. TypeOK
    <2>1. <<>> \in Seq(1..MaxChunks)
      BY EmptySeq
    <2>2. chan \in [Streams -> Seq(1..MaxChunks)] /\ got \in [Streams -> Seq(1..MaxChunks)]
      BY <2>1
    <2>3. ev \in Events /\ pc = "receive" /\ conn \in StreamErrs \cup {"open"} /\ phase = "open"
      BY DEF Events
    <2>4. /\ sent \in [Streams -> 0..MaxChunks] /\ buf \in [Kept -> 0..MaxChunks]
          /\ result = NoResult /\ doneErr = NoErr /\ done = FALSE
          /\ closed = {} /\ ended = {} /\ expired = {}
      BY ConstantsOK
    <2>5. wait \in [Callers -> {"idle", "select", "read", "returned"}]
      OBVIOUS
    <2>6. answer \in [Callers -> Outcomes \cup {Pending}]
      OBVIOUS
    <2> HIDE DEF Init
    <2>7. QED
      BY <2>2, <2>3, <2>4, <2>5, <2>6 DEF TypeOK
  <1>2. EventInv /\ BufferInv
    BY ConstantsOK DEF EventInv, BufferInv, NoEvent, Kept
  <1>3. QED
    BY <1>1, <1>2 DEF StateInv

LEMMA OutcomeType ==
  ASSUME TypeOK
  PROVE  Outcome \in Outcomes
  <1> USE DEF TypeOK, Outcomes
  <1>1. CASE doneErr # NoErr
    BY <1>1 DEF Outcome, Failed, NoErr
  <1>2. CASE doneErr = NoErr /\ result = NoResult
    BY <1>2 DEF Outcome, Failed, EndedWithNoResult
  <1>3. CASE doneErr = NoErr /\ result # NoResult
    <2>1. result \in Codes /\ buf["stdout"] \in 0..MaxChunks /\ buf["stderr"] \in 0..MaxChunks
      BY <1>3 DEF Kept
    <2>2. QED
      BY <1>3, <2>1 DEF Outcome
  <1>4. QED
    BY <1>1, <1>2, <1>3

LEMMA ReceiveState == StateInv /\ Receive => StateInv'
  <1> SUFFICES ASSUME StateInv, Receive PROVE StateInv'
    OBVIOUS
  <1> USE ConstantsOK DEF StateInv, TypeOK, EventInv, BufferInv, readers, waiters, Kept, Events, NoEvent
  <1>1. CASE ReceiveStart
    BY <1>1 DEF ReceiveStart
  <1>2. ASSUME NEW s \in Streams, ReceiveData(s) PROVE StateInv'
    <2>1. sent[s] + 1 \in 1..MaxChunks /\ sent' = [sent EXCEPT ![s] = sent[s] + 1]
      BY <1>2 DEF ReceiveData
    <2>2. ev' \in Events /\ ev'.type = "data" /\ ev'.on = s /\ ev'.chunk = sent'[s]
      BY <1>2, <2>1 DEF ReceiveData
    <2>3. TypeOK'
      BY <1>2, <2>1, <2>2 DEF ReceiveData
    <2>4. EventInv'
      BY <1>2, <2>1, <2>2 DEF ReceiveData
    <2>5. BufferInv'
      BY <1>2, <2>1, <2>2 DEF ReceiveData
    <2>6. QED
      BY <2>3, <2>4, <2>5
  <1>3. ASSUME NEW k \in Codes, ReceiveEnd(k) PROVE StateInv'
    BY <1>3 DEF ReceiveEnd
  <1>4. CASE ReceiveEOF
    BY <1>4 DEF ReceiveEOF
  <1>5. CASE ReceiveErr
    BY <1>5 DEF ReceiveErr
  <1>6. QED
    BY <1>1, <1>2, <1>3, <1>4, <1>5 DEF Receive

LEMMA WorkState == StateInv /\ Work => StateInv'
  <1> SUFFICES ASSUME StateInv, Work PROVE StateInv'
    OBVIOUS
  <1> USE ConstantsOK DEF StateInv, TypeOK, EventInv, BufferInv, readers, waiters, Kept, Events, NoEvent
  <1>1. CASE AppendChunk
    <2>1. ev.on \in Kept \cap Streams /\ buf[ev.on] = sent[ev.on] - 1 /\ sent[ev.on] \in 1..MaxChunks
      BY <1>1 DEF AppendChunk
    <2>2. buf' = [buf EXCEPT ![ev.on] = sent[ev.on]]
      <3>1. buf[ev.on] + 1 = sent[ev.on]
        BY <2>1
      <3>2. buf' = [buf EXCEPT ![ev.on] = buf[ev.on] + 1]
        BY <1>1 DEF AppendChunk
      <3>3. QED
        BY <3>1, <3>2
    <2>3. TypeOK'
      BY <1>1, <2>1, <2>2 DEF AppendChunk
    <2>4. EventInv' /\ BufferInv'
      BY <1>1, <2>1, <2>2 DEF AppendChunk
    <2>5. QED
      BY <2>3, <2>4
  <1>2. CASE Callback
    BY <1>2 DEF Callback
  <1>3. CASE SendChunk
    <2>1. ev.on \in Streams /\ ev.chunk \in 1..MaxChunks
      BY <1>3 DEF SendChunk
    <2>2. Append(chan[ev.on], ev.chunk) \in Seq(1..MaxChunks)
      BY <2>1
    <2>3. chan' \in [Streams -> Seq(1..MaxChunks)]
      BY <1>3, <2>1, <2>2 DEF SendChunk
    <2>4. QED
      BY <1>3, <2>3 DEF SendChunk
  <1>4. CASE SetResult
    BY <1>4 DEF SetResult
  <1>5. CASE SetErr
    <2>1. doneErr' \in {"TimeoutError", "SandboxError"}
      BY <1>5 DEF SetErr, MapConnectErr
    <2>2. QED
      BY <1>5, <2>1 DEF SetErr
  <1>6. CASE CloseDone
    BY <1>6 DEF CloseDone
  <1>7. CASE CloseChannels
    <2>1. /\ pc' \in Closing /\ pc \in Closing
          /\ closed' \subseteq AllStreams
          /\ UNCHANGED <<ev, conn, phase, sent, buf, result, doneErr, done, chan, got, ended, wait, expired, answer>>
      BY <1>7 DEF CloseChannels, CloseChan, AllStreams, Closing
    <2>2. QED
      BY <2>1 DEF Closing
  <1>8. QED
    BY <1>1, <1>2, <1>3, <1>4, <1>5, <1>6, <1>7 DEF Work

LEMMA ReaderState ==
  ASSUME StateInv, NEW s \in Streams, ReadChunk(s) \/ ReadClose(s)
  PROVE  StateInv'
  <1> USE DEF StateInv, TypeOK, EventInv, BufferInv, handle, waiters
  <1>1. CASE ReadChunk(s)
    <2>1. chan[s] \in Seq(1..MaxChunks) /\ chan[s] # <<>> /\ got[s] \in Seq(1..MaxChunks)
      BY <1>1 DEF ReadChunk
    <2>2. Head(chan[s]) \in 1..MaxChunks /\ Tail(chan[s]) \in Seq(1..MaxChunks)
      BY <2>1, HeadTailProperties
    <2>3. Append(got[s], Head(chan[s])) \in Seq(1..MaxChunks)
      BY <2>1, <2>2
    <2>4. QED
      BY <1>1, <2>2, <2>3 DEF ReadChunk
  <1>2. CASE ReadClose(s)
    BY <1>2 DEF ReadClose
  <1>3. QED
    BY <1>1, <1>2

LEMMA CallerState ==
  ASSUME StateInv, NEW c \in Callers, StartWait(c) \/ ContextEnds(c) \/ WaitStep(c)
  PROVE  StateInv'
  <1> USE DEF StateInv, TypeOK, EventInv, BufferInv, handle, readers
  <1>1. CASE StartWait(c)
    BY <1>1 DEF StartWait
  <1>2. CASE ContextEnds(c)
    BY <1>2 DEF ContextEnds
  <1>3. CASE SelectDone(c)
    BY <1>3 DEF SelectDone
  <1>4. CASE SelectContext(c)
    <2>1. TimedOut \in Outcomes
      BY DEF TimedOut, Failed, Outcomes
    <2>2. QED
      BY <1>4, <2>1 DEF SelectContext
  <1>5. CASE ReadOutcome(c)
    <2>1. Outcome \in Outcomes
      BY OutcomeType
    <2>2. QED
      BY <1>5, <2>1 DEF ReadOutcome
  <1>6. QED
    BY <1>1, <1>2, <1>3, <1>4, <1>5 DEF WaitStep

LEMMA StepState == StateInv /\ [Next]_vars => StateInv'
  <1> SUFFICES ASSUME StateInv, [Next]_vars PROVE StateInv'
    OBVIOUS
  <1>1. CASE Receive
    BY <1>1, ReceiveState
  <1>2. CASE Work
    BY <1>2, WorkState
  <1>3. ASSUME NEW e \in StreamErrs, LoseConnection(e) PROVE StateInv'
    BY <1>3 DEF LoseConnection, handle, readers, waiters, StateInv, TypeOK, EventInv, BufferInv
  <1>4. ASSUME NEW s \in Streams, ReadChunk(s) \/ ReadClose(s) PROVE StateInv'
    BY <1>4, ReaderState
  <1>5. ASSUME NEW c \in Callers, StartWait(c) \/ ContextEnds(c) \/ WaitStep(c) PROVE StateInv'
    BY <1>5, CallerState
  <1>6. CASE UNCHANGED vars
    BY <1>6 DEF vars, handle, readers, waiters, StateInv, TypeOK, EventInv, BufferInv
  <1>7. QED
    BY <1>1, <1>2, <1>3, <1>4, <1>5, <1>6 DEF Next

LEMMA AlwaysState == Spec => []StateInv
  <1>1. QED
    BY InitState, StepState, PTL DEF Spec

(* Every variable of the handle keeps to the values the code can give it. *)
THEOREM TypeCorrect == Spec => []TypeOK
  <1>1. StateInv => TypeOK
    BY DEF StateInv
  <1>2. QED
    BY <1>1, AlwaysState, PTL

-------------------------------------------------------------------------------
(* The outcome is settled when done is closed: nothing it is computed from *)
(* changes afterwards, and calls of Wait read it only afterwards.          *)

SettledInv == /\ done <=> pc \in Closing
              /\ closed # {} => done

CallInv == \A c \in Callers :
    /\ wait[c] = "read" => done
    /\ answer[c] = Pending <=> wait[c] # "returned"
    /\ answer[c] \notin {Pending, TimedOut} => done /\ answer[c] = Outcome

SafeInv == StateInv /\ SettledInv /\ CallInv

LEMMA NotPending == \A o \in Outcomes : o # Pending
  <1> SUFFICES ASSUME NEW o \in Outcomes PROVE o # Pending
    OBVIOUS
  <1>1. o.kind \in {"error", "ok", "exitError"}
    BY DEF Outcomes, Exited
  <1>2. Pending.kind = "pending"
    BY DEF Pending
  <1>3. QED
    BY <1>1, <1>2

LEMMA SettledStep == SettledInv /\ [Next]_vars => SettledInv'
  <1> SUFFICES ASSUME SettledInv, [Next]_vars PROVE SettledInv'
    OBVIOUS
  <1> USE DEF SettledInv, Closing, readers, waiters
  <1>1. CASE Receive
    BY <1>1 DEF Receive, ReceiveStart, ReceiveData, ReceiveEnd, ReceiveEOF, ReceiveErr
  <1>2. CASE Work
    <2>1. CASE AppendChunk \/ Callback \/ SendChunk \/ SetResult \/ SetErr
      BY <2>1 DEF AppendChunk, Callback, SendChunk, SetResult, SetErr
    <2>2. CASE CloseDone
      BY <2>2 DEF CloseDone
    <2>3. CASE CloseChannels
      BY <2>3 DEF CloseChannels, CloseChan
    <2>4. QED
      BY <1>2, <2>1, <2>2, <2>3 DEF Work
  <1>3. CASE \E e \in StreamErrs : LoseConnection(e)
    BY <1>3 DEF LoseConnection, handle
  <1>4. CASE \E s \in Streams : ReadChunk(s) \/ ReadClose(s)
    BY <1>4 DEF ReadChunk, ReadClose, handle
  <1>5. CASE \E c \in Callers : StartWait(c) \/ ContextEnds(c) \/ WaitStep(c)
    BY <1>5 DEF StartWait, ContextEnds, WaitStep, SelectDone, SelectContext, ReadOutcome, handle
  <1>6. CASE UNCHANGED vars
    BY <1>6 DEF vars, handle
  <1>7. QED
    BY <1>1, <1>2, <1>3, <1>4, <1>5, <1>6 DEF Next

LEMMA OutcomeStable ==
  ASSUME SettledInv, done, [Next]_vars
  PROVE  done' /\ Outcome' = Outcome
  <1>1. done' = done /\ UNCHANGED <<buf, result, doneErr>>
    <2> USE DEF SettledInv, Closing, readers, waiters
    <2>1. CASE Receive
      BY <2>1 DEF Receive, ReceiveStart, ReceiveData, ReceiveEnd, ReceiveEOF, ReceiveErr
    <2>2. CASE Work
      BY <2>2 DEF Work, AppendChunk, Callback, SendChunk, SetResult, SetErr, CloseDone,
                  CloseChannels, CloseChan
    <2>3. CASE \E e \in StreamErrs : LoseConnection(e)
      BY <2>3 DEF LoseConnection, handle
    <2>4. CASE \E s \in Streams : ReadChunk(s) \/ ReadClose(s)
      BY <2>4 DEF ReadChunk, ReadClose, handle
    <2>5. CASE \E c \in Callers : StartWait(c) \/ ContextEnds(c) \/ WaitStep(c)
      BY <2>5 DEF StartWait, ContextEnds, WaitStep, SelectDone, SelectContext, ReadOutcome, handle
    <2>6. CASE UNCHANGED vars
      BY <2>6 DEF vars, handle
    <2>7. QED
      BY <2>1, <2>2, <2>3, <2>4, <2>5, <2>6 DEF Next
  <1>2. QED
    BY <1>1 DEF Outcome

(* Only the steps of Wait touch its callers. *)
LEMMA CallsUntouched ==
  ASSUME [Next]_vars, ~ \E c \in Callers : StartWait(c) \/ ContextEnds(c) \/ WaitStep(c)
  PROVE  UNCHANGED <<wait, answer>>
  <1> USE DEF waiters
  <1>1. CASE Receive
    BY <1>1 DEF Receive, ReceiveStart, ReceiveData, ReceiveEnd, ReceiveEOF, ReceiveErr
  <1>2. CASE Work
    BY <1>2 DEF Work, AppendChunk, Callback, SendChunk, SetResult, SetErr, CloseDone,
                CloseChannels, CloseChan
  <1>3. CASE \E e \in StreamErrs : LoseConnection(e)
    BY <1>3 DEF LoseConnection
  <1>4. CASE \E s \in Streams : ReadChunk(s) \/ ReadClose(s)
    BY <1>4 DEF ReadChunk, ReadClose
  <1>5. CASE UNCHANGED vars
    BY <1>5 DEF vars
  <1>6. QED
    BY <1>1, <1>2, <1>3, <1>4, <1>5 DEF Next

LEMMA CallStep == SafeInv /\ [Next]_vars => CallInv'
  <1> SUFFICES ASSUME SafeInv, [Next]_vars, NEW c \in Callers
               PROVE  /\ wait'[c] = "read" => done'
                      /\ answer'[c] = Pending <=> wait'[c] # "returned"
                      /\ answer'[c] \notin {Pending, TimedOut} => done' /\ answer'[c] = Outcome'
    BY DEF CallInv
  <1>1. done => done' /\ Outcome' = Outcome
    BY OutcomeStable DEF SafeInv
  <1>2. /\ wait[c] = "read" => done
        /\ answer[c] = Pending <=> wait[c] # "returned"
        /\ answer[c] \notin {Pending, TimedOut} => done /\ answer[c] = Outcome
    BY DEF SafeInv, CallInv
  <1>3. CASE UNCHANGED <<wait, answer>>
    BY <1>1, <1>2, <1>3
  <1>4. ASSUME NEW d \in Callers, StartWait(d) \/ ContextEnds(d) \/ WaitStep(d)
        PROVE  /\ wait'[c] = "read" => done'
               /\ answer'[c] = Pending <=> wait'[c] # "returned"
               /\ answer'[c] \notin {Pending, TimedOut} => done' /\ answer'[c] = Outcome'
    <2>1. wait \in [Callers -> {"idle", "select", "read", "returned"}]
          /\ answer \in [Callers -> Outcomes \cup {Pending}]
      BY DEF SafeInv, StateInv, TypeOK
    <2>2. CASE StartWait(d)
      BY <1>1, <1>2, <2>1, <2>2 DEF StartWait
    <2>3. CASE ContextEnds(d)
      BY <1>1, <1>2, <2>3 DEF ContextEnds
    <2>4. CASE SelectDone(d)
      BY <1>1, <1>2, <2>1, <2>4 DEF SelectDone
    <2>5. CASE SelectContext(d)
      <3>1. TimedOut # Pending
        BY NotPending DEF TimedOut, Failed, Outcomes
      <3>2. QED
        BY <1>1, <1>2, <2>1, <2>5, <3>1 DEF SelectContext
    <2>6. CASE ReadOutcome(d)
      <3>1. Outcome # Pending
        BY OutcomeType, NotPending DEF SafeInv, StateInv
      <3>2. wait[d] = "read" /\ done
        BY <2>6 DEF ReadOutcome, SafeInv, CallInv
      <3>3. QED
        BY <1>1, <1>2, <2>1, <2>6, <3>1, <3>2 DEF ReadOutcome
    <2>7. QED
      BY <1>4, <2>2, <2>3, <2>4, <2>5, <2>6 DEF WaitStep
  <1>5. QED
    BY <1>3, <1>4, CallsUntouched

LEMMA SafeInit == Init => SafeInv
  <1> SUFFICES ASSUME Init PROVE SafeInv
    OBVIOUS
  <1>1. SettledInv /\ CallInv
    BY DEF Init, SettledInv, CallInv, Closing
  <1>2. QED
    BY <1>1, InitState DEF SafeInv

LEMMA AlwaysSafe == Spec => []SafeInv
  <1>1. SafeInv /\ [Next]_vars => SafeInv'
    BY StepState, SettledStep, CallStep DEF SafeInv
  <1>2. QED
    BY <1>1, SafeInit, PTL DEF Spec

(* Whoever saw a channel of the handle close may call Wait: it does not block. *)
THEOREM ChannelsCloseAfterDone == Spec => []ClosedChannelMeansDone
  <1>1. SafeInv => ClosedChannelMeansDone
    BY DEF SafeInv, SettledInv, ClosedChannelMeansDone
  <1>2. QED
    BY <1>1, AlwaysSafe, PTL

(* A Wait that reports an exit code reports all the output that envd sent. *)
THEOREM ExitIsComplete == Spec => []ExitCarriesAllOutput
  <1>1. SafeInv => ExitCarriesAllOutput
    <2> SUFFICES ASSUME SafeInv, NEW c \in Callers, answer[c].kind \in {"ok", "exitError"},
                        NEW s \in Streams \cap Kept
                 PROVE  (IF s = "stdout" THEN answer[c].stdout ELSE answer[c].stderr) = sent[s]
      BY DEF ExitCarriesAllOutput
    <2>1. answer[c] # Pending /\ answer[c] # TimedOut
      BY DEF Pending, TimedOut, Failed
    <2>2. done /\ answer[c] = Outcome
      BY <2>1 DEF SafeInv, CallInv
    <2>3. pc \in Closing
      BY <2>2 DEF SafeInv, SettledInv
    <2>4. Outcome = Exited(result, buf["stdout"], buf["stderr"])
      BY <2>2 DEF Outcome, Failed, EndedWithNoResult
    <2>5. buf[s] = sent[s]
      BY <2>3 DEF SafeInv, StateInv, BufferInv, Closing
    <2>6. QED
      BY <2>2, <2>4, <2>5 DEF Exited, Kept
  <1>2. QED
    BY <1>1, AlwaysSafe, PTL

(* The handle implements CommandOutcome: one outcome, settled once, is what *)
(* every call of Wait answers with that does not time out.                  *)
THEOREM HandleKeepsPromise == Spec => ImplementsPromise
  <1>1. Init => Promise!Init
    BY DEF Init, Promise!Init
  <1>2. SafeInv /\ [Next]_vars => [Promise!Next]_(Promise!vars)
    <2> SUFFICES ASSUME SafeInv, [Next]_vars PROVE [Promise!Next]_(Promise!vars)
      OBVIOUS
    <2> DEFINE outcome == IF done THEN Outcome ELSE Pending
    <2>1. Outcome \in Outcomes /\ Outcome # Pending
      BY OutcomeType, NotPending DEF SafeInv, StateInv
    <2>2. done => done' /\ Outcome' = Outcome
      BY OutcomeStable DEF SafeInv
    <2>3. CASE CloseDone
      <3>1. ~done /\ done' /\ Outcome' = Outcome /\ answer' = answer
        BY <2>3 DEF CloseDone, SafeInv, SettledInv, Closing, Outcome, waiters
      <3>2. Promise!Settle
        BY <2>1, <3>1 DEF Promise!Settle
      <3>3. QED
        BY <3>2 DEF Promise!Next
    <2>4. ASSUME NEW d \in Callers, SelectContext(d) PROVE [Promise!Next]_(Promise!vars)
      <3>1. answer[d] = Pending /\ answer' = [answer EXCEPT ![d] = TimedOut] /\ done' = done
        BY <2>4 DEF SelectContext, SafeInv, CallInv, handle
      <3>2. outcome' = outcome
        BY <2>2, <3>1
      <3>3. Promise!GiveUp(d)
        BY <3>1, <3>2 DEF Promise!GiveUp
      <3>4. QED
        BY <3>3 DEF Promise!Next
    <2>5. ASSUME NEW d \in Callers, ReadOutcome(d) PROVE [Promise!Next]_(Promise!vars)
      <3>1. answer[d] = Pending /\ done /\ answer' = [answer EXCEPT ![d] = Outcome]
        BY <2>5 DEF ReadOutcome, SafeInv, CallInv
      <3>2. outcome' = outcome
        BY <2>2, <3>1
      <3>3. Promise!Answer(d)
        BY <2>1, <3>1, <3>2 DEF Promise!Answer
      <3>4. QED
        BY <3>3 DEF Promise!Next
    <2>6. ASSUME ~CloseDone, ~ \E d \in Callers : SelectContext(d) \/ ReadOutcome(d)
          PROVE  done' = done /\ answer' = answer
      <3> USE DEF readers, waiters
      <3>1. CASE Receive
        BY <3>1 DEF Receive, ReceiveStart, ReceiveData, ReceiveEnd, ReceiveEOF, ReceiveErr
      <3>2. CASE Work
        BY <2>6, <3>2 DEF Work, AppendChunk, Callback, SendChunk, SetResult, SetErr,
                          CloseChannels, CloseChan
      <3>3. CASE \E e \in StreamErrs : LoseConnection(e)
        BY <3>3 DEF LoseConnection, handle
      <3>4. CASE \E s \in Streams : ReadChunk(s) \/ ReadClose(s)
        BY <3>4 DEF ReadChunk, ReadClose, handle
      <3>5. CASE \E c \in Callers : StartWait(c) \/ ContextEnds(c) \/ WaitStep(c)
        BY <2>6, <3>5 DEF StartWait, ContextEnds, WaitStep, SelectDone, handle
      <3>6. CASE UNCHANGED vars
        BY <3>6 DEF vars, handle
      <3>7. QED
        BY <3>1, <3>2, <3>3, <3>4, <3>5, <3>6 DEF Next
    <2>7. done' = done /\ answer' = answer => UNCHANGED Promise!vars
      BY <2>2 DEF Promise!vars
    <2>8. QED
      BY <2>3, <2>4, <2>5, <2>6, <2>7
  <1>3. QED
    BY <1>1, <1>2, AlwaysSafe, PTL DEF Spec, ImplementsPromise, Promise!Spec

-------------------------------------------------------------------------------
(* The output that left the goroutine on a channel.  A step leaves Seen(s) *)
(* and Handled(s) alone, or it handles the next chunk: it adds it to what  *)
(* readers see, or drops it because the channel is full.                   *)

OutputInv == \A s \in Streams :
    /\ Len(Seen(s)) <= Handled(s)
    /\ \A i \in DOMAIN Seen(s) : Seen(s)[i] <= Handled(s)
    /\ \A i, j \in DOMAIN Seen(s) : i < j => Seen(s)[i] < Seen(s)[j]
    /\ \A i \in 1..Cap : i <= Handled(s) => i \in DOMAIN Seen(s) /\ Seen(s)[i] = i

Unchanged(s) == Seen(s)' = Seen(s) /\ Handled(s)' = Handled(s)

Handles(s) == /\ Handled(s)' = Handled(s) + 1
              /\ \/ Len(chan[s]) = Cap /\ Seen(s)' = Seen(s)
                 \/ Len(chan[s]) # Cap /\ Seen(s)' = Append(Seen(s), Handled(s) + 1)

LEMMA SeenType ==
  ASSUME TypeOK, NEW s \in Streams
  PROVE  /\ Seen(s) \in Seq(1..MaxChunks)
         /\ chan[s] \in Seq(1..MaxChunks) /\ got[s] \in Seq(1..MaxChunks)
         /\ Len(chan[s]) <= Len(Seen(s)) /\ Len(Seen(s)) \in Nat /\ Len(chan[s]) \in Nat
         /\ DOMAIN Seen(s) = 1..Len(Seen(s))
         /\ \A i \in DOMAIN Seen(s) : Seen(s)[i] \in 1..MaxChunks
         /\ Handled(s) \in Int
  <1>1. chan[s] \in Seq(1..MaxChunks) /\ got[s] \in Seq(1..MaxChunks) /\ sent[s] \in Nat
    BY ConstantsOK DEF TypeOK
  <1>2. /\ Seen(s) \in Seq(1..MaxChunks) /\ Len(chan[s]) <= Len(Seen(s))
        /\ Len(chan[s]) \in Nat /\ Len(Seen(s)) \in Nat
        /\ DOMAIN Seen(s) = 1..Len(Seen(s)) /\ \A i \in DOMAIN Seen(s) : Seen(s)[i] \in 1..MaxChunks
    BY <1>1, SentType DEF Seen
  <1>3. Handled(s) \in Int
    BY <1>1 DEF Handled
  <1>4. QED
    BY <1>1, <1>2, <1>3

LEMMA SeenStep ==
  ASSUME StateInv, [Next]_vars, NEW s \in Streams
  PROVE  Unchanged(s) \/ Handles(s)
  <1> USE DEF readers, waiters
  <1>1. CASE ReceiveStart \/ ReceiveEOF \/ ReceiveErr \/ (\E k \in Codes : ReceiveEnd(k))
    BY <1>1 DEF ReceiveStart, ReceiveEOF, ReceiveErr, ReceiveEnd, Unchanged, Seen, Handled, Holding
  <1>2. ASSUME NEW r \in Streams, ReceiveData(r) PROVE Unchanged(s)
    <2>1. Seen(s)' = Seen(s)
      BY <1>2 DEF ReceiveData, Seen
    <2>2. Handled(s)' = Handled(s)
      <3>1. sent[s] \in Int /\ sent \in [Streams -> 0..MaxChunks]
        BY ConstantsOK DEF StateInv, TypeOK
      <3>2. ~Holding(s) /\ (Holding(s)' <=> r = s)
        BY <1>2 DEF ReceiveData, Holding
      <3>3. sent'[s] = IF r = s THEN sent[s] + 1 ELSE sent[s]
        BY <1>2, <3>1 DEF ReceiveData
      <3>4. QED
        BY <3>1, <3>2, <3>3 DEF Handled
    <2>3. QED
      BY <2>1, <2>2 DEF Unchanged
  <1>3. CASE AppendChunk \/ Callback \/ SetResult \/ SetErr \/ CloseDone \/ CloseChannels
    <2>1. Seen(s)' = Seen(s)
      BY <1>3 DEF AppendChunk, Callback, SetResult, SetErr, CloseDone, CloseChannels, CloseChan, Seen
    <2>2. Holding(s)' = Holding(s) /\ sent' = sent
      BY <1>3 DEF AppendChunk, Callback, SetResult, SetErr, CloseDone, CloseChannels, CloseChan, Holding
    <2>3. QED
      BY <2>1, <2>2 DEF Unchanged, Handled
  <1>4. CASE SendChunk /\ ev.on = s
    <2>1. /\ Handled(s) = sent[s] - 1 /\ Handled(s)' = sent[s] /\ sent[s] \in Int
          /\ ev.chunk = sent[s] /\ ev.chunk \in 1..MaxChunks
      BY <1>4, ConstantsOK DEF SendChunk, Handled, Holding, StateInv, TypeOK, EventInv, Events, NoEvent
    <2>2. CASE Full(s)
      <3>1. Seen(s)' = Seen(s) /\ Len(chan[s]) = Cap
        BY <1>4, <2>2 DEF SendChunk, Seen, Full
      <3>2. Handled(s)' = Handled(s) + 1
        BY <2>1
      <3>3. QED
        BY <3>1, <3>2 DEF Handles
    <2>3. CASE ~Full(s)
      <3>1. chan[s] \in Seq(1..MaxChunks) /\ got[s] \in Seq(1..MaxChunks)
        BY SeenType DEF StateInv
      <3>2. chan'[s] = Append(chan[s], ev.chunk) /\ got' = got
        BY <1>4, <2>3 DEF SendChunk, StateInv, TypeOK
      <3>3. got[s] \o Append(chan[s], ev.chunk) = Append(got[s] \o chan[s], ev.chunk)
        <4> DEFINE S == 1..MaxChunks
                   g == got[s]
                   c == chan[s]
                   x == ev.chunk
        <4>1. g \in Seq(S) /\ c \in Seq(S) /\ x \in S
          BY <2>1, <3>1
        <4> HIDE DEF S, g, c, x
        <4>2. g \o Append(c, x) = Append(g \o c, x)
          BY <4>1, SendAppends
        <4>3. QED
          BY <4>2 DEF g, c, x
      <3>4. ev.chunk = Handled(s) + 1
        BY <2>1
      <3>5. QED
        BY <2>1, <2>3, <3>2, <3>3, <3>4 DEF Handles, Seen, Full
    <2>4. QED
      BY <2>2, <2>3
  <1>5. CASE SendChunk /\ ev.on # s
    <2>1. chan'[s] = chan[s] /\ got' = got /\ sent' = sent /\ ~Holding(s) /\ ~Holding(s)'
      BY <1>5 DEF SendChunk, StateInv, TypeOK, Holding
    <2>2. QED
      BY <2>1 DEF Unchanged, Seen, Handled
  <1>6. ASSUME NEW r \in Streams, ReadChunk(r) PROVE Unchanged(s)
    <2>1. chan[s] \in Seq(1..MaxChunks) /\ got[s] \in Seq(1..MaxChunks)
      BY SeenType DEF StateInv
    <2>2. CASE r = s
      <3>1. chan[s] # <<>>
        BY <1>6, <2>2 DEF ReadChunk
      <3>2. got'[s] = Append(got[s], Head(chan[s])) /\ chan'[s] = Tail(chan[s])
        BY <1>6, <2>2 DEF ReadChunk, StateInv, TypeOK
      <3>3. Append(got[s], Head(chan[s])) \o Tail(chan[s]) = got[s] \o chan[s]
        BY <2>1, <3>1, ReceiveKeeps
      <3>4. QED
        BY <1>6, <3>2, <3>3 DEF ReadChunk, Unchanged, Seen, Handled, Holding
    <2>3. CASE r # s
      BY <1>6, <2>3 DEF ReadChunk, Unchanged, Seen, Handled, Holding, StateInv, TypeOK
    <2>4. QED
      BY <2>2, <2>3
  <1>7. CASE \/ \E r \in Streams : ReadClose(r)
             \/ \E e \in StreamErrs : LoseConnection(e)
             \/ \E c \in Callers : StartWait(c) \/ ContextEnds(c) \/ WaitStep(c)
             \/ UNCHANGED vars
    <2>1. UNCHANGED <<pc, ev, sent, chan, got>>
      BY <1>7 DEF ReadClose, LoseConnection, StartWait, ContextEnds, WaitStep, SelectDone,
                  SelectContext, ReadOutcome, handle, vars
    <2>2. QED
      BY <2>1 DEF Unchanged, Seen, Handled, Holding
  <1>8. QED
    BY <1>1, <1>2, <1>3, <1>4, <1>5, <1>6, <1>7 DEF Next, Receive, Work

LEMMA OutputStep == StateInv /\ OutputInv /\ [Next]_vars => OutputInv'
  <1> SUFFICES ASSUME StateInv, OutputInv, [Next]_vars, NEW s \in Streams
               PROVE  (/\ Len(Seen(s)) <= Handled(s)
                       /\ \A i \in DOMAIN Seen(s) : Seen(s)[i] <= Handled(s)
                       /\ \A i, j \in DOMAIN Seen(s) : i < j => Seen(s)[i] < Seen(s)[j]
                       /\ \A i \in 1..Cap : i <= Handled(s) => i \in DOMAIN Seen(s) /\ Seen(s)[i] = i)'
    BY DEF OutputInv
  <1> DEFINE q == Seen(s)
             h == Handled(s)
  <1>1. /\ q \in Seq(1..MaxChunks) /\ h \in Int
        /\ Len(chan[s]) <= Len(q) /\ Len(q) \in Nat /\ Len(chan[s]) \in Nat
        /\ DOMAIN q = 1..Len(q) /\ \A i \in DOMAIN q : q[i] \in 1..MaxChunks
    BY SeenType DEF StateInv
  <1>2. /\ Len(q) <= h
        /\ \A i \in DOMAIN q : q[i] <= h
        /\ \A i, j \in DOMAIN q : i < j => q[i] < q[j]
        /\ \A i \in 1..Cap : i <= h => i \in DOMAIN q /\ q[i] = i
    BY DEF OutputInv
  <1>3. CASE Unchanged(s)
    BY <1>2, <1>3 DEF Unchanged
  <1>4. CASE Handles(s) /\ q' = q /\ Len(chan[s]) = Cap
    <2>1. h' = h + 1 /\ Cap <= h
      BY <1>1, <1>2, <1>4, ConstantsOK DEF Handles
    <2>2. \A i \in 1..Cap : i \in DOMAIN q /\ q[i] = i
      BY <1>1, <1>2, <2>1, ConstantsOK
    <2> HIDE DEF q, h
    <2>3. /\ Len(q') <= h' /\ \A i \in DOMAIN q' : q'[i] <= h'
      BY <1>1, <1>2, <1>4, <2>1, ConstantsOK
    <2>4. QED
      BY <1>2, <1>4, <2>2, <2>3 DEF q, h
  <1>5. CASE Handles(s) /\ q' = Append(q, h + 1)
    <2> HIDE DEF q, h
    <2>1. h' = h + 1
      BY <1>5 DEF Handles, h
    <2>2. /\ Len(q') = Len(q) + 1 /\ DOMAIN q' = 1..(Len(q) + 1) /\ DOMAIN q = 1..Len(q)
          /\ \A i \in DOMAIN q : q'[i] = q[i]
          /\ q'[Len(q) + 1] = h + 1
      BY <1>1, <1>5
    <2>3. \A i \in DOMAIN q : q[i] \in 1..MaxChunks
      BY <1>1, <2>2
    <2>4. Len(q) \in Nat
      BY <1>1
    <2>5. Len(q') <= h' /\ \A i \in DOMAIN q' : q'[i] <= h'
      BY <1>1, <1>2, <2>1, <2>2, <2>3, <2>4, ConstantsOK
    <2>6. \A i, j \in DOMAIN q' : i < j => q'[i] < q'[j]
      <3> SUFFICES ASSUME NEW i \in DOMAIN q', NEW j \in DOMAIN q', i < j PROVE q'[i] < q'[j]
        OBVIOUS
      <3>1. i \in DOMAIN q /\ q'[i] = q[i]
        BY <2>2, <2>4
      <3>2. CASE j \in DOMAIN q
        BY <1>2, <2>2, <3>1, <3>2
      <3>3. CASE j = Len(q) + 1
        <4>1. q[i] <= h /\ q[i] \in Int
          BY <1>2, <2>3, <3>1, ConstantsOK
        <4>2. QED
          BY <1>1, <2>2, <3>1, <3>3, <4>1
      <3>4. QED
        BY <2>2, <2>4, <3>2, <3>3
    <2>7. \A i \in 1..Cap : i <= h' => i \in DOMAIN q' /\ q'[i] = i
      <3> SUFFICES ASSUME NEW i \in 1..Cap, i <= h' PROVE i \in DOMAIN q' /\ q'[i] = i
        OBVIOUS
      <3>1. CASE i <= h
        BY <1>2, <2>2, <2>4, <3>1
      <3>2. CASE i = h + 1
        <4>1. h >= 0 /\ h < Cap
          BY <1>1, <1>2, <2>4, <3>2, ConstantsOK
        <4>2. h = 0 \/ h \in 1..Cap
          BY <1>1, <4>1, ConstantsOK
        <4>3. Len(q) = h
          <5>1. CASE h = 0
            BY <1>2, <2>4, <5>1
          <5>2. CASE h \in 1..Cap
            <6>1. h \in 1..Len(q)
              BY <1>2, <2>2, <5>2
            <6>2. Len(q) <= h
              BY <1>2
            <6>3. QED
              BY <2>4, <6>1, <6>2
          <5>3. QED
            BY <4>2, <5>1, <5>2
        <4>4. QED
          BY <2>2, <3>2, <4>3, <2>4
      <3>3. QED
        BY <1>1, <2>1, <3>1, <3>2, ConstantsOK
    <2>8. QED
      BY <2>5, <2>6, <2>7 DEF q, h
  <1>6. QED
    BY <1>3, <1>4, <1>5, SeenStep DEF Handles

LEMMA OutputInit == Init => OutputInv
  <1> SUFFICES ASSUME Init, NEW s \in Streams
               PROVE  Seen(s) = <<>> /\ Handled(s) = 0
    BY ConstantsOK DEF OutputInv
  <1>1. QED
    BY DEF Init, Seen, Handled, Holding

LEMMA AlwaysOutput == Spec => [](StateInv /\ OutputInv)
  <1>1. Init => StateInv /\ OutputInv
    BY InitState, OutputInit
  <1>2. StateInv /\ OutputInv /\ [Next]_vars => (StateInv /\ OutputInv)'
    BY StepState, OutputStep
  <1>3. QED
    BY <1>1, <1>2, PTL DEF Spec

(* Readers see the chunks of a stream in order and at most once. *)
THEOREM OutputInOrder == Spec => []ReadersSeeOutputInOrder
  <1>1. OutputInv => ReadersSeeOutputInOrder
    BY DEF OutputInv, ReadersSeeOutputInOrder
  <1>2. QED
    BY <1>1, AlwaysOutput, PTL

(* The first Cap chunks of a stream are never dropped. *)
THEOREM NoEarlyLoss == Spec => []FirstChunksKept
  <1>1. StateInv /\ OutputInv => FirstChunksKept
    <2> SUFFICES ASSUME StateInv, OutputInv, NEW s \in Streams, NEW i \in 1..Cap, i <= sent[s],
                        ~(ev.type = "data" /\ ev.on = s /\ ev.chunk = i)
                 PROVE  i \in DOMAIN Seen(s) /\ Seen(s)[i] = i
      BY DEF FirstChunksKept
    <2>1. i <= Handled(s)
      BY ConstantsOK DEF Handled, Holding, StateInv, EventInv, TypeOK
    <2>2. QED
      BY <2>1 DEF OutputInv
  <1>2. QED
    BY <1>1, AlwaysOutput, PTL

(* What a reader has is part of what Wait returns. *)
THEOREM WaitCoversReaders == Spec => []ReadersNeverAheadOfWait
  <1>1. StateInv /\ OutputInv => ReadersNeverAheadOfWait
    <2> SUFFICES ASSUME StateInv, OutputInv, NEW s \in Streams \cap Kept, NEW i \in DOMAIN Seen(s)
                 PROVE  Seen(s)[i] <= buf[s]
      BY DEF ReadersNeverAheadOfWait
    <2>1. Handled(s) <= buf[s] /\ Handled(s) \in Int /\ buf[s] \in Int
      BY ConstantsOK DEF Handled, Holding, StateInv, BufferInv, TypeOK
    <2>2. Seen(s)[i] \in 1..MaxChunks
      BY SeenType DEF StateInv
    <2>3. Seen(s)[i] <= Handled(s)
      BY DEF OutputInv
    <2>4. QED
      BY <2>1, <2>2, <2>3, ConstantsOK
  <1>2. QED
    BY <1>1, AlwaysOutput, PTL

-------------------------------------------------------------------------------
(* Control: Kill, the PID and standard input (CommandControl)               *)

(* The variables that CommandControl adds keep to their values. *)
ControlType ==
    /\ pid0 \in {NoPid, Pid} /\ pid \in {NoPid, Pid}
    /\ aware \subseteq Actors
    /\ proc \in {"spawning", "running", "exited"}
    /\ signalled \in BOOLEAN
    /\ kill \in [Killers -> {"idle", "sent", "ok", "notFound", "lost", "returned"}]
    /\ target \in [Actors -> {NoPid, Pid}]
    /\ killed \in [Killers -> BOOLEAN]
    /\ pumped \in 0..MaxStdin
    /\ sending \in BOOLEAN
    /\ stdin \in Seq(1..MaxStdin)
    /\ givenUp \subseteq 1..MaxStdin
    /\ lateInput \subseteq 1..MaxStdin
    /\ lateKill \subseteq Killers

(* Nobody knows the PID before the process runs, and who knows it does not forget it. *)
PidInv ==
    /\ pid0 = Pid => pid = Pid
    /\ pid = Pid => proc # "spawning"
    /\ \A a \in aware : pid = Pid
    /\ \A a \in Actors : target[a] = Pid => a \in aware

(* A Kill by who knew the PID before has used it. *)
KillInv ==
    \A k \in Killers \cap aware : /\ kill[k] # "idle" => target[k] = Pid
                                  /\ kill[k] = "notFound" => proc = "exited"

(* The chunks whose requests are over. *)
Pumped == IF sending THEN pumped - 1 ELSE pumped

(* The chunks the process has read. *)
Come == Range(stdin)

(* A request that may still be carried out was given up, and what it carries has not come.  As *)
(* long as the process runs, every chunk the pump is done with, after one that has come or     *)
(* may still come, has come itself or was given up.                                            *)
StdinInv ==
    /\ sending => pumped > 0
    /\ Come \cup givenUp \subseteq 1..Pumped
    /\ lateInput \subseteq givenUp \ Come
    /\ Come \cup lateInput # {} => target[Pump] = Pid
    /\ proc = "running" => \A m \in Come \cup lateInput : (m + 1)..Pumped \subseteq Come \cup givenUp

ControlInv == ControlType /\ PidInv /\ KillInv /\ StdinInv /\ StdinInOrder

-------------------------------------------------------------------------------
(* Every step of the controlled command is a step of its stream, or leaves the stream alone. *)
LEMMA ControlStep == [CNext]_cvars => [Next]_vars
  <1>1. ASSUME StartEvent \/ EndEvent \/ OtherStreamStep PROVE Next
    BY <1>1 DEF StartEvent, EndEvent, OtherStreamStep, Next, Receive
  <1>2. ASSUME NEW k \in Killers, CallPID(k) \/ Kill(k) \/ SendSignal(k) \/ KillReturns(k) \/ LoseKill(k)
                             \/ LateSignal(k)
        PROVE  UNCHANGED vars
    BY <1>2 DEF CallPID, Kill, SendSignal, KillReturns, LoseKill, LateSignal
  <1>3. ASSUME Spawn \/ Exit \/ PumpChunk \/ SendInput \/ LoseInput \/ LateInput PROVE UNCHANGED vars
    BY <1>3 DEF Spawn, Exit, PumpChunk, SendInput, LoseInput, LateInput
  <1>4. ASSUME UNCHANGED cvars PROVE UNCHANGED vars
    BY <1>4 DEF cvars
  <1>5. QED
    BY <1>1, <1>2, <1>3, <1>4 DEF CNext

(* Kill and the pump of standard input take nothing from what the handle promises: all that is *)
(* proved of a CommandStream holds of a command that is controlled.                            *)
THEOREM ControlKeepsStream == CSpec => Spec
  <1>1. CInit => Init
    BY DEF CInit
  <1>2. QED
    BY <1>1, ControlStep, PTL DEF CSpec, Spec

(* A PID is not NoPid, and the pump is no Killer. *)
LEMMA Constants == /\ Pid # NoPid /\ Pump \in Actors /\ Pump \notin Killers
                   /\ MaxStdin \in Nat /\ Killers \subseteq Actors
  BY ControlOK DEF ControlOK, Actors, NoPid

(* At first no request has been made. *)
LEMMA ControlInit == CInit => ControlInv
  <1> SUFFICES ASSUME CInit PROVE ControlInv
    OBVIOUS
  <1>1. /\ (pid0 = NoPid /\ proc = "spawning") \/ (pid0 = Pid /\ proc = "running")
        /\ pid = pid0 /\ aware = {} /\ signalled = FALSE /\ kill = [k \in Killers |-> "idle"]
        /\ target = [a \in Actors |-> NoPid] /\ killed = [k \in Killers |-> FALSE]
        /\ pumped = 0 /\ sending = FALSE /\ stdin = <<>>
        /\ givenUp = {} /\ lateInput = {} /\ lateKill = {}
    BY DEF CInit
  <1>2. stdin \in Seq(1..MaxStdin) /\ Len(stdin) = 0 /\ DOMAIN stdin = {}
    BY <1>1, EmptySeq
  <1>3. ControlType
    <2>1. pumped \in 0..MaxStdin
      BY <1>1, Constants
    <2>2. kill \in [Killers -> {"idle", "sent", "ok", "notFound", "lost", "returned"}]
      BY <1>1
    <2>3. target \in [Actors -> {NoPid, Pid}] /\ killed \in [Killers -> BOOLEAN]
      BY <1>1
    <2>4. QED
      BY <1>1, <1>2, <2>1, <2>2, <2>3 DEF ControlType
  <1>4. PidInv /\ KillInv
    BY <1>1, Constants DEF PidInv, KillInv
  <1>5. StdinInv /\ StdinInOrder
    <2>1. Come = {}
      BY <1>2 DEF Come, Range
    <2>2. QED
      BY <1>1, <1>2, <2>1 DEF StdinInv, StdinInOrder
  <1>6. QED
    BY <1>3, <1>4, <1>5 DEF ControlInv

(* The Start event brings the PID of a process that runs. *)
LEMMA StreamControl == ASSUME ControlInv, StartEvent \/ EndEvent \/ OtherStreamStep PROVE ControlInv'
  <1>1. /\ pid' = pid \/ (pid' = Pid /\ proc # "spawning")
        /\ UNCHANGED <<pid0, aware, envd, kill, target, killed, pumped, sending, late>>
    BY DEF StartEvent, EndEvent, OtherStreamStep, control
  <1>2. /\ pid0' = pid0 /\ aware' = aware /\ proc' = proc /\ signalled' = signalled /\ stdin' = stdin
        /\ kill' = kill /\ target' = target /\ killed' = killed /\ pumped' = pumped
        /\ sending' = sending /\ givenUp' = givenUp /\ lateInput' = lateInput /\ lateKill' = lateKill
    BY <1>1 DEF envd, late
  <1>3. ControlType'
    BY <1>1, <1>2 DEF ControlInv, ControlType
  <1>4. PidInv' /\ KillInv'
    BY <1>1, <1>2 DEF ControlInv, PidInv, KillInv
  <1>5. StdinInv' /\ StdinInOrder'
    BY <1>2 DEF ControlInv, StdinInv, Pumped, Come, StdinInOrder
  <1>6. QED
    BY <1>3, <1>4, <1>5 DEF ControlInv

(* The process starts or ends. *)
LEMMA ProcessControl == ASSUME ControlInv, Spawn \/ Exit PROVE ControlInv'
  <1>1. /\ (proc = "spawning" /\ proc' = "running") \/ (proc = "running" /\ proc' = "exited")
        /\ pid0' = pid0 /\ pid' = pid /\ aware' = aware /\ signalled' = signalled /\ stdin' = stdin
        /\ kill' = kill /\ target' = target /\ killed' = killed /\ pumped' = pumped
        /\ sending' = sending /\ givenUp' = givenUp /\ lateInput' = lateInput /\ lateKill' = lateKill
    BY DEF Spawn, Exit, late
  <1>2. ControlType'
    BY <1>1 DEF ControlInv, ControlType
  <1>3. PidInv' /\ KillInv'
    BY <1>1 DEF ControlInv, PidInv, KillInv
  <1>4. StdinInOrder'
    BY <1>1 DEF ControlInv, StdinInOrder
  <1>5. proc = "spawning" => Come \cup lateInput = {}
    BY Constants DEF ControlInv, PidInv, StdinInv
  <1>6. StdinInv'
    BY <1>1, <1>5 DEF ControlInv, StdinInv, Pumped, Come
  <1>7. QED
    BY <1>2, <1>3, <1>4, <1>6 DEF ControlInv

(* What an actor reads as h.pid: whoever has learned the PID reads it again. *)
LEMMA RacyRead ==
    ASSUME ControlInv, NEW a \in Actors, NEW p \in RacyPid(a), Learn(a, p)
    PROVE  /\ p \in {NoPid, Pid} /\ aware \subseteq aware' /\ aware' \subseteq aware \cup {a}
           /\ a \in aware => p = Pid
           /\ a \in aware' => p = Pid
           /\ p = Pid => pid = Pid /\ a \in aware'
  <1>1. pid \in {NoPid, Pid} /\ pid0 \in {NoPid, Pid} /\ (pid0 = Pid => pid = Pid) /\ (a \in aware => pid = Pid)
    BY DEF ControlInv, ControlType, PidInv
  <1>2. p \in {pid0, pid} /\ (a \in aware => p = pid)
    BY DEF RacyPid
  <1>3. aware' = IF p # NoPid THEN aware \cup {a} ELSE aware
    BY DEF Learn
  <1>4. QED
    BY <1>1, <1>2, <1>3, Constants

(* A caller learns the PID before it calls Kill. *)
LEMMA CallPIDControl == ASSUME ControlInv, NEW k \in Killers, CallPID(k) PROVE ControlInv'
  <1>1. /\ pid # NoPid /\ kill[k] = "idle" /\ aware' = aware \cup {k}
        /\ pid0' = pid0 /\ pid' = pid /\ proc' = proc /\ signalled' = signalled /\ stdin' = stdin
        /\ kill' = kill /\ target' = target /\ killed' = killed /\ pumped' = pumped
        /\ sending' = sending /\ givenUp' = givenUp /\ lateInput' = lateInput /\ lateKill' = lateKill
    BY DEF CallPID, envd, late
  <1>2. ControlType'
    BY <1>1, Constants DEF ControlInv, ControlType
  <1>3. PidInv'
    BY <1>1 DEF ControlInv, ControlType, PidInv
  <1>4. KillInv'
    BY <1>1 DEF ControlInv, KillInv
  <1>5. StdinInv' /\ StdinInOrder'
    BY <1>1 DEF ControlInv, StdinInv, Pumped, Come, StdinInOrder
  <1>6. QED
    BY <1>2, <1>3, <1>4, <1>5 DEF ControlInv

(* Kill asks for the PID it has read; envd finds the process unless it has exited. *)
LEMMA KillControl ==
    ASSUME ControlInv, NEW k \in Killers, Kill(k) \/ SendSignal(k) \/ KillReturns(k) \/ LoseKill(k)
                     \/ LateSignal(k)
    PROVE  ControlInv'
  <1>1. /\ pid0' = pid0 /\ pid' = pid /\ proc' = proc /\ stdin' = stdin
        /\ pumped' = pumped /\ sending' = sending /\ givenUp' = givenUp /\ lateInput' = lateInput
    BY DEF Kill, SendSignal, KillReturns, LoseKill, LateSignal, envd, late
  <1>2. k \in Actors /\ k # Pump
    BY Constants
  <1>3. CASE Kill(k)
    <2>1. /\ kill[k] = "idle" /\ kill' = [kill EXCEPT ![k] = "sent"]
          /\ signalled' = signalled /\ killed' = killed /\ lateKill' = lateKill
      BY <1>3 DEF Kill, envd, late
    <2>2. PICK p \in RacyPid(k) : target' = [target EXCEPT ![k] = p] /\ Learn(k, p)
      BY <1>3 DEF Kill
    <2>3. /\ p \in {NoPid, Pid} /\ aware \subseteq aware' /\ aware' \subseteq aware \cup {k}
          /\ k \in aware' => p = Pid
          /\ p = Pid => pid = Pid /\ k \in aware'
      BY <1>2, <2>2, RacyRead
    <2>4. ControlType'
      BY <1>1, <1>2, <2>1, <2>2, <2>3 DEF ControlInv, ControlType
    <2>5. PidInv'
      BY <1>1, <1>2, <2>2, <2>3 DEF ControlInv, ControlType, PidInv
    <2>6. KillInv'
      BY <1>1, <1>2, <2>1, <2>2, <2>3 DEF ControlInv, ControlType, KillInv
    <2>7. target'[Pump] = target[Pump]
      BY <1>2, <2>2 DEF ControlInv, ControlType
    <2>8. StdinInv' /\ StdinInOrder'
      BY <1>1, <2>1, <2>7 DEF ControlInv, StdinInv, Pumped, Come, StdinInOrder
    <2>9. QED
      BY <2>4, <2>5, <2>6, <2>8 DEF ControlInv
  <1>4. CASE SendSignal(k) \/ KillReturns(k) \/ LoseKill(k) \/ LateSignal(k)
    <2>1. /\ aware' = aware /\ target' = target
          /\ signalled' \in BOOLEAN
          /\ lateKill' \subseteq lateKill \cup {k}
          /\ \E b \in BOOLEAN : killed' \in {killed, [killed EXCEPT ![k] = b]}
      BY <1>4 DEF SendSignal, KillReturns, LoseKill, LateSignal, envd, late, Finds, ControlInv, ControlType
    <2>2. \/ kill' = kill
          \/ \E t \in {"ok", "notFound", "lost", "returned"} :
                /\ kill' = [kill EXCEPT ![k] = t] /\ kill[k] # "idle"
                /\ t = "notFound" => ~Finds(k)
      BY <1>4 DEF SendSignal, KillReturns, LoseKill, LateSignal
    <2>3. ControlType'
      BY <1>1, <2>1, <2>2 DEF ControlInv, ControlType
    <2>4. PidInv'
      BY <1>1, <2>1 DEF ControlInv, PidInv
    <2>5. KillInv'
      <3>1. CASE kill' = kill
        BY <1>1, <2>1, <3>1 DEF ControlInv, KillInv
      <3>2. ASSUME NEW t \in {"ok", "notFound", "lost", "returned"},
                   kill' = [kill EXCEPT ![k] = t], kill[k] # "idle", t = "notFound" => ~Finds(k)
            PROVE  KillInv'
        <4>1. k \in aware /\ t = "notFound" => proc = "exited"
          BY <3>2 DEF Finds, ControlInv, ControlType, PidInv, KillInv
        <4>2. QED
          BY <1>1, <2>1, <3>2, <4>1 DEF ControlInv, ControlType, KillInv
      <3>3. QED
        BY <2>2, <3>1, <3>2
    <2>6. StdinInv' /\ StdinInOrder'
      BY <1>1, <2>1 DEF ControlInv, StdinInv, Pumped, Come, StdinInOrder
    <2>7. QED
      BY <2>3, <2>4, <2>5, <2>6 DEF ControlInv
  <1>5. QED
    BY <1>3, <1>4

(* The pump never asks for another process than the one it has learned. *)
LEMMA PumpControl == ASSUME ControlInv, PumpChunk PROVE ControlInv'
  <1>1. /\ ~sending /\ pumped < MaxStdin /\ pumped' = pumped + 1 /\ sending' = TRUE
        /\ pid0' = pid0 /\ pid' = pid /\ proc' = proc /\ signalled' = signalled /\ stdin' = stdin
        /\ kill' = kill /\ killed' = killed
        /\ givenUp' = givenUp /\ lateInput' = lateInput /\ lateKill' = lateKill
    BY DEF PumpChunk, envd, late
  <1>2. PICK p \in RacyPid(Pump) : target' = [target EXCEPT ![Pump] = p] /\ Learn(Pump, p)
    BY DEF PumpChunk
  <1>3. /\ p \in {NoPid, Pid} /\ aware \subseteq aware' /\ aware' \subseteq aware \cup {Pump}
        /\ Pump \in aware => p = Pid
        /\ Pump \in aware' => p = Pid
        /\ p = Pid => pid = Pid /\ Pump \in aware'
    BY <1>2, Constants, RacyRead
  <1>4. pumped \in 0..MaxStdin /\ MaxStdin \in Nat /\ pumped' \in 0..MaxStdin /\ pumped' - 1 = pumped /\ pumped' > 0
    BY <1>1, Constants DEF ControlInv, ControlType
  <1>5. ControlType'
    BY <1>1, <1>2, <1>3, <1>4, Constants DEF ControlInv, ControlType
  <1>6. PidInv'
    BY <1>1, <1>2, <1>3, Constants DEF ControlInv, ControlType, PidInv
  <1>7. \A k \in Killers : target'[k] = target[k] /\ (k \in aware' => k \in aware)
    BY <1>2, <1>3, Constants DEF ControlInv, ControlType
  <1>8. KillInv'
    BY <1>1, <1>7 DEF ControlInv, KillInv
  <1>9. target'[Pump] = Pid <=> p = Pid
    BY <1>2, Constants DEF ControlInv, ControlType
  <1>10. Come \cup lateInput # {} => p = Pid
    BY <1>3, Constants DEF ControlInv, PidInv, StdinInv
  <1>11. Pumped' = Pumped
    BY <1>1, <1>4 DEF Pumped
  <1>12. StdinInv' /\ StdinInOrder'
    BY <1>1, <1>4, <1>9, <1>10, <1>11 DEF ControlInv, StdinInv, Come, StdinInOrder
  <1>13. QED
    BY <1>5, <1>6, <1>8, <1>12 DEF ControlInv

(* One more chunk comes: it is new, and only a chunk given up comes after a later one. *)
LEMMA OneMoreChunk ==
    ASSUME ControlInv, NEW n \in 1..MaxStdin, n \notin Come, stdin' = Append(stdin, n), givenUp \subseteq givenUp',
           \A m \in Come : m > n => n \in givenUp',
           \A m \in Come : (m + 1)..(n - 1) \cup (n + 1)..(m - 1) \subseteq Come \cup givenUp
    PROVE  stdin' \in Seq(1..MaxStdin) /\ Come' = Come \cup {n} /\ StdinInOrder'
  <1> DEFINE l == Len(stdin)
  <1>1. /\ stdin \in Seq(1..MaxStdin) /\ l \in Nat /\ DOMAIN stdin = 1..l
        /\ \A i \in 1..l : stdin[i] \in Come /\ stdin[i] \in Int
    <2>1. stdin \in Seq(1..MaxStdin) /\ l \in Nat /\ DOMAIN stdin = 1..l
      BY LenProperties DEF ControlInv, ControlType
    <2>2. QED
      BY <2>1, ElementOfSeq, Constants DEF Come, Range
  <1>2. /\ stdin' \in Seq(1..MaxStdin) /\ DOMAIN stdin' = 1..(l + 1)
        /\ \A i \in 1..l : stdin'[i] = stdin[i]
        /\ stdin'[l + 1] = n
    BY <1>1, AppendProperties, LenProperties
  <1>3. \A i \in 1..(l + 1) : i \in 1..l \/ i = l + 1
    BY <1>1
  <1>4. Come' = Come \cup {n}
    <2>1. Come = {stdin[i] : i \in 1..l} /\ Come' = {stdin'[i] : i \in 1..(l + 1)}
      BY <1>1, <1>2 DEF Come, Range
    <2>2. l + 1 \in 1..(l + 1) /\ 1..l \subseteq 1..(l + 1)
      BY <1>1
    <2>3. \A x \in Come' : x \in Come \cup {n}
      BY <1>2, <1>3, <2>1
    <2>4. \A x \in Come \cup {n} : x \in Come'
      BY <1>2, <2>1, <2>2
    <2>5. QED
      BY <2>3, <2>4
  <1>5. \A i, j \in 1..l : /\ i < j => stdin[i] # stdin[j]
                           /\ i < j /\ stdin[j] < stdin[i] => stdin[j] \in givenUp
                           /\ (stdin[i] + 1)..(stdin[j] - 1) \subseteq Come \cup givenUp
    BY <1>1 DEF ControlInv, StdinInOrder, Come
  <1>6. ASSUME NEW i \in 1..(l + 1), NEW j \in 1..(l + 1)
        PROVE  /\ i < j => stdin'[i] # stdin'[j]
               /\ i < j /\ stdin'[j] < stdin'[i] => stdin'[j] \in givenUp'
               /\ (stdin'[i] + 1)..(stdin'[j] - 1) \subseteq Come' \cup givenUp'
    <2>1. CASE i \in 1..l /\ j \in 1..l
      <3>1. stdin'[i] = stdin[i] /\ stdin'[j] = stdin[j]
        BY <1>2, <2>1
      <3>2. Come \cup givenUp \subseteq Come' \cup givenUp'
        BY <1>4
      <3>3. QED
        BY <1>5, <2>1, <3>1, <3>2
    <2>2. CASE i \in 1..l /\ j = l + 1
      <3>1. stdin'[i] = stdin[i] /\ stdin'[j] = n /\ stdin[i] \in Come /\ stdin[i] \in Int /\ n \in Int
        BY <1>1, <1>2, <2>2, Constants
      <3>2. stdin[i] # n
        BY <3>1
      <3>3. n < stdin[i] => n \in givenUp'
        BY <3>1
      <3>4. (stdin[i] + 1)..(n - 1) \subseteq Come' \cup givenUp'
        BY <1>4, <3>1
      <3>5. QED
        BY <3>1, <3>2, <3>3, <3>4
    <2>3. CASE i = l + 1 /\ j \in 1..l
      <3>1. stdin'[j] = stdin[j] /\ stdin'[i] = n /\ stdin[j] \in Come
        BY <1>1, <1>2, <2>3
      <3>2. (n + 1)..(stdin[j] - 1) \subseteq Come' \cup givenUp'
        BY <1>4, <3>1
      <3>3. ~(i < j)
        BY <1>1, <2>3
      <3>4. QED
        BY <3>1, <3>2, <3>3
    <2>4. CASE i = l + 1 /\ j = l + 1
      <3>1. (n + 1)..(n - 1) = {} /\ ~(i < j)
        BY <1>1, <2>4, Constants
      <3>2. QED
        BY <1>2, <2>4, <3>1
    <2>5. QED
      BY <1>3, <2>1, <2>2, <2>3, <2>4
  <1>7. StdinInOrder'
    BY <1>2, <1>6 DEF StdinInOrder, Come
  <1>8. QED
    BY <1>2, <1>4, <1>7

(* What is under way, or late, is a chunk of the reader that has not come. *)
LEMMA UnderWay ==
    ASSUME ControlInv
    PROVE  /\ pumped \in Nat /\ Pumped \in Int
           /\ Come \subseteq Int /\ (\A m \in Come \cup givenUp : m <= Pumped)
           /\ sending => pumped \in 1..MaxStdin /\ pumped \notin Come /\ Pumped = pumped - 1
           /\ lateInput \subseteq 1..MaxStdin
  BY Constants DEF ControlInv, ControlType, StdinInv, Pumped

(* A request of the pump is over: the process has read the chunk, or not, or may do so later. *)
LEMMA InputControl == ASSUME ControlInv, SendInput \/ LoseInput PROVE ControlInv'
  <1>1. /\ sending /\ sending' = FALSE
        /\ \/ stdin' = Append(stdin, pumped) /\ Finds(Pump) /\ lateInput' = lateInput
              /\ givenUp' \in {givenUp, givenUp \cup {pumped}}
           \/ stdin' = stdin /\ ~Finds(Pump) /\ lateInput' = lateInput /\ givenUp' = givenUp
           \/ stdin' = stdin /\ givenUp' = givenUp \cup {pumped} /\ lateInput' = lateInput
           \/ stdin' = stdin /\ givenUp' = givenUp \cup {pumped} /\ target[Pump] = Pid
              /\ lateInput' = lateInput \cup {pumped}
        /\ pid0' = pid0 /\ pid' = pid /\ aware' = aware /\ proc' = proc /\ signalled' = signalled
        /\ kill' = kill /\ target' = target /\ killed' = killed /\ pumped' = pumped /\ lateKill' = lateKill
    BY DEF SendInput, LoseInput, envd, late
  <1>2. /\ pumped \in 1..MaxStdin /\ pumped \in Int /\ pumped \notin Come /\ Pumped = pumped - 1 /\ Pumped' = pumped
        /\ Come \subseteq Int /\ \A m \in Come \cup givenUp : m <= pumped - 1
    BY <1>1, UnderWay DEF Pumped
  <1>3. PidInv' /\ KillInv'
    BY <1>1 DEF ControlInv, PidInv, KillInv
  <1>4. /\ sending => pumped > 0
        /\ Come \cup givenUp \subseteq 1..(pumped - 1)
        /\ lateInput \subseteq givenUp \ Come
        /\ Come \cup lateInput # {} => target[Pump] = Pid
        /\ proc = "running" => \A m \in Come \cup lateInput : (m + 1)..(pumped - 1) \subseteq Come \cup givenUp
    BY <1>2 DEF ControlInv, StdinInv
  <1>5. 1..pumped = 1..(pumped - 1) \cup {pumped}
    BY <1>2
  <1>6. \A m \in Come \cup lateInput : m \in Int /\ (m + 1)..pumped \subseteq (m + 1)..(pumped - 1) \cup {pumped}
    BY <1>2, <1>4
  <1>7. CASE stdin' = Append(stdin, pumped) /\ Finds(Pump) /\ lateInput' = lateInput
             /\ givenUp' \in {givenUp, givenUp \cup {pumped}}
    <2>1. target[Pump] = Pid /\ proc = "running"
      BY <1>7 DEF Finds
    <2>2. \A m \in Come : (m + 1)..(pumped - 1) \cup (pumped + 1)..(m - 1) \subseteq Come \cup givenUp
      BY <1>2, <1>4, <2>1
    <2>3. \A m \in Come : ~(m > pumped)
      BY <1>2
    <2>4. stdin' \in Seq(1..MaxStdin) /\ Come' = Come \cup {pumped} /\ StdinInOrder'
      BY <1>2, <1>7, <2>2, <2>3, OneMoreChunk
    <2>5. ControlType'
      BY <1>1, <1>2, <1>7, <2>4 DEF ControlInv, ControlType
    <2>6. (pumped + 1)..pumped = {}
      BY <1>2
    <2>7. pumped \notin lateInput
      BY <1>2, <1>4
    <2>8. StdinInv'
      BY <1>1, <1>2, <1>4, <1>5, <1>6, <1>7, <2>1, <2>4, <2>6, <2>7 DEF StdinInv
    <2>9. QED
      BY <1>3, <2>4, <2>5, <2>8 DEF ControlInv
  <1>8. CASE stdin' = stdin /\ ~Finds(Pump) /\ lateInput' = lateInput /\ givenUp' = givenUp
    <2>1. ControlType' /\ StdinInOrder' /\ Come' = Come
      BY <1>1, <1>8 DEF ControlInv, ControlType, StdinInOrder, Come
    <2>2. Come \cup lateInput = {} \/ proc # "running"
      BY <1>4, <1>8 DEF Finds
    <2>3. StdinInv'
      BY <1>1, <1>2, <1>4, <1>5, <1>8, <2>1, <2>2 DEF StdinInv
    <2>4. QED
      BY <1>3, <2>1, <2>3 DEF ControlInv
  <1>9. CASE stdin' = stdin /\ givenUp' = givenUp \cup {pumped}
             /\ (lateInput' = lateInput \/ (target[Pump] = Pid /\ lateInput' = lateInput \cup {pumped}))
    <2>1. ControlType' /\ Come' = Come
      BY <1>1, <1>2, <1>9 DEF ControlInv, ControlType, Come
    <2>2. StdinInOrder'
      BY <1>9 DEF ControlInv, StdinInOrder
    <2>3. (pumped + 1)..pumped = {}
      BY <1>2
    <2>4. StdinInv'
      BY <1>1, <1>2, <1>4, <1>5, <1>6, <1>9, <2>1, <2>3 DEF StdinInv
    <2>5. QED
      BY <1>3, <2>1, <2>2, <2>4 DEF ControlInv
  <1>10. QED
    BY <1>1, <1>7, <1>8, <1>9

(* A request given up is carried out: what it carries comes late, and is known to be given up. *)
LEMMA LateControl == ASSUME ControlInv, LateInput PROVE ControlInv'
  <1>1. PICK n \in lateInput : stdin' = Append(stdin, n) /\ lateInput' = lateInput \ {n}
    BY DEF LateInput
  <1>2. /\ proc = "running" /\ proc' = proc
        /\ pid0' = pid0 /\ pid' = pid /\ aware' = aware /\ signalled' = signalled
        /\ kill' = kill /\ target' = target /\ killed' = killed /\ pumped' = pumped /\ sending' = sending
        /\ givenUp' = givenUp /\ lateKill' = lateKill
    BY DEF LateInput
  <1>3. n \in 1..MaxStdin /\ n \in Int /\ n \in givenUp /\ n \notin Come /\ n <= Pumped
    BY <1>1, UnderWay, Constants DEF ControlInv, StdinInv
  <1>4. /\ Come \subseteq Int /\ Pumped \in Int /\ \A m \in Come : m <= Pumped
        /\ \A m \in Come \cup lateInput : (m + 1)..Pumped \subseteq Come \cup givenUp
    BY <1>2, UnderWay DEF ControlInv, StdinInv
  <1>5. \A m \in Come : (m + 1)..(n - 1) \cup (n + 1)..(m - 1) \subseteq Come \cup givenUp
    <2> SUFFICES ASSUME NEW m \in Come PROVE (m + 1)..(n - 1) \cup (n + 1)..(m - 1) \subseteq Come \cup givenUp
      OBVIOUS
    <2>1. (m + 1)..(n - 1) \subseteq (m + 1)..Pumped /\ (n + 1)..(m - 1) \subseteq (n + 1)..Pumped
      BY <1>3, <1>4
    <2>2. QED
      BY <1>1, <1>4, <2>1
  <1>6. stdin' \in Seq(1..MaxStdin) /\ Come' = Come \cup {n} /\ StdinInOrder'
    BY <1>1, <1>2, <1>3, <1>5, OneMoreChunk
  <1>7. ControlType'
    BY <1>1, <1>2, <1>6 DEF ControlInv, ControlType
  <1>8. PidInv' /\ KillInv'
    BY <1>2 DEF ControlInv, PidInv, KillInv
  <1>9. Pumped' = Pumped
    BY <1>2 DEF Pumped
  <1>10. StdinInv'
    BY <1>1, <1>2, <1>3, <1>6, <1>9 DEF ControlInv, StdinInv
  <1>11. QED
    BY <1>6, <1>7, <1>8, <1>10 DEF ControlInv

(* Every step of the controlled command keeps the invariant. *)
LEMMA ControlNext == ASSUME ControlInv, [CNext]_cvars PROVE ControlInv'
  <1>1. CASE UNCHANGED cvars
    <2>1. /\ pid0' = pid0 /\ pid' = pid /\ aware' = aware /\ proc' = proc /\ signalled' = signalled /\ stdin' = stdin
          /\ kill' = kill /\ target' = target /\ killed' = killed /\ pumped' = pumped
          /\ sending' = sending /\ givenUp' = givenUp /\ lateInput' = lateInput /\ lateKill' = lateKill
      BY <1>1 DEF cvars, control, envd, late
    <2>2. ControlType' /\ PidInv' /\ KillInv'
      BY <2>1 DEF ControlInv, ControlType, PidInv, KillInv
    <2>3. StdinInv' /\ StdinInOrder'
      BY <2>1 DEF ControlInv, StdinInv, Pumped, Come, StdinInOrder
    <2>4. QED
      BY <2>2, <2>3 DEF ControlInv
  <1>2. CASE CNext
    BY <1>2, StreamControl, ProcessControl, CallPIDControl, KillControl, PumpControl, InputControl, LateControl DEF CNext
  <1>3. QED
    BY <1>1, <1>2

(* It holds in every reachable state. *)
LEMMA AlwaysControl == CSpec => []ControlInv
  BY ControlInit, ControlNext, PTL DEF CSpec

(* The variables of a controlled command keep to their values. *)
THEOREM ControlTypeCorrect == CSpec => []CTypeOK
  <1>1. TypeOK /\ ControlInv => CTypeOK
    BY DEF ControlInv, ControlType, CTypeOK
  <1>2. QED
    BY <1>1, AlwaysControl, ControlKeepsStream, TypeCorrect, PTL

(* Kill by who has the PID from PID(), a channel or Wait finds the process unless it has exited. *)
THEOREM KillFinds == CSpec => []KnownPidKillHits
  <1>1. ControlInv => KnownPidKillHits
    BY DEF ControlInv, KillInv, KnownPidKillHits
  <1>2. QED
    BY <1>1, AlwaysControl, PTL

(* pumpStdin: the process reads the chunks once each, and in order and without a gap but for those *)
(* whose requests were given up.                                                                   *)
THEOREM InputInOrder == CSpec => []StdinInOrder
  <1>1. ControlInv => StdinInOrder
    BY DEF ControlInv
  <1>2. QED
    BY <1>1, AlwaysControl, PTL
===============================================================================
