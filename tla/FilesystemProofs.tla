---------------------------- MODULE FilesystemProofs ----------------------------
(***************************************************************************)
(* Safety of the package's two long-lived operations on files.  The watch  *)
(* handle: for every channel capacity, every number of events and every    *)
(* number of calls of Stop.  Uploads: for every sequence of paths, however *)
(* many of them are the same, and every number of chunks.                  *)
(***************************************************************************)
EXTENDS WatchStream, Uploads, CommonLemmas

(***************************************************************************)
(* The watch handle.                                                       *)
(***************************************************************************)
Closing == {"closeEvents", "exited"}

(* What the goroutine, the reader and the calls of Stop tell of each other: *)
(* no one has seen more of the end than the goroutine has come to.          *)
EndInv ==
    /\ done <=> pc \in Closing
    /\ closed <=> pc = "exited"
    /\ reader = "ended" => closed
    /\ errSeen # Unread => closed /\ errSeen = err
    /\ \A c \in Stoppers : stop[c] = "stopped" => done
    /\ pc = "send" => received \in 1..MaxEvents

StateInv == TypeOK /\ EndInv

(* All that left the goroutine: what was read, then what is still queued. *)
Sent    == got \o chan
Handled == IF pc = "send" THEN received - 1 ELSE received

(* The goroutine has sent the events it is done with, each once, in order. *)
OrderInv == /\ Len(Sent) = Handled
            /\ \A i \in 1..Handled : Sent[i] = i

SafeInv == StateInv /\ OrderInv

-------------------------------------------------------------------------------
(* Types, and the agreement of the goroutine with those who wait for it. *)

LEMMA InitSafe == Init => SafeInv
  <1> SUFFICES ASSUME Init PROVE SafeInv
    OBVIOUS
  <1> USE DEF Init
  <1>1. <<>> \in Seq(1..MaxEvents) /\ Len(<<>>) = 0
    BY EmptySeq
  <1>2. TypeOK
    <2>1. Len(chan) <= Cap /\ received \in 0..MaxEvents
      BY <1>1, WatchOK
    <2>2. stop \in [Stoppers -> {"idle", "waiting", "stopped", "timedOut"}]
      OBVIOUS
    <2>3. QED
      BY <1>1, <2>1, <2>2 DEF TypeOK, NoErr, Unread
  <1>3. EndInv
    BY DEF EndInv, Closing, Unread
  <1>4. OrderInv
    <2>1. Sent \in Seq(1..MaxEvents) /\ Len(Sent) = 0
      BY <1>1, ConcatProperties DEF Sent
    <2>2. QED
      BY <2>1 DEF OrderInv, Handled
  <1>5. QED
    BY <1>2, <1>3, <1>4 DEF SafeInv, StateInv

LEMMA ConsumerState == StateInv /\ (ReceiveEvent \/ Consume) => StateInv'
  <1> SUFFICES ASSUME StateInv, ReceiveEvent \/ Consume PROVE StateInv'
    OBVIOUS
  <1> USE WatchOK DEF StateInv, TypeOK, EndInv, Closing, reading, stopping, NoErr, Unread
  <1>1. CASE ReceiveEvent
    BY <1>1 DEF ReceiveEvent
  <1>2. CASE ReceiveEOF
    BY <1>2 DEF ReceiveEOF
  <1>3. CASE ReceiveErr
    BY <1>3 DEF ReceiveErr
  <1>4. CASE Send
    <2>1. chan' \in Seq(1..MaxEvents) /\ Len(chan') <= Cap
      <3>1. chan' = Append(chan, received) /\ received \in 1..MaxEvents /\ Len(chan) < Cap
        BY <1>4 DEF Send
      <3>2. Append(chan, received) \in Seq(1..MaxEvents) /\ Len(Append(chan, received)) = Len(chan) + 1
        BY <3>1, AppendProperties
      <3>3. QED
        BY <3>1, <3>2, LenProperties
    <2>2. QED
      BY <1>4, <2>1 DEF Send
  <1>5. CASE SetErr
    BY <1>5 DEF SetErr
  <1>6. CASE CloseDone
    BY <1>6 DEF CloseDone
  <1>7. CASE CloseEvents
    BY <1>7 DEF CloseEvents
  <1>8. QED
    BY <1>1, <1>2, <1>3, <1>4, <1>5, <1>6, <1>7 DEF Consume

LEMMA ReaderState == StateInv /\ (Read \/ ReadEnd \/ CallErr \/ Leave) => StateInv'
  <1> SUFFICES ASSUME StateInv, Read \/ ReadEnd \/ CallErr \/ Leave PROVE StateInv'
    OBVIOUS
  <1> USE DEF StateInv, TypeOK, EndInv, consumer, stopping, Unread
  <1>1. CASE Read
    <2>1. chan' \in Seq(1..MaxEvents) /\ got' \in Seq(1..MaxEvents) /\ Len(chan') <= Cap
      <3>1. /\ got' = Append(got, Head(chan)) /\ chan' = Tail(chan)
            /\ got \in Seq(1..MaxEvents) /\ chan \in Seq(1..MaxEvents) /\ chan # <<>>
        BY <1>1 DEF Read
      <3>2. /\ Append(got, Head(chan)) \in Seq(1..MaxEvents)
            /\ Tail(chan) \in Seq(1..MaxEvents) /\ Len(Tail(chan)) = Len(chan) - 1
        BY <3>1, ReceiveKeeps
      <3>3. Len(chan) - 1 <= Cap
        BY <3>1, LenProperties, WatchOK
      <3>4. QED
        BY <3>1, <3>2, <3>3
    <2>2. QED
      BY <1>1, <2>1 DEF Read
  <1>2. CASE ReadEnd
    BY <1>2 DEF ReadEnd
  <1>3. CASE CallErr
    BY <1>3 DEF CallErr
  <1>4. CASE Leave
    BY <1>4 DEF Leave
  <1>5. QED
    BY <1>1, <1>2, <1>3, <1>4

LEMMA StopperState ==
  ASSUME StateInv, NEW c \in Stoppers,
         StartStop(c) \/ StopDone(c) \/ StopExpires(c) \/ ContextEnds(c)
  PROVE  StateInv'
  <1> USE DEF StateInv, TypeOK, EndInv, consumer, reading
  <1>1. CASE StartStop(c)
    BY <1>1 DEF StartStop
  <1>2. CASE StopDone(c)
    BY <1>2 DEF StopDone
  <1>3. CASE StopExpires(c)
    BY <1>3 DEF StopExpires
  <1>4. CASE ContextEnds(c)
    BY <1>4 DEF ContextEnds
  <1>5. QED
    BY <1>1, <1>2, <1>3, <1>4

LEMMA StepState == StateInv /\ [Next]_vars => StateInv'
  <1> SUFFICES ASSUME StateInv, [Next]_vars PROVE StateInv'
    OBVIOUS
  <1>1. CASE EndConnection
    BY <1>1 DEF EndConnection, consumer, reading, stopping, StateInv, TypeOK, EndInv
  <1>2. CASE CancelWatch
    BY <1>2 DEF CancelWatch, consumer, reading, stopping, StateInv, TypeOK, EndInv
  <1>3. CASE UNCHANGED vars
    BY <1>3 DEF vars, consumer, reading, stopping, StateInv, TypeOK, EndInv
  <1>4. QED
    BY <1>1, <1>2, <1>3, ConsumerState, ReaderState, StopperState DEF Next

-------------------------------------------------------------------------------
(* What left the goroutine: a send adds the event it holds, a read moves an *)
(* event from the channel to the reader, and no other step touches it.      *)

LEMMA StepSent ==
  ASSUME TypeOK, [Next]_vars, ~Send, ~Read
  PROVE  got' = got /\ chan' = chan /\ Handled' = Handled
  <1> USE DEF consumer, reading, stopping, Handled
  <1>1. CASE ReceiveEvent
    BY <1>1 DEF ReceiveEvent, TypeOK
  <1>2. CASE ReceiveEOF \/ ReceiveErr \/ SetErr \/ CloseDone \/ CloseEvents
    BY <1>2 DEF ReceiveEOF, ReceiveErr, SetErr, CloseDone, CloseEvents
  <1>3. CASE EndConnection \/ CancelWatch
    BY <1>3 DEF EndConnection, CancelWatch
  <1>4. CASE ReadEnd \/ CallErr \/ Leave
    BY <1>4 DEF ReadEnd, CallErr, Leave
  <1>5. CASE \E c \in Stoppers : StartStop(c) \/ StopDone(c) \/ StopExpires(c) \/ ContextEnds(c)
    BY <1>5 DEF StartStop, StopDone, StopExpires, ContextEnds
  <1>6. CASE UNCHANGED vars
    BY <1>6 DEF vars
  <1>7. QED
    BY <1>1, <1>2, <1>3, <1>4, <1>5, <1>6 DEF Next, Consume

LEMMA ReadSent ==
  ASSUME TypeOK, Read
  PROVE  Sent' = Sent /\ Handled' = Handled
  <1>1. /\ got' = Append(got, Head(chan)) /\ chan' = Tail(chan) /\ chan # <<>>
        /\ got \in Seq(1..MaxEvents) /\ chan \in Seq(1..MaxEvents)
    BY DEF Read, TypeOK
  <1>2. Append(got, Head(chan)) \o Tail(chan) = got \o chan
    BY <1>1, ReceiveKeeps
  <1>3. QED
    BY <1>1, <1>2 DEF Sent, Handled, Read, consumer

LEMMA SendSent ==
  ASSUME StateInv, Send
  PROVE  /\ Sent \in Seq(1..MaxEvents) /\ received \in 1..MaxEvents
         /\ Sent' = Append(Sent, received)
         /\ Handled = received - 1 /\ Handled' = received
  <1>1. /\ got' = got /\ chan' = Append(chan, received) /\ received \in 1..MaxEvents
        /\ got \in Seq(1..MaxEvents) /\ chan \in Seq(1..MaxEvents)
    BY DEF Send, StateInv, TypeOK, EndInv, reading
  <1>2. got \o Append(chan, received) = Append(got \o chan, received) /\ got \o chan \in Seq(1..MaxEvents)
    BY <1>1, SendAppends, SentType
  <1>3. Handled = received - 1 /\ Handled' = received
    BY DEF Send, Handled
  <1>4. QED
    BY <1>1, <1>2, <1>3 DEF Sent

LEMMA StepOrder == SafeInv /\ [Next]_vars => OrderInv'
  <1> SUFFICES ASSUME SafeInv, [Next]_vars PROVE OrderInv'
    OBVIOUS
  <1>1. CASE Send
    <2>1. Sent \in Seq(1..MaxEvents) /\ received \in 1..MaxEvents
      BY <1>1, SendSent DEF SafeInv
    <2>2. /\ Len(Append(Sent, received)) = Len(Sent) + 1
          /\ Append(Sent, received)[Len(Sent) + 1] = received
          /\ \A i \in 1..Len(Sent) : Append(Sent, received)[i] = Sent[i]
      BY <2>1, AppendProperties
    <2>3. Len(Sent) = received - 1 /\ \A i \in 1..(received - 1) : Sent[i] = i
      BY <1>1, SendSent DEF SafeInv, OrderInv
    <2>4. /\ Len(Append(Sent, received)) = received
          /\ \A i \in 1..received : Append(Sent, received)[i] = i
      BY <2>1, <2>2, <2>3
    <2>5. QED
      BY <1>1, <2>4, SendSent DEF SafeInv, OrderInv
  <1>2. CASE Read
    BY <1>2, ReadSent DEF SafeInv, StateInv, OrderInv
  <1>3. CASE ~Send /\ ~Read
    <2>1. got' = got /\ chan' = chan /\ Handled' = Handled
      BY <1>3, StepSent DEF SafeInv, StateInv
    <2>2. QED
      BY <2>1 DEF SafeInv, OrderInv, Sent
  <1>4. QED
    BY <1>1, <1>2, <1>3

LEMMA AlwaysSafe == Spec => []SafeInv
  <1>1. SafeInv /\ [Next]_vars => SafeInv'
    BY StepState, StepOrder DEF SafeInv
  <1>2. QED
    BY <1>1, InitSafe, PTL DEF Spec

-------------------------------------------------------------------------------
(* Every variable of the watch keeps to the values the code can give it. *)
THEOREM TypeCorrect == Spec => []TypeOK
  <1>1. SafeInv => TypeOK
    BY DEF SafeInv, StateInv
  <1>2. QED
    BY <1>1, AlwaysSafe, PTL

(* However slow the reader of Events() is, it reads every event that envd *)
(* sent, once and in order.                                               *)
THEOREM EventsAreKept == Spec => []NoEventLost
  <1>1. SafeInv => NoEventLost
    <2> SUFFICES ASSUME SafeInv PROVE NoEventLost
      OBVIOUS
    <2> DEFINE held == IF pc = "send" THEN <<received>> ELSE <<>>
               all  == [i \in 1..received |-> i]
    <2>1. /\ got \in Seq(1..MaxEvents) /\ chan \in Seq(1..MaxEvents)
          /\ received \in 0..MaxEvents /\ (pc = "send" => received \in 1..MaxEvents)
          /\ Len(Sent) = Handled /\ \A i \in 1..Handled : Sent[i] = i
      BY DEF SafeInv, StateInv, TypeOK, EndInv, OrderInv
    <2>2. Sent \in Seq(1..MaxEvents)
      BY <2>1, SentType DEF Sent
    <2>3. all \in Seq(1..MaxEvents) /\ Len(all) = received /\ \A i \in 1..received : all[i] = i
      BY <2>1, WatchOK
    <2>4. CASE pc = "send"
      <3>1. received \in 1..MaxEvents /\ Handled = received - 1
        BY <2>1, <2>4 DEF Handled
      <3>2. /\ Append(Sent, received) \in Seq(1..MaxEvents)
            /\ Append(Sent, received) = Sent \o <<received>>
            /\ Len(Append(Sent, received)) = Len(Sent) + 1
            /\ Append(Sent, received)[Len(Sent) + 1] = received
            /\ \A i \in 1..Len(Sent) : Append(Sent, received)[i] = Sent[i]
        BY <2>2, <3>1, AppendProperties, AppendIsConcat
      <3>3. /\ Len(Append(Sent, received)) = received
            /\ \A i \in 1..received : Append(Sent, received)[i] = i
        BY <2>1, <3>1, <3>2
      <3>4. Append(Sent, received) = all
        BY <2>3, <3>2, <3>3, SeqEqual
      <3>5. held = <<received>>
        BY <2>4
      <3>6. QED
        BY <3>2, <3>4, <3>5, <2>1, ConcatAssociative DEF NoEventLost, Sent
    <2>5. CASE pc # "send"
      <3>1. Len(Sent) = received /\ \A i \in 1..received : Sent[i] = i
        BY <2>1, <2>5 DEF Handled
      <3>2. Sent = all
        BY <2>2, <2>3, <3>1, SeqEqual
      <3>3. Sent \o <<>> = Sent
        BY <2>2, ConcatEmptySeq
      <3>4. got \o chan \o <<>> = all
        BY <3>2, <3>3 DEF Sent
      <3>5. QED
        BY <2>5, <3>4 DEF NoEventLost
    <2>6. QED
      BY <2>4, <2>5
  <1>2. QED
    BY <1>1, AlwaysSafe, PTL

(* Err(), called once Events() has closed, answers what it will always answer. *)
THEOREM ErrIsFinal == Spec => []ErrIsFinalAtEnd
  <1>1. SafeInv => ErrIsFinalAtEnd
    BY DEF SafeInv, StateInv, EndInv, ErrIsFinalAtEnd
  <1>2. QED
    BY <1>1, AlwaysSafe, PTL

(* Once a Stop has returned nil, nothing more is sent on Events(). *)
THEOREM StoppedWatchIsSilent == Spec => StopIsFinal
  <1> DEFINE Stopped == \E c \in Stoppers : stop[c] = "stopped"
             Silent  == Stopped => Len(got' \o chan') = Len(got \o chan)
  <1>1. SafeInv /\ [Next]_vars => [Silent]_vars
    <2> SUFFICES ASSUME SafeInv, [Next]_vars, Stopped PROVE Len(got' \o chan') = Len(got \o chan)
      OBVIOUS
    <2>1. ~Send
      BY DEF Send, SafeInv, StateInv, EndInv, Closing
    <2>2. CASE Read
      BY <2>2, ReadSent DEF SafeInv, StateInv, Sent
    <2>3. CASE ~Read
      BY <2>1, <2>3, StepSent DEF SafeInv, StateInv
    <2>4. QED
      BY <2>2, <2>3
  <1>2. Spec => [][Silent]_vars
    BY <1>1, AlwaysSafe, PTL DEF Spec
  <1>3. QED
    BY <1>2 DEF StopIsFinal

-------------------------------------------------------------------------------
(***************************************************************************)
(* Uploads.  The pieces of entry i that its goroutine has written: envd    *)
(* has received them, or the last of them waits in the pipe.               *)
(***************************************************************************)
Put(i) == Len(body[i]) + (IF Free(i) THEN 0 ELSE 1)

(* The body of a later envd is read from the caller's reader, without a goroutine. *)
OctetOK(i) ==
    /\ feeder[i] = None /\ Free(i)
    /\ Len(body[i]) = taken[i]
    /\ \A k \in DOMAIN body[i] : body[i][k] = k
    /\ bodyEnd[i] = "eof" => taken[i] = Chunks

(* A multipart body comes in order and whole, and the goroutine knows how far it is. *)
MultipartOK(i) ==
    /\ \A k \in DOMAIN body[i] : body[i][k] = k - 1
    /\ ~Free(i) => offer[i] = Len(body[i])
    /\ feeder[i] \in {None, "part"} => Put(i) = 0 /\ taken[i] = 0
    /\ feeder[i] = "copy"  => Put(i) = taken[i] + 1
    /\ feeder[i] = "close" => Put(i) = Chunks + 2
    /\ feeder[i] = "done"  => Put(i) <= Chunks + 2 /\ Free(i)

(* The entry Cur has had its turn, as far as it came. *)
Begun == at \in {"build", "do"} \/ failed

(* Nothing happens to an entry before its turn, nor to its body before there is a request, *)
(* and envd has taken an entry that has a WriteInfo for whole.                             *)
EntryOK(i) ==
    /\ i > Cur \/ (i = Cur /\ ~Begun) =>
          feeder[i] = None /\ taken[i] = 0 /\ Free(i) /\ readEnd[i] = None
    /\ i = Cur /\ at = "build" => readEnd[i] = None
    /\ readEnd[i] = None => body[i] = <<>> /\ answer[i] = None /\ bodyEnd[i] = "open"
    /\ IF octet THEN OctetOK(i) ELSE MultipartOK(i)
    /\ i <= results \/ answer[i] = "ok" => Complete(i)

EntriesInv == \A i \in Entries : EntryOK(i)

ReturnInv ==
    /\ at # "returned" => ~failed
    /\ at # "returned" \/ failed => results < Last
    /\ at = "returned" /\ ~failed => results = Last

(* The chunks of entry i that envd has received. *)
Arrived(i) == IF octet THEN Len(body[i])
              ELSE IF Len(body[i]) > Chunks + 1 THEN Chunks ELSE Len(body[i]) - 1

(* The file of the entry that is uploaded has what arrived of it, every other one what it had. *)
FileInv == \A p \in Files :
    IF Cur \in Entries /\ Paths[Cur] = p /\ body[Cur] # <<>>
    THEN file[p] = [entry |-> Cur, chunks |-> Arrived(Cur)]
    ELSE Holds(p, results)

UploadsInv == UTypeOK /\ ReturnInv /\ EntriesInv /\ FileInv

-------------------------------------------------------------------------------
(* The entries are numbered, and a call has at least one. *)
LEMMA EntriesAre == /\ Len(Paths) \in Nat \ {0} /\ Entries = 1..Len(Paths)
                    /\ \A i \in Entries : Paths[i] \in Files
                    /\ Last \in Entries
  BY UploadsOK, LenProperties DEF Entries, Files, Last

(* While the call goes on, there is an entry that it uploads. *)
LEMMA CurIs == ASSUME UploadsInv, at # "returned" \/ failed PROVE Cur \in Entries /\ Cur \in Nat
  BY EntriesAre DEF UploadsInv, UTypeOK, ReturnInv, Cur, Last

(* What is received goes to the end of the body. *)
LEMMA BodyGrows ==
    ASSUME UploadsInv, NEW i \in Entries, NEW piece \in Pieces
    PROVE  /\ body[i] \in Seq(Pieces) /\ Len(body[i]) \in Nat /\ DOMAIN body[i] = 1..Len(body[i])
           /\ Append(body[i], piece) \in Seq(Pieces)
           /\ Append(body[i], piece) # <<>>
           /\ Len(Append(body[i], piece)) = Len(body[i]) + 1
           /\ DOMAIN Append(body[i], piece) = 1..(Len(body[i]) + 1)
           /\ \A k \in 1..Len(body[i]) : Append(body[i], piece)[k] = body[i][k]
           /\ Append(body[i], piece)[Len(body[i]) + 1] = piece
  <1>1. body[i] \in Seq(Pieces)
    BY DEF UploadsInv, UTypeOK
  <1>2. QED
    BY <1>1, AppendProperties, LenProperties

(* An entry about which nothing has changed is as it was. *)
LEMMA EntryStays ==
    ASSUME UploadsInv, NEW j \in Entries,
           UNCHANGED <<octet, results, at, failed>>, feeder'[j] = feeder[j], taken'[j] = taken[j], offer'[j] = offer[j],
           readEnd'[j] = readEnd[j], body'[j] = body[j], bodyEnd'[j] = bodyEnd[j], answer'[j] = answer[j]
    PROVE  EntryOK(j)'
  <1>1. EntryOK(j)
    BY DEF UploadsInv, EntriesInv
  <1>2. QED
    BY <1>1 DEF EntryOK, Begun, OctetOK, MultipartOK, Complete, Put, Free, Cur

(* A step that leaves bodies and files alone keeps what is known of the files. *)
LEMMA FilesStay ==
    ASSUME UploadsInv, UNCHANGED <<octet, results, body, file>>
    PROVE  FileInv'
  BY DEF UploadsInv, FileInv, Holds, Arrived, Cur

-------------------------------------------------------------------------------
(* A call begins with no entry begun and no file written. *)
LEMMA InitUploads == UInit => UploadsInv
  <1> SUFFICES ASSUME UInit PROVE UploadsInv
    OBVIOUS
  <1> USE EntriesAre, UploadsOK DEF UInit
  <1>1. <<>> \in Seq(Pieces) /\ Len(<<>>) = 0 /\ DOMAIN <<>> = {}
    BY EmptySeq
  <1>2. UTypeOK
    <2>1. 0 \in 0..Len(Paths) /\ 0 \in 0..Chunks
      OBVIOUS
    <2>2. [entry |-> 0, chunks |-> 0] \in [entry : Entries \cup {0}, chunks : 0..Chunks]
      BY <2>1
    <2>3. body \in [Entries -> Seq(Pieces)] /\ file \in [Files -> [entry : Entries \cup {0}, chunks : 0..Chunks]]
      BY <1>1, <2>2 DEF Absent
    <2>4. QED
      BY <2>1, <2>3 DEF UTypeOK, None
  <1>3. ReturnInv
    BY DEF ReturnInv
  <1>4. EntriesInv
    BY <1>1 DEF EntriesInv, EntryOK, OctetOK, MultipartOK, Complete, Put, Free, Cur, None
  <1>5. FileInv
    BY DEF FileInv, Holds, Cur, Absent
  <1>6. QED
    BY <1>2, <1>3, <1>4, <1>5 DEF UploadsInv

(* The call itself. *)
LEMMA ChooseBodyKeeps == ASSUME UploadsInv, ChooseBody PROVE UploadsInv'
  <1>1. /\ at = "next" /\ at' = "build" /\ ~failed /\ Cur \in Entries /\ Cur \in Nat
        /\ feeder' = [feeder EXCEPT ![Cur] = IF octet THEN None ELSE "part"]
        /\ UNCHANGED <<octet, method, badURL, failed, results, taken, offer, writeEnd, readEnd,
                       body, bodyEnd, answer, file>>
    BY CurIs DEF ChooseBody, setup, envd, UploadsInv, ReturnInv
  <1>2. UTypeOK'
    BY <1>1 DEF UploadsInv, UTypeOK
  <1>3. ReturnInv'
    BY <1>1 DEF UploadsInv, ReturnInv, Last
  <1>4. ASSUME NEW j \in Entries PROVE EntryOK(j)'
    <2>1. EntryOK(j) /\ feeder \in [Entries -> {None, "part", "copy", "close", "done"}] /\ Cur' = Cur
      BY <1>1 DEF UploadsInv, EntriesInv, UTypeOK, Cur
    <2>2. CASE j = Cur
      <3>1. /\ feeder[j] = None /\ taken[j] = 0 /\ Free(j) /\ readEnd[j] = None
            /\ body[j] = <<>> /\ answer[j] = None /\ bodyEnd[j] = "open"
        BY <1>1, <2>1, <2>2 DEF EntryOK, Begun
      <3>2. feeder'[j] = (IF octet THEN None ELSE "part") /\ ~(j > Cur') /\ (Put(j)' = Put(j)) /\ Free(j)'
        BY <1>1, <2>1, <2>2, <3>1 DEF Put, Free
      <3>3. octet => OctetOK(j)'
        BY <1>1, <2>1, <3>1, <3>2 DEF EntryOK, Begun, OctetOK
      <3>4. ~octet => MultipartOK(j)'
        BY <1>1, <2>1, <3>1, <3>2 DEF EntryOK, Begun, MultipartOK, None
      <3>5. (j <= results \/ answer[j] = "ok" => Complete(j))'
        BY <1>1, <2>1 DEF EntryOK, Begun, Complete
      <3>6. QED
        BY <1>1, <2>1, <3>1, <3>2, <3>3, <3>4, <3>5 DEF EntryOK, Begun
    <2>3. CASE j # Cur
      BY <1>1, <2>1, <2>3 DEF EntryOK, Begun, OctetOK, MultipartOK, Complete, Put, Free
    <2>4. QED
      BY <2>2, <2>3
  <1>5. QED
    BY <1>1, <1>2, <1>3, <1>4, FilesStay DEF UploadsInv, EntriesInv

(* A request that cannot be made ends the call; another opens the body. *)
LEMMA BuildRequestKeeps == ASSUME UploadsInv, BuildRequest PROVE UploadsInv'
  <1>1. /\ at = "build" /\ Cur \in Entries /\ Cur \in Nat
        /\ \/ badURL /\ at' = "returned" /\ failed' = TRUE /\ readEnd' = readEnd
           \/ at' = "do" /\ readEnd' = [readEnd EXCEPT ![Cur] = "open"] /\ failed' = failed
        /\ UNCHANGED <<octet, method, badURL, results, feeder, taken, offer, writeEnd,
                       body, bodyEnd, answer, file>>
    BY CurIs DEF BuildRequest, setup, pipe, envd
  <1>2. UTypeOK'
    BY <1>1 DEF UploadsInv, UTypeOK
  <1>3. ReturnInv'
    BY <1>1 DEF UploadsInv, ReturnInv, Last
  <1>4. ASSUME NEW j \in Entries PROVE EntryOK(j)'
    <2>1. EntryOK(j) /\ readEnd \in [Entries -> {None, "open", "closed"}] /\ Cur' = Cur
      BY <1>1 DEF UploadsInv, EntriesInv, UTypeOK, Cur
    <2>2. CASE j = Cur
      <3>1. body[j] = <<>> /\ answer[j] = None /\ bodyEnd[j] = "open" /\ ~(j > Cur')
        BY <1>1, <2>1, <2>2 DEF EntryOK, Begun
      <3>2. (IF octet THEN OctetOK(j) ELSE MultipartOK(j))'
        BY <1>1, <2>1 DEF EntryOK, Begun, OctetOK, MultipartOK, Put, Free
      <3>3. (j <= results \/ answer[j] = "ok" => Complete(j))'
        BY <1>1, <2>1 DEF EntryOK, Begun, Complete
      <3>4. Begun' /\ at' # "build"
        BY <1>1 DEF Begun
      <3>5. QED
        BY <1>1, <2>1, <3>1, <3>2, <3>3, <3>4 DEF EntryOK, Begun
    <2>3. CASE j # Cur
      BY <1>1, <2>1, <2>3 DEF EntryOK, Begun, OctetOK, MultipartOK, Complete, Put, Free
    <2>4. QED
      BY <2>2, <2>3
  <1>5. QED
    BY <1>1, <1>2, <1>3, <1>4, FilesStay DEF UploadsInv, EntriesInv

(* The call ends with an error. *)
LEMMA FailKeeps == ASSUME UploadsInv, Refused \/ GiveUp PROVE UploadsInv'
  <1>1. /\ at = "do" /\ at' = "returned" /\ failed' = TRUE /\ Cur \in Entries
        /\ UNCHANGED <<octet, method, badURL, results, feeder, taken, offer, writeEnd, readEnd,
                       body, bodyEnd, answer, file>>
    BY CurIs DEF Refused, GiveUp, setup, pipe, envd
  <1>2. UTypeOK'
    BY <1>1 DEF UploadsInv, UTypeOK
  <1>3. ReturnInv'
    BY <1>1 DEF UploadsInv, ReturnInv, Last
  <1>4. ASSUME NEW j \in Entries PROVE EntryOK(j)'
    <2>1. EntryOK(j) /\ Cur' = Cur
      BY <1>1 DEF UploadsInv, EntriesInv, Cur
    <2>2. QED
      BY <1>1, <2>1 DEF EntryOK, Begun, OctetOK, MultipartOK, Complete, Put, Free
  <1>5. QED
    BY <1>1, <1>2, <1>3, <1>4, FilesStay DEF UploadsInv, EntriesInv

(* An entry that is complete has arrived whole. *)
LEMMA CompleteIsWhole ==
    ASSUME UploadsInv, NEW i \in Entries, Complete(i)
    PROVE  body[i] # <<>> /\ Arrived(i) = Chunks
  <1>1. /\ EntryOK(i) /\ body[i] \in Seq(Pieces) /\ taken[i] \in 0..Chunks /\ Chunks \in Nat \ {0}
        /\ feeder[i] \in {None, "part", "copy", "close", "done"}
    BY UploadsOK DEF UploadsInv, UTypeOK, EntriesInv
  <1>2. Len(body[i]) \in Nat /\ DOMAIN body[i] = 1..Len(body[i]) /\ Len(<<>>) = 0
    BY <1>1, LenProperties, EmptySeq
  <1>3. CASE octet
    BY <1>1, <1>2, <1>3 DEF EntryOK, Begun, OctetOK, Complete, Arrived
  <1>4. CASE ~octet
    <2>1. PICK k \in DOMAIN body[i] : body[i][k] = Boundary
      BY <1>4 DEF Complete
    <2>2. k - 1 = Chunks + 1
      BY <1>1, <1>4, <2>1 DEF EntryOK, Begun, MultipartOK, Boundary
    <2>3. Len(body[i]) > Chunks + 1
      BY <1>1, <1>2, <2>1, <2>2
    <2>4. QED
      BY <1>1, <1>2, <1>4, <2>3 DEF Arrived
  <1>5. QED
    BY <1>3, <1>4

(* A success moves the call to the next entry: the file of this one is whole by then. *)
LEMMA SucceedKeeps == ASSUME UploadsInv, Succeed PROVE UploadsInv'
  <1>1. /\ at = "do" /\ answer[Cur] = "ok" /\ Cur \in Entries /\ results' = Cur
        /\ at' = IF Cur = Last THEN "returned" ELSE "next"
        /\ UNCHANGED <<octet, method, badURL, failed, feeder, taken, offer, writeEnd, readEnd,
                       body, bodyEnd, answer, file>>
    BY CurIs DEF Succeed, setup, pipe, envd
  <1>2. /\ results \in Nat /\ Cur = results + 1 /\ Cur' = Cur + 1 /\ ~failed /\ results < Last
        /\ Last' = Last /\ Last \in Nat /\ Len(Paths) \in Nat /\ Entries = 1..Len(Paths)
    BY <1>1, EntriesAre DEF UploadsInv, UTypeOK, ReturnInv, Cur, Last
  <1>3. UTypeOK'
    BY <1>1, <1>2 DEF UploadsInv, UTypeOK
  <1>4. ReturnInv'
    BY <1>1, <1>2 DEF ReturnInv
  <1>5. Complete(Cur)
    BY <1>1 DEF UploadsInv, EntriesInv, EntryOK
  <1>6. ASSUME NEW j \in Entries PROVE EntryOK(j)'
    <2>1. EntryOK(j) /\ j \in Nat
      BY <1>2 DEF UploadsInv, EntriesInv
    <2>2. /\ (j > Cur' \/ (j = Cur' /\ ~Begun') => j > Cur)
          /\ at' # "build"
          /\ (j <= results' => j <= results \/ j = Cur)
      BY <1>1, <1>2, <2>1
    <2>3. QED
      BY <1>1, <1>5, <2>1, <2>2 DEF EntryOK, Begun, OctetOK, MultipartOK, Complete, Put, Free
  <1>7. FileInv'
    <2> SUFFICES ASSUME NEW p \in Files
                 PROVE  /\ ~(Cur' \in Entries /\ Paths[Cur'] = p /\ body'[Cur'] # <<>>)
                        /\ Holds(p, results)'
      BY DEF FileInv
    <2>1. Cur' \in Entries => body'[Cur'] = <<>>
      <3>1. Cur' \in Entries => EntryOK(Cur + 1)
        BY <1>2 DEF UploadsInv, EntriesInv
      <3>2. QED
        BY <1>1, <1>2, <3>1 DEF EntryOK, Begun
    <2>2. CASE Paths[Cur] = p
      <3>1. file[p] = Whole(Cur)
        BY <1>1, <1>5, <2>2, CompleteIsWhole DEF UploadsInv, FileInv, Whole
      <3>2. Cur \in 1..results' /\ \A j \in Cur+1..results' : FALSE
        BY <1>1, <1>2
      <3>3. QED
        BY <1>1, <2>1, <2>2, <3>1, <3>2 DEF Holds, Whole
    <2>3. CASE Paths[Cur] # p
      <3>1. Holds(p, results)
        BY <1>1, <2>3 DEF UploadsInv, FileInv
      <3>2. \A j : j \in 1..results' <=> (j \in 1..results \/ j = Cur)
        BY <1>1, <1>2
      <3>3. \A i \in 1..results : \A j : j \in i+1..results' => j \in i+1..results \/ j = Cur
        BY <1>1, <1>2
      <3>4. CASE file[p] = Absent /\ \A i \in 1..results : Paths[i] # p
        BY <1>1, <2>1, <2>3, <3>2, <3>4 DEF Holds, Absent
      <3>5. ASSUME NEW i \in 1..results, Paths[i] = p, file[p] = Whole(i),
                   \A j \in i+1..results : Paths[j] # p
            PROVE  Holds(p, results)'
        <4>1. i \in 1..results' /\ \A j \in i+1..results' : Paths[j] # p
          BY <2>3, <3>2, <3>3, <3>5
        <4>2. QED
          BY <1>1, <3>5, <4>1 DEF Holds, Whole
      <3>6. QED
        BY <2>1, <3>1, <3>4, <3>5 DEF Holds
    <2>4. QED
      BY <2>2, <2>3
  <1>8. QED
    BY <1>3, <1>4, <1>6, <1>7 DEF UploadsInv, EntriesInv

-------------------------------------------------------------------------------
(* The goroutine of an entry: bodies and files stay as they are. *)
LEMMA FeederIs ==
    ASSUME UploadsInv, NEW i \in Entries, FeederStep(i)
    PROVE  /\ ~octet /\ MultipartOK(i) /\ EntryOK(i) /\ ~(i > Cur) /\ (i = Cur => Begun)
           /\ UNCHANGED <<octet, method, badURL, at, failed, results, readEnd, body, bodyEnd, answer, file>>
           /\ \A j \in Entries \ {i} : /\ feeder'[j] = feeder[j] /\ taken'[j] = taken[j]
                                       /\ offer'[j] = offer[j] /\ writeEnd'[j] = writeEnd[j]
  <1>1. EntryOK(i)
    BY DEF UploadsInv, EntriesInv
  <1>2. /\ UNCHANGED <<octet, method, badURL, at, failed, results, readEnd, body, bodyEnd, answer, file>>
        /\ feeder[i] \in {"part", "copy", "close"} \/ ~Free(i)
    BY DEF FeederStep, FeedHead, FeedChunk, FeedTail, FeedEnd, CopyFails, WriteFails, Feed, CloseWriter, setup, call, envd
  <1>3. ~octet /\ MultipartOK(i) /\ ~(i > Cur) /\ (i = Cur => Begun)
    BY <1>1, <1>2 DEF EntryOK, Begun, OctetOK, None
  <1>4. /\ feeder \in [Entries -> {None, "part", "copy", "close", "done"}]
        /\ taken \in [Entries -> 0..Chunks]
        /\ offer \in [Entries -> Pieces \cup {Empty}]
        /\ writeEnd \in [Entries -> {"open", "eof", "broken"}]
    BY DEF UploadsInv, UTypeOK
  <1>5. ASSUME NEW j \in Entries \ {i}
        PROVE  /\ feeder'[j] = feeder[j] /\ taken'[j] = taken[j]
               /\ offer'[j] = offer[j] /\ writeEnd'[j] = writeEnd[j]
    BY <1>4 DEF FeederStep, FeedHead, FeedChunk, FeedTail, FeedEnd, CopyFails, WriteFails, Feed, CloseWriter
  <1>6. QED
    BY <1>1, <1>2, <1>3, <1>5

(* The goroutine writes the pieces in order, and nothing after the last or after a failure. *)
LEMMA FeederKeeps == ASSUME UploadsInv, NEW i \in Entries, FeederStep(i) PROVE UploadsInv'
  <1> USE UploadsOK
  <1>1. /\ ~octet /\ MultipartOK(i) /\ EntryOK(i) /\ ~(i > Cur) /\ (i = Cur => Begun)
        /\ UNCHANGED <<octet, method, badURL, at, failed, results, readEnd, body, bodyEnd, answer, file>>
    BY FeederIs
  <1>2. /\ feeder \in [Entries -> {None, "part", "copy", "close", "done"}]
        /\ taken \in [Entries -> 0..Chunks]
        /\ offer \in [Entries -> Pieces \cup {Empty}]
        /\ writeEnd \in [Entries -> {"open", "eof", "broken"}]
        /\ body[i] \in Seq(Pieces) /\ Len(body[i]) \in Nat /\ DOMAIN body[i] = 1..Len(body[i])
    BY LenProperties DEF UploadsInv, UTypeOK
  <1>3. /\ feeder' \in [Entries -> {None, "part", "copy", "close", "done"}]
        /\ taken' \in [Entries -> 0..Chunks]
        /\ offer' \in [Entries -> Pieces \cup {Empty}]
        /\ writeEnd' \in [Entries -> {"open", "eof", "broken"}]
        /\ MultipartOK(i)'
    <2> USE DEF FeedHead, FeedChunk, FeedTail, FeedEnd, CopyFails, WriteFails, Feed, CloseWriter,
                MultipartOK, Put, Free, Pieces, PartHead, Boundary, Empty, None
    <2> DEFINE Fed(piece, to, n) ==
                 /\ feeder[i] \in {"part", "copy"} /\ Free(i) /\ writeEnd' = writeEnd
                 /\ offer' = [offer EXCEPT ![i] = piece] /\ feeder' = [feeder EXCEPT ![i] = to]
                 /\ taken' = [taken EXCEPT ![i] = n]
    <2>0. ASSUME NEW piece \in Pieces, NEW to \in {"copy", "close"}, NEW n \in 0..Chunks,
                 Fed(piece, to, n), piece = Len(body[i]),
                 to = "copy" => piece = n, to = "close" => piece = Chunks + 1
          PROVE  /\ feeder' \in [Entries -> {None, "part", "copy", "close", "done"}]
                 /\ taken' \in [Entries -> 0..Chunks]
                 /\ offer' \in [Entries -> Pieces \cup {Empty}]
                 /\ writeEnd' \in [Entries -> {"open", "eof", "broken"}]
                 /\ MultipartOK(i)'
      <3>1. offer'[i] = piece /\ feeder'[i] = to /\ taken'[i] = n /\ piece # Empty /\ Len(body'[i]) = piece
        BY <1>1, <1>2, <2>0
      <3>2. Put(i)' = piece + 1 /\ ~Free(i)'
        BY <1>1, <1>2, <3>1
      <3>3. MultipartOK(i)'
        BY <1>1, <2>0, <3>1, <3>2
      <3>4. QED
        BY <1>2, <2>0, <3>3
    <2>1. CASE FeedHead(i)
      <3>1. PartHead \in Pieces /\ PartHead = Len(body[i]) /\ taken[i] = 0 /\ 0 \in 0..Chunks
        BY <1>1, <1>2, <2>1
      <3>2. Fed(PartHead, "copy", 0)
        BY <1>2, <2>1, <3>1
      <3>3. QED
        BY <2>0, <3>1, <3>2
    <2>2. CASE FeedChunk(i)
      <3>1. /\ taken[i] + 1 \in Pieces /\ taken[i] + 1 = Len(body[i]) /\ taken[i] + 1 \in 0..Chunks
        BY <1>1, <1>2, <2>2
      <3>2. Fed(taken[i] + 1, "copy", taken[i] + 1)
        BY <1>2, <2>2
      <3>3. QED
        BY <2>0, <3>1, <3>2
    <2>3. CASE FeedTail(i)
      <3>1. Boundary \in Pieces /\ Boundary = Len(body[i]) /\ taken[i] = Chunks /\ Chunks \in 0..Chunks
        BY <1>1, <1>2, <2>3
      <3>2. Fed(Boundary, "close", Chunks)
        BY <1>2, <2>3, <3>1
      <3>3. QED
        BY <2>0, <3>1, <3>2
    <2>4. CASE FeedEnd(i)
      BY <1>1, <1>2, <2>4
    <2>5. CASE CopyFails(i)
      BY <1>1, <1>2, <2>5
    <2>6. CASE WriteFails(i)
      BY <1>1, <1>2, <2>6
    <2>7. QED
      BY <2>1, <2>2, <2>3, <2>4, <2>5, <2>6 DEF FeederStep
  <1>4. ASSUME NEW j \in Entries PROVE EntryOK(j)'
    <2>1. CASE j # i
      BY <1>1, <2>1, FeederIs, EntryStays
    <2>2. CASE j = i
      <3>1. Cur' = Cur /\ Complete(i)' = Complete(i)
        BY <1>1 DEF Cur, Complete
      <3>2. QED
        BY <1>1, <1>3, <2>2, <3>1 DEF EntryOK, Begun
    <2>3. QED
      BY <2>1, <2>2
  <1>5. UTypeOK' /\ ReturnInv'
    BY <1>1, <1>3 DEF UploadsInv, UTypeOK, ReturnInv, Last
  <1>6. QED
    BY <1>1, <1>4, <1>5, FilesStay DEF UploadsInv, EntriesInv

-------------------------------------------------------------------------------
(* The transport and envd. *)

(* Steps that only end a body, answer a request or close the pipe. *)
LEMMA EndBodyKeeps == ASSUME UploadsInv, NEW i \in Entries, EndBody(i) PROVE UploadsInv'
  <1>1. /\ Open(i)
        /\ UNCHANGED <<octet, method, badURL, at, failed, results, feeder, taken, offer, writeEnd, readEnd,
                       body, answer, file>>
    BY DEF EndBody, setup, call, pipe
  <1>2. PICK end \in {"eof", "broken"} : Ends(i, end) /\ bodyEnd' = [bodyEnd EXCEPT ![i] = end]
    BY DEF EndBody
  <1>3. bodyEnd \in [Entries -> {"open", "eof", "broken"}]
    BY DEF UploadsInv, UTypeOK
  <1>4. UTypeOK' /\ ReturnInv'
    BY <1>1, <1>2 DEF UploadsInv, UTypeOK, ReturnInv, Last
  <1>5. ASSUME NEW j \in Entries PROVE EntryOK(j)'
    <2>1. CASE j # i
      BY <1>1, <1>2, <1>3, <2>1, EntryStays
    <2>2. CASE j = i
      <3>1. EntryOK(i) /\ bodyEnd'[i] = end /\ readEnd[i] = "open" /\ bodyEnd[i] = "open"
        BY <1>1, <1>2, <1>3 DEF UploadsInv, EntriesInv, Open
      <3>2. octet => OctetOK(i)'
        BY <1>1, <1>2, <3>1 DEF EntryOK, Begun, OctetOK, Ends, Free
      <3>3. ~octet => MultipartOK(i)'
        BY <1>1, <3>1 DEF EntryOK, Begun, MultipartOK, Put, Free
      <3>4. Complete(i) => Complete(i)'
        BY <1>1, <3>1 DEF Complete
      <3>5. QED
        BY <1>1, <2>2, <3>1, <3>2, <3>3, <3>4 DEF EntryOK, Begun, Cur, Free, None
    <2>3. QED
      BY <2>1, <2>2
  <1>6. QED
    BY <1>1, <1>4, <1>5, FilesStay DEF UploadsInv, EntriesInv

(* envd answers "ok" only to a whole body, and a refusal changes no file. *)
LEMMA AnswerKeeps == ASSUME UploadsInv, NEW i \in Entries, Accept(i) \/ Refuse(i) PROVE UploadsInv'
  <1>1. UNCHANGED <<octet, method, badURL, at, failed, results, feeder, taken, offer, writeEnd, readEnd,
                    body, bodyEnd, file>>
    BY DEF Accept, Refuse, setup, call, pipe
  <1>2. PICK a \in {"ok", "error"} : answer' = [answer EXCEPT ![i] = a] /\ (a = "ok" => Complete(i))
    BY DEF Accept, Refuse
  <1>3. answer \in [Entries -> {None, "ok", "error"}]
    BY DEF UploadsInv, UTypeOK
  <1>4. UTypeOK' /\ ReturnInv'
    BY <1>1, <1>2 DEF UploadsInv, UTypeOK, ReturnInv, Last
  <1>5. EntryOK(i) /\ (octet => OctetOK(i)) /\ (~octet => MultipartOK(i))
    BY DEF UploadsInv, EntriesInv, EntryOK
  <1>6. readEnd[i] # None
    <2>1. CASE Refuse(i)
      BY <2>1 DEF Refuse
    <2>2. CASE Accept(i)
      BY <1>5, <2>2, CompleteIsWhole DEF Accept, EntryOK
    <2>3. QED
      BY <2>1, <2>2
  <1>7. ASSUME NEW j \in Entries PROVE EntryOK(j)'
    <2>1. CASE j # i
      BY <1>1, <1>2, <1>3, <2>1, EntryStays
    <2>2. CASE j = i
      <3>1. answer'[i] = a /\ Complete(i)' = Complete(i)
        BY <1>1, <1>2, <1>3 DEF Complete
      <3>2. octet => OctetOK(i)'
        BY <1>1, <1>5 DEF OctetOK, Free
      <3>3. ~octet => MultipartOK(i)'
        BY <1>1, <1>5 DEF MultipartOK, Put, Free
      <3>4. QED
        BY <1>1, <1>2, <1>5, <1>6, <2>2, <3>1, <3>2, <3>3 DEF EntryOK, Begun, Cur, Free
    <2>3. QED
      BY <2>1, <2>2
  <1>8. QED
    BY <1>1, <1>4, <1>7, FilesStay DEF UploadsInv, EntriesInv

(* The transport closes the pipe of a request that is over. *)
LEMMA CloseBodyKeeps == ASSUME UploadsInv, NEW i \in Entries, CloseBody(i) PROVE UploadsInv'
  <1>1. /\ readEnd[i] = "open" /\ readEnd' = [readEnd EXCEPT ![i] = "closed"]
        /\ UNCHANGED <<octet, method, badURL, at, failed, results, feeder, taken, offer, writeEnd,
                       body, bodyEnd, answer, file>>
    BY DEF CloseBody, setup, call, pipe, envd
  <1>2. readEnd \in [Entries -> {None, "open", "closed"}]
    BY DEF UploadsInv, UTypeOK
  <1>3. UTypeOK' /\ ReturnInv'
    BY <1>1 DEF UploadsInv, UTypeOK, ReturnInv, Last
  <1>4. ASSUME NEW j \in Entries PROVE EntryOK(j)'
    <2>1. CASE j # i
      BY <1>1, <1>2, <2>1, EntryStays
    <2>2. CASE j = i
      <3>1. EntryOK(i) /\ readEnd'[i] = "closed" /\ Complete(i)' = Complete(i)
        BY <1>1, <1>2 DEF UploadsInv, EntriesInv, Complete
      <3>2. (octet => OctetOK(i)') /\ (~octet => MultipartOK(i)')
        BY <1>1, <3>1 DEF EntryOK, Begun, OctetOK, MultipartOK, Put, Free
      <3>3. QED
        BY <1>1, <2>2, <3>1, <3>2 DEF EntryOK, Begun, Cur, Free, None
    <2>3. QED
      BY <2>1, <2>2
  <1>5. QED
    BY <1>1, <1>3, <1>4, FilesStay DEF UploadsInv, EntriesInv

(* Only the entry that is uploaded receives, and the piece is the next one of its body. *)
LEMMA SendIs ==
    ASSUME UploadsInv, NEW i \in Entries, SendPiece(i) \/ SendChunk(i)
    PROVE  /\ i = Cur /\ readEnd[i] = "open" /\ bodyEnd[i] = "open"
           /\ \E piece \in Pieces :
                 /\ Receive(i, piece)
                 /\ piece = IF octet THEN Len(body[i]) + 1 ELSE Len(body[i])
                 /\ IF octet THEN /\ piece <= Chunks /\ taken' = [taken EXCEPT ![i] = piece]
                                  /\ offer' = offer
                    ELSE taken' = taken /\ offer' = [offer EXCEPT ![i] = Empty] /\ offer[i] = piece
           /\ UNCHANGED <<octet, method, badURL, at, failed, results, feeder, writeEnd, readEnd, bodyEnd, answer>>
  <1> USE UploadsOK DEF Pieces, PartHead, Boundary, Empty
  <1>1. /\ EntryOK(i) /\ body[i] \in Seq(Pieces) /\ taken[i] \in 0..Chunks /\ offer[i] \in Pieces \cup {Empty}
        /\ feeder[i] \in {None, "part", "copy", "close", "done"} /\ results \in Nat /\ i \in Nat
    <2>1. EntryOK(i) /\ i \in Nat
      BY EntriesAre DEF UploadsInv, EntriesInv
    <2>2. QED
      BY <2>1 DEF UploadsInv, UTypeOK
  <1>2. Len(body[i]) \in Nat /\ DOMAIN body[i] = 1..Len(body[i])
    BY <1>1, LenProperties
  <1>3. /\ readEnd[i] = "open" /\ bodyEnd[i] = "open"
        /\ UNCHANGED <<octet, method, badURL, at, failed, results, feeder, writeEnd, readEnd, bodyEnd, answer>>
    BY DEF SendPiece, SendChunk, Open, Receive, setup, call
  <1>4. i <= Cur
    BY <1>1, <1>3 DEF EntryOK, Begun, None, Cur
  <1>5. CASE octet
    <2>1. SendChunk(i) /\ Len(body[i]) = taken[i] /\ taken[i] < Chunks
      BY <1>1, <1>5 DEF EntryOK, Begun, OctetOK, SendPiece, SendChunk
    <2>2. ~Complete(i)
      BY <1>3, <1>5 DEF Complete
    <2>3. i = Cur
      BY <1>1, <1>4, <2>2 DEF EntryOK, Begun, Cur
    <2>4. taken[i] + 1 \in Pieces /\ taken[i] + 1 <= Chunks
      BY <1>1, <2>1
    <2>5. Receive(i, taken[i] + 1) /\ taken' = [taken EXCEPT ![i] = taken[i] + 1] /\ offer' = offer
      BY <2>1 DEF SendChunk
    <2>6. QED
      BY <1>3, <1>5, <2>1, <2>3, <2>4, <2>5
  <1>6. CASE ~octet
    <2>1. SendPiece(i) /\ ~Free(i) /\ MultipartOK(i)
      BY <1>1, <1>6 DEF EntryOK, Begun, SendPiece, SendChunk
    <2>2. offer[i] = Len(body[i]) /\ offer[i] \in Pieces /\ Put(i) = Len(body[i]) + 1
      BY <1>1, <2>1 DEF MultipartOK, Free, Put
    <2>3. ~Complete(i)
      BY <1>2, <1>6, <2>1, <2>2 DEF Complete, MultipartOK
    <2>4. i = Cur
      BY <1>1, <1>4, <2>3 DEF EntryOK, Begun, Cur
    <2>5. Receive(i, offer[i]) /\ taken' = taken /\ offer' = [offer EXCEPT ![i] = Empty]
      BY <2>1 DEF SendPiece
    <2>6. QED
      BY <1>3, <1>6, <2>2, <2>4, <2>5
  <1>7. QED
    BY <1>5, <1>6

(* A piece that is received makes the body and the file longer by one. *)
LEMMA SendKeeps == ASSUME UploadsInv, NEW i \in Entries, SendPiece(i) \/ SendChunk(i) PROVE UploadsInv'
  <1> USE UploadsOK DEF Pieces, PartHead, Boundary, Empty
  <1>1. /\ i = Cur /\ readEnd[i] = "open" /\ bodyEnd[i] = "open"
        /\ UNCHANGED <<octet, method, badURL, at, failed, results, feeder, writeEnd, readEnd, bodyEnd, answer>>
    BY SendIs
  <1>2. PICK piece \in Pieces :
            /\ Receive(i, piece)
            /\ piece = IF octet THEN Len(body[i]) + 1 ELSE Len(body[i])
            /\ IF octet THEN /\ piece <= Chunks /\ taken' = [taken EXCEPT ![i] = piece]
                             /\ offer' = offer
               ELSE taken' = taken /\ offer' = [offer EXCEPT ![i] = Empty] /\ offer[i] = piece
    BY SendIs
  <1>3. /\ body' = [body EXCEPT ![i] = Append(body[i], piece)]
        /\ file' = IF piece = Boundary THEN file
                   ELSE [file EXCEPT ![Paths[i]] = [entry |-> i, chunks |-> piece]]
    BY <1>2 DEF Receive
  <1>4. /\ feeder \in [Entries -> {None, "part", "copy", "close", "done"}]
        /\ taken \in [Entries -> 0..Chunks] /\ offer \in [Entries -> Pieces \cup {Empty}]
        /\ body \in [Entries -> Seq(Pieces)]
        /\ file \in [Files -> [entry : Entries \cup {0}, chunks : 0..Chunks]]
        /\ EntryOK(i) /\ Paths[i] \in Files /\ results \in Nat /\ i \in Nat
    BY EntriesAre DEF UploadsInv, UTypeOK, EntriesInv
  <1>5. /\ body'[i] = Append(body[i], piece) /\ body'[i] \in Seq(Pieces) /\ body'[i] # <<>>
        /\ Len(body[i]) \in Nat /\ DOMAIN body[i] = 1..Len(body[i])
        /\ Len(body'[i]) = Len(body[i]) + 1 /\ DOMAIN body'[i] = 1..(Len(body[i]) + 1)
        /\ \A k \in 1..Len(body[i]) : body'[i][k] = body[i][k]
        /\ body'[i][Len(body[i]) + 1] = piece
    BY <1>3, <1>4, BodyGrows
  <1>6. ASSUME NEW j \in Entries \ {i}
        PROVE  taken'[j] = taken[j] /\ offer'[j] = offer[j] /\ body'[j] = body[j]
    BY <1>2, <1>3, <1>4
  <1>7. UTypeOK'
    <2>1. taken' \in [Entries -> 0..Chunks] /\ offer' \in [Entries -> Pieces \cup {Empty}]
      <3>1. CASE octet
        <4>1. piece \in 0..Chunks /\ taken' = [taken EXCEPT ![i] = piece] /\ offer' = offer
          BY <1>2, <3>1
        <4>2. QED
          BY <1>4, <4>1
      <3>2. CASE ~octet
        BY <1>2, <1>4, <3>2
      <3>3. QED
        BY <3>1, <3>2
    <2>2. body' \in [Entries -> Seq(Pieces)]
      BY <1>3, <1>4, <1>5
    <2>3. piece # Boundary => [entry |-> i, chunks |-> piece] \in [entry : Entries \cup {0}, chunks : 0..Chunks]
      BY <1>2
    <2>4. file' \in [Files -> [entry : Entries \cup {0}, chunks : 0..Chunks]]
      BY <1>3, <1>4, <2>3
    <2>5. QED
      BY <1>1, <2>1, <2>2, <2>4 DEF UploadsInv, UTypeOK
  <1>8. ReturnInv'
    BY <1>1 DEF UploadsInv, ReturnInv, Last
  <1>9. ASSUME NEW j \in Entries PROVE EntryOK(j)'
    <2>1. CASE j # i
      BY <1>1, <1>6, <2>1, EntryStays
    <2>2. CASE j = i
      <3>1. octet => OctetOK(i)'
        <4>1. CASE octet
          <5>1. OctetOK(i) /\ taken'[i] = piece /\ piece = Len(body[i]) + 1
            BY <1>2, <1>4, <4>1 DEF EntryOK, Begun
          <5>2. \A k \in DOMAIN body'[i] : body'[i][k] = k
            BY <1>5, <5>1 DEF OctetOK
          <5>3. QED
            BY <1>1, <1>2, <1>5, <4>1, <5>1, <5>2 DEF OctetOK, Free
        <4>2. QED
          BY <4>1
      <3>2. ~octet => MultipartOK(i)'
        <4>1. CASE ~octet
          <5>1. /\ MultipartOK(i) /\ piece = Len(body[i]) /\ offer[i] = piece /\ offer'[i] = Empty
                /\ taken' = taken /\ feeder' = feeder
            BY <1>1, <1>2, <1>4, <4>1 DEF EntryOK, Begun
          <5>2. \A k \in DOMAIN body'[i] : body'[i][k] = k - 1
            BY <1>5, <5>1 DEF MultipartOK
          <5>3. Free(i)' /\ ~Free(i)
            BY <5>1, <1>2 DEF Free
          <5>4. Put(i) = Len(body[i]) + 1 /\ Put(i)' = Len(body'[i])
            BY <1>5, <5>3 DEF Put
          <5>5. QED
            BY <1>5, <5>1, <5>2, <5>3, <5>4 DEF MultipartOK
        <4>2. QED
          BY <4>1
      <3>3. Complete(i) => Complete(i)'
        BY <1>1, <1>5 DEF Complete
      <3>4. ~(i > Cur) /\ Cur' = Cur
        BY <1>1, <1>4 DEF Cur
      <3>5. QED
        BY <1>1, <1>4, <2>2, <3>1, <3>2, <3>3, <3>4 DEF EntryOK, Begun, None
    <2>3. QED
      BY <2>1, <2>2
  <1>10. FileInv'
    <2> SUFFICES ASSUME NEW p \in Files
                 PROVE  IF Paths[i] = p THEN file'[p] = [entry |-> i, chunks |-> Arrived(i)']
                                        ELSE Holds(p, results)'
      BY <1>1, <1>5 DEF FileInv, Cur, Arrived
    <2>1. CASE Paths[i] # p
      <3>1. Holds(p, results) /\ file'[p] = file[p]
        BY <1>1, <1>3, <1>4, <2>1 DEF UploadsInv, FileInv
      <3>2. QED
        BY <1>1, <2>1, <3>1 DEF Holds, Absent, Whole
    <2>2. CASE Paths[i] = p /\ piece # Boundary
      <3>1. Arrived(i)' = piece
        BY <1>1, <1>2, <1>5, <2>2 DEF Arrived
      <3>2. QED
        BY <1>3, <1>4, <2>2, <3>1
    <2>3. CASE Paths[i] = p /\ piece = Boundary
      <3>1. ~octet /\ Len(body[i]) = Chunks + 1 /\ body[i] # <<>>
        <4>1. Len(<<>>) = 0
          OBVIOUS
        <4>2. QED
          BY <1>2, <2>3, <4>1
      <3>2. Arrived(i) = Chunks /\ Arrived(i)' = Chunks
        BY <1>1, <1>5, <3>1 DEF Arrived
      <3>3. file[p] = [entry |-> i, chunks |-> Chunks]
        BY <1>1, <2>3, <3>1, <3>2 DEF UploadsInv, FileInv
      <3>4. QED
        BY <1>3, <2>3, <3>2, <3>3
    <2>4. QED
      BY <2>1, <2>2, <2>3
  <1>11. QED
    BY <1>7, <1>8, <1>9, <1>10 DEF UploadsInv, EntriesInv

-------------------------------------------------------------------------------
(* Every step of the call, the goroutines, the transport and envd keeps the invariant. *)
LEMMA UploadsStep == UploadsInv /\ [UNext]_uvars => UploadsInv'
  <1> SUFFICES ASSUME UploadsInv, [UNext]_uvars PROVE UploadsInv'
    OBVIOUS
  <1>1. CASE CallStep
    BY <1>1, ChooseBodyKeeps, BuildRequestKeeps, SucceedKeeps, FailKeeps DEF CallStep
  <1>2. CASE GiveUp
    BY <1>2, FailKeeps
  <1>3. ASSUME NEW i \in Entries, FeederStep(i) \/ SendStep(i) \/ Accept(i) \/ Refuse(i) \/ CloseBody(i)
        PROVE  UploadsInv'
    BY <1>3, FeederKeeps, SendKeeps, EndBodyKeeps, AnswerKeeps, CloseBodyKeeps DEF SendStep
  <1>4. CASE UNCHANGED uvars
    <2>1. UNCHANGED <<octet, method, badURL, at, failed, results, feeder, taken, offer, writeEnd, readEnd,
                      body, bodyEnd, answer, file>>
      BY <1>4 DEF uvars, setup, call, pipe, envd
    <2>2. \A j \in Entries : EntryOK(j)'
      BY <2>1, EntryStays
    <2>3. UTypeOK' /\ ReturnInv'
      BY <2>1 DEF UploadsInv, UTypeOK, ReturnInv, Last
    <2>4. QED
      BY <2>1, <2>2, <2>3, FilesStay DEF UploadsInv, EntriesInv
  <1>5. QED
    BY <1>1, <1>2, <1>3, <1>4 DEF UNext

(* So it holds throughout. *)
LEMMA AlwaysUploads == USpec => []UploadsInv
  BY InitUploads, UploadsStep, PTL DEF USpec

(* Every variable of an upload keeps to the values the code gives it. *)
THEOREM UploadsTypeCorrect == USpec => []UTypeOK
  <1>1. UploadsInv => UTypeOK
    BY DEF UploadsInv
  <1>2. QED
    BY <1>1, AlwaysUploads, PTL

(* When Write or WriteFiles returns, the files hold what the results say: whole data of the entries *)
(* that have a WriteInfo, the last for a path, and otherwise at most a part of the one that failed. *)
THEOREM UploadsAreAsReported == USpec => []FilesAsReported
  <1>1. UploadsInv => FilesAsReported
    <2> SUFFICES ASSUME UploadsInv, at = "returned"
                 PROVE  /\ ~failed => results = Last
                        /\ \A p \in Files : (failed /\ Paths[Cur] = p) \/ Holds(p, results)
      BY DEF FilesAsReported
    <2>1. ~failed => results = Last
      BY DEF UploadsInv, ReturnInv
    <2>2. CASE failed
      BY <2>2 DEF UploadsInv, FileInv, ReturnInv
    <2>3. CASE ~failed
      <3>1. Cur \in Entries => Cur > results /\ EntryOK(Cur)
        BY EntriesAre DEF UploadsInv, UTypeOK, EntriesInv, Cur
      <3>2. Cur \in Entries => body[Cur] = <<>>
        BY <2>3, <3>1 DEF EntryOK, Begun
      <3>3. QED
        BY <2>1, <3>2 DEF UploadsInv, FileInv
    <2>4. QED
      BY <2>1, <2>2, <2>3
  <1>2. QED
    BY <1>1, AlwaysUploads, PTL
================================================================================
