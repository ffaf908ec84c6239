---------------------------- MODULE SandboxesProofs ----------------------------
(***************************************************************************)
(* Theorems about Sandboxes, for every number of callers, sandboxes and    *)
(* snapshots, every set of refusals, and every bound on late requests.     *)
(*                                                                         *)
(* Both invariants are about what a call returns, and follow from what the *)
(* answer on its way to the call would make it return.  They rest on how   *)
(* the states of a thing follow each other: a thing that is gone stays     *)
(* gone, so of two answers to removals one only found it alive.            *)
(***************************************************************************)
EXTENDS Sandboxes, TLAPS

(* What a call of op may be about while the server has not answered it. *)
Subjects(op) == CASE op \in Makes -> {Nothing} [] op \in BoxOps -> Boxes [] op \in SnapOps -> Snapshots

Open(c)   == call[c].at # "returned"
Answer(c) == Result(call[c].op, answer[c])

(* A call in progress is about something of the right kind. *)
SubjectOK(c) ==
    /\ Open(c) => call[c].op \in Ops
    /\ call[c].at = "sent" => call[c].thing \in Subjects(call[c].op)
    /\ call[c].at = "answered" /\ (call[c].op \notin Makes \/ Answer(c).err = "nil") => call[c].thing \in Things

SubjectsInv == /\ \A c \in Callers : SubjectOK(c)
               /\ \A r \in late : r.thing \in Subjects(r.op)

(* Sandboxes run, pause and go; snapshots are kept and go. *)
KindsInv == /\ \A b \in Boxes : state[b] # "kept"
            /\ \A p \in Snapshots : state[p] \notin {"running", "paused"}

(* A call in progress has seen the state its thing is in; the thing has been made. *)
SeenOK(c) == Open(c) /\ call[c].thing \in Things => state[call[c].thing] \in seen[c] \ {"none"}
SeenInv == \A c \in Callers : SeenOK(c)

(* What the call would return, if it read the answer now, is true. *)
AnswerOK(c) == call[c].at = "answered" /\ Answer(c).err = "nil"
                   => Explained(call[c].op, Answer(c).value, seen[c])
AnswerInv == \A c \in Callers : AnswerOK(c)

(* What it has returned is true: AnswersAreTrue says so of every caller. *)
ResultOK(c) == call[c].at = "returned" /\ call[c].op # "none" /\ result[c].err = "nil" /\ ~Skipped(call[c].op)
                   => Explained(call[c].op, result[c].value, seen[c])

(* The call will return that it has removed x. *)
Claims(c, x) == /\ call[c].at = "answered" /\ Removes(call[c].op) /\ call[c].thing = x
                /\ Answer(c) = [err |-> "nil", value |-> TRUE]

RemovalInv ==
    \A x \in Things :
        /\ removals[x] <= 1
        /\ \A c \in Callers : Claims(c, x) => removals[x] = 0 /\ state[x] = "gone"
        /\ removals[x] = 1 => state[x] = "gone"
        /\ \A c, d \in Callers : Claims(c, x) /\ Claims(d, x) => c = d

Inv == TypeOK /\ SubjectsInv /\ KindsInv /\ SeenInv /\ AnswerInv /\ AnswersAreTrue /\ RemovalInv

-------------------------------------------------------------------------------
(* Each kind of call is about its own kind of things. *)
LEMMA SubjectsOf == ASSUME NEW op
                    PROVE  /\ op \in Makes => Subjects(op) = {Nothing}
                           /\ op \in BoxOps => Subjects(op) = Boxes
                           /\ op \in SnapOps => Subjects(op) = Snapshots
  <1>1. op \in Makes => op \notin BoxOps \cup SnapOps
    BY DEF Makes, BoxOps, SnapOps
  <1>2. op \in BoxOps => op \notin SnapOps
    BY DEF BoxOps, SnapOps
  <1>3. QED
    BY <1>1, <1>2 DEF Subjects

(* mapHTTPErr gives no error to a 2xx and to nothing else. *)
LEMMA NilOf == ASSUME NEW s \in Nat, NEW about \in BOOLEAN
               PROVE  MapHTTPErr(s, about) = "nil" <=> s \in 200..299
  BY DEF MapHTTPErr

(* It says that a sandbox is not found to a 404 about a sandbox and to nothing else. *)
LEMMA NotFoundOf == ASSUME NEW s \in Nat
                    PROVE  MapHTTPErr(s, TRUE) = "SandboxNotFoundError" <=> s = 404
  BY DEF MapHTTPErr

(* What mapHTTPErr gives is the name of an error. *)
LEMMA ErrorOf == ASSUME NEW s \in Nat, NEW about \in BOOLEAN PROVE MapHTTPErr(s, about) \in Errors
  BY DEF MapHTTPErr, Errors

(* The result of each call is that of its own kind. *)
LEMMA ResultOf ==
    ASSUME NEW op, NEW a
    PROVE  /\ op = "Create" => Result(op, a) = MadeResult(a, FALSE)
           /\ op = "Connect" => Result(op, a) = MadeResult(a, TRUE)
           /\ op = "CreateSnapshot" => Result(op, a) = MadeResult(a, TRUE)
           /\ op = "Client.Kill" => Result(op, a) = ClientKillResult(a)
           /\ op = "DeleteSnapshot" => Result(op, a) = DeleteSnapshotResult(a)
           /\ op = "Sandbox.Kill" => Result(op, a) = SandboxKillResult(a)
           /\ op = "Pause" => Result(op, a) = PauseResult(a)
           /\ op = "IsRunning" => Result(op, a) = IsRunningResult(a)
           /\ op = "SetTimeout" => Result(op, a) = SetTimeoutResult(a)
  BY DEF Result

(* A call returns an error, or none, and a boolean. *)
LEMMA ResultType ==
    ASSUME NEW op \in Ops, NEW a \in [status : Nat, json : BOOLEAN, was : States]
    PROVE  Result(op, a) \in [err : Errors, value : BOOLEAN]
  <1>1. MapHTTPErr(a.status, TRUE) \in Errors /\ MapHTTPErr(a.status, FALSE) \in Errors
    BY ErrorOf
  <1>2. "nil" \in Errors /\ "SandboxError" \in Errors
    BY DEF Errors
  <1>3. MadeResult(a, TRUE) \in [err : Errors, value : BOOLEAN] /\ MadeResult(a, FALSE) \in [err : Errors, value : BOOLEAN]
    BY <1>1, <1>2 DEF MadeResult
  <1>4. ClientKillResult(a) \in [err : Errors, value : BOOLEAN]
    BY <1>1, <1>2 DEF ClientKillResult
  <1>5. DeleteSnapshotResult(a) \in [err : Errors, value : BOOLEAN]
    BY <1>1, <1>2 DEF DeleteSnapshotResult
  <1>6. SandboxKillResult(a) \in [err : Errors, value : BOOLEAN]
    BY <1>1, <1>2 DEF SandboxKillResult
  <1>7. PauseResult(a) \in [err : Errors, value : BOOLEAN]
    BY <1>1, <1>2 DEF PauseResult
  <1>8. IsRunningResult(a) \in [err : Errors, value : BOOLEAN]
    <2>1. GetInfoErr(a) \in Errors
      BY <1>1, <1>2 DEF GetInfoErr
    <2>2. QED
      BY <2>1, <1>2 DEF IsRunningResult
  <1>9. SetTimeoutResult(a) \in [err : Errors, value : BOOLEAN]
    BY <1>1 DEF SetTimeoutResult
  <1>10. QED
    BY <1>3, <1>4, <1>5, <1>6, <1>7, <1>8, <1>9, ResultOf DEF Ops, Makes, BoxOps, SnapOps

(* A refusal makes every call return an error. *)
LEMMA RefusalIsError ==
    ASSUME NEW op \in Ops, NEW a \in [status : Nat, json : BOOLEAN, was : States],
           a.status \in Refusals \/ (op = "CreateSnapshot" /\ a.status = 404)
    PROVE  Result(op, a).err # "nil"
  <1>1. a.status \in Nat /\ a.status \notin 200..299
    BY SandboxesOK
  <1>2. MapHTTPErr(a.status, TRUE) # "nil" /\ MapHTTPErr(a.status, FALSE) # "nil"
    BY <1>1, NilOf
  <1>3. op # "CreateSnapshot" => a.status # 404 /\ a.status # 409
    BY SandboxesOK
  <1>4. MadeResult(a, TRUE).err # "nil" /\ MadeResult(a, FALSE).err # "nil"
    BY <1>2 DEF MadeResult
  <1>5. op # "CreateSnapshot" => ClientKillResult(a).err # "nil" /\ DeleteSnapshotResult(a).err # "nil"
    BY <1>2, <1>3 DEF ClientKillResult, DeleteSnapshotResult
  <1>6. op # "CreateSnapshot" => SandboxKillResult(a).err # "nil" /\ PauseResult(a).err # "nil"
    BY <1>2, <1>3 DEF SandboxKillResult, PauseResult
  <1>7. SetTimeoutResult(a).err # "nil"
    BY <1>2 DEF SetTimeoutResult
  <1>8. op # "CreateSnapshot" => IsRunningResult(a).err # "nil"
    <2>1. op # "CreateSnapshot" => MapHTTPErr(a.status, TRUE) # "SandboxNotFoundError"
      BY <1>1, <1>3, NotFoundOf
    <2>2. QED
      BY <1>2, <2>1 DEF IsRunningResult, GetInfoErr
  <1>9. QED
    <2>1. op = "Create" => Result(op, a).err # "nil"
      BY <1>4, ResultOf
    <2>4. op \in {"Connect", "CreateSnapshot"} => Result(op, a).err # "nil"
      <3>1. op \in {"Connect", "CreateSnapshot"} => Result(op, a) = MadeResult(a, TRUE)
        BY ResultOf
      <3>2. QED
        BY <1>4, <3>1
    <2>5. op = "SetTimeout" => Result(op, a).err # "nil"
      BY <1>7, ResultOf
    <2>2. CASE op \in {"Client.Kill", "DeleteSnapshot", "Sandbox.Kill", "Pause", "IsRunning"}
      BY <1>5, <1>6, <1>8, <2>2, ResultOf
    <2>3. QED
      BY <2>1, <2>2, <2>4, <2>5 DEF Ops, Makes, BoxOps, SnapOps

(* No request makes a thing or brings one back. *)
LEMMA StatesFollow ==
    ASSUME NEW op, NEW s \in States
    PROVE  /\ StateAfter(op, s) \in States
           /\ StateAfter(op, s) = "none" <=> s = "none"
           /\ s = "gone" => StateAfter(op, s) = "gone"
           /\ s # "kept" => StateAfter(op, s) # "kept"
           /\ s \notin {"running", "paused"} => StateAfter(op, s) \notin {"running", "paused"}
  BY DEF StateAfter, States, Alive

(* What a served request makes its call return is true of the state it found and of the one it left. *)
LEMMA ServedIsTrue ==
    ASSUME NEW op \in BoxOps \cup SnapOps, NEW s \in States \ {"none"},
           op \in BoxOps => s # "kept",
           NEW a \in [status : {StatusOf(op, s)}, json : BOOLEAN, was : {s}],
           NEW S \in SUBSET States, s \in S, StateAfter(op, s) \in S,
           Result(op, a).err = "nil"
    PROVE  Explained(op, Result(op, a).value, S)
  <1>1. /\ a.status = 200 => MapHTTPErr(a.status, TRUE) = "nil"
        /\ a.status = 404 => /\ MapHTTPErr(a.status, TRUE) = "SandboxNotFoundError"
                             /\ MapHTTPErr(a.status, FALSE) = "NotFoundError"
    BY DEF MapHTTPErr
  <1>2. a.status = StatusOf(op, s) /\ a.was = s
    OBVIOUS
  <1>3. op \notin Makes /\ s \in {"running", "paused", "kept", "gone"}
    BY DEF BoxOps, SnapOps, Makes, States
  <1>4. s = "gone" => a.status = 404
    BY <1>2, <1>3 DEF StatusOf, Alive
  <1>5. CASE op = "Connect"
    <2>1. MadeResult(a, TRUE).err = "nil" /\ op \in BoxOps
      BY <1>5, ResultOf DEF BoxOps
    <2>2. s # "gone"
      BY <1>1, <1>4, <2>1 DEF MadeResult
    <2>3. s = "running" \/ StateAfter(op, s) = "running"
      BY <1>3, <1>5, <2>1, <2>2 DEF StateAfter
    <2>4. QED
      BY <1>5, <2>3 DEF Explained
  <1>6. CASE op \in {"Client.Kill", "DeleteSnapshot"}
    <2>1. CASE s = "gone"
      <3>1. ClientKillResult(a).value = FALSE /\ DeleteSnapshotResult(a).value = FALSE
        BY <1>1, <1>4, <2>1 DEF ClientKillResult, DeleteSnapshotResult
      <3>2. QED
        BY <1>6, <2>1, <3>1, ResultOf DEF Explained
    <2>2. CASE s # "gone"
      <3>1. s \in Alive /\ StateAfter(op, s) = "gone"
        BY <1>3, <1>6, <2>2 DEF StateAfter, Alive
      <3>2. QED
        BY <1>6, <3>1 DEF Explained
    <2>3. QED
      BY <2>1, <2>2
  <1>7. CASE op = "Sandbox.Kill"
    <2>1. s = "gone" \/ StateAfter(op, s) = "gone"
      BY <1>3, <1>7 DEF StateAfter, Alive
    <2>2. QED
      BY <1>7, <2>1 DEF Explained
  <1>8. CASE op = "Pause"
    <2>1. PauseResult(a).err = "nil" /\ op \in BoxOps
      BY <1>8, ResultOf DEF BoxOps
    <2>2. s # "gone"
      <3>1. a.status # 409 => PauseResult(a).err = MapHTTPErr(a.status, TRUE)
        BY DEF PauseResult
      <3>2. a.status = 404 => a.status # 409
        OBVIOUS
      <3>3. QED
        BY <1>1, <1>4, <2>1, <3>1, <3>2
    <2>3. s = "paused" \/ StateAfter(op, s) = "paused"
      BY <1>3, <1>8, <2>1, <2>2 DEF StateAfter
    <2>4. QED
      BY <1>8, <2>3 DEF Explained
  <1>9. CASE op = "IsRunning"
    <2>1. Result(op, a) = IsRunningResult(a)
      BY <1>9, ResultOf
    <2>2. Result(op, a).value = (GetInfoErr(a) = "nil" /\ s = "running")
      BY <1>2, <2>1 DEF IsRunningResult
    <2>3. s = "running" => GetInfoErr(a) = "nil"
      <3>1. SUFFICES ASSUME s = "running" PROVE GetInfoErr(a) = "nil"
        OBVIOUS
      <3>2. a.status = 200
        BY <1>2, <1>3, <1>9, <3>1 DEF StatusOf, Alive
      <3>3. IsRunningResult(a).err = "nil"
        BY <2>1
      <3>4. QED
        BY <1>1, <3>2, <3>3 DEF IsRunningResult, GetInfoErr
    <2>4. QED
      BY <1>9, <2>2, <2>3 DEF Explained
  <1>10. CASE op = "SetTimeout"
    <2>1. SetTimeoutResult(a).err = "nil"
      BY <1>10, ResultOf
    <2>2. s # "gone"
      BY <1>1, <1>4, <2>1 DEF SetTimeoutResult
    <2>3. QED
      BY <1>3, <1>10, <2>2 DEF Explained, Alive
  <1>11. QED
    BY <1>5, <1>6, <1>7, <1>8, <1>9, <1>10 DEF BoxOps, SnapOps

(* What is true of some states is true of more. *)
LEMMA ExplainedGrows ==
    ASSUME NEW op \in Ops, NEW value \in BOOLEAN, NEW S, NEW T, S \subseteq T, S # {},
           Explained(op, value, S)
    PROVE  Explained(op, value, T)
  BY DEF Explained, Ops, Makes, BoxOps, SnapOps


(* The only served removals that return true are those that found the thing alive, and end it. *)
LEMMA ServedClaim ==
    ASSUME NEW op \in {"Client.Kill", "DeleteSnapshot"}, NEW s \in States \ {"none"},
           NEW a \in [status : {StatusOf(op, s)}, json : BOOLEAN, was : {s}],
           Result(op, a).value = TRUE
    PROVE  s # "gone" /\ StateAfter(op, s) = "gone"
  <1>1. a.status = StatusOf(op, s) /\ op \notin Makes
    BY DEF Makes
  <1>2. ClientKillResult(a).value = TRUE \/ DeleteSnapshotResult(a).value = TRUE
    BY ResultOf
  <1>3. a.status = 404 => MapHTTPErr(a.status, TRUE) # "nil" /\ MapHTTPErr(a.status, FALSE) # "nil"
    BY DEF MapHTTPErr
  <1>4. s # "gone"
    <2>1. a.status # 404
      BY <1>2, <1>3 DEF ClientKillResult, DeleteSnapshotResult
    <2>2. QED
      BY <1>1, <2>1 DEF StatusOf, Alive
  <1>5. QED
    BY <1>4 DEF StateAfter, States, Alive

-------------------------------------------------------------------------------
(* A step of the server takes x to the state s, and the calls about it see it. *)
Moves(x, s) ==
    /\ state' = [state EXCEPT ![x] = s]
    /\ seen' \in [Callers -> SUBSET States]
    /\ \A c \in Callers : /\ seen[c] \subseteq seen'[c]
                          /\ ~Open(c) => seen'[c] = seen[c]
                          /\ Open(c) /\ call[c].thing = x => s \in seen'[c]

(* Every new state of a thing is such a step. *)
LEMMA BecomesMoves == ASSUME TypeOK, NEW x \in Things, NEW s \in States, Becomes(x, s) PROVE Moves(x, s)
  BY DEF Moves, Becomes, TypeOK, Open

(* So is a request that is carried out, whether it changes the state or not. *)
LEMMA CarryMoves ==
    ASSUME TypeOK, SeenInv, NEW op, NEW x \in Things, Carry(op, x)
    PROVE  Moves(x, StateAfter(op, state[x]))
  <1>1. state[x] \in States
    BY DEF TypeOK
  <1>2. CASE StateAfter(op, state[x]) = state[x]
    <2>1. state' = state /\ seen' = seen
      BY <1>2 DEF Carry
    <2>2. state' = [state EXCEPT ![x] = StateAfter(op, state[x])]
      BY <1>2, <2>1 DEF TypeOK
    <2>3. \A c \in Callers : Open(c) /\ call[c].thing = x => state[x] \in seen[c]
      BY DEF SeenInv, SeenOK
    <2>4. QED
      BY <1>2, <2>1, <2>2, <2>3 DEF Moves, TypeOK
  <1>3. CASE StateAfter(op, state[x]) # state[x]
    BY <1>1, <1>3, StatesFollow, BecomesMoves DEF Carry
  <1>4. QED
    BY <1>2, <1>3

(* The invariants about states and what was seen hold after such a step. *)
LEMMA MovesKeep ==
    ASSUME TypeOK, SeenInv, KindsInv, NEW x \in Things, NEW s \in States, Moves(x, s),
           s # "none" \/ state[x] = "none", state[x] = "gone" => s = "gone",
           x \in Boxes => s # "kept", x \in Snapshots => s \notin {"running", "paused"}
    PROVE  /\ state' \in [Things -> States]
           /\ seen' \in [Callers -> SUBSET States]
           /\ KindsInv'
           /\ \A y \in Things : state'[y] = "none" => state[y] = "none"
           /\ \A y \in Things : state[y] = "gone" => state'[y] = "gone"
           /\ \A c \in Callers : Open(c) /\ call[c].thing \in Things
                                      => state'[call[c].thing] \in seen'[c] \ {"none"}
  <1>1. /\ \A y \in Things : state'[y] = IF y = x THEN s ELSE state[y]
        /\ state' \in [Things -> States]
    BY DEF Moves, TypeOK
  <1>2. Boxes \subseteq Things /\ Snapshots \subseteq Things
    BY DEF Things
  <1>3. KindsInv'
    BY <1>1, <1>2 DEF KindsInv
  <1>4. ASSUME NEW c \in Callers, Open(c), call[c].thing \in Things
        PROVE  state'[call[c].thing] \in seen'[c] \ {"none"}
    <2>1. state[call[c].thing] \in seen[c] /\ state[call[c].thing] # "none"
      BY <1>4 DEF SeenInv, SeenOK
    <2>2. QED
      BY <1>1, <1>4, <2>1 DEF Moves
  <1>5. QED
    BY <1>1, <1>3, <1>4 DEF Moves

(* The call of a goroutine that takes no part in a step is as true after it as before. *)
LEMMA OthersKeep ==
    ASSUME TypeOK, SubjectsInv, SeenInv, AnswerInv, AnswersAreTrue, NEW d \in Callers,
           call'[d] = call[d], answer'[d] = answer[d], result'[d] = result[d], debug' = debug,
           seen[d] \subseteq seen'[d], ~Open(d) => seen'[d] = seen[d]
    PROVE  AnswerOK(d)' /\ ResultOK(d)'
  <1>1. ResultOK(d)'
    BY DEF ResultOK, AnswersAreTrue, Skipped, Open
  <1>2. AnswerOK(d)'
    <2>1. SUFFICES ASSUME call[d].at = "answered", Answer(d).err = "nil"
                   PROVE  Explained(call[d].op, Answer(d).value, seen'[d])
      BY DEF AnswerOK, Answer
    <2>2. call[d].op \in Ops /\ seen[d] # {}
      BY <2>1 DEF SubjectsInv, SubjectOK, SeenInv, SeenOK, Open
    <2>3. Answer(d).value \in BOOLEAN
      BY <2>2, ResultType DEF Answer, TypeOK
    <2>4. QED
      BY <2>1, <2>2, <2>3, ExplainedGrows DEF AnswerInv, AnswerOK
  <1>3. QED
    BY <1>1, <1>2

(* What the calls return stays true, if the one call that takes part in a step does. *)
LEMMA CallsKeep ==
    ASSUME TypeOK, SubjectsInv, SeenInv, AnswerInv, AnswersAreTrue, debug' = debug, NEW c \in Callers,
           \A d \in Callers \ {c} : /\ call'[d] = call[d] /\ answer'[d] = answer[d] /\ result'[d] = result[d]
                                   /\ seen[d] \subseteq seen'[d] /\ (~Open(d) => seen'[d] = seen[d]),
           AnswerOK(c)', ResultOK(c)'
    PROVE  AnswerInv' /\ AnswersAreTrue'
  <1>1. \A d \in Callers : AnswerOK(d)' /\ ResultOK(d)'
    BY OthersKeep
  <1>2. AnswerInv'
    BY <1>1 DEF AnswerInv
  <1>3. AnswersAreTrue'
    BY <1>1 DEF AnswersAreTrue, ResultOK
  <1>4. QED
    BY <1>2, <1>3

(* Removals stay single, if a step adds no claim and brings nothing back. *)
LEMMA RemovalsKeep ==
    ASSUME RemovalInv, removals' = removals,
           \A y \in Things : state[y] = "gone" => state'[y] = "gone",
           \A d \in Callers, y \in Things : Claims(d, y)' => Claims(d, y)
    PROVE  RemovalInv'
  BY DEF RemovalInv

-------------------------------------------------------------------------------
(* A request that is served leads to an answer that is true, and claims a removal only if it made one. *)
LEMMA ServeKeeps == ASSUME Inv, NEW c \in Callers, Serve(c) PROVE Inv'
  <1> USE DEF Inv
  <1> DEFINE op == call[c].op
             x  == call[c].thing
             s  == state[x]
             a  == answer'[c]
  <1>1. PICK json \in BOOLEAN :
           answer' = [answer EXCEPT ![c] = [status |-> StatusOf(op, s), json |-> json, was |-> s]]
    BY DEF Serve
  <1>2. /\ call[c].at = "sent" /\ op \notin Makes /\ Carry(op, x)
        /\ call' = [call EXCEPT ![c].at = "answered"]
        /\ UNCHANGED <<debug, result, late, removals>>
    BY DEF Serve
  <1>3. op \in BoxOps \cup SnapOps /\ op \in Ops
    BY <1>2 DEF SubjectsInv, SubjectOK, Open, Ops
  <1>4. x \in Subjects(op)
    BY <1>2 DEF SubjectsInv, SubjectOK
  <1>5. x \in Things /\ (op \in BoxOps => x \in Boxes)
    BY <1>2, <1>3, <1>4 DEF Subjects, Things, BoxOps, SnapOps
  <1>6. s \in States \ {"none"} /\ s \in seen[c]
    BY <1>2, <1>5 DEF SeenInv, SeenOK, TypeOK, Open
  <1>7. (x \in Boxes => s # "kept") /\ (x \in Snapshots => s \notin {"running", "paused"})
    BY DEF KindsInv
  <1>8. Moves(x, StateAfter(op, s))
    BY <1>2, <1>5, CarryMoves
  <1>9. /\ state' \in [Things -> States] /\ seen' \in [Callers -> SUBSET States] /\ KindsInv'
        /\ \A y \in Things : state[y] = "gone" => state'[y] = "gone"
        /\ \A d \in Callers : Open(d) /\ call[d].thing \in Things
                                   => state'[call[d].thing] \in seen'[d] \ {"none"}
    BY <1>5, <1>6, <1>7, <1>8, StatesFollow, MovesKeep
  <1>10. /\ call'[c] = [op |-> op, thing |-> x, at |-> "answered"]
         /\ a = [status |-> StatusOf(op, s), json |-> json, was |-> s]
         /\ \A d \in Callers \ {c} : call'[d] = call[d] /\ answer'[d] = answer[d]
    BY <1>1, <1>2 DEF TypeOK
  <1>11. StatusOf(op, s) \in Nat
    BY DEF StatusOf
  <1>12. TypeOK'
    <2>1. call' \in [Callers -> [op : Ops \cup {"none"}, thing : Things \cup {Nothing},
                                 at : {"sent", "answered", "returned"}]]
      BY <1>2 DEF TypeOK
    <2>2. answer' \in [Callers -> [status : Nat, json : BOOLEAN, was : States]]
      BY <1>1, <1>6, <1>11 DEF TypeOK
    <2>3. QED
      BY <1>2, <1>9, <2>1, <2>2 DEF TypeOK
  <1>13. SubjectsInv'
    BY <1>2, <1>3, <1>5, <1>10 DEF SubjectsInv, SubjectOK, Open, Answer
  <1>14. SeenInv'
    BY <1>2, <1>9, <1>10 DEF SeenInv, SeenOK, Open
  <1>15. AnswerInv' /\ AnswersAreTrue'
    <2>1. AnswerOK(c)'
      <3>1. SUFFICES ASSUME Result(op, a).err = "nil" PROVE Explained(op, Result(op, a).value, seen'[c])
        BY <1>10 DEF AnswerOK, Answer
      <3>2. s \in seen'[c] /\ StateAfter(op, s) \in seen'[c] /\ seen'[c] \in SUBSET States
        BY <1>2, <1>6, <1>8 DEF Moves, Open
      <3>3. a \in [status : {StatusOf(op, s)}, json : BOOLEAN, was : {s}]
        BY <1>10
      <3>4. QED
        BY <1>3, <1>5, <1>6, <1>7, <3>1, <3>2, <3>3, ServedIsTrue
    <2>2. ResultOK(c)'
      BY <1>10 DEF ResultOK
    <2>3. QED
      BY <1>2, <1>8, <1>10, <2>1, <2>2, CallsKeep DEF Moves
  <1>16. RemovalInv'
    <2>1. ASSUME NEW d \in Callers \ {c}, NEW y \in Things PROVE Claims(d, y)' = Claims(d, y)
      BY <1>10 DEF Claims, Answer
    <2>2. ASSUME NEW y \in Things, Claims(c, y)'
          PROVE  y = x /\ s # "gone" /\ state'[x] = "gone"
      <3>1. Removes(op) /\ y = x /\ Result(op, a) = [err |-> "nil", value |-> TRUE]
        BY <1>10, <2>2 DEF Claims, Answer
      <3>2. op \in {"Client.Kill", "DeleteSnapshot"} /\ Result(op, a).value = TRUE
        BY <3>1 DEF Removes
      <3>3. s # "gone" /\ StateAfter(op, s) = "gone"
        <4>1. a \in [status : {StatusOf(op, s)}, json : BOOLEAN, was : {s}]
          BY <1>10
        <4>2. QED
          BY <1>6, <3>2, <4>1, ServedClaim
      <3>4. QED
        BY <1>5, <1>8, <3>1, <3>3 DEF Moves, TypeOK
    <2>3. ASSUME NEW y \in Things, state[y] # "gone"
          PROVE  removals[y] = 0 /\ \A d \in Callers : ~Claims(d, y)
      <3>1. removals[y] \in Nat /\ removals[y] <= 1 /\ removals[y] # 1
        BY <2>3 DEF TypeOK, RemovalInv
      <3>2. removals[y] = 0
        BY <3>1
      <3>3. QED
        BY <2>3, <3>2 DEF RemovalInv
    <2>4. QED
      BY <1>2, <1>5, <1>9, <2>1, <2>2, <2>3 DEF RemovalInv
  <1>17. QED
    BY <1>9, <1>12, <1>13, <1>14, <1>15, <1>16

(* A request that makes something shows it to its caller. *)
LEMMA MakeKeeps == ASSUME Inv, NEW c \in Callers, Make(c) PROVE Inv'
  <1> USE DEF Inv
  <1> DEFINE op == call[c].op
             s  == Made(op)
  <1>1. /\ call[c].at = "sent" /\ op \in Makes
        /\ UNCHANGED <<debug, result, late, removals>>
    BY DEF Make
  <1>2. PICK x \in Fresh(op), json \in BOOLEAN :
           /\ state' = [state EXCEPT ![x] = s]
           /\ seen' = [seen EXCEPT ![c] = {s}]
           /\ answer' = [answer EXCEPT ![c] = [status |-> 201, json |-> json, was |-> s]]
           /\ call' = [call EXCEPT ![c].thing = x, ![c].at = "answered"]
    BY DEF Make
  <1>3. /\ x \in Things /\ state[x] = "none"
        /\ op = "Create" => x \in Boxes /\ s = "running"
        /\ op = "CreateSnapshot" => x \in Snapshots /\ s = "kept"
        /\ s \in {"running", "kept"} /\ op \in Ops
    BY <1>1 DEF Fresh, Things, Made, Makes, Ops
  <1>4. /\ call'[c] = [op |-> op, thing |-> x, at |-> "answered"]
        /\ answer'[c] = [status |-> 201, json |-> json, was |-> s]
        /\ \A d \in Callers \ {c} : call'[d] = call[d] /\ answer'[d] = answer[d] /\ seen'[d] = seen[d]
        /\ seen'[c] = {s}
        /\ \A y \in Things : state'[y] = IF y = x THEN s ELSE state[y]
    BY <1>2, <1>3 DEF TypeOK
  <1>5. TypeOK'
    <2>1. call' \in [Callers -> [op : Ops \cup {"none"}, thing : Things \cup {Nothing},
                                 at : {"sent", "answered", "returned"}]]
      <3>1. call'[c] \in [op : Ops \cup {"none"}, thing : Things \cup {Nothing},
                          at : {"sent", "answered", "returned"}]
        BY <1>3, <1>4
      <3>2. QED
        BY <1>2, <1>4, <3>1 DEF TypeOK
    <2>2. s \in States /\ 201 \in Nat
      BY <1>3 DEF States
    <2>3. answer' \in [Callers -> [status : Nat, json : BOOLEAN, was : States]]
      BY <1>2, <2>2 DEF TypeOK
    <2>4. QED
      BY <1>1, <1>2, <1>3, <2>1, <2>2, <2>3 DEF TypeOK
  <1>6. SubjectsInv'
    BY <1>1, <1>3, <1>4 DEF SubjectsInv, SubjectOK, Open, Answer
  <1>7. KindsInv'
    BY <1>1, <1>3, <1>4, SandboxesOK DEF KindsInv, Things, Makes
  <1>8. SeenInv'
    <2>1. \A d \in Callers \ {c} : Open(d) /\ call[d].thing \in Things => call[d].thing # x
      BY <1>3 DEF SeenInv, SeenOK
    <2>2. QED
      BY <1>3, <1>4, <2>1 DEF SeenInv, SeenOK, Open
  <1>9. AnswerInv' /\ AnswersAreTrue'
    <2>1. AnswerOK(c)'
      BY <1>1, <1>3, <1>4 DEF AnswerOK, Explained, Makes
    <2>2. ResultOK(c)'
      BY <1>4 DEF ResultOK
    <2>3. QED
      BY <1>1, <1>4, <2>1, <2>2, CallsKeep
  <1>10. RemovalInv'
    <2>1. \A d \in Callers, y \in Things : Claims(d, y)' => Claims(d, y)
      BY <1>1, <1>4 DEF Claims, Answer, Removes, Makes
    <2>2. QED
      BY <1>1, <1>3, <1>4, <2>1, RemovalsKeep
  <1>11. QED
    BY <1>5, <1>6, <1>7, <1>8, <1>9, <1>10

(* A refusal promises nothing. *)
LEMMA RefuseKeeps == ASSUME Inv, NEW c \in Callers, Refuse(c) PROVE Inv'
  <1> USE DEF Inv
  <1> DEFINE op == call[c].op
  <1>1. /\ call[c].at = "sent"
        /\ call' = [call EXCEPT ![c].at = "answered"]
        /\ UNCHANGED <<debug, state, result, late, seen, removals>>
    BY DEF Refuse
  <1>2. PICK status \in Refusals \cup (IF op = "CreateSnapshot" THEN {404} ELSE {}) :
           answer' = [answer EXCEPT ![c] = [status |-> status, json |-> FALSE, was |-> "none"]]
    BY DEF Refuse
  <1>3. status \in Nat /\ (status \in Refusals \/ (op = "CreateSnapshot" /\ status = 404))
    <2>1. status \in Refusals \/ (op = "CreateSnapshot" /\ status = 404)
      OBVIOUS
    <2>2. Refusals \subseteq 400..599 /\ 404 \in Nat
      BY SandboxesOK
    <2>3. status \in Refusals \cup {404}
      BY <2>1, Zenon
    <2>4. \A n \in Refusals \cup {404} : n \in Nat
      BY <2>2
    <2>5. status \in Nat
      BY <2>3, <2>4, Zenon
    <2>6. QED
      BY <2>1, <2>5, Zenon
  <1>4. op \in Ops /\ call[c].thing \in Subjects(op)
    BY <1>1 DEF SubjectsInv, SubjectOK, Open
  <1>5. /\ call'[c] = [op |-> op, thing |-> call[c].thing, at |-> "answered"]
        /\ answer'[c] = [status |-> status, json |-> FALSE, was |-> "none"]
        /\ \A d \in Callers \ {c} : call'[d] = call[d] /\ answer'[d] = answer[d]
    <2>1. /\ answer'[c] = [status |-> status, json |-> FALSE, was |-> "none"]
          /\ \A d \in Callers \ {c} : answer'[d] = answer[d]
      BY <1>2 DEF TypeOK
    <2>2. /\ call'[c] = [call[c] EXCEPT !.at = "answered"]
          /\ \A d \in Callers \ {c} : call'[d] = call[d]
      BY <1>1 DEF TypeOK
    <2>3. QED
      BY <2>1, <2>2 DEF TypeOK
  <1>6. answer'[c] \in [status : Nat, json : BOOLEAN, was : States]
    BY <1>3, <1>5 DEF States
  <1>7. Result(op, answer'[c]).err # "nil"
    <2>1. answer'[c].status \in Refusals \/ (op = "CreateSnapshot" /\ answer'[c].status = 404)
      BY <1>3, <1>5
    <2>2. QED
      BY <1>4, <1>6, <2>1, RefusalIsError
  <1>8. TypeOK'
    <2>1. call' \in [Callers -> [op : Ops \cup {"none"}, thing : Things \cup {Nothing},
                                 at : {"sent", "answered", "returned"}]]
      <3>1. call'[c] \in [op : Ops \cup {"none"}, thing : Things \cup {Nothing},
                          at : {"sent", "answered", "returned"}]
        BY <1>5 DEF TypeOK
      <3>2. QED
        BY <1>1, <1>5, <3>1 DEF TypeOK
    <2>2. answer' \in [Callers -> [status : Nat, json : BOOLEAN, was : States]]
      BY <1>2, <1>5, <1>6 DEF TypeOK
    <2>3. QED
      BY <1>1, <2>1, <2>2 DEF TypeOK
  <1>9. SubjectsInv'
    <2>1. op \notin Makes => call[c].thing \in Things
      BY <1>4 DEF Subjects, Things, Ops, Makes, BoxOps, SnapOps
    <2>2. SubjectOK(c)'
      BY <1>4, <1>5, <1>7, <2>1 DEF SubjectOK, Open, Answer
    <2>3. \A d \in Callers \ {c} : SubjectOK(d)'
      BY <1>5 DEF SubjectsInv, SubjectOK, Open, Answer
    <2>4. QED
      BY <1>1, <2>2, <2>3 DEF SubjectsInv
  <1>10. KindsInv' /\ SeenInv'
    BY <1>1, <1>5 DEF KindsInv, SeenInv, SeenOK, Open
  <1>11. AnswerInv' /\ AnswersAreTrue'
    <2>1. AnswerOK(c)' /\ ResultOK(c)'
      BY <1>5, <1>7 DEF AnswerOK, ResultOK, Answer
    <2>2. QED
      BY <1>1, <1>5, <2>1, CallsKeep
  <1>12. RemovalInv'
    <2>1. \A d \in Callers, y \in Things : Claims(d, y)' => Claims(d, y)
      BY <1>5, <1>7 DEF Claims, Answer
    <2>2. QED
      BY <1>1, <2>1, RemovalsKeep
  <1>13. QED
    BY <1>8, <1>9, <1>10, <1>11, <1>12

(* What the server does to a thing on its own keeps the invariant, when no call and no result changes. *)
LEMMA MoveKeeps ==
    ASSUME Inv, NEW x \in Things, NEW s \in States, Moves(x, s),
           s # "none" \/ state[x] = "none", state[x] = "gone" => s = "gone",
           x \in Boxes => s # "kept", x \in Snapshots => s \notin {"running", "paused"},
           UNCHANGED <<debug, calls, removals>>, late' \subseteq late
    PROVE  Inv'
  <1> USE DEF Inv
  <1>1. call' = call /\ answer' = answer /\ result' = result
    BY DEF calls
  <1>2. /\ state' \in [Things -> States] /\ seen' \in [Callers -> SUBSET States] /\ KindsInv'
        /\ \A y \in Things : state[y] = "gone" => state'[y] = "gone"
        /\ \A d \in Callers : Open(d) /\ call[d].thing \in Things
                                   => state'[call[d].thing] \in seen'[d] \ {"none"}
    BY MovesKeep
  <1>3. TypeOK'
    BY <1>1, <1>2 DEF TypeOK
  <1>4. SubjectsInv'
    BY <1>1 DEF SubjectsInv, SubjectOK, Open, Answer
  <1>5. SeenInv'
    BY <1>1, <1>2 DEF SeenInv, SeenOK, Open
  <1>6. AnswerInv' /\ AnswersAreTrue'
    <2>1. \A d \in Callers : AnswerOK(d)' /\ ResultOK(d)'
      BY <1>1, OthersKeep DEF Moves
    <2>2. QED
      BY <2>1 DEF AnswerInv, AnswersAreTrue, ResultOK
  <1>7. RemovalInv'
    <2>1. \A d \in Callers, y \in Things : Claims(d, y)' => Claims(d, y)
      BY <1>1 DEF Claims, Answer
    <2>2. QED
      BY <1>2, <2>1, RemovalsKeep
  <1>8. QED
    BY <1>2, <1>3, <1>4, <1>5, <1>6, <1>7

(* A lifetime ends. *)
LEMMA ExpireKeeps == ASSUME Inv, NEW x \in Boxes, Expire(x) PROVE Inv'
  <1> USE DEF Inv
  <1>1. x \in Things /\ x \notin Snapshots /\ state[x] = "running"
    BY SandboxesOK DEF Things, Expire
  <1>2. PICK s \in {"gone", "paused"} : Becomes(x, s)
    BY DEF Expire
  <1>3. s \in States /\ s # "kept" /\ s # "none"
    BY DEF States
  <1>4. Moves(x, s)
    BY <1>1, <1>2, <1>3, BecomesMoves
  <1>5. UNCHANGED <<debug, calls, late, removals>>
    BY DEF Expire
  <1>6. QED
    BY <1>1, <1>3, <1>4, <1>5, MoveKeeps

(* A request that its caller has given up is carried out. *)
LEMMA ServeLateKeeps == ASSUME Inv, NEW r \in late, ServeLate(r) PROVE Inv'
  <1> USE DEF Inv
  <1>1. /\ late' \subseteq late
        /\ UNCHANGED <<debug, calls, removals>>
    BY DEF ServeLate
  <1>2. r.op \in Ops /\ r.thing \in Subjects(r.op)
    BY DEF TypeOK, SubjectsInv
  <1>3. CASE r.op \in Makes
    <2>1. PICK x \in Fresh(r.op) : state' = [state EXCEPT ![x] = Made(r.op)] /\ UNCHANGED seen
      BY <1>3 DEF ServeLate
    <2>2. /\ x \in Things /\ state[x] = "none"
          /\ x \in Boxes => Made(r.op) = "running"
          /\ x \in Snapshots => Made(r.op) = "kept"
      BY <1>3, SandboxesOK DEF Fresh, Things, Made, Makes
    <2>3. Made(r.op) \in {"running", "kept"} /\ Made(r.op) \in States
      BY DEF Made, States
    <2>4. \A c \in Callers : Open(c) /\ call[c].thing \in Things => call[c].thing # x
      BY <2>2 DEF SeenInv, SeenOK
    <2>5. Moves(x, Made(r.op))
      BY <2>1, <2>2, <2>4 DEF Moves, TypeOK
    <2>6. QED
      BY <1>1, <2>2, <2>3, <2>5, MoveKeeps
  <1>4. CASE r.op \notin Makes
    <2> DEFINE x == r.thing
    <2>1. Carry(r.op, x)
      BY <1>4 DEF ServeLate
    <2>2. x \in Things
      BY <1>2, <1>4 DEF Subjects, Things, Ops, BoxOps, SnapOps
    <2>3. Moves(x, StateAfter(r.op, state[x])) /\ state[x] \in States
      BY <2>1, <2>2, CarryMoves DEF TypeOK
    <2>4. (x \in Boxes => state[x] # "kept") /\ (x \in Snapshots => state[x] \notin {"running", "paused"})
      BY DEF KindsInv
    <2>5. QED
      BY <1>1, <2>2, <2>3, <2>4, StatesFollow, MoveKeeps
  <1>5. QED
    BY <1>3, <1>4

-------------------------------------------------------------------------------
(* A call begins about something there is, and sees its state. *)
LEMMA BeginKeeps ==
    ASSUME Inv, NEW c \in Callers, NEW op \in Ops, NEW x \in Subjects(op), Begin(c, op, x),
           x \in Things => state[x] # "none"
    PROVE  Inv'
  <1> USE DEF Inv
  <1> DEFINE at == IF Skipped(op) THEN "returned" ELSE "sent"
  <1>1. /\ call[c].at = "returned"
        /\ call' = [call EXCEPT ![c] = [op |-> op, thing |-> x, at |-> at]]
        /\ result' = [result EXCEPT ![c] = IF Skipped(op) THEN [err |-> "nil", value |-> TRUE] ELSE NoResult]
        /\ seen' = [seen EXCEPT ![c] = IF x \in Things THEN {state[x]} ELSE {}]
        /\ UNCHANGED <<debug, state, answer, late, removals>>
    BY DEF Begin
  <1>2. x \in Things \cup {Nothing}
    BY DEF Subjects, Things, Ops, Makes, BoxOps, SnapOps
  <1>3. at \in {"sent", "returned"} /\ (at = "returned" => Skipped(op))
    OBVIOUS
  <1> HIDE DEF at
  <1>4. /\ call'[c] = [op |-> op, thing |-> x, at |-> at]
        /\ seen'[c] = IF x \in Things THEN {state[x]} ELSE {}
        /\ \A d \in Callers \ {c} : call'[d] = call[d] /\ result'[d] = result[d] /\ seen'[d] = seen[d]
    BY <1>1 DEF TypeOK
  <1>5. TypeOK'
    <2>1. call' \in [Callers -> [op : Ops \cup {"none"}, thing : Things \cup {Nothing},
                                 at : {"sent", "answered", "returned"}]]
      BY <1>1, <1>2, <1>3 DEF TypeOK
    <2>2. "nil" \in Errors
      BY DEF Errors
    <2>3. result' \in [Callers -> [err : Errors, value : BOOLEAN]]
      BY <1>1, <2>2 DEF TypeOK, NoResult
    <2>4. seen' \in [Callers -> SUBSET States]
      BY <1>1 DEF TypeOK
    <2>5. QED
      BY <1>1, <2>1, <2>3, <2>4 DEF TypeOK
  <1>6. SubjectsInv'
    <2>1. SubjectOK(c)'
      BY <1>3, <1>4 DEF SubjectOK, Open
    <2>2. \A d \in Callers \ {c} : SubjectOK(d)'
      BY <1>1, <1>4 DEF SubjectsInv, SubjectOK, Open, Answer
    <2>3. QED
      BY <1>1, <2>1, <2>2 DEF SubjectsInv
  <1>7. KindsInv'
    BY <1>1 DEF KindsInv
  <1>8. SeenInv'
    BY <1>1, <1>4 DEF SeenInv, SeenOK, Open
  <1>9. AnswerInv' /\ AnswersAreTrue'
    <2>1. AnswerOK(c)'
      BY <1>3, <1>4 DEF AnswerOK
    <2>2. ResultOK(c)'
      <3>1. Skipped(op)' = Skipped(op)
        BY <1>1 DEF Skipped
      <3>2. QED
        BY <1>3, <1>4, <3>1 DEF ResultOK
    <2>3. QED
      BY <1>1, <1>4, <2>1, <2>2, CallsKeep
  <1>10. RemovalInv'
    <2>1. \A d \in Callers, y \in Things : Claims(d, y)' => Claims(d, y)
      BY <1>1, <1>3, <1>4 DEF Claims, Answer
    <2>2. QED
      BY <1>1, <2>1, RemovalsKeep
  <1>11. QED
    BY <1>5, <1>6, <1>7, <1>8, <1>9, <1>10

(* A call returns what it was going to return, or an error. *)
LEMMA ReturnKeeps ==
    ASSUME Inv, NEW c \in Callers, NEW r \in [err : Errors, value : BOOLEAN], Return(c, r), Open(c),
           r.err # "nil" \/ (call[c].at = "answered" /\ r = Answer(c)),
           debug' = debug, state' = state,
           \A q \in late' \ late : call[c].at = "sent" /\ q = [op |-> call[c].op, thing |-> call[c].thing]
    PROVE  Inv'
  <1> USE DEF Inv
  <1>1. /\ call' = [call EXCEPT ![c].at = "returned"]
        /\ result' = [result EXCEPT ![c] = r]
        /\ answer' = [answer EXCEPT ![c] = NoAnswer]
        /\ seen' = [seen EXCEPT ![c] = IF r.err = "nil" THEN @ ELSE {}]
    BY DEF Return
  <1>2. /\ call'[c] = [op |-> call[c].op, thing |-> call[c].thing, at |-> "returned"]
        /\ result'[c] = r
        /\ r.err = "nil" => seen'[c] = seen[c]
        /\ \A d \in Callers \ {c} : /\ call'[d] = call[d] /\ answer'[d] = answer[d]
                                    /\ result'[d] = result[d] /\ seen'[d] = seen[d]
    BY <1>1 DEF TypeOK
  <1>3. call[c].op \in Ops /\ call[c].thing \in Things \cup {Nothing}
    BY DEF SubjectsInv, SubjectOK, TypeOK
  <1>4. \A q \in late' \ late : q.op \in Ops /\ q.thing \in Subjects(q.op) /\ q \in [op : Ops, thing : Things \cup {Nothing}]
    BY <1>3 DEF SubjectsInv, SubjectOK
  <1>5. ASSUME r = [err |-> "nil", value |-> TRUE], Removes(call[c].op)
        PROVE  call[c].thing \in Things /\ Claims(c, call[c].thing)
    <2>1. call[c].at = "answered" /\ Answer(c) = [err |-> "nil", value |-> TRUE]
      BY <1>5
    <2>2. call[c].thing \in Things
      BY <2>1 DEF SubjectsInv, SubjectOK
    <2>3. QED
      BY <1>5, <2>1, <2>2 DEF Claims
  <1>6. TypeOK'
    <2>1. call' \in [Callers -> [op : Ops \cup {"none"}, thing : Things \cup {Nothing},
                                 at : {"sent", "answered", "returned"}]]
      BY <1>1 DEF TypeOK
    <2>2. NoAnswer \in [status : Nat, json : BOOLEAN, was : States]
      BY DEF NoAnswer, States
    <2>3. answer' \in [Callers -> [status : Nat, json : BOOLEAN, was : States]]
      BY <1>1, <2>2 DEF TypeOK
    <2>4. seen' \in [Callers -> SUBSET States]
      BY <1>1 DEF TypeOK
    <2>5. removals' \in [Things -> Nat]
      <3>1. removals' = removals \/ removals' = [removals EXCEPT ![call[c].thing] = @ + 1]
        BY DEF Return
      <3>2. QED
        BY <3>1 DEF TypeOK
    <2>6. result' \in [Callers -> [err : Errors, value : BOOLEAN]]
      BY <1>1 DEF TypeOK
    <2>7. late' \subseteq [op : Ops, thing : Things \cup {Nothing}]
      BY <1>4 DEF TypeOK
    <2>8. QED
      BY <2>1, <2>3, <2>4, <2>5, <2>6, <2>7 DEF TypeOK
  <1>7. SubjectsInv'
    <2>1. SubjectOK(c)'
      BY <1>2 DEF SubjectOK, Open
    <2>2. \A d \in Callers \ {c} : SubjectOK(d)'
      BY <1>2 DEF SubjectsInv, SubjectOK, Open, Answer
    <2>3. QED
      BY <1>4, <2>1, <2>2 DEF SubjectsInv
  <1>8. KindsInv' /\ SeenInv'
    BY <1>2 DEF KindsInv, SeenInv, SeenOK, Open
  <1>9. AnswerInv' /\ AnswersAreTrue'
    <2>1. AnswerOK(c)'
      BY <1>2 DEF AnswerOK
    <2>2. ResultOK(c)'
      BY <1>2 DEF ResultOK, AnswerInv, AnswerOK
    <2>3. QED
      BY <1>2, <2>1, <2>2, CallsKeep
  <1>10. RemovalInv'
    <2>1. ASSUME NEW d \in Callers, NEW y \in Things, Claims(d, y)'
          PROVE  d # c /\ Claims(d, y)
      BY <1>2, <2>1 DEF Claims, Answer
    <2>2. CASE removals' = removals
      BY <2>1, <2>2, RemovalsKeep
    <2>3. CASE removals' # removals
      <3>1. /\ Removes(call[c].op) /\ r = [err |-> "nil", value |-> TRUE]
            /\ removals' = [removals EXCEPT ![call[c].thing] = @ + 1]
        BY <2>3 DEF Return
      <3> DEFINE x == call[c].thing
      <3>2. x \in Things /\ Claims(c, x)
        BY <1>5, <3>1
      <3>3. /\ removals[x] = 0 /\ state[x] = "gone"
            /\ \A d \in Callers \ {c} : ~Claims(d, x)
        BY <3>2 DEF RemovalInv
      <3>4. removals'[x] = 1 /\ \A y \in Things \ {x} : removals'[y] = removals[y]
        BY <3>1, <3>2, <3>3 DEF TypeOK
      <3>5. QED
        BY <2>1, <3>2, <3>3, <3>4 DEF RemovalInv
    <2>4. QED
      BY <2>2, <2>3
  <1>11. QED
    BY <1>6, <1>7, <1>8, <1>9, <1>10

(* The invariant holds before the first call. *)
LEMMA InvInit == Init => Inv
  <1> SUFFICES ASSUME Init PROVE Inv
    OBVIOUS
  <1>1. /\ \A c \in Callers : call[c] = [op |-> "none", thing |-> Nothing, at |-> "returned"]
        /\ late = {} /\ \A x \in Things : state[x] = "none" /\ removals[x] = 0
    BY DEF Init
  <1>2. TypeOK
    <2>1. NoAnswer \in [status : Nat, json : BOOLEAN, was : States]
      BY DEF NoAnswer, States
    <2>2. NoResult \in [err : Errors, value : BOOLEAN]
      BY DEF NoResult, Errors
    <2>3. "none" \in States
      BY DEF States
    <2>4. QED
      BY <2>1, <2>2, <2>3 DEF Init, TypeOK
  <1>3. SubjectsInv /\ SeenInv /\ AnswerInv
    BY <1>1 DEF SubjectsInv, SubjectOK, SeenInv, SeenOK, AnswerInv, AnswerOK, Open
  <1>4. KindsInv /\ RemovalInv
    BY <1>1 DEF KindsInv, Things, RemovalInv, Claims
  <1>5. AnswersAreTrue
    BY <1>1 DEF AnswersAreTrue
  <1>6. QED
    BY <1>2, <1>3, <1>4, <1>5 DEF Inv

(* A caller's step: it begins a call, reads its answer, loses it, or gives up. *)
LEMMA CallerKeeps == ASSUME Inv, NEW c \in Callers, CallerStep(c) PROVE Inv'
  <1> USE DEF Inv
  <1>1. CASE Call(c)
    <2>1. CASE \E op \in Makes : Begin(c, op, Nothing)
      <3>1. PICK op \in Makes : Begin(c, op, Nothing)
        BY <2>1
      <3>2. op \in Ops /\ Nothing \in Subjects(op) /\ Nothing \notin Things
        BY SandboxesOK, SubjectsOf DEF Ops, Things
      <3>3. QED
        BY <3>1, <3>2, BeginKeeps
    <2>2. CASE \E op \in BoxOps, x \in Boxes : state[x] # "none" /\ Begin(c, op, x)
      <3>1. PICK op \in BoxOps, x \in Boxes : state[x] # "none" /\ Begin(c, op, x)
        BY <2>2
      <3>2. op \in Ops /\ x \in Subjects(op)
        BY SubjectsOf DEF Ops
      <3>3. QED
        BY <3>1, <3>2, BeginKeeps
    <2>3. CASE \E op \in SnapOps, x \in Snapshots : state[x] # "none" /\ Begin(c, op, x)
      <3>1. PICK op \in SnapOps, x \in Snapshots : state[x] # "none" /\ Begin(c, op, x)
        BY <2>3
      <3>2. op \in Ops /\ x \in Subjects(op)
        BY SubjectsOf DEF Ops
      <3>3. QED
        BY <3>1, <3>2, BeginKeeps
    <2>4. QED
      BY <1>1, <2>1, <2>2, <2>3 DEF Call
  <1>2. CASE Keep(c)
    <2>1. PICK x \in Boxes : state[x] # "none" /\ Begin(c, "Sandbox.Kill", x)
      BY <1>2 DEF Keep
    <2>2. "Sandbox.Kill" \in Ops /\ x \in Subjects("Sandbox.Kill")
      BY SubjectsOf DEF Ops, BoxOps
    <2>3. QED
      BY <2>1, <2>2, BeginKeeps
  <1>3. ASSUME Open(c) PROVE call[c].op \in Ops /\ Answer(c) \in [err : Errors, value : BOOLEAN]
    <2>1. call[c].op \in Ops
      BY <1>3 DEF SubjectsInv, SubjectOK
    <2>2. QED
      BY <2>1, ResultType DEF Answer, TypeOK
  <1>4. CASE ReadAnswer(c)
    <2>1. call[c].at = "answered" /\ Return(c, Answer(c)) /\ UNCHANGED <<debug, state, late>>
      BY <1>4 DEF ReadAnswer, Answer
    <2>2. QED
      BY <1>3, <2>1, ReturnKeeps DEF Open
  <1>5. CASE LoseAnswer(c)
    <2>1. call[c].at = "answered" /\ Return(c, NetworkFailed) /\ UNCHANGED <<debug, state, late>>
      BY <1>5 DEF LoseAnswer
    <2>2. NetworkFailed \in [err : Errors, value : BOOLEAN] /\ NetworkFailed.err # "nil"
      BY DEF NetworkFailed, Errors
    <2>3. QED
      BY <2>1, <2>2, ReturnKeeps DEF Open
  <1>6. CASE GiveUp(c)
    <2>1. /\ call[c].at = "sent" /\ Return(c, TimedOut) /\ UNCHANGED <<debug, state>>
          /\ late' \subseteq late \cup {[op |-> call[c].op, thing |-> call[c].thing]}
      BY <1>6 DEF GiveUp
    <2>2. TimedOut \in [err : Errors, value : BOOLEAN] /\ TimedOut.err # "nil"
      BY DEF TimedOut, Errors
    <2>3. QED
      BY <2>1, <2>2, ReturnKeeps DEF Open
  <1>7. QED
    BY <1>1, <1>2, <1>4, <1>5, <1>6 DEF CallerStep

(* Every step keeps the invariant. *)
LEMMA InvNext == Inv /\ [Next]_vars => Inv'
  <1> SUFFICES ASSUME Inv, [Next]_vars PROVE Inv'
    OBVIOUS
  <1>1. CASE UNCHANGED vars
    BY <1>1 DEF Inv, vars, calls, TypeOK, SubjectsInv, SubjectOK, KindsInv, SeenInv, SeenOK, AnswerInv, AnswerOK,
                AnswersAreTrue, Skipped, RemovalInv, Claims, Answer, Open
  <1>2. CASE ServerStep
    BY <1>2, ServeKeeps, MakeKeeps, RefuseKeeps, ExpireKeeps, ServeLateKeeps DEF ServerStep
  <1>3. CASE \E c \in Callers : CallerStep(c)
    BY <1>3, CallerKeeps
  <1>4. QED
    BY <1>1, <1>2, <1>3 DEF Next

(* The inductive invariant holds in every state. *)
LEMMA Invariance == Spec => []Inv
  BY InvInit, InvNext, PTL DEF Spec

(* Every variable keeps to its values, whatever answers come or are lost. *)
THEOREM TypeCorrect == Spec => []TypeOK
  <1>1. Inv => TypeOK
    BY DEF Inv
  <1>2. QED
    BY Invariance, <1>1, PTL

(* What a lifecycle call returns without an error is true of a state the sandbox or snapshot  *)
(* had while the call ran (Client.Kill, Sandbox.Pause, IsRunning and the others).             *)
THEOREM TrueAnswers == Spec => []AnswersAreTrue
  <1>1. Inv => AnswersAreTrue
    BY DEF Inv
  <1>2. QED
    BY Invariance, <1>1, PTL

(* Client.Kill and Client.DeleteSnapshot return true once at most for one thing. *)
THEOREM SingleRemoval == Spec => []RemovedOnce
  <1>1. Inv => RemovedOnce
    BY DEF Inv, RemovedOnce, RemovalInv
  <1>2. QED
    BY Invariance, <1>1, PTL
================================================================================
