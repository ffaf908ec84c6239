------------------------------- MODULE Sandboxes -------------------------------
(***************************************************************************)
(* The lifecycle calls of client.go, sandbox.go and snapshots.go: each is  *)
(* one request to the API, whose answer it turns into a result.  Several   *)
(* goroutines call at once, on the same sandboxes; the server ends or      *)
(* pauses sandboxes on its own; requests and answers are lost, and a       *)
(* request that its caller has given up may still be carried out.          *)
(***************************************************************************)
EXTENDS Naturals, FiniteSets

CONSTANTS Callers,     \* the goroutines that call
          Keepers,     \* those of them that only call Sandbox.Kill, on one sandbox, until it returns nil
          Boxes,       \* the sandboxes there can be
          Snapshots,   \* the snapshots there can be
          Refusals,    \* the statuses with which the server refuses any request
          MaxLate      \* bound: requests that are late at one time

Nothing == "nothing"     \* what a call that makes a sandbox or snapshot is about, until it is made

ASSUME SandboxesOK == /\ Keepers \subseteq Callers
                      /\ Boxes \cap Snapshots = {}
                      /\ Nothing \notin Boxes \cup Snapshots
                      /\ Refusals \subseteq 400..599 \ {404, 409}
                      /\ MaxLate \in Nat

Things == Boxes \cup Snapshots
States == {"none", "running", "paused", "kept", "gone"}
Alive  == {"running", "paused", "kept"}

Makes   == {"Create", "CreateSnapshot"}
BoxOps  == {"Connect", "Client.Kill", "Sandbox.Kill", "Pause", "IsRunning", "SetTimeout"}
SnapOps == {"DeleteSnapshot"}
Parsed  == Makes \cup {"Connect", "IsRunning"}   \* the calls that read the body of a 2xx
Ops     == Makes \cup BoxOps \cup SnapOps

VARIABLES
    debug,     \* Config.Debug
    state,     \* the server: the state of each sandbox and snapshot
    call,      \* the call of each goroutine: its operation, the thing it is about, and how far it is
    answer,    \* the server's answer to it: status, whether its body is JSON, the state it tells
    result,    \* what the call returned: an error or none, and the boolean (TRUE where there is none)
    late,      \* the requests that were given up and are still on their way
    seen,      \* history: the states the thing had since the call began
    removals   \* history: how many calls returned true for having removed the thing

calls == <<call, answer, result>>
vars  == <<debug, state, calls, late, seen, removals>>

NoAnswer == [status |-> 0, json |-> FALSE, was |-> "none"]
NoResult == [err |-> "nil", value |-> FALSE]

-------------------------------------------------------------------------------
(* error_mapping.go *)

(* mapHTTPErr: the error of an answer, by its status; a 404 is about a sandbox or not. *)
MapHTTPErr(status, about) ==
    CASE status \in 200..299        -> "nil"
      [] status \in {401, 403}      -> "AuthenticationError"
      [] status = 404 /\ about      -> "SandboxNotFoundError"
      [] status = 404 /\ ~about     -> "NotFoundError"
      [] status = 429               -> "RateLimitError"
      [] status = 507               -> "NotEnoughSpaceError"
      [] status \in {408, 504}      -> "TimeoutError"
      [] OTHER                      -> "SandboxError"

(* mapHTTPOrCtx: a call fails without an answer, by its context or by the network. *)
TimedOut == [err |-> "TimeoutError", value |-> FALSE]
NetworkFailed == [err |-> "SandboxError", value |-> FALSE]

-------------------------------------------------------------------------------
(* The results of the calls. *)

(* Client.Create, Client.Connect, Sandbox.CreateSnapshot: the body must be there. *)
MadeResult(a, about) ==
    [err   |-> IF MapHTTPErr(a.status, about) = "nil" /\ ~a.json THEN "SandboxError"
               ELSE MapHTTPErr(a.status, about),
     value |-> TRUE]

\* Mutant: a sandbox that is gone counts as killed.
ClientKillIdempotent(a) ==
    [err   |-> IF a.status = 404 THEN "nil" ELSE MapHTTPErr(a.status, TRUE),
     value |-> a.status = 404 \/ MapHTTPErr(a.status, TRUE) = "nil"]

(* Client.Kill and, with another error for the rest, Client.DeleteSnapshot: 404 is false. *)
ClientKillResult(a) ==
    [err   |-> IF a.status = 404 THEN "nil" ELSE MapHTTPErr(a.status, TRUE),
     value |-> MapHTTPErr(a.status, TRUE) = "nil"]

DeleteSnapshotResult(a) ==
    [err   |-> IF a.status = 404 THEN "nil" ELSE MapHTTPErr(a.status, FALSE),
     value |-> MapHTTPErr(a.status, FALSE) = "nil"]

\* Mutant: Sandbox.Kill has no case of its own for 404.
SandboxKillStrict(a) == [err |-> MapHTTPErr(a.status, TRUE), value |-> TRUE]

(* Sandbox.Kill: a sandbox that is gone is no error. *)
SandboxKillResult(a) ==
    [err |-> IF a.status = 404 THEN "nil" ELSE MapHTTPErr(a.status, TRUE), value |-> TRUE]

\* Mutant: any refusal means that the sandbox is paused already.
PauseOrRefused(a) ==
    [err   |-> IF a.status \in {404, 409} THEN "nil" ELSE MapHTTPErr(a.status, TRUE),
     value |-> a.status \notin {404, 409}]

(* Sandbox.Pause: 409 is false; everything else is true, errors included. *)
PauseResult(a) ==
    [err   |-> IF a.status = 409 THEN "nil" ELSE MapHTTPErr(a.status, TRUE),
     value |-> a.status # 409]

(* Sandbox.GetInfo, and Sandbox.IsRunning, for which a sandbox not found is not running. *)
GetInfoErr(a) == IF MapHTTPErr(a.status, TRUE) = "nil" /\ ~a.json THEN "SandboxError"
                 ELSE MapHTTPErr(a.status, TRUE)

IsRunningResult(a) ==
    [err   |-> IF GetInfoErr(a) = "SandboxNotFoundError" THEN "nil" ELSE GetInfoErr(a),
     value |-> GetInfoErr(a) = "nil" /\ a.was = "running"]

SetTimeoutResult(a) == [err |-> MapHTTPErr(a.status, TRUE), value |-> TRUE]

Result(op, a) == CASE op = "Create"         -> MadeResult(a, FALSE)
                   [] op \in {"Connect", "CreateSnapshot"} -> MadeResult(a, TRUE)
                   [] op = "Client.Kill"    -> ClientKillResult(a)
                   [] op = "DeleteSnapshot" -> DeleteSnapshotResult(a)
                   [] op = "Sandbox.Kill"   -> SandboxKillResult(a)
                   [] op = "Pause"          -> PauseResult(a)
                   [] op = "IsRunning"      -> IsRunningResult(a)
                   [] op = "SetTimeout"     -> SetTimeoutResult(a)

-------------------------------------------------------------------------------
(* The server.                                                             *)

(* What a request does to the thing it is about, by the state it finds. *)
StateAfter(op, s) ==
    CASE op = "Connect" /\ s = "paused"                                             -> "running"
      [] op = "Pause" /\ s = "running"                                              -> "paused"
      [] op \in {"Client.Kill", "Sandbox.Kill", "DeleteSnapshot"} /\ s \in Alive    -> "gone"
      [] OTHER                                                                       -> s

StatusOf(op, s) ==
    CASE op \in Makes                              -> 201
      [] op = "Pause" /\ s = "paused"              -> 409
      [] op = "SetTimeout" /\ s = "paused"         -> 404
      [] s \notin Alive                            -> 404
      [] OTHER                                     -> 200

(* The state of one thing changes: every call about it goes through one more state. *)
Becomes(x, s) ==
    /\ state' = [state EXCEPT ![x] = s]
    /\ seen' = [c \in Callers |-> IF call[c].thing = x /\ call[c].at # "returned" THEN seen[c] \cup {s} ELSE seen[c]]

Carry(op, x) == IF StateAfter(op, state[x]) = state[x] THEN UNCHANGED <<state, seen>>
                ELSE Becomes(x, StateAfter(op, state[x]))

(* A request about a thing that is there, or was: carried out and answered. *)
Serve(c) ==
    /\ call[c].at = "sent" /\ call[c].op \notin Makes
    /\ LET x == call[c].thing
           s == state[x]
       IN  /\ Carry(call[c].op, x)
           /\ \E json \in IF call[c].op \in Parsed THEN BOOLEAN ELSE {FALSE} :
                 answer' = [answer EXCEPT ![c] = [status |-> StatusOf(call[c].op, s), json |-> json, was |-> s]]
    /\ call' = [call EXCEPT ![c].at = "answered"]
    /\ UNCHANGED <<debug, result, late, removals>>

(* A request that makes something: a new sandbox runs, a snapshot is kept. *)
Made(op) == IF op = "Create" THEN "running" ELSE "kept"
Fresh(op) == {x \in IF op = "Create" THEN Boxes ELSE Snapshots : state[x] = "none"}

Make(c) ==
    /\ call[c].at = "sent" /\ call[c].op \in Makes
    /\ \E x \in Fresh(call[c].op), json \in BOOLEAN :
          /\ state' = [state EXCEPT ![x] = Made(call[c].op)]
          /\ seen' = [seen EXCEPT ![c] = {Made(call[c].op)}]
          /\ answer' = [answer EXCEPT ![c] = [status |-> 201, json |-> json, was |-> Made(call[c].op)]]
          /\ call' = [call EXCEPT ![c].thing = x, ![c].at = "answered"]
    /\ UNCHANGED <<debug, result, late, removals>>

(* The server refuses: the credentials, the rate, its own failure, no sandbox to make a snapshot of. *)
Refuse(c) ==
    /\ call[c].at = "sent"
    /\ \E status \in Refusals \cup (IF call[c].op = "CreateSnapshot" THEN {404} ELSE {}) :
          answer' = [answer EXCEPT ![c] = [status |-> status, json |-> FALSE, was |-> "none"]]
    /\ call' = [call EXCEPT ![c].at = "answered"]
    /\ UNCHANGED <<debug, state, result, late, seen, removals>>

(* The lifetime of a sandbox ends: it is killed, or paused if it was created so. *)
Expire(x) == /\ state[x] = "running"
             /\ \E s \in {"gone", "paused"} : Becomes(x, s)
             /\ UNCHANGED <<debug, calls, late, removals>>

(* A request whose caller has gone is carried out all the same, or never. *)
ServeLate(r) == /\ r \in late
                /\ late' = late \ {r}
                /\ IF r.op \in Makes
                   THEN \E x \in Fresh(r.op) : state' = [state EXCEPT ![x] = Made(r.op)] /\ UNCHANGED seen
                   ELSE Carry(r.op, r.thing)
                /\ UNCHANGED <<debug, calls, removals>>

-------------------------------------------------------------------------------
(* The callers.                                                            *)

Init == /\ debug \in BOOLEAN
        /\ state = [x \in Things |-> "none"]
        /\ call = [c \in Callers |-> [op |-> "none", thing |-> Nothing, at |-> "returned"]]
        /\ answer = [c \in Callers |-> NoAnswer]
        /\ result = [c \in Callers |-> NoResult]
        /\ late = {}
        /\ seen = [c \in Callers |-> {}]
        /\ removals = [x \in Things |-> 0]

(* In Debug mode Kill, SetTimeout and DeleteSnapshot return at once. *)
Skipped(op) == debug /\ op \in {"Client.Kill", "Sandbox.Kill", "SetTimeout", "DeleteSnapshot"}

Begin(c, op, x) ==
    /\ call[c].at = "returned"
    /\ call' = [call EXCEPT ![c] = [op |-> op, thing |-> x, at |-> IF Skipped(op) THEN "returned" ELSE "sent"]]
    /\ result' = [result EXCEPT ![c] = IF Skipped(op) THEN [err |-> "nil", value |-> TRUE] ELSE NoResult]
    /\ seen' = [seen EXCEPT ![c] = IF x \in Things THEN {state[x]} ELSE {}]
    /\ UNCHANGED <<debug, state, answer, late, removals>>

(* A program knows what was made from its handles or from a listing. *)
Call(c) == \/ \E op \in Makes : Begin(c, op, Nothing)
           \/ \E op \in BoxOps, x \in Boxes : state[x] # "none" /\ Begin(c, op, x)
           \/ \E op \in SnapOps, x \in Snapshots : state[x] # "none" /\ Begin(c, op, x)

(* A keeper begins with a sandbox, and calls Sandbox.Kill again after every error. *)
Keep(c) == \E x \in Boxes :
              /\ state[x] # "none"
              /\ \/ call[c].op = "none"
                 \/ call[c].thing = x /\ result[c].err # "nil"
              /\ Begin(c, "Sandbox.Kill", x)

Removes(op) == op \in {"Client.Kill", "DeleteSnapshot"}

Return(c, r) ==
    /\ call' = [call EXCEPT ![c].at = "returned"]
    /\ result' = [result EXCEPT ![c] = r]
    /\ answer' = [answer EXCEPT ![c] = NoAnswer]
    /\ seen' = [seen EXCEPT ![c] = IF r.err = "nil" THEN @ ELSE {}]
    /\ removals' = IF Removes(call[c].op) /\ r = [err |-> "nil", value |-> TRUE]
                   THEN [removals EXCEPT ![call[c].thing] = @ + 1] ELSE removals

ReadAnswer(c) == /\ call[c].at = "answered"
                 /\ Return(c, Result(call[c].op, answer[c]))
                 /\ UNCHANGED <<debug, state, late>>

LoseAnswer(c) == /\ call[c].at = "answered"
                 /\ Return(c, NetworkFailed)
                 /\ UNCHANGED <<debug, state, late>>

(* The context of the call or the timeout of the HTTP client ends first. *)
GiveUp(c) == /\ call[c].at = "sent"
             /\ Return(c, TimedOut)
             /\ \/ UNCHANGED late
                \/ /\ Cardinality(late) < MaxLate
                   /\ late' = late \cup {[op |-> call[c].op, thing |-> call[c].thing]}
             /\ UNCHANGED <<debug, state>>

-------------------------------------------------------------------------------
CallerStep(c) == \/ c \notin Keepers /\ Call(c)
                 \/ c \in Keepers /\ Keep(c)
                 \/ ReadAnswer(c) \/ LoseAnswer(c) \/ GiveUp(c)

ServerStep == \/ \E c \in Callers : Serve(c) \/ Make(c) \/ Refuse(c)
              \/ \E x \in Boxes : Expire(x)
              \/ \E r \in late : ServeLate(r)

Next == ServerStep \/ \E c \in Callers : CallerStep(c)

Spec == Init /\ [][Next]_vars

(***************************************************************************)
(* A keeper goes on, and the network is not for ever bad: of a call made   *)
(* again and again, one is served and its answer read.                     *)
(***************************************************************************)
FairSpec == /\ Spec
            /\ \A c \in Keepers : /\ WF_vars(Keep(c))
                                  /\ WF_vars(ReadAnswer(c) \/ LoseAnswer(c))
                                  /\ SF_vars(Serve(c))
                                  /\ SF_vars(ReadAnswer(c) /\ answer[c].status \notin Refusals)

-------------------------------------------------------------------------------
(* Properties                                                              *)

Errors == {"nil", "AuthenticationError", "SandboxNotFoundError", "NotFoundError", "RateLimitError",
           "NotEnoughSpaceError", "TimeoutError", "SandboxError"}

(* Every variable keeps to its values. *)
TypeOK ==
    /\ debug \in BOOLEAN
    /\ state \in [Things -> States]
    /\ call \in [Callers -> [op : Ops \cup {"none"}, thing : Things \cup {Nothing}, at : {"sent", "answered", "returned"}]]
    /\ answer \in [Callers -> [status : Nat, json : BOOLEAN, was : States]]
    /\ result \in [Callers -> [err : Errors, value : BOOLEAN]]
    /\ late \subseteq [op : Ops, thing : Things \cup {Nothing}]
    /\ seen \in [Callers -> SUBSET States]
    /\ removals \in [Things -> Nat]

(* The states that explain what a call returned without an error. *)
Explained(op, value, s) ==
    CASE op \in {"Create", "Connect"}               -> "running" \in s
      [] op = "CreateSnapshot"                      -> "kept" \in s
      [] op \in {"Client.Kill", "DeleteSnapshot"}   -> "gone" \in s /\ (value => s \cap Alive # {})
      [] op = "Sandbox.Kill"                        -> "gone" \in s
      [] op = "Pause"                               -> "paused" \in s
      [] op = "IsRunning"                           -> IF value THEN "running" \in s ELSE s # {"running"}
      [] OTHER                                      -> s \cap Alive # {}

(* What a call returns without an error is true: the sandbox or snapshot was in a state that  *)
(* explains it between the beginning and the end of the call, whatever other callers, late    *)
(* requests and the server did meanwhile.  (Kill and SetTimeout ask nobody in Debug mode.)    *)
AnswersAreTrue ==
    \A c \in Callers :
        call[c].at = "returned" /\ call[c].op # "none" /\ result[c].err = "nil" /\ ~Skipped(call[c].op)
            => Explained(call[c].op, result[c].value, seen[c])

(* Of all the calls that remove one sandbox or snapshot, retried or made at once, one at most *)
(* returns true: a program may count what it has removed.                                     *)
RemovedOnce == ~debug => \A x \in Things : removals[x] <= 1

(* A program that calls Sandbox.Kill until it returns nil comes to an end, even when the call *)
(* that killed the sandbox was the one whose answer it lost.                                  *)
RetriedKillEnds ==
    \A c \in Keepers : call[c].op = "Sandbox.Kill" ~> (call[c].at = "returned" /\ result[c].err = "nil")
===============================================================================
