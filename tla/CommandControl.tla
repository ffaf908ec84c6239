---------------------------- MODULE CommandControl ----------------------------
(***************************************************************************)
(* Control of a running command through its CommandHandle: Kill and        *)
(* SendStdin (command_handle.go), the pump that Commands.Start launches    *)
(* for RunOptions.Stdin (commands_impl.go), and the process in envd they   *)
(* act on.  It extends CommandStream: h.pid is written by the goroutine of *)
(* startStream when the Start event comes, and read here without the mutex *)
(* that guards the write.  The Go memory model lets such a read return the *)
(* new value or the one before it, until something the reader does orders  *)
(* the write before it; from then on it returns the new value.             *)
(***************************************************************************)
EXTENDS CommandStream, Functions

CONSTANTS Killers,   \* the calls of Kill
          Pump,      \* the goroutine of pumpStdin
          Pid,       \* the process ID envd gives to the process
          MaxStdin   \* bound: chunks read from RunOptions.Stdin

NoPid  == 0
Actors == Killers \cup {Pump}

ASSUME ControlOK == /\ Pid \in Nat \ {NoPid}
                    /\ Pump \notin Killers
                    /\ MaxStdin \in Nat

VARIABLES
    pid0,       \* h.pid when the handle was made: set by Connect, 0 from Start
    pid,        \* h.pid
    aware,      \* the actors after whose steps the write of h.pid is visible to them
    proc,       \* the process in envd: "spawning", "running", "exited"
    signalled,  \* envd has sent SIGKILL to it
    kill,       \* kill[k]: where call k is in Kill
    target,     \* target[a]: the PID in the last request of a
    killed,     \* killed[k]: the boolean that call k returned
    pumped,     \* the chunks the pump has read from its reader
    sending,    \* the pump has a SendInput request on its way
    stdin,      \* the chunks written to the process, in order
    givenUp,    \* the chunks whose SendStdin failed with the request, or its answer, under way
    lateInput,  \* those of them that envd may still write to the process
    lateKill    \* the calls of Kill given up whose signal envd may still send

envd    == <<proc, signalled, stdin>>
late    == <<givenUp, lateInput, lateKill>>
control == <<pid0, pid, aware, envd, kill, target, killed, pumped, sending, late>>
cvars   == <<vars, control>>

\* Mutant: PID() does not take the mutex, so it orders nothing.
UnorderedPid(a) == {pid0, pid}

(* What a read of h.pid without the mutex may return. *)
RacyPid(a) == IF a \in aware THEN {pid} ELSE {pid0, pid}

\* A read that returned the written value is not followed by one that does not.
Learn(a, p) == aware' = IF p # NoPid THEN aware \cup {a} ELSE aware

-------------------------------------------------------------------------------
(* A handle made by Start, whose process may not run yet, or by Connect. *)
CInit == /\ Init
         /\ \/ pid0 = NoPid /\ proc = "spawning"
            \/ pid0 = Pid   /\ proc = "running"
         /\ pid = pid0
         /\ aware = {}
         /\ signalled = FALSE
         /\ kill = [k \in Killers |-> "idle"]
         /\ target = [a \in Actors |-> NoPid]
         /\ killed = [k \in Killers |-> FALSE]
         /\ pumped = 0
         /\ sending = FALSE
         /\ stdin = <<>>
         /\ givenUp = {} /\ lateInput = {} /\ lateKill = {}

-------------------------------------------------------------------------------
(* The stream: the steps of CommandStream.  Start carries the PID; End     *)
(* follows the exit of the process.                                        *)

StartEvent == /\ ReceiveStart
              /\ proc # "spawning"
              /\ pid' = Pid
              /\ UNCHANGED <<pid0, aware, envd, kill, target, killed, pumped, sending, late>>

EndEvent == /\ proc = "exited"
            /\ \E k \in Codes : ReceiveEnd(k)
            /\ UNCHANGED control

OtherStreamStep ==
    /\ \/ \E s \in Streams : ReceiveData(s) \/ ReadChunk(s) \/ ReadClose(s)
       \/ ReceiveEOF \/ ReceiveErr
       \/ Work
       \/ \E e \in StreamErrs : LoseConnection(e)
       \/ \E c \in Callers : StartWait(c) \/ ContextEnds(c) \/ WaitStep(c)
    /\ UNCHANGED control

-------------------------------------------------------------------------------
(* envd and the process                                                    *)

Spawn == /\ proc = "spawning"
         /\ proc' = "running"
         /\ UNCHANGED <<vars, pid0, pid, aware, signalled, stdin, kill, target, killed, pumped, sending, late>>

(* The process ends, by itself or by the signal. *)
Exit == /\ proc = "running"
        /\ proc' = "exited"
        /\ UNCHANGED <<vars, pid0, pid, aware, signalled, stdin, kill, target, killed, pumped, sending, late>>

(* A request that selects the process by a PID finds it while it runs. *)
Finds(a) == target[a] = Pid /\ proc = "running"

-------------------------------------------------------------------------------
(* PID() takes the mutex: whoever gets the PID from it is ordered after the write.     *)
(* So is whoever returned from Wait or received from a channel of the handle.              *)
CallPID(k) == /\ pid # NoPid /\ kill[k] = "idle" /\ k \notin aware
              /\ aware' = aware \cup {k}
              /\ UNCHANGED <<vars, pid0, pid, envd, kill, target, killed, pumped, sending, late>>

(* Kill: the request is made from h.pid, read without the mutex. *)
Kill(k) == /\ kill[k] = "idle"
           /\ \E p \in RacyPid(k) :
                 /\ target' = [target EXCEPT ![k] = p]
                 /\ Learn(k, p)
           /\ kill' = [kill EXCEPT ![k] = "sent"]
           /\ UNCHANGED <<vars, pid0, pid, envd, killed, pumped, sending, late>>

SendSignal(k) ==
    /\ kill[k] = "sent"
    /\ signalled' = (signalled \/ Finds(k))
    /\ kill' = [kill EXCEPT ![k] = IF Finds(k) THEN "ok" ELSE "notFound"]
    /\ UNCHANGED <<vars, pid0, pid, aware, proc, stdin, target, killed, pumped, sending, late>>

\* Mutant: Kill reports what it tried, not what envd answered.
KillReturnsTrue(k) ==
    /\ kill[k] \in {"ok", "notFound", "lost"}
    /\ kill' = [kill EXCEPT ![k] = "returned"]
    /\ killed' = [killed EXCEPT ![k] = TRUE]
    /\ UNCHANGED <<vars, pid0, pid, aware, envd, target, pumped, sending, late>>

(* Kill returns true exactly when the RPC succeeded. *)
KillReturns(k) ==
    /\ kill[k] \in {"ok", "notFound", "lost"}
    /\ kill' = [kill EXCEPT ![k] = "returned"]
    /\ killed' = [killed EXCEPT ![k] = (kill[k] = "ok")]
    /\ UNCHANGED <<vars, pid0, pid, aware, envd, target, pumped, sending, late>>

(* The request, or envd's answer to it, is lost, or the call is given up at the timeout of *)
(* the HTTP client while the request is under way: the RPC fails.                          *)
LoseKill(k) ==
    /\ kill[k] \in {"sent", "ok", "notFound"}
    /\ kill' = [kill EXCEPT ![k] = "lost"]
    /\ \/ UNCHANGED lateKill
       \/ kill[k] = "sent" /\ target[k] = Pid /\ lateKill' = lateKill \cup {k}
    /\ UNCHANGED <<vars, pid0, pid, aware, envd, target, killed, pumped, sending, givenUp, lateInput>>

(* envd carries out the request of a Kill that was given up. *)
LateSignal(k) ==
    /\ k \in lateKill /\ proc = "running"
    /\ signalled' = TRUE
    /\ lateKill' = lateKill \ {k}
    /\ UNCHANGED <<vars, pid0, pid, aware, proc, stdin, kill, target, killed, pumped, sending, givenUp, lateInput>>

-------------------------------------------------------------------------------
(* pumpStdin reads the next chunk and sends it with SendStdin, which reads *)
(* h.pid without the mutex.  At the end of its reader it returns; nothing  *)
(* closes the standard input of the process.                               *)
PumpChunk ==
    /\ ~sending /\ pumped < MaxStdin
    /\ pumped' = pumped + 1
    /\ sending' = TRUE
    /\ \E p \in RacyPid(Pump) : target' = [target EXCEPT ![Pump] = p] /\ Learn(Pump, p)
    /\ UNCHANGED <<vars, pid0, pid, envd, kill, killed, late>>

\* Mutant: a request that fails is sent again, from the PID known by then.
SendInputRetry ==
    /\ sending
    /\ IF Finds(Pump) THEN stdin' = Append(stdin, pumped) /\ sending' \in BOOLEAN
                      ELSE sending' = FALSE /\ UNCHANGED stdin
    /\ UNCHANGED <<vars, pid0, pid, aware, proc, signalled, kill, target, killed, pumped, late>>

(* envd answers; pumpStdin ignores the error of a request that found no process. *)
SendInput ==
    /\ sending
    /\ sending' = FALSE
    /\ stdin' = IF Finds(Pump) THEN Append(stdin, pumped) ELSE stdin
    /\ UNCHANGED <<vars, pid0, pid, aware, proc, signalled, kill, target, killed, pumped, late>>

(* The call fails, which pumpStdin ignores: the request is lost, or only envd's answer to   *)
(* it, or the HTTP client gives it up while it is under way and envd may carry it out yet.  *)
LoseInput ==
    /\ sending
    /\ sending' = FALSE
    /\ givenUp' = givenUp \cup {pumped}
    /\ \/ UNCHANGED <<stdin, lateInput>>
       \/ Finds(Pump) /\ stdin' = Append(stdin, pumped) /\ UNCHANGED lateInput
       \/ target[Pump] = Pid /\ lateInput' = lateInput \cup {pumped} /\ UNCHANGED stdin
    /\ UNCHANGED <<vars, pid0, pid, aware, proc, signalled, kill, target, killed, pumped, lateKill>>

(* envd carries out a request that was given up, after whatever the pump has sent since. *)
LateInput ==
    /\ proc = "running"
    /\ \E n \in lateInput : stdin' = Append(stdin, n) /\ lateInput' = lateInput \ {n}
    /\ UNCHANGED <<vars, pid0, pid, aware, proc, signalled, kill, target, killed, pumped, sending, givenUp, lateKill>>

-------------------------------------------------------------------------------
CNext == \/ StartEvent \/ EndEvent \/ OtherStreamStep
         \/ Spawn \/ Exit
         \/ \E k \in Killers : CallPID(k) \/ Kill(k) \/ SendSignal(k) \/ KillReturns(k) \/ LoseKill(k)
                                 \/ LateSignal(k)
         \/ PumpChunk \/ SendInput \/ LoseInput \/ LateInput

CSpec == CInit /\ [][CNext]_cvars

(***************************************************************************)
(* The goroutines run, envd ends a process it has signalled, and reports   *)
(* its end.  The connection need not ever fail.                            *)
(***************************************************************************)
CFairSpec == /\ CSpec
             /\ WF_cvars(Spawn)
             /\ WF_cvars(signalled /\ Exit)
             /\ WF_cvars(StartEvent \/ EndEvent)
             /\ WF_cvars(phase = "ended" /\ ReceiveEOF /\ UNCHANGED control)
             /\ WF_cvars((Work \/ ReceiveErr) /\ UNCHANGED control)
             /\ \A c \in Callers : WF_cvars(WaitStep(c) /\ UNCHANGED control)

-------------------------------------------------------------------------------
(* Properties                                                              *)

(* The variables of control keep to their values; envd never signals a process before it runs. *)
CTypeOK ==
    /\ TypeOK
    /\ pid0 \in {NoPid, Pid} /\ pid \in {NoPid, Pid}
    /\ aware \subseteq Actors
    /\ proc \in {"spawning", "running", "exited"}
    /\ signalled \in BOOLEAN
    /\ kill \in [Killers -> {"idle", "sent", "ok", "notFound", "lost", "returned"}]
    /\ target \in [Actors -> {NoPid, Pid}]
    /\ killed \in [Killers -> BOOLEAN]
    /\ pumped \in 0..MaxStdin
    /\ sending \in BOOLEAN
    /\ stdin \in Seq(1..MaxStdin)
    /\ givenUp \subseteq 1..MaxStdin
    /\ lateInput \subseteq 1..MaxStdin
    /\ lateKill \subseteq Killers

(* A Kill by a goroutine that has seen the PID fails to find the process only if it has exited. *)
KnownPidKillHits == \A k \in Killers \cap aware : kill[k] = "notFound" => proc = "exited"

(* The process reads each chunk of the reader at most once.  Only a chunk  *)
(* whose request was given up may come after a later one: pumpStdin sends  *)
(* on whatever the error, so such a request can be overtaken.  Nor may any *)
(* other chunk be missing between two that have come: what is missing is   *)
(* at the start, sent before the PID was known, or at the end, sent after  *)
(* the process exited.                                                     *)
StdinInOrder ==
    \A i, j \in DOMAIN stdin :
        /\ i < j => stdin[i] # stdin[j]
        /\ i < j /\ stdin[j] < stdin[i] => stdin[j] \in givenUp
        /\ (stdin[i] + 1)..(stdin[j] - 1) \subseteq Range(stdin) \cup givenUp

(* A command that Kill reports killed comes to its end in the handle, so that Wait can return. *)
KilledCommandEnds == \A k \in Killers : killed[k] ~> done

(* "pumpStdin streams data from r into the process": with no request given *)
(* up and the process still reading, all that was pumped has arrived.      *)
StdinStreamed == givenUp = {} /\ ~sending /\ proc = "running" => Len(stdin) = pumped
===============================================================================
