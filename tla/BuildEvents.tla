------------------------------ MODULE BuildEvents ------------------------------
(***************************************************************************)
(* What Client.BuildStream promises to whoever reads its channel: the log  *)
(* entries of the build in order, none twice and none skipped, then one    *)
(* terminal event, then the end of the channel.                            *)
(***************************************************************************)
EXTENDS Naturals, Sequences

CONSTANTS Log(_),         \* Log(i) is the event of the i-th entry
          IsTerminal(_)   \* Done, or an Err

VARIABLES
    events,    \* the events sent
    ended      \* the channel is closed

vars == <<events, ended>>

Init == events = <<>> /\ ended = FALSE

Over == events # <<>> /\ IsTerminal(events[Len(events)])

EmitLog == /\ ~Over /\ ~ended
           /\ events' = Append(events, Log(Len(events) + 1))
           /\ UNCHANGED ended

EmitTerminal == /\ ~Over /\ ~ended
                /\ Len(events') = Len(events) + 1
                /\ SubSeq(events', 1, Len(events)) = events
                /\ IsTerminal(events'[Len(events')])
                /\ UNCHANGED ended

(* The channel ends after its terminal event, never before. *)
End == /\ Over /\ ~ended
       /\ ended' = TRUE
       /\ UNCHANGED events

Next == EmitLog \/ EmitTerminal \/ End

Spec == Init /\ [][Next]_vars
===============================================================================
