-------------------------------- MODULE Listing --------------------------------
(***************************************************************************)
(* The paginators of list.go and snapshots.go: a listing asks for one page *)
(* after another, each from the cursor of the page before (the header      *)
(* x-next-token), while sandboxes and snapshots come and go on the server. *)
(* The program takes the pages itself, asks again after an error, keeps    *)
(* the cursor over a restart, or leaves the loop to ListAll.               *)
(*                                                                         *)
(* An item is its place in the order of the server, a cursor the place of  *)
(* the last item it covers; 0 is the empty cursor.                         *)
(***************************************************************************)
EXTENDS Naturals

CONSTANTS MaxId,        \* bound: the places of the items are 1..MaxId
          Chosen,       \* the items that a filter by metadata, or by sandbox, selects
          MaxChanges,   \* bound: items that appear or disappear during the listing
          MaxRestarts   \* bound: restarts of the program

Ids == 1..MaxId
NoToken == 0
Tokens == 0..MaxId

ASSUME ListingOK == MaxId \in Nat /\ Chosen \subseteq Ids /\ MaxChanges \in Nat /\ MaxRestarts \in Nat

VARIABLES
    kind,      \* "sandboxes" (SandboxPaginator) or "snapshots" (SnapshotPaginator)
    filter,    \* the options filter by metadata or by sandbox
    drain,     \* the loop is that of ListAll, which gives up at the first error
    next,      \* p.next
    hasNext,   \* p.hasNext
    request,   \* the page request on its way
    answer,    \* the answer on its way back
    times,     \* times[i]: how often the results have item i
    returned,  \* what ListAll returned: "no" until it does
    saved,     \* the cursor and the results that the program wrote down
    present,   \* the items on the server
    fleeting,  \* history: the items that were absent at some time of the listing
    unread,    \* history: an answer held no JSON where 200 promised it
    changes, restarts

paginator == <<next, hasNext>>
server    == <<present, fleeting, changes>>
choice    == <<kind, filter, drain>>
vars      == <<choice, paginator, request, answer, times, returned, saved, server, unread, restarts>>

NoRequest == [sent |-> FALSE, filter |-> FALSE, after |-> NoToken]
NoAnswer  == [type |-> "none", items |-> {}, token |-> NoToken]
Failure   == [NoAnswer EXCEPT !.type = "error"]
NotJSON(t) == [NoAnswer EXCEPT !.type = "notJSON", !.token = t]

Idle == ~request.sent /\ answer = NoAnswer /\ returned = "no"

Selected(filtered) == IF filtered THEN Chosen ELSE Ids

-------------------------------------------------------------------------------
(* Client.List, Client.ListSnapshots: no request is made yet. *)
Init == /\ kind \in {"sandboxes", "snapshots"}
        /\ filter \in BOOLEAN
        /\ drain \in BOOLEAN
        /\ next = NoToken
        /\ hasNext = TRUE
        /\ request = NoRequest
        /\ answer = NoAnswer
        /\ times = [i \in Ids |-> 0]
        /\ returned = "no"
        /\ saved = [next |-> NoToken, times |-> [i \in Ids |-> 0]]
        /\ present \in SUBSET Ids
        /\ fleeting = Ids \ present
        /\ unread = FALSE
        /\ changes = 0
        /\ restarts = 0

-------------------------------------------------------------------------------
(* NextItems: nothing once the listing is exhausted, else one request, with the cursor. *)

Ask(after) == /\ Idle /\ hasNext
              /\ request' = [sent |-> TRUE, filter |-> filter, after |-> after]
              /\ UNCHANGED <<choice, paginator, answer, times, returned, saved, server, unread, restarts>>

NextSandboxes == kind = "sandboxes" /\ Ask(next)

\* Mutant: the request of a snapshot page never carries the cursor.
NextSnapshotsFromStart == kind = "snapshots" /\ Ask(NoToken)

NextSnapshots == kind = "snapshots" /\ Ask(next)

-------------------------------------------------------------------------------
(* The server: items by place, from the cursor on, in pages of its own size; a cursor comes *)
(* with the page unless nothing is left.                                                    *)

Rest(after) == {i \in present \cap Selected(request.filter) : i > after}

Serve == /\ request.sent
         /\ \E cut \in request.after..MaxId : \E token \in {NoToken, cut} :
               /\ IF token = NoToken THEN Rest(cut) = {} ELSE cut > request.after
               /\ answer' = [type |-> "page", items |-> Rest(request.after) \ Rest(cut), token |-> token]
         /\ request' = NoRequest
         /\ UNCHANGED <<choice, paginator, times, returned, saved, server, unread, restarts>>

(* The request or its answer is lost, or the answer is an error, or it is a 200 whose content *)
(* is not named JSON, with the cursor in the header or without.                              *)
Fail == /\ request.sent
        /\ \/ answer' = Failure
           \/ \E t \in Tokens : (t = NoToken \/ t > request.after) /\ answer' = NotJSON(t)
        /\ request' = NoRequest
        /\ UNCHANGED <<choice, paginator, times, returned, saved, server, unread, restarts>>

(* A sandbox is created, killed, or comes to match the states asked for, or ceases to. *)
Change(i) == /\ changes < MaxChanges
             /\ changes' = changes + 1
             /\ present' = IF i \in present THEN present \ {i} ELSE present \cup {i}
             /\ fleeting' = fleeting \cup {i}
             /\ UNCHANGED <<choice, paginator, request, answer, times, returned, saved, unread, restarts>>

-------------------------------------------------------------------------------
(* The rest of NextItems. *)

\* Mutant: the cursor moves, but whether there is a next page stays as it was.
AdvanceOnly(token) == next' = token /\ UNCHANGED hasNext

Advance(token) == next' = token /\ hasNext' = (token # NoToken)

ReadPage == /\ answer.type = "page"
            /\ Advance(answer.token)
            /\ times' = [i \in Ids |-> IF i \in answer.items THEN times[i] + 1 ELSE times[i]]
            /\ answer' = NoAnswer
            /\ UNCHANGED <<choice, request, returned, saved, server, unread, restarts>>

(* The parsed answer has no JSON200: the cursor follows the header, and NextItems returns no *)
(* items and no error.                                                                       *)
ReadNotJSON == /\ answer.type = "notJSON"
               /\ Advance(answer.token)
               /\ unread' = TRUE
               /\ answer' = NoAnswer
               /\ UNCHANGED <<choice, request, times, returned, saved, server, restarts>>

\* Mutant: the cursor is moved before the status of the answer is looked at.
ReadErrorLate == /\ answer.type = "error"
                 /\ Advance(answer.token)
                 /\ returned' = IF drain THEN "error" ELSE returned
                 /\ answer' = NoAnswer
                 /\ UNCHANGED <<choice, request, times, saved, server, unread, restarts>>

(* An error leaves the paginator as it was, for the program to ask again; ListAll returns *)
(* what it has with the error.                                                            *)
ReadError == /\ answer.type = "error"
             /\ returned' = IF drain THEN "error" ELSE returned
             /\ answer' = NoAnswer
             /\ UNCHANGED <<choice, paginator, request, times, saved, server, unread, restarts>>

(* ListAll, ListAllSnapshots: the end of the loop. *)
Drained == /\ drain /\ Idle /\ ~hasNext
           /\ returned' = "ok"
           /\ UNCHANGED <<choice, paginator, request, answer, times, saved, server, unread, restarts>>

-------------------------------------------------------------------------------
(* The program writes down p.NextToken() with the results it has. *)
Save == /\ ~drain /\ Idle /\ hasNext
        /\ saved' = [next |-> next, times |-> times]
        /\ UNCHANGED <<choice, paginator, request, answer, times, returned, server, unread, restarts>>

(* It restarts, and lists on with the cursor in SandboxListOptions.NextToken. *)
Restart == /\ ~drain /\ restarts < MaxRestarts
           /\ restarts' = restarts + 1
           /\ next' = saved.next
           /\ hasNext' = TRUE
           /\ times' = saved.times
           /\ request' = NoRequest
           /\ answer' = NoAnswer
           /\ UNCHANGED <<choice, returned, saved, server, unread>>

-------------------------------------------------------------------------------
NextItems == NextSandboxes \/ NextSnapshots
Read      == ReadPage \/ ReadNotJSON \/ ReadError

Next == \/ NextItems \/ Read \/ Drained
        \/ Serve \/ Fail
        \/ Save \/ Restart
        \/ \E i \in Ids : Change(i)

Spec == Init /\ [][Next]_vars

(* ListAll goes on with its loop, and every request is answered or fails (the timeout of the *)
(* HTTP client); nothing is assumed of a program that takes the pages itself.                *)
FairSpec == /\ Spec
            /\ WF_vars(drain /\ (NextItems \/ Read \/ Drained))
            /\ WF_vars(Serve \/ Fail)

-------------------------------------------------------------------------------
(* Properties                                                              *)

(* Every variable keeps to its values; a paginator that is exhausted has no cursor. *)
TypeOK ==
    /\ kind \in {"sandboxes", "snapshots"} /\ filter \in BOOLEAN /\ drain \in BOOLEAN
    /\ next \in Tokens /\ hasNext \in BOOLEAN
    /\ request \in [sent : BOOLEAN, filter : BOOLEAN, after : Tokens]
    /\ answer \in [type : {"none", "page", "error", "notJSON"}, items : SUBSET Ids, token : Tokens]
    /\ times \in [Ids -> Nat]
    /\ returned \in {"no", "ok", "error"}
    /\ saved \in [next : Tokens, times : [Ids -> Nat]]
    /\ present \subseteq Ids /\ fleeting \subseteq Ids
    /\ unread \in BOOLEAN
    /\ changes \in 0..MaxChanges /\ restarts \in 0..MaxRestarts

(* The place up to which the listing has got. *)
Frontier == IF hasNext THEN next ELSE MaxId

(* Pages do not overlap: however the server changes between two pages, and whatever is asked  *)
(* again after an error or a restart, no item is in the results twice, nor one that the       *)
(* filter excludes.                                                                           *)
ListedOnce == \A i \in Ids : times[i] # 0 => times[i] = 1 /\ i \in Selected(filter)

(* Nothing is skipped: an item that was there all the time of the listing is in the results   *)
(* as soon as the listing is past its place.  An answer that is no JSON is excepted: NextItems *)
(* takes it for an empty page, and for the last one if no cursor came with it.                *)
NothingSkipped ==
    ~unread => \A i \in Selected(filter) \ fleeting : i <= Frontier => times[i] # 0

(* ListAll ends, although items keep coming up to the bound. *)
ListAllReturns == drain ~> returned # "no"
================================================================================
