----------------------------- MODULE ListingProofs -----------------------------
(***************************************************************************)
(* Theorems about Listing, for every number of items, every choice of a    *)
(* filter, and every bound on changes and restarts.                        *)
(*                                                                         *)
(* The results a paginator has, those that were saved, and those that an   *)
(* answer would make of them are always the items up to a place: of the    *)
(* items before it all that were there all the time, and none behind it.   *)
(***************************************************************************)
EXTENDS Listing, TLAPS

(* The counts t are those of a listing that has got to place f. *)
Sound(t, f)    == \A i \in Ids : t[i] # 0 => t[i] = 1 /\ i \in Selected(filter) /\ i <= f
Complete(t, f) == ~unread => \A i \in Selected(filter) \ fleeting : i <= f => t[i] # 0

(* The page that the answer holds begins behind the cursor, ends at place `to`, and has of *)
(* the items in between all that were there all the time.                                  *)
PageEnd == IF answer.token = NoToken THEN MaxId ELSE answer.token

PageInv ==
    answer.type = "page" =>
        /\ next <= PageEnd
        /\ \A i \in answer.items : next < i /\ i <= PageEnd /\ i \in Selected(filter)
        /\ \A i \in Selected(filter) \ fleeting : next < i /\ i <= PageEnd => i \in answer.items

(* A request carries the cursor and the filter of the paginator, and waits for its answer. *)
RequestInv ==
    /\ request.sent => hasNext /\ answer = NoAnswer /\ request.after = next /\ request.filter = filter
    /\ answer # NoAnswer => hasNext
    /\ answer.type = "notJSON" => answer.token = NoToken \/ answer.token > next
    /\ answer.type = "none" => answer = NoAnswer

(* An item that is absent now has been absent at some time. *)
ServerInv == Ids \ present \subseteq fleeting

PlaceInv == /\ Sound(times, Frontier) /\ Complete(times, Frontier)
            /\ Sound(saved.times, saved.next) /\ Complete(saved.times, saved.next)

Inv == TypeOK /\ RequestInv /\ ServerInv /\ PageInv /\ PlaceInv

-------------------------------------------------------------------------------
(* A filter selects items. *)
LEMMA SelectedIds == ASSUME ListingOK, NEW f PROVE Selected(f) \subseteq Ids
  BY DEF Selected, ListingOK

(* The invariant holds before the first request. *)
LEMMA InvInit == Init => Inv
  <1> SUFFICES ASSUME Init PROVE Inv
    OBVIOUS
  <1>1. ListingOK
    BY ListingOK
  <1>2. TypeOK
    <2>1. 0 \in Tokens /\ 0 \in 0..MaxChanges /\ 0 \in 0..MaxRestarts
      BY <1>1 DEF Tokens, ListingOK
    <2>2. NoRequest \in [sent : BOOLEAN, filter : BOOLEAN, after : Tokens]
      BY <2>1 DEF NoRequest, NoToken
    <2>3. NoAnswer \in [type : {"none", "page", "error", "notJSON"}, items : SUBSET Ids, token : Tokens]
      BY <2>1 DEF NoAnswer, NoToken
    <2>4. [i \in Ids |-> 0] \in [Ids -> Nat]
      OBVIOUS
    <2> QED
      BY <2>1, <2>2, <2>3, <2>4 DEF Init, TypeOK, NoToken
  <1>3. RequestInv /\ ServerInv /\ PageInv
    BY DEF Init, RequestInv, ServerInv, PageInv, NoRequest, NoAnswer
  <1>4. PlaceInv
    BY <1>1, SelectedIds DEF Init, PlaceInv, Sound, Complete, Frontier, NoToken, Ids, ListingOK
  <1> QED
    BY <1>2, <1>3, <1>4 DEF Inv

(* A request is sent: it carries the cursor, which does not move. *)
LEMMA AskInv == ASSUME Inv, NextItems PROVE Inv'
  <1> USE DEF Inv
  <1>1. Ask(next)
    BY DEF NextItems, NextSandboxes, NextSnapshots
  <1>2. TypeOK'
    BY <1>1 DEF Ask, TypeOK, choice, paginator, server
  <1>3. RequestInv'
    BY <1>1 DEF Ask, Idle, RequestInv, NoAnswer, choice, paginator
  <1>4. ServerInv' /\ PageInv' /\ PlaceInv'
    BY <1>1 DEF Ask, ServerInv, PageInv, PageEnd, PlaceInv, Sound, Complete, Frontier, choice, paginator, server
  <1> QED
    BY <1>2, <1>3, <1>4

(* The server cuts a page: it begins behind the cursor and has all that is there up to its end. *)
LEMMA ServeInv == ASSUME Inv, Serve PROVE Inv'
  <1> USE DEF Inv
  <1>a. PICK cut \in request.after..MaxId : \E token \in {NoToken, cut} :
            /\ IF token = NoToken THEN Rest(cut) = {} ELSE cut > request.after
            /\ answer' = [type |-> "page", items |-> Rest(request.after) \ Rest(cut), token |-> token]
    BY DEF Serve
  <1>1. PICK token \in {NoToken, cut} :
            /\ IF token = NoToken THEN Rest(cut) = {} ELSE cut > request.after
            /\ answer' = [type |-> "page", items |-> Rest(request.after) \ Rest(cut), token |-> token]
    BY <1>a
  <1>2. /\ request.sent /\ request' = NoRequest
        /\ UNCHANGED <<choice, paginator, times, returned, saved, server, unread, restarts>>
    BY DEF Serve
  <1>3. /\ request.after = next /\ request.filter = filter /\ hasNext
        /\ MaxId \in Nat /\ next \in 0..MaxId /\ NoToken = 0 /\ cut \in 0..MaxId
    BY <1>1, <1>2, ListingOK DEF RequestInv, TypeOK, Tokens, ListingOK, NoToken
  <1>4. Rest(request.after) \ Rest(cut) \in SUBSET Ids
    BY DEF Rest, TypeOK
  <1>5. TypeOK'
    <2>1. answer' \in [type : {"none", "page", "error", "notJSON"}, items : SUBSET Ids, token : Tokens]
      BY <1>1, <1>3, <1>4 DEF Tokens
    <2>2. request' \in [sent : BOOLEAN, filter : BOOLEAN, after : Tokens]
      BY <1>2, <1>3 DEF NoRequest, Tokens
    <2> QED
      BY <1>2, <2>1, <2>2 DEF TypeOK, choice, paginator, server
  <1>6. RequestInv'
    BY <1>1, <1>2, <1>3 DEF RequestInv, NoRequest, NoAnswer, paginator
  <1>7. PageInv'
    <2>1. Rest(next) = {i \in present \cap Selected(filter) : i > next}
          /\ Rest(cut) = {i \in present \cap Selected(filter) : i > cut}
      BY <1>3 DEF Rest
    <2>2. /\ filter' = filter /\ next' = next /\ fleeting' = fleeting
          /\ answer'.token = token /\ answer'.items = Rest(next) \ Rest(cut)
      BY <1>1, <1>2, <1>3 DEF choice, paginator, server
    <2>3. Selected(filter) \subseteq Ids /\ Selected(filter)' = Selected(filter)
      BY <2>2, ListingOK, SelectedIds DEF Selected
    <2>4. Selected(filter) \ fleeting \subseteq present
      BY <2>3 DEF ServerInv
    <2>5. CASE token = NoToken
      <3>1. Rest(cut) = {} /\ PageEnd' = MaxId
        BY <1>1, <2>2, <2>5 DEF PageEnd
      <3> QED
        BY <1>3, <2>1, <2>2, <2>3, <2>4, <3>1 DEF PageInv, Ids
    <2>6. CASE token # NoToken
      <3>1. token = cut /\ cut > next /\ PageEnd' = cut
        BY <1>1, <1>3, <2>2, <2>6 DEF PageEnd
      <3> QED
        BY <1>3, <2>1, <2>2, <2>3, <2>4, <3>1 DEF PageInv, Ids
    <2> QED
      BY <2>5, <2>6
  <1>8. ServerInv' /\ PlaceInv'
    BY <1>2 DEF ServerInv, PlaceInv, Sound, Complete, Frontier, choice, paginator, server
  <1> QED
    BY <1>5, <1>6, <1>7, <1>8

(* A page that fails leaves the paginator where it was. *)
LEMMA FailInv == ASSUME Inv, Fail PROVE Inv'
  <1> USE DEF Inv
  <1>1. /\ request.sent /\ request' = NoRequest
        /\ \/ answer' = Failure
           \/ \E t \in Tokens : (t = NoToken \/ t > request.after) /\ answer' = NotJSON(t)
        /\ UNCHANGED <<choice, paginator, times, returned, saved, server, unread, restarts>>
    BY DEF Fail
  <1>2. /\ answer'.type \in {"error", "notJSON"}
        /\ answer'.type = "notJSON" => answer'.token = NoToken \/ answer'.token > next
        /\ answer' \in [type : {"none", "page", "error", "notJSON"}, items : SUBSET Ids, token : Tokens]
    <2>1. NoToken \in Tokens /\ request.after = next
      BY <1>1, ListingOK DEF RequestInv, NoToken, Tokens, ListingOK
    <2>2. CASE answer' = Failure
      BY <2>1, <2>2 DEF Failure, NoAnswer
    <2>3. CASE \E t \in Tokens : (t = NoToken \/ t > request.after) /\ answer' = NotJSON(t)
      <3>1. PICK t \in Tokens : (t = NoToken \/ t > request.after) /\ answer' = NotJSON(t)
        BY <2>3
      <3>2. /\ NotJSON(t).type = "notJSON" /\ NotJSON(t).token = t
            /\ NotJSON(t) \in [type : {"none", "page", "error", "notJSON"}, items : SUBSET Ids, token : Tokens]
        BY <2>1 DEF NotJSON, NoAnswer
      <3>3. QED
        BY <2>1, <3>1, <3>2
    <2>4. QED
      BY <1>1, <2>2, <2>3
  <1>3. NoRequest \in [sent : BOOLEAN, filter : BOOLEAN, after : Tokens] /\ ~NoRequest.sent
    BY ListingOK DEF NoRequest, NoToken, Tokens, ListingOK
  <1>4. TypeOK'
    BY <1>1, <1>2, <1>3 DEF TypeOK, choice, paginator, server
  <1>5. RequestInv' /\ PageInv'
    BY <1>1, <1>2, <1>3 DEF RequestInv, PageInv, paginator
  <1>6. ServerInv' /\ PlaceInv'
    BY <1>1 DEF ServerInv, PlaceInv, Sound, Complete, Frontier, choice, paginator, server
  <1> QED
    BY <1>4, <1>5, <1>6

(* An item that comes or goes is from then on one that was absent. *)
LEMMA ChangeInv == ASSUME Inv, NEW i \in Ids, Change(i) PROVE Inv'
  <1> USE DEF Inv
  <1>1. /\ changes < MaxChanges /\ changes' = changes + 1
        /\ present' = (IF i \in present THEN present \ {i} ELSE present \cup {i})
        /\ fleeting' = fleeting \cup {i}
        /\ UNCHANGED <<choice, paginator, request, answer, times, returned, saved, unread, restarts>>
    BY DEF Change
  <1>2. TypeOK'
    BY <1>1, ListingOK DEF TypeOK, choice, paginator, ListingOK
  <1>3. RequestInv' /\ ServerInv'
    BY <1>1 DEF RequestInv, ServerInv, TypeOK, choice, paginator
  <1>4. PageInv' /\ PlaceInv'
    BY <1>1 DEF PageInv, PageEnd, PlaceInv, Sound, Complete, Frontier, choice, paginator
  <1> QED
    BY <1>2, <1>3, <1>4

(* A page is read: the cursor moves to its end, and its items are counted. *)
LEMMA ReadPageInv == ASSUME Inv, ReadPage PROVE Inv'
  <1> USE DEF Inv
  <1>1. /\ answer.type = "page" /\ next' = answer.token /\ hasNext' = (answer.token # NoToken)
        /\ times' = [i \in Ids |-> IF i \in answer.items THEN times[i] + 1 ELSE times[i]]
        /\ answer' = NoAnswer
        /\ UNCHANGED <<choice, request, returned, saved, server, unread, restarts>>
    BY DEF ReadPage, Advance
  <1>2. hasNext /\ ~request.sent
    BY <1>1 DEF RequestInv, NoAnswer
  <1>3. TypeOK'
    <2>1. times' \in [Ids -> Nat]
      BY <1>1 DEF TypeOK
    <2>2. NoAnswer \in [type : {"none", "page", "error", "notJSON"}, items : SUBSET Ids, token : Tokens]
      BY ListingOK DEF NoAnswer, NoToken, Tokens, ListingOK
    <2> QED
      BY <1>1, <2>1, <2>2 DEF TypeOK, choice, server
  <1>4. RequestInv' /\ ServerInv' /\ PageInv'
    BY <1>1, <1>2 DEF RequestInv, ServerInv, PageInv, NoAnswer, server
  <1>5. Frontier = next /\ Frontier' = PageEnd
    BY <1>1, <1>2 DEF Frontier, PageEnd
  <1>6. /\ next \in Nat /\ PageEnd \in Nat /\ next <= PageEnd
        /\ Selected(filter) \subseteq Ids /\ filter' = filter /\ Ids \subseteq Nat
        /\ answer.items \subseteq Ids
    BY <1>1, ListingOK, SelectedIds DEF PageInv, PageEnd, TypeOK, Tokens, Ids, ListingOK, choice
  <1>7. Sound(times', PageEnd) /\ Complete(times', PageEnd)
    <2>1. \A i \in Ids : /\ times[i] \in Nat
                        /\ times'[i] = IF i \in answer.items THEN times[i] + 1 ELSE times[i]
      BY <1>1 DEF TypeOK
    <2>2. Sound(times, next) /\ Complete(times, next)
      BY <1>5 DEF PlaceInv
    <2>3. \A i \in answer.items : next < i /\ i <= PageEnd /\ i \in Selected(filter)
      BY <1>1 DEF PageInv
    <2>4. \A i \in Selected(filter) \ fleeting : next < i /\ i <= PageEnd => i \in answer.items
      BY <1>1 DEF PageInv
    <2>5. Sound(times', PageEnd)
      <3> SUFFICES ASSUME NEW i \in Ids, times'[i] # 0
                   PROVE  times'[i] = 1 /\ i \in Selected(filter) /\ i <= PageEnd
        BY DEF Sound
      <3>1. CASE i \in answer.items
        <4>1. times[i] = 0
          BY <1>6, <2>2, <2>3, <3>1 DEF Sound
        <4> QED
          BY <2>1, <2>3, <3>1, <4>1
      <3>2. CASE i \notin answer.items
        BY <1>6, <2>1, <2>2, <3>2 DEF Sound
      <3> QED
        BY <3>1, <3>2
    <2>6. Complete(times', PageEnd)
      <3> SUFFICES ASSUME ~unread, NEW i \in Selected(filter) \ fleeting, i <= PageEnd
                   PROVE  times'[i] # 0
        BY DEF Complete
      <3>1. i \in Ids /\ i \in Nat
        BY <1>6
      <3>2. i <= next => times[i] # 0
        BY <2>2 DEF Complete
      <3>3. next < i => i \in answer.items
        BY <2>4
      <3> QED
        BY <1>6, <2>1, <3>1, <3>2, <3>3
    <2> QED
      BY <2>5, <2>6
  <1>8. PlaceInv'
    <2>1. Sound(times, Frontier)' /\ Complete(times, Frontier)'
      BY <1>1, <1>5, <1>6, <1>7 DEF Sound, Complete, server
    <2>2. Sound(saved.times, saved.next)' /\ Complete(saved.times, saved.next)'
      BY <1>1, <1>6 DEF PlaceInv, Sound, Complete, server
    <2> QED
      BY <2>1, <2>2 DEF PlaceInv
  <1> QED
    BY <1>3, <1>4, <1>8

(* A page that is no JSON is remembered; it ends the listing, or the cursor has moved on. *)
LEMMA ReadNotJSONInv == ASSUME Inv, ReadNotJSON PROVE Inv'
  <1> USE DEF Inv
  <1>1. /\ answer.type = "notJSON" /\ next' = answer.token /\ hasNext' = (answer.token # NoToken)
        /\ unread' = TRUE /\ answer' = NoAnswer
        /\ UNCHANGED <<choice, request, times, returned, saved, server, restarts>>
    BY DEF ReadNotJSON, Advance
  <1>2. hasNext /\ ~request.sent /\ NoToken \in Tokens
    BY <1>1, ListingOK DEF RequestInv, NoAnswer, Tokens, NoToken, ListingOK
  <1>3. NoAnswer \in [type : {"none", "page", "error", "notJSON"}, items : SUBSET Ids, token : Tokens]
    BY <1>2 DEF NoAnswer
  <1>4. TypeOK'
    BY <1>1, <1>2, <1>3 DEF TypeOK, choice, server
  <1>5. RequestInv' /\ ServerInv' /\ PageInv'
    BY <1>1, <1>2 DEF RequestInv, ServerInv, PageInv, NoAnswer, server
  <1>6. filter' = filter /\ saved' = saved /\ times' = times
    BY <1>1 DEF choice
  <1>7. \A i \in Ids : i <= Frontier => i <= Frontier'
    <2>1. \A i \in Ids : i <= MaxId /\ i \in Nat
      BY ListingOK DEF Ids, ListingOK
    <2>2. Frontier = next /\ Frontier' = PageEnd
      BY <1>1, <1>2 DEF Frontier, PageEnd
    <2>3. next \in Nat /\ answer.token \in Nat
      BY ListingOK DEF TypeOK, Tokens, ListingOK
    <2>4. CASE answer.token = NoToken
      BY <2>1, <2>2, <2>4 DEF PageEnd
    <2>5. CASE answer.token > next
      BY <2>1, <2>2, <2>3, <2>5 DEF PageEnd, NoToken
    <2>6. QED
      BY <1>1, <2>4, <2>5 DEF RequestInv
  <1>8. Sound(times, Frontier)'
    BY <1>6, <1>7 DEF PlaceInv, Sound
  <1>9. Sound(saved.times, saved.next)'
    BY <1>6 DEF PlaceInv, Sound
  <1>10. PlaceInv'
    BY <1>1, <1>8, <1>9 DEF PlaceInv, Complete
  <1> QED
    BY <1>4, <1>5, <1>10

(* An error, and the end of ListAll, leave the paginator and the results as they were. *)
LEMMA ReturnInv == ASSUME Inv, ReadError \/ Drained PROVE Inv'
  <1> USE DEF Inv
  <1>1. /\ answer' \in {answer, NoAnswer} /\ returned' \in {"ok", "error", returned}
        /\ ReadError => answer # NoAnswer
        /\ UNCHANGED <<choice, paginator, request, times, saved, server, unread, restarts>>
        /\ answer' # answer => answer.type = "error"
    BY DEF ReadError, Drained, NoAnswer
  <1>2. NoAnswer \in [type : {"none", "page", "error", "notJSON"}, items : SUBSET Ids, token : Tokens]
    BY ListingOK DEF NoAnswer, NoToken, Tokens, ListingOK
  <1>3. TypeOK'
    BY <1>1, <1>2 DEF TypeOK, choice, paginator, server
  <1>4. RequestInv' /\ ServerInv' /\ PageInv'
    BY <1>1 DEF RequestInv, ServerInv, PageInv, PageEnd, NoAnswer, choice, paginator, server
  <1>5. PlaceInv'
    BY <1>1 DEF PlaceInv, Sound, Complete, Frontier, choice, paginator, server
  <1> QED
    BY <1>3, <1>4, <1>5

(* What is written down is what the listing has up to its cursor. *)
LEMMA SaveInv == ASSUME Inv, Save PROVE Inv'
  <1> USE DEF Inv
  <1>1. /\ hasNext /\ saved' = [next |-> next, times |-> times]
        /\ UNCHANGED <<choice, paginator, request, answer, times, returned, server, unread, restarts>>
    BY DEF Save
  <1>2. TypeOK'
    BY <1>1 DEF TypeOK, choice, paginator, server
  <1>3. RequestInv' /\ ServerInv' /\ PageInv'
    BY <1>1 DEF RequestInv, ServerInv, PageInv, PageEnd, choice, paginator, server
  <1>4. PlaceInv'
    BY <1>1 DEF PlaceInv, Sound, Complete, Frontier, choice, paginator, server
  <1> QED
    BY <1>2, <1>3, <1>4

(* A restart goes back to what was written down. *)
LEMMA RestartInv == ASSUME Inv, Restart PROVE Inv'
  <1> USE DEF Inv
  <1>1. /\ restarts < MaxRestarts /\ restarts' = restarts + 1
        /\ next' = saved.next /\ hasNext' = TRUE /\ times' = saved.times
        /\ request' = NoRequest /\ answer' = NoAnswer
        /\ UNCHANGED <<choice, returned, saved, server, unread>>
    BY DEF Restart
  <1>2. /\ NoAnswer \in [type : {"none", "page", "error", "notJSON"}, items : SUBSET Ids, token : Tokens]
        /\ NoRequest \in [sent : BOOLEAN, filter : BOOLEAN, after : Tokens]
    BY ListingOK DEF NoAnswer, NoRequest, NoToken, Tokens, ListingOK
  <1>3. TypeOK'
    BY <1>1, <1>2, ListingOK DEF TypeOK, choice, server, ListingOK
  <1>4. RequestInv' /\ ServerInv' /\ PageInv'
    BY <1>1 DEF RequestInv, ServerInv, PageInv, NoAnswer, NoRequest, server
  <1>5. PlaceInv'
    BY <1>1 DEF PlaceInv, Sound, Complete, Frontier, choice, server
  <1> QED
    BY <1>3, <1>4, <1>5

-------------------------------------------------------------------------------
(* Inv is inductive. *)
LEMMA InvNext == ASSUME Inv, [Next]_vars PROVE Inv'
  <1>1. CASE NextItems
    BY <1>1, AskInv
  <1>2. CASE Read
    BY <1>2, ReadPageInv, ReadNotJSONInv, ReturnInv DEF Read
  <1>3. CASE Drained
    BY <1>3, ReturnInv
  <1>4. CASE Serve
    BY <1>4, ServeInv
  <1>5. CASE Fail
    BY <1>5, FailInv
  <1>6. CASE Save
    BY <1>6, SaveInv
  <1>7. CASE Restart
    BY <1>7, RestartInv
  <1>8. ASSUME NEW i \in Ids, Change(i) PROVE Inv'
    BY <1>8, ChangeInv
  <1>9. CASE UNCHANGED vars
    BY <1>9 DEF Inv, TypeOK, RequestInv, ServerInv, PageInv, PageEnd, PlaceInv, Sound, Complete, Frontier,
                vars, choice, paginator, server
  <1> QED
    BY <1>1, <1>2, <1>3, <1>4, <1>5, <1>6, <1>7, <1>8, <1>9 DEF Next

(* So every state of a listing satisfies it. *)
LEMMA Invariant == Spec => []Inv
  BY InvInit, InvNext, PTL DEF Spec

(* Every variable of a listing keeps to its values, for any number of items. *)
THEOREM TypeCorrect == Spec => []TypeOK
  <1>1. Inv => TypeOK
    BY DEF Inv
  <1> QED
    BY Invariant, <1>1, PTL

(* NextItems never returns an item again, nor one that the filter excludes, however the list *)
(* changes between two pages, after errors and from a saved cursor.                          *)
THEOREM PagesAreDisjoint == Spec => []ListedOnce
  <1>1. Inv => ListedOnce
    BY DEF Inv, PlaceInv, Sound, ListedOnce
  <1> QED
    BY Invariant, <1>1, PTL

(* An item that is there all the time is not left out by NextItems once the cursor is past it, *)
(* unless a page was no JSON.                                                                  *)
THEOREM PagesAreComplete == Spec => []NothingSkipped
  <1>1. Inv => NothingSkipped
    BY DEF Inv, PlaceInv, Complete, NothingSkipped
  <1> QED
    BY Invariant, <1>1, PTL
================================================================================
