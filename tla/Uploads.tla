-------------------------------- MODULE Uploads --------------------------------
(***************************************************************************)
(* Filesystem.Write and WriteFiles (filesystem_impl.go): the entries are   *)
(* uploaded one after another, each with one request.  To an envd before   *)
(* 0.5.7 the body is multipart: a goroutine that nobody waits for writes   *)
(* the head of the part, the data and the trailing boundary into a pipe    *)
(* from which the HTTP transport reads.  Later builds of envd take the     *)
(* data as it is.                                                          *)
(*                                                                         *)
(* envd writes the file as the body comes in, so that an upload which      *)
(* fails may leave a part of the file.                                     *)
(***************************************************************************)
EXTENDS Naturals, Sequences

CONSTANTS Paths,    \* the paths of the entries of WriteFiles, in order
          Chunks    \* the data of every entry is the chunks 1..Chunks

Entries == DOMAIN Paths
Files   == {Paths[i] : i \in Entries}

ASSUME UploadsOK == Paths \in Seq(Files) /\ Len(Paths) > 0 /\ Chunks \in Nat \ {0}

VARIABLES
    octet,     \* the version of envd: it takes application/octet-stream
    method,    \* "Write", of the first entry from a reader that may fail, or "WriteFiles"
    badURL,    \* no request can be made of the sandbox's URL (Config.SandboxURL)
    at,        \* the call: "next", "build", "do" or "returned"
    failed,    \* it returned an error
    results,   \* how many entries it has a WriteInfo for
    feeder,    \* feeder[i]: the goroutine of entry i
    taken,     \* taken[i]: the chunks taken from its reader
    offer,     \* offer[i]: the piece whose write waits in the pipe, or Empty
    writeEnd,  \* writeEnd[i]: the pipe's writer: "open", "eof", "broken"
    readEnd,   \* readEnd[i]: the body: "none", "open" while the transport reads it, "closed"
    body,      \* body[i]: the pieces envd has received
    bodyEnd,   \* bodyEnd[i]: "open", "eof", or "broken" when the request is aborted
    answer,    \* answer[i]: what envd answered: "none", "ok", "error"
    file       \* file[p]: the entry the file has its data from, and how many chunks of it

call  == <<at, failed, results>>
pipe  == <<feeder, taken, offer, writeEnd>>
envd  == <<body, bodyEnd, answer, file>>
setup == <<octet, method, badURL>>
uvars == <<setup, call, pipe, readEnd, envd>>

(* The pieces of a multipart body: the head of the part, the chunks 1..Chunks and the boundary. *)
PartHead == 0
Boundary == Chunks + 1
Empty    == Chunks + 2      \* no piece waits in the pipe
Pieces   == PartHead..Boundary

None   == "none"
Absent == [entry |-> 0, chunks |-> 0]
Whole(i) == [entry |-> i, chunks |-> Chunks]

Last == IF method = "Write" THEN 1 ELSE Len(Paths)
Cur  == results + 1      \* the entry that is uploaded, unless the call has returned without an error

-------------------------------------------------------------------------------
UInit == /\ octet \in BOOLEAN /\ badURL \in BOOLEAN
        /\ method \in {"Write", "WriteFiles"}
        /\ at = "next" /\ failed = FALSE /\ results = 0
        /\ feeder = [i \in Entries |-> None]
        /\ taken = [i \in Entries |-> 0]
        /\ offer = [i \in Entries |-> Empty]
        /\ writeEnd = [i \in Entries |-> "open"]
        /\ readEnd = [i \in Entries |-> None]
        /\ body = [i \in Entries |-> <<>>]
        /\ bodyEnd = [i \in Entries |-> "open"]
        /\ answer = [i \in Entries |-> None]
        /\ file = [p \in Files |-> Absent]

-------------------------------------------------------------------------------
(* uploadOne and the loop of WriteFiles                                    *)

(* The goroutine of a multipart body runs before there is a request. *)
ChooseBody ==
    /\ at = "next"
    /\ feeder' = [feeder EXCEPT ![Cur] = IF octet THEN None ELSE "part"]
    /\ at' = "build"
    /\ UNCHANGED <<setup, failed, results, taken, offer, writeEnd, readEnd, envd>>

(* NewRequestWithContext fails on a URL that cannot be parsed. *)
BuildRequest ==
    /\ at = "build"
    /\ IF badURL THEN at' = "returned" /\ failed' = TRUE /\ UNCHANGED readEnd
       ELSE at' = "do" /\ readEnd' = [readEnd EXCEPT ![Cur] = "open"] /\ UNCHANGED failed
    /\ UNCHANGED <<setup, results, pipe, envd>>

(* A 2xx is a success whatever its body; WriteFiles goes on with the next entry. *)
Succeed ==
    /\ at = "do" /\ answer[Cur] = "ok"
    /\ results' = Cur
    /\ at' = IF Cur = Last THEN "returned" ELSE "next"
    /\ UNCHANGED <<setup, failed, pipe, readEnd, envd>>

(* An error status, or a body that broke, ends the call. *)
Refused == /\ at = "do" /\ (answer[Cur] = "error" \/ bodyEnd[Cur] = "broken")
           /\ at' = "returned" /\ failed' = TRUE
           /\ UNCHANGED <<setup, results, pipe, readEnd, envd>>

(* The context or the HTTP client's timeout ends, or the connection or the answer is lost. *)
GiveUp == /\ at = "do"
          /\ at' = "returned" /\ failed' = TRUE
          /\ UNCHANGED <<setup, results, pipe, readEnd, envd>>

-------------------------------------------------------------------------------
(* The goroutine.  A write into the pipe waits until the piece is read or the reader closed. *)

Free(i) == offer[i] = Empty

Feed(i, from, piece, to) ==
    /\ feeder[i] = from /\ Free(i)
    /\ offer' = [offer EXCEPT ![i] = piece]
    /\ feeder' = [feeder EXCEPT ![i] = to]
    /\ UNCHANGED <<setup, call, writeEnd, readEnd, envd>>

FeedHead(i) == Feed(i, "part", PartHead, "copy") /\ UNCHANGED taken

FeedChunk(i) == /\ taken[i] < Chunks
                /\ Feed(i, "copy", taken[i] + 1, "copy")
                /\ taken' = [taken EXCEPT ![i] = @ + 1]

FeedTail(i) == taken[i] = Chunks /\ Feed(i, "copy", Boundary, "close") /\ UNCHANGED taken

CloseWriter(i, end) ==
    /\ writeEnd' = [writeEnd EXCEPT ![i] = end]
    /\ feeder' = [feeder EXCEPT ![i] = "done"]
    /\ UNCHANGED <<setup, call, taken, readEnd, envd>>

FeedEnd(i) == feeder[i] = "close" /\ Free(i) /\ CloseWriter(i, "eof") /\ UNCHANGED offer

\* Mutant: after a failed copy the boundary is written all the same.
FinishFailedCopy(i) ==
    method = "Write" /\ Feed(i, "copy", Boundary, "close") /\ UNCHANGED taken

\* Mutant: the goroutine returns from a failed copy without closing the pipe.
LeaveFailedCopy(i) ==
    /\ method = "Write" /\ feeder[i] = "copy" /\ Free(i)
    /\ feeder' = [feeder EXCEPT ![i] = "done"]
    /\ UNCHANGED <<setup, call, taken, offer, writeEnd, readEnd, envd>>

(* The caller's reader fails. *)
CopyFails(i) ==
    /\ method = "Write" /\ feeder[i] = "copy" /\ Free(i)
    /\ CloseWriter(i, "broken")
    /\ UNCHANGED offer

(* The transport has closed the reader: the write fails. *)
WriteFails(i) ==
    /\ ~Free(i) /\ readEnd[i] = "closed"
    /\ offer' = [offer EXCEPT ![i] = Empty]
    /\ CloseWriter(i, "broken")

FeederStep(i) == \/ FeedHead(i) \/ FeedChunk(i) \/ FeedTail(i) \/ FeedEnd(i)
                 \/ CopyFails(i) \/ WriteFails(i)

-------------------------------------------------------------------------------
(* The HTTP transport and envd                                             *)

(* envd receives a piece: the head of the part makes the file, a chunk makes it longer. *)
Receive(i, piece) ==
    /\ body' = [body EXCEPT ![i] = Append(@, piece)]
    /\ file' = IF piece = Boundary THEN file
               ELSE [file EXCEPT ![Paths[i]] = [entry |-> i, chunks |-> piece]]
    /\ UNCHANGED <<bodyEnd, answer>>

Open(i) == readEnd[i] = "open" /\ bodyEnd[i] = "open"

(* It reads the pipe, or, without one, the caller's reader. *)
SendPiece(i) ==
    /\ Open(i) /\ ~Free(i)
    /\ Receive(i, offer[i])
    /\ offer' = [offer EXCEPT ![i] = Empty]
    /\ UNCHANGED <<setup, call, feeder, taken, writeEnd, readEnd>>

SendChunk(i) ==
    /\ octet /\ Open(i) /\ taken[i] < Chunks
    /\ taken' = [taken EXCEPT ![i] = @ + 1]
    /\ Receive(i, taken[i] + 1)
    /\ UNCHANGED <<setup, call, feeder, offer, writeEnd, readEnd>>

(* The body ends with the pipe or the caller's reader, well or not. *)
Ends(i, end) == \/ octet /\ end = "eof" /\ taken[i] = Chunks
                \/ octet /\ end = "broken" /\ method = "Write"
                \/ ~octet /\ Free(i) /\ writeEnd[i] = end

EndBody(i) ==
    /\ Open(i)
    /\ \E end \in {"eof", "broken"} : Ends(i, end) /\ bodyEnd' = [bodyEnd EXCEPT ![i] = end]
    /\ UNCHANGED <<setup, call, pipe, readEnd, body, answer, file>>

(* A multipart body is complete with its last boundary, another one with its end. *)
Complete(i) == IF octet THEN bodyEnd[i] = "eof" ELSE \E k \in DOMAIN body[i] : body[i][k] = Boundary

Accept(i) == /\ answer[i] = None /\ Complete(i)
             /\ answer' = [answer EXCEPT ![i] = "ok"]
             /\ UNCHANGED <<setup, call, pipe, readEnd, body, bodyEnd, file>>

(* envd refuses a body that ends too early, and may refuse any body before it has ended. *)
Refuse(i) == /\ answer[i] = None /\ readEnd[i] # None
             /\ answer' = [answer EXCEPT ![i] = "error"]
             /\ UNCHANGED <<setup, call, pipe, readEnd, body, bodyEnd, file>>

Over(i) == i <= results \/ at = "returned"

\* Mutant: the body hides the pipe (io.NopCloser), so that its reader is never closed.
CloseUnlessPiped(i) ==
    /\ octet /\ readEnd[i] = "open" /\ Over(i)
    /\ readEnd' = [readEnd EXCEPT ![i] = "closed"]
    /\ UNCHANGED <<setup, call, pipe, envd>>

(* The transport closes the body of a request that is over, however it ended. *)
CloseBody(i) ==
    /\ readEnd[i] = "open" /\ Over(i)
    /\ readEnd' = [readEnd EXCEPT ![i] = "closed"]
    /\ UNCHANGED <<setup, call, pipe, envd>>

-------------------------------------------------------------------------------
CallStep    == ChooseBody \/ BuildRequest \/ Succeed \/ Refused
SendStep(i) == SendPiece(i) \/ SendChunk(i) \/ EndBody(i)
EnvdStep(i) == Accept(i) \/ (bodyEnd[i] = "eof" /\ Refuse(i))

UNext == \/ CallStep \/ GiveUp
        \/ \E i \in Entries : FeederStep(i) \/ SendStep(i) \/ Accept(i) \/ Refuse(i) \/ CloseBody(i)

USpec == UInit /\ [][UNext]_uvars

(***************************************************************************)
(* The call, the goroutine and the transport run, the caller's reader      *)
(* returns, and envd answers a body that has ended.  No context need end.  *)
(* The transport need not send more of a body when its request is over.    *)
(***************************************************************************)
UFairSpec == /\ USpec
            /\ WF_uvars(CallStep)
            /\ \A i \in Entries : /\ WF_uvars(FeederStep(i))
                                  /\ WF_uvars(~Over(i) /\ SendStep(i))
                                  /\ WF_uvars(CloseBody(i))
                                  /\ WF_uvars(EnvdStep(i))

-------------------------------------------------------------------------------
(* Properties                                                              *)

(* Every variable keeps to its values. *)
UTypeOK ==
    /\ octet \in BOOLEAN /\ badURL \in BOOLEAN /\ method \in {"Write", "WriteFiles"}
    /\ at \in {"next", "build", "do", "returned"} /\ failed \in BOOLEAN
    /\ results \in 0..Len(Paths)
    /\ feeder \in [Entries -> {None, "part", "copy", "close", "done"}]
    /\ taken \in [Entries -> 0..Chunks]
    /\ offer \in [Entries -> Pieces \cup {Empty}]
    /\ writeEnd \in [Entries -> {"open", "eof", "broken"}]
    /\ readEnd \in [Entries -> {None, "open", "closed"}]
    /\ body \in [Entries -> Seq(Pieces)]
    /\ bodyEnd \in [Entries -> {"open", "eof", "broken"}]
    /\ answer \in [Entries -> {None, "ok", "error"}]
    /\ file \in [Files -> [entry : Entries \cup {0}, chunks : 0..Chunks]]

(* File p has the whole data of the last of the first k entries that is for it, and no other data. *)
Holds(p, k) == \/ file[p] = Absent /\ \A i \in 1..k : Paths[i] # p
               \/ \E i \in 1..k : /\ Paths[i] = p /\ file[p] = Whole(i)
                                  /\ \A j \in i+1..k : Paths[j] # p

(* The results that a call returns are what it did: every file holds the whole data of the    *)
(* last entry for it that has a WriteInfo, and no other; without an error all entries have    *)
(* one.  Only the file of the entry that failed may hold anything of that entry.  A reader    *)
(* that fails, and a write that finds the pipe closed, never pass for the end of the data.    *)
FilesAsReported ==
    at = "returned" =>
        /\ ~failed => results = Last
        /\ \A p \in Files : (failed /\ Paths[Cur] = p) \/ Holds(p, results)

(* No goroutine outlives its upload, except when there is no request that could close its pipe. *)
FeedersEnd == \A i \in Entries : feeder[i] # None ~> feeder[i] = "done" \/ badURL

(* The call returns although no context ends: the goroutine, the transport and envd never wait *)
(* for one another, whether the reader fails, or envd answers before it has read the body.     *)
WriteReturns == <>(at = "returned")
================================================================================
