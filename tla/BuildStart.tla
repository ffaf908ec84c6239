------------------------------ MODULE BuildStart ------------------------------
(***************************************************************************)
(* The start of a template build (template/build.go startBuild,            *)
(* startBuildV2, finishStartBuild): the template is requested, the files   *)
(* of every COPY are hashed, what the server lacks is packed by a tar      *)
(* goroutine and uploaded through a pipe, and the build is triggered.      *)
(* Meanwhile somebody may edit or delete the files.                        *)
(*                                                                         *)
(* The content of a file is a version number.  The hash of a COPY stands   *)
(* for what it is computed from: which COPY it is, and the files it read.  *)
(***************************************************************************)
EXTENDS Naturals, Sequences, SequencesExt, FiniteSets

CONSTANTS Copies,    \* the COPY instructions: Copies[i].files in order, Copies[i].force
          MaxEdits,  \* bound: edits of files while the build starts
          NotYet     \* no build triggered

Files == UNION {ToSet(Copies[i].files) : i \in DOMAIN Copies}

ASSUME BuildStartOK == /\ Copies \in Seq([files : Seq(Files), force : BOOLEAN])
                       /\ MaxEdits \in Nat

VARIABLES
    opts,       \* what the caller gave: [named, tagged, v2, context, broken]
    pc,         \* where startBuild is
    copy,       \* the COPY it is at
    hashes,     \* the hashes of the first pass, one for each COPY
    body,       \* the hashes of the second pass, made by serialize
    result,     \* what startBuild returned: "none", "started" or "error"
    disk,       \* disk[f]: the version of file f, Gone when it does not exist
    edits,      \* edits made since the build began
    requested,  \* the server: the template and its build are recorded
    triggered,  \* the server: the hashes of the build it was told to run
    store,      \* the server: the archives stored under a hash
    tar,        \* where the tar goroutine is
    listed,     \* the files it found
    todo,       \* the files it has still to write
    statted,    \* the version of a file when it was looked at, and its size written down
    short,      \* the entry written last has less content than its header says
    tarErr,     \* the error in errc: "nil", given to finalize by the loop ("add"), or met there ("close")
    offer,      \* the write that waits in the pipe: at most one chunk
    writeEnd,   \* the pipe: "open", closed at the "end", or with an "error"
    readEnd,    \* the pipe: "open", or "closed" by its reader
    put,        \* the upload request: "idle", "sending", "sent", then what Do returned
    uploaded    \* the chunks the storage received

server  == <<requested, triggered, store>>
packing == <<tar, listed, todo, statted, short, tarErr, writeEnd>>
sending == <<put, uploaded>>
pipe    == <<offer, readEnd>>
client  == <<opts, pc, copy, hashes, body, result>>
files   == <<disk, edits>>
vars    == <<client, files, server, packing, pipe, sending>>

-------------------------------------------------------------------------------
Gone     == 0
Versions == 1..(MaxEdits + 1)
Part     == MaxEdits + 2   \* content that is no version of a file: cut off, or of two versions
Trailer  == "trailer"
Footer   == "footer"       \* what gz.Close writes when tw.Close has failed before the trailer

(* getAllFilesInPath: the files there are, in sorted order. *)
FilesOf(i) ==
    LET there == {n \in DOMAIN Copies[i].files : disk[Copies[i].files[n]] # Gone}
    IN  [k \in 1..Cardinality(there) |-> Copies[i].files[CHOOSE n \in there : Cardinality(there \cap 1..n) = k]]

(* calculateFilesHash *)
Hash(i) == [copy |-> i, content |-> [n \in DOMAIN FilesOf(i) |-> <<FilesOf(i)[n], disk[FilesOf(i)[n]]>>]]

Stored(h) == \E a \in store : a.hash = h

(* The archive that belongs under a hash.  The server may have such from earlier starts, during *)
(* which nobody edited the files.                                                               *)
ArchiveFor(h) == [hash |-> h, chunks |-> Append(h.content, Trailer),
                  listed |-> [n \in DOMAIN h.content |-> h.content[n][1]]]

Init == /\ opts \in [named : BOOLEAN, tagged : BOOLEAN, v2 : BOOLEAN, context : BOOLEAN, broken : BOOLEAN]
        /\ pc = "validate" /\ copy = 1
        /\ hashes = <<>> /\ body = <<>> /\ result = "none"
        /\ disk \in [Files -> {Gone, 1}] /\ edits = 0
        /\ requested = FALSE /\ triggered = NotYet
        /\ \E known \in SUBSET {i \in DOMAIN Copies : FilesOf(i) # <<>>} :
              store = {ArchiveFor(Hash(i)) : i \in known}
        /\ tar = "idle" /\ listed = <<>> /\ todo = <<>> /\ statted = Gone /\ short = FALSE /\ tarErr = "nil"
        /\ offer = <<>> /\ writeEnd = "open" /\ readEnd = "open"
        /\ put = "idle" /\ uploaded = <<>>

-------------------------------------------------------------------------------
(* The files, and the other users of the server                            *)

Edit(f) == /\ pc \notin {"validate", "request", "returned"}
           /\ edits < MaxEdits
           /\ edits' = edits + 1
           /\ disk' = [disk EXCEPT ![f] = edits + 2]
           /\ UNCHANGED <<client, server, packing, pipe, sending>>

Delete(f) == /\ pc \notin {"validate", "request", "returned"}
             /\ edits < MaxEdits /\ disk[f] # Gone
             /\ edits' = edits + 1
             /\ disk' = [disk EXCEPT ![f] = Gone]
             /\ UNCHANGED <<client, server, packing, pipe, sending>>

-------------------------------------------------------------------------------
(* startBuild, up to the uploads                                           *)

Return(r) == pc' = "returned" /\ result' = r

(* The loops over the COPY steps: the next one, or what follows the loop. *)
NextCopy(again, after) == IF copy < Len(Copies) THEN pc' = again /\ copy' = copy + 1
                                                ELSE pc' = after /\ copy' = 1

(* validateBuildOpts, and the tags that POST /v2/templates has no field for. *)
Validate ==
    /\ pc = "validate"
    /\ IF opts.named /\ ~(opts.v2 /\ opts.tagged) THEN pc' = "request" /\ UNCHANGED result
                                                  ELSE Return("error")
    /\ UNCHANGED <<opts, copy, hashes, body, files, server, packing, pipe, sending>>

(* requestBuild, requestBuildV2: the server records the template, and its answer may be lost. *)
Request ==
    /\ pc = "request"
    /\ \/ requested' = TRUE /\ pc' = "hash" /\ UNCHANGED result
       \/ requested' \in {TRUE, FALSE} /\ Return("error")
    /\ UNCHANGED <<opts, copy, hashes, body, files, triggered, store, packing, pipe, sending>>

(* instructionsWithHashes: COPY needs a context, finds at least one file, and reads all it found. *)
HashCopy ==
    /\ pc = "hash"
    /\ \/ /\ Copies = <<>>
          /\ pc' = "serialize" /\ UNCHANGED <<copy, hashes, result>>
       \/ /\ Copies # <<>> /\ opts.context /\ FilesOf(copy) # <<>>
          /\ hashes' = Append(hashes, Hash(copy)) /\ NextCopy("hash", "probe") /\ UNCHANGED result
       \/ Copies # <<>> /\ Return("error") /\ UNCHANGED <<copy, hashes>>
    /\ UNCHANGED <<opts, body, files, server, packing, pipe, sending>>

\* Mutant: the server is asked for every file to be uploaded only when the caller forces it.
ProbeForcedOnly ==
    /\ pc = "probe"
    /\ \/ Return("error") /\ UNCHANGED copy
       \/ IF Copies[copy].force THEN pc' = "pack" /\ UNCHANGED <<copy, result>>
          ELSE NextCopy("probe", "serialize") /\ UNCHANGED result
    /\ UNCHANGED <<opts, hashes, body, files, server, packing, pipe, sending>>

(* getFileUploadLink: an upload is needed when the server lacks the hash or the caller *)
(* forces it.  It fails when the request fails, or when no URL comes with the answer.  *)
Probe ==
    /\ pc = "probe"
    /\ \/ Return("error") /\ UNCHANGED copy
       \/ IF ~Stored(hashes[copy]) \/ Copies[copy].force
          THEN pc' = "pack" /\ UNCHANGED <<copy, result>>
          ELSE NextCopy("probe", "serialize") /\ UNCHANGED result
    /\ UNCHANGED <<opts, hashes, body, files, server, packing, pipe, sending>>

(* tarFileStream starts the goroutine; uploadFile sends the request with the pipe as *)
(* its body, or fails at once when the upload URL is none.                           *)
StartUpload ==
    /\ pc = "pack"
    /\ tar' = "list" /\ listed' = <<>> /\ todo' = <<>>
    /\ statted' = Gone /\ short' = FALSE /\ tarErr' = "nil"
    /\ offer' = <<>> /\ writeEnd' = "open" /\ readEnd' = "open"
    /\ put' \in {"sending", "badUrl"} /\ uploaded' = <<>>
    /\ pc' = "upload"
    /\ UNCHANGED <<opts, copy, hashes, body, result, files, server>>

-------------------------------------------------------------------------------
(* writeTar, on its own goroutine                                          *)

ListFiles ==
    /\ tar = "list"
    /\ listed' = FilesOf(copy) /\ todo' = FilesOf(copy)
    /\ tar' = "add"
    /\ UNCHANGED <<statted, short, tarErr, writeEnd, client, files, server, pipe, sending>>

(* addTarEntry looks at the file and writes a header with its size.  A file that has gone since *)
(* it was listed is an error, and so is a header after an entry that is short.                  *)
StatEntry ==
    /\ tar = "add" /\ todo # <<>>
    /\ IF short \/ disk[Head(todo)] = Gone
       THEN tarErr' = "add" /\ tar' = "finish" /\ UNCHANGED statted
       ELSE statted' = disk[Head(todo)] /\ tar' = "copy" /\ UNCHANGED tarErr
    /\ UNCHANGED <<listed, todo, short, writeEnd, client, files, server, pipe, sending>>

(* Then it opens the file and copies it.  What was edited since may have the same size, and be  *)
(* read whole or mixed; it may be shorter, which is no error; longer, which is one after the    *)
(* size is written; or gone before it is opened, which is one after the header.                 *)
CopyEntry ==
    /\ tar = "copy"
    /\ LET f       == Head(todo)
           Read(v) == offer' = <<<<f, v>>>> /\ UNCHANGED <<short, tarErr>>
       IN  \/ Read(statted)
           \/ disk[f] \notin {statted, Gone} /\ Read(disk[f])
           \/ disk[f] # statted /\ offer' = <<<<f, Part>>>> /\ short' \in BOOLEAN /\ tarErr' \in {"nil", "add"}
    /\ todo' = Tail(todo)
    /\ tar' = "writeEntry"
    /\ UNCHANGED <<listed, statted, writeEnd, readEnd, client, files, server, sending>>

(* finalize closes the tar writer first, whether or not there was an error: it writes the trailer, *)
(* or fails when the last entry is short; then the gzip writer, which ends the body all the same.  *)
Finish ==
    /\ tar = "finish" \/ (tar = "add" /\ todo = <<>>)
    /\ offer' = <<IF short THEN Footer ELSE Trailer>>
    /\ tarErr' = IF short /\ tarErr = "nil" THEN "close" ELSE tarErr
    /\ tar' = "writeTrailer"
    /\ UNCHANGED <<listed, todo, statted, short, writeEnd, readEnd, client, files, server, sending>>

(* A write to the pipe returns when its reader took the chunk. *)
Written ==
    /\ tar \in {"writeEntry", "writeTrailer"} /\ offer = <<>>
    /\ tar' = IF tar = "writeTrailer" THEN "close" ELSE IF tarErr = "nil" THEN "add" ELSE "finish"
    /\ UNCHANGED <<listed, todo, statted, short, tarErr, writeEnd, pipe, client, files, server, sending>>

(* It fails when the reader closed its end; the writers remember that and write no more. *)
WriteFails ==
    /\ tar \in {"writeEntry", "writeTrailer"} /\ offer # <<>> /\ readEnd = "closed"
    /\ offer' = <<>>
    /\ tarErr' = IF tar = "writeEntry" \/ tarErr = "add" THEN "add" ELSE "close"
    /\ tar' = "close"
    /\ UNCHANGED <<listed, todo, statted, short, writeEnd, readEnd, client, files, server, sending>>

\* Mutant: the pipe is closed the same way after an error.
CloseWithoutError ==
    /\ tar = "close"
    /\ writeEnd' = "end"
    /\ tar' = "exited"
    /\ UNCHANGED <<listed, todo, statted, short, tarErr, pipe, client, files, server, sending>>

(* pw.CloseWithError(err): err is what finalize was called with, not what the two writers *)
(* said when they were closed.  That error reaches errc only.                             *)
CloseWriter ==
    /\ tar = "close"
    /\ writeEnd' = IF tarErr = "add" THEN "error" ELSE "end"
    /\ tar' = "exited"
    /\ UNCHANGED <<listed, todo, statted, short, tarErr, pipe, client, files, server, sending>>

Pack == ListFiles \/ StatEntry \/ CopyEntry \/ Finish \/ Written \/ WriteFails \/ CloseWriter

-------------------------------------------------------------------------------
(* The HTTP transport and the storage behind the upload URL                *)

(* The transport may go on with the body after an early refusal. *)
TakeChunk ==
    /\ put \in {"sending", "refused"} /\ readEnd = "open" /\ offer # <<>>
    /\ uploaded' = uploaded \o offer
    /\ offer' = <<>>
    /\ UNCHANGED <<put, readEnd, client, files, server, packing>>

TakeEnd ==
    /\ put = "sending" /\ offer = <<>> /\ writeEnd # "open"
    /\ put' = IF writeEnd = "end" THEN "sent" ELSE "failed"
    /\ UNCHANGED <<uploaded, client, files, server, packing, pipe>>

(* The storage has the whole body: it keeps it and answers, or refuses it; an answer may be lost. *)
AnswerUpload ==
    /\ put = "sent"
    /\ LET archive == [hash |-> hashes[copy], chunks |-> uploaded, listed |-> listed]
           others  == {a \in store : a.hash # archive.hash}
       IN  \/ store' = others \cup {archive} /\ put' \in {"ok", "failed"}
           \/ UNCHANGED store /\ put' \in {"refused", "failed"}
    /\ UNCHANGED <<uploaded, requested, triggered, client, files, packing, pipe>>

(* It refuses before it has the whole body, or the connection or the client's timeout ends it. *)
BreakUpload ==
    /\ put = "sending"
    /\ put' \in {"refused", "failed"}
    /\ UNCHANGED <<uploaded, client, files, server, packing, pipe>>

(* The transport closes the body of a request that is over, sooner or later. *)
CloseBody ==
    /\ put \in {"ok", "refused", "failed"} /\ readEnd = "open"
    /\ readEnd' = "closed"
    /\ UNCHANGED <<offer, client, files, server, packing, sending>>

Transfer == TakeChunk \/ TakeEnd \/ AnswerUpload \/ BreakUpload \/ CloseBody

-------------------------------------------------------------------------------
(* The end of an upload, and the trigger                                   *)

\* Mutant: the error channel is read before the pipe is closed.
DrainFirst ==
    /\ pc = "upload" /\ put \in {"ok", "refused", "failed", "badUrl"}
    /\ tar = "exited"
    /\ readEnd' = "closed"
    /\ pc' = "drain"
    /\ UNCHANGED <<opts, copy, hashes, body, result, files, server, packing, offer, sending>>

(* uploadFile returned: tarR.Close() unblocks the goroutine ... *)
CloseReader ==
    /\ pc = "upload" /\ put \in {"ok", "refused", "failed", "badUrl"}
    /\ readEnd' = "closed"
    /\ pc' = "drain"
    /\ UNCHANGED <<opts, copy, hashes, body, result, files, server, packing, offer, sending>>

\* Mutant: the goroutine is not waited for when the upload failed.
DrainIfUploaded ==
    /\ pc = "drain" /\ (tar = "exited" \/ put # "ok")
    /\ IF put = "ok" /\ tarErr = "nil"
       THEN NextCopy("probe", "serialize") /\ UNCHANGED result
       ELSE Return("error") /\ UNCHANGED copy
    /\ UNCHANGED <<opts, hashes, body, files, server, packing, pipe, sending>>

(* ... and <-errc waits for it to exit. *)
Drain ==
    /\ pc = "drain" /\ tar = "exited"
    /\ IF put = "ok" /\ tarErr = "nil"
       THEN NextCopy("probe", "serialize") /\ UNCHANGED result
       ELSE Return("error") /\ UNCHANGED copy
    /\ UNCHANGED <<opts, hashes, body, files, server, packing, pipe, sending>>

\* Mutant: the recorded error of the builder is not looked at.
SerializeBroken ==
    /\ pc = "serialize"
    /\ \/ /\ \A i \in DOMAIN Copies : FilesOf(i) # <<>>
          /\ body' = [i \in DOMAIN Copies |-> Hash(i)] /\ pc' = "trigger" /\ UNCHANGED result
       \/ Return("error") /\ UNCHANGED body
    /\ UNCHANGED <<opts, copy, hashes, files, server, packing, pipe, sending>>

(* serialize: only here is an error that the builder recorded looked at; then the *)
(* files are hashed once more, and these hashes are the ones in the request.      *)
Serialize ==
    /\ pc = "serialize"
    /\ \/ /\ ~opts.broken /\ \A i \in DOMAIN Copies : FilesOf(i) # <<>>
          /\ body' = [i \in DOMAIN Copies |-> Hash(i)] /\ pc' = "trigger" /\ UNCHANGED result
       \/ (opts.broken \/ Copies # <<>>) /\ Return("error") /\ UNCHANGED body
    /\ UNCHANGED <<opts, copy, hashes, files, server, packing, pipe, sending>>

(* triggerBuild: the server runs the build, and its answer may be lost. *)
Trigger ==
    /\ pc = "trigger"
    /\ \/ triggered' = body /\ Return("started")
       \/ triggered' \in {body, NotYet} /\ Return("error")
    /\ UNCHANGED <<opts, copy, hashes, body, files, requested, store, packing, pipe, sending>>

Start == \/ Validate \/ Request \/ HashCopy \/ Probe \/ StartUpload
         \/ CloseReader \/ Drain \/ Serialize \/ Trigger

-------------------------------------------------------------------------------
Next == Start \/ Pack \/ Transfer \/ \E f \in Files : Edit(f) \/ Delete(f)

Spec == Init /\ [][Next]_vars

(* The goroutines run; a request is answered, or the client's timeout ends it. *)
FairSpec == Spec /\ WF_vars(Start) /\ WF_vars(Pack) /\ WF_vars(Transfer)

-------------------------------------------------------------------------------
(* Properties *)

(* Every variable keeps to the values the code can give it. *)
TypeOK ==
    /\ pc \in {"validate", "request", "hash", "probe", "pack", "upload", "drain",
               "serialize", "trigger", "returned"}
    /\ copy \in 1..(Len(Copies) + 1)
    /\ Len(hashes) <= Len(Copies) /\ Len(body) \in {0, Len(Copies)}
    /\ result \in {"none", "started", "error"}
    /\ disk \in [Files -> {Gone} \cup Versions] /\ edits \in 0..MaxEdits
    /\ requested \in BOOLEAN
    /\ tar \in {"idle", "list", "add", "copy", "writeEntry", "finish", "writeTrailer", "close", "exited"}
    /\ statted \in {Gone} \cup Versions /\ short \in BOOLEAN
    /\ tarErr \in {"nil", "add", "close"} /\ Len(offer) <= 1
    /\ writeEnd \in {"open", "end", "error"} /\ readEnd \in {"open", "closed"}
    /\ put \in {"idle", "sending", "sent", "ok", "refused", "failed", "badUrl"}

(* The one archive without a trailer that the storage takes: its last file shrank while it was  *)
(* written, and the error of tw.Close did not close the pipe.                                   *)
CutShort(a) == Last(a.chunks) = Footer /\ Len(a.chunks) > 1 /\ Last(Front(a.chunks))[2] = Part

(* An archive that the server keeps holds every file the tar goroutine     *)
(* found, and its trailer; one that is cut short is never followed by the  *)
(* trigger of the start that stored it.  And if nobody touched the files   *)
(* meanwhile, an archive holds what its hash was computed from.            *)
StoredArchivesAreWhole ==
    \A a \in store : /\ a.chunks # <<>>
                     /\ a.listed = [n \in DOMAIN Front(a.chunks) |-> a.chunks[n][1]]
                     /\ Last(a.chunks) = Trailer \/ (CutShort(a) /\ triggered = NotYet)
                     /\ edits = 0 => a = ArchiveFor(a.hash)

(* If nobody touched the files meanwhile, a build that the server runs finds all its files there. *)
TriggeredIsStored ==
    edits = 0 /\ triggered # NotYet => \A i \in DOMAIN triggered : Stored(triggered[i])

(* A builder with a recorded error never makes the server build. *)
BrokenNeverBuilt == opts.broken => triggered = NotYet

(* "Drain producer before returning so the goroutine exits." *)
NoGoroutineLeft == pc = "returned" => tar \in {"idle", "exited"}

(* Build, BuildStream and BuildInBackground come back from the start of the build. *)
StartReturns == <>(pc = "returned")
===============================================================================
