--------------------------- MODULE BuildStartProofs ---------------------------
(***************************************************************************)
(* Theorems about BuildStart, for every list of COPY instructions and      *)
(* every number of edits.                                                  *)
(*                                                                         *)
(* The heart of it is PackInv: as long as nothing has gone wrong in the    *)
(* loop of the tar goroutine, what has passed through the pipe, or waits   *)
(* in it, is one chunk for each file written so far, in their order, and   *)
(* after the last the trailer, or what gz.Close writes if the last entry   *)
(* is short.  The pipe ends without an error only in that case, and the    *)
(* storage keeps a body only when the pipe ended so.                       *)
(***************************************************************************)
EXTENDS BuildStart, CommonLemmas, FiniteSetTheorems

(* What goes through the pipe: a file with its version, or the trailer.  What a hash stands for. *)
Entries == Files \X Nat
Chunks  == Entries \cup {Trailer, Footer}
Hashed  == [copy : Nat, content : Seq(Entries)]

(* The chunks the writer has put into the pipe: taken by the storage, or waiting. *)
Count    == Len(uploaded) + Len(offer)
Chunk(k) == IF k <= Len(uploaded) THEN uploaded[k] ELSE offer[1]

SeqInv == /\ hashes \in Seq(Hashed) /\ body \in Seq(Hashed)
          /\ listed \in Seq(Files) /\ todo \in Seq(Files)
          /\ uploaded \in Seq(Chunks) /\ offer \in Seq(Chunks)

(* Uploads run one after the other, each of them between its start and the drain. *)
PhaseInv ==
    /\ pc \in {"validate", "request"} => hashes = <<>> /\ copy = 1
    /\ pc = "hash" /\ Copies = <<>> => hashes = <<>>
    /\ pc = "hash" /\ Copies # <<>> => copy \in 1..Len(Copies) /\ Len(hashes) = copy - 1
    /\ pc \in {"probe", "pack", "upload", "drain"} => copy \in 1..Len(Copies)
    /\ pc \in {"probe", "pack", "upload", "drain", "serialize", "trigger"} => Len(hashes) = Len(Copies)
    /\ pc \notin {"upload", "drain"} => tar \in {"idle", "exited"}
    /\ put \in {"sending", "sent"} => pc = "upload"

(* While nobody has touched the files, the hashes are theirs. *)
HashInv == edits = 0 => \A i \in 1..Len(hashes) : hashes[i] = Hash(i)

(* What is known to be stored. *)
StoredInv ==
    /\ pc \in {"probe", "pack", "upload", "drain"} => \A i \in 1..(copy - 1) : Stored(hashes[i])
    /\ pc \in {"serialize", "trigger"} => \A i \in 1..Len(Copies) : Stored(hashes[i])
    /\ pc \in {"upload", "drain"} /\ put = "ok" => Stored(hashes[copy])
    /\ pc = "trigger" /\ edits = 0 => \A i \in DOMAIN body : Stored(body[i])

BrokenInv == pc = "trigger" => ~opts.broken

(* The writer's end of the pipe, and the reader's. *)
PipeInv ==
    /\ tar \notin {"writeEntry", "writeTrailer"} => offer = <<>>
    /\ writeEnd # "open" => tar = "exited"
    /\ writeEnd = "end" => tarErr # "add"
    /\ put = "sent" => writeEnd = "end"
    /\ put \in {"sending", "sent"} => readEnd = "open"
    /\ tar = "list" => uploaded = <<>> /\ ~short

(* Where the goroutine is with the file it writes, and what it knows to be wrong. *)
StatInv ==
    /\ tar = "copy" => todo # <<>> /\ ~short /\ (edits = 0 => statted = disk[todo[1]])
    /\ tarErr = "close" => tar \in {"writeTrailer", "close", "exited"}
    /\ tar \in {"list", "add", "copy"} => tarErr = "nil"
    /\ tar = "finish" => tarErr = "add"
    /\ short /\ tar \in {"writeTrailer", "close", "exited"} => tarErr # "nil"

(* An archive cut short is there only since the upload that startBuild is at, or was ended by. *)
CutInv ==
    /\ pc # "returned" => triggered = NotYet
    /\ \A a \in store : \/ Last(a.chunks) = Trailer
                       \/ pc = "returned"
                       \/ (pc \in {"upload", "drain"} /\ tarErr # "nil" /\ tar = "exited")

(* The chunk that stands for the k-th file of the list. *)
IsEntry(k) == /\ Chunk(k)[1] = listed[k]
              /\ edits = 0 => Chunk(k) = <<listed[k], disk[listed[k]]>>

Packed == Len(listed) - Len(todo)

End    == IF short THEN Footer ELSE Trailer

PackInv ==
    tar \notin {"idle", "list"} /\ tarErr # "add" /\ readEnd = "open" =>
        /\ Packed \in Nat
        /\ \A k \in 1..Len(todo) : todo[k] = listed[Packed + k]
        /\ \A k \in 1..Packed : IsEntry(k)
        /\ tar \in {"add", "copy", "writeEntry"} => Count = Packed
        /\ tar \in {"writeTrailer", "close", "exited"} =>
              todo = <<>> /\ Count = Packed + 1 /\ Chunk(Count) = End
        /\ short => Packed > 0 /\ edits # 0 /\ Chunk(Packed)[2] = Part
        /\ edits = 0 /\ pc \in {"upload", "drain"} => listed = FilesOf(copy)

Inv == /\ TypeOK /\ SeqInv /\ PhaseInv /\ HashInv /\ PipeInv /\ StatInv /\ PackInv
       /\ StoredInv /\ BrokenInv /\ CutInv
       /\ StoredArchivesAreWhole /\ TriggeredIsStored /\ BrokenNeverBuilt

-------------------------------------------------------------------------------
(* The k-th element of a set of numbers is the one at which k of them are counted. *)
LEMMA NthExists ==
    ASSUME NEW L \in Nat, NEW there \in SUBSET (1..L), NEW k \in 1..Cardinality(there)
    PROVE  \E n \in there : Cardinality(there \cap 1..n) = k
  <1> DEFINE Counted(n) == Cardinality(there \cap 1..n)
             T == {n \in Nat : Counted(n) >= k}
  <1>1. IsFiniteSet(there) /\ Cardinality(there) \in Nat
    <2>1. IsFiniteSet(1..L)
      BY FS_Interval
    <2>2. QED
      BY <2>1, FS_Subset, FS_CardinalityType
  <1>2. \A n \in Nat : IsFiniteSet(there \cap 1..n) /\ Counted(n) \in Nat
    <2>1. \A n \in Nat : IsFiniteSet(there \cap 1..n)
      BY <1>1, FS_Subset
    <2>2. QED
      BY <2>1, FS_CardinalityType
  <1>3. there \cap 1..L = there /\ k \in Nat \ {0} /\ k <= Cardinality(there)
    <2>1. there \cap 1..L = there
      OBVIOUS
    <2>2. QED
      BY <2>1, <1>1
  <1>4. T # {} /\ T \subseteq Nat
    <2>1. Counted(L) >= k
      BY <1>1, <1>3
    <2>2. QED
      BY <2>1
  <1>5. PICK n \in T : \A m \in T : n <= m
    <2> HIDE DEF T
    <2>1. QED
      BY <1>4, LeastOf
  <1>6. n \in Nat /\ Counted(n) >= k
    BY <1>5
  <1>7. n # 0
    <2>1. there \cap 1..0 = {} /\ Counted(0) = 0
      BY FS_EmptySet
    <2>2. QED
      BY <2>1, <1>3, <1>6
  <1>8. n - 1 \in Nat /\ Counted(n - 1) \in Nat /\ Counted(n - 1) < k
    <2>1. n - 1 \in Nat /\ ~(n <= n - 1)
      BY <1>6, <1>7
    <2>2. n - 1 \notin T
      BY <1>5, <2>1
    <2>3. Counted(n - 1) \in Nat
      BY <1>2, <2>1
    <2>4. QED
      BY <2>1, <2>2, <2>3, <1>3
  <1>9. n \in there /\ Counted(n) = Counted(n - 1) + 1
    <2>1. 1..n = (1..(n - 1)) \cup {n} /\ n \notin 1..(n - 1)
      BY <1>6, <1>7
    <2>2. CASE n \notin there
      <3>1. there \cap 1..n = there \cap 1..(n - 1)
        BY <2>1, <2>2
      <3>2. QED
        BY <3>1, <1>2, <1>3, <1>6, <1>8
    <2>3. CASE n \in there
      <3>1. there \cap 1..n = (there \cap 1..(n - 1)) \cup {n} /\ n \notin there \cap 1..(n - 1)
        BY <2>1, <2>3
      <3>2. Counted(n) = Counted(n - 1) + 1
        BY <3>1, <1>2, <1>8, FS_AddElement
      <3>3. QED
        BY <3>2, <2>3
    <2>4. QED
      BY <2>2, <2>3
  <1>10. Counted(n) = k
    BY <1>3, <1>6, <1>8, <1>9
  <1>11. QED
    BY <1>9, <1>10

(* getAllFilesInPath finds files of the COPY that exist; the hash stands for them and their versions. *)
LEMMA FilesType ==
    ASSUME BuildStartOK, disk \in [Files -> {Gone} \cup Versions], NEW i \in DOMAIN Copies
    PROVE  /\ FilesOf(i) \in Seq(Files)
           /\ Hash(i) \in Hashed
           /\ Hash(i).content \in Seq(Entries) /\ Len(Hash(i).content) = Len(FilesOf(i))
           /\ \A n \in 1..Len(FilesOf(i)) : Hash(i).content[n] = <<FilesOf(i)[n], disk[FilesOf(i)[n]]>>
  <1> DEFINE fs == Copies[i].files
             there == {n \in DOMAIN fs : disk[fs[n]] # Gone}
             Nth(k) == CHOOSE n \in there : Cardinality(there \cap 1..n) = k
             found == FilesOf(i)
  <1>1. /\ fs \in Seq(Files) /\ DOMAIN fs = 1..Len(fs) /\ Len(fs) \in Nat
        /\ DOMAIN Copies = 1..Len(Copies) /\ Len(Copies) \in Nat
    <2>1. Copies \in Seq([files : Seq(Files), force : BOOLEAN])
      BY DEF BuildStartOK
    <2>2. DOMAIN Copies = 1..Len(Copies) /\ Len(Copies) \in Nat
      BY <2>1, LenProperties
    <2>3. Copies[i] \in [files : Seq(Files), force : BOOLEAN]
      BY <2>1, <2>2, ElementOfSeq
    <2>4. fs \in Seq(Files)
      BY <2>3
    <2>5. QED
      BY <2>2, <2>4, LenProperties
  <1>2. there \subseteq 1..Len(fs) /\ Cardinality(there) \in Nat
    <2> HIDE DEF fs
    <2>1. IsFiniteSet(1..Len(fs))
      BY <1>1, FS_Interval
    <2>2. there \subseteq 1..Len(fs)
      BY <1>1
    <2>3. QED
      BY <2>1, <2>2, FS_Subset, FS_CardinalityType
  <1>3. found = [k \in 1..Cardinality(there) |-> fs[Nth(k)]]
    BY DEF FilesOf
  <1> HIDE DEF there, found
  <1>4. \A k \in 1..Cardinality(there) : Nth(k) \in there
    BY <1>1, <1>2, NthExists
  <1>5. \A k \in 1..Cardinality(there) : fs[Nth(k)] \in Files
    BY <1>1, <1>2, <1>4, ElementOfSeq
  <1>6. found \in Seq(Files)
    <2> DEFINE e(k) == fs[Nth(k)]
               n == Cardinality(there)
    <2>1. n \in Nat /\ found = [k \in 1..n |-> e(k)] /\ \A k \in 1..n : e(k) \in Files
      BY <1>2, <1>3, <1>5
    <2> HIDE DEF e, n
    <2>2. QED
      BY <2>1
  <1>7. Len(found) \in Nat /\ DOMAIN found = 1..Len(found) /\ \A n \in 1..Len(found) : found[n] \in Files
    BY <1>6, LenProperties, ElementOfSeq
  <1>8. /\ Hash(i) = [copy |-> i, content |-> [n \in DOMAIN found |-> <<found[n], disk[found[n]]>>]]
    BY DEF Hash, found
  <1>9. \A n \in 1..Len(found) : <<found[n], disk[found[n]]>> \in Entries
    <2>1. \A f \in Files : disk[f] \in Nat
      BY BuildStartOK DEF BuildStartOK, Gone, Versions
    <2>2. QED
      BY <1>7, <2>1 DEF Entries
  <1>10. /\ Hash(i).content \in Seq(Entries) /\ Len(Hash(i).content) = Len(found)
         /\ \A n \in 1..Len(found) : Hash(i).content[n] = <<found[n], disk[found[n]]>>
    BY <1>7, <1>8, <1>9
  <1>11. Hash(i) \in Hashed
    BY <1>1, <1>8, <1>10 DEF Hashed
  <1>12. QED
    BY <1>6, <1>10, <1>11 DEF found

(* Files and hashes depend on nothing but the disk. *)
LEMMA SameDisk == ASSUME disk' = disk PROVE \A i : FilesOf(i)' = FilesOf(i) /\ Hash(i)' = Hash(i)
  <1>1. \A i : FilesOf(i)' = FilesOf(i)
    BY DEF FilesOf
  <1>2. QED
    BY <1>1 DEF Hash

(* In particular the files of the COPY that startBuild is at. *)
LEMMA SameFound == ASSUME disk' = disk, copy' = copy PROVE FilesOf(copy)' = FilesOf(copy)
  BY DEF FilesOf

(* The number of COPY instructions. *)
LEMMA CopiesLen == Len(Copies) \in Nat /\ DOMAIN Copies = 1..Len(Copies) /\ (Copies = <<>> <=> Len(Copies) = 0)
  <1>1. Copies \in Seq([files : Seq(Files), force : BOOLEAN])
    BY BuildStartOK DEF BuildStartOK
  <1>2. QED
    BY <1>1, LenProperties, EmptySeq

(* All but the last element of a sequence. *)
LEMMA FrontDomain == ASSUME NEW S, NEW s \in Seq(S), s # <<>> PROVE DOMAIN Front(s) = 1..(Len(s) - 1)
  <1>1. Len(s) \in Nat \ {0} /\ Front(s) = SubSeq(s, 1, Len(s) - 1)
    BY EmptySeq DEF Front
  <1>2. \A i \in 1..(Len(s) - 1) : s[i] \in S
    BY <1>1, ElementOfSeq
  <1>3. Front(s) \in Seq(S) /\ Len(Front(s)) = Len(s) - 1
    <2> DEFINE n == Len(s) - 1
    <2>1. n \in Nat /\ Front(s) = SubSeq(s, 1, n) /\ \A i \in 1..n : s[i] \in S
      BY <1>1, <1>2
    <2> HIDE DEF n
    <2>2. SubSeq(s, 1, n) \in Seq(S) /\ Len(SubSeq(s, 1, n)) = IF 1 <= n THEN n - 1 + 1 ELSE 0
      BY <2>1, SubSeqProperties
    <2>3. Len(Front(s)) = n
      BY <2>1, <2>2
    <2>4. QED
      BY <2>1, <2>2, <2>3 DEF n
  <1>4. QED
    BY <1>3, LenProperties

(* The last element but one. *)
LEMMA LastOfFront ==
    ASSUME NEW S, NEW s \in Seq(S), NEW n \in Nat \ {0}, Len(s) = n + 1
    PROVE  Last(Front(s)) = s[n]
  <1>1. Front(s) = SubSeq(s, 1, n)
    BY DEF Front
  <1>2. \A i \in 1..n : s[i] \in S
    BY ElementOfSeq
  <1>3. Len(SubSeq(s, 1, n)) = n /\ \A i \in 1..n : SubSeq(s, 1, n)[i] = s[1 + i - 1]
    BY <1>2, SubSeqProperties
  <1>4. QED
    BY <1>1, <1>3 DEF Last

(* The archive that belongs under a hash is whole. *)
LEMMA ArchiveIsWhole ==
    ASSUME NEW h \in Hashed
    PROVE  LET a == ArchiveFor(h)
           IN  /\ a.hash = h
               /\ a.chunks # <<>> /\ Last(a.chunks) = Trailer
               /\ a.listed = [n \in DOMAIN Front(a.chunks) |-> a.chunks[n][1]]
               /\ a = ArchiveFor(a.hash)
  <1> DEFINE a == ArchiveFor(h)
             c == h.content
  <1>1. a = [hash |-> h, chunks |-> Append(c, Trailer), listed |-> [n \in DOMAIN c |-> c[n][1]]]
    BY DEF ArchiveFor
  <1>2. a.hash = h /\ a.chunks = Append(c, Trailer) /\ a.listed = [n \in DOMAIN c |-> c[n][1]]
    BY <1>1
  <1>3. c \in Seq(Chunks) /\ Trailer \in Chunks
    <2>1. c \in Seq(Entries) /\ Entries \subseteq Chunks
      BY DEF Hashed, Chunks
    <2>2. QED
      BY <2>1, SeqMonotonic DEF Chunks
  <1> HIDE DEF a, c
  <1>4. /\ a.chunks \in Seq(Chunks) /\ a.chunks # <<>> /\ Len(a.chunks) = Len(c) + 1
        /\ \A n \in 1..Len(c) : a.chunks[n] = c[n]
        /\ a.chunks[Len(c) + 1] = Trailer
        /\ Len(c) \in Nat /\ DOMAIN c = 1..Len(c)
    BY <1>2, <1>3, AppendProperties, LenProperties
  <1>5. Last(a.chunks) = Trailer
    BY <1>4 DEF Last
  <1>6. DOMAIN Front(a.chunks) = 1..Len(c)
    BY <1>4, FrontDomain
  <1>7. a.listed = [n \in DOMAIN Front(a.chunks) |-> a.chunks[n][1]]
    BY <1>2, <1>4, <1>6
  <1>8. QED
    BY <1>1, <1>2, <1>4, <1>5, <1>7 DEF a

(* Initially the server may have stored archives before: of the files as they are. *)
LEMMA InvInit == Init => Inv
  <1> SUFFICES ASSUME Init PROVE Inv
    OBVIOUS
  <1>1. /\ pc = "validate" /\ copy = 1 /\ hashes = <<>> /\ body = <<>> /\ result = "none"
        /\ disk \in [Files -> {Gone, 1}] /\ edits = 0 /\ requested = FALSE /\ triggered = NotYet
        /\ tar = "idle" /\ listed = <<>> /\ todo = <<>> /\ statted = Gone /\ short = FALSE /\ tarErr = "nil"
        /\ offer = <<>> /\ writeEnd = "open" /\ readEnd = "open" /\ put = "idle" /\ uploaded = <<>>
    BY DEF Init
  <1>2. PICK known \in SUBSET {i \in DOMAIN Copies : FilesOf(i) # <<>>} :
           store = {ArchiveFor(Hash(i)) : i \in known}
    BY DEF Init
  <1>3. MaxEdits \in Nat /\ Len(Copies) \in Nat
    BY BuildStartOK, CopiesLen DEF BuildStartOK
  <1>4. disk \in [Files -> {Gone} \cup Versions]
    <2>1. {Gone, 1} \subseteq {Gone} \cup Versions
      BY <1>3 DEF Versions
    <2>2. QED
      BY <1>1, <2>1
  <1>5. SeqInv
    BY <1>1, EmptySeq DEF SeqInv
  <1>6. Len(hashes) = 0 /\ Len(body) = 0 /\ Len(offer) = 0
    BY <1>1, EmptySeq
  <1>7. TypeOK
    <2>1. copy \in 1..(Len(Copies) + 1) /\ edits \in 0..MaxEdits /\ Len(hashes) <= Len(Copies)
          /\ Len(body) \in {0, Len(Copies)} /\ Len(offer) <= 1
      BY <1>1, <1>3, <1>6
    <2>2. QED
      BY <1>1, <1>4, <1>6, <2>1 DEF TypeOK
  <1>8. PhaseInv /\ HashInv /\ StoredInv /\ BrokenInv /\ PipeInv /\ StatInv /\ PackInv
    BY <1>1, <1>6 DEF PhaseInv, HashInv, StoredInv, BrokenInv, PipeInv, StatInv, PackInv
  <1>9. StoredArchivesAreWhole
    <2>1. SUFFICES ASSUME NEW i \in known
                   PROVE  LET a == ArchiveFor(Hash(i))
                          IN  /\ a.chunks # <<>>
                              /\ a.listed = [n \in DOMAIN Front(a.chunks) |-> a.chunks[n][1]]
                              /\ Last(a.chunks) = Trailer \/ (CutShort(a) /\ triggered = NotYet)
                              /\ edits = 0 => a = ArchiveFor(a.hash)
      BY <1>2, Zenon DEF StoredArchivesAreWhole
    <2>2. Hash(i) \in Hashed
      BY <1>4, BuildStartOK, FilesType
    <2>3. QED
      BY <2>2, ArchiveIsWhole, Zenon
  <1>10. TriggeredIsStored /\ BrokenNeverBuilt
    BY <1>1 DEF TriggeredIsStored, BrokenNeverBuilt
  <1>11. CutInv
    <2>1. \A i \in known : Last(ArchiveFor(Hash(i)).chunks) = Trailer
      <3>1. SUFFICES ASSUME NEW i \in known PROVE Last(ArchiveFor(Hash(i)).chunks) = Trailer
        OBVIOUS
      <3>2. Hash(i) \in Hashed
        BY <1>4, BuildStartOK, FilesType
      <3>3. QED
        BY <3>2, ArchiveIsWhole, Zenon
    <2>2. \A a \in store : Last(a.chunks) = Trailer
      BY <1>2, <2>1, Zenon
    <2>3. QED
      BY <1>1, <2>2 DEF CutInv
  <1>12. QED
    BY <1>5, <1>7, <1>8, <1>9, <1>10, <1>11 DEF Inv

(* The loops over the COPY instructions go through all of them. *)
LEMMA NextCopyIs ==
    ASSUME copy \in 1..Len(Copies), NEW again, NEW after, NextCopy(again, after)
    PROVE  /\ copy \in Nat /\ copy <= Len(Copies) /\ copy' \in 1..Len(Copies)
           /\ \/ pc' = again /\ copy' = copy + 1
              \/ pc' = after /\ copy = Len(Copies) /\ copy' = 1
  <1>1. ASSUME NEW n \in Nat, NEW c \in 1..n
        PROVE  /\ c \in Nat /\ c <= n /\ 1 \in 1..n
               /\ c < n => c + 1 \in 1..n
               /\ ~(c < n) => c = n
    OBVIOUS
  <1>2. /\ copy \in Nat /\ copy <= Len(Copies) /\ 1 \in 1..Len(Copies)
        /\ copy < Len(Copies) => copy + 1 \in 1..Len(Copies)
        /\ ~(copy < Len(Copies)) => copy = Len(Copies)
    BY <1>1, CopiesLen
  <1>3. CASE copy < Len(Copies)
    <2>1. pc' = again /\ copy' = copy + 1
      BY <1>3, Zenon DEF NextCopy
    <2>2. QED
      BY <1>2, <1>3, <2>1, Zenon
  <1>4. CASE ~(copy < Len(Copies))
    BY <1>2, <1>4, Zenon DEF NextCopy
  <1>5. QED
    BY <1>3, <1>4

-------------------------------------------------------------------------------
(* What startBuild does between uploads leaves the pipe, the storage and the files alone. *)
LEMMA ClientFrame ==
    ASSUME Inv, UNCHANGED <<files, packing, offer, sending, store>>,
           readEnd' = readEnd \/ (readEnd' = "closed" /\ put \notin {"sending", "sent"}),
           pc' \in {"upload", "drain"} => pc \in {"upload", "drain"} /\ copy' = copy
    PROVE  /\ PackInv' /\ PipeInv' /\ StatInv'
           /\ triggered' = triggered => StoredArchivesAreWhole'
           /\ /\ pc' # "returned" => pc # "returned"
              /\ triggered' = triggered \/ pc' = "returned"
              /\ pc \in {"upload", "drain"} => pc' \in {"upload", "drain", "returned"} \/ tarErr = "nil"
              => CutInv'
           /\ \A h : Stored(h)' = Stored(h)
           /\ hashes' = hashes => HashInv'
           /\ listed' \in Seq(Files) /\ todo' \in Seq(Files)
           /\ uploaded' \in Seq(Chunks) /\ offer' \in Seq(Chunks)
  <1>1. /\ disk' = disk /\ edits' = edits /\ offer' = offer /\ put' = put /\ uploaded' = uploaded /\ store' = store
        /\ tar' = tar /\ listed' = listed /\ todo' = todo /\ statted' = statted /\ short' = short /\ tarErr' = tarErr /\ writeEnd' = writeEnd
    BY DEF files, packing, sending
  <1>2. \A i : FilesOf(i)' = FilesOf(i) /\ Hash(i)' = Hash(i)
    BY <1>1, SameDisk
  <1>3. PackInv'
    <2>1. Count' = Count /\ Packed' = Packed /\ End' = End /\ \A k : Chunk(k)' = Chunk(k) /\ IsEntry(k)' = IsEntry(k)
      BY <1>1 DEF Count, Packed, Chunk, IsEntry, End
    <2>2. pc' \in {"upload", "drain"} => FilesOf(copy)' = FilesOf(copy)
      <3>1. copy' = copy => FilesOf(copy)' = FilesOf(copy)
        BY <1>1, SameFound
      <3>2. QED
        BY <3>1
    <2>3. QED
      BY <1>1, <2>1, <2>2 DEF Inv, PackInv
  <1>4. PipeInv' /\ StatInv'
    BY <1>1 DEF Inv, PipeInv, StatInv
  <1>5. triggered' = triggered => StoredArchivesAreWhole'
    BY <1>1, Zenon DEF Inv, StoredArchivesAreWhole, CutShort
  <1>6. \A h : Stored(h)' = Stored(h)
    BY <1>1 DEF Stored
  <1>7. hashes' = hashes => HashInv'
    BY <1>1, <1>2 DEF Inv, HashInv
  <1>8. ASSUME pc' # "returned" => pc # "returned", triggered' = triggered \/ pc' = "returned",
               pc \in {"upload", "drain"} => pc' \in {"upload", "drain", "returned"} \/ tarErr = "nil"
        PROVE  CutInv'
    BY <1>1, <1>8 DEF Inv, CutInv
  <1>9. QED
    BY <1>1, <1>3, <1>4, <1>5, <1>6, <1>7, <1>8 DEF Inv, SeqInv

(* The refusal of the options, and the request that fails or not. *)
LEMMA OpenInv == ASSUME Inv, Validate \/ Request PROVE Inv'
  <1>1. /\ pc \in {"validate", "request"} /\ pc' \in {"request", "hash", "returned"}
        /\ pc = "validate" => pc' \in {"request", "returned"}
        /\ result' \in {result, "error"} /\ requested' \in {requested, TRUE, FALSE}
        /\ UNCHANGED <<opts, copy, hashes, body, files, triggered, store, packing, pipe, sending>>
    BY DEF Validate, Request, Return, server
  <1>2. /\ opts' = opts /\ copy' = copy /\ hashes' = hashes /\ body' = body /\ triggered' = triggered
        /\ disk' = disk /\ edits' = edits /\ offer' = offer /\ readEnd' = readEnd /\ put' = put
        /\ tar' = tar /\ statted' = statted /\ short' = short /\ tarErr' = tarErr /\ writeEnd' = writeEnd
    BY <1>1 DEF files, packing, pipe, sending
  <1>3. /\ PackInv' /\ PipeInv' /\ StatInv' /\ CutInv' /\ StoredArchivesAreWhole' /\ HashInv'
        /\ \A h : Stored(h)' = Stored(h)
        /\ listed' \in Seq(Files) /\ todo' \in Seq(Files)
        /\ uploaded' \in Seq(Chunks) /\ offer' \in Seq(Chunks)
    <2>1. /\ UNCHANGED <<files, packing, offer, sending, store>> /\ pc' \notin {"upload", "drain"}
          /\ pc \notin {"upload", "drain", "returned"}
      BY <1>1, <1>2
    <2>2. QED
      BY <1>2, <2>1, ClientFrame
  <1>4. TypeOK'
    <2>1. pc' \in {"request", "hash", "returned"} /\ result' \in {"none", "started", "error"} /\ requested' \in BOOLEAN
      BY <1>1 DEF Inv, TypeOK
    <2>2. QED
      BY <1>2, <2>1 DEF Inv, TypeOK
  <1>5. SeqInv'
    BY <1>2, <1>3 DEF Inv, SeqInv
  <1>6. PhaseInv'
    <2>1. hashes = <<>> /\ copy = 1 /\ Len(hashes) = copy - 1 /\ (Copies # <<>> => copy \in 1..Len(Copies))
      BY <1>1, CopiesLen, EmptySeq DEF Inv, PhaseInv
    <2>2. tar \in {"idle", "exited"} /\ put \notin {"sending", "sent"}
      BY <1>1 DEF Inv, PhaseInv
    <2>3. QED
      BY <1>1, <1>2, <2>1, <2>2 DEF PhaseInv
  <1>7. StoredInv' /\ BrokenInv'
    BY <1>1 DEF StoredInv, BrokenInv
  <1>8. TriggeredIsStored' /\ BrokenNeverBuilt'
    BY <1>2, <1>3 DEF Inv, TriggeredIsStored, BrokenNeverBuilt
  <1>9. QED
    BY <1>3, <1>4, <1>5, <1>6, <1>7, <1>8 DEF Inv

(* A hash is added, and the loop goes on or ends. *)
LEMMA HashCopyInv == ASSUME Inv, HashCopy PROVE Inv'
  <1>1. /\ pc = "hash"
        /\ UNCHANGED <<opts, body, files, server, packing, pipe, sending>>
        /\ \/ Copies = <<>> /\ pc' = "serialize" /\ UNCHANGED <<copy, hashes, result>>
           \/ /\ Copies # <<>>
              /\ hashes' = Append(hashes, Hash(copy)) /\ UNCHANGED result
              /\ IF copy < Len(Copies) THEN pc' = "hash" /\ copy' = copy + 1 ELSE pc' = "probe" /\ copy' = 1
           \/ Copies # <<>> /\ pc' = "returned" /\ result' = "error" /\ UNCHANGED <<copy, hashes>>
    BY DEF HashCopy, NextCopy, Return
  <1>2. /\ opts' = opts /\ body' = body /\ triggered' = triggered /\ requested' = requested /\ store' = store
        /\ disk' = disk /\ edits' = edits /\ offer' = offer /\ readEnd' = readEnd /\ put' = put
        /\ tar' = tar /\ statted' = statted /\ short' = short /\ tarErr' = tarErr /\ writeEnd' = writeEnd
    BY <1>1 DEF server, files, packing, pipe, sending
  <1>3. pc' \in {"serialize", "hash", "probe", "returned"}
    BY <1>1
  <1>4. /\ PackInv' /\ PipeInv' /\ StatInv' /\ CutInv' /\ StoredArchivesAreWhole' /\ (hashes' = hashes => HashInv')
        /\ \A h : Stored(h)' = Stored(h)
        /\ listed' \in Seq(Files) /\ todo' \in Seq(Files)
        /\ uploaded' \in Seq(Chunks) /\ offer' \in Seq(Chunks)
    <2>1. /\ UNCHANGED <<files, packing, offer, sending, store>> /\ pc' \notin {"upload", "drain"}
          /\ pc \notin {"upload", "drain", "returned"}
      BY <1>1, <1>2, <1>3
    <2>2. QED
      BY <1>2, <2>1, ClientFrame
  <1>5. Len(Copies) \in Nat /\ (Copies = <<>> <=> Len(Copies) = 0) /\ DOMAIN Copies = 1..Len(Copies)
    BY CopiesLen
  <1>6. hashes \in Seq(Hashed) /\ Len(hashes) \in Nat /\ (hashes = <<>> => Len(hashes) = 0)
    BY EmptySeq, LenProperties DEF Inv, SeqInv
  <1>7. tar \in {"idle", "exited"} /\ put \notin {"sending", "sent"}
    BY <1>1 DEF Inv, PhaseInv
  <1>8. TriggeredIsStored' /\ BrokenNeverBuilt' /\ BrokenInv'
    BY <1>2, <1>3, <1>4 DEF Inv, TriggeredIsStored, BrokenNeverBuilt, BrokenInv
  <1>9. CASE Copies = <<>> /\ pc' = "serialize" /\ UNCHANGED <<copy, hashes, result>>
    <2>1. Len(hashes) = 0 /\ Len(Copies) = 0
      BY <1>1, <1>5, <1>6, <1>9 DEF Inv, PhaseInv
    <2>2. TypeOK' /\ SeqInv'
      BY <1>2, <1>4, <1>9 DEF Inv, TypeOK, SeqInv
    <2>3. PhaseInv'
      BY <1>2, <1>7, <1>9, <2>1 DEF PhaseInv
    <2>4. StoredInv'
      BY <1>9, <2>1 DEF StoredInv
    <2>5. QED
      BY <1>4, <1>8, <1>9, <2>2, <2>3, <2>4 DEF Inv
  <1>10. CASE Copies # <<>> /\ pc' = "returned" /\ result' = "error" /\ UNCHANGED <<copy, hashes>>
    <2>1. TypeOK' /\ SeqInv'
      BY <1>2, <1>4, <1>10 DEF Inv, TypeOK, SeqInv
    <2>2. PhaseInv' /\ StoredInv'
      BY <1>2, <1>7, <1>10 DEF PhaseInv, StoredInv
    <2>3. QED
      BY <1>4, <1>8, <1>10, <2>1, <2>2 DEF Inv
  <1>11. CASE /\ Copies # <<>>
              /\ hashes' = Append(hashes, Hash(copy)) /\ UNCHANGED result
              /\ IF copy < Len(Copies) THEN pc' = "hash" /\ copy' = copy + 1 ELSE pc' = "probe" /\ copy' = 1
    <2>1. copy \in 1..Len(Copies) /\ Len(hashes) = copy - 1
      BY <1>1, <1>11 DEF Inv, PhaseInv
    <2>2. Hash(copy) \in Hashed
      BY <1>5, <2>1, FilesType, BuildStartOK DEF Inv, TypeOK
    <2>3. /\ hashes' \in Seq(Hashed) /\ Len(hashes') = copy
          /\ \A i \in 1..(copy - 1) : hashes'[i] = hashes[i]
          /\ hashes'[copy] = Hash(copy)
      <3>1. /\ hashes' \in Seq(Hashed) /\ Len(hashes') = Len(hashes) + 1
            /\ \A i \in 1..Len(hashes) : hashes'[i] = hashes[i]
            /\ hashes'[Len(hashes) + 1] = Hash(copy)
        BY <1>6, <1>11, <2>2, AppendProperties
      <3>2. Len(hashes) + 1 = copy
        BY <1>5, <2>1
      <3>3. QED
        BY <3>1, <3>2, <2>1
    <2>4. copy \in Nat /\ copy <= Len(Copies) /\ copy' \in 1..Len(Copies)
          /\ \/ pc' = "hash" /\ copy' = copy + 1
             \/ pc' = "probe" /\ copy = Len(Copies) /\ copy' = 1
      <3>1. NextCopy("hash", "probe")
        BY <1>11 DEF NextCopy
      <3>2. QED
        BY <2>1, <3>1, NextCopyIs
    <2>5. TypeOK'
      <3>1. Len(hashes') <= Len(Copies)
        BY <2>3, <2>4, Zenon
      <3>2. \A c \in 1..Len(Copies) : c \in 1..(Len(Copies) + 1)
        BY <1>5
      <3>3. copy' \in 1..(Len(Copies) + 1)
        BY <2>4, <3>2, Zenon
      <3>4. QED
        BY <1>2, <1>11, <2>4, <3>1, <3>3 DEF Inv, TypeOK
    <2>6. SeqInv'
      BY <1>2, <1>4, <2>3 DEF Inv, SeqInv
    <2>7. PhaseInv'
      <3>1. (pc' = "hash" => Len(hashes') = copy' - 1) /\ (pc' = "probe" => Len(hashes') = Len(Copies))
        <4>1. copy + 1 - 1 = copy
          BY <2>4
        <4>2. CASE pc' = "hash" /\ copy' = copy + 1
          BY <2>3, <4>1, <4>2
        <4>3. CASE pc' = "probe" /\ copy = Len(Copies) /\ copy' = 1
          BY <2>3, <4>3
        <4>4. QED
          BY <2>4, <4>2, <4>3
      <3>2. QED
        BY <1>2, <1>7, <1>11, <2>4, <3>1 DEF PhaseInv
    <2>8. HashInv'
      <3>1. \A i : Hash(i)' = Hash(i)
        BY <1>2, SameDisk
      <3>2. \A i \in 1..copy : i \in 1..(copy - 1) \/ i = copy
        BY <2>4
      <3>3. QED
        BY <1>2, <2>1, <2>3, <3>1, <3>2 DEF Inv, HashInv
    <2>9. StoredInv'
      <3>1. pc' = "probe" => \A i \in 1..(copy' - 1) : FALSE
        BY <2>4
      <3>2. QED
        BY <2>4, <3>1 DEF StoredInv
    <2>10. QED
      BY <1>4, <1>8, <2>5, <2>6, <2>7, <2>8, <2>9 DEF Inv
  <1>12. QED
    BY <1>1, <1>9, <1>10, <1>11

(* startBuild returns an error while no upload is under way. *)
LEMMA ErrorInv ==
    ASSUME Inv, Return("error"), tar \in {"idle", "exited"}, put \notin {"sending", "sent"},
           UNCHANGED <<opts, copy, hashes, body, files, server, packing, pipe, sending>>
    PROVE  Inv'
  <1>1. /\ pc' = "returned" /\ result' = "error"
        /\ opts' = opts /\ copy' = copy /\ hashes' = hashes /\ body' = body
        /\ requested' = requested /\ triggered' = triggered /\ store' = store
        /\ disk' = disk /\ edits' = edits /\ offer' = offer /\ readEnd' = readEnd /\ put' = put
        /\ tar' = tar /\ statted' = statted /\ short' = short /\ tarErr' = tarErr /\ writeEnd' = writeEnd
    BY DEF Return, server, files, packing, pipe, sending
  <1>2. /\ PackInv' /\ PipeInv' /\ StatInv' /\ CutInv' /\ StoredArchivesAreWhole' /\ HashInv'
        /\ \A h : Stored(h)' = Stored(h)
        /\ listed' \in Seq(Files) /\ todo' \in Seq(Files)
        /\ uploaded' \in Seq(Chunks) /\ offer' \in Seq(Chunks)
    <2>1. UNCHANGED <<files, packing, offer, sending, store>> /\ pc' \notin {"upload", "drain"}
      BY <1>1
    <2>2. QED
      BY <1>1, <2>1, ClientFrame
  <1>3. TypeOK' /\ SeqInv'
    BY <1>1, <1>2 DEF Inv, TypeOK, SeqInv
  <1>4. PhaseInv' /\ StoredInv' /\ BrokenInv'
    BY <1>1 DEF PhaseInv, StoredInv, BrokenInv
  <1>5. TriggeredIsStored' /\ BrokenNeverBuilt'
    BY <1>1, <1>2 DEF Inv, TriggeredIsStored, BrokenNeverBuilt
  <1>6. QED
    BY <1>2, <1>3, <1>4, <1>5 DEF Inv

(* startBuild goes on to the next COPY when the files of this one are stored. *)
LEMMA AdvanceInv ==
    ASSUME Inv, NextCopy("probe", "serialize"), pc \in {"probe", "drain"}, Stored(hashes[copy]),
           tar \in {"idle", "exited"}, put \notin {"sending", "sent"}, pc = "drain" => tarErr = "nil",
           UNCHANGED <<opts, hashes, body, result, files, server, packing, pipe, sending>>
    PROVE  Inv'
  <1>1. /\ opts' = opts /\ hashes' = hashes /\ body' = body /\ result' = result
        /\ requested' = requested /\ triggered' = triggered /\ store' = store
        /\ disk' = disk /\ edits' = edits /\ offer' = offer /\ readEnd' = readEnd /\ put' = put
        /\ tar' = tar /\ statted' = statted /\ short' = short /\ tarErr' = tarErr /\ writeEnd' = writeEnd
    BY DEF server, files, packing, pipe, sending
  <1>2. copy \in 1..Len(Copies) /\ Len(hashes) = Len(Copies) /\ \A i \in 1..(copy - 1) : Stored(hashes[i])
    BY DEF Inv, PhaseInv, StoredInv
  <1>3. /\ copy \in Nat /\ copy <= Len(Copies) /\ copy' \in 1..Len(Copies)
        /\ \/ pc' = "probe" /\ copy' = copy + 1
           \/ pc' = "serialize" /\ copy = Len(Copies) /\ copy' = 1
    BY <1>2, NextCopyIs
  <1>4. /\ PackInv' /\ PipeInv' /\ StatInv' /\ CutInv' /\ StoredArchivesAreWhole' /\ HashInv'
        /\ \A h : Stored(h)' = Stored(h)
        /\ listed' \in Seq(Files) /\ todo' \in Seq(Files)
        /\ uploaded' \in Seq(Chunks) /\ offer' \in Seq(Chunks)
    <2>1. /\ UNCHANGED <<files, packing, offer, sending, store>> /\ pc' \notin {"upload", "drain"}
          /\ pc # "returned" /\ (pc \in {"upload", "drain"} => tarErr = "nil")
      BY <1>1, <1>3
    <2>2. QED
      BY <1>1, <2>1, ClientFrame
  <1>5. \A i \in 1..copy : Stored(hashes[i])
    <2>1. \A i \in 1..copy : i \in 1..(copy - 1) \/ i = copy
      BY <1>3
    <2>2. QED
      BY <1>2, <2>1
  <1>6. TypeOK'
    <2>1. \A c \in 1..Len(Copies) : c \in 1..(Len(Copies) + 1)
      BY CopiesLen
    <2>2. copy' \in 1..(Len(Copies) + 1) /\ pc' \in {"probe", "serialize"}
      BY <1>3, <2>1
    <2>3. QED
      BY <1>1, <2>2 DEF Inv, TypeOK
  <1>7. SeqInv'
    BY <1>1, <1>4 DEF Inv, SeqInv
  <1>8. PhaseInv'
    BY <1>1, <1>2, <1>3 DEF PhaseInv
  <1>9. StoredInv'
    <2>1. CASE pc' = "probe" /\ copy' = copy + 1
      <3>1. copy' - 1 = copy
        BY <1>3, <2>1
      <3>2. QED
        BY <1>1, <1>4, <1>5, <2>1, <3>1 DEF StoredInv
    <2>2. CASE pc' = "serialize" /\ copy = Len(Copies) /\ copy' = 1
      BY <1>1, <1>4, <1>5, <2>2 DEF StoredInv
    <2>3. QED
      BY <1>3, <2>1, <2>2
  <1>10. BrokenInv'
    BY <1>3 DEF BrokenInv
  <1>11. TriggeredIsStored' /\ BrokenNeverBuilt'
    BY <1>1, <1>4 DEF Inv, TriggeredIsStored, BrokenNeverBuilt
  <1>12. QED
    BY <1>4, <1>6, <1>7, <1>8, <1>9, <1>10, <1>11 DEF Inv

(* An upload that is not needed is skipped. *)
LEMMA ProbeInv == ASSUME Inv, Probe PROVE Inv'
  <1>1. /\ pc = "probe" /\ UNCHANGED <<opts, hashes, body, files, server, packing, pipe, sending>>
        /\ \/ Return("error") /\ UNCHANGED copy
           \/ pc' = "pack" /\ UNCHANGED <<copy, result>>
           \/ Stored(hashes[copy]) /\ NextCopy("probe", "serialize") /\ UNCHANGED result
    BY DEF Probe
  <1>2. tar \in {"idle", "exited"} /\ put \notin {"sending", "sent"}
    BY <1>1 DEF Inv, PhaseInv
  <1>3. CASE Return("error") /\ UNCHANGED copy
    BY <1>1, <1>2, <1>3, ErrorInv
  <1>4. CASE Stored(hashes[copy]) /\ NextCopy("probe", "serialize") /\ UNCHANGED result
    BY <1>1, <1>2, <1>4, AdvanceInv
  <1>5. CASE pc' = "pack" /\ UNCHANGED <<copy, result>>
    <2>1. /\ opts' = opts /\ copy' = copy /\ hashes' = hashes /\ body' = body /\ result' = result
          /\ requested' = requested /\ triggered' = triggered /\ store' = store
          /\ disk' = disk /\ edits' = edits /\ offer' = offer /\ readEnd' = readEnd /\ put' = put
          /\ tar' = tar /\ statted' = statted /\ short' = short /\ tarErr' = tarErr /\ writeEnd' = writeEnd
      BY <1>1, <1>5 DEF server, files, packing, pipe, sending
    <2>2. /\ PackInv' /\ PipeInv' /\ StatInv' /\ CutInv' /\ StoredArchivesAreWhole' /\ HashInv'
          /\ \A h : Stored(h)' = Stored(h)
          /\ listed' \in Seq(Files) /\ todo' \in Seq(Files)
          /\ uploaded' \in Seq(Chunks) /\ offer' \in Seq(Chunks)
      <3>1. /\ UNCHANGED <<files, packing, offer, sending, store>> /\ pc' \notin {"upload", "drain"}
            /\ pc \notin {"upload", "drain", "returned"}
        BY <1>1, <1>5, <2>1
      <3>2. QED
        BY <2>1, <3>1, ClientFrame
    <2>3. TypeOK' /\ SeqInv'
      BY <1>5, <2>1, <2>2 DEF Inv, TypeOK, SeqInv
    <2>4. PhaseInv'
      BY <1>1, <1>2, <1>5, <2>1 DEF Inv, PhaseInv
    <2>5. StoredInv' /\ BrokenInv'
      BY <1>1, <1>5, <2>1, <2>2 DEF Inv, StoredInv, BrokenInv
    <2>6. TriggeredIsStored' /\ BrokenNeverBuilt'
      BY <2>1, <2>2 DEF Inv, TriggeredIsStored, BrokenNeverBuilt
    <2>7. QED
      BY <2>2, <2>3, <2>4, <2>5, <2>6 DEF Inv
  <1>6. QED
    BY <1>1, <1>3, <1>4, <1>5

(* A new upload starts with an empty pipe. *)
LEMMA StartUploadInv == ASSUME Inv, StartUpload PROVE Inv'
  <1>1. /\ pc = "pack" /\ pc' = "upload"
        /\ tar' = "list" /\ listed' = <<>> /\ todo' = <<>> /\ statted' = Gone /\ short' = FALSE /\ tarErr' = "nil"
        /\ offer' = <<>> /\ writeEnd' = "open" /\ readEnd' = "open"
        /\ put' \in {"sending", "badUrl"} /\ uploaded' = <<>>
        /\ opts' = opts /\ copy' = copy /\ hashes' = hashes /\ body' = body /\ result' = result
        /\ requested' = requested /\ triggered' = triggered /\ store' = store
        /\ disk' = disk /\ edits' = edits
    BY DEF StartUpload, files, server
  <1>2. \A h : Stored(h)' = Stored(h)
    BY <1>1 DEF Stored
  <1>3. Len(offer') <= 1
    BY <1>1, EmptySeq
  <1>4. TypeOK'
    BY <1>1, <1>3 DEF Inv, TypeOK
  <1>5. SeqInv'
    BY <1>1, EmptySeq DEF Inv, SeqInv
  <1>6. PhaseInv' /\ PipeInv' /\ StatInv' /\ PackInv' /\ BrokenInv' /\ CutInv'
    BY <1>1 DEF Inv, PhaseInv, PipeInv, StatInv, PackInv, BrokenInv, CutInv
  <1>7. HashInv'
    BY <1>1, SameDisk DEF Inv, HashInv
  <1>8. StoredInv'
    BY <1>1, <1>2 DEF Inv, StoredInv
  <1>9. StoredArchivesAreWhole' /\ TriggeredIsStored' /\ BrokenNeverBuilt'
    BY <1>1, <1>2 DEF Inv, StoredArchivesAreWhole, TriggeredIsStored, BrokenNeverBuilt
  <1>10. QED
    BY <1>4, <1>5, <1>6, <1>7, <1>8, <1>9 DEF Inv

(* The upload has returned, and its end of the pipe is closed. *)
LEMMA CloseReaderInv == ASSUME Inv, CloseReader PROVE Inv'
  <1>1. /\ pc = "upload" /\ pc' = "drain" /\ put \in {"ok", "refused", "failed", "badUrl"} /\ readEnd' = "closed"
        /\ opts' = opts /\ copy' = copy /\ hashes' = hashes /\ body' = body /\ result' = result
        /\ requested' = requested /\ triggered' = triggered /\ store' = store
        /\ disk' = disk /\ edits' = edits /\ offer' = offer /\ put' = put
        /\ tar' = tar /\ statted' = statted /\ short' = short /\ tarErr' = tarErr /\ writeEnd' = writeEnd
        /\ UNCHANGED <<files, packing, offer, sending, store>>
    BY DEF CloseReader, server, files, packing, sending
  <1>2. /\ PackInv' /\ PipeInv' /\ StatInv' /\ CutInv' /\ StoredArchivesAreWhole' /\ HashInv'
        /\ \A h : Stored(h)' = Stored(h)
        /\ listed' \in Seq(Files) /\ todo' \in Seq(Files)
        /\ uploaded' \in Seq(Chunks) /\ offer' \in Seq(Chunks)
    BY <1>1, ClientFrame
  <1>3. TypeOK' /\ SeqInv'
    BY <1>1, <1>2 DEF Inv, TypeOK, SeqInv
  <1>4. PhaseInv'
    BY <1>1 DEF Inv, PhaseInv
  <1>5. StoredInv' /\ BrokenInv'
    BY <1>1, <1>2 DEF Inv, StoredInv, BrokenInv
  <1>6. TriggeredIsStored' /\ BrokenNeverBuilt'
    BY <1>1, <1>2 DEF Inv, TriggeredIsStored, BrokenNeverBuilt
  <1>7. QED
    BY <1>2, <1>3, <1>4, <1>5, <1>6 DEF Inv

(* The goroutine has exited; only an upload that was stored lets startBuild go on. *)
LEMMA DrainInv == ASSUME Inv, Drain PROVE Inv'
  <1>1. /\ pc = "drain" /\ tar = "exited"
        /\ UNCHANGED <<opts, hashes, body, files, server, packing, pipe, sending>>
        /\ \/ put = "ok" /\ tarErr = "nil" /\ NextCopy("probe", "serialize") /\ UNCHANGED result
           \/ Return("error") /\ UNCHANGED copy
    BY DEF Drain
  <1>2. put \notin {"sending", "sent"} /\ (put = "ok" => Stored(hashes[copy]))
    BY <1>1 DEF Inv, PhaseInv, StoredInv
  <1>3. CASE put = "ok" /\ tarErr = "nil" /\ NextCopy("probe", "serialize") /\ UNCHANGED result
    BY <1>1, <1>2, <1>3, AdvanceInv
  <1>4. CASE Return("error") /\ UNCHANGED copy
    BY <1>1, <1>2, <1>4, ErrorInv
  <1>5. QED
    BY <1>1, <1>3, <1>4

(* While nobody touches the files, the second hashes are the first ones. *)
LEMMA SerializeInv == ASSUME Inv, Serialize PROVE Inv'
  <1>1. /\ pc = "serialize" /\ UNCHANGED <<opts, copy, hashes, files, server, packing, pipe, sending>>
        /\ \/ /\ ~opts.broken /\ body' = [i \in DOMAIN Copies |-> Hash(i)]
              /\ pc' = "trigger" /\ UNCHANGED result
           \/ Return("error") /\ UNCHANGED body
    BY DEF Serialize
  <1>2. tar \in {"idle", "exited"} /\ put \notin {"sending", "sent"}
    BY <1>1 DEF Inv, PhaseInv
  <1>3. CASE Return("error") /\ UNCHANGED body
    BY <1>1, <1>2, <1>3, ErrorInv
  <1>4. CASE /\ ~opts.broken /\ body' = [i \in DOMAIN Copies |-> Hash(i)]
             /\ pc' = "trigger" /\ UNCHANGED result
    <2>1. /\ opts' = opts /\ copy' = copy /\ hashes' = hashes /\ result' = result /\ pc' = "trigger"
          /\ requested' = requested /\ triggered' = triggered /\ store' = store
          /\ disk' = disk /\ edits' = edits /\ offer' = offer /\ readEnd' = readEnd /\ put' = put
          /\ tar' = tar /\ statted' = statted /\ short' = short /\ tarErr' = tarErr /\ writeEnd' = writeEnd
      BY <1>1, <1>4 DEF server, files, packing, pipe, sending
    <2>2. /\ PackInv' /\ PipeInv' /\ StatInv' /\ CutInv' /\ StoredArchivesAreWhole' /\ HashInv'
          /\ \A h : Stored(h)' = Stored(h)
          /\ listed' \in Seq(Files) /\ todo' \in Seq(Files)
          /\ uploaded' \in Seq(Chunks) /\ offer' \in Seq(Chunks)
      <3>1. /\ UNCHANGED <<files, packing, offer, sending, store>> /\ pc' \notin {"upload", "drain"}
            /\ pc \notin {"upload", "drain", "returned"}
        BY <1>1, <2>1
      <3>2. QED
        BY <2>1, <3>1, ClientFrame
    <2>3. body' \in Seq(Hashed) /\ Len(body') = Len(Copies) /\ DOMAIN body' = 1..Len(Copies)
      <3>1. \A i \in 1..Len(Copies) : Hash(i) \in Hashed
        BY CopiesLen, FilesType, BuildStartOK DEF Inv, TypeOK
      <3>2. body' = [i \in 1..Len(Copies) |-> Hash(i)] /\ Len(Copies) \in Nat
        BY <1>4, CopiesLen
      <3>3. QED
        BY <3>1, <3>2
    <2>4. TypeOK' /\ SeqInv'
      BY <2>1, <2>2, <2>3 DEF Inv, TypeOK, SeqInv
    <2>5. PhaseInv'
      BY <1>1, <1>2, <2>1 DEF Inv, PhaseInv
    <2>6. StoredInv' /\ BrokenInv'
      <3>1. \A i \in 1..Len(Copies) : Stored(hashes[i]) /\ (edits = 0 => hashes[i] = Hash(i))
        BY <1>1 DEF Inv, StoredInv, HashInv, PhaseInv
      <3>2. \A i \in 1..Len(Copies) : body'[i] = Hash(i)
        BY <1>4, CopiesLen
      <3>3. edits' = 0 => \A i \in DOMAIN body' : Stored(body[i])'
        BY <2>1, <2>3, <3>1, <3>2 DEF Stored
      <3>4. \A i \in 1..Len(Copies) : Stored(hashes[i])'
        BY <2>1, <3>1 DEF Stored
      <3>5. QED
        BY <1>4, <2>1, <3>3, <3>4 DEF StoredInv, BrokenInv
    <2>7. TriggeredIsStored' /\ BrokenNeverBuilt'
      BY <2>1, <2>2 DEF Inv, TriggeredIsStored, BrokenNeverBuilt
    <2>8. QED
      BY <2>2, <2>4, <2>5, <2>6, <2>7 DEF Inv
  <1>5. QED
    BY <1>1, <1>3, <1>4

(* The server runs what the request asks for, whatever its answer. *)
LEMMA TriggerInv == ASSUME Inv, Trigger PROVE Inv'
  <1>1. /\ pc = "trigger" /\ pc' = "returned" /\ result' \in {"started", "error"}
        /\ triggered' \in {body, NotYet}
        /\ UNCHANGED <<opts, copy, hashes, body, files, requested, store, packing, pipe, sending>>
    BY DEF Trigger, Return
  <1>2. /\ opts' = opts /\ copy' = copy /\ hashes' = hashes /\ body' = body
        /\ requested' = requested /\ store' = store
        /\ disk' = disk /\ edits' = edits /\ offer' = offer /\ readEnd' = readEnd /\ put' = put
        /\ tar' = tar /\ statted' = statted /\ short' = short /\ tarErr' = tarErr /\ writeEnd' = writeEnd
    BY <1>1 DEF files, packing, pipe, sending
  <1>3. /\ PackInv' /\ PipeInv' /\ StatInv' /\ CutInv' /\ HashInv'
        /\ \A h : Stored(h)' = Stored(h)
        /\ listed' \in Seq(Files) /\ todo' \in Seq(Files)
        /\ uploaded' \in Seq(Chunks) /\ offer' \in Seq(Chunks)
    <2>1. /\ UNCHANGED <<files, packing, offer, sending, store>> /\ pc' = "returned"
          /\ pc \notin {"upload", "drain", "returned"}
      BY <1>1, <1>2
    <2>2. QED
      BY <1>2, <2>1, ClientFrame
  <1>4. TypeOK' /\ SeqInv'
    BY <1>1, <1>2, <1>3 DEF Inv, TypeOK, SeqInv
  <1>5. PhaseInv' /\ StoredInv' /\ BrokenInv'
    BY <1>1, <1>2 DEF Inv, PhaseInv, StoredInv, BrokenInv
  <1>6. TriggeredIsStored'
    <2>1. edits = 0 => \A i \in DOMAIN body : Stored(body[i])
      BY <1>1 DEF Inv, StoredInv
    <2>2. QED
      BY <1>1, <1>2, <1>3, <2>1 DEF TriggeredIsStored
  <1>7. BrokenNeverBuilt'
    BY <1>1, <1>2 DEF Inv, BrokenInv, BrokenNeverBuilt
  <1>8. StoredArchivesAreWhole'
    <2>1. \A a \in store : Last(a.chunks) = Trailer
      BY <1>1 DEF Inv, CutInv
    <2>2. QED
      BY <1>2, <2>1, Zenon DEF Inv, StoredArchivesAreWhole
  <1>9. QED
    BY <1>3, <1>4, <1>5, <1>6, <1>7, <1>8 DEF Inv

-------------------------------------------------------------------------------
(* The tar goroutine works only during an upload, and touches nothing but its end of the pipe. *)
LEMMA PackFrame ==
    ASSUME Inv, UNCHANGED <<client, files, server, sending>>, tar \notin {"idle", "exited"}
    PROVE  /\ PhaseInv' /\ HashInv' /\ StoredInv' /\ BrokenInv' /\ CutInv'
           /\ StoredArchivesAreWhole' /\ TriggeredIsStored' /\ BrokenNeverBuilt'
           /\ pc \in {"upload", "drain"} /\ copy \in 1..Len(Copies) /\ put # "sent"
           /\ pc' = pc /\ copy' = copy /\ edits' = edits /\ disk' = disk /\ uploaded' = uploaded /\ put' = put
           /\ hashes' \in Seq(Hashed) /\ body' \in Seq(Hashed) /\ uploaded' \in Seq(Chunks)
           /\ pc' = pc /\ opts' = opts /\ hashes' = hashes /\ body' = body /\ result' = result
           /\ requested' = requested
  <1>1. /\ opts' = opts /\ pc' = pc /\ copy' = copy /\ hashes' = hashes /\ body' = body /\ result' = result
        /\ disk' = disk /\ edits' = edits /\ requested' = requested /\ triggered' = triggered /\ store' = store
        /\ put' = put /\ uploaded' = uploaded
    BY DEF client, files, server, sending
  <1>2. pc \in {"upload", "drain"} /\ copy \in 1..Len(Copies) /\ put # "sent"
    BY DEF Inv, PhaseInv, PipeInv
  <1>3. \A h : Stored(h)' = Stored(h)
    BY <1>1 DEF Stored
  <1>4. PhaseInv' /\ BrokenInv'
    BY <1>1, <1>2 DEF Inv, PhaseInv, BrokenInv
  <1>5. HashInv'
    BY <1>1, SameDisk DEF Inv, HashInv
  <1>6. StoredInv'
    BY <1>1, <1>3 DEF Inv, StoredInv
  <1>7. StoredArchivesAreWhole' /\ TriggeredIsStored' /\ BrokenNeverBuilt'
    BY <1>1, <1>3 DEF Inv, StoredArchivesAreWhole, TriggeredIsStored, BrokenNeverBuilt
  <1>9. CutInv'
    <2>1. triggered = NotYet /\ \A a \in store : Last(a.chunks) = Trailer
      BY <1>2 DEF Inv, CutInv
    <2>2. QED
      BY <1>1, <2>1 DEF CutInv
  <1>8. hashes' \in Seq(Hashed) /\ body' \in Seq(Hashed) /\ uploaded' \in Seq(Chunks)
    BY <1>1 DEF Inv, SeqInv
  <1>10. QED
    BY <1>1, <1>2, <1>4, <1>5, <1>6, <1>7, <1>8, <1>9

(* The files of the COPY are found; nothing is written yet. *)
LEMMA ListFilesInv == ASSUME Inv, ListFiles PROVE Inv'
  <1>1. /\ tar = "list" /\ tar' = "add" /\ listed' = FilesOf(copy) /\ todo' = FilesOf(copy)
        /\ statted' = statted /\ short' = short /\ tarErr' = tarErr /\ writeEnd' = writeEnd /\ offer' = offer /\ readEnd' = readEnd
        /\ UNCHANGED <<client, files, server, sending>>
    BY DEF ListFiles, pipe
  <1>2. /\ PhaseInv' /\ HashInv' /\ StoredInv' /\ BrokenInv' /\ CutInv'
        /\ StoredArchivesAreWhole' /\ TriggeredIsStored' /\ BrokenNeverBuilt'
        /\ copy \in 1..Len(Copies) /\ put # "sent"
        /\ pc' = pc /\ copy' = copy /\ edits' = edits /\ disk' = disk /\ uploaded' = uploaded /\ put' = put
        /\ hashes' \in Seq(Hashed) /\ body' \in Seq(Hashed) /\ uploaded' \in Seq(Chunks)
        /\ hashes' = hashes /\ body' = body /\ result' = result /\ requested' = requested
    BY <1>1, PackFrame
  <1>3. FilesOf(copy) \in Seq(Files)
    BY <1>2, CopiesLen, FilesType, BuildStartOK DEF Inv, TypeOK
  <1>4. offer = <<>> /\ uploaded = <<>> /\ Len(offer) = 0 /\ Len(uploaded) = 0 /\ writeEnd = "open"
    BY <1>1, EmptySeq DEF Inv, PipeInv, TypeOK
  <1>5. TypeOK'
    BY <1>1, <1>2 DEF Inv, TypeOK
  <1>6. SeqInv'
    BY <1>1, <1>2, <1>3 DEF Inv, SeqInv
  <1>7. PipeInv' /\ StatInv' /\ ~short'
    BY <1>1, <1>2, <1>4 DEF Inv, PipeInv, StatInv
  <1>8. PackInv'
    <2>1. Packed' = 0 /\ Count' = 0
      <3>1. Len(FilesOf(copy)) \in Nat
        BY <1>3, LenProperties
      <3>2. QED
        BY <1>1, <1>2, <1>4, <3>1 DEF Packed, Count
    <2>2. todo' = listed' /\ \A k \in 1..Len(todo') : 0 + k = k
      BY <1>1, <1>3, LenProperties
    <2>3. edits' = 0 => listed' = FilesOf(copy)'
      BY <1>1, <1>2 DEF FilesOf
    <2>4. \A k \in 1..Packed' : FALSE
      BY <2>1
    <2>5. QED
      BY <1>1, <1>7, <2>1, <2>2, <2>3, <2>4 DEF PackInv
  <1>9. QED
    BY <1>2, <1>5, <1>6, <1>7, <1>8 DEF Inv

(* The next file is looked at, or has gone, or cannot follow a short entry. *)
LEMMA StatEntryInv == ASSUME Inv, StatEntry PROVE Inv'
  <1>1. /\ tar = "add" /\ todo # <<>> /\ listed' = listed /\ todo' = todo /\ short' = short
        /\ writeEnd' = writeEnd /\ offer' = offer /\ readEnd' = readEnd
        /\ UNCHANGED <<client, files, server, sending>>
        /\ \/ tarErr' = "add" /\ tar' = "finish" /\ statted' = statted
           \/ ~short /\ statted' = disk[Head(todo)] /\ statted' # Gone /\ tarErr' = tarErr /\ tar' = "copy"
    BY DEF StatEntry, pipe
  <1>2. /\ PhaseInv' /\ HashInv' /\ StoredInv' /\ BrokenInv' /\ CutInv'
        /\ StoredArchivesAreWhole' /\ TriggeredIsStored' /\ BrokenNeverBuilt'
        /\ copy \in 1..Len(Copies) /\ put # "sent"
        /\ pc' = pc /\ copy' = copy /\ edits' = edits /\ disk' = disk /\ uploaded' = uploaded /\ put' = put
        /\ hashes' \in Seq(Hashed) /\ body' \in Seq(Hashed) /\ uploaded' \in Seq(Chunks)
        /\ hashes' = hashes /\ body' = body /\ result' = result /\ requested' = requested
    BY <1>1, PackFrame
  <1>3. todo \in Seq(Files) /\ Head(todo) \in Files /\ Head(todo) = todo[1]
    BY <1>1, EmptySeq, HeadTailProperties DEF Inv, SeqInv
  <1>4. disk[Head(todo)] \in {Gone} \cup Versions
    BY <1>3 DEF Inv, TypeOK
  <1>5. writeEnd = "open"
    BY <1>1 DEF Inv, PipeInv, TypeOK
  <1>6. TypeOK' /\ SeqInv' /\ PipeInv'
    BY <1>1, <1>2, <1>4, <1>5 DEF Inv, TypeOK, SeqInv, PipeInv
  <1>7. StatInv'
    <2>1. tarErr = "nil"
      BY <1>1 DEF Inv, StatInv, TypeOK
    <2>2. CASE tarErr' = "add" /\ tar' = "finish"
      BY <1>1, <2>2 DEF StatInv
    <2>3. CASE ~short /\ statted' = disk[Head(todo)] /\ tarErr' = tarErr /\ tar' = "copy"
      BY <1>1, <1>2, <1>3, <2>1, <2>3 DEF StatInv
    <2>4. QED
      BY <1>1, <2>2, <2>3
  <1>8. PackInv'
    <2>1. Count' = Count /\ Packed' = Packed /\ End' = End /\ \A k : Chunk(k)' = Chunk(k) /\ IsEntry(k)' = IsEntry(k)
      BY <1>1, <1>2 DEF Count, Packed, Chunk, IsEntry, End
    <2>2. FilesOf(copy)' = FilesOf(copy)
      BY <1>2, SameFound
    <2>3. QED
      BY <1>1, <1>2, <2>1, <2>2 DEF Inv, PackInv
  <1>9. QED
    BY <1>2, <1>6, <1>7, <1>8 DEF Inv

(* The file is copied, whole or not, and its chunk offered. *)
LEMMA CopyEntryInv == ASSUME Inv, CopyEntry PROVE Inv'
  <1>1. /\ tar = "copy" /\ tar' = "writeEntry" /\ todo' = Tail(todo)
        /\ listed' = listed /\ statted' = statted /\ writeEnd' = writeEnd /\ readEnd' = readEnd
        /\ UNCHANGED <<client, files, server, sending>>
    BY DEF CopyEntry
  <1>2. PICK v \in {statted, disk[Head(todo)], Part} :
           /\ offer' = <<<<Head(todo), v>>>>
           /\ \/ short' = short /\ tarErr' = tarErr /\ (v = statted \/ disk[Head(todo)] # statted)
              \/ v = Part /\ disk[Head(todo)] # statted /\ short' \in BOOLEAN /\ tarErr' \in {"nil", "add"}
    <2>1. \/ offer' = <<<<Head(todo), statted>>>> /\ short' = short /\ tarErr' = tarErr
          \/ /\ disk[Head(todo)] # statted
             /\ offer' = <<<<Head(todo), disk[Head(todo)]>>>> /\ short' = short /\ tarErr' = tarErr
          \/ /\ disk[Head(todo)] # statted
             /\ offer' = <<<<Head(todo), Part>>>> /\ short' \in BOOLEAN /\ tarErr' \in {"nil", "add"}
      BY DEF CopyEntry
    <2>2. QED
      BY <2>1, Zenon
  <1>3. /\ PhaseInv' /\ HashInv' /\ StoredInv' /\ BrokenInv' /\ CutInv'
        /\ StoredArchivesAreWhole' /\ TriggeredIsStored' /\ BrokenNeverBuilt'
        /\ copy \in 1..Len(Copies) /\ put # "sent"
        /\ pc' = pc /\ copy' = copy /\ edits' = edits /\ disk' = disk /\ uploaded' = uploaded /\ put' = put
        /\ hashes' \in Seq(Hashed) /\ body' \in Seq(Hashed) /\ uploaded' \in Seq(Chunks)
        /\ hashes' = hashes /\ body' = body /\ result' = result /\ requested' = requested
    BY <1>1, PackFrame
  <1>4. /\ offer = <<>> /\ Len(offer) = 0 /\ writeEnd = "open" /\ todo # <<>> /\ tarErr = "nil" /\ short = FALSE
        /\ edits = 0 => statted = disk[todo[1]]
    BY <1>1, EmptySeq DEF Inv, PipeInv, StatInv, TypeOK
  <1>5. /\ todo \in Seq(Files) /\ listed \in Seq(Files) /\ uploaded \in Seq(Chunks)
        /\ Len(todo) \in Nat \ {0} /\ Len(listed) \in Nat /\ Len(uploaded) \in Nat
    BY <1>4, EmptySeq, LenProperties DEF Inv, SeqInv
  <1>6. /\ Head(todo) \in Files /\ Tail(todo) \in Seq(Files) /\ Head(todo) = todo[1]
        /\ Len(Tail(todo)) = Len(todo) - 1
        /\ \A k \in 1..Len(Tail(todo)) : Tail(todo)[k] = todo[k + 1]
    BY <1>4, <1>5, HeadTailProperties
  <1>7. v \in Nat
    <2>1. MaxEdits \in Nat /\ disk[Head(todo)] \in {Gone} \cup Versions /\ statted \in {Gone} \cup Versions
      BY <1>6, BuildStartOK DEF Inv, TypeOK, BuildStartOK
    <2>2. Part \in Nat /\ \A w \in {Gone} \cup Versions : w \in Nat
      BY <2>1 DEF Gone, Versions, Part
    <2>3. QED
      BY <2>1, <2>2
  <1>8. edits = 0 => v = disk[Head(todo)]
    BY <1>2, <1>4, <1>6
  <1>9. short' => v = Part /\ edits # 0
    BY <1>2, <1>4, <1>6, Zenon
  <1> DEFINE e == <<Head(todo), v>>
  <1>10. e \in Chunks /\ e[1] = Head(todo) /\ e[2] = v
    BY <1>6, <1>7 DEF Chunks, Entries
  <1> HIDE DEF e
  <1>11. offer' \in Seq(Chunks) /\ Len(offer') = 1 /\ offer'[1] = e
    <2>1. offer' = <<e>>
      BY <1>2 DEF e
    <2>2. QED
      BY <1>10, <2>1
  <1>12. TypeOK'
    <2>1. Len(offer') <= 1
      BY <1>11
    <2>2. short' \in BOOLEAN /\ tarErr' \in {"nil", "add", "close"}
      BY <1>2, <1>4, Zenon
    <2>3. QED
      BY <1>1, <1>3, <2>1, <2>2 DEF Inv, TypeOK
  <1>13. SeqInv'
    BY <1>1, <1>3, <1>6, <1>11 DEF Inv, SeqInv
  <1>14. PipeInv' /\ StatInv'
    BY <1>1, <1>2, <1>3, <1>4 DEF Inv, PipeInv, StatInv
  <1>15. PackInv'
    <2>1. SUFFICES ASSUME readEnd = "open" PROVE PackInv'
      BY <1>1 DEF PackInv
    <2>2. /\ Packed \in Nat /\ Count = Packed
          /\ \A k \in 1..Len(todo) : todo[k] = listed[Packed + k]
          /\ \A k \in 1..Packed : IsEntry(k)
          /\ edits = 0 /\ pc \in {"upload", "drain"} => listed = FilesOf(copy)
      BY <1>1, <1>4, <2>1 DEF Inv, PackInv
    <2>3. Packed' = Packed + 1 /\ Len(uploaded) = Packed /\ Count' = Packed + 1
      <3>1. Packed = Len(listed) - Len(todo) /\ Packed' = Len(listed) - (Len(todo) - 1)
        BY <1>1, <1>6 DEF Packed
      <3>2. Count = Len(uploaded) + 0 /\ Count' = Len(uploaded) + 1
        BY <1>3, <1>4, <1>11 DEF Count
      <3>3. Packed \in Nat /\ Count = Packed
        BY <2>2
      <3>4. ASSUME NEW l \in Nat, NEW t \in Nat, NEW u \in Nat PROVE l - (t - 1) = (l - t) + 1 /\ u + 0 = u
        OBVIOUS
      <3>5. Packed' = Packed + 1 /\ Len(uploaded) = Count
        BY <1>5, <3>1, <3>2, <3>4, Zenon
      <3>6. QED
        BY <3>2, <3>3, <3>5, Zenon
    <2>4. \A k \in 1..Len(todo') : todo'[k] = listed'[Packed' + k]
      <3>1. SUFFICES ASSUME NEW k \in 1..Len(Tail(todo)) PROVE Tail(todo)[k] = listed[Packed + 1 + k]
        BY <1>1, <2>3
      <3>2. k + 1 \in 1..Len(todo) /\ Packed + (k + 1) = Packed + 1 + k
        BY <1>5, <1>6, <2>2
      <3>3. QED
        BY <1>6, <2>2, <3>2
    <2>5. \A k : k = Packed + 1 => Chunk(k)' = e
      <3>1. SUFFICES ASSUME NEW k, k = Packed + 1 PROVE Chunk(k)' = e
        OBVIOUS
      <3>2. ~(k <= Len(uploaded'))
        BY <1>3, <2>2, <2>3, <3>1
      <3>3. QED
        BY <1>11, <3>2 DEF Chunk
    <2>6. \A k \in 1..(Packed + 1) : IsEntry(k)'
      <3>1. SUFFICES ASSUME NEW k \in 1..(Packed + 1) PROVE IsEntry(k)'
        OBVIOUS
      <3>2. CASE k = Packed + 1
        <4>1. 1 \in 1..Len(todo) /\ todo[1] = listed[Packed + 1]
          BY <1>5, <2>2
        <4>2. Chunk(k)' = e
          BY <2>5, <3>2
        <4>3. edits' = 0 => Chunk(k)' = <<listed'[k], disk'[listed'[k]]>>
          BY <1>1, <1>3, <1>6, <1>8, <3>2, <4>1, <4>2 DEF e
        <4>4. Chunk(k)'[1] = listed'[k]
          BY <1>1, <1>6, <1>10, <3>2, <4>1, <4>2
        <4>5. QED
          BY <4>3, <4>4 DEF IsEntry
      <3>3. CASE k # Packed + 1
        <4>1. k \in 1..Packed /\ k <= Len(uploaded)
          BY <2>2, <2>3, <3>3
        <4>2. Chunk(k)' = Chunk(k)
          BY <1>3, <4>1 DEF Chunk
        <4>3. QED
          BY <1>1, <1>3, <2>2, <4>1, <4>2 DEF IsEntry
      <3>4. QED
        BY <3>2, <3>3
    <2>7. edits' = 0 /\ pc' \in {"upload", "drain"} => listed' = FilesOf(copy)'
      <3>1. FilesOf(copy)' = FilesOf(copy)
        BY <1>3, SameFound
      <3>2. QED
        BY <1>1, <1>3, <2>2, <3>1
    <2>8. Packed' \in Nat /\ Count' = Packed' /\ Packed' > 0
      BY <2>2, <2>3
    <2>9. short' => edits' # 0 /\ Chunk(Packed)'[2] = Part
      <3>1. \A k : k = Packed' => Chunk(k)' = Chunk(Packed)'
        BY DEF Chunk
      <3>2. Chunk(Packed)' = e
        BY <2>3, <2>5, <3>1
      <3>3. QED
        BY <1>3, <1>9, <1>10, <3>2
    <2>10. QED
      BY <1>1, <2>3, <2>4, <2>6, <2>7, <2>8, <2>9 DEF PackInv
  <1>16. QED
    BY <1>3, <1>12, <1>13, <1>14, <1>15 DEF Inv

(* The trailer is offered after the last file, and also after an error. *)
LEMMA FinishInv == ASSUME Inv, Finish PROVE Inv'
  <1>1. /\ tar = "finish" \/ (tar = "add" /\ todo = <<>>)
        /\ offer' = <<End>> /\ tar' = "writeTrailer"
        /\ tarErr' = (IF short /\ tarErr = "nil" THEN "close" ELSE tarErr)
        /\ listed' = listed /\ todo' = todo /\ statted' = statted /\ short' = short /\ writeEnd' = writeEnd /\ readEnd' = readEnd
        /\ UNCHANGED <<client, files, server, sending>>
    BY DEF Finish, End
  <1>2. /\ PhaseInv' /\ HashInv' /\ StoredInv' /\ BrokenInv' /\ CutInv'
        /\ StoredArchivesAreWhole' /\ TriggeredIsStored' /\ BrokenNeverBuilt'
        /\ copy \in 1..Len(Copies) /\ put # "sent"
        /\ pc' = pc /\ copy' = copy /\ edits' = edits /\ disk' = disk /\ uploaded' = uploaded /\ put' = put
        /\ hashes' \in Seq(Hashed) /\ body' \in Seq(Hashed) /\ uploaded' \in Seq(Chunks)
        /\ hashes' = hashes /\ body' = body /\ result' = result /\ requested' = requested
    BY <1>1, PackFrame
  <1>3. offer = <<>> /\ Len(offer) = 0 /\ writeEnd = "open"
    BY <1>1, EmptySeq DEF Inv, PipeInv, TypeOK
  <1>4. offer' \in Seq(Chunks) /\ Len(offer') = 1 /\ offer'[1] = End
    BY <1>1 DEF Chunks, End
  <1>5. TypeOK'
    <2>1. Len(offer') <= 1
      BY <1>4
    <2>2. QED
      BY <1>1, <1>2, <2>1 DEF Inv, TypeOK
  <1>6. SeqInv'
    BY <1>1, <1>2, <1>4 DEF Inv, SeqInv
  <1>7. PipeInv' /\ StatInv'
    BY <1>1, <1>2, <1>3 DEF Inv, PipeInv, StatInv
  <1>8. PackInv'
    <2>1. SUFFICES ASSUME tarErr # "add", readEnd = "open" PROVE PackInv'
      BY <1>1 DEF PackInv
    <2>2. /\ tar = "add" /\ todo = <<>> /\ Packed \in Nat /\ Count = Packed
          /\ \A k \in 1..Len(todo) : todo[k] = listed[Packed + k]
          /\ \A k \in 1..Packed : IsEntry(k)
          /\ short => Packed > 0 /\ edits # 0 /\ Chunk(Packed)[2] = Part
          /\ edits = 0 /\ pc \in {"upload", "drain"} => listed = FilesOf(copy)
      BY <1>1, <2>1 DEF Inv, StatInv, PackInv
    <2>3. Packed' = Packed /\ Len(uploaded) = Packed /\ Count' = Packed + 1
      <3>1. Len(uploaded) \in Nat
        BY LenProperties DEF Inv, SeqInv
      <3>2. Len(uploaded) = Count /\ Count' = Len(uploaded) + 1
        BY <1>2, <1>3, <1>4, <3>1 DEF Count
      <3>3. QED
        BY <1>1, <2>2, <3>2, Zenon DEF Packed
    <2>4. Chunk(Count)' = End /\ End' = End
      <3>1. ~(Count' <= Len(uploaded'))
        BY <1>2, <2>2, <2>3
      <3>2. QED
        BY <1>1, <1>4, <3>1 DEF Chunk, End
    <2>5. \A k \in 1..Packed : IsEntry(k)'
      <3>1. SUFFICES ASSUME NEW k \in 1..Packed PROVE IsEntry(k)'
        OBVIOUS
      <3>2. k <= Len(uploaded)
        BY <2>2, <2>3
      <3>3. Chunk(k)' = Chunk(k)
        BY <1>2, <3>2 DEF Chunk
      <3>4. QED
        BY <1>1, <1>2, <2>2, <3>3 DEF IsEntry
    <2>6. FilesOf(copy)' = FilesOf(copy)
      BY <1>2, SameFound
    <2>7. short => Chunk(Packed)' = Chunk(Packed)
      BY <1>2, <2>2, <2>3 DEF Chunk
    <2>8. QED
      BY <1>1, <1>2, <2>2, <2>3, <2>4, <2>5, <2>6, <2>7 DEF PackInv
  <1>9. QED
    BY <1>2, <1>5, <1>6, <1>7, <1>8 DEF Inv

(* A write has returned, or the pipe is closed by its writer. *)
LEMMA WrittenInv == ASSUME Inv, Written \/ CloseWriter PROVE Inv'
  <1>1. /\ \/ tar = "writeEntry" /\ tar' = (IF tarErr = "nil" THEN "add" ELSE "finish") /\ writeEnd' = writeEnd
           \/ tar = "writeTrailer" /\ tar' = "close" /\ writeEnd' = writeEnd
           \/ tar = "close" /\ tar' = "exited" /\ writeEnd' = IF tarErr = "add" THEN "error" ELSE "end"
        /\ tar # "close" => offer = <<>>
        /\ offer' = offer /\ readEnd' = readEnd /\ listed' = listed /\ todo' = todo
        /\ statted' = statted /\ short' = short /\ tarErr' = tarErr
        /\ UNCHANGED <<client, files, server, sending>>
    BY DEF Written, CloseWriter, pipe
  <1>2. /\ PhaseInv' /\ HashInv' /\ StoredInv' /\ BrokenInv' /\ CutInv'
        /\ StoredArchivesAreWhole' /\ TriggeredIsStored' /\ BrokenNeverBuilt'
        /\ copy \in 1..Len(Copies) /\ put # "sent"
        /\ pc' = pc /\ copy' = copy /\ edits' = edits /\ disk' = disk /\ uploaded' = uploaded /\ put' = put
        /\ hashes' \in Seq(Hashed) /\ body' \in Seq(Hashed) /\ uploaded' \in Seq(Chunks)
        /\ hashes' = hashes /\ body' = body /\ result' = result /\ requested' = requested
    BY <1>1, PackFrame
  <1>3. offer = <<>> /\ writeEnd = "open"
    BY <1>1 DEF Inv, PipeInv, TypeOK
  <1>4. TypeOK' /\ SeqInv'
    BY <1>1, <1>2 DEF Inv, TypeOK, SeqInv
  <1>5. PipeInv' /\ StatInv'
    BY <1>1, <1>2, <1>3 DEF Inv, PipeInv, StatInv, TypeOK
  <1>6. PackInv'
    <2>1. Count' = Count /\ Packed' = Packed /\ End' = End /\ \A k : Chunk(k)' = Chunk(k) /\ IsEntry(k)' = IsEntry(k)
      BY <1>1, <1>2 DEF Count, Packed, Chunk, IsEntry, End
    <2>2. FilesOf(copy)' = FilesOf(copy)
      BY <1>2, SameFound
    <2>3. QED
      BY <1>1, <1>2, <2>1, <2>2 DEF Inv, PackInv
  <1>7. QED
    BY <1>2, <1>4, <1>5, <1>6 DEF Inv

(* The reader closed its end: the goroutine remembers the error. *)
LEMMA WriteFailsInv == ASSUME Inv, WriteFails PROVE Inv'
  <1>1. /\ tar \in {"writeEntry", "writeTrailer"} /\ tar' = "close" /\ readEnd = "closed"
        /\ offer' = <<>> /\ tarErr' \in {"add", "close"}
        /\ listed' = listed /\ todo' = todo
        /\ statted' = statted /\ short' = short /\ writeEnd' = writeEnd /\ readEnd' = readEnd
        /\ UNCHANGED <<client, files, server, sending>>
    BY DEF WriteFails
  <1>2. /\ PhaseInv' /\ HashInv' /\ StoredInv' /\ BrokenInv' /\ CutInv'
        /\ StoredArchivesAreWhole' /\ TriggeredIsStored' /\ BrokenNeverBuilt'
        /\ copy \in 1..Len(Copies) /\ put # "sent"
        /\ pc' = pc /\ copy' = copy /\ edits' = edits /\ disk' = disk /\ uploaded' = uploaded /\ put' = put
        /\ hashes' \in Seq(Hashed) /\ body' \in Seq(Hashed) /\ uploaded' \in Seq(Chunks)
        /\ hashes' = hashes /\ body' = body /\ result' = result /\ requested' = requested
    BY <1>1, PackFrame
  <1>3. writeEnd = "open" /\ Len(offer') <= 1 /\ offer' \in Seq(Chunks)
    BY <1>1, EmptySeq DEF Inv, PipeInv, TypeOK
  <1>4. TypeOK' /\ SeqInv'
    BY <1>1, <1>2, <1>3 DEF Inv, TypeOK, SeqInv
  <1>5. PipeInv' /\ StatInv' /\ PackInv'
    BY <1>1, <1>2, <1>3 DEF Inv, PipeInv, StatInv, PackInv
  <1>6. QED
    BY <1>2, <1>4, <1>5 DEF Inv

-------------------------------------------------------------------------------
(* The transport touches nothing but the pipe, the request and the storage. *)
LEMMA TransferFrame ==
    ASSUME Inv, UNCHANGED <<client, files, server, packing>>, put' = "ok" => put = "ok",
           put' \in {"sending", "sent"} => put \in {"sending", "sent"}
    PROVE  /\ PhaseInv' /\ HashInv' /\ StoredInv' /\ BrokenInv' /\ CutInv' /\ StatInv'
           /\ StoredArchivesAreWhole' /\ TriggeredIsStored' /\ BrokenNeverBuilt'
           /\ hashes' \in Seq(Hashed) /\ body' \in Seq(Hashed) /\ listed' \in Seq(Files) /\ todo' \in Seq(Files)
           /\ opts' = opts /\ pc' = pc /\ copy' = copy /\ hashes' = hashes /\ body' = body /\ result' = result
           /\ disk' = disk /\ edits' = edits /\ requested' = requested
           /\ tar' = tar /\ listed' = listed /\ todo' = todo /\ statted' = statted /\ short' = short /\ tarErr' = tarErr /\ writeEnd' = writeEnd
           /\ offer' = offer /\ uploaded' = uploaded /\ readEnd' \in {readEnd, "closed"} => PackInv'
  <1>1. /\ opts' = opts /\ pc' = pc /\ copy' = copy /\ hashes' = hashes /\ body' = body /\ result' = result
        /\ disk' = disk /\ edits' = edits /\ requested' = requested /\ triggered' = triggered /\ store' = store
        /\ tar' = tar /\ listed' = listed /\ todo' = todo /\ statted' = statted /\ short' = short /\ tarErr' = tarErr /\ writeEnd' = writeEnd
    BY DEF client, files, server, packing
  <1>2. \A h : Stored(h)' = Stored(h)
    BY <1>1 DEF Stored
  <1>3. PhaseInv' /\ BrokenInv' /\ CutInv' /\ StatInv'
    BY <1>1 DEF Inv, PhaseInv, BrokenInv, CutInv, StatInv
  <1>4. HashInv'
    BY <1>1, SameDisk DEF Inv, HashInv
  <1>5. StoredInv'
    BY <1>1, <1>2 DEF Inv, StoredInv
  <1>6. StoredArchivesAreWhole' /\ TriggeredIsStored' /\ BrokenNeverBuilt'
    BY <1>1, <1>2 DEF Inv, StoredArchivesAreWhole, TriggeredIsStored, BrokenNeverBuilt
  <1>7. ASSUME offer' = offer, uploaded' = uploaded, readEnd' \in {readEnd, "closed"} PROVE PackInv'
    <2>1. Count' = Count /\ Packed' = Packed /\ End' = End /\ \A k : Chunk(k)' = Chunk(k) /\ IsEntry(k)' = IsEntry(k)
      BY <1>1, <1>7 DEF Count, Packed, Chunk, IsEntry, End
    <2>2. FilesOf(copy)' = FilesOf(copy)
      BY <1>1, SameFound
    <2>3. QED
      BY <1>1, <1>7, <2>1, <2>2 DEF Inv, PackInv
  <1>8. listed' \in Seq(Files) /\ todo' \in Seq(Files) /\ hashes' \in Seq(Hashed) /\ body' \in Seq(Hashed)
    BY <1>1 DEF Inv, SeqInv
  <1>9. QED
    BY <1>1, <1>3, <1>4, <1>5, <1>6, <1>7, <1>8

(* The end of the body, a refusal, a broken connection, and the end of the request. *)
LEMMA EndInv == ASSUME Inv, TakeEnd \/ BreakUpload \/ CloseBody PROVE Inv'
  <1>1. /\ UNCHANGED <<client, files, server, packing>> /\ offer' = offer /\ uploaded' = uploaded
        /\ readEnd' \in {readEnd, "closed"} /\ (readEnd' = readEnd \/ put' \notin {"sending", "sent"})
        /\ \/ put' = put
           \/ put = "sending" /\ put' \in {"sent", "failed", "refused"}
        /\ put' = "sent" => put = "sent" \/ writeEnd = "end"
    BY DEF TakeEnd, BreakUpload, CloseBody, sending, pipe
  <1>2. /\ PhaseInv' /\ HashInv' /\ StoredInv' /\ BrokenInv' /\ CutInv' /\ StatInv' /\ PackInv'
        /\ StoredArchivesAreWhole' /\ TriggeredIsStored' /\ BrokenNeverBuilt'
        /\ hashes' \in Seq(Hashed) /\ body' \in Seq(Hashed) /\ listed' \in Seq(Files) /\ todo' \in Seq(Files)
        /\ opts' = opts /\ pc' = pc /\ copy' = copy /\ hashes' = hashes /\ body' = body /\ result' = result
        /\ disk' = disk /\ edits' = edits /\ requested' = requested
        /\ tar' = tar /\ statted' = statted /\ short' = short /\ tarErr' = tarErr /\ writeEnd' = writeEnd
    BY <1>1, TransferFrame
  <1>3. TypeOK'
    BY <1>1, <1>2 DEF Inv, TypeOK
  <1>4. SeqInv'
    BY <1>1, <1>2 DEF Inv, SeqInv
  <1>5. PipeInv'
    BY <1>1, <1>2 DEF Inv, PipeInv
  <1>6. QED
    BY <1>2, <1>3, <1>4, <1>5 DEF Inv

(* A pipe that holds something holds one chunk. *)
LEMMA AtMostOne == ASSUME NEW n \in Nat \ {0}, n <= 1 PROVE n = 1
  OBVIOUS

(* A chunk moves from the pipe to the storage. *)
LEMMA TakeChunkInv == ASSUME Inv, TakeChunk PROVE Inv'
  <1>1. /\ offer # <<>> /\ uploaded' = uploaded \o offer /\ offer' = <<>> /\ put' = put /\ readEnd' = readEnd
        /\ put # "sent" /\ UNCHANGED <<client, files, server, packing>>
    BY DEF TakeChunk
  <1>2. /\ PhaseInv' /\ HashInv' /\ StoredInv' /\ BrokenInv' /\ CutInv' /\ StatInv'
        /\ StoredArchivesAreWhole' /\ TriggeredIsStored' /\ BrokenNeverBuilt'
        /\ hashes' \in Seq(Hashed) /\ body' \in Seq(Hashed) /\ listed' \in Seq(Files) /\ todo' \in Seq(Files)
        /\ opts' = opts /\ pc' = pc /\ copy' = copy /\ hashes' = hashes /\ body' = body /\ result' = result
        /\ disk' = disk /\ edits' = edits /\ requested' = requested
        /\ tar' = tar /\ listed' = listed /\ todo' = todo /\ statted' = statted /\ short' = short /\ tarErr' = tarErr /\ writeEnd' = writeEnd
    BY <1>1, TransferFrame
  <1>3. tar \in {"writeEntry", "writeTrailer"}
    BY <1>1 DEF Inv, PipeInv
  <1>4. uploaded \in Seq(Chunks) /\ offer \in Seq(Chunks) /\ Len(offer) = 1 /\ Len(uploaded) \in Nat
    <2>1. Len(offer) \in Nat \ {0} /\ Len(offer) <= 1
      BY <1>1, EmptySeq DEF Inv, TypeOK, SeqInv
    <2>2. Len(offer) = 1
      BY <2>1, AtMostOne
    <2>3. uploaded \in Seq(Chunks) /\ offer \in Seq(Chunks)
      BY DEF Inv, SeqInv
    <2>4. QED
      BY <2>2, <2>3, LenProperties
  <1>5. /\ uploaded' \in Seq(Chunks) /\ Len(uploaded') = Len(uploaded) + 1
        /\ \A k \in 1..(Len(uploaded) + 1) : uploaded'[k] = Chunk(k)
    <2>1. /\ uploaded' \in Seq(Chunks) /\ Len(uploaded') = Len(uploaded) + Len(offer)
          /\ \A k \in 1..(Len(uploaded) + Len(offer)) :
                uploaded'[k] = IF k <= Len(uploaded) THEN uploaded[k] ELSE offer[k - Len(uploaded)]
      BY <1>1, <1>4, ConcatProperties
    <2>2. \A k \in 1..(Len(uploaded) + 1) : ~(k <= Len(uploaded)) => k - Len(uploaded) = 1
      BY <1>4
    <2>3. QED
      BY <1>4, <2>1, <2>2 DEF Chunk
  <1>6. Len(offer') = 0 /\ offer' \in Seq(Chunks)
    BY <1>1, EmptySeq
  <1>7. TypeOK'
    <2>1. Len(offer') <= 1
      BY <1>6
    <2>2. QED
      BY <1>1, <1>2, <2>1 DEF Inv, TypeOK
  <1>8. SeqInv'
    BY <1>2, <1>5, <1>6 DEF Inv, SeqInv
  <1>9. PipeInv'
    BY <1>1, <1>2, <1>3 DEF Inv, PipeInv
  <1>10. Count' = Count /\ Count = Len(uploaded) + 1 /\ Count \in Nat
    BY <1>4, <1>5, <1>6 DEF Count
  <1>11. \A k \in 1..Count : Chunk(k)' = Chunk(k) /\ IsEntry(k)' = IsEntry(k)
    <2>1. SUFFICES ASSUME NEW k \in 1..Count PROVE Chunk(k)' = Chunk(k) /\ IsEntry(k)' = IsEntry(k)
      OBVIOUS
    <2>2. k <= Len(uploaded') /\ uploaded'[k] = Chunk(k)
      BY <1>4, <1>5, <1>10
    <2>3. Chunk(k)' = Chunk(k)
      BY <2>2 DEF Chunk
    <2>4. QED
      BY <1>2, <2>3 DEF IsEntry
  <1>12. PackInv'
    <2>1. SUFFICES ASSUME tarErr # "add", readEnd = "open" PROVE PackInv'
      BY <1>1, <1>2 DEF PackInv
    <2>2. /\ Packed \in Nat
          /\ \A k \in 1..Len(todo) : todo[k] = listed[Packed + k]
          /\ \A k \in 1..Packed : IsEntry(k)
          /\ tar \in {"add", "copy", "writeEntry"} => Count = Packed
          /\ tar \in {"writeTrailer", "close", "exited"} =>
                todo = <<>> /\ Count = Packed + 1 /\ Chunk(Count) = End
          /\ short => Packed > 0 /\ edits # 0 /\ Chunk(Packed)[2] = Part
          /\ edits = 0 /\ pc \in {"upload", "drain"} => listed = FilesOf(copy)
      BY <1>3, <2>1 DEF Inv, PackInv
    <2>3. Packed' = Packed /\ End' = End
      BY <1>2 DEF Packed, End
    <2>4. 1..Packed \subseteq 1..Count /\ Count \in 1..Count
      BY <1>3, <1>4, <1>10, <2>2
    <2>5. FilesOf(copy)' = FilesOf(copy)
      BY <1>2, SameFound
    <2>6. Chunk(Count)' = Chunk(Count)
      <3>1. \A k : k = Count => Chunk(k)' = Chunk(Count)
        BY <1>11, <2>4
      <3>2. QED
        BY <1>10, <3>1 DEF Chunk
    <2>7. short => Chunk(Packed)' = Chunk(Packed)
      <3>1. short => Packed \in 1..Count
        BY <2>2, <2>4
      <3>2. \A k : k = Packed => Chunk(k)' = Chunk(Packed)'
        BY <2>3 DEF Chunk
      <3>3. QED
        BY <1>11, <3>1, <3>2
    <2>8. QED
      BY <1>2, <1>3, <1>10, <1>11, <2>2, <2>3, <2>4, <2>5, <2>6, <2>7 DEF PackInv
  <1>13. QED
    BY <1>2, <1>7, <1>8, <1>9, <1>12 DEF Inv

(* A body that the storage has received whole has all the files, and is the archive that belongs *)
(* under its hash, or the goroutine knows that its last entry is short.                          *)
LEMMA SentIsWhole ==
    ASSUME Inv, put = "sent"
    PROVE  /\ uploaded # <<>>
           /\ \/ Last(uploaded) = Trailer
              \/ /\ Last(uploaded) = Footer /\ Len(uploaded) > 1 /\ Last(Front(uploaded))[2] = Part
                 /\ tarErr # "nil" /\ tar = "exited"
           /\ listed = [n \in DOMAIN Front(uploaded) |-> uploaded[n][1]]
           /\ edits = 0 => /\ uploaded = ArchiveFor(hashes[copy]).chunks
                           /\ listed = ArchiveFor(hashes[copy]).listed
  <1>1. pc = "upload" /\ tar = "exited" /\ tarErr # "add" /\ readEnd = "open" /\ offer = <<>> /\ Len(offer) = 0
    BY EmptySeq DEF Inv, PhaseInv, PipeInv
  <1>2. /\ todo = <<>> /\ Count = Packed + 1 /\ Chunk(Count) = End
        /\ \A k \in 1..Packed : IsEntry(k)
        /\ short => Packed > 0 /\ edits # 0 /\ Chunk(Packed)[2] = Part /\ tarErr # "nil"
        /\ edits = 0 => listed = FilesOf(copy)
    BY <1>1 DEF Inv, PackInv, StatInv
  <1>3. /\ uploaded \in Seq(Chunks) /\ listed \in Seq(Files)
        /\ Len(uploaded) \in Nat /\ Len(listed) \in Nat /\ Len(todo) = 0
        /\ DOMAIN listed = 1..Len(listed)
    BY <1>2, LenProperties, EmptySeq DEF Inv, SeqInv
  <1>4. Len(uploaded) = Len(listed) + 1 /\ Packed = Len(listed) /\ Count = Len(uploaded)
    BY <1>1, <1>2, <1>3 DEF Count, Packed
  <1>5. uploaded[Len(uploaded)] = End
    BY <1>2, <1>3, <1>4 DEF Chunk
  <1>6. uploaded # <<>>
    BY <1>3, <1>4, EmptySeq
  <1>7. \A k \in 1..Len(listed) : /\ uploaded[k][1] = listed[k]
                                  /\ edits = 0 => uploaded[k] = <<listed[k], disk[listed[k]]>>
    <2>1. SUFFICES ASSUME NEW k \in 1..Len(listed)
                   PROVE  /\ uploaded[k][1] = listed[k]
                          /\ edits = 0 => uploaded[k] = <<listed[k], disk[listed[k]]>>
      OBVIOUS
    <2>2. Chunk(k) = uploaded[k]
      BY <1>3, <1>4 DEF Chunk
    <2>3. IsEntry(k)
      BY <1>2, <1>4
    <2>4. QED
      BY <2>2, <2>3 DEF IsEntry
  <1>8. DOMAIN Front(uploaded) = 1..Len(listed)
    <2>1. DOMAIN Front(uploaded) = 1..(Len(uploaded) - 1) /\ Len(uploaded) - 1 = Len(listed)
      BY <1>3, <1>4, <1>6, FrontDomain
    <2>2. QED
      BY <2>1
  <1>9. listed = [n \in DOMAIN Front(uploaded) |-> uploaded[n][1]]
    BY <1>3, <1>7, <1>8
  <1>10. \/ Last(uploaded) = Trailer
         \/ /\ Last(uploaded) = Footer /\ Len(uploaded) > 1 /\ Last(Front(uploaded))[2] = Part
            /\ tarErr # "nil" /\ tar = "exited"
    <2>1. Last(uploaded) = End
      BY <1>5 DEF Last
    <2>2. CASE ~short
      BY <2>1, <2>2 DEF End
    <2>3. CASE short
      <3>1. Len(uploaded) > 1 /\ Len(listed) \in 1..Len(listed)
        BY <1>2, <1>3, <1>4, <2>3
      <3>2. Last(Front(uploaded)) = uploaded[Len(listed)]
        BY <1>3, <1>4, <1>6, <3>1, LastOfFront
      <3>3. Chunk(Packed) = uploaded[Len(listed)]
        BY <1>3, <1>4 DEF Chunk
      <3>4. QED
        BY <1>1, <1>2, <2>1, <2>3, <3>1, <3>2, <3>3 DEF End
    <2>4. QED
      BY <2>2, <2>3
  <1>11. ASSUME edits = 0
         PROVE  uploaded = ArchiveFor(hashes[copy]).chunks /\ listed = ArchiveFor(hashes[copy]).listed
    <2>1. copy \in 1..Len(Copies) /\ hashes[copy] = Hash(copy) /\ listed = FilesOf(copy)
      BY <1>1, <1>2, <1>11 DEF Inv, PhaseInv, HashInv
    <2> DEFINE c == Hash(copy).content
    <2>2. /\ c \in Seq(Entries) /\ Len(c) = Len(listed)
          /\ \A n \in 1..Len(listed) : c[n] = <<listed[n], disk[listed[n]]>>
      BY <2>1, CopiesLen, FilesType, BuildStartOK DEF Inv, TypeOK
    <2> HIDE DEF c
    <2>3. c \in Seq(Chunks) /\ DOMAIN c = 1..Len(listed) /\ Trailer \in Chunks
      <3>1. Entries \subseteq Chunks
        BY DEF Chunks
      <3>2. QED
        BY <2>2, <3>1, SeqMonotonic, LenProperties DEF Chunks
    <2>4. ArchiveFor(hashes[copy]).chunks = Append(c, Trailer)
          /\ ArchiveFor(hashes[copy]).listed = [n \in DOMAIN c |-> c[n][1]]
      BY <2>1 DEF ArchiveFor, c
    <2>5. /\ Append(c, Trailer) \in Seq(Chunks) /\ Len(Append(c, Trailer)) = Len(listed) + 1
          /\ \A n \in 1..Len(listed) : Append(c, Trailer)[n] = c[n]
          /\ Append(c, Trailer)[Len(listed) + 1] = Trailer
      BY <2>2, <2>3, AppendProperties
    <2>6. uploaded = Append(c, Trailer)
      <3>1. \A n \in 1..Len(uploaded) : n \in 1..Len(listed) \/ n = Len(listed) + 1
        BY <1>3, <1>4
      <3>2. \A n \in 1..Len(uploaded) : uploaded[n] = Append(c, Trailer)[n]
        BY <1>2, <1>4, <1>5, <1>7, <1>11, <2>2, <2>5, <3>1 DEF End
      <3>3. QED
        BY <1>3, <1>4, <2>5, <3>2, SeqEqual
    <2>7. listed = [n \in DOMAIN c |-> c[n][1]]
      <3>1. \A n \in 1..Len(listed) : c[n][1] = listed[n]
        BY <2>2
      <3>2. QED
        BY <1>3, <2>3, <3>1
    <2>8. QED
      BY <2>4, <2>6, <2>7
  <1>12. QED
    BY <1>6, <1>9, <1>10, <1>11

(* The storage keeps the archive, or not; the answer may say neither. *)
LEMMA AnswerUploadInv == ASSUME Inv, AnswerUpload PROVE Inv'
  <1> DEFINE archive == [hash |-> hashes[copy], chunks |-> uploaded, listed |-> listed]
  <1>1. /\ put = "sent" /\ put' \in {"ok", "failed", "refused"}
        /\ \/ store' = {a \in store : a.hash # archive.hash} \cup {archive}
           \/ store' = store /\ put' # "ok"
        /\ UNCHANGED <<uploaded, requested, triggered, client, files, packing, pipe>>
    BY DEF AnswerUpload
  <1>2. /\ opts' = opts /\ pc' = pc /\ copy' = copy /\ hashes' = hashes /\ body' = body /\ result' = result
        /\ disk' = disk /\ edits' = edits /\ requested' = requested /\ triggered' = triggered
        /\ tar' = tar /\ listed' = listed /\ todo' = todo /\ statted' = statted /\ short' = short /\ tarErr' = tarErr /\ writeEnd' = writeEnd
        /\ offer' = offer /\ readEnd' = readEnd /\ uploaded' = uploaded
    BY <1>1 DEF client, files, packing, pipe
  <1>3. archive.hash = hashes[copy] /\ archive.chunks = uploaded /\ archive.listed = listed
    OBVIOUS
  <1>4. pc = "upload" /\ hashes[copy] \in Hashed
    <2>1. pc = "upload" /\ copy \in 1..Len(hashes) /\ hashes \in Seq(Hashed)
      BY <1>1 DEF Inv, PhaseInv, SeqInv
    <2>2. QED
      BY <2>1, ElementOfSeq
  <1>5. /\ archive.chunks # <<>> /\ (Last(archive.chunks) = Trailer \/ (CutShort(archive) /\ tarErr # "nil" /\ tar = "exited"))
        /\ archive.listed = [n \in DOMAIN Front(archive.chunks) |-> archive.chunks[n][1]]
        /\ edits = 0 => archive = ArchiveFor(archive.hash)
    <2>1. edits = 0 => archive = ArchiveFor(hashes[copy])
      <3>1. ASSUME edits = 0
            PROVE  uploaded = ArchiveFor(hashes[copy]).chunks /\ listed = ArchiveFor(hashes[copy]).listed
        BY <1>1, <3>1, SentIsWhole
      <3>2. PICK x, y : ArchiveFor(hashes[copy]) = [hash |-> hashes[copy], chunks |-> x, listed |-> y]
        BY Zenon DEF ArchiveFor
      <3>3. ArchiveFor(hashes[copy]).chunks = x /\ ArchiveFor(hashes[copy]).listed = y
        BY <3>2
      <3>4. edits = 0 => uploaded = x /\ listed = y
        BY <3>1, <3>3, Zenon
      <3>5. QED
        BY <3>2, <3>4
    <2>2. /\ uploaded # <<>>
          /\ \/ Last(uploaded) = Trailer
             \/ /\ Last(uploaded) = Footer /\ Len(uploaded) > 1 /\ Last(Front(uploaded))[2] = Part
                /\ tarErr # "nil" /\ tar = "exited"
          /\ listed = [n \in DOMAIN Front(uploaded) |-> uploaded[n][1]]
      BY <1>1, SentIsWhole
    <2> HIDE DEF archive
    <2>3. QED
      BY <1>3, <2>1, <2>2, Zenon DEF CutShort
  <1> HIDE DEF archive
  <1>6. StoredArchivesAreWhole' /\ CutInv'
    <2>1. \A a \in store' : a \in store \/ a = archive
      BY <1>1
    <2>2. triggered = NotYet /\ triggered' = NotYet
      BY <1>2, <1>4 DEF Inv, CutInv
    <2>3. StoredArchivesAreWhole'
      <3>1. SUFFICES ASSUME NEW a \in store'
                     PROVE  /\ a.chunks # <<>>
                            /\ a.listed = [n \in DOMAIN Front(a.chunks) |-> a.chunks[n][1]]
                            /\ Last(a.chunks) = Trailer \/ CutShort(a)
                            /\ edits' = 0 => a = ArchiveFor(a.hash)
        BY <2>2, Zenon DEF StoredArchivesAreWhole, CutShort, ArchiveFor
      <3>2. CASE a \in store
        BY <1>2, <3>2, Zenon DEF Inv, StoredArchivesAreWhole
      <3>3. CASE a = archive
        BY <1>2, <1>5, <3>3, Zenon
      <3>4. QED
        BY <2>1, <3>2, <3>3
    <2>4. CutInv'
      <3>1. \A a \in store' : Last(a.chunks) = Trailer \/ (tarErr # "nil" /\ tar = "exited")
        BY <1>4, <1>5, <2>1, Zenon DEF Inv, CutInv
      <3>2. QED
        BY <1>2, <1>4, <2>2, <3>1 DEF CutInv
    <2>5. QED
      BY <2>3, <2>4
  <1>7. \A h : Stored(h) => Stored(h)'
    <2>1. SUFFICES ASSUME NEW h, NEW a \in store, a.hash = h PROVE \E b \in store' : b.hash = h
      BY DEF Stored
    <2>2. CASE store' = store
      BY <2>1, <2>2
    <2>3. CASE store' = {b \in store : b.hash # archive.hash} \cup {archive}
      BY <2>1, <2>3
    <2>4. QED
      BY <1>1, <2>2, <2>3
  <1>8. put' = "ok" => Stored(hashes[copy])'
    BY <1>1, <1>2, <1>3 DEF Stored
  <1>9. TypeOK' /\ SeqInv' /\ PhaseInv' /\ BrokenInv'
    BY <1>1, <1>2, <1>4 DEF Inv, TypeOK, SeqInv, PhaseInv, BrokenInv
  <1>10. HashInv'
    BY <1>2, SameDisk DEF Inv, HashInv
  <1>11. PipeInv' /\ StatInv'
    BY <1>1, <1>2 DEF Inv, PipeInv, StatInv
  <1>12. PackInv'
    <2>1. Count' = Count /\ Packed' = Packed /\ End' = End /\ \A k : Chunk(k)' = Chunk(k) /\ IsEntry(k)' = IsEntry(k)
      BY <1>2 DEF Count, Packed, Chunk, IsEntry, End
    <2>2. FilesOf(copy)' = FilesOf(copy)
      BY <1>2, SameFound
    <2>3. QED
      BY <1>2, <2>1, <2>2 DEF Inv, PackInv
  <1>13. StoredInv'
    BY <1>2, <1>4, <1>7, <1>8 DEF Inv, StoredInv
  <1>14. TriggeredIsStored' /\ BrokenNeverBuilt'
    BY <1>2, <1>7 DEF Inv, TriggeredIsStored, BrokenNeverBuilt
  <1>15. QED
    BY <1>6, <1>9, <1>10, <1>11, <1>12, <1>13, <1>14 DEF Inv

-------------------------------------------------------------------------------
(* A file is edited or deleted: from now on only what holds whatever the files do is left. *)
LEMMA EditInv == ASSUME Inv, NEW f \in Files, Edit(f) \/ Delete(f) PROVE Inv'
  <1>1. /\ edits < MaxEdits /\ edits' = edits + 1
        /\ \/ disk' = [disk EXCEPT ![f] = edits + 2]
           \/ disk' = [disk EXCEPT ![f] = Gone]
        /\ UNCHANGED <<client, server, packing, pipe, sending>>
    BY DEF Edit, Delete
  <1>2. /\ opts' = opts /\ pc' = pc /\ copy' = copy /\ hashes' = hashes /\ body' = body /\ result' = result
        /\ requested' = requested /\ triggered' = triggered /\ store' = store
        /\ tar' = tar /\ listed' = listed /\ todo' = todo /\ statted' = statted /\ short' = short /\ tarErr' = tarErr /\ writeEnd' = writeEnd
        /\ offer' = offer /\ readEnd' = readEnd /\ put' = put /\ uploaded' = uploaded
    BY <1>1 DEF client, server, packing, pipe, sending
  <1>3. MaxEdits \in Nat /\ edits \in 0..MaxEdits /\ disk \in [Files -> {Gone} \cup Versions]
    BY BuildStartOK DEF BuildStartOK, Inv, TypeOK
  <1>4. edits' \in 0..MaxEdits /\ edits' # 0 /\ edits + 2 \in Versions
    BY <1>1, <1>3 DEF Versions
  <1>5. disk' \in [Files -> {Gone} \cup Versions]
    BY <1>1, <1>3, <1>4
  <1>6. TypeOK' /\ SeqInv' /\ PhaseInv' /\ BrokenInv' /\ PipeInv' /\ StatInv' /\ CutInv'
    BY <1>2, <1>4, <1>5 DEF Inv, TypeOK, SeqInv, PhaseInv, BrokenInv, PipeInv, StatInv, CutInv
  <1>7. HashInv'
    BY <1>4 DEF HashInv
  <1>8. PackInv'
    <2>1. /\ Count' = Count /\ Packed' = Packed /\ End' = End
          /\ \A k : Chunk(k)' = Chunk(k) /\ (IsEntry(k) => IsEntry(k)')
      BY <1>2, <1>4 DEF Count, Packed, Chunk, IsEntry, End
    <2>2. QED
      BY <1>2, <1>4, <2>1 DEF Inv, PackInv
  <1>9. \A h : Stored(h)' = Stored(h)
    BY <1>2 DEF Stored
  <1>10. StoredInv'
    BY <1>2, <1>4, <1>9 DEF Inv, StoredInv
  <1>11. StoredArchivesAreWhole' /\ TriggeredIsStored' /\ BrokenNeverBuilt'
    BY <1>2, <1>4 DEF Inv, StoredArchivesAreWhole, TriggeredIsStored, BrokenNeverBuilt
  <1>12. QED
    BY <1>6, <1>7, <1>8, <1>10, <1>11 DEF Inv

-------------------------------------------------------------------------------
(* Every step keeps the invariant. *)
LEMMA InvNext == ASSUME Inv, [Next]_vars PROVE Inv'
  <1>1. ASSUME Start PROVE Inv'
    BY <1>1, OpenInv, HashCopyInv, ProbeInv, StartUploadInv, CloseReaderInv, DrainInv, SerializeInv,
       TriggerInv DEF Start
  <1>2. ASSUME Pack PROVE Inv'
    BY <1>2, ListFilesInv, StatEntryInv, CopyEntryInv, FinishInv, WrittenInv, WriteFailsInv DEF Pack
  <1>3. ASSUME Transfer PROVE Inv'
    BY <1>3, TakeChunkInv, EndInv, AnswerUploadInv DEF Transfer
  <1>4. ASSUME NEW f \in Files, Edit(f) \/ Delete(f) PROVE Inv'
    BY <1>4, EditInv
  <1>5. CASE UNCHANGED vars
    <2>1. /\ opts' = opts /\ pc' = pc /\ copy' = copy /\ hashes' = hashes /\ body' = body /\ result' = result
          /\ requested' = requested /\ triggered' = triggered /\ store' = store
          /\ disk' = disk /\ edits' = edits /\ put' = put /\ offer' = offer /\ readEnd' = readEnd
          /\ tar' = tar /\ statted' = statted /\ short' = short /\ tarErr' = tarErr /\ writeEnd' = writeEnd
          /\ UNCHANGED <<files, packing, offer, sending, store>>
      BY <1>5 DEF vars, client, files, server, packing, pipe, sending
    <2>2. /\ PackInv' /\ PipeInv' /\ StatInv' /\ CutInv' /\ StoredArchivesAreWhole' /\ HashInv'
          /\ \A h : Stored(h)' = Stored(h)
          /\ listed' \in Seq(Files) /\ todo' \in Seq(Files)
          /\ uploaded' \in Seq(Chunks) /\ offer' \in Seq(Chunks)
      BY <2>1, ClientFrame
    <2>3. TypeOK' /\ SeqInv' /\ PhaseInv'
      BY <2>1, <2>2 DEF Inv, TypeOK, SeqInv, PhaseInv
    <2>4. StoredInv' /\ BrokenInv' /\ TriggeredIsStored' /\ BrokenNeverBuilt'
      BY <2>1, <2>2 DEF Inv, StoredInv, BrokenInv, TriggeredIsStored, BrokenNeverBuilt
    <2>5. QED
      BY <2>2, <2>3, <2>4 DEF Inv
  <1>6. QED
    BY <1>1, <1>2, <1>3, <1>4, <1>5 DEF Next

(* It holds in every reachable state. *)
LEMMA Invariant == Spec => []Inv
  BY InvInit, InvNext, PTL DEF Spec

(* Every variable keeps to the values the code can give it. *)
THEOREM TypeCorrect == Spec => []TypeOK
  <1>1. Inv => TypeOK
    BY DEF Inv
  <1>2. QED
    BY <1>1, Invariant, PTL

(* writeTar and CloseWithError: whatever fails, is cut off or is edited during an upload, what the *)
(* storage keeps under a hash holds every file the goroutine found, and a trailer, unless its last *)
(* file shrank while it was written, and then this start triggers no build; and if nobody touched  *)
(* the files, it is the archive of what was hashed.                                                *)
THEOREM WholeArchives == Spec => []StoredArchivesAreWhole
  <1>1. Inv => StoredArchivesAreWhole
    BY DEF Inv
  <1>2. QED
    BY <1>1, Invariant, PTL

(* startBuildV2 to triggerBuild: a build that the server is told to run finds every archive it names, *)
(* if nobody touched the files between the two hashes.                                               *)
THEOREM FilesAreThere == Spec => []TriggeredIsStored
  <1>1. Inv => TriggeredIsStored
    BY DEF Inv
  <1>2. QED
    BY <1>1, Invariant, PTL

(* serialize stops a builder with a recorded error before the trigger. *)
THEOREM ErrorsStopBuilds == Spec => []BrokenNeverBuilt
  <1>1. Inv => BrokenNeverBuilt
    BY DEF Inv
  <1>2. QED
    BY <1>1, Invariant, PTL

(* uploadFile drains its producer: no tar goroutine outlives startBuild. *)
THEOREM ProducerDrained == Spec => []NoGoroutineLeft
  <1>1. Inv => NoGoroutineLeft
    BY DEF Inv, PhaseInv, NoGoroutineLeft
  <1>2. QED
    BY <1>1, Invariant, PTL
================================================================================
