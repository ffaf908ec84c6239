----------------------------- MODULE CommonLemmas -----------------------------
(***************************************************************************)
(* What the proofs about several components need of numbers, of sequences  *)
(* and of channels.                                                        *)
(***************************************************************************)
EXTENDS Integers, Sequences, SequenceTheorems, WellFoundedInduction, TLAPS

(* The order of the numbers, as a relation. *)
Less == OpToRel(<, Nat)

(* A set of numbers that is not empty has a least one. *)
LEMMA LeastOf == ASSUME NEW T, T \subseteq Nat, T # {} PROVE \E m \in T : \A k \in T : m <= k
  <1>1. IsWellFoundedOn(Less, Nat)
    BY NatLessThanWellFounded, Zenon DEF Less
  <1>2. PICK m \in T : \A k \in T : <<k, m>> \notin Less
    BY <1>1, WFMin, Zenon
  <1>3. \A k \in T : <<k, m>> \in Less <=> k < m
    BY Zenon DEF Less, OpToRel
  <1>4. m \in Nat /\ \A k \in T : k \in Nat /\ ~(k < m)
    BY <1>2, <1>3
  <1>5. QED
    BY <1>4

(* Induction up to N, over a set: what holds of 0, and of n + 1 if of n, holds up to N. *)
LEMMA UpTo ==
  ASSUME NEW N \in Nat, NEW T, 0 \in T, \A n \in 0..(N - 1) : n \in T => n + 1 \in T
  PROVE  \A n \in 0..N : n \in T
  <1> DEFINE D == {n \in 0..N : n \notin T}
  <1>1. SUFFICES ASSUME D # {} PROVE FALSE
    OBVIOUS
  <1>2. D \subseteq Nat
    OBVIOUS
  <1>3. PICK m \in D : \A k \in D : m <= k
    <2> HIDE DEF D
    <2>1. QED
      BY <1>1, <1>2, LeastOf
  <1>4. m \in 0..N /\ m \notin T
    OBVIOUS
  <1>5. m # 0 /\ m - 1 \in 0..(N - 1)
    BY <1>4
  <1>6. m - 1 \notin T
    BY <1>4, <1>5
  <1>7. m - 1 \in D
    BY <1>5, <1>6
  <1>8. QED
    BY <1>3, <1>4, <1>7

-------------------------------------------------------------------------------
(***************************************************************************)
(* A channel c with a reader that has received g: what was sent so far is  *)
(* g \o c.  A receive leaves it alone, a send adds at its end.             *)
(***************************************************************************)

(* Appending to the channel appends to what was sent. *)
LEMMA SendAppends ==
  ASSUME NEW S, NEW g \in Seq(S), NEW c \in Seq(S), NEW x \in S
  PROVE  /\ Append(c, x) \in Seq(S)
         /\ Len(Append(c, x)) = Len(c) + 1
         /\ g \o Append(c, x) = Append(g \o c, x)
  <1>1. Append(c, x) = c \o <<x>> /\ Append(c, x) \in Seq(S) /\ Len(Append(c, x)) = Len(c) + 1
    BY AppendIsConcat, AppendProperties
  <1>2. g \o c \in Seq(S) /\ <<x>> \in Seq(S)
    BY ConcatProperties
  <1>3. Append(g \o c, x) = (g \o c) \o <<x>>
    BY <1>2, AppendIsConcat
  <1>4. (g \o c) \o <<x>> = g \o (c \o <<x>>)
    BY <1>2, ConcatAssociative
  <1>5. QED
    BY <1>1, <1>3, <1>4

(* Moving the head of the channel to the reader changes nothing that was sent. *)
LEMMA ReceiveKeeps ==
  ASSUME NEW S, NEW g \in Seq(S), NEW c \in Seq(S), c # <<>>
  PROVE  /\ Head(c) \in S /\ Tail(c) \in Seq(S) /\ Append(g, Head(c)) \in Seq(S)
         /\ Len(Tail(c)) = Len(c) - 1
         /\ Append(g, Head(c)) \o Tail(c) = g \o c
  <1>1. Head(c) \in S /\ Tail(c) \in Seq(S) /\ Len(Tail(c)) = Len(c) - 1
        /\ \A i \in 1..Len(Tail(c)) : Tail(c)[i] = c[i + 1]
    BY HeadTailProperties
  <1>2. Append(g, Head(c)) \in Seq(S) /\ Append(g, Head(c)) = g \o <<Head(c)>>
    BY <1>1, AppendProperties, AppendIsConcat
  <1>3. <<Head(c)>> \in Seq(S) /\ Len(<<Head(c)>>) = 1 /\ <<Head(c)>>[1] = Head(c)
    BY <1>1
  <1>4. (g \o <<Head(c)>>) \o Tail(c) = g \o (<<Head(c)>> \o Tail(c))
    BY <1>1, <1>3, ConcatAssociative
  <1>5. <<Head(c)>> \o Tail(c) = c
    <2> DEFINE d == <<Head(c)>> \o Tail(c)
    <2>1. Len(c) \in Nat \ {0} /\ c[1] = Head(c)
      BY EmptySeq
    <2>2. d \in Seq(S) /\ Len(d) = Len(c)
          /\ \A i \in 1..Len(c) : d[i] = IF i <= 1 THEN Head(c) ELSE Tail(c)[i - 1]
      <3>1. /\ d \in Seq(S)
            /\ Len(d) = Len(<<Head(c)>>) + Len(Tail(c))
            /\ \A i \in 1..(Len(<<Head(c)>>) + Len(Tail(c))) :
                  d[i] = IF i <= Len(<<Head(c)>>) THEN <<Head(c)>>[i] ELSE Tail(c)[i - Len(<<Head(c)>>)]
        BY <1>1, <1>3, ConcatProperties
      <3>2. Len(<<Head(c)>>) + Len(Tail(c)) = Len(c)
        BY <1>1, <1>3, <2>1
      <3>3. QED
        BY <3>1, <3>2, <1>3, <2>1
    <2>3. \A i \in 1..Len(c) : d[i] = c[i]
      BY <1>1, <2>1, <2>2
    <2>4. QED
      BY <2>2, <2>3, SeqEqual
  <1>6. QED
    BY <1>1, <1>2, <1>4, <1>5

(* The lengths of the two parts of what was sent. *)
LEMMA SentType ==
  ASSUME NEW S, NEW g \in Seq(S), NEW c \in Seq(S)
  PROVE  /\ g \o c \in Seq(S)
         /\ Len(g \o c) = Len(g) + Len(c) /\ Len(c) <= Len(g \o c)
         /\ Len(g) \in Nat /\ Len(c) \in Nat /\ Len(g \o c) \in Nat
         /\ DOMAIN (g \o c) = 1..Len(g \o c)
         /\ \A i \in DOMAIN (g \o c) : (g \o c)[i] \in S
  <1>1. g \o c \in Seq(S) /\ Len(g \o c) = Len(g) + Len(c)
    BY ConcatProperties
  <1>2. Len(g) \in Nat /\ Len(c) \in Nat
    BY LenProperties
  <1>3. ASSUME NEW a \in Nat, NEW b \in Nat PROVE b <= a + b
    OBVIOUS
  <1>4. Len(c) <= Len(g \o c)
    BY <1>1, <1>2, <1>3
  <1>5. QED
    BY <1>1, <1>2, <1>4, LenProperties, ElementOfSeq
===============================================================================
