----------------------------- MODULE ClientsProofs -----------------------------
(***************************************************************************)
(* What the requests of clients and sandboxes carry, for every number of   *)
(* clients, sandboxes and returned Configs, whatever Configs and maps the  *)
(* caller makes, and whatever version envd reports.                        *)
(***************************************************************************)
EXTENDS Clients, CommonLemmas

HeaderMaps == UNION {[K -> Values] : K \in SUBSET Keys}

Gates == {RecursiveWatch, InfersDefaultUser, EnvdClose, OctetStream}

Tokens == {"", "token"}

Box == [client : Nat, version : Versions, token : Tokens, user : {"", "user"}, headers : Nat]

(* The sequences of the model, and no header map is ever taken away. *)
HeapInv == heap \in Seq(HeaderMaps) /\ Len(OwnMaps) <= Len(heap)

ClientInv == /\ clients \in Seq(Configs)
             /\ \A i \in DOMAIN clients : /\ clients[i].headers # Nil
                                          /\ MapsOf(clients[i]) \subseteq DOMAIN heap

ReturnedInv == /\ returned \in Seq([of : Nat, config : Configs])
               /\ \A r \in DOMAIN returned :
                     /\ returned[r].of \in DOMAIN clients
                     /\ MapsOf(returned[r].config) \subseteq DOMAIN heap

(* A sandbox keeps the user that its version and its Client's Config call for. *)
BoxInv == /\ boxes \in Seq(Box)
          /\ \A b \in DOMAIN boxes :
                /\ boxes[b].client \in DOMAIN clients /\ boxes[b].headers \in DOMAIN heap
                /\ boxes[b].user = ResolveEnvdUser(boxes[b].client, boxes[b].version, "")

(* Nothing that a returned Config names is read by a request of its Client or of a sandbox of it. *)
DetachedInv == \A r \in DOMAIN returned : MapsOf(returned[r].config) \cap Live(returned[r].of) = {}

ClientsInv == HeapInv /\ ClientInv /\ ReturnedInv /\ BoxInv /\ DetachedInv

-------------------------------------------------------------------------------
(* Versions                                                                  *)

(* The segments of a version are natural numbers, missing and bad ones too. *)
LEMMA SegmentType == ASSUME NEW v \in Seq(Nat \cup {Bad}), NEW i PROVE Segment(v, i) \in Nat
  <1>1. CASE i \in DOMAIN v
    BY <1>1, ElementOfSeq, LenProperties DEF Segment
  <1>2. CASE i \notin DOMAIN v
    BY <1>2 DEF Segment
  <1>3. QED
    BY <1>1, <1>2

(* A gate is a version of three segments. *)
LEMMA GateSegments ==
    ASSUME NEW g \in Gates
    PROVE  /\ g \in Seq(Nat \cup {Bad}) /\ DOMAIN g = 1..3
           /\ \A i \in 1..3 : g[i] \in Nat /\ Segment(g, i) = g[i]
           /\ \A i \in Nat \ (1..3) : Segment(g, i) = 0
  <1>1. g \in Seq(Nat \cup {Bad}) /\ DOMAIN g = 1..3 /\ \A i \in 1..3 : g[i] \in Nat
    <2>1. PICK a \in Nat, b \in Nat, c \in Nat : g = <<a, b, c>>
      <3>1. g \in {<<0, 1, 4>>, <<0, 4, 0>>, <<0, 5, 2>>, <<0, 5, 7>>}
        BY DEF Gates, RecursiveWatch, InfersDefaultUser, EnvdClose, OctetStream
      <3>2. QED
        BY <3>1
    <2>2. QED
      BY <2>1
  <1>2. \A i \in 1..3 : g[i] # Bad
    BY <1>1 DEF Bad
  <1>3. QED
    BY <1>1, <1>2 DEF Segment

(* Compared as compareEnvdVersions compares them, a version of numbers is not before a gate      *)
(* exactly when it is not before it in the order of semantic versions, however many it has.     *)
LEMMA CompareIsOrder ==
    ASSUME NEW v \in Seq(Nat \cup {Bad}), \A i \in DOMAIN v : v[i] # Bad, NEW g \in Gates
    PROVE  CompareEnvdVersions(v, g) >= 0 <=> AtLeast(v, g)
  <1> DEFINE D == DOMAIN v \cup DOMAIN g
             differ == {i \in D : Segment(v, i) # Segment(g, i)}
             first == CHOOSE i \in differ : \A j \in differ : i <= j
  <1>1. D \subseteq Nat \ {0} /\ 1..3 \subseteq D
    BY GateSegments, LenProperties
  <1>2. \A i \in D : Segment(v, i) \in Nat /\ Segment(g, i) \in Nat
    BY GateSegments, SegmentType
  <1>3. \A i \in 1..3 : Segment(g, i) = g[i]
    BY GateSegments
  <1>4. CompareEnvdVersions(v, g) = IF differ = {} THEN 0 ELSE Segment(v, first) - Segment(g, first)
    BY DEF CompareEnvdVersions
  <1>5. AtLeast(v, g) <=> \/ Segment(v, 1) > g[1]
                          \/ Segment(v, 1) = g[1] /\ Segment(v, 2) > g[2]
                          \/ Segment(v, 1) = g[1] /\ Segment(v, 2) = g[2] /\ Segment(v, 3) >= g[3]
    <2>1. \A i : Segment(v, i) = Number(v, i)
      BY DEF Segment, Number
    <2>2. QED
      BY <2>1 DEF AtLeast
  <1>6. CASE differ = {}
    <2>1. \A i \in 1..3 : Segment(v, i) = g[i] /\ g[i] \in Nat
      BY <1>1, <1>2, <1>3, <1>6
    <2>2. AtLeast(v, g)
      BY <1>5, <2>1
    <2>3. QED
      BY <1>4, <1>6, <2>2
  <1>7. CASE differ # {}
    <2>1. first \in differ /\ \A j \in differ : first <= j
      <3>1. \E i \in differ : \A j \in differ : i <= j
        <4>1. differ \subseteq Nat
          BY <1>1
        <4>2. QED
          BY <4>1, <1>7, LeastOf
      <3>2. QED
        BY <3>1
    <2> HIDE DEF first
    <2>2. first \in Nat \ {0} /\ Segment(v, first) # Segment(g, first)
          /\ Segment(v, first) \in Nat /\ Segment(g, first) \in Nat
      BY <1>1, <1>2, <2>1
    <2>3. \A i \in 1..3 : i < first => Segment(v, i) = g[i]
      <3>1. SUFFICES ASSUME NEW i \in 1..3, i < first PROVE i \notin differ
        BY <1>1, <1>3
      <3>2. QED
        BY <2>1, <2>2, <3>1
    <2>4. \A i \in 1..3 : Segment(v, i) \in Nat /\ g[i] \in Nat
      BY <1>1, <1>2, <1>3
    <2>5. CompareEnvdVersions(v, g) >= 0 <=> Segment(v, first) > Segment(g, first)
      BY <1>4, <1>7, <2>2
    <2>6. CASE first = 1
      BY <1>3, <2>2, <2>4, <2>5, <2>6, <1>5
    <2>7. CASE first = 2
      BY <1>3, <2>2, <2>3, <2>4, <2>5, <2>7, <1>5
    <2>8. CASE first = 3
      BY <1>3, <2>2, <2>3, <2>4, <2>5, <2>8, <1>5
    <2>9. CASE first \notin 1..3
      <3>1. Segment(g, first) = 0
        BY <2>2, <2>9, GateSegments
      <3>2. first > 3
        BY <2>2, <2>9
      <3>3. AtLeast(v, g)
        <4>1. \A i \in 1..3 : Segment(v, i) = g[i] /\ g[i] \in Nat
          BY <2>2, <2>3, <2>4, <3>2
        <4>2. QED
          BY <4>1, <1>5
      <3>4. QED
        BY <2>2, <2>5, <3>1, <3>3
    <2>10. QED
      BY <2>6, <2>7, <2>8, <2>9
  <1>8. QED
    BY <1>6, <1>7

(* A gate is open to a Client in debug mode, and to a version of numbers that is not before it. *)
LEMMA GateIs ==
    ASSUME NEW i, NEW v \in Seq(Nat \cup {Bad}), NEW g \in Gates, clients[i].debug \in BOOLEAN,
           clients[i].debug \/ \A n \in DOMAIN v : v[n] # Bad
    PROVE  GateOpen(i, v, g) <=> clients[i].debug \/ AtLeast(v, g)
  <1>1. CASE clients[i].debug
    <2>1. DebugFallback \in Seq(Nat \cup {Bad})
      BY DEF DebugFallback
    <2>2. AtLeast(DebugFallback, g)
      <3>1. Number(DebugFallback, 1) = 99
        BY DEF Number, DebugFallback
      <3>2. g[1] = 0
        BY DEF Gates, RecursiveWatch, InfersDefaultUser, EnvdClose, OctetStream
      <3>3. QED
        BY <3>1, <3>2 DEF AtLeast
    <2>3. CompareEnvdVersions(DebugFallback, g) >= 0
      <3>1. \A n \in DOMAIN DebugFallback : DebugFallback[n] # Bad
        BY DEF DebugFallback, Bad
      <3>2. QED
        BY <2>1, <2>2, <3>1, CompareIsOrder
    <2>4. QED
      BY <1>1, <2>3 DEF GateOpen, Gating
  <1>2. CASE ~clients[i].debug
    BY <1>2, CompareIsOrder DEF GateOpen, Gating
  <1>3. QED
    BY <1>1, <1>2

(* What the gates say of a Client they say as long as its Config is the same. *)
LEMMA GatesStable ==
    ASSUME NEW i, clients'[i] = clients[i]
    PROVE  /\ \A v, g : GateOpen(i, v, g)' <=> GateOpen(i, v, g)
           /\ \A v, asked : ResolveEnvdUser(i, v, asked)' = ResolveEnvdUser(i, v, asked)
  <1>1. ASSUME NEW v PROVE Gating(i, v)' = Gating(i, v)
    BY DEF Gating
  <1>2. ASSUME NEW v, NEW g PROVE GateOpen(i, v, g)' <=> GateOpen(i, v, g)
    BY <1>1 DEF GateOpen
  <1>3. ASSUME NEW v, NEW asked PROVE ResolveEnvdUser(i, v, asked)' = ResolveEnvdUser(i, v, asked)
    BY <1>2 DEF ResolveEnvdUser
  <1>4. QED
    BY <1>2, <1>3

-------------------------------------------------------------------------------
(* Header maps                                                               *)

(* A header map with more headers set is a header map. *)
LEMMA SetAllType ==
    ASSUME NEW m \in HeaderMaps, NEW more \in HeaderMaps PROVE SetAll(m, more) \in HeaderMaps
  <1>1. DOMAIN m \subseteq Keys /\ DOMAIN more \subseteq Keys
        /\ (\A k \in DOMAIN m : m[k] \in Values) /\ (\A k \in DOMAIN more : more[k] \in Values)
    BY DEF HeaderMaps
  <1>2. SetAll(m, more) \in [DOMAIN m \cup DOMAIN more -> Values]
    BY <1>1 DEF SetAll
  <1>3. QED
    BY <1>1, <1>2 DEF HeaderMaps

(* So is one with a single header set. *)
LEMMA SetType ==
    ASSUME NEW m \in HeaderMaps, NEW k \in Keys, NEW value \in Values PROVE Set(m, k, value) \in HeaderMaps
  <1>1. [n \in {k} |-> value] \in HeaderMaps
    <2>1. [n \in {k} |-> value] \in [{k} -> Values] /\ {k} \in SUBSET Keys
      OBVIOUS
    <2>2. QED
      BY <2>1 DEF HeaderMaps
  <1>2. QED
    BY <1>1, SetAllType DEF Set

(* resolve makes a header map of one, or of nothing. *)
LEMMA UserAgentType ==
    /\ \A m \in HeaderMaps : WithUserAgent(m) \in HeaderMaps
    /\ EmptyMap \in HeaderMaps
  <1>1. "User-Agent" \in Keys
    BY DEF Keys, Names
  <1>2. \A m \in HeaderMaps : WithUserAgent(m) \in HeaderMaps
    <2>1. ASSUME NEW m \in HeaderMaps PROVE Set(m, "User-Agent", "sdk") \in HeaderMaps
      <3>1. "sdk" \in Values
        BY DEF Values
      <3>2. QED
        BY <1>1, <3>1, SetType
    <2>2. QED
      BY <2>1 DEF WithUserAgent
  <1>3. EmptyMap \in [{} -> Values]
    BY DEF EmptyMap
  <1>4. QED
    BY <1>2, <1>3 DEF HeaderMaps

(* What the assumption says of the constants, in terms of the sets of this module. *)
LEMMA Constants ==
    /\ OwnMaps \in Seq(HeaderMaps) /\ DOMAIN OwnMaps = 1..Len(OwnMaps) /\ Len(OwnMaps) \in Nat
    /\ NewKeys \subseteq Keys
    /\ \A c \in CallerConfigs : c \in Configs /\ MapsOf(c) \subseteq 1..Len(OwnMaps)
    /\ \A env \in Environments : env.apiKey \in STRING /\ env.accessToken \in STRING /\ env.debug \in BOOLEAN
    /\ Versions \subseteq Seq(Nat \cup {Bad})
  <1>1. \A a \in DOMAIN OwnMaps : OwnMaps[a] \in HeaderMaps
    BY ClientsOK DEF HeaderMap, HeaderMaps
  <1>2. OwnMaps \in Seq(HeaderMaps) /\ DOMAIN OwnMaps = 1..Len(OwnMaps) /\ Len(OwnMaps) \in Nat
    <2>1. OwnMaps \in Seq({OwnMaps[a] : a \in DOMAIN OwnMaps})
      BY ClientsOK
    <2>2. DOMAIN OwnMaps = 1..Len(OwnMaps) /\ Len(OwnMaps) \in Nat
      BY <2>1, LenProperties
    <2>3. QED
      BY <1>1, <2>1, <2>2
  <1>3. ASSUME NEW c \in CallerConfigs PROVE c \in Configs /\ MapsOf(c) \subseteq 1..Len(OwnMaps)
    <2>1. c \in Configs /\ c.headers \in 0..Len(OwnMaps) /\ c.extra \in 0..Len(OwnMaps)
      BY ClientsOK
    <2>2. QED
      BY <1>2, <2>1 DEF MapsOf, Nil
  <1>4. QED
    BY <1>2, <1>3, ClientsOK

-------------------------------------------------------------------------------
(* Steps                                                                     *)

(* The maps that the requests of a Client and of its sandboxes read. *)
LEMMA LiveIs ==
    ASSUME NEW i, NEW a
    PROVE  a \in Live(i) <=> \/ a \in MapsOf(clients[i])
                            \/ \E b \in DOMAIN boxes : boxes[b].client = i /\ boxes[b].headers = a
  BY DEF Live

(* They are there. *)
LEMMA LiveExist == ASSUME ClientsInv, NEW i \in DOMAIN clients PROVE Live(i) \subseteq DOMAIN heap
  <1>1. MapsOf(clients[i]) \subseteq DOMAIN heap
    BY DEF ClientsInv, ClientInv
  <1>2. \A b \in DOMAIN boxes : boxes[b].headers \in DOMAIN heap
    BY DEF ClientsInv, BoxInv
  <1>3. QED
    BY <1>1, <1>2, LiveIs

(* The Configs and the maps that a caller may give to NewClient or to a volume. *)
LEMMA CallerConfig ==
    ASSUME ClientsInv, NEW c \in CallerConfigs \cup {returned[r].config : r \in DOMAIN returned}
    PROVE  /\ c \in Configs
           /\ MapsOf(c) \subseteq DOMAIN heap
           /\ c.headers # Nil => c.headers \in DOMAIN heap
  <1>1. c \in Configs /\ MapsOf(c) \subseteq DOMAIN heap
    <2>1. CASE c \in CallerConfigs
      <3>1. c \in Configs /\ MapsOf(c) \subseteq 1..Len(OwnMaps)
        BY <2>1, Constants
      <3>2. 1..Len(OwnMaps) \subseteq DOMAIN heap
        <4>1. Len(OwnMaps) \in Nat /\ Len(heap) \in Nat /\ Len(OwnMaps) <= Len(heap) /\ DOMAIN heap = 1..Len(heap)
          BY Constants, LenProperties DEF ClientsInv, HeapInv
        <4>2. QED
          BY <4>1
      <3>3. QED
        BY <3>1, <3>2
    <2>2. CASE c \in {returned[r].config : r \in DOMAIN returned}
      <3>1. PICK r \in DOMAIN returned : c = returned[r].config
        BY <2>2
      <3>2. returned[r] \in [of : Nat, config : Configs]
        BY ElementOfSeq, LenProperties DEF ClientsInv, ReturnedInv
      <3>3. QED
        BY <3>1, <3>2 DEF ClientsInv, ReturnedInv
    <2>3. QED
      BY <2>1, <2>2
  <1>2. QED
    BY <1>1 DEF MapsOf

(* One more element at the end of a sequence. *)
LEMMA OneMore ==
    ASSUME NEW S, NEW s \in Seq(S), NEW x \in S
    PROVE  /\ Append(s, x) \in Seq(S)
           /\ Len(s) \in Nat /\ DOMAIN s = 1..Len(s) /\ Len(Append(s, x)) = Len(s) + 1
           /\ DOMAIN Append(s, x) = DOMAIN s \cup {Len(s) + 1} /\ Len(s) + 1 \notin DOMAIN s
           /\ \A a \in DOMAIN s : Append(s, x)[a] = s[a] /\ s[a] \in S
           /\ Append(s, x)[Len(s) + 1] = x
  <1>1. Len(s) \in Nat /\ DOMAIN s = 1..Len(s)
    BY LenProperties
  <1>2. Append(s, x) \in Seq(S) /\ Len(Append(s, x)) = Len(s) + 1
        /\ (\A a \in 1..Len(s) : Append(s, x)[a] = s[a])
        /\ Append(s, x)[Len(s) + 1] = x
    BY AppendProperties
  <1>3. DOMAIN Append(s, x) = 1..(Len(s) + 1)
    BY <1>2, LenProperties
  <1>4. 1..(Len(s) + 1) = 1..Len(s) \cup {Len(s) + 1} /\ Len(s) + 1 \notin 1..Len(s)
    BY <1>1
  <1>5. \A a \in DOMAIN s : s[a] \in S
    BY <1>1, ElementOfSeq
  <1>6. QED
    BY <1>1, <1>2, <1>3, <1>4, <1>5

(* What a step does to the heap: maps are added, and at most one of those there is changed. *)
HeapStep ==
    /\ heap' \in Seq(HeaderMaps) /\ Len(heap) <= Len(heap')
    /\ DOMAIN heap \subseteq DOMAIN heap'
    /\ \E x \in Nat : \A a \in DOMAIN heap : a # x => heap'[a] = heap[a]

(* An added map. *)
LEMMA HeapAppends ==
    ASSUME ClientsInv, NEW m \in HeaderMaps, heap' = Append(heap, m)
    PROVE  HeapStep
  <1>1. heap \in Seq(HeaderMaps)
    BY DEF ClientsInv, HeapInv
  <1>2. QED
    BY <1>1, OneMore DEF HeapStep

(* A changed map. *)
LEMMA HeapChanges ==
    ASSUME ClientsInv, NEW x \in DOMAIN heap, NEW m \in HeaderMaps, heap' = [heap EXCEPT ![x] = m]
    PROVE  HeapStep /\ DOMAIN heap' = DOMAIN heap
  <1>1. heap \in Seq(HeaderMaps) /\ DOMAIN heap = 1..Len(heap) /\ Len(heap) \in Nat
    BY LenProperties DEF ClientsInv, HeapInv
  <1>2. heap' \in Seq(HeaderMaps) /\ Len(heap') = Len(heap)
    BY <1>1, ExceptSeq
  <1>3. x \in Nat
    BY <1>1
  <1>4. QED
    BY <1>1, <1>2, <1>3 DEF HeapStep

(* Such a step keeps the heap, and what names a map in it. *)
LEMMA HeapKept ==
    ASSUME ClientsInv, HeapStep
    PROVE  /\ HeapInv'
           /\ clients' = clients => ClientInv'
           /\ clients' = clients /\ returned' = returned => ReturnedInv'
           /\ clients' = clients /\ boxes' = boxes => BoxInv'
  <1>1. HeapInv'
    <2>1. Len(heap) \in Nat /\ Len(heap') \in Nat /\ Len(OwnMaps) \in Nat
      BY LenProperties, Constants DEF ClientsInv, HeapInv, HeapStep
    <2>2. Len(OwnMaps) <= Len(heap')
      BY <2>1 DEF ClientsInv, HeapInv, HeapStep
    <2>3. QED
      BY <2>2 DEF HeapInv, HeapStep
  <1>2. clients' = clients => ClientInv'
    BY DEF ClientsInv, ClientInv, HeapStep
  <1>3. clients' = clients /\ returned' = returned => ReturnedInv'
    BY DEF ClientsInv, ReturnedInv, HeapStep
  <1>4. clients' = clients /\ boxes' = boxes => BoxInv'
    <2>1. SUFFICES ASSUME clients' = clients, boxes' = boxes PROVE BoxInv'
      OBVIOUS
    <2>2. \A i, v : ResolveEnvdUser(i, v, "")' = ResolveEnvdUser(i, v, "")
      BY <2>1, GatesStable
    <2>3. QED
      BY <2>1, <2>2 DEF ClientsInv, BoxInv, HeapStep
  <1>5. QED
    BY <1>1, <1>2, <1>3, <1>4

(* A new Client shares its header map with the Config it is made from and with no other Client's. *)
LEMMA NewClientKeeps ==
    ASSUME ClientsInv, NEW c \in CallerConfigs \cup {returned[r].config : r \in DOMAIN returned},
           NEW env \in Environments, NewClient(c, env)
    PROVE  HeapStep /\ ClientsInv'
  <1>1. c \in Configs /\ MapsOf(c) \subseteq DOMAIN heap /\ (c.headers # Nil => c.headers \in DOMAIN heap)
    BY CallerConfig
  <1>2. heap \in Seq(HeaderMaps) /\ Len(heap) \in Nat /\ DOMAIN heap = 1..Len(heap)
    BY LenProperties DEF ClientsInv, HeapInv
  <1>3. PICK h \in Nat \ {Nil} : /\ h \in DOMAIN heap'
                                /\ clients' = Append(clients, Resolved(c, env, h))
                                /\ HeapStep
    <2>1. CASE c.headers = Nil
      <3>1. heap' = Append(heap, WithUserAgent(EmptyMap)) /\ clients' = Append(clients, Resolved(c, env, Len(heap) + 1))
        BY <2>1 DEF NewClient
      <3>2. WithUserAgent(EmptyMap) \in HeaderMaps
        BY UserAgentType
      <3>3. HeapStep /\ Len(heap) + 1 \in DOMAIN heap'
        BY <1>2, <3>1, <3>2, HeapAppends, OneMore
      <3>4. QED
        BY <1>2, <3>1, <3>3 DEF Nil
    <2>2. CASE c.headers # Nil
      <3>1. heap' = [heap EXCEPT ![c.headers] = WithUserAgent(heap[c.headers])]
            /\ clients' = Append(clients, Resolved(c, env, c.headers))
        BY <2>2 DEF NewClient
      <3>2. c.headers \in DOMAIN heap /\ c.headers \in Nat \ {Nil}
        BY <1>1, <1>2, <2>2
      <3>3. WithUserAgent(heap[c.headers]) \in HeaderMaps
        BY <1>2, <3>2, ElementOfSeq, UserAgentType
      <3>4. HeapStep /\ DOMAIN heap' = DOMAIN heap
        BY <3>1, <3>2, <3>3, HeapChanges
      <3>5. QED
        BY <3>1, <3>2, <3>4
    <2>3. QED
      BY <2>1, <2>2
  <1> DEFINE new == Resolved(c, env, h)
  <1>4. new \in Configs /\ new.headers = h /\ new.extra = c.extra
    BY <1>1, Constants DEF Configs, Resolved
  <1>5. MapsOf(new) \subseteq DOMAIN heap'
    BY <1>1, <1>3, <1>4 DEF MapsOf, HeapStep
  <1> HIDE DEF new
  <1>6. /\ clients \in Seq(Configs) /\ clients' \in Seq(Configs)
        /\ DOMAIN clients' = DOMAIN clients \cup {Len(clients) + 1}
        /\ \A i \in DOMAIN clients : clients'[i] = clients[i]
        /\ clients'[Len(clients) + 1] = new
    <2>1. clients \in Seq(Configs) /\ clients' = Append(clients, new)
      BY <1>3 DEF ClientsInv, ClientInv, new
    <2>2. QED
      BY <2>1, <1>4, OneMore
  <1>7. returned' = returned /\ boxes' = boxes
    BY DEF NewClient
  <1>8. HeapInv'
    BY <1>3, HeapKept
  <1>9. ClientInv'
    <2>1. ASSUME NEW i \in DOMAIN clients' PROVE clients'[i].headers # Nil /\ MapsOf(clients'[i]) \subseteq DOMAIN heap'
      <3>1. CASE i \in DOMAIN clients
        BY <1>3, <1>6, <3>1 DEF ClientsInv, ClientInv, HeapStep
      <3>2. CASE i = Len(clients) + 1
        BY <1>3, <1>4, <1>5, <1>6, <3>2
      <3>3. QED
        BY <1>6, <3>1, <3>2
    <2>2. QED
      BY <1>6, <2>1 DEF ClientInv, MapsOf
  <1>10. ReturnedInv'
    BY <1>3, <1>6, <1>7 DEF ClientsInv, ReturnedInv, HeapStep
  <1>11. BoxInv'
    <2>1. \A i \in DOMAIN clients : \A v : ResolveEnvdUser(i, v, "")' = ResolveEnvdUser(i, v, "")
      BY <1>6, GatesStable
    <2>2. QED
      BY <1>3, <1>6, <1>7, <2>1 DEF ClientsInv, BoxInv, HeapStep
  <1>12. DetachedInv'
    <2>1. \A i \in DOMAIN clients : Live(i)' = Live(i)
      BY <1>6, <1>7 DEF Live
    <2>2. \A r \in DOMAIN returned : returned[r].of \in DOMAIN clients
      BY DEF ClientsInv, ReturnedInv
    <2>3. QED
      BY <1>7, <2>1, <2>2 DEF ClientsInv, DetachedInv
  <1>13. QED
    BY <1>3, <1>8, <1>9, <1>10, <1>11, <1>12 DEF ClientsInv

(* A returned Config names maps that nothing else names. *)
LEMMA GetConfigKeeps ==
    ASSUME ClientsInv, NEW i \in DOMAIN clients, GetConfig(i)
    PROVE  HeapStep /\ ClientsInv'
  <1> DEFINE c == clients[i]
             n == Len(heap)
             copy == [c EXCEPT !.headers = n + 1, !.extra = IF @ = Nil THEN Nil ELSE n + 2]
  <1>1. c \in Configs /\ c.headers \in DOMAIN heap /\ (c.extra # Nil => c.extra \in DOMAIN heap)
    <2>1. c \in Configs
      BY ElementOfSeq, LenProperties DEF ClientsInv, ClientInv
    <2>2. QED
      BY <2>1 DEF ClientsInv, ClientInv, MapsOf
  <1>2. heap \in Seq(HeaderMaps) /\ n \in Nat /\ DOMAIN heap = 1..n
    BY LenProperties DEF ClientsInv, HeapInv
  <1>3. heap[c.headers] \in HeaderMaps /\ (c.extra # Nil => heap[c.extra] \in HeaderMaps)
    BY <1>1, <1>2, ElementOfSeq
  <1>4. /\ heap' \in Seq(HeaderMaps) /\ Len(heap') = IF c.extra = Nil THEN n + 1 ELSE n + 2
        /\ \A a \in DOMAIN heap : heap'[a] = heap[a]
    <2> DEFINE one == heap \o <<heap[c.headers]>>
               more == IF c.extra = Nil THEN <<>> ELSE <<heap[c.extra]>>
    <2>1. heap' = one \o more
      BY DEF GetConfig
    <2>2. <<heap[c.headers]>> \in Seq(HeaderMaps) /\ Len(<<heap[c.headers]>>) = 1
      BY <1>3
    <2>3. one \in Seq(HeaderMaps) /\ Len(one) = n + 1 /\ \A a \in 1..n : one[a] = heap[a]
      <3>1. /\ one \in Seq(HeaderMaps) /\ Len(one) = n + Len(<<heap[c.headers]>>)
            /\ \A a \in 1..(n + Len(<<heap[c.headers]>>)) :
                  one[a] = IF a <= n THEN heap[a] ELSE <<heap[c.headers]>>[a - n]
        BY <1>2, <2>2, ConcatProperties
      <3>2. QED
        BY <1>2, <2>2, <3>1
    <2>4. more \in Seq(HeaderMaps) /\ Len(more) = IF c.extra = Nil THEN 0 ELSE 1
      BY <1>3
    <2> HIDE DEF one, more
    <2>5. /\ heap' \in Seq(HeaderMaps) /\ Len(heap') = Len(one) + Len(more)
          /\ \A a \in 1..(Len(one) + Len(more)) :
                heap'[a] = IF a <= Len(one) THEN one[a] ELSE more[a - Len(one)]
      BY <2>1, <2>3, <2>4, ConcatProperties
    <2>6. \A a \in 1..n : heap'[a] = heap[a]
      BY <1>2, <2>3, <2>4, <2>5
    <2>7. QED
      BY <1>2, <2>3, <2>4, <2>5, <2>6
  <1>5. DOMAIN heap' = IF c.extra = Nil THEN 1..(n + 1) ELSE 1..(n + 2)
    BY <1>2, <1>4, LenProperties
  <1>6. HeapStep
    BY <1>2, <1>4, <1>5 DEF HeapStep
  <1>7. /\ clients' = clients /\ boxes' = boxes
        /\ returned' = Append(returned, [of |-> i, config |-> copy])
    BY DEF GetConfig
  <1>8. copy \in Configs /\ copy.headers = n + 1 /\ copy.extra = IF c.extra = Nil THEN Nil ELSE n + 2
    <2> DEFINE e == IF c.extra = Nil THEN Nil ELSE n + 2
    <2>1. e \in Nat /\ n + 1 \in Nat
      BY <1>2 DEF Nil
    <2>2. copy = [c EXCEPT !.headers = n + 1, !.extra = e]
      OBVIOUS
    <2> HIDE DEF e
    <2>3. copy \in Configs /\ copy.headers = n + 1 /\ copy.extra = e
      <3> HIDE DEF copy, c
      <3>1. QED
        BY <1>1, <2>1, <2>2 DEF Configs
    <2>4. QED
      BY <2>3 DEF e
  <1> HIDE DEF copy
  <1>9. MapsOf(copy) \subseteq DOMAIN heap' /\ MapsOf(copy) \cap DOMAIN heap = {}
    <2>1. MapsOf(copy) \subseteq IF c.extra = Nil THEN {n + 1} ELSE {n + 1, n + 2}
      BY <1>8 DEF MapsOf
    <2>2. QED
      BY <1>2, <1>5, <2>1
  <1>10. /\ returned' \in Seq([of : Nat, config : Configs])
         /\ DOMAIN returned' = DOMAIN returned \cup {Len(returned) + 1}
         /\ \A r \in DOMAIN returned : returned'[r] = returned[r]
         /\ returned'[Len(returned) + 1].of = i
         /\ returned'[Len(returned) + 1].config = copy
    <2>1. i \in Nat
      BY LenProperties DEF ClientsInv, ClientInv
    <2>2. [of |-> i, config |-> copy] \in [of : Nat, config : Configs]
      BY <1>8, <2>1
    <2>3. returned \in Seq([of : Nat, config : Configs])
      BY DEF ClientsInv, ReturnedInv
    <2>4. QED
      BY <1>7, <2>2, <2>3, OneMore
  <1>11. HeapInv' /\ ClientInv' /\ BoxInv'
    BY <1>6, <1>7, HeapKept
  <1>12. ReturnedInv'
    BY <1>6, <1>7, <1>9, <1>10 DEF ClientsInv, ReturnedInv, HeapStep, MapsOf
  <1>13. DetachedInv'
    <2>1. \A j : Live(j)' = Live(j)
      BY <1>7 DEF Live
    <2>2. MapsOf(copy) \cap Live(i) = {}
      BY <1>9, LiveExist
    <2>3. ASSUME NEW r \in DOMAIN returned' PROVE MapsOf(returned'[r].config) \cap Live(returned'[r].of) = {}
      BY <1>10, <2>2 DEF ClientsInv, DetachedInv
    <2>4. QED
      BY <1>7, <2>1, <2>3 DEF DetachedInv, MapsOf
  <1>14. QED
    BY <1>6, <1>11, <1>12, <1>13 DEF ClientsInv

(* A new sandbox reads the map of its Client, or one that nothing else names. *)
LEMMA NewSandboxKeeps ==
    ASSUME ClientsInv, NEW i \in DOMAIN clients, NEW v \in Versions, NEW token \in Tokens,
           NewSandbox(i, v, token)
    PROVE  HeapStep /\ ClientsInv'
  <1> DEFINE c == clients[i]
  <1>1. c \in Configs /\ c.headers \in MapsOf(c) /\ c.headers \in DOMAIN heap
        /\ (c.extra # Nil => c.extra \in DOMAIN heap)
    <2>1. c \in Configs
      BY ElementOfSeq, LenProperties DEF ClientsInv, ClientInv
    <2>2. QED
      BY <2>1 DEF ClientsInv, ClientInv, MapsOf
  <1>2. heap \in Seq(HeaderMaps) /\ Len(heap) \in Nat /\ DOMAIN heap = 1..Len(heap)
    BY LenProperties DEF ClientsInv, HeapInv
  <1>3. PICK h \in Nat :
           /\ HeapStep /\ h \in DOMAIN heap'
           /\ h \in MapsOf(c) \/ h \notin DOMAIN heap
           /\ boxes' = Append(boxes, [client |-> i, version |-> v, token |-> token,
                                      user |-> ResolveEnvdUser(i, v, ""), headers |-> h])
    <2>1. CASE Shared(c)
      <3>1. heap' = heap
            /\ boxes' = Append(boxes, [client |-> i, version |-> v, token |-> token,
                                       user |-> ResolveEnvdUser(i, v, ""), headers |-> c.headers])
        BY <2>1 DEF NewSandbox
      <3>2. HeapStep
        <4>1. heap' = heap
          BY <3>1
        <4>2. QED
          BY <1>2, <4>1 DEF HeapStep
      <3>3. c.headers \in Nat /\ c.headers \in DOMAIN heap'
        BY <1>1, <3>1 DEF Configs
      <3>4. QED
        BY <1>1, <3>1, <3>2, <3>3
    <2>2. CASE ~Shared(c)
      <3>1. heap' = Append(heap, Merged(c))
            /\ boxes' = Append(boxes, [client |-> i, version |-> v, token |-> token,
                                       user |-> ResolveEnvdUser(i, v, ""), headers |-> Len(heap) + 1])
        BY <2>2 DEF NewSandbox
      <3>2. c.extra # Nil
        BY <2>2 DEF Shared
      <3>3. Merged(c) \in HeaderMaps
        BY <1>1, <1>2, <3>2, ElementOfSeq, SetAllType DEF Merged
      <3>4. HeapStep /\ Len(heap) + 1 \in DOMAIN heap' /\ Len(heap) + 1 \notin DOMAIN heap
        <4>1. heap' = Append(heap, Merged(c))
          BY <3>1
        <4>2. QED
          BY <1>2, <3>3, <4>1, HeapAppends, OneMore
      <3>5. Len(heap) + 1 \in Nat
        BY <1>2
      <3>6. QED
        BY <3>1, <3>4, <3>5
    <2>3. QED
      BY <2>1, <2>2
  <1> DEFINE box == [client |-> i, version |-> v, token |-> token,
                     user |-> ResolveEnvdUser(i, v, ""), headers |-> h]
  <1>4. box \in Box
    <2>1. ResolveEnvdUser(i, v, "") \in {"", "user"}
      BY DEF ResolveEnvdUser
    <2>2. i \in Nat
      BY LenProperties DEF ClientsInv, ClientInv
    <2>3. QED
      BY <2>1, <2>2 DEF Box
  <1>5. box.client = i /\ box.headers = h /\ box.version = v /\ box.user = ResolveEnvdUser(i, v, "")
    OBVIOUS
  <1> HIDE DEF box
  <1>6. /\ boxes' \in Seq(Box)
        /\ DOMAIN boxes' = DOMAIN boxes \cup {Len(boxes) + 1}
        /\ \A b \in DOMAIN boxes : boxes'[b] = boxes[b]
        /\ boxes'[Len(boxes) + 1] = box
    <2>1. boxes \in Seq(Box) /\ boxes' = Append(boxes, box)
      BY <1>3 DEF ClientsInv, BoxInv, box
    <2>2. QED
      BY <1>4, <2>1, OneMore
  <1>7. clients' = clients /\ returned' = returned
    BY DEF NewSandbox
  <1>8. HeapInv' /\ ClientInv' /\ ReturnedInv'
    BY <1>3, <1>7, HeapKept
  <1>9. BoxInv'
    <2>1. \A j, w : ResolveEnvdUser(j, w, "")' = ResolveEnvdUser(j, w, "")
      BY <1>7, GatesStable
    <2>2. ASSUME NEW b \in DOMAIN boxes'
          PROVE  /\ boxes'[b].client \in DOMAIN clients /\ boxes'[b].headers \in DOMAIN heap'
                 /\ boxes'[b].user = ResolveEnvdUser(boxes'[b].client, boxes'[b].version, "")
      <3>1. CASE b \in DOMAIN boxes
        BY <1>3, <1>6, <3>1 DEF ClientsInv, BoxInv, HeapStep
      <3>2. CASE b = Len(boxes) + 1
        BY <1>3, <1>5, <1>6, <3>2
      <3>3. QED
        BY <1>6, <3>1, <3>2
    <2>3. QED
      BY <1>6, <1>7, <2>1, <2>2 DEF BoxInv
  <1>10. DetachedInv'
    <2>1. ASSUME NEW r \in DOMAIN returned, NEW a \in MapsOf(returned[r].config), a \in Live(returned[r].of)'
          PROVE  FALSE
      <3> DEFINE j == returned[r].of
      <3>1. a \in DOMAIN heap /\ a \notin Live(j)
        BY <2>1 DEF ClientsInv, ReturnedInv, DetachedInv
      <3>2. a \in MapsOf(clients'[j]) \/ \E b \in DOMAIN boxes' : boxes'[b].client = j /\ boxes'[b].headers = a
        BY <1>7, <2>1 DEF Live
      <3>3. a \notin MapsOf(clients'[j])
        BY <1>7, <3>1, LiveIs DEF MapsOf
      <3>4. PICK b \in DOMAIN boxes' : boxes'[b].client = j /\ boxes'[b].headers = a
        BY <3>2, <3>3
      <3>5. b \notin DOMAIN boxes
        BY <1>6, <3>1, <3>4, LiveIs
      <3>6. a = h /\ j = i
        BY <1>5, <1>6, <3>4, <3>5
      <3>7. QED
        BY <1>3, <3>1, <3>6, LiveIs
    <2>2. QED
      BY <1>7, <2>1 DEF DetachedInv, MapsOf
  <1>11. QED
    BY <1>3, <1>8, <1>9, <1>10 DEF ClientsInv

(* A map that the caller changes is one it has made, or one of a returned Config. *)
LEMMA ChangeMapKeeps == ASSUME ClientsInv, ChangeMap PROVE HeapStep /\ ClientsInv'
  <1>1. PICK a \in DOMAIN OwnMaps \cup UNION {MapsOf(returned[r].config) : r \in DOMAIN returned}, k \in NewKeys :
           heap' = [heap EXCEPT ![a] = Set(heap[a], k, "new")]
    BY DEF ChangeMap
  <1>2. heap \in Seq(HeaderMaps) /\ Len(heap) \in Nat /\ DOMAIN heap = 1..Len(heap)
    BY LenProperties DEF ClientsInv, HeapInv
  <1>3. a \in DOMAIN heap
    <2>1. DOMAIN OwnMaps \subseteq DOMAIN heap
      <3>1. Len(OwnMaps) \in Nat /\ DOMAIN OwnMaps = 1..Len(OwnMaps) /\ Len(OwnMaps) <= Len(heap)
        BY Constants DEF ClientsInv, HeapInv
      <3>2. QED
        BY <1>2, <3>1
    <2>2. QED
      BY <1>1, <2>1 DEF ClientsInv, ReturnedInv
  <1>4. Set(heap[a], k, "new") \in HeaderMaps
    <2>1. heap[a] \in HeaderMaps /\ k \in Keys /\ "new" \in Values
      BY <1>2, <1>3, ElementOfSeq, Constants DEF Values
    <2>2. QED
      BY <2>1, SetType
  <1>5. HeapStep
    BY <1>1, <1>3, <1>4, HeapChanges
  <1>6. clients' = clients /\ returned' = returned /\ boxes' = boxes
    BY DEF ChangeMap
  <1>7. DetachedInv'
    BY <1>6 DEF ClientsInv, DetachedInv, Live, MapsOf
  <1>8. QED
    BY <1>5, <1>6, <1>7, HeapKept DEF ClientsInv

(* A request, and its end, change none of this. *)
LEMMA FrameKeeps ==
    ASSUME ClientsInv, UNCHANGED <<heap, clients, returned, boxes>> PROVE HeapStep /\ ClientsInv'
  <1>1. heap \in Seq(HeaderMaps) /\ Len(heap) \in Nat
    BY LenProperties DEF ClientsInv, HeapInv
  <1>2. HeapStep
    BY <1>1 DEF HeapStep
  <1>3. DetachedInv'
    BY DEF ClientsInv, DetachedInv, Live, MapsOf
  <1>4. QED
    BY <1>2, <1>3, HeapKept DEF ClientsInv

(* The requests that the program makes. *)
Request ==
    \/ \E c \in CallerConfigs \cup {returned[r].config : r \in DOMAIN returned} :
           CallVolumes(c) \/ CallVolume(c, "jwt")
    \/ \E i \in DOMAIN clients : CallAPI(i)
    \/ \E b \in DOMAIN boxes :
           \/ CallEnvd(b)
           \/ \E gate \in {RecursiveWatch, EnvdClose} : CallGated(b, gate)
           \/ \E op \in {"read", "write"}, asked \in {"", "root"}, expires \in BOOLEAN :
                  UseFileURL(b, op, asked, expires)

(* Every step keeps the invariant, changes at most one map that is there, and is a request or *)
(* leaves none on its way.                                                                    *)
LEMMA ClientsStep ==
    ASSUME ClientsInv, [Next]_vars
    PROVE  /\ HeapStep /\ ClientsInv'
           /\ Request \/ sent' = Nothing \/ UNCHANGED vars
  <1>1. ASSUME NEW c \in CallerConfigs \cup {returned[r].config : r \in DOMAIN returned},
               NEW env \in Environments, NewClient(c, env)
        PROVE  HeapStep /\ ClientsInv' /\ sent' = Nothing
    <2>1. HeapStep /\ ClientsInv'
      BY <1>1, NewClientKeeps
    <2>2. sent' = Nothing
      BY <1>1 DEF NewClient, Idle
    <2>3. QED
      BY <2>1, <2>2
  <1>2. ASSUME NEW i \in DOMAIN clients, GetConfig(i) PROVE HeapStep /\ ClientsInv' /\ sent' = Nothing
    <2>1. HeapStep /\ ClientsInv'
      BY <1>2, GetConfigKeeps
    <2>2. sent' = Nothing
      BY <1>2 DEF GetConfig, Idle
    <2>3. QED
      BY <2>1, <2>2
  <1>3. ASSUME NEW i \in DOMAIN clients, NEW v \in Versions, NEW token \in Tokens, NewSandbox(i, v, token)
        PROVE  HeapStep /\ ClientsInv' /\ sent' = Nothing
    <2>1. HeapStep /\ ClientsInv'
      BY <1>3, NewSandboxKeeps
    <2>2. sent' = Nothing
      BY <1>3 DEF NewSandbox, Idle
    <2>3. QED
      BY <2>1, <2>2
  <1>4. CASE ChangeMap
    BY <1>4, ChangeMapKeeps DEF ChangeMap, Idle
  <1>5. CASE Done
    BY <1>5, FrameKeeps DEF Done
  <1>6. CASE Request
    <2>1. UNCHANGED <<heap, clients, returned, boxes>>
      BY <1>6 DEF Request, CallVolumes, CallVolume, CallAPI, CallEnvd, CallGated, UseFileURL, Send
    <2>2. QED
      BY <1>6, <2>1, FrameKeeps
  <1>7. CASE UNCHANGED vars
    BY <1>7, FrameKeeps DEF vars
  <1>8. QED
    BY <1>1, <1>2, <1>3, <1>4, <1>5, <1>6, <1>7 DEF Next, Request, Tokens

(* It holds at the start. *)
LEMMA ClientsInit == Init => ClientsInv
  <1> SUFFICES ASSUME Init PROVE ClientsInv
    OBVIOUS
  <1>1. heap \in Seq(HeaderMaps) /\ Len(OwnMaps) \in Nat /\ Len(OwnMaps) <= Len(heap)
    BY Constants DEF Init
  <1>2. clients = <<>> /\ returned = <<>> /\ boxes = <<>>
    BY DEF Init
  <1>3. QED
    BY <1>1, <1>2 DEF ClientsInv, HeapInv, ClientInv, ReturnedInv, BoxInv, DetachedInv

(* ... and therefore always. *)
LEMMA AlwaysClients == Spec => []ClientsInv
  <1>1. ClientsInv /\ [Next]_vars => ClientsInv'
    BY ClientsStep
  <1>2. QED
    BY <1>1, ClientsInit, PTL DEF Spec

(* Every variable keeps to its values, and every map that something names is there. *)
THEOREM TypeCorrect == Spec => []TypeOK
  <1>1. ClientsInv => TypeOK
    <2> SUFFICES ASSUME ClientsInv PROVE TypeOK
      OBVIOUS
    <2>1. \A a \in DOMAIN heap : HeaderMap(heap[a])
      <3>1. SUFFICES ASSUME NEW a \in DOMAIN heap PROVE HeaderMap(heap[a])
        OBVIOUS
      <3>2. heap[a] \in HeaderMaps
        BY ElementOfSeq, LenProperties DEF ClientsInv, HeapInv
      <3>3. QED
        BY <3>2 DEF HeaderMaps, HeaderMap
    <2>2. QED
      BY <2>1 DEF ClientsInv, ClientInv, ReturnedInv, BoxInv, Box, Tokens, TypeOK
  <1>2. QED
    BY <1>1, AlwaysClients, PTL

(* Client.Config: a write into the maps of a returned Config changes no header of that Client nor *)
(* of a sandbox of it.                                                                            *)
THEOREM ReturnedIsDetached == Spec => ReturnedConfigIsDetached
  <1> DEFINE Detached ==
        \A r \in DOMAIN returned :
            (\E a \in MapsOf(returned[r].config) : heap'[a] # heap[a])
                => \A a \in Live(returned[r].of) : heap'[a] = heap[a]
  <1>1. ClientsInv /\ [Next]_vars => Detached
    <2> SUFFICES ASSUME ClientsInv, [Next]_vars, NEW r \in DOMAIN returned,
                        NEW m \in MapsOf(returned[r].config), heap'[m] # heap[m],
                        NEW a \in Live(returned[r].of)
                 PROVE  heap'[a] = heap[a]
      OBVIOUS
    <2>1. PICK x \in Nat : \A z \in DOMAIN heap : z # x => heap'[z] = heap[z]
      BY ClientsStep DEF HeapStep
    <2>2. m \in DOMAIN heap /\ returned[r].of \in DOMAIN clients /\ m \notin Live(returned[r].of)
      BY DEF ClientsInv, ReturnedInv, DetachedInv
    <2>3. a \in DOMAIN heap
      BY <2>2, LiveExist
    <2>4. m = x /\ a # m
      BY <2>1, <2>2
    <2>5. QED
      BY <2>1, <2>3, <2>4
  <1>2. QED
    BY <1>1, AlwaysClients, PTL DEF Spec, ReturnedConfigIsDetached

-------------------------------------------------------------------------------
(* Requests                                                                  *)

(* No spelling of Authorization is left in what goes to envd. *)
LEMMA OthersHaveNone ==
    ASSUME NEW m
    PROVE  "Authorization" \notin DOMAIN Others(m) /\ Lower("Authorization") \notin DOMAIN Others(m)
  <1>1. DOMAIN Others(m) \subseteq {k \in Keys : Canonical(k) # "Authorization"}
    BY DEF Others, Only
  <1>2. Lower("Authorization") = "authorization"
    BY DEF Lower
  <1>3. ASSUME NEW k \in {"Authorization", "authorization"} PROVE Canonical(k) = "Authorization"
    <2>1. \A n \in Names : k \in {n, Lower(n)} <=> n = "Authorization"
      BY <1>3 DEF Names, Lower
    <2>2. "Authorization" \in Names
      BY DEF Names
    <2>3. QED
      BY <2>1, <2>2 DEF Canonical
  <1>4. QED
    BY <1>1, <1>2, <1>3

(* The API's editor sets the credentials before it walks through the map: they stay. *)
LEMMA APICredentials ==
    ASSUME NEW c, NEW lower
    PROVE  /\ c.apiKey # "" => APIHeaders(c, lower)["X-API-Key"] = c.apiKey
           /\ c.accessToken # "" => APIHeaders(c, lower)["Authorization"] = "bearer"
  <1>1. "X-API-Key" \in Names /\ "Authorization" \in Names
    BY DEF Names
  <1>2. QED
    BY <1>1 DEF APIHeaders, Added

(* So does the editor for the content of a volume. *)
LEMMA VolumeCredentials ==
    ASSUME NEW c, NEW token, token # "", NEW lower PROVE VolumeHeaders(c, token, lower)["Authorization"] = token
  <1>1. "Authorization" \in Names
    BY DEF Names
  <1>2. QED
    BY <1>1 DEF VolumeHeaders, Added

(* And those for envd: Basic authorization for a user, and none without. *)
LEMMA EnvdCredentials ==
    ASSUME NEW b, NEW lower
    PROVE  /\ b.token # "" => EnvdHeaders(b, lower)["X-Access-Token"] = b.token
           /\ EnvdHeaders(b, lower)["Authorization"] = IF b.user # "" THEN "basic" ELSE ""
  <1>1. "X-Access-Token" \in Names /\ "Authorization" \in Names
    BY DEF Names
  <1>2. b.token # "" => EnvdHeaders(b, lower)["X-Access-Token"] = b.token
    BY <1>1 DEF EnvdHeaders, Added
  <1>3. "Authorization" \notin DOMAIN Others(heap[b.headers])
        /\ Lower("Authorization") \notin DOMAIN Others(heap[b.headers])
    BY OthersHaveNone
  <1>4. EnvdHeaders(b, lower)["Authorization"] = IF b.user # "" THEN "basic" ELSE ""
    BY <1>1, <1>3 DEF EnvdHeaders, Added
  <1>5. QED
    BY <1>2, <1>4

(* What an envd knows is what the gates say of it, where the order of versions decides; and the *)
(* default user of a file URL is that of the sandbox's calls.                                   *)
LEMMA KnowsIs ==
    ASSUME ClientsInv, NEW b \in DOMAIN boxes
    PROVE  /\ Comparable(b) => \A g \in Gates : GateOpen(boxes[b].client, boxes[b].version, g) <=> Knows(b, g)
           /\ \A asked : ResolveEnvdUser(boxes[b].client, boxes[b].version, asked)
                           = IF asked # "" THEN asked ELSE boxes[b].user
           /\ Comparable(b) => (boxes[b].user = "" <=> Knows(b, InfersDefaultUser))
  <1>1. boxes[b] \in Box /\ boxes[b].client \in DOMAIN clients
    BY ElementOfSeq, LenProperties DEF ClientsInv, BoxInv
  <1>2. boxes[b].version \in Seq(Nat \cup {Bad})
    BY <1>1, Constants DEF Box
  <1>3. clients[boxes[b].client] \in Configs
    BY <1>1, ElementOfSeq, LenProperties DEF ClientsInv, ClientInv
  <1>4. clients[boxes[b].client].debug \in BOOLEAN
    BY <1>3 DEF Configs
  <1>5. Comparable(b) => \A g \in Gates : GateOpen(boxes[b].client, boxes[b].version, g) <=> Knows(b, g)
    BY <1>2, <1>4, GateIs DEF Knows, Comparable
  <1>6. boxes[b].user = ResolveEnvdUser(boxes[b].client, boxes[b].version, "")
    BY DEF ClientsInv, BoxInv
  <1>7. \A asked : ResolveEnvdUser(boxes[b].client, boxes[b].version, asked)
                     = IF asked # "" THEN asked ELSE boxes[b].user
    BY <1>6 DEF ResolveEnvdUser
  <1>8. boxes[b].user = "" <=> GateOpen(boxes[b].client, boxes[b].version, InfersDefaultUser)
    <2>1. boxes[b].user = IF GateOpen(boxes[b].client, boxes[b].version, InfersDefaultUser) THEN "" ELSE "user"
      BY <1>6 DEF ResolveEnvdUser
    <2>2. "user" # ""
      OBVIOUS
    <2>3. QED
      BY <2>1, <2>2
  <1>9. InfersDefaultUser \in Gates
    BY DEF Gates
  <1>10. QED
    BY <1>5, <1>7, <1>8, <1>9

RequestInv == CredentialsAreTheSDKs /\ FileURLsVerify /\ GatesFollowVersion

(* Every request carries what it must. *)
LEMMA RequestsRight == ASSUME ClientsInv, Request PROVE RequestInv'
  <1>1. clients' = clients /\ boxes' = boxes
    BY DEF Request, CallVolumes, CallVolume, CallAPI, CallEnvd, CallGated, UseFileURL, Send
  <1>2. /\ \A b, g : Knows(b, g)' <=> Knows(b, g)
        /\ \A b : Comparable(b)' <=> Comparable(b)
    BY <1>1 DEF Knows, Comparable
  <1>3. ASSUME NEW c, NEW lower, sent' = [kind |-> "volumes", config |-> c, headers |-> APIHeaders(c, lower)]
        PROVE  RequestInv'
    BY <1>3, APICredentials DEF RequestInv, CredentialsAreTheSDKs, FileURLsVerify, GatesFollowVersion
  <1>4. ASSUME NEW i, NEW lower,
               sent' = [kind |-> "api", client |-> i, headers |-> APIHeaders(clients[i], lower)]
        PROVE  RequestInv'
    BY <1>1, <1>4, APICredentials DEF RequestInv, CredentialsAreTheSDKs, FileURLsVerify, GatesFollowVersion
  <1>5. ASSUME NEW c, NEW lower,
               sent' = [kind |-> "volume", token |-> "jwt", headers |-> VolumeHeaders(c, "jwt", lower)]
        PROVE  RequestInv'
    <2>1. VolumeHeaders(c, "jwt", lower)["Authorization"] = "jwt"
      <3>1. "jwt" # ""
        OBVIOUS
      <3>2. QED
        BY <3>1, VolumeCredentials
    <2>2. QED
      BY <1>5, <2>1 DEF RequestInv, CredentialsAreTheSDKs, FileURLsVerify, GatesFollowVersion
  <1>6. ASSUME NEW b \in DOMAIN boxes, NEW lower,
               sent' = [kind |-> "envd", box |-> b, headers |-> EnvdHeaders(boxes[b], lower)]
        PROVE  RequestInv'
    <2>1. /\ EnvdHeaders(boxes[b], lower)["Authorization"] \in {"", "basic"}
          /\ Comparable(b) =>
                ((EnvdHeaders(boxes[b], lower)["Authorization"] = "") <=> Knows(b, InfersDefaultUser))
      <3>1. Comparable(b) => (boxes[b].user = "" <=> Knows(b, InfersDefaultUser))
        BY KnowsIs
      <3>2. EnvdHeaders(boxes[b], lower)["Authorization"] = IF boxes[b].user # "" THEN "basic" ELSE ""
        BY EnvdCredentials
      <3>3. "basic" # ""
        OBVIOUS
      <3>4. QED
        BY <3>1, <3>2, <3>3
    <2>2. boxes[b].token # "" => EnvdHeaders(boxes[b], lower)["X-Access-Token"] = boxes[b].token
      BY EnvdCredentials
    <2>3. QED
      BY <1>1, <1>2, <1>6, <2>1, <2>2 DEF RequestInv, CredentialsAreTheSDKs, FileURLsVerify, GatesFollowVersion
  <1>7. ASSUME NEW b \in DOMAIN boxes, NEW g \in Gates,
               sent' = [kind |-> "gated", box |-> b, gate |-> g,
                        taken |-> GateOpen(boxes[b].client, boxes[b].version, g)]
        PROVE  RequestInv'
    BY <1>1, <1>2, <1>7, KnowsIs DEF RequestInv, CredentialsAreTheSDKs, FileURLsVerify, GatesFollowVersion
  <1>8. ASSUME NEW b \in DOMAIN boxes, NEW op, NEW asked, NEW expires \in BOOLEAN, UseFileURL(b, op, asked, expires)
        PROVE  RequestInv'
    <2> DEFINE signed == boxes[b].token # ""
               user == ResolveEnvdUser(boxes[b].client, boxes[b].version, asked)
               open == GateOpen(boxes[b].client, boxes[b].version, OctetStream)
               signature == IF signed THEN GetSignature(op, asked, user, expires) ELSE Unsigned
    <2>1. /\ sent'.kind = "file" /\ sent'.box = b /\ sent'.op = op /\ sent'.asked = asked
          /\ sent'.username = user /\ sent'.signature = signature
          /\ sent'.expires = (signed /\ expires) /\ sent'.octet = open
      BY <1>8 DEF UseFileURL, Send
    <2>2. user = IF asked # "" THEN asked ELSE boxes[b].user
      BY KnowsIs
    <2>3. Comparable(b) => (open <=> Knows(b, OctetStream))
      BY KnowsIs DEF Gates
    <2>4. signed => signature = [op |-> op, user |-> user, expires |-> expires]
      BY DEF GetSignature
    <2> HIDE DEF signed, user, open, signature
    <2>5. FileURLsVerify'
      <3>1. signed => sent'.signature = [op |-> sent'.op, user |-> sent'.username, expires |-> sent'.expires]
        <4>1. signed => sent'.expires = expires
          <5>1. sent'.expires = (signed /\ expires)
            BY <2>1
          <5>2. signed => (signed /\ expires) = expires
            OBVIOUS
          <5>3. QED
            BY <5>1, <5>2, Zenon
        <4>2. QED
          BY <2>1, <2>4, <4>1
      <3>2. boxes'[sent'.box].token # "" => signed
        BY <1>1, <2>1 DEF signed
      <3>3. sent'.username = IF sent'.asked # "" THEN sent'.asked ELSE boxes'[sent'.box].user
        BY <1>1, <2>1, <2>2
      <3>4. QED
        BY <3>1, <3>2, <3>3 DEF FileURLsVerify
    <2>6. CredentialsAreTheSDKs' /\ GatesFollowVersion'
      BY <1>1, <1>2, <2>1, <2>3 DEF CredentialsAreTheSDKs, GatesFollowVersion
    <2>7. QED
      BY <2>5, <2>6 DEF RequestInv
  <1>9. QED
    <2>1. CASE \E c \in CallerConfigs \cup {returned[r].config : r \in DOMAIN returned} : CallVolumes(c)
      BY <1>3, <2>1 DEF CallVolumes, Send
    <2>2. CASE \E c \in CallerConfigs \cup {returned[r].config : r \in DOMAIN returned} : CallVolume(c, "jwt")
      BY <1>5, <2>2 DEF CallVolume, Send
    <2>3. CASE \E i \in DOMAIN clients : CallAPI(i)
      BY <1>4, <2>3 DEF CallAPI, Send
    <2>4. CASE \E b \in DOMAIN boxes : CallEnvd(b)
      BY <1>6, <2>4 DEF CallEnvd, Send
    <2>5. CASE \E b \in DOMAIN boxes : \E gate \in {RecursiveWatch, EnvdClose} : CallGated(b, gate)
      BY <1>7, <2>5 DEF CallGated, Send, Gates
    <2>6. CASE \E b \in DOMAIN boxes : \E op \in {"read", "write"}, asked \in {"", "root"}, expires \in BOOLEAN :
                  UseFileURL(b, op, asked, expires)
      BY <1>8, <2>6
    <2>7. QED
      BY <2>1, <2>2, <2>3, <2>4, <2>5, <2>6 DEF Request

(* So does the one that is on its way. *)
LEMMA AlwaysRequests == Spec => []RequestInv
  <1>1. Init => RequestInv
    BY DEF Init, Nothing, RequestInv, CredentialsAreTheSDKs, FileURLsVerify, GatesFollowVersion
  <1>2. ClientsInv /\ RequestInv /\ [Next]_vars => RequestInv'
    <2> SUFFICES ASSUME ClientsInv, RequestInv, [Next]_vars PROVE RequestInv'
      OBVIOUS
    <2>1. CASE Request
      BY <2>1, RequestsRight
    <2>2. CASE sent' = Nothing
      BY <2>2 DEF Nothing, RequestInv, CredentialsAreTheSDKs, FileURLsVerify, GatesFollowVersion
    <2>3. CASE UNCHANGED vars
      BY <2>3 DEF vars, RequestInv, CredentialsAreTheSDKs, FileURLsVerify, GatesFollowVersion, Knows, Comparable
    <2>4. QED
      BY <2>1, <2>2, <2>3, ClientsStep
  <1>3. QED
    BY <1>1, <1>2, AlwaysClients, PTL DEF Spec

(* No header map of the caller replaces a credential of the SDK, however it is spelled. *)
THEOREM CredentialsKept == Spec => []CredentialsAreTheSDKs
  <1>1. RequestInv => CredentialsAreTheSDKs
    BY DEF RequestInv
  <1>2. QED
    BY <1>1, AlwaysRequests, PTL

(* The signature of a file URL is that of the operation, the user and the expiration in the URL. *)
THEOREM SignaturesVerify == Spec => []FileURLsVerify
  <1>1. RequestInv => FileURLsVerify
    BY DEF RequestInv
  <1>2. QED
    BY <1>1, AlwaysRequests, PTL

(* A gate is open for the versions of numbers that are not before it, and for no other of them: *)
(* on it depend what is refused, how a file is uploaded and which calls name the default user.  *)
THEOREM GatesAreRight == Spec => []GatesFollowVersion
  <1>1. RequestInv => GatesFollowVersion
    BY DEF RequestInv
  <1>2. QED
    BY <1>1, AlwaysRequests, PTL
================================================================================
