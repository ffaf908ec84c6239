-------------------------------- MODULE Clients --------------------------------
(***************************************************************************)
(* What the requests of a Client and of its sandboxes carry: the resolved  *)
(* Config (config.go), the header maps, which Go shares by reference, the  *)
(* header editors (internal/transport/transport.go), the version gates     *)
(* (versions.go) and the signed URLs of files (signature.go, sandbox.go).  *)
(*                                                                         *)
(* Header maps live in heap and are named by their index, 0 being nil.     *)
(* URLs, hosts and timeouts of a Config are left out.                      *)
(***************************************************************************)
EXTENDS Integers, Sequences

CONSTANTS OwnMaps,       \* the header maps that the caller has made
          CallerConfigs, \* the Configs the caller fills in
          Environments,  \* values of E2B_API_KEY, E2B_ACCESS_TOKEN and E2B_DEBUG
          Versions,      \* what envd may report as its version
          NewKeys,       \* the keys that the caller sets in maps it holds
          MaxClients, MaxReturned, MaxBoxes

VARIABLES
    heap,     \* the header maps, in the order they were made
    clients,  \* the resolved Config of every Client
    returned, \* what Client.Config has returned: the Client and the Config
    boxes,    \* the sandboxes
    sent      \* the request that has just been made

vars == <<heap, clients, returned, boxes, sent>>

Nil      == 0
EmptyMap == [k \in {} |-> ""]

-------------------------------------------------------------------------------
(* Versions: sequences of segments, Bad for one that Atoi refuses          *)

Bad == -1

RecursiveWatch    == <<0, 1, 4>>
InfersDefaultUser == <<0, 4, 0>>
EnvdClose         == <<0, 5, 2>>
OctetStream       == <<0, 5, 7>>
DebugFallback     == <<99, 99, 99>>

(* A missing segment counts as 0, and so does a bad one. *)
Segment(v, i) == IF i \in DOMAIN v /\ v[i] # Bad THEN v[i] ELSE 0

\* Mutant: a version with any smaller segment is older, though an earlier segment is greater.
CompareEach(a, b) ==
    IF \E i \in DOMAIN a \cup DOMAIN b : Segment(a, i) < Segment(b, i) THEN -1 ELSE 0

(* Negative, zero or positive, as a is before, equal to or after b. *)
CompareEnvdVersions(a, b) ==
    LET differ == {i \in DOMAIN a \cup DOMAIN b : Segment(a, i) # Segment(b, i)}
        first  == CHOOSE i \in differ : \A j \in differ : i <= j
    IN IF differ = {} THEN 0 ELSE Segment(a, first) - Segment(b, first)

(* The version that the gates look at. *)
Gating(i, v) == IF clients[i].debug THEN DebugFallback ELSE v

GateOpen(i, v, gate) == CompareEnvdVersions(Gating(i, v), gate) >= 0

ResolveEnvdUser(i, v, requested) ==
    IF requested # "" THEN requested ELSE IF GateOpen(i, v, InfersDefaultUser) THEN "" ELSE "user"

-------------------------------------------------------------------------------
(* Headers                                                                 *)

Names == {"User-Agent", "Authorization", "X-API-Key", "X-Access-Token"}

Lower(n) == CASE n = "User-Agent"    -> "user-agent"
              [] n = "Authorization" -> "authorization"
              [] OTHER               -> n

Keys == Names \cup {Lower(n) : n \in Names}

(* The strings, those among them that occur here by name. *)
Values == STRING \cup {"sdk", "new"}

HeaderMap(m) == DOMAIN m \subseteq Keys /\ m \in [DOMAIN m -> Values]

Canonical(k) == CHOOSE n \in Names : k \in {n, Lower(n)}

Only(m, S) == [k \in DOMAIN m \cap S |-> m[k]]

(* The headers of a request that has some set: the map adds those that are not set yet.  Go   *)
(* walks through a map in any order: for the names in lower it finds the other spelling first. *)
Added(set, m, lower) ==
    [n \in Names |->
        LET first  == IF n \in lower THEN Lower(n) ELSE n
            second == IF n \in lower THEN n ELSE Lower(n)
        IN IF set[n] # "" THEN set[n]
           ELSE IF first \in DOMAIN m THEN m[first]
           ELSE IF second \in DOMAIN m THEN m[second] ELSE ""]

Orders == SUBSET {n \in Names : Lower(n) # n}

(* The entries of one map are set in another. *)
SetAll(m, more) == [k \in DOMAIN m \cup DOMAIN more |-> IF k \in DOMAIN more THEN more[k] ELSE m[k]]
Set(m, k, value) == SetAll(m, [n \in {k} |-> value])

MapAt(a) == IF a = Nil THEN EmptyMap ELSE heap[a]

(* Auth.AsRequestEditor: both credentials are sent when both are there. *)
APIHeaders(c, lower) ==
    Added([n \in Names |-> CASE n = "X-API-Key" -> c.apiKey
                             [] n = "Authorization" /\ c.accessToken # "" -> "bearer"
                             [] OTHER -> ""],
          MapAt(c.headers), lower)

\* Mutant: header maps are searched for the canonical spelling only.
OthersAsSpelled(m) == Only(m, Keys \ {"Authorization"})

(* No header map adds an Authorization to what goes to envd. *)
Others(m) == Only(m, {k \in Keys : Canonical(k) # "Authorization"})

(* EnvdAuth.applyHeader, and the editor of the envd HTTP client. *)
EnvdHeaders(b, lower) ==
    Added([n \in Names |-> CASE n = "X-Access-Token" -> b.token
                             [] n = "Authorization" /\ b.user # "" -> "basic"
                             [] OTHER -> ""],
          Others(heap[b.headers]), lower)

(* NewVolumeAPIClient, for the content of a volume. *)
VolumeHeaders(c, token, lower) ==
    Added([n \in Names |-> IF n = "Authorization" THEN token ELSE ""], MapAt(c.headers), lower)

(* mergeHeaders returns the base itself when there is nothing to add. *)
Shared(c) == c.extra = Nil \/ DOMAIN heap[c.extra] = {}
Merged(c) == SetAll(heap[c.headers], heap[c.extra])

Configs == [apiKey : STRING, accessToken : STRING, debug : BOOLEAN, headers : Nat, extra : Nat]

ASSUME ClientsOK ==
    /\ OwnMaps \in Seq({OwnMaps[a] : a \in DOMAIN OwnMaps})
    /\ \A a \in DOMAIN OwnMaps : HeaderMap(OwnMaps[a])
    /\ NewKeys \subseteq Keys
    /\ CallerConfigs \subseteq Configs
    /\ \A c \in CallerConfigs : {c.headers, c.extra} \subseteq 0..Len(OwnMaps)
    /\ Environments \subseteq [apiKey : STRING, accessToken : STRING, debug : BOOLEAN]
    /\ Versions \subseteq Seq(Nat \cup {Bad})

-------------------------------------------------------------------------------
Nothing == [kind |-> "none"]

Idle == sent = Nothing

Init == /\ heap = OwnMaps
        /\ clients = <<>> /\ returned = <<>> /\ boxes = <<>>
        /\ sent = Nothing

(* Config.resolve writes the User-Agent into the caller's own map, or into a new one. *)
WithUserAgent(m) == IF "User-Agent" \in DOMAIN m THEN m ELSE Set(m, "User-Agent", "sdk")

Resolved(c, env, headers) ==
    [c EXCEPT !.apiKey      = IF @ = "" THEN env.apiKey ELSE @,
              !.accessToken = IF @ = "" THEN env.accessToken ELSE @,
              !.debug       = @ \/ env.debug,
              !.headers     = headers]

(* The environment is whatever the program has set it to by then. *)
NewClient(c, env) ==
    /\ Idle /\ Len(clients) < MaxClients
    /\ IF c.headers = Nil
       THEN /\ heap' = Append(heap, WithUserAgent(EmptyMap))
            /\ clients' = Append(clients, Resolved(c, env, Len(heap) + 1))
       ELSE /\ heap' = [heap EXCEPT ![c.headers] = WithUserAgent(@)]
            /\ clients' = Append(clients, Resolved(c, env, c.headers))
    /\ UNCHANGED <<returned, boxes, sent>>

\* Mutant: the map of extra sandbox headers is returned itself.
GetConfigShared(i) ==
    /\ Idle /\ Len(returned) < MaxReturned
    /\ heap' = Append(heap, heap[clients[i].headers])
    /\ returned' = Append(returned, [of |-> i, config |-> [clients[i] EXCEPT !.headers = Len(heap) + 1]])
    /\ UNCHANGED <<clients, boxes, sent>>

(* Client.Config: the maps are cloned. *)
GetConfig(i) ==
    /\ Idle /\ Len(returned) < MaxReturned
    /\ LET c == clients[i]
           n == Len(heap)
       IN /\ heap' = heap \o <<heap[c.headers]>> \o (IF c.extra = Nil THEN <<>> ELSE <<heap[c.extra]>>)
          /\ returned' = Append(returned, [of |-> i,
                 config |-> [c EXCEPT !.headers = n + 1, !.extra = IF @ = Nil THEN Nil ELSE n + 2]])
    /\ UNCHANGED <<clients, boxes, sent>>

MapsOf(c) == {c.headers, c.extra} \ {Nil}

(* The caller writes into a map that it holds. *)
ChangeMap ==
    /\ Idle
    /\ \E a \in DOMAIN OwnMaps \cup UNION {MapsOf(returned[r].config) : r \in DOMAIN returned}, k \in NewKeys :
           heap' = [heap EXCEPT ![a] = Set(@, k, "new")]
    /\ UNCHANGED <<clients, returned, boxes, sent>>

(* newSandbox, with the version and the token that the control plane has answered. *)
NewSandbox(i, version, token) ==
    /\ Idle /\ Len(boxes) < MaxBoxes
    /\ LET c == clients[i]
       IN /\ heap' = IF Shared(c) THEN heap ELSE Append(heap, Merged(c))
          /\ boxes' = Append(boxes, [client |-> i, version |-> version, token |-> token,
                                     user |-> ResolveEnvdUser(i, version, ""),
                                     headers |-> IF Shared(c) THEN c.headers ELSE Len(heap) + 1])
    /\ UNCHANGED <<clients, returned, sent>>

-------------------------------------------------------------------------------
(* Requests                                                                *)

Send(r) == Idle /\ sent' = r /\ UNCHANGED <<heap, clients, returned, boxes>>

CallAPI(i) ==
    \E lower \in Orders :
        Send([kind |-> "api", client |-> i, headers |-> APIHeaders(clients[i], lower)])

CallEnvd(b) ==
    \E lower \in Orders :
        Send([kind |-> "envd", box |-> b, headers |-> EnvdHeaders(boxes[b], lower)])

(* The volume package takes the Config as the caller has filled it in: bootstrap looks at no *)
(* environment and makes no map.                                                            *)
CallVolumes(c) ==
    \E lower \in Orders :
        Send([kind |-> "volumes", config |-> c, headers |-> APIHeaders(c, lower)])

CallVolume(c, token) ==
    \E lower \in Orders :
        Send([kind |-> "volume", token |-> token, headers |-> VolumeHeaders(c, token, lower)])

(* A recursive Watch and CloseStdin are refused when envd is too old for them. *)
CallGated(b, gate) ==
    Send([kind |-> "gated", box |-> b, gate |-> gate,
          taken |-> GateOpen(boxes[b].client, boxes[b].version, gate)])

\* Mutant: the signature is made for the user that was asked for.
SignAsked(op, asked, user, expires) == [op |-> op, user |-> asked, expires |-> expires]

(* GetSignature, of the operation, the user and the expiration. *)
GetSignature(op, asked, user, expires) == [op |-> op, user |-> user, expires |-> expires]

Unsigned == [op |-> "none", user |-> "", expires |-> FALSE]

(* buildFileURL, for ReadStream and Write, and for DownloadURL and UploadURL. *)
UseFileURL(b, op, asked, expires) ==
    LET s    == boxes[b]
        user == ResolveEnvdUser(s.client, s.version, asked)
        signed == s.token # ""
    IN Send([kind |-> "file", box |-> b, op |-> op, asked |-> asked, username |-> user,
             signature |-> IF signed THEN GetSignature(op, asked, user, expires) ELSE Unsigned,
             expires |-> signed /\ expires,
             octet |-> GateOpen(s.client, s.version, OctetStream)])

(* The request is over. *)
Done == ~Idle /\ sent' = Nothing /\ UNCHANGED <<heap, clients, returned, boxes>>

Next ==
    \/ \E c \in CallerConfigs \cup {returned[r].config : r \in DOMAIN returned} :
           \/ \E env \in Environments : NewClient(c, env)
           \/ CallVolumes(c)
           \/ CallVolume(c, "jwt")
    \/ \E i \in DOMAIN clients :
           \/ GetConfig(i) \/ CallAPI(i)
           \/ \E v \in Versions, token \in {"", "token"} : NewSandbox(i, v, token)
    \/ ChangeMap \/ Done
    \/ \E b \in DOMAIN boxes :
           \/ CallEnvd(b)
           \/ \E gate \in {RecursiveWatch, EnvdClose} : CallGated(b, gate)
           \/ \E op \in {"read", "write"}, asked \in {"", "root"}, expires \in BOOLEAN :
                  UseFileURL(b, op, asked, expires)

Spec == Init /\ [][Next]_vars

-------------------------------------------------------------------------------
(* Properties                                                              *)

(* Every variable keeps to its values, and every map that something names is there. *)
TypeOK ==
    /\ \A a \in DOMAIN heap : HeaderMap(heap[a])
    /\ clients \in Seq(Configs)
    /\ returned \in Seq([of : Nat, config : Configs])
    /\ boxes \in Seq([client : Nat, version : Versions, token : {"", "token"}, user : {"", "user"},
                      headers : Nat])
    /\ \A i \in DOMAIN clients : clients[i].headers # Nil /\ MapsOf(clients[i]) \subseteq DOMAIN heap
    /\ \A r \in DOMAIN returned : /\ returned[r].of \in DOMAIN clients
                                  /\ MapsOf(returned[r].config) \subseteq DOMAIN heap
    /\ \A b \in DOMAIN boxes : boxes[b].client \in DOMAIN clients /\ boxes[b].headers \in DOMAIN heap

(* The maps that the requests of Client i and of its sandboxes, made or to be made, read. *)
Live(i) == MapsOf(clients[i]) \cup {boxes[b].headers : b \in {b \in DOMAIN boxes : boxes[b].client = i}}

(* A write into a Config that Client.Config has returned changes no header of that Client, *)
(* nor of a sandbox that it has made or will make.                                          *)
ReturnedConfigIsDetached ==
    [][\A r \in DOMAIN returned :
          (\E a \in MapsOf(returned[r].config) : heap'[a] # heap[a])
              => \A a \in Live(returned[r].of) : heap'[a] = heap[a]]_vars

(* The number of a segment of a version of numbers, 0 for one that it leaves out. *)
Number(v, i) == IF i \in DOMAIN v THEN v[i] ELSE 0

(* v is not before the gate in the order of semantic versions: the first number that differs decides. *)
AtLeast(v, gate) ==
    \/ Number(v, 1) > gate[1]
    \/ Number(v, 1) = gate[1] /\ Number(v, 2) > gate[2]
    \/ Number(v, 1) = gate[1] /\ Number(v, 2) = gate[2] /\ Number(v, 3) >= gate[3]

Knows(b, gate) == clients[boxes[b].client].debug \/ AtLeast(boxes[b].version, gate)

(* The order says which gates are open to an envd whose version is made of numbers, and to one *)
(* in debug mode.  Of a version that is not, versions.go and its comment say different things. *)
Comparable(b) == clients[boxes[b].client].debug \/ \A i \in DOMAIN boxes[b].version : boxes[b].version[i] # Bad

(* No header map replaces a credential of the SDK, whatever the caller's maps hold or how they *)
(* spell it, and however they have changed since: where the Config has a key or a token the    *)
(* control plane gets no other, a volume gets its own token, and envd gets the token of the    *)
(* sandbox and no Authorization but the name of a user.                                        *)
CredentialsAreTheSDKs ==
    /\ sent.kind \in {"api", "volumes"} =>
          LET c == IF sent.kind = "api" THEN clients[sent.client] ELSE sent.config
          IN /\ c.apiKey # "" => sent.headers["X-API-Key"] = c.apiKey
             /\ c.accessToken # "" => sent.headers["Authorization"] \in {"", "bearer"}
    /\ sent.kind = "volume" => sent.headers["Authorization"] = sent.token
    /\ sent.kind = "envd" =>
          /\ boxes[sent.box].token # "" => sent.headers["X-Access-Token"] = boxes[sent.box].token
          /\ sent.headers["Authorization"] \in {"", "basic"}

(* envd signs again what the URL says: the two agree, for the user the caller asked for, or the *)
(* one that the calls to this envd name.                                                        *)
FileURLsVerify ==
    sent.kind = "file" =>
        /\ sent.username = IF sent.asked # "" THEN sent.asked ELSE boxes[sent.box].user
        /\ boxes[sent.box].token # "" =>
               sent.signature = [op |-> sent.op, user |-> sent.username, expires |-> sent.expires]

(* A request is refused, an upload is multipart and a call names the default user for the       *)
(* versions of envd that need it and for no other (versions.go:11-31): of versions with more or *)
(* fewer numbers than the gate, and numbers of more than one digit.                             *)
GatesFollowVersion ==
    /\ sent.kind = "gated" /\ Comparable(sent.box) => (sent.taken <=> Knows(sent.box, sent.gate))
    /\ sent.kind = "file" /\ Comparable(sent.box) => (sent.octet <=> Knows(sent.box, OctetStream))
    /\ sent.kind = "envd" /\ Comparable(sent.box) =>
          ((sent.headers["Authorization"] = "") <=> Knows(sent.box, InfersDefaultUser))
================================================================================
