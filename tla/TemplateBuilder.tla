---------------------------- MODULE TemplateBuilder ----------------------------
(***************************************************************************)
(* The fluent Builder of templates (template/template.go), the parser that *)
(* applies a Dockerfile to it (template/dockerfile_parser.go), and what is *)
(* made of it: the request body of a build, or a Dockerfile.               *)
(*                                                                         *)
(* A text is a sequence of words without "=", all on one line; the command *)
(* lines that calls such as Remove or PipInstall format are one word.  The *)
(* fields of the Builder that none of this reads (envs, workdir, tag) are  *)
(* left out, and the build context, which BuildStart has.                  *)
(***************************************************************************)
EXTENDS Naturals, Sequences, FiniteSets

CONSTANTS CallerWords, \* the words of the caller's texts
          LongWords,   \* those of 64 KB and more, too long for the line scanner
          Unquoted,    \* Unquoted[w]: what strings.Trim leaves of w as %q quotes and escapes it
          Images,      \* images given to FromImage
          Texts,       \* commands, paths, values
          Sources,     \* the src of a Copy
          ItemLists,   \* the srcs of a CopyItems, in order
          Users,       \* user arguments, none included
          Modes,       \* mode arguments, none included
          EnvMaps,     \* maps given to SetEnvs, as sets of pairs
          Dockerfiles, \* sequences of lines
          MaxCalls     \* bound: calls on the Builder

(* A text is its words, those of the caller or those that the calls below stand for with *)
(* one word.  None is empty.                                                             *)
OwnWords == {"e2bdev/base", "root", "file", "clone", "install", "d", "80", "serve", "pull", "prebuild", "up"}
Words    == CallerWords \cup OwnWords
AnyText  == Seq(Words)
NoText   == <<>>

Empty == ""     \* no key, or no value
Pairs == (Words \cup {Empty}) \X AnyText

(* The types of instructions. *)
Types == {"RUN", "COPY", "WORKDIR", "ENV", "USER", "EXPOSE", "ENTRYPOINT"}

(* A line of a Dockerfile is its instruction, "LABEL" for any that the parser does not know, and *)
(* the words after it.  The words of an ENV are tokens, with no key where there is no "=".       *)
Tokens == [key : Words \cup {Empty}, value : Words \cup {Empty}]
Lines  == [head : Types \cup {"FROM", "LABEL"}, words : AnyText, tokens : Seq(Tokens)]

ASSUME BuilderOK == /\ MaxCalls \in Nat
                    /\ Empty \notin CallerWords /\ LongWords \subseteq CallerWords
                    /\ Unquoted \in [Words -> Words]
                    /\ Images \cup Texts \cup Sources \cup Users \cup Modes \subseteq AnyText
                    /\ ItemLists \subseteq Seq(AnyText)
                    /\ EnvMaps \subseteq SUBSET Pairs
                    /\ Dockerfiles \subseteq Seq(Lines)

VARIABLES
    b,      \* the Builder
    calls,  \* calls made
    asked,  \* instructions that these calls asked for
    unread, \* those of them on lines of a Dockerfile that the scanner did not come to
    marks   \* the places that SkipCache was called for: n before the n-th instruction

bvars == <<b, calls, asked, unread, marks>>

-------------------------------------------------------------------------------
(* The Builder, and how a call changes it                                  *)

Templates    == {"mcp-gateway", "devcontainer"}
NoTemplate   == "none"
DefaultImage == <<"e2bdev/base">>
NoErr        == "nil"
Errors       == {"copy", "mcp", "prebuild", "start", "file"}

New == [image |-> DefaultImage, template |-> NoTemplate, registry |-> FALSE,
        start |-> NoText, ready |-> NoText, instructions |-> <<>>, forceNext |-> FALSE, err |-> NoErr]

(* The force flag goes to the instruction added, and is reset (consumeForce).  The *)
(* pairs of an ENV come in the order of a Go map, which is no order: they are a set. *)
Instruction(x, type, args, env) == [type |-> type, args |-> args, env |-> env, force |-> x.forceNext]

AddTo(x, type, args, env) ==
    [x EXCEPT !.instructions = Append(@, Instruction(x, type, args, env)), !.forceNext = FALSE]

Add(x, type, args) == AddTo(x, type, args, {})

\* Mutant: an error is not recorded.
FailSilently(x, e) == x

(* The first error stays. *)
Fail(x, e) == IF x.err = NoErr THEN [x EXCEPT !.err = e] ELSE x

RunAs(x, cmd, user) == Add(x, "RUN", IF user = NoText THEN <<cmd>> ELSE <<cmd, user>>)

(* validateRelativePath *)
Rejected(src) == src # NoText /\ Head(src) \in {"/abs", "../up"}

\* Mutant: the force flag is consumed before the path is looked at.
CopyConsumesFirst(x, src, dst, user, mode) ==
    IF Rejected(src) THEN Fail([x EXCEPT !.forceNext = FALSE], "copy")
                     ELSE Add(x, "COPY", <<src, dst, user, mode>>)

CopyTo(x, src, dst, user, mode) ==
    IF Rejected(src) THEN Fail(x, "copy")
                     ELSE Add(x, "COPY", <<src, dst, user, mode>>)

(* What the first n items make of x, for each n. *)
Copying(x, srcs) ==
    LET after[n \in 0..Len(srcs)] ==
            IF n = 0 THEN x ELSE CopyTo(after[n - 1], srcs[n], <<"d">>, NoText, NoText)
    IN  after

SetEnvsOf(x, pairs) == IF pairs = {} THEN x ELSE AddTo(x, "ENV", <<>>, pairs)

-------------------------------------------------------------------------------
(* The parser of Dockerfiles, and what writes them                         *)

Line(head, words)  == [head |-> head, words |-> words, tokens |-> <<>>]
EnvLine(tokens)    == [head |-> "ENV", words |-> NoText, tokens |-> tokens]
Token(key, value)  == [key |-> key, value |-> value]

(* parseEnvLine: tokens without a key are skipped, the last value of a key stays. *)
ParseEnvLine(tokens) ==
    {<<tokens[n].key, IF tokens[n].value = Empty THEN NoText ELSE <<tokens[n].value>>>> :
        n \in {n \in DOMAIN tokens : /\ tokens[n].key # Empty
                                     /\ \A m \in n + 1..Len(tokens) : tokens[m].key # tokens[n].key}}

(* parseDockerfile, one line of it.  FROM leaves the base template and the registry alone. *)
FromLine(x, line) ==
    CASE line.head = "FROM"    -> [x EXCEPT !.image = line.words]
      [] line.head = "RUN"     -> RunAs(x, line.words, NoText)
      [] line.head = "COPY" /\ Len(line.words) >= 2
                               -> CopyTo(x, <<line.words[1]>>, <<line.words[2]>>, NoText, NoText)
      [] line.head = "WORKDIR" -> Add(x, "WORKDIR", <<line.words>>)
      [] line.head = "USER"    -> Add(x, "USER", <<line.words>>)
      [] line.head = "ENV"     -> SetEnvsOf(x, ParseEnvLine(line.tokens))
      [] OTHER                 -> x

(* The lines that scanner.Scan gives: it ends at one too long, and nobody looks at scanner.Err(). *)
Overlong(line) == \/ \E n \in DOMAIN line.words : line.words[n] \in LongWords
                  \/ \E n \in DOMAIN line.tokens : {line.tokens[n].key, line.tokens[n].value} \cap LongWords # {}

Scanned(lines) ==
    SubSeq(lines, 1, Cardinality({n \in DOMAIN lines : \A m \in 1..n : ~Overlong(lines[m])}))

(* What the first n lines make of x, for each n. *)
Parsing(x, lines) ==
    LET after[n \in 0..Len(lines)] == IF n = 0 THEN x ELSE FromLine(after[n - 1], lines[n])
    IN  after

ParseDockerfile(x, lines) == Parsing(x, Scanned(lines))[Len(Scanned(lines))]

(* The lines the parser takes for an instruction; it ignores the others, as documented. *)
Asks(line) == \/ line.head \in {"RUN", "WORKDIR", "USER"}
              \/ line.head = "COPY" /\ Len(line.words) >= 2
              \/ line.head = "ENV" /\ ParseEnvLine(line.tokens) # {}

Asking(lines, from) == Cardinality({n \in DOMAIN lines : n >= from /\ Asks(lines[n])})

(* ENV KEY="w1 w2 ...", the value quoted and escaped by %q.  The parser splits it at spaces, finds *)
(* a key beside the first word only, and trims quotation marks: it undoes no escape.               *)
EnvTokens(pair) ==
    IF pair[2] = NoText THEN <<Token(pair[1], Empty)>>
    ELSE [n \in DOMAIN pair[2] |-> Token(IF n = 1 THEN pair[1] ELSE Empty, Unquoted[pair[2][n]])]

\* Mutant: the arguments of COPY are written the other way round.
LineOfSwapped(i) ==
    CASE i.type = "ENV"  -> EnvLine(EnvTokens(CHOOSE pair \in i.env : TRUE))
      [] i.type = "COPY" -> Line("COPY", i.args[2] \o i.args[1])
      [] OTHER           -> Line(i.type, i.args[1])

(* ToDockerfile, the line of an instruction.  Of an ENV it writes one pair, whichever *)
(* comes first in the map; of a RUN no user, of a COPY no user and no mode.           *)
LineOf(i) ==
    CASE i.type = "ENV"  -> EnvLine(EnvTokens(CHOOSE pair \in i.env : TRUE))
      [] i.type = "COPY" -> Line("COPY", i.args[1] \o i.args[2])
      [] OTHER           -> Line(i.type, i.args[1])

(* A USER has no line. *)
LinesOf(x) ==
    LET kept == {n \in DOMAIN x.instructions : x.instructions[n].type # "USER"}
    IN  [k \in 1..Cardinality(kept) |->
            LineOf(x.instructions[CHOOSE n \in kept : Cardinality(kept \cap 1..n) = k])]

(* A builder based on a template has no Dockerfile. *)
Writable(x) == x.template = NoTemplate

ToDockerfile(x) ==
    (IF x.image # NoText THEN <<Line("FROM", x.image)>> ELSE <<>>) \o LinesOf(x)

(* serialize: the body of the build request, of a builder without an error.  BuildStart *)
(* has the hashes of its COPY steps.                                                    *)
Buildable(x) == x.err = NoErr

Body(x) == [fromImage |-> x.image, fromTemplate |-> x.template, registry |-> x.registry,
            start |-> x.start, ready |-> x.ready, steps |-> x.instructions]

-------------------------------------------------------------------------------
BInit == b = New /\ calls = 0 /\ asked = 0 /\ unread = 0 /\ marks = {}

(* A call that asks for n instructions and makes x of the Builder. *)
Call(x, n) == /\ calls < MaxCalls
              /\ calls' = calls + 1
              /\ b' = x
              /\ asked' = asked + n

Make(x, n) == Call(x, n) /\ UNCHANGED <<unread, marks>>

(* FromImage with or without credentials, FromAWSRegistry, FromGCPRegistry, and the images of languages. *)
FromImage(image, creds) ==
    Make([b EXCEPT !.image = image, !.template = NoTemplate, !.registry = creds], 0)

(* The registry of an earlier FromImage stays. *)
FromTemplate(template) == Make([b EXCEPT !.template = template, !.image = NoText], 0)

RunCmd(cmd, user) == Make(RunAs(b, cmd, user), 1)

(* Remove, Rename, MakeDir, MakeSymlink *)
FileCommand(user) == Make(RunAs(b, <<"file">>, user), 1)

GitClone(user) == Make(RunAs(b, <<"clone">>, user), 1)

(* PipInstall, NpmInstall, BunInstall, AptInstall: as root when they install for the system. *)
PackageInstall(system) == Make(RunAs(b, <<"install">>, IF system THEN <<"root">> ELSE NoText), 1)

Copy(src, dst, user, mode) == Make(CopyTo(b, src, dst, user, mode), 1)

(* CopyItems goes on after an item it rejects. *)
CopyItems(items) == Make(Copying(b, items)[Len(items)], Len(items))

SetWorkdir(path) == Make(Add(b, "WORKDIR", <<path>>), 1)
SetUser(user)    == Make(Add(b, "USER", <<user>>), 1)
SetEnvs(pairs)   == Make(SetEnvsOf(b, pairs), IF pairs = {} THEN 0 ELSE 1)
Expose           == Make(Add(b, "EXPOSE", <<<<"80">>>>), 1)
Entrypoint       == Make(Add(b, "ENTRYPOINT", <<<<"serve">>>>), 1)

SkipCache == /\ Call([b EXCEPT !.forceNext = TRUE], 0)
             /\ marks' = marks \cup {Len(b.instructions) + 1}
             /\ UNCHANGED unread

SetStartCmd(cmd, ready) == Make([b EXCEPT !.start = cmd, !.ready = ready], 0)
SetReadyCmd(ready)      == Make([b EXCEPT !.ready = ready], 0)

(* The calls for one base template fail on any other. *)
AddMCPServer == Make(IF b.template = "mcp-gateway" THEN RunAs(b, <<"pull">>, <<"root">>) ELSE Fail(b, "mcp"), 1)

BetaDevContainerPrebuild ==
    Make(IF b.template = "devcontainer" THEN RunAs(b, <<"prebuild">>, <<"root">>) ELSE Fail(b, "prebuild"), 1)

BetaSetDevContainerStart ==
    Make(IF b.template = "devcontainer" THEN [b EXCEPT !.start = <<"up">>, !.ready = <<"up">>]
                                        ELSE Fail(b, "start"), 0)

FromDockerfileContent(lines) ==
    LET read == Asking(Scanned(lines), 1)
        left == Asking(lines, Len(Scanned(lines)) + 1)
    IN  /\ Call(ParseDockerfile(b, lines), read + left)
        /\ unread' = unread + left
        /\ UNCHANGED marks

(* FromDockerfileFile of a file that cannot be read; of any other it is FromDockerfileContent. *)
FromDockerfileFile == Make(Fail(b, "file"), 0)

BNext == \/ \E image \in Images, creds \in BOOLEAN : FromImage(image, creds)
         \/ \E template \in Templates : FromTemplate(template)
         \/ \E cmd \in Texts, user \in Users : RunCmd(cmd, user)
         \/ \E user \in Users : FileCommand(user) \/ GitClone(user)
         \/ \E system \in BOOLEAN : PackageInstall(system)
         \/ \E src \in Sources, dst \in Texts, user \in Users, mode \in Modes : Copy(src, dst, user, mode)
         \/ \E items \in ItemLists : CopyItems(items)
         \/ \E path \in Texts : SetWorkdir(path)
         \/ \E user \in Users : SetUser(user)
         \/ \E pairs \in EnvMaps : SetEnvs(pairs)
         \/ Expose \/ Entrypoint \/ SkipCache
         \/ \E cmd, ready \in Texts : SetStartCmd(cmd, ready)
         \/ \E ready \in Texts : SetReadyCmd(ready)
         \/ AddMCPServer \/ BetaDevContainerPrebuild \/ BetaSetDevContainerStart
         \/ \E lines \in Dockerfiles : FromDockerfileContent(lines)
         \/ FromDockerfileFile

BSpec == BInit /\ [][BNext]_bvars

-------------------------------------------------------------------------------
(* Properties *)

Instructions == [type : Types, args : Seq(AnyText), env : SUBSET Pairs, force : BOOLEAN]
Builders == [image : AnyText, template : Templates \cup {NoTemplate}, registry : BOOLEAN,
             start : AnyText, ready : AnyText, instructions : Seq(Instructions),
             forceNext : BOOLEAN, err : Errors \cup {NoErr}]

(* The slots of an instruction, which serialize and ToDockerfile read by their number. *)
Shaped(i) ==
    /\ (i.type = "ENV") = (i.env # {})
    /\ Len(i.args) \in CASE i.type = "COPY" -> {4} [] i.type = "RUN" -> {1, 2}
                         [] i.type = "ENV"  -> {0} [] OTHER          -> {1}

(* The Builder keeps to its types, and the arguments of an instruction to their slots. *)
BTypeOK ==
    /\ b \in Builders /\ \A n \in DOMAIN b.instructions : Shaped(b.instructions[n])
    /\ calls \in 0..MaxCalls /\ asked \in Nat /\ unread \in Nat /\ marks \subseteq Nat

(* "SkipCache marks the next instruction as force-rebuilt", that one and no other, however *)
(* many calls that add nothing, or fail, come between the two.                             *)
ForcedAreNext == \A n \in DOMAIN b.instructions : b.instructions[n].force <=> n \in marks

(* A builder that can be built has a step for every instruction its calls asked for, an      *)
(* ENTRYPOINT among them: one that it rejected is an error of the build, never a build       *)
(* without it.  Only the lines of a Dockerfile from one too long for the scanner on are      *)
(* missing, without an error.                                                                *)
NothingDropped == Buildable(b) => Len(Body(b).steps) + unread = asked

(* The instructions that a Dockerfile, and the parser's idea of one, can say. *)
Expressible(i) ==
    \/ i.type = "RUN" /\ Len(i.args) = 1
    \/ i.type = "COPY" /\ Len(i.args[1]) = 1 /\ Len(i.args[2]) = 1 /\ i.args[3] = NoText /\ i.args[4] = NoText
    \/ i.type = "WORKDIR"
    \/ i.type = "ENV" /\ \E pair \in i.env : /\ i.env = {pair} /\ pair[1] # Empty /\ Len(pair[2]) <= 1
                                             /\ \A n \in DOMAIN pair[2] : Unquoted[pair[2][n]] = pair[2][n]

(* The instructions as a Builder adds them that nobody calls SkipCache of. *)
Unforced(x) == [n \in DOMAIN x.instructions |->
                   LET i == x.instructions[n] IN Instruction(New, i.type, i.args, i.env)]

(* A builder of such instructions comes back from the Dockerfile it writes, but for SkipCache, *)
(* if no line of it is too long to be read.                                                    *)
RoundTrip ==
    /\ Writable(b) /\ b.image # NoText
    /\ \A n \in DOMAIN ToDockerfile(b) : ~Overlong(ToDockerfile(b)[n])
    /\ \A n \in DOMAIN b.instructions : Expressible(b.instructions[n])
    => LET back == ParseDockerfile(New, ToDockerfile(b))
       IN  back.image = b.image /\ back.err = NoErr /\ back.instructions = Unforced(b)
===============================================================================
