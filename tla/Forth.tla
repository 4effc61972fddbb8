------------------------------- MODULE Forth -------------------------------
(***************************************************************************)
(* Runtime system 1 (forth/rs1.ts, forth/rs1words.ts) as the procedural    *)
(* shapes use it (ForthProceduralShape.ts): the tokens of a source are     *)
(* compiled as they are read, words that are not defined yet by placehold- *)
(* ers that the definition replaces; then the program runs.  Addresses are *)
(* those of the code, from 0; places in a sequence are one higher.         *)
(***************************************************************************)
EXTENDS Tokenizer, SequencesExt, FiniteSets

CONSTANTS
  Limits,     \* bounds: what sources begin with, the characters that follow,
              \* how many, and the fuel that the program gets
  Names,      \* what is defined is named so
  Numbers,    \* function from the words that are numbers
  Undefined, NaN, Text, Variable   \* values that are no integers

VARIABLES
  limits,
  text,         \* the characters read
  tokens,       \* and the tokens
  tokenizer,
  compilation,  \* CompilationContext
  phase,        \* "compiling", "running", "done" or "failed"
  run           \* RuntimeContext

vars == <<limits, text, tokens, tokenizer, compilation, phase, run>>

-----------------------------------------------------------------------------
(* Words: <<operation>> or <<operation, argument>> *)

Arithmetic == {"+", "-", "*"}
Comparison == {"<", "<=", "=", ">=", ">"}
Binary == Arithmetic \cup Comparison
RuntimeWords ==
  Binary \cup {"dup", "drop", "swap", "pick", "jump", "jump-if-nonzero", "jump-if-zero", "exit",
               "call", ">r", "r>", "!", "@", "scale", "save-context", "restore-context"}
DefiningWords == {":", "code-label:", "alias:", "context-variable:"}
CompilationWords == DefiningWords \cup {";"}

JumpName(name) == "jump:" \o name
LocationName(name) == "$" \o name
Variants(name) == {name, JumpName(name), LocationName(name)}
Resume == "(resume main)"

(* All that a source can have *)
Characters ==
  {"?"} \cup {Unescaped[c] : c \in DOMAIN Unescaped}
  \cup UNION {l.alphabet \cup ToSet(l.prefix) : l \in Limits}

ASSUME NumbersAssumption == \A n \in DOMAIN Numbers : Numbers[n] \in Int
ASSUME LimitsAssumption ==
  \A l \in Limits : l.fuel \in Nat /\ l.prefix \in Seq(ToSet(l.prefix))

(* Where main goes on has a name of its own, with a space in it: words are *)
(* none of its variants.                                                   *)
OtherName(name) == name # Resume /\ JumpName(Resume) \notin Variants(name)
ASSUME ResumeAssumption ==
  /\ JumpName(Resume) \notin {Resume, LocationName(Resume)}
  /\ \A c \in Characters : OtherName(c)

(* getWord: <<>> if there is none *)
GetWord(c, name) ==
  IF name \in DOMAIN c.dictionary THEN c.dictionary[name]
  ELSE IF name \in RuntimeWords \cup CompilationWords THEN <<name>>
  ELSE IF name \in DOMAIN Numbers THEN <<"push", Numbers[name]>>
  ELSE <<>>

NewCompilation ==
  [program |-> <<>>,
   mains |-> <<>>,         \* history: what was compiled while compilingMain
   dictionary |-> <<>>, fixups |-> <<>>,
   onToken |-> <<>>,       \* a defining word that waits for a name; two for alias:
   compilingMain |-> TRUE, failed |-> FALSE]

Failed(c) == [c EXCEPT !.failed = TRUE]
Push(c, word) ==
  [c EXCEPT !.program = Append(@, word), !.mains = Append(@, c.compilingMain)]

(* object[name] = x *)
Assigned(object, name, x) ==
  [n \in DOMAIN object \cup {name} |-> IF n = name THEN x ELSE object[n]]
Entered(c, name, word) == [c EXCEPT !.dictionary = Assigned(@, name, word)]

FixupsOf(c, name) == IF name \in DOMAIN c.fixups THEN c.fixups[name] ELSE {}

(* Mutant of Awaiting: a name has one fixup, that of its last use. *)
AwaitingLast(c, name, place) == {place}

(* Places where the program has a placeholder for a name, and another *)
Awaiting(c, name, place) == FixupsOf(c, name) \cup {place}

(* pushFixupPlaceholder *)
PushPlaceholder(c, name) ==
  [Push(c, <<"placeholder", name>>) EXCEPT
     !.fixups = Assigned(@, name, Awaiting(c, name, Len(c.program) + 1))]

(* Mutant of Resolved: fixups stay when they are resolved. *)
ResolvedAgain(c, name) == c.fixups

Resolved(c, name) == [n \in DOMAIN c.fixups \ {name} |-> c.fixups[n]]

(* defineWordAndResolveFixup *)
Defined(c, name, word) ==
  [Entered(c, name, word) EXCEPT
     !.program = [i \in DOMAIN @ |-> IF i \in FixupsOf(c, name) THEN word ELSE @[i]],
     !.fixups = Resolved(c, name)]

(* defineLocation *)
DefineLocation(c, name, location) ==
  Defined(Defined(Defined(c, name, <<"call to", location, name>>),
                  JumpName(name), <<"jump to", location, name>>),
          LocationName(name), <<"push", location>>)

-----------------------------------------------------------------------------
(* What a token does *)

(* : *)
Define(c, name) ==
  LET jumped == IF c.compilingMain THEN PushPlaceholder(c, JumpName(Resume)) ELSE c
  IN  [DefineLocation(jumped, name, Len(jumped.program)) EXCEPT !.compilingMain = FALSE]

(* Mutant of EndDefinition: main goes on where the exit is. *)
EndDefinitionEarly(c) ==
  Push([DefineLocation(c, Resume, Len(c.program)) EXCEPT !.compilingMain = TRUE], <<"exit">>)

(* ; *)
EndDefinition(c) ==
  LET ended == Push(c, <<"exit">>)
  IN  [DefineLocation(ended, Resume, Len(ended.program)) EXCEPT !.compilingMain = TRUE]

(* defineFixupPlaceholderGeneratorWords *)
Declare(c, name) ==
  LET Await(d, n) == Entered(d, n, <<"await", n>>)
  IN  Await(Await(Await(c, name), JumpName(name)), LocationName(name))

(* declareContextVariable.  Any name with a $ would do: sources here have   *)
(* $v, and so context values are the one that v has.                       *)
DeclareVariable(c, name) == Entered(Entered(c, name, <<"value">>), LocationName(name), <<"variable">>)

(* The word that waits for a name gets it. *)
GotName(c, name) ==
  LET here == [c EXCEPT !.onToken = <<>>]
      word == GetWord(c, name)
  IN  CASE c.onToken = <<":">>          -> Define(here, name)
        [] c.onToken = <<"code-label:">> -> Declare(here, name)
        [] c.onToken = <<"context-variable:">> ->
             IF name = "$v" THEN DeclareVariable(here, "v") ELSE Failed(c)
        [] c.onToken = <<"alias:">>     -> [c EXCEPT !.onToken = Append(@, name)]
        [] OTHER -> IF word = <<>> THEN Failed(c) ELSE Entered(here, c.onToken[2], word)

CompileWord(c, word) ==
  CASE word = <<>> -> Failed(c)
    [] word # <<>> /\ word[1] \in DefiningWords -> [c EXCEPT !.onToken = word]
    [] word = <<";">>    -> IF c.compilingMain THEN Failed(c) ELSE EndDefinition(c)
    [] word # <<>> /\ word[1] = "await" -> PushPlaceholder(c, word[2])
    [] OTHER -> Push(c, word)

(* A word of more characters than one is none that is defined. *)
Name(token) == IF Len(token.text) = 1 THEN token.text[1] ELSE "?"

(* compileToken: while a name is awaited, only alias: takes comments. *)
CompileToken(c, token) ==
  IF c.failed THEN c
  ELSE IF c.onToken # <<>>
  THEN CASE token.type \in {"bareword", "single"} -> GotName(c, Name(token))
         [] token.type = "comment" -> IF c.onToken[1] = "alias:" THEN c ELSE Failed(c)
         [] OTHER -> Failed(c)
  ELSE CASE token.type \in {"end", "comment"} -> c
         [] token.type = "double" -> Push(c, <<"text">>)
         [] OTHER -> CompileWord(c, GetWord(c, Name(token)))

-----------------------------------------------------------------------------
(* What words do when they run *)

IsNumber(x) == x \notin {Undefined, NaN, Text, Variable}

Pop(stack) == SubSeq(stack, 1, Len(stack) - 1)
Top(stack) == IF stack = <<>> THEN Undefined ELSE stack[Len(stack)]

Truth(p) == IF p THEN -1 ELSE 0
(* Sources here calculate with nothing but integers, and what is missing. *)
Calculated(op, a, b) ==
  IF ~ (IsNumber(a) /\ IsNumber(b)) THEN NaN
  ELSE CASE op = "+" -> a + b [] op = "-" -> a - b [] op = "*" -> a * b
Compared(op, a, b) ==
  IF op = "=" THEN Truth(a = b /\ a # NaN)
  ELSE Truth(/\ IsNumber(a) /\ IsNumber(b)
             /\ CASE op = "<" -> a < b [] op = "<=" -> a <= b [] op = ">" -> a > b [] op = ">=" -> a >= b)
Result(op, a, b) == IF op \in Arithmetic THEN Calculated(op, a, b) ELSE Compared(op, a, b)

(* Context values and transform are objects, that what is saved refers to: *)
(* what is frozen is copied when it changes.                               *)
NewRun(fuel) ==
  [ip |-> 0, dataStack |-> <<>>, returnStack |-> <<>>, fuel |-> fuel, failed |-> FALSE,
   objects |-> <<[frozen |-> TRUE, is |-> Undefined], [frozen |-> FALSE, is |-> 1]>>,
   values |-> 1, transform |-> 2, contextStack |-> <<>>]

Is(r, field) == r.objects[r[field]].is
Change(r, field, is) ==
  IF r.objects[r[field]].frozen
  THEN [r EXCEPT !.objects = Append(@, [frozen |-> FALSE, is |-> is]),
                 ![field] = Len(r.objects) + 1]
  ELSE [r EXCEPT !.objects[r[field]].is = is]

(* Mutant of Frozen: contexts are not frozen. *)
Unfrozen(r) == r.objects

Frozen(r) ==
  [i \in DOMAIN r.objects |->
     IF i \in {r.values, r.transform} THEN [r.objects[i] EXCEPT !.frozen = TRUE] ELSE r.objects[i]]

SaveContext(r) ==
  [r EXCEPT !.contextStack = Append(@, [values |-> r.values, transform |-> r.transform]),
            !.objects = Frozen(r)]
RestoreContext(r) ==
  IF r.contextStack = <<>> THEN r
  ELSE [r EXCEPT !.values = Top(r.contextStack).values, !.transform = Top(r.contextStack).transform,
                 !.contextStack = Pop(@)]

(* Words on the data stack s *)
OnStack(word, s) ==
  CASE word[1] = "push"  -> Append(s, word[2])
    [] word[1] = "text"  -> Append(s, Text)
    [] word[1] = "variable" -> Append(s, Variable)
    [] word[1] \in Binary -> Append(Pop(Pop(s)), Result(word[1], Top(Pop(s)), Top(s)))
    [] word[1] = "dup"   -> Append(Append(Pop(s), Top(s)), Top(s))
    [] word[1] = "drop"  -> Pop(s)
    [] word[1] = "swap"  -> Append(Append(Pop(Pop(s)), Top(s)), Top(Pop(s)))
    [] word[1] = "pick"  ->
         LET rest == Pop(s)
             i == Len(rest) - Top(s)
         IN  Append(rest, IF IsNumber(Top(s)) /\ i \in DOMAIN rest THEN rest[i] ELSE Undefined)

StackWords == Binary \cup {"push", "text", "variable", "dup", "drop", "swap", "pick"}

(* A value that jumps that depend on it take for zero *)
IsZero(x) == x \in {0, Undefined}

(* What a word does to r, whose ip is that of the next word *)
OnContext(word, r) ==
  LET s == r.dataStack
      popped  == [r EXCEPT !.dataStack = Pop(s)]
      popped2 == [r EXCEPT !.dataStack = Pop(Pop(s))]
  IN  CASE word[1] = "call to" -> [r EXCEPT !.returnStack = Append(@, r.ip), !.ip = word[2]]
        [] word[1] = "jump to" -> [r EXCEPT !.ip = word[2]]
        [] word[1] = "exit"    ->
             [r EXCEPT !.ip = IF Top(r.returnStack) = Undefined THEN -1 ELSE Top(r.returnStack),
                       !.returnStack = Pop(@)]
        [] word[1] = "jump"    -> [popped EXCEPT !.ip = Top(s)]
        [] word[1] = "call"    -> [popped EXCEPT !.ip = Top(s), !.returnStack = Append(@, r.ip)]
        [] word[1] = "jump-if-zero"    ->
             [popped2 EXCEPT !.ip = IF IsZero(Top(Pop(s))) THEN Top(s) ELSE @]
        [] word[1] = "jump-if-nonzero" ->
             [popped2 EXCEPT !.ip = IF IsZero(Top(Pop(s))) THEN @ ELSE Top(s)]
        [] word[1] = ">r" -> [popped EXCEPT !.returnStack = Append(@, Top(s))]
        [] word[1] = "r>" -> [r EXCEPT !.dataStack = Append(s, Top(r.returnStack)), !.returnStack = Pop(@)]
        [] word[1] = "value" -> [r EXCEPT !.dataStack = Append(s, Is(r, "values"))]
        [] word[1] = "@" -> IF Top(s) = Variable
                            THEN [popped EXCEPT !.dataStack = Append(@, Is(r, "values"))]
                            ELSE [r EXCEPT !.failed = TRUE]
        [] word[1] = "!" -> IF Top(s) = Variable THEN Change(popped2, "values", Top(Pop(s)))
                            ELSE [r EXCEPT !.failed = TRUE]
        [] word[1] = "scale" -> Change(popped, "transform", Result("*", Is(r, "transform"), Top(s)))
        [] word[1] = "save-context"    -> SaveContext(r)
        [] word[1] = "restore-context" -> RestoreContext(r)
        [] word[1] = "placeholder"     -> [r EXCEPT !.failed = TRUE]

(* Mutant of Cost: what only moves along is free. *)
CostOfWork(word) == IF word[1] \in {"push", "jump", "jump to"} THEN 0 ELSE 1

(* Fuel: words of shapes and jump:... take none, and placeholders fail. *)
FreeWords == {"jump to", "scale", "save-context", "restore-context"}
Cost(word) == IF word[1] \in FreeWords \cup {"placeholder"} THEN 0 ELSE 1

Ran(r, word) ==
  LET next == [r EXCEPT !.ip = @ + 1, !.fuel = @ - Cost(word)]
  IN  IF word[1] \in StackWords THEN [next EXCEPT !.dataStack = OnStack(word, @)]
      ELSE OnContext(word, next)

-----------------------------------------------------------------------------
Init ==
  /\ limits \in Limits
  /\ text = <<>> /\ tokens = <<>> /\ tokenizer = NewTokenizer
  /\ compilation = NewCompilation
  /\ phase = "compiling" /\ run = NewRun(limits.fuel)

(* The listener of the tokenizer compiles the tokens: a character gives    *)
(* one at most, the end of the source two.                                 *)
CompileTokens(c, given) ==
  LET first == IF Len(given) >= 1 THEN CompileToken(c, given[1]) ELSE c
  IN  IF Len(given) >= 2 THEN CompileToken(first, given[2]) ELSE first

Listen(read) ==
  /\ tokenizer' = read.tokenizer
  /\ tokens' = tokens \o read.tokens
  /\ compilation' = LET c == CompileTokens(compilation, read.tokens)
                    IN  IF read.throws THEN Failed(c) ELSE c

Words == DOMAIN Numbers \cup RuntimeWords \cup CompilationWords
         \cup UNION {Variants(n) : n \in Names \cup {"v"}}

(* Outside of quotes and comments words stand alone, with one space or new *)
(* line between them, and what gets defined is in Names.                   *)
Within(c) ==
  tokenizer.type = "bareword" =>
    /\ c \in Words => tokenizer.buffer = <<>>
    /\ c \in Words /\ compilation.onToken # <<>> => c \in Names \cup {"$v"}
    /\ c \in White /\ text # <<>> => text[Len(text)] \notin White

Char(c) ==
  /\ phase = "compiling" /\ Within(c)
  /\ text' = Append(text, c)
  /\ Listen(Read(tokenizer, c))
  /\ phase' = IF compilation'.failed THEN "failed" ELSE "compiling"
  /\ UNCHANGED <<limits, run>>

(* What a source begins with, then any character of the alphabet *)
ReadSource ==
  LET i == Len(text) + 1
  IN  \/ /\ i <= Len(limits.prefix)
         /\ Char(limits.prefix[i])
      \/ /\ i > Len(limits.prefix) /\ i <= Len(limits.prefix) + limits.length
         /\ \E c \in limits.alphabet : Char(c)

EndSource ==
  /\ phase = "compiling" /\ Len(text) >= Len(limits.prefix)
  /\ Listen(End(tokenizer))
  /\ phase' = IF compilation'.failed THEN "failed" ELSE "running"
  /\ UNCHANGED <<limits, text, run>>

IsRunning ==
  /\ run.fuel > 0
  /\ IsNumber(run.ip) /\ run.ip >= 0 /\ run.ip < Len(compilation.program)

Word == compilation.program[run.ip + 1]

(* runContext *)
RunWord ==
  /\ phase = "running" /\ IsRunning
  /\ run' = Ran(run, Word)
  /\ phase' = IF run'.failed THEN "failed" ELSE "running"
  /\ UNCHANGED <<limits, text, tokens, tokenizer, compilation>>

EndRun ==
  /\ phase = "running" /\ ~ IsRunning
  /\ phase' = "done"
  /\ UNCHANGED <<limits, text, tokens, tokenizer, compilation, run>>

Next == ReadSource \/ EndSource \/ RunWord \/ EndRun

(* A loop runs the words. *)
Spec == Init /\ [][Next]_vars /\ WF_vars(RunWord) /\ WF_vars(EndRun)

-----------------------------------------------------------------------------
TypeOK ==
  /\ phase \in {"compiling", "running", "done", "failed"}
  /\ Len(compilation.mains) = Len(compilation.program)
  /\ \A n \in DOMAIN compilation.fixups : compilation.fixups[n] \subseteq DOMAIN compilation.program
  /\ run.fuel \in 0 .. limits.fuel
  /\ {run.values, run.transform} \subseteq DOMAIN run.objects

(* A word that is used before its definition is neither forgotten by the   *)
(* fixups, nor replaced again once it is defined: the places that a name's *)
(* fixup has are those where the program waits for that name.              *)
PlaceholdersAreAwaited ==
  LET program == compilation.program
  IN  /\ TypeOK
      /\ UNION {{<<i, n>> : i \in compilation.fixups[n]} : n \in DOMAIN compilation.fixups}
         = {<<i, program[i][2]>> : i \in {j \in DOMAIN program : program[j][1] = "placeholder"}}

(* Definitions change nothing of the program but placeholders: what a word *)
(* meant when it was compiled stays, also when it gets another definition. *)
CompiledWordsStay ==
  [][\A i \in DOMAIN compilation.program :
       compilation.program[i] \in {compilation'.program[i]} \cup
                                  {<<"placeholder", n>> : n \in DOMAIN compilation.fixups}]_vars

(* A program passes over the definitions in it, and definitions do not run *)
(* on into what follows: it takes a call, an exit or a jump that the source *)
(* has to get from what is outside of definitions to what is in them, or    *)
(* back.                                                                    *)
BodiesAreClosed ==
  [][run' # run /\ ~ run'.failed =>
       \/ Word[1] \in {"call to", "exit", "jump", "call", "jump-if-zero", "jump-if-nonzero"}
       \/ Word[1] = "jump to" /\ Word[3] # Resume
       \/ run'.ip + 1 \in DOMAIN compilation.mains
            => compilation.mains[run'.ip + 1] = compilation.mains[run.ip + 1]]_vars

(* What was saved stays as it was, whatever changes before it is restored.  *)
SavedContextsStay ==
  [][\A i \in DOMAIN run.contextStack \cap DOMAIN run'.contextStack :
       \A o \in {run.contextStack[i].values, run.contextStack[i].transform} :
         run'.objects[o].is = run.objects[o].is]_vars

(* The run is where words that use no fuel lead to nothing but such words: *)
(* it goes round in a circle of them.                                      *)
FreePlaces == {i \in 0 .. Len(compilation.program) - 1 : compilation.program[i + 1][1] \in FreeWords}
After(i) == LET word == compilation.program[i + 1]
            IN  IF word[1] = "jump to" THEN word[2] ELSE i + 1
Spins == \E circle \in SUBSET FreePlaces :
           run.ip \in circle /\ \A i \in circle : After(i) \in circle

(* A program ends, when its fuel does at the latest: unless it spins, no    *)
(* loop of calls, of jumps to what is on a stack, or of jumps and contexts  *)
(* keeps draw from returning.                                              *)
RunEnds == phase = "running" ~> (phase # "running" \/ Spins)

-----------------------------------------------------------------------------
(* Tokens and text *)

(* Where each character is, and the end *)
Places ==
  LET place[i \in Nat] == IF i = 0 THEN <<1, 1>> ELSE PlaceAfter(place[i - 1], text[i])
  IN  [i \in 1 .. Len(text) + 1 |-> place[i - 1]]
Index(places, place) == CHOOSE i \in DOMAIN places : places[i] = place
Span(places, token) == Index(places, token.start) .. Index(places, token.end) - 1

(* What is in quotes that take escapes *)
Decode(acc, c) ==
  IF acc.escape THEN [escape |-> FALSE, is |-> Append(acc.is, Unescaped[c])]
  ELSE IF c = "backslash" THEN [acc EXCEPT !.escape = TRUE]
  ELSE [acc EXCEPT !.is = Append(@, c)]
Decoded(chars) ==
  LET acc[i \in Nat] == IF i = 0 THEN [escape |-> FALSE, is |-> <<>>] ELSE Decode(acc[i - 1], chars[i])
  IN  acc[Len(chars)].is

(* A token is what the text has between its start and its end. *)
Says(token, first, last) ==
  LET chars == SubSeq(text, first, last)
      inner == SubSeq(text, first + 1, last - 1)
      open  == text[first]
  IN  CASE token.type = "bareword" -> first <= last /\ token.text = chars
        [] token.type = "comment"  -> first <= last /\ <<"sharp">> \o token.text = chars
        [] OTHER -> /\ first < last
                    /\ open \in DOMAIN QuoteType /\ text[last] = Close(open)
                    /\ token.type = QuoteType[open]
                    /\ token.text = IF open = "open" THEN inner ELSE Decoded(inner)

(* Tokens are what their locations say, and each character that is not     *)
(* white is in one of them: none is lost between tokens, or in two.        *)
TokensCoverText ==
  phase = "running" /\ run = NewRun(limits.fuel) =>
    LET places == Places
        spoken == {k \in DOMAIN tokens : tokens[k].type # "end"}
        spans  == {<<k, Span(places, tokens[k])>> : k \in spoken}
    IN  /\ \A k \in spoken : Says(tokens[k], Index(places, tokens[k].start),
                                             Index(places, tokens[k].end) - 1)
        /\ \A i \in DOMAIN text : text[i] \notin White =>
             Cardinality({s \in spans : i \in s[2]}) = 1
=============================================================================
