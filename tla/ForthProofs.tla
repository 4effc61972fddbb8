---------------------------- MODULE ForthProofs ----------------------------
(***************************************************************************)
(* For every set of sources, names and numbers: what the compiler of the   *)
(* Forth system knows of words that are not defined yet, that what is      *)
(* compiled stays, that the main program and the definitions in it do not  *)
(* run into each other, that saved contexts stay, and that tokens are what *)
(* the text has where they say they are.                                   *)
(***************************************************************************)
EXTENDS Forth, FiniteSetTheorems, SequenceTheorems, NaturalsInduction, WellFoundedInduction, TLAPS

-----------------------------------------------------------------------------
(* Compilations *)

(* A sequence of whatever its members are *)
IsSequence(s) == s \in Seq({s[i] : i \in DOMAIN s})

(* Every sequence is one of its own members. *)
LEMMA SomeSequence ==
  ASSUME NEW S, NEW s \in Seq(S)
  PROVE  IsSequence(s)
BY DEF IsSequence

(* What Append does to a sequence of anything: the program of a compilation grows so. *)
LEMMA AppendIs ==
  ASSUME NEW s, IsSequence(s), NEW x
  PROVE  /\ IsSequence(Append(s, x))
         /\ Len(s) \in Nat /\ DOMAIN s = 1 .. Len(s)
         /\ Len(Append(s, x)) = Len(s) + 1
         /\ DOMAIN Append(s, x) = 1 .. Len(s) + 1
         /\ Append(s, x)[Len(s) + 1] = x
         /\ \A i \in 1 .. Len(s) : Append(s, x)[i] = s[i]
<1> DEFINE S == {s[i] : i \in DOMAIN s} \cup {x}
<1>1. s \in Seq(S) /\ x \in S
  BY DEF IsSequence
<1>2. Append(s, x) \in Seq(S)
  BY <1>1
<1>3. IsSequence(Append(s, x))
  BY <1>2, SomeSequence
<1> HIDE DEF S
<1>4. QED
  BY <1>1, <1>2, <1>3

CompilationFields ==
  {"program", "mains", "dictionary", "fixups", "onToken", "compilingMain", "failed"}

WellFormed(c) ==
  /\ DOMAIN c = CompilationFields
  /\ IsSequence(c.program) /\ IsSequence(c.mains) /\ Len(c.mains) = Len(c.program)

(* Push adds a word at the end of the program, and whether it is one of main. *)
LEMMA PushFacts ==
  ASSUME NEW c, WellFormed(c), NEW word
  PROVE  /\ Push(c, word).program = Append(c.program, word)
         /\ Push(c, word).mains = Append(c.mains, c.compilingMain)
         /\ Push(c, word).dictionary = c.dictionary
         /\ Push(c, word).fixups = c.fixups
         /\ Push(c, word).onToken = c.onToken
         /\ Push(c, word).compilingMain = c.compilingMain
         /\ Push(c, word).failed = c.failed
         /\ WellFormed(Push(c, word))
<1>1. DOMAIN Push(c, word) = CompilationFields
  BY DEF WellFormed, Push
<1>2. Push(c, word).program = Append(c.program, word)
  BY DEF WellFormed, Push, CompilationFields
<1>3. Push(c, word).mains = Append(c.mains, c.compilingMain)
  BY DEF WellFormed, Push, CompilationFields
<1>4. /\ Push(c, word).dictionary = c.dictionary
      /\ Push(c, word).fixups = c.fixups
         /\ Push(c, word).onToken = c.onToken
         /\ Push(c, word).compilingMain = c.compilingMain
         /\ Push(c, word).failed = c.failed
  BY DEF WellFormed, Push, CompilationFields
<1>5. WellFormed(Push(c, word))
  BY <1>1, <1>2, <1>3, AppendIs DEF WellFormed
<1>6. QED
  BY <1>2, <1>3, <1>4, <1>5

(* Entering a word changes nothing but the dictionary. *)
LEMMA EnteredFacts ==
  ASSUME NEW c, WellFormed(c), NEW name, NEW word
  PROVE  /\ Entered(c, name, word).dictionary = Assigned(c.dictionary, name, word)
         /\ Entered(c, name, word).program = c.program
         /\ Entered(c, name, word).mains = c.mains
         /\ Entered(c, name, word).fixups = c.fixups
         /\ Entered(c, name, word).compilingMain = c.compilingMain
         /\ WellFormed(Entered(c, name, word))
BY DEF WellFormed, Entered, CompilationFields

(* The placeholders of a name are those that its fixup knows of. *)
Awaited(c) ==
  /\ \A n \in DOMAIN c.fixups : \A i \in c.fixups[n] :
       i \in DOMAIN c.program /\ c.program[i] = <<"placeholder", n>>
  /\ \A i \in DOMAIN c.program : c.program[i][1] = "placeholder" =>
       /\ c.program[i][2] \in DOMAIN c.fixups
       /\ i \in c.fixups[c.program[i][2]]

(* The fixup of a name knows exactly the placeholders for it. *)
LEMMA AwaitedAre ==
  ASSUME NEW c, Awaited(c), NEW name
  PROVE  \A i \in DOMAIN c.program : i \in FixupsOf(c, name) <=> c.program[i] = <<"placeholder", name>>
BY DEF Awaited, FixupsOf

(* pushFixupPlaceholder: one more placeholder, that the fixup of its name knows. *)
LEMMA PushPlaceholderFacts ==
  ASSUME NEW c, WellFormed(c), Awaited(c), NEW name
  PROVE  /\ PushPlaceholder(c, name).program = Append(c.program, <<"placeholder", name>>)
         /\ PushPlaceholder(c, name).mains = Append(c.mains, c.compilingMain)
         /\ PushPlaceholder(c, name).dictionary = c.dictionary
         /\ PushPlaceholder(c, name).compilingMain = c.compilingMain
         /\ WellFormed(PushPlaceholder(c, name)) /\ Awaited(PushPlaceholder(c, name))
<1> DEFINE d == Push(c, <<"placeholder", name>>)
           e == PushPlaceholder(c, name)
<1>1. /\ d.program = Append(c.program, <<"placeholder", name>>)
      /\ d.mains = Append(c.mains, c.compilingMain)
      /\ d.dictionary = c.dictionary /\ d.fixups = c.fixups
      /\ d.compilingMain = c.compilingMain /\ WellFormed(d)
  BY PushFacts
<1>2. e = [d EXCEPT !.fixups = Assigned(@, name, Awaiting(c, name, Len(c.program) + 1))]
  BY DEF PushPlaceholder
<1> HIDE DEF d, e
<1>3. /\ e.program = d.program /\ e.mains = d.mains /\ e.dictionary = d.dictionary
      /\ e.compilingMain = d.compilingMain
      /\ e.fixups = Assigned(d.fixups, name, Awaiting(c, name, Len(c.program) + 1))
      /\ WellFormed(e)
  BY <1>1, <1>2 DEF WellFormed, CompilationFields
<1> DEFINE L == Len(c.program)
           F == FixupsOf(c, name) \cup {L + 1}
<1>4. /\ DOMAIN e.fixups = DOMAIN c.fixups \cup {name} /\ e.fixups[name] = F
      /\ \A n \in DOMAIN c.fixups \ {name} : e.fixups[n] = c.fixups[n]
  <2>1. e.fixups = Assigned(c.fixups, name, F)
    BY <1>1, <1>3 DEF Awaiting
  <2> HIDE DEF F
  <2>2. QED
    BY <2>1 DEF Assigned
<1>5. /\ L \in Nat /\ DOMAIN c.program = 1 .. L /\ DOMAIN e.program = 1 .. L + 1
      /\ e.program[L + 1] = <<"placeholder", name>>
      /\ \A i \in 1 .. L : e.program[i] = c.program[i]
  BY <1>1, <1>3, AppendIs DEF WellFormed
<1>6. \A i \in DOMAIN c.program : i \in FixupsOf(c, name) <=> c.program[i] = <<"placeholder", name>>
  BY AwaitedAre
<1>7. FixupsOf(c, name) \subseteq 1 .. L
  BY <1>5 DEF Awaited, FixupsOf
<1> HIDE DEF L
<1>8. ASSUME NEW n \in DOMAIN e.fixups, NEW i \in e.fixups[n]
      PROVE  i \in DOMAIN e.program /\ e.program[i] = <<"placeholder", n>>
  <2>1. CASE n = name
    BY <1>4, <1>5, <1>6, <1>7, <1>8, <2>1
  <2>2. CASE n # name
    BY <1>4, <1>5, <1>8, <2>2 DEF Awaited
  <2>3. QED
    BY <2>1, <2>2
<1>9. ASSUME NEW i \in DOMAIN e.program, e.program[i][1] = "placeholder"
      PROVE  e.program[i][2] \in DOMAIN e.fixups /\ i \in e.fixups[e.program[i][2]]
  <2>1. CASE i = L + 1
    BY <1>4, <1>5, <2>1
  <2>2. CASE i \in 1 .. L
    BY <1>4, <1>5, <1>6, <1>9, <2>2 DEF Awaited
  <2>3. QED
    BY <1>5, <2>1, <2>2
<1>10. Awaited(e)
  BY <1>8, <1>9 DEF Awaited
<1>11. QED
  BY <1>1, <1>3, <1>10 DEF e

(* A word that is no placeholder needs no fixup. *)
LEMMA PushKeepsAwaited ==
  ASSUME NEW c, WellFormed(c), Awaited(c), NEW word, word[1] # "placeholder"
  PROVE  Awaited(Push(c, word))
<1> DEFINE d == Push(c, word)
<1>1. d.program = Append(c.program, word) /\ d.fixups = c.fixups
  BY PushFacts
<1> HIDE DEF d
<1>2. /\ Len(c.program) \in Nat /\ DOMAIN c.program = 1 .. Len(c.program)
      /\ DOMAIN d.program = 1 .. Len(c.program) + 1
      /\ d.program[Len(c.program) + 1] = word
      /\ \A i \in 1 .. Len(c.program) : d.program[i] = c.program[i]
  BY <1>1, AppendIs DEF WellFormed
<1>3. Awaited(d)
  BY <1>1, <1>2 DEF Awaited
<1>4. QED
  BY <1>3 DEF d

(* A definition replaces the placeholders of the name, and nothing else. *)
LEMMA DefinedFacts ==
  ASSUME NEW c, WellFormed(c), Awaited(c), NEW name, NEW word, word[1] # "placeholder"
  PROVE  /\ Len(Defined(c, name, word).program) = Len(c.program)
         /\ DOMAIN Defined(c, name, word).program = DOMAIN c.program
         /\ \A i \in DOMAIN c.program :
              Defined(c, name, word).program[i] =
                IF c.program[i] = <<"placeholder", name>> THEN word ELSE c.program[i]
         /\ Defined(c, name, word).mains = c.mains
         /\ Defined(c, name, word).dictionary = Assigned(c.dictionary, name, word)
         /\ Defined(c, name, word).compilingMain = c.compilingMain
         /\ WellFormed(Defined(c, name, word)) /\ Awaited(Defined(c, name, word))
<1> DEFINE b == Entered(c, name, word)
           d == Defined(c, name, word)
           p == [i \in DOMAIN c.program |-> IF i \in FixupsOf(c, name) THEN word ELSE c.program[i]]
<1>1. /\ b.dictionary = Assigned(c.dictionary, name, word)
      /\ b.program = c.program /\ b.mains = c.mains /\ b.fixups = c.fixups
      /\ b.compilingMain = c.compilingMain /\ WellFormed(b)
  BY EnteredFacts
<1>2. d = [b EXCEPT !.program = [i \in DOMAIN @ |-> IF i \in FixupsOf(c, name) THEN word ELSE @[i]],
                    !.fixups = Resolved(c, name)]
  BY DEF Defined
<1> HIDE DEF b, d
<1>3. /\ DOMAIN d = CompilationFields
      /\ d.program = p
      /\ d.mains = c.mains /\ d.dictionary = b.dictionary
      /\ d.compilingMain = c.compilingMain
      /\ d.fixups = Resolved(c, name)
  BY <1>1, <1>2 DEF WellFormed, CompilationFields
<1>4. Len(c.program) \in Nat /\ DOMAIN c.program = 1 .. Len(c.program)
  BY AppendIs DEF WellFormed
<1>5. /\ DOMAIN p = DOMAIN c.program
      /\ \A i \in DOMAIN c.program :
           p[i] = IF c.program[i] = <<"placeholder", name>> THEN word ELSE c.program[i]
  BY AwaitedAre
<1>6. p \in Seq({p[i] : i \in DOMAIN p}) /\ Len(p) = Len(c.program)
  BY <1>4
<1> HIDE DEF p
<1>7. WellFormed(d)
  BY <1>3, <1>6 DEF WellFormed, IsSequence
<1>8. /\ DOMAIN d.fixups = DOMAIN c.fixups \ {name}
      /\ \A n \in DOMAIN c.fixups \ {name} : d.fixups[n] = c.fixups[n]
  BY <1>3 DEF Resolved
<1>9. Awaited(d)
  <2>1. ASSUME NEW n \in DOMAIN d.fixups, NEW i \in d.fixups[n]
        PROVE  i \in DOMAIN d.program /\ d.program[i] = <<"placeholder", n>>
    <3>1. n # name /\ i \in DOMAIN c.program /\ c.program[i] = <<"placeholder", n>>
      BY <1>8, <2>1 DEF Awaited
    <3>2. <<"placeholder", n>> # <<"placeholder", name>>
      BY <3>1
    <3>3. QED
      BY <1>3, <1>5, <3>1, <3>2
  <2>2. ASSUME NEW i \in DOMAIN d.program, d.program[i][1] = "placeholder"
        PROVE  d.program[i][2] \in DOMAIN d.fixups /\ i \in d.fixups[d.program[i][2]]
    <3>1. i \in DOMAIN c.program /\ c.program[i] # <<"placeholder", name>> /\ d.program[i] = c.program[i]
      BY <1>3, <1>5, <2>2
    <3>2. c.program[i][2] \in DOMAIN c.fixups /\ i \in c.fixups[c.program[i][2]]
      BY <2>2, <3>1 DEF Awaited
    <3>3. c.program[i] = <<"placeholder", c.program[i][2]>>
      BY <3>2 DEF Awaited
    <3>4. QED
      BY <1>8, <3>1, <3>2, <3>3
  <2>3. QED
    BY <2>1, <2>2 DEF Awaited
<1>10. QED
  BY <1>1, <1>3, <1>5, <1>6, <1>7, <1>9 DEF d

(* A word of a program after a location was defined *)
Replaced(word, name, location) ==
  IF word = <<"placeholder", name>> THEN <<"call to", location, name>>
  ELSE IF word = <<"placeholder", JumpName(name)>> THEN <<"jump to", location, name>>
  ELSE IF word = <<"placeholder", LocationName(name)>> THEN <<"push", location>>
  ELSE word

(* The entries of a dictionary after a location was defined *)
LocationEntered(old, new, name, location) ==
  \A n \in DOMAIN new :
    \/ n \in DOMAIN old /\ new[n] = old[n]
    \/ n = name /\ new[n] = <<"call to", location, name>>
    \/ n = JumpName(name) /\ new[n] = <<"jump to", location, name>>
    \/ n = LocationName(name) /\ new[n] = <<"push", location>>

(* defineLocation resolves the three variants of a name, and enters them. *)
LEMMA DefineLocationFacts ==
  ASSUME NEW c, WellFormed(c), Awaited(c), NEW name, NEW location
  PROVE  LET d == DefineLocation(c, name, location)
         IN  /\ Len(d.program) = Len(c.program) /\ DOMAIN d.program = DOMAIN c.program
             /\ \A i \in DOMAIN c.program : d.program[i] = Replaced(c.program[i], name, location)
             /\ LocationEntered(c.dictionary, d.dictionary, name, location)
             /\ d.mains = c.mains /\ d.compilingMain = c.compilingMain
             /\ WellFormed(d) /\ Awaited(d)
<1> DEFINE call == <<"call to", location, name>>
           jump == <<"jump to", location, name>>
           push == <<"push", location>>
           c1 == Defined(c, name, call)
           c2 == Defined(c1, JumpName(name), jump)
           c3 == Defined(c2, LocationName(name), push)
<1>1. call[1] # "placeholder" /\ jump[1] # "placeholder" /\ push[1] # "placeholder"
  OBVIOUS
<1>2. c3 = DefineLocation(c, name, location)
  BY DEF DefineLocation
<1> HIDE DEF call, jump, push
<1>3. /\ Len(c1.program) = Len(c.program) /\ DOMAIN c1.program = DOMAIN c.program
      /\ \A i \in DOMAIN c.program :
           c1.program[i] = IF c.program[i] = <<"placeholder", name>> THEN call ELSE c.program[i]
      /\ c1.mains = c.mains /\ c1.compilingMain = c.compilingMain
      /\ c1.dictionary = Assigned(c.dictionary, name, call)
      /\ WellFormed(c1) /\ Awaited(c1)
  BY <1>1, DefinedFacts
<1> HIDE DEF c1
<1>4. /\ Len(c2.program) = Len(c1.program) /\ DOMAIN c2.program = DOMAIN c1.program
      /\ \A i \in DOMAIN c1.program :
           c2.program[i] = IF c1.program[i] = <<"placeholder", JumpName(name)>> THEN jump ELSE c1.program[i]
      /\ c2.mains = c1.mains /\ c2.compilingMain = c1.compilingMain
      /\ c2.dictionary = Assigned(c1.dictionary, JumpName(name), jump)
      /\ WellFormed(c2) /\ Awaited(c2)
  BY <1>1, <1>3, DefinedFacts
<1> HIDE DEF c2
<1>5. /\ Len(c3.program) = Len(c2.program) /\ DOMAIN c3.program = DOMAIN c2.program
      /\ \A i \in DOMAIN c2.program :
           c3.program[i] = IF c2.program[i] = <<"placeholder", LocationName(name)>> THEN push ELSE c2.program[i]
      /\ c3.mains = c2.mains /\ c3.compilingMain = c2.compilingMain
      /\ c3.dictionary = Assigned(c2.dictionary, LocationName(name), push)
      /\ WellFormed(c3) /\ Awaited(c3)
  BY <1>1, <1>4, DefinedFacts
<1> HIDE DEF c3
<1>6. ASSUME NEW i \in DOMAIN c.program
      PROVE  c3.program[i] = Replaced(c.program[i], name, location)
  <2>1. \A n : call # <<"placeholder", n>> /\ jump # <<"placeholder", n>>
    BY <1>1
  <2> DEFINE w == c.program[i]
             P(n) == <<"placeholder", n>>
  <2>2. /\ c1.program[i] = IF w = P(name) THEN call ELSE w
        /\ c2.program[i] = IF c1.program[i] = P(JumpName(name)) THEN jump ELSE c1.program[i]
        /\ c3.program[i] = IF c2.program[i] = P(LocationName(name)) THEN push ELSE c2.program[i]
    BY <1>3, <1>4, <1>5
  <2>3. Replaced(w, name, location) =
          IF w = P(name) THEN call
          ELSE IF w = P(JumpName(name)) THEN jump
          ELSE IF w = P(LocationName(name)) THEN push ELSE w
    BY DEF Replaced, call, jump, push
  <2>4. \A n : call # P(n) /\ jump # P(n)
    BY <2>1
  <2> HIDE DEF P, w
  <2>5. QED
    BY <2>2, <2>3, <2>4 DEF w
<1>7. LocationEntered(c.dictionary, c3.dictionary, name, location)
  <2>1. \A n \in DOMAIN c3.dictionary :
          \/ n \in DOMAIN c.dictionary /\ c3.dictionary[n] = c.dictionary[n]
          \/ n = name /\ c3.dictionary[n] = call
          \/ n = JumpName(name) /\ c3.dictionary[n] = jump
          \/ n = LocationName(name) /\ c3.dictionary[n] = push
    BY <1>3, <1>4, <1>5 DEF Assigned
  <2>2. QED
    BY <2>1 DEF LocationEntered, call, jump, push
<1>8. QED
  BY <1>2, <1>3, <1>4, <1>5, <1>6, <1>7

-----------------------------------------------------------------------------
(* What the words of a program are *)

Instructions ==
  StackWords \cup
  {"call to", "jump to", "exit", "jump", "call", "jump-if-zero", "jump-if-nonzero", ">r", "r>",
   "value", "@", "!", "scale", "save-context", "restore-context", "placeholder"}

(* The values that a program computes with *)
Val == Int \cup {Undefined, NaN, Text, Variable}

Instruction(word) ==
  /\ word[1] \in Instructions
  /\ word[1] \in {"push", "call to", "jump to"} => word[2] \in Int

(* What a dictionary may hold *)
Compilable(word) ==
  \/ Instruction(word) /\ word[1] # "placeholder"
  \/ word[1] = "await"
  \/ word \in {<<name>> : name \in CompilationWords}

Typed(c) ==
  /\ \A i \in DOMAIN c.program : Instruction(c.program[i])
  /\ \A n \in DOMAIN c.dictionary : Compilable(c.dictionary[n])

(* All that was compiled is still there, but for placeholders. *)
Continues(c, d) ==
  \A i \in DOMAIN c.program :
    i \in DOMAIN d.program /\ (c.program[i][1] = "placeholder" \/ d.program[i] = c.program[i])

Sound(c) == WellFormed(c) /\ Awaited(c) /\ Typed(c)

(* What continues a continuation continues the first. *)
LEMMA ContinuesOn ==
  ASSUME NEW c, NEW d, NEW e, Continues(c, d), Continues(d, e)
  PROVE  Continues(c, e)
BY DEF Continues

(* compileToken, for a word that runs. *)
LEMMA PushSound ==
  ASSUME NEW c, Sound(c), NEW word, Instruction(word), word[1] # "placeholder"
  PROVE  Sound(Push(c, word)) /\ Continues(c, Push(c, word))
<1> DEFINE d == Push(c, word)
<1>1. /\ d.program = Append(c.program, word) /\ d.dictionary = c.dictionary
      /\ WellFormed(d) /\ Awaited(d)
  BY PushFacts, PushKeepsAwaited DEF Sound
<1> HIDE DEF d
<1>2. /\ Len(c.program) \in Nat /\ DOMAIN c.program = 1 .. Len(c.program)
      /\ DOMAIN d.program = 1 .. Len(c.program) + 1
      /\ d.program[Len(c.program) + 1] = word
      /\ \A i \in 1 .. Len(c.program) : d.program[i] = c.program[i]
  BY <1>1, AppendIs DEF WellFormed, Sound
<1>3. Typed(d) /\ Continues(c, d)
  BY <1>1, <1>2 DEF Typed, Sound, Continues
<1>4. QED
  BY <1>1, <1>3 DEF d, Sound

(* compileToken, for a word that awaits its definition. *)
LEMMA PushPlaceholderSound ==
  ASSUME NEW c, Sound(c), NEW name
  PROVE  Sound(PushPlaceholder(c, name)) /\ Continues(c, PushPlaceholder(c, name))
<1> DEFINE d == PushPlaceholder(c, name)
           word == <<"placeholder", name>>
<1>1. /\ d.program = Append(c.program, word) /\ d.dictionary = c.dictionary
      /\ WellFormed(d) /\ Awaited(d)
  BY PushPlaceholderFacts DEF Sound
<1>w. Instruction(word)
  BY DEF Instruction, Instructions
<1> HIDE DEF d, word
<1>2. /\ Len(c.program) \in Nat /\ DOMAIN c.program = 1 .. Len(c.program)
      /\ DOMAIN d.program = 1 .. Len(c.program) + 1
      /\ d.program[Len(c.program) + 1] = word
      /\ \A i \in 1 .. Len(c.program) : d.program[i] = c.program[i]
  BY <1>1, AppendIs DEF WellFormed, Sound
<1>3. Typed(d) /\ Continues(c, d)
  BY <1>1, <1>2, <1>w DEF Typed, Sound, Continues
<1>4. QED
  BY <1>1, <1>3 DEF d, Sound

(* A definition that has no place in the program. *)
LEMMA EnteredSound ==
  ASSUME NEW c, Sound(c), NEW name, NEW word, Compilable(word)
  PROVE  Sound(Entered(c, name, word)) /\ Continues(c, Entered(c, name, word))
<1> DEFINE d == Entered(c, name, word)
<1>1. /\ d.dictionary = Assigned(c.dictionary, name, word)
      /\ d.program = c.program /\ d.fixups = c.fixups /\ WellFormed(d)
  BY EnteredFacts DEF Sound
<1> HIDE DEF d
<1>2. \A n \in DOMAIN d.dictionary : Compilable(d.dictionary[n])
  BY <1>1 DEF Sound, Typed, Assigned
<1>3. Awaited(d) /\ Typed(d) /\ Continues(c, d)
  BY <1>1, <1>2 DEF Sound, Awaited, Typed, Continues
<1>4. QED
  BY <1>1, <1>3 DEF Sound, d

(* A definition that has one: it replaces placeholders, and no other words. *)
LEMMA DefineLocationSound ==
  ASSUME NEW c, Sound(c), NEW name, NEW location \in Int
  PROVE  /\ Sound(DefineLocation(c, name, location))
         /\ Continues(c, DefineLocation(c, name, location))
<1> DEFINE d == DefineLocation(c, name, location)
<1>1. /\ Len(d.program) = Len(c.program) /\ DOMAIN d.program = DOMAIN c.program
      /\ \A i \in DOMAIN c.program : d.program[i] = Replaced(c.program[i], name, location)
      /\ LocationEntered(c.dictionary, d.dictionary, name, location)
      /\ WellFormed(d) /\ Awaited(d)
  BY DefineLocationFacts DEF Sound
<1> HIDE DEF d
<1>2. /\ Instruction(<<"call to", location, name>>) /\ Instruction(<<"jump to", location, name>>)
      /\ Instruction(<<"push", location>>)
  BY DEF Instruction, Instructions, StackWords
<1>p. /\ <<"call to", location, name>>[1] # "placeholder"
      /\ <<"jump to", location, name>>[1] # "placeholder"
      /\ <<"push", location>>[1] # "placeholder"
  OBVIOUS
<1>3. ASSUME NEW i \in DOMAIN c.program
      PROVE  /\ Instruction(d.program[i])
             /\ c.program[i][1] = "placeholder" \/ d.program[i] = c.program[i]
  <2>1. \A n : <<"placeholder", n>>[1] = "placeholder"
    OBVIOUS
  <2>2. Instruction(c.program[i]) /\ d.program[i] = Replaced(c.program[i], name, location)
    BY <1>1 DEF Sound, Typed
  <2> DEFINE w == c.program[i]
  <2> HIDE DEF w
  <2>3. \/ Replaced(w, name, location) = w
        \/ w[1] = "placeholder" /\ Instruction(Replaced(w, name, location))
    BY <1>2, <2>1 DEF Replaced
  <2>4. QED
    BY <2>2, <2>3 DEF w
<1>4. \A n \in DOMAIN d.dictionary : Compilable(d.dictionary[n])
  <2>1. /\ Compilable(<<"call to", location, name>>) /\ Compilable(<<"jump to", location, name>>)
        /\ Compilable(<<"push", location>>)
    BY <1>2, <1>p DEF Compilable
  <2>2. QED
    BY <1>1, <2>1 DEF LocationEntered, Sound, Typed
<1>5. Typed(d) /\ Continues(c, d)
  BY <1>1, <1>3, <1>4 DEF Typed, Continues
<1>6. QED
  BY <1>1, <1>5 DEF Sound, d

-----------------------------------------------------------------------------
(* What tokens do *)

(* Fields that have nothing to do with program, dictionary and fixups may change. *)
LEMMA AllButCode ==
  ASSUME NEW c, Sound(c), NEW d, DOMAIN d = CompilationFields, d.program = c.program,
         d.mains = c.mains, d.dictionary = c.dictionary, d.fixups = c.fixups
  PROVE  Sound(d) /\ Continues(c, d)
<1>1. WellFormed(d)
  BY DEF Sound, WellFormed
<1>2. Awaited(d) /\ Typed(d) /\ Continues(c, d)
  BY DEF Sound, Awaited, Typed, Continues
<1>3. QED
  BY <1>1, <1>2 DEF Sound

(* A compilation that fails leaves the program as it is. *)
LEMMA FailedSound ==
  ASSUME NEW c, Sound(c)
  PROVE  Sound(Failed(c)) /\ Continues(c, Failed(c))
<1>1. /\ DOMAIN Failed(c) = CompilationFields /\ Failed(c).program = c.program
      /\ Failed(c).mains = c.mains /\ Failed(c).dictionary = c.dictionary
      /\ Failed(c).fixups = c.fixups
  BY DEF Sound, WellFormed, CompilationFields, Failed
<1>2. QED
  BY <1>1, AllButCode

(* So does a word that starts to wait for a name. *)
LEMMA OnTokenSound ==
  ASSUME NEW c, Sound(c), NEW x
  PROVE  Sound([c EXCEPT !.onToken = x]) /\ Continues(c, [c EXCEPT !.onToken = x])
BY AllButCode DEF Sound, WellFormed, CompilationFields

(* And the change between main and a definition. *)
LEMMA MainSound ==
  ASSUME NEW c, Sound(c)
  PROVE  /\ Sound([c EXCEPT !.compilingMain = TRUE]) /\ Continues(c, [c EXCEPT !.compilingMain = TRUE])
         /\ Sound([c EXCEPT !.compilingMain = FALSE]) /\ Continues(c, [c EXCEPT !.compilingMain = FALSE])
<1>0. DOMAIN c = CompilationFields
  BY DEF Sound, WellFormed
<1>1. Sound([c EXCEPT !.compilingMain = TRUE]) /\ Continues(c, [c EXCEPT !.compilingMain = TRUE])
  BY <1>0, AllButCode DEF CompilationFields
<1>2. Sound([c EXCEPT !.compilingMain = FALSE]) /\ Continues(c, [c EXCEPT !.compilingMain = FALSE])
  BY <1>0, AllButCode DEF CompilationFields
<1>3. QED
  BY <1>1, <1>2

(* The word ":". *)
LEMMA DefineSound ==
  ASSUME NEW c, Sound(c), NEW name
  PROVE  Sound(Define(c, name)) /\ Continues(c, Define(c, name))
<1> DEFINE jumped == IF c.compilingMain THEN PushPlaceholder(c, JumpName(Resume)) ELSE c
           d == DefineLocation(jumped, name, Len(jumped.program))
<1>1. Sound(jumped) /\ Continues(c, jumped)
  BY PushPlaceholderSound DEF Continues
<1>2. Define(c, name) = [d EXCEPT !.compilingMain = FALSE]
  BY DEF Define
<1> HIDE DEF jumped
<1>3. Len(jumped.program) \in Int
  BY <1>1, AppendIs DEF Sound, WellFormed
<1>4. Sound(d) /\ Continues(jumped, d)
  BY <1>1, <1>3, DefineLocationSound
<1> HIDE DEF d
<1>5. Sound(Define(c, name)) /\ Continues(d, Define(c, name))
  BY <1>2, <1>4, MainSound
<1>6. QED
  BY <1>1, <1>4, <1>5, ContinuesOn

(* The word ";". *)
LEMMA EndDefinitionSound ==
  ASSUME NEW c, Sound(c)
  PROVE  Sound(EndDefinition(c)) /\ Continues(c, EndDefinition(c))
<1> DEFINE ended == Push(c, <<"exit">>)
           d == DefineLocation(ended, Resume, Len(ended.program))
<1>1. Instruction(<<"exit">>) /\ <<"exit">>[1] # "placeholder"
  BY DEF Instruction, Instructions
<1>2. Sound(ended) /\ Continues(c, ended)
  BY <1>1, PushSound
<1>3. EndDefinition(c) = [d EXCEPT !.compilingMain = TRUE]
  BY DEF EndDefinition
<1> HIDE DEF ended
<1>4. Len(ended.program) \in Int
  BY <1>2, AppendIs DEF Sound, WellFormed
<1>5. Sound(d) /\ Continues(ended, d)
  BY <1>2, <1>4, DefineLocationSound
<1> HIDE DEF d
<1>6. Sound(EndDefinition(c)) /\ Continues(d, EndDefinition(c))
  BY <1>3, <1>5, MainSound
<1>7. QED
  BY <1>2, <1>5, <1>6, ContinuesOn

(* The word "code-label:". *)
LEMMA DeclareSound ==
  ASSUME NEW c, Sound(c), NEW name
  PROVE  Sound(Declare(c, name)) /\ Continues(c, Declare(c, name))
<1> DEFINE Await(d, n) == Entered(d, n, <<"await", n>>)
           c1 == Await(c, name)
           c2 == Await(c1, JumpName(name))
           c3 == Await(c2, LocationName(name))
<1>1. \A n : Compilable(<<"await", n>>)
  BY DEF Compilable
<1>2. Declare(c, name) = c3
  BY DEF Declare
<1>3. Sound(c1) /\ Continues(c, c1)
  BY <1>1, EnteredSound
<1> HIDE DEF c1
<1>4. Sound(c2) /\ Continues(c1, c2)
  BY <1>1, <1>3, EnteredSound
<1> HIDE DEF c2
<1>5. Sound(c3) /\ Continues(c2, c3)
  BY <1>1, <1>4, EnteredSound
<1> HIDE DEF c3
<1>6. QED
  BY <1>2, <1>3, <1>4, <1>5, ContinuesOn

(* The word "context-variable:". *)
LEMMA DeclareVariableSound ==
  ASSUME NEW c, Sound(c), NEW name
  PROVE  Sound(DeclareVariable(c, name)) /\ Continues(c, DeclareVariable(c, name))
<1> DEFINE d == Entered(c, name, <<"value">>)
           e == Entered(d, LocationName(name), <<"variable">>)
<1>1. Compilable(<<"value">>) /\ Compilable(<<"variable">>)
  BY DEF Compilable, Instruction, Instructions, StackWords
<1>2. DeclareVariable(c, name) = e
  BY DEF DeclareVariable
<1>3. Sound(d) /\ Continues(c, d)
  BY <1>1, EnteredSound
<1> HIDE DEF d
<1>4. Sound(e) /\ Continues(d, e)
  BY <1>1, <1>3, EnteredSound
<1> HIDE DEF e
<1>5. QED
  BY <1>2, <1>3, <1>4, ContinuesOn

(* getWord finds nothing, or something that can be compiled. *)
LEMMA GetWordIs ==
  ASSUME NEW c, Sound(c), NEW name
  PROVE  GetWord(c, name) = <<>> \/ Compilable(GetWord(c, name))
<1>1. CASE name \in DOMAIN c.dictionary
  BY <1>1 DEF GetWord, Sound, Typed
<1>2. CASE name \notin DOMAIN c.dictionary /\ name \in RuntimeWords
  <2>1. GetWord(c, name) = <<name>>
    BY <1>2 DEF GetWord
  <2>2. name \in Instructions \ {"push", "call to", "jump to", "placeholder"}
    BY <1>2 DEF RuntimeWords, Instructions, StackWords, Binary, Arithmetic, Comparison
  <2>3. <<name>>[1] = name
    OBVIOUS
  <2>4. QED
    BY <2>1, <2>2, <2>3 DEF Compilable, Instruction
<1>3. CASE name \notin DOMAIN c.dictionary /\ name \in CompilationWords
  <2>1. GetWord(c, name) = <<name>>
    BY <1>3 DEF GetWord
  <2>2. QED
    BY <1>3, <2>1 DEF Compilable
<1>4. CASE name \notin DOMAIN c.dictionary \cup RuntimeWords \cup CompilationWords /\ name \in DOMAIN Numbers
  <2>1. GetWord(c, name) = <<"push", Numbers[name]>>
    BY <1>4 DEF GetWord
  <2>2. QED
    BY <1>4, <2>1, NumbersAssumption DEF Compilable, Instruction, Instructions, StackWords
<1>5. CASE name \notin DOMAIN c.dictionary \cup RuntimeWords \cup CompilationWords \cup DOMAIN Numbers
  BY <1>5 DEF GetWord
<1>6. QED
  BY <1>1, <1>2, <1>3, <1>4, <1>5

(* A word that waits for a name gets it. *)
LEMMA GotNameSound ==
  ASSUME NEW c, Sound(c), NEW name
  PROVE  Sound(GotName(c, name)) /\ Continues(c, GotName(c, name))
<1> DEFINE here == [c EXCEPT !.onToken = <<>>]
           word == GetWord(c, name)
<1>1. Sound(here) /\ Continues(c, here) /\ Sound(Failed(c)) /\ Continues(c, Failed(c))
  BY FailedSound, OnTokenSound
<1>2. word = <<>> \/ Compilable(word)
  BY GetWordIs
<1>3. \/ GotName(c, name) \in {Define(here, name), Declare(here, name), DeclareVariable(here, "v"),
                               Failed(c), [c EXCEPT !.onToken = Append(@, name)]}
      \/ word # <<>> /\ GotName(c, name) = Entered(here, c.onToken[2], word)
  BY DEF GotName
<1>4. \A x : Sound([c EXCEPT !.onToken = x]) /\ Continues(c, [c EXCEPT !.onToken = x])
  BY OnTokenSound
<1> HIDE DEF here, word
<1>5. /\ Sound(Define(here, name)) /\ Continues(here, Define(here, name))
      /\ Sound(Declare(here, name)) /\ Continues(here, Declare(here, name))
      /\ Sound(DeclareVariable(here, "v")) /\ Continues(here, DeclareVariable(here, "v"))
  BY <1>1, DefineSound, DeclareSound, DeclareVariableSound
<1>6. Compilable(word) =>
        /\ Sound(Entered(here, c.onToken[2], word))
        /\ Continues(here, Entered(here, c.onToken[2], word))
  BY <1>1, EnteredSound
<1>7. CASE word # <<>> /\ GotName(c, name) = Entered(here, c.onToken[2], word)
  <2>1. /\ Sound(Entered(here, c.onToken[2], word))
        /\ Continues(here, Entered(here, c.onToken[2], word))
    BY <1>2, <1>6, <1>7
  <2>2. QED
    BY <1>1, <1>7, <2>1, ContinuesOn
<1>8. CASE GotName(c, name) \in {Define(here, name), Declare(here, name), DeclareVariable(here, "v")}
  BY <1>1, <1>5, <1>8, ContinuesOn
<1>9. CASE GotName(c, name) \in {Failed(c), [c EXCEPT !.onToken = Append(@, name)]}
  BY <1>1, <1>4, <1>9
<1>10. QED
  BY <1>3, <1>7, <1>8, <1>9

(* compileToken, once the word is found. *)
LEMMA CompileWordSound ==
  ASSUME NEW c, Sound(c), NEW word, word = <<>> \/ Compilable(word)
  PROVE  Sound(CompileWord(c, word)) /\ Continues(c, CompileWord(c, word))
<1>0. <<";">>[1] = ";"
  OBVIOUS
<1>1. CASE word = <<>>
  <2>1. <<>> # <<";">>
    OBVIOUS
  <2>2. CompileWord(c, word) = Failed(c)
    BY <1>1, <2>1 DEF CompileWord
  <2>3. QED
    BY <2>2, FailedSound
<1>2. CASE word # <<>> /\ word[1] \in DefiningWords
  <2>1. word # <<";">>
    BY <1>0, <1>2 DEF DefiningWords
  <2>2. CompileWord(c, word) = [c EXCEPT !.onToken = word]
    BY <1>2, <2>1 DEF CompileWord, DefiningWords
  <2>3. QED
    BY <2>2, OnTokenSound, SMTT(30)
<1>3. CASE word = <<";">>
  <2>1. CompileWord(c, word) \in {Failed(c), EndDefinition(c)}
    BY <1>0, <1>3 DEF CompileWord, DefiningWords
  <2>2. QED
    BY <2>1, FailedSound, EndDefinitionSound
<1>4. CASE word # <<>> /\ word[1] = "await"
  <2>1. CompileWord(c, word) = PushPlaceholder(c, word[2])
    BY <1>0, <1>4 DEF CompileWord, DefiningWords
  <2>2. QED
    BY <2>1, PushPlaceholderSound
<1>5. CASE word # <<>> /\ word[1] \notin DefiningWords \cup {"await"} /\ word # <<";">>
  <2>1. CompileWord(c, word) = Push(c, word)
    BY <1>5 DEF CompileWord
  <2>2. Instruction(word) /\ word[1] # "placeholder"
    <3>1. \A n : <<n>>[1] = n
      OBVIOUS
    <3>2. QED
      BY <1>5, <3>1 DEF Compilable, CompilationWords
  <2>3. QED
    BY <2>1, <2>2, PushSound
<1>6. QED
  BY <1>1, <1>2, <1>3, <1>4, <1>5

(* One token. *)
LEMMA CompileTokenSound ==
  ASSUME NEW c, Sound(c), NEW token
  PROVE  Sound(CompileToken(c, token)) /\ Continues(c, CompileToken(c, token))
<1>1. CompileToken(c, token) \in {c, Failed(c), GotName(c, Name(token)), Push(c, <<"text">>),
                                 CompileWord(c, GetWord(c, Name(token)))}
  BY DEF CompileToken
<1>2. Continues(c, c)
  BY DEF Continues
<1>3. Instruction(<<"text">>) /\ <<"text">>[1] # "placeholder"
  BY DEF Instruction, Instructions, StackWords
<1>4. QED
  BY <1>1, <1>2, <1>3, FailedSound, GotNameSound, PushSound, GetWordIs, CompileWordSound

(* The tokens of a character: nothing is forgotten that was compiled. *)
LEMMA CompileTokensSound ==
  ASSUME NEW c, Sound(c), NEW given
  PROVE  Sound(CompileTokens(c, given)) /\ Continues(c, CompileTokens(c, given))
<1> DEFINE first == IF Len(given) >= 1 THEN CompileToken(c, given[1]) ELSE c
<1>1. Sound(first) /\ Continues(c, first)
  BY CompileTokenSound DEF Continues
<1>2. CompileTokens(c, given) \in {first, CompileToken(first, given[2])}
  BY DEF CompileTokens
<1> HIDE DEF first
<1>3. Sound(CompileToken(first, given[2])) /\ Continues(first, CompileToken(first, given[2]))
  BY <1>1, CompileTokenSound
<1>4. QED
  BY <1>1, <1>2, <1>3, ContinuesOn

-----------------------------------------------------------------------------
(* Definitions within the main program *)

ResumeJump(word) == word[1] = "jump to" /\ word[3] = Resume
ToResume(word) == word = <<"placeholder", JumpName(Resume)>> \/ ResumeJump(word)

(* What may stand where main and a definition meet *)
Leaves(word) == word[1] = "exit" \/ ToResume(word)

(* Whether the word at place i of a program is one of main; the place      *)
(* after the last is that of the next word to come.                        *)
MainAt(mains, main, i) == IF i \in DOMAIN mains THEN mains[i] = TRUE ELSE main = TRUE

Parted(p, m, main) ==
  /\ \A i \in DOMAIN p : (MainAt(m, main, i + 1) <=> MainAt(m, main, i)) \/ Leaves(p[i])
  /\ \A i \in DOMAIN p : ToResume(p[i]) => MainAt(m, main, i)
  /\ \A i \in DOMAIN p : ResumeJump(p[i]) =>
       p[i][2] \in 0 .. Len(p) /\ MainAt(m, main, p[i][2] + 1)

(* Words by which a program can jump to where main goes on *)
NoResume(word) == ~ ToResume(word) /\ ~ (word[1] = "await" /\ word[2] = JumpName(Resume))
NamesNoResume(dictionary) ==
  \A n \in DOMAIN dictionary : n = JumpName(Resume) \/ NoResume(dictionary[n])

(* A word at the end of a parted program: main and definitions meet at words that leave. *)
LEMMA PartedPush ==
  ASSUME NEW p, NEW m, NEW main, IsSequence(p), IsSequence(m), Len(m) = Len(p),
         Parted(p, m, main), NEW word, ToResume(word) => word[1] = "placeholder" /\ main = TRUE
  PROVE  Parted(Append(p, word), Append(m, main), main)
<1> DEFINE q == Append(p, word)
           l == Append(m, main)
           L == Len(p)
<1>1. /\ L \in Nat /\ DOMAIN p = 1 .. L /\ DOMAIN m = 1 .. L
      /\ Len(q) = L + 1 /\ DOMAIN q = 1 .. L + 1 /\ DOMAIN l = 1 .. L + 1
      /\ q[L + 1] = word /\ l[L + 1] = main
      /\ \A i \in 1 .. L : q[i] = p[i] /\ l[i] = m[i]
  BY AppendIs
<1> HIDE DEF q, l, L
<1>2. /\ \A i \in 1 .. L + 1 : MainAt(l, main, i) <=> MainAt(m, main, i)
      /\ (MainAt(l, main, L + 1) <=> main = TRUE) /\ (MainAt(l, main, L + 2) <=> main = TRUE)
  BY <1>1 DEF MainAt
<1>3. ASSUME NEW i \in DOMAIN q
      PROVE  (MainAt(l, main, i + 1) <=> MainAt(l, main, i)) \/ Leaves(q[i])
  <2>1. CASE i = L + 1
    BY <1>1, <1>2, <2>1
  <2>2. CASE i \in 1 .. L
    BY <1>1, <1>2, <2>2 DEF Parted
  <2>3. QED
    BY <1>1, <2>1, <2>2
<1>4. ASSUME NEW i \in DOMAIN q, ToResume(q[i]) PROVE MainAt(l, main, i)
  <2>1. CASE i = L + 1
    <3>1. q[i] = word /\ (MainAt(l, main, i) <=> main = TRUE)
      BY <1>1, <1>2, <2>1
    <3>2. main = TRUE
      BY <1>4, <3>1
    <3>3. QED
      BY <3>1, <3>2
  <2>2. CASE i \in 1 .. L
    BY <1>1, <1>2, <1>4, <2>2 DEF Parted
  <2>3. QED
    BY <1>1, <2>1, <2>2
<1>5. ASSUME NEW i \in DOMAIN q, ResumeJump(q[i])
      PROVE  q[i][2] \in 0 .. Len(q) /\ MainAt(l, main, q[i][2] + 1)
  <2>1. i # L + 1
    BY <1>1, <1>5 DEF ResumeJump, ToResume
  <2>2. i \in 1 .. L /\ q[i] = p[i]
    BY <1>1, <2>1
  <2>3. p[i][2] \in 0 .. L /\ MainAt(m, main, p[i][2] + 1)
    BY <1>1, <1>5, <2>2 DEF Parted, L
  <2>4. QED
    BY <1>1, <1>2, <2>2, <2>3
<1>6. QED
  BY <1>3, <1>4, <1>5 DEF Parted, q, l

(* The place after the last word is one that can be jumped to. *)
LEMMA InRange == \A k \in Nat : k \in 0 .. k
OBVIOUS

(* Placeholders may be replaced, that of the jump to where main goes on    *)
(* when it does go on there.                                               *)
LEMMA PartedReplaced ==
  ASSUME NEW p, NEW m, NEW main, Parted(p, m, main), Len(p) \in Nat, NEW q,
         DOMAIN q = DOMAIN p, Len(q) = Len(p),
         \A i \in DOMAIN p :
           \/ q[i] = p[i]
           \/ p[i][1] = "placeholder" /\ ~ ToResume(p[i]) /\ ~ ToResume(q[i])
           \/ p[i] = <<"placeholder", JumpName(Resume)>> /\ q[i] = <<"jump to", Len(p), Resume>>
              /\ MainAt(m, main, Len(p) + 1)
  PROVE  Parted(q, m, main)
<1>0. Len(p) \in 0 .. Len(q)
  BY InRange, Zenon
<1>1. ASSUME NEW i \in DOMAIN p
      PROVE  /\ (MainAt(m, main, i + 1) <=> MainAt(m, main, i)) \/ Leaves(q[i])
             /\ ToResume(q[i]) => MainAt(m, main, i)
             /\ ResumeJump(q[i]) =>
                  q[i][2] \in 0 .. Len(q) /\ MainAt(m, main, q[i][2] + 1)
  <2>1. CASE q[i] = p[i]
    BY <2>1 DEF Parted
  <2>2. CASE p[i][1] = "placeholder" /\ ~ ToResume(p[i]) /\ ~ ToResume(q[i])
    BY <2>2 DEF Parted, Leaves, ToResume
  <2>3. CASE p[i] = <<"placeholder", JumpName(Resume)>> /\ q[i] = <<"jump to", Len(p), Resume>>
             /\ MainAt(m, main, Len(p) + 1)
    <3> DEFINE w == <<"jump to", Len(p), Resume>>
    <3>1. w[1] = "jump to" /\ w[2] = Len(p) /\ w[3] = Resume
      OBVIOUS
    <3> HIDE DEF w
    <3>2. q[i] = w
      BY <2>3 DEF w
    <3>3. ToResume(q[i]) /\ Leaves(q[i]) /\ q[i][2] = Len(p) /\ ToResume(p[i])
      BY <2>3, <3>1, <3>2 DEF ToResume, ResumeJump, Leaves
    <3>4. MainAt(m, main, i)
      BY <3>3 DEF Parted
    <3>5. \A x : x = Len(p) => x \in 0 .. Len(q) /\ MainAt(m, main, x + 1)
      <4>1. MainAt(m, main, Len(p) + 1)
        BY <2>3
      <4>2. QED
        BY <1>0, <4>1, Zenon
    <3>6. q[i][2] \in 0 .. Len(q) /\ MainAt(m, main, q[i][2] + 1)
      BY <3>3, <3>5
    <3>7. QED
      BY <3>3, <3>4, <3>6
  <2>4. QED
    BY <2>1, <2>2, <2>3
<1>2. QED
  BY <1>1 DEF Parted

(* A name that is not that of where main goes on *)
Closed(c) ==
  /\ c.compilingMain \in BOOLEAN /\ \A i \in DOMAIN c.mains : c.mains[i] \in BOOLEAN
  /\ Parted(c.program, c.mains, c.compilingMain)
  /\ NamesNoResume(c.dictionary)

(* compileToken, for a word that runs and does not resume main. *)
LEMMA PushClosed ==
  ASSUME NEW c, Sound(c), Closed(c), NEW word, ~ ToResume(word)
  PROVE  Closed(Push(c, word))
<1> DEFINE d == Push(c, word)
<1>1. /\ d.program = Append(c.program, word) /\ d.mains = Append(c.mains, c.compilingMain)
      /\ d.dictionary = c.dictionary /\ d.compilingMain = c.compilingMain
  BY PushFacts DEF Sound
<1> HIDE DEF d
<1>2. Parted(d.program, d.mains, d.compilingMain)
  BY <1>1, PartedPush DEF Sound, WellFormed, Closed
<1>3. \A i \in DOMAIN d.mains : d.mains[i] \in BOOLEAN
  <2>1. /\ DOMAIN d.mains = 1 .. Len(c.mains) + 1 /\ Len(c.mains) \in Nat
        /\ DOMAIN c.mains = 1 .. Len(c.mains)
        /\ d.mains[Len(c.mains) + 1] = c.compilingMain
        /\ \A i \in 1 .. Len(c.mains) : d.mains[i] = c.mains[i]
    BY <1>1, AppendIs DEF Sound, WellFormed
  <2>2. QED
    BY <2>1 DEF Closed
<1>4. QED
  BY <1>1, <1>2, <1>3 DEF Closed, d

(* compileToken, for a word that awaits its definition. *)
LEMMA PushPlaceholderClosed ==
  ASSUME NEW c, Sound(c), Closed(c), NEW name, name = JumpName(Resume) => c.compilingMain = TRUE
  PROVE  Closed(PushPlaceholder(c, name))
<1> DEFINE d == PushPlaceholder(c, name)
           word == <<"placeholder", name>>
<1>1. /\ d.program = Append(c.program, word) /\ d.mains = Append(c.mains, c.compilingMain)
      /\ d.dictionary = c.dictionary /\ d.compilingMain = c.compilingMain
  BY PushPlaceholderFacts DEF Sound
<1>w. word[1] = "placeholder" /\ (ToResume(word) => c.compilingMain = TRUE)
  <2>1. word[1] = "placeholder" /\ word[2] = name /\ <<"placeholder", JumpName(Resume)>>[2] = JumpName(Resume)
    OBVIOUS
  <2>2. QED
    BY <2>1 DEF ToResume, ResumeJump
<1> HIDE DEF d, word
<1>2. Parted(d.program, d.mains, d.compilingMain)
  BY <1>1, <1>w, PartedPush, ZenonT(40) DEF Sound, WellFormed, Closed
<1>3. \A i \in DOMAIN d.mains : d.mains[i] \in BOOLEAN
  <2>1. /\ DOMAIN d.mains = 1 .. Len(c.mains) + 1 /\ Len(c.mains) \in Nat
        /\ DOMAIN c.mains = 1 .. Len(c.mains)
        /\ d.mains[Len(c.mains) + 1] = c.compilingMain
        /\ \A i \in 1 .. Len(c.mains) : d.mains[i] = c.mains[i]
    BY <1>1, AppendIs DEF Sound, WellFormed
  <2>2. QED
    BY <2>1 DEF Closed
<1>4. QED
  BY <1>1, <1>2, <1>3 DEF Closed, d

(* A definition that has no place in the program. *)
LEMMA EnteredClosed ==
  ASSUME NEW c, Sound(c), Closed(c), NEW name, NEW word, NoResume(word)
  PROVE  Closed(Entered(c, name, word))
<1> DEFINE d == Entered(c, name, word)
<1>1. /\ d.program = c.program /\ d.mains = c.mains /\ d.compilingMain = c.compilingMain
      /\ d.dictionary = Assigned(c.dictionary, name, word)
  BY EnteredFacts DEF Sound
<1> HIDE DEF d
<1>2. NamesNoResume(d.dictionary)
  BY <1>1 DEF Closed, NamesNoResume, Assigned
<1>3. QED
  BY <1>1, <1>2 DEF Closed, d

(* The location of another name replaces no jump to where main goes on, and *)
(* by none.                                                                 *)
LEMMA ReplacedOther ==
  ASSUME NEW name, OtherName(name), NEW location, NEW w
  PROVE  LET new == Replaced(w, name, location)
         IN  new = w \/ (w[1] = "placeholder" /\ ~ ToResume(w) /\ ~ ToResume(new))
<1> DEFINE call == <<"call to", location, name>>
           jump == <<"jump to", location, name>>
           push == <<"push", location>>
<1>1. ~ ToResume(call) /\ ~ ToResume(jump) /\ ~ ToResume(push)
  <2>1. call[1] = "call to" /\ jump[1] = "jump to" /\ jump[3] = name /\ push[1] = "push"
    OBVIOUS
  <2>2. \A n : <<"placeholder", n>>[1] = "placeholder"
    OBVIOUS
  <2> HIDE DEF call, jump, push
  <2>3. QED
    BY <2>1, <2>2 DEF ToResume, ResumeJump, OtherName
<1>2. /\ \A n : <<"placeholder", n>>[1] = "placeholder"
      /\ \A n : <<"placeholder", n>>[2] = n
  OBVIOUS
<1>3. \A n \in Variants(name) : ~ ToResume(<<"placeholder", n>>)
  BY <1>2 DEF ToResume, ResumeJump, OtherName
<1>4. \/ Replaced(w, name, location) = w
      \/ (\E n \in Variants(name) : w = <<"placeholder", n>>)
         /\ Replaced(w, name, location) \in {call, jump, push}
  BY DEF Replaced, Variants
<1>5. QED
  BY <1>1, <1>2, <1>3, <1>4

(* The location of another name than that of where main goes on *)
LEMMA DefineLocationClosed ==
  ASSUME NEW c, Sound(c), Closed(c), NEW name, OtherName(name), NEW location
  PROVE  Closed(DefineLocation(c, name, location))
<1> DEFINE d == DefineLocation(c, name, location)
           call == <<"call to", location, name>>
           jump == <<"jump to", location, name>>
           push == <<"push", location>>
<1>1. /\ Len(d.program) = Len(c.program) /\ DOMAIN d.program = DOMAIN c.program
      /\ \A i \in DOMAIN c.program : d.program[i] = Replaced(c.program[i], name, location)
      /\ LocationEntered(c.dictionary, d.dictionary, name, location)
      /\ d.mains = c.mains /\ d.compilingMain = c.compilingMain
  BY DefineLocationFacts DEF Sound
<1>2. NoResume(call) /\ NoResume(jump) /\ NoResume(push)
  <2>1. call[1] = "call to" /\ jump[1] = "jump to" /\ jump[3] = name /\ push[1] = "push"
    OBVIOUS
  <2>2. \A n : <<"placeholder", n>>[1] = "placeholder" /\ <<"await", n>>[1] = "await"
    OBVIOUS
  <2> HIDE DEF call, jump, push
  <2>3. QED
    BY <2>1, <2>2 DEF NoResume, ToResume, ResumeJump, OtherName
<1> HIDE DEF d
<1>3. NamesNoResume(d.dictionary)
  BY <1>1, <1>2 DEF LocationEntered, NamesNoResume, Closed
<1>4. \A i \in DOMAIN c.program :
        \/ d.program[i] = c.program[i]
        \/ c.program[i][1] = "placeholder" /\ ~ ToResume(c.program[i]) /\ ~ ToResume(d.program[i])
  BY <1>1, ReplacedOther
<1>5. Len(c.program) \in Nat
  BY AppendIs DEF Sound, WellFormed
<1>6. Parted(d.program, c.mains, c.compilingMain)
  BY <1>1, <1>4, <1>5, PartedReplaced DEF Closed
<1>7. QED
  BY <1>1, <1>3, <1>6 DEF Closed, d

(* Compilation turns from main to a definition, or back. *)
LEMMA PartedTurned ==
  ASSUME NEW p, NEW m, NEW main, NEW turned, IsSequence(p), IsSequence(m), Len(m) = Len(p),
         Parted(p, m, main), Len(p) > 0, Leaves(p[Len(p)]),
         turned = TRUE \/ (/\ ~ ResumeJump(p[Len(p)]) \/ p[Len(p)][2] # Len(p)
                           /\ \A i \in DOMAIN p : ResumeJump(p[i]) => p[i][2] # Len(p))
  PROVE  Parted(p, m, turned)
<1>1. Len(p) \in Nat /\ DOMAIN p = 1 .. Len(p) /\ DOMAIN m = 1 .. Len(p)
  BY AppendIs
<1>2. \A i \in 1 .. Len(p) : MainAt(m, turned, i) <=> MainAt(m, main, i)
  BY <1>1 DEF MainAt
<1>3. ASSUME NEW i \in DOMAIN p
      PROVE  (MainAt(m, turned, i + 1) <=> MainAt(m, turned, i)) \/ Leaves(p[i])
  <2>1. CASE i = Len(p)
    BY <2>1
  <2>2. CASE i # Len(p)
    BY <1>1, <1>2, <2>2 DEF Parted
  <2>3. QED
    BY <2>1, <2>2
<1>4. \A i \in DOMAIN p : ToResume(p[i]) => MainAt(m, turned, i)
  BY <1>1, <1>2 DEF Parted
<1>5. ASSUME NEW i \in DOMAIN p, ResumeJump(p[i])
      PROVE  p[i][2] \in 0 .. Len(p) /\ MainAt(m, turned, p[i][2] + 1)
  <2>1. p[i][2] \in 0 .. Len(p) /\ MainAt(m, main, p[i][2] + 1)
    BY <1>5 DEF Parted
  <2>2. CASE p[i][2] = Len(p)
    <3>1. turned = TRUE
      BY <1>5, <2>2
    <3>2. p[i][2] + 1 \notin DOMAIN m
      BY <1>1, <2>2
    <3>3. QED
      BY <2>1, <3>1, <3>2 DEF MainAt
  <2>3. CASE p[i][2] # Len(p)
    BY <1>1, <1>2, <2>1, <2>3
  <2>4. QED
    BY <2>2, <2>3
<1>6. QED
  BY <1>3, <1>4, <1>5 DEF Parted

(* The word ":" jumps over the definition, when it is main that it interrupts. *)
LEMMA DefineClosed ==
  ASSUME NEW c, Sound(c), Closed(c), NEW name, OtherName(name)
  PROVE  Closed(Define(c, name))
<1> DEFINE jumped == IF c.compilingMain THEN PushPlaceholder(c, JumpName(Resume)) ELSE c
           d == DefineLocation(jumped, name, Len(jumped.program))
           e == Define(c, name)
<1>1. Sound(jumped) /\ Closed(jumped)
  BY PushPlaceholderSound, PushPlaceholderClosed
<1>2. e = [d EXCEPT !.compilingMain = FALSE]
  BY DEF Define
<1>3. c.compilingMain = TRUE \/ c.compilingMain = FALSE
  BY DEF Closed
<1>4. CASE c.compilingMain = FALSE
  <2>1. jumped = c
    BY <1>4
  <2> HIDE DEF jumped
  <2>2. Closed(d) /\ d.compilingMain = FALSE /\ DOMAIN d = CompilationFields
    BY <1>1, <1>4, <2>1, DefineLocationClosed, DefineLocationFacts DEF Sound, WellFormed
  <2> HIDE DEF d, e
  <2>3. /\ e.program = d.program /\ e.mains = d.mains /\ e.dictionary = d.dictionary
        /\ e.compilingMain = d.compilingMain
    BY <1>2, <2>2 DEF CompilationFields
  <2>4. QED
    BY <2>2, <2>3 DEF Closed, e
<1>5. CASE c.compilingMain = TRUE
  <2> DEFINE L == Len(c.program)
             w == <<"placeholder", JumpName(Resume)>>
  <2>1. jumped.program = Append(c.program, w) /\ jumped.compilingMain = TRUE
    <3>1. jumped = PushPlaceholder(c, JumpName(Resume))
      BY <1>5
    <3>2. QED
      BY <1>5, <3>1, PushPlaceholderFacts DEF Sound
  <2> HIDE DEF jumped, w
  <2>2. /\ L \in Nat /\ DOMAIN c.program = 1 .. L
        /\ Len(jumped.program) = L + 1 /\ DOMAIN jumped.program = 1 .. L + 1
        /\ jumped.program[L + 1] = w
        /\ \A i \in 1 .. L : jumped.program[i] = c.program[i]
    BY <2>1, AppendIs DEF Sound, WellFormed
  <2>3. Closed(d)
    BY <1>1, DefineLocationClosed
  <2>4. /\ Len(d.program) = L + 1 /\ DOMAIN d.program = 1 .. L + 1
        /\ \A i \in 1 .. L + 1 : d.program[i] = Replaced(jumped.program[i], name, L + 1)
        /\ d.mains = jumped.mains /\ WellFormed(d)
    BY <1>1, <2>2, DefineLocationFacts DEF Sound
  <2> HIDE DEF d, e, L
  <2>5. \A i \in 1 .. L + 1 : \/ d.program[i] = jumped.program[i]
                              \/ ~ ToResume(jumped.program[i]) /\ ~ ToResume(d.program[i])
    BY <2>4, ReplacedOther
  <2>6. ToResume(w) /\ ~ ResumeJump(w)
    <3>1. w[1] = "placeholder"
      BY DEF w
    <3>2. QED
      BY <3>1 DEF ToResume, ResumeJump, w
  <2>7. d.program[L + 1] = w /\ Leaves(w)
    BY <2>2, <2>5, <2>6 DEF Leaves
  <2>8. ASSUME NEW i \in 1 .. L + 1, ResumeJump(d.program[i]) PROVE d.program[i][2] # L + 1
    <3>1. ToResume(d.program[i])
      BY <2>8 DEF ToResume
    <3>2. i \in 1 .. L /\ d.program[i] = c.program[i]
      BY <2>2, <2>5, <2>6, <2>7, <2>8, <3>1
    <3>3. c.program[i][2] \in 0 .. L
      BY <2>2, <2>8, <3>2 DEF Closed, Parted, L
    <3>4. QED
      BY <2>2, <3>2, <3>3
  <2>9. Parted(d.program, d.mains, FALSE)
    <3>1. /\ Parted(d.program, d.mains, d.compilingMain)
          /\ IsSequence(d.program) /\ IsSequence(d.mains) /\ Len(d.mains) = Len(d.program)
      BY <2>3, <2>4 DEF Closed, WellFormed
    <3>2. Len(d.program) > 0 /\ Leaves(d.program[Len(d.program)])
      BY <2>2, <2>4, <2>7
    <3>3. /\ ~ ResumeJump(d.program[Len(d.program)])
          /\ \A i \in DOMAIN d.program : ResumeJump(d.program[i]) => d.program[i][2] # Len(d.program)
      BY <2>4, <2>6, <2>7, <2>8
    <3>4. QED
      BY <3>1, <3>2, <3>3, PartedTurned
  <2>10. /\ e.program = d.program /\ e.mains = d.mains /\ e.dictionary = d.dictionary
         /\ e.compilingMain = FALSE
    BY <1>2, <2>4 DEF CompilationFields, WellFormed
  <2>11. QED
    BY <2>3, <2>9, <2>10 DEF Closed, e
<1>6. QED
  BY <1>3, <1>4, <1>5

(* The word ";" leaves the definition; jumps over it lead to what comes next. *)
LEMMA EndDefinitionClosed ==
  ASSUME NEW c, Sound(c), Closed(c)
  PROVE  Closed(EndDefinition(c))
<1> DEFINE ended == Push(c, <<"exit">>)
           L == Len(ended.program)
           d == DefineLocation(ended, Resume, L)
           e == EndDefinition(c)
           w == <<"exit">>
<1>1. w[1] = "exit" /\ Instruction(w) /\ w[1] # "placeholder"
  BY DEF Instruction, Instructions
<1>2. ~ ToResume(w) /\ Leaves(w)
  <2>1. \A n : <<"placeholder", n>>[1] = "placeholder"
    OBVIOUS
  <2> HIDE DEF w
  <2>2. QED
    BY <1>1, <2>1 DEF ToResume, ResumeJump, Leaves
<1>3. Sound(ended) /\ Closed(ended) /\ ended.program = Append(c.program, w)
  BY <1>1, <1>2, PushSound, PushClosed, PushFacts DEF Sound
<1>4. e = [d EXCEPT !.compilingMain = TRUE]
  BY DEF EndDefinition
<1> HIDE DEF ended, w
<1>5. /\ L \in Nat /\ L > 0 /\ DOMAIN ended.program = 1 .. L /\ DOMAIN ended.mains = 1 .. L
      /\ Len(ended.mains) = L /\ ended.program[L] = w
  BY <1>3, AppendIs DEF Sound, WellFormed
<1>6. /\ Len(d.program) = L /\ DOMAIN d.program = 1 .. L
      /\ \A i \in 1 .. L : d.program[i] = Replaced(ended.program[i], Resume, L)
      /\ LocationEntered(ended.dictionary, d.dictionary, Resume, L)
      /\ d.mains = ended.mains /\ WellFormed(d)
  <2>1. /\ Len(d.program) = Len(ended.program) /\ DOMAIN d.program = DOMAIN ended.program
        /\ \A i \in DOMAIN ended.program : d.program[i] = Replaced(ended.program[i], Resume, L)
        /\ LocationEntered(ended.dictionary, d.dictionary, Resume, L)
        /\ d.mains = ended.mains /\ WellFormed(d)
    BY <1>3, DefineLocationFacts DEF Sound
  <2> HIDE DEF d, L
  <2>2. Len(d.program) = L
    BY <2>1 DEF L
  <2>3. QED
    BY <1>5, <2>1, <2>2
<1> HIDE DEF d, e
<1>7. Parted(ended.program, ended.mains, TRUE)
  <2>1. /\ Parted(ended.program, ended.mains, ended.compilingMain)
        /\ IsSequence(ended.program) /\ IsSequence(ended.mains)
        /\ Len(ended.mains) = Len(ended.program)
    BY <1>3 DEF Closed, Sound, WellFormed
  <2>2. Len(ended.program) > 0 /\ Leaves(ended.program[Len(ended.program)])
    BY <1>2, <1>5
  <2>3. QED
    BY <2>1, <2>2, PartedTurned
<1>8. /\ \A n : <<"placeholder", n>>[1] = "placeholder" /\ <<"placeholder", n>>[2] = n
      /\ \A n : <<"await", n>>[1] = "await"
  OBVIOUS
<1>9. /\ NoResume(<<"call to", L, Resume>>) /\ NoResume(<<"push", L>>)
  <2>1. <<"call to", L, Resume>>[1] = "call to" /\ <<"push", L>>[1] = "push"
    OBVIOUS
  <2> DEFINE call == <<"call to", L, Resume>>
             push == <<"push", L>>
  <2>2. call[1] = "call to" /\ push[1] = "push"
    BY <2>1
  <2> HIDE DEF call, push
  <2>3. NoResume(call) /\ NoResume(push)
    BY <1>8, <2>2 DEF NoResume, ToResume, ResumeJump
  <2>4. QED
    BY <2>3 DEF call, push
<1>10. ASSUME NEW i \in 1 .. L
       PROVE  \/ d.program[i] = ended.program[i]
              \/ /\ ended.program[i][1] = "placeholder" /\ ~ ToResume(ended.program[i])
                 /\ ~ ToResume(d.program[i])
              \/ /\ ended.program[i] = <<"placeholder", JumpName(Resume)>>
                 /\ d.program[i] = <<"jump to", L, Resume>>
  <2> DEFINE v == ended.program[i]
  <2>1. d.program[i] = Replaced(v, Resume, L)
    BY <1>6
  <2> HIDE DEF v
  <2>2. CASE v = <<"placeholder", JumpName(Resume)>>
    <3>1. /\ <<"placeholder", JumpName(Resume)>> # <<"placeholder", Resume>>
      BY ResumeAssumption
    <3>2. Replaced(v, Resume, L) = <<"jump to", L, Resume>>
      BY <2>2, <3>1 DEF Replaced
    <3>3. QED
      BY <2>1, <2>2, <3>2 DEF v
  <2>3. CASE v # <<"placeholder", JumpName(Resume)>>
    <3>1. \/ Replaced(v, Resume, L) = v
          \/ /\ v \in {<<"placeholder", Resume>>, <<"placeholder", LocationName(Resume)>>}
             /\ Replaced(v, Resume, L) \in {<<"call to", L, Resume>>, <<"push", L>>}
      BY <2>3 DEF Replaced
    <3>2. v \in {<<"placeholder", Resume>>, <<"placeholder", LocationName(Resume)>>} =>
            v[1] = "placeholder" /\ ~ ToResume(v)
      <4>1. \A n \in {Resume, LocationName(Resume)} : ~ ToResume(<<"placeholder", n>>)
        BY <1>8, ResumeAssumption DEF ToResume, ResumeJump
      <4>2. QED
        BY <1>8, <4>1
    <3>3. QED
      BY <1>9, <2>1, <3>1, <3>2 DEF v, NoResume
  <2>4. QED
    BY <2>2, <2>3
<1>11. NamesNoResume(d.dictionary)
  BY <1>3, <1>6, <1>9 DEF LocationEntered, NamesNoResume, Closed
<1>12. Parted(d.program, ended.mains, TRUE)
  <2>1. MainAt(ended.mains, TRUE, L + 1)
    BY <1>5 DEF MainAt
  <2>2. \A i \in DOMAIN ended.program :
           \/ d.program[i] = ended.program[i]
           \/ /\ ended.program[i][1] = "placeholder" /\ ~ ToResume(ended.program[i])
              /\ ~ ToResume(d.program[i])
           \/ /\ ended.program[i] = <<"placeholder", JumpName(Resume)>>
              /\ d.program[i] = <<"jump to", Len(ended.program), Resume>>
              /\ MainAt(ended.mains, TRUE, Len(ended.program) + 1)
    BY <1>5, <1>10, <2>1
  <2>3. Len(ended.program) \in Nat /\ DOMAIN d.program = DOMAIN ended.program
        /\ Len(d.program) = Len(ended.program)
    BY <1>5, <1>6
  <2>4. QED
    BY <1>7, <2>2, <2>3, PartedReplaced
<1>13. /\ e.program = d.program /\ e.mains = d.mains /\ e.dictionary = d.dictionary
       /\ e.compilingMain = TRUE
  BY <1>4, <1>6 DEF CompilationFields, WellFormed
<1>14. QED
  BY <1>3, <1>6, <1>11, <1>12, <1>13 DEF Closed, e

(* The word "code-label:". *)
LEMMA DeclareClosed ==
  ASSUME NEW c, Sound(c), Closed(c), NEW name, OtherName(name)
  PROVE  Closed(Declare(c, name))
<1> DEFINE Await(d, n) == Entered(d, n, <<"await", n>>)
           c1 == Await(c, name)
           c2 == Await(c1, JumpName(name))
           c3 == Await(c2, LocationName(name))
<1>1. \A n : Compilable(<<"await", n>>)
  BY DEF Compilable
<1>2. \A n : n # JumpName(Resume) => NoResume(<<"await", n>>)
  <2>1. /\ \A n : <<"await", n>>[1] = "await" /\ <<"await", n>>[2] = n
        /\ \A n : <<"placeholder", n>>[1] = "placeholder"
    OBVIOUS
  <2>2. QED
    BY <2>1 DEF NoResume, ToResume, ResumeJump
<1>3. Declare(c, name) = c3
  BY DEF Declare
<1>4. /\ name # JumpName(Resume) /\ JumpName(name) # JumpName(Resume)
      /\ LocationName(name) # JumpName(Resume)
  BY DEF OtherName, Variants
<1>5. Sound(c1) /\ Closed(c1)
  BY <1>1, <1>2, <1>4, EnteredSound, EnteredClosed
<1> HIDE DEF c1
<1>6. Sound(c2) /\ Closed(c2)
  BY <1>1, <1>2, <1>4, <1>5, EnteredSound, EnteredClosed
<1> HIDE DEF c2
<1>7. Closed(c3)
  BY <1>2, <1>4, <1>6, EnteredClosed
<1>8. QED
  BY <1>3, <1>7

(* The word "context-variable:". *)
LEMMA DeclareVariableClosed ==
  ASSUME NEW c, Sound(c), Closed(c), NEW name
  PROVE  Closed(DeclareVariable(c, name))
<1> DEFINE d == Entered(c, name, <<"value">>)
           e == Entered(d, LocationName(name), <<"variable">>)
<1>1. Compilable(<<"value">>)
  BY DEF Compilable, Instruction, Instructions, StackWords
<1>2. NoResume(<<"value">>) /\ NoResume(<<"variable">>)
  <2>1. /\ <<"value">>[1] = "value" /\ <<"variable">>[1] = "variable"
        /\ \A n : <<"placeholder", n>>[1] = "placeholder" /\ <<"await", n>>[1] = "await"
    OBVIOUS
  <2>2. QED
    BY <2>1 DEF NoResume, ToResume, ResumeJump
<1>3. DeclareVariable(c, name) = e
  BY DEF DeclareVariable
<1>4. Sound(d) /\ Closed(d)
  BY <1>1, <1>2, EnteredSound, EnteredClosed
<1> HIDE DEF d
<1>5. Closed(e)
  BY <1>2, <1>4, EnteredClosed
<1>6. QED
  BY <1>3, <1>5

(* No name but that of the jump itself leads to where main goes on. *)
LEMMA GetWordNoResume ==
  ASSUME NEW c, Closed(c), NEW name, name # JumpName(Resume)
  PROVE  GetWord(c, name) = <<>> \/ NoResume(GetWord(c, name))
<1>1. /\ \A n : <<"placeholder", n>>[1] = "placeholder" /\ <<"await", n>>[1] = "await"
      /\ \A n : <<n>>[1] = n
      /\ \A n : <<"push", n>>[1] = "push"
  OBVIOUS
<1>2. CASE name \in DOMAIN c.dictionary
  BY <1>2 DEF GetWord, Closed, NamesNoResume
<1>3. CASE name \notin DOMAIN c.dictionary /\ name \in RuntimeWords \cup CompilationWords
  <2>1. GetWord(c, name) = <<name>>
    BY <1>3 DEF GetWord
  <2>2. name \notin {"placeholder", "await", "jump to"}
    BY <1>3 DEF RuntimeWords, CompilationWords, DefiningWords, Binary, Arithmetic, Comparison
  <2>3. \A w : w[1] \notin {"placeholder", "await", "jump to"} => NoResume(w)
    BY <1>1 DEF NoResume, ToResume, ResumeJump
  <2>4. QED
    BY <1>1, <2>1, <2>2, <2>3
<1>4. CASE name \notin DOMAIN c.dictionary \cup RuntimeWords \cup CompilationWords /\ name \in DOMAIN Numbers
  <2>1. GetWord(c, name) = <<"push", Numbers[name]>>
    BY <1>4 DEF GetWord
  <2>2. \A w : w[1] = "push" => NoResume(w)
    BY <1>1 DEF NoResume, ToResume, ResumeJump
  <2>3. QED
    BY <1>1, <2>1, <2>2
<1>5. CASE name \notin DOMAIN c.dictionary \cup RuntimeWords \cup CompilationWords \cup DOMAIN Numbers
  BY <1>5 DEF GetWord
<1>6. QED
  BY <1>2, <1>3, <1>4, <1>5

(* Fields that are not those of the program *)
LEMMA AllButCodeClosed ==
  ASSUME NEW c, Closed(c), NEW d, d.program = c.program, d.mains = c.mains,
         d.dictionary = c.dictionary, d.compilingMain = c.compilingMain
  PROVE  Closed(d)
BY DEF Closed

(* A compilation that fails leaves the program as it is. *)
LEMMA FailedClosed ==
  ASSUME NEW c, Sound(c), Closed(c)
  PROVE  Closed(Failed(c))
<1>1. /\ Failed(c).program = c.program /\ Failed(c).mains = c.mains
      /\ Failed(c).dictionary = c.dictionary /\ Failed(c).compilingMain = c.compilingMain
  BY DEF Failed, Sound, WellFormed, CompilationFields
<1>2. QED
  BY <1>1, AllButCodeClosed

(* So does a word that starts to wait for a name. *)
LEMMA OnTokenClosed ==
  ASSUME NEW c, Sound(c), Closed(c), NEW x
  PROVE  Closed([c EXCEPT !.onToken = x])
<1> DEFINE d == [c EXCEPT !.onToken = x]
<1>1. /\ d.program = c.program /\ d.mains = c.mains
      /\ d.dictionary = c.dictionary /\ d.compilingMain = c.compilingMain
  BY DEF Sound, WellFormed, CompilationFields
<1> HIDE DEF d
<1>2. Closed(d)
  BY <1>1, AllButCodeClosed
<1>3. QED
  BY <1>2 DEF d

(* A word that waits for a name gets it. *)
LEMMA GotNameClosed ==
  ASSUME NEW c, Sound(c), Closed(c), NEW name, OtherName(name)
  PROVE  Closed(GotName(c, name))
<1> DEFINE here == [c EXCEPT !.onToken = <<>>]
           word == GetWord(c, name)
<1>1. Sound(here) /\ Closed(here) /\ Closed(Failed(c))
  BY OnTokenSound, OnTokenClosed, FailedClosed
<1>2. word = <<>> \/ NoResume(word)
  BY GetWordNoResume DEF OtherName, Variants
<1>3. \/ GotName(c, name) \in {Define(here, name), Declare(here, name), DeclareVariable(here, "v"),
                               Failed(c), [c EXCEPT !.onToken = Append(@, name)]}
      \/ word # <<>> /\ GotName(c, name) = Entered(here, c.onToken[2], word)
  BY DEF GotName
<1>4. \A x : Closed([c EXCEPT !.onToken = x])
  BY OnTokenClosed
<1> HIDE DEF here, word
<1>5. /\ Closed(Define(here, name)) /\ Closed(Declare(here, name))
      /\ Closed(DeclareVariable(here, "v"))
  BY <1>1, DefineClosed, DeclareClosed, DeclareVariableClosed
<1>6. CASE word # <<>> /\ GotName(c, name) = Entered(here, c.onToken[2], word)
  <2>1. Closed(Entered(here, c.onToken[2], word))
    BY <1>1, <1>2, <1>6, EnteredClosed
  <2>2. QED
    BY <1>6, <2>1
<1>7. CASE GotName(c, name) \in {Define(here, name), Declare(here, name), DeclareVariable(here, "v"), Failed(c)}
  BY <1>1, <1>5, <1>7
<1>8. CASE GotName(c, name) = [c EXCEPT !.onToken = Append(@, name)]
  BY <1>4, <1>8
<1>9. QED
  BY <1>3, <1>6, <1>7, <1>8

(* compileToken, once the word is found. *)
LEMMA CompileWordClosed ==
  ASSUME NEW c, Sound(c), Closed(c), NEW word, word = <<>> \/ (Compilable(word) /\ NoResume(word))
  PROVE  Closed(CompileWord(c, word))
<1>0. <<";">>[1] = ";"
  OBVIOUS
<1>1. CASE word = <<>>
  <2>1. <<>> # <<";">>
    OBVIOUS
  <2>2. CompileWord(c, word) = Failed(c)
    BY <1>1, <2>1 DEF CompileWord
  <2>3. QED
    BY <2>2, FailedClosed
<1>2. CASE word # <<>> /\ word[1] \in DefiningWords
  <2>1. word # <<";">>
    BY <1>0, <1>2 DEF DefiningWords
  <2>2. CompileWord(c, word) = [c EXCEPT !.onToken = word]
    BY <1>2, <2>1 DEF CompileWord, DefiningWords
  <2>3. QED
    BY <2>2, OnTokenClosed
<1>3. CASE word = <<";">>
  <2>1. CompileWord(c, word) \in {Failed(c), EndDefinition(c)}
    BY <1>0, <1>3 DEF CompileWord, DefiningWords
  <2>2. QED
    BY <2>1, FailedClosed, EndDefinitionClosed
<1>4. CASE word # <<>> /\ word[1] = "await"
  <2>1. CompileWord(c, word) = PushPlaceholder(c, word[2])
    BY <1>0, <1>4 DEF CompileWord, DefiningWords
  <2>2. word[2] # JumpName(Resume)
    BY <1>4 DEF NoResume
  <2>3. QED
    BY <2>1, <2>2, PushPlaceholderClosed
<1>5. CASE word # <<>> /\ word[1] \notin DefiningWords \cup {"await"} /\ word # <<";">>
  <2>1. CompileWord(c, word) = Push(c, word)
    BY <1>5 DEF CompileWord
  <2>2. ~ ToResume(word)
    BY <1>5 DEF NoResume
  <2>3. QED
    BY <2>1, <2>2, PushClosed
<1>6. QED
  BY <1>1, <1>2, <1>3, <1>4, <1>5

(* One token. *)
LEMMA CompileTokenClosed ==
  ASSUME NEW c, Sound(c), Closed(c), NEW token, OtherName(Name(token))
  PROVE  Closed(CompileToken(c, token))
<1> DEFINE word == GetWord(c, Name(token))
<1>1. CompileToken(c, token) \in {c, Failed(c), GotName(c, Name(token)), Push(c, <<"text">>),
                                 CompileWord(c, word)}
  BY DEF CompileToken
<1>2. word = <<>> \/ (Compilable(word) /\ NoResume(word))
  BY GetWordIs, GetWordNoResume DEF OtherName, Variants
<1> HIDE DEF word
<1>3. ~ ToResume(<<"text">>)
  <2>1. /\ <<"text">>[1] = "text" /\ \A n : <<"placeholder", n>>[1] = "placeholder"
    OBVIOUS
  <2>2. QED
    BY <2>1 DEF ToResume, ResumeJump
<1>4. /\ Closed(Failed(c)) /\ Closed(GotName(c, Name(token))) /\ Closed(Push(c, <<"text">>))
      /\ Closed(CompileWord(c, word))
  BY <1>2, <1>3, FailedClosed, GotNameClosed, PushClosed, CompileWordClosed
<1>5. QED
  BY <1>1, <1>4

(* The tokens of a character: main and definitions stay apart. *)
LEMMA CompileTokensClosed ==
  ASSUME NEW c, Sound(c), Closed(c), NEW given,
         Len(given) >= 1 => OtherName(Name(given[1])), Len(given) >= 2 => OtherName(Name(given[2]))
  PROVE  Closed(CompileTokens(c, given))
<1> DEFINE first == IF Len(given) >= 1 THEN CompileToken(c, given[1]) ELSE c
<1>1. Sound(first) /\ Closed(first)
  BY CompileTokenSound, CompileTokenClosed
<1>2. CompileTokens(c, given) = IF Len(given) >= 2 THEN CompileToken(first, given[2]) ELSE first
  BY DEF CompileTokens
<1> HIDE DEF first
<1>3. Len(given) >= 2 => Closed(CompileToken(first, given[2]))
  BY <1>1, CompileTokenClosed
<1>4. QED
  BY <1>1, <1>2, <1>3

-----------------------------------------------------------------------------
(* What programs run on *)
Objects == Seq([frozen : BOOLEAN, is : Val])
Runs ==
  [ip : Val, dataStack : Seq(Val), returnStack : Seq(Val), fuel : Int, failed : BOOLEAN,
   objects : Objects, values : Nat, transform : Nat,
   contextStack : Seq([values : Nat, transform : Nat])]

(* Object o of r is there, and not changed any more. *)
IsFrozen(r, o) == o \in DOMAIN r.objects /\ r.objects[o].frozen

(* What is saved is frozen. *)
Consistent(r) ==
  /\ r.values \in DOMAIN r.objects /\ r.transform \in DOMAIN r.objects
  /\ \A i \in DOMAIN r.contextStack :
       IsFrozen(r, r.contextStack[i].values) /\ IsFrozen(r, r.contextStack[i].transform)

(* What was frozen is as it was. *)
Keeps(r, q) ==
  \A o \in DOMAIN r.objects : IsFrozen(r, o) => IsFrozen(q, o) /\ q.objects[o].is = r.objects[o].is

(* What a sequence has is of its kind. *)
LEMMA Elements ==
  ASSUME NEW S, NEW s \in Seq(S), NEW i \in DOMAIN s
  PROVE  s[i] \in S
OBVIOUS

(* What is on top of a stack; undefined when nothing is. *)
LEMMA TopIs ==
  ASSUME NEW S, NEW s \in Seq(S)
  PROVE  /\ s = <<>> \/ Top(s) \in S
         /\ Top(s) \in S \cup {Undefined}
<1>1. s # <<>> => Len(s) \in DOMAIN s
  OBVIOUS
<1>2. QED
  BY <1>1 DEF Top

(* A stack without its top; an empty one stays so. *)
LEMMA PopIs ==
  ASSUME NEW S, NEW s \in Seq(S)
  PROVE  /\ Pop(s) \in Seq(S)
         /\ DOMAIN Pop(s) \subseteq DOMAIN s
         /\ \A i \in DOMAIN Pop(s) : Pop(s)[i] = s[i]
<1>1. CASE s = <<>>
  <2>1. Pop(s) = <<>>
    BY <1>1 DEF Pop
  <2>2. QED
    BY <1>1, <2>1
<1>2. CASE s # <<>>
  <2>1. Len(s) - 1 \in Nat /\ Len(s) - 1 <= Len(s)
    BY <1>2
  <2>2. QED
    BY <2>1 DEF Pop
<1>3. QED
  BY <1>1, <1>2

(* Arithmetic gives values. *)
LEMMA ResultIs ==
  ASSUME NEW op \in Binary, NEW a \in Val, NEW b \in Val
  PROVE  Result(op, a, b) \in Val
<1>1. \A p : Truth(p) \in Val
  BY DEF Truth, Val
<1>2. CASE op \in Arithmetic
  <2>1. CASE IsNumber(a) /\ IsNumber(b)
    <3>1. a \in Int /\ b \in Int
      BY <2>1 DEF IsNumber, Val
    <3>2. a + b \in Val /\ a - b \in Val /\ a * b \in Val
      BY <3>1 DEF Val
    <3>3. Result(op, a, b) \in {a + b, a - b, a * b}
      BY <1>2, <2>1 DEF Result, Calculated, Arithmetic
    <3>4. QED
      BY <3>2, <3>3
  <2>2. CASE ~ (IsNumber(a) /\ IsNumber(b))
    BY <1>2, <2>2 DEF Result, Calculated, Val
  <2>3. QED
    BY <2>1, <2>2
<1>3. CASE op \notin Arithmetic
  BY <1>1, <1>3 DEF Result, Compared
<1>4. QED
  BY <1>2, <1>3

(* Words that work on the data stack leave values there. *)
LEMMA OnStackIs ==
  ASSUME NEW word, Instruction(word), word[1] \in StackWords, NEW s \in Seq(Val)
  PROVE  OnStack(word, s) \in Seq(Val)
<1> DEFINE t == Pop(s)
<1>1. t \in Seq(Val) /\ Pop(t) \in Seq(Val) /\ Top(s) \in Val /\ Top(t) \in Val
  BY PopIs, TopIs DEF Val
<1>2. \A q \in Seq(Val), x \in Val : Append(q, x) \in Seq(Val)
  OBVIOUS
<1> HIDE DEF t
<1>3. CASE word[1] = "push"
  <2>1. word[2] \in Val
    BY <1>3 DEF Instruction, Val
  <2>2. OnStack(word, s) = Append(s, word[2])
    BY <1>3 DEF OnStack, Binary, Arithmetic, Comparison
  <2>3. QED
    BY <1>2, <2>1, <2>2
<1>4. CASE word[1] \in {"text", "variable"}
  <2>1. OnStack(word, s) \in {Append(s, Text), Append(s, Variable)}
    BY <1>4 DEF OnStack, Binary, Arithmetic, Comparison
  <2>2. QED
    BY <1>2, <2>1 DEF Val
<1>5. CASE word[1] \in Binary
  <2>1. OnStack(word, s) = Append(Pop(t), Result(word[1], Top(t), Top(s)))
    BY <1>5 DEF OnStack, Binary, Arithmetic, Comparison, t
  <2>2. QED
    BY <1>1, <1>2, <1>5, <2>1, ResultIs
<1>6. CASE word[1] = "dup"
  <2>1. OnStack(word, s) = Append(Append(t, Top(s)), Top(s))
    BY <1>6 DEF OnStack, Binary, Arithmetic, Comparison, t
  <2>2. QED
    BY <1>1, <1>2, <2>1
<1>7. CASE word[1] = "drop"
  <2>1. OnStack(word, s) = t
    BY <1>7 DEF OnStack, Binary, Arithmetic, Comparison, t
  <2>2. QED
    BY <1>1, <2>1
<1>8. CASE word[1] = "swap"
  <2>1. OnStack(word, s) = Append(Append(Pop(t), Top(s)), Top(t))
    BY <1>8 DEF OnStack, Binary, Arithmetic, Comparison, t
  <2>2. QED
    BY <1>1, <1>2, <2>1
<1>9. CASE word[1] = "pick"
  <2> DEFINE i == Len(t) - Top(s)
             x == IF IsNumber(Top(s)) /\ i \in DOMAIN t THEN t[i] ELSE Undefined
  <2>1. OnStack(word, s) = Append(t, x)
    BY <1>9 DEF OnStack, Binary, Arithmetic, Comparison, t
  <2>2. \A k \in DOMAIN t : t[k] \in Val
    BY <1>1
  <2>3. x \in Val
    BY <2>2 DEF Val
  <2> HIDE DEF x
  <2>4. QED
    BY <1>1, <1>2, <2>1, <2>3
<1>10. QED
  BY <1>3, <1>4, <1>5, <1>6, <1>7, <1>8, <1>9 DEF StackWords

(* A word that works on the stacks, or goes elsewhere *)
SameContext(r, d) ==
  /\ d.objects = r.objects /\ d.values = r.values /\ d.transform = r.transform
  /\ d.contextStack = r.contextStack /\ d.fuel = r.fuel

(* What leaves the context alone keeps what is saved. *)
LEMMA SameContextKeeps ==
  ASSUME NEW r, Consistent(r), NEW d, SameContext(r, d)
  PROVE  Consistent(d) /\ Keeps(r, d)
BY DEF SameContext, Consistent, Keeps, IsFrozen

(* A run goes elsewhere. *)
LEMMA JumpIs ==
  ASSUME NEW r \in Runs, NEW x \in Val
  PROVE  [r EXCEPT !.ip = x] \in Runs /\ SameContext(r, [r EXCEPT !.ip = x])
BY DEF Runs, SameContext

(* Its data stack changes. *)
LEMMA DataIs ==
  ASSUME NEW r \in Runs, NEW s \in Seq(Val)
  PROVE  /\ [r EXCEPT !.dataStack = s] \in Runs /\ SameContext(r, [r EXCEPT !.dataStack = s])
         /\ [r EXCEPT !.dataStack = s].ip = r.ip
         /\ [r EXCEPT !.dataStack = s].returnStack = r.returnStack
         /\ [r EXCEPT !.dataStack = s].dataStack = s
<1>1. [r EXCEPT !.dataStack = s] \in Runs
  BY DEF Runs
<1>2. QED
  BY <1>1 DEF Runs, SameContext

(* It fails. *)
LEMMA FailedIs ==
  ASSUME NEW r \in Runs
  PROVE  /\ [r EXCEPT !.failed = TRUE] \in Runs /\ SameContext(r, [r EXCEPT !.failed = TRUE])
         /\ [r EXCEPT !.failed = TRUE].failed /\ [r EXCEPT !.failed = TRUE].ip = r.ip
BY DEF Runs, SameContext

(* It returns. *)
LEMMA ReturnGoes ==
  ASSUME NEW r \in Runs, NEW x \in Val, NEW q \in Seq(Val), NEW d,
         d = [r EXCEPT !.ip = x, !.returnStack = q]
  PROVE  d \in Runs /\ SameContext(r, d)
<1>1. d \in Runs
  BY DEF Runs
<1>2. QED
  BY <1>1 DEF Runs, SameContext

(* It calls. *)
LEMMA CallGoes ==
  ASSUME NEW r \in Runs, NEW x \in Val, NEW q \in Seq(Val), NEW d,
         d = [r EXCEPT !.returnStack = q, !.ip = x]
  PROVE  d \in Runs /\ SameContext(r, d)
<1>1. d \in Runs
  BY DEF Runs
<1>2. QED
  BY <1>1 DEF Runs, SameContext

(* It moves a value between its stacks. *)
LEMMA DataReturnIs ==
  ASSUME NEW r \in Runs, NEW s \in Seq(Val), NEW q \in Seq(Val)
  PROVE  /\ [r EXCEPT !.dataStack = s, !.returnStack = q] \in Runs
         /\ SameContext(r, [r EXCEPT !.dataStack = s, !.returnStack = q])
         /\ [r EXCEPT !.dataStack = s, !.returnStack = q].ip = r.ip
<1>1. [r EXCEPT !.dataStack = s, !.returnStack = q] \in Runs
  BY DEF Runs
<1>2. QED
  BY <1>1 DEF Runs, SameContext

Controls == {"call to", "jump to", "exit", "jump", "call", "jump-if-zero", "jump-if-nonzero"}

(* A word that did its work *)
Went(word, r, d) ==
  /\ d \in Runs /\ Consistent(d) /\ Keeps(r, d) /\ d.fuel = r.fuel
  /\ word[1] = "jump to" => d.ip = word[2]
  /\ word[1] = "placeholder" => d.failed
  /\ word[1] \notin Controls => d.ip = r.ip

(* Context values and transform are values. *)
LEMMA IsValue ==
  ASSUME NEW r \in Runs, Consistent(r)
  PROVE  Is(r, "values") \in Val /\ Is(r, "transform") \in Val
<1>1. /\ r.objects \in Seq([frozen : BOOLEAN, is : Val])
      /\ r.values \in DOMAIN r.objects /\ r.transform \in DOMAIN r.objects
  BY DEF Runs, Objects, Consistent
<1>2. \A o \in DOMAIN r.objects : r.objects[o] \in [frozen : BOOLEAN, is : Val]
  BY <1>1, Elements, Zenon
<1>3. \A o \in DOMAIN r.objects : r.objects[o].is \in Val
  BY <1>2
<1>4. r["values"] \in DOMAIN r.objects /\ r["transform"] \in DOMAIN r.objects
  BY <1>1
<1>5. QED
  BY <1>3, <1>4 DEF Is

(* Words that go elsewhere. *)
LEMMA JumpWordGoes ==
  ASSUME NEW word, Instruction(word), word[1] \in Controls, NEW r \in Runs, Consistent(r)
  PROVE  Went(word, r, OnContext(word, r))
<1> DEFINE s == r.dataStack
           d == OnContext(word, r)
           popped  == [r EXCEPT !.dataStack = Pop(s)]
           popped2 == [r EXCEPT !.dataStack = Pop(Pop(s))]
<1>1. s \in Seq(Val) /\ r.returnStack \in Seq(Val) /\ r.ip \in Val
  BY DEF Runs
<1>2. /\ Pop(s) \in Seq(Val) /\ Pop(Pop(s)) \in Seq(Val) /\ Pop(r.returnStack) \in Seq(Val)
      /\ Top(s) \in Val /\ Top(r.returnStack) \in Val
  BY <1>1, PopIs, TopIs DEF Val
<1>3. Append(r.returnStack, r.ip) \in Seq(Val)
  BY <1>1
<1>4. /\ popped \in Runs /\ SameContext(r, popped) /\ popped.ip = r.ip
      /\ popped2 \in Runs /\ SameContext(r, popped2) /\ popped2.ip = r.ip
      /\ popped.returnStack = r.returnStack
  BY <1>1, <1>2, DataIs
<1>5. \A e, f : SameContext(r, e) /\ SameContext(e, f) => SameContext(r, f)
  BY DEF SameContext
<1>6. d \in Runs /\ SameContext(r, d) /\ (word[1] = "jump to" => d.ip = word[2])
  <2>1. CASE word[1] = "call to"
    <3>1. word[2] \in Val
      BY <2>1 DEF Instruction, Val
    <3>2. d = [r EXCEPT !.returnStack = Append(r.returnStack, r.ip), !.ip = word[2]]
      BY <2>1 DEF OnContext
    <3>3. d \in Runs /\ SameContext(r, d)
      BY <1>3, <3>1, <3>2, CallGoes
    <3>4. QED
      BY <2>1, <3>3
  <2>2. CASE word[1] = "jump to"
    <3>1. word[2] \in Val
      BY <2>2 DEF Instruction, Val
    <3>2. d = [r EXCEPT !.ip = word[2]]
      BY <2>2 DEF OnContext
    <3>3. d.ip = word[2]
      BY <3>2 DEF Runs
    <3>4. d \in Runs /\ SameContext(r, d)
      BY <3>1, <3>2, JumpIs, Zenon
    <3>5. QED
      BY <3>3, <3>4
  <2>3. CASE word[1] = "exit"
    <3> DEFINE x == IF Top(r.returnStack) = Undefined THEN -1 ELSE Top(r.returnStack)
    <3>1. x \in Val
      BY <1>2 DEF Val
    <3>2. d = [r EXCEPT !.ip = x, !.returnStack = Pop(r.returnStack)]
      BY <2>3 DEF OnContext
    <3> HIDE DEF x
    <3>3. d \in Runs /\ SameContext(r, d)
      BY <1>2, <3>1, <3>2, ReturnGoes
    <3>4. QED
      BY <2>3, <3>3
  <2>4. CASE word[1] = "jump"
    <3>1. d = [popped EXCEPT !.ip = Top(s)]
      BY <2>4 DEF OnContext
    <3> HIDE DEF popped, s
    <3>2. d \in Runs /\ SameContext(popped, d)
      BY <1>1, <1>2, <1>4, <3>1, JumpIs, Zenon
    <3>3. QED
      BY <1>4, <1>5, <2>4, <3>2
  <2>5. CASE word[1] = "call"
    <3>1. d = [popped EXCEPT !.ip = Top(s), !.returnStack = Append(popped.returnStack, r.ip)]
      BY <2>5 DEF OnContext
    <3> HIDE DEF popped, s
    <3>2. d \in Runs /\ SameContext(popped, d)
      BY <1>2, <1>3, <1>4, <3>1, ReturnGoes
    <3>3. QED
      BY <1>4, <1>5, <2>5, <3>2
  <2>6. CASE word[1] \in {"jump-if-zero", "jump-if-nonzero"}
    <3>1. d \in {[popped2 EXCEPT !.ip = Top(s)], [popped2 EXCEPT !.ip = popped2.ip]}
      BY <2>6 DEF OnContext
    <3> HIDE DEF popped2, s
    <3>2. \A x \in Val : /\ [popped2 EXCEPT !.ip = x] \in Runs
                          /\ SameContext(popped2, [popped2 EXCEPT !.ip = x])
      BY <1>4, JumpIs, Zenon
    <3>3. popped2.ip \in Val
      BY <1>1, <1>4
    <3>4. d \in Runs /\ SameContext(popped2, d)
      BY <1>2, <3>1, <3>2, <3>3, Zenon
    <3>5. QED
      BY <1>4, <1>5, <2>6, <3>4
  <2>7. QED
    BY <2>1, <2>2, <2>3, <2>4, <2>5, <2>6 DEF Controls
<1>7. word[1] # "placeholder"
  BY DEF Controls
<1> HIDE DEF d
<1>8. d.fuel = r.fuel
  BY <1>6 DEF SameContext
<1>9. Went(word, r, d)
  BY <1>6, <1>7, <1>8, SameContextKeeps DEF Went
<1>10. QED
  BY <1>9 DEF d

(* Objects change *)
Object == [frozen : BOOLEAN, is : Val]

(* A copy is made of an object: the others stay. *)
LEMMA NewObject ==
  ASSUME NEW os \in Objects, NEW y \in Object
  PROVE  /\ Append(os, y) \in Objects
         /\ Len(Append(os, y)) = Len(os) + 1
         /\ Len(os) + 1 \in DOMAIN Append(os, y) /\ Len(os) + 1 \in Nat
         /\ \A o \in DOMAIN os : o \in DOMAIN Append(os, y) /\ Append(os, y)[o] = os[o]
<1>1. os \in Seq(Object)
  BY DEF Objects, Object
<1> HIDE DEF Object
<1>2. /\ Append(os, y) \in Seq(Object)
      /\ Len(Append(os, y)) = Len(os) + 1
      /\ Len(os) + 1 \in DOMAIN Append(os, y) /\ Len(os) + 1 \in Nat
      /\ \A o \in DOMAIN os : o \in DOMAIN Append(os, y) /\ Append(os, y)[o] = os[o]
  BY <1>1
<1>3. QED
  BY <1>2 DEF Objects, Object

(* An object changes: the others stay. *)
LEMMA ChangedObject ==
  ASSUME NEW os \in Objects, NEW o \in DOMAIN os, NEW x \in Val, NEW new, new = [os EXCEPT ![o].is = x]
  PROVE  /\ new \in Objects /\ DOMAIN new = DOMAIN os
         /\ \A i \in DOMAIN os : new[i].frozen = os[i].frozen
         /\ \A i \in DOMAIN os \ {o} : new[i] = os[i]
<1>1. os \in Seq(Object)
  BY DEF Objects, Object
<1> DEFINE y == [os[o] EXCEPT !.is = x]
<1>2. os[o] \in Object
  BY <1>1, Elements, Zenon
<1>3. y \in Object /\ y.frozen = os[o].frozen
  BY <1>2 DEF Object
<1>4. new = [os EXCEPT ![o] = y]
  OBVIOUS
<1> HIDE DEF y
<1>5. new \in Seq(Object) /\ DOMAIN new = DOMAIN os /\ \A i \in DOMAIN os : new[i] = IF i = o THEN y ELSE os[i]
  BY <1>1, <1>3, <1>4, ExceptSeq, SMTT(30)
<1>6. QED
  BY <1>3, <1>5 DEF Objects, Object

(* deepFreeze: two objects get frozen, none changes. *)
LEMMA FrozenObjects ==
  ASSUME NEW r \in Runs
  PROVE  /\ Frozen(r) \in Objects /\ DOMAIN Frozen(r) = DOMAIN r.objects
         /\ \A o \in DOMAIN r.objects : Frozen(r)[o].is = r.objects[o].is
         /\ \A o \in DOMAIN r.objects : r.objects[o].frozen => Frozen(r)[o].frozen
         /\ \A o \in DOMAIN r.objects \cap {r.values, r.transform} : Frozen(r)[o].frozen
<1> DEFINE os == r.objects
           y(o) == [os[o] EXCEPT !.frozen = TRUE]
<1>1. os \in Seq(Object)
  BY DEF Runs, Objects, Object
<1>2. \A o \in DOMAIN os : os[o] \in Object
  BY <1>1, Elements, Zenon
<1>3. \A o \in DOMAIN os : y(o) \in Object /\ y(o).frozen /\ y(o).is = os[o].is
  BY <1>2 DEF Object
<1>4. Frozen(r) = [o \in DOMAIN os |-> IF o \in {r.values, r.transform} THEN y(o) ELSE os[o]]
  BY DEF Frozen
<1> HIDE DEF y, os
<1>5. DOMAIN Frozen(r) = DOMAIN os /\ \A o \in DOMAIN os : Frozen(r)[o] \in Object
  BY <1>2, <1>3, <1>4
<1>6. DOMAIN os = 1 .. Len(os) /\ Len(os) \in Nat
  BY <1>1
<1>7. Frozen(r) \in [1 .. Len(os) -> Object]
  BY <1>4, <1>5, <1>6
<1>8. Frozen(r) \in Seq(Object)
  BY <1>6, <1>7
<1>9. \A o \in DOMAIN os : Frozen(r)[o].is = os[o].is /\ (os[o].frozen => Frozen(r)[o].frozen)
  BY <1>3, <1>4
<1>10. \A o \in DOMAIN os \cap {r.values, r.transform} : Frozen(r)[o].frozen
  BY <1>3, <1>4
<1>11. QED
  BY <1>5, <1>8, <1>9, <1>10 DEF Objects, Object, os

(* Contexts change *)
LEMMA ChangeGoes ==
  ASSUME NEW r \in Runs, Consistent(r), NEW field \in {"values", "transform"}, NEW x \in Val
  PROVE  LET d == Change(r, field, x)
         IN  d \in Runs /\ Consistent(d) /\ Keeps(r, d) /\ d.fuel = r.fuel /\ d.ip = r.ip
<1> DEFINE d == Change(r, field, x)
           o == r[field]
<1>1. r.objects \in Objects /\ o \in DOMAIN r.objects
  BY DEF Runs, Consistent
<1>2. CASE r.objects[o].frozen
  <2> DEFINE y == [frozen |-> FALSE, is |-> x]
             new == Append(r.objects, y)
             n == Len(r.objects) + 1
  <2>1. d = [r EXCEPT !.objects = new, ![field] = n]
    BY <1>2 DEF Change
  <2>2. y \in Object
    BY DEF Object
  <2>3. r.objects \in Objects
    BY <1>1
  <2> HIDE DEF y, d, o
  <2>4. /\ new \in Objects /\ n \in DOMAIN new /\ n \in Nat
        /\ \A i \in DOMAIN r.objects : i \in DOMAIN new /\ new[i] = r.objects[i]
    BY <2>2, <2>3, NewObject, Zenon
  <2> HIDE DEF new, n
  <2>5. d \in Runs
    BY <2>1, <2>4 DEF Runs
  <2>6. /\ d.objects = new /\ d.contextStack = r.contextStack /\ d.fuel = r.fuel /\ d.ip = r.ip
        /\ d.values \in {r.values, n} /\ d.transform \in {r.transform, n}
    BY <2>1 DEF Runs
  <2>7. Keeps(r, d) /\ \A i : IsFrozen(r, i) => IsFrozen(d, i)
    BY <2>4, <2>6 DEF Keeps, IsFrozen
  <2>8. Consistent(d)
    BY <2>4, <2>6, <2>7 DEF Consistent
  <2>9. QED
    BY <2>5, <2>6, <2>7, <2>8 DEF d
<1>3. CASE ~ r.objects[o].frozen
  <2>1. d = [r EXCEPT !.objects[o].is = x]
    BY <1>3 DEF Change
  <2> DEFINE new == [r.objects EXCEPT ![o].is = x]
  <2>2. /\ new \in Objects /\ DOMAIN new = DOMAIN r.objects
        /\ \A i \in DOMAIN r.objects : new[i].frozen = r.objects[i].frozen
        /\ \A i \in DOMAIN r.objects \ {o} : new[i] = r.objects[i]
    BY <1>1, ChangedObject
  <2>3. d = [r EXCEPT !.objects = new]
    BY <2>1
  <2> HIDE DEF new, d
  <2>4. d \in Runs
    BY <2>2, <2>3 DEF Runs
  <2>5. /\ d.objects = new /\ d.contextStack = r.contextStack /\ d.fuel = r.fuel /\ d.ip = r.ip
        /\ d.values = r.values /\ d.transform = r.transform
    BY <2>3 DEF Runs
  <2>6. Keeps(r, d) /\ \A i : IsFrozen(r, i) => IsFrozen(d, i)
    BY <1>3, <2>2, <2>5 DEF Keeps, IsFrozen
  <2>7. Consistent(d)
    BY <2>2, <2>5, <2>6 DEF Consistent
  <2>8. QED
    BY <2>4, <2>5, <2>6, <2>7 DEF d
<1>4. QED
  BY <1>2, <1>3

(* save-context freezes what it saves. *)
LEMMA SaveContextGoes ==
  ASSUME NEW r \in Runs, Consistent(r)
  PROVE  LET d == SaveContext(r)
         IN  d \in Runs /\ Consistent(d) /\ Keeps(r, d) /\ d.fuel = r.fuel /\ d.ip = r.ip
<1> DEFINE d == SaveContext(r)
           saved == [values |-> r.values, transform |-> r.transform]
           stack == Append(r.contextStack, saved)
           S == [values : Nat, transform : Nat]
<1>1. r.contextStack \in Seq(S) /\ saved \in S
  BY DEF Runs
<1> HIDE DEF S
<1>2. /\ stack \in Seq(S)
      /\ \A i \in DOMAIN stack : stack[i] = saved \/ (i \in DOMAIN r.contextStack /\ stack[i] = r.contextStack[i])
  BY <1>1
<1>3. saved.values = r.values /\ saved.transform = r.transform
  OBVIOUS
<1>4. d = [r EXCEPT !.contextStack = stack, !.objects = Frozen(r)]
  BY DEF SaveContext
<1> HIDE DEF stack, saved, d
<1>5. d \in Runs
  BY <1>2, <1>4, FrozenObjects DEF Runs, S
<1>6. /\ d.objects = Frozen(r) /\ d.contextStack = stack /\ d.fuel = r.fuel /\ d.ip = r.ip
      /\ d.values = r.values /\ d.transform = r.transform
  BY <1>4 DEF Runs
<1>7. Keeps(r, d) /\ \A o : IsFrozen(r, o) => IsFrozen(d, o)
  BY <1>6, FrozenObjects DEF Keeps, IsFrozen
<1>8. IsFrozen(d, r.values) /\ IsFrozen(d, r.transform)
  BY <1>6, FrozenObjects DEF Consistent, IsFrozen
<1>9. Consistent(d)
  <2>1. d.values \in DOMAIN d.objects /\ d.transform \in DOMAIN d.objects
    BY <1>6, <1>8 DEF IsFrozen
  <2>2. ASSUME NEW i \in DOMAIN d.contextStack
        PROVE  IsFrozen(d, d.contextStack[i].values) /\ IsFrozen(d, d.contextStack[i].transform)
    <3>1. CASE d.contextStack[i] = saved
      BY <1>3, <1>8, <3>1
    <3>2. CASE i \in DOMAIN r.contextStack /\ d.contextStack[i] = r.contextStack[i]
      BY <1>7, <3>2 DEF Consistent
    <3>3. QED
      BY <1>2, <1>6, <3>1, <3>2
  <2>3. QED
    BY <2>1, <2>2 DEF Consistent
<1>10. QED
  BY <1>5, <1>6, <1>7, <1>9 DEF d

(* restore-context takes what was saved last. *)
LEMMA RestoreContextGoes ==
  ASSUME NEW r \in Runs, Consistent(r)
  PROVE  LET d == RestoreContext(r)
         IN  d \in Runs /\ Consistent(d) /\ Keeps(r, d) /\ d.fuel = r.fuel /\ d.ip = r.ip
<1> DEFINE d == RestoreContext(r)
           S == [values : Nat, transform : Nat]
           top == Top(r.contextStack)
           rest == Pop(r.contextStack)
<1>1. CASE r.contextStack = <<>>
  <2>1. d = r
    BY <1>1 DEF RestoreContext
  <2>2. QED
    BY <2>1 DEF Keeps
<1>2. CASE r.contextStack # <<>>
  <2>1. r.contextStack \in Seq(S)
    BY DEF Runs
  <2> HIDE DEF S
  <2>2. /\ rest \in Seq(S) /\ \A i \in DOMAIN rest : i \in DOMAIN r.contextStack /\ rest[i] = r.contextStack[i]
    BY <2>1, PopIs
  <2>3. Len(r.contextStack) \in DOMAIN r.contextStack /\ top = r.contextStack[Len(r.contextStack)]
    BY <1>2, <2>1 DEF Top
  <2>4. top \in S
    BY <2>1, <2>3, Elements, Zenon
  <2>5. IsFrozen(r, top.values) /\ IsFrozen(r, top.transform)
    BY <2>3 DEF Consistent
  <2>6. d = [r EXCEPT !.values = top.values, !.transform = top.transform, !.contextStack = rest]
    BY <1>2 DEF RestoreContext
  <2> HIDE DEF d, top, rest
  <2>7. d \in Runs
    BY <2>2, <2>4, <2>6 DEF Runs, S
  <2>8. /\ d.objects = r.objects /\ d.contextStack = rest /\ d.fuel = r.fuel /\ d.ip = r.ip
        /\ d.values = top.values /\ d.transform = top.transform
    BY <2>6 DEF Runs
  <2>9. Keeps(r, d) /\ \A o : IsFrozen(r, o) => IsFrozen(d, o)
    BY <2>8 DEF Keeps, IsFrozen
  <2>10. Consistent(d)
    BY <2>2, <2>5, <2>8, <2>9 DEF Consistent, IsFrozen
  <2>11. QED
    BY <2>7, <2>8, <2>9, <2>10 DEF d
<1>3. QED
  BY <1>1, <1>2

(* All other words. *)
LEMMA OtherWordGoes ==
  ASSUME NEW word, Instruction(word), word[1] \notin Controls \cup StackWords,
         NEW r \in Runs, Consistent(r)
  PROVE  Went(word, r, OnContext(word, r))
<1> DEFINE s == r.dataStack
           d == OnContext(word, r)
           popped  == [r EXCEPT !.dataStack = Pop(s)]
           popped2 == [r EXCEPT !.dataStack = Pop(Pop(s))]
           Works(q, e) == e \in Runs /\ Consistent(e) /\ Keeps(q, e) /\ e.fuel = q.fuel /\ e.ip = q.ip
<1>1. s \in Seq(Val) /\ r.returnStack \in Seq(Val) /\ r.ip \in Val
  BY DEF Runs
<1>2. /\ Pop(s) \in Seq(Val) /\ Pop(Pop(s)) \in Seq(Val) /\ Pop(r.returnStack) \in Seq(Val)
      /\ Top(s) \in Val /\ Top(Pop(s)) \in Val /\ Top(r.returnStack) \in Val
  BY <1>1, PopIs, TopIs DEF Val
<1>3. \A q \in Seq(Val), x \in Val : Append(q, x) \in Seq(Val)
  OBVIOUS
<1>4. Is(r, "values") \in Val /\ Is(r, "transform") \in Val
  BY IsValue
<1>5. \A e : e \in Runs /\ SameContext(r, e) /\ e.ip = r.ip => Works(r, e)
  BY SameContextKeeps DEF SameContext
<1>6. \A q \in Seq(Val) : Works(r, [r EXCEPT !.dataStack = q])
  BY <1>5, DataIs
<1>7. /\ popped \in Runs /\ popped.ip = r.ip /\ popped.returnStack = r.returnStack
      /\ popped.dataStack = Pop(s) /\ popped2 \in Runs
  BY <1>2, DataIs
<1>8. Works(r, popped) /\ Works(r, popped2)
  BY <1>2, <1>6
<1>9. \A e, f : Works(r, e) /\ Works(e, f) => Works(r, f)
  BY DEF Keeps, IsFrozen
<1>10. Works(r, d) /\ (word[1] = "placeholder" => d.failed)
  <2>1. CASE word[1] = ">r"
    <3> DEFINE q == Append(r.returnStack, Top(s))
    <3>1. d = [r EXCEPT !.dataStack = Pop(s), !.returnStack = q]
      BY <2>1, <1>7 DEF OnContext
    <3>2. q \in Seq(Val)
      BY <1>1, <1>2
    <3> HIDE DEF q, d
    <3>3. d \in Runs /\ SameContext(r, d) /\ d.ip = r.ip
      BY <1>2, <3>1, <3>2, DataReturnIs, Zenon
    <3>4. QED
      BY <1>5, <2>1, <3>3
  <2>2. CASE word[1] = "r>"
    <3> DEFINE q == Append(s, Top(r.returnStack))
    <3>1. d = [r EXCEPT !.dataStack = q, !.returnStack = Pop(r.returnStack)]
      BY <2>2 DEF OnContext
    <3>2. q \in Seq(Val)
      BY <1>1, <1>2
    <3> HIDE DEF q, d
    <3>3. d \in Runs /\ SameContext(r, d) /\ d.ip = r.ip
      BY <1>2, <3>1, <3>2, DataReturnIs, Zenon
    <3>4. QED
      BY <1>5, <2>2, <3>3
  <2>3. CASE word[1] = "value"
    <3> DEFINE q == Append(s, Is(r, "values"))
    <3>1. d = [r EXCEPT !.dataStack = q]
      BY <2>3 DEF OnContext
    <3>2. q \in Seq(Val)
      BY <1>1, <1>3, <1>4
    <3> HIDE DEF q, d, Works
    <3>3. Works(r, d)
      BY <1>6, <3>1, <3>2
    <3>4. QED
      BY <2>3, <3>3
  <2>4. CASE word[1] = "@" /\ Top(s) = Variable
    <3> DEFINE q == Append(popped.dataStack, Is(r, "values"))
    <3>1. d = [popped EXCEPT !.dataStack = q]
      BY <2>4 DEF OnContext
    <3>2. q \in Seq(Val)
      BY <1>2, <1>3, <1>4, <1>7
    <3> HIDE DEF popped, q, d
    <3>3. /\ d \in Runs /\ SameContext(popped, d) /\ d.ip = popped.ip
      BY <1>7, <3>1, <3>2, DataIs, Zenon
    <3>4. Works(popped, d)
      BY <1>8, <3>3, SameContextKeeps DEF SameContext
    <3>5. QED
      BY <1>8, <1>9, <2>4, <3>4
  <2>5. CASE word[1] = "placeholder" \/ (word[1] \in {"@", "!"} /\ Top(s) # Variable)
    <3>1. d = [r EXCEPT !.failed = TRUE]
      BY <2>5 DEF OnContext
    <3>2. d \in Runs /\ SameContext(r, d) /\ d.failed /\ d.ip = r.ip
      BY <3>1, FailedIs, Zenon
    <3>3. QED
      BY <1>5, <3>2
  <2>6. CASE word[1] = "!" /\ Top(s) = Variable
    <3>1. d = Change(popped2, "values", Top(Pop(s)))
      BY <2>6 DEF OnContext
    <3> HIDE DEF popped2
    <3>2. \A x \in Val : Works(popped2, Change(popped2, "values", x))
      BY <1>7, <1>8, ChangeGoes
    <3>3. Works(popped2, d)
      BY <1>2, <3>1, <3>2
    <3>4. QED
      BY <1>8, <1>9, <2>6, <3>3
  <2>7. CASE word[1] = "scale"
    <3> DEFINE x == Result("*", Is(r, "transform"), Top(s))
    <3>1. d = Change(popped, "transform", x)
      BY <2>7 DEF OnContext
    <3>2. x \in Val
      BY <1>2, <1>4, ResultIs DEF Binary, Arithmetic, Comparison
    <3> HIDE DEF popped, x
    <3>3. \A y \in Val : Works(popped, Change(popped, "transform", y))
      BY <1>7, <1>8, ChangeGoes
    <3>4. Works(popped, d)
      BY <3>1, <3>2, <3>3
    <3>5. QED
      BY <1>8, <1>9, <2>7, <3>4
  <2>8. CASE word[1] = "save-context"
    <3>1. d = SaveContext(r)
      BY <2>8 DEF OnContext
    <3>2. QED
      BY <2>8, <3>1, SaveContextGoes
  <2>9. CASE word[1] = "restore-context"
    <3>1. d = RestoreContext(r)
      BY <2>9 DEF OnContext
    <3>2. QED
      BY <2>9, <3>1, RestoreContextGoes
  <2>10. QED
    BY <2>1, <2>2, <2>3, <2>4, <2>5, <2>6, <2>7, <2>8, <2>9 DEF Instruction, Instructions, Controls
<1>11. word[1] # "jump to"
  BY DEF Controls
<1>12. QED
  BY <1>10, <1>11 DEF Went

(* What the program counter and the fuel are before a word does its work *)
Stepped(r, word) == [r EXCEPT !.ip = r.ip + 1, !.fuel = r.fuel - Cost(word)]

(* The program counter moves on, and fuel is used. *)
LEMMA SteppedIs ==
  ASSUME NEW word, NEW r \in Runs, Consistent(r), r.ip \in Int
  PROVE  LET d == Stepped(r, word)
         IN  /\ d \in Runs /\ Consistent(d) /\ Keeps(r, d) /\ d.ip = r.ip + 1
             /\ d.fuel \in {r.fuel, r.fuel - 1} /\ d.dataStack = r.dataStack
<1> DEFINE d == Stepped(r, word)
<1>1. Cost(word) \in {0, 1}
  BY DEF Cost, FreeWords
<1>2. r.ip + 1 \in Val /\ r.fuel \in Int /\ r.fuel - Cost(word) \in Int
  BY <1>1 DEF Val, Runs
<1>3. d \in Runs
  BY <1>2 DEF Runs, Stepped
<1>4. /\ d.ip = r.ip + 1 /\ d.fuel = r.fuel - Cost(word) /\ d.dataStack = r.dataStack
      /\ d.objects = r.objects /\ d.values = r.values /\ d.transform = r.transform
      /\ d.contextStack = r.contextStack
  BY DEF Runs, Stepped
<1> HIDE DEF d
<1>5. Consistent(d) /\ Keeps(r, d)
  BY <1>4 DEF Consistent, Keeps, IsFrozen
<1>6. d.fuel \in {r.fuel, r.fuel - 1}
  BY <1>1, <1>2, <1>4
<1>7. QED
  BY <1>3, <1>4, <1>5, <1>6 DEF d

(* runContext: one word of the program. *)
LEMMA RanGoes ==
  ASSUME NEW word, Instruction(word), NEW r \in Runs, Consistent(r), r.ip \in Int
  PROVE  LET d == Ran(r, word)
         IN  /\ d \in Runs /\ Consistent(d) /\ Keeps(r, d)
             /\ d.fuel \in {r.fuel, r.fuel - 1}
             /\ word[1] = "jump to" => d.ip = word[2]
             /\ word[1] = "placeholder" => d.failed
             /\ word[1] \notin Controls => d.ip = r.ip + 1
<1> DEFINE d == Ran(r, word)
           next == Stepped(r, word)
<1>1. /\ next \in Runs /\ Consistent(next) /\ Keeps(r, next) /\ next.ip = r.ip + 1
      /\ next.fuel \in {r.fuel, r.fuel - 1}
  BY SteppedIs
<1>2. d = IF word[1] \in StackWords THEN [next EXCEPT !.dataStack = OnStack(word, next.dataStack)]
          ELSE OnContext(word, next)
  BY DEF Ran, Stepped
<1> HIDE DEF next, d
<1>3. Went(word, next, d)
  <2>1. CASE word[1] \in StackWords
    <3>1. next.dataStack \in Seq(Val)
      BY <1>1 DEF Runs
    <3>2. OnStack(word, next.dataStack) \in Seq(Val)
      BY <2>1, <3>1, OnStackIs
    <3>3. d = [next EXCEPT !.dataStack = OnStack(word, next.dataStack)]
      BY <1>2, <2>1
    <3>4. d \in Runs /\ SameContext(next, d) /\ d.ip = next.ip
      BY <1>1, <3>2, <3>3, DataIs, Zenon
    <3>5. word[1] \notin {"jump to", "placeholder"}
      BY <2>1 DEF StackWords, Binary, Arithmetic, Comparison
    <3>6. d.fuel = next.fuel /\ Consistent(d) /\ Keeps(next, d)
      BY <1>1, <3>4, SameContextKeeps DEF SameContext
    <3>7. QED
      BY <3>4, <3>5, <3>6 DEF Went
  <2>2. CASE word[1] \in Controls
    <3>1. word[1] \notin StackWords
      BY <2>2 DEF Controls, StackWords, Binary, Arithmetic, Comparison
    <3>2. QED
      BY <1>1, <1>2, <2>2, <3>1, JumpWordGoes
  <2>3. CASE word[1] \notin Controls \cup StackWords
    BY <1>1, <1>2, <2>3, OtherWordGoes
  <2>4. QED
    BY <2>1, <2>2, <2>3
<1>4. Keeps(r, d)
  BY <1>1, <1>3 DEF Went, Keeps, IsFrozen
<1>5. QED
  BY <1>1, <1>3, <1>4 DEF Went, d

-----------------------------------------------------------------------------
(* What the tokenizer gives is made of the characters of the source. *)

Tokenizes(t) ==
  /\ DOMAIN t = {"buffer", "type", "quotes", "escape", "start", "place"}
  /\ t.buffer \in Seq(Characters)

OfCharacters(token) == token.text \in Seq(Characters)

Gave(given) ==
  /\ Tokenizes(given.tokenizer)
  /\ Len(given.tokens) >= 1 => OfCharacters(given.tokens[1])
  /\ Len(given.tokens) >= 2 => OfCharacters(given.tokens[2])

(* What the tokenizer does to itself while it reads a character. *)
LEMMA TokenizesStill ==
  ASSUME NEW t, Tokenizes(t), NEW c \in Characters, NEW x
  PROVE  /\ Tokenizes(Moved(t, c)) /\ Tokenizes(Put(t, c)) /\ Tokenizes(Start(t, x))
         /\ Tokenizes(Flushed(t))
         /\ Tokenizes([t EXCEPT !.escape = x]) /\ Tokenizes([t EXCEPT !.quotes = x])
<1>1. Append(t.buffer, c) \in Seq(Characters) /\ <<>> \in Seq(Characters)
  BY DEF Tokenizes
<1> HIDE DEF Characters
<1>2. Tokenizes(Moved(t, c)) /\ Tokenizes([t EXCEPT !.escape = x]) /\ Tokenizes([t EXCEPT !.quotes = x])
  BY DEF Tokenizes, Moved
<1>3. Tokenizes(Put(t, c))
  BY <1>1 DEF Tokenizes, Put
<1>4. Tokenizes(Start(t, x))
  BY <1>1 DEF Tokenizes, Start
<1>5. Tokenizes(Flushed(t))
  BY <1>1 DEF Tokenizes, Flushed
<1>6. QED
  BY <1>2, <1>3, <1>4, <1>5

(* A character that ends no token. *)
LEMMA GoesGave ==
  ASSUME NEW t, Tokenizes(t)
  PROVE  Gave(Goes(t)) /\ Gave(Throws(t))
<1>1. /\ Goes(t).tokenizer = t /\ Goes(t).tokens = <<>>
      /\ Throws(t).tokenizer = t /\ Throws(t).tokens = <<>>
  BY DEF Goes, Throws
<1>2. Len(<<>>) = 0
  OBVIOUS
<1>3. QED
  BY <1>1, <1>2 DEF Gave

(* A character that ends one, if there is one. *)
LEMMA GivesGave ==
  ASSUME NEW t, Tokenizes(t), NEW next, Tokenizes(next)
  PROVE  /\ Gave(Gives(t, next))
         /\ Gives(t, next).tokens = <<>> \/ Gives(t, next).tokens = <<Token(t)>>
         /\ OfCharacters(Token(t))
<1> DEFINE given == Gives(t, next)
<1>1. given.tokenizer = next /\ (given.tokens = <<>> \/ given.tokens = <<Token(t)>>)
  BY DEF Gives, Goes
<1>2. Len(<<>>) = 0 /\ Len(<<Token(t)>>) = 1 /\ <<Token(t)>>[1] = Token(t)
  OBVIOUS
<1>3. OfCharacters(Token(t))
  BY DEF Token, OfCharacters, Tokenizes
<1> HIDE DEF given
<1>4. Gave(given)
  BY <1>1, <1>2, <1>3 DEF Gave
<1>5. QED
  BY <1>1, <1>3, <1>4 DEF given

(* _char: what is given was read. *)
LEMMA ReadGave ==
  ASSUME NEW t, Tokenizes(t), NEW c \in Characters
  PROVE  Gave(Read(t, c))
<1>1. /\ Tokenizes(Moved(t, c)) /\ Tokenizes(Put(t, c)) /\ Tokenizes(Flushed(t))
      /\ \A x : Tokenizes(Start(t, x)) /\ Tokenizes([t EXCEPT !.quotes = x])
  BY TokenizesStill
<1>2. CASE Read(t, c) = ReadInComment(t, c)
  <2>1. /\ Tokenizes(Moved(Flushed(t), c)) /\ Tokenizes(Moved(Put(t, c), c))
    BY <1>1, TokenizesStill
  <2>2. Read(t, c) \in {Gives(t, Moved(Flushed(t), c)), Goes(Moved(Put(t, c), c))}
    BY <1>2 DEF ReadInComment
  <2>3. QED
    BY <2>1, <2>2, GoesGave, GivesGave
<1>3. CASE Read(t, c) = ReadEscaped(t, c)
  <2>1. CASE c \in DOMAIN Unescaped
    <3> DEFINE d == Moved(Put(t, Unescaped[c]), c)
    <3>1. Unescaped[c] \in Characters
      BY <2>1 DEF Characters
    <3>2. Tokenizes(Put(t, Unescaped[c]))
      BY <3>1, TokenizesStill
    <3>3. Tokenizes(d)
      BY <3>2, TokenizesStill
    <3> HIDE DEF d
    <3>4. Tokenizes([d EXCEPT !.escape = FALSE])
      BY <3>3, TokenizesStill
    <3>5. Read(t, c) = Goes([d EXCEPT !.escape = FALSE])
      BY <1>3, <2>1 DEF ReadEscaped, d
    <3>6. QED
      BY <3>4, <3>5, GoesGave
  <2>2. CASE c \notin DOMAIN Unescaped
    <3>1. Read(t, c) = Throws(t)
      BY <1>3, <2>2 DEF ReadEscaped
    <3>2. QED
      BY <3>1, GoesGave
  <2>3. QED
    BY <2>1, <2>2
<1>4. CASE Read(t, c) = ReadBare(t, c)
  <2> DEFINE comment == Moved(Start(Flushed(t), "comment"), c)
             quoted == Moved(Start(t, QuoteType[c]), c)
             first == IF t.buffer = <<>> THEN Start(t, "bareword") ELSE t
  <2>1. Tokenizes(Moved(Flushed(t), c)) /\ Tokenizes(Start(Flushed(t), "comment"))
    BY <1>1, TokenizesStill
  <2>2. Tokenizes(comment) /\ Tokenizes(quoted) /\ Tokenizes(Put(first, c))
    BY <1>1, <2>1, TokenizesStill
  <2>3. Tokenizes([quoted EXCEPT !.quotes = <<c>>]) /\ Tokenizes(Moved(Put(first, c), c))
    BY <2>2, TokenizesStill
  <2>4. Read(t, c) \in {Gives(t, Moved(Flushed(t), c)), Gives(t, comment), Throws(t),
                        Goes([quoted EXCEPT !.quotes = <<c>>]), Goes(Moved(Put(first, c), c))}
    BY <1>4 DEF ReadBare
  <2> HIDE DEF comment, quoted, first
  <2>5. QED
    BY <2>1, <2>2, <2>3, <2>4, GoesGave, GivesGave
<1>5. CASE Read(t, c) = ReadQuoted(t, c)
  <2> DEFINE rest == [t EXCEPT !.quotes = Tail(@)]
             moved == Moved(rest, c)
             inner == [t EXCEPT !.quotes = <<c>> \o @]
  <2>1. Tokenizes(rest) /\ Tokenizes(inner)
    BY <1>1
  <2>2. Tokenizes(moved) /\ Tokenizes(Put(rest, c)) /\ Tokenizes(Put(inner, c))
    BY <2>1, TokenizesStill
  <2>3. /\ Tokenizes(Flushed(moved)) /\ Tokenizes(Moved(Put(rest, c), c))
        /\ Tokenizes([Moved(t, c) EXCEPT !.escape = TRUE]) /\ Tokenizes(Moved(Put(inner, c), c))
        /\ Tokenizes(Moved(Put(t, c), c))
    BY <1>1, <2>2, TokenizesStill
  <2>4. Read(t, c) \in {Gives(moved, Flushed(moved)), Goes(Moved(Put(rest, c), c)),
                        Goes([Moved(t, c) EXCEPT !.escape = TRUE]), Goes(Moved(Put(inner, c), c)),
                        Goes(Moved(Put(t, c), c))}
    BY <1>5 DEF ReadQuoted
  <2> HIDE DEF rest, moved, inner
  <2>5. QED
    BY <2>2, <2>3, <2>4, GoesGave, GivesGave
<1>6. QED
  BY <1>2, <1>3, <1>4, <1>5 DEF Read

(* end: so are the last token, and that of the end. *)
LEMMA EndGave ==
  ASSUME NEW t, Tokenizes(t)
  PROVE  Gave(End(t))
<1>1. CASE t.escape \/ t.quotes # <<>>
  <2>1. End(t) = Throws(t)
    BY <1>1 DEF End
  <2>2. QED
    BY <2>1, GoesGave
<1>2. CASE ~ (t.escape \/ t.quotes # <<>>)
  <2> DEFINE given == Gives(t, Flushed(t))
             last == [Token(Flushed(t)) EXCEPT !.type = "end", !.start = t.place]
  <2>1. Tokenizes(Flushed(t))
    <3>1. <<>> \in Seq(Characters)
      OBVIOUS
    <3>2. QED
      BY <3>1 DEF Tokenizes, Flushed
  <2>2. given.tokens \in {<<>>, <<Token(t)>>} /\ OfCharacters(Token(t))
    BY <2>1, GivesGave
  <2>3. OfCharacters(last)
    <3>1. last.text = Flushed(t).buffer
      BY DEF Token
    <3>2. QED
      BY <2>1, <3>1 DEF OfCharacters, Tokenizes
  <2>4. End(t) = [given EXCEPT !.tokens = Append(@, last)]
    BY <1>2 DEF End
  <2>5. given.tokenizer = Flushed(t) /\ DOMAIN given = {"tokenizer", "tokens", "throws"}
    BY DEF Gives, Goes
  <2> HIDE DEF given, last
  <2>6. End(t).tokenizer = Flushed(t) /\ End(t).tokens = Append(given.tokens, last)
    BY <2>4, <2>5
  <2>7. /\ IsSequence(<<>>) /\ Len(<<>>) = 0
        /\ \A x : IsSequence(<<x>>) /\ Len(<<x>>) = 1 /\ <<x>>[1] = x
    <3>1. \A x : <<x>> \in Seq({x}) /\ <<>> \in Seq({x})
      OBVIOUS
    <3>2. QED
      BY <3>1, SomeSequence
  <2>8. \/ Len(End(t).tokens) = 1 /\ End(t).tokens[1] = last
        \/ Len(End(t).tokens) = 2 /\ End(t).tokens[1] = Token(t) /\ End(t).tokens[2] = last
    <3>1. CASE given.tokens = <<>>
      BY <2>6, <2>7, <3>1, AppendIs
    <3>2. CASE given.tokens = <<Token(t)>>
      BY <2>6, <2>7, <3>2, AppendIs
    <3>3. QED
      BY <2>2, <3>1, <3>2
  <2>9. QED
    BY <2>1, <2>2, <2>3, <2>6, <2>8 DEF Gave
<1>3. QED
  BY <1>1, <1>2

(* So names are never that where main goes on. *)
LEMMA NameIs ==
  ASSUME NEW token, OfCharacters(token)
  PROVE  OtherName(Name(token))
<1>1. Name(token) \in Characters
  <2>1. Len(token.text) = 1 => token.text[1] \in Characters
    BY DEF OfCharacters
  <2>2. QED
    BY <2>1 DEF Name, Characters
<1>2. QED
  BY <1>1, ResumeAssumption

-----------------------------------------------------------------------------
(* The invariant *)

Sources == limits \in Limits /\ text \in Seq(Characters) /\ Tokenizes(tokenizer)
Compiled == Sound(compilation) /\ Closed(compilation)
Runnable == run \in Runs /\ Consistent(run) /\ run.fuel \in 0 .. limits.fuel
Phases == phase \in {"compiling", "running", "done", "failed"}

IInv == Sources /\ Compiled /\ Runnable /\ Phases

(* What compilations begin with *)
LEMMA NewCompilationIs == Sound(NewCompilation) /\ Closed(NewCompilation)
<1> DEFINE c == NewCompilation
<1>1. /\ c.program = <<>> /\ c.mains = <<>> /\ c.dictionary = <<>> /\ c.fixups = <<>>
      /\ c.compilingMain = TRUE /\ DOMAIN c = CompilationFields
  BY DEF NewCompilation, CompilationFields
<1>2. Len(<<>>) = 0 /\ DOMAIN <<>> = {} /\ IsSequence(<<>>)
  BY DEF IsSequence
<1> HIDE DEF c
<1>3. WellFormed(c)
  BY <1>1, <1>2 DEF WellFormed
<1>4. Awaited(c) /\ Typed(c)
  BY <1>1, <1>2 DEF Awaited, Typed
<1>5. Closed(c)
  BY <1>1, <1>2 DEF Closed, Parted, NamesNoResume
<1>6. QED
  BY <1>3, <1>4, <1>5 DEF Sound, c

(* What runs begin with. *)
LEMMA NewRunIs ==
  ASSUME NEW fuel \in Nat
  PROVE  LET r == NewRun(fuel) IN r \in Runs /\ Consistent(r) /\ r.fuel = fuel
<1> DEFINE os == <<[frozen |-> TRUE, is |-> Undefined], [frozen |-> FALSE, is |-> 1]>>
           r == NewRun(fuel)
<1>1. [frozen |-> TRUE, is |-> Undefined] \in Object /\ [frozen |-> FALSE, is |-> 1] \in Object
  BY DEF Object, Val
<1> HIDE DEF Object
<1>2. os \in Seq(Object) /\ DOMAIN os = {1, 2}
  BY <1>1
<1>3. /\ r.ip = 0 /\ r.dataStack = <<>> /\ r.returnStack = <<>> /\ r.fuel = fuel /\ r.failed = FALSE
      /\ r.objects = os /\ r.values = 1 /\ r.transform = 2 /\ r.contextStack = <<>>
  BY DEF NewRun
<1>4. r = [ip |-> 0, dataStack |-> <<>>, returnStack |-> <<>>, fuel |-> fuel, failed |-> FALSE,
           objects |-> os, values |-> 1, transform |-> 2, contextStack |-> <<>>]
  BY DEF NewRun
<1> HIDE DEF os, r
<1>5. /\ 0 \in Val /\ <<>> \in Seq(Val) /\ <<>> \in Seq([values : Nat, transform : Nat])
      /\ os \in Objects
  BY <1>2 DEF Val, Objects, Object
<1>6. r \in Runs
  BY <1>4, <1>5 DEF Runs
<1>7. Consistent(r)
  BY <1>2, <1>3 DEF Consistent
<1>8. QED
  BY <1>3, <1>6, <1>7 DEF r

(* The invariant holds in the beginning. *)
LEMMA InitIInv == Init => IInv
<1> SUFFICES ASSUME Init PROVE IInv
  OBVIOUS
<1>1. limits \in Limits /\ limits.fuel \in Nat
  BY LimitsAssumption DEF Init
<1>2. Sources
  <2>1. <<>> \in Seq(Characters)
    OBVIOUS
  <2>2. QED
    BY <1>1, <2>1 DEF Init, Sources, Tokenizes, NewTokenizer
<1>3. Compiled
  BY NewCompilationIs DEF Init, Compiled
<1>4. Runnable
  BY <1>1, NewRunIs DEF Init, Runnable
<1>5. QED
  BY <1>2, <1>3, <1>4 DEF Init, IInv, Phases

(* Reading on *)
LEMMA ListenIs ==
  ASSUME Compiled, NEW given, Gave(given), Listen(given)
  PROVE  /\ Compiled' /\ Tokenizes(tokenizer') /\ Continues(compilation, compilation')
<1> DEFINE c == CompileTokens(compilation, given.tokens)
<1>1. Sound(c) /\ Continues(compilation, c)
  BY CompileTokensSound DEF Compiled
<1>2. Closed(c)
  <2>1. /\ Len(given.tokens) >= 1 => OtherName(Name(given.tokens[1]))
        /\ Len(given.tokens) >= 2 => OtherName(Name(given.tokens[2]))
    BY NameIs DEF Gave
  <2>2. QED
    BY <2>1, CompileTokensClosed DEF Compiled
<1>3. compilation' \in {c, Failed(c)} /\ tokenizer' = given.tokenizer
  BY DEF Listen
<1> HIDE DEF c
<1>4. Sound(Failed(c)) /\ Continues(c, Failed(c)) /\ Closed(Failed(c))
  BY <1>1, <1>2, FailedSound, FailedClosed
<1>5. Continues(compilation, Failed(c))
  BY <1>1, <1>4, ContinuesOn
<1>6. Sound(compilation') /\ Closed(compilation') /\ Continues(compilation, compilation')
  BY <1>1, <1>2, <1>3, <1>4, <1>5
<1>7. QED
  BY <1>3, <1>6 DEF Compiled, Gave

(* What the tokenizer throws, ends the compilation. *)
LEMMA ThrownFails ==
  ASSUME Compiled, NEW given, given.throws, Listen(given)
  PROVE  compilation'.failed
<1> DEFINE c == CompileTokens(compilation, given.tokens)
<1>1. Sound(c)
  BY CompileTokensSound DEF Compiled
<1>2. compilation' = Failed(c)
  BY DEF Listen
<1> HIDE DEF c
<1>3. QED
  BY <1>1, <1>2 DEF Sound, WellFormed, CompilationFields, Failed

(* One character. *)
LEMMA CharIs ==
  ASSUME IInv, NEW c \in Characters, Char(c)
  PROVE  IInv' /\ Continues(compilation, compilation')
<1>1. Gave(Read(tokenizer, c))
  BY ReadGave DEF IInv, Sources
<1>2. Compiled' /\ Tokenizes(tokenizer') /\ Continues(compilation, compilation')
  BY <1>1, ListenIs DEF IInv, Char
<1>3. text' \in Seq(Characters)
  BY DEF IInv, Sources, Char
<1>4. Sources' /\ Runnable' /\ Phases'
  BY <1>2, <1>3 DEF IInv, Sources, Runnable, Phases, Char
<1>5. QED
  BY <1>2, <1>4 DEF IInv

(* A character of what the source begins with, or any other. *)
LEMMA SourceCharacter ==
  ASSUME IInv, ReadSource
  PROVE  \E c \in Characters : Char(c)
<1>1. limits \in Limits /\ text \in Seq(Characters)
  BY DEF IInv, Sources
<1>2. CASE Len(text) + 1 <= Len(limits.prefix) /\ Char(limits.prefix[Len(text) + 1])
  <2> DEFINE i == Len(text) + 1
  <2>1. limits.prefix \in Seq(ToSet(limits.prefix))
    BY <1>1, LimitsAssumption
  <2>2. i \in DOMAIN limits.prefix
    BY <1>1, <1>2, <2>1
  <2>3. limits.prefix[i] \in Characters
    BY <1>1, <2>2 DEF Characters, ToSet
  <2>4. QED
    BY <1>2, <2>3
<1>3. CASE \E c \in limits.alphabet : Char(c)
  <2>1. limits.alphabet \subseteq Characters
    BY <1>1 DEF Characters
  <2>2. QED
    BY <1>3, <2>1
<1>4. QED
  BY <1>2, <1>3 DEF ReadSource

(* What it does, so. *)
LEMMA ReadSourceIs ==
  ASSUME IInv, ReadSource
  PROVE  IInv' /\ Continues(compilation, compilation')
BY SourceCharacter, CharIs

(* The end of the source. *)
LEMMA EndSourceIs ==
  ASSUME IInv, EndSource
  PROVE  IInv' /\ Continues(compilation, compilation')
<1>1. Gave(End(tokenizer))
  BY EndGave DEF IInv, Sources
<1>2. Compiled' /\ Tokenizes(tokenizer') /\ Continues(compilation, compilation')
  BY <1>1, ListenIs DEF IInv, EndSource
<1>3. Sources' /\ Runnable' /\ Phases'
  BY <1>2 DEF IInv, Sources, Runnable, Phases, EndSource
<1>4. QED
  BY <1>2, <1>3 DEF IInv

(* A word runs. *)
LEMMA RunWordIs ==
  ASSUME IInv, RunWord
  PROVE  /\ Instruction(Word) /\ run.ip \in Int /\ run.ip + 1 \in DOMAIN compilation.program
         /\ run' \in Runs /\ Consistent(run') /\ Keeps(run, run')
         /\ run'.fuel \in {run.fuel, run.fuel - 1}
         /\ Word[1] = "jump to" => run'.ip = Word[2]
         /\ Word[1] = "placeholder" => run'.failed
         /\ Word[1] \notin Controls => run'.ip = run.ip + 1
<1>1. run.ip \in Val /\ run \in Runs /\ Consistent(run)
  BY DEF IInv, Runnable, Runs
<1>2. run.ip \in Int /\ run.ip >= 0 /\ run.ip < Len(compilation.program)
  BY <1>1 DEF RunWord, IsRunning, IsNumber, Val
<1>3. run.ip + 1 \in DOMAIN compilation.program
  <2>1. IsSequence(compilation.program)
    BY DEF IInv, Compiled, Sound, WellFormed
  <2>2. QED
    BY <1>2, <2>1, AppendIs
<1>4. Instruction(Word)
  BY <1>3 DEF IInv, Compiled, Sound, Typed, Word
<1>5. run' = Ran(run, Word)
  BY DEF RunWord
<1>6. QED
  BY <1>1, <1>2, <1>3, <1>4, <1>5, RanGoes

(* Every step keeps the invariant. *)
LEMMA NextIInv == IInv /\ [Next]_vars => IInv'
<1> SUFFICES ASSUME IInv, [Next]_vars PROVE IInv'
  OBVIOUS
<1>1. CASE ReadSource
  BY <1>1, ReadSourceIs
<1>2. CASE EndSource
  BY <1>2, EndSourceIs
<1>3. CASE RunWord
  <2>1. /\ run' \in Runs /\ Consistent(run') /\ run'.fuel \in {run.fuel, run.fuel - 1}
    BY <1>3, RunWordIs
  <2>2. run.fuel \in 0 .. limits.fuel /\ limits.fuel \in Nat /\ run.fuel > 0
    BY <1>3, LimitsAssumption DEF IInv, Sources, Runnable, RunWord, IsRunning
  <2>3. Runnable'
    BY <1>3, <2>1, <2>2 DEF Runnable, RunWord
  <2>4. Sources' /\ Compiled' /\ Phases'
    BY <1>3 DEF IInv, Sources, Compiled, Phases, RunWord
  <2>5. QED
    BY <2>3, <2>4 DEF IInv
<1>4. CASE EndRun
  BY <1>4 DEF IInv, Sources, Compiled, Runnable, Phases, EndRun
<1>5. CASE UNCHANGED vars
  BY <1>5 DEF IInv, Sources, Compiled, Runnable, Phases, vars
<1>6. QED
  BY <1>1, <1>2, <1>3, <1>4, <1>5 DEF Next

(* The invariant: compilations are sound and closed, runs consistent. *)
THEOREM Invariance == Spec => []IInv
BY InitIInv, NextIInv, PTL DEF Spec

(* Awaited, as the property says it. *)
LEMMA PlacesOfFixups ==
  ASSUME NEW c, Awaited(c)
  PROVE  UNION {{<<i, n>> : i \in c.fixups[n]} : n \in DOMAIN c.fixups}
         = {<<i, c.program[i][2]>> : i \in {j \in DOMAIN c.program : c.program[j][1] = "placeholder"}}
<1> DEFINE P == {j \in DOMAIN c.program : c.program[j][1] = "placeholder"}
           A == UNION {{<<i, n>> : i \in c.fixups[n]} : n \in DOMAIN c.fixups}
           B == {<<i, c.program[i][2]>> : i \in P}
<1>0. \A n : <<"placeholder", n>>[1] = "placeholder" /\ <<"placeholder", n>>[2] = n
  OBVIOUS
<1>1. ASSUME NEW n \in DOMAIN c.fixups, NEW i \in c.fixups[n]
      PROVE  i \in P /\ c.program[i][2] = n
  BY <1>0, <1>1 DEF Awaited
<1>2. ASSUME NEW i \in P
      PROVE  c.program[i][2] \in DOMAIN c.fixups /\ i \in c.fixups[c.program[i][2]]
  BY <1>2 DEF Awaited
<1> HIDE DEF P
<1>3. A \subseteq B
  <2> SUFFICES ASSUME NEW n \in DOMAIN c.fixups, NEW i \in c.fixups[n] PROVE <<i, n>> \in B
    OBVIOUS
  <2>1. i \in P /\ c.program[i][2] = n
    BY <1>1
  <2>2. QED
    BY <2>1
<1>4. B \subseteq A
  <2> SUFFICES ASSUME NEW i \in P PROVE <<i, c.program[i][2]>> \in A
    OBVIOUS
  <2>1. QED
    BY <1>2
<1>5. A = B
  BY <1>3, <1>4
<1>6. QED
  BY <1>5 DEF P

-----------------------------------------------------------------------------
(* What the runs check *)

(* PlaceholdersAreAwaited, and with it TypeOK: each use of a word before its *)
(* definition is known to the fixup of its name, and no other place is.    *)
THEOREM UsesAreAwaited == Spec => []PlaceholdersAreAwaited
<1>1. IInv => PlaceholdersAreAwaited
  <2> SUFFICES ASSUME IInv PROVE PlaceholdersAreAwaited
    OBVIOUS
  <2>1. WellFormed(compilation) /\ Awaited(compilation)
    BY DEF IInv, Compiled, Sound
  <2>2. UNION {{<<i, n>> : i \in compilation.fixups[n]} : n \in DOMAIN compilation.fixups}
        = {<<i, compilation.program[i][2]>> :
             i \in {j \in DOMAIN compilation.program : compilation.program[j][1] = "placeholder"}}
    BY <2>1, PlacesOfFixups, Zenon
  <2>3. TypeOK
    BY <2>1 DEF IInv, WellFormed, Awaited, Runnable, Consistent, Phases, TypeOK
  <2>4. QED
    BY <2>2, <2>3 DEF PlaceholdersAreAwaited
<1>2. QED
  BY <1>1, Invariance, PTL

(* CompiledWordsStay: definitions replace placeholders, and no other words of the *)
(* program, whatever is defined again.                                     *)
THEOREM WordsStay == Spec => CompiledWordsStay
<1> DEFINE Stays == \A i \in DOMAIN compilation.program :
                      compilation.program[i] \in {compilation'.program[i]} \cup
                                                 {<<"placeholder", n>> : n \in DOMAIN compilation.fixups}
<1>1. IInv /\ [Next]_vars => [Stays]_vars
  <2> SUFFICES ASSUME IInv, Next PROVE Stays
    OBVIOUS
  <2>1. Continues(compilation, compilation')
    <3>1. CASE ReadSource
      BY <3>1, ReadSourceIs
    <3>2. CASE EndSource
      BY <3>2, EndSourceIs
    <3>3. CASE RunWord \/ EndRun
      BY <3>3 DEF RunWord, EndRun, Continues
    <3>4. QED
      BY <3>1, <3>2, <3>3 DEF Next
  <2>2. Awaited(compilation)
    BY DEF IInv, Compiled, Sound
  <2>3. QED
    BY <2>1, <2>2, SMTT(30) DEF Continues, Awaited
<1>2. QED
  BY <1>1, Invariance, PTL DEF Spec, CompiledWordsStay

(* SavedContextsStay: what save-context saved is as it was, whatever the program *)
(* changes (deepFreeze and copy on write in ForthProceduralShape.ts).      *)
THEOREM ContextsStay == Spec => SavedContextsStay
<1> DEFINE Stays == \A i \in DOMAIN run.contextStack \cap DOMAIN run'.contextStack :
                      \A o \in {run.contextStack[i].values, run.contextStack[i].transform} :
                        run'.objects[o].is = run.objects[o].is
<1>1. IInv /\ [Next]_vars => [Stays]_vars
  <2> SUFFICES ASSUME IInv, Next PROVE Stays
    OBVIOUS
  <2>1. Keeps(run, run')
    <3>1. CASE RunWord
      BY <3>1, RunWordIs
    <3>2. CASE ReadSource \/ EndSource \/ EndRun
      <4>1. run' = run
        BY <3>2 DEF ReadSource, Char, EndSource, EndRun
      <4>2. QED
        BY <4>1 DEF Keeps
    <3>3. QED
      BY <3>1, <3>2 DEF Next
  <2>2. Consistent(run)
    BY DEF IInv, Runnable
  <2>3. QED
    BY <2>1, <2>2 DEF Consistent, Keeps, IsFrozen
<1>2. QED
  BY <1>1, Invariance, PTL DEF Spec, SavedContextsStay

(* Main and definitions meet where a word leaves; the jump to where main goes on *)
(* is one of main, and leads to one of main.                               *)
LEMMA RunWordStaysWithin ==
  ASSUME IInv, RunWord, ~ run'.failed
  PROVE  \/ Word[1] \in {"call to", "exit", "jump", "call", "jump-if-zero", "jump-if-nonzero"}
         \/ Word[1] = "jump to" /\ Word[3] # Resume
         \/ run'.ip + 1 \in DOMAIN compilation.mains
              => compilation.mains[run'.ip + 1] = compilation.mains[run.ip + 1]
<1> DEFINE p == compilation.program
           m == compilation.mains
           main == compilation.compilingMain
           i == run.ip + 1
           j == run'.ip + 1
<1>1. /\ Word = p[i] /\ i \in DOMAIN p /\ run.ip \in Int
      /\ Word[1] = "jump to" => run'.ip = Word[2]
      /\ Word[1] # "placeholder"
      /\ Word[1] \notin Controls => run'.ip = run.ip + 1
  BY RunWordIs DEF Word
<1>2. Parted(p, m, main) /\ \A k \in DOMAIN m : m[k] \in BOOLEAN
  BY DEF IInv, Compiled, Closed
<1>3. DOMAIN m = DOMAIN p
  BY AppendIs DEF IInv, Compiled, Sound, WellFormed
<1> HIDE DEF p, m, main
<1>4. \A k \in DOMAIN m : MainAt(m, main, k) <=> m[k] = TRUE
  BY DEF MainAt
<1>5. CASE Word[1] \in Controls /\ ~ ResumeJump(Word)
  BY <1>5 DEF Controls, ResumeJump
<1>6. CASE ResumeJump(Word)
  <2>1. ToResume(p[i]) /\ ResumeJump(p[i])
    BY <1>1, <1>6 DEF ToResume
  <2>2. MainAt(m, main, i) /\ MainAt(m, main, p[i][2] + 1)
    BY <1>1, <1>2, <2>1 DEF Parted
  <2>3. run'.ip = p[i][2]
    BY <1>1, <1>6 DEF ResumeJump
  <2>4. j \in DOMAIN m => m[j] = TRUE /\ m[i] = TRUE
    BY <1>1, <1>3, <1>4, <2>2, <2>3
  <2>5. QED
    BY <2>4 DEF m
<1>7. CASE Word[1] \notin Controls
  <2>1. ~ Leaves(Word)
    <3>1. \A n : <<"placeholder", n>>[1] = "placeholder"
      OBVIOUS
    <3>2. QED
      BY <1>1, <1>7, <3>1 DEF Leaves, ToResume, ResumeJump, Controls
  <2>2. MainAt(m, main, i + 1) <=> MainAt(m, main, i)
    BY <1>1, <1>2, <2>1 DEF Parted
  <2>3. j = i + 1
    BY <1>1, <1>7
  <2>4. j \in DOMAIN m => (m[j] = TRUE <=> m[i] = TRUE)
    BY <1>1, <1>3, <1>4, <2>2, <2>3
  <2>5. ASSUME j \in DOMAIN m
        PROVE  m[j] = m[i]
    <3>1. m[j] \in BOOLEAN /\ m[i] \in BOOLEAN
      BY <1>1, <1>2, <1>3, <2>5
    <3>2. QED
      BY <2>4, <2>5, <3>1
  <2>6. QED
    BY <2>5 DEF m
<1>8. QED
  BY <1>5, <1>6, <1>7

(* BodiesAreClosed: main passes over the definitions in it, and definitions do *)
(* not run on into what follows.                                           *)
THEOREM NoRunningOn == Spec => BodiesAreClosed
<1> DEFINE PassesOver ==
      run' # run /\ ~ run'.failed =>
        \/ Word[1] \in {"call to", "exit", "jump", "call", "jump-if-zero", "jump-if-nonzero"}
        \/ Word[1] = "jump to" /\ Word[3] # Resume
        \/ run'.ip + 1 \in DOMAIN compilation.mains
             => compilation.mains[run'.ip + 1] = compilation.mains[run.ip + 1]
<1>1. IInv /\ [Next]_vars => [PassesOver]_vars
  <2> SUFFICES ASSUME IInv, Next, run' # run, ~ run'.failed PROVE PassesOver
    OBVIOUS
  <2>1. RunWord
    BY DEF Next, ReadSource, Char, EndSource, EndRun
  <2>2. QED
    BY <2>1, RunWordStaysWithin
<1>2. QED
  BY <1>1, Invariance, PTL DEF Spec, BodiesAreClosed

-----------------------------------------------------------------------------
(* Recursion along numbers *)

(* A set of numbers has a least one. *)
LEMMA LeastNumber ==
  ASSUME NEW T \in SUBSET Nat, T # {}
  PROVE  \E x \in T : \A y \in T : x <= y
<1> DEFINE R == {p \in Nat \X Nat : p[1] < p[2]}
<1>1. IsWellFoundedOn(R, Nat)
  BY NatLessThanWellFounded DEF OpToRel
<1>2. \A x, y \in Nat : x < y => <<x, y>> \in R
  OBVIOUS
<1> HIDE DEF R
<1>3. PICK x \in T : \A y \in T : ~ (<<y, x>> \in R)
  BY <1>1, WFMin
<1>4. ASSUME NEW y \in T PROVE x <= y
  <2>1. x \in Nat /\ y \in Nat /\ ~ (<<y, x>> \in R)
    BY <1>3
  <2>2. ~ (y < x)
    BY <1>2, <2>1
  <2>3. QED
    BY <2>1, <2>2
<1>5. QED
  BY <1>4

(* n values: a, and each of the others made from its number and the one before *)
Made(f, n, S, a, next) ==
  /\ f \in [0 .. n -> S] /\ f[0] = a
  /\ \A i \in 0 .. n - 1 : f[i + 1] = next[<<i + 1, f[i]>>]

(* As far as two of them go, they are the same. *)
LEMMA MadeOnce ==
  ASSUME NEW S, NEW a, NEW next, NEW n \in Nat, NEW m \in Nat, NEW f, NEW g,
         Made(f, n, S, a, next), Made(g, m, S, a, next), NEW k \in Nat, k <= n, k <= m
  PROVE  f[k] = g[k]
<1> DEFINE T == {i \in Nat : i <= n /\ i <= m /\ f[i] # g[i]}
<1> SUFFICES ASSUME k \in T PROVE FALSE
  OBVIOUS
<1>1. PICK i \in T : \A j \in T : i <= j
  BY LeastNumber, Zenon
<1>2. i # 0
  BY <1>1 DEF Made
<1>3. i - 1 \in Nat /\ ~ (i <= i - 1) /\ i - 1 \in 0 .. n - 1 /\ i - 1 \in 0 .. m - 1
      /\ (i - 1) + 1 = i /\ i - 1 <= n /\ i - 1 <= m
  BY <1>2
<1>4. f[i - 1] = g[i - 1]
  BY <1>1, <1>3
<1>5. f[i] = next[<<i, f[i - 1]>>] /\ g[i] = next[<<i, g[i - 1]>>]
  BY <1>3 DEF Made
<1>6. QED
  BY <1>1, <1>4, <1>5

(* There are as many as one likes. *)
LEMMA MadeFor ==
  ASSUME NEW S, NEW a \in S, NEW next \in [Nat \X S -> S], NEW n \in Nat
  PROVE  \E f : Made(f, n, S, a, next)
<1> DEFINE T == {i \in Nat : ~ \E f : Made(f, i, S, a, next)}
<1> SUFFICES ASSUME n \in T PROVE FALSE
  OBVIOUS
<1>1. PICK i \in T : \A j \in T : i <= j
  BY LeastNumber, Zenon
<1>2. CASE i = 0
  <2> DEFINE f == [j \in 0 .. 0 |-> a]
  <2>1. Made(f, 0, S, a, next)
    BY DEF Made
  <2>2. QED
    BY <1>2, <2>1
<1>3. CASE i # 0
  <2>1. i \in Nat /\ i - 1 \in Nat /\ ~ (i <= i - 1)
    BY <1>3
  <2>2. PICK g : Made(g, i - 1, S, a, next)
    BY <1>1, <2>1
  <2> DEFINE f == [j \in 0 .. i |-> IF j = i THEN next[<<i, g[i - 1]>>] ELSE g[j]]
  <2>3. g \in [0 .. i - 1 -> S] /\ g[0] = a /\ \A j \in 0 .. i - 2 : g[j + 1] = next[<<j + 1, g[j]>>]
    BY <2>1, <2>2 DEF Made
  <2>4. f \in [0 .. i -> S] /\ f[0] = a
    BY <2>1, <2>3
  <2>5. ASSUME NEW j \in 0 .. i - 1 PROVE f[j + 1] = next[<<j + 1, f[j]>>]
    <3>1. CASE j = i - 1
      <4>1. j + 1 = i /\ j \in 0 .. i - 1 /\ j # i /\ i \in 0 .. i /\ j \in 0 .. i
        BY <2>1, <3>1
      <4>2. f[i] = next[<<i, g[i - 1]>>] /\ f[j] = g[j]
        BY <4>1
      <4>3. QED
        BY <3>1, <4>1, <4>2
    <3>2. CASE j # i - 1
      <4>1. j \in 0 .. i - 2 /\ j + 1 \in 0 .. i /\ j \in 0 .. i /\ j # i /\ j + 1 # i
        BY <2>1, <3>2
      <4>2. f[j + 1] = g[j + 1] /\ f[j] = g[j]
        BY <4>1
      <4>3. QED
        BY <2>3, <4>1, <4>2
    <3>3. QED
      BY <3>1, <3>2
  <2> HIDE DEF f
  <2>6. Made(f, i, S, a, next)
    BY <2>4, <2>5 DEF Made
  <2>7. QED
    BY <2>6
<1>4. QED
  BY <1>2, <1>3

(* Without end *)
AllMade(f, S, a, next) ==
  /\ f \in [Nat -> S] /\ f[0] = a
  /\ \A n \in Nat : f[n + 1] = next[<<n + 1, f[n]>>]

(* And they never end. *)
LEMMA MadeForever ==
  ASSUME NEW S, NEW a \in S, NEW next \in [Nat \X S -> S]
  PROVE  \E f : AllMade(f, S, a, next)
<1> DEFINE Some(n) == CHOOSE f : Made(f, n, S, a, next)
           h == [n \in Nat |-> Some(n)[n]]
<1>1. \A n \in Nat : Made(Some(n), n, S, a, next)
  BY MadeFor
<1> HIDE DEF Some
<1>2. ASSUME NEW n \in Nat
      PROVE  h[n] \in S /\ h[n + 1] = next[<<n + 1, h[n]>>]
  <2>1. Made(Some(n), n, S, a, next) /\ Made(Some(n + 1), n + 1, S, a, next)
    BY <1>1
  <2>2. Some(n)[n] = Some(n + 1)[n]
    <3>1. n + 1 \in Nat /\ n <= n /\ n <= n + 1
      OBVIOUS
    <3> DEFINE f == Some(n)
               g == Some(n + 1)
    <3> HIDE DEF h, f, g
    <3>2. Made(f, n, S, a, next) /\ Made(g, n + 1, S, a, next) /\ n + 1 \in Nat
      BY <2>1, <3>1 DEF f, g
    <3>3. f[n] = g[n]
      BY <3>1, <3>2, MadeOnce
    <3>4. QED
      BY <3>3 DEF f, g
  <2>3. Some(n + 1)[n + 1] = next[<<n + 1, Some(n + 1)[n]>>] /\ Some(n)[n] \in S
    BY <2>1 DEF Made
  <2>4. QED
    BY <2>2, <2>3
<1>3. h[0] = a
  BY <1>1 DEF Made
<1>4. h \in [Nat -> S]
  BY <1>2
<1>5. QED
  BY <1>2, <1>3, <1>4 DEF AllMade

-----------------------------------------------------------------------------
(* Where characters are *)

(* Line and column; one place before another *)
AnyPlace == Nat \X (Nat \ {0})
Before(p, q) == p[1] < q[1] \/ (p[1] = q[1] /\ p[2] < q[2])

(* Each character is at a later place than the one before it. *)
LEMMA PlaceIsLater ==
  ASSUME NEW p \in AnyPlace, NEW c
  PROVE  PlaceAfter(p, c) \in AnyPlace /\ Before(p, PlaceAfter(p, c))
<1>1. PICK l \in Nat, k \in Nat \ {0} : p = <<l, k>>
  BY DEF AnyPlace
<1> DEFINE tab == ((k - 1) \div 8 + 1) * 8 + 1
<1>2. tab \in Nat \ {0} /\ k < tab
  OBVIOUS
<1> HIDE DEF tab
<1>3. PlaceAfter(p, c) \in {<<l + 1, 1>>, <<l, tab>>, <<l, k + 1>>}
  BY <1>1 DEF PlaceAfter, tab
<1>4. QED
  BY <1>1, <1>2, <1>3 DEF AnyPlace, Before

(* The places of characters, and of the end *)
ArePlaces(p, chars) ==
  /\ p \in [1 .. Len(chars) + 1 -> AnyPlace] /\ p[1] = <<1, 1>>
  /\ \A i \in 1 .. Len(chars) : p[i + 1] = PlaceAfter(p[i], chars[i])

(* Two characters are at two places. *)
LEMMA PlacesDiffer ==
  ASSUME NEW S, NEW chars \in Seq(S), NEW p, ArePlaces(p, chars), NEW i \in DOMAIN p, NEW j \in DOMAIN p, i < j
  PROVE  Before(p[i], p[j])
<1> DEFINE T == {k \in Nat : i < k /\ k <= Len(chars) + 1 /\ ~ Before(p[i], p[k])}
<1>0. p \in [1 .. Len(chars) + 1 -> AnyPlace] /\ Len(chars) \in Nat
  BY DEF ArePlaces
<1> SUFFICES ASSUME j \in T PROVE FALSE
  BY <1>0
<1>1. PICK k \in T : \A l \in T : k <= l
  BY LeastNumber, Zenon
<1>2. k - 1 \in 1 .. Len(chars) /\ (k - 1) + 1 = k /\ ~ (k <= k - 1) /\ k - 1 \in Nat /\ i <= k - 1
  BY <1>0
<1>3. p[k - 1] \in AnyPlace /\ p[i] \in AnyPlace /\ p[k] \in AnyPlace
  BY <1>0, <1>2
<1>4. Before(p[k - 1], p[k])
  BY <1>2, <1>3, PlaceIsLater DEF ArePlaces
<1>5. p[i] = p[k - 1] \/ Before(p[i], p[k - 1])
  BY <1>1, <1>2
<1>6. \A x, y, z \in AnyPlace : Before(x, y) /\ Before(y, z) => Before(x, z)
  BY DEF AnyPlace, Before
<1>7. Before(p[i], p[k])
  BY <1>3, <1>4, <1>5, <1>6
<1>8. QED
  BY <1>7

(* So a place is that of one character. *)
LEMMA IndexIs ==
  ASSUME NEW S, NEW chars \in Seq(S), NEW p, ArePlaces(p, chars), NEW i \in DOMAIN p
  PROVE  Index(p, p[i]) = i
<1>1. p \in [1 .. Len(chars) + 1 -> AnyPlace] /\ Len(chars) \in Nat
  BY DEF ArePlaces
<1>2. \A q \in AnyPlace : ~ Before(q, q)
  BY DEF Before, AnyPlace
<1>3. \A k \in DOMAIN p : p[k] = p[i] => k = i
  <2> SUFFICES ASSUME NEW k \in DOMAIN p, p[k] = p[i], k # i PROVE FALSE
    OBVIOUS
  <2>1. k \in Nat /\ i \in Nat /\ (k < i \/ i < k)
    BY <1>1
  <2>2. Before(p[k], p[i])
    BY <2>1, PlacesDiffer
  <2>3. QED
    BY <1>1, <1>2, <2>2
<1>4. QED
  BY <1>3 DEF Index

(* The places of a text are Places. *)
LEMMA PlacesAre ==
  ASSUME NEW S, text \in Seq(S)
  PROVE  ArePlaces(Places, text)
<1> DEFINE next == [x \in Nat \X AnyPlace |-> PlaceAfter(x[2], text[x[1]])]
           Body(f) == [i \in Nat |-> IF i = 0 THEN <<1, 1>> ELSE PlaceAfter(f[i - 1], text[i])]
           c == CHOOSE f : f = Body(f)
<1>1. <<1, 1>> \in AnyPlace
  BY DEF AnyPlace
<1>2. next \in [Nat \X AnyPlace -> AnyPlace]
  BY PlaceIsLater
<1>3. \A n \in Nat, p \in AnyPlace : next[<<n, p>>] = PlaceAfter(p, text[n])
  OBVIOUS
<1> HIDE DEF next
<1>4. PICK f : /\ f \in [Nat -> AnyPlace] /\ f[0] = <<1, 1>>
               /\ \A n \in Nat : f[n + 1] = next[<<n + 1, f[n]>>]
  <2>1. \E f : AllMade(f, AnyPlace, <<1, 1>>, next)
    BY <1>1, <1>2, MadeForever, Zenon
  <2>2. QED
    BY <2>1, Zenon DEF AllMade
<1>5. f = Body(f)
  <2>1. ASSUME NEW n \in Nat PROVE f[n] = IF n = 0 THEN <<1, 1>> ELSE PlaceAfter(f[n - 1], text[n])
    <3>1. CASE n = 0
      BY <1>4, <3>1
    <3>2. CASE n # 0
      <4>1. n - 1 \in Nat /\ (n - 1) + 1 = n
        BY <3>2
      <4>2. f[n] = next[<<n, f[n - 1]>>] /\ f[n - 1] \in AnyPlace
        BY <1>4, <4>1
      <4>3. QED
        BY <1>3, <3>2, <4>2
    <3>3. QED
      BY <3>1, <3>2
  <2>2. QED
    BY <1>4, <2>1
<1>6. c = Body(c)
  <2> HIDE DEF Body
  <2>1. QED
    BY <1>5
<1>7. Places = [i \in 1 .. Len(text) + 1 |-> c[i - 1]]
  BY Zenon DEF Places
<1> HIDE DEF c
<1>8. c[0] = <<1, 1>> /\ \A i \in Nat : c[i + 1] = PlaceAfter(c[i], text[i + 1])
  <2>1. c[0] = <<1, 1>>
    BY <1>6
  <2>2. ASSUME NEW i \in Nat PROVE c[i + 1] = PlaceAfter(c[i], text[i + 1])
    <3>1. i + 1 \in Nat /\ i + 1 # 0 /\ (i + 1) - 1 = i
      OBVIOUS
    <3>2. Body(c)[i + 1] = PlaceAfter(c[(i + 1) - 1], text[i + 1])
      BY <3>1
    <3>3. QED
      BY <1>6, <3>1, <3>2
  <2>3. QED
    BY <2>1, <2>2
<1>9. \A i \in Nat : c[i] \in AnyPlace
  <2> DEFINE T == {i \in Nat : c[i] \notin AnyPlace}
  <2> SUFFICES ASSUME NEW i \in T PROVE FALSE
    OBVIOUS
  <2>1. PICK k \in T : \A l \in T : k <= l
    BY LeastNumber, Zenon
  <2>2. k # 0
    BY <1>1, <1>8, <2>1
  <2>3. k - 1 \in Nat /\ (k - 1) + 1 = k /\ ~ (k <= k - 1)
    BY <2>2
  <2>4. c[k - 1] \in AnyPlace
    BY <2>1, <2>3
  <2>5. c[k] = PlaceAfter(c[k - 1], text[k])
    BY <1>8, <2>3
  <2>6. QED
    BY <2>1, <2>4, <2>5, PlaceIsLater
<1>10. QED
  <2>1. Len(text) \in Nat
    OBVIOUS
  <2>2. Places \in [1 .. Len(text) + 1 -> AnyPlace]
    BY <1>7, <1>9, <2>1
  <2>3. Places[1] = <<1, 1>>
    BY <1>7, <1>8, <2>1
  <2>4. ASSUME NEW i \in 1 .. Len(text) PROVE Places[i + 1] = PlaceAfter(Places[i], text[i])
    <3>1. i - 1 \in Nat /\ (i - 1) + 1 = i /\ (i + 1) - 1 = i /\ i + 1 \in 1 .. Len(text) + 1
          /\ i \in 1 .. Len(text) + 1
      BY <2>1
    <3>2. Places[i + 1] = c[i] /\ Places[i] = c[i - 1]
      BY <1>7, <3>1
    <3>3. QED
      BY <1>8, <3>1, <3>2
  <2>5. QED
    BY <2>2, <2>3, <2>4 DEF ArePlaces

-----------------------------------------------------------------------------
(* A character at a time *)

(* A tokenizer by its parts *)
Tokenizing(buffer, type, quotes, escape, start, place) ==
  [buffer |-> buffer, type |-> type, quotes |-> quotes, escape |-> escape,
   start |-> start, place |-> place]

(* Named, since the provers take truth values for none of the values. *)
No == FALSE
Yes == TRUE

Between(start, place) == Tokenizing(<<>>, "bareword", <<>>, No, start, place)

(* What reading gave, if it did not throw. *)
Was(read, t, given) == read.throws \/ (read.tokenizer = t /\ read.tokens = given)

TokenizerFields == {"buffer", "type", "quotes", "escape", "start", "place"}

(* Its parts, and the token *)
LEMMA TokenizerParts ==
  ASSUME NEW b, NEW ty, NEW q, NEW e, NEW s, NEW p
  PROVE  LET t == Tokenizing(b, ty, q, e, s, p) IN
         /\ t.buffer = b /\ t.type = ty /\ t.quotes = q /\ t.escape = e /\ t.start = s /\ t.place = p
         /\ DOMAIN t = TokenizerFields
         /\ Token(t) = [text |-> b, type |-> ty, start |-> s, end |-> p]
<1> DEFINE t == Tokenizing(b, ty, q, e, s, p)
<1>1. /\ t.buffer = b /\ t.type = ty /\ t.quotes = q /\ t.escape = e /\ t.start = s /\ t.place = p
      /\ DOMAIN t = TokenizerFields
  BY DEF Tokenizing, TokenizerFields
<1>2. Token(t) = [text |-> b, type |-> ty, start |-> s, end |-> p]
  BY <1>1 DEF Token
<1>3. QED
  BY <1>1, <1>2

(* What the parts of a tokenizer become: by postChar, ... *)
LEMMA MovedIs ==
  \A b, ty, q, e, s, p, x :
    Moved(Tokenizing(b, ty, q, e, s, p), x) = Tokenizing(b, ty, q, e, s, PlaceAfter(p, x))
BY SMTT(30) DEF Tokenizing, Moved

(* ... by a character of the token, ... *)
LEMMA PutIs ==
  \A b, ty, q, e, s, p, x :
    Put(Tokenizing(b, ty, q, e, s, p), x) = Tokenizing(Append(b, x), ty, q, e, s, p)
BY SMTT(30) DEF Tokenizing, Put

(* ... by its beginning, ... *)
LEMMA StartIs ==
  \A b, ty, q, e, s, p, x :
    Start(Tokenizing(b, ty, q, e, s, p), x) = Tokenizing(b, x, q, e, p, p)
<1> SUFFICES ASSUME NEW b, NEW ty, NEW q, NEW e, NEW s, NEW p, NEW x
             PROVE  Start(Tokenizing(b, ty, q, e, s, p), x) = Tokenizing(b, x, q, e, p, p)
  OBVIOUS
<1> DEFINE t == Tokenizing(b, ty, q, e, s, p)
<1>1. t.buffer = b /\ t.quotes = q /\ t.escape = e /\ t.place = p /\ DOMAIN t = TokenizerFields
  BY TokenizerParts
<1> HIDE DEF t
<1>2. Start(t, x) = [f \in TokenizerFields |->
                       IF f = "type" THEN x ELSE IF f = "start" THEN p ELSE t[f]]
  BY <1>1 DEF Start
<1>3. Start(t, x) = Tokenizing(b, x, q, e, p, p)
  BY <1>1, <1>2 DEF Tokenizing, TokenizerFields
<1>4. QED
  BY <1>3 DEF t

(* ... by its end, ... *)
LEMMA FlushedIs ==
  \A b, ty, q, e, s, p :
    Flushed(Tokenizing(b, ty, q, e, s, p)) = Tokenizing(<<>>, "bareword", q, e, s, p)
<1> SUFFICES ASSUME NEW b, NEW ty, NEW q, NEW e, NEW s, NEW p
             PROVE  Flushed(Tokenizing(b, ty, q, e, s, p)) = Tokenizing(<<>>, "bareword", q, e, s, p)
  OBVIOUS
<1> DEFINE t == Tokenizing(b, ty, q, e, s, p)
<1>1. /\ t.quotes = q /\ t.escape = e /\ t.start = s /\ t.place = p /\ DOMAIN t = TokenizerFields
  BY TokenizerParts
<1> HIDE DEF t
<1>2. Flushed(t) = [f \in TokenizerFields |->
                      IF f = "buffer" THEN <<>> ELSE IF f = "type" THEN "bareword" ELSE t[f]]
  BY <1>1 DEF Flushed
<1>3. Flushed(t) = Tokenizing(<<>>, "bareword", q, e, s, p)
  BY <1>1, <1>2 DEF Tokenizing, TokenizerFields
<1>4. QED
  BY <1>3 DEF t

(* ... and by quotes and backslashes. *)
LEMMA QuotesAre ==
  \A b, ty, q, e, s, p, x :
    [Tokenizing(b, ty, q, e, s, p) EXCEPT !.quotes = x] = Tokenizing(b, ty, x, e, s, p)
BY DEF Tokenizing

(* A backslash changes nothing but escape. *)
LEMMA EscapeIs ==
  \A b, ty, q, e, s, p, x :
    [Tokenizing(b, ty, q, e, s, p) EXCEPT !.escape = x] = Tokenizing(b, ty, q, x, s, p)
BY DEF Tokenizing

(* Goes and Gives, by their parts *)
LEMMA Outcomes ==
  ASSUME NEW t, NEW u
  PROVE  /\ Was(Goes(u), u, <<>>)
         /\ IsToken(t) => Was(Gives(t, u), u, <<Token(t)>>)
         /\ ~ IsToken(t) => Was(Gives(t, u), u, <<>>)
         /\ \A v, given : Was(Throws(t), v, given)
BY DEF Was, Goes, Gives, Throws

(* Quotes are neither white nor the beginning of a comment. *)
LEMMA QuotesApart ==
  /\ DOMAIN QuoteType = {"quote", "open", "apostrophe"}
  /\ \A c \in White \cup {"sharp"} : c \notin DOMAIN QuoteType
  /\ "sharp" \notin White
  /\ \A c \in DOMAIN QuoteType : QuoteType[c] \in {"double", "single"}
BY DEF QuoteType, White

(* Between tokens one begins, unless the character is white. *)
LEMMA ReadBetween ==
  ASSUME NEW s, NEW p, NEW c, NEW t, t = Between(s, p)
  PROVE  LET next == PlaceAfter(p, c) IN
         /\ c \in White => Was(Read(t, c), Between(s, next), <<>>)
         /\ c = "sharp" => Was(Read(t, c), Tokenizing(<<>>, "comment", <<>>, No, p, next), <<>>)
         /\ c \in DOMAIN QuoteType =>
              Was(Read(t, c), Tokenizing(<<>>, QuoteType[c], <<c>>, No, p, next), <<>>)
         /\ c \notin White \cup {"sharp"} \cup DOMAIN QuoteType =>
              Was(Read(t, c), Tokenizing(<<c>>, "bareword", <<>>, No, p, next), <<>>)
<1> DEFINE next == PlaceAfter(p, c)
<1> HIDE DEF next
<1>1. t = Tokenizing(<<>>, "bareword", <<>>, No, s, p)
  BY DEF Between
<1>2. /\ t.buffer = <<>> /\ t.type = "bareword" /\ t.quotes = <<>> /\ t.escape = No
      /\ Flushed(t) = t /\ \A x : Start(t, x) = Tokenizing(<<>>, x, <<>>, No, p, p)
  BY <1>1, StartIs, FlushedIs, TokenizerParts
<1>3. Read(t, c) = ReadBare(t, c)
  BY <1>2 DEF Read, No, Yes
<1>4. ~ IsToken(t)
  BY <1>2 DEF IsToken
<1>5. ASSUME c \in White PROVE Was(Read(t, c), Between(s, next), <<>>)
  <2>1. Read(t, c) = Gives(t, Moved(t, c))
    BY <1>2, <1>3, <1>5, QuotesApart, Zenon DEF ReadBare
  <2>2. Moved(t, c) = Between(s, next)
    BY <1>1, MovedIs DEF Between, next
  <2>3. QED
    BY <1>4, <2>1, <2>2, Outcomes
<1>6. ASSUME c = "sharp" PROVE Was(Read(t, c), Tokenizing(<<>>, "comment", <<>>, No, p, next), <<>>)
  <2>1. Read(t, c) = Gives(t, Moved(Start(t, "comment"), c))
    BY <1>2, <1>3, <1>6, QuotesApart, Zenon DEF ReadBare
  <2>2. Moved(Start(t, "comment"), c) = Tokenizing(<<>>, "comment", <<>>, No, p, next)
    BY <1>2, MovedIs DEF next
  <2>3. QED
    BY <1>4, <2>1, <2>2, Outcomes
<1>8. ASSUME c \in DOMAIN QuoteType
      PROVE  Was(Read(t, c), Tokenizing(<<>>, QuoteType[c], <<c>>, No, p, next), <<>>)
  <2>1. c \notin White /\ c # "sharp"
    BY <1>8, QuotesApart
  <2>2. Read(t, c) = Goes([Moved(Start(t, QuoteType[c]), c) EXCEPT !.quotes = <<c>>])
    BY <1>2, <1>3, <1>8, <2>1 DEF ReadBare, No, Yes
  <2>3. Moved(Start(t, QuoteType[c]), c) = Tokenizing(<<>>, QuoteType[c], <<>>, No, p, next)
    BY <1>2, MovedIs DEF next
  <2>4. [Moved(Start(t, QuoteType[c]), c) EXCEPT !.quotes = <<c>>]
        = Tokenizing(<<>>, QuoteType[c], <<c>>, No, p, next)
    BY <2>3, MovedIs, QuotesAre, TokenizerParts
  <2>5. QED
    BY <2>2, <2>4, Outcomes
<1>9. ASSUME c \notin White \cup {"sharp"} \cup DOMAIN QuoteType
      PROVE  Was(Read(t, c), Tokenizing(<<c>>, "bareword", <<>>, No, p, next), <<>>)
  <2>1. Read(t, c) = Goes(Moved(Put(Start(t, "bareword"), c), c))
    BY <1>2, <1>3, <1>9 DEF ReadBare, No, Yes
  <2>2. Put(Start(t, "bareword"), c) = Tokenizing(<<c>>, "bareword", <<>>, No, p, p)
    <3>1. Append(<<>>, c) = <<c>>
      OBVIOUS
    <3>2. QED
      <4>1. Start(t, "bareword") = Tokenizing(<<>>, "bareword", <<>>, No, p, p)
        BY <1>2
      <4> DEFINE empty == <<>>
      <4> HIDE DEF empty
      <4>2. Start(t, "bareword") = Tokenizing(empty, "bareword", <<>>, No, p, p)
        BY <4>1 DEF empty
      <4>3. Put(Start(t, "bareword"), c) = Tokenizing(Append(empty, c), "bareword", <<>>, No, p, p)
        BY <4>2, PutIs
      <4>4. QED
        BY <3>1, <4>3, Zenon DEF empty
  <2>3. Moved(Put(Start(t, "bareword"), c), c) = Tokenizing(<<c>>, "bareword", <<>>, No, p, next)
    BY <2>2, MovedIs, StartIs DEF next
  <2>4. QED
    BY <2>1, <2>3, Outcomes
<1>10. QED
  BY <1>5, <1>6, <1>8, <1>9 DEF next

(* In a bareword it goes on, unless white or a comment ends it. *)
LEMMA ReadInWord ==
  ASSUME NEW b, b # <<>>, NEW s, NEW p, NEW c,
         NEW t, t = Tokenizing(b, "bareword", <<>>, No, s, p)
  PROVE  LET next == PlaceAfter(p, c) IN
         /\ c \in White => Was(Read(t, c), Between(s, next), <<Token(t)>>)
         /\ c = "sharp" =>
              Was(Read(t, c), Tokenizing(<<>>, "comment", <<>>, No, p, next), <<Token(t)>>)
         /\ c \notin White \cup {"sharp"} =>
              Was(Read(t, c), Tokenizing(Append(b, c), "bareword", <<>>, No, s, next), <<>>)
<1> DEFINE next == PlaceAfter(p, c)
<1> HIDE DEF next
<1>1. /\ t.buffer = b /\ t.type = "bareword" /\ t.quotes = <<>> /\ t.escape = No
      /\ Flushed(t) = Between(s, p)
  BY FlushedIs, TokenizerParts DEF Between
<1>2. Read(t, c) = ReadBare(t, c)
  BY <1>1 DEF Read, No, Yes
<1>3. IsToken(t)
  BY <1>1 DEF IsToken
<1>4. ASSUME c \in White PROVE Was(Read(t, c), Between(s, next), <<Token(t)>>)
  <2>1. Read(t, c) = Gives(t, Moved(Flushed(t), c))
    BY <1>2, <1>4, QuotesApart, Zenon DEF ReadBare
  <2>2. Moved(Flushed(t), c) = Between(s, next)
    BY <1>1, MovedIs DEF Between, next
  <2>3. QED
    BY <1>3, <2>1, <2>2, Outcomes
<1>5. ASSUME c = "sharp"
      PROVE  Was(Read(t, c), Tokenizing(<<>>, "comment", <<>>, No, p, next), <<Token(t)>>)
  <2>1. Read(t, c) = Gives(t, Moved(Start(Flushed(t), "comment"), c))
    BY <1>2, <1>5, QuotesApart, Zenon DEF ReadBare
  <2>2. Start(Flushed(t), "comment") = Tokenizing(<<>>, "comment", <<>>, No, p, p)
    BY <1>1, StartIs DEF Between
  <2>3. Moved(Start(Flushed(t), "comment"), c) = Tokenizing(<<>>, "comment", <<>>, No, p, next)
    BY <2>2, MovedIs DEF next
  <2>4. QED
    BY <1>3, <2>1, <2>3, Outcomes
<1>6. ASSUME c \notin White \cup {"sharp"}
      PROVE  Was(Read(t, c), Tokenizing(Append(b, c), "bareword", <<>>, No, s, next), <<>>)
  <2>1. Read(t, c) \in {Throws(t), Goes(Moved(Put(t, c), c))}
    BY <1>1, <1>2, <1>6 DEF ReadBare, No, Yes
  <2>2. Put(t, c) = Tokenizing(Append(b, c), "bareword", <<>>, No, s, p)
    BY PutIs
  <2>3. Moved(Put(t, c), c) = Tokenizing(Append(b, c), "bareword", <<>>, No, s, next)
    BY <2>2, MovedIs DEF next
  <2>4. QED
    BY <2>1, <2>3, Outcomes
<1>7. QED
  BY <1>4, <1>5, <1>6 DEF next

(* A comment goes on to the end of the line. *)
LEMMA ReadsComment ==
  ASSUME NEW b, NEW s, NEW p, NEW c,
         NEW t, t = Tokenizing(b, "comment", <<>>, No, s, p)
  PROVE  LET next == PlaceAfter(p, c) IN
         /\ c = "newline" => Was(Read(t, c), Between(s, next), <<Token(t)>>)
         /\ c # "newline" =>
              Was(Read(t, c), Tokenizing(Append(b, c), "comment", <<>>, No, s, next), <<>>)
<1> DEFINE next == PlaceAfter(p, c)
<1> HIDE DEF next
<1>1. t.type = "comment" /\ Flushed(t) = Between(s, p)
  BY FlushedIs, TokenizerParts DEF Between
<1>2. Read(t, c) = ReadInComment(t, c)
  BY <1>1 DEF Read, No, Yes
<1>3. IsToken(t)
  BY <1>1 DEF IsToken
<1>4. ASSUME c = "newline" PROVE Was(Read(t, c), Between(s, next), <<Token(t)>>)
  <2>1. Read(t, c) = Gives(t, Moved(Flushed(t), c))
    BY <1>2, <1>4 DEF ReadInComment
  <2>2. Moved(Flushed(t), c) = Between(s, next)
    BY <1>1, MovedIs DEF Between, next
  <2>3. QED
    BY <1>3, <2>1, <2>2, Outcomes
<1>5. ASSUME c # "newline"
      PROVE  Was(Read(t, c), Tokenizing(Append(b, c), "comment", <<>>, No, s, next), <<>>)
  <2>1. Read(t, c) = Goes(Moved(Put(t, c), c))
    BY <1>2, <1>5 DEF ReadInComment
  <2>2. Put(t, c) = Tokenizing(Append(b, c), "comment", <<>>, No, s, p)
    BY PutIs
  <2>3. Moved(Put(t, c), c) = Tokenizing(Append(b, c), "comment", <<>>, No, s, next)
    BY <2>2, MovedIs DEF next
  <2>4. QED
    BY <2>1, <2>3, Outcomes
<1>6. QED
  BY <1>4, <1>5 DEF next

(* Nested quotes, without escapes: the outermost close ends the token. *)
LEMMA ReadNested ==
  ASSUME NEW b, NEW ty \in {"double", "single"}, NEW q \in Seq({"open"}), q # <<>>, NEW s, NEW p, NEW c,
         NEW t, t = Tokenizing(b, ty, q, No, s, p)
  PROVE  LET next == PlaceAfter(p, c) IN
         \/ /\ c = "close"
            /\ Was(Read(t, c), Between(s, next), <<[text |-> b, type |-> ty, start |-> s, end |-> next]>>)
         \/ \E r \in Seq({"open"}) :
              r # <<>> /\ Was(Read(t, c), Tokenizing(Append(b, c), ty, r, No, s, next), <<>>)
<1> DEFINE next == PlaceAfter(p, c)
           outer == Tail(q)
           more == <<c>> \o q
           rest == [t EXCEPT !.quotes = outer]
           inner == [t EXCEPT !.quotes = more]
<1> HIDE DEF next
<1>1. /\ t.buffer = b /\ t.type = ty /\ t.quotes = q /\ t.escape = No
      /\ rest = Tokenizing(b, ty, outer, No, s, p)
      /\ inner = Tokenizing(b, ty, more, No, s, p)
  <2>1. t.buffer = b /\ t.type = ty /\ t.quotes = q /\ t.escape = No
    BY TokenizerParts
  <2> HIDE DEF outer, more
  <2>2. rest = Tokenizing(b, ty, outer, No, s, p)
    BY QuotesAre
  <2>3. inner = Tokenizing(b, ty, more, No, s, p)
    BY QuotesAre
  <2>4. QED
    BY <2>1, <2>2, <2>3
<1>2. q[1] = "open" /\ outer \in Seq({"open"}) /\ outer = Tail(q)
  OBVIOUS
<1>3. Read(t, c) = ReadQuoted(t, c)
  BY <1>1 DEF Read, No, Yes
<1>4. rest = [t EXCEPT !.quotes = Tail(@)] /\ inner = [t EXCEPT !.quotes = <<c>> \o @]
  BY <1>1
<1> HIDE DEF outer, more
<1>5. /\ Moved(rest, c) = Tokenizing(b, ty, outer, No, s, next)
      /\ Put(rest, c) = Tokenizing(Append(b, c), ty, outer, No, s, p)
      /\ Put(inner, c) = Tokenizing(Append(b, c), ty, more, No, s, p)
      /\ Put(t, c) = Tokenizing(Append(b, c), ty, q, No, s, p)
  <2>1. Moved(rest, c) = Tokenizing(b, ty, outer, No, s, next)
    BY <1>1, MovedIs DEF next
  <2>2. Put(rest, c) = Tokenizing(Append(b, c), ty, outer, No, s, p)
    BY <1>1, PutIs
  <2>3. Put(inner, c) = Tokenizing(Append(b, c), ty, more, No, s, p)
    BY <1>1, PutIs
  <2>4. Put(t, c) = Tokenizing(Append(b, c), ty, q, No, s, p)
    BY PutIs
  <2>5. QED
    BY <2>1, <2>2, <2>3, <2>4
<1>6. /\ Moved(Put(rest, c), c) = Tokenizing(Append(b, c), ty, outer, No, s, next)
      /\ Moved(Put(inner, c), c) = Tokenizing(Append(b, c), ty, more, No, s, next)
      /\ Moved(Put(t, c), c) = Tokenizing(Append(b, c), ty, q, No, s, next)
  BY <1>5, MovedIs DEF next
<1>7. rest.quotes = outer /\ Close("open") = "close"
  BY <1>1, TokenizerParts DEF Close
<1> HIDE DEF rest, inner
<1>8. CASE c = "close" /\ outer = <<>>
  <2>1. Read(t, c) = Gives(Moved(rest, c), Flushed(Moved(rest, c)))
    BY <1>1, <1>2, <1>3, <1>4, <1>7, <1>8, Zenon DEF ReadQuoted, No, Yes
  <2>2. /\ Flushed(Moved(rest, c)) = Between(s, next)
        /\ Token(Moved(rest, c)) = [text |-> b, type |-> ty, start |-> s, end |-> next]
        /\ Moved(rest, c).type = ty
    <3>1. Moved(rest, c) = Tokenizing(b, ty, <<>>, No, s, next)
      BY <1>5, <1>8
    <3>2. QED
      BY <3>1, FlushedIs, TokenizerParts DEF Between
  <2>3. IsToken(Moved(rest, c))
    BY <2>2 DEF IsToken
  <2>4. QED
    BY <1>8, <2>1, <2>2, <2>3, Outcomes DEF next
<1>9. CASE c = "close" /\ outer # <<>>
  <2>1. Read(t, c) = Goes(Moved(Put(rest, c), c))
    BY <1>1, <1>2, <1>3, <1>4, <1>7, <1>9, Zenon DEF ReadQuoted, No, Yes
  <2>2. QED
    BY <1>2, <1>6, <1>9, <2>1, Outcomes DEF next
<1>10. CASE c = "open"
  <2>1. Read(t, c) = Goes(Moved(Put(inner, c), c))
    BY <1>1, <1>2, <1>3, <1>4, <1>7, <1>10 DEF ReadQuoted, No, Yes
  <2>2. more \in Seq({"open"}) /\ more # <<>>
    BY <1>10 DEF more
  <2>3. QED
    BY <1>6, <2>1, <2>2, Outcomes DEF next
<1>11. CASE c \notin {"close", "open"}
  <2>1. Read(t, c) = Goes(Moved(Put(t, c), c))
    BY <1>1, <1>2, <1>3, <1>4, <1>7, <1>11 DEF ReadQuoted, No, Yes
  <2>2. QED
    BY <1>6, <2>1, Outcomes DEF next
<1>12. QED
  BY <1>8, <1>9, <1>10, <1>11

(* What Decode makes of characters: a record *)
IsDecoding(x) == \E e, b : e \in {No, Yes} /\ x = [escape |-> e, is |-> b]

(* Quotes with escapes: the text grows by what the character stands for, *)
(* which Decode says, too.                                               *)
LEMMA ReadEscapable ==
  ASSUME NEW x, IsDecoding(x), NEW ty \in {"double", "single"}, NEW o \in {"quote", "apostrophe"},
         NEW s, NEW p, NEW c,
         NEW t, t = Tokenizing(x.is, ty, <<o>>, x.escape, s, p)
  PROVE  LET next == PlaceAfter(p, c)
             acc  == Decode(x, c) IN
         \/ /\ c = o
            /\ Was(Read(t, c), Between(s, next), <<[text |-> x.is, type |-> ty, start |-> s, end |-> next]>>)
         \/ Was(Read(t, c), Tokenizing(acc.is, ty, <<o>>, acc.escape, s, next), <<>>)
<1>0. PICK e, b : e \in {No, Yes} /\ x = [escape |-> e, is |-> b]
  BY DEF IsDecoding
<1> DEFINE next == PlaceAfter(p, c)
           acc  == Decode(x, c)
           rest == [t EXCEPT !.quotes = Tail(<<o>>)]
<1>00. x.is = b /\ x.escape = e /\ t = Tokenizing(b, ty, <<o>>, e, s, p)
  BY <1>0
<1> HIDE DEF next
<1>1. /\ t.buffer = b /\ t.type = ty /\ t.quotes = <<o>> /\ t.escape = e
      /\ rest = Tokenizing(b, ty, <<>>, e, s, p)
  <2>1. Tail(<<o>>) = <<>>
    OBVIOUS
  <2>2. QED
    BY <1>00, <2>1, QuotesAre, TokenizerParts
<1>2. rest = [t EXCEPT !.quotes = Tail(@)] /\ rest.quotes = <<>>
  <2>1. rest = [t EXCEPT !.quotes = Tail(@)]
    BY <1>1
  <2> HIDE DEF rest
  <2>2. QED
    BY <1>1, <2>1, TokenizerParts
<1>3. Close(o) = o
  BY DEF Close
<1> HIDE DEF rest
<1>4. CASE e = Yes
  <2>1. Read(t, c) = ReadEscaped(t, c)
    BY <1>1, <1>4 DEF Read, No, Yes
  <2>2. acc = [escape |-> No, is |-> Append(b, Unescaped[c])]
    BY <1>0, <1>4 DEF Decode, No, Yes
  <2>3. CASE c \in DOMAIN Unescaped
    <3> DEFINE u == Moved(Put(t, Unescaped[c]), c)
    <3>1. Put(t, Unescaped[c]) = Tokenizing(Append(b, Unescaped[c]), ty, <<o>>, e, s, p)
      BY <1>00, PutIs
    <3>2. u = Tokenizing(Append(b, Unescaped[c]), ty, <<o>>, e, s, next)
      BY <3>1, MovedIs DEF next
    <3> HIDE DEF u
    <3>3. [u EXCEPT !.escape = No] = Tokenizing(Append(b, Unescaped[c]), ty, <<o>>, No, s, next)
      BY <3>2, EscapeIs, TokenizerParts
    <3>4. Read(t, c) = Goes([u EXCEPT !.escape = No])
      BY <2>1, <2>3 DEF ReadEscaped, No, Yes, u
    <3>5. acc.is = Append(b, Unescaped[c]) /\ acc.escape = No
      BY <2>2
    <3> HIDE DEF acc
    <3>6. Was(Read(t, c), Tokenizing(acc.is, ty, <<o>>, acc.escape, s, next), <<>>)
      BY <3>3, <3>4, <3>5, Outcomes, ZenonT(40)
    <3>7. QED
      BY <3>6 DEF next, acc
  <2>4. CASE c \notin DOMAIN Unescaped
    <3>1. Read(t, c) = Throws(t)
      BY <2>1, <2>4 DEF ReadEscaped, No, Yes
    <3>2. QED
      BY <3>1, Outcomes
  <2>5. QED
    BY <2>3, <2>4
<1>5. CASE e = No
  <2>1. Read(t, c) = ReadQuoted(t, c)
    <3>1. t.type # "comment" /\ ~ t.escape /\ t.quotes # <<>>
      <4>1. t.escape = FALSE
        BY <1>1, <1>5, Zenon DEF No
      <4>2. <<o>> # <<>>
        OBVIOUS
      <4>3. QED
        BY <1>1, <4>1, <4>2
    <3>2. QED
      BY <3>1, Zenon DEF Read
  <2>2. CASE c = o
    <3>1. Read(t, c) = Gives(Moved(rest, c), Flushed(Moved(rest, c)))
      <4>1. t.quotes[1] = o /\ Close(t.quotes[1]) = c
        BY <1>1, <1>3, <2>2
      <4>2. c # "backslash"
        BY <2>2
      <4>3. QED
        BY <1>2, <1>3, <2>1, <2>2, <4>1, <4>2, Zenon DEF ReadQuoted
    <3>2. Moved(rest, c) = Tokenizing(b, ty, <<>>, No, s, next)
      BY <1>1, <1>5, MovedIs DEF next
    <3>3. /\ Flushed(Moved(rest, c)) = Between(s, next)
          /\ Token(Moved(rest, c)) = [text |-> b, type |-> ty, start |-> s, end |-> next]
          /\ Moved(rest, c).type = ty
      BY <3>2, FlushedIs, TokenizerParts DEF Between
    <3>4. IsToken(Moved(rest, c))
      BY <3>3 DEF IsToken
    <3>5. QED
      BY <1>00, <2>2, <3>1, <3>3, <3>4, Outcomes DEF next
  <2>3. CASE c # o /\ c = "backslash"
    <3>1. acc = [escape |-> Yes, is |-> b]
      BY <1>0, <1>5, <2>3 DEF Decode, No, Yes
    <3>2. Read(t, c) = Goes([Moved(t, c) EXCEPT !.escape = Yes])
      <4>1. t.quotes[1] = o /\ c # Close(o) /\ o # "open"
        BY <1>1, <1>3, <2>3
      <4>2. QED
        BY <2>1, <2>3, <4>1, Zenon DEF ReadQuoted, Yes
    <3>3. Moved(t, c) = Tokenizing(b, ty, <<o>>, e, s, next)
      BY <1>00, MovedIs DEF next
    <3>4. [Moved(t, c) EXCEPT !.escape = Yes] = Tokenizing(b, ty, <<o>>, Yes, s, next)
      BY <3>3, MovedIs, EscapeIs, TokenizerParts
    <3>5. acc.is = b /\ acc.escape = Yes
      BY <3>1
    <3> HIDE DEF acc
    <3>6. Was(Read(t, c), Tokenizing(acc.is, ty, <<o>>, acc.escape, s, next), <<>>)
      BY <3>2, <3>4, <3>5, Outcomes, ZenonT(40)
    <3>7. QED
      BY <3>6 DEF next, acc
  <2>4. CASE c # o /\ c # "backslash"
    <3>1. acc = [escape |-> No, is |-> Append(b, c)]
      BY <1>0, <1>5, <2>4 DEF Decode, No, Yes
    <3>2. Read(t, c) = Goes(Moved(Put(t, c), c))
      <4>1. t.quotes[1] = o /\ c # Close(o) /\ ~ (c = o /\ c # Close(o))
        BY <1>1, <1>3, <2>4
      <4>2. QED
        BY <2>1, <2>4, <4>1, Zenon DEF ReadQuoted
    <3>3. Put(t, c) = Tokenizing(Append(b, c), ty, <<o>>, No, s, p)
      BY <1>00, <1>5, PutIs
    <3>4. Moved(Put(t, c), c) = Tokenizing(Append(b, c), ty, <<o>>, No, s, next)
      BY <3>3, MovedIs DEF next
    <3>5. acc.is = Append(b, c) /\ acc.escape = No
      BY <3>1
    <3> HIDE DEF acc
    <3>6. Was(Read(t, c), Tokenizing(acc.is, ty, <<o>>, acc.escape, s, next), <<>>)
      BY <3>2, <3>4, <3>5, Outcomes, ZenonT(40)
    <3>7. QED
      BY <3>6 DEF next, acc
  <2>5. QED
    BY <2>2, <2>3, <2>4
<1>6. QED
  BY <1>0, <1>4, <1>5

-----------------------------------------------------------------------------
(* What is in quotes *)

(* What Decode makes of the characters so far *)
Unfinished(chars, acc) ==
  \E d : /\ d[0] = [escape |-> No, is |-> <<>>]
         /\ \A i \in 1 .. Len(chars) : d[i] = Decode(d[i - 1], chars[i])
         /\ d[Len(chars)] = acc

(* Decoded exists, and is what Decode makes of one character after the other. *)
LEMMA DecodedIs ==
  ASSUME NEW S, NEW chars \in Seq(S), NEW acc, Unfinished(chars, acc)
  PROVE  Decoded(chars) = acc.is
<1> DEFINE none == [escape |-> No, is |-> <<>>]
           Letters == {chars[i] : i \in Nat} \cup {Unescaped[chars[i]] : i \in Nat}
           Accs == [escape : {No, Yes}, is : Seq(Letters)]
           next == [x \in Nat \X Accs |-> IF x[1] = 0 THEN none ELSE Decode(x[2], chars[x[1]])]
           Body(f) == [i \in Nat |-> IF i = 0 THEN none ELSE Decode(f[i - 1], chars[i])]
           c == CHOOSE f : f = Body(f)
<1>1. none \in Accs
  <2>1. <<>> \in Seq(Letters)
    OBVIOUS
  <2> HIDE DEF Letters
  <2>2. QED
    BY <2>1
<1>2. ASSUME NEW a \in Accs, NEW i \in Nat \ {0} PROVE Decode(a, chars[i]) \in Accs
  <2>1. chars[i] \in Letters /\ Unescaped[chars[i]] \in Letters
    OBVIOUS
  <2> HIDE DEF Letters
  <2>2. PICK e \in {No, Yes}, b \in Seq(Letters) : a = [escape |-> e, is |-> b]
    OBVIOUS
  <2>3. Append(b, chars[i]) \in Seq(Letters) /\ Append(b, Unescaped[chars[i]]) \in Seq(Letters)
    BY <2>1
  <2>4. Decode(a, chars[i]) \in {[escape |-> No, is |-> Append(b, chars[i])],
                                 [escape |-> No, is |-> Append(b, Unescaped[chars[i]])],
                                 [escape |-> Yes, is |-> b]}
    BY <2>2 DEF Decode, No, Yes
  <2>5. \A g \in {No, Yes}, d \in Seq(Letters) : [escape |-> g, is |-> d] \in Accs
    OBVIOUS
  <2> HIDE DEF Accs
  <2>6. QED
    BY <2>2, <2>3, <2>4, <2>5
<1> HIDE DEF Accs
<1>3. next \in [Nat \X Accs -> Accs]
  BY <1>1, <1>2
<1>4. \A n \in Nat \ {0}, a \in Accs : next[<<n, a>>] = Decode(a, chars[n])
  OBVIOUS
<1> HIDE DEF next, none
<1>5. PICK f : /\ f \in [Nat -> Accs] /\ f[0] = none
               /\ \A n \in Nat : f[n + 1] = next[<<n + 1, f[n]>>]
  <2>1. \E f : AllMade(f, Accs, none, next)
    BY <1>1, <1>3, MadeForever, Zenon
  <2>2. QED
    BY <2>1, Zenon DEF AllMade
<1>6. f = Body(f)
  <2>1. ASSUME NEW n \in Nat PROVE f[n] = IF n = 0 THEN none ELSE Decode(f[n - 1], chars[n])
    <3>1. CASE n = 0
      BY <1>5, <3>1
    <3>2. CASE n # 0
      <4>1. n - 1 \in Nat /\ (n - 1) + 1 = n
        BY <3>2
      <4>2. f[n] = next[<<n, f[n - 1]>>] /\ f[n - 1] \in Accs
        BY <1>5, <4>1
      <4>3. QED
        BY <1>4, <3>2, <4>2
    <3>3. QED
      BY <3>1, <3>2
  <2>2. QED
    BY <1>5, <2>1
<1>7. c = Body(c)
  <2> HIDE DEF Body
  <2>1. QED
    BY <1>6
<1>8. Decoded(chars) = c[Len(chars)].is
  BY Zenon DEF Decoded, none, No
<1> HIDE DEF c
<1>9. c[0] = none /\ \A i \in Nat \ {0} : c[i] = Decode(c[i - 1], chars[i])
  <2>1. c[0] = none
    BY <1>7
  <2>2. ASSUME NEW i \in Nat \ {0} PROVE c[i] = Decode(c[i - 1], chars[i])
    <3>1. Body(c)[i] = Decode(c[i - 1], chars[i])
      OBVIOUS
    <3>2. QED
      BY <1>7, <3>1
  <2>3. QED
    BY <2>1, <2>2
<1>10. PICK d : /\ d[0] = none /\ d[Len(chars)] = acc
                /\ \A i \in 1 .. Len(chars) : d[i] = Decode(d[i - 1], chars[i])
  BY DEF Unfinished, none
<1>11. Len(chars) \in Nat
  OBVIOUS
<1>12. c[Len(chars)] = d[Len(chars)]
  <2> DEFINE T == {i \in Nat : i <= Len(chars) /\ c[i] # d[i]}
  <2> SUFFICES ASSUME Len(chars) \in T PROVE FALSE
    BY <1>11
  <2>1. PICK k \in T : \A l \in T : k <= l
    BY LeastNumber, Zenon
  <2>2. k # 0
    BY <1>9, <1>10, <2>1
  <2>3. k - 1 \in Nat /\ ~ (k <= k - 1) /\ k \in 1 .. Len(chars) /\ k - 1 <= Len(chars)
    BY <1>11, <2>2
  <2>4. c[k - 1] = d[k - 1]
    BY <2>1, <2>3
  <2>5. QED
    BY <1>9, <1>10, <2>1, <2>3, <2>4
<1>13. QED
  BY <1>8, <1>10, <1>12

(* Nothing is read yet. *)
LEMMA NothingUnfinished == Unfinished(<<>>, [escape |-> No, is |-> <<>>])
<1> DEFINE none == [escape |-> No, is |-> <<>>]
           d == [i \in {0} |-> none]
<1>1. d[0] = none /\ Len(<<>>) = 0
  OBVIOUS
<1> HIDE DEF d, none
<1>2. \A i \in 1 .. Len(<<>>) : d[i] = Decode(d[i - 1], <<>>[i])
  BY <1>1
<1>3. QED
  BY <1>1, <1>2 DEF Unfinished, none

(* One character more *)
LEMMA UnfinishedGrows ==
  ASSUME NEW S, NEW chars \in Seq(S), NEW acc, Unfinished(chars, acc), NEW c \in S
  PROVE  Unfinished(Append(chars, c), Decode(acc, c))
<1>1. PICK d : /\ d[0] = [escape |-> No, is |-> <<>>] /\ d[Len(chars)] = acc
               /\ \A i \in 1 .. Len(chars) : d[i] = Decode(d[i - 1], chars[i])
  BY DEF Unfinished
<1> DEFINE n == Len(chars)
           longer == Append(chars, c)
           e == [i \in 0 .. n + 1 |-> IF i = n + 1 THEN Decode(acc, c) ELSE d[i]]
<1>2. n \in Nat /\ Len(longer) = n + 1 /\ longer[n + 1] = c /\ \A i \in 1 .. n : longer[i] = chars[i]
  OBVIOUS
<1> HIDE DEF longer, n
<1>3. /\ \A i \in 0 .. n : e[i] = d[i]
      /\ e[n + 1] = Decode(acc, c)
  BY <1>2
<1> HIDE DEF e
<1>4. ASSUME NEW i \in 1 .. n + 1 PROVE e[i] = Decode(e[i - 1], longer[i])
  <2>1. CASE i = n + 1
    <3>1. i - 1 = n /\ n \in 0 .. n
      BY <1>2, <2>1
    <3>2. QED
      BY <1>1, <1>2, <1>3, <2>1, <3>1 DEF n
  <2>2. CASE i # n + 1
    <3>1. i \in 1 .. n /\ i \in 0 .. n /\ i - 1 \in 0 .. n
      BY <1>2, <2>2
    <3>2. QED
      BY <1>1, <1>2, <1>3, <3>1 DEF n
  <2>3. QED
    BY <2>1, <2>2
<1>5. e[0] = d[0]
  BY <1>2, <1>3
<1>6. QED
  BY <1>1, <1>2, <1>3, <1>4, <1>5 DEF Unfinished, longer

(* Such records are what Decode makes, ... *)
LEMMA DecodingIs ==
  ASSUME NEW f \in {No, Yes}, NEW d
  PROVE  IsDecoding([escape |-> f, is |-> d])
<1> SUFFICES \E e, b : e \in {No, Yes} /\ [escape |-> f, is |-> d] = [escape |-> e, is |-> b]
  BY Zenon DEF IsDecoding
<1> WITNESS f, d
<1> QED
  OBVIOUS

(* ... of one of them, too. *)
LEMMA DecodeIs ==
  ASSUME NEW x, IsDecoding(x), NEW c
  PROVE  IsDecoding(Decode(x, c))
<1>1. PICK e, b : e \in {No, Yes} /\ x = [escape |-> e, is |-> b]
  BY DEF IsDecoding
<1>2. Decode(x, c) \in {[escape |-> No, is |-> Append(b, c)],
                        [escape |-> No, is |-> Append(b, Unescaped[c])],
                        [escape |-> Yes, is |-> b]}
  BY <1>1 DEF Decode, No, Yes
<1>3. QED
  BY <1>2, DecodingIs

-----------------------------------------------------------------------------
(* Pieces of the text *)

(* One character more ends the last of them, and leaves the others. *)
LEMMA PiecesGrow ==
  ASSUME NEW S, NEW chars \in Seq(S), NEW c \in S
  PROVE  LET longer == Append(chars, c) IN
         /\ Len(longer) = Len(chars) + 1 /\ Len(chars) \in Nat /\ longer \in Seq(S)
         /\ longer[Len(chars) + 1] = c
         /\ \A i \in 1 .. Len(chars) : longer[i] = chars[i]
         /\ \A i \in 1 .. Len(chars) + 1 :
              SubSeq(longer, i, Len(chars) + 1) = Append(SubSeq(chars, i, Len(chars)), c)
         /\ \A i \in 1 .. Len(chars) + 1, j \in 0 .. Len(chars) :
              SubSeq(longer, i, j) = SubSeq(chars, i, j)
         /\ \A i \in 1 .. Len(chars) + 1 : SubSeq(chars, i, Len(chars)) \in Seq(S)
<1> DEFINE n == Len(chars)
           longer == Append(chars, c)
<1>1. /\ Len(longer) = n + 1 /\ n \in Nat /\ longer \in Seq(S) /\ longer[n + 1] = c
      /\ \A i \in 1 .. n : longer[i] = chars[i]
  OBVIOUS
<1>2. \A i \in 1 .. n + 1 : SubSeq(chars, i, n) \in Seq(S)
  OBVIOUS
<1>3. ASSUME NEW i \in 1 .. n + 1, NEW j \in 0 .. n PROVE SubSeq(longer, i, j) = SubSeq(chars, i, j)
  BY <1>1
<1>4. ASSUME NEW i \in 1 .. n + 1 PROVE SubSeq(longer, i, n + 1) = Append(SubSeq(chars, i, n), c)
  BY <1>1, <1>2
<1>5. QED
  BY <1>1, <1>2, <1>3, <1>4

-----------------------------------------------------------------------------
(* Tokens and the characters that they stand for *)

(* The token is what the text has from its first character to the last. *)
Told(chars, token, first, last) ==
  \/ token.type = "bareword" /\ token.text = SubSeq(chars, first, last)
  \/ /\ token.type = "comment" /\ chars[first] = "sharp"
     /\ token.text = SubSeq(chars, first + 1, last)
  \/ /\ first < last /\ chars[first] \in DOMAIN QuoteType /\ chars[last] = Close(chars[first])
     /\ token.type = QuoteType[chars[first]]
     /\ token.text = IF chars[first] = "open" THEN SubSeq(chars, first + 1, last - 1)
                     ELSE Decoded(SubSeq(chars, first + 1, last - 1))

(* Tokens one after the other, each from a place to the next character after *)
(* it: with all that is not white among the first o characters.            *)
Covers(p, chars, toks, from, to, o) ==
  /\ \A k \in DOMAIN toks :
       /\ from[k] \in 1 .. o /\ to[k] \in 1 .. o + 1 /\ from[k] < to[k]
       /\ toks[k].start = p[from[k]] /\ toks[k].end = p[to[k]]
       /\ Told(chars, toks[k], from[k], to[k] - 1)
  /\ \A k, l \in DOMAIN toks : k < l => to[k] <= from[l]
  /\ \A i \in 1 .. o : chars[i] \notin White => \E k \in DOMAIN toks : from[k] <= i /\ i < to[k]

(* What the tokenizer has of the characters after those *)
Pending(p, chars, t, o) ==
  LET n == Len(chars)
      open == chars[o + 1]
      Has(buffer, type, quotes, escape) ==
        t = Tokenizing(buffer, type, quotes, escape, p[o + 1], p[n + 1])
  IN  \/ o = n /\ \E s : t = Between(s, p[n + 1])
      \/ o < n /\ Has(SubSeq(chars, o + 1, n), "bareword", <<>>, No)
      \/ o < n /\ open = "sharp" /\ Has(SubSeq(chars, o + 2, n), "comment", <<>>, No)
      \/ /\ o < n /\ open = "open"
         /\ \E q \in Seq({"open"}) : q # <<>> /\ Has(SubSeq(chars, o + 2, n), QuoteType[open], q, No)
      \/ /\ o < n /\ open \in {"quote", "apostrophe"}
         /\ \E x : /\ IsDecoding(x) /\ Unfinished(SubSeq(chars, o + 2, n), x)
                    /\ Has(x.is, QuoteType[open], <<open>>, x.escape)

(* All that was read is in tokens, white, or with the tokenizer. *)
Reads(chars, toks, t) ==
  \E p, from, to : \E o \in 0 .. Len(chars) :
    ArePlaces(p, chars) /\ IsSequence(toks) /\ Covers(p, chars, toks, from, to, o) /\ Pending(p, chars, t, o)

(* One more place *)
LEMMA PlacesGrow ==
  ASSUME NEW S, NEW chars \in Seq(S), NEW c \in S, NEW p, ArePlaces(p, chars)
  PROVE  \E q : /\ ArePlaces(q, Append(chars, c)) /\ \A i \in 1 .. Len(chars) + 1 : q[i] = p[i]
                /\ q[Len(chars) + 2] = PlaceAfter(p[Len(chars) + 1], c)
<1> DEFINE n == Len(chars)
           longer == Append(chars, c)
           q == [i \in 1 .. n + 2 |-> IF i = n + 2 THEN PlaceAfter(p[n + 1], c) ELSE p[i]]
<1>1. n \in Nat /\ Len(longer) = n + 1 /\ longer[n + 1] = c /\ \A i \in 1 .. n : longer[i] = chars[i]
  BY PiecesGrow
<1>2. /\ p \in [1 .. n + 1 -> AnyPlace] /\ p[1] = <<1, 1>>
      /\ \A i \in 1 .. n : p[i + 1] = PlaceAfter(p[i], chars[i])
  BY DEF ArePlaces
<1> HIDE DEF n, longer
<1>3. /\ \A i \in 1 .. n + 1 : q[i] = p[i]
      /\ q[n + 2] = PlaceAfter(p[n + 1], c)
      /\ DOMAIN q = 1 .. n + 2 /\ q = [i \in 1 .. n + 2 |-> q[i]]
  BY <1>1
<1>4. \A i \in 1 .. n + 2 : q[i] \in AnyPlace
  <2>1. PlaceAfter(p[n + 1], c) \in AnyPlace
    BY <1>1, <1>2, PlaceIsLater
  <2>2. QED
    BY <1>1, <1>2, <1>3, <2>1
<1> HIDE DEF q
<1>5. q \in [1 .. Len(longer) + 1 -> AnyPlace]
  BY <1>1, <1>3, <1>4
<1>6. q[1] = <<1, 1>>
  <2>1. 1 \in 1 .. n + 1
    BY <1>1
  <2>2. QED
    BY <1>2, <1>3, <2>1
<1>7. ASSUME NEW i \in 1 .. Len(longer) PROVE q[i + 1] = PlaceAfter(q[i], longer[i])
  <2>1. CASE i = n + 1
    <3>1. i + 1 = n + 2 /\ i \in 1 .. n + 1
      BY <1>1, <2>1
    <3>2. QED
      BY <1>1, <1>3, <2>1, <3>1
  <2>2. CASE i # n + 1
    <3>1. i \in 1 .. n /\ i \in 1 .. n + 1 /\ i + 1 \in 1 .. n + 1
      BY <1>1, <2>2
    <3>2. QED
      BY <1>1, <1>2, <1>3, <3>1
  <2>3. QED
    BY <2>1, <2>2
<1>8. ArePlaces(q, longer)
  BY <1>5, <1>6, <1>7 DEF ArePlaces
<1>9. QED
  BY <1>3, <1>8 DEF n, longer

(* A token stays what it is when characters follow. *)
LEMMA ToldStill ==
  ASSUME NEW S, NEW chars \in Seq(S), NEW c \in S, NEW token,
         NEW first \in 1 .. Len(chars), NEW last \in 1 .. Len(chars), Told(chars, token, first, last)
  PROVE  Told(Append(chars, c), token, first, last)
<1> DEFINE longer == Append(chars, c)
<1>1. /\ longer[first] = chars[first] /\ longer[last] = chars[last]
      /\ SubSeq(longer, first, last) = SubSeq(chars, first, last)
      /\ SubSeq(longer, first + 1, last) = SubSeq(chars, first + 1, last)
      /\ SubSeq(longer, first + 1, last - 1) = SubSeq(chars, first + 1, last - 1)
  <2>1. Len(chars) \in Nat /\ first \in 1 .. Len(chars) + 1 /\ first + 1 \in 1 .. Len(chars) + 1
        /\ last \in 0 .. Len(chars) /\ last - 1 \in 0 .. Len(chars)
    BY PiecesGrow
  <2>2. longer[first] = chars[first] /\ longer[last] = chars[last]
    BY PiecesGrow
  <2>3. \A i \in 1 .. Len(chars) + 1, j \in 0 .. Len(chars) : SubSeq(longer, i, j) = SubSeq(chars, i, j)
    BY PiecesGrow
  <2> HIDE DEF longer
  <2>4. QED
    BY <2>1, <2>2, <2>3
<1> HIDE DEF longer
<1>2. Told(longer, token, first, last)
  BY <1>1 DEF Told
<1>3. QED
  BY <1>2 DEF longer

(* So do all of them. *)
LEMMA CoversStill ==
  ASSUME NEW S, NEW chars \in Seq(S), NEW c \in S, NEW p, NEW q,
         \A i \in 1 .. Len(chars) + 1 : q[i] = p[i],
         NEW toks, NEW from, NEW to, NEW o \in 0 .. Len(chars), Covers(p, chars, toks, from, to, o)
  PROVE  Covers(q, Append(chars, c), toks, from, to, o)
<1> DEFINE longer == Append(chars, c)
<1>1. Len(chars) \in Nat /\ \A i \in 1 .. Len(chars) : longer[i] = chars[i]
  BY PiecesGrow
<1>2. ASSUME NEW k \in DOMAIN toks
      PROVE  /\ from[k] \in 1 .. o /\ to[k] \in 1 .. o + 1 /\ from[k] < to[k]
             /\ toks[k].start = q[from[k]] /\ toks[k].end = q[to[k]]
             /\ Told(longer, toks[k], from[k], to[k] - 1)
  <2>1. /\ from[k] \in 1 .. o /\ to[k] \in 1 .. o + 1 /\ from[k] < to[k]
        /\ toks[k].start = p[from[k]] /\ toks[k].end = p[to[k]]
        /\ Told(chars, toks[k], from[k], to[k] - 1)
    BY DEF Covers
  <2>2. /\ from[k] \in 1 .. Len(chars) /\ to[k] - 1 \in 1 .. Len(chars)
        /\ from[k] \in 1 .. Len(chars) + 1 /\ to[k] \in 1 .. Len(chars) + 1
    BY <1>1, <2>1
  <2>3. Told(longer, toks[k], from[k], to[k] - 1)
    BY <2>1, <2>2, ToldStill
  <2>4. QED
    BY <2>1, <2>2, <2>3
<1>3. \A k, l \in DOMAIN toks : k < l => to[k] <= from[l]
  BY DEF Covers
<1>4. \A i \in 1 .. o : longer[i] \notin White => \E k \in DOMAIN toks : from[k] <= i /\ i < to[k]
  <2>1. \A i \in 1 .. o : i \in 1 .. Len(chars)
    BY <1>1
  <2>2. QED
    BY <1>1, <2>1 DEF Covers
<1> HIDE DEF longer
<1>5. Covers(q, longer, toks, from, to, o)
  BY <1>2, <1>3, <1>4 DEF Covers
<1>6. QED
  BY <1>5 DEF longer

(* White characters are in none. *)
LEMMA CoversWhite ==
  ASSUME NEW p, NEW chars, NEW toks, NEW from, NEW to, NEW o \in Nat,
         Covers(p, chars, toks, from, to, o), chars[o + 1] \in White
  PROVE  Covers(p, chars, toks, from, to, o + 1)
<1>1. 1 .. o \subseteq 1 .. o + 1 /\ 1 .. o + 1 \subseteq 1 .. (o + 1) + 1
      /\ 1 .. o + 1 = 1 .. o \cup {o + 1}
  OBVIOUS
<1>2. \A k \in DOMAIN toks :
        /\ from[k] \in 1 .. o /\ to[k] \in 1 .. o + 1 /\ from[k] < to[k]
        /\ toks[k].start = p[from[k]] /\ toks[k].end = p[to[k]]
        /\ Told(chars, toks[k], from[k], to[k] - 1)
  BY DEF Covers
<1>3. \A k, l \in DOMAIN toks : k < l => to[k] <= from[l]
  BY DEF Covers
<1>4. \A i \in 1 .. o : chars[i] \notin White => \E k \in DOMAIN toks : from[k] <= i /\ i < to[k]
  BY DEF Covers
<1>5. QED
  BY <1>1, <1>2, <1>3, <1>4 DEF Covers

(* A token with the characters that come next *)
LEMMA CoversToken ==
  ASSUME NEW p, NEW chars, NEW toks, IsSequence(toks), NEW from, NEW to, NEW o \in Nat,
         Covers(p, chars, toks, from, to, o), NEW e \in Nat, o < e, NEW token,
         token.start = p[o + 1], token.end = p[e + 1], Told(chars, token, o + 1, e)
  PROVE  \E f, t : IsSequence(Append(toks, token)) /\ Covers(p, chars, Append(toks, token), f, t, e)
<1> DEFINE n == Len(toks)
           more == Append(toks, token)
           f == [k \in 1 .. n + 1 |-> IF k = n + 1 THEN o + 1 ELSE from[k]]
           t == [k \in 1 .. n + 1 |-> IF k = n + 1 THEN e + 1 ELSE to[k]]
<1>1. /\ IsSequence(more) /\ n \in Nat /\ DOMAIN toks = 1 .. n /\ DOMAIN more = 1 .. n + 1
      /\ more[n + 1] = token /\ \A k \in 1 .. n : more[k] = toks[k]
  BY AppendIs
<1> HIDE DEF more, n
<1>2. /\ f[n + 1] = o + 1 /\ t[n + 1] = e + 1 /\ \A k \in 1 .. n : f[k] = from[k] /\ t[k] = to[k]
  BY <1>1
<1> HIDE DEF f, t
<1>3. \A k \in 1 .. n :
        /\ from[k] \in 1 .. o /\ to[k] \in 1 .. o + 1 /\ from[k] < to[k]
        /\ toks[k].start = p[from[k]] /\ toks[k].end = p[to[k]]
        /\ Told(chars, toks[k], from[k], to[k] - 1)
  BY <1>1 DEF Covers
<1>4. ASSUME NEW k \in 1 .. n + 1
      PROVE  /\ f[k] \in 1 .. e /\ t[k] \in 1 .. e + 1 /\ f[k] < t[k]
             /\ more[k].start = p[f[k]] /\ more[k].end = p[t[k]]
             /\ Told(chars, more[k], f[k], t[k] - 1)
  <2>1. CASE k = n + 1
    <3>1. o + 1 \in 1 .. e /\ e + 1 \in 1 .. e + 1 /\ o + 1 < e + 1 /\ (e + 1) - 1 = e
      OBVIOUS
    <3>2. QED
      BY <1>1, <1>2, <2>1, <3>1
  <2>2. CASE k # n + 1
    <3>1. k \in 1 .. n
      BY <1>1, <2>2
    <3>2. from[k] \in 1 .. e /\ to[k] \in 1 .. e + 1
      BY <1>3, <3>1
    <3>3. QED
      BY <1>1, <1>2, <1>3, <3>1, <3>2
  <2>3. QED
    BY <2>1, <2>2
<1>5. ASSUME NEW k \in 1 .. n + 1, NEW l \in 1 .. n + 1, k < l PROVE t[k] <= f[l]
  <2>1. k \in 1 .. n
    BY <1>1, <1>5
  <2>2. CASE l = n + 1
    <3>1. to[k] <= o + 1
      BY <1>3, <2>1
    <3>2. QED
      BY <1>2, <2>1, <2>2, <3>1
  <2>3. CASE l # n + 1
    <3>1. l \in 1 .. n
      BY <1>1, <2>3
    <3>2. to[k] <= from[l]
      BY <1>1, <1>5, <2>1, <3>1 DEF Covers
    <3>3. QED
      BY <1>2, <2>1, <3>1, <3>2
  <2>4. QED
    BY <2>2, <2>3
<1>6. ASSUME NEW i \in 1 .. e, chars[i] \notin White PROVE \E k \in 1 .. n + 1 : f[k] <= i /\ i < t[k]
  <2>1. CASE i <= o
    <3>1. i \in 1 .. o
      BY <2>1
    <3>2. PICK k \in 1 .. n : from[k] <= i /\ i < to[k]
      BY <1>1, <1>6, <3>1 DEF Covers
    <3>3. k \in 1 .. n + 1
      BY <1>1
    <3>4. QED
      BY <1>2, <3>2, <3>3
  <2>2. CASE ~ (i <= o)
    <3>1. o + 1 <= i /\ i < e + 1 /\ n + 1 \in 1 .. n + 1
      BY <1>1, <2>2
    <3>2. QED
      BY <1>2, <3>1
  <2>3. QED
    BY <2>1, <2>2
<1>7. Covers(p, chars, more, f, t, e)
  BY <1>1, <1>4, <1>5, <1>6 DEF Covers
<1>8. QED
  BY <1>1, <1>7 DEF more

-----------------------------------------------------------------------------
(* A character more *)

(* Nothing or one token is added to the tokens. *)
LEMMA JoinedIs ==
  ASSUME NEW s, IsSequence(s)
  PROVE  s \o <<>> = s /\ \A x : s \o <<x>> = Append(s, x)
<1>1. s \o <<>> = s
  BY DEF IsSequence
<1>2. ASSUME NEW x PROVE s \o <<x>> = Append(s, x)
  <2> DEFINE S == {s[i] : i \in DOMAIN s} \cup {x}
  <2>1. s \in Seq(S) /\ x \in S
    BY DEF IsSequence
  <2> HIDE DEF S
  <2>2. QED
    BY <2>1
<1>3. QED
  BY <1>1, <1>2

(* A text, one character more, and the tokens that cover it as far as o *)
Ready(chars, c, p, q, toks, from, to, o) ==
  /\ ArePlaces(q, Append(chars, c)) /\ IsSequence(toks) /\ o \in 0 .. Len(chars)
  /\ Covers(q, Append(chars, c), toks, from, to, o)
  /\ \A i \in 1 .. Len(chars) + 1 : q[i] = p[i]
  /\ q[Len(chars) + 2] = PlaceAfter(p[Len(chars) + 1], c)

(* The character belongs to the token that is pending. *)
LEMMA PendingStill ==
  ASSUME NEW S, NEW chars \in Seq(S), NEW c \in S, NEW p, NEW q, NEW toks, NEW from, NEW to, NEW o,
         Ready(chars, c, p, q, toks, from, to, o),
         NEW read, ~ read.throws, NEW u, Was(read, u, <<>>), Pending(q, Append(chars, c), u, o)
  PROVE  Reads(Append(chars, c), toks \o read.tokens, read.tokenizer)
<1>1. read.tokens = <<>> /\ read.tokenizer = u
  BY DEF Was
<1>2. toks \o read.tokens = toks
  BY <1>1, JoinedIs DEF Ready
<1>3. o \in 0 .. Len(Append(chars, c))
  BY PiecesGrow DEF Ready
<1>4. QED
  BY <1>1, <1>2, <1>3 DEF Ready, Reads

(* It is white, outside of tokens. *)
LEMMA PendingNothing ==
  ASSUME NEW S, NEW chars \in Seq(S), NEW c \in White, c \in S, NEW p, NEW q, NEW toks, NEW from, NEW to,
         Ready(chars, c, p, q, toks, from, to, Len(chars)),
         NEW read, ~ read.throws, NEW s, Was(read, Between(s, PlaceAfter(p[Len(chars) + 1], c)), <<>>)
  PROVE  Reads(Append(chars, c), toks \o read.tokens, read.tokenizer)
<1> DEFINE n == Len(chars)
           longer == Append(chars, c)
<1>1. Len(longer) = n + 1 /\ n \in Nat /\ longer[n + 1] = c
  BY PiecesGrow
<1>2. read.tokens = <<>> /\ read.tokenizer = Between(s, q[n + 2])
  BY DEF Was, Ready
<1>3. toks \o read.tokens = toks
  BY <1>2, JoinedIs DEF Ready
<1>4. ArePlaces(q, longer) /\ IsSequence(toks) /\ Covers(q, longer, toks, from, to, n)
  BY DEF Ready
<1> HIDE DEF n, longer
<1>5. Covers(q, longer, toks, from, to, n + 1)
  BY <1>1, <1>4, CoversWhite
<1>6. Pending(q, longer, read.tokenizer, n + 1)
  <2>1. (n + 1) + 1 = n + 2
    BY <1>1
  <2>2. QED
    BY <1>1, <1>2, <2>1 DEF Pending
<1>7. n + 1 \in 0 .. Len(longer)
  BY <1>1
<1>8. Reads(longer, toks \o read.tokens, read.tokenizer)
  BY <1>3, <1>4, <1>5, <1>6, <1>7 DEF Reads
<1>9. QED
  BY <1>8 DEF longer

(* It ends a token, being its last character, white or the first of a comment. *)
LEMMA TokenEnds ==
  ASSUME NEW S, NEW chars \in Seq(S), NEW c \in S, NEW p, NEW q, NEW toks, NEW from, NEW to, NEW o,
         Ready(chars, c, p, q, toks, from, to, o),
         NEW read, ~ read.throws, NEW u, NEW token, Was(read, u, <<token>>),
         NEW e \in {Len(chars), Len(chars) + 1}, o < e,
         token.start = q[o + 1], token.end = q[e + 1], Told(Append(chars, c), token, o + 1, e),
         \/ Pending(q, Append(chars, c), u, e)
         \/ e = Len(chars) /\ c \in White /\ Pending(q, Append(chars, c), u, Len(chars) + 1)
  PROVE  Reads(Append(chars, c), toks \o read.tokens, read.tokenizer)
<1> DEFINE n == Len(chars)
           longer == Append(chars, c)
           more == Append(toks, token)
<1>1. Len(longer) = n + 1 /\ n \in Nat /\ longer[n + 1] = c
  BY PiecesGrow
<1>2. read.tokens = <<token>> /\ read.tokenizer = u
  BY DEF Was
<1>3. toks \o read.tokens = more
  BY <1>2, JoinedIs DEF Ready
<1>4. /\ ArePlaces(q, longer) /\ IsSequence(toks) /\ Covers(q, longer, toks, from, to, o)
      /\ o \in Nat /\ e \in Nat
  BY <1>1 DEF Ready
<1> HIDE DEF longer
<1>5. PICK f, t : IsSequence(more) /\ Covers(q, longer, more, f, t, e)
  BY <1>4, CoversToken DEF longer
<1> HIDE DEF more, n
<1>6. e \in 0 .. Len(longer) /\ n + 1 \in 0 .. Len(longer)
  BY <1>1 DEF n
<1>7. CASE Pending(q, longer, u, e)
  BY <1>2, <1>3, <1>4, <1>5, <1>6, <1>7 DEF Reads, longer
<1>8. CASE e = n /\ c \in White /\ Pending(q, longer, u, n + 1)
  <2>1. Covers(q, longer, more, f, t, n + 1)
    BY <1>1, <1>5, <1>8, CoversWhite
  <2>2. Reads(longer, more, u)
    BY <1>4, <1>5, <1>6, <1>8, <2>1 DEF Reads
  <2>3. QED
    BY <1>2, <1>3, <2>2 DEF longer
<1>9. QED
  BY <1>7, <1>8 DEF longer, n

(* A token begins with the character. *)
LEMMA TokenBegins ==
  ASSUME NEW S, NEW chars \in Seq(S), NEW c \in S, NEW q, NEW u,
         LET n == Len(chars) IN
         \/ u = Tokenizing(<<c>>, "bareword", <<>>, No, q[n + 1], q[n + 2])
         \/ c = "sharp" /\ u = Tokenizing(<<>>, "comment", <<>>, No, q[n + 1], q[n + 2])
         \/ c \in DOMAIN QuoteType /\ u = Tokenizing(<<>>, QuoteType[c], <<c>>, No, q[n + 1], q[n + 2])
  PROVE  Pending(q, Append(chars, c), u, Len(chars))
<1> DEFINE n == Len(chars)
           longer == Append(chars, c)
<1>1. Len(longer) = n + 1 /\ n \in Nat /\ longer[n + 1] = c /\ n < n + 1 /\ (n + 1) + 1 = n + 2
  BY PiecesGrow
<1>2. SubSeq(longer, n + 1, n + 1) = <<c>> /\ SubSeq(longer, n + 2, n + 1) = <<>>
  <2>1. \A s \in Seq(S) : SubSeq(s, Len(s) + 1, Len(s)) = <<>>
    OBVIOUS
  <2>2. longer \in Seq(S) /\ SubSeq(longer, n + 1, n + 1) = Append(SubSeq(chars, n + 1, n), c)
    BY <1>1, PiecesGrow
  <2> HIDE DEF longer, n
  <2>3. SubSeq(chars, n + 1, n) = <<>> /\ SubSeq(longer, n + 2, n + 1) = <<>>
    BY <1>1, <2>1, <2>2 DEF n
  <2>4. Append(<<>>, c) = <<c>>
    OBVIOUS
  <2>5. QED
    BY <2>2, <2>3, <2>4, Zenon
<1> HIDE DEF n, longer
<1>3. CASE u = Tokenizing(<<c>>, "bareword", <<>>, No, q[n + 1], q[n + 2])
  BY <1>1, <1>2, <1>3 DEF Pending, longer, n
<1>4. CASE c = "sharp" /\ u = Tokenizing(<<>>, "comment", <<>>, No, q[n + 1], q[n + 2])
  BY <1>1, <1>2, <1>4 DEF Pending, longer, n
<1>5. CASE c = "open" /\ u = Tokenizing(<<>>, QuoteType[c], <<c>>, No, q[n + 1], q[n + 2])
  <2>1. <<c>> \in Seq({"open"}) /\ <<c>> # <<>>
    BY <1>5
  <2>2. QED
    BY <1>1, <1>2, <1>5, <2>1 DEF Pending, longer, n
<1>6. CASE c \in {"quote", "apostrophe"} /\ u = Tokenizing(<<>>, QuoteType[c], <<c>>, No, q[n + 1], q[n + 2])
  <2> DEFINE x == [escape |-> No, is |-> <<>>]
  <2>1. x.escape = No /\ x.is = <<>> /\ IsDecoding(x)
    <3>1. x.escape = No /\ x.is = <<>>
      OBVIOUS
    <3>2. IsDecoding(x)
      BY DecodingIs
    <3>3. QED
      BY <3>1, <3>2
  <2>2. Unfinished(<<>>, x)
    BY NothingUnfinished
  <2> HIDE DEF x
  <2>3. QED
    BY <1>1, <1>2, <1>6, <2>1, <2>2 DEF Pending, longer, n
<1>7. QED
  BY <1>3, <1>4, <1>5, <1>6, QuotesApart DEF longer, n

(* Between tokens *)
LEMMA ReadsBetween ==
  ASSUME NEW S, NEW chars \in Seq(S), NEW c \in S, NEW p, NEW q, NEW toks, NEW from, NEW to,
         Ready(chars, c, p, q, toks, from, to, Len(chars)),
         NEW s, NEW t, t = Between(s, p[Len(chars) + 1]), ~ Read(t, c).throws
  PROVE  Reads(Append(chars, c), toks \o Read(t, c).tokens, Read(t, c).tokenizer)
<1> DEFINE n == Len(chars)
           next == PlaceAfter(p[n + 1], c)
           read == Read(t, c)
<1>1. n + 1 \in 1 .. n + 1 /\ q[n + 1] = p[n + 1] /\ q[n + 2] = next
  <2>1. n \in Nat
    BY PiecesGrow
  <2>2. QED
    BY <2>1 DEF Ready
<1> HIDE DEF n, next
<1>2. CASE c \in White
  <2>1. Was(read, Between(s, next), <<>>)
    BY <1>2, ReadBetween DEF next, n
  <2> HIDE DEF read
  <2>2. Reads(Append(chars, c), toks \o read.tokens, read.tokenizer)
    BY <1>2, <2>1, PendingNothing DEF next, n, read
  <2>3. QED
    BY <2>2 DEF read
<1>3. CASE c \notin White
  <2>1. PICK u : /\ Was(read, u, <<>>)
                 /\ \/ u = Tokenizing(<<c>>, "bareword", <<>>, No, q[n + 1], q[n + 2])
                    \/ c = "sharp" /\ u = Tokenizing(<<>>, "comment", <<>>, No, q[n + 1], q[n + 2])
                    \/ /\ c \in DOMAIN QuoteType
                       /\ u = Tokenizing(<<>>, QuoteType[c], <<c>>, No, q[n + 1], q[n + 2])
    <3>1. CASE c = "sharp"
      <4>1. Was(read, Tokenizing(<<>>, "comment", <<>>, No, p[n + 1], next), <<>>)
        BY <3>1, ReadBetween DEF next, n
      <4> HIDE DEF read
      <4>2. QED
        BY <1>1, <3>1, <4>1
    <3>2. CASE c \in DOMAIN QuoteType
      <4>1. Was(read, Tokenizing(<<>>, QuoteType[c], <<c>>, No, p[n + 1], next), <<>>)
        BY <3>2, ReadBetween DEF next, n
      <4> HIDE DEF read
      <4>2. QED
        BY <1>1, <3>2, <4>1
    <3>3. CASE c \notin {"sharp"} \cup DOMAIN QuoteType
      <4>1. Was(read, Tokenizing(<<c>>, "bareword", <<>>, No, p[n + 1], next), <<>>)
        BY <1>3, <3>3, ReadBetween DEF next, n
      <4> HIDE DEF read
      <4>2. QED
        BY <1>1, <4>1
    <3>4. QED
      BY <3>1, <3>2, <3>3
  <2> HIDE DEF read
  <2>2. Pending(q, Append(chars, c), u, n)
    BY <2>1, TokenBegins DEF n
  <2>3. Reads(Append(chars, c), toks \o read.tokens, read.tokenizer)
    BY <2>1, <2>2, PendingStill DEF n, read
  <2>4. QED
    BY <2>3 DEF read
<1>4. QED
  BY <1>2, <1>3

(* In a bareword *)
LEMMA ReadsInWord ==
  ASSUME NEW S, NEW chars \in Seq(S), NEW c \in S, NEW p, NEW q, NEW toks, NEW from, NEW to, NEW o,
         Ready(chars, c, p, q, toks, from, to, o), o < Len(chars),
         NEW t, t = Tokenizing(SubSeq(chars, o + 1, Len(chars)), "bareword", <<>>, No, p[o + 1], p[Len(chars) + 1]),
         ~ Read(t, c).throws
  PROVE  Reads(Append(chars, c), toks \o Read(t, c).tokens, Read(t, c).tokenizer)
<1> DEFINE n == Len(chars)
           longer == Append(chars, c)
           b == SubSeq(chars, o + 1, n)
           next == PlaceAfter(p[n + 1], c)
           read == Read(t, c)
<1>1. /\ n \in Nat /\ Len(longer) = n + 1 /\ o \in Nat /\ o < n
      /\ o + 1 \in 1 .. n + 1 /\ n + 1 \in 1 .. n + 1 /\ o + 1 \in 1 .. n
      /\ q[n + 1] = p[n + 1] /\ q[n + 2] = next /\ q[o + 1] = p[o + 1]
  <2>1. n \in Nat /\ o \in 0 .. n
    BY PiecesGrow DEF Ready
  <2>2. QED
    BY <2>1, PiecesGrow DEF Ready
<1>2. /\ SubSeq(longer, o + 1, n + 1) = Append(b, c) /\ SubSeq(longer, o + 1, n) = b
  <2>1. n \in 0 .. n
    BY <1>1
  <2>2. \A i \in 1 .. n + 1 : SubSeq(longer, i, n + 1) = Append(SubSeq(chars, i, n), c)
    BY PiecesGrow
  <2>3. \A i \in 1 .. n + 1, j \in 0 .. n : SubSeq(longer, i, j) = SubSeq(chars, i, j)
    BY PiecesGrow
  <2> HIDE DEF longer, n
  <2>4. QED
    BY <1>1, <2>1, <2>2, <2>3
<1>3. b # <<>>
  <2>1. \A i, j \in 1 .. n : i <= j => SubSeq(chars, i, j) # <<>>
    OBVIOUS
  <2>2. n \in 1 .. n /\ o + 1 <= n
    BY <1>1
  <2>3. QED
    BY <1>1, <2>1, <2>2
<1> HIDE DEF n, longer, b, next
<1>4. t = Tokenizing(b, "bareword", <<>>, No, p[o + 1], p[n + 1])
  BY DEF b, n
<1>5. Token(t) = [text |-> b, type |-> "bareword", start |-> p[o + 1], end |-> p[n + 1]]
  BY <1>4, TokenizerParts
<1>6. Token(t).start = q[o + 1] /\ Token(t).end = q[n + 1] /\ Told(longer, Token(t), o + 1, n)
  <2>1. Token(t).type = "bareword" /\ Token(t).text = b /\ Token(t).start = p[o + 1] /\ Token(t).end = p[n + 1]
    BY <1>5
  <2>2. QED
    BY <1>1, <1>2, <2>1 DEF Told
<1>7. CASE c \in White
  <2>1. Was(read, Between(p[o + 1], next), <<Token(t)>>)
    BY <1>3, <1>4, <1>7, ReadInWord DEF next
  <2>2. Pending(q, longer, Between(p[o + 1], next), n + 1)
    <3>1. (n + 1) + 1 = n + 2
      BY <1>1
    <3>2. QED
      BY <1>1, <3>1 DEF Pending
  <2> HIDE DEF read
  <2>3. Reads(longer, toks \o read.tokens, read.tokenizer)
    BY <1>1, <1>6, <1>7, <2>1, <2>2, TokenEnds DEF n, longer, read
  <2>4. QED
    BY <2>3 DEF longer, read
<1>8. CASE c = "sharp"
  <2> DEFINE u == Tokenizing(<<>>, "comment", <<>>, No, p[n + 1], next)
  <2>1. Was(read, u, <<Token(t)>>)
    BY <1>3, <1>4, <1>8, ReadInWord DEF next
  <2>2. Pending(q, longer, u, n)
    BY <1>1, <1>8, TokenBegins DEF longer, n
  <2> HIDE DEF read, u
  <2>3. Reads(longer, toks \o read.tokens, read.tokenizer)
    BY <1>1, <1>6, <2>1, <2>2, TokenEnds DEF n, longer, read
  <2>4. QED
    BY <2>3 DEF longer, read
<1>9. CASE c \notin White \cup {"sharp"}
  <2> DEFINE u == Tokenizing(Append(b, c), "bareword", <<>>, No, p[o + 1], next)
  <2>1. Was(read, u, <<>>)
    BY <1>3, <1>4, <1>9, ReadInWord DEF next
  <2>2. Pending(q, longer, u, o)
    <3>1. o < n + 1 /\ (n + 1) + 1 = n + 2
      BY <1>1
    <3>2. QED
      BY <1>1, <1>2, <3>1 DEF Pending
  <2> HIDE DEF read, u
  <2>3. Reads(longer, toks \o read.tokens, read.tokenizer)
    BY <2>1, <2>2, PendingStill DEF longer, read
  <2>4. QED
    BY <2>3 DEF longer, read
<1>10. QED
  BY <1>7, <1>8, <1>9

(* In a comment *)
LEMMA ReadsInComment ==
  ASSUME NEW S, NEW chars \in Seq(S), NEW c \in S, NEW p, NEW q, NEW toks, NEW from, NEW to, NEW o,
         Ready(chars, c, p, q, toks, from, to, o), o < Len(chars), chars[o + 1] = "sharp",
         NEW t, t = Tokenizing(SubSeq(chars, o + 2, Len(chars)), "comment", <<>>, No, p[o + 1], p[Len(chars) + 1]),
         ~ Read(t, c).throws
  PROVE  Reads(Append(chars, c), toks \o Read(t, c).tokens, Read(t, c).tokenizer)
<1> DEFINE n == Len(chars)
           longer == Append(chars, c)
           b == SubSeq(chars, o + 2, n)
           next == PlaceAfter(p[n + 1], c)
           read == Read(t, c)
<1>1. /\ n \in Nat /\ Len(longer) = n + 1 /\ o \in Nat /\ o < n /\ longer[o + 1] = "sharp"
      /\ o + 1 \in 1 .. n + 1 /\ n + 1 \in 1 .. n + 1 /\ o + 2 \in 1 .. n + 1
      /\ q[n + 1] = p[n + 1] /\ q[n + 2] = next /\ q[o + 1] = p[o + 1]
  <2>1. n \in Nat /\ o \in 0 .. n
    BY PiecesGrow DEF Ready
  <2>2. o + 1 \in 1 .. n /\ o + 1 \in 1 .. n + 1 /\ n + 1 \in 1 .. n + 1 /\ o + 2 \in 1 .. n + 1
    BY <2>1
  <2>3. QED
    BY <2>1, <2>2, PiecesGrow DEF Ready
<1>2. SubSeq(longer, o + 2, n + 1) = Append(b, c) /\ SubSeq(longer, (o + 1) + 1, n) = b
  <2>1. n \in 0 .. n /\ (o + 1) + 1 = o + 2
    BY <1>1
  <2>2. SubSeq(longer, o + 2, n + 1) = Append(b, c)
    <3>1. \A i \in 1 .. n + 1 : SubSeq(longer, i, n + 1) = Append(SubSeq(chars, i, n), c)
      BY PiecesGrow
    <3> HIDE DEF longer, n
    <3>2. QED
      BY <1>1, <3>1
  <2>3. SubSeq(longer, o + 2, n) = b
    BY <1>1, <2>1, PiecesGrow
  <2>4. QED
    BY <2>1, <2>2, <2>3
<1> HIDE DEF n, longer, b, next
<1>3. t = Tokenizing(b, "comment", <<>>, No, p[o + 1], p[n + 1])
  BY DEF b, n
<1>4. Token(t) = [text |-> b, type |-> "comment", start |-> p[o + 1], end |-> p[n + 1]]
  BY <1>3, TokenizerParts
<1>5. Token(t).start = q[o + 1] /\ Token(t).end = q[n + 1] /\ Told(longer, Token(t), o + 1, n)
  <2>1. Token(t).type = "comment" /\ Token(t).text = b /\ Token(t).start = p[o + 1] /\ Token(t).end = p[n + 1]
    BY <1>4
  <2>2. QED
    BY <1>1, <1>2, <2>1 DEF Told
<1>6. CASE c = "newline"
  <2>1. Was(read, Between(p[o + 1], next), <<Token(t)>>)
    BY <1>3, <1>6, ReadsComment DEF next
  <2>2. Pending(q, longer, Between(p[o + 1], next), n + 1)
    <3>1. (n + 1) + 1 = n + 2
      BY <1>1
    <3>2. QED
      BY <1>1, <3>1 DEF Pending
  <2>3. c \in White
    BY <1>6 DEF White
  <2> HIDE DEF read
  <2>4. Reads(longer, toks \o read.tokens, read.tokenizer)
    BY <1>1, <1>5, <2>1, <2>2, <2>3, TokenEnds DEF n, longer, read
  <2>5. QED
    BY <2>4 DEF longer, read
<1>7. CASE c # "newline"
  <2> DEFINE u == Tokenizing(Append(b, c), "comment", <<>>, No, p[o + 1], next)
  <2>1. Was(read, u, <<>>)
    BY <1>3, <1>7, ReadsComment DEF next
  <2>2. Pending(q, longer, u, o)
    <3>1. o < n + 1 /\ (n + 1) + 1 = n + 2
      BY <1>1
    <3>2. QED
      BY <1>1, <1>2, <3>1 DEF Pending
  <2> HIDE DEF read, u
  <2>3. Reads(longer, toks \o read.tokens, read.tokenizer)
    BY <2>1, <2>2, PendingStill DEF longer, read
  <2>4. QED
    BY <2>3 DEF longer, read
<1>8. QED
  BY <1>6, <1>7

(* In nested quotes *)
LEMMA ReadsNested ==
  ASSUME NEW S, NEW chars \in Seq(S), NEW c \in S, NEW p, NEW q, NEW toks, NEW from, NEW to, NEW o,
         Ready(chars, c, p, q, toks, from, to, o), o < Len(chars), chars[o + 1] = "open",
         NEW k \in Seq({"open"}), k # <<>>,
         NEW t, t = Tokenizing(SubSeq(chars, o + 2, Len(chars)), QuoteType["open"], k, No,
                               p[o + 1], p[Len(chars) + 1]),
         ~ Read(t, c).throws
  PROVE  Reads(Append(chars, c), toks \o Read(t, c).tokens, Read(t, c).tokenizer)
<1> DEFINE n == Len(chars)
           longer == Append(chars, c)
           b == SubSeq(chars, o + 2, n)
           ty == QuoteType["open"]
           next == PlaceAfter(p[n + 1], c)
           read == Read(t, c)
<1>1. /\ n \in Nat /\ Len(longer) = n + 1 /\ o \in Nat /\ o < n /\ longer[o + 1] = "open"
      /\ o + 2 \in 1 .. n + 1 /\ (o + 1) + 1 = o + 2 /\ (n + 1) + 1 = n + 2 /\ (n + 1) - 1 = n
      /\ longer[n + 1] = c
      /\ q[n + 1] = p[n + 1] /\ q[n + 2] = next /\ q[o + 1] = p[o + 1]
  <2>1. n \in Nat /\ o \in 0 .. n
    BY PiecesGrow DEF Ready
  <2>2. o + 1 \in 1 .. n /\ o + 1 \in 1 .. n + 1 /\ n + 1 \in 1 .. n + 1 /\ o + 2 \in 1 .. n + 1
        /\ (o + 1) + 1 = o + 2 /\ (n + 1) + 1 = n + 2 /\ (n + 1) - 1 = n
    BY <2>1
  <2>3. QED
    BY <2>1, <2>2, PiecesGrow DEF Ready
<1>2. SubSeq(longer, o + 2, n + 1) = Append(b, c) /\ SubSeq(longer, o + 2, n) = b
  <2>1. \A i \in 1 .. n + 1 : SubSeq(longer, i, n + 1) = Append(SubSeq(chars, i, n), c)
    BY PiecesGrow
  <2>2. \A i \in 1 .. n + 1, j \in 0 .. n : SubSeq(longer, i, j) = SubSeq(chars, i, j)
    BY PiecesGrow
  <2>3. n \in 0 .. n
    BY <1>1
  <2> HIDE DEF longer, n
  <2>4. QED
    BY <1>1, <2>1, <2>2, <2>3
<1>3. ty \in {"double", "single"}
  BY QuotesApart
<1> HIDE DEF n, longer, b, ty, next
<1>4. t = Tokenizing(b, ty, k, No, p[o + 1], p[n + 1])
  BY DEF b, n, ty
<1>5. \/ /\ c = "close"
         /\ Was(read, Between(p[o + 1], next), <<[text |-> b, type |-> ty, start |-> p[o + 1], end |-> next]>>)
      \/ \E r \in Seq({"open"}) :
           r # <<>> /\ Was(read, Tokenizing(Append(b, c), ty, r, No, p[o + 1], next), <<>>)
  BY <1>3, <1>4, ReadNested, ZenonT(40) DEF next
<1>6. CASE /\ c = "close"
           /\ Was(read, Between(p[o + 1], next), <<[text |-> b, type |-> ty, start |-> p[o + 1], end |-> next]>>)
  <2> DEFINE token == [text |-> b, type |-> ty, start |-> p[o + 1], end |-> next]
             u == Between(p[o + 1], next)
  <2>1. token.text = b /\ token.type = ty /\ token.start = q[o + 1] /\ token.end = q[(n + 1) + 1]
    BY <1>1
  <2>2. Pending(q, longer, u, n + 1)
    BY <1>1 DEF Pending
  <2>3. Was(read, u, <<token>>)
    BY <1>6
  <2> HIDE DEF token, u, read
  <2>4. Told(longer, token, o + 1, n + 1)
    <3>1. "open" \in DOMAIN QuoteType /\ Close("open") = "close" /\ o + 1 < n + 1
      BY <1>1, QuotesApart DEF Close
    <3>2. SubSeq(longer, (o + 1) + 1, (n + 1) - 1) = b
      BY <1>1, <1>2
    <3>3. QED
      BY <1>1, <1>6, <2>1, <3>1, <3>2 DEF Told, ty
  <2>5. o < n + 1
    BY <1>1
  <2>6. Reads(longer, toks \o read.tokens, read.tokenizer)
    BY <2>1, <2>2, <2>3, <2>4, <2>5, TokenEnds DEF n, longer, read
  <2>7. QED
    BY <2>6 DEF longer, read
<1>7. CASE \E r \in Seq({"open"}) :
             r # <<>> /\ Was(read, Tokenizing(Append(b, c), ty, r, No, p[o + 1], next), <<>>)
  <2>1. PICK r \in Seq({"open"}) :
               r # <<>> /\ Was(read, Tokenizing(Append(b, c), ty, r, No, p[o + 1], next), <<>>)
    BY <1>7
  <2> DEFINE u == Tokenizing(Append(b, c), ty, r, No, p[o + 1], next)
  <2>2. Pending(q, longer, u, o)
    <3>1. o < n + 1
      BY <1>1
    <3>2. u = Tokenizing(SubSeq(longer, o + 2, n + 1), QuoteType["open"], r, No, q[o + 1], q[(n + 1) + 1])
      BY <1>1, <1>2 DEF ty
    <3> HIDE DEF u
    <3>3. QED
      BY <1>1, <2>1, <3>1, <3>2 DEF Pending
  <2>3. Was(read, u, <<>>)
    BY <2>1
  <2> HIDE DEF read, u
  <2>4. Reads(longer, toks \o read.tokens, read.tokenizer)
    BY <2>2, <2>3, PendingStill DEF longer, read
  <2>5. QED
    BY <2>4 DEF longer, read
<1>8. QED
  BY <1>5, <1>6, <1>7

(* In quotes with escapes *)
LEMMA ReadsEscapable ==
  ASSUME NEW S, NEW chars \in Seq(S), NEW c \in S, NEW p, NEW q, NEW toks, NEW from, NEW to, NEW o,
         Ready(chars, c, p, q, toks, from, to, o), o < Len(chars),
         NEW open \in {"quote", "apostrophe"}, chars[o + 1] = open,
         NEW x, IsDecoding(x), Unfinished(SubSeq(chars, o + 2, Len(chars)), x),
         NEW t, t = Tokenizing(x.is, QuoteType[open], <<open>>, x.escape, p[o + 1], p[Len(chars) + 1]),
         ~ Read(t, c).throws
  PROVE  Reads(Append(chars, c), toks \o Read(t, c).tokens, Read(t, c).tokenizer)
<1> DEFINE n == Len(chars)
           longer == Append(chars, c)
           inner == SubSeq(chars, o + 2, n)
           ty == QuoteType[open]
           next == PlaceAfter(p[n + 1], c)
           read == Read(t, c)
           acc == Decode(x, c)
<1>1. /\ n \in Nat /\ Len(longer) = n + 1 /\ o \in Nat /\ o < n /\ longer[o + 1] = open
      /\ o + 2 \in 1 .. n + 1 /\ (o + 1) + 1 = o + 2 /\ (n + 1) + 1 = n + 2 /\ (n + 1) - 1 = n
      /\ longer[n + 1] = c
      /\ q[n + 1] = p[n + 1] /\ q[n + 2] = next /\ q[o + 1] = p[o + 1]
  <2>1. n \in Nat /\ o \in 0 .. n
    BY PiecesGrow DEF Ready
  <2>2. o + 1 \in 1 .. n /\ o + 1 \in 1 .. n + 1 /\ n + 1 \in 1 .. n + 1 /\ o + 2 \in 1 .. n + 1
        /\ (o + 1) + 1 = o + 2 /\ (n + 1) + 1 = n + 2 /\ (n + 1) - 1 = n
    BY <2>1
  <2>3. QED
    BY <2>1, <2>2, PiecesGrow DEF Ready
<1>2. /\ SubSeq(longer, o + 2, n + 1) = Append(inner, c) /\ SubSeq(longer, o + 2, n) = inner
      /\ inner \in Seq(S)
  <2>1. \A i \in 1 .. n + 1 : SubSeq(longer, i, n + 1) = Append(SubSeq(chars, i, n), c)
    BY PiecesGrow
  <2>2. \A i \in 1 .. n + 1, j \in 0 .. n : SubSeq(longer, i, j) = SubSeq(chars, i, j)
    BY PiecesGrow
  <2>3. \A i \in 1 .. n + 1 : SubSeq(chars, i, n) \in Seq(S)
    BY PiecesGrow
  <2>4. n \in 0 .. n
    BY <1>1
  <2> HIDE DEF longer, n
  <2>5. QED
    BY <1>1, <2>1, <2>2, <2>3, <2>4
<1>3. ty \in {"double", "single"} /\ open \in DOMAIN QuoteType /\ Close(open) = open /\ open # "open"
  BY QuotesApart DEF Close
<1>4. Unfinished(inner, x)
  OBVIOUS
<1> HIDE DEF n, longer, inner, ty, next, acc
<1>5. t = Tokenizing(x.is, ty, <<open>>, x.escape, p[o + 1], p[n + 1])
  BY DEF n, ty
<1>6. \/ /\ c = open
         /\ Was(read, Between(p[o + 1], next), <<[text |-> x.is, type |-> ty, start |-> p[o + 1], end |-> next]>>)
      \/ Was(read, Tokenizing(acc.is, ty, <<open>>, acc.escape, p[o + 1], next), <<>>)
  BY <1>3, <1>5, ReadEscapable, SMTT(30) DEF next, acc
<1>7. CASE /\ c = open
           /\ Was(read, Between(p[o + 1], next), <<[text |-> x.is, type |-> ty, start |-> p[o + 1], end |-> next]>>)
  <2> DEFINE token == [text |-> x.is, type |-> ty, start |-> p[o + 1], end |-> next]
             u == Between(p[o + 1], next)
  <2>1. token.text = x.is /\ token.type = ty /\ token.start = q[o + 1] /\ token.end = q[(n + 1) + 1]
    BY <1>1
  <2>2. Pending(q, longer, u, n + 1)
    BY <1>1 DEF Pending
  <2>3. Was(read, u, <<token>>)
    BY <1>7
  <2>4. Decoded(inner) = x.is
    BY <1>2, <1>4, DecodedIs
  <2> HIDE DEF token, u, read
  <2>5. Told(longer, token, o + 1, n + 1)
    <3>1. o + 1 < n + 1
      BY <1>1
    <3>2. SubSeq(longer, (o + 1) + 1, (n + 1) - 1) = inner
      BY <1>1, <1>2
    <3>3. QED
      BY <1>1, <1>3, <1>7, <2>1, <2>4, <3>1, <3>2 DEF Told, ty
  <2>6. o < n + 1
    BY <1>1
  <2>7. Reads(longer, toks \o read.tokens, read.tokenizer)
    BY <2>1, <2>2, <2>3, <2>5, <2>6, TokenEnds DEF n, longer, read
  <2>8. QED
    BY <2>7 DEF longer, read
<1>8. CASE Was(read, Tokenizing(acc.is, ty, <<open>>, acc.escape, p[o + 1], next), <<>>)
  <2> DEFINE u == Tokenizing(acc.is, ty, <<open>>, acc.escape, p[o + 1], next)
  <2>1. IsDecoding(acc)
    BY DecodeIs DEF acc
  <2>2. Was(read, u, <<>>)
    BY <1>8
  <2>3. Unfinished(SubSeq(longer, o + 2, n + 1), acc)
    BY <1>2, <1>4, UnfinishedGrows DEF acc
  <2>4. Pending(q, longer, u, o)
    <3>1. o < n + 1
      BY <1>1
    <3>2. u = Tokenizing(acc.is, QuoteType[open], <<open>>, acc.escape, q[o + 1], q[(n + 1) + 1])
      BY <1>1 DEF ty
    <3> HIDE DEF u
    <3>3. QED
      BY <1>1, <2>1, <2>3, <3>1, <3>2 DEF Pending
  <2> HIDE DEF read, u
  <2>5. Reads(longer, toks \o read.tokens, read.tokenizer)
    BY <2>2, <2>4, PendingStill DEF longer, read
  <2>6. QED
    BY <2>5 DEF longer, read
<1>9. QED
  BY <1>6, <1>7, <1>8

(* Wherever it is: what the tokenizer has read stays so. *)
LEMMA ReadsOn ==
  ASSUME NEW S, NEW chars \in Seq(S), NEW c \in S, NEW toks, NEW t, Reads(chars, toks, t), ~ Read(t, c).throws
  PROVE  Reads(Append(chars, c), toks \o Read(t, c).tokens, Read(t, c).tokenizer)
<1> DEFINE n == Len(chars)
<1>1. PICK p, from, to : \E o \in 0 .. n :
        ArePlaces(p, chars) /\ IsSequence(toks) /\ Covers(p, chars, toks, from, to, o) /\ Pending(p, chars, t, o)
  BY DEF Reads
<1>2. PICK o \in 0 .. n :
        ArePlaces(p, chars) /\ IsSequence(toks) /\ Covers(p, chars, toks, from, to, o) /\ Pending(p, chars, t, o)
  BY <1>1
<1>3. PICK q : /\ ArePlaces(q, Append(chars, c)) /\ \A i \in 1 .. n + 1 : q[i] = p[i]
               /\ q[n + 2] = PlaceAfter(p[n + 1], c)
  BY <1>2, PlacesGrow
<1>4. Covers(q, Append(chars, c), toks, from, to, o)
  BY <1>2, <1>3, CoversStill
<1>5. Ready(chars, c, p, q, toks, from, to, o)
  BY <1>2, <1>3, <1>4 DEF Ready
<1>6. CASE o = n /\ \E s : t = Between(s, p[n + 1])
  <2>1. PICK s : t = Between(s, p[n + 1])
    BY <1>6
  <2>2. Ready(chars, c, p, q, toks, from, to, Len(chars))
    BY <1>5, <1>6
  <2>3. QED
    BY <2>1, <2>2, ReadsBetween
<1>7. CASE o < n /\ t = Tokenizing(SubSeq(chars, o + 1, n), "bareword", <<>>, No, p[o + 1], p[n + 1])
  BY <1>5, <1>7, ReadsInWord
<1>8. CASE /\ o < n /\ chars[o + 1] = "sharp"
           /\ t = Tokenizing(SubSeq(chars, o + 2, n), "comment", <<>>, No, p[o + 1], p[n + 1])
  BY <1>5, <1>8, ReadsInComment
<1>9. CASE /\ o < n /\ chars[o + 1] = "open"
           /\ \E k \in Seq({"open"}) :
                /\ k # <<>>
                /\ t = Tokenizing(SubSeq(chars, o + 2, n), QuoteType["open"], k, No, p[o + 1], p[n + 1])
  <2>1. PICK k \in Seq({"open"}) :
               /\ k # <<>>
               /\ t = Tokenizing(SubSeq(chars, o + 2, n), QuoteType["open"], k, No, p[o + 1], p[n + 1])
    BY <1>9
  <2>2. QED
    BY <1>5, <1>9, <2>1, ReadsNested
<1>10. CASE /\ o < n /\ chars[o + 1] \in {"quote", "apostrophe"}
            /\ \E x : /\ IsDecoding(x) /\ Unfinished(SubSeq(chars, o + 2, n), x)
                      /\ t = Tokenizing(x.is, QuoteType[chars[o + 1]], <<chars[o + 1]>>, x.escape,
                                        p[o + 1], p[n + 1])
  <2> DEFINE open == chars[o + 1]
  <2>1. PICK x : /\ IsDecoding(x) /\ Unfinished(SubSeq(chars, o + 2, n), x)
                 /\ t = Tokenizing(x.is, QuoteType[open], <<open>>, x.escape, p[o + 1], p[n + 1])
    BY <1>10
  <2>2. open \in {"quote", "apostrophe"} /\ chars[o + 1] = open /\ o < Len(chars)
    BY <1>10
  <2> HIDE DEF open
  <2>3. QED
    BY <1>5, <2>1, <2>2, ReadsEscapable
<1>11. \/ o = n /\ \E s : t = Between(s, p[n + 1])
       \/ o < n /\ t = Tokenizing(SubSeq(chars, o + 1, n), "bareword", <<>>, No, p[o + 1], p[n + 1])
       \/ /\ o < n /\ chars[o + 1] = "sharp"
          /\ t = Tokenizing(SubSeq(chars, o + 2, n), "comment", <<>>, No, p[o + 1], p[n + 1])
       \/ /\ o < n /\ chars[o + 1] = "open"
          /\ \E k \in Seq({"open"}) :
               /\ k # <<>>
               /\ t = Tokenizing(SubSeq(chars, o + 2, n), QuoteType["open"], k, No, p[o + 1], p[n + 1])
       \/ /\ o < n /\ chars[o + 1] \in {"quote", "apostrophe"}
          /\ \E x : /\ IsDecoding(x) /\ Unfinished(SubSeq(chars, o + 2, n), x)
                    /\ t = Tokenizing(x.is, QuoteType[chars[o + 1]], <<chars[o + 1]>>, x.escape,
                                      p[o + 1], p[n + 1])
  BY <1>2, Zenon DEF Pending
<1>12. QED
  BY <1>6, <1>7, <1>8, <1>9, <1>10, <1>11, Zenon

(* At first nothing is read. *)
LEMMA ReadsNothing == Reads(<<>>, <<>>, NewTokenizer)
<1> DEFINE none == <<>>
           p == [i \in {1} |-> <<1, 1>>]
<1>1. Len(none) = 0 /\ DOMAIN none = {} /\ IsSequence(none)
  BY DEF IsSequence
<1>2. p[1] = <<1, 1>> /\ NewTokenizer = Between(<<1, 1>>, <<1, 1>>)
  BY DEF NewTokenizer, Between, Tokenizing, No
<1>3. p \in [1 .. 0 + 1 -> AnyPlace]
  <2>1. 1 .. 0 + 1 = {1} /\ <<1, 1>> \in AnyPlace
    BY DEF AnyPlace
  <2>2. QED
    BY <2>1
<1> HIDE DEF none, p
<1>4. ArePlaces(p, none)
  BY <1>1, <1>2, <1>3 DEF ArePlaces
<1>5. Covers(p, none, none, none, none, 0)
  BY <1>1 DEF Covers
<1>6. Pending(p, none, NewTokenizer, 0)
  <2>1. \E s : NewTokenizer = Between(s, p[0 + 1])
    BY <1>2
  <2>2. QED
    BY <1>1, <2>1 DEF Pending
<1>7. 0 \in 0 .. Len(none)
  BY <1>1
<1>8. Reads(none, none, NewTokenizer)
  BY <1>1, <1>4, <1>5, <1>6, <1>7 DEF Reads
<1>9. QED
  BY <1>8 DEF none

-----------------------------------------------------------------------------
(* The end of the text *)

(* Tokens that cover the whole text, and the end *)
Covered(chars, toks) ==
  \E p, from, to, spoken, e :
    /\ ArePlaces(p, chars) /\ IsSequence(spoken) /\ toks = Append(spoken, e) /\ e.type = "end"
    /\ Covers(p, chars, spoken, from, to, Len(chars))

(* The end of the source ends what is pending, and no quotes are open. *)
LEMMA EndIs ==
  ASSUME NEW t, ~ End(t).throws
  PROVE  /\ t.quotes = <<>>
         /\ \E e : /\ e.type = "end"
                   /\ IsToken(t) => End(t).tokens = Append(<<Token(t)>>, e)
                   /\ ~ IsToken(t) => End(t).tokens = Append(<<>>, e)
<1>1. Throws(t).throws = TRUE
  BY DEF Throws, Goes
<1>2. ~ (t.escape \/ t.quotes # <<>>)
  BY <1>1 DEF End
<1> DEFINE e == [Token(Flushed(t)) EXCEPT !.type = "end", !.start = t.place]
           g == Gives(t, Flushed(t))
<1>3. e.type = "end"
  BY DEF Token
<1>4. "tokens" \in DOMAIN g /\ g.tokens = IF IsToken(t) THEN <<Token(t)>> ELSE <<>>
  BY DEF Gives, Goes
<1>5. End(t) = [g EXCEPT !.tokens = Append(@, e)]
  BY <1>2, Zenon DEF End
<1> HIDE DEF e, g
<1>6. End(t).tokens = Append(g.tokens, e)
  BY <1>4, <1>5
<1>7. QED
  BY <1>2, <1>3, <1>4, <1>6

(* So the tokens cover the text. *)
LEMMA ReadsEnd ==
  ASSUME NEW S, NEW chars \in Seq(S), NEW toks, NEW t, Reads(chars, toks, t), ~ End(t).throws
  PROVE  Covered(chars, toks \o End(t).tokens)
<1> DEFINE n == Len(chars)
           all == toks \o End(t).tokens
<1>1. PICK p, from, to : \E o \in 0 .. n :
        ArePlaces(p, chars) /\ IsSequence(toks) /\ Covers(p, chars, toks, from, to, o) /\ Pending(p, chars, t, o)
  BY DEF Reads
<1>2. PICK o \in 0 .. n :
        ArePlaces(p, chars) /\ IsSequence(toks) /\ Covers(p, chars, toks, from, to, o) /\ Pending(p, chars, t, o)
  BY <1>1
<1>3. PICK e : /\ e.type = "end"
               /\ IsToken(t) => End(t).tokens = Append(<<Token(t)>>, e)
               /\ ~ IsToken(t) => End(t).tokens = Append(<<>>, e)
  BY EndIs
<1>4. n \in Nat /\ o \in Nat
  OBVIOUS
<1>5. /\ ~ IsToken(t) => all = Append(toks, e)
      /\ IsToken(t) => all = Append(Append(toks, Token(t)), e)
  <2> DEFINE token == Token(t)
             R == {toks[i] : i \in DOMAIN toks} \cup {token, e}
  <2>1. toks \in Seq(R) /\ token \in R /\ e \in R
    BY <1>2 DEF IsSequence
  <2> HIDE DEF token, R
  <2>2. toks \o Append(<<>>, e) = Append(toks, e) /\ toks \o Append(<<token>>, e) = Append(Append(toks, token), e)
    BY <2>1
  <2>3. QED
    BY <1>3, <2>2 DEF token
<1> HIDE DEF all, n
<1>6. CASE o = n /\ \E s : t = Between(s, p[n + 1])
  <2>1. t.buffer = <<>> /\ t.type = "bareword"
    BY <1>6, TokenizerParts DEF Between
  <2>2. ~ IsToken(t)
    BY <2>1 DEF IsToken
  <2>3. Covered(chars, all)
    BY <1>2, <1>3, <1>5, <1>6, <2>2 DEF Covered, n
  <2>4. QED
    BY <2>3 DEF all
<1>7. CASE o < n /\ t = Tokenizing(SubSeq(chars, o + 1, n), "bareword", <<>>, No, p[o + 1], p[n + 1])
  <2> DEFINE token == Token(t)
             b == SubSeq(chars, o + 1, n)
  <2>0. t = Tokenizing(b, "bareword", <<>>, No, p[o + 1], p[n + 1])
    BY <1>7
  <2> HIDE DEF b
  <2>00. t.buffer = b /\ t.type = "bareword"
         /\ token = [text |-> b, type |-> "bareword", start |-> p[o + 1], end |-> p[n + 1]]
    BY <2>0, TokenizerParts
  <2>000. t.buffer = b /\ token.text = b /\ token.type = "bareword" /\ token.start = p[o + 1] /\ token.end = p[n + 1]
    BY <2>00
  <2> HIDE DEF token
  <2>1. /\ t.buffer = SubSeq(chars, o + 1, n) /\ token.text = SubSeq(chars, o + 1, n) /\ token.type = "bareword"
        /\ token.start = p[o + 1] /\ token.end = p[n + 1]
    BY <2>000 DEF b
  <2>2. IsToken(t)
    <3>1. SubSeq(chars, o + 1, n) # <<>>
      <4>1. \A i, j \in 1 .. n : i <= j => SubSeq(chars, i, j) # <<>>
        BY DEF n
      <4>2. n \in 1 .. n /\ o + 1 \in 1 .. n /\ o + 1 <= n
        BY <1>4, <1>7
      <4>3. QED
        BY <4>1, <4>2
    <3>2. QED
      BY <2>1, <3>1 DEF IsToken
  <2>3. Told(chars, token, o + 1, n)
    BY <2>1 DEF Told
  <2>4. PICK f, g : IsSequence(Append(toks, token)) /\ Covers(p, chars, Append(toks, token), f, g, n)
    BY <1>2, <1>4, <1>7, <2>1, <2>3, CoversToken
  <2>5. Covered(chars, all)
    BY <1>2, <1>3, <1>5, <2>2, <2>4 DEF Covered, n, token
  <2>6. QED
    BY <2>5 DEF all
<1>8. CASE /\ o < n /\ chars[o + 1] = "sharp"
           /\ t = Tokenizing(SubSeq(chars, o + 2, n), "comment", <<>>, No, p[o + 1], p[n + 1])
  <2> DEFINE token == Token(t)
             b == SubSeq(chars, o + 2, n)
  <2>0. t = Tokenizing(b, "comment", <<>>, No, p[o + 1], p[n + 1])
    BY <1>8
  <2> HIDE DEF b
  <2>00. t.buffer = b /\ t.type = "comment"
         /\ token = [text |-> b, type |-> "comment", start |-> p[o + 1], end |-> p[n + 1]]
    BY <2>0, TokenizerParts
  <2>000. t.type = "comment" /\ token.text = b /\ token.type = "comment" /\ token.start = p[o + 1] /\ token.end = p[n + 1]
    BY <2>00
  <2> HIDE DEF token
  <2>1. /\ t.type = "comment" /\ token.text = SubSeq(chars, o + 2, n) /\ token.type = "comment"
        /\ token.start = p[o + 1] /\ token.end = p[n + 1]
    BY <2>000 DEF b
  <2>2. IsToken(t)
    BY <2>1 DEF IsToken
  <2>3. Told(chars, token, o + 1, n)
    <3>1. (o + 1) + 1 = o + 2
      BY <1>4
    <3>2. QED
      BY <1>8, <2>1, <3>1 DEF Told
  <2>4. PICK f, g : IsSequence(Append(toks, token)) /\ Covers(p, chars, Append(toks, token), f, g, n)
    BY <1>2, <1>4, <1>8, <2>1, <2>3, CoversToken
  <2>5. Covered(chars, all)
    BY <1>2, <1>3, <1>5, <2>2, <2>4 DEF Covered, n, token
  <2>6. QED
    BY <2>5 DEF all
<1>9. \A b, ty, k, x, s, l : k # <<>> => t # Tokenizing(b, ty, k, x, s, l)
  <2>1. t.quotes = <<>>
    BY EndIs
  <2>2. QED
    BY <2>1, TokenizerParts
<1>10. \A x : <<x>> # <<>>
  OBVIOUS
<1>11. \/ o = n /\ \E s : t = Between(s, p[n + 1])
       \/ o < n /\ t = Tokenizing(SubSeq(chars, o + 1, n), "bareword", <<>>, No, p[o + 1], p[n + 1])
       \/ /\ o < n /\ chars[o + 1] = "sharp"
          /\ t = Tokenizing(SubSeq(chars, o + 2, n), "comment", <<>>, No, p[o + 1], p[n + 1])
  BY <1>2, <1>9, <1>10, Zenon DEF Pending, n
<1>12. QED
  BY <1>6, <1>7, <1>8, <1>11

(* There is but one place for each character. *)
LEMMA PlacesOnce ==
  ASSUME NEW S, NEW chars \in Seq(S), NEW p, ArePlaces(p, chars), NEW q, ArePlaces(q, chars)
  PROVE  p = q
<1>1. /\ Len(chars) \in Nat
      /\ p \in [1 .. Len(chars) + 1 -> AnyPlace] /\ q \in [1 .. Len(chars) + 1 -> AnyPlace]
  BY DEF ArePlaces
<1>2. ASSUME NEW i \in 1 .. Len(chars) + 1 PROVE p[i] = q[i]
  <2> DEFINE T == {k \in Nat : k \in 1 .. Len(chars) + 1 /\ p[k] # q[k]}
  <2> SUFFICES ASSUME i \in T PROVE FALSE
    BY <1>1
  <2>1. PICK k \in T : \A l \in T : k <= l
    BY LeastNumber, Zenon
  <2>2. k # 1
    BY <2>1 DEF ArePlaces
  <2>3. k - 1 \in Nat /\ k - 1 \in 1 .. Len(chars) /\ k - 1 \in 1 .. Len(chars) + 1
        /\ (k - 1) + 1 = k /\ ~ (k <= k - 1)
    BY <1>1, <2>2
  <2>4. p[k - 1] = q[k - 1]
    BY <2>1, <2>3
  <2>5. p[k] = PlaceAfter(p[k - 1], chars[k - 1]) /\ q[k] = PlaceAfter(q[k - 1], chars[k - 1])
    BY <2>3 DEF ArePlaces
  <2>6. QED
    BY <2>1, <2>4, <2>5
<1>3. QED
  BY <1>1, <1>2

(* What a token is told to be is what it says. *)
LEMMA ToldSays ==
  ASSUME NEW S, text \in Seq(S), NEW token, NEW first \in 1 .. Len(text), NEW last \in 1 .. Len(text),
         first <= last, Told(text, token, first, last)
  PROVE  Says(token, first, last) /\ token.type # "end"
<1> DEFINE chars == SubSeq(text, first, last)
           rest  == SubSeq(text, first + 1, last)
           inner == SubSeq(text, first + 1, last - 1)
<1>1. ASSUME text[first] = "sharp" PROVE <<"sharp">> \o rest = chars
  <2>1. /\ chars \in Seq(S) /\ rest \in Seq(S) /\ Len(chars) = last - first + 1 /\ Len(rest) = last - first
        /\ \A i \in 1 .. last - first + 1 : chars[i] = text[first + i - 1]
        /\ \A i \in 1 .. last - first : rest[i] = text[first + i]
    OBVIOUS
  <2> DEFINE m == last - first
             sharp == <<"sharp">>
  <2>2. m \in Nat /\ sharp \in Seq({"sharp"}) /\ Len(sharp) = 1 /\ sharp[1] = "sharp"
    OBVIOUS
  <2>3. /\ chars \in Seq(S) /\ rest \in Seq(S) /\ Len(chars) = m + 1 /\ Len(rest) = m
        /\ chars[1] = "sharp" /\ \A i \in 2 .. m + 1 : chars[i] = rest[i - 1]
    <3>1. chars[1] = "sharp"
      BY <1>1, <2>1
    <3>2. ASSUME NEW i \in 2 .. m + 1 PROVE chars[i] = rest[i - 1]
      <4>1. i - 1 \in 1 .. last - first /\ i \in 1 .. last - first + 1 /\ first + (i - 1) = first + i - 1
        OBVIOUS
      <4>2. QED
        BY <2>1, <4>1
    <3>3. QED
      BY <2>1, <3>1, <3>2
  <2> HIDE DEF chars, rest, m, sharp
  <2>4. sharp \in Seq(S \cup {"sharp"}) /\ rest \in Seq(S \cup {"sharp"}) /\ chars \in Seq(S \cup {"sharp"})
    BY <2>2, <2>3
  <2> DEFINE joined == sharp \o rest
  <2>5. /\ joined \in Seq(S \cup {"sharp"}) /\ Len(joined) = m + 1 /\ joined[1] = "sharp"
        /\ \A i \in 2 .. m + 1 : joined[i] = rest[i - 1]
    <3>1. /\ joined \in Seq(S \cup {"sharp"}) /\ Len(joined) = Len(sharp) + Len(rest)
          /\ \A i \in 1 .. Len(sharp) + Len(rest) :
               joined[i] = IF i <= Len(sharp) THEN sharp[i] ELSE rest[i - Len(sharp)]
      BY <2>4, ConcatProperties
    <3> HIDE DEF joined
    <3>2. Len(joined) = m + 1 /\ \A i \in 1 .. m + 1 : joined[i] = IF i <= 1 THEN sharp[i] ELSE rest[i - 1]
      BY <2>2, <2>3, <3>1
    <3>3. 1 \in 1 .. m + 1 /\ \A i \in 2 .. m + 1 : i \in 1 .. m + 1 /\ ~ (i <= 1)
      BY <2>2
    <3>4. QED
      BY <2>2, <3>1, <3>2, <3>3
  <2> HIDE DEF joined
  <2>6. \A i \in 1 .. m + 1 : joined[i] = chars[i]
    <3>1. \A i \in 1 .. m + 1 : i = 1 \/ i \in 2 .. m + 1
      BY <2>2
    <3>2. QED
      BY <2>3, <2>5, <3>1
  <2>7. joined = chars
    BY <2>2, <2>3, <2>4, <2>5, <2>6
  <2>8. QED
    BY <2>7 DEF joined, sharp
<1> HIDE DEF chars, rest, inner
<1>2. Told(text, token, first, last) <=>
        \/ token.type = "bareword" /\ token.text = chars
        \/ token.type = "comment" /\ text[first] = "sharp" /\ token.text = rest
        \/ /\ first < last /\ text[first] \in DOMAIN QuoteType /\ text[last] = Close(text[first])
           /\ token.type = QuoteType[text[first]]
           /\ token.text = IF text[first] = "open" THEN inner ELSE Decoded(inner)
  BY Zenon DEF Told, chars, rest, inner
<1>3. Says(token, first, last) <=>
        CASE token.type = "bareword" -> first <= last /\ token.text = chars
          [] token.type = "comment"  -> first <= last /\ <<"sharp">> \o token.text = chars
          [] OTHER -> /\ first < last
                      /\ text[first] \in DOMAIN QuoteType /\ text[last] = Close(text[first])
                      /\ token.type = QuoteType[text[first]]
                      /\ token.text = IF text[first] = "open" THEN inner ELSE Decoded(inner)
  BY Zenon DEF Says, chars, inner
<1>4. CASE token.type = "bareword" /\ token.text = chars
  BY <1>3, <1>4
<1>5. CASE token.type = "comment" /\ text[first] = "sharp" /\ token.text = rest
  BY <1>1, <1>3, <1>5
<1>6. CASE /\ first < last /\ text[first] \in DOMAIN QuoteType /\ text[last] = Close(text[first])
           /\ token.type = QuoteType[text[first]]
           /\ token.text = IF text[first] = "open" THEN inner ELSE Decoded(inner)
  <2>1. token.type \in {"double", "single"}
    BY <1>6, QuotesApart
  <2>2. token.type \notin {"bareword", "comment", "end"}
    BY <2>1
  <2> HIDE DEF Says
  <2>3. QED
    BY <1>3, <1>6, <2>2, Zenon
<1>7. QED
  BY <1>2, <1>4, <1>5, <1>6

(* Tokens that cover the text are what TokensCoverText asks for. *)
LEMMA CoveredIs ==
  ASSUME NEW S, text \in Seq(S), Covered(text, tokens)
  PROVE  LET spoken == {k \in DOMAIN tokens : tokens[k].type # "end"}
             spans  == {<<k, Span(Places, tokens[k])>> : k \in spoken}
         IN  /\ \A k \in spoken : Says(tokens[k], Index(Places, tokens[k].start),
                                                  Index(Places, tokens[k].end) - 1)
             /\ \A i \in DOMAIN text : text[i] \notin White =>
                  Cardinality({s \in spans : i \in s[2]}) = 1
<1> DEFINE n == Len(text)
           spoken == {k \in DOMAIN tokens : tokens[k].type # "end"}
           spans  == {<<k, Span(Places, tokens[k])>> : k \in spoken}
<1>1. PICK p, from, to, said, e :
        /\ ArePlaces(p, text) /\ IsSequence(said) /\ tokens = Append(said, e) /\ e.type = "end"
        /\ Covers(p, text, said, from, to, n)
  BY DEF Covered
<1>2. Places = p
  BY <1>1, PlacesAre, PlacesOnce
<1>3. n \in Nat /\ DOMAIN text = 1 .. n
  OBVIOUS
<1>4. DOMAIN p = 1 .. n + 1
  BY <1>1 DEF ArePlaces
<1>5. \A k \in DOMAIN said :
        /\ from[k] \in 1 .. n /\ to[k] \in 1 .. n + 1 /\ from[k] < to[k]
        /\ said[k].start = p[from[k]] /\ said[k].end = p[to[k]]
        /\ Told(text, said[k], from[k], to[k] - 1)
  BY <1>1 DEF Covers
<1>6. ASSUME NEW k \in DOMAIN said
      PROVE  Says(said[k], from[k], to[k] - 1) /\ said[k].type # "end"
  <2>1. from[k] \in 1 .. n /\ to[k] - 1 \in 1 .. n /\ from[k] <= to[k] - 1
    BY <1>3, <1>5
  <2>2. Told(text, said[k], from[k], to[k] - 1)
    BY <1>5
  <2>3. QED
    BY <2>1, <2>2, ToldSays
<1>7. spoken = DOMAIN said /\ \A k \in DOMAIN said : tokens[k] = said[k]
  <2>1. /\ Len(said) \in Nat /\ DOMAIN said = 1 .. Len(said) /\ DOMAIN tokens = 1 .. Len(said) + 1
        /\ tokens[Len(said) + 1] = e /\ \A k \in 1 .. Len(said) : tokens[k] = said[k]
    BY <1>1, AppendIs
  <2>2. QED
    BY <1>1, <1>6, <2>1
<1>8. ASSUME NEW k \in DOMAIN said
      PROVE  Index(Places, tokens[k].start) = from[k] /\ Index(Places, tokens[k].end) = to[k]
  <2>1. from[k] \in DOMAIN p /\ to[k] \in DOMAIN p
    BY <1>3, <1>4, <1>5
  <2>2. Index(p, p[from[k]]) = from[k] /\ Index(p, p[to[k]]) = to[k]
    BY <1>1, <2>1, IndexIs
  <2>3. QED
    BY <1>2, <1>5, <1>7, <2>2
<1>9. ASSUME NEW k \in DOMAIN said PROVE Span(Places, tokens[k]) = from[k] .. to[k] - 1
  BY <1>8 DEF Span
<1> DEFINE Part(k) == from[k] .. to[k] - 1
<1>10. spans = {<<k, Part(k)>> : k \in DOMAIN said}
  BY <1>7, <1>9
<1> HIDE DEF spans
<1>11. ASSUME NEW i \in 1 .. n, text[i] \notin White
       PROVE  Cardinality({s \in spans : i \in s[2]}) = 1
  <2>1. PICK k \in DOMAIN said : from[k] <= i /\ i < to[k]
    BY <1>1, <1>11 DEF Covers
  <2>2. \A l \in DOMAIN said : i \in Part(l) => from[l] <= i /\ i < to[l]
    <3> SUFFICES ASSUME NEW l \in DOMAIN said, i \in Part(l) PROVE from[l] <= i /\ i < to[l]
      OBVIOUS
    <3>1. from[l] \in 1 .. n /\ to[l] \in 1 .. n + 1
      BY <1>5
    <3>2. QED
      BY <1>3, <3>1
  <2>3. i \in Part(k)
    <3>1. from[k] \in 1 .. n /\ to[k] \in 1 .. n + 1
      BY <1>5
    <3>2. QED
      BY <1>3, <2>1, <3>1
  <2>4. ASSUME NEW l \in DOMAIN said, i \in Part(l) PROVE l = k
    <3>1. from[l] <= i /\ i < to[l]
      BY <2>2, <2>4
    <3>2. /\ from[l] \in 1 .. n /\ to[l] \in 1 .. n + 1 /\ from[k] \in 1 .. n /\ to[k] \in 1 .. n + 1
      BY <1>5
    <3>3. DOMAIN said \subseteq Nat
      BY <1>1, AppendIs
    <3>4. ~ (k < l) /\ ~ (l < k)
      <4>1. \A a, b \in DOMAIN said : a < b => to[a] <= from[b]
        BY <1>1 DEF Covers
      <4>2. QED
        BY <1>3, <2>1, <3>1, <3>2, <4>1
    <3>5. QED
      BY <3>3, <3>4
  <2> HIDE DEF Part
  <2>5. {s \in spans : i \in s[2]} = {<<k, Part(k)>>}
    BY <1>10, <2>3, <2>4
  <2>6. QED
    BY <2>5, FS_Singleton
<1>12. \A k \in spoken : Says(tokens[k], Index(Places, tokens[k].start), Index(Places, tokens[k].end) - 1)
  BY <1>6, <1>7, <1>8
<1>13. QED
  BY <1>3, <1>11, <1>12 DEF spans

(* TokensCoverText: when the program runs, each token is what the text has where *)
(* the token says it is, and all that is not white is in one of them.      *)
THEOREM TextIsCovered == Spec => []TokensCoverText
<1> DEFINE Reading == /\ phase = "compiling" => Reads(text, tokens, tokenizer)
                      /\ phase = "running" => Covered(text, tokens)
<1>1. Init => Reading
  BY ReadsNothing DEF Init
<1>2. IInv /\ Reading /\ [Next]_vars => Reading'
  <2> SUFFICES ASSUME IInv, Reading, [Next]_vars PROVE Reading'
    OBVIOUS
  <2>1. text \in Seq(Characters)
    BY DEF IInv, Sources
  <2>2. CASE ReadSource
    <3>1. PICK c \in Characters : Char(c)
      BY <2>2, SourceCharacter
    <3> DEFINE read == Read(tokenizer, c)
    <3>2. /\ phase = "compiling" /\ text' = Append(text, c)
          /\ phase' = IF compilation'.failed THEN "failed" ELSE "compiling"
          /\ tokenizer' = read.tokenizer /\ tokens' = tokens \o read.tokens
      BY <3>1 DEF Char, Listen
    <3>3. read.throws => compilation'.failed
      BY <3>1, ThrownFails DEF IInv, Char
    <3>4. (~ read.throws /\ phase' = "compiling") \/ phase' = "failed"
      BY <3>2, <3>3
    <3>5. CASE ~ read.throws /\ phase' = "compiling"
      <4>1. Reads(Append(text, c), tokens \o read.tokens, read.tokenizer)
        BY <2>1, <3>2, <3>5, ReadsOn
      <4> HIDE DEF read
      <4>2. QED
        BY <3>2, <3>5, <4>1
    <3>6. CASE phase' = "failed"
      BY <3>6
    <3>7. QED
      BY <3>4, <3>5, <3>6
  <2>3. CASE EndSource
    <3> DEFINE read == End(tokenizer)
    <3>1. /\ phase = "compiling" /\ text' = text /\ tokens' = tokens \o read.tokens
          /\ phase' = IF compilation'.failed THEN "failed" ELSE "running"
      BY <2>3 DEF EndSource, Listen
    <3>2. read.throws => compilation'.failed
      BY <2>3, ThrownFails DEF IInv, EndSource
    <3>3. (~ read.throws /\ phase' = "running") \/ phase' = "failed"
      BY <3>1, <3>2
    <3>4. CASE ~ read.throws /\ phase' = "running"
      <4>1. Covered(text, tokens \o read.tokens)
        BY <2>1, <3>1, <3>4, ReadsEnd
      <4> HIDE DEF read
      <4>2. QED
        BY <3>1, <3>4, <4>1
    <3>5. CASE phase' = "failed"
      BY <3>5
    <3>6. QED
      BY <3>3, <3>4, <3>5
  <2>4. CASE RunWord \/ EndRun \/ UNCHANGED vars
    BY <2>4 DEF RunWord, EndRun, vars
  <2>5. QED
    BY <2>2, <2>3, <2>4 DEF Next
<1>3. IInv /\ Reading => TokensCoverText
  <2> SUFFICES ASSUME IInv, Covered(text, tokens) PROVE TokensCoverText
    BY DEF TokensCoverText
  <2>1. text \in Seq(Characters)
    BY DEF IInv, Sources
  <2>2. QED
    BY <2>1, CoveredIs DEF TokensCoverText
<1>4. QED
  BY <1>1, <1>2, <1>3, Invariance, PTL DEF Spec
=============================================================================
