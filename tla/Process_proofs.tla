--------------------------- MODULE Process_proofs ----------------------------
(***************************************************************************)
(* What holds of the process for every command line, every document and    *)
(* any number of edits: the command line is taken for what it means, the   *)
(* reloads never outlive the pipe, the pipe has the lists of one faultless *)
(* document, and the domain is the one asked for.                          *)
(***************************************************************************)
EXTENDS Process, WellFoundedInduction, TLAPS

(* Where main is while the spy is there. *)
Built == {"watch", "timer", "running", "stop timer", "join timer", "stop watcher",
          "join watcher", "destroy"}

(* Where main is while a thread may be in its callback. *)
Calling(t) ==
  IF t = "timer" THEN {"running", "stop timer", "join timer"}
                 ELSE {"timer", "running", "stop timer", "join timer", "stop watcher", "join watcher"}

(* The life of the pipe and of the two threads follows main. *)
LifeInv ==
  /\ pc \in Places
  /\ reload \in [Threads -> {Sleeping} \cup [pc : {"reading", "applying"}, yml : Yaml]]
  /\ timer \in BOOLEAN /\ (timer => pc \in {"running", "stop timer"})
  /\ changed \in BOOLEAN /\ (changed => Watching)
  /\ \A t \in Threads : reload[t] # Sleeping => pc \in Calling(t)
  /\ pc \in Built => pipe = "enabled"
  /\ pipe # "none" => pc \in Built \cup {"ended"}

(* A document somebody holds is one there was. *)
HeldInv ==
  /\ file \in Files \cup {NoFile}
  /\ source \in BOOLEAN
  /\ had \in SUBSET Yaml
  /\ EmptyYaml \in had
  /\ file \in had \cup {NoFile}
  /\ loaded \in had
  /\ pc = "build" => loaded.fault = "none"
  /\ \A t \in Threads : reload[t] # Sleeping => reload[t].yml \in had
  /\ \A t \in Threads : reload[t].pc = "applying" => reload[t].yml.fault = "none"

(* The values of the other variables. *)
ValueInv ==
  /\ argv \in CommandLines \cup {<<>>}
  /\ outcome.code \in Codes \cup {"help", "version"}
  /\ outcome.args \in [reload : Int, domain : 0..MaxDomainId \cup {Unset}]
  /\ watchable \in BOOLEAN /\ missed \in BOOLEAN
  /\ code \in Codes \cup {"none"}
  /\ code = "none" <=> pc # "ended"
  /\ edits \in 0..MaxEdits
  /\ lists \in Lists
  /\ pipe \in {"none", "enabled", "destroyed"}
  /\ domain \in Nat \cup {Unset}
  /\ defaultQos \in Profiles \cup {NoTag}

ProcessInv ==
  LifeInv /\ HeldInv /\ ValueInv /\ ListsOfOneDocument /\ DomainAsAsked /\ CodeTellsWhatHappened

-----------------------------------------------------------------------------
(* Induction over data: a set that has zero, and each successor of what it   *)
(* has, has every natural number.                                            *)
LEMMA SetInduction ==
  ASSUME NEW S, 0 \in S, \A n \in Nat : n \in S => n + 1 \in S
  PROVE  Nat \subseteq S
<1> SUFFICES ASSUME Nat \ S # {} PROVE FALSE
  OBVIOUS
<1>1. PICK n \in Nat \ S : \A m \in Nat \ S : ~ (<<m, n>> \in OpToRel(<, Nat))
  BY NatLessThanWellFounded, WFMin
<1>2. \A m \in Nat : m < n => <<m, n>> \in OpToRel(<, Nat)
  BY DEF OpToRel
<1>3. n - 1 \in Nat /\ n - 1 < n
  OBVIOUS
<1>4. n - 1 \in S
  BY <1>1, <1>2, <1>3
<1>5. (n - 1) + 1 \in S
  BY <1>3, <1>4
<1> QED BY <1>5

LEMMA MaxIs ==
  ASSUME NEW n \in Nat, NEW A \in SUBSET (1..n), n \in A
  PROVE  Max(A) = n
<1>1. \A y \in A : n >= y
  OBVIOUS
<1>2. Max(A) \in A /\ \A y \in A : Max(A) >= y
  BY <1>1 DEF Max
<1>3. \A m \in 1..n : m >= n => m = n
  OBVIOUS
<1>4. A \subseteq 1..n
  OBVIOUS
<1> QED BY <1>2, <1>3, <1>4, Zenon

(* What FoldLeft unfolds to: a function of the sets of indices that takes    *)
(* the largest of them last.                                                 *)
Folds(base, s, S, f) ==
  f = [A \in SUBSET S |->
         IF A = {} THEN base ELSE TakeOption(f[A \ {Max(A)}], s[Max(A)])]

LEMMA FoldsExist ==
  ASSUME NEW base, NEW s
  PROVE  \A n \in Nat : \E f : Folds(base, s, 1..n, f)
<1> DEFINE T == {n \in Nat : \E f : Folds(base, s, 1..n, f)}
<1>1. 0 \in T
  <2>1. 1..0 = {} /\ 0 \in Nat
    OBVIOUS
  <2>2. Folds(base, s, {}, [A \in {{}} |-> base])
    BY DEF Folds
  <2> QED BY <2>1, <2>2
<1>2. ASSUME NEW n \in Nat, n \in T PROVE n + 1 \in T
  <2>1. PICK f : Folds(base, s, 1..n, f)
    BY <1>2
  <2>2. PICK g : g = [A \in SUBSET (1..n + 1) |->
                       IF n + 1 \in A THEN TakeOption(f[A \ {n + 1}], s[n + 1]) ELSE f[A]]
    OBVIOUS
  <2>3. \A A \in SUBSET (1..n) : g[A] = f[A]
    BY <2>2
  <2>4. ASSUME NEW A \in SUBSET (1..n + 1)
        PROVE  g[A] = IF A = {} THEN base ELSE TakeOption(g[A \ {Max(A)}], s[Max(A)])
    <3>1. CASE n + 1 \in A
      <4>1. Max(A) = n + 1
        BY <3>1, MaxIs
      <4>2. A \ {n + 1} \in SUBSET (1..n)
        OBVIOUS
      <4>3. g[A] = TakeOption(f[A \ {n + 1}], s[n + 1])
        BY <2>2, <3>1
      <4> QED BY <2>3, <3>1, <4>1, <4>2, <4>3
    <3>2. CASE n + 1 \notin A
      <4>1. A \subseteq 1..n
        BY <3>2
      <4>2. A \in SUBSET (1..n) /\ \A x : A \ {x} \in SUBSET (1..n)
        BY <4>1, Zenon
      <4>3. f[A] = IF A = {} THEN base ELSE TakeOption(f[A \ {Max(A)}], s[Max(A)])
        BY <2>1, <4>2 DEF Folds
      <4> QED BY <2>3, <4>2, <4>3
    <3> QED BY <3>1, <3>2
  <2>5. Folds(base, s, 1..n + 1, g)
    BY <2>2, <2>4, Zenon DEF Folds
  <2> QED BY <2>5
<1> HIDE DEF T
<1>3. Nat \subseteq T
  BY <1>1, <1>2, SetInduction
<1> QED BY <1>3 DEF T

(* The loop over the options, turn by turn. *)
Turns(base, s, after) ==
  /\ after[0] = base
  /\ \A i \in 1..Len(s) : after[i] = TakeOption(after[i - 1], s[i])

LEMMA FoldTurns ==
  ASSUME NEW S, NEW s \in Seq(S), NEW base
  PROVE  \E after : Turns(base, s, after) /\ FoldLeft(TakeOption, base, s) = after[Len(s)]
<1> DEFINE f == CHOOSE f : Folds(base, s, DOMAIN s, f)
<1>1. Len(s) \in Nat /\ DOMAIN s = 1..Len(s)
  OBVIOUS
<1>2. FoldLeft(TakeOption, base, s) = f[DOMAIN s]
  BY DEF FoldLeft, MapThenFoldSet, Folds
<1>3. \E g : Folds(base, s, DOMAIN s, g)
  BY <1>1, FoldsExist
<1>4. Folds(base, s, DOMAIN s, f)
  BY <1>3, Zenon
<1> HIDE DEF f
<1>5. PICK after : after = [i \in 0..Len(s) |-> f[1..i]]
  OBVIOUS
<1>6. after[0] = base
  <2>1. 1..0 = {} /\ 0 \in 0..Len(s)
    BY <1>1
  <2> QED BY <1>4, <1>5, <2>1 DEF Folds
<1>7. ASSUME NEW i \in 1..Len(s) PROVE after[i] = TakeOption(after[i - 1], s[i])
  <2>1. Max(1..i) = i /\ (1..i) \ {i} = 1..i - 1
    BY <1>1, MaxIs
  <2>2. i \in 1..i /\ i \in 0..Len(s) /\ i - 1 \in 0..Len(s) /\ 1..i \subseteq DOMAIN s
    BY <1>1
  <2>3. f[1..i] = TakeOption(f[1..i - 1], s[i])
    BY <1>4, <2>1, <2>2 DEF Folds
  <2> QED BY <1>5, <2>2, <2>3
<1>8. FoldLeft(TakeOption, base, s) = after[Len(s)]
  BY <1>1, <1>2, <1>5
<1> QED BY <1>6, <1>7, <1>8 DEF Turns
-----------------------------------------------------------------------------
(* The option parser, word by word. *)

IsOption(words, i) == i \in 1..Len(words) /\ words[i].flag \notin {NoFlag, "end"}

(* The option at a word, with the value it takes from the next one, and the  *)
(* word after it.                                                            *)
OptionAt(words, i) ==
  [flag  |-> words[i].flag,
   value |-> IF words[i].flag \in Valued THEN words[i + 1].number ELSE NoNumber]

HasValue(words, exists, i) ==
  words[i].flag \in Valued => i < Len(words) /\ Accepts(words[i].flag, words[i + 1], exists)

After(words, i) == IF words[i].flag \in Valued THEN i + 2 ELSE i + 1

(* What the parser makes of the words from the i-th one on, given what it    *)
(* makes of those further on.                                                *)
ParseAt(words, exists, from, i) ==
  IF ~IsOption(words, i) THEN NoOptions
  ELSE IF HasValue(words, exists, i) THEN Before(OptionAt(words, i), from[After(words, i)])
  ELSE Illegal

Parses(words, exists, I, from) == from = [i \in I |-> ParseAt(words, exists, from, i)]

LEMMA ParseLooksAhead ==
  ASSUME NEW words, Len(words) \in Nat, NEW exists, NEW i \in 1..Len(words) + 1, NEW f, NEW g,
         \A j \in i + 1..Len(words) + 1 : f[j] = g[j]
  PROVE  ParseAt(words, exists, f, i) = ParseAt(words, exists, g, i)
<1>1. CASE IsOption(words, i) /\ HasValue(words, exists, i)
  <2>1. After(words, i) \in i + 1..Len(words) + 1
    BY <1>1 DEF IsOption, HasValue, After
  <2> QED BY <2>1, Zenon DEF ParseAt
<1> QED BY <1>1, Zenon DEF ParseAt

LEMMA ParseExists ==
  ASSUME NEW words, Len(words) \in Nat, NEW exists
  PROVE  \E from : Parses(words, exists, 1..Len(words) + 1, from)
<1> DEFINE n == Len(words) + 1
           T == {k \in Nat : k < n => \E from : Parses(words, exists, n - k..n, from)}
<1>1. 0 \in T
  <2>1. n - 0..n = {n}
    OBVIOUS
  <2>2. PICK from : from = [i \in {n} |-> NoOptions]
    OBVIOUS
  <2>3. \A f : ParseAt(words, exists, f, n) = NoOptions
    BY DEF ParseAt, IsOption
  <2>4. Parses(words, exists, {n}, from)
    BY <2>2, <2>3 DEF Parses
  <2> QED BY <2>1, <2>4
<1>2. ASSUME NEW k \in Nat, k \in T PROVE k + 1 \in T
  <2> SUFFICES ASSUME k + 1 < n PROVE \E g : Parses(words, exists, n - (k + 1)..n, g)
    OBVIOUS
  <2>1. PICK f : Parses(words, exists, n - k..n, f)
    BY <1>2
  <2>2. PICK i : i = n - (k + 1)
    OBVIOUS
  <2>3. i \in 1..n /\ n - k = i + 1 /\ n - (k + 1)..n = i..n
    BY <2>2
  <2>4. PICK g : g = [j \in i..n |-> IF j = i THEN ParseAt(words, exists, f, i) ELSE f[j]]
    OBVIOUS
  <2>5. \A j \in i + 1..n : g[j] = f[j]
    BY <2>3, <2>4
  <2>6. ASSUME NEW j \in i..n PROVE g[j] = ParseAt(words, exists, g, j)
    <3>1. j \in 1..n /\ \A x \in j + 1..n : g[x] = f[x]
      BY <2>3, <2>5
    <3>2. ParseAt(words, exists, f, j) = ParseAt(words, exists, g, j)
      BY <3>1, ParseLooksAhead, Zenon
    <3>3. CASE j = i
      BY <2>4, <3>2, <3>3
    <3>4. CASE j # i
      <4>1. j \in n - k..n /\ g[j] = f[j]
        BY <2>3, <2>4, <3>4
      <4>2. f[j] = ParseAt(words, exists, f, j)
        BY <2>1, <4>1, Zenon DEF Parses
      <4> QED BY <3>2, <4>1, <4>2
    <3> QED BY <3>3, <3>4
  <2>7. Parses(words, exists, i..n, g)
    BY <2>4, <2>6, Zenon DEF Parses
  <2> QED BY <2>3, <2>7
<1>3. Nat \subseteq T
  <2> HIDE DEF T
  <2> QED BY <1>1, <1>2, SetInduction
<1>4. Len(words) \in T /\ Len(words) < n /\ n - Len(words) = 1
  BY <1>3
<1> QED BY <1>4

(* Parsed is that function at the first word. *)
LEMMA ParsedIs ==
  ASSUME NEW words, Len(words) \in Nat, NEW exists
  PROVE  \E from : /\ Parses(words, exists, 1..Len(words) + 1, from)
                   /\ Parsed(words, exists) = from[1]
<1> DEFINE flag(i) == words[i].flag
           valueAt(i) == i <= Len(words) /\ Accepts(flag(i - 1), words[i], exists)
           Body(f, i) ==
             IF i > Len(words) THEN NoOptions
             ELSE CASE flag(i) \in {NoFlag, "end"} -> NoOptions
                    [] flag(i) \in Valued ->
                         IF valueAt(i + 1)
                           THEN Before([flag |-> flag(i), value |-> words[i + 1].number], f[i + 2])
                           ELSE Illegal
                    [] OTHER -> Before([flag |-> flag(i), value |-> NoNumber], f[i + 1])
           Is(f) == f = [i \in 1..Len(words) + 1 |-> Body(f, i)]
           from == CHOOSE f : Is(f)
<1>1. Parsed(words, exists) = from[1]
  BY DEF Parsed
<1>2. ASSUME NEW f, NEW i \in 1..Len(words) + 1
      PROVE  Body(f, i) = ParseAt(words, exists, f, i)
  <2>1. CASE i > Len(words)
    BY <2>1 DEF ParseAt, IsOption
  <2>2. CASE i <= Len(words) /\ flag(i) \in {NoFlag, "end"}
    <3>1. flag(i) \notin Valued
      BY <2>2, ArgumentConstants DEF Valued
    <3> QED BY <2>2, <3>1 DEF ParseAt, IsOption
  <2>3. CASE i <= Len(words) /\ flag(i) \notin {NoFlag, "end"} /\ flag(i) \in Valued
    <3>1. IsOption(words, i) /\ After(words, i) = i + 2
      BY <2>3 DEF IsOption, After
    <3>2. HasValue(words, exists, i) <=> valueAt(i + 1)
      <4>1. (i + 1) - 1 = i /\ (i < Len(words) <=> i + 1 <= Len(words))
        OBVIOUS
      <4> QED BY <2>3, <4>1 DEF HasValue
    <3>3. OptionAt(words, i) = [flag |-> flag(i), value |-> words[i + 1].number]
      BY <2>3 DEF OptionAt
    <3>4. Body(f, i) = IF valueAt(i + 1) THEN Before(OptionAt(words, i), f[i + 2]) ELSE Illegal
      BY <2>3, <3>3
    <3> QED BY <3>1, <3>2, <3>4, Zenon DEF ParseAt
  <2>4. CASE i <= Len(words) /\ flag(i) \notin {NoFlag, "end"} /\ flag(i) \notin Valued
    <3>1. IsOption(words, i) /\ After(words, i) = i + 1 /\ HasValue(words, exists, i)
      BY <2>4 DEF IsOption, After, HasValue
    <3>2. OptionAt(words, i) = [flag |-> flag(i), value |-> NoNumber]
      BY <2>4 DEF OptionAt
    <3>3. Body(f, i) = Before(OptionAt(words, i), f[i + 1])
      BY <2>4, <3>2
    <3> QED BY <3>1, <3>3, Zenon DEF ParseAt
  <2> QED BY <2>1, <2>2, <2>3, <2>4
<1> HIDE DEF Body
<1>3. \A f : Is(f) <=> Parses(words, exists, 1..Len(words) + 1, f)
  BY <1>2 DEF Parses
<1>4. \E f : Is(f)
  BY <1>3, ParseExists
<1>5. Is(from)
  BY <1>4, Zenon
<1> HIDE DEF from, Is
<1> QED BY <1>1, <1>3, <1>5

-----------------------------------------------------------------------------
(* The words in option position. *)

Reached(words, S, i) ==
  \/ i = 1
  \/ i - 1 \in S /\ words[i - 1].flag \notin Valued
  \/ i - 2 \in S /\ words[i - 2].flag \in Valued

(* S is the set of them among the first n words. *)
Positions(words, n, S) ==
  /\ S \in SUBSET (1..n)
  /\ \A i \in 1..n : i \in S <=> words[i].flag \notin {NoFlag, "end"} /\ Reached(words, S, i)

LEMMA PositionsExist ==
  ASSUME NEW words
  PROVE  \A n \in Nat : \E S : Positions(words, n, S)
<1> DEFINE T == {n \in Nat : \E S : Positions(words, n, S)}
<1>1. 0 \in T
  <2>1. Positions(words, 0, {})
    BY DEF Positions
  <2> QED BY <2>1
<1>2. ASSUME NEW n \in Nat, n \in T PROVE n + 1 \in T
  <2>1. PICK S : Positions(words, n, S)
    BY <1>2
  <2>2. PICK R : R = IF words[n + 1].flag \notin {NoFlag, "end"} /\ Reached(words, S, n + 1)
                       THEN S \cup {n + 1} ELSE S
    OBVIOUS
  <2>3. S \in SUBSET (1..n) /\ \A j \in Int : j <= n => (j \in R <=> j \in S)
    BY <2>1, <2>2 DEF Positions
  <2>4. \A i \in 1..n + 1 : Reached(words, R, i) <=> Reached(words, S, i)
    BY <2>3 DEF Reached
  <2>5. R \in SUBSET (1..n + 1)
    BY <2>2, <2>3
  <2>6. n + 1 \in R <=> words[n + 1].flag \notin {NoFlag, "end"} /\ Reached(words, R, n + 1)
    <3>1. n + 1 \notin S /\ n + 1 \in 1..n + 1
      BY <2>3
    <3> QED BY <2>2, <2>4, <3>1
  <2>7. ASSUME NEW i \in 1..n
        PROVE  i \in R <=> words[i].flag \notin {NoFlag, "end"} /\ Reached(words, R, i)
    <3>1. i \in 1..n + 1 /\ (i \in R <=> i \in S)
      BY <2>3
    <3> QED BY <2>1, <2>4, <3>1, Zenon DEF Positions
  <2>8. \A i \in 1..n + 1 : i = n + 1 \/ i \in 1..n
    OBVIOUS
  <2>9. Positions(words, n + 1, R)
    BY <2>5, <2>6, <2>7, <2>8, Zenon DEF Positions
  <2> QED BY <2>9
<1> HIDE DEF T
<1>3. Nat \subseteq T
  BY <1>1, <1>2, SetInduction
<1> QED BY <1>3 DEF T

LEMMA OptionPositionsAre ==
  ASSUME NEW words \in Seq(Word)
  PROVE  Positions(words, Len(words), OptionPositions(words))
<1> DEFINE Is(S) == \A i \in DOMAIN words :
                      i \in S <=> words[i].flag \notin {NoFlag, "end"} /\ Reached(words, S, i)
<1>1. DOMAIN words = 1..Len(words) /\ Len(words) \in Nat
  OBVIOUS
<1>2. \E S \in SUBSET DOMAIN words : Is(S)
  BY <1>1, PositionsExist DEF Positions
<1>3. OptionPositions(words) = CHOOSE S \in SUBSET DOMAIN words : Is(S)
  BY DEF OptionPositions, Reached
<1>4. OptionPositions(words) \in SUBSET DOMAIN words /\ Is(OptionPositions(words))
  BY <1>2, <1>3, Zenon
<1> QED BY <1>1, <1>4 DEF Positions

(* The value of an option is in no option position. *)
LEMMA ValueIsNoOption ==
  ASSUME NEW words, NEW n \in Nat, NEW S, Positions(words, n, S)
  PROVE  \A j \in S : words[j].flag \in Valued => j + 1 \notin S
<1> DEFINE T == {k \in Nat : k \in S /\ words[k].flag \in Valued => k + 1 \notin S}
<1>1. S \subseteq 1..n
  BY DEF Positions
<1>2. 0 \in T
  BY <1>1
<1>3. ASSUME NEW k \in Nat, k \in T PROVE k + 1 \in T
  <2> SUFFICES ASSUME k + 1 \in S, words[k + 1].flag \in Valued, k + 2 \in S PROVE FALSE
    OBVIOUS
  <2>1. Reached(words, S, k + 2)
    BY <1>1 DEF Positions
  <2>2. k + 2 # 1 /\ (k + 2) - 1 = k + 1 /\ (k + 2) - 2 = k
    OBVIOUS
  <2>3. k \in S /\ words[k].flag \in Valued
    BY <2>1, <2>2 DEF Reached
  <2> QED BY <1>3, <2>3
<1>4. Nat \subseteq T
  <2> HIDE DEF T
  <2> QED BY <1>2, <1>3, SetInduction
<1> QED BY <1>1, <1>4

(* The word that ends the options is followed by none. *)
LEMMA NoOptionAfterTheEnd ==
  ASSUME NEW words, NEW n \in Nat, NEW S, Positions(words, n, S),
         NEW i \in 1..n, Reached(words, S, i), i \notin S
  PROVE  \A j \in S : j < i
<1> DEFINE T == {k \in Nat : i + k \notin S /\ i + k + 1 \notin S}
<1>1. S \subseteq 1..n
  BY DEF Positions
<1>2. i + 1 \notin S
  <2> SUFFICES ASSUME i + 1 \in S PROVE FALSE
    OBVIOUS
  <2>1. Reached(words, S, i + 1)
    BY <1>1 DEF Positions
  <2>2. i + 1 # 1 /\ (i + 1) - 1 = i /\ (i + 1) - 2 = i - 1
    OBVIOUS
  <2>3. i - 1 \in S /\ words[i - 1].flag \in Valued
    BY <2>1, <2>2 DEF Reached
  <2>4. i - 2 \in S /\ words[i - 2].flag \in Valued
    BY <1>1, <2>3 DEF Reached
  <2>5. (i - 2) + 1 = i - 1
    OBVIOUS
  <2> QED BY <2>3, <2>4, <2>5, ValueIsNoOption
<1>3. 0 \in T
  BY <1>2
<1>4. ASSUME NEW k \in Nat, k \in T PROVE k + 1 \in T
  <2> SUFFICES ASSUME i + k + 2 \in S PROVE FALSE
    BY <1>4
  <2>1. Reached(words, S, i + k + 2)
    BY <1>1 DEF Positions
  <2>2. i + k + 2 # 1 /\ (i + k + 2) - 1 = i + k + 1 /\ (i + k + 2) - 2 = i + k
    OBVIOUS
  <2> QED BY <1>4, <2>1, <2>2 DEF Reached
<1>5. Nat \subseteq T
  <2> HIDE DEF T
  <2> QED BY <1>3, <1>4, SetInduction
<1>6. \A j \in 1..n : j >= i => j - i \in T /\ i + (j - i) = j
  BY <1>5
<1> QED BY <1>1, <1>6

-----------------------------------------------------------------------------
(* What the parser makes of a whole command line. *)

(* p lists the numbers of A in ascending order. *)
Enumerates(p, A) ==
  /\ A \subseteq Int
  /\ p \in Seq(A)
  /\ \A k, m \in DOMAIN p : k < m => p[k] < p[m]
  /\ \A i \in A : \E k \in DOMAIN p : p[k] = i

OptionsOf(words, p) == [k \in DOMAIN p |-> OptionAt(words, p[k])]

LEMMA OneMoreInFront ==
  ASSUME NEW words, NEW A, NEW p, Enumerates(p, A), NEW i \in Int, \A j \in A : i < j
  PROVE  /\ Enumerates(<<i>> \o p, A \cup {i})
         /\ OptionsOf(words, <<i>> \o p) = <<OptionAt(words, i)>> \o OptionsOf(words, p)
<1>1. p \in Seq(A) /\ Len(p) \in Nat /\ DOMAIN p = 1..Len(p) /\ \A k \in 1..Len(p) : p[k] \in A
  BY DEF Enumerates
<1>2. PICK q : q = <<i>> \o p
  OBVIOUS
<1>3. /\ q \in Seq(A \cup {i}) /\ Len(q) = Len(p) + 1 /\ DOMAIN q = 1..Len(p) + 1
      /\ q[1] = i /\ \A k \in 1..Len(p) : q[k + 1] = p[k]
  <2>1. <<i>> \in Seq(A \cup {i}) /\ p \in Seq(A \cup {i})
    BY <1>1
  <2> QED BY <1>1, <1>2, <2>1
<1>4. Enumerates(q, A \cup {i})
  <2>1. ASSUME NEW k \in DOMAIN q, NEW m \in DOMAIN q, k < m PROVE q[k] < q[m]
    <3>1. m - 1 \in 1..Len(p) /\ q[m] = p[m - 1]
      BY <1>3, <2>1
    <3>2. CASE k = 1
      BY <1>1, <1>3, <3>1, <3>2
    <3>3. CASE k # 1
      <4>1. k - 1 \in 1..Len(p) /\ q[k] = p[k - 1] /\ k - 1 < m - 1
        BY <1>3, <2>1, <3>3
      <4> QED BY <1>1, <3>1, <4>1 DEF Enumerates
    <3> QED BY <3>2, <3>3
  <2>2. ASSUME NEW j \in A \cup {i} PROVE \E k \in DOMAIN q : q[k] = j
    <3>1. CASE j = i
      BY <1>3, <3>1
    <3>2. CASE j \in A
      <4>1. PICK k \in 1..Len(p) : p[k] = j
        BY <1>1, <3>2 DEF Enumerates
      <4>2. k + 1 \in DOMAIN q /\ q[k + 1] = j
        BY <1>3, <4>1
      <4> QED BY <4>2
    <3> QED BY <3>1, <3>2
  <2>3. A \cup {i} \subseteq Int
    BY DEF Enumerates
  <2> QED BY <1>3, <2>1, <2>2, <2>3 DEF Enumerates
<1>5. OptionsOf(words, q) = <<OptionAt(words, i)>> \o OptionsOf(words, p)
  <2>1. PICK s : s = [k \in 1..Len(p) |-> OptionAt(words, p[k])]
    OBVIOUS
  <2>2. PICK x : x = OptionAt(words, i)
    OBVIOUS
  <2>3. s \in Seq({s[k] : k \in 1..Len(p)}) /\ Len(s) = Len(p)
    BY <1>1, <2>1
  <2>4. PICK t : t = <<x>> \o s
    OBVIOUS
  <2>5. t \in Seq({s[k] : k \in 1..Len(p)} \cup {x}) /\ Len(t) = Len(p) + 1
        /\ t[1] = x /\ \A k \in 1..Len(p) : t[k + 1] = s[k]
    <3>1. PICK B : B = {s[k] : k \in 1..Len(p)} \cup {x}
      OBVIOUS
    <3>2. s \in Seq(B) /\ <<x>> \in Seq(B) /\ Len(<<x>>) = 1 /\ <<x>>[1] = x
      BY <1>1, <2>3, <3>1
    <3>3. t \in Seq(B) /\ Len(t) = Len(p) + 1
      BY <1>1, <2>3, <2>4, <3>2
    <3>4. t[1] = x
      BY <2>4, <3>2
    <3>5. \A k \in 1..Len(p) : t[k + 1] = s[k]
      BY <1>1, <2>3, <2>4, <3>2
    <3> QED BY <3>1, <3>3, <3>4, <3>5
  <2>6. t = [k \in 1..Len(p) + 1 |-> t[k]]
    BY <1>1, <2>5
  <2>7. ASSUME NEW k \in 1..Len(p) + 1 PROVE t[k] = OptionAt(words, q[k])
    <3>1. CASE k = 1
      BY <1>3, <2>2, <2>5, <3>1
    <3>2. CASE k # 1
      <4>1. k - 1 \in 1..Len(p) /\ (k - 1) + 1 = k
        BY <1>1, <3>2
      <4>2. t[k] = s[k - 1] /\ q[k] = p[k - 1]
        BY <1>3, <2>5, <4>1
      <4> QED BY <2>1, <4>1, <4>2
    <3> QED BY <3>1, <3>2
  <2> QED BY <1>1, <1>3, <2>1, <2>2, <2>4, <2>6, <2>7 DEF OptionsOf
<1> QED BY <1>2, <1>4, <1>5

(* The option positions from the i-th word on. *)
Rest(S, i) == {j \in S : j >= i}

(* What the parser makes of the words from the i-th one on has the options   *)
(* of the words in option position, if these all have their values.          *)
ParsesRest(words, exists, S, i, parsed) ==
  IF \A j \in Rest(S, i) : HasValue(words, exists, j)
    THEN \E p : Enumerates(p, Rest(S, i)) /\ parsed = [legal |-> TRUE, options |-> OptionsOf(words, p)]
    ELSE parsed = Illegal

LEMMA RestParsed ==
  ASSUME NEW words, Len(words) \in Nat, NEW exists, NEW S, Positions(words, Len(words), S),
         NEW from, Parses(words, exists, 1..Len(words) + 1, from),
         NEW i \in 1..Len(words) + 1, Reached(words, S, i),
         \A j \in i + 1..Len(words) + 1 : Reached(words, S, j) => ParsesRest(words, exists, S, j, from[j])
  PROVE  ParsesRest(words, exists, S, i, from[i])
<1>1. S \subseteq 1..Len(words)
  BY DEF Positions
<1>2. from[i] = ParseAt(words, exists, from, i)
  BY Zenon DEF Parses
<1>3. i \in S <=> IsOption(words, i)
  BY DEF Positions, IsOption
<1>4. CASE i \notin S
  <2>1. Rest(S, i) = {}
    <3>1. i \in 1..Len(words) => \A j \in S : j < i
      BY <1>4, NoOptionAfterTheEnd
    <3>2. \A j \in S : ~(j >= i)
      BY <1>1, <3>1
    <3> QED BY <3>2, Zenon DEF Rest
  <2>2. from[i] = NoOptions
    BY <1>2, <1>3, <1>4, Zenon DEF ParseAt
  <2>3. Enumerates(<< >>, {}) /\ OptionsOf(words, << >>) = << >>
    BY DEF Enumerates, OptionsOf
  <2>4. from[i] = [legal |-> TRUE, options |-> OptionsOf(words, << >>)]
    BY <2>2, <2>3 DEF NoOptions
  <2> QED BY <2>1, <2>3, <2>4, Zenon DEF ParsesRest
<1>5. CASE i \in S /\ ~HasValue(words, exists, i)
  <2>1. from[i] = Illegal
    BY <1>2, <1>3, <1>5, Zenon DEF ParseAt
  <2>2. i \in Rest(S, i)
    BY <1>5 DEF Rest
  <2> QED BY <1>5, <2>1, <2>2, Zenon DEF ParsesRest
<1>6. CASE i \in S /\ HasValue(words, exists, i)
  <2>1. PICK n : n = After(words, i)
    OBVIOUS
  <2>2. n \in i + 1..Len(words) + 1 /\ Reached(words, S, n)
    <3>1. CASE words[i].flag \in Valued
      <4>1. n = i + 2 /\ i < Len(words) /\ n - 2 = i
        BY <1>6, <2>1, <3>1 DEF After, HasValue
      <4> QED BY <1>6, <3>1, <4>1 DEF Reached
    <3>2. CASE words[i].flag \notin Valued
      <4>1. n = i + 1 /\ n - 1 = i /\ i <= Len(words)
        BY <1>1, <1>6, <2>1, <3>2 DEF After
      <4> QED BY <1>6, <3>2, <4>1 DEF Reached
    <3> QED BY <3>1, <3>2
  <2>3. Rest(S, i) = Rest(S, n) \cup {i}
    <3>1. words[i].flag \in Valued => i + 1 \notin S
      BY <1>6, ValueIsNoOption
    <3>2. \A j \in S : j >= i <=> j >= n \/ j = i
      BY <1>1, <2>1, <2>2, <3>1 DEF After
    <3> QED BY <1>6, <3>2 DEF Rest
  <2>4. ParsesRest(words, exists, S, n, from[n])
    BY <2>2
  <2>5. from[i] = Before(OptionAt(words, i), from[n])
    BY <1>2, <1>3, <1>6, <2>1, Zenon DEF ParseAt
  <2>6. (\A j \in Rest(S, i) : HasValue(words, exists, j)) <=> (\A j \in Rest(S, n) : HasValue(words, exists, j))
    BY <1>6, <2>3
  <2>7. CASE \A j \in Rest(S, n) : HasValue(words, exists, j)
    <3>1. PICK p : Enumerates(p, Rest(S, n)) /\ from[n] = [legal |-> TRUE, options |-> OptionsOf(words, p)]
      BY <2>4, <2>7, Zenon DEF ParsesRest
    <3>2. \A j \in Rest(S, n) : i < j
      BY <1>1, <2>2 DEF Rest
    <3>3. /\ Enumerates(<<i>> \o p, Rest(S, i))
          /\ OptionsOf(words, <<i>> \o p) = <<OptionAt(words, i)>> \o OptionsOf(words, p)
      <4>0. i \in Int
        OBVIOUS
      <4>1. Enumerates(<<i>> \o p, Rest(S, n) \cup {i})
        BY <3>1, <3>2, <4>0, OneMoreInFront, Zenon
      <4>2. OptionsOf(words, <<i>> \o p) = <<OptionAt(words, i)>> \o OptionsOf(words, p)
        BY <3>1, <3>2, <4>0, OneMoreInFront, Zenon
      <4> QED BY <2>3, <4>1, <4>2
    <3>4. from[i] = [legal |-> TRUE, options |-> <<OptionAt(words, i)>> \o OptionsOf(words, p)]
      <4>1. \A o, s : Before(o, [legal |-> TRUE, options |-> s]) = [legal |-> TRUE, options |-> <<o>> \o s]
        BY DEF Before
      <4> QED BY <2>5, <3>1, <4>1, Zenon
    <3> QED BY <2>6, <2>7, <3>3, <3>4, Zenon DEF ParsesRest
  <2>8. CASE ~\A j \in Rest(S, n) : HasValue(words, exists, j)
    <3>1. from[n] = Illegal
      BY <2>4, <2>8, Zenon DEF ParsesRest
    <3>2. from[i] = Illegal
      BY <2>5, <3>1 DEF Before, Illegal
    <3> QED BY <2>6, <2>8, <3>2, Zenon DEF ParsesRest
  <2> QED BY <2>7, <2>8
<1> QED BY <1>4, <1>5, <1>6


(* The parser finds the options in option position, if all have their        *)
(* values.                                                                   *)
LEMMA ParsedAre ==
  ASSUME NEW words \in Seq(Word), NEW exists
  PROVE  ParsesRest(words, exists, OptionPositions(words), 1, Parsed(words, exists))
<1> DEFINE n == Len(words) + 1
<1>1. PICK S : S = OptionPositions(words)
  OBVIOUS
<1>2. Positions(words, Len(words), S) /\ Len(words) \in Nat
  BY <1>1, OptionPositionsAre
<1>3. PICK from : Parses(words, exists, 1..n, from) /\ Parsed(words, exists) = from[1]
  BY <1>2, ParsedIs
<1> DEFINE Right(i) == Reached(words, S, i) => ParsesRest(words, exists, S, i, from[i])
           T == {k \in Nat : k < n => \A i \in n - k..n : Right(i)}
<1>4. ASSUME NEW i \in 1..n, \A j \in i + 1..n : Right(j) PROVE Right(i)
  BY <1>2, <1>3, <1>4, RestParsed
<1> HIDE DEF Right
<1>5. 0 \in T
  <2>1. n \in 1..n /\ n + 1..n = {} /\ n - 0..n = {n}
    BY <1>2
  <2> QED BY <1>4, <2>1
<1>6. ASSUME NEW k \in Nat, k \in T PROVE k + 1 \in T
  <2> SUFFICES ASSUME k + 1 < n PROVE \A i \in n - (k + 1)..n : Right(i)
    OBVIOUS
  <2>1. PICK i : i = n - (k + 1)
    BY <1>2
  <2>2. i \in 1..n /\ n - k = i + 1 /\ n - (k + 1)..n = {i} \cup i + 1..n
    BY <1>2, <2>1
  <2>3. \A j \in i + 1..n : Right(j)
    BY <1>2, <1>6, <2>2
  <2> QED BY <1>4, <2>2, <2>3
<1>7. Nat \subseteq T
  <2> HIDE DEF T
  <2> QED BY <1>5, <1>6, SetInduction
<1>8. Right(1)
  <2>1. Len(words) \in T /\ Len(words) < n /\ n - Len(words) = 1 /\ 1 \in 1..n
    BY <1>2, <1>7
  <2> QED BY <2>1
<1>9. Reached(words, S, 1)
  BY DEF Reached
<1> QED BY <1>1, <1>3, <1>8, <1>9 DEF Right


-----------------------------------------------------------------------------
(* What the loop makes of the options. *)

TooLong(option) == option.flag = "reload-time" /\ option.value \notin -LongMax - 1..LongMax

Wrong(option) ==
  \/ option.flag = "unknown"
  \/ option.flag = "domain" /\ option.value \notin 0..MaxDomainId

Refused(option) == TooLong(option) \/ Wrong(option)

(* A domain and a reload time are numbers. *)
Numbered(option) == option.flag \in {"reload-time", "domain"} => option.value \in Int

Taken == [code : {"success", "incorrect_argument", "terminated"},
          args : [reload : Int, domain : 0..MaxDomainId \cup {Unset}]]

(* value is that of the latest of the first k options with this flag. *)
Latest(s, k, flag, none, value) ==
  \/ value = none /\ \A j \in 1..k : s[j].flag # flag
  \/ \E j \in 1..k : /\ s[j].flag = flag /\ s[j].value = value
                     /\ \A m \in j + 1..k : s[m].flag # flag

FirstRefused(s, k, j) == j \in 1..k /\ Refused(s[j]) /\ \A m \in 1..j - 1 : ~Refused(s[m])

Verdict(option) == IF Wrong(option) THEN "incorrect_argument" ELSE "terminated"

Milliseconds(number) == 1000 * number

(* The first k options are accepted. *)
Accepted(s, k, taken) ==
  /\ taken.code = "success"
  /\ Latest(s, k, "domain", Unset, taken.args.domain)
  /\ \E number \in Int : /\ Latest(s, k, "reload-time", 0, number)
                         /\ taken.args.reload = Milliseconds(number)

(* taken is what the first k options come to. *)
ComesTo(s, k, taken) ==
  /\ taken \in Taken
  /\ (\E j \in 1..k : Refused(s[j])) =>
       \E j \in 1..k : FirstRefused(s, k, j) /\ taken.code = Verdict(s[j])
  /\ (\A j \in 1..k : ~Refused(s[j])) => Accepted(s, k, taken)

LEMMA OneTurn ==
  ASSUME NEW taken \in Taken, NEW option, Numbered(option)
  PROVE  /\ taken.code # "success" => TakeOption(taken, option) = taken
         /\ taken.code = "success" =>
              /\ TooLong(option) => TakeOption(taken, option) = [code |-> "terminated", args |-> taken.args]
              /\ Wrong(option) =>
                   TakeOption(taken, option) = [code |-> "incorrect_argument", args |-> taken.args]
              /\ ~Refused(option) =>
                   /\ TakeOption(taken, option) \in Taken
                   /\ TakeOption(taken, option).code = "success"
                   /\ TakeOption(taken, option).args.domain =
                        IF option.flag = "domain" THEN option.value ELSE taken.args.domain
                   /\ TakeOption(taken, option).args.reload =
                        IF option.flag = "reload-time" THEN 1000 * option.value ELSE taken.args.reload
<1>1. taken = [code |-> taken.code, args |-> [reload |-> taken.args.reload, domain |-> taken.args.domain]]
  BY DEF Taken
<1>2. taken.args.reload \in Int /\ taken.args.domain \in 0..MaxDomainId \cup {Unset}
  BY DEF Taken
<1>3. CASE taken.code # "success"
  BY <1>3 DEF TakeOption
<1>4. CASE taken.code = "success" /\ option.flag = "reload-time"
  <2>1. TakeOption(taken, option) = SetReload(taken, option.value) /\ option.value \in Int
    BY <1>4 DEF TakeOption, Numbered
  <2>2. ~Wrong(option) /\ (TooLong(option) <=> option.value \notin -LongMax - 1..LongMax)
    BY <1>4 DEF Wrong, TooLong
  <2>3. CASE TooLong(option)
    <3>1. SetReload(taken, option.value) = [code |-> "terminated", args |-> taken.args]
      BY <1>1, <2>2, <2>3 DEF SetReload
    <3> QED BY <1>4, <2>1, <2>2, <2>3, <3>1 DEF Refused
  <2>4. CASE ~TooLong(option)
    <3>1. SetReload(taken, option.value) =
            [code |-> "success", args |-> [reload |-> option.value * 1000, domain |-> taken.args.domain]]
      BY <1>1, <1>4, <2>2, <2>4 DEF SetReload
    <3>2. option.value * 1000 \in Int /\ option.value * 1000 = 1000 * option.value
      BY <2>1
    <3> QED BY <1>2, <1>4, <2>1, <2>2, <2>4, <3>1, <3>2 DEF Refused, Taken
  <2> QED BY <2>3, <2>4
<1>5. CASE taken.code = "success" /\ option.flag = "domain"
  <2>1. TakeOption(taken, option) = SetDomain(taken, option.value)
    BY <1>5 DEF TakeOption
  <2>2. ~TooLong(option) /\ (Wrong(option) <=> option.value \notin 0..MaxDomainId)
    BY <1>5 DEF Wrong, TooLong
  <2>3. CASE Wrong(option)
    <3>1. SetDomain(taken, option.value) = [code |-> "incorrect_argument", args |-> taken.args]
      BY <1>1, <2>2, <2>3 DEF SetDomain
    <3> QED BY <1>5, <2>1, <2>2, <2>3, <3>1 DEF Refused
  <2>4. CASE ~Wrong(option)
    <3>1. SetDomain(taken, option.value) =
            [code |-> "success", args |-> [reload |-> taken.args.reload, domain |-> option.value]]
      BY <1>1, <1>5, <2>2, <2>4 DEF SetDomain
    <3> QED BY <1>2, <1>5, <2>1, <2>2, <2>4, <3>1 DEF Refused, Taken
  <2> QED BY <2>3, <2>4
<1>6. CASE taken.code = "success" /\ option.flag = "unknown"
  <2>1. TakeOption(taken, option) = [code |-> "incorrect_argument", args |-> taken.args]
    BY <1>1, <1>6 DEF TakeOption
  <2> QED BY <1>6, <2>1 DEF Wrong, TooLong, Refused
<1>7. CASE taken.code = "success" /\ option.flag \notin {"reload-time", "domain", "unknown"}
  <2>1. TakeOption(taken, option) = taken
    BY <1>7 DEF TakeOption
  <2> QED BY <1>7, <2>1 DEF Wrong, TooLong, Refused
<1> QED BY <1>3, <1>4, <1>5, <1>6, <1>7

LEMMA LatestStep ==
  ASSUME NEW s, NEW k \in Nat, NEW flag, NEW none, NEW value, Latest(s, k, flag, none, value)
  PROVE  Latest(s, k + 1, flag, none, IF s[k + 1].flag = flag THEN s[k + 1].value ELSE value)
<1>1. \A j \in 1..k + 1 : j = k + 1 \/ j \in 1..k
  OBVIOUS
<1>2. CASE s[k + 1].flag = flag
  <2>1. k + 1 \in 1..k + 1 /\ (k + 1) + 1..k + 1 = {}
    OBVIOUS
  <2> QED BY <1>2, <2>1, Zenon DEF Latest
<1>3. CASE s[k + 1].flag # flag /\ \A j \in 1..k : s[j].flag # flag
  <2>1. value = none
    BY <1>3 DEF Latest
  <2> QED BY <1>1, <1>3, <2>1, Zenon DEF Latest
<1>4. CASE s[k + 1].flag # flag /\ ~\A j \in 1..k : s[j].flag # flag
  <2>1. PICK j \in 1..k : s[j].flag = flag /\ s[j].value = value /\ \A m \in j + 1..k : s[m].flag # flag
    BY <1>4 DEF Latest
  <2>2. j \in 1..k + 1 /\ \A m \in j + 1..k + 1 : m = k + 1 \/ m \in j + 1..k
    OBVIOUS
  <2>3. \A m \in j + 1..k + 1 : s[m].flag # flag
    BY <1>4, <2>1, <2>2, Zenon
  <2> QED BY <1>4, <2>1, <2>2, <2>3, Zenon DEF Latest
<1> QED BY <1>2, <1>3, <1>4

LEMMA OneTurnComesTo ==
  ASSUME NEW s, NEW k \in Nat, NEW taken, ComesTo(s, k, taken), Numbered(s[k + 1])
  PROVE  ComesTo(s, k + 1, TakeOption(taken, s[k + 1]))
<1>1. taken \in Taken
  BY DEF ComesTo
<1>2. \A j \in 1..k + 1 : j = k + 1 \/ j \in 1..k
  OBVIOUS
<1>3. 1..k \subseteq 1..k + 1 /\ k + 1 \in 1..k + 1 /\ 1..(k + 1) - 1 = 1..k
  OBVIOUS
<1>4. CASE \E j \in 1..k : Refused(s[j])
  <2>1. PICK j \in 1..k : FirstRefused(s, k, j) /\ taken.code = Verdict(s[j])
    BY <1>4, Zenon DEF ComesTo
  <2>2. taken.code # "success"
    BY <2>1 DEF Verdict
  <2>3. TakeOption(taken, s[k + 1]) = taken
    BY <1>1, <2>2, OneTurn
  <2>4. FirstRefused(s, k + 1, j) /\ j \in 1..k + 1 /\ Refused(s[j])
    BY <1>3, <2>1, Zenon DEF FirstRefused
  <2> QED BY <1>1, <2>1, <2>3, <2>4, Zenon DEF ComesTo
<1>5. CASE (\A j \in 1..k : ~Refused(s[j])) /\ Refused(s[k + 1])
  <2>1. taken.code = "success"
    BY <1>5, Zenon DEF ComesTo, Accepted
  <2>2. FirstRefused(s, k + 1, k + 1)
    BY <1>3, <1>5, Zenon DEF FirstRefused
  <2>3. TakeOption(taken, s[k + 1])
          = [code |-> Verdict(s[k + 1]), args |-> taken.args]
    BY <1>1, <1>5, <2>1, OneTurn DEF Refused, Verdict
  <2>4. TakeOption(taken, s[k + 1]) \in Taken
        /\ TakeOption(taken, s[k + 1]).code = Verdict(s[k + 1])
    BY <1>1, <2>3 DEF Taken, Verdict
  <2> QED BY <1>3, <1>5, <2>2, <2>4, Zenon DEF ComesTo
<1>6. CASE (\A j \in 1..k : ~Refused(s[j])) /\ ~Refused(s[k + 1])
  <2>1. PICK number \in Int : /\ taken.code = "success"
                              /\ Latest(s, k, "domain", Unset, taken.args.domain)
                              /\ Latest(s, k, "reload-time", 0, number)
                              /\ taken.args.reload = Milliseconds(number)
    BY <1>6, Zenon DEF ComesTo, Accepted
  <2>2. PICK next : next = TakeOption(taken, s[k + 1])
    OBVIOUS
  <2>3. /\ next \in Taken /\ next.code = "success"
        /\ next.args.domain = IF s[k + 1].flag = "domain" THEN s[k + 1].value ELSE taken.args.domain
        /\ next.args.reload = IF s[k + 1].flag = "reload-time" THEN 1000 * s[k + 1].value ELSE taken.args.reload
    BY <1>1, <1>6, <2>1, <2>2, OneTurn
  <2>4. Latest(s, k + 1, "domain", Unset, next.args.domain)
    BY <2>1, <2>3, LatestStep
  <2>5. PICK n : n = IF s[k + 1].flag = "reload-time" THEN s[k + 1].value ELSE number
    OBVIOUS
  <2>6. n \in Int /\ next.args.reload = Milliseconds(n)
    BY <2>1, <2>3, <2>5 DEF Numbered, Milliseconds
  <2>7. Latest(s, k + 1, "reload-time", 0, n)
    BY <2>1, <2>5, LatestStep
  <2>8. \A j \in 1..k + 1 : ~Refused(s[j])
    BY <1>2, <1>6, Zenon
  <2>9. Accepted(s, k + 1, next)
    BY <2>3, <2>4, <2>6, <2>7, Zenon DEF Accepted
  <2> QED BY <2>2, <2>3, <2>8, <2>9, Zenon DEF ComesTo
<1> QED BY <1>4, <1>5, <1>6

(* The loop comes to what all the options come to. *)
LEMMA LoopComesTo ==
  ASSUME NEW s, NEW S, s \in Seq(S), \A k \in 1..Len(s) : Numbered(s[k])
  PROVE  ComesTo(s, Len(s), FoldLeft(TakeOption, Outcome("success"), s))
<1>1. Len(s) \in Nat
  OBVIOUS
<1>2. PICK after : /\ Turns(Outcome("success"), s, after)
                   /\ FoldLeft(TakeOption, Outcome("success"), s) = after[Len(s)]
  BY FoldTurns
<1> DEFINE T == {k \in Nat : k <= Len(s) => ComesTo(s, k, after[k])}
<1>3. 0 \in T
  <2>1. after[0] = [code |-> "success", args |-> [reload |-> 0, domain |-> Unset]]
    BY <1>2 DEF Turns, Outcome, Defaults
  <2>2. after[0] \in Taken /\ after[0].code = "success" /\ after[0].args.domain = Unset
        /\ after[0].args.reload = Milliseconds(0) /\ 0 \in Int
    BY <2>1 DEF Taken, Milliseconds
  <2>3. 1..0 = {}
    OBVIOUS
  <2>4. Accepted(s, 0, after[0])
    BY <2>2, <2>3, Zenon DEF Accepted, Latest
  <2>5. ComesTo(s, 0, after[0])
    BY <2>2, <2>3, <2>4, Zenon DEF ComesTo
  <2> QED BY <2>5
<1>4. ASSUME NEW k \in Nat, k \in T PROVE k + 1 \in T
  <2> SUFFICES ASSUME k + 1 <= Len(s) PROVE ComesTo(s, k + 1, after[k + 1])
    OBVIOUS
  <2>1. k + 1 \in 1..Len(s) /\ (k + 1) - 1 = k /\ k <= Len(s)
    BY <1>1
  <2>2. after[k + 1] = TakeOption(after[k], s[k + 1])
    BY <1>2, <2>1 DEF Turns
  <2>3. ComesTo(s, k, after[k]) /\ Numbered(s[k + 1])
    BY <1>4, <2>1
  <2> QED BY <2>2, <2>3, OneTurnComesTo, Zenon
<1>5. Nat \subseteq T
  <2> HIDE DEF T
  <2> QED BY <1>3, <1>4, SetInduction
<1>6. ComesTo(s, Len(s), after[Len(s)])
  BY <1>1, <1>5
<1> QED BY <1>2, <1>6


-----------------------------------------------------------------------------
(* What the options mean, word by word. *)

(* s lists the options of the words that p lists. *)
OptionsListed(words, S, p, s) ==
  /\ Len(p) \in Nat /\ DOMAIN p = 1..Len(p)
  /\ \A k \in 1..Len(p) : p[k] \in S
  /\ \A i \in S : \E k \in 1..Len(p) : p[k] = i
  /\ s \in Seq({OptionAt(words, i) : i \in S}) /\ Len(s) = Len(p)
  /\ \A k \in 1..Len(p) : s[k] = OptionAt(words, p[k])

LEMMA OptionsOfAre ==
  ASSUME NEW words, NEW S, NEW p, Enumerates(p, S)
  PROVE  OptionsListed(words, S, p, OptionsOf(words, p))
<1>1. p \in Seq(S) /\ Len(p) \in Nat /\ DOMAIN p = 1..Len(p) /\ \A k \in 1..Len(p) : p[k] \in S
  BY DEF Enumerates
<1>2. PICK s : s = [k \in 1..Len(p) |-> OptionAt(words, p[k])]
  OBVIOUS
<1>3. OptionsOf(words, p) = s
  BY <1>1, <1>2 DEF OptionsOf
<1>4. \A k \in 1..Len(p) : s[k] = OptionAt(words, p[k]) /\ s[k] \in {OptionAt(words, i) : i \in S}
  BY <1>1, <1>2
<1>5. s \in Seq({OptionAt(words, i) : i \in S}) /\ Len(s) = Len(p)
  BY <1>1, <1>2, <1>4
<1>6. \A i \in S : \E k \in 1..Len(p) : p[k] = i
  BY <1>1 DEF Enumerates
<1> QED BY <1>1, <1>3, <1>4, <1>5, <1>6 DEF OptionsListed

(* The value of the last option of A. *)
LatestOf(words, A, none) ==
  IF A = {} THEN none ELSE words[1 + CHOOSE i \in A : \A j \in A : j <= i].number

LEMMA LatestIs ==
  ASSUME NEW words, NEW S, NEW p, Enumerates(p, S), NEW flag \in Valued, NEW none, NEW value,
         Latest(OptionsOf(words, p), Len(p), flag, none, value),
         NEW A, A = {i \in S : words[i].flag = flag}
  PROVE  value = LatestOf(words, A, none)
<1>1. PICK s : s = OptionsOf(words, p)
  OBVIOUS
<1>0. OptionsListed(words, S, p, s)
  BY <1>1, OptionsOfAre
<1>2. \A k \in 1..Len(p) : p[k] \in S /\ s[k].flag = words[p[k]].flag
                           /\ (p[k] \in A => s[k].value = words[p[k] + 1].number)
  <2>1. /\ \A k \in 1..Len(p) : p[k] \in S /\ s[k] = OptionAt(words, p[k])
    BY <1>0 DEF OptionsListed
  <2>2. \A i : /\ OptionAt(words, i).flag = words[i].flag
               /\ words[i].flag \in Valued => OptionAt(words, i).value = words[i + 1].number
    BY DEF OptionAt
  <2> QED BY <2>1, <2>2, Zenon
<1>3. \A i \in A : \E k \in 1..Len(p) : p[k] = i
  BY <1>0 DEF OptionsListed
<1>4. CASE value = none /\ \A j \in 1..Len(p) : s[j].flag # flag
  <2>1. A = {}
    BY <1>2, <1>3, <1>4
  <2> QED BY <1>4, <2>1 DEF LatestOf
<1>5. CASE ~(value = none /\ \A j \in 1..Len(p) : s[j].flag # flag)
  <2>1. PICK k \in 1..Len(p) : /\ s[k].flag = flag /\ s[k].value = value
                               /\ \A m \in k + 1..Len(p) : s[m].flag # flag
    BY <1>1, <1>5, Zenon DEF Latest
  <2>2. p[k] \in A /\ value = words[p[k] + 1].number
    BY <1>2, <2>1
  <2>3. A \subseteq Int
    BY DEF Enumerates
  <2>4. ASSUME NEW i \in A PROVE i <= p[k]
    <3>1. PICK m \in 1..Len(p) : p[m] = i
      BY <1>3
    <3>2. s[m].flag = flag
      BY <1>2, <3>1
    <3>3. Len(p) \in Nat /\ DOMAIN p = 1..Len(p)
      BY <1>0 DEF OptionsListed
    <3>4. m <= k
      BY <2>1, <3>2, <3>3
    <3>5. m = k \/ m < k
      BY <3>3, <3>4
    <3> QED BY <2>2, <2>3, <3>1, <3>3, <3>5 DEF Enumerates
  <2>5. PICK last : last = CHOOSE i \in A : \A j \in A : j <= i
    OBVIOUS
  <2>6. last \in A /\ \A j \in A : j <= last
    BY <2>2, <2>4, <2>5, Zenon
  <2>7. last = p[k] /\ p[k] \in Int
    BY <2>2, <2>3, <2>4, <2>6
  <2>8. 1 + last = p[k] + 1
    BY <2>7
  <2> QED BY <2>2, <2>5, <2>8, Zenon DEF LatestOf
<1> QED BY <1>4, <1>5

LEMMA FirstRefusedIs ==
  ASSUME NEW words, NEW S, NEW p, Enumerates(p, S),
         NEW k, FirstRefused(OptionsOf(words, p), Len(p), k),
         NEW A, A = {i \in S : Refused(OptionAt(words, i))}
  PROVE  p[k] = CHOOSE i \in A : \A j \in A : i <= j
<1>1. PICK s : s = OptionsOf(words, p)
  OBVIOUS
<1>0. OptionsListed(words, S, p, s)
  BY <1>1, OptionsOfAre
<1>2. k \in 1..Len(p) /\ Refused(s[k]) /\ \A m \in 1..k - 1 : ~Refused(s[m])
  BY <1>1 DEF FirstRefused
<1>3. Len(p) \in Nat /\ DOMAIN p = 1..Len(p) /\ \A m \in 1..Len(p) : p[m] \in S /\ s[m] = OptionAt(words, p[m])
  BY <1>0 DEF OptionsListed
<1>4. p[k] \in A /\ A \subseteq Int
  BY <1>2, <1>3 DEF Enumerates
<1>5. ASSUME NEW i \in A PROVE p[k] <= i
  <2>1. PICK m \in 1..Len(p) : p[m] = i
    BY <1>0 DEF OptionsListed
  <2>2. Refused(s[m])
    BY <1>3, <2>1
  <2>3. m = k \/ k < m
    BY <1>2, <1>3, <2>2
  <2> QED BY <1>2, <1>3, <1>4, <2>1, <2>3 DEF Enumerates
<1>6. PICK first : first = CHOOSE i \in A : \A j \in A : i <= j
  OBVIOUS
<1>7. first \in A /\ \A j \in A : first <= j
  BY <1>4, <1>5, <1>6, Zenon
<1> QED BY <1>4, <1>5, <1>6, <1>7


(* The arguments are what the command line means, for every command line.    *)
LEMMA ParsedAsMeant ==
  ASSUME NEW words \in Seq(Word), NEW exists,
         NEW parsed, parsed = ParseArguments(words, exists), NEW meant, meant = Meant(words, exists)
  PROVE  /\ parsed.code = meant.code
         /\ meant.code = "success" => parsed.args.domain = meant.domain /\ parsed.args.reload = meant.reload
         /\ parsed.code \in Codes \cup {"help", "version"}
         /\ parsed.args \in [reload : Int, domain : 0..MaxDomainId \cup {Unset}]
<1> DEFINE S == OptionPositions(words)
           at(flag) == {i \in S : words[i].flag = flag}
           number(i) == words[i + 1].number
           last(flag) == words[1 + CHOOSE i \in at(flag) : \A j \in at(flag) : j <= i].number
           tooLong == {i \in at("reload-time") : number(i) \notin -LongMax - 1..LongMax}
           wrong == at("unknown") \cup {i \in at("domain") : number(i) \notin 0..MaxDomainId}
           refused == tooLong \cup wrong
           first == CHOOSE i \in refused : \A j \in refused : i <= j
           lacking == \E i \in S : words[i].flag \in Valued
                        /\ (i = Len(words) \/ ~Accepts(words[i].flag, words[i + 1], exists))
           options == [code   |-> "success",
                       domain |-> IF at("domain") = {} THEN Unset ELSE last("domain"),
                       reload |-> IF at("reload-time") = {} THEN 0 ELSE 1000 * last("reload-time")]
<1>1. Positions(words, Len(words), S) /\ Len(words) \in Nat
  BY OptionPositionsAre
<1>2. /\ lacking => meant = [code |-> "incorrect_argument"]
      /\ ~lacking =>
           meant = IF at("help") \cup at("version") # {}
                     THEN [code |-> IF at("help") # {} THEN "help" ELSE "version"]
                   ELSE IF refused # {}
                     THEN [code |-> IF first \in wrong THEN "incorrect_argument" ELSE "terminated"]
                   ELSE options
  BY DEF Meant
<1>3. ParsesRest(words, exists, S, 1, Parsed(words, exists))
  BY ParsedAre
<1>4. S \in SUBSET (1..Len(words))
  BY <1>1 DEF Positions
<1> HIDE DEF S, at, number, last, tooLong, wrong, refused, first, options
<1>5. Rest(S, 1) = S
  <2>1. \A j \in S : j >= 1
    BY <1>4
  <2> QED BY <2>1, Zenon DEF Rest
<1>6. lacking <=> ~\A i \in S : HasValue(words, exists, i)
  <2>1. \A i \in S : i < Len(words) <=> i # Len(words)
    BY <1>1, <1>4
  <2> QED BY <2>1, Zenon DEF HasValue
<1> HIDE DEF lacking
<1>7. CASE lacking
  <2>1. Parsed(words, exists) = Illegal
    BY <1>3, <1>5, <1>6, <1>7, Zenon DEF ParsesRest
  <2>2. parsed = [code |-> "incorrect_argument", args |-> [reload |-> 0, domain |-> Unset]]
    BY <2>1 DEF ParseArguments, Illegal, Outcome, Defaults
  <2>3. meant = [code |-> "incorrect_argument"]
    BY <1>2, <1>7, Zenon
  <2> QED BY <2>2, <2>3 DEF Codes
<1>8. CASE ~lacking
  <2>1. PICK p : /\ Enumerates(p, S)
                 /\ Parsed(words, exists) = [legal |-> TRUE, options |-> OptionsOf(words, p)]
    BY <1>3, <1>5, <1>6, <1>8, Zenon DEF ParsesRest
  <2>2. PICK s : s = OptionsOf(words, p)
    OBVIOUS
  <2>3. OptionsListed(words, S, p, s)
    BY <2>1, <2>2, OptionsOfAre
  <2>4. Len(s) = Len(p) /\ Len(p) \in Nat /\ DOMAIN s = 1..Len(p)
    BY <2>3 DEF OptionsListed
  <2>5. \A k \in 1..Len(p) : p[k] \in S /\ s[k] = OptionAt(words, p[k])
    BY <2>3 DEF OptionsListed
  <2>6. \A i \in S : \E k \in 1..Len(p) : p[k] = i
    BY <2>3 DEF OptionsListed
  <2>7. \A i : OptionAt(words, i).flag = words[i].flag
               /\ (words[i].flag \in Valued => OptionAt(words, i).value = number(i))
    BY DEF OptionAt, number
  <2>8. \A flag : Given(s, flag) <=> at(flag) # {}
    <3> SUFFICES ASSUME NEW flag PROVE (\E k \in 1..Len(p) : s[k].flag = flag) <=> at(flag) # {}
      BY <2>4, Zenon DEF Given
    <3>1. \A k \in 1..Len(p) : p[k] \in S /\ s[k].flag = words[p[k]].flag
      BY <2>5, <2>7
    <3>2. ASSUME NEW k \in 1..Len(p), s[k].flag = flag PROVE at(flag) # {}
      <4>1. p[k] \in at(flag)
        BY <3>1, <3>2 DEF at
      <4> QED BY <4>1
    <3>3. ASSUME NEW i \in at(flag) PROVE \E k \in 1..Len(p) : s[k].flag = flag
      <4>1. i \in S /\ words[i].flag = flag
        BY DEF at
      <4>2. PICK k \in 1..Len(p) : p[k] = i
        BY <2>6, <4>1
      <4> QED BY <3>1, <4>1, <4>2
    <3> QED BY <3>2, <3>3
  <2>9. parsed = IF at("help") # {} THEN Outcome("help")
                 ELSE IF at("version") # {} THEN Outcome("version")
                 ELSE FoldLeft(TakeOption, Outcome("success"), s)
    BY <2>1, <2>2, <2>8 DEF ParseArguments
  <2>10. CASE at("help") \cup at("version") # {}
    <3>1. meant = [code |-> IF at("help") # {} THEN "help" ELSE "version"]
      BY <1>2, <1>8, <2>10, Zenon
    <3>2. parsed = Outcome(IF at("help") # {} THEN "help" ELSE "version")
      BY <2>9, <2>10
    <3> QED BY <3>1, <3>2 DEF Outcome, Defaults
  <2>11. CASE at("help") \cup at("version") = {}
    <3>1. parsed = FoldLeft(TakeOption, Outcome("success"), s)
      BY <2>9, <2>11
    <3>2. \A i \in S : Numbered(OptionAt(words, i))
      <4> SUFFICES ASSUME NEW i \in S, words[i].flag \in {"reload-time", "domain"}
                   PROVE  number(i) \in Int /\ words[i].flag \in Valued
        BY <2>7, Zenon DEF Numbered
      <4>1. HasValue(words, exists, i) /\ i \in 1..Len(words) /\ words[i].flag \in Valued
        BY <1>4, <1>6, <1>8 DEF Valued
      <4>2. i + 1 \in 1..Len(words) /\ Accepts(words[i].flag, words[i + 1], exists)
        BY <1>1, <4>1 DEF HasValue
      <4>3. words[i + 1].number # NoNumber
        BY <4>2 DEF Accepts
      <4>4. words[i + 1] \in Word
        BY <1>1, <4>2
      <4> QED BY <4>1, <4>3, <4>4 DEF Word, number
    <3>3. ComesTo(s, Len(p), parsed)
      <4>1. \A k \in 1..Len(s) : Numbered(s[k])
        BY <2>4, <2>5, <3>2
      <4>2. s \in Seq({OptionAt(words, i) : i \in S})
        BY <2>3 DEF OptionsListed
      <4> QED BY <2>4, <3>1, <4>1, <4>2, LoopComesTo
    <3>4. parsed \in Taken
      BY <3>3 DEF ComesTo
    <3>5. \A i \in S : /\ i \in wrong <=> Wrong(OptionAt(words, i))
                       /\ i \in tooLong <=> TooLong(OptionAt(words, i))
      <4>1. "domain" \in Valued /\ "reload-time" \in Valued
        BY DEF Valued
      <4> QED BY <2>7, <4>1, Zenon DEF Wrong, TooLong, wrong, tooLong, at
    <3>6. refused = {i \in S : Refused(OptionAt(words, i))}
      BY <3>5, Zenon DEF Refused, refused, wrong, tooLong, at
    <3>7. CASE refused # {}
      <4>1. \E k \in 1..Len(p) : Refused(s[k])
        BY <2>5, <2>6, <3>6, <3>7, Zenon
      <4>2. PICK k \in 1..Len(p) : FirstRefused(s, Len(p), k) /\ parsed.code = Verdict(s[k])
        BY <3>3, <4>1, Zenon DEF ComesTo
      <4>3. p[k] = first
        <5>1. FirstRefused(OptionsOf(words, p), Len(p), k)
          BY <2>2, <4>2
        <5>2. p[k] = CHOOSE i \in refused : \A j \in refused : i <= j
          BY <2>1, <3>6, <5>1, FirstRefusedIs
        <5> QED BY <5>2 DEF first
      <4>4. first \in wrong <=> Wrong(s[k])
        BY <2>5, <3>5, <4>3, Zenon
      <4>5. meant = [code |-> IF first \in wrong THEN "incorrect_argument" ELSE "terminated"]
        BY <1>2, <1>8, <2>11, <3>7, Zenon
      <4>6. meant.code = Verdict(s[k])
        BY <4>4, <4>5 DEF Verdict
      <4>7. meant.code # "success" /\ meant.code \in Codes
        BY <4>6 DEF Verdict, Codes
      <4> QED BY <3>4, <4>2, <4>6, <4>7 DEF Taken
    <3>8. CASE refused = {}
      <4>1. \A k \in 1..Len(p) : ~Refused(s[k])
        BY <2>5, <3>6, <3>8, Zenon
      <4>2. Accepted(s, Len(p), parsed)
        BY <3>3, <4>1, Zenon DEF ComesTo
      <4>3. PICK n \in Int : Latest(s, Len(p), "reload-time", 0, n) /\ parsed.args.reload = Milliseconds(n)
        BY <4>2, Zenon DEF Accepted
      <4>4. "domain" \in Valued /\ "reload-time" \in Valued
        BY DEF Valued
      <4>5. n = IF at("reload-time") = {} THEN 0 ELSE last("reload-time")
        <5>1. Latest(OptionsOf(words, p), Len(p), "reload-time", 0, n)
          BY <2>2, <4>3
        <5>2. PICK A : A = {i \in S : words[i].flag = "reload-time"}
          OBVIOUS
        <5>3. n = LatestOf(words, A, 0)
          BY <2>1, <4>4, <5>1, <5>2, LatestIs
        <5> QED BY <5>2, <5>3 DEF at, last, LatestOf
      <4>6. parsed.args.domain = IF at("domain") = {} THEN Unset ELSE last("domain")
        <5>1. Latest(s, Len(p), "domain", Unset, parsed.args.domain)
          BY <4>2, Zenon DEF Accepted
        <5>2. PICK A : A = {i \in S : words[i].flag = "domain"}
          OBVIOUS
        <5>3. Latest(OptionsOf(words, p), Len(p), "domain", Unset, parsed.args.domain)
          BY <2>2, <5>1
        <5>4. parsed.args.domain = LatestOf(words, A, Unset)
          BY <2>1, <4>4, <5>2, <5>3, LatestIs
        <5> QED BY <5>2, <5>4 DEF at, last, LatestOf
      <4>7. meant = options
        BY <1>2, <1>8, <2>11, <3>8, Zenon
      <4>8. meant.code = "success" /\ parsed.code = "success"
        BY <4>2, <4>7 DEF Accepted, options
      <4>9. meant.domain = parsed.args.domain
        BY <4>6, <4>7 DEF options
      <4>10. meant.reload = parsed.args.reload
        BY <4>3, <4>5, <4>7 DEF Milliseconds, options
      <4> QED BY <3>4, <4>8, <4>9, <4>10 DEF Taken, Codes
    <3> QED BY <3>7, <3>8
  <2> QED BY <2>10, <2>11
<1> QED BY <1>7, <1>8

-----------------------------------------------------------------------------
(* Documents. *)

LEMMA EmptyIsYaml == EmptyYaml \in Yaml
BY DEF EmptyYaml, Yaml

(* What Load makes of a document. *)
LEMMA LoadOf ==
  ASSUME NEW yml \in Yaml
  PROVE  Load(yml) = [threads |-> Tagged(yml.threads, DefaultThreads), allow |-> yml.allow,
                      block |-> yml.block \cup RpcTopics, domain |-> Tagged(yml.domain, 0)]
<1> DEFINE specs == [threads |-> Tagged(yml.threads, DefaultThreads), allow |-> {}, block |-> {},
                     domain |-> 0]
           dds == [threads |-> Tagged(yml.threads, DefaultThreads), allow |-> yml.allow,
                   block |-> yml.block, domain |-> Tagged(yml.domain, 0)]
<1>1. LoadSpecs(DefaultConfiguration, yml) = specs
  BY DEF LoadSpecs, DefaultConfiguration
<1>2. LoadDds(specs, yml) = dds
  <2>1. /\ (IF yml.allow = {} THEN specs.allow ELSE yml.allow) = yml.allow
        /\ (IF yml.block = {} THEN specs.block ELSE yml.block) = yml.block
    OBVIOUS
  <2>2. Tagged(yml.domain, specs.domain) = Tagged(yml.domain, 0)
    OBVIOUS
  <2>3. LoadDds(specs, yml) = [specs EXCEPT !.allow = yml.allow, !.block = yml.block,
                                            !.domain = Tagged(yml.domain, 0)]
    BY <2>1, <2>2, Zenon DEF LoadDds
  <2> QED BY <2>3
<1>3. BlockRpcTopics(dds) = [dds EXCEPT !.block = yml.block \cup RpcTopics]
  BY DEF BlockRpcTopics
<1>4. Load(yml) = BlockRpcTopics(dds)
  BY <1>1, <1>2 DEF Load
<1> QED BY <1>3, <1>4

(* The domain of the arguments leaves the lists alone. *)
LEMMA OverrideOf ==
  ASSUME NEW yml \in Yaml, NEW args
  PROVE  /\ PipeLists(OverrideDomain(Load(yml), args)) = PipeLists(Load(yml))
         /\ OverrideDomain(Load(yml), args).domain =
              IF args.domain # Unset THEN args.domain ELSE Tagged(yml.domain, 0)
BY LoadOf DEF OverrideDomain, PipeLists

(* A document that can be read is one there was. *)
LEMMA DocumentHad ==
  ASSUME HeldInv, ~Unreadable(Document)
  PROVE  Document \in had /\ Document \in Yaml
BY DEF HeldInv, Unreadable, Document

LEMMA ReadingType ==
  ASSUME NEW yml \in Yaml
  PROVE  Reading(yml) \in [pc : {"reading", "applying"}, yml : Yaml]
BY DEF Reading

LEMMA ListsType ==
  ASSUME NEW yml \in Yaml
  PROVE  PipeLists(Load(yml)) \in Lists
<1>1. Load(yml).allow = yml.allow /\ Load(yml).block = yml.block \cup RpcTopics
  BY LoadOf
<1>2. PipeLists(Load(yml)) =
        [allow |-> IF yml.allow = {} THEN {} ELSE yml.allow \cup InternalTopics,
         block |-> yml.block \cup RpcTopics]
  BY <1>1 DEF PipeLists
<1>3. yml.allow \subseteq AnyTopic /\ yml.block \subseteq AnyTopic
  BY DEF Yaml
<1> QED BY <1>2, <1>3 DEF Lists, AnyTopic

LEMMA QosType ==
  ASSUME NEW yml \in Yaml, defaultQos \in Profiles \cup {NoTag}
  PROVE  QosAfter(yml) \in Profiles \cup {NoTag}
BY DEF QosAfter, LoadQos, Tagged, Yaml

LEMMA DomainType ==
  \A args \in [reload : Int, domain : 0..MaxDomainId \cup {Unset}] : args.domain \in Nat \cup {Unset}
BY ArgumentConstants

LEMMA OneEditMore == edits \in 0..MaxEdits /\ edits < MaxEdits => edits + 1 \in 0..MaxEdits
BY ProcessConstants

LEMMA AtOnePlace == Sleeping.pc = "sleeping" /\ \A y : Reading(y).pc = "reading" /\ Applying(y).pc = "applying"
                                                      /\ Reading(y).yml = y /\ Applying(y).yml = y
BY DEF Sleeping, Reading, Applying

-----------------------------------------------------------------------------
(* The inductive invariant. *)

LEMMA WordsType == \A words \in CommandLines \cup {<<>>} : words \in Seq(Word)
<1>1. << >> \in Seq(Word)
  OBVIOUS
<1> QED BY <1>1, ProcessConstants, Zenon

LEMMA ProcessInvInit == ProcessInit => ProcessInv
<1> SUFFICES ASSUME ProcessInit PROVE ProcessInv
  OBVIOUS
<1> USE DEF ProcessInit
<1>1. LifeInv
  BY DEF LifeInv, Places, Built, Watching
<1>2. HeldInv
  <2>1. Files \subseteq Yaml
    BY ProcessConstants
  <2> QED BY <2>1, EmptyIsYaml, AtOnePlace DEF HeldInv
<1>3. ValueInv
  <2>1. /\ outcome = [code |-> "success", args |-> [reload |-> 0, domain |-> Unset]]
        /\ edits \in 0..MaxEdits
    BY ProcessConstants DEF Outcome, Defaults
  <2>2. /\ outcome.code \in Codes \cup {"help", "version"} /\ code \in Codes \cup {"none"}
        /\ outcome.args \in [reload : Int, domain : 0..MaxDomainId \cup {Unset}]
    BY <2>1 DEF Codes
  <2>3. lists \in Lists
    BY DEF Lists
  <2> QED BY <2>1, <2>2, <2>3 DEF ValueInv
<1> QED BY <1>1, <1>2, <1>3 DEF ProcessInv, ListsOfOneDocument, DomainAsAsked, CodeTellsWhatHappened

(* The life of the pipe and of the threads. *)
LEMMA LifeStep == ProcessInv /\ [ProcessNext]_processVars => LifeInv'
<1> SUFFICES ASSUME ProcessInv, [ProcessNext]_processVars PROVE LifeInv'
  OBVIOUS
<1> USE DEF ProcessInv, LifeInv, Built, Calling, Watching, Places, At, Goto, Return, Threads, mainVars, fileVars, watchVars, reloadVars, pipeVars
<1>1. CASE Parse
  BY <1>1 DEF Parse
<1>2. CASE FindFile
  BY <1>2 DEF FindFile
<1>3. CASE LoadConfiguration
  BY <1>3 DEF LoadConfiguration
<1>4. CASE Refuse
  BY <1>4 DEF Refuse
<1>5. CASE Build
  BY <1>5 DEF Build
<1>6. CASE StartWatcher
  BY <1>6 DEF StartWatcher
<1>7. CASE StartTimer
  BY <1>7 DEF StartTimer
<1>8. CASE StopTimer
  BY <1>8 DEF StopTimer
<1>9. CASE JoinTimer
  BY <1>9 DEF JoinTimer
<1>10. CASE StopWatcher
  BY <1>10 DEF StopWatcher
<1>11. CASE JoinWatcher
  BY <1>11 DEF JoinWatcher
<1>12. CASE Destroy
  BY <1>12 DEF Destroy
<1>13. CASE Finish
  BY <1>13 DEF Finish
<1>14. CASE Edit
  BY <1>14 DEF Edit
<1>15. ASSUME NEW t \in Threads, BeginReload(t) PROVE LifeInv'
  <2>1. reload'[t] = Sleeping \/ (reload'[t] = Reading(Document) /\ Document \in Yaml)
    BY <1>15, DocumentHad DEF BeginReload
  <2>2. reload'[t] \in {Sleeping} \cup [pc : {"reading", "applying"}, yml : Yaml]
    BY <2>1, ReadingType
  <2> QED BY <1>15, <2>2 DEF BeginReload
<1>16. ASSUME NEW t \in Threads, LoadReload(t) PROVE LifeInv'
  <2>1. reload[t] \in [pc : {"reading", "applying"}, yml : Yaml]
    BY <1>16, AtOnePlace DEF LoadReload
  <2>2. reload'[t] \in {Sleeping} \cup [pc : {"reading", "applying"}, yml : Yaml]
    BY <1>16, <2>1 DEF LoadReload, Applying
  <2> QED BY <1>16, <2>1, <2>2, AtOnePlace DEF LoadReload
<1>17. ASSUME NEW t \in Threads, ApplyReload(t) PROVE LifeInv'
  BY <1>17 DEF ApplyReload
<1>18. CASE UNCHANGED processVars
  BY <1>18 DEF processVars
<1> QED BY <1>1, <1>2, <1>3, <1>4, <1>5, <1>6, <1>7, <1>8, <1>9, <1>10, <1>11, <1>12, <1>13, <1>14, <1>15, <1>16, <1>17, <1>18 DEF ProcessNext, Main, Reload

(* The documents. *)
LEMMA HeldStep == ProcessInv /\ [ProcessNext]_processVars => HeldInv'
<1> SUFFICES ASSUME ProcessInv, [ProcessNext]_processVars PROVE HeldInv'
  OBVIOUS
<1> USE DEF ProcessInv, LifeInv, HeldInv, At, Goto, Return, Threads, mainVars, fileVars, watchVars, reloadVars, pipeVars
<1>1. CASE Parse
  BY <1>1 DEF Parse
<1>2. CASE FindFile
  BY <1>2 DEF FindFile
<1>3. CASE LoadConfiguration
  BY <1>3, DocumentHad DEF LoadConfiguration
<1>4. CASE Refuse
  BY <1>4 DEF Refuse
<1>5. CASE Build
  BY <1>5 DEF Build
<1>6. CASE StartWatcher
  BY <1>6 DEF StartWatcher
<1>7. CASE StartTimer
  BY <1>7 DEF StartTimer
<1>8. CASE StopTimer
  BY <1>8 DEF StopTimer
<1>9. CASE JoinTimer
  BY <1>9 DEF JoinTimer
<1>10. CASE StopWatcher
  BY <1>10 DEF StopWatcher
<1>11. CASE JoinWatcher
  BY <1>11 DEF JoinWatcher
<1>12. CASE Destroy
  BY <1>12 DEF Destroy
<1>13. CASE Finish
  BY <1>13 DEF Finish
<1>14. CASE Edit
  BY <1>14, ProcessConstants DEF Edit
<1>15. ASSUME NEW t \in Threads, BeginReload(t) PROVE HeldInv'
  BY <1>15, DocumentHad, AtOnePlace DEF BeginReload
<1>16. ASSUME NEW t \in Threads, LoadReload(t) PROVE HeldInv'
  <2>1. reload[t] # Sleeping /\ reload[t].yml \in had
    BY <1>16, AtOnePlace DEF LoadReload
  <2>2. \A x \in Threads : x # t => reload'[x] = reload[x]
    BY <1>16 DEF LoadReload
  <2>3. \/ reload'[t] = Sleeping
        \/ reload'[t] = Applying(reload[t].yml) /\ reload[t].yml.fault = "none"
    BY <1>16 DEF LoadReload
  <2> QED BY <1>16, <2>1, <2>2, <2>3, AtOnePlace DEF LoadReload
<1>17. ASSUME NEW t \in Threads, ApplyReload(t) PROVE HeldInv'
  BY <1>17, AtOnePlace DEF ApplyReload
<1>18. CASE UNCHANGED processVars
  BY <1>18 DEF processVars
<1> QED BY <1>1, <1>2, <1>3, <1>4, <1>5, <1>6, <1>7, <1>8, <1>9, <1>10, <1>11, <1>12, <1>13, <1>14, <1>15, <1>16, <1>17, <1>18 DEF ProcessNext, Main, Reload

(* The values. *)
LEMMA ValueStep == ProcessInv /\ [ProcessNext]_processVars => ValueInv'
<1> SUFFICES ASSUME ProcessInv, [ProcessNext]_processVars PROVE ValueInv'
  OBVIOUS
<1> USE DEF ProcessInv, LifeInv, HeldInv, ValueInv, At, Goto, Return, Threads, mainVars, fileVars, watchVars, reloadVars, pipeVars
<1>1. CASE Parse
  <2>1. argv \in Seq(Word)
    BY WordsType
  <2>2. PICK parsed : parsed = ParseArguments(argv, file # NoFile)
    OBVIOUS
  <2>3. /\ parsed.code \in Codes \cup {"help", "version"}
        /\ parsed.args \in [reload : Int, domain : 0..MaxDomainId \cup {Unset}]
    BY <2>1, <2>2, ParsedAsMeant
  <2>4. outcome' = parsed
    BY <1>1, <2>2 DEF Parse
  <2>5. code' \in Codes \cup {"none"} /\ (code' = "none" <=> pc' # "ended")
    BY <1>1, <2>3, <2>4 DEF Parse, Codes
  <2> QED BY <1>1, <2>3, <2>4, <2>5 DEF Parse
<1>2. CASE FindFile
  BY <1>2 DEF FindFile
<1>3. CASE LoadConfiguration
  BY <1>3, DocumentHad, QosType DEF LoadConfiguration, Codes
<1>4. CASE Refuse
  BY <1>4 DEF Refuse, Codes
<1>5. CASE Build
  <2>1. /\ lists' = PipeLists(Load(loaded))
        /\ domain' = IF outcome.args.domain # Unset THEN outcome.args.domain ELSE Tagged(loaded.domain, 0)
    BY <1>5, OverrideOf DEF Build, Configured
  <2>2. lists' \in Lists
    BY <2>1, ListsType
  <2>3. domain' \in Nat \cup {Unset}
    <3>1. loaded.domain \in Nat \cup {NoTag}
      BY DEF Yaml
    <3>2. outcome.args.domain \in Nat \cup {Unset}
      BY DomainType
    <3> QED BY <2>1, <3>1, <3>2 DEF Tagged
  <2> QED BY <1>5, <2>2, <2>3 DEF Build
<1>6. CASE StartWatcher
  BY <1>6 DEF StartWatcher
<1>7. CASE StartTimer
  BY <1>7 DEF StartTimer
<1>8. CASE StopTimer
  BY <1>8 DEF StopTimer
<1>9. CASE JoinTimer
  BY <1>9 DEF JoinTimer
<1>10. CASE StopWatcher
  BY <1>10 DEF StopWatcher
<1>11. CASE JoinWatcher
  BY <1>11 DEF JoinWatcher
<1>12. CASE Destroy
  BY <1>12 DEF Destroy, Codes
<1>13. CASE Finish
  BY <1>13 DEF Finish
<1>14. CASE Edit
  <2>1. edits' \in 0..MaxEdits
    BY <1>14, OneEditMore DEF Edit
  <2>2. missed' \in BOOLEAN
    BY <1>14, Zenon DEF Edit
  <2> QED BY <1>14, <2>1, <2>2 DEF Edit
<1>15. ASSUME NEW t \in Threads, BeginReload(t) PROVE ValueInv'
  BY <1>15 DEF BeginReload
<1>16. ASSUME NEW t \in Threads, LoadReload(t) PROVE ValueInv'
  <2>1. reload[t].yml \in Yaml
    BY <1>16, AtOnePlace DEF LoadReload
  <2>2. defaultQos' \in Profiles \cup {NoTag}
    BY <1>16, <2>1, QosType DEF LoadReload
  <2> QED BY <1>16, <2>2 DEF LoadReload
<1>17. ASSUME NEW t \in Threads, ApplyReload(t) PROVE ValueInv'
  <2>1. reload[t].yml \in Yaml
    BY <1>17, AtOnePlace DEF ApplyReload
  <2>2. lists' \in Lists
    BY <1>17, <2>1, ListsType DEF ApplyReload
  <2> QED BY <1>17, <2>2 DEF ApplyReload
<1>18. CASE UNCHANGED processVars
  BY <1>18 DEF processVars
<1> QED BY <1>1, <1>2, <1>3, <1>4, <1>5, <1>6, <1>7, <1>8, <1>9, <1>10, <1>11, <1>12, <1>13, <1>14, <1>15, <1>16, <1>17, <1>18 DEF ProcessNext, Main, Reload

(* The lists. *)
LEMMA ListsStep == ProcessInv /\ [ProcessNext]_processVars => ListsOfOneDocument'
<1> SUFFICES ASSUME ProcessInv, [ProcessNext]_processVars PROVE ListsOfOneDocument'
  OBVIOUS
<1> USE DEF ProcessInv, LifeInv, HeldInv, ListsOfOneDocument, Built, At, Goto, Return, Threads, mainVars, fileVars, watchVars, reloadVars, pipeVars
<1>1. CASE Parse
  BY <1>1 DEF Parse
<1>2. CASE FindFile
  BY <1>2 DEF FindFile
<1>3. CASE LoadConfiguration
  BY <1>3 DEF LoadConfiguration
<1>4. CASE Refuse
  BY <1>4 DEF Refuse
<1>5. CASE Build
  BY <1>5, OverrideOf DEF Build, Configured
<1>6. CASE StartWatcher
  BY <1>6 DEF StartWatcher
<1>7. CASE StartTimer
  BY <1>7 DEF StartTimer
<1>8. CASE StopTimer
  BY <1>8 DEF StopTimer
<1>9. CASE JoinTimer
  BY <1>9 DEF JoinTimer
<1>10. CASE StopWatcher
  BY <1>10 DEF StopWatcher
<1>11. CASE JoinWatcher
  BY <1>11 DEF JoinWatcher
<1>12. CASE Destroy
  BY <1>12 DEF Destroy
<1>13. CASE Finish
  BY <1>13 DEF Finish
<1>14. CASE Edit
  BY <1>14 DEF Edit
<1>15. ASSUME NEW t \in Threads, BeginReload(t) PROVE ListsOfOneDocument'
  BY <1>15 DEF BeginReload
<1>16. ASSUME NEW t \in Threads, LoadReload(t) PROVE ListsOfOneDocument'
  BY <1>16 DEF LoadReload
<1>17. ASSUME NEW t \in Threads, ApplyReload(t) PROVE ListsOfOneDocument'
  BY <1>17, AtOnePlace DEF ApplyReload
<1>18. CASE UNCHANGED processVars
  BY <1>18 DEF processVars
<1> QED BY <1>1, <1>2, <1>3, <1>4, <1>5, <1>6, <1>7, <1>8, <1>9, <1>10, <1>11, <1>12, <1>13, <1>14, <1>15, <1>16, <1>17, <1>18 DEF ProcessNext, Main, Reload

(* The domain. *)
LEMMA DomainStep == ProcessInv /\ [ProcessNext]_processVars => DomainAsAsked'
<1> SUFFICES ASSUME ProcessInv, [ProcessNext]_processVars PROVE DomainAsAsked'
  OBVIOUS
<1> USE DEF ProcessInv, LifeInv, HeldInv, DomainAsAsked, Built, At, Goto, Return, Threads, mainVars, fileVars, watchVars, reloadVars, pipeVars
<1>1. CASE Parse
  BY <1>1 DEF Parse
<1>2. CASE FindFile
  BY <1>2 DEF FindFile
<1>3. CASE LoadConfiguration
  BY <1>3 DEF LoadConfiguration
<1>4. CASE Refuse
  BY <1>4 DEF Refuse
<1>5. CASE Build
  BY <1>5, OverrideOf DEF Build, Configured, IsValid
<1>6. CASE StartWatcher
  BY <1>6 DEF StartWatcher
<1>7. CASE StartTimer
  BY <1>7 DEF StartTimer
<1>8. CASE StopTimer
  BY <1>8 DEF StopTimer
<1>9. CASE JoinTimer
  BY <1>9 DEF JoinTimer
<1>10. CASE StopWatcher
  BY <1>10 DEF StopWatcher
<1>11. CASE JoinWatcher
  BY <1>11 DEF JoinWatcher
<1>12. CASE Destroy
  BY <1>12 DEF Destroy
<1>13. CASE Finish
  BY <1>13 DEF Finish
<1>14. CASE Edit
  BY <1>14 DEF Edit
<1>15. ASSUME NEW t \in Threads, BeginReload(t) PROVE DomainAsAsked'
  BY <1>15 DEF BeginReload
<1>16. ASSUME NEW t \in Threads, LoadReload(t) PROVE DomainAsAsked'
  BY <1>16 DEF LoadReload
<1>17. ASSUME NEW t \in Threads, ApplyReload(t) PROVE DomainAsAsked'
  BY <1>17 DEF ApplyReload
<1>18. CASE UNCHANGED processVars
  BY <1>18 DEF processVars
<1> QED BY <1>1, <1>2, <1>3, <1>4, <1>5, <1>6, <1>7, <1>8, <1>9, <1>10, <1>11, <1>12, <1>13, <1>14, <1>15, <1>16, <1>17, <1>18 DEF ProcessNext, Main, Reload

(* The code. *)
LEMMA CodeStep == ProcessInv /\ [ProcessNext]_processVars => CodeTellsWhatHappened'
<1> SUFFICES ASSUME ProcessInv, [ProcessNext]_processVars PROVE CodeTellsWhatHappened'
  OBVIOUS
<1> USE DEF ProcessInv, LifeInv, CodeTellsWhatHappened, Built, At, Goto, Return, Threads, mainVars, fileVars, watchVars, reloadVars, pipeVars
<1>1. CASE Parse
  BY <1>1 DEF Parse
<1>2. CASE FindFile
  BY <1>2 DEF FindFile
<1>3. CASE LoadConfiguration
  BY <1>3 DEF LoadConfiguration
<1>4. CASE Refuse
  BY <1>4 DEF Refuse
<1>5. CASE Build
  BY <1>5 DEF Build
<1>6. CASE StartWatcher
  BY <1>6 DEF StartWatcher
<1>7. CASE StartTimer
  BY <1>7 DEF StartTimer
<1>8. CASE StopTimer
  BY <1>8 DEF StopTimer
<1>9. CASE JoinTimer
  BY <1>9 DEF JoinTimer
<1>10. CASE StopWatcher
  BY <1>10 DEF StopWatcher
<1>11. CASE JoinWatcher
  BY <1>11 DEF JoinWatcher
<1>12. CASE Destroy
  BY <1>12 DEF Destroy
<1>13. CASE Finish
  BY <1>13 DEF Finish
<1>14. CASE Edit
  BY <1>14 DEF Edit
<1>15. ASSUME NEW t \in Threads, BeginReload(t) PROVE CodeTellsWhatHappened'
  BY <1>15 DEF BeginReload
<1>16. ASSUME NEW t \in Threads, LoadReload(t) PROVE CodeTellsWhatHappened'
  BY <1>16 DEF LoadReload
<1>17. ASSUME NEW t \in Threads, ApplyReload(t) PROVE CodeTellsWhatHappened'
  BY <1>17 DEF ApplyReload
<1>18. CASE UNCHANGED processVars
  BY <1>18 DEF processVars
<1> QED BY <1>1, <1>2, <1>3, <1>4, <1>5, <1>6, <1>7, <1>8, <1>9, <1>10, <1>11, <1>12, <1>13, <1>14, <1>15, <1>16, <1>17, <1>18 DEF ProcessNext, Main, Reload

(* The reloads and the pipe, the documents, the lists, the domain and the    *)
(* code fit together at every moment of every run of the process.            *)
THEOREM ProcessInvariant == ProcessSpec => []ProcessInv
<1>1. ProcessInv /\ [ProcessNext]_processVars => ProcessInv'
  BY LifeStep, HeldStep, ValueStep, ListsStep, DomainStep, CodeStep DEF ProcessInv
<1> QED BY ProcessInvInit, <1>1, PTL DEF ProcessSpec

-----------------------------------------------------------------------------
(* The properties the runs check. *)

(* The types of the process, of what the parser makes of any command line    *)
(* among them: one of four codes or a help, and a domain in the range.       *)
THEOREM ProcessTypes == ProcessSpec => []ProcessTypeOK
<1>1. ProcessInv => ProcessTypeOK
  <2> SUFFICES ASSUME ProcessInv PROVE ProcessTypeOK
    OBVIOUS
  <2>1. loaded \in Yaml /\ had \subseteq Yaml
    BY DEF ProcessInv, HeldInv
  <2>2. {source, watchable, changed, timer, missed} \subseteq BOOLEAN
    BY DEF ProcessInv, LifeInv, HeldInv, ValueInv
  <2> QED BY <2>1, <2>2 DEF ProcessInv, LifeInv, HeldInv, ValueInv, ProcessTypeOK
<1> QED BY ProcessInvariant, <1>1, PTL

(* The parser and the loop over the options make of every command line what  *)
(* it means, however long it is and whatever its words look like.            *)
THEOREM ArgumentsTakenAsMeant == ProcessSpec => ArgumentsAreTakenAsMeant
<1>1. ProcessInv /\ [ProcessNext]_processVars =>
        [Parse =>
           LET meant == Meant(argv, file # NoFile) IN
           /\ outcome'.code = meant.code
           /\ meant.code = "success" =>
                outcome'.args.domain = meant.domain /\ outcome'.args.reload = meant.reload]_processVars
  <2> SUFFICES ASSUME ProcessInv, Parse
               PROVE  LET meant == Meant(argv, file # NoFile) IN
                      /\ outcome'.code = meant.code
                      /\ meant.code = "success" =>
                           outcome'.args.domain = meant.domain /\ outcome'.args.reload = meant.reload
    OBVIOUS
  <2>1. argv \in Seq(Word)
    BY WordsType DEF ProcessInv, ValueInv
  <2>2. PICK parsed, meant : parsed = ParseArguments(argv, file # NoFile) /\ meant = Meant(argv, file # NoFile)
    OBVIOUS
  <2>3. /\ parsed.code = meant.code
        /\ meant.code = "success" => parsed.args.domain = meant.domain /\ parsed.args.reload = meant.reload
    BY <2>1, <2>2, ParsedAsMeant
  <2>4. outcome' = parsed
    BY <2>2 DEF Parse
  <2> QED BY <2>2, <2>3, <2>4
<1> QED BY ProcessInvariant, <1>1, PTL DEF ProcessSpec, ArgumentsAreTakenAsMeant

(* No callback of the watcher or the timer is in progress on a pipe that is  *)
(* not built yet or already destroyed.                                       *)
THEOREM ReloadsHavePipe == ProcessSpec => []NoReloadWithoutPipe
<1>1. ProcessInv => NoReloadWithoutPipe
  BY DEF ProcessInv, LifeInv, NoReloadWithoutPipe, Calling, Built
<1> QED BY ProcessInvariant, <1>1, PTL

(* The two lists of the pipe are always those of one faultless document.     *)
THEOREM OneDocument == ProcessSpec => []ListsOfOneDocument
<1>1. ProcessInv => ListsOfOneDocument
  BY DEF ProcessInv
<1> QED BY ProcessInvariant, <1>1, PTL

(* No allowlist can take the spy's own topics from the pipe: one that is not *)
(* carried is matched by the blocklist of the document in force.  And none   *)
(* of ROS 2 services is carried.                                             *)
THEOREM InternalTopicsCarried == ProcessSpec => []AllowlistsDoNotBlind
<1>1. ProcessInv => AllowlistsDoNotBlind
  <2> SUFFICES ASSUME ProcessInv, pipe = "enabled" PROVE AllowlistsDoNotBlind
    BY DEF AllowlistsDoNotBlind
  <2>1. PICK yml \in had : lists = PipeLists(Load(yml))
    BY DEF ProcessInv, HeldInv, ListsOfOneDocument
  <2>2. yml \in Yaml
    BY <2>1 DEF ProcessInv, HeldInv
  <2>3. /\ lists.allow = IF yml.allow = {} THEN {} ELSE yml.allow \cup InternalTopics
        /\ lists.block = yml.block \cup RpcTopics
    <3>1. Load(yml).allow = yml.allow /\ Load(yml).block = yml.block \cup RpcTopics
      BY <2>2, LoadOf
    <3> QED BY <2>1, <3>1, Zenon DEF PipeLists
  <2>4. ASSUME NEW topic \in InternalTopics, ~Carries(lists, topic) PROVE topic \in yml.block
    BY <2>3, <2>4, ConfigurationConstants DEF Carries
  <2>5. ASSUME NEW topic \in RpcTopics PROVE ~Carries(lists, topic)
    BY <2>3 DEF Carries
  <2> QED BY <2>1, <2>4, <2>5 DEF AllowlistsDoNotBlind
<1> QED BY ProcessInvariant, <1>1, PTL

(* The domain is that of the command line, else that of the file main read,  *)
(* and in the range, whatever is reloaded.                                   *)
THEOREM DomainHolds == ProcessSpec => []DomainAsAsked
<1>1. ProcessInv => DomainAsAsked
  BY DEF ProcessInv
<1> QED BY ProcessInvariant, <1>1, PTL

(* The code main returns says whether there was a spy.                       *)
THEOREM CodeHolds == ProcessSpec => []CodeTellsWhatHappened
<1>1. ProcessInv => CodeTellsWhatHappened
  BY DEF ProcessInv
<1> QED BY ProcessInvariant, <1>1, PTL
=============================================================================
