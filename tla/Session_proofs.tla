--------------------------- MODULE Session_proofs ---------------------------
(***************************************************************************)
(* Sessions of any lines, of any length, over any files.                   *)
(*                                                                         *)
(* What the parser takes from a line is what was typed up to the first     *)
(* stray word; by induction over the rounds of its loop.  What is on the   *)
(* disk, whatever was overwritten by what, was proved (DiskOK), and what   *)
(* was proved comes from a private witness (Witnessed) or from records     *)
(* that did (Sound).  Each command ends a session of its own, as far as    *)
(* the properties of its last step go: they follow from that invariant and *)
(* the one command.                                                        *)
(***************************************************************************)
EXTENDS Session, Guests_proofs, FiniteSetTheorems

-----------------------------------------------------------------------------
(* The parser.                                                             *)

ParseStart(p)       == [ok |-> TRUE, next |-> 1, flags |-> {}]
ParseStep(p, k, fs) == parseOne(p.valued, p.bools, p.argv, fs)

ParseRec == INSTANCE NatRecursion WITH Base <- ParseStart, Step <- ParseStep

LEMMA ParseUnfolds ==
  ASSUME NEW valued, NEW bools, NEW argv
  PROVE  LET round == ParseRounds(valued, bools, argv)
         IN  /\ round[0] = [ok |-> TRUE, next |-> 1, flags |-> {}]
             /\ \A k \in Nat : round[k + 1] = parseOne(valued, bools, argv, round[k])
<1> DEFINE p == [valued |-> valued, bools |-> bools, argv |-> argv]
<1>1. ParseRounds(valued, bools, argv) = ParseRec!Rec(p)
  BY DEF ParseRounds, ParseRec!Rec, ParseStart, ParseStep
<1>2. /\ ParseRec!Rec(p)[0] = ParseStart(p)
      /\ \A k \in Nat : ParseRec!Rec(p)[k + 1] = ParseStep(p, k + 1, ParseRec!Rec(p)[k])
  BY ParseRec!RecUnfolds
<1>3. ParseStart(p) = [ok |-> TRUE, next |-> 1, flags |-> {}]
  BY DEF ParseStart
<1>4. \A k \in Nat : \A fs : ParseStep(p, k + 1, fs) = parseOne(valued, bools, argv, fs)
  BY DEF ParseStep
<1> HIDE DEF p
<1> QED
  BY <1>1, <1>2, <1>3, <1>4

(* After some rounds of the loop, for a line that a command with these     *)
(* flags parses: the flags set are the ones before the word it stands at,  *)
(* there is no stray word before it, and the flag in front of it, if any,  *)
(* has its text.                                                           *)
RoundOK(fs, n) ==
  /\ fs.next \in 1..(n + 1)
  /\ fs.flags \subseteq 1..(fs.next - 1)

HasRead(fs, valued, bools, line) ==
  /\ fs.flags = {i \in 1..(fs.next - 1) : IsFlag(line.argv[i])}
  /\ \A j \in 1..(fs.next - 1) : ~Stray(line, j)
  /\ fs.next # 1 => ~WantsText(line, fs.next - 1)
  /\ \A i \in fs.flags : CanSet(valued, bools, line.argv, i)

(* The flags that the user takes for switches are those of the command.    *)
FlagsOf(line, valued, bools) ==
  /\ valued \cap Switches(line) = {}
  /\ bools \subseteq Switches(line)

LEMMA OneRound ==
  ASSUME NEW valued, NEW bools, NEW argv, Len(argv) \in Nat, NEW fs, RoundOK(fs, Len(argv))
  PROVE  RoundOK(parseOne(valued, bools, argv, fs), Len(argv))
<1> DEFINE gs == parseOne(valued, bools, argv, fs)
           i  == fs.next
<1>1. CASE ~fs.ok \/ i > Len(argv) \/ ~IsFlag(argv[i])
  <2>1. gs = fs
    BY <1>1 DEF parseOne
  <2> QED
    BY <2>1
<1>2. CASE ~(~fs.ok \/ i > Len(argv) \/ ~IsFlag(argv[i])) /\ CanSet(valued, bools, argv, i)
  <2>1. gs = [ok |-> TRUE, next |-> Beyond(bools, argv, i), flags |-> fs.flags \cup {i}]
    BY <1>2 DEF parseOne
  <2>2. gs.next = Beyond(bools, argv, i) /\ gs.flags = fs.flags \cup {i}
    BY <2>1
  <2> HIDE DEF gs
  <2>3. Beyond(bools, argv, i) \in {i + 1, i + 2} /\ Beyond(bools, argv, i) <= Len(argv) + 1
    BY <1>2 DEF Beyond, CanSet
  <2>4. RoundOK(gs, Len(argv))
    BY <2>2, <2>3 DEF RoundOK
  <2> QED
    BY <2>4 DEF gs
<1>3. CASE ~(~fs.ok \/ i > Len(argv) \/ ~IsFlag(argv[i])) /\ ~CanSet(valued, bools, argv, i)
  <2>1. gs = [ok |-> FALSE, next |-> i, flags |-> fs.flags]
    BY <1>3 DEF parseOne
  <2>2. gs.next = i /\ gs.flags = fs.flags
    BY <2>1
  <2> HIDE DEF gs
  <2>3. RoundOK(gs, Len(argv))
    BY <2>2 DEF RoundOK
  <2> QED
    BY <2>3 DEF gs
<1> QED
  BY <1>1, <1>2, <1>3

(* A flag that is set together with the next word stood for a text.        *)
LEMMA TakesWhatIsWanted ==
  ASSUME NEW valued, NEW bools, NEW line, FlagsOf(line, valued, bools), NEW i,
         IsFlag(line.argv[i]), line.argv[i].flag \in valued \cup bools
  PROVE  TakesNext(bools, line.argv, i) <=> WantsText(line, i)
BY DEF FlagsOf, TakesNext, WantsText

LEMMA OneRoundReads ==
  ASSUME NEW valued, NEW bools, NEW line, Len(line.argv) \in Nat,
         FlagsOf(line, valued, bools), Complete(line),
         NEW fs, RoundOK(fs, Len(line.argv)), HasRead(fs, valued, bools, line),
         parseOne(valued, bools, line.argv, fs).ok
  PROVE  LET gs == parseOne(valued, bools, line.argv, fs)
         IN  /\ HasRead(gs, valued, bools, line)
             /\ \/ gs = fs /\ (fs.next = Len(line.argv) + 1 \/ ~IsFlag(line.argv[fs.next]))
                \/ gs.next > fs.next
<1> DEFINE gs   == parseOne(valued, bools, line.argv, fs)
           i    == fs.next
           argv == line.argv
           n    == Len(argv)
<1>1. CASE ~fs.ok \/ i > n \/ ~IsFlag(argv[i])
  <2>1. gs = fs
    BY <1>1 DEF parseOne
  <2>2. i = n + 1 \/ ~IsFlag(argv[i])
    BY <1>1, <2>1 DEF RoundOK
  <2> QED
    BY <2>1, <2>2
<1>2. CASE ~(~fs.ok \/ i > n \/ ~IsFlag(argv[i])) /\ CanSet(valued, bools, argv, i)
  <2>1. gs = [ok |-> TRUE, next |-> Beyond(bools, argv, i), flags |-> fs.flags \cup {i}]
    BY <1>2 DEF parseOne
  <2>2. gs.next = Beyond(bools, argv, i) /\ gs.flags = fs.flags \cup {i}
    BY <2>1
  <2>3. i \in 1..n /\ IsFlag(argv[i]) /\ argv[i].flag \in valued \cup bools
    BY <1>2 DEF RoundOK, CanSet
  <2>4. TakesNext(bools, argv, i) <=> WantsText(line, i)
    BY <2>3, TakesWhatIsWanted
  <2>5. ~Stray(line, i)
    BY <2>3 DEF Stray
  <2>6. \A k \in fs.flags \cup {i} : CanSet(valued, bools, argv, k)
    BY <1>2 DEF HasRead
  <2>7. CASE TakesNext(bools, argv, i)
    <3>1. i + 1 \in 1..n /\ ~IsFlag(argv[i + 1]) /\ WantsText(line, i)
      BY <2>3, <2>4, <2>7 DEF Complete
    <3>2. gs.next = i + 2
      BY <2>2, <2>7 DEF Beyond
    <3>3. ~WantsText(line, i + 1) /\ ~Stray(line, i + 1)
      BY <2>3, <3>1 DEF WantsText, Stray
    <3>4. gs.flags = {k \in 1..(i + 1) : IsFlag(argv[k])}
      BY <2>2, <2>3, <3>1 DEF HasRead
    <3>5. \A k \in 1..(i + 1) : ~Stray(line, k)
      BY <2>3, <2>5, <3>3 DEF HasRead
    <3> HIDE DEF gs
    <3>6. HasRead(gs, valued, bools, line)
      BY <2>2, <2>3, <2>6, <3>2, <3>3, <3>4, <3>5 DEF HasRead
    <3> QED
      BY <2>3, <3>2, <3>6 DEF gs
  <2>8. CASE ~TakesNext(bools, argv, i)
    <3>1. gs.next = i + 1
      BY <2>2, <2>8 DEF Beyond
    <3>2. gs.flags = {k \in 1..i : IsFlag(argv[k])}
      BY <2>2, <2>3 DEF HasRead
    <3>3. \A k \in 1..i : ~Stray(line, k)
      BY <2>3, <2>5 DEF HasRead
    <3> HIDE DEF gs
    <3>4. HasRead(gs, valued, bools, line)
      BY <2>2, <2>3, <2>4, <2>6, <2>8, <3>1, <3>2, <3>3 DEF HasRead
    <3> QED
      BY <2>3, <3>1, <3>4 DEF gs
  <2> QED
    BY <2>7, <2>8
<1>3. CASE ~(~fs.ok \/ i > n \/ ~IsFlag(argv[i])) /\ ~CanSet(valued, bools, argv, i)
  <2>1. gs = [ok |-> FALSE, next |-> i, flags |-> fs.flags]
    BY <1>3 DEF parseOne
  <2> QED
    BY <2>1
<1> QED
  BY <1>1, <1>2, <1>3

(* A round fails on a flag that is not known, or does not take its text.   *)
LEMMA OneRoundAccepts ==
  ASSUME NEW valued, NEW bools, NEW line, Len(line.argv) \in Nat,
         FlagsOf(line, valued, bools), Complete(line),
         NEW fs, RoundOK(fs, Len(line.argv)), fs.ok = TRUE,
         \A i \in 1..Len(line.argv) : IsFlag(line.argv[i]) =>
           /\ line.argv[i].flag \in valued \cup bools
           /\ Settable(line.argv[i].flag, ValueAt(bools, line.argv, i))
  PROVE  parseOne(valued, bools, line.argv, fs).ok = TRUE
<1> DEFINE gs   == parseOne(valued, bools, line.argv, fs)
           i    == fs.next
           argv == line.argv
           n    == Len(argv)
<1>1. CASE i > n \/ ~IsFlag(argv[i])
  BY <1>1 DEF parseOne
<1>2. CASE ~(i > n \/ ~IsFlag(argv[i]))
  <2>1. /\ i \in 1..n /\ IsFlag(argv[i])
        /\ argv[i].flag \in valued \cup bools
        /\ Settable(argv[i].flag, ValueAt(bools, argv, i))
    BY <1>2 DEF RoundOK
  <2>2. TakesNext(bools, argv, i) => i < n
    BY <2>1, TakesWhatIsWanted DEF Complete
  <2>3. CanSet(valued, bools, argv, i)
    BY <2>1, <2>2 DEF CanSet, Beyond
  <2> QED
    BY <1>2, <2>3 DEF parseOne
<1> QED
  BY <1>1, <1>2

LEMMA RoundsOK ==
  ASSUME NEW valued, NEW bools, NEW argv, Len(argv) \in Nat
  PROVE  \A k \in Nat : RoundOK(ParseRounds(valued, bools, argv)[k], Len(argv))
<1> DEFINE round == ParseRounds(valued, bools, argv)
           S     == {k \in Nat : RoundOK(round[k], Len(argv))}
<1>1. /\ round[0] = [ok |-> TRUE, next |-> 1, flags |-> {}]
      /\ \A k \in Nat : round[k + 1] = parseOne(valued, bools, argv, round[k])
  BY ParseUnfolds
<1> HIDE DEF round
<1>2. 0 \in S
  <2>1. round[0].next = 1 /\ round[0].flags = {}
    BY <1>1
  <2> QED
    BY <2>1 DEF RoundOK
<1>3. ASSUME NEW k \in Nat, k \in S
      PROVE  k + 1 \in S
  BY <1>1, <1>3, OneRound
<1> HIDE DEF S
<1>4. Nat \subseteq S
  BY <1>2, <1>3, ParseRec!SetInduction
<1> QED
  BY <1>4 DEF S, round

(* Where the loop of Parse ends.                                           *)
Stopped(fs, argv) == fs.next = Len(argv) + 1 \/ ~IsFlag(argv[fs.next])

LEMMA StoppedStays ==
  ASSUME NEW valued, NEW bools, NEW argv, Len(argv) \in Nat, NEW fs,
         RoundOK(fs, Len(argv)), Stopped(fs, argv) \/ ~fs.ok
  PROVE  parseOne(valued, bools, argv, fs) = fs
<1>1. ~fs.ok \/ fs.next > Len(argv) \/ ~IsFlag(argv[fs.next])
  BY DEF Stopped, RoundOK
<1> QED
  BY <1>1 DEF parseOne

(* What a parser without an error has read: up to the first stray word.    *)
LEMMA ParserReads ==
  ASSUME NEW valued, NEW bools, NEW line, Len(line.argv) \in Nat,
         FlagsOf(line, valued, bools), Complete(line),
         NEW fs, fs = ParseRounds(valued, bools, line.argv)[Len(line.argv)], fs.ok
  PROVE  /\ fs.flags = {i \in 1..Len(line.argv) : /\ IsFlag(line.argv[i])
                                                  /\ \A j \in 1..i : ~Stray(line, j)}
         /\ \A i \in fs.flags : CanSet(valued, bools, line.argv, i)
<1> DEFINE argv  == line.argv
           n     == Len(argv)
           round == ParseRounds(valued, bools, argv)
           S     == {k \in Nat : round[k].ok =>
                       /\ HasRead(round[k], valued, bools, line)
                       /\ Stopped(round[k], argv) \/ round[k].next >= k + 1}
<1>1. /\ round[0] = [ok |-> TRUE, next |-> 1, flags |-> {}]
      /\ \A k \in Nat : round[k + 1] = parseOne(valued, bools, argv, round[k])
  BY ParseUnfolds
<1>2. \A k \in Nat : RoundOK(round[k], n)
  BY RoundsOK
<1> HIDE DEF round
<1>3. 0 \in S
  <2>1. round[0].next = 1 /\ round[0].flags = {}
    BY <1>1
  <2>2. HasRead(round[0], valued, bools, line)
    BY <2>1 DEF HasRead
  <2> QED
    BY <2>1, <2>2
<1>4. ASSUME NEW k \in Nat, k \in S
      PROVE  k + 1 \in S
  <2> DEFINE gs == round[k + 1]
  <2>1. gs = parseOne(valued, bools, argv, round[k]) /\ RoundOK(round[k], n) /\ RoundOK(gs, n)
    <3>1. k + 1 \in Nat
      OBVIOUS
    <3>2. round[k + 1] = parseOne(valued, bools, argv, round[k])
      BY <1>1
    <3> QED
      BY <1>2, <3>1, <3>2
  <2> HIDE DEF gs
  <2> SUFFICES ASSUME gs.ok
               PROVE  /\ HasRead(gs, valued, bools, line)
                      /\ Stopped(gs, argv) \/ gs.next >= (k + 1) + 1
    BY DEF gs
  <2>2. round[k].ok
    BY <2>1, StoppedStays
  <2>3. /\ HasRead(round[k], valued, bools, line)
        /\ Stopped(round[k], argv) \/ round[k].next >= k + 1
    BY <1>4, <2>2
  <2>4. CASE Stopped(round[k], argv)
    BY <2>1, <2>3, <2>4, StoppedStays
  <2>5. CASE ~Stopped(round[k], argv)
    <3>1. HasRead(gs, valued, bools, line) /\ gs.next > round[k].next
      BY <2>1, <2>3, <2>5, OneRoundReads DEF Stopped
    <3> QED
      BY <2>1, <2>3, <2>5, <3>1 DEF RoundOK
  <2> QED
    BY <2>4, <2>5
<1> HIDE DEF S
<1>5. Nat \subseteq S
  BY <1>3, <1>4, ParseRec!SetInduction
<1>6. /\ HasRead(fs, valued, bools, line)
      /\ Stopped(fs, argv) \/ fs.next >= n + 1
      /\ RoundOK(fs, n)
  BY <1>2, <1>5 DEF S, round
<1>7. fs.next = n + 1 \/ (fs.next \in 1..n /\ Stray(line, fs.next))
  <2>1. fs.next \in 1..(n + 1)
    BY <1>6 DEF RoundOK
  <2>2. fs.next = n + 1 \/ ~IsFlag(argv[fs.next])
    BY <1>6, <2>1 DEF Stopped
  <2>3. ~IsFlag(argv[fs.next]) => Stray(line, fs.next)
    BY <1>6 DEF HasRead, Stray
  <2> QED
    BY <2>1, <2>2, <2>3
<1>8. fs.flags = {i \in 1..n : IsFlag(argv[i]) /\ \A j \in 1..i : ~Stray(line, j)}
  <2>1. /\ fs.flags = {i \in 1..(fs.next - 1) : IsFlag(argv[i])}
        /\ \A j \in 1..(fs.next - 1) : ~Stray(line, j)
    BY <1>6 DEF HasRead
  <2>2. ASSUME NEW i \in 1..(fs.next - 1)
        PROVE  i \in 1..n /\ \A j \in 1..i : ~Stray(line, j)
    BY <1>7, <2>1
  <2>3. ASSUME NEW i \in 1..n, \A j \in 1..i : ~Stray(line, j)
        PROVE  i \in 1..(fs.next - 1)
    BY <1>7, <2>3
  <2> QED
    BY <2>1, <2>2, <2>3
<1> QED
  BY <1>6, <1>8 DEF HasRead

LEMMA ParserAccepts ==
  ASSUME NEW valued, NEW bools, NEW line, Len(line.argv) \in Nat,
         FlagsOf(line, valued, bools), Complete(line),
         \A i \in 1..Len(line.argv) : IsFlag(line.argv[i]) =>
           /\ line.argv[i].flag \in valued \cup bools
           /\ Settable(line.argv[i].flag, ValueAt(bools, line.argv, i))
  PROVE  Parse(valued, bools, line.argv).ok = TRUE
<1> DEFINE round == ParseRounds(valued, bools, line.argv)
           S     == {k \in Nat : round[k].ok = TRUE}
<1>1. /\ round[0] = [ok |-> TRUE, next |-> 1, flags |-> {}]
      /\ \A k \in Nat : round[k + 1] = parseOne(valued, bools, line.argv, round[k])
  BY ParseUnfolds
<1>2. \A k \in Nat : RoundOK(round[k], Len(line.argv))
  BY RoundsOK
<1> HIDE DEF round
<1>3. 0 \in S
  BY <1>1
<1>4. ASSUME NEW k \in Nat, k \in S
      PROVE  k + 1 \in S
  <2>1. round[k].ok = TRUE /\ RoundOK(round[k], Len(line.argv))
    BY <1>2, <1>4
  <2>2. round[k + 1].ok = TRUE
    BY <1>1, <2>1, OneRoundAccepts
  <2> QED
    BY <2>2
<1> HIDE DEF S
<1>5. Nat \subseteq S
  BY <1>3, <1>4, ParseRec!SetInduction
<1> QED
  BY <1>5 DEF S, round, Parse

-----------------------------------------------------------------------------
(* The texts of a flag.                                                    *)

LEMMA SomePositions ==
  ASSUME NEW n \in Nat, NEW D, D \subseteq 1..n
  PROVE  /\ IsFiniteSet(D) /\ Cardinality(D) \in Nat
         /\ Cardinality(D) = 0 <=> D = {}
<1>1. IsFiniteSet(1..n)
  BY FS_Interval
<1>2. IsFiniteSet(D)
  BY <1>1, FS_Subset
<1> QED
  BY <1>2, FS_CardinalityType, FS_EmptySet

LEMMA LastPosition ==
  ASSUME NEW n \in Nat, NEW D, D \subseteq 1..n, D # {}
  PROVE  \E i \in D : \A j \in D : j <= i
<1> DEFINE T == {m \in Nat : \A j \in D : j <= m}
<1>1. n \in T
  OBVIOUS
<1>2. PICK m \in T : \A k \in T : m <= k
  <2> HIDE DEF T
  <2>1. T \subseteq Nat
    BY DEF T
  <2> QED
    BY <1>1, <2>1, ParseRec!LeastElement
<1>3. m \in Nat /\ \A j \in D : j <= m
  OBVIOUS
<1>4. ASSUME m \notin D
      PROVE  FALSE
  <2>1. \A j \in D : j \in Nat /\ j <= m - 1
    BY <1>3, <1>4
  <2>2. m - 1 \in Nat
    <3>1. PICK j \in D : TRUE
      OBVIOUS
    <3>2. j \in 1..n /\ j <= m
      BY <1>3
    <3> QED
      BY <1>3, <3>2
  <2>3. m - 1 \in T
    BY <2>1, <2>2
  <2> QED
    BY <1>2, <1>3, <2>3
<1> QED
  BY <1>3, <1>4

LEMMA InOrderFacts ==
  ASSUME NEW n \in Nat, NEW f, DOMAIN f \subseteq 1..n
  PROVE  /\ IsSeq(InOrder(f))
         /\ Len(InOrder(f)) = Cardinality(DOMAIN f)
         /\ InOrder(f) # <<>> => \E i \in DOMAIN f : Last(InOrder(f)) = f[i]
<1> DEFINE c == Cardinality(DOMAIN f)
           at(k) == CHOOSE i \in DOMAIN f : Cardinality({j \in DOMAIN f : j <= i}) = k
<1>1. c \in Nat /\ (c = 0 <=> DOMAIN f = {})
  BY SomePositions
<1>2. InOrder(f) = [k \in 1..c |-> f[at(k)]]
  BY DEF InOrder
<1> HIDE DEF c, at
<1>3. IsSeq(InOrder(f)) /\ Len(InOrder(f)) = c
  BY <1>1, <1>2 DEF IsSeq
<1>4. ASSUME InOrder(f) # <<>>
      PROVE  \E i \in DOMAIN f : Last(InOrder(f)) = f[i]
  <2>1. c \in Nat \ {0} /\ DOMAIN f # {}
    <3>1. Len(InOrder(f)) # 0
      BY <1>3, <1>4, EmptySeq
    <3> QED
      BY <1>1, <1>3, <3>1
  <2>2. PICK i \in DOMAIN f : \A j \in DOMAIN f : j <= i
    BY <2>1, LastPosition
  <2>3. Cardinality({j \in DOMAIN f : j <= i}) = c
    <3>1. {j \in DOMAIN f : j <= i} = DOMAIN f
      BY <2>2
    <3> QED
      BY <3>1 DEF c
  <2>4. at(c) \in DOMAIN f
    BY <2>3 DEF at
  <2>5. Last(InOrder(f)) = f[at(c)]
    BY <1>2, <1>3, <2>1 DEF Last
  <2> QED
    BY <2>4, <2>5
<1> QED
  BY <1>3, <1>4 DEF c

(* Whatever was typed, a repeatable flag has a list of texts.              *)
LEMMA TextsAreList ==
  ASSUME NEW valued, NEW bools, NEW argv, Len(argv) \in Nat, NEW name
  PROVE  IsSeq(Texts(Parse(valued, bools, argv), name))
<1> DEFINE fs     == ParseRounds(valued, bools, argv)[Len(argv)]
           parsed == Parse(valued, bools, argv)
<1>1. RoundOK(fs, Len(argv))
  BY RoundsOK
<1>2. DOMAIN parsed.set = fs.flags
  BY DEF Parse
<1>3. fs.flags \subseteq 1..Len(argv)
  <2> HIDE DEF fs
  <2> QED
    BY <1>1 DEF RoundOK
<1> HIDE DEF fs, parsed
<1>4. DOMAIN ValuesOf(parsed, name) \subseteq 1..Len(argv)
  BY <1>2, <1>3 DEF ValuesOf
<1> QED
  BY <1>4, InOrderFacts DEF Texts, parsed

(* No word that is not a flag has this name.                               *)
NamesFlag(name) == \A word : word.flag = name => IsFlag(word)

(* A parser without an error has what the user meant by the line.          *)
LEMMA TextsAreTyped ==
  ASSUME NEW valued, NEW bools, NEW line, Len(line.argv) \in Nat,
         FlagsOf(line, valued, bools), Complete(line),
         Parse(valued, bools, line.argv).ok, NEW name \in valued, NamesFlag(name)
  PROVE  LET parsed == Parse(valued, bools, line.argv)
         IN  /\ Texts(parsed, name) = Typed(line, name)
             /\ Text(parsed, name, "") = LastTyped(line, name)
             /\ Texts(parsed, name) # <<>> => Settable(name, LastTyped(line, name))
<1> DEFINE argv   == line.argv
           fs     == ParseRounds(valued, bools, argv)[Len(argv)]
           parsed == Parse(valued, bools, argv)
           text(i) == IF argv[i].attached THEN argv[i].text ELSE argv[i + 1].text
<1>1. /\ parsed.ok = fs.ok
      /\ parsed.set = [i \in fs.flags |-> [name |-> argv[i].flag,
                                           text |-> ValueAt(bools, argv, i)]]
  BY DEF Parse
<1>2. fs.ok
  BY <1>1
<1> HIDE DEF fs, parsed
<1>3. /\ fs.flags = {i \in 1..Len(argv) : /\ IsFlag(argv[i])
                                          /\ \A j \in 1..i : ~Stray(line, j)}
      /\ \A i \in fs.flags : CanSet(valued, bools, argv, i)
  BY <1>2, ParserReads DEF fs
<1>4. {i \in fs.flags : argv[i].flag = name} = TypedAt(line, name)
  BY <1>3 DEF TypedAt, NamesFlag
<1>5. {i \in DOMAIN parsed.set : parsed.set[i].name = name} = TypedAt(line, name)
  BY <1>1, <1>4
<1>6. ASSUME NEW i \in TypedAt(line, name)
      PROVE  /\ parsed.set[i].text = text(i)
             /\ Settable(name, text(i))
  <2>1. i \in fs.flags /\ argv[i].flag = name /\ CanSet(valued, bools, argv, i)
    BY <1>3, <1>4
  <2>2. argv[i].flag \notin bools
    BY <2>1 DEF FlagsOf
  <2>3. ValueAt(bools, argv, i) = text(i)
    BY <2>2 DEF ValueAt
  <2> QED
    BY <1>1, <2>1, <2>3 DEF CanSet
<1> HIDE DEF text
<1>7. ValuesOf(parsed, name) = [i \in TypedAt(line, name) |-> text(i)]
  BY <1>5, <1>6 DEF ValuesOf
<1>8. Typed(line, name) = InOrder([i \in TypedAt(line, name) |-> text(i)])
  BY DEF Typed, text
<1>9. Texts(parsed, name) = Typed(line, name)
  BY <1>7, <1>8 DEF Texts
<1>10. Text(parsed, name, "") = LastTyped(line, name)
  BY <1>9 DEF Text, LastTyped
<1>11. ASSUME Texts(parsed, name) # <<>>
       PROVE  Settable(name, LastTyped(line, name))
  <2>1. TypedAt(line, name) \subseteq 1..Len(argv)
    BY DEF TypedAt
  <2>2. \E i \in TypedAt(line, name) : Last(Typed(line, name)) = text(i)
    <3> DEFINE f == [i \in TypedAt(line, name) |-> text(i)]
    <3>1. DOMAIN f = TypedAt(line, name) /\ \A i \in TypedAt(line, name) : f[i] = text(i)
      OBVIOUS
    <3> HIDE DEF f
    <3>2. \E i \in DOMAIN f : Last(InOrder(f)) = f[i]
      BY <1>8, <1>9, <1>11, <2>1, <3>1, InOrderFacts DEF f
    <3> QED
      BY <1>8, <3>1, <3>2 DEF f
  <2>3. LastTyped(line, name) = Last(Typed(line, name))
    BY <1>9, <1>11 DEF LastTyped
  <2> QED
    BY <1>6, <2>2, <2>3
<1> QED
  BY <1>9, <1>10, <1>11 DEF parsed

-----------------------------------------------------------------------------
(* The disk.                                                               *)

ContentOK(receipts, content) ==
  /\ content = Content(content.as, content.data)
  /\ content.as \in {"receipt", "claim", "inclusion", "chain"}
  /\ content.as = "receipt" => content.data \in receipts
  /\ content.as = "claim" => \E r \in receipts : content.data = PublicClaim(r)
  /\ content.as = "inclusion" => Len(content.data.siblings) \in Nat
  /\ content.as = "chain" =>
       /\ Len(content.data.inclusions) \in Nat
       /\ \A k \in 1..Len(content.data.inclusions) :
            Len(content.data.inclusions[k].siblings) \in Nat

FileOK(receipts, file) ==
  file = Empty \/ \E content : ContentOK(receipts, content) /\ file = Full(content)

DiskOK(receipts, disk) == \A path \in DOMAIN disk : FileOK(receipts, disk[path])

LEMMA DiskGrows ==
  ASSUME NEW A, NEW B, A \subseteq B, NEW disk, DiskOK(A, disk)
  PROVE  DiskOK(B, disk)
<1>1. ASSUME NEW content, ContentOK(A, content)
      PROVE  ContentOK(B, content)
  BY <1>1 DEF ContentOK
<1> QED
  BY <1>1 DEF DiskOK, FileOK

LEMMA PutFacts ==
  ASSUME NEW disk, NEW path, NEW file
  PROVE  /\ DOMAIN Put(disk, path, file) = DOMAIN disk \cup {path}
         /\ Put(disk, path, file)[path] = file
         /\ \A p \in DOMAIN disk : p # path => Put(disk, path, file)[p] = disk[p]
BY DEF Put

LEMMA PutOK ==
  ASSUME NEW receipts, NEW disk, DiskOK(receipts, disk), NEW path, NEW file,
         FileOK(receipts, file)
  PROVE  DiskOK(receipts, Put(disk, path, file))
<1> DEFINE after == Put(disk, path, file)
<1>1. /\ DOMAIN after = DOMAIN disk \cup {path} /\ after[path] = file
      /\ \A p \in DOMAIN disk : p # path => after[p] = disk[p]
  BY DEF Put
<1> HIDE DEF after
<1>2. ASSUME NEW p \in DOMAIN after
      PROVE  FileOK(receipts, after[p])
  <2>1. CASE p = path
    BY <1>1, <2>1
  <2>2. CASE p # path
    BY <1>1, <2>2 DEF DiskOK
  <2> QED
    BY <2>1, <2>2
<1>3. DiskOK(receipts, after)
  BY <1>2 DEF DiskOK
<1> QED
  BY <1>3 DEF after

WriteStart(w)         == w.disk
WriteStep(w, k, disk) == Put(disk, w.puts[k].path, Full(w.puts[k].content))

WriteRec == INSTANCE NatRecursion WITH Base <- WriteStart, Step <- WriteStep

LEMMA WrittenUnfolds ==
  ASSUME NEW puts
  PROVE  /\ Written(puts, 0) = files
         /\ \A k \in Nat : Written(puts, k + 1) =
              Put(Written(puts, k), puts[k + 1].path, Full(puts[k + 1].content))
<1> DEFINE w == [disk |-> files, puts |-> puts]
<1>1. \A k \in Nat : Written(puts, k) = WriteRec!Rec(w)[k]
  BY DEF Written, WriteRec!Rec, WriteStart, WriteStep
<1>2. /\ WriteRec!Rec(w)[0] = WriteStart(w)
      /\ \A k \in Nat : WriteRec!Rec(w)[k + 1] = WriteStep(w, k + 1, WriteRec!Rec(w)[k])
  BY WriteRec!RecUnfolds
<1>3. WriteStart(w) = files
  BY DEF WriteStart
<1>4. \A k \in Nat : \A disk : WriteStep(w, k + 1, disk) =
        Put(disk, puts[k + 1].path, Full(puts[k + 1].content))
  BY DEF WriteStep
<1> HIDE DEF w
<1>5. 0 \in Nat /\ \A k \in Nat : k + 1 \in Nat
  OBVIOUS
<1> QED
  BY <1>1, <1>2, <1>3, <1>4, <1>5

(* One write, or two.                                                      *)
LEMMA WrittenIs ==
  ASSUME NEW puts
  PROVE  /\ Written(puts, 0) = files
         /\ Written(puts, 1) = Put(files, puts[1].path, Full(puts[1].content))
         /\ Written(puts, 2) = Put(Written(puts, 1), puts[2].path, Full(puts[2].content))
<1>1. 0 \in Nat /\ 1 \in Nat /\ 0 + 1 = 1 /\ 1 + 1 = 2
  OBVIOUS
<1>2. Written(puts, 0 + 1) = Put(files, puts[0 + 1].path, Full(puts[0 + 1].content))
  BY <1>1, WrittenUnfolds
<1>3. Written(puts, 1 + 1) = Put(Written(puts, 1), puts[1 + 1].path, Full(puts[1 + 1].content))
  BY <1>1, WrittenUnfolds
<1> QED
  BY <1>1, <1>2, <1>3, WrittenUnfolds

CountersOK == writes \in 0..MaxWrites /\ faults \in 0..MaxFaults

(* A command that writes, whether or not it gets to the end of it.         *)
LEMMA WriteFacts ==
  ASSUME NEW receipts, DiskOK(receipts, files), CountersOK,
         NEW puts, Len(puts) \in {1, 2},
         \A i \in 1..Len(puts) : ContentOK(receipts, puts[i].content),
         NEW line, WriteFiles(line, puts)
  PROVE  /\ DiskOK(receipts, files')
         /\ CountersOK'
         /\ last'.line = line /\ last'.exit \in {0, 1} /\ last'.report = NoReport
         /\ last'.exit = 0 => files' = Written(puts, Len(puts))
         /\ faults' = faults => last'.exit = 0
<1>1. FileOK(receipts, Empty)
  BY DEF FileOK
<1>2. \A i \in 1..Len(puts) : FileOK(receipts, Full(puts[i].content))
  BY DEF FileOK
<1>3. \A k \in 0..Len(puts) : DiskOK(receipts, Written(puts, k))
  <2>1. DiskOK(receipts, Written(puts, 0))
    BY WrittenIs
  <2>2. DiskOK(receipts, Written(puts, 1))
    BY <1>2, WrittenIs, PutOK
  <2>3. Len(puts) = 2 => DiskOK(receipts, Written(puts, 2))
    BY <1>2, <2>2, WrittenIs, PutOK
  <2> QED
    BY <2>1, <2>2, <2>3
<1>4. MaxWrites \in Nat /\ MaxFaults \in Nat
  BY BoundsAssumption
<1>5. writes' \in 0..MaxWrites
  BY <1>4 DEF WriteFiles, CountersOK
<1>6. CASE files' = Written(puts, Len(puts)) /\ Exit(line, 0, NoReport) /\ UNCHANGED faults
  <2>1. last'.line = line /\ last'.exit = 0 /\ last'.report = NoReport
    BY <1>6 DEF Exit
  <2> QED
    BY <1>3, <1>5, <1>6, <2>1 DEF CountersOK
<1>7. CASE /\ faults < MaxFaults
           /\ \E k \in 0..(Len(puts) - 1) :
                \/ files' = Written(puts, k)
                \/ files' = Put(Written(puts, k), puts[k + 1].path, Empty)
           /\ Exit(line, 1, NoReport)
           /\ faults' = faults + 1
  <2>1. last'.line = line /\ last'.exit = 1 /\ last'.report = NoReport
    BY <1>7 DEF Exit
  <2>2. faults' \in 0..MaxFaults /\ faults' # faults
    BY <1>4, <1>7 DEF CountersOK
  <2>3. DiskOK(receipts, files')
    BY <1>1, <1>3, <1>7, PutOK
  <2> QED
    BY <1>5, <2>1, <2>2, <2>3 DEF CountersOK
<1> QED
  BY <1>6, <1>7 DEF WriteFiles

-----------------------------------------------------------------------------
(* A leaf guest's run.                                                     *)

LEMMA TextIsPath == \A text : IsPathText(PathText(text))
<1> SUFFICES ASSUME NEW text
             PROVE  IsPathText(PathText(text))
  OBVIOUS
<1> DEFINE Step == [digits : Nat, hardened : BOOLEAN]
<1>1. IsPathText(NoPath)
  <2>1. <<>> \in Seq(Step)
    OBVIOUS
  <2> QED
    BY <2>1 DEF IsPathText, NoPath
<1>2. IsPathText(NotAPath)
  <2>1. 2 * HardenedKeyStart \in Nat
    BY IndicesAssumption
  <2>2. [digits |-> 2 * HardenedKeyStart, hardened |-> FALSE] \in Step
    BY <2>1
  <2>3. <<[digits |-> 2 * HardenedKeyStart, hardened |-> FALSE]>> \in Seq(Step)
    <3> HIDE DEF Step
    <3> QED
      BY <2>2
  <2> QED
    BY <2>3 DEF IsPathText, NotAPath
<1> QED
  BY <1>1, <1>2, TextsAssumption DEF PathText

LEMMA ProveArgs ==
  ASSUME NEW lane \in Lanes, NEW argv
  PROVE  LET parsed == Parse(WitnessFlags(lane) \cup ProofFlags, WitnessBools(lane), argv)
             args   == ParsedProve(lane, argv)
         IN  /\ args.ok = parsed.ok
             /\ args.witness = WitnessConfig(lane, parsed)
             /\ args.receiptKind = Text(parsed, "receipt-kind", "composite")
             /\ args.receiptOut = Text(parsed, "receipt-out", "")
             /\ args.claimOut = Text(parsed, "claim-out", "")
<1>1. ParsedProve(lane, argv) = ParseProve(lane, argv)
  BY DEF ParsedProve, Lanes, parseProveArgs, parseProveHardenedXPrivArgs,
     parseProveHardenedXPubArgs
<1>2. LET parsed == Parse(WitnessFlags(lane) \cup ProofFlags, WitnessBools(lane), argv)
          args   == ParseProve(lane, argv)
      IN  /\ args.ok = parsed.ok
          /\ args.witness = WitnessConfig(lane, parsed)
          /\ args.receiptKind = Text(parsed, "receipt-kind", "composite")
          /\ args.receiptOut = Text(parsed, "receipt-out", "")
          /\ args.claimOut = Text(parsed, "claim-out", "")
  BY DEF ParseProve
<1> QED
  BY <1>1, <1>2

(* What the line gives to resolveWitness.                                  *)
WitnessOK(lane, w) ==
  lane = "taproot" =>
    /\ IsPathText(w.path)
    /\ w.testVector \in BOOLEAN
    /\ w.requireBIP86 \in BOOLEAN

LEMMA ProveWitness ==
  ASSUME NEW lane \in Lanes, NEW argv
  PROVE  WitnessOK(lane, ParsedProve(lane, argv).witness)
<1> DEFINE parsed == Parse(WitnessFlags(lane) \cup ProofFlags, WitnessBools(lane), argv)
<1>1. ParsedProve(lane, argv).witness = WitnessConfig(lane, parsed)
  BY ProveArgs
<1> HIDE DEF parsed
<1>2. \A name, default : Bool(parsed, name, default) \in BOOLEAN
  BY DEF Bool
<1>3. CASE lane = "taproot"
  <2> DEFINE w == witnessConfigFromArgs(parsed)
  <2>1. WitnessConfig(lane, parsed) = w
    BY <1>3 DEF WitnessConfig
  <2>2. /\ w.path = PathText(Text(parsed, "path", ""))
        /\ w.testVector = Bool(parsed, "use-test-vector", FALSE)
        /\ w.requireBIP86 = Bool(parsed, "require-bip86", TRUE)
    BY DEF witnessConfigFromArgs
  <2> HIDE DEF w
  <2>3. WitnessOK(lane, w)
    BY <1>2, <2>2, TextIsPath DEF WitnessOK
  <2> QED
    BY <1>1, <2>1, <2>3
<1> QED
  BY <1>3 DEF WitnessOK

LEMMA LeafRecordFacts ==
  ASSUME NEW lane \in Lanes, NEW stdin
  PROVE  LET record == LeafRecord(lane, stdin)
         IN  /\ record.body = LeafGuestJournal(lane, stdin).claim
             /\ record.type = IF lane = "xpub" THEN "xpub" ELSE "leaf"
             /\ lane # "xpub" => record = LeafJournal(record.body)
             /\ JournalOf(record) = LeafGuestJournal(lane, stdin)
<1> DEFINE record == LeafRecord(lane, stdin)
<1>1. /\ record.body = LeafGuestJournal(lane, stdin).claim
      /\ record.type = IF lane = "xpub" THEN "xpub" ELSE "leaf"
      /\ lane # "xpub" => record = LeafJournal(record.body)
  BY DEF LeafRecord, LeafJournal
<1> HIDE DEF record
<1>2. RecordSize(record) = LeafGuestJournal(lane, stdin).size
  <2>1. CASE lane = "taproot"
    BY <1>1, <2>1 DEF RecordSize, LeafGuestJournal, Journal, PublicClaimSize
  <2>2. CASE lane = "xpriv"
    BY <1>1, <2>2 DEF RecordSize, LeafGuestJournal, Journal, HardenedXPrivClaimSize
  <2>3. CASE lane = "xpub"
    BY <1>1, <2>3 DEF RecordSize, LeafGuestJournal, Journal, HardenedXPubClaimSize
  <2> QED
    BY <2>1, <2>2, <2>3 DEF Lanes
<1>3. LeafGuestJournal(lane, stdin) = Journal(LeafGuestJournal(lane, stdin).size,
                                              LeafGuestJournal(lane, stdin).claim)
  BY DEF LeafGuestJournal, Journal, Lanes
<1>4. JournalOf(record) = LeafGuestJournal(lane, stdin)
  BY <1>1, <1>2, <1>3 DEF JournalOf
<1> QED
  BY <1>1, <1>4 DEF record

(* A witness that resolves and that the guest takes; the checks of Prove   *)
(* on the claim that comes out of it never fail.                           *)
LEMMA LeafRun ==
  ASSUME NEW lane \in Lanes, NEW w, WitnessOK(lane, w), LeafGuestRuns(lane, w)
  PROVE  /\ FromLeafGuest(lane, Stdin(lane, w))
         /\ LeafClaimAccepted(lane, w, LeafRecord(lane, Stdin(lane, w)).body)
<1> DEFINE stdin == Stdin(lane, w)
           claim == LeafGuestJournal(lane, stdin).claim
<1>1. Resolves(lane, w) /\ LeafGuestAccepts(lane, stdin)
  BY DEF LeafGuestRuns
<1>2. FromLeafGuest(lane, stdin)
  BY <1>1, StdinPath DEF FromLeafGuest, WitnessOK, Lanes, LaneNames
<1>3. LeafRecord(lane, stdin).body = claim
  BY LeafRecordFacts
<1>4. CASE lane = "taproot"
  <2>1. claim.version = ClaimVersion /\ (RequiresBIP86(claim.flags) <=> RequiresBIP86(stdin.flags))
    BY <1>4, TaprootClaim
  <2>2. stdin.flags = IF w.requireBIP86 THEN 1 ELSE 0
    BY <1>4 DEF Stdin, BuildWitnessStdin
  <2> HIDE DEF claim
  <2>3. w.requireBIP86 \in BOOLEAN
    BY <1>4 DEF WitnessOK
  <2>4. RequiresBIP86(stdin.flags) <=> w.requireBIP86
    BY <2>2, <2>3 DEF RequiresBIP86, ClaimFlagRequireBIP86
  <2>5. RequiresBIP86(claim.flags) = w.requireBIP86
    BY <2>1, <2>3, <2>4 DEF RequiresBIP86
  <2>6. LeafClaimAccepted(lane, w, claim)
    BY <2>1, <2>5 DEF LeafClaimAccepted
  <2> QED
    BY <1>2, <1>3, <2>6
<1>5. CASE lane = "xpriv"
  <2>1. claim = DeriveHardenedXPrivClaim(stdin)
    BY <1>5 DEF LeafGuestJournal, Journal
  <2>2. claim.version = ClaimVersion
    BY <2>1 DEF DeriveHardenedXPrivClaim
  <2> QED
    BY <1>2, <1>3, <1>5, <2>2 DEF LeafClaimAccepted
<1>6. CASE lane = "xpub"
  <2>1. claim = DeriveHardenedXPubClaim(stdin)
    BY <1>6 DEF LeafGuestJournal, Journal
  <2>2. claim.version = ClaimVersion
    BY <2>1 DEF DeriveHardenedXPubClaim
  <2> QED
    BY <1>2, <1>3, <1>6, <2>2 DEF LeafClaimAccepted
<1> QED
  BY <1>4, <1>5, <1>6 DEF Lanes

-----------------------------------------------------------------------------
(* The invariant of a session: whatever files a command was pointed to.    *)

LeafImagesOf == {"taproot", "xpriv"}

(* The receipts that a batch may take; the hardened-xpub lane has others.  *)
Batchable(receipts) == {r \in receipts : r.image # "xpub"}

(* Every leaf receipt was proved from a witness the guest took.            *)
WitnessOf(w) ==
  /\ FromLeafGuest(w.image, w.stdin)
  /\ w.journal = LeafRecord(w.image, w.stdin)

Witnessed(receipts, leaves) ==
  /\ \A w \in leaves : WitnessOf(w)
  /\ \A r \in receipts : r.image \in Lanes =>
       \E w \in leaves : w.image = r.image /\ w.journal = r.journal

ReceiptsOK(receipts) ==
  /\ Shaped(receipts)
  /\ \A r \in receipts : r.image \in Lanes \cup {BatchImage}

LastOK ==
  /\ last.exit \in {0, 1, 2}
  /\ last.report # NoReport => last.exit = 0

ProofsOK(receipts, batches, leaves) ==
  /\ Sound(Batchable(receipts), batches, LeafImagesOf, {}, BatchImage)
  /\ ReceiptsOK(receipts)
  /\ Witnessed(receipts, leaves)

SessionInv ==
  /\ ProofsOK(ledger, openings, witnesses)
  /\ DiskOK(ledger, files)
  /\ CountersOK
  /\ LastOK

LEMMA ImagesDiffer ==
  /\ BatchImage = "batch" /\ BatchImage \notin LeafImagesOf /\ BatchImage \notin Lanes
  /\ LeafImagesOf \subseteq Lanes /\ "xpub" \in Lanes /\ "xpub" \notin LeafImagesOf
  /\ Lanes = LaneNames
BY DEF BatchImage, LeafImagesOf, Lanes, LaneNames

(* One more receipt, of a leaf.                                            *)
LEMMA LeafIsProved ==
  ASSUME NEW receipts, NEW batches, NEW leaves, ProofsOK(receipts, batches, leaves),
         NEW lane \in Lanes, NEW stdin, FromLeafGuest(lane, stdin),
         NEW kind \in {"composite", "succinct"},
         NEW r, r = [image |-> lane, journal |-> LeafRecord(lane, stdin), kind |-> kind],
         NEW w, w = [image |-> lane, journal |-> LeafRecord(lane, stdin), stdin |-> stdin]
  PROVE  ProofsOK(receipts \cup {r}, batches, leaves \cup {w})
<1>1. /\ r.image = lane /\ r.journal = LeafRecord(lane, stdin) /\ r.kind = kind
      /\ r = [image |-> r.image, journal |-> r.journal, kind |-> r.kind]
  OBVIOUS
<1>2. w.image = lane /\ w.journal = LeafRecord(lane, stdin) /\ w.stdin = stdin
  OBVIOUS
<1>3. ReceiptsOK(receipts \cup {r})
  BY <1>1 DEF ProofsOK, ReceiptsOK, Shaped
<1>4. Witnessed(receipts \cup {r}, leaves \cup {w})
  <2>1. WitnessOf(w)
    BY <1>2 DEF WitnessOf
  <2> QED
    BY <1>1, <1>2, <2>1 DEF ProofsOK, Witnessed
<1>5. Sound(Batchable(receipts \cup {r}), batches, LeafImagesOf, {}, BatchImage)
  <2>1. CASE lane = "xpub"
    <3>1. Batchable(receipts \cup {r}) = Batchable(receipts)
      BY <1>1, <2>1 DEF Batchable
    <3> QED
      BY <3>1 DEF ProofsOK
  <2>2. CASE lane # "xpub"
    <3>1. Batchable(receipts \cup {r}) = Batchable(receipts) \cup {r}
      BY <1>1, <2>2 DEF Batchable
    <3>2. r.image \in LeafImagesOf
      BY <1>1, <2>2 DEF Lanes, LeafImagesOf
    <3>3. r.journal.type = "leaf"
      BY <1>1, <2>2, LeafRecordFacts
    <3>4. r.kind \in {"composite", "succinct"} /\ BatchImage \notin LeafImagesOf
      BY <1>1, ImagesDiffer
    <3>5. Sound(Batchable(receipts), batches, LeafImagesOf, {}, BatchImage)
      BY DEF ProofsOK
    <3>6. Sound(Batchable(receipts) \cup {r}, batches, LeafImagesOf, {}, BatchImage)
      BY <3>2, <3>3, <3>4, <3>5, LeafRunIsSound
    <3> QED
      BY <3>1, <3>6
  <2> QED
    BY <2>1, <2>2
<1> QED
  BY <1>3, <1>4, <1>5 DEF ProofsOK

(* A receipt of a batch that the guest took.                               *)
LEMMA BatchIsProved ==
  ASSUME NEW receipts, NEW batches, NEW leaves, ProofsOK(receipts, batches, leaves),
         NEW kind, NEW context, NEW records, IsSeq(records),
         GuestAccepts(kind, context, records, Batchable(receipts)),
         NEW receiptKind \in {"composite", "succinct"},
         NEW o, o = [claim |-> GuestClaim(kind, context, records), records |-> records],
         NEW r, r = [image |-> BatchImage, journal |-> Encode(o.claim), kind |-> receiptKind]
  PROVE  ProofsOK(receipts \cup {r}, batches \cup {o}, leaves)
<1>1. /\ r.image = BatchImage /\ r.journal = Encode(o.claim) /\ r.kind = receiptKind
      /\ r = [image |-> r.image, journal |-> r.journal, kind |-> r.kind]
  OBVIOUS
<1>2. o.claim = GuestClaim(kind, context, records) /\ o.records = records
  OBVIOUS
<1>3. ReceiptsOK(receipts \cup {r})
  BY <1>1 DEF ProofsOK, ReceiptsOK, Shaped
<1>4. Witnessed(receipts \cup {r}, leaves)
  BY <1>1, ImagesDiffer DEF ProofsOK, Witnessed
<1>5. Batchable(receipts \cup {r}) = Batchable(receipts) \cup {r}
  BY <1>1 DEF Batchable, BatchImage
<1>6. Sound(Batchable(receipts) \cup {r}, batches \cup {o}, LeafImagesOf, {}, BatchImage)
  BY <1>1, <1>2, BatchRunIsSound, ImagesDiffer DEF ProofsOK
<1> QED
  BY <1>3, <1>4, <1>5, <1>6 DEF ProofsOK

-----------------------------------------------------------------------------
(* Reading.                                                                *)

LEMMA HeldContent ==
  ASSUME NEW receipts, DiskOK(receipts, files), NEW path, NEW as, Holds(path, as)
  PROVE  /\ ContentOK(receipts, File(path).data)
         /\ File(path) = Full(File(path).data)
         /\ File(path).data.as = as
<1>1. Readable(File(path)) /\ File(path).data.as = as
  BY DEF Holds
<1>2. ~Readable(Absent) /\ ~Readable(Empty)
  BY DEF Readable, Absent, Empty
<1>3. path \in DOMAIN files /\ File(path) = files[path]
  BY <1>1, <1>2 DEF File
<1>4. PICK content : ContentOK(receipts, content) /\ File(path) = Full(content)
  BY <1>1, <1>2, <1>3 DEF DiskOK, FileOK
<1>5. File(path).data = content
  BY <1>4 DEF Full
<1> QED
  BY <1>1, <1>4, <1>5

LEMMA HeldReceipt ==
  ASSUME NEW receipts, DiskOK(receipts, files), NEW path, Holds(path, "receipt")
  PROVE  DataIn(path) \in receipts
BY HeldContent DEF ContentOK, DataIn

LEMMA HeldClaim ==
  ASSUME NEW receipts, DiskOK(receipts, files), NEW path, Holds(path, "claim")
  PROVE  \E r \in receipts : DataIn(path) = PublicClaim(r)
BY HeldContent DEF ContentOK, DataIn

(* The inputs of a batch command are its flags, paired by position.        *)
LEMMA LeavesFacts ==
  ASSUME NEW valued, NEW bools, NEW argv, Len(argv) \in Nat
  PROVE  LET parsed == Parse(valued, bools, argv)
             leaves == parseBatchLeafInputs(parsed)
             claims == Texts(parsed, "leaf-claim")
         IN  /\ IsSeq(leaves.inputs)
             /\ leaves.ok =>
                  /\ parsed.ok
                  /\ Len(leaves.inputs) = Len(claims)
                  /\ \A i \in 1..Len(claims) :
                       /\ leaves.inputs[i].slot.claim = claims[i]
                       /\ leaves.inputs[i].slot.receipt = Texts(parsed, "leaf-receipt")[i]
                       /\ leaves.kind = LeafKindHeterogeneousEnvelopeV1 =>
                            leaves.inputs[i].directKind
                              = parseDirectLeafKind(Texts(parsed, "direct-leaf-kind")[i])
<1> DEFINE parsed == Parse(valued, bools, argv)
           leaves == parseBatchLeafInputs(parsed)
           claims == Texts(parsed, "leaf-claim")
           receipts == Texts(parsed, "leaf-receipt")
           directs == Texts(parsed, "direct-leaf-kind")
           kind == ParseBatchLeafKindName(Text(parsed, "leaf-kind", "hardened-xpriv"))
           isParent == kind = LeafKindHeterogeneousEnvelopeV1
           inputs == [i \in 1..Len(claims) |->
                        [slot       |-> [claim |-> claims[i], receipt |-> receipts[i]],
                         directKind |-> IF isParent THEN parseDirectLeafKind(directs[i])
                                                    ELSE 0]]
<1>1. IsSeq(claims)
  BY TextsAreList
<1>2. \/ /\ leaves = [ok |-> TRUE, kind |-> kind, inputs |-> inputs]
         /\ parsed.ok
      \/ leaves = NoInputs
  BY DEF parseBatchLeafInputs
<1>3. CASE leaves = NoInputs
  <2>1. leaves.ok = FALSE /\ leaves.inputs = <<>>
    BY <1>3 DEF NoInputs
  <2>2. IsSeq(<<>>)
    BY DEF IsSeq
  <2> QED
    BY <2>1, <2>2
<1>4. CASE leaves = [ok |-> TRUE, kind |-> kind, inputs |-> inputs] /\ parsed.ok
  <2>1. leaves.kind = kind /\ leaves.inputs = inputs
    BY <1>4
  <2> HIDE DEF leaves, claims, parsed, kind, receipts, directs
  <2>2. Len(claims) \in Nat
    BY <1>1 DEF IsSeq
  <2>3. IsSeq(inputs) /\ Len(inputs) = Len(claims)
    BY <2>2 DEF IsSeq
  <2>4. ASSUME NEW i \in 1..Len(claims)
        PROVE  /\ inputs[i].slot.claim = claims[i]
               /\ inputs[i].slot.receipt = receipts[i]
               /\ isParent => inputs[i].directKind = parseDirectLeafKind(directs[i])
    OBVIOUS
  <2> HIDE DEF inputs
  <2>5. /\ IsSeq(leaves.inputs) /\ parsed.ok
        /\ Len(leaves.inputs) = Len(claims)
        /\ \A i \in 1..Len(claims) :
             /\ leaves.inputs[i].slot.claim = claims[i]
             /\ leaves.inputs[i].slot.receipt = receipts[i]
             /\ leaves.kind = LeafKindHeterogeneousEnvelopeV1 =>
                  leaves.inputs[i].directKind = parseDirectLeafKind(directs[i])
    BY <1>4, <2>1, <2>3, <2>4
  <2> QED
    BY <2>5 DEF leaves, claims, parsed, receipts, directs
<1> QED
  BY <1>2, <1>3, <1>4

(* A leaf of the hardened-xpub lane has a size that no batch takes.        *)
LEMMA XPubSize ==
  ASSUME NEW receipts, NEW batches, NEW leaves, ProofsOK(receipts, batches, leaves),
         NEW r \in receipts, r.image = "xpub"
  PROVE  RecordSize(r.journal) = 73
<1>1. PICK w \in leaves : w.image = r.image /\ w.journal = r.journal
  BY ImagesDiffer DEF ProofsOK, Witnessed
<1>2. r.journal = LeafRecord("xpub", w.stdin)
  BY <1>1 DEF ProofsOK, Witnessed, WitnessOf
<1>3. r.journal.type = "xpub"
  BY <1>2, LeafRecordFacts, ImagesDiffer
<1> QED
  BY <1>3 DEF RecordSize

(* What loadBatchLeaves has read when it does not fail.                    *)
FromFiles(leaves, i) ==
  LET slot  == leaves.inputs[i].slot
      entry == Entries(leaves)[i]
  IN  /\ Holds(slot.claim, "claim")
      /\ Holds(slot.receipt, "receipt")
      /\ DataIn(slot.claim) = PublicClaim(DataIn(slot.receipt))
      /\ entry.receipt = DataIn(slot.receipt)
      /\ entry.receipt.kind = "succinct"
      /\ entry.record = DirectRecord(leaves.kind, leaves.inputs[i].directKind,
                                     DataIn(slot.claim))

LEMMA LoadedFromFiles ==
  ASSUME NEW leaves, IsSeq(leaves.inputs), Loads(leaves)
  PROVE  /\ Len(leaves.inputs) \in Nat \ {0}
         /\ IsSeq(Entries(leaves)) /\ Len(Entries(leaves)) = Len(leaves.inputs)
         /\ \A i \in 1..Len(leaves.inputs) : FromFiles(leaves, i)
         /\ \A i \in 1..Len(leaves.inputs) :
              LET slot   == leaves.inputs[i].slot
                  before == [k \in 1..(i - 1) |-> Entries(leaves)[k]]
              IN  ClaimAccepted(leaves.kind, leaves.inputs[i].directKind, before,
                                DataIn(slot.claim))
<1> DEFINE inputs  == leaves.inputs
           claims  == GenericClaims(inputs)
           proofs  == LeafReceiptFiles(inputs)
           entries == Entries(leaves)
<1>1. /\ inputs # <<>>
      /\ loadBatchLeaves(leaves.kind, inputs, claims, proofs)
  BY DEF Loads, loadBatchLeaves
<1>2. Len(inputs) \in Nat \ {0}
  BY <1>1, EmptySeq
<1>3. ASSUME NEW i \in 1..Len(inputs)
      PROVE  /\ claims[inputs[i].slot] = IF Holds(inputs[i].slot.claim, "claim")
                                         THEN Full(DataIn(inputs[i].slot.claim)) ELSE Absent
             /\ proofs[inputs[i].slot] = IF Holds(inputs[i].slot.receipt, "receipt")
                                         THEN Full(DataIn(inputs[i].slot.receipt)) ELSE Absent
  <2>1. i \in DOMAIN inputs
    BY DEF IsSeq
  <2>2. inputs[i].slot \in {k.slot : k \in Range(inputs)}
    BY <2>1 DEF Range
  <2> QED
    BY <2>2 DEF GenericClaims, LeafReceiptFiles
<1>4. /\ entries = LoadedLeaves(leaves.kind, inputs, claims, proofs)
      /\ entries = [i \in 1..Len(inputs) |->
           [record  |-> DirectRecord(leaves.kind, inputs[i].directKind,
                                     claims[inputs[i].slot].data),
            receipt |-> proofs[inputs[i].slot].data]]
  BY DEF Entries, LoadedLeaves
<1> HIDE DEF claims, proofs, entries
<1>5. IsSeq(entries) /\ Len(entries) = Len(inputs)
  BY <1>2, <1>4 DEF IsSeq
<1>6. ASSUME NEW i \in 1..Len(inputs)
      PROVE  /\ entries[i].record = DirectRecord(leaves.kind, inputs[i].directKind,
                                                 claims[inputs[i].slot].data)
             /\ entries[i].receipt = proofs[inputs[i].slot].data
  BY <1>4
<1>7. ASSUME NEW i \in 1..Len(inputs)
      PROVE  LoadedLeaves(leaves.kind, SubSeq(inputs, 1, i - 1), claims, proofs)
               = [k \in 1..(i - 1) |-> entries[k]]
  <2> DEFINE sub == SubSeq(inputs, 1, i - 1)
  <2>1. Len(sub) = i - 1 /\ \A k \in 1..(i - 1) : sub[k] = inputs[k]
    BY <1>2 DEF IsSeq
  <2> HIDE DEF sub
  <2>2. \A k \in 1..(i - 1) : k \in 1..Len(inputs)
    BY <1>2
  <2> QED
    BY <1>4, <2>1, <2>2 DEF LoadedLeaves, sub
<1>8. ASSUME NEW i \in 1..Len(inputs)
      PROVE  /\ Readable(claims[inputs[i].slot])
             /\ ClaimAccepted(leaves.kind, inputs[i].directKind,
                              [k \in 1..(i - 1) |-> entries[k]],
                              claims[inputs[i].slot].data)
             /\ ReceiptAccepted(proofs[inputs[i].slot], claims[inputs[i].slot].data)
  BY <1>1, <1>7 DEF loadBatchLeaves
<1>9. ~Readable(Absent) /\ \A data : Full(data).data = data
  BY DEF Readable, Absent, Full
<1>10. ASSUME NEW i \in 1..Len(inputs)
       PROVE  /\ FromFiles(leaves, i)
              /\ ClaimAccepted(leaves.kind, inputs[i].directKind,
                               [k \in 1..(i - 1) |-> entries[k]],
                               DataIn(inputs[i].slot.claim))
  <2> DEFINE slot == inputs[i].slot
  <2>1. Holds(slot.claim, "claim") /\ claims[slot].data = DataIn(slot.claim)
    BY <1>3, <1>8, <1>9
  <2>2. /\ Readable(proofs[slot])
        /\ PublicClaim(proofs[slot].data) = claims[slot].data
        /\ proofs[slot].data.kind = "succinct"
    BY <1>8 DEF ReceiptAccepted
  <2>3. Holds(slot.receipt, "receipt") /\ proofs[slot].data = DataIn(slot.receipt)
    BY <1>3, <1>9, <2>2
  <2> QED
    BY <1>6, <1>8, <2>1, <2>2, <2>3 DEF FromFiles, entries
<1> QED
  BY <1>2, <1>5, <1>10 DEF entries

LEMMA LoadedLeavesOK ==
  ASSUME ProofsOK(ledger, openings, witnesses), DiskOK(ledger, files),
         NEW leaves, IsSeq(leaves.inputs), Loads(leaves)
  PROVE  LoadedOK(Batchable(ledger), leaves.kind, Entries(leaves))
<1> DEFINE entries == Entries(leaves)
           n == Len(entries)
           kind == leaves.kind
           direct(i) == leaves.inputs[i].directKind
           before(i) == [k \in 1..(i - 1) |-> entries[k]]
           claim(i) == DataIn(leaves.inputs[i].slot.claim)
<1>1. /\ n \in Nat \ {0}
      /\ \A i \in 1..n : /\ FromFiles(leaves, i)
                         /\ ClaimAccepted(kind, direct(i), before(i), claim(i))
  BY LoadedFromFiles
<1> SUFFICES ASSUME NEW i \in 1..n
             PROVE  /\ entries[i].receipt \in Batchable(ledger)
                    /\ entries[i].receipt.kind = "succinct"
                    /\ RecordOf(kind, entries[i])
                    /\ Uniform(kind, entries, i)
  BY DEF LoadedOK
<1> DEFINE r == entries[i].receipt
<1>2. /\ r \in ledger /\ r.kind = "succinct" /\ claim(i) = PublicClaim(r)
      /\ entries[i].record = DirectRecord(kind, direct(i), claim(i))
      /\ ClaimAccepted(kind, direct(i), before(i), claim(i))
  BY <1>1, HeldReceipt DEF FromFiles
<1>3. claim(i).image = r.image /\ claim(i).journal = r.journal
  BY <1>2 DEF PublicClaim
<1> HIDE DEF entries, before, claim, direct, r, kind
<1>4. RecordOf(kind, entries[i])
  <2>1. CASE kind = LeafKindHeterogeneousEnvelopeV1
    <3>1. CanEnvelope(direct(i), r.journal) /\ direct(i) \in SupportedLeafKinds
      BY <1>2, <1>3, <2>1 DEF ClaimAccepted, CanEnvelope, SupportedLeafKinds,
         IsAllowedHeterogeneousDirectLeafKindV1
    <3>2. entries[i].record = Envelope(direct(i), r.image, r.journal)
      BY <1>2, <1>3, <2>1 DEF DirectRecord
    <3> QED
      BY <2>1, <3>1, <3>2 DEF RecordOf, r
  <2>2. CASE kind # LeafKindHeterogeneousEnvelopeV1
    <3>1. entries[i].record = r.journal /\ RecordSize(r.journal) = LeafClaimSize(kind)
      BY <1>2, <1>3, <2>2 DEF ClaimAccepted, DirectRecord
    <3> QED
      BY <2>2, <3>1 DEF RecordOf, r
  <2> QED
    BY <2>1, <2>2
<1>5. r.image # "xpub"
  <2>1. \E k : RecordSize(r.journal) = LeafClaimSize(k)
    BY <1>2, <1>3 DEF ClaimAccepted, CanEnvelope
  <2>2. \A k : LeafClaimSize(k) # 73
    BY DEF LeafClaimSize
  <2> QED
    BY <1>2, <2>1, <2>2, XPubSize
<1>6. Uniform(kind, entries, i)
  <2>1. CASE i = 1
    BY <2>1 DEF Uniform
  <2>2. CASE i # 1
    <3>1. 1 \in 1..(i - 1) /\ before(i)[1] = entries[1]
      BY <1>1, <2>2 DEF before
    <3>2. before(i) # <<>>
      <4>1. Len(before(i)) = i - 1
        BY <1>1 DEF before
      <4> QED
        BY <3>1, <4>1
    <3> QED
      BY <1>2, <1>3, <3>1, <3>2 DEF Uniform, ClaimAccepted, DirectRecord, r
  <2> QED
    BY <2>1, <2>2
<1> QED
  BY <1>2, <1>4, <1>5, <1>6 DEF Batchable, r

(* Once its inputs are loaded a batch runs: the guest takes what the host  *)
(* gives it, and its claim passes the check after it.                      *)
LEMMA LoadedLeavesRun ==
  ASSUME ProofsOK(ledger, openings, witnesses), DiskOK(ledger, files),
         NEW leaves, IsSeq(leaves.inputs), Loads(leaves)
  PROVE  /\ BatchRuns(leaves)
         /\ IsSeq(Records(Entries(leaves)))
         /\ Len(Records(Entries(leaves))) = Len(leaves.inputs)
         /\ GuestAccepts(leaves.kind, Context(leaves.kind, Entries(leaves)),
                         Records(Entries(leaves)), Batchable(ledger))
         /\ ValidateVersion(BatchOutput(leaves))
<1> DEFINE entries == Entries(leaves)
<1>1. LoadedOK(Batchable(ledger), leaves.kind, entries)
  BY LoadedLeavesOK
<1>2. Len(entries) \in Nat \ {0} /\ Len(entries) = Len(leaves.inputs)
  BY LoadedFromFiles
<1>3. /\ Sound(Batchable(ledger), openings, LeafImagesOf, {}, BatchImage)
      /\ Shaped(Batchable(ledger))
  BY DEF ProofsOK, ReceiptsOK, Shaped, Batchable
<1>4. /\ GuestAccepts(leaves.kind, Context(leaves.kind, entries), Records(entries),
                      Assumptions(entries))
      /\ Assumptions(entries) \subseteq Batchable(ledger)
      /\ IsSeq(Records(entries))
  BY <1>1, <1>2, <1>3, LoadedAccepted
<1>5. Len(Records(entries)) = Len(leaves.inputs)
  BY <1>2, RecordsLen
<1>6. GuestAccepts(leaves.kind, Context(leaves.kind, entries), Records(entries),
                   Batchable(ledger))
  BY <1>4, GuestAcceptsGrows
<1>7. ValidateVersion(BatchOutput(leaves))
  BY GuestClaimFields DEF BatchOutput
<1> QED
  BY <1>4, <1>5, <1>6, <1>7 DEF BatchRuns

-----------------------------------------------------------------------------
(* The commands.                                                           *)

(* A command that leaves everything as it is.                              *)
Silent(line) ==
  /\ UNCHANGED <<proofVars, diskVars>>
  /\ last'.line = line
  /\ last'.exit = 1
  /\ last'.report = NoReport

LEMMA QuietStep ==
  ASSUME SessionInv, UNCHANGED <<proofVars, diskVars>>, LastOK'
  PROVE  SessionInv'
<1>1. UNCHANGED <<ledger, openings, witnesses>> /\ UNCHANGED <<files, writes, faults>>
  BY DEF proofVars, diskVars
<1>2. ProofsOK(ledger, openings, witnesses)'
  BY <1>1 DEF SessionInv
<1>3. DiskOK(ledger, files)' /\ CountersOK'
  BY <1>1 DEF SessionInv, CountersOK
<1> QED
  BY <1>2, <1>3 DEF SessionInv

LEMMA RefusesIs ==
  ASSUME NEW line, Refuses(line)
  PROVE  Silent(line)
BY DEF Refuses, Fails, Exit, Silent

LEMMA SilentKeeps ==
  ASSUME SessionInv, NEW line, Silent(line)
  PROVE  SessionInv'
<1>1. LastOK'
  BY DEF Silent, LastOK
<1> QED
  BY <1>1, QuietStep DEF Silent

LEMMA ReportsKeeps ==
  ASSUME SessionInv, NEW line, NEW accepted, NEW report, Reports(line, accepted, report)
  PROVE  SessionInv' /\ last'.line = line
<1>1. last'.line = line /\ LastOK'
  <2>1. CASE Exit(line, 0, report)
    BY <2>1 DEF Exit, LastOK
  <2>2. CASE Exit(line, 1, NoReport)
    BY <2>2 DEF Exit, LastOK
  <2> QED
    BY <2>1, <2>2 DEF Reports
<1> QED
  BY <1>1, QuietStep DEF Reports

LEMMA ArtifactsOK ==
  ASSUME NEW receipts, NEW r \in receipts, NEW args
  PROVE  /\ Len(Artifacts(args, r)) = 2
         /\ Artifacts(args, r)[1].path = args.receiptOut
         /\ Artifacts(args, r)[2].path = args.claimOut
         /\ Artifacts(args, r)[1].content = Content("receipt", r)
         /\ Artifacts(args, r)[2].content = Content("claim", PublicClaim(r))
         /\ \A i \in 1..2 : ContentOK(receipts, Artifacts(args, r)[i].content)
<1> DEFINE puts == Artifacts(args, r)
<1>1. /\ Len(puts) = 2
      /\ puts[1].path = args.receiptOut /\ puts[2].path = args.claimOut
      /\ puts[1].content = Content("receipt", r)
      /\ puts[2].content = Content("claim", PublicClaim(r))
  BY DEF Artifacts
<1> HIDE DEF puts
<1>2. ContentOK(receipts, Content("receipt", r))
  BY DEF ContentOK, Content
<1>3. ContentOK(receipts, Content("claim", PublicClaim(r)))
  BY DEF ContentOK, Content
<1>4. \A i \in 1..2 : i = 1 \/ i = 2
  OBVIOUS
<1>5. \A i \in 1..2 : ContentOK(receipts, puts[i].content)
  BY <1>1, <1>2, <1>3, <1>4
<1> QED
  BY <1>1, <1>5 DEF puts

LEMMA WritingKeeps ==
  ASSUME SessionInv, ProofsOK(ledger', openings', witnesses'), ledger \subseteq ledger',
         NEW puts, Len(puts) \in {1, 2},
         \A i \in 1..Len(puts) : ContentOK(ledger', puts[i].content),
         NEW line, WriteFiles(line, puts)
  PROVE  SessionInv' /\ last'.line = line
<1>1. DiskOK(ledger', files) /\ CountersOK
  BY DiskGrows DEF SessionInv
<1>2. /\ DiskOK(ledger', files') /\ CountersOK'
      /\ last'.line = line /\ last'.exit \in {0, 1} /\ last'.report = NoReport
  BY <1>1, WriteFacts
<1> QED
  BY <1>2 DEF SessionInv, LastOK

(* A leaf command that proves: no check after the proof refuses its claim. *)
LeafReceipt(lane, args) ==
  [image |-> lane, journal |-> LeafRecord(lane, Stdin(lane, args.witness)),
   kind  |-> resolveReceiptKind(args.receiptKind)]

LeafWitness(lane, args) ==
  [image |-> lane, journal |-> LeafRecord(lane, Stdin(lane, args.witness)),
   stdin |-> Stdin(lane, args.witness)]

ProvesLeaf(lane, line) ==
  LET args == ParsedProve(lane, line.argv)
  IN  /\ args.ok /\ ProofAsked(args) /\ LeafGuestRuns(lane, args.witness)
      /\ FromLeafGuest(lane, Stdin(lane, args.witness))
      /\ ledger' = ledger \cup {LeafReceipt(lane, args)}
      /\ witnesses' = witnesses \cup {LeafWitness(lane, args)}
      /\ openings' = openings
      /\ WriteFiles(line, Artifacts(args, LeafReceipt(lane, args)))

LEMMA RunProveIs ==
  ASSUME NEW lane \in Lanes, NEW line, RunProve(lane, line)
  PROVE  Silent(line) \/ ProvesLeaf(lane, line)
<1> DEFINE args == ParsedProve(lane, line.argv)
<1>1. CASE ~(args.ok /\ ProofAsked(args) /\ LeafGuestRuns(lane, args.witness))
  <2>1. Refuses(line)
    BY <1>1 DEF RunProve
  <2> QED
    BY <2>1, RefusesIs
<1>2. CASE args.ok /\ ProofAsked(args) /\ LeafGuestRuns(lane, args.witness)
  <2>1. WitnessOK(lane, args.witness)
    BY ProveWitness
  <2>2. /\ FromLeafGuest(lane, Stdin(lane, args.witness))
        /\ LeafClaimAccepted(lane, args.witness,
                             LeafRecord(lane, Stdin(lane, args.witness)).body)
    BY <1>2, <2>1, LeafRun
  <2> QED
    BY <1>2, <2>2 DEF RunProve, ProvesLeaf, LeafReceipt, LeafWitness
<1> QED
  BY <1>1, <1>2

LEMMA ProvesLeafKeeps ==
  ASSUME SessionInv, NEW lane \in Lanes, NEW line, ProvesLeaf(lane, line)
  PROVE  SessionInv' /\ last'.line = line
<1> DEFINE args == ParsedProve(lane, line.argv)
           r    == LeafReceipt(lane, args)
<1>1. resolveReceiptKind(args.receiptKind) \in {"composite", "succinct"}
  BY DEF ProvesLeaf, ProofAsked
<1>2. FromLeafGuest(lane, Stdin(lane, args.witness))
  BY DEF ProvesLeaf
<1>3. ProofsOK(ledger \cup {r}, openings, witnesses \cup {LeafWitness(lane, args)})
  BY <1>1, <1>2, LeafIsProved DEF SessionInv, LeafReceipt, LeafWitness
<1>4. /\ ledger' = ledger \cup {r} /\ openings' = openings
      /\ witnesses' = witnesses \cup {LeafWitness(lane, args)}
      /\ WriteFiles(line, Artifacts(args, r))
  BY DEF ProvesLeaf
<1> HIDE DEF args, r
<1>5. ProofsOK(ledger', openings', witnesses') /\ ledger \subseteq ledger'
  BY <1>3, <1>4
<1> DEFINE puts == Artifacts(args, r)
<1>6. Len(puts) = 2 /\ \A i \in 1..2 : ContentOK(ledger', puts[i].content)
  BY <1>4, ArtifactsOK
<1>7. WriteFiles(line, puts)
  BY <1>4
<1> HIDE DEF puts
<1>8. Len(puts) \in {1, 2} /\ \A i \in 1..Len(puts) : ContentOK(ledger', puts[i].content)
  BY <1>6
<1> QED
  BY <1>5, <1>7, <1>8, WritingKeeps

(* prove-batch, once its inputs load.                                      *)
BatchReceipt(args) ==
  [image   |-> BatchImage,
   journal |-> Encode(BatchOutput(args.leaves)),
   kind    |-> resolveReceiptKind(args.receiptKind)]

BatchOpening(leaves) == [claim |-> BatchOutput(leaves), records |-> Records(Entries(leaves))]

ProvesBatch(line) ==
  LET args == parseProveBatchArgs(line.argv)
  IN  /\ Loads(args.leaves) /\ ProofAsked(args)
      /\ ledger' = ledger \cup {BatchReceipt(args)}
      /\ openings' = openings \cup {BatchOpening(args.leaves)}
      /\ witnesses' = witnesses
      /\ WriteFiles(line, Artifacts(args, BatchReceipt(args)))

LEMMA ProveBatchArgs ==
  ASSUME NEW argv
  PROVE  LET parsed == Parse(BatchFlags \cup ProofFlags, {}, argv)
             args   == parseProveBatchArgs(argv)
         IN  /\ args.leaves = parseBatchLeafInputs(parsed)
             /\ args.receiptKind = Text(parsed, "receipt-kind", "composite")
             /\ args.receiptOut = Text(parsed, "receipt-out", "")
             /\ args.claimOut = Text(parsed, "claim-out", "")
BY DEF parseProveBatchArgs

LEMMA ProveBatchInputs ==
  ASSUME NEW argv, Len(argv) \in Nat
  PROVE  IsSeq(parseProveBatchArgs(argv).leaves.inputs)
<1> DEFINE parsed == Parse(BatchFlags \cup ProofFlags, {}, argv)
<1>1. parseProveBatchArgs(argv).leaves = parseBatchLeafInputs(parsed)
  BY ProveBatchArgs
<1>2. IsSeq(parseBatchLeafInputs(parsed).inputs)
  BY LeavesFacts
<1> QED
  BY <1>1, <1>2

LEMMA ProveBatchIs ==
  ASSUME SessionInv, NEW line, Len(line.argv) \in Nat, ProveBatch(line)
  PROVE  LET args == parseProveBatchArgs(line.argv)
         IN  \/ ProvesBatch(line)
             \/ Silent(line) /\ ~(Loads(args.leaves) /\ ProofAsked(args))
<1> DEFINE args   == parseProveBatchArgs(line.argv)
           leaves == args.leaves
<1>1. IsSeq(leaves.inputs)
  BY ProveBatchInputs
<1>2. Loads(leaves) => BatchRuns(leaves) /\ ValidateVersion(BatchOutput(leaves))
  BY <1>1, LoadedLeavesRun DEF SessionInv
<1>3. BatchRuns(leaves) => Loads(leaves)
  BY DEF BatchRuns
<1>4. CASE ProofAsked(args) /\ BatchRuns(leaves)
  BY <1>2, <1>3, <1>4 DEF ProveBatch, ProvesBatch, BatchReceipt, BatchOpening
<1>5. CASE ~(ProofAsked(args) /\ BatchRuns(leaves))
  <2>1. Refuses(line)
    BY <1>5 DEF ProveBatch
  <2> QED
    BY <1>2, <1>5, <2>1, RefusesIs
<1> QED
  BY <1>4, <1>5

LEMMA ProvesBatchKeeps ==
  ASSUME SessionInv, NEW line, Len(line.argv) \in Nat, ProvesBatch(line)
  PROVE  SessionInv' /\ last'.line = line
<1> DEFINE args    == parseProveBatchArgs(line.argv)
           leaves  == args.leaves
           records == Records(Entries(leaves))
           context == Context(leaves.kind, Entries(leaves))
           r       == BatchReceipt(args)
           o       == BatchOpening(leaves)
<1>1. IsSeq(leaves.inputs)
  BY ProveBatchInputs
<1>2. resolveReceiptKind(args.receiptKind) \in {"composite", "succinct"} /\ Loads(leaves)
  BY DEF ProvesBatch, ProofAsked
<1>3. IsSeq(records) /\ GuestAccepts(leaves.kind, context, records, Batchable(ledger))
  BY <1>1, <1>2, LoadedLeavesRun DEF SessionInv
<1>4. o = [claim |-> GuestClaim(leaves.kind, context, records), records |-> records]
  BY DEF BatchOpening, BatchOutput
<1>5. r = [image |-> BatchImage, journal |-> Encode(o.claim),
           kind |-> resolveReceiptKind(args.receiptKind)]
  BY DEF BatchReceipt, BatchOpening
<1>6. /\ ledger' = ledger \cup {r} /\ openings' = openings \cup {o}
      /\ witnesses' = witnesses
      /\ WriteFiles(line, Artifacts(args, r))
  BY DEF ProvesBatch
<1> HIDE DEF args, leaves, records, context, r, o
<1>7. ProofsOK(ledger, openings, witnesses)
  BY DEF SessionInv
<1>8. ProofsOK(ledger \cup {r}, openings \cup {o}, witnesses)
  BY <1>2, <1>3, <1>4, <1>5, <1>7, BatchIsProved
<1>9. ProofsOK(ledger', openings', witnesses') /\ ledger \subseteq ledger'
  BY <1>6, <1>8
<1> DEFINE puts == Artifacts(args, r)
<1>10. Len(puts) = 2 /\ \A i \in 1..2 : ContentOK(ledger', puts[i].content)
  BY <1>6, ArtifactsOK
<1>11. WriteFiles(line, puts)
  BY <1>6
<1> HIDE DEF puts
<1>12. Len(puts) \in {1, 2} /\ \A i \in 1..Len(puts) : ContentOK(ledger', puts[i].content)
  BY <1>10
<1> QED
  BY <1>9, <1>11, <1>12, WritingKeeps

(* The proofs that are read from any files are lists of lists.             *)
ProofsShaped(proofs) ==
  /\ Len(proofs) \in Nat
  /\ \A k \in 1..Len(proofs) : Len(proofs[k].siblings) \in Nat

LEMMA ReadShaped ==
  ASSUME NEW receipts, DiskOK(receipts, files), NEW path
  PROVE  Len(ReadBatchInclusionProofFile(path).siblings) \in Nat
<1>1. CASE Holds(path, "inclusion")
  BY <1>1, HeldContent DEF ContentOK, ReadBatchInclusionProofFile, DataIn
<1>2. CASE ~Holds(path, "inclusion")
  <2>1. BlankInclusion.siblings = <<>>
    BY DEF BlankInclusion
  <2>2. ReadBatchInclusionProofFile(path).siblings = <<>>
    BY <1>2, <2>1 DEF ReadBatchInclusionProofFile, BlankInclusion
  <2> QED
    BY <2>2
<1> QED
  BY <1>1, <1>2

LEMMA ProofsAreShaped ==
  ASSUME NEW receipts, DiskOK(receipts, files), NEW inclusionIns, IsSeq(inclusionIns),
         NEW chainIn
  PROVE  ProofsShaped(loadBatchInclusionProofs(inclusionIns, chainIn))
<1>1. CASE chainIn # "" /\ Holds(chainIn, "chain")
  <2>1. loadBatchInclusionProofs(inclusionIns, chainIn) = DataIn(chainIn).inclusions
    BY <1>1 DEF loadBatchInclusionProofs, ReadBatchInclusionChainFile
  <2> QED
    BY <1>1, <2>1, HeldContent DEF ContentOK, ProofsShaped, DataIn
<1>2. CASE chainIn # "" /\ ~Holds(chainIn, "chain")
  <2>1. loadBatchInclusionProofs(inclusionIns, chainIn) = <<>>
    BY <1>2 DEF loadBatchInclusionProofs, ReadBatchInclusionChainFile
  <2> QED
    BY <2>1 DEF ProofsShaped
<1>3. CASE ~(chainIn # "")
  <2>1. loadBatchInclusionProofs(inclusionIns, chainIn)
          = [i \in 1..Len(inclusionIns) |-> ReadBatchInclusionProofFile(inclusionIns[i])]
    BY <1>3 DEF loadBatchInclusionProofs
  <2>2. Len(inclusionIns) \in Nat
    BY DEF IsSeq
  <2> QED
    BY <2>1, <2>2, ReadShaped DEF ProofsShaped
<1> QED
  BY <1>1, <1>2, <1>3

(* The two commands that write one file of proofs.                         *)
OnePut(path, content) == <<[path |-> path, content |-> content]>>

LEMMA OnePutKeeps ==
  ASSUME SessionInv, UNCHANGED proofVars, NEW path, NEW content, ContentOK(ledger, content),
         NEW line, WriteFiles(line, OnePut(path, content))
  PROVE  SessionInv' /\ last'.line = line
<1> DEFINE puts == OnePut(path, content)
<1>1. Len(puts) = 1 /\ puts[1].content = content
  BY DEF OnePut
<1>2. WriteFiles(line, puts)
  OBVIOUS
<1> HIDE DEF puts
<1>3. ledger' = ledger /\ openings' = openings /\ witnesses' = witnesses
  BY DEF proofVars
<1>4. ProofsOK(ledger', openings', witnesses') /\ ledger \subseteq ledger'
  BY <1>3 DEF SessionInv
<1>5. Len(puts) \in {1, 2} /\ \A i \in 1..Len(puts) : ContentOK(ledger', puts[i].content)
  BY <1>1, <1>3
<1> QED
  BY <1>2, <1>4, <1>5, WritingKeeps

LEMMA FailsIs ==
  ASSUME NEW line, Fails(line), UNCHANGED proofVars
  PROVE  Silent(line)
BY DEF Fails, Exit, Silent

Derives(line) ==
  LET args   == parseDeriveBatchInclusionArgs(line.argv)
      leaves == args.leaves
  IN  /\ Loads(leaves) /\ args.leafIndex < Len(leaves.inputs)
      /\ WriteFiles(line, OnePut(args.proofOut, Content("inclusion",
           DeriveInclusion(leaves.kind, Records(Entries(leaves)), args.leafIndex))))

LEMMA DeriveIs ==
  ASSUME NEW line, DeriveBatchInclusion(line)
  PROVE  Silent(line) \/ Derives(line)
BY FailsIs DEF DeriveBatchInclusion, Derives, OnePut

LEMMA DeriveArgs ==
  ASSUME NEW argv
  PROVE  LET parsed == Parse(BatchFlags \cup {"leaf-index", "proof-out"}, {}, argv)
             args   == parseDeriveBatchInclusionArgs(argv)
             index  == Text(parsed, "leaf-index", "")
         IN  /\ args.leaves = parseBatchLeafInputs(parsed)
             /\ args.leafIndex = IF index = "" THEN 0
                                 ELSE UintTexts[index] % (2 * HardenedKeyStart)
             /\ args.proofOut = Text(parsed, "proof-out", "")
BY DEF parseDeriveBatchInclusionArgs

LEMMA DeriveInputs ==
  ASSUME NEW argv, Len(argv) \in Nat
  PROVE  IsSeq(parseDeriveBatchInclusionArgs(argv).leaves.inputs)
<1> DEFINE parsed == Parse(BatchFlags \cup {"leaf-index", "proof-out"}, {}, argv)
<1>1. parseDeriveBatchInclusionArgs(argv).leaves = parseBatchLeafInputs(parsed)
  BY DeriveArgs
<1>2. IsSeq(parseBatchLeafInputs(parsed).inputs)
  BY LeavesFacts
<1> QED
  BY <1>1, <1>2

LEMMA DerivesKeeps ==
  ASSUME SessionInv, NEW line, Len(line.argv) \in Nat, UNCHANGED proofVars, Derives(line)
  PROVE  SessionInv' /\ last'.line = line
<1> DEFINE args      == parseDeriveBatchInclusionArgs(line.argv)
           leaves    == args.leaves
           records   == Records(Entries(leaves))
           inclusion == DeriveInclusion(leaves.kind, records, args.leafIndex)
<1>1. IsSeq(leaves.inputs)
  BY DeriveInputs
<1>2. Len(records) \in Nat \ {0}
  <2>1. Loads(leaves)
    BY DEF Derives
  <2> HIDE DEF leaves
  <2> QED
    BY <1>1, <2>1, LoadedLeavesRun, LoadedFromFiles DEF SessionInv
<1>3. inclusion.siblings = BuildProof(records, args.leafIndex).siblings
  BY DEF DeriveInclusion
<1>4. WriteFiles(line, OnePut(args.proofOut, Content("inclusion", inclusion)))
  BY DEF Derives
<1> HIDE DEF args, leaves, records, inclusion
<1>5. Len(inclusion.siblings) \in Nat
  BY <1>2, <1>3, BuildProofSiblings DEF IsSeq
<1>6. ContentOK(ledger, Content("inclusion", inclusion))
  BY <1>5 DEF ContentOK, Content
<1> QED
  BY <1>4, <1>6, OnePutKeeps

Bundles(line) ==
  LET args == parseBundleBatchInclusionChainArgs(line.argv)
  IN  WriteFiles(line, OnePut(args.chainOut, Content("chain",
        [inclusions |-> loadBatchInclusionProofs(args.inclusionIns, "")])))

LEMMA BundleIs ==
  ASSUME NEW line, BundleBatchInclusionChain(line)
  PROVE  Silent(line) \/ Bundles(line)
BY FailsIs DEF BundleBatchInclusionChain, Bundles, OnePut

LEMMA BundlesKeeps ==
  ASSUME SessionInv, NEW line, Len(line.argv) \in Nat, UNCHANGED proofVars, Bundles(line)
  PROVE  SessionInv' /\ last'.line = line
<1> DEFINE args   == parseBundleBatchInclusionChainArgs(line.argv)
           proofs == loadBatchInclusionProofs(args.inclusionIns, "")
           chain  == [inclusions |-> proofs]
<1>1. args.inclusionIns = Texts(Parse({"inclusion-in", "chain-out"}, {}, line.argv),
                                "inclusion-in")
  BY DEF parseBundleBatchInclusionChainArgs
<1>2. IsSeq(args.inclusionIns)
  BY <1>1, TextsAreList
<1>3. WriteFiles(line, OnePut(args.chainOut, Content("chain", chain)))
  BY DEF Bundles
<1>4. chain.inclusions = proofs
  OBVIOUS
<1>5. ProofsShaped(proofs)
  <2> HIDE DEF args
  <2> QED
    BY <1>2, ProofsAreShaped DEF SessionInv
<1> HIDE DEF args, proofs, chain
<1>6. ContentOK(ledger, Content("chain", chain))
  BY <1>4, <1>5 DEF ContentOK, Content, ProofsShaped
<1> QED
  BY <1>3, <1>6, OnePutKeeps

-----------------------------------------------------------------------------
LEMMA GivenLeaf ==
  ASSUME NEW g \in Given
  PROVE  /\ FromLeafGuest(g.lane, g.stdin)
         /\ GivenReceipt(g).image = g.lane /\ g.lane \in Lanes
         /\ GivenReceipt(g).journal = LeafRecord(g.lane, g.stdin)
         /\ GivenReceipt(g).kind \in {"composite", "succinct"}
         /\ GivenReceipt(g) = [image |-> GivenReceipt(g).image,
                               journal |-> GivenReceipt(g).journal,
                               kind |-> GivenReceipt(g).kind]
BY GivenAssumption, ImagesDiffer DEF FromLeafGuest, GivenReceipt

LEMMA InitEstablishes == Init => SessionInv
<1> SUFFICES ASSUME Init
             PROVE  SessionInv
  OBVIOUS
<1>1. /\ ledger = {GivenReceipt(g) : g \in Given}
      /\ openings = {}
      /\ witnesses = {[image |-> g.lane, journal |-> LeafRecord(g.lane, g.stdin),
                       stdin |-> g.stdin] : g \in Given}
  BY DEF Init
<1>2. ReceiptsOK(ledger)
  BY <1>1, GivenLeaf DEF ReceiptsOK, Shaped
<1>3. Witnessed(ledger, witnesses)
  <2>1. \A w \in witnesses : WitnessOf(w)
    BY <1>1, GivenLeaf DEF WitnessOf
  <2>2. ASSUME NEW r \in ledger
        PROVE  \E w \in witnesses : w.image = r.image /\ w.journal = r.journal
    <3>1. PICK g \in Given : r = GivenReceipt(g)
      BY <1>1
    <3> DEFINE w == [image |-> g.lane, journal |-> LeafRecord(g.lane, g.stdin),
                     stdin |-> g.stdin]
    <3>2. w \in witnesses /\ w.image = g.lane /\ w.journal = LeafRecord(g.lane, g.stdin)
      BY <1>1
    <3> HIDE DEF w
    <3> QED
      BY <3>1, <3>2, GivenLeaf
  <2> QED
    BY <2>1, <2>2 DEF Witnessed
<1>4. Sound(Batchable(ledger), openings, LeafImagesOf, {}, BatchImage)
  <2>1. ASSUME NEW r \in Batchable(ledger)
        PROVE  Attested(r, openings, LeafImagesOf, {}, BatchImage)
    <3>1. PICK g \in Given : r = GivenReceipt(g) /\ g.lane # "xpub"
      BY <1>1, GivenLeaf DEF Batchable
    <3>2. r.image = g.lane /\ g.lane \in LeafImagesOf /\ g.lane # BatchImage
      BY <3>1, GivenLeaf, ImagesDiffer DEF Lanes, LeafImagesOf
    <3>3. r.journal.type = "leaf" /\ r.kind \in {"composite", "succinct"}
      BY <3>1, GivenLeaf, LeafRecordFacts
    <3> QED
      BY <3>2, <3>3 DEF Attested, RecordSize
  <2> QED
    BY <1>1, <2>1 DEF Sound
<1>5. DiskOK(ledger, files)
  <2>1. ASSUME NEW path \in DOMAIN files
        PROVE  FileOK(ledger, files[path])
    <3> DEFINE g == CHOOSE h \in Given : path \in {h.receipt, h.claim}
               r == GivenReceipt(g)
               content == IF path = g.receipt THEN Content("receipt", r)
                                              ELSE Content("claim", PublicClaim(r))
    <3>1. path \in {h.receipt : h \in Given} \cup {h.claim : h \in Given}
          /\ files[path] = Full(content)
      BY DEF Init
    <3>2. g \in Given
      BY <3>1
    <3> HIDE DEF g
    <3>3. r \in ledger
      BY <1>1, <3>2
    <3> HIDE DEF r
    <3>4. ContentOK(ledger, content)
      BY <3>3 DEF ContentOK, Content
    <3> QED
      BY <3>1, <3>4 DEF FileOK
  <2> QED
    BY <2>1 DEF DiskOK
<1>6. CountersOK /\ LastOK
  <2>1. last.exit = 0 /\ last.report = NoReport
    BY DEF Init
  <2>2. writes = 0 /\ faults = 0
    BY DEF Init
  <2> QED
    BY <2>1, <2>2, BoundsAssumption DEF CountersOK, LastOK
<1> QED
  BY <1>2, <1>3, <1>4, <1>5, <1>6 DEF SessionInv, ProofsOK

LEMMA LinesHaveWords ==
  ASSUME NEW line \in Lines
  PROVE  Len(line.argv) \in Nat
BY LinesAssumption

LEMMA TypeKeeps ==
  ASSUME SessionInv, NEW line \in Lines, Type(line)
  PROVE  SessionInv' /\ last'.line = line
<1>1. ASSUME NEW lane \in Lanes, RunExecute(lane, line)
      PROVE  SessionInv' /\ last'.line = line
  BY <1>1, ReportsKeeps DEF RunExecute
<1>2. ASSUME NEW lane \in Lanes, RunProve(lane, line)
      PROVE  SessionInv' /\ last'.line = line
  BY <1>2, RunProveIs, SilentKeeps, ProvesLeafKeeps DEF Silent
<1>3. ASSUME NEW lane \in Lanes, RunVerify(lane, line)
      PROVE  SessionInv' /\ last'.line = line
  BY <1>3, ReportsKeeps DEF RunVerify
<1>4. "taproot" \in Lanes /\ "xpriv" \in Lanes /\ "xpub" \in Lanes
  BY DEF Lanes
<1>5. CASE Execute(line) \/ ExecuteHardenedXPriv(line) \/ ExecuteHardenedXPub(line)
  BY <1>1, <1>4, <1>5 DEF Execute, ExecuteHardenedXPriv, ExecuteHardenedXPub
<1>6. CASE Prove(line) \/ ProveHardenedXPriv(line) \/ ProveHardenedXPub(line)
  BY <1>2, <1>4, <1>6 DEF Prove, ProveHardenedXPriv, ProveHardenedXPub
<1>7. CASE Verify(line) \/ VerifyHardenedXPriv(line) \/ VerifyHardenedXPub(line)
  BY <1>3, <1>4, <1>7 DEF Verify, VerifyHardenedXPriv, VerifyHardenedXPub
<1>8. CASE ExecuteBatch(line)
  BY <1>8, ReportsKeeps DEF ExecuteBatch
<1>9. CASE ProveBatch(line)
  BY <1>9, LinesHaveWords, ProveBatchIs, SilentKeeps, ProvesBatchKeeps DEF Silent
<1>10. CASE DeriveBatchInclusion(line)
  <2>1. UNCHANGED proofVars
    BY <1>10 DEF DeriveBatchInclusion
  <2> QED
    BY <1>10, <2>1, LinesHaveWords, DeriveIs, SilentKeeps, DerivesKeeps DEF Silent
<1>11. CASE BundleBatchInclusionChain(line)
  <2>1. UNCHANGED proofVars
    BY <1>11 DEF BundleBatchInclusionChain
  <2> QED
    BY <1>11, <2>1, LinesHaveWords, BundleIs, SilentKeeps, BundlesKeeps DEF Silent
<1>12. CASE VerifyBatch(line)
  BY <1>12, ReportsKeeps DEF VerifyBatch
<1>13. CASE Usage(line)
  <2>1. LastOK' /\ last'.line = line
    BY <1>13 DEF Usage, Exit, LastOK
  <2> QED
    BY <1>13, <2>1, QuietStep DEF Usage
<1> QED
  BY <1>5, <1>6, <1>7, <1>8, <1>9, <1>10, <1>11, <1>12, <1>13 DEF Type

LEMMA StutterKeeps ==
  ASSUME SessionInv, UNCHANGED sessionVars
  PROVE  SessionInv'
BY DEF sessionVars, SessionInv, CountersOK, LastOK

LEMMA SessionInvariant == Spec => []SessionInv
<1>1. SessionInv /\ [Next]_sessionVars => SessionInv'
  BY TypeKeeps, StutterKeeps DEF Next
<1> QED
  BY <1>1, InitEstablishes, PTL DEF Spec

(* Whatever was overwritten by what, a file that holds a receipt holds one *)
(* that was proved and a claim.json the public part of one; and only a     *)
(* command that succeeded reports.                                         *)
THEOREM SessionTypeCorrect == Spec => []STypeOK
<1>1. SessionInv => STypeOK
  BY HeldReceipt, HeldClaim DEF SessionInv, CountersOK, LastOK, STypeOK
<1> QED
  BY <1>1, SessionInvariant, PTL

-----------------------------------------------------------------------------
(* Each property of the last step follows from the invariant before it and *)
(* the one command that it is about.                                       *)

LEMMA ByCommand ==
  ASSUME NEW line, Type(line)
  PROVE  /\ line.command = "execute-batch" => ExecuteBatch(line)
         /\ line.command = "prove-batch" => ProveBatch(line)
         /\ line.command = "derive-batch-inclusion" => DeriveBatchInclusion(line)
         /\ line.command = "verify-batch" => VerifyBatch(line)
         /\ \A lane \in Lanes : line.command = VerifyCommand(lane) => RunVerify(lane, line)
         /\ \A lane \in Lanes : line.command = ProveCommand(lane) => RunProve(lane, line)
<1> USE DEF Type, Execute, ExecuteHardenedXPriv, ExecuteHardenedXPub,
        Prove, ProveHardenedXPriv, ProveHardenedXPub,
        Verify, VerifyHardenedXPriv, VerifyHardenedXPub,
        ExecuteBatch, ProveBatch, DeriveBatchInclusion, BundleBatchInclusionChain,
        VerifyBatch, Usage, Commands
<1>1. line.command = "execute-batch" => ExecuteBatch(line)
  OBVIOUS
<1>2. line.command = "prove-batch" => ProveBatch(line)
  OBVIOUS
<1>3. line.command = "derive-batch-inclusion" => DeriveBatchInclusion(line)
  OBVIOUS
<1>4. line.command = "verify-batch" => VerifyBatch(line)
  OBVIOUS
<1>5. ASSUME NEW lane \in Lanes, line.command = VerifyCommand(lane)
      PROVE  RunVerify(lane, line)
  BY <1>5 DEF VerifyCommand, Lanes
<1>6. ASSUME NEW lane \in Lanes, line.command = ProveCommand(lane)
      PROVE  RunProve(lane, line)
  BY <1>6 DEF ProveCommand, Lanes
<1> QED
  BY <1>1, <1>2, <1>3, <1>4, <1>5, <1>6

(* Only the commands that prove add to what was proved.                    *)
LEMMA Provers ==
  ASSUME NEW line, Type(line)
  PROVE  \/ UNCHANGED proofVars
         \/ ProveBatch(line) /\ line.command = "prove-batch"
         \/ \E lane \in Lanes : RunProve(lane, line) /\ line.command = ProveCommand(lane)
<1>1. CASE Prove(line) \/ ProveHardenedXPriv(line) \/ ProveHardenedXPub(line)
  BY <1>1 DEF Prove, ProveHardenedXPriv, ProveHardenedXPub, ProveCommand, Lanes
<1>2. CASE ProveBatch(line)
  BY <1>2 DEF ProveBatch
<1>3. CASE ~(Prove(line) \/ ProveHardenedXPriv(line) \/ ProveHardenedXPub(line)
             \/ ProveBatch(line))
  <2>1. UNCHANGED proofVars
    BY <1>3 DEF Type, Execute, ExecuteHardenedXPriv, ExecuteHardenedXPub, RunExecute,
       Verify, VerifyHardenedXPriv, VerifyHardenedXPub, RunVerify, Reports,
       ExecuteBatch, DeriveBatchInclusion, BundleBatchInclusionChain, VerifyBatch, Usage
  <2> QED
    BY <2>1
<1> QED
  BY <1>1, <1>2, <1>3

LEMMA ExecuteBatchInputs ==
  ASSUME NEW argv, Len(argv) \in Nat
  PROVE  IsSeq(parseExecuteBatchArgs(argv).leaves.inputs)
<1> DEFINE parsed == Parse(BatchFlags, {}, argv)
<1>1. parseExecuteBatchArgs(argv).leaves = parseBatchLeafInputs(parsed)
  BY DEF parseExecuteBatchArgs
<1>2. IsSeq(parseBatchLeafInputs(parsed).inputs)
  BY LeavesFacts
<1> QED
  BY <1>1, <1>2

(* Once its inputs load, a batch command fails only by a write: no prover  *)
(* run is started in vain.                                                 *)
THEOREM BatchesThatLoadProve == Spec => LoadableBatchProves
<1> DEFINE Ran(line) ==
      last'.exit # 0 /\ faults' = faults =>
        /\ line.command = "execute-batch" => ~Loads(parseExecuteBatchArgs(line.argv).leaves)
        /\ line.command = "prove-batch" =>
             \/ ~Loads(parseProveBatchArgs(line.argv).leaves)
             \/ ~ProofAsked(parseProveBatchArgs(line.argv))
<1>1. ASSUME SessionInv, NEW line \in Lines, Type(line)
      PROVE  Ran(line) /\ last'.line = line
  <2>1. Len(line.argv) \in Nat /\ last'.line = line
    BY <1>1, LinesHaveWords, TypeKeeps
  <2>2. ASSUME line.command = "execute-batch", last'.exit # 0
        PROVE  ~Loads(parseExecuteBatchArgs(line.argv).leaves)
    <3> DEFINE leaves == parseExecuteBatchArgs(line.argv).leaves
    <3>1. Reports(line, BatchRuns(leaves) /\ ValidateVersion(BatchOutput(leaves)), NoReport)
      BY <1>1, <2>2, ByCommand DEF ExecuteBatch
    <3>2. ~(BatchRuns(leaves) /\ ValidateVersion(BatchOutput(leaves)))
      BY <2>2, <3>1 DEF Reports, Exit
    <3> QED
      BY <1>1, <2>1, <3>2, ExecuteBatchInputs, LoadedLeavesRun DEF SessionInv
  <2>3. ASSUME line.command = "prove-batch", last'.exit # 0, faults' = faults
        PROVE  \/ ~Loads(parseProveBatchArgs(line.argv).leaves)
               \/ ~ProofAsked(parseProveBatchArgs(line.argv))
    <3>1. CASE ProvesBatch(line)
      <4> DEFINE args == parseProveBatchArgs(line.argv)
                 puts == Artifacts(args, BatchReceipt(args))
      <4>1. WriteFiles(line, puts)
        BY <3>1 DEF ProvesBatch
      <4>2. faults < MaxFaults => faults + 1 # faults
        BY <1>1, BoundsAssumption DEF SessionInv, CountersOK
      <4> HIDE DEF puts
      <4>3. Exit(line, 0, NoReport)
        BY <2>3, <4>1, <4>2 DEF WriteFiles
      <4> QED
        BY <2>3, <4>3 DEF Exit
    <3> QED
      BY <1>1, <2>1, <2>3, <3>1, ByCommand, ProveBatchIs
  <2> QED
    BY <2>1, <2>2, <2>3
<1>2. SessionInv /\ [Next]_sessionVars => [Ran(last'.line)]_sessionVars
  <2> SUFFICES ASSUME SessionInv, Next
               PROVE  Ran(last'.line)
    OBVIOUS
  <2>1. PICK line \in Lines : Type(line)
    BY DEF Next
  <2>2. Ran(line) /\ last'.line = line
    BY <1>1, <2>1
  <2> HIDE DEF Ran
  <2> QED
    BY <2>2
<1>3. SessionInv /\ [Next]_sessionVars =>
        [LET line == last'.line
             args == parseProveBatchArgs(line.argv)
         IN  last'.exit # 0 /\ faults' = faults =>
               /\ line.command = "execute-batch" =>
                    ~Loads(parseExecuteBatchArgs(line.argv).leaves)
               /\ line.command = "prove-batch" => ~Loads(args.leaves) \/ ~ProofAsked(args)
        ]_sessionVars
  BY <1>2
<1> QED
  BY <1>3, SessionInvariant, PTL DEF Spec, LoadableBatchProves

-----------------------------------------------------------------------------
(* A session implements the ledger, the hardened-xpub receipts aside.  The *)
(* operators of the two modules are the same, with the same constants.     *)

LEMMA SameGuestAccepts ==
  ASSUME NEW kind, NEW context, NEW records, NEW assumptions
  PROVE  Ledger!GuestAccepts(kind, context, records, assumptions)
           <=> GuestAccepts(kind, context, records, assumptions)
BY DEF GuestAccepts, DirectLeafAccepted, SameChildPolicy, Resolved, EnvelopeDecodes,
   RecordImage, RecordJournal, ChildBatchPolicy, Decode, RecordSize, LeafClaimSize,
   SupportedLeafKinds, IsAllowedHeterogeneousDirectLeafKindV1,
   LeafKindTaproot, LeafKindHardenedXPriv, LeafKindBatchClaimV1,
   LeafKindHeterogeneousEnvelopeV1, HeterogeneousEnvelopeVersionV1,
   Ledger!GuestAccepts, Ledger!DirectLeafAccepted, Ledger!SameChildPolicy,
   Ledger!Resolved, Ledger!EnvelopeDecodes, Ledger!RecordImage, Ledger!RecordJournal,
   Ledger!ChildBatchPolicy, Ledger!Decode, Ledger!RecordSize, Ledger!LeafClaimSize,
   Ledger!SupportedLeafKinds, Ledger!IsAllowedHeterogeneousDirectLeafKindV1,
   Ledger!LeafKindTaproot, Ledger!LeafKindHardenedXPriv, Ledger!LeafKindBatchClaimV1,
   Ledger!LeafKindHeterogeneousEnvelopeV1, Ledger!HeterogeneousEnvelopeVersionV1

LEMMA SameRoot ==
  ASSUME NEW records
  PROVE  Ledger!Root(records) = Root(records)
BY DEF Root, Height, Level, LeafNodes, NextLevel, LeafHash, InnerHash,
   Ledger!Root, Ledger!Height, Ledger!Level, Ledger!LeafNodes, Ledger!NextLevel,
   Ledger!LeafHash, Ledger!InnerHash

LEMMA SameGuestClaim ==
  ASSUME NEW kind, NEW context, NEW records
  PROVE  Ledger!GuestClaim(kind, context, records) = GuestClaim(kind, context, records)
BY SameRoot
   DEF GuestClaim, Claim, LeafKindHeterogeneousEnvelopeV1, VersionHeterogeneousParent,
       Version, FlagsNone, MerkleHashSHA256,
       Ledger!GuestClaim, Ledger!Claim, Ledger!LeafKindHeterogeneousEnvelopeV1,
       Ledger!VersionHeterogeneousParent, Ledger!Version, Ledger!FlagsNone,
       Ledger!MerkleHashSHA256

LEMMA SameEnvelope ==
  ASSUME NEW directKind, NEW image, NEW journal
  PROVE  /\ Ledger!Envelope(directKind, image, journal)
              = Envelope(directKind, image, journal)
         /\ Ledger!CanEnvelope(directKind, journal) <=> CanEnvelope(directKind, journal)
BY DEF Envelope, CanEnvelope, RecordSize, LeafClaimSize, HeterogeneousEnvelopeVersionV1,
   IsAllowedHeterogeneousDirectLeafKindV1,
   LeafKindTaproot, LeafKindHardenedXPriv, LeafKindBatchClaimV1,
   LeafKindHeterogeneousEnvelopeV1,
   Ledger!Envelope, Ledger!CanEnvelope, Ledger!RecordSize, Ledger!LeafClaimSize,
   Ledger!HeterogeneousEnvelopeVersionV1,
   Ledger!IsAllowedHeterogeneousDirectLeafKindV1,
   Ledger!LeafKindTaproot, Ledger!LeafKindHardenedXPriv, Ledger!LeafKindBatchClaimV1,
   Ledger!LeafKindHeterogeneousEnvelopeV1

LEMMA SameKinds ==
  /\ Ledger!SupportedLeafKinds = SupportedLeafKinds
  /\ Ledger!LeafKindHeterogeneousEnvelopeV1 = LeafKindHeterogeneousEnvelopeV1
BY DEF SupportedLeafKinds, LeafKindTaproot, LeafKindHardenedXPriv, LeafKindBatchClaimV1,
   LeafKindHeterogeneousEnvelopeV1,
   Ledger!SupportedLeafKinds, Ledger!LeafKindTaproot, Ledger!LeafKindHardenedXPriv,
   Ledger!LeafKindBatchClaimV1, Ledger!LeafKindHeterogeneousEnvelopeV1


LEMMA SameImages == Ledger!Images = LeafImagesOf \cup {BatchImage}
BY DEF Ledger!Images, LeafImagesOf

(* What a batch command passes to the guest is among the records that the  *)
(* guest of the ledger may be given.                                       *)
LEMMA LoadedRecords ==
  ASSUME ProofsOK(ledger, openings, witnesses),
         NEW kind, NEW entry, entry.receipt \in Batchable(ledger), RecordOf(kind, entry)
  PROVE  entry.record \in Ledger!StdinRecords(kind)
<1>1. entry.receipt.image \in Ledger!Images
  BY SameImages DEF ProofsOK, Sound, Attested
<1>2. entry.receipt.journal \in Ledger!Journals
  BY DEF Batchable, Ledger!Journals
<1>3. CASE kind = LeafKindHeterogeneousEnvelopeV1
  <2>1. PICK directKind \in SupportedLeafKinds :
          /\ CanEnvelope(directKind, entry.receipt.journal)
          /\ entry.record = Envelope(directKind, entry.receipt.image, entry.receipt.journal)
    BY <1>3 DEF RecordOf
  <2> DEFINE e == <<directKind, entry.receipt.image, entry.receipt.journal>>
             D == {d \in Ledger!SupportedLeafKinds \X Ledger!Images \X Ledger!Journals :
                     Ledger!CanEnvelope(d[1], d[3])}
  <2>2. e \in Ledger!SupportedLeafKinds \X Ledger!Images \X Ledger!Journals
    BY <1>1, <1>2, <2>1, SameKinds
  <2>3. e[1] = directKind /\ e[2] = entry.receipt.image /\ e[3] = entry.receipt.journal
    OBVIOUS
  <2>4. e \in D /\ entry.record = Ledger!Envelope(e[1], e[2], e[3])
    BY <2>1, <2>2, <2>3, SameEnvelope
  <2> HIDE DEF e
  <2>5. entry.record \in Ledger!Envelopes
    BY <2>4 DEF Ledger!Envelopes
  <2> QED
    BY <1>3, <2>5, SameKinds DEF Ledger!StdinRecords
<1>4. CASE kind # LeafKindHeterogeneousEnvelopeV1
  BY <1>2, <1>4, SameKinds DEF RecordOf, Ledger!StdinRecords
<1> QED
  BY <1>3, <1>4

LEMMA ProvesLeafImplements ==
  ASSUME SessionInv, NEW lane \in Lanes, NEW line \in Lines,
         line.command = ProveCommand(lane), ProvesLeaf(lane, line)
  PROVE  Ledger!Next \/ UNCHANGED Ledger!ledgerVars
<1> DEFINE args   == ParsedProve(lane, line.argv)
           record == LeafRecord(lane, Stdin(lane, args.witness))
           kind   == resolveReceiptKind(args.receiptKind)
           r      == LeafReceipt(lane, args)
<1>1. /\ ledger' = ledger \cup {r} /\ openings' = openings
      /\ args.ok /\ LeafGuestRuns(lane, args.witness)
      /\ kind \in {"composite", "succinct"}
  BY DEF ProvesLeaf, ProofAsked
<1>2. r.image = lane /\ r = [image |-> lane, journal |-> record, kind |-> kind]
  BY DEF LeafReceipt
<1>3. CASE lane = "xpub"
  <2>1. Batchable(ledger') = Batchable(ledger)
    BY <1>1, <1>2, <1>3 DEF Batchable
  <2> QED
    BY <1>1, <2>1 DEF Ledger!ledgerVars, Batchable
<1>4. CASE lane # "xpub"
  <2>1. lane \in {"taproot", "xpriv"}
    BY <1>4 DEF Lanes
  <2>2. line.command = IF lane = "taproot" THEN "prove" ELSE "prove-hardened-xpriv"
    BY <2>1 DEF ProveCommand
  <2>3. record.body \in ProvableBodies
    BY <1>1, <2>1, <2>2 DEF ProvableBodies
  <2>4. record = Ledger!LeafJournal(record.body)
    BY <1>4, LeafRecordFacts DEF LeafJournal, Ledger!LeafJournal
  <2>5. Batchable(ledger') = Batchable(ledger) \cup {r}
    BY <1>1, <1>2, <1>4 DEF Batchable
  <2> HIDE DEF r, record, kind, args
  <2>6. r = Ledger!Receipt(lane, Ledger!LeafJournal(record.body), kind)
    BY <1>2, <2>4 DEF Ledger!Receipt
  <2>7. Ledger!ProveLeaf(lane, record.body, kind)
    BY <1>1, <2>5, <2>6 DEF Ledger!ProveLeaf, Batchable
  <2> QED
    BY <1>1, <2>1, <2>3, <2>7 DEF Ledger!Next
<1> QED
  BY <1>3, <1>4

LEMMA ProvesBatchImplements ==
  ASSUME SessionInv, NEW line \in Lines, line.command = "prove-batch", ProvesBatch(line)
  PROVE  Ledger!Next
<1> DEFINE args    == parseProveBatchArgs(line.argv)
           leaves  == args.leaves
           entries == Entries(leaves)
           kind    == leaves.kind
           context == Context(kind, entries)
           records == Records(entries)
           receiptKind == resolveReceiptKind(args.receiptKind)
           r       == BatchReceipt(args)
           o       == BatchOpening(leaves)
<1>1. IsSeq(leaves.inputs) /\ Loads(leaves) /\ receiptKind \in {"composite", "succinct"}
  BY LinesHaveWords, ProveBatchInputs DEF ProvesBatch, ProofAsked
<1>2. /\ ledger' = ledger \cup {r} /\ openings' = openings \cup {o}
      /\ r = [image |-> BatchImage, journal |-> Encode(GuestClaim(kind, context, records)),
              kind |-> receiptKind]
      /\ o = [claim |-> GuestClaim(kind, context, records), records |-> records]
  BY DEF ProvesBatch, BatchReceipt, BatchOpening, BatchOutput
<1>3. Len(leaves.inputs) <= MaxLeaves
  BY BoundsAssumption
<1> HIDE DEF args, leaves, receiptKind, r, o
<1>4. /\ ProofsOK(ledger, openings, witnesses)
      /\ IsSeq(records) /\ Len(records) = Len(leaves.inputs)
      /\ GuestAccepts(kind, context, records, Batchable(ledger))
  BY <1>1, LoadedLeavesRun DEF SessionInv
<1>5. /\ Len(entries) \in Nat \ {0} /\ Len(entries) = Len(leaves.inputs)
      /\ LoadedOK(Batchable(ledger), kind, entries)
  BY <1>1, LoadedFromFiles, LoadedLeavesOK DEF SessionInv
<1>6. ASSUME NEW i \in 1..Len(entries)
      PROVE  records[i] \in Ledger!StdinRecords(kind)
  <2>1. records[i] = entries[i].record
    BY DEF Records
  <2> QED
    BY <1>4, <1>5, <2>1, LoadedRecords DEF LoadedOK
<1>7. records \in BoundedSeq(Ledger!StdinRecords(kind), MaxLeaves)
  <2> HIDE DEF records, entries
  <2> QED
    BY <1>3, <1>4, <1>5, <1>6, BoundsAssumption, SeqIsBounded
<1>8. context \in Ledger!Images \cup {PolicyDigest}
  <2>1. 1 \in 1..Len(entries)
    BY <1>5
  <2>2. entries[1].receipt \in Batchable(ledger)
    BY <1>5, <2>1 DEF LoadedOK
  <2>3. entries[1].receipt.image \in Ledger!Images
    BY <1>4, <2>2, SameImages DEF ProofsOK, Sound, Attested
  <2> QED
    BY <2>3 DEF Context
<1> HIDE DEF records, context, entries, kind
<1>9. kind \in SupportedLeafKinds
  BY <1>4 DEF GuestAccepts
<1>10. Batchable(ledger') = Batchable(ledger) \cup {r}
  BY <1>2 DEF Batchable, BatchImage
<1>11. /\ GuestClaim(kind, context, records) = Ledger!GuestClaim(kind, context, records)
       /\ Ledger!GuestAccepts(kind, context, records, Batchable(ledger))
  BY <1>4, SameGuestClaim, SameGuestAccepts
<1>12. Ledger!ProveBatch(kind, context, records, Batchable(ledger), receiptKind)
  BY <1>2, <1>10, <1>11
     DEF Ledger!ProveBatch, Ledger!Opening, Ledger!Receipt, Encode, Ledger!Encode, Batchable
<1> QED
  BY <1>1, <1>7, <1>8, <1>9, <1>12 DEF Ledger!Next, Ledger!BoundedSeq, BoundedSeq,
     Ledger!SeqOf, SeqOf, Batchable

LEMMA InitImplements == Init => Ledger!Init
<1> SUFFICES ASSUME Init
             PROVE  Ledger!Init
  OBVIOUS
<1>1. ledger = {GivenReceipt(g) : g \in Given} /\ openings = {}
  BY DEF Init
<1>2. {r \in ledger : r.image # "xpub"} = {GivenReceipt(g) : g \in {g \in Given : g.lane # "xpub"}}
  BY <1>1, GivenLeaf
<1> QED
  BY <1>1, <1>2 DEF Ledger!Init

(* The refinement: by whatever files the artifacts of one command got to   *)
(* the next, the receipts and openings change only as BatchLedger lets one *)
(* guest run change them.                                                  *)
THEOREM SessionImplementsLedger == Spec => ImplementsLedger
<1>1. SessionInv /\ [Next]_sessionVars =>
        [UNCHANGED Ledger!ledgerVars \/ Ledger!Next]_sessionVars
  <2> SUFFICES ASSUME SessionInv, Next
               PROVE  UNCHANGED Ledger!ledgerVars \/ Ledger!Next
    OBVIOUS
  <2>1. PICK line \in Lines : Type(line)
    BY DEF Next
  <2>2. CASE UNCHANGED proofVars
    BY <2>2 DEF proofVars, Ledger!ledgerVars
  <2>3. CASE ProveBatch(line) /\ line.command = "prove-batch"
    BY <2>2, <2>3, LinesHaveWords, ProveBatchIs, ProvesBatchImplements DEF Silent
  <2>4. ASSUME NEW lane \in Lanes, RunProve(lane, line), line.command = ProveCommand(lane)
        PROVE  UNCHANGED Ledger!ledgerVars \/ Ledger!Next
    BY <2>2, <2>4, RunProveIs, ProvesLeafImplements DEF Silent
  <2> QED
    BY <2>1, <2>2, <2>3, <2>4, Provers
<1> QED
  BY <1>1, InitImplements, SessionInvariant, PTL DEF Spec, ImplementsLedger

-----------------------------------------------------------------------------
(* What an accepted chain shows.                                           *)

VerifyBatchFlags ==
  {"guest", "receipt-in", "claim-in", "inclusion-in", "inclusion-chain-in"}

LEMMA VerifyBatchArgs ==
  ASSUME NEW argv
  PROVE  LET parsed == Parse(VerifyBatchFlags, {}, argv)
             args   == parseVerifyBatchArgs(argv)
         IN  /\ args.ok = parsed.ok
             /\ args.receiptIn = Text(parsed, "receipt-in", "")
             /\ args.claimIn = Text(parsed, "claim-in", "")
             /\ args.inclusionIns = Texts(parsed, "inclusion-in")
             /\ args.chainIn = Text(parsed, "inclusion-chain-in", "")
BY DEF parseVerifyBatchArgs, VerifyBatchFlags

LEMMA VerifyBatchShaped ==
  ASSUME SessionInv, NEW argv, Len(argv) \in Nat
  PROVE  LET args == parseVerifyBatchArgs(argv)
         IN  ProofsShaped(loadBatchInclusionProofs(args.inclusionIns, args.chainIn))
<1> DEFINE args == parseVerifyBatchArgs(argv)
           parsed == Parse(VerifyBatchFlags, {}, argv)
<1>1. IsSeq(Texts(parsed, "inclusion-in"))
  BY TextsAreList
<1>2. IsSeq(args.inclusionIns)
  BY <1>1, VerifyBatchArgs
<1> HIDE DEF args
<1>3. ProofsShaped(loadBatchInclusionProofs(args.inclusionIns, args.chainIn))
  BY <1>2, ProofsAreShaped DEF SessionInv
<1> QED
  BY <1>3 DEF args

(* A receipt of the batch guest is of an opening.                          *)
LEMMA BatchReceiptOpens ==
  ASSUME ProofsOK(ledger, openings, witnesses), NEW r \in ledger, r.image = BatchImage
  PROVE  \E o \in openings : r.journal = Encode(o.claim) /\ Decode(r.journal) = o.claim
<1>1. r \in Batchable(ledger)
  BY DEF Batchable, BatchImage
<1>2. PICK o \in openings : r.journal = Encode(o.claim)
  BY <1>1 DEF ProofsOK, Sound, Attested
<1> QED
  BY <1>2, EncodeDecodes

LEMMA LastOf ==
  ASSUME NEW s, Len(s) \in Nat
  PROVE  Last(s) = s[Len(s)]
BY DEF Last

LEMMA ChainCommand ==
  ASSUME SessionInv, NEW line, Len(line.argv) \in Nat, VerifyBatch(line),
         last'.exit = 0, last'.report.inclusions # <<>>
  PROVE  LET claim   == Last(last'.report.claims)
             record  == Last(last'.report.inclusions).leafJournal
             image   == RecordImage(claim.leafClaimKind, claim.leafGuestImageID, record)
             journal == RecordJournal(claim.leafClaimKind, record)
         IN  IF image = BatchImage
             THEN \E o \in openings : Encode(o.claim) = journal
             ELSE \E w \in witnesses :
                    /\ w.image = image
                    /\ w.journal = journal
                    /\ journal.body = LeafGuestJournal(image, w.stdin).claim
<1> DEFINE args   == parseVerifyBatchArgs(line.argv)
           proofs == loadBatchInclusionProofs(args.inclusionIns, args.chainIn)
           root   == Decode(DataIn(args.receiptIn).journal)
           n      == Len(proofs)
           A      == Batchable(ledger)
           claims == IF proofs = <<>> THEN <<root>> ELSE ChainClaims(root, proofs)
<1>1. /\ VerifiesBatch(args)
      /\ last'.report = [of |-> "batch", claims |-> claims, inclusions |-> proofs]
  <2>1. Reports(line, VerifiesBatch(args),
                [of |-> "batch", claims |-> claims, inclusions |-> proofs])
    BY DEF VerifyBatch
  <2> HIDE DEF args, claims, proofs
  <2> QED
    BY <2>1 DEF Reports, Exit
<1>2. ProofsShaped(proofs)
  BY VerifyBatchShaped
<1>3. /\ Holds(args.receiptIn, "receipt")
      /\ DataIn(args.receiptIn).image = BatchImage
      /\ proofs # <<>> => VerifyBatchInclusionChain(root, proofs)
  BY <1>1 DEF VerifiesBatch
<1> HIDE DEF args
<1>4. DataIn(args.receiptIn) \in ledger
  BY <1>3, HeldReceipt DEF SessionInv
<1>5. \E o \in openings : o.claim = root
  BY <1>3, <1>4, BatchReceiptOpens DEF SessionInv
<1> HIDE DEF proofs, root
<1>6. last'.report.claims = claims /\ last'.report.inclusions = proofs
  <2> HIDE DEF claims
  <2> QED
    BY <1>1
<1>7. proofs # <<>> /\ claims = ChainClaims(root, proofs)
  BY <1>6
<1>8. n \in Nat \ {0}
  BY <1>2, <1>3, <1>7 DEF ProofsShaped, VerifyBatchInclusionChain
<1>9. Sound(A, openings, LeafImagesOf, {}, BatchImage)
  BY DEF SessionInv, ProofsOK
<1>10. \A k \in 1..n : Backs(A, openings, ChainClaims(root, proofs)[k], proofs[k])
  <2> HIDE DEF A
  <2> QED
    BY <1>2, <1>3, <1>5, <1>7, <1>8, <1>9, OwnChainSound DEF ProofsShaped
<1>11. Len(claims) = n
  BY <1>7, <1>8 DEF ChainClaims
<1> HIDE DEF claims
<1>12. Last(claims) = ChainClaims(root, proofs)[n] /\ Last(proofs) = proofs[n]
  BY <1>7, <1>8, <1>11, LastOf
<1> DEFINE claim   == Last(claims)
           record  == Last(proofs).leafJournal
           image   == RecordImage(claim.leafClaimKind, claim.leafGuestImageID, record)
           journal == RecordJournal(claim.leafClaimKind, record)
<1>13. Resolved(A, image, journal)
  <2>1. Backs(A, openings, ChainClaims(root, proofs)[n], proofs[n])
    BY <1>8, <1>10
  <2> QED
    BY <1>12, <2>1 DEF Backs
<1> HIDE DEF image, journal
<1>14. PICK r \in A : r.image = image /\ r.journal = journal
  BY <1>13 DEF Resolved
<1>15. r \in ledger /\ ProofsOK(ledger, openings, witnesses)
  BY DEF A, Batchable, SessionInv
<1>16. ASSUME image # BatchImage
       PROVE  \E w \in witnesses :
                /\ w.image = image
                /\ w.journal = journal
                /\ journal.body = LeafGuestJournal(image, w.stdin).claim
  <2>1. image \in Lanes /\ image # "xpub"
    BY <1>14, <1>15, <1>16 DEF ProofsOK, ReceiptsOK, A, Batchable
  <2>2. PICK w \in witnesses : w.image = image /\ w.journal = journal
    BY <1>14, <1>15, <2>1 DEF ProofsOK, Witnessed
  <2>3. journal = LeafRecord(image, w.stdin)
    BY <1>15, <2>2 DEF ProofsOK, Witnessed, WitnessOf
  <2>4. journal.body = LeafGuestJournal(image, w.stdin).claim
    BY <2>1, <2>3, LeafRecordFacts
  <2> QED
    BY <2>2, <2>4
<1>17. IF image = BatchImage
       THEN \E o \in openings : Encode(o.claim) = journal
       ELSE \E w \in witnesses :
              /\ w.image = image
              /\ w.journal = journal
              /\ journal.body = LeafGuestJournal(image, w.stdin).claim
  <2>1. CASE image = BatchImage
    <3>1. \E o \in openings : r.journal = Encode(o.claim)
      BY <1>14, <1>15, <2>1, BatchReceiptOpens
    <3> QED
      BY <1>14, <2>1, <3>1
  <2>2. CASE image # BatchImage
    BY <1>16, <2>2
  <2> QED
    BY <2>1, <2>2
<1> QED
  BY <1>6, <1>17 DEF image, journal

(* docs/batch-merkle-system.md, "Nested Sparse Disclosure", in any session *)
(* and for chains of any depth: the last record of a chain that            *)
(* verify-batch accepts was committed by the guest named above it, from a  *)
(* private witness, or is a batch that was proved.                         *)
THEOREM ChainsReachWitnesses == Spec => []ChainReachesWitness
<1>1. Init => ChainReachesWitness
  <2> SUFFICES ASSUME Init
               PROVE  last.line.command # "verify-batch"
    BY DEF ChainReachesWitness
  <2> DEFINE none == ""
  <2>1. last.line = [command |-> none, argv |-> <<>>]
    BY DEF Init
  <2>2. none # "verify-batch"
    OBVIOUS
  <2> HIDE DEF none
  <2>3. last.line.command = none
    BY <2>1
  <2> QED
    BY <2>2, <2>3
<1>2. SessionInv /\ ChainReachesWitness /\ [Next]_sessionVars => ChainReachesWitness'
  <2> SUFFICES ASSUME SessionInv, ChainReachesWitness, [Next]_sessionVars
               PROVE  ChainReachesWitness'
    OBVIOUS
  <2>1. CASE UNCHANGED sessionVars
    BY <2>1 DEF sessionVars, ChainReachesWitness
  <2>2. CASE Next
    <3>1. PICK line \in Lines : Type(line)
      BY <2>2 DEF Next
    <3>2. last'.line = line /\ Len(line.argv) \in Nat
      BY <3>1, TypeKeeps, LinesHaveWords
    <3>3. CASE line.command # "verify-batch"
      BY <3>2, <3>3 DEF ChainReachesWitness
    <3>4. CASE line.command = "verify-batch"
      <4>1. VerifyBatch(line)
        BY <3>1, <3>4, ByCommand
      <4>2. openings' = openings /\ witnesses' = witnesses
        BY <4>1 DEF VerifyBatch, Reports, proofVars
      <4> QED
        BY <3>2, <4>1, <4>2, ChainCommand DEF ChainReachesWitness
    <3> QED
      BY <3>3, <3>4
  <2> QED
    BY <2>1, <2>2
<1> QED
  BY <1>1, <1>2, SessionInvariant, PTL DEF Spec

-----------------------------------------------------------------------------
(* The flags of the commands.                                              *)

LEMMA FlagNames ==
  \A name \in {"receipt-kind", "receipt-out", "claim-out", "receipt-in", "claim-in",
               "leaf-kind", "direct-leaf-kind", "leaf-claim", "leaf-receipt",
               "leaf-index", "proof-out", "require-bip86", "expected-pubkey",
               "expected-path-commitment", "expected-path", "expected-chain-code",
               "expected-child-private-key", "expected-compressed-pubkey"} :
    NamesFlag(name)
<1> DEFINE none == ""
<1> SUFFICES ASSUME NEW name \in {"receipt-kind", "receipt-out", "claim-out", "receipt-in",
               "claim-in", "leaf-kind", "direct-leaf-kind", "leaf-claim", "leaf-receipt",
               "leaf-index", "proof-out", "require-bip86", "expected-pubkey",
               "expected-path-commitment", "expected-path", "expected-chain-code",
               "expected-child-private-key", "expected-compressed-pubkey"}
             PROVE  NamesFlag(name)
  OBVIOUS
<1>1. name # none
  OBVIOUS
<1>2. \A word : IsFlag(word) <=> word.flag # none
  BY DEF IsFlag
<1> HIDE DEF none
<1> QED
  BY <1>1, <1>2 DEF NamesFlag

LEMMA ProveFlagsOf ==
  ASSUME NEW lane \in Lanes, NEW line, line.command = ProveCommand(lane)
  PROVE  FlagsOf(line, WitnessFlags(lane) \cup ProofFlags, WitnessBools(lane))
<1>1. WitnessBools(lane) = Switches(line)
  BY DEF Lanes, ProveCommand, Switches, WitnessBools
<1>2. Switches(line) \subseteq {"use-test-vector", "require-bip86"}
  BY DEF Switches
<1>3. /\ "use-test-vector" \notin WitnessFlags(lane) \cup ProofFlags
      /\ "require-bip86" \notin WitnessFlags(lane) \cup ProofFlags
  BY DEF WitnessFlags, ProofFlags
<1> QED
  BY <1>1, <1>2, <1>3 DEF FlagsOf

LEMMA OtherFlagsOf ==
  ASSUME NEW line, line.command \notin {"execute", "prove"}, NEW valued,
         "use-test-vector" \notin valued
  PROVE  FlagsOf(line, valued, {})
<1>1. Switches(line) = {"use-test-vector"}
  BY DEF Switches
<1> QED
  BY <1>1 DEF FlagsOf

(* What the flags of the commands that prove say, and what was typed.      *)
LEMMA ProveAsTyped ==
  ASSUME NEW lane \in Lanes, NEW line, Len(line.argv) \in Nat, Complete(line),
         line.command = ProveCommand(lane), ParsedProve(lane, line.argv).ok
  PROVE  /\ ParsedProve(lane, line.argv).receiptOut = LastTyped(line, "receipt-out")
         /\ ParsedProve(lane, line.argv).claimOut = LastTyped(line, "claim-out")
<1> DEFINE valued == WitnessFlags(lane) \cup ProofFlags
           bools  == WitnessBools(lane)
           parsed == Parse(valued, bools, line.argv)
<1>1. /\ parsed.ok
      /\ ParsedProve(lane, line.argv).receiptOut = Text(parsed, "receipt-out", "")
      /\ ParsedProve(lane, line.argv).claimOut = Text(parsed, "claim-out", "")
  BY ProveArgs
<1>2. "receipt-out" \in valued /\ "claim-out" \in valued
  BY DEF ProofFlags
<1>3. FlagsOf(line, valued, bools)
  BY ProveFlagsOf
<1> HIDE DEF valued, bools
<1>4. Text(parsed, "receipt-out", "") = LastTyped(line, "receipt-out")
  BY <1>1, <1>2, <1>3, FlagNames, TextsAreTyped
<1>5. Text(parsed, "claim-out", "") = LastTyped(line, "claim-out")
  BY <1>1, <1>2, <1>3, FlagNames, TextsAreTyped
<1> QED
  BY <1>1, <1>4, <1>5

LEMMA ProveBatchAsTyped ==
  ASSUME NEW line, Len(line.argv) \in Nat, Complete(line),
         line.command = "prove-batch", parseProveBatchArgs(line.argv).leaves.ok
  PROVE  /\ parseProveBatchArgs(line.argv).receiptOut = LastTyped(line, "receipt-out")
         /\ parseProveBatchArgs(line.argv).claimOut = LastTyped(line, "claim-out")
<1> DEFINE valued == BatchFlags \cup ProofFlags
           parsed == Parse(valued, {}, line.argv)
           args   == parseProveBatchArgs(line.argv)
<1>1. /\ args.leaves = parseBatchLeafInputs(parsed)
      /\ args.receiptOut = Text(parsed, "receipt-out", "")
      /\ args.claimOut = Text(parsed, "claim-out", "")
  BY ProveBatchArgs
<1>2. /\ "receipt-out" \in valued /\ "claim-out" \in valued
      /\ "use-test-vector" \notin valued
  BY DEF BatchFlags, ProofFlags
<1> HIDE DEF valued, args
<1>3. parsed.ok
  <2>1. args.leaves.ok
    BY DEF args
  <2> QED
    BY <1>1, <2>1, LeavesFacts
<1>4. FlagsOf(line, valued, {})
  BY <1>2, OtherFlagsOf
<1>5. Text(parsed, "receipt-out", "") = LastTyped(line, "receipt-out")
  BY <1>2, <1>3, <1>4, FlagNames, TextsAreTyped
<1>6. Text(parsed, "claim-out", "") = LastTyped(line, "claim-out")
  BY <1>2, <1>3, <1>4, FlagNames, TextsAreTyped
<1> QED
  BY <1>1, <1>5, <1>6 DEF args

-----------------------------------------------------------------------------
(* The two files that a command which proves leaves behind.                *)

LEMMA ArtifactsWritten ==
  ASSUME SessionInv, NEW args, NEW r,
         NEW line, WriteFiles(line, Artifacts(args, r))
  PROVE  /\ faults' = faults => last'.exit = 0
         /\ last'.line = line
         /\ last'.exit = 0 =>
              /\ args.receiptOut \in DOMAIN files' /\ args.claimOut \in DOMAIN files'
              /\ files'[args.claimOut] = Full(Content("claim", PublicClaim(r)))
              /\ args.receiptOut # args.claimOut =>
                   files'[args.receiptOut] = Full(Content("receipt", r))
<1> DEFINE puts == Artifacts(args, r)
<1>1. /\ Len(puts) = 2
      /\ puts[1].path = args.receiptOut /\ puts[2].path = args.claimOut
      /\ puts[1].content = Content("receipt", r)
      /\ puts[2].content = Content("claim", PublicClaim(r))
  BY DEF Artifacts
<1>2. WriteFiles(line, puts)
  OBVIOUS
<1> HIDE DEF puts
<1>3. faults < MaxFaults => faults + 1 # faults
  BY BoundsAssumption DEF SessionInv, CountersOK
<1>4. /\ faults' = faults => last'.exit = 0
      /\ last'.line = line
      /\ last'.exit = 0 => files' = Written(puts, Len(puts))
  BY <1>2, <1>3 DEF WriteFiles, Exit
<1>5. Written(puts, 2) = Put(Put(files, args.receiptOut, Full(Content("receipt", r))),
                             args.claimOut, Full(Content("claim", PublicClaim(r))))
  BY <1>1, WrittenIs
<1> DEFINE between == Put(files, args.receiptOut, Full(Content("receipt", r)))
           after   == Put(between, args.claimOut, Full(Content("claim", PublicClaim(r))))
<1>6. /\ args.receiptOut \in DOMAIN between
      /\ between[args.receiptOut] = Full(Content("receipt", r))
  BY DEF Put
<1> HIDE DEF between
<1>7. /\ args.receiptOut \in DOMAIN after /\ args.claimOut \in DOMAIN after
      /\ after[args.claimOut] = Full(Content("claim", PublicClaim(r)))
      /\ args.receiptOut # args.claimOut => after[args.receiptOut] = between[args.receiptOut]
  BY <1>6 DEF Put
<1>8. last'.exit = 0 => files' = after
  BY <1>1, <1>4, <1>5 DEF between
<1> HIDE DEF after
<1> QED
  BY <1>4, <1>6, <1>7, <1>8

(* batch_runner.go:140 and its siblings, of any session: a command that    *)
(* proved something leaves the receipt in the file it was told to, unless  *)
(* a write failed; no check after the proof throws it away.                *)
THEOREM ProvedIsKept == Spec => ProofsAreKept
<1> DEFINE Kept(line, r) ==
      \/ faults' # faults
      \/ /\ last'.exit = 0
         /\ \/ ~Complete(line)
            \/ LastTyped(line, "receipt-out") = LastTyped(line, "claim-out")
            \/ files'[LastTyped(line, "receipt-out")] = Full(Content("receipt", r))
<1>1. ASSUME SessionInv, NEW line \in Lines, Type(line), NEW r \in ledger' \ ledger
      PROVE  Kept(line, r) /\ last'.line = line
  <2>1. last'.line = line /\ Len(line.argv) \in Nat
    BY <1>1, TypeKeeps, LinesHaveWords
  <2>2. CASE UNCHANGED proofVars
    BY <2>2 DEF proofVars
  <2>3. ASSUME NEW lane \in Lanes, line.command = ProveCommand(lane), ProvesLeaf(lane, line)
        PROVE  Kept(line, r)
    <3> DEFINE args == ParsedProve(lane, line.argv)
    <3>1. /\ r = LeafReceipt(lane, args) /\ args.ok
          /\ WriteFiles(line, Artifacts(args, LeafReceipt(lane, args)))
      BY <2>3 DEF ProvesLeaf
    <3>2. Complete(line) => /\ args.receiptOut = LastTyped(line, "receipt-out")
                            /\ args.claimOut = LastTyped(line, "claim-out")
      BY <2>1, <2>3, <3>1, ProveAsTyped
    <3> HIDE DEF args
    <3> QED
      BY <1>1, <3>1, <3>2, ArtifactsWritten
  <2>4. CASE ProvesBatch(line) /\ line.command = "prove-batch"
    <3> DEFINE args == parseProveBatchArgs(line.argv)
    <3>1. /\ r = BatchReceipt(args) /\ args.leaves.ok
          /\ WriteFiles(line, Artifacts(args, BatchReceipt(args)))
      BY <2>4 DEF ProvesBatch, Loads
    <3>2. Complete(line) => /\ args.receiptOut = LastTyped(line, "receipt-out")
                            /\ args.claimOut = LastTyped(line, "claim-out")
      BY <2>1, <2>4, <3>1, ProveBatchAsTyped
    <3> HIDE DEF args
    <3> QED
      BY <1>1, <3>1, <3>2, ArtifactsWritten
  <2>5. \/ UNCHANGED proofVars
        \/ ProvesBatch(line) /\ line.command = "prove-batch"
        \/ \E lane \in Lanes : line.command = ProveCommand(lane) /\ ProvesLeaf(lane, line)
    <3>1. CASE ProveBatch(line) /\ line.command = "prove-batch"
      BY <1>1, <2>1, <3>1, ProveBatchIs DEF Silent
    <3>2. ASSUME NEW lane \in Lanes, RunProve(lane, line), line.command = ProveCommand(lane)
          PROVE  UNCHANGED proofVars \/ ProvesLeaf(lane, line)
      BY <3>2, RunProveIs DEF Silent
    <3> QED
      BY <1>1, <3>1, <3>2, Provers
  <2> QED
    BY <2>1, <2>2, <2>3, <2>4, <2>5
<1>2. SessionInv /\ [Next]_sessionVars =>
        [\A r \in ledger' \ ledger :
           LET line       == last'.line
               receiptOut == LastTyped(line, "receipt-out")
           IN  \/ faults' # faults
               \/ /\ last'.exit = 0
                  /\ \/ ~Complete(line)
                     \/ receiptOut = LastTyped(line, "claim-out")
                     \/ files'[receiptOut] = Full(Content("receipt", r))
        ]_sessionVars
  <2> SUFFICES ASSUME SessionInv, Next, NEW r \in ledger' \ ledger
               PROVE  Kept(last'.line, r)
    OBVIOUS
  <2>1. PICK line \in Lines : Type(line)
    BY DEF Next
  <2>2. Kept(line, r) /\ last'.line = line
    BY <1>1, <2>1
  <2> HIDE DEF Kept
  <2> QED
    BY <2>2
<1> QED
  BY <1>2, SessionInvariant, PTL DEF Spec, ProofsAreKept

-----------------------------------------------------------------------------
(* What a verify command of a lane was told.                               *)

VerifyFlags(lane) ==
  {"guest", "receipt-in", "claim-in"} \cup
  CASE lane = "taproot" -> {"expected-pubkey", "expected-path-commitment", "expected-path",
                            "require-bip86"}
    [] lane = "xpriv"   -> {"expected-child-private-key", "expected-chain-code"}
    [] lane = "xpub"    -> {"expected-compressed-pubkey", "expected-chain-code"}

KeyFlag(lane) ==
  IF lane = "xpriv" THEN "expected-child-private-key" ELSE "expected-compressed-pubkey"

LEMMA VerifyArgs ==
  ASSUME NEW lane \in Lanes, NEW argv
  PROVE  LET parsed == Parse(VerifyFlags(lane), {}, argv)
             args   == ParsedVerify(lane, argv)
         IN  /\ args.ok = parsed.ok
             /\ args.receiptIn = Text(parsed, "receipt-in", "")
             /\ args.claimIn = Text(parsed, "claim-in", "")
             /\ args.expect =
                  IF lane = "taproot" THEN verifyExpectationsFromArgs(parsed)
                  ELSE [key       |-> HexText(Text(parsed, KeyFlag(lane), "")),
                        chainCode |-> HexText(Text(parsed, "expected-chain-code", ""))]
<1>1. CASE lane = "taproot"
  BY <1>1 DEF ParsedVerify, parseVerifyArgs, ParseVerify, VerifyFlags
<1>2. CASE lane = "xpriv"
  BY <1>2 DEF ParsedVerify, parseVerifyHardenedXPrivArgs, ParseVerify, VerifyFlags, KeyFlag
<1>3. CASE lane = "xpub"
  BY <1>3 DEF ParsedVerify, parseVerifyHardenedXPubArgs, ParseVerify, VerifyFlags, KeyFlag
<1> QED
  BY <1>1, <1>2, <1>3 DEF Lanes

(* The policy is the one that the words say, BIP-86 if they say nothing.   *)
LEMMA PolicyAsTyped ==
  ASSUME NEW line, NEW parsed, Texts(parsed, "require-bip86") = Typed(line, "require-bip86"),
         Texts(parsed, "require-bip86") # <<>> =>
           Settable("require-bip86", LastTyped(line, "require-bip86"))
  PROVE  Bool(parsed, "require-bip86", TRUE) <=>
           LastTyped(line, "require-bip86") \notin FalseTexts
<1> DEFINE none  == ""
           texts == Typed(line, "require-bip86")
<1>1. none \notin FalseTexts
  BY DEF FalseTexts
<1>2. TrueTexts \cap FalseTexts = {} /\ "true" \in TrueTexts
  BY DEF TrueTexts, FalseTexts
<1>3. LastTyped(line, "require-bip86") = IF texts = <<>> THEN none ELSE Last(texts)
  BY DEF LastTyped
<1>4. Bool(parsed, "require-bip86", TRUE) <=>
        (IF texts = <<>> THEN "true" ELSE Last(texts)) \in TrueTexts
  BY DEF Bool, Text
<1>5. texts # <<>> => LastTyped(line, "require-bip86") \in TrueTexts \cup FalseTexts
  BY DEF Settable
<1> HIDE DEF none, texts
<1> QED
  BY <1>1, <1>2, <1>3, <1>4, <1>5

LEMMA VerifyAsTyped ==
  ASSUME NEW lane \in Lanes, NEW line, Len(line.argv) \in Nat, Complete(line),
         line.command = VerifyCommand(lane), ParsedVerify(lane, line.argv).ok
  PROVE  LET args == ParsedVerify(lane, line.argv)
         IN  /\ args.receiptIn = LastTyped(line, "receipt-in")
             /\ args.claimIn = LastTyped(line, "claim-in")
             /\ args.expect = MeantExpectations(lane, line)
<1> DEFINE valued == VerifyFlags(lane)
           parsed == Parse(valued, {}, line.argv)
           args   == ParsedVerify(lane, line.argv)
<1>1. /\ parsed.ok
      /\ args.receiptIn = Text(parsed, "receipt-in", "")
      /\ args.claimIn = Text(parsed, "claim-in", "")
      /\ args.expect =
           IF lane = "taproot" THEN verifyExpectationsFromArgs(parsed)
           ELSE [key       |-> HexText(Text(parsed, KeyFlag(lane), "")),
                 chainCode |-> HexText(Text(parsed, "expected-chain-code", ""))]
  BY VerifyArgs
<1>2. FlagsOf(line, valued, {})
  <2>1. "use-test-vector" \notin valued
    BY DEF VerifyFlags, Lanes
  <2>2. line.command \notin {"execute", "prove"}
    BY DEF VerifyCommand, Lanes
  <2> QED
    BY <2>1, <2>2, OtherFlagsOf
<1>3. ASSUME NEW name \in valued, NamesFlag(name)
      PROVE  /\ Texts(parsed, name) = Typed(line, name)
             /\ Text(parsed, name, "") = LastTyped(line, name)
             /\ Texts(parsed, name) # <<>> => Settable(name, LastTyped(line, name))
  <2> HIDE DEF valued
  <2> QED
    BY <1>1, <1>2, <1>3, TextsAreTyped
<1>4. "receipt-in" \in valued /\ "claim-in" \in valued
  BY DEF VerifyFlags
<1> HIDE DEF args, parsed
<1>5. /\ Text(parsed, "receipt-in", "") = LastTyped(line, "receipt-in")
      /\ Text(parsed, "claim-in", "") = LastTyped(line, "claim-in")
  BY <1>3, <1>4, FlagNames
<1>6. CASE lane = "taproot"
  <2>1. /\ "expected-pubkey" \in valued /\ "expected-path-commitment" \in valued
        /\ "expected-path" \in valued /\ "require-bip86" \in valued
    BY <1>6 DEF VerifyFlags
  <2>2. /\ Text(parsed, "expected-pubkey", "") = LastTyped(line, "expected-pubkey")
        /\ Text(parsed, "expected-path-commitment", "")
             = LastTyped(line, "expected-path-commitment")
        /\ Text(parsed, "expected-path", "") = LastTyped(line, "expected-path")
    BY <1>3, <2>1, FlagNames
  <2>3. Bool(parsed, "require-bip86", TRUE) <=>
          LastTyped(line, "require-bip86") \notin FalseTexts
    BY <1>3, <2>1, FlagNames, PolicyAsTyped
  <2>4. verifyExpectationsFromArgs(parsed) = MeantExpectations(lane, line)
    BY <1>6, <2>2, <2>3 DEF verifyExpectationsFromArgs, MeantExpectations
  <2> QED
    BY <1>1, <1>5, <1>6, <2>4 DEF args
<1>7. CASE lane # "taproot"
  <2>1. KeyFlag(lane) \in valued /\ "expected-chain-code" \in valued
    BY <1>7 DEF VerifyFlags, KeyFlag, Lanes
  <2>2. NamesFlag(KeyFlag(lane)) /\ NamesFlag("expected-chain-code")
    BY FlagNames DEF KeyFlag
  <2>3. /\ Text(parsed, KeyFlag(lane), "") = LastTyped(line, KeyFlag(lane))
        /\ Text(parsed, "expected-chain-code", "") = LastTyped(line, "expected-chain-code")
    BY <1>3, <2>1, <2>2
  <2>4. MeantExpectations(lane, line)
          = [key       |-> HexText(LastTyped(line, KeyFlag(lane))),
             chainCode |-> HexText(LastTyped(line, "expected-chain-code"))]
    BY <1>7 DEF MeantExpectations, KeyFlag
  <2> QED
    BY <1>1, <1>5, <1>7, <2>3, <2>4 DEF args
<1> QED
  BY <1>6, <1>7

(* A receipt of a lane was proved from a witness.                          *)
LEMMA LeafReceiptFrom ==
  ASSUME ProofsOK(ledger, openings, witnesses), NEW r \in ledger, r.image \in Lanes
  PROVE  \E w \in witnesses : /\ w.image = r.image
                              /\ w.journal = r.journal
                              /\ WitnessOf(w)
BY DEF ProofsOK, Witnessed

(* The one claim.json that matches a receipt of the lane is its own.       *)
LEMMA MatchingClaim ==
  ASSUME SessionInv, NEW path, NEW lane \in Lanes, NEW stdin,
         MatchesClaimFile(lane, ReadClaimFile(path),
                          [image |-> lane, journal |-> JournalOf(LeafRecord(lane, stdin))])
  PROVE  File(path) = Full(Content("claim", [image   |-> lane,
                                             journal |-> LeafRecord(lane, stdin)]))
<1> DEFINE none == ""
           s    == [image |-> lane, journal |-> JournalOf(LeafRecord(lane, stdin))]
           file == ReadClaimFile(path)
<1>1. s.image = lane /\ s.journal = JournalOf(LeafRecord(lane, stdin)) /\ lane \in LaneNames
  BY ImagesDiffer
<1>2. none \notin Lanes
  BY DEF Lanes
<1>3. /\ ~Holds(path, "claim") => file = [imageID |-> none]
      /\ Holds(path, "claim") =>
           file = IF DataIn(path).image \in Lanes
                  THEN ClaimFileOf([image   |-> DataIn(path).image,
                                    journal |-> JournalOf(DataIn(path).journal)])
                  ELSE [imageID |-> DataIn(path).image]
  BY DEF ReadClaimFile
<1>4. MatchesClaimFile(s.image, file, s)
  BY <1>1
<1> HIDE DEF none, s, file
<1>5. file.imageID = lane
  <2>1. file.imageID = ClaimFileOf(s).imageID
    BY <1>1, <1>4 DEF MatchesClaimFile, verifyClaimFileMatches,
       verifyHardenedXPrivClaimFileMatches, verifyHardenedXPubClaimFileMatches, LaneNames
  <2> QED
    BY <1>1, <2>1, ClaimFileFields
<1>6. Holds(path, "claim")
  <2> SUFFICES ASSUME ~Holds(path, "claim")
               PROVE  FALSE
    OBVIOUS
  <2>1. file = [imageID |-> none]
    BY <1>3
  <2>2. file.imageID = none
    BY <2>1
  <2> QED
    BY <1>2, <1>5, <2>2
<1>7. PICK q \in ledger : DataIn(path) = PublicClaim(q)
  BY <1>6, HeldClaim DEF SessionInv
<1>8. /\ DataIn(path).image = q.image /\ DataIn(path).journal = q.journal
      /\ DataIn(path) = [image |-> q.image, journal |-> q.journal]
  BY <1>7 DEF PublicClaim
<1>9. q.image \in Lanes
  <2> SUFFICES ASSUME q.image \notin Lanes
               PROVE  FALSE
    OBVIOUS
  <2>1. file = [imageID |-> q.image]
    BY <1>3, <1>6, <1>8
  <2>2. file.imageID = q.image
    BY <2>1
  <2> QED
    BY <1>5, <2>2
<1> DEFINE t == [image |-> q.image, journal |-> JournalOf(q.journal)]
<1>10. file = ClaimFileOf(t) /\ t.image = q.image /\ t.journal = JournalOf(q.journal)
  BY <1>3, <1>6, <1>8, <1>9
<1> HIDE DEF t
<1>11. q.image = lane /\ JournalOf(q.journal) = s.journal
  <2>1. t.image \in LaneNames /\ s.image \in LaneNames
    BY <1>1, <1>9, <1>10, ImagesDiffer
  <2>2. MatchesClaimFile(s.image, ClaimFileOf(t), s)
    BY <1>4, <1>10
  <2>3. ClaimFileOf(t) = ClaimFileOf(s)
    BY <2>1, <2>2, FileMatches
  <2>4. /\ ClaimFileOf(t).imageID = t.image /\ ClaimFileOf(t).journal = t.journal
        /\ ClaimFileOf(s).imageID = s.image /\ ClaimFileOf(s).journal = s.journal
    BY <2>1, ClaimFileFields
  <2> QED
    BY <1>1, <1>10, <2>3, <2>4
<1>12. PICK w \in witnesses : w.journal = q.journal /\ w.image = q.image /\ WitnessOf(w)
  BY <1>9, LeafReceiptFrom DEF SessionInv
<1>13. q.journal = LeafRecord(lane, w.stdin)
  BY <1>11, <1>12 DEF WitnessOf
<1>14. LeafGuestJournal(lane, w.stdin) = LeafGuestJournal(lane, stdin)
  BY <1>1, <1>11, <1>13, LeafRecordFacts
<1>15. q.journal = LeafRecord(lane, stdin)
  BY <1>13, <1>14 DEF LeafRecord
<1>16. File(path) = Full(Content("claim", DataIn(path)))
  <2>1. /\ ContentOK(ledger, File(path).data) /\ File(path) = Full(File(path).data)
        /\ File(path).data.as = "claim"
    BY <1>6, HeldContent DEF SessionInv
  <2> QED
    BY <2>1 DEF ContentOK, DataIn
<1> QED
  BY <1>8, <1>11, <1>15, <1>16

LEMMA MeantIsReadable ==
  ASSUME NEW lane \in Lanes, NEW line
  PROVE  ReadableExpectations(lane, MeantExpectations(lane, line))
<1> SUFFICES ASSUME lane = "taproot"
             PROVE  LET e == MeantExpectations(lane, line)
                    IN  IsPathText(e.path) /\ e.requireBIP86 \in {"", "yes", "no"}
  BY DEF ReadableExpectations
<1>1. /\ MeantExpectations(lane, line).path = PathText(LastTyped(line, "expected-path"))
      /\ MeantExpectations(lane, line).requireBIP86 \in {"yes", "no"}
  BY DEF MeantExpectations
<1> QED
  BY <1>1, TextIsPath

(* What VerifiedAsTyped says of the witness behind a line.                 *)
IsBehind(w, lane, line) ==
  LET receiptIn == LastTyped(line, "receipt-in")
      claimIn   == LastTyped(line, "claim-in")
  IN  /\ w.image = lane
      /\ Describes(lane, MeantExpectations(lane, line), w.stdin)
      /\ Holds(receiptIn, "receipt")
      /\ DataIn(receiptIn).image = lane
      /\ DataIn(receiptIn).journal = w.journal
      /\ claimIn # "" =>
           File(claimIn) = Full(Content("claim", [image |-> lane, journal |-> w.journal]))

LEMMA VerifiedCommand ==
  ASSUME SessionInv, NEW lane \in Lanes, NEW line, Len(line.argv) \in Nat, Complete(line),
         line.command = VerifyCommand(lane), Verifies(lane, ParsedVerify(lane, line.argv))
  PROVE  \E w \in witnesses : IsBehind(w, lane, line)
<1> DEFINE args    == ParsedVerify(lane, line.argv)
           receipt == DataIn(args.receiptIn)
           none    == ""
<1>1. /\ args.ok
      /\ Holds(args.receiptIn, "receipt")
      /\ receipt.image = lane
      /\ args.claimIn # none =>
           MatchesClaimFile(lane, ReadClaimFile(args.claimIn),
                            [image |-> lane, journal |-> JournalOf(receipt.journal)])
      /\ MeetsExpectations(lane, args.expect, JournalOf(receipt.journal).claim)
  BY DEF Verifies
<1>2. /\ args.receiptIn = LastTyped(line, "receipt-in")
      /\ args.claimIn = LastTyped(line, "claim-in")
      /\ args.expect = MeantExpectations(lane, line)
  BY <1>1, VerifyAsTyped
<1> HIDE DEF args, none
<1>3. receipt \in ledger
  BY <1>1, HeldReceipt DEF SessionInv
<1> HIDE DEF receipt
<1>4. PICK w \in witnesses : /\ w.image = lane
                             /\ w.journal = receipt.journal
                             /\ WitnessOf(w)
  BY <1>1, <1>3, LeafReceiptFrom DEF SessionInv
<1>5. FromLeafGuest(lane, w.stdin) /\ receipt.journal = LeafRecord(lane, w.stdin)
  BY <1>4 DEF WitnessOf
<1>6. JournalOf(receipt.journal).claim = LeafGuestJournal(lane, w.stdin).claim
  BY <1>5, LeafRecordFacts
<1>7. Describes(lane, args.expect, w.stdin)
  <2>1. ReadableExpectations(lane, args.expect)
    BY <1>2, MeantIsReadable
  <2>2. MeetsExpectations(lane, args.expect, LeafGuestJournal(lane, w.stdin).claim)
    BY <1>1, <1>6
  <2> QED
    BY <1>5, <2>1, <2>2, MeetingDescribes
<1>8. args.claimIn # none =>
        File(args.claimIn) = Full(Content("claim", [image |-> lane, journal |-> w.journal]))
  BY <1>1, <1>4, <1>5, MatchingClaim
<1>9. \A v : IsBehind(v, lane, line) <=>
              /\ v.image = lane
              /\ Describes(lane, MeantExpectations(lane, line), v.stdin)
              /\ Holds(LastTyped(line, "receipt-in"), "receipt")
              /\ DataIn(LastTyped(line, "receipt-in")).image = lane
              /\ DataIn(LastTyped(line, "receipt-in")).journal = v.journal
              /\ LastTyped(line, "claim-in") # none =>
                   File(LastTyped(line, "claim-in"))
                     = Full(Content("claim", [image |-> lane, journal |-> v.journal]))
  BY DEF IsBehind, none
<1> QED
  BY <1>1, <1>2, <1>4, <1>7, <1>8, <1>9 DEF receipt

(* runner.go:158-160, in any session: when a verify command succeeds, the  *)
(* receipt it was pointed to was proved from a private witness that is as  *)
(* the words of the line say (and BIP-86, unless told otherwise), and the  *)
(* claim.json that was named, if any, is of that receipt.                  *)
THEOREM VerifiedIsAsTyped == Spec => []VerifiedAsTyped
<1>1. Init => VerifiedAsTyped
  <2> SUFFICES ASSUME Init, NEW lane \in Lanes
               PROVE  last.line.command # VerifyCommand(lane)
    BY DEF VerifiedAsTyped
  <2> DEFINE none == ""
  <2>1. last.line = [command |-> none, argv |-> <<>>]
    BY DEF Init
  <2>2. none # VerifyCommand(lane)
    BY DEF VerifyCommand, Lanes
  <2> HIDE DEF none
  <2>3. last.line.command = none
    BY <2>1
  <2> QED
    BY <2>2, <2>3
<1>2. SessionInv /\ VerifiedAsTyped /\ [Next]_sessionVars => VerifiedAsTyped'
  <2> SUFFICES ASSUME SessionInv, VerifiedAsTyped, [Next]_sessionVars
               PROVE  VerifiedAsTyped'
    OBVIOUS
  <2>1. CASE UNCHANGED sessionVars
    BY <2>1 DEF sessionVars, VerifiedAsTyped, File, Holds, DataIn
  <2>2. CASE Next
    <3>1. PICK line \in Lines : Type(line)
      BY <2>2 DEF Next
    <3>2. last'.line = line /\ Len(line.argv) \in Nat
      BY <3>1, TypeKeeps, LinesHaveWords
    <3>3. ASSUME NEW lane \in Lanes, line.command = VerifyCommand(lane), last'.exit = 0,
                 Complete(line)
          PROVE  (\E w \in witnesses : IsBehind(w, lane, line))'
      <4>1. RunVerify(lane, line)
        BY <3>1, <3>3, ByCommand
      <4>2. files' = files /\ witnesses' = witnesses
        BY <4>1 DEF RunVerify, Reports, proofVars, diskVars
      <4>3. Verifies(lane, ParsedVerify(lane, line.argv))
        BY <3>3, <4>1 DEF RunVerify, Reports, Exit
      <4>4. \E w \in witnesses : IsBehind(w, lane, line)
        BY <3>2, <3>3, <4>3, VerifiedCommand
      <4> QED
        BY <4>2, <4>4 DEF IsBehind, File, Holds, DataIn
    <3> QED
      BY <3>2, <3>3 DEF VerifiedAsTyped, IsBehind
  <2> QED
    BY <2>1, <2>2
<1> QED
  BY <1>1, <1>2, SessionInvariant, PTL DEF Spec

-----------------------------------------------------------------------------
(* The inputs of a batch command, and the words for them.                  *)

LEMMA InputFlags ==
  /\ "leaf-claim" \in BatchFlags /\ "leaf-receipt" \in BatchFlags
  /\ "direct-leaf-kind" \in BatchFlags /\ "use-test-vector" \notin BatchFlags
BY DEF BatchFlags

(* One input: what was loaded from the files that were typed for it.       *)
LEMMA InputFromFiles ==
  ASSUME NEW leaves, NEW i, FromFiles(leaves, i),
         ClaimAccepted(leaves.kind, leaves.inputs[i].directKind,
                       [k \in 1..(i - 1) |-> Entries(leaves)[k]],
                       DataIn(leaves.inputs[i].slot.claim))
  PROVE  LET claim   == DataIn(leaves.inputs[i].slot.claim)
             receipt == DataIn(leaves.inputs[i].slot.receipt)
             record  == Entries(leaves)[i].record
         IN  /\ claim = PublicClaim(receipt)
             /\ receipt.kind = "succinct"
             /\ RecordJournal(leaves.kind, record) = claim.journal
             /\ leaves.kind = LeafKindHeterogeneousEnvelopeV1 =>
                  /\ record.verifyImageID = receipt.image
                  /\ record.directLeafKind = leaves.inputs[i].directKind
                  /\ leaves.inputs[i].directKind # 0
<1> DEFINE claim   == DataIn(leaves.inputs[i].slot.claim)
           receipt == DataIn(leaves.inputs[i].slot.receipt)
           record  == Entries(leaves)[i].record
           direct  == leaves.inputs[i].directKind
<1>1. /\ claim = PublicClaim(receipt)
      /\ receipt.kind = "succinct"
      /\ record = DirectRecord(leaves.kind, direct, claim)
  BY DEF FromFiles
<1>2. leaves.kind = LeafKindHeterogeneousEnvelopeV1 => CanEnvelope(direct, claim.journal)
  BY DEF ClaimAccepted
<1> HIDE DEF claim, receipt, record, direct
<1>3. claim.image = receipt.image
  BY <1>1 DEF PublicClaim
<1>4. CASE leaves.kind = LeafKindHeterogeneousEnvelopeV1
  <2>1. record = Envelope(direct, claim.image, claim.journal)
    BY <1>1, <1>4 DEF DirectRecord
  <2>2. /\ record.verifyImageID = claim.image /\ record.journal = claim.journal
        /\ record.directLeafKind = direct
    BY <2>1 DEF Envelope
  <2>3. direct # 0
    BY <1>2, <1>4, KindsDiffer DEF CanEnvelope, IsAllowedHeterogeneousDirectLeafKindV1
  <2> QED
    BY <1>1, <1>3, <1>4, <2>2, <2>3 DEF RecordJournal, claim, receipt, record, direct
<1>5. CASE leaves.kind # LeafKindHeterogeneousEnvelopeV1
  <2>1. record = claim.journal
    BY <1>1, <1>5 DEF DirectRecord
  <2> QED
    BY <1>1, <1>5, <2>1 DEF RecordJournal, claim, receipt, record, direct
<1> QED
  BY <1>4, <1>5

(* What the parser makes of the words for the inputs.                      *)
LEMMA LeavesAsTyped ==
  ASSUME NEW line, Len(line.argv) \in Nat, Complete(line),
         line.command \notin {"execute", "prove"},
         NEW valued, BatchFlags \subseteq valued, "use-test-vector" \notin valued,
         parseBatchLeafInputs(Parse(valued, {}, line.argv)).ok
  PROVE  LET leaves == parseBatchLeafInputs(Parse(valued, {}, line.argv))
             claims == Typed(line, "leaf-claim")
         IN  /\ Parse(valued, {}, line.argv).ok
             /\ IsSeq(leaves.inputs)
             /\ Len(leaves.inputs) = Len(claims)
             /\ \A i \in 1..Len(claims) :
                  /\ leaves.inputs[i].slot.claim = claims[i]
                  /\ leaves.inputs[i].slot.receipt = Typed(line, "leaf-receipt")[i]
                  /\ leaves.kind = LeafKindHeterogeneousEnvelopeV1 =>
                       leaves.inputs[i].directKind
                         = parseDirectLeafKind(Typed(line, "direct-leaf-kind")[i])
<1> DEFINE parsed == Parse(valued, {}, line.argv)
           leaves == parseBatchLeafInputs(parsed)
           claims == Texts(parsed, "leaf-claim")
<1>1. /\ IsSeq(leaves.inputs)
      /\ parsed.ok
      /\ Len(leaves.inputs) = Len(claims)
      /\ \A i \in 1..Len(claims) :
           /\ leaves.inputs[i].slot.claim = claims[i]
           /\ leaves.inputs[i].slot.receipt = Texts(parsed, "leaf-receipt")[i]
           /\ leaves.kind = LeafKindHeterogeneousEnvelopeV1 =>
                leaves.inputs[i].directKind
                  = parseDirectLeafKind(Texts(parsed, "direct-leaf-kind")[i])
  BY LeavesFacts
<1>2. FlagsOf(line, valued, {})
  BY OtherFlagsOf
<1>3. \A name \in valued : NamesFlag(name) => Texts(parsed, name) = Typed(line, name)
  BY <1>1, <1>2, TextsAreTyped
<1> HIDE DEF leaves
<1>4. /\ claims = Typed(line, "leaf-claim")
      /\ Texts(parsed, "leaf-receipt") = Typed(line, "leaf-receipt")
      /\ Texts(parsed, "direct-leaf-kind") = Typed(line, "direct-leaf-kind")
  <2> HIDE DEF parsed
  <2> QED
    BY <1>3, InputFlags, FlagNames DEF claims
<1> HIDE DEF claims
<1>5. leaves = parseBatchLeafInputs(parsed)
  BY DEF leaves
<1> HIDE DEF parsed
<1>6. /\ parsed.ok
      /\ IsSeq(leaves.inputs)
      /\ Len(leaves.inputs) = Len(claims)
      /\ \A i \in 1..Len(claims) :
           /\ leaves.inputs[i].slot.claim = claims[i]
           /\ leaves.inputs[i].slot.receipt = Typed(line, "leaf-receipt")[i]
           /\ leaves.kind = LeafKindHeterogeneousEnvelopeV1 =>
                leaves.inputs[i].directKind
                  = parseDirectLeafKind(Typed(line, "direct-leaf-kind")[i])
  BY <1>1, <1>4
<1> QED
  BY <1>4, <1>6 DEF parsed, leaves

(* Once they have loaded, the records are as typed.                        *)
LEMMA RecordsAsTyped ==
  ASSUME NEW line, Len(line.argv) \in Nat, Complete(line),
         line.command \notin {"execute", "prove"},
         NEW valued, BatchFlags \subseteq valued, "use-test-vector" \notin valued,
         NEW leaves, leaves = parseBatchLeafInputs(Parse(valued, {}, line.argv)),
         Loads(leaves)
  PROVE  /\ InputsAsTyped(line, leaves.kind, Records(Entries(leaves)))
         /\ Len(Records(Entries(leaves))) = Len(leaves.inputs)
         /\ Len(leaves.inputs) \in Nat
<1> DEFINE claims  == Typed(line, "leaf-claim")
           records == Records(Entries(leaves))
<1>1. leaves.ok
  BY DEF Loads
<1>2. /\ IsSeq(leaves.inputs)
      /\ Len(leaves.inputs) = Len(claims)
      /\ \A i \in 1..Len(claims) :
           /\ leaves.inputs[i].slot.claim = claims[i]
           /\ leaves.inputs[i].slot.receipt = Typed(line, "leaf-receipt")[i]
           /\ leaves.kind = LeafKindHeterogeneousEnvelopeV1 =>
                leaves.inputs[i].directKind
                  = parseDirectLeafKind(Typed(line, "direct-leaf-kind")[i])
  BY <1>1, LeavesAsTyped
<1>3. /\ Len(leaves.inputs) \in Nat \ {0}
      /\ Len(Entries(leaves)) = Len(leaves.inputs)
      /\ \A i \in 1..Len(leaves.inputs) :
           /\ FromFiles(leaves, i)
           /\ ClaimAccepted(leaves.kind, leaves.inputs[i].directKind,
                            [k \in 1..(i - 1) |-> Entries(leaves)[k]],
                            DataIn(leaves.inputs[i].slot.claim))
  BY <1>2, LoadedFromFiles
<1>4. Len(records) = Len(leaves.inputs)
  BY <1>3, RecordsLen
<1>5. ASSUME NEW i \in 1..Len(records)
      PROVE  LET receipt == DataIn(Typed(line, "leaf-receipt")[i])
             IN  /\ ClaimTyped(line, i) = PublicClaim(receipt)
                 /\ receipt.kind = "succinct"
                 /\ RecordJournal(leaves.kind, records[i]) = ClaimTyped(line, i).journal
                 /\ leaves.kind = LeafKindHeterogeneousEnvelopeV1 =>
                      /\ records[i].verifyImageID = receipt.image
                      /\ records[i].directLeafKind
                           = ParseBatchLeafKindName(Typed(line, "direct-leaf-kind")[i])
  <2>1. i \in 1..Len(leaves.inputs) /\ i \in 1..Len(claims)
    BY <1>2, <1>4
  <2>2. records[i] = Entries(leaves)[i].record
    BY <1>3, <2>1 DEF Records
  <2>3. /\ leaves.inputs[i].slot.claim = claims[i]
        /\ leaves.inputs[i].slot.receipt = Typed(line, "leaf-receipt")[i]
        /\ leaves.kind = LeafKindHeterogeneousEnvelopeV1 =>
             leaves.inputs[i].directKind
               = parseDirectLeafKind(Typed(line, "direct-leaf-kind")[i])
    BY <1>2, <2>1
  <2>4. FromFiles(leaves, i) /\ ClaimAccepted(leaves.kind, leaves.inputs[i].directKind,
                            [k \in 1..(i - 1) |-> Entries(leaves)[k]],
                            DataIn(leaves.inputs[i].slot.claim))
    BY <1>3, <2>1
  <2>5. LET claim   == DataIn(leaves.inputs[i].slot.claim)
            receipt == DataIn(leaves.inputs[i].slot.receipt)
            record  == Entries(leaves)[i].record
        IN  /\ claim = PublicClaim(receipt)
            /\ receipt.kind = "succinct"
            /\ RecordJournal(leaves.kind, record) = claim.journal
            /\ leaves.kind = LeafKindHeterogeneousEnvelopeV1 =>
                 /\ record.verifyImageID = receipt.image
                 /\ record.directLeafKind = leaves.inputs[i].directKind
                 /\ leaves.inputs[i].directKind # 0
    BY <2>4, InputFromFiles
  <2>6. \A value : parseDirectLeafKind(value) # 0 =>
          parseDirectLeafKind(value) = ParseBatchLeafKindName(value)
    BY DEF parseDirectLeafKind
  <2> HIDE DEF records
  <2> QED
    BY <2>2, <2>3, <2>5, <2>6 DEF ClaimTyped
<1> HIDE DEF records
<1>6. InputsAsTyped(line, leaves.kind, records)
  BY <1>2, <1>4, <1>5 DEF InputsAsTyped
<1> QED
  BY <1>3, <1>4, <1>6 DEF records

-----------------------------------------------------------------------------
(* A number that fits is not changed by the cut.                           *)
LEMMA FitsWord ==
  ASSUME NEW m \in Nat, m < 2 * HardenedKeyStart
  PROVE  m % (2 * HardenedKeyStart) = m
<1> DEFINE w == 2 * HardenedKeyStart
<1>1. w \in Nat /\ m < w
  BY IndicesAssumption
<1>2. \A j \in Nat, k \in Nat \ {0} : j < k => j % k = j
  OBVIOUS
<1> HIDE DEF w
<1>3. m % w = m
  BY <1>1, <1>2
<1> QED
  BY <1>3 DEF w

(* derive-batch-inclusion: the number typed, if it fits 32 bits, and the   *)
(* file typed.                                                             *)
LEMMA DeriveAsTyped ==
  ASSUME NEW line, Len(line.argv) \in Nat, Complete(line),
         line.command = "derive-batch-inclusion",
         parseDeriveBatchInclusionArgs(line.argv).leaves.ok,
         LastTyped(line, "leaf-index") # "",
         UintTexts[LastTyped(line, "leaf-index")] < 2 * HardenedKeyStart
  PROVE  LET args == parseDeriveBatchInclusionArgs(line.argv)
         IN  /\ args.leafIndex = UintTexts[LastTyped(line, "leaf-index")]
             /\ args.leafIndex \in Nat
             /\ args.proofOut = LastTyped(line, "proof-out")
<1> DEFINE none   == ""
           valued == BatchFlags \cup {"leaf-index", "proof-out"}
           parsed == Parse(valued, {}, line.argv)
           args   == parseDeriveBatchInclusionArgs(line.argv)
           index  == Text(parsed, "leaf-index", "")
           typed  == LastTyped(line, "leaf-index")
<1>1. /\ args.leaves = parseBatchLeafInputs(parsed)
      /\ args.leafIndex = IF index = none THEN 0
                          ELSE UintTexts[index] % (2 * HardenedKeyStart)
      /\ args.proofOut = Text(parsed, "proof-out", "")
  BY DeriveArgs
<1>2. /\ BatchFlags \subseteq valued /\ "leaf-index" \in valued /\ "proof-out" \in valued
      /\ "use-test-vector" \notin valued
  BY DEF BatchFlags
<1>3. line.command \notin {"execute", "prove"}
  OBVIOUS
<1>4. parsed.ok
  <2>1. parseBatchLeafInputs(parsed).ok
    BY <1>1
  <2> HIDE DEF valued
  <2> QED
    BY <1>2, <1>3, <2>1, LeavesAsTyped
<1> HIDE DEF valued
<1>5. ASSUME NEW name \in valued, NamesFlag(name)
      PROVE  /\ Texts(parsed, name) = Typed(line, name)
             /\ Text(parsed, name, "") = LastTyped(line, name)
             /\ Texts(parsed, name) # <<>> => Settable(name, LastTyped(line, name))
  <2>1. FlagsOf(line, valued, {})
    BY <1>2, <1>3, OtherFlagsOf
  <2> QED
    BY <1>4, <1>5, <2>1, TextsAreTyped
<1>6. NamesFlag("leaf-index") /\ NamesFlag("proof-out")
  BY FlagNames
<1>7. index = typed /\ Text(parsed, "proof-out", "") = LastTyped(line, "proof-out")
  BY <1>2, <1>5, <1>6
<1>8. /\ Texts(parsed, "leaf-index") = Typed(line, "leaf-index")
      /\ Texts(parsed, "leaf-index") # <<>> => Settable("leaf-index", typed)
  BY <1>2, <1>5, <1>6
<1>9. typed = IF Typed(line, "leaf-index") = <<>> THEN none
              ELSE Last(Typed(line, "leaf-index"))
  BY DEF LastTyped
<1>10. typed # none /\ UintTexts[typed] < 2 * HardenedKeyStart
  OBVIOUS
<1> HIDE DEF none, typed, index, parsed, args
<1>11. typed \in DOMAIN UintTexts
  BY <1>8, <1>9, <1>10 DEF Settable
<1>12. UintTexts[typed] \in Nat
  BY <1>11, TextsAssumption
<1>13. UintTexts[typed] % (2 * HardenedKeyStart) = UintTexts[typed]
  BY <1>10, <1>12, FitsWord
<1>14. args.leafIndex = UintTexts[typed]
  BY <1>1, <1>7, <1>10, <1>13
<1>15. args.proofOut = LastTyped(line, "proof-out")
  BY <1>1, <1>7
<1> QED
  BY <1>12, <1>14, <1>15 DEF args, typed

(* The one file that a command leaves.                                     *)
LEMMA OnePutWritten ==
  ASSUME SessionInv, NEW path, NEW content, NEW line,
         WriteFiles(line, OnePut(path, content)), last'.exit = 0
  PROVE  files'[path] = Full(content)
<1> DEFINE puts == OnePut(path, content)
<1>1. Len(puts) = 1 /\ puts[1].path = path /\ puts[1].content = content
  BY DEF OnePut
<1>2. WriteFiles(line, puts)
  OBVIOUS
<1> HIDE DEF puts
<1>3. files' = Written(puts, 1)
  BY <1>1, <1>2 DEF WriteFiles, Exit
<1>4. Written(puts, 1) = Put(files, path, Full(content))
  BY <1>1, WrittenIs
<1> QED
  BY <1>3, <1>4 DEF Put

(* The leaf that the proof discloses.                                      *)
LEMMA DeriveCommand ==
  ASSUME SessionInv, NEW line, Len(line.argv) \in Nat, Complete(line), Derives(line),
         line.command = "derive-batch-inclusion", last'.exit = 0,
         parseDeriveBatchInclusionArgs(line.argv).leafIndex \in Nat
  PROVE  LET args  == parseDeriveBatchInclusionArgs(line.argv)
             proof == files'[args.proofOut].data.data
         IN  RecordJournal(proof.leafClaimKind, proof.leafJournal)
               = ClaimTyped(line, args.leafIndex + 1).journal
<1> DEFINE args      == parseDeriveBatchInclusionArgs(line.argv)
           leaves    == args.leaves
           n         == args.leafIndex
           records   == Records(Entries(leaves))
           inclusion == DeriveInclusion(leaves.kind, records, n)
           valued    == BatchFlags \cup {"leaf-index", "proof-out"}
<1>1. /\ Loads(leaves) /\ n < Len(leaves.inputs)
      /\ WriteFiles(line, OnePut(args.proofOut, Content("inclusion", inclusion)))
  BY DEF Derives
<1>2. n \in Nat
  OBVIOUS
<1>3. /\ BatchFlags \subseteq valued /\ "use-test-vector" \notin valued
      /\ line.command \notin {"execute", "prove"}
  BY DEF BatchFlags
<1>4. leaves = parseBatchLeafInputs(Parse(valued, {}, line.argv))
  BY DeriveArgs
<1> HIDE DEF args, leaves, n, valued
<1>5. /\ InputsAsTyped(line, leaves.kind, records)
      /\ Len(records) = Len(leaves.inputs) /\ Len(leaves.inputs) \in Nat
  BY <1>1, <1>3, <1>4, RecordsAsTyped
<1>6. inclusion.leafClaimKind = leaves.kind /\ inclusion.leafJournal = records[n + 1]
  BY DEF DeriveInclusion, BuildProof
<1> HIDE DEF records, inclusion
<1>7. n + 1 \in 1..Len(records)
  BY <1>1, <1>2, <1>5
<1>8. RecordJournal(leaves.kind, records[n + 1]) = ClaimTyped(line, n + 1).journal
  BY <1>5, <1>7 DEF InputsAsTyped
<1>9. files'[args.proofOut] = Full(Content("inclusion", inclusion))
  BY <1>1, OnePutWritten
<1>10. files'[args.proofOut].data.data = inclusion
  BY <1>9 DEF Full, Content
<1> QED
  BY <1>6, <1>8, <1>10 DEF args, n

(* prove-batch: the records of the batch.                                  *)
LEMMA ProveBatchInOrder ==
  ASSUME NEW line, Len(line.argv) \in Nat, Complete(line), ProvesBatch(line),
         line.command = "prove-batch", NEW o \in openings' \ openings
  PROVE  InputsAsTyped(line, o.claim.leafClaimKind, o.records)
<1> DEFINE args   == parseProveBatchArgs(line.argv)
           leaves == args.leaves
           valued == BatchFlags \cup ProofFlags
<1>1. Loads(leaves) /\ o = BatchOpening(leaves)
  BY DEF ProvesBatch
<1>2. leaves = parseBatchLeafInputs(Parse(valued, {}, line.argv))
  BY ProveBatchArgs
<1>3. /\ BatchFlags \subseteq valued /\ "use-test-vector" \notin valued
      /\ line.command \notin {"execute", "prove"}
  BY DEF BatchFlags, ProofFlags
<1> HIDE DEF args, leaves, valued
<1>4. InputsAsTyped(line, leaves.kind, Records(Entries(leaves)))
  BY <1>1, <1>2, <1>3, RecordsAsTyped
<1>5. o.records = Records(Entries(leaves)) /\ o.claim.leafClaimKind = leaves.kind
  BY <1>1, GuestClaimFields DEF BatchOpening, BatchOutput
<1> QED
  BY <1>4, <1>5

(* batch.go:440-461, of lines with any number of inputs: a batch that is   *)
(* proved holds the claims typed, in that order, each with the receipt and *)
(* as the direct kind typed at its place, and an inclusion proof discloses *)
(* the claim typed at --leaf-index, as long as that number fits 32 bits.   *)
THEOREM InputsAreInOrder == Spec => InputsInOrder
<1> DEFINE Ordered(line) ==
      Complete(line) =>
        /\ \A o \in openings' \ openings :
             InputsAsTyped(line, o.claim.leafClaimKind, o.records)
        /\ /\ line.command = "derive-batch-inclusion"
           /\ last'.exit = 0
           /\ LastTyped(line, "leaf-index") # ""
           /\ UintTexts[LastTyped(line, "leaf-index")] < 2 * HardenedKeyStart
           => LET proof == files'[LastTyped(line, "proof-out")].data.data
              IN  RecordJournal(proof.leafClaimKind, proof.leafJournal)
                    = ClaimTyped(line, UintTexts[LastTyped(line, "leaf-index")] + 1).journal
<1>1. ASSUME SessionInv, NEW line \in Lines, Type(line)
      PROVE  Ordered(line) /\ last'.line = line
  <2>1. last'.line = line /\ Len(line.argv) \in Nat
    BY <1>1, TypeKeeps, LinesHaveWords
  <2>2. ASSUME Complete(line), NEW o \in openings' \ openings
        PROVE  InputsAsTyped(line, o.claim.leafClaimKind, o.records)
    <3>1. \A lane \in Lanes : RunProve(lane, line) => openings' = openings
      BY RunProveIs DEF Silent, ProvesLeaf, proofVars
    <3>2. ProveBatch(line) /\ line.command = "prove-batch"
      BY <1>1, <2>2, <3>1, Provers DEF proofVars
    <3>3. ProvesBatch(line)
      BY <1>1, <2>1, <2>2, <3>2, ProveBatchIs DEF Silent, proofVars
    <3> QED
      BY <2>1, <2>2, <3>2, <3>3, ProveBatchInOrder
  <2>3. ASSUME line.command = "derive-batch-inclusion", last'.exit = 0
        PROVE  Derives(line)
    <3>1. DeriveBatchInclusion(line)
      BY <1>1, <2>3, ByCommand
    <3> QED
      BY <2>3, <3>1, DeriveIs DEF Silent
  <2>4. ASSUME Complete(line), line.command = "derive-batch-inclusion", last'.exit = 0,
               LastTyped(line, "leaf-index") # "",
               UintTexts[LastTyped(line, "leaf-index")] < 2 * HardenedKeyStart
        PROVE  LET proof == files'[LastTyped(line, "proof-out")].data.data
               IN  RecordJournal(proof.leafClaimKind, proof.leafJournal)
                     = ClaimTyped(line, UintTexts[LastTyped(line, "leaf-index")] + 1).journal
    <3> DEFINE args == parseDeriveBatchInclusionArgs(line.argv)
    <3>1. Derives(line)
      BY <2>3, <2>4
    <3>2. args.leaves.ok
      BY <3>1 DEF Derives, Loads
    <3>3. /\ args.leafIndex = UintTexts[LastTyped(line, "leaf-index")]
          /\ args.leafIndex \in Nat
          /\ args.proofOut = LastTyped(line, "proof-out")
      BY <2>1, <2>4, <3>2, DeriveAsTyped
    <3>4. LET proof == files'[args.proofOut].data.data
          IN  RecordJournal(proof.leafClaimKind, proof.leafJournal)
                = ClaimTyped(line, args.leafIndex + 1).journal
      BY <1>1, <2>1, <2>4, <3>1, <3>3, DeriveCommand
    <3> HIDE DEF args
    <3> QED
      BY <3>3, <3>4
  <2> QED
    BY <2>1, <2>2, <2>4
<1>2. SessionInv /\ [Next]_sessionVars =>
        [LET line  == last'.line
             index == LastTyped(line, "leaf-index")
         IN  Complete(line) =>
               /\ \A o \in openings' \ openings :
                    InputsAsTyped(line, o.claim.leafClaimKind, o.records)
               /\ /\ line.command = "derive-batch-inclusion"
                  /\ last'.exit = 0
                  /\ index # "" /\ UintTexts[index] < 2 * HardenedKeyStart
                  => LET proof == files'[LastTyped(line, "proof-out")].data.data
                     IN  RecordJournal(proof.leafClaimKind, proof.leafJournal)
                           = ClaimTyped(line, UintTexts[index] + 1).journal
        ]_sessionVars
  <2> SUFFICES ASSUME SessionInv, Next
               PROVE  Ordered(last'.line)
    OBVIOUS
  <2>1. PICK line \in Lines : Type(line)
    BY DEF Next
  <2>2. Ordered(line) /\ last'.line = line
    BY <1>1, <2>1
  <2> HIDE DEF Ordered
  <2> QED
    BY <2>2
<1> QED
  BY <1>2, SessionInvariant, PTL DEF Spec, InputsInOrder

-----------------------------------------------------------------------------
(* The lines that verify what was proved: flags, each with a text after it.*)

(* Four words, or six: the flags are the odd ones.                         *)
LEMMA FourOrSix ==
  ASSUME NEW n, n = 4 \/ n = 6
  PROVE  /\ n \in Nat
         /\ \A i \in 1..n : i \in {1, 2, 3, 4} \/ (n = 6 /\ i \in {5, 6})
         /\ \A i \in 1..n :
              \/ i \in {1, 3, 5} /\ i + 1 \in {2, 4, 6} /\ i + 1 <= n
              \/ i \in {2, 4, 6} /\ i - 1 \in {1, 3, 5} /\ i - 1 <= n /\ i # 1
         /\ 1 \in 1..n /\ 3 \in 1..n
         /\ n = 6 => 5 \in 1..n
<1>1. CASE n = 4
  BY <1>1
<1>2. CASE n = 6
  BY <1>2
<1> QED
  BY <1>1, <1>2

Alternates(line) ==
  /\ Len(line.argv) = 4 \/ Len(line.argv) = 6
  /\ \A i \in {1, 3, 5} : i <= Len(line.argv) =>
       /\ IsFlag(line.argv[i]) /\ line.argv[i].attached = FALSE
       /\ line.argv[i].flag \notin Switches(line)
  /\ \A i \in {2, 4, 6} : i <= Len(line.argv) => ~IsFlag(line.argv[i])

LEMMA AlternatingLine ==
  ASSUME NEW line, Alternates(line)
  PROVE  /\ Complete(line)
         /\ \A i \in 1..Len(line.argv) : ~Stray(line, i)
<1>1. \A i \in 1..Len(line.argv) :
        \/ i \in {1, 3, 5} /\ i + 1 \in {2, 4, 6} /\ i + 1 <= Len(line.argv)
        \/ i \in {2, 4, 6} /\ i - 1 \in {1, 3, 5} /\ i - 1 <= Len(line.argv) /\ i # 1
  BY FourOrSix DEF Alternates
<1>2. \A i \in 1..Len(line.argv) :
        \/ /\ IsFlag(line.argv[i]) /\ WantsText(line, i)
           /\ i < Len(line.argv) /\ ~IsFlag(line.argv[i + 1])
        \/ /\ ~IsFlag(line.argv[i]) /\ ~WantsText(line, i)
           /\ i # 1 /\ WantsText(line, i - 1)
  BY <1>1 DEF Alternates, WantsText
<1> QED
  BY <1>2 DEF Complete, Stray

LEMMA TypedOnce ==
  ASSUME NEW line, Alternates(line), NEW i \in 1..Len(line.argv),
         line.argv[i].attached = FALSE,
         NEW name, \A j \in 1..Len(line.argv) : line.argv[j].flag = name <=> j = i
  PROVE  /\ LastTyped(line, name) = line.argv[i + 1].text
         /\ Typed(line, name) # <<>>
<1> DEFINE f == [j \in TypedAt(line, name) |->
                   IF line.argv[j].attached THEN line.argv[j].text
                                            ELSE line.argv[j + 1].text]
<1>1. Len(line.argv) \in Nat
  BY DEF Alternates
<1>2. TypedAt(line, name) = {i}
  <2>1. \A j \in 1..i : ~Stray(line, j)
    BY <1>1, AlternatingLine
  <2> QED
    BY <2>1 DEF TypedAt
<1>3. DOMAIN f = {i} /\ f[i] = line.argv[i + 1].text
  BY <1>2
<1>4. Typed(line, name) = InOrder(f)
  BY DEF Typed
<1> HIDE DEF f
<1>5. Cardinality({i}) = 1
  BY FS_Singleton
<1>6. Len(InOrder(f)) = 1 /\ (InOrder(f) # <<>> => Last(InOrder(f)) = f[i])
  BY <1>1, <1>3, <1>5, InOrderFacts
<1>7. InOrder(f) # <<>>
  BY <1>6
<1> QED
  BY <1>3, <1>4, <1>6, <1>7 DEF LastTyped

LEMMA TypedNever ==
  ASSUME NEW line, Len(line.argv) \in Nat,
         NEW name, \A j \in 1..Len(line.argv) : line.argv[j].flag # name
  PROVE  Typed(line, name) = <<>> /\ LastTyped(line, name) = ""
<1> DEFINE f == [j \in TypedAt(line, name) |->
                   IF line.argv[j].attached THEN line.argv[j].text
                                            ELSE line.argv[j + 1].text]
<1>1. DOMAIN f = {}
  BY DEF TypedAt
<1>2. Typed(line, name) = InOrder(f)
  BY DEF Typed
<1> HIDE DEF f
<1>3. Cardinality({}) = 0
  BY FS_EmptySet
<1>4. IsSeq(InOrder(f)) /\ Len(InOrder(f)) = 0
  BY <1>1, <1>3, InOrderFacts
<1>5. InOrder(f) = <<>>
  BY <1>4, EmptySeq
<1> QED
  BY <1>2, <1>5 DEF LastTyped

(* The words of ProvedPairUsable.                                          *)
LEMMA WordFacts ==
  /\ \A text : ~IsFlag(Plain(text)) /\ Plain(text).text = text
  /\ \A name : /\ Flag(name).flag = name
               /\ Flag(name).attached = FALSE
BY DEF IsFlag, Plain, Flag

IsPair(argv, receipt, claim) ==
  /\ Len(argv) = 4 \/ Len(argv) = 6
  /\ argv[1] = Flag("receipt-in") /\ argv[2] = Plain(receipt)
  /\ argv[3] = Flag("claim-in") /\ argv[4] = Plain(claim)
  /\ Len(argv) = 6 => argv[5] = Flag("require-bip86") /\ argv[6] = Plain("false")

LEMMA PairIs ==
  ASSUME NEW line
  PROVE  LET receipt == LastTyped(line, "receipt-out")
             claim   == LastTyped(line, "claim-out")
         IN  /\ IsPair(PairWords(line), receipt, claim)
             /\ Len(PairWords(line)) = 4
             /\ \A lane, r :
                  LET argv == PairWords(line) \o PolicyWords(lane, r)
                  IN  /\ IsPair(argv, receipt, claim)
                      /\ Len(argv) = 6 <=>
                           lane = "taproot" /\ ~RequiresBIP86(r.journal.body.flags)
<1> DEFINE receipt == LastTyped(line, "receipt-out")
           claim   == LastTyped(line, "claim-out")
           pair    == PairWords(line)
           policy  == <<Flag("require-bip86"), Plain("false")>>
<1>1. pair = <<Flag("receipt-in"), Plain(receipt), Flag("claim-in"), Plain(claim)>>
  BY DEF PairWords
<1> HIDE DEF receipt, claim
<1>2. /\ Len(pair) = 4
      /\ pair[1] = Flag("receipt-in") /\ pair[2] = Plain(receipt)
      /\ pair[3] = Flag("claim-in") /\ pair[4] = Plain(claim)
  BY <1>1
<1>3. pair \o <<>> = pair
  BY <1>1
<1>4. /\ Len(pair \o policy) = 6
      /\ \A i \in 1..4 : (pair \o policy)[i] = pair[i]
      /\ (pair \o policy)[5] = Flag("require-bip86")
      /\ (pair \o policy)[6] = Plain("false")
  BY <1>1
<1> HIDE DEF pair
<1>5. IsPair(pair, receipt, claim) /\ IsPair(pair \o policy, receipt, claim)
  BY <1>2, <1>4 DEF IsPair
<1>6. ASSUME NEW lane, NEW r
      PROVE  LET argv == pair \o PolicyWords(lane, r)
             IN  /\ IsPair(argv, receipt, claim)
                 /\ Len(argv) = 6 <=>
                      lane = "taproot" /\ ~RequiresBIP86(r.journal.body.flags)
  <2>1. CASE lane = "taproot" /\ ~RequiresBIP86(r.journal.body.flags)
    <3>1. PolicyWords(lane, r) = policy
      BY <2>1 DEF PolicyWords
    <3> HIDE DEF policy
    <3> QED
      BY <1>4, <1>5, <2>1, <3>1
  <2>2. CASE ~(lane = "taproot" /\ ~RequiresBIP86(r.journal.body.flags))
    <3>1. PolicyWords(lane, r) = <<>>
      BY <2>2 DEF PolicyWords
    <3> QED
      BY <1>2, <1>3, <1>5, <2>2, <3>1
  <2> QED
    BY <2>1, <2>2
<1> QED
  BY <1>2, <1>5, <1>6 DEF pair, receipt, claim

(* What a user means by such a line.                                       *)
LEMMA PairAsTyped ==
  ASSUME NEW line, NEW receipt, NEW claim, IsPair(line.argv, receipt, claim),
         line.command \notin {"execute", "prove"}
  PROVE  /\ Alternates(line)
         /\ LastTyped(line, "receipt-in") = receipt
         /\ LastTyped(line, "claim-in") = claim
         /\ Len(line.argv) = 6 => LastTyped(line, "require-bip86") = "false"
         /\ \A name : /\ NamesFlag(name)
                      /\ name \notin {"receipt-in", "claim-in"}
                      /\ Len(line.argv) = 6 => name # "require-bip86"
                      => Typed(line, name) = <<>> /\ LastTyped(line, name) = ""
<1> DEFINE argv == line.argv
<1>1. /\ argv[1].flag = "receipt-in" /\ argv[1].attached = FALSE
      /\ argv[3].flag = "claim-in" /\ argv[3].attached = FALSE
      /\ ~IsFlag(argv[2]) /\ argv[2].text = receipt
      /\ ~IsFlag(argv[4]) /\ argv[4].text = claim
      /\ Len(argv) = 6 => /\ argv[5].flag = "require-bip86" /\ argv[5].attached = FALSE
                          /\ ~IsFlag(argv[6]) /\ argv[6].text = "false"
  BY WordFacts DEF IsPair
<1>2. Switches(line) = {"use-test-vector"}
  BY DEF Switches
<1>3. NamesFlag("receipt-in") /\ NamesFlag("claim-in") /\ NamesFlag("require-bip86")
  BY FlagNames
<1>4. Len(argv) = 4 \/ Len(argv) = 6
  BY DEF IsPair
<1>5. IsFlag(argv[1]) /\ IsFlag(argv[3]) /\ (Len(argv) = 6 => IsFlag(argv[5]))
  BY <1>1, <1>3 DEF NamesFlag
<1>6. Alternates(line)
  BY <1>1, <1>2, <1>4, <1>5 DEF Alternates
<1>7. \A i \in 1..Len(argv) :
        \/ i \in {1, 3} \/ ~IsFlag(argv[i]) \/ (i = 5 /\ Len(argv) = 6)
  <2> HIDE DEF argv
  <2>1. \A i \in 1..Len(argv) : i \in {1, 2, 3, 4} \/ (Len(argv) = 6 /\ i \in {5, 6})
    BY <1>4, FourOrSix
  <2> QED
    BY <1>1, <2>1
<1>8. \A name : NamesFlag(name) =>
        \A i \in 1..Len(argv) : argv[i].flag = name => IsFlag(argv[i])
  BY DEF NamesFlag
<1>9. LastTyped(line, "receipt-in") = receipt
  <2>1. \A j \in 1..Len(argv) : argv[j].flag = "receipt-in" <=> j = 1
    BY <1>1, <1>3, <1>7, <1>8
  <2>2. 1 \in 1..Len(argv)
    BY <1>4, FourOrSix
  <2> HIDE DEF argv
  <2>3. LastTyped(line, "receipt-in") = argv[1 + 1].text
    BY <1>1, <1>6, <2>1, <2>2, TypedOnce DEF argv
  <2> QED
    BY <1>1, <2>3
<1>10. LastTyped(line, "claim-in") = claim
  <2>1. \A j \in 1..Len(argv) : argv[j].flag = "claim-in" <=> j = 3
    BY <1>1, <1>3, <1>7, <1>8
  <2>2. 3 \in 1..Len(argv)
    BY <1>4, FourOrSix
  <2> HIDE DEF argv
  <2>3. LastTyped(line, "claim-in") = argv[3 + 1].text
    BY <1>1, <1>6, <2>1, <2>2, TypedOnce DEF argv
  <2> QED
    BY <1>1, <2>3
<1>11. ASSUME Len(argv) = 6
       PROVE  LastTyped(line, "require-bip86") = "false"
  <2>1. \A j \in 1..Len(argv) : argv[j].flag = "require-bip86" <=> j = 5
    BY <1>1, <1>3, <1>7, <1>8, <1>11
  <2>2. 5 \in 1..Len(argv)
    BY <1>11
  <2> HIDE DEF argv
  <2>3. LastTyped(line, "require-bip86") = argv[5 + 1].text
    BY <1>1, <1>6, <1>11, <2>1, <2>2, TypedOnce DEF argv
  <2> QED
    BY <1>1, <1>11, <2>3
<1>12. ASSUME NEW name, NamesFlag(name), name \notin {"receipt-in", "claim-in"},
              Len(argv) = 6 => name # "require-bip86"
       PROVE  Typed(line, name) = <<>> /\ LastTyped(line, name) = ""
  <2>1. \A j \in 1..Len(argv) : argv[j].flag # name
    BY <1>1, <1>7, <1>8, <1>12
  <2>2. Len(argv) \in Nat
    BY <1>4, FourOrSix
  <2> QED
    BY <2>1, <2>2, TypedNever
<1> QED
  BY <1>6, <1>9, <1>10, <1>11, <1>12

(* Every flag of theirs is one of the command's and has a text that it takes. *)
LEMMA PairFlags ==
  ASSUME NEW argv, NEW receipt, NEW claim, IsPair(argv, receipt, claim),
         NEW i \in 1..Len(argv), IsFlag(argv[i])
  PROVE  \/ argv[i].flag \in {"receipt-in", "claim-in"}
         \/ /\ Len(argv) = 6
            /\ argv[i].flag = "require-bip86"
            /\ ValueAt({}, argv, i) = "false"
<1>1. Len(argv) = 4 \/ Len(argv) = 6
  BY DEF IsPair
<1>2. i \in {1, 2, 3, 4} \/ (Len(argv) = 6 /\ i \in {5, 6})
  BY <1>1, FourOrSix
<1>3. /\ ~IsFlag(argv[2]) /\ ~IsFlag(argv[4])
      /\ argv[1].flag = "receipt-in" /\ argv[3].flag = "claim-in"
  BY WordFacts DEF IsPair
<1>4. Len(argv) = 6 => /\ ~IsFlag(argv[6]) /\ argv[6].text = "false"
                       /\ argv[5].flag = "require-bip86" /\ argv[5].attached = FALSE
  BY WordFacts DEF IsPair
<1>5. ~argv[5].attached => ValueAt({}, argv, 5) = argv[6].text
  BY DEF ValueAt
<1> QED
  BY <1>2, <1>3, <1>4, <1>5

(* The expectations of a line that names two files and maybe the policy.   *)
PairExpectations(lane, told) ==
  IF lane = "taproot"
  THEN [pubKey |-> Unset, pathCommitment |-> Unset, path |-> NoPath,
        requireBIP86 |-> IF told THEN "no" ELSE "yes"]
  ELSE [key |-> Unset, chainCode |-> Unset]

LEMMA PairExpects ==
  ASSUME NEW lane \in Lanes, NEW line, NEW receipt, NEW claim,
         IsPair(line.argv, receipt, claim), line.command \notin {"execute", "prove"},
         Len(line.argv) = 6 => lane = "taproot"
  PROVE  MeantExpectations(lane, line) = PairExpectations(lane, Len(line.argv) = 6)
<1> DEFINE none == ""
<1>1. HexText(none) = Unset /\ PathText(none) = NoPath
  BY DEF HexText, PathText
<1>2. none \notin FalseTexts /\ "false" \in FalseTexts
  BY DEF FalseTexts
<1>3. \A name : /\ NamesFlag(name)
                /\ name \notin {"receipt-in", "claim-in"}
                /\ Len(line.argv) = 6 => name # "require-bip86"
                => LastTyped(line, name) = none
  BY PairAsTyped
<1>4. Len(line.argv) = 6 => LastTyped(line, "require-bip86") = "false"
  BY PairAsTyped
<1> HIDE DEF none
<1>5. /\ LastTyped(line, "expected-pubkey") = none
      /\ LastTyped(line, "expected-path-commitment") = none
      /\ LastTyped(line, "expected-path") = none
      /\ LastTyped(line, "expected-chain-code") = none
      /\ LastTyped(line, "expected-child-private-key") = none
      /\ LastTyped(line, "expected-compressed-pubkey") = none
      /\ Len(line.argv) # 6 => LastTyped(line, "require-bip86") = none
  BY <1>3, FlagNames
<1> QED
  BY <1>1, <1>2, <1>4, <1>5 DEF MeantExpectations, PairExpectations, Lanes

(* The parsers of the verify commands take these lines, as they are meant. *)
LEMMA PairParses ==
  ASSUME NEW lane \in Lanes, NEW argv, NEW receipt, NEW claim, IsPair(argv, receipt, claim),
         Len(argv) = 6 => lane = "taproot"
  PROVE  LET args == ParsedVerify(lane, argv)
         IN  /\ args.ok
             /\ args.receiptIn = receipt
             /\ args.claimIn = claim
             /\ args.expect = PairExpectations(lane, Len(argv) = 6)
<1> DEFINE line == [command |-> VerifyCommand(lane), argv |-> argv]
<1>1. line.command = VerifyCommand(lane) /\ line.argv = argv
  OBVIOUS
<1> HIDE DEF line
<1>2. line.command \notin {"execute", "prove"}
  BY <1>1 DEF VerifyCommand, Lanes
<1>3. /\ Alternates(line)
      /\ LastTyped(line, "receipt-in") = receipt
      /\ LastTyped(line, "claim-in") = claim
  BY <1>1, <1>2, PairAsTyped
<1>4. Complete(line)
  BY <1>3, AlternatingLine
<1>5. Len(line.argv) \in Nat
  BY <1>3, FourOrSix DEF Alternates
<1>6. "use-test-vector" \notin VerifyFlags(lane)
  BY DEF VerifyFlags, Lanes
<1>7. FlagsOf(line, VerifyFlags(lane), {})
  BY <1>2, <1>6, OtherFlagsOf
<1>8. ASSUME NEW i \in 1..Len(line.argv), IsFlag(line.argv[i])
      PROVE  /\ line.argv[i].flag \in VerifyFlags(lane) \cup {}
             /\ Settable(line.argv[i].flag, ValueAt({}, line.argv, i))
  <2>1. \/ argv[i].flag \in {"receipt-in", "claim-in"}
        \/ /\ Len(argv) = 6
           /\ argv[i].flag = "require-bip86"
           /\ ValueAt({}, argv, i) = "false"
    BY <1>1, <1>8, PairFlags
  <2>2. {"receipt-in", "claim-in"} \subseteq VerifyFlags(lane)
    BY DEF VerifyFlags
  <2>3. lane = "taproot" => "require-bip86" \in VerifyFlags(lane)
    BY DEF VerifyFlags
  <2>4. \A text : \A name \in {"receipt-in", "claim-in"} : Settable(name, text)
    BY DEF Settable
  <2>5. Settable("require-bip86", "false")
    BY DEF Settable, FalseTexts
  <2> QED
    BY <1>1, <2>1, <2>2, <2>3, <2>4, <2>5
<1>9. Parse(VerifyFlags(lane), {}, line.argv).ok = TRUE
  BY <1>4, <1>5, <1>7, <1>8, ParserAccepts
<1>10. ParsedVerify(lane, line.argv).ok
  BY <1>9, VerifyArgs
<1>11. /\ ParsedVerify(lane, line.argv).receiptIn = receipt
       /\ ParsedVerify(lane, line.argv).claimIn = claim
       /\ ParsedVerify(lane, line.argv).expect = MeantExpectations(lane, line)
  BY <1>1, <1>3, <1>4, <1>5, <1>10, VerifyAsTyped
<1>12. MeantExpectations(lane, line) = PairExpectations(lane, Len(argv) = 6)
  BY <1>1, <1>2, PairExpects
<1> QED
  BY <1>1, <1>10, <1>11, <1>12

LEMMA PairParsesBatch ==
  ASSUME NEW argv, NEW receipt, NEW claim, IsPair(argv, receipt, claim), Len(argv) = 4
  PROVE  LET args == parseVerifyBatchArgs(argv)
         IN  /\ args.ok
             /\ args.receiptIn = receipt
             /\ args.claimIn = claim
             /\ args.inclusionIns = <<>>
             /\ args.chainIn = ""
<1> DEFINE line   == [command |-> "verify-batch", argv |-> argv]
           parsed == Parse(VerifyBatchFlags, {}, line.argv)
<1>1. line.command \notin {"execute", "prove"} /\ line.argv = argv
  OBVIOUS
<1> HIDE DEF line
<1>0. Len(line.argv) # 6
  BY <1>1
<1>2. /\ Alternates(line)
      /\ LastTyped(line, "receipt-in") = receipt
      /\ LastTyped(line, "claim-in") = claim
      /\ \A name : NamesFlag(name) /\ name \notin {"receipt-in", "claim-in"}
                     => Typed(line, name) = <<>> /\ LastTyped(line, name) = ""
  BY <1>0, <1>1, PairAsTyped
<1>3. Complete(line)
  BY <1>2, AlternatingLine
<1>4. Len(line.argv) \in Nat
  BY <1>2, FourOrSix DEF Alternates
<1>5. "use-test-vector" \notin VerifyBatchFlags
  BY DEF VerifyBatchFlags
<1>6. FlagsOf(line, VerifyBatchFlags, {})
  BY <1>1, <1>5, OtherFlagsOf
<1>7. ASSUME NEW i \in 1..Len(line.argv), IsFlag(line.argv[i])
      PROVE  /\ line.argv[i].flag \in VerifyBatchFlags \cup {}
             /\ Settable(line.argv[i].flag, ValueAt({}, line.argv, i))
  <2>1. argv[i].flag \in {"receipt-in", "claim-in"}
    <3>1. i \in 1..Len(argv) /\ IsFlag(argv[i])
      BY <1>1, <1>7
    <3>2. \/ argv[i].flag \in {"receipt-in", "claim-in"}
          \/ /\ Len(argv) = 6
             /\ argv[i].flag = "require-bip86"
             /\ ValueAt({}, argv, i) = "false"
      BY <3>1, PairFlags, Zenon
    <3> QED
      BY <3>2, <1>0, <1>1
  <2>2. {"receipt-in", "claim-in"} \subseteq VerifyBatchFlags
    BY DEF VerifyBatchFlags
  <2>3. \A text : \A name \in {"receipt-in", "claim-in"} : Settable(name, text)
    BY DEF Settable
  <2> QED
    BY <1>1, <2>1, <2>2, <2>3
<1>8. parsed.ok = TRUE
  BY <1>1, <1>3, <1>4, <1>6, <1>7, ParserAccepts
<1>9. /\ NamesFlag("receipt-in") /\ NamesFlag("claim-in")
      /\ NamesFlag("inclusion-in") /\ NamesFlag("inclusion-chain-in")
  BY DEF NamesFlag, IsFlag
<1>10. {"receipt-in", "claim-in", "inclusion-in", "inclusion-chain-in"} \subseteq VerifyBatchFlags
  BY DEF VerifyBatchFlags
<1>11. ASSUME NEW name \in VerifyBatchFlags, NamesFlag(name)
       PROVE  /\ Texts(parsed, name) = Typed(line, name)
              /\ Text(parsed, name, "") = LastTyped(line, name)
  BY <1>3, <1>4, <1>6, <1>8, <1>11, TextsAreTyped
<1> HIDE DEF parsed
<1>12. /\ parseVerifyBatchArgs(argv).ok = parsed.ok
       /\ parseVerifyBatchArgs(argv).receiptIn = Text(parsed, "receipt-in", "")
       /\ parseVerifyBatchArgs(argv).claimIn = Text(parsed, "claim-in", "")
       /\ parseVerifyBatchArgs(argv).inclusionIns = Texts(parsed, "inclusion-in")
       /\ parseVerifyBatchArgs(argv).chainIn = Text(parsed, "inclusion-chain-in", "")
  BY <1>1, VerifyBatchArgs DEF parsed
<1>13. /\ Text(parsed, "receipt-in", "") = receipt
       /\ Text(parsed, "claim-in", "") = claim
  BY <1>2, <1>9, <1>10, <1>11
<1>14. /\ Texts(parsed, "inclusion-in") = <<>>
       /\ Text(parsed, "inclusion-chain-in", "") = ""
  BY <1>2, <1>9, <1>10, <1>11
<1> QED
  BY <1>8, <1>12, <1>13, <1>14

-----------------------------------------------------------------------------
(* The pair that a command which proves has left, and what is read there.  *)

Named(path) == path # ""

LeftBehind(r, image, line) ==
  /\ r.image = image
  /\ File(LastTyped(line, "receipt-out")) = Full(Content("receipt", r))
  /\ File(LastTyped(line, "claim-out")) = Full(Content("claim", PublicClaim(r)))
  /\ Named(LastTyped(line, "claim-out"))

LEMMA PairIsRead ==
  ASSUME NEW r, NEW image, NEW line, LeftBehind(r, image, line)
  PROVE  LET receipt == LastTyped(line, "receipt-out")
             claim   == LastTyped(line, "claim-out")
         IN  /\ Holds(receipt, "receipt") /\ DataIn(receipt) = r
             /\ Holds(claim, "claim") /\ IsJSON(claim)
             /\ DataIn(claim) = PublicClaim(r)
BY DEF LeftBehind, Holds, IsJSON, DataIn, Full, Content, Readable

(* A claim meets the expectations of a line that tells its own policy.     *)
LEMMA PairMeets ==
  ASSUME NEW lane \in Lanes, NEW claim, NEW told \in BOOLEAN,
         lane = "taproot" => (told <=> ~RequiresBIP86(claim.flags))
  PROVE  MeetsExpectations(lane, PairExpectations(lane, told), claim)
<1>1. CASE lane = "taproot"
  <2> DEFINE e == PairExpectations(lane, told)
  <2>1. /\ e.pubKey = Unset /\ e.pathCommitment = Unset /\ e.path = NoPath
        /\ e.requireBIP86 = IF told THEN "no" ELSE "yes"
    BY <1>1 DEF PairExpectations
  <2>2. ~NoPath.given
    BY DEF NoPath
  <2>3. (e.requireBIP86 = "yes") = RequiresBIP86(claim.flags)
    BY <1>1, <2>1 DEF RequiresBIP86
  <2> HIDE DEF e
  <2>4. verifyClaimExpectations(e, claim)
    BY <2>1, <2>2, <2>3 DEF verifyClaimExpectations, Meets
  <2> QED
    BY <1>1, <2>4 DEF MeetsExpectations, e
<1>2. CASE lane # "taproot"
  BY <1>2 DEF MeetsExpectations, PairExpectations, Meets, Lanes,
     verifyHardenedXPrivExpectations, verifyHardenedXPubExpectations
<1> QED
  BY <1>1, <1>2

(* What was left verifies, by the same two paths.                          *)
LEMMA PairVerifies ==
  ASSUME SessionInv, NEW lane \in Lanes, NEW line, NEW r \in ledger,
         LeftBehind(r, lane, line)
  PROVE  LET receipt == LastTyped(line, "receipt-out")
         IN  /\ Holds(receipt, "receipt")
             /\ Verifies(lane, ParsedVerify(lane,
                  PairWords(line) \o PolicyWords(lane, DataIn(receipt))))
<1> DEFINE receipt == LastTyped(line, "receipt-out")
           claim   == LastTyped(line, "claim-out")
           argv    == PairWords(line) \o PolicyWords(lane, r)
           args    == ParsedVerify(lane, argv)
           journal == JournalOf(r.journal)
<1>1. /\ Holds(receipt, "receipt") /\ DataIn(receipt) = r
      /\ Holds(claim, "claim") /\ IsJSON(claim) /\ DataIn(claim) = PublicClaim(r)
  BY PairIsRead
<1>2. /\ IsPair(argv, receipt, claim)
      /\ Len(argv) = 6 <=> (lane = "taproot" /\ ~RequiresBIP86(r.journal.body.flags))
  BY PairIs
<1> HIDE DEF receipt, claim, argv
<1>3. /\ args.ok /\ args.receiptIn = receipt /\ args.claimIn = claim
      /\ args.expect = PairExpectations(lane, Len(argv) = 6)
  BY <1>2, PairParses
<1> HIDE DEF args
<1>4. r.image = lane
  BY DEF LeftBehind
<1>5. PICK w \in witnesses : /\ w.image = lane
                             /\ w.journal = r.journal
                             /\ WitnessOf(w)
  BY <1>4, LeafReceiptFrom DEF SessionInv
<1>6. r.journal = LeafRecord(lane, w.stdin)
  BY <1>5 DEF WitnessOf
<1>7. journal = LeafGuestJournal(lane, w.stdin) /\ r.journal.body = journal.claim
  BY <1>6, LeafRecordFacts
<1>8. DecodesLeaf(lane, journal)
  BY <1>7, JournalOfLane, ImagesDiffer
<1> HIDE DEF journal
<1>9. MatchesClaimFile(lane, ReadClaimFile(claim), [image |-> lane, journal |-> journal])
  <2> DEFINE s == [image |-> lane, journal |-> journal]
  <2>1. DataIn(claim).image = lane /\ DataIn(claim).journal = r.journal
    BY <1>1, <1>4 DEF PublicClaim
  <2>2. ReadClaimFile(claim) = ClaimFileOf(s)
    BY <1>1, <2>1 DEF ReadClaimFile, journal
  <2>3. s.image = lane /\ lane \in LaneNames
    BY ImagesDiffer
  <2> HIDE DEF s
  <2>4. MatchesClaimFile(lane, ClaimFileOf(s), s)
    BY <2>3, OwnFileMatches
  <2> QED
    BY <2>2, <2>4 DEF s
<1>10. MeetsExpectations(lane, args.expect, journal.claim)
  BY <1>2, <1>3, <1>7, PairMeets
<1>11. args.claimIn # ""
  BY <1>3 DEF LeftBehind, Named, claim
<1>12. Verifies(lane, args)
  BY <1>1, <1>3, <1>4, <1>8, <1>9, <1>10, <1>11 DEF Verifies, journal
<1> QED
  BY <1>1, <1>12 DEF args, argv, receipt

(* No proofs are asked for, and none are read.                             *)
LEMMA NoneAreLoaded ==
  CanLoadProofs(<<>>, "") /\ loadBatchInclusionProofs(<<>>, "") = <<>>
<1>1. Range(<<>>) = {}
  BY DEF Range
<1>2. CanLoadProofs(<<>>, "") <=> \A path \in Range(<<>>) : IsJSON(path)
  BY DEF CanLoadProofs
<1>3. CanLoadProofs(<<>>, "")
  BY <1>1, <1>2
<1>4. [i \in 1..Len(<<>>) |-> ReadBatchInclusionProofFile(<<>>[i])] = <<>>
  OBVIOUS
<1>5. loadBatchInclusionProofs(<<>>, "")
        = [i \in 1..Len(<<>>) |-> ReadBatchInclusionProofFile(<<>>[i])]
  BY DEF loadBatchInclusionProofs
<1> QED
  BY <1>3, <1>4, <1>5

LEMMA BatchPairVerifies ==
  ASSUME SessionInv, NEW line, NEW r \in ledger, LeftBehind(r, BatchImage, line)
  PROVE  VerifiesBatch(parseVerifyBatchArgs(PairWords(line)))
<1> DEFINE receipt == LastTyped(line, "receipt-out")
           claim   == LastTyped(line, "claim-out")
           argv    == PairWords(line)
           args    == parseVerifyBatchArgs(argv)
           proofs  == loadBatchInclusionProofs(args.inclusionIns, args.chainIn)
<1>1. /\ Holds(receipt, "receipt") /\ DataIn(receipt) = r
      /\ Holds(claim, "claim") /\ DataIn(claim) = PublicClaim(r)
  BY PairIsRead
<1>2. IsPair(argv, receipt, claim) /\ Len(argv) = 4
  BY PairIs
<1> HIDE DEF receipt, claim, argv
<1>3. /\ args.ok /\ args.receiptIn = receipt /\ args.claimIn = claim
      /\ args.inclusionIns = <<>> /\ args.chainIn = ""
  BY <1>2, PairParsesBatch
<1>4. CanLoadProofs(args.inclusionIns, args.chainIn)
  BY <1>3, NoneAreLoaded
<1>5. proofs = <<>>
  BY <1>3, NoneAreLoaded
<1> HIDE DEF args, proofs
<1>6. r.image = BatchImage
  BY DEF LeftBehind
<1>7. PICK o \in openings : r.journal = Encode(o.claim) /\ Decode(r.journal) = o.claim
  BY <1>6, BatchReceiptOpens DEF SessionInv
<1>8. Decodes(r.journal)
  BY <1>7, EncodeDecodes
<1>9. ValidateVersion(Decode(r.journal))
  BY <1>7, OpeningFacts DEF SessionInv, ProofsOK
<1> QED
  BY <1>1, <1>3, <1>4, <1>5, <1>6, <1>8, <1>9 DEF VerifiesBatch, args, proofs, argv

-----------------------------------------------------------------------------
ProveOf(image) == IF image = BatchImage THEN "prove-batch" ELSE ProveCommand(image)

(* What the last command has left, if it was to prove: an invariant.       *)
PairLeft ==
  LET line == last.line
  IN  /\ last.exit = 0
      /\ Complete(line)
      /\ LastTyped(line, "receipt-out") # LastTyped(line, "claim-out")
      => \A image \in Lanes \cup {BatchImage} :
           line.command = ProveOf(image) => \E r \in ledger : LeftBehind(r, image, line)

LEMMA ArtifactsLeft ==
  ASSUME SessionInv, NEW args, ProofAsked(args), NEW r \in ledger',
         NEW line, WriteFiles(line, Artifacts(args, r)), last'.exit = 0,
         args.receiptOut = LastTyped(line, "receipt-out"),
         args.claimOut = LastTyped(line, "claim-out"),
         args.receiptOut # args.claimOut
  PROVE  (LeftBehind(r, r.image, line))'
<1>1. /\ args.receiptOut \in DOMAIN files' /\ args.claimOut \in DOMAIN files'
      /\ files'[args.claimOut] = Full(Content("claim", PublicClaim(r)))
      /\ files'[args.receiptOut] = Full(Content("receipt", r))
  BY ArtifactsWritten
<1>2. Named(args.claimOut)
  BY DEF ProofAsked, Named
<1> QED
  BY <1>1, <1>2 DEF LeftBehind, File

LEMMA PairLeftStep ==
  ASSUME SessionInv, NEW line \in Lines, Type(line)
  PROVE  PairLeft'
<1> SUFFICES ASSUME last'.exit = 0, Complete(last'.line),
                    LastTyped(last'.line, "receipt-out") # LastTyped(last'.line, "claim-out"),
                    NEW image \in Lanes \cup {BatchImage}, last'.line.command = ProveOf(image)
             PROVE  \E r \in ledger' : (LeftBehind(r, image, last.line))'
  BY DEF PairLeft
<1>1. last'.line = line /\ Len(line.argv) \in Nat
  BY TypeKeeps, LinesHaveWords
<1>2. CASE image \in Lanes
  <2> DEFINE args == ParsedProve(image, line.argv)
  <2>1. line.command = ProveCommand(image)
    BY <1>1, <1>2, ImagesDiffer DEF ProveOf
  <2>2. ProvesLeaf(image, line)
    BY <1>2, <2>1, ByCommand, RunProveIs DEF Silent
  <2>3. /\ args.ok /\ ProofAsked(args)
        /\ LeafReceipt(image, args) \in ledger'
        /\ WriteFiles(line, Artifacts(args, LeafReceipt(image, args)))
    BY <2>2 DEF ProvesLeaf
  <2>4. /\ args.receiptOut = LastTyped(line, "receipt-out")
        /\ args.claimOut = LastTyped(line, "claim-out")
    BY <1>1, <1>2, <2>1, <2>3, ProveAsTyped
  <2>5. LeafReceipt(image, args).image = image
    BY DEF LeafReceipt
  <2> HIDE DEF args
  <2>6. (LeftBehind(LeafReceipt(image, args), LeafReceipt(image, args).image, line))'
    BY <1>1, <2>3, <2>4, ArtifactsLeft
  <2> QED
    BY <1>1, <2>3, <2>5, <2>6
<1>3. CASE image = BatchImage
  <2> DEFINE args == parseProveBatchArgs(line.argv)
  <2>1. line.command = "prove-batch"
    BY <1>1, <1>3 DEF ProveOf
  <2>2. ProvesBatch(line)
    BY <1>1, <2>1, ByCommand, ProveBatchIs DEF Silent
  <2>3. PICK r : r = BatchReceipt(args)
    OBVIOUS
  <2>4. /\ args.leaves.ok /\ ProofAsked(args) /\ r \in ledger'
        /\ WriteFiles(line, Artifacts(args, r))
    BY <2>2, <2>3 DEF ProvesBatch, Loads
  <2>5. /\ args.receiptOut = LastTyped(line, "receipt-out")
        /\ args.claimOut = LastTyped(line, "claim-out")
    BY <1>1, <2>1, <2>4, ProveBatchAsTyped
  <2>6. r.image = BatchImage
    BY <2>3 DEF BatchReceipt
  <2> HIDE DEF args
  <2>7. (LeftBehind(r, r.image, line))'
    BY <1>1, <2>4, <2>5, ArtifactsLeft
  <2> QED
    BY <1>1, <1>3, <2>4, <2>6, <2>7
<1> QED
  BY <1>2, <1>3

LEMMA PairLeftInvariant == Spec => []PairLeft
<1>1. Init => PairLeft
  <2> SUFFICES ASSUME Init, NEW image \in Lanes \cup {BatchImage}
               PROVE  last.line.command # ProveOf(image)
    BY DEF PairLeft
  <2> DEFINE none == ""
  <2>1. last.line = [command |-> none, argv |-> <<>>]
    BY DEF Init
  <2>2. none # ProveOf(image)
    BY DEF ProveOf, ProveCommand, Lanes
  <2> HIDE DEF none
  <2> QED
    BY <2>1, <2>2
<1>2. SessionInv /\ PairLeft /\ [Next]_sessionVars => PairLeft'
  <2>1. CASE Next
    BY <2>1, PairLeftStep DEF Next
  <2>2. CASE UNCHANGED sessionVars
    BY <2>2 DEF sessionVars, PairLeft, LeftBehind, File
  <2> QED
    BY <2>1, <2>2
<1> QED
  BY <1>1, <1>2, SessionInvariant, PTL DEF Spec

(* In any session, over any files: what a prove command leaves under two   *)
(* paths is what the verify command of its lane takes under the same two   *)
(* paths, with the policy that the claim declares.                         *)
THEOREM ProvedPairIsUsable == Spec => []ProvedPairUsable
<1>1. SessionInv /\ PairLeft => ProvedPairUsable
  <2> SUFFICES ASSUME SessionInv, PairLeft, last.exit = 0, Complete(last.line),
                      LastTyped(last.line, "receipt-out") # LastTyped(last.line, "claim-out")
               PROVE  /\ \A lane \in Lanes : last.line.command = ProveCommand(lane) =>
                           /\ Holds(LastTyped(last.line, "receipt-out"), "receipt")
                           /\ Verifies(lane, ParsedVerify(lane, PairWords(last.line) \o
                                PolicyWords(lane, DataIn(LastTyped(last.line, "receipt-out")))))
                      /\ last.line.command = "prove-batch" =>
                           VerifiesBatch(parseVerifyBatchArgs(PairWords(last.line)))
    BY DEF ProvedPairUsable
  <2>1. \A image \in Lanes \cup {BatchImage} : last.line.command = ProveOf(image) =>
          \E r \in ledger : LeftBehind(r, image, last.line)
    BY DEF PairLeft
  <2>2. \A lane \in Lanes : ProveOf(lane) = ProveCommand(lane)
    BY ImagesDiffer DEF ProveOf
  <2>3. ProveOf(BatchImage) = "prove-batch"
    BY DEF ProveOf
  <2> QED
    BY <2>1, <2>2, <2>3, PairVerifies, BatchPairVerifies
<1> QED
  BY <1>1, SessionInvariant, PairLeftInvariant, PTL
=============================================================================
