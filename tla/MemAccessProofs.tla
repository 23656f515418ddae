-------------------------- MODULE MemAccessProofs --------------------------
(***************************************************************************)
(* Theorems about simplerand and the measurements of AOS1, for words of    *)
(* every width, memories of every size and any number of rounds.           *)
(***************************************************************************)
EXTENDS MemAccess, WellFoundedInduction, TLAPS

(* A word shifted right keeps its sign: xored with what it was, it has none. *)
LEMMA ShiftRightKeepsSign ==
    ASSUME NEW u \in Word, NEW k \in Nat, k > 0, k <= Width
    PROVE  ShiftRight(u, k) \in Word /\ (Sign \in ShiftRight(u, k) <=> Sign \in u)
<1>1. CASE Sign \in u
  BY <1>1, WidthAssumption DEF ShiftRight, Word, Bit, Sign
<1>2. CASE Sign \notin u
  <2>1. ShiftRight(u, k) = {i - k : i \in u} \cap Bit
    BY <1>2 DEF ShiftRight
  <2>2. \A i \in u : i - k # Sign
    BY WidthAssumption DEF Word, Bit, Sign
  <2> QED BY <1>2, <2>1, <2>2 DEF Word
<1> QED BY <1>1, <1>2

LEMMA XorType ==
    ASSUME NEW u \in Word, NEW v \in Word
    PROVE  Xor(u, v) \in Word /\ (Sign \in Xor(u, v) <=> ~(Sign \in u <=> Sign \in v))
BY DEF Xor, Word

LEMMA ShiftLeftType == ASSUME NEW u PROVE ShiftLeft(u, 11) \in Word
BY DEF ShiftLeft, Word

(* No bit at the top of any of the four longs *)
Positive(g) == Sign \notin g.x \cup g.y \cup g.z \cup g.w

(* A call of simplerand turns four words that are not negative into four   *)
(* words that are not negative.                                            *)
LEMMA SimplerandPositive ==
    ASSUME NEW g \in Generator
    PROVE  /\ simplerand(g) \in Generator
           /\ Positive(g) => Positive(simplerand(g))
<1> DEFINE s == Xor(g.x, ShiftLeft(g.x, 11))
           t == Xor(s, ShiftRight(s, 8))
           v == Xor(g.w, ShiftRight(g.w, 19))
<1>0. 8 \in Nat /\ 8 > 0 /\ 8 <= Width /\ 19 \in Nat /\ 19 > 0 /\ 19 <= Width
  BY WidthAssumption
<1>1. g.x \in Word /\ g.y \in Word /\ g.z \in Word /\ g.w \in Word
  BY DEF Generator
<1>2. s \in Word
  BY <1>1, ShiftLeftType, XorType
<1>3. t \in Word /\ Sign \notin t
  BY <1>0, <1>2, ShiftRightKeepsSign, XorType
<1>4. v \in Word /\ Sign \notin v
  BY <1>0, <1>1, ShiftRightKeepsSign, XorType
<1>5. Xor(v, t) \in Word /\ Sign \notin Xor(v, t)
  BY <1>3, <1>4, XorType
<1>6. simplerand(g) = [x |-> g.y, y |-> g.z, z |-> g.w, w |-> Xor(v, t)]
  BY DEF simplerand
<1> HIDE DEF s, t, v
<1> QED BY <1>1, <1>5, <1>6 DEF Generator, Positive

LEMMA SeedPositive == Seed \in Generator /\ Positive(Seed)
BY WidthAssumption DEF Seed, Generator, Positive, Word, Bit, Sign

----------------------------------------------------------------------------

(* The invariant: both generators are well typed and positive. *)
NegInv ==
    /\ gen \in Generator /\ Positive(gen)
    /\ comp \in Competitor /\ Positive(comp.gen)

LEMMA NoCompetitorType ==
    /\ NoCompetitor \in Competitor
    /\ \A g \in Generator : [NoCompetitor EXCEPT !.state = "start", !.gen = g] \in Competitor
<1>1. 0 \in 0 .. MaxCompete
  BY MemAccessAssumption
<1>2. NoCompetitor \in Competitor
  BY <1>1, SeedPositive DEF Competitor, NoCompetitor
<1>3. ASSUME NEW g \in Generator
      PROVE  [NoCompetitor EXCEPT !.state = "start", !.gen = g] \in Competitor
  BY <1>2 DEF Competitor
<1> QED BY <1>2, <1>3

LEMMA NegInit == Init => NegInv
<1> SUFFICES ASSUME Init PROVE NegInv
  OBVIOUS
<1>1. gen = Seed /\ comp = NoCompetitor /\ comp.state = "none" /\ comp.gen = Seed
  BY DEF Init, NoCompetitor
<1> QED BY <1>1, SeedPositive, NoCompetitorType DEF NegInv

LEMMA NegNext == NegInv /\ [Next]_vars => NegInv'
<1> SUFFICES ASSUME NegInv, [Next]_vars PROVE NegInv'
  OBVIOUS
<1> USE DEF NegInv, Competitor
<1>1. CASE OpenCounters BY <1>1 DEF OpenCounters
<1>2. CASE MapMemory BY <1>2 DEF MapMemory
<1>3. CASE Fork
  <2>1. gen' = gen
    BY <1>3 DEF Fork
  <2>2. CASE comp' = comp
    BY <2>1, <2>2
  <2>3. CASE comp' = [NoCompetitor EXCEPT !.state = "start", !.gen = gen]
    <3>1. comp'.state = "start" /\ comp'.gen = gen
      BY <2>3 DEF NoCompetitor
    <3> QED BY <2>1, <2>3, <3>1, NoCompetitorType
  <2> QED BY <1>3, <2>2, <2>3 DEF Fork
<1>4. CASE MemsetMsync BY <1>4 DEF MemsetMsync
<1>5. CASE Flush BY <1>5 DEF Flush
<1>6. CASE Start BY <1>6 DEF Start
<1>7. CASE Access
  <2>1. gen' = simplerand(gen) /\ comp' = comp
    BY <1>7 DEF Access, Round
  <2> QED BY <2>1, SimplerandPositive
<1>8. CASE DoSomething BY <1>8 DEF DoSomething
<1>9. CASE Stop BY <1>9 DEF Stop
<1>16. CASE BecomeCompetitor
  <2>1. gen' = gen
    BY <1>16 DEF BecomeCompetitor
  <2>2. CASE comp' = comp
    BY <2>1, <2>2
  <2>3. CASE comp' = [NoCompetitor EXCEPT !.state = "start", !.gen = gen]
    <3>1. comp'.state = "start" /\ comp'.gen = gen
      BY <2>3 DEF NoCompetitor
    <3> QED BY <2>1, <2>3, <3>1, NoCompetitorType
  <2> QED BY <1>16, <2>2, <2>3 DEF BecomeCompetitor
<1>10. CASE ReadCounters BY <1>10 DEF ReadCounters
<1>11. CASE Kill BY <1>11 DEF Kill
<1>12. CASE CompetitorMaps
  <2>1. gen' = gen /\ MemPages \subseteq Int
    BY <1>12, MemAccessAssumption DEF CompetitorMaps, UnchangedMain
  <2>2. CASE comp' = [comp EXCEPT !.state = "gone"]
    BY <2>1, <2>2
  <2>3. CASE \E pages \in Int, st \in {"running", "starved"} :
                comp' = [comp EXCEPT !.state = st, !.pages = pages]
    <3>1. comp' \in Competitor /\ comp'.gen = comp.gen
      BY <2>3
    <3> QED BY <2>1, <3>1
  <2> QED BY <1>12, <2>1, <2>2, <2>3 DEF CompetitorMaps
<1>13. CASE Compete
  <2>1. /\ gen' = gen
        /\ comp'.gen = simplerand(comp.gen)
        /\ comp' \in Competitor
    <3> DEFINE g == simplerand(comp.gen)
    <3>1. g \in Generator
      BY SimplerandPositive
    <3>2. /\ comp.n < MaxCompete
          /\ gen' = gen
          /\ \E st \in {comp.state, "crashed"} :
                comp' = [comp EXCEPT !.gen = g, !.n = comp.n + 1, !.state = st]
      <4>1. /\ comp.n < MaxCompete /\ gen' = gen
            /\ comp' = [comp EXCEPT !.gen = g, !.n = @ + 1,
                   !.state = IF Remainder(g.w, comp.pages) \in 0 .. comp.pages - 1
                             THEN @ ELSE "crashed"]
        BY <1>13 DEF Compete, UnchangedMain
      <4> HIDE DEF g
      <4> QED BY <4>1, Zenon
    <3> HIDE DEF g
    <3>3. comp.n + 1 \in 0 .. MaxCompete
      BY <3>2, MemAccessAssumption
    <3>4. comp' \in Competitor /\ comp'.gen = g
      BY <3>1, <3>2, <3>3
    <3> QED BY <3>2, <3>4 DEF g
  <2> QED BY <2>1, SimplerandPositive
<1>14. CASE CompetitorDies
  <2>1. gen' = gen /\ comp' = [comp EXCEPT !.state = "gone"]
    BY <1>14 DEF CompetitorDies, UnchangedMain
  <2> QED BY <2>1
<1>15. CASE UNCHANGED vars BY <1>15 DEF vars
<1> QED
  BY <1>1, <1>2, <1>3, <1>4, <1>5, <1>6, <1>7, <1>8, <1>9, <1>10, <1>11, <1>12, <1>13, <1>14, <1>15, <1>16
  DEF Next, Main

(* simplerand returns no negative number, whatever the width of a long: no *)
(* index or offset that main or the competitor takes from it is negative.  *)
THEOREM NumbersArePositive == Spec => []NeverNegative
<1>1. NegInv => NeverNegative
  BY DEF NegInv, NeverNegative, Positive
<1> QED BY <1>1, NegInit, NegNext, PTL DEF Spec
----------------------------------------------------------------------------
(* Where main is and what it has counted so far. Until the counters are    *)
(* started nothing is counted, while the memory is walked over the rounds  *)
(* are, if there is a group to count them; then the values are read.       *)
MeasureTypes ==
    /\ opened \subseteq Counters
    /\ counting \in BOOLEAN
    /\ program \in {"open_read_perf", "comp", "test"}
    /\ random \in BOOLEAN /\ mset \in BOOLEAN
    /\ val \in [Counters -> (0 .. Rounds) \cup {Garbage}]
    /\ pc \in {"counters", "map", "fork", "mset", "flush", "start", "access", "crashed",
              "rusage", "compete", "read", "kill", "done", "exited"}
    /\ outer \in 0 .. Rounds + FlushRounds
    /\ count \in 0 .. Rounds
    /\ memory \in BOOLEAN /\ flush_mem \in BOOLEAN

MeasurePlace ==
    /\ pc \in {"counters", "map", "fork", "mset", "start"} => outer = 0
    /\ pc \in {"counters", "map", "fork", "mset", "flush", "start", "rusage"} =>
          count = 0 /\ ~counting
    /\ pc = "flush" => outer <= FlushRounds
    /\ pc = "access" =>
          /\ outer <= Rounds
          /\ counting => count = outer
          /\ counting <=> 1 \in opened
    /\ pc = "read" /\ 1 \in opened => count = Rounds
    /\ pc \in {"fork", "flush", "start", "access", "read", "kill", "done"} => program # "comp"
    /\ pc \notin {"counters", "exited"} /\ program = "open_read_perf" => opened = Counters
    /\ pc = "kill" => program = "open_read_perf"
    /\ pc \in {"kill", "done"} /\ opened = Counters => \A k \in Counters : val[k] = Rounds

MeasureInv == MeasureTypes /\ MeasurePlace

LEMMA MeasureInit == Init => MeasureInv
<1>1. 0 \in 0 .. Rounds + FlushRounds /\ 0 \in 0 .. Rounds
  BY MemAccessAssumption
<1> QED BY <1>1 DEF Init, MeasureInv, MeasureTypes, MeasurePlace

LEMMA MeasureNext == MeasureInv /\ [Next]_vars => MeasureInv'
<1> SUFFICES ASSUME MeasureInv, [Next]_vars PROVE MeasureInv'
  OBVIOUS
<1>0. Rounds \in Nat /\ FlushRounds \in Nat
  BY MemAccessAssumption
<1>a. program' = program => Counters' = Counters
  BY DEF Counters
<1> USE <1>0, <1>a DEF MeasureInv, MeasureTypes, MeasurePlace, Configured, Allocated, Goto
<1>1. CASE OpenCounters
  <2>1. MeasureTypes' BY <1>1 DEF OpenCounters
  <2>2. MeasurePlace' BY <1>1 DEF OpenCounters, Counters
  <2> QED BY <2>1, <2>2
<1>2. CASE MapMemory
  <2>1. MeasureTypes' BY <1>2 DEF MapMemory
  <2>2. MeasurePlace' BY <1>2 DEF MapMemory
  <2> QED BY <2>1, <2>2
<1>3. CASE Fork
  <2>1. MeasureTypes' BY <1>3 DEF Fork
  <2>2. MeasurePlace' BY <1>3 DEF Fork
  <2> QED BY <2>1, <2>2
<1>4. CASE MemsetMsync
  <2>1. MeasureTypes' BY <1>4 DEF MemsetMsync
  <2>2. MeasurePlace' BY <1>4 DEF MemsetMsync
  <2> QED BY <2>1, <2>2
<1>5. CASE Flush
  <2>1. MeasureTypes' BY <1>5 DEF Flush
  <2>2. MeasurePlace' BY <1>5 DEF Flush
  <2> QED BY <2>1, <2>2
<1>6. CASE Start
  <2>1. /\ pc = "start" /\ pc' \in {"exited", "access"}
        /\ UNCHANGED <<program, random, mset, opened, val, outer, memory, flush_mem>>
    BY <1>6 DEF Start
  <2>2. /\ counting' \in BOOLEAN /\ count' = 0
        /\ pc' = "access" => (counting' <=> 1 \in opened)
    <3>1. CASE Goto("exited") /\ UNCHANGED <<counting, count>>
      BY <2>1, <3>1
    <3>2. CASE Goto("access") /\ counting' = (1 \in opened) /\ count' = 0
      <4>1. CASE 1 \in opened
        <5>1. counting' = TRUE BY <3>2, <4>1, Zenon
        <5> QED BY <3>2, <4>1, <5>1
      <4>2. CASE 1 \notin opened
        <5>1. (1 \in opened) = FALSE BY <4>2, SMT
        <5>2. counting' = (1 \in opened) BY <3>2
        <5>3. counting' = FALSE BY <5>1, <5>2
        <5> QED BY <3>2, <4>2, <5>3
      <4> QED BY <4>1, <4>2
    <3> QED BY <1>6, <3>1, <3>2, Zenon DEF Start
  <2>3. MeasureTypes' BY <2>1, <2>2
  <2>4. MeasurePlace' BY <2>1, <2>2
  <2> QED BY <2>3, <2>4
<1>7. CASE Access
  <2>1. /\ pc = "access" /\ pc' \in {"access", "crashed"} /\ outer < Rounds
        /\ outer' = outer + 1
        /\ UNCHANGED <<program, random, mset, opened, counting, val, memory, flush_mem>>
    BY <1>7 DEF Access, Round
  <2>2. count' = IF counting THEN count + 1 ELSE count
    BY <1>7 DEF Access
  <2>3. CASE counting
    <3>1. count = outer /\ count' = count + 1
      BY <2>1, <2>2, <2>3
    <3> QED BY <2>1, <2>3, <3>1
  <2>4. CASE ~counting BY <2>1, <2>2, <2>4
  <2> QED BY <2>3, <2>4
<1>8. CASE DoSomething
  <2>1. /\ pc = "access" /\ outer' = Rounds
        /\ UNCHANGED <<program, random, mset, pc, opened, counting, val, memory, flush_mem>>
    BY <1>8 DEF DoSomething
  <2>2. count' = IF counting THEN Rounds ELSE count
    BY <1>8 DEF DoSomething
  <2>3. CASE counting BY <2>1, <2>2, <2>3
  <2>4. CASE ~counting BY <2>1, <2>2, <2>4
  <2> QED BY <2>3, <2>4
<1>9. CASE Stop
  <2>1. /\ pc = "access" /\ outer = Rounds
        /\ UNCHANGED <<program, random, mset, opened, count, val, outer, memory, flush_mem>>
    BY <1>9 DEF Stop
  <2>2. pc' \in {"exited", "read"} /\ counting' = FALSE
    BY <1>9 DEF Stop
  <2>3. 1 \in opened => count = Rounds
    BY <2>1
  <2>4. MeasureTypes' BY <2>1, <2>2
  <2>5. MeasurePlace' BY <2>1, <2>2, <2>3
  <2> QED BY <2>4, <2>5
<1>10. CASE ReadCounters
  <2>1. /\ pc = "read" /\ pc' = IF program = "test" THEN "done" ELSE "kill"
        /\ UNCHANGED <<program, random, mset, opened, counting, count, outer, memory, flush_mem>>
    BY <1>10 DEF ReadCounters
  <2>2. val' = [k \in Counters |-> IF {1, k} \subseteq opened THEN count ELSE val[k]]
    BY <1>10 DEF ReadCounters
  <2>3. MeasureTypes' BY <2>1, <2>2
  <2>4. ASSUME opened = Counters PROVE \A k \in Counters : val'[k] = Rounds
    BY <2>1, <2>2, <2>4 DEF Counters
  <2>5. MeasurePlace'
    <3> USE <2>1, <2>3, <2>4
    <3>1. program' # "comp" OBVIOUS
    <3>2. pc' \notin {"counters", "exited"} /\ program' = "open_read_perf" => opened' = Counters'
      OBVIOUS
    <3> QED BY <3>1, <3>2
  <2> QED BY <2>3, <2>5
<1>14. CASE BecomeCompetitor BY <1>14 DEF BecomeCompetitor
<1>11. CASE Kill
  <2>1. MeasureTypes' BY <1>11 DEF Kill
  <2>2. MeasurePlace' BY <1>11 DEF Kill
  <2> QED BY <2>1, <2>2
<1>12. CASE CompetitorMaps \/ Compete \/ CompetitorDies
  <2>1. UnchangedMain
    BY <1>12 DEF CompetitorMaps, Compete, CompetitorDies
  <2> QED BY <2>1 DEF UnchangedMain
<1>13. CASE UNCHANGED vars BY <1>13 DEF vars
<1> QED
  BY <1>1, <1>2, <1>3, <1>4, <1>5, <1>6, <1>7, <1>8, <1>9, <1>10, <1>11, <1>12, <1>13, <1>14
  DEF Next, Main

(* Every variable stays within its type, in both processes. *)
THEOREM MeasurementTypes == Spec => []TypeOK
<1>1. NegInv /\ MeasureInv => TypeOK
  BY DEF NegInv, MeasureInv, MeasureTypes, TypeOK
<1> QED BY <1>1, NegInit, NegNext, MeasureInit, MeasureNext, PTL DEF Spec

(* For any number of rounds of the flush and of the walk: a value that is  *)
(* printed counts exactly the walk, once the whole group is open.          *)
THEOREM PrintedIsTheWalk == Spec => []PrintsTheWalk
<1>1. MeasureInv => PrintsTheWalk
  BY DEF MeasureInv, MeasureTypes, MeasurePlace, PrintsTheWalk
<1> QED BY <1>1, MeasureInit, MeasureNext, PTL DEF Spec

----------------------------------------------------------------------------
(* The remainder: Horner's rule has a value, between 0 and m - 1.          *)

LEMMA Least ==
    ASSUME NEW S, S \subseteq Nat, S # {}
    PROVE  \E n \in S : \A m \in S : n <= m
<1>1. PICK n \in S : \A m \in S : <<m, n>> \notin OpToRel(<, Nat)
  BY NatLessThanWellFounded, WFMin
<1>2. ASSUME NEW m \in S PROVE n <= m
  <2>1. ~(m < n)
    BY <1>1 DEF OpToRel
  <2> QED BY <2>1
<1> QED BY <1>2

(* h is Horner's rule for u modulo m, from bit n on. *)
IsHorner(h, u, m, n) ==
    h = [i \in n .. Width |->
            IF i = Width THEN 0 ELSE (2 * h[i + 1] + (IF i \in u THEN 1 ELSE 0)) % m]

LEMMA HornerExists ==
    ASSUME NEW u, NEW m
    PROVE  \E h : IsHorner(h, u, m, 0)
<1> DEFINE Bad == {n \in 0 .. Width : ~ \E h : IsHorner(h, u, m, Width - n)}
<1>1. Width \in Nat /\ Bad \subseteq Nat
  BY WidthAssumption
<1>2. ASSUME Bad # {} PROVE FALSE
  <2>1. PICK n \in Bad : \A k \in Bad : n <= k
    BY <1>1, <1>2, Least
  <2> DEFINE from == Width - n
  <2>2. from \in 0 .. Width /\ n \in 0 .. Width
    BY <1>1, <2>1
  <2>3. n # 0
    <3> DEFINE h == [i \in Width .. Width |-> 0]
    <3>1. IsHorner(h, u, m, Width)
      BY <1>1 DEF IsHorner
    <3>2. Width - 0 = Width
      BY <1>1
    <3> QED BY <2>1, <3>1, <3>2
  <2>4. n - 1 \in 0 .. Width /\ n - 1 \notin Bad /\ Width - (n - 1) = from + 1 /\ from # Width
    BY <1>1, <2>1, <2>2, <2>3
  <2>5. PICK g : IsHorner(g, u, m, from + 1)
    BY <2>4
  <2> HIDE DEF from
  <2> DEFINE next(i, h) == IF i = Width THEN 0 ELSE (2 * h[i + 1] + (IF i \in u THEN 1 ELSE 0)) % m
             f == [i \in from .. Width |-> IF i = from THEN next(i, g) ELSE g[i]]
  <2>6. \A i \in from + 1 .. Width : g[i] = next(i, g)
    BY <2>5 DEF IsHorner
  <2>7. \A i \in from .. Width : i # Width => f[i + 1] = g[i + 1]
    <3>1. \A i \in from .. Width : i # Width => i + 1 \in from .. Width /\ i + 1 # from
      BY <1>1, <2>2
    <3> QED BY <3>1
  <2>8. \A i \in from .. Width : next(i, f) = next(i, g)
    <3> HIDE DEF f
    <3> QED BY <2>7
  <2>9. \A i \in from .. Width : f[i] = next(i, g)
    <3>1. \A i \in from .. Width : i # from => i \in from + 1 .. Width
      BY <1>1, <2>2
    <3> QED BY <2>6, <3>1
  <2>10. f = [i \in from .. Width |-> next(i, f)]
    <3>1. \A i \in from .. Width : f[i] = next(i, f)
      BY <2>8, <2>9
    <3>2. f = [i \in from .. Width |-> f[i]]
      OBVIOUS
    <3> HIDE DEF f, next
    <3> QED BY <3>1, <3>2
  <2>11. IsHorner(f, u, m, from)
    <3> HIDE DEF f
    <3> QED BY <2>10 DEF IsHorner
  <2> QED BY <2>1, <2>11 DEF from
<1>3. Width \in 0 .. Width /\ Width \notin Bad /\ Width - Width = 0
  BY <1>1, <1>2
<1> QED BY <1>3

LEMMA HornerBounded ==
    ASSUME NEW u, NEW m \in Nat \ {0}, NEW h, IsHorner(h, u, m, 0)
    PROVE  h[0] \in 0 .. m - 1
<1> DEFINE Bad == {n \in 0 .. Width : h[Width - n] \notin Int}
<1>1. Width \in Nat /\ Width # 0 /\ Bad \subseteq Nat
  BY WidthAssumption
<1>2. \A i \in 0 .. Width :
         h[i] = IF i = Width THEN 0 ELSE (2 * h[i + 1] + (IF i \in u THEN 1 ELSE 0)) % m
  BY DEF IsHorner
<1>3. \A a \in Int, b \in {0, 1} : (2 * a + b) % m \in 0 .. m - 1
  <2>1. \A x \in Int : x % m \in 0 .. m - 1
    OBVIOUS
  <2> QED BY <2>1
<1>4. \A i \in 0 .. Width - 1 : h[i + 1] \in Int => h[i] \in 0 .. m - 1
  <2> SUFFICES ASSUME NEW i \in 0 .. Width - 1, h[i + 1] \in Int PROVE h[i] \in 0 .. m - 1
    OBVIOUS
  <2> DEFINE b == IF i \in u THEN 1 ELSE 0
  <2>1. b \in {0, 1} /\ i \in 0 .. Width /\ i # Width
    BY <1>1
  <2>2. h[i] = (2 * h[i + 1] + b) % m
    BY <1>2, <2>1
  <2> HIDE DEF b
  <2> QED BY <1>3, <2>1, <2>2
<1>5. ASSUME Bad # {} PROVE FALSE
  <2>1. PICK n \in Bad : \A k \in Bad : n <= k
    BY <1>1, <1>5, Least
  <2>2. n # 0
    <3>1. Width - 0 = Width /\ Width \in 0 .. Width
      BY <1>1
    <3>2. h[Width] \in Int
      BY <1>2, <3>1
    <3> QED BY <2>1, <3>1, <3>2
  <2>3. /\ n - 1 \in 0 .. Width /\ n - 1 \notin Bad
        /\ Width - (n - 1) = (Width - n) + 1 /\ Width - n \in 0 .. Width - 1
    BY <1>1, <2>1, <2>2
  <2>4. h[(Width - n) + 1] \in Int
    BY <2>3
  <2>5. h[Width - n] \in 0 .. m - 1
    BY <1>4, <2>3, <2>4
  <2> QED BY <2>1, <2>5
<1>6. Width - 1 \in 0 .. Width /\ Width - (Width - 1) = 0 + 1 /\ 0 \in 0 .. Width - 1
  BY <1>1
<1>7. Width - 1 \notin Bad
  BY <1>5
<1>8. h[0 + 1] \in Int
  BY <1>6, <1>7
<1> QED BY <1>4, <1>6, <1>8

LEMMA RemainderBounded ==
    ASSUME NEW u, Sign \notin u, NEW m \in Nat \ {0}
    PROVE  Remainder(u, m) \in 0 .. m - 1
<1> DEFINE h == CHOOSE f : IsHorner(f, u, m, 0)
<1>1. IsHorner(h, u, m, 0)
  BY HornerExists
<1>2. Remainder(u, m) = h[0]
  BY DEF Remainder, ModFrom, IsHorner
<1> HIDE DEF h
<1> QED BY <1>1, <1>2, HornerBounded

----------------------------------------------------------------------------
(* The walk over the memory                                                *)

LEMMA MaxBases ==
    /\ MaxBase(Size) \in Nat \ {0}
    /\ \A b \in 0 .. MaxBase(Size) - 1 : Inside(b)
    /\ \A b \in Nat : b + 512 >= MaxBase(Size) =>
          Size \div CACHE_LINE_SIZE - (b + WorkingSet) <= WorkingSet
    /\ MaxBase(FlushSize) \in Nat
    /\ \A b \in Nat : b = 0 \/ b < MaxBase(FlushSize) => InFlushMem(b)
<1> USE MemAccessAssumption DEF MaxBase, CACHE_LINE_SIZE, WorkingSet
<1>1. MaxBase(Size) \in Nat \ {0}
  OBVIOUS
<1>2. ASSUME NEW b \in 0 .. MaxBase(Size) - 1 PROVE Inside(b)
  BY DEF Inside
<1>3. ASSUME NEW b \in Nat, b + 512 >= MaxBase(Size)
      PROVE  Size \div CACHE_LINE_SIZE - (b + WorkingSet) <= WorkingSet
  BY <1>3
<1>4. MaxBase(FlushSize) \in Nat
  OBVIOUS
<1>5. ASSUME NEW b \in Nat, b = 0 \/ b < MaxBase(FlushSize)
      PROVE  InFlushMem(b)
  BY <1>5 DEF InFlushMem
<1> QED BY <1>1, <1>2, <1>3, <1>4, <1>5

(* ws_base is a place to begin at, an access ends main only at NULL, and   *)
(* the competitor runs on what it mapped.                                  *)
PlacesInv ==
    /\ ws_base \in Nat
    /\ pc = "flush" => ws_base = 0 \/ ws_base < MaxBase(FlushSize)
    /\ pc \in {"counters", "map", "fork", "mset"} => ws_base = 0
    /\ pc = "crashed" => ~memory \/ ~flush_mem
    /\ comp.state # "crashed"
    /\ comp.state = "running" => comp.pages \in Nat \ {0}

LEMMA PlacesNext == ASSUME NegInv, PlacesInv, [Next]_vars PROVE PlacesInv'
<1> USE DEF PlacesInv, Goto, Allocated
<1>1. CASE OpenCounters \/ MapMemory \/ MemsetMsync \/ Start \/ Stop \/ ReadCounters
  BY <1>1 DEF OpenCounters, MapMemory, MemsetMsync, Start, Stop, ReadCounters
<1>2. CASE Fork \/ BecomeCompetitor
  <2>1. \/ comp' = comp
        \/ comp' = [NoCompetitor EXCEPT !.state = "start", !.gen = gen]
    BY <1>2 DEF Fork, BecomeCompetitor
  <2>2. comp' = comp \/ comp'.state = "start"
    BY <2>1 DEF NoCompetitor
  <2>3. ws_base' = ws_base /\ pc' \in {"mset", "exited", "compete"} /\ (pc' = "mset" => pc = "fork")
    BY <1>2 DEF Fork, BecomeCompetitor
  <2> QED BY <2>2, <2>3
<1>3. CASE Flush
  <2>1. comp' = comp
    BY <1>3 DEF Flush
  <2>2. CASE outer = FlushRounds
    BY <1>3, <2>1, <2>2 DEF Flush
  <2>3. CASE outer # FlushRounds
    <3>1. /\ ws_base' = IF ws_base + 512 >= MaxBase(FlushSize) THEN 0 ELSE ws_base + 512
          /\ pc = "flush" /\ UNCHANGED <<memory, flush_mem>>
          /\ IF flush_mem /\ InFlushMem(ws_base') THEN pc' = pc ELSE pc' = "crashed"
      BY <1>3, <2>3 DEF Flush
    <3>2. ws_base' \in Nat /\ (ws_base' = 0 \/ ws_base' < MaxBase(FlushSize))
      BY <3>1, MaxBases
    <3>3. InFlushMem(ws_base')
      BY <3>2, MaxBases
    <3> QED BY <2>1, <3>1, <3>2, <3>3
  <2> QED BY <2>2, <2>3
<1>4. CASE Access
  <2> DEFINE r == Remainder(simplerand(gen).w, MaxBase(Size))
  <2>1. /\ pc = "access" /\ comp' = comp /\ ws_base' = NextBase(r)
        /\ IF memory /\ Inside(ws_base') THEN pc' = pc ELSE pc' = "crashed"
        /\ UNCHANGED <<memory, flush_mem>>
    BY <1>4 DEF Access, Round
  <2>2. Sign \notin simplerand(gen).w
    BY SimplerandPositive DEF NegInv, Positive
  <2>3. r \in 0 .. MaxBase(Size) - 1
    BY <2>2, MaxBases, RemainderBounded
  <2> HIDE DEF r
  <2>4. ws_base' \in 0 .. MaxBase(Size) - 1
    BY <2>1, <2>3, MaxBases DEF NextBase
  <2>5. Inside(ws_base')
    BY <2>4, MaxBases
  <2> QED BY <2>1, <2>4, <2>5
<1>5. CASE DoSomething BY <1>5 DEF DoSomething
<1>6. CASE Kill
  <2>1. /\ comp' = [comp EXCEPT !.state = IF comp.state \in {"start", "running"} THEN "signalled" ELSE comp.state]
        /\ pc' = "done" /\ ws_base' = ws_base
    BY <1>6 DEF Kill
  <2>2. comp'.state \in {comp.state, "signalled"} /\ comp'.pages = comp.pages
    BY <2>1 DEF NegInv, Competitor
  <2> QED BY <2>1, <2>2
<1>7. CASE CompetitorMaps
  <2>1. /\ comp'.state \in {"gone", "running", "starved"}
        /\ comp'.state = "running" => comp'.pages \in Nat \ {0}
    <3>1. CASE comp' = [comp EXCEPT !.state = "gone"]
      BY <3>1 DEF NegInv, Competitor
    <3>2. CASE \E pages \in MemPages :
                 pages > 0 /\ comp' = [comp EXCEPT !.state = "running", !.pages = pages]
      <4>1. PICK pages \in MemPages :
              pages > 0 /\ comp' = [comp EXCEPT !.state = "running", !.pages = pages]
        BY <3>2
      <4>2. pages \in Nat \ {0}
        BY <4>1, MemAccessAssumption
      <4>3. comp'.pages = pages
        BY <4>1 DEF NegInv, Competitor
      <4>4. comp'.state = "running"
        BY <4>1 DEF NegInv, Competitor
      <4> QED BY <4>2, <4>3, <4>4
    <3>3. CASE \E pages \in MemPages : comp' = [comp EXCEPT !.state = "starved", !.pages = pages]
      BY <3>3 DEF NegInv, Competitor
    <3> QED BY <1>7, <3>1, <3>2, <3>3 DEF CompetitorMaps
  <2> QED BY <1>7, <2>1 DEF CompetitorMaps, UnchangedMain
<1>8. CASE Compete
  <2> DEFINE g == simplerand(comp.gen)
             r == Remainder(g.w, comp.pages)
  <2>1. /\ comp.state = "running"
        /\ comp' = [comp EXCEPT !.gen = g, !.n = comp.n + 1,
                        !.state = IF r \in 0 .. comp.pages - 1 THEN comp.state ELSE "crashed"]
    BY <1>8 DEF Compete
  <2>2. r \in 0 .. comp.pages - 1
    <3>1. Sign \notin g.w
      BY SimplerandPositive DEF NegInv, Positive, Competitor
    <3> QED BY <2>1, <3>1, RemainderBounded
  <2> HIDE DEF g, r
  <2>3. comp'.state = "running" /\ comp'.pages = comp.pages
    BY <2>1, <2>2 DEF NegInv, Competitor
  <2> QED BY <1>8, <2>1, <2>3 DEF Compete, UnchangedMain
<1>9. CASE CompetitorDies
  <2>1. comp'.state = "gone"
    BY <1>9 DEF CompetitorDies, NegInv, Competitor
  <2> QED BY <1>9, <2>1 DEF CompetitorDies, UnchangedMain
<1>10. CASE UNCHANGED vars BY <1>10 DEF vars
<1> QED BY <1>1, <1>2, <1>3, <1>4, <1>5, <1>6, <1>7, <1>8, <1>9, <1>10 DEF Next, Main

LEMMA PlacesAlways == Spec => [](NegInv /\ PlacesInv)
<1>1. Init => PlacesInv
  BY DEF Init, PlacesInv, NoCompetitor
<1> QED BY <1>1, NegInit, NegNext, PlacesNext, PTL DEF Spec

(* Neither flush nor walk nor competitor ever touches a byte beside its    *)
(* memory, sequentially or at random, for memories of every size from one  *)
(* working set on and words of every width (do_mem_access, do_mem_flush    *)
(* and compete_for_memory): only a NULL of malloc ends main at an access.  *)
THEOREM AccessesStayInside == Spec => []AccessesInside
<1>1. PlacesInv => AccessesInside
  BY DEF PlacesInv, AccessesInside
<1> QED BY <1>1, PlacesAlways, PTL

(* For every size of the memory, a sequential walk leaves out no line      *)
(* between two rounds, and turns back only near the end: do_mem_access.    *)
THEOREM NoGapInSweeps == Spec => SweepsLeaveNoGap
<1> DEFINE NoGap ==
      pc = "access" /\ program # "test" /\ ~random /\ outer' # outer =>
          \/ ws_base < ws_base' /\ ws_base' <= ws_base + WorkingSet
          \/ ws_base' = 0 /\ Size \div CACHE_LINE_SIZE - (ws_base + WorkingSet) <= WorkingSet
<1>1. ASSUME NegInv, PlacesInv, [Next]_vars PROVE [NoGap]_vars
  <2> SUFFICES ASSUME Next, pc = "access", program # "test", ~random, outer' # outer
               PROVE  NoGap
    BY <1>1
  <2>1. Access
    BY DEF Next, Main, OpenCounters, MapMemory, Fork, MemsetMsync, Flush, Start, DoSomething, Stop,
           BecomeCompetitor, ReadCounters, Kill, CompetitorMaps, Compete, CompetitorDies, UnchangedMain
  <2>2. ws_base' = IF ws_base + 512 >= MaxBase(Size) THEN 0 ELSE ws_base + 512
    BY <2>1 DEF Access, Round, NextBase
  <2>3. CASE ws_base + 512 >= MaxBase(Size)
    BY <1>1, <2>2, <2>3, MaxBases DEF PlacesInv
  <2>4. CASE ~(ws_base + 512 >= MaxBase(Size))
    BY <1>1, <2>2, <2>4 DEF PlacesInv, WorkingSet
  <2> QED BY <2>3, <2>4
<1>2. Spec => [][NoGap]_vars
  BY <1>1, PlacesAlways, PTL DEF Spec
<1> QED BY <1>2 DEF SweepsLeaveNoGap
=============================================================================
