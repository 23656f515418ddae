------------------------- MODULE InitialStackProofs -------------------------
(***************************************************************************)
(* Theorems about the initial stack, for every command line, environment   *)
(* and auxiliary vector.                                                   *)
(***************************************************************************)
EXTENDS InitialStack, SequenceTheorems, WellFoundedInduction, TLAPS

(* A set of numbers has a least one. *)
LEMMA Least ==
    ASSUME NEW S, S \subseteq Nat, S # {}
    PROVE  \E n \in S : \A m \in S : n <= m
<1>1. PICK n \in S : \A m \in S : <<m, n>> \notin OpToRel(<, Nat)
  BY NatLessThanWellFounded, WFMin
<1>2. ASSUME NEW m \in S PROVE n <= m
  <2>1. ~(m < n)
    BY <1>1 DEF OpToRel
  <2> QED BY <2>1
<1> QED BY <1>2

LEMMA LeastIsMin ==
    ASSUME NEW S, S \subseteq Int, NEW e \in S, \A k \in S : e <= k
    PROVE  Min(S) = e
<1> DEFINE m == Min(S)
<1>1. m \in S /\ \A k \in S : m <= k
  BY DEF Min
<1> HIDE DEF m
<1>2. m \in Int /\ e \in Int /\ m <= e /\ e <= m
  BY <1>1
<1>3. m = e
  BY <1>2
<1> QED BY <1>3 DEF m

LEMMA GreatestIsMax ==
    ASSUME NEW S, S \subseteq Int, NEW e \in S, \A k \in S : e >= k
    PROVE  Max(S) = e
<1> DEFINE m == Max(S)
<1>1. m \in S /\ \A k \in S : m >= k
  BY DEF Max
<1> HIDE DEF m
<1>2. m \in Int /\ e \in Int /\ m >= e /\ e >= m
  BY <1>1
<1>3. m = e
  BY <1>2
<1> QED BY <1>3 DEF m

----------------------------------------------------------------------------
(* The strings as they lie one behind the other                            *)

(* f[i] is the first i of seqs put together, for i up to n. *)
Joins(seqs, n, f) ==
    f = [i \in 1 .. n |-> IF i = 1 THEN seqs[i] ELSE f[i - 1] \o seqs[i]]

LEMMA JoinsExist ==
    ASSUME NEW seqs, NEW n \in Nat
    PROVE  \E f : Joins(seqs, n, f)
<1> DEFINE Bad == {m \in Nat : ~ \E f : Joins(seqs, m, f)}
<1> SUFFICES ASSUME Bad # {} PROVE FALSE
  OBVIOUS
<1>1. PICK m \in Bad : \A k \in Bad : m <= k
  BY Least
<1>2. m # 0
  <2>1. Joins(seqs, 0, [i \in 1 .. 0 |-> 0])
    BY DEF Joins
  <2> QED BY <2>1
<1>3. m - 1 \in Nat /\ m - 1 \notin Bad
  BY <1>1, <1>2
<1>4. PICK g : Joins(seqs, m - 1, g)
  BY <1>3
<1> DEFINE f == [i \in 1 .. m |-> IF i = m THEN IF i = 1 THEN seqs[i] ELSE g[i - 1] \o seqs[i]
                                           ELSE g[i]]
<1>5. ASSUME NEW i \in 1 .. m
      PROVE  f[i] = IF i = 1 THEN seqs[i] ELSE f[i - 1] \o seqs[i]
  <2>1. CASE i = m
    BY <2>1, <1>1
  <2>2. CASE i # m
    <3>1. i \in 1 .. m - 1
      BY <2>2, <1>1
    <3>2. g[i] = IF i = 1 THEN seqs[i] ELSE g[i - 1] \o seqs[i]
      BY <3>1, <1>4 DEF Joins
    <3>3. i = 1 \/ (i - 1 \in 1 .. m /\ i - 1 # m)
      BY <3>1, <1>1
    <3> QED BY <2>2, <3>1, <3>2, <3>3
  <2> QED BY <2>1, <2>2
<1>6. Joins(seqs, m, f)
  BY <1>5 DEF Joins
<1> QED BY <1>1, <1>6

LEMMA JoinsAgree ==
    ASSUME NEW a, NEW b, NEW f, NEW g, NEW m \in Nat, NEW n \in Nat, m <= n,
           \A i \in 1 .. m : a[i] = b[i],
           Joins(a, m, f), Joins(b, n, g)
    PROVE  \A i \in 1 .. m : f[i] = g[i]
<1> DEFINE Bad == {i \in 1 .. m : f[i] # g[i]}
<1> SUFFICES ASSUME Bad # {} PROVE FALSE
  OBVIOUS
<1> Bad \subseteq Nat
  OBVIOUS
<1>1. PICK i \in Bad : \A k \in Bad : i <= k
  BY Least
<1>2. i \in 1 .. m /\ i \in 1 .. n /\ (i # 1 => i - 1 \in 1 .. m)
  BY <1>1
<1>3. i = 1 \/ f[i - 1] = g[i - 1]
  BY <1>1, <1>2
<1>4. /\ f[i] = IF i = 1 THEN a[i] ELSE f[i - 1] \o a[i]
      /\ g[i] = IF i = 1 THEN b[i] ELSE g[i - 1] \o b[i]
  BY <1>2 DEF Joins
<1> QED BY <1>1, <1>2, <1>3, <1>4

LEMMA FlattenJoins ==
    ASSUME NEW seqs, Len(seqs) \in Nat \ {0}
    PROVE  \E f : Joins(seqs, Len(seqs), f) /\ FlattenSeq(seqs) = f[Len(seqs)]
<1> DEFINE f == CHOOSE g : Joins(seqs, Len(seqs), g)
<1>1. Joins(seqs, Len(seqs), f)
  BY JoinsExist
<1>2. FlattenSeq(seqs) = f[Len(seqs)]
  BY DEF FlattenSeq, Joins
<1> QED BY <1>1, <1>2

(* The first k strings, and how much room they take *)
First(strs, k) == Layout(SubSeq(strs, 1, k))

Ended(str) == Append(str, NUL)

LEMMA PrefixFacts ==
    ASSUME NEW strs \in Seq(Text), NEW k \in 0 .. Len(strs)
    PROVE  /\ SubSeq(strs, 1, k) \in Seq(Text)
           /\ Len(SubSeq(strs, 1, k)) = k
           /\ \A i \in 1 .. k : SubSeq(strs, 1, k)[i] = strs[i]
<1>1. SubSeq(strs, 1, k) \in Seq(Text)
  BY SubSeqProperties
<1> QED BY <1>1, SubSeqProperties

LEMMA NoStrings ==
    ASSUME NEW strs \in Seq(Text)
    PROVE  First(strs, 0) = << >>
<1> DEFINE cut == SubSeq(strs, 1, 0)
           seqs == [k \in DOMAIN cut |-> Append(cut[k], NUL)]
<1>1. cut \in Seq(Text) /\ Len(cut) = 0
  BY PrefixFacts
<1>2. seqs \in Seq(Seq(Int)) /\ Len(seqs) = 0
  BY <1>1
<1>3. FlattenSeq(seqs) = seqs
  BY <1>2 DEF FlattenSeq
<1>4. seqs = << >>
  BY <1>2
<1> QED BY <1>3, <1>4 DEF First, Layout

(* Another string goes behind the others. *)
LEMMA OneMore ==
    ASSUME NEW strs \in Seq(Text), NEW k \in 1 .. Len(strs)
    PROVE  First(strs, k) = First(strs, k - 1) \o Ended(strs[k])
<1> DEFINE longer  == SubSeq(strs, 1, k)
           shorter == SubSeq(strs, 1, k - 1)
           a == [i \in DOMAIN shorter |-> Append(shorter[i], NUL)]
           b == [i \in DOMAIN longer |-> Append(longer[i], NUL)]
<1>1. /\ longer \in Seq(Text) /\ Len(longer) = k
      /\ \A i \in 1 .. k : longer[i] = strs[i]
  BY PrefixFacts
<1>2. /\ shorter \in Seq(Text) /\ Len(shorter) = k - 1
      /\ \A i \in 1 .. k - 1 : shorter[i] = strs[i]
  BY PrefixFacts
<1> HIDE DEF longer, shorter
<1>3. Len(b) = k /\ \A i \in 1 .. k : b[i] = Ended(strs[i])
  BY <1>1 DEF Ended
<1>4. Len(a) = k - 1 /\ \A i \in 1 .. k - 1 : a[i] = Ended(strs[i])
  BY <1>2 DEF Ended
<1>5. First(strs, k) = FlattenSeq(b) /\ First(strs, k - 1) = FlattenSeq(a)
  BY DEF First, Layout, longer, shorter
<1>6. Ended(strs[k]) \in Seq(Int)
  BY DEF Ended, Text, NUL
<1> HIDE DEF a, b
<1>7. PICK g : Joins(b, k, g) /\ FlattenSeq(b) = g[k]
  BY <1>3, FlattenJoins
<1>8. g[k] = IF k = 1 THEN Ended(strs[k]) ELSE g[k - 1] \o Ended(strs[k])
  <2>1. k \in 1 .. k
    OBVIOUS
  <2>2. g[k] = IF k = 1 THEN b[k] ELSE g[k - 1] \o b[k]
    BY <1>7, <2>1 DEF Joins
  <2> QED BY <1>3, <2>1, <2>2
<1>9. CASE k = 1
  <2>1. First(strs, k - 1) = << >>
    BY <1>9, NoStrings
  <2>2. << >> \o Ended(strs[k]) = Ended(strs[k])
    BY <1>6
  <2> QED BY <1>9, <1>5, <1>7, <1>8, <2>1, <2>2
<1>10. CASE k # 1
  <2>1. Len(a) \in Nat \ {0} /\ k - 1 \in Nat \ {0} /\ k - 1 \in 1 .. k - 1
    BY <1>4, <1>10
  <2>2. PICK f : Joins(a, k - 1, f) /\ FlattenSeq(a) = f[k - 1]
    BY <1>4, <2>1, FlattenJoins
  <2>3. \A i \in 1 .. k - 1 : a[i] = b[i]
    BY <1>3, <1>4
  <2>4. f[k - 1] = g[k - 1]
    <3>1. k - 1 \in Nat /\ k \in Nat /\ k - 1 <= k
      OBVIOUS
    <3> QED BY <1>7, <2>1, <2>2, <2>3, <3>1, JoinsAgree
  <2>5. FlattenSeq(a) = f[k - 1] /\ FlattenSeq(b) = g[k]
    BY <1>7, <2>1, <2>2, <1>4
  <2> QED BY <1>10, <1>5, <1>8, <2>4, <2>5
<1> QED BY <1>9, <1>10

(* The offset of the k-th string *)
Offset(strs, k) == Len(First(strs, k - 1))

LEMMA LayoutOfNumbers ==
    ASSUME NEW strs \in Seq(Text)
    PROVE  \A k \in 0 .. Len(strs) : First(strs, k) \in Seq(Int)
<1> DEFINE Bad == {k \in 0 .. Len(strs) : First(strs, k) \notin Seq(Int)}
<1> SUFFICES ASSUME Bad # {} PROVE FALSE
  OBVIOUS
<1> Bad \subseteq Nat
  OBVIOUS
<1>1. PICK k \in Bad : \A j \in Bad : k <= j
  BY Least
<1>2. k # 0
  <2>1. First(strs, 0) \in Seq(Int)
    BY NoStrings, EmptySeq
  <2> QED BY <1>1, <2>1
<1>3. k - 1 \in 0 .. Len(strs) /\ k - 1 \notin Bad /\ k \in 1 .. Len(strs)
  BY <1>1, <1>2
<1>4. Ended(strs[k]) \in Seq(Int)
  BY <1>3 DEF Ended, Text, NUL
<1>5. First(strs, k) = First(strs, k - 1) \o Ended(strs[k]) /\ First(strs, k - 1) \in Seq(Int)
  BY <1>3, OneMore
<1>6. First(strs, k) \in Seq(Int)
  BY <1>4, <1>5, ConcatProperties
<1> QED BY <1>1, <1>6

LEMMA Offsets ==
    ASSUME NEW strs \in Seq(Text)
    PROVE  /\ Offset(strs, 1) = 0
           /\ \A k \in 1 .. Len(strs) + 1 : Offset(strs, k) \in Nat
           /\ \A k \in 1 .. Len(strs) : Offset(strs, k + 1) = Offset(strs, k) + Len(strs[k]) + 1
<1>1. Offset(strs, 1) = 0
  BY NoStrings DEF Offset
<1>2. ASSUME NEW k \in 1 .. Len(strs) + 1 PROVE Offset(strs, k) \in Nat
  BY LayoutOfNumbers DEF Offset
<1>3. ASSUME NEW k \in 1 .. Len(strs)
      PROVE  Offset(strs, k + 1) = Offset(strs, k) + Len(strs[k]) + 1
  <2>1. k + 1 - 1 = k
    OBVIOUS
  <2>2. First(strs, k) = First(strs, k - 1) \o Ended(strs[k])
    BY OneMore
  <2>3. First(strs, k - 1) \in Seq(Int)
    BY LayoutOfNumbers
  <2>4. Ended(strs[k]) \in Seq(Int) /\ Len(Ended(strs[k])) = Len(strs[k]) + 1 /\ Len(strs[k]) \in Nat
    BY DEF Ended, Text, NUL
  <2> HIDE DEF First, Ended
  <2>5. Len(First(strs, k)) = Len(First(strs, k - 1)) + Len(Ended(strs[k]))
    BY <2>2, <2>3, <2>4, ConcatProperties
  <2>6. Len(First(strs, k - 1)) \in Nat
    BY <2>3
  <2>7. Offset(strs, k + 1) = Len(First(strs, k)) /\ Offset(strs, k) = Len(First(strs, k - 1))
    BY <2>1 DEF Offset
  <2>8. \A a, l \in Nat : a + (l + 1) = a + l + 1
    OBVIOUS
  <2> QED BY <2>4, <2>5, <2>6, <2>7, <2>8
<1> QED BY <1>1, <1>2, <1>3

LEMMA OffsetsRise ==
    ASSUME NEW strs \in Seq(Text), NEW j \in 1 .. Len(strs) + 1
    PROVE  \A k \in j .. Len(strs) + 1 : Offset(strs, j) <= Offset(strs, k)
<1> DEFINE Bad == {k \in j .. Len(strs) + 1 : ~(Offset(strs, j) <= Offset(strs, k))}
<1> SUFFICES ASSUME Bad # {} PROVE FALSE
  OBVIOUS
<1> Bad \subseteq Nat
  OBVIOUS
<1>1. PICK k \in Bad : \A i \in Bad : k <= i
  BY Least
<1>2. Offset(strs, j) \in Nat /\ Offset(strs, k) \in Nat
  BY Offsets
<1>3. k # j
  BY <1>1, <1>2
<1>4. /\ k - 1 \in j .. Len(strs) + 1 /\ k - 1 \notin Bad
      /\ k - 1 \in 1 .. Len(strs) /\ k - 1 + 1 = k
  BY <1>1, <1>3
<1>5. Offset(strs, k) = Offset(strs, k - 1) + Len(strs[k - 1]) + 1
  BY <1>4, Offsets
<1>6. strs[k - 1] \in Seq(Int \ {NUL})
  BY <1>4 DEF Text
<1>7. Len(strs[k - 1]) \in Nat /\ Offset(strs, k - 1) \in Nat
  BY <1>4, <1>6, Offsets
<1>8. Offset(strs, j) <= Offset(strs, k - 1)
  BY <1>4
<1>9. \A a, b, l \in Nat : a <= b => a <= b + l + 1
  OBVIOUS
<1>10. Offset(strs, j) <= Offset(strs, k)
  BY <1>2, <1>5, <1>7, <1>8, <1>9
<1> QED BY <1>1, <1>10

(* The string that begins at offset o of s is str. *)
Holds(s, o, str) ==
    \A i \in 1 .. Len(str) + 1 : o + i \in 1 .. Len(s) /\ s[o + i] = Ended(str)[i]

LEMMA EndedFacts ==
    ASSUME NEW str \in Text
    PROVE  /\ Len(str) \in Nat
           /\ Ended(str) \in Seq(Int)
           /\ Len(Ended(str)) = Len(str) + 1
           /\ \A i \in 1 .. Len(str) : Ended(str)[i] = str[i] /\ str[i] # NUL
           /\ Ended(str)[Len(str) + 1] = NUL
BY DEF Text, Ended, NUL

(* Strings stay where they are when others come behind them. *)
LEMMA HoldsString ==
    ASSUME NEW strs \in Seq(Text), NEW k \in 1 .. Len(strs)
    PROVE  \A m \in k .. Len(strs) : Holds(First(strs, m), Offset(strs, k), strs[k])
<1> DEFINE Bad == {m \in k .. Len(strs) : ~ Holds(First(strs, m), Offset(strs, k), strs[k])}
<1> SUFFICES ASSUME Bad # {} PROVE FALSE
  OBVIOUS
<1> Bad \subseteq Nat
  OBVIOUS
<1>1. PICK m \in Bad : \A i \in Bad : m <= i
  BY Least
<1> DEFINE o == Offset(strs, k)
           n == Len(strs[k]) + 1
           before == First(strs, m - 1)
           last == Ended(strs[m])
<1>2. strs[k] \in Text /\ strs[m] \in Text /\ m \in 1 .. Len(strs) /\ m - 1 \in 0 .. Len(strs)
  BY <1>1
<1>3. First(strs, m) = before \o last
  BY <1>2, OneMore
<1>4. before \in Seq(Int) /\ last \in Seq(Int) /\ Len(last) = Len(strs[m]) + 1 /\ Len(strs[m]) \in Nat
  BY <1>2, LayoutOfNumbers, EndedFacts
<1>5. /\ Len(before \o last) = Len(before) + Len(last)
      /\ \A i \in 1 .. Len(before) + Len(last) :
            (before \o last)[i] = IF i <= Len(before) THEN before[i] ELSE last[i - Len(before)]
  BY <1>4, ConcatProperties
<1>6. o \in Nat /\ n \in Nat /\ Len(before) \in Nat
  <2>1. k \in 1 .. Len(strs) + 1
    OBVIOUS
  <2>2. o \in Nat
    BY <2>1, Offsets
  <2>3. Len(strs[k]) \in Nat
    BY <1>2, EndedFacts
  <2> QED BY <1>4, <2>2, <2>3
<1>7. CASE m = k
  <2>1. Len(before) = o /\ Len(last) = n
    BY <1>4, <1>7 DEF Offset
  <2> HIDE DEF o, n, before, last
  <2>2. \A i \in 1 .. n : /\ o + i \in 1 .. o + n /\ ~(o + i <= o) /\ o + i - o = i
    BY <1>6
  <2>3. \A i \in 1 .. n : o + i \in 1 .. Len(before \o last) /\ (before \o last)[o + i] = last[i]
    BY <1>5, <2>1, <2>2
  <2> QED BY <1>1, <1>3, <1>7, <2>3 DEF Holds, n, o, last
<1>8. CASE m # k
  <2>1. m - 1 \in k .. Len(strs) /\ m - 1 \notin Bad
    BY <1>1, <1>8
  <2>2. Holds(before, o, strs[k])
    BY <2>1
  <2> HIDE DEF o, n, before, last
  <2>3. \A i \in 1 .. n : o + i \in 1 .. Len(before) /\ before[o + i] = Ended(strs[k])[i]
    BY <2>2 DEF Holds, n
  <2>4. \A i \in 1 .. Len(before) : i \in 1 .. Len(before) + Len(last) /\ i <= Len(before)
    BY <1>4, <1>6
  <2>5. \A i \in 1 .. n : o + i \in 1 .. Len(before \o last) /\ (before \o last)[o + i] = Ended(strs[k])[i]
    BY <1>5, <2>3, <2>4
  <2> QED BY <1>1, <1>3, <2>5 DEF Holds, n, o
<1> QED BY <1>7, <1>8

(* StringAt finds a string that is there. *)
LEMMA StringFound ==
    ASSUME NEW s \in Seq(Int), NEW o \in Nat, NEW str \in Text, Holds(s, o, str)
    PROVE  StringAt(s, StringBase + o) = str
<1> DEFINE from == o + 1
           ends == {k \in from .. Len(s) : s[k] = NUL}
           e == o + Len(str) + 1
<1>1. /\ Len(str) \in Nat
      /\ \A i \in 1 .. Len(str) : Ended(str)[i] = str[i] /\ str[i] # NUL
      /\ Ended(str)[Len(str) + 1] = NUL
  BY EndedFacts
<1>2. \A i \in 1 .. Len(str) + 1 : o + i \in 1 .. Len(s) /\ s[o + i] = Ended(str)[i]
  BY DEF Holds
<1>3. e \in ends
  <2>1. Len(str) + 1 \in 1 .. Len(str) + 1 /\ o + (Len(str) + 1) = e
    BY <1>1
  <2>2. e \in 1 .. Len(s) /\ s[e] = NUL
    BY <1>1, <1>2, <2>1
  <2> QED BY <1>1, <2>2
<1>4. \A k \in ends : e <= k
  <2> SUFFICES ASSUME NEW k \in ends, k < e PROVE FALSE
    BY <1>1
  <2>1. k - o \in 1 .. Len(str) /\ k - o \in 1 .. Len(str) + 1 /\ o + (k - o) = k
    BY <1>1
  <2>2. s[k] # NUL
    BY <1>1, <1>2, <2>1
  <2> QED BY <2>2
<1>5. ends \subseteq Int
  OBVIOUS
<1>6. Min(ends) = e
  <2> HIDE DEF ends, e
  <2> QED BY <1>3, <1>4, <1>5, LeastIsMin
<1>7. StringAt(s, StringBase + o) = SubSeq(s, from, e - 1)
  <2>1. (StringBase + o) - StringBase + 1 = from
    BY StackAssumption
  <2>2. StringAt(s, StringBase + o)
          = SubSeq(s, (StringBase + o) - StringBase + 1,
                   Min({k \in (StringBase + o) - StringBase + 1 .. Len(s) : s[k] = NUL}) - 1)
    BY DEF StringAt
  <2>3. StringAt(s, StringBase + o) = SubSeq(s, from, Min(ends) - 1)
    <3> HIDE DEF from
    <3> QED BY <2>1, <2>2
  <2> HIDE DEF from, ends, e
  <2> QED BY <1>6, <2>3
<1>8. SubSeq(s, from, e - 1) = str
  <2>1. e - 1 = o + Len(str) /\ e - 1 <= Len(s)
    BY <1>1, <1>3
  <2>2. /\ SubSeq(s, from, e - 1) \in Seq(Int)
        /\ Len(SubSeq(s, from, e - 1)) = Len(str)
        /\ \A i \in 1 .. Len(str) : SubSeq(s, from, e - 1)[i] = s[from + i - 1]
    BY <1>1, <2>1
  <2>3. \A i \in 1 .. Len(str) : s[from + i - 1] = str[i]
    <3> TAKE i \in 1 .. Len(str)
    <3>1. from + i - 1 = o + i /\ i \in 1 .. Len(str) + 1
      BY <1>1
    <3> QED BY <1>1, <1>2, <3>1
  <2>4. str \in Seq(Int)
    BY DEF Text
  <2> QED BY <1>1, <2>2, <2>3, <2>4, SeqEqual
<1> QED BY <1>7, <1>8

----------------------------------------------------------------------------
(* What the stack holds, stage by stage                                    *)

Entries == [type : Nat \ {0}, val : Int]

Passed ==
    /\ argv \in Seq(Text) /\ Len(argv) > 0
    /\ envp \in Seq(Text)
    /\ auxv \in Seq(Entries)

(* The last word of the new stack that is used *)
LastWord == Len(argv) + Len(envp) + 2 * Len(auxv) + 4

HeadersRead ==
    pc \in {"name", "stack", "arguments", "environment", "auxiliary", "entry"} =>
        Len(argv) > 1 /\ headers = "file"

Cleared == pc = "arguments" => stack = [k \in 0 .. LastWord |-> 0]

ArgumentsIn ==
    pc \in {"environment", "auxiliary", "entry"} =>
        DOMAIN stack = 0 .. LastWord /\ stack[0] = Len(argv) - 1

VariablesUpTo(n) == \A k \in 1 .. n : stack[Len(argv) + k] = Variable(k)

EntriesUpTo(n) ==
    \A k \in 1 .. n : /\ stack[Len(argv) + Len(envp) + 2 * k] = auxv[k].type
                      /\ stack[Len(argv) + Len(envp) + 2 * k + 1] = AuxValue(auxv[k])

(* Nothing is written from word n on. *)
ClearFrom(n) == \A j \in n .. LastWord : stack[j] = 0

VariablesIn ==
    pc = "environment" =>
        /\ read \in 1 .. Len(envp) + 1
        /\ addr = Len(argv) + read
        /\ VariablesUpTo(read - 1)
        /\ ClearFrom(addr)

VectorIn ==
    pc \in {"auxiliary", "entry"} =>
        /\ VariablesUpTo(Len(envp))
        /\ stack[Len(argv) + Len(envp) + 1] = 0
        /\ read \in 1 .. Len(auxv) + 1
        /\ addr = Len(argv) + Len(envp) + 2 * read
        /\ EntriesUpTo(read - 1)
        /\ ClearFrom(addr)

AllIn == pc = "entry" => read = Len(auxv) + 1

StackInv ==
    Passed /\ HeadersRead /\ Cleared /\ ArgumentsIn /\ VariablesIn /\ VectorIn /\ AllIn

LEMMA GivenStrings ==
    ASSUME Passed
    PROVE  /\ Given \in Seq(Text)
           /\ Len(Given) = Len(argv) + Len(envp)
           /\ Len(argv) \in Nat /\ Len(envp) \in Nat /\ Len(auxv) \in Nat
           /\ \A k \in 1 .. Len(argv) : Given[k] = argv[k]
<1>1. argv \in Seq(Text) /\ envp \in Seq(Text) /\ auxv \in Seq(Entries)
  BY DEF Passed
<1>2. Len(argv) \in Nat /\ Len(envp) \in Nat /\ Len(auxv) \in Nat
  BY <1>1
<1>3. /\ Given \in Seq(Text)
      /\ Len(Given) = Len(argv) + Len(envp)
      /\ \A i \in 1 .. Len(argv) + Len(envp) :
            Given[i] = IF i <= Len(argv) THEN argv[i] ELSE envp[i - Len(argv)]
  BY <1>1, ConcatProperties DEF Given
<1>4. \A k \in 1 .. Len(argv) : k \in 1 .. Len(argv) + Len(envp) /\ k <= Len(argv)
  BY <1>2
<1> QED BY <1>2, <1>3, <1>4

(* Pointers to strings are not NULL. *)
LEMMA Pointers ==
    ASSUME NEW strs \in Seq(Text), NEW k \in 1 .. Len(strs)
    PROVE  /\ Pointer(strs, k) = StringBase + Offset(strs, k)
           /\ Offset(strs, k) \in Nat
           /\ Pointer(strs, k) # 0
<1>1. Pointer(strs, k) = StringBase + Offset(strs, k)
  BY DEF Pointer, Offset, First
<1>2. k \in 1 .. Len(strs) + 1
  OBVIOUS
<1>3. Offset(strs, k) \in Nat
  BY <1>2, Offsets
<1> QED BY <1>1, <1>3, StackAssumption

LEMMA VariablePointers ==
    ASSUME Passed
    PROVE  \A k \in 1 .. Len(envp) : Variable(k) # 0
<1> TAKE k \in 1 .. Len(envp)
<1>1. Given \in Seq(Text) /\ Len(argv) + k \in 1 .. Len(Given)
  BY GivenStrings
<1> QED BY <1>1, Pointers DEF Variable

LEMMA StackInit == Init => StackInv
<1> SUFFICES ASSUME Init PROVE StackInv
  OBVIOUS
<1>1. Passed
  BY StackAssumption DEF Init, Passed, Entries
<1> QED BY <1>1 DEF Init, StackInv, HeadersRead, Cleared, ArgumentsIn, VariablesIn, VectorIn, AllIn

(* What no step changes *)
LEMMA GivenStays ==
    ASSUME Given0
    PROVE  /\ UNCHANGED <<Given, LastWord>> /\ Passed' = Passed
           /\ \A k : Variable(k)' = Variable(k)
BY DEF Given0, Given, LastWord, Passed, Variable

LEMMA ReadHeadersStep == ASSUME StackInv, ReadHeaders PROVE StackInv'
<1>1. Passed' /\ UNCHANGED argv
  BY GivenStays DEF StackInv, ReadHeaders, Given0
<1>2. pc' \in {"exited", "name"} /\ (pc' = "name" => Len(argv) > 1 /\ headers' = "file")
  BY DEF ReadHeaders
<1> QED BY <1>1, <1>2 DEF StackInv, HeadersRead, Cleared, ArgumentsIn, VariablesIn, VectorIn, AllIn

LEMMA CopyNameStep == ASSUME StackInv, CopyName PROVE StackInv'
<1>1. Passed' /\ UNCHANGED argv
  BY GivenStays DEF StackInv, CopyName, Given0
<1>2. pc' \in {"stack", "looping", "crashed"} /\ Len(argv) > 1 /\ headers' = "file"
  BY DEF CopyName, StackInv, HeadersRead, Fault
<1> QED BY <1>1, <1>2 DEF StackInv, HeadersRead, Cleared, ArgumentsIn, VariablesIn, VectorIn, AllIn

LEMMA MapStackStep == ASSUME StackInv, MapStack PROVE StackInv'
<1>1. Passed' /\ UNCHANGED <<argv, LastWord>>
  BY GivenStays DEF StackInv, MapStack, Given0
<1>2. pc' \in {"arguments", "looping", "crashed"} /\ Len(argv) > 1 /\ headers' = "file"
  BY DEF MapStack, StackInv, HeadersRead, Fault, MemUnits
<1>3. stack' = [k \in 0 .. LastWord |-> 0]
  BY DEF MapStack, LastWord
<1> QED BY <1>1, <1>2, <1>3 DEF StackInv, HeadersRead, Cleared, ArgumentsIn, VariablesIn, VectorIn, AllIn

LEMMA PutArgumentsStep == ASSUME StackInv, PutArguments PROVE StackInv'
<1>1. Passed' /\ UNCHANGED <<argv, envp, LastWord>>
  BY GivenStays DEF StackInv, PutArguments, Given0
<1>2. /\ pc' = "environment" /\ Len(argv) > 1 /\ headers' = "file"
      /\ addr' = Len(argv) + 1 /\ read' = 1
  BY DEF PutArguments, StackInv, HeadersRead, AfterArguments
<1>3. Len(argv) \in Nat /\ Len(envp) \in Nat /\ Len(auxv) \in Nat /\ LastWord \in Nat
  BY GivenStrings DEF StackInv, LastWord
<1>4. DOMAIN stack = 0 .. LastWord
  BY DEF StackInv, Cleared, PutArguments
<1>5. DOMAIN stack' = 0 .. LastWord
  BY <1>4 DEF PutArguments
<1>6. stack'[0] = Len(argv) - 1
  BY <1>3, <1>4 DEF PutArguments
<1>7. \A j \in Len(argv) + 1 .. LastWord : stack'[j] = 0
  <2> TAKE j \in Len(argv) + 1 .. LastWord
  <2>1. j \in DOMAIN stack /\ j # 0 /\ j # 1 /\ ~(j <= Len(argv) - 2)
    BY <1>2, <1>3, <1>4
  <2> QED BY <2>1 DEF PutArguments
<1>8. HeadersRead' /\ Cleared' /\ ArgumentsIn' /\ VectorIn' /\ AllIn'
  BY <1>1, <1>2, <1>5, <1>6 DEF HeadersRead, Cleared, ArgumentsIn, VectorIn, AllIn
<1>9. VariablesIn'
  <2>1. read' \in 1 .. Len(envp) + 1 /\ 1 .. read' - 1 = {}
    BY <1>2, <1>3
  <2> QED BY <1>1, <1>2, <1>7, <2>1 DEF VariablesIn, VariablesUpTo, ClearFrom
<1> QED BY <1>1, <1>8, <1>9 DEF StackInv

LEMMA PutVariableStep == ASSUME StackInv, PutVariable PROVE StackInv'
<1>1. Passed' /\ UNCHANGED <<argv, envp, LastWord>> /\ \A k : Variable(k)' = Variable(k)
  BY GivenStays DEF StackInv, PutVariable, Given0
<1>2. /\ pc = "environment" /\ pc' = pc /\ read <= Len(envp) /\ UNCHANGED headers
      /\ addr' = addr + 1 /\ read' = read + 1 /\ stack' = [stack EXCEPT ![addr] = Variable(read)]
  BY DEF PutVariable
<1>3. Len(argv) \in Nat /\ Len(envp) \in Nat /\ Len(auxv) \in Nat
      /\ LastWord = Len(argv) + Len(envp) + 2 * Len(auxv) + 4
  BY GivenStrings DEF StackInv, LastWord
<1>4. /\ Len(argv) > 1 /\ headers = "file" /\ DOMAIN stack = 0 .. LastWord /\ stack[0] = Len(argv) - 1
      /\ read \in 1 .. Len(envp) + 1 /\ addr = Len(argv) + read
      /\ \A k \in 1 .. read - 1 : stack[Len(argv) + k] = Variable(k)
      /\ \A j \in addr .. LastWord : stack[j] = 0
  BY <1>2 DEF StackInv, HeadersRead, ArgumentsIn, VariablesIn, VariablesUpTo, ClearFrom
<1>5. addr \in 0 .. LastWord /\ addr # 0
  BY <1>2, <1>3, <1>4
<1>6. /\ DOMAIN stack' = 0 .. LastWord
      /\ stack'[addr] = Variable(read)
      /\ \A j \in 0 .. LastWord : j # addr => stack'[j] = stack[j]
  BY <1>2, <1>4, <1>5
<1>7. \A k \in 1 .. read' - 1 : stack'[Len(argv) + k] = Variable(k)
  <2> TAKE k \in 1 .. read' - 1
  <2>1. CASE k = read
    BY <1>4, <1>6, <2>1
  <2>2. CASE k # read
    <3>1. k \in 1 .. read - 1 /\ Len(argv) + k \in 0 .. LastWord /\ Len(argv) + k # addr
      BY <1>2, <1>3, <1>4, <2>2
    <3> QED BY <1>4, <1>6, <3>1
  <2> QED BY <2>1, <2>2
<1>8. \A j \in addr' .. LastWord : stack'[j] = 0
  <2> TAKE j \in addr' .. LastWord
  <2>1. j \in addr .. LastWord /\ j \in 0 .. LastWord /\ j # addr
    BY <1>2, <1>3, <1>4
  <2> QED BY <1>4, <1>6, <2>1
<1>9. HeadersRead' /\ Cleared' /\ ArgumentsIn' /\ VectorIn' /\ AllIn'
  <2>1. stack'[0] = Len(argv) - 1
    BY <1>3, <1>4, <1>5, <1>6
  <2> QED BY <1>1, <1>2, <1>4, <1>6, <2>1 DEF HeadersRead, Cleared, ArgumentsIn, VectorIn, AllIn
<1>10. VariablesIn'
  <2>1. read' \in 1 .. Len(envp) + 1 /\ addr' = Len(argv) + read'
    BY <1>2, <1>3, <1>4
  <2> QED BY <1>1, <1>7, <1>8, <2>1 DEF VariablesIn, VariablesUpTo, ClearFrom
<1> QED BY <1>1, <1>9, <1>10 DEF StackInv

LEMMA EndEnvironmentStep == ASSUME StackInv, EndEnvironment PROVE StackInv'
<1>1. Passed' /\ UNCHANGED <<argv, envp, auxv, program, LastWord>> /\ \A k : Variable(k)' = Variable(k)
  BY GivenStays DEF StackInv, EndEnvironment, Given0
<1>2. /\ pc = "environment" /\ pc' = "auxiliary" /\ read > Len(envp) /\ UNCHANGED <<headers, stack>>
      /\ addr' = addr + 1 /\ read' = 1
  BY DEF EndEnvironment
<1>3. Len(argv) \in Nat /\ Len(envp) \in Nat /\ Len(auxv) \in Nat
      /\ LastWord = Len(argv) + Len(envp) + 2 * Len(auxv) + 4
  BY GivenStrings DEF StackInv, LastWord
<1>4. /\ Len(argv) > 1 /\ headers = "file" /\ DOMAIN stack = 0 .. LastWord /\ stack[0] = Len(argv) - 1
      /\ read \in 1 .. Len(envp) + 1 /\ addr = Len(argv) + read
      /\ \A k \in 1 .. read - 1 : stack[Len(argv) + k] = Variable(k)
      /\ \A j \in addr .. LastWord : stack[j] = 0
  BY <1>2 DEF StackInv, HeadersRead, ArgumentsIn, VariablesIn, VariablesUpTo, ClearFrom
<1>5. /\ read - 1 = Len(envp) /\ addr = Len(argv) + Len(envp) + 1
      /\ addr \in addr .. LastWord
      /\ addr' = Len(argv) + Len(envp) + 2 * read' /\ read' \in 1 .. Len(auxv) + 1
      /\ 1 .. read' - 1 = {} /\ addr' .. LastWord \subseteq addr .. LastWord
  BY <1>2, <1>3, <1>4
<1>6. HeadersRead' /\ Cleared' /\ ArgumentsIn' /\ VariablesIn' /\ AllIn'
  BY <1>1, <1>2, <1>4 DEF HeadersRead, Cleared, ArgumentsIn, VariablesIn, AllIn
<1>7. stack'[Len(argv) + Len(envp) + 1] = 0
  BY <1>2, <1>4, <1>5
<1>8. VectorIn'
  BY <1>1, <1>2, <1>4, <1>5, <1>7 DEF VectorIn, VariablesUpTo, EntriesUpTo, ClearFrom
<1> QED BY <1>1, <1>6, <1>8 DEF StackInv

LEMMA PutAuxiliaryStep == ASSUME StackInv, PutAuxiliary PROVE StackInv'
<1> DEFINE base == Len(argv) + Len(envp)
<1>1. Passed' /\ UNCHANGED <<argv, envp, auxv, program, LastWord>> /\ \A k : Variable(k)' = Variable(k)
  BY GivenStays DEF StackInv, PutAuxiliary, Given0
<1>2. /\ pc = "auxiliary" /\ pc' = pc /\ read <= Len(auxv) /\ UNCHANGED headers
      /\ addr' = addr + 2 /\ read' = read + 1
      /\ stack' = [stack EXCEPT ![addr] = auxv[read].type, ![addr + 1] = AuxValue(auxv[read])]
  BY DEF PutAuxiliary
<1>3. /\ Len(argv) \in Nat /\ Len(envp) \in Nat /\ Len(auxv) \in Nat /\ base \in Nat
      /\ LastWord = base + 2 * Len(auxv) + 4
  BY GivenStrings DEF StackInv, LastWord
<1>4. /\ Len(argv) > 1 /\ headers = "file" /\ DOMAIN stack = 0 .. LastWord /\ stack[0] = Len(argv) - 1
      /\ read \in 1 .. Len(auxv) + 1 /\ addr = base + 2 * read
      /\ \A k \in 1 .. Len(envp) : stack[Len(argv) + k] = Variable(k)
      /\ stack[base + 1] = 0
      /\ \A k \in 1 .. read - 1 : /\ stack[base + 2 * k] = auxv[k].type
                                  /\ stack[base + 2 * k + 1] = AuxValue(auxv[k])
      /\ \A j \in addr .. LastWord : stack[j] = 0
  BY <1>2 DEF StackInv, HeadersRead, ArgumentsIn, VectorIn, VariablesUpTo, EntriesUpTo, ClearFrom
<1>5. \A e : AuxValue(e)' = AuxValue(e)
  BY <1>1, <1>2 DEF AuxValue, Field
<1> HIDE DEF base
<1>6. /\ read \in 1 .. Len(auxv) /\ addr \in 0 .. LastWord /\ addr + 1 \in 0 .. LastWord /\ addr # addr + 1
      /\ addr \in Nat /\ LastWord \in Nat /\ addr' = addr + 2
      /\ read' \in 1 .. Len(auxv) + 1 /\ addr' = base + 2 * read'
  <2>1. \A n, b \in Nat : \A r \in 1 .. n + 1 : r <= n =>
           /\ r \in 1 .. n /\ b + 2 * r \in 0 .. b + 2 * n + 4 /\ b + 2 * r + 1 \in 0 .. b + 2 * n + 4
           /\ b + 2 * r # b + 2 * r + 1 /\ b + 2 * r \in Nat /\ b + 2 * n + 4 \in Nat
           /\ r + 1 \in 1 .. n + 1 /\ b + 2 * (r + 1) = b + 2 * r + 2
    OBVIOUS
  <2>2. /\ Len(auxv) \in Nat /\ base \in Nat /\ read \in 1 .. Len(auxv) + 1 /\ read <= Len(auxv)
        /\ addr = base + 2 * read /\ LastWord = base + 2 * Len(auxv) + 4
        /\ addr' = addr + 2 /\ read' = read + 1
    BY <1>2, <1>3, <1>4
  <2> QED BY <2>1, <2>2
<1>7. /\ DOMAIN stack' = 0 .. LastWord
      /\ stack'[addr] = auxv[read].type
      /\ stack'[addr + 1] = AuxValue(auxv[read])
      /\ \A j \in 0 .. LastWord : j # addr /\ j # addr + 1 => stack'[j] = stack[j]
  BY <1>2, <1>4, <1>6
<1>8. \A k \in 1 .. read' - 1 : /\ stack'[base + 2 * k] = auxv[k].type
                                /\ stack'[base + 2 * k + 1] = AuxValue(auxv[k])
  <2> TAKE k \in 1 .. read' - 1
  <2>1. CASE k = read
    BY <1>4, <1>7, <2>1
  <2>2. CASE k # read
    <3>1. /\ k \in 1 .. read - 1
          /\ base + 2 * k \in 0 .. LastWord /\ base + 2 * k + 1 \in 0 .. LastWord
          /\ base + 2 * k # addr /\ base + 2 * k # addr + 1
          /\ base + 2 * k + 1 # addr /\ base + 2 * k + 1 # addr + 1
      BY <1>2, <1>3, <1>4, <1>6, <2>2
    <3> QED BY <1>4, <1>7, <3>1
  <2> QED BY <2>1, <2>2
<1>9. \A j \in addr' .. LastWord : stack'[j] = 0
  <2> TAKE j \in addr' .. LastWord
  <2>1. j \in addr .. LastWord /\ j \in 0 .. LastWord /\ j # addr /\ j # addr + 1
    BY <1>6
  <2> QED BY <1>4, <1>7, <2>1
<1>10. \A j \in 0 .. base + 1 : stack'[j] = stack[j]
  <2> TAKE j \in 0 .. base + 1
  <2>1. j \in 0 .. LastWord /\ j # addr /\ j # addr + 1
    BY <1>3, <1>4, <1>6
  <2> QED BY <1>7, <2>1
<1>11. /\ 0 \in 0 .. base + 1 /\ base + 1 \in 0 .. base + 1
       /\ \A k \in 1 .. Len(envp) : Len(argv) + k \in 0 .. base + 1
  BY <1>3 DEF base
<1>12. HeadersRead' /\ Cleared' /\ ArgumentsIn' /\ VariablesIn' /\ AllIn'
  BY <1>1, <1>2, <1>4, <1>7, <1>10, <1>11 DEF HeadersRead, Cleared, ArgumentsIn, VariablesIn, AllIn
<1>13. VectorIn'
  <2>1. read' \in 1 .. Len(auxv) + 1 /\ addr' = base + 2 * read'
    BY <1>6
  <2>2. VariablesUpTo(Len(envp))' /\ stack'[base + 1] = 0
    BY <1>1, <1>4, <1>10, <1>11 DEF VariablesUpTo
  <2>3. EntriesUpTo(read - 1)' /\ ClearFrom(addr)'
    BY <1>1, <1>5, <1>8, <1>9 DEF EntriesUpTo, ClearFrom, base
  <2> QED BY <1>1, <2>1, <2>2, <2>3 DEF VectorIn, base
<1> QED BY <1>1, <1>12, <1>13 DEF StackInv

LEMMA EnterProgramStep == ASSUME StackInv, EnterProgram PROVE StackInv'
<1>1. Passed' /\ UNCHANGED <<argv, envp, auxv, program, LastWord>> /\ \A k : Variable(k)' = Variable(k)
  BY GivenStays DEF StackInv, EnterProgram, Given0
<1>2. /\ pc = "auxiliary" /\ pc' = "entry" /\ read > Len(auxv) /\ UNCHANGED <<headers, stack, addr, read>>
  BY DEF EnterProgram
<1>3. \A e : AuxValue(e)' = AuxValue(e)
  BY <1>1, <1>2 DEF AuxValue, Field
<1>4. Len(auxv) \in Nat /\ read \in 1 .. Len(auxv) + 1
  BY <1>2, GivenStrings DEF StackInv, VectorIn
<1>5. read' = Len(auxv) + 1
  BY <1>2, <1>4
<1>6. HeadersRead' /\ Cleared' /\ ArgumentsIn' /\ VariablesIn' /\ AllIn'
  BY <1>1, <1>2, <1>5 DEF StackInv, HeadersRead, Cleared, ArgumentsIn, VariablesIn, AllIn
<1>7. VectorIn'
  BY <1>1, <1>2, <1>3 DEF StackInv, VectorIn, VariablesUpTo, EntriesUpTo, ClearFrom
<1> QED BY <1>1, <1>6, <1>7 DEF StackInv

LEMMA StackStep == ASSUME StackInv, [Next]_vars PROVE StackInv'
<1>1. CASE UNCHANGED vars
  BY <1>1 DEF vars, StackInv, Passed, HeadersRead, Cleared, ArgumentsIn, VariablesIn, VectorIn, AllIn,
              LastWord, VariablesUpTo, EntriesUpTo, ClearFrom, Variable, Given, AuxValue, Field
<1> QED BY <1>1, ReadHeadersStep, CopyNameStep, MapStackStep, PutArgumentsStep, PutVariableStep,
           EndEnvironmentStep, PutAuxiliaryStep, EnterProgramStep DEF Next

LEMMA StackAlways == Spec => []StackInv
BY StackInit, StackStep, PTL DEF Spec

----------------------------------------------------------------------------
(* The stack as the program finds it                                       *)

LEMMA EnvironmentEnds ==
    ASSUME StackInv, pc = "entry"
    PROVE  EnvStart = Len(argv) + 1 /\ EnvEnd = Len(argv) + Len(envp) + 1
<1> DEFINE zeros == {k \in DOMAIN stack : k >= EnvStart /\ stack[k] = 0}
           e == Len(argv) + Len(envp) + 1
<1>1. /\ Len(argv) \in Nat /\ Len(envp) \in Nat /\ Len(auxv) \in Nat
      /\ LastWord = Len(argv) + Len(envp) + 2 * Len(auxv) + 4
  BY GivenStrings DEF StackInv, LastWord
<1>2. /\ DOMAIN stack = 0 .. LastWord /\ stack[0] = Len(argv) - 1 /\ stack[e] = 0
      /\ \A k \in 1 .. Len(envp) : stack[Len(argv) + k] = Variable(k)
  BY DEF StackInv, ArgumentsIn, VectorIn, VariablesUpTo
<1>3. EnvStart = Len(argv) + 1
  BY <1>1, <1>2 DEF EnvStart
<1>4. e \in zeros
  BY <1>1, <1>2, <1>3
<1>5. \A k \in zeros : e <= k
  <2> SUFFICES ASSUME NEW k \in zeros, k < e PROVE FALSE
    BY <1>1, <1>2
  <2>1. k - Len(argv) \in 1 .. Len(envp) /\ Len(argv) + (k - Len(argv)) = k
    BY <1>1, <1>2, <1>3
  <2>2. stack[k] # 0
    BY <1>2, <2>1, VariablePointers DEF StackInv
  <2> QED BY <2>2
<1>6. zeros \subseteq Int
  BY <1>2
<1>7. EnvEnd = Min(zeros)
  BY DEF EnvEnd
<1> HIDE DEF zeros
<1> QED BY <1>3, <1>4, <1>5, <1>6, <1>7, LeastIsMin

LEMMA VectorEnds ==
    ASSUME StackInv, pc = "entry"
    PROVE  AuxStart = Len(argv) + Len(envp) + 2 /\ AuxEnd = AuxStart + 2 * Len(auxv)
<1> DEFINE ends == {k \in DOMAIN stack : k >= AuxStart /\ (k - AuxStart) % 2 = 0 /\ stack[k] = 0}
           base == Len(argv) + Len(envp)
           e == base + 2 * (Len(auxv) + 1)
<1>1. /\ Len(argv) \in Nat /\ Len(envp) \in Nat /\ Len(auxv) \in Nat /\ base \in Nat
      /\ LastWord = base + 2 * Len(auxv) + 4
  BY GivenStrings DEF StackInv, LastWord
<1>2. /\ DOMAIN stack = 0 .. LastWord
      /\ \A k \in 1 .. Len(auxv) + 1 - 1 : stack[base + 2 * k] = auxv[k].type
      /\ \A j \in e .. LastWord : stack[j] = 0
  BY DEF StackInv, ArgumentsIn, VectorIn, AllIn, EntriesUpTo, ClearFrom
<1>3. AuxStart = base + 2
  BY <1>1, EnvironmentEnds DEF AuxStart
<1>4. \A k \in 1 .. Len(auxv) : auxv[k].type # 0
  <2>1. \A k \in 1 .. Len(auxv) : auxv[k] \in Entries
    BY DEF StackInv, Passed
  <2> QED BY <2>1 DEF Entries
<1> HIDE DEF base
<1>5. e \in ends
  <2>1. e \in e .. LastWord /\ e \in 0 .. LastWord /\ e >= base + 2 /\ (e - (base + 2)) % 2 = 0
    BY <1>1
  <2> QED BY <1>2, <1>3, <2>1
<1>6. \A k \in ends : e <= k
  <2> SUFFICES ASSUME NEW k \in ends, ~(e <= k) PROVE FALSE
    OBVIOUS
  <2>1. k \in 0 .. LastWord /\ k >= base + 2 /\ (k - (base + 2)) % 2 = 0 /\ stack[k] = 0
    BY <1>2, <1>3
  <2> DEFINE q == (k - (base + 2)) \div 2 + 1
  <2>2. q \in 1 .. Len(auxv) /\ base + 2 * q = k
    <3>1. k \in Nat /\ e \in Nat /\ k < e
      BY <1>1, <2>1
    <3>2. \A n, b, x \in Nat : x >= b + 2 /\ (x - (b + 2)) % 2 = 0 /\ x < b + 2 * (n + 1) =>
             (x - (b + 2)) \div 2 + 1 \in 1 .. n /\ b + 2 * ((x - (b + 2)) \div 2 + 1) = x
      OBVIOUS
    <3> QED BY <1>1, <2>1, <3>1, <3>2
  <2> HIDE DEF q
  <2>3. q \in 1 .. Len(auxv) + 1 - 1
    BY <1>1, <2>2
  <2>4. stack[k] # 0
    BY <1>2, <1>4, <2>2, <2>3
  <2> QED BY <2>1, <2>4
<1>7. ends \subseteq Int
  BY <1>2
<1>8. AuxEnd = Min(ends)
  BY DEF AuxEnd
<1>9. AuxEnd = e
  <2> HIDE DEF ends, e
  <2> QED BY <1>5, <1>6, <1>7, <1>8, LeastIsMin
<1>10. e = base + 2 + 2 * Len(auxv)
  BY <1>1
<1> QED BY <1>3, <1>9, <1>10 DEF base

LEMMA Found ==
    ASSUME StackInv, pc = "entry"
    PROVE  /\ FoundEnvironment = [k \in DOMAIN envp |-> Variable(k)]
           /\ FoundAuxiliary = [k \in DOMAIN auxv |-> [type |-> auxv[k].type, val |-> AuxValue(auxv[k])]]
<1>1. /\ Len(argv) \in Nat /\ Len(envp) \in Nat /\ Len(auxv) \in Nat
      /\ DOMAIN envp = 1 .. Len(envp) /\ DOMAIN auxv = 1 .. Len(auxv)
  BY GivenStrings DEF StackInv, Passed
<1>2. /\ \A k \in 1 .. Len(envp) : stack[Len(argv) + k] = Variable(k)
      /\ \A k \in 1 .. Len(auxv) + 1 - 1 :
            /\ stack[Len(argv) + Len(envp) + 2 * k] = auxv[k].type
            /\ stack[Len(argv) + Len(envp) + 2 * k + 1] = AuxValue(auxv[k])
  BY DEF StackInv, VectorIn, AllIn, VariablesUpTo, EntriesUpTo
<1>3. FoundEnvironment = [k \in DOMAIN envp |-> Variable(k)]
  <2>1. /\ EnvEnd - EnvStart = Len(envp)
        /\ \A k \in 1 .. Len(envp) : EnvStart + k - 1 = Len(argv) + k
    BY <1>1, EnvironmentEnds
  <2> QED BY <1>1, <1>2, <2>1 DEF FoundEnvironment
<1>4. FoundAuxiliary = [k \in DOMAIN auxv |-> [type |-> auxv[k].type, val |-> AuxValue(auxv[k])]]
  <2>1. AuxStart = Len(argv) + Len(envp) + 2 /\ AuxEnd = AuxStart + 2 * Len(auxv)
    BY VectorEnds
  <2>2. (AuxEnd - AuxStart) \div 2 = Len(auxv)
    <3>1. \A a, n \in Nat : ((a + 2 * n) - a) \div 2 = n
      OBVIOUS
    <3>2. AuxStart \in Nat
      BY <1>1, <2>1
    <3> QED BY <1>1, <2>1, <3>1, <3>2
  <2>3. \A k \in 1 .. Len(auxv) :
           /\ k \in 1 .. Len(auxv) + 1 - 1
           /\ AuxStart + 2 * k - 2 = Len(argv) + Len(envp) + 2 * k
           /\ AuxStart + 2 * k - 1 = Len(argv) + Len(envp) + 2 * k + 1
    BY <1>1, <2>1
  <2>4. \A k \in 1 .. Len(auxv) :
           /\ stack[AuxStart + 2 * k - 2] = auxv[k].type
           /\ stack[AuxStart + 2 * k - 1] = AuxValue(auxv[k])
    BY <1>2, <2>3
  <2> QED BY <1>1, <2>2, <2>4 DEF FoundAuxiliary
<1> QED BY <1>3, <1>4

(* For every command line, environment and auxiliary vector the program    *)
(* finds the whole environment and every entry of the vector by counting   *)
(* and by zeros, in order, and no other; build_stack.                      *)
THEOREM EnvironmentIsFound == Spec => []EnvironmentFound
<1>1. StackInv => EnvironmentFound
  <2> SUFFICES ASSUME StackInv, pc = "entry"
               PROVE  EnvironmentFound
    BY DEF EnvironmentFound
  <2>1. /\ FoundEnvironment = [k \in DOMAIN envp |-> Variable(k)]
        /\ FoundAuxiliary = [k \in DOMAIN auxv |-> [type |-> auxv[k].type, val |-> AuxValue(auxv[k])]]
    BY Found
  <2>2. [k \in DOMAIN FoundAuxiliary |-> FoundAuxiliary[k].type] = [k \in DOMAIN auxv |-> auxv[k].type]
    BY <2>1
  <2>3. ASSUME NEW k \in DOMAIN auxv,
               auxv[k].type \notin {AT_PHDR, AT_PHENT, AT_PHNUM, AT_BASE, AT_ENTRY, AT_PLATFORM, AT_RANDOM, AT_EXECFN}
        PROVE  FoundAuxiliary[k] = auxv[k]
    <3>1. AuxValue(auxv[k]) = auxv[k].val
      BY <2>3 DEF AuxValue
    <3>2. auxv[k] \in Entries
      BY DEF StackInv, Passed
    <3>3. auxv[k] = [type |-> auxv[k].type, val |-> auxv[k].val]
      BY <3>2 DEF Entries
    <3> QED BY <2>1, <3>1, <3>3
  <2> QED BY <2>1, <2>2, <2>3 DEF EnvironmentFound
<1> QED BY <1>1, StackAlways, PTL

(* For every command line, environment and auxiliary vector, what the      *)
(* program is told of its ELF header is from its file, although            *)
(* build_stack clears 64 MB beyond the stack it has mapped.                *)
THEOREM HeadersAreKept == Spec => []HeadersSurvive
<1>1. StackInv => HeadersSurvive
  <2> SUFFICES ASSUME StackInv, pc = "entry", NEW k \in DOMAIN FoundAuxiliary,
                      FoundAuxiliary[k].type \in {AT_ENTRY, AT_PHENT, AT_PHNUM}
               PROVE  FoundAuxiliary[k].val = Entry
    BY DEF HeadersSurvive
  <2>1. FoundAuxiliary[k] = [type |-> auxv[k].type, val |-> AuxValue(auxv[k])]
    BY Found
  <2>2. auxv[k].type \in {AT_ENTRY, AT_PHENT, AT_PHNUM} /\ headers = "file"
    BY <2>1 DEF StackInv, HeadersRead
  <2>3. AuxValue(auxv[k]) = Field /\ Field = Entry
    BY <2>2 DEF AuxValue, Field, AT_ENTRY, AT_PHENT, AT_PHNUM, AT_PHDR, AT_BASE, AT_EXECFN, AT_RANDOM, AT_PLATFORM
  <2> QED BY <2>1, <2>3
<1> QED BY <1>1, StackAlways, PTL

----------------------------------------------------------------------------
(* What writing the name over argv[0] does                                 *)

LEMMA Greatest ==
    ASSUME NEW n \in Nat, NEW S, S \subseteq 1 .. n, S # {}
    PROVE  Max(S) \in S /\ \A k \in S : Max(S) >= k
<1> DEFINE T == {m \in Nat : n - m \in S}
<1>1. T # {}
  <2>1. PICK k \in S : TRUE
    OBVIOUS
  <2>2. n - k \in Nat /\ n - (n - k) = k
    OBVIOUS
  <2> QED BY <2>1, <2>2
<1>2. T \subseteq Nat
  OBVIOUS
<1>3. PICK m \in T : \A i \in T : m <= i
  BY <1>1, <1>2, Least
<1>4. ASSUME NEW k \in S PROVE n - m >= k
  <2>1. n - k \in Nat /\ n - (n - k) = k
    OBVIOUS
  <2>2. n - k \in T
    BY <2>1
  <2>3. m <= n - k /\ m \in Nat
    BY <1>3, <2>2
  <2> QED BY <2>3
<1>5. n - m \in S /\ S \subseteq Int
  BY <1>3
<1>6. Max(S) = n - m
  BY <1>4, <1>5, GreatestIsMax
<1> QED BY <1>4, <1>5, <1>6

LEMMA LastSlash ==
    ASSUME NEW name \in Text, Slash \in ToSet(name)
    PROVE  BaseName(name) \in 1 .. Len(name) /\ Directory(name) = SubSeq(name, 1, BaseName(name))
<1> DEFINE S == {k \in DOMAIN name : name[k] = Slash}
<1>1. S # {} /\ S \subseteq 1 .. Len(name) /\ Len(name) \in Nat /\ DOMAIN name = 1 .. Len(name)
  BY DEF ToSet, Text
<1>2. BaseName(name) = Max(S)
  BY DEF BaseName
<1>3. Directory(name) = SubSeq(name, 1, Max(S))
  BY <1>1 DEF Directory, SelectLastInSeq
<1> HIDE DEF S
<1>4. Max(S) \in S
  BY <1>1, Greatest
<1> QED BY <1>1, <1>2, <1>3, <1>4

NameOf(line) == Directory(line[1]) \o line[2]

Name == NameOf(argv)

(* What the copied name leaves of the strings *)
LEMMA NameCopied ==
    ASSUME Passed, Len(argv) > 1, Slash \in ToSet(argv[1]),
           NEW s, s = StrCpy(Layout(Given), Argument(0) + BaseName(argv[1]), Argument(1))
    PROVE  /\ s \in Seq(Int)
           /\ \A k \in 3 .. Len(Given) : Holds(s, Offset(Given, k), Given[k])
           /\ Holds(s, 0, Name) /\ Name \in Text
<1> DEFINE old == Layout(Given)
           d   == BaseName(argv[1])
           l1  == Len(argv[1])
           l2  == Len(argv[2])
<1>1. /\ Given \in Seq(Text) /\ Len(Given) \in Nat /\ Len(Given) >= 2
      /\ 1 \in 1 .. Len(argv) /\ 2 \in 1 .. Len(argv)
      /\ Given[1] = argv[1] /\ Given[2] = argv[2] /\ argv[1] \in Text /\ argv[2] \in Text
  <2>1. argv \in Seq(Text) /\ 1 \in 1 .. Len(argv) /\ 2 \in 1 .. Len(argv)
    BY DEF Passed
  <2> QED BY <2>1, GivenStrings
<1>2. old = First(Given, Len(Given))
  <2>1. SubSeq(Given, 1, Len(Given)) = Given
    BY <1>1
  <2> QED BY <2>1 DEF First
<1>3. old \in Seq(Int) /\ Len(old) \in Nat /\ DOMAIN old = 1 .. Len(old)
  <2>1. Len(Given) \in 0 .. Len(Given)
    BY <1>1
  <2>2. old \in Seq(Int)
    BY <1>1, <1>2, <2>1, LayoutOfNumbers
  <2> QED BY <2>2
<1>4. \A k \in 1 .. Len(Given) : Holds(old, Offset(Given, k), Given[k])
  <2> TAKE k \in 1 .. Len(Given)
  <2>1. Len(Given) \in k .. Len(Given)
    BY <1>1
  <2> QED BY <1>1, <1>2, <2>1, HoldsString
<1>5. l1 \in Nat /\ l2 \in Nat /\ d \in 1 .. l1 /\ Directory(argv[1]) = SubSeq(argv[1], 1, d)
  BY <1>1, LastSlash, EndedFacts
<1>6. Offset(Given, 1) = 0 /\ Offset(Given, 2) = l1 + 1 /\ Offset(Given, 3) = l1 + 1 + l2 + 1
  <2>1. 1 \in 1 .. Len(Given) /\ 2 \in 1 .. Len(Given) /\ 1 + 1 = 2 /\ 2 + 1 = 3
    BY <1>1
  <2>2. Offset(Given, 1) = 0
    BY <1>1, Offsets
  <2>3. Offset(Given, 2) = Offset(Given, 1) + l1 + 1
    BY <1>1, <2>1, Offsets
  <2>4. Offset(Given, 3) = Offset(Given, 2) + l2 + 1
    BY <1>1, <2>1, Offsets
  <2> HIDE DEF l1, l2
  <2> QED BY <1>5, <2>2, <2>3, <2>4
<1> HIDE DEF old, d, l1, l2
<1>7. (Argument(0) + d) - StringBase = d /\ StringAt(old, Argument(1)) = argv[2]
  <2>1. /\ Pointer(Given, 1) = StringBase + Offset(Given, 1)
        /\ Pointer(Given, 2) = StringBase + Offset(Given, 2)
    BY <1>1, Pointers
  <2>2. Argument(0) = StringBase /\ Argument(1) = StringBase + (l1 + 1)
    BY <1>6, <2>1, StackAssumption DEF Argument
  <2>3. Holds(old, l1 + 1, argv[2])
    BY <1>1, <1>4, <1>6
  <2>4. StringAt(old, StringBase + (l1 + 1)) = argv[2]
    BY <1>1, <1>3, <1>5, <2>3, StringFound
  <2> QED BY <1>5, <2>2, <2>4, StackAssumption
<1>8. /\ Ended(argv[2]) \in Seq(Int) /\ Len(Ended(argv[2])) = l2 + 1
      /\ \A i \in 1 .. l2 : Ended(argv[2])[i] = argv[2][i]
      /\ Ended(argv[2])[l2 + 1] = NUL
  BY <1>1, EndedFacts DEF l2
<1>9. s = [k \in DOMAIN old |-> IF k > d /\ k <= d + (l2 + 1) THEN Ended(argv[2])[k - d] ELSE old[k]]
  <2>1. s = [k \in DOMAIN old |->
               IF k > (Argument(0) + d) - StringBase
                  /\ k <= ((Argument(0) + d) - StringBase) + Len(Ended(StringAt(old, Argument(1))))
               THEN Ended(StringAt(old, Argument(1)))[k - ((Argument(0) + d) - StringBase)] ELSE old[k]]
    BY DEF StrCpy, Ended, old, d
  <2>2. Len(Ended(StringAt(old, Argument(1)))) = l2 + 1 /\ Ended(StringAt(old, Argument(1))) = Ended(argv[2])
    BY <1>7, <1>8
  <2> DEFINE e == (Argument(0) + d) - StringBase
             text == Ended(StringAt(old, Argument(1)))
             n == Len(text)
  <2>3. s = [k \in DOMAIN old |-> IF k > e /\ k <= e + n THEN text[k - e] ELSE old[k]]
    BY <2>1
  <2>4. e = d /\ text = Ended(argv[2]) /\ n = l2 + 1
    BY <1>7, <2>2
  <2> HIDE DEF e, text, n
  <2> QED BY <2>3, <2>4
<1>10. \A k \in 1 .. Len(old) : s[k] \in Int
  <2> TAKE k \in 1 .. Len(old)
  <2>1. CASE k > d /\ k <= d + (l2 + 1)
    <3>1. k - d \in 1 .. l2 + 1
      BY <1>5, <2>1
    <3>2. Ended(argv[2])[k - d] \in Int
      BY <1>8, <3>1
    <3> QED BY <1>3, <1>9, <2>1, <3>2
  <2>2. CASE ~(k > d /\ k <= d + (l2 + 1))
    BY <1>3, <1>9, <2>2
  <2> QED BY <2>1, <2>2
<1>11. s \in Seq(Int) /\ Len(s) = Len(old)
  <2>1. s \in [1 .. Len(old) -> Int]
    BY <1>3, <1>9, <1>10
  <2>2. \A f : \A n \in Nat : f \in [1 .. n -> Int] => f \in Seq(Int) /\ Len(f) = n
    OBVIOUS
  <2> QED BY <1>3, <2>1, <2>2
<1>12. ASSUME NEW k \in 3 .. Len(Given)
       PROVE  Holds(s, Offset(Given, k), Given[k])
  <2>1. /\ k \in 1 .. Len(Given) /\ 3 \in 1 .. Len(Given) + 1 /\ k \in 3 .. Len(Given) + 1
        /\ k \in 1 .. Len(Given) + 1
    BY <1>1
  <2>2. Offset(Given, 3) <= Offset(Given, k) /\ Offset(Given, k) \in Nat /\ Offset(Given, 3) \in Nat
    BY <1>1, <2>1, OffsetsRise, Offsets
  <2>3. Holds(old, Offset(Given, k), Given[k])
    BY <1>4, <2>1
  <2>4. Len(Given[k]) \in Nat
    BY <1>1, <2>1, EndedFacts
  <2> DEFINE o == Offset(Given, k)
             n == Len(Given[k])
  <2> HIDE DEF o, n
  <2>5. \A i \in 1 .. n + 1 : ~(o + i <= d + (l2 + 1))
    BY <1>5, <1>6, <2>2, <2>4 DEF o, n
  <2>6. \A i \in 1 .. n + 1 : o + i \in DOMAIN old /\ old[o + i] = Ended(Given[k])[i]
    BY <1>3, <2>3 DEF Holds, o, n
  <2>7. \A i \in 1 .. n + 1 : s[o + i] = old[o + i]
    BY <1>9, <2>5, <2>6
  <2> QED BY <1>3, <1>11, <2>6, <2>7 DEF Holds, o, n
<1>13. /\ Name \in Text /\ Len(Name) = d + l2
       /\ \A i \in 1 .. d : Name[i] = argv[1][i]
       /\ \A i \in 1 .. l2 : Name[d + i] = argv[2][i]
  <2> DEFINE front == SubSeq(argv[1], 1, d)
  <2>1. argv[1] \in Seq(Int \ {NUL}) /\ argv[2] \in Seq(Int \ {NUL})
    BY <1>1 DEF Text
  <2>2. /\ front \in Seq(Int \ {NUL}) /\ Len(front) = d
        /\ \A i \in 1 .. d : front[i] = argv[1][i]
    <3>1. 1 \in 1 .. Len(argv[1]) + 1 /\ d \in 0 .. Len(argv[1]) /\ d \in Nat /\ d - 1 + 1 = d
      BY <1>5 DEF l1
    <3> QED BY <2>1, <3>1
  <2>3. Name = front \o argv[2]
    BY <1>5 DEF Name, NameOf
  <2> HIDE DEF front
  <2>4. /\ Name \in Seq(Int \ {NUL}) /\ Len(Name) = d + l2
        /\ \A i \in 1 .. d + l2 : Name[i] = IF i <= d THEN front[i] ELSE argv[2][i - d]
    BY <2>1, <2>2, <2>3, ConcatProperties DEF l2
  <2>5. /\ \A i \in 1 .. d : i \in 1 .. d + l2 /\ i <= d
        /\ \A i \in 1 .. l2 : d + i \in 1 .. d + l2 /\ ~(d + i <= d) /\ (d + i) - d = i
    BY <1>5
  <2> QED BY <2>2, <2>4, <2>5 DEF Text
<1>14. Holds(s, 0, Name)
  <2>1. /\ \A i \in 1 .. l1 + 1 : i \in 1 .. Len(old) /\ old[i] = Ended(argv[1])[i]
        /\ \A i \in 1 .. l2 + 1 : (l1 + 1) + i \in 1 .. Len(old)
    <3>1. 1 \in 1 .. Len(Given) /\ 2 \in 1 .. Len(Given)
      BY <1>1
    <3>2. Holds(old, 0, argv[1]) /\ Holds(old, l1 + 1, argv[2])
      BY <1>1, <1>4, <1>6, <3>1
    <3>3. \A i \in 1 .. l1 + 1 : 0 + i = i
      BY <1>5
    <3> QED BY <3>2, <3>3 DEF Holds, l1, l2
  <2>2. /\ Ended(Name)[d + l2 + 1] = NUL
        /\ \A i \in 1 .. d + l2 : Ended(Name)[i] = Name[i]
    BY <1>13, EndedFacts
  <2>3. ASSUME NEW i \in 1 .. d + l2 + 1 PROVE 0 + i \in 1 .. Len(s) /\ s[0 + i] = Ended(Name)[i]
    <3>1. CASE i <= d
      <4>1. i \in 1 .. d /\ i \in 1 .. d + l2 /\ i \in 1 .. l1 + 1 /\ i \in 1 .. l1 /\ 0 + i = i /\ ~(i > d)
        BY <1>5, <3>1
      <4>2. s[i] = argv[1][i] /\ i \in 1 .. Len(s)
        BY <1>1, <1>3, <1>9, <1>11, <2>1, <4>1, EndedFacts DEF l1
      <4> QED BY <1>13, <2>2, <4>1, <4>2
    <3>2. CASE i > d
      <4>1. i - d \in 1 .. l2 + 1 /\ i <= d + (l2 + 1) /\ 0 + i = i /\ d + (i - d) = i
        BY <1>5, <3>2
      <4>2. i \in 1 .. Len(old)
        <5>1. l2 + 1 \in 1 .. l2 + 1 /\ (l1 + 1) + (l2 + 1) \in 1 .. Len(old)
          BY <1>5, <2>1
        <5> QED BY <1>3, <1>5, <3>2, <5>1
      <4>3. s[i] = Ended(argv[2])[i - d] /\ i \in 1 .. Len(s)
        BY <1>3, <1>9, <1>11, <3>2, <4>1, <4>2
      <4>4. CASE i - d \in 1 .. l2
        <5>1. i \in 1 .. d + l2
          BY <1>5, <4>4
        <5>2. Ended(argv[2])[i - d] = argv[2][i - d] /\ Name[d + (i - d)] = argv[2][i - d]
          BY <1>8, <1>13, <4>4
        <5> QED BY <2>2, <4>1, <4>3, <5>1, <5>2
      <4>5. CASE i - d = l2 + 1
        <5>1. i = d + l2 + 1
          BY <1>5, <4>5
        <5> QED BY <1>8, <2>2, <4>1, <4>3, <4>5, <5>1
      <4>6. i - d \in 1 .. l2 \/ i - d = l2 + 1
        BY <1>5, <4>1
      <4> QED BY <4>4, <4>5, <4>6
    <3>3. i <= d \/ i > d
      BY <1>5
    <3> QED BY <3>1, <3>2, <3>3
  <2> QED BY <1>13, <2>3 DEF Holds
<1> QED BY <1>11, <1>12, <1>13, <1>14

(* Before the name is copied the strings are as the kernel left them;      *)
(* afterwards all but the first two are, and argv[0] is the whole name.    *)
Untouched == pc \in {"start", "name"} => strings = Layout(Given)

OthersHeld ==
    strings \in Seq(Int) /\ \A k \in 3 .. Len(Given) : Holds(strings, Offset(Given, k), Given[k])

NameHeld ==
    pc \in {"stack", "arguments", "environment", "auxiliary", "entry"} =>
        Holds(strings, 0, Name) /\ Name \in Text /\ Len(argv) > 1

CopyHeld ==
    AT_EXECFN \in DOMAIN copies =>
        pc \in {"auxiliary", "entry"} /\ copies[AT_EXECFN] = Name

StringsInv == Passed /\ HeadersRead /\ Untouched /\ OthersHeld /\ NameHeld /\ CopyHeld

LEMMA StringsInit == Init => StringsInv
<1> SUFFICES ASSUME Init PROVE StringsInv
  OBVIOUS
<1>1. Passed /\ HeadersRead
  BY StackInit DEF StackInv
<1>2. strings = Layout(Given) /\ pc = "start" /\ copies = << >>
  BY DEF Init
<1>3. Given \in Seq(Text) /\ Len(Given) \in Nat /\ Len(Given) \in 0 .. Len(Given)
  BY <1>1, GivenStrings
<1>4. strings = First(Given, Len(Given))
  <2>1. SubSeq(Given, 1, Len(Given)) = Given
    BY <1>3
  <2> QED BY <1>2, <2>1 DEF First
<1>5. OthersHeld
  <2>1. strings \in Seq(Int)
    BY <1>3, <1>4, LayoutOfNumbers
  <2>2. ASSUME NEW k \in 3 .. Len(Given) PROVE Holds(strings, Offset(Given, k), Given[k])
    <3>1. k \in 1 .. Len(Given) /\ Len(Given) \in k .. Len(Given)
      BY <1>3
    <3> QED BY <1>3, <1>4, <3>1, HoldsString
  <2> QED BY <2>1, <2>2 DEF OthersHeld
<1> QED BY <1>1, <1>2, <1>5 DEF StringsInv, Untouched, NameHeld, CopyHeld

LEMMA NameIsCopied == ASSUME StringsInv, CopyName PROVE StringsInv'
<1>1. /\ Passed' = Passed /\ Given' = Given /\ UNCHANGED <<argv, headers, copies>>
      /\ Passed /\ pc = "name" /\ strings = Layout(Given) /\ Len(argv) > 1 /\ headers = "file"
  BY GivenStays DEF StringsInv, CopyName, Given0, Untouched, HeadersRead
<1>2. Name' = Name
  BY <1>1 DEF Name
<1>3. CASE Slash \in ToSet(argv[1])
  <2>1. strings' = StrCpy(Layout(Given), Argument(0) + BaseName(argv[1]), Argument(1)) /\ pc' = "stack"
    BY <1>1, <1>3 DEF CopyName
  <2>2. /\ strings' \in Seq(Int)
        /\ \A k \in 3 .. Len(Given) : Holds(strings', Offset(Given, k), Given[k])
        /\ Holds(strings', 0, Name) /\ Name \in Text
    BY <1>1, <1>3, <2>1, NameCopied
  <2>3. OthersHeld'
    BY <1>1, <2>2 DEF OthersHeld
  <2>4. NameHeld'
    BY <1>1, <1>2, <2>2 DEF NameHeld
  <2> QED BY <1>1, <1>2, <2>1, <2>3, <2>4 DEF StringsInv, HeadersRead, Untouched, CopyHeld
<1>4. CASE Slash \notin ToSet(argv[1])
  <2>1. pc' \in {"looping", "crashed"} /\ strings' = strings
    BY <1>4 DEF CopyName, Fault
  <2> QED BY <1>1, <2>1 DEF StringsInv, HeadersRead, Untouched, OthersHeld, NameHeld, CopyHeld
<1> QED BY <1>3, <1>4

LEMMA NameIsPassedOn == ASSUME StringsInv, PutAuxiliary PROVE StringsInv'
<1>1. /\ Passed' = Passed /\ Given' = Given /\ UNCHANGED <<argv, headers, strings, pc>>
      /\ Passed /\ pc = "auxiliary" /\ Holds(strings, 0, Name) /\ Name \in Text /\ strings \in Seq(Int)
  BY GivenStays DEF StringsInv, PutAuxiliary, Given0, NameHeld, OthersHeld
<1>2. Name' = Name
  BY <1>1 DEF Name
<1>3. CopyOf(AT_EXECFN) = Name
  <2>1. Given \in Seq(Text) /\ 1 \in 1 .. Len(Given)
    BY <1>1, GivenStrings DEF Passed
  <2>2. Argument(0) = StringBase + 0
    BY <2>1, Offsets, Pointers DEF Argument
  <2>3. StringAt(strings, StringBase + 0) = Name
    BY <1>1, StringFound
  <2> QED BY <2>2, <2>3 DEF CopyOf, AT_EXECFN, AT_PLATFORM, AT_RANDOM
<1>4. CopyHeld'
  <2> DEFINE type == auxv[read].type
  <2>1. copies' = IF type \in {AT_EXECFN, AT_RANDOM, AT_PLATFORM}
                  THEN [t \in DOMAIN copies \cup {type} |-> IF t = type THEN CopyOf(t) ELSE copies[t]]
                  ELSE copies
    BY DEF PutAuxiliary
  <2> HIDE DEF type
  <2>2. AT_EXECFN \in DOMAIN copies' => copies'[AT_EXECFN] = Name
    BY <1>3, <2>1 DEF StringsInv, CopyHeld
  <2> QED BY <1>1, <1>2, <2>2 DEF CopyHeld
<1> QED BY <1>1, <1>2, <1>4 DEF StringsInv, HeadersRead, Untouched, OthersHeld, NameHeld

LEMMA StringsStay ==
    ASSUME StringsInv, [Next]_vars, ~CopyName, ~PutAuxiliary
    PROVE  StringsInv'
<1> DEFINE Building == {"stack", "arguments", "environment", "auxiliary"}
           Built    == {"arguments", "environment", "auxiliary", "entry"}
<1>1. /\ UNCHANGED <<argv, envp, auxv, strings, copies>>
      /\ \/ UNCHANGED <<pc, headers>>
         \/ pc' \in {"exited", "looping", "crashed"} /\ pc \in {"start", "stack"}
         \/ pc = "start" /\ pc' = "name" /\ Len(argv) > 1 /\ headers' = "file"
         \/ /\ pc \in Building /\ pc' \in Built /\ headers' = headers
            /\ pc = "auxiliary" => pc' = "entry"
  <2>1. CASE ReadHeaders
    BY <2>1 DEF ReadHeaders, Given0
  <2>2. CASE MapStack
    <3>1. headers' = headers /\ pc = "stack" /\ pc' \in {"arguments", "looping", "crashed"}
      BY <2>2 DEF MapStack, MemUnits, Fault
    <3> QED BY <2>2, <3>1 DEF MapStack, Given0
  <2>3. CASE PutArguments
    BY <2>3 DEF PutArguments, Given0
  <2>4. CASE PutVariable
    BY <2>4 DEF PutVariable, Given0
  <2>5. CASE EndEnvironment
    BY <2>5 DEF EndEnvironment, Given0
  <2>6. CASE EnterProgram
    BY <2>6 DEF EnterProgram, Given0
  <2>7. CASE UNCHANGED vars
    BY <2>7 DEF vars
  <2> QED BY <2>1, <2>2, <2>3, <2>4, <2>5, <2>6, <2>7 DEF Next
<1>2. AT_EXECFN \in DOMAIN copies => pc' \in {"auxiliary", "entry"}
  BY <1>1 DEF StringsInv, CopyHeld
<1>3. Given' = Given /\ Name' = Name /\ Passed' = Passed
  BY <1>1 DEF Given, Name, Passed
<1>4. HeadersRead'
  BY <1>1 DEF StringsInv, HeadersRead
<1>5. Untouched' /\ OthersHeld'
  BY <1>1, <1>3 DEF StringsInv, Untouched, OthersHeld
<1>6. NameHeld' /\ CopyHeld'
  BY <1>1, <1>2, <1>3 DEF StringsInv, NameHeld, CopyHeld
<1> QED BY <1>3, <1>4, <1>5, <1>6 DEF StringsInv

LEMMA StringsAlways == Spec => []StringsInv
<1>1. StringsInv /\ [Next]_vars => StringsInv'
  BY NameIsCopied, NameIsPassedOn, StringsStay
<1> QED BY <1>1, StringsInit, PTL DEF Spec

(* However long the names are, writing the program's name over the last    *)
(* part of argv[0] changes no string behind argv[1]: main's strcpy.        *)
THEOREM OtherStringsAreKept == Spec => []OtherStringsKept
<1>1. StringsInv => OtherStringsKept
  <2> SUFFICES ASSUME StringsInv, NEW k \in 3 .. Len(Given)
               PROVE  StringAt(strings, Pointer(Given, k)) = Given[k]
    BY DEF OtherStringsKept
  <2>1. Given \in Seq(Text) /\ k \in 1 .. Len(Given)
    BY GivenStrings DEF StringsInv
  <2>2. Given[k] \in Text /\ Pointer(Given, k) = StringBase + Offset(Given, k) /\ Offset(Given, k) \in Nat
    BY <2>1, Pointers
  <2>3. strings \in Seq(Int) /\ Holds(strings, Offset(Given, k), Given[k])
    BY DEF StringsInv, OthersHeld
  <2> QED BY <2>2, <2>3, StringFound
<1> QED BY <1>1, StringsAlways, PTL

(* However long the names are, AT_EXECFN points to the program's whole     *)
(* file name in the loader's directory, even where the strcpy ran on into  *)
(* the name it copied.                                                     *)
THEOREM ExecFnIsWhole == Spec => []ExecFnWhole
<1>1. StringsInv => ExecFnWhole
  BY DEF StringsInv, CopyHeld, ExecFnWhole, Name, NameOf
<1> QED BY <1>1, StringsAlways, PTL
=============================================================================
