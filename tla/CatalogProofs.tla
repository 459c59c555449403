--------------------------- MODULE CatalogProofs ---------------------------
(***************************************************************************)
(* Proofs about Catalog, for any repository whose chart names are of       *)
(* lower-case letters, digits and dashes: a plan ID that can be turned     *)
(* back installs the app version it was made for or nothing, any other     *)
(* one at most an app version of the same ID, whichever index is loaded.   *)
(***************************************************************************)
EXTENDS Catalog, SequenceTheorems, WellFoundedInduction, TLAPS

-----------------------------------------------------------------------------
(* Sequences *)

\* The characters of plan IDs, and those that turning one back can make.
CleanCharacters == Plain \cup {"-"}
Alphabet == Characters \cup CleanCharacters \cup {".", "@"}

\* Plain characters are clean, and every other sign becomes a dash.
LEMMA CleanIsClean ==
  /\ \A k : Clean(k) \in CleanCharacters
  /\ \A k \in Plain : Clean(k) = k
  /\ Clean("-") = "-" /\ Clean(".") = "-" /\ Clean("@") = "-"
BY CharactersAreKnown DEF Clean, CleanCharacters

\* Cleaning goes character by character.
LEMMA CleanedCharacters ==
  ASSUME NEW s \in Seq(Alphabet)
  PROVE  /\ Cleaned(s) \in Seq(CleanCharacters) /\ Len(Cleaned(s)) = Len(s)
         /\ \A n \in 1..Len(s) : Cleaned(s)[n] = Clean(s[n])
<1>1. s \in [1..Len(s) -> Alphabet] /\ Len(s) \in Nat /\ DOMAIN s = 1..Len(s)
  BY LenProperties
<1>2. Cleaned(s) \in [1..Len(s) -> CleanCharacters]
  BY <1>1, CleanIsClean DEF Cleaned
<1>3. Cleaned(s) \in Seq(CleanCharacters) /\ Len(Cleaned(s)) = Len(s)
  BY <1>1, <1>2
<1>4. \A n \in 1..Len(s) : Cleaned(s)[n] = Clean(s[n])
  BY <1>1 DEF Cleaned
<1> QED BY <1>3, <1>4

\* No subsequence of a sequence is longer than it.
LEMMA SubSeqsAreShort ==
  ASSUME NEW C, NEW t \in Seq(C), NEW s \in SubSeqs(t)
  PROVE  Len(s) \in Nat /\ Len(s) <= Len(t)
<1>1. Len(t) \in Nat BY LenProperties
<1>2. PICK i \in 0..Len(t), j \in 0..Len(t) : s = SubSeq(t, i+1, j)
  BY DEF SubSeqs
<1>3. \A n \in i+1 .. j : t[n] \in C BY <1>1, <1>2, ElementOfSeq
<1>4. Len(s) = IF i+1 <= j THEN j - (i+1) + 1 ELSE 0
  BY <1>1, <1>2, <1>3, SubSeqProperties
<1> QED BY <1>1, <1>4

\* What a sequence starts with is its first subsequence of that kind.
LEMMA ReplacePrefix ==
  ASSUME NEW C, NEW s \in Seq(C), NEW t \in Seq(C), Len(s) <= Len(t), s # <<>>,
         SubSeq(t, 1, Len(s)) = s
  PROVE  ReplaceFirstSubSeq(<<>>, s, t) = SubSeq(t, Len(s) + 1, Len(t))
<1>1. Len(s) \in Nat \ {0} /\ Len(t) \in Nat
  BY LenProperties, EmptySeq
<1>2. ASSUME NEW i \in 0..Len(t)
      PROVE  SubSeq(t, 1, i) \in Seq(C) /\ Len(SubSeq(t, 1, i)) = i
  <2>1. \A n \in 1..i : t[n] \in C BY <1>1, <1>2, ElementOfSeq
  <2> QED BY <1>1, <1>2, <2>1, SubSeqProperties
<1>3. s \in SubSeqs(s)
  <2>1. SubSeq(s, 0+1, Len(s)) = s BY SubSeqFull
  <2> QED BY <1>1, <2>1 DEF SubSeqs
<1>4. s \in SubSeqs(t)
  <2>1. s = SubSeq(t, 0+1, Len(s)) OBVIOUS
  <2> QED BY <1>1, <2>1 DEF SubSeqs
<1> DEFINE first(i) == /\ s \in SubSeqs(SubSeq(t, 1, i))
                       /\ \A j \in 0..i-1 : s \notin SubSeqs(SubSeq(t, 1, j))
<1>5. ASSUME NEW j \in 0..Len(t), s \in SubSeqs(SubSeq(t, 1, j))
      PROVE  Len(s) <= j
  BY <1>2, <1>5, SubSeqsAreShort
<1>6. first(Len(s))
  <2>1. \A j \in 0..Len(s)-1 : s \notin SubSeqs(SubSeq(t, 1, j))
    BY <1>1, <1>5
  <2> QED BY <1>3, <2>1
<1>7. ASSUME NEW i \in 0..Len(t), first(i) PROVE i = Len(s)
  <2>1. Len(s) <= i BY <1>5, <1>7
  <2>2. ~(Len(s) < i)
    <3>1. s \in SubSeqs(SubSeq(t, 1, Len(s))) BY <1>3
    <3> QED BY <1>1, <1>7, <3>1
  <2>3. i \in Nat /\ Len(s) \in Nat BY <1>1
  <2>4. \A a, b \in Nat : a <= b /\ ~(a < b) => a = b OBVIOUS
  <2> HIDE DEF first
  <2> QED BY <2>1, <2>2, <2>3, <2>4, Zenon
<1>8. Len(s) = CHOOSE i \in 0..Len(t) : first(i)
  <2> HIDE DEF first
  <2>1. Len(s) \in 0..Len(t) BY <1>1
  <2>2. (CHOOSE i \in 0..Len(t) : first(i)) \in 0..Len(t)
        /\ first(CHOOSE i \in 0..Len(t) : first(i))
    BY <1>6, <2>1
  <2> QED BY <1>7, <2>2
<1>9. IndexFirstSubSeq(s, t) = 1
  <2>1. IndexFirstSubSeq(s, t) = Len(s) - (Len(s) - 1)
    BY <1>8 DEF IndexFirstSubSeq
  <2> QED BY <1>1, <2>1
<1>10. ReplaceFirstSubSeq(<<>>, s, t) = ReplaceSubSeqAt(1, <<>>, s, t)
  BY <1>4, <1>9 DEF ReplaceFirstSubSeq
<1>11. ReplaceSubSeqAt(1, <<>>, s, t) = SubSeq(t, 1, 0) \o <<>> \o SubSeq(t, 1 + Len(s), Len(t))
  BY DEF ReplaceSubSeqAt
<1>12. SubSeq(t, 1, 0) = <<>> BY SubSeqEmpty
<1>13. SubSeq(t, Len(s) + 1, Len(t)) \in Seq(C)
  <2>1. \A n \in Len(s) + 1 .. Len(t) : t[n] \in C BY <1>1, ElementOfSeq
  <2> QED BY <1>1, <2>1, SubSeqProperties
<1>14. <<>> \in Seq(C) BY EmptySeq
<1>15. <<>> \o <<>> = <<>> BY <1>14, ConcatEmptySeq
<1>16. 1 + Len(s) = Len(s) + 1 BY <1>1
<1> QED BY <1>10, <1>11, <1>12, <1>13, <1>15, <1>16, ConcatEmptySeq

-----------------------------------------------------------------------------
(* Plan IDs *)

\* A plan ID is the clean name of its chart, a dash, the clean app version.
LEMMA PlanCharacters ==
  ASSUME NEW c \in Seq(Alphabet), Cleaned(c) = c, NEW x \in Seq(Alphabet)
  PROVE  /\ PlanID(c, x) \in Seq(CleanCharacters)
         /\ Len(PlanID(c, x)) = Len(c) + 1 + Len(x)
         /\ \A n \in 1..Len(c) : PlanID(c, x)[n] = c[n]
         /\ PlanID(c, x)[Len(c) + 1] = "-"
         /\ \A n \in 1..Len(x) : PlanID(c, x)[Len(c) + 1 + n] = Cleaned(x)[n]
<1> DEFINE at == <<"@">>
           w == c \o at \o x
<1>1. /\ at \in Seq(Alphabet) /\ Len(at) = 1 /\ at[1] = "@"
      /\ Len(c) \in Nat /\ Len(x) \in Nat
  BY LenProperties DEF Alphabet
<1> HIDE DEF at
<1>2. /\ c \o at \in Seq(Alphabet) /\ Len(c \o at) = Len(c) + 1
      /\ \A n \in 1..Len(c) : (c \o at)[n] = c[n]
      /\ (c \o at)[Len(c) + 1] = "@"
  <2>1. /\ c \o at \in Seq(Alphabet) /\ Len(c \o at) = Len(c) + Len(at)
        /\ \A n \in 1 .. Len(c) + Len(at) :
              (c \o at)[n] = IF n <= Len(c) THEN c[n] ELSE at[n - Len(c)]
    BY <1>1, ConcatProperties
  <2>2. Len(c) + 1 - Len(c) = 1 /\ ~(Len(c) + 1 <= Len(c)) BY <1>1
  <2> QED BY <1>1, <2>1, <2>2
<1>3. /\ w \in Seq(Alphabet) /\ Len(w) = Len(c) + 1 + Len(x)
      /\ \A n \in 1..Len(c) : w[n] = c[n]
      /\ w[Len(c) + 1] = "@"
      /\ \A n \in 1..Len(x) : w[Len(c) + 1 + n] = x[n]
  <2> DEFINE u == c \o at
  <2>1. u \in Seq(Alphabet) /\ Len(u) = Len(c) + 1 BY <1>2
  <2>2. /\ w \in Seq(Alphabet) /\ Len(w) = Len(u) + Len(x)
        /\ \A n \in 1 .. Len(u) + Len(x) : w[n] = IF n <= Len(u) THEN u[n] ELSE x[n - Len(u)]
    BY <2>1, ConcatProperties
  <2>3. \A n \in 1..Len(x) : w[Len(c) + 1 + n] = x[n]
    <3> SUFFICES ASSUME NEW n \in 1..Len(x) PROVE w[Len(c) + 1 + n] = x[n]
      OBVIOUS
    <3> HIDE DEF u, w
    <3>1. /\ Len(c) + 1 + n \in 1 .. Len(u) + Len(x) /\ ~(Len(c) + 1 + n <= Len(u))
          /\ Len(c) + 1 + n - Len(u) = n
      BY <1>1, <2>1
    <3> QED BY <2>2, <3>1
  <2>4. \A n \in 1 .. Len(c) + 1 : w[n] = u[n]
    <3> HIDE DEF u, w
    <3> QED BY <1>1, <2>1, <2>2
  <2> QED BY <1>1, <1>2, <2>1, <2>2, <2>3, <2>4
<1> HIDE DEF w
<1>4. PlanID(c, x) = Cleaned(w) BY DEF PlanID, w, at
<1>5. /\ Cleaned(w) \in Seq(CleanCharacters) /\ Len(Cleaned(w)) = Len(w)
      /\ \A n \in 1..Len(w) : Cleaned(w)[n] = Clean(w[n])
  BY <1>3, CleanedCharacters
<1>6. \A n \in 1..Len(c) : c[n] = Clean(c[n]) BY CleanedCharacters
<1>7. \A n \in 1..Len(x) : Cleaned(x)[n] = Clean(x[n]) BY CleanedCharacters
<1>8. Clean("@") = "-" BY CleanIsClean
<1>9. \A n \in 1..Len(c) : Cleaned(w)[n] = c[n] BY <1>1, <1>3, <1>5, <1>6
<1>10. Cleaned(w)[Len(c) + 1] = "-" BY <1>1, <1>3, <1>5, <1>8
<1>11. \A n \in 1..Len(x) : Cleaned(w)[Len(c) + 1 + n] = Cleaned(x)[n]
  BY <1>1, <1>3, <1>5, <1>7
<1> QED BY <1>3, <1>4, <1>5, <1>9, <1>10, <1>11

\* What is left of it without the service is the clean app version.
LEMMA PlanWithoutService ==
  ASSUME NEW c \in Seq(Alphabet), Cleaned(c) = c, NEW x \in Seq(Alphabet)
  PROVE  ReplaceFirstSubSeq(<<>>, c \o <<"-">>, PlanID(c, x)) = Cleaned(x)
<1> DEFINE s == c \o <<"-">>
           t == PlanID(c, x)
<1>1. /\ t \in Seq(CleanCharacters) /\ Len(t) = Len(c) + 1 + Len(x)
      /\ \A n \in 1..Len(c) : t[n] = c[n]
      /\ t[Len(c) + 1] = "-"
      /\ \A n \in 1..Len(x) : t[Len(c) + 1 + n] = Cleaned(x)[n]
  BY PlanCharacters
<1>2. /\ c \in Seq(CleanCharacters) /\ Len(c) \in Nat /\ Len(x) \in Nat
      /\ Cleaned(x) \in Seq(CleanCharacters) /\ Len(Cleaned(x)) = Len(x)
  BY CleanedCharacters, LenProperties
<1>3. /\ s \in Seq(CleanCharacters) /\ Len(s) = Len(c) + 1
      /\ \A n \in 1..Len(c) : s[n] = c[n]
      /\ s[Len(c) + 1] = "-"
  <2>1. <<"-">> \in Seq(CleanCharacters) /\ Len(<<"-">>) = 1 /\ <<"-">>[1] = "-"
    BY DEF CleanCharacters
  <2> QED BY <1>2, <2>1, ConcatProperties
<1> HIDE DEF s, t
<1>4. \A n \in 1..Len(t) : t[n] \in CleanCharacters BY <1>1, ElementOfSeq
<1>5. SubSeq(t, 1, Len(s)) = s
  <2> DEFINE p == SubSeq(t, 1, Len(s))
  <2>1. /\ p \in Seq(CleanCharacters) /\ Len(p) = Len(s)
        /\ \A n \in 1..Len(s) : p[n] = t[n]
    BY <1>1, <1>2, <1>3, <1>4, SubSeqProperties
  <2>2. \A n \in 1..Len(s) : t[n] = s[n]
    <3> SUFFICES ASSUME NEW n \in 1..Len(s) PROVE t[n] = s[n]
      OBVIOUS
    <3>1. n \in 1..Len(c) \/ n = Len(c) + 1 BY <1>2, <1>3
    <3> QED BY <1>1, <1>3, <3>1
  <2> HIDE DEF p
  <2>3. p = s BY <1>3, <2>1, <2>2, SeqEqual
  <2> QED BY <2>3 DEF p
<1>6. s # <<>> /\ Len(s) <= Len(t) BY <1>1, <1>2, <1>3, EmptySeq
<1>7. ReplaceFirstSubSeq(<<>>, s, t) = SubSeq(t, Len(s) + 1, Len(t))
  BY <1>1, <1>3, <1>5, <1>6, ReplacePrefix
<1>8. SubSeq(t, Len(s) + 1, Len(t)) = Cleaned(x)
  <2> DEFINE p == SubSeq(t, Len(s) + 1, Len(t))
  <2>1. /\ p \in Seq(CleanCharacters) /\ Len(p) = Len(x)
        /\ \A n \in 1..Len(x) : p[n] = t[Len(c) + 1 + n]
    <3>1. Len(s) + 1 \in Int /\ Len(t) \in Int BY <1>1, <1>2, <1>3
    <3>2. \A n \in Len(s) + 1 .. Len(t) : t[n] \in CleanCharacters BY <1>2, <1>3, <1>4, <3>1
    <3>3. /\ p \in Seq(CleanCharacters)
          /\ Len(p) = IF Len(s) + 1 <= Len(t) THEN Len(t) - (Len(s) + 1) + 1 ELSE 0
          /\ \A n \in 1 .. Len(t) - (Len(s) + 1) + 1 : p[n] = t[(Len(s) + 1) + n - 1]
      BY <3>1, <3>2, SubSeqProperties
    <3> HIDE DEF p
    <3>4. Len(t) - (Len(s) + 1) + 1 = Len(x) BY <1>1, <1>2, <1>3
    <3>5. \A n \in 1..Len(x) : (Len(s) + 1) + n - 1 = Len(c) + 1 + n BY <1>2, <1>3
    <3>6. Len(p) = Len(x) BY <1>1, <1>2, <1>3, <3>3
    <3> QED BY <3>3, <3>4, <3>5, <3>6
  <2> HIDE DEF p
  <2>2. p = Cleaned(x) BY <1>1, <1>2, <2>1, SeqEqual
  <2> QED BY <2>2 DEF p
<1> QED BY <1>7, <1>8 DEF s, t

\* Whatever app version a plan ID turns back into, its own plan ID is that one.
LEMMA PlanBack ==
  ASSUME NEW c \in Seq(Alphabet), Cleaned(c) = c, NEW x \in Seq(Alphabet)
  PROVE  PlanID(c, AppVersionOf(c, PlanID(c, x))) = PlanID(c, x)
<1> DEFINE r == Cleaned(x)
           a == [n \in DOMAIN r |-> IF r[n] = "-" THEN "." ELSE r[n]]
           p == PlanID(c, x)
           q == PlanID(c, a)
<1>1. AppVersionOf(c, PlanID(c, x)) = a BY PlanWithoutService DEF AppVersionOf
<1>2. /\ r \in Seq(CleanCharacters) /\ Len(r) = Len(x) /\ Len(c) \in Nat /\ Len(x) \in Nat
      /\ DOMAIN r = 1..Len(x) /\ \A n \in 1..Len(x) : r[n] \in CleanCharacters
  BY CleanedCharacters, LenProperties, ElementOfSeq
<1> HIDE DEF r
<1>3. /\ a \in Seq(Alphabet) /\ Len(a) = Len(x)
      /\ \A n \in 1..Len(x) : a[n] = IF r[n] = "-" THEN "." ELSE r[n]
  <2>1. a \in [1..Len(x) -> Alphabet] BY <1>2 DEF Alphabet
  <2> QED BY <1>2, <2>1
<1> HIDE DEF a
<1>4. \A n \in 1..Len(x) : Cleaned(a)[n] = r[n]
  <2> SUFFICES ASSUME NEW n \in 1..Len(x) PROVE Cleaned(a)[n] = r[n]
    OBVIOUS
  <2>1. r[n] \in Plain \/ r[n] = "-" BY <1>2 DEF CleanCharacters
  <2>2. Cleaned(a)[n] = Clean(a[n])
    BY <1>3, CleanedCharacters
  <2>3. a[n] = IF r[n] = "-" THEN "." ELSE r[n] BY <1>3
  <2> QED BY <2>1, <2>2, <2>3, CleanIsClean, CharactersAreKnown
<1>5. /\ p \in Seq(CleanCharacters) /\ Len(p) = Len(c) + 1 + Len(x)
      /\ \A n \in 1..Len(c) : p[n] = c[n]
      /\ p[Len(c) + 1] = "-"
      /\ \A n \in 1..Len(x) : p[Len(c) + 1 + n] = r[n]
  BY PlanCharacters DEF r
<1>6. /\ q \in Seq(CleanCharacters) /\ Len(q) = Len(c) + 1 + Len(x)
      /\ \A n \in 1..Len(c) : q[n] = c[n]
      /\ q[Len(c) + 1] = "-"
      /\ \A n \in 1..Len(x) : q[Len(c) + 1 + n] = r[n]
  BY <1>3, <1>4, PlanCharacters
<1> HIDE DEF p, q
<1>7. \A n \in 1 .. Len(c) + 1 + Len(x) : q[n] = p[n]
  <2> SUFFICES ASSUME NEW n \in 1 .. Len(c) + 1 + Len(x) PROVE q[n] = p[n]
    OBVIOUS
  <2>1. CASE n \in 1..Len(c) BY <1>5, <1>6, <2>1
  <2>2. CASE n = Len(c) + 1 BY <1>5, <1>6, <2>2
  <2>3. CASE n > Len(c) + 1
    <3>1. PICK m \in 1..Len(x) : n = Len(c) + 1 + m
      <4>1. n - (Len(c) + 1) \in 1..Len(x) BY <1>2, <2>3
      <4>2. n = Len(c) + 1 + (n - (Len(c) + 1)) BY <1>2
      <4> QED BY <4>1, <4>2
    <3> QED BY <1>5, <1>6, <3>1
  <2> QED BY <1>2, <2>1, <2>2, <2>3
<1>8. q = p BY <1>5, <1>6, <1>7, SeqEqual
<1> QED BY <1>1, <1>8 DEF p, q

\* An app version of lower-case letters, digits and dots comes back as it was.
LEMMA SurvivorBack ==
  ASSUME NEW c \in Seq(Alphabet), Cleaned(c) = c, NEW x \in Seq(Alphabet), Survives(x)
  PROVE  AppVersionOf(c, PlanID(c, x)) = x
<1> DEFINE r == Cleaned(x)
           a == [n \in DOMAIN r |-> IF r[n] = "-" THEN "." ELSE r[n]]
<1>1. AppVersionOf(c, PlanID(c, x)) = a BY PlanWithoutService DEF AppVersionOf
<1>2. /\ r \in Seq(CleanCharacters) /\ Len(r) = Len(x) /\ Len(x) \in Nat
      /\ DOMAIN r = 1..Len(x) /\ DOMAIN x = 1..Len(x)
      /\ \A n \in 1..Len(x) : r[n] = Clean(x[n]) /\ r[n] \in CleanCharacters
  BY CleanedCharacters, LenProperties, ElementOfSeq
<1> HIDE DEF r
<1>3. /\ a \in Seq(Alphabet) /\ Len(a) = Len(x)
      /\ \A n \in 1..Len(x) : a[n] = IF r[n] = "-" THEN "." ELSE r[n]
  <2>1. a \in [1..Len(x) -> Alphabet] BY <1>2 DEF Alphabet
  <2> QED BY <1>2, <2>1
<1> HIDE DEF a
<1>4. \A n \in 1..Len(x) : a[n] = x[n]
  <2> SUFFICES ASSUME NEW n \in 1..Len(x) PROVE a[n] = x[n]
    OBVIOUS
  <2>1. x[n] \in Plain \/ x[n] = "." BY <1>2 DEF Survives
  <2> QED BY <1>2, <1>3, <2>1, CleanIsClean, CharactersAreKnown
<1>5. a = x BY <1>3, <1>4, SeqEqual
<1> QED BY <1>1, <1>5

-----------------------------------------------------------------------------
(* The inductive invariant *)

\* The index of a process lists sorted versions of every chart.
IndexIsSorted ==
    index # None =>
        \A c \in Charts : \E m \in Nat : index[c] \in [1..m -> Entries] /\ Sorted(index[c])

\* Every offer has the plan ID of the app version of its chart.
OffersArePlans ==
    \A offer \in offered :
        /\ offer.service \in Charts
        /\ offer.chart.app \in Seq(Characters)
        /\ offer.plan = PlanID(offer.service, offer.chart.app)

\* A set of numbers that is not empty has a least one.
LEMMA LeastNumber ==
  ASSUME NEW S \in SUBSET Nat, S # {}
  PROVE  \E n \in S : \A m \in S : n <= m
<1>1. PICK n \in S : \A m \in S : <<m, n>> \notin OpToRel(<, Nat)
  BY NatLessThanWellFounded, WFMin
<1>2. \A m \in S : ~(m < n) BY <1>1 DEF OpToRel
<1> QED BY <1>2

\* Loading an index, or losing it with the process.
LEMMA IndexNext == IndexIsSorted /\ [Next]_vars => IndexIsSorted'
<1> SUFFICES ASSUME IndexIsSorted, [Next]_vars PROVE IndexIsSorted'
  OBVIOUS
<1>1. ASSUME Initialize PROVE IndexIsSorted'
  <2> SUFFICES ASSUME NEW c \in Charts
               PROVE  \E m \in Nat : index'[c] \in [1..m -> Entries] /\ Sorted(index'[c])
    BY DEF IndexIsSorted, Sorted
  <2>1. index'[c] \in SeqOf(Entries, MaxVersions) /\ Sorted(index'[c])
    BY <1>1 DEF Initialize
  <2>2. PICK m \in 0..MaxVersions : index'[c] \in [1..m -> Entries]
    BY <2>1 DEF SeqOf
  <2> QED BY <2>1, <2>2, BoundIsANumber
<1>2. index' = None => IndexIsSorted' BY DEF IndexIsSorted
<1>3. index' = index => IndexIsSorted' BY DEF IndexIsSorted, Sorted
<1> QED BY <1>1, <1>2, <1>3 DEF Next, Restart, GetCatalog, Provision, vars

\* What ListServices lists are plans of charts.
LEMMA ListedOffers ==
  ASSUME IndexIsSorted, index # None, NEW offer \in ListServices(index)
  PROVE  \E c \in Charts : \E m \in Nat : \E n \in NewestPlans(index[c]) :
            /\ index[c] \in [1..m -> Entries] /\ Sorted(index[c]) /\ n \in 1..m
            /\ offer.service = c /\ offer.chart = index[c][n]
            /\ offer.plan = PlanID(c, index[c][n].app)
            /\ offer.tags = TagIntersection(index[c])
<1>1. PICK c \in Charts : \E n \in NewestPlans(index[c]) :
        offer = [service |-> c, plan |-> PlanID(c, index[c][n].app), chart |-> index[c][n],
                 tags |-> TagIntersection(index[c])]
  BY DEF ListServices
<1>2. PICK n \in NewestPlans(index[c]) :
        offer = [service |-> c, plan |-> PlanID(c, index[c][n].app), chart |-> index[c][n],
                 tags |-> TagIntersection(index[c])]
  BY <1>1
<1>3. PICK m \in Nat : index[c] \in [1..m -> Entries] /\ Sorted(index[c])
  BY DEF IndexIsSorted
<1>4. n \in 1..m BY <1>3 DEF NewestPlans, Plannable
<1> QED BY <1>2, <1>3, <1>4

\* The platform's catalog is of plans, whichever process made it.
LEMMA OffersNext == IndexIsSorted /\ OffersArePlans /\ [Next]_vars => OffersArePlans'
<1> SUFFICES ASSUME IndexIsSorted, OffersArePlans, [Next]_vars PROVE OffersArePlans'
  OBVIOUS
<1>1. ASSUME GetCatalog PROVE OffersArePlans'
  <2> SUFFICES ASSUME NEW offer \in ListServices(index)
               PROVE  /\ offer.service \in Charts
                      /\ offer.chart.app \in Seq(Characters)
                      /\ offer.plan = PlanID(offer.service, offer.chart.app)
    BY <1>1 DEF GetCatalog, OffersArePlans
  <2>1. index # None BY <1>1 DEF GetCatalog
  <2>2. PICK c \in Charts, m \in Nat : \E n \in 1..m :
          /\ index[c] \in [1..m -> Entries] /\ offer.chart = index[c][n]
          /\ offer.service = c /\ offer.plan = PlanID(c, index[c][n].app)
    BY <2>1, ListedOffers
  <2>3. PICK n \in 1..m :
          /\ index[c] \in [1..m -> Entries] /\ offer.chart = index[c][n]
          /\ offer.service = c /\ offer.plan = PlanID(c, index[c][n].app)
    BY <2>2
  <2>4. index[c][n].app \in Seq(Characters) BY <2>3, EntriesAreVersions
  <2> QED BY <2>3, <2>4
<1>2. offered' = offered => OffersArePlans' BY DEF OffersArePlans
<1> QED BY <1>1, <1>2 DEF Next, Initialize, Restart, Provision, vars

\* GetChart returns a version with the app version it was asked for, or none.
LEMMA GetChartApp ==
  ASSUME IndexIsSorted, index # None, NEW c \in Charts, NEW app,
         GetChart(index, c, app) # None
  PROVE  GetChart(index, c, app).app = app
<1> DEFINE found == {n \in DOMAIN index[c] : index[c][n].app = app}
           least(n) == \A m \in found : n <= m
<1>1. PICK k \in Nat : index[c] \in [1..k -> Entries] BY DEF IndexIsSorted
<1>2. found \in SUBSET Nat /\ \A n \in found : index[c][n].app = app BY <1>1
<1>3. found # {} BY DEF GetChart
<1>4. GetChart(index, c, app) = index[c][CHOOSE n \in found : least(n)]
  BY <1>3 DEF GetChart
<1> HIDE DEF found
<1>5. \E n \in found : least(n) BY <1>2, <1>3, LeastNumber
<1>6. (CHOOSE n \in found : least(n)) \in found BY <1>5
<1> QED BY <1>2, <1>4, <1>6

-----------------------------------------------------------------------------
(* The theorems *)

\* Catalogs and indexes may differ at will: when chart names are of lower-case
\* letters, digits and dashes, a plan ID whose app version survives the way back
\* installs that app version or nothing, and no plan ID ever installs an app
\* version of another ID.
THEOREM NoOtherPlanIsInstalled ==
  ASSUME \A c \in Charts : Cleaned(c) = c
  PROVE  Spec => []NeverAnotherPlan
<1> DEFINE CInv == IndexIsSorted /\ OffersArePlans /\ NeverAnotherPlan
<1>1. Init => CInv
  BY DEF Init, IndexIsSorted, OffersArePlans, NeverAnotherPlan
<1>2. CInv /\ [Next]_vars => CInv'
  <2> SUFFICES ASSUME CInv, [Next]_vars PROVE NeverAnotherPlan'
    BY IndexNext, OffersNext
  <2>1. ASSUME NEW offer \in offered, Provision(offer) PROVE NeverAnotherPlan'
    <3> DEFINE got == Resolve(index, offer.service, offer.plan)
               app == AppVersionOf(offer.service, offer.plan)
    <3>1. PICK c \in Charts, x \in Seq(Characters) :
            offer.service = c /\ offer.chart.app = x /\ offer.plan = PlanID(c, x)
      BY DEF OffersArePlans
    <3>2. installed' = [offer |-> offer, chart |-> got] /\ index # None
      BY <2>1 DEF Provision
    <3>3. got # None => got.app = app
      BY <3>1, <3>2, GetChartApp DEF Resolve
    <3>4. c \in Seq(Alphabet) /\ x \in Seq(Alphabet)
      BY NamesAreSpelled, SeqMonotonic DEF Alphabet
    <3>5. PlanID(offer.service, app) = offer.plan BY <3>1, <3>4, PlanBack
    <3>6. Survives(offer.chart.app) => app = offer.chart.app
      BY <3>1, <3>4, SurvivorBack
    <3> HIDE DEF got, app
    <3>7. installed'.offer = offer /\ installed'.chart = got BY <3>2
    <3> QED BY <3>3, <3>5, <3>6, <3>7 DEF NeverAnotherPlan, Survives
  <2>2. installed' = installed \/ installed' = None => NeverAnotherPlan'
    BY DEF NeverAnotherPlan, Survives
  <2> QED BY <2>1, <2>2 DEF Next, Initialize, Restart, GetCatalog, vars
<1>3. CInv => NeverAnotherPlan OBVIOUS
<1> QED BY <1>1, <1>2, <1>3, PTL DEF Spec

\* GetChart finds the very version ListServices described: the index is sorted,
\* so the newest of an app version is also the first of it.
LEMMA FirstIsNewest ==
  ASSUME IndexIsSorted, index # None, NEW offer \in ListServices(index),
         AppVersionOf(offer.service, offer.plan) = offer.chart.app
  PROVE  /\ Resolve(index, offer.service, offer.plan) = offer.chart
         /\ offer.tags \subseteq offer.chart.tags
<1>0. PICK c \in Charts, k \in Nat : \E n \in NewestPlans(index[c]) :
        /\ index[c] \in [1..k -> Entries] /\ Sorted(index[c]) /\ n \in 1..k
        /\ offer.service = c /\ offer.chart = index[c][n]
        /\ offer.tags = TagIntersection(index[c])
  BY ListedOffers
<1>1. PICK n \in NewestPlans(index[c]) :
        /\ index[c] \in [1..k -> Entries] /\ Sorted(index[c]) /\ n \in 1..k
        /\ offer.service = c /\ offer.chart = index[c][n]
        /\ offer.tags = TagIntersection(index[c])
  BY <1>0
<1> DEFINE v == index[c]
           found == {m \in DOMAIN v : v[m].app = v[n].app}
           least(m) == \A j \in found : m <= j
<1>2. \A m \in 1..k : v[m].rank \in Nat BY <1>1, EntriesAreVersions
<1>3. n \in found /\ found \subseteq 1..k BY <1>1
<1>4. least(n)
  <2> SUFFICES ASSUME NEW m \in found, m < n PROVE FALSE
    BY <1>1, <1>3
  <2>1. /\ m \in 1..k /\ v[m].app = v[n].app /\ v[n].app # <<>> /\ v[n].rank > 0
    BY <1>1, <1>3 DEF NewestPlans, Plannable
  <2>2. v[m].rank >= v[n].rank BY <1>1, <2>1 DEF Sorted
  <2>3. m \in Plannable(v) BY <1>1, <1>2, <2>1, <2>2 DEF Plannable
  <2>4. v[m].rank < v[n].rank \/ (v[m].rank = v[n].rank /\ n <= m)
    BY <1>1, <2>1, <2>3 DEF NewestPlans
  <2> QED BY <1>1, <1>2, <2>1, <2>2, <2>4
<1>5. \A m \in found : least(m) => m = n BY <1>1, <1>3, <1>4
<1>6. (CHOOSE m \in found : least(m)) = n
  <2> HIDE DEF found, least
  <2> QED BY <1>3, <1>4, <1>5
<1>7. Resolve(index, offer.service, offer.plan) = v[n]
  BY <1>1, <1>3, <1>6 DEF Resolve, GetChart
<1>8. offer.tags \subseteq v[n].tags
  BY <1>1 DEF TagIntersection, Range
<1> QED BY <1>1, <1>7, <1>8

\* A plan whose ID can be turned back installs the version the catalog describes.
THEOREM ListedIsInstalled == Spec => []InstallsWhatIsListed
<1>1. Init => IndexIsSorted BY DEF Init, IndexIsSorted
<1>2. IndexIsSorted /\ [Next]_vars => IndexIsSorted' BY IndexNext
<1>3. IndexIsSorted => InstallsWhatIsListed BY FirstIsNewest DEF InstallsWhatIsListed
<1> QED BY <1>1, <1>2, <1>3, PTL DEF Spec
=============================================================================
