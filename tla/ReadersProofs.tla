---------------------------- MODULE ReadersProofs ----------------------------
(***************************************************************************)
(* Theorems about what is computed from the data ingestion leaves: the     *)
(* bills, the validation of a day and the report of a delivery.            *)
(*                                                                         *)
(* All three are sums over sets of rows; the first section has what the    *)
(* proofs need of them.                                                    *)
(***************************************************************************)
EXTENDS BillingPeriods, BillingExport, DailyBalance, DeliveryReport, TLAPS, FiniteSetTheorems,
        WellFoundedInduction

-----------------------------------------------------------------------------
(* Sums. MapThenSumSet sums by a recursion over the subsets of the set; it *)
(* has a solution, the sum is a natural number if what is summed is, any   *)
(* element may be taken out first, and two sums over sets that map to each *)
(* other are the same.                                                     *)

\* A set of natural numbers has a least one.
LEMMA LeastOf ==
    ASSUME NEW S \in SUBSET Nat, S # {}
    PROVE  \E i \in S : \A j \in S : i =< j
<1> DEFINE R == OpToRel(<, Nat)
<1>1. IsWellFoundedOn(R, Nat)
  BY NatLessThanWellFounded
<1>2. PICK i \in S : \A j \in S : ~ (<<j, i>> \in R)
  BY <1>1, WFMin, Zenon
<1>3. ASSUME NEW j \in S PROVE ~ (j < i)
  <2>1. <<j, i>> \in R <=> j < i
    BY DEF OpToRel
  <2> HIDE DEF R
  <2> QED
    BY <1>2, <2>1, Zenon
<1> QED
  BY <1>3

\* Of finite sets in a class, there is one no other in the class is smaller than.
LEMMA SmallestOf ==
    ASSUME NEW C, C # {}, \A s \in C : IsFiniteSet(s)
    PROVE  \E s \in C : \A t \in C : Cardinality(s) =< Cardinality(t)
<1> DEFINE sizes == {Cardinality(s) : s \in C}
<1>1. \A s \in C : Cardinality(s) \in Nat
  BY FS_CardinalityType
<1>2. sizes \in SUBSET Nat /\ sizes # {}
  BY <1>1
<1>3. PICK n \in sizes : \A m \in sizes : n =< m
  BY <1>2, LeastOf, Zenon
<1>4. PICK s \in C : n = Cardinality(s)
  OBVIOUS
<1> QED
  BY <1>3, <1>4

Pick(s) == CHOOSE x \in s : TRUE

LEMMA PickIs ==
    ASSUME NEW s, s # {}, IsFiniteSet(s)
    PROVE  /\ Pick(s) \in s
           /\ IsFiniteSet(s \ {Pick(s)})
           /\ Cardinality(s) \in Nat \ {0}
           /\ Cardinality(s \ {Pick(s)}) = Cardinality(s) - 1
<1>1. Pick(s) \in s
  BY DEF Pick
<1>2. Cardinality(s) \in Nat /\ Cardinality(s) # 0
  BY FS_CardinalityType, FS_EmptySet
<1> QED
  BY <1>1, <1>2, FS_RemoveElement

Adds(f, g, D) ==
    g = [s \in D |-> IF s = {} THEN 0 ELSE f[Pick(s)] + g[s \ {Pick(s)}]]

SumOf(f, S) == MapThenSumSet(LAMBDA x : f[x], S)

LEMMA SumOfIs ==
    ASSUME NEW f, NEW S
    PROVE  SumOf(f, S) = (CHOOSE g : Adds(f, g, SUBSET S))[S]
  BY DEF SumOf, MapThenSumSet, MapThenFoldSet, Adds, Pick

Upto(S, n) == {s \in SUBSET S : Cardinality(s) =< n}

\* The recursion the sum is defined by has a solution.
LEMMA AddsExists ==
    ASSUME NEW f, NEW S, IsFiniteSet(S)
    PROVE  \E g : Adds(f, g, SUBSET S)
<1>0. \A s \in SUBSET S : IsFiniteSet(s) /\ Cardinality(s) \in Nat
  BY FS_Subset, FS_CardinalityType
<1> DEFINE Has(n) == \E g : Adds(f, g, Upto(S, n))
           lacking == {n \in Nat : ~Has(n)}
<1>1. Has(0)
  <2>1. \A s \in Upto(S, 0) : s = {}
    BY <1>0, FS_EmptySet DEF Upto
  <2> WITNESS [s \in Upto(S, 0) |-> 0]
  <2> QED
    BY <2>1 DEF Adds
<1>2. ASSUME NEW n \in Nat, Has(n) PROVE Has(n + 1)
  <2>1. PICK h : Adds(f, h, Upto(S, n))
    BY <1>2
  <2> DEFINE k == [s \in Upto(S, n + 1) |->
                      IF s = {} THEN 0 ELSE f[Pick(s)] + h[s \ {Pick(s)}]]
  <2>2. \A s \in Upto(S, n) : s \in Upto(S, n + 1) /\ k[s] = h[s]
    <3> SUFFICES ASSUME NEW s \in Upto(S, n)
                 PROVE  s \in Upto(S, n + 1) /\ k[s] = h[s]
      OBVIOUS
    <3>1. s \in Upto(S, n + 1)
      BY <1>0 DEF Upto
    <3>2. h = [r \in Upto(S, n) |-> IF r = {} THEN 0 ELSE f[Pick(r)] + h[r \ {Pick(r)}]]
      BY <2>1 DEF Adds
    <3>3. h[s] = IF s = {} THEN 0 ELSE f[Pick(s)] + h[s \ {Pick(s)}]
      BY <3>2, Zenon
    <3> QED
      BY <3>1, <3>3
  <2>3. \A s \in Upto(S, n + 1) : s # {} => s \ {Pick(s)} \in Upto(S, n)
    BY <1>0, PickIs DEF Upto
  <2>4. k = [s \in Upto(S, n + 1) |-> IF s = {} THEN 0 ELSE f[Pick(s)] + k[s \ {Pick(s)}]]
    BY <2>2, <2>3
  <2> HIDE DEF k
  <2> QED
    BY <2>4 DEF Adds
<1>3. lacking = {}
  <2> SUFFICES ASSUME lacking # {} PROVE FALSE
    OBVIOUS
  <2>1. lacking \in SUBSET Nat
    OBVIOUS
  <2>2. PICK n \in lacking : \A m \in lacking : n =< m
    BY <2>1, LeastOf, Zenon
  <2>3. n \in Nat /\ ~Has(n)
    OBVIOUS
  <2>4. n # 0 /\ n - 1 \in Nat
    BY <1>1, <2>3
  <2>5. Has(n - 1)
    BY <2>2, <2>4
  <2> HIDE DEF Has, lacking
  <2>6. Has((n - 1) + 1)
    BY <1>2, <2>4, <2>5
  <2> QED
    BY <2>3, <2>6
<1>4. Has(Cardinality(S))
  BY <1>0, <1>3
<1>5. Upto(S, Cardinality(S)) = SUBSET S
  BY FS_Subset DEF Upto
<1> QED
  BY <1>4, <1>5

\* The solutions for one f agree, whatever sets they are defined on.
Alike(f, h, S) == \A x \in S : f[x] = h[x]

LEMMA AddsAgree ==
    ASSUME NEW f, NEW h, NEW S, NEW T, NEW g, NEW k,
           IsFiniteSet(S), S \in SUBSET T, Alike(f, h, S),
           Adds(f, g, SUBSET S), Adds(h, k, SUBSET T)
    PROVE  g[S] = k[S]
<1> DEFINE apart == {s \in SUBSET S : g[s] # k[s]}
<1>g. \A s \in SUBSET S : g[s] = IF s = {} THEN 0 ELSE f[Pick(s)] + g[s \ {Pick(s)}]
  <2>1. g = [s \in SUBSET S |-> IF s = {} THEN 0 ELSE f[Pick(s)] + g[s \ {Pick(s)}]]
    BY DEF Adds
  <2> QED
    BY <2>1, Zenon
<1>k. \A s \in SUBSET T : k[s] = IF s = {} THEN 0 ELSE h[Pick(s)] + k[s \ {Pick(s)}]
  <2>1. k = [s \in SUBSET T |-> IF s = {} THEN 0 ELSE h[Pick(s)] + k[s \ {Pick(s)}]]
    BY DEF Adds
  <2> QED
    BY <2>1, Zenon
<1>1. \A s \in apart : IsFiniteSet(s)
  BY FS_Subset
<1>2. SUFFICES ASSUME apart # {} PROVE FALSE
  OBVIOUS
<1>3. PICK s \in apart : \A t \in apart : Cardinality(s) =< Cardinality(t)
  BY <1>1, <1>2, SmallestOf, Zenon
<1>4. s # {} /\ s \in SUBSET S /\ s \in SUBSET T
  BY <1>g, <1>k
<1> DEFINE r == s \ {Pick(s)}
<1>5. /\ Pick(s) \in s /\ r \in SUBSET S
      /\ Cardinality(s) \in Nat /\ Cardinality(r) = Cardinality(s) - 1
  BY <1>1, <1>4, PickIs
<1>6. r \notin apart
  BY <1>3, <1>5
<1>7. g[s] = f[Pick(s)] + g[r] /\ k[s] = h[Pick(s)] + k[r]
  BY <1>g, <1>k, <1>4
<1>8. f[Pick(s)] = h[Pick(s)] /\ g[r] = k[r]
  BY <1>4, <1>5, <1>6 DEF Alike
<1>9. g[s] = k[s]
  BY <1>7, <1>8
<1> QED
  BY <1>3, <1>9

\* What a sum is: nothing, or one of them and the sum of the others; and only
\* what is summed matters.
LEMMA SumOfNone == ASSUME NEW f PROVE SumOf(f, {}) = 0
<1> DEFINE g == CHOOSE g : Adds(f, g, SUBSET {})
<1>1. Adds(f, g, SUBSET {})
  BY AddsExists, FS_EmptySet
<1>2. g = [s \in SUBSET {} |-> IF s = {} THEN 0 ELSE f[Pick(s)] + g[s \ {Pick(s)}]]
  BY <1>1 DEF Adds
<1> HIDE DEF g
<1>3. g[{}] = 0
  BY <1>2
<1> QED
  BY <1>3, SumOfIs DEF g

LEMMA SumOfPicked ==
    ASSUME NEW f, NEW S, IsFiniteSet(S), S # {}
    PROVE  SumOf(f, S) = f[Pick(S)] + SumOf(f, S \ {Pick(S)})
<1> DEFINE R == S \ {Pick(S)}
           g == CHOOSE g : Adds(f, g, SUBSET S)
           k == CHOOSE k : Adds(f, k, SUBSET R)
<1>1. Adds(f, g, SUBSET S)
  BY AddsExists
<1>2. IsFiniteSet(R) /\ R \subseteq S
  BY PickIs
<1>3. Adds(f, k, SUBSET R)
  BY <1>2, AddsExists
<1>4. SumOf(f, S) = g[S] /\ SumOf(f, R) = k[R]
  BY SumOfIs
<1> HIDE DEF g, k
<1>5. k[R] = g[R]
  <2> HIDE DEF R
  <2>1. Alike(f, f, R) /\ R \in SUBSET S
    BY <1>2 DEF Alike
  <2> QED
    BY <1>1, <1>2, <1>3, <2>1, AddsAgree
<1>6. g = [s \in SUBSET S |-> IF s = {} THEN 0 ELSE f[Pick(s)] + g[s \ {Pick(s)}]]
  BY <1>1 DEF Adds
<1>7. g[S] = f[Pick(S)] + g[R]
  BY <1>6
<1> QED
  BY <1>4, <1>5, <1>7

LEMMA SumOfSame ==
    ASSUME NEW f, NEW h, NEW S, IsFiniteSet(S), \A x \in S : f[x] = h[x]
    PROVE  SumOf(f, S) = SumOf(h, S)
<1> DEFINE g == CHOOSE g : Adds(f, g, SUBSET S)
           k == CHOOSE k : Adds(h, k, SUBSET S)
<1>1. Adds(f, g, SUBSET S) /\ Adds(h, k, SUBSET S)
  BY AddsExists
<1>2. SumOf(f, S) = g[S] /\ SumOf(h, S) = k[S]
  BY SumOfIs
<1> HIDE DEF g, k
<1>3. g[S] = k[S]
  <2>1. S \in SUBSET S /\ Alike(f, h, S)
    BY DEF Alike
  <2> QED
    BY <1>1, <2>1, AddsAgree
<1> QED
  BY <1>2, <1>3

\* A sum of natural numbers is one.
LEMMA SumOfNat ==
    ASSUME NEW f, NEW S, IsFiniteSet(S), \A x \in S : f[x] \in Nat
    PROVE  SumOf(f, S) \in Nat
<1> DEFINE bad == {s \in SUBSET S : SumOf(f, s) \notin Nat}
<1>1. \A s \in bad : IsFiniteSet(s)
  BY FS_Subset
<1>2. SUFFICES ASSUME bad # {} PROVE FALSE
  OBVIOUS
<1>3. PICK s \in bad : \A t \in bad : Cardinality(s) =< Cardinality(t)
  BY <1>1, <1>2, SmallestOf, Zenon
<1>4. s # {} /\ s \in SUBSET S
  BY SumOfNone
<1> DEFINE r == s \ {Pick(s)}
<1>5. /\ Pick(s) \in s /\ r \in SUBSET S
      /\ Cardinality(s) \in Nat /\ Cardinality(r) = Cardinality(s) - 1
  BY <1>1, <1>4, PickIs
<1>6. SumOf(f, r) \in Nat
  BY <1>3, <1>5
<1>7. SumOf(f, s) = f[Pick(s)] + SumOf(f, r)
  BY <1>1, <1>4, SumOfPicked
<1> QED
  BY <1>3, <1>4, <1>5, <1>6, <1>7

\* Any element of the set may be taken out first.
LEMMA SumOfWithout ==
    ASSUME NEW f, NEW S, IsFiniteSet(S), \A x \in S : f[x] \in Nat, NEW e \in S
    PROVE  SumOf(f, S) = f[e] + SumOf(f, S \ {e})
<1> DEFINE bad == {s \in SUBSET S : \E x \in s : SumOf(f, s) # f[x] + SumOf(f, s \ {x})}
<1>1. \A s \in bad : IsFiniteSet(s)
  BY FS_Subset
<1>2. SUFFICES ASSUME bad # {} PROVE FALSE
  OBVIOUS
<1>3. PICK s \in bad : \A t \in bad : Cardinality(s) =< Cardinality(t)
  BY <1>1, <1>2, SmallestOf, Zenon
<1>4. PICK x \in s : SumOf(f, s) # f[x] + SumOf(f, s \ {x})
  OBVIOUS
<1>5. s # {} /\ s \in SUBSET S /\ IsFiniteSet(s)
  BY <1>1, <1>4
<1> DEFINE p == Pick(s)
           r == s \ {p}
<1>6. /\ p \in s /\ r \in SUBSET S
      /\ Cardinality(s) \in Nat /\ Cardinality(r) = Cardinality(s) - 1
  BY <1>5, PickIs
<1>7. SumOf(f, s) = f[p] + SumOf(f, r)
  BY <1>5, SumOfPicked
<1>8. x # p
  BY <1>4, <1>7
<1>9. x \in r /\ r \notin bad
  BY <1>3, <1>4, <1>6, <1>8
<1>10. SumOf(f, r) = f[x] + SumOf(f, r \ {x})
  BY <1>6, <1>9
<1> DEFINE q == s \ {x}
<1>11. q \in SUBSET S /\ q \notin bad /\ p \in q
  <2>1. Cardinality(q) = Cardinality(s) - 1
    BY <1>5, <1>4, FS_RemoveElement
  <2> QED
    BY <1>3, <1>5, <1>6, <1>8, <2>1
<1>12. SumOf(f, q) = f[p] + SumOf(f, q \ {p})
  BY <1>11
<1>13. q \ {p} = r \ {x}
  OBVIOUS
<1>14. SumOf(f, r \ {x}) \in Nat /\ f[x] \in Nat /\ f[p] \in Nat
  <2>1. IsFiniteSet(r \ {x})
    BY <1>5, FS_RemoveElement
  <2>2. SumOf(f, r \ {x}) \in Nat
    BY <1>5, <2>1, SumOfNat
  <2> QED
    BY <1>4, <1>5, <1>6, <2>2
<1> HIDE DEF r, q, p
<1>15. SumOf(f, s) = f[p] + (f[x] + SumOf(f, r \ {x}))
  BY <1>7, <1>10
<1>16. f[x] + SumOf(f, q) = f[x] + (f[p] + SumOf(f, r \ {x}))
  BY <1>12, <1>13
<1>17. SumOf(f, s) = f[x] + SumOf(f, q)
  BY <1>14, <1>15, <1>16
<1> QED
  BY <1>4, <1>17 DEF q

\* The image of a finite set, and the sum over it if no two coincide.
Image(m, S) == {m[x] : x \in S}

LEMMA ImageIsFinite ==
    ASSUME NEW S, IsFiniteSet(S), NEW m
    PROVE  IsFiniteSet(Image(m, S))
<1> DEFINE f == [x \in S |-> m[x]]
<1>1. f \in Surjection(S, Image(m, S))
  BY DEF Surjection, Image
<1> QED
  BY <1>1, FS_Surjection

LEMMA SumOfMapped ==
    ASSUME NEW S, IsFiniteSet(S), NEW f, NEW g, NEW m,
           \A x \in S : f[x] \in Nat /\ g[m[x]] = f[x],
           \A x, y \in S : m[x] = m[y] => x = y
    PROVE  SumOf(f, S) = SumOf(g, Image(m, S))
<1> DEFINE bad == {s \in SUBSET S : SumOf(f, s) # SumOf(g, Image(m, s))}
<1>1. \A s \in bad : IsFiniteSet(s)
  BY FS_Subset
<1>2. SUFFICES ASSUME bad # {} PROVE FALSE
  OBVIOUS
<1>3. PICK s \in bad : \A t \in bad : Cardinality(s) =< Cardinality(t)
  BY <1>1, <1>2, SmallestOf, Zenon
<1>4. s # {}
  <2>1. Image(m, {}) = {}
    BY DEF Image
  <2> QED
    BY <2>1, SumOfNone
<1>5. PICK x \in s : TRUE
  BY <1>4
<1> DEFINE r == s \ {x}
<1>6. IsFiniteSet(s) /\ IsFiniteSet(r) /\ r \in SUBSET S /\ x \in S
  BY <1>1, <1>3, <1>5, FS_RemoveElement
<1>7. Cardinality(r) = Cardinality(s) - 1 /\ Cardinality(s) \in Nat
  BY <1>5, <1>6, FS_RemoveElement, FS_CardinalityType
<1>8. r \notin bad
  BY <1>3, <1>6, <1>7
<1>9. SumOf(f, r) = SumOf(g, Image(m, r))
  BY <1>6, <1>8
<1>10. Image(m, r) = Image(m, s) \ {m[x]}
  BY <1>3, <1>5 DEF Image
<1>11. SumOf(f, s) = f[x] + SumOf(f, r)
  BY <1>3, <1>5, <1>6, SumOfWithout
<1>12. SumOf(g, Image(m, s)) = g[m[x]] + SumOf(g, Image(m, s) \ {m[x]})
  <2>1. m[x] \in Image(m, s) /\ \A y \in Image(m, s) : g[y] \in Nat
    BY <1>3, <1>5 DEF Image
  <2>2. IsFiniteSet(Image(m, s))
    BY <1>6, ImageIsFinite
  <2> HIDE DEF bad
  <2> QED
    BY <2>1, <2>2, SumOfWithout
<1> QED
  BY <1>3, <1>6, <1>9, <1>10, <1>11, <1>12

-----------------------------------------------------------------------------
(* The calendar, for every first and last day of the walk and every number *)
(* of months. The months begun are numbered: month m of year y is 12 * y + *)
(* m, and the walk adds one at a time. The code computes with the same     *)
(* numbers from the date of the run alone.                                 *)

DateType == [y : Int, m : 1 .. 12, d : Nat \ {0}]
Number(day) == 12 * day.y + day.m
Firsts == [y : Int, m : 1 .. 12, d : {1}]
Entry == [first : Firsts, slots : Int]

Walk ==
    /\ today \in DateType
    /\ today.d =< Days(today.y, today.m)
    /\ elapsed \in Int
    /\ months \in Seq(Entry)
    /\ Len(months) > 0
    /\ \A i \in 1 .. Len(months) :
          Number(months[i].first) = Number(FirstDate) + i - 1
    /\ today.y = Current.first.y /\ today.m = Current.first.m

\* A month has between 28 and 31 days.
LEMMA DaysRange == \A y \in Int : \A m \in 1 .. 12 : Days(y, m) \in 28 .. 31
  BY DEF Days

\* The day after is the next of the month, or the first of the next month.
LEMMA DayAfterIs ==
  ASSUME NEW day \in DateType, day.d =< Days(day.y, day.m)
  PROVE  LET next == DayAfter(day) IN
         /\ next \in DateType
         /\ next.d =< Days(next.y, next.m)
         /\ \/ next.d # 1 /\ next.y = day.y /\ next.m = day.m
            \/ next.d = 1 /\ Number(next) = Number(day) + 1
<1> DEFINE next == DayAfter(day)
<1>0. Days(day.y, day.m) \in 28 .. 31
  BY DaysRange DEF DateType
<1>1. CASE day.d < Days(day.y, day.m)
  <2>1. next = [day EXCEPT !.d = @ + 1]
    BY <1>1 DEF DayAfter
  <2>2. next.y = day.y /\ next.m = day.m /\ next.d = day.d + 1 /\ next \in DateType
    BY <2>1 DEF DateType
  <2> QED
    BY <2>2, <1>1, <1>0 DEF DateType
<1>2. CASE day.d = Days(day.y, day.m)
  <2>1. next = IF day.m < 12 THEN Date(day.y, day.m + 1, 1) ELSE Date(day.y + 1, 1, 1)
    BY <1>2, <1>0 DEF DayAfter, DateType
  <2>2. next \in DateType /\ next.d = 1 /\ Number(next) = Number(day) + 1
    BY <2>1 DEF DateType, Date, Number
  <2>3. Days(next.y, next.m) >= 1
    BY <2>2, DaysRange DEF DateType
  <2> QED
    BY <2>2, <2>3
<1> QED
  BY <1>0, <1>1, <1>2 DEF DateType

\* The day before the first of a month is the last of the month before.
LEMMA DayBeforeIs ==
  ASSUME NEW day \in DateType, day.d = 1
  PROVE  /\ DayBefore(day) \in DateType
         /\ Number(DayBefore(day)) = Number(day) - 1
         /\ DayAfter(DayBefore(day)) = day
<1> DEFINE prev == DayBefore(day)
<1>0. day = Date(day.y, day.m, 1)
  BY DEF DateType, Date
<1>1. CASE day.m > 1
  <2>1. prev = Date(day.y, day.m - 1, Days(day.y, day.m - 1))
    BY <1>1 DEF DayBefore
  <2>2. Days(day.y, day.m - 1) \in 28 .. 31
    BY <1>1, DaysRange DEF DateType
  <2>3. /\ prev \in DateType /\ prev.y = day.y /\ prev.m = day.m - 1
        /\ prev.d = Days(prev.y, prev.m)
    BY <2>1, <2>2, <1>1 DEF DateType, Date
  <2>4. DayAfter(prev) = Date(day.y, day.m, 1)
    BY <2>3, <2>2, <1>1 DEF DayAfter, DateType
  <2> QED
    BY <2>3, <2>4, <1>0 DEF Number, DateType
<1>2. CASE day.m = 1
  <2>1. prev = Date(day.y - 1, 12, 31)
    BY <1>2 DEF DayBefore
  <2>2. prev \in DateType /\ prev.y = day.y - 1 /\ prev.m = 12 /\ prev.d = 31
    BY <2>1 DEF DateType, Date
  <2>3. DayAfter(prev) = Date(day.y, 1, 1)
    BY <2>2 DEF DayAfter, DateType, Days
  <2> QED
    BY <2>2, <2>3, <1>0, <1>2 DEF Number, DateType
<1> QED
  BY <1>1, <1>2 DEF DateType

\* A month is found again from its number.
LEMMA NumberDivides ==
  \A y \in Int : \A m \in 1 .. 12 :
     (12 * y + m - 1) \div 12 = y /\ ((12 * y + m - 1) % 12) + 1 = m
  OBVIOUS

LEMMA InitWalk == CalendarInit => Walk
<1> SUFFICES ASSUME CalendarInit PROVE Walk
  OBVIOUS
<1>1. today \in DateType /\ today.d = 1
  BY FirstDateAssumption DEF CalendarInit, DateType
<1>2. today.d =< Days(today.y, today.m)
  BY <1>1, DaysRange DEF DateType
<1> QED
  BY <1>1, <1>2, FirstDateAssumption
  DEF CalendarInit, Walk, Current, Number, DateType, Entry, Firsts

LEMMA WalkStep == Walk /\ [Pass]_calendar => Walk'
<1> SUFFICES ASSUME Walk, Pass PROVE Walk'
  BY DEF calendar, Walk, Current
<1>1. /\ today' = DayAfter(today)
      /\ elapsed' = elapsed + SlotsOf(today)
      /\ months' = IF today'.d = 1
                   THEN Append(months, [first |-> today', slots |-> elapsed'])
                   ELSE months
  BY DEF Pass
<1>2. /\ today' \in DateType
      /\ today'.d =< Days(today'.y, today'.m)
      /\ \/ today'.d # 1 /\ today'.y = today.y /\ today'.m = today.m
         \/ today'.d = 1 /\ Number(today') = Number(today) + 1
  BY <1>1, DayAfterIs DEF Walk
<1>3. elapsed' \in Int
  BY <1>1 DEF Walk, SlotsOf
<1>4. CASE today'.d # 1
  BY <1>1, <1>2, <1>3, <1>4 DEF Walk, Current
<1>5. CASE today'.d = 1
  <2> DEFINE entry == [first |-> today', slots |-> elapsed']
  <2>1. months' = Append(months, entry)
    BY <1>1, <1>5
  <2>2. entry \in Entry
    BY <1>2, <1>3, <1>5 DEF DateType, Entry, Firsts
  <2>3. /\ months' \in Seq(Entry)
        /\ Len(months') = Len(months) + 1
        /\ \A i \in 1 .. Len(months) : months'[i] = months[i]
        /\ months'[Len(months) + 1] = entry
    BY <2>1, <2>2 DEF Walk
  <2>4. Number(today') = Number(FirstDate) + Len(months)
    <3>1. Number(today) = Number(Current.first)
      BY DEF Walk, Number
    <3>2. Number(Current.first) = Number(FirstDate) + Len(months) - 1
      BY DEF Walk, Current
    <3>3. Number(FirstDate) \in Int
      BY FirstDateAssumption DEF Number
    <3> QED
      BY <3>1, <3>2, <3>3, <1>2, <1>5 DEF Walk
  <2>5. \A i \in 1 .. Len(months') :
           Number(months'[i].first) = Number(FirstDate) + i - 1
    <3> SUFFICES ASSUME NEW i \in 1 .. Len(months')
                 PROVE  Number(months'[i].first) = Number(FirstDate) + i - 1
      OBVIOUS
    <3>1. CASE i = Len(months) + 1
      BY <3>1, <2>3, <2>4, FirstDateAssumption DEF Number, Walk
    <3>2. CASE i \in 1 .. Len(months)
      BY <3>2, <2>3 DEF Walk
    <3> QED
      BY <3>1, <3>2, <2>3 DEF Walk
  <2> QED
    BY <1>2, <1>3, <2>3, <2>5 DEF Walk, Current
<1> QED
  BY <1>4, <1>5

LEMMA WalkInvariant == CalendarSpec => []Walk
  BY InitWalk, WalkStep, PTL DEF CalendarSpec

\* The period computed from the date of the run is the one the walk saw.
LEMMA PeriodIsSeen == Walk => MonthsAreWhole
<1> SUFFICES ASSUME Walk, NEW n \in NMonths
             PROVE  LET p == LastFullMonths(today, n)
                    IN p.first = Earlier(n).first /\ DayAfter(p.last) = Current.first
  BY DEF MonthsAreWhole
<1> DEFINE start == [today EXCEPT !.d = 1]
           last == DayBefore(start)
           index == last.y * 12 + last.m - 1 - (n - 1)
           first == Earlier(n).first
<1>1. /\ n \in Int /\ n >= 1
      /\ Len(months) \in 1 .. Len(months)
      /\ Len(months) - n \in 1 .. Len(months)
  BY DEF Walk, NMonths
<1>2. Current.first \in Firsts /\ first \in Firsts
  <2>1. \A i \in 1 .. Len(months) : months[i].first \in Firsts
    <3>1. \A i \in 1 .. Len(months) : months[i] \in Entry
      BY DEF Walk
    <3> QED
      BY <3>1 DEF Entry
  <2>2. Current.first = months[Len(months)].first /\ first = months[Len(months) - n].first
    BY DEF Current, Earlier
  <2> QED
    BY <1>1, <2>1, <2>2
<1>3. start = Current.first
  BY <1>2 DEF Walk, DateType, Firsts
<1>4. /\ last \in DateType
      /\ Number(last) = Number(start) - 1
      /\ DayAfter(last) = start
  BY <1>2, <1>3, DayBeforeIs DEF DateType, Firsts
<1>5. Number(first) = Number(Current.first) - n
  <2>1. Number(first) = Number(FirstDate) + (Len(months) - n) - 1
    BY <1>1 DEF Walk, Earlier
  <2>2. Number(Current.first) = Number(FirstDate) + Len(months) - 1
    BY <1>1 DEF Walk, Current
  <2>3. Number(FirstDate) \in Int /\ Len(months) \in Int
    BY FirstDateAssumption DEF Number, Walk
  <2> HIDE DEF first
  <2> QED
    BY <1>1, <2>1, <2>2, <2>3
<1>6. index = 12 * first.y + first.m - 1
  <2>1. last.y \in Int /\ last.m \in Int /\ first.y \in Int /\ first.m \in Int
    BY <1>2, <1>4 DEF DateType, Firsts
  <2>2. 12 * last.y + last.m = 12 * first.y + first.m + n - 1
    <3>1. 12 * last.y + last.m = Number(Current.first) - 1
      BY <1>3, <1>4 DEF Number
    <3>2. 12 * first.y + first.m = Number(Current.first) - n
      BY <1>5 DEF Number
    <3>3. Number(Current.first) \in Int
      BY <1>2 DEF Number, Firsts
    <3> HIDE DEF first, last
    <3> QED
      BY <1>1, <2>1, <3>1, <3>2, <3>3
  <2>3. last.y * 12 = 12 * last.y
    <3> HIDE DEF last
    <3> QED
      BY <2>1
  <2>4. last.y * 12 \in Int /\ 12 * first.y \in Int
    <3> HIDE DEF first, last
    <3> QED
      BY <2>1
  <2>5. last.y * 12 + last.m - 1 - (n - 1) = 12 * first.y + first.m - 1
    <3> HIDE DEF first, last
    <3> QED
      <4>1. n \in Int
        BY <1>1
      <4>2. last.y * 12 + last.m = 12 * first.y + first.m + n - 1
        BY <2>2, <2>3
      <4> QED
        BY <4>1, <4>2, <2>1, <2>4
  <2> QED
    BY <2>5
<1>7. Date(index \div 12, (index % 12) + 1, 1) = first
  BY <1>2, <1>6, NumberDivides DEF Date, Firsts
<1> QED
  BY <1>3, <1>4, <1>7 DEF LastFullMonths

\* A bill of n months covers the n calendar months before the one the run is
\* in, whatever the date and the number.
THEOREM BillsCoverMonths == CalendarSpec => []MonthsAreWhole
  BY WalkInvariant, PeriodIsSeen, PTL

-----------------------------------------------------------------------------
(* The slots of the days that passed, and the names of the bills. Ordinals *)
(* follow each other, over month ends, leap days and year ends, and the    *)
(* offset of Zurich changes after the two days that have not 96 slots.     *)

RealDates == {day \in DateType : day.d =< Days(day.y, day.m)}
LeapDay(y, m) == IF Leap(y) /\ m > 2 THEN 1 ELSE 0
YearsBefore(y) ==
    365 * (y - 1) + (y - 1) \div 4 - (y - 1) \div 100 + (y - 1) \div 400

\* The day of its year.
OfYear(day) == Before(day.m) + LeapDay(day.y, day.m) + day.d

LEMMA QuotientStep ==
    ASSUME NEW y \in Int
    PROVE  /\ y \div 4 = (y - 1) \div 4 + (IF y % 4 = 0 THEN 1 ELSE 0)
           /\ y \div 100 = (y - 1) \div 100 + (IF y % 100 = 0 THEN 1 ELSE 0)
           /\ y \div 400 = (y - 1) \div 400 + (IF y % 400 = 0 THEN 1 ELSE 0)
<1>1. y \div 4 = (y - 1) \div 4 + (IF y % 4 = 0 THEN 1 ELSE 0)
  OBVIOUS
<1>2. y \div 100 = (y - 1) \div 100 + (IF y % 100 = 0 THEN 1 ELSE 0)
  OBVIOUS
<1>3. y \div 400 = (y - 1) \div 400 + (IF y % 400 = 0 THEN 1 ELSE 0)
  OBVIOUS
<1> QED
  BY <1>1, <1>2, <1>3

LEMMA YearIs ==
    ASSUME NEW y \in Int
    PROVE  /\ YearsBefore(y) \in Int
           /\ YearsBefore(y + 1) = YearsBefore(y) + 365 + (IF Leap(y) THEN 1 ELSE 0)
<1>1. /\ (y - 1) \div 4 \in Int /\ (y - 1) \div 100 \in Int /\ (y - 1) \div 400 \in Int
  OBVIOUS
<1>2. YearsBefore(y + 1) = 365 * y + y \div 4 - y \div 100 + y \div 400
  <2>1. (y + 1) - 1 = y
    OBVIOUS
  <2> QED
    BY <2>1 DEF YearsBefore
<1>3. /\ y % 400 = 0 => y % 100 = 0
      /\ y % 100 = 0 => y % 4 = 0
  OBVIOUS
<1> DEFINE a == (y - 1) \div 4
           b == (y - 1) \div 100
           c == (y - 1) \div 400
<1>4. /\ y \div 4 = a + (IF y % 4 = 0 THEN 1 ELSE 0)
      /\ y \div 100 = b + (IF y % 100 = 0 THEN 1 ELSE 0)
      /\ y \div 400 = c + (IF y % 400 = 0 THEN 1 ELSE 0)
  BY QuotientStep
<1>5. YearsBefore(y) = 365 * (y - 1) + a - b + c
  BY DEF YearsBefore
<1> HIDE DEF a, b, c
<1>6. CASE Leap(y)
  BY <1>1, <1>2, <1>3, <1>4, <1>5, <1>6 DEF Leap, a, b, c
<1>7. CASE ~Leap(y)
  BY <1>1, <1>2, <1>3, <1>4, <1>5, <1>7 DEF Leap, a, b, c
<1> QED
  BY <1>6, <1>7

LEMMA OrdinalIs ==
    ASSUME NEW day \in DateType
    PROVE  /\ Ordinal(day) = YearsBefore(day.y) + OfYear(day)
           /\ Ordinal(day) \in Int /\ OfYear(day) \in Int
<1>1. /\ day.y \in Int /\ day.m \in 1 .. 12 /\ day.d \in Nat
  BY DEF DateType
<1>2. Before(day.m) \in Int /\ LeapDay(day.y, day.m) \in {0, 1}
  BY <1>1 DEF Before, LeapDay
<1>3. YearsBefore(day.y) \in Int
  BY <1>1, YearIs
<1>4. Ordinal(day) = YearsBefore(day.y) + Before(day.m) + LeapDay(day.y, day.m) + day.d
  BY DEF Ordinal, YearsBefore, LeapDay
<1> QED
  BY <1>1, <1>2, <1>3, <1>4 DEF OfYear

\* The months follow each other within the year.
LEMMA MonthIs ==
    ASSUME NEW y \in Int, NEW m \in 1 .. 12
    PROVE  /\ Before(m) \in 0 .. 334
           /\ m < 12 => Before(m + 1) + LeapDay(y, m + 1)
                          = Before(m) + LeapDay(y, m) + Days(y, m)
           /\ m = 12 => Before(m) = 334 /\ Days(y, m) = 31
           /\ m = 1 => Before(m) = 0
  BY DEF Before, LeapDay, Days

LEMMA LeapDayIs == \A y, m : LeapDay(y, m) \in {0, 1} /\ LeapDay(y, m) \in Int
  BY DEF LeapDay

LEMMA BeforeIs == \A m \in 1 .. 12 : Before(m) \in Int
  BY DEF Before

LEMMA OrdinalFollows ==
    ASSUME NEW day \in RealDates
    PROVE  Ordinal(DayAfter(day)) = Ordinal(day) + 1
<1> DEFINE next == DayAfter(day)
<1>0. /\ day \in DateType /\ day.y \in Int /\ day.m \in 1 .. 12 /\ day.d \in Nat
      /\ day.d =< Days(day.y, day.m) /\ Days(day.y, day.m) \in 28 .. 31
  BY DaysRange DEF RealDates, DateType
<1>1. CASE day.d < Days(day.y, day.m)
  <2>1. next = [day EXCEPT !.d = @ + 1]
    BY <1>1 DEF DayAfter
  <2>2. next \in DateType /\ next.y = day.y /\ next.m = day.m /\ next.d = day.d + 1
    BY <1>0, <2>1 DEF DateType
  <2>3. OfYear(next) = OfYear(day) + 1
    <3>1. Before(day.m) \in Int /\ LeapDay(day.y, day.m) \in Int
      BY <1>0, BeforeIs, LeapDayIs
    <3> QED
      BY <1>0, <2>2, <3>1 DEF OfYear
  <2> QED
    BY <1>0, <2>2, <2>3, OrdinalIs, YearIs
<1>2. CASE day.d = Days(day.y, day.m) /\ day.m < 12
  <2>1. next = Date(day.y, day.m + 1, 1)
    BY <1>0, <1>2 DEF DayAfter
  <2>2. next \in DateType /\ next.y = day.y /\ next.m = day.m + 1 /\ next.d = 1
    BY <1>0, <1>2, <2>1 DEF DateType, Date
  <2>3. OfYear(next) = OfYear(day) + 1
    <3>1. Before(day.m + 1) + LeapDay(day.y, day.m + 1)
            = Before(day.m) + LeapDay(day.y, day.m) + Days(day.y, day.m)
      BY <1>0, <1>2, MonthIs
    <3>2. Before(day.m) \in Int /\ LeapDay(day.y, day.m) \in Int
      BY <1>0, BeforeIs, LeapDayIs
    <3> QED
      BY <1>0, <1>2, <2>2, <3>1, <3>2 DEF OfYear
  <2> QED
    BY <1>0, <2>2, <2>3, OrdinalIs, YearIs
<1>3. CASE day.d = Days(day.y, day.m) /\ day.m = 12
  <2>1. next = Date(day.y + 1, 1, 1)
    BY <1>0, <1>3 DEF DayAfter
  <2>2. next \in DateType /\ next.y = day.y + 1 /\ next.m = 1 /\ next.d = 1
    BY <1>0, <2>1 DEF DateType, Date
  <2>3. OfYear(next) = 1
    BY <2>2, MonthIs DEF OfYear, LeapDay, Before
  <2>4. OfYear(day) = 365 + (IF Leap(day.y) THEN 1 ELSE 0)
    BY <1>0, <1>3, MonthIs DEF OfYear, LeapDay
  <2>5. Ordinal(next) = YearsBefore(day.y) + 365 + (IF Leap(day.y) THEN 1 ELSE 0) + 1
    BY <1>0, <2>2, <2>3, OrdinalIs, YearIs
  <2>6. Ordinal(day) = YearsBefore(day.y) + 365 + (IF Leap(day.y) THEN 1 ELSE 0)
    BY <1>0, <2>4, OrdinalIs, YearIs
  <2>7. YearsBefore(day.y) \in Int
    BY <1>0, YearIs
  <2> QED
    BY <2>5, <2>6, <2>7
<1> QED
  BY <1>0, <1>1, <1>2, <1>3

\* The day of the year tells the month.
LEMMA MonthOfDay ==
    ASSUME NEW day \in RealDates
    PROVE  /\ OfYear(day) \in 1 .. 366
           /\ Before(day.m) + LeapDay(day.y, day.m) < OfYear(day)
           /\ OfYear(day) =< Before(day.m) + LeapDay(day.y, day.m) + Days(day.y, day.m)
           /\ day.m < 3 => OfYear(day) =< 59 + LeapDay(day.y, 3)
           /\ day.m > 3 => OfYear(day) > 90 + LeapDay(day.y, 3)
           /\ day.m < 10 => OfYear(day) =< 273 + LeapDay(day.y, 3)
           /\ day.m > 10 => OfYear(day) > 304 + LeapDay(day.y, 3)
<1>0. /\ day.y \in Int /\ day.m \in 1 .. 12 /\ day.d \in Nat \ {0}
      /\ day.d =< Days(day.y, day.m)
  BY DEF RealDates, DateType
<1>1. \/ day.m = 1 /\ Before(day.m) = 0 /\ Days(day.y, day.m) = 31
      \/ day.m = 2 /\ Before(day.m) = 31
           /\ Days(day.y, day.m) = 28 + (IF Leap(day.y) THEN 1 ELSE 0)
      \/ day.m = 3 /\ Before(day.m) = 59 /\ Days(day.y, day.m) = 31
      \/ day.m = 4 /\ Before(day.m) = 90 /\ Days(day.y, day.m) = 30
      \/ day.m = 5 /\ Before(day.m) = 120 /\ Days(day.y, day.m) = 31
      \/ day.m = 6 /\ Before(day.m) = 151 /\ Days(day.y, day.m) = 30
      \/ day.m = 7 /\ Before(day.m) = 181 /\ Days(day.y, day.m) = 31
      \/ day.m = 8 /\ Before(day.m) = 212 /\ Days(day.y, day.m) = 31
      \/ day.m = 9 /\ Before(day.m) = 243 /\ Days(day.y, day.m) = 30
      \/ day.m = 10 /\ Before(day.m) = 273 /\ Days(day.y, day.m) = 31
      \/ day.m = 11 /\ Before(day.m) = 304 /\ Days(day.y, day.m) = 30
      \/ day.m = 12 /\ Before(day.m) = 334 /\ Days(day.y, day.m) = 31
  BY <1>0 DEF Before, Days
<1> QED
  BY <1>0, <1>1 DEF OfYear, LeapDay

\* The two Sundays lie in the last week of their months.
LEMMA SundaysAre ==
    ASSUME NEW y \in Int
    PROVE  LET base == YearsBefore(y) + LeapDay(y, 3) IN
           /\ LastSunday(y, 3) \in base + 84 .. base + 90
           /\ LastSunday(y, 10) \in base + 298 .. base + 304
<1>1. /\ Date(y, 3, 31) \in DateType /\ Date(y, 10, 31) \in DateType
      /\ Days(y, 3) = 31 /\ Days(y, 10) = 31
  BY DEF DateType, Date, Days
<1>2. /\ OfYear(Date(y, 3, 31)) = 90 + LeapDay(y, 3)
      /\ OfYear(Date(y, 10, 31)) = 304 + LeapDay(y, 3)
  BY DEF OfYear, Date, Before, LeapDay
<1> DEFINE march == Ordinal(Date(y, 3, 31))
           october == Ordinal(Date(y, 10, 31))
<1>3. /\ march = YearsBefore(y) + 90 + LeapDay(y, 3)
      /\ october = YearsBefore(y) + 304 + LeapDay(y, 3)
      /\ YearsBefore(y) \in Int /\ LeapDay(y, 3) \in Int
  <2>1. Date(y, 3, 31).y = y /\ Date(y, 10, 31).y = y
    BY DEF Date
  <2>2. YearsBefore(y) \in Int /\ LeapDay(y, 3) \in Int
    BY YearIs DEF LeapDay
  <2> QED
    BY <1>1, <1>2, <2>1, <2>2, OrdinalIs
<1>4. LastSunday(y, 3) = march - (march % 7) /\ LastSunday(y, 10) = october - (october % 7)
  BY <1>1 DEF LastSunday
<1> HIDE DEF march, october
<1>5. march \in Int /\ october \in Int
  BY <1>3
<1>6. march % 7 \in 0 .. 6 /\ october % 7 \in 0 .. 6
  BY <1>5
<1> DEFINE base == YearsBefore(y) + LeapDay(y, 3)
<1>7. base \in Int /\ march = base + 90 /\ october = base + 304
  BY <1>3
<1> HIDE DEF base
<1>8. /\ LastSunday(y, 3) \in base + 84 .. base + 90
      /\ LastSunday(y, 10) \in base + 298 .. base + 304
  BY <1>4, <1>6, <1>7
<1> QED
  BY <1>8 DEF base

\* The next midnight of Zurich is as many slots later as the day has.
LEMMA MidnightFollows ==
    ASSUME NEW day \in RealDates
    PROVE  UtcMidnight(DayAfter(day)) = UtcMidnight(day) + SlotsOf(day)
<1> DEFINE next == DayAfter(day)
           base == YearsBefore(day.y) + LeapDay(day.y, 3)
           o == Ordinal(day)
           march == LastSunday(day.y, 3)
           october == LastSunday(day.y, 10)
<1>0. /\ day \in DateType /\ day.y \in Int /\ day.m \in 1 .. 12 /\ day.d \in Nat \ {0}
      /\ day.d =< Days(day.y, day.m)
  BY DEF RealDates, DateType
<1>1. /\ Ordinal(next) = o + 1 /\ o \in Int
      /\ next \in DateType /\ next.d =< Days(next.y, next.m)
      /\ \/ next.y = day.y
         \/ day.m = 12 /\ next.y = day.y + 1 /\ next.m = 1 /\ next.d = 1
  <2>1. /\ next \in DateType /\ next.d =< Days(next.y, next.m)
    BY <1>0, DayAfterIs
  <2>2. \/ next.y = day.y
        \/ day.m = 12 /\ next.y = day.y + 1 /\ next.m = 1 /\ next.d = 1
    BY <1>0 DEF DayAfter, Date, DateType
  <2> QED
    BY <1>0, <2>1, <2>2, OrdinalFollows, OrdinalIs
<1>2. /\ base \in Int /\ march \in base + 84 .. base + 90
      /\ october \in base + 298 .. base + 304
  <2>1. YearsBefore(day.y) \in Int /\ LeapDay(day.y, 3) \in Int
    BY <1>0, YearIs, LeapDayIs
  <2> QED
    BY <1>0, <2>1, SundaysAre
<1>3. /\ day.m < 3 => o =< base + 59
      /\ day.m > 3 => o > base + 90
      /\ day.m < 10 => o =< base + 273
      /\ day.m > 10 => o > base + 304
  <2>1. /\ day.m < 3 => OfYear(day) =< 59 + LeapDay(day.y, 3)
        /\ day.m > 3 => OfYear(day) > 90 + LeapDay(day.y, 3)
        /\ day.m < 10 => OfYear(day) =< 273 + LeapDay(day.y, 3)
        /\ day.m > 10 => OfYear(day) > 304 + LeapDay(day.y, 3)
    BY MonthOfDay
  <2>2. o = YearsBefore(day.y) + OfYear(day) /\ OfYear(day) \in Int
    BY <1>0, OrdinalIs
  <2>3. YearsBefore(day.y) \in Int /\ LeapDay(day.y, 3) \in Int
    BY <1>0, YearIs, LeapDayIs
  <2> HIDE DEF o
  <2> QED
    BY <1>0, <2>1, <2>2, <2>3
<1> HIDE DEF o, march, october, base, next
<1>4. SlotsOf(day) = IF o = march THEN 92 ELSE IF o = october THEN 100 ELSE 96
  <2>1. /\ o = march => day.m = 3
        /\ o = october => day.m = 10
    BY <1>0, <1>1, <1>2, <1>3
  <2> QED
    BY <2>1 DEF SlotsOf, o, march, october
<1>5. Offset(day) = IF o > march /\ o =< october THEN 8 ELSE 4
  BY DEF Offset, o, march, october
<1>6. CASE next.y = day.y
  <2>1. Offset(next) = IF o + 1 > march /\ o + 1 =< october THEN 8 ELSE 4
    BY <1>1, <1>6 DEF Offset, march, october
  <2>2. Offset(day) - Offset(next) = SlotsOf(day) - 96
    BY <1>1, <1>2, <1>4, <1>5, <2>1
  <2>3. Offset(day) \in Int /\ Offset(next) \in Int /\ SlotsOf(day) \in Int
    BY <1>4, <1>5, <2>1
  <2>4. /\ UtcMidnight(next) = (o + 1) * 96 - Offset(next)
        /\ UtcMidnight(day) = o * 96 - Offset(day)
    BY <1>1 DEF UtcMidnight, o
  <2>5. (o + 1) * 96 = o * 96 + 96 /\ o * 96 \in Int
    BY <1>1
  <2>6. UtcMidnight(next) = UtcMidnight(day) + SlotsOf(day)
    BY <2>2, <2>3, <2>4, <2>5
  <2> QED
    BY <2>6 DEF next
<1>7. CASE day.m = 12 /\ next.y = day.y + 1 /\ next.m = 1 /\ next.d = 1
  <2>1. Offset(day) = 4 /\ SlotsOf(day) = 96
    BY <1>1, <1>2, <1>3, <1>4, <1>5, <1>7
  <2>2. Offset(next) = 4
    <3> DEFINE later == YearsBefore(next.y) + LeapDay(next.y, 3)
    <3>0. next.y \in Int
      BY <1>0, <1>7
    <3>1. /\ YearsBefore(next.y) \in Int /\ LeapDay(next.y, 3) \in {0, 1}
          /\ LastSunday(next.y, 3) \in later + 84 .. later + 90
      BY <3>0, YearIs, LeapDayIs, SundaysAre
    <3>2. OfYear(next) = 1
      BY <1>7 DEF OfYear, LeapDay, Before
    <3>3. Ordinal(next) = YearsBefore(next.y) + 1
      BY <1>1, <3>2, OrdinalIs
    <3>4. Ordinal(next) < LastSunday(next.y, 3) /\ LastSunday(next.y, 3) \in Int
      BY <3>1, <3>3
    <3>5. Ordinal(next) \in Int
      BY <1>1
    <3> QED
      BY <3>4, <3>5 DEF Offset
  <2>3. /\ UtcMidnight(next) = (o + 1) * 96 - 4
        /\ UtcMidnight(day) = o * 96 - 4
    BY <1>1, <2>1, <2>2 DEF UtcMidnight, o
  <2>4. UtcMidnight(next) = UtcMidnight(day) + SlotsOf(day)
    BY <1>1, <2>1, <2>3
  <2> QED
    BY <2>4 DEF next
<1> QED
  BY <1>1, <1>6, <1>7

\* Slots are counted from the first day of the walk.
From == UtcMidnight(FirstDate)
Counted ==
    /\ elapsed = UtcMidnight(today) - From
    /\ \A i \in 1 .. Len(months) : months[i].slots = UtcMidnight(months[i].first) - From

LEMMA MidnightIsInt == \A day \in DateType : UtcMidnight(day) \in Int
<1> SUFFICES ASSUME NEW day \in DateType PROVE UtcMidnight(day) \in Int
  OBVIOUS
<1>1. Ordinal(day) \in Int
  BY OrdinalIs
<1>2. Offset(day) \in {4, 8}
  BY DEF Offset
<1> QED
  BY <1>1, <1>2 DEF UtcMidnight

LEMMA InitCounted == CalendarInit => Counted
<1> SUFFICES ASSUME CalendarInit PROVE Counted
  OBVIOUS
<1>1. FirstDate \in DateType
  BY FirstDateAssumption DEF DateType
<1>2. From \in Int
  BY <1>1, MidnightIsInt DEF From
<1> QED
  BY <1>2 DEF CalendarInit, Counted, From

LEMMA CountedStep == Walk /\ Counted /\ [Pass]_calendar => Counted'
<1> SUFFICES ASSUME Walk, Counted, Pass PROVE Counted'
  BY DEF calendar, Counted, From
<1>1. /\ today' = DayAfter(today)
      /\ elapsed' = elapsed + SlotsOf(today)
      /\ months' = IF today'.d = 1
                   THEN Append(months, [first |-> today', slots |-> elapsed'])
                   ELSE months
  BY DEF Pass
<1>2. today \in RealDates
  BY DEF Walk, RealDates
<1>3. UtcMidnight(today') = UtcMidnight(today) + SlotsOf(today)
  BY <1>1, <1>2, MidnightFollows
<1>4. UtcMidnight(today) \in Int /\ From \in Int /\ SlotsOf(today) \in Int
  <2>1. FirstDate \in DateType
    BY FirstDateAssumption DEF DateType
  <2> QED
    BY <2>1, MidnightIsInt DEF Walk, From, SlotsOf
<1>5. elapsed' = UtcMidnight(today') - From
  BY <1>1, <1>3, <1>4 DEF Counted
<1>6. ASSUME NEW i \in 1 .. Len(months')
      PROVE  months'[i].slots = UtcMidnight(months'[i].first) - From
  <2>1. CASE today'.d # 1
    BY <1>1, <2>1 DEF Counted
  <2>2. CASE today'.d = 1
    <3> DEFINE entry == [first |-> today', slots |-> elapsed']
    <3>1. /\ Len(months') = Len(months) + 1
          /\ \A j \in 1 .. Len(months) : months'[j] = months[j]
          /\ months'[Len(months) + 1] = entry
          /\ Len(months) \in Nat
      BY <1>1, <2>2 DEF Walk
    <3>2. CASE i = Len(months) + 1
      BY <1>5, <3>1, <3>2
    <3>3. CASE i \in 1 .. Len(months)
      BY <3>1, <3>3 DEF Counted
    <3> QED
      BY <3>1, <3>2, <3>3
  <2> QED
    BY <2>1, <2>2
<1>7. From' = From
  BY DEF From
<1> QED
  BY <1>5, <1>6, <1>7 DEF Counted

\* A day goes back, and the day after it is the day.
LEMMA YesterdayIs ==
    ASSUME NEW day \in RealDates, day.d > 1
    PROVE  LET last == DayBefore(day) IN
           /\ last \in RealDates /\ last.y = day.y /\ last.m = day.m
           /\ DayAfter(last) = day
<1> DEFINE last == DayBefore(day)
<1>1. day \in DateType /\ day.d =< Days(day.y, day.m) /\ day.d \in Nat
      /\ Days(day.y, day.m) \in Int
  BY DaysRange DEF RealDates, DateType
<1>2. last = [day EXCEPT !.d = @ - 1]
  BY DEF DayBefore
<1>3. /\ last \in DateType /\ last.y = day.y /\ last.m = day.m /\ last.d = day.d - 1
  BY <1>1, <1>2 DEF DateType
<1>4. last.d < Days(last.y, last.m)
  BY <1>1, <1>3
<1>5. DayAfter(last) = [last EXCEPT !.d = @ + 1]
  BY <1>4 DEF DayAfter
<1>6. DayAfter(last) = day
  <2> DEFINE next == [last EXCEPT !.d = @ + 1]
  <2>1. /\ next \in [y : Int, m : Int, d : Int]
        /\ next.y = last.y /\ next.m = last.m /\ next.d = last.d + 1
    <3> HIDE DEF last
    <3> QED
      BY <1>3 DEF DateType
  <2>2. /\ day \in [y : Int, m : Int, d : Int]
        /\ day.y = next.y /\ day.m = next.m /\ day.d = next.d
    <3> HIDE DEF last, next
    <3> QED
      BY <1>1, <1>3, <2>1 DEF DateType
  <2>3. next = day
    <3> HIDE DEF next
    <3> QED
      BY <2>1, <2>2
  <2> QED
    BY <1>5, <2>3
<1> HIDE DEF last
<1>7. last \in RealDates
  BY <1>1, <1>3 DEF RealDates
<1> QED
  BY <1>3, <1>6, <1>7 DEF last

LEMMA TodayIs == Walk => /\ today \in RealDates /\ DayAfter(DayBefore(today)) = today
                         /\ \A i \in 1 .. Len(months) : months[i].first \in Firsts
<1> SUFFICES ASSUME Walk PROVE /\ today \in RealDates /\ DayAfter(DayBefore(today)) = today
                               /\ \A i \in 1 .. Len(months) : months[i].first \in Firsts
  OBVIOUS
<1>1. today \in RealDates /\ today \in DateType
  BY DEF Walk, RealDates
<1>2. DayAfter(DayBefore(today)) = today
  <2>1. CASE today.d = 1
    BY <1>1, <2>1, DayBeforeIs
  <2>2. CASE today.d > 1
    BY <1>1, <2>2, YesterdayIs
  <2> QED
    BY <1>1, <2>1, <2>2 DEF DateType
<1>3. \A i \in 1 .. Len(months) : months[i] \in Entry
  BY DEF Walk
<1> QED
  BY <1>1, <1>2, <1>3 DEF Entry

LEMMA CountIsRight == Walk /\ Counted => SlotsAreCounted
<1> SUFFICES ASSUME Walk, Counted PROVE SlotsAreCounted
  OBVIOUS
<1>0. From \in Int
  <2>1. FirstDate \in DateType
    BY FirstDateAssumption DEF DateType
  <2> QED
    BY <2>1, MidnightIsInt DEF From
<1>f. \A i \in 1 .. Len(months) :
         /\ months[i].first \in DateType
         /\ UtcMidnight(months[i].first) \in Int
         /\ months[i].slots = UtcMidnight(months[i].first) - From
  <2>1. \A i \in 1 .. Len(months) : months[i].first \in DateType
    BY TodayIs DEF Firsts, DateType
  <2> QED
    BY <2>1, MidnightIsInt DEF Counted
<1>1. ASSUME NEW n \in NMonths
      PROVE  ExpectedSlots(LastFullMonths(today, n)) = Current.slots - Earlier(n).slots
  <2> DEFINE p == LastFullMonths(today, n)
  <2>1. p.first = Earlier(n).first /\ DayAfter(p.last) = Current.first
    BY PeriodIsSeen DEF MonthsAreWhole
  <2>2. /\ Len(months) \in 1 .. Len(months) /\ Len(months) - n \in 1 .. Len(months)
    BY DEF Walk, NMonths
  <2>3. /\ UtcMidnight(Current.first) \in Int /\ UtcMidnight(Earlier(n).first) \in Int
        /\ Current.slots = UtcMidnight(Current.first) - From
        /\ Earlier(n).slots = UtcMidnight(Earlier(n).first) - From
    BY <1>f, <2>2 DEF Current, Earlier
  <2>4. ExpectedSlots(p) = UtcMidnight(Current.first) - UtcMidnight(Earlier(n).first)
    BY <2>1 DEF ExpectedSlots
  <2> QED
    BY <1>0, <2>3, <2>4
<1>2. ASSUME NEW p \in ByDays, NEW i \in 1 .. Len(months), months[i].first = p.first
      PROVE  ExpectedSlots(p) = elapsed - months[i].slots
  <2>1. p.last = DayBefore(today)
    BY DEF ByDays
  <2>2. ExpectedSlots(p) = UtcMidnight(today) - UtcMidnight(months[i].first)
    BY <1>2, <2>1, TodayIs DEF ExpectedSlots
  <2>3. elapsed = UtcMidnight(today) - From /\ UtcMidnight(today) \in Int
    BY MidnightIsInt DEF Counted, Walk
  <2> QED
    BY <1>0, <1>f, <2>2, <2>3
<1> QED
  BY <1>1, <1>2 DEF SlotsAreCounted

\* The last day of month m of a year, and the month it is in.
LEMMA MonthEndIs ==
    ASSUME NEW y \in Int, NEW m \in 1 .. 12
    PROVE  /\ MonthEnd(y, m) \in DateType
           /\ Number(MonthEnd(y, m)) = 12 * y + m
           /\ DayAfter(MonthEnd(y, m)) = Date(y + m \div 12, (m % 12) + 1, 1)
<1> DEFINE next == Date(y + m \div 12, (m % 12) + 1, 1)
<1>1. \/ m < 12 /\ m \div 12 = 0 /\ m % 12 = m
      \/ m = 12 /\ m \div 12 = 1 /\ m % 12 = 0
  OBVIOUS
<1>2. next \in DateType /\ next.d = 1 /\ Number(next) = 12 * y + m + 1
  BY <1>1 DEF DateType, Date, Number
<1>3. MonthEnd(y, m) = DayBefore(next)
  BY DEF MonthEnd
<1> HIDE DEF next
<1>4. /\ DayBefore(next) \in DateType
      /\ Number(DayBefore(next)) = Number(next) - 1
      /\ DayAfter(DayBefore(next)) = next
  BY <1>2, DayBeforeIs
<1> QED
  BY <1>2, <1>3, <1>4 DEF next

\* A bill named after a quarter ends with the month before this one: a period
\* that ends yesterday is a quarter only on the first of a month.
Quarter(p) ==
    /\ p.first.d = 1
    /\ (p.first.m % 3) = 1
    /\ p.last = MonthEnd(p.first.y, p.first.m + 2)

LEMMA BillsAre ==
    ASSUME Walk, NEW p \in ByMonths \cup ByDays
    PROVE  /\ p.first \in Firsts /\ p.last \in DateType
           /\ p = [first |-> p.first, last |-> p.last]
           /\ DayAfter(p.last) \in {Current.first, today}
           /\ \/ Number(p.last) = Number(today) - 1
              \/ DayAfter(p.last) = today /\ today.d # 1
<1>0. today \in DateType /\ today \in RealDates
  BY TodayIs DEF Walk
<1>1. CASE p \in ByMonths
  <2>1. PICK n \in NMonths : p = LastFullMonths(today, n)
    BY <1>1 DEF ByMonths
  <2>2. /\ p.first = Earlier(n).first /\ DayAfter(p.last) = Current.first
    BY <2>1, PeriodIsSeen DEF MonthsAreWhole
  <2>3. Len(months) - n \in 1 .. Len(months)
    BY DEF Walk, NMonths
  <2>4. p.first \in Firsts
    BY <2>2, <2>3, TodayIs DEF Earlier
  <2> DEFINE start == [today EXCEPT !.d = 1]
  <2>5. p.last = DayBefore(start) /\ p = [first |-> p.first, last |-> p.last]
    BY <2>1 DEF LastFullMonths
  <2>6. start \in DateType /\ start.d = 1 /\ Number(start) = Number(today)
    BY <1>0 DEF DateType, Number
  <2> HIDE DEF start
  <2>7. p.last \in DateType /\ Number(p.last) = Number(today) - 1
    BY <2>5, <2>6, DayBeforeIs
  <2> QED
    BY <2>2, <2>4, <2>5, <2>7
<1>2. CASE p \in ByDays
  <2>1. PICK i \in 1 .. Len(months) :
           p = [first |-> months[i].first, last |-> DayBefore(today)]
    BY <1>2 DEF ByDays
  <2>2. p.first \in Firsts /\ p.last = DayBefore(today) /\ DayAfter(p.last) = today
    BY <2>1, TodayIs
  <2>3. CASE today.d = 1
    BY <1>0, <2>1, <2>2, <2>3, DayBeforeIs
  <2>4. CASE today.d > 1
    BY <1>0, <2>1, <2>2, <2>4, YesterdayIs DEF RealDates
  <2> QED
    BY <1>0, <2>3, <2>4 DEF DateType
<1> QED
  BY <1>1, <1>2

LEMMA QuarterEnds ==
    ASSUME Walk, NEW p \in ByMonths \cup ByDays, Quarter(p)
    PROVE  Number(p.first) = Number(today) - 3
<1>1. /\ p.first.y \in Int /\ p.first.m \in 1 .. 12 /\ p.first.m + 2 \in 1 .. 12
  BY BillsAre DEF Quarter, Firsts
<1> DEFINE y == p.first.y
           m == p.first.m + 2
<1>2. /\ Number(p.last) = 12 * y + m
      /\ DayAfter(p.last) = Date(y + m \div 12, (m % 12) + 1, 1)
  BY <1>1, MonthEndIs DEF Quarter
<1>3. DayAfter(p.last).d = 1
  BY <1>2 DEF Date
<1>4. Number(p.last) = Number(today) - 1
  BY <1>3, BillsAre
<1>5. Number(today) \in Int
  BY DEF Walk, DateType, Number
<1> QED
  BY <1>1, <1>2, <1>4, <1>5 DEF Number

\* A year and a month are known by the number of the month.
LEMMA MonthNumbers ==
    \A y, z \in Int : \A m, n \in 1 .. 12 :
        12 * y + m = 12 * z + n => y = z /\ m = n
<1> SUFFICES ASSUME NEW y \in Int, NEW z \in Int, NEW m \in 1 .. 12, NEW n \in 1 .. 12,
                    12 * y + m = 12 * z + n
             PROVE  y = z /\ m = n
  OBVIOUS
<1>1. CASE y < z
  BY <1>1, y + 1 =< z
<1>2. CASE z < y
  BY <1>2, z + 1 =< y
<1> QED
  BY <1>1, <1>2

LEMMA StemsDiffer == Walk => StemIdentifiesPeriod
<1> SUFFICES ASSUME Walk, NEW p \in ByMonths \cup ByDays, NEW q \in ByMonths \cup ByDays,
                    FileStem(p) = FileStem(q)
             PROVE  p = q
  BY DEF StemIdentifiesPeriod
<1>0. /\ p = [first |-> p.first, last |-> p.last] /\ q = [first |-> q.first, last |-> q.last]
      /\ p.first \in Firsts /\ q.first \in Firsts
  BY BillsAre
<1>1. \A b : FileStem(b) = IF Quarter(b)
                           THEN <<"quarter", b.first.y % 100, (b.first.m - 1) \div 3 + 1>>
                           ELSE <<"days", b.first, b.last>>
  BY DEF FileStem, Quarter
<1>2. Quarter(p) <=> Quarter(q)
  <2>1. ASSUME NEW a, NEW b, FileStem(a) = FileStem(b), Quarter(a) PROVE Quarter(b)
    <3>1. FileStem(a)[1] = "quarter"
      BY <1>1, <2>1
    <3> QED
      BY <1>1, <2>1, <3>1
  <2> QED
    BY <2>1
<1>3. CASE ~Quarter(p)
  <2>1. <<"days", p.first, p.last>> = <<"days", q.first, q.last>>
    BY <1>1, <1>2, <1>3
  <2> QED
    BY <1>0, <2>1
<1>4. CASE Quarter(p)
  <2>1. Number(p.first) = Number(q.first)
    BY <1>2, <1>4, QuarterEnds
  <2>2. p.first = q.first
    <3>1. /\ p.first.y \in Int /\ p.first.m \in 1 .. 12 /\ p.first.d = 1
          /\ q.first.y \in Int /\ q.first.m \in 1 .. 12 /\ q.first.d = 1
      BY <1>0 DEF Firsts
    <3>2. p.first.y = q.first.y /\ p.first.m = q.first.m
      <4>1. 12 * p.first.y + p.first.m = 12 * q.first.y + q.first.m
        BY <2>1, <3>1 DEF Number
      <4> QED
        BY <3>1, <4>1, MonthNumbers
    <3> QED
      BY <1>0, <3>1, <3>2 DEF Firsts
  <2>3. p.last = q.last
    BY <1>2, <1>4, <2>2 DEF Quarter
  <2> QED
    BY <1>0, <2>2, <2>3
<1> QED
  BY <1>3, <1>4

LEMMA QuarterNamed == Walk => QuarterIsNamed
<1> SUFFICES ASSUME Walk, 3 \in NMonths, today.m % 3 = 1
             PROVE  FileStem(LastFullMonths(today, 3)) =
                      IF today.m = 1 THEN <<"quarter", (today.y - 1) % 100, 4>>
                                     ELSE <<"quarter", today.y % 100, (today.m - 1) \div 3>>
  BY DEF QuarterIsNamed
<1> DEFINE p == LastFullMonths(today, 3)
           start == [today EXCEPT !.d = 1]
<1>1. /\ today \in DateType /\ today.y \in Int /\ today.m \in {1, 4, 7, 10}
  <2>1. today \in DateType /\ today.y \in Int /\ today.m \in 1 .. 12
    BY DEF Walk, DateType
  <2> QED
    BY <2>1
<1>2. start = Date(today.y, today.m, 1)
  BY <1>1 DEF Date, DateType
<1>3. p \in ByMonths /\ p.last = DayBefore(start)
  BY DEF ByMonths, LastFullMonths
<1>4. p.first = Earlier(3).first /\ p.first \in Firsts
  BY <1>3, PeriodIsSeen, BillsAre DEF MonthsAreWhole
<1>5. Number(p.first) = Number(today) - 3
  <2>1. /\ Len(months) \in 1 .. Len(months) /\ Len(months) - 3 \in 1 .. Len(months)
    BY DEF Walk, NMonths
  <2>2. Number(p.first) = Number(FirstDate) + (Len(months) - 3) - 1
    BY <1>4, <2>1 DEF Walk, Earlier
  <2>3. Number(today) = Number(FirstDate) + Len(months) - 1
    BY <2>1 DEF Walk, Current, Number
  <2>4. Number(FirstDate) \in Int /\ Len(months) \in Int
    BY FirstDateAssumption DEF Number, Walk
  <2> HIDE DEF p
  <2> QED
    BY <2>2, <2>3, <2>4
<1> DEFINE f == p.first
<1>6. f.y \in Int /\ f.m \in 1 .. 12 /\ f.d = 1
  BY <1>4 DEF Firsts
<1>7. \/ today.m = 1 /\ f.m = 10 /\ f.y = today.y - 1
      \/ today.m \in {4, 7, 10} /\ f.m = today.m - 3 /\ f.y = today.y
  <2> HIDE DEF p
  <2> QED
    BY <1>1, <1>5, <1>6 DEF Number
<1> HIDE DEF p, start
<1>8. MonthEnd(f.y, f.m + 2) = DayBefore(start)
  <2>1. CASE today.m = 1
    <3>1. (f.m + 2) \div 12 = 1 /\ ((f.m + 2) % 12) + 1 = 1 /\ f.y + 1 = today.y
      BY <1>1, <1>7, <2>1
    <3> QED
      BY <1>2, <2>1, <3>1 DEF MonthEnd
  <2>2. CASE today.m # 1
    <3>1. (f.m + 2) \div 12 = 0 /\ ((f.m + 2) % 12) + 1 = today.m /\ f.y + 0 = today.y
      BY <1>1, <1>7, <2>2
    <3> QED
      BY <1>2, <3>1 DEF MonthEnd
  <2> QED
    BY <2>1, <2>2
<1>9. f.m % 3 = 1
  BY <1>1, <1>7
<1>10. FileStem(p) = <<"quarter", f.y % 100, (f.m - 1) \div 3 + 1>>
  BY <1>3, <1>6, <1>8, <1>9 DEF FileStem
<1>11. /\ today.m = 1 => f.y = today.y - 1 /\ (f.m - 1) \div 3 + 1 = 4
       /\ today.m # 1 => f.y = today.y /\ (f.m - 1) \div 3 + 1 = (today.m - 1) \div 3
  BY <1>1, <1>7
<1> QED
  BY <1>10, <1>11 DEF p

\* For any first and last day and number of months: the slots a bill is held
\* against are those that passed, with both changes of clock, its name is its
\* own, and that of a quarter is the quarter's (CalendarIsRight).
THEOREM CalendarRight == CalendarSpec => []CalendarIsRight
<1>1. CalendarSpec => [](Walk /\ Counted)
  <2>1. CalendarInit => Walk /\ Counted
    BY InitWalk, InitCounted
  <2>2. Walk /\ Counted /\ [Pass]_calendar => (Walk /\ Counted)'
    BY WalkStep, CountedStep
  <2> QED
    BY <2>1, <2>2, PTL DEF CalendarSpec
<1>2. Walk /\ Counted => CalendarIsRight
  BY CountIsRight, StemsDiffer, QuarterNamed DEF CalendarIsRight
<1> QED
  BY <1>1, <1>2, PTL

-----------------------------------------------------------------------------
(* What a bill promises. A quiet bill is complete because rows are keyed   *)
(* by meter, direction, segment and slot: as many rows as the period has   *)
(* slots are one row for each slot. A bill is whole because its .part was, *)
(* and stays as it was handed over because whoever begins later sees it:   *)
(* FilesInv follows the .part and the bill through the phases of the       *)
(* exports, as many as there are.                                          *)

Pcs == {"idle", "query", "open", "write", "replace"}

\* The shape of the records; the amounts are whatever they are.
IsExporter(x) == x \in [pc : Pcs, force : BOOLEAN, amounts : {x.amounts},
                        warned : BOOLEAN]

IsFile(x) == x \in [open : SUBSET Exporters, mixed : BOOLEAN, alone : BOOLEAN,
                    whole : BOOLEAN, amounts : {x.amounts}]

Shapes == /\ energy \in [Rows -> Nat \cup {Absent}]
          /\ DOMAIN exporter = Exporters
          /\ \A e \in Exporters : IsExporter(exporter[e])

LEMMA ExporterTurns ==
    ASSUME NEW x, IsExporter(x), NEW c \in Pcs
    PROVE  /\ IsExporter([x EXCEPT !.pc = c])
           /\ [x EXCEPT !.pc = c].pc = c
           /\ [x EXCEPT !.pc = c].force = x.force
           /\ [x EXCEPT !.pc = c].amounts = x.amounts
           /\ [x EXCEPT !.pc = c].warned = x.warned
  BY DEF IsExporter

LEMMA FreshIs == /\ IsExporter(Fresh) /\ Fresh.pc = "idle"
                 /\ \A force \in BOOLEAN :
                      LET x == [Fresh EXCEPT !.pc = "query", !.force = force]
                      IN IsExporter(x) /\ x.pc = "query" /\ x.force = force
  BY DEF Fresh, IsExporter, Pcs

Turn(e) == OpenPart(e) \/ Write(e)

Leaves(e) == Replace(e) \/ Crash(e)

LEMMA ShapesStep ==
    ASSUME Shapes, [Next]_vars
    PROVE  Shapes'
<1> USE DEF Shapes
<1>1. ASSUME NEW k \in Rows, Deliver(k)
      PROVE  Shapes'
  <2>1. energy[k] + 1 \in Nat \cup {Absent}
    BY DEF Absent
  <2> QED
    BY <1>1, <2>1 DEF Deliver
<1>2. ASSUME NEW e \in Exporters, NEW force \in BOOLEAN, Begin(e, force)
      PROVE  Shapes'
  <2> DEFINE x == [Fresh EXCEPT !.pc = "query", !.force = force]
  <2>1. IsExporter(x)
    BY FreshIs
  <2>2. exporter' = exporter \/ exporter' = [exporter EXCEPT ![e] = x]
    BY <1>2 DEF Begin
  <2>3. energy' = energy
    BY <1>2 DEF Begin
  <2> HIDE DEF x
  <2> QED
    BY <2>1, <2>2, <2>3
<1>3. ASSUME NEW e \in Exporters, Query(e)
      PROVE  Shapes'
  <2> DEFINE a == [line \in Meters \X Segments |-> Total(line[1], line[2])]
             w == \E line \in Meters \X Segments :
                    Cardinality(Billed(line[1], line[2])) < Cardinality(Period)
  <2>1. exporter' = [exporter EXCEPT ![e].pc = "open", ![e].amounts = a,
                                     ![e].warned = w]
    BY <1>3 DEF Query
  <2>2. w \in BOOLEAN
    OBVIOUS
  <2>3. energy' = energy
    BY <1>3 DEF Query
  <2> HIDE DEF a, w
  <2> QED
    BY <2>1, <2>2, <2>3 DEF IsExporter, Pcs
<1>4. ASSUME NEW e \in Exporters, Turn(e)
      PROVE  Shapes'
  <2>1. \E c \in Pcs : exporter' = [exporter EXCEPT ![e].pc = c]
    BY <1>4 DEF Turn, OpenPart, Write, Pcs
  <2>2. energy' = energy
    BY <1>4 DEF Turn, OpenPart, Write
  <2> QED
    BY <2>1, <2>2, ExporterTurns
<1>5. ASSUME NEW e \in Exporters, Leaves(e)
      PROVE  Shapes'
  BY <1>5, FreshIs DEF Leaves, Replace, Crash
<1>6. CASE HandOver \/ UNCHANGED vars
  BY <1>6 DEF HandOver, vars
<1> QED
  BY <1>1, <1>2, <1>3, <1>4, <1>5, <1>6 DEF Next, Turn, Leaves

LEMMA InitShapes == Init => Shapes
<1> SUFFICES ASSUME Init PROVE Shapes
  OBVIOUS
<1>1. energy \in [Rows -> Nat \cup {Absent}]
  <2>1. {Absent, 1} \subseteq Nat \cup {Absent}
    OBVIOUS
  <2> QED
    BY <2>1 DEF Init
<1>2. exporter = [e \in Exporters |-> Fresh]
  BY DEF Init
<1> QED
  BY <1>1, <1>2, FreshIs DEF Shapes

-----------------------------------------------------------------------------
(* A bill that says nothing is complete.                                   *)

\* No row is missing where there are as many as slots.
LEMMA CountedIsComplete ==
    ASSUME NEW m, NEW s, Cardinality(Billed(m, s)) >= Cardinality(Period),
           NEW t \in Period
    PROVE  \E k \in Billed(m, s) :
              k = [meter |-> m, direction |-> Role[m], segment |-> s, slot |-> t]
<1> DEFINE S == Billed(m, s)
           slot == [k \in S |-> k.slot]
<1>1. /\ \A k \in S : k = [meter |-> m, direction |-> Role[m], segment |-> s,
                           slot |-> k.slot]
      /\ \A k \in S : k.slot \in Period
  BY RowsAssumption DEF Billed
<1>2. slot \in Injection(S, Period)
  <2>1. slot \in [S -> Period]
    BY <1>1
  <2>2. \A j, k \in S : slot[j] = slot[k] => j = k
    BY <1>1
  <2> HIDE DEF S, slot
  <2> QED
    BY <2>1, <2>2 DEF Injection, IsInjective
<1>3. IsFiniteSet(S) /\ Cardinality(S) \in Nat
  BY RowsAssumption, FS_Subset, FS_CardinalityType DEF Billed
<1>4. IsFiniteSet(Period) /\ Cardinality(Period) \in Nat
  BY RowsAssumption, FS_CardinalityType
<1>5. Cardinality(S) = Cardinality(Period)
  BY <1>2, <1>3, <1>4, FS_Injection
<1>6. slot \in Surjection(S, Period)
  BY <1>2, <1>4, <1>5, FS_Injection
<1>7. PICK k \in S : slot[k] = t
  BY <1>6 DEF Surjection
<1> QED
  BY <1>1, <1>7

LEMMA QuietStep ==
    ASSUME Shapes, QuietBillIsComplete, [Next]_vars
    PROVE  QuietBillIsComplete'
<1> DEFINE Complete == \A m \in Meters, s \in Segments, t \in Period :
             \E k \in Rows : /\ energy[k] # Absent
                             /\ k = [meter |-> m, direction |-> Role[m],
                                     segment |-> s, slot |-> t]
           Asks(x) == x.pc \in {"open", "write", "replace"} /\ ~x.warned
<1> USE DEF QuietBillIsComplete
<1>1. ASSUME NEW k \in Rows, Deliver(k)
      PROVE  QuietBillIsComplete'
  <2>1. \A j \in Rows : energy[j] # Absent => energy'[j] # Absent
    BY <1>1 DEF Deliver, Shapes, Absent
  <2>2. Complete => Complete'
    BY <2>1
  <2>3. exporter' = exporter
    BY <1>1 DEF Deliver
  <2> QED
    BY <2>2, <2>3
<1>2. ASSUME NEW e \in Exporters, energy' = energy,
             \A d \in Exporters : Asks(exporter'[d]) => Asks(exporter[d])
      PROVE  QuietBillIsComplete'
  BY <1>2
<1>3. ASSUME NEW e \in Exporters, NEW force \in BOOLEAN, Begin(e, force)
      PROVE  QuietBillIsComplete'
  <2> DEFINE x == [Fresh EXCEPT !.pc = "query", !.force = force]
  <2>1. x.pc = "query"
    BY FreshIs
  <2>2. exporter' = exporter \/ exporter' = [exporter EXCEPT ![e] = x]
    BY <1>3 DEF Begin
  <2>3. energy' = energy
    BY <1>3 DEF Begin
  <2> HIDE DEF x
  <2>4. \A d \in Exporters : Asks(exporter'[d]) => Asks(exporter[d])
    BY <2>1, <2>2 DEF Shapes
  <2> QED
    BY <1>2, <2>3, <2>4
<1>4. ASSUME NEW e \in Exporters, Query(e)
      PROVE  QuietBillIsComplete'
  <2>1. energy' = energy
    BY <1>4 DEF Query
  <2>2. \A d \in Exporters : d # e => exporter'[d] = exporter[d]
    BY <1>4 DEF Query, Shapes
  <2>3. ASSUME ~exporter'[e].warned PROVE Complete
    <3> SUFFICES ASSUME NEW m \in Meters, NEW s \in Segments, NEW t \in Period
                 PROVE  \E k \in Rows :
                           /\ energy[k] # Absent
                           /\ k = [meter |-> m, direction |-> Role[m],
                                   segment |-> s, slot |-> t]
      OBVIOUS
    <3>1. exporter'[e].warned = \E line \in Meters \X Segments :
             Cardinality(Billed(line[1], line[2])) < Cardinality(Period)
      BY <1>4 DEF Query, Shapes, IsExporter
    <3>2. ~(Cardinality(Billed(m, s)) < Cardinality(Period))
      <4>1. <<m, s>> \in Meters \X Segments
        OBVIOUS
      <4> QED
        BY <2>3, <3>1, <4>1
    <3>3. Cardinality(Billed(m, s)) >= Cardinality(Period)
      BY <3>2, RowsAssumption, FS_Subset, FS_CardinalityType DEF Billed
    <3>4. PICK k \in Billed(m, s) :
             k = [meter |-> m, direction |-> Role[m], segment |-> s, slot |-> t]
      BY <3>3, CountedIsComplete
    <3>5. k \in Rows /\ energy[k] # Absent
      BY DEF Billed
    <3> QED
      BY <3>4, <3>5
  <2> QED
    BY <2>1, <2>2, <2>3
<1>5. ASSUME NEW e \in Exporters, Turn(e)
      PROVE  QuietBillIsComplete'
  <2>1. /\ energy' = energy /\ exporter[e].pc \in {"open", "write"}
        /\ \E c \in Pcs : exporter' = [exporter EXCEPT ![e].pc = c]
    BY <1>5 DEF Turn, OpenPart, Write, Pcs
  <2>2. \A d \in Exporters : Asks(exporter'[d]) => Asks(exporter[d])
    BY <2>1, ExporterTurns DEF Shapes
  <2> QED
    BY <1>2, <2>1, <2>2
<1>6. ASSUME NEW e \in Exporters, Leaves(e)
      PROVE  QuietBillIsComplete'
  <2>1. energy' = energy /\ exporter' = [exporter EXCEPT ![e] = Fresh]
    BY <1>6 DEF Leaves, Replace, Crash
  <2>2. \A d \in Exporters : Asks(exporter'[d]) => Asks(exporter[d])
    BY <2>1, FreshIs DEF Shapes
  <2> QED
    BY <1>2, <2>1, <2>2
<1>7. CASE HandOver \/ UNCHANGED vars
  BY <1>7 DEF HandOver, vars
<1> QED
  BY <1>1, <1>3, <1>4, <1>5, <1>6, <1>7 DEF Next, Turn, Leaves

\* An export that says nothing of incomplete data billed every slot of the
\* period for every declared meter, however many exports run together.
THEOREM QuietBillComplete == Spec => []QuietBillIsComplete
<1>1. Init => Shapes /\ QuietBillIsComplete
  BY InitShapes, FreshIs DEF Init, QuietBillIsComplete
<1>2. Shapes /\ QuietBillIsComplete /\ [Next]_vars
        => Shapes' /\ QuietBillIsComplete'
  BY ShapesStep, QuietStep
<1> QED
  BY <1>1, <1>2, PTL DEF Spec

-----------------------------------------------------------------------------
(* The .part and the bill, however many export together.                   *)

FilesInv ==
    /\ part # NoFile => IsFile(part)
    /\ bill # NoFile => IsFile(bill)
    /\ \A e \in Exporters : e \in Holders(part) \cup Holders(bill)
                            => exporter[e].pc = "write"
    \* A .part that one export had for itself is no other's.
    /\ part # NoFile /\ part.alone = TRUE =>
         /\ part.mixed = FALSE
         /\ \A d, e \in Exporters : AtTheFiles(d) /\ AtTheFiles(e) => d = e
         /\ \A e \in Exporters :
              /\ exporter[e].pc = "write" => e \in Holders(part)
              /\ exporter[e].pc = "replace" => part.whole = TRUE
    /\ bill # NoFile /\ bill.alone = TRUE => bill.whole = TRUE /\ Holders(bill) = {}

LEMMA FilesAreWhole == FilesInv => BillIsWhole
<1> SUFFICES ASSUME FilesInv, bill # NoFile, bill.alone PROVE bill.whole
  BY DEF BillIsWhole
<1>1. bill.alone \in BOOLEAN /\ bill.whole \in BOOLEAN
  BY DEF FilesInv, IsFile
<1>2. bill.alone = TRUE
  BY <1>1, Zenon
<1>3. bill.whole = TRUE
  BY <1>2 DEF FilesInv
<1> QED
  BY <1>3, Zenon

LEMMA InitFiles == Init => FilesInv
  BY FreshIs DEF Init, FilesInv, Holders

LEMMA OpenForIs ==
    ASSUME NEW e \in Exporters, NEW file, file # NoFile => IsFile(file)
    PROVE  /\ OpenFor(e, file) # NoFile /\ IsFile(OpenFor(e, file))
           /\ OpenFor(e, file).open = Holders(file) \cup {e}
           /\ Holders(file) = {} => OpenFor(e, file).mixed = FALSE
           /\ OpenFor(e, file).alone = TRUE
                => \A d \in Exporters \ {e} : ~AtTheFiles(d)
<1>1. Holders(file) \cup {e} \in SUBSET Exporters
  BY DEF Holders, IsFile
<1>2. (Holders(file) # {}) \in BOOLEAN /\ Nothing \in Amounts
  BY DEF Nothing, Amounts
<1>3. OpenFor(e, file) \in File
  BY <1>1, <1>2 DEF OpenFor, File
<1>4. OpenFor(e, file).alone = (\A d \in Exporters \ {e} : ~AtTheFiles(d))
  BY DEF OpenFor
<1>5. OpenFor(e, file).alone = TRUE => \A d \in Exporters \ {e} : ~AtTheFiles(d)
  BY <1>4, Zenon
<1> QED
  BY <1>1, <1>2, <1>3, <1>5, NoFileAssumption DEF OpenFor, IsFile

\* Writing to a file, or dying over it, lets go of it and of no other.
LEMMA LetsGo ==
    ASSUME NEW e \in Exporters, NEW file, file # NoFile => IsFile(file),
           NEW f, f \in Written(e, file) \/ f = Closed(e, file)
    PROVE  /\ f # NoFile =>
                /\ file # NoFile /\ IsFile(f) /\ f.alone = file.alone
                /\ f.mixed = file.mixed
                /\ f.whole = file.whole \/ f \in Written(e, file)
           /\ Holders(f) \subseteq Holders(file) \ {e}
           /\ e \notin Holders(file) => f = file
<1>1. CASE file = NoFile
  BY <1>1 DEF Written, Closed, Holders
<1>2. CASE file # NoFile /\ f = Closed(e, file)
  <2>1. IsFile(f) /\ f.open = file.open \ {e} /\ f.whole = file.whole
        /\ f.alone = file.alone /\ f.mixed = file.mixed
    BY <1>2 DEF Closed, IsFile
  <2>2. e \notin Holders(file) => f = file
    BY <1>2 DEF Closed, IsFile, Holders
  <2> QED
    BY <1>2, <2>1, <2>2 DEF Holders
<1>3. CASE f \in Written(e, file) /\ e \notin Holders(file)
  <2>1. f = file
    BY <1>3 DEF Written
  <2> QED
    BY <1>3, <2>1
<1>4. CASE file # NoFile /\ f \in Written(e, file) /\ e \in Holders(file)
  <2>1. PICK w \in BOOLEAN :
           f = [file EXCEPT !.open = @ \ {e}, !.amounts = exporter[e].amounts,
                            !.whole = w]
    BY <1>4 DEF Written
  <2>2. IsFile(f) /\ f.open = file.open \ {e}
        /\ f.alone = file.alone /\ f.mixed = file.mixed
    BY <1>4, <2>1 DEF IsFile
  <2> QED
    BY <1>4, <2>2 DEF Holders
<1> QED
  BY <1>1, <1>2, <1>3, <1>4 DEF Holders

LEMMA WritesWhole ==
    ASSUME NEW e \in Exporters, NEW file, file # NoFile => IsFile(file),
           e \in Holders(file), file.mixed = FALSE, NEW f \in Written(e, file)
    PROVE  f.whole = TRUE
<1>1. file # NoFile
  BY DEF Holders
<1>2. f = [file EXCEPT !.open = @ \ {e}, !.amounts = exporter[e].amounts,
                       !.whole = TRUE]
  BY DEF Written
<1> QED
  BY <1>1, <1>2 DEF IsFile

\* What is kept of the files is kept while no export gets to them or leaves.
LEMMA FilesFrame ==
    ASSUME FilesInv, UNCHANGED <<part, bill>>,
           \A e \in Exporters : \/ exporter'[e].pc = exporter[e].pc
                                \/ ~AtTheFiles(e) /\ ~AtTheFiles(e)'
    PROVE  FilesInv'
<1> USE DEF FilesInv
<1>1. Holders(part)' = Holders(part) /\ Holders(bill)' = Holders(bill)
  BY DEF Holders
<1>2. \A e \in Exporters :
         /\ exporter[e].pc = "write" <=> exporter'[e].pc = "write"
         /\ exporter[e].pc = "replace" <=> exporter'[e].pc = "replace"
         /\ AtTheFiles(e) <=> AtTheFiles(e)'
  BY DEF AtTheFiles
<1> HIDE DEF AtTheFiles
<1> QED
  BY <1>1, <1>2

LEMMA FilesStep ==
    ASSUME Shapes, FilesInv, [Next]_vars
    PROVE  FilesInv'
<1>1. ASSUME NEW k \in Rows, Deliver(k)
      PROVE  FilesInv'
  BY <1>1, FilesFrame DEF Deliver
<1>2. CASE HandOver
  BY <1>2, FilesFrame DEF HandOver
<1>3. ASSUME NEW e \in Exporters, NEW force \in BOOLEAN, Begin(e, force)
      PROVE  FilesInv'
  <2> DEFINE x == [Fresh EXCEPT !.pc = "query", !.force = force]
  <2>1. x.pc = "query"
    BY FreshIs
  <2>2. /\ UNCHANGED <<part, bill>> /\ exporter[e].pc = "idle"
        /\ exporter' = exporter \/ exporter' = [exporter EXCEPT ![e] = x]
    BY <1>3 DEF Begin
  <2> HIDE DEF x
  <2>3. \A d \in Exporters : \/ exporter'[d].pc = exporter[d].pc
                             \/ ~AtTheFiles(d) /\ ~AtTheFiles(d)'
    BY <2>1, <2>2 DEF Shapes, AtTheFiles
  <2> QED
    BY <2>2, <2>3, FilesFrame
<1>4. ASSUME NEW e \in Exporters, Query(e)
      PROVE  FilesInv'
  <2>1. /\ UNCHANGED <<part, bill>> /\ exporter[e].pc = "query"
        /\ exporter'[e].pc = "open"
        /\ \A d \in Exporters \ {e} : exporter'[d] = exporter[d]
    BY <1>4 DEF Query, Shapes, IsExporter
  <2>2. \A d \in Exporters : \/ exporter'[d].pc = exporter[d].pc
                             \/ ~AtTheFiles(d) /\ ~AtTheFiles(d)'
    BY <2>1 DEF AtTheFiles
  <2> QED
    BY <2>1, <2>2, FilesFrame
<1>5. ASSUME NEW e \in Exporters, OpenPart(e)
      PROVE  FilesInv'
  <2>1. /\ part' = OpenFor(e, part) /\ bill' = bill /\ exporter[e].pc = "open"
        /\ exporter'[e].pc = "write"
        /\ \A d \in Exporters \ {e} : exporter'[d] = exporter[d]
    BY <1>5 DEF OpenPart, Shapes, IsExporter
  <2>2. /\ part' # NoFile /\ IsFile(part') /\ Holders(part)' = Holders(part) \cup {e}
        /\ Holders(part) = {} => part'.mixed = FALSE
        /\ part'.alone = TRUE => \A d \in Exporters \ {e} : ~AtTheFiles(d)
    BY <2>1, OpenForIs DEF FilesInv, Holders
  <2>3. Holders(bill)' = Holders(bill)
    BY <2>1 DEF Holders
  <2>4. \A d \in Exporters : d \in Holders(part)' \cup Holders(bill)'
                             => exporter'[d].pc = "write"
    BY <2>1, <2>2, <2>3 DEF FilesInv
  <2>5. ASSUME part'.alone = TRUE
        PROVE  /\ part'.mixed = FALSE
               /\ \A d \in Exporters : AtTheFiles(d)' => d = e
    <3>1. \A d \in Exporters \ {e} : ~AtTheFiles(d)
      BY <2>2, <2>5
    <3>2. \A d \in Exporters : d \notin Holders(part)
      BY <2>1, <3>1 DEF FilesInv, AtTheFiles
    <3>3. Holders(part) = {}
      BY <3>2 DEF FilesInv, Holders, IsFile
    <3> QED
      BY <2>1, <2>2, <3>1, <3>3 DEF AtTheFiles
  <2> QED
    BY <2>1, <2>2, <2>3, <2>4, <2>5 DEF FilesInv, AtTheFiles
<1>6. ASSUME NEW e \in Exporters, Write(e)
      PROVE  FilesInv'
  <2>1. /\ part' \in Written(e, part) /\ bill' \in Written(e, bill)
        /\ exporter[e].pc = "write" /\ exporter'[e].pc = "replace"
        /\ \A d \in Exporters \ {e} : exporter'[d] = exporter[d]
    BY <1>6 DEF Write, Shapes, IsExporter
  <2>2. /\ part' # NoFile => /\ part # NoFile /\ IsFile(part')
                             /\ part'.alone = part.alone /\ part'.mixed = part.mixed
        /\ Holders(part)' \subseteq Holders(part) \ {e}
    BY <2>1, LetsGo DEF FilesInv, Holders
  <2>3. /\ bill' # NoFile => /\ bill # NoFile /\ IsFile(bill')
                             /\ bill'.alone = bill.alone
        /\ Holders(bill)' \subseteq Holders(bill) \ {e}
        /\ e \notin Holders(bill) => bill' = bill
    BY <2>1, LetsGo DEF FilesInv, Holders
  <2>4. \A d \in Exporters : d \in Holders(part)' \cup Holders(bill)'
                             => exporter'[d].pc = "write"
    BY <2>1, <2>2, <2>3 DEF FilesInv
  <2>5. ASSUME part' # NoFile, part'.alone = TRUE
        PROVE  /\ part'.mixed = FALSE /\ part'.whole = TRUE
               /\ \A d \in Exporters : AtTheFiles(d)' => d = e
    <3>1. part # NoFile /\ part.alone = TRUE /\ part.mixed = FALSE /\ e \in Holders(part)
      BY <2>1, <2>2, <2>5 DEF FilesInv
    <3>2. part'.whole = TRUE
      BY <2>1, <3>1, WritesWhole DEF FilesInv
    <3> QED
      BY <2>1, <2>2, <2>5, <3>1, <3>2 DEF FilesInv, AtTheFiles
  <2> QED
    BY <2>1, <2>2, <2>3, <2>4, <2>5 DEF FilesInv, AtTheFiles
<1>7. ASSUME NEW e \in Exporters, Replace(e)
      PROVE  FilesInv'
  <2>1. /\ exporter[e].pc = "replace" /\ exporter'[e].pc = "idle"
        /\ \A d \in Exporters \ {e} : exporter'[d] = exporter[d]
    BY <1>7, FreshIs DEF Replace, Shapes
  <2>2. CASE part = NoFile
    <3>1. part' = part /\ bill' = bill
      BY <1>7, <2>2 DEF Replace
    <3> QED
      BY <2>1, <2>2, <3>1 DEF FilesInv, Holders
  <2>3. CASE part # NoFile
    <3>1. part' = NoFile /\ bill' = part
      BY <1>7, <2>3 DEF Replace
    <3>2. Holders(part)' = {} /\ Holders(bill)' = Holders(part)
      BY <2>3, <3>1 DEF Holders
    <3>3. ASSUME part.alone = TRUE
          PROVE  part.whole = TRUE /\ Holders(part) = {}
      <4>1. \A d \in Exporters : d \notin Holders(part)
        BY <2>1, <2>3, <3>3 DEF FilesInv, AtTheFiles
      <4> QED
        BY <2>1, <2>3, <3>3, <4>1 DEF FilesInv, Holders, IsFile
    <3>4. \A d \in Exporters : d \in Holders(part) => exporter'[d].pc = "write"
      BY <2>1 DEF FilesInv
    <3> QED
      BY <2>3, <3>1, <3>2, <3>3, <3>4 DEF FilesInv
  <2> QED
    BY <2>2, <2>3
<1>8. ASSUME NEW e \in Exporters, Crash(e)
      PROVE  FilesInv'
  <2>1. /\ part' = Closed(e, part) /\ bill' = Closed(e, bill)
        /\ exporter'[e].pc = "idle"
        /\ \A d \in Exporters \ {e} : exporter'[d] = exporter[d]
    BY <1>8, FreshIs DEF Crash, Shapes
  <2>2. /\ part' # NoFile => /\ part # NoFile /\ IsFile(part')
                             /\ part'.alone = part.alone /\ part'.mixed = part.mixed
        /\ Holders(part)' \subseteq Holders(part) \ {e}
        /\ e \notin Holders(part) => part' = part
    BY <2>1, LetsGo DEF FilesInv, Holders
  <2>3. /\ bill' # NoFile => /\ bill # NoFile /\ IsFile(bill')
                             /\ bill'.alone = bill.alone
        /\ Holders(bill)' \subseteq Holders(bill) \ {e}
        /\ e \notin Holders(bill) => bill' = bill
    BY <2>1, LetsGo DEF FilesInv, Holders
  <2>4. \A d \in Exporters : d \in Holders(part)' \cup Holders(bill)'
                             => exporter'[d].pc = "write"
    BY <2>1, <2>2, <2>3 DEF FilesInv
  <2>5. ASSUME part' # NoFile, part'.alone = TRUE
        PROVE  /\ part'.mixed = FALSE
               /\ \A c, d \in Exporters : AtTheFiles(c)' /\ AtTheFiles(d)' => c = d
               /\ \A d \in Exporters :
                    /\ exporter'[d].pc = "write" => d \in Holders(part)'
                    /\ exporter'[d].pc = "replace" => part'.whole = TRUE
    <3>1. part # NoFile /\ part.alone = TRUE /\ part.mixed = FALSE
      BY <2>2, <2>5 DEF FilesInv
    <3>2. \A d \in Exporters : AtTheFiles(d)' => AtTheFiles(d) /\ d # e
      BY <2>1 DEF AtTheFiles
    <3>3. ASSUME NEW d \in Exporters, AtTheFiles(d)'
          PROVE  /\ exporter'[d].pc = "write" => d \in Holders(part)'
                 /\ exporter'[d].pc = "replace" => part'.whole = TRUE
      <4>1. ~AtTheFiles(e)
        BY <3>1, <3>2, <3>3 DEF FilesInv
      <4>2. e \notin Holders(part)
        BY <4>1 DEF FilesInv, AtTheFiles
      <4>3. part' = part /\ Holders(part)' = Holders(part)
        BY <2>2, <4>2 DEF Holders
      <4> QED
        BY <2>1, <3>1, <3>2, <3>3, <4>3 DEF FilesInv
    <3> QED
      BY <2>2, <2>5, <3>1, <3>2, <3>3 DEF FilesInv, AtTheFiles
  <2> QED
    BY <2>1, <2>2, <2>3, <2>4, <2>5 DEF FilesInv
<1>9. CASE UNCHANGED vars
  BY <1>9, FilesFrame DEF vars
<1> QED
  BY <1>1, <1>2, <1>3, <1>4, <1>5, <1>6, <1>7, <1>8, <1>9 DEF Next

LEMMA FilesInvariance == Spec => []FilesInv
<1>1. Init => Shapes /\ FilesInv
  BY InitShapes, InitFiles
<1>2. Shapes /\ FilesInv /\ [Next]_vars => Shapes' /\ FilesInv'
  BY ShapesStep, FilesStep
<1> QED
  BY <1>1, <1>2, PTL DEF Spec

\* A bill under its final name is never truncated, wherever exports die, unless
\* two of them were at the files together.
THEOREM BillWhole == Spec => []BillIsWhole
  BY FilesInvariance, FilesAreWhole, PTL

\* What was handed over between exports is kept: whoever begins later sees it.
Kept ==
    handed # NoFile /\ settled = TRUE /\ forced # TRUE =>
        /\ bill # NoFile /\ bill.whole = handed.whole /\ bill.amounts = handed.amounts
        /\ Holders(bill) = {}
        /\ \A e \in Exporters : Busy(e) => exporter[e].force = TRUE

LEMMA KeptFrame ==
    ASSUME Kept, UNCHANGED <<handed, bill>>, settled' = settled, forced' = forced,
           \A e \in Exporters : Busy(e)' => \/ Busy(e) /\ exporter'[e].force = exporter[e].force
                                            \/ exporter'[e].force = TRUE
                                            \/ bill = NoFile
    PROVE  Kept'
<1>1. Holders(bill)' = Holders(bill)
  BY DEF Holders
<1> QED
  BY <1>1 DEF Kept

LEMMA KeptStep ==
    ASSUME Shapes, FilesInv, Kept, [Next]_vars
    PROVE  Kept'
<1>1. ASSUME NEW k \in Rows, Deliver(k)
      PROVE  Kept'
  <2>1. UNCHANGED <<exporter, handed, bill>>
    BY <1>1 DEF Deliver
  <2>2. settled' = settled /\ forced' = forced
    BY <1>1, Zenon DEF Deliver
  <2> QED
    BY <2>1, <2>2, KeptFrame DEF Busy
<1>2. CASE HandOver
  <2>1. UNCHANGED <<exporter, bill>> /\ handed' = bill /\ bill # NoFile
    BY <1>2 DEF HandOver
  <2>2. settled' = (\A e \in Exporters : ~Busy(e))
    BY <1>2, Zenon DEF HandOver
  <2>3. ASSUME settled' = TRUE
        PROVE  \A e \in Exporters : ~Busy(e)
    BY <2>2, <2>3, Zenon
  <2>4. ASSUME \A e \in Exporters : ~Busy(e)
        PROVE  Holders(bill) = {}
    <3>1. \A e \in Exporters : e \notin Holders(bill)
      BY <2>4 DEF FilesInv, Busy
    <3> QED
      BY <3>1 DEF FilesInv, Holders, IsFile
  <2> QED
    BY <2>1, <2>3, <2>4 DEF Kept, Holders, Busy
<1>3. ASSUME NEW e \in Exporters, NEW force \in BOOLEAN, Begin(e, force)
      PROVE  Kept'
  <2> DEFINE x == [Fresh EXCEPT !.pc = "query", !.force = force]
  <2>1. x.force = force
    BY FreshIs
  <2>2. UNCHANGED <<bill, handed>>
    BY <1>3 DEF Begin
  <2>3. settled' = settled /\ forced' = forced
    BY <1>3, Zenon DEF Begin
  <2>4. \/ exporter' = exporter
        \/ /\ exporter' = [exporter EXCEPT ![e] = x]
           /\ bill = NoFile \/ force = TRUE
    BY <1>3 DEF Begin, Refused
  <2> HIDE DEF x
  <2> QED
    BY <2>1, <2>2, <2>3, <2>4, KeptFrame DEF Shapes, Busy
<1>4. ASSUME NEW e \in Exporters, Query(e)
      PROVE  Kept'
  <2>1. UNCHANGED <<bill, handed>> /\ Busy(e)
    BY <1>4 DEF Query, Busy
  <2>2. settled' = settled /\ forced' = forced
    BY <1>4, Zenon DEF Query
  <2>3. /\ exporter'[e].force = exporter[e].force
        /\ \A d \in Exporters \ {e} : exporter'[d] = exporter[d]
    BY <1>4 DEF Query, Shapes, IsExporter
  <2> QED
    BY <2>1, <2>2, <2>3, KeptFrame DEF Busy
<1>5. ASSUME NEW e \in Exporters, OpenPart(e)
      PROVE  Kept'
  <2>1. UNCHANGED <<bill, handed>> /\ Busy(e)
    BY <1>5 DEF OpenPart, Busy
  <2>2. settled' = settled /\ forced' = forced
    BY <1>5, Zenon DEF OpenPart
  <2>3. /\ exporter'[e].force = exporter[e].force
        /\ \A d \in Exporters \ {e} : exporter'[d] = exporter[d]
    BY <1>5 DEF OpenPart, Shapes, IsExporter
  <2> QED
    BY <2>1, <2>2, <2>3, KeptFrame DEF Busy
<1>6. ASSUME NEW e \in Exporters, Write(e)
      PROVE  Kept'
  <2>1. handed' = handed /\ bill' \in Written(e, bill) /\ Busy(e)
    BY <1>6 DEF Write, Busy
  <2>2. settled' = settled /\ forced' = forced
    BY <1>6, Zenon DEF Write
  <2>3. /\ exporter'[e].force = exporter[e].force
        /\ \A d \in Exporters \ {e} : exporter'[d] = exporter[d]
    BY <1>6 DEF Write, Shapes, IsExporter
  <2>4. CASE e \in Holders(bill)
    BY <2>1, <2>2, <2>4 DEF Kept
  <2>5. CASE e \notin Holders(bill)
    <3>1. bill' = bill
      BY <2>1, <2>5 DEF Written
    <3> QED
      BY <2>1, <2>2, <2>3, <3>1, KeptFrame DEF Busy
  <2> QED
    BY <2>4, <2>5
<1>7. ASSUME NEW e \in Exporters, Replace(e)
      PROVE  Kept'
  <2>1. /\ handed' = handed /\ Busy(e) /\ ~Busy(e)'
        /\ \A d \in Exporters \ {e} : exporter'[d] = exporter[d]
    BY <1>7, FreshIs DEF Replace, Shapes, Busy
  <2>2. settled' = settled
    BY <1>7, Zenon DEF Replace
  <2>3. CASE part = NoFile
    <3>1. bill' = bill
      BY <1>7, <2>3 DEF Replace
    <3>2. forced' = forced
      BY <1>7, <2>3, Zenon DEF Replace
    <3> QED
      BY <2>1, <2>2, <3>1, <3>2, KeptFrame DEF Busy
  <2>4. CASE part # NoFile
    <3>1. forced' = (forced \/ exporter[e].force)
      BY <1>7, <2>4, Zenon DEF Replace
    <3>2. ASSUME forced' # TRUE
          PROVE  forced # TRUE /\ exporter[e].force # TRUE
      BY <3>1, <3>2, Zenon
    <3> QED
      BY <2>1, <2>2, <3>2 DEF Kept
  <2> QED
    BY <2>3, <2>4
<1>8. ASSUME NEW e \in Exporters, Crash(e)
      PROVE  Kept'
  <2>1. /\ handed' = handed /\ bill' = Closed(e, bill) /\ ~Busy(e)'
        /\ \A d \in Exporters \ {e} : exporter'[d] = exporter[d]
    BY <1>8, FreshIs DEF Crash, Shapes, Busy
  <2>2. settled' = settled /\ forced' = forced
    BY <1>8, Zenon DEF Crash
  <2>3. CASE e \in Holders(bill)
    BY <2>1, <2>2, <2>3 DEF Kept
  <2>4. CASE e \notin Holders(bill)
    <3>1. bill' = bill
      BY <2>1, <2>4, LetsGo DEF FilesInv
    <3> QED
      BY <2>1, <2>2, <3>1, KeptFrame DEF Busy
  <2> QED
    BY <2>3, <2>4
<1>9. CASE UNCHANGED vars
  <2>1. UNCHANGED <<exporter, handed, bill>>
    BY <1>9 DEF vars
  <2>2. settled' = settled /\ forced' = forced
    BY <1>9, Zenon DEF vars
  <2> QED
    BY <2>1, <2>2, KeptFrame DEF Busy
<1> QED
  BY <1>1, <1>2, <1>3, <1>4, <1>5, <1>6, <1>7, <1>8, <1>9 DEF Next

\* What accounting took while nothing was being exported is what the bill says
\* until --force replaces it, however many exports are begun later: the test for
\* the file is as good as a lock against them.
THEOREM HandedOverKept == Spec => []HandedOverStays
<1>1. Init => Shapes /\ FilesInv /\ Kept
  BY InitShapes, InitFiles DEF Init, Kept
<1>2. Shapes /\ FilesInv /\ Kept /\ [Next]_vars => Shapes' /\ FilesInv' /\ Kept'
  BY ShapesStep, FilesStep, KeptStep
<1>3. Kept => HandedOverStays
  <2> SUFFICES ASSUME Kept, handed # NoFile, settled, ~forced
               PROVE  bill.whole = handed.whole /\ bill.amounts = handed.amounts
    BY DEF HandedOverStays
  <2>1. settled # FALSE /\ forced # TRUE
    BY Zenon
  <2>2. settled = TRUE
    BY Zenon
  <2> QED
    BY <2>1, <2>2, Zenon DEF Kept
<1> QED
  BY <1>1, <1>2, <1>3, PTL DEF Spec

-----------------------------------------------------------------------------
(* Types: a line of the bill is a sum, a natural number.                   *)

LEMMA TotalIsNat ==
    ASSUME energy \in [Rows -> Nat \cup {Absent}], NEW m, NEW s
    PROVE  Total(m, s) \in Nat
<1>1. IsFiniteSet(Billed(m, s))
  BY RowsAssumption, FS_Subset DEF Billed
<1>2. \A k \in Billed(m, s) : energy[k] \in Nat
  BY DEF Billed
<1>3. Total(m, s) = SumOf(energy, Billed(m, s))
  BY DEF Total, SumOf
<1> QED
  BY <1>1, <1>2, <1>3, SumOfNat

LEMMA InitTypeOK == Init => TypeOK
<1> SUFFICES ASSUME Init PROVE TypeOK
  OBVIOUS
<1>1. energy \in [Rows -> Nat \cup {Absent}]
  BY InitShapes DEF Shapes
<1>2. Fresh \in Exporter
  BY DEF Fresh, Exporter, Amounts, Nothing
<1>3. exporter \in [Exporters -> Exporter]
  BY <1>2 DEF Init
<1>4. forced \in BOOLEAN /\ settled \in BOOLEAN
  BY Zenon DEF Init
<1>5. deliveries \in 0 .. MaxDeliveries /\ exports \in 0 .. MaxExports
  BY BoundsAssumption DEF Init
<1>6. part = NoFile /\ bill = NoFile /\ handed = NoFile
  BY DEF Init
<1> QED
  BY <1>1, <1>3, <1>4, <1>5, <1>6 DEF TypeOK

\* A file written, closed or opened is one.
LEMMA FilesAre ==
    ASSUME NEW file \in File \cup {NoFile}, NEW e \in Exporters,
           exporter[e] \in Exporter
    PROVE  /\ OpenFor(e, file) \in File
           /\ Written(e, file) \subseteq File \cup {NoFile}
           /\ Closed(e, file) \in File \cup {NoFile}
<1>1. Holders(file) \subseteq Exporters
  BY DEF Holders, File
<1>2. OpenFor(e, file) \in File
  BY <1>1 DEF OpenFor, File, Amounts, Nothing
<1>3. CASE file = NoFile
  BY <1>2, <1>3 DEF Written, Closed, Holders
<1>4. CASE file \in File
  <2>1. exporter[e].amounts \in Amounts
    BY DEF Exporter
  <2> DEFINE closed == [file EXCEPT !.open = @ \ {e}]
             written(w) == [file EXCEPT !.open = @ \ {e},
                                        !.amounts = exporter[e].amounts, !.whole = w]
  <2>2. closed \in File
    BY <1>4 DEF File
  <2>3. \A w \in BOOLEAN : written(w) \in File
    BY <1>4, <2>1 DEF File
  <2>4. Closed(e, file) \in File \cup {NoFile}
    BY <2>2 DEF Closed
  <2>5. Written(e, file) \subseteq {file} \cup {written(w) : w \in BOOLEAN}
    BY DEF Written
  <2> HIDE DEF written
  <2> QED
    BY <1>2, <1>4, <2>3, <2>4, <2>5
<1> QED
  BY <1>3, <1>4

LEMMA StepTypeOK == TypeOK /\ [Next]_vars => TypeOK'
<1> SUFFICES ASSUME TypeOK, [Next]_vars PROVE TypeOK'
  OBVIOUS
<1>0. /\ energy \in [Rows -> Nat \cup {Absent}]
      /\ exporter \in [Exporters -> Exporter]
      /\ part \in File \cup {NoFile}
      /\ bill \in File \cup {NoFile}
      /\ handed \in File \cup {NoFile}
      /\ forced \in BOOLEAN
      /\ settled \in BOOLEAN
      /\ deliveries \in 0 .. MaxDeliveries
      /\ exports \in 0 .. MaxExports
  BY DEF TypeOK
<1>f. Fresh \in Exporter
  BY DEF Fresh, Exporter, Amounts, Nothing
<1>1. ASSUME NEW k \in Rows, Deliver(k) PROVE TypeOK'
  <2>1. energy[k] + 1 \in Nat \cup {Absent}
    BY <1>0 DEF Absent
  <2>2. energy' \in [Rows -> Nat \cup {Absent}]
    BY <1>0, <1>1, <2>1 DEF Deliver
  <2> QED
    BY <1>0, <1>1, <2>2, BoundsAssumption DEF Deliver, TypeOK
<1>2. CASE HandOver
  <2>1. settled' \in BOOLEAN
    BY <1>2, Zenon DEF HandOver
  <2> QED
    BY <1>0, <1>2, <2>1 DEF HandOver, TypeOK
<1>3. ASSUME NEW e \in Exporters, NEW force \in BOOLEAN, Begin(e, force) PROVE TypeOK'
  <2> DEFINE x == [Fresh EXCEPT !.pc = "query", !.force = force]
  <2>1. x \in Exporter
    BY <1>f DEF Exporter
  <2>2. exporter' = exporter \/ exporter' = [exporter EXCEPT ![e] = x]
    BY <1>3 DEF Begin
  <2> HIDE DEF x
  <2>3. exporter' \in [Exporters -> Exporter]
    BY <1>0, <2>1, <2>2
  <2>4. exports' \in 0 .. MaxExports
    BY <1>0, <1>3, BoundsAssumption DEF Begin
  <2> QED
    BY <1>0, <1>3, <2>3, <2>4 DEF Begin, TypeOK
<1>4. ASSUME NEW e \in Exporters, Query(e) PROVE TypeOK'
  <2> DEFINE a == [line \in Meters \X Segments |-> Total(line[1], line[2])]
             w == \E line \in Meters \X Segments :
                    Cardinality(Billed(line[1], line[2])) < Cardinality(Period)
  <2>1. exporter' = [exporter EXCEPT ![e].pc = "open", ![e].amounts = a,
                                     ![e].warned = w]
    BY <1>4 DEF Query
  <2>2. a \in Amounts
    BY <1>0, TotalIsNat DEF Amounts
  <2>3. w \in BOOLEAN
    OBVIOUS
  <2> HIDE DEF a, w
  <2>4. exporter' \in [Exporters -> Exporter]
    BY <1>0, <2>1, <2>2, <2>3 DEF Exporter
  <2> QED
    BY <1>0, <1>4, <2>4 DEF Query, TypeOK
<1>5. ASSUME NEW e \in Exporters, OpenPart(e) PROVE TypeOK'
  <2>1. exporter' \in [Exporters -> Exporter]
    BY <1>0, <1>5 DEF OpenPart, Exporter
  <2> QED
    BY <1>0, <1>5, <2>1, FilesAre DEF OpenPart, TypeOK
<1>6. ASSUME NEW e \in Exporters, Write(e) PROVE TypeOK'
  <2>1. exporter' \in [Exporters -> Exporter]
    BY <1>0, <1>6 DEF Write, Exporter
  <2>2. part' \in File \cup {NoFile} /\ bill' \in File \cup {NoFile}
    BY <1>0, <1>6, FilesAre DEF Write
  <2> QED
    BY <1>0, <1>6, <2>1, <2>2 DEF Write, TypeOK
<1>7. ASSUME NEW e \in Exporters, Replace(e) PROVE TypeOK'
  <2>1. exporter' \in [Exporters -> Exporter]
    BY <1>0, <1>f, <1>7 DEF Replace
  <2>2. forced' \in BOOLEAN
    BY <1>0, <1>7 DEF Replace
  <2> QED
    BY <1>0, <1>7, <2>1, <2>2 DEF Replace, TypeOK
<1>8. ASSUME NEW e \in Exporters, Crash(e) PROVE TypeOK'
  <2>1. exporter' \in [Exporters -> Exporter]
    BY <1>0, <1>f, <1>8 DEF Crash
  <2>2. part' \in File \cup {NoFile} /\ bill' \in File \cup {NoFile}
    BY <1>0, <1>8, FilesAre DEF Crash
  <2> QED
    BY <1>0, <1>8, <2>1, <2>2 DEF Crash, TypeOK
<1>9. CASE UNCHANGED vars
  BY <1>0, <1>9 DEF vars, TypeOK
<1> QED
  BY <1>1, <1>2, <1>3, <1>4, <1>5, <1>6, <1>7, <1>8, <1>9 DEF Next

\* However many exports run together: the types of the state, for which a line
\* of the bill is a sum over the rows, and no partial bill unless two exports
\* were at the files together (BillIsSound). Of how complete it is see
\* QuietBillComplete.
THEOREM BillSound == Spec => []BillIsSound
<1>1. Spec => []TypeOK
  BY InitTypeOK, StepTypeOK, PTL DEF Spec
<1>2. FilesInv /\ TypeOK => BillIsSound
  BY FilesAreWhole DEF BillIsSound
<1> QED
  BY <1>1, <1>2, FilesInvariance, PTL

-----------------------------------------------------------------------------
(* The validation of a day, over any rows. What it was told of a pair is   *)
(* what the table holds as long as nothing was written since, and a pair   *)
(* that had rows has them for ever.                                        *)

Pair(i) == Pairs[i]
HeldBy(i) == CellsOf(Pair(i), Day)

Answers ==
    /\ DOMAIN sums = Asked
    /\ \A i \in 1 .. asked : sums[Pair(i)].count > 0 => HeldBy(i) # {}
    /\ quiet => \A i \in 1 .. asked :
                  sums[Pair(i)] = [total |-> SumOf(value, HeldBy(i)),
                                   count |-> Cardinality(HeldBy(i))]

Verdict ==
    exitCode \in 0 .. 2 =>
        /\ asked = 4
        /\ exitCode = IF Results = {} THEN 2
                      ELSE IF FALSE \in Results THEN 1 ELSE 0

JudgeInv == BalanceTypes /\ Answers /\ Verdict

LEMMA PairsAre ==
    /\ \A i \in 1 .. 4 : Pair(i) \in Asked
    /\ \A i, j \in 1 .. 4 : Pair(i) = Pair(j) => i = j
    /\ \A p \in Asked : \E i \in 1 .. 4 : p = Pair(i)
  BY DEF Pair, Pairs, Asked

\* The rows of a pair are finitely many, and their sum is a natural number.
LEMMA HeldIs ==
    ASSUME BalanceTypes, NEW p
    PROVE  LET S == CellsOf(p, Day) IN
           /\ IsFiniteSet(S) /\ Cardinality(S) \in Nat
           /\ Cardinality(S) = 0 <=> S = {}
           /\ TotalOf(S) \in Nat
<1> DEFINE S == CellsOf(p, Day)
<1>1. IsFiniteSet(S)
  BY FS_Subset, CellsAssumption DEF CellsOf
<1>2. \A k \in S : value[k] \in Nat
  <2>1. /\ value \in [Cells -> Values \cup {NotStored}] /\ S \subseteq Cells
        /\ \A k \in S : value[k] # NotStored
    BY DEF BalanceTypes, CellsOf
  <2>2. Values \subseteq Nat
    BY ValuesAssumption
  <2> HIDE DEF S
  <2> QED
    BY <2>1, <2>2
<1>3. TotalOf(S) = SumOf(value, S)
  BY DEF TotalOf, SumOf
<1> HIDE DEF S
<1>4. TotalOf(S) \in Nat
  BY <1>1, <1>2, <1>3, SumOfNat
<1> QED
  BY <1>1, <1>4, FS_EmptySet, FS_CardinalityType DEF S

\* What a pair holds is a matter of the values only.
LEMMA HeldStays ==
    ASSUME UNCHANGED value, NEW i \in 1 .. 4
    PROVE  HeldBy(i)' = HeldBy(i)
  BY DEF HeldBy, CellsOf

LEMMA InitJudgeInv == BalanceInit => JudgeInv
<1> SUFFICES ASSUME BalanceInit PROVE JudgeInv
  OBVIOUS
<1>1. BalanceTypes
  BY PairsAre, CommitsAssumption DEF BalanceInit, BalanceTypes, Pair
<1>2. Answers /\ Verdict
  BY DEF BalanceInit, Answers, Verdict
<1> QED
  BY <1>1, <1>2 DEF JudgeInv

LEMMA CommitJudges ==
    ASSUME JudgeInv, NEW k \in Cells, NEW v \in Values,
           Commit(k, v)
    PROVE  JudgeInv'
<1>1. BalanceTypes'
  BY CommitsAssumption DEF JudgeInv, Commit, BalanceTypes
<1>2. \A i \in 1 .. 4 : HeldBy(i) \subseteq HeldBy(i)'
  BY ValuesAssumption DEF JudgeInv, Commit, BalanceTypes, NotStored,
         HeldBy, CellsOf
<1>3. asked \in 0 .. 4 /\ UNCHANGED <<asked, sums, exitCode>>
  BY DEF JudgeInv, BalanceTypes, Commit
<1>4. quiet' => asked = 0
  BY DEF Commit
<1>5. Answers'
  BY <1>2, <1>3, <1>4 DEF JudgeInv, Answers
<1>6. Verdict'
  BY DEF Commit, Verdict
<1> QED
  BY <1>1, <1>5, <1>6 DEF JudgeInv

LEMMA QueryJudges ==
    ASSUME JudgeInv, Ask
    PROVE  JudgeInv'
<1> DEFINE answer == [total |-> SumOf(value, HeldBy(asked')),
                      count |-> Cardinality(HeldBy(asked'))]
<1>1. /\ asked \in 0 .. 3 /\ asked' = asked + 1 /\ exitCode = 4
      /\ sums' = [sums EXCEPT ![Pair(asked')] = answer]
      /\ UNCHANGED <<value, exitCode, quiet, commits>>
  BY DEF JudgeInv, BalanceTypes, Ask, Pair, HeldBy, TotalOf, SumOf
<1>2. /\ DOMAIN sums' = Asked
      /\ sums'[Pair(asked')] = answer
      /\ \A i \in 1 .. 4 : i # asked' => sums'[Pair(i)] = sums[Pair(i)]
  BY <1>1, PairsAre DEF JudgeInv, Answers
<1>3. ASSUME NEW i \in 1 .. 4
      PROVE  HeldBy(i)' = HeldBy(i)
  BY <1>1, HeldStays
<1>4. /\ answer.count \in Nat
      /\ answer.count > 0 => HeldBy(asked') # {}
  BY HeldIs DEF JudgeInv, HeldBy
<1>5. BalanceTypes'
  BY <1>1, <1>2, <1>4 DEF JudgeInv, BalanceTypes, Pair
<1>6. Answers'
  BY <1>1, <1>2, <1>3, <1>4 DEF JudgeInv, Answers
<1>7. Verdict'
  BY <1>1 DEF Verdict
<1> QED
  BY <1>5, <1>6, <1>7 DEF JudgeInv

\* The script ends without a verdict, with one, or nothing happens.
LEMMA EndsJudge ==
    ASSUME JudgeInv, AskFails \/ Decide \/ UNCHANGED balance
    PROVE  JudgeInv'
<1>1. UNCHANGED <<value, asked, sums, quiet, commits>>
  BY DEF AskFails, Decide, balance
<1>2. exitCode' \in 0 .. 4
  <2>1. CASE AskFails
    BY <2>1 DEF AskFails
  <2>2. CASE Decide
    BY <2>2 DEF Decide
  <2>3. CASE UNCHANGED balance
    BY <2>3 DEF JudgeInv, BalanceTypes, balance
  <2> QED
    BY <2>1, <2>2, <2>3
<1>3. BalanceTypes'
  BY <1>1, <1>2 DEF JudgeInv, BalanceTypes
<1>4. Answers'
  <2>1. \A i \in 1 .. 4 : HeldBy(i)' = HeldBy(i)
    BY <1>1, HeldStays
  <2>2. asked \in 0 .. 4
    BY DEF JudgeInv, BalanceTypes
  <2> QED
    BY <1>1, <2>1, <2>2 DEF JudgeInv, Answers
<1>5. Results' = Results
  BY <1>1 DEF Results, Reported, Sum, Count
<1>6. Verdict'
  <2>1. CASE AskFails
    BY <2>1 DEF AskFails, Verdict
  <2>2. CASE Decide
    BY <1>1, <1>5, <2>2 DEF Decide, Verdict
  <2>3. CASE UNCHANGED balance
    BY <1>1, <1>5, <2>3 DEF JudgeInv, Verdict, balance
  <2> QED
    BY <2>1, <2>2, <2>3
<1> QED
  BY <1>3, <1>4, <1>6 DEF JudgeInv

\* What was told of a pair once all four have been asked for.
LEMMA AllAnswered ==
    ASSUME JudgeInv, asked = 4, NEW t \in {"e66", "e31"},
           NEW d \in {"consumption", "production"}
    PROVE  /\ Count(t, d) \in Nat
           /\ Count(t, d) > 0 => CellsOf(<<t, d>>, Day) # {}
           /\ quiet => /\ Sum(t, d) = In(t, d)
                       /\ Count(t, d) > 0 <=> CellsOf(<<t, d>>, Day) # {}
           /\ In(t, d) \in Nat
<1>1. PICK i \in 1 .. 4 : Pair(i) = <<t, d>>
  BY DEF Pair, Pairs
<1>2. /\ sums[<<t, d>>].count \in Nat
      /\ sums[<<t, d>>].count > 0 => HeldBy(i) # {}
      /\ quiet => sums[<<t, d>>] = [total |-> SumOf(value, HeldBy(i)),
                                    count |-> Cardinality(HeldBy(i))]
  BY <1>1 DEF JudgeInv, BalanceTypes, Answers, Pair
<1>3. HeldBy(i) = CellsOf(<<t, d>>, Day)
  BY <1>1 DEF HeldBy
<1>4. /\ TotalOf(CellsOf(<<t, d>>, Day)) \in Nat
      /\ Cardinality(CellsOf(<<t, d>>, Day)) \in Nat
      /\ Cardinality(CellsOf(<<t, d>>, Day)) = 0 <=> CellsOf(<<t, d>>, Day) = {}
  BY HeldIs DEF JudgeInv
<1> QED
  BY <1>2, <1>3, <1>4 DEF Sum, Count, In, TotalOf, SumOf

\* Three tolerances: from E66 production over both consumptions to E31's.
LEMMA ThreeApart ==
    ASSUME NEW a \in Nat, NEW b \in Nat, NEW c \in Nat, NEW d \in Nat,
           Compare(a, b), Compare(a, c), Compare(c, d)
    PROVE  Apart(b, d) * 200
             =< 3 * Greater(Tolerance * 200, Greater(Greater(a, c), Greater(b, d)))
<1> DEFINE m == Greater(Tolerance * 200, Greater(Greater(a, c), Greater(b, d)))
<1>1. /\ m \in Nat /\ Tolerance * 200 =< m
      /\ a =< m /\ b =< m /\ c =< m /\ d =< m
  BY ValuesAssumption DEF Greater
<1>2. ASSUME NEW x \in Nat, NEW y \in Nat, Compare(x, y), x =< m, y =< m
      PROVE  (x - y) * 200 =< m /\ (y - x) * 200 =< m
  <2>1. Apart(x, y) * 200 =< m
    BY <1>1, <1>2, ValuesAssumption DEF Compare, Apart, Greater
  <2> HIDE DEF m
  <2> QED
    BY <1>1, <2>1 DEF Apart, Greater
<1> HIDE DEF m
<1>3. /\ (a - b) * 200 =< m /\ (b - a) * 200 =< m
      /\ (a - c) * 200 =< m /\ (c - a) * 200 =< m
      /\ (c - d) * 200 =< m /\ (d - c) * 200 =< m
  BY <1>1, <1>2
<1>4. Apart(b, d) * 200 =< 3 * m
  BY <1>1, <1>3 DEF Apart, Greater
<1> QED
  BY <1>4 DEF m

\* What the exit code says of the comparisons.
LEMMA Decided ==
    ASSUME JudgeInv, exitCode \in 0 .. 2
    PROVE  /\ asked = 4
           /\ exitCode \in {0, 1} => Results # {}
           /\ exitCode = 2 => Results = {}
           /\ exitCode = 0 => FALSE \notin Results
<1> DEFINE none == Results = {}
           bad == FALSE \in Results
<1>1. asked = 4 /\ exitCode = IF none THEN 2 ELSE IF bad THEN 1 ELSE 0
  BY DEF JudgeInv, Verdict
<1> HIDE DEF none, bad
<1>2. /\ exitCode \in {0, 1} => ~none
      /\ exitCode = 2 => none
      /\ exitCode = 0 => ~bad
  BY <1>1
<1> QED
  BY <1>1, <1>2, Zenon DEF none, bad

LEMMA JudgedRightly == JudgeInv => DayIsJudged
<1> SUFFICES ASSUME JudgeInv PROVE DayIsJudged
  OBVIOUS
<1>1. PassMeansTablesAgree
  <2> SUFFICES ASSUME exitCode = 0, quiet,
                      \A t \in {"e66", "e31"} : CellsOf(<<t, "consumption">>, Day) # {}
               PROVE  LET greatest ==
                        Greater(Greater(In("e66", "consumption"), In("e31", "consumption")),
                                Greater(In("e66", "production"), In("e31", "production")))
                      IN Apart(In("e66", "production"), In("e31", "production")) * 200
                           =< 3 * Greater(Tolerance * 200, greatest)
    BY Zenon DEF PassMeansTablesAgree
  <2>0. exitCode \in 0 .. 2
    OBVIOUS
  <2>1. asked = 4 /\ FALSE \notin Results
    BY <2>0, Decided, Zenon
  <2>2. \A t \in {"e66", "e31"}, d \in {"consumption", "production"} :
           /\ Count(t, d) \in Nat /\ In(t, d) \in Nat /\ Sum(t, d) = In(t, d)
           /\ Count(t, d) > 0 <=> CellsOf(<<t, d>>, Day) # {}
    BY <2>1, AllAnswered
  <2>3. "e66" \in Reported /\ "e31" \in Reported
    BY <2>2 DEF Reported
  <2>4. \A r \in Results : r # FALSE
    BY <2>1
  <2>5. /\ Compare(In("e66", "consumption"), In("e66", "production")) \in Results
        /\ Compare(In("e31", "consumption"), In("e31", "production")) \in Results
        /\ Compare(In("e66", "consumption"), In("e31", "consumption")) \in Results
    BY <2>2, <2>3 DEF Results
  <2>6. /\ Compare(In("e66", "consumption"), In("e66", "production"))
        /\ Compare(In("e31", "consumption"), In("e31", "production"))
        /\ Compare(In("e66", "consumption"), In("e31", "consumption"))
    BY <2>4, <2>5, Zenon DEF Compare
  <2> QED
    BY <2>2, <2>6, ThreeApart
<1>2. NoDataIsSaid
  <2>1. ASSUME exitCode \in {0, 1} PROVE Stored("e66") \/ Stored("e31")
    <3>0. exitCode \in 0 .. 2
      BY <2>1
    <3>1. asked = 4 /\ Results # {}
      BY <2>1, <3>0, Decided, Zenon
    <3>2. Reported # {} \/ Count("e66", "consumption") > 0
      BY <3>1 DEF Results
    <3>3. PICK t \in {"e66", "e31"}, d \in {"consumption", "production"} :
             Count(t, d) > 0
      BY <3>1, <3>2, AllAnswered DEF Reported
    <3> QED
      BY <3>1, <3>3, AllAnswered DEF Stored
  <2>2. ASSUME exitCode = 2, quiet PROVE ~Stored("e66") /\ ~Stored("e31")
    <3>0. exitCode \in 0 .. 2
      BY <2>2
    <3>1. asked = 4 /\ Results = {}
      BY <2>2, <3>0, Decided, Zenon
    <3>2. Reported = {}
      BY <3>1 DEF Results
    <3>3. \A t \in {"e66", "e31"}, d \in {"consumption", "production"} :
             /\ Count(t, d) \in Nat
             /\ Count(t, d) > 0 <=> CellsOf(<<t, d>>, Day) # {}
      BY <2>2, <3>1, AllAnswered
    <3>4. \A t \in {"e66", "e31"} : ~(Count(t, "consumption") + Count(t, "production") > 0)
      BY <3>2 DEF Reported
    <3> QED
      BY <3>3, <3>4 DEF Stored
  <2> QED
    BY <2>1, <2>2 DEF NoDataIsSaid
<1>3. MidnightCountedOnce
  BY CellsAssumption, DayAssumption DEF MidnightCountedOnce, CellsOf, InDay
<1> QED
  BY <1>1, <1>2, <1>3 DEF JudgeInv, DayIsJudged

\* For any rows, tolerance and writes meanwhile: a day that passes undisturbed
\* is one on which the tables agree within three tolerances on what is not
\* compared, and a day is called empty only when it is (DayIsJudged).
THEOREM DayJudged == BalanceSpec => []DayIsJudged
<1>1. JudgeInv /\ [BalanceNext]_balance => JudgeInv'
  BY CommitJudges, QueryJudges, EndsJudge DEF BalanceNext
<1> QED
  BY <1>1, InitJudgeInv, JudgedRightly, PTL DEF BalanceSpec

-----------------------------------------------------------------------------
(* The report of a delivery. What the tables hold is a function of the     *)
(* files that were written: of every key, the last of those that wrote it. *)

KeysOf(h) == DOMAIN EnergyRows(h)
TotalKeysOf(h) == DOMAIN CommunityRows(h)

Wrote(k) == {i \in Positions \ failures : k \in KeysOf(Header(i))}
WroteTotal(k) == {i \in Positions \ failures : k \in TotalKeysOf(Header(i))}

\* i is the last of them.
LastIn(S, i) == i \in S /\ \A j \in S : j =< i

TablesFollow ==
    /\ \A i \in Positions \ failures :
          /\ KeysOf(Header(i)) \subseteq DOMAIN celEnergy
          /\ TotalKeysOf(Header(i)) \subseteq DOMAIN community
    /\ \A k \in DOMAIN celEnergy : \E i \in Positions :
          LastIn(Wrote(k), i) /\ celEnergy[k] = Header(i).value
    /\ \A k \in DOMAIN community : \E i \in Positions :
          LastIn(WroteTotal(k), i) /\ community[k] = Header(i).value

ReportInv == ReportTypes /\ TablesFollow

\* The rows of a file, and the key each has.
LEMMA KeysAre ==
    ASSUME NEW h
    PROVE  /\ KeysOf(h) = IF h.type = "E66" /\ Ingested(h)
                          THEN {EnergyKey(h, t) : t \in h.slots} ELSE {}
           /\ TotalKeysOf(h) = IF h.type = "E31" /\ Ingested(h)
                               THEN {CommunityKey(h, t) : t \in h.slots} ELSE {}
  BY DEF KeysOf, TotalKeysOf, EnergyRows, CommunityRows

LEMMA HeadersAre ==
    ASSUME ReportTypes
    PROVE  /\ Len(delivery) \in Nat
           /\ Positions = 1 .. Len(delivery)
           /\ \A i \in Positions : Header(i) \in Candidates
  BY DEF ReportTypes, Positions, Header

LEMMA PositionsAreFinite == ASSUME ReportTypes PROVE IsFiniteSet(Positions)
<1>1. Len(delivery) \in Nat /\ Positions = 1 .. Len(delivery)
  BY HeadersAre
<1>2. IsFiniteSet(1 .. Len(delivery))
  BY <1>1, FS_Interval
<1> QED
  BY <1>1, <1>2

\* What one more file changes: nothing for those before it.
LEMMA OneMore ==
    ASSUME ReportTypes, NEW h \in Candidates, Len(delivery) < MaxFiles,
           delivery' = Append(delivery, h)
    PROVE  LET n == Len(delivery) + 1 IN
           /\ delivery' \in Seq(Candidates) /\ Len(delivery') = n /\ n =< MaxFiles
           /\ Positions' = Positions \cup {n} /\ n \notin Positions
           /\ \A i \in Positions : i < n /\ Header(i)' = Header(i)
           /\ delivery'[n] = h
  BY DeliveryAssumption DEF ReportTypes, Positions, Header

LEMMA InitReportInv == ReportInit => ReportInv
<1> SUFFICES ASSUME ReportInit PROVE ReportInv
  OBVIOUS
<1>1. Positions = {} /\ DOMAIN celEnergy = {} /\ DOMAIN community = {}
  BY DEF ReportInit, Positions
<1>2. ReportTypes
  BY <1>1, DeliveryAssumption, FS_EmptySet DEF ReportInit, ReportTypes
<1>3. TablesFollow
  BY <1>1 DEF TablesFollow
<1> QED
  BY <1>2, <1>3 DEF ReportInv

LEMMA KeysBound ==
    ASSUME NEW h \in Candidates
    PROVE  /\ KeysOf(h) \subseteq
                {EnergyKey(c, t) : c \in {c \in Candidates : c.type = "E66"},
                                   t \in UNION {c.slots : c \in Candidates}}
           /\ TotalKeysOf(h) \subseteq
                {CommunityKey(c, t) : c \in Candidates,
                                      t \in UNION {c.slots : c \in Candidates}}
  BY KeysAre

LEMMA IngestFollows ==
    ASSUME ReportInv, NEW h \in Candidates, Ingest(h)
    PROVE  ReportInv'
<1> DEFINE n == Len(delivery) + 1
<1>1. /\ ReportTypes /\ Len(delivery) < MaxFiles
      /\ delivery' = Append(delivery, h) /\ failures' = failures
  BY DEF ReportInv, Ingest
<1>2. /\ delivery' \in Seq(Candidates) /\ Len(delivery') = n /\ n =< MaxFiles
      /\ Positions' = Positions \cup {n} /\ n \notin Positions
      /\ \A i \in Positions : i < n /\ Header(i)' = Header(i)
      /\ delivery'[n] = h
  BY <1>1, OneMore
<1>3. /\ failures \subseteq Positions /\ n \notin failures /\ n \in Nat
      /\ \A i \in Positions : i \in Nat
  BY <1>1, <1>2, HeadersAre DEF ReportTypes
<1> HIDE DEF n
<1>4. /\ DOMAIN celEnergy' = DOMAIN celEnergy \cup KeysOf(h)
      /\ \A k \in DOMAIN celEnergy' :
            celEnergy'[k] = IF k \in KeysOf(h) THEN h.value ELSE celEnergy[k]
      /\ DOMAIN community' = DOMAIN community \cup TotalKeysOf(h)
      /\ \A k \in DOMAIN community' :
            community'[k] = IF k \in TotalKeysOf(h) THEN h.value ELSE community[k]
  BY DEF Ingest, KeysOf, TotalKeysOf
<1>5. ReportTypes'
  BY <1>1, <1>2, <1>3, <1>4, KeysBound DEF ReportTypes
<1>6. /\ \A k : Wrote(k)' = Wrote(k) \cup (IF k \in KeysOf(h) THEN {n} ELSE {})
      /\ \A k : WroteTotal(k)'
                  = WroteTotal(k) \cup (IF k \in TotalKeysOf(h) THEN {n} ELSE {})
  BY <1>1, <1>2, <1>3 DEF Wrote, WroteTotal, Header
<1>7. TablesFollow'
  <2>1. ASSUME NEW i \in (Positions \ failures)'
        PROVE  /\ KeysOf(Header(i)') \subseteq DOMAIN celEnergy'
               /\ TotalKeysOf(Header(i)') \subseteq DOMAIN community'
    <3>1. CASE i = n
      BY <1>2, <1>4, <3>1 DEF Header
    <3>2. CASE i \in Positions \ failures
      BY <1>2, <1>4, <3>2 DEF ReportInv, TablesFollow
    <3> QED
      BY <1>1, <1>2, <3>1, <3>2
  <2>2. ASSUME NEW k \in DOMAIN celEnergy'
        PROVE  \E i \in Positions' : LastIn(Wrote(k)', i)
                                     /\ celEnergy'[k] = Header(i)'.value
    <3>1. CASE k \in KeysOf(h)
      <4>1. LastIn(Wrote(k)', n)
        BY <1>2, <1>3, <1>6, <3>1 DEF LastIn, Wrote
      <4> QED
        BY <1>2, <1>4, <3>1, <4>1 DEF Header
    <3>2. CASE k \notin KeysOf(h)
      <4>1. k \in DOMAIN celEnergy /\ celEnergy'[k] = celEnergy[k] /\ Wrote(k)' = Wrote(k)
        BY <1>4, <1>6, <3>2
      <4>2. PICK i \in Positions : LastIn(Wrote(k), i) /\ celEnergy[k] = Header(i).value
        BY <4>1 DEF ReportInv, TablesFollow
      <4>3. i \in Positions' /\ Header(i)' = Header(i)
        BY <1>2
      <4> QED
        BY <4>1, <4>2, <4>3
    <3> QED
      BY <3>1, <3>2
  <2>3. ASSUME NEW k \in DOMAIN community'
        PROVE  \E i \in Positions' : LastIn(WroteTotal(k)', i)
                                     /\ community'[k] = Header(i)'.value
    <3>1. CASE k \in TotalKeysOf(h)
      <4>1. LastIn(WroteTotal(k)', n)
        BY <1>2, <1>3, <1>6, <3>1 DEF LastIn, WroteTotal
      <4> QED
        BY <1>2, <1>4, <3>1, <4>1 DEF Header
    <3>2. CASE k \notin TotalKeysOf(h)
      <4>1. k \in DOMAIN community /\ community'[k] = community[k] /\ WroteTotal(k)' = WroteTotal(k)
        BY <1>4, <1>6, <3>2
      <4>2. PICK i \in Positions : LastIn(WroteTotal(k), i) /\ community[k] = Header(i).value
        BY <4>1 DEF ReportInv, TablesFollow
      <4>3. i \in Positions' /\ Header(i)' = Header(i)
        BY <1>2
      <4> QED
        BY <4>1, <4>2, <4>3
    <3> QED
      BY <3>1, <3>2
  <2> QED
    BY <2>1, <2>2, <2>3 DEF TablesFollow
<1> QED
  BY <1>5, <1>7 DEF ReportInv

LEMMA FailureFollows ==
    ASSUME ReportInv, NEW h \in Candidates, IngestFails(h)
    PROVE  ReportInv'
<1> DEFINE n == Len(delivery) + 1
<1>1. /\ ReportTypes /\ Len(delivery) < MaxFiles
      /\ Cardinality(failures) < MaxFailures
      /\ delivery' = Append(delivery, h)
      /\ UNCHANGED <<celEnergy, community>>
  BY DEF ReportInv, IngestFails
<1>2. /\ delivery' \in Seq(Candidates) /\ Len(delivery') = n /\ n =< MaxFiles
      /\ Positions' = Positions \cup {n} /\ n \notin Positions
      /\ \A i \in Positions : i < n /\ Header(i)' = Header(i)
  BY <1>1, OneMore
<1>3. failures' = failures \cup {n}
  BY <1>2 DEF IngestFails
<1>4. /\ failures \subseteq Positions
      /\ IsFiniteSet(failures)
  <2>1. failures \subseteq Positions
    BY <1>1 DEF ReportTypes
  <2>2. IsFiniteSet(failures)
    BY <1>1, <2>1, PositionsAreFinite, FS_Subset
  <2> QED
    BY <2>1, <2>2
<1> HIDE DEF n
<1>5. failures' \subseteq Positions' /\ Cardinality(failures') =< MaxFailures
  <2>1. Cardinality(failures) \in Nat
    BY <1>4, FS_CardinalityType
  <2>2. Cardinality(failures') = Cardinality(failures) + 1
    <3>1. n \notin failures
      BY <1>2, <1>4
    <3>2. Cardinality(failures \cup {n}) = Cardinality(failures) + 1
      BY <1>4, <3>1, FS_AddElement
    <3> QED
      BY <1>3, <3>2
  <2>3. Cardinality(failures') \in Nat
    BY <1>3, <1>4, FS_AddElement, FS_CardinalityType
  <2> QED
    BY <1>1, <1>2, <1>3, <1>4, <2>1, <2>2, <2>3, DeliveryAssumption
<1>6. ReportTypes'
  BY <1>1, <1>2, <1>5 DEF ReportTypes
<1>7. (Positions \ failures)' = Positions \ failures
  BY <1>2, <1>3, <1>4
<1>8. \A k : Wrote(k)' = Wrote(k) /\ WroteTotal(k)' = WroteTotal(k)
  BY <1>2, <1>7 DEF Wrote, WroteTotal
<1>9. TablesFollow'
  BY <1>1, <1>2, <1>7, <1>8 DEF ReportInv, TablesFollow
<1> QED
  BY <1>6, <1>9 DEF ReportInv

LEMMA ReportInvariance == ReportSpec => []ReportInv
<1>1. ReportInv /\ [ReportNext]_report => ReportInv'
  <2> SUFFICES ASSUME ReportInv, [ReportNext]_report PROVE ReportInv'
    OBVIOUS
  <2>1. CASE ReportNext
    BY <2>1, IngestFollows, FailureFollows DEF ReportNext
  <2>2. CASE UNCHANGED report
    <3>1. \A k : Wrote(k)' = Wrote(k) /\ WroteTotal(k)' = WroteTotal(k)
      BY <2>2 DEF report, Wrote, WroteTotal, Positions, Header
    <3> QED
      BY <2>2, <3>1 DEF report, ReportInv, ReportTypes, TablesFollow, Positions, Header
  <2> QED
    BY <2>1, <2>2
<1> QED
  BY <1>1, InitReportInv, PTL DEF ReportSpec

\* A finite set of positions has a first and a last one.
LEMMA FirstAndLast ==
    ASSUME ReportTypes, NEW S \in SUBSET Positions, S # {}
    PROVE  /\ Max(S) \in S /\ \A j \in S : j =< Max(S)
           /\ Min(S) \in S /\ \A j \in S : Min(S) =< j
<1>1. Len(delivery) \in Nat /\ Positions = 1 .. Len(delivery)
  BY HeadersAre
<1>0. S \in SUBSET Nat /\ \A j \in S : j =< Len(delivery)
  BY <1>1
<1>2. \E m \in S : \A j \in S : m =< j
  BY <1>0, LeastOf
<1>3. \E m \in S : \A j \in S : j =< m
  <2> DEFINE back == {Len(delivery) - j : j \in S}
  <2>0. \A j \in S : j \in Nat /\ j =< Len(delivery)
    BY <1>0
  <2>1. back \in SUBSET Nat /\ back # {}
    <3>1. \A j \in S : Len(delivery) - j \in Nat
      BY <1>1, <2>0
    <3>2. back # {}
      OBVIOUS
    <3>3. \A b \in back : b \in Nat
      BY <3>1
    <3> HIDE DEF back
    <3> QED
      BY <3>2, <3>3
  <2>2. PICK b \in back : \A c \in back : b =< c
    BY <2>1, LeastOf, Zenon
  <2>3. PICK m \in S : b = Len(delivery) - m
    OBVIOUS
  <2>4. \A j \in S : b =< Len(delivery) - j
    BY <2>2
  <2> QED
    BY <1>0, <1>1, <2>3, <2>4
<1> QED
  BY <1>2, <1>3 DEF Max, Min

LEMMA LastIsMax ==
    ASSUME ReportTypes, NEW S \in SUBSET Positions, NEW i, LastIn(S, i)
    PROVE  Max(S) = i
<1>1. S # {} /\ i \in S /\ \A j \in S : j =< i
  BY DEF LastIn
<1>2. Max(S) \in S /\ \A j \in S : j =< Max(S)
  BY <1>1, FirstAndLast
<1>3. i \in Int /\ Max(S) \in Int
  BY <1>1, <1>2, HeadersAre
<1>4. i =< Max(S) /\ Max(S) =< i
  BY <1>1, <1>2
<1> QED
  BY <1>3, <1>4

\* The files of a group that write a row of a meter, or of the aggregate.
InGroup(G, r) == {i \in G : <<r[1], r[2], r[3], FALSE>> \in KeysOf(Header(i))}
InGroupTotal(G, k) == {i \in G : k \in TotalKeysOf(Header(i))}

\* Of a file of the community, what stored_meter and the type decide is what
\* ingestion did.
LEMMA StoredIsIngested ==
    ASSUME ReportTypes, NEW i \in Positions, ~Header(i).rcp
    PROVE  /\ Header(i).type = "E66" /\ Ingested(Header(i))
                <=> StoredMeter(Header(i)) # None /\ Classified(Header(i))
           /\ Header(i).type = "E31" /\ Ingested(Header(i))
                <=> Header(i).type = "E31" /\ Classified(Header(i))
<1>1. Header(i) \in Candidates
  BY HeadersAre
<1> QED
  BY <1>1, CandidatesAssumption DEF StoredMeter, Ingested

\* The report of a group recomputes the rows its files wrote, and of each the
\* last.
LEMMA E66SlotsAre ==
    ASSUME ReportTypes, NEW G \in SUBSET Positions, \A i \in G : ~Header(i).rcp
    PROVE  /\ \A r \in DOMAIN E66Slots(G) :
                 /\ r = <<r[1], r[2], r[3]>> /\ InGroup(G, r) # {}
                 /\ E66Slots(G)[r] = Header(Max(InGroup(G, r))).value
           /\ \A i \in G : \A k \in KeysOf(Header(i)) :
                 <<k[1], k[2], k[3]>> \in DOMAIN E66Slots(G)
<1> DEFINE in == {i \in G : StoredMeter(Header(i)) # None /\ Classified(Header(i))}
           keys == UNION {{<<Header(i).meter, Series(Header(i)), t>> : t \in Header(i).slots}
                            : i \in in}
           of(k) == {i \in in : /\ Header(i).meter = k[1]
                                /\ Series(Header(i)) = k[2]
                                /\ k[3] \in Header(i).slots}
<1>1. E66Slots(G) = [k \in keys |-> Header(Winner(of(k))).value]
  BY DEF E66Slots
<1>2. \A i \in G : KeysOf(Header(i))
         = IF i \in in THEN {<<Header(i).meter, Series(Header(i)), t, FALSE>> : t \in Header(i).slots}
           ELSE {}
  <2> SUFFICES ASSUME NEW i \in G
               PROVE  KeysOf(Header(i))
         = IF i \in in THEN {<<Header(i).meter, Series(Header(i)), t, FALSE>> : t \in Header(i).slots}
           ELSE {}
    OBVIOUS
  <2>1. Header(i).rcp = FALSE
    BY HeadersAre, CandidatesAssumption
  <2>2. i \in in <=> Header(i).type = "E66" /\ Ingested(Header(i))
    BY StoredIsIngested
  <2>3. \A t : EnergyKey(Header(i), t) = <<Header(i).meter, Series(Header(i)), t, FALSE>>
    BY <2>1 DEF EnergyKey
  <2> HIDE DEF in
  <2> QED
    BY <2>2, <2>3, KeysAre
<1>3. ASSUME NEW k PROVE of(k) = InGroup(G, k)
  <2>1. ASSUME NEW i \in G PROVE i \in of(k) <=> i \in InGroup(G, k)
    <3>1. i \in InGroup(G, k) <=> <<k[1], k[2], k[3], FALSE>> \in KeysOf(Header(i))
      BY DEF InGroup
    <3>2. CASE i \in in
      <4>1. KeysOf(Header(i))
              = {<<Header(i).meter, Series(Header(i)), t, FALSE>> : t \in Header(i).slots}
        BY <1>2, <3>2
      <4>2. <<k[1], k[2], k[3], FALSE>> \in KeysOf(Header(i))
              <=> /\ Header(i).meter = k[1] /\ Series(Header(i)) = k[2]
                  /\ k[3] \in Header(i).slots
        BY <4>1
      <4> QED
        BY <3>1, <3>2, <4>2
    <3>3. CASE i \notin in
      BY <1>2, <3>1, <3>3
    <3> QED
      BY <3>2, <3>3
  <2> QED
    BY <2>1 DEF InGroup
<1>4. \A k \in keys : k = <<k[1], k[2], k[3]>> /\ of(k) # {}
  OBVIOUS
<1>5. ASSUME NEW i \in G, NEW k \in KeysOf(Header(i))
      PROVE  <<k[1], k[2], k[3]>> \in keys
  <2>1. i \in in
    BY <1>2
  <2>2. PICK t \in Header(i).slots :
           k = <<Header(i).meter, Series(Header(i)), t, FALSE>>
    BY <1>2, <2>1
  <2>3. <<k[1], k[2], k[3]>> = <<Header(i).meter, Series(Header(i)), t>>
    BY <2>2
  <2> QED
    BY <2>1, <2>3
<1> HIDE DEF in, keys, of
<1> QED
  BY <1>1, <1>3, <1>4, <1>5 DEF Winner

LEMMA E31SlotsAre ==
    ASSUME ReportTypes, NEW G \in SUBSET Positions, \A i \in G : ~Header(i).rcp
    PROVE  /\ \A k \in DOMAIN E31Slots(G) :
                 /\ InGroupTotal(G, k) # {}
                 /\ E31Slots(G)[k] = Header(Max(InGroupTotal(G, k))).value
           /\ \A i \in G : TotalKeysOf(Header(i)) \subseteq DOMAIN E31Slots(G)
<1> DEFINE in == {i \in G : Header(i).type = "E31" /\ Classified(Header(i))}
           keys == UNION {{CommunityKey(Header(i), t) : t \in Header(i).slots} : i \in in}
           of(k) == {i \in in : /\ Series(Header(i)) = k[1]
                                /\ k[2] \in Header(i).slots}
<1>1. E31Slots(G) = [k \in keys |-> Header(Winner(of(k))).value]
  BY DEF E31Slots
<1>2. \A i \in G : TotalKeysOf(Header(i))
         = IF i \in in THEN {CommunityKey(Header(i), t) : t \in Header(i).slots} ELSE {}
  <2> SUFFICES ASSUME NEW i \in G
               PROVE  TotalKeysOf(Header(i))
         = IF i \in in THEN {CommunityKey(Header(i), t) : t \in Header(i).slots} ELSE {}
    OBVIOUS
  <2>1. i \in in <=> Header(i).type = "E31" /\ Ingested(Header(i))
    BY StoredIsIngested
  <2> HIDE DEF in
  <2> QED
    BY <2>1, KeysAre
<1>3. \A k \in keys : of(k) = InGroupTotal(G, k)
  BY <1>2 DEF InGroupTotal, CommunityKey
<1>4. \A k \in keys : of(k) # {}
  BY DEF CommunityKey
<1>5. \A i \in G : TotalKeysOf(Header(i)) \subseteq keys
  BY <1>2
<1> HIDE DEF in, keys, of
<1> QED
  BY <1>1, <1>3, <1>4, <1>5 DEF Winner

LEMMA GroupsAre ==
    ASSUME ReportTypes, NEW p
    PROVE  /\ Group(p) \in SUBSET Positions
           /\ \A i \in Group(p) : ~Header(i).rcp
           /\ \A i \in Positions :
                 /\ Header(i).period \in Periods
                 /\ ~Header(i).rcp => i \in Group(Header(i).period)
  BY HeadersAre DEF Group, Periods

LEMMA RowIsCel ==
    ASSUME ReportTypes, NEW i \in Positions, NEW k \in KeysOf(Header(i))
    PROVE  /\ k = <<k[1], k[2], k[3], k[4]>> /\ k[4] = Header(i).rcp
           /\ Header(i).rcp \in BOOLEAN
           /\ k[1] = Header(i).meter /\ k[2] = Series(Header(i))
           /\ k[3] \in Header(i).slots
           /\ Header(i).type = "E66" /\ Classified(Header(i))
           /\ ~AgainstRole(Header(i)) /\ Header(i).meter # None
<1>1. Header(i) \in Candidates
  BY HeadersAre
<1>2. /\ Header(i).type = "E66" /\ Ingested(Header(i))
      /\ k \in {EnergyKey(Header(i), t) : t \in Header(i).slots}
  BY KeysAre
<1>3. PICK t \in Header(i).slots :
         k = <<Header(i).meter, Series(Header(i)), t, Header(i).rcp>>
  BY <1>2 DEF EnergyKey
<1>4. Header(i).rcp \in BOOLEAN /\ Header(i).meter # None
  BY <1>1, <1>2, CandidatesAssumption DEF Ingested
<1> QED
  BY <1>2, <1>3, <1>4 DEF Ingested

LEMMA ReportMatches == ReportInv => ReportMatchesTable
<1> SUFFICES ASSUME ReportInv PROVE ReportMatchesTable
  OBVIOUS
<1>0. ReportTypes /\ TablesFollow
  BY DEF ReportInv
<1>1. ASSUME NEW k \in DOMAIN celEnergy, ~k[4]
      PROVE  \E p \in Periods : <<k[1], k[2], k[3]>> \in DOMAIN E66Slots(Group(p))
  <2>1. PICK i \in Positions : LastIn(Wrote(k), i)
    BY <1>0 DEF TablesFollow
  <2>2. k \in KeysOf(Header(i))
    BY <2>1 DEF LastIn, Wrote
  <2>3. ~Header(i).rcp
    BY <1>0, <1>1, <2>2, RowIsCel
  <2> DEFINE p == Header(i).period
  <2>4. p \in Periods /\ i \in Group(p)
    BY <1>0, <2>3, GroupsAre
  <2>5. <<k[1], k[2], k[3]>> \in DOMAIN E66Slots(Group(p))
    BY <1>0, <2>2, <2>4, GroupsAre, E66SlotsAre
  <2> QED
    BY <2>4, <2>5
<1>2. ASSUME NEW p \in Periods, NEW r \in DOMAIN E66Slots(Group(p))
      PROVE  LET k == <<r[1], r[2], r[3], FALSE>> IN
             /\ WritersOf(k) # {}
             /\ Max(WritersOf(k)) \in Group(p) \ failures
                => celEnergy[k] = E66Slots(Group(p))[r]
  <2> DEFINE k == <<r[1], r[2], r[3], FALSE>>
             w == Max(WritersOf(k))
  <2>1. /\ InGroup(Group(p), r) # {}
        /\ E66Slots(Group(p))[r] = Header(Max(InGroup(Group(p), r))).value
    BY <1>0, GroupsAre, E66SlotsAre
  <2>2. /\ WritersOf(k) \in SUBSET Positions
        /\ InGroup(Group(p), r) = WritersOf(k) \cap Group(p)
        /\ Wrote(k) = WritersOf(k) \ failures
    BY <1>0, GroupsAre DEF InGroup, WritersOf, Wrote, KeysOf
  <2>3. WritersOf(k) # {}
    BY <2>1, <2>2
  <2>4. ASSUME w \in Group(p) \ failures PROVE celEnergy[k] = E66Slots(Group(p))[r]
    <3>1. w \in WritersOf(k) /\ \A j \in WritersOf(k) : j =< w
      BY <1>0, <2>2, <2>3, FirstAndLast
    <3>2. LastIn(InGroup(Group(p), r), w) /\ LastIn(Wrote(k), w)
      BY <2>2, <2>4, <3>1 DEF LastIn
    <3>3. Max(InGroup(Group(p), r)) = w
      BY <1>0, <2>2, <3>2, LastIsMax
    <3>4. k \in DOMAIN celEnergy
      BY <1>0, <3>2 DEF TablesFollow, LastIn, Wrote
    <3>5. PICK i \in Positions : LastIn(Wrote(k), i) /\ celEnergy[k] = Header(i).value
      BY <1>0, <3>4 DEF TablesFollow
    <3>6. Max(Wrote(k)) = i /\ Max(Wrote(k)) = w
      BY <1>0, <2>2, <3>2, <3>5, LastIsMax
    <3> QED
      BY <2>1, <3>3, <3>5, <3>6
  <2> QED
    BY <2>3, <2>4
<1> QED
  BY <1>1, <1>2 DEF ReportMatchesTable

\* For any candidate files and declared meters, a delivery of any length with
\* any failures: what the report recomputes is what the tables hold
\* (ReportIsExact).
THEOREM ReportExact == ReportSpec => []ReportIsExact
<1>1. ReportInv => ReportIsExact
  BY ReportMatches DEF ReportInv, ReportIsExact
<1> QED
  BY <1>1, ReportInvariance, PTL

\* Two files that write one row are rewrites of each other to the report.
LEMMA RewritesFound ==
    ASSUME ReportTypes, NEW i \in Positions, NEW j \in Positions, j < i,
           ~Header(i).rcp,
           NEW k \in KeysOf(Header(i)), k \in KeysOf(Header(j))
    PROVE  j \in WrittenBefore(i, k[3]) /\ <<i, k[3]>> \in Repeats
<1>1. Header(i) \in Candidates /\ Header(j) \in Candidates
  BY HeadersAre
<1>2. /\ k[1] = Header(i).meter /\ k[2] = Series(Header(i))
      /\ k[3] \in Header(i).slots /\ Header(i).type = "E66"
      /\ Classified(Header(i)) /\ ~AgainstRole(Header(i)) /\ Header(i).meter # None
      /\ k[1] = Header(j).meter /\ k[2] = Series(Header(j))
      /\ k[3] \in Header(j).slots /\ Header(j).type = "E66"
      /\ Classified(Header(j)) /\ ~AgainstRole(Header(j)) /\ Header(j).meter # None
      /\ Header(j).rcp = Header(i).rcp
  BY RowIsCel
<1>3. Header(i).point = Header(j).point /\ Header(i).segment = Header(j).segment
  BY <1>2 DEF Series
<1>4. RewriteKey(Header(j), k[3]) = RewriteKey(Header(i), k[3])
  BY <1>2, <1>3 DEF RewriteKey, Direction
<1>5. StoredMeter(Header(i)) # None /\ StoredMeter(Header(j)) # None
  BY <1>2 DEF StoredMeter
<1>6. j \in WrittenBefore(i, k[3])
  BY <1>2, <1>4, <1>5 DEF WrittenBefore
<1>7. k[3] \in UNION {h.slots : h \in Candidates}
  BY <1>1, <1>2
<1> QED
  BY <1>2, <1>5, <1>6, <1>7 DEF Repeats

\* A file that is not written last is followed by one of the same value, if
\* nothing is counted as differing: both have that of the first.
LEMMA QuietIsOrderFree == ReportInv => QuietMeansOrderFree
<1> SUFFICES ASSUME ReportInv, Differing = {},
                    NEW i \in Positions \ failures, ~Header(i).rcp,
                    NEW k \in KeysOf(Header(i))
             PROVE  celEnergy[k] = Header(i).value
  BY DEF QuietMeansOrderFree, KeysOf
<1>0. ReportTypes /\ TablesFollow
  BY DEF ReportInv
<1>1. k \in DOMAIN celEnergy
  BY <1>0 DEF TablesFollow
<1>2. PICK j \in Positions : LastIn(Wrote(k), j) /\ celEnergy[k] = Header(j).value
  BY <1>0, <1>1 DEF TablesFollow
<1>3. k \in KeysOf(Header(j)) /\ i =< j
  BY <1>2 DEF LastIn, Wrote
<1>4. SUFFICES ASSUME i < j PROVE Header(j).value = Header(i).value
  BY <1>0, <1>2, <1>3, HeadersAre
<1>5. ~Header(j).rcp
  BY <1>0, <1>3, RowIsCel
<1> DEFINE t == k[3]
           B(n) == WrittenBefore(n, t)
<1>6. i \in B(j) /\ <<j, t>> \in Repeats
  BY <1>0, <1>3, <1>4, <1>5, RewritesFound
<1>7. \A n \in Positions : B(n) \in SUBSET Positions
  BY DEF WrittenBefore
<1> DEFINE m == Min(B(j))
<1>8. m \in B(j) /\ m =< i
  BY <1>0, <1>6, <1>7, FirstAndLast
<1>9. Header(m).value = Header(j).value
  BY <1>6 DEF Differing, Identical
<1>10. CASE m = i
  BY <1>9, <1>10
<1>11. CASE m # i
  <2>1. m < i
    BY <1>0, <1>7, <1>8, <1>11, HeadersAre
  <2>2. RewriteKey(Header(i), t) = RewriteKey(Header(j), t)
    <3>1. /\ Header(i).meter = Header(j).meter /\ Series(Header(i)) = Series(Header(j))
      BY <1>0, <1>3, RowIsCel
    <3> QED
      BY <3>1 DEF Series, RewriteKey, Direction, Classified
  <2>3. m \in B(i)
    BY <1>8, <2>1, <2>2 DEF WrittenBefore
  <2>4. B(i) \subseteq B(j)
    BY <1>0, <1>4, <2>2, HeadersAre DEF WrittenBefore
  <2>5. Min(B(i)) \in B(i) /\ Min(B(i)) =< m /\ m =< Min(B(i))
    BY <1>0, <1>6, <1>7, <2>3, <2>4, FirstAndLast
  <2>6. Min(B(i)) = m
    <3>1. Min(B(i)) \in Positions /\ m \in Positions
      BY <1>7, <1>8, <2>5
    <3>2. Min(B(i)) \in Int /\ m \in Int
      BY <1>0, <3>1, HeadersAre
    <3> HIDE DEF m, B
    <3> QED
      BY <2>5, <3>2
  <2>7. <<i, t>> \in Repeats
    <3>1. t \in Header(i).slots /\ StoredMeter(Header(i)) # None /\ Header(i) \in Candidates
      BY <1>0, RowIsCel, HeadersAre DEF StoredMeter
    <3> QED
      BY <2>3, <3>1 DEF Repeats
  <2>8. Header(m).value = Header(i).value
    BY <2>6, <2>7 DEF Differing, Identical
  <2> QED
    BY <1>9, <2>8
<1> QED
  BY <1>10, <1>11

\* For any candidates, owners, lengths and failures: a delivery that is not
\* said to rewrite a differing value holds, in every order of its files, what
\* each of them says (QuietMeansOrderFree).
THEOREM QuietOrderFree == ReportSpec => []QuietMeansOrderFree
  BY QuietIsOrderFree, ReportInvariance, PTL

\* A file that rewrites a key has before it, of that key, the writes of the
\* last file to have written it, and that file.
LEMMA LastBefore ==
    ASSUME ReportTypes, NEW w \in Repeats
    PROVE  LET B == WrittenBefore(w[1], w[2])
               m == Max(B)
           IN /\ B \in SUBSET Positions /\ m \in B /\ Min(B) \in B
              /\ Header(m) \in Candidates
              /\ w[2] \in Header(m).slots
              /\ WrittenBefore(m, w[2]) \subseteq B
              /\ m # Min(B) => /\ <<m, w[2]>> \in Repeats
                               /\ Min(WrittenBefore(m, w[2])) = Min(B)
<1> DEFINE t == w[2]
           B == WrittenBefore(w[1], t)
           m == Max(B)
<1>1. w[1] \in Positions /\ B # {} /\ B \in SUBSET Positions
  BY DEF Repeats, WrittenBefore
<1>2. /\ m \in B /\ \A j \in B : j =< m
      /\ Min(B) \in B /\ \A j \in B : Min(B) =< j
  BY <1>1, FirstAndLast
<1>3. Positions \subseteq Nat /\ \A i \in Positions : Header(i) \in Candidates
  BY HeadersAre
<1>4. ASSUME NEW j \in B
      PROVE  /\ j < w[1] /\ StoredMeter(Header(j)) # None /\ t \in Header(j).slots
             /\ RewriteKey(Header(j), t) = RewriteKey(Header(w[1]), t)
  BY <1>4 DEF WrittenBefore, RewriteKey
<1>5. WrittenBefore(m, t) \subseteq B
  <2> SUFFICES ASSUME NEW j \in WrittenBefore(m, t) PROVE j \in B
    OBVIOUS
  <2>1. /\ j \in Positions /\ j < m /\ StoredMeter(Header(j)) # None
        /\ \E u \in Header(j).slots : RewriteKey(Header(j), u) = RewriteKey(Header(m), t)
    BY DEF WrittenBefore
  <2>2. j < w[1]
    <3>1. m < w[1] /\ {j, m, w[1]} \subseteq Nat
      BY <1>1, <1>2, <1>3, <1>4, <2>1
    <3> HIDE DEF m
    <3> QED
      BY <2>1, <3>1
  <2> QED
    BY <1>2, <1>4, <2>1, <2>2 DEF WrittenBefore
<1>6. ASSUME m # Min(B)
      PROVE  <<m, t>> \in Repeats /\ Min(WrittenBefore(m, t)) = Min(B)
  <2>1. Min(B) < m
    <3>1. Min(B) =< m /\ m # Min(B) /\ m \in Nat /\ Min(B) \in Nat
      BY <1>1, <1>2, <1>3, <1>6
    <3> HIDE DEF m, B
    <3> QED
      BY <3>1
  <2>2. Min(B) \in WrittenBefore(m, t)
    BY <1>1, <1>2, <1>4, <2>1 DEF WrittenBefore
  <2>3. /\ Min(WrittenBefore(m, t)) \in WrittenBefore(m, t)
        /\ Min(WrittenBefore(m, t)) =< Min(B)
    BY <1>1, <1>5, <2>2, FirstAndLast
  <2>4. Min(B) =< Min(WrittenBefore(m, t))
    BY <1>2, <1>5, <2>3
  <2>5. Min(WrittenBefore(m, t)) = Min(B)
    <3>1. Min(WrittenBefore(m, t)) \in Nat /\ Min(B) \in Nat
      BY <1>1, <1>2, <1>3, <1>5, <2>3
    <3> HIDE DEF m, B
    <3> QED
      BY <2>3, <2>4, <3>1
  <2>6. t \in Header(m).slots /\ StoredMeter(Header(m)) # None
    BY <1>2, <1>4
  <2> QED
    BY <1>1, <1>2, <1>3, <2>2, <2>5, <2>6 DEF Repeats
<1> QED
  BY <1>1, <1>2, <1>3, <1>4, <1>5, <1>6

\* A rewrite is among those the report counts, if its file is of no RCP.
CelRewritesAreCounted ==
    \A i, j \in Positions : j < i /\ ~Header(i).rcp =>
        \A k \in KeysOf(Header(i)) \cap KeysOf(Header(j)) : <<i, k[3]>> \in Repeats

\* Every cel row a delivery writes twice is among the rewrites the
\* report counts, for any candidates: the files of a RCP, which rewritten_keys
\* does not look at, are all that RewritesAreCounted misses.
THEOREM CelRewritesCounted == ReportSpec => []CelRewritesAreCounted
<1>1. ReportInv => CelRewritesAreCounted
  BY RewritesFound DEF ReportInv, CelRewritesAreCounted
<1> QED
  BY <1>1, ReportInvariance, PTL

\* No write of the key between the first one and w changed its value.
OnlyIdenticalBefore(w) ==
    \A m \in WrittenBefore(w[1], w[2]) : <<m, w[2]>> \notin Differing

\* IdenticalIsNoOp, up to there.
IdenticalIsNoOpUntilDiffering ==
    \A w \in Identical :
        OnlyIdenticalBefore(w) =>
            Header(Max(WrittenBefore(w[1], w[2]))).value = Header(w[1]).value

\* A rewrite counted as identical leaves the row as the file before
\* left it, unless a differing rewrite came in between: "seen" keeps the first
\* value of a key, so a change to another value and back is all that
\* IdenticalIsNoOp misses.
THEOREM IdenticalNoOpUntilDiffering == ReportSpec => []IdenticalIsNoOpUntilDiffering
<1>1. ReportInv => IdenticalIsNoOpUntilDiffering
  <2> SUFFICES ASSUME ReportInv, NEW w \in Identical, OnlyIdenticalBefore(w)
               PROVE  Header(Max(WrittenBefore(w[1], w[2]))).value = Header(w[1]).value
    BY DEF IdenticalIsNoOpUntilDiffering
  <2> DEFINE m == Max(WrittenBefore(w[1], w[2]))
             first == Min(WrittenBefore(w[1], w[2]))
  <2>1. w \in Repeats /\ Header(first).value = Header(w[1]).value
    BY DEF Identical
  <2>2. ReportTypes
    BY DEF ReportInv
  <2>3. /\ m \in WrittenBefore(w[1], w[2])
        /\ m # first => /\ <<m, w[2]>> \in Repeats
                        /\ Min(WrittenBefore(m, w[2])) = first
    BY <2>1, <2>2, LastBefore
  <2>4. CASE m = first
    BY <2>1, <2>4
  <2>5. CASE m # first
    <3>1. <<m, w[2]>> \in Identical
      BY <2>3, <2>5 DEF OnlyIdenticalBefore, Differing
    <3>2. Header(Min(WrittenBefore(m, w[2]))).value = Header(m).value
      BY <3>1 DEF Identical
    <3> QED
      BY <2>1, <2>3, <2>5, <3>2
  <2> QED
    BY <2>4, <2>5
<1> QED
  BY <1>1, ReportInvariance, PTL

\* The files of a settled period are those of the community.
LEMMA SettledIs ==
    ASSUME ReportInv, NEW p, Settled(p)
    PROVE  /\ \A i \in Positions : ~Header(i).rcp <=> i \in Group(p)
           /\ Positions \ failures = Positions
  BY GroupsAre DEF ReportInv, Settled

\* Where the period is settled, the report has the very rows of the table.
LEMMA SettledRows ==
    ASSUME ReportInv, NEW p, Settled(p)
    PROVE  LET e66 == E66Slots(Group(p)) IN
           /\ \A k \in DOMAIN celEnergy : ~k[4] =>
                 /\ k = <<k[1], k[2], k[3], FALSE>>
                 /\ <<k[1], k[2], k[3]>> \in DOMAIN e66
                 /\ celEnergy[k] = e66[<<k[1], k[2], k[3]>>]
                 /\ celEnergy[k] \in Nat
           /\ \A r \in DOMAIN e66 :
                 /\ r = <<r[1], r[2], r[3]>>
                 /\ <<r[1], r[2], r[3], FALSE>> \in DOMAIN celEnergy
<1> DEFINE e66 == E66Slots(Group(p))
<1>0. ReportTypes /\ TablesFollow
  BY DEF ReportInv
<1>1. /\ \A i \in Positions : ~Header(i).rcp <=> i \in Group(p)
      /\ Positions \ failures = Positions
  BY SettledIs
<1>2. Group(p) \in SUBSET Positions /\ \A i \in Group(p) : ~Header(i).rcp
  BY <1>0, GroupsAre
<1>3. ASSUME NEW k \in DOMAIN celEnergy, ~k[4]
      PROVE  /\ k = <<k[1], k[2], k[3], FALSE>>
             /\ <<k[1], k[2], k[3]>> \in DOMAIN e66
             /\ celEnergy[k] = e66[<<k[1], k[2], k[3]>>]
             /\ celEnergy[k] \in Nat
  <2>1. PICK i \in Positions : LastIn(Wrote(k), i) /\ celEnergy[k] = Header(i).value
    BY <1>0 DEF TablesFollow
  <2>2. k \in KeysOf(Header(i))
    BY <2>1 DEF LastIn, Wrote
  <2>3. k = <<k[1], k[2], k[3], FALSE>> /\ i \in Group(p)
    BY <1>0, <1>1, <1>3, <2>2, RowIsCel
  <2> DEFINE r == <<k[1], k[2], k[3]>>
  <2>4. r \in DOMAIN e66
    BY <1>0, <1>2, <2>2, <2>3, E66SlotsAre
  <2>5. e66[r] = Header(Max(InGroup(Group(p), r))).value
    BY <1>0, <1>2, <2>4, E66SlotsAre
  <2>6. \A j \in Positions : k \in KeysOf(Header(j)) => j \in Group(p)
    BY <1>0, <1>1, <1>3, RowIsCel
  <2>7. InGroup(Group(p), r) = Wrote(k)
    BY <1>1, <1>2, <2>3, <2>6 DEF InGroup, Wrote
  <2>8. Max(Wrote(k)) = i
    BY <1>0, <1>1, <2>1, LastIsMax DEF Wrote
  <2>9. Header(i).value \in Nat
    BY <1>0, HeadersAre, CandidatesAssumption
  <2> QED
    BY <2>1, <2>3, <2>4, <2>5, <2>7, <2>8, <2>9
<1>4. ASSUME NEW r \in DOMAIN e66
      PROVE  /\ r = <<r[1], r[2], r[3]>>
             /\ <<r[1], r[2], r[3], FALSE>> \in DOMAIN celEnergy
  <2>1. r = <<r[1], r[2], r[3]>> /\ InGroup(Group(p), r) # {}
    BY <1>0, <1>2, E66SlotsAre
  <2>2. PICK i \in Group(p) : <<r[1], r[2], r[3], FALSE>> \in KeysOf(Header(i))
    BY <2>1 DEF InGroup
  <2> QED
    BY <1>0, <1>1, <1>2, <2>1, <2>2 DEF TablesFollow
<1> QED
  BY <1>3, <1>4

\* The aggregate likewise: no E31 file is of a RCP.
LEMMA SettledAggregate ==
    ASSUME ReportInv, NEW p, Settled(p), NEW k \in DOMAIN E31Slots(Group(p))
    PROVE  k \in DOMAIN community /\ community[k] = E31Slots(Group(p))[k]
<1>0. ReportTypes /\ TablesFollow
  BY DEF ReportInv
<1>1. /\ \A i \in Positions : ~Header(i).rcp <=> i \in Group(p)
      /\ Positions \ failures = Positions
  BY SettledIs
<1>2. Group(p) \in SUBSET Positions /\ \A i \in Group(p) : ~Header(i).rcp
  BY <1>0, GroupsAre
<1>3. /\ InGroupTotal(Group(p), k) # {}
      /\ E31Slots(Group(p))[k] = Header(Max(InGroupTotal(Group(p), k))).value
  BY <1>0, <1>2, E31SlotsAre
<1>4. \A i \in Positions : k \in TotalKeysOf(Header(i)) => i \in Group(p)
  BY <1>0, <1>1, KeysAre, HeadersAre, CandidatesAssumption
<1>5. InGroupTotal(Group(p), k) = WroteTotal(k)
  BY <1>1, <1>2, <1>4 DEF InGroupTotal, WroteTotal
<1>6. k \in DOMAIN community
  BY <1>0, <1>3, <1>5 DEF WroteTotal, TablesFollow
<1>7. PICK i \in Positions : LastIn(WroteTotal(k), i) /\ community[k] = Header(i).value
  BY <1>0, <1>6 DEF TablesFollow
<1>8. Max(WroteTotal(k)) = i
  BY <1>0, <1>7, LastIsMax DEF WroteTotal
<1> QED
  BY <1>3, <1>5, <1>6, <1>7, <1>8

LEMMA PlusIs == ASSUME NEW f, NEW S PROVE Plus(f, S) = SumOf(f, S)
  BY DEF Plus, SumOf

\* Between the rows of a series and slot in the table and those in the report
\* the key maps: the sum is the one the report compares with the aggregate.
LEMMA CleanMeansAgree == ReportInv => CleanReportMeansTablesAgree
<1> SUFFICES ASSUME ReportInv, NEW p \in Periods,
                    Settled(p), CleanSeries(Group(p)),
                    NEW k \in DOMAIN celEnergy, ~k[4]
             PROVE  LET same == {m \in DOMAIN celEnergy :
                                   m[2] = k[2] /\ m[3] = k[3] /\ ~m[4]} IN
                    /\ <<k[2], k[3]>> \in DOMAIN community
                    /\ community[<<k[2], k[3]>>] = Plus(celEnergy, same)
  BY DEF CleanReportMeansTablesAgree
<1> DEFINE e66 == E66Slots(Group(p))
           st == <<k[2], k[3]>>
           same == {m \in DOMAIN celEnergy : m[2] = k[2] /\ m[3] = k[3] /\ ~m[4]}
           reported == {r \in DOMAIN e66 : <<r[2], r[3]>> = st}
           cut == [m \in same |-> <<m[1], m[2], m[3]>>]
<1>0. ReportTypes /\ TablesFollow
  BY DEF ReportInv
<1>1. /\ \A m \in DOMAIN celEnergy : ~m[4] =>
            /\ m = <<m[1], m[2], m[3], FALSE>>
            /\ <<m[1], m[2], m[3]>> \in DOMAIN e66
            /\ celEnergy[m] = e66[<<m[1], m[2], m[3]>>]
            /\ celEnergy[m] \in Nat
      /\ \A r \in DOMAIN e66 :
            /\ r = <<r[1], r[2], r[3]>>
            /\ <<r[1], r[2], r[3], FALSE>> \in DOMAIN celEnergy
  BY SettledRows
<1>2. Summed(Group(p)) = [s \in {<<r[2], r[3]>> : r \in DOMAIN e66} |->
                            Plus(e66, {r \in DOMAIN e66 : <<r[2], r[3]>> = s})]
  BY DEF Summed
<1> HIDE DEF e66
<1>3. st \in {<<r[2], r[3]>> : r \in DOMAIN e66}
  <2>1. <<k[1], k[2], k[3]>> \in DOMAIN e66
    BY <1>1
  <2> QED
    BY <2>1
<1>4. st \in DOMAIN Summed(Group(p)) /\ Summed(Group(p))[st] = Plus(e66, reported)
  BY <1>2, <1>3
<1>5. st \in DOMAIN E31Slots(Group(p)) /\ E31Slots(Group(p))[st] = Plus(e66, reported)
  BY <1>4 DEF CleanSeries
<1>6. st \in DOMAIN community /\ community[st] = E31Slots(Group(p))[st]
  BY <1>5, SettledAggregate
<1>7. IsFiniteSet(same)
  <2> DEFINE of == [i \in Positions |-> <<Header(i).meter, k[2], k[3], FALSE>>]
  <2>1. ASSUME NEW m \in same PROVE m \in Image(of, Positions)
    <3>1. PICK i \in Positions : m \in KeysOf(Header(i))
      BY <1>0 DEF TablesFollow, LastIn, Wrote
    <3>2. m[1] = Header(i).meter
      BY <1>0, <3>1, RowIsCel
    <3>3. m = of[i]
      BY <1>1, <3>2
    <3> QED
      BY <3>3 DEF Image
  <2>2. IsFiniteSet(Positions)
    BY <1>0, PositionsAreFinite
  <2>3. IsFiniteSet(Image(of, Positions))
    BY <2>2, ImageIsFinite
  <2> HIDE DEF same, of
  <2> QED
    BY <2>1, <2>3, FS_Subset
<1>8. Image(cut, same) = reported
  <2>1. ASSUME NEW m \in same PROVE cut[m] \in reported
    BY <1>1
  <2>2. ASSUME NEW r \in reported PROVE \E m \in same : r = cut[m]
    <3> DEFINE m == <<r[1], r[2], r[3], FALSE>>
    <3>1. r = <<r[1], r[2], r[3]>> /\ m \in DOMAIN celEnergy
      BY <1>1
    <3>2. r[2] = k[2] /\ r[3] = k[3]
      OBVIOUS
    <3>3. m \in same
      BY <3>1, <3>2
    <3> QED
      BY <3>1, <3>3
  <2> HIDE DEF same, reported, cut
  <2> QED
    BY <2>1, <2>2 DEF Image
<1>9. /\ \A m \in same : celEnergy[m] \in Nat /\ e66[cut[m]] = celEnergy[m]
      /\ \A m, n \in same : cut[m] = cut[n] => m = n
  <2>1. \A m \in same : /\ m \in DOMAIN celEnergy /\ ~m[4]
                         /\ cut[m] = <<m[1], m[2], m[3]>>
    OBVIOUS
  <2>2. ASSUME NEW m \in same, NEW n \in same, cut[m] = cut[n] PROVE m = n
    <3>1. m[1] = n[1] /\ m[2] = n[2] /\ m[3] = n[3]
      BY <2>1, <2>2
    <3>2. m = <<m[1], m[2], m[3], FALSE>> /\ n = <<n[1], n[2], n[3], FALSE>>
      BY <1>1, <2>1
    <3> QED
      BY <3>1, <3>2
  <2> HIDE DEF same, cut
  <2> QED
    BY <1>1, <2>1, <2>2
<1>10. SumOf(celEnergy, same) = SumOf(e66, reported)
  <2> HIDE DEF same, reported, cut
  <2> QED
    BY <1>7, <1>8, <1>9, SumOfMapped
<1> HIDE DEF same, reported
<1>11. Plus(celEnergy, same) = Plus(e66, reported)
  BY <1>10, PlusIs
<1> QED
  BY <1>5, <1>6, <1>11 DEF same

LEMMA NoOffenderAddsUp == ReportInv => NoOffenderMeansLegsAddUp
<1> SUFFICES ASSUME ReportInv, NEW p \in Periods,
                    Settled(p), Offenders(Group(p)) = {},
                    NEW k \in DOMAIN celEnergy, ~k[4], k[2][2] = "total",
                    {<<k[1], <<k[2][1], "cel">>, k[3], k[4]>>,
                     <<k[1], <<k[2][1], "grid">>, k[3], k[4]>>} \subseteq DOMAIN celEnergy
             PROVE  celEnergy[k] = celEnergy[<<k[1], <<k[2][1], "cel">>, k[3], k[4]>>]
                                   + celEnergy[<<k[1], <<k[2][1], "grid">>, k[3], k[4]>>]
  BY DEF NoOffenderMeansLegsAddUp
<1> DEFINE e66 == E66Slots(Group(p))
           leg(s) == <<k[1], <<k[2][1], s>>, k[3], k[4]>>
           cel == <<k[1], <<k[2][1], "cel">>, k[3]>>
           grid == <<k[1], <<k[2][1], "grid">>, k[3]>>
           r == <<k[1], k[2], k[3]>>
<1>1. r \in DOMAIN e66 /\ celEnergy[k] = e66[r]
  BY SettledRows
<1>2. cel \in DOMAIN e66 /\ celEnergy[leg("cel")] = e66[cel]
  <2>1. leg("cel") \in DOMAIN celEnergy /\ ~leg("cel")[4]
    OBVIOUS
  <2> QED
    BY <2>1, SettledRows
<1>3. grid \in DOMAIN e66 /\ celEnergy[leg("grid")] = e66[grid]
  <2>1. leg("grid") \in DOMAIN celEnergy /\ ~leg("grid")[4]
    OBVIOUS
  <2> QED
    BY <2>1, SettledRows
<1>4. Offenders(Group(p)) = {q \in DOMAIN e66 :
          LET c == <<q[1], <<q[2][1], "cel">>, q[3]>>
              g == <<q[1], <<q[2][1], "grid">>, q[3]>>
          IN /\ q[2][2] = "total" /\ {c, g} \subseteq DOMAIN e66
             /\ e66[q] # e66[c] + e66[g]}
  BY DEF Offenders
<1> HIDE DEF e66
<1>5. e66[r] = e66[cel] + e66[grid]
  BY <1>1, <1>2, <1>3, <1>4
<1> QED
  BY <1>1, <1>2, <1>3, <1>5

ProductionSeries == <<"production", "total">>

\* Of a meter declared for production, a file with its production total is one
\* that ingestion writes.
LEMMA ProducedIsWritten ==
    ASSUME ReportTypes, NEW p, NEW c, NEW i \in TotalsOf(Group(p), c, "production")
    PROVE  /\ i \in Positions /\ Header(i).meter \in MetersOf(c, "production")
           /\ Series(Header(i)) = ProductionSeries
           /\ \A t \in Header(i).slots :
                 <<Header(i).meter, ProductionSeries, t, FALSE>> \in KeysOf(Header(i))
<1>1. PICK m \in MetersOf(c, "production") : i \in ProductionTotal(Group(p), m)
  BY DEF TotalsOf
<1>2. /\ i \in Positions /\ ~Header(i).rcp /\ Header(i).meter = m
      /\ Series(Header(i)) = ProductionSeries
  BY <1>1 DEF ProductionTotal, Group, ProductionSeries
<1>3. m \in DOMAIN Owners /\ Owners[m].role = "production"
  BY DEF MetersOf
<1>4. /\ Header(i).point = "production" /\ Header(i).segment = "total"
  BY <1>2 DEF Series, ProductionSeries
<1>5. Header(i).rcp = FALSE /\ Header(i).type = "E66"
  BY <1>2, <1>3, HeadersAre, CandidatesAssumption, OwnersAssumption
<1>6. Ingested(Header(i))
  BY <1>2, <1>3, <1>4, OwnersAssumption DEF Ingested, Classified, AgainstRole
<1>7. \A t \in Header(i).slots :
         <<Header(i).meter, ProductionSeries, t, FALSE>> \in KeysOf(Header(i))
  BY <1>2, <1>5, <1>6, KeysAre DEF EnergyKey
<1> QED
  BY <1>1, <1>2, <1>7

\* As many files as meters, no two of one meter: every meter has one.
LEMMA EveryMeterReported ==
    ASSUME ReportTypes, NEW p, NEW c, Comparable(Group(p), c),
           \A i, j \in TotalsOf(Group(p), c, "production") :
              Header(i).meter = Header(j).meter => i = j
    PROVE  \A m \in MetersOf(c, "production") :
              \E i \in TotalsOf(Group(p), c, "production") : Header(i).meter = m
<1> DEFINE produced == TotalsOf(Group(p), c, "production")
           meters == MetersOf(c, "production")
           of == [i \in produced |-> Header(i).meter]
<1>1. \A i \in produced : Header(i).meter \in meters
  BY ProducedIsWritten
<1>2. Cardinality(produced) = Cardinality(meters)
  BY DEF Comparable
<1>3. IsFiniteSet(meters)
  BY OwnersAssumption, FS_Subset DEF MetersOf
<1> HIDE DEF produced, meters
<1>4. of \in Injection(produced, meters)
  BY <1>1 DEF Injection, IsInjective, produced
<1>5. of \in Surjection(produced, meters)
  BY <1>2, <1>3, <1>4, FS_Injection
<1>6. \A m \in meters : \E i \in produced : of[i] = m
  BY <1>5 DEF Surjection
<1> QED
  BY <1>6 DEF produced, meters

LEMMA AgreementStored == ReportInv => AgreementMeansCopiesAreStored
<1> SUFFICES
      ASSUME ReportInv, NEW p \in Periods,
             NEW c \in {Owners[m].customer : m \in DOMAIN Owners},
             failures = {},
             LET totals == {i \in Positions : Series(Header(i)) = ProductionSeries} IN
             \A i, j \in totals : Header(i).meter = Header(j).meter => i = j,
             Comparable(Group(p), c), Agrees(Group(p), c),
             NEW t \in SlotsIn(TotalsOf(Group(p), c, "consumption"))
      PROVE  SumAt(TotalsOf(Group(p), c, "consumption"), t)
             = Plus(celEnergy,
                 {k \in DOMAIN celEnergy :
                    /\ k[1] \in MetersOf(c, "production") /\ k[3] = t /\ ~k[4]
                    /\ k[2] = ProductionSeries})
  BY DEF AgreementMeansCopiesAreStored, ProductionSeries
<1> DEFINE produced == TotalsOf(Group(p), c, "production")
           T == {i \in produced : t \in Header(i).slots}
           measured == [i \in produced |-> Header(i).value]
           key == [i \in T |-> <<Header(i).meter, ProductionSeries, t, FALSE>>]
           K == {k \in DOMAIN celEnergy :
                    /\ k[1] \in MetersOf(c, "production") /\ k[3] = t /\ ~k[4]
                    /\ k[2] = ProductionSeries}
<1>0. ReportTypes /\ TablesFollow
  BY DEF ReportInv
<1>1. SumAt(TotalsOf(Group(p), c, "consumption"), t) = SumAt(produced, t)
  BY DEF Agrees
<1>2. SumAt(produced, t) = SumOf(measured, T)
  BY PlusIs DEF SumAt
<1>3. \A i \in produced :
         /\ i \in Positions /\ Header(i).meter \in MetersOf(c, "production")
         /\ Series(Header(i)) = ProductionSeries
         /\ \A u \in Header(i).slots :
               <<Header(i).meter, ProductionSeries, u, FALSE>> \in KeysOf(Header(i))
  BY <1>0, ProducedIsWritten
<1>4. \A i, j \in Positions :
         /\ Series(Header(i)) = ProductionSeries /\ Series(Header(j)) = ProductionSeries
         /\ Header(i).meter = Header(j).meter
         => i = j
  OBVIOUS
<1>5. \A m \in MetersOf(c, "production") : \E i \in produced : Header(i).meter = m
  <2>1. \A i, j \in produced : Header(i).meter = Header(j).meter => i = j
    BY <1>3, <1>4
  <2> QED
    BY <1>0, <2>1, EveryMeterReported
<1> HIDE DEF produced
<1>6. ASSUME NEW i \in T
      PROVE  /\ key[i] \in K /\ celEnergy[key[i]] = measured[i] /\ measured[i] \in Nat
  <2> DEFINE k == <<Header(i).meter, ProductionSeries, t, FALSE>>
  <2>1. i \in Positions /\ k \in KeysOf(Header(i)) /\ key[i] = k /\ measured[i] = Header(i).value
    BY <1>3
  <2>2. k \in DOMAIN celEnergy
    BY <1>0, <2>1 DEF TablesFollow
  <2>3. key[i] \in K
    BY <1>3, <2>1, <2>2
  <2>4. PICK j \in Positions : LastIn(Wrote(k), j) /\ celEnergy[k] = Header(j).value
    BY <1>0, <2>2 DEF TablesFollow
  <2>5. k \in KeysOf(Header(j))
    BY <2>4 DEF LastIn, Wrote
  <2>6. Series(Header(j)) = ProductionSeries /\ Header(j).meter = Header(i).meter
    BY <1>0, <2>5, RowIsCel
  <2>7. j = i
    BY <1>3, <1>4, <2>1, <2>6
  <2>8. Header(i).value \in Nat
    BY <1>0, <2>1, HeadersAre, CandidatesAssumption
  <2> QED
    BY <2>1, <2>3, <2>4, <2>7, <2>8
<1>7. ASSUME NEW k \in K PROVE \E i \in T : key[i] = k
  <2>1. PICK j \in Positions : k \in KeysOf(Header(j))
    BY <1>0 DEF TablesFollow, LastIn, Wrote
  <2>2. /\ Series(Header(j)) = ProductionSeries /\ Header(j).meter = k[1]
        /\ t \in Header(j).slots /\ k = <<k[1], k[2], k[3], k[4]>> /\ k[4] \in BOOLEAN
    BY <1>0, <2>1, RowIsCel
  <2>3. PICK i \in produced : Header(i).meter = k[1]
    BY <1>5
  <2>4. i = j
    BY <1>3, <1>4, <2>2, <2>3
  <2>5. i \in T
    BY <2>2, <2>3, <2>4
  <2>6. k[4] = FALSE
    BY <2>2
  <2>7. key[i] = k
    BY <2>2, <2>3, <2>5, <2>6
  <2> QED
    BY <2>5, <2>7
<1>8. ASSUME NEW i \in T, NEW j \in T, key[i] = key[j] PROVE i = j
  <2>1. Header(i).meter = Header(j).meter
    BY <1>8
  <2> QED
    BY <1>3, <1>4, <2>1
<1>9. IsFiniteSet(T)
  <2>1. T \subseteq Positions
    BY <1>3
  <2>2. IsFiniteSet(Positions)
    BY <1>0, PositionsAreFinite
  <2> QED
    BY <2>1, <2>2, FS_Subset
<1> HIDE DEF T, K, key, measured
<1>10. Image(key, T) = K
  BY <1>6, <1>7 DEF Image
<1>11. SumOf(measured, T) = SumOf(celEnergy, K)
  BY <1>6, <1>8, <1>9, <1>10, SumOfMapped
<1>12. Plus(celEnergy, K) = SumOf(celEnergy, K)
  BY PlusIs
<1> QED
  BY <1>1, <1>2, <1>11, <1>12 DEF K

\* For any candidates, declared meters and lengths, without failures: what the
\* three checks of the report find in order is in order in the tables
\* (CleanFiguresAreRight).
THEOREM CleanFigures == ReportSpec => []CleanFiguresAreRight
<1>1. ReportInv => CleanFiguresAreRight
  BY CleanMeansAgree, NoOffenderAddsUp, AgreementStored DEF CleanFiguresAreRight
<1> QED
  BY <1>1, ReportInvariance, PTL

=============================================================================
