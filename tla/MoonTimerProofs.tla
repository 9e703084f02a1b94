-------------------------- MODULE MoonTimerProofs ---------------------------
(***************************************************************************)
(* Theorems about MoonTimer: for any timers, counts and periods the tree   *)
(* of timers is right, running timers are scheduled, released ones are not *)
(* used, and counts end.                                                   *)
(*                                                                         *)
(* First the trees: what a tree, its leftmost node and a timer's id are    *)
(* after each of the operations.  The loop of timer_task that puts a chain *)
(* back is a recursive function; what it computes is shown by induction on *)
(* its turns, with the set of the numbers of turns after which the tree is *)
(* right.  Then the inductive invariant, one lemma per action, and the     *)
(* theorems.                                                               *)
(***************************************************************************)
EXTENDS MoonTimer, FiniteSetTheorems, SequenceTheorems, NaturalsInduction, WellFoundedInduction,
        TLAPS

\* Trees of chains of timers.
Trees == [Days -> Seq(Timers)]

\* No timer is twice in a tree.
Once(tr) ==
  \A d, e \in Days : \A i \in DOMAIN tr[d], j \in DOMAIN tr[e] :
    tr[d][i] = tr[e][j] => d = e /\ i = j

\* The first day with a chain.
FirstDay(tr, d) ==
  /\ d \in Days
  /\ tr[d] # <<>>
  /\ \A e \in Days : e < d => tr[e] = <<>>

-----------------------------------------------------------------------------
(* Trees *)

\* The days on which a timer may be due are numbers, and the periods are among
\* them.
LEMMA DaysAre ==
  /\ MaxPeriod \in Nat
  /\ Days \subseteq Int
  /\ -MaxLate \in Days
  /\ 0 \in Days
  /\ Periods \subseteq Days
  /\ \A d \in Int : d \in Days <=> -MaxLate <= d /\ d <= MaxPeriod
<1>1. MaxPeriod \in Periods \cup {0} /\ \A p \in Periods : p <= MaxPeriod
  <2> DEFINE P(m) == \A p \in Periods : p <= m
  <2>1. \E m \in Periods \cup {0} : P(m)
    BY TimerAssumption
  <2>2. MaxPeriod = CHOOSE m \in Periods \cup {0} : P(m)
    BY DEF MaxPeriod
  <2> HIDE DEF P
  <2>3. MaxPeriod \in Periods \cup {0} /\ P(MaxPeriod)
    BY <2>1, <2>2
  <2> QED
    BY <2>3 DEF P
<1>2. MaxPeriod \in Nat /\ MaxLate \in Nat /\ Periods \subseteq Nat
  BY <1>1, TimerAssumption
<1> QED
  BY <1>1, <1>2 DEF Days

\* A non-empty set of natural numbers has a least element.
LEMMA LeastNat ==
  ASSUME NEW T, T \subseteq Nat, T # {}
  PROVE  \E n \in T : \A m \in T : n <= m
<1>1. PICK n \in T : \A m \in T : ~(<<m, n>> \in OpToRel(<, Nat))
  BY NatLessThanWellFounded, WFMin
<1>2. \A m \in T : ~(m < n)
  BY <1>1 DEF OpToRel
<1> QED
  BY <1>2

\* A set that holds 0 and with every number the next holds all numbers.
LEMMA InductionOnSet ==
  ASSUME NEW S, 0 \in S, \A n \in Nat : n \in S => n + 1 \in S
  PROVE  Nat \subseteq S
<1> DEFINE T == Nat \ S
<1>1. SUFFICES ASSUME T # {} PROVE FALSE
  OBVIOUS
<1>2. PICK n \in T : \A m \in T : n <= m
  BY <1>1, LeastNat
<1>3. n # 0 /\ n \in Nat
  BY <1>2
<1>4. n - 1 \in Nat /\ n - 1 \notin T
  BY <1>2, <1>3
<1>5. n - 1 \in S /\ (n - 1) + 1 = n
  BY <1>4, <1>3
<1>6. n \in S
  BY <1>4, <1>5
<1> QED
  BY <1>6, <1>2

\* A tree that is not empty has a first day.
LEMMA FirstDayExists ==
  ASSUME NEW tr \in Trees, tr # EmptyTree
  PROVE  \E d \in Days : FirstDay(tr, d)
<1>1. \E d \in Days : tr[d] # <<>>
  BY DEF Trees, EmptyTree
<1> DEFINE T == {n \in Nat : n - MaxLate \in Days /\ tr[n - MaxLate] # <<>>}
<1>2. T # {}
  <2>1. PICK d \in Days : tr[d] # <<>>
    BY <1>1
  <2>2. d + MaxLate \in Nat /\ (d + MaxLate) - MaxLate = d
    BY DaysAre, TimerAssumption
  <2>3. d + MaxLate \in T
    BY <2>1, <2>2
  <2> QED
    BY <2>3
<1>3. PICK n \in T : \A m \in T : n <= m
  BY <1>2, LeastNat
<1>4. \A e \in Days : e < n - MaxLate => tr[e] = <<>>
  <2>1. SUFFICES ASSUME NEW e \in Days, e < n - MaxLate, tr[e] # <<>> PROVE FALSE
    OBVIOUS
  <2>2. e + MaxLate \in Nat /\ (e + MaxLate) - MaxLate = e /\ ~(n <= e + MaxLate)
    BY <2>1, DaysAre, TimerAssumption
  <2>3. e + MaxLate \in T
    BY <2>1, <2>2
  <2> QED
    BY <2>2, <2>3, <1>3
<1>5. FirstDay(tr, n - MaxLate)
  BY <1>3, <1>4 DEF FirstDay
<1> QED
  BY <1>5 DEF FirstDay

\* avl_leftest_node returns the head of the chain of the first day.
LEMMA LeftestIs ==
  ASSUME NEW tr \in Trees, NEW d, FirstDay(tr, d)
  PROVE  /\ tr # EmptyTree
         /\ d \in Days /\ tr[d] \in Seq(Timers) /\ Len(tr[d]) > 0
         /\ Leftest(tr) = tr[d][1]
         /\ Leftest(tr) \in Timers
         /\ Leftest(tr) # NULL
<1>1. tr # EmptyTree /\ d \in Days /\ tr[d] \in Seq(Timers) /\ Len(tr[d]) > 0
  BY DEF FirstDay, Trees, EmptyTree
<1> DEFINE P(k) == tr[k] # <<>> /\ \A e \in Days : e < k => tr[e] = <<>>
<1>2. P(d)
  BY DEF FirstDay
<1>3. \A k \in Days : P(k) => k = d
  BY <1>1, <1>2, DaysAre
<1>4. Leftest(tr) = Head(tr[CHOOSE k \in Days : P(k)])
  BY <1>1 DEF Leftest
<1> HIDE DEF P
<1>5. (CHOOSE k \in Days : P(k)) = d
  BY <1>1, <1>2, <1>3
<1>6. Leftest(tr) = Head(tr[d])
  BY <1>4, <1>5
<1>7. Leftest(tr) = tr[d][1]
  BY <1>1, <1>6
<1> QED
  BY <1>1, <1>7, TimerAssumption

\* The leftmost node of the empty tree is NULL, that of another one a timer
\* that is in the tree.
LEMMA LeftestNull ==
  ASSUME NEW tr \in Trees
  PROVE  /\ tr = EmptyTree => Leftest(tr) = NULL
         /\ tr # EmptyTree => Leftest(tr) \in Timers /\ InTree(tr, Leftest(tr))
         /\ Leftest(tr) = NULL <=> tr = EmptyTree
<1>1. tr = EmptyTree => Leftest(tr) = NULL
  BY DEF Leftest
<1>2. ASSUME tr # EmptyTree
      PROVE  Leftest(tr) \in Timers /\ InTree(tr, Leftest(tr)) /\ Leftest(tr) # NULL
  <2>1. PICK d \in Days : FirstDay(tr, d)
    BY <1>2, FirstDayExists
  <2>2. /\ d \in Days /\ tr[d] \in Seq(Timers) /\ Len(tr[d]) > 0
        /\ Leftest(tr) = tr[d][1]
        /\ Leftest(tr) \in Timers
        /\ Leftest(tr) # NULL
    BY <2>1, LeftestIs
  <2>3. Contains(tr[d], Leftest(tr))
    BY <2>2 DEF Contains
  <2> QED
    BY <2>2, <2>3 DEF InTree
<1> QED
  BY <1>1, <1>2

\* A timer that is in the tree at one place has the id of that chain.
LEMMA IdIs ==
  ASSUME NEW tr \in Trees, Once(tr), NEW d \in Days, NEW i \in DOMAIN tr[d]
  PROVE  Id(tr, tr[d][i]) = d /\ InTree(tr, tr[d][i])
<1> DEFINE P(k) == Contains(tr[k], tr[d][i])
<1>1. tr[d] \in Seq(Timers)
  BY DEF Trees
<1>2. P(d)
  BY <1>1 DEF Contains
<1>3. ASSUME NEW k \in Days, P(k) PROVE k = d
  <2>1. PICK j \in 1 .. Len(tr[k]) : tr[k][j] = tr[d][i]
    BY <1>3 DEF Contains
  <2>2. j \in DOMAIN tr[k]
    BY <2>1 DEF Trees
  <2> QED
    BY <2>1, <2>2 DEF Once
<1>4. Id(tr, tr[d][i]) = CHOOSE k \in Days : P(k)
  BY DEF Id
<1>5. InTree(tr, tr[d][i])
  BY <1>2 DEF InTree
<1> HIDE DEF P
<1>6. (CHOOSE k \in Days : P(k)) = d
  BY <1>2, <1>3
<1> QED
  BY <1>4, <1>5, <1>6

\* A timer in the tree has a place.
LEMMA PlaceOf ==
  ASSUME NEW tr \in Trees, NEW tm, InTree(tr, tm)
  PROVE  \E d \in Days : \E i \in DOMAIN tr[d] : tr[d][i] = tm
<1>1. PICK d \in Days : Contains(tr[d], tm)
  BY DEF InTree
<1>2. PICK i \in 1 .. Len(tr[d]) : tr[d][i] = tm
  BY <1>1 DEF Contains
<1>3. i \in DOMAIN tr[d]
  BY <1>2 DEF Trees
<1> QED
  BY <1>2, <1>3

\* A place in a tree makes its timer one of the tree.
LEMMA PlaceIn ==
  ASSUME NEW tr \in Trees, NEW d \in Days, NEW i \in DOMAIN tr[d]
  PROVE  InTree(tr, tr[d][i]) /\ tr[d][i] \in Timers
<1>1. tr[d] \in Seq(Timers)
  BY DEF Trees
<1>2. Contains(tr[d], tr[d][i])
  BY <1>1 DEF Contains
<1> QED
  BY <1>1, <1>2 DEF InTree

-----------------------------------------------------------------------------
(* Operations on trees *)

\* A chain after dlist_append behind its head.
Longer(c, tm) == IF c = <<>> THEN <<tm>> ELSE <<Head(c), tm>> \o Tail(c)

\* What a chain looks like when a timer is put behind its head.
LEMMA LongerIs ==
  ASSUME NEW c \in Seq(Timers), NEW tm \in Timers
  PROVE  /\ Longer(c, tm) \in Seq(Timers)
         /\ Len(Longer(c, tm)) = Len(c) + 1
         /\ c = <<>> => Longer(c, tm)[1] = tm
         /\ c # <<>> => /\ Longer(c, tm)[1] = c[1]
                        /\ Longer(c, tm)[2] = tm
                        /\ \A i \in 2 .. Len(c) : Longer(c, tm)[i + 1] = c[i]
<1>1. CASE c = <<>>
  BY <1>1 DEF Longer
<1>2. CASE c # <<>>
  <2>1. Len(c) \in Nat /\ Len(c) > 0 /\ Head(c) = c[1] /\ Head(c) \in Timers
    BY <1>2
  <2>2. /\ Tail(c) \in Seq(Timers) /\ Len(Tail(c)) = Len(c) - 1
        /\ \A i \in 1 .. Len(c) - 1 : Tail(c)[i] = c[i + 1]
    BY <1>2
  <2> DEFINE h == <<Head(c), tm>>
  <2>3. h \in Seq(Timers) /\ Len(h) = 2 /\ h[1] = c[1] /\ h[2] = tm
    BY <2>1
  <2>4. Longer(c, tm) = h \o Tail(c)
    BY <1>2 DEF Longer
  <2> HIDE DEF h
  <2>5. /\ Longer(c, tm) \in Seq(Timers) /\ Len(Longer(c, tm)) = Len(c) + 1
        /\ Longer(c, tm)[1] = c[1] /\ Longer(c, tm)[2] = tm
    <3>1. /\ h \o Tail(c) \in Seq(Timers)
          /\ Len(h \o Tail(c)) = Len(h) + Len(Tail(c))
          /\ \A i \in 1 .. Len(h) + Len(Tail(c)) :
               (h \o Tail(c))[i] = IF i <= Len(h) THEN h[i] ELSE Tail(c)[i - Len(h)]
      BY <2>2, <2>3, ConcatProperties
    <3>2. 1 \in 1 .. Len(h) + Len(Tail(c)) /\ 2 \in 1 .. Len(h) + Len(Tail(c))
      BY <2>1, <2>2, <2>3
    <3> QED
      BY <3>1, <3>2, <2>1, <2>2, <2>3, <2>4
  <2>6. ASSUME NEW i \in 2 .. Len(c) PROVE Longer(c, tm)[i + 1] = c[i]
    <3>1. i + 1 \in 3 .. Len(h) + Len(Tail(c)) /\ (i + 1) - Len(h) = i - 1
      BY <2>1, <2>2, <2>3
    <3>2. (h \o Tail(c))[i + 1] = Tail(c)[i - 1]
      <4>1. \A k \in 1 .. Len(h) + Len(Tail(c)) :
              (h \o Tail(c))[k] = IF k <= Len(h) THEN h[k] ELSE Tail(c)[k - Len(h)]
        BY <2>2, <2>3, ConcatProperties
      <4>2. /\ i + 1 \in 1 .. Len(h) + Len(Tail(c)) /\ ~(i + 1 <= Len(h))
            /\ (i + 1) - Len(h) = i - 1
        BY <3>1, <2>3
      <4> QED
        BY <4>1, <4>2
    <3>3. i - 1 \in 1 .. Len(c) - 1 /\ (i - 1) + 1 = i
      BY <2>1
    <3>4. Tail(c)[i - 1] = c[i]
      BY <3>3, <2>2
    <3> QED
      BY <3>2, <3>4, <2>4
  <2> QED
    BY <1>2, <2>5, <2>6
<1> QED
  BY <1>1, <1>2

\* Every place of the longer chain is that of the new timer or stands for an
\* old place, and different places for different ones.
LEMMA LongerPlaces ==
  ASSUME NEW c \in Seq(Timers), NEW tm \in Timers
  PROVE  \E f \in [1 .. Len(c) + 1 -> 0 .. Len(c)] :
           /\ \A i \in 1 .. Len(c) + 1 :
                IF f[i] = 0 THEN Longer(c, tm)[i] = tm ELSE Longer(c, tm)[i] = c[f[i]]
           /\ \A i, j \in 1 .. Len(c) + 1 : f[i] = f[j] => i = j
           /\ \A k \in 0 .. Len(c) : \E i \in 1 .. Len(c) + 1 : f[i] = k
<1> DEFINE n == Len(c)
<1>0. n \in Nat
  OBVIOUS
<1>1. CASE c = <<>>
  <2> DEFINE f == [i \in 1 .. n + 1 |-> 0]
  <2>1. n = 0 /\ f \in [1 .. n + 1 -> 0 .. n]
    BY <1>1
  <2>2. \A i \in 1 .. n + 1 : f[i] = 0 /\ i = 1 /\ Longer(c, tm)[i] = tm
    <3>1. Longer(c, tm)[1] = tm
      BY <1>1, LongerIs
    <3>2. \A i \in 1 .. n + 1 : i = 1
      BY <2>1
    <3> QED
      BY <3>1, <3>2
  <2>3. \A k \in 0 .. n : f[1] = k /\ 1 \in 1 .. n + 1
    BY <2>1
  <2> HIDE DEF f
  <2> QED
    BY <2>1, <2>2, <2>3
<1>2. CASE c # <<>>
  <2>0. n > 0
    BY <1>2
  <2> DEFINE f == [i \in 1 .. n + 1 |-> IF i = 1 THEN 1 ELSE IF i = 2 THEN 0 ELSE i - 1]
  <2>1. f \in [1 .. n + 1 -> 0 .. n]
    BY <1>0, <2>0
  <2>2. \A i, j \in 1 .. n + 1 : f[i] = f[j] => i = j
    BY <1>0, <2>0
  <2>3. ASSUME NEW k \in 0 .. n PROVE \E i \in 1 .. n + 1 : f[i] = k
    <3>1. k = 0 => 2 \in 1 .. n + 1 /\ f[2] = k
      BY <1>0, <2>0
    <3>2. k = 1 => 1 \in 1 .. n + 1 /\ f[1] = k
      BY <1>0, <2>0
    <3>3. k > 1 => k + 1 \in 1 .. n + 1 /\ f[k + 1] = k
      BY <1>0, <2>0
    <3> QED
      <4>1. k = 0 \/ k = 1 \/ k > 1
        BY <1>0
      <4> HIDE DEF f
      <4> QED
        BY <4>1, <3>1, <3>2, <3>3
  <2>4. ASSUME NEW i \in 1 .. n + 1
        PROVE  IF f[i] = 0 THEN Longer(c, tm)[i] = tm ELSE Longer(c, tm)[i] = c[f[i]]
    <3>1. CASE i = 1
      BY <3>1, <1>2, LongerIs
    <3>2. CASE i = 2
      BY <3>2, <1>2, LongerIs
    <3>3. CASE i > 2
      <4>1. i - 1 \in 2 .. n /\ (i - 1) + 1 = i /\ f[i] = i - 1
        BY <3>3, <1>0, <2>0
      <4>2. Longer(c, tm)[(i - 1) + 1] = c[i - 1]
        BY <4>1, <1>2, LongerIs
      <4> QED
        BY <4>1, <4>2, <3>3
    <3> QED
      BY <3>1, <3>2, <3>3, <1>0
  <2> HIDE DEF f
  <2> QED
    BY <2>1, <2>2, <2>3, <2>4
<1> QED
  BY <1>1, <1>2

\* A tree after a timer is put into the chain of a day: it is in there, and
\* nothing else has changed.
LEMMA AddIs ==
  ASSUME NEW tr \in Trees, Once(tr), NEW tm \in Timers, ~InTree(tr, tm), NEW d \in Days
  PROVE  /\ Add(tr, tm, d) \in Trees
         /\ Once(Add(tr, tm, d))
         /\ \A x : InTree(Add(tr, tm, d), x) <=> x = tm \/ InTree(tr, x)
<1> DEFINE c == tr[d]
           new == Add(tr, tm, d)
           n == Len(c)
<1>1. /\ c \in Seq(Timers) /\ n \in Nat /\ DOMAIN c = 1 .. n
      /\ \A e \in Days : tr[e] \in Seq(Timers) /\ DOMAIN tr[e] = 1 .. Len(tr[e])
  BY DEF Trees
<1>2. new = [tr EXCEPT ![d] = Longer(c, tm)]
  BY DEF Add, Longer
<1>3. /\ Longer(c, tm) \in Seq(Timers) /\ Len(Longer(c, tm)) = n + 1
      /\ DOMAIN Longer(c, tm) = 1 .. n + 1
  <2>1. Longer(c, tm) \in Seq(Timers) /\ Len(Longer(c, tm)) = n + 1
    BY <1>1, LongerIs, Zenon
  <2> QED
    BY <2>1
<1>4. PICK f \in [1 .. n + 1 -> 0 .. n] :
           /\ \A i \in 1 .. n + 1 :
                IF f[i] = 0 THEN Longer(c, tm)[i] = tm ELSE Longer(c, tm)[i] = c[f[i]]
           /\ \A i, j \in 1 .. n + 1 : f[i] = f[j] => i = j
           /\ \A k \in 0 .. n : \E i \in 1 .. n + 1 : f[i] = k
  BY <1>1, LongerPlaces
<1>5. new \in Trees
  BY <1>2, <1>3 DEF Trees
<1>6. /\ new[d] = Longer(c, tm) /\ DOMAIN new[d] = 1 .. n + 1 /\ Len(new[d]) = n + 1
      /\ \A e \in Days : e # d => new[e] = tr[e]
  BY <1>2, <1>3 DEF Trees
<1> HIDE DEF new, n
<1>7. \A e \in Days : \A i \in DOMAIN tr[e] : tr[e][i] # tm
  BY PlaceIn
<1>8. \A i \in 1 .. n + 1 : f[i] # 0 => f[i] \in DOMAIN tr[d] /\ new[d][i] = tr[d][f[i]]
  BY <1>1, <1>4, <1>6
<1>9. \A i \in 1 .. n + 1 : f[i] = 0 => new[d][i] = tm
  BY <1>4, <1>6
<1>10. Once(new)
  <2>1. SUFFICES ASSUME NEW e \in Days, NEW g \in Days, NEW i \in DOMAIN new[e],
                        NEW j \in DOMAIN new[g], new[e][i] = new[g][j]
                 PROVE  e = g /\ i = j
    BY DEF Once
  <2>2. CASE e = d /\ g = d
    <3>1. i \in 1 .. n + 1 /\ j \in 1 .. n + 1
      BY <2>2, <1>6
    <3>2. f[i] = f[j]
      BY <2>1, <2>2, <3>1, <1>7, <1>8, <1>9 DEF Once
    <3> QED
      BY <2>2, <3>1, <3>2, <1>4
  <2>3. CASE e = d /\ g # d
    <3>1. i \in 1 .. n + 1 /\ new[g] = tr[g]
      BY <2>3, <1>6
    <3> QED
      BY <2>1, <2>3, <3>1, <1>7, <1>8, <1>9 DEF Once
  <2>4. CASE e # d /\ g = d
    <3>1. j \in 1 .. n + 1 /\ new[e] = tr[e]
      BY <2>4, <1>6
    <3> QED
      BY <2>1, <2>4, <3>1, <1>7, <1>8, <1>9 DEF Once
  <2>5. CASE e # d /\ g # d
    <3>1. new[e] = tr[e] /\ new[g] = tr[g]
      BY <2>5, <1>6
    <3> QED
      BY <2>1, <3>1 DEF Once
  <2> QED
    BY <2>2, <2>3, <2>4, <2>5
<1>11. ASSUME NEW x, InTree(new, x) PROVE x = tm \/ InTree(tr, x)
  <2>1a. PICK e \in Days : \E i \in DOMAIN new[e] : new[e][i] = x
    BY <1>5, <1>11, PlaceOf
  <2>1. PICK i \in DOMAIN new[e] : new[e][i] = x
    BY <2>1a
  <2>2. CASE e = d
    <3>1. i \in 1 .. n + 1
      BY <2>2, <1>6
    <3>2. CASE f[i] = 0
      BY <2>1, <2>2, <3>1, <3>2, <1>9
    <3>3. CASE f[i] # 0
      BY <2>1, <2>2, <3>1, <3>3, <1>8, PlaceIn
    <3> QED
      BY <3>2, <3>3
  <2>3. CASE e # d
    BY <2>1, <2>3, <1>6, PlaceIn
  <2> QED
    BY <2>2, <2>3
<1>12. InTree(new, tm)
  <2>1. PICK i \in 1 .. n + 1 : f[i] = 0
    BY <1>1, <1>4
  <2> QED
    BY <2>1, <1>5, <1>6, <1>9, PlaceIn
<1>13. ASSUME NEW x, InTree(tr, x) PROVE InTree(new, x)
  <2>1a. PICK e \in Days : \E k \in DOMAIN tr[e] : tr[e][k] = x
    BY <1>13, PlaceOf
  <2>1. PICK k \in DOMAIN tr[e] : tr[e][k] = x
    BY <2>1a
  <2>2. CASE e = d
    <3>1. k \in 0 .. n /\ k # 0
      BY <2>1, <2>2, <1>1 DEF n
    <3>2. PICK i \in 1 .. n + 1 : f[i] = k
      BY <3>1, <1>4
    <3>3. new[d][i] = x /\ i \in DOMAIN new[d]
      BY <2>1, <2>2, <3>1, <3>2, <1>6, <1>8
    <3> QED
      BY <3>3, <1>5, PlaceIn
  <2>3. CASE e # d
    BY <2>1, <2>3, <1>5, <1>6, PlaceIn
  <2> QED
    BY <2>2, <2>3
<1> QED
  BY <1>5, <1>10, <1>11, <1>12, <1>13 DEF new

\* timer_join_avl keeps the cached pointer right by comparing the new timer with
\* the cached one only.
LEMMA LeftestAfterAdd ==
  ASSUME NEW tr \in Trees, Once(tr), NEW tm \in Timers, ~InTree(tr, tm), NEW d \in Days
  PROVE  Leftest(Add(tr, tm, d)) =
           IF Leftest(tr) = NULL \/ d < Id(tr, Leftest(tr)) THEN tm ELSE Leftest(tr)
<1> DEFINE c == tr[d]
           new == Add(tr, tm, d)
<1>1. /\ c \in Seq(Timers) /\ \A e \in Days : tr[e] \in Seq(Timers)
      /\ Days \subseteq Int
  BY DaysAre DEF Trees
<1>2. new \in Trees
  BY AddIs
<1>3. new = [tr EXCEPT ![d] = Longer(c, tm)]
  BY DEF Add, Longer
<1>4. /\ Longer(c, tm) # <<>>
      /\ c = <<>> => Longer(c, tm)[1] = tm
      /\ c # <<>> => Longer(c, tm)[1] = c[1]
  <2>0. Len(Longer(c, tm)) = Len(c) + 1
    BY <1>1, LongerIs, Zenon
  <2>1. Len(Longer(c, tm)) = Len(c) + 1 /\ Len(c) \in Nat
    BY <1>1, <2>0
  <2>2. Longer(c, tm) # <<>>
    BY <2>1
  <2> QED
    BY <1>1, <2>2, LongerIs
<1>5. new[d] = Longer(c, tm) /\ \A e \in Days : e # d => new[e] = tr[e]
  BY <1>3 DEF Trees
<1> HIDE DEF new
<1>6. CASE tr = EmptyTree
  <2>1. \A e \in Days : tr[e] = <<>>
    BY <1>6 DEF EmptyTree
  <2>2. FirstDay(new, d)
    BY <2>1, <1>4, <1>5, <1>1 DEF FirstDay
  <2>3. Leftest(new) = tm
    BY <2>1, <2>2, <1>2, <1>4, <1>5, LeftestIs
  <2>4. Leftest(tr) = NULL
    BY <1>6, LeftestNull
  <2> QED
    BY <2>3, <2>4 DEF new
<1>7. CASE tr # EmptyTree
  <2>1. PICK g \in Days : FirstDay(tr, g)
    BY <1>7, FirstDayExists
  <2>2. Len(tr[g]) > 0 /\ Leftest(tr) = tr[g][1] /\ Leftest(tr) # NULL
    BY <2>1, LeftestIs
  <2>3. Id(tr, Leftest(tr)) = g
    <3>1. 1 \in DOMAIN tr[g]
      BY <2>2, <1>1
    <3> QED
      BY <3>1, <2>2, IdIs
  <2>4. tr[g] # <<>> /\ \A e \in Days : e < g => tr[e] = <<>>
    BY <2>1 DEF FirstDay
  <2>5. CASE d < g
    <3>1. FirstDay(new, d) /\ c = <<>>
      BY <2>4, <2>5, <1>1, <1>4, <1>5 DEF FirstDay
    <3>2. Leftest(new) = tm
      BY <3>1, <1>2, <1>4, <1>5, LeftestIs
    <3> QED
      BY <2>2, <2>3, <2>5, <3>2 DEF new
  <2>6. CASE ~(d < g)
    <3>1. FirstDay(new, g)
      BY <2>4, <2>6, <1>1, <1>4, <1>5 DEF FirstDay
    <3>2. Leftest(new) = new[g][1]
      BY <3>1, <1>2, LeftestIs
    <3>3. new[g][1] = tr[g][1]
      BY <2>4, <1>4, <1>5
    <3> QED
      BY <2>2, <2>3, <2>6, <3>2, <3>3 DEF new
  <2> QED
    BY <2>5, <2>6
<1> QED
  BY <1>6, <1>7

\* The place in a shorter chain that an old place stands for when place k is
\* taken out.
Old(k, i) == IF i < k THEN i ELSE i + 1

\* dlist_del takes one place out of a chain and keeps the others in order.
LEMMA DlistDelIs ==
  ASSUME NEW tr \in Trees, Once(tr), NEW d \in Days, NEW k \in DOMAIN tr[d]
  PROVE  /\ dlist_del(tr[d], tr[d][k]) \in Seq(Timers)
         /\ Len(dlist_del(tr[d], tr[d][k])) = Len(tr[d]) - 1
         /\ \A i \in 1 .. Len(tr[d]) - 1 :
              /\ dlist_del(tr[d], tr[d][k])[i] = tr[d][Old(k, i)]
              /\ Old(k, i) \in DOMAIN tr[d] /\ Old(k, i) # k
<1> DEFINE c == tr[d]
           n == Len(c)
           P(i) == c[i] = c[k]
<1>1. c \in Seq(Timers) /\ n \in Nat /\ DOMAIN c = 1 .. n /\ k \in 1 .. n
  BY DEF Trees
<1>2. \A i \in DOMAIN c : P(i) => i = k
  BY DEF Once
<1>3. P(k)
  OBVIOUS
<1>4. (CHOOSE i \in DOMAIN c : P(i)) = k
  <2> HIDE DEF P, c
  <2> QED
    BY <1>1, <1>2, <1>3
<1>5. dlist_del(c, c[k]) = [i \in 1 .. n - 1 |-> IF i < k THEN c[i] ELSE c[i + 1]]
  BY <1>4 DEF dlist_del
<1>6. \A i \in 1 .. n - 1 :
        /\ Old(k, i) \in 1 .. n /\ Old(k, i) # k
        /\ (IF i < k THEN c[i] ELSE c[i + 1]) = c[Old(k, i)]
  <2> HIDE DEF n
  <2> QED
    BY <1>1 DEF Old
<1>7. \A i \in 1 .. n : c[i] \in Timers
  BY <1>1
<1>8. n - 1 \in Nat
  BY <1>1
<1> HIDE DEF n, c
<1>9. dlist_del(c, c[k]) = [i \in 1 .. n - 1 |-> c[Old(k, i)]]
  BY <1>5, <1>6
<1>10. dlist_del(c, c[k]) \in [1 .. n - 1 -> Timers]
  BY <1>6, <1>7, <1>9
<1>11. dlist_del(c, c[k]) \in Seq(Timers) /\ Len(dlist_del(c, c[k])) = n - 1
  BY <1>8, <1>10, LenProperties, SeqDef
<1>12. \A i \in 1 .. n - 1 :
         /\ dlist_del(c, c[k])[i] = c[Old(k, i)]
         /\ Old(k, i) \in DOMAIN c /\ Old(k, i) # k
  BY <1>1, <1>6, <1>9
<1> QED
  BY <1>11, <1>12 DEF n, c

\* What timer_leave_avl does with the tree when the timer is in it.
LEMMA TakeOutIs ==
  ASSUME NEW tr \in Trees, Once(tr), NEW tm, InTree(tr, tm)
  PROVE  /\ TakeOut(tr, tm) \in Trees
         /\ Once(TakeOut(tr, tm))
         /\ \A x : InTree(TakeOut(tr, tm), x) <=> InTree(tr, x) /\ x # tm
         /\ \A x : InTree(TakeOut(tr, tm), x) => Id(TakeOut(tr, tm), x) = Id(tr, x)
         /\ Leftest(tr) # tm => Leftest(TakeOut(tr, tm)) = Leftest(tr)
<1>1a. PICK d \in Days : \E k \in DOMAIN tr[d] : tr[d][k] = tm
  BY PlaceOf
<1>1. PICK k \in DOMAIN tr[d] : tr[d][k] = tm
  BY <1>1a
<1> DEFINE c == tr[d]
           n == Len(c)
           s == dlist_del(c, tm)
           new == TakeOut(tr, tm)
<1>2. /\ c \in Seq(Timers) /\ n \in Nat /\ DOMAIN c = 1 .. n /\ k \in 1 .. n
      /\ \A e \in Days : tr[e] \in Seq(Timers) /\ DOMAIN tr[e] = 1 .. Len(tr[e])
  BY DEF Trees
<1>3. Id(tr, tm) = d
  BY <1>1, IdIs
<1>4. new = [tr EXCEPT ![d] = s]
  BY <1>3 DEF TakeOut
<1>5. /\ s \in Seq(Timers)
      /\ Len(s) = n - 1
      /\ \A i \in 1 .. n - 1 : s[i] = c[Old(k, i)] /\ Old(k, i) \in DOMAIN c /\ Old(k, i) # k
  BY <1>1, DlistDelIs
<1>6. DOMAIN s = 1 .. n - 1
  BY <1>5
<1>7. new \in Trees
  BY <1>4, <1>5 DEF Trees
<1>8. new[d] = s /\ \A e \in Days : e # d => new[e] = tr[e]
  BY <1>4 DEF Trees
<1>9. \A i, j \in 1 .. n - 1 : Old(k, i) = Old(k, j) => i = j
  <2> HIDE DEF n
  <2> QED
    BY <1>2 DEF Old
<1>10. \A i \in 1 .. n : i # k => \E j \in 1 .. n - 1 : Old(k, j) = i
  <2> HIDE DEF n
  <2>1. SUFFICES ASSUME NEW i \in 1 .. n, i # k PROVE \E j \in 1 .. n - 1 : Old(k, j) = i
    OBVIOUS
  <2>2. i < k => i \in 1 .. n - 1 /\ Old(k, i) = i
    BY <1>2 DEF Old
  <2>3. ~(i < k) => i - 1 \in 1 .. n - 1 /\ Old(k, i - 1) = i
    BY <1>2, <2>1 DEF Old
  <2> QED
    BY <2>2, <2>3
<1> HIDE DEF new, s, n
\* Where a place of the new tree was in the old one.
<1> DEFINE Was(e, i) == IF e = d THEN Old(k, i) ELSE i
<1>11. \A e \in Days : \A i \in DOMAIN new[e] :
         /\ Was(e, i) \in DOMAIN tr[e] /\ new[e][i] = tr[e][Was(e, i)]
         /\ e = d => Was(e, i) # k
  BY <1>5, <1>6, <1>8
<1>12. \A e \in Days : \A i, j \in DOMAIN new[e] : Was(e, i) = Was(e, j) => i = j
  BY <1>6, <1>8, <1>9
<1>13. ASSUME NEW e \in Days, NEW i \in DOMAIN tr[e], e # d \/ i # k
       PROVE  \E j \in DOMAIN new[e] : Was(e, j) = i
  <2>1. CASE e = d
    BY <2>1, <1>2, <1>6, <1>8, <1>10, <1>13
  <2>2. CASE e # d
    BY <2>2, <1>8
  <2> QED
    BY <2>1, <2>2
<1> HIDE DEF Was
<1>14. Once(new)
  <2>1. SUFFICES ASSUME NEW e \in Days, NEW g \in Days, NEW i \in DOMAIN new[e],
                        NEW j \in DOMAIN new[g], new[e][i] = new[g][j]
                 PROVE  e = g /\ i = j
    BY DEF Once
  <2>2. /\ Was(e, i) \in DOMAIN tr[e] /\ Was(g, j) \in DOMAIN tr[g]
        /\ tr[e][Was(e, i)] = tr[g][Was(g, j)]
    BY <2>1, <1>11
  <2>3. e = g /\ Was(e, i) = Was(g, j)
    BY <2>2 DEF Once
  <2> QED
    BY <2>3, <1>12
<1>15. ASSUME NEW x, InTree(new, x)
       PROVE  InTree(tr, x) /\ x # tm /\ Id(new, x) = Id(tr, x)
  <2>1a. PICK e \in Days : \E i \in DOMAIN new[e] : new[e][i] = x
    BY <1>7, <1>15, PlaceOf
  <2>1. PICK i \in DOMAIN new[e] : new[e][i] = x
    BY <2>1a
  <2>2. Was(e, i) \in DOMAIN tr[e] /\ tr[e][Was(e, i)] = x /\ (e = d => Was(e, i) # k)
    BY <2>1, <1>11
  <2>3. InTree(tr, x) /\ Id(tr, x) = e
    BY <2>2, IdIs
  <2>4. Id(new, x) = e
    BY <2>1, <1>7, <1>14, IdIs
  <2>5. x # tm
    BY <2>2, <1>1 DEF Once
  <2> QED
    BY <2>3, <2>4, <2>5
<1>16. ASSUME NEW x, InTree(tr, x), x # tm
       PROVE  InTree(new, x)
  <2>1a. PICK e \in Days : \E i \in DOMAIN tr[e] : tr[e][i] = x
    BY <1>16, PlaceOf
  <2>1. PICK i \in DOMAIN tr[e] : tr[e][i] = x
    BY <2>1a
  <2>2. PICK j \in DOMAIN new[e] : Was(e, j) = i
    BY <2>1, <1>1, <1>13, <1>16
  <2> QED
    BY <2>1, <2>2, <1>7, <1>11, PlaceIn
<1>17. ASSUME Leftest(tr) # tm
       PROVE  Leftest(new) = Leftest(tr)
  <2>0. tr # EmptyTree
    <3>1. tr[d] # <<>>
      BY <1>2 DEF n
    <3> QED
      BY <3>1 DEF EmptyTree
  <2>1. PICK g \in Days : FirstDay(tr, g)
    BY <2>0, FirstDayExists
  <2>2. /\ Len(tr[g]) > 0 /\ Leftest(tr) = tr[g][1] /\ Leftest(tr) # NULL
        /\ 1 \in DOMAIN tr[g]
    BY <2>1, <1>2, LeftestIs
  <2>3. PICK j \in DOMAIN new[g] : Was(g, j) = 1
    BY <2>2, <1>1, <1>13, <1>17
  <2>4. j = 1
    <3>1. CASE g # d
      BY <3>1, <2>3 DEF Was
    <3>2. CASE g = d
      BY <3>2, <2>3, <1>2, <1>6, <1>8 DEF Was, Old
    <3> QED
      BY <3>1, <3>2
  <2>5. new[g][1] = tr[g][1] /\ new[g] # <<>>
    BY <2>3, <2>4, <1>11
  <2>6. ASSUME NEW e \in Days, e < g PROVE new[e] = <<>>
    <3>1. tr[e] = <<>>
      BY <2>1, <2>6 DEF FirstDay
    <3>2. e # d
      BY <3>1, <1>2 DEF n
    <3> QED
      BY <3>1, <3>2, <1>8
  <2>7. FirstDay(new, g)
    BY <2>5, <2>6 DEF FirstDay
  <2> QED
    BY <2>2, <2>5, <2>7, <1>7, LeftestIs
<1> QED
  BY <1>7, <1>14, <1>15, <1>16, <1>17 DEF new

\* The tree without the chain of a day.
LEMMA PopIs ==
  ASSUME NEW tr \in Trees, Once(tr), NEW d \in Days
  PROVE  LET rest == [tr EXCEPT ![d] = <<>>] IN
         /\ rest \in Trees
         /\ Once(rest)
         /\ \A x : InTree(rest, x) <=> InTree(tr, x) /\ ~Contains(tr[d], x)
<1> DEFINE rest == [tr EXCEPT ![d] = <<>>]
<1>1. rest \in Trees
  BY DEF Trees
<1>2. rest[d] = <<>> /\ \A e \in Days : e # d => rest[e] = tr[e]
  BY DEF Trees
<1> HIDE DEF rest
<1>3. Once(rest)
  BY <1>2 DEF Once
<1>4. ASSUME NEW x, InTree(rest, x) PROVE InTree(tr, x) /\ ~Contains(tr[d], x)
  <2>1. PICK e \in Days : Contains(rest[e], x)
    BY <1>4 DEF InTree
  <2>2. e # d
    BY <2>1, <1>2 DEF Contains
  <2>3. Contains(tr[e], x)
    BY <2>1, <2>2, <1>2
  <2>4. \A i \in 1 .. Len(tr[d]), j \in 1 .. Len(tr[e]) : tr[d][i] # tr[e][j]
    BY <2>2 DEF Once, Trees
  <2> QED
    BY <2>3, <2>4 DEF Contains, InTree
<1>5. ASSUME NEW x, InTree(tr, x), ~Contains(tr[d], x) PROVE InTree(rest, x)
  <2>1. PICK e \in Days : Contains(tr[e], x)
    BY <1>5 DEF InTree
  <2>2. e # d
    BY <2>1, <1>5
  <2>3. Contains(rest[e], x)
    BY <2>1, <2>2, <1>2
  <2> QED
    BY <2>3 DEF InTree
<1> QED
  BY <1>1, <1>3, <1>4, <1>5 DEF rest

\* A tick moves the chains, it neither loses nor reorders them.
LEMMA TickIs ==
  ASSUME NEW tr \in Trees, Once(tr), tr[-MaxLate] = <<>>
  PROVE  LET new == [d \in Days |-> IF d + 1 \in Days THEN tr[d + 1] ELSE <<>>] IN
         /\ new \in Trees
         /\ Once(new)
         /\ \A x : InTree(new, x) <=> InTree(tr, x)
         /\ Leftest(new) = Leftest(tr)
<1> DEFINE new == [d \in Days |-> IF d + 1 \in Days THEN tr[d + 1] ELSE <<>>]
<1>1. new \in Trees
  BY DEF Trees
<1>2. \A d \in Days : new[d] = IF d + 1 \in Days THEN tr[d + 1] ELSE <<>>
  OBVIOUS
<1> HIDE DEF new
<1>3. \A d \in Days : /\ d \in Int /\ d + 1 \in Int /\ d - 1 \in Int /\ (d - 1) + 1 = d
                      /\ d # -MaxLate => d - 1 \in Days
  BY DaysAre, TimerAssumption
<1>4. Once(new)
  <2>1. SUFFICES ASSUME NEW e \in Days, NEW g \in Days, NEW i \in DOMAIN new[e],
                        NEW j \in DOMAIN new[g], new[e][i] = new[g][j]
                 PROVE  e = g /\ i = j
    BY DEF Once
  <2>2. /\ e + 1 \in Days /\ new[e] = tr[e + 1]
        /\ g + 1 \in Days /\ new[g] = tr[g + 1]
    BY <2>1, <1>2
  <2>3. e + 1 = g + 1 /\ i = j
    BY <2>1, <2>2 DEF Once
  <2> QED
    BY <2>3, <1>3
<1>5. \A d \in Days : tr[d] # <<>> => d - 1 \in Days /\ new[d - 1] = tr[d]
  BY <1>2, <1>3
<1>6. ASSUME NEW x PROVE InTree(new, x) <=> InTree(tr, x)
  <2>1. ASSUME InTree(new, x) PROVE InTree(tr, x)
    <3>1. PICK d \in Days : Contains(new[d], x)
      BY <2>1 DEF InTree
    <3>2. new[d] # <<>>
      BY <3>1 DEF Contains
    <3> QED
      BY <3>1, <3>2, <1>2 DEF InTree
  <2>2. ASSUME InTree(tr, x) PROVE InTree(new, x)
    <3>1. PICK d \in Days : Contains(tr[d], x)
      BY <2>2 DEF InTree
    <3>2. tr[d] # <<>>
      BY <3>1 DEF Contains
    <3> QED
      BY <3>1, <3>2, <1>5 DEF InTree
  <2> QED
    BY <2>1, <2>2
<1>7. Leftest(new) = Leftest(tr)
  <2>1. CASE tr = EmptyTree
    <3>1. \A d \in Days : tr[d] = <<>>
      BY <2>1 DEF EmptyTree
    <3>2. \A d \in Days : new[d] = <<>>
      BY <3>1, <1>2
    <3>3. new = EmptyTree
      BY <3>2, <1>1 DEF EmptyTree, Trees
    <3> QED
      BY <2>1, <3>3
  <2>2. CASE tr # EmptyTree
    <3>1. PICK d \in Days : FirstDay(tr, d)
      BY <2>2, FirstDayExists
    <3>2. d - 1 \in Days /\ new[d - 1] = tr[d] /\ tr[d] # <<>>
      BY <3>1, <1>5 DEF FirstDay
    <3>3. ASSUME NEW e \in Days, e < d - 1 PROVE new[e] = <<>>
      <4>1. e + 1 < d
        BY <3>3, <1>3
      <4> QED
        BY <4>1, <3>1, <1>2 DEF FirstDay
    <3>4. FirstDay(new, d - 1)
      BY <3>2, <3>3 DEF FirstDay
    <3> QED
      BY <3>1, <3>2, <3>4, <1>1, LeftestIs
  <2> QED
    BY <2>1, <2>2
<1> QED
  BY <1>1, <1>4, <1>6, <1>7 DEF new

\* f[i] is the tree after i turns of the loop over a chain, for n turns.
Turns(f, tr, chain, n) ==
  /\ f = [i \in 0 .. n |-> f[i]]
  /\ f[0] = tr
  /\ \A i \in 1 .. n : f[i] = AddAgain(f[i - 1], chain[i])

\* The loop over a chain is defined: there is a tree after every turn.
LEMMA TurnsExist ==
  ASSUME NEW tr, NEW chain, NEW n \in Nat
  PROVE  \E f : Turns(f, tr, chain, n)
<1> DEFINE S == {m \in Nat : \E f : Turns(f, tr, chain, m)}
<1>1. 0 \in S
  <2> DEFINE g == [i \in 0 .. 0 |-> tr]
  <2>1. g = [i \in 0 .. 0 |-> g[i]] /\ g[0] = tr /\ \A i \in 1 .. 0 : FALSE
    OBVIOUS
  <2> HIDE DEF g
  <2>2. Turns(g, tr, chain, 0)
    BY <2>1 DEF Turns
  <2> QED
    BY <2>2
<1>2. ASSUME NEW m \in Nat, m \in S PROVE m + 1 \in S
  <2>1. PICK f : Turns(f, tr, chain, m)
    BY <1>2
  <2> DEFINE g == [i \in 0 .. m + 1 |-> IF i <= m THEN f[i] ELSE AddAgain(f[m], chain[m + 1])]
  <2>2. \A i \in 0 .. m : i \in 0 .. m + 1 /\ g[i] = f[i]
    OBVIOUS
  <2>3. g[m + 1] = AddAgain(f[m], chain[m + 1])
    OBVIOUS
  <2>4. g = [i \in 0 .. m + 1 |-> g[i]]
    OBVIOUS
  <2> HIDE DEF g
  <2>5. ASSUME NEW i \in 1 .. m + 1 PROVE g[i] = AddAgain(g[i - 1], chain[i])
    <3>1. CASE i = m + 1
      <4>1. i - 1 = m /\ g[m] = f[m]
        BY <3>1, <2>2
      <4> QED
        BY <3>1, <4>1, <2>3
    <3>2. CASE i # m + 1
      <4>1. i \in 1 .. m /\ i \in 0 .. m /\ i - 1 \in 0 .. m
        BY <3>2
      <4> QED
        BY <4>1, <2>1, <2>2 DEF Turns
    <3> QED
      BY <3>1, <3>2
  <2>6. g[0] = tr
    BY <2>1, <2>2 DEF Turns
  <2>7. Turns(g, tr, chain, m + 1)
    BY <2>4, <2>5, <2>6 DEF Turns
  <2> QED
    BY <2>7
<1>3. Nat \subseteq S
  <2> HIDE DEF S
  <2> QED
    BY <1>1, <1>2, InductionOnSet
<1>4. n \in S
  BY <1>3
<1> QED
  BY <1>4

\* The trees of the loop: each turn adds the next timer of the chain or not.
LEMMA AddAllTurns ==
  ASSUME NEW tr, NEW chain \in Seq(Timers)
  PROVE  /\ AddAll(tr, chain)[0] = tr
         /\ \A i \in 1 .. Len(chain) :
              AddAll(tr, chain)[i] = AddAgain(AddAll(tr, chain)[i - 1], chain[i])
<1> DEFINE n == Len(chain)
           F(f) == [i \in 0 .. n |-> IF i = 0 THEN tr ELSE AddAgain(f[i - 1], chain[i])]
<1>0. n \in Nat
  OBVIOUS
<1> HIDE DEF n
<1>1. PICK f : Turns(f, tr, chain, n)
  BY <1>0, TurnsExist
<1>2. \A i \in 0 .. n : f[i] = IF i = 0 THEN tr ELSE AddAgain(f[i - 1], chain[i])
  BY <1>0, <1>1 DEF Turns
<1>3. f = F(f)
  BY <1>1, <1>2 DEF Turns
<1>4. AddAll(tr, chain) = CHOOSE g : g = F(g)
  BY DEF AddAll, n
<1>5. AddAll(tr, chain) = F(AddAll(tr, chain))
  <2> HIDE DEF F
  <2> QED
    BY <1>3, <1>4
<1> DEFINE a == AddAll(tr, chain)
<1>6. a = [i \in 0 .. n |-> IF i = 0 THEN tr ELSE AddAgain(a[i - 1], chain[i])]
  BY <1>5
<1> HIDE DEF a
<1>7. a[0] = tr /\ \A i \in 1 .. n : a[i] = AddAgain(a[i - 1], chain[i])
  BY <1>0, <1>6
<1> QED
  BY <1>7 DEF a, n

\* The loop of timer_task puts back the timers of the chain that go on, each
\* into one place, and loses none that were in the tree.
LEMMA AddAllIs ==
  ASSUME NEW tr \in Trees, Once(tr), NEW chain \in Seq(Timers),
         \A i, j \in 1 .. Len(chain) : chain[i] = chain[j] => i = j,
         \A i \in 1 .. Len(chain) : ~InTree(tr, chain[i]) /\ time_us[chain[i]] \in Days
  PROVE  LET last == AddAll(tr, chain)[Len(chain)] IN
         /\ last \in Trees
         /\ Once(last)
         /\ \A x : InTree(last, x) <=> InTree(tr, x) \/ (Contains(chain, x) /\ Again(x))
<1> DEFINE n == Len(chain)
           a == AddAll(tr, chain)
           Good(m) ==
             /\ a[m] \in Trees
             /\ Once(a[m])
             /\ \A x : InTree(a[m], x) <=>
                         InTree(tr, x) \/ \E j \in 1 .. m : chain[j] = x /\ Again(x)
           S == {m \in Nat : m <= n => Good(m)}
<1>0. n \in Nat /\ \A i \in 1 .. n : chain[i] \in Timers
  OBVIOUS
<1>1. a[0] = tr /\ \A i \in 1 .. n : a[i] = AddAgain(a[i - 1], chain[i])
  BY AddAllTurns
<1> HIDE DEF a, n
<1>2. 0 \in S
  BY <1>1
<1>3. ASSUME NEW m \in Nat, m \in S PROVE m + 1 \in S
  <2>1. SUFFICES ASSUME m + 1 <= n PROVE Good(m + 1)
    OBVIOUS
  <2>2. Good(m) /\ m + 1 \in 1 .. n /\ (m + 1) - 1 = m
    BY <1>0, <1>3, <2>1
  <2> DEFINE tm == chain[m + 1]
  <2>3. tm \in Timers /\ ~InTree(tr, tm) /\ time_us[tm] \in Days
    BY <1>0, <2>2 DEF n
  <2>4. ~InTree(a[m], tm)
    <3>1. ASSUME NEW j \in 1 .. m PROVE chain[j] # tm
      <4>1. j \in 1 .. n /\ j # m + 1
        BY <2>2, <1>0
      <4> QED
        BY <4>1, <2>2 DEF n
    <3> QED
      BY <2>2, <2>3, <3>1
  <2>5. a[m + 1] = AddAgain(a[m], tm)
    BY <1>1, <2>2
  <2>6. \A x : (\E j \in 1 .. m + 1 : chain[j] = x /\ Again(x)) <=>
                 \/ \E j \in 1 .. m : chain[j] = x /\ Again(x)
                 \/ x = tm /\ Again(tm)
    <3>1. m + 1 \in 1 .. m + 1 /\ \A j \in 1 .. m + 1 : j \in 1 .. m \/ j = m + 1
      OBVIOUS
    <3>2. \A j \in 1 .. m : j \in 1 .. m + 1
      OBVIOUS
    <3> QED
      BY <3>1, <3>2, Zenon
  <2>7. CASE Again(tm)
    <3>1. a[m + 1] = Add(a[m], tm, time_us[tm])
      BY <2>5, <2>7 DEF AddAgain
    <3>2. /\ a[m + 1] \in Trees /\ Once(a[m + 1])
          /\ \A x : InTree(a[m + 1], x) <=> x = tm \/ InTree(a[m], x)
      <4> HIDE DEF tm
      <4> QED
        BY <3>1, <2>2, <2>3, <2>4, AddIs
    <3> QED
      BY <3>2, <2>2, <2>6, <2>7
  <2>8. CASE ~Again(tm)
    <3>1. a[m + 1] = a[m]
      BY <2>5, <2>8 DEF AddAgain
    <3> QED
      BY <3>1, <2>2, <2>6, <2>8
  <2> QED
    BY <2>7, <2>8
<1>4. Nat \subseteq S
  <2> HIDE DEF S
  <2> QED
    BY <1>2, <1>3, InductionOnSet
<1>5. Good(n)
  BY <1>0, <1>4
<1>6. \A x : Contains(chain, x) <=> \E j \in 1 .. n : chain[j] = x
  BY DEF Contains, n
<1>7. \A x : (\E j \in 1 .. n : chain[j] = x /\ Again(x)) <=> Contains(chain, x) /\ Again(x)
  BY <1>6
<1> QED
  BY <1>5, <1>7 DEF a, n

-----------------------------------------------------------------------------
(* The inductive invariant *)

\* A critical section of a client.
Calls ==
  [name : {"del", "stop", "restart"}, tm : Timers, repeat : {0}, period : {0}, s : Bits]
    \cup [name : {"set"}, tm : Timers, repeat : Repeats \ {0}, period : Periods, s : Bits]

\* The variables have their types.
Types ==
  /\ life \in [Timers -> {"none", "joining", "ready"}]
  /\ status \in [Timers -> Bits]
  /\ repeat_num \in [Timers -> Int]
  /\ time_us \in [Timers -> Nat]
  /\ tree \in Trees
  /\ closed \in [Timers -> BOOLEAN]
  /\ callback \subseteq Timers /\ owe \subseteq Timers /\ dels \subseteq Timers
  /\ released \in [Timers -> 0 .. 1]
  /\ task \in {"wait", "fire", "mark", "dels"}
  /\ group \in Seq(Timers) /\ todo \in Seq(Timers)
  /\ tmp \in Bits
  /\ op = NoOp \/ op \in Calls

\* A timer that has not been made is nowhere, one that has been has a period.
Made(tm) ==
  /\ life[tm] = "none" => status[tm] = NoBits /\ tm \notin callback
  /\ life[tm] # "none" => time_us[tm] \in Periods

\* A timer in the tree is scheduled: nobody has stopped or deleted it, nobody
\* processes it, and it has calls left to make.
Scheduled(tm) ==
  InTree(tree, tm) =>
    /\ life[tm] # "none" /\ repeat_num[tm] # 0
    /\ ~status[tm].stop /\ ~status[tm].del /\ ~status[tm].processing

\* A timer that is released, or about to be, is marked and left alone.
Gone(tm) ==
  /\ (tm \in owe \cup dels \/ released[tm] > 0) =>
       life[tm] # "none" /\ status[tm].del /\ ~status[tm].processing
  /\ ~(tm \in owe /\ tm \in dels)
  /\ released[tm] > 0 => tm \notin owe \cup dels

\* Each timer is in one place.
Places ==
  /\ Once(tree)
  /\ \A i, j \in 1 .. Len(group) : group[i] = group[j] => i = j
  /\ \A tm \in Timers : status[tm].processing <=> Contains(group, tm)

\* A client in a critical section knows the status of its timer, but for the
\* bits of a timer that is being processed.
Loaded ==
  op # NoOp =>
    /\ life[op.tm] # "none"
    /\ op.s.processing = status[op.tm].processing
    /\ ~op.s.processing => op.s = status[op.tm]

\* Where the timer thread is and what it holds.
Thread ==
  /\ \A i \in 1 .. Len(todo) : Contains(group, todo[i])
  /\ task = "mark" => todo # <<>> /\ tmp.processing
  /\ task \in {"wait", "dels"} => group = <<>> /\ todo = <<>>
  /\ task # "dels" => dels = {}

\* What holds of every timer.
Sound(tm) ==
  /\ Made(tm)
  /\ Scheduled(tm)
  /\ Gone(tm)

\* The invariant of the timers.
TimerInv ==
  /\ Types
  /\ \A tm \in Timers : Sound(tm)
  /\ Places
  /\ Loaded
  /\ Thread
  /\ EarliestIsLeftmost

\* Nothing is in the empty tree.
LEMMA EmptyTreeIs ==
  /\ EmptyTree \in Trees
  /\ Once(EmptyTree)
  /\ \A x : ~InTree(EmptyTree, x)
<1>1. \A d \in Days : EmptyTree[d] = <<>>
  BY DEF EmptyTree
<1>2. EmptyTree \in Trees
  BY DEF EmptyTree, Trees
<1>3. Once(EmptyTree)
  BY <1>1 DEF Once
<1> QED
  BY <1>1, <1>2, <1>3 DEF InTree, Contains

\* The invariant holds at the start.
LEMMA TimerInit ==
  Init => TimerInv
<1>1. SUFFICES ASSUME Init PROVE TimerInv
  OBVIOUS
<1>2. Types
  BY <1>1, EmptyTreeIs DEF Init, Types, NoBits, Bits
<1>3. ASSUME NEW tm \in Timers
      PROVE  Sound(tm)
  BY <1>1, EmptyTreeIs DEF Init, Sound, Made, Scheduled, Gone
<1>4. Places
  BY <1>1, EmptyTreeIs DEF Init, Places, NoBits, Contains
<1>5. Loaded /\ Thread
  BY <1>1 DEF Init, Loaded, Thread
<1>6. EarliestIsLeftmost
  BY <1>1, EmptyTreeIs, LeftestNull DEF Init, EarliestIsLeftmost
<1> QED
  BY <1>2, <1>3, <1>4, <1>5, <1>6 DEF TimerInv

\* timer_leave_avl on a timer that is neither deleted nor processed takes this
\* timer out of the tree, no other one, and keeps the cached pointer right.
LEMMA LeaveTree ==
  ASSUME TimerInv,
         NEW tm \in Timers, ~status[tm].del, ~status[tm].processing,
         ~status[tm].stop => InTree(tree, tm) \/ tree = EmptyTree
  PROVE  LET tr == TreeAfterLeave(tm, status[tm]) IN
         /\ tr \in Trees
         /\ Once(tr)
         /\ \A x : InTree(tr, x) <=> InTree(tree, x) /\ x # tm
         /\ \A x : InTree(tr, x) => Id(tr, x) = Id(tree, x)
         /\ Leftest(tr) = IF status[tm].stop THEN earliest ELSE EarliestAfterLeave(tree, tm)
<1>1. /\ tree \in Trees /\ Once(tree) /\ earliest = Leftest(tree)
      /\ Scheduled(tm)
  BY DEF TimerInv, Sound, Types, Places, EarliestIsLeftmost
<1>2. CASE status[tm].stop
  <2>1. ~InTree(tree, tm) /\ TreeAfterLeave(tm, status[tm]) = tree
    BY <1>1, <1>2 DEF Scheduled, TreeAfterLeave
  <2> QED
    BY <2>1, <1>1, <1>2
<1>3. CASE ~status[tm].stop
  <2>1. /\ TreeAfterLeave(tm, status[tm]) = TakeOut(tree, tm)
        /\ EarliestAfterLeave(tree, tm) =
             IF tm = earliest THEN Leftest(TakeOut(tree, tm)) ELSE earliest
    BY <1>3 DEF TreeAfterLeave, EarliestAfterLeave
  <2>2. CASE InTree(tree, tm)
    BY <2>1, <2>2, <1>1, <1>3, TakeOutIs
  <2>3. CASE ~InTree(tree, tm)
    <3>1. tree = EmptyTree
      BY <2>3, <1>3
    <3>2. TakeOut(tree, tm) = EmptyTree
      BY <2>3 DEF TakeOut
    <3>3. earliest = NULL /\ tm # earliest
      BY <3>1, <1>1, LeftestNull, TimerAssumption
    <3> QED
      BY <3>1, <3>2, <3>3, <2>1, <1>1, <1>3, EmptyTreeIs
  <2> QED
    BY <2>2, <2>3
<1> QED
  BY <1>2, <1>3

\* timer_join_avl after timer_leave_avl: the timer is in the tree, and the
\* cached pointer is right.
LEMMA JoinTree ==
  ASSUME NEW tr \in Trees, Once(tr), NEW tm \in Timers, ~InTree(tr, tm), NEW d \in Days,
         \A x : InTree(tr, x) => Id(tr, x) = Id(tree, x)
  PROVE  /\ Add(tr, tm, d) \in Trees
         /\ Once(Add(tr, tm, d))
         /\ \A x : InTree(Add(tr, tm, d), x) <=> x = tm \/ InTree(tr, x)
         /\ Leftest(Add(tr, tm, d)) = EarliestAfterJoin(Leftest(tr), tm, d)
<1>1. Leftest(tr) = NULL \/ Id(tr, Leftest(tr)) = Id(tree, Leftest(tr))
  BY LeftestNull
<1>2. Leftest(Add(tr, tm, d)) =
        IF Leftest(tr) = NULL \/ d < Id(tr, Leftest(tr)) THEN tm ELSE Leftest(tr)
  BY LeftestAfterAdd
<1>3. Leftest(Add(tr, tm, d)) = EarliestAfterJoin(Leftest(tr), tm, d)
  BY <1>1, <1>2 DEF EarliestAfterJoin
<1> QED
  BY <1>3, AddIs

-----------------------------------------------------------------------------
(* Steps that leave the tree alone *)

\* ref_inc, set_point_ref, init_done.
LEMMA NewReadyInv ==
  ASSUME TimerInv, NEW tm \in Timers, NewReady(tm)
  PROVE  TimerInv'
<1> USE DEF NewReady, treeVars, pipeVars, taskVars
<1>1. Types'
  BY DEF TimerInv, Types
<1>2. ASSUME NEW x \in Timers
      PROVE  Sound(x)'
  BY DEF TimerInv, Types, Sound, Made, Scheduled, Gone
<1>3. Places' /\ Loaded' /\ Thread' /\ EarliestIsLeftmost'
  BY DEF TimerInv, Types, Places, Loaded, Thread, EarliestIsLeftmost, Calls
<1> QED
  BY <1>1, <1>2, <1>3 DEF TimerInv

\* The client closes its end of the pipe.
LEMMA ClientCloseInv ==
  ASSUME TimerInv, NEW tm \in Timers, ClientClose(tm)
  PROVE  TimerInv'
<1> USE DEF ClientClose, treeVars, timerVars, taskVars
<1>1. Types'
  BY DEF TimerInv, Types
<1>2. ASSUME NEW x \in Timers
      PROVE  Sound(x)'
  BY DEF TimerInv, Types, Sound, Made, Scheduled, Gone
<1>3. Places' /\ Loaded' /\ Thread' /\ EarliestIsLeftmost'
  BY DEF TimerInv, Types, Places, Loaded, Thread, EarliestIsLeftmost
<1> QED
  BY <1>1, <1>2, <1>3 DEF TimerInv

\* timer_set takes the mutex and loads the status.
LEMMA LockSetInv ==
  ASSUME TimerInv, NEW tm \in Timers, LockSet(tm)
  PROVE  TimerInv'
<1> USE DEF LockSet, Lock, treeVars, timerVars, pipeVars, taskVars
<1>1. Types'
  BY DEF TimerInv, Types, Bits, Calls, NoOp
<1>2. ASSUME NEW x \in Timers
      PROVE  Sound(x)'
  BY DEF TimerInv, Types, Sound, Made, Scheduled, Gone
<1>3. Places'
  BY DEF TimerInv, Types, Places
<1>4. Loaded'
  BY DEF TimerInv, Types, Loaded, Calls, NoOp
<1>5. Thread'
  BY DEF TimerInv, Types, Thread
<1>6. EarliestIsLeftmost'
  BY DEF TimerInv, EarliestIsLeftmost
<1> QED
  BY <1>1, <1>2, <1>3, <1>4, <1>5, <1>6 DEF TimerInv

\* timer_del, timer_stop and timer_restart take the mutex and load the status.
LEMMA LockOtherInv ==
  ASSUME TimerInv, NEW tm \in Timers, NEW name \in {"del", "stop", "restart"},
         LockOther(tm, name)
  PROVE  TimerInv'
<1> USE DEF LockOther, Lock, treeVars, timerVars, pipeVars, taskVars
<1>1. Types'
  BY DEF TimerInv, Types, Bits, Calls, NoOp
<1>2. ASSUME NEW x \in Timers
      PROVE  Sound(x)'
  BY DEF TimerInv, Types, Sound, Made, Scheduled, Gone
<1>3. Places'
  BY DEF TimerInv, Types, Places
<1>4. Loaded'
  BY DEF TimerInv, Types, Loaded, Calls, NoOp
<1>5. Thread'
  BY DEF TimerInv, Types, Thread
<1>6. EarliestIsLeftmost'
  BY DEF TimerInv, EarliestIsLeftmost
<1> QED
  BY <1>1, <1>2, <1>3, <1>4, <1>5, <1>6 DEF TimerInv

\* timer_del, called by the pipe, takes the mutex and loads the status.
LEMMA LockCallbackInv ==
  ASSUME TimerInv, NEW tm \in Timers, LockCallback(tm)
  PROVE  TimerInv'
<1> USE DEF LockCallback, Lock, treeVars, timerVars, taskVars
<1>1. Types'
  BY DEF TimerInv, Types, Bits, Calls, NoOp
<1>2. ASSUME NEW x \in Timers
      PROVE  Sound(x)'
  BY DEF TimerInv, Types, Sound, Made, Scheduled, Gone
<1>3. Places'
  BY DEF TimerInv, Types, Places
<1>4. Loaded'
  BY DEF TimerInv, Types, Loaded, Sound, Made, NoOp
<1>5. Thread'
  BY DEF TimerInv, Types, Thread
<1>6. EarliestIsLeftmost'
  BY DEF TimerInv, EarliestIsLeftmost
<1> QED
  BY <1>1, <1>2, <1>3, <1>4, <1>5, <1>6 DEF TimerInv

\* The end of timer_del: close and ref_dec.
LEMMA DelReleaseInv ==
  ASSUME TimerInv, NEW tm \in Timers, DelRelease(tm)
  PROVE  TimerInv'
<1> USE DEF DelRelease, treeVars, timerVars, taskVars
<1>1. Types'
  <2>1. released[tm] \in 0 .. 1 /\ ~(released[tm] > 0)
    BY DEF TimerInv, Types, Sound, Gone
  <2>2. released[tm] + 1 \in 0 .. 1
    BY <2>1
  <2> QED
    BY <2>2 DEF TimerInv, Types
<1>2. ASSUME NEW x \in Timers
      PROVE  Sound(x)'
  BY DEF TimerInv, Types, Sound, Made, Scheduled, Gone
<1>3. Places'
  BY DEF TimerInv, Types, Places
<1>4. Loaded'
  BY DEF TimerInv, Types, Loaded, Calls, NoOp
<1>5. Thread'
  BY DEF TimerInv, Types, Thread
<1>6. EarliestIsLeftmost'
  BY DEF TimerInv, EarliestIsLeftmost
<1> QED
  BY <1>1, <1>2, <1>3, <1>4, <1>5, <1>6 DEF TimerInv

\* The timer thread calls a listener.
LEMMA TaskFireInv ==
  ASSUME TimerInv, TaskFire
  PROVE  TimerInv'
<1> USE DEF TaskFire, treeVars, timerVars, pipeVars
<1>1. Types'
  BY DEF TimerInv, Types, Bits, Calls, NoOp
<1>2. ASSUME NEW x \in Timers
      PROVE  Sound(x)'
  BY DEF TimerInv, Types, Sound, Made, Scheduled, Gone
<1>3. Places'
  BY DEF TimerInv, Types, Places
<1>4. Loaded'
  BY DEF TimerInv, Types, Loaded, Calls, NoOp
<1>5. Thread'
  BY DEF TimerInv, Types, Thread
<1>6. EarliestIsLeftmost'
  BY DEF TimerInv, EarliestIsLeftmost
<1> QED
  BY <1>1, <1>2, <1>3, <1>4, <1>5, <1>6 DEF TimerInv

\* The timer thread loads the status of a timer whose pipe is closed.
LEMMA TaskMarkLoadInv ==
  ASSUME TimerInv, TaskMarkLoad
  PROVE  TimerInv'
<1> USE DEF TaskMarkLoad, treeVars, timerVars, pipeVars
<1>1. Types'
  BY DEF TimerInv, Types, Bits, Calls, NoOp
<1>2. ASSUME NEW x \in Timers
      PROVE  Sound(x)'
  BY DEF TimerInv, Types, Sound, Made, Scheduled, Gone
<1>3. Places'
  BY DEF TimerInv, Types, Places
<1>4. Loaded'
  BY DEF TimerInv, Types, Loaded, Calls, NoOp
<1>5. Thread'
  <2>1. Len(todo) > 0 /\ Head(todo) = todo[1] /\ todo[1] \in Timers /\ Contains(group, todo[1])
    BY DEF TimerInv, Types, Thread
  <2>2. status[Head(todo)].processing
    BY <2>1 DEF TimerInv, Places
  <2> QED
    BY <2>2 DEF TimerInv, Thread
<1>6. EarliestIsLeftmost'
  BY DEF TimerInv, EarliestIsLeftmost
<1> QED
  BY <1>1, <1>2, <1>3, <1>4, <1>5, <1>6 DEF TimerInv

\* The timer thread stores TIMER_DEL without the mutex: a client that is in its
\* critical section for the same timer knows that it is being processed.
LEMMA TaskMarkStoreInv ==
  ASSUME TimerInv, TaskMarkStore
  PROVE  TimerInv'
<1> USE DEF TaskMarkStore, treeVars, pipeVars
<1> DEFINE h == Head(todo)
<1>0. /\ h \in Timers /\ Contains(group, h)
      /\ Tail(todo) \in Seq(Timers)
      /\ \A i \in 1 .. Len(Tail(todo)) : Contains(group, Tail(todo)[i])
      /\ tmp \in Bits /\ tmp.processing
  <2>1. todo \in Seq(Timers) /\ todo # <<>> /\ \A i \in 1 .. Len(todo) : Contains(group, todo[i])
    BY DEF TimerInv, Types, Thread
  <2>2. /\ Tail(todo) \in Seq(Timers) /\ Head(todo) = todo[1] /\ Len(todo) > 0
        /\ \A i \in 1 .. Len(Tail(todo)) : i + 1 \in 1 .. Len(todo) /\ Tail(todo)[i] = todo[i + 1]
    BY <2>1
  <2>3. tmp \in Bits /\ tmp.processing
    BY DEF TimerInv, Types, Thread
  <2>4. 1 \in 1 .. Len(todo) /\ todo[1] \in Timers
    BY <2>1, <2>2
  <2>5. h = todo[1]
    BY <2>2
  <2> HIDE DEF h
  <2> QED
    BY <2>1, <2>2, <2>3, <2>4, <2>5
<1>1. status[h].processing /\ life[h] # "none"
  BY <1>0 DEF TimerInv, Sound, Made, Places, NoBits
<1> HIDE DEF h
<1>2. /\ status' = [status EXCEPT ![h] = [tmp EXCEPT !.del = TRUE]]
      /\ [tmp EXCEPT !.del = TRUE] \in Bits /\ [tmp EXCEPT !.del = TRUE].processing
  BY <1>0 DEF h, Bits
<1>3. /\ status' \in [Timers -> Bits] /\ status'[h].processing
      /\ \A x \in Timers : x # h => status'[x] = status[x]
  BY <1>0, <1>2 DEF TimerInv, Types
<1>4. Types'
  BY <1>0, <1>3 DEF TimerInv, Types
<1>5. ASSUME NEW x \in Timers
      PROVE  Sound(x)'
  BY <1>1, <1>3 DEF TimerInv, Types, Sound, Made, Scheduled, Gone
<1>6. Places'
  BY <1>0, <1>1, <1>3 DEF TimerInv, Places
<1>7. Loaded'
  BY <1>1, <1>3 DEF TimerInv, Types, Loaded, Calls
<1>8. Thread'
  BY <1>0 DEF TimerInv, Thread
<1>9. EarliestIsLeftmost'
  BY DEF TimerInv, EarliestIsLeftmost
<1> QED
  BY <1>4, <1>5, <1>6, <1>7, <1>8, <1>9 DEF TimerInv

\* The timer thread closes and releases a deleted timer.
LEMMA TaskReleaseInv ==
  ASSUME TimerInv, NEW tm \in Timers, TaskRelease(tm)
  PROVE  TimerInv'
<1> USE DEF TaskRelease, treeVars, timerVars
<1>1. Types'
  <2>1. released[tm] \in 0 .. 1 /\ ~(released[tm] > 0)
    BY DEF TimerInv, Types, Sound, Gone
  <2>2. released[tm] + 1 \in 0 .. 1
    BY <2>1
  <2> QED
    BY <2>2 DEF TimerInv, Types
<1>2. ASSUME NEW x \in Timers
      PROVE  Sound(x)'
  BY DEF TimerInv, Types, Sound, Made, Scheduled, Gone
<1>3. Places'
  BY DEF TimerInv, Types, Places
<1>4. Loaded'
  BY DEF TimerInv, Types, Loaded, Calls, NoOp
<1>5. Thread'
  BY DEF TimerInv, Types, Thread
<1>6. EarliestIsLeftmost'
  BY DEF TimerInv, EarliestIsLeftmost
<1> QED
  BY <1>1, <1>2, <1>3, <1>4, <1>5, <1>6 DEF TimerInv

\* The timer thread has released all of them.
LEMMA TaskWaitInv ==
  ASSUME TimerInv, TaskWait
  PROVE  TimerInv'
<1> USE DEF TaskWait, treeVars, timerVars, pipeVars
<1>1. Types'
  BY DEF TimerInv, Types, Bits, Calls, NoOp
<1>2. ASSUME NEW x \in Timers
      PROVE  Sound(x)'
  BY DEF TimerInv, Types, Sound, Made, Scheduled, Gone
<1>3. Places'
  BY DEF TimerInv, Types, Places
<1>4. Loaded'
  BY DEF TimerInv, Types, Loaded, Calls, NoOp
<1>5. Thread'
  BY DEF TimerInv, Types, Thread
<1>6. EarliestIsLeftmost'
  BY DEF TimerInv, EarliestIsLeftmost
<1> QED
  BY <1>1, <1>2, <1>3, <1>4, <1>5, <1>6 DEF TimerInv

-----------------------------------------------------------------------------
(* Critical sections of the clients *)

\* A client in a critical section has a timer and its bits, and what it knows
\* of a timer that is not being processed is true.
LEMMA OpIs ==
  ASSUME TimerInv, op.name # "none"
  PROVE  /\ op \in Calls /\ op.tm \in Timers /\ op.s \in Bits
         /\ op.name = "set" => op.repeat \in Repeats \ {0} /\ op.period \in Periods
         /\ life[op.tm] # "none"
         /\ op.s.processing = status[op.tm].processing
         /\ ~op.s.processing => op.s = status[op.tm]
<1>1. op \in Calls /\ op # NoOp
  BY DEF TimerInv, Types, NoOp
<1>2. op.tm \in Timers /\ op.s \in Bits
  BY <1>1 DEF Calls
<1>3. op.name = "set" => op.repeat \in Repeats \ {0} /\ op.period \in Periods
  BY <1>1 DEF Calls
<1> QED
  BY <1>1, <1>2, <1>3 DEF TimerInv, Loaded

\* Setting TIMER_STOP to a value.
LEMMA StopBit ==
  ASSUME NEW s \in Bits, NEW b \in BOOLEAN
  PROVE  /\ [s EXCEPT !.stop = b] \in Bits
         /\ [s EXCEPT !.stop = b].processing = s.processing
         /\ [s EXCEPT !.stop = b].del = s.del
         /\ [s EXCEPT !.stop = b].stop = b
BY DEF Bits

\* Setting TIMER_PROCESSING.
LEMMA ProcessingBit ==
  ASSUME NEW s \in Bits
  PROVE  /\ [s EXCEPT !.processing = TRUE] \in Bits
         /\ [s EXCEPT !.processing = TRUE].processing
         /\ [s EXCEPT !.processing = TRUE].stop = s.stop
         /\ [s EXCEPT !.processing = TRUE].del = s.del
BY DEF Bits

\* Setting TIMER_DEL, and TIMER_STOP to a value.
LEMMA DelBits ==
  ASSUME NEW s \in Bits, NEW b \in BOOLEAN
  PROVE  /\ [s EXCEPT !.del = TRUE, !.stop = b] \in Bits
         /\ [s EXCEPT !.del = TRUE, !.stop = b].processing = s.processing
         /\ [s EXCEPT !.del = TRUE, !.stop = b].del
         /\ [s EXCEPT !.del = TRUE, !.stop = b].stop = b
BY DEF Bits

\* Clearing TIMER_PROCESSING, and setting TIMER_STOP to a value.
LEMMA DoneBits ==
  ASSUME NEW s \in Bits, NEW b \in BOOLEAN
  PROVE  /\ [s EXCEPT !.processing = FALSE, !.stop = b] \in Bits
         /\ ~[s EXCEPT !.processing = FALSE, !.stop = b].processing
         /\ [s EXCEPT !.processing = FALSE, !.stop = b].del = s.del
         /\ [s EXCEPT !.processing = FALSE, !.stop = b].stop = b
BY DEF Bits

\* timer_new: a timer that starts is put into the tree.
LEMMA TimerNewInv ==
  ASSUME TimerInv, NEW tm \in Timers, NEW r \in Repeats, NEW p \in Periods, timer_new(tm, r, p)
  PROVE  TimerInv'
<1>0. /\ op = NoOp /\ life[tm] = "none" /\ life' = [life EXCEPT ![tm] = "joining"]
      /\ repeat_num' = [repeat_num EXCEPT ![tm] = r]
      /\ time_us' = [time_us EXCEPT ![tm] = p]
      /\ r # 0 => tree' = Add(tree, tm, p) /\ earliest' = EarliestAfterJoin(earliest, tm, p)
      /\ r = 0 => tree' = tree /\ earliest' = earliest
      /\ UNCHANGED <<closed, callback, owe, released, op, task, group, todo, tmp, dels>>
  BY DEF timer_new, pipeVars, taskVars, treeVars
<1>1. /\ life[tm] = "none" /\ status[tm] = NoBits /\ ~InTree(tree, tm)
      /\ tree \in Trees /\ Once(tree) /\ earliest = Leftest(tree)
      /\ p \in Days /\ r \in Int
  BY <1>0, DaysAre, TimerAssumption
     DEF TimerInv, Types, Sound, Made, Scheduled, Places, EarliestIsLeftmost
<1>2. /\ tree' \in Trees /\ Once(tree') /\ earliest' = Leftest(tree')
      /\ \A x : InTree(tree', x) <=> InTree(tree, x) \/ (x = tm /\ r # 0)
  <2>1. CASE r # 0
    <3>1. /\ Add(tree, tm, p) \in Trees
          /\ Once(Add(tree, tm, p))
          /\ \A x : InTree(Add(tree, tm, p), x) <=> x = tm \/ InTree(tree, x)
          /\ Leftest(Add(tree, tm, p)) = EarliestAfterJoin(Leftest(tree), tm, p)
      BY <1>1, JoinTree
    <3>2. tree' = Add(tree, tm, p) /\ earliest' = EarliestAfterJoin(earliest, tm, p)
      BY <2>1, <1>0
    <3> QED
      BY <3>1, <3>2, <1>1, <2>1
  <2>2. CASE r = 0
    BY <1>0, <1>1, <2>2
  <2> QED
    BY <2>1, <2>2
<1>3. /\ op' = op /\ op = NoOp
      /\ status' \in [Timers -> Bits]
      /\ ~status'[tm].processing /\ ~status'[tm].del /\ (status'[tm].stop <=> r = 0)
      /\ \A x \in Timers : x # tm => status'[x] = status[x]
  <2>0. status[tm] \in Bits /\ ~status[tm].processing /\ ~status[tm].del
    <3>1. status \in [Timers -> Bits]
      BY DEF TimerInv, Types
    <3>2. status[tm] = NoBits
      BY <1>1
    <3>3. status[tm].processing = FALSE /\ status[tm].del = FALSE
      BY <3>2 DEF NoBits
    <3>4. status[tm] \in Bits
      BY <3>1
    <3> QED
      BY <3>3, <3>4
  <2> DEFINE b == (r = 0)
             new == [status[tm] EXCEPT !.stop = b]
  <2>1. /\ status \in [Timers -> Bits] /\ status' = [status EXCEPT ![tm] = new]
        /\ op' = op /\ op = NoOp
    BY <1>0 DEF TimerInv, Types, timer_new
  <2>2. b \in BOOLEAN /\ (b <=> r = 0)
    BY <1>1
  <2> HIDE DEF b
  <2>3. new \in Bits /\ ~new.processing /\ ~new.del /\ new.stop = b
    <3>2. /\ new \in Bits
          /\ new.processing = status[tm].processing /\ new.del = status[tm].del /\ new.stop = b
      <4>1. b \in BOOLEAN /\ status[tm] \in Bits
        BY <2>0, <2>2
      <4> QED
        BY <4>1, StopBit, Zenon
    <3> HIDE DEF new
    <3> QED
      BY <2>0, <3>2
  <2> HIDE DEF new
  <2>4. /\ status' \in [Timers -> Bits] /\ status'[tm] = new
        /\ \A x \in Timers : x # tm => status'[x] = status[x]
    BY <2>1, <2>3
  <2> QED
    BY <2>1, <2>2, <2>3, <2>4
<1>4. Types'
  BY <1>0, <1>1, <1>2, <1>3, TimerAssumption DEF TimerInv, Types
<1>5. ASSUME NEW x \in Timers
      PROVE  Sound(x)'
  <2>1. Sound(x)
    BY DEF TimerInv
  <2>2. CASE x # tm
    BY <2>1, <2>2, <1>0, <1>2, <1>3
       DEF TimerInv, Types, Sound, Made, Scheduled, Gone
  <2>3. CASE x = tm
    <3>1. /\ life'[tm] # "none" /\ repeat_num'[tm] = r /\ time_us'[tm] = p
          /\ InTree(tree', tm) <=> r # 0
      BY <1>0, <1>1, <1>2 DEF TimerInv, Types
    <3>2. tm \notin owe \cup dels /\ ~(released[tm] > 0)
      BY <1>1 DEF TimerInv, Sound, Gone
    <3>4. Made(tm)' /\ Scheduled(tm)' /\ Gone(tm)'
      BY <3>1, <3>2, <1>0, <1>3 DEF Made, Scheduled, Gone
    <3> QED
      BY <3>4, <2>3 DEF Sound
  <2> QED
    BY <2>2, <2>3
<1>6. Places'
  BY <1>0, <1>1, <1>2, <1>3 DEF TimerInv, Places, NoBits
<1>7. Loaded' /\ Thread' /\ EarliestIsLeftmost'
  BY <1>0, <1>2, <1>3 DEF TimerInv, Loaded, Thread, EarliestIsLeftmost
<1> QED
  BY <1>4, <1>5, <1>6, <1>7 DEF TimerInv

\* timer_del: the timer leaves the tree and is released, or is left to the timer
\* thread that is processing it.
LEMMA TimerDelInv ==
  ASSUME TimerInv, LeavesOwn, timer_del
  PROVE  TimerInv'
<1> DEFINE tm == op.tm
           s == op.s
           b == s.stop \/ MayTake(s)
           n == [s EXCEPT !.del = TRUE, !.stop = b]
<1>0. /\ op.name = "del" /\ op' = NoOp
      /\ MayTake(s) => LeaveAvl(tm, s) /\ owe' = owe \cup {tm}
      /\ ~MayTake(s) => tree' = tree /\ earliest' = earliest /\ owe' = owe
      /\ UNCHANGED <<life, repeat_num, time_us, closed, callback, released>>
      /\ UNCHANGED <<task, group, todo, tmp, dels>>
  BY DEF timer_del, Unlock, taskVars, treeVars
<1>1. status' = [status EXCEPT ![tm] = n]
  BY DEF timer_del, Unlock
<1>2. /\ tm \in Timers /\ s \in Bits /\ life[tm] # "none"
      /\ s.processing = status[tm].processing
      /\ ~s.processing => s = status[tm]
  BY <1>0, OpIs
<1>3. b \in BOOLEAN /\ (b <=> s.stop \/ MayTake(s))
  BY <1>2 DEF Bits, MayTake
<1> HIDE DEF b
<1>4. n \in Bits /\ n.processing = s.processing /\ n.del /\ n.stop = b
  BY <1>2, <1>3, DelBits, Zenon
<1> HIDE DEF n, s, tm
<1>5. status \in [Timers -> Bits] /\ tree \in Trees /\ Once(tree) /\ earliest = Leftest(tree)
  BY DEF TimerInv, Types, Places, EarliestIsLeftmost
<1>6. /\ status' \in [Timers -> Bits] /\ status'[tm] = n
      /\ \A x \in Timers : x # tm => status'[x] = status[x]
  BY <1>1, <1>2, <1>4, <1>5
<1>7. /\ tree' \in Trees /\ Once(tree') /\ earliest' = Leftest(tree')
      /\ \A x : InTree(tree', x) <=> InTree(tree, x) /\ ~(x = tm /\ MayTake(s))
  <2>1. CASE MayTake(s)
    <3>1. ~status[tm].del /\ ~status[tm].processing /\ s = status[tm]
      BY <2>1, <1>2 DEF MayTake
    <3>2. /\ tree' = TreeAfterLeave(tm, status[tm])
          /\ earliest' = IF status[tm].stop THEN earliest ELSE EarliestAfterLeave(tree, tm)
      BY <2>1, <3>1, <1>0 DEF LeaveAvl
    <3>3. ~status[tm].stop => InTree(tree, tm) \/ tree = EmptyTree
      BY <2>1, <3>1, <1>0 DEF LeavesOwn, tm, s
    <3> QED
      BY <2>1, <3>1, <3>2, <3>3, <1>2, LeaveTree
  <2>2. CASE ~MayTake(s)
    BY <2>2, <1>0, <1>5
  <2> QED
    BY <2>1, <2>2
<1>8. Types'
  BY <1>0, <1>2, <1>6, <1>7 DEF TimerInv, Types
<1>9. ASSUME NEW x \in Timers
      PROVE  Sound(x)'
  <2>1. Sound(x)
    BY DEF TimerInv
  <2>2. CASE x # tm
    BY <2>1, <2>2, <1>0, <1>6, <1>7
       DEF TimerInv, Types, Sound, Made, Scheduled, Gone
  <2>3. CASE x = tm
    <3>0. Sound(x)
      BY <2>1, <2>3
    <3>1. Made(x)'
      BY <2>3, <3>0, <1>0, <1>2 DEF Sound, Made
    <3>2. ~InTree(tree', tm)
      BY <2>3, <3>0, <1>2, <1>7 DEF Sound, Scheduled, MayTake
    <3>3. Scheduled(x)'
      BY <2>3, <3>2, <1>4, <1>6 DEF Scheduled
    <3>4. Gone(x)'
      <4>1. CASE MayTake(s)
        <5>1. ~status[tm].del /\ ~n.processing
          BY <2>3, <4>1, <1>2, <1>4 DEF MayTake
        <5> QED
          BY <2>3, <4>1, <5>1, <3>0, <1>0, <1>2, <1>4, <1>6 DEF Sound, Gone
      <4>2. CASE ~MayTake(s)
        BY <2>3, <4>2, <3>0, <1>0, <1>2, <1>4, <1>6 DEF Sound, Gone
      <4> QED
        BY <2>3, <4>1, <4>2
    <3> QED
      BY <3>1, <3>3, <3>4, <2>3 DEF Sound
  <2> QED
    BY <2>2, <2>3
<1>10. Places'
  BY <1>0, <1>2, <1>4, <1>6, <1>7 DEF TimerInv, Places
<1>11. Loaded' /\ Thread' /\ EarliestIsLeftmost'
  BY <1>0, <1>7 DEF TimerInv, Loaded, Thread, EarliestIsLeftmost
<1> QED
  BY <1>8, <1>9, <1>10, <1>11 DEF TimerInv

\* timer_stop: the timer leaves the tree, or is left to the timer thread.
LEMMA TimerStopInv ==
  ASSUME TimerInv, LeavesOwn, timer_stop
  PROVE  TimerInv'
<1> DEFINE tm == op.tm
           s == op.s
           b == TRUE
           n == [s EXCEPT !.stop = b]
<1>0. /\ op.name = "stop" /\ op' = NoOp
      /\ MayTake(s) => LeaveAvl(tm, s)
      /\ ~MayTake(s) => tree' = tree /\ earliest' = earliest
      /\ UNCHANGED <<life, repeat_num, time_us, closed, callback, owe, released>>
      /\ UNCHANGED <<task, group, todo, tmp, dels>>
  BY DEF timer_stop, Unlock, taskVars, treeVars, pipeVars
<1>1. status' = [status EXCEPT ![tm] = n]
  BY DEF timer_stop, Unlock
<1>2. /\ tm \in Timers /\ s \in Bits /\ life[tm] # "none"
      /\ s.processing = status[tm].processing
      /\ ~s.processing => s = status[tm]
  BY <1>0, OpIs
<1>3. b \in BOOLEAN /\ b
  OBVIOUS
<1> HIDE DEF b
<1>4. n \in Bits /\ n.processing = s.processing /\ n.del = s.del /\ n.stop = b
  BY <1>2, <1>3, StopBit, Zenon
<1> HIDE DEF n, s, tm
<1>5. status \in [Timers -> Bits] /\ tree \in Trees /\ Once(tree) /\ earliest = Leftest(tree)
  BY DEF TimerInv, Types, Places, EarliestIsLeftmost
<1>6. /\ status' \in [Timers -> Bits] /\ status'[tm] = n
      /\ \A x \in Timers : x # tm => status'[x] = status[x]
  BY <1>1, <1>2, <1>4, <1>5
<1>7. /\ tree' \in Trees /\ Once(tree') /\ earliest' = Leftest(tree')
      /\ \A x : InTree(tree', x) <=> InTree(tree, x) /\ ~(x = tm /\ MayTake(s))
  <2>1. CASE MayTake(s)
    <3>1. ~status[tm].del /\ ~status[tm].processing /\ s = status[tm]
      BY <2>1, <1>2 DEF MayTake
    <3>2. /\ tree' = TreeAfterLeave(tm, status[tm])
          /\ earliest' = IF status[tm].stop THEN earliest ELSE EarliestAfterLeave(tree, tm)
      BY <2>1, <3>1, <1>0 DEF LeaveAvl
    <3>3. ~status[tm].stop => InTree(tree, tm) \/ tree = EmptyTree
      BY <2>1, <3>1, <1>0 DEF LeavesOwn, tm, s
    <3> QED
      BY <2>1, <3>1, <3>2, <3>3, <1>2, LeaveTree
  <2>2. CASE ~MayTake(s)
    BY <2>2, <1>0, <1>5
  <2> QED
    BY <2>1, <2>2
<1>8. Types'
  BY <1>0, <1>2, <1>6, <1>7 DEF TimerInv, Types
<1>9. ASSUME NEW x \in Timers
      PROVE  Sound(x)'
  <2>1. Sound(x)
    BY DEF TimerInv
  <2>2. CASE x # tm
    BY <2>1, <2>2, <1>0, <1>6, <1>7
       DEF TimerInv, Types, Sound, Made, Scheduled, Gone
  <2>3. CASE x = tm
    <3>0. Sound(x)
      BY <2>1, <2>3
    <3>1. Made(x)'
      BY <2>3, <3>0, <1>0, <1>2 DEF Sound, Made
    <3>2. ~InTree(tree', tm)
      BY <2>3, <3>0, <1>2, <1>7 DEF Sound, Scheduled, MayTake
    <3>3. Scheduled(x)'
      BY <2>3, <3>2, <1>3, <1>4, <1>6 DEF Scheduled
    <3>4. Gone(x)'
      BY <2>3, <3>0, <1>0, <1>2, <1>4, <1>6 DEF Sound, Gone
    <3> QED
      BY <3>1, <3>3, <3>4, <2>3 DEF Sound
  <2> QED
    BY <2>2, <2>3
<1>10. Places'
  BY <1>0, <1>2, <1>4, <1>6, <1>7 DEF TimerInv, Places
<1>11. Loaded' /\ Thread' /\ EarliestIsLeftmost'
  BY <1>0, <1>7 DEF TimerInv, Loaded, Thread, EarliestIsLeftmost
<1> QED
  BY <1>8, <1>9, <1>10, <1>11 DEF TimerInv

\* A critical section that ends without a change.
LEMMA OpEnds ==
  ASSUME TimerInv, op' = NoOp, UNCHANGED <<timerVars, treeVars, pipeVars, taskVars>>
  PROVE  TimerInv'
<1> USE DEF timerVars, treeVars, pipeVars, taskVars
<1>1. Types'
  BY DEF TimerInv, Types
<1>2. ASSUME NEW x \in Timers
      PROVE  Sound(x)'
  BY DEF TimerInv, Sound, Made, Scheduled, Gone
<1>3. Places' /\ Loaded' /\ Thread' /\ EarliestIsLeftmost'
  BY DEF TimerInv, Places, Loaded, Thread, EarliestIsLeftmost
<1> QED
  BY <1>1, <1>2, <1>3 DEF TimerInv

\* timer_set: the timer leaves the tree and joins it at its new id, or is left
\* to the timer thread that is processing it.
LEMMA TimerSetInv ==
  ASSUME TimerInv, LeavesOwn, timer_set, ~op.s.del
  PROVE  TimerInv'
<1> DEFINE tm == op.tm
           s == op.s
           b == FALSE
           n == [s EXCEPT !.stop = b]
           tr == TreeAfterLeave(tm, s)
<1>0. /\ op.name = "set" /\ op' = NoOp
      /\ repeat_num' = [repeat_num EXCEPT ![tm] = op.repeat]
      /\ time_us' = [time_us EXCEPT ![tm] = op.period]
      /\ MayJoin(s) =>
           /\ tree' = Add(tr, tm, op.period)
           /\ earliest' = EarliestAfterJoin(
                IF s.stop THEN earliest ELSE EarliestAfterLeave(tree, tm), tm, op.period)
      /\ ~MayJoin(s) => tree' = tree /\ earliest' = earliest
      /\ UNCHANGED <<life, closed, callback, owe, released>>
      /\ UNCHANGED <<task, group, todo, tmp, dels>>
  BY DEF timer_set, Unlock, taskVars, treeVars, pipeVars
<1>1. status' = [status EXCEPT ![tm] = n]
  BY DEF timer_set, Unlock
<1>2. /\ tm \in Timers /\ s \in Bits /\ life[tm] # "none" /\ ~s.del
      /\ s.processing = status[tm].processing
      /\ ~s.processing => s = status[tm]
      /\ op.repeat \in Repeats \ {0} /\ op.period \in Periods
  BY <1>0, OpIs
<1>3. b \in BOOLEAN /\ ~b
  OBVIOUS
<1> HIDE DEF b
<1>4. n \in Bits /\ n.processing = s.processing /\ n.del = s.del /\ n.stop = b
  BY <1>2, <1>3, StopBit, Zenon
<1> HIDE DEF n, s, tm
<1>5. status \in [Timers -> Bits] /\ tree \in Trees /\ Once(tree) /\ earliest = Leftest(tree)
  BY DEF TimerInv, Types, Places, EarliestIsLeftmost
<1>6. /\ status' \in [Timers -> Bits] /\ status'[tm] = n
      /\ \A x \in Timers : x # tm => status'[x] = status[x]
  BY <1>1, <1>2, <1>4, <1>5
<1>7. /\ tree' \in Trees /\ Once(tree') /\ earliest' = Leftest(tree')
      /\ \A x : InTree(tree', x) <=> InTree(tree, x) \/ (x = tm /\ MayJoin(s))
  <2>1. CASE MayJoin(s)
    <3>1. ~status[tm].del /\ ~status[tm].processing /\ s = status[tm]
      BY <2>1, <1>2 DEF MayJoin
    <3>2. /\ tr \in Trees
          /\ Once(tr)
          /\ \A x : InTree(tr, x) <=> InTree(tree, x) /\ x # tm
          /\ \A x : InTree(tr, x) => Id(tr, x) = Id(tree, x)
          /\ Leftest(tr) = IF s.stop THEN earliest ELSE EarliestAfterLeave(tree, tm)
      <4>1. ~status[tm].stop => InTree(tree, tm) \/ tree = EmptyTree
        BY <2>1, <3>1, <1>0 DEF LeavesOwn, MayTake, tm, s
      <4> QED
        BY <3>1, <4>1, <1>2, LeaveTree
    <3> DEFINE p == op.period
    <3>3. p \in Days
      BY <1>2, DaysAre
    <3> HIDE DEF tr, p
    <3>4. /\ Add(tr, tm, p) \in Trees
          /\ Once(Add(tr, tm, p))
          /\ \A x : InTree(Add(tr, tm, p), x) <=> x = tm \/ InTree(tr, x)
          /\ Leftest(Add(tr, tm, p)) = EarliestAfterJoin(Leftest(tr), tm, p)
      BY <3>2, <3>3, <1>2, JoinTree
    <3>5. tree' = Add(tr, tm, p) /\ earliest' = EarliestAfterJoin(Leftest(tr), tm, p)
      BY <2>1, <3>2, <1>0 DEF tr, p
    <3> QED
      BY <2>1, <3>2, <3>4, <3>5
  <2>2. CASE ~MayJoin(s)
    BY <2>2, <1>0, <1>5
  <2> QED
    BY <2>1, <2>2
<1>8. Types'
  BY <1>0, <1>2, <1>6, <1>7, TimerAssumption DEF TimerInv, Types
<1>9. ASSUME NEW x \in Timers
      PROVE  Sound(x)'
  <2>1. Sound(x)
    BY DEF TimerInv
  <2>2. CASE x # tm
    BY <2>1, <2>2, <1>0, <1>6, <1>7
       DEF TimerInv, Types, Sound, Made, Scheduled, Gone
  <2>3. CASE x = tm
    <3>0. /\ repeat_num'[x] \in Repeats \ {0} /\ repeat_num'[x] # 0
          /\ time_us'[x] \in Periods /\ life'[x] # "none"
      BY <2>3, <1>0, <1>2 DEF TimerInv, Types
    <3>1. Made(x)'
      BY <3>0 DEF Made
    <3>2. InTree(tree', x) <=> ~s.processing
      BY <2>1, <2>3, <1>2, <1>7 DEF Sound, Scheduled, MayJoin
    <3>3. Scheduled(x)'
      BY <2>3, <3>0, <3>2, <1>2, <1>3, <1>4, <1>6 DEF Scheduled
    <3>4. Gone(x)'
      BY <2>1, <2>3, <1>0, <1>2, <1>4, <1>6 DEF Sound, Gone
    <3> QED
      BY <3>1, <3>3, <3>4, <2>3 DEF Sound
  <2> QED
    BY <2>2, <2>3
<1>10. Places'
  BY <1>0, <1>2, <1>4, <1>6, <1>7 DEF TimerInv, Places
<1>11. Loaded' /\ Thread' /\ EarliestIsLeftmost'
  BY <1>0, <1>7 DEF TimerInv, Loaded, Thread, EarliestIsLeftmost
<1> QED
  BY <1>8, <1>9, <1>10, <1>11 DEF TimerInv

\* timer_restart: a stopped timer joins the tree, or is left to the timer thread.
LEMMA TimerRestartInv ==
  ASSUME TimerInv, timer_restart, ~op.s.del /\ op.s.stop /\ repeat_num[op.tm] # 0
  PROVE  TimerInv'
<1> DEFINE tm == op.tm
           s == op.s
           b == FALSE
           n == [s EXCEPT !.stop = b]
<1>0. /\ op.name = "restart" /\ op' = NoOp
      /\ MayJoin(s) =>
           /\ tree' = Add(tree, tm, time_us[tm])
           /\ earliest' = EarliestAfterJoin(earliest, tm, time_us[tm])
      /\ ~MayJoin(s) => tree' = tree /\ earliest' = earliest
      /\ UNCHANGED <<life, repeat_num, time_us, closed, callback, owe, released>>
      /\ UNCHANGED <<task, group, todo, tmp, dels>>
  BY DEF timer_restart, Unlock, taskVars, treeVars, pipeVars
<1>1. status' = [status EXCEPT ![tm] = n]
  BY DEF timer_restart, Unlock
<1>2. /\ tm \in Timers /\ s \in Bits /\ life[tm] # "none" /\ ~s.del /\ s.stop
      /\ repeat_num[tm] # 0
      /\ s.processing = status[tm].processing
      /\ ~s.processing => s = status[tm]
  BY <1>0, OpIs
<1>3. b \in BOOLEAN /\ ~b
  OBVIOUS
<1> HIDE DEF b
<1>4. n \in Bits /\ n.processing = s.processing /\ n.del = s.del /\ n.stop = b
  BY <1>2, <1>3, StopBit, Zenon
<1> HIDE DEF n, s, tm
<1>5. status \in [Timers -> Bits] /\ tree \in Trees /\ Once(tree) /\ earliest = Leftest(tree)
  BY DEF TimerInv, Types, Places, EarliestIsLeftmost
<1>6. /\ status' \in [Timers -> Bits] /\ status'[tm] = n
      /\ \A x \in Timers : x # tm => status'[x] = status[x]
  BY <1>1, <1>2, <1>4, <1>5
<1>7. /\ tree' \in Trees /\ Once(tree') /\ earliest' = Leftest(tree')
      /\ \A x : InTree(tree', x) <=> InTree(tree, x) \/ (x = tm /\ MayJoin(s))
  <2>1. CASE MayJoin(s)
    <3>1. status[tm].stop
      BY <2>1, <1>2 DEF MayJoin
    <3>2. ~InTree(tree, tm) /\ time_us[tm] \in Days
      BY <3>1, <1>2, DaysAre DEF TimerInv, Sound, Scheduled, Made
    <3> DEFINE p == time_us[tm]
    <3> HIDE DEF p
    <3>3. /\ Add(tree, tm, p) \in Trees
          /\ Once(Add(tree, tm, p))
          /\ \A x : InTree(Add(tree, tm, p), x) <=> x = tm \/ InTree(tree, x)
          /\ Leftest(Add(tree, tm, p)) = EarliestAfterJoin(Leftest(tree), tm, p)
      <4>1. p \in Days
        BY <3>2 DEF p
      <4> QED
        BY <4>1, <3>2, <1>2, <1>5, JoinTree
    <3>4. tree' = Add(tree, tm, p) /\ earliest' = EarliestAfterJoin(earliest, tm, p)
      BY <2>1, <1>0 DEF p
    <3> QED
      BY <2>1, <3>3, <3>4, <1>5
  <2>2. CASE ~MayJoin(s)
    BY <2>2, <1>0, <1>5
  <2> QED
    BY <2>1, <2>2
<1>8. Types'
  BY <1>0, <1>2, <1>6, <1>7 DEF TimerInv, Types
<1>9. ASSUME NEW x \in Timers
      PROVE  Sound(x)'
  <2>1. Sound(x)
    BY DEF TimerInv
  <2>2. CASE x # tm
    BY <2>1, <2>2, <1>0, <1>6, <1>7
       DEF TimerInv, Types, Sound, Made, Scheduled, Gone
  <2>3. CASE x = tm
    <3>0. repeat_num'[x] = repeat_num[x] /\ repeat_num'[x] # 0 /\ life'[x] # "none"
      BY <2>3, <1>0, <1>2
    <3>1. Made(x)'
      BY <3>0, <2>1, <1>0 DEF Sound, Made
    <3>2. InTree(tree', x) <=> ~s.processing
      BY <2>1, <2>3, <1>2, <1>7 DEF Sound, Scheduled, MayJoin
    <3>3. Scheduled(x)'
      BY <2>3, <3>0, <3>2, <1>2, <1>3, <1>4, <1>6 DEF Scheduled
    <3>4. Gone(x)'
      BY <2>1, <2>3, <1>0, <1>2, <1>4, <1>6 DEF Sound, Gone
    <3> QED
      BY <3>1, <3>3, <3>4, <2>3 DEF Sound
  <2> QED
    BY <2>2, <2>3
<1>10. Places'
  BY <1>0, <1>2, <1>4, <1>6, <1>7 DEF TimerInv, Places
<1>11. Loaded' /\ Thread' /\ EarliestIsLeftmost'
  BY <1>0, <1>7 DEF TimerInv, Loaded, Thread, EarliestIsLeftmost
<1> QED
  BY <1>8, <1>9, <1>10, <1>11 DEF TimerInv

-----------------------------------------------------------------------------
(* Critical sections of the timer thread *)

\* The chain that the timer thread takes out is that of the first day, and its
\* timers are in the tree.
LEMMA ChainIs ==
  ASSUME TimerInv, earliest # NULL
  PROVE  LET d == Id(tree, earliest) IN
         /\ d \in Days
         /\ tree[d] \in Seq(Timers)
         /\ \A i, j \in 1 .. Len(tree[d]) : tree[d][i] = tree[d][j] => i = j
         /\ \A x : x \in ToSet(tree[d]) <=> Contains(tree[d], x)
         /\ \A x : Contains(tree[d], x) => InTree(tree, x)
<1>1. tree \in Trees /\ Once(tree) /\ earliest = Leftest(tree)
  BY DEF TimerInv, Types, Places, EarliestIsLeftmost
<1>2. InTree(tree, earliest)
  BY <1>1, LeftestNull
<1>3. PICK d \in Days : \E i \in DOMAIN tree[d] : tree[d][i] = earliest
  BY <1>1, <1>2, PlaceOf
<1>4. Id(tree, earliest) = d
  BY <1>1, <1>3, IdIs
<1>5. tree[d] \in Seq(Timers) /\ DOMAIN tree[d] = 1 .. Len(tree[d])
  BY <1>1 DEF Trees
<1>6. \A i, j \in 1 .. Len(tree[d]) : tree[d][i] = tree[d][j] => i = j
  BY <1>1, <1>5 DEF Once
<1>7. \A x : x \in ToSet(tree[d]) <=> Contains(tree[d], x)
  BY <1>5 DEF ToSet, Contains
<1>8. \A x : Contains(tree[d], x) => InTree(tree, x)
  BY DEF InTree
<1> QED
  BY <1>4, <1>5, <1>6, <1>7, <1>8

\* The timer thread takes a chain out of the tree.
LEMMA TaskPopInv ==
  ASSUME TimerInv, TaskPop
  PROVE  TimerInv'
<1>0. PICK d \in Days : d = Id(tree, earliest)
  BY ChainIs DEF TaskPop
<1> DEFINE chain == tree[d]
           rest == [tree EXCEPT ![d] = <<>>]
<1>1. /\ task = "wait" /\ op = NoOp /\ earliest # NULL
      /\ group' = chain /\ todo' = chain /\ tree' = rest /\ earliest' = Leftest(tree')
      /\ status' = [tm \in Timers |->
           IF tm \in ToSet(chain) THEN [status[tm] EXCEPT !.processing = TRUE] ELSE status[tm]]
      /\ repeat_num' = [tm \in Timers |->
           IF tm \in ToSet(chain) THEN Decremented(repeat_num[tm]) ELSE repeat_num[tm]]
      /\ task' = "fire"
      /\ UNCHANGED <<life, time_us, closed, callback, owe, released, op, tmp, dels>>
  BY <1>0 DEF TaskPop, pipeVars
<1>2. /\ chain \in Seq(Timers)
      /\ \A i, j \in 1 .. Len(chain) : chain[i] = chain[j] => i = j
      /\ \A x : x \in ToSet(chain) <=> Contains(chain, x)
      /\ \A x : Contains(chain, x) => InTree(tree, x)
  BY <1>0, <1>1, ChainIs
<1>3. tree \in Trees /\ Once(tree) /\ status \in [Timers -> Bits]
  BY DEF TimerInv, Types, Places
<1>4. /\ tree' \in Trees /\ Once(tree')
      /\ \A x : InTree(tree', x) <=> InTree(tree, x) /\ ~Contains(chain, x)
  <2>1. /\ rest \in Trees /\ Once(rest)
        /\ \A x : InTree(rest, x) <=> InTree(tree, x) /\ ~Contains(chain, x)
    BY <1>3, PopIs
  <2> HIDE DEF rest, chain
  <2> QED
    BY <2>1, <1>1
<1>5. ASSUME NEW x \in Timers
      PROVE  /\ status'[x] \in Bits
             /\ status'[x].stop = status[x].stop /\ status'[x].del = status[x].del
             /\ Contains(chain, x) => /\ status'[x].processing
                                      /\ repeat_num'[x] = Decremented(repeat_num[x])
             /\ ~Contains(chain, x) => /\ status'[x] = status[x]
                                       /\ repeat_num'[x] = repeat_num[x]
  <2>1. status[x] \in Bits
    BY <1>3
  <2> HIDE DEF chain
  <2>2. CASE Contains(chain, x)
    <3>1. status'[x] = [status[x] EXCEPT !.processing = TRUE]
      BY <2>2, <1>1, <1>2
    <3>2. repeat_num'[x] = Decremented(repeat_num[x])
      BY <2>2, <1>1, <1>2
    <3>3. /\ status'[x] \in Bits /\ status'[x].processing
          /\ status'[x].stop = status[x].stop /\ status'[x].del = status[x].del
      BY ONLY <3>1, <2>1, ProcessingBit, Zenon
    <3> QED
      BY <2>2, <3>2, <3>3
  <2>3. CASE ~Contains(chain, x)
    <3>1. status'[x] = status[x] /\ repeat_num'[x] = repeat_num[x]
      BY <2>3, <1>1, <1>2
    <3> QED
      BY <2>1, <2>3, <3>1
  <2> QED
    BY <2>2, <2>3
<1>6. /\ status' \in [Timers -> Bits] /\ repeat_num' \in [Timers -> Int]
  <2>1. repeat_num \in [Timers -> Int]
    BY DEF TimerInv, Types
  <2>2. \A x \in Timers : Decremented(repeat_num[x]) \in Int
    BY <2>1 DEF Decremented
  <2>3. \A x \in Timers : repeat_num'[x] \in Int
    BY <2>1, <2>2, <1>5
  <2>4. DOMAIN status' = Timers /\ status' = [x \in Timers |-> status'[x]]
    BY <1>1
  <2>5. repeat_num' = [x \in Timers |-> repeat_num'[x]]
    BY <1>1
  <2> QED
    BY <2>3, <2>4, <2>5, <1>5
<1> HIDE DEF chain, rest
<1>7. UNCHANGED <<life, time_us, closed, callback, owe, released, op, tmp, dels>>
  BY <1>1
<1>8. task = "wait" /\ task' = "fire" /\ group = <<>> /\ dels = {} /\ op = NoOp
  BY <1>1 DEF TimerInv, Thread
<1>9. group' = chain /\ todo' = chain /\ earliest' = Leftest(tree')
  BY <1>1
<1>10. Types'
  BY <1>2, <1>4, <1>6, <1>7, <1>8, <1>9 DEF TimerInv, Types
<1>11. ASSUME NEW x \in Timers
       PROVE  Sound(x)'
  <2>1. Sound(x) /\ repeat_num[x] \in Int
    BY DEF TimerInv, Types
  <2>2. CASE ~Contains(chain, x)
    BY <2>1, <2>2, <1>4, <1>5, <1>7
       DEF Sound, Made, Scheduled, Gone
  <2>3. CASE Contains(chain, x)
    <3>1. /\ life[x] # "none" /\ repeat_num[x] # 0 /\ ~status[x].del
          /\ ~InTree(tree', x) /\ status'[x].processing
      BY <2>1, <2>3, <1>2, <1>4, <1>5 DEF Sound, Scheduled
    <3> QED
      BY <2>1, <3>1, <1>7 DEF Sound, Made, Scheduled, Gone
  <2> QED
    BY <2>2, <2>3
<1>12. Places'
  <2>1. \A x \in Timers : ~status[x].processing
    BY <1>8 DEF TimerInv, Places, Contains
  <2>2. \A x \in Timers : status'[x].processing <=> Contains(group', x)
    BY <2>1, <1>5, <1>9
  <2> QED
    BY <2>2, <1>2, <1>4, <1>9 DEF Places
<1>13. Thread'
  <2>1. \A i \in 1 .. Len(chain) : Contains(chain, chain[i])
    BY <1>2 DEF Contains
  <2> QED
    BY <2>1, <1>7, <1>8, <1>9 DEF Thread
<1>14. Loaded' /\ EarliestIsLeftmost'
  BY <1>7, <1>8, <1>9 DEF Loaded, EarliestIsLeftmost
<1> QED
  BY <1>10, <1>11, <1>12, <1>13, <1>14 DEF TimerInv

\* The timer thread takes its chain apart: timers that go on are in the tree
\* again, deleted ones are kept to be released.
LEMMA TaskRequeueInv ==
  ASSUME TimerInv, TaskRequeue
  PROVE  TimerInv'
<1>1. /\ task = "fire" /\ todo = <<>> /\ op = NoOp
      /\ tree' = AddAll(tree, group)[Len(group)] /\ earliest' = Leftest(tree')
      /\ dels' = {tm \in ToSet(group) : Deleted(tm)}
      /\ group' = <<>> /\ task' = "dels"
      /\ UNCHANGED <<life, repeat_num, time_us, closed, callback, owe, released, op, todo, tmp>>
  BY DEF TaskRequeue, pipeVars
<1>2. /\ tree \in Trees /\ Once(tree) /\ status \in [Timers -> Bits] /\ group \in Seq(Timers)
      /\ \A i, j \in 1 .. Len(group) : group[i] = group[j] => i = j
      /\ \A x \in Timers : status[x].processing <=> Contains(group, x)
      /\ dels = {}
  BY <1>1 DEF TimerInv, Types, Places, Thread
<1>3. \A x : x \in ToSet(group) <=> Contains(group, x)
  BY <1>2 DEF ToSet, Contains
<1>4. ASSUME NEW x \in Timers, Contains(group, x)
      PROVE  /\ ~InTree(tree, x) /\ life[x] # "none" /\ time_us[x] \in Days
             /\ x \notin owe /\ ~(released[x] > 0)
  <2>1. status[x].processing /\ Sound(x)
    BY <1>2, <1>4 DEF TimerInv
  <2>2. life[x] # "none"
    BY <2>1 DEF Sound, Made, NoBits
  <2> QED
    BY <2>1, <2>2, DaysAre DEF Sound, Scheduled, Made, Gone
<1>5. /\ tree' \in Trees /\ Once(tree')
      /\ \A x : InTree(tree', x) <=> InTree(tree, x) \/ (Contains(group, x) /\ Again(x))
  <2>1. \A i \in 1 .. Len(group) : group[i] \in Timers /\ Contains(group, group[i])
    BY <1>2 DEF Contains
  <2>2. \A i \in 1 .. Len(group) : ~InTree(tree, group[i]) /\ time_us[group[i]] \in Days
    BY <2>1, <1>4
  <2> DEFINE last == AddAll(tree, group)[Len(group)]
  <2>3. /\ last \in Trees
        /\ Once(last)
        /\ \A x : InTree(last, x) <=> InTree(tree, x) \/ (Contains(group, x) /\ Again(x))
    BY <2>2, <1>2, AddAllIs
  <2> HIDE DEF last
  <2>4. tree' = last
    BY <1>1 DEF last
  <2> QED
    BY <2>3, <2>4
<1>6. ASSUME NEW x \in Timers
      PROVE  /\ status'[x] \in Bits /\ ~status'[x].processing
             /\ status'[x].del = status[x].del
             /\ Contains(group, x) => (status'[x].stop <=> status[x].stop \/ status[x].del)
             /\ ~Contains(group, x) => status'[x] = status[x]
  <2>1. status[x] \in Bits
    BY <1>2
  <2>2. CASE Contains(group, x)
    <3> DEFINE b == status[x].stop \/ status[x].del
    <3>1. status'[x] = [status[x] EXCEPT !.processing = FALSE, !.stop = b]
      BY <2>2 DEF TaskRequeue
    <3>2. b \in BOOLEAN /\ (b <=> status[x].stop \/ status[x].del)
      BY <2>1 DEF Bits
    <3> HIDE DEF b
    <3>3. /\ status'[x] \in Bits /\ ~status'[x].processing
          /\ status'[x].del = status[x].del /\ status'[x].stop = b
      <4>1. b \in BOOLEAN
        BY <3>2
      <4> DEFINE n == [status[x] EXCEPT !.processing = FALSE, !.stop = b]
      <4>2. n \in Bits /\ ~n.processing /\ n.del = status[x].del /\ n.stop = b
        BY ONLY <2>1, <4>1, DoneBits, Zenon
      <4>3. status'[x] = n
        BY <3>1
      <4> HIDE DEF n
      <4> QED
        BY <4>2, <4>3
    <3> QED
      BY <2>2, <3>2, <3>3
  <2>3. CASE ~Contains(group, x)
    <3>1. status'[x] = status[x]
      BY <2>3 DEF TaskRequeue
    <3> QED
      BY <2>1, <2>3, <3>1, <1>2
  <2> QED
    BY <2>2, <2>3
<1>7. status' \in [Timers -> Bits]
  <2>1. status' = [x \in Timers |-> status'[x]]
    BY DEF TaskRequeue
  <2> QED
    BY <2>1, <1>6
<1>8. \A x \in Timers : x \in dels' <=> Contains(group, x) /\ status[x].del
  BY <1>1, <1>3 DEF Deleted
<1>9. Types'
  <2>1. dels' \subseteq Timers
    BY <1>1, <1>2 DEF ToSet
  <2> QED
    BY <2>1, <1>1, <1>5, <1>7 DEF TimerInv, Types
<1>10. ASSUME NEW x \in Timers
       PROVE  Sound(x)'
  <2>1. Sound(x)
    BY DEF TimerInv
  <2>2. CASE ~Contains(group, x)
    BY <2>1, <2>2, <1>1, <1>2, <1>5, <1>6, <1>8
       DEF Sound, Made, Scheduled, Gone
  <2>3. CASE Contains(group, x)
    <3>1. InTree(tree', x) <=> ~status[x].del /\ ~status[x].stop /\ repeat_num[x] # 0
      BY <2>3, <1>4, <1>5 DEF Again
    <3>2. status[x].processing
      BY <2>3, <1>2
    <3>3. Made(x)' /\ Scheduled(x)'
      BY <2>1, <2>3, <3>1, <1>1, <1>4, <1>6 DEF Sound, Made, Scheduled
    <3>4. Gone(x)'
      BY <2>3, <1>1, <1>4, <1>6, <1>8 DEF Gone
    <3> QED
      BY <3>3, <3>4 DEF Sound
  <2> QED
    BY <2>2, <2>3
<1>11. Places'
  BY <1>1, <1>5, <1>6 DEF Places, Contains
<1>12. Thread' /\ Loaded' /\ EarliestIsLeftmost'
  BY <1>1 DEF Thread, Loaded, EarliestIsLeftmost
<1> QED
  BY <1>9, <1>10, <1>11, <1>12 DEF TimerInv

\* The clock.
LEMMA TickInv ==
  ASSUME TimerInv, Tick
  PROVE  TimerInv'
<1> DEFINE new == [d \in Days |-> IF d + 1 \in Days THEN tree[d + 1] ELSE <<>>]
<1>1. tree' = new /\ UNCHANGED <<timerVars, earliest, pipeVars, op, taskVars>>
  BY DEF Tick
<1>2. tree \in Trees /\ Once(tree) /\ tree[-MaxLate] = <<>> /\ earliest = Leftest(tree)
  BY DEF TimerInv, Types, Places, Tick, EarliestIsLeftmost
<1>3. /\ new \in Trees
      /\ Once(new)
      /\ \A x : InTree(new, x) <=> InTree(tree, x)
      /\ Leftest(new) = Leftest(tree)
  BY <1>2, TickIs
<1> HIDE DEF new
<1> USE DEF timerVars, pipeVars, taskVars
<1>4. Types'
  BY <1>1, <1>3 DEF TimerInv, Types
<1>5. ASSUME NEW x \in Timers
      PROVE  Sound(x)'
  BY <1>1, <1>3 DEF TimerInv, Sound, Made, Scheduled, Gone
<1>6. Places' /\ Loaded' /\ Thread' /\ EarliestIsLeftmost'
  BY <1>1, <1>2, <1>3 DEF TimerInv, Places, Loaded, Thread, EarliestIsLeftmost
<1> QED
  BY <1>4, <1>5, <1>6 DEF TimerInv

-----------------------------------------------------------------------------
(* The theorems *)

\* Every step keeps the invariant, as long as clients take out what is there.
LEMMA TimerNext ==
  ASSUME TimerInv, LeavesOwn, [Next]_vars
  PROVE  TimerInv'
<1>1. CASE TaskStep
  BY <1>1, TaskPopInv, TaskFireInv, TaskMarkLoadInv, TaskMarkStoreInv, TaskRequeueInv,
     TaskReleaseInv, TaskWaitInv DEF TaskStep
<1>2. CASE ClientStep
  <2>1. CASE timer_set
    <3>1. CASE op.s.del
      <4>1. op' = NoOp /\ UNCHANGED <<timerVars, treeVars, pipeVars, taskVars>>
        BY <2>1, <3>1 DEF timer_set, timerVars
      <4> QED
        BY <4>1, OpEnds
    <3> QED
      BY <2>1, <3>1, TimerSetInv
  <2>2. CASE timer_restart
    <3>1. CASE ~(~op.s.del /\ op.s.stop /\ repeat_num[op.tm] # 0)
      <4>1. op' = NoOp /\ UNCHANGED <<timerVars, treeVars, pipeVars, taskVars>>
        BY <2>2, <3>1 DEF timer_restart, timerVars
      <4> QED
        BY <4>1, OpEnds
    <3> QED
      BY <2>2, <3>1, TimerRestartInv
  <2> QED
    BY <1>2, <2>1, <2>2, TimerDelInv, TimerStopInv, DelReleaseInv, NewReadyInv DEF ClientStep
<1>3. CASE ClientCall
  BY <1>3, TimerNewInv, ClientCloseInv, LockSetInv, LockOtherInv DEF ClientCall
<1>4. CASE Callback
  BY <1>4, LockCallbackInv DEF Callback
<1>5. CASE Tick
  BY <1>5, TickInv
<1>6. CASE UNCHANGED vars
  <2> USE <1>6 DEF vars, timerVars, treeVars, pipeVars, taskVars
  <2>1. Types'
    BY DEF TimerInv, Types
  <2>2. ASSUME NEW x \in Timers
        PROVE  Sound(x)'
    BY DEF TimerInv, Sound, Made, Scheduled, Gone
  <2>3. Places' /\ Loaded' /\ Thread' /\ EarliestIsLeftmost'
    BY DEF TimerInv, Places, Loaded, Thread, EarliestIsLeftmost
  <2> QED
    BY <2>1, <2>2, <2>3 DEF TimerInv
<1> QED
  BY <1>1, <1>2, <1>3, <1>4, <1>5, <1>6 DEF Next

\* The invariant implies that the timers have their types.
LEMMA TimerTypes ==
  ASSUME TimerInv
  PROVE  TypeOK
<1>1. \A d \in Days : ToSet(tree[d]) \subseteq Timers
  BY DEF TimerInv, Types, Trees, ToSet
<1>2. earliest \in Timers \cup {NULL}
  BY LeftestNull DEF TimerInv, Types, EarliestIsLeftmost
<1>3. ToSet(group) \subseteq Timers
  BY DEF TimerInv, Types, ToSet
<1>4. ToSet(todo) \subseteq ToSet(group)
  <2>1. todo \in Seq(Timers) /\ group \in Seq(Timers)
    BY DEF TimerInv, Types
  <2>2. SUFFICES ASSUME NEW i \in DOMAIN todo PROVE todo[i] \in ToSet(group)
    BY DEF ToSet
  <2>3. Contains(group, todo[i])
    BY <2>1 DEF TimerInv, Thread
  <2> QED
    BY <2>1, <2>3 DEF Contains, ToSet
<1> QED
  BY <1>1, <1>2, <1>3, <1>4 DEF TimerInv, Types, TypeOK

\* A set with at most one element has at most that cardinality.
LEMMA AtMostOne ==
  ASSUME NEW S, \A x, y \in S : x = y
  PROVE  Cardinality(S) \in 0 .. 1 /\ (S = {} => Cardinality(S) = 0)
<1>1. CASE S = {}
  BY <1>1, FS_EmptySet
<1>2. CASE S # {}
  <2>1. PICK x \in S : TRUE
    BY <1>2
  <2>2. S = {x}
    BY <2>1
  <2> QED
    BY <2>2, <1>2, FS_Singleton
<1> QED
  BY <1>1, <1>2

\* The invariant implies that a timer sits in one place.
LEMMA TimerPlaces ==
  ASSUME TimerInv
  PROVE  OnePlace
<1>1. SUFFICES ASSUME NEW tm \in Timers
      PROVE  LET inTree == {x \in Days \X (1 .. Cardinality(Timers)) :
                              x[2] \in DOMAIN tree[x[1]] /\ tree[x[1]][x[2]] = tm}
                 inGroup == {i \in DOMAIN group : group[i] = tm}
             IN /\ Cardinality(inTree) + Cardinality(inGroup) <= 1
                /\ inGroup # {} <=> status[tm].processing
  BY DEF OnePlace
<1> DEFINE inTree == {x \in Days \X (1 .. Cardinality(Timers)) :
                        x[2] \in DOMAIN tree[x[1]] /\ tree[x[1]][x[2]] = tm}
           inGroup == {i \in DOMAIN group : group[i] = tm}
<1>2. /\ tree \in Trees /\ Once(tree) /\ group \in Seq(Timers) /\ Scheduled(tm)
      /\ \A i, j \in 1 .. Len(group) : group[i] = group[j] => i = j
      /\ status[tm].processing <=> Contains(group, tm)
  BY DEF TimerInv, Types, Places, Sound
<1>3. Cardinality(inTree) \in 0 .. 1 /\ (inTree = {} => Cardinality(inTree) = 0)
  <2>1. ASSUME NEW x \in inTree, NEW y \in inTree PROVE x = y
    <3>1. x[1] \in Days /\ y[1] \in Days /\ x = <<x[1], x[2]>> /\ y = <<y[1], y[2]>>
      OBVIOUS
    <3>2. /\ x[2] \in DOMAIN tree[x[1]] /\ y[2] \in DOMAIN tree[y[1]]
          /\ tree[x[1]][x[2]] = tree[y[1]][y[2]]
      OBVIOUS
    <3>3. x[1] = y[1] /\ x[2] = y[2]
      BY <3>1, <3>2, <1>2 DEF Once
    <3> QED
      BY <3>1, <3>3
  <2> HIDE DEF inTree
  <2> QED
    BY <2>1, AtMostOne
<1>4. Cardinality(inGroup) \in 0 .. 1 /\ (inGroup = {} => Cardinality(inGroup) = 0)
  <2>1. \A x, y \in inGroup : x = y
    BY <1>2
  <2> HIDE DEF inGroup
  <2> QED
    BY <2>1, AtMostOne
<1>5. inGroup # {} <=> Contains(group, tm)
  BY <1>2 DEF Contains
<1>6. inTree # {} => InTree(tree, tm)
  <2>1. SUFFICES ASSUME NEW x \in inTree PROVE InTree(tree, tm)
    OBVIOUS
  <2>2. x[1] \in Days /\ x[2] \in DOMAIN tree[x[1]] /\ tree[x[1]][x[2]] = tm
    OBVIOUS
  <2> QED
    BY <2>2, <1>2, PlaceIn
<1>7. inTree = {} \/ inGroup = {}
  BY <1>2, <1>5, <1>6 DEF Scheduled
<1> HIDE DEF inTree, inGroup
<1>8. Cardinality(inTree) + Cardinality(inGroup) <= 1
  BY <1>3, <1>4, <1>7
<1>9. inGroup # {} <=> status[tm].processing
  BY <1>2, <1>5
<1> QED
  BY <1>8, <1>9 DEF inTree, inGroup

\* The invariant implies the safety invariants.
LEMMA TimerInvImplies ==
  ASSUME TimerInv
  PROVE  TreeRight /\ NoUseAfterRelease
<1>1. TreeRight
  BY TimerTypes, TimerPlaces DEF TimerInv, TreeRight
<1>2. NoUseAfterRelease
  <2>1. SUFFICES ASSUME NEW tm \in Timers, tm \in owe \cup dels \/ released[tm] > 0
                 PROVE  /\ ~InTree(tree, tm)
                        /\ earliest # tm
                        /\ ~Contains(group, tm)
                        /\ ~(tm \in owe /\ tm \in dels)
                        /\ released[tm] > 0 => tm \notin owe \cup dels
    BY DEF NoUseAfterRelease
  <2>2. ~InTree(tree, tm) /\ ~Contains(group, tm)
    BY <2>1 DEF TimerInv, Sound, Gone, Scheduled, Places
  <2>3. earliest # tm
    <3>1. tree \in Trees /\ earliest = Leftest(tree)
      BY DEF TimerInv, Types, EarliestIsLeftmost
    <3> QED
      BY <3>1, <2>2, LeftestNull, TimerAssumption
  <2> QED
    BY <2>2, <2>3 DEF TimerInv, Sound, Gone
<1> QED
  BY <1>1, <1>2

\* Only timer_set makes a counted timer endless.
LEMMA CountStep ==
  ASSUME TimerInv, Next, NEW tm \in Timers,
         life[tm] # "none", repeat_num[tm] >= 0, repeat_num'[tm] < 0
  PROVE  op.name = "set"
<1>1. SUFFICES ASSUME op.name # "set" PROVE FALSE
  OBVIOUS
<1>2. repeat_num \in [Timers -> Int]
  BY DEF TimerInv, Types
<1>3. repeat_num' # repeat_num
  BY <1>2
<1>4. CASE TaskPop
  <2>1. PICK d \in Days : d = Id(tree, earliest)
    BY <1>4, ChainIs DEF TaskPop
  <2>2. /\ repeat_num' = [x \in Timers |->
             IF x \in ToSet(tree[d]) THEN Decremented(repeat_num[x]) ELSE repeat_num[x]]
        /\ earliest # NULL
    BY <2>1, <1>4 DEF TaskPop
  <2>3. tm \in ToSet(tree[d]) => InTree(tree, tm)
    BY <2>1, <2>2, ChainIs
  <2>4. tm \in ToSet(tree[d]) /\ repeat_num'[tm] = Decremented(repeat_num[tm])
    BY <2>2, <1>2
  <2>5. repeat_num[tm] # 0
    BY <2>3, <2>4 DEF TimerInv, Sound, Scheduled
  <2> QED
    BY <2>4, <2>5, <1>2 DEF Decremented
<1>5. CASE \E x \in Timers, r \in Repeats, p \in Periods : timer_new(x, r, p)
  <2>1. PICK x \in Timers, r \in Repeats, p \in Periods : timer_new(x, r, p)
    BY <1>5
  <2>2. x # tm /\ repeat_num' = [repeat_num EXCEPT ![x] = r]
    BY <2>1 DEF timer_new
  <2> QED
    BY <2>2, <1>2
<1>6. CASE TaskStep /\ ~TaskPop
  BY <1>3, <1>6 DEF TaskStep, TaskFire, TaskMarkLoad, TaskMarkStore, TaskRequeue, TaskRelease,
     TaskWait, timerVars
<1>7. CASE ClientStep
  BY <1>1, <1>3, <1>7 DEF ClientStep, timer_del, timer_stop, timer_set, timer_restart, DelRelease,
     NewReady, timerVars
<1>8. CASE ClientCall
  BY <1>3, <1>5, <1>8 DEF ClientCall, ClientClose, LockSet, LockOther, timerVars
<1>9. CASE Callback \/ Tick
  BY <1>3, <1>9 DEF Callback, LockCallback, Tick, timerVars
<1> QED
  BY <1>4, <1>6, <1>7, <1>8, <1>9 DEF Next

\* For any timers, counts and periods: whatever clients do while the timer
\* thread works, each timer is in one place and the cached pointer leads to the
\* leftmost node, as long as no client stops, sets or deletes a timer that has
\* run out while others are in the tree (line 238).
THEOREM TreeStaysRight == Spec /\ []LeavesOwn => []TreeRight
<1>1. TimerInv /\ LeavesOwn /\ [Next]_vars => TimerInv'
  BY TimerNext
<1>2. TimerInv => TreeRight
  BY TimerInvImplies
<1> QED
  BY <1>1, <1>2, TimerInit, PTL DEF Spec

\* For any timers, counts and periods: a timer that has been released, or is
\* about to be, by timer_del or by the timer thread, is released once and is
\* nowhere any more.
THEOREM ReleasedIsNotUsed == Spec /\ []LeavesOwn => []NoUseAfterRelease
<1>1. TimerInv /\ LeavesOwn /\ [Next]_vars => TimerInv'
  BY TimerNext
<1>2. TimerInv => NoUseAfterRelease
  BY TimerInvImplies
<1> QED
  BY <1>1, <1>2, TimerInit, PTL DEF Spec

\* For any timers, counts and periods: the timer thread never counts a timer
\* down from 0 to -1, which stands for ever (lines 172-174).
THEOREM CountsEnd == Spec /\ []LeavesOwn => FiniteStaysFinite
<1>1. TimerInv /\ LeavesOwn /\ [Next]_vars => TimerInv'
  BY TimerNext
<1>2. TimerInv /\ [Next]_vars =>
        [\A tm \in Timers :
           (life[tm] # "none" /\ repeat_num[tm] >= 0 /\ repeat_num'[tm] < 0) =>
             op.name = "set"]_vars
  BY CountStep
<1> QED
  BY <1>1, <1>2, TimerInit, PTL DEF Spec, FiniteStaysFinite

=============================================================================
