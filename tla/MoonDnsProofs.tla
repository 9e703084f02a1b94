---------------------------- MODULE MoonDnsProofs ----------------------------
(***************************************************************************)
(* Proofs about MoonDns for any number of clients, domains and objects:    *)
(* every domain has as many answers to come as its status says, the cache  *)
(* is right, and every query is in one list at most.                       *)
(*                                                                         *)
(* The three rest on each other.  That a domain which is freed has no      *)
(* answer to come needs the table and the old list to tell which domains   *)
(* rest in the cache; that its addresses are dropped once needs the counts *)
(* of all who hold them; that no query is lost with it needs its list to   *)
(* be empty.                                                               *)
(***************************************************************************)
EXTENDS MoonDns, FiniteSetTheorems, TLAPS

\* 1 or 0.
One(b) == IF b THEN 1 ELSE 0

\* A pointer to addresses.
Lists == Addrs \cup {NULL}

\* The statuses of a domain that was found or made.
Statuses == DOMAIN_QUERYING .. DOMAIN_NEW_QUERY1

\* A domain in use.
Entries ==
  [used : {TRUE}, name : Domains, status : Statuses,
   p_addrs : Lists, p_new_addrs : Lists, p_query_head : Seq(Queries)]

\* The local variables of a call that has begun.
Calls ==
  [at : {"unlocked", "stored", "notice", "push", "done"}, add : BOOLEAN, fail : BOOLEAN,
   addrs : Lists, new : Objects \cup {NULL}]

\* The types of what the mutex protects.
DomainsTyped ==
  /\ domain \in [Objects -> {Free} \cup Entries]
  /\ table \in [Domains -> Objects \cup {NULL}]
  /\ old_list \in Seq(Objects)
  /\ domain_num \in Nat
  /\ ref_num \in [Addrs -> Int]

\* The types of what the thread works on: outside domain_callback, the loop that asks
\* and the release of expired domains its local variables are empty.
TaskTyped ==
  /\ p_add_cares \in Seq(Objects) /\ todo \in Seq(Objects)
  /\ asked \in [Objects -> Nat]
  /\ cb \in [queries : Seq(Queries), addrs : Lists, old : Lists, answer : Lists,
             del : Objects \cup {NULL}]
  /\ dels \in SUBSET Objects
  /\ p_list \in Objects \cup {NULL}
  /\ (task # "notice" => cb = NoCb) /\ (task # "free" => dels = {})
  /\ (p_list # NULL => task \in {"add", "notice"})
  /\ (task # "add" /\ p_list = NULL => todo = <<>>)

\* The types of what belongs to a query; only a query that joined a list is cancelled.
QueriesTyped ==
  /\ call \in [Queries -> {NoCall} \cup Calls]
  /\ status \in [Queries -> {0, 1}]
  /\ p_domain \in [Queries -> Objects \cup {NULL}]
  /\ inited \in [Queries -> BOOLEAN]
  /\ refs \in [Queries -> Int]
  /\ cancel \in [Queries -> {"no", "pending", "called", "tested"}]
  /\ \A q \in Queries : cancel[q] # "no" => call[q] # NoCall /\ call[q].add
  /\ \A q \in Queries : call[q] # NoCall /\ call[q].add => p_domain[q] \in Objects
  /\ \A q \in Queries : call[q].at = "push" => call[q].new # NULL

\* The domain has left the table and is about to be freed.
Gone(o) == cb.del = o \/ o \in dels

\* The hash table has every domain in use but those that are about to be freed.
TableRight ==
  /\ \A d \in Domains : table[d] # NULL => domain[table[d]].used /\ domain[table[d]].name = d
  /\ \A o \in Objects : domain[o].used => (Gone(o) <=> table[domain[o].name] # o)
  /\ \A o \in Objects : Gone(o) => domain[o].used /\ domain[o].status = DOMAIN_QUERY2

\* The old list.
OldListRight ==
  /\ IsInjective(old_list)
  /\ domain_num = Len(old_list) /\ domain_num <= DNS_CACHE_NUM
  /\ \A o \in Objects :
       o \in ToSet(old_list) <=>
         domain[o].used /\ ~Gone(o) /\ domain[o].status >= DOMAIN_QUERY2
  /\ \A o \in ToSet(old_list) : domain[o].p_addrs # NULL

\* What the status of a domain says of its other fields.
FieldsRight ==
  \A o \in Objects : domain[o].used =>
    /\ domain[o].status \notin {DOMAIN_QUERY1, DOMAIN_NEW_QUERY1} => domain[o].p_new_addrs = NULL
    /\ domain[o].status = DOMAIN_QUERY2 => domain[o].p_query_head = <<>>

\* Table and old list.
Tables == TableRight /\ OldListRight /\ FieldsRight

\* The invariant of the cache.
DnsInv ==
  /\ DomainsTyped /\ TaskTyped /\ QueriesTyped
  /\ Tables /\ TwoRequests /\ AddrsCounted

\* The query is in the list of its domain.
Waiting(q) == call[q] # NoCall /\ call[q].add /\ status[q] = 0 /\ q \notin spoilt

\* A query in the list of a domain waits for that domain, and one that waits is
\* in the list.
DomainLists ==
  /\ \A o \in Objects : domain[o].used =>
       /\ IsInjective(domain[o].p_query_head)
       /\ \A q \in ToSet(domain[o].p_query_head) : Waiting(q) /\ p_domain[q] = o
  /\ \A q \in Queries : Waiting(q) =>
       domain[p_domain[q]].used /\ q \in ToSet(domain[p_domain[q]].p_query_head)

\* The queries the thread has taken out are marked.
TakenRight ==
  /\ IsInjective(cb.queries)
  /\ \A q \in ToSet(cb.queries) : call[q] # NoCall /\ (status[q] = 1 \/ q \in spoilt)

\* The status of a query on its way: cancel_query comes after the set-up.
StagesRight ==
  \A q \in Queries :
    /\ call[q] = NoCall => status[q] = 0 /\ ~inited[q] /\ q \notin spoilt
    /\ call[q] # NoCall /\ call[q].at \in {"unlocked", "stored"} => ~inited[q]
    /\ call[q] # NoCall /\ call[q].at # "unlocked" /\ ~call[q].add => status[q] = 1
    /\ cancel[q] \in {"called", "tested"} => inited[q]

\* A query has a reference of its client, one for its list and one of a caller that
\* is about to hand on addresses.
RefsRight ==
  \A q \in Queries \ spoilt :
    refs[q] = 1 + One(q \in ToSet(cb.queries)) + One(Waiting(q))
                + One(call[q] # NoCall /\ call[q].at = "notice")

\* The invariant of the queries.
QueriesInv == DomainLists /\ TakenRight /\ StagesRight /\ RefsRight

-----------------------------------------------------------------------------
(* Lists and counts *)

\* Two sets that differ in one element at most.
LEMMA OneChanges ==
  ASSUME NEW S, NEW T, IsFiniteSet(S), IsFiniteSet(T), NEW t,
         \A u : u # t => (u \in S <=> u \in T)
  PROVE  Cardinality(T) = Cardinality(S) + One(t \in T) - One(t \in S)
<1>1. Cardinality(S) \in Nat /\ Cardinality(T) \in Nat
  BY FS_CardinalityType
<1>2. CASE t \in S <=> t \in T
  <2>1. S = T
    BY <1>2
  <2> QED
    BY <1>1, <1>2, <2>1 DEF One
<1>3. CASE t \in T /\ t \notin S
  <2>1. T = S \cup {t}
    BY <1>3
  <2> QED
    BY <1>1, <1>3, <2>1, FS_AddElement DEF One
<1>4. CASE t \in S /\ t \notin T
  <2>1. S = T \cup {t}
    BY <1>4
  <2> QED
    BY <1>1, <1>4, <2>1, FS_AddElement DEF One
<1> QED
  BY <1>2, <1>3, <1>4

\* Contains is membership in the set of the elements.
LEMMA ContainsIsIn ==
  ASSUME NEW S, NEW list \in Seq(S), NEW x
  PROVE  Contains(list, x) <=> x \in ToSet(list)
BY DEF Contains, ToSet

\* The elements of a list are of its type.
LEMMA ElementsTyped ==
  ASSUME NEW S, NEW list \in Seq(S)
  PROVE  ToSet(list) \subseteq S
BY DEF ToSet

\* An empty list.
LEMMA EmptyList ==
  IsInjective(<<>>) /\ ToSet(<<>>) = {}
BY DEF IsInjective, ToSet

\* dlist_del takes one element out of a list that has every element once.
LEMMA DelFacts ==
  ASSUME NEW S, NEW list \in Seq(S), IsInjective(list), NEW x
  PROVE  /\ dlist_del(list, x) \in Seq(S)
         /\ IsInjective(dlist_del(list, x))
         /\ ToSet(dlist_del(list, x)) = ToSet(list) \ {x}
         /\ Len(dlist_del(list, x)) = Len(list) - One(x \in ToSet(list))
<1>1. CASE x \notin ToSet(list)
  <2>1. dlist_del(list, x) = list
    BY <1>1, ContainsIsIn DEF dlist_del
  <2> QED
    BY <1>1, <2>1 DEF One
<1>2. CASE x \in ToSet(list)
  <2> DEFINE k == CHOOSE i \in DOMAIN list : list[i] = x
             cut == [i \in 1 .. Len(list) - 1 |-> IF i < k THEN list[i] ELSE list[i + 1]]
  <2>1. k \in 1 .. Len(list) /\ list[k] = x
    BY <1>2 DEF ToSet
  <2>2. dlist_del(list, x) = cut
    BY <1>2, ContainsIsIn DEF dlist_del
  <2> HIDE DEF k
  <2>3. Len(list) \in Nat /\ Len(list) >= 1
    BY <2>1
  <2>4. \A i \in 1 .. Len(list) : list[i] \in S
    OBVIOUS
  <2>5. cut \in Seq(S) /\ Len(cut) = Len(list) - 1
    <3>1. cut \in [1 .. Len(list) - 1 -> S]
      BY <2>1, <2>3, <2>4
    <3> QED
      BY <2>3, <3>1
  <2>6. \A i, j \in 1 .. Len(list) : list[i] = list[j] => i = j
    BY DEF IsInjective
  <2>7. IsInjective(cut)
    BY <2>1, <2>3, <2>6 DEF IsInjective
  <2>8. \A y : y \in ToSet(cut) <=> y \in ToSet(list) /\ y # x
    <3> SUFFICES ASSUME NEW y PROVE y \in ToSet(cut) <=> y \in ToSet(list) /\ y # x
      OBVIOUS
    <3>1. ASSUME y \in ToSet(cut) PROVE y \in ToSet(list) /\ y # x
      <4> PICK i \in 1 .. Len(list) - 1 : y = cut[i]
        BY <2>3, <3>1 DEF ToSet
      <4> QED
        BY <2>1, <2>3, <2>6 DEF ToSet
    <3>2. ASSUME y \in ToSet(list), y # x PROVE y \in ToSet(cut)
      <4> PICK i \in 1 .. Len(list) : y = list[i]
        BY <3>2 DEF ToSet
      <4>1. CASE i < k
        <5>1. i \in 1 .. Len(list) - 1 /\ cut[i] = y
          BY <2>1, <2>3, <4>1
        <5> QED
          BY <5>1 DEF ToSet
      <4>2. CASE i >= k
        <5>1. i - 1 \in 1 .. Len(list) - 1 /\ cut[i - 1] = y
          BY <2>1, <2>3, <3>2, <4>2
        <5> QED
          BY <5>1 DEF ToSet
      <4> QED
        BY <2>1, <4>1, <4>2
    <3> QED
      BY <3>1, <3>2
  <2> QED
    BY <1>2, <2>2, <2>5, <2>7, <2>8 DEF One
<1> QED
  BY <1>1, <1>2

\* A new element at the end of a list.
LEMMA TailFacts ==
  ASSUME NEW S, NEW list \in Seq(S), IsInjective(list), NEW x \in S, x \notin ToSet(list)
  PROVE  /\ InsertTail(list, x) \in Seq(S)
         /\ IsInjective(InsertTail(list, x))
         /\ ToSet(InsertTail(list, x)) = ToSet(list) \cup {x}
         /\ Len(InsertTail(list, x)) = Len(list) + 1
<1> DEFINE new == Append(list, x)
<1>1. new \in Seq(S) /\ Len(new) = Len(list) + 1
  OBVIOUS
<1>2. /\ \A i \in 1 .. Len(list) : new[i] = list[i]
      /\ new[Len(list) + 1] = x
  OBVIOUS
<1>3. \A i, j \in 1 .. Len(list) : list[i] = list[j] => i = j
  BY DEF IsInjective
<1> HIDE DEF new
<1>4. \A i \in 1 .. Len(list) : list[i] # x
  BY DEF ToSet
<1>5. IsInjective(new)
  BY <1>1, <1>2, <1>3, <1>4 DEF IsInjective
<1>6. \A y : y \in ToSet(new) <=> y \in ToSet(list) \/ y = x
  BY <1>1, <1>2 DEF ToSet
<1> QED
  BY <1>1, <1>5, <1>6 DEF InsertTail, new

\* A new element at the head of a list.
LEMMA InsertFacts ==
  ASSUME NEW S, NEW list \in Seq(S), IsInjective(list), NEW x \in S, x \notin ToSet(list)
  PROVE  /\ dlist_insert(list, x) \in Seq(S)
         /\ IsInjective(dlist_insert(list, x))
         /\ ToSet(dlist_insert(list, x)) = ToSet(list) \cup {x}
<1> DEFINE new == <<x>> \o list
<1>1. new \in Seq(S) /\ Len(new) = Len(list) + 1
  OBVIOUS
<1>2. /\ \A i \in 1 .. Len(list) : new[i + 1] = list[i]
      /\ new[1] = x
  OBVIOUS
<1>3. \A i, j \in 1 .. Len(list) : list[i] = list[j] => i = j
  BY DEF IsInjective
<1> HIDE DEF new
<1>4. \A i \in 1 .. Len(list) : list[i] # x
  BY DEF ToSet
<1>5. \A i \in 1 .. Len(new) : i = 1 \/ (i - 1 \in 1 .. Len(list) /\ new[i] = list[i - 1])
  BY <1>1, <1>2
<1>6. IsInjective(new)
  <2> SUFFICES ASSUME NEW i \in 1 .. Len(new), NEW j \in 1 .. Len(new), new[i] = new[j]
               PROVE  i = j
    BY <1>1 DEF IsInjective
  <2>1. CASE i = 1 /\ j = 1
    BY <2>1
  <2>2. CASE i = 1 /\ j # 1
    BY <1>2, <1>4, <1>5, <2>2
  <2>3. CASE i # 1 /\ j = 1
    BY <1>2, <1>4, <1>5, <2>3
  <2>4. CASE i # 1 /\ j # 1
    <3>1. i - 1 = j - 1
      BY <1>3, <1>5, <2>4
    <3> QED
      BY <3>1
  <2> QED
    BY <2>1, <2>2, <2>3, <2>4
<1>7. \A y : y \in ToSet(new) <=> y \in ToSet(list) \/ y = x
  <2>1. \A y : y \in ToSet(new) => y \in ToSet(list) \/ y = x
    BY <1>1, <1>2, <1>5 DEF ToSet
  <2>2. \A y : y \in ToSet(list) => y \in ToSet(new)
    <3> TAKE y
    <3> HAVE y \in ToSet(list)
    <3> PICK i \in 1 .. Len(list) : y = list[i]
      BY DEF ToSet
    <3>1. i + 1 \in DOMAIN new /\ new[i + 1] = y
      BY <1>1, <1>2
    <3> QED
      BY <3>1 DEF ToSet
  <2>3. x \in ToSet(new)
    BY <1>1, <1>2 DEF ToSet
  <2> QED
    BY <2>1, <2>2, <2>3
<1> QED
  BY <1>1, <1>6, <1>7 DEF dlist_insert, new

\* The first element leaves a list.
LEMMA HeadLeaves ==
  ASSUME NEW S, NEW list \in Seq(S), IsInjective(list), list # <<>>
  PROVE  /\ Tail(list) \in Seq(S) /\ Len(Tail(list)) = Len(list) - 1
         /\ Head(list) \in ToSet(list)
         /\ IsInjective(Tail(list))
         /\ ToSet(Tail(list)) = ToSet(list) \ {Head(list)}
<1>1. /\ Tail(list) \in Seq(S) /\ Len(Tail(list)) = Len(list) - 1 /\ Len(list) >= 1
      /\ \A i \in 1 .. Len(list) - 1 : Tail(list)[i] = list[i + 1]
      /\ Head(list) = list[1]
  OBVIOUS
<1>2. \A i, j \in 1 .. Len(list) : list[i] = list[j] => i = j
  BY DEF IsInjective
<1>3. IsInjective(Tail(list))
  BY <1>1, <1>2 DEF IsInjective
<1>4. \A y : y \in ToSet(Tail(list)) <=> y \in ToSet(list) /\ y # Head(list)
  <2>1. \A y : y \in ToSet(Tail(list)) => y \in ToSet(list) /\ y # Head(list)
    BY <1>1, <1>2 DEF ToSet
  <2>2. \A y : y \in ToSet(list) /\ y # Head(list) => y \in ToSet(Tail(list))
    <3> TAKE y
    <3> HAVE y \in ToSet(list) /\ y # Head(list)
    <3> PICK i \in 1 .. Len(list) : y = list[i]
      BY DEF ToSet
    <3>1. i - 1 \in DOMAIN Tail(list) /\ Tail(list)[i - 1] = y
      BY <1>1
    <3> QED
      BY <3>1 DEF ToSet
  <2> QED
    BY <2>1, <2>2
<1> QED
  BY <1>1, <1>3, <1>4 DEF ToSet

\* The first elements of a list, and the others.
LEMMA SplitList ==
  ASSUME NEW S, NEW list \in Seq(S), IsInjective(list), NEW k \in 0 .. Len(list)
  PROVE  LET old == SubSeq(list, 1, k)
             rest == SubSeq(list, k + 1, Len(list))
         IN /\ old \in Seq(S) /\ rest \in Seq(S) /\ Len(rest) = Len(list) - k
            /\ IsInjective(rest)
            /\ ToSet(old) \cap ToSet(rest) = {} /\ ToSet(old) \cup ToSet(rest) = ToSet(list)
<1> DEFINE old == SubSeq(list, 1, k)
           rest == SubSeq(list, k + 1, Len(list))
<1>1. /\ old \in Seq(S) /\ Len(old) = k
      /\ \A i \in 1 .. k : old[i] = list[i]
  OBVIOUS
<1>2. /\ rest \in Seq(S) /\ Len(rest) = Len(list) - k
      /\ \A i \in 1 .. Len(list) - k : rest[i] = list[i + k]
  OBVIOUS
<1>3. \A i, j \in 1 .. Len(list) : list[i] = list[j] => i = j
  BY DEF IsInjective
<1> HIDE DEF old, rest
<1>4. IsInjective(rest)
  BY <1>2, <1>3 DEF IsInjective
<1>5. \A y : ~(y \in ToSet(old) /\ y \in ToSet(rest))
  BY <1>1, <1>2, <1>3 DEF ToSet
<1>6. \A y : y \in ToSet(old) \/ y \in ToSet(rest) <=> y \in ToSet(list)
  <2>1. \A y : y \in ToSet(old) => y \in ToSet(list)
    BY <1>1 DEF ToSet
  <2>2. \A y : y \in ToSet(rest) => y \in ToSet(list)
    <3> TAKE y
    <3> HAVE y \in ToSet(rest)
    <3> PICK i \in 1 .. Len(list) - k : y = rest[i]
      BY <1>2 DEF ToSet
    <3>1. i + k \in DOMAIN list /\ list[i + k] = y
      BY <1>2
    <3> QED
      BY <3>1 DEF ToSet
  <2>3. \A y : y \in ToSet(list) => y \in ToSet(old) \/ y \in ToSet(rest)
    <3> TAKE y
    <3> HAVE y \in ToSet(list)
    <3> PICK i \in 1 .. Len(list) : y = list[i]
      BY DEF ToSet
    <3>1. CASE i <= k
      <4>1. i \in DOMAIN old /\ old[i] = y
        BY <1>1, <3>1
      <4> QED
        BY <4>1 DEF ToSet
    <3>2. CASE i > k
      <4>1. i - k \in DOMAIN rest /\ rest[i - k] = y
        BY <1>2, <3>2
      <4> QED
        BY <4>1 DEF ToSet
    <3> QED
      BY <3>1, <3>2
  <2> QED
    BY <2>1, <2>2, <2>3
<1> QED
  BY <1>1, <1>2, <1>4, <1>5, <1>6 DEF old, rest

\* Occurrences are counted in numbers.
LEMMA TimesType ==
  ASSUME NEW S, NEW list \in Seq(S), NEW x
  PROVE  /\ Times(list, x) \in Nat
         /\ IsFiniteSet({i \in DOMAIN list : list[i] = x})
<1>1. IsFiniteSet(1 .. Len(list))
  BY FS_Interval
<1>2. {i \in DOMAIN list : list[i] = x} \in SUBSET (1 .. Len(list))
  OBVIOUS
<1>3. IsFiniteSet({i \in DOMAIN list : list[i] = x})
  BY <1>1, <1>2, FS_Subset
<1> QED
  BY <1>3, FS_CardinalityType DEF Times

\* Nothing occurs in an empty list.
LEMMA TimesEmpty ==
  ASSUME NEW x
  PROVE  Times(<<>>, x) = 0
<1>1. {i \in DOMAIN <<>> : <<>>[i] = x} = {}
  OBVIOUS
<1> QED
  BY <1>1, FS_EmptySet DEF Times

\* In a list without repetitions an element occurs once.
LEMMA TimesOnce ==
  ASSUME NEW S, NEW list \in Seq(S), IsInjective(list), NEW x
  PROVE  Times(list, x) = One(x \in ToSet(list))
<1>1. CASE x \in ToSet(list)
  <2> PICK k \in DOMAIN list : list[k] = x
    BY <1>1 DEF ToSet
  <2>1. {i \in DOMAIN list : list[i] = x} = {k}
    BY DEF IsInjective
  <2> QED
    BY <1>1, <2>1, FS_Singleton DEF Times, One
<1>2. CASE x \notin ToSet(list)
  <2>1. {i \in DOMAIN list : list[i] = x} = {}
    BY <1>2 DEF ToSet
  <2> QED
    BY <1>2, <2>1, FS_EmptySet DEF Times, One
<1> QED
  BY <1>1, <1>2

\* The occurrences in a list that has lost its head.
LEMMA TimesOfTail ==
  ASSUME NEW S, NEW list \in Seq(S), list # <<>>, NEW x
  PROVE  Times(list, x) = Times(Tail(list), x) + One(Head(list) = x)
<1> DEFINE A == {i \in DOMAIN list : list[i] = x}
           B == {i \in DOMAIN Tail(list) : Tail(list)[i] = x}
           C == A \ {1}
           f == [i \in B |-> i + 1]
<1>1. /\ Tail(list) \in Seq(S) /\ Len(Tail(list)) = Len(list) - 1 /\ Len(list) >= 1
      /\ \A i \in 1 .. Len(list) - 1 : Tail(list)[i] = list[i + 1]
      /\ Head(list) = list[1]
  OBVIOUS
<1>2. IsFiniteSet(A) /\ IsFiniteSet(B)
  BY <1>1, TimesType
<1>3. f \in Bijection(B, C)
  <2>1. f \in [B -> C]
    BY <1>1
  <2>2. \A i, j \in B : f[i] = f[j] => i = j
    BY <1>1
  <2>3. \A c \in C : \E i \in B : f[i] = c
    <3> TAKE c \in C
    <3>1. c - 1 \in B /\ f[c - 1] = c
      BY <1>1
    <3> QED
      BY <3>1
  <2> HIDE DEF B, C, f
  <2> QED
    BY <2>1, <2>2, <2>3 DEF Bijection, Injection, Surjection, IsInjective
<1>4. Cardinality(C) = Cardinality(B)
  BY <1>2, <1>3, FS_Bijection DEF ExistsBijection
<1>5. Cardinality(C) = IF 1 \in A THEN Cardinality(A) - 1 ELSE Cardinality(A)
  BY <1>2, FS_RemoveElement
<1>6. 1 \in A <=> Head(list) = x
  BY <1>1
<1>7. Cardinality(A) \in Nat /\ Cardinality(B) \in Nat
  BY <1>2, FS_CardinalityType
<1>8. Times(list, x) = Cardinality(A) /\ Times(Tail(list), x) = Cardinality(B)
  BY DEF Times
<1> HIDE DEF A, B, C
<1> QED
  BY <1>4, <1>5, <1>6, <1>7, <1>8 DEF One

\* The occurrences in a list with a new head.
LEMMA TimesOfPush ==
  ASSUME NEW S, NEW list \in Seq(S), NEW y \in S, NEW x
  PROVE  Times(<<y>> \o list, x) = Times(list, x) + One(y = x)
<1>1. <<y>> \o list \in Seq(S) /\ <<y>> \o list # <<>>
  OBVIOUS
<1>2. Head(<<y>> \o list) = y /\ Tail(<<y>> \o list) = list
  OBVIOUS
<1> DEFINE new == <<y>> \o list
<1> HIDE DEF new
<1>3. Times(new, x) = Times(Tail(new), x) + One(Head(new) = x)
  BY <1>1, TimesOfTail DEF new
<1> QED
  BY <1>2, <1>3 DEF new

\* The occurrences in a list of three.
LEMMA TimesOfThree ==
  ASSUME NEW x, NEW y, NEW z, NEW a
  PROVE  Times(<<x, y, z>>, a) = One(x = a) + One(y = a) + One(z = a)
<1> DEFINE S == {x, y, z}
           l1 == <<z>>
           l2 == <<y, z>>
           l3 == <<x, y, z>>
<1>1. l3 \in Seq(S) /\ l3 # <<>> /\ Head(l3) = x /\ Tail(l3) = l2
  OBVIOUS
<1>2. l2 \in Seq(S) /\ l2 # <<>> /\ Head(l2) = y /\ Tail(l2) = l1
  OBVIOUS
<1>3. l1 \in Seq(S) /\ l1 # <<>> /\ Head(l1) = z /\ Tail(l1) = <<>>
  OBVIOUS
<1> HIDE DEF S, l1, l2, l3
<1>4. Times(l3, a) = Times(l2, a) + One(x = a)
  BY <1>1, TimesOfTail
<1>5. Times(l2, a) = Times(l1, a) + One(y = a)
  BY <1>2, TimesOfTail
<1>6. Times(l1, a) = Times(Tail(l1), a) + One(Head(l1) = a)
  BY <1>3, TimesOfTail
<1>7. Times(Tail(l1), a) = 0 /\ Head(l1) = z
  BY <1>3, TimesEmpty
<1> QED
  BY <1>4, <1>5, <1>6, <1>7 DEF One, l3

-----------------------------------------------------------------------------
(* What the counts are made of *)

\* The callers that have yet to push domain o.
Callers(o) == {q \in Queries : call[q] # NoCall /\ call[q].new = o}

\* The domains that hold addresses a, and the callers.
OldHolders(a) == {o \in Live : domain[o].p_addrs = a}
NewHolders(a) == {o \in Live : domain[o].p_new_addrs = a}
CallHolders(a) == {q \in Queries : call[q] # NoCall /\ call[q].addrs = a}

\* The answers that the status of a domain stands for.
Expected(r) ==
  IF ~r.used THEN 0
  ELSE IF r.status \in {DOMAIN_QUERYING, DOMAIN_NEW_QUERYING} THEN 2
  ELSE IF r.status = DOMAIN_QUERY2 THEN 0 ELSE 1

\* The numbers of the statuses.
LEMMA StatusNumbers ==
  /\ DOMAIN_QUERYING = 1 /\ DOMAIN_QUERY1 = 2 /\ DOMAIN_QUERY2 = 3
  /\ DOMAIN_NEW_QUERYING = 4 /\ DOMAIN_NEW_QUERY1 = 5
  /\ Statuses = 1 .. 5
BY DEF DOMAIN_QUERYING, DOMAIN_QUERY1, DOMAIN_QUERY2, DOMAIN_NEW_QUERYING, DOMAIN_NEW_QUERY1,
       Statuses

\* The sets that are counted are finite.
LEMMA CountedAreFinite ==
  /\ \A o : IsFiniteSet(Callers(o)) /\ Cardinality(Callers(o)) \in Nat
  /\ \A a : IsFiniteSet(OldHolders(a)) /\ Cardinality(OldHolders(a)) \in Nat
  /\ \A a : IsFiniteSet(NewHolders(a)) /\ Cardinality(NewHolders(a)) \in Nat
  /\ \A a : IsFiniteSet(CallHolders(a)) /\ Cardinality(CallHolders(a)) \in Nat
<1>1. \A o : Callers(o) \in SUBSET Queries
  BY DEF Callers
<1>2. \A a : OldHolders(a) \in SUBSET Objects
  BY DEF OldHolders, Live
<1>3. \A a : NewHolders(a) \in SUBSET Objects
  BY DEF NewHolders, Live
<1>4. \A a : CallHolders(a) \in SUBSET Queries
  BY DEF CallHolders
<1>5. \A S \in SUBSET Queries : IsFiniteSet(S) /\ Cardinality(S) \in Nat
  BY DnsAssumption, FS_Subset, FS_CardinalityType
<1>6. \A S \in SUBSET Objects : IsFiniteSet(S) /\ Cardinality(S) \in Nat
  BY DnsAssumption, FS_Subset, FS_CardinalityType
<1> QED
  BY <1>1, <1>2, <1>3, <1>4, <1>5, <1>6

\* The holders of addresses, one by one.
LEMMA HoldersAre ==
  \A a : Holders(a) =
    Cardinality(OldHolders(a)) + Cardinality(NewHolders(a)) + Cardinality(CallHolders(a))
    + One(cb.addrs = a) + One(cb.old = a) + One(cb.answer = a)
<1> SUFFICES ASSUME NEW a
             PROVE  Holders(a) =
               Cardinality(OldHolders(a)) + Cardinality(NewHolders(a)) + Cardinality(CallHolders(a))
               + One(cb.addrs = a) + One(cb.old = a) + One(cb.answer = a)
  OBVIOUS
<1>1. Holders(a) = Cardinality(OldHolders(a)) + Cardinality(NewHolders(a))
                   + Cardinality(CallHolders(a)) + Times(<<cb.addrs, cb.old, cb.answer>>, a)
  BY DEF Holders, OldHolders, NewHolders, CallHolders
<1>2. Times(<<cb.addrs, cb.old, cb.answer>>, a) = One(cb.addrs = a) + One(cb.old = a) + One(cb.answer = a)
  BY TimesOfThree
<1>3. /\ Cardinality(OldHolders(a)) \in Nat /\ Cardinality(NewHolders(a)) \in Nat
      /\ Cardinality(CallHolders(a)) \in Nat
  BY CountedAreFinite
<1> QED
  BY <1>1, <1>2, <1>3 DEF One

\* A domain in use has the fields of one.
LEMMA InUse ==
  ASSUME DomainsTyped, NEW o \in Objects, domain[o].used
  PROVE  domain[o] \in Entries
BY DEF DomainsTyped, Free

\* TwoRequests in one formula.
LEMMA RequestsAre ==
  DomainsTyped =>
    (TwoRequests <=> \A o \in Objects : Pending(o) = Expected(domain[o]))
<1> SUFFICES ASSUME DomainsTyped, NEW o \in Objects
             PROVE  (IF o \notin Live THEN Pending(o) = 0
                     ELSE LET s == domain[o].status IN
                       /\ s \in DOMAIN_QUERYING .. DOMAIN_NEW_QUERY1
                       /\ Pending(o) = CASE s \in {DOMAIN_QUERYING, DOMAIN_NEW_QUERYING} -> 2
                                         [] s \in {DOMAIN_QUERY1, DOMAIN_NEW_QUERY1} -> 1
                                         [] s = DOMAIN_QUERY2 -> 0)
                    <=> Pending(o) = Expected(domain[o])
  BY DEF TwoRequests
<1>1. CASE o \notin Live
  BY <1>1 DEF Live, Expected
<1>2. CASE o \in Live
  <2>1. domain[o].used /\ domain[o].status \in 1 .. 5
    BY <1>2, StatusNumbers, InUse DEF Live, Entries
  <2>2. \/ domain[o].status = 1 \/ domain[o].status = 2 \/ domain[o].status = 3
        \/ domain[o].status = 4 \/ domain[o].status = 5
    BY <2>1
  <2> QED
    BY <1>2, <2>1, <2>2
    DEF Expected, DOMAIN_QUERYING, DOMAIN_QUERY1, DOMAIN_QUERY2, DOMAIN_NEW_QUERYING,
        DOMAIN_NEW_QUERY1
<1> QED
  BY <1>1, <1>2

\* A call that has begun has its local variables.
LEMMA Begun ==
  ASSUME QueriesTyped, NEW q \in Queries, call[q].at # "none"
  PROVE  call[q] \in Calls /\ call[q] # NoCall
BY DEF QueriesTyped, NoCall

-----------------------------------------------------------------------------
(* Steps that leave a part alone *)

\* Tables and cache.
LEMMA TablesSame ==
  ASSUME Tables, UNCHANGED domainVars, \A o \in Objects : Gone(o)' <=> Gone(o)
  PROVE  Tables'
BY DEF Tables, TableRight, OldListRight, FieldsRight, domainVars

\* A step that neither asks nor answers.
LEMMA RequestsSame ==
  ASSUME TwoRequests, DomainsTyped, DomainsTyped',
         \A o \in Objects : Expected(domain[o])' = Expected(domain[o]),
         UNCHANGED <<asked, p_add_cares, todo>>,
         \A o \in Objects : Callers(o)' = Callers(o)
  PROVE  TwoRequests'
<1>1. \A o \in Objects : Pending(o)' = Pending(o)
  BY DEF Pending, Callers
<1>2. \A o \in Objects : Pending(o) = Expected(domain[o])
  BY RequestsAre
<1>3. \A o \in Objects : Pending(o)' = Expected(domain[o])'
  BY <1>1, <1>2
<1>4. RequestsAre'
  BY RequestsAre, PTL
<1> QED
  BY <1>3, <1>4 DEF RequestsAre

\* A step of a client that leaves the domains and the thread alone: the counts
\* of addresses change with its own.
LEMMA ClientOnly ==
  ASSUME DnsInv, UNCHANGED <<domainVars, aresVars, taskVars>>, QueriesTyped',
         ref_num' \in [Addrs -> Int],
         \A o \in Objects : Callers(o)' = Callers(o),
         \A a \in Addrs : ref_num'[a] + Cardinality(CallHolders(a)) =
                          ref_num[a] + Cardinality(CallHolders(a)')
  PROVE  DnsInv'
<1>1. DomainsTyped' /\ TaskTyped'
  BY DEF DnsInv, DomainsTyped, TaskTyped, domainVars, aresVars, taskVars
<1>2. Tables'
  BY TablesSame DEF DnsInv, Gone, taskVars
<1>3. TwoRequests'
  <2>1. \A o \in Objects : Expected(domain[o])' = Expected(domain[o])
    BY DEF Expected, domainVars
  <2> QED
    BY <1>1, <2>1, RequestsSame DEF DnsInv, aresVars, taskVars
<1>4. AddrsCounted'
  <2> SUFFICES ASSUME NEW a \in Addrs PROVE ref_num'[a] = Holders(a)'
    BY DEF AddrsCounted
  <2>1. OldHolders(a)' = OldHolders(a) /\ NewHolders(a)' = NewHolders(a) /\ cb' = cb
    BY DEF OldHolders, NewHolders, Live, domainVars, taskVars
  <2>2. HoldersAre' /\ CountedAreFinite'
    BY HoldersAre, CountedAreFinite, PTL
  <2>3. ref_num[a] = Holders(a) /\ ref_num[a] \in Int /\ ref_num'[a] \in Int
    BY DEF DnsInv, AddrsCounted, DomainsTyped
  <2>4. /\ Cardinality(OldHolders(a)) \in Nat /\ Cardinality(NewHolders(a)) \in Nat
        /\ Cardinality(CallHolders(a)) \in Nat /\ Cardinality(CallHolders(a)') \in Nat
    BY CountedAreFinite, <2>2 DEF CountedAreFinite
  <2>5. Holders(a)' = Cardinality(OldHolders(a)) + Cardinality(NewHolders(a))
                      + Cardinality(CallHolders(a)')
                      + One(cb.addrs = a) + One(cb.old = a) + One(cb.answer = a)
    BY <2>1, <2>2 DEF HoldersAre
  <2>6. Holders(a) = Cardinality(OldHolders(a)) + Cardinality(NewHolders(a))
                     + Cardinality(CallHolders(a))
                     + One(cb.addrs = a) + One(cb.old = a) + One(cb.answer = a)
    BY HoldersAre
  <2> QED
    BY <2>3, <2>4, <2>5, <2>6 DEF One
<1> QED
  BY <1>1, <1>2, <1>3, <1>4 DEF DnsInv

\* A client that keeps the addresses it has.
LEMMA ClientKeeps ==
  ASSUME DnsInv, UNCHANGED <<domainVars, aresVars, taskVars, ref_num>>, QueriesTyped',
         \A q \in Queries : (call[q] # NoCall)' /\ call'[q].new \in Objects <=>
                            call[q] # NoCall /\ call[q].new \in Objects,
         \A q \in Queries : (call[q] # NoCall)' /\ call'[q].addrs \in Addrs <=>
                            call[q] # NoCall /\ call[q].addrs \in Addrs,
         \A q \in Queries : call[q] # NoCall =>
                            call'[q].new = call[q].new /\ call'[q].addrs = call[q].addrs
  PROVE  DnsInv'
<1>1. ref_num' \in [Addrs -> Int]
  BY DEF DnsInv, DomainsTyped
<1>2. \A o \in Objects : Callers(o)' = Callers(o)
  BY DEF Callers
<1>3. \A a \in Addrs : CallHolders(a)' = CallHolders(a)
  BY DEF CallHolders
<1> QED
  BY <1>1, <1>2, <1>3, ClientOnly

\* One caller takes addresses or gives them up.
LEMMA CallerChanges ==
  ASSUME NEW q \in Queries, \A r \in Queries : r # q => call'[r] = call[r], NEW a
  PROVE  Cardinality(CallHolders(a)') =
           Cardinality(CallHolders(a)) + One((call[q] # NoCall /\ call[q].addrs = a)')
                                       - One(call[q] # NoCall /\ call[q].addrs = a)
<1>1. CountedAreFinite'
  BY CountedAreFinite, PTL
<1>2. IsFiniteSet(CallHolders(a)) /\ IsFiniteSet(CallHolders(a)')
  BY <1>1, CountedAreFinite DEF CountedAreFinite
<1>3. \A r : r # q => (r \in CallHolders(a) <=> r \in CallHolders(a)')
  BY DEF CallHolders
<1>4. /\ q \in CallHolders(a) <=> call[q] # NoCall /\ call[q].addrs = a
      /\ q \in CallHolders(a)' <=> (call[q] # NoCall /\ call[q].addrs = a)'
  BY DEF CallHolders
<1> QED
  BY <1>2, <1>3, <1>4, OneChanges

\* What an unused list of addresses is given is one reference.
LEMMA FreshAddrs ==
  ASSUME \E x \in Addrs : ref_num[x] = 0
  PROVE  new_addrs \in Addrs /\ ref_num[new_addrs] = 0
BY DEF new_addrs

\* NumericHost keeps the invariant.
LEMMA NumericHostStep ==
  ASSUME DnsInv, NEW q \in Queries, NumericHost(q)
  PROVE  DnsInv'
<1> DEFINE b == new_addrs
<1>1. b \in Addrs /\ ref_num[b] = 0
  BY FreshAddrs DEF NumericHost
<1> DEFINE new == [at |-> "unlocked", add |-> FALSE, fail |-> FALSE, addrs |-> b, new |-> NULL]
<1>2. call[q] = NoCall /\ call' = [call EXCEPT ![q] = new] /\ ref_num' = [ref_num EXCEPT ![b] = 1]
  BY DEF NumericHost
<1>3. UNCHANGED <<status, p_domain, closed, inited, refs, cancel, domainVars, aresVars, taskVars>>
  BY DEF NumericHost
<1> HIDE DEF b
<1>4. new \in Calls /\ new # NoCall
  BY <1>1 DEF Calls, Lists, NoCall
<1>5. QueriesTyped'
  <2>1. call' \in [Queries -> {NoCall} \cup Calls]
    BY <1>2, <1>4 DEF DnsInv, QueriesTyped
  <2> QED
    BY <1>2, <1>3, <2>1 DEF DnsInv, QueriesTyped
<1>6. ref_num' \in [Addrs -> Int]
  BY <1>1, <1>2 DEF DnsInv, DomainsTyped
<1>7. \A r \in Queries : r # q => call'[r] = call[r]
  BY <1>2 DEF DnsInv, QueriesTyped
<1>8. call'[q] = new
  BY <1>2 DEF DnsInv, QueriesTyped
<1>9. \A o \in Objects : Callers(o)' = Callers(o)
  BY <1>2, <1>7, <1>8, DnsAssumption DEF Callers
<1>10. ASSUME NEW a \in Addrs
       PROVE  ref_num'[a] + Cardinality(CallHolders(a)) = ref_num[a] + Cardinality(CallHolders(a)')
  <2>1. Cardinality(CallHolders(a)') =
          Cardinality(CallHolders(a)) + One((call[q] # NoCall /\ call[q].addrs = a)')
                                      - One(call[q] # NoCall /\ call[q].addrs = a)
    BY <1>7, CallerChanges
  <2>2. Cardinality(CallHolders(a)) \in Nat
    BY CountedAreFinite
  <2>3. /\ (call[q] # NoCall /\ call[q].addrs = a)' <=> b = a
        /\ ~(call[q] # NoCall /\ call[q].addrs = a)
    BY <1>2, <1>4, <1>8
  <2> QED
    BY <1>1, <1>2, <2>1, <2>2, <2>3 DEF One, DnsInv, DomainsTyped
<1> QED
  BY <1>3, <1>5, <1>6, <1>9, <1>10, ClientOnly

\* GetFails keeps it.
LEMMA GetFailsStep ==
  ASSUME DnsInv, NEW q \in Queries, GetFails(q)
  PROVE  DnsInv'
<1> DEFINE new == [at |-> "unlocked", add |-> FALSE, fail |-> TRUE, addrs |-> NULL, new |-> NULL]
<1>1. call[q] = NoCall /\ call' = [call EXCEPT ![q] = new]
  BY DEF GetFails
<1>2. UNCHANGED <<status, p_domain, closed, inited, refs, cancel, domainVars, ref_num, aresVars,
                  taskVars>>
  BY DEF GetFails
<1>3. new \in Calls /\ new # NoCall
  BY DEF Calls, Lists, NoCall
<1>4. \A r \in Queries : call'[r] = IF r = q THEN new ELSE call[r]
  BY <1>1 DEF DnsInv, QueriesTyped
<1>5. QueriesTyped'
  <2>1. call' \in [Queries -> {NoCall} \cup Calls]
    BY <1>1, <1>3 DEF DnsInv, QueriesTyped
  <2> QED
    BY <1>1, <1>2, <1>4, <2>1 DEF DnsInv, QueriesTyped
<1> QED
  BY <1>1, <1>2, <1>3, <1>4, <1>5, ClientKeeps, DnsAssumption

\* The steps of a call that change where it is.
LEMMA CallMoves ==
  ASSUME DnsInv, NEW q \in Queries, NEW c \in Calls, call[q] \in Calls,
         call' = [call EXCEPT ![q] = c],
         c.add = call[q].add, c.new = call[q].new, c.addrs = call[q].addrs,
         c.at = "push" => c.new # NULL,
         UNCHANGED <<p_domain, domainVars, ref_num, aresVars, taskVars>>,
         status' \in [Queries -> {0, 1}], inited' \in [Queries -> BOOLEAN],
         refs' \in [Queries -> Int], cancel' \in [Queries -> {"no", "pending", "called", "tested"}],
         \A r \in Queries : cancel'[r] # "no" => cancel[r] # "no"
  PROVE  DnsInv'
<1>1. call[q] # NoCall /\ c # NoCall
  BY DEF Calls, NoCall
<1>2. \A r \in Queries : call'[r] = IF r = q THEN c ELSE call[r]
  BY DEF DnsInv, QueriesTyped
<1>3. QueriesTyped'
  BY <1>1, <1>2 DEF DnsInv, QueriesTyped
<1> QED
  BY <1>1, <1>2, <1>3, ClientKeeps

\* StoreStatus keeps it.
LEMMA StoreStatusStep ==
  ASSUME DnsInv, NEW q \in Queries, StoreStatus(q)
  PROVE  DnsInv'
<1>1. call[q] \in Calls
  BY Begun DEF DnsInv, StoreStatus
<1> DEFINE c == [call[q] EXCEPT !.at = "stored"]
<1>2. /\ c \in Calls /\ c.add = call[q].add /\ c.new = call[q].new /\ c.addrs = call[q].addrs
      /\ c.at = "stored"
  BY <1>1 DEF Calls
<1>3. call' = [call EXCEPT ![q] = c]
  BY DEF StoreStatus
<1>4. status' \in [Queries -> {0, 1}]
  BY DEF DnsInv, QueriesTyped, StoreStatus
<1> HIDE DEF c
<1> QED
  BY <1>1, <1>2, <1>3, <1>4, CallMoves DEF DnsInv, QueriesTyped, StoreStatus

\* init_done keeps it.
LEMMA InitDoneStep ==
  ASSUME DnsInv, NEW q \in Queries, init_done(q)
  PROVE  DnsInv'
<1>1. call[q] \in Calls
  BY Begun DEF DnsInv, init_done
<1> DEFINE at == IF call[q].addrs # NULL THEN "notice"
                 ELSE IF call[q].new # NULL THEN "push" ELSE "done"
           c == [call[q] EXCEPT !.fail = FALSE, !.at = at]
<1>2. at \in {"notice", "push", "done"} /\ (at = "push" => call[q].new # NULL)
  OBVIOUS
<1>3. call' = [call EXCEPT ![q] = c]
  <2>1. call' = [call EXCEPT ![q].fail = FALSE, ![q].at = at]
    BY DEF init_done
  <2> HIDE DEF at
  <2> QED
    BY <1>1, <2>1 DEF DnsInv, QueriesTyped, Calls
<1> HIDE DEF at
<1>4. /\ c \in Calls /\ c.add = call[q].add /\ c.new = call[q].new /\ c.addrs = call[q].addrs
      /\ c.at = "push" => c.new # NULL
  BY <1>1, <1>2 DEF Calls
<1>5. /\ inited' \in [Queries -> BOOLEAN]
      /\ refs' \in [Queries -> Int]
  BY DEF DnsInv, QueriesTyped, init_done
<1>6. /\ cancel' \in [Queries -> {"no", "pending", "called", "tested"}]
      /\ \A r \in Queries : cancel'[r] # "no" => cancel[r] # "no"
  BY DEF DnsInv, QueriesTyped, init_done
<1> HIDE DEF c
<1> QED
  BY <1>1, <1>3, <1>4, <1>5, <1>6, CallMoves DEF DnsInv, QueriesTyped, init_done

\* OwnNotice keeps it: one reference to the addresses is given up.
LEMMA OwnNoticeStep ==
  ASSUME DnsInv, NEW q \in Queries, OwnNotice(q)
  PROVE  DnsInv'
<1>1. call[q] \in Calls /\ call[q] # NoCall
  BY Begun DEF DnsInv, OwnNotice
<1> DEFINE b == call[q].addrs
           c == [call[q] EXCEPT !.at = "done", !.addrs = NULL]
<1>2. /\ c \in Calls /\ c # NoCall /\ c.add = call[q].add /\ c.new = call[q].new /\ c.addrs = NULL
      /\ c.at = "done"
  BY <1>1 DEF Calls, NoCall, Lists
<1>3. call' = [call EXCEPT ![q] = c]
  <2>1. call' = [call EXCEPT ![q].at = "done", ![q].addrs = NULL]
    BY DEF OwnNotice
  <2> QED
    BY <1>1, <2>1 DEF DnsInv, QueriesTyped, Calls
<1>4. /\ UNCHANGED <<status, p_domain, inited, cancel, domainVars, aresVars, taskVars>>
      /\ ref_num' = addrs_ref_dec(ref_num, b)
      /\ refs' = [refs EXCEPT ![q] = @ - 1]
  BY DEF OwnNotice
<1> HIDE DEF c
<1>5. \A r \in Queries : call'[r] = IF r = q THEN c ELSE call[r]
  BY <1>3 DEF DnsInv, QueriesTyped
<1>6. QueriesTyped'
  <2>1. call' \in [Queries -> {NoCall} \cup Calls] /\ refs' \in [Queries -> Int]
    BY <1>2, <1>3, <1>4 DEF DnsInv, QueriesTyped
  <2> QED
    BY <1>1, <1>2, <1>4, <1>5, <2>1 DEF DnsInv, QueriesTyped
<1>7. b \in Lists /\ ref_num \in [Addrs -> Int]
  BY <1>1 DEF Calls, DnsInv, DomainsTyped
<1>8. \A o \in Objects : Callers(o)' = Callers(o)
  BY <1>1, <1>2, <1>5 DEF Callers
<1> HIDE DEF b
<1>9. ref_num' \in [Addrs -> Int]
  BY <1>4, <1>7 DEF addrs_ref_dec, Lists
<1>10. ASSUME NEW a \in Addrs
       PROVE  ref_num'[a] + Cardinality(CallHolders(a)) = ref_num[a] + Cardinality(CallHolders(a)')
  <2>1. Cardinality(CallHolders(a)') =
          Cardinality(CallHolders(a)) + One((call[q] # NoCall /\ call[q].addrs = a)')
                                      - One(call[q] # NoCall /\ call[q].addrs = a)
    BY <1>5, CallerChanges
  <2>2. Cardinality(CallHolders(a)) \in Nat
    BY CountedAreFinite
  <2>3. /\ ~(call[q] # NoCall /\ call[q].addrs = a)'
        /\ (call[q] # NoCall /\ call[q].addrs = a) <=> b = a
    BY <1>1, <1>2, <1>5, DnsAssumption DEF b
  <2>4. ref_num'[a] = ref_num[a] - One(b = a)
    BY <1>4, <1>7, DnsAssumption DEF addrs_ref_dec, One, Lists
  <2> QED
    BY <1>7, <2>1, <2>2, <2>3, <2>4 DEF One
<1> QED
  BY <1>4, <1>6, <1>8, <1>9, <1>10, ClientOnly

\* ClientClose keeps it.
LEMMA ClientCloseStep ==
  ASSUME DnsInv, NEW q \in Queries, ClientClose(q)
  PROVE  DnsInv'
<1>1. call[q] \in Calls
  BY DEF DnsInv, QueriesTyped, ClientClose
<1>2. UNCHANGED <<call, status, p_domain, inited, refs, domainVars, ref_num, aresVars, taskVars>>
  BY DEF ClientClose
<1>3. \A r \in Queries :
        /\ cancel'[r] \in {"no", "pending", "called", "tested"}
        /\ cancel'[r] # "no" => cancel[r] # "no" \/ (r = q /\ call[q].add)
  <2> DEFINE v == IF ~call[q].add THEN "no" ELSE IF inited[q] THEN "called" ELSE "pending"
  <2>1. cancel' = [cancel EXCEPT ![q] = v]
    BY DEF ClientClose
  <2>2. v \in {"no", "called", "pending"}
    BY <1>1 DEF DnsInv, QueriesTyped, Calls
  <2>3. v # "no" => call[q].add
    BY <1>1 DEF DnsInv, QueriesTyped, Calls
  <2> HIDE DEF v
  <2> QED
    BY <2>1, <2>2, <2>3 DEF DnsInv, QueriesTyped
<1>4. cancel' \in [Queries -> {"no", "pending", "called", "tested"}]
  BY <1>1 DEF DnsInv, QueriesTyped, ClientClose, Calls
<1>5. QueriesTyped'
  BY <1>1, <1>2, <1>3, <1>4 DEF DnsInv, QueriesTyped, ClientClose
<1> QED
  BY <1>2, <1>5, ClientKeeps

\* CancelTest keeps it.
LEMMA CancelTestStep ==
  ASSUME DnsInv, NEW q \in Queries, CancelTest(q)
  PROVE  DnsInv'
<1>1. UNCHANGED <<call, status, p_domain, inited, refs, domainVars, ref_num, aresVars, taskVars>>
  BY DEF CancelTest
<1>2. QueriesTyped'
  BY <1>1 DEF DnsInv, QueriesTyped, CancelTest
<1> QED
  BY <1>1, <1>2, ClientKeeps

\* A step that changes the lists of queries only.
LEMMA HeadsOnly ==
  ASSUME DnsInv, domain' \in [Objects -> {Free} \cup Entries],
         UNCHANGED <<table, old_list, domain_num, ref_num, call, aresVars, task, todo, dels>>,
         QueriesTyped', TaskTyped',
         cb'.addrs = cb.addrs /\ cb'.old = cb.old /\ cb'.answer = cb.answer /\ cb'.del = cb.del,
         \A o \in Objects : domain'[o].used = domain[o].used,
         \A o \in Objects : domain[o].used =>
           /\ domain'[o].name = domain[o].name /\ domain'[o].status = domain[o].status
           /\ domain'[o].p_addrs = domain[o].p_addrs
           /\ domain'[o].p_new_addrs = domain[o].p_new_addrs
           /\ domain[o].status = DOMAIN_QUERY2 => domain'[o].p_query_head = <<>>
  PROVE  DnsInv'
<1>1. DomainsTyped'
  BY DEF DnsInv, DomainsTyped
<1>2. \A o : Gone(o)' <=> Gone(o)
  BY DEF Gone
<1>3. TableRight'
  BY <1>2 DEF DnsInv, DomainsTyped, Tables, TableRight
<1>4. OldListRight'
  <2>1. \A o \in ToSet(old_list) : o \in Objects /\ domain[o].used
    BY ElementsTyped DEF DnsInv, Tables, OldListRight, DomainsTyped
  <2> QED
    BY <1>2, <2>1 DEF DnsInv, Tables, OldListRight
<1>5. FieldsRight'
  BY DEF DnsInv, Tables, FieldsRight
<1>6. TwoRequests'
  <2>1. \A o \in Objects : Expected(domain[o])' = Expected(domain[o])
    BY DEF Expected
  <2>2. \A o \in Objects : Callers(o)' = Callers(o)
    BY DEF Callers
  <2> QED
    BY <1>1, <2>1, <2>2, RequestsSame DEF DnsInv, aresVars
<1>7. AddrsCounted'
  <2>1. \A a : /\ OldHolders(a)' = OldHolders(a) /\ NewHolders(a)' = NewHolders(a)
               /\ CallHolders(a)' = CallHolders(a)
    BY DEF OldHolders, NewHolders, CallHolders, Live
  <2>2. HoldersAre'
    BY HoldersAre, PTL
  <2>3. \A a : Holders(a)' = Holders(a)
    BY <2>1, <2>2, HoldersAre DEF HoldersAre
  <2> QED
    BY <2>3 DEF DnsInv, AddrsCounted
<1> QED
  BY <1>1, <1>3, <1>4, <1>5, <1>6, <1>7 DEF DnsInv, Tables

\* dlist_del takes out of any list.
LEMMA DelTyped ==
  ASSUME NEW S, NEW list \in Seq(S), NEW x
  PROVE  dlist_del(list, x) \in Seq(S) /\ (list = <<>> => dlist_del(list, x) = <<>>)
<1>1. CASE x \notin ToSet(list)
  <2>1. dlist_del(list, x) = list
    BY <1>1, ContainsIsIn DEF dlist_del
  <2> QED
    BY <2>1
<1>2. CASE x \in ToSet(list)
  <2> DEFINE k == CHOOSE i \in DOMAIN list : list[i] = x
             cut == [i \in 1 .. Len(list) - 1 |-> IF i < k THEN list[i] ELSE list[i + 1]]
  <2>1. k \in 1 .. Len(list) /\ list[k] = x
    BY <1>2 DEF ToSet
  <2>2. dlist_del(list, x) = cut
    BY <1>2, ContainsIsIn DEF dlist_del
  <2> HIDE DEF k
  <2>3. Len(list) \in Nat /\ Len(list) >= 1
    BY <2>1
  <2>4. cut \in [1 .. Len(list) - 1 -> S]
    BY <2>1, <2>3
  <2> QED
    BY <2>2, <2>3, <2>4
<1> QED
  BY <1>1, <1>2

\* cancel_query keeps it: only a list of queries changes.
LEMMA CancelQueryStep ==
  ASSUME DnsInv, NEW q \in Queries, cancel_query(q)
  PROVE  DnsInv'
<1> DEFINE o == p_domain[q]
<1>1. /\ cancel[q] = "tested" /\ cancel' = [cancel EXCEPT ![q] = "no"]
      /\ UNCHANGED <<call, p_domain, closed, inited, table, old_list, domain_num, ref_num, aresVars,
                     task, p_list, todo, dels>>
  BY DEF cancel_query
<1>2. o \in Objects
  BY <1>1 DEF DnsInv, QueriesTyped
<1>0. /\ cb'.addrs = cb.addrs /\ cb'.old = cb.old /\ cb'.answer = cb.answer /\ cb'.del = cb.del
      /\ cb' \in [queries : Seq(Queries), addrs : Lists, old : Lists, answer : Lists,
                  del : Objects \cup {NULL}]
      /\ cb = NoCb => cb' = NoCb
  <2>1. cb' = cb \/ cb' = [cb EXCEPT !.queries = Untold(q)]
    BY DEF cancel_query
  <2>2. cb \in [queries : Seq(Queries), addrs : Lists, old : Lists, answer : Lists,
                del : Objects \cup {NULL}]
    BY DEF DnsInv, TaskTyped
  <2>3. Untold(q) \in Seq(Queries) /\ (cb.queries = <<>> => Untold(q) = <<>>)
    <3>1. cb.queries \in Seq(Queries)
      BY <2>2
    <3>2. dlist_del(cb.queries, q) \in Seq(Queries)
          /\ (cb.queries = <<>> => dlist_del(cb.queries, q) = <<>>)
      BY <3>1, DelTyped
    <3> QED
      BY <3>2 DEF Untold
  <2>4. cb = NoCb => cb.queries = <<>>
    BY DEF NoCb
  <2> QED
    BY <2>1, <2>2, <2>3, <2>4 DEF NoCb
<1>3. QueriesTyped' /\ TaskTyped'
  <2>1. TaskTyped'
    BY <1>0, <1>1 DEF DnsInv, TaskTyped, aresVars
  <2>2. status' \in [Queries -> {0, 1}] /\ refs' \in [Queries -> Int]
    BY DEF DnsInv, QueriesTyped, cancel_query
  <2> QED
    BY <1>1, <2>1, <2>2 DEF DnsInv, QueriesTyped
<1>4. \/ domain' = domain
      \/ /\ domain[o].used
         /\ domain' = [domain EXCEPT ![o].p_query_head = dlist_del(@, q)]
  BY DEF cancel_query
<1> DEFINE r == [domain[o] EXCEPT !.p_query_head = dlist_del(@, q)]
<1>5. CASE domain' = domain
  <2>1. \A x \in Objects : domain[x].used =>
          (domain[x].status = DOMAIN_QUERY2 => domain[x].p_query_head = <<>>)
    BY DEF DnsInv, Tables, FieldsRight
  <2>2. domain' \in [Objects -> {Free} \cup Entries]
    BY <1>5 DEF DnsInv, DomainsTyped
  <2> QED
    BY <1>0, <1>1, <1>3, <1>5, <2>1, <2>2, HeadsOnly
<1>6. CASE domain[o].used /\ domain' = [domain EXCEPT ![o].p_query_head = dlist_del(@, q)]
  <2>1. domain[o] \in Entries
    BY <1>2, <1>6, InUse DEF DnsInv
  <2>2. domain[o].p_query_head \in Seq(Queries)
    BY <2>1 DEF Entries
  <2>3. /\ dlist_del(domain[o].p_query_head, q) \in Seq(Queries)
        /\ domain[o].p_query_head = <<>> => dlist_del(domain[o].p_query_head, q) = <<>>
    BY <2>2, DelTyped
  <2>4. /\ r \in Entries /\ r.used = domain[o].used
        /\ r.name = domain[o].name /\ r.status = domain[o].status
        /\ r.p_addrs = domain[o].p_addrs /\ r.p_new_addrs = domain[o].p_new_addrs
        /\ r.p_query_head = dlist_del(domain[o].p_query_head, q)
    BY <2>1, <2>3 DEF Entries
  <2>5. domain' = [domain EXCEPT ![o] = r]
    BY <1>6
  <2> HIDE DEF r, o
  <2>6. domain' \in [Objects -> {Free} \cup Entries]
    BY <1>2, <2>4, <2>5 DEF DnsInv, DomainsTyped
  <2>7. \A x \in Objects : domain'[x] = IF x = o THEN r ELSE domain[x]
    BY <1>2, <2>5 DEF DnsInv, DomainsTyped
  <2>8. \A x \in Objects : domain[x].used =>
          (domain[x].status = DOMAIN_QUERY2 => domain'[x].p_query_head = <<>>)
    BY <2>3, <2>4, <2>7 DEF DnsInv, Tables, FieldsRight
  <2> QED
    BY <1>0, <1>1, <1>3, <2>4, <2>6, <2>7, <2>8, HeadsOnly
<1> QED
  BY <1>4, <1>5, <1>6

\* notice_user keeps it.
LEMMA NoticeUserStep ==
  ASSUME DnsInv, notice_user
  PROVE  DnsInv'
<1> DEFINE q == Head(cb.queries)
<1>1. /\ task = "notice" /\ cb.queries # <<>>
      /\ cb' = [cb EXCEPT !.queries = Tail(@)]
      /\ refs' = [refs EXCEPT ![q] = @ - 1]
      /\ UNCHANGED <<call, status, p_domain, inited, cancel, domainVars, ref_num, aresVars, task, p_list,
                     todo, dels>>
  BY DEF notice_user
<1>2. cb.queries \in Seq(Queries)
  BY DEF DnsInv, TaskTyped
<1>3. Tail(cb.queries) \in Seq(Queries) /\ q \in Queries
  BY <1>1, <1>2
<1> HIDE DEF q
<1>4. TaskTyped'
  BY <1>1, <1>3 DEF DnsInv, TaskTyped, aresVars
<1>5. QueriesTyped'
  <2>1. refs' \in [Queries -> Int]
    BY <1>1, <1>3 DEF DnsInv, QueriesTyped
  <2> QED
    BY <1>1, <2>1 DEF DnsInv, QueriesTyped
<1>6. /\ cb'.addrs = cb.addrs /\ cb'.old = cb.old /\ cb'.answer = cb.answer /\ cb'.del = cb.del
  BY <1>1 DEF DnsInv, TaskTyped
<1>7. domain' \in [Objects -> {Free} \cup Entries]
  BY <1>1 DEF DnsInv, DomainsTyped, domainVars
<1>8. \A x \in Objects : domain[x].used =>
        (domain[x].status = DOMAIN_QUERY2 => domain[x].p_query_head = <<>>)
  BY DEF DnsInv, Tables, FieldsRight
<1> QED
  BY <1>1, <1>4, <1>5, <1>6, <1>7, <1>8, HeadsOnly DEF domainVars

\* A step that hands requests on and leaves everything else alone.
LEMMA RequestsMove ==
  ASSUME DnsInv, UNCHANGED <<domainVars, ref_num, cb, dels>>, QueriesTyped', TaskTyped',
         \A a \in Addrs : CallHolders(a)' = CallHolders(a),
         \A o \in Objects : Pending(o)' = Pending(o)
  PROVE  DnsInv'
<1>1. DomainsTyped'
  BY DEF DnsInv, DomainsTyped, domainVars
<1>2. Tables'
  BY TablesSame DEF DnsInv, Gone
<1>3. TwoRequests'
  <2>1. \A o \in Objects : Pending(o) = Expected(domain[o])
    BY RequestsAre DEF DnsInv
  <2>2. \A o \in Objects : Pending(o)' = Expected(domain[o])'
    BY <2>1 DEF domainVars, Expected
  <2>3. RequestsAre'
    BY RequestsAre, PTL
  <2> QED
    BY <1>1, <2>2, <2>3 DEF RequestsAre
<1>4. AddrsCounted'
  <2>1. \A a : OldHolders(a)' = OldHolders(a) /\ NewHolders(a)' = NewHolders(a)
    BY DEF OldHolders, NewHolders, Live, domainVars
  <2>2. HoldersAre'
    BY HoldersAre, PTL
  <2>3. \A a \in Addrs : Holders(a)' = Holders(a)
    BY <2>1, <2>2, HoldersAre DEF HoldersAre
  <2> QED
    BY <2>3 DEF DnsInv, AddrsCounted
<1> QED
  BY <1>1, <1>2, <1>3, <1>4 DEF DnsInv

\* The requests for a domain: in c-ares, in the two lists, of callers.
LEMMA PendingIs ==
  \A o : Pending(o) = asked[o] + 2 * (Times(p_add_cares, o) + Times(todo, o) + Cardinality(Callers(o)))
BY DEF Pending, Callers

\* A caller that pushes its domain, or begins with one.
LEMMA CallerPushes ==
  ASSUME NEW q \in Queries, \A r \in Queries : r # q => call'[r] = call[r], NEW o
  PROVE  Cardinality(Callers(o)') =
           Cardinality(Callers(o)) + One((call[q] # NoCall /\ call[q].new = o)')
                                   - One(call[q] # NoCall /\ call[q].new = o)
<1>1. CountedAreFinite'
  BY CountedAreFinite, PTL
<1>2. IsFiniteSet(Callers(o)) /\ IsFiniteSet(Callers(o)')
  BY <1>1, CountedAreFinite DEF CountedAreFinite
<1>3. \A r : r # q => (r \in Callers(o) <=> r \in Callers(o)')
  BY DEF Callers
<1>4. /\ q \in Callers(o) <=> call[q] # NoCall /\ call[q].new = o
      /\ q \in Callers(o)' <=> (call[q] # NoCall /\ call[q].new = o)'
  BY DEF Callers
<1> QED
  BY <1>2, <1>3, <1>4, OneChanges

\* add_domain_to_query keeps it: the requests of the domain are handed on.
LEMMA AddDomainStep ==
  ASSUME DnsInv, NEW q \in Queries, add_domain_to_query(q), ~strayed'
  PROVE  DnsInv'
<1>1. call[q] \in Calls /\ call[q] # NoCall /\ call[q].new # NULL
  BY Begun DEF DnsInv, QueriesTyped, add_domain_to_query
<1> DEFINE n == call[q].new
           c == [call[q] EXCEPT !.at = "done", !.new = NULL]
<1>2. n \in Objects
  BY <1>1 DEF Calls
<1>3. /\ c \in Calls /\ c # NoCall /\ c.add = call[q].add /\ c.new = NULL
      /\ c.addrs = call[q].addrs /\ c.at = "done"
  BY <1>1 DEF Calls, NoCall
<1>4. call' = [call EXCEPT ![q] = c]
  <2>1. call' = [call EXCEPT ![q].at = "done", ![q].new = NULL]
    BY DEF add_domain_to_query
  <2> QED
    BY <1>1, <2>1 DEF DnsInv, QueriesTyped, Calls
<1>5. /\ p_add_cares' = <<n>> \o p_add_cares
      /\ UNCHANGED <<status, p_domain, inited, refs, cancel, domainVars, ref_num, asked, task, p_list,
                     todo, cb, dels>>
  BY DEF add_domain_to_query, Link
<1> HIDE DEF c, n
<1>6. \A r \in Queries : call'[r] = IF r = q THEN c ELSE call[r]
  BY <1>4 DEF DnsInv, QueriesTyped
<1>7. QueriesTyped'
  <2>1. call' \in [Queries -> {NoCall} \cup Calls]
    BY <1>3, <1>4 DEF DnsInv, QueriesTyped
  <2> QED
    BY <1>1, <1>3, <1>5, <1>6, <2>1 DEF DnsInv, QueriesTyped
<1>8. p_add_cares \in Seq(Objects) /\ todo \in Seq(Objects) /\ asked \in [Objects -> Nat]
  BY DEF DnsInv, TaskTyped
<1>9. TaskTyped'
  <2>1. p_add_cares' \in Seq(Objects)
    BY <1>2, <1>5, <1>8
  <2> QED
    BY <1>5, <2>1 DEF DnsInv, TaskTyped
<1>10. \A a \in Addrs : CallHolders(a)' = CallHolders(a)
  BY <1>1, <1>3, <1>6 DEF CallHolders
<1>11. ASSUME NEW o \in Objects PROVE Pending(o)' = Pending(o)
  <2>1. Cardinality(Callers(o)') =
          Cardinality(Callers(o)) + One((call[q] # NoCall /\ call[q].new = o)')
                                  - One(call[q] # NoCall /\ call[q].new = o)
    BY <1>6, CallerPushes
  <2>2. /\ ~(call[q] # NoCall /\ call[q].new = o)'
        /\ (call[q] # NoCall /\ call[q].new = o) <=> n = o
    BY <1>1, <1>3, <1>6, DnsAssumption DEF n
  <2>3. Times(p_add_cares, o)' = Times(p_add_cares, o) + One(n = o)
    BY <1>2, <1>5, <1>8, TimesOfPush
  <2>4. Times(p_add_cares, o) \in Nat /\ Times(todo, o) \in Nat /\ Times(todo, o)' = Times(todo, o)
    BY <1>5, <1>8, TimesType
  <2>5. Cardinality(Callers(o)) \in Nat
    BY CountedAreFinite
  <2>6. /\ Pending(o) = asked[o] + 2 * (Times(p_add_cares, o) + Times(todo, o) + Cardinality(Callers(o)))
        /\ Pending(o)' = asked[o] + 2 * (Times(p_add_cares, o)' + Times(todo, o)' + Cardinality(Callers(o)'))
    <3>1. PendingIs'
      BY PendingIs, PTL
    <3> QED
      BY <1>5, <3>1, PendingIs DEF PendingIs
  <2>7. asked[o] \in Nat
    BY <1>8
  <2> QED
    BY <2>1, <2>2, <2>3, <2>4, <2>5, <2>6, <2>7 DEF One
<1> QED
  BY <1>5, <1>7, <1>9, <1>10, <1>11, RequestsMove

\* TakeAdds keeps it.
LEMMA TakeAddsStep ==
  ASSUME DnsInv, TakeAdds
  PROVE  DnsInv'
<1>1. /\ task = "wait" /\ todo' = p_add_cares /\ p_add_cares' = <<>> /\ task' = "add"
      /\ UNCHANGED <<queryVars, domainVars, ref_num, asked, p_list, cb, dels>>
  BY DEF TakeAdds
<1>2. /\ p_add_cares \in Seq(Objects) /\ todo = <<>> /\ asked \in [Objects -> Nat]
      /\ cb = NoCb /\ dels = {} /\ p_list = NULL
  BY <1>1 DEF DnsInv, TaskTyped
<1>3. TaskTyped' /\ QueriesTyped'
  BY <1>1, <1>2 DEF DnsInv, TaskTyped, QueriesTyped, queryVars
<1>4. \A a \in Addrs : CallHolders(a)' = CallHolders(a)
  BY <1>1 DEF CallHolders, queryVars
<1>5. ASSUME NEW o \in Objects PROVE Pending(o)' = Pending(o)
  <2>1. Times(p_add_cares, o)' = 0 /\ Times(todo, o)' = Times(p_add_cares, o) /\ Times(todo, o) = 0
    BY <1>1, <1>2, TimesEmpty
  <2>2. Callers(o)' = Callers(o)
    BY <1>1 DEF Callers, queryVars
  <2>3. Times(p_add_cares, o) \in Nat
    BY <1>2, TimesType
  <2>4. PendingIs'
    BY PendingIs, PTL
  <2> QED
    BY <1>1, <2>1, <2>2, <2>3, <2>4, PendingIs DEF PendingIs
<1> QED
  BY <1>1, <1>3, <1>4, <1>5, RequestsMove

\* Ask keeps it: c-ares has the two requests now.
LEMMA AskStep ==
  ASSUME DnsInv, Ask
  PROVE  DnsInv'
<1> DEFINE n == Head(todo)
<1>1. /\ task = "add" /\ todo # <<>>
      /\ asked' = [asked EXCEPT ![n] = @ + 2]
      /\ todo' = Tail(todo) /\ p_list' = n
      /\ UNCHANGED <<queryVars, domainVars, ref_num, p_add_cares, task, cb, dels>>
  BY DEF Ask
<1>2. p_add_cares \in Seq(Objects) /\ todo \in Seq(Objects) /\ asked \in [Objects -> Nat]
  BY DEF DnsInv, TaskTyped
<1>3. n \in Objects /\ Tail(todo) \in Seq(Objects)
  BY <1>1, <1>2
<1> HIDE DEF n
<1>4. asked' \in [Objects -> Nat]
  BY <1>1, <1>2, <1>3
<1>5. TaskTyped' /\ QueriesTyped'
  BY <1>1, <1>3, <1>4 DEF DnsInv, TaskTyped, QueriesTyped, queryVars
<1>6. \A a \in Addrs : CallHolders(a)' = CallHolders(a)
  BY <1>1 DEF CallHolders, queryVars
<1>7. ASSUME NEW o \in Objects PROVE Pending(o)' = Pending(o)
  <2>1. Times(todo, o) = Times(Tail(todo), o) + One(n = o)
    BY <1>1, <1>2, TimesOfTail DEF n
  <2>2. Callers(o)' = Callers(o) /\ Times(p_add_cares, o)' = Times(p_add_cares, o)
        /\ Times(todo, o)' = Times(Tail(todo), o)
    BY <1>1 DEF Callers, queryVars
  <2>3. Times(p_add_cares, o) \in Nat /\ Times(Tail(todo), o) \in Nat
    BY <1>2, <1>3, TimesType
  <2>4. asked'[o] = asked[o] + 2 * One(n = o) /\ asked[o] \in Nat
    BY <1>1, <1>2, <1>3 DEF One
  <2>5. Cardinality(Callers(o)) \in Nat
    BY CountedAreFinite
  <2>6. /\ Pending(o) = asked[o] + 2 * (Times(p_add_cares, o) + Times(todo, o) + Cardinality(Callers(o)))
        /\ Pending(o)' = asked'[o] + 2 * (Times(p_add_cares, o) + Times(Tail(todo), o)
                                          + Cardinality(Callers(o)))
    <3>1. PendingIs'
      BY PendingIs, PTL
    <3> QED
      BY <2>2, <3>1, PendingIs DEF PendingIs
  <2> QED
    BY <2>1, <2>3, <2>4, <2>5, <2>6 DEF One
<1> QED
  BY <1>1, <1>5, <1>6, <1>7, RequestsMove

\* The loop goes on to the next domain, by a link nobody has written since.
LEMMA NextDomainStep ==
  ASSUME DnsInv, NextDomain, ~strayed'
  PROVE  DnsInv'
<1>1. /\ task = "add" /\ p_list # NULL /\ todo' = todo /\ p_list' = NULL
      /\ UNCHANGED <<queryVars, domainVars, ref_num, aresVars, task, cb, dels>>
  BY DEF NextDomain, Link
<1>2. TaskTyped' /\ QueriesTyped'
  BY <1>1 DEF DnsInv, TaskTyped, QueriesTyped, queryVars, aresVars
<1>3. \A a \in Addrs : CallHolders(a)' = CallHolders(a)
  BY <1>1 DEF CallHolders, queryVars
<1>4. \A o \in Objects : Pending(o)' = Pending(o)
  BY <1>1 DEF Pending, queryVars, aresVars
<1> QED
  BY <1>1, <1>2, <1>3, <1>4, RequestsMove

-----------------------------------------------------------------------------
(* moon_getaddrinfo *)

\* The answers that a status stands for.
Answers(s) ==
  IF s \in {DOMAIN_QUERYING, DOMAIN_NEW_QUERYING} THEN 2
  ELSE IF s \in {0, DOMAIN_QUERY2} THEN 0 ELSE 1

\* What a call makes of the status of the domain: two answers more if it asks
\* for the domain, none otherwise; a domain stays in the cache unless it leaves.
LEMMA NewStatusFacts ==
  ASSUME NEW s \in {0} \cup Statuses, NEW flag \in Flags
  PROVE  /\ NewStatus(s, flag) \in Statuses
         /\ Answers(NewStatus(s, flag)) = Answers(s) + 2 * One(IsNew(s, flag))
         /\ NewStatus(s, flag) >= DOMAIN_QUERY2 <=> s >= DOMAIN_QUERY2 /\ ~Leaves(s, flag)
         /\ NewStatus(s, flag) = DOMAIN_QUERY2 => s = DOMAIN_QUERY2 /\ ~Joins(s, flag)
         /\ NewStatus(s, flag) \in {DOMAIN_QUERY1, DOMAIN_NEW_QUERY1} <=>
              s \in {DOMAIN_QUERY1, DOMAIN_NEW_QUERY1}
         /\ Leaves(s, flag) => s >= DOMAIN_QUERY2
         /\ IsNew(s, flag) \in BOOLEAN /\ Joins(s, flag) \in BOOLEAN /\ Leaves(s, flag) \in BOOLEAN
<1>1. \/ s = 0 \/ s = 1 \/ s = 2 \/ s = 3 \/ s = 4 \/ s = 5
  BY StatusNumbers
<1>2. flag = "none" \/ flag = "clear" \/ flag = "dont_use"
  BY DEF Flags
<1> QED
  BY <1>1, <1>2
  DEF Answers, One, NewStatus, IsNew, Leaves, Joins, Statuses, DOMAIN_QUERYING, DOMAIN_QUERY1,
      DOMAIN_QUERY2, DOMAIN_NEW_QUERYING, DOMAIN_NEW_QUERY1

\* The same for a domain in use.
LEMMA ExpectedIs ==
  ASSUME NEW r \in Entries
  PROVE  Expected(r) = Answers(r.status)
<1>1. r.used /\ r.status \in Statuses
  BY DEF Entries
<1> QED
  BY <1>1, StatusNumbers DEF Expected, Answers

\* The domain that the call finds or makes.
LEMMA SearchFacts ==
  ASSUME DnsInv, NEW d \in Domains, table[d] = NULL => \E x \in Objects : ~domain[x].used
  PROVE  /\ hash_search(d) \in Objects /\ ~Gone(hash_search(d))
         /\ \/ /\ table[d] = hash_search(d) /\ domain[hash_search(d)].used
               /\ domain[hash_search(d)].name = d
               /\ Found(d) = domain[hash_search(d)] /\ Found(d) \in Entries
            \/ table[d] = NULL /\ ~domain[hash_search(d)].used /\ Found(d) = Fresh(d)
<1>1. CASE table[d] # NULL
  <2>1. hash_search(d) = table[d] /\ Found(d) = domain[table[d]] /\ table[d] \in Objects
    BY <1>1 DEF hash_search, Found, DnsInv, DomainsTyped
  <2>2. domain[table[d]].used /\ domain[table[d]].name = d
    BY <1>1 DEF DnsInv, Tables, TableRight
  <2> QED
    BY <2>1, <2>2, InUse DEF DnsInv, Tables, TableRight
<1>2. CASE table[d] = NULL
  <2>1. NewObject \in Objects /\ ~domain[NewObject].used
    BY <1>2 DEF NewObject
  <2> QED
    BY <1>2, <2>1 DEF hash_search, Found, DnsInv, Tables, TableRight
<1> QED
  BY <1>1, <1>2

\* The critical section of moon_getaddrinfo: domain o, found as f, becomes r.
\* Tables and types.
LEMMA GetTables ==
  ASSUME DnsInv, NEW d \in Domains, NEW o \in Objects, ~Gone(o), NEW r \in Entries, r.name = d,
         NEW s \in {0} \cup Statuses, NEW flag \in Flags,
         \/ /\ table[d] = o /\ domain[o].used /\ domain[o].name = d /\ domain[o].status = s
            /\ r.p_addrs = domain[o].p_addrs
         \/ table[d] = NULL /\ ~domain[o].used /\ s = 0,
         r.status = NewStatus(s, flag),
         r.status \notin {DOMAIN_QUERY1, DOMAIN_NEW_QUERY1} => r.p_new_addrs = NULL,
         r.status = DOMAIN_QUERY2 => r.p_query_head = <<>>,
         domain' = [domain EXCEPT ![o] = r], table' = [table EXCEPT ![d] = o],
         old_list' = IF Leaves(s, flag) THEN dlist_del(old_list, o) ELSE old_list,
         domain_num' = IF Leaves(s, flag) THEN domain_num - 1 ELSE domain_num,
         ref_num' \in [Addrs -> Int], UNCHANGED <<cb, dels>>
  PROVE  DomainsTyped' /\ Tables'
<1>1. /\ domain \in [Objects -> {Free} \cup Entries] /\ table \in [Domains -> Objects \cup {NULL}]
      /\ old_list \in Seq(Objects) /\ domain_num \in Nat
      /\ TableRight /\ OldListRight /\ FieldsRight
  BY DEF DnsInv, DomainsTyped, Tables
<1>2. \A x \in Objects : domain'[x] = IF x = o THEN r ELSE domain[x]
  BY <1>1
<1>3. \A e \in Domains : table'[e] = IF e = d THEN o ELSE table[e]
  BY <1>1
<1>4. r.used /\ r.status \in Statuses
  BY DEF Entries
<1>5. \A x : Gone(x)' <=> Gone(x)
  BY DEF Gone
<1>6. TableRight'
  <2>1. \A e \in Domains : table'[e] # NULL => domain'[table'[e]].used /\ domain'[table'[e]].name = e
    BY <1>1, <1>2, <1>3, <1>4 DEF TableRight
  <2>2. ASSUME NEW x \in Objects, domain'[x].used
        PROVE  Gone(x) <=> table'[domain'[x].name] # x
    <3>1. CASE x = o
      BY <1>2, <1>3, <3>1
    <3>2. CASE x # o
      <4>1. domain'[x] = domain[x] /\ domain[x].used /\ domain[x].name \in Domains
        BY <1>1, <1>2, <2>2, <3>2, InUse DEF Entries, DnsInv
      <4>2. CASE domain[x].name = d
        BY <1>1, <1>3, <3>2, <4>1, <4>2, DnsAssumption DEF TableRight
      <4>3. CASE domain[x].name # d
        BY <1>1, <1>3, <3>2, <4>1, <4>3 DEF TableRight
      <4> QED
        BY <4>2, <4>3
    <3> QED
      BY <3>1, <3>2
  <2>3. \A x \in Objects : Gone(x) => domain'[x].used /\ domain'[x].status = DOMAIN_QUERY2
    BY <1>1, <1>2 DEF TableRight
  <2> QED
    BY <1>5, <2>1, <2>2, <2>3 DEF TableRight
<1>7. FieldsRight'
  BY <1>1, <1>2 DEF FieldsRight
<1>8. o \in ToSet(old_list) <=> s >= DOMAIN_QUERY2
  BY <1>1, StatusNumbers DEF OldListRight
<1>9. r.status >= DOMAIN_QUERY2 <=> s >= DOMAIN_QUERY2 /\ ~Leaves(s, flag)
  BY NewStatusFacts
<1>10. Leaves(s, flag) => s >= DOMAIN_QUERY2
  BY NewStatusFacts
<1>11. /\ old_list' \in Seq(Objects) /\ IsInjective(old_list')
       /\ ToSet(old_list') = IF Leaves(s, flag) THEN ToSet(old_list) \ {o} ELSE ToSet(old_list)
       /\ Len(old_list') = Len(old_list) - One(Leaves(s, flag))
  <2>1. CASE Leaves(s, flag)
    BY <1>1, <1>8, <1>10, <2>1, DelFacts DEF OldListRight, One
  <2>2. CASE ~Leaves(s, flag)
    BY <1>1, <2>2 DEF OldListRight, One
  <2> QED
    BY <2>1, <2>2
<1>12. domain_num' = Len(old_list') /\ domain_num' <= domain_num /\ domain_num' \in Nat
  <2>1. Len(old_list') \in Nat /\ Len(old_list) \in Nat /\ domain_num = Len(old_list)
    BY <1>1, <1>11 DEF OldListRight
  <2> QED
    BY <1>11, <2>1 DEF One
<1>13. OldListRight'
  <2>1. \A x \in Objects :
          x \in ToSet(old_list') <=>
            domain'[x].used /\ ~Gone(x) /\ domain'[x].status >= DOMAIN_QUERY2
    <3> TAKE x \in Objects
    <3>1. CASE x = o
      BY <1>2, <1>4, <1>8, <1>9, <1>11, <3>1
    <3>2. CASE x # o
      BY <1>1, <1>2, <1>11, <3>2 DEF OldListRight
    <3> QED
      BY <3>1, <3>2
  <2>2. \A x \in ToSet(old_list') : domain'[x].p_addrs # NULL
    <3> TAKE x \in ToSet(old_list')
    <3>1. x \in ToSet(old_list) /\ x \in Objects
      BY <1>1, <1>11, ElementsTyped
    <3>2. CASE x = o
      <4>1. domain[o].used
        BY <1>1, <3>1, <3>2 DEF OldListRight
      <4> QED
        BY <1>1, <1>2, <3>1, <3>2, <4>1 DEF OldListRight
    <3>3. CASE x # o
      BY <1>1, <1>2, <3>1, <3>3 DEF OldListRight
    <3> QED
      BY <3>2, <3>3
  <2>3. domain_num' <= DNS_CACHE_NUM
    BY <1>1, <1>12, DnsAssumption DEF OldListRight
  <2> QED
    BY <1>5, <1>11, <1>12, <2>1, <2>2, <2>3 DEF OldListRight
<1>14. DomainsTyped'
  <2>1. domain' \in [Objects -> {Free} \cup Entries] /\ table' \in [Domains -> Objects \cup {NULL}]
    BY <1>1
  <2> QED
    BY <1>11, <1>12, <2>1 DEF DomainsTyped
<1> QED
  BY <1>6, <1>7, <1>13, <1>14 DEF Tables

\* Its requests: a new domain has the caller to push it.
LEMMA GetRequests ==
  ASSUME DnsInv, DomainsTyped', NEW o \in Objects, NEW r \in Entries,
         NEW s \in {0} \cup Statuses, NEW flag \in Flags,
         \/ domain[o].used /\ domain[o].status = s
         \/ ~domain[o].used /\ s = 0,
         r.status = NewStatus(s, flag),
         domain' = [domain EXCEPT ![o] = r], UNCHANGED <<asked, p_add_cares, todo>>,
         NEW q \in Queries, NEW c \in Calls, call[q] = NoCall, call' = [call EXCEPT ![q] = c],
         c.new = IF IsNew(s, flag) THEN o ELSE NULL
  PROVE  TwoRequests'
<1>1. domain \in [Objects -> {Free} \cup Entries] /\ call \in [Queries -> {NoCall} \cup Calls]
  BY DEF DnsInv, DomainsTyped, QueriesTyped
<1>2. \A x \in Objects : domain'[x] = IF x = o THEN r ELSE domain[x]
  BY <1>1
<1>3. \A p \in Queries : call'[p] = IF p = q THEN c ELSE call[p]
  BY <1>1
<1>4. c # NoCall
  BY DEF Calls, NoCall
<1>5. Expected(domain[o]) = Answers(s)
  <2>1. CASE domain[o].used
    BY <1>1, <2>1, InUse, ExpectedIs, StatusNumbers DEF DnsInv, Expected
  <2>2. CASE ~domain[o].used
    BY <2>2, StatusNumbers DEF Expected, Answers
  <2> QED
    BY <2>1, <2>2
<1>6. Expected(r) = Answers(s) + 2 * One(IsNew(s, flag))
  BY ExpectedIs, NewStatusFacts
<1>7. ASSUME NEW x \in Objects PROVE Pending(x)' = Expected(domain'[x])
  <2>1. Cardinality(Callers(x)') =
          Cardinality(Callers(x)) + One((call[q] # NoCall /\ call[q].new = x)')
                                  - One(call[q] # NoCall /\ call[q].new = x)
    BY <1>3, CallerPushes
  <2>2. /\ ~(call[q] # NoCall /\ call[q].new = x)
        /\ (call[q] # NoCall /\ call[q].new = x)' <=> IsNew(s, flag) /\ x = o
    BY <1>3, <1>4, DnsAssumption
  <2>3. /\ Cardinality(Callers(x)) \in Nat /\ asked[x] \in Nat
        /\ Times(p_add_cares, x) \in Nat /\ Times(todo, x) \in Nat
    BY CountedAreFinite, TimesType DEF DnsInv, TaskTyped
  <2>4. /\ Pending(x) = asked[x] + 2 * (Times(p_add_cares, x) + Times(todo, x) + Cardinality(Callers(x)))
        /\ Pending(x)' = asked[x] + 2 * (Times(p_add_cares, x) + Times(todo, x) + Cardinality(Callers(x)'))
    <3>1. PendingIs'
      BY PendingIs, PTL
    <3> QED
      BY <3>1, PendingIs DEF PendingIs
  <2>5. Pending(x)' = Pending(x) + 2 * One(IsNew(s, flag) /\ x = o)
    BY <2>1, <2>2, <2>3, <2>4 DEF One
  <2>6. Pending(x) = Expected(domain[x])
    BY RequestsAre DEF DnsInv
  <2>7. CASE x = o
    <3>1. One(IsNew(s, flag) /\ x = o) = One(IsNew(s, flag))
      BY <2>7 DEF One
    <3> QED
      BY <1>2, <1>5, <1>6, <2>5, <2>6, <2>7, <3>1
  <2>8. CASE x # o
    <3>1. Pending(x)' = Pending(x) + 0
      BY <2>5, <2>8 DEF One
    <3>2. Pending(x) \in Nat
      BY <2>3, <2>4
    <3> QED
      BY <1>2, <2>6, <2>8, <3>1, <3>2
  <2> QED
    BY <2>7, <2>8
<1>8. RequestsAre'
  BY RequestsAre, PTL
<1> QED
  BY <1>7, <1>8 DEF RequestsAre

\* Its addresses: those the caller takes along.
LEMMA GetAddrs ==
  ASSUME DnsInv, NEW o \in Objects, NEW r \in Entries,
         \/ /\ domain[o].used
            /\ r.p_addrs = domain[o].p_addrs /\ r.p_new_addrs = domain[o].p_new_addrs
         \/ ~domain[o].used /\ r.p_addrs = NULL /\ r.p_new_addrs = NULL,
         domain' = [domain EXCEPT ![o] = r], UNCHANGED cb,
         NEW q \in Queries, NEW c \in Calls, call[q] = NoCall, call' = [call EXCEPT ![q] = c],
         ref_num' = addrs_ref_inc(ref_num, c.addrs)
  PROVE  AddrsCounted'
<1>1. domain \in [Objects -> {Free} \cup Entries] /\ call \in [Queries -> {NoCall} \cup Calls]
  BY DEF DnsInv, DomainsTyped, QueriesTyped
<1>2. \A x \in Objects : domain'[x] = IF x = o THEN r ELSE domain[x]
  BY <1>1
<1>3. \A p \in Queries : call'[p] = IF p = q THEN c ELSE call[p]
  BY <1>1
<1>4. c # NoCall /\ c.addrs \in Lists /\ r.used
  <2>1. c # NoCall /\ c.addrs \in Lists
    BY DEF Calls, NoCall
  <2>2. r.used
    BY DEF Entries
  <2> QED
    BY <2>1, <2>2
<1> SUFFICES ASSUME NEW a \in Addrs PROVE ref_num'[a] = Holders(a)'
  BY DEF AddrsCounted
<1>5. OldHolders(a)' = OldHolders(a) /\ NewHolders(a)' = NewHolders(a)
  BY <1>2, <1>4, DnsAssumption DEF OldHolders, NewHolders, Live
<1>6. Cardinality(CallHolders(a)') =
        Cardinality(CallHolders(a)) + One((call[q] # NoCall /\ call[q].addrs = a)')
                                    - One(call[q] # NoCall /\ call[q].addrs = a)
  BY <1>3, CallerChanges
<1>7. /\ ~(call[q] # NoCall /\ call[q].addrs = a)
      /\ (call[q] # NoCall /\ call[q].addrs = a)' <=> c.addrs = a
  BY <1>3, <1>4
<1>8. /\ Cardinality(OldHolders(a)) \in Nat /\ Cardinality(NewHolders(a)) \in Nat
      /\ Cardinality(CallHolders(a)) \in Nat
  BY CountedAreFinite
<1>9. ref_num'[a] = ref_num[a] + One(c.addrs = a) /\ ref_num[a] \in Int
  BY <1>4, DnsAssumption DEF addrs_ref_inc, One, Lists, DnsInv, DomainsTyped
<1>10. ref_num[a] = Holders(a)
  BY DEF DnsInv, AddrsCounted
<1>11. Holders(a)' = Cardinality(OldHolders(a)) + Cardinality(NewHolders(a))
                     + Cardinality(CallHolders(a)')
                     + One(cb.addrs = a) + One(cb.old = a) + One(cb.answer = a)
  <2>1. HoldersAre'
    BY HoldersAre, PTL
  <2> QED
    BY <1>5, <2>1 DEF HoldersAre
<1>12. Holders(a) = Cardinality(OldHolders(a)) + Cardinality(NewHolders(a))
                    + Cardinality(CallHolders(a))
                    + One(cb.addrs = a) + One(cb.old = a) + One(cb.answer = a)
  BY HoldersAre
<1> QED
  BY <1>6, <1>7, <1>8, <1>9, <1>10, <1>11, <1>12 DEF One

\* A domain of which the status and the list change.
LEMMA Rewritten ==
  ASSUME NEW T, NEW f \in [used : {TRUE}, name : Domains, status : T, p_addrs : Lists,
                          p_new_addrs : Lists, p_query_head : Seq(Queries)],
         NEW t, NEW head, NEW g, g = [f EXCEPT !.status = t, !.p_query_head = head]
  PROVE  g = [used |-> TRUE, name |-> f.name, status |-> t, p_addrs |-> f.p_addrs,
              p_new_addrs |-> f.p_new_addrs, p_query_head |-> head]
<1>1. PICK n, s, x, y, h : f = [used |-> TRUE, name |-> n, status |-> s, p_addrs |-> x,
                                p_new_addrs |-> y, p_query_head |-> h]
  <2>1. f = [used |-> TRUE, name |-> f.name, status |-> f.status, p_addrs |-> f.p_addrs,
             p_new_addrs |-> f.p_new_addrs, p_query_head |-> f.p_query_head]
    OBVIOUS
  <2> QED
    BY ONLY <2>1
<1>2. g = [used |-> TRUE, name |-> n, status |-> t, p_addrs |-> x, p_new_addrs |-> y,
           p_query_head |-> head]
  BY ONLY <1>1, g = [f EXCEPT !.status = t, !.p_query_head = head]
<1>3. f.name = n /\ f.p_addrs = x /\ f.p_new_addrs = y
  BY ONLY <1>1
<1> QED
  BY ONLY <1>2, <1>3

\* What the call does to the lists of queries: query q joins that of a domain in
\* use or of a new one, or no list.
Joined(q) ==
  \E o \in Objects, add \in BOOLEAN, head \in Seq(Queries) :
    /\ domain[o].used => head = domain[o].p_query_head
    /\ ~domain[o].used => head = <<>>
    /\ domain'[o].used
    /\ domain'[o].p_query_head = IF add THEN dlist_insert(head, q) ELSE head
    /\ \A x \in Objects : x # o => domain'[x] = domain[x]
    /\ call[q] = NoCall
    /\ call'[q] # NoCall /\ call'[q].at = "unlocked" /\ call'[q].add = add
    /\ refs'[q] = refs[q] + One(add)
    /\ add => p_domain'[q] = o
    /\ \A p \in Queries : p # q => /\ call'[p] = call[p] /\ refs'[p] = refs[p]
                                   /\ p_domain'[p] = p_domain[p]
    /\ UNCHANGED <<status, inited, cancel, cb, spoilt>>

\* The critical section of moon_getaddrinfo.
LEMMA GetStep ==
  ASSUME DnsInv, NEW q \in Queries, NEW d \in Domains, NEW flag \in Flags,
         moon_getaddrinfo(q, d, flag), ~strayed'
  PROVE  DnsInv' /\ Joined(q)
<1> DEFINE o == hash_search(d)
           f == Found(d)
           s == f.status
           add == Joins(s, flag)
           taken == IF add THEN NULL ELSE f.p_addrs
           r == [f EXCEPT !.status = NewStatus(s, flag),
                          !.p_query_head = IF add THEN dlist_insert(@, q) ELSE @]
           c == [at |-> "unlocked", add |-> add, fail |-> FALSE, addrs |-> taken,
                 new |-> IF IsNew(s, flag) THEN o ELSE NULL]
<1>1. /\ call[q] = NoCall
      /\ table[d] = NULL => \E x \in Objects : ~domain[x].used
      /\ domain' = [domain EXCEPT ![o] = r]
      /\ table' = [table EXCEPT ![d] = o]
      /\ old_list' = IF Leaves(s, flag) THEN dlist_del(old_list, o) ELSE old_list
      /\ domain_num' = IF Leaves(s, flag) THEN domain_num - 1 ELSE domain_num
      /\ ref_num' = addrs_ref_inc(ref_num, taken)
      /\ refs' = [refs EXCEPT ![q] = IF add THEN @ + 1 ELSE @]
      /\ p_domain' = [p_domain EXCEPT ![q] = IF add THEN o ELSE @]
      /\ call' = [call EXCEPT ![q] = c]
      /\ UNCHANGED <<status, closed, inited, cancel, spoilt, aresVars, task, p_list, todo, cb, dels>>
  BY DEF moon_getaddrinfo, Link
<1>2. /\ o \in Objects /\ ~Gone(o)
      /\ \/ table[d] = o /\ domain[o].used /\ domain[o].name = d /\ f = domain[o] /\ f \in Entries
         \/ table[d] = NULL /\ ~domain[o].used /\ f = Fresh(d)
  BY <1>1, SearchFacts
<1>3. /\ s \in {0} \cup Statuses /\ f.name = d /\ f.used = TRUE
      /\ f.p_addrs \in Lists /\ f.p_new_addrs \in Lists /\ f.p_query_head \in Seq(Queries)
      /\ f \in [used : {TRUE}, name : Domains, status : {0} \cup Statuses, p_addrs : Lists,
                p_new_addrs : Lists, p_query_head : Seq(Queries)]
  <2>1. CASE f \in Entries /\ domain[o].name = d /\ f = domain[o]
    BY <2>1 DEF Entries
  <2>2. CASE f = Fresh(d)
    BY <2>2 DEF Fresh, Lists
  <2> QED
    BY <1>2, <2>1, <2>2
<1>4. domain[o].used => f = domain[o] /\ table[d] = o
  BY <1>2
<1>5. ~domain[o].used => /\ s = 0 /\ f.p_addrs = NULL /\ f.p_new_addrs = NULL
                         /\ f.p_query_head = <<>> /\ table[d] = NULL
  BY <1>2 DEF Fresh
<1> HIDE DEF o, f
<1> DEFINE head == IF add THEN dlist_insert(f.p_query_head, q) ELSE f.p_query_head
<1>6. head \in Seq(Queries)
  BY <1>3 DEF dlist_insert
<1>7. r = [used |-> TRUE, name |-> d, status |-> NewStatus(s, flag), p_addrs |-> f.p_addrs,
           p_new_addrs |-> f.p_new_addrs, p_query_head |-> head]
  <2>1. r = [f EXCEPT !.status = NewStatus(s, flag), !.p_query_head = head]
    OBVIOUS
  <2> HIDE DEF r, head, s
  <2> QED
    BY <1>3, <2>1, Rewritten
<1>8. NewStatus(s, flag) \in Statuses /\ IsNew(s, flag) \in BOOLEAN /\ add \in BOOLEAN
  BY <1>3, NewStatusFacts
<1> HIDE DEF s, head, r, add
<1>9. /\ r \in Entries /\ r.name = d /\ r.status = NewStatus(s, flag)
      /\ r.p_addrs = f.p_addrs /\ r.p_new_addrs = f.p_new_addrs /\ r.p_query_head = head
  BY <1>3, <1>6, <1>7, <1>8 DEF Entries
<1>10. c \in Calls /\ c # NoCall /\ c.addrs = taken
       /\ c.new = (IF IsNew(s, flag) THEN o ELSE NULL) /\ c.add = add /\ c.at = "unlocked"
  BY <1>2, <1>3, <1>8 DEF Calls, NoCall, Lists
<1> HIDE DEF c
<1>11. taken \in Lists
  BY <1>3 DEF Lists
<1> HIDE DEF taken
<1>12. ref_num' \in [Addrs -> Int]
  BY <1>1, <1>11 DEF addrs_ref_inc, Lists, DnsInv, DomainsTyped
<1>13. r.status \notin {DOMAIN_QUERY1, DOMAIN_NEW_QUERY1} => r.p_new_addrs = NULL
  <2>1. CASE domain[o].used
    <3>1. s \notin {DOMAIN_QUERY1, DOMAIN_NEW_QUERY1} => f.p_new_addrs = NULL
      BY <1>2, <1>4, <2>1 DEF DnsInv, Tables, FieldsRight, s
    <3> QED
      BY <1>3, <1>9, <3>1, NewStatusFacts
  <2>2. CASE ~domain[o].used
    BY <1>5, <1>9, <2>2
  <2> QED
    BY <2>1, <2>2
<1>14. r.status = DOMAIN_QUERY2 => r.p_query_head = <<>>
  <2> SUFFICES ASSUME NewStatus(s, flag) = DOMAIN_QUERY2 PROVE head = <<>>
    BY <1>9
  <2>1. s = DOMAIN_QUERY2 /\ ~add
    BY <1>3, NewStatusFacts DEF add
  <2>2. head = f.p_query_head
    BY <2>1 DEF head
  <2>3. CASE domain[o].used
    BY <1>2, <1>4, <2>1, <2>2, <2>3 DEF DnsInv, Tables, FieldsRight, s
  <2>4. CASE ~domain[o].used
    BY <1>5, <2>2, <2>4
  <2> QED
    BY <2>3, <2>4
<1>15. DomainsTyped' /\ Tables'
  <2>1. \/ /\ table[d] = o /\ domain[o].used /\ domain[o].name = d /\ domain[o].status = s
           /\ r.p_addrs = domain[o].p_addrs
        \/ table[d] = NULL /\ ~domain[o].used /\ s = 0
    BY <1>2, <1>4, <1>5, <1>9 DEF s
  <2> QED
    BY <1>1, <1>2, <1>3, <1>9, <1>12, <1>13, <1>14, <2>1, GetTables
<1>16. TwoRequests'
  <2>1. \/ domain[o].used /\ domain[o].status = s
        \/ ~domain[o].used /\ s = 0
    BY <1>4, <1>5 DEF s
  <2>2. UNCHANGED <<asked, p_add_cares, todo>>
    BY <1>1 DEF aresVars
  <2> QED
    BY <1>1, <1>2, <1>3, <1>9, <1>10, <1>15, <2>1, <2>2, GetRequests
<1>17. AddrsCounted'
  <2>1. \/ /\ domain[o].used
           /\ r.p_addrs = domain[o].p_addrs /\ r.p_new_addrs = domain[o].p_new_addrs
        \/ ~domain[o].used /\ r.p_addrs = NULL /\ r.p_new_addrs = NULL
    BY <1>4, <1>5, <1>9
  <2>2. UNCHANGED cb
    BY <1>1
  <2> QED
    BY <1>1, <1>2, <1>9, <1>10, <2>1, <2>2, GetAddrs
<1>18. TaskTyped'
  BY <1>1 DEF DnsInv, TaskTyped, aresVars
<1>19. QueriesTyped'
  <2>1. call' \in [Queries -> {NoCall} \cup Calls]
    BY <1>1, <1>10 DEF DnsInv, QueriesTyped
  <2>2. \A p \in Queries : call'[p] = IF p = q THEN c ELSE call[p]
    BY <1>1 DEF DnsInv, QueriesTyped
  <2>3. refs' \in [Queries -> Int] /\ p_domain' \in [Queries -> Objects \cup {NULL}]
    BY <1>1, <1>2, <1>8 DEF DnsInv, QueriesTyped
  <2>4. \A p \in Queries : p_domain'[p] = IF p = q /\ add THEN o ELSE p_domain[p]
    BY <1>1, <1>8 DEF DnsInv, QueriesTyped
  <2>5. \A p \in Queries : (call[p] # NoCall /\ call[p].add)' => p_domain'[p] \in Objects
    BY <1>2, <1>10, <2>2, <2>4 DEF DnsInv, QueriesTyped
  <2> QED
    BY <1>1, <1>10, <2>1, <2>2, <2>3, <2>5 DEF DnsInv, QueriesTyped
<1>20. Joined(q)
  <2>1. /\ domain[o].used => f.p_query_head = domain[o].p_query_head
        /\ ~domain[o].used => f.p_query_head = <<>>
    BY <1>4, <1>5
  <2>2. /\ domain'[o] = r /\ \A x \in Objects : x # o => domain'[x] = domain[x]
    BY <1>1, <1>2 DEF DnsInv, DomainsTyped
  <2>3. domain'[o].used /\ domain'[o].p_query_head = IF add THEN dlist_insert(f.p_query_head, q)
                                                    ELSE f.p_query_head
    BY <1>9, <2>2 DEF Entries, head
  <2>4. \A p \in Queries : call'[p] = IF p = q THEN c ELSE call[p]
    BY <1>1 DEF DnsInv, QueriesTyped
  <2>5. \A p \in Queries : p_domain'[p] = IF p = q /\ add THEN o ELSE p_domain[p]
    BY <1>1, <1>8 DEF DnsInv, QueriesTyped
  <2>6. \A p \in Queries : refs'[p] = IF p = q THEN refs[p] + One(add) ELSE refs[p]
    BY <1>1, <1>8 DEF DnsInv, QueriesTyped, One
  <2>7. f.p_query_head \in Seq(Queries) /\ add \in BOOLEAN /\ o \in Objects
    BY <1>2, <1>3, <1>8
  <2>8. UNCHANGED <<status, inited, cancel, cb, spoilt>> /\ call[q] = NoCall
    BY <1>1
  <2>9. call'[q] # NoCall /\ call'[q].at = "unlocked" /\ call'[q].add = add
    BY <1>10, <2>4
  <2> QED
    BY <2>1, <2>2, <2>3, <2>4, <2>5, <2>6, <2>7, <2>8, <2>9 DEF Joined
<1> QED
  BY <1>15, <1>16, <1>17, <1>18, <1>19, <1>20 DEF DnsInv

-----------------------------------------------------------------------------
(* domain_callback *)

\* A domain that c-ares has to answer for is in use.
LEMMA AskedIsUsed ==
  ASSUME DnsInv, NEW o \in Objects, asked[o] > 0
  PROVE  domain[o].used /\ domain[o] \in Entries /\ asked[o] \in Nat
<1>1. Pending(o) = Expected(domain[o])
  BY RequestsAre DEF DnsInv
<1>2. /\ asked[o] \in Nat /\ Times(p_add_cares, o) \in Nat /\ Times(todo, o) \in Nat
      /\ Cardinality(Callers(o)) \in Nat
  BY CountedAreFinite, TimesType DEF DnsInv, TaskTyped
<1>3. Pending(o) > 0
  BY <1>2, PendingIs
<1>4. domain[o].used
  BY <1>1, <1>3 DEF Expected
<1> QED
  BY <1>2, <1>4, InUse DEF DnsInv

\* One answer has come in.
LEMMA AnswerRequests ==
  ASSUME DnsInv, DomainsTyped', NEW o \in Objects, asked[o] > 0,
         asked' = [asked EXCEPT ![o] = @ - 1], UNCHANGED <<call, p_add_cares, todo>>,
         Expected(domain'[o]) = Expected(domain[o]) - 1,
         \A x \in Objects : x # o => Expected(domain'[x]) = Expected(domain[x])
  PROVE  TwoRequests' /\ asked' \in [Objects -> Nat]
<1>1. asked \in [Objects -> Nat]
  BY DEF DnsInv, TaskTyped
<1>2. asked' \in [Objects -> Nat]
  BY <1>1
<1>3. ASSUME NEW x \in Objects PROVE Pending(x)' = Expected(domain'[x])
  <2>1. Pending(x) = Expected(domain[x])
    BY RequestsAre DEF DnsInv
  <2>2. /\ asked[x] \in Nat /\ Times(p_add_cares, x) \in Nat /\ Times(todo, x) \in Nat
        /\ Cardinality(Callers(x)) \in Nat
    BY CountedAreFinite, TimesType DEF DnsInv, TaskTyped
  <2>3. Callers(x)' = Callers(x)
    BY DEF Callers
  <2>4. /\ Pending(x) = asked[x] + 2 * (Times(p_add_cares, x) + Times(todo, x) + Cardinality(Callers(x)))
        /\ Pending(x)' = asked'[x] + 2 * (Times(p_add_cares, x) + Times(todo, x) + Cardinality(Callers(x)))
    <3>1. PendingIs'
      BY PendingIs, PTL
    <3> QED
      BY <2>3, <3>1, PendingIs DEF PendingIs
  <2>5. asked'[x] = IF x = o THEN asked[x] - 1 ELSE asked[x]
    BY <1>1
  <2>6. CASE x = o
    <3>1. Pending(o)' = Pending(o) - 1
      BY <2>2, <2>4, <2>5, <2>6
    <3> QED
      BY <2>1, <2>6, <3>1
  <2>7. CASE x # o
    BY <2>1, <2>4, <2>5, <2>7
  <2> QED
    BY <2>6, <2>7
<1>4. RequestsAre'
  BY RequestsAre, PTL
<1> QED
  BY <1>2, <1>3, <1>4 DEF RequestsAre

\* One domain changes the addresses it holds.
LEMMA DomainChanges ==
  ASSUME NEW o \in Objects, domain[o].used, domain'[o].used,
         \A x \in Objects : x # o =>
           /\ domain'[x].used = domain[x].used
           /\ domain[x].used => /\ domain'[x].p_addrs = domain[x].p_addrs
                                /\ domain'[x].p_new_addrs = domain[x].p_new_addrs,
         NEW a
  PROVE  /\ Cardinality(OldHolders(a)') =
              Cardinality(OldHolders(a)) + One(domain'[o].p_addrs = a) - One(domain[o].p_addrs = a)
         /\ Cardinality(NewHolders(a)') =
              Cardinality(NewHolders(a)) + One(domain'[o].p_new_addrs = a)
                                         - One(domain[o].p_new_addrs = a)
<1>1. CountedAreFinite'
  BY CountedAreFinite, PTL
<1>2. /\ IsFiniteSet(OldHolders(a)) /\ IsFiniteSet(OldHolders(a)')
      /\ IsFiniteSet(NewHolders(a)) /\ IsFiniteSet(NewHolders(a)')
  BY <1>1, CountedAreFinite DEF CountedAreFinite
<1>3. \A x : x # o => /\ x \in OldHolders(a) <=> x \in OldHolders(a)'
                      /\ x \in NewHolders(a) <=> x \in NewHolders(a)'
  BY DEF OldHolders, NewHolders, Live
<1>4. /\ o \in OldHolders(a) <=> domain[o].p_addrs = a
      /\ o \in OldHolders(a)' <=> domain'[o].p_addrs = a
      /\ o \in NewHolders(a) <=> domain[o].p_new_addrs = a
      /\ o \in NewHolders(a)' <=> domain'[o].p_new_addrs = a
  BY DEF OldHolders, NewHolders, Live
<1>5. Cardinality(OldHolders(a)') =
        Cardinality(OldHolders(a)) + One(o \in OldHolders(a)') - One(o \in OldHolders(a))
  BY <1>2, <1>3, OneChanges
<1>6. Cardinality(NewHolders(a)') =
        Cardinality(NewHolders(a)) + One(o \in NewHolders(a)') - One(o \in NewHolders(a))
  BY <1>2, <1>3, OneChanges
<1> QED
  BY <1>4, <1>5, <1>6

\* A reference to a list of addresses.
LEMMA RefIncIs ==
  ASSUME NEW rn \in [Addrs -> Int], NEW b \in Lists
  PROVE  /\ addrs_ref_inc(rn, b) \in [Addrs -> Int]
         /\ \A a \in Addrs : addrs_ref_inc(rn, b)[a] = rn[a] + One(b = a)
         /\ addrs_ref_dec(rn, b) \in [Addrs -> Int]
         /\ \A a \in Addrs : addrs_ref_dec(rn, b)[a] = rn[a] - One(b = a)
<1>1. CASE b = NULL
  BY <1>1, DnsAssumption DEF addrs_ref_inc, addrs_ref_dec, One
<1>2. CASE b \in Addrs
  BY <1>2, DnsAssumption DEF addrs_ref_inc, addrs_ref_dec, One
<1> QED
  BY <1>1, <1>2 DEF Lists

\* The first answer keeps it: one answer less to come, one reference more.
LEMMA FirstAnswerStep ==
  ASSUME DnsInv, NEW o \in Objects, NEW a \in Lists, domain_callback(o, a), FirstAnswer(o, a)
  PROVE  DnsInv'
<1>1. /\ asked[o] > 0 /\ asked' = [asked EXCEPT ![o] = @ - 1] /\ task \in {"wait", "add"}
      /\ UNCHANGED <<call, p_domain, closed, inited, refs, cancel, p_add_cares, p_list, todo, dels>>
      /\ task = "add" => p_list # NULL
  BY DEF domain_callback, InAres
<1>2. domain[o].used /\ domain[o] \in Entries
  BY <1>1, AskedIsUsed
<1>3. /\ domain[o].status \in {DOMAIN_QUERYING, DOMAIN_NEW_QUERYING}
      /\ domain' = [domain EXCEPT ![o].p_new_addrs = a, ![o].status = @ + 1]
      /\ ref_num' = addrs_ref_inc(ref_num, a)
      /\ UNCHANGED <<table, old_list, domain_num, status, cb, task>>
  BY DEF FirstAnswer
<1> DEFINE r == domain'[o]
<1>4. /\ r \in Entries /\ r.used /\ r.name = domain[o].name /\ r.status = domain[o].status + 1
      /\ r.p_addrs = domain[o].p_addrs /\ r.p_new_addrs = a
      /\ r.p_query_head = domain[o].p_query_head
  <2>1. domain[o].status + 1 \in Statuses
    BY <1>3, StatusNumbers
  <2>2. domain \in [Objects -> {Free} \cup Entries]
    BY DEF DnsInv, DomainsTyped
  <2>3. r = [domain[o] EXCEPT !.p_new_addrs = a, !.status = domain[o].status + 1]
    BY <1>2, <1>3, <2>2 DEF Entries
  <2> HIDE DEF r
  <2> QED
    BY <1>2, <2>1, <2>3 DEF Entries
<1>5. /\ domain \in [Objects -> {Free} \cup Entries]
      /\ domain' = [domain EXCEPT ![o] = r]
      /\ \A x \in Objects : x # o => domain'[x] = domain[x]
  <2>1. domain \in [Objects -> {Free} \cup Entries]
    BY DEF DnsInv, DomainsTyped
  <2> QED
    BY <1>3, <2>1
<1> HIDE DEF r
<1>6. domain'[o] = r
  BY DEF r
<1>7. ref_num \in [Addrs -> Int]
  BY DEF DnsInv, DomainsTyped
<1>8. DomainsTyped'
  <2>1. domain' \in [Objects -> {Free} \cup Entries]
    BY <1>4, <1>5
  <2> QED
    BY <1>3, <1>7, <2>1, RefIncIs DEF DnsInv, DomainsTyped
<1>9. \A x : Gone(x)' <=> Gone(x)
  BY <1>1, <1>3 DEF Gone
<1>10. domain[o].status # DOMAIN_QUERY2 /\ r.status \in {DOMAIN_QUERY1, DOMAIN_NEW_QUERY1}
       /\ (r.status >= DOMAIN_QUERY2 <=> domain[o].status >= DOMAIN_QUERY2)
       /\ r.status # DOMAIN_QUERY2
  BY <1>3, <1>4, StatusNumbers
<1>11. Tables'
  <2>1. TableRight'
    <3>1. \A x \in Objects : /\ domain'[x].used <=> domain[x].used
                             /\ domain[x].used => domain'[x].name = domain[x].name
                             /\ x # o => domain'[x].status = domain[x].status
      BY <1>2, <1>4, <1>5, <1>6 DEF Entries
    <3>2. ~Gone(o)
      BY <1>10 DEF DnsInv, Tables, TableRight
    <3>3. \A d \in Domains : table[d] \in Objects \cup {NULL}
      BY DEF DnsInv, DomainsTyped
    <3>4. TableRight /\ table' = table
      BY <1>3 DEF DnsInv, Tables
    <3>5. \A d \in Domains : table[d] # NULL => domain'[table[d]].used /\ domain'[table[d]].name = d
      BY <3>1, <3>3, <3>4 DEF TableRight
    <3>6. \A x \in Objects : domain'[x].used => (Gone(x) <=> table[domain'[x].name] # x)
      BY <3>1, <3>4 DEF TableRight
    <3>7. \A x \in Objects : Gone(x) => domain'[x].used /\ domain'[x].status = DOMAIN_QUERY2
      BY <3>1, <3>2, <3>4 DEF TableRight
    <3> QED
      BY <1>9, <3>4, <3>5, <3>6, <3>7 DEF TableRight
  <2>2. OldListRight'
    <3>1. \A x \in ToSet(old_list) : x \in Objects
      BY ElementsTyped DEF DnsInv, DomainsTyped
    <3> QED
      BY <1>2, <1>3, <1>4, <1>5, <1>6, <1>9, <1>10, <3>1 DEF DnsInv, Tables, OldListRight
  <2>3. FieldsRight'
    BY <1>4, <1>5, <1>6, <1>10 DEF DnsInv, Tables, FieldsRight
  <2> QED
    BY <2>1, <2>2, <2>3 DEF Tables
<1>12. TwoRequests' /\ asked' \in [Objects -> Nat]
  <2>1. Expected(domain'[o]) = Expected(domain[o]) - 1
    BY <1>2, <1>3, <1>4, <1>6, StatusNumbers DEF Expected
  <2>2. \A x \in Objects : x # o => Expected(domain'[x]) = Expected(domain[x])
    BY <1>5
  <2> QED
    BY <1>1, <1>8, <2>1, <2>2, AnswerRequests
<1>13. AddrsCounted'
  <2> SUFFICES ASSUME NEW b \in Addrs PROVE ref_num'[b] = Holders(b)'
    BY DEF AddrsCounted
  <2>1. domain[o].p_new_addrs # b
    BY <1>2, <1>3, StatusNumbers, DnsAssumption DEF DnsInv, Tables, FieldsRight
  <2>2. /\ Cardinality(OldHolders(b)') = Cardinality(OldHolders(b)) + One(domain'[o].p_addrs = b)
                                         - One(domain[o].p_addrs = b)
        /\ Cardinality(NewHolders(b)') = Cardinality(NewHolders(b)) + One(domain'[o].p_new_addrs = b)
                                         - One(domain[o].p_new_addrs = b)
    <3>1. domain'[o].used
      BY <1>4, <1>6
    <3>2. \A x \in Objects : x # o => domain'[x] = domain[x]
      BY <1>5
    <3> QED
      BY ONLY <1>2, <3>1, <3>2, DomainChanges, o \in Objects
  <2>3. CallHolders(b)' = CallHolders(b)
    BY <1>1 DEF CallHolders
  <2>4. /\ Cardinality(OldHolders(b)) \in Nat /\ Cardinality(NewHolders(b)) \in Nat
        /\ Cardinality(CallHolders(b)) \in Nat
    BY CountedAreFinite
  <2>5. ref_num'[b] = ref_num[b] + One(a = b) /\ ref_num[b] \in Int /\ ref_num[b] = Holders(b)
    BY <1>3, <1>7, RefIncIs DEF DnsInv, AddrsCounted
  <2>6. /\ Holders(b)' = Cardinality(OldHolders(b)') + Cardinality(NewHolders(b)')
                         + Cardinality(CallHolders(b))
                         + One(cb.addrs = b) + One(cb.old = b) + One(cb.answer = b)
        /\ Holders(b) = Cardinality(OldHolders(b)) + Cardinality(NewHolders(b))
                         + Cardinality(CallHolders(b))
                         + One(cb.addrs = b) + One(cb.old = b) + One(cb.answer = b)
    <3>1. HoldersAre'
      BY HoldersAre, PTL
    <3> QED
      BY <1>3, <2>3, <3>1, HoldersAre DEF HoldersAre
  <2>7. /\ One(domain'[o].p_addrs = b) = One(domain[o].p_addrs = b)
        /\ One(domain'[o].p_new_addrs = b) = One(a = b)
        /\ One(domain[o].p_new_addrs = b) = 0
    BY <1>4, <1>6, <2>1 DEF One
  <2>8. One(a = b) \in Int /\ One(domain[o].p_addrs = b) \in Int /\ One(cb.addrs = b) \in Int
        /\ One(cb.old = b) \in Int /\ One(cb.answer = b) \in Int
    BY DEF One
  <2> QED
    BY <2>2, <2>4, <2>5, <2>6, <2>7, <2>8
<1>14. TaskTyped' /\ QueriesTyped'
  BY <1>1, <1>3, <1>12 DEF DnsInv, TaskTyped, QueriesTyped
<1> QED
  BY <1>8, <1>11, <1>12, <1>13, <1>14 DEF DnsInv

\* The second answer for domain o: it becomes r; del, if any, leaves the table and
\* is freed later; out, if any, leaves the old list and goes on being asked for.
LEMMA SecondTables ==
  ASSUME DnsInv, cb = NoCb, dels = {}, NEW o \in Objects, domain[o].used,
         domain'[o] \in Entries, domain'[o].name = domain[o].name,
         domain'[o].status = DOMAIN_QUERY2,
         domain'[o].p_new_addrs = NULL, domain'[o].p_query_head = <<>>,
         cb'.del \in Objects \cup {NULL}, NEW out \in Objects \cup {NULL}, out # o,
         out # NULL => out \in ToSet(old_list) /\ domain[out].status # DOMAIN_QUERY2,
         cb'.del # NULL =>
           \/ cb'.del = o
           \/ cb'.del \in ToSet(old_list) /\ domain[cb'.del].status = DOMAIN_QUERY2,
         \A x \in Objects : x # o /\ x # out => domain'[x] = domain[x],
         out # NULL => /\ domain'[out] \in Entries /\ domain'[out].name = domain[out].name
                       /\ domain'[out].status = domain[out].status - DOMAIN_QUERY2
                       /\ domain'[out].p_new_addrs = domain[out].p_new_addrs,
         table' = IF cb'.del = NULL THEN table ELSE hash_del(table, {cb'.del}),
         IsInjective(old_list'), ToSet(old_list') = (ToSet(old_list) \cup {o}) \ {out, cb'.del},
         domain_num' = Len(old_list'), domain_num' <= DNS_CACHE_NUM,
         cb'.del # o => domain'[o].p_addrs # NULL, dels' = {}
  PROVE  Tables'
<1> DEFINE r == domain'[o]
           del == cb'.del
<1>1. \A x \in Objects : ~Gone(x) /\ (Gone(x)' <=> x = del)
  BY DnsAssumption DEF Gone, NoCb
<1>2. r.used
  BY DEF Entries
<1>3. \A x \in ToSet(old_list) : x \in Objects /\ domain[x].used /\ domain[x].status >= DOMAIN_QUERY2
  BY ElementsTyped DEF DnsInv, DomainsTyped, Tables, OldListRight
<1>4. out # NULL => /\ out \in Objects /\ domain[out].used /\ domain'[out].used
                    /\ domain[out].status \in {DOMAIN_NEW_QUERYING, DOMAIN_NEW_QUERY1}
                    /\ domain[out] \in Entries
  <2> SUFFICES ASSUME out # NULL
               PROVE  /\ out \in Objects /\ domain[out].used /\ domain'[out].used
                      /\ domain[out].status \in {DOMAIN_NEW_QUERYING, DOMAIN_NEW_QUERY1}
                      /\ domain[out] \in Entries
    OBVIOUS
  <2>1. out \in Objects /\ domain[out].used /\ domain[out].status >= DOMAIN_QUERY2
    BY <1>3
  <2>2. domain[out] \in Entries /\ domain'[out].used
    BY <2>1, InUse DEF DnsInv, Entries
  <2>3. domain[out].status \in Statuses
    BY <2>2 DEF Entries
  <2> QED
    BY <2>1, <2>2, <2>3, StatusNumbers
<1>5. \A x \in Objects : /\ domain'[x].used <=> domain[x].used
                         /\ domain[x].used => domain'[x].name = domain[x].name
  <2> TAKE x \in Objects
  <2>1. CASE x = o
    BY <1>2, <2>1
  <2>2. CASE x = out
    BY <1>4, <2>2, DnsAssumption
  <2>3. CASE x # o /\ x # out
    BY <2>3
  <2> QED
    BY <2>1, <2>2, <2>3
<1>6. /\ table \in [Domains -> Objects \cup {NULL}]
      /\ \A d \in Domains : table'[d] = IF table[d] = del THEN NULL ELSE table[d]
  BY DEF DnsInv, DomainsTyped, hash_del
<1>7. /\ \A d \in Domains : table[d] # NULL => domain[table[d]].used /\ domain[table[d]].name = d
      /\ \A x \in Objects : domain[x].used => table[domain[x].name] = x /\ domain[x].name \in Domains
  <2>1. TableRight
    BY DEF DnsInv, Tables
  <2>2. \A x \in Objects : domain[x].used => domain[x].name \in Domains
    BY InUse DEF DnsInv, Entries
  <2> QED
    BY <1>1, <2>1, <2>2 DEF TableRight
<1>8. TableRight'
  <2>1. \A d \in Domains : table'[d] # NULL => domain'[table'[d]].used /\ domain'[table'[d]].name = d
    <3> TAKE d \in Domains
    <3> HAVE table'[d] # NULL
    <3>1. table'[d] = table[d] /\ table[d] # NULL /\ table[d] \in Objects
      BY <1>6
    <3>2. domain[table[d]].used /\ domain[table[d]].name = d
      BY <1>7, <3>1
    <3> QED
      BY <1>5, <3>1, <3>2
  <2>2. \A x \in Objects : domain'[x].used => (x = del <=> table'[domain'[x].name] # x)
    <3> TAKE x \in Objects
    <3> HAVE domain'[x].used
    <3>1. domain[x].used /\ domain'[x].name = domain[x].name
      BY <1>5
    <3>2. domain[x].name \in Domains /\ table[domain[x].name] = x
      BY <1>7, <3>1
    <3>3. /\ x = del => table'[domain[x].name] = NULL
          /\ x # del => table'[domain[x].name] = x
      BY ONLY <1>6, <3>2
    <3>4. x # NULL
      BY DnsAssumption
    <3> QED
      BY <3>1, <3>3, <3>4
  <2>3. \A x \in Objects : x = del => domain'[x].used /\ domain'[x].status = DOMAIN_QUERY2
    BY <1>2, <1>3, DnsAssumption
  <2> QED
    BY <1>1, <2>1, <2>2, <2>3 DEF TableRight
<1>9. FieldsRight'
  <2> SUFFICES ASSUME NEW x \in Objects, domain'[x].used
               PROVE  /\ domain'[x].status \notin {DOMAIN_QUERY1, DOMAIN_NEW_QUERY1} =>
                           domain'[x].p_new_addrs = NULL
                      /\ domain'[x].status = DOMAIN_QUERY2 => domain'[x].p_query_head = <<>>
    BY DEF FieldsRight
  <2>1. CASE x = o
    BY <2>1
  <2>2. CASE x = out
    BY <1>4, <2>2, StatusNumbers, DnsAssumption DEF DnsInv, Tables, FieldsRight
  <2>3. CASE x # o /\ x # out
    BY <2>3 DEF DnsInv, Tables, FieldsRight
  <2> QED
    BY <2>1, <2>2, <2>3
<1>10. OldListRight'
  <2>1. ASSUME NEW x \in Objects
        PROVE  x \in ToSet(old_list') <=>
                 domain'[x].used /\ x # del /\ domain'[x].status >= DOMAIN_QUERY2
    <3>1. CASE x = o
      BY <1>2, <3>1, StatusNumbers
    <3>2. CASE x = out
      BY <1>4, <3>2, StatusNumbers, DnsAssumption
    <3>3. CASE x # o /\ x # out
      <4>1. x \in ToSet(old_list) <=> domain[x].used /\ domain[x].status >= DOMAIN_QUERY2
        BY <1>1 DEF DnsInv, Tables, OldListRight
      <4> QED
        BY <3>3, <4>1
    <3> QED
      BY <3>1, <3>2, <3>3
  <2>2. \A x \in ToSet(old_list') : domain'[x].p_addrs # NULL
    <3> TAKE x \in ToSet(old_list')
    <3>1. CASE x = o
      BY <3>1
    <3>2. CASE x # o
      <4>1. x \in ToSet(old_list) /\ x # out /\ x \in Objects
        BY <1>3, <3>2
      <4> QED
        BY <3>2, <4>1 DEF DnsInv, Tables, OldListRight
    <3> QED
      BY <3>1, <3>2
  <2> QED
    BY <1>1, <2>1, <2>2 DEF OldListRight
<1> QED
  BY <1>8, <1>9, <1>10 DEF Tables

\* What the second answer makes of the domain.
Answered(r, found) ==
  [r EXCEPT !.status = DOMAIN_QUERY2, !.p_addrs = found, !.p_new_addrs = NULL, !.p_query_head = <<>>]

\* The fields of it.
LEMMA AnsweredIs ==
  ASSUME NEW r \in Entries, NEW found \in Lists
  PROVE  LET g == Answered(r, found)
         IN /\ g \in Entries /\ g.used /\ g.name = r.name /\ g.status = DOMAIN_QUERY2
            /\ g.p_addrs = found /\ g.p_new_addrs = NULL /\ g.p_query_head = <<>>
<1>0. PICK g : g = Answered(r, found)
  OBVIOUS
<1>1. PICK n, s, x, y, h : r = [used |-> TRUE, name |-> n, status |-> s, p_addrs |-> x,
                                p_new_addrs |-> y, p_query_head |-> h]
  <2>1. r = [used |-> TRUE, name |-> r.name, status |-> r.status, p_addrs |-> r.p_addrs,
             p_new_addrs |-> r.p_new_addrs, p_query_head |-> r.p_query_head]
    BY DEF Entries
  <2> QED
    BY ONLY <2>1
<1>2. g = [used |-> TRUE, name |-> n, status |-> DOMAIN_QUERY2, p_addrs |-> found,
           p_new_addrs |-> NULL, p_query_head |-> <<>>]
  BY ONLY <1>0, <1>1 DEF Answered
<1>3. r.name = n /\ n \in Domains
  BY <1>1 DEF Entries
<1>4. DOMAIN_QUERY2 \in Statuses /\ NULL \in Lists /\ <<>> \in Seq(Queries)
  BY StatusNumbers DEF Lists
<1> QED
  BY <1>0, <1>2, <1>3, <1>4 DEF Entries

\* The old list without domain o, its length, and the list with o as the youngest.
Others(o) == IF domain[o].status = DOMAIN_NEW_QUERY1 THEN dlist_del(old_list, o) ELSE old_list
OthersNum(o) == domain_num - (IF domain[o].status = DOMAIN_NEW_QUERY1 THEN 1 ELSE 0)
WithYoungest(o) == InsertTail(Others(o), o)

\* The old list after the second answer.  The oldest domain of a full list is
\* another one, because at least one domain fits into the cache.
LEMMA SecondList ==
  ASSUME DnsInv, NEW o \in Objects, domain[o].used, ~Gone(o),
         domain[o].status \in {DOMAIN_QUERY1, DOMAIN_NEW_QUERY1}
  PROVE  /\ Others(o) \in Seq(Objects) /\ IsInjective(Others(o))
         /\ ToSet(Others(o)) = ToSet(old_list) \ {o}
         /\ OthersNum(o) = Len(Others(o)) /\ OthersNum(o) <= DNS_CACHE_NUM /\ OthersNum(o) \in Nat
         /\ WithYoungest(o) \in Seq(Objects) /\ IsInjective(WithYoungest(o))
         /\ Len(WithYoungest(o)) = OthersNum(o) + 1
         /\ ToSet(WithYoungest(o)) = ToSet(old_list) \cup {o}
         /\ Tail(WithYoungest(o)) \in Seq(Objects) /\ IsInjective(Tail(WithYoungest(o)))
         /\ Len(Tail(WithYoungest(o))) = OthersNum(o)
         /\ ToSet(Tail(WithYoungest(o))) = ToSet(WithYoungest(o)) \ {Head(WithYoungest(o))}
         /\ Head(WithYoungest(o)) \in ToSet(WithYoungest(o))
         /\ OthersNum(o) + 1 > DNS_CACHE_NUM => Head(WithYoungest(o)) # o
<1> DEFINE others == Others(o)
           num == OthersNum(o)
           list == WithYoungest(o)
<1>0. /\ others = IF domain[o].status = DOMAIN_NEW_QUERY1 THEN dlist_del(old_list, o) ELSE old_list
      /\ num = domain_num - (IF domain[o].status = DOMAIN_NEW_QUERY1 THEN 1 ELSE 0)
      /\ list = InsertTail(others, o)
  BY DEF Others, OthersNum, WithYoungest
<1> HIDE DEF others, num, list
<1>1. /\ old_list \in Seq(Objects) /\ IsInjective(old_list) /\ domain_num = Len(old_list)
      /\ domain_num <= DNS_CACHE_NUM /\ domain_num \in Nat
  BY DEF DnsInv, DomainsTyped, Tables, OldListRight
<1>2. o \in ToSet(old_list) <=> domain[o].status = DOMAIN_NEW_QUERY1
  BY StatusNumbers DEF DnsInv, Tables, OldListRight
<1>3. /\ others \in Seq(Objects) /\ IsInjective(others)
      /\ ToSet(others) = ToSet(old_list) \ {o} /\ num = Len(others)
  <2>1. CASE domain[o].status = DOMAIN_NEW_QUERY1
    BY <1>0, <1>1, <1>2, <2>1, DelFacts DEF One
  <2>2. CASE domain[o].status # DOMAIN_NEW_QUERY1
    BY <1>0, <1>1, <1>2, <2>2
  <2> QED
    BY <2>1, <2>2
<1>4. num \in Nat /\ num <= DNS_CACHE_NUM
  <2>1. Len(others) \in Nat
    BY <1>3
  <2>2. num <= domain_num
    BY <1>0, <1>1
  <2> QED
    BY <1>1, <1>3, <2>1, <2>2, DnsAssumption
<1>5. /\ list \in Seq(Objects) /\ IsInjective(list) /\ Len(list) = num + 1
      /\ ToSet(list) = ToSet(old_list) \cup {o}
  BY <1>0, <1>3, TailFacts
<1>6. list # <<>>
  BY <1>4, <1>5
<1>7. /\ Tail(list) \in Seq(Objects) /\ IsInjective(Tail(list)) /\ Len(Tail(list)) = num
      /\ ToSet(Tail(list)) = ToSet(list) \ {Head(list)} /\ Head(list) \in ToSet(list)
  BY <1>4, <1>5, <1>6, HeadLeaves
<1>8. ASSUME num + 1 > DNS_CACHE_NUM PROVE Head(list) # o
  <2>1. Len(others) >= 1
    BY <1>3, <1>4, <1>8, DnsAssumption
  <2>2. Head(list) = others[1] /\ others[1] \in ToSet(others)
    BY <1>0, <1>3, <2>1 DEF InsertTail, ToSet
  <2> QED
    BY <1>3, <2>2
<1> QED
  BY <1>3, <1>4, <1>5, <1>7, <1>8 DEF others, num, list


\* The list of domain o is emptied, the others are left alone.
HeadTaken(o) ==
  /\ domain'[o].used /\ domain'[o].p_query_head = <<>>
  /\ \A x \in Objects : x # o =>
       /\ domain'[x].used <=> domain[x].used
       /\ domain[x].used => domain'[x].p_query_head = domain[x].p_query_head

\* The second answer.
LEMMA SecondAnswerStep ==
  ASSUME DnsInv, NEW o \in Objects, NEW a \in Lists, a # NULL => ref_num[a] = 0,
         domain_callback(o, a), SecondAnswer(o, a)
  PROVE  DnsInv' /\ HeadTaken(o)
<1> DEFINE found == Merged(o, a)
           qs == domain[o].p_query_head
           others == IF domain[o].status = DOMAIN_NEW_QUERY1 THEN dlist_del(old_list, o) ELSE old_list
           num == domain_num - (IF domain[o].status = DOMAIN_NEW_QUERY1 THEN 1 ELSE 0)
           list == InsertTail(others, o)
           full == num + 1 > DNS_CACHE_NUM
           oldest == Head(list)
           kept == [domain EXCEPT ![o].status = DOMAIN_QUERY2, ![o].p_addrs = found,
                                  ![o].p_new_addrs = NULL, ![o].p_query_head = <<>>]
           own == IF a = NULL THEN ref_num ELSE [ref_num EXCEPT ![a] = 1]
           del == CASE found = NULL -> o
                    [] found # NULL /\ full /\ Evicted(oldest) -> oldest
                    [] OTHER -> NULL
           out == IF found # NULL /\ full /\ ~Evicted(oldest) THEN oldest ELSE NULL
<1>1. /\ asked[o] > 0 /\ asked' = [asked EXCEPT ![o] = @ - 1] /\ task \in {"wait", "add"}
      /\ UNCHANGED <<call, p_domain, closed, inited, refs, cancel, p_add_cares, p_list, todo, dels>>
      /\ task = "add" => p_list # NULL
  BY DEF domain_callback, InAres
<1>2. /\ domain[o].status \in {DOMAIN_QUERY1, DOMAIN_NEW_QUERY1}
      /\ status' = [q \in Queries |-> IF Contains(qs, q) THEN 1 ELSE status[q]]
      /\ ref_num' = addrs_ref_inc(MergeRefs(own, o, a), Queried(qs, found))
      /\ cb' = [queries |-> qs, addrs |-> Queried(qs, found), old |-> domain[o].p_addrs,
                answer |-> a, del |-> del]
      /\ old_list' = IF found = NULL THEN others ELSE IF full THEN Tail(list) ELSE list
      /\ domain_num' = IF found = NULL \/ full THEN num ELSE num + 1
      /\ table' = IF del = NULL THEN table ELSE hash_del(table, {del})
      /\ domain' = IF found # NULL /\ full /\ ~Evicted(oldest)
                   THEN [kept EXCEPT ![oldest].status = @ - DOMAIN_QUERY2]
                   ELSE kept
      /\ task' = "notice"
  BY DEF SecondAnswer
<1>3. /\ domain[o].used /\ domain[o] \in Entries /\ ~Gone(o) /\ cb = NoCb /\ dels = {}
  <2>1. domain[o].used /\ domain[o] \in Entries
    BY <1>1, AskedIsUsed
  <2>2. ~Gone(o)
    BY <1>2, StatusNumbers DEF DnsInv, Tables, TableRight
  <2> QED
    BY <1>1, <2>1, <2>2 DEF DnsInv, TaskTyped
<1>4. /\ domain[o].name \in Domains /\ domain[o].p_addrs \in Lists /\ domain[o].p_new_addrs \in Lists
      /\ qs \in Seq(Queries) /\ found \in Lists /\ Queried(qs, found) \in Lists
  BY <1>3 DEF Entries, Merged, Queried, Lists
<1>5. /\ others \in Seq(Objects) /\ IsInjective(others)
      /\ ToSet(others) = ToSet(old_list) \ {o}
      /\ num = Len(others) /\ num <= DNS_CACHE_NUM /\ num \in Nat
      /\ list \in Seq(Objects) /\ IsInjective(list) /\ Len(list) = num + 1
      /\ ToSet(list) = ToSet(old_list) \cup {o}
      /\ Tail(list) \in Seq(Objects) /\ IsInjective(Tail(list)) /\ Len(Tail(list)) = num
      /\ ToSet(Tail(list)) = ToSet(list) \ {oldest}
      /\ oldest \in ToSet(list)
      /\ full => oldest # o
  <2> HIDE DEF others, num, list, found
  <2>1. others = Others(o) /\ num = OthersNum(o) /\ list = WithYoungest(o)
    BY DEF others, num, list, Others, OthersNum, WithYoungest
  <2>2. domain[o].status \in {DOMAIN_QUERY1, DOMAIN_NEW_QUERY1}
    BY <1>2
  <2> QED
    BY ONLY DnsInv, o \in Objects, <1>3, <2>1, <2>2, SecondList
<1>6. /\ found = NULL => del = o
      /\ found # NULL /\ full /\ Evicted(oldest) => del = oldest
      /\ found # NULL /\ ~(full /\ Evicted(oldest)) => del = NULL
  <2> HIDE DEF found, full, oldest
  <2> QED
    OBVIOUS
<1> HIDE DEF found, qs, others, num, list, full, oldest, own, del
<1>7. \A x \in ToSet(old_list) : x \in Objects /\ x # NULL
  BY ElementsTyped, DnsAssumption DEF DnsInv, DomainsTyped
<1>8. /\ full => oldest \in ToSet(old_list) /\ oldest \in Objects /\ oldest # o
      /\ o # NULL
  BY <1>5, <1>7, DnsAssumption
<1>9. /\ del \in Objects \cup {NULL} /\ out \in Objects \cup {NULL} /\ out # o
      /\ out # NULL => out \in ToSet(old_list) /\ domain[out].status # DOMAIN_QUERY2
      /\ del # NULL => \/ del = o
                       \/ del \in ToSet(old_list) /\ domain[del].status = DOMAIN_QUERY2
      /\ del # o => found # NULL
  BY <1>6, <1>8 DEF Evicted
<1>10. /\ old_list' \in Seq(Objects) /\ IsInjective(old_list')
       /\ ToSet(old_list') = (ToSet(old_list) \cup {o}) \ {out, del}
       /\ domain_num' = Len(old_list') /\ domain_num' <= DNS_CACHE_NUM /\ domain_num' \in Nat
  <2>1. CASE found = NULL
    BY <1>2, <1>5, <1>6, <1>7, <2>1
  <2>2. CASE found # NULL /\ ~full
    <3>1. num + 1 <= DNS_CACHE_NUM
      BY <1>5, <2>2, DnsAssumption DEF full
    <3>2. del = NULL /\ out = NULL /\ old_list' = list /\ domain_num' = num + 1
      BY <1>2, <1>6, <2>2
    <3>3. ToSet(list) = (ToSet(old_list) \cup {o}) \ {out, del}
      BY <1>5, <1>7, <1>8, <3>2
    <3> QED
      BY <1>5, <3>1, <3>2, <3>3
  <2>3. CASE found # NULL /\ full
    <3>1. old_list' = Tail(list) /\ domain_num' = num
      BY <1>2, <2>3
    <3>2. \/ del = oldest /\ out = NULL
          \/ del = NULL /\ out = oldest
      BY <1>6, <2>3
    <3>3. ToSet(Tail(list)) = (ToSet(old_list) \cup {o}) \ {out, del}
      BY <1>5, <1>7, <1>8, <3>2
    <3> QED
      BY <1>5, <3>1, <3>3
  <2> QED
    BY <2>1, <2>2, <2>3
<1>11. /\ domain \in [Objects -> {Free} \cup Entries]
       /\ kept = [domain EXCEPT ![o] = Answered(domain[o], found)]
       /\ domain' = IF out # NULL THEN [kept EXCEPT ![out].status = @ - DOMAIN_QUERY2] ELSE kept
  <2>1. domain \in [Objects -> {Free} \cup Entries]
    BY DEF DnsInv, DomainsTyped
  <2>2. kept = [domain EXCEPT ![o] = Answered(domain[o], found)]
    BY <2>1 DEF Answered
  <2>3. out # NULL <=> found # NULL /\ full /\ ~Evicted(oldest)
    BY <1>7, <1>8
  <2>4. out # NULL => out = oldest
    OBVIOUS
  <2>5. domain' = IF found # NULL /\ full /\ ~Evicted(oldest)
                  THEN [kept EXCEPT ![oldest].status = @ - DOMAIN_QUERY2] ELSE kept
    BY <1>2
  <2> HIDE DEF out, kept
  <2>6. domain' = IF out # NULL THEN [kept EXCEPT ![out].status = @ - DOMAIN_QUERY2] ELSE kept
    BY ONLY <2>3, <2>4, <2>5
  <2> QED
    BY ONLY <2>1, <2>2, <2>6
<1> HIDE DEF out, kept
<1>12. PICK r : r = Answered(domain[o], found)
  OBVIOUS
<1>13. /\ r \in Entries /\ r.used /\ r.name = domain[o].name /\ r.status = DOMAIN_QUERY2
       /\ r.p_addrs = found /\ r.p_new_addrs = NULL /\ r.p_query_head = <<>>
  BY ONLY <1>3, <1>4, <1>12, AnsweredIs
<1>14. /\ kept \in [Objects -> {Free} \cup Entries]
       /\ kept[o] = r /\ \A x \in Objects : x # o => kept[x] = domain[x]
  BY <1>11, <1>12, <1>13
<1>15. /\ domain'[o] = r
       /\ \A x \in Objects : x # o /\ x # out => domain'[x] = domain[x]
       /\ out # NULL => domain'[out] = [domain[out] EXCEPT !.status = @ - DOMAIN_QUERY2]
       /\ domain' = [x \in Objects |-> domain'[x]]
  <2>1. CASE out = NULL
    BY <1>11, <1>14, <2>1
  <2>2. CASE out # NULL
    <3>1. out \in Objects /\ out # o
      BY <1>9, <2>2
    <3>2. domain' = [kept EXCEPT ![out].status = @ - DOMAIN_QUERY2]
      BY <1>11, <2>2
    <3> QED
      BY <1>14, <3>1, <3>2
  <2> QED
    BY <2>1, <2>2
<1>16. ASSUME out # NULL
       PROVE  /\ out \in Objects /\ domain[out].used /\ domain[out] \in Entries
              /\ domain[out].status \in {DOMAIN_NEW_QUERYING, DOMAIN_NEW_QUERY1}
              /\ domain'[out] \in Entries /\ domain'[out].used
              /\ domain'[out].name = domain[out].name
              /\ domain'[out].status = domain[out].status - DOMAIN_QUERY2
              /\ domain'[out].p_addrs = domain[out].p_addrs
              /\ domain'[out].p_new_addrs = domain[out].p_new_addrs
              /\ domain'[out].p_query_head = domain[out].p_query_head
  <2>1. out \in Objects /\ out \in ToSet(old_list) /\ domain[out].status # DOMAIN_QUERY2
    BY <1>9, <1>16
  <2>2. domain[out].used /\ domain[out].status >= DOMAIN_QUERY2
    BY <2>1 DEF DnsInv, Tables, OldListRight
  <2>3. domain[out] \in Entries
    BY <2>1, <2>2, InUse DEF DnsInv
  <2>4. domain[out].status \in {DOMAIN_NEW_QUERYING, DOMAIN_NEW_QUERY1}
    <3>1. domain[out].status \in Statuses
      BY <2>3 DEF Entries
    <3> QED
      BY <2>1, <2>2, <3>1, StatusNumbers
  <2>5. domain[out].status - DOMAIN_QUERY2 \in Statuses
    BY <2>4, StatusNumbers
  <2>6. domain'[out] = [domain[out] EXCEPT !.status = domain[out].status - DOMAIN_QUERY2]
    BY <1>15, <1>16
  <2>7. /\ domain'[out] \in Entries /\ domain'[out].used
        /\ domain'[out].name = domain[out].name
        /\ domain'[out].status = domain[out].status - DOMAIN_QUERY2
        /\ domain'[out].p_addrs = domain[out].p_addrs
        /\ domain'[out].p_new_addrs = domain[out].p_new_addrs
        /\ domain'[out].p_query_head = domain[out].p_query_head
    BY <2>3, <2>5, <2>6 DEF Entries
  <2> QED
    BY <2>1, <2>2, <2>3, <2>4, <2>7
<1>17. cb'.del = del /\ del \in Objects \cup {NULL} /\ dels' = {}
  BY <1>1, <1>2, <1>3, <1>9
<1>18. Tables'
  <2>1. out # NULL => /\ domain'[out] \in Entries /\ domain'[out].name = domain[out].name
                      /\ domain'[out].status = domain[out].status - DOMAIN_QUERY2
                      /\ domain'[out].p_new_addrs = domain[out].p_new_addrs
    BY <1>16
  <2>2. del # o => r.p_addrs # NULL
    BY <1>9, <1>13
  <2>3. table' = IF del = NULL THEN table ELSE hash_del(table, {del})
    BY <1>2
  <2> QED
    BY ONLY DnsInv, o \in Objects, <1>3, <1>9, <1>10, <1>13, <1>15, <1>17, <2>1, <2>2, <2>3,
            SecondTables
<1> DEFINE more == MergeRefs(own, o, a)
<1>19. /\ own \in [Addrs -> Int] /\ \A b \in Addrs : own[b] = ref_num[b] + One(a = b)
       /\ ref_num \in [Addrs -> Int]
  <2>1. ref_num \in [Addrs -> Int]
    BY DEF DnsInv, DomainsTyped
  <2>2. CASE a = NULL
    BY <2>1, <2>2, DnsAssumption DEF own, One
  <2>3. CASE a # NULL
    BY <2>1, <2>3 DEF own, One, Lists
  <2> QED
    BY <2>1, <2>2, <2>3
<1>20. /\ more \in [Addrs -> Int]
       /\ \A b \in Addrs : more[b] = own[b] + One(domain[o].p_new_addrs = NULL /\ a = b)
  <2>1. CASE domain[o].p_new_addrs = NULL
    BY <1>19, <2>1, RefIncIs DEF MergeRefs, One
  <2>2. CASE domain[o].p_new_addrs # NULL
    BY <1>19, <2>2 DEF MergeRefs, One
  <2> QED
    BY <2>1, <2>2
<1>21. /\ ref_num' \in [Addrs -> Int]
       /\ \A b \in Addrs : ref_num'[b] = more[b] + One(Queried(qs, found) = b)
  <2> HIDE DEF more
  <2>1. ref_num' = addrs_ref_inc(more, Queried(qs, found))
    BY <1>2 DEF more
  <2> QED
    BY <1>4, <1>20, <2>1, RefIncIs
<1> HIDE DEF more
<1>22. DomainsTyped'
  <2>1. \A x \in Objects : domain'[x] \in {Free} \cup Entries
    BY <1>11, <1>13, <1>15, <1>16
  <2>2. domain' \in [Objects -> {Free} \cup Entries]
    BY <1>15, <2>1
  <2>3. table' \in [Domains -> Objects \cup {NULL}]
    BY <1>2 DEF DnsInv, DomainsTyped, hash_del
  <2> QED
    BY <1>10, <1>21, <2>2, <2>3 DEF DomainsTyped
<1>23. TwoRequests' /\ asked' \in [Objects -> Nat]
  <2>1. Expected(domain'[o]) = Expected(domain[o]) - 1
    <3>1. domain[o].status \in {DOMAIN_QUERY1, DOMAIN_NEW_QUERY1}
      BY <1>2
    <3> QED
      BY ONLY <1>3, <1>13, <1>15, <3>1, StatusNumbers DEF Expected
  <2>2. ASSUME NEW x \in Objects, x # o PROVE Expected(domain'[x]) = Expected(domain[x])
    <3>1. CASE x = out
      <4>1. out # NULL
        BY <3>1, DnsAssumption
      <4> QED
        BY <1>16, <3>1, <4>1, StatusNumbers DEF Expected
    <3>2. CASE x # out
      BY <1>15, <2>2, <3>2
    <3> QED
      BY <3>1, <3>2
  <2> QED
    BY <1>1, <1>22, <2>1, <2>2, AnswerRequests
<1>24. AddrsCounted'
  <2> SUFFICES ASSUME NEW b \in Addrs PROVE ref_num'[b] = Holders(b)'
    BY DEF AddrsCounted
  <2>1. /\ Cardinality(OldHolders(b)') = Cardinality(OldHolders(b)) + One(domain'[o].p_addrs = b)
                                         - One(domain[o].p_addrs = b)
        /\ Cardinality(NewHolders(b)') = Cardinality(NewHolders(b)) + One(domain'[o].p_new_addrs = b)
                                         - One(domain[o].p_new_addrs = b)
    <3>1. domain'[o].used
      BY <1>13, <1>15
    <3>2. ASSUME NEW x \in Objects, x # o
          PROVE  /\ domain'[x].used = domain[x].used
                 /\ domain[x].used => /\ domain'[x].p_addrs = domain[x].p_addrs
                                      /\ domain'[x].p_new_addrs = domain[x].p_new_addrs
      <4>1. CASE x = out
        <5>1. out # NULL
          BY <4>1, DnsAssumption
        <5>2. domain'[out].used = TRUE /\ domain[out].used = TRUE
          BY <1>16, <5>1 DEF Entries
        <5> QED
          BY <1>16, <4>1, <5>1, <5>2
      <4>2. CASE x # out
        BY <1>15, <3>2, <4>2
      <4> QED
        BY <4>1, <4>2
    <3> QED
      BY ONLY <1>3, <3>1, <3>2, DomainChanges, o \in Objects
  <2>2. CallHolders(b)' = CallHolders(b)
    BY <1>1 DEF CallHolders
  <2>3. /\ Cardinality(OldHolders(b)) \in Nat /\ Cardinality(NewHolders(b)) \in Nat
        /\ Cardinality(CallHolders(b)) \in Nat
    BY CountedAreFinite
  <2>4. /\ ref_num'[b] = ref_num[b] + One(a = b) + One(domain[o].p_new_addrs = NULL /\ a = b)
                         + One(Queried(qs, found) = b)
        /\ ref_num[b] \in Int /\ ref_num[b] = Holders(b)
    <3>1. ref_num[b] \in Int /\ ref_num[b] = Holders(b)
      BY <1>19 DEF DnsInv, AddrsCounted
    <3> QED
      BY <1>19, <1>20, <1>21, <3>1
  <2>5. /\ Holders(b)' = Cardinality(OldHolders(b)') + Cardinality(NewHolders(b)')
                         + Cardinality(CallHolders(b))
                         + One(cb'.addrs = b) + One(cb'.old = b) + One(cb'.answer = b)
        /\ Holders(b) = Cardinality(OldHolders(b)) + Cardinality(NewHolders(b))
                         + Cardinality(CallHolders(b))
                         + One(cb.addrs = b) + One(cb.old = b) + One(cb.answer = b)
    <3>1. HoldersAre'
      BY HoldersAre, PTL
    <3> QED
      BY <2>2, <3>1, HoldersAre DEF HoldersAre
  <2>6. One(cb.addrs = b) = 0 /\ One(cb.old = b) = 0 /\ One(cb.answer = b) = 0
    BY <1>3, DnsAssumption DEF One, NoCb
  <2>7. /\ One(cb'.addrs = b) = One(Queried(qs, found) = b)
        /\ One(cb'.old = b) = One(domain[o].p_addrs = b) /\ One(cb'.answer = b) = One(a = b)
    BY <1>2
  <2>8. One(domain'[o].p_addrs = b) = One(found = b) /\ One(domain'[o].p_new_addrs = b) = 0
    BY <1>13, <1>15, DnsAssumption DEF One
  <2>9. One(found = b) = One(domain[o].p_new_addrs = b) + One(domain[o].p_new_addrs = NULL /\ a = b)
    BY DnsAssumption DEF found, Merged, One
  <2>10. /\ One(a = b) \in Int /\ One(domain[o].p_addrs = b) \in Int
         /\ One(domain[o].p_new_addrs = b) \in Int /\ One(Queried(qs, found) = b) \in Int
         /\ One(domain[o].p_new_addrs = NULL /\ a = b) \in Int
    BY DEF One
  <2> QED
    BY <2>1, <2>3, <2>4, <2>5, <2>6, <2>7, <2>8, <2>9, <2>10
<1>25. TaskTyped'
  <2>1. cb' \in [queries : Seq(Queries), addrs : Lists, old : Lists, answer : Lists,
                 del : Objects \cup {NULL}]
    BY <1>2, <1>4, <1>9
  <2> QED
    BY <1>1, <1>2, <1>3, <1>23, <2>1 DEF DnsInv, TaskTyped
<1>26. QueriesTyped'
  <2>1. status' \in [Queries -> {0, 1}]
    BY <1>2 DEF DnsInv, QueriesTyped
  <2> QED
    BY <1>1, <2>1 DEF DnsInv, QueriesTyped
<1>27. HeadTaken(o)
  <2>1. ASSUME NEW x \in Objects, x # o
        PROVE  /\ domain'[x].used <=> domain[x].used
               /\ domain[x].used => domain'[x].p_query_head = domain[x].p_query_head
    <3>1. CASE x = out
      <4>1. out # NULL
        BY <3>1, DnsAssumption
      <4> QED
        BY <1>16, <3>1, <4>1
    <3>2. CASE x # out
      BY <1>15, <2>1, <3>2
    <3> QED
      BY <3>1, <3>2
  <2> QED
    BY <1>13, <1>15, <2>1 DEF HeadTaken
<1> QED
  BY <1>18, <1>22, <1>23, <1>24, <1>25, <1>26, <1>27 DEF DnsInv

\* An answer of c-ares.
LEMMA AnswerStep ==
  ASSUME DnsInv, NEW o \in Objects, AresStep(o)
  PROVE  DnsInv'
<1>1. CASE AnswerFound(o)
  <2>1. new_addrs \in Addrs /\ ref_num[new_addrs] = 0 /\ domain_callback(o, new_addrs)
    BY <1>1, FreshAddrs DEF AnswerFound
  <2>2. new_addrs \in Lists
    BY <2>1 DEF Lists
  <2>3. FirstAnswer(o, new_addrs) \/ SecondAnswer(o, new_addrs)
    BY <2>1 DEF domain_callback
  <2> QED
    BY <2>1, <2>2, <2>3, FirstAnswerStep, SecondAnswerStep
<1>2. CASE AnswerNone(o)
  <2>1. domain_callback(o, NULL) /\ NULL \in Lists
    BY <1>2 DEF AnswerNone, Lists
  <2>2. FirstAnswer(o, NULL) \/ SecondAnswer(o, NULL)
    BY <2>1 DEF domain_callback
  <2> QED
    BY <2>1, <2>2, FirstAnswerStep, SecondAnswerStep
<1> QED
  BY <1>1, <1>2 DEF AresStep

-----------------------------------------------------------------------------
(* Domains are freed *)

\* The domains of a set that hold addresses a.
HoldersIn(G, a) == {o \in G : domain[o].p_addrs = a}

\* The domains that have left the table are freed: nobody has anything to do with
\* them any more, except that they hold addresses.
LEMMA Freed ==
  ASSUME DnsInv, NEW G \in SUBSET Objects, \A o \in Objects : o \in G <=> Gone(o),
         domain' = [o \in Objects |-> IF o \in G THEN Free ELSE domain[o]],
         UNCHANGED <<table, old_list, domain_num, call, aresVars, todo>>,
         ref_num' \in [Addrs -> Int], cb' = NoCb, dels' = {}
  PROVE  /\ DomainsTyped' /\ Tables' /\ TwoRequests'
         /\ \A a \in Addrs :
              /\ Cardinality(OldHolders(a)) =
                   Cardinality(OldHolders(a)') + Cardinality(HoldersIn(G, a))
              /\ NewHolders(a)' = NewHolders(a) /\ CallHolders(a)' = CallHolders(a)
<1>1. DomainsTyped'
  BY DEF DnsInv, DomainsTyped
<1>2. \A o \in Objects : domain'[o] = IF o \in G THEN Free ELSE domain[o]
  OBVIOUS
<1>3. ~Free.used
  BY DEF Free
<1>4. \A o \in Objects : ~Gone(o)'
  BY DnsAssumption DEF Gone, NoCb
<1>5. \A o \in G : domain[o].used /\ domain[o].status = DOMAIN_QUERY2 /\ o \in Objects
  BY DEF DnsInv, Tables, TableRight
<1>6. TableRight'
  <2>1. TableRight /\ \A d \in Domains : table[d] \in Objects \cup {NULL}
    BY DEF DnsInv, Tables, DomainsTyped
  <2>2. ASSUME NEW d \in Domains, table[d] # NULL
        PROVE  domain'[table[d]].used /\ domain'[table[d]].name = d
    <3>1. table[d] \in Objects /\ domain[table[d]].used /\ domain[table[d]].name = d
      BY <2>1, <2>2 DEF TableRight
    <3>2. ~Gone(table[d])
      BY <2>1, <3>1 DEF TableRight
    <3> QED
      BY <1>2, <3>1, <3>2
  <2>3. \A o \in Objects : domain'[o].used => table[domain'[o].name] = o
    BY <1>2, <1>3, <2>1 DEF TableRight
  <2> QED
    BY <1>4, <2>2, <2>3 DEF TableRight
<1>7. OldListRight'
  <2>1. \A o \in Objects : o \in ToSet(old_list) <=>
          domain'[o].used /\ ~Gone(o)' /\ domain'[o].status >= DOMAIN_QUERY2
    BY <1>2, <1>3, <1>4 DEF DnsInv, Tables, OldListRight
  <2>2. \A o \in ToSet(old_list) : o \in Objects /\ o \notin G
    BY ElementsTyped DEF DnsInv, Tables, OldListRight, DomainsTyped
  <2>3. \A o \in ToSet(old_list) : domain'[o].p_addrs # NULL
    BY <1>2, <2>2 DEF DnsInv, Tables, OldListRight
  <2> QED
    BY <2>1, <2>3 DEF DnsInv, Tables, OldListRight
<1>8. FieldsRight'
  BY <1>2, <1>3 DEF DnsInv, Tables, FieldsRight
<1>9. TwoRequests'
  <2>1. \A o \in Objects : Expected(domain[o])' = Expected(domain[o])
    <3> TAKE o \in Objects
    <3>1. CASE o \in G
      BY <1>2, <1>3, <1>5, <3>1, StatusNumbers DEF Expected
    <3>2. CASE o \notin G
      BY <1>2, <3>2
    <3> QED
      BY <3>1, <3>2
  <2>2. \A o \in Objects : Callers(o)' = Callers(o)
    BY DEF Callers
  <2> QED
    BY <1>1, <2>1, <2>2, RequestsSame DEF DnsInv, aresVars
<1>10. ASSUME NEW a \in Addrs
       PROVE  /\ Cardinality(OldHolders(a)) =
                   Cardinality(OldHolders(a)') + Cardinality(HoldersIn(G, a))
              /\ NewHolders(a)' = NewHolders(a) /\ CallHolders(a)' = CallHolders(a)
  <2> DEFINE H == HoldersIn(G, a)
  <2>1. OldHolders(a)' \cup H = OldHolders(a) /\ OldHolders(a)' \cap H = {}
    BY <1>2, <1>3, <1>5 DEF OldHolders, Live, HoldersIn
  <2> HIDE DEF H
  <2>2. IsFiniteSet(OldHolders(a)') /\ IsFiniteSet(H)
    <3>1. OldHolders(a)' \subseteq OldHolders(a) /\ H \subseteq OldHolders(a)
      BY <2>1
    <3> QED
      BY <3>1, CountedAreFinite, FS_Subset
  <2>3. Cardinality(OldHolders(a)') \in Nat /\ Cardinality(H) \in Nat
    BY <2>2, FS_CardinalityType
  <2>4. Cardinality(OldHolders(a)' \cup H) =
          Cardinality(OldHolders(a)') + Cardinality(H) - Cardinality(OldHolders(a)' \cap H)
    BY <2>2, FS_Union
  <2>5. Cardinality(OldHolders(a)) = Cardinality(OldHolders(a)') + Cardinality(H)
    <3>1. Cardinality(OldHolders(a)' \cap H) = 0
      BY <2>1, FS_EmptySet
    <3>2. Cardinality(OldHolders(a)' \cup H) = Cardinality(OldHolders(a))
      BY ONLY <2>1
    <3> QED
      BY ONLY <2>3, <2>4, <3>1, <3>2
  <2>6. \A o \in G : domain[o].p_new_addrs # a
    BY <1>5, StatusNumbers, DnsAssumption DEF DnsInv, Tables, FieldsRight
  <2>7. NewHolders(a)' = NewHolders(a)
    BY <1>2, <1>3, <2>6 DEF NewHolders, Live
  <2>8. CallHolders(a)' = CallHolders(a)
    BY DEF CallHolders
  <2> QED
    BY <2>5, <2>7, <2>8 DEF H
<1> QED
  BY <1>1, <1>6, <1>7, <1>8, <1>9, <1>10 DEF Tables

\* The holders before and after domains are freed.
LEMMA FreedCounts ==
  ASSUME DnsInv, NEW b \in Addrs, NEW n \in Int,
         Cardinality(OldHolders(b)) = Cardinality(OldHolders(b)') + n,
         NewHolders(b)' = NewHolders(b), CallHolders(b)' = CallHolders(b), cb' = NoCb,
         ref_num'[b] = ref_num[b] - One(cb.addrs = b) - One(cb.old = b) - One(cb.answer = b) - n
  PROVE  ref_num'[b] = Holders(b)'
<1>1. HoldersAre' /\ CountedAreFinite'
  BY HoldersAre, CountedAreFinite, PTL
<1>2. Holders(b)' = Cardinality(OldHolders(b)') + Cardinality(NewHolders(b)')
                    + Cardinality(CallHolders(b)')
                    + One(cb'.addrs = b) + One(cb'.old = b) + One(cb'.answer = b)
  BY <1>1 DEF HoldersAre
<1>3. Holders(b) = Cardinality(OldHolders(b)) + Cardinality(NewHolders(b))
                   + Cardinality(CallHolders(b))
                   + One(cb.addrs = b) + One(cb.old = b) + One(cb.answer = b)
  BY HoldersAre
<1>4. One(cb'.addrs = b) = 0 /\ One(cb'.old = b) = 0 /\ One(cb'.answer = b) = 0
  BY DnsAssumption DEF One, NoCb
<1>5. ref_num[b] = Holders(b)
  BY DEF DnsInv, AddrsCounted
<1>6. /\ Cardinality(OldHolders(b)) \in Nat /\ Cardinality(NewHolders(b)) \in Nat
      /\ Cardinality(CallHolders(b)) \in Nat /\ Cardinality(OldHolders(b)') \in Nat
  BY <1>1, CountedAreFinite DEF CountedAreFinite
<1>7. One(cb.addrs = b) \in Int /\ One(cb.old = b) \in Int /\ One(cb.answer = b) \in Int
  BY DEF One
<1> QED
  BY <1>2, <1>3, <1>4, <1>5, <1>6, <1>7

\* The domains that expired are freed.
LEMMA FreeDelsStep ==
  ASSUME DnsInv, FreeDels
  PROVE  DnsInv'
<1>1. /\ task = "free" /\ ref_num' = DropAll(ref_num, dels)
      /\ domain' = [o \in Objects |-> IF o \in dels THEN Free ELSE domain[o]]
      /\ dels' = {} /\ task' = "wait"
      /\ UNCHANGED <<queryVars, table, old_list, domain_num, aresVars, p_list, todo, cb>>
  BY DEF FreeDels
<1>2. cb = NoCb /\ cb' = NoCb /\ todo = <<>> /\ p_list = NULL /\ dels \in SUBSET Objects
  BY <1>1 DEF DnsInv, TaskTyped
<1>3. \A o \in Objects : o \in dels <=> Gone(o)
  BY <1>2, DnsAssumption DEF Gone, NoCb
<1>4. IsFiniteSet(dels)
  BY <1>2, DnsAssumption, FS_Subset
<1>5. \A a : Cardinality(HoldersIn(dels, a)) \in Nat
  <2> TAKE a
  <2>1. HoldersIn(dels, a) \subseteq dels
    BY DEF HoldersIn
  <2> QED
    BY <1>4, <2>1, FS_Subset, FS_CardinalityType
<1>6. /\ ref_num \in [Addrs -> Int] /\ ref_num' \in [Addrs -> Int]
      /\ \A a \in Addrs : ref_num'[a] = ref_num[a] - Cardinality(HoldersIn(dels, a))
  <2>1. ref_num \in [Addrs -> Int]
    BY DEF DnsInv, DomainsTyped
  <2>2. DropAll(ref_num, dels) = [a \in Addrs |-> ref_num[a] - Cardinality(HoldersIn(dels, a))]
    BY DEF DropAll, HoldersIn
  <2> QED
    BY <1>1, <1>5, <2>1, <2>2
<1>7. /\ DomainsTyped' /\ Tables' /\ TwoRequests'
      /\ \A a \in Addrs :
           /\ Cardinality(OldHolders(a)) =
                Cardinality(OldHolders(a)') + Cardinality(HoldersIn(dels, a))
           /\ NewHolders(a)' = NewHolders(a) /\ CallHolders(a)' = CallHolders(a)
  BY <1>1, <1>2, <1>3, <1>6, Freed DEF queryVars
<1>8. AddrsCounted'
  <2> SUFFICES ASSUME NEW b \in Addrs PROVE ref_num'[b] = Holders(b)'
    BY DEF AddrsCounted
  <2> DEFINE n == Cardinality(HoldersIn(dels, b))
  <2>1. One(cb.addrs = b) = 0 /\ One(cb.old = b) = 0 /\ One(cb.answer = b) = 0
    BY <1>2, DnsAssumption DEF One, NoCb
  <2>2. n \in Int /\ ref_num[b] \in Int
    BY <1>5, <1>6
  <2>3. /\ Cardinality(OldHolders(b)) = Cardinality(OldHolders(b)') + n
        /\ NewHolders(b)' = NewHolders(b) /\ CallHolders(b)' = CallHolders(b)
    BY <1>7
  <2>4. ref_num'[b] = ref_num[b] - n
    BY <1>6
  <2> HIDE DEF n
  <2>5. ref_num'[b] = ref_num[b] - One(cb.addrs = b) - One(cb.old = b) - One(cb.answer = b) - n
    BY <2>1, <2>2, <2>4
  <2> QED
    BY ONLY DnsInv, b \in Addrs, <1>2, <2>2, <2>3, <2>5, FreedCounts
<1>9. TaskTyped' /\ QueriesTyped'
  BY <1>1, <1>2 DEF DnsInv, TaskTyped, QueriesTyped, aresVars, queryVars
<1> QED
  BY <1>7, <1>8, <1>9 DEF DnsInv

\* The end of a callback.
LEMMA CallbackEndStep ==
  ASSUME DnsInv, CallbackEnd
  PROVE  DnsInv'
<1> DEFINE r1 == addrs_ref_dec(ref_num, cb.addrs)
           r2 == addrs_ref_dec(r1, cb.old)
           r3 == addrs_ref_dec(r2, cb.answer)
           G == {o \in Objects : o = cb.del}
<1>1. /\ task = "notice"
      /\ ref_num' = IF cb.del = NULL THEN r3 ELSE addrs_ref_dec(r3, domain[cb.del].p_addrs)
      /\ domain' = IF cb.del = NULL THEN domain ELSE [domain EXCEPT ![cb.del] = Free]
      /\ cb' = NoCb /\ task' = IF p_list = NULL THEN "wait" ELSE "add"
      /\ UNCHANGED <<queryVars, table, old_list, domain_num, aresVars, p_list, todo, dels>>
  BY DEF CallbackEnd
<1>2. /\ dels = {} /\ dels' = {}
      /\ cb.addrs \in Lists /\ cb.old \in Lists /\ cb.answer \in Lists
      /\ cb.del \in Objects \cup {NULL}
  BY <1>1 DEF DnsInv, TaskTyped
<1>3. \A o \in Objects : o \in G <=> Gone(o)
  BY <1>2 DEF Gone
<1>4. /\ ref_num \in [Addrs -> Int] /\ domain \in [Objects -> {Free} \cup Entries]
  BY DEF DnsInv, DomainsTyped
<1>5. domain' = [o \in Objects |-> IF o \in G THEN Free ELSE domain[o]]
  <2>1. CASE cb.del = NULL
    BY <1>1, <1>4, <2>1, DnsAssumption
  <2>2. CASE cb.del # NULL
    BY <1>1, <1>2, <1>4, <2>2
  <2> QED
    BY <2>1, <2>2
<1>6. r1 \in [Addrs -> Int] /\ \A a \in Addrs : r1[a] = ref_num[a] - One(cb.addrs = a)
  BY <1>2, <1>4, RefIncIs
<1>7. r2 \in [Addrs -> Int] /\ \A a \in Addrs : r2[a] = r1[a] - One(cb.old = a)
  <2> HIDE DEF r1
  <2> QED
    BY <1>2, <1>6, RefIncIs
<1>8. r3 \in [Addrs -> Int] /\ \A a \in Addrs : r3[a] = r2[a] - One(cb.answer = a)
  <2> HIDE DEF r2
  <2> QED
    BY <1>2, <1>7, RefIncIs
<1> HIDE DEF r1, r2, r3
<1>9. cb.del # NULL => /\ cb.del \in Objects /\ domain[cb.del].used
                       /\ domain[cb.del].p_addrs \in Lists
  <2> HAVE cb.del # NULL
  <2>1. cb.del \in Objects
    BY <1>2
  <2>2. domain[cb.del].used
    BY <2>1 DEF DnsInv, Tables, TableRight, Gone
  <2>3. domain[cb.del] \in Entries
    BY <2>1, <2>2, InUse DEF DnsInv
  <2> QED
    BY <2>1, <2>2, <2>3 DEF Entries
<1>10. /\ ref_num' \in [Addrs -> Int]
       /\ \A a \in Addrs :
            ref_num'[a] = r3[a] - One(cb.del # NULL /\ domain[cb.del].p_addrs = a)
  <2>1. CASE cb.del = NULL
    BY <1>1, <1>8, <2>1 DEF One
  <2>2. CASE cb.del # NULL
    BY <1>1, <1>8, <1>9, <2>2, RefIncIs DEF One
  <2> QED
    BY <2>1, <2>2
<1>11. G \in SUBSET Objects
  OBVIOUS
<1>12. \A a : Cardinality(HoldersIn(G, a)) =
                One(cb.del # NULL /\ domain[cb.del].p_addrs = a)
  <2> TAKE a
  <2>1. CASE cb.del # NULL /\ domain[cb.del].p_addrs = a
    <3>1. HoldersIn(G, a) = {cb.del}
      BY <1>9, <2>1 DEF HoldersIn
    <3> QED
      BY <2>1, <3>1, FS_Singleton DEF One
  <2>2. CASE ~(cb.del # NULL /\ domain[cb.del].p_addrs = a)
    <3>1. HoldersIn(G, a) = {}
      BY <2>2, DnsAssumption DEF HoldersIn
    <3> QED
      BY <2>2, <3>1, FS_EmptySet DEF One
  <2> QED
    BY <2>1, <2>2
<1> HIDE DEF G
<1>13. /\ DomainsTyped' /\ Tables' /\ TwoRequests'
       /\ \A a \in Addrs :
            /\ Cardinality(OldHolders(a)) =
                 Cardinality(OldHolders(a)') + Cardinality(HoldersIn(G, a))
            /\ NewHolders(a)' = NewHolders(a) /\ CallHolders(a)' = CallHolders(a)
  BY <1>1, <1>2, <1>3, <1>5, <1>10, <1>11, Freed DEF queryVars
<1>14. AddrsCounted'
  <2> SUFFICES ASSUME NEW b \in Addrs PROVE ref_num'[b] = Holders(b)'
    BY DEF AddrsCounted
  <2> DEFINE n == One(cb.del # NULL /\ domain[cb.del].p_addrs = b)
  <2>1. n \in Int /\ ref_num[b] \in Int
    BY <1>4 DEF One
  <2>2. /\ Cardinality(OldHolders(b)) = Cardinality(OldHolders(b)') + n
        /\ NewHolders(b)' = NewHolders(b) /\ CallHolders(b)' = CallHolders(b)
    BY <1>12, <1>13
  <2>3. ref_num'[b] = ref_num[b] - One(cb.addrs = b) - One(cb.old = b) - One(cb.answer = b) - n
    BY <1>6, <1>7, <1>8, <1>10
  <2> HIDE DEF n
  <2> QED
    BY ONLY DnsInv, b \in Addrs, <1>1, <2>1, <2>2, <2>3, FreedCounts
<1>15. TaskTyped'
  <2>1. NoCb \in [queries : Seq(Queries), addrs : Lists, old : Lists, answer : Lists,
                  del : Objects \cup {NULL}]
    BY DEF NoCb, Lists
  <2> QED
    BY <1>1, <1>2, <2>1 DEF DnsInv, TaskTyped, aresVars
<1>16. QueriesTyped'
  BY <1>1 DEF DnsInv, QueriesTyped, queryVars
<1> QED
  BY <1>13, <1>14, <1>15, <1>16 DEF DnsInv

\* The oldest domains expire.
LEMMA ExpireStep ==
  ASSUME DnsInv, NEW k \in 0 .. Len(old_list), Expire(k)
  PROVE  DnsInv'
<1> DEFINE old == SubSeq(old_list, 1, k)
           rest == SubSeq(old_list, k + 1, Len(old_list))
           G == FreeOld(old)
           E == ToSet(old)
<1>1. /\ task = "add" /\ todo = <<>> /\ p_list = NULL
      /\ old_list' = rest /\ domain_num' = domain_num - k
      /\ dels' = G /\ table' = hash_del(table, G)
      /\ domain' = [o \in Objects |->
           IF o \in E \ G THEN [domain[o] EXCEPT !.status = @ - DOMAIN_QUERY2] ELSE domain[o]]
      /\ task' = IF G = {} THEN "wait" ELSE "free"
      /\ UNCHANGED <<queryVars, ref_num, aresVars, p_list, todo, cb>>
  BY DEF Expire
<1>2. /\ old_list \in Seq(Objects) /\ IsInjective(old_list) /\ domain_num = Len(old_list)
      /\ domain_num \in Nat /\ domain_num <= DNS_CACHE_NUM
  BY DEF DnsInv, DomainsTyped, Tables, OldListRight
<1>3. /\ old \in Seq(Objects) /\ rest \in Seq(Objects) /\ Len(rest) = Len(old_list) - k
      /\ IsInjective(rest)
      /\ E \cap ToSet(rest) = {} /\ E \cup ToSet(rest) = ToSet(old_list)
  BY <1>2, SplitList
<1>4. G = {o \in E : domain[o].status = DOMAIN_QUERY2}
  BY DEF FreeOld
<1> HIDE DEF old, rest, G, E
<1>5. cb = NoCb /\ cb' = NoCb /\ dels = {}
  BY <1>1 DEF DnsInv, TaskTyped
<1>6. \A o \in Objects : ~Gone(o) /\ (Gone(o)' <=> o \in G)
  BY <1>1, <1>5, DnsAssumption DEF Gone, NoCb
<1>7. \A o \in E : /\ o \in Objects /\ o \in ToSet(old_list) /\ domain[o].used
                   /\ domain[o].status >= DOMAIN_QUERY2 /\ domain[o] \in Entries
  <2> TAKE o \in E
  <2>1. o \in ToSet(old_list) /\ o \in Objects
    BY <1>2, <1>3, ElementsTyped
  <2>2. domain[o].used /\ domain[o].status >= DOMAIN_QUERY2
    BY <2>1 DEF DnsInv, Tables, OldListRight
  <2> QED
    BY <2>1, <2>2, InUse DEF DnsInv
<1>8. \A o \in Objects : o \notin E \ G => domain'[o] = domain[o]
  BY <1>1
<1>9. ASSUME NEW o \in E \ G
      PROVE  /\ o \in Objects
             /\ domain[o].status \in {DOMAIN_NEW_QUERYING, DOMAIN_NEW_QUERY1}
             /\ domain'[o] \in Entries /\ domain'[o].used /\ domain[o].used
             /\ domain'[o].name = domain[o].name
             /\ domain'[o].status = domain[o].status - DOMAIN_QUERY2
             /\ domain'[o].p_addrs = domain[o].p_addrs
             /\ domain'[o].p_new_addrs = domain[o].p_new_addrs
             /\ domain'[o].p_query_head = domain[o].p_query_head
  <2>1. o \in Objects /\ domain[o] \in Entries /\ domain[o].status >= DOMAIN_QUERY2
        /\ domain[o].status # DOMAIN_QUERY2 /\ domain[o].used
    BY <1>4, <1>7
  <2>2. domain[o].status \in {DOMAIN_NEW_QUERYING, DOMAIN_NEW_QUERY1}
    <3>1. domain[o].status \in Statuses
      BY <2>1 DEF Entries
    <3> QED
      BY <2>1, <3>1, StatusNumbers
  <2>3. domain[o].status - DOMAIN_QUERY2 \in Statuses
    BY <2>2, StatusNumbers
  <2>4. domain'[o] = [domain[o] EXCEPT !.status = domain[o].status - DOMAIN_QUERY2]
    BY <1>1, <2>1
  <2>5. /\ domain'[o] \in Entries /\ domain'[o].used
        /\ domain'[o].name = domain[o].name
        /\ domain'[o].status = domain[o].status - DOMAIN_QUERY2
        /\ domain'[o].p_addrs = domain[o].p_addrs
        /\ domain'[o].p_new_addrs = domain[o].p_new_addrs
        /\ domain'[o].p_query_head = domain[o].p_query_head
    BY <2>1, <2>3, <2>4 DEF Entries
  <2> QED
    BY <2>1, <2>2, <2>5
<1>10. /\ G \in SUBSET Objects
       /\ \A o \in G : o \in E /\ domain'[o] = domain[o] /\ domain[o].status = DOMAIN_QUERY2
  BY <1>4, <1>7, <1>8
<1>11. DomainsTyped'
  <2>1. \A o \in Objects : domain'[o] \in {Free} \cup Entries
    BY <1>8, <1>9 DEF DnsInv, DomainsTyped
  <2>2. domain' = [o \in Objects |-> domain'[o]]
    BY <1>1
  <2>3. domain' \in [Objects -> {Free} \cup Entries]
    BY <2>1, <2>2
  <2>4. table' \in [Domains -> Objects \cup {NULL}]
    BY <1>1 DEF DnsInv, DomainsTyped, hash_del
  <2>5. domain_num' \in Nat /\ old_list' \in Seq(Objects)
    BY <1>1, <1>2, <1>3
  <2> QED
    BY <1>1, <2>3, <2>4, <2>5 DEF DnsInv, DomainsTyped
<1>12. \A o \in Objects : /\ domain'[o].used <=> domain[o].used
                          /\ domain[o].used => /\ domain'[o].name = domain[o].name
                                               /\ domain'[o].p_addrs = domain[o].p_addrs
                                               /\ domain'[o].p_new_addrs = domain[o].p_new_addrs
                                               /\ domain'[o].p_query_head = domain[o].p_query_head
  <2> TAKE o \in Objects
  <2>1. CASE o \in E \ G
    BY <1>9, <2>1
  <2>2. CASE o \notin E \ G
    BY <1>8, <2>2
  <2> QED
    BY <2>1, <2>2
<1>13. TableRight'
  <2>1. /\ TableRight /\ table \in [Domains -> Objects \cup {NULL}]
        /\ \A d \in Domains : table'[d] = IF table[d] \in G THEN NULL ELSE table[d]
    BY <1>1 DEF DnsInv, DomainsTyped, Tables, hash_del
  <2>2. ASSUME NEW d \in Domains, table'[d] # NULL
        PROVE  domain'[table'[d]].used /\ domain'[table'[d]].name = d
    <3>1. table'[d] = table[d] /\ table[d] # NULL /\ table[d] \in Objects
      BY <2>1, <2>2
    <3>2. domain[table[d]].used /\ domain[table[d]].name = d
      BY <2>1, <3>1 DEF TableRight
    <3> QED
      BY <1>12, <3>1, <3>2
  <2>3. ASSUME NEW o \in Objects, domain'[o].used
        PROVE  o \in G <=> table'[domain'[o].name] # o
    <3>1. domain[o].used /\ domain'[o].name = domain[o].name
      BY <1>12, <2>3
    <3>2. domain[o].name \in Domains
      BY <3>1, InUse DEF DnsInv, Entries
    <3>3. table[domain[o].name] = o
      BY <1>6, <2>1, <3>1 DEF TableRight
    <3>4. /\ o \in G => table'[domain[o].name] = NULL
          /\ o \notin G => table'[domain[o].name] = o
      BY ONLY <2>1, <3>2, <3>3
    <3>5. o # NULL
      BY DnsAssumption
    <3> QED
      BY <3>1, <3>4, <3>5
  <2>4. \A o \in Objects : o \in G => domain'[o].used /\ domain'[o].status = DOMAIN_QUERY2
    BY <1>7, <1>10
  <2> QED
    BY <1>6, <2>2, <2>3, <2>4 DEF TableRight
<1>14. OldListRight'
  <2>1. ASSUME NEW o \in Objects
        PROVE  o \in ToSet(rest) <=>
                 domain'[o].used /\ o \notin G /\ domain'[o].status >= DOMAIN_QUERY2
    <3>1. o \in ToSet(old_list) <=> domain[o].used /\ domain[o].status >= DOMAIN_QUERY2
      BY <1>6 DEF DnsInv, Tables, OldListRight
    <3>2. CASE o \in E \ G
      BY <1>3, <1>9, <3>2, StatusNumbers
    <3>3. CASE o \in G
      BY <1>3, <1>10, <3>3
    <3>4. CASE o \notin E
      BY <1>3, <1>8, <1>10, <3>1, <3>4
    <3> QED
      BY <3>2, <3>3, <3>4
  <2>2. \A o \in ToSet(rest) : domain'[o].p_addrs # NULL
    <3> TAKE o \in ToSet(rest)
    <3>1. o \in ToSet(old_list) /\ o \in Objects /\ o \notin E
      BY <1>2, <1>3, ElementsTyped
    <3> QED
      BY <1>8, <3>1 DEF DnsInv, Tables, OldListRight
  <2>3. domain_num' = Len(rest) /\ domain_num' <= DNS_CACHE_NUM
    BY <1>1, <1>2, <1>3, DnsAssumption
  <2> QED
    BY <1>1, <1>3, <1>6, <2>1, <2>2, <2>3 DEF OldListRight
<1>15. FieldsRight'
  <2> SUFFICES ASSUME NEW o \in Objects, domain'[o].used
               PROVE  /\ domain'[o].status \notin {DOMAIN_QUERY1, DOMAIN_NEW_QUERY1} =>
                           domain'[o].p_new_addrs = NULL
                      /\ domain'[o].status = DOMAIN_QUERY2 => domain'[o].p_query_head = <<>>
    BY DEF FieldsRight
  <2>1. CASE o \in E \ G
    BY <1>9, <2>1, StatusNumbers DEF DnsInv, Tables, FieldsRight
  <2>2. CASE o \notin E \ G
    BY <1>8, <2>2 DEF DnsInv, Tables, FieldsRight
  <2> QED
    BY <2>1, <2>2
<1>16. TwoRequests'
  <2>1. ASSUME NEW o \in Objects PROVE Expected(domain[o])' = Expected(domain[o])
    <3>1. CASE o \in E \ G
      BY <1>9, <3>1, StatusNumbers DEF Expected
    <3>2. CASE o \notin E \ G
      BY <1>8, <3>2
    <3> QED
      BY <3>1, <3>2
  <2>2. \A o \in Objects : Callers(o)' = Callers(o)
    BY <1>1 DEF Callers, queryVars
  <2> QED
    BY <1>1, <1>11, <2>1, <2>2, RequestsSame DEF DnsInv, aresVars
<1>17. AddrsCounted'
  <2>1. \A a : /\ OldHolders(a)' = OldHolders(a) /\ NewHolders(a)' = NewHolders(a)
               /\ CallHolders(a)' = CallHolders(a)
    BY <1>1, <1>12 DEF OldHolders, NewHolders, CallHolders, Live, queryVars
  <2>2. HoldersAre'
    BY HoldersAre, PTL
  <2>3. \A a : Holders(a)' = Holders(a)
    BY <1>1, <2>1, <2>2, HoldersAre DEF HoldersAre
  <2> QED
    BY <1>1, <2>3 DEF DnsInv, AddrsCounted
<1>18. TaskTyped'
  <2>1. task' # "free" => dels' = {}
    BY <1>1
  <2>2. task' # "add" /\ task' # "notice"
    BY <1>1
  <2> QED
    BY <1>1, <1>5, <1>10, <2>1, <2>2 DEF DnsInv, TaskTyped, aresVars
<1>19. QueriesTyped'
  BY <1>1 DEF DnsInv, QueriesTyped, queryVars
<1> QED
  BY <1>11, <1>13, <1>14, <1>15, <1>16, <1>17, <1>18, <1>19 DEF DnsInv, Tables

-----------------------------------------------------------------------------
(* The cache is right *)

\* The cache of get_dnsinstance, and one that an earlier query has filled.
LEMMA InitRight == Init => DnsInv
<1> SUFFICES ASSUME Init PROVE DnsInv
  OBVIOUS
<1>1. /\ p_add_cares = <<>> /\ asked = [o \in Objects |-> 0]
      /\ call = [q \in Queries |-> NoCall] /\ status = [q \in Queries |-> 0]
      /\ p_domain = [q \in Queries |-> NULL] /\ inited = [q \in Queries |-> FALSE]
      /\ refs = [q \in Queries |-> 1] /\ cancel = [q \in Queries |-> "no"]
      /\ task = "wait" /\ p_list = NULL /\ todo = <<>> /\ cb = NoCb /\ dels = {}
  BY DEF Init
<1>2. TaskTyped
  <2>1. NoCb \in [queries : Seq(Queries), addrs : Lists, old : Lists, answer : Lists,
                  del : Objects \cup {NULL}]
    BY DEF NoCb, Lists
  <2> QED
    BY <1>1, <2>1 DEF TaskTyped
<1>3. QueriesTyped
  BY <1>1 DEF QueriesTyped, NoCall
<1>4. \A o : ~Gone(o) \/ o = NULL
  BY <1>1 DEF Gone, NoCb
<1>5. \A o \in Objects : Pending(o) = 0
  <2> TAKE o \in Objects
  <2>1. Callers(o) = {}
    BY <1>1 DEF Callers
  <2>2. Cardinality(Callers(o)) = 0 /\ asked[o] = 0
    BY <1>1, <2>1, FS_EmptySet
  <2>3. Times(p_add_cares, o) = 0 /\ Times(todo, o) = 0
    BY <1>1, TimesEmpty
  <2> QED
    BY <2>2, <2>3, PendingIs
<1>6. \A a \in Addrs : /\ Cardinality(CallHolders(a)) = 0
                       /\ One(cb.addrs = a) = 0 /\ One(cb.old = a) = 0 /\ One(cb.answer = a) = 0
  <2> TAKE a \in Addrs
  <2>1. CallHolders(a) = {}
    BY <1>1 DEF CallHolders
  <2> QED
    BY <1>1, <2>1, FS_EmptySet, DnsAssumption DEF One, NoCb
<1>7. CASE EmptyCache
  <2>1. /\ domain = [o \in Objects |-> Free] /\ table = [d \in Domains |-> NULL]
        /\ old_list = <<>> /\ domain_num = 0 /\ ref_num = [a \in Addrs |-> 0] /\ ~Free.used
    BY <1>7 DEF EmptyCache, Free
  <2>2. DomainsTyped
    BY <2>1 DEF DomainsTyped
  <2>3. TableRight
    BY <1>4, <2>1, DnsAssumption DEF TableRight
  <2>4. OldListRight
    <3>1. Len(<<>>) = 0 /\ 0 <= DNS_CACHE_NUM
      BY DnsAssumption
    <3> QED
      BY <2>1, <3>1, EmptyList DEF OldListRight
  <2>5. FieldsRight
    BY <2>1 DEF FieldsRight
  <2>6. TwoRequests
    BY <1>5, <2>1, <2>2, RequestsAre DEF Expected
  <2>7. AddrsCounted
    <3> SUFFICES ASSUME NEW a \in Addrs PROVE ref_num[a] = Holders(a)
      BY DEF AddrsCounted
    <3>1. OldHolders(a) = {} /\ NewHolders(a) = {}
      BY <2>1 DEF OldHolders, NewHolders, Live
    <3>2. Cardinality(OldHolders(a)) = 0 /\ Cardinality(NewHolders(a)) = 0
      BY <3>1, FS_EmptySet
    <3> QED
      BY <1>6, <2>1, <3>2, HoldersAre
  <2> QED
    BY <1>2, <1>3, <2>2, <2>3, <2>4, <2>5, <2>6, <2>7 DEF DnsInv, Tables
<1>8. ASSUME NEW d \in Domains, FilledCache(d) PROVE DnsInv
  <2> DEFINE o == CHOOSE x \in Objects : TRUE
             a == CHOOSE x \in Addrs : TRUE
             r == [used |-> TRUE, name |-> d, status |-> DOMAIN_QUERY2, p_addrs |-> a,
                   p_new_addrs |-> NULL, p_query_head |-> <<>>]
  <2>1. /\ Objects # {} /\ Addrs # {}
        /\ domain = [x \in Objects |-> IF x # o THEN Free ELSE r]
        /\ table = [x \in Domains |-> IF x = d THEN o ELSE NULL]
        /\ old_list = <<o>> /\ domain_num = 1
        /\ ref_num = [x \in Addrs |-> IF x = a THEN 1 ELSE 0]
    BY <1>8 DEF FilledCache
  <2>2. o \in Objects /\ a \in Addrs
    BY <2>1
  <2> HIDE DEF o, a
  <2>3. /\ r \in Entries /\ r.used /\ r.name = d /\ r.status = DOMAIN_QUERY2 /\ r.p_addrs = a
        /\ r.p_new_addrs = NULL /\ r.p_query_head = <<>> /\ ~Free.used
    BY <2>2, StatusNumbers DEF Entries, Lists, Free
  <2> HIDE DEF r
  <2>4. \A x \in Objects : domain[x] = IF x # o THEN Free ELSE r
    BY <2>1
  <2>5. DomainsTyped
    BY <2>1, <2>2, <2>3 DEF DomainsTyped
  <2>6. a # NULL /\ o # NULL /\ \A x \in Objects : ~Gone(x)
    BY <1>4, <2>2, DnsAssumption
  <2>7. TableRight
    <3>1. \A x \in Domains : table[x] # NULL => domain[table[x]].used /\ domain[table[x]].name = x
      BY <2>1, <2>2, <2>3, <2>4
    <3>2. \A x \in Objects : domain[x].used => table[domain[x].name] = x
      BY <2>1, <2>3, <2>4
    <3> QED
      BY <2>6, <3>1, <3>2 DEF TableRight
  <2>8. OldListRight
    <3>1. Len(old_list) = 1 /\ 1 <= DNS_CACHE_NUM
      BY <2>1, DnsAssumption
    <3>2. ToSet(old_list) = {o} /\ IsInjective(old_list)
      BY <2>1 DEF ToSet, IsInjective
    <3>3. \A x \in Objects : x \in ToSet(old_list) <=>
            domain[x].used /\ ~Gone(x) /\ domain[x].status >= DOMAIN_QUERY2
      BY <2>3, <2>4, <2>6, <3>2, StatusNumbers
    <3> QED
      BY <2>1, <2>2, <2>3, <2>4, <2>6, <3>1, <3>2, <3>3 DEF OldListRight
  <2>9. FieldsRight
    BY <2>3, <2>4 DEF FieldsRight
  <2>10. TwoRequests
    <3>1. \A x \in Objects : Expected(domain[x]) = 0
      BY <2>3, <2>4, StatusNumbers DEF Expected
    <3> QED
      BY <1>5, <2>5, <3>1, RequestsAre
  <2>11. AddrsCounted
    <3> SUFFICES ASSUME NEW b \in Addrs PROVE ref_num[b] = Holders(b)
      BY DEF AddrsCounted
    <3>1. NewHolders(b) = {}
      BY <2>3, <2>4, DnsAssumption DEF NewHolders, Live
    <3>2. OldHolders(b) = IF b = a THEN {o} ELSE {}
      BY <2>2, <2>3, <2>4 DEF OldHolders, Live
    <3>3. Cardinality(NewHolders(b)) = 0 /\ Cardinality(OldHolders(b)) = IF b = a THEN 1 ELSE 0
      BY <3>1, <3>2, FS_EmptySet, FS_Singleton
    <3> QED
      BY <1>6, <2>1, <3>3, HoldersAre
  <2> QED
    BY <1>2, <1>3, <2>5, <2>7, <2>8, <2>9, <2>10, <2>11 DEF DnsInv, Tables
<1> QED
  BY <1>7, <1>8 DEF Init

\* A loop that has strayed stays so.
LEMMA StrayedStays == strayed /\ [Next]_vars => strayed'
<1> SUFFICES ASSUME strayed, [Next]_vars PROVE strayed'
  OBVIOUS
<1>1. CASE TaskStep
  BY <1>1 DEF TaskStep, notice_user, CallbackEnd, TakeAdds, Ask, NextDomain, Link, FreeDels, Expire
<1>2. CASE \E o \in Objects : AresStep(o)
  BY <1>2 DEF AresStep, AnswerFound, AnswerNone, domain_callback
<1>3. CASE \E q \in Queries : CallStep(q)
  BY <1>3 DEF CallStep, StoreStatus, init_done, OwnNotice, add_domain_to_query, Link, CancelTest,
     cancel_query, taskVars
<1>4. CASE \E q \in Queries : ClientCall(q)
  BY <1>4 DEF ClientCall, moon_getaddrinfo, Link, NumericHost, GetFails, ClientClose, taskVars
<1>5. CASE UNCHANGED vars
  BY <1>5 DEF vars, taskVars
<1> QED
  BY <1>1, <1>2, <1>3, <1>4, <1>5 DEF Next

\* Every step that does not lead the loop astray keeps the cache right.
LEMMA NextRight == DnsInv /\ [Next]_vars /\ ~strayed' => DnsInv'
<1> SUFFICES ASSUME DnsInv, [Next]_vars, ~strayed' PROVE DnsInv'
  OBVIOUS
<1>1. CASE TaskStep
  <2>1. CASE \E k \in 0 .. Len(old_list) : Expire(k)
    BY <2>1, ExpireStep
  <2> QED
    BY <1>1, <2>1, NoticeUserStep, CallbackEndStep, TakeAddsStep, AskStep, NextDomainStep,
       FreeDelsStep DEF TaskStep
<1>2. CASE \E o \in Objects : AresStep(o)
  BY <1>2, AnswerStep
<1>3. ASSUME NEW q \in Queries, CallStep(q) PROVE DnsInv'
  BY <1>3, StoreStatusStep, InitDoneStep, OwnNoticeStep, AddDomainStep, CancelTestStep,
     CancelQueryStep DEF CallStep
<1>4. ASSUME NEW q \in Queries, ClientCall(q) PROVE DnsInv'
  <2>1. ASSUME NEW ask \in Asks[q], ask[1] # Numeric, moon_getaddrinfo(q, ask[1], ask[2])
        PROVE  DnsInv'
    <3>1. ask \in (Domains \cup {Numeric}) \X Flags
      BY DnsAssumption
    <3>2. ask[1] \in Domains /\ ask[2] \in Flags
      BY <2>1, <3>1
    <3> QED
      BY <2>1, <3>2, GetStep
  <2> QED
    BY <1>4, <2>1, NumericHostStep, GetFailsStep, ClientCloseStep DEF ClientCall
<1>5. CASE UNCHANGED vars
  <2>1. UNCHANGED <<domainVars, aresVars, taskVars, ref_num, queryVars>>
    BY <1>5 DEF vars
  <2>2. QueriesTyped'
    BY <2>1 DEF DnsInv, QueriesTyped, queryVars
  <2> QED
    BY <2>1, <2>2, ClientKeeps DEF queryVars
<1> QED
  BY <1>1, <1>2, <1>3, <1>4, <1>5 DEF Next

\* The invariant of the cache holds as long as the loop has not strayed.
LEMMA DnsRight == Spec => [](strayed \/ DnsInv)
<1>1. Init => strayed \/ DnsInv
  BY InitRight
<1>2. (strayed \/ DnsInv) /\ [Next]_vars => (strayed \/ DnsInv)'
  BY StrayedStays, NextRight
<1> QED
  BY <1>1, <1>2, PTL DEF Spec

\* Whatever the clients, the thread and c-ares do at the same time, answers from
\* within ares_gethostbyname included, and however many domains are thrown out of
\* the cache: a domain has as many answers to come as its status says, none once it
\* is freed, until the loop of dns_task follows a link that was written or freed
\* under it.
THEOREM RequestsAlwaysMatch == Spec => []RequestsMatchStatus
<1>1. strayed \/ DnsInv => RequestsMatchStatus
  BY DEF DnsInv, RequestsMatchStatus
<1> QED
  BY <1>1, DnsRight, PTL

\* The hash table, the old list with its length and the counts of the addresses
\* are right whenever the mutex is free, until the loop strays.
THEOREM CacheIsRight == Spec => []CacheRight
<1>1. strayed \/ DnsInv => CacheRight
  <2> SUFFICES ASSUME DnsInv PROVE TablesRight
    BY DEF DnsInv, CacheRight
  <2>1. OldListRight /\ TableRight /\ old_list \in Seq(Objects)
    BY DEF DnsInv, Tables, DomainsTyped
  <2>2. \A o : Contains(old_list, o) <=> o \in ToSet(old_list)
    BY <2>1, ContainsIsIn
  <2>3. ASSUME NEW o \in Live
        PROVE  LET gone == cb.del = o \/ o \in dels IN
               /\ gone \/ table[domain[o].name] = o
               /\ gone <=> table[domain[o].name] # o
               /\ ~gone => (Contains(old_list, o) <=> domain[o].status >= DOMAIN_QUERY2)
               /\ Contains(old_list, o) => domain[o].p_addrs # NULL
    BY <2>1, <2>2 DEF Live, Gone, TableRight, OldListRight
  <2>4. ASSUME NEW d \in Domains, table[d] # NULL
        PROVE  table[d] \in Live /\ domain[table[d]].name = d
    BY <2>1, <2>4 DEF Live, TableRight, DnsInv, DomainsTyped
  <2> QED
    BY <2>1, <2>3, <2>4 DEF TablesRight, OldListRight
<1> QED
  BY <1>1, DnsRight, PTL

-----------------------------------------------------------------------------
(* The lists of queries *)

\* Everything QueriesInv says of query q.
Stages(q) ==
  /\ call[q] = NoCall => status[q] = 0 /\ ~inited[q] /\ q \notin spoilt
  /\ call[q] # NoCall /\ call[q].at \in {"unlocked", "stored"} => ~inited[q]
  /\ call[q] # NoCall /\ call[q].at # "unlocked" /\ ~call[q].add => status[q] = 1
  /\ cancel[q] \in {"called", "tested"} => inited[q]

\* The references of query q.
Counted(q) ==
  q \notin spoilt =>
    refs[q] = 1 + One(q \in ToSet(cb.queries)) + One(Waiting(q))
                + One(call[q] # NoCall /\ call[q].at = "notice")

\* The thread works on domains without queries.
LEMMA ListsSame ==
  ASSUME QueriesInv, UNCHANGED queryVars, cb'.queries = cb.queries,
         \A o \in Objects : domain'[o].used =>
           domain[o].used /\ domain'[o].p_query_head = domain[o].p_query_head,
         \A o \in Objects : domain[o].used /\ domain[o].p_query_head # <<>> => domain'[o].used,
         QueriesTyped
  PROVE  QueriesInv'
<1>1. \A q \in Queries : Waiting(q)' <=> Waiting(q)
  BY DEF Waiting, queryVars
<1>2. DomainLists'
  <2>1. ASSUME NEW o \in Objects, domain'[o].used
        PROVE  /\ IsInjective(domain'[o].p_query_head)
               /\ \A q \in ToSet(domain'[o].p_query_head) : Waiting(q)' /\ p_domain'[q] = o
    BY <2>1 DEF QueriesInv, DomainLists, Waiting, queryVars
  <2>2. ASSUME NEW q \in Queries, Waiting(q)'
        PROVE  domain'[p_domain'[q]].used /\ q \in ToSet(domain'[p_domain'[q]].p_query_head)
    <3> DEFINE o == p_domain[q]
    <3>1. domain[o].used /\ q \in ToSet(domain[o].p_query_head)
      BY <1>1, <2>2 DEF QueriesInv, DomainLists
    <3>2. domain[o].p_query_head # <<>>
      BY <3>1, EmptyList
    <3>3. o \in Objects
      BY <1>1, <2>2 DEF Waiting, QueriesTyped
    <3>4. p_domain'[q] = o
      BY DEF queryVars
    <3> HIDE DEF o
    <3> QED
      BY <3>1, <3>2, <3>3, <3>4
  <2> QED
    BY <2>1, <2>2 DEF DomainLists
<1>3. TakenRight'
  BY DEF QueriesInv, TakenRight, queryVars
<1>4. StagesRight'
  BY DEF QueriesInv, StagesRight, queryVars
<1>5. RefsRight'
  BY <1>1 DEF QueriesInv, RefsRight, queryVars, One
<1> QED
  BY <1>2, <1>3, <1>4, <1>5 DEF QueriesInv

\* A query goes on without entering or leaving a list.
LEMMA QueryMoves ==
  ASSUME QueriesInv, NEW q \in Queries, UNCHANGED <<domain, cb, p_domain>>,
         \A p \in Queries : p # q =>
           /\ call'[p] = call[p] /\ status'[p] = status[p] /\ inited'[p] = inited[p]
           /\ refs'[p] = refs[p] /\ cancel'[p] = cancel[p] /\ (p \in spoilt' <=> p \in spoilt),
         Waiting(q)' <=> Waiting(q),
         q \in ToSet(cb.queries) => call'[q] # NoCall /\ (status'[q] = 1 \/ q \in spoilt'),
         Stages(q)', Counted(q)', DnsInv
  PROVE  QueriesInv'
<1>1. \A p \in Queries : Waiting(p)' <=> Waiting(p)
  BY DEF Waiting
<1>2. DomainLists'
  <2>1. \A o \in Objects : domain[o].used => ToSet(domain[o].p_query_head) \subseteq Queries
    <3> TAKE o \in Objects
    <3> HAVE domain[o].used
    <3>1. domain[o].p_query_head \in Seq(Queries)
      BY InUse DEF DnsInv, Entries
    <3> QED
      BY <3>1, ElementsTyped
  <2>2. DomainLists
    BY DEF QueriesInv
  <2> QED
    BY <1>1, <2>1, <2>2 DEF DomainLists
<1>3. TakenRight'
  <2>1. ToSet(cb.queries) \subseteq Queries
    BY ElementsTyped DEF DnsInv, TaskTyped
  <2> QED
    BY <2>1 DEF QueriesInv, TakenRight
<1>4. StagesRight'
  <2>1. ASSUME NEW p \in Queries PROVE Stages(p)'
    <3>1. CASE p = q
      BY <3>1
    <3>2. CASE p # q
      BY <3>2 DEF QueriesInv, StagesRight, Stages
    <3> QED
      BY <3>1, <3>2
  <2> QED
    BY <2>1 DEF Stages, StagesRight
<1>5. RefsRight'
  <2>1. ASSUME NEW p \in Queries PROVE Counted(p)'
    <3>1. CASE p = q
      BY <3>1
    <3>2. CASE p # q
      BY <1>1, <3>2 DEF QueriesInv, RefsRight, Counted, One
    <3> QED
      BY <3>1, <3>2
  <2> QED
    BY <2>1 DEF Counted, RefsRight
<1> QED
  BY <1>2, <1>3, <1>4, <1>5 DEF QueriesInv

\* What the invariants say of one query.
LEMMA OfQuery ==
  ASSUME DnsInv, QueriesInv, NEW q \in Queries
  PROVE  /\ Stages(q) /\ Counted(q) /\ refs[q] \in Int
         /\ status[q] \in {0, 1} /\ inited[q] \in BOOLEAN
         /\ cancel[q] \in {"no", "pending", "called", "tested"}
         /\ cancel[q] # "no" => call[q] # NoCall /\ call[q].add
         /\ q \in ToSet(cb.queries) => call[q] # NoCall /\ (status[q] = 1 \/ q \in spoilt)
         /\ call[q] # NoCall => call[q] \in Calls
BY DEF DnsInv, QueriesInv, QueriesTyped, StagesRight, RefsRight, TakenRight, Stages, Counted

\* A call begins that joins no list.
LEMMA BeginMoves ==
  ASSUME DnsInv, QueriesInv, NEW q \in Queries, call[q] = NoCall, NEW c \in Calls, c # NoCall,
         c.at = "unlocked", ~c.add, call' = [call EXCEPT ![q] = c],
         UNCHANGED <<status, p_domain, inited, refs, cancel, spoilt, domain, cb>>
  PROVE  QueriesInv'
<1>1. \A p \in Queries : call'[p] = IF p = q THEN c ELSE call[p]
  BY DEF DnsInv, QueriesTyped
<1>2. /\ Stages(q) /\ Counted(q) /\ cancel[q] = "no" /\ q \notin ToSet(cb.queries)
  BY OfQuery
<1>3. ~Waiting(q) /\ ~Waiting(q)'
  BY <1>1 DEF Waiting
<1>4. Stages(q)'
  BY <1>1, <1>2 DEF Stages
<1>5. Counted(q)'
  BY <1>1, <1>2, <1>3 DEF Counted, One
<1> QED
  BY <1>1, <1>2, <1>3, <1>4, <1>5, QueryMoves

\* NumericHost
LEMMA NumericHostLists ==
  ASSUME DnsInv, QueriesInv, NEW q \in Queries, NumericHost(q)
  PROVE  QueriesInv'
<1> DEFINE c == [at |-> "unlocked", add |-> FALSE, fail |-> FALSE, addrs |-> new_addrs, new |-> NULL]
<1>1. new_addrs \in Addrs
  BY FreshAddrs DEF NumericHost
<1>2. c \in Calls /\ c # NoCall /\ c.at = "unlocked" /\ ~c.add
  BY <1>1 DEF Calls, Lists, NoCall
<1>3. /\ call[q] = NoCall /\ call' = [call EXCEPT ![q] = c]
      /\ UNCHANGED <<status, p_domain, inited, refs, cancel, spoilt, domain, cb>>
  BY DEF NumericHost, domainVars, taskVars
<1> HIDE DEF c
<1> QED
  BY <1>2, <1>3, BeginMoves

\* GetFails
LEMMA GetFailsLists ==
  ASSUME DnsInv, QueriesInv, NEW q \in Queries, GetFails(q)
  PROVE  QueriesInv'
<1> DEFINE c == [at |-> "unlocked", add |-> FALSE, fail |-> TRUE, addrs |-> NULL, new |-> NULL]
<1>1. c \in Calls /\ c # NoCall /\ c.at = "unlocked" /\ ~c.add
  BY DEF Calls, Lists, NoCall
<1>2. /\ call[q] = NoCall /\ call' = [call EXCEPT ![q] = c]
      /\ UNCHANGED <<status, p_domain, inited, refs, cancel, spoilt, domain, cb>>
  BY DEF GetFails, domainVars, taskVars
<1> HIDE DEF c
<1> QED
  BY <1>1, <1>2, BeginMoves

\* StoreStatus: a query that is in the hands of the thread by now is spoilt.
LEMMA StoreStatusLists ==
  ASSUME DnsInv, QueriesInv, NEW q \in Queries, StoreStatus(q)
  PROVE  QueriesInv'
<1>1. /\ call[q].at = "unlocked" /\ call[q] \in Calls /\ call[q] # NoCall
      /\ status' = [status EXCEPT ![q] = IF call[q].add THEN 0 ELSE 1]
      /\ spoilt' = IF call[q].add /\ status[q] = 1 THEN spoilt \cup {q} ELSE spoilt
      /\ call' = [call EXCEPT ![q].at = "stored"]
      /\ UNCHANGED <<p_domain, inited, refs, cancel, domain, cb>>
  BY Begun DEF StoreStatus, domainVars, taskVars, DnsInv
<1>2. /\ Stages(q) /\ Counted(q) /\ call[q].add \in BOOLEAN /\ status[q] \in {0, 1}
      /\ q \in ToSet(cb.queries) => status[q] = 1 \/ q \in spoilt
  BY <1>1, OfQuery DEF Calls
<1>3. /\ call'[q] # NoCall /\ call'[q].at = "stored" /\ call'[q].add = call[q].add
      /\ status'[q] = IF call[q].add THEN 0 ELSE 1
      /\ \A p \in Queries : p # q => call'[p] = call[p] /\ status'[p] = status[p]
  BY <1>1 DEF DnsInv, QueriesTyped, Calls, NoCall
<1>4. /\ \A p \in Queries : p # q => (p \in spoilt' <=> p \in spoilt)
      /\ q \in spoilt' <=> q \in spoilt \/ (call[q].add /\ status[q] = 1)
  BY <1>1
<1>5. Waiting(q)' <=> Waiting(q)
  BY <1>1, <1>2, <1>3, <1>4 DEF Waiting
<1>6. Stages(q)'
  BY <1>1, <1>2, <1>3 DEF Stages
<1>7. Counted(q)'
  <2>1. One(Waiting(q))' = One(Waiting(q))
    BY <1>5 DEF One
  <2>2. ~(call[q].at = "notice") /\ ~(call'[q].at = "notice")
    BY <1>1, <1>3
  <2> QED
    BY <1>1, <1>2, <1>4, <2>1, <2>2 DEF Counted, One
<1>8. q \in ToSet(cb.queries) => call'[q] # NoCall /\ (status'[q] = 1 \/ q \in spoilt')
  BY <1>2, <1>3, <1>4
<1> QED
  BY <1>1, <1>3, <1>4, <1>5, <1>6, <1>7, <1>8, QueryMoves

\* init_done
LEMMA InitDoneLists ==
  ASSUME DnsInv, QueriesInv, NEW q \in Queries, init_done(q)
  PROVE  QueriesInv'
<1> DEFINE at == IF call[q].addrs # NULL THEN "notice"
                 ELSE IF call[q].new # NULL THEN "push" ELSE "done"
<1>1. /\ call[q].at = "stored" /\ call[q] \in Calls /\ call[q] # NoCall
      /\ inited' = [inited EXCEPT ![q] = TRUE]
      /\ cancel' = [cancel EXCEPT ![q] = IF @ = "pending" THEN "called" ELSE @]
      /\ refs' = [refs EXCEPT ![q] = IF call[q].addrs # NULL THEN @ + 1 ELSE @]
      /\ call' = [call EXCEPT ![q].fail = FALSE, ![q].at = at]
      /\ UNCHANGED <<status, p_domain, spoilt, domain, cb>>
  BY Begun DEF init_done, domainVars, taskVars, DnsInv
<1>2. /\ Stages(q) /\ Counted(q) /\ refs[q] \in Int
      /\ q \in ToSet(cb.queries) => status[q] = 1 \/ q \in spoilt
  BY <1>1, OfQuery
<1>3. /\ call'[q] # NoCall /\ call'[q].at = at /\ call'[q].add = call[q].add
      /\ \A p \in Queries : p # q => call'[p] = call[p]
  <2> DEFINE c == [call[q] EXCEPT !.fail = FALSE, !.at = at]
  <2> HIDE DEF at
  <2>1. call' = [call EXCEPT ![q] = c]
    BY <1>1 DEF DnsInv, QueriesTyped, Calls
  <2>2. c # NoCall /\ c.at = at /\ c.add = call[q].add
    BY <1>1 DEF Calls, NoCall
  <2> HIDE DEF c
  <2> QED
    BY <2>1, <2>2 DEF DnsInv, QueriesTyped
<1>4. /\ inited'[q] /\ refs'[q] = refs[q] + One(call[q].addrs # NULL)
      /\ \A p \in Queries : p # q => /\ inited'[p] = inited[p] /\ refs'[p] = refs[p]
                                     /\ cancel'[p] = cancel[p]
  BY <1>1 DEF DnsInv, QueriesTyped, One
<1>5. Waiting(q)' <=> Waiting(q)
  BY <1>1, <1>3 DEF Waiting
<1>6. call'[q].at \in {"notice", "push", "done"} /\ (call'[q].at = "notice" <=> call[q].addrs # NULL)
  BY <1>3
<1> HIDE DEF at
<1>7. Stages(q)'
  BY <1>1, <1>2, <1>3, <1>4, <1>6 DEF Stages
<1>8. Counted(q)'
  <2>1. /\ One(Waiting(q))' = One(Waiting(q)) /\ One(call[q] # NoCall /\ call[q].at = "notice") = 0
        /\ One((call[q] # NoCall /\ call[q].at = "notice")') = One(call[q].addrs # NULL)
        /\ One(q \in ToSet(cb.queries))' = One(q \in ToSet(cb.queries))
    BY <1>1, <1>3, <1>5, <1>6 DEF One
  <2>2. One(Waiting(q)) \in Int /\ One(q \in ToSet(cb.queries)) \in Int /\ One(call[q].addrs # NULL) \in Int
    BY DEF One
  <2>3. q \notin spoilt =>
          refs[q] = 1 + One(q \in ToSet(cb.queries)) + One(Waiting(q))
                      + One(call[q] # NoCall /\ call[q].at = "notice")
    BY <1>2 DEF Counted
  <2>4. q \notin spoilt' =>
          refs'[q] = 1 + One(q \in ToSet(cb.queries)) + One(Waiting(q)) + One(call[q].addrs # NULL)
    BY <1>1, <1>4, <2>1, <2>2, <2>3
  <2> QED
    BY <2>1, <2>4 DEF Counted
<1>9. q \in ToSet(cb.queries) => call'[q] # NoCall /\ (status'[q] = 1 \/ q \in spoilt')
  BY <1>1, <1>2, <1>3
<1> QED
  BY <1>1, <1>3, <1>4, <1>5, <1>7, <1>8, <1>9, QueryMoves

\* OwnNotice
LEMMA OwnNoticeLists ==
  ASSUME DnsInv, QueriesInv, NEW q \in Queries, OwnNotice(q)
  PROVE  QueriesInv'
<1>1. /\ call[q].at = "notice" /\ call[q] \in Calls /\ call[q] # NoCall
      /\ refs' = [refs EXCEPT ![q] = @ - 1]
      /\ call' = [call EXCEPT ![q].at = "done", ![q].addrs = NULL]
      /\ UNCHANGED <<status, p_domain, inited, cancel, spoilt, domain, cb>>
  BY Begun DEF OwnNotice, domainVars, taskVars, DnsInv
<1>2. /\ Stages(q) /\ Counted(q) /\ refs[q] \in Int
      /\ q \in ToSet(cb.queries) => status[q] = 1 \/ q \in spoilt
  BY <1>1, OfQuery
<1>3. /\ call'[q] # NoCall /\ call'[q].at = "done" /\ call'[q].add = call[q].add
      /\ \A p \in Queries : p # q => call'[p] = call[p]
  <2> DEFINE c == [call[q] EXCEPT !.at = "done", !.addrs = NULL]
  <2>1. call' = [call EXCEPT ![q] = c]
    BY <1>1 DEF DnsInv, QueriesTyped, Calls
  <2>2. c # NoCall /\ c.at = "done" /\ c.add = call[q].add
    BY <1>1 DEF Calls, NoCall
  <2> HIDE DEF c
  <2> QED
    BY <2>1, <2>2 DEF DnsInv, QueriesTyped
<1>4. refs'[q] = refs[q] - 1 /\ \A p \in Queries : p # q => refs'[p] = refs[p]
  BY <1>1 DEF DnsInv, QueriesTyped
<1>5. Waiting(q)' <=> Waiting(q)
  BY <1>1, <1>3 DEF Waiting
<1>6. Stages(q)'
  BY <1>1, <1>2, <1>3 DEF Stages
<1>7. Counted(q)'
  BY <1>1, <1>2, <1>3, <1>4, <1>5 DEF Counted, One
<1> QED
  BY <1>1, <1>2, <1>3, <1>4, <1>5, <1>6, <1>7, QueryMoves

\* add_domain_to_query
LEMMA AddDomainLists ==
  ASSUME DnsInv, QueriesInv, NEW q \in Queries, add_domain_to_query(q)
  PROVE  QueriesInv'
<1>1. /\ call[q].at = "push" /\ call[q] \in Calls /\ call[q] # NoCall
      /\ call' = [call EXCEPT ![q].at = "done", ![q].new = NULL]
      /\ UNCHANGED <<status, p_domain, inited, refs, cancel, spoilt, domain, cb>>
  BY Begun DEF add_domain_to_query, domainVars, DnsInv
<1>2. /\ Stages(q) /\ Counted(q) /\ refs[q] \in Int
      /\ q \in ToSet(cb.queries) => status[q] = 1 \/ q \in spoilt
  BY <1>1, OfQuery
<1>3. /\ call'[q] # NoCall /\ call'[q].at = "done" /\ call'[q].add = call[q].add
      /\ \A p \in Queries : p # q => call'[p] = call[p]
  <2> DEFINE c == [call[q] EXCEPT !.at = "done", !.new = NULL]
  <2>1. call' = [call EXCEPT ![q] = c]
    BY <1>1 DEF DnsInv, QueriesTyped, Calls
  <2>2. c # NoCall /\ c.at = "done" /\ c.add = call[q].add
    BY <1>1 DEF Calls, NoCall
  <2> HIDE DEF c
  <2> QED
    BY <2>1, <2>2 DEF DnsInv, QueriesTyped
<1>4. Waiting(q)' <=> Waiting(q)
  BY <1>1, <1>3 DEF Waiting
<1>5. Stages(q)'
  BY <1>1, <1>2, <1>3 DEF Stages
<1>6. Counted(q)'
  BY <1>1, <1>2, <1>3, <1>4 DEF Counted, One
<1> QED
  BY <1>1, <1>2, <1>3, <1>4, <1>5, <1>6, QueryMoves

\* ClientClose and CancelTest change where cancel_query is.
LEMMA CancelMoves ==
  ASSUME DnsInv, QueriesInv, NEW q \in Queries,
         UNCHANGED <<call, status, p_domain, inited, refs, spoilt, domain, cb>>,
         \A p \in Queries : p # q => cancel'[p] = cancel[p],
         cancel'[q] \in {"called", "tested"} => inited[q]
  PROVE  QueriesInv'
<1>1. /\ Stages(q) /\ Counted(q)
      /\ q \in ToSet(cb.queries) => call[q] # NoCall /\ (status[q] = 1 \/ q \in spoilt)
  BY OfQuery
<1>2. Waiting(q)' <=> Waiting(q)
  BY DEF Waiting
<1>3. Stages(q)'
  BY <1>1 DEF Stages
<1>4. Counted(q)'
  BY <1>1, <1>2 DEF Counted, One
<1> QED
  BY <1>1, <1>2, <1>3, <1>4, QueryMoves

\* ClientClose
LEMMA ClientCloseLists ==
  ASSUME DnsInv, QueriesInv, NEW q \in Queries, ClientClose(q)
  PROVE  QueriesInv'
<1> DEFINE v == IF ~call[q].add THEN "no" ELSE IF inited[q] THEN "called" ELSE "pending"
<1>1. /\ UNCHANGED <<call, status, p_domain, inited, refs, spoilt, domain, cb>>
      /\ cancel' = [cancel EXCEPT ![q] = v]
  BY DEF ClientClose, domainVars, taskVars
<1>2. call[q] \in Calls /\ inited[q] \in BOOLEAN
  BY DEF DnsInv, QueriesTyped, ClientClose
<1>3. v \in {"called", "tested"} => inited[q]
  BY <1>2 DEF Calls
<1> HIDE DEF v
<1>4. cancel'[q] = v /\ \A p \in Queries : p # q => cancel'[p] = cancel[p]
  BY <1>1 DEF DnsInv, QueriesTyped
<1> QED
  BY <1>1, <1>3, <1>4, CancelMoves

\* CancelTest
LEMMA CancelTestLists ==
  ASSUME DnsInv, QueriesInv, NEW q \in Queries, CancelTest(q)
  PROVE  QueriesInv'
<1>1. /\ UNCHANGED <<call, status, p_domain, inited, refs, spoilt, domain, cb>>
      /\ cancel[q] = "called"
      /\ cancel' = [cancel EXCEPT ![q] = IF status[q] # 0 THEN "no" ELSE "tested"]
  BY DEF CancelTest, domainVars, taskVars
<1>2. inited[q]
  BY <1>1, OfQuery DEF Stages
<1>3. \A p \in Queries : p # q => cancel'[p] = cancel[p]
  BY <1>1 DEF DnsInv, QueriesTyped
<1> QED
  BY <1>1, <1>2, <1>3, CancelMoves

\* The queries in the list of a domain, or of the thread.
LEMMA ListsOfQueries ==
  ASSUME DnsInv
  PROVE  /\ \A o \in Objects : domain[o].used =>
              domain[o].p_query_head \in Seq(Queries) /\ ToSet(domain[o].p_query_head) \subseteq Queries
         /\ cb.queries \in Seq(Queries) /\ ToSet(cb.queries) \subseteq Queries
<1>1. \A o \in Objects : domain[o].used => domain[o].p_query_head \in Seq(Queries)
  BY InUse DEF DnsInv, Entries
<1>2. cb.queries \in Seq(Queries)
  BY DEF DnsInv, TaskTyped
<1> QED
  BY <1>1, <1>2, ElementsTyped

\* What is left of the thread's list when a query is cancelled.
LEMMA UntoldFacts ==
  ASSUME DnsInv, QueriesInv, NEW q \in Queries
  PROVE  /\ Untold(q) \in Seq(Queries) /\ IsInjective(Untold(q))
         /\ ToSet(Untold(q)) \subseteq ToSet(cb.queries)
         /\ q \notin ToSet(cb.queries) => ToSet(Untold(q)) = ToSet(cb.queries)
<1>1. cb.queries \in Seq(Queries) /\ IsInjective(cb.queries)
  BY ListsOfQueries DEF QueriesInv, TakenRight
<1>2. CASE cb.queries # <<>> /\ Head(cb.queries) = q
  <2>1. q \in ToSet(cb.queries) /\ Untold(q) = <<q>>
    BY <1>1, <1>2, HeadLeaves DEF Untold
  <2>2. /\ <<q>> \in Seq(Queries) /\ Len(<<q>>) = 1 /\ <<q>>[1] = q
    OBVIOUS
  <2>3. IsInjective(<<q>>)
    BY <2>2 DEF IsInjective
  <2>4. ToSet(<<q>>) = {q}
    BY <2>2 DEF ToSet
  <2> QED
    BY <2>1, <2>2, <2>3, <2>4
<1>3. CASE ~(cb.queries # <<>> /\ Head(cb.queries) = q)
  <2>1. Untold(q) = dlist_del(cb.queries, q)
    BY <1>3 DEF Untold
  <2>2. /\ dlist_del(cb.queries, q) \in Seq(Queries) /\ IsInjective(dlist_del(cb.queries, q))
        /\ ToSet(dlist_del(cb.queries, q)) = ToSet(cb.queries) \ {q}
    BY <1>1, DelFacts
  <2> QED
    BY <2>1, <2>2
<1> QED
  BY <1>2, <1>3

\* cancel_query: a query that waits leaves the list of its domain; one that is spoilt
\* leaves the list of the thread, if any, and may take others with it.
LEMMA CancelQueryLists ==
  ASSUME DnsInv, QueriesInv, NEW q \in Queries, cancel_query(q)
  PROVE  QueriesInv'
<1> DEFINE o == p_domain[q]
           qs == Untold(q)
<1>1. /\ cancel[q] = "tested" /\ cancel' = [cancel EXCEPT ![q] = "no"]
      /\ UNCHANGED <<call, p_domain, inited>>
  BY DEF cancel_query
<1>2. /\ cancel'[q] = "no" /\ \A p \in Queries : p # q => cancel'[p] = cancel[p]
  BY <1>1 DEF DnsInv, QueriesTyped
<1>3. CASE status[q] # 0
  <2>1. UNCHANGED <<domain, cb, spoilt, status, refs>>
    BY <1>3 DEF cancel_query, MayCancel
  <2> QED
    BY <1>1, <1>2, <2>1, CancelMoves
<1>4. CASE status[q] = 0
  <2>1. /\ domain' = IF domain[o].used
                     THEN [domain EXCEPT ![o].p_query_head = dlist_del(@, q)] ELSE domain
        /\ cb' = [cb EXCEPT !.queries = qs]
        /\ spoilt' = spoilt \cup (ToSet(cb.queries) \ ToSet(qs))
        /\ status' = [status EXCEPT ![q] = 1] /\ refs' = [refs EXCEPT ![q] = @ - 1]
    BY <1>4 DEF cancel_query, MayCancel
  <2>2. /\ Stages(q) /\ Counted(q) /\ refs[q] \in Int /\ call[q] # NoCall /\ call[q].add
        /\ inited[q] /\ (q \in spoilt \/ q \notin ToSet(cb.queries)) /\ call[q].at # "unlocked"
    BY <1>1, <1>4, OfQuery DEF Stages
  <2>3. o \in Objects /\ (Waiting(q) <=> q \notin spoilt)
    BY <1>4, <2>2 DEF Waiting, DnsInv, QueriesTyped
  <2>4. /\ qs \in Seq(Queries) /\ IsInjective(qs) /\ ToSet(qs) \subseteq ToSet(cb.queries)
        /\ q \notin ToSet(cb.queries) => ToSet(qs) = ToSet(cb.queries)
    BY UntoldFacts
  <2>5. cb'.queries = qs
    BY <2>1 DEF DnsInv, TaskTyped
  <2> HIDE DEF o, qs
  <2>6. \A p \in ToSet(cb.queries) :
          p \in Queries /\ ~Waiting(p) /\ call[p] # NoCall /\ (status[p] = 1 \/ p \in spoilt)
    BY ListsOfQueries DEF QueriesInv, TakenRight, Waiting
  <2>7. /\ status'[q] = 1 /\ refs'[q] = refs[q] - 1
        /\ \A p \in Queries : p # q => status'[p] = status[p] /\ refs'[p] = refs[p]
    BY <2>1 DEF DnsInv, QueriesTyped
  <2>8. \A p \in Queries : Waiting(p)' <=> Waiting(p) /\ p # q
    BY <1>1, <2>1, <2>6, <2>7 DEF Waiting
  <2>9. ASSUME NEW x \in Objects
        PROVE  /\ domain'[x].used <=> domain[x].used
               /\ domain[x].used =>
                    /\ IsInjective(domain'[x].p_query_head)
                    /\ ToSet(domain'[x].p_query_head) = ToSet(domain[x].p_query_head) \ {q}
    <3> DEFINE head == domain[x].p_query_head
    <3>1. CASE ~domain[x].used
      BY <2>1, <2>3, <3>1 DEF DnsInv, DomainsTyped
    <3>2. CASE domain[x].used
      <4>1. /\ head \in Seq(Queries) /\ IsInjective(head) /\ domain[x] \in Entries
            /\ \A p \in ToSet(head) : p_domain[p] = x
        BY <3>2, ListsOfQueries, InUse DEF QueriesInv, DomainLists, DnsInv
      <4>2. CASE x # o
        <5>1. domain'[x] = domain[x] /\ q \notin ToSet(head)
          BY <2>1, <4>1, <4>2 DEF DnsInv, DomainsTyped, o
        <5> QED
          BY <3>2, <4>1, <5>1
      <4>3. CASE x = o
        <5>1. /\ IsInjective(dlist_del(head, q)) /\ ToSet(dlist_del(head, q)) = ToSet(head) \ {q}
          BY <4>1, DelFacts
        <5>2. domain'[x].used /\ domain'[x].p_query_head = dlist_del(head, q)
          BY <2>1, <2>3, <3>2, <4>1, <4>3 DEF DnsInv, DomainsTyped, Entries
        <5> QED
          BY <3>2, <5>1, <5>2
      <4> QED
        BY <4>2, <4>3
    <3> QED
      BY <3>1, <3>2
  <2>10. DomainLists'
    <3>1. ASSUME NEW x \in Objects, domain'[x].used
          PROVE  /\ IsInjective(domain'[x].p_query_head)
                 /\ \A p \in ToSet(domain'[x].p_query_head) : Waiting(p)' /\ p_domain'[p] = x
      <4>1. domain[x].used
        BY <2>9, <3>1
      <4>2. \A p \in ToSet(domain[x].p_query_head) : Waiting(p) /\ p_domain[p] = x /\ p \in Queries
        BY <4>1, ListsOfQueries DEF QueriesInv, DomainLists
      <4> QED
        BY <1>1, <2>8, <2>9, <4>1, <4>2
    <3>2. ASSUME NEW p \in Queries, Waiting(p)'
          PROVE  domain'[p_domain'[p]].used /\ p \in ToSet(domain'[p_domain'[p]].p_query_head)
      <4>1. Waiting(p) /\ p # q /\ p_domain'[p] = p_domain[p]
        BY <1>1, <2>8, <3>2
      <4>2. /\ domain[p_domain[p]].used /\ p \in ToSet(domain[p_domain[p]].p_query_head)
            /\ p_domain[p] \in Objects
        BY <4>1 DEF QueriesInv, DomainLists, Waiting, DnsInv, QueriesTyped
      <4> QED
        BY <2>9, <4>1, <4>2
    <3> QED
      BY <3>1, <3>2 DEF DomainLists
  <2>11. TakenRight'
    <3>1. ASSUME NEW p \in ToSet(qs) PROVE call[p] # NoCall /\ (status'[p] = 1 \/ p \in spoilt')
      <4>1. p \in Queries /\ call[p] # NoCall /\ (status[p] = 1 \/ p \in spoilt)
        BY <2>4, <2>6
      <4> QED
        BY <2>1, <2>7, <4>1
    <3> QED
      BY <1>1, <2>4, <2>5, <3>1 DEF TakenRight
  <2>12. StagesRight'
    <3>1. ASSUME NEW p \in Queries PROVE Stages(p)'
      <4>1. Stages(p) /\ (p \in ToSet(cb.queries) => call[p] # NoCall)
        BY OfQuery
      <4>2. CASE p = q
        BY <1>1, <1>2, <2>2, <2>7, <4>2 DEF Stages
      <4>3. CASE p # q
        BY <1>1, <1>2, <2>1, <2>7, <4>1, <4>3 DEF Stages
      <4> QED
        BY <4>2, <4>3
    <3> QED
      BY <3>1 DEF Stages, StagesRight
  <2>13. RefsRight'
    <3>1. ASSUME NEW p \in Queries PROVE Counted(p)'
      <4>1. Counted(p) /\ refs[p] \in Int
        BY OfQuery
      <4> SUFFICES ASSUME p \notin spoilt'
                   PROVE  refs'[p] = 1 + One(p \in ToSet(qs)) + One(Waiting(p)')
                                       + One(call'[p] # NoCall /\ call'[p].at = "notice")
        BY <2>5 DEF Counted, One
      <4>2. p \notin spoilt /\ (p \in ToSet(qs) <=> p \in ToSet(cb.queries))
        BY <2>1, <2>4
      <4>3. refs[p] = 1 + One(p \in ToSet(cb.queries)) + One(Waiting(p))
                        + One(call[p] # NoCall /\ call[p].at = "notice")
        BY <4>1, <4>2 DEF Counted
      <4>4. CASE p = q
        BY <1>1, <2>2, <2>3, <2>7, <2>8, <4>1, <4>2, <4>3, <4>4 DEF One
      <4>5. CASE p # q
        BY <1>1, <2>7, <2>8, <4>2, <4>3, <4>5 DEF One
      <4> QED
        BY <4>4, <4>5
    <3> QED
      BY <3>1 DEF Counted, RefsRight
  <2> QED
    BY <2>10, <2>11, <2>12, <2>13 DEF QueriesInv
<1> QED
  BY <1>3, <1>4

\* notice_user: the thread gives up its reference with the query.
LEMMA NoticeUserLists ==
  ASSUME DnsInv, QueriesInv, notice_user
  PROVE  QueriesInv'
<1> DEFINE q == Head(cb.queries)
<1>1. /\ cb.queries # <<>> /\ cb' = [cb EXCEPT !.queries = Tail(@)]
      /\ refs' = [refs EXCEPT ![q] = @ - 1]
      /\ UNCHANGED <<call, status, p_domain, inited, cancel, spoilt, domain>>
  BY DEF notice_user, domainVars
<1>2. cb.queries \in Seq(Queries) /\ IsInjective(cb.queries) /\ ToSet(cb.queries) \subseteq Queries
  BY ListsOfQueries DEF QueriesInv, TakenRight
<1>3. /\ cb'.queries = Tail(cb.queries) /\ IsInjective(Tail(cb.queries))
      /\ ToSet(Tail(cb.queries)) = ToSet(cb.queries) \ {q} /\ q \in ToSet(cb.queries)
  <2>1. cb'.queries = Tail(cb.queries)
    BY <1>1 DEF DnsInv, TaskTyped
  <2> QED
    BY <1>1, <1>2, <2>1, HeadLeaves
<1>4. q \in Queries
  BY <1>2, <1>3
<1> HIDE DEF q
<1>5. \A p \in Queries : Waiting(p)' <=> Waiting(p)
  BY <1>1 DEF Waiting
<1>6. DomainLists'
  BY <1>1 DEF QueriesInv, DomainLists, Waiting
<1>7. TakenRight'
  BY <1>1, <1>3 DEF QueriesInv, TakenRight
<1>8. StagesRight'
  BY <1>1 DEF QueriesInv, StagesRight
<1>9. RefsRight'
  <2>1. ASSUME NEW p \in Queries PROVE Counted(p)'
    <3>1. Counted(p) /\ refs[p] \in Int
      BY OfQuery
    <3>2. refs'[p] = refs[p] - One(p = q)
      BY <1>1, <1>4, <3>1 DEF DnsInv, QueriesTyped, One
    <3>3. p \in ToSet(cb'.queries) <=> p \in ToSet(cb.queries) /\ p # q
      BY <1>3
    <3>4. p = q => p \in ToSet(cb.queries)
      BY <1>3
    <3> QED
      BY <1>1, <1>5, <3>1, <3>2, <3>3, <3>4 DEF Counted, One
  <2> QED
    BY <2>1 DEF Counted, RefsRight
<1> QED
  BY <1>6, <1>7, <1>8, <1>9 DEF QueriesInv

\* moon_getaddrinfo: the query joins a list, with a reference for it.
LEMMA GetLists ==
  ASSUME DnsInv, QueriesInv, NEW q \in Queries, Joined(q)
  PROVE  QueriesInv'
<1>1. PICK o \in Objects, add \in BOOLEAN, head \in Seq(Queries) :
        /\ domain[o].used => head = domain[o].p_query_head
        /\ ~domain[o].used => head = <<>>
        /\ domain'[o].used
        /\ domain'[o].p_query_head = IF add THEN dlist_insert(head, q) ELSE head
        /\ \A x \in Objects : x # o => domain'[x] = domain[x]
        /\ call[q] = NoCall
        /\ call'[q] # NoCall /\ call'[q].at = "unlocked" /\ call'[q].add = add
        /\ refs'[q] = refs[q] + One(add)
        /\ add => p_domain'[q] = o
        /\ \A p \in Queries : p # q => /\ call'[p] = call[p] /\ refs'[p] = refs[p]
                                       /\ p_domain'[p] = p_domain[p]
        /\ UNCHANGED <<status, inited, cancel, cb, spoilt>>
  BY DEF Joined
<1>2. /\ Stages(q) /\ Counted(q) /\ cancel[q] = "no" /\ q \notin ToSet(cb.queries) /\ refs[q] \in Int
      /\ q \notin spoilt
  BY <1>1, OfQuery DEF Stages
<1>3. ~Waiting(q) /\ (Waiting(q)' <=> add)
  BY <1>1, <1>2 DEF Waiting, Stages
<1>4. \A p \in Queries : p # q => (Waiting(p)' <=> Waiting(p))
  BY <1>1 DEF Waiting
<1>5. /\ IsInjective(head) /\ ToSet(head) \subseteq Queries
      /\ \A p \in ToSet(head) : Waiting(p) /\ p_domain[p] = o /\ p # q
  <2>1. CASE domain[o].used
    BY <1>1, <1>3, <2>1, ListsOfQueries DEF QueriesInv, DomainLists
  <2>2. CASE ~domain[o].used
    BY <1>1, <2>2, EmptyList
  <2> QED
    BY <2>1, <2>2
<1>6. /\ IsInjective(domain'[o].p_query_head)
      /\ ToSet(domain'[o].p_query_head) = IF add THEN ToSet(head) \cup {q} ELSE ToSet(head)
  <2>1. CASE add
    <3>1. q \notin ToSet(head)
      BY <1>5
    <3>2. IsInjective(dlist_insert(head, q)) /\ ToSet(dlist_insert(head, q)) = ToSet(head) \cup {q}
      BY <1>5, <3>1, InsertFacts
    <3> QED
      BY <1>1, <2>1, <3>2
  <2>2. CASE ~add
    BY <1>1, <1>5, <2>2
  <2> QED
    BY <2>1, <2>2
<1>7. DomainLists'
  <2>1. ASSUME NEW x \in Objects, domain'[x].used
        PROVE  /\ IsInjective(domain'[x].p_query_head)
               /\ \A p \in ToSet(domain'[x].p_query_head) : Waiting(p)' /\ p_domain'[p] = x
    <3>1. CASE x = o
      <4> SUFFICES ASSUME NEW p \in ToSet(domain'[o].p_query_head)
                   PROVE  Waiting(p)' /\ p_domain'[p] = o
        BY <1>6, <3>1
      <4>1. CASE p = q
        <5>1. add
          BY <1>5, <1>6, <4>1
        <5> QED
          BY <1>1, <1>3, <4>1, <5>1
      <4>2. CASE p # q
        <5>1. p \in ToSet(head)
          BY <1>6, <4>2
        <5>2. p \in Queries /\ Waiting(p) /\ p_domain[p] = o
          BY <1>5, <5>1
        <5> QED
          BY <1>1, <1>4, <4>2, <5>2
      <4> QED
        BY <4>1, <4>2
    <3>2. CASE x # o
      <4>1. domain'[x] = domain[x] /\ domain[x].used
        BY <1>1, <2>1, <3>2
      <4>2. /\ IsInjective(domain[x].p_query_head)
            /\ \A p \in ToSet(domain[x].p_query_head) :
                 Waiting(p) /\ p_domain[p] = x /\ p \in Queries /\ p # q
        BY <1>3, <4>1, ListsOfQueries DEF QueriesInv, DomainLists
      <4> QED
        BY <1>1, <1>4, <4>1, <4>2
    <3> QED
      BY <3>1, <3>2
  <2>2. ASSUME NEW p \in Queries, Waiting(p)'
        PROVE  domain'[p_domain'[p]].used /\ p \in ToSet(domain'[p_domain'[p]].p_query_head)
    <3>1. CASE p = q
      BY <1>1, <1>3, <1>6, <2>2, <3>1
    <3>2. CASE p # q
      <4>1. Waiting(p) /\ p_domain'[p] = p_domain[p]
        BY <1>1, <1>4, <2>2, <3>2
      <4>2. /\ domain[p_domain[p]].used /\ p \in ToSet(domain[p_domain[p]].p_query_head)
            /\ p_domain[p] \in Objects
        BY <4>1 DEF QueriesInv, DomainLists, Waiting, DnsInv, QueriesTyped
      <4>3. CASE p_domain[p] = o
        BY <1>1, <1>6, <4>1, <4>2, <4>3
      <4>4. CASE p_domain[p] # o
        BY <1>1, <4>1, <4>2, <4>4
      <4> QED
        BY <4>3, <4>4
    <3> QED
      BY <3>1, <3>2
  <2> QED
    BY <2>1, <2>2 DEF DomainLists
<1>8. TakenRight'
  <2>1. \A p \in ToSet(cb.queries) : p \in Queries /\ p # q
    BY <1>2, ListsOfQueries
  <2> QED
    BY <1>1, <2>1 DEF QueriesInv, TakenRight
<1>9. StagesRight'
  <2>1. ASSUME NEW p \in Queries PROVE Stages(p)'
    <3>1. CASE p = q
      BY <1>1, <1>2, <3>1 DEF Stages
    <3>2. CASE p # q
      <4>1. Stages(p)
        BY OfQuery
      <4> QED
        BY <1>1, <3>2, <4>1 DEF Stages
    <3> QED
      BY <3>1, <3>2
  <2> QED
    BY <2>1 DEF Stages, StagesRight
<1>10. RefsRight'
  <2>1. ASSUME NEW p \in Queries PROVE Counted(p)'
    <3>1. Counted(p) /\ refs[p] \in Int
      BY OfQuery
    <3>2. CASE p = q
      BY <1>1, <1>2, <1>3, <3>2 DEF Counted, One
    <3>3. CASE p # q
      BY <1>1, <1>4, <3>1, <3>3 DEF Counted, One
    <3> QED
      BY <3>2, <3>3
  <2> QED
    BY <2>1 DEF Counted, RefsRight
<1> QED
  BY <1>7, <1>8, <1>9, <1>10 DEF QueriesInv

\* The second answer: the thread takes all queries of the domain and marks them.
LEMMA SecondLists ==
  ASSUME DnsInv, QueriesInv, NEW o \in Objects, NEW a,
         domain_callback(o, a), SecondAnswer(o, a), HeadTaken(o)
  PROVE  QueriesInv'
<1> DEFINE qs == domain[o].p_query_head
<1>1. /\ asked[o] > 0 /\ task \in {"wait", "add"}
      /\ UNCHANGED <<call, p_domain, inited, refs, cancel, spoilt>>
  BY DEF domain_callback, InAres
<1>2. /\ status' = [q \in Queries |-> IF Contains(qs, q) THEN 1 ELSE status[q]]
      /\ cb'.queries = qs
  BY DEF SecondAnswer
<1>3. domain[o].used /\ cb = NoCb
  BY <1>1, AskedIsUsed DEF DnsInv, TaskTyped
<1>4. cb.queries = <<>> /\ ToSet(cb.queries) = {}
  BY <1>3, EmptyList DEF NoCb
<1>5. qs \in Seq(Queries) /\ ToSet(qs) \subseteq Queries /\ IsInjective(qs)
  BY <1>3, ListsOfQueries DEF QueriesInv, DomainLists
<1>6. \A q \in ToSet(qs) : Waiting(q) /\ p_domain[q] = o
  BY <1>3 DEF QueriesInv, DomainLists
<1> HIDE DEF qs
<1>7. \A q \in Queries : status'[q] = IF q \in ToSet(qs) THEN 1 ELSE status[q]
  BY <1>2, <1>5, ContainsIsIn
<1>8. \A q \in Queries : Waiting(q)' <=> Waiting(q) /\ q \notin ToSet(qs)
  BY <1>1, <1>7 DEF Waiting
<1>9. DomainLists'
  <2>1. ASSUME NEW x \in Objects, domain'[x].used
        PROVE  /\ IsInjective(domain'[x].p_query_head)
               /\ \A p \in ToSet(domain'[x].p_query_head) : Waiting(p)' /\ p_domain'[p] = x
    <3>1. CASE x = o
      BY <3>1, EmptyList DEF HeadTaken
    <3>2. CASE x # o
      <4>1. domain'[x].p_query_head = domain[x].p_query_head /\ domain[x].used
        BY <2>1, <3>2 DEF HeadTaken
      <4>2. /\ IsInjective(domain[x].p_query_head)
            /\ \A p \in ToSet(domain[x].p_query_head) :
                 Waiting(p) /\ p_domain[p] = x /\ p \in Queries
        BY <4>1, ListsOfQueries DEF QueriesInv, DomainLists
      <4>3. \A p \in ToSet(domain[x].p_query_head) : p \notin ToSet(qs)
        BY <1>6, <3>2, <4>2
      <4> QED
        BY <1>1, <1>8, <4>1, <4>2, <4>3
    <3> QED
      BY <3>1, <3>2
  <2>2. ASSUME NEW p \in Queries, Waiting(p)'
        PROVE  domain'[p_domain'[p]].used /\ p \in ToSet(domain'[p_domain'[p]].p_query_head)
    <3>1. Waiting(p) /\ p_domain'[p] = p_domain[p] /\ p \notin ToSet(qs)
      BY <1>1, <1>8, <2>2
    <3>2. /\ domain[p_domain[p]].used /\ p \in ToSet(domain[p_domain[p]].p_query_head)
          /\ p_domain[p] \in Objects
      BY <3>1 DEF QueriesInv, DomainLists, Waiting, DnsInv, QueriesTyped
    <3>3. p_domain[p] # o
      BY <3>1, <3>2 DEF qs
    <3> QED
      BY <3>1, <3>2, <3>3 DEF HeadTaken
  <2> QED
    BY <2>1, <2>2 DEF DomainLists
<1>10. TakenRight'
  <2>1. \A q \in ToSet(qs) : call[q] # NoCall /\ q \in Queries
    BY <1>5, <1>6 DEF Waiting
  <2> QED
    BY <1>1, <1>2, <1>5, <1>7, <2>1 DEF TakenRight
<1>11. StagesRight'
  <2>1. ASSUME NEW p \in Queries PROVE Stages(p)'
    <3>1. Stages(p)
      BY OfQuery
    <3>2. CASE p \in ToSet(qs)
      <4>1. call[p] # NoCall
        BY <1>6, <3>2 DEF Waiting
      <4> QED
        BY <1>1, <1>7, <3>1, <3>2, <4>1 DEF Stages
    <3>3. CASE p \notin ToSet(qs)
      BY <1>1, <1>7, <3>1, <3>3 DEF Stages
    <3> QED
      BY <3>2, <3>3
  <2> QED
    BY <2>1 DEF Stages, StagesRight
<1>12. RefsRight'
  <2>1. ASSUME NEW p \in Queries PROVE Counted(p)'
    <3>1. Counted(p) /\ refs[p] \in Int
      BY OfQuery
    <3>2. p \notin ToSet(cb.queries) /\ (p \in ToSet(cb'.queries) <=> p \in ToSet(qs))
      BY <1>2, <1>4
    <3>3. p \in ToSet(qs) => Waiting(p)
      BY <1>6
    <3> QED
      BY <1>1, <1>8, <3>1, <3>2, <3>3 DEF Counted, One
  <2> QED
    BY <2>1 DEF Counted, RefsRight
<1> QED
  BY <1>9, <1>10, <1>11, <1>12 DEF QueriesInv

\* An answer.
LEMMA AnswerLists ==
  ASSUME DnsInv, QueriesInv, NEW o \in Objects, NEW a \in Lists,
         a # NULL => ref_num[a] = 0, domain_callback(o, a)
  PROVE  QueriesInv'
<1>1. CASE SecondAnswer(o, a)
  <2>1. HeadTaken(o)
    BY <1>1, SecondAnswerStep
  <2> QED
    BY <1>1, <2>1, SecondLists
<1>2. CASE FirstAnswer(o, a)
  <2>1. domain[o].used /\ domain[o] \in Entries
    BY AskedIsUsed DEF domain_callback
  <2>2. domain' = [domain EXCEPT ![o].p_new_addrs = a, ![o].status = @ + 1] /\ UNCHANGED <<cb, status>>
    BY <1>2 DEF FirstAnswer
  <2>3. UNCHANGED <<call, p_domain, closed, inited, refs, cancel, spoilt>>
    BY DEF domain_callback
  <2>4. domain'[o] = [domain[o] EXCEPT !.p_new_addrs = a, !.status = domain[o].status + 1]
    BY <2>1, <2>2 DEF DnsInv, DomainsTyped, Entries
  <2>5. domain'[o].used /\ domain'[o].p_query_head = domain[o].p_query_head
    BY <2>1, <2>4 DEF Entries
  <2>6. \A x \in Objects : x # o => domain'[x] = domain[x]
    BY <2>2 DEF DnsInv, DomainsTyped
  <2>7. UNCHANGED queryVars
    BY <2>2, <2>3 DEF queryVars
  <2> QED
    BY <2>1, <2>2, <2>5, <2>6, <2>7, ListsSame DEF DnsInv
<1> QED
  BY <1>1, <1>2 DEF domain_callback

\* A step of the thread that leaves the queries alone.  A domain that is freed has
\* no query in its list.
LEMMA TaskLists ==
  ASSUME DnsInv, QueriesInv,
         \/ CallbackEnd \/ TakeAdds \/ Ask \/ NextDomain \/ FreeDels
         \/ \E k \in 0 .. Len(old_list) : Expire(k)
  PROVE  QueriesInv'
<1>1. \A o \in Objects : Gone(o) => domain[o].used /\ domain[o].p_query_head = <<>>
  BY DEF DnsInv, Tables, TableRight, FieldsRight
<1>2. domain \in [Objects -> {Free} \cup Entries] /\ ~Free.used /\ QueriesTyped
  BY DEF DnsInv, DomainsTyped, Free
<1>3. CASE CallbackEnd
  <2>1. /\ cb.queries = <<>> /\ cb' = NoCb /\ UNCHANGED queryVars
        /\ domain' = IF cb.del = NULL THEN domain ELSE [domain EXCEPT ![cb.del] = Free]
    BY <1>3 DEF CallbackEnd
  <2>2. \A o \in Objects : domain'[o] = IF Gone(o) /\ o = cb.del THEN Free ELSE domain[o]
    BY <1>2, <2>1, DnsAssumption DEF Gone
  <2>3. cb'.queries = cb.queries
    BY <2>1 DEF NoCb
  <2> QED
    BY <1>1, <1>2, <2>1, <2>2, <2>3, ListsSame
<1>4. CASE TakeAdds \/ Ask \/ NextDomain
  <2>1. UNCHANGED <<queryVars, domain, cb>>
    BY <1>4 DEF TakeAdds, Ask, NextDomain, domainVars
  <2> QED
    BY <1>2, <2>1, ListsSame
<1>5. CASE FreeDels
  <2>1. /\ UNCHANGED <<queryVars, cb>>
        /\ domain' = [o \in Objects |-> IF o \in dels THEN Free ELSE domain[o]]
    BY <1>5 DEF FreeDels
  <2>2. \A o \in dels : Gone(o)
    BY DEF Gone
  <2> QED
    BY <1>1, <1>2, <2>1, <2>2, ListsSame
<1>6. ASSUME NEW k \in 0 .. Len(old_list), Expire(k) PROVE QueriesInv'
  <2> DEFINE old == SubSeq(old_list, 1, k)
  <2>1. /\ UNCHANGED <<queryVars, cb>>
        /\ domain' = [o \in Objects |->
             IF o \in ToSet(old) \ FreeOld(old)
             THEN [domain[o] EXCEPT !.status = @ - DOMAIN_QUERY2] ELSE domain[o]]
    BY <1>6 DEF Expire
  <2> HIDE DEF old
  <2>2. ASSUME NEW o \in Objects
        PROVE  /\ domain'[o].used <=> domain[o].used
               /\ domain[o].used => domain'[o].p_query_head = domain[o].p_query_head
    <3>1. CASE domain'[o] = domain[o]
      BY <3>1
    <3>2. CASE domain'[o] # domain[o]
      <4>1. domain'[o] = [domain[o] EXCEPT !.status = @ - DOMAIN_QUERY2]
        BY <2>1, <3>2
      <4>2. domain[o] \in Entries \/ domain[o] = Free
        BY <1>2
      <4> QED
        BY <4>1, <4>2 DEF Entries, Free
    <3> QED
      BY <3>1, <3>2
  <2> QED
    BY <1>2, <2>1, <2>2, ListsSame
<1> QED
  BY <1>3, <1>4, <1>5, <1>6

\* Every step keeps the lists right.
LEMMA NextLists == DnsInv /\ QueriesInv /\ [Next]_vars /\ ~strayed' => QueriesInv'
<1> SUFFICES ASSUME DnsInv, QueriesInv, [Next]_vars, ~strayed' PROVE QueriesInv'
  OBVIOUS
<1>1. CASE TaskStep
  BY <1>1, NoticeUserLists, TaskLists DEF TaskStep
<1>2. ASSUME NEW o \in Objects, AresStep(o) PROVE QueriesInv'
  <2>1. CASE AnswerFound(o)
    <3>1. new_addrs \in Lists /\ ref_num[new_addrs] = 0 /\ domain_callback(o, new_addrs)
      BY <2>1, FreshAddrs DEF AnswerFound, Lists
    <3> QED
      BY <3>1, AnswerLists
  <2>2. CASE AnswerNone(o)
    <3>1. domain_callback(o, NULL) /\ NULL \in Lists
      BY <2>2 DEF AnswerNone, Lists
    <3> QED
      BY <3>1, AnswerLists
  <2> QED
    BY <1>2, <2>1, <2>2 DEF AresStep
<1>3. ASSUME NEW q \in Queries, CallStep(q) PROVE QueriesInv'
  BY <1>3, StoreStatusLists, InitDoneLists, OwnNoticeLists, AddDomainLists, CancelTestLists,
     CancelQueryLists DEF CallStep
<1>4. ASSUME NEW q \in Queries, ClientCall(q) PROVE QueriesInv'
  <2>1. ASSUME NEW ask \in Asks[q], ask[1] # Numeric, moon_getaddrinfo(q, ask[1], ask[2])
        PROVE  QueriesInv'
    <3>1. ask \in (Domains \cup {Numeric}) \X Flags
      BY DnsAssumption
    <3>2. ask[1] \in Domains /\ ask[2] \in Flags
      BY <2>1, <3>1
    <3>3. Joined(q)
      BY <2>1, <3>2, GetStep
    <3> QED
      BY <3>3, GetLists
  <2> QED
    BY <1>4, <2>1, NumericHostLists, GetFailsLists, ClientCloseLists DEF ClientCall
<1>5. CASE UNCHANGED vars
  <2>1. UNCHANGED <<queryVars, domain, cb>> /\ QueriesTyped
    BY <1>5 DEF vars, domainVars, taskVars, DnsInv
  <2> QED
    BY <2>1, ListsSame
<1> QED
  BY <1>1, <1>2, <1>3, <1>4, <1>5 DEF Next

\* No query is in a list at first.
LEMMA InitLists == Init => QueriesInv
<1> SUFFICES ASSUME Init PROVE QueriesInv
  OBVIOUS
<1>1. /\ call = [q \in Queries |-> NoCall] /\ status = [q \in Queries |-> 0]
      /\ inited = [q \in Queries |-> FALSE] /\ refs = [q \in Queries |-> 1]
      /\ cancel = [q \in Queries |-> "no"] /\ cb.queries = <<>> /\ spoilt = {}
  BY DEF Init, NoCb
<1>2. \A q \in Queries : ~Waiting(q)
  BY <1>1 DEF Waiting
<1>3. \A o \in Objects : domain[o].used => domain[o].p_query_head = <<>>
  <2>1. CASE EmptyCache
    BY <2>1 DEF EmptyCache, Free
  <2>2. ASSUME NEW d \in Domains, FilledCache(d)
        PROVE  \A o \in Objects : domain[o].used => domain[o].p_query_head = <<>>
    BY <2>2 DEF FilledCache, Free
  <2> QED
    BY <2>1, <2>2 DEF Init
<1>4. DomainLists
  BY <1>2, <1>3, EmptyList DEF DomainLists
<1>5. TakenRight
  BY <1>1, EmptyList DEF TakenRight
<1>6. StagesRight
  BY <1>1 DEF StagesRight
<1>7. RefsRight
  BY <1>1, <1>2, EmptyList DEF RefsRight, One
<1> QED
  BY <1>4, <1>5, <1>6, <1>7 DEF QueriesInv

\* The lists that the invariants put a query in.
LEMMA InLists ==
  ASSUME DnsInv, QueriesInv, NEW q \in Queries
  PROVE  In(q) = One(q \in ToSet(cb.queries)) + One(Waiting(q))
<1> DEFINE S == {o \in Live : Contains(domain[o].p_query_head, q)}
<1>1. Times(cb.queries, q) = One(q \in ToSet(cb.queries))
  BY ListsOfQueries, TimesOnce DEF QueriesInv, TakenRight
<1>2. S = {o \in Objects : domain[o].used /\ q \in ToSet(domain[o].p_query_head)}
  BY ListsOfQueries, ContainsIsIn DEF Live
<1>3. CASE Waiting(q)
  <2>1. /\ domain[p_domain[q]].used /\ q \in ToSet(domain[p_domain[q]].p_query_head)
        /\ p_domain[q] \in Objects
    BY <1>3 DEF QueriesInv, DomainLists, Waiting, DnsInv, QueriesTyped
  <2>2. \A o \in S : o = p_domain[q]
    BY <1>2 DEF QueriesInv, DomainLists
  <2>3. S = {p_domain[q]}
    BY <1>2, <2>1, <2>2
  <2> QED
    BY <1>1, <1>3, <2>3, FS_Singleton DEF In, One
<1>4. CASE ~Waiting(q)
  <2>1. S = {}
    BY <1>2, <1>4 DEF QueriesInv, DomainLists
  <2> QED
    BY <1>1, <1>4, <2>1, FS_EmptySet DEF In, One
<1> QED
  BY <1>3, <1>4

\* Until the loop strays, and but for the queries that line 404 marks as waiting after
\* they were taken out and those that are lost with one of them: every query is in one
\* list at most, with a reference for it, and the thread and cancel_query never both
\* take it out.
THEOREM QueriesAreRight == Spec => []QueriesRight
<1>1. Init => strayed \/ (DnsInv /\ QueriesInv)
  BY InitRight, InitLists
<1>2. (strayed \/ (DnsInv /\ QueriesInv)) /\ [Next]_vars => (strayed \/ (DnsInv /\ QueriesInv))'
  BY StrayedStays, NextRight, NextLists
<1>3. strayed \/ (DnsInv /\ QueriesInv) => QueriesRight
  <2> SUFFICES ASSUME DnsInv, QueriesInv, NEW q \in Queries, q \notin spoilt
               PROVE  QueryRight(q)
    BY DEF QueriesRight
  <2>1. /\ Stages(q) /\ Counted(q)
        /\ q \in ToSet(cb.queries) => status[q] = 1
        /\ call[q] # NoCall => call[q] \in Calls
    BY OfQuery
  <2>2. In(q) = One(q \in ToSet(cb.queries)) + One(Waiting(q))
    BY InLists
  <2>3. refs[q] = 1 + In(q) + (IF call[q] # NoCall /\ call[q].at = "notice" THEN 1 ELSE 0)
    BY <2>1, <2>2 DEF Counted, One
  <2>4. In(q) <= 1
    BY <2>1, <2>2 DEF One, Waiting
  <2>5. ASSUME call[q] # NoCall, call[q].at # "unlocked", status[q] = 0
        PROVE  p_domain[q] \in Live /\ Contains(domain[p_domain[q]].p_query_head, q)
    <3>1. Waiting(q)
      BY <2>1, <2>5 DEF Stages, Waiting
    <3>2. /\ domain[p_domain[q]].used /\ q \in ToSet(domain[p_domain[q]].p_query_head)
          /\ p_domain[q] \in Objects
      BY <3>1 DEF QueriesInv, DomainLists, Waiting, DnsInv, QueriesTyped
    <3> QED
      BY <3>2, ListsOfQueries, ContainsIsIn DEF Live
  <2> QED
    BY <2>3, <2>4, <2>5 DEF QueryRight
<1> QED
  BY <1>1, <1>2, <1>3, PTL DEF Spec
=============================================================================
