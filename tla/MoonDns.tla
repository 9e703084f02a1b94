------------------------------ MODULE MoonDns -------------------------------
(***************************************************************************)
(* moon_dns.c: clients ask for the addresses of a domain, the thread       *)
(* dns_task asks c-ares, and the domains that were found are cached.       *)
(*                                                                         *)
(* A query is the dns end of a one-way pipe (MoonPipe); of the pipe only   *)
(* the reference count, "closed by one side" and the end of the set-up are *)
(* kept.  A domain is an object of its own, because one that left the hash *)
(* table may still be in use while a second one with its name is created.  *)
(* Addresses are objects with a reference count; what is in them is left   *)
(* out, and so is their age: a client may find the addresses too old or    *)
(* not, and dns_task finds some of the oldest expired.                     *)
(*                                                                         *)
(* A critical section of the mutex is one step.  c-ares (external) answers *)
(* every request once, with addresses or without: from ares_process_fd, or *)
(* at once from ares_gethostbyname (a name in the hosts file, a socket     *)
(* that cannot be opened).                                                 *)
(***************************************************************************)
EXTENDS Integers, Sequences, FiniteSets, SequencesExt

CONSTANTS
  Queries,         \* the pipes of the clients, one call each
  Domains,         \* names
  Asks,            \* Asks[q]: what the client of q may ask for, with which flag
  Objects,         \* memory for domains
  Addrs,           \* memory for lists of addresses
  DNS_CACHE_NUM,
  NULL

Flags == {"none", "clear", "dont_use"}

\* A host that is an address already.
Numeric == "numeric"

ASSUME DnsAssumption ==
  /\ IsFiniteSet(Queries) /\ IsFiniteSet(Objects)
  /\ DNS_CACHE_NUM \in Nat \ {0}
  /\ Asks \in [Queries -> SUBSET ((Domains \cup {Numeric}) \X Flags)]
  /\ NULL \notin Objects \cup Addrs

DOMAIN_QUERYING == 1
DOMAIN_QUERY1 == 2
DOMAIN_QUERY2 == 3
DOMAIN_NEW_QUERYING == 4
DOMAIN_NEW_QUERY1 == 5

VARIABLES
  domain,        \* the dns_domain_s of every object
  table,         \* domain_table: the object of a name
  old_list,      \* the domains from p_domain_head to p_domain_tail
  domain_num,
  ref_num,       \* of the addresses; 0 is free memory
  p_add_cares,   \* domains that dns_task has to ask for
  asked,         \* asked[o]: requests c-ares has yet to answer, both of p_list's included
  call,          \* where moon_getaddrinfo is, with its local variables
  status,        \* dns_query_s.status
  p_domain,      \* dns_query_s.p_domain
  closed,        \* the pipe is closed
  inited,        \* init_done was called
  refs,          \* references to the pipe of the query
  cancel,        \* where cancel_query is
  task,          \* where dns_task is
  p_list,        \* the domain it is asking for, or NULL
  todo,          \* the domains it has yet to ask for: what p_list->next leads to
  strayed,       \* history: p_list->next has led it somewhere else
  cb,            \* the local variables of domain_callback
  dels,          \* p_domain_del
  spoilt         \* history: queries marked as waiting again after they were taken
                 \* out, and those that were lost when such a query was cancelled

queryVars == <<call, status, p_domain, closed, inited, refs, cancel, spoilt>>
domainVars == <<domain, table, old_list, domain_num>>
aresVars == <<p_add_cares, asked>>
taskVars == <<task, p_list, todo, strayed, cb, dels>>
vars == <<queryVars, domainVars, ref_num, aresVars, taskVars>>

Free == [used |-> FALSE]

NoCall == [at |-> "none"]

NoCb == [queries |-> <<>>, addrs |-> NULL, old |-> NULL, answer |-> NULL, del |-> NULL]

\* dns_private_s as get_dnsinstance leaves it.
EmptyCache ==
  /\ domain = [o \in Objects |-> Free]
  /\ table = [d \in Domains |-> NULL]
  /\ old_list = <<>>
  /\ domain_num = 0
  /\ ref_num = [a \in Addrs |-> 0]

\* The cache after an earlier query for domain d was answered.
FilledCache(d) ==
  LET o == CHOOSE x \in Objects : TRUE
      a == CHOOSE x \in Addrs : TRUE
  IN /\ Objects # {} /\ Addrs # {}
     /\ domain = [x \in Objects |-> IF x # o THEN Free ELSE
                    [used |-> TRUE, name |-> d, status |-> DOMAIN_QUERY2, p_addrs |-> a,
                     p_new_addrs |-> NULL, p_query_head |-> <<>>]]
     /\ table = [x \in Domains |-> IF x = d THEN o ELSE NULL]
     /\ old_list = <<o>>
     /\ domain_num = 1
     /\ ref_num = [x \in Addrs |-> IF x = a THEN 1 ELSE 0]

Init ==
  /\ EmptyCache \/ \E d \in Domains : FilledCache(d)
  /\ p_add_cares = <<>>
  /\ asked = [o \in Objects |-> 0]
  /\ call = [q \in Queries |-> NoCall]
  /\ status = [q \in Queries |-> 0]
  /\ p_domain = [q \in Queries |-> NULL]
  /\ closed = [q \in Queries |-> FALSE]
  /\ inited = [q \in Queries |-> FALSE]
  /\ refs = [q \in Queries |-> 1]
  /\ cancel = [q \in Queries |-> "no"]
  /\ task = "wait"
  /\ p_list = NULL
  /\ todo = <<>>
  /\ strayed = FALSE
  /\ cb = NoCb
  /\ dels = {}
  /\ spoilt = {}

-----------------------------------------------------------------------------
(* Lists and reference counts *)

\* dlist_insert before the head of a list: the element is the new head.
dlist_insert(head, x) == <<x>> \o head

\* dlist_insert before p_domain_tail: the youngest.
InsertTail(list, x) == Append(list, x)

\* dlist_del: the neighbours of the element are linked to each other.
dlist_del(list, x) ==
  IF Contains(list, x)
  THEN LET k == CHOOSE i \in DOMAIN list : list[i] = x
       IN [i \in 1 .. Len(list) - 1 |-> IF i < k THEN list[i] ELSE list[i + 1]]
  ELSE list

\* How often x occurs in a list.
Times(list, x) == Cardinality({i \in DOMAIN list : list[i] = x})

\* new_addrs: memory with one reference.
new_addrs == CHOOSE a \in Addrs : ref_num[a] = 0

\* GC_REF_INC, nothing for NULL.
addrs_ref_inc(rn, a) == IF a = NULL THEN rn ELSE [rn EXCEPT ![a] = @ + 1]

\* addrs_ref_dec, nothing for NULL; the last reference frees the memory.
addrs_ref_dec(rn, a) == IF a = NULL THEN rn ELSE [rn EXCEPT ![a] = @ - 1]

\* The addresses of all domains in gone.
DropAll(rn, gone) == [a \in Addrs |-> rn[a] - Cardinality({o \in gone : domain[o].p_addrs = a})]

\* hash_malloc
NewObject == CHOOSE o \in Objects : ~domain[o].used

\* hash_search with room for a new domain: the object found, or a fresh one.
hash_search(d) == IF table[d] # NULL THEN table[d] ELSE NewObject

\* The domain as calloc leaves it.
Fresh(d) ==
  [used |-> TRUE, name |-> d, status |-> 0, p_addrs |-> NULL, p_new_addrs |-> NULL,
   p_query_head |-> <<>>]

Found(d) == IF table[d] # NULL THEN domain[table[d]] ELSE Fresh(d)

\* The link of domain o is written.  The loop of dns_task (line 692) follows it
\* afterwards if o is the domain it is asking for.
Link(o, next) ==
  /\ todo' = IF p_list = o THEN next ELSE todo
  /\ strayed' = (strayed \/ todo' # todo)

\* hash_del of every domain in gone.
hash_del(tab, gone) == [d \in Domains |-> IF tab[d] \in gone THEN NULL ELSE tab[d]]

-----------------------------------------------------------------------------
(* moon_getaddrinfo *)

\* The query joins the list of a domain in status s, unless cached addresses do.
Joins(s, flag) == s < DOMAIN_QUERY2 \/ flag # "none"

\* Variant of IsNew that asks for unknown domains only.
IsNew_Unknown(s, flag) == s = 0

\* The domain has to be asked for, and nobody does yet.
IsNew(s, flag) == s = 0 \/ (s = DOMAIN_QUERY2 /\ flag # "none")

\* Variant of Leaves that keeps the domain in the cache.
Leaves_Never(s, flag) == FALSE

\* The domain leaves the cache.
Leaves(s, flag) == s >= DOMAIN_QUERY2 /\ flag = "clear"

\* The status of the domain after the call.
NewStatus(s, flag) ==
  (IF s >= DOMAIN_QUERY2 /\ flag = "clear" THEN s - DOMAIN_QUERY2 ELSE s)
  + (IF IsNew(s, flag) THEN 1 ELSE 0)

\* The critical section.  A flag counts only if the client takes the cached
\* addresses for too old, so the flag is the one that counts.
moon_getaddrinfo(q, d, flag) ==
  LET o == hash_search(d)
      s == Found(d).status
      add == Joins(s, flag)
      taken == IF add THEN NULL ELSE Found(d).p_addrs
  IN /\ call[q] = NoCall
     /\ table[d] = NULL => \E x \in Objects : ~domain[x].used
     /\ domain' = [domain EXCEPT ![o] =
          [Found(d) EXCEPT !.status = NewStatus(s, flag),
                           !.p_query_head = IF add THEN dlist_insert(@, q) ELSE @]]
     /\ table' = [table EXCEPT ![d] = o]
     /\ old_list' = IF Leaves(s, flag) THEN dlist_del(old_list, o) ELSE old_list
     /\ domain_num' = IF Leaves(s, flag) THEN domain_num - 1 ELSE domain_num
     /\ ref_num' = addrs_ref_inc(ref_num, taken)
     /\ refs' = [refs EXCEPT ![q] = IF add THEN @ + 1 ELSE @]
     /\ p_domain' = [p_domain EXCEPT ![q] = IF add THEN o ELSE @]
     /\ call' = [call EXCEPT ![q] =
          [at |-> "unlocked", add |-> add, fail |-> FALSE, addrs |-> taken,
           new |-> IF IsNew(s, flag) THEN o ELSE NULL]]
     /\ IF table[d] = NULL THEN Link(o, <<>>) ELSE UNCHANGED <<todo, strayed>>
     /\ UNCHANGED <<status, closed, inited, cancel, spoilt, aresVars, task, p_list, cb, dels>>

\* A numeric host needs no question: the client gets an address of its own.
NumericHost(q) ==
  LET a == new_addrs IN
  /\ call[q] = NoCall
  /\ \E x \in Addrs : ref_num[x] = 0
  /\ ref_num' = [ref_num EXCEPT ![a] = 1]
  /\ call' = [call EXCEPT ![q] =
       [at |-> "unlocked", add |-> FALSE, fail |-> FALSE, addrs |-> a, new |-> NULL]]
  /\ UNCHANGED <<status, p_domain, closed, inited, refs, cancel, spoilt,
                 domainVars, aresVars, taskVars>>

\* No memory for a domain, or for a numeric address.
GetFails(q) ==
  /\ call[q] = NoCall
  /\ call' = [call EXCEPT ![q] =
       [at |-> "unlocked", add |-> FALSE, fail |-> TRUE, addrs |-> NULL, new |-> NULL]]
  /\ UNCHANGED <<status, p_domain, closed, inited, refs, cancel, spoilt,
                 domainVars, ref_num, aresVars, taskVars>>

\* p_query->status = add_query ^ 1, without the mutex: the answers may have come
\* since it was released, and taken the query out.
StoreStatus(q) ==
  /\ call[q].at = "unlocked"
  /\ status' = [status EXCEPT ![q] = IF call[q].add THEN 0 ELSE 1]
  /\ spoilt' = IF call[q].add /\ status[q] = 1 THEN spoilt \cup {q} ELSE spoilt
  /\ call' = [call EXCEPT ![q].at = "stored"]
  /\ UNCHANGED <<p_domain, closed, inited, refs, cancel,
                 domainVars, ref_num, aresVars, taskVars>>

\* init_done.  A failed call closes the dns end.  When a client has closed its
\* end during the set-up its callback, cancel_query, is called now.
init_done(q) ==
  /\ call[q].at = "stored"
  /\ inited' = [inited EXCEPT ![q] = TRUE]
  /\ closed' = [closed EXCEPT ![q] = @ \/ call[q].fail]
  /\ cancel' = [cancel EXCEPT ![q] = IF @ = "pending" THEN "called" ELSE @]
  /\ refs' = [refs EXCEPT ![q] = IF call[q].addrs # NULL THEN @ + 1 ELSE @]
  /\ call' = [call EXCEPT ![q].fail = FALSE, ![q].at =
       IF call[q].addrs # NULL THEN "notice" ELSE IF call[q].new # NULL THEN "push" ELSE "done"]
  /\ UNCHANGED <<status, p_domain, spoilt, domainVars, ref_num, aresVars, taskVars>>

\* notice_user for the client's own query: on_getaddrinfo unless the pipe is
\* closed, close, ref_dec of the pipe and of the addresses.
OwnNotice(q) ==
  /\ call[q].at = "notice"
  /\ closed' = [closed EXCEPT ![q] = TRUE]
  /\ refs' = [refs EXCEPT ![q] = @ - 1]
  /\ ref_num' = addrs_ref_dec(ref_num, call[q].addrs)
  /\ call' = [call EXCEPT ![q].at = "done", ![q].addrs = NULL]
  /\ UNCHANGED <<status, p_domain, inited, cancel, spoilt, domainVars, aresVars, taskVars>>

\* add_domain_to_query: the domain is linked to the head of the list.
add_domain_to_query(q) ==
  /\ call[q].at = "push"
  /\ p_add_cares' = <<call[q].new>> \o p_add_cares
  /\ Link(call[q].new, p_add_cares)
  /\ call' = [call EXCEPT ![q].at = "done", ![q].new = NULL]
  /\ UNCHANGED <<status, p_domain, closed, inited, refs, cancel, spoilt,
                 domainVars, ref_num, asked, task, p_list, cb, dels>>

-----------------------------------------------------------------------------
(* The client closes its end of the pipe *)

\* close.  cancel_query is called when the point was set (a query that joined
\* a list) and only once the set-up is over.
ClientClose(q) ==
  /\ call[q] # NoCall
  /\ ~closed[q]
  /\ closed' = [closed EXCEPT ![q] = TRUE]
  /\ cancel' = [cancel EXCEPT ![q] =
       IF ~call[q].add THEN "no" ELSE IF inited[q] THEN "called" ELSE "pending"]
  /\ UNCHANGED <<call, status, p_domain, inited, refs, spoilt,
                 domainVars, ref_num, aresVars, taskVars>>

\* The test without the mutex.
CancelTest(q) ==
  /\ cancel[q] = "called"
  /\ cancel' = [cancel EXCEPT ![q] = IF status[q] # 0 THEN "no" ELSE "tested"]
  /\ UNCHANGED <<call, status, p_domain, closed, inited, refs, spoilt,
                 domainVars, ref_num, aresVars, taskVars>>

\* Variant of MayCancel that does not test again under the mutex.
MayCancel_NoTest(q) == TRUE

\* The second test, with the mutex.
MayCancel(q) == status[q] = 0

\* What dlist_del(q) leaves of the queries notice_user has yet to tell: it has a
\* pointer to the first of them, and goes on to none if that one loses its link.
Untold(q) ==
  IF cb.queries # <<>> /\ Head(cb.queries) = q THEN <<q>> ELSE dlist_del(cb.queries, q)

\* The query is taken out of its list, and its reference is dropped.
cancel_query(q) ==
  /\ cancel[q] = "tested"
  /\ IF MayCancel(q)
     THEN /\ domain' = IF domain[p_domain[q]].used
                       THEN [domain EXCEPT ![p_domain[q]].p_query_head = dlist_del(@, q)]
                       ELSE domain
          /\ cb' = [cb EXCEPT !.queries = Untold(q)]
          /\ spoilt' = spoilt \cup (ToSet(cb.queries) \ ToSet(Untold(q)))
          /\ status' = [status EXCEPT ![q] = 1]
          /\ refs' = [refs EXCEPT ![q] = @ - 1]
     ELSE UNCHANGED <<domain, cb, spoilt, status, refs>>
  /\ cancel' = [cancel EXCEPT ![q] = "no"]
  /\ UNCHANGED <<call, p_domain, closed, inited,
                 table, old_list, domain_num, ref_num, aresVars, task,
                 p_list, todo, strayed, dels>>

-----------------------------------------------------------------------------
(* domain_callback *)

\* merge_addrs: the addresses of the domain after its second answer, a.
\* The first answer's list takes in the elements of the second's.
Merged(o, a) == IF domain[o].p_new_addrs # NULL THEN domain[o].p_new_addrs ELSE a

\* merge_addrs: the domain takes a reference to a only when it keeps a itself.
MergeRefs(rn, o, a) == IF domain[o].p_new_addrs # NULL THEN rn ELSE addrs_ref_inc(rn, a)

\* The first of the two answers is kept until the second comes.
FirstAnswer(o, a) ==
  /\ domain[o].status \in {DOMAIN_QUERYING, DOMAIN_NEW_QUERYING}
  /\ domain' = [domain EXCEPT ![o].p_new_addrs = a, ![o].status = @ + 1]
  /\ ref_num' = addrs_ref_inc(ref_num, a)
  /\ UNCHANGED <<table, old_list, domain_num, status, cb, task>>

\* Variant of Evicted that throws out a domain that is being asked for, too.
Evicted_Any(o) == TRUE

\* A domain pushed out of the cache is freed only if it is not being asked for.
Evicted(o) == domain[o].status = DOMAIN_QUERY2

\* The addresses that are handed to the waiting queries.
Queried(qs, a) == IF qs = <<>> THEN NULL ELSE a

\* The second answer: the domain becomes the youngest of the cache, the oldest
\* may have to go; or it is freed if nothing was found.  The queries are taken
\* out of its list.
SecondAnswer(o, a) ==
  LET found == Merged(o, a)
      qs == domain[o].p_query_head
      again == domain[o].status = DOMAIN_NEW_QUERY1
      others == IF again THEN dlist_del(old_list, o) ELSE old_list
      num == domain_num - (IF again THEN 1 ELSE 0)
      list == InsertTail(others, o)
      full == num + 1 > DNS_CACHE_NUM
      oldest == Head(list)
      kept == [domain EXCEPT ![o].status = DOMAIN_QUERY2, ![o].p_addrs = found,
                             ![o].p_new_addrs = NULL, ![o].p_query_head = <<>>]
      own == IF a = NULL THEN ref_num ELSE [ref_num EXCEPT ![a] = 1]
      del == CASE found = NULL -> o
               [] found # NULL /\ full /\ Evicted(oldest) -> oldest
               [] OTHER -> NULL
  IN /\ domain[o].status \in {DOMAIN_QUERY1, DOMAIN_NEW_QUERY1}
     /\ status' = [q \in Queries |-> IF Contains(qs, q) THEN 1 ELSE status[q]]
     /\ ref_num' = addrs_ref_inc(MergeRefs(own, o, a), Queried(qs, found))
     /\ cb' = [queries |-> qs, addrs |-> Queried(qs, found), old |-> domain[o].p_addrs,
               answer |-> a, del |-> del]
     /\ old_list' = IF found = NULL THEN others ELSE IF full THEN Tail(list) ELSE list
     /\ domain_num' = IF found = NULL \/ full THEN num ELSE num + 1
     /\ table' = IF del = NULL THEN table ELSE hash_del(table, {del})
     /\ domain' = IF found # NULL /\ full /\ ~Evicted(oldest)
                  THEN [kept EXCEPT ![oldest].status = @ - DOMAIN_QUERY2]
                  ELSE kept
     /\ task' = "notice"

\* c-ares runs: dns_task is in ares_process_fd or in ares_gethostbyname.
InAres == task = "wait" \/ (task = "add" /\ p_list # NULL)

\* The answer to one request: a new list of addresses (save_addrs), or none
\* because c-ares found nothing or there is no memory.  What it does to a domain
\* that rests in the cache or was freed is left out: only a loop that has strayed
\* asks for too much.
domain_callback(o, a) ==
  /\ InAres
  /\ asked[o] > 0 /\ domain[o].used
  /\ asked' = [asked EXCEPT ![o] = @ - 1]
  /\ FirstAnswer(o, a) \/ SecondAnswer(o, a)
  /\ UNCHANGED <<call, p_domain, closed, inited, refs, cancel, spoilt, p_add_cares,
                 p_list, todo, strayed, dels>>

\* With addresses, if there is memory for them.
AnswerFound(o) == (\E x \in Addrs : ref_num[x] = 0) /\ domain_callback(o, new_addrs)

AnswerNone(o) == domain_callback(o, NULL)

\* notice_user for the first of the queries: on_getaddrinfo, if there are
\* addresses and the pipe is open; close and ref_dec of the pipe.
notice_user ==
  LET q == Head(cb.queries) IN
  /\ task = "notice" /\ cb.queries # <<>>
  /\ closed' = [closed EXCEPT ![q] = TRUE]
  /\ refs' = [refs EXCEPT ![q] = @ - 1]
  /\ cb' = [cb EXCEPT !.queries = Tail(@)]
  /\ UNCHANGED <<call, status, p_domain, inited, cancel, spoilt,
                 domainVars, ref_num, aresVars, task,
                 p_list, todo, strayed, dels>>

\* The end of notice_user and of domain_callback: references are dropped, the
\* domain that left the table is freed.
CallbackEnd ==
  LET kept == addrs_ref_dec(addrs_ref_dec(addrs_ref_dec(ref_num, cb.addrs), cb.old), cb.answer)
  IN
  /\ task = "notice" /\ cb.queries = <<>>
  /\ ref_num' = IF cb.del = NULL THEN kept ELSE addrs_ref_dec(kept, domain[cb.del].p_addrs)
  /\ domain' = IF cb.del = NULL THEN domain ELSE [domain EXCEPT ![cb.del] = Free]
  /\ cb' = NoCb
  /\ task' = IF p_list = NULL THEN "wait" ELSE "add"
  /\ UNCHANGED <<queryVars, table, old_list, domain_num, aresVars,
                 p_list, todo, strayed, dels>>

-----------------------------------------------------------------------------
(* dns_task *)

\* The new domains are taken over.
TakeAdds ==
  /\ task = "wait"
  /\ todo' = p_add_cares
  /\ p_add_cares' = <<>>
  /\ task' = "add"
  /\ UNCHANGED <<queryVars, domainVars, ref_num, asked, p_list, strayed, cb, dels>>

\* ares_gethostbyname, for IPv6 and for IPv4.  Until they return c-ares may answer
\* any request, these two included.
Ask ==
  /\ task = "add" /\ p_list = NULL /\ todo # <<>>
  /\ p_list' = Head(todo)
  /\ asked' = [asked EXCEPT ![Head(todo)] = @ + 2]
  /\ todo' = Tail(todo)
  /\ UNCHANGED <<queryVars, domainVars, ref_num, p_add_cares, task, strayed, cb, dels>>

\* p_list = p_list->next.  If the domain was freed its memory may still hold the
\* link, or somebody else's zeros.
NextDomain ==
  /\ task = "add" /\ p_list # NULL
  /\ \E next \in (IF domain[p_list].used THEN {todo} ELSE {todo, <<>>}) : Link(p_list, next)
  /\ p_list' = NULL
  /\ UNCHANGED <<queryVars, domainVars, ref_num, aresVars, task, cb, dels>>

\* Of the domains that are too old the ones that are not being asked for go.
FreeOld(old) == {o \in ToSet(old) : domain[o].status = DOMAIN_QUERY2}

\* The k oldest domains have expired.
Expire(k) ==
  LET old == SubSeq(old_list, 1, k) IN
  /\ task = "add" /\ p_list = NULL /\ todo = <<>>
  /\ old_list' = SubSeq(old_list, k + 1, Len(old_list))
  /\ domain_num' = domain_num - k
  /\ dels' = FreeOld(old)
  /\ table' = hash_del(table, FreeOld(old))
  /\ domain' = [o \in Objects |->
       IF o \in ToSet(old) \ FreeOld(old)
       THEN [domain[o] EXCEPT !.status = @ - DOMAIN_QUERY2] ELSE domain[o]]
  /\ task' = IF FreeOld(old) = {} THEN "wait" ELSE "free"
  /\ UNCHANGED <<queryVars, ref_num, aresVars, p_list, todo, strayed, cb>>

\* They are freed without the mutex.
FreeDels ==
  /\ task = "free"
  /\ ref_num' = DropAll(ref_num, dels)
  /\ domain' = [o \in Objects |-> IF o \in dels THEN Free ELSE domain[o]]
  /\ dels' = {}
  /\ task' = "wait"
  /\ UNCHANGED <<queryVars, table, old_list, domain_num, aresVars,
                 p_list, todo, strayed, cb>>

-----------------------------------------------------------------------------
TaskStep ==
  \/ notice_user \/ CallbackEnd
  \/ TakeAdds \/ Ask \/ NextDomain \/ FreeDels
  \/ \E k \in 0 .. Len(old_list) : Expire(k)

AresStep(o) == AnswerFound(o) \/ AnswerNone(o)

\* A call that a client has begun.
CallStep(q) ==
  \/ StoreStatus(q) \/ init_done(q) \/ OwnNotice(q) \/ add_domain_to_query(q)
  \/ CancelTest(q) \/ cancel_query(q)

\* Calls that clients may make.
ClientCall(q) ==
  \/ \E ask \in Asks[q] :
       \/ ask[1] # Numeric /\ moon_getaddrinfo(q, ask[1], ask[2])
       \/ ask[1] = Numeric /\ (NumericHost(q) \/ GetFails(q))
  \/ ClientClose(q)

Next ==
  \/ TaskStep
  \/ \E o \in Objects : AresStep(o)
  \/ \E q \in Queries : CallStep(q) \/ ClientCall(q)

Spec == Init /\ [][Next]_vars

\* Threads keep running; epoll_wait returns after a second at the latest and
\* c-ares, called each time, gives up on a request after one try.
Fairness ==
  /\ WF_vars(TaskStep)
  /\ \A o \in Objects : SF_vars(AresStep(o))
  /\ \A q \in Queries : WF_vars(CallStep(q))

FairSpec == Spec /\ Fairness

-----------------------------------------------------------------------------
(* Safety *)

Live == {o \in Objects : domain[o].used}

\* The requests and future requests that refer to domain o.
Pending(o) ==
  asked[o] + 2 * (Times(p_add_cares, o) + Times(todo, o)
                  + Cardinality({q \in Queries : call[q] # NoCall /\ call[q].new = o}))

\* Two requests are made for a domain, as the comment at line 68 says: every domain
\* in use has as many answers to come as its status says, none when it rests in
\* the cache and otherwise two or one, and memory that is free has none.
TwoRequests ==
  \A o \in Objects :
    IF o \notin Live THEN Pending(o) = 0
    ELSE LET s == domain[o].status IN
         /\ s \in DOMAIN_QUERYING .. DOMAIN_NEW_QUERY1
         /\ Pending(o) = CASE s \in {DOMAIN_QUERYING, DOMAIN_NEW_QUERYING} -> 2
                           [] s \in {DOMAIN_QUERY1, DOMAIN_NEW_QUERY1} -> 1
                           [] s = DOMAIN_QUERY2 -> 0

\* Whatever clients, answers at once and the thread have done to a domain, its
\* requests match its status, unless the loop of dns_task has followed the link of a
\* domain that was answered while it was asking (line 692).  So a domain is not
\* freed while c-ares, the list p_add_cares or a caller that will add it refers
\* to it (lines 570-585, 701-731), and never left with queries but without a
\* request (lines 360-391).
RequestsMatchStatus == strayed \/ TwoRequests

\* The old list holds exactly the domains whose cached addresses may be handed
\* out, once, with their addresses; domain_num is its length and stays within
\* DNS_CACHE_NUM; the table has one object for a name and finds it (lines
\* 361-385, 548-590, 698-722).
TablesRight ==
  /\ IsInjective(old_list)
  /\ domain_num = Len(old_list) /\ domain_num <= DNS_CACHE_NUM
  /\ \A o \in Live :
       LET gone == cb.del = o \/ o \in dels IN
       /\ gone \/ table[domain[o].name] = o
       /\ gone <=> table[domain[o].name] # o
       /\ ~gone => (Contains(old_list, o) <=> domain[o].status >= DOMAIN_QUERY2)
       /\ Contains(old_list, o) => domain[o].p_addrs # NULL
  /\ \A d \in Domains : table[d] # NULL => table[d] \in Live /\ domain[table[d]].name = d

Holders(a) ==
    Cardinality({o \in Live : domain[o].p_addrs = a})
  + Cardinality({o \in Live : domain[o].p_new_addrs = a})
  + Cardinality({q \in Queries : call[q] # NoCall /\ call[q].addrs = a})
  + Times(<<cb.addrs, cb.old, cb.answer>>, a)

\* The count of a list of addresses is the number of those who hold it: a
\* domain, as its old or its new addresses, a caller that is about to hand it
\* on, the thread between its critical section and its ref_dec (lines 463-602).
AddrsCounted == \A a \in Addrs : ref_num[a] = Holders(a)

\* What the cache hands out is alive and is given up when it is dropped.
CacheRight == strayed \/ (TablesRight /\ AddrsCounted)

\* The lists a query is in: of its domain or of the thread.
In(q) ==
  Times(cb.queries, q)
  + Cardinality({o \in Live : Contains(domain[o].p_query_head, q)})

\* The reference and the list of a query.
QueryRight(q) ==
  /\ refs[q] = 1 + In(q) + (IF call[q] # NoCall /\ call[q].at = "notice" THEN 1 ELSE 0)
  /\ In(q) <= 1
  /\ (call[q] # NoCall /\ call[q].at # "unlocked" /\ status[q] = 0) =>
       p_domain[q] \in Live /\ Contains(domain[p_domain[q]].p_query_head, q)

\* A query whose call has stored its status is in one list, of its domain as long
\* as its status is 0, of the thread or none after that; the pipe has a
\* reference for it until it is taken out by one of the thread and
\* cancel_query, never by both (lines 430-461, 552-562).  The exceptions are the
\* queries that line 404 marks as waiting after they were taken out, and those that
\* are lost when such a query is cancelled.
QueriesRight == strayed \/ \A q \in Queries \ spoilt : QueryRight(q)

\* A query that was taken out of its domain has a status other than 0.  (The
\* comment at line 50 says so.)
TakenIsMarked ==
  \A q \in Queries :
    (call[q] # NoCall /\ call[q].add /\ call[q].at # "unlocked"
       /\ ~\E o \in Live : Contains(domain[o].p_query_head, q)) => status[q] # 0

-----------------------------------------------------------------------------
(* Liveness *)

\* Every query ends, with an answer, a failure or a cancellation: the pipe of a
\* query that was put into a list is closed in the end, whoever had to ask
\* c-ares for the domain (lines 360-427, 561-602), but for the losses named above.
QueriesEnd ==
  \A q \in Queries : call[q] # NoCall ~> (closed[q] \/ strayed \/ q \in spoilt)
=============================================================================
