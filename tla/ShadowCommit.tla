---------------------------- MODULE ShadowCommit ----------------------------
(***************************************************************************)
(* Versions of an entity and the packets between its two ends              *)
(* (moon_runtime.c).  A program runs in an environment (ShadowEnv) over    *)
(* the newest version of either end; get_commit_packet turns what it did   *)
(* into a packet; the home end makes the next version of it                *)
(* (server_recv_packet, _create_new_version) and passes the same packet    *)
(* on to the shadow end, which makes the same version of its own copy.  A  *)
(* shadow that asks for news is sent the version built on the one it has,  *)
(* or a difference (get_update_packet) if the home end cannot place it.    *)
(*                                                                         *)
(* heap[e][m] is the mem_block m of end e: its record as ShadowEnv has it, *)
(* orig (p_original_block, 0 for none), md5 and ref_num.  A version has    *)
(* its number, order_id (pairs of an id and a mem_block), order_addr (the  *)
(* mem_blocks by address), md5, status, user_num (the useing part of       *)
(* status), ref_num, pac (p_buf_head), and meant, which the code does not  *)
(* have: the contents the program meant the version to have.               *)
(*                                                                         *)
(* A block holds one pointer, packed as <<id, offset>>; its other data is  *)
(* left out, both ends lay structures out alike, MD5 never collides, and   *)
(* zlib gives back what it was given.  Names that moon_runtime.c does not  *)
(* declare are read as the matching lines have them: the block_xor of line *)
(* 2429 (prev_data) as that of line 2692, HAS_WRITES_ID as HAS_NEW_ID, and *)
(* avl_traver_first as the preorder walk; packet sections are taken from   *)
(* data_ptr, where they are packed.                                        *)
(***************************************************************************)
EXTENDS ShadowEnv, MoonNum, Bitwise

CONSTANTS
  MaxBlocks,   \* bound on the mem_blocks of an end
  MaxVersion,  \* bound on version numbers
  MaxNews,     \* bound on the blocks a program allocates in one environment
  MaxOps,      \* bound on what a program does in one environment, one less in each
               \* later version
  SERVER_MAX_VERSION_NUM, CLIENT_MAX_VERSION_NUM,   \* how many versions stay normal
  RESET_MIN_LATER_VERSION_NUM,   \* how far back the next version is sent as it was made
  MaxLag       \* how far from the first version the difference may be sent

VARIABLES
  heap,        \* the blocks of each end
  versions,    \* the versions of each end, the newest last
  env,         \* the environment in use: its end, the place of its version, and ops
  pkt,         \* the commit packet on its way to the home end, NIL for none
  ack          \* the answer to the shadow's query and the version it was sent with

vars == <<tree, pair, heap, versions, env, pkt, ack>>

Ends == {"home", "shadow"}

Newest(e) == Len(versions[e])
BlocksOf(h, ms) == [i \in 1 .. Len(ms) |-> h[ms[i]].block]
OrderAddr(e, v) == BlocksOf(heap[e], versions[e][v].order_addr)
IdsIn(order_id) == [i \in 1 .. Len(order_id) |-> order_id[i].id]
MemsIn(order_id) == [i \in 1 .. Len(order_id) |-> order_id[i].addr]
\* The mem_block with an id that the version has.
Mem(ver, id) ==
  LET i == search_addr_id(IdsIn(ver.order_id), id) IN IF i = 0 THEN 0 ELSE ver.order_id[i].addr

-----------------------------------------------------------------------------
(* Sorting *)

\* The loop of qsort_addr_pair over a sequence s whose pivot has been taken
\* out of the middle: elements below the pivot move to the front.
Partition(s, cmp, key) ==
  FoldLeft(LAMBDA acc, next :
             IF key[acc.s[next]] < key[cmp]
             THEN [s |-> [acc.s EXCEPT ![acc.save] = acc.s[next], ![next] = acc.s[acc.save + 1]],
                   save |-> acc.save + 1]
             ELSE acc,
           [s |-> s, save |-> 1],
           [i \in 1 .. Len(s) - 1 |-> i + 1])

\* qsort_addr_pair, with the key that each element is ordered by
RECURSIVE qsort_addr_pair(_, _)
qsort_addr_pair(s, key) ==
  LET mid == (Len(s) \div 2) + 1
      sorted(r) == qsort_addr_pair(SubSeq(r.s, 1, r.save - 1), key)
                   \o <<s[mid]>> \o qsort_addr_pair(SubSeq(r.s, r.save + 1, Len(s)), key)
  IN IF Len(s) <= 1 THEN s
     ELSE sorted(Partition(SubSeq(s, 1, mid - 1) \o <<s[1]>> \o SubSeq(s, mid + 1, Len(s)),
                           s[mid], key))

Ascending(ids) == qsort_addr_pair(ids, [i \in ToSet(ids) |-> i])
ById(order_id) == qsort_addr_pair(order_id, [x \in ToSet(order_id) |-> x.id])

\* sort_addr_id: the mem_blocks of a version in the order of their addresses
sort_addr_id(h, ms) == qsort_addr_pair(ms, [m \in ToSet(ms) |-> h[m].block.vaddr])

-----------------------------------------------------------------------------
(* Blocks and versions are counted *)

mem_block_ref_inc(h, i) == [h EXCEPT ![i].ref_num = @ + 1]

\* mem_block_ref_dec: the last one frees the block and lets its original go.
RECURSIVE mem_block_ref_dec(_, _)
mem_block_ref_dec(h, i) ==
  LET freed == [h EXCEPT ![i] = NIL] IN
  CASE h[i].ref_num > 1 -> [h EXCEPT ![i].ref_num = @ - 1]
    [] h[i].ref_num = 1 /\ h[i].orig = 0 -> freed
    [] OTHER -> mem_block_ref_dec(freed, h[i].orig)

\* version_close_func: the version's blocks, and the entity's reference, go.
version_close_func(h, vs, v) ==
  [heap |-> FoldLeft(mem_block_ref_dec, h, MemsIn(vs[v].order_id)),
   versions |-> [vs EXCEPT ![v].status = "closed", ![v].ref_num = @ - 1]]

\* set_version_status_old: closed at once, or when the last user is gone.
set_version_status_old(h, vs, v) ==
  IF vs[v].user_num = 0
  THEN version_close_func(h, vs, v)
  ELSE [heap |-> h, versions |-> [vs EXCEPT ![v].status = "old"]]

\* shadow_env_new on the newest version: version_ref_inc, inc_version_user_num
UseVersion(vs, v) == [vs EXCEPT ![v].user_num = @ + 1, ![v].ref_num = @ + 1]

\* dec_version_user_num, version_ref_dec
LeaveVersion(h, vs, v) ==
  LET left == [vs EXCEPT ![v].user_num = @ - 1, ![v].ref_num = @ - 1] IN
  IF vs[v].status = "old" /\ vs[v].user_num = 1
  THEN version_close_func(h, left, v)
  ELSE [heap |-> h, versions |-> left]

-----------------------------------------------------------------------------
(* Pointers and buffers *)

\* points_to_id_offset for a pointer q over a version, whose closest block is
\* number i of order_addr (i = 0 for q # NULL, where line 1996 reads through
\* NULL, does not occur: the lowest block stays) ...
Closest(order_addr, q, i) ==
  IF q # NULL /\ i # 0 /\ Inside(order_addr[i], q)
  THEN <<order_addr[i].id, q - order_addr[i].vaddr>> ELSE <<0, 0>>
Point(order_addr, q) == Closest(order_addr, q, search_addr_id(Addrs(order_addr), q))

\* ... and over an environment's tree, whose closest node is k and whose
\* blocks have the ids tmp.
TreeClosest(order_addr, q, tmp, k) ==
  IF k # NIL /\ Inside(pair[k], q) THEN <<tmp[k], q - k>> ELSE Point(order_addr, q)
TreePoint(order_addr, q, tmp) == TreeClosest(order_addr, q, tmp, avl_search2(tree, q))

\* convert_blocks_to_buf of blocks of a version
Bufs(order_addr, bs) == [i \in 1 .. Len(bs) |-> Point(order_addr, bs[i].ptr)]

\* block_xor of the buffers of written blocks with what they were before
block_xor(dst, src) ==
  [i \in 1 .. Len(dst) |->
     IF i <= Len(src) THEN <<dst[i][1] ^^ src[i][1], dst[i][2] ^^ src[i][2]>> ELSE dst[i]]

\* Differences of an increasing sequence of ids, and the ids again
Deltas(s) == [i \in 1 .. Len(s) |-> IF i = 1 THEN s[1] ELSE s[i] - s[i - 1]]
Sums(s) == [i \in 1 .. Len(s) |-> FoldLeft(+, 0, SubSeq(s, 1, i))]

-----------------------------------------------------------------------------
(* get_commit_packet *)

\* pac1_func and pac2_func: the touched blocks in the order of the walk
Walk(P(_)) == SelectSeq(PreOrder(tree, tree.root), LAMBDA k : P(pair[k]))
NewOnes == Walk(LAMBDA b : b.id = 0)
DelOnes == Walk(LAMBDA b : b.id # 0 /\ b.is_del)
WriteOnes == Walk(LAMBDA b : b.id # 0 /\ ~b.is_del)

IdsOf(ks) == Ascending([i \in 1 .. Len(ks) |-> pair[ks[i]].id])

Place(s, x) == CHOOSE i \in 1 .. Len(s) : s[i] = x

write_id_start(ver) == Last(ver.order_id).id + 1

\* Variant of new_id_start that forgets the written blocks.
new_id_start_Low(ver, writes) == write_id_start(ver)

new_id_start(ver, writes) == write_id_start(ver) + writes

\* The ids of the next version for the blocks in the tree: written ones in
\* the order of their ids, then new ones in the order of the walk.
TmpIds(ver, writes, news) ==
  [k \in Overlay |->
     CASE pair[k].id = 0 -> new_id_start(ver, Len(writes)) + Place(news, k) - 1
       [] pair[k].id # 0 /\ pair[k].is_del -> 0
       [] OTHER -> write_id_start(ver) + Place(writes, pair[k].id) - 1]

\* The blocks of the tree in the order in which their data is sent.
Sent(writes, news) ==
  [i \in 1 .. Len(writes) |-> CHOOSE b \in {pair[k] : k \in Overlay} : b.id = writes[i]]
  \o [i \in 1 .. Len(news) |-> pair[news[i]]]

\* packet_del_data and packet_new_data
PackIds(s) == Pack(<<Len(s)>> \o Deltas(s))
PackNews(ks) == Pack(<<Len(ks)>> \o FlattenSeq([i \in 1 .. Len(ks) |-> <<pair[ks[i]].len, 1>>]))

\* The md5 sums of blocks, over which the md5 of a version is computed
Md5Of(h, ms) == [i \in 1 .. Len(ms) |-> h[ms[i]].md5]

\* What a program means by an environment: its blocks with the ids they will
\* have, and each pointer as the block it leads to.
Meaning(order_addr, tmp) ==
  LET live == Live(order_addr)
      newId(b) == IF b.vaddr \in Overlay THEN tmp[b.vaddr] ELSE b.id
      target(q) == LET there == {b \in live : Inside(b, q)} IN
                   IF there = {} THEN NULL
                   ELSE LET b == CHOOSE b \in there : TRUE IN <<newId(b), q - b.vaddr>>
  IN {[id |-> newId(b), len |-> b.len, to |-> target(b.ptr)] : b \in live}

\* The packet for version ver of end e, with the ids of deleted and written
\* blocks, the new blocks, and the ids tmp that they all get
CommitPacket(e, ver, oa, dels, writes, news, tmp) ==
  LET sent == Sent(writes, news)
      bufs == [i \in 1 .. Len(sent) |-> TreePoint(oa, sent[i].ptr, tmp)]
      prev == [i \in 1 .. Len(writes) |-> heap[e][Mem(ver, writes[i])].block]
      kept == SelectSeq(ver.order_id, LAMBDA x : x.id \notin ToSet(dels) \cup ToSet(writes))
  IN [from |-> ver.num, from_md5 |-> ver.md5,
      to_md5 |-> Md5Of(heap[e], MemsIn(kept)) \o bufs,
      new_id |-> FALSE, dels |-> PackIds(dels), writes |-> PackIds(writes),
      news |-> PackNews(news), data |-> block_xor(bufs, Bufs(oa, prev)), to |-> ver.num + 1,
      meant |-> Meaning(oa, tmp)]

\* The passes over the tree that give the packet its sections
Numbered(e, ver, oa, dels, writes, news) ==
  CommitPacket(e, ver, oa, dels, writes, news, TmpIds(ver, writes, news))
get_commit_packet(e, v) ==
  Numbered(e, versions[e][v], OrderAddr(e, v), IdsOf(DelOnes), IdsOf(WriteOnes), NewOnes)

-----------------------------------------------------------------------------
(* get_update_packet: the difference of two versions of the home end *)

\* The block at address a, by its place in an array of blocks; 0 for none.
At(order_addr, a) ==
  LET exact(i) == IF i # 0 /\ order_addr[i].vaddr = a THEN i ELSE 0 IN
  exact(search_addr_id(Addrs(order_addr), a))

\* packet_write_data_id and packet_new_data_id
PackWritesId(prev, new) ==
  Pack(<<Len(prev)>> \o FlattenSeq([i \in 1 .. Len(prev) |-> <<Deltas(prev)[i], new[i] - prev[i]>>]))
PackNewsId(bs) ==
  Pack(<<Len(bs)>> \o FlattenSeq([i \in 1 .. Len(bs) |->
    <<bs[i].len, 1, Deltas([j \in 1 .. Len(bs) |-> bs[j].id])[i]>>]))

UpdatePacket(from, to, foa, toa, dels, writes, written, news) ==
  [from |-> from.num, from_md5 |-> from.md5, to_md5 |-> to.md5, new_id |-> TRUE,
   dels |-> PackIds(IdsIn(dels)), news |-> PackNewsId(news), to |-> to.num, meant |-> to.meant,
   writes |-> PackWritesId(IdsIn(writes), [i \in 1 .. Len(written) |-> written[i].id]),
   data |-> block_xor(Bufs(toa, written \o news), Bufs(foa, BlocksOf(heap["home"], MemsIn(writes))))]

\* A block of the first version that the other one does not have is deleted,
\* one that it has with another id is written; what is above the last id of
\* the first version and was not there is new.  NIL where nothing was written
\* (line 2617) or the counts of the two passes do not agree (2621, 2663).
Differences(from, to, foa, toa) ==
  LET vaddr(x) == heap["home"][x.addr].block.vaddr
      dels == SelectSeq(from.order_id, LAMBDA x : At(toa, vaddr(x)) = 0)
      writes == SelectSeq(from.order_id, LAMBDA x :
                  \E i \in {At(toa, vaddr(x))} : i # 0 /\ toa[i].id # x.id)
      above == SelectSeq(to.order_id, LAMBDA x : x.id > Last(from.order_id).id)
      news == SelectSeq(above, LAMBDA x : At(foa, vaddr(x)) = 0)
      write_num == Len(above) - Len(news)
      del_num == Len(from.order_id) - (Len(to.order_id) - Len(above)) - write_num
      written(ws) == [i \in 1 .. Len(ws) |-> toa[At(toa, vaddr(ws[i]))]]
      packet(ws) == UpdatePacket(from, to, foa, toa, dels, ws, written(ws),
                                 BlocksOf(heap["home"], MemsIn(news)))
  IN IF write_num > 0 /\ Len(dels) = del_num /\ Len(writes) = write_num
     THEN packet(writes) ELSE NIL
get_update_packet(f, v) ==
  Differences(versions["home"][f], versions["home"][v], OrderAddr("home", f), OrderAddr("home", v))

-----------------------------------------------------------------------------
(* _create_new_version *)

\* unpack_del_data, unpack_write_data_id, unpack_new_data, unpack_new_data_id:
\* the rows of a section, width numbers in each
Rows(buf, width) ==
  LET rows(n, nums) == [i \in 1 .. n |-> SubSeq(nums, (i - 1) * width + 1, i * width)]
      count(n) == rows(n, Unpack(SubSeq(buf, Units(buf) + 1, Len(buf)), n * width))
  IN count(get_from_moon_num(buf))
Column(rows, c) == [i \in 1 .. Len(rows) |-> rows[i][c]]

\* The old and new ids of the written blocks, and the new blocks; the id and
\* the type of every new block are read from the first row.
WritesOf(ver, pac) ==
  LET row(i, old, rows) ==
        [old |-> old[i], mem |-> Mem(ver, old[i]),
         new |-> IF pac.new_id THEN rows[i][2] + old[i] ELSE write_id_start(ver) + i - 1]
      all(rows, old) == [i \in 1 .. Len(rows) |-> row(i, old, rows)]
      read(rows) == all(rows, Sums(Column(rows, 1)))
  IN read(Rows(pac.writes, IF pac.new_id THEN 2 ELSE 1))
NewsOf(ver, pac, writes) ==
  LET read(rows) ==
        [i \in 1 .. Len(rows) |->
           [len |-> rows[1][1],
            id |-> IF pac.new_id THEN rows[1][3] ELSE new_id_start(ver, Len(writes)) + i - 1]]
  IN read(Rows(pac.news, IF pac.new_id THEN 3 ELSE 2))

\* Variant of mem_block_surface_dump that does not count the original.
mem_block_surface_dump_Uncounted(h, m, id, new) ==
  [h EXCEPT ![new] = [h[m] EXCEPT !.block.id = id, !.ref_num = 1,
                        !.orig = IF h[m].orig = 0 THEN m ELSE h[m].orig]]

\* mem_block_surface_dump: the copy stands for the same address, and the block
\* that was allocated there stays as long as the copy.
mem_block_surface_dump(h, m, id, new) ==
  LET orig == IF h[m].orig = 0 THEN m ELSE h[m].orig IN
  [mem_block_ref_inc(h, orig) EXCEPT
     ![new] = [h[m] EXCEPT !.block.id = id, !.ref_num = 1, !.orig = orig]]

\* The mem_blocks that malloc has to give, in a fixed order
FreeMems(h) ==
  LET free == {m \in 1 .. MaxBlocks : h[m] = NIL} IN
  [i \in 1 .. Cardinality(free) |->
     CHOOSE m \in free : Cardinality({x \in free : x < m}) = i - 1]

\* create_new_block, at the address a that calloc gives
create_new_block(h, id, len, a, new) ==
  [h EXCEPT ![new] = [block |-> [id |-> id, vaddr |-> a, len |-> len, ptr |-> NULL,
                                 is_del |-> FALSE, own |-> TRUE],
                      orig |-> 0, md5 |-> <<0, 0>>, ref_num |-> 1]]

\* The heap with the mem_blocks fresh: the copies of written blocks, then the
\* new blocks at addrs; the blocks that stay are referred to once more.
NewHeap(h, kept, writes, news, addrs, fresh) ==
  LET h1 == FoldLeft(mem_block_ref_inc, h, kept)
      h2 == FoldLeft(LAMBDA g, i : mem_block_surface_dump(g, writes[i].mem, writes[i].new, fresh[i]),
                     h1, [i \in 1 .. Len(writes) |-> i])
  IN FoldLeft(LAMBDA g, i : create_new_block(g, news[i].id, news[i].len, addrs[i],
                                             fresh[Len(writes) + i]),
              h2, [i \in 1 .. Len(news) |-> i])

\* Variant of IdPoint that forgets the offset in the block.
IdPoint_Base(h, order_id, io) ==
  LET in(i) == IF i = 0 THEN [ok |-> FALSE, ptr |-> NULL]
               ELSE [ok |-> io[2] < h[order_id[i].addr].block.len, ptr |-> h[order_id[i].addr].block.vaddr]
  IN IF io = <<0, 0>> THEN [ok |-> TRUE, ptr |-> NULL]
     ELSE in(search_addr_id(IdsIn(order_id), io[1]))

\* id_offset_to_points: ok is FALSE where the code gives up.
IdPoint(h, order_id, io) ==
  LET in(i) == IF i = 0 THEN [ok |-> FALSE, ptr |-> NULL]
               ELSE [ok |-> io[2] < h[order_id[i].addr].block.len,
                     ptr |-> h[order_id[i].addr].block.vaddr + io[2]]
  IN IF io = <<0, 0>> THEN [ok |-> TRUE, ptr |-> NULL]
     ELSE in(search_addr_id(IdsIn(order_id), io[1]))

\* The data of the sent blocks is set, the version and its md5 are made; ok is
\* FALSE where the packet is refused, and then nothing is left behind.
Filled(h, sent, bufs, points) ==
  FoldLeft(LAMBDA g, i : [g EXCEPT ![sent[i].addr].block.ptr = points[i].ptr,
                                   ![sent[i].addr].md5 = bufs[i]],
           h, [i \in 1 .. Len(sent) |-> i])
Version(h, pac, order_id, ok) ==
  LET md5 == Md5Of(h, MemsIn(order_id)) IN
  [ok |-> ok /\ md5 = pac.to_md5, heap |-> h,
   version |-> [num |-> pac.to, order_id |-> order_id,
                order_addr |-> sort_addr_id(h, MemsIn(order_id)),
                md5 |-> md5, status |-> "normal", user_num |-> 0, ref_num |-> 1,
                pac |-> pac, meant |-> pac.meant]]
Points(h, all, bufs) == [i \in 1 .. Len(bufs) |-> IdPoint(h, all, bufs[i])]
Assembled(h, pac, kept, sent, bufs, points) ==
  Version(Filled(h, sent, bufs, points), pac,
          IF pac.new_id THEN ById(kept \o sent) ELSE kept \o sent,
          \A i \in 1 .. Len(sent) : points[i].ok)

\* The written blocks and the new ones, in the mem_blocks fresh
Build(e, ver, oa, pac, addrs, kept, writes, news, fresh) ==
  LET sent == [i \in 1 .. Len(writes) |-> [id |-> writes[i].new, addr |-> fresh[i]]]
              \o [i \in 1 .. Len(news) |-> [id |-> news[i].id, addr |-> fresh[Len(writes) + i]]]
      make(h, snt, bufs) == Assembled(h, pac, kept, snt, bufs, Points(h, kept \o snt, bufs))
  IN make(NewHeap(heap[e], MemsIn(kept), writes, news, addrs, fresh), sent,
          block_xor(pac.data, Bufs(oa, BlocksOf(heap[e], [i \in 1 .. Len(writes) |-> writes[i].mem]))))

\* The new version of end e from its version v, new blocks at addrs.
create_new_version(e, v, pac, addrs) ==
  LET refused == [ok |-> FALSE]
      read(ver, dels, writes) ==
        LET gone == ToSet(dels) \cup ToSet([i \in 1 .. Len(writes) |-> writes[i].old]) IN
        IF /\ ver.status # "closed"
           /\ pac.from_md5 = ver.md5
           /\ Len(writes) > 0
           /\ gone \subseteq ToSet(IdsIn(ver.order_id))
           /\ Len(pac.data) = Len(writes) + Len(addrs)
        THEN Build(e, ver, OrderAddr(e, v), pac, addrs,
                   SelectSeq(ver.order_id, LAMBDA x : x.id \notin gone),
                   writes, NewsOf(ver, pac, writes), FreeMems(heap[e]))
        ELSE refused
  IN read(versions[e][v], Sums(Column(Rows(pac.dels, 1), 1)), WritesOf(versions[e][v], pac))

\* How many new blocks a packet brings
NewsIn(pac) == get_from_moon_num(pac.news)

-----------------------------------------------------------------------------
(* The two ends *)

\* The addresses that calloc may return at end e
Allocatable(e) ==
  Keys \ ({heap[e][m].block.vaddr : m \in {m \in 1 .. MaxBlocks : heap[e][m] # NIL}}
          \cup (IF env # NIL /\ env.end = e THEN Overlay ELSE {}))

\* The places calloc may find for the new blocks of a packet
Callocs(e, pac) ==
  {f \in [1 .. NewsIn(pac) -> Allocatable(e)] : \A i, j \in DOMAIN f : f[i] = f[j] => i = j}

\* What a version of end e holds, in the same terms
Contents(e, v) ==
  LET bs == ToSet(OrderAddr(e, v))
      target(q) == LET there == {b \in bs : Inside(b, q)} IN
                   IF there = {} THEN NULL
                   ELSE LET b == CHOOSE b \in there : TRUE IN <<b.id, q - b.vaddr>>
  IN {[id |-> b.id, len |-> b.len, to |-> target(b.ptr)] : b \in bs}

\* shadow_env_new, with NEWEST_VERSION; one program at a time, until its
\* packet has arrived
shadow_env_new(e) ==
  /\ env = NIL /\ pkt = NIL
  /\ env' = [end |-> e, ver |-> Newest(e), ops |-> 0]
  /\ versions' = [versions EXCEPT ![e] = UseVersion(@, Newest(e))]
  /\ UNCHANGED <<tree, pair, heap, pkt, ack>>

\* The program runs: it writes a pointer, allocates or deletes a block.  It
\* never deletes the first block, which is a global variable.
Run ==
  /\ env # NIL
  /\ versions[env.end][env.ver].num < MaxVersion
  /\ env.ops + versions[env.end][env.ver].num < MaxOps
  /\ env' = [env EXCEPT !.ops = @ + 1]
  /\ LET oa == OrderAddr(env.end, env.ver) IN
     \/ \E b \in Live(oa), q \in Pointers(oa) : Write(oa, b.vaddr, q)
     \/ Len(NewOnes) < MaxNews /\ \E a \in Allocatable(env.end), len \in Lens : New(a, len)
     \/ \E b \in Live(oa) \ {oa[1]} : b.vaddr # oa[1].vaddr /\ Del(oa, b.vaddr)
  /\ UNCHANGED <<heap, versions, pkt, ack>>

\* The program is done with its environment; the code that ends one is not
\* written yet.
Leave ==
  /\ env' = NIL
  /\ tree' = EmptyTree /\ pair' = [k \in Keys |-> NIL]
  /\ LET left == LeaveVersion(heap[env.end], versions[env.end], env.ver) IN
     /\ heap' = [heap EXCEPT ![env.end] = left.heap]
     /\ versions' = [versions EXCEPT ![env.end] = left.versions]

GiveUp == env # NIL /\ Leave /\ UNCHANGED <<pkt, ack>>

\* No block that stays as it is points to a deleted one: such a pointer would
\* dangle in any program.
NothingDangles(oa) ==
  \A b \in ToSet(oa) : b.vaddr \notin Overlay /\ b.ptr # NULL
                         => \E c \in Live(oa) : Inside(c, b.ptr)

\* The program commits; get_commit_packet refuses if no block was written.
Commit ==
  /\ env # NIL
  /\ versions[env.end][env.ver].num < MaxVersion
  /\ WriteOnes # <<>>
  /\ NothingDangles(OrderAddr(env.end, env.ver))
  /\ pkt' = get_commit_packet(env.end, env.ver)
  /\ Leave
  /\ UNCHANGED ack

\* _add_version_to_entity: the version too many at the other end of the list
\* grows old, unless it is the first one or the home end has not told of it.
AddVersion(e, h, vs) ==
  LET tail == Len(vs) - (IF e = "home" THEN SERVER_MAX_VERSION_NUM ELSE CLIENT_MAX_VERSION_NUM)
      told == e = "shadow" \/ vs[tail].num < vs[Len(vs) - 1].num
  IN IF tail > 1 /\ told THEN set_version_status_old(h, vs, tail)
     ELSE [heap |-> h, versions |-> vs]

SetEnd(e, r) ==
  /\ heap' = [heap EXCEPT ![e] = r.heap]
  /\ versions' = [versions EXCEPT ![e] = r.versions]

\* End e has made a new version of a packet, or refused the packet.
Adopt(e, made) ==
  IF made.ok THEN SetEnd(e, AddVersion(e, made.heap, Append(versions[e], made.version)))
  ELSE UNCHANGED <<heap, versions>>

\* server_recv_packet of a MOON_UPDATE packet, with server_add_version_to_entity
HomeReceives ==
  /\ pkt # NIL
  /\ pkt' = NIL
  /\ LET head == Newest("home") IN
     IF pkt.from_md5 = versions["home"][head].md5 /\ pkt.from = versions["home"][head].num
     THEN \E addrs \in Callocs("home", pkt) :
            Adopt("home", create_new_version("home", head, pkt, addrs))
     ELSE UNCHANGED <<heap, versions>>
  /\ UNCHANGED <<tree, pair, env, ack>>

\* The packet of the next version has come to the shadow end (update_loop).
ShadowUpdates ==
  \E w \in 2 .. Newest("home") :
    /\ versions["home"][w].pac.from = Last(versions["shadow"]).num
    /\ \E addrs \in Callocs("shadow", versions["home"][w].pac) :
         Adopt("shadow", create_new_version("shadow", Newest("shadow"),
                                            versions["home"][w].pac, addrs))
    /\ UNCHANGED <<tree, pair, env, pkt, ack>>

\* The answer to a query with a version of that md5 (MOON_QUERY of
\* server_recv_packet), NIL for none.  The table has the versions by the md5 of
\* what they are built on, and everybody has been told of the newest one
\* (cur_notice_version).
QueryAck(md5) ==
  LET new == Newest("home")
      num(v) == versions["home"][v].num
      built == {w \in 2 .. new : /\ versions["home"][w].status # "closed"
                                 /\ versions["home"][w].pac.from_md5 = md5}
      w == Max(built)
  IN CASE built = {} -> get_update_packet(1, new)
       [] built # {} /\ num(w) >= num(new) -> NIL
       [] built # {} /\ num(w) < num(new) /\ num(w) + RESET_MIN_LATER_VERSION_NUM > num(new) ->
            versions["home"][w].pac
       [] OTHER -> get_update_packet(w, new)

\* The shadow asks for news with its newest version (send_query) and is answered,
\* unless it is told that it has the newest one.
ShadowAsks ==
  /\ ack = NIL
  /\ Newest("shadow") <= MaxVersion + 1
  /\ LET pac == QueryAck(Last(versions["shadow"]).md5) IN
     /\ pac # NIL
     /\ pac.new_id => pac.to - pac.from <= MaxLag
     /\ ack' = [pac |-> pac, base |-> Newest("shadow")]
  /\ UNCHANGED <<tree, pair, heap, versions, env, pkt>>

\* _recv_query_ack: the version is made from the one asked with if the packet
\* starts there, else from the first one; it is dropped if updates have come
\* that far meanwhile.
AnswerArrives ==
  LET asked == versions["shadow"][ack.base]
      base == IF asked.md5 = ack.pac.from_md5 THEN ack.base ELSE 1
  IN
  /\ ack # NIL
  /\ ack' = NIL
  /\ IF ack.pac.to > Last(versions["shadow"]).num \/ ack.pac.to <= asked.num
     THEN \E addrs \in Callocs("shadow", ack.pac) :
            Adopt("shadow", create_new_version("shadow", base, ack.pac, addrs))
     ELSE UNCHANGED <<heap, versions>>
  /\ UNCHANGED <<tree, pair, env, pkt>>

-----------------------------------------------------------------------------
(* The system: the first version has a global variable that points to a    *)
(* block, which the two ends have at different addresses.                  *)

FirstHeap(a) ==
  LET global == [id |-> 1, vaddr |-> Min(Keys), len |-> 1, ptr |-> a, is_del |-> FALSE, own |-> TRUE]
      block == [id |-> 2, vaddr |-> a, len |-> 1, ptr |-> NULL, is_del |-> FALSE, own |-> TRUE]
      mem(b, buf) == [block |-> b, orig |-> 0, md5 |-> buf, ref_num |-> 1]
  IN [m \in 1 .. MaxBlocks |-> IF m = 1 THEN mem(global, <<2, 0>>)
                               ELSE IF m = 2 THEN mem(block, <<0, 0>>) ELSE NIL]

FirstVersion ==
  [num |-> 0, order_id |-> <<[id |-> 1, addr |-> 1], [id |-> 2, addr |-> 2]>>,
   order_addr |-> <<1, 2>>, md5 |-> <<<<2, 0>>, <<0, 0>>>>, status |-> "normal",
   user_num |-> 0, ref_num |-> 1, pac |-> NIL,
   meant |-> {[id |-> 1, len |-> 1, to |-> <<2, 0>>], [id |-> 2, len |-> 1, to |-> NULL]}]

Init ==
  /\ EmptyEnv
  /\ heap = [e \in Ends |-> FirstHeap(IF e = "home" THEN Min(Keys) + 2 ELSE Min(Keys) + 4)]
  /\ versions = [e \in Ends |-> <<FirstVersion>>]
  /\ env = NIL
  /\ pkt = NIL
  /\ ack = NIL

Next ==
  \/ \E e \in Ends : shadow_env_new(e)
  \/ Run
  \/ GiveUp
  \/ Commit
  \/ HomeReceives
  \/ ShadowUpdates
  \/ ShadowAsks
  \/ AnswerArrives

Spec == Init /\ [][Next]_vars

-----------------------------------------------------------------------------
(* What is to hold *)

Open(e) == {v \in 1 .. Newest(e) : versions[e][v].status # "closed"}

\* A block is referred to by the open versions that have it and by the copies
\* made of it, and by nothing else; so what a version has is not freed, and
\* an environment's version is not closed under it.
BlocksCounted ==
  /\ \A e \in Ends, m \in 1 .. MaxBlocks :
       LET holders == {v \in Open(e) : m \in ToSet(MemsIn(versions[e][v].order_id))}
           copies == {c \in 1 .. MaxBlocks : heap[e][c] # NIL /\ heap[e][c].orig = m}
       IN IF heap[e][m] = NIL THEN holders = {} /\ copies = {}
          ELSE heap[e][m].ref_num = Cardinality(holders) + Cardinality(copies)
  /\ env # NIL => env.ver \in Open(env.end)

\* order_id is in the order of ids, which grow (lines 22 and 38), and
\* order_addr in the order of addresses.
ArraysSorted ==
  \A e \in Ends : \A v \in Open(e) :
    LET ids == IdsIn(versions[e][v].order_id)
        addrs == Addrs(OrderAddr(e, v))
    IN \A i \in 1 .. Len(ids) - 1 : ids[i] < ids[i + 1] /\ addrs[i] < addrs[i + 1]

\* Every version, at whichever end it was made and whatever addresses it got
\* there, holds what the program meant when it committed: the same blocks
\* under the same ids, every pointer leading to the same place (lines
\* 2306-2465, 2887-3134), in arrays that the binary searches can use.
VersionsMeanIt ==
  /\ ArraysSorted
  /\ \A e \in Ends : \A v \in Open(e) : Contents(e, v) = versions[e][v].meant

\* A pointer into the inside of a deleted block, which line 1990 packs as an
\* offset in no block
Nowhere(pac) ==
  \E e \in Ends : \E v \in Open(e) :
    /\ versions[e][v].md5 = pac.from_md5
    /\ LET writes == WritesOf(versions[e][v], pac)
           bufs == block_xor(pac.data, Bufs(OrderAddr(e, v),
                     BlocksOf(heap[e], [i \in 1 .. Len(writes) |-> writes[i].mem])))
       IN \E i \in 1 .. Len(bufs) : bufs[i][1] = 0 /\ bufs[i][2] # 0

\* A packet made from a version is accepted by every end that has that
\* version, except for pointers into the inside of deleted blocks; so an
\* accepted commit never strands the shadow.
PacketsApply ==
  /\ NumbersSurvive
  /\ /\ pkt # NIL
     /\ pkt.from = Last(versions["home"]).num /\ pkt.from_md5 = Last(versions["home"]).md5
     =>
       \/ Nowhere(pkt)
       \/ \A addrs \in Callocs("home", pkt) : create_new_version("home", Newest("home"), pkt, addrs).ok
  /\ \A w \in 2 .. Newest("home") :
       LET pac == versions["home"][w].pac IN
       pac.from = Last(versions["shadow"]).num =>
         \A addrs \in Callocs("shadow", pac) :
           create_new_version("shadow", Newest("shadow"), pac, addrs).ok
=============================================================================
