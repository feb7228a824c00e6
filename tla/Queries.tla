------------------------------ MODULE Queries -------------------------------
(***************************************************************************)
(* The SEARCH, MIX and SCAN modes, and the inserts of the INSERT mode, on  *)
(* an index that nobody merges.  Every thread routes its queries to the    *)
(* partitions, launches the DPUs under the mutex lock, fetches the answers *)
(* and works them off on the host: get_real_payload, mix_payload,          *)
(* insert_payload, scan_payload, with the pages of dram_index.h.           *)
(*                                                                         *)
(* A partition is one DPU (Replicas chooses among several); a DPU answers  *)
(* as DpuKernel shows; a tree is a set of keys (OverflowTree).  A payload  *)
(* is named by the key it was loaded with.  UPDATE is left out: both       *)
(* tests of the generator are prob < 0.5, so it is never drawn.            *)
(***************************************************************************)
EXTENDS Integers, SequencesExt

CONSTANTS NT,          \* THREAD_NUM
          P,           \* NR_PARTITION
          N,           \* per_dpu_input_size
          IL,          \* INTERLEAVE, and PAGE_RATIO
          Rests,       \* how many elements may lie behind the last partition
          BufSize,     \* BUF_SIZE, in each mode
          Sampled,     \* bound: the positions drawn in each mode
          SeedNum,     \* how many keys of a partition are planted in its tree
          SeedStride,  \* and how far apart they are: 100 and 800
          NewKeySets,  \* in each mode, the sets of keys there may be to insert
          NumQuerys,   \* num_querys in each mode
          ScanLength,  \* scan_length
          Width        \* 2^32: end keys are uint32_t

ASSUME SizesAssumption == P \in Nat \ {0} /\ N \in Nat \ {0} /\ IL \in Nat \ {0}
ASSUME RestAssumption  == Rests \subseteq 0 .. P * IL - 1
ASSUME BoundsAssumption == NT \in Nat \ {0} /\ Width \in Nat \ {0}

Mode         == {"search", "insert", "mix", "scan"}
Thread       == 0 .. NT - 1
Part         == 0 .. P - 1
Elements     == P * N * IL            \* elements_num: what GETs and scans draw from
Key(i)       == 3 * (i + 1)           \* dindex.keys
Partial(i)   == Key(i * IL)           \* dindex.partial_keys
MinKey       == Key(0)
INVALID      == 1000                  \* INVAILD_POS, above every position

ASSUME QuerysAssumption ==
  /\ \A m \in Mode : Sampled[m] \subseteq 0 .. Elements - 1
  /\ NumQuerys \in [Mode -> Nat] /\ BufSize \in [Mode -> Nat \ {0}]
  /\ Elements + P * IL < INVALID
  /\ ScanLength \in Nat /\ SeedNum \in Nat /\ SeedStride \in Nat
\* The keys of the file differ: no key to insert is one that was loaded.
ASSUME NewKeysAssumption ==
  \A m \in Mode : \A keys \in NewKeySets[m] : \A k \in keys : k \in Nat /\ k % 3 # 0

None == -1

\* What a GET returns if not the payload of a key: nothing yet, the '0' of pret,
\* or what lies behind the payloads.
Nothing == 0
Zero    == -1
Wild    == -2

VARIABLES mode,   \* is_insert, is_mix, is_scan, or search
          pure,   \* is_pure_read
          drawn,  \* queries generated
          fresh,  \* keys left to insert
          order,  \* per thread: the order of the DPUs
          lock,   \* who holds the mutex lock
          dpu,    \* what the DPUs have answered
          rest,   \* elements behind the last partition
          pages,  \* buffer_pages
          trees,  \* opt_overflow_trees
          pc, sent, recv, done,  \* per thread: place, host_send_buffer,
                                 \* host_recv_buffer, tasks worked off per DPU
          ret,    \* per thread: ret of its function
          rows    \* per thread: the first cur_result_off results of a scan

flags  == <<mode, pure, rest, drawn, fresh>>
index  == <<pages, trees>>
device == <<lock, dpu>>
vars   == <<flags, index, device, order, pc, sent, recv, done, ret, rows>>

Set(t, label) == pc' = [pc EXCEPT ![t] = label]

Total        == Elements + rest       \* total_size
PartialTotal == Total \div IL         \* partial_total_size
Loaded       == {Key(i) : i \in 0 .. Total - 1}

\* search_upper_level and search_upper_level_get_partition.
Low(p)         == Partial(p * N)
Partition(key) == Max({p \in Part : Low(p) <= key})

\* The position search of the DPUs.
Answer(p, key) ==
  IF key >= Partial(p * N + N - 1) THEN INVALID
  ELSE IL * Max({i \in p * N .. p * N + N - 1 : Partial(i) <= key})

Answers(queues) == [p \in Part |-> [j \in DOMAIN queues[p] |-> Answer(p, queues[p][j].key)]]

\* The seeds of bulk_load_for_dpu; they may lie behind the partition.
Seeds(p) ==
  {1} \cup {Partial(Min({p * N + j * SeedStride, PartialTotal - 1})) : j \in 0 .. SeedNum - 1}

Init ==
  /\ mode \in Mode /\ pure \in BOOLEAN /\ (pure => mode = "search")
  /\ rest \in Rests
  /\ drawn = 0 /\ fresh \in NewKeySets[mode]
  /\ order \in [Thread -> Bijection(Part, Part)]
  /\ mode # "mix" => \A t \in Thread, p \in Part : order[t][p] = p
  /\ lock = None /\ dpu = [p \in Part |-> <<>>]
  /\ pages = [i \in 0 .. Total \div IL |-> <<>>]
  /\ trees = [p \in Part |-> Seeds(p)]
  /\ pc = [t \in Thread |-> "launch"]
  /\ sent = [t \in Thread |-> [p \in Part |-> <<>>]]
  /\ recv = [t \in Thread |-> [p \in Part |-> <<>>]]
  /\ done = [t \in Thread |-> [p \in Part |-> 0]]
  /\ ret = [t \in Thread |-> Nothing]
  /\ rows = [t \in Thread |-> {}]

-----------------------------------------------------------------------------
(* The queries and their way to the DPUs.                                  *)

Query(op, key, end) == [op |-> op, key |-> key, end |-> end]
Gets    == {Query("get", Key(i), 0) : i \in Sampled[mode]}
Inserts == {Query("insert", k, 0) : k \in fresh}

\* create_query_scan; the end key is stored in 32 bits.
Scans == {Query("scan", Key(i), Key(Min({i + ScanLength, Elements - 1})) % Width)
            : i \in Sampled[mode]}

\* With no key left to insert, MIX asks for the one above the first key.
MixInserts ==
  LET some == {q \in Inserts : q.key > MinKey}
  IN  IF some # {} THEN some ELSE {Query("get", MinKey + 1, 0)}

Queries == CASE mode = "search" -> Gets
             [] mode = "insert" -> Inserts
             [] mode = "mix"    -> Gets \cup MixInserts
             [] mode = "scan"   -> Scans

\* Only INSERT and MIX leave out keys that are not above the first key.
Routed(q) == mode \in {"search", "scan"} \/ q.key > MinKey

\* The ranges of the queries; the last thread takes the rest.
Owner(i) == Min({i \div (NumQuerys[mode] \div NT), NT - 1})

\* One query is generated, and later routed by its thread: the tables do not
\* change.
Draw ==
  /\ drawn < NumQuerys[mode]
  /\ \E q \in Queries :
       /\ fresh' = fresh \ {q.key}
       /\ sent' = IF Routed(q)
                  THEN [sent EXCEPT ![Owner(drawn)][Partition(q.key)] = Append(@, q)]
                  ELSE sent
  /\ drawn' = drawn + 1
  /\ UNCHANGED <<mode, pure, rest, index, device, order, pc, recv, done, ret, rows>>

\* A launch that does not wait for the mutex.
LaunchUnlocked(t) ==
  /\ pc[t] = "launch" /\ drawn = NumQuerys[mode]
  /\ lock' = t
  /\ dpu' = Answers(sent[t])
  /\ Set(t, "fetch")
  /\ UNCHANGED <<flags, index, order, sent, recv, done, ret, rows>>

\* dpu_sync
Launch(t) ==
  /\ pc[t] = "launch" /\ drawn = NumQuerys[mode] /\ lock = None
  /\ lock' = t
  /\ dpu' = Answers(sent[t])
  /\ Set(t, "fetch")
  /\ UNCHANGED <<flags, index, order, sent, recv, done, ret, rows>>

\* get_index_lookup_result
Fetch(t) ==
  /\ pc[t] = "fetch"
  /\ recv' = [recv EXCEPT ![t] = dpu]
  /\ lock' = None
  /\ Set(t, "work")
  /\ UNCHANGED <<flags, index, dpu, order, sent, done, ret, rows>>

-----------------------------------------------------------------------------
(* Working off the answers.                                                *)

\* scan_payload takes the last task of a DPU for a terminator.
Tasks(t, p) == IF mode = "scan" THEN Max({Len(recv[t][p]) - 1, 0}) ELSE Len(recv[t][p])
Open(t)     == {p \in Part : done[t][p] < Tasks(t, p)}

\* DPU after DPU, in MIX in the order shuffled by the thread.
InTurn(t, p) == p \in Open(t) /\ \A o \in Open(t) : order[t][p] <= order[t][o]

Task(t, p) == sent[t][p][done[t][p] + 1]
Pos(t, p)  == recv[t][p][done[t][p] + 1]

At(t, p, label, op) == pc[t] = label /\ InTurn(t, p) /\ Task(t, p).op = op

Advance(t, p) == done' = [done EXCEPT ![t][p] = @ + 1] /\ Set(t, "work")
Return(t, value) == ret' = [ret EXCEPT ![t] = value]

\* The position of a key among the INTERLEAVE elements from pos on.
Hit(pos, key) == \E k \in 0 .. IL - 1 : pos + k < Total /\ Key(pos + k) = key

\* The interval behind the one the bisection has found.
FallbackNext(key) ==
  LET p     == Partition(key)
      upper == Cardinality({i \in 0 .. (p + 1) * N - 1 : Partial(i) <= key})
  IN  Min({upper, PartialTotal - 1})

\* The host's own search: the upper bound within the partition, clipped to
\* the last element.
Fallback(key) ==
  LET p     == Partition(key)
      upper == Cardinality({i \in 0 .. (p + 1) * N - 1 : Partial(i) <= key})
  IN  Min({upper, PartialTotal - 1}) - 1

\* GET finds the key where the DPU says.
GetHit(t, p) ==
  /\ At(t, p, "work", "get") /\ Pos(t, p) # INVALID
  /\ Hit(Pos(t, p), Task(t, p).key)
  /\ Return(t, Task(t, p).key)
  /\ Advance(t, p)
  /\ UNCHANGED <<flags, index, device, order, sent, recv, rows>>

\* It does not: any key in the page will do for find_key_page, which sets
\* only its own copy of the pointer.
GetPage(t, p) ==
  /\ At(t, p, "work", "get")
  /\ ~Hit(Pos(t, p), Task(t, p).key)
  /\ IF pure \/ Pos(t, p) >= Total
     THEN Set(t, "fallback") /\ UNCHANGED <<done, ret>>
     ELSE IF pages[Pos(t, p) \div IL] # <<>>
          THEN Return(t, Zero) /\ Advance(t, p)
          ELSE Set(t, "lookup") /\ UNCHANGED <<done, ret>>
  /\ UNCHANGED <<flags, index, device, order, sent, recv, rows>>

\* lookup returns whether the key is there; the caller goes on if it is.
GetTree(t, p) ==
  /\ At(t, p, "lookup", "get")
  /\ IF Task(t, p).key \in trees[p]
     THEN Set(t, "fallback") /\ UNCHANGED done
     ELSE Advance(t, p)
  /\ UNCHANGED <<flags, index, device, order, sent, recv, ret, rows>>

\* The host searches itself.  mix_payload finds the slot, but takes the
\* payload at the position of the DPU.
GetFallback(t, p) ==
  /\ At(t, p, "fallback", "get")
  /\ LET key == Task(t, p).key
         off == Fallback(key)
     IN  IF Hit(off * IL, key)
         THEN Return(t, IF mode = "mix" /\ Pos(t, p) = INVALID THEN Wild ELSE key)
         ELSE IF Pos(t, p) < Total /\ pages[off] # <<>>
              THEN Return(t, Zero)
              ELSE UNCHANGED ret
  /\ Advance(t, p)
  /\ UNCHANGED <<flags, index, device, order, sent, recv, rows>>

\* The guard before insert_page; and without the bound above.
FitsOpen(i, key) == i < PartialTotal - 1 /\ Partial(i) <= key
Fits(i, key) == i < PartialTotal - 1 /\ Partial(i) <= key /\ Partial(i + 1) > key

\* A page taken for full one key early.
FullEarly(page) == Len(page) >= BufSize[mode] - 1
Full(page)      == Len(page) >= BufSize[mode]

\* A key goes behind those that are not above it, or in front of them.
PlacedFirst(page, key) == <<key>> \o page
Placed(page, key) ==
  InsertAt(page, Cardinality({j \in DOMAIN page : page[j] <= key}) + 1, key)

\* Where an INSERT goes: INSERT mode searches itself when the DPU gives up,
\* MIX does not.
Places(t, p) ==
  LET key == Task(t, p).key
      i   == IF Pos(t, p) # INVALID THEN Pos(t, p) \div IL ELSE Fallback(key)
  IN  IF (Pos(t, p) # INVALID \/ mode = "insert") /\ Fits(i, key) THEN {i} ELSE {}

\* No page, and the key is dropped; a full one, and insert_page says so.
Insert(t, p) ==
  /\ At(t, p, "work", "insert")
  /\ \/ Places(t, p) = {} /\ Advance(t, p) /\ UNCHANGED pages
     \/ \E i \in Places(t, p) :
          IF Full(pages[i])
          THEN Set(t, "overflow") /\ UNCHANGED <<pages, done>>
          ELSE /\ pages' = [pages EXCEPT ![i] = Placed(@, Task(t, p).key)]
               /\ Advance(t, p)
  /\ UNCHANGED <<flags, trees, device, order, sent, recv, ret, rows>>

InsertOverflow(t, p) ==
  /\ At(t, p, "overflow", "insert")
  /\ trees' = [trees EXCEPT ![p] = @ \cup {Task(t, p).key}]
  /\ Advance(t, p)
  /\ UNCHANGED <<flags, pages, device, order, sent, recv, ret, rows>>

\* A scan that takes the end key in.
TakenClosed(q, pos) ==
  {i \in pos .. Total - 1 : \A j \in pos .. i : q.key <= Key(j) /\ Key(j) <= q.end}

\* The elements from pos on, up to the first one out of the range.
Taken(q, pos) ==
  {i \in pos .. Total - 1 : \A j \in pos .. i : q.key <= Key(j) /\ Key(j) < q.end}

\* There are no pages to collect in this mode, and getAllDataWithinRange
\* adds nothing: it visits no leaf and writes a copy.
Scan(t, p) ==
  /\ At(t, p, "work", "scan")
  /\ rows' = [rows EXCEPT ![t] =
       IF Pos(t, p) = INVALID THEN @ ELSE {Key(i) : i \in Taken(Task(t, p), Pos(t, p))}]
  /\ Advance(t, p)
  /\ UNCHANGED <<flags, index, device, order, sent, recv, ret>>

Finish(t) ==
  /\ pc[t] = "work" /\ Open(t) = {}
  /\ Set(t, "done")
  /\ UNCHANGED <<flags, index, device, order, sent, recv, done, ret, rows>>

Step(t) ==
  \/ Launch(t) \/ Fetch(t) \/ Finish(t)
  \/ \E p \in Part : \/ GetHit(t, p) \/ GetPage(t, p) \/ GetTree(t, p) \/ GetFallback(t, p)
                     \/ Insert(t, p) \/ InsertOverflow(t, p) \/ Scan(t, p)

AllDone == \A t \in Thread : pc[t] = "done"

Next == Draw \/ (\E t \in Thread : Step(t)) \/ (AllDone /\ UNCHANGED vars)

Spec == Init /\ [][Next]_vars

-----------------------------------------------------------------------------
Inserted == {q.key : q \in {q \in UNION {UNION {Range(sent[t][p]) : p \in Part} : t \in Thread} :
                                q.op = "insert"}}
Stored(k) == {i \in DOMAIN pages : \E j \in DOMAIN pages[i] : pages[i][j] = k}
Behind(k) == {p \in Part : k \in trees[p] \ Seeds(p)}

\* A thread works off the answers to its own tasks, although all threads share
\* the buffers of the DPUs (lock around dpu_sync and get_index_lookup_result).
OwnAnswers ==
  \A t \in Thread : pc[t] \notin {"launch", "fetch"} => recv[t] = Answers(sent[t])

\* A page holds at most BUF_SIZE keys, those of its own interval, in order,
\* whoever inserts: the merge and find_key_page bisect them (insert_page under
\* the lock of the page).
PagesInOrder ==
  \A i \in DOMAIN pages :
    /\ Len(pages[i]) <= BufSize[mode]
    /\ \A j \in DOMAIN pages[i] :
         /\ Partial(i) <= pages[i][j] /\ pages[i][j] < Partial(i + 1)
         /\ j > 1 => pages[i][j - 1] < pages[i][j]

\* A key is in an overflow tree only behind a full page.  find_key_page says
\* yes for every page that is not empty, so no key of a tree is ever looked up
\* there, but by a GET that has seen the page empty before.
FullBeforeTree ==
  \A p \in Part : \A k \in trees[p] \ Seeds(p) :
    Len(pages[Max({i \in 0 .. PartialTotal - 1 : Partial(i) <= k})]) = BufSize[mode]

\* Which of the routed inserts are lost.  INSERT mode: keys behind the last
\* partial key it compares with.  MIX: those in the last
\* interval of a partition, for which the DPU has no answer.
Lost(k) ==
  IF mode = "insert"
  THEN k >= Partial(Min({P * N, PartialTotal - 1}))
  ELSE k >= Partial(Partition(k) * N + N - 1)

\* Every insert ends in one page or one tree, once, or is one of those lost.
InsertsLand ==
  AllDone => \A k \in Inserted :
    Cardinality(Stored(k)) + Cardinality(Behind(k)) = IF Lost(k) THEN 0 ELSE 1

Finishing(t, p) == done'[t][p] # done[t][p]

\* A GET of a loaded key returns its payload, whoever serves it: the DPU's
\* answer, a page or a tree in between, or the host's own search.  Only the last
\* interval of a partition is excepted: in MIX always (the payload is read out
\* of the array), in SEARCH when no element follows it (the bound is clipped).
GetsOwnPayload ==
  [][\A t \in Thread, p \in Part :
       Finishing(t, p) /\ Task(t, p).op = "get" /\ Task(t, p).key \in Loaded =>
         LET key  == Task(t, p).key
             last == key >= Partial(p * N + N - 1)
         IN  ~(last /\ (mode = "mix" \/ p * N + N = PartialTotal)) => ret'[t] = key]_vars

\* A scan that is worked off returns the elements in its range if it starts at
\* a partial key that is not the last of its partition and its end key fits in
\* 32 bits; from within an interval it returns nothing.
ScanExact ==
  [][\A t \in Thread, p \in Part :
       Finishing(t, p) /\ Task(t, p).op = "scan" /\ Pos(t, p) # INVALID =>
         LET q == Task(t, p)
             i == CHOOSE e \in 0 .. Total - 1 : Key(e) = q.key
             e == Key(Min({i + ScanLength, Elements - 1}))
         IN  /\ i % IL # 0 => rows'[t] = {}
             /\ i % IL = 0 /\ e < Width => rows'[t] = {k \in Loaded : q.key <= k /\ k < e}]_vars
=============================================================================
