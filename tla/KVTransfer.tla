------------------------------ MODULE KVTransfer ------------------------------
(***************************************************************************)
(* The hand-off of a request's KV cache from the prefill server P to the   *)
(* decode server D over NIXL: the bootstrap handshake, the chunked writes  *)
(* with their notifications, the receiver's polls reduced over the TP      *)
(* ranks, and the faults the code handles (P dying and coming back, the    *)
(* heartbeat, the waiting timeout).                                        *)
(*                                                                         *)
(* Rank k of D is paired with rank k of P.  The schedulers of one server   *)
(* run in lock step, so their queues are shared by the ranks; statuses,    *)
(* messages, writes and notifications are per rank.  The history of        *)
(* request r is NumChunks[r] chunks of one page; its parts are the chunks' *)
(* VRAM writes <<"kv", c>> and host-mirror writes <<"c4", c>>, and the aux *)
(* and SWA-state writes that go with the last chunk.  A TransferStatus is  *)
(* the set of the parts that have landed and notified: its received_ and   *)
(* expected_ fields are functions of that set, and a poll reads all        *)
(* pending notifications before it looks at them.  The receiver's records  *)
(* of a request that has left D's queues are dropped: nothing reads them.  *)
(* D's two queues are the requests in the phases "queued" and "transfer";  *)
(* came keeps the order of the first, which is a FIFO.                     *)
(***************************************************************************)
EXTENDS Naturals, Sequences, FiniteSets, Functions

CONSTANTS Reqs,        \* requests (bootstrap rooms)
          Ranks,       \* TP ranks
          Pages,       \* KV pages of D
          NumChunks,   \* chunks of each request's history
          MetaSlots,   \* D's metadata-buffer indices
          PMetaSlots,  \* number of P's metadata buffers
          MaxGen,      \* bound: P is started at most this often
          Blank        \* contents of memory nobody wrote

ASSUME KVTransferAssumption ==
  /\ IsFiniteSet(Reqs) /\ IsFiniteSet(Ranks) /\ Ranks # {} /\ IsFiniteSet(Pages)
  /\ NumChunks \in [Reqs -> Nat \ {0}]
  /\ IsFiniteSet(MetaSlots) /\ Blank \notin MetaSlots
  /\ PMetaSlots \in Nat \ {0} /\ MaxGen \in Nat \ {0}
  /\ Blank \notin Reqs

VARIABLES
  calm,      \* no fault happens in this behaviour
  \* ---- prefill server ----
  up, gen,   \* P is running; its incarnation (ports and agents are new in each)
  pphase,    \* none, bootstrap, prefill, inflight, done, lost
  pstat,     \* request_status of each rank
  infos,     \* rooms in transfer_infos of each rank
  chunk,     \* next chunk each sender sends
  \* ---- between the servers ----
  mail,      \* TransferInfo messages on their way to each rank of P
  posted,    \* writes posted and not landed, per rank
  \* ---- decode server ----
  dphase,    \* new, queued, transfer, running, done, aborted
  came,      \* the order in which D got requests, since its queue was empty
  waitInput, \* requests with waiting_for_input
  pages,     \* page of each chunk, chosen by _pre_alloc
  meta,      \* metadata_buffer_index
  freeMeta,  \* free metadata indices
  conn,      \* incarnation of P in each rank's connection_pool, 0 if none
  target,    \* incarnation each receiver's bootstrap_infos refers to
  dstat,     \* request_status of each rank
  doomed,    \* rooms a node failure has taken from the tracker, not yet Failed
  failed,    \* rooms whose TransferStatus.is_failure is set
  landed,    \* the rest of the TransferStatus: parts landed and notified
  concluded, \* conclude_state of each receiver
  mem        \* last writer of every location of each rank's memory

pvars == <<up, gen, pphase, pstat, infos, chunk>>
net == <<mail, posted>>
dvars == <<dphase, came, waitInput, pages, meta, freeMeta, conn, target,
           dstat, doomed, failed, landed, concluded, mem>>
vars == <<calm, pvars, net, dvars>>

\* KVPoll, and a room that is not in request_status / a conclude_state of None.
Failed == 0
Bootstrapping == 1
WaitingForInput == 2
Success == 4
Absent == 5

KVPolls == {Failed, Bootstrapping, WaitingForInput, Success, Absent}

\* Mutant of UpdateStatus: the last status wins, whatever it was.
UpdateStatusLastWins(s, new) == new

UpdateStatus(s, new) ==
  IF s = Absent \/ new = Failed \/ s < new THEN new ELSE s

ChunkIds(r) == 0 .. NumChunks[r] - 1
Kv(r) == {"kv"} \X ChunkIds(r)
C4(r) == {"c4"} \X ChunkIds(r)
Extras == {<<"aux", 0>>, <<"state", 0>>}
Parts(r) == Kv(r) \cup C4(r) \cup Extras

\* Where a part is written: pages are those of the TransferInfo sent at
\* prealloc time; they are never chosen twice, so pages[r] is that snapshot.
Dst(r, part) ==
  CASE part[1] = "aux" -> <<"aux", meta[r]>>
    [] part[1] = "state" -> <<"state", pages[r][NumChunks[r] - 1]>>
    [] OTHER -> <<part[1], pages[r][part[2]]>>

Locations == ({"kv", "c4", "state"} \X Pages) \cup ({"aux"} \X MetaSlots)

Held(r) == IF dphase[r] \in {"transfer", "running"} THEN Range(pages[r]) ELSE {}
FreePages == Pages \ UNION {Held(r) : r \in Reqs}

TransferInit ==
  /\ calm \in BOOLEAN
  /\ up = TRUE /\ gen = 1
  /\ pphase = [r \in Reqs |-> "none"]
  /\ pstat = [k \in Ranks |-> [r \in Reqs |-> Absent]]
  /\ infos = [k \in Ranks |-> {}]
  /\ chunk = [r \in Reqs |-> 0]
  /\ mail = [k \in Ranks |-> {}]
  /\ posted = [k \in Ranks |-> {}]
  /\ dphase = [r \in Reqs |-> "new"]
  /\ came = <<>> /\ waitInput = {}
  /\ pages = [r \in Reqs |-> <<>>]
  /\ meta = [r \in Reqs |-> Blank]
  /\ freeMeta = MetaSlots
  /\ conn = [k \in Ranks |-> 0]
  /\ target = [k \in Ranks |-> [r \in Reqs |-> 0]]
  /\ dstat = [k \in Ranks |-> [r \in Reqs |-> Absent]]
  /\ doomed = [k \in Ranks |-> {}]
  /\ failed = [k \in Ranks |-> {}]
  /\ landed = [k \in Ranks |-> [r \in Reqs |-> {}]]
  /\ concluded = [k \in Ranks |-> [r \in Reqs |-> Absent]]
  /\ mem = [k \in Ranks |-> [l \in Locations |-> Blank]]

------------------------------------------------------------------------------
(* The prefill server *)

\* PrefillBootstrapQueue.add: the sender is created, possibly after the
\* bootstrap thread has already got this room's TransferInfo.
PAdd(r) ==
  /\ up /\ pphase[r] = "none"
  /\ pphase' = [pphase EXCEPT ![r] = "bootstrap"]
  /\ pstat' = [k \in Ranks |-> [pstat[k] EXCEPT ![r] = UpdateStatus(@, Bootstrapping)]]
  /\ UNCHANGED <<calm, up, gen, infos, chunk, net, dvars>>

\* bootstrap_thread of rank k receives the TransferInfo of room r.
PRecvInfo(k, r) ==
  /\ up /\ r \in mail[k]
  /\ mail' = [mail EXCEPT ![k] = @ \ {r}]
  /\ infos' = [infos EXCEPT ![k] = @ \cup {r}]
  /\ pstat' = [pstat EXCEPT ![k][r] = UpdateStatus(@, WaitingForInput)]
  /\ UNCHANGED <<calm, up, gen, pphase, chunk, posted, dvars>>

PHoldingMeta == {r \in Reqs : pphase[r] \in {"prefill", "inflight"}}

\* pop_bootstrapped: the requests every rank of which is bootstrapped go on to
\* prefill, as long as there are metadata buffers.  (Which ones when there are
\* too few is left open: P's queue order is not modelled.)
PPopBootstrapped ==
  LET ready == {r \in Reqs : pphase[r] = "bootstrap" /\ \A k \in Ranks : pstat[k][r] = WaitingForInput}
      room  == PMetaSlots - Cardinality(PHoldingMeta)
  IN  /\ up /\ ready # {} /\ room > 0
      /\ \E S \in SUBSET ready :
           /\ Cardinality(S) = IF Cardinality(ready) < room THEN Cardinality(ready) ELSE room
           /\ pphase' = [r \in Reqs |-> IF r \in S THEN "prefill" ELSE pphase[r]]
      /\ UNCHANGED <<calm, up, gen, pstat, infos, chunk, net, dvars>>

\* The writes of one send(): the chunk's VRAM and mirror writes, and with the
\* last chunk the aux and state writes.
PartsOfChunk(r, c) ==
  {<<"kv", c>>, <<"c4", c>>} \cup (IF c = NumChunks[r] - 1 THEN Extras ELSE {})

\* Mutant of SentAll: the request is not taken out of prefill by its last chunk.
SentAllNever(r) == FALSE

\* curr_idx has reached num_kv_indices: this send is the last one.
SentAll(r) == chunk[r] = NumChunks[r] - 1

\* A chunk was computed: send_kv_chunk / NixlKVSender.send on every rank.  (A
\* chunk that completes no page is not sent: NumChunks counts those that are.)
PSend(r) ==
  LET last == SentAll(r)
  IN  /\ up /\ pphase[r] = "prefill"
      /\ posted' = [k \in Ranks |-> posted[k] \cup {<<r, p>> : p \in PartsOfChunk(r, chunk[r])}]
      /\ chunk' = [chunk EXCEPT ![r] = @ + 1]
      /\ pphase' = [pphase EXCEPT ![r] = IF last THEN "inflight" ELSE @]
      /\ infos' = [k \in Ranks |-> IF last THEN infos[k] \ {r} ELSE infos[k]]
      /\ pstat' = [k \in Ranks |-> [pstat[k] EXCEPT ![r] = IF last THEN Absent ELSE @]]
      /\ UNCHANGED <<calm, up, gen, mail, dvars>>

\* process_disagg_prefill_inflight_queue: a request all of whose handles are
\* DONE on every rank gives back its KV cache and its metadata buffer.
PInflight ==
  LET fin == {r \in Reqs : pphase[r] = "inflight" /\ \A k \in Ranks : \A w \in posted[k] : w[1] # r}
  IN  /\ up /\ fin # {}
      /\ pphase' = [r \in Reqs |-> IF r \in fin THEN "done" ELSE pphase[r]]
      /\ UNCHANGED <<calm, up, gen, pstat, infos, chunk, net, dvars>>

\* P dies: its tables, its unread mail and its unfinished writes are gone.
PCrash ==
  /\ ~calm /\ up /\ gen < MaxGen
  /\ up' = FALSE
  /\ pphase' = [r \in Reqs |-> IF pphase[r] \in {"none", "done"} THEN pphase[r] ELSE "lost"]
  /\ pstat' = [k \in Ranks |-> [r \in Reqs |-> Absent]]
  /\ infos' = [k \in Ranks |-> {}]
  /\ mail' = [k \in Ranks |-> {}]
  /\ posted' = [k \in Ranks |-> {}]
  /\ UNCHANGED <<calm, gen, chunk, dvars>>

PRestart ==
  /\ ~up
  /\ up' = TRUE /\ gen' = gen + 1
  /\ UNCHANGED <<calm, pphase, pstat, infos, chunk, net, dvars>>

\* NIXL: a write lands, and its notification can be read after it.  (One that
\* comes for a request D has given up only leaves a record nobody reads.)
Land(k, w) ==
  /\ w \in posted[k]
  /\ posted' = [posted EXCEPT ![k] = @ \ {w}]
  /\ mem' = [mem EXCEPT ![k][Dst(w[1], w[2])] = w[1]]
  /\ landed' = [landed EXCEPT ![k][w[1]] = IF dphase[w[1]] = "transfer" THEN @ \cup {w[2]} ELSE @]
  /\ UNCHANGED <<calm, pvars, mail, dphase, came, waitInput, pages, meta, freeMeta, conn,
                 target, dstat, doomed, failed, concluded>>
------------------------------------------------------------------------------
(* The decode server *)

\* DecodePreallocQueue.add: each rank's receiver takes P's addresses from its
\* connection pool, or fetches them, which fails while P is down.
DAdd(r) ==
  LET reach(k) == IF conn[k] # 0 THEN conn[k] ELSE IF up THEN gen ELSE 0
  IN  /\ dphase[r] = "new"
      /\ dphase' = [dphase EXCEPT ![r] = "queued"]
      /\ came' = Append(came, r)
      /\ conn' = [k \in Ranks |-> reach(k)]
      /\ target' = [k \in Ranks |-> [target[k] EXCEPT ![r] = reach(k)]]
      /\ dstat' = [k \in Ranks |-> [dstat[k] EXCEPT
                     ![r] = UpdateStatus(@, IF reach(k) = 0 THEN Failed ELSE Bootstrapping)]]
      /\ UNCHANGED <<calm, pvars, net, waitInput, pages, meta, freeMeta, doomed, failed,
                     landed, concluded, mem>>

\* DecodePreallocQueue.queue and DecodeTransferQueue.queue
Queued == {r \in Reqs : dphase[r] = "queued"}
InTransfer == {r \in Reqs : dphase[r] = "transfer"}

\* The records the manager keeps for requests that leave D's queues.
Forget(f, gone, none) == [k \in Ranks |-> [r \in Reqs |-> IF r \in gone THEN none ELSE f[k][r]]]
DropRooms(f, gone) == [k \in Ranks |-> f[k] \ gone]

\* _update_handshake_waiters: nobody is polled when all are waiting for input.
HandshakePolled == ~(Queued \subseteq waitInput)

\* receiver.poll() of a request whose transfer has not been started.
PollQueued(k, r) ==
  IF concluded[k][r] # Absent THEN concluded[k][r]
  ELSE IF dstat[k][r] = Failed THEN Failed ELSE WaitingForInput

\* poll_and_all_reduce: every rank sees the minimum of the ranks' polls.
Reduced(poll, r) == CHOOSE v \in {poll[k][r] : k \in Ranks} : \A k \in Ranks : v <= poll[k][r]

HandshakeFails ==
  LET poll == [k \in Ranks |-> [r \in Queued |-> PollQueued(k, r)]]
  IN  IF HandshakePolled THEN {r \in Queued : Reduced(poll, r) = Failed} ELSE {}

\* A page per chunk, and a metadata buffer, for each request of S.
PageNeeds(S) == UNION {{r} \X ChunkIds(r) : r \in S}
Fits(S) ==
  Cardinality(S) <= Cardinality(freeMeta) /\ Cardinality(PageNeeds(S)) <= Cardinality(FreePages)

\* r and the requests of S that came before it.
UpTo(r, S) ==
  {q \in S : \E i, j \in 1 .. Len(came) : i <= j /\ came[i] = q /\ came[j] = r}

\* Those waiting for input after the handshake polls, failed ones apart, are
\* taken in order until one does not fit.
Waiting == IF HandshakePolled THEN waitInput \cup (Queued \ HandshakeFails) ELSE waitInput
Ready == (Waiting \cap Queued) \ HandshakeFails
Taken == {r \in Ready : Fits(UpTo(r, Ready))}

\* pop_preallocated: failed requests leave the queue; those taken get their
\* pages and metadata buffer, and their receivers send the TransferInfo.
PopPreallocated ==
  /\ Queued # {}
  /\ \E a \in Injection(PageNeeds(Taken), FreePages) :
       pages' = [r \in Reqs |-> IF r \in Taken THEN [c \in ChunkIds(r) |-> a[<<r, c>>]] ELSE pages[r]]
  /\ \E m \in Injection(Taken, freeMeta) :
       /\ meta' = [r \in Reqs |-> IF r \in Taken THEN m[r] ELSE meta[r]]
       /\ freeMeta' = freeMeta \ Range(m)
  /\ dphase' = [r \in Reqs |-> IF r \in Taken THEN "transfer"
                               ELSE IF r \in HandshakeFails THEN "aborted" ELSE dphase[r]]
  \* a message to an incarnation of P that is gone is lost
  /\ mail' = [k \in Ranks |-> mail[k] \cup {r \in Taken : up /\ target[k][r] = gen}]
  /\ came' = IF Queued = Taken \cup HandshakeFails THEN <<>> ELSE came
  /\ waitInput' = Waiting \ (Taken \cup HandshakeFails)
  /\ dstat' = Forget(dstat, HandshakeFails, Absent)
  /\ doomed' = DropRooms(doomed, HandshakeFails)
  /\ concluded' = Forget(concluded, HandshakeFails, Absent)
  /\ UNCHANGED <<calm, pvars, posted, conn, target, failed, landed, mem>>

\* Mutant of IsDone: the number of chunks is not compared with the expected one.
IsDoneOnLast(r, S) ==
  /\ <<"kv", NumChunks[r] - 1>> \in S
  /\ Extras \subseteq S
  /\ \E c \in ChunkIds(r) : <<"c4", c>> \in S

\* Mutant of IsDone: the aux data is not waited for.
IsDoneNoAux(r, S) ==
  /\ <<"kv", NumChunks[r] - 1>> \in S
  /\ <<"state", 0>> \in S
  /\ \E c \in ChunkIds(r) : <<"c4", c>> \in S
  /\ Cardinality(S \cap Kv(r)) = NumChunks[r]

\* TransferStatus.is_done, of a status that is not marked failed.  The expected
\* number of chunks is known once the last one's notification is read, and one
\* mirror notification, of whatever chunk, sets received_c4.
IsDone(r, S) ==
  /\ <<"kv", NumChunks[r] - 1>> \in S
  /\ Extras \subseteq S
  /\ \E c \in ChunkIds(r) : <<"c4", c>> \in S
  /\ Cardinality(S \cap Kv(r)) = NumChunks[r]

\* Mutant of PollTransfer: the timeout is noticed but the receiver goes on waiting.
PollTransferNoTimeout(k, r, late) ==
  IF concluded[k][r] # Absent THEN concluded[k][r]
  ELSE IF dstat[k][r] = Failed \/ r \in failed[k] THEN Failed
  ELSE IF IsDone(r, landed[k][r]) THEN Success ELSE WaitingForInput

\* receiver.poll() of a request in transfer; late: waiting_timeout has passed.
PollTransfer(k, r, late) ==
  IF concluded[k][r] # Absent THEN concluded[k][r]
  ELSE IF dstat[k][r] = Failed \/ late \/ r \in failed[k] THEN Failed
  ELSE IF IsDone(r, landed[k][r]) THEN Success ELSE WaitingForInput

\* Mutant of MetaOf: a poll that aborts a request frees no committed one's buffer.
MetaOfAborted(bad, good) == {meta[r] : r \in IF bad # {} THEN bad ELSE good}

\* The metadata buffers of the requests that leave the transfer queue.
MetaOf(bad, good) == {meta[r] : r \in bad \cup good}

\* The polls of a pop_transferred, with the receivers in late past their timeout
\* (at most one: more time out one poll after the other).
Polls(late) == [k \in Ranks |-> [r \in InTransfer |-> PollTransfer(k, r, <<k, r>> \in late)]]
Polled(late, status) == {r \in InTransfer : Reduced(Polls(late), r) = status}

\* pop_transferred: a failed request's pages and its metadata buffer go back to
\* the pools, whatever P may still be writing.
PopTransferred(late) ==
  LET poll == Polls(late)
      bad  == Polled(late, Failed)
      good == Polled(late, Success)
      gone == bad \cup good
  IN  /\ InTransfer # {}
      /\ concluded' = [k \in Ranks |-> [r \in Reqs |->
                         IF r \in gone THEN Absent
                         ELSE IF r \in InTransfer /\ poll[k][r] \in {Failed, Success} THEN poll[k][r]
                         ELSE concluded[k][r]]]
      /\ landed' = Forget(landed, gone, {})
      /\ dphase' = [r \in Reqs |-> IF r \in good THEN "running"
                                   ELSE IF r \in bad THEN "aborted" ELSE dphase[r]]
      /\ freeMeta' = freeMeta \cup MetaOf(bad, good)
      /\ dstat' = Forget(dstat, gone, Absent)
      /\ doomed' = DropRooms(doomed, gone)
      /\ failed' = DropRooms(failed, gone)
      /\ UNCHANGED <<calm, pvars, mail, posted, came, waitInput, pages, meta, conn, target, mem>>

TimeOut(r) == ~calm /\ r \in InTransfer /\ \E k \in Ranks : PopTransferred({<<k, r>>})

\* The rooms of addr_to_rooms_tracker that a node failure can still affect.
Tracked(k) == {r \in Queued \cup InTransfer : concluded[k][r] = Absent /\ dstat[k][r] # Failed
                                               /\ r \notin doomed[k]}

\* _handle_node_failure, first part: max_failures health checks in a row have
\* failed, because P is down or because it answers too slowly.  The heartbeat
\* thread of rank k drops the connection tables, takes the tracked rooms and
\* marks those not done.  One whose parts have all landed is done if its
\* notifications have been read.
NodeFailureMarks(k) ==
  /\ ~calm /\ conn[k] # 0
  /\ conn' = [conn EXCEPT ![k] = 0]
  /\ doomed' = [doomed EXCEPT ![k] = @ \cup Tracked(k)]
  /\ \E read \in SUBSET {r \in Tracked(k) \cap InTransfer : IsDone(r, landed[k][r])} :
       failed' = [failed EXCEPT ![k] = @ \cup ((Tracked(k) \cap InTransfer) \ read)]
  /\ UNCHANGED <<calm, pvars, net, dphase, came, waitInput, pages, meta, freeMeta, target,
                 dstat, landed, concluded, mem>>

\* Second part, after polls may have gone by: update_status(room, Failed).
NodeFailureFails(k) ==
  /\ doomed[k] # {}
  /\ dstat' = [dstat EXCEPT ![k] = [r \in Reqs |-> IF r \in doomed[k] THEN UpdateStatus(@[r], Failed) ELSE @[r]]]
  /\ doomed' = [doomed EXCEPT ![k] = {}]
  /\ UNCHANGED <<calm, pvars, net, dphase, came, waitInput, pages, meta, freeMeta, conn,
                 target, failed, landed, concluded, mem>>

\* The request has decoded to its end: release_kv_cache.
Finish(r) ==
  /\ dphase[r] = "running"
  /\ dphase' = [dphase EXCEPT ![r] = "done"]
  /\ UNCHANGED <<calm, pvars, net, came, waitInput, pages, meta, freeMeta, conn, target,
                 dstat, doomed, failed, landed, concluded, mem>>

Idle ==
  /\ \A r \in Reqs : dphase[r] \in {"done", "aborted"}
  /\ UNCHANGED vars

Prefill == (\E r \in Reqs : PAdd(r) \/ PSend(r)) \/ PPopBootstrapped \/ PInflight
Network == (\E k \in Ranks, r \in Reqs : PRecvInfo(k, r)) \/ (\E k \in Ranks : \E w \in posted[k] : Land(k, w))
Decode  == (\E r \in Reqs : DAdd(r) \/ Finish(r)) \/ PopPreallocated \/ PopTransferred({})
Faults  == PCrash \/ PRestart \/ (\E r \in Reqs : TimeOut(r))
           \/ (\E k \in Ranks : NodeFailureMarks(k) \/ NodeFailureFails(k))

TransferNext == Prefill \/ Network \/ Decode \/ Faults \/ Idle

TransferSpec == TransferInit /\ [][TransferNext]_vars

\* Both schedulers and the bootstrap threads loop forever, posted writes of a
\* live P land, running requests end (max_new_tokens), the heartbeat thread
\* finishes what it began, and time passes: a request that stays in transfer
\* is at last past its timeout.  Nothing makes P crash, restart or be noticed.
\* Each of these takes finitely many steps that change anything, so it is enough
\* that the system does not rest while one of them can be taken.
Progress ==
  Prefill \/ Network \/ Decode \/ (\E r \in Reqs : TimeOut(r)) \/ (\E k \in Ranks : NodeFailureFails(k))

FairTransferSpec == TransferSpec /\ WF_vars(Progress)
------------------------------------------------------------------------------
(* Properties *)

PartIds == {"kv", "c4", "aux", "state"} \X Nat

TransferTypeOK ==
  /\ calm \in BOOLEAN /\ up \in BOOLEAN /\ gen \in 1 .. MaxGen
  /\ pphase \in [Reqs -> {"none", "bootstrap", "prefill", "inflight", "done", "lost"}]
  /\ pstat \in [Ranks -> [Reqs -> KVPolls]] /\ dstat \in [Ranks -> [Reqs -> KVPolls]]
  /\ concluded \in [Ranks -> [Reqs -> KVPolls]]
  /\ chunk \in [Reqs -> Nat] /\ \A r \in Reqs : chunk[r] <= NumChunks[r]
  /\ infos \in [Ranks -> SUBSET Reqs] /\ mail \in [Ranks -> SUBSET Reqs]
  /\ doomed \in [Ranks -> SUBSET Reqs] /\ failed \in [Ranks -> SUBSET Reqs]
  /\ posted \in [Ranks -> SUBSET (Reqs \X PartIds)] /\ landed \in [Ranks -> [Reqs -> SUBSET PartIds]]
  /\ dphase \in [Reqs -> {"new", "queued", "transfer", "running", "done", "aborted"}]
  /\ came \in Seq(Reqs) /\ waitInput \subseteq Reqs
  /\ \A r \in Reqs : pages[r] \in {<<>>} \cup [ChunkIds(r) -> Pages]
  /\ meta \in [Reqs -> MetaSlots \cup {Blank}] /\ freeMeta \subseteq MetaSlots
  /\ conn \in [Ranks -> 0 .. MaxGen] /\ target \in [Ranks -> [Reqs -> 0 .. MaxGen]]
  /\ mem \in [Ranks -> [Locations -> Reqs \cup {Blank}]]

\* What is_done() makes sure of: every VRAM chunk, the aux data and the state,
\* and the mirror of a history that is sent as one chunk.
Awaited(r) == Kv(r) \cup Extras \cup (IF NumChunks[r] = 1 THEN C4(r) ELSE {})

\* The parts of r that have landed on every rank, while they are awaited.
Arrived(r) ==
  IF dphase[r] = "transfer" THEN {p \in Parts(r) : \A k \in Ranks : p \in landed[k][r]} ELSE {}

Stage(r) ==
  CASE dphase[r] \in {"new", "queued"} -> "new"
    [] dphase[r] = "transfer" -> "reserved"
    [] dphase[r] = "running" -> "delivered"
    [] OTHER -> "gone"

Handoff == INSTANCE KVHandoff WITH
  Required <- [r \in Reqs |-> Awaited(r)],
  stage <- [r \in Reqs |-> Stage(r)],
  owns <- [r \in Reqs |-> Held(r)],
  arrived <- [r \in Reqs |-> Arrived(r)]

\* The ranks, messages, polls and faults implement the abstract hand-off: a
\* request is committed to the decode loop (_commit_transfer_to_req) only when
\* everything required of its history has landed on every rank, and its pages
\* are its own from _pre_alloc to release_kv_cache.
ImplementsHandoff == Handoff!HandoffSpec

\* Writers whose bytes may still turn up in pages that were given to another:
\* P does not know that D gave a request up, and a mirror write of a chunked
\* history may land after the request has been committed.
Straggler(q, l) ==
  q \in Reqs /\ (dphase[q] = "aborted" \/ (l[1] = "c4" /\ NumChunks[q] > 1))

\* The pages of a running request hold what P wrote for that request, on every
\* rank, never what a request that finished before it left there; only a
\* request that D gave up, or a late mirror write, can have overwritten them.
DeliveredHistoryIsOwn ==
  \A r \in Reqs : dphase[r] = "running" =>
    \A k \in Ranks : \A p \in Awaited(r) \ {<<"aux", 0>>} :
      LET l == Dst(r, p) IN mem[k][l] = r \/ Straggler(mem[k][l], l)

\* _commit_transfer_to_req reads the metadata buffer (the first output token)
\* that P wrote for this request, or that a given-up request overwrote.
CommitReadsOwnMetadata ==
  [][\A r \in Reqs : dphase[r] = "transfer" /\ dphase'[r] = "running" =>
       \A k \in Ranks : LET l == <<"aux", meta[r]>> IN mem[k][l] = r \/ Straggler(mem[k][l], l)]_vars

\* Every metadata-buffer index is either free or held by one request in
\* transfer: aborts and commits of several requests in one poll lose none.
MetadataAccounted ==
  /\ \A r, q \in InTransfer : meta[r] = meta[q] => r = q
  /\ {meta[r] : r \in InTransfer} = MetaSlots \ freeMeta

\* Whatever P does, crashing and losing messages included, a request that D
\* has queued is at last committed or aborted: it is never polled forever.
EveryRequestConcludes ==
  \A r \in Reqs : dphase[r] = "queued" ~> dphase[r] \in {"running", "done", "aborted"}

\* Without faults every queued request is committed, in whatever order sender,
\* receiver, bootstrap messages and notifications come.
CalmRequestsAreDelivered ==
  \A r \in Reqs : (calm /\ dphase[r] = "queued") ~> dphase[r] \in {"running", "done"}

\* nixl/conn.py: "decode never starts before the c4 mirror transfer (separate
\* from the VRAM indexer/c128 xfer) has fully landed".
MirrorLandsBeforeDecode ==
  \A r \in Reqs : dphase[r] = "running" =>
    \A k \in Ranks, c \in ChunkIds(r) : mem[k][Dst(r, <<"c4", c>>)] = r
=============================================================================
