--------------------------- MODULE KVTransferProofs ---------------------------
(*****************************************************************************)
(* Proofs about the KV hand-off for any number of requests, ranks, pages,    *)
(* chunks, metadata buffers and restarts of P: the inductive invariant, the  *)
(* senders, the handshake and the records of the receivers, the writes and   *)
(* the memory, the theorems, and that the hand-off between the two servers   *)
(* implements the abstract one.                                              *)
(*****************************************************************************)
EXTENDS KVTransfer, FiniteSetTheorems, TLAPS

-----------------------------------------------------------------------------
(* The inductive invariant.                                                *)

\* P sends every chunk of a request once, and only of a request it has
\* bootstrapped; a P that is down can still be started.
Sending ==
  /\ ~up => gen < MaxGen
  /\ \A r \in Reqs : /\ pphase[r] \in {"none", "bootstrap"} => chunk[r] = 0
                     /\ pphase[r] = "prefill" => chunk[r] < NumChunks[r]

\* Nothing has gone to P about a request that has no pages yet.
Bootstrapped ==
  \A r \in Reqs : dphase[r] \in {"new", "queued"} =>
    /\ pphase[r] \notin {"prefill", "inflight", "done"}
    /\ \A k \in Ranks : /\ r \notin mail[k]
                        /\ pstat[k][r] \in {Absent, Bootstrapping}
                        /\ \A p \in PartIds : <<r, p>> \notin posted[k]

\* A receiver's records are those of the current transfer, and it concludes
\* with Success only what is_done() accepts.
Records ==
  \A k \in Ranks, r \in Reqs :
    /\ dphase[r] # "transfer" => concluded[k][r] = Absent /\ landed[k][r] = {}
    /\ concluded[k][r] \in {Absent, Failed, Success}
    /\ concluded[k][r] = Success => IsDone(r, landed[k][r])

\* Requests in transfer and running requests have their own pages.
PagesOwned ==
  /\ \A r \in Reqs : dphase[r] \in {"transfer", "running", "done"} => pages[r] \in [ChunkIds(r) -> Pages]
  /\ \A r, q \in Reqs : r # q => Held(r) \cap Held(q) = {}

\* The parts sent so far.
SentParts(r) == {p \in PartIds : \E c \in 0 .. chunk[r] - 1 : p \in PartsOfChunk(r, c)}

\* A part that has been sent is on its way or has landed, not both; a committed
\* request only waits for parts is_done() does not wait for.
Writes ==
  \A k \in Ranks, r \in Reqs :
    /\ landed[k][r] \subseteq SentParts(r)
    /\ \A p \in PartIds : <<r, p>> \in posted[k] =>
         /\ p \in SentParts(r)
         /\ p \notin landed[k][r]
         /\ dphase[r] \in {"running", "done"} => p \notin Awaited(r)
    /\ dphase[r] \in {"running", "done"} => chunk[r] = NumChunks[r]

\* Location l of rank k holds what P wrote for r, or a straggler's bytes.
Own(k, r, l) == mem[k][l] = r \/ Straggler(mem[k][l], l)

Bytes ==
  \A k \in Ranks, r \in Reqs :
    /\ dphase[r] = "transfer" => \A p \in landed[k][r] : Own(k, r, Dst(r, p))
    /\ dphase[r] = "running" => \A p \in Awaited(r) \ {<<"aux", 0>>} : Own(k, r, Dst(r, p))

MetaOwned ==
  /\ \A r \in Reqs : dphase[r] = "transfer" => meta[r] \in MetaSlots
  /\ MetadataAccounted

TransferInv ==
  TransferTypeOK /\ Sending /\ Bootstrapped /\ Records /\ PagesOwned /\ Writes /\ Bytes /\ MetaOwned

-----------------------------------------------------------------------------
(* Facts about the operators.                                              *)

\* Chunk numbers are naturals, and a request has a first and a last one.
LEMMA ChunkFacts ==
  ASSUME NEW r \in Reqs
  PROVE  /\ NumChunks[r] \in Nat /\ NumChunks[r] >= 1 /\ ChunkIds(r) \subseteq Nat
         /\ 0 \in ChunkIds(r) /\ NumChunks[r] - 1 \in ChunkIds(r)
         /\ \A c \in ChunkIds(r) : c < NumChunks[r]
BY KVTransferAssumption DEF ChunkIds

\* The writes of one send() are parts, and no part is sent with two chunks.
LEMMA ChunkPartFacts ==
  ASSUME NEW r \in Reqs
  PROVE  /\ \A c \in ChunkIds(r) : PartsOfChunk(r, c) \subseteq PartIds
         /\ \A c, d \in ChunkIds(r), p \in PartIds :
              p \in PartsOfChunk(r, c) /\ p \in PartsOfChunk(r, d) => c = d
BY ChunkFacts DEF PartsOfChunk, PartIds, Extras

\* A history has as many VRAM parts as chunks.
LEMMA KvCardinality ==
  ASSUME NEW r \in Reqs
  PROVE  IsFiniteSet(Kv(r)) /\ Cardinality(Kv(r)) = NumChunks[r]
<1> DEFINE f == [c \in ChunkIds(r) |-> <<"kv", c>>]
<1>1. f \in Bijection(ChunkIds(r), Kv(r))
  <2>1. f \in [ChunkIds(r) -> Kv(r)]
    BY Zenon DEF Kv
  <2>2. \A a, b \in ChunkIds(r) : f[a] = f[b] => a = b
    OBVIOUS
  <2>3. \A t \in Kv(r) : \E c \in ChunkIds(r) : f[c] = t
    BY DEF Kv
  <2> QED
    BY <2>1, <2>2, <2>3, Zenon DEF Bijection, Injection, Surjection, IsInjective
<1>2. IsFiniteSet(ChunkIds(r)) /\ Cardinality(ChunkIds(r)) = NumChunks[r]
  BY ChunkFacts, FS_Interval DEF ChunkIds
<1>3. ExistsBijection(ChunkIds(r), Kv(r))
  BY <1>1, Zenon DEF ExistsBijection
<1> QED
  BY <1>2, <1>3, FS_Bijection, Zenon

\* What is_done() accepts has everything it waits for: counting the VRAM parts
\* is enough, because each of them is notified once.
LEMMA IsDoneHasAwaited ==
  ASSUME NEW r \in Reqs, NEW S, IsDone(r, S)
  PROVE  Awaited(r) \subseteq S
<1>1. S \cap Kv(r) = Kv(r)
  <2>1. S \cap Kv(r) \subseteq Kv(r) /\ Cardinality(S \cap Kv(r)) = Cardinality(Kv(r))
    BY KvCardinality, Zenon DEF IsDone
  <2> QED
    BY <2>1, KvCardinality, FS_Subset, Zenon
<1>2. NumChunks[r] = 1 => C4(r) \subseteq S
  BY ChunkFacts DEF IsDone, C4, ChunkIds
<1> QED
  BY <1>1, <1>2, Zenon DEF IsDone, Awaited

\* Awaited parts are parts.
LEMMA AwaitedArePartIds ==
  ASSUME NEW r \in Reqs
  PROVE  Awaited(r) \subseteq Parts(r) /\ Parts(r) \subseteq PartIds
BY ChunkFacts DEF Awaited, Parts, PartIds, Kv, C4, Extras

\* poll_and_all_reduce: the reduced status is the smallest of the ranks'.
LEMMA ReducedIsMinimum ==
  ASSUME NEW f, NEW r, \A k \in Ranks : f[k][r] \in {Failed, WaitingForInput, Success}
  PROVE  /\ Reduced(f, r) \in {f[k][r] : k \in Ranks}
         /\ \A k \in Ranks : Reduced(f, r) <= f[k][r]
<1>1. \E v \in {f[k][r] : k \in Ranks} : \A k \in Ranks : v <= f[k][r]
  <2>1. CASE \E k \in Ranks : f[k][r] = Failed
    BY <2>1 DEF Failed, WaitingForInput, Success
  <2>2. CASE (\A k \in Ranks : f[k][r] # Failed) /\ \E k \in Ranks : f[k][r] = WaitingForInput
    BY <2>2 DEF Failed, WaitingForInput, Success
  <2>3. CASE \A k \in Ranks : f[k][r] = Success
    BY <2>3, KVTransferAssumption DEF Success
  <2> QED
    BY <2>1, <2>2, <2>3, Zenon
<1> QED
  BY <1>1, Zenon DEF Reduced

\* A request is committed only if the receiver of every rank reports Success.
LEMMA ReducedSuccess ==
  ASSUME NEW f, NEW r, \A k \in Ranks : f[k][r] \in {Failed, WaitingForInput, Success},
         Reduced(f, r) = Success
  PROVE  \A k \in Ranks : f[k][r] = Success
BY ReducedIsMinimum DEF Failed, WaitingForInput, Success

\* update_status never yields anything but a status.
LEMMA UpdateStatusType ==
  ASSUME NEW s \in KVPolls, NEW n \in KVPolls
  PROVE  UpdateStatus(s, n) \in KVPolls
BY Zenon DEF UpdateStatus

\* A receiver's poll fails, goes on waiting or succeeds.
LEMMA PollsType ==
  ASSUME NEW late, Records
  PROVE  \A k \in Ranks, r \in InTransfer : Polls(late)[k][r] \in {Failed, WaitingForInput, Success}
BY Zenon DEF Polls, PollTransfer, Records, InTransfer, Failed, WaitingForInput, Success, Absent

\* pop_preallocated takes queued requests, and not the failed ones.
LEMMA TakenFacts ==
  /\ Taken \subseteq Queued /\ HandshakeFails \subseteq Queued
  /\ Taken \cap HandshakeFails = {} /\ Queued \subseteq Reqs
BY Zenon DEF Taken, Ready, HandshakeFails, Queued

\* pop_transferred commits or aborts requests in transfer, none both.
LEMMA PolledFacts ==
  ASSUME NEW late
  PROVE  /\ Polled(late, Failed) \subseteq InTransfer /\ Polled(late, Success) \subseteq InTransfer
         /\ Polled(late, Failed) \cap Polled(late, Success) = {} /\ InTransfer \subseteq Reqs
BY DEF Polled, InTransfer, Failed, Success

-----------------------------------------------------------------------------
(* Initial states, and steps that preserve each part of the invariant.     *)

USE DEF Failed, Bootstrapping, WaitingForInput, Success, Absent

\* The invariant holds before anything is queued.
THEOREM TransferInitInv == TransferInit => TransferInv
<1> SUFFICES ASSUME TransferInit PROVE TransferInv
  OBVIOUS
<1> USE KVTransferAssumption DEF TransferInit
<1>1. TransferTypeOK
  BY DEF TransferTypeOK, KVPolls, PartIds
<1>2. Sending /\ Bootstrapped /\ Records /\ Bytes
  BY DEF Sending, Bootstrapped, Records, Bytes
<1>3. PagesOwned /\ Writes
  BY Zenon DEF PagesOwned, Held, Writes
<1>4. MetaOwned
  BY Zenon DEF MetaOwned, MetadataAccounted, InTransfer
<1> QED
  BY <1>1, <1>2, <1>3, <1>4, Zenon DEF TransferInv

\* The types, when the sender is created.
LEMMA TypePAdd ==
  ASSUME TransferTypeOK, Sending, Records, PagesOwned, MetaOwned,
         NEW r \in Reqs, PAdd(r)
  PROVE  TransferTypeOK'
<1> USE KVTransferAssumption DEF TransferTypeOK
<1>0. {Failed, Bootstrapping, WaitingForInput, Success, Absent} \subseteq KVPolls
  BY Zenon DEF KVPolls
<1>1. pstat' \in [Ranks -> [Reqs -> KVPolls]]
  BY <1>0, UpdateStatusType DEF PAdd
<1>2. pphase' \in [Reqs -> {"none", "bootstrap", "prefill", "inflight", "done", "lost"}]
  BY Zenon DEF PAdd
<1>3. UNCHANGED <<calm, up, gen, infos, chunk, mail, posted, dphase, came, waitInput,
                  pages, meta, freeMeta, conn, target, dstat, doomed, failed, landed,
                  concluded, mem>>
  BY Zenon DEF PAdd, net, dvars
<1> QED
  BY <1>1, <1>2, <1>3, Zenon

\* The types, through send().
LEMMA TypePSend ==
  ASSUME TransferTypeOK, Sending, Records, PagesOwned, MetaOwned,
         NEW r \in Reqs, PSend(r)
  PROVE  TransferTypeOK'
<1> USE KVTransferAssumption DEF TransferTypeOK
<1>0. {Failed, Bootstrapping, WaitingForInput, Success, Absent} \subseteq KVPolls
  BY Zenon DEF KVPolls
<1>1. \A c \in ChunkIds(r) : PartsOfChunk(r, c) \subseteq PartIds
  BY ChunkPartFacts, Zenon
<1>2. chunk[r] \in ChunkIds(r) /\ chunk[r] + 1 <= NumChunks[r]
  BY ChunkFacts DEF PSend, Sending, ChunkIds
<1>3. posted' \in [Ranks -> SUBSET (Reqs \X PartIds)]
  BY <1>1, <1>2 DEF PSend
<1>4. pstat' \in [Ranks -> [Reqs -> KVPolls]]
  BY <1>0 DEF PSend
<1>5. /\ pphase' \in [Reqs -> {"none", "bootstrap", "prefill", "inflight", "done", "lost"}]
      /\ infos' \in [Ranks -> SUBSET Reqs]
  BY Zenon DEF PSend
<1>6. chunk' \in [Reqs -> Nat] /\ \A q \in Reqs : chunk'[q] <= NumChunks[q]
  BY <1>2 DEF PSend
<1>7. UNCHANGED <<calm, up, gen, mail, dphase, came, waitInput, pages, meta, freeMeta,
                  conn, target, dstat, doomed, failed, landed, concluded, mem>>
  BY Zenon DEF PSend, dvars
<1> QED
  BY <1>3, <1>4, <1>5, <1>6, <1>7, Zenon

\* The types, through pop_bootstrapped.
LEMMA TypePPopBootstrapped ==
  ASSUME TransferTypeOK, Sending, Records, PagesOwned, MetaOwned,
         PPopBootstrapped
  PROVE  TransferTypeOK'
<1> USE KVTransferAssumption DEF TransferTypeOK
<1>0. {Failed, Bootstrapping, WaitingForInput, Success, Absent} \subseteq KVPolls
  BY Zenon DEF KVPolls
<1>1. pphase' \in [Reqs -> {"none", "bootstrap", "prefill", "inflight", "done", "lost"}]
  BY Zenon DEF PPopBootstrapped
<1>2. UNCHANGED <<calm, up, gen, pstat, infos, chunk, mail, posted, dphase, came,
                  waitInput, pages, meta, freeMeta, conn, target, dstat, doomed, failed,
                  landed, concluded, mem>>
  BY Zenon DEF PPopBootstrapped, net, dvars
<1> QED
  BY <1>1, <1>2, Zenon

\* The types, through the in-flight queue.
LEMMA TypePInflight ==
  ASSUME TransferTypeOK, Sending, Records, PagesOwned, MetaOwned,
         PInflight
  PROVE  TransferTypeOK'
<1> USE KVTransferAssumption DEF TransferTypeOK
<1>0. {Failed, Bootstrapping, WaitingForInput, Success, Absent} \subseteq KVPolls
  BY Zenon DEF KVPolls
<1>1. pphase' \in [Reqs -> {"none", "bootstrap", "prefill", "inflight", "done", "lost"}]
  BY Zenon DEF PInflight
<1>2. UNCHANGED <<calm, up, gen, pstat, infos, chunk, mail, posted, dphase, came,
                  waitInput, pages, meta, freeMeta, conn, target, dstat, doomed, failed,
                  landed, concluded, mem>>
  BY Zenon DEF PInflight, net, dvars
<1> QED
  BY <1>1, <1>2, Zenon

\* The types, through the bootstrap thread.
LEMMA TypePRecvInfo ==
  ASSUME TransferTypeOK, Sending, Records, PagesOwned, MetaOwned,
         NEW k \in Ranks, NEW r \in Reqs, PRecvInfo(k, r)
  PROVE  TransferTypeOK'
<1> USE KVTransferAssumption DEF TransferTypeOK
<1>0. {Failed, Bootstrapping, WaitingForInput, Success, Absent} \subseteq KVPolls
  BY Zenon DEF KVPolls
<1>1. pstat' \in [Ranks -> [Reqs -> KVPolls]]
  BY <1>0, UpdateStatusType DEF PRecvInfo
<1>2. mail' \in [Ranks -> SUBSET Reqs] /\ infos' \in [Ranks -> SUBSET Reqs]
  BY Zenon DEF PRecvInfo
<1>3. UNCHANGED <<calm, up, gen, pphase, chunk, posted, dphase, came, waitInput, pages,
                  meta, freeMeta, conn, target, dstat, doomed, failed, landed, concluded,
                  mem>>
  BY Zenon DEF PRecvInfo, dvars
<1> QED
  BY <1>1, <1>2, <1>3, Zenon

\* The types, when a write lands.
LEMMA TypeLand ==
  ASSUME TransferTypeOK, Sending, Records, PagesOwned, MetaOwned,
         NEW k \in Ranks, NEW w \in posted[k], Land(k, w)
  PROVE  TransferTypeOK'
<1> USE KVTransferAssumption DEF TransferTypeOK
<1>0. {Failed, Bootstrapping, WaitingForInput, Success, Absent} \subseteq KVPolls
  BY Zenon DEF KVPolls
<1>1. w \in Reqs \X PartIds
  OBVIOUS
<1>2. landed' \in [Ranks -> [Reqs -> SUBSET PartIds]] /\ posted' \in [Ranks -> SUBSET (Reqs \X PartIds)]
  BY <1>1 DEF Land
<1>3. mem' \in [Ranks -> [Locations -> Reqs \cup {Blank}]]
  BY <1>1, Zenon DEF Land
<1>4. UNCHANGED <<calm, up, gen, pphase, pstat, infos, chunk, mail, dphase, came,
                  waitInput, pages, meta, freeMeta, conn, target, dstat, doomed, failed,
                  concluded>>
  BY Zenon DEF Land, pvars
<1> QED
  BY <1>2, <1>3, <1>4, Zenon

\* The types, when the receiver is created.
LEMMA TypeDAdd ==
  ASSUME TransferTypeOK, Sending, Records, PagesOwned, MetaOwned,
         NEW r \in Reqs, DAdd(r)
  PROVE  TransferTypeOK'
<1> USE KVTransferAssumption DEF TransferTypeOK
<1>0. {Failed, Bootstrapping, WaitingForInput, Success, Absent} \subseteq KVPolls
  BY Zenon DEF KVPolls
<1>1. dstat' \in [Ranks -> [Reqs -> KVPolls]]
  BY <1>0, UpdateStatusType DEF DAdd
<1>2. conn' \in [Ranks -> 0 .. MaxGen] /\ target' \in [Ranks -> [Reqs -> 0 .. MaxGen]]
  BY DEF DAdd
<1>3. /\ dphase' \in [Reqs -> {"new", "queued", "transfer", "running", "done", "aborted"}]
      /\ came' \in Seq(Reqs)
  BY DEF DAdd
<1>4. UNCHANGED <<calm, up, gen, pphase, pstat, infos, chunk, mail, posted, waitInput,
                  pages, meta, freeMeta, doomed, failed, landed, concluded, mem>>
  BY Zenon DEF DAdd, pvars, net
<1> QED
  BY <1>1, <1>2, <1>3, <1>4, Zenon

\* The types, when the request ends.
LEMMA TypeFinish ==
  ASSUME TransferTypeOK, Sending, Records, PagesOwned, MetaOwned,
         NEW r \in Reqs, Finish(r)
  PROVE  TransferTypeOK'
<1> USE KVTransferAssumption DEF TransferTypeOK
<1>0. {Failed, Bootstrapping, WaitingForInput, Success, Absent} \subseteq KVPolls
  BY Zenon DEF KVPolls
<1>1. dphase' \in [Reqs -> {"new", "queued", "transfer", "running", "done", "aborted"}]
  BY Zenon DEF Finish
<1>2. UNCHANGED <<calm, up, gen, pphase, pstat, infos, chunk, mail, posted, came,
                  waitInput, pages, meta, freeMeta, conn, target, dstat, doomed, failed,
                  landed, concluded, mem>>
  BY Zenon DEF Finish, pvars, net
<1> QED
  BY <1>1, <1>2, Zenon

\* The types, through pop_preallocated.
LEMMA TypePopPreallocated ==
  ASSUME TransferTypeOK, Sending, Records, PagesOwned, MetaOwned,
         PopPreallocated
  PROVE  TransferTypeOK'
<1> USE KVTransferAssumption DEF TransferTypeOK
<1>0. {Failed, Bootstrapping, WaitingForInput, Success, Absent} \subseteq KVPolls
  BY Zenon DEF KVPolls
<1>1. \A r \in Reqs : pages'[r] \in {<<>>} \cup [ChunkIds(r) -> Pages]
  <2>1. PICK a \in Injection(PageNeeds(Taken), FreePages) :
          pages' = [r \in Reqs |-> IF r \in Taken THEN [c \in ChunkIds(r) |-> a[<<r, c>>]] ELSE pages[r]]
    BY Zenon DEF PopPreallocated
  <2>2. \A r \in Taken : \A c \in ChunkIds(r) : <<r, c>> \in PageNeeds(Taken)
    BY DEF PageNeeds
  <2>3. \A r \in Taken : \A c \in ChunkIds(r) : a[<<r, c>>] \in Pages
    BY <2>2, Zenon DEF Injection, FreePages
  <2> QED
    BY <2>1, <2>3, Zenon
<1>2. meta' \in [Reqs -> MetaSlots \cup {Blank}] /\ freeMeta' \subseteq MetaSlots
  BY DEF PopPreallocated, Injection
<1>3. waitInput' \subseteq Reqs
  BY TakenFacts, Zenon DEF PopPreallocated, Waiting
<1>4. mail' \in [Ranks -> SUBSET Reqs] /\ doomed' \in [Ranks -> SUBSET Reqs]
  BY TakenFacts, Zenon DEF PopPreallocated, DropRooms
<1>5. dstat' \in [Ranks -> [Reqs -> KVPolls]] /\ concluded' \in [Ranks -> [Reqs -> KVPolls]]
  BY <1>0 DEF PopPreallocated, Forget
<1>6. /\ dphase' \in [Reqs -> {"new", "queued", "transfer", "running", "done", "aborted"}]
      /\ came' \in Seq(Reqs)
  BY DEF PopPreallocated
<1>7. UNCHANGED <<calm, up, gen, pphase, pstat, infos, chunk, posted, conn, target,
                  failed, landed, mem>>
  BY Zenon DEF PopPreallocated, pvars
<1> QED
  BY <1>1, <1>2, <1>3, <1>4, <1>5, <1>6, <1>7, Zenon

\* The types, through pop_transferred.
LEMMA TypePopTransferred ==
  ASSUME TransferTypeOK, Sending, Records, PagesOwned, MetaOwned,
         NEW late, PopTransferred(late)
  PROVE  TransferTypeOK'
<1> USE KVTransferAssumption DEF TransferTypeOK
<1>0. {Failed, Bootstrapping, WaitingForInput, Success, Absent} \subseteq KVPolls
  BY Zenon DEF KVPolls
<1>1. concluded' \in [Ranks -> [Reqs -> KVPolls]]
  BY <1>0, PollsType DEF PopTransferred
<1>2. dstat' \in [Ranks -> [Reqs -> KVPolls]] /\ landed' \in [Ranks -> [Reqs -> SUBSET PartIds]]
  BY <1>0 DEF PopTransferred, Forget
<1>3. doomed' \in [Ranks -> SUBSET Reqs] /\ failed' \in [Ranks -> SUBSET Reqs]
  BY Zenon DEF PopTransferred, DropRooms
<1>4. freeMeta' \subseteq MetaSlots
  BY PolledFacts DEF PopTransferred, MetaOf, MetaOwned, InTransfer
<1>5. dphase' \in [Reqs -> {"new", "queued", "transfer", "running", "done", "aborted"}]
  BY Zenon DEF PopTransferred
<1>6. UNCHANGED <<calm, up, gen, pphase, pstat, infos, chunk, mail, posted, came,
                  waitInput, pages, meta, conn, target, mem>>
  BY Zenon DEF PopTransferred, pvars
<1> QED
  BY <1>1, <1>2, <1>3, <1>4, <1>5, <1>6, Zenon

\* The types, when P crashes.
LEMMA TypePCrash ==
  ASSUME TransferTypeOK, Sending, Records, PagesOwned, MetaOwned,
         PCrash
  PROVE  TransferTypeOK'
<1> USE KVTransferAssumption DEF TransferTypeOK
<1>0. {Failed, Bootstrapping, WaitingForInput, Success, Absent} \subseteq KVPolls
  BY Zenon DEF KVPolls
<1>1. /\ pphase' \in [Reqs -> {"none", "bootstrap", "prefill", "inflight", "done", "lost"}]
      /\ up' \in BOOLEAN /\ pstat' \in [Ranks -> [Reqs -> KVPolls]]
  BY <1>0, Zenon DEF PCrash
<1>2. /\ infos' \in [Ranks -> SUBSET Reqs] /\ mail' \in [Ranks -> SUBSET Reqs]
      /\ posted' \in [Ranks -> SUBSET (Reqs \X PartIds)]
  BY Zenon DEF PCrash
<1>3. UNCHANGED <<calm, gen, chunk, dphase, came, waitInput, pages, meta, freeMeta, conn,
                  target, dstat, doomed, failed, landed, concluded, mem>>
  BY Zenon DEF PCrash, dvars
<1> QED
  BY <1>1, <1>2, <1>3, Zenon

\* The types, when P restarts.
LEMMA TypePRestart ==
  ASSUME TransferTypeOK, Sending, Records, PagesOwned, MetaOwned,
         PRestart
  PROVE  TransferTypeOK'
<1> USE KVTransferAssumption DEF TransferTypeOK
<1>0. {Failed, Bootstrapping, WaitingForInput, Success, Absent} \subseteq KVPolls
  BY Zenon DEF KVPolls
<1>1. up' \in BOOLEAN /\ gen' \in 1 .. MaxGen
  BY DEF PRestart, Sending
<1>2. UNCHANGED <<calm, pphase, pstat, infos, chunk, mail, posted, dphase, came,
                  waitInput, pages, meta, freeMeta, conn, target, dstat, doomed, failed,
                  landed, concluded, mem>>
  BY Zenon DEF PRestart, net, dvars
<1> QED
  BY <1>1, <1>2, Zenon

\* The types, when _handle_node_failure marks rooms.
LEMMA TypeNodeFailureMarks ==
  ASSUME TransferTypeOK, Sending, Records, PagesOwned, MetaOwned,
         NEW k \in Ranks, NodeFailureMarks(k)
  PROVE  TransferTypeOK'
<1> USE KVTransferAssumption DEF TransferTypeOK
<1>0. {Failed, Bootstrapping, WaitingForInput, Success, Absent} \subseteq KVPolls
  BY Zenon DEF KVPolls
<1>1. Tracked(k) \subseteq Reqs
  BY Zenon DEF Tracked, Queued, InTransfer
<1>2. /\ conn' \in [Ranks -> 0 .. MaxGen]
      /\ doomed' \in [Ranks -> SUBSET Reqs] /\ failed' \in [Ranks -> SUBSET Reqs]
  BY <1>1 DEF NodeFailureMarks
<1>3. UNCHANGED <<calm, up, gen, pphase, pstat, infos, chunk, mail, posted, dphase, came,
                  waitInput, pages, meta, freeMeta, target, dstat, landed, concluded, mem>>
  BY Zenon DEF NodeFailureMarks, pvars, net
<1> QED
  BY <1>2, <1>3, Zenon

\* The types, when _handle_node_failure fails rooms.
LEMMA TypeNodeFailureFails ==
  ASSUME TransferTypeOK, Sending, Records, PagesOwned, MetaOwned,
         NEW k \in Ranks, NodeFailureFails(k)
  PROVE  TransferTypeOK'
<1> USE KVTransferAssumption DEF TransferTypeOK
<1>0. {Failed, Bootstrapping, WaitingForInput, Success, Absent} \subseteq KVPolls
  BY Zenon DEF KVPolls
<1> DEFINE fails == [r \in Reqs |-> IF r \in doomed[k] THEN UpdateStatus(dstat[k][r], Failed) ELSE dstat[k][r]]
<1>1. dstat' \in [Ranks -> [Reqs -> KVPolls]]
  <2>1. dstat[k] \in [Reqs -> KVPolls] /\ Failed \in KVPolls
    BY <1>0, Zenon
  <2>2. \A r \in Reqs : dstat[k][r] \in KVPolls /\ UpdateStatus(dstat[k][r], Failed) \in KVPolls
    BY <2>1, UpdateStatusType, Zenon
  <2>3. fails \in [Reqs -> KVPolls]
    BY <2>2, Zenon
  <2>4. dstat' = [dstat EXCEPT ![k] = fails]
    BY Zenon DEF NodeFailureFails
  <2> HIDE DEF fails
  <2> QED
    BY <2>3, <2>4, Zenon
<1>2. doomed' \in [Ranks -> SUBSET Reqs]
  BY Zenon DEF NodeFailureFails
<1>3. UNCHANGED <<calm, up, gen, pphase, pstat, infos, chunk, mail, posted, dphase, came,
                  waitInput, pages, meta, freeMeta, conn, target, failed, landed,
                  concluded, mem>>
  BY Zenon DEF NodeFailureFails, pvars, net
<1> QED
  BY <1>1, <1>2, <1>3, Zenon

\* Types, through every step.
LEMMA TypeStep ==
  ASSUME TransferTypeOK, Sending, Records, PagesOwned, MetaOwned, [TransferNext]_vars
  PROVE  TransferTypeOK'
<1>1. ASSUME NEW r \in Reqs, PAdd(r) PROVE TransferTypeOK'
  BY <1>1, TypePAdd, Zenon
<1>2. ASSUME NEW r \in Reqs, PSend(r) PROVE TransferTypeOK'
  BY <1>2, TypePSend, Zenon
<1>3. CASE PPopBootstrapped
  BY <1>3, TypePPopBootstrapped, Zenon
<1>4. CASE PInflight
  BY <1>4, TypePInflight, Zenon
<1>5. ASSUME NEW k \in Ranks, NEW r \in Reqs, PRecvInfo(k, r) PROVE TransferTypeOK'
  BY <1>5, TypePRecvInfo, Zenon
<1>6. ASSUME NEW k \in Ranks, NEW w \in posted[k], Land(k, w) PROVE TransferTypeOK'
  BY <1>6, TypeLand, Zenon
<1>7. ASSUME NEW r \in Reqs, DAdd(r) PROVE TransferTypeOK'
  BY <1>7, TypeDAdd, Zenon
<1>8. ASSUME NEW r \in Reqs, Finish(r) PROVE TransferTypeOK'
  BY <1>8, TypeFinish, Zenon
<1>9. CASE PopPreallocated
  BY <1>9, TypePopPreallocated, Zenon
<1>10. ASSUME NEW late, PopTransferred(late) PROVE TransferTypeOK'
  BY <1>10, TypePopTransferred, Zenon
<1>11. CASE PCrash
  BY <1>11, TypePCrash, Zenon
<1>12. CASE PRestart
  BY <1>12, TypePRestart, Zenon
<1>13. ASSUME NEW k \in Ranks, NodeFailureMarks(k) PROVE TransferTypeOK'
  BY <1>13, TypeNodeFailureMarks, Zenon
<1>14. ASSUME NEW k \in Ranks, NodeFailureFails(k) PROVE TransferTypeOK'
  BY <1>14, TypeNodeFailureFails, Zenon
<1>15. CASE UNCHANGED vars
  BY <1>15, Zenon DEF TransferTypeOK, vars, pvars, net, dvars
<1> QED
  BY <1>1, <1>2, <1>3, <1>4, <1>5, <1>6, <1>7, <1>8, <1>9, <1>10, <1>11, <1>12, <1>13, <1>14, <1>15, Zenon
  DEF TransferNext, Prefill, Network, Decode, Faults, TimeOut, Idle

\* The senders, through send().
LEMMA SendingPSend ==
  ASSUME TransferTypeOK, Sending,
         NEW r \in Reqs, PSend(r)
  PROVE  Sending'
<1>0. /\ gen \in 1 .. MaxGen /\ up \in BOOLEAN
      /\ pphase \in [Reqs -> {"none", "bootstrap", "prefill", "inflight", "done", "lost"}]
      /\ chunk \in [Reqs -> Nat] /\ \A q \in Reqs : chunk[q] <= NumChunks[q]
  BY Zenon DEF TransferTypeOK
<1> USE KVTransferAssumption, <1>0 DEF Sending
<1>1. chunk[r] + 1 < NumChunks[r] \/ pphase'[r] = "inflight"
  BY ChunkFacts DEF PSend, SentAll
<1>2. chunk'[r] = chunk[r] + 1 /\ \A q \in Reqs \ {r} : chunk'[q] = chunk[q] /\ pphase'[q] = pphase[q]
  BY Zenon DEF PSend
<1>3. pphase'[r] \in {"prefill", "inflight"}
  BY Zenon DEF PSend
<1> QED
  BY <1>1, <1>2, <1>3, Zenon DEF PSend

\* The senders, through pop_bootstrapped.
LEMMA SendingPPopBootstrapped ==
  ASSUME TransferTypeOK, Sending,
         PPopBootstrapped
  PROVE  Sending'
<1>0. /\ gen \in 1 .. MaxGen /\ up \in BOOLEAN
      /\ pphase \in [Reqs -> {"none", "bootstrap", "prefill", "inflight", "done", "lost"}]
      /\ chunk \in [Reqs -> Nat] /\ \A q \in Reqs : chunk[q] <= NumChunks[q]
  BY Zenon DEF TransferTypeOK
<1> USE KVTransferAssumption, <1>0 DEF Sending
<1>1. PICK S \in SUBSET {r \in Reqs : pphase[r] = "bootstrap"} :
        pphase' = [r \in Reqs |-> IF r \in S THEN "prefill" ELSE pphase[r]]
  BY Zenon DEF PPopBootstrapped
<1> QED
  BY <1>1, ChunkFacts, Zenon DEF PPopBootstrapped

\* The senders, through every step: only send() moves a sender on.
LEMMA SendingStep ==
  ASSUME TransferTypeOK, Sending, [TransferNext]_vars
  PROVE  Sending'
<1>0. /\ gen \in 1 .. MaxGen /\ up \in BOOLEAN
      /\ pphase \in [Reqs -> {"none", "bootstrap", "prefill", "inflight", "done", "lost"}]
      /\ chunk \in [Reqs -> Nat] /\ \A q \in Reqs : chunk[q] <= NumChunks[q]
  BY Zenon DEF TransferTypeOK
<1> USE KVTransferAssumption, <1>0 DEF Sending
<1>1. ASSUME NEW r \in Reqs, PAdd(r) PROVE Sending'
  BY <1>1, Zenon DEF PAdd, net, dvars
<1>2. ASSUME NEW r \in Reqs, PSend(r) PROVE Sending'
  BY <1>2, SendingPSend, Zenon
<1>3. CASE PPopBootstrapped
  BY <1>3, SendingPPopBootstrapped, Zenon
<1>4. CASE PInflight
  BY <1>4, Zenon DEF PInflight, net, dvars
<1>5. ASSUME NEW k \in Ranks, NEW r \in Reqs, PRecvInfo(k, r) PROVE Sending'
  BY <1>5, Zenon DEF PRecvInfo, dvars
<1>6. ASSUME NEW k \in Ranks, NEW w \in posted[k], Land(k, w) PROVE Sending'
  BY <1>6, Zenon DEF Land, pvars
<1>7. ASSUME NEW r \in Reqs, DAdd(r) PROVE Sending'
  BY <1>7, Zenon DEF DAdd, pvars, net
<1>8. ASSUME NEW r \in Reqs, Finish(r) PROVE Sending'
  BY <1>8, Zenon DEF Finish, pvars, net
<1>9. CASE PopPreallocated
  BY <1>9, Zenon DEF PopPreallocated, pvars
<1>10. ASSUME NEW late, PopTransferred(late) PROVE Sending'
  BY <1>10, Zenon DEF PopTransferred, pvars
<1>11. CASE PCrash
  BY <1>11, Zenon DEF PCrash, dvars
<1>12. CASE PRestart
  BY <1>12, Zenon DEF PRestart, net, dvars
<1>13. ASSUME NEW k \in Ranks, NodeFailureMarks(k) PROVE Sending'
  BY <1>13, Zenon DEF NodeFailureMarks, pvars, net
<1>14. ASSUME NEW k \in Ranks, NodeFailureFails(k) PROVE Sending'
  BY <1>14, Zenon DEF NodeFailureFails, pvars, net
<1>15. CASE UNCHANGED vars
  BY <1>15, Zenon DEF vars, pvars, net, dvars
<1> HIDE DEF Sending
<1> QED
  BY <1>1, <1>2, <1>3, <1>4, <1>5, <1>6, <1>7, <1>8, <1>9, <1>10, <1>11, <1>12, <1>13, <1>14, <1>15, Zenon
  DEF TransferNext, Prefill, Network, Decode, Faults, TimeOut, Idle

\* The handshake, through pop_bootstrapped.
LEMMA BootstrappedPPopBootstrapped ==
  ASSUME TransferTypeOK, Bootstrapped,
         PPopBootstrapped
  PROVE  Bootstrapped'
<1>0. /\ dphase \in [Reqs -> {"new", "queued", "transfer", "running", "done", "aborted"}]
      /\ pphase \in [Reqs -> {"none", "bootstrap", "prefill", "inflight", "done", "lost"}]
      /\ pstat \in [Ranks -> [Reqs -> KVPolls]]
      /\ mail \in [Ranks -> SUBSET Reqs] /\ posted \in [Ranks -> SUBSET (Reqs \X PartIds)]
  BY Zenon DEF TransferTypeOK
<1> USE KVTransferAssumption, <1>0 DEF Bootstrapped
<1>1. PICK S \in SUBSET {r \in Reqs : \A k \in Ranks : pstat[k][r] = WaitingForInput} :
        pphase' = [r \in Reqs |-> IF r \in S THEN "prefill" ELSE pphase[r]]
  BY Zenon DEF PPopBootstrapped
<1>2. ASSUME NEW r \in S PROVE dphase[r] \notin {"new", "queued"}
  <2>1. PICK k \in Ranks : pstat[k][r] = WaitingForInput
    OBVIOUS
  <2>2. r \in Reqs /\ pstat[k][r] \notin {Absent, Bootstrapping}
    BY <2>1
  <2> QED
    BY <2>2, Zenon
<1>3. UNCHANGED <<dphase, mail, pstat, posted>>
  BY Zenon DEF PPopBootstrapped, net, dvars
<1> QED
  BY <1>1, <1>2, <1>3, Zenon

\* The handshake, through every step: P hears of a request only from
\* pop_preallocated, which gives it its pages.
LEMMA BootstrappedStep ==
  ASSUME TransferTypeOK, Bootstrapped, [TransferNext]_vars
  PROVE  Bootstrapped'
<1>0. /\ dphase \in [Reqs -> {"new", "queued", "transfer", "running", "done", "aborted"}]
      /\ pphase \in [Reqs -> {"none", "bootstrap", "prefill", "inflight", "done", "lost"}]
      /\ pstat \in [Ranks -> [Reqs -> KVPolls]]
      /\ mail \in [Ranks -> SUBSET Reqs] /\ posted \in [Ranks -> SUBSET (Reqs \X PartIds)]
  BY Zenon DEF TransferTypeOK
<1> USE KVTransferAssumption, <1>0 DEF Bootstrapped
<1>1. ASSUME NEW r \in Reqs, PAdd(r) PROVE Bootstrapped'
  BY <1>1, Zenon DEF PAdd, net, dvars, UpdateStatus
<1>2. ASSUME NEW r \in Reqs, PSend(r) PROVE Bootstrapped'
  BY <1>2, Zenon DEF PSend, dvars
<1>3. CASE PPopBootstrapped
  BY <1>3, BootstrappedPPopBootstrapped, Zenon
<1>4. CASE PInflight
  BY <1>4, Zenon DEF PInflight, net, dvars
<1>5. ASSUME NEW k \in Ranks, NEW r \in Reqs, PRecvInfo(k, r) PROVE Bootstrapped'
  BY <1>5, Zenon DEF PRecvInfo, dvars, UpdateStatus
<1>6. ASSUME NEW k \in Ranks, NEW w \in posted[k], Land(k, w) PROVE Bootstrapped'
  BY <1>6, Zenon DEF Land, pvars
<1>7. ASSUME NEW r \in Reqs, DAdd(r) PROVE Bootstrapped'
  BY <1>7, Zenon DEF DAdd, pvars, net
<1>8. ASSUME NEW r \in Reqs, Finish(r) PROVE Bootstrapped'
  BY <1>8, Zenon DEF Finish, pvars, net
<1>9. CASE PopPreallocated
  BY <1>9, TakenFacts, Zenon DEF PopPreallocated, pvars, Queued
<1>10. ASSUME NEW late, PopTransferred(late) PROVE Bootstrapped'
  BY <1>10, PolledFacts, Zenon DEF PopTransferred, pvars, InTransfer
<1>11. CASE PCrash
  BY <1>11, Zenon DEF PCrash, dvars
<1>12. CASE PRestart
  BY <1>12, Zenon DEF PRestart, net, dvars
<1>13. ASSUME NEW k \in Ranks, NodeFailureMarks(k) PROVE Bootstrapped'
  BY <1>13, Zenon DEF NodeFailureMarks, pvars, net
<1>14. ASSUME NEW k \in Ranks, NodeFailureFails(k) PROVE Bootstrapped'
  BY <1>14, Zenon DEF NodeFailureFails, pvars, net
<1>15. CASE UNCHANGED vars
  BY <1>15, Zenon DEF vars, pvars, net, dvars
<1> HIDE DEF Bootstrapped
<1> QED
  BY <1>1, <1>2, <1>3, <1>4, <1>5, <1>6, <1>7, <1>8, <1>9, <1>10, <1>11, <1>12, <1>13, <1>14, <1>15, Zenon
  DEF TransferNext, Prefill, Network, Decode, Faults, TimeOut, Idle

\* More notifications do not undo is_done().
LEMMA IsDoneMonotone ==
  ASSUME NEW r \in Reqs, NEW S, NEW p, IsDone(r, S)
  PROVE  IsDone(r, S \cup {p})
<1>1. Kv(r) \subseteq S
  BY IsDoneHasAwaited, Zenon DEF Awaited
<1>2. (S \cup {p}) \cap Kv(r) = S \cap Kv(r)
  BY <1>1, Zenon
<1> QED
  BY <1>2, Zenon DEF IsDone

\* The receivers' records, when a write lands.
LEMMA RecordsLand ==
  ASSUME TransferTypeOK, Records,
         NEW k \in Ranks, NEW w \in posted[k], Land(k, w)
  PROVE  Records'
<1>0. /\ dphase \in [Reqs -> {"new", "queued", "transfer", "running", "done", "aborted"}]
      /\ concluded \in [Ranks -> [Reqs -> KVPolls]]
      /\ posted \in [Ranks -> SUBSET (Reqs \X PartIds)] /\ landed \in [Ranks -> [Reqs -> SUBSET PartIds]]
  BY Zenon DEF TransferTypeOK
<1> USE KVTransferAssumption, <1>0 DEF Records
<1>1. w[1] \in Reqs /\ UNCHANGED <<dphase, concluded>>
  BY DEF Land
<1>2. \A j \in Ranks, r \in Reqs :
        \/ landed'[j][r] = landed[j][r]
        \/ dphase[r] = "transfer" /\ landed'[j][r] = landed[j][r] \cup {w[2]}
  BY <1>1, Zenon DEF Land
<1>3. ASSUME NEW j \in Ranks, NEW r \in Reqs, IsDone(r, landed[j][r])
      PROVE  IsDone(r, landed'[j][r])
  <2>1. IsDone(r, landed[j][r] \cup {w[2]})
    BY <1>3, IsDoneMonotone, Zenon
  <2> QED
    BY <1>2, <1>3, <2>1, Zenon
<1> QED
  BY <1>1, <1>2, <1>3

\* The receivers' records, through pop_transferred.
LEMMA RecordsPopTransferred ==
  ASSUME TransferTypeOK, Records,
         NEW late, PopTransferred(late)
  PROVE  Records'
<1>0. /\ dphase \in [Reqs -> {"new", "queued", "transfer", "running", "done", "aborted"}]
      /\ concluded \in [Ranks -> [Reqs -> KVPolls]]
      /\ posted \in [Ranks -> SUBSET (Reqs \X PartIds)] /\ landed \in [Ranks -> [Reqs -> SUBSET PartIds]]
  BY Zenon DEF TransferTypeOK
<1> USE KVTransferAssumption, <1>0 DEF Records
<1>1. \A k \in Ranks, r \in InTransfer : Polls(late)[k][r] = Success => IsDone(r, landed[k][r])
  BY DEF Polls, PollTransfer, InTransfer
<1>2. \A k \in Ranks, r \in InTransfer : Polls(late)[k][r] \in {Failed, WaitingForInput, Success}
  BY PollsType, Zenon
<1> DEFINE gone == Polled(late, Failed) \cup Polled(late, Success)
<1>3. \A k \in Ranks, r \in Reqs :
        /\ r \in gone => concluded'[k][r] = Absent /\ landed'[k][r] = {}
        /\ r \notin gone => landed'[k][r] = landed[k][r] /\ dphase'[r] = dphase[r]
        /\ r \notin gone => concluded'[k][r] = concluded[k][r]
                           \/ (r \in InTransfer /\ concluded'[k][r] = Polls(late)[k][r]
                                 /\ Polls(late)[k][r] \in {Failed, Success})
  <2> SUFFICES ASSUME NEW k \in Ranks, NEW r \in Reqs
               PROVE  /\ r \in gone => concluded'[k][r] = Absent /\ landed'[k][r] = {}
                      /\ r \notin gone => landed'[k][r] = landed[k][r] /\ dphase'[r] = dphase[r]
                      /\ r \notin gone => concluded'[k][r] = concluded[k][r]
                                         \/ (r \in InTransfer /\ concluded'[k][r] = Polls(late)[k][r]
                                               /\ Polls(late)[k][r] \in {Failed, Success})
    OBVIOUS
  <2> HIDE DEF Records
  <2>1. /\ concluded'[k][r] = IF r \in gone THEN Absent
                              ELSE IF r \in InTransfer /\ Polls(late)[k][r] \in {Failed, Success}
                              THEN Polls(late)[k][r] ELSE concluded[k][r]
        /\ landed'[k][r] = IF r \in gone THEN {} ELSE landed[k][r]
    BY Zenon DEF PopTransferred, Forget
  <2>2. r \notin gone => dphase'[r] = dphase[r]
    BY Zenon DEF PopTransferred
  <2> QED
    BY <2>1, <2>2, Zenon
<1>4. ASSUME NEW r \in gone PROVE dphase'[r] # "transfer"
  <2>1. r \in Reqs
    BY <1>4, PolledFacts, Zenon DEF InTransfer
  <2> HIDE DEF Records
  <2> QED
    BY <2>1, Zenon DEF PopTransferred
<1> SUFFICES ASSUME NEW k \in Ranks, NEW r \in Reqs
             PROVE  /\ dphase'[r] # "transfer" => concluded'[k][r] = Absent /\ landed'[k][r] = {}
                    /\ concluded'[k][r] \in {Absent, Failed, Success}
                    /\ concluded'[k][r] = Success => IsDone(r, landed'[k][r])
  OBVIOUS
<1> HIDE DEF gone
<1>5. CASE r \in gone
  BY <1>3, <1>5
<1>6. CASE r \notin gone
  <2>1. landed'[k][r] = landed[k][r] /\ dphase'[r] = dphase[r]
    BY <1>3, <1>6, Zenon
  <2>2. CASE concluded'[k][r] = concluded[k][r]
    BY <2>1, <2>2, Zenon
  <2>3. CASE r \in InTransfer /\ concluded'[k][r] = Polls(late)[k][r] /\ Polls(late)[k][r] \in {Failed, Success}
    BY <1>1, <2>1, <2>3, Zenon DEF InTransfer
  <2> QED
    BY <1>3, <1>6, <2>2, <2>3, Zenon
<1> QED
  BY <1>5, <1>6, Zenon

\* The receivers' records, through every step: a poll concludes with what
\* is_done() says, and the records of a request end with its transfer.
LEMMA RecordsStep ==
  ASSUME TransferTypeOK, Records, [TransferNext]_vars
  PROVE  Records'
<1>0. /\ dphase \in [Reqs -> {"new", "queued", "transfer", "running", "done", "aborted"}]
      /\ concluded \in [Ranks -> [Reqs -> KVPolls]]
      /\ posted \in [Ranks -> SUBSET (Reqs \X PartIds)] /\ landed \in [Ranks -> [Reqs -> SUBSET PartIds]]
  BY Zenon DEF TransferTypeOK
<1> USE KVTransferAssumption, <1>0 DEF Records
<1>1. ASSUME NEW r \in Reqs, PAdd(r) PROVE Records'
  BY <1>1, Zenon DEF PAdd, net, dvars
<1>2. ASSUME NEW r \in Reqs, PSend(r) PROVE Records'
  BY <1>2, Zenon DEF PSend, dvars
<1>3. CASE PPopBootstrapped
  BY <1>3, Zenon DEF PPopBootstrapped, net, dvars
<1>4. CASE PInflight
  BY <1>4, Zenon DEF PInflight, net, dvars
<1>5. ASSUME NEW k \in Ranks, NEW r \in Reqs, PRecvInfo(k, r) PROVE Records'
  BY <1>5, Zenon DEF PRecvInfo, dvars
<1>6. ASSUME NEW k \in Ranks, NEW w \in posted[k], Land(k, w) PROVE Records'
  BY <1>6, RecordsLand, Zenon
<1>7. ASSUME NEW r \in Reqs, DAdd(r) PROVE Records'
  BY <1>7, Zenon DEF DAdd, pvars, net
<1>8. ASSUME NEW r \in Reqs, Finish(r) PROVE Records'
  BY <1>8, Zenon DEF Finish, pvars, net
<1>9. CASE PopPreallocated
  BY <1>9, TakenFacts, Zenon DEF PopPreallocated, pvars, Forget, Queued
<1>10. ASSUME NEW late, PopTransferred(late) PROVE Records'
  BY <1>10, RecordsPopTransferred, Zenon
<1>11. CASE PCrash
  BY <1>11, Zenon DEF PCrash, dvars
<1>12. CASE PRestart
  BY <1>12, Zenon DEF PRestart, net, dvars
<1>13. ASSUME NEW k \in Ranks, NodeFailureMarks(k) PROVE Records'
  BY <1>13, Zenon DEF NodeFailureMarks, pvars, net
<1>14. ASSUME NEW k \in Ranks, NodeFailureFails(k) PROVE Records'
  BY <1>14, Zenon DEF NodeFailureFails, pvars, net
<1>15. CASE UNCHANGED vars
  BY <1>15, Zenon DEF vars, pvars, net, dvars
<1> HIDE DEF Records
<1> QED
  BY <1>1, <1>2, <1>3, <1>4, <1>5, <1>6, <1>7, <1>8, <1>9, <1>10, <1>11, <1>12, <1>13, <1>14, <1>15, Zenon
  DEF TransferNext, Prefill, Network, Decode, Faults, TimeOut, Idle

\* Who holds a metadata buffer does not change when the requests in transfer
\* and the free buffers do not.
LEMMA MetaKept ==
  ASSUME MetaOwned, meta' = meta, freeMeta' = freeMeta,
         \A r \in Reqs : dphase'[r] = "transfer" <=> dphase[r] = "transfer"
  PROVE  MetaOwned'
<1>1. InTransfer' = InTransfer
  BY Zenon DEF InTransfer
<1> QED
  BY <1>1, Zenon DEF MetaOwned, MetadataAccounted

\* The metadata buffers, through pop_preallocated.
LEMMA MetaOwnedPopPreallocated ==
  ASSUME TransferTypeOK, MetaOwned,
         PopPreallocated
  PROVE  MetaOwned'
<1>0. /\ dphase \in [Reqs -> {"new", "queued", "transfer", "running", "done", "aborted"}]
      /\ meta \in [Reqs -> MetaSlots \cup {Blank}] /\ freeMeta \subseteq MetaSlots
  BY Zenon DEF TransferTypeOK
<1> USE KVTransferAssumption, <1>0
<1>1. PICK m \in Injection(Taken, freeMeta) :
        /\ meta' = [r \in Reqs |-> IF r \in Taken THEN m[r] ELSE meta[r]]
        /\ freeMeta' = freeMeta \ Range(m)
  BY Zenon DEF PopPreallocated
<1>2. \A r \in Taken : m[r] \in freeMeta /\ m[r] \in Range(m) /\ r \in Reqs
  BY TakenFacts, Zenon DEF Injection, Range
<1>3. \A r, q \in Taken : m[r] = m[q] => r = q
  BY Zenon DEF Injection, IsInjective
<1>4. \A x \in Range(m) : x \in freeMeta /\ \E r \in Taken : x = m[r]
  BY Zenon DEF Injection, Range
<1>5. InTransfer' = InTransfer \cup Taken /\ InTransfer \cap Taken = {}
  BY TakenFacts, Zenon DEF PopPreallocated, InTransfer, Queued
<1>6. freeMeta \subseteq MetaSlots
  OBVIOUS
<1>7. \A r \in InTransfer : r \in Reqs /\ meta[r] \in MetaSlots \ freeMeta
  BY Zenon DEF MetaOwned, MetadataAccounted, InTransfer
<1>8. \A r, q \in InTransfer : meta[r] = meta[q] => r = q
  BY Zenon DEF MetaOwned, MetadataAccounted
<1>9. \A x \in MetaSlots \ freeMeta : \E r \in InTransfer : x = meta[r]
  BY Zenon DEF MetaOwned, MetadataAccounted
<1>10. /\ \A r \in Taken : meta'[r] = m[r]
       /\ \A r \in InTransfer : meta'[r] = meta[r]
  BY <1>1, <1>2, <1>5, <1>7, Zenon
<1>11. \A r \in InTransfer' : meta'[r] \in MetaSlots \ freeMeta'
  BY <1>1, <1>2, <1>5, <1>6, <1>7, <1>10, Zenon
<1>12. ASSUME NEW r \in InTransfer', NEW q \in InTransfer', meta'[r] = meta'[q] PROVE r = q
  BY <1>2, <1>3, <1>5, <1>7, <1>8, <1>10, <1>12, Zenon
<1>13. ASSUME NEW x \in MetaSlots \ freeMeta' PROVE \E r \in InTransfer' : x = meta'[r]
  <2>1. CASE x \in Range(m)
    BY <1>4, <1>5, <1>10, <2>1, Zenon
  <2>2. CASE x \notin freeMeta
    BY <1>5, <1>9, <1>10, <2>2
  <2> QED
    BY <1>1, <2>1, <2>2, Zenon
<1>14. {meta'[r] : r \in InTransfer'} = MetaSlots \ freeMeta'
  BY <1>11, <1>13
<1> QED
  BY <1>11, <1>12, <1>14, Zenon DEF MetaOwned, MetadataAccounted, InTransfer

\* The metadata buffers, through pop_transferred.
LEMMA MetaOwnedPopTransferred ==
  ASSUME TransferTypeOK, MetaOwned,
         NEW late, PopTransferred(late)
  PROVE  MetaOwned'
<1>0. /\ dphase \in [Reqs -> {"new", "queued", "transfer", "running", "done", "aborted"}]
      /\ meta \in [Reqs -> MetaSlots \cup {Blank}] /\ freeMeta \subseteq MetaSlots
  BY Zenon DEF TransferTypeOK
<1> USE KVTransferAssumption, <1>0
<1> DEFINE gone == Polled(late, Failed) \cup Polled(late, Success)
<1>1. gone \subseteq InTransfer
  BY PolledFacts, Zenon
<1>2. InTransfer' = InTransfer \ gone
  BY <1>1, Zenon DEF PopTransferred, InTransfer
<1>3. meta' = meta /\ freeMeta' = freeMeta \cup {meta[r] : r \in gone}
  BY Zenon DEF PopTransferred, MetaOf
<1> HIDE DEF gone
<1>4. \A r \in InTransfer : meta[r] \in MetaSlots \ freeMeta
  BY Zenon DEF MetaOwned, MetadataAccounted
<1>5. \A r, q \in InTransfer : meta[r] = meta[q] => r = q
  BY Zenon DEF MetaOwned, MetadataAccounted
<1>6. \A x \in MetaSlots \ freeMeta : \E r \in InTransfer : x = meta[r]
  BY Zenon DEF MetaOwned, MetadataAccounted
<1>7. \A r \in InTransfer' : meta'[r] \in MetaSlots \ freeMeta'
  BY <1>1, <1>2, <1>3, <1>4, <1>5
<1>8. \A x \in MetaSlots \ freeMeta' : \E r \in InTransfer' : x = meta'[r]
  BY <1>2, <1>3, <1>6, Zenon
<1>9. {meta'[r] : r \in InTransfer'} = MetaSlots \ freeMeta'
  BY <1>7, <1>8
<1> QED
  BY <1>2, <1>3, <1>5, <1>7, <1>9, Zenon DEF MetaOwned, MetadataAccounted, InTransfer

\* The metadata buffers, through every step: pop_preallocated takes free ones,
\* each once, and pop_transferred gives back those of the requests that leave.
LEMMA MetaOwnedStep ==
  ASSUME TransferTypeOK, MetaOwned, [TransferNext]_vars
  PROVE  MetaOwned'
<1>0. /\ dphase \in [Reqs -> {"new", "queued", "transfer", "running", "done", "aborted"}]
      /\ meta \in [Reqs -> MetaSlots \cup {Blank}] /\ freeMeta \subseteq MetaSlots
  BY Zenon DEF TransferTypeOK
<1> USE KVTransferAssumption, <1>0
<1>1. ASSUME NEW r \in Reqs, PAdd(r) PROVE MetaOwned'
  BY <1>1, MetaKept, Zenon DEF PAdd, net, dvars
<1>2. ASSUME NEW r \in Reqs, PSend(r) PROVE MetaOwned'
  BY <1>2, MetaKept, Zenon DEF PSend, dvars
<1>3. CASE PPopBootstrapped
  BY <1>3, MetaKept, Zenon DEF PPopBootstrapped, net, dvars
<1>4. CASE PInflight
  BY <1>4, MetaKept, Zenon DEF PInflight, net, dvars
<1>5. ASSUME NEW k \in Ranks, NEW r \in Reqs, PRecvInfo(k, r) PROVE MetaOwned'
  BY <1>5, MetaKept, Zenon DEF PRecvInfo, dvars
<1>6. ASSUME NEW k \in Ranks, NEW w \in posted[k], Land(k, w) PROVE MetaOwned'
  BY <1>6, MetaKept, Zenon DEF Land, pvars
<1>7. ASSUME NEW r \in Reqs, DAdd(r) PROVE MetaOwned'
  BY <1>7, MetaKept, Zenon DEF DAdd, pvars, net
<1>8. ASSUME NEW r \in Reqs, Finish(r) PROVE MetaOwned'
  BY <1>8, MetaKept, Zenon DEF Finish, pvars, net
<1>9. CASE PopPreallocated
  BY <1>9, MetaOwnedPopPreallocated, Zenon
<1>10. ASSUME NEW late, PopTransferred(late) PROVE MetaOwned'
  BY <1>10, MetaOwnedPopTransferred, Zenon
<1>11. CASE PCrash
  BY <1>11, MetaKept, Zenon DEF PCrash, dvars
<1>12. CASE PRestart
  BY <1>12, MetaKept, Zenon DEF PRestart, net, dvars
<1>13. ASSUME NEW k \in Ranks, NodeFailureMarks(k) PROVE MetaOwned'
  BY <1>13, MetaKept, Zenon DEF NodeFailureMarks, pvars, net
<1>14. ASSUME NEW k \in Ranks, NodeFailureFails(k) PROVE MetaOwned'
  BY <1>14, MetaKept, Zenon DEF NodeFailureFails, pvars, net
<1>15. CASE UNCHANGED vars
  BY <1>15, MetaKept, Zenon DEF vars, pvars, net, dvars
<1> QED
  BY <1>1, <1>2, <1>3, <1>4, <1>5, <1>6, <1>7, <1>8, <1>9, <1>10, <1>11, <1>12, <1>13, <1>14, <1>15, Zenon
  DEF TransferNext, Prefill, Network, Decode, Faults, TimeOut, Idle

-----------------------------------------------------------------------------
(* Pages and writes.                                                       *)

\* Requests that keep their pages or give them up.
LEMMA PagesKept ==
  ASSUME PagesOwned, pages' = pages,
         \A r \in Reqs : /\ dphase'[r] \in {"transfer", "running"} => dphase[r] \in {"transfer", "running"}
                         /\ dphase'[r] = "done" => dphase[r] \in {"running", "done"}
  PROVE  PagesOwned'
<1>1. \A r \in Reqs : Held(r)' \subseteq Held(r)
  BY Zenon DEF Held
<1>2. \A r, q \in Reqs : r # q => Held(r)' \cap Held(q)' = {}
  BY <1>1, Zenon DEF PagesOwned
<1> QED
  BY <1>2, Zenon DEF PagesOwned

\* The pages, through pop_preallocated.
LEMMA PagesOwnedPopPreallocated ==
  ASSUME TransferTypeOK, PagesOwned,
         PopPreallocated
  PROVE  PagesOwned'
<1>0. /\ dphase \in [Reqs -> {"new", "queued", "transfer", "running", "done", "aborted"}]
      /\ \A q \in Reqs : pages[q] \in {<<>>} \cup [ChunkIds(q) -> Pages]
  BY Zenon DEF TransferTypeOK
<1> USE KVTransferAssumption, <1>0
<1>1. PICK a \in Injection(PageNeeds(Taken), FreePages) :
        pages' = [r \in Reqs |-> IF r \in Taken THEN [c \in ChunkIds(r) |-> a[<<r, c>>]] ELSE pages[r]]
  BY Zenon DEF PopPreallocated
<1>2. \A r \in Taken : \A c \in ChunkIds(r) : <<r, c>> \in PageNeeds(Taken)
  BY DEF PageNeeds
<1>3. \A r \in Taken : \A c \in ChunkIds(r) : a[<<r, c>>] \in FreePages
  BY <1>2, Zenon DEF Injection
<1>4. \A r \in Taken : r \in Reqs /\ dphase'[r] = "transfer" /\ pages'[r] \in [ChunkIds(r) -> Pages]
  BY <1>1, <1>3, TakenFacts, Zenon DEF PopPreallocated, FreePages
<1> DEFINE new(r) == {a[<<r, c>>] : c \in ChunkIds(r)}
<1>5. ASSUME NEW r \in Taken PROVE Held(r)' = new(r) /\ new(r) \subseteq FreePages
  <2>1. pages'[r] = [c \in ChunkIds(r) |-> a[<<r, c>>]]
    BY <1>1, <1>4, Zenon
  <2>2. Range(pages'[r]) = new(r)
    BY <2>1 DEF Range
  <2>3. Held(r)' = Range(pages'[r])
    BY <1>4, Zenon DEF Held
  <2>4. ASSUME NEW x \in new(r) PROVE x \in FreePages
    <3>1. PICK c \in ChunkIds(r) : x = a[<<r, c>>]
      BY <2>4, Zenon
    <3> QED
      BY <1>3, <3>1, Zenon
  <2> HIDE DEF new
  <2> QED
    BY <2>2, <2>3, <2>4, Zenon
<1>6. \A q \in Reqs \ Taken : Held(q)' = Held(q)
  BY <1>1, TakenFacts, Zenon DEF PopPreallocated, Queued, Held
<1>7. \A r, q \in Taken : r # q => new(r) \cap new(q) = {}
  <2> SUFFICES ASSUME NEW r \in Taken, NEW q \in Taken, r # q, NEW x \in new(r), x \in new(q)
               PROVE FALSE
    OBVIOUS
  <2>1. PICK c \in ChunkIds(r) : x = a[<<r, c>>]
    BY Zenon
  <2>2. PICK d \in ChunkIds(q) : x = a[<<q, d>>]
    BY Zenon
  <2>3. <<r, c>> \in PageNeeds(Taken) /\ <<q, d>> \in PageNeeds(Taken)
    BY <1>2, Zenon
  <2> QED
    BY <2>1, <2>2, <2>3, Zenon DEF Injection, IsInjective
<1>8. \A q \in Reqs : FreePages \cap Held(q) = {}
  BY Zenon DEF FreePages
<1>9. \A q \in Reqs \ Taken : dphase'[q] \in {"transfer", "running", "done"} =>
        dphase'[q] = dphase[q] /\ pages'[q] = pages[q]
  BY <1>1, Zenon DEF PopPreallocated
<1>10. ASSUME NEW r \in Reqs, NEW q \in Reqs, r # q PROVE Held(r)' \cap Held(q)' = {}
  <2> HIDE DEF new
  <2>1. CASE r \in Taken /\ q \in Taken
    BY <1>5, <1>7, <1>10, <2>1, Zenon
  <2>2. CASE r \in Taken /\ q \notin Taken
    BY <1>5, <1>6, <1>8, <2>2
  <2>3. CASE r \notin Taken /\ q \in Taken
    BY <1>5, <1>6, <1>8, <2>3
  <2>4. CASE r \notin Taken /\ q \notin Taken
    BY <1>6, <1>10, <2>4, Zenon DEF PagesOwned
  <2> QED
    BY <2>1, <2>2, <2>3, <2>4, Zenon
<1> QED
  BY <1>4, <1>9, <1>10, Zenon DEF PagesOwned

\* The pages, through pop_transferred.
LEMMA PagesOwnedPopTransferred ==
  ASSUME TransferTypeOK, PagesOwned,
         NEW late, PopTransferred(late)
  PROVE  PagesOwned'
<1>0. /\ dphase \in [Reqs -> {"new", "queued", "transfer", "running", "done", "aborted"}]
      /\ \A q \in Reqs : pages[q] \in {<<>>} \cup [ChunkIds(q) -> Pages]
  BY Zenon DEF TransferTypeOK
<1> USE KVTransferAssumption, <1>0
<1>1. \A r \in Reqs : dphase'[r] \in {"transfer", "running"} => dphase[r] \in {"transfer", "running"}
  BY PolledFacts, Zenon DEF PopTransferred, InTransfer
<1>2. pages' = pages /\ \A r \in Reqs : dphase'[r] = "done" => dphase[r] = "done"
  BY Zenon DEF PopTransferred
<1> QED
  BY <1>1, <1>2, PagesKept, Zenon

\* The pages, through every step: _pre_alloc takes free ones, each once.
LEMMA PagesOwnedStep ==
  ASSUME TransferTypeOK, PagesOwned, [TransferNext]_vars
  PROVE  PagesOwned'
<1>0. /\ dphase \in [Reqs -> {"new", "queued", "transfer", "running", "done", "aborted"}]
      /\ \A q \in Reqs : pages[q] \in {<<>>} \cup [ChunkIds(q) -> Pages]
  BY Zenon DEF TransferTypeOK
<1> USE KVTransferAssumption, <1>0
<1>1. ASSUME NEW r \in Reqs, PAdd(r) PROVE PagesOwned'
  BY <1>1, PagesKept, Zenon DEF PAdd, net, dvars
<1>2. ASSUME NEW r \in Reqs, PSend(r) PROVE PagesOwned'
  BY <1>2, PagesKept, Zenon DEF PSend, dvars
<1>3. CASE PPopBootstrapped
  BY <1>3, PagesKept, Zenon DEF PPopBootstrapped, net, dvars
<1>4. CASE PInflight
  BY <1>4, PagesKept, Zenon DEF PInflight, net, dvars
<1>5. ASSUME NEW k \in Ranks, NEW r \in Reqs, PRecvInfo(k, r) PROVE PagesOwned'
  BY <1>5, PagesKept, Zenon DEF PRecvInfo, dvars
<1>6. ASSUME NEW k \in Ranks, NEW w \in posted[k], Land(k, w) PROVE PagesOwned'
  BY <1>6, PagesKept, Zenon DEF Land, pvars
<1>7. ASSUME NEW r \in Reqs, DAdd(r) PROVE PagesOwned'
  BY <1>7, PagesKept, Zenon DEF DAdd, pvars, net
<1>8. ASSUME NEW r \in Reqs, Finish(r) PROVE PagesOwned'
  BY <1>8, PagesKept, Zenon DEF Finish, pvars, net
<1>9. CASE PopPreallocated
  BY <1>9, PagesOwnedPopPreallocated, Zenon
<1>10. ASSUME NEW late, PopTransferred(late) PROVE PagesOwned'
  BY <1>10, PagesOwnedPopTransferred, Zenon
<1>11. CASE PCrash
  BY <1>11, PagesKept, Zenon DEF PCrash, dvars
<1>12. CASE PRestart
  BY <1>12, PagesKept, Zenon DEF PRestart, net, dvars
<1>13. ASSUME NEW k \in Ranks, NodeFailureMarks(k) PROVE PagesOwned'
  BY <1>13, PagesKept, Zenon DEF NodeFailureMarks, pvars, net
<1>14. ASSUME NEW k \in Ranks, NodeFailureFails(k) PROVE PagesOwned'
  BY <1>14, PagesKept, Zenon DEF NodeFailureFails, pvars, net
<1>15. CASE UNCHANGED vars
  BY <1>15, PagesKept, Zenon DEF vars, dvars
<1> QED
  BY <1>1, <1>2, <1>3, <1>4, <1>5, <1>6, <1>7, <1>8, <1>9, <1>10, <1>11, <1>12, <1>13, <1>14, <1>15, Zenon
  DEF TransferNext, Prefill, Network, Decode, Faults, TimeOut, Idle

-----------------------------------------------------------------------------
(* The writes, the memory and the theorems.                                *)

\* pop_transferred commits a request only if everything awaited of it has
\* landed on every rank.
LEMMA CommittedHasAwaited ==
  ASSUME Records, NEW late, NEW r \in Polled(late, Success)
  PROVE  r \in Reqs /\ \A k \in Ranks : Awaited(r) \subseteq landed[k][r]
<1>1. r \in Reqs /\ r \in InTransfer /\ Reduced(Polls(late), r) = Success
  BY PolledFacts, Zenon DEF Polled, InTransfer
<1>2. \A k \in Ranks : Polls(late)[k][r] = Success
  BY <1>1, PollsType, ReducedSuccess, Zenon
<1>3. \A k \in Ranks : IsDone(r, landed[k][r])
  <2> TAKE k \in Ranks
  <2>1. PollTransfer(k, r, <<k, r>> \in late) = Success
    BY <1>1, <1>2, Zenon DEF Polls
  <2>2. concluded[k][r] = Success => IsDone(r, landed[k][r])
    BY <1>1, Zenon DEF Records
  <2> QED
    BY <2>1, <2>2 DEF PollTransfer
<1> QED
  BY <1>1, <1>3, IsDoneHasAwaited, Zenon

\* Sent parts are parts of the history; one chunk more adds its parts, which
\* were not sent before.
LEMMA SentPartsFacts ==
  ASSUME TransferTypeOK, NEW r \in Reqs
  PROVE  /\ SentParts(r) \subseteq Parts(r)
         /\ chunk[r] < NumChunks[r] => \A p \in PartsOfChunk(r, chunk[r]) : p \in PartIds /\ p \notin SentParts(r)
         /\ <<"kv", NumChunks[r] - 1>> \in SentParts(r) => chunk[r] = NumChunks[r]
<1>0. chunk \in [Reqs -> Nat] /\ \A q \in Reqs : chunk[q] <= NumChunks[q]
  BY Zenon DEF TransferTypeOK
<1>1. chunk[r] \in Nat /\ chunk[r] <= NumChunks[r]
  BY <1>0, Zenon
<1>2. \A c \in 0 .. chunk[r] - 1 : c \in ChunkIds(r)
  BY <1>1, ChunkFacts DEF ChunkIds
<1>3. SentParts(r) \subseteq Parts(r)
  BY <1>2, ChunkFacts DEF SentParts, PartsOfChunk, Parts, Kv, C4
<1>4. ASSUME chunk[r] < NumChunks[r], NEW p \in PartsOfChunk(r, chunk[r])
      PROVE  p \in PartIds /\ p \notin SentParts(r)
  <2>1. chunk[r] \in ChunkIds(r)
    BY <1>1, <1>4, ChunkFacts DEF ChunkIds
  <2> QED
    BY <1>1, <1>2, <2>1, ChunkPartFacts DEF SentParts
<1>5. ASSUME <<"kv", NumChunks[r] - 1>> \in SentParts(r) PROVE chunk[r] = NumChunks[r]
  <2>1. PICK c \in 0 .. chunk[r] - 1 : <<"kv", NumChunks[r] - 1>> \in PartsOfChunk(r, c)
    BY <1>5, Zenon DEF SentParts
  <2>2. c = NumChunks[r] - 1
    BY <2>1, Zenon DEF PartsOfChunk, Extras
  <2> QED
    BY <1>1, <2>1, <2>2, ChunkFacts
<1> QED
  BY <1>3, <1>4, <1>5, Zenon

\* Steps that send nothing, land nothing and commit nothing.
LEMMA WritesKept ==
  ASSUME Writes, chunk' = chunk,
         \A k \in Ranks : posted'[k] \subseteq posted[k],
         \A k \in Ranks, r \in Reqs : landed'[k][r] \subseteq landed[k][r],
         \A r \in Reqs : dphase'[r] \in {"running", "done"} => dphase[r] \in {"running", "done"}
  PROVE  Writes'
<1>1. \A r \in Reqs : SentParts(r)' = SentParts(r)
  BY Zenon DEF SentParts
<1> QED
  BY <1>1 DEF Writes

\* The chunk numbers up to n are those before n, and n.
LEMMA IntervalGrows ==
  ASSUME NEW n \in Nat
  PROVE  \A c : c \in 0 .. n <=> c \in 0 .. n - 1 \/ c = n
OBVIOUS

\* The writes, through send().
LEMMA WritesPSend ==
  ASSUME TransferTypeOK, Sending, Records, Writes,
         NEW r \in Reqs, PSend(r)
  PROVE  Writes'
<1>0. /\ dphase \in [Reqs -> {"new", "queued", "transfer", "running", "done", "aborted"}]
      /\ chunk \in [Reqs -> Nat]
      /\ posted \in [Ranks -> SUBSET (Reqs \X PartIds)] /\ landed \in [Ranks -> [Reqs -> SUBSET PartIds]]
  BY Zenon DEF TransferTypeOK
<1> USE KVTransferAssumption, <1>0
<1> DEFINE new == PartsOfChunk(r, chunk[r])
<1>1. /\ chunk[r] \in Nat /\ chunk[r] < NumChunks[r]
      /\ chunk' = [chunk EXCEPT ![r] = chunk[r] + 1]
      /\ posted' = [k \in Ranks |-> posted[k] \cup {<<r, p>> : p \in new}]
      /\ UNCHANGED <<landed, dphase>>
  BY Zenon DEF PSend, dvars, Sending
<1>2. SentParts(r)' = SentParts(r) \cup new
  <2>1. chunk'[r] = chunk[r] + 1
    BY <1>1, Zenon
  <2>2. \A c : c \in 0 .. chunk[r] <=> c \in 0 .. chunk[r] - 1 \/ c = chunk[r]
    BY <1>1, IntervalGrows, Zenon
  <2>3. new \subseteq PartIds
    BY <1>1, SentPartsFacts, Zenon
  <2> HIDE DEF new
  <2>4. SentParts(r)' = {p \in PartIds : \E c \in 0 .. chunk[r] : p \in PartsOfChunk(r, c)}
    BY <1>1, <2>1 DEF SentParts
  <2> QED
    BY <2>2, <2>3, <2>4, Zenon DEF SentParts, new
<1>3. \A q \in Reqs : q # r => SentParts(q)' = SentParts(q) /\ chunk'[q] = chunk[q]
  BY <1>1, Zenon DEF SentParts
<1>4. \A k \in Ranks, p \in PartIds : <<r, p>> \in posted'[k] => <<r, p>> \in posted[k] \/ p \in new
  BY <1>1
<1>5. \A k \in Ranks, q \in Reqs, p \in PartIds : q # r /\ <<q, p>> \in posted'[k] => <<q, p>> \in posted[k]
  BY <1>1, Zenon
<1>6. \A p \in new : p \notin SentParts(r)
  BY <1>1, SentPartsFacts, Zenon
<1>7. dphase[r] \notin {"running", "done"}
  BY <1>1, KVTransferAssumption DEF Writes
<1> HIDE DEF new
<1> SUFFICES ASSUME NEW k \in Ranks, NEW q \in Reqs
             PROVE  /\ landed'[k][q] \subseteq SentParts(q)'
                    /\ \A p \in PartIds : <<q, p>> \in posted'[k] =>
                         /\ p \in SentParts(q)'
                         /\ p \notin landed'[k][q]
                         /\ dphase'[q] \in {"running", "done"} => p \notin Awaited(q)
                    /\ dphase'[q] \in {"running", "done"} => chunk'[q] = NumChunks[q]
  BY Zenon DEF Writes, Awaited, Kv, C4, ChunkIds
<1>8. CASE q = r
  BY <1>1, <1>2, <1>4, <1>6, <1>7, <1>8, Zenon DEF Writes
<1>9. CASE q # r
  BY <1>1, <1>3, <1>5, <1>9 DEF Writes
<1> QED
  BY <1>8, <1>9, Zenon

\* The writes, when a write lands.
LEMMA WritesLand ==
  ASSUME TransferTypeOK, Sending, Records, Writes,
         NEW k \in Ranks, NEW w \in posted[k], Land(k, w)
  PROVE  Writes'
<1>0. /\ dphase \in [Reqs -> {"new", "queued", "transfer", "running", "done", "aborted"}]
      /\ chunk \in [Reqs -> Nat]
      /\ posted \in [Ranks -> SUBSET (Reqs \X PartIds)] /\ landed \in [Ranks -> [Reqs -> SUBSET PartIds]]
  BY Zenon DEF TransferTypeOK
<1> USE KVTransferAssumption, <1>0
<1>1. /\ w \in Reqs \X PartIds /\ UNCHANGED <<chunk, dphase>>
      /\ posted' = [posted EXCEPT ![k] = posted[k] \ {w}]
  BY Zenon DEF Land, pvars
<1>2. \A j \in Ranks, r \in Reqs :
        \/ landed'[j][r] = landed[j][r]
        \/ j = k /\ r = w[1] /\ landed'[j][r] = landed[j][r] \cup {w[2]}
  BY <1>1, Zenon DEF Land
<1>3. \A r \in Reqs : SentParts(r)' = SentParts(r)
  BY <1>1, Zenon DEF SentParts
<1>4. \A j \in Ranks : posted'[j] \subseteq posted[j] /\ w \notin posted'[k]
  BY <1>1, Zenon
<1>5. w = <<w[1], w[2]>> /\ w[1] \in Reqs /\ w[2] \in PartIds
  BY <1>1
<1> SUFFICES ASSUME NEW j \in Ranks, NEW q \in Reqs
             PROVE  /\ landed'[j][q] \subseteq SentParts(q)
                    /\ \A p \in PartIds : <<q, p>> \in posted'[j] =>
                         /\ p \in SentParts(q)
                         /\ p \notin landed'[j][q]
                         /\ dphase[q] \in {"running", "done"} => p \notin Awaited(q)
                    /\ dphase[q] \in {"running", "done"} => chunk[q] = NumChunks[q]
  BY <1>1, <1>3 DEF Writes, Awaited, Kv, C4, ChunkIds
<1>6. CASE landed'[j][q] = landed[j][q]
  BY <1>4, <1>6, Zenon DEF Writes
<1>7. CASE j = k /\ q = w[1] /\ landed'[j][q] = landed[j][q] \cup {w[2]}
  <2>1. w[2] \in SentParts(q)
    BY <1>5, <1>7 DEF Writes
  <2>2. \A p \in PartIds : <<q, p>> \in posted'[j] => <<q, p>> \in posted[j] /\ p # w[2]
    BY <1>4, <1>5, <1>7, Zenon
  <2> QED
    BY <1>7, <2>1, <2>2, Zenon DEF Writes
<1> QED
  BY <1>2, <1>6, <1>7, Zenon

\* The writes, through pop_transferred.
LEMMA WritesPopTransferred ==
  ASSUME TransferTypeOK, Sending, Records, Writes,
         NEW late, PopTransferred(late)
  PROVE  Writes'
<1>0. /\ dphase \in [Reqs -> {"new", "queued", "transfer", "running", "done", "aborted"}]
      /\ chunk \in [Reqs -> Nat]
      /\ posted \in [Ranks -> SUBSET (Reqs \X PartIds)] /\ landed \in [Ranks -> [Reqs -> SUBSET PartIds]]
  BY Zenon DEF TransferTypeOK
<1> USE KVTransferAssumption, <1>0
<1> DEFINE good == Polled(late, Success)
<1>1. UNCHANGED <<chunk, posted>>
  BY Zenon DEF PopTransferred, pvars
<1>2. \A k \in Ranks, r \in Reqs : landed'[k][r] \subseteq landed[k][r]
  BY Zenon DEF PopTransferred, Forget
<1>3. \A r \in Reqs : dphase'[r] \in {"running", "done"} => r \in good \/ dphase[r] \in {"running", "done"}
  BY Zenon DEF PopTransferred
<1>4. \A r \in Reqs : SentParts(r)' = SentParts(r)
  BY <1>1, Zenon DEF SentParts
<1>5. ASSUME NEW r \in good
      PROVE  /\ \A k \in Ranks, p \in PartIds : <<r, p>> \in posted[k] => p \notin Awaited(r)
             /\ chunk[r] = NumChunks[r]
  <2>1. r \in Reqs /\ \A k \in Ranks : Awaited(r) \subseteq landed[k][r]
    BY CommittedHasAwaited, Zenon
  <2>2. PICK k \in Ranks : TRUE
    BY KVTransferAssumption, Zenon
  <2>3. <<"kv", NumChunks[r] - 1>> \in Awaited(r)
    BY <2>1, ChunkFacts, Zenon DEF Awaited, Kv
  <2>4. <<"kv", NumChunks[r] - 1>> \in SentParts(r)
    BY <2>1, <2>2, <2>3, Zenon DEF Writes
  <2> QED
    BY <2>1, <2>4, SentPartsFacts, Zenon DEF Writes
<1> HIDE DEF good
<1> SUFFICES ASSUME NEW k \in Ranks, NEW r \in Reqs
             PROVE  /\ landed'[k][r] \subseteq SentParts(r)
                    /\ \A p \in PartIds : <<r, p>> \in posted[k] =>
                         /\ p \in SentParts(r)
                         /\ p \notin landed'[k][r]
                         /\ dphase'[r] \in {"running", "done"} => p \notin Awaited(r)
                    /\ dphase'[r] \in {"running", "done"} => chunk[r] = NumChunks[r]
  BY <1>1, <1>4 DEF Writes, Awaited, Kv, C4, ChunkIds
<1> QED
  BY <1>2, <1>3, <1>5, Zenon DEF Writes

\* The writes, through every step: every part is sent once, with its chunk, and
\* a request is committed only when all that is awaited has landed.
LEMMA WritesStep ==
  ASSUME TransferTypeOK, Sending, Records, Writes, [TransferNext]_vars
  PROVE  Writes'
<1>0. /\ dphase \in [Reqs -> {"new", "queued", "transfer", "running", "done", "aborted"}]
      /\ chunk \in [Reqs -> Nat]
      /\ posted \in [Ranks -> SUBSET (Reqs \X PartIds)] /\ landed \in [Ranks -> [Reqs -> SUBSET PartIds]]
  BY Zenon DEF TransferTypeOK
<1> USE KVTransferAssumption, <1>0
<1>1. ASSUME NEW r \in Reqs, PAdd(r) PROVE Writes'
  BY <1>1, WritesKept, Zenon DEF PAdd, net, dvars
<1>2. ASSUME NEW r \in Reqs, PSend(r) PROVE Writes'
  BY <1>2, WritesPSend, Zenon
<1>3. CASE PPopBootstrapped
  BY <1>3, WritesKept, Zenon DEF PPopBootstrapped, net, dvars
<1>4. CASE PInflight
  BY <1>4, WritesKept, Zenon DEF PInflight, net, dvars
<1>5. ASSUME NEW k \in Ranks, NEW r \in Reqs, PRecvInfo(k, r) PROVE Writes'
  BY <1>5, WritesKept, Zenon DEF PRecvInfo, dvars
<1>6. ASSUME NEW k \in Ranks, NEW w \in posted[k], Land(k, w) PROVE Writes'
  BY <1>6, WritesLand, Zenon
<1>7. ASSUME NEW r \in Reqs, DAdd(r) PROVE Writes'
  BY <1>7, WritesKept, Zenon DEF DAdd, pvars, net
<1>8. ASSUME NEW r \in Reqs, Finish(r) PROVE Writes'
  BY <1>8, WritesKept, Zenon DEF Finish, pvars, net
<1>9. CASE PopPreallocated
  BY <1>9, WritesKept, Zenon DEF PopPreallocated, pvars
<1>10. ASSUME NEW late, PopTransferred(late) PROVE Writes'
  BY <1>10, WritesPopTransferred, Zenon
<1>11. CASE PCrash
  BY <1>11, WritesKept, Zenon DEF PCrash, dvars
<1>12. CASE PRestart
  BY <1>12, WritesKept, Zenon DEF PRestart, net, dvars
<1>13. ASSUME NEW k \in Ranks, NodeFailureMarks(k) PROVE Writes'
  BY <1>13, WritesKept, Zenon DEF NodeFailureMarks, pvars, net
<1>14. ASSUME NEW k \in Ranks, NodeFailureFails(k) PROVE Writes'
  BY <1>14, WritesKept, Zenon DEF NodeFailureFails, pvars, net
<1>15. CASE UNCHANGED vars
  BY <1>15, WritesKept, Zenon DEF vars, pvars, net, dvars
<1> QED
  BY <1>1, <1>2, <1>3, <1>4, <1>5, <1>6, <1>7, <1>8, <1>9, <1>10, <1>11, <1>12, <1>13, <1>14, <1>15, Zenon
  DEF TransferNext, Prefill, Network, Decode, Faults, TimeOut, Idle

\* Where the parts of a request with pages are written.
LEMMA DstFacts ==
  ASSUME NEW r \in Reqs, NEW p \in Parts(r), pages[r] \in [ChunkIds(r) -> Pages]
  PROVE  \/ p = <<"aux", 0>> /\ Dst(r, p) = <<"aux", meta[r]>>
         \/ /\ p \in Kv(r) \cup C4(r) \cup {<<"state", 0>>}
            /\ \E x \in Range(pages[r]) : x \in Pages /\ Dst(r, p) = <<p[1], x>>
<1>1. CASE p = <<"aux", 0>>
  BY <1>1, Zenon DEF Dst
<1>2. CASE p = <<"state", 0>>
  BY <1>2, ChunkFacts, Zenon DEF Dst, Range
<1>3. CASE p \in Kv(r)
  BY <1>3, Zenon DEF Dst, Range, Kv
<1>4. CASE p \in C4(r)
  BY <1>4, Zenon DEF Dst, Range, C4
<1> QED
  BY <1>1, <1>2, <1>3, <1>4, Zenon DEF Parts, Extras

\* Where a part goes depends on the request's pages and metadata buffer only.
LEMMA DstKept ==
  ASSUME NEW r, NEW p, pages'[r] = pages[r], meta'[r] = meta[r]
  PROVE  Dst(r, p)' = Dst(r, p)
BY Zenon DEF Dst

\* Two requests with pages never write to the same place, unless one of them
\* has left the transfer queue and is writing its metadata or a mirror late.
LEMMA WritesApart ==
  ASSUME TransferTypeOK, Bootstrapped, PagesOwned, Writes, MetaOwned,
         NEW k \in Ranks, NEW q \in Reqs, NEW p \in PartIds, <<q, p>> \in posted[k],
         NEW r \in Reqs, r # q, dphase[r] \in {"transfer", "running"},
         NEW o \in Parts(r), dphase[r] = "transfer" \/ o # <<"aux", 0>>,
         Dst(q, p) = Dst(r, o)
  PROVE  Straggler(q, Dst(r, o))
<1>1. p \in Parts(q) /\ dphase[q] \notin {"new", "queued"}
  BY SentPartsFacts, Zenon DEF Writes, Bootstrapped
<1>2. dphase[q] \in {"transfer", "running", "done", "aborted"}
  <2>1. dphase \in [Reqs -> {"new", "queued", "transfer", "running", "done", "aborted"}]
    BY Zenon DEF TransferTypeOK
  <2> QED
    BY <1>1, <2>1, Zenon
<1>3. CASE dphase[q] = "aborted"
  BY <1>3, Zenon DEF Straggler
<1>4. CASE dphase[q] \in {"running", "done"}
  <2>1. p \notin Awaited(q)
    BY <1>4, Zenon DEF Writes
  <2>2. p \in C4(q) /\ NumChunks[q] # 1
    BY <1>1, <2>1, Zenon DEF Parts, Awaited
  <2>3. NumChunks[q] > 1
    BY <2>2, ChunkFacts
  <2>4. p[1] = "c4"
    BY <2>2, Zenon DEF C4
  <2>5. Dst(q, p)[1] = "c4"
    BY <2>4, Zenon DEF Dst
  <2> QED
    BY <2>3, <2>5, Zenon DEF Straggler
<1>5. CASE dphase[q] = "transfer"
  <2>1. pages[q] \in [ChunkIds(q) -> Pages] /\ pages[r] \in [ChunkIds(r) -> Pages]
    BY <1>5, Zenon DEF PagesOwned
  <2>2. Range(pages[q]) \cap Range(pages[r]) = {}
    BY <1>5, Zenon DEF PagesOwned, Held
  <2>0. \/ p = <<"aux", 0>> /\ Dst(q, p) = <<"aux", meta[q]>>
        \/ /\ p \in Kv(q) \cup C4(q) \cup {<<"state", 0>>}
           /\ \E y \in Range(pages[q]) : Dst(q, p) = <<p[1], y>>
    BY <1>1, <2>1, DstFacts, Zenon
  <2>3. CASE o = <<"aux", 0>>
    <3>1. Dst(r, o) = <<"aux", meta[r]>>
      BY <2>3, Zenon DEF Dst
    <3>2. Dst(q, p) = <<"aux", meta[q]>>
      <4>1. p \in Kv(q) \cup C4(q) \cup {<<"state", 0>>} => p[1] # "aux"
        BY DEF Kv, C4
      <4> QED
        BY <2>0, <3>1, <4>1
    <3>3. meta[q] # meta[r]
      BY <1>5, <2>3, Zenon DEF MetaOwned, MetadataAccounted, InTransfer
    <3> QED
      BY <3>1, <3>2, <3>3
  <2>4. CASE o # <<"aux", 0>>
    <3>1. PICK x \in Range(pages[r]) : Dst(r, o) = <<o[1], x>> /\ o \in Kv(r) \cup C4(r) \cup {<<"state", 0>>}
      BY <2>1, <2>4, DstFacts, Zenon
    <3>2. o[1] # "aux"
      BY <3>1 DEF Kv, C4
    <3>3. PICK y \in Range(pages[q]) : Dst(q, p) = <<p[1], y>>
      BY <2>0, <3>1, <3>2
    <3> QED
      BY <2>2, <3>1, <3>3
  <2> QED
    BY <2>3, <2>4, Zenon
<1> QED
  BY <1>2, <1>3, <1>4, <1>5, Zenon

\* Steps that write nothing.
LEMMA BytesKept ==
  ASSUME Bytes, mem' = mem,
         \A r \in Reqs : dphase[r] = "aborted" => dphase'[r] = "aborted",
         \A r \in Reqs : dphase'[r] = "transfer" =>
           \/ \A k \in Ranks : landed'[k][r] = {}
           \/ /\ dphase[r] = "transfer" /\ pages'[r] = pages[r] /\ meta'[r] = meta[r]
              /\ \A k \in Ranks : landed'[k][r] = landed[k][r],
         \A r \in Reqs : dphase'[r] = "running" =>
           /\ pages'[r] = pages[r] /\ meta'[r] = meta[r]
           /\ \/ dphase[r] = "running"
              \/ dphase[r] = "transfer" /\ \A k \in Ranks : Awaited(r) \subseteq landed[k][r]
  PROVE  Bytes'
<1>1. \A q, l : Straggler(q, l) => Straggler(q, l)'
  BY Zenon DEF Straggler
<1>2. \A k \in Ranks, r \in Reqs : \A l : Own(k, r, l) => Own(k, r, l)'
  BY <1>1, Zenon DEF Own
<1>3. ASSUME NEW k \in Ranks, NEW r \in Reqs, dphase'[r] = "transfer", NEW p \in landed'[k][r]
      PROVE  Own(k, r, Dst(r, p))'
  <2>1. /\ dphase[r] = "transfer" /\ pages'[r] = pages[r] /\ meta'[r] = meta[r]
        /\ p \in landed[k][r]
    BY <1>3, Zenon
  <2>2. Own(k, r, Dst(r, p))
    BY <2>1, Zenon DEF Bytes
  <2>3. Dst(r, p)' = Dst(r, p)
    BY <2>1, DstKept, Zenon
  <2> QED
    BY <1>1, <2>2, <2>3, Zenon DEF Own
<1>4. ASSUME NEW k \in Ranks, NEW r \in Reqs, dphase'[r] = "running",
             NEW p \in Awaited(r) \ {<<"aux", 0>>}
      PROVE  Own(k, r, Dst(r, p))'
  <2>1. Own(k, r, Dst(r, p))
    BY <1>4, Zenon DEF Bytes
  <2>2. Dst(r, p)' = Dst(r, p)
    BY <1>4, DstKept, Zenon
  <2> QED
    BY <1>1, <2>1, <2>2, Zenon DEF Own
<1>5. \A r : Awaited(r)' = Awaited(r)
  BY Zenon DEF Awaited, Kv, C4, ChunkIds
<1> QED
  BY <1>3, <1>4, <1>5, Zenon DEF Bytes

\* The memory, when a write lands.
LEMMA BytesLand ==
  ASSUME TransferTypeOK, Bootstrapped, Records, PagesOwned, Writes, Bytes, MetaOwned,
         NEW k \in Ranks, NEW w \in posted[k], Land(k, w)
  PROVE  Bytes'
<1>0. /\ dphase \in [Reqs -> {"new", "queued", "transfer", "running", "done", "aborted"}]
      /\ posted \in [Ranks -> SUBSET (Reqs \X PartIds)] /\ landed \in [Ranks -> [Reqs -> SUBSET PartIds]]
      /\ mem \in [Ranks -> [Locations -> Reqs \cup {Blank}]]
  BY Zenon DEF TransferTypeOK
<1> USE KVTransferAssumption, <1>0
<1>1. PICK q \in Reqs, o \in PartIds : w = <<q, o>>
  OBVIOUS
<1> DEFINE at == Dst(q, o)
<1>2. UNCHANGED <<dphase, pages, meta>>
  BY Zenon DEF Land
<1>3. /\ mem' = [mem EXCEPT ![k][at] = q]
      /\ landed' = [landed EXCEPT ![k][q] = IF dphase[q] = "transfer" THEN @ \cup {o} ELSE @]
  BY <1>1, Zenon DEF Land
<1>4. \A x, l : Straggler(x, l)' = Straggler(x, l)
  BY <1>2, Zenon DEF Straggler
<1>5. \A r, p : Dst(r, p)' = Dst(r, p)
  BY <1>2, DstKept, Zenon
<1>6. /\ \A j \in Ranks, l \in Locations : mem'[j][l] = IF j = k /\ l = at THEN q ELSE mem[j][l]
      /\ \A j \in Ranks, r \in Reqs : \A p \in landed'[j][r] :
           p \in landed[j][r] \/ (j = k /\ r = q /\ p = o)
  BY <1>3, Zenon
<1>7. o \in Parts(q)
  BY <1>1, SentPartsFacts, Zenon DEF Writes
<1> HIDE DEF at
<1>8. ASSUME NEW j \in Ranks, NEW r \in Reqs, NEW p \in Parts(r),
             dphase[r] \in {"transfer", "running"}, dphase[r] = "transfer" \/ p # <<"aux", 0>>,
             Own(j, r, Dst(r, p)) \/ (j = k /\ r = q /\ p = o)
      PROVE  Own(j, r, Dst(r, p))'
  <2> DEFINE l == Dst(r, p)
  <2>1. pages[r] \in [ChunkIds(r) -> Pages]
    BY <1>8, Zenon DEF PagesOwned
  <2>2. l \in Locations
    <3>1. CASE p = <<"aux", 0>>
      <4>1. meta[r] \in MetaSlots /\ l = <<"aux", meta[r]>>
        BY <1>8, <3>1, Zenon DEF MetaOwned, Dst
      <4> QED
        BY <4>1 DEF Locations
    <3>2. CASE p # <<"aux", 0>>
      <4>1. PICK x \in Pages : l = <<p[1], x>> /\ p \in Kv(r) \cup C4(r) \cup {<<"state", 0>>}
        BY <2>1, <3>2, DstFacts
      <4>2. p[1] \in {"kv", "c4", "state"}
        BY <4>1 DEF Kv, C4
      <4>3. <<p[1], x>> \in {"kv", "c4", "state"} \X Pages
        BY <4>2, Zenon
      <4> HIDE DEF l
      <4> QED
        BY <4>1, <4>3, Zenon DEF Locations
    <3> QED
      BY <3>1, <3>2, Zenon
  <2>3. CASE j = k /\ l = at /\ r = q
    BY <1>5, <1>6, <2>2, <2>3, Zenon DEF Own
  <2>4. CASE j = k /\ l = at /\ r # q
    <3>1. Straggler(q, l)
      BY <1>1, <1>8, <2>4, WritesApart, Zenon DEF at
    <3> QED
      BY <1>4, <1>5, <1>6, <2>2, <2>4, <3>1, Zenon DEF Own
  <2>5. CASE ~(j = k /\ l = at)
    <3>1. Own(j, r, l)
      BY <1>8, <2>5, Zenon DEF at
    <3>2. mem'[j][l] = mem[j][l]
      BY <1>6, <2>2, <2>5, Zenon
    <3> QED
      BY <1>4, <1>5, <3>1, <3>2, Zenon DEF Own
  <2> QED
    BY <2>3, <2>4, <2>5, Zenon
<1>9. \A r \in Reqs : Awaited(r) \subseteq Parts(r) /\ Awaited(r)' = Awaited(r)
  BY Zenon DEF Awaited, Parts, Kv, C4, ChunkIds
<1>10. \A j \in Ranks, r \in Reqs : landed[j][r] \subseteq Parts(r)
  BY SentPartsFacts, Zenon DEF Writes
<1>11. ASSUME NEW j \in Ranks, NEW r \in Reqs, dphase[r] = "transfer", NEW p \in landed'[j][r]
       PROVE  Own(j, r, Dst(r, p))'
  <2>1. p \in Parts(r) /\ (Own(j, r, Dst(r, p)) \/ (j = k /\ r = q /\ p = o))
    <3>1. CASE p \in landed[j][r]
      BY <1>10, <1>11, <3>1, Zenon DEF Bytes
    <3>2. CASE j = k /\ r = q /\ p = o
      BY <1>7, <3>2, Zenon
    <3> QED
      BY <1>6, <1>11, <3>1, <3>2
  <2> QED
    BY <1>8, <1>11, <2>1, Zenon
<1>12. ASSUME NEW j \in Ranks, NEW r \in Reqs, dphase[r] = "running",
              NEW p \in Awaited(r) \ {<<"aux", 0>>}
       PROVE  Own(j, r, Dst(r, p))'
  <2>1. p \in Parts(r) /\ Own(j, r, Dst(r, p))
    BY <1>9, <1>12, Zenon DEF Bytes
  <2> QED
    BY <1>8, <1>12, <2>1, Zenon
<1> QED
  BY <1>2, <1>9, <1>11, <1>12, Zenon DEF Bytes

\* The memory, through pop_preallocated.
LEMMA BytesPopPreallocated ==
  ASSUME TransferTypeOK, Bootstrapped, Records, PagesOwned, Writes, Bytes, MetaOwned,
         PopPreallocated
  PROVE  Bytes'
<1>0. /\ dphase \in [Reqs -> {"new", "queued", "transfer", "running", "done", "aborted"}]
      /\ posted \in [Ranks -> SUBSET (Reqs \X PartIds)] /\ landed \in [Ranks -> [Reqs -> SUBSET PartIds]]
      /\ mem \in [Ranks -> [Locations -> Reqs \cup {Blank}]]
  BY Zenon DEF TransferTypeOK
<1> USE KVTransferAssumption, <1>0
<1>1. UNCHANGED <<mem, landed>>
  BY Zenon DEF PopPreallocated
<1>2. \A r \in Reqs : r \in Taken \cup HandshakeFails => dphase[r] = "queued"
  BY TakenFacts, Zenon DEF Queued
<1>3. \A r \in Reqs : r \notin Taken => pages'[r] = pages[r] /\ meta'[r] = meta[r]
  BY Zenon DEF PopPreallocated
<1>4. \A r \in Reqs : dphase'[r] = IF r \in Taken THEN "transfer"
                                   ELSE IF r \in HandshakeFails THEN "aborted" ELSE dphase[r]
  BY Zenon DEF PopPreallocated
<1>5. \A r \in Taken : \A k \in Ranks : landed'[k][r] = {}
  BY <1>1, <1>2, TakenFacts, Zenon DEF Records, Queued
<1> QED
  BY <1>1, <1>2, <1>3, <1>4, <1>5, BytesKept, Zenon

\* The memory, through pop_transferred.
LEMMA BytesPopTransferred ==
  ASSUME TransferTypeOK, Bootstrapped, Records, PagesOwned, Writes, Bytes, MetaOwned,
         NEW late, PopTransferred(late)
  PROVE  Bytes'
<1>0. /\ dphase \in [Reqs -> {"new", "queued", "transfer", "running", "done", "aborted"}]
      /\ posted \in [Ranks -> SUBSET (Reqs \X PartIds)] /\ landed \in [Ranks -> [Reqs -> SUBSET PartIds]]
      /\ mem \in [Ranks -> [Locations -> Reqs \cup {Blank}]]
  BY Zenon DEF TransferTypeOK
<1> USE KVTransferAssumption, <1>0
<1> DEFINE good == Polled(late, Success)
           bad == Polled(late, Failed)
<1>1. UNCHANGED <<mem, pages, meta>>
  BY Zenon DEF PopTransferred
<1>2. \A r \in Reqs : r \in good \cup bad => dphase[r] = "transfer"
  BY PolledFacts, Zenon DEF InTransfer
<1>3. \A r \in Reqs : dphase'[r] = IF r \in good THEN "running"
                                   ELSE IF r \in bad THEN "aborted" ELSE dphase[r]
  BY Zenon DEF PopTransferred
<1>4. \A k \in Ranks, r \in Reqs : r \notin good \cup bad => landed'[k][r] = landed[k][r]
  BY Zenon DEF PopTransferred, Forget
<1>5. \A r \in good : \A k \in Ranks : Awaited(r) \subseteq landed[k][r]
  BY CommittedHasAwaited, Zenon
<1> HIDE DEF good, bad
<1> QED
  BY <1>1, <1>2, <1>3, <1>4, <1>5, BytesKept, Zenon

\* The memory, through every step: only a straggler writes over the parts of
\* another request in transfer or running.
LEMMA BytesStep ==
  ASSUME TransferTypeOK, Bootstrapped, Records, PagesOwned, Writes, Bytes, MetaOwned, [TransferNext]_vars
  PROVE  Bytes'
<1>0. /\ dphase \in [Reqs -> {"new", "queued", "transfer", "running", "done", "aborted"}]
      /\ posted \in [Ranks -> SUBSET (Reqs \X PartIds)] /\ landed \in [Ranks -> [Reqs -> SUBSET PartIds]]
      /\ mem \in [Ranks -> [Locations -> Reqs \cup {Blank}]]
  BY Zenon DEF TransferTypeOK
<1> USE KVTransferAssumption, <1>0
<1>1. ASSUME NEW r \in Reqs, PAdd(r) PROVE Bytes'
  BY <1>1, BytesKept, Zenon DEF PAdd, net, dvars
<1>2. ASSUME NEW r \in Reqs, PSend(r) PROVE Bytes'
  BY <1>2, BytesKept, Zenon DEF PSend, dvars
<1>3. CASE PPopBootstrapped
  BY <1>3, BytesKept, Zenon DEF PPopBootstrapped, net, dvars
<1>4. CASE PInflight
  BY <1>4, BytesKept, Zenon DEF PInflight, net, dvars
<1>5. ASSUME NEW k \in Ranks, NEW r \in Reqs, PRecvInfo(k, r) PROVE Bytes'
  BY <1>5, BytesKept, Zenon DEF PRecvInfo, dvars
<1>6. ASSUME NEW k \in Ranks, NEW w \in posted[k], Land(k, w) PROVE Bytes'
  BY <1>6, BytesLand, Zenon
<1>7. ASSUME NEW r \in Reqs, DAdd(r) PROVE Bytes'
  BY <1>7, BytesKept, Zenon DEF DAdd, pvars, net
<1>8. ASSUME NEW r \in Reqs, Finish(r) PROVE Bytes'
  BY <1>8, BytesKept, Zenon DEF Finish, pvars, net
<1>9. CASE PopPreallocated
  BY <1>9, BytesPopPreallocated, Zenon
<1>10. ASSUME NEW late, PopTransferred(late) PROVE Bytes'
  BY <1>10, BytesPopTransferred, Zenon
<1>11. CASE PCrash
  BY <1>11, BytesKept, Zenon DEF PCrash, dvars
<1>12. CASE PRestart
  BY <1>12, BytesKept, Zenon DEF PRestart, net, dvars
<1>13. ASSUME NEW k \in Ranks, NodeFailureMarks(k) PROVE Bytes'
  BY <1>13, BytesKept, Zenon DEF NodeFailureMarks, pvars, net
<1>14. ASSUME NEW k \in Ranks, NodeFailureFails(k) PROVE Bytes'
  BY <1>14, BytesKept, Zenon DEF NodeFailureFails, pvars, net
<1>15. CASE UNCHANGED vars
  BY <1>15, BytesKept, Zenon DEF vars, pvars, net, dvars
<1> QED
  BY <1>1, <1>2, <1>3, <1>4, <1>5, <1>6, <1>7, <1>8, <1>9, <1>10, <1>11, <1>12, <1>13, <1>14, <1>15, Zenon
  DEF TransferNext, Prefill, Network, Decode, Faults, TimeOut, Idle

-----------------------------------------------------------------------------
(* What the invariant gives.                                               *)

\* The inductive invariant survives every step of either server, the network
\* and the faults.
LEMMA TransferInvStep ==
  ASSUME TransferInv, [TransferNext]_vars
  PROVE  TransferInv'
BY TypeStep, SendingStep, BootstrappedStep, RecordsStep, PagesOwnedStep, WritesStep, BytesStep,
   MetaOwnedStep, Zenon DEF TransferInv

\* The inductive invariant holds of every hand-off.
THEOREM TransferInvariant == TransferSpec => []TransferInv
<1>1. TransferInv /\ [TransferNext]_vars => TransferInv'
  BY TransferInvStep, Zenon
<1> QED
  BY <1>1, TransferInitInv, PTL DEF TransferSpec

\* Every variable keeps its type: in particular update_status, the polls and
\* their reduction yield only KVPoll values, and no chunk is sent twice.
THEOREM TransferTypeCorrect == TransferSpec => []TransferTypeOK
<1>1. TransferInv => TransferTypeOK
  BY Zenon DEF TransferInv
<1> QED
  BY <1>1, TransferInvariant, PTL

\* For any number of requests, ranks, pages, crashes and timeouts, what a
\* request that the decode loop runs finds in its pages is its own history,
\* stragglers of given-up requests and late mirror writes apart
\* (pop_transferred, _pre_alloc, TransferStatus.is_done).
THEOREM DeliveredHistory == TransferSpec => []DeliveredHistoryIsOwn
<1>1. TransferInv => DeliveredHistoryIsOwn
  BY Zenon DEF TransferInv, Bytes, Own, DeliveredHistoryIsOwn
<1> QED
  BY <1>1, TransferInvariant, PTL

\* No sequence of commits, aborts, timeouts and node failures loses a metadata
\* buffer or gives one to two requests in transfer (req_to_metadata_buffer_idx_allocator).
THEOREM MetadataNeverLost == TransferSpec => []MetadataAccounted
<1>1. TransferInv => MetadataAccounted
  BY Zenon DEF TransferInv, MetaOwned
<1> QED
  BY <1>1, TransferInvariant, PTL

\* pop_transferred runs only the requests whose reduced poll is Success.
LEMMA CommitsPolled ==
  ASSUME NEW late, PopTransferred(late), NEW r \in Reqs, dphase[r] = "transfer", dphase'[r] = "running"
  PROVE  r \in Polled(late, Success)
BY Zenon DEF PopTransferred

\* _commit_transfer_to_req takes the first output token from the metadata that
\* P wrote for this request, unless a given-up request wrote over it.
THEOREM CommitReadsMetadata == TransferSpec => CommitReadsOwnMetadata
<1> DEFINE A == \A r \in Reqs : dphase[r] = "transfer" /\ dphase'[r] = "running" =>
                  \A k \in Ranks : LET l == <<"aux", meta[r]>> IN mem[k][l] = r \/ Straggler(mem[k][l], l)
<1>1. ASSUME TransferInv, [TransferNext]_vars PROVE [A]_vars
  <2>1. ASSUME NEW late, PopTransferred(late) PROVE A
    <3> SUFFICES ASSUME NEW r \in Reqs, dphase[r] = "transfer", dphase'[r] = "running", NEW k \in Ranks
                 PROVE  Own(k, r, <<"aux", meta[r]>>)
      BY Zenon DEF Own
    <3>1. r \in Polled(late, Success)
      BY <2>1, CommitsPolled, Zenon
    <3>2. <<"aux", 0>> \in landed[k][r]
      BY <1>1, <3>1, CommittedHasAwaited, Zenon DEF TransferInv, Awaited, Extras
    <3>3. Dst(r, <<"aux", 0>>) = <<"aux", meta[r]>>
      BY Zenon DEF Dst
    <3> QED
      BY <1>1, <3>2, <3>3, Zenon DEF TransferInv, Bytes
  <2>2. ASSUME ~\E late : PopTransferred(late), NEW r \in Reqs, dphase[r] = "transfer", ~UNCHANGED vars
        PROVE  dphase'[r] # "running"
    <3>1. CASE Prefill
      BY <2>2, <3>1, Zenon DEF Prefill, PAdd, PSend, PPopBootstrapped, PInflight, dvars
    <3>2. CASE Network
      BY <2>2, <3>2, Zenon DEF Network, PRecvInfo, Land, dvars
    <3>3. CASE Decode
      <4>1. DOMAIN dphase = Reqs
        BY <1>1, Zenon DEF TransferInv, TransferTypeOK
      <4>2. ASSUME NEW q \in Reqs, DAdd(q) \/ Finish(q) PROVE dphase'[r] # "running"
        BY <2>2, <4>1, <4>2, Zenon DEF DAdd, Finish
      <4>3. CASE PopPreallocated
        BY <2>2, <4>3, Zenon DEF PopPreallocated
      <4> QED
        BY <2>2, <3>3, <4>2, <4>3, Zenon DEF Decode
    <3>4. CASE Faults
      BY <2>2, <3>4, Zenon DEF Faults, PCrash, PRestart, TimeOut, NodeFailureMarks, NodeFailureFails, dvars
    <3> QED
      BY <1>1, <2>2, <3>1, <3>2, <3>3, <3>4, Zenon DEF TransferNext, Idle
  <2> QED
    BY <2>1, <2>2, Zenon
<1> QED
  BY <1>1, TransferInvariant, PTL DEF TransferSpec, CommitReadsOwnMetadata

-----------------------------------------------------------------------------
(* Each step is one of KVHandoff, or changes nothing there.                *)

\* Nothing happens in the abstract hand-off.
LEMMA HandoffStutters ==
  ASSUME \A r \in Reqs : Stage(r)' = Stage(r) /\ Held(r)' = Held(r) /\ Arrived(r)' = Arrived(r)
  PROVE  UNCHANGED Handoff!handoffVars
BY Zenon DEF Handoff!handoffVars

\* The phases, pages and landed parts decide where the requests stand in it.
LEMMA HandoffKept ==
  ASSUME UNCHANGED <<pages, landed, dphase>>
  PROVE  UNCHANGED Handoff!handoffVars
BY HandoffStutters, Zenon DEF Stage, Held, Arrived, Parts, Kv, C4, ChunkIds

\* Initially no request has pages.
LEMMA HandoffInitially == TransferInit => Handoff!HandoffInit
BY Zenon DEF TransferInit, Handoff!HandoffInit, Stage, Held, Arrived

\* The next state of the parts of r that have arrived.
LEMMA ArrivedNext ==
  ASSUME NEW r \in Reqs
  PROVE  Arrived(r)' = IF dphase'[r] = "transfer" THEN {p \in Parts(r) : \A k \in Ranks : p \in landed'[k][r]} ELSE {}
BY Zenon DEF Arrived, Parts, Kv, C4, ChunkIds

\* pop_preallocated reserves pages for the requests it takes and gives up those
\* whose handshake failed.
LEMMA PreallocReserves ==
  ASSUME TransferInv, PagesOwned', PopPreallocated
  PROVE  Handoff!Reserve(Taken, HandshakeFails)
<1>1. \A r \in Reqs : dphase'[r] = IF r \in Taken THEN "transfer"
                                   ELSE IF r \in HandshakeFails THEN "aborted" ELSE dphase[r]
  BY Zenon DEF PopPreallocated
<1>2. \A r \in Taken \cup HandshakeFails : r \in Reqs /\ dphase[r] = "queued"
  BY TakenFacts, Zenon DEF Queued
<1>3. \A r \in Taken \cup HandshakeFails : Stage(r) = "new"
  BY <1>2, Zenon DEF Stage
<1>4. \A r \in Reqs : Stage(r)' = IF r \in Taken THEN "reserved"
                                  ELSE IF r \in HandshakeFails THEN "gone" ELSE Stage(r)
  BY <1>1, Zenon DEF Stage
<1>5. \A q \in Reqs \ Taken : Held(q)' = Held(q)
  <2>1. \A q \in Reqs \ Taken : pages'[q] = pages[q]
    BY Zenon DEF PopPreallocated
  <2> QED
    BY <1>1, <1>2, <2>1, Zenon DEF Held
<1>6. \A r, q \in Reqs : r # q => Held(r)' \cap Held(q)' = {}
  BY Zenon DEF PagesOwned
<1>7. ASSUME NEW r \in Reqs PROVE Arrived(r)' = Arrived(r)
  <2>1. landed' = landed
    BY Zenon DEF PopPreallocated
  <2>2. CASE r \in Taken
    <3>1. \A k \in Ranks : landed'[k][r] = {}
      BY <1>2, <2>1, <2>2, Zenon DEF TransferInv, Records
    <3> QED
      BY <1>1, <1>2, <2>2, <3>1, ArrivedNext, KVTransferAssumption, Zenon DEF Arrived
  <2>3. CASE r \notin Taken
    BY <1>1, <1>2, <2>1, <2>3, ArrivedNext, Zenon DEF Arrived
  <2> QED
    BY <2>2, <2>3, Zenon
<1> QED
  BY <1>3, <1>4, <1>5, <1>6, <1>7, <1>2, TakenFacts, Zenon DEF Handoff!Reserve

\* A write that lands is an arrival if its request is in transfer.
LEMMA LandArrives ==
  ASSUME TransferInv, NEW k \in Ranks, NEW w \in posted[k], Land(k, w)
  PROVE  [Handoff!HandoffNext]_(Handoff!handoffVars)
<1>1. w[1] \in Reqs /\ UNCHANGED <<dphase, pages>>
  BY DEF Land, TransferInv, TransferTypeOK
<1>2. \A r \in Reqs : Stage(r)' = Stage(r) /\ Held(r)' = Held(r)
  BY <1>1, Zenon DEF Stage, Held
<1>3. ASSUME NEW j \in Ranks, NEW r \in Reqs
      PROVE  landed[j][r] \subseteq landed'[j][r] /\ (r # w[1] => landed'[j][r] = landed[j][r])
  BY <1>1, Zenon DEF Land, TransferInv, TransferTypeOK
<1>4. \A r \in Reqs : Arrived(r) \subseteq Arrived(r)' /\ (r # w[1] => Arrived(r)' = Arrived(r))
  <2> TAKE r \in Reqs
  <2>1. dphase'[r] = dphase[r]
    BY <1>1, Zenon
  <2>2. Arrived(r) \subseteq Arrived(r)'
    <3>1. \A j \in Ranks : landed[j][r] \subseteq landed'[j][r]
      BY <1>3, Zenon
    <3> QED
      BY <2>1, <3>1, ArrivedNext, Zenon DEF Arrived
  <2>3. ASSUME r # w[1] PROVE Arrived(r)' = Arrived(r)
    <3>1. \A j \in Ranks : landed'[j][r] = landed[j][r]
      BY <1>3, <2>3, Zenon
    <3> QED
      BY <2>1, <3>1, ArrivedNext, Zenon DEF Arrived
  <2> QED
    BY <2>2, <2>3, Zenon
<1>5. CASE dphase[w[1]] = "transfer"
  <2>1. Handoff!Arrive(w[1])
    BY <1>1, <1>2, <1>4, <1>5, Zenon DEF Handoff!Arrive, Stage
  <2> QED
    BY <1>1, <2>1, Zenon DEF Handoff!HandoffNext
<1>6. CASE dphase[w[1]] # "transfer"
  <2>1. \A r \in Reqs : Arrived(r)' = Arrived(r)
    BY <1>1, <1>4, <1>6, ArrivedNext, Zenon DEF Arrived
  <2> QED
    BY <1>2, <2>1, HandoffStutters, Zenon
<1> QED
  BY <1>5, <1>6, Zenon

\* pop_transferred delivers the requests it commits, which have everything that
\* is required, and gives up those it aborts.
LEMMA PopConcludes ==
  ASSUME TransferInv, NEW late, PopTransferred(late)
  PROVE  Handoff!Conclude(Polled(late, Success), Polled(late, Failed))
<1> DEFINE good == Polled(late, Success)
           bad == Polled(late, Failed)
<1>1. good \cap bad = {} /\ \A r \in good \cup bad : r \in Reqs /\ dphase[r] = "transfer"
  BY PolledFacts, Zenon DEF InTransfer
<1>2. \A r \in good : \A k \in Ranks : Awaited(r) \subseteq landed[k][r]
  BY CommittedHasAwaited, Zenon DEF TransferInv
<1>3. /\ pages' = pages
      /\ \A r \in Reqs : dphase'[r] = IF r \in good THEN "running" ELSE IF r \in bad THEN "aborted" ELSE dphase[r]
      /\ \A k \in Ranks, r \in Reqs : r \notin good \cup bad => landed'[k][r] = landed[k][r]
  BY Zenon DEF PopTransferred, Forget
<1> HIDE DEF good, bad
<1>4. \A r \in good \cup bad : Stage(r) = "reserved"
  BY <1>1, Zenon DEF Stage
<1>5. \A r \in good : Awaited(r) \subseteq Arrived(r)
  BY <1>1, <1>2, Zenon DEF Awaited, Arrived, Parts
<1>6. \A r \in Reqs : Stage(r)' = IF r \in good THEN "delivered" ELSE IF r \in bad THEN "gone" ELSE Stage(r)
  BY <1>1, <1>3, Zenon DEF Stage
<1>7. \A r \in Reqs : Held(r)' = IF r \in bad THEN {} ELSE Held(r)
  BY <1>1, <1>3, Zenon DEF Held
<1>8. \A r \in Reqs : Arrived(r)' = IF r \in good \cup bad THEN {} ELSE Arrived(r)
  BY <1>1, <1>3, ArrivedNext, Zenon DEF Arrived
<1> QED
  BY <1>1, <1>4, <1>5, <1>6, <1>7, <1>8, Zenon DEF Handoff!Conclude, good, bad

\* release_kv_cache at the end of a request.
LEMMA FinishReleases ==
  ASSUME TransferInv, NEW r \in Reqs, Finish(r)
  PROVE  Handoff!Release(r)
<1>1. /\ UNCHANGED <<pages, landed>> /\ dphase[r] = "running"
      /\ \A q \in Reqs : dphase'[q] = IF q = r THEN "done" ELSE dphase[q]
  BY Zenon DEF Finish, TransferInv, TransferTypeOK
<1>2. \A q \in Reqs : Stage(q)' = IF q = r THEN "gone" ELSE Stage(q)
  BY <1>1, Zenon DEF Stage
<1>3. \A q \in Reqs : Held(q)' = IF q = r THEN {} ELSE Held(q)
  BY <1>1, Zenon DEF Held
<1>4. \A q \in Reqs : Arrived(q)' = Arrived(q)
  BY <1>1, ArrivedNext, Zenon DEF Arrived
<1>5. Stage(r) = "delivered"
  BY <1>1, Zenon DEF Stage
<1> QED
  BY <1>2, <1>3, <1>4, <1>5, Zenon DEF Handoff!Release

\* Every step of the two servers, the network or a fault is a step of the
\* abstract hand-off or changes nothing in it.
LEMMA HandoffStep ==
  ASSUME TransferInv, TransferInv', [TransferNext]_vars
  PROVE  [Handoff!HandoffNext]_(Handoff!handoffVars)
<1>1. CASE Prefill
  BY <1>1, HandoffKept, Zenon DEF Prefill, PAdd, PSend, PPopBootstrapped, PInflight, dvars
<1>2. ASSUME NEW k \in Ranks, NEW r \in Reqs, PRecvInfo(k, r) PROVE UNCHANGED Handoff!handoffVars
  BY <1>2, HandoffKept, Zenon DEF PRecvInfo, dvars
<1>3. ASSUME NEW k \in Ranks, NEW w \in posted[k], Land(k, w)
      PROVE  [Handoff!HandoffNext]_(Handoff!handoffVars)
  BY <1>3, LandArrives, Zenon
<1>4. ASSUME NEW r \in Reqs, DAdd(r) PROVE UNCHANGED Handoff!handoffVars
  <2>1. /\ UNCHANGED <<pages, landed>>
        /\ \A q \in Reqs : dphase'[q] = dphase[q] \/ (dphase[q] = "new" /\ dphase'[q] = "queued")
    BY <1>4 DEF DAdd, TransferInv, TransferTypeOK
  <2>2. \A q \in Reqs : Stage(q)' = Stage(q) /\ Held(q)' = Held(q)
    BY <2>1, Zenon DEF Stage, Held
  <2>3. \A q \in Reqs : Arrived(q)' = Arrived(q)
    BY <2>1, ArrivedNext, Zenon DEF Arrived
  <2> QED
    BY <2>2, <2>3, HandoffStutters, Zenon
<1>5. ASSUME NEW r \in Reqs, Finish(r) PROVE Handoff!HandoffNext
  BY <1>5, FinishReleases, Zenon DEF Handoff!HandoffNext
<1>6. CASE PopPreallocated
  <2>1. Taken \in SUBSET Reqs /\ HandshakeFails \in SUBSET Reqs
    BY TakenFacts, Zenon
  <2> QED
    BY <1>6, <2>1, PreallocReserves, Zenon DEF Handoff!HandoffNext, TransferInv
<1>7. ASSUME NEW late, PopTransferred(late) PROVE Handoff!HandoffNext
  <2>1. Polled(late, Success) \in SUBSET Reqs /\ Polled(late, Failed) \in SUBSET Reqs
    BY PolledFacts, Zenon
  <2> QED
    BY <1>7, <2>1, PopConcludes, Zenon DEF Handoff!HandoffNext
<1>8. CASE PCrash \/ PRestart
  BY <1>8, HandoffKept, Zenon DEF PCrash, PRestart, dvars
<1>9. ASSUME NEW k \in Ranks, NodeFailureMarks(k) \/ NodeFailureFails(k) PROVE UNCHANGED Handoff!handoffVars
  BY <1>9, HandoffKept, Zenon DEF NodeFailureMarks, NodeFailureFails
<1>10. CASE UNCHANGED vars
  BY <1>10, HandoffKept, Zenon DEF vars, dvars
<1> QED
  BY <1>1, <1>2, <1>3, <1>4, <1>5, <1>6, <1>7, <1>8, <1>9, <1>10, Zenon
  DEF TransferNext, Network, Decode, Faults, TimeOut, Idle

\* For any number of requests, ranks, pages, crashes and timeouts: requests enter
\* the decode loop only with everything is_done() must wait for landed on every
\* rank, and keep their pages to themselves until they are done or given up
\* (pop_preallocated, pop_transferred, release_kv_cache).
THEOREM TransferImplementsHandoff == TransferSpec => ImplementsHandoff
<1>1. TransferInv /\ TransferInv' /\ [TransferNext]_vars => [Handoff!HandoffNext]_(Handoff!handoffVars)
  BY HandoffStep, Zenon
<1> QED
  BY <1>1, HandoffInitially, TransferInvariant, PTL
  DEF TransferSpec, ImplementsHandoff, Handoff!HandoffSpec
===============================================================================
