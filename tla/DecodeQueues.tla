----------------------------- MODULE DecodeQueues -----------------------------
(***************************************************************************)
(* The decode server's event loop with overlap scheduling, as far as it    *)
(* decides who gets memory: the prealloc, transfer, retracted and waiting  *)
(* queues, the prebuilt and the running batch, the token budget, the full  *)
(* and the SWA page pool with windowed preallocation, SWA eviction while   *)
(* decoding, retraction and resumption, and the results, which are         *)
(* processed one iteration after their batch was launched.                 *)
(*                                                                         *)
(* Pages are counted, not named: a request with n committed tokens of      *)
(* which the first s have no SWA slot (s is page aligned) has ceil(n/Page) *)
(* full and ceil((n-s)/Page) SWA pages.  Handshake and transfer are in     *)
(* KVTransfer; here a transfer just completes or fails.                    *)
(***************************************************************************)
EXTENDS Integers, Sequences, FiniteSets, Functions

CONSTANTS Reqs,
          InputLen,    \* len(origin_input_ids) of each request
          MaxNew,      \* max_new_tokens of each request, after init_req_max_new_tokens
          QuickFinish, \* the first output token may end a request
          Page,        \* page size in tokens
          Window,      \* sliding window
          FullPages, SwaPages,   \* sizes of the two pools
          NumSlots,    \* rows of req_to_token_pool
          MaxRunning,  \* --max-running-requests
          Reserved,    \* --num-reserved-decode-tokens
          ClipMaxNew   \* CLIP_MAX_NEW_TOKEN

ASSUME QueuesAssumption ==
  /\ IsFiniteSet(Reqs)
  /\ InputLen \in [Reqs -> Nat \ {0}] /\ MaxNew \in [Reqs -> Nat \ {0}]
  /\ QuickFinish \in BOOLEAN
  /\ Page \in Nat \ {0, 1} /\ Window \in Nat \ {0, 1}
  /\ FullPages \in Nat /\ SwaPages \in Nat /\ NumSlots \in Nat
  /\ MaxRunning \in Nat \ {0} /\ Reserved \in Nat /\ ClipMaxNew \in Nat
  \* init_req_max_new_tokens has cut max_new_tokens to what the full pool holds
  /\ \A r \in Reqs : InputLen[r] + MaxNew[r] + 2 <= FullPages * Page

VARIABLES
  windowed,  \* SGLANG_PD_SWA_WINDOW_PREALLOC, on the DeepSeek-V4 pool, which
             \* cannot copy KV to the CPU; otherwise a stock SWA pool, which can
  pc,        \* the next stage of the event loop, or dead
  incoming,  \* requests that have not reached the server
  pre,       \* DecodePreallocQueue.queue
  retracted, \* DecodePreallocQueue.retracted_queue
  tq,        \* DecodeTransferQueue.queue
  arrived, broken,  \* transfers of tq that polls will report done, failed
  waiting,   \* waiting_queue
  running,   \* running_batch.reqs
  last, cur, \* the batch of the previous and of this iteration
  out,       \* len(output_ids)
  len,       \* kv_committed_len
  swaFrom,   \* swa_evicted_seqlen
  steps,     \* decode_batch_idx
  over,      \* finished or aborted requests
  fullFree, swaFree, freeSlots,
  death      \* why the scheduler died

vars == <<windowed, pc, incoming, pre, retracted, tq, arrived, broken, waiting, running, last, cur,
          out, len, swaFrom, steps, over, fullFree, swaFree, freeSlots, death>>

SmallerOf(a, b) == IF a < b THEN a ELSE b
LargerOf(a, b) == IF a < b THEN b ELSE a
PagesFor(n) == (n + Page - 1) \div Page
AlignDown(n) == (n \div Page) * Page
SumOver(f, q, n) == SumFunctionOnSet([i \in 1 .. n |-> f[q[i]]], 1 .. n)
NoBatch == [kind |-> "none", reqs |-> <<>>]

\* _pre_alloc: all tokens but the one that is the next decode step's input.
FillLen(r) == InputLen[r] + LargerOf(out[r] - 1, 0)

\* _pre_alloc: start of the SWA tail.
WinStart(r) == IF windowed THEN AlignDown(LargerOf(0, InputLen[r] - Window - Page)) ELSE 0

FullNeed == [r \in Reqs |-> PagesFor(FillLen(r))]
SwaNeed == [r \in Reqs |-> PagesFor(FillLen(r) - WinStart(r))]

\* _swa_pages_per_req
SwaGuard == PagesFor(Window) + 2

\* full_available_size(), or available_size() of both pools
Available == Page * (IF windowed THEN fullFree ELSE SmallerOf(fullFree, swaFree))

Capacity == Page * (IF windowed THEN FullPages ELSE SmallerOf(FullPages, SwaPages))

Retractable == SumOver([r \in Reqs |-> InputLen[r] + out[r]], running, Len(running))

MaxTokens(r) == InputLen[r] + SmallerOf(MaxNew[r], ClipMaxNew)

NeedForSingle(retractable) ==
  IF running = <<>> THEN 0
  ELSE LET needs == {MaxTokens(r) - retractable : r \in Range(running)}
       IN  CHOOSE n \in needs : \A m \in needs : m <= n

ResumeTokens == [r \in Reqs |-> InputLen[r] + out[r] + Reserved]
PreallocTokens == [r \in Reqs |-> InputLen[r] + Reserved]

\* Mutant of AllocatableTokens: the retracted requests are always subtracted,
\* also from the budget they are to be resumed with.
AllocatableTokensOfOthers(need, countRetracted) ==
  Available - LargerOf(Reserved * (Len(running) + Len(tq) + Len(waiting)), need)
    - (IF last.kind = "prebuilt" THEN Reserved * Len(last.reqs) ELSE 0)
    - SumOver(ResumeTokens, retracted, Len(retracted))

\* _allocatable_tokens
AllocatableTokens(need, countRetracted) ==
  Available - LargerOf(Reserved * (Len(running) + Len(tq) + Len(waiting)), need)
    - (IF last.kind = "prebuilt" THEN Reserved * Len(last.reqs) ELSE 0)
    - (IF countRetracted THEN SumOver(ResumeTokens, retracted, Len(retracted)) ELSE 0)

QueuesInit ==
  /\ windowed \in BOOLEAN
  /\ pc = "resume"
  /\ incoming = Reqs
  /\ pre = <<>> /\ retracted = <<>> /\ tq = <<>> /\ waiting = <<>> /\ running = <<>>
  /\ arrived = {} /\ broken = {}
  /\ last = NoBatch /\ cur = NoBatch
  /\ out = [r \in Reqs |-> 0]
  /\ len = [r \in Reqs |-> 0]
  /\ swaFrom = [r \in Reqs |-> 0]
  /\ steps = [r \in Reqs |-> 0]
  /\ over = {}
  /\ fullFree = FullPages /\ swaFree = SwaPages /\ freeSlots = NumSlots
  /\ death = "none"

Die(why) ==
  /\ pc' = "dead" /\ death' = why
  /\ UNCHANGED <<windowed, incoming, pre, retracted, tq, arrived, broken, waiting, running, last, cur,
                 out, len, swaFrom, steps, over, fullFree, swaFree, freeSlots>>

\* recv_requests and DecodePreallocQueue.add, at the top of the loop.
Receive(r) ==
  /\ pc = "resume" /\ r \in incoming
  /\ incoming' = incoming \ {r}
  /\ IF InputLen[r] > Capacity THEN over' = over \cup {r} /\ UNCHANGED pre
                               ELSE pre' = Append(pre, r) /\ UNCHANGED over
  /\ UNCHANGED <<windowed, pc, retracted, tq, arrived, broken, waiting, running, last, cur, out, len,
                 swaFrom, steps, fullFree, swaFree, freeSlots, death>>

\* A transfer completes or fails (KVTransfer).
TransferEnds(r) ==
  /\ pc # "dead" /\ r \in Range(tq) \ (arrived \cup broken)
  /\ \/ arrived' = arrived \cup {r} /\ UNCHANGED broken
     \/ broken' = broken \cup {r} /\ UNCHANGED arrived
  /\ UNCHANGED <<windowed, pc, incoming, pre, retracted, tq, waiting, running, last, cur, out, len,
                 swaFrom, steps, over, fullFree, swaFree, freeSlots, death>>
------------------------------------------------------------------------------
(* process_decode_queue *)

\* _pre_alloc for the first n requests of q: a slot, the full pages and the
\* SWA tail of each; the assertion fails if an allocator returns None.
PreAllocFits(q, n) ==
  SumOver(FullNeed, q, n) <= fullFree /\ SumOver(SwaNeed, q, n) <= swaFree

PreAlloc(q, n) ==
  /\ freeSlots' = freeSlots - n
  /\ fullFree' = fullFree - SumOver(FullNeed, q, n)
  /\ swaFree' = swaFree - SumOver(SwaNeed, q, n)
  /\ len' = [r \in Reqs |-> IF r \in Range(SubSeq(q, 1, n)) THEN FillLen(r) ELSE len[r]]
  /\ swaFrom' = [r \in Reqs |-> IF r \in Range(SubSeq(q, 1, n)) THEN WinStart(r) ELSE swaFrom[r]]

\* Mutant of SwaGuardPasses: two pages are taken to be enough.
SwaGuardPassesTwo(q, i) == windowed => swaFree - SumOver(SwaNeed, q, i - 1) >= 2

\* The SWA guard before the i-th _pre_alloc of a loop.
SwaGuardPasses(q, i) == windowed => swaFree - SumOver(SwaNeed, q, i - 1) >= SwaGuard

\* A loop over a queue stops before its first request that does not pass.
Admitted(q, passing) == CHOOSE n \in 0 .. Len(q) :
  1 .. n \subseteq passing /\ (n < Len(q) => n + 1 \notin passing)

\* resume_retracted_reqs: load_kv_cache fails when nothing was copied out.
Resume ==
  LET budget == AllocatableTokens(0, FALSE)
      passing == {i \in 1 .. Len(retracted) :
                    /\ freeSlots - (i - 1) > 0
                    /\ SumOver(ResumeTokens, retracted, i) <= budget
                    /\ SwaGuardPasses(retracted, i)}
      n == Admitted(retracted, passing)
      fits == PreAllocFits(retracted, IF windowed THEN SmallerOf(n, 1) ELSE n)
  IN  /\ pc = "resume"
      /\ IF ~fits THEN Die("resume_prealloc")
         ELSE IF windowed /\ n > 0 THEN Die("resume_load")
         ELSE
            /\ PreAlloc(retracted, n)
            /\ waiting' = waiting \o SubSeq(retracted, 1, n)
            /\ retracted' = SubSeq(retracted, n + 1, Len(retracted))
            /\ pc' = IF n < Len(retracted) THEN "batch" ELSE "prealloc"
            /\ UNCHANGED <<windowed, incoming, pre, tq, arrived, broken, running, last, cur, out,
                           steps, over, death>>

\* pop_preallocated
Prealloc ==
  LET budget == AllocatableTokens(NeedForSingle(Retractable), TRUE)
      passing == {i \in 1 .. Len(pre) :
                    /\ freeSlots - (i - 1) > 0
                    /\ LargerOf(PreallocTokens[pre[i]], MaxTokens(pre[i]) - Retractable)
                         <= budget - SumOver(PreallocTokens, pre, i - 1)
                    /\ SwaGuardPasses(pre, i)}
      n == Admitted(pre, passing)
  IN  /\ pc = "prealloc"
      /\ IF ~PreAllocFits(pre, n) THEN Die("prealloc")
         ELSE
            /\ PreAlloc(pre, n)
            /\ pre' = SubSeq(pre, n + 1, Len(pre))
            /\ tq' = tq \o SubSeq(pre, 1, n)
            /\ pc' = "transferred"
            /\ UNCHANGED <<windowed, incoming, retracted, arrived, broken, waiting, running, last, cur,
                           out, steps, over, death>>

FullHeld(S, l) == SumFunctionOnSet([r \in Reqs |-> PagesFor(l[r])], S)
SwaHeld(S, l, s) == SumFunctionOnSet([r \in Reqs |-> PagesFor(l[r] - s[r])], S)

\* Mutant of Release: the pages go back, the slot does not.
ReleaseNoSlot(S) ==
  /\ freeSlots' = freeSlots
  /\ fullFree' = fullFree + FullHeld(S, len)
  /\ swaFree' = swaFree + SwaHeld(S, len, swaFrom)
  /\ len' = [r \in Reqs |-> IF r \in S THEN 0 ELSE len[r]]
  /\ swaFrom' = [r \in Reqs |-> IF r \in S THEN 0 ELSE swaFrom[r]]

\* release_kv_cache: the slot and the pages of the committed tokens.
Release(S) ==
  /\ freeSlots' = freeSlots + Cardinality(S)
  /\ fullFree' = fullFree + FullHeld(S, len)
  /\ swaFree' = swaFree + SwaHeld(S, len, swaFrom)
  /\ len' = [r \in Reqs |-> IF r \in S THEN 0 ELSE len[r]]
  /\ swaFrom' = [r \in Reqs |-> IF r \in S THEN 0 ELSE swaFrom[r]]

\* pop_transferred: _commit_transfer_to_req appends the first output token.
Transferred ==
  LET good == SelectSeq(tq, LAMBDA r : r \in arrived)
  IN  /\ pc = "transferred"
      /\ Release(broken)
      /\ over' = over \cup broken
      /\ out' = [r \in Reqs |-> IF r \in arrived THEN 1 ELSE out[r]]
      /\ waiting' = waiting \o good
      /\ tq' = SelectSeq(tq, LAMBDA r : r \notin arrived \cup broken)
      /\ arrived' = {} /\ broken' = {}
      /\ pc' = "batch"
      /\ UNCHANGED <<windowed, incoming, pre, retracted, running, last, cur, steps, death>>
------------------------------------------------------------------------------
(* get_next_disagg_decode_batch_to_run *)

Unfinished(q) == SelectSeq(q, LAMBDA r : r \notin over)

\* Mutant of Merged: any last batch is merged.
MergedAlways == running \o Unfinished(last.reqs)

\* The prebuilt batch of the last iteration joins the running batch.
Merged == IF last.kind = "prebuilt" THEN running \o Unfinished(last.reqs) ELSE running

\* Mutant of Room: the size of the running batch is read before the merge.
RoomBeforeMerge == LargerOf(0, MaxRunning - Len(running))

Room == LargerOf(0, MaxRunning - Len(Merged))

\* get_new_prebuilt_batch
Prebuild ==
  LET n == SmallerOf(Room, Len(waiting))
  IN  /\ pc = "batch" /\ n > 0
      /\ cur' = [kind |-> "prebuilt", reqs |-> SubSeq(waiting, 1, n)]
      /\ waiting' = SubSeq(waiting, n + 1, Len(waiting))
      /\ running' = Merged
      /\ pc' = "result"
      /\ UNCHANGED <<windowed, incoming, pre, retracted, tq, arrived, broken, last, out, len, swaFrom,
                     steps, over, fullFree, swaFree, freeSlots, death>>

\* new_tokens_required_next_decode, in pages, and check_decode_mem
NewPages(S) == Cardinality({r \in S : len[r] % Page = 0})

\* Mutant of DecodeFits: only the full pool is looked at.
DecodeFitsFull(S, full, swa) == NewPages(S) <= full

DecodeFits(S, full, swa) == NewPages(S) <= SmallerOf(full, swa)

\* retract_decode's order: most output tokens first, then shortest input.
Before(q, i, j) ==
  LET a == q[i]  b == q[j]
  IN  \/ out[a] > out[b]
      \/ out[a] = out[b] /\ InputLen[a] < InputLen[b]
      \/ out[a] = out[b] /\ InputLen[a] = InputLen[b] /\ i < j

Sorted(q) ==
  [p \in 1 .. Len(q) |->
     q[CHOOSE i \in 1 .. Len(q) : Cardinality({j \in 1 .. Len(q) : Before(q, j, i)}) = p - 1]]

\* Memory is enough for the first k of q once the others are released.
FitsKeeping(q, k) ==
  LET gone == Range(SubSeq(q, k + 1, Len(q)))
  IN  DecodeFits(Range(SubSeq(q, 1, k)), fullFree + FullHeld(gone, len), swaFree + SwaHeld(gone, len, swaFrom))

\* Requests are popped from the end of the order, one at least, until the
\* others fit or one is left.
Kept(q) == IF Len(q) = 1 THEN 1
           ELSE CHOOSE k \in 1 .. Len(q) - 1 :
                  /\ k = 1 \/ FitsKeeping(q, k)
                  /\ \A j \in k + 1 .. Len(q) - 1 : ~FitsKeeping(q, j)

\* Mutant of EvictedUpTo: the window is not subtracted.
EvictedUpToTight(r) ==
  IF steps[r] % Window = 1
  THEN AlignDown(LargerOf(swaFrom[r], InputLen[r] + out[r] - 1))
  ELSE swaFrom[r]

\* maybe_evict_swa and _evict_swa, called by alloc_for_decode
EvictedUpTo(r) ==
  IF steps[r] % Window = 1
  THEN AlignDown(LargerOf(swaFrom[r], InputLen[r] + out[r] - 1 - Window - Page))
  ELSE swaFrom[r]

\* Every request of keep gets one more token after SWA eviction; those of drop
\* (retracted) have given back their slot and pages.
AllocForDecode(keep, drop) ==
  LET evicted == SumFunctionOnSet([r \in Reqs |-> (EvictedUpTo(r) - swaFrom[r]) \div Page], keep)
  IN  /\ freeSlots' = freeSlots + Cardinality(drop)
      /\ fullFree' = fullFree + FullHeld(drop, len) - NewPages(keep)
      /\ swaFree' = swaFree + SwaHeld(drop, len, swaFrom) + evicted - NewPages(keep)
      /\ len' = [r \in Reqs |-> IF r \in drop THEN 0 ELSE IF r \in keep THEN len[r] + 1 ELSE len[r]]
      /\ swaFrom' = [r \in Reqs |-> IF r \in drop THEN 0
                                     ELSE IF r \in keep THEN EvictedUpTo(r) ELSE swaFrom[r]]
      /\ steps' = [r \in Reqs |-> IF r \in drop THEN 0 ELSE IF r \in keep THEN steps[r] + 1 ELSE steps[r]]

\* update_running_batch: retract if the next token does not fit, then
\* prepare_for_decode.
Decode ==
  LET live == Unfinished(Merged)
      fits == DecodeFits(Range(live), fullFree, swaFree)
      q == IF fits THEN live ELSE Sorted(live)
      k == IF fits THEN Len(q) ELSE Kept(q)
      keep == SubSeq(q, 1, k)
      drop == [i \in 1 .. Len(q) - k |-> q[Len(q) + 1 - i]]
  IN  /\ pc = "batch" /\ SmallerOf(Room, Len(waiting)) = 0 /\ live # <<>>
      /\ IF ~FitsKeeping(q, k) THEN Die("oom")
         ELSE
            /\ AllocForDecode(Range(keep), Range(drop))
            /\ retracted' = retracted \o drop
            /\ running' = keep
            /\ cur' = [kind |-> "decode", reqs |-> keep]
            /\ pc' = "result"
            /\ UNCHANGED <<windowed, incoming, pre, tq, arrived, broken, waiting, last, out, over, death>>

NoDecode ==
  /\ pc = "batch" /\ SmallerOf(Room, Len(waiting)) = 0 /\ Unfinished(Merged) = <<>>
  /\ running' = <<>> /\ cur' = NoBatch
  /\ pc' = "result"
  /\ UNCHANGED <<windowed, incoming, pre, retracted, tq, arrived, broken, waiting, last, out, len,
                 swaFrom, steps, over, fullFree, swaFree, freeSlots, death>>
------------------------------------------------------------------------------
(* process_batch_result, of the batch launched one iteration ago *)

\* The requests a decode result is for: not those that finished or were
\* retracted since it was launched.
Counted(q) == Range(q) \ (over \cup Range(retracted))

\* process_batch_result_decode: one more token; a request ends at
\* max_new_tokens or at a stop token.
DecodeResult(stops) ==
  LET S == Counted(last.reqs)
      fin == {r \in S : out[r] + 1 >= MaxNew[r] \/ r \in stops}
  IN  /\ out' = [r \in Reqs |-> IF r \in S THEN out[r] + 1 ELSE out[r]]
      /\ Release(fin)
      /\ over' = over \cup fin

\* process_batch_result_prebuilt: releases whatever is finished.
PrebuiltResult(stops) ==
  LET fin == {r \in Range(last.reqs) : r \in over \/ out[r] >= MaxNew[r] \/ (QuickFinish /\ r \in stops)}
  IN  /\ Release(fin)
      /\ over' = over \cup fin
      /\ UNCHANGED out

Result ==
  /\ pc = "result"
  /\ \/ last.kind = "decode" /\ \E stops \in SUBSET Range(last.reqs) : DecodeResult(stops)
     \/ last.kind = "prebuilt" /\ \E stops \in SUBSET Range(last.reqs) : PrebuiltResult(stops)
     \/ last.kind = "none" /\ UNCHANGED <<out, over, fullFree, swaFree, freeSlots, len, swaFrom>>
  /\ last' = cur /\ cur' = NoBatch
  /\ pc' = "resume"
  /\ UNCHANGED <<windowed, incoming, pre, retracted, tq, arrived, broken, waiting, running, steps, death>>

Dead == pc = "dead" /\ UNCHANGED vars

Loop == Resume \/ Prealloc \/ Transferred \/ Prebuild \/ Decode \/ NoDecode \/ Result

QueuesNext == Loop \/ (\E r \in Reqs : Receive(r) \/ TransferEnds(r)) \/ Dead

QueuesSpec == QueuesInit /\ [][QueuesNext]_vars

\* The event loop never stops, and a transfer ends at last: KVTransfer shows
\* that it is committed or aborted under the polls' timeout.
FairQueuesSpec == QueuesSpec /\ WF_vars(Loop) /\ \A r \in Reqs : WF_vars(TransferEnds(r))
------------------------------------------------------------------------------
(* Properties *)

\* The requests that hold a slot and pages.
Holders ==
  Range(tq) \cup Range(waiting)
    \cup ((Range(running) \cup Range(last.reqs) \cup Range(cur.reqs)) \ (over \cup Range(retracted)))

QueuesTypeOK ==
  /\ windowed \in BOOLEAN
  /\ pc \in {"resume", "prealloc", "transferred", "batch", "result", "dead"}
  /\ incoming \subseteq Reqs /\ over \subseteq Reqs
  /\ arrived \subseteq Range(tq) /\ broken \subseteq Range(tq)
  /\ \A q \in {pre, retracted, tq, waiting, running, last.reqs, cur.reqs} : q \in Seq(Reqs)
  /\ {last.kind, cur.kind} \subseteq {"none", "prebuilt", "decode"}
  /\ \A f \in {out, len, swaFrom, steps} : f \in [Reqs -> Nat]
  /\ fullFree \in 0 .. FullPages /\ swaFree \in 0 .. SwaPages /\ freeSlots \in 0 .. NumSlots
  /\ death \in {"none", "prealloc", "resume_prealloc", "resume_load", "oom"}

\* Slots, full pages and SWA pages are each held by a live request or free,
\* none lost and none freed twice: through prealloc, windowed tails, eviction,
\* the extra token a finished request was given by the batch already launched,
\* retraction with results outstanding, and resumption.
PoolsAccounted ==
  /\ freeSlots + Cardinality(Holders) = NumSlots
  /\ fullFree + FullHeld(Holders, len) = FullPages
  /\ swaFree + SwaHeld(Holders, len, swaFrom) = SwaPages

\* DecodeReqToTokenPool: with --max-running-requests n, at most n requests run:
\* those of the running batch and those about to join it.
RunningWithinLimit ==
  Cardinality((Range(running) \cup (IF last.kind = "prebuilt" THEN Range(last.reqs) ELSE {})
                 \cup (IF cur.kind = "prebuilt" THEN Range(cur.reqs) ELSE {})) \ over) <= MaxRunning

\* The window every decode step reads has SWA slots: neither the start of the
\* preallocated tail nor the eviction, which works with a length one result
\* behind, reaches into it.
WindowHasSwaSlots ==
  \A r \in Range(running) \ (over \cup Range(retracted)) : swaFrom[r] <= LargerOf(0, len[r] - Window)

\* A request is in one queue only.
QueuesDisjoint ==
  LET qs == <<pre, retracted, tq, waiting, Unfinished(running)>>
  IN  /\ \A i \in 1 .. Len(qs) : IsInjective(qs[i])
      /\ \A i, j \in 1 .. Len(qs) : i # j => Range(qs[i]) \cap Range(qs[j]) = {}

\* decode.py's SWA guard and token budget: _pre_alloc's "KV cache is full!
\* There is a bug in memory estimation." is never reached for a new request.
NewRequestsFit == death # "prealloc"

\* schedule_batch.py: a retracted request "is simply preempted and re-fetched
\* from P ... instead of taking down the scheduler".
RetractionKeepsServerAlive == death \notin {"resume_prealloc", "resume_load"}

\* decode.py: the budget of pop_preallocated is there because "Otherwise it is
\* possible for one request running decode out of memory, while all other
\* requests are in the transfer queue that cannot be retracted".
BudgetPreventsOutOfMemory == death = "oom" => ~(tq # <<>> /\ waiting = <<>>)

\* Every request that arrives finishes or is aborted, however often it is
\* retracted, unless the scheduler dies.
EveryRequestEnds == \A r \in Reqs : r \notin incoming ~> (r \in over \/ pc = "dead")
=============================================================================
