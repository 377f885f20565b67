---------------------------- MODULE TrainingDump ----------------------------
(***************************************************************************)
(* The production of retriever training data.  A client script             *)
(* (data_generation/run_dump_training_data.py) drives a tracker that lives *)
(* inside the model server (models/deepseek_v4.py): the client writes a    *)
(* command file and sends ordinary requests; the tracker looks at the      *)
(* command file in every CSA layer of every forward pass, keeps one state  *)
(* per request it sees, and appends a document to the output directory     *)
(* when a request stops appearing or the client switches the mode to none. *)
(* A batch takes two rounds: the first generates answers concurrently and  *)
(* records hidden states and labels, the second sends prompt and answer    *)
(* again, one request at a time, to record the complete compressed K,      *)
(* which the client then merges into the documents of the first round.     *)
(* Nothing but the two files and the HTTP answers connects the two         *)
(* processes.                                                              *)
(***************************************************************************)
EXTENDS Integers, Sequences, FiniteSets, SequencesExt

CONSTANTS NItems,       \* documents of the input file
          BatchSize,    \* --batch-size
          Concurrency,  \* --concurrency, the worker threads of round 1
          NLayers,      \* _total_csa_layers
          NHi,          \* short requests sent to make the server read "none"
          MaxPreempts,  \* bound on retractions and partial prefills
          MaxFaults     \* bound on failed or abandoned requests

AbsentLimit == 3

ASSUME DumpAssumption == /\ {NItems, BatchSize, Concurrency, NHi} \subseteq Nat \ {0}
                         /\ {MaxPreempts, MaxFaults} \subseteq Nat
                         /\ NLayers \in Nat /\ NLayers >= AbsentLimit

Items == 1 .. NItems
Dirs  == {"main", "compk"}

VARIABLES pc, batch, counter, todo, open, index, order, pos, his, held, \* client
          cmd, fresh, files, json,                                      \* file system
          tracker,                                                      \* server: tracker
          waiting, running, cur, last, layer, finished,                 \* server: scheduler
          preempts, faults, faulted                                     \* bounds and history

clientVars  == <<pc, batch, counter, todo, open, index, order, pos, his, held>>
fileVars    == <<cmd, fresh, files, json>>
serverVars  == <<waiting, running, cur, last, layer, finished, preempts>>
historyVars == <<faults, faulted>>
vars == <<clientVars, fileVars, tracker, serverVars, historyVars>>

\* A request: the phase that sends it, the document it is about (the batch,
\* for the short requests), its position in a serial phase and, when the HTTP
\* client sends it again, the number of the attempt.
Rid(i, n) == [round |-> pc, item |-> i, n |-> n, try |-> 0]

NoForward == [kind |-> "none", reqs |-> <<>>, full |-> <<>>]
NoFiles   == [pkl |-> <<>>, lines |-> <<>>]
Without(s, S) == SelectSeq(s, LAMBDA r : r \notin S)

DumpInit ==
    /\ pc = "begin" /\ batch = 0 /\ counter = 0 /\ todo = {} /\ open = {}
    /\ index = {} /\ order = <<>> /\ pos = 0 /\ his = 0 /\ held = [d \in Dirs |-> <<>>]
    /\ cmd = [mode |-> "none", dir |-> "main", start |-> 0] /\ fresh = FALSE
    /\ files = [d \in Dirs |-> NoFiles] /\ json = <<>>
    /\ tracker = [active |-> FALSE, dir |-> "main", counter |-> 0, states |-> <<>>]
    /\ waiting = <<>> /\ running = <<>> /\ cur = NoForward /\ last = NoForward
    /\ layer = 0 /\ finished = {} /\ preempts = 0 /\ faults = 0 /\ faulted = {}

-----------------------------------------------------------------------------
(***************************************************************************)
(* The tracker.                                                            *)
(***************************************************************************)

\* A state that has not seen a whole decode token has first_n_blocks = 0, a
\* short request at most 2: the flush drops both.
FlushOneTrainingState(fs, s) ==
    IF s.tokens = 0 \/ s.rid.round \in {"hi1", "hi2"} THEN fs
    ELSE [fs EXCEPT
            ![s.dir].pkl   = (s.doc :> [rid |-> s.rid, compk |-> s.rid]) @@ @,
            ![s.dir].lines = Append(@, [doc |-> s.doc, rid |-> s.rid])]

Flushed(fs, states) == FoldLeft(FlushOneTrainingState, fs, states)

\* The command file is read when its mtime is newer than the last one read.
CmdIsNew == fresh

\* A file that is empty because the client is about to fill it reads as "none".
ReadMode == IF pc \in {"write1", "write2"} THEN "none" ELSE cmd.mode

\* "none" flushes every state that is left; a dump command drops them.
MaybeInit(t) ==
    IF ~CmdIsNew THEN t
    ELSE IF ReadMode = "none"
    THEN [t EXCEPT !.active = FALSE, !.states = IF t.active THEN <<>> ELSE @]
    ELSE [active |-> TRUE, dir |-> cmd.dir, counter |-> cmd.start, states |-> <<>>]

\* Mutant of InitFlushes: the switch to "none" does not flush.
InitFlushesNothing(t) == <<>>

InitFlushes(t) == IF CmdIsNew /\ ReadMode = "none" /\ t.active THEN t.states ELSE <<>>

\* Mutant of GetOrCreate: a state is made without looking for one.
CreateAlways(t, r) ==
    [t EXCEPT !.counter = @ + 1,
              !.states  = Append(@, [rid |-> r, doc |-> t.counter, dir |-> t.dir,
                                     seen |-> 0, tokens |-> 0, absent |-> 0])]

\* The document number and directory are fixed when the state is created.
GetOrCreate(t, r) ==
    IF \E k \in DOMAIN t.states : t.states[k].rid = r THEN t
    ELSE [t EXCEPT !.counter = @ + 1,
                   !.states  = Append(@, [rid |-> r, doc |-> t.counter, dir |-> t.dir,
                                          seen |-> 0, tokens |-> 0, absent |-> 0])]

\* Mutant of CountLayer: the counter wraps one layer late.
CountLayerLate(s, kind) ==
    IF s.seen + 1 <= NLayers THEN [s EXCEPT !.seen = @ + 1]
    ELSE [s EXCEPT !.seen = 0, !.tokens = IF kind = "decode" THEN 1 ELSE @]

CountLayer(s, kind) ==
    IF s.seen + 1 < NLayers THEN [s EXCEPT !.seen = @ + 1]
    ELSE [s EXCEPT !.seen = 0, !.tokens = IF kind = "decode" THEN 1 ELSE @]

\* What one hook call does to a state: a request of the batch counts a layer;
\* in a decode pass every other one is absent once more.
Observe(s, f) ==
    IF s.rid \in ToSet(f.reqs)
    THEN LET c == CountLayer(s, f.kind)
         IN IF f.kind = "decode" THEN [c EXCEPT !.absent = 0] ELSE c
    ELSE IF f.kind = "decode" THEN [s EXCEPT !.absent = @ + 1] ELSE s

Observed(t, f) ==
    LET c == FoldLeft(GetOrCreate, t, f.reqs)
    IN [c EXCEPT !.states = [k \in DOMAIN @ |-> Observe(@[k], f)]]

Gone(states) == SelectSeq(states, LAMBDA s : s.absent >= AbsentLimit)
Kept(states) == SelectSeq(states, LAMBDA s : s.absent < AbsentLimit)

\* One CSA layer: _make_score_hook reads the command, then the hook runs.
ScoreHook ==
    LET t == MaybeInit(tracker)
        o == IF t.active THEN Observed(t, cur) ELSE t
    IN /\ files' = Flushed(Flushed(files, InitFlushes(tracker)), Gone(o.states))
       /\ tracker' = [o EXCEPT !.states = Kept(@)]
       /\ fresh' = FALSE
       /\ UNCHANGED <<cmd, json>>

-----------------------------------------------------------------------------
(***************************************************************************)
(* The server's overlapped loop: the next pass is launched, hooks included,*)
(* before the results of the previous one are processed.                   *)
(***************************************************************************)

\* The running batch after the last prefill is merged into it and the
\* finished requests are filtered out.
Live == Without(running \o (IF last.kind = "prefill" THEN last.full ELSE <<>>), finished)

Launch(kind, reqs, full) ==
    /\ cur' = [kind |-> kind, reqs |-> reqs, full |-> full]
    /\ layer' = 1
    /\ UNCHANGED <<last, finished, clientVars, fileVars, tracker, historyVars>>

\* A prefill batch from the head of the queue; its last request may be cut
\* to a chunk and continues at the head of the queue.
LaunchPrefill ==
    /\ layer = 0
    /\ \E n \in 1 .. Len(waiting), cut \in 0 .. 1 :
          /\ preempts + cut <= MaxPreempts
          /\ preempts' = preempts + cut
          /\ waiting' = SubSeq(waiting, n + 1 - cut, Len(waiting))
          /\ running' = Live
          /\ Launch("prefill", SubSeq(waiting, 1, n), SubSeq(waiting, 1, n - cut))

\* A decode pass over the running batch; when memory is short some of its
\* requests, never all, are retracted to the end of the queue first.
LaunchDecode ==
    /\ layer = 0
    /\ \E out \in SUBSET ToSet(Live) :
          /\ out # ToSet(Live)
          /\ preempts + Cardinality(out) <= MaxPreempts
          /\ preempts' = preempts + Cardinality(out)
          /\ running' = Without(Live, out)
          /\ waiting' = waiting \o SelectSeq(Live, LAMBDA r : r \in out)
          /\ Launch("decode", running', running')

\* Nothing to launch: the last results are processed and the loop idles.
Settle ==
    /\ layer = 0 /\ waiting = <<>> /\ Live = <<>> /\ last # NoForward
    /\ last' = NoForward
    /\ running' = <<>>
    /\ UNCHANGED <<waiting, cur, layer, finished, preempts, clientVars, fileVars,
                   tracker, historyVars>>

\* The requests the results of the last pass may end: those of round 2 and
\* the short ones have max_tokens = 1 and end with their prefill; an answer of
\* round 1 has at least two tokens.  Retracted requests are skipped.
Eligible == ToSet(last.full) \ (finished \cup ToSet(waiting))
MustEnd  == {r \in Eligible : r.round # "round1"}
MayEnd   == IF last.kind = "decode" THEN Eligible ELSE MustEnd

Layer ==
    /\ layer \in 1 .. NLayers
    /\ ScoreHook
    /\ IF layer < NLayers
       THEN /\ layer' = layer + 1
            /\ UNCHANGED <<cur, last, finished>>
       ELSE /\ layer' = 0
            /\ \E done \in SUBSET MayEnd : MustEnd \subseteq done
                                           /\ finished' = finished \cup done
            /\ last' = cur
            /\ cur' = NoForward
    /\ UNCHANGED <<waiting, running, preempts, clientVars, historyVars>>

-----------------------------------------------------------------------------
(***************************************************************************)
(* The client.                                                             *)
(***************************************************************************)

Fault(kind) == /\ faults < MaxFaults
               /\ faults' = faults + 1
               /\ faulted' = faulted \cup {kind}

Arrives(r) ==
    /\ waiting' = Append(waiting, r)
    /\ open' = open \cup {r}
    /\ UNCHANGED <<running, cur, last, layer, finished, preempts>>

\* Mutant of NextDoc: the last number is used again.
NextDocSame(lines) == IF lines = <<>> THEN 0 ELSE Max({l.doc : l \in ToSet(lines)})

\* The first number after the documents that metadata already lists.
NextDoc(lines) == IF lines = <<>> THEN 0 ELSE Max({l.doc : l \in ToSet(lines)}) + 1

BeginBatch ==
    /\ pc = "begin" /\ batch * BatchSize < NItems
    /\ counter' = NextDoc(files["main"].lines)
    /\ pc' = "cmd1"
    /\ UNCHANGED <<batch, todo, open, index, order, pos, his, held, fileVars, tracker,
                   serverVars, historyVars>>

\* write_cmd opens the file, which empties it and gives it a new mtime, and
\* then fills it.
StartRound1 ==
    /\ pc = "cmd1"
    /\ fresh' = TRUE
    /\ todo' = {i \in Items : i > batch * BatchSize /\ i <= (batch + 1) * BatchSize}
    /\ index' = {}
    /\ pc' = "write1"
    /\ UNCHANGED <<batch, counter, open, order, pos, his, held, cmd, files, json, tracker,
                   serverVars, historyVars>>

\* The command is in the file; if the clock has not ticked since the file was
\* emptied, its mtime is still the one that a layer may have seen.
WriteCmd ==
    /\ pc \in {"write1", "write2"}
    /\ cmd' = [mode |-> "dump", dir |-> IF pc = "write1" THEN "main" ELSE "compk",
               start |-> counter]
    /\ fresh' \in {TRUE, fresh}
    /\ pc' = IF pc = "write1" THEN "round1" ELSE "round2"
    /\ UNCHANGED <<batch, counter, todo, open, index, order, pos, his, held, files, json,
                   tracker, serverVars, historyVars>>

\* A worker thread takes the next document and sends it, or its request fails
\* before it reaches the scheduler.
Submit ==
    /\ pc = "round1" /\ todo # {} /\ Cardinality(open) < Concurrency
    /\ todo' = todo \ {Min(todo)}
    /\ \/ Arrives(Rid(Min(todo), 0)) /\ UNCHANGED historyVars
       \/ Fault("round1") /\ UNCHANGED <<open, serverVars>>
    /\ UNCHANGED <<pc, batch, counter, index, order, pos, his, held, fileVars, tracker>>

\* The answer comes back; round 2 and the short requests are serial.
Receive ==
    \E r \in open \cap finished :
       /\ open' = open \ {r}
       /\ index' = IF pc = "round1" THEN index \cup {r} ELSE index
       /\ pos' = IF pc = "round2" THEN pos + 1 ELSE pos
       /\ his' = IF pc \in {"hi1", "hi2"} THEN his + 1 ELSE his
       /\ UNCHANGED <<pc, batch, counter, todo, order, held, fileVars, tracker, serverVars,
                      historyVars>>

\* The client gives up on a request (timeout, broken connection) that the
\* server goes on running; of the short requests the script does not even
\* report it.
LeftBehind == IF pc \in {"hi1", "hi2"} THEN "late" ELSE "abandon"

Abandon ==
    /\ \E r \in open : open' = open \ {r}
    /\ pos' = IF pc = "round2" THEN pos + 1 ELSE pos
    /\ his' = IF pc \in {"hi1", "hi2"} THEN his + 1 ELSE his
    /\ Fault(LeftBehind)
    /\ UNCHANGED <<pc, batch, counter, todo, index, order, held, fileVars, tracker,
                   serverVars>>

\* The HTTP client sends a request again whose answer did not come; the server
\* gives the copy a rid of its own and runs both.
Resend ==
    /\ \E r \in open :
          LET again == [r EXCEPT !.try = @ + 1]
          IN /\ open' = (open \ {r}) \cup {again}
             /\ waiting' = Append(waiting, again)
    /\ Fault(LeftBehind)
    /\ UNCHANGED <<pc, batch, counter, todo, index, order, pos, his, held, fileVars, tracker,
                   running, cur, last, layer, finished, preempts>>

RoundOver == \/ pc = "round1" /\ todo = {} /\ open = {}
             \/ pc = "round2" /\ pos > Len(order)

\* An empty file reads as "none" too, so this write is one step.
EndRound ==
    /\ RoundOver
    /\ cmd' = [cmd EXCEPT !.mode = "none"]
    /\ fresh' = TRUE
    /\ his' = 0
    /\ pc' = IF pc = "round1" THEN "hi1" ELSE "hi2"
    /\ UNCHANGED <<batch, counter, todo, open, index, order, pos, held, files, json, tracker,
                   serverVars, historyVars>>

\* The short requests that make the server look at the command file; their
\* failures are ignored.
SendHi ==
    /\ pc \in {"hi1", "hi2"} /\ open = {} /\ his < NHi
    /\ \/ Arrives(Rid(batch, his)) /\ UNCHANGED <<his, historyVars>>
       \/ Fault("hi") /\ his' = his + 1 /\ UNCHANGED <<open, serverVars>>
    /\ UNCHANGED <<pc, batch, counter, todo, index, order, pos, held, fileVars, tracker>>

\* The wait for metadata ends when enough lines are there or after ten tries,
\* and the client goes on in either case: it takes the lines of this batch
\* whose rid has an answer, and writes a .json for each.
ReadBatch ==
    /\ pc = "hi1" /\ open = {} /\ his = NHi
    /\ order' = SelectSeq(files["main"].lines, LAMBDA l : l.doc >= counter /\ l.rid \in index)
    /\ json' = [d \in {l.doc : l \in ToSet(order')} |->
                  LET newest == Max({k \in DOMAIN order' : order'[k].doc = d})
                  IN order'[newest].rid.item] @@ json
    /\ pc' = "cmd2"
    /\ UNCHANGED <<batch, counter, todo, open, index, pos, his, held, cmd, fresh, files,
                   tracker, serverVars, historyVars>>

\* Mutant of StartRound2: the second directory is not emptied.
StartRound2Keeps ==
    /\ pc = "cmd2"
    /\ fresh' = TRUE
    /\ pos' = 1
    /\ pc' = "write2"
    /\ UNCHANGED <<batch, counter, todo, open, index, order, his, held, cmd, files, json, tracker,
                   serverVars, historyVars>>

\* The second directory starts empty.
StartRound2 ==
    /\ pc = "cmd2"
    /\ files' = [files EXCEPT !["compk"] = NoFiles]
    /\ fresh' = TRUE
    /\ pos' = 1
    /\ pc' = "write2"
    /\ UNCHANGED <<batch, counter, todo, open, index, order, his, held, cmd, json, tracker,
                   serverVars, historyVars>>

SendCompk ==
    /\ pc = "round2" /\ open = {} /\ pos <= Len(order)
    /\ \/ Arrives(Rid(order[pos].rid.item, pos)) /\ UNCHANGED <<pos, historyVars>>
       \/ Fault("round2") /\ pos' = pos + 1 /\ UNCHANGED <<open, serverVars>>
    /\ UNCHANGED <<pc, batch, counter, todo, index, order, his, held, fileVars, tracker>>

\* The client reads the metadata of both directories.  Without a second one
\* nothing is merged; without a first one the script dies on the missing file.
ReadMetadata ==
    /\ pc = "hi2" /\ open = {} /\ his = NHi
    /\ IF files["compk"].lines = <<>>
       THEN pc' = "begin" /\ batch' = batch + 1 /\ UNCHANGED held
       ELSE IF files["main"].lines = <<>>
       THEN pc' = "died" /\ UNCHANGED <<batch, held>>
       ELSE /\ pc' = "merge"
            /\ held' = [d \in Dirs |-> files[d].lines]
            /\ UNCHANGED batch
    /\ UNCHANGED <<counter, todo, open, index, order, pos, his, fileVars, tracker,
                   serverVars, historyVars>>

\* Line ci of the second directory is merged into the ci-th document of order.
MergedInto(pkl, ci) ==
    LET doc == order[ci].doc
        src == held["compk"][ci].doc
    IN IF doc \in DOMAIN pkl /\ src \in DOMAIN files["compk"].pkl
       THEN [pkl EXCEPT ![doc].compk = files["compk"].pkl[src].compk]
       ELSE pkl

\* The lines read are written back: one the server appended meanwhile is lost.
Merge ==
    /\ pc = "merge"
    /\ files' = [files EXCEPT !["main"].pkl =
                   FoldLeft(MergedInto, @,
                            [ci \in 1 .. Min({Len(order), Len(held["compk"])}) |-> ci]),
                              !["main"].lines = held["main"]]
    /\ held' = [d \in Dirs |-> <<>>]
    /\ batch' = batch + 1
    /\ pc' = "begin"
    /\ UNCHANGED <<counter, todo, open, index, order, pos, his, cmd, fresh, json, tracker,
                   serverVars, historyVars>>

\* After the last batch metadata is read, sorted by document number and
\* written back.
ReadFinal ==
    /\ pc = "begin" /\ batch * BatchSize >= NItems
    /\ held' = [held EXCEPT !["main"] = files["main"].lines]
    /\ pc' = IF files["main"].lines = <<>> THEN "done" ELSE "sort"
    /\ UNCHANGED <<batch, counter, todo, open, index, order, pos, his, fileVars, tracker,
                   serverVars, historyVars>>

Finish ==
    /\ pc = "sort"
    /\ files' = [files EXCEPT !["main"].lines =
                   SortSeq(held["main"], LAMBDA a, b : a.doc < b.doc)]
    /\ held' = [d \in Dirs |-> <<>>]
    /\ pc' = "done"
    /\ UNCHANGED <<batch, counter, todo, open, index, order, pos, his, cmd, fresh, json,
                   tracker, serverVars, historyVars>>

Client == \/ BeginBatch \/ StartRound1 \/ WriteCmd \/ Submit \/ Receive \/ Abandon
          \/ Resend \/ EndRound \/ SendHi \/ ReadBatch \/ StartRound2 \/ SendCompk
          \/ ReadMetadata \/ Merge \/ ReadFinal \/ Finish
Server == LaunchPrefill \/ LaunchDecode \/ Settle \/ Layer

\* The script has ended and the server has nothing left to run.
Done == /\ pc \in {"done", "died"} /\ layer = 0 /\ waiting = <<>> /\ Live = <<>> /\ last = NoForward
        /\ UNCHANGED vars

Next == Client \/ Server \/ Done
Spec == DumpInit /\ [][Next]_vars
-----------------------------------------------------------------------------
(***************************************************************************)
(* Properties.                                                             *)
(***************************************************************************)

\* The type of the tracker: numbered states of distinct requests, layer and
\* absence counters below the values at which the code resets or flushes them.
DumpTypeOK ==
    /\ pc \in {"begin", "cmd1", "write1", "round1", "hi1", "cmd2", "write2", "round2",
              "hi2", "merge", "sort", "done", "died"}
    /\ layer \in 0 .. NLayers /\ his \in 0 .. NHi
    /\ tracker.active \in BOOLEAN /\ tracker.dir \in Dirs
    /\ \A k \in DOMAIN tracker.states :
          LET s == tracker.states[k]
          IN /\ s.seen \in 0 .. NLayers - 1 /\ s.absent \in 0 .. AbsentLimit - 1
             /\ s.doc < tracker.counter
             /\ \A m \in DOMAIN tracker.states : m # k => tracker.states[m].rid # s.rid

\* A document number is given to one flush only: no document of the output
\* directory is written over by another request, in this batch or a later one,
\* and the .json beside a document describes the request whose hidden states
\* and labels the document holds.
NumbersAreUsedOnce ==
    /\ \A i, j \in DOMAIN files["main"].lines :
          i # j => files["main"].lines[i].doc # files["main"].lines[j].doc
    /\ \A l \in ToSet(files["main"].lines) : files["main"].pkl[l.doc].rid = l.rid
    /\ \A d \in DOMAIN json : json[d] = files["main"].pkl[d].rid.item

\* NumbersAreUsedOnce holds though any number of requests fail, or any number
\* are left running by the client, but not with both a request left running
\* and a short request without an answer: then the server may read "none" only
\* after the client has taken the first number of the next batch.
DocumentsAreWrittenOnce ==
    \/ faulted \cap {"abandon", "late"} # {} /\ faulted \cap {"hi", "late"} # {}
    \/ NumbersAreUsedOnce

\* The comment above the merge: line i of round 2 is document i of the order
\* of processing, so the compressed K merged into a document is that of the
\* document's own prompt and answer.
MergedIsOwn ==
    \A d \in DOMAIN files["main"].pkl :
       files["main"].pkl[d].compk.item = files["main"].pkl[d].rid.item

\* MergedIsOwn holds in every batch of a run in which no request of round 2
\* failed and no request was abandoned, even if round 1 lost requests, the
\* short requests were lost, requests were retracted or prefills were cut.
MergedIsOwnWhenServed ==
    faulted \cap {"round2", "abandon"} = {} => MergedIsOwn

\* Once a batch is merged, every request of it that was answered has a
\* document with its .json and the complete compressed K of round 2, unless a
\* request of round 2 failed, one was abandoned, or no short request got
\* through.
AnsweredAreComplete ==
    (pc = "begin" /\ faulted \subseteq {"round1"}) =>
       \A r \in index :
          \E l \in ToSet(files["main"].lines) :
             /\ l.rid = r
             /\ l.doc \in DOMAIN json
             /\ files["main"].pkl[l.doc].compk.round = "round2"

\* The per-request layer counter names the layer that is running: what is
\* recorded as layer k is layer k's.  The tracker counts hook calls, so a
\* state made or dropped in the middle of a pass would be off for good.
CountersAligned ==
    \A k \in DOMAIN tracker.states :
       LET s == tracker.states[k]
       IN s.seen = IF layer > 0 /\ s.rid \in ToSet(cur.reqs) THEN layer - 1 ELSE 0

\* CountersAligned holds unless the client left a request running, which may
\* then be in the middle of a pass when the client switches the command.
LayersAligned == faulted \cap {"abandon", "late"} = {} => CountersAligned
=============================================================================
