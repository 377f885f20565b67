------------------------------ MODULE KVHandoff ------------------------------
(***************************************************************************)
(* What the hand-off of a request's KV cache from the prefill server to    *)
(* the decode server promises, with no ranks, messages, polls or faults:   *)
(* pages are reserved for a request while nobody else has them, parts of   *)
(* its history arrive, and the request is delivered to the decode loop     *)
(* only once everything that is required of its history has arrived; or it *)
(* is given up.  Reserved pages stay its own until it is given up or done. *)
(***************************************************************************)
CONSTANTS Reqs, Pages,
          Required   \* the parts of its history each request must have

VARIABLES stage,     \* new, reserved, delivered, gone
          owns,      \* the pages of each request
          arrived    \* the parts that have arrived, while they are awaited

handoffVars == <<stage, owns, arrived>>

HandoffInit ==
  /\ stage = [r \in Reqs |-> "new"]
  /\ owns = [r \in Reqs |-> {}]
  /\ arrived = [r \in Reqs |-> {}]

\* The requests R get pages, the requests G are given up before they had any.
Reserve(R, G) ==
  /\ R \cap G = {}
  /\ \A r \in R \cup G : stage[r] = "new"
  /\ stage' = [r \in Reqs |-> IF r \in R THEN "reserved" ELSE IF r \in G THEN "gone" ELSE stage[r]]
  /\ \A r \in R, q \in Reqs : r # q => owns'[r] \cap owns'[q] = {}
  /\ \A q \in Reqs \ R : owns'[q] = owns[q]
  /\ UNCHANGED arrived

Arrive(r) ==
  /\ stage[r] = "reserved"
  /\ \A q \in Reqs : arrived[q] \subseteq arrived'[q] /\ (q # r => arrived'[q] = arrived[q])
  /\ UNCHANGED <<stage, owns>>

\* The requests D enter the decode loop, the requests G are given up.
Conclude(D, G) ==
  /\ D \cap G = {}
  /\ \A r \in D : stage[r] = "reserved" /\ Required[r] \subseteq arrived[r]
  /\ \A r \in G : stage[r] = "reserved"
  /\ stage' = [r \in Reqs |-> IF r \in D THEN "delivered" ELSE IF r \in G THEN "gone" ELSE stage[r]]
  /\ owns' = [r \in Reqs |-> IF r \in G THEN {} ELSE owns[r]]
  /\ arrived' = [r \in Reqs |-> IF r \in D \cup G THEN {} ELSE arrived[r]]

Release(r) ==
  /\ stage[r] = "delivered"
  /\ stage' = [stage EXCEPT ![r] = "gone"]
  /\ owns' = [owns EXCEPT ![r] = {}]
  /\ UNCHANGED arrived

HandoffNext ==
  \/ \E R, G \in SUBSET Reqs : Reserve(R, G)
  \/ \E r \in Reqs : Arrive(r) \/ Release(r)
  \/ \E D, G \in SUBSET Reqs : Conclude(D, G)

HandoffSpec == HandoffInit /\ [][HandoffNext]_handoffVars
=============================================================================
