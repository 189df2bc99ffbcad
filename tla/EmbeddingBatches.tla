---------------------------- MODULE EmbeddingBatches ----------------------------
(***************************************************************************)
(* How a reindex embeds its documents: the request's goroutine offers one  *)
(* batch after the other on an unbuffered channel, at most                 *)
(* embeddingBatchConcurrency workers take them, and the first that fails   *)
(* cancels the rest and leaves.  The embedding service answers, fails or   *)
(* runs into its time limit, and the request may be cancelled.             *)
(***************************************************************************)
EXTENDS Naturals, FiniteSets

CONSTANTS Batches,   \* the number of batches
          EWorker    \* the workers, at most embeddingBatchConcurrency

ASSUME SomeBatches == Batches \in Nat \ {0}

VARIABLES
  offer,      \* the batch the sender offers next
  sender,     \* "sending", "waiting" (the channel is closed), or how it ended
  holds,      \* the batch each worker embeds: 0 for none, Batches + 1 once it left
  embedded,   \* the batches whose vectors were stored
  cancelled,  \* workerCtx is done
  failed      \* errCh holds an error

batchVars == <<offer, sender, holds, embedded, cancelled, failed>>

Gone == Batches + 1

BatchInit == /\ offer = 1 /\ sender = "sending" /\ holds = [w \in EWorker |-> 0]
             /\ embedded = {} /\ cancelled = FALSE /\ failed = FALSE

Holds(w, b) == holds' = [holds EXCEPT ![w] = b]

Hand(w) ==
  /\ sender = "sending" /\ offer <= Batches /\ holds[w] = 0
  /\ Holds(w, offer) /\ offer' = offer + 1
  /\ UNCHANGED <<sender, embedded, cancelled, failed>>

\* Mutant: the sender waits for a worker only.
CloseJobsWhenSent ==
  /\ sender = "sending" /\ offer > Batches
  /\ sender' = "waiting"
  /\ UNCHANGED <<offer, holds, embedded, cancelled, failed>>

(* The sender waits for a worker or for the cancellation.                  *)
CloseJobs ==
  /\ sender = "sending" /\ (offer > Batches \/ cancelled)
  /\ sender' = "waiting"
  /\ UNCHANGED <<offer, holds, embedded, cancelled, failed>>

Embed(w) ==
  /\ holds[w] \in 1..Batches
  /\ embedded' = embedded \cup {holds[w]} /\ Holds(w, 0)
  /\ UNCHANGED <<offer, sender, cancelled, failed>>

(* Only the first error is kept.                                           *)
FailBatch(w) ==
  /\ holds[w] \in 1..Batches
  /\ failed' = TRUE /\ cancelled' = TRUE /\ Holds(w, Gone)
  /\ UNCHANGED <<offer, sender, embedded>>

LeaveWorker(w) ==
  /\ sender = "waiting" /\ holds[w] = 0
  /\ Holds(w, Gone)
  /\ UNCHANGED <<offer, sender, embedded, cancelled, failed>>

CancelRequest ==
  /\ sender \in {"sending", "waiting"} /\ cancelled' = TRUE
  /\ UNCHANGED <<offer, sender, holds, embedded, failed>>

(* Without an error the context decides: a sender that gave up did so      *)
(* because the context was done.                                           *)
Verdict == IF failed \/ cancelled THEN "failed" ELSE "done"

EndBatches ==
  /\ sender = "waiting" /\ \A w \in EWorker : holds[w] = Gone
  /\ sender' = Verdict
  /\ UNCHANGED <<offer, holds, embedded, cancelled, failed>>

BatchNext == \/ \E w \in EWorker : Hand(w) \/ Embed(w) \/ FailBatch(w) \/ LeaveWorker(w)
             \/ CloseJobs \/ CancelRequest \/ EndBatches

(* The goroutines run, and the embedding service's client has a time limit. *)
BatchFairness ==
  /\ WF_batchVars(CloseJobs) /\ WF_batchVars(EndBatches)
  /\ \A w \in EWorker : /\ WF_batchVars(Hand(w)) /\ WF_batchVars(LeaveWorker(w))
                         /\ WF_batchVars(Embed(w) \/ FailBatch(w))

BatchSpec == BatchInit /\ [][BatchNext]_batchVars /\ BatchFairness
--------------------------------------------------------------------------------
BatchTypeOK ==
  /\ offer \in 1..Gone /\ sender \in {"sending", "waiting", "failed", "done"}
  /\ holds \in [EWorker -> 0..Gone] /\ embedded \subseteq 1..Batches
  /\ cancelled \in BOOLEAN /\ failed \in BOOLEAN

(* A reindex that goes on has a vector for every document: no batch was    *)
(* dropped because a worker had left or the request was cancelled.         *)
BatchesComplete == sender = "done" => embedded = 1..Batches

(* The request comes back, and not without a vector: neither the sender    *)
(* nor the wait for the workers can be left hanging, whichever of them     *)
(* failed and in whichever order.                                          *)
EmbeddingEnds == <>(sender \in {"failed", "done"} /\ BatchesComplete)
=================================================================================
