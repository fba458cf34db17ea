--------------------------- MODULE BullQueue_proofs ---------------------------
(***************************************************************************)
(* Lemmas about the queue's operations, for any set of job ids and any     *)
(* limits: each keeps the queue well typed and touches no job but its own. *)
(***************************************************************************)
EXTENDS BullQueue, TLAPS

\* The queue starts well typed.
LEMMA QueueTypeInit == QueueInit => QueueTypeOK
BY LimitsAssumption DEF QueueInit, QueueTypeOK, Place

LEMMA RemoveType ==
  ASSUME QueueTypeOK, NEW k \in JobId, Remove(k)
  PROVE  QueueTypeOK'
<1>1. 0 \in 0 .. MaxAttempts /\ 0 \in 0 .. MaxStalledCount
  BY LimitsAssumption
<1> QED BY <1>1 DEF QueueTypeOK, Remove, Place

LEMMA AddType ==
  ASSUME QueueTypeOK, NEW k \in JobId, NEW data \in Payload, Add(k, data)
  PROVE  QueueTypeOK'
BY DEF QueueTypeOK, Add, Place, queueVars

LEMMA TakeType ==
  ASSUME QueueTypeOK, NEW k \in JobId, Take(k)
  PROVE  QueueTypeOK'
BY DEF QueueTypeOK, Take, Place

LEMMA PromoteType ==
  ASSUME QueueTypeOK, NEW k \in JobId, Promote(k)
  PROVE  QueueTypeOK'
BY DEF QueueTypeOK, Promote, Place

\* The count of failed attempts stays within MaxAttempts, because a job that
\* reaches it is removed.
LEMMA FailAttemptType ==
  ASSUME QueueTypeOK, NEW k \in JobId, FailAttempt(k)
  PROVE  QueueTypeOK'
<1>1. CASE Remove(k)
  BY <1>1, RemoveType
<1>2. CASE ~Remove(k)
  <2>1. attemptsMade[k] \in 0 .. MaxAttempts
    BY DEF QueueTypeOK
  <2>2. /\ ~IsLastAttempt(k)
        /\ place' = [place EXCEPT ![k] = "delayed"]
        /\ attemptsMade' = [attemptsMade EXCEPT ![k] = @ + 1]
        /\ payload' = payload /\ stalledCount' = stalledCount
    BY <1>2 DEF FailAttempt
  <2>3. attemptsMade[k] + 1 \in 0 .. MaxAttempts
    BY <2>1, <2>2, LimitsAssumption DEF IsLastAttempt
  <2>4. attemptsMade' \in [JobId -> 0 .. MaxAttempts]
    BY <2>2, <2>3 DEF QueueTypeOK
  <2> QED BY <2>2, <2>4 DEF QueueTypeOK, Place
<1> QED BY <1>1, <1>2

\* The count of stalls stays within MaxStalledCount.
LEMMA StallType ==
  ASSUME QueueTypeOK, NEW k \in JobId, Stall(k)
  PROVE  QueueTypeOK'
<1>1. CASE Remove(k)
  BY <1>1, RemoveType
<1>2. CASE ~Remove(k) /\ stalledCount[k] < MaxStalledCount
  <2>1. stalledCount[k] \in 0 .. MaxStalledCount
    BY DEF QueueTypeOK
  <2>2. stalledCount[k] + 1 \in 0 .. MaxStalledCount
    BY <1>2, <2>1, LimitsAssumption
  <2>3. /\ place' = [place EXCEPT ![k] = "waiting"]
        /\ stalledCount' = [stalledCount EXCEPT ![k] = @ + 1]
        /\ payload' = payload /\ attemptsMade' = attemptsMade
    BY <1>2, <2>1, LimitsAssumption DEF Stall
  <2>4. stalledCount' \in [JobId -> 0 .. MaxStalledCount]
    BY <2>2, <2>3 DEF QueueTypeOK
  <2> QED BY <2>3, <2>4 DEF QueueTypeOK, Place
<1>3. CASE ~Remove(k) /\ ~(stalledCount[k] < MaxStalledCount)
  <2>1. /\ place' = [place EXCEPT ![k] = "failed"]
        /\ payload' = payload /\ attemptsMade' = attemptsMade
        /\ stalledCount' = stalledCount
    BY <1>3 DEF Stall
  <2> QED BY <2>1 DEF QueueTypeOK, Place
<1> QED BY <1>1, <1>2, <1>3

\* An operation on one job leaves the place and the data of the others alone.
LEMMA OtherJobsUntouched ==
  ASSUME QueueTypeOK, NEW k \in JobId, NEW other \in JobId, other # k,
         Take(k) \/ Promote(k) \/ Stall(k) \/ FailAttempt(k) \/ Complete(k)
  PROVE  place'[other] = place[other] /\ payload'[other] = payload[other]
<1>1. CASE Take(k) \/ Promote(k)
  BY <1>1 DEF QueueTypeOK, Take, Promote
<1>2. CASE Remove(k)
  BY <1>2 DEF QueueTypeOK, Remove
<1>3. CASE ~Remove(k) /\ (Stall(k) \/ FailAttempt(k))
  BY <1>3 DEF QueueTypeOK, Stall, FailAttempt
<1> QED BY <1>1, <1>2, <1>3 DEF Complete

\* A delivery changes the place or the data of no job that exists.
LEMMA AddLeavesJobsAlone ==
  ASSUME QueueTypeOK, NEW k \in JobId, NEW data, Add(k, data),
         NEW other \in JobId, Exists(other)
  PROVE  place'[other] = place[other] /\ payload'[other] = payload[other]
BY DEF QueueTypeOK, Add, Exists, queueVars

\* Unless a job is removed by the operation, it keeps its data.
LEMMA DataKept ==
  ASSUME QueueTypeOK, NEW k \in JobId,
         Take(k) \/ Promote(k) \/ Stall(k) \/ FailAttempt(k) \/ Complete(k),
         place'[k] # "none"
  PROVE  payload'[k] = payload[k] /\ Exists(k)
<1>1. ~Remove(k)
  BY DEF Remove, QueueTypeOK
<1>2. payload' = payload /\ place[k] # "none"
  BY <1>1 DEF Take, Promote, Stall, FailAttempt, Complete
<1> QED BY <1>2 DEF Exists
=============================================================================
