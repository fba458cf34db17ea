----------------------------- MODULE BullQueue -----------------------------
(***************************************************************************)
(* One Bull queue with custom job ids, as the code configures and uses it  *)
(* (queue/policies/*, webhook-processor/helpers/enqueue-webhook.helper.ts).*)
(* Bull itself is not part of the repository; this is the behaviour the    *)
(* code relies on: a job id is refused while a job of that id exists, a    *)
(* failed attempt is retried later until the attempts are used up, a       *)
(* finished job is removed, and the job of a worker that died is handed    *)
(* out again.                                                              *)
(***************************************************************************)
EXTENDS Naturals

CONSTANTS
  JobId,            \* the custom ids (idempotency keys)
  Payload,          \* the job data
  NoPayload,        \* not a payload: the data of a job that does not exist
  MaxAttempts,      \* defaultJobOptions.attempts
  MaxStalledCount   \* Bull's maxStalledCount, left at its default

ASSUME PayloadAssumption == NoPayload \notin Payload
ASSUME LimitsAssumption ==
  /\ MaxAttempts \in Nat \ {0}
  /\ MaxStalledCount \in Nat

VARIABLES
  place,         \* place[k]: where the job k is; "none" when it does not exist
  payload,       \* payload[k]: its data
  attemptsMade,  \* attemptsMade[k]: attempts that ended in an error
  stalledCount   \* stalledCount[k]: times it was taken from a dead worker

queueVars == <<place, payload, attemptsMade, stalledCount>>

Place == {"none", "waiting", "delayed", "active", "failed"}

QueueTypeOK ==
  /\ place \in [JobId -> Place]
  /\ payload \in [JobId -> Payload \cup {NoPayload}]
  /\ attemptsMade \in [JobId -> 0 .. MaxAttempts]
  /\ stalledCount \in [JobId -> 0 .. MaxStalledCount]

QueueInit ==
  /\ place = [k \in JobId |-> "none"]
  /\ payload = [k \in JobId |-> NoPayload]
  /\ attemptsMade = [k \in JobId |-> 0]
  /\ stalledCount = [k \in JobId |-> 0]

Exists(k) == place[k] # "none"

\* queue.add with a jobId: a second job of an existing id is dropped.
Add(k, data) ==
  \/ /\ ~Exists(k)
     /\ place' = [place EXCEPT ![k] = "waiting"]
     /\ payload' = [payload EXCEPT ![k] = data]
     /\ UNCHANGED <<attemptsMade, stalledCount>>
  \/ /\ Exists(k)
     /\ UNCHANGED queueVars

Take(k) ==
  /\ place[k] = "waiting"
  /\ place' = [place EXCEPT ![k] = "active"]
  /\ UNCHANGED <<payload, attemptsMade, stalledCount>>

\* The job's hash is deleted, its id is free again.
Remove(k) ==
  /\ place' = [place EXCEPT ![k] = "none"]
  /\ payload' = [payload EXCEPT ![k] = NoPayload]
  /\ attemptsMade' = [attemptsMade EXCEPT ![k] = 0]
  /\ stalledCount' = [stalledCount EXCEPT ![k] = 0]

\* removeOnComplete: true
Complete(k) ==
  /\ place[k] = "active"
  /\ Remove(k)

IsPastLastAttempt(k) == attemptsMade[k] > MaxAttempts  \* variant: off by one, twice
IsLastAttempt(k) == attemptsMade[k] + 1 >= MaxAttempts

FailAttemptUncounted(k) ==  \* variant: the attempt is not counted
  /\ place[k] = "active"
  /\ place' = [place EXCEPT ![k] = "delayed"]
  /\ UNCHANGED <<payload, attemptsMade, stalledCount>>

\* moveToFailed: back off and retry, or give up (removeOnFail: true).
FailAttempt(k) ==
  /\ place[k] = "active"
  /\ \/ /\ IsLastAttempt(k)
        /\ Remove(k)
     \/ /\ ~IsLastAttempt(k)
        /\ place' = [place EXCEPT ![k] = "delayed"]
        /\ attemptsMade' = [attemptsMade EXCEPT ![k] = @ + 1]
        /\ UNCHANGED <<payload, stalledCount>>

\* The exponential backoff has passed.
Promote(k) ==
  /\ place[k] = "delayed"
  /\ place' = [place EXCEPT ![k] = "waiting"]
  /\ UNCHANGED <<payload, attemptsMade, stalledCount>>

\* The lock of an active job nobody works on has expired.  Past the limit
\* the job is failed without having used its attempts; whether its record is
\* kept then depends on the Bull release, so both are allowed.
Stall(k) ==
  /\ place[k] = "active"
  /\ \/ /\ stalledCount[k] < MaxStalledCount
        /\ place' = [place EXCEPT ![k] = "waiting"]
        /\ stalledCount' = [stalledCount EXCEPT ![k] = @ + 1]
        /\ UNCHANGED <<payload, attemptsMade>>
     \/ /\ stalledCount[k] = MaxStalledCount
        /\ Remove(k)
     \/ /\ stalledCount[k] = MaxStalledCount
        /\ place' = [place EXCEPT ![k] = "failed"]
        /\ UNCHANGED <<payload, attemptsMade, stalledCount>>
=============================================================================
