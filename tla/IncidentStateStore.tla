------------------------- MODULE IncidentStateStore -------------------------
(***************************************************************************)
(* The DynamoDB item that state.py keeps for one EventBridge event, and    *)
(* the conditional writes it is read and changed by.  Every operation of   *)
(* DynamoIncidentStateStore touches the item of one event_id only, so one  *)
(* item stands for the table.  The module is pure: each conditional write  *)
(* is a condition on the item (what DynamoDB evaluates) and the item that  *)
(* the write leaves when the condition holds.                              *)
(***************************************************************************)
EXTENDS Naturals

CONSTANT Lease   \* _ATTEMPT_LEASE_SECONDS, in ticks of the model's clock

ASSUME LeaseAssumption == Lease \in Nat

(* Attempt identifiers are fresh tokens; 0 is the absent one.              *)
NoAttempt == 0

-----------------------------------------------------------------------------
(* Values of the item.  "checkpoint" and "checkpoint_rank" are always      *)
(* written together, so the rank stands for both.                          *)

ProcessingStatus == {"processing", "retryable", "complete"}

SlackStatus == {"not_attempted", "sent", "failed"}

Claimed          == 0
SnapshotComplete == 1
BundleStored     == 2
IssuePublished   == 3
SlackAttempted   == 4

Checkpoint == Claimed .. SlackAttempted

(* status = "absent" stands for a key with no item.                        *)
Items == [status  : ProcessingStatus \cup {"absent"},
          attempt : Nat,
          lease   : Nat,
          rank    : Checkpoint,
          bundle  : BOOLEAN,
          issue   : BOOLEAN,
          slack   : SlackStatus]

NoItem == [status |-> "absent", attempt |-> NoAttempt, lease |-> 0,
           rank |-> Claimed, bundle |-> FALSE, issue |-> FALSE,
           slack |-> "not_attempted"]

-----------------------------------------------------------------------------
(* begin_event: put_item on attribute_not_exists(event_id), else the       *)
(* resume update.  t is the epoch the client read before the call.         *)

NewEventItem(a, t) ==
  [NoItem EXCEPT !.status = "processing", !.attempt = a, !.lease = t + Lease]

(* Mistakes the runs must notice: a lease given away at the second it      *)
(* expires, never, or at any time; a completed event resumed.              *)
CanResumeAtExpiry(i, t) ==
  /\ i.status \in ProcessingStatus \ {"complete"}
  /\ i.status = "retryable" \/ i.lease <= t

CanResumeReleasedOnly(i, t) == i.status = "retryable"

CanResumeAnyTime(i, t) == i.status \in ProcessingStatus \ {"complete"}

CanResumeCompleted(i, t) ==
  /\ i.status \in ProcessingStatus
  /\ i.status = "retryable" \/ i.lease < t

CanResume(i, t) ==
  /\ i.status \in ProcessingStatus \ {"complete"}
  /\ i.status = "retryable" \/ i.lease < t

(* The mistake: the lease of the attempt before is kept.                   *)
ResumedWithoutLease(i, a, t) ==
  [i EXCEPT !.status = "processing", !.attempt = a]

Resumed(i, a, t) ==
  [i EXCEPT !.status = "processing", !.attempt = a, !.lease = t + Lease]

-----------------------------------------------------------------------------
(* The fencing condition shared by every later write of an attempt.        *)

Held(i, a, t) == i.attempt = a /\ i.status = "processing" /\ i.lease >= t

(* _record_outcome: one outcome attribute, named by its checkpoint, and    *)
(* the lease.  The outcome of the Slack step is the status s.              *)
(* The mistake: an outcome taken to imply the ones before it.              *)
WithEarlierOutcomes(i, c, s, t) ==
  [i EXCEPT !.bundle = @ \/ c >= BundleStored,
            !.issue  = @ \/ c >= IssuePublished,
            !.slack  = IF c = SlackAttempted THEN s ELSE @,
            !.lease  = t + Lease]

WithOutcome(i, c, s, t) ==
  [i EXCEPT !.bundle = @ \/ c = BundleStored,
            !.issue  = @ \/ c = IssuePublished,
            !.slack  = IF c = SlackAttempted THEN s ELSE @,
            !.lease  = t + Lease]

(* _advance: the checkpoint only moves up.                                 *)
(* The mistake: the rank ends one too high.                                *)
AdvancedTooFar(i, c, t) == [i EXCEPT !.rank = c + 1, !.lease = t + Lease]

CanAdvance(i, a, c, t) == Held(i, a, t) /\ i.rank < c

Advanced(i, c, t) == [i EXCEPT !.rank = c, !.lease = t + Lease]

(* What _advance answers from the consistent read that follows a           *)
(* conditional failure: the attempt still owns the event and the           *)
(* checkpoint had been reached before.                                     *)
AlreadyAdvanced(i, a, c, t) == Held(i, a, t) /\ i.rank >= c

(* mark_complete and mark_retryable.                                       *)
WithStatus(i, status, t) == [i EXCEPT !.status = status, !.lease = t + Lease]
=============================================================================
