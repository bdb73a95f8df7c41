--------------------------- MODULE IncidentRuntime ---------------------------
(***************************************************************************)
(* One EventBridge event on its way through the Lambda runtime: the        *)
(* deliveries and retries of the event, the execution environments that    *)
(* run Runtime.handle and Publisher.publish for it, the DynamoDB item they *)
(* coordinate through, and the S3 object, GitHub Issues and Slack messages *)
(* they produce.  Each remote call is one step, so calls of concurrent     *)
(* attempts interleave; each may fail before or after it took effect.      *)
(***************************************************************************)
EXTENDS IncidentStateStore, FiniteSets

CONSTANTS
  Workers,      \* Lambda execution environments
  Timeout,      \* the function timeout, in ticks
  MaxRetries,   \* retries of a failed invocation
  MaxCopies,    \* deliveries of the event, its first one included
  FaultKinds,   \* the kinds of fault a run allows
  MaxFaults,    \* how many faults may happen in all
  MaxTime,      \* the last tick
  SearchLag     \* the GitHub search may miss Issues created before

ASSUME RuntimeAssumption ==
  /\ Timeout \in Nat /\ Timeout <= Lease
  /\ MaxRetries \in Nat /\ MaxCopies \in Nat \ {0}
  /\ MaxFaults \in Nat /\ MaxTime \in Nat
  /\ SearchLag \in BOOLEAN
  /\ FaultKinds \subseteq {"crash", "state", "work", "publish"}

VARIABLES
  item,      \* the DynamoDB item of the event
  run,       \* what each execution environment is doing
  active,    \* _active_attempts of each environment's state store
  attempts,  \* attempt identifiers handed out so far
  queue,     \* deliveries waiting, by the retries each has left
  copies,    \* deliveries EventBridge started so far
  now,       \* the clock
  bundle,    \* the attempt whose bundle is at the incident's S3 key
  issues,    \* the attempts that created a GitHub Issue
  messages,  \* the Slack messages delivered
  faults     \* faults so far

world    == <<bundle, issues, messages>>
delivery == <<queue, copies>>
vars     == <<item, run, active, attempts, delivery, now, world, faults>>

-----------------------------------------------------------------------------
(* Where an invocation can be: before its claim, or owning the event.      *)

Claiming == {"load", "put", "resume", "lookup"}

Owning == {"collect", "investigate", "putBundle", "record", "advance",
           "recheck", "findIssue", "createIssue", "sendSlack", "complete",
           "release"}

Labels == {"idle"} \cup Claiming \cup Owning

(* An invocation: its attempt, when it started, the clock at the end of    *)
(* its last step, the retries its delivery has left, the checkpoint it is  *)
(* recording, and publish's locals issue_url (as a Boolean) and            *)
(* slack_status.                                                           *)
Runs == [pc : Labels, attempt : Nat, started : Nat, since : Nat,
         left : 0..MaxRetries, stage : Checkpoint, link : BOOLEAN,
         slack : SlackStatus]

IdleRun == [pc |-> "idle", attempt |-> NoAttempt, started |-> 0, since |-> 0,
            left |-> 0, stage |-> Claimed, link |-> FALSE,
            slack |-> "not_attempted"]

Owns(w) == run[w].pc \in Owning

Init ==
  /\ item = NoItem
  /\ run = [w \in Workers |-> IdleRun]
  /\ active = [w \in Workers |-> NoAttempt]
  /\ attempts = 0
  /\ queue = [n \in 0..MaxRetries |-> IF n = MaxRetries THEN 1 ELSE 0]
  /\ copies = 1
  /\ now = 0
  /\ bundle = NoAttempt /\ issues = {} /\ messages = {}
  /\ faults = 0

-----------------------------------------------------------------------------
(* Steps of an invocation.                                                 *)

Fault(kind) ==
  /\ kind \in FaultKinds /\ faults < MaxFaults
  /\ faults' = faults + 1

NoFault == UNCHANGED faults

GotoWith(w, label, t) ==
  run' = [run EXCEPT ![w] = [@ EXCEPT !.pc = label, !.since = t]]

Goto(w, label) == GotoWith(w, label, now)

(* The publisher records a checkpoint: its outcome first, then its rank.   *)
(* The snapshot checkpoint has no outcome.                                 *)
MarkWithoutOutcome(w, c) ==   \* the mistake: the rank alone
  run' = [run EXCEPT ![w] = [@ EXCEPT !.pc = "advance", !.stage = c,
                                      !.since = now]]

Mark(w, c) ==
  LET first == IF c = SnapshotComplete THEN "advance" ELSE "record"
  IN run' = [run EXCEPT ![w] = [@ EXCEPT !.pc = first, !.stage = c,
                                         !.since = now]]

(* What follows a recorded checkpoint in handle and publish.  A degraded   *)
(* publication goes to the except branch.                                  *)
AfterMarkIgnoringIssue(r) ==   \* the mistake: Slack alone decides
  CASE r.stage = SnapshotComplete -> "investigate"
    [] r.stage = BundleStored     -> "findIssue"
    [] r.stage = IssuePublished   -> "sendSlack"
    [] OTHER -> IF r.slack = "sent" THEN "complete" ELSE "release"

AfterMark(r) ==
  CASE r.stage = SnapshotComplete -> "investigate"
    [] r.stage = BundleStored     -> "findIssue"
    [] r.stage = IssuePublished   -> "sendSlack"
    [] OTHER -> IF r.link /\ r.slack = "sent" THEN "complete" ELSE "release"

(* The invocation returned: the delivery is done.                          *)
Return(w) ==
  /\ run' = [run EXCEPT ![w] = IdleRun]
  /\ UNCHANGED queue

(* The invocation raised or died: the delivery is retried or dropped.      *)
Retry(w) ==
  /\ run' = [run EXCEPT ![w] = IdleRun]
  /\ queue' = IF run[w].left = 0 THEN queue
              ELSE [queue EXCEPT ![run[w].left - 1] = @ + 1]

(* A conditional write: its condition "held" on the item and it left       *)
(* "after"; it was refused; its reply was lost and the SDK's own retry was *)
(* refused by what the write had changed; or it raised, applied or not.    *)
Applied(held, after)  == held /\ item' = after /\ NoFault
Rejected(held)        == ~held /\ UNCHANGED item /\ NoFault
Repeated(held, after) == held /\ item' = after /\ Fault("state")
Raised(held, after)   == Fault("state") /\ item' \in {item} \cup
                                           {i \in {after} : held}

(* _lease_window reads the clock before the call, after the previous step. *)
ClockReads(w) == run[w].since .. now

-----------------------------------------------------------------------------
(* handle up to the claim.                                                 *)

Receive(w) ==
  /\ run[w].pc = "idle"
  /\ \E n \in 0..MaxRetries :
       /\ queue[n] > 0
       /\ queue' = [queue EXCEPT ![n] = @ - 1]
       /\ run' = [run EXCEPT ![w] = [IdleRun EXCEPT
                    !.pc = "load", !.started = now, !.since = now, !.left = n]]
  /\ UNCHANGED <<item, active, attempts, copies, now, world, faults>>

(* topology.load, then a fresh attempt identifier.                         *)
LoadTopology(w) ==
  /\ run[w].pc = "load"
  /\ \/ /\ attempts' = attempts + 1
        /\ run' = [run EXCEPT ![w] = [@ EXCEPT !.pc = "put", !.since = now,
                                              !.attempt = attempts + 1]]
        /\ NoFault /\ UNCHANGED queue
     \/ Fault("work") /\ Retry(w) /\ UNCHANGED attempts
  /\ UNCHANGED <<item, active, copies, now, world>>

PutItem(w) ==
  /\ run[w].pc = "put"
  /\ \E t \in ClockReads(w) :
       LET new  == item.status = "absent"
           claim == NewEventItem(run[w].attempt, t)
       IN \/ /\ Applied(new, claim) /\ Goto(w, "collect")
             /\ active' = [active EXCEPT ![w] = run[w].attempt]
             /\ UNCHANGED queue
          \/ /\ Rejected(new) \/ Repeated(new, claim)
             /\ GotoWith(w, "resume", t) /\ UNCHANGED <<active, queue>>
          \/ Raised(new, claim) /\ Retry(w) /\ UNCHANGED active
  /\ UNCHANGED <<attempts, copies, now, world>>

(* The resume update uses the clock that was read before put_item.         *)
ResumeItem(w) ==
  /\ run[w].pc = "resume"
  /\ LET held  == CanResume(item, run[w].since)
         claim == Resumed(item, run[w].attempt, run[w].since)
     IN \/ /\ Applied(held, claim) /\ Goto(w, "collect")
           /\ active' = [active EXCEPT ![w] = run[w].attempt]
           /\ UNCHANGED queue
        \/ /\ Rejected(held) \/ Repeated(held, claim)
           /\ Goto(w, "lookup") /\ UNCHANGED <<active, queue>>
        \/ Raised(held, claim) /\ Retry(w) /\ UNCHANGED active
  /\ UNCHANGED <<attempts, copies, now, world>>

(* _existing_claim: COMPLETE is acknowledged as a duplicate, BUSY raises   *)
(* IncidentBusyError; neither changes the item.                            *)
WaitForItem(w) ==   \* the mistake: a busy event is waited for
  /\ run[w].pc = "lookup"
  /\ item.status = "complete" /\ NoFault /\ Return(w)
  /\ UNCHANGED <<item, active, attempts, copies, now, world>>

LookupItem(w) ==
  /\ run[w].pc = "lookup"
  /\ \/ item.status = "complete" /\ NoFault /\ Return(w)
     \/ item.status # "complete" /\ NoFault /\ Retry(w)
     \/ Fault("state") /\ Retry(w)
  /\ UNCHANGED <<item, active, attempts, copies, now, world>>

-----------------------------------------------------------------------------
(* handle after the claim.                                                 *)

(* The fixed collectors; an unexpected error aborts the attempt.           *)
Collect(w) ==
  /\ run[w].pc = "collect"
  /\ \/ NoFault /\ Mark(w, SnapshotComplete)
     \/ Fault("work") /\ Goto(w, "release")
  /\ UNCHANGED <<item, active, attempts, delivery, now, world>>

(* The agent and the rendering of bundle, brief and Issue; a bundle that   *)
(* cannot be redacted aborts the attempt.                                  *)
Investigate(w) ==
  /\ run[w].pc = "investigate"
  /\ \/ NoFault /\ Goto(w, "putBundle")
     \/ Fault("work") /\ Goto(w, "release")
  /\ UNCHANGED <<item, active, attempts, delivery, now, world>>

(* put_object on the incident's only key; any error is BundleStoreFailed.  *)
PutBundle(w) ==
  /\ run[w].pc = "putBundle"
  /\ \/ NoFault /\ bundle' = run[w].attempt /\ Mark(w, BundleStored)
     \/ /\ Fault("publish") /\ bundle' \in {bundle, run[w].attempt}
        /\ Goto(w, "release")
  /\ UNCHANGED <<item, active, attempts, delivery, now, issues, messages>>

(* The first write of _record_outcome.                                     *)
RecordOutcome(w) ==
  /\ run[w].pc = "record"
  /\ \E t \in ClockReads(w) :
       LET held  == Held(item, active[w], t)
           after == WithOutcome(item, run[w].stage, run[w].slack, t)
       IN \/ Applied(held, after) /\ Goto(w, "advance")
          \/ Rejected(held) /\ Goto(w, "release")
          \/ Raised(held, after) /\ Goto(w, "release")
  /\ UNCHANGED <<active, attempts, delivery, now, world>>

(* The update of _advance.                                                 *)
AdvanceCheckpoint(w) ==
  /\ run[w].pc = "advance"
  /\ \E t \in ClockReads(w) :
       LET held  == CanAdvance(item, active[w], run[w].stage, t)
           after == Advanced(item, run[w].stage, t)
       IN \/ Applied(held, after) /\ Goto(w, AfterMark(run[w]))
          \/ /\ Rejected(held) \/ Repeated(held, after)
             /\ GotoWith(w, "recheck", t)
          \/ Raised(held, after) /\ Goto(w, "release")
  /\ UNCHANGED <<active, attempts, delivery, now, world>>

(* The consistent read of _advance, judged by the clock of its update.     *)
RecheckCheckpoint(w) ==
  /\ run[w].pc = "recheck"
  /\ LET reached == AlreadyAdvanced(item, active[w], run[w].stage,
                                    run[w].since)
     IN \/ reached /\ NoFault /\ Goto(w, AfterMark(run[w]))
        \/ ~reached /\ NoFault /\ Goto(w, "release")
        \/ Fault("state") /\ Goto(w, "release")
  /\ UNCHANGED <<item, active, attempts, delivery, now, world>>

-----------------------------------------------------------------------------
(* Publisher.publish after the bundle.                                     *)

IssueKnown(w) ==
  run' = [run EXCEPT ![w] = [@ EXCEPT !.link = TRUE, !.pc = "record",
                               !.stage = IssuePublished, !.since = now]]

(* An Issue that exists is found; an IntegrationError leaves issue_url     *)
(* None and publishing goes on; another exception leaves publish.          *)
SkipIssueSearch(w) ==   \* the mistake: every attempt creates an Issue
  /\ run[w].pc = "findIssue"
  /\ NoFault /\ Goto(w, "createIssue")
  /\ UNCHANGED <<item, active, attempts, delivery, now, world>>

FindIssue(w) ==
  /\ run[w].pc = "findIssue"
  /\ \/ /\ NoFault
        /\ \/ issues # {} /\ IssueKnown(w)
           \/ (issues = {} \/ SearchLag) /\ Goto(w, "createIssue")
     \/ Fault("publish") /\ \E next \in {"sendSlack", "release"} : Goto(w, next)
  /\ UNCHANGED <<item, active, attempts, delivery, now, world>>

CreateIssue(w) ==
  /\ run[w].pc = "createIssue"
  /\ \/ /\ NoFault
        /\ issues' = issues \cup {run[w].attempt}
        /\ IssueKnown(w)
     \/ /\ Fault("publish")
        /\ issues' \in {issues, issues \cup {run[w].attempt}}
        /\ \E next \in {"sendSlack", "release"} : Goto(w, next)
  /\ UNCHANGED <<item, active, attempts, delivery, now, bundle, messages>>

SlackTried(w, status) ==
  run' = [run EXCEPT ![w] = [@ EXCEPT !.slack = status, !.pc = "record",
                               !.stage = SlackAttempted, !.since = now]]

(* The brief with its link, or the degraded notice without one.            *)
SendSlack(w) ==
  /\ run[w].pc = "sendSlack"
  /\ LET sent == messages \cup {[attempt |-> run[w].attempt,
                                 brief   |-> run[w].link]}
     IN \/ NoFault /\ messages' = sent /\ SlackTried(w, "sent")
        \/ /\ Fault("publish") /\ messages' \in {messages, sent}
           /\ SlackTried(w, "failed") \/ Goto(w, "release")
  /\ UNCHANGED <<item, active, attempts, delivery, now, bundle, issues>>

-----------------------------------------------------------------------------
(* The end of an attempt.                                                  *)

(* mark_complete; False or an error goes to the except branch.             *)
Complete(w) ==
  /\ run[w].pc = "complete"
  /\ \E t \in ClockReads(w) :
       LET held  == Held(item, run[w].attempt, t)
           after == WithStatus(item, "complete", t)
       IN \/ /\ Applied(held, after) /\ Return(w)
             /\ active' = [active EXCEPT ![w] = NoAttempt]
          \/ /\ Rejected(held) \/ Repeated(held, after) \/ Raised(held, after)
             /\ Goto(w, "release") /\ UNCHANGED <<active, queue>>
  /\ UNCHANGED <<attempts, copies, now, world>>

(* mark_retryable in the except branch, whatever it answers; then the      *)
(* exception of the attempt leaves handle.                                 *)
ReleaseWithoutMark(w) ==   \* the mistake: the item is left as it is
  /\ run[w].pc = "release"
  /\ Retry(w)
  /\ UNCHANGED <<item, active, attempts, copies, now, world, faults>>

Release(w) ==
  /\ run[w].pc = "release"
  /\ \E t \in ClockReads(w) :
       LET held  == Held(item, run[w].attempt, t)
           after == WithStatus(item, "retryable", t)
       IN \/ /\ Applied(held, after)
             /\ active' = [active EXCEPT ![w] = NoAttempt]
          \/ /\ Rejected(held) \/ Repeated(held, after) \/ Raised(held, after)
             /\ UNCHANGED active
  /\ Retry(w)
  /\ UNCHANGED <<attempts, copies, now, world>>

-----------------------------------------------------------------------------
(* The environment: EventBridge, the Lambda service and the clock.         *)

(* At-least-once delivery starts another copy with retries of its own.     *)
Duplicate ==
  /\ copies < MaxCopies
  /\ copies' = copies + 1
  /\ queue' = [queue EXCEPT ![MaxRetries] = @ + 1]
  /\ UNCHANGED <<item, run, active, attempts, now, world, faults>>

(* The environment of an invocation dies: at its timeout, or in a crash.   *)
Kill(w) ==
  /\ run[w].pc # "idle" /\ Fault("crash")
  /\ Retry(w)
  /\ active' = [active EXCEPT ![w] = NoAttempt]
  /\ UNCHANGED <<item, attempts, copies, now, world>>

(* Lambda lets no invocation live past its timeout.                        *)
Tick ==
  /\ now < MaxTime
  /\ \A w \in Workers : run[w].pc # "idle" => now < run[w].started + Timeout
  /\ now' = now + 1
  /\ UNCHANGED <<item, run, active, attempts, delivery, world, faults>>

(* Nothing is running and no delivery waits.                               *)
Quiescent ==
  /\ \A w \in Workers : run[w].pc = "idle"
  /\ \A n \in 0..MaxRetries : queue[n] = 0

Rest == Quiescent /\ UNCHANGED vars

Handle(w) ==
  \/ LoadTopology(w) \/ PutItem(w) \/ ResumeItem(w) \/ LookupItem(w)
  \/ Collect(w) \/ Investigate(w) \/ PutBundle(w)
  \/ RecordOutcome(w) \/ AdvanceCheckpoint(w) \/ RecheckCheckpoint(w)
  \/ FindIssue(w) \/ CreateIssue(w) \/ SendSlack(w)
  \/ Complete(w) \/ Release(w)

Next ==
  \/ \E w \in Workers : Receive(w) \/ Handle(w) \/ Kill(w)
  \/ Duplicate \/ Tick \/ Rest

Spec == Init /\ [][Next]_vars

(* Lambda runs what it started, and EventBridge delivers what it holds;    *)
(* no fault has to happen.                                                 *)
Fairness ==
  /\ \A w \in Workers : WF_vars(Handle(w))
  /\ WF_vars(\E w \in Workers : Receive(w))
  /\ WF_vars(Tick)

FairSpec == Spec /\ Fairness

-----------------------------------------------------------------------------
(* What the runtime must keep true.                                        *)

(* Every variable of the runtime, the item and the world has its type.     *)
TypeOK ==
  /\ item \in Items
  /\ run \in [Workers -> Runs]
  /\ active \in [Workers -> Nat]
  /\ attempts \in Nat
  /\ queue \in [0..MaxRetries -> Nat]
  /\ copies \in Nat
  /\ now \in Nat
  /\ bundle \in Nat
  /\ issues \subseteq Nat
  /\ messages \subseteq [attempt : Nat, brief : BOOLEAN]
  /\ faults \in Nat

(* Two live invocations never both work on the event, however deliveries,  *)
(* retries, lease expiry and kills interleave (begin_event's takeover      *)
(* condition against the function timeout).                                *)
AtMostOneOwner == \A v, w \in Workers : Owns(v) /\ Owns(w) => v = w

(* Why: an attempt identifier belongs to one invocation; an invocation is  *)
(* within its timeout; and an owner's attempt is the one in the item, with *)
(* a lease that outlasts the timeout, until its own mark_complete.         *)
FencedAttempt(w) ==
  /\ run[w].attempt <= attempts
  /\ run[w].pc \in {"idle", "load"} <=> run[w].attempt = NoAttempt
  /\ \A v \in Workers :
       run[v].attempt = run[w].attempt => v = w \/ run[w].attempt = NoAttempt
  /\ run[w].pc # "idle" =>
       /\ run[w].started <= run[w].since /\ run[w].since <= now
       /\ now <= run[w].started + Timeout
  /\ Owns(w) =>
       /\ item.attempt = run[w].attempt /\ active[w] = run[w].attempt
       /\ \/ item.status = "processing"
             /\ item.lease >= run[w].started + Lease
          \/ item.status = "complete" /\ run[w].pc = "release"

OwnershipInv == \A w \in Workers : FencedAttempt(w)

(* No reader of the item ever sees a combination that the smoke runbook    *)
(* rejects as impossible, between the two writes of _record_outcome and    *)
(* across attempts included.                                               *)
RecordConsistent ==
  /\ item.issue => item.bundle
  /\ item.slack # "not_attempted" => item.bundle
  /\ item.rank >= BundleStored => item.bundle
  /\ item.rank = IssuePublished => item.issue
  /\ item.rank >= SlackAttempted => item.slack # "not_attempted"
  /\ item.status = "complete" =>
       item.bundle /\ item.issue /\ item.slack = "sent"
                   /\ item.rank = SlackAttempted

(* What the item records happened outside, whichever attempt did it and    *)
(* whatever calls failed or lost their reply since.                        *)
RecordTruthful ==
  /\ item.bundle => bundle # NoAttempt
  /\ item.issue => issues # {}
  /\ item.slack = "sent" => messages # {}

(* A complete incident has its bundle, an Issue and a normal Slack brief   *)
(* of the very attempt that completed it: a degraded notice of an earlier  *)
(* attempt never counts.                                                   *)
CompleteIsPublished ==
  item.status = "complete" =>
    /\ bundle = item.attempt
    /\ issues # {}
    /\ [attempt |-> item.attempt, brief |-> TRUE] \in messages

(* Retries and lost replies of create_incident_issue never leave a second  *)
(* Issue, as long as the search sees what was created.                     *)
AtMostOneIssue == Cardinality(issues) <= 1

(* After completion no attempt writes the item, S3, GitHub or Slack again. *)
CompleteIsFinal ==
  [][item.status = "complete" => UNCHANGED <<item, world>>]_vars

(* The service to other attempts: owner at work, at most one at a time,    *)
(* publishing only from the bundle it stored and never after completion.   *)
Promise == INSTANCE ExclusivePublication WITH
  holders  <- {run[w].attempt : w \in {v \in Workers : Owns(v)}},
  complete <- item.status = "complete"

ImplementsExclusivePublication == Promise!Spec

(* Every delivery is acknowledged or dropped: no invocation waits forever  *)
(* for another one.                                                        *)
EveryDeliverySettles == <>[]Quiescent

(* The incident is published and complete in the end, unless failures and  *)
(* duplicates (each makes one claim fail) are more than the retries.       *)
EventuallyComplete ==
  <>(item.status = "complete" \/ faults + (copies - 1) > MaxRetries)

(* Once faults have stopped, an incident that nobody works on and whose    *)
(* lease has run out is completed as long as a delivery is left to try.    *)
LeaseExpiryRecovers ==
  (/\ faults = MaxFaults
   /\ \A w \in Workers : run[w].pc = "idle"
   /\ item.lease < now
   /\ \E n \in 0..MaxRetries : queue[n] > 0)
  ~> (item.status = "complete")

(* The Issue of a complete incident was written from the bundle that S3    *)
(* holds for it, so the Evidence IDs it cites resolve there.               *)
IssueCitesStoredBundle == item.status = "complete" => bundle \in issues
=============================================================================
