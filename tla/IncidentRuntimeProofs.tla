----------------------- MODULE IncidentRuntimeProofs -----------------------
(***************************************************************************)
(* Theorems about IncidentRuntime for every number of environments,        *)
(* retries, deliveries and faults, every lease and timeout with            *)
(* Timeout <= Lease, and an unreliable Issue search.                       *)
(***************************************************************************)
EXTENDS IncidentRuntime, TLAPS

-----------------------------------------------------------------------------
(* Types of the pieces a step is made of.                                  *)

USE DEF Claimed, SnapshotComplete, BundleStored, IssuePublished,
        SlackAttempted, NoAttempt

(* The writes of the state store leave an item.                            *)
LEMMA NoItemType == NoItem \in Items
BY DEF NoItem, Items, Checkpoint, SlackStatus

LEMMA ClaimsAreItems ==
  ASSUME NEW i \in Items, NEW a \in Nat, NEW t \in Nat
  PROVE  NewEventItem(a, t) \in Items /\ Resumed(i, a, t) \in Items
<1>1. t + Lease \in Nat
  BY LeaseAssumption
<1> QED
  BY <1>1, NoItemType DEF NewEventItem, Resumed, Items, ProcessingStatus

LEMMA WithOutcomeIsItem ==
  ASSUME NEW i \in Items, NEW c \in Checkpoint, NEW s \in SlackStatus,
         NEW t \in Nat
  PROVE  WithOutcome(i, c, s, t) \in Items
<1>1. t + Lease \in Nat
  BY LeaseAssumption
<1> QED
  BY <1>1 DEF WithOutcome, Items

LEMMA AdvancedIsItem ==
  ASSUME NEW i \in Items, NEW c \in Checkpoint, NEW t \in Nat
  PROVE  Advanced(i, c, t) \in Items
<1>1. t + Lease \in Nat
  BY LeaseAssumption
<1> QED
  BY <1>1 DEF Advanced, Items

LEMMA WithStatusIsItem ==
  ASSUME NEW i \in Items, NEW s \in ProcessingStatus, NEW t \in Nat
  PROVE  WithStatus(i, s, t) \in Items
<1>1. t + Lease \in Nat
  BY LeaseAssumption
<1> QED
  BY <1>1 DEF WithStatus, Items

(* Moving an invocation along, or ending it, keeps the type of run.        *)
LEMMA GotoKeepsRun ==
  ASSUME TypeOK, NEW w \in Workers, NEW label \in Labels, NEW t \in Nat,
         GotoWith(w, label, t)
  PROVE  run' \in [Workers -> Runs]
BY DEF TypeOK, GotoWith, Runs

LEMMA MarkKeepsRun ==
  ASSUME TypeOK, NEW w \in Workers, NEW c \in Checkpoint, Mark(w, c)
  PROVE  run' \in [Workers -> Runs]
<1> DEFINE first == IF c = 1 THEN "advance" ELSE "record"
<1>1. first \in Labels
  BY DEF Labels, Owning
<1>2. run' = [run EXCEPT ![w] = [@ EXCEPT !.pc = first, !.stage = c,
                                          !.since = now]]
  BY DEF Mark
<1> HIDE DEF first
<1> QED
  BY <1>1, <1>2 DEF TypeOK, Runs

LEMMA IssueKnownKeepsRun ==
  ASSUME TypeOK, NEW w \in Workers, IssueKnown(w)
  PROVE  run' \in [Workers -> Runs]
<1>1. "record" \in Labels /\ 3 \in Checkpoint
  BY DEF Labels, Owning, Checkpoint
<1> QED
  BY <1>1 DEF TypeOK, IssueKnown, Runs

LEMMA SlackTriedKeepsRun ==
  ASSUME TypeOK, NEW w \in Workers, NEW s \in SlackStatus, SlackTried(w, s)
  PROVE  run' \in [Workers -> Runs]
<1>1. "record" \in Labels /\ 4 \in Checkpoint
  BY DEF Labels, Owning, Checkpoint
<1> QED
  BY <1>1 DEF TypeOK, SlackTried, Runs

LEMMA IdleRunType == IdleRun \in Runs
BY RuntimeAssumption DEF IdleRun, Runs, Labels, Checkpoint, SlackStatus

LEMMA ReturnKeepsTypes ==
  ASSUME TypeOK, NEW w \in Workers, Return(w)
  PROVE  run' \in [Workers -> Runs] /\ queue' \in [0..MaxRetries -> Nat]
BY IdleRunType DEF TypeOK, Return

LEMMA RetryKeepsTypes ==
  ASSUME TypeOK, NEW w \in Workers, Retry(w)
  PROVE  run' \in [Workers -> Runs] /\ queue' \in [0..MaxRetries -> Nat]
<1>1. run' \in [Workers -> Runs]
  BY IdleRunType DEF TypeOK, Retry
<1>2. queue' \in [0..MaxRetries -> Nat]
  <2>1. run[w].left \in 0..MaxRetries /\ MaxRetries \in Nat
    BY RuntimeAssumption DEF TypeOK, Runs
  <2>2. run[w].left # 0 => run[w].left - 1 \in 0..MaxRetries
    BY <2>1
  <2>3. queue \in [0..MaxRetries -> Nat]
    BY DEF TypeOK
  <2>4. CASE run[w].left = 0
    BY <2>3, <2>4 DEF Retry
  <2>5. CASE run[w].left # 0
    <3>1. queue' = [queue EXCEPT ![run[w].left - 1] = @ + 1]
      BY <2>5 DEF Retry
    <3> QED
      BY <2>2, <2>3, <2>5, <3>1
  <2> QED
    BY <2>4, <2>5
<1> QED
  BY <1>1, <1>2
-----------------------------------------------------------------------------
(* The type invariant is inductive, one step per action.                   *)

LEMMA InitTypes == Init => TypeOK
<1> SUFFICES ASSUME Init PROVE TypeOK
  OBVIOUS
<1>1. item \in Items
  BY DEF Init, NoItem, Items, Checkpoint, SlackStatus
<1>2. run \in [Workers -> Runs]
  BY IdleRunType DEF Init
<1>3. queue \in [0..MaxRetries -> Nat]
  BY RuntimeAssumption DEF Init
<1> QED
  BY <1>1, <1>2, <1>3 DEF Init, TypeOK

(* The clock values a call may carry are numbers.                          *)
LEMMA ClockReadsAreNumbers ==
  ASSUME TypeOK, NEW w \in Workers, NEW t \in ClockReads(w)
  PROVE  t \in Nat
BY DEF TypeOK, Runs, ClockReads

LEMMA LabelTypes == "idle" \in Labels /\ Owning \subseteq Labels
                    /\ Claiming \subseteq Labels
BY DEF Labels

LEMMA AfterMarkTypes == ASSUME NEW r PROVE AfterMark(r) \in Owning
BY DEF AfterMark, Owning

LEMMA ReceiveTypes ==
  ASSUME TypeOK, NEW w \in Workers, Receive(w) PROVE TypeOK'
<1>1. PICK n \in 0..MaxRetries :
        /\ queue[n] > 0
        /\ queue' = [queue EXCEPT ![n] = @ - 1]
        /\ run' = [run EXCEPT ![w] = [IdleRun EXCEPT
                     !.pc = "load", !.started = now, !.since = now, !.left = n]]
  BY DEF Receive
<1>2. [IdleRun EXCEPT !.pc = "load", !.started = now, !.since = now,
                      !.left = n] \in Runs
  BY IdleRunType, LabelTypes DEF TypeOK, Runs, Claiming
<1>3. run' \in [Workers -> Runs]
  BY <1>1, <1>2 DEF TypeOK
<1>4. queue' \in [0..MaxRetries -> Nat]
  BY <1>1 DEF TypeOK
<1> QED
  BY <1>3, <1>4 DEF TypeOK, Receive, world

LEMMA LoadTopologyTypes ==
  ASSUME TypeOK, NEW w \in Workers, LoadTopology(w) PROVE TypeOK'
<1>1. CASE Fault("work") /\ Retry(w) /\ UNCHANGED attempts
  BY <1>1, RetryKeepsTypes DEF TypeOK, LoadTopology, world, Fault
<1>2. CASE /\ attempts' = attempts + 1
           /\ run' = [run EXCEPT ![w] = [@ EXCEPT !.pc = "put",
                        !.since = now, !.attempt = attempts + 1]]
           /\ NoFault /\ UNCHANGED queue
  <2>1. "put" \in Labels
    BY LabelTypes DEF Claiming
  <2>2. run[w] \in Runs /\ now \in Nat /\ attempts + 1 \in Nat
    BY DEF TypeOK
  <2>3. [run[w] EXCEPT !.pc = "put", !.since = now,
                       !.attempt = attempts + 1] \in Runs
    BY <2>1, <2>2 DEF Runs
  <2>4. run' \in [Workers -> Runs]
    BY <1>2, <2>3 DEF TypeOK
  <2> QED
    BY <1>2, <2>2, <2>4 DEF TypeOK, LoadTopology, world, NoFault
<1> QED
  BY <1>1, <1>2 DEF LoadTopology

LEMMA PutItemTypes ==
  ASSUME TypeOK, NEW w \in Workers, PutItem(w) PROVE TypeOK'
<1> DEFINE new == item.status = "absent"
           claim(t) == NewEventItem(run[w].attempt, t)
<1>1. PICK t \in ClockReads(w) :
        \/ /\ Applied(new, claim(t)) /\ Goto(w, "collect")
           /\ active' = [active EXCEPT ![w] = run[w].attempt]
           /\ UNCHANGED queue
        \/ /\ Rejected(new) \/ Repeated(new, claim(t))
           /\ GotoWith(w, "resume", t) /\ UNCHANGED <<active, queue>>
        \/ Raised(new, claim(t)) /\ Retry(w) /\ UNCHANGED active
  BY DEF PutItem
<1>2. t \in Nat
  BY ClockReadsAreNumbers
<1>3. run[w].attempt \in Nat /\ now \in Nat
  BY DEF TypeOK, Runs
<1>4. claim(t) \in Items /\ item \in Items /\ faults \in Nat
  BY <1>2, <1>3, ClaimsAreItems DEF TypeOK
<1> HIDE DEF new, claim
<1>5. item' \in Items /\ faults' \in Nat
  <2>1. item' \in {item, claim(t)} /\ faults' \in {faults, faults + 1}
    BY <1>1 DEF Applied, Rejected, Repeated, Raised, NoFault, Fault
  <2> QED
    BY <1>4, <2>1
<1>6. "collect" \in Labels /\ "resume" \in Labels
  BY LabelTypes DEF Owning, Claiming
<1>7. run' \in [Workers -> Runs] /\ queue' \in [0..MaxRetries -> Nat]
  <2>1. CASE GotoWith(w, "collect", now) /\ UNCHANGED queue
    BY <2>1, <1>3, <1>6, GotoKeepsRun DEF TypeOK
  <2>2. CASE GotoWith(w, "resume", t) /\ UNCHANGED queue
    BY <2>2, <1>2, <1>6, GotoKeepsRun DEF TypeOK
  <2>3. CASE Retry(w)
    BY <2>3, RetryKeepsTypes
  <2> QED
    BY <1>1, <2>1, <2>2, <2>3 DEF Goto
<1>8. active' \in [Workers -> Nat]
  BY <1>1, <1>3 DEF TypeOK
<1> QED
  BY <1>5, <1>7, <1>8 DEF TypeOK, PutItem, world

LEMMA ResumeItemTypes ==
  ASSUME TypeOK, NEW w \in Workers, ResumeItem(w) PROVE TypeOK'
<1> DEFINE held  == CanResume(item, run[w].since)
           claim == Resumed(item, run[w].attempt, run[w].since)
<1>1. run[w].attempt \in Nat /\ run[w].since \in Nat /\ now \in Nat
  BY DEF TypeOK, Runs
<1>2. claim \in Items /\ item \in Items /\ faults \in Nat
  BY <1>1, ClaimsAreItems DEF TypeOK
<1>3. \/ /\ Applied(held, claim) /\ Goto(w, "collect")
         /\ active' = [active EXCEPT ![w] = run[w].attempt]
         /\ UNCHANGED queue
      \/ /\ Rejected(held) \/ Repeated(held, claim)
         /\ Goto(w, "lookup") /\ UNCHANGED <<active, queue>>
      \/ Raised(held, claim) /\ Retry(w) /\ UNCHANGED active
  BY DEF ResumeItem
<1> HIDE DEF held, claim
<1>4. item' \in Items /\ faults' \in Nat
  <2>1. item' \in {item, claim} /\ faults' \in {faults, faults + 1}
    BY <1>3 DEF Applied, Rejected, Repeated, Raised, NoFault, Fault
  <2> QED
    BY <1>2, <2>1
<1>5. run' \in [Workers -> Runs] /\ queue' \in [0..MaxRetries -> Nat]
  <2>1. "collect" \in Labels /\ "lookup" \in Labels
    BY LabelTypes DEF Owning, Claiming
  <2>2. CASE GotoWith(w, "collect", now) /\ UNCHANGED queue
    BY <2>1, <2>2, <1>1, GotoKeepsRun DEF TypeOK
  <2>3. CASE GotoWith(w, "lookup", now) /\ UNCHANGED queue
    BY <2>1, <2>3, <1>1, GotoKeepsRun DEF TypeOK
  <2>4. CASE Retry(w)
    BY <2>4, RetryKeepsTypes
  <2> QED
    BY <1>3, <2>2, <2>3, <2>4 DEF Goto
<1>6. active' \in [Workers -> Nat]
  BY <1>1, <1>3 DEF TypeOK
<1> QED
  BY <1>4, <1>5, <1>6 DEF TypeOK, ResumeItem, world

LEMMA LookupItemTypes ==
  ASSUME TypeOK, NEW w \in Workers, LookupItem(w) PROVE TypeOK'
<1>1. run' \in [Workers -> Runs] /\ queue' \in [0..MaxRetries -> Nat]
  BY ReturnKeepsTypes, RetryKeepsTypes DEF LookupItem
<1>2. faults' \in Nat
  BY DEF TypeOK, LookupItem, Fault, NoFault
<1> QED
  BY <1>1, <1>2 DEF TypeOK, LookupItem, world

(* The steps between the claim and the end of an attempt leave the         *)
(* delivery alone and move to a label of an owner.                         *)
LEMMA CollectTypes ==
  ASSUME TypeOK, NEW w \in Workers, Collect(w) PROVE TypeOK'
<1>1. "release" \in Labels /\ 1 \in Checkpoint /\ now \in Nat
  BY LabelTypes DEF TypeOK, Owning, Checkpoint
<1>2. run' \in [Workers -> Runs]
  BY <1>1, MarkKeepsRun, GotoKeepsRun DEF Collect, Goto
<1>3. faults' \in Nat
  BY DEF TypeOK, Collect, Fault, NoFault
<1> QED
  BY <1>2, <1>3 DEF TypeOK, Collect, world, delivery

LEMMA InvestigateTypes ==
  ASSUME TypeOK, NEW w \in Workers, Investigate(w) PROVE TypeOK'
<1>1. "release" \in Labels /\ "putBundle" \in Labels /\ now \in Nat
  BY LabelTypes DEF TypeOK, Owning
<1>2. run' \in [Workers -> Runs]
  BY <1>1, GotoKeepsRun DEF Investigate, Goto
<1>3. faults' \in Nat
  BY DEF TypeOK, Investigate, Fault, NoFault
<1> QED
  BY <1>2, <1>3 DEF TypeOK, Investigate, world, delivery

LEMMA PutBundleTypes ==
  ASSUME TypeOK, NEW w \in Workers, PutBundle(w) PROVE TypeOK'
<1>1. "release" \in Labels /\ 2 \in Checkpoint /\ now \in Nat
  BY LabelTypes DEF TypeOK, Owning, Checkpoint
<1>2. run' \in [Workers -> Runs]
  BY <1>1, MarkKeepsRun, GotoKeepsRun DEF PutBundle, Goto
<1>3. run[w].attempt \in Nat
  BY DEF TypeOK, Runs
<1>4. faults' \in Nat /\ bundle' \in Nat
  BY <1>3 DEF TypeOK, PutBundle, Fault, NoFault
<1> QED
  BY <1>2, <1>4 DEF TypeOK, PutBundle, delivery

LEMMA RecordOutcomeTypes ==
  ASSUME TypeOK, NEW w \in Workers, RecordOutcome(w) PROVE TypeOK'
<1> DEFINE held(t)  == Held(item, active[w], t)
           after(t) == WithOutcome(item, run[w].stage, run[w].slack, t)
<1>1. PICK t \in ClockReads(w) :
        \/ Applied(held(t), after(t)) /\ Goto(w, "advance")
        \/ Rejected(held(t)) /\ Goto(w, "release")
        \/ Raised(held(t), after(t)) /\ Goto(w, "release")
  BY DEF RecordOutcome
<1>2. t \in Nat /\ now \in Nat /\ item \in Items /\ faults \in Nat
  BY ClockReadsAreNumbers DEF TypeOK
<1>3. after(t) \in Items
  BY <1>2, WithOutcomeIsItem DEF TypeOK, Runs
<1> HIDE DEF held, after
<1>4. item' \in {item, after(t)} /\ faults' \in {faults, faults + 1}
  BY <1>1 DEF Applied, Rejected, Raised, NoFault, Fault
<1>5. "advance" \in Labels /\ "release" \in Labels
  BY LabelTypes DEF Owning
<1>6. run' \in [Workers -> Runs]
  BY <1>1, <1>2, <1>5, GotoKeepsRun DEF Goto
<1> QED
  BY <1>2, <1>3, <1>4, <1>6 DEF TypeOK, RecordOutcome, world, delivery

LEMMA AdvanceCheckpointTypes ==
  ASSUME TypeOK, NEW w \in Workers, AdvanceCheckpoint(w) PROVE TypeOK'
<1> DEFINE held(t)  == CanAdvance(item, active[w], run[w].stage, t)
           after(t) == Advanced(item, run[w].stage, t)
<1>1. PICK t \in ClockReads(w) :
        \/ Applied(held(t), after(t)) /\ Goto(w, AfterMark(run[w]))
        \/ /\ Rejected(held(t)) \/ Repeated(held(t), after(t))
           /\ GotoWith(w, "recheck", t)
        \/ Raised(held(t), after(t)) /\ Goto(w, "release")
  BY DEF AdvanceCheckpoint
<1>2. t \in Nat /\ now \in Nat /\ item \in Items /\ faults \in Nat
  BY ClockReadsAreNumbers DEF TypeOK
<1>3. after(t) \in Items
  BY <1>2, AdvancedIsItem DEF TypeOK, Runs
<1> HIDE DEF held, after
<1>4. item' \in {item, after(t)} /\ faults' \in {faults, faults + 1}
  BY <1>1 DEF Applied, Rejected, Repeated, Raised, NoFault, Fault
<1>5. "recheck" \in Labels /\ "release" \in Labels
      /\ AfterMark(run[w]) \in Labels
  BY LabelTypes, AfterMarkTypes DEF Owning
<1>6. run' \in [Workers -> Runs]
  BY <1>1, <1>2, <1>5, GotoKeepsRun DEF Goto
<1> QED
  BY <1>2, <1>3, <1>4, <1>6 DEF TypeOK, AdvanceCheckpoint, world, delivery

LEMMA RecheckCheckpointTypes ==
  ASSUME TypeOK, NEW w \in Workers, RecheckCheckpoint(w) PROVE TypeOK'
<1>1. "release" \in Labels /\ AfterMark(run[w]) \in Labels /\ now \in Nat
  BY LabelTypes, AfterMarkTypes DEF TypeOK, Owning
<1>2. run' \in [Workers -> Runs]
  BY <1>1, GotoKeepsRun DEF RecheckCheckpoint, Goto
<1>3. faults' \in Nat
  BY DEF TypeOK, RecheckCheckpoint, Fault, NoFault
<1> QED
  BY <1>2, <1>3 DEF TypeOK, RecheckCheckpoint, world, delivery

LEMMA FindIssueTypes ==
  ASSUME TypeOK, NEW w \in Workers, FindIssue(w) PROVE TypeOK'
<1>1. {"sendSlack", "release", "createIssue"} \subseteq Labels /\ now \in Nat
  BY LabelTypes DEF TypeOK, Owning
<1>2. run' \in [Workers -> Runs]
  BY <1>1, GotoKeepsRun, IssueKnownKeepsRun DEF FindIssue, Goto
<1>3. faults' \in Nat
  BY DEF TypeOK, FindIssue, Fault, NoFault
<1> QED
  BY <1>2, <1>3 DEF TypeOK, FindIssue, world, delivery

LEMMA CreateIssueTypes ==
  ASSUME TypeOK, NEW w \in Workers, CreateIssue(w) PROVE TypeOK'
<1>1. {"sendSlack", "release"} \subseteq Labels /\ now \in Nat
  BY LabelTypes DEF TypeOK, Owning
<1>2. run' \in [Workers -> Runs]
  BY <1>1, GotoKeepsRun, IssueKnownKeepsRun DEF CreateIssue, Goto
<1>3. run[w].attempt \in Nat
  BY DEF TypeOK, Runs
<1>4. issues' \subseteq Nat
  BY <1>3 DEF TypeOK, CreateIssue
<1>5. faults' \in Nat
  BY DEF TypeOK, CreateIssue, Fault, NoFault
<1> QED
  BY <1>2, <1>4, <1>5 DEF TypeOK, CreateIssue, delivery

LEMMA SendSlackTypes ==
  ASSUME TypeOK, NEW w \in Workers, SendSlack(w) PROVE TypeOK'
<1> DEFINE sent == messages \cup {[attempt |-> run[w].attempt,
                                   brief   |-> run[w].link]}
<1>1. /\ \/ NoFault /\ messages' = sent /\ SlackTried(w, "sent")
         \/ /\ Fault("publish") /\ messages' \in {messages, sent}
            /\ SlackTried(w, "failed") \/ Goto(w, "release")
  BY DEF SendSlack
<1>2. [attempt |-> run[w].attempt, brief |-> run[w].link]
         \in [attempt : Nat, brief : BOOLEAN]
  BY DEF TypeOK, Runs
<1>3. messages' \subseteq [attempt : Nat, brief : BOOLEAN]
  BY <1>1, <1>2 DEF TypeOK
<1>4. "release" \in Labels /\ now \in Nat /\ {"sent", "failed"} \subseteq SlackStatus
  BY LabelTypes DEF TypeOK, Owning, SlackStatus
<1>5. run' \in [Workers -> Runs]
  BY <1>1, <1>4, GotoKeepsRun, SlackTriedKeepsRun DEF Goto
<1>6. faults' \in Nat
  BY <1>1 DEF TypeOK, Fault, NoFault
<1> QED
  BY <1>3, <1>5, <1>6 DEF TypeOK, SendSlack, delivery

LEMMA CompleteTypes ==
  ASSUME TypeOK, NEW w \in Workers, Complete(w) PROVE TypeOK'
<1> DEFINE held(t)  == Held(item, run[w].attempt, t)
           after(t) == WithStatus(item, "complete", t)
<1>1. PICK t \in ClockReads(w) :
        \/ /\ Applied(held(t), after(t)) /\ Return(w)
           /\ active' = [active EXCEPT ![w] = NoAttempt]
        \/ /\ \/ Rejected(held(t)) \/ Repeated(held(t), after(t))
              \/ Raised(held(t), after(t))
           /\ Goto(w, "release") /\ UNCHANGED <<active, queue>>
  BY DEF Complete
<1>2. t \in Nat /\ now \in Nat /\ item \in Items /\ faults \in Nat
  BY ClockReadsAreNumbers DEF TypeOK
<1>3. after(t) \in Items
  BY <1>2, WithStatusIsItem DEF ProcessingStatus
<1> HIDE DEF held, after
<1>4. item' \in {item, after(t)} /\ faults' \in {faults, faults + 1}
  BY <1>1 DEF Applied, Rejected, Repeated, Raised, NoFault, Fault
<1>5. "release" \in Labels
  BY LabelTypes DEF Owning
<1>6. run' \in [Workers -> Runs] /\ queue' \in [0..MaxRetries -> Nat]
  <2>1. CASE Return(w)
    BY <2>1, ReturnKeepsTypes
  <2>2. CASE GotoWith(w, "release", now) /\ UNCHANGED queue
    BY <2>2, <1>2, <1>5, GotoKeepsRun DEF TypeOK
  <2> QED
    BY <1>1, <2>1, <2>2 DEF Goto
<1>7. active' \in [Workers -> Nat]
  BY <1>1 DEF TypeOK
<1> QED
  BY <1>2, <1>3, <1>4, <1>6, <1>7 DEF TypeOK, Complete, world

LEMMA ReleaseTypes ==
  ASSUME TypeOK, NEW w \in Workers, Release(w) PROVE TypeOK'
<1> DEFINE held(t)  == Held(item, run[w].attempt, t)
           after(t) == WithStatus(item, "retryable", t)
<1>1. PICK t \in ClockReads(w) :
        \/ /\ Applied(held(t), after(t))
           /\ active' = [active EXCEPT ![w] = NoAttempt]
        \/ /\ \/ Rejected(held(t)) \/ Repeated(held(t), after(t))
              \/ Raised(held(t), after(t))
           /\ UNCHANGED active
  BY DEF Release
<1>2. t \in Nat /\ item \in Items /\ faults \in Nat
  BY ClockReadsAreNumbers DEF TypeOK
<1>3. after(t) \in Items
  BY <1>2, WithStatusIsItem DEF ProcessingStatus
<1> HIDE DEF held, after
<1>4. item' \in {item, after(t)} /\ faults' \in {faults, faults + 1}
  BY <1>1 DEF Applied, Rejected, Repeated, Raised, NoFault, Fault
<1>5. run' \in [Workers -> Runs] /\ queue' \in [0..MaxRetries -> Nat]
  BY RetryKeepsTypes DEF Release
<1>6. active' \in [Workers -> Nat]
  BY <1>1 DEF TypeOK
<1> QED
  BY <1>2, <1>3, <1>4, <1>5, <1>6 DEF TypeOK, Release, world

LEMMA EnvironmentTypes ==
  ASSUME TypeOK, \/ Duplicate \/ Tick \/ Rest \/ UNCHANGED vars
                 \/ \E w \in Workers : Kill(w)
  PROVE  TypeOK'
<1>1. CASE Duplicate
  <2>1. queue' \in [0..MaxRetries -> Nat]
    BY <1>1, RuntimeAssumption DEF TypeOK, Duplicate
  <2> QED
    BY <1>1, <2>1 DEF TypeOK, Duplicate, world
<1>2. CASE Tick
  BY <1>2 DEF TypeOK, Tick, world, delivery
<1>3. CASE Rest \/ UNCHANGED vars
  BY <1>3 DEF TypeOK, Rest, vars, world, delivery
<1>4. ASSUME NEW w \in Workers, Kill(w) PROVE TypeOK'
  <2>1. run' \in [Workers -> Runs] /\ queue' \in [0..MaxRetries -> Nat]
    BY <1>4, RetryKeepsTypes DEF Kill
  <2>2. active' \in [Workers -> Nat] /\ faults' \in Nat
    BY <1>4 DEF TypeOK, Kill, Fault
  <2> QED
    BY <1>4, <2>1, <2>2 DEF TypeOK, Kill, world
<1> QED
  BY <1>1, <1>2, <1>3, <1>4

(* Every variable keeps its type: no step of the handler, the publisher,   *)
(* the state store, EventBridge or Lambda writes outside it.               *)
THEOREM Typing == Spec => []TypeOK
<1>1. TypeOK /\ [Next]_vars => TypeOK'
  <2> SUFFICES ASSUME TypeOK, [Next]_vars PROVE TypeOK'
    OBVIOUS
  <2>1. ASSUME NEW w \in Workers, Handle(w) PROVE TypeOK'
    BY <2>1, LoadTopologyTypes, PutItemTypes, ResumeItemTypes, LookupItemTypes,
       CollectTypes, InvestigateTypes, PutBundleTypes, RecordOutcomeTypes,
       AdvanceCheckpointTypes, RecheckCheckpointTypes, FindIssueTypes,
       CreateIssueTypes, SendSlackTypes, CompleteTypes, ReleaseTypes
       DEF Handle
  <2> QED
    BY <2>1, ReceiveTypes, EnvironmentTypes DEF Next
<1> QED
  BY <1>1, InitTypes, PTL DEF Spec

-----------------------------------------------------------------------------
(* Mutual exclusion of attempts.                                           *)

(* What a step of an owner w does, seen from the claim: w moves along as   *)
(* an owner or ends, and the item stays or takes one write made under the  *)
(* fencing condition, at a clock value t of the call.                      *)
OthersKept(w) == \A v \in Workers \ {w} : run'[v] = run[v]
                                          /\ active'[v] = active[v]

Moves(w) ==
  /\ run'[w].attempt = run[w].attempt /\ run'[w].started = run[w].started
  /\ run[w].since <= run'[w].since /\ run'[w].since <= now
  /\ run'[w].pc \in Owning

Ends(w) == run'[w] = IdleRun

FencedWrite(w) ==
  \E t \in ClockReads(w) :
    /\ Held(item, run[w].attempt, t)
    /\ item'.attempt = item.attempt /\ item'.lease = t + Lease
    /\ \/ item'.status = "processing"
       \/ item'.status = "complete" /\ (run'[w].pc = "release" \/ Ends(w))
       \/ item'.status = "retryable" /\ Ends(w)

OwnerStep(w) ==
  /\ Owns(w) /\ UNCHANGED <<attempts, now>> /\ OthersKept(w)
  /\ (Moves(w) /\ UNCHANGED active) \/ Ends(w)
  /\ item' = item \/ FencedWrite(w)
  /\ item' = item => (run'[w].pc = "release" \/ run[w].pc # "release" \/ Ends(w))

(* The claim of an event succeeds only when nobody owns it: an owner is    *)
(* within its timeout and its lease runs longer.                           *)
LEMMA ClaimExcludesOwners ==
  ASSUME TypeOK, OwnershipInv, NEW t \in Nat, t <= now,
         item.status = "absent" \/ CanResume(item, t)
  PROVE  \A v \in Workers : ~Owns(v)
<1> SUFFICES ASSUME NEW v \in Workers, Owns(v) PROVE FALSE
  OBVIOUS
<1>1. /\ run[v].started \in Nat /\ now \in Nat /\ item.lease \in Nat
      /\ Timeout \in Nat /\ Lease \in Nat /\ Timeout <= Lease
  BY RuntimeAssumption, LeaseAssumption DEF TypeOK, Runs, Items
<1>2. run[v].pc # "idle"
  BY DEF Owns, Owning
<1>3. now <= run[v].started + Timeout
  BY <1>2 DEF OwnershipInv, FencedAttempt
<1>4. \/ item.status = "processing" /\ item.lease >= run[v].started + Lease
      \/ item.status = "complete"
  BY DEF OwnershipInv, FencedAttempt
<1>5. item.status # "absent" /\ CanResume(item, t)
  BY <1>4
<1>6. item.status = "processing" /\ item.lease >= run[v].started + Lease
  BY <1>4, <1>5 DEF CanResume
<1>7. item.lease < t
  BY <1>5, <1>6 DEF CanResume
<1> QED
  BY <1>1, <1>3, <1>6, <1>7

LEMMA OwnersAreOne == ASSUME TypeOK, OwnershipInv PROVE AtMostOneOwner
<1> SUFFICES ASSUME NEW v \in Workers, NEW w \in Workers, Owns(v), Owns(w)
             PROVE  v = w
  BY DEF AtMostOneOwner
<1>1. run[v].attempt = item.attempt /\ run[w].attempt = item.attempt
  BY DEF OwnershipInv, FencedAttempt
<1>2. run[w].pc \notin {"idle", "load"}
  BY DEF Owns, Owning
<1>3. run[w].attempt # NoAttempt
  BY <1>2 DEF OwnershipInv, FencedAttempt
<1> QED
  BY <1>1, <1>3 DEF OwnershipInv, FencedAttempt

(* A step of an owner keeps the invariant.                                 *)
LEMMA OwnerStepKeepsInv ==
  ASSUME TypeOK, TypeOK', OwnershipInv, NEW w \in Workers, OwnerStep(w)
  PROVE  OwnershipInv'
<1> SUFFICES ASSUME NEW u \in Workers PROVE FencedAttempt(u)'
  BY DEF OwnershipInv
<1>1. \A v \in Workers : run[v].attempt \in Nat /\ run[v].started \in Nat
                         /\ run[v].since \in Nat
  BY DEF TypeOK, Runs
<1>2. attempts \in Nat /\ now \in Nat /\ Lease \in Nat /\ Timeout \in Nat
  BY RuntimeAssumption, LeaseAssumption DEF TypeOK
<1>3. Owns(w) /\ run[w].pc \notin {"idle", "load"}
  BY DEF OwnerStep, Owns, Owning
<1>4. attempts' = attempts /\ now' = now
  BY DEF OwnerStep
<1>5. \A v \in Workers : run'[v].attempt \in {run[v].attempt, NoAttempt}
  BY DEF OwnerStep, OthersKept, Moves, Ends, IdleRun
<1>6. CASE u # w
  <2>1. run'[u] = run[u] /\ active'[u] = active[u]
    BY <1>6 DEF OwnerStep, OthersKept
  <2>2. ~Owns(u)
    BY <1>3, <1>6, OwnersAreOne DEF AtMostOneOwner
  <2>3. ~Owns(u)'
    BY <2>1, <2>2 DEF Owns
  <2> QED
    BY <1>1, <1>4, <1>5, <2>1, <2>3 DEF OwnershipInv, FencedAttempt
<1>7. CASE u = w /\ Ends(w)
  <2>1. run'[u].pc = "idle" /\ run'[u].attempt = NoAttempt
    BY <1>7 DEF Ends, IdleRun
  <2>2. ~Owns(u)'
    BY <2>1 DEF Owns, Owning
  <2> QED
    BY <1>2, <1>4, <2>1, <2>2 DEF FencedAttempt
<1>8. CASE u = w /\ Moves(w) /\ UNCHANGED active
  <2>1. /\ run'[u].attempt = run[u].attempt /\ run'[u].started = run[u].started
        /\ run[u].since <= run'[u].since /\ run'[u].since <= now
        /\ run'[u].pc \notin {"idle", "load"}
    BY <1>8 DEF Moves, Owning
  <2>2. /\ run[u].started <= run[u].since /\ now <= run[u].started + Timeout
        /\ run[u].attempt # NoAttempt /\ run[u].attempt <= attempts
        /\ active[u] = run[u].attempt /\ item.attempt = run[u].attempt
    BY <1>3, <1>8 DEF OwnershipInv, FencedAttempt
  <2>3. run'[u].since \in Nat
    BY DEF TypeOK, Runs
  <2>4. ~Ends(w)
    BY <1>8, <2>1 DEF Ends, IdleRun
  <2>5. /\ item'.attempt = item.attempt
        /\ \/ item'.status = "processing"
              /\ item'.lease >= run[u].started + Lease
           \/ item'.status = "complete" /\ run'[u].pc = "release"
    <3>1. CASE item' = item
      BY <3>1, <1>3, <1>8, <2>4 DEF OwnershipInv, FencedAttempt, OwnerStep
    <3>2. CASE FencedWrite(w)
      <4>1. PICK t \in ClockReads(w) :
              /\ item'.attempt = item.attempt /\ item'.lease = t + Lease
              /\ \/ item'.status = "processing"
                 \/ item'.status = "complete" /\ run'[w].pc = "release"
        BY <3>2, <2>4 DEF FencedWrite
      <4>2. t \in Nat /\ run[u].started <= t
        BY <1>1, <1>2, <1>8, <2>2 DEF ClockReads
      <4> QED
        BY <1>1, <1>2, <1>8, <4>1, <4>2
    <3> QED
      BY <3>1, <3>2 DEF OwnerStep
  <2>6. \A v \in Workers : run'[v].attempt = run'[u].attempt =>
                             v = u \/ run'[u].attempt = NoAttempt
    BY <1>5, <1>8, <2>1, <2>2 DEF OwnershipInv, FencedAttempt
  <2> QED
    BY <1>1, <1>2, <1>4, <1>8, <2>1, <2>2, <2>3, <2>5, <2>6 DEF FencedAttempt
<1> QED
  BY <1>6, <1>7, <1>8 DEF OwnerStep

(* What the shared pieces of a step do to run.                             *)
LEMMA GotoEffect ==
  ASSUME TypeOK, NEW w \in Workers, NEW label \in Labels, NEW t \in Nat,
         GotoWith(w, label, t)
  PROVE  /\ run'[w] = [run[w] EXCEPT !.pc = label, !.since = t]
         /\ run'[w].pc = label /\ run'[w].since = t
         /\ run'[w].attempt = run[w].attempt
         /\ run'[w].started = run[w].started
         /\ \A v \in Workers \ {w} : run'[v] = run[v]
<1>1. run'[w] = [run[w] EXCEPT !.pc = label, !.since = t]
  BY DEF TypeOK, GotoWith
<1>2. run[w] \in Runs
  BY DEF TypeOK
<1>3. \A v \in Workers \ {w} : run'[v] = run[v]
  BY DEF TypeOK, GotoWith
<1> QED
  BY <1>1, <1>2, <1>3 DEF Runs

LEMMA EndEffect ==
  ASSUME TypeOK, NEW w \in Workers, Return(w) \/ Retry(w)
  PROVE  Ends(w) /\ \A v \in Workers \ {w} : run'[v] = run[v]
BY DEF TypeOK, Return, Retry, Ends

(* Moving to a label of an owner at the current clock, whatever locals     *)
(* change on the way.                                                      *)
LEMMA OwnerMoves ==
  ASSUME TypeOK, OwnershipInv, NEW w \in Workers, Owns(w),
         \/ \E label \in Owning : Goto(w, label)
         \/ \E label \in Owning, t \in ClockReads(w) : GotoWith(w, label, t)
         \/ \E c \in Checkpoint : Mark(w, c)
         \/ IssueKnown(w) \/ \E s \in SlackStatus : SlackTried(w, s)
  PROVE  Moves(w) /\ \A v \in Workers \ {w} : run'[v] = run[v]
<1>1. run[w] \in Runs /\ now \in Nat /\ run \in [Workers -> Runs]
  BY DEF TypeOK
<1>2. run[w].since \in Nat /\ run[w].since <= now
  BY <1>1 DEF OwnershipInv, FencedAttempt, Owns, Owning, Runs
<1>3. CASE \E label \in Owning : Goto(w, label)
  <2>1. PICK label \in Owning : GotoWith(w, label, now)
    BY <1>3 DEF Goto
  <2>2. /\ run'[w] = [run[w] EXCEPT !.pc = label, !.since = now]
        /\ \A v \in Workers \ {w} : run'[v] = run[v]
    BY <1>1, <2>1 DEF GotoWith
  <2> QED
    BY <1>1, <1>2, <2>2 DEF Moves, Runs
<1>4. CASE \E label \in Owning, t \in ClockReads(w) : GotoWith(w, label, t)
  <2>1. PICK label \in Owning, t \in ClockReads(w) : GotoWith(w, label, t)
    BY <1>4
  <2>2. /\ run'[w] = [run[w] EXCEPT !.pc = label, !.since = t]
        /\ \A v \in Workers \ {w} : run'[v] = run[v]
    BY <1>1, <2>1 DEF GotoWith
  <2> QED
    BY <1>1, <1>2, <2>2 DEF Moves, ClockReads, Runs
<1>5. CASE \E c \in Checkpoint : Mark(w, c)
  <2>1. PICK c \in Checkpoint : Mark(w, c)
    BY <1>5
  <2>2. PICK first \in {"advance", "record"} :
          run' = [run EXCEPT ![w] = [@ EXCEPT !.pc = first, !.stage = c,
                                              !.since = now]]
    BY <2>1 DEF Mark
  <2>3. run'[w] = [run[w] EXCEPT !.pc = first, !.stage = c, !.since = now]
    BY <1>1, <2>2
  <2>4. first \in Owning
    BY DEF Owning
  <2>5. \A v \in Workers \ {w} : run'[v] = run[v]
    BY <1>1, <2>2
  <2> QED
    BY <1>1, <1>2, <2>3, <2>4, <2>5 DEF Moves, Runs
<1>6. CASE IssueKnown(w)
  <2>1. run'[w] = [run[w] EXCEPT !.link = TRUE, !.pc = "record",
                                 !.stage = 3, !.since = now]
    BY <1>1, <1>6 DEF IssueKnown
  <2>2. \A v \in Workers \ {w} : run'[v] = run[v]
    BY <1>1, <1>6 DEF IssueKnown
  <2> QED
    BY <1>1, <1>2, <2>1, <2>2 DEF Moves, Runs, Owning
<1>7. CASE \E s \in SlackStatus : SlackTried(w, s)
  <2>1. PICK s \in SlackStatus : SlackTried(w, s)
    BY <1>7
  <2>2. run'[w] = [run[w] EXCEPT !.slack = s, !.pc = "record",
                                 !.stage = 4, !.since = now]
    BY <1>1, <2>1 DEF SlackTried
  <2>3. \A v \in Workers \ {w} : run'[v] = run[v]
    BY <1>1, <2>1 DEF SlackTried
  <2> QED
    BY <1>1, <1>2, <2>2, <2>3 DEF Moves, Runs, Owning
<1> QED
  BY <1>3, <1>4, <1>5, <1>6, <1>7

(* The steps of an owner that leave the item and its own cache alone.      *)
LEMMA QuietOwnerSteps ==
  ASSUME TypeOK, OwnershipInv, NEW w \in Workers,
         \/ Collect(w) \/ Investigate(w) \/ PutBundle(w)
         \/ RecheckCheckpoint(w) \/ FindIssue(w) \/ CreateIssue(w)
         \/ SendSlack(w)
  PROVE  OwnerStep(w)
<1>1. /\ Owns(w) /\ run[w].pc # "release"
      /\ UNCHANGED <<item, active, attempts, now>>
  BY DEF Owns, Owning, Collect, Investigate, PutBundle, RecheckCheckpoint,
         FindIssue, CreateIssue, SendSlack
<1>2. \/ \E label \in Owning : Goto(w, label)
      \/ \E c \in Checkpoint : Mark(w, c)
      \/ IssueKnown(w) \/ \E s \in SlackStatus : SlackTried(w, s)
  <2>1. {"release", "putBundle", "createIssue", "sendSlack"} \subseteq Owning
    BY DEF Owning
  <2>2. AfterMark(run[w]) \in Owning /\ {1, 2} \subseteq Checkpoint
        /\ {"sent", "failed"} \subseteq SlackStatus
    BY AfterMarkTypes DEF Checkpoint, SlackStatus
  <2>3. CASE Collect(w)
    BY <2>1, <2>2, <2>3 DEF Collect
  <2>4. CASE Investigate(w)
    BY <2>1, <2>4 DEF Investigate
  <2>5. CASE PutBundle(w)
    BY <2>1, <2>2, <2>5 DEF PutBundle
  <2>6. CASE RecheckCheckpoint(w)
    BY <2>1, <2>2, <2>6 DEF RecheckCheckpoint
  <2>7. CASE FindIssue(w)
    BY <2>1, <2>7 DEF FindIssue
  <2>8. CASE CreateIssue(w)
    BY <2>1, <2>8 DEF CreateIssue
  <2>9. CASE SendSlack(w)
    BY <2>1, <2>2, <2>9 DEF SendSlack
  <2> QED
    BY <2>3, <2>4, <2>5, <2>6, <2>7, <2>8, <2>9
<1>3. Moves(w) /\ \A v \in Workers \ {w} : run'[v] = run[v]
  BY <1>1, <1>2, OwnerMoves
<1> QED
  BY <1>1, <1>3 DEF OwnerStep, OthersKept

(* The steps of an owner that write the item, each under the fencing       *)
(* condition of the state store.                                           *)
LEMMA RecordOutcomeStep ==
  ASSUME TypeOK, OwnershipInv, NEW w \in Workers, RecordOutcome(w)
  PROVE  OwnerStep(w)
<1>1. Owns(w) /\ run[w].pc # "release" /\ active[w] = run[w].attempt
  BY DEF Owns, Owning, RecordOutcome, OwnershipInv, FencedAttempt
<1>2. PICK t \in ClockReads(w) :
        \/ /\ Held(item, active[w], t)
           /\ item' = WithOutcome(item, run[w].stage, run[w].slack, t)
           /\ Goto(w, "advance") \/ Goto(w, "release")
        \/ item' = item /\ Goto(w, "release")
  BY DEF RecordOutcome, Applied, Rejected, Raised
<1>3. {"advance", "release"} \subseteq Owning
  BY DEF Owning
<1>4. Moves(w) /\ \A v \in Workers \ {w} : run'[v] = run[v]
  BY <1>1, <1>2, <1>3, OwnerMoves
<1>5. item' = item \/ FencedWrite(w)
  <2>1. ASSUME item' = WithOutcome(item, run[w].stage, run[w].slack, t)
        PROVE  item'.attempt = item.attempt /\ item'.status = item.status
               /\ item'.lease = t + Lease
    BY <2>1 DEF WithOutcome, TypeOK, Items
  <2> QED
    BY <1>1, <1>2, <2>1 DEF FencedWrite, Held
<1> QED
  BY <1>1, <1>4, <1>5 DEF OwnerStep, OthersKept, RecordOutcome

LEMMA AdvanceCheckpointStep ==
  ASSUME TypeOK, OwnershipInv, NEW w \in Workers, AdvanceCheckpoint(w)
  PROVE  OwnerStep(w)
<1>1. Owns(w) /\ run[w].pc # "release" /\ active[w] = run[w].attempt
  BY DEF Owns, Owning, AdvanceCheckpoint, OwnershipInv, FencedAttempt
<1>2. PICK t \in ClockReads(w) :
        /\ \/ /\ Held(item, active[w], t)
              /\ item' = Advanced(item, run[w].stage, t)
           \/ item' = item
        /\ \/ Goto(w, AfterMark(run[w])) \/ GotoWith(w, "recheck", t)
           \/ Goto(w, "release")
  BY DEF AdvanceCheckpoint, Applied, Rejected, Repeated, Raised, CanAdvance
<1>3. {"recheck", "release"} \subseteq Owning /\ AfterMark(run[w]) \in Owning
  BY AfterMarkTypes DEF Owning
<1>4. Moves(w) /\ \A v \in Workers \ {w} : run'[v] = run[v]
  BY <1>1, <1>2, <1>3, OwnerMoves
<1>5. item' = item \/ FencedWrite(w)
  <2>1. ASSUME item' = Advanced(item, run[w].stage, t)
        PROVE  item'.attempt = item.attempt /\ item'.status = item.status
               /\ item'.lease = t + Lease
    BY <2>1 DEF Advanced, TypeOK, Items
  <2> QED
    BY <1>1, <1>2, <2>1 DEF FencedWrite, Held
<1> QED
  BY <1>1, <1>4, <1>5 DEF OwnerStep, OthersKept, AdvanceCheckpoint

(* WithStatus changes the status and the lease, and nothing else.          *)
LEMMA WithStatusEffect ==
  ASSUME NEW i \in Items, NEW s, NEW t
  PROVE  /\ WithStatus(i, s, t).status = s
         /\ WithStatus(i, s, t).attempt = i.attempt
         /\ WithStatus(i, s, t).lease = t + Lease
BY DEF WithStatus, Items

LEMMA CompleteStep ==
  ASSUME TypeOK, OwnershipInv, NEW w \in Workers, Complete(w)
  PROVE  OwnerStep(w)
<1>1. Owns(w) /\ run[w].pc # "release"
  BY DEF Owns, Owning, Complete
<1>2. PICK t \in ClockReads(w) :
        /\ \/ /\ Held(item, run[w].attempt, t)
              /\ item' = WithStatus(item, "complete", t)
           \/ item' = item
        /\ \/ Return(w) /\ active' = [active EXCEPT ![w] = NoAttempt]
           \/ Goto(w, "release") /\ UNCHANGED active
  BY DEF Complete, Applied, Rejected, Repeated, Raised
<1>3. "release" \in Owning
  BY DEF Owning
<1>4. CASE Return(w) /\ active' = [active EXCEPT ![w] = NoAttempt]
  <2>1. Ends(w) /\ OthersKept(w)
    BY <1>4, EndEffect DEF OthersKept, TypeOK
  <2>2. item' = item \/ FencedWrite(w)
    BY <1>2, <2>1, WithStatusEffect DEF FencedWrite, TypeOK
  <2> QED
    BY <1>1, <2>1, <2>2 DEF OwnerStep, Complete
<1>5. CASE Goto(w, "release") /\ UNCHANGED active
  <2>1. Moves(w) /\ OthersKept(w) /\ run'[w].pc = "release"
    BY <1>1, <1>3, <1>5, OwnerMoves, GotoEffect, LabelTypes
       DEF OthersKept, Goto, TypeOK
  <2>2. item' = item \/ FencedWrite(w)
    BY <1>2, <2>1, WithStatusEffect DEF FencedWrite, TypeOK
  <2> QED
    BY <1>1, <1>5, <2>1, <2>2 DEF OwnerStep, Complete
<1> QED
  BY <1>2, <1>4, <1>5

LEMMA ReleaseStep ==
  ASSUME TypeOK, OwnershipInv, NEW w \in Workers, Release(w)
  PROVE  OwnerStep(w)
<1>1. Owns(w) /\ Retry(w) /\ UNCHANGED <<attempts, now>>
  BY DEF Owns, Owning, Release
<1>2. PICK t \in ClockReads(w) :
        /\ \/ /\ Held(item, run[w].attempt, t)
              /\ item' = WithStatus(item, "retryable", t)
           \/ item' = item
        /\ \/ active' = [active EXCEPT ![w] = NoAttempt] \/ UNCHANGED active
  BY DEF Release, Applied, Rejected, Repeated, Raised
<1>3. Ends(w) /\ OthersKept(w)
  BY <1>1, <1>2, EndEffect DEF OthersKept, TypeOK
<1>4. item' = item \/ FencedWrite(w)
  BY <1>2, <1>3, WithStatusEffect DEF FencedWrite, TypeOK
<1> QED
  BY <1>1, <1>3, <1>4 DEF OwnerStep

LEMMA KillStep ==
  ASSUME TypeOK, OwnershipInv, NEW w \in Workers, Kill(w), Owns(w)
  PROVE  OwnerStep(w)
<1>1. Ends(w) /\ OthersKept(w)
  BY EndEffect DEF Kill, OthersKept, TypeOK
<1> QED
  BY <1>1 DEF OwnerStep, Kill

(* An invocation that is about to claim moves or ends; the item may change *)
(* only if nobody owns the event.  It owns the event afterwards only as    *)
(* the new holder of the item.                                             *)
ClaimStep(w) ==
  /\ run[w].pc # "idle" /\ ~Owns(w)
  /\ UNCHANGED now /\ attempts' \in {attempts, attempts + 1}
  /\ \A v \in Workers \ {w} : run'[v] = run[v] /\ active'[v] = active[v]
  /\ item' = item \/ \A v \in Workers : ~Owns(v)
  /\ \/ Ends(w)
     \/ /\ run'[w].started = run[w].started
        /\ run[w].since <= run'[w].since /\ run'[w].since <= now
        /\ \/ /\ run[w].pc = "load" /\ run'[w].pc = "put"
              /\ run'[w].attempt = attempts + 1 /\ attempts' = attempts + 1
           \/ /\ run[w].pc # "load" /\ run'[w].attempt = run[w].attempt
              /\ run'[w].pc \in {"resume", "lookup"}
           \/ /\ run[w].pc # "load" /\ run'[w].attempt = run[w].attempt
              /\ run'[w].pc = "collect" /\ active'[w] = run[w].attempt
              /\ item'.attempt = run[w].attempt /\ item'.status = "processing"
              /\ item'.lease >= run[w].started + Lease

LEMMA ClaimStepKeepsInv ==
  ASSUME TypeOK, TypeOK', OwnershipInv, NEW w \in Workers, ClaimStep(w)
  PROVE  OwnershipInv'
<1>1. \A v \in Workers : FencedAttempt(v) /\ run[v].attempt \in Nat
  BY DEF OwnershipInv, TypeOK, Runs
<1>2. attempts \in Nat /\ now \in Nat /\ now' = now
      /\ attempts' \in {attempts, attempts + 1}
  BY DEF TypeOK, ClaimStep
<1>3. \A v \in Workers \ {w} : run'[v] = run[v] /\ active'[v] = active[v]
  BY DEF ClaimStep
<1>4. \A v \in Workers : FencedAttempt(v)'
  <2> SUFFICES ASSUME NEW u \in Workers PROVE FencedAttempt(u)'
    OBVIOUS
  <2>1. \A v \in Workers : run'[v].attempt = run'[u].attempt =>
                             v = u \/ run'[u].attempt = NoAttempt
    <3>1. \A v \in Workers : run[v].attempt <= attempts
      BY <1>1 DEF FencedAttempt
    <3>2. run'[w].attempt \in {NoAttempt, attempts + 1, run[w].attempt}
      BY DEF ClaimStep, Ends, IdleRun
    <3>3. \A x, y \in Workers : run[x].attempt = run[y].attempt =>
                                  x = y \/ run[y].attempt = NoAttempt
      BY <1>1 DEF FencedAttempt
    <3> QED
      BY <1>1, <1>2, <1>3, <3>1, <3>2, <3>3
  <2>2. CASE u # w
    <3>1. run'[u] = run[u] /\ active'[u] = active[u] /\ Owns(u)' = Owns(u)
      BY <1>3, <2>2 DEF Owns
    <3>2. Owns(u) => item' = item
      BY DEF ClaimStep
    <3> QED
      BY <1>1, <1>2, <2>1, <3>1, <3>2 DEF FencedAttempt
  <2>3. CASE u = w /\ Ends(w)
    <3>1. run'[u].pc = "idle" /\ run'[u].attempt = NoAttempt /\ ~Owns(u)'
      BY <2>3 DEF Ends, IdleRun, Owns, Owning
    <3> QED
      BY <1>2, <2>1, <3>1 DEF FencedAttempt
  <2>4. CASE u = w /\ ~Ends(w)
    <3>1. /\ run[w].started <= run[w].since /\ now <= run[w].started + Timeout
          /\ run[w].attempt <= attempts
          /\ run[w].pc # "load" => run[w].attempt # NoAttempt
      BY <1>1 DEF FencedAttempt, ClaimStep
    <3>2. /\ run'[w].started = run[w].started
          /\ run[w].since <= run'[w].since /\ run'[w].since <= now
          /\ run[w].started \in Nat /\ run[w].since \in Nat
          /\ run'[w].since \in Nat
      BY <2>4 DEF ClaimStep, TypeOK, Runs
    <3>3. run'[w].started <= run'[w].since
      BY <3>1, <3>2
    <3>4. CASE /\ run[w].pc = "load" /\ run'[w].pc = "put"
               /\ run'[w].attempt = attempts + 1 /\ attempts' = attempts + 1
      <4>1. ~Owns(u)'
        BY <2>4, <3>4 DEF Owns, Owning
      <4> QED
        BY <1>2, <2>1, <2>4, <3>1, <3>2, <3>3, <3>4, <4>1 DEF FencedAttempt
    <3>5. CASE /\ run[w].pc # "load" /\ run'[w].attempt = run[w].attempt
               /\ run'[w].pc \in {"resume", "lookup"}
      <4>1. ~Owns(u)'
        BY <2>4, <3>5 DEF Owns, Owning
      <4>2. run'[w].attempt <= attempts'
        BY <1>1, <1>2, <3>1, <3>5
      <4> QED
        BY <1>2, <2>1, <2>4, <3>1, <3>2, <3>3, <3>5, <4>1, <4>2 DEF FencedAttempt
    <3>6. CASE /\ run[w].pc # "load" /\ run'[w].attempt = run[w].attempt
               /\ run'[w].pc = "collect" /\ active'[w] = run[w].attempt
               /\ item'.attempt = run[w].attempt /\ item'.status = "processing"
               /\ item'.lease >= run[w].started + Lease
      <4>1. run'[w].attempt <= attempts'
        BY <1>1, <1>2, <3>1, <3>6
      <4> QED
        BY <1>2, <2>1, <2>4, <3>1, <3>2, <3>3, <3>6, <4>1 DEF FencedAttempt
    <3> QED
      BY <2>4, <3>4, <3>5, <3>6 DEF ClaimStep
  <2> QED
    BY <2>2, <2>3, <2>4
<1> QED
  BY <1>4 DEF OwnershipInv, FencedAttempt

LEMMA LoadTopologyStep ==
  ASSUME TypeOK, OwnershipInv, NEW w \in Workers, LoadTopology(w)
  PROVE  ClaimStep(w)
<1>1. /\ run[w].pc = "load" /\ ~Owns(w) /\ UNCHANGED <<now, item, active>>
      /\ run[w] \in Runs /\ run \in [Workers -> Runs] /\ now \in Nat
  BY DEF TypeOK, LoadTopology, Owns, Owning
<1>2. CASE Retry(w) /\ UNCHANGED attempts
  BY <1>1, <1>2, EndEffect DEF ClaimStep
<1>3. CASE /\ attempts' = attempts + 1
           /\ run' = [run EXCEPT ![w] = [@ EXCEPT !.pc = "put",
                        !.since = now, !.attempt = attempts + 1]]
  <2>1. /\ run'[w] = [run[w] EXCEPT !.pc = "put", !.since = now,
                                    !.attempt = attempts + 1]
        /\ \A v \in Workers \ {w} : run'[v] = run[v]
    BY <1>1, <1>3
  <2>2. run[w].since <= now
    BY <1>1 DEF OwnershipInv, FencedAttempt
  <2> QED
    BY <1>1, <1>3, <2>1, <2>2 DEF ClaimStep, Runs
<1> QED
  BY <1>2, <1>3 DEF LoadTopology

(* The item a claim writes: owned by a, leased from the clock t it read.   *)
LEMMA ClaimEffect ==
  ASSUME NEW i \in Items, NEW a, NEW t
  PROVE  /\ NewEventItem(a, t).attempt = a
         /\ NewEventItem(a, t).status = "processing"
         /\ NewEventItem(a, t).lease = t + Lease
         /\ Resumed(i, a, t).attempt = a
         /\ Resumed(i, a, t).status = "processing"
         /\ Resumed(i, a, t).lease = t + Lease
BY DEF NewEventItem, NoItem, Resumed, Items

LEMMA PutItemStep ==
  ASSUME TypeOK, OwnershipInv, NEW w \in Workers, PutItem(w)
  PROVE  ClaimStep(w)
<1>1. /\ run[w].pc = "put" /\ ~Owns(w) /\ UNCHANGED <<now, attempts>>
      /\ run[w] \in Runs /\ run \in [Workers -> Runs] /\ now \in Nat
      /\ active \in [Workers -> Nat] /\ item \in Items
  BY DEF TypeOK, PutItem, Owns, Owning
<1>2. PICK t \in ClockReads(w) :
        \/ /\ item.status = "absent"
           /\ item' = NewEventItem(run[w].attempt, t)
           /\ GotoWith(w, "collect", now)
           /\ active' = [active EXCEPT ![w] = run[w].attempt]
        \/ /\ item' = item \/ item.status = "absent"
           /\ GotoWith(w, "resume", t) \/ Retry(w)
           /\ UNCHANGED active
  BY DEF PutItem, Applied, Rejected, Repeated, Raised, Goto
<1>3. /\ run[w].started \in Nat /\ run[w].since \in Nat /\ t \in Nat
      /\ run[w].started <= run[w].since /\ run[w].since <= t /\ t <= now
  BY <1>1 DEF OwnershipInv, FencedAttempt, ClockReads, Runs
<1>4. item.status = "absent" => \A v \in Workers : ~Owns(v)
  BY <1>3, ClaimExcludesOwners
<1>5. \A v \in Workers \ {w} : run'[v] = run[v] /\ active'[v] = active[v]
  BY <1>1, <1>2 DEF GotoWith, Retry
<1>6. CASE /\ item.status = "absent"
           /\ item' = NewEventItem(run[w].attempt, t)
           /\ GotoWith(w, "collect", now)
           /\ active' = [active EXCEPT ![w] = run[w].attempt]
  <2>1. run'[w] = [run[w] EXCEPT !.pc = "collect", !.since = now]
    BY <1>1, <1>6 DEF GotoWith
  <2>2. /\ item'.attempt = run[w].attempt /\ item'.status = "processing"
        /\ item'.lease = t + Lease
    BY <1>1, <1>6, ClaimEffect
  <2>3. item'.lease >= run[w].started + Lease
    BY <1>3, <2>2, LeaseAssumption
  <2>4. active'[w] = run[w].attempt
    BY <1>1, <1>6
  <2> QED
    BY <1>1, <1>3, <1>4, <1>5, <1>6, <2>1, <2>2, <2>3, <2>4 DEF ClaimStep, Runs
<1>7. CASE /\ item' = item \/ item.status = "absent"
           /\ GotoWith(w, "resume", t)
  <2>1. run'[w] = [run[w] EXCEPT !.pc = "resume", !.since = t]
    BY <1>1, <1>7 DEF GotoWith
  <2> QED
    BY <1>1, <1>3, <1>4, <1>5, <1>7, <2>1 DEF ClaimStep, Runs
<1>8. CASE (item' = item \/ item.status = "absent") /\ Retry(w)
  BY <1>1, <1>4, <1>5, <1>8, EndEffect DEF ClaimStep
<1> QED
  BY <1>2, <1>6, <1>7, <1>8

LEMMA ResumeItemStep ==
  ASSUME TypeOK, OwnershipInv, NEW w \in Workers, ResumeItem(w)
  PROVE  ClaimStep(w)
<1> DEFINE t == run[w].since
<1>1. /\ run[w].pc = "resume" /\ ~Owns(w) /\ UNCHANGED <<now, attempts>>
      /\ run[w] \in Runs /\ run \in [Workers -> Runs] /\ now \in Nat
      /\ active \in [Workers -> Nat] /\ item \in Items
  BY DEF TypeOK, ResumeItem, Owns, Owning
<1>2. \/ /\ CanResume(item, t)
         /\ item' = Resumed(item, run[w].attempt, t)
         /\ GotoWith(w, "collect", now)
         /\ active' = [active EXCEPT ![w] = run[w].attempt]
      \/ /\ item' = item \/ CanResume(item, t)
         /\ GotoWith(w, "lookup", now) \/ Retry(w)
         /\ UNCHANGED active
  BY DEF ResumeItem, Applied, Rejected, Repeated, Raised, Goto
<1>3. /\ run[w].started \in Nat /\ t \in Nat
      /\ run[w].started <= t /\ t <= now
  BY <1>1 DEF OwnershipInv, FencedAttempt, Runs
<1> HIDE DEF t
<1>4. CanResume(item, t) => \A v \in Workers : ~Owns(v)
  BY <1>3, ClaimExcludesOwners
<1>5. \A v \in Workers \ {w} : run'[v] = run[v] /\ active'[v] = active[v]
  BY <1>1, <1>2 DEF GotoWith, Retry
<1>6. CASE /\ CanResume(item, t)
           /\ item' = Resumed(item, run[w].attempt, t)
           /\ GotoWith(w, "collect", now)
           /\ active' = [active EXCEPT ![w] = run[w].attempt]
  <2>1. run'[w] = [run[w] EXCEPT !.pc = "collect", !.since = now]
    BY <1>1, <1>6 DEF GotoWith
  <2>2. /\ item'.attempt = run[w].attempt /\ item'.status = "processing"
        /\ item'.lease = t + Lease
    BY <1>1, <1>6, ClaimEffect
  <2>3. item'.lease >= run[w].started + Lease
    BY <1>3, <2>2, LeaseAssumption
  <2>4. active'[w] = run[w].attempt
    BY <1>1, <1>6
  <2>5. run[w].since <= now
    BY <1>3 DEF t
  <2> QED
    BY <1>1, <1>3, <1>4, <1>5, <1>6, <2>1, <2>2, <2>3, <2>4, <2>5
       DEF ClaimStep, Runs
<1>7. CASE /\ item' = item \/ CanResume(item, t)
           /\ GotoWith(w, "lookup", now)
  <2>1. run'[w] = [run[w] EXCEPT !.pc = "lookup", !.since = now]
    BY <1>1, <1>7 DEF GotoWith
  <2>2. run[w].since <= now
    BY <1>3 DEF t
  <2> QED
    BY <1>1, <1>3, <1>4, <1>5, <1>7, <2>1, <2>2 DEF ClaimStep, Runs
<1>8. CASE (item' = item \/ CanResume(item, t)) /\ Retry(w)
  BY <1>1, <1>4, <1>5, <1>8, EndEffect DEF ClaimStep
<1> QED
  BY <1>2, <1>6, <1>7, <1>8

LEMMA LookupItemStep ==
  ASSUME TypeOK, OwnershipInv, NEW w \in Workers, LookupItem(w)
  PROVE  ClaimStep(w)
<1>1. /\ run[w].pc = "lookup" /\ ~Owns(w)
      /\ UNCHANGED <<now, attempts, item, active>>
      /\ Return(w) \/ Retry(w)
  BY DEF LookupItem, Owns, Owning
<1> QED
  BY <1>1, EndEffect DEF ClaimStep

LEMMA KillClaimingStep ==
  ASSUME TypeOK, OwnershipInv, NEW w \in Workers, Kill(w), ~Owns(w)
  PROVE  ClaimStep(w)
<1>1. Ends(w) /\ \A v \in Workers \ {w} : run'[v] = run[v]
                                          /\ active'[v] = active[v]
  BY EndEffect DEF Kill, TypeOK
<1> QED
  BY <1>1 DEF ClaimStep, Kill

LEMMA ReceiveKeepsInv ==
  ASSUME TypeOK, TypeOK', OwnershipInv, NEW w \in Workers, Receive(w)
  PROVE  OwnershipInv'
<1>1. PICK n \in 0..MaxRetries :
        run' = [run EXCEPT ![w] = [IdleRun EXCEPT
                  !.pc = "load", !.started = now, !.since = now, !.left = n]]
  BY DEF Receive
<1>2. /\ run \in [Workers -> Runs] /\ now \in Nat /\ attempts \in Nat
      /\ UNCHANGED <<item, active, attempts, now>> /\ Timeout \in Nat
      /\ run[w].pc = "idle"
  BY RuntimeAssumption DEF TypeOK, Receive
<1>3. /\ run'[w].pc = "load" /\ run'[w].attempt = NoAttempt
      /\ run'[w].started = now /\ run'[w].since = now
  BY <1>1, <1>2 DEF IdleRun
<1>4. \A v \in Workers \ {w} : run'[v] = run[v]
  BY <1>1, <1>2
<1>5. \A v \in Workers : FencedAttempt(v)
  BY DEF OwnershipInv
<1>6. \A u \in Workers : FencedAttempt(u)'
  <2> SUFFICES ASSUME NEW u \in Workers PROVE FencedAttempt(u)'
    OBVIOUS
  <2>1. CASE u = w
    <3>1. ~Owns(u)'
      BY <1>3, <2>1 DEF Owns, Owning
    <3> QED
      BY <1>2, <1>3, <2>1, <3>1 DEF FencedAttempt
  <2>2. CASE u # w
    <3>1. run'[u] = run[u] /\ Owns(u)' = Owns(u)
      BY <1>4, <2>2 DEF Owns
    <3>2. \A v \in Workers : run'[v].attempt \in {run[v].attempt, NoAttempt}
      BY <1>3, <1>4
    <3> QED
      BY <1>2, <1>5, <3>1, <3>2 DEF FencedAttempt
  <2> QED
    BY <2>1, <2>2
<1> QED
  BY <1>6 DEF OwnershipInv

LEMMA TickKeepsInv ==
  ASSUME TypeOK, OwnershipInv, Tick
  PROVE  OwnershipInv'
<1>1. /\ UNCHANGED <<item, run, active, attempts>> /\ now' = now + 1
      /\ now \in Nat /\ Timeout \in Nat
      /\ \A w \in Workers : run[w].pc # "idle" => now < run[w].started + Timeout
  BY RuntimeAssumption DEF TypeOK, Tick
<1>2. \A w \in Workers : run[w].started \in Nat /\ run[w].since \in Nat
  BY DEF TypeOK, Runs
<1>3. \A w \in Workers : FencedAttempt(w)'
  <2> SUFFICES ASSUME NEW w \in Workers PROVE FencedAttempt(w)'
    OBVIOUS
  <2>1. FencedAttempt(w) /\ Owns(w)' = Owns(w)
    BY <1>1 DEF OwnershipInv, Owns
  <2> QED
    BY <1>1, <1>2, <2>1 DEF FencedAttempt
<1> QED
  BY <1>3 DEF OwnershipInv

LEMMA StutterKeepsInv ==
  ASSUME OwnershipInv, UNCHANGED <<item, run, active, attempts, now>>
  PROVE  OwnershipInv'
BY DEF OwnershipInv, FencedAttempt, Owns

LEMMA InitInv == Init => OwnershipInv
<1> SUFFICES ASSUME Init, NEW w \in Workers PROVE FencedAttempt(w)
  BY DEF OwnershipInv
<1>1. \A v \in Workers : run[v].attempt = 0
  BY DEF Init, IdleRun
<1>2. run[w].pc = "idle" /\ attempts = 0
  BY DEF Init, IdleRun
<1> QED
  BY <1>1, <1>2 DEF FencedAttempt, Owns, Owning

LEMMA NextKeepsInv ==
  ASSUME TypeOK, TypeOK', OwnershipInv, [Next]_vars
  PROVE  OwnershipInv'
<1>1. ASSUME NEW w \in Workers, OwnerStep(w) PROVE OwnershipInv'
  BY <1>1, OwnerStepKeepsInv
<1>2. ASSUME NEW w \in Workers, ClaimStep(w) PROVE OwnershipInv'
  BY <1>2, ClaimStepKeepsInv
<1>3. ASSUME NEW w \in Workers, Handle(w) PROVE OwnershipInv'
  BY <1>1, <1>2, <1>3, LoadTopologyStep, PutItemStep, ResumeItemStep,
     LookupItemStep, QuietOwnerSteps, RecordOutcomeStep,
     AdvanceCheckpointStep, CompleteStep, ReleaseStep DEF Handle
<1>4. ASSUME NEW w \in Workers, Kill(w) PROVE OwnershipInv'
  BY <1>1, <1>2, <1>4, KillStep, KillClaimingStep
<1>5. CASE Duplicate
  BY <1>5, StutterKeepsInv DEF Duplicate
<1>6. CASE Rest \/ UNCHANGED vars
  BY <1>6, StutterKeepsInv DEF Rest, vars
<1> QED
  BY <1>3, <1>4, <1>5, <1>6, ReceiveKeepsInv, TickKeepsInv DEF Next

(* The claim of the state store is exclusive: for every Timeout <= Lease,  *)
(* the attempt in the item is the only one at work, and its lease outlives *)
(* its invocation.                                                         *)
THEOREM Ownership == Spec => []OwnershipInv
<1>1. TypeOK /\ TypeOK' /\ OwnershipInv /\ [Next]_vars => OwnershipInv'
  BY NextKeepsInv
<1> QED
  BY <1>1, InitInv, Typing, PTL DEF Spec

(* No two invocations are ever past their claim of the event together.     *)
THEOREM MutualExclusion == Spec => []AtMostOneOwner
<1>1. TypeOK /\ OwnershipInv => AtMostOneOwner
  BY OwnersAreOne
<1> QED
  BY <1>1, Typing, Ownership, PTL
=============================================================================
