---------------------- MODULE IncidentPublicationProofs ----------------------
(***************************************************************************)
(* Theorems about what IncidentRuntime publishes, for every number of      *)
(* environments, retries, deliveries and faults, every lease and timeout   *)
(* with Timeout <= Lease, and an unreliable Issue search: the item agrees  *)
(* with itself and with the outside world, a complete event is published   *)
(* and never touched again, and the runtime implements                     *)
(* ExclusivePublication.                                                   *)
(***************************************************************************)
EXTENDS IncidentRuntimeProofs, FiniteSetTheorems

USE DEF Claimed, SnapshotComplete, BundleStored, IssuePublished,
        SlackAttempted, NoAttempt

-----------------------------------------------------------------------------
(* The inductive invariant: what the program counter and the locals of the *)
(* owner say about the item, S3, GitHub and Slack.                         *)

Marking(w, c) ==
  run[w].pc \in {"record", "advance", "recheck"} /\ run[w].stage = c

(* put_object has returned in this attempt, and publishing goes on.        *)
PastBundle(w) ==
  \/ run[w].pc \in {"findIssue", "createIssue", "sendSlack", "complete"}
  \/ Marking(w, BundleStored) \/ Marking(w, IssuePublished)
  \/ Marking(w, SlackAttempted)

(* The locals of publish are those of the calls made.                      *)
LocalsInStep(w) ==
  /\ run[w].slack # "not_attempted" =>
       run[w].pc \in {"complete", "release"} \/ Marking(w, SlackAttempted)
  /\ Marking(w, IssuePublished) => run[w].link
  /\ Marking(w, SlackAttempted) => run[w].slack # "not_attempted"
  /\ run[w].pc = "complete" => run[w].link /\ run[w].slack = "sent"

(* What they say has happened outside.                                     *)
WorldInStep(w) ==
  /\ run[w].link => issues # {}
  /\ run[w].slack = "sent" =>
       [attempt |-> run[w].attempt, brief |-> run[w].link] \in messages
  /\ PastBundle(w) => bundle = run[w].attempt

(* What they say the item records.                                         *)
ItemInStep(w) ==
  /\ PastBundle(w) /\ ~(run[w].pc = "record" /\ run[w].stage = BundleStored)
       => item.bundle
  /\ run[w].link /\ run[w].pc # "release"
       /\ ~(run[w].pc = "record" /\ run[w].stage = IssuePublished)
       => item.issue
  /\ (Marking(w, SlackAttempted) /\ run[w].pc # "record")
         \/ run[w].pc = "complete"
       => item.slack = run[w].slack
  /\ run[w].pc = "complete" => item.rank = SlackAttempted

InStep(w) ==
  IF Owns(w) THEN LocalsInStep(w) /\ WorldInStep(w) /\ ItemInStep(w)
  ELSE ~run[w].link /\ run[w].slack = "not_attempted"

(* What the item says, of itself and of the world.                         *)
Recorded == RecordConsistent /\ RecordTruthful /\ CompleteIsPublished

PublicationInv == (\A w \in Workers : InStep(w)) /\ Recorded

-----------------------------------------------------------------------------
(* What the pieces of a step do to the locals of publish and to the item.  *)

LEMMA GotoLocals ==
  ASSUME TypeOK, NEW w \in Workers, NEW label, NEW t, GotoWith(w, label, t)
  PROVE  /\ run'[w].pc = label /\ run'[w].stage = run[w].stage
         /\ run'[w].link = run[w].link /\ run'[w].slack = run[w].slack
         /\ run'[w].attempt = run[w].attempt
<1>1. run'[w] = [run[w] EXCEPT !.pc = label, !.since = t] /\ run[w] \in Runs
  BY DEF TypeOK, GotoWith
<1> QED
  BY <1>1 DEF Runs

LEMMA MarkLocals ==
  ASSUME TypeOK, NEW w \in Workers, NEW c \in Checkpoint, Mark(w, c)
  PROVE  /\ run'[w].pc = IF c = SnapshotComplete THEN "advance" ELSE "record"
         /\ run'[w].stage = c
         /\ run'[w].link = run[w].link /\ run'[w].slack = run[w].slack
         /\ run'[w].attempt = run[w].attempt
<1> DEFINE first == IF c = SnapshotComplete THEN "advance" ELSE "record"
<1>1. run'[w] = [run[w] EXCEPT !.pc = first, !.stage = c, !.since = now]
      /\ run[w] \in Runs
  BY DEF TypeOK, Mark
<1> HIDE DEF first
<1>2. /\ run'[w].pc = first /\ run'[w].stage = c
      /\ run'[w].link = run[w].link /\ run'[w].slack = run[w].slack
      /\ run'[w].attempt = run[w].attempt
  BY <1>1 DEF Runs
<1> QED
  BY <1>2 DEF first

LEMMA IssueKnownLocals ==
  ASSUME TypeOK, NEW w \in Workers, IssueKnown(w)
  PROVE  /\ run'[w].pc = "record" /\ run'[w].stage = IssuePublished
         /\ run'[w].link = TRUE /\ run'[w].slack = run[w].slack
         /\ run'[w].attempt = run[w].attempt
<1>1. /\ run'[w] = [run[w] EXCEPT !.link = TRUE, !.pc = "record",
                                  !.stage = IssuePublished, !.since = now]
      /\ run[w] \in Runs
  BY DEF TypeOK, IssueKnown
<1> QED
  BY <1>1 DEF Runs

LEMMA SlackTriedLocals ==
  ASSUME TypeOK, NEW w \in Workers, NEW s, SlackTried(w, s)
  PROVE  /\ run'[w].pc = "record" /\ run'[w].stage = SlackAttempted
         /\ run'[w].link = run[w].link /\ run'[w].slack = s
         /\ run'[w].attempt = run[w].attempt
<1>1. /\ run'[w] = [run[w] EXCEPT !.slack = s, !.pc = "record",
                                  !.stage = SlackAttempted, !.since = now]
      /\ run[w] \in Runs
  BY DEF TypeOK, SlackTried
<1> QED
  BY <1>1 DEF Runs

(* The label after a recorded checkpoint, checkpoint by checkpoint.        *)
LEMMA AfterMarkCases ==
  ASSUME NEW r
  PROVE  /\ r.stage = SnapshotComplete => AfterMark(r) = "investigate"
         /\ r.stage = BundleStored => AfterMark(r) = "findIssue"
         /\ r.stage = IssuePublished => AfterMark(r) = "sendSlack"
         /\ r.stage \in {Claimed, SlackAttempted} =>
              AfterMark(r) = IF r.link /\ r.slack = "sent"
                             THEN "complete" ELSE "release"
BY DEF AfterMark

(* What each write leaves in the attributes that publishing is about.      *)
LEMMA WithOutcomeEffect ==
  ASSUME NEW i \in Items, NEW c, NEW s, NEW t
  PROVE  LET j == WithOutcome(i, c, s, t) IN
         /\ j.status = i.status /\ j.attempt = i.attempt /\ j.rank = i.rank
         /\ j.bundle = (i.bundle \/ c = BundleStored)
         /\ j.issue = (i.issue \/ c = IssuePublished)
         /\ j.slack = IF c = SlackAttempted THEN s ELSE i.slack
BY DEF WithOutcome, Items

LEMMA AdvancedEffect ==
  ASSUME NEW i \in Items, NEW c, NEW t
  PROVE  LET j == Advanced(i, c, t) IN
         /\ j.status = i.status /\ j.attempt = i.attempt /\ j.rank = c
         /\ j.bundle = i.bundle /\ j.issue = i.issue /\ j.slack = i.slack
BY DEF Advanced, Items

LEMMA StatusEffect ==
  ASSUME NEW i \in Items, NEW s, NEW t
  PROVE  LET j == WithStatus(i, s, t) IN
         /\ j.status = s /\ j.attempt = i.attempt /\ j.rank = i.rank
         /\ j.bundle = i.bundle /\ j.issue = i.issue /\ j.slack = i.slack
BY DEF WithStatus, Items

LEMMA ClaimsKeepOutcomes ==
  ASSUME NEW i \in Items, NEW a, NEW t
  PROVE  /\ LET j == Resumed(i, a, t) IN
            /\ j.status = "processing" /\ j.rank = i.rank
            /\ j.bundle = i.bundle /\ j.issue = i.issue /\ j.slack = i.slack
         /\ LET j == NewEventItem(a, t) IN
            /\ j.status = "processing" /\ j.rank = Claimed
            /\ ~j.bundle /\ ~j.issue /\ j.slack = "not_attempted"
BY DEF Resumed, NewEventItem, NoItem, Items

-----------------------------------------------------------------------------
(* The frame: who is not concerned by a step, and what the end of an       *)
(* attempt leaves behind.                                                  *)

LEMMA InStepKept ==
  ASSUME NEW v \in Workers, run'[v] = run[v], InStep(v),
         UNCHANGED <<item, bundle, issues, messages>>
  PROVE  InStep(v)'
BY DEF InStep, Owns, LocalsInStep, WorldInStep, ItemInStep, PastBundle, Marking

LEMMA FreshKept ==
  ASSUME NEW v \in Workers, run'[v] = run[v], InStep(v), ~Owns(v)
  PROVE  InStep(v)'
BY DEF InStep, Owns

LEMMA FreshRun ==
  ASSUME NEW w \in Workers, run'[w].pc \notin Owning, ~run'[w].link,
         run'[w].slack = "not_attempted"
  PROVE  InStep(w)'
BY DEF InStep, Owns

LEMMA EndedRun == ASSUME NEW w \in Workers, Ends(w) PROVE InStep(w)'
BY FreshRun DEF Ends, IdleRun, Owning

LEMMA OthersInStep ==
  ASSUME TypeOK, OwnershipInv, PublicationInv, NEW w \in Workers, OwnerStep(w)
  PROVE  \A v \in Workers \ {w} : InStep(v)'
<1> SUFFICES ASSUME NEW v \in Workers \ {w} PROVE InStep(v)'
  OBVIOUS
<1>1. Owns(w) /\ run'[v] = run[v]
  BY DEF OwnerStep, OthersKept
<1>2. ~Owns(v)
  BY <1>1, OwnersAreOne DEF AtMostOneOwner
<1> QED
  BY <1>1, <1>2, FreshKept DEF PublicationInv

(* Going to the except branch: what was called stays called.               *)
LEMMA GivesUp ==
  ASSUME TypeOK, NEW w \in Workers, Owns(w), InStep(w), NEW t,
         GotoWith(w, "release", t),
         issues \subseteq issues', messages \subseteq messages'
  PROVE  InStep(w)'
<1>1. /\ run'[w].pc = "release" /\ run'[w].link = run[w].link
      /\ run'[w].slack = run[w].slack /\ run'[w].attempt = run[w].attempt
  BY GotoLocals
<1>2. Owns(w)'
  BY <1>1 DEF Owns, Owning
<1>3. WorldInStep(w)
  BY DEF InStep
<1>4. LocalsInStep(w)' /\ ItemInStep(w)'
  BY <1>1 DEF LocalsInStep, ItemInStep, PastBundle, Marking
<1>5. WorldInStep(w)'
  BY <1>1, <1>3 DEF WorldInStep, PastBundle, Marking
<1> QED
  BY <1>2, <1>4, <1>5 DEF InStep

(* An owner that has not given up works on a processing item.              *)
LEMMA OwnerAtWork ==
  ASSUME OwnershipInv, NEW w \in Workers, Owns(w), run[w].pc # "release"
  PROVE  /\ item.status = "processing" /\ item.attempt = run[w].attempt
         /\ active[w] = run[w].attempt /\ run[w].attempt # NoAttempt
BY DEF OwnershipInv, FencedAttempt, Owns, Owning

LEMMA RecordKept ==
  ASSUME Recorded, item.status # "complete", UNCHANGED item,
         bundle # NoAttempt => bundle' # NoAttempt,
         issues \subseteq issues', messages \subseteq messages'
  PROVE  Recorded'
BY DEF Recorded, RecordConsistent, RecordTruthful, CompleteIsPublished

LEMMA RecordUnchanged ==
  ASSUME Recorded, UNCHANGED <<item, bundle, issues, messages>>
  PROVE  Recorded'
BY DEF Recorded, RecordConsistent, RecordTruthful, CompleteIsPublished

(* The invariant after a step of an owner, put together.                   *)
LEMMA OwnerPutTogether ==
  ASSUME TypeOK, OwnershipInv, PublicationInv, NEW w \in Workers,
         OwnerStep(w), InStep(w)', Recorded'
  PROVE  PublicationInv'
BY OthersInStep DEF PublicationInv

-----------------------------------------------------------------------------
(* The invariant is kept by the owner's steps, one lemma per action.       *)

LEMMA CollectKeeps ==
  ASSUME TypeOK, OwnershipInv, PublicationInv, NEW w \in Workers, Collect(w)
  PROVE  PublicationInv'
<1>1. /\ Owns(w) /\ run[w].pc = "collect"
      /\ UNCHANGED <<item, bundle, issues, messages>>
  BY DEF Collect, Owns, Owning, world
<1>2. OwnerStep(w)
  BY QuietOwnerSteps
<1>3. Recorded'
  BY <1>1, RecordUnchanged DEF PublicationInv
<1>4. InStep(w)
  BY DEF PublicationInv
<1>5. CASE Goto(w, "release")
  BY <1>1, <1>2, <1>3, <1>4, <1>5, GivesUp, OwnerPutTogether DEF Goto
<1>6. CASE Mark(w, SnapshotComplete)
  <2>1. /\ run'[w].pc = "advance" /\ run'[w].stage = SnapshotComplete
        /\ run'[w].link = run[w].link /\ run'[w].slack = run[w].slack
        /\ run'[w].attempt = run[w].attempt
    BY <1>6, MarkLocals DEF Checkpoint
  <2>2. LocalsInStep(w) /\ WorldInStep(w) /\ ItemInStep(w) /\ Owns(w)'
    BY <1>1, <1>4, <2>1 DEF InStep, Owns, Owning
  <2>3. LocalsInStep(w)' /\ WorldInStep(w)' /\ ItemInStep(w)'
    BY <1>1, <2>1, <2>2
       DEF LocalsInStep, WorldInStep, ItemInStep, PastBundle, Marking
  <2> QED
    BY <1>2, <1>3, <2>2, <2>3, OwnerPutTogether DEF InStep
<1> QED
  BY <1>5, <1>6 DEF Collect

LEMMA InvestigateKeeps ==
  ASSUME TypeOK, OwnershipInv, PublicationInv, NEW w \in Workers,
         Investigate(w)
  PROVE  PublicationInv'
<1>1. /\ Owns(w) /\ run[w].pc = "investigate"
      /\ UNCHANGED <<item, bundle, issues, messages>>
  BY DEF Investigate, Owns, Owning, world
<1>2. OwnerStep(w)
  BY QuietOwnerSteps
<1>3. Recorded'
  BY <1>1, RecordUnchanged DEF PublicationInv
<1>4. InStep(w)
  BY DEF PublicationInv
<1>5. CASE Goto(w, "release")
  BY <1>1, <1>2, <1>3, <1>4, <1>5, GivesUp, OwnerPutTogether DEF Goto
<1>6. CASE Goto(w, "putBundle")
  <2>1. /\ run'[w].pc = "putBundle" /\ run'[w].stage = run[w].stage
        /\ run'[w].link = run[w].link /\ run'[w].slack = run[w].slack
        /\ run'[w].attempt = run[w].attempt
    BY <1>6, GotoLocals DEF Goto
  <2>2. LocalsInStep(w) /\ WorldInStep(w) /\ ItemInStep(w) /\ Owns(w)'
    BY <1>1, <1>4, <2>1 DEF InStep, Owns, Owning
  <2>3. LocalsInStep(w)' /\ WorldInStep(w)' /\ ItemInStep(w)'
    BY <1>1, <2>1, <2>2
       DEF LocalsInStep, WorldInStep, ItemInStep, PastBundle, Marking
  <2> QED
    BY <1>2, <1>3, <2>2, <2>3, OwnerPutTogether DEF InStep
<1> QED
  BY <1>5, <1>6 DEF Investigate

LEMMA PutBundleKeeps ==
  ASSUME TypeOK, OwnershipInv, PublicationInv, NEW w \in Workers, PutBundle(w)
  PROVE  PublicationInv'
<1>1. /\ Owns(w) /\ run[w].pc = "putBundle"
      /\ UNCHANGED <<item, issues, messages>>
  BY DEF PutBundle, Owns, Owning
<1>2. OwnerStep(w)
  BY QuietOwnerSteps
<1>3. bundle' \in {bundle, run[w].attempt}
  BY DEF PutBundle
<1>4. Recorded'
  BY <1>1, <1>3, OwnerAtWork, RecordKept DEF PublicationInv
<1>5. InStep(w)
  BY DEF PublicationInv
<1>6. CASE Goto(w, "release")
  BY <1>1, <1>2, <1>4, <1>5, <1>6, GivesUp, OwnerPutTogether DEF Goto
<1>7. CASE bundle' = run[w].attempt /\ Mark(w, BundleStored)
  <2>1. /\ run'[w].pc = "record" /\ run'[w].stage = BundleStored
        /\ run'[w].link = run[w].link /\ run'[w].slack = run[w].slack
        /\ run'[w].attempt = run[w].attempt
    BY <1>7, MarkLocals DEF Checkpoint
  <2>2. LocalsInStep(w) /\ WorldInStep(w) /\ ItemInStep(w) /\ Owns(w)'
    BY <1>1, <1>5, <2>1 DEF InStep, Owns, Owning
  <2>3. LocalsInStep(w)' /\ WorldInStep(w)' /\ ItemInStep(w)'
    BY <1>1, <1>7, <2>1, <2>2
       DEF LocalsInStep, WorldInStep, ItemInStep, PastBundle, Marking
  <2> QED
    BY <1>2, <1>4, <2>2, <2>3, OwnerPutTogether DEF InStep
<1> QED
  BY <1>6, <1>7 DEF PutBundle

(* An outcome is recorded only by the attempt that has it.                 *)
LEMMA RecordOutcomeKeeps ==
  ASSUME TypeOK, OwnershipInv, PublicationInv, NEW w \in Workers,
         RecordOutcome(w)
  PROVE  PublicationInv'
<1>1. /\ Owns(w) /\ run[w].pc = "record" /\ item \in Items
      /\ UNCHANGED <<bundle, issues, messages>>
      /\ run[w].stage \in Checkpoint
  BY DEF RecordOutcome, Owns, Owning, world, TypeOK, Runs
<1>2. OwnerStep(w)
  BY RecordOutcomeStep
<1>3. InStep(w) /\ Recorded
  BY DEF PublicationInv
<1>4. LocalsInStep(w) /\ WorldInStep(w) /\ ItemInStep(w)
  BY <1>1, <1>3 DEF InStep
<1>5. /\ item.status = "processing" /\ item.attempt = run[w].attempt
      /\ run[w].attempt # NoAttempt
  BY <1>1, OwnerAtWork
<1>6. PICK t \in ClockReads(w) :
        \/ /\ item' = WithOutcome(item, run[w].stage, run[w].slack, t)
           /\ GotoWith(w, "advance", now) \/ GotoWith(w, "release", now)
        \/ item' = item /\ GotoWith(w, "release", now)
  BY DEF RecordOutcome, Applied, Rejected, Raised, Goto
<1>7. CASE item' = item /\ GotoWith(w, "release", now)
  BY <1>1, <1>2, <1>3, <1>7, GivesUp, RecordUnchanged, OwnerPutTogether
<1>8. CASE /\ item' = WithOutcome(item, run[w].stage, run[w].slack, t)
           /\ GotoWith(w, "advance", now) \/ GotoWith(w, "release", now)
  <2>1. /\ item'.status = item.status /\ item'.attempt = item.attempt
        /\ item'.rank = item.rank
        /\ item'.bundle = (item.bundle \/ run[w].stage = BundleStored)
        /\ item'.issue = (item.issue \/ run[w].stage = IssuePublished)
        /\ item'.slack = IF run[w].stage = SlackAttempted THEN run[w].slack
                         ELSE item.slack
    BY <1>1, <1>8, WithOutcomeEffect
  <2>2. Recorded'
    BY <1>1, <1>3, <1>4, <1>5, <2>1
       DEF Recorded, RecordConsistent, RecordTruthful, CompleteIsPublished,
           LocalsInStep, WorldInStep, ItemInStep, PastBundle, Marking,
           Checkpoint
  <2>3. CASE GotoWith(w, "release", now)
    BY <1>1, <1>2, <1>3, <2>2, <2>3, GivesUp, OwnerPutTogether
  <2>4. CASE GotoWith(w, "advance", now)
    <3>1. /\ run'[w].pc = "advance" /\ run'[w].stage = run[w].stage
          /\ run'[w].link = run[w].link /\ run'[w].slack = run[w].slack
          /\ run'[w].attempt = run[w].attempt
      BY <2>4, GotoLocals
    <3>2. Owns(w)'
      BY <3>1 DEF Owns, Owning
    <3>3. LocalsInStep(w)' /\ WorldInStep(w)' /\ ItemInStep(w)'
      BY <1>1, <1>4, <2>1, <3>1
         DEF LocalsInStep, WorldInStep, ItemInStep, PastBundle, Marking
    <3> QED
      BY <1>2, <2>2, <3>2, <3>3, OwnerPutTogether DEF InStep
  <2> QED
    BY <1>8, <2>3, <2>4
<1> QED
  BY <1>6, <1>7, <1>8

(* After a recorded checkpoint its outcome is in the item.                 *)
LEMMA GoesOn ==
  ASSUME TypeOK, OwnershipInv, PublicationInv, NEW w \in Workers,
         Owns(w), run[w].pc \in {"advance", "recheck"},
         GotoWith(w, AfterMark(run[w]), now),
         UNCHANGED <<bundle, issues, messages>>,
         item'.bundle = item.bundle, item'.issue = item.issue,
         item'.slack = item.slack,
         run[w].stage = SlackAttempted => item'.rank = SlackAttempted
  PROVE  InStep(w)'
<1>1. LocalsInStep(w) /\ WorldInStep(w) /\ ItemInStep(w)
  BY DEF PublicationInv, InStep
<1>2. /\ run'[w].pc = AfterMark(run[w]) /\ run'[w].stage = run[w].stage
      /\ run'[w].link = run[w].link /\ run'[w].slack = run[w].slack
      /\ run'[w].attempt = run[w].attempt
  BY GotoLocals
<1>3. run[w].stage \in {0, 1, 2, 3, 4}
  BY DEF TypeOK, Runs, Checkpoint
<1>4. CASE run[w].stage = 1
  <2>1. run'[w].pc = "investigate"
    BY <1>2, <1>4, AfterMarkCases
  <2> QED
    BY <1>1, <1>2, <1>4, <2>1
       DEF InStep, Owns, Owning, LocalsInStep, WorldInStep, ItemInStep,
           PastBundle, Marking
<1>5. CASE run[w].stage = 2
  <2>1. run'[w].pc = "findIssue"
    BY <1>2, <1>5, AfterMarkCases
  <2> QED
    BY <1>1, <1>2, <1>5, <2>1
       DEF InStep, Owns, Owning, LocalsInStep, WorldInStep, ItemInStep,
           PastBundle, Marking
<1>6. CASE run[w].stage = 3
  <2>1. run'[w].pc = "sendSlack"
    BY <1>2, <1>6, AfterMarkCases
  <2> QED
    BY <1>1, <1>2, <1>6, <2>1
       DEF InStep, Owns, Owning, LocalsInStep, WorldInStep, ItemInStep,
           PastBundle, Marking
<1>7. CASE run[w].stage \in {0, 4}
  <2>1. run'[w].pc = IF run[w].link /\ run[w].slack = "sent"
                     THEN "complete" ELSE "release"
    BY <1>2, <1>7, AfterMarkCases
  <2>2. CASE run[w].link /\ run[w].slack = "sent"
    <3>1. run'[w].pc = "complete" /\ Owns(w)'
      BY <2>1, <2>2 DEF Owns, Owning
    <3>2. run[w].stage = SlackAttempted /\ item.slack = "sent"
      BY <1>1, <1>7, <2>2 DEF LocalsInStep, ItemInStep, Marking
    <3>3. item.bundle /\ item.issue /\ bundle = run[w].attempt
      BY <1>1, <2>2, <3>2 DEF WorldInStep, ItemInStep, PastBundle, Marking
    <3>4. LocalsInStep(w)'
      BY <1>2, <2>2, <3>1 DEF LocalsInStep, Marking
    <3>5. WorldInStep(w)'
      BY <1>1, <1>2, <3>3 DEF WorldInStep
    <3>6. ItemInStep(w)'
      BY <1>2, <2>2, <3>1, <3>2, <3>3 DEF ItemInStep, Marking
    <3> QED
      BY <3>1, <3>4, <3>5, <3>6 DEF InStep
  <2>3. CASE ~(run[w].link /\ run[w].slack = "sent")
    BY <1>2, <2>1, <2>3, GivesUp DEF PublicationInv
  <2> QED
    BY <2>2, <2>3
<1> QED
  BY <1>3, <1>4, <1>5, <1>6, <1>7

LEMMA AdvanceCheckpointKeeps ==
  ASSUME TypeOK, OwnershipInv, PublicationInv, NEW w \in Workers,
         AdvanceCheckpoint(w)
  PROVE  PublicationInv'
<1>1. /\ Owns(w) /\ run[w].pc = "advance" /\ item \in Items
      /\ UNCHANGED <<bundle, issues, messages>>
      /\ run[w].stage \in Checkpoint
  BY DEF AdvanceCheckpoint, Owns, Owning, world, TypeOK, Runs
<1>2. OwnerStep(w)
  BY AdvanceCheckpointStep
<1>3. InStep(w) /\ Recorded
  BY DEF PublicationInv
<1>4. LocalsInStep(w) /\ WorldInStep(w) /\ ItemInStep(w)
  BY <1>1, <1>3 DEF InStep
<1>5. item.status = "processing" /\ item.attempt = run[w].attempt
  BY <1>1, OwnerAtWork
<1>6. PICK t \in ClockReads(w) :
        \/ /\ item' = Advanced(item, run[w].stage, t)
           /\ \/ GotoWith(w, AfterMark(run[w]), now)
              \/ GotoWith(w, "recheck", t) \/ GotoWith(w, "release", now)
        \/ /\ item' = item
           /\ GotoWith(w, "recheck", t) \/ GotoWith(w, "release", now)
  BY DEF AdvanceCheckpoint, Applied, Rejected, Repeated, Raised, Goto
<1>7. /\ item'.status = "processing"
      /\ item'.bundle = item.bundle /\ item'.issue = item.issue
      /\ item'.slack = item.slack
      /\ item'.rank \in {item.rank, run[w].stage}
      /\ GotoWith(w, AfterMark(run[w]), now) => item'.rank = run[w].stage
                                                \/ item' = item
  BY <1>1, <1>5, <1>6, AdvancedEffect
<1>8. Recorded'
  BY <1>1, <1>3, <1>4, <1>7
     DEF Recorded, RecordConsistent, RecordTruthful, CompleteIsPublished,
         LocalsInStep, ItemInStep, PastBundle, Marking, Checkpoint
<1>9. CASE GotoWith(w, "release", now)
  BY <1>1, <1>2, <1>3, <1>8, <1>9, GivesUp, OwnerPutTogether
<1>10. CASE GotoWith(w, "recheck", t)
  <2>1. /\ run'[w].pc = "recheck" /\ run'[w].stage = run[w].stage
        /\ run'[w].link = run[w].link /\ run'[w].slack = run[w].slack
        /\ run'[w].attempt = run[w].attempt
    BY <1>10, GotoLocals
  <2>2. Owns(w)'
    BY <2>1 DEF Owns, Owning
  <2>3. LocalsInStep(w)' /\ WorldInStep(w)' /\ ItemInStep(w)'
    BY <1>1, <1>4, <1>7, <2>1
       DEF LocalsInStep, WorldInStep, ItemInStep, PastBundle, Marking
  <2> QED
    BY <1>2, <1>8, <2>2, <2>3, OwnerPutTogether DEF InStep
<1>11. CASE /\ item' = Advanced(item, run[w].stage, t)
            /\ GotoWith(w, AfterMark(run[w]), now)
  <2>1. item'.rank = run[w].stage
    BY <1>1, <1>11, AdvancedEffect
  <2>2. InStep(w)'
    BY <1>1, <1>7, <1>11, <2>1, GoesOn
  <2> QED
    BY <1>2, <1>8, <2>2, OwnerPutTogether
<1> QED
  BY <1>6, <1>9, <1>10, <1>11

LEMMA RecheckCheckpointKeeps ==
  ASSUME TypeOK, OwnershipInv, PublicationInv, NEW w \in Workers,
         RecheckCheckpoint(w)
  PROVE  PublicationInv'
<1>1. /\ Owns(w) /\ run[w].pc = "recheck" /\ item \in Items
      /\ UNCHANGED <<item, bundle, issues, messages>>
  BY DEF RecheckCheckpoint, Owns, Owning, world, TypeOK
<1>2. OwnerStep(w)
  BY QuietOwnerSteps
<1>3. InStep(w) /\ Recorded'
  BY <1>1, RecordUnchanged DEF PublicationInv
<1>4. CASE GotoWith(w, "release", now)
  BY <1>1, <1>2, <1>3, <1>4, GivesUp, OwnerPutTogether
<1>5. CASE /\ item.rank >= run[w].stage
           /\ GotoWith(w, AfterMark(run[w]), now)
  <2>1. run[w].stage = SlackAttempted => item'.rank = SlackAttempted
    BY <1>1, <1>5 DEF Items, Checkpoint
  <2>2. InStep(w)'
    BY <1>1, <1>5, <2>1, GoesOn
  <2> QED
    BY <1>2, <1>3, <2>2, OwnerPutTogether
<1> QED
  BY <1>4, <1>5 DEF RecheckCheckpoint, AlreadyAdvanced, Goto

(* An Issue that is found or created is linked; a failure leaves publish   *)
(* or goes on without a link.                                              *)
LEMMA LinkKept ==
  ASSUME TypeOK, OwnershipInv, PublicationInv, NEW w \in Workers,
         run[w].pc \in {"findIssue", "createIssue"}, OwnerStep(w),
         UNCHANGED <<item, bundle, messages>>, issues \subseteq issues',
         \/ IssueKnown(w) /\ issues' # {}
         \/ \E label \in {"createIssue", "sendSlack", "release"} :
              GotoWith(w, label, now)
  PROVE  PublicationInv'
<1>1. Owns(w) /\ InStep(w)
  BY DEF OwnerStep, PublicationInv
<1>2. LocalsInStep(w) /\ WorldInStep(w) /\ ItemInStep(w)
  BY <1>1 DEF InStep
<1>3. Recorded'
  BY <1>1, OwnerAtWork, RecordKept DEF PublicationInv
<1>4. CASE GotoWith(w, "release", now)
  BY <1>1, <1>3, <1>4, GivesUp, OwnerPutTogether
<1>5. CASE \E label \in {"createIssue", "sendSlack"} : GotoWith(w, label, now)
  <2>1. /\ run'[w].pc \in {"createIssue", "sendSlack"}
        /\ run'[w].stage = run[w].stage
        /\ run'[w].link = run[w].link /\ run'[w].slack = run[w].slack
        /\ run'[w].attempt = run[w].attempt
    BY <1>5, GotoLocals
  <2>2. Owns(w)'
    BY <2>1 DEF Owns, Owning
  <2>3. LocalsInStep(w)' /\ WorldInStep(w)' /\ ItemInStep(w)'
    BY <1>2, <2>1
       DEF LocalsInStep, WorldInStep, ItemInStep, PastBundle, Marking
  <2> QED
    BY <1>3, <2>2, <2>3, OwnerPutTogether DEF InStep
<1>6. CASE IssueKnown(w) /\ issues' # {}
  <2>1. /\ run'[w].pc = "record" /\ run'[w].stage = IssuePublished
        /\ run'[w].link = TRUE /\ run'[w].slack = run[w].slack
        /\ run'[w].attempt = run[w].attempt
    BY <1>6, IssueKnownLocals
  <2>2. Owns(w)'
    BY <2>1 DEF Owns, Owning
  <2>3. run[w].slack = "not_attempted"
    BY <1>2 DEF LocalsInStep, Marking
  <2>4. LocalsInStep(w)' /\ WorldInStep(w)' /\ ItemInStep(w)'
    BY <1>2, <1>6, <2>1, <2>3
       DEF LocalsInStep, WorldInStep, ItemInStep, PastBundle, Marking
  <2> QED
    BY <1>3, <2>2, <2>4, OwnerPutTogether DEF InStep
<1> QED
  BY <1>4, <1>5, <1>6

LEMMA FindIssueKeeps ==
  ASSUME TypeOK, OwnershipInv, PublicationInv, NEW w \in Workers, FindIssue(w)
  PROVE  PublicationInv'
<1>1. /\ run[w].pc = "findIssue" /\ UNCHANGED <<item, bundle, issues, messages>>
      /\ \/ IssueKnown(w) /\ issues # {}
         \/ \E label \in {"createIssue", "sendSlack", "release"} :
              GotoWith(w, label, now)
  BY DEF FindIssue, world, Goto
<1>2. OwnerStep(w)
  BY QuietOwnerSteps
<1> QED
  BY <1>1, <1>2, LinkKept

LEMMA CreateIssueKeeps ==
  ASSUME TypeOK, OwnershipInv, PublicationInv, NEW w \in Workers,
         CreateIssue(w)
  PROVE  PublicationInv'
<1>1. /\ run[w].pc = "createIssue" /\ UNCHANGED <<item, bundle, messages>>
      /\ issues \subseteq issues'
      /\ \/ IssueKnown(w) /\ issues' # {}
         \/ \E label \in {"createIssue", "sendSlack", "release"} :
              GotoWith(w, label, now)
  BY DEF CreateIssue, Goto
<1>2. OwnerStep(w)
  BY QuietOwnerSteps
<1> QED
  BY <1>1, <1>2, LinkKept

LEMMA SendSlackKeeps ==
  ASSUME TypeOK, OwnershipInv, PublicationInv, NEW w \in Workers, SendSlack(w)
  PROVE  PublicationInv'
<1> DEFINE m == [attempt |-> run[w].attempt, brief |-> run[w].link]
<1>1. /\ Owns(w) /\ run[w].pc = "sendSlack"
      /\ UNCHANGED <<item, bundle, issues>>
      /\ messages \subseteq messages'
      /\ \/ \E s \in {"sent", "failed"} : /\ SlackTried(w, s)
                                          /\ s = "sent" => m \in messages'
         \/ GotoWith(w, "release", now)
  BY DEF SendSlack, Owns, Owning, Goto
<1>2. OwnerStep(w) /\ InStep(w)
  BY QuietOwnerSteps DEF PublicationInv
<1>3. LocalsInStep(w) /\ WorldInStep(w) /\ ItemInStep(w)
  BY <1>1, <1>2 DEF InStep
<1>4. Recorded'
  BY <1>1, OwnerAtWork, RecordKept DEF PublicationInv
<1>5. CASE GotoWith(w, "release", now)
  BY <1>1, <1>2, <1>4, <1>5, GivesUp, OwnerPutTogether
<1>6. ASSUME NEW s \in {"sent", "failed"}, SlackTried(w, s),
             s = "sent" => m \in messages'
      PROVE  PublicationInv'
  <2>1. /\ run'[w].pc = "record" /\ run'[w].stage = SlackAttempted
        /\ run'[w].link = run[w].link /\ run'[w].slack = s
        /\ run'[w].attempt = run[w].attempt
    BY <1>6, SlackTriedLocals
  <2>2. Owns(w)'
    BY <2>1 DEF Owns, Owning
  <2>3. LocalsInStep(w)'
    BY <2>1 DEF LocalsInStep, Marking
  <2>4. WorldInStep(w)'
    BY <1>1, <1>3, <1>6, <2>1 DEF WorldInStep, PastBundle
  <2>5. ItemInStep(w)'
    BY <1>1, <1>3, <2>1 DEF ItemInStep, PastBundle, Marking
  <2> QED
    BY <1>2, <1>4, <2>2, <2>3, <2>4, <2>5, OwnerPutTogether DEF InStep
<1> QED
  BY <1>1, <1>5, <1>6

(* Completion needs the brief and the Issue of this attempt: it is the     *)
(* only step that makes the item complete.                                 *)
LEMMA CompleteKeeps ==
  ASSUME TypeOK, OwnershipInv, PublicationInv, NEW w \in Workers, Complete(w)
  PROVE  PublicationInv'
<1>1. /\ Owns(w) /\ run[w].pc = "complete" /\ item \in Items
      /\ UNCHANGED <<bundle, issues, messages>>
  BY DEF Complete, Owns, Owning, world, TypeOK
<1>2. OwnerStep(w)
  BY CompleteStep
<1>3. InStep(w) /\ Recorded
  BY DEF PublicationInv
<1>4. LocalsInStep(w) /\ WorldInStep(w) /\ ItemInStep(w)
  BY <1>1, <1>3 DEF InStep
<1>5. item.status = "processing" /\ item.attempt = run[w].attempt
  BY <1>1, OwnerAtWork
<1>6. PICK t \in ClockReads(w) :
        /\ item' = item \/ item' = WithStatus(item, "complete", t)
        /\ Return(w) \/ GotoWith(w, "release", now)
  BY DEF Complete, Applied, Rejected, Repeated, Raised, Goto
<1>7. Recorded'
  <2>1. CASE item' = item
    BY <1>1, <1>3, <2>1, RecordUnchanged
  <2>2. CASE item' = WithStatus(item, "complete", t)
    <3>1. /\ item'.status = "complete" /\ item'.attempt = run[w].attempt
          /\ item'.rank = item.rank /\ item'.bundle = item.bundle
          /\ item'.issue = item.issue /\ item'.slack = item.slack
      BY <1>1, <1>5, <2>2, StatusEffect
    <3>2. /\ bundle = run[w].attempt /\ item.bundle
          /\ run[w].link = TRUE /\ run[w].slack = "sent"
      BY <1>1, <1>4 DEF LocalsInStep, WorldInStep, ItemInStep, PastBundle,
                        TypeOK, Runs
    <3>3. item.issue /\ item.slack = "sent" /\ item.rank = SlackAttempted
          /\ issues # {}
      BY <1>1, <1>4, <3>2 DEF WorldInStep, ItemInStep
    <3>4. [attempt |-> run[w].attempt, brief |-> TRUE] \in messages
      BY <1>4, <3>2 DEF WorldInStep
    <3>5. RecordConsistent'
      BY <1>3, <3>1, <3>2, <3>3 DEF Recorded, RecordConsistent
    <3>6. RecordTruthful'
      BY <1>1, <1>3, <3>1 DEF Recorded, RecordTruthful
    <3>7. CompleteIsPublished'
      BY <1>1, <3>1, <3>2, <3>3, <3>4 DEF CompleteIsPublished
    <3> QED
      BY <3>5, <3>6, <3>7 DEF Recorded
  <2> QED
    BY <1>6, <2>1, <2>2
<1>8. InStep(w)'
  BY <1>1, <1>3, <1>6, GivesUp, EndEffect, EndedRun
<1> QED
  BY <1>2, <1>7, <1>8, OwnerPutTogether

LEMMA ReleaseKeeps ==
  ASSUME TypeOK, OwnershipInv, PublicationInv, NEW w \in Workers, Release(w)
  PROVE  PublicationInv'
<1>1. OwnerStep(w) /\ Ends(w) /\ Recorded /\ item \in Items
      /\ UNCHANGED <<bundle, issues, messages>>
  BY ReleaseStep, EndEffect DEF Release, PublicationInv, world, TypeOK
<1>2. PICK t \in ClockReads(w) :
        item' = item \/ item' = WithStatus(item, "retryable", t)
  BY DEF Release, Applied, Rejected, Repeated, Raised
<1>3. Recorded'
  <2>1. CASE item' = item
    BY <1>1, <2>1, RecordUnchanged
  <2>2. CASE item' = WithStatus(item, "retryable", t)
    <3>1. /\ item'.status = "retryable" /\ item'.rank = item.rank
          /\ item'.bundle = item.bundle /\ item'.issue = item.issue
          /\ item'.slack = item.slack
      BY <1>1, <2>2, StatusEffect
    <3> QED
      BY <1>1, <3>1
         DEF Recorded, RecordConsistent, RecordTruthful, CompleteIsPublished
  <2> QED
    BY <1>2, <2>1, <2>2
<1> QED
  BY <1>1, <1>3, EndedRun, OwnerPutTogether

-----------------------------------------------------------------------------
(* Nobody else makes it worse: claims, deliveries, deaths, the clock.      *)

(* A step before the claim, seen from publishing: w is not an owner yet,   *)
(* or it is the only one, at the start of its attempt.                     *)
LEMMA ClaimKeeps ==
  ASSUME TypeOK, OwnershipInv, PublicationInv, NEW w \in Workers,
         UNCHANGED <<bundle, issues, messages>>,
         \A v \in Workers \ {w} : run'[v] = run[v],
         ~run'[w].link, run'[w].slack = "not_attempted",
         run'[w].pc \notin Owning \ {"collect"},
         item' = item \/ /\ Recorded'
                         /\ \A v \in Workers : ~Owns(v)
  PROVE  PublicationInv'
<1>1. InStep(w)'
  <2>1. CASE run'[w].pc \notin Owning
    BY <2>1, FreshRun
  <2>2. CASE run'[w].pc = "collect"
    BY <2>2 DEF InStep, Owns, Owning, LocalsInStep, WorldInStep, ItemInStep,
                PastBundle, Marking
  <2> QED
    BY <2>1, <2>2
<1>2. ASSUME NEW v \in Workers \ {w} PROVE InStep(v)'
  BY InStepKept, FreshKept DEF PublicationInv
<1>3. Recorded'
  BY RecordUnchanged DEF PublicationInv
<1> QED
  BY <1>1, <1>2, <1>3 DEF PublicationInv

(* The item of a claim is still true of what was published before.         *)
LEMMA ClaimedRecord ==
  ASSUME TypeOK, OwnershipInv, PublicationInv, NEW a, NEW t,
         UNCHANGED <<bundle, issues, messages>>,
         item' = NewEventItem(a, t) \/ item' = Resumed(item, a, t)
  PROVE  Recorded'
<1>1. item \in Items /\ Recorded
  BY DEF TypeOK, PublicationInv
<1>2. CASE item' = NewEventItem(a, t)
  <2>1. /\ item'.status = "processing" /\ item'.rank = Claimed
        /\ ~item'.bundle /\ ~item'.issue /\ item'.slack = "not_attempted"
    BY <1>1, <1>2, ClaimsKeepOutcomes
  <2> QED
    BY <2>1
       DEF Recorded, RecordConsistent, RecordTruthful, CompleteIsPublished
<1>3. CASE item' = Resumed(item, a, t)
  <2>1. /\ item'.status = "processing" /\ item'.rank = item.rank
        /\ item'.bundle = item.bundle /\ item'.issue = item.issue
        /\ item'.slack = item.slack
    BY <1>1, <1>3, ClaimsKeepOutcomes
  <2> QED
    BY <1>1, <2>1
       DEF Recorded, RecordConsistent, RecordTruthful, CompleteIsPublished
<1> QED
  BY <1>2, <1>3

LEMMA PutItemKeeps ==
  ASSUME TypeOK, OwnershipInv, PublicationInv, NEW w \in Workers, PutItem(w)
  PROVE  PublicationInv'
<1>1. /\ run[w].pc = "put" /\ ~Owns(w) /\ UNCHANGED <<bundle, issues, messages>>
      /\ ClaimStep(w)
  BY PutItemStep DEF PutItem, Owns, Owning, world
<1>2. ~run[w].link /\ run[w].slack = "not_attempted"
  BY <1>1 DEF PublicationInv, InStep
<1>3. PICK t \in ClockReads(w) :
        /\ item' \in {item, NewEventItem(run[w].attempt, t)}
        /\ \/ \E label \in {"collect", "resume"}, s \in {t, now} :
                GotoWith(w, label, s)
           \/ Retry(w)
  BY DEF PutItem, Applied, Rejected, Repeated, Raised, Goto
<1>4. /\ ~run'[w].link /\ run'[w].slack = "not_attempted"
      /\ run'[w].pc \in {"collect", "resume", "idle"}
  BY <1>2, <1>3, GotoLocals, EndEffect DEF Ends, IdleRun
<1>5. item' = item \/ (Recorded' /\ \A v \in Workers : ~Owns(v))
  BY <1>1, <1>3, ClaimedRecord DEF ClaimStep
<1> QED
  BY <1>1, <1>4, <1>5, ClaimKeeps DEF ClaimStep, Owning

LEMMA ResumeItemKeeps ==
  ASSUME TypeOK, OwnershipInv, PublicationInv, NEW w \in Workers,
         ResumeItem(w)
  PROVE  PublicationInv'
<1>1. /\ run[w].pc = "resume" /\ ~Owns(w)
      /\ UNCHANGED <<bundle, issues, messages>> /\ ClaimStep(w)
  BY ResumeItemStep DEF ResumeItem, Owns, Owning, world
<1>2. ~run[w].link /\ run[w].slack = "not_attempted"
  BY <1>1 DEF PublicationInv, InStep
<1>3. /\ item' \in {item, Resumed(item, run[w].attempt, run[w].since)}
      /\ \/ \E label \in {"collect", "lookup"} : GotoWith(w, label, now)
         \/ Retry(w)
  BY DEF ResumeItem, Applied, Rejected, Repeated, Raised, Goto
<1>4. /\ ~run'[w].link /\ run'[w].slack = "not_attempted"
      /\ run'[w].pc \in {"collect", "lookup", "idle"}
  BY <1>2, <1>3, GotoLocals, EndEffect DEF Ends, IdleRun
<1>5. item' = item \/ (Recorded' /\ \A v \in Workers : ~Owns(v))
  BY <1>1, <1>3, ClaimedRecord DEF ClaimStep
<1> QED
  BY <1>1, <1>4, <1>5, ClaimKeeps DEF ClaimStep, Owning

(* The other steps leave the item and the world alone, and their           *)
(* invocation is no owner afterwards.                                      *)
LEMMA OtherStepsKeep ==
  ASSUME TypeOK, OwnershipInv, PublicationInv, NEW w \in Workers,
         Receive(w) \/ LoadTopology(w) \/ LookupItem(w) \/ Kill(w)
  PROVE  PublicationInv'
<1>1. UNCHANGED <<item, bundle, issues, messages>>
  BY DEF Receive, LoadTopology, LookupItem, Kill, world
<1>2. /\ ~run'[w].link /\ run'[w].slack = "not_attempted"
      /\ run'[w].pc \in {"load", "put", "idle"}
      /\ \A v \in Workers \ {w} : run'[v] = run[v]
  <2>1. CASE Receive(w)
    <3>1. PICK n \in 0..MaxRetries :
            run' = [run EXCEPT ![w] = [IdleRun EXCEPT !.pc = "load",
                      !.started = now, !.since = now, !.left = n]]
      BY <2>1 DEF Receive
    <3> QED
      BY <3>1 DEF TypeOK, IdleRun
  <2>2. CASE Return(w) \/ Retry(w)
    BY <2>2, EndEffect DEF Ends, IdleRun
  <2>3. CASE run[w].pc = "load" /\ run' = [run EXCEPT ![w] =
               [@ EXCEPT !.pc = "put", !.since = now, !.attempt = attempts + 1]]
    <3>1. ~run[w].link /\ run[w].slack = "not_attempted"
      BY <2>3 DEF PublicationInv, InStep, Owns, Owning
    <3>2. run'[w] = [run[w] EXCEPT !.pc = "put", !.since = now,
                                   !.attempt = attempts + 1]
          /\ run[w] \in Runs
      BY <2>3 DEF TypeOK
    <3> QED
      BY <2>3, <3>1, <3>2 DEF TypeOK, Runs
  <2> QED
    BY <2>1, <2>2, <2>3 DEF LoadTopology, LookupItem, Kill
<1> QED
  BY <1>1, <1>2, ClaimKeeps DEF Owning

LEMMA NothingKeeps ==
  ASSUME PublicationInv, UNCHANGED <<run, item, bundle, issues, messages>>
  PROVE  PublicationInv'
BY InStepKept, RecordUnchanged DEF PublicationInv

LEMMA InitPublication == Init => PublicationInv
<1> SUFFICES ASSUME Init PROVE PublicationInv
  OBVIOUS
<1>1. ASSUME NEW w \in Workers PROVE InStep(w)
  BY <1>1 DEF Init, IdleRun, InStep, Owns, Owning
<1>2. Recorded
  BY DEF Init, NoItem, Recorded, RecordConsistent, RecordTruthful,
         CompleteIsPublished
<1> QED
  BY <1>1, <1>2 DEF PublicationInv

LEMMA NextKeepsPublication ==
  ASSUME TypeOK, OwnershipInv, PublicationInv, [Next]_vars
  PROVE  PublicationInv'
<1>1. ASSUME NEW w \in Workers, Handle(w) PROVE PublicationInv'
  BY <1>1, OtherStepsKeep, PutItemKeeps, ResumeItemKeeps, CollectKeeps,
     InvestigateKeeps, PutBundleKeeps, RecordOutcomeKeeps,
     AdvanceCheckpointKeeps, RecheckCheckpointKeeps, FindIssueKeeps,
     CreateIssueKeeps, SendSlackKeeps, CompleteKeeps, ReleaseKeeps DEF Handle
<1>2. CASE Duplicate \/ Tick \/ Rest \/ UNCHANGED vars
  BY <1>2, NothingKeeps DEF Duplicate, Tick, Rest, vars, world
<1> QED
  BY <1>1, <1>2, OtherStepsKeep DEF Next

(* The locals of the attempt at work, its item and the world never         *)
(* disagree, whatever fails and whoever takes over.                        *)
THEOREM Publication == Spec => []PublicationInv
<1>1. TypeOK /\ OwnershipInv /\ PublicationInv /\ [Next]_vars
        => PublicationInv'
  BY NextKeepsPublication
<1> QED
  BY <1>1, InitPublication, Typing, Ownership, PTL DEF Spec

(* No reader of the item sees an impossible combination of outcomes,       *)
(* between the two writes of _record_outcome and across attempts.          *)
THEOREM RecordAgrees == Spec => []RecordConsistent
<1>1. PublicationInv => RecordConsistent
  BY DEF PublicationInv, Recorded
<1> QED
  BY <1>1, Publication, PTL

(* What the item records as done has happened in S3, GitHub or Slack.      *)
THEOREM RecordIsTrue == Spec => []RecordTruthful
<1>1. PublicationInv => RecordTruthful
  BY DEF PublicationInv, Recorded
<1> QED
  BY <1>1, Publication, PTL

(* mark_complete succeeds only for an attempt whose own bundle is in S3    *)
(* and whose own normal brief is in Slack, with an Issue in GitHub.        *)
THEOREM Published == Spec => []CompleteIsPublished
<1>1. PublicationInv => CompleteIsPublished
  BY DEF PublicationInv, Recorded
<1> QED
  BY <1>1, Publication, PTL

-----------------------------------------------------------------------------
(* After completion nothing is written again.                              *)

(* An owner at work has a processing item, a claim and a fenced write need *)
(* one that is not complete.                                               *)
LEMMA WriterFindsIncomplete ==
  ASSUME TypeOK, OwnershipInv, NEW w \in Workers, Handle(w),
         item.status = "complete"
  PROVE  UNCHANGED <<item, bundle, issues, messages>>
<1>1. ~Owns(w) \/ run[w].pc = "release"
  BY OwnerAtWork
<1>2. CASE LoadTopology(w) \/ LookupItem(w)
  BY <1>2 DEF LoadTopology, LookupItem, world
<1>3. CASE PutItem(w)
  BY <1>3 DEF PutItem, world, Applied, Rejected, Repeated, Raised
<1>4. CASE ResumeItem(w)
  BY <1>4 DEF ResumeItem, world, Applied, Rejected, Repeated, Raised, CanResume
<1>5. CASE Release(w)
  BY <1>5 DEF Release, world, Applied, Rejected, Repeated, Raised, Held
<1>6. CASE run[w].pc \in Owning \ {"release"}
  BY <1>1, <1>6 DEF Owns
<1> QED
  BY <1>2, <1>3, <1>4, <1>5, <1>6
     DEF Handle, Owning, Collect, Investigate, PutBundle, RecordOutcome,
         AdvanceCheckpoint, RecheckCheckpoint, FindIssue, CreateIssue,
         SendSlack, Complete

(* No retry, late call or second delivery touches the item, S3, GitHub or  *)
(* Slack once the event is complete.                                       *)
THEOREM CompletionIsFinal == Spec => CompleteIsFinal
<1>1. ASSUME TypeOK, OwnershipInv, [Next]_vars, item.status = "complete"
      PROVE  UNCHANGED <<item, world>>
  <2>1. ASSUME NEW w \in Workers, Handle(w) PROVE UNCHANGED <<item, world>>
    BY <1>1, <2>1, WriterFindsIncomplete DEF world
  <2>2. ASSUME NEW w \in Workers, Receive(w) \/ Kill(w)
        PROVE  UNCHANGED <<item, world>>
    BY <2>2 DEF Receive, Kill
  <2>3. CASE Duplicate \/ Tick \/ Rest \/ UNCHANGED vars
    BY <2>3 DEF Duplicate, Tick, Rest, vars
  <2> QED
    BY <1>1, <2>1, <2>2, <2>3 DEF Next
<1>2. TypeOK /\ OwnershipInv /\ [Next]_vars
        => [item.status = "complete" => UNCHANGED <<item, world>>]_vars
  BY <1>1
<1> QED
  BY <1>2, Typing, Ownership, PTL DEF Spec, CompleteIsFinal

-----------------------------------------------------------------------------
(* The runtime implements ExclusivePublication.                            *)

(* The refinement mapping's holders and complete.                          *)
Holders == {run[w].attempt : w \in {v \in Workers : Owns(v)}}

Closed == item.status = "complete"

LEMMA NoHolder == ASSUME \A v \in Workers : ~Owns(v) PROVE Holders = {}
BY DEF Holders

LEMMA OneHolder ==
  ASSUME TypeOK, OwnershipInv, NEW w \in Workers, Owns(w)
  PROVE  Holders = {run[w].attempt}
BY OwnersAreOne DEF Holders, AtMostOneOwner

(* A step of an invocation that is an owner neither before nor after it.   *)
LEMMA SameHolders ==
  ASSUME NEW w \in Workers, ~Owns(w), ~Owns(w)',
         \A v \in Workers \ {w} : run'[v] = run[v]
  PROVE  Holders' = Holders
<1>1. \A v \in Workers : Owns(v)' = Owns(v)
  BY DEF Owns
<1>2. \A v \in Workers : Owns(v) => run'[v].attempt = run[v].attempt
  OBVIOUS
<1> QED
  BY <1>1, <1>2 DEF Holders

(* An owner stays the holder, or leaves nobody.                            *)
LEMMA OwnerHolds ==
  ASSUME TypeOK, OwnershipInv, NEW w \in Workers, OwnerStep(w)
  PROVE  /\ Holders = {run[w].attempt}
         /\ Holders' = IF Ends(w) THEN {} ELSE {run[w].attempt}
<1>1. Owns(w) /\ \A v \in Workers \ {w} : run'[v] = run[v] /\ ~Owns(v)
  BY OwnersAreOne DEF OwnerStep, OthersKept, AtMostOneOwner
<1>2. \A v \in Workers \ {w} : ~Owns(v)'
  BY <1>1 DEF Owns
<1>3. CASE Ends(w)
  <2>1. ~Owns(w)'
    BY <1>3 DEF Ends, IdleRun, Owns, Owning
  <2>2. Holders' = {}
    BY <1>2, <2>1 DEF Holders
  <2> QED
    BY <1>1, <1>3, <2>2, OneHolder
<1>4. CASE ~Ends(w)
  <2>1. Owns(w)' /\ run'[w].attempt = run[w].attempt
    BY <1>4 DEF OwnerStep, Moves, Owns
  <2>2. Holders' = {run[w].attempt}
    BY <1>2, <2>1 DEF Holders
  <2> QED
    BY <1>1, <1>4, <2>2, OneHolder
<1> QED
  BY <1>3, <1>4

(* The abstract steps, on the mapped variables.                            *)
Idles == UNCHANGED <<Holders, Closed, bundle, issues, messages>>

LEMMA IdlesIsStutter == Idles => [Promise!Next]_(Promise!vars)
BY DEF Idles, Holders, Closed, Promise!vars

LEMMA LeaveIsStep ==
  ASSUME Holders' = {}, UNCHANGED <<Closed, bundle, issues, messages>>
  PROVE  [Promise!Next]_(Promise!vars)
BY DEF Holders, Closed, Promise!Next, Promise!Leave

LEMMA AcquireIsStep ==
  ASSUME NEW a, Holders = {}, ~Closed, Holders' = {a},
         UNCHANGED <<Closed, bundle, issues, messages>>
  PROVE  [Promise!Next]_(Promise!vars)
<1>1. Promise!Acquire(a) /\ a \in Holders \cup Holders'
  BY DEF Holders, Closed, Promise!Acquire
<1> QED
  BY <1>1 DEF Holders, Promise!Next

(* What an attempt at work does is a step of the only holder.              *)
LEMMA HolderIsStep ==
  ASSUME NEW a, Holders = {a},
         \/ Promise!StoreBundle(a) \/ Promise!CreateIssue(a)
         \/ \E brief \in BOOLEAN : Promise!Notify(a, brief)
         \/ Promise!Finish(a)
  PROVE  [Promise!Next]_(Promise!vars)
<1>1. a \in Holders \cup Holders'
  OBVIOUS
<1> QED
  BY <1>1 DEF Holders, Promise!Next

(* Before the claim: a stutter, or the claim of a free, open event.        *)
LEMMA ClaimIsStep ==
  ASSUME TypeOK, OwnershipInv, NEW w \in Workers,
         LoadTopology(w) \/ PutItem(w) \/ ResumeItem(w) \/ LookupItem(w)
  PROVE  [Promise!Next]_(Promise!vars)
<1>1. ClaimStep(w) /\ UNCHANGED <<bundle, issues, messages>>
  BY LoadTopologyStep, PutItemStep, ResumeItemStep, LookupItemStep
     DEF LoadTopology, PutItem, ResumeItem, LookupItem, world
<1>2. ~Owns(w) /\ \A v \in Workers \ {w} : run'[v] = run[v]
  BY <1>1 DEF ClaimStep
<1>3. Closed' = Closed
  <2>1. item' = item \/ (item'.status # "complete" /\ item.status # "complete")
    BY ClaimsKeepOutcomes
       DEF LoadTopology, PutItem, ResumeItem, LookupItem, Applied, Rejected,
           Repeated, Raised, CanResume, TypeOK
  <2> QED
    BY <2>1 DEF Closed
<1>4. CASE ~Owns(w)'
  BY <1>1, <1>2, <1>3, <1>4, SameHolders, IdlesIsStutter DEF Idles
<1>5. CASE Owns(w)'
  <2>1. /\ run'[w].attempt = run[w].attempt /\ run[w].pc \notin {"idle", "load"}
        /\ item'.attempt = run[w].attempt /\ item'.status = "processing"
        /\ item' = item \/ \A v \in Workers : ~Owns(v)
    BY <1>1, <1>5 DEF ClaimStep, Ends, IdleRun, Owns, Owning
  <2>2. \A v \in Workers : ~Owns(v)
    <3> SUFFICES ASSUME NEW v \in Workers, Owns(v) PROVE FALSE
      OBVIOUS
    <3>1. item.attempt = run[v].attempt /\ item' = item
      BY <2>1 DEF OwnershipInv, FencedAttempt
    <3>2. run[v].attempt = run[w].attempt /\ run[w].attempt # NoAttempt
      BY <2>1, <3>1 DEF OwnershipInv, FencedAttempt
    <3> QED
      BY <1>2, <3>2 DEF OwnershipInv, FencedAttempt
  <2>3. Holders = {} /\ ~Closed
    BY <1>3, <2>1, <2>2, NoHolder DEF Closed
  <2>4. Holders' = {run[w].attempt}
    <3>1. \A v \in Workers \ {w} : ~Owns(v)'
      BY <1>2, <2>2 DEF Owns
    <3> QED
      BY <1>5, <2>1, <3>1 DEF Holders
  <2> QED
    BY <1>1, <1>3, <2>3, <2>4, AcquireIsStep
<1> QED
  BY <1>4, <1>5

(* The steps of an owner.  Those that only write the checkpoint stutter.   *)
LEMMA OwnerIsStep ==
  ASSUME TypeOK, OwnershipInv, PublicationInv, NEW w \in Workers,
         \/ Collect(w) \/ Investigate(w) \/ PutBundle(w) \/ RecordOutcome(w)
         \/ AdvanceCheckpoint(w) \/ RecheckCheckpoint(w) \/ FindIssue(w)
         \/ CreateIssue(w) \/ SendSlack(w)
  PROVE  [Promise!Next]_(Promise!vars)
<1> DEFINE a == run[w].attempt
<1>1. OwnerStep(w)
  BY QuietOwnerSteps, RecordOutcomeStep, AdvanceCheckpointStep
<1>2. Owns(w) /\ run[w].pc # "release"
  BY DEF Collect, Investigate, PutBundle, RecordOutcome, AdvanceCheckpoint,
         RecheckCheckpoint, FindIssue, CreateIssue, SendSlack, Owns, Owning
<1>3. ~Closed /\ item \in Items
  BY <1>2, OwnerAtWork DEF Closed, TypeOK
<1>4. ~Closed'
  BY <1>3, WithOutcomeEffect, AdvancedEffect
     DEF Closed, Collect, Investigate, PutBundle, RecordOutcome,
         AdvanceCheckpoint, RecheckCheckpoint, FindIssue, CreateIssue,
         SendSlack, Applied, Rejected, Repeated, Raised
<1>5. Holders = {a} /\ Holders' \in {{}, {a}}
  BY <1>1, OwnerHolds
<1>6. /\ Holders' = {a}
      /\ PastBundle(w) => bundle = a
      /\ run[w].link => issues # {}
      /\ run[w].link \in BOOLEAN
  <2>1. run'[w].attempt = run[w].attempt
    <3>1. CASE \E label, t : GotoWith(w, label, t)
      BY <3>1, GotoLocals
    <3>2. CASE \E c \in Checkpoint : Mark(w, c)
      BY <3>2, MarkLocals
    <3>3. CASE IssueKnown(w) \/ \E s : SlackTried(w, s)
      BY <3>3, IssueKnownLocals, SlackTriedLocals
    <3> QED
      BY <3>1, <3>2, <3>3
         DEF Collect, Investigate, PutBundle, RecordOutcome,
             AdvanceCheckpoint, RecheckCheckpoint, FindIssue, CreateIssue,
             SendSlack, Goto, Checkpoint
  <2>2. ~Ends(w)
    BY <1>2, <2>1, OwnerAtWork DEF Ends, IdleRun
  <2> QED
    BY <1>1, <1>2, <2>2, OwnerHolds
       DEF PublicationInv, InStep, WorldInStep, TypeOK, Runs
<1>7. CASE UNCHANGED <<bundle, issues, messages>>
  BY <1>3, <1>4, <1>5, <1>6, <1>7, IdlesIsStutter DEF Idles, Closed
<1>8. CASE PutBundle(w)
  <2>1. CASE bundle' = bundle
    BY <1>7, <1>8, <2>1 DEF PutBundle
  <2>2. CASE bundle' = a
    <3>1. Promise!StoreBundle(a)
      BY <1>3, <1>4, <1>5, <1>6, <1>8, <2>2
         DEF PutBundle, Holders, Closed, Promise!StoreBundle
    <3> QED
      BY <1>5, <3>1, HolderIsStep
  <2> QED
    BY <1>8, <2>1, <2>2 DEF PutBundle
<1>9. CASE CreateIssue(w)
  <2>1. bundle = a
    BY <1>6, <1>9 DEF CreateIssue, PastBundle
  <2>2. CASE issues' = issues
    BY <1>7, <1>9, <2>2 DEF CreateIssue
  <2>3. CASE issues' = issues \cup {a}
    <3>1. Promise!CreateIssue(a)
      BY <1>3, <1>4, <1>5, <1>6, <1>9, <2>1, <2>3
         DEF CreateIssue, Holders, Closed, Promise!CreateIssue
    <3> QED
      BY <1>5, <3>1, HolderIsStep
  <2> QED
    BY <1>9, <2>2, <2>3 DEF CreateIssue
<1>10. CASE SendSlack(w)
  <2>1. bundle = a
    BY <1>6, <1>10 DEF SendSlack, PastBundle
  <2>2. /\ UNCHANGED <<bundle, issues>>
        /\ \/ UNCHANGED messages
           \/ messages' = messages \cup {[attempt |-> a, brief |-> run[w].link]}
    BY <1>10 DEF SendSlack
  <2>3. CASE UNCHANGED messages
    BY <1>7, <2>2, <2>3
  <2>4. CASE messages' = messages \cup {[attempt |-> a, brief |-> run[w].link]}
    <3>1. Promise!Notify(a, run[w].link)
      BY <1>3, <1>4, <1>5, <1>6, <2>1, <2>2, <2>4
         DEF Holders, Closed, Promise!Notify
    <3> QED
      BY <1>5, <1>6, <3>1, HolderIsStep
  <2> QED
    BY <2>2, <2>3, <2>4
<1> QED
  BY <1>7, <1>8, <1>9, <1>10
     DEF Collect, Investigate, RecordOutcome, AdvanceCheckpoint,
         RecheckCheckpoint, FindIssue, world

(* mark_complete finishes what the item, S3 and Slack already show; when   *)
(* it fails the attempt stays, and releases or abandons the event later.   *)
LEMMA CompleteIsStep ==
  ASSUME TypeOK, OwnershipInv, PublicationInv, NEW w \in Workers, Complete(w)
  PROVE  [Promise!Next]_(Promise!vars)
<1> DEFINE a == run[w].attempt
<1>1. /\ OwnerStep(w) /\ Owns(w) /\ run[w].pc = "complete"
      /\ UNCHANGED <<bundle, issues, messages>> /\ item \in Items
  BY CompleteStep DEF Complete, Owns, Owning, world, TypeOK
<1>2. ~Closed
  BY <1>1, OwnerAtWork DEF Closed
<1>3. Holders = {a} /\ Holders' \in {{}, {a}}
  BY <1>1, OwnerHolds
<1>4. issues # {} /\ [attempt |-> a, brief |-> TRUE] \in messages
  <2>1. LocalsInStep(w) /\ WorldInStep(w) /\ run[w].link \in BOOLEAN
    BY <1>1 DEF PublicationInv, InStep, TypeOK, Runs
  <2>2. run[w].link = TRUE /\ run[w].slack = "sent"
    BY <1>1, <2>1 DEF LocalsInStep
  <2> QED
    BY <2>1, <2>2 DEF WorldInStep
<1>5. PICK t \in ClockReads(w) :
        \/ item' = WithStatus(item, "complete", t)
        \/ item' = item /\ Goto(w, "release")
  BY DEF Complete, Applied, Rejected, Repeated, Raised
<1>6. CASE item' = WithStatus(item, "complete", t)
  <2>1. Closed'
    BY <1>1, <1>6, StatusEffect DEF Closed
  <2>2. PICK x : x = a
    OBVIOUS
  <2>3. Promise!Finish(x)
    BY <1>1, <1>2, <1>3, <1>4, <2>1, <2>2 DEF Holders, Closed, Promise!Finish
  <2> QED
    BY <1>3, <2>2, <2>3, HolderIsStep
<1>7. CASE item' = item /\ Goto(w, "release")
  <2>1. ~Ends(w)
    BY <1>7, GotoLocals DEF Goto, Ends, IdleRun
  <2> QED
    BY <1>1, <1>3, <1>7, <2>1, OwnerHolds, IdlesIsStutter DEF Idles, Closed
<1> QED
  BY <1>5, <1>6, <1>7

(* Release and death: the holder leaves; nobody else is affected.          *)
LEMMA EndIsStep ==
  ASSUME TypeOK, OwnershipInv, NEW w \in Workers, Release(w) \/ Kill(w)
  PROVE  [Promise!Next]_(Promise!vars)
<1>1. /\ Ends(w) /\ UNCHANGED <<bundle, issues, messages>>
      /\ \A v \in Workers \ {w} : run'[v] = run[v]
  BY EndEffect DEF Release, Kill, world
<1>2. Closed' = Closed
  BY StatusEffect DEF Release, Kill, Applied, Rejected, Repeated, Raised,
                      Held, Closed, TypeOK
<1>3. CASE Owns(w)
  <2>1. OwnerStep(w)
    BY <1>3, ReleaseStep, KillStep
  <2> QED
    BY <1>1, <1>2, <2>1, OwnerHolds, LeaveIsStep
<1>4. CASE ~Owns(w)
  <2>1. ~Owns(w)'
    BY <1>1 DEF Ends, IdleRun, Owns, Owning
  <2> QED
    BY <1>1, <1>2, <1>4, <2>1, SameHolders, IdlesIsStutter DEF Idles
<1> QED
  BY <1>3, <1>4

LEMMA EnvironmentIsStutter ==
  ASSUME TypeOK,
         \/ \E w \in Workers : Receive(w)
         \/ Duplicate \/ Tick \/ Rest \/ UNCHANGED vars
  PROVE  [Promise!Next]_(Promise!vars)
<1>1. ASSUME NEW w \in Workers, Receive(w) PROVE Idles
  <2>1. UNCHANGED <<item, bundle, issues, messages>> /\ ~Owns(w)
    BY <1>1 DEF Receive, world, Owns, Owning
  <2>2. PICK n \in 0..MaxRetries :
          run' = [run EXCEPT ![w] = [IdleRun EXCEPT !.pc = "load",
                    !.started = now, !.since = now, !.left = n]]
    BY <1>1 DEF Receive
  <2>3. run'[w].pc = "load" /\ \A v \in Workers \ {w} : run'[v] = run[v]
    BY <2>2 DEF TypeOK, IdleRun
  <2>4. ~Owns(w)'
    BY <2>3 DEF Owns, Owning
  <2> QED
    BY <2>1, <2>3, <2>4, SameHolders DEF Idles, Closed
<1>2. ASSUME UNCHANGED <<item, run, world>> PROVE Idles
  BY <1>2 DEF Idles, Holders, Owns, Closed, world
<1>3. UNCHANGED <<item, run, world>> \/ \E w \in Workers : Receive(w)
  BY DEF Duplicate, Tick, Rest, vars
<1> QED
  BY <1>1, <1>2, <1>3, IdlesIsStutter

(* The environments, the item and the lease implement the promise to other *)
(* attempts: one holder at a time, publishing only from its own bundle,    *)
(* closed only after Issue and brief, and nothing published afterwards.    *)
THEOREM Refinement == Spec => ImplementsExclusivePublication
<1>1. Init => Promise!Init
  <2> SUFFICES ASSUME Init PROVE Promise!Init
    OBVIOUS
  <2>1. \A w \in Workers : ~Owns(w)
    BY DEF Init, IdleRun, Owns, Owning
  <2>2. Holders = {} /\ ~Closed
    BY <2>1, NoHolder DEF Init, NoItem, Closed
  <2> QED
    BY <2>2 DEF Init, Promise!Init, Holders, Closed
<1>2. TypeOK /\ OwnershipInv /\ PublicationInv /\ [Next]_vars
        => [Promise!Next]_(Promise!vars)
  <2> SUFFICES ASSUME TypeOK, OwnershipInv, PublicationInv, [Next]_vars
               PROVE  [Promise!Next]_(Promise!vars)
    OBVIOUS
  <2>1. ASSUME NEW w \in Workers, Handle(w)
        PROVE  [Promise!Next]_(Promise!vars)
    BY <2>1, ClaimIsStep, OwnerIsStep, CompleteIsStep, EndIsStep DEF Handle
  <2> QED
    BY <2>1, EndIsStep, EnvironmentIsStutter DEF Next
<1> QED
  BY <1>1, <1>2, Typing, Ownership, Publication, PTL
     DEF Spec, ImplementsExclusivePublication, Promise!Spec
-----------------------------------------------------------------------------
(* One Issue, as long as the search sees what was created.                 *)

(* Why: whoever is about to create an Issue searched for one as the owner  *)
(* and found none, and nobody else could create one since.                 *)
OneIssueInv ==
  /\ issues = {} \/ \E a \in Nat : issues = {a}
  /\ \A w \in Workers : run[w].pc = "createIssue" => issues = {}

(* Only a search that found nothing leads to the creation of an Issue.     *)
LEMMA OnlySearchCreates ==
  ASSUME TypeOK, NEW w \in Workers, Receive(w) \/ Handle(w) \/ Kill(w),
         run'[w].pc = "createIssue", ~SearchLag
  PROVE  FindIssue(w) /\ issues = {}
<1>1. ~Ends(w)
  BY DEF Ends, IdleRun
<1>2. ~Receive(w) /\ ~LoadTopology(w) /\ ~LookupItem(w) /\ ~Kill(w) /\ ~Release(w)
  <2>1. ~Retry(w) /\ ~Return(w)
    BY <1>1, EndEffect
  <2>2. ~Receive(w)
    BY DEF Receive, TypeOK, IdleRun
  <2>3. ~LoadTopology(w)
    <3>1. run[w] \in Runs
      BY DEF TypeOK
    <3> QED
      BY <2>1, <3>1 DEF LoadTopology, TypeOK, Runs
  <2> QED
    BY <2>1, <2>2, <2>3 DEF LookupItem, Kill, Release
<1>3. ASSUME NEW label, NEW t, GotoWith(w, label, t) PROVE label = "createIssue"
  BY <1>3, GotoLocals
<1>4. ~PutItem(w) /\ ~ResumeItem(w)
  BY <1>1, <1>3, EndEffect DEF PutItem, ResumeItem, Goto
<1>5. ASSUME NEW c \in Checkpoint PROVE ~Mark(w, c)
  BY MarkLocals
<1>6. ~Collect(w) /\ ~Investigate(w) /\ ~PutBundle(w)
  BY <1>3, <1>5 DEF Collect, Investigate, PutBundle, Goto, Checkpoint
<1>7. ~RecordOutcome(w)
  BY <1>3 DEF RecordOutcome, Goto
<1>8. ~AdvanceCheckpoint(w) /\ ~RecheckCheckpoint(w)
  BY <1>3 DEF AdvanceCheckpoint, RecheckCheckpoint, Goto, AfterMark
<1>9. ~SendSlack(w) /\ ~CreateIssue(w)
  BY <1>3, IssueKnownLocals, SlackTriedLocals DEF SendSlack, CreateIssue, Goto
<1>10. ~Complete(w)
  BY <1>1, <1>3, EndEffect DEF Complete, Goto
<1>11. FindIssue(w)
  BY <1>2, <1>4, <1>6, <1>7, <1>8, <1>9, <1>10 DEF Handle
<1>12. ~IssueKnown(w) /\ \A label \in {"sendSlack", "release"} : ~Goto(w, label)
  BY <1>3, IssueKnownLocals DEF Goto
<1> QED
  BY <1>11, <1>12 DEF FindIssue

(* A step concerns one environment, and creating an Issue is one action.   *)
LEMMA OtherRunsKept ==
  ASSUME TypeOK, OwnershipInv, NEW w \in Workers,
         Receive(w) \/ Handle(w) \/ Kill(w)
  PROVE  \A v \in Workers \ {w} : run'[v] = run[v]
<1>1. CASE Receive(w) \/ LoadTopology(w) \/ LookupItem(w) \/ Kill(w)
  BY <1>1 DEF Receive, LoadTopology, LookupItem, Kill, Return, Retry, TypeOK
<1>2. CASE PutItem(w) \/ ResumeItem(w)
  BY <1>2, PutItemStep, ResumeItemStep DEF ClaimStep
<1>3. CASE /\ ~(Receive(w) \/ LoadTopology(w) \/ LookupItem(w) \/ Kill(w))
           /\ ~(PutItem(w) \/ ResumeItem(w))
  <2>1. OwnerStep(w)
    BY <1>3, QuietOwnerSteps, RecordOutcomeStep, AdvanceCheckpointStep,
       CompleteStep, ReleaseStep DEF Handle
  <2> QED
    BY <2>1 DEF OwnerStep, OthersKept
<1> QED
  BY <1>1, <1>2, <1>3

LEMMA OnlyCreationAddsIssues ==
  ASSUME NEW w \in Workers, Receive(w) \/ Handle(w) \/ Kill(w)
  PROVE  \/ UNCHANGED issues
         \/ /\ run[w].pc = "createIssue"
            /\ issues' \in {issues, issues \cup {run[w].attempt}}
BY DEF Receive, Handle, Kill, LoadTopology, PutItem, ResumeItem, LookupItem,
       Collect, Investigate, PutBundle, RecordOutcome, AdvanceCheckpoint,
       RecheckCheckpoint, FindIssue, CreateIssue, SendSlack, Complete,
       Release, world

LEMMA StepKeepsOneIssue ==
  ASSUME TypeOK, OwnershipInv, OneIssueInv, ~SearchLag, NEW w \in Workers,
         Receive(w) \/ Handle(w) \/ Kill(w)
  PROVE  OneIssueInv'
<1>1. run[w] \in Runs /\ run[w].attempt \in Nat
  BY DEF TypeOK, Runs
<1>2. CASE run[w].pc = "createIssue"
  <2>1. issues = {} /\ issues' \in {{}, {run[w].attempt}}
    BY <1>2, OnlyCreationAddsIssues DEF OneIssueInv
  <2>2. run'[w].pc # "createIssue"
    BY <1>2, OnlySearchCreates DEF FindIssue
  <2>3. \A v \in Workers \ {w} : run[v].pc # "createIssue"
    BY <1>2, OwnersAreOne DEF AtMostOneOwner, Owns, Owning
  <2>4. \A v \in Workers : run'[v].pc # "createIssue"
    BY <2>2, <2>3, OtherRunsKept
  <2> QED
    BY <1>1, <2>1, <2>4 DEF OneIssueInv
<1>3. CASE run[w].pc # "createIssue"
  <2>1. issues' = issues
    BY <1>3, OnlyCreationAddsIssues
  <2>2. run'[w].pc = "createIssue" => issues = {}
    BY OnlySearchCreates
  <2>3. \A v \in Workers \ {w} : run'[v] = run[v]
    BY OtherRunsKept
  <2> QED
    BY <2>1, <2>2, <2>3 DEF OneIssueInv
<1> QED
  BY <1>2, <1>3

(* At most one Issue for an event, for every number of environments,       *)
(* deliveries, retries and faults, lost replies of create_incident_issue   *)
(* included, when the search misses no Issue that exists.                  *)
THEOREM OneIssue ==
  ASSUME ~SearchLag
  PROVE  Spec => []AtMostOneIssue
<1>1. Init => OneIssueInv
  BY DEF Init, IdleRun, OneIssueInv
<1>2. TypeOK /\ OwnershipInv /\ OneIssueInv /\ [Next]_vars => OneIssueInv'
  <2> SUFFICES ASSUME TypeOK, OwnershipInv, OneIssueInv, [Next]_vars
               PROVE  OneIssueInv'
    OBVIOUS
  <2>1. CASE \E w \in Workers : Receive(w) \/ Handle(w) \/ Kill(w)
    BY <2>1, StepKeepsOneIssue
  <2>2. CASE Duplicate \/ Tick \/ Rest \/ UNCHANGED vars
    BY <2>2 DEF Duplicate, Tick, Rest, vars, world, OneIssueInv
  <2> QED
    BY <2>1, <2>2 DEF Next
<1>3. OneIssueInv => AtMostOneIssue
  <2>1. Cardinality({}) = 0
    BY FS_EmptySet, Zenon
  <2>2. \A a \in Nat : Cardinality({a}) = 1
    BY FS_Singleton, Zenon
  <2>3. CASE issues = {}
    BY <2>1, <2>3 DEF AtMostOneIssue
  <2>4. ASSUME NEW a \in Nat, issues = {a} PROVE AtMostOneIssue
    <3>1. Cardinality(issues) = 1
      BY <2>2, <2>4, Zenon
    <3> QED
      BY <3>1 DEF AtMostOneIssue
  <2> QED
    BY <2>3, <2>4 DEF OneIssueInv
<1> QED
  BY <1>1, <1>2, <1>3, Typing, Ownership, PTL DEF Spec
=============================================================================
