------------------------ MODULE IncidentReportProofs ------------------------
(***************************************************************************)
(* Proofs about IncidentReport, for every input, topology, answer and      *)
(* text.                                                                   *)
(***************************************************************************)
EXTENDS IncidentReport, SnapshotCollectorProofs

-----------------------------------------------------------------------------
(* The stages.                                                             *)

BeforeSnapshot == {"parse_event", "load_topology", "claim_event"}

AfterSnapshot == {"investigation", "render", "publish"}

(* Where the collectors are, and that the plan at work is not exceeded.    *)
Places ==
  /\ input \in Inputs /\ topology = input.object
  /\ next \in 1..(Len(Collectors) + 1) /\ reads \in Nat
  /\ IsSeq(failures) /\ Elements(failures) \subseteq CollectorNames
  /\ status \in {"idle", "collecting", "collected", "raised", "denied"}
  /\ Collecting => reads <= Len(Plan(Name, topology, alarm))
  /\ status = "idle" => Idle

(* How the stage, the outcome, the collection and the payload go together. *)
Phases ==
  /\ stage \in BeforeSnapshot \cup {"snapshot"} \cup AfterSnapshot \cup {"ended"}
  /\ outcome \in {"", "published", "duplicate", "degraded", "failed"}
  /\ (stage = "ended") <=> (outcome # "")
  /\ (outcome = "failed") <=> (failedAt # "")
  /\ stage \in BeforeSnapshot => status = "idle"
  /\ stage = "snapshot" => status # "idle"
  /\ stage \in AfterSnapshot => status = "collected"
  /\ status = "collecting" => stage = "snapshot"
  /\ stage = "claim_event" \/ status # "idle" => Loadable(topology)
  /\ stage \in {"load_topology", "claim_event"} \/ status # "idle" =>
       alarm \in AlarmArns
  /\ payload # NoPayload => stage \in {"publish", "ended"}
  /\ stage = "publish" => payload # NoPayload

Staged == Places /\ Phases

(* Appending one element to a sequence.                                    *)
LEMMA Appended ==
  ASSUME NEW s, IsSeq(s), NEW x
  PROVE  /\ IsSeq(Append(s, x)) /\ Elements(Append(s, x)) = Elements(s) \cup {x}
         /\ Len(Append(s, x)) = Len(s) + 1
         /\ Append(s, x) = s \o <<x>>
<1>1. Append(s, x) = s \o <<x>>
  BY SeqFacts DEF IsSeq
<1> QED
  BY <1>1, Joined, OneElement

(* There are six collectors, numbered from 1.                              *)
LEMMA SixCollectors ==
  /\ Len(Collectors) = 6 /\ DOMAIN Collectors = 1..6
  /\ \A n \in 1..6 : Collectors[n] \in CollectorNames
BY DEF Collectors, CollectorNames, Elements

(* The Snapshot divides the stages before it from those after it.          *)
LEMMA StageNames ==
  Elements(Stages) = BeforeSnapshot \cup {"snapshot"} \cup AfterSnapshot
BY DEF Elements, Stages, BeforeSnapshot, AfterSnapshot

(* The plan of the collector at work.                                      *)
LEMMA PlanAtWork ==
  ASSUME Places
  PROVE  /\ Parsed(topology)
         /\ next <= Len(Collectors) =>
              /\ Name \in CollectorNames
              /\ IsSeq(Plan(Name, topology, alarm))
              /\ Len(Plan(Name, topology, alarm)) \in Nat
         /\ Calling =>
              /\ reads + 1 \in DOMAIN Plan(Name, topology, alarm)
              /\ Allowed(topology, TheCall)
              /\ TheCall.source \in Elements(Sources)
              /\ TheCall.source = "ecs.describe_services.all_pilo"
                   <=> Name = "all_pilo_services"
              /\ TheCall.source = "github.deployments"
                   => Name = "recent_github_deployments"
              /\ Name # "all_pilo_services" =>
                   TheCall.service \in Keys(topology.services)
                                        \cap MappedKeys(topology, alarm)
<1>1. Parsed(topology)
  BY InputsAssumption DEF Places
<1>2. ASSUME next <= Len(Collectors)
      PROVE  /\ Name \in CollectorNames
             /\ IsSeq(Plan(Name, topology, alarm))
             /\ Len(Plan(Name, topology, alarm)) \in Nat
  <2>1. next \in 1..6
    BY <1>2, SixCollectors DEF Places
  <2>2. Name \in CollectorNames
    BY <2>1, SixCollectors DEF Name
  <2>3. IsSeq(Plan(Name, topology, alarm))
    BY <1>1, <2>2, PlanFacts
  <2> QED
    BY <2>2, <2>3, SeqFacts
<1>3. ASSUME Calling
      PROVE  /\ reads + 1 \in DOMAIN Plan(Name, topology, alarm)
             /\ Allowed(topology, TheCall)
             /\ TheCall.source \in Elements(Sources)
             /\ TheCall.source = "ecs.describe_services.all_pilo"
                  <=> Name = "all_pilo_services"
             /\ TheCall.source = "github.deployments"
                  => Name = "recent_github_deployments"
             /\ Name # "all_pilo_services" =>
                  TheCall.service \in Keys(topology.services)
                                       \cap MappedKeys(topology, alarm)
  <2> DEFINE P == Plan(Name, topology, alarm)
  <2>1. next <= Len(Collectors) /\ reads < Len(P) /\ reads \in Nat
    BY <1>3 DEF Calling, Collecting, Places
  <2>2. Name \in CollectorNames /\ IsSeq(P) /\ Len(P) \in Nat
    BY <1>2, <2>1
  <2>3. DOMAIN P = 1..Len(P)
    BY <2>2, SeqFacts
  <2>4. reads + 1 \in DOMAIN P
    BY <2>1, <2>2, <2>3
  <2> DEFINE c == P[reads + 1]
  <2>5. /\ Allowed(topology, c) /\ c.source \in Elements(Sources)
        /\ c.source = "ecs.describe_services.all_pilo"
             <=> Name = "all_pilo_services"
        /\ c.source = "github.deployments" => Name = "recent_github_deployments"
        /\ Name # "all_pilo_services" =>
             c.service \in Keys(topology.services) \cap MappedKeys(topology, alarm)
    BY <1>1, <2>2, <2>4, PlanFacts
  <2>6. TheCall = c
    BY DEF TheCall
  <2> HIDE DEF c
  <2> QED
    BY <2>4, <2>5, <2>6
<1> QED
  BY <1>1, <1>2, <1>3

(* A collector's own calls are never turned down.                          *)
LEMMA OwnCallsPermitted ==
  ASSUME Places, Calling
  PROVE  Permitted
BY PlanAtWork DEF Permitted, Allowed

(* Initially.                                                              *)
LEMMA StagedInit == Init => Staged
<1> SUFFICES ASSUME Init PROVE Staged
  OBVIOUS
<1>1. IsSeq(<<>>) /\ Elements(<<>>) = {}
  BY NoElements DEF Elements
<1>2. Places
  <2>1. /\ input \in Inputs /\ topology = input.object
        /\ next = 1 /\ reads = 0 /\ failures = <<>> /\ status = "idle"
    BY DEF Init, Idle
  <2>2. next \in 1..(Len(Collectors) + 1) /\ ~Collecting
    BY <2>1, SixCollectors DEF Collecting
  <2> QED
    BY <1>1, <2>1, <2>2 DEF Places, Init
<1>3. Phases
  BY DEF Init, Idle, Phases, BeforeSnapshot, AfterSnapshot
<1> QED
  BY <1>2, <1>3 DEF Staged

(* A step of the collection leaves the collectors in their places.         *)
LEMMA CollectPlaces ==
  ASSUME Places, Collect, UNCHANGED <<topology, alarm, input>>
  PROVE  Places' /\ status' # "idle" /\ status' # "denied"
<1> DEFINE P == Plan(Name, topology, alarm)
<1>0. /\ input' \in Inputs /\ topology' = input'.object
      /\ \A n \in 1..6 : Collectors[n] \in CollectorNames
      /\ Len(Collectors) = 6
  BY SixCollectors DEF Places
<1>1. status = "collecting" /\ (Calling => Collecting)
  BY DEF Collect, Read, ListTasks, DescribeTasks, Fail, Raise, Return,
         Assemble, AtCall, Calling, Collecting
<1>2. ASSUME NEW rows, Calling, Finish(rows)
      PROVE  Places' /\ status' = "collecting"
  <2>1. /\ next' = next /\ reads' = reads + 1 /\ failures' = failures
        /\ status' = status
    BY <1>2 DEF Finish
  <2>2. reads \in Nat /\ reads < Len(P) /\ Len(P) \in Nat
    BY <1>2, PlanAtWork DEF Calling, Collecting, Places
  <2>3. P' = P
    BY <2>1 DEF Name
  <2> HIDE DEF P
  <2>4. Collecting' => reads' <= Len(P')
    BY <2>1, <2>2, <2>3
  <2> QED
    BY <1>0, <1>1, <2>1, <2>2, <2>4 DEF Places, P
<1>3. ASSUME next <= Len(Collectors), next' = next + 1, reads' = 0,
             status' = "collecting",
             failures' = failures \/ failures' = Append(failures, Name)
      PROVE  Places'
  <2>1. next \in 1..6 /\ next' \in 1..(Len(Collectors) + 1)
    BY <1>0, <1>3 DEF Places
  <2>2. IsSeq(failures') /\ Elements(failures') \subseteq CollectorNames
    <3>1. CASE failures' = failures
      BY <3>1 DEF Places
    <3>2. CASE failures' = Append(failures, Name)
      <4>1. Name \in CollectorNames
        BY <1>0, <2>1 DEF Name
      <4>2. IsSeq(failures) /\ Elements(failures) \subseteq CollectorNames
        BY DEF Places
      <4>3. /\ IsSeq(Append(failures, Name))
            /\ Elements(Append(failures, Name)) = Elements(failures) \cup {Name}
        BY <4>2, Appended
      <4> QED
        BY <3>2, <4>1, <4>2, <4>3
    <3> QED
      BY <1>3, <3>1, <3>2
  <2>3. Collecting' => 0 <= Len(P')
    <3>1. SUFFICES ASSUME Collecting' PROVE 0 <= Len(P')
      OBVIOUS
    <3>2. next' \in 1..6
      BY <1>0, <2>1, <3>1 DEF Collecting
    <3>3. Name' \in CollectorNames
      BY <1>0, <3>2 DEF Name
    <3>4. Parsed(topology')
      BY PlanAtWork
    <3>5. IsSeq(Plan(Name', topology', alarm'))
      BY <3>3, <3>4, PlanFacts
    <3> QED
      BY <3>5, SeqFacts
  <2> HIDE DEF P
  <2> QED
    BY <1>0, <1>3, <2>1, <2>2, <2>3 DEF Places, P
<1>4. CASE Read
  BY <1>2, <1>4 DEF Read
<1>5. CASE ListTasks
  <2>1. UNCHANGED <<next, reads, failures, status>>
    BY <1>5 DEF ListTasks
  <2> QED
    BY <1>0, <1>1, <2>1 DEF Places, Collecting, Name
<1>6. CASE DescribeTasks
  BY <1>2, <1>6 DEF DescribeTasks
<1>7. CASE Fail
  <2>1. /\ next <= Len(Collectors) /\ next' = next + 1 /\ reads' = 0
        /\ status' = "collecting" /\ failures' = Append(failures, Name)
    BY <1>1, <1>7 DEF Fail, AtCall, Calling, Collecting
  <2> QED
    BY <1>3, <2>1
<1>8. CASE Raise
  <2>1. Calling
    BY <1>8 DEF Raise, AtCall
  <2>2. status' = "raised" /\ UNCHANGED <<next, reads, failures>>
    BY <1>8, <2>1, OwnCallsPermitted DEF Raise
  <2> QED
    BY <1>0, <2>2 DEF Places, Collecting
<1>9. CASE Return
  <2>1. /\ next <= Len(Collectors) /\ next' = next + 1 /\ reads' = 0
        /\ status' = "collecting" /\ failures' = failures
    BY <1>1, <1>9 DEF Return, Collecting
  <2> QED
    BY <1>3, <2>1
<1>10. CASE Assemble
  <2>1. status' = "collected" /\ UNCHANGED <<next, reads, failures>>
    BY <1>10 DEF Assemble
  <2> QED
    BY <1>0, <2>1 DEF Places, Collecting
<1> QED
  BY <1>1, <1>4, <1>5, <1>6, <1>7, <1>8, <1>9, <1>10, <1>2 DEF Collect

(* A step that leaves the collectors alone.                                *)
LEMMA SamePlaces ==
  ASSUME Places, UNCHANGED <<topology, alarm, input, collectVars>>
  PROVE  Places'
<1>1. /\ UNCHANGED <<topology, alarm, input, next, reads, page, local>>
      /\ UNCHANGED <<evidence, failures, status, snapshot, lasting, changes>>
  BY DEF collectVars
<1>2. Collecting' = Collecting /\ Idle' = Idle
  BY <1>1 DEF Collecting, Idle
<1>3. Plan(Name, topology, alarm)' = Plan(Name, topology, alarm)
  BY <1>1 DEF Name
<1> QED
  BY <1>1, <1>2, <1>3 DEF Places

(* What a step of handle leaves of the collection, or does to it.          *)
LEMMA StageSteps ==
  ASSUME [Next]_vars
  PROVE  \/ UNCHANGED <<topology, alarm, input, collectVars>>
         \/ ParseEvent \/ Claim \/ Snapshot
BY DEF Next, ParseEvent, LoadTopology, LeaveSnapshot, Investigate, Render,
       Publish, Ended, vars, reportVars

(* Every step keeps the places of the collectors.                          *)
LEMMA PlacesNext ==
  ASSUME Staged, [Next]_vars
  PROVE  Places'
<1> USE DEF Staged
<1>1. CASE UNCHANGED <<topology, alarm, input, collectVars>>
  BY <1>1, SamePlaces
<1>2. CASE ParseEvent
  <2>1. status = "idle"
    BY <1>2 DEF ParseEvent, Phases, BeforeSnapshot
  <2>2. UNCHANGED <<topology, input, collectVars>>
    BY <1>2 DEF ParseEvent
  <2>3. UNCHANGED <<next, reads, failures, status>> /\ Idle' = Idle
    BY <2>2 DEF collectVars, Idle
  <2> QED
    BY <2>1, <2>2, <2>3 DEF Places, Collecting
<1>3. CASE Claim
  <2>1. /\ UNCHANGED <<topology, alarm, input, next, reads, failures>>
        /\ Idle
    BY <1>3 DEF Claim, Phases, Places, BeforeSnapshot
  <2>2. CASE status' = "collecting"
    <3>1. reads' = 0 /\ next' = 1
      BY <2>1 DEF Idle
    <3>2. next <= Len(Collectors)
      BY <2>1, SixCollectors DEF Idle
    <3>3. Len(Plan(Name, topology, alarm)) \in Nat
      BY <3>2, PlanAtWork
    <3>4. Plan(Name, topology, alarm)' = Plan(Name, topology, alarm)
      BY <2>1 DEF Name
    <3>5. 0 <= Len(Plan(Name, topology, alarm)')
      BY <3>3, <3>4
    <3> QED
      BY <2>1, <2>2, <3>1, <3>5 DEF Places
  <2>3. CASE UNCHANGED status
    <3>1. UNCHANGED collectVars
      BY <1>3, <2>3 DEF Claim, collectVars
    <3> QED
      BY <2>1, <3>1, SamePlaces
  <2> QED
    BY <1>3, <2>2, <2>3 DEF Claim
<1>4. CASE Snapshot
  <2>1. UNCHANGED <<topology, alarm, input>>
    BY <1>4 DEF Snapshot, reportVars
  <2>2. CASE Collect
    BY <2>1, <2>2, CollectPlaces
  <2>3. CASE TasksMove
    <3>1. UNCHANGED <<next, reads, failures, status>> /\ status # "idle"
      BY <2>3 DEF TasksMove, Calling, Collecting
    <3>2. Plan(Name, topology, alarm)' = Plan(Name, topology, alarm)
      BY <2>1, <3>1 DEF Name
    <3> QED
      BY <2>1, <3>1, <3>2 DEF Places, Collecting
  <2> QED
    BY <1>4, <2>2, <2>3 DEF Snapshot
<1> QED
  BY <1>1, <1>2, <1>3, <1>4, StageSteps

(* Every step keeps what its stage knows.                                  *)
LEMMA PhasesNext ==
  ASSUME Staged, [Next]_vars
  PROVE  Phases'
<1> USE DEF Staged
<1>1. CASE ParseEvent
  <2>1. /\ stage = "parse_event" /\ UNCHANGED <<topology, status, payload>>
        /\ input \in Inputs
    BY <1>1 DEF ParseEvent, collectVars, Places
  <2>2. CASE ValidEvent(input.event)
    <3>1. IsSeq(input.event.resources)
      BY <2>1, InputsAssumption
    <3> DEFINE resources == input.event.resources
    <3>a. Len(resources) = 1 /\ DOMAIN resources = 1..Len(resources)
      BY <2>2, <3>1, SeqFacts DEF ValidEvent
    <3>2. 1 \in DOMAIN input.event.resources
      BY <3>a
    <3>3. input.event.resources[1] \in AlarmArns
      BY <2>2, <3>2 DEF ValidEvent, Elements
    <3>4. /\ stage' = "load_topology" /\ UNCHANGED <<outcome, failedAt>>
          /\ alarm' \in AlarmArns
      BY <1>1, <2>2, <3>3 DEF ParseEvent, Proceed
    <3> QED
      BY <2>1, <3>4 DEF Phases, BeforeSnapshot, AfterSnapshot
  <2>3. CASE ~ValidEvent(input.event)
    BY <1>1, <2>1, <2>3 DEF ParseEvent, Phases, BeforeSnapshot, AfterSnapshot,
       FailAt
  <2> QED
    BY <2>2, <2>3
<1>2. CASE LoadTopology
  BY <1>2 DEF LoadTopology, Phases, BeforeSnapshot, AfterSnapshot, Proceed,
     FailAt, collectVars, Places
<1>3. CASE Claim
  BY <1>3 DEF Claim, Phases, BeforeSnapshot, AfterSnapshot, Proceed,
     FailAt, EndWith
<1>4. CASE Snapshot
  <2>1. /\ stage = "snapshot" /\ status = "collecting"
        /\ UNCHANGED <<topology, alarm, stage, outcome, failedAt, payload>>
    BY <1>4 DEF Snapshot, reportVars
  <2>2. status' # "idle"
    <3>1. CASE Collect
      BY <1>4, <3>1, CollectPlaces DEF Snapshot, reportVars
    <3>2. CASE TasksMove
      BY <2>1, <3>2 DEF TasksMove
    <3> QED
      BY <1>4, <3>1, <3>2 DEF Snapshot
  <2> QED
    BY <2>1, <2>2 DEF Phases, BeforeSnapshot, AfterSnapshot
<1>5. CASE LeaveSnapshot
  BY <1>5 DEF LeaveSnapshot, Phases, BeforeSnapshot, AfterSnapshot, Proceed,
     FailAt, collectVars
<1>6. CASE Investigate
  <2>1. /\ stage = "investigation" /\ stage' = "render"
        /\ UNCHANGED <<topology, alarm, status, outcome, failedAt, payload>>
    BY <1>6 DEF Investigate, Proceed, collectVars
  <2> QED
    BY <2>1 DEF Phases, BeforeSnapshot, AfterSnapshot
<1>7. CASE Render
  <2>1. stage = "render" /\ UNCHANGED <<topology, alarm, status>>
    BY <1>7 DEF Render, collectVars
  <2>2. \/ /\ stage' = "ended" /\ outcome' = "failed" /\ failedAt' = "render"
           /\ payload' = payload
        \/ /\ stage' = "publish" /\ UNCHANGED <<outcome, failedAt>>
           /\ payload' # NoPayload
    BY <1>7 DEF Render, Proceed, FailAt, NoPayload
  <2> QED
    BY <2>1, <2>2 DEF Phases, BeforeSnapshot, AfterSnapshot
<1>8. CASE Publish
  BY <1>8 DEF Publish, Phases, BeforeSnapshot, AfterSnapshot, EndWith, FailAt,
     collectVars
<1>9. CASE Ended \/ UNCHANGED vars
  <2>1. UNCHANGED <<topology, alarm, stage, outcome, failedAt, status, payload>>
    BY <1>9 DEF Ended, vars, collectVars, reportVars
  <2> QED
    BY <2>1 DEF Phases
<1> QED
  BY <1>1, <1>2, <1>3, <1>4, <1>5, <1>6, <1>7, <1>8, <1>9 DEF Next

(* Hence it always holds.                                                  *)
LEMMA AlwaysStaged == Spec => []Staged
<1>1. ASSUME Staged, [Next]_vars PROVE Staged'
  BY <1>1, PlacesNext, PhasesNext DEF Staged
<1> QED
  BY StagedInit, <1>1, PTL DEF Spec

(* Theorem: every variable of a report has its type.                       *)
THEOREM Typing == Spec => []TypeOK
<1>1. Staged => TypeOK
  <2>1. SUFFICES ASSUME Staged PROVE TypeOK
    OBVIOUS
  <2>2. Collecting => reads \in 0..Len(Plan(Name, topology, alarm))
    <3>1. SUFFICES ASSUME Collecting
                   PROVE  reads \in 0..Len(Plan(Name, topology, alarm))
      OBVIOUS
    <3>2. Len(Plan(Name, topology, alarm)) \in Nat
      BY <2>1, <3>1, PlanAtWork DEF Staged, Collecting
    <3> QED
      BY <2>1, <3>1, <3>2 DEF Staged, Places
  <2> QED
    BY <2>1, <2>2, StageNames DEF Staged, Places, Phases, TypeOK
<1> QED
  BY <1>1, AlwaysStaged, PTL

(* Theorem: the services of a Snapshot are the ones mapped to the alarm,   *)
(* and the allowlist never turns down a collector's own call.              *)
THEOREM MappedServicesOnly == Spec => []AlarmsServicesOnly
<1> DEFINE NeverDenied == status # "denied"
<1>1. Init => NeverDenied
  BY DEF Init, Idle
<1>2. ASSUME Staged, NeverDenied, [Next]_vars PROVE NeverDenied'
  <2>1. CASE UNCHANGED <<topology, alarm, input, collectVars>>
    BY <1>2, <2>1 DEF collectVars
  <2>2. CASE ParseEvent
    BY <1>2, <2>2 DEF ParseEvent, collectVars
  <2>3. CASE Claim
    BY <1>2, <2>3 DEF Claim
  <2>4. CASE Snapshot
    <3>1. CASE Collect
      BY <1>2, <2>4, <3>1, CollectPlaces DEF Snapshot, reportVars, Staged
    <3>2. CASE TasksMove
      BY <1>2, <3>2 DEF TasksMove
    <3> QED
      BY <2>4, <3>1, <3>2 DEF Snapshot
  <2> QED
    BY <1>2, <2>1, <2>2, <2>3, <2>4, StageSteps
<1>3. ASSUME Staged, NeverDenied PROVE AlarmsServicesOnly
  <2>1. SUFFICES ASSUME status # "idle" PROVE AlarmsServicesOnly
    BY DEF AlarmsServicesOnly
  <2>2. Loadable(topology) /\ Places
    BY <1>3, <2>1 DEF Staged, Phases
  <2>3. MappedKeys(topology, alarm) \subseteq Keys(topology.services)
    BY <2>2 DEF Loadable, ValidAlarms, MappedKeys
  <2>4. {ResolveAlarm(topology, alarm)[i].key :
           i \in DOMAIN ResolveAlarm(topology, alarm)}
          = Keys(topology.services) \cap MappedKeys(topology, alarm)
    BY <2>2, PlanAtWork, ResolvedServices
  <2>5. Calling => \/ Name = "all_pilo_services"
                   \/ TheCall.service \in MappedKeys(topology, alarm)
    BY <2>2, PlanAtWork
  <2> QED
    BY <1>3, <2>3, <2>4, <2>5 DEF AlarmsServicesOnly
<1> QED
  BY <1>1, <1>2, <1>3, AlwaysStaged, PTL DEF Spec

(* Theorem: a collector is in the Snapshot whole or as a failure.          *)
THEOREM CollectorsWholeOrFailed == Spec => WholeOrFailed
<1>1. ASSUME Staged, [Next]_vars, next' # next
      PROVE  \/ /\ failures' = failures /\ evidence' = evidence \o local
                /\ reads = Len(Plan(Name, topology, alarm))
             \/ /\ failures' = Append(failures, Name)
                /\ evidence' = evidence
  <2>1. Collect
    <3>1. Snapshot
      BY <1>1, StageSteps DEF ParseEvent, Claim, collectVars
    <3> QED
      BY <1>1, <3>1 DEF Snapshot, TasksMove
  <2>2. CASE Fail
    BY <2>2 DEF Fail
  <2>3. CASE Return
    <3>1. Collecting /\ ~(reads < Len(Plan(Name, topology, alarm)))
      BY <2>3 DEF Return, Calling
    <3>2. reads = Len(Plan(Name, topology, alarm))
      <4>1. /\ reads <= Len(Plan(Name, topology, alarm)) /\ reads \in Nat
            /\ next <= Len(Collectors)
        BY <1>1, <3>1 DEF Staged, Places, Collecting
      <4>2. Len(Plan(Name, topology, alarm)) \in Nat
        BY <1>1, <4>1, PlanAtWork DEF Staged
      <4> QED
        BY <3>1, <4>1, <4>2
    <3> QED
      BY <2>3, <3>2 DEF Return
  <2> QED
    BY <1>1, <2>1, <2>2, <2>3
    DEF Collect, Read, ListTasks, DescribeTasks, Finish, Raise, Assemble
<1>2. ASSUME Staged, [Next]_vars
      PROVE  [next' # next =>
                \/ /\ failures' = failures /\ evidence' = evidence \o local
                   /\ reads = Len(Plan(Name, topology, alarm))
                \/ /\ failures' = Append(failures, Name)
                   /\ evidence' = evidence]_collectVars
  BY <1>1, <1>2
<1> QED
  BY <1>2, AlwaysStaged, PTL DEF Spec, WholeOrFailed

-----------------------------------------------------------------------------
(* The stopped tasks.                                                      *)

(* While the tasks of a service are listed, the ones known since the first *)
(* page are still known, and once no page is left all of them are named.   *)
Listing ==
  /\ stopped \in [Keys(topology.services) -> SUBSET TaskIds]
  /\ page.pages \in Nat /\ page.arns \subseteq TaskIds /\ IsFiniteSet(page.arns)
  /\ \A k \in DOMAIN stopped : IsFiniteSet(stopped[k])
  /\ page.pages = 0 => page = NoPage
  /\ status = "collecting" /\ ~(Calling /\ ListsTasks) =>
       page = NoPage /\ lasting = {}
  /\ Calling /\ ListsTasks /\ page.pages > 0 =>
       /\ lasting \subseteq stopped[TheCall.service]
       /\ ~page.more => lasting \subseteq page.arns

(* A step that leaves no listing open.                                     *)
LEMMA NothingListed ==
  ASSUME page' = NoPage, lasting' = {}, UNCHANGED <<topology, stopped>>, Listing
  PROVE  Listing'
<1>1. /\ page'.pages = 0 /\ page'.arns = {} /\ IsFiniteSet({})
  BY FS_EmptySet DEF NoPage
<1> QED
  BY <1>1 DEF Listing

(* Initially.                                                              *)
LEMMA ListingInit == Init => Listing
<1> SUFFICES ASSUME Init PROVE Listing
  OBVIOUS
<1>1. /\ stopped \in [Keys(topology.services) -> SUBSET TaskIds]
      /\ \A k \in DOMAIN stopped : IsFiniteSet(stopped[k])
  BY InputsAssumption DEF Init
<1>2. page = NoPage /\ lasting = {} /\ status = "idle" /\ IsFiniteSet({})
  BY FS_EmptySet DEF Init, Idle
<1>3. /\ page.pages = 0 /\ page.arns = {}
  BY <1>2 DEF NoPage
<1> QED
  BY <1>1, <1>2, <1>3 DEF Listing

(* The call at work is a function of these variables.                      *)
LEMMA SameCall ==
  ASSUME UNCHANGED <<topology, alarm, next, reads, status>>
  PROVE  /\ Calling' = Calling /\ ListsTasks' = ListsTasks
         /\ TheCall' = TheCall /\ Name' = Name
BY DEF Calling, Collecting, ListsTasks, TheCall, Name

(* A page of the listing.                                                  *)
LEMMA ListTasksListing ==
  ASSUME Places, Listing, ListTasks, UNCHANGED <<topology, alarm, input>>
  PROVE  Listing'
<1> DEFINE known == stopped[TheCall.service]
<1>1. /\ Calling /\ ListsTasks
      /\ UNCHANGED <<topology, alarm, next, reads, status, stopped>>
      /\ lasting' = IF page.pages = 0 THEN known ELSE lasting
  BY DEF ListTasks
<1>2. PICK arns \in SUBSET (known \ page.arns) :
        page' = [pages |-> page.pages + 1, arns |-> page.arns \cup arns,
                 more |-> known \ (page.arns \cup arns) # {}]
  BY DEF ListTasks
<1>3. TheCall.service \in Keys(topology.services)
  BY <1>1, PlanAtWork DEF ListsTasks
<1>4. known \subseteq TaskIds /\ IsFiniteSet(known)
  BY <1>3 DEF Listing
<1>5. arns \subseteq TaskIds /\ IsFiniteSet(arns)
  BY <1>4, FS_Subset
<1>6. /\ page'.pages = page.pages + 1 /\ page'.arns = page.arns \cup arns
      /\ page'.more = (known \ (page.arns \cup arns) # {})
  BY <1>2
<1>7. /\ page'.pages \in Nat /\ page'.pages # 0
      /\ page'.arns \subseteq TaskIds /\ IsFiniteSet(page'.arns)
  <2>1. page.pages \in Nat /\ page.arns \subseteq TaskIds /\ IsFiniteSet(page.arns)
    BY DEF Listing
  <2>2. IsFiniteSet(page.arns \cup arns)
    BY <1>5, <2>1, FS_Union
  <2> QED
    BY <1>5, <1>6, <2>1, <2>2
<1>8. /\ Calling' = Calling /\ ListsTasks' = ListsTasks /\ TheCall' = TheCall
  BY <1>1, SameCall
<1>9. lasting' \subseteq known
  <2>1. page.pages \in Nat
    BY DEF Listing
  <2> QED
    BY <1>1, <2>1 DEF Listing
<1>10. ~page'.more => known \subseteq page'.arns
  BY <1>6
<1>11. stopped'[TheCall'.service] = known
  BY <1>1, <1>8
<1>12. /\ stopped' \in [Keys(topology'.services) -> SUBSET TaskIds]
       /\ \A k \in DOMAIN stopped' : IsFiniteSet(stopped'[k])
  BY <1>1 DEF Listing
<1> HIDE DEF known
<1> QED
  BY <1>1, <1>7, <1>8, <1>9, <1>10, <1>11, <1>12 DEF Listing

(* Tasks come and go between two pages.                                    *)
LEMMA TasksMoveListing ==
  ASSUME Places, Listing, TasksMove, UNCHANGED <<topology, alarm, input>>
  PROVE  Listing'
<1> DEFINE k == TheCall.service
<1>1. /\ Calling /\ page.pages > 0
      /\ UNCHANGED <<topology, alarm, next, reads, status, page>>
  BY DEF TasksMove
<1>2. PICK t \in TaskIds :
        /\ stopped' = [stopped EXCEPT ![k] =
                         IF t \in @ THEN @ \ {t} ELSE @ \cup {t}]
        /\ lasting' = lasting \ {t}
  BY DEF TasksMove
<1>3. ListsTasks
  <2>1. page # NoPage
    BY <1>1 DEF NoPage
  <2> QED
    BY <1>1, <2>1 DEF Listing, Calling, Collecting
<1>4. k \in Keys(topology.services)
  BY <1>1, <1>3, PlanAtWork DEF ListsTasks
<1>5. /\ stopped \in [Keys(topology.services) -> SUBSET TaskIds]
      /\ \A i \in DOMAIN stopped : IsFiniteSet(stopped[i])
      /\ lasting \subseteq stopped[k]
      /\ ~page.more => lasting \subseteq page.arns
  BY <1>1, <1>3 DEF Listing
<1>6. stopped'[k] = IF t \in stopped[k] THEN stopped[k] \ {t} ELSE stopped[k] \cup {t}
  BY <1>2, <1>4, <1>5
<1>7. /\ lasting' \subseteq stopped'[k] /\ IsFiniteSet(stopped'[k])
  <2>1. IsFiniteSet(stopped[k]) /\ IsFiniteSet(stopped[k] \ {t})
    BY <1>4, <1>5, FS_Subset
  <2>2. IsFiniteSet(stopped[k] \cup {t})
    BY <2>1, FS_AddElement
  <2> QED
    BY <1>2, <1>5, <1>6, <2>1, <2>2
<1>8. /\ stopped' \in [Keys(topology.services) -> SUBSET TaskIds]
      /\ \A i \in DOMAIN stopped' : IsFiniteSet(stopped'[i])
  BY <1>2, <1>4, <1>5, <1>7
<1>9. /\ Calling' = Calling /\ ListsTasks' = ListsTasks /\ TheCall' = TheCall
  BY <1>1, SameCall
<1>10. ~page.more => lasting' \subseteq page.arns
  BY <1>2, <1>5
<1>11. k' = k
  BY <1>9
<1>12. /\ page'.pages \in Nat /\ page'.arns \subseteq TaskIds
       /\ IsFiniteSet(page'.arns) /\ page' = page /\ page.pages # 0
       /\ topology' = topology
  BY <1>1 DEF Listing
<1> HIDE DEF k
<1>13. /\ lasting' \subseteq stopped'[k']
       /\ ~page'.more => lasting' \subseteq page'.arns
  BY <1>7, <1>10, <1>11, <1>12
<1> QED
  BY <1>1, <1>3, <1>8, <1>9, <1>12, <1>13 DEF Listing, k

(* Every step keeps the listing sound.                                     *)
LEMMA ListingNext ==
  ASSUME Staged, Listing, [Next]_vars
  PROVE  Listing'
<1> USE DEF Staged
<1>1. CASE UNCHANGED <<topology, alarm, input, collectVars>>
  <2>1. UNCHANGED <<topology, alarm, next, reads, status, page, stopped, lasting>>
    BY <1>1 DEF collectVars
  <2> QED
    BY <2>1, SameCall DEF Listing
<1>2. CASE ParseEvent
  <2>1. UNCHANGED <<topology, status, page, stopped, lasting>> /\ status = "idle"
    BY <1>2 DEF ParseEvent, collectVars, Phases, BeforeSnapshot
  <2> QED
    BY <2>1 DEF Listing, Calling, Collecting
<1>3. CASE Claim
  <2>1. /\ UNCHANGED <<topology, page, stopped, lasting>>
        /\ page = NoPage /\ lasting = {}
    BY <1>3 DEF Claim, Phases, Places, BeforeSnapshot, Idle
  <2> QED
    BY <2>1, NothingListed
<1>4. CASE Snapshot
  <2>0. UNCHANGED <<topology, alarm, input>> /\ status = "collecting"
    BY <1>4 DEF Snapshot, reportVars
  <2>1. CASE ListTasks
    BY <2>0, <2>1, ListTasksListing
  <2>2. CASE TasksMove
    BY <2>0, <2>2, TasksMoveListing
  <2>3. CASE Read \/ DescribeTasks \/ Fail
    <3>1. page' = NoPage /\ lasting' = {} /\ UNCHANGED stopped
      BY <2>3 DEF Read, DescribeTasks, Fail, Finish
    <3> QED
      BY <2>0, <3>1, NothingListed
  <2>4. CASE Return
    <3>1. page = NoPage /\ lasting = {} /\ UNCHANGED <<page, stopped, lasting>>
      BY <2>0, <2>4 DEF Return, Listing
    <3> QED
      BY <2>0, <3>1, NothingListed
  <2>5. CASE Raise \/ Assemble
    <3>1. UNCHANGED <<page, stopped, lasting>> /\ status' # "collecting"
      BY <2>5 DEF Raise, Assemble
    <3> QED
      BY <2>0, <3>1 DEF Listing, Calling, Collecting
  <2> QED
    BY <1>4, <2>1, <2>2, <2>3, <2>4, <2>5 DEF Snapshot, Collect
<1> QED
  BY <1>1, <1>2, <1>3, <1>4, StageSteps

-----------------------------------------------------------------------------
(* The rows.                                                               *)

(* Some call that a collector makes for an alarm.                          *)
IsCall(call, t, arn) ==
  \E c \in CollectorNames :
    \E k \in DOMAIN Plan(c, t, arn) : call = Plan(c, t, arn)[k]

(* The answers to a call are lists.                                        *)
LEMMA AnswersOfCall ==
  ASSUME Staged, Calling, ~ListsTasks, NEW answer \in Answers(TheCall)
  PROVE  /\ IsSeq(answer)
         /\ TheCall.source = "logs.filter_log_events" => Timed(answer)
         /\ TheCall.source = "github.deployments" =>
              \A n \in DOMAIN answer : answer[n].id \in Nat
         /\ TheCall.source \notin {"logs.filter_log_events",
                                  "ecs.describe_services.all_pilo"} =>
              Distinct(answer)
<1>1. /\ input \in Inputs /\ topology = input.object
      /\ alarm \in AlarmArns /\ Loadable(topology)
      /\ next <= Len(Collectors)
  BY DEF Staged, Places, Phases, Calling, Collecting
<1>2. /\ Name \in CollectorNames
      /\ reads + 1 \in DOMAIN Plan(Name, topology, alarm)
  BY <1>1, PlanAtWork DEF Staged
<1>3. /\ TheCall = Plan(Name, topology, alarm)[reads + 1]
      /\ TheCall.source # "ecs.describe_tasks"
  BY DEF TheCall, ListsTasks
<1> DEFINE call == Plan(Name, topology, alarm)[reads + 1]
<1>4. \A a \in Answers(call) :
        /\ IsSeq(a)
        /\ call.source = "logs.filter_log_events" => Timed(a)
        /\ call.source = "github.deployments" =>
             \A n \in DOMAIN a : a[n].id \in Nat
        /\ call.source \notin {"logs.filter_log_events",
                              "ecs.describe_services.all_pilo"} => Distinct(a)
  BY <1>1, <1>2, <1>3, AnswersAssumption
<1> HIDE DEF call
<1> QED
  BY <1>3, <1>4 DEF call

(* The rows read from an answer are a list.                                *)
LEMMA RowsOfSeq ==
  ASSUME Parsed(topology), NEW answer, IsSeq(answer)
  PROVE  IsSeq(RowsOf(answer))
<1>1. CASE TheCall.source = "logs.filter_log_events"
  <2> DEFINE events == Logged(answer)
             rows == [i \in DOMAIN events |-> Row(TheCall.service, events[i])]
  <2>1. RowsOf(answer) = rows
    BY <1>1 DEF RowsOf
  <2>2. IsSeq(events)
    BY CutFacts, SortedSeq, CollectorAssumption DEF Logged, ByTime
  <2>3. DOMAIN rows = DOMAIN events /\ rows = [i \in DOMAIN rows |-> rows[i]]
    OBVIOUS
  <2> HIDE DEF rows, events
  <2> QED
    BY <2>1, <2>2, <2>3, MappedSeq
<1>2. CASE TheCall.source = "github.deployments"
  <2> DEFINE recent == Recent(answer)
             rows == [i \in DOMAIN recent |-> Row("", recent[i])]
             places == {i \in DOMAIN answer : answer[i].environment = "dev"
                                              /\ answer[i].recent}
             kept == Selected(answer, places)
  <2>1. RowsOf(answer) = rows
    BY <1>2 DEF RowsOf
  <2>2. IsSeq(recent)
    <3>1. IsSeq(kept)
      <4>1. places \subseteq DOMAIN answer
        OBVIOUS
      <4> HIDE DEF places
      <4> QED
        BY <4>1, SelectedFacts
    <3>2. recent = Cut(Sorted(kept, Newer(kept)), MaxRows)
      BY DEF Recent
    <3> HIDE DEF kept, recent
    <3> QED
      BY <3>1, <3>2, SortedSeq, CutFacts, CollectorAssumption
  <2>3. DOMAIN rows = DOMAIN recent /\ rows = [i \in DOMAIN rows |-> rows[i]]
    OBVIOUS
  <2> HIDE DEF rows, recent
  <2> QED
    BY <2>1, <2>2, <2>3, MappedSeq
<1>3. CASE TheCall.source = "ecs.describe_services.all_pilo"
  <2> DEFINE S == ServicesIn(topology, TheCall.cluster)
             rows == [i \in DOMAIN S |-> Row(S[i].key, answer[i])]
             places == {i \in DOMAIN topology.services :
                          topology.services[i].ecs_cluster = TheCall.cluster}
  <2>1. RowsOf(answer) = rows
    BY <1>3 DEF RowsOf
  <2>2. IsSeq(S)
    <3>1. places \subseteq DOMAIN topology.services /\ IsSeq(topology.services)
      BY DEF Parsed
    <3>2. S = Selected(topology.services, places)
      BY DEF ServicesIn
    <3> HIDE DEF S, places
    <3> QED
      BY <3>1, <3>2, SelectedFacts
  <2>3. DOMAIN rows = DOMAIN S /\ rows = [i \in DOMAIN rows |-> rows[i]]
    OBVIOUS
  <2> HIDE DEF rows, S
  <2> QED
    BY <2>1, <2>2, <2>3, MappedSeq
<1>4. CASE /\ TheCall.source # "logs.filter_log_events"
           /\ TheCall.source # "github.deployments"
           /\ TheCall.source # "ecs.describe_services.all_pilo"
  <2> DEFINE rows == [i \in DOMAIN answer |-> Row(TheCall.service, answer[i])]
  <2>1. RowsOf(answer) = rows
    BY <1>4 DEF RowsOf
  <2>2. DOMAIN rows = DOMAIN answer /\ rows = [i \in DOMAIN rows |-> rows[i]]
    OBVIOUS
  <2> HIDE DEF rows
  <2> QED
    BY <2>1, <2>2, MappedSeq
<1> QED
  BY <1>1, <1>2, <1>3, <1>4

(* What is gathered are lists.                                             *)
Gathered == IsSeq(local) /\ IsSeq(evidence)

(* Every step keeps them lists.                                            *)
LEMMA GatheredNext ==
  ASSUME Staged, Listing, Gathered, [Next]_vars
  PROVE  Gathered'
<1>1. CASE UNCHANGED <<topology, alarm, input, collectVars>>
  BY <1>1 DEF collectVars, Gathered
<1>2. CASE ParseEvent
  BY <1>2 DEF ParseEvent, collectVars, Gathered
<1>3. CASE Claim
  BY <1>3 DEF Claim, Gathered
<1>4. CASE Snapshot
  <2>1. Parsed(topology)
    BY PlanAtWork DEF Staged
  <2>2. CASE Read
    <3>1. PICK answer \in Answers(TheCall) : Finish(RowsOf(answer))
      BY <2>2 DEF Read
    <3>2. IsSeq(RowsOf(answer))
      BY <2>1, <2>2, <3>1, AnswersOfCall, RowsOfSeq DEF Read
    <3>3. local' = local \o RowsOf(answer) /\ evidence' = evidence
      BY <3>1 DEF Finish
    <3> QED
      BY <3>2, <3>3, Joined DEF Gathered
  <2>3. CASE DescribeTasks
    <3> DEFINE rows == [i \in DOMAIN TaskArns |-> Row(TheCall.service, TaskArns[i])]
    <3>1. Finish(rows)
      BY <2>3 DEF DescribeTasks
    <3>2. IsSeq(TaskArns)
      <4>1. page.arns \subseteq Nat /\ IsFiniteSet(page.arns)
        BY CollectorAssumption DEF Listing
      <4>2. IsSeq(Ascending(page.arns))
        BY <4>1, AscendingFacts
      <4> QED
        BY <4>2, CutFacts, CollectorAssumption DEF TaskArns
    <3>3. DOMAIN rows = DOMAIN TaskArns /\ rows = [i \in DOMAIN rows |-> rows[i]]
      OBVIOUS
    <3> HIDE DEF rows
    <3>4. IsSeq(rows)
      BY <3>2, <3>3, MappedSeq
    <3>5. local' = local \o rows /\ evidence' = evidence
      BY <3>1 DEF Finish
    <3> QED
      BY <3>4, <3>5, Joined DEF Gathered
  <2>4. CASE Fail
    BY <2>4, NoElements DEF Fail, Gathered
  <2>5. CASE Return
    <3>1. evidence' = evidence \o local /\ local' = <<>>
      BY <2>5 DEF Return
    <3> QED
      BY <3>1, NoElements, Joined DEF Gathered
  <2>6. CASE ListTasks \/ Raise \/ Assemble \/ TasksMove
    BY <2>6 DEF ListTasks, Raise, Assemble, TasksMove, Gathered
  <2> QED
    BY <1>4, <2>2, <2>3, <2>4, <2>5, <2>6 DEF Snapshot, Collect
<1> QED
  BY <1>1, <1>2, <1>3, <1>4, StageSteps

(* Hence all three invariants always hold.                                 *)
LEMMA AlwaysGathered == Spec => [](Staged /\ Listing /\ Gathered)
<1>1. Init => Gathered
  BY NoElements DEF Init, Idle, Gathered
<1> QED
  BY <1>1, ListingInit, ListingNext, GatheredNext, AlwaysStaged, PTL DEF Spec

(* Theorem: a task known as stopped from the first page to the description *)
(* is Evidence, unless the listing was cut or the collector failed.        *)
THEOREM TasksSeen == Spec => LastingTasksSeen
<1>1. ASSUME Staged, Listing, Gathered, [Next]_vars,
             Calling, ListsTasks, reads' = reads + 1,
             ~page.more, ~(Cardinality(page.arns) > MaxTasks),
             NEW t \in lasting
      PROVE  \E i \in DOMAIN local' : local'[i] = Row(TheCall.service, t)
  <2>0. reads \in Nat /\ Places
    BY <1>1 DEF Staged, Places
  <2>1. Collect
    <3>1. Snapshot
      BY <1>1, <2>0, StageSteps DEF ParseEvent, Claim, collectVars
    <3> QED
      BY <1>1, <2>0, <3>1 DEF Snapshot, TasksMove
  <2>2. DescribeTasks
    BY <1>1, <2>0, <2>1
    DEF Collect, Read, ListTasks, Fail, Raise, Return, Assemble
  <2>3. t \in page.arns
    <3>1. page.pages > 0
      BY <1>1 DEF Listing, NoPage
    <3> QED
      BY <1>1, <3>1 DEF Listing
  <2>4. /\ page.arns \subseteq Nat /\ IsFiniteSet(page.arns)
        /\ Cardinality(page.arns) \in Nat /\ MaxTasks \in Nat
    BY <1>1, CollectorAssumption, FS_CardinalityType DEF Listing
  <2> DEFINE A == Ascending(page.arns)
             rows == [i \in DOMAIN TaskArns |-> Row(TheCall.service, TaskArns[i])]
  <2>5. IsSeq(A) /\ Len(A) = Cardinality(page.arns) /\ Elements(A) = page.arns
    BY <2>4, AscendingFacts
  <2>6. TaskArns = A
    <3>1. Len(A) <= MaxTasks
      BY <1>1, <2>4, <2>5
    <3> HIDE DEF A
    <3>2. Cut(A, MaxTasks) = A
      BY <2>4, <2>5, <3>1, CutFacts
    <3> QED
      BY <3>2 DEF TaskArns, A
  <2>7. local' = local \o rows
    BY <2>2 DEF DescribeTasks, Finish
  <2>8. IsSeq(local)
    BY <1>1 DEF Gathered
  <2>9. IsSeq(rows) /\ DOMAIN rows = DOMAIN A
        /\ \A i \in DOMAIN rows : rows[i] = Row(TheCall.service, A[i])
    <3>1. /\ DOMAIN rows = DOMAIN A /\ rows = [i \in DOMAIN rows |-> rows[i]]
          /\ \A i \in DOMAIN rows : rows[i] = Row(TheCall.service, A[i])
      BY <2>6
    <3> HIDE DEF A, rows
    <3> QED
      BY <2>5, <3>1, MappedSeq
  <2>10. PICK j \in DOMAIN A : A[j] = t
    BY <2>3, <2>5 DEF Elements
  <2> HIDE DEF A, rows
  <2>11. rows[j] = Row(TheCall.service, t) /\ j \in DOMAIN rows
    BY <2>9, <2>10
  <2>12. Row(TheCall.service, t) \in Elements(rows)
    BY <2>11 DEF Elements
  <2>13. Elements(local \o rows) = Elements(local) \cup Elements(rows)
    BY <2>8, <2>9, Joined
  <2> QED
    BY <2>7, <2>12, <2>13 DEF Elements
<1>2. ASSUME Staged, Listing, Gathered, [Next]_vars
      PROVE  [(Calling /\ ListsTasks /\ reads' = reads + 1) =>
                \/ page.more \/ Cardinality(page.arns) > MaxTasks
                \/ \A t \in lasting :
                     \E i \in DOMAIN local' :
                       local'[i] = Row(TheCall.service, t)]_collectVars
  BY <1>1, <1>2
<1> QED
  BY <1>2, AlwaysGathered, PTL DEF Spec, LastingTasksSeen

-----------------------------------------------------------------------------
(* The metrics.                                                            *)

Counted(ms, name) == Cardinality({i \in DOMAIN ms : ms[i][1] = name})

(* Counts of joined lists add up.                                          *)
LEMMA CountedJoined ==
  ASSUME NEW s, IsSeq(s), NEW t, IsSeq(t), NEW name
  PROVE  /\ Counted(s, name) \in Nat /\ Counted(t, name) \in Nat
         /\ Counted(s \o t, name) = Counted(s, name) + Counted(t, name)
<1> DEFINE st == s \o t
           A == {i \in DOMAIN s : s[i][1] = name}
           B == {i \in DOMAIN t : t[i][1] = name}
           D == {Len(s) + i : i \in B}
           shift == [i \in B |-> Len(s) + i]
<1>1. /\ Len(s) \in Nat /\ DOMAIN s = 1..Len(s) /\ IsFiniteSet(DOMAIN s)
      /\ Len(t) \in Nat /\ DOMAIN t = 1..Len(t) /\ IsFiniteSet(DOMAIN t)
  BY SeqFacts
<1>2. /\ Len(st) = Len(s) + Len(t) /\ IsSeq(st)
      /\ \A i \in 1..Len(s) : st[i] = s[i]
      /\ \A i \in 1..Len(t) : st[Len(s) + i] = t[i]
  BY Joined
<1>3. DOMAIN st = 1..(Len(s) + Len(t))
  BY <1>2, SeqFacts
<1>4. IsFiniteSet(A) /\ IsFiniteSet(B)
  BY <1>1, FS_Subset
<1> HIDE DEF st
<1>5. {i \in DOMAIN st : st[i][1] = name} = A \cup D
  <2>1. ASSUME NEW i \in DOMAIN st, st[i][1] = name PROVE i \in A \cup D
    <3>1. CASE i <= Len(s)
      BY <1>1, <1>2, <1>3, <2>1, <3>1
    <3>2. CASE ~(i <= Len(s))
      <4>1. i - Len(s) \in DOMAIN t /\ Len(s) + (i - Len(s)) = i
        BY <1>1, <1>3, <3>2
      <4> QED
        BY <1>1, <1>2, <2>1, <4>1
    <3> QED
      BY <3>1, <3>2
  <2>2. ASSUME NEW i \in A PROVE i \in DOMAIN st /\ st[i][1] = name
    BY <1>1, <1>2, <1>3
  <2>3. ASSUME NEW i \in B PROVE Len(s) + i \in DOMAIN st /\ st[Len(s) + i][1] = name
    BY <1>1, <1>2, <1>3
  <2> QED
    BY <2>1, <2>2, <2>3
<1>6. A \cap D = {}
  BY <1>1
<1>7. shift \in Bijection(B, D)
  <2>1. shift \in [B -> D] /\ \A d \in D : \E i \in B : shift[i] = d
    OBVIOUS
  <2>2. \A i, j \in B : shift[i] = shift[j] => i = j
    BY <1>1
  <2> HIDE DEF shift, B, D
  <2> QED
    BY <2>1, <2>2 DEF Bijection, Injection, Surjection, IsInjective
<1> HIDE DEF A, B, D, shift
<1>8. IsFiniteSet(D) /\ Cardinality(D) = Cardinality(B)
  <2>1. ExistsBijection(B, D)
    BY <1>7 DEF ExistsBijection
  <2> QED
    BY <1>4, <2>1, FS_Bijection
<1>9. Cardinality(A \cup D) = Cardinality(A) + Cardinality(D)
  <2>1. /\ Cardinality(A \cup D) =
             Cardinality(A) + Cardinality(D) - Cardinality(A \cap D)
        /\ Cardinality(A \cap D) = 0
        /\ Cardinality(A) \in Nat /\ Cardinality(D) \in Nat
    BY <1>4, <1>6, <1>8, FS_Union, FS_EmptySet, FS_CardinalityType
  <2> QED
    BY <2>1
<1>10. Cardinality(A) \in Nat /\ Cardinality(B) \in Nat
  BY <1>4, FS_CardinalityType
<1> QED
  BY <1>5, <1>8, <1>9, <1>10 DEF Counted, A, B, st

(* Of one metric.                                                          *)
LEMMA CountedOne ==
  ASSUME NEW x, NEW name
  PROVE  Counted(<<x>>, name) = IF x[1] = name THEN 1 ELSE 0
<1> DEFINE A == {i \in DOMAIN <<x>> : <<x>>[i][1] = name}
<1>1. CASE x[1] = name
  <2>1. A = {1}
    BY <1>1, OneElement
  <2> QED
    BY <1>1, <2>1, FS_Singleton DEF Counted
<1>2. CASE x[1] # name
  <2>1. A = {}
    BY <1>2, OneElement
  <2> QED
    BY <1>2, <2>1, FS_EmptySet DEF Counted
<1> QED
  BY <1>1, <1>2

(* Of none.                                                                *)
LEMMA CountedNone == \A name : Counted(<<>>, name) = 0
<1> SUFFICES ASSUME NEW name PROVE Counted(<<>>, name) = 0
  OBVIOUS
<1>1. {i \in DOMAIN <<>> : <<>>[i][1] = name} = {}
  BY NoElements
<1> QED
  BY <1>1, FS_EmptySet DEF Counted

(* A list of metrics that are all valid.                                   *)
AllValid(ms) == IsSeq(ms) /\ \A m \in Elements(ms) : ValidMetric(m)

(* What emitting valid metrics does to the list and to the counts.         *)
LEMMA Emitted ==
  ASSUME NEW ms, AllValid(ms), Emit(ms), IsSeq(metrics)
  PROVE  /\ metrics' = metrics \o ms /\ IsSeq(metrics')
         /\ Elements(metrics') = Elements(metrics) \cup Elements(ms)
         /\ \A name : Counted(metrics', name) =
                        Counted(metrics, name) + Counted(ms, name)
<1> DEFINE places == {i \in DOMAIN ms : ValidMetric(ms[i])}
<1>1. places = DOMAIN ms
  BY DEF AllValid, Elements
<1>2. IsSeq(ms)
  BY DEF AllValid
<1>3. Selected(ms, places) = ms
  <2> HIDE DEF places
  <2> QED
    BY <1>1, <1>2, SelectedAll
<1>4. metrics' = metrics \o ms
  BY <1>3 DEF Emit
<1>5. \A name : Counted(metrics \o ms, name) =
                  Counted(metrics, name) + Counted(ms, name)
  BY <1>2, CountedJoined
<1> QED
  BY <1>2, <1>4, <1>5, Joined

(* The metrics that the handler emits are valid.                           *)
LEMMA ValidMetrics ==
  /\ \A mode \in {"snapshot_only", "hybrid_agent"} :
       /\ ValidMetric(Metric("EventsReceived", mode))
       /\ ValidMetric(Metric("IncidentsPublished", mode))
  /\ \A s \in Elements(Stages) :
       /\ ValidMetric(Metric("IncidentsFailed", s))
       /\ ValidMetric(Metric("IncidentsDegraded", s))
  /\ \A c \in CollectorNames : ValidMetric(Metric("CollectorFailures", c))
  /\ \A o \in {"published", "degraded", "failed"} :
       ValidMetric(Metric("ProcessingDuration", o))
BY DEF ValidMetric, Metric, DimensionValues

(* Lists of valid metrics are closed under joining.                        *)
LEMMA AllValidLists ==
  /\ AllValid(<<>>)
  /\ \A m : ValidMetric(m) => AllValid(<<m>>)
  /\ \A s, t : AllValid(s) /\ AllValid(t) => AllValid(s \o t)
<1>1. AllValid(<<>>)
  BY NoElements DEF AllValid, Elements
<1>2. ASSUME NEW m, ValidMetric(m) PROVE AllValid(<<m>>)
  BY <1>2, OneElement DEF AllValid
<1>3. ASSUME NEW s, NEW t, AllValid(s), AllValid(t) PROVE AllValid(s \o t)
  BY <1>3, Joined DEF AllValid
<1> QED
  BY <1>1, <1>2, <1>3

(* The metrics of the failures: one CollectorFailures for each.            *)
LEMMA FailureMetricsFacts ==
  ASSUME Places
  PROVE  /\ AllValid(FailureMetrics)
         /\ Counted(FailureMetrics, "CollectorFailures") = Len(failures)
         /\ Counted(FailureMetrics, "ProcessingDuration") = 0
         /\ Counted(FailureMetrics, "IncidentsFailed") = 0
         /\ \A m \in Elements(FailureMetrics) : m[1] = "CollectorFailures"
<1> DEFINE F == FailureMetrics
<1>1. /\ IsSeq(failures) /\ \A i \in DOMAIN failures : failures[i] \in CollectorNames
  BY DEF Places, Elements
<1>2. /\ DOMAIN F = DOMAIN failures /\ F = [i \in DOMAIN F |-> F[i]]
      /\ \A i \in DOMAIN F : F[i] = Metric("CollectorFailures", failures[i])
  BY DEF FailureMetrics
<1> HIDE DEF F
<1>3. IsSeq(F)
  BY <1>1, <1>2, MappedSeq
<1>4. \A i \in DOMAIN F : ValidMetric(F[i]) /\ F[i][1] = "CollectorFailures"
  BY <1>1, <1>2, ValidMetrics DEF Metric
<1>5. AllValid(F) /\ \A m \in Elements(F) : m[1] = "CollectorFailures"
  BY <1>3, <1>4 DEF AllValid, Elements
<1>6. /\ {i \in DOMAIN F : F[i][1] = "CollectorFailures"} = DOMAIN failures
      /\ {i \in DOMAIN F : F[i][1] = "ProcessingDuration"} = {}
      /\ {i \in DOMAIN F : F[i][1] = "IncidentsFailed"} = {}
  BY <1>2, <1>4
<1>7. Cardinality(DOMAIN failures) = Len(failures)
  BY <1>1, SeqFacts
<1> QED
  BY <1>5, <1>6, <1>7, FS_EmptySet DEF Counted, F

(* What the metrics say before the end and at it.                          *)
Noted == IF payload # NoPayload /\ payload.brief = UnsafeBrief THEN 1 ELSE 0

Accounts ==
  /\ IsSeq(metrics)
  /\ \A m \in Elements(metrics) :
       m[1] = "ProcessingDuration" => stage = "ended" /\ m[2] = outcome
  /\ Counted(metrics, "ProcessingDuration") =
       IF stage # "ended" \/ outcome = "duplicate" THEN 0 ELSE 1
  /\ Counted(metrics, "CollectorFailures") =
       IF stage \in AfterSnapshot \/ (stage = "ended" /\ status = "collected")
       THEN Len(failures) ELSE 0
  /\ outcome # "failed" => Counted(metrics, "IncidentsFailed") = Noted
  /\ outcome = "failed" =>
       Metric("IncidentsFailed", failedAt) \in Elements(metrics)

(* A step of handle that ends the call or leads to the next stage, from    *)
(* what it emits.                                                          *)
LEMMA Ending ==
  ASSUME Accounts, stage # "ended", NEW ms, AllValid(ms), Emit(ms),
         \A m \in Elements(ms) :
           m[1] = "ProcessingDuration" => stage' = "ended" /\ m[2] = outcome',
         Counted(ms, "ProcessingDuration") =
           IF stage' # "ended" \/ outcome' = "duplicate" THEN 0 ELSE 1,
         Counted(metrics, "CollectorFailures") + Counted(ms, "CollectorFailures") =
           IF stage' \in AfterSnapshot \/ (stage' = "ended" /\ status' = "collected")
           THEN Len(failures') ELSE 0,
         outcome' # "failed" => /\ outcome # "failed"
                                /\ Noted + Counted(ms, "IncidentsFailed") = Noted',
         outcome' = "failed" =>
           Metric("IncidentsFailed", failedAt') \in Elements(ms)
  PROVE  Accounts'
<1>1. /\ IsSeq(metrics')
      /\ Elements(metrics') = Elements(metrics) \cup Elements(ms)
      /\ \A name : Counted(metrics', name) =
                      Counted(metrics, name) + Counted(ms, name)
  BY Emitted DEF Accounts
<1>2. /\ Counted(ms, "ProcessingDuration") \in Nat
      /\ Counted(ms, "IncidentsFailed") \in Nat
  BY CountedJoined DEF AllValid
<1>3. \A m \in Elements(metrics) : m[1] # "ProcessingDuration"
  BY DEF Accounts
<1>4. /\ Counted(metrics, "ProcessingDuration") = 0
      /\ outcome # "failed" => Counted(metrics, "IncidentsFailed") = Noted
  BY DEF Accounts
<1>5. Counted(metrics', "ProcessingDuration") =
        IF stage' # "ended" \/ outcome' = "duplicate" THEN 0 ELSE 1
  BY <1>1, <1>2, <1>4
<1>6. outcome' # "failed" => Counted(metrics', "IncidentsFailed") = Noted'
  BY <1>1, <1>4
<1>7. \A m \in Elements(metrics') :
        m[1] = "ProcessingDuration" => stage' = "ended" /\ m[2] = outcome'
  BY <1>1, <1>3
<1>8. Counted(metrics', "CollectorFailures") =
        IF stage' \in AfterSnapshot \/ (stage' = "ended" /\ status' = "collected")
        THEN Len(failures') ELSE 0
  BY <1>1
<1>9. outcome' = "failed" =>
        Metric("IncidentsFailed", failedAt') \in Elements(metrics')
  BY <1>1
<1> QED
  BY <1>1, <1>5, <1>6, <1>7, <1>8, <1>9 DEF Accounts

(* The two metrics of an end.                                              *)
LEMMA LastMetrics ==
  ASSUME NEW before, AllValid(before),
         \A m \in Elements(before) : m[1] # "ProcessingDuration",
         Counted(before, "ProcessingDuration") = 0,
         NEW x, ValidMetric(x), x[1] \notin {"ProcessingDuration", "CollectorFailures"},
         NEW o, o \in {"published", "degraded", "failed"}
  PROVE  LET ms == before \o <<x, Metric("ProcessingDuration", o)>>
         IN  /\ AllValid(ms)
             /\ \A m \in Elements(ms) : m[1] = "ProcessingDuration" => m[2] = o
             /\ x \in Elements(ms)
             /\ Counted(ms, "ProcessingDuration") = 1
             /\ Counted(ms, "CollectorFailures") = Counted(before, "CollectorFailures")
             /\ Counted(ms, "IncidentsFailed") = Counted(before, "IncidentsFailed")
                  + IF x[1] = "IncidentsFailed" THEN 1 ELSE 0
<1> DEFINE d == Metric("ProcessingDuration", o)
           two == <<x, d>>
           ms == before \o two
<1>1. d[1] = "ProcessingDuration" /\ d[2] = o /\ ValidMetric(d)
  BY ValidMetrics DEF Metric
<1> HIDE DEF d
<1>2. two = <<x>> \o <<d>>
  OBVIOUS
<1> HIDE DEF two
<1>3. AllValid(<<x>>) /\ AllValid(<<d>>) /\ AllValid(two) /\ AllValid(ms)
  <2>1. AllValid(<<x>>) /\ AllValid(<<d>>)
    BY <1>1, AllValidLists
  <2>2. AllValid(two)
    BY <1>2, <2>1, AllValidLists
  <2>3. AllValid(ms)
    BY <2>2, AllValidLists
  <2> QED
    BY <2>1, <2>2, <2>3
<1>4. IsSeq(<<x>>) /\ IsSeq(<<d>>) /\ IsSeq(two) /\ IsSeq(before)
  BY <1>3 DEF AllValid
<1>5. Elements(two) = {x, d} /\ Elements(ms) = Elements(before) \cup {x, d}
  <2>1. Elements(two) = Elements(<<x>>) \cup Elements(<<d>>)
    BY <1>2, <1>4, Joined
  <2>2. Elements(ms) = Elements(before) \cup Elements(two)
    BY <1>4, Joined
  <2> QED
    BY <2>1, <2>2, OneElement
<1>6. ASSUME NEW name
      PROVE  /\ Counted(ms, name) = Counted(before, name) +
                  (IF x[1] = name THEN 1 ELSE 0) + (IF d[1] = name THEN 1 ELSE 0)
             /\ Counted(before, name) \in Nat
  <2>1. /\ Counted(two, name) = Counted(<<x>>, name) + Counted(<<d>>, name)
        /\ Counted(before, name) \in Nat /\ Counted(two, name) \in Nat
    BY <1>2, <1>4, CountedJoined
  <2>2. Counted(ms, name) = Counted(before, name) + Counted(two, name)
    BY <1>4, CountedJoined
  <2>3. /\ Counted(<<x>>, name) = IF x[1] = name THEN 1 ELSE 0
        /\ Counted(<<d>>, name) = IF d[1] = name THEN 1 ELSE 0
    BY CountedOne
  <2> QED
    BY <2>1, <2>2, <2>3
<1> HIDE DEF ms
<1>7. /\ Counted(ms, "ProcessingDuration") = 1
      /\ Counted(ms, "CollectorFailures") = Counted(before, "CollectorFailures")
      /\ Counted(ms, "IncidentsFailed") = Counted(before, "IncidentsFailed")
           + IF x[1] = "IncidentsFailed" THEN 1 ELSE 0
  <2>1. Counted(ms, "ProcessingDuration") = 1
    BY <1>1, <1>6
  <2>2. Counted(ms, "CollectorFailures") = Counted(before, "CollectorFailures")
    BY <1>1, <1>6
  <2>3. Counted(ms, "IncidentsFailed") = Counted(before, "IncidentsFailed")
           + IF x[1] = "IncidentsFailed" THEN 1 ELSE 0
    BY <1>1, <1>6
  <2> QED
    BY <2>1, <2>2, <2>3
<1>8. \A m \in Elements(ms) : m[1] = "ProcessingDuration" => m[2] = o
  BY <1>1, <1>5
<1> QED
  BY <1>3, <1>5, <1>7, <1>8 DEF ms, two, d

(* A failed stage before which nothing, or a list of metrics, was emitted. *)
LEMMA FailingAt ==
  ASSUME Accounts, stage # "ended", NEW s \in Elements(Stages),
         NEW before, AllValid(before), FailAt(s, before),
         \A m \in Elements(before) : m[1] # "ProcessingDuration",
         Counted(before, "ProcessingDuration") = 0,
         Counted(metrics, "CollectorFailures")
           + Counted(before, "CollectorFailures") =
           IF status' = "collected" THEN Len(failures') ELSE 0
  PROVE  Accounts'
<1> DEFINE x == Metric("IncidentsFailed", s)
           ms == before \o <<x, Metric("ProcessingDuration", "failed")>>
<1>1. /\ stage' = "ended" /\ outcome' = "failed" /\ failedAt' = s /\ Emit(ms)
  BY DEF FailAt
<1>2. ValidMetric(x) /\ x[1] = "IncidentsFailed"
  BY ValidMetrics DEF Metric
<1>3. /\ AllValid(ms)
      /\ \A m \in Elements(ms) : m[1] = "ProcessingDuration" => m[2] = "failed"
      /\ x \in Elements(ms)
      /\ Counted(ms, "ProcessingDuration") = 1
      /\ Counted(ms, "CollectorFailures") = Counted(before, "CollectorFailures")
  <2> HIDE DEF x
  <2> QED
    BY <1>2, LastMetrics
<1> HIDE DEF ms
<1>4. "ended" \notin AfterSnapshot
  BY DEF AfterSnapshot
<1> QED
  BY <1>1, <1>3, <1>4, Ending DEF x

(* A step that fails and emits nothing of its own.                         *)
LEMMA FailingSilently ==
  ASSUME Accounts, stage # "ended", NEW s \in Elements(Stages), FailAt(s, <<>>),
         Counted(metrics, "CollectorFailures") =
           IF status' = "collected" THEN Len(failures') ELSE 0
  PROVE  Accounts'
<1>1. /\ AllValid(<<>>) /\ Elements(<<>>) = {}
      /\ Counted(<<>>, "ProcessingDuration") = 0
      /\ Counted(<<>>, "CollectorFailures") = 0
  BY AllValidLists, CountedNone, NoElements DEF Elements
<1>2. Counted(metrics, "CollectorFailures") + 0 =
        Counted(metrics, "CollectorFailures")
  BY CountedJoined, NoElements DEF Accounts
<1> QED
  BY <1>1, <1>2, FailingAt

(* A step to the next stage that emits metrics.                            *)
LEMMA GoingOn ==
  ASSUME Accounts, stage \notin {"ended"} , NEW s, s # "ended",
         NEW ms, AllValid(ms), Proceed(s, ms),
         \A m \in Elements(ms) : m[1] # "ProcessingDuration",
         Counted(ms, "ProcessingDuration") = 0,
         Counted(metrics, "CollectorFailures") + Counted(ms, "CollectorFailures") =
           IF s \in AfterSnapshot THEN Len(failures') ELSE 0,
         outcome # "failed", Noted + Counted(ms, "IncidentsFailed") = Noted'
  PROVE  Accounts'
<1>1. stage' = s /\ Emit(ms) /\ outcome' = outcome
  BY DEF Proceed
<1> QED
  BY <1>1, Ending

(* A step to the next stage that emits none.                               *)
LEMMA GoingOnSilently ==
  ASSUME Accounts, stage # "ended", NEW s, s # "ended", Proceed(s, <<>>),
         Counted(metrics, "CollectorFailures") =
           IF s \in AfterSnapshot THEN Len(failures') ELSE 0,
         outcome # "failed", UNCHANGED payload
  PROVE  Accounts'
<1>1. /\ AllValid(<<>>) /\ Elements(<<>>) = {}
      /\ Counted(<<>>, "ProcessingDuration") = 0
      /\ Counted(<<>>, "CollectorFailures") = 0
      /\ Counted(<<>>, "IncidentsFailed") = 0
  BY AllValidLists, CountedNone, NoElements DEF Elements
<1>2. Counted(metrics, "CollectorFailures") + 0 =
        Counted(metrics, "CollectorFailures")
  BY CountedJoined, NoElements DEF Accounts
<1>3. Noted' = Noted /\ Noted + 0 = Noted
  BY DEF Noted
<1> QED
  BY <1>1, <1>2, <1>3, GoingOn

(* Without a metric and in the same stage the account is the same.         *)
LEMMA SameAccounts ==
  ASSUME Accounts, UNCHANGED <<stage, outcome, failedAt, metrics, payload>>,
         stage \in BeforeSnapshot \cup {"snapshot"}
           \/ UNCHANGED <<failures, status>>
  PROVE  Accounts'
<1>1. stage \in BeforeSnapshot \cup {"snapshot"} =>
        stage \notin AfterSnapshot /\ stage # "ended"
  BY DEF BeforeSnapshot, AfterSnapshot
<1>2. Noted' = Noted
  BY DEF Noted
<1> QED
  BY <1>1, <1>2 DEF Accounts

(* Every step keeps the accounts.                                          *)
LEMMA AccountsNext ==
  ASSUME Staged, Accounts, [Next]_vars
  PROVE  Accounts'
<1> USE DEF Staged
<1>0. /\ stage # "ended" => outcome = ""
      /\ \A s \in {"parse_event", "load_topology", "claim_event", "snapshot",
                   "investigation", "render", "publish"} : s \in Elements(Stages)
      /\ input.mode \in {"snapshot_only", "hybrid_agent"}
      /\ IsSeq(failures)
  BY InputsAssumption, StageNames
     DEF Phases, Places, BeforeSnapshot, AfterSnapshot, DimensionValues
<1>a. Counted(metrics, "CollectorFailures") =
       IF stage \in AfterSnapshot \/ (stage = "ended" /\ status = "collected")
       THEN Len(failures) ELSE 0
  BY DEF Accounts
<1>1. CASE ParseEvent
  <2>1. /\ stage = "parse_event" /\ status = "idle"
        /\ UNCHANGED <<status, failures, payload>>
    BY <1>1 DEF ParseEvent, Phases, BeforeSnapshot, collectVars
  <2>2. Counted(metrics, "CollectorFailures") = 0
    BY <1>a, <2>1 DEF AfterSnapshot
  <2>3. CASE ValidEvent(input.event)
    <3> DEFINE x == Metric("EventsReceived", input.mode)
    <3>1. Proceed("load_topology", <<x>>)
      BY <1>1, <2>3 DEF ParseEvent
    <3>2. ValidMetric(x) /\ x[1] = "EventsReceived"
      BY <1>0, ValidMetrics DEF Metric
    <3> HIDE DEF x
    <3>3. /\ AllValid(<<x>>) /\ Elements(<<x>>) = {x}
          /\ Counted(<<x>>, "ProcessingDuration") = 0
          /\ Counted(<<x>>, "CollectorFailures") = 0
          /\ Counted(<<x>>, "IncidentsFailed") = 0
      BY <3>2, AllValidLists, OneElement, CountedOne
    <3>4. Noted + 0 = Noted' /\ "load_topology" \notin AfterSnapshot
      BY <2>1 DEF Noted, AfterSnapshot
    <3> DEFINE ms == <<x>>
    <3>5. Counted(metrics, "CollectorFailures") + Counted(ms, "CollectorFailures") = 0
      BY <2>2, <3>3
    <3> HIDE DEF ms
    <3>6. /\ AllValid(ms) /\ Elements(ms) = {x} /\ Proceed("load_topology", ms)
          /\ Counted(ms, "ProcessingDuration") = 0
          /\ Counted(ms, "CollectorFailures") = 0
          /\ Counted(ms, "IncidentsFailed") = 0
      BY <3>1, <3>3 DEF ms
    <3> QED
      BY <1>0, <2>1, <3>2, <3>4, <3>5, <3>6, GoingOn
  <2>4. CASE ~ValidEvent(input.event)
    <3>1. FailAt("parse_event", <<>>)
      BY <1>1, <2>4 DEF ParseEvent
    <3> QED
      BY <1>0, <2>1, <2>2, <3>1, FailingSilently
  <2> QED
    BY <2>3, <2>4
<1>2. CASE LoadTopology
  <2>1. /\ stage = "load_topology" /\ status = "idle"
        /\ UNCHANGED <<status, failures, payload>>
    BY <1>2 DEF LoadTopology, Phases, BeforeSnapshot, collectVars
  <2>2. Counted(metrics, "CollectorFailures") = 0 /\ "claim_event" \notin AfterSnapshot
    BY <1>a, <2>1 DEF AfterSnapshot
  <2>3. CASE Proceed("claim_event", <<>>)
    BY <1>0, <2>1, <2>2, <2>3, GoingOnSilently
  <2>4. CASE FailAt("load_topology", <<>>)
    BY <1>0, <2>1, <2>2, <2>4, FailingSilently
  <2> QED
    BY <1>2, <2>3, <2>4 DEF LoadTopology
<1>3. CASE Claim
  <2>1. /\ stage = "claim_event" /\ status = "idle"
        /\ UNCHANGED <<failures, payload>>
    BY <1>3 DEF Claim, Phases, BeforeSnapshot
  <2>2. Counted(metrics, "CollectorFailures") = 0 /\ "snapshot" \notin AfterSnapshot
    BY <1>a, <2>1 DEF AfterSnapshot
  <2>3. CASE Proceed("snapshot", <<>>)
    BY <1>0, <2>1, <2>2, <2>3, GoingOnSilently
  <2>4. CASE FailAt("claim_event", <<>>) /\ UNCHANGED status
    BY <1>0, <2>1, <2>2, <2>4, FailingSilently
  <2>5. CASE EndWith("duplicate", <<>>) /\ UNCHANGED status
    <3>1. stage' = "ended" /\ outcome' = "duplicate" /\ Emit(<<>>)
      BY <2>5 DEF EndWith
    <3>2. /\ AllValid(<<>>) /\ Elements(<<>>) = {}
          /\ Counted(<<>>, "ProcessingDuration") = 0
          /\ Counted(<<>>, "CollectorFailures") = 0
          /\ Counted(<<>>, "IncidentsFailed") = 0
      BY AllValidLists, CountedNone, NoElements DEF Elements
    <3>3. Noted + 0 = Noted' /\ "ended" \notin AfterSnapshot
      BY <2>1 DEF Noted, AfterSnapshot
    <3> DEFINE ms == <<>>
    <3>4. Counted(metrics, "CollectorFailures") + Counted(ms, "CollectorFailures") = 0
      BY <2>2, <3>2
    <3>5. /\ AllValid(ms) /\ Elements(ms) = {} /\ Emit(ms)
          /\ Counted(ms, "ProcessingDuration") = 0
          /\ Counted(ms, "IncidentsFailed") = 0
      BY <3>1, <3>2
    <3> HIDE DEF ms
    <3>6. Noted + Counted(ms, "IncidentsFailed") = Noted'
      BY <3>3, <3>5
    <3> QED
      BY <1>0, <2>1, <2>5, <3>1, <3>3, <3>4, <3>5, <3>6, Ending
  <2> QED
    BY <1>3, <2>3, <2>4, <2>5 DEF Claim
<1>4. CASE Snapshot
  <2>1. UNCHANGED <<stage, outcome, failedAt, metrics, payload>> /\ stage = "snapshot"
    BY <1>4 DEF Snapshot, reportVars
  <2> QED
    BY <2>1, SameAccounts
<1>5. CASE LeaveSnapshot
  <2>1. stage = "snapshot" /\ UNCHANGED <<status, failures, payload>>
    BY <1>5 DEF LeaveSnapshot, collectVars
  <2>2. /\ Counted(metrics, "CollectorFailures") = 0
        /\ "investigation" \in AfterSnapshot
    BY <1>a, <2>1 DEF AfterSnapshot
  <2>3. /\ AllValid(FailureMetrics)
        /\ \A m \in Elements(FailureMetrics) : m[1] # "ProcessingDuration"
        /\ Counted(FailureMetrics, "ProcessingDuration") = 0
        /\ Counted(FailureMetrics, "IncidentsFailed") = 0
        /\ Counted(FailureMetrics, "CollectorFailures") = Len(failures)
        /\ 0 + Len(failures) = Len(failures)
    <3>1. Len(failures) \in Nat
      BY <1>0, SeqFacts
    <3> QED
      BY <3>1, FailureMetricsFacts
  <2>4. CASE status = "collected" /\ Proceed("investigation", FailureMetrics)
    <3>1. Noted + 0 = Noted'
      BY <2>1 DEF Noted
    <3>2. Counted(metrics, "CollectorFailures")
            + Counted(FailureMetrics, "CollectorFailures") = Len(failures')
      BY <2>1, <2>2, <2>3
    <3>3. Noted + Counted(FailureMetrics, "IncidentsFailed") = Noted'
      BY <2>3, <3>1
    <3> QED
      BY <1>0, <2>1, <2>2, <2>3, <2>4, <3>2, <3>3, GoingOn
  <2>5. CASE status = "collected" /\ FailAt("snapshot", FailureMetrics)
    <3>1. Counted(metrics, "CollectorFailures")
            + Counted(FailureMetrics, "CollectorFailures") = Len(failures')
      BY <2>1, <2>2, <2>3
    <3> QED
      BY <1>0, <2>1, <2>3, <2>5, <3>1, FailingAt
  <2>6. CASE status # "collected" /\ FailAt("snapshot", <<>>)
    BY <1>0, <2>1, <2>2, <2>6, FailingSilently
  <2> QED
    BY <1>5, <2>4, <2>5, <2>6 DEF LeaveSnapshot
<1>6. CASE Investigate
  <2>1. /\ stage = "investigation" /\ UNCHANGED <<failures, payload>>
        /\ Proceed("render", <<>>)
    BY <1>6 DEF Investigate, collectVars
  <2>2. /\ Counted(metrics, "CollectorFailures") = Len(failures)
        /\ "render" \in AfterSnapshot
    BY <1>a, <2>1 DEF AfterSnapshot
  <2> QED
    BY <1>0, <2>1, <2>2, GoingOnSilently
<1>7. CASE Render
  <2> DEFINE x == Metric("IncidentsFailed", "render")
             noted == IF TheBrief = UnsafeBrief THEN <<x>> ELSE <<>>
  <2>1. /\ stage = "render" /\ status = "collected" /\ outcome # "failed"
        /\ UNCHANGED <<failures, status>> /\ payload = NoPayload
    BY <1>0, <1>7 DEF Render, Phases, AfterSnapshot, collectVars
  <2>2. /\ Counted(metrics, "CollectorFailures") = Len(failures)
        /\ "publish" \in AfterSnapshot
    BY <1>a, <2>1 DEF AfterSnapshot
  <2>3. x[1] = "IncidentsFailed" /\ ValidMetric(x)
    BY <1>0, ValidMetrics DEF Metric
  <2> HIDE DEF x
  <2>4. /\ AllValid(noted) /\ \A m \in Elements(noted) : m[1] = "IncidentsFailed"
        /\ Counted(noted, "ProcessingDuration") = 0
        /\ Counted(noted, "CollectorFailures") = 0
        /\ Counted(noted, "IncidentsFailed") =
             IF TheBrief = UnsafeBrief THEN 1 ELSE 0
    <3>1. CASE TheBrief = UnsafeBrief
      <4>1. /\ AllValid(<<x>>) /\ Elements(<<x>>) = {x}
            /\ Counted(<<x>>, "ProcessingDuration") = 0
            /\ Counted(<<x>>, "CollectorFailures") = 0
            /\ Counted(<<x>>, "IncidentsFailed") = 1
        BY <2>3, AllValidLists, OneElement, CountedOne
      <4>2. noted = <<x>>
        BY <3>1
      <4> HIDE DEF noted
      <4> QED
        BY <2>3, <3>1, <4>1, <4>2
    <3>2. CASE TheBrief # UnsafeBrief
      <4>1. /\ AllValid(<<>>) /\ Elements(<<>>) = {}
            /\ Counted(<<>>, "ProcessingDuration") = 0
            /\ Counted(<<>>, "CollectorFailures") = 0
            /\ Counted(<<>>, "IncidentsFailed") = 0
        BY AllValidLists, CountedNone, NoElements DEF Elements
      <4>2. noted = <<>>
        BY <3>2
      <4> HIDE DEF noted
      <4> QED
        BY <3>2, <4>1, <4>2
    <3> QED
      BY <3>1, <3>2
  <2>5. Counted(metrics, "CollectorFailures") + Counted(noted, "CollectorFailures")
          = Len(failures')
    <3>1. Len(failures) \in Nat
      BY <1>0, SeqFacts
    <3> HIDE DEF noted
    <3> QED
      BY <2>1, <2>2, <2>4, <3>1
  <2>6. \/ FailAt("render", <<>>)
        \/ FailAt("render", noted)
        \/ /\ Proceed("publish", noted) /\ payload' # NoPayload
           /\ payload'.brief = TheBrief
    BY <1>7 DEF Render, NoPayload, x
  <2>7. CASE FailAt("render", <<>>)
    BY <1>0, <2>1, <2>2, <2>7, FailingSilently
  <2>8. CASE FailAt("render", noted)
    <3> HIDE DEF noted
    <3> QED
      BY <1>0, <2>1, <2>4, <2>5, <2>8, FailingAt
  <2>9. CASE /\ Proceed("publish", noted) /\ payload' # NoPayload
             /\ payload'.brief = TheBrief
    <3>1. Noted = 0 /\ Noted' = IF TheBrief = UnsafeBrief THEN 1 ELSE 0
      BY <2>1, <2>9 DEF Noted
    <3>2. Noted + Counted(noted, "IncidentsFailed") = Noted'
      BY <2>4, <3>1
    <3> HIDE DEF noted
    <3> QED
      BY <2>1, <2>2, <2>4, <2>5, <2>9, <3>2, GoingOn
  <2> QED
    BY <2>6, <2>7, <2>8, <2>9
<1>8. CASE Publish
  <2>1. /\ stage = "publish" /\ status = "collected" /\ outcome # "failed"
        /\ UNCHANGED <<failures, payload, status>>
    BY <1>0, <1>8 DEF Publish, Phases, AfterSnapshot, collectVars
  <2>2. /\ Counted(metrics, "CollectorFailures") = Len(failures)
        /\ "ended" \notin AfterSnapshot
    BY <1>a, <2>1 DEF AfterSnapshot
  <2>3. CASE FailAt("publish", <<>>)
    BY <1>0, <2>1, <2>2, <2>3, FailingSilently
  <2>4. ASSUME NEW x, NEW o \in {"published", "degraded"}, ValidMetric(x),
               x[1] \in {"IncidentsPublished", "IncidentsDegraded"},
               EndWith(o, <<x, Metric("ProcessingDuration", o)>>)
        PROVE  Accounts'
    <3> DEFINE two == <<x, Metric("ProcessingDuration", o)>>
               ms == <<>> \o two
    <3>1. /\ AllValid(<<>>) /\ Elements(<<>>) = {}
          /\ Counted(<<>>, "ProcessingDuration") = 0
          /\ Counted(<<>>, "CollectorFailures") = 0
          /\ Counted(<<>>, "IncidentsFailed") = 0
      BY AllValidLists, CountedNone, NoElements DEF Elements
    <3>2. /\ AllValid(ms)
          /\ \A m \in Elements(ms) : m[1] = "ProcessingDuration" => m[2] = o
          /\ Counted(ms, "ProcessingDuration") = 1
          /\ Counted(ms, "CollectorFailures") = Counted(<<>>, "CollectorFailures")
          /\ Counted(ms, "IncidentsFailed") = 0
      <4> DEFINE none == <<>>
      <4>1. /\ AllValid(none) /\ Elements(none) = {}
            /\ Counted(none, "ProcessingDuration") = 0
            /\ Counted(none, "IncidentsFailed") = 0
        BY <3>1
      <4>2. ms = none \o two
        OBVIOUS
      <4>3. Counted(none, "CollectorFailures") = Counted(<<>>, "CollectorFailures")
        OBVIOUS
      <4> HIDE DEF none
      <4>4. LET ms2 == none \o <<x, Metric("ProcessingDuration", o)>>
            IN  /\ AllValid(ms2)
                /\ \A m \in Elements(ms2) : m[1] = "ProcessingDuration" => m[2] = o
                /\ Counted(ms2, "ProcessingDuration") = 1
                /\ Counted(ms2, "CollectorFailures") = Counted(none, "CollectorFailures")
                /\ Counted(ms2, "IncidentsFailed") = Counted(none, "IncidentsFailed")
                     + IF x[1] = "IncidentsFailed" THEN 1 ELSE 0
        BY <2>4, <4>1, LastMetrics
      <4>5. /\ AllValid(ms)
            /\ \A m \in Elements(ms) : m[1] = "ProcessingDuration" => m[2] = o
            /\ Counted(ms, "ProcessingDuration") = 1
            /\ Counted(ms, "CollectorFailures") = Counted(none, "CollectorFailures")
            /\ Counted(ms, "IncidentsFailed") = Counted(none, "IncidentsFailed")
                 + IF x[1] = "IncidentsFailed" THEN 1 ELSE 0
        BY <4>2, <4>4
      <4> HIDE DEF ms
      <4>6. x[1] # "IncidentsFailed"
        BY <2>4
      <4> QED
        BY <4>1, <4>3, <4>5, <4>6
    <3>3. ms = two
      OBVIOUS
    <3>4. /\ stage' = "ended" /\ outcome' = o /\ Emit(ms)
      BY <2>4, <3>3 DEF EndWith
    <3> HIDE DEF ms
    <3>5. Counted(ms, "CollectorFailures") = 0 /\ Counted(ms, "IncidentsFailed") = 0
      BY <3>1, <3>2
    <3>6. Noted + Counted(ms, "IncidentsFailed") = Noted'
      BY <2>1, <3>5 DEF Noted
    <3>7. Counted(metrics, "CollectorFailures") + Counted(ms, "CollectorFailures")
            = Len(failures')
      <4>1. Len(failures) \in Nat
        BY <1>0, SeqFacts
      <4> QED
        BY <2>1, <2>2, <3>5, <4>1
    <3> QED
      BY <2>1, <2>2, <3>2, <3>4, <3>6, <3>7, Ending
  <2>5. CASE EndWith("published", <<Metric("IncidentsPublished", input.mode),
                                    Metric("ProcessingDuration", "published")>>)
    BY <1>0, <2>4, <2>5, ValidMetrics DEF Metric
  <2>6. CASE EndWith("degraded", <<Metric("IncidentsDegraded", "publish"),
                                   Metric("ProcessingDuration", "degraded")>>)
    BY <1>0, <2>4, <2>6, ValidMetrics DEF Metric
  <2> QED
    BY <1>8, <2>3, <2>5, <2>6 DEF Publish
<1>9. CASE Ended \/ UNCHANGED vars
  <2>1. UNCHANGED <<stage, outcome, failedAt, metrics, payload, failures, status>>
    BY <1>9 DEF Ended, vars, collectVars, reportVars
  <2> QED
    BY <2>1, SameAccounts
<1> QED
  BY <1>1, <1>2, <1>3, <1>4, <1>5, <1>6, <1>7, <1>8, <1>9 DEF Next

(* Theorem: the metrics account for every call.                            *)
THEOREM MetricsAccountForCalls == Spec => []MetricsAccount
<1>1. Init => Accounts
  <2> SUFFICES ASSUME Init PROVE Accounts
    OBVIOUS
  <2>1. metrics = <<>> /\ stage = "parse_event" /\ outcome = "" /\ payload = NoPayload
    BY DEF Init
  <2>2. IsSeq(<<>>) /\ Elements(<<>>) = {} /\ \A name : Counted(<<>>, name) = 0
    BY NoElements, CountedNone DEF Elements
  <2>3. Noted = 0 /\ "parse_event" \notin AfterSnapshot
    BY <2>1 DEF Noted, AfterSnapshot
  <2> QED
    BY <2>1, <2>2, <2>3 DEF Accounts
<1>2. Staged /\ Accounts /\ [Next]_vars => Accounts'
  BY AccountsNext
<1>3. ASSUME Staged, Accounts PROVE MetricsAccount
  <2>1. SUFFICES ASSUME stage = "ended" PROVE MetricsAccount
    BY DEF MetricsAccount
  <2>2. "ended" \notin AfterSnapshot
    BY DEF AfterSnapshot
  <2>3. \A name : MetricCount(name) = Counted(metrics, name)
    BY DEF MetricCount, Counted
  <2>4. \A i \in DOMAIN metrics : metrics[i] \in Elements(metrics)
    BY DEF Elements
  <2> QED
    BY <1>3, <2>1, <2>2, <2>3, <2>4 DEF MetricsAccount, Accounts, Noted
<1> QED
  BY <1>1, <1>2, <1>3, AlwaysStaged, PTL DEF Spec

-----------------------------------------------------------------------------
(* The brief.                                                              *)

(* A set of naturals with a bound has a greatest element.                  *)
LEMMA Greatest ==
  ASSUME NEW n \in Nat, NEW S, S \subseteq 1..n, S # {}
  PROVE  Max(S) \in S /\ \A y \in S : y <= Max(S)
<1> DEFINE T == {n - x : x \in S}
<1>1. T \subseteq Nat /\ T # {}
  <2>1. ASSUME NEW x \in S PROVE n - x \in Nat
    <3>1. x \in Nat /\ x <= n
      OBVIOUS
    <3> QED
      BY <3>1
  <2> QED
    BY <2>1
<1>2. PICK m \in T : \A y \in T : m <= y
  BY <1>1, Least
<1>3. PICK x \in S : m = n - x
  BY <1>2
<1>4. ASSUME NEW y \in S PROVE x >= y
  <2>1. n - x <= n - y /\ x \in Nat /\ y \in Nat
    BY <1>2, <1>3
  <2> QED
    BY <2>1
<1>5. \E z \in S : \A y \in S : z >= y
  BY <1>4
<1>6. Max(S) \in S /\ \A y \in S : Max(S) >= y
  BY <1>5 DEF Max
<1>7. Max(S) \in 1..n /\ \A y \in S : y \in 1..n
  BY <1>6
<1> HIDE DEF T
<1>8. ASSUME NEW y \in S PROVE y <= Max(S)
  <2>1. Max(S) >= y /\ y \in 1..n /\ Max(S) \in 1..n
    BY <1>6, <1>7
  <2> QED
    BY <2>1
<1> QED
  BY <1>6, <1>8

(* The counts of the labels add up to the collectors that failed.          *)
LEMMA CountsAddUp ==
  ASSUME NEW fs, IsSeq(fs)
  PROVE  LET says == FailureCounts(fs)
         IN  Cardinality(UNION {{label} \X (1..says[label]) : label \in DOMAIN says})
               = Len(fs)
<1> DEFINE D == DOMAIN fs
           lab == [i \in D |-> Label(fs[i])]
           Of(label) == {i \in D : lab[i] = label}
           Labels == {lab[i] : i \in D}
           says == FailureCounts(fs)
           All == UNION {{label} \X (1..says[label]) : label \in DOMAIN says}
           R == {p \in D \X D : p[1] <= p[2]}
           rank == [i \in D |-> Cardinality(UpTo(R, Of(lab[i]), i))]
           f == [i \in D |-> <<lab[i], rank[i]>>]
<1>1. /\ IsFiniteSet(D) /\ Cardinality(D) = Len(fs) /\ D \subseteq Nat
  BY SeqFacts
<1>2. /\ DOMAIN says = Labels
      /\ \A label \in Labels : says[label] = Cardinality(Of(label))
  BY DEF FailureCounts
<1> HIDE DEF says, lab
<1>3. \A label : IsFiniteSet(Of(label)) /\ Cardinality(Of(label)) \in Nat
                 /\ Of(label) \subseteq D
  BY <1>1, FS_Subset, FS_CardinalityType
<1>4. \A label : Orders(R, Of(label))
  BY <1>1 DEF Orders
<1> HIDE DEF Of, R
<1>5. ASSUME NEW label
      PROVE  /\ \A i \in Of(label) :
                  Cardinality(UpTo(R, Of(label), i)) \in 1..Cardinality(Of(label))
             /\ \A i, j \in Of(label) :
                  Cardinality(UpTo(R, Of(label), i))
                    = Cardinality(UpTo(R, Of(label), j)) => i = j
             /\ \A n \in 1..Cardinality(Of(label)) :
                  \E i \in Of(label) : Cardinality(UpTo(R, Of(label), i)) = n
  BY <1>3, <1>4, RanksOnto
<1>6. \A i \in D : i \in Of(lab[i]) /\ lab[i] \in Labels
  BY DEF Of
<1>7. \A label : \A i \in Of(label) : i \in D /\ lab[i] = label
  BY DEF Of
<1>8. \A i \in D : f[i] \in All
  <2>1. ASSUME NEW i \in D PROVE f[i] \in All
    <3>1. rank[i] \in 1..says[lab[i]]
      BY <1>2, <1>5, <1>6
    <3>2. f[i] \in {lab[i]} \X (1..says[lab[i]])
      BY <3>1
    <3> QED
      BY <1>2, <1>6, <3>2
  <2> QED
    BY <2>1
<1>9. ASSUME NEW i \in D, NEW j \in D, f[i] = f[j] PROVE i = j
  <2>1. lab[i] = lab[j] /\ rank[i] = rank[j]
    BY <1>9
  <2> QED
    BY <1>5, <1>6, <2>1
<1>10. ASSUME NEW x \in All PROVE \E i \in D : f[i] = x
  <2>1. PICK label \in Labels : x \in {label} \X (1..Cardinality(Of(label)))
    BY <1>2
  <2>2. PICK n \in 1..Cardinality(Of(label)) : x = <<label, n>>
    BY <2>1
  <2>3. PICK i \in Of(label) : Cardinality(UpTo(R, Of(label), i)) = n
    BY <1>5
  <2>4. i \in D /\ lab[i] = label /\ rank[i] = n
    BY <1>7, <2>3
  <2> QED
    BY <2>2, <2>4
<1> HIDE DEF All, D
<1>11. f \in Bijection(D, All)
  <2>1. f \in [D -> All]
    BY <1>8
  <2> HIDE DEF f
  <2> QED
    BY <1>9, <1>10, <2>1 DEF Bijection, Injection, Surjection, IsInjective
<1>12. Cardinality(All) = Cardinality(D)
  <2>1. ExistsBijection(D, All)
    BY <1>11 DEF ExistsBijection
  <2> QED
    BY <1>1, <2>1, FS_Bijection
<1> QED
  BY <1>1, <1>12 DEF All, says

-----------------------------------------------------------------------------
(* Redaction.                                                              *)

(* What is redacted shows no credential that has a known shape or is under *)
(* a sensitive key.                                                        *)
LEMMA RedactedShowsNone ==
  ASSUME NEW v,
         \A l \in v : \A i \in DOMAIN l.parts :
           l.parts[i].value = "secret" => Replaced(l.parts[i]) \/ Hidden(l.path) # {}
  PROVE  Secrets(RedactJson(v)) = {}
<1>1. ASSUME NEW l \in v, NEW i \in DOMAIN RedactLeaf(l).parts
      PROVE  RedactLeaf(l).parts[i].value # "secret"
  <2>1. CASE Hidden(l.path) = {}
    <3>1. RedactLeaf(l).parts = RedactParts(l.parts)
      BY <2>1 DEF RedactLeaf
    <3>2. i \in DOMAIN l.parts /\ RedactLeaf(l).parts[i] = RedactPart(l.parts[i])
      BY <1>1, <3>1 DEF RedactParts
    <3>3. RedactPart(l.parts[i]).value # "secret"
      BY <2>1, <3>2 DEF RedactPart, Part
    <3> QED
      BY <3>2, <3>3
  <2>2. CASE Hidden(l.path) # {}
    <3>1. RedactLeaf(l).parts = Sentinel
      BY <2>2 DEF RedactLeaf
    <3> QED
      BY <1>1, <3>1 DEF Sentinel, Part
  <2> QED
    BY <2>1, <2>2
<1>2. \A m \in RedactJson(v) : \E l \in v : m = RedactLeaf(l)
  BY DEF RedactJson, Raised
<1> QED
  BY <1>1, <1>2 DEF Secrets, PartsOf

(* One step before the others.                                             *)
LEMMA HeadFirst ==
  ASSUME NEW x, NEW s, IsSeq(s)
  PROVE  LET c == <<x>> \o s
         IN  /\ IsSeq(c) /\ Len(s) \in Nat /\ Len(c) = 1 + Len(s) /\ c[1] = x
             /\ \A i \in 1..Len(s) : c[1 + i] = s[i]
<1> DEFINE head == <<x>>
           all == head \o s
<1>1. IsSeq(head) /\ Len(head) = 1 /\ head[1] = x
  BY OneElement
<1> HIDE DEF head
<1>2. /\ IsSeq(all) /\ Len(all) = Len(head) + Len(s)
      /\ \A i \in 1..Len(head) : all[i] = head[i]
      /\ \A i \in 1..Len(s) : all[Len(head) + i] = s[i]
  <2>1. IsSeq(head) /\ IsSeq(s)
    BY <1>1
  <2> QED
    BY <2>1, Joined
<1>3. Len(s) \in Nat
  BY SeqFacts
<1> HIDE DEF all
<1>4. /\ IsSeq(all) /\ Len(all) = 1 + Len(s) /\ all[1] = x
      /\ \A i \in 1..Len(s) : all[1 + i] = s[i]
  BY <1>1, <1>2, <1>3
<1> QED
  BY <1>3, <1>4 DEF all, head

(* What a sensitive key hides stays hidden within a list or a mapping.     *)
LEMMA StaysHidden ==
  ASSUME NEW path, IsSeq(path), NEW step, Hidden(path) # {}
  PROVE  Hidden(<<step>> \o path) # {}
<1> DEFINE longer == <<step>> \o path
<1>1. PICK n \in 0..Len(path) : Sensitive(path, n) /\ (n = Len(path) \/ path[n + 1] = Border)
  BY DEF Hidden
<1>2. /\ Len(path) \in Nat /\ n \in Nat /\ n <= Len(path)
      /\ Len(longer) = 1 + Len(path)
      /\ \A i \in 1..Len(path) : longer[1 + i] = path[i]
  <2>1. /\ Len(path) \in Nat /\ Len(longer) = 1 + Len(path)
        /\ \A i \in 1..Len(path) : longer[1 + i] = path[i]
    BY HeadFirst
  <2> HIDE DEF longer
  <2> QED
    BY <1>1, <2>1
<1> HIDE DEF longer
<1>3. PICK i \in 1..n : /\ path[i].key \in SensitiveKeys
                        /\ \A j \in i..n : path[j] # Border
  BY <1>1 DEF Sensitive
<1>4. Sensitive(longer, n + 1)
  <2>1. /\ i + 1 \in 1..(n + 1) /\ longer[i + 1] = path[i]
    BY <1>2, <1>3
  <2>2. ASSUME NEW j \in (i + 1)..(n + 1) PROVE longer[j] # Border
    <3>1. j - 1 \in i..n /\ j - 1 \in 1..Len(path) /\ 1 + (j - 1) = j
      BY <1>2, <1>3
    <3> QED
      BY <1>2, <1>3, <3>1
  <2> QED
    BY <1>3, <2>1, <2>2 DEF Sensitive
<1>5. n + 1 = Len(longer) \/ longer[(n + 1) + 1] = Border
  <2>1. CASE n = Len(path)
    BY <1>2, <2>1
  <2>2. CASE n # Len(path)
    <3>1. n + 1 \in 1..Len(path) /\ 1 + (n + 1) = (n + 1) + 1
      BY <1>2, <2>2
    <3> QED
      BY <1>1, <1>2, <2>2, <3>1
  <2> QED
    BY <2>1, <2>2
<1>6. n + 1 \in 0..Len(longer)
  BY <1>2
<1> QED
  BY <1>4, <1>5, <1>6 DEF Hidden, longer

(* The sequence of length 0 is the empty one.                              *)
LEMMA EmptyWhole ==
  ASSUME NEW s, IsSeq(s), Len(s) = 0
  PROVE  s = <<>>
BY DEF IsSeq

(* A value within a list or a mapping is a value still.                    *)
LEMMA WithinJson ==
  ASSUME NEW v, IsJson(v), NEW step, IsStep(step)
  PROVE  IsJson(Within(step, v))
<1>1. ASSUME NEW l \in v PROVE IsLeaf([l EXCEPT !.path = <<step>> \o @])
  <2> DEFINE m == [l EXCEPT !.path = <<step>> \o @]
             p == l.path
             path == <<step>> \o p
  <2>1. /\ DOMAIN l = {"path", "kind", "parts"} /\ l = [f \in DOMAIN l |-> l[f]]
        /\ IsSeq(p) /\ \A i \in DOMAIN p : IsStep(p[i])
        /\ IsSeq(l.parts) /\ Elements(l.parts) \subseteq Parts
    BY DEF IsJson, IsLeaf
  <2>2. /\ m.path = path /\ m.parts = l.parts /\ DOMAIN m = DOMAIN l
        /\ m = [f \in DOMAIN m |-> m[f]]
    BY <2>1
  <2> HIDE DEF m, p
  <2>3. IsSeq(path) /\ Elements(path) = Elements(<<step>>) \cup Elements(p)
    BY <2>1, OneElement, Joined
  <2>4. \A x \in Elements(<<step>>) \cup Elements(p) : IsStep(x)
    BY <2>1, OneElement DEF Elements
  <2> HIDE DEF path
  <2>5. \A i \in DOMAIN path : IsStep(path[i])
    BY <2>3, <2>4, SeqFacts
  <2>6. IsLeaf(m)
    BY <2>1, <2>2, <2>3, <2>5 DEF IsLeaf
  <2> QED
    BY <2>6 DEF m
<1> QED
  BY <1>1 DEF IsJson, Within

(* And its credentials are recognised still.                               *)
LEMMA WithinRecognised ==
  ASSUME NEW v, Recognised(v), NEW step, IsStep(step)
  PROVE  Recognised(Within(step, v))
<1>1. IsJson(v) /\ IsJson(Within(step, v))
  BY WithinJson DEF Recognised
<1>2. SUFFICES ASSUME NEW l \in v
               PROVE  LET m == [l EXCEPT !.path = <<step>> \o @]
                      IN  \A i \in DOMAIN m.parts :
                            m.parts[i].value = "secret" =>
                              Known(m.parts[i]) \/ Hidden(m.path) # {}
  BY <1>1 DEF Recognised, Within
<1> DEFINE m == [l EXCEPT !.path = <<step>> \o @]
<1>3. /\ IsSeq(l.path) /\ DOMAIN l = {"path", "kind", "parts"}
      /\ \A i \in DOMAIN l.parts :
           l.parts[i].value = "secret" => Known(l.parts[i]) \/ Hidden(l.path) # {}
  BY <1>1 DEF Recognised, IsJson, IsLeaf
<1>4. m.path = <<step>> \o l.path /\ m.parts = l.parts
  BY <1>3
<1>5. Hidden(l.path) # {} => Hidden(<<step>> \o l.path) # {}
  BY <1>3, StaysHidden
<1> HIDE DEF m
<1>6. \A i \in DOMAIN m.parts :
        m.parts[i].value = "secret" => Known(m.parts[i]) \/ Hidden(m.path) # {}
  BY <1>3, <1>4, <1>5
<1> QED
  BY <1>6 DEF m

(* A scalar is a value.                                                    *)
LEMMA SingleLeaf ==
  ASSUME NEW kind, NEW parts, IsSeq(parts), Elements(parts) \subseteq Parts
  PROVE  IsJson({Leaf(kind, parts)}) /\ Leaf(kind, parts).path = <<>>
<1> DEFINE l == Leaf(kind, parts)
<1>1. /\ l.path = <<>> /\ l.parts = parts /\ DOMAIN l = {"path", "kind", "parts"}
      /\ l = [f \in DOMAIN l |-> l[f]]
  BY DEF Leaf
<1> HIDE DEF l
<1>2. IsLeaf(l)
  BY <1>1, NoElements DEF IsLeaf
<1> QED
  BY <1>1, <1>2 DEF IsJson, l

(* A list of values is a value.                                            *)
LEMMA ListJson ==
  ASSUME NEW vs, \A i \in DOMAIN vs : IsJson(vs[i]), IsSeq(vs)
  PROVE  IsJson(List(vs))
<1>1. CASE vs = <<>>
  <2>1. List(vs) = {Leaf("empty", <<>>)} /\ Elements(<<>>) \subseteq Parts
    BY <1>1 DEF List, Empty, Elements
  <2> QED
    BY <2>1, NoElements, SingleLeaf
<1>2. CASE vs # <<>>
  <2>1. List(vs) = UNION {Within(Item(i), vs[i]) : i \in DOMAIN vs}
    BY <1>2 DEF List
  <2>2. ASSUME NEW i \in DOMAIN vs PROVE IsJson(Within(Item(i), vs[i]))
    <3>1. IsStep(Item(i))
      BY DEF IsStep, Item
    <3> QED
      BY <3>1, WithinJson
  <2>3. DOMAIN vs # {}
    <3>1. Len(vs) # 0
      BY <1>2, SeqFacts, EmptyWhole
    <3> QED
      BY <3>1, SeqFacts
  <2> QED
    BY <2>1, <2>2, <2>3 DEF IsJson
<1> QED
  BY <1>1, <1>2

(* And its credentials are recognised where those of its items are.        *)
LEMMA ListRecognised ==
  ASSUME NEW vs, IsSeq(vs), \A i \in DOMAIN vs : Recognised(vs[i])
  PROVE  Recognised(List(vs))
<1>1. IsJson(List(vs))
  BY ListJson DEF Recognised
<1>2. CASE vs = <<>>
  <2>1. List(vs) = {Leaf("empty", <<>>)} /\ Leaf("empty", <<>>).parts = <<>>
    BY <1>2 DEF List, Empty, Leaf
  <2> QED
    BY <1>1, <2>1, NoElements DEF Recognised
<1>3. CASE vs # <<>>
  <2>1. List(vs) = UNION {Within(Item(i), vs[i]) : i \in DOMAIN vs}
    BY <1>3 DEF List
  <2>2. \A i \in DOMAIN vs : Recognised(Within(Item(i), vs[i]))
    <3>1. \A i : IsStep(Item(i))
      BY DEF IsStep, Item
    <3> QED
      BY <3>1, WithinRecognised
  <2> QED
    BY <1>1, <2>1, <2>2 DEF Recognised
<1> QED
  BY <1>2, <1>3

(* No credential in the text of a log row has a shape that the Redactor    *)
(* does not know.                                                          *)
Readable(item) == item.source \in Logs => Recognised(item.value.text)

ReadableRows ==
  /\ \A i \in DOMAIN local : Readable(local[i])
  /\ \A i \in DOMAIN evidence : Readable(evidence[i])
  /\ IsSeq(snapshot) /\ \A i \in DOMAIN snapshot : Readable(snapshot[i].item)

(* Nor in what the planner and the Tools added to them.                    *)
ReadableTool(result) ==
  /\ Recognised(result.request.parameters)
  /\ IsSeq(result.evidence)
  /\ \A i \in DOMAIN result.evidence : Readable(result.evidence[i].item)

ReadableInvestigation ==
  /\ IsSeq(investigation.tools)
  /\ \A i \in DOMAIN investigation.tools : ReadableTool(investigation.tools[i])
  /\ IsSeq(investigation.facts) /\ IsSeq(investigation.missing)
  /\ \A i \in DOMAIN investigation.facts : Recognised(investigation.facts[i].text)
  /\ \A i \in DOMAIN investigation.missing : Recognised(investigation.missing[i])

(* Log events and Tool rows after they were sorted and cut.                *)
LEMMA TimedKept ==
  ASSUME NEW s, IsSeq(s), Timed(s), NEW bound \in Nat
  PROVE  /\ IsSeq(ByTime(Cut(s, bound))) /\ IsSeq(Cut(ByTime(s), bound))
         /\ \A i \in DOMAIN ByTime(Cut(s, bound)) :
              Recognised(ByTime(Cut(s, bound))[i].text)
         /\ \A i \in DOMAIN Cut(ByTime(s), bound) :
              Recognised(Cut(ByTime(s), bound)[i].text)
<1> DEFINE C == Cut(s, bound)
           B == ByTime(s)
           BC == ByTime(C)
           CB == Cut(B, bound)
<1>1. \A x \in Elements(s) : x.time \in Nat /\ Recognised(x.text)
  BY DEF Timed, Elements
<1>2. IsSeq(C) /\ Elements(C) \subseteq Elements(s)
  BY CutFacts
<1>3. IsSeq(B) /\ Elements(B) \subseteq Elements(s)
  BY SortedByTime DEF Timed
<1> HIDE DEF C, B
<1>4. \A n \in DOMAIN C : C[n].time \in Nat
  BY <1>1, <1>2, SeqFacts
<1>5. IsSeq(BC) /\ Elements(BC) \subseteq Elements(C)
  BY <1>2, <1>4, SortedByTime
<1>6. IsSeq(CB) /\ Elements(CB) \subseteq Elements(B)
  BY <1>3, CutFacts
<1> HIDE DEF BC, CB
<1>7. \A i \in DOMAIN BC : Recognised(BC[i].text)
  BY <1>1, <1>2, <1>5, SeqFacts
<1>8. \A i \in DOMAIN CB : Recognised(CB[i].text)
  BY <1>1, <1>3, <1>6, SeqFacts
<1> QED
  BY <1>5, <1>6, <1>7, <1>8 DEF BC, CB, C, B

(* The rows read from an answer have recognised credentials only.          *)
LEMMA RowsReadable ==
  ASSUME Staged, Calling, ~ListsTasks, NEW answer \in Answers(TheCall)
  PROVE  \A i \in DOMAIN RowsOf(answer) : Readable(RowsOf(answer)[i])
<1>0. TheCall.source \in Elements(Sources)
  BY PlanAtWork DEF Staged
<1>1. \A key, value : Row(key, value).source = TheCall.source
  BY DEF Row
<1>2. CASE TheCall.source = "logs.filter_log_events"
  <2> DEFINE events == Logged(answer)
  <2>1. RowsOf(answer) = [i \in DOMAIN events |-> Row(TheCall.service, events[i])]
    BY <1>2 DEF RowsOf
  <2>2. IsSeq(answer) /\ Timed(answer)
    BY <1>2, AnswersOfCall
  <2>3. \A i \in DOMAIN events : Recognised(events[i].text)
    BY <2>2, TimedKept, CollectorAssumption DEF Logged
  <2> HIDE DEF events
  <2>4. \A i \in DOMAIN events : Row(TheCall.service, events[i]).value = events[i]
    BY DEF Row
  <2> QED
    BY <2>1, <2>3, <2>4 DEF Readable
<1>3. CASE TheCall.source # "logs.filter_log_events"
  <2>1. TheCall.source \notin Logs
    BY <1>0, <1>3 DEF Elements, Sources, Logs
  <2>2. \A i \in DOMAIN RowsOf(answer) : RowsOf(answer)[i].source = TheCall.source
    <3>1. CASE TheCall.source = "github.deployments"
      <4> DEFINE recent == Recent(answer)
      <4>1. RowsOf(answer) = [i \in DOMAIN recent |-> Row("", recent[i])]
        BY <3>1 DEF RowsOf
      <4> HIDE DEF recent
      <4>2. \A i \in DOMAIN recent : RowsOf(answer)[i] = Row("", recent[i])
        BY <4>1
      <4>3. DOMAIN RowsOf(answer) = DOMAIN recent
        BY <4>1
      <4>4. \A value : Row("", value).source = TheCall.source
        BY DEF Row
      <4> QED
        BY <4>2, <4>3, <4>4
    <3>2. CASE TheCall.source = "ecs.describe_services.all_pilo"
      <4> DEFINE S == ServicesIn(topology, TheCall.cluster)
      <4>1. RowsOf(answer) = [i \in DOMAIN S |-> Row(S[i].key, answer[i])]
        BY <3>2 DEF RowsOf
      <4> HIDE DEF S
      <4>2. \A i \in DOMAIN S : RowsOf(answer)[i] = Row(S[i].key, answer[i])
        BY <4>1
      <4>3. DOMAIN RowsOf(answer) = DOMAIN S
        BY <4>1
      <4> QED
        BY <1>1, <4>2, <4>3
    <3>3. CASE /\ TheCall.source # "github.deployments"
               /\ TheCall.source # "ecs.describe_services.all_pilo"
      <4>1. RowsOf(answer) = [i \in DOMAIN answer |-> Row(TheCall.service, answer[i])]
        BY <1>3, <3>3 DEF RowsOf
      <4> QED
        BY <1>1, <4>1
    <3> QED
      BY <3>1, <3>2, <3>3
  <2> QED
    BY <2>1, <2>2 DEF Readable
<1> QED
  BY <1>2, <1>3

(* The Snapshot holds rows of the Evidence.                                *)
LEMMA AllocatedRows ==
  ASSUME NEW rows, IsSeq(rows)
  PROVE  /\ IsSeq(AllocateEvidenceIds(rows))
         /\ \A n \in DOMAIN AllocateEvidenceIds(rows) :
              \E i \in DOMAIN rows : AllocateEvidenceIds(rows)[n].item = rows[i]
<1> DEFINE P(n) == PlacesOf(rows, Sources[n])
           places == [n \in DOMAIN Sources |-> P(n)]
           order == FlattenSeq(places)
<1>1. IsFiniteSet(DOMAIN rows) /\ DOMAIN rows \subseteq Nat
  BY SeqFacts
<1>2. \A n : IsSeq(P(n)) /\ Elements(P(n)) \subseteq DOMAIN rows
  <2>1. ASSUME NEW n PROVE IsSeq(P(n)) /\ Elements(P(n)) \subseteq DOMAIN rows
    <3> DEFINE own == {i \in DOMAIN rows : rows[i].source = Sources[n]}
    <3>1. IsFiniteSet(own) /\ own \subseteq Nat
      BY <1>1, FS_Subset
    <3>2. P(n) = Ascending(own) /\ own \subseteq DOMAIN rows
      BY DEF PlacesOf
    <3> HIDE DEF own, P
    <3> QED
      BY <3>1, <3>2, AscendingFacts
  <2> QED
    BY <2>1
<1>3. IsSeq(places) /\ DOMAIN places = DOMAIN Sources
  <2>1. DOMAIN Sources = 1..7
    BY DEF Sources
  <2>2. DOMAIN places = DOMAIN Sources /\ places = [n \in DOMAIN places |-> places[n]]
    OBVIOUS
  <2> HIDE DEF places
  <2> QED
    BY <2>1, <2>2, FunctionSeq
<1>4. \A n \in DOMAIN places : IsSeq(places[n]) /\ Elements(places[n]) \subseteq DOMAIN rows
  BY <1>2
<1> HIDE DEF places
<1>5. IsSeq(order) /\ Elements(order) \subseteq DOMAIN rows
  BY <1>3, <1>4, FlattenFacts
<1>6. AllocateEvidenceIds(rows) =
        [n \in DOMAIN order |-> [id |-> <<"E", n>>, item |-> rows[order[n]]]]
  BY DEF AllocateEvidenceIds, places
<1> HIDE DEF order
<1> DEFINE A == AllocateEvidenceIds(rows)
<1>7. DOMAIN A = DOMAIN order /\ A = [n \in DOMAIN A |-> A[n]]
  BY <1>6
<1>8. \A n \in DOMAIN A : order[n] \in DOMAIN rows /\ A[n].item = rows[order[n]]
  BY <1>5, <1>6, SeqFacts
<1> HIDE DEF A
<1>9. IsSeq(A)
  BY <1>5, <1>7, MappedSeq
<1> QED
  BY <1>8, <1>9 DEF A

(* Every step keeps that of all rows gathered.                             *)
LEMMA ReadableRowsNext ==
  ASSUME Staged, Listing, Gathered, ReadableRows, [Next]_vars
  PROVE  ReadableRows'
<1>1. CASE UNCHANGED <<local, evidence, snapshot>>
  BY <1>1 DEF ReadableRows
<1>2. ASSUME NEW rows, IsSeq(rows), \A i \in DOMAIN rows : Readable(rows[i]),
             \/ /\ local' = local \o rows
                /\ UNCHANGED <<evidence, snapshot>>
             \/ /\ evidence' = evidence \o rows
                /\ local' = <<>> /\ UNCHANGED snapshot
      PROVE  ReadableRows'
  <2>1. \A s : (IsSeq(s) /\ \A i \in DOMAIN s : Readable(s[i])) =>
          \A i \in DOMAIN (s \o rows) : Readable((s \o rows)[i])
    <3> SUFFICES ASSUME NEW s, IsSeq(s), \A i \in DOMAIN s : Readable(s[i])
                 PROVE  \A i \in DOMAIN (s \o rows) : Readable((s \o rows)[i])
      OBVIOUS
    <3>1. \A x \in Elements(s) \cup Elements(rows) : Readable(x)
      BY <1>2 DEF Elements
    <3>2. IsSeq(s \o rows) /\ Elements(s \o rows) = Elements(s) \cup Elements(rows)
      BY <1>2, Joined
    <3> QED
      BY <3>1, <3>2, SeqFacts
  <2>2. DOMAIN <<>> = {}
    OBVIOUS
  <2> QED
    BY <1>2, <2>1, <2>2 DEF ReadableRows, Gathered
<1>3. CASE Snapshot
  <2>1. CASE Read
    <3>1. PICK answer \in Answers(TheCall) : Finish(RowsOf(answer))
      BY <2>1 DEF Read
    <3>2. Parsed(topology)
      BY PlanAtWork DEF Staged
    <3>3. IsSeq(RowsOf(answer))
      BY <2>1, <3>1, <3>2, AnswersOfCall, RowsOfSeq DEF Read
    <3>4. \A i \in DOMAIN RowsOf(answer) : Readable(RowsOf(answer)[i])
      BY <2>1, <3>1, RowsReadable DEF Read
    <3> QED
      BY <1>2, <3>1, <3>3, <3>4 DEF Finish
  <2>2. CASE DescribeTasks
    <3> DEFINE rows == [i \in DOMAIN TaskArns |-> Row(TheCall.service, TaskArns[i])]
    <3>1. Finish(rows) /\ TheCall.source = "ecs.describe_tasks"
      BY <2>2 DEF DescribeTasks, ListsTasks
    <3>2. \A i \in DOMAIN rows : rows[i].source = "ecs.describe_tasks"
      BY <3>1 DEF Row
    <3>3. \A i \in DOMAIN rows : Readable(rows[i])
      BY <3>2 DEF Readable, Logs
    <3>4. local' = local \o rows /\ UNCHANGED <<evidence, snapshot>>
      BY <3>1 DEF Finish
    <3>5. IsSeq(rows)
      <4>1. DOMAIN rows = DOMAIN TaskArns /\ rows = [i \in DOMAIN rows |-> rows[i]]
        OBVIOUS
      <4>2. IsSeq(TaskArns)
        <5>1. page.arns \subseteq Nat /\ IsFiniteSet(page.arns)
          BY CollectorAssumption DEF Listing
        <5>2. IsSeq(Ascending(page.arns))
          BY <5>1, AscendingFacts
        <5> QED
          BY <5>2, CutFacts, CollectorAssumption DEF TaskArns
      <4> HIDE DEF rows
      <4> QED
        BY <4>1, <4>2, MappedSeq
    <3> HIDE DEF rows
    <3> QED
      BY <1>2, <3>3, <3>4, <3>5
  <2>3. CASE Fail
    <3>1. local' = <<>> /\ UNCHANGED <<evidence, snapshot>>
      BY <2>3 DEF Fail
    <3> QED
      BY <3>1, NoElements DEF ReadableRows
  <2>4. CASE Return
    <3>1. evidence' = evidence \o local /\ local' = <<>> /\ UNCHANGED snapshot
      BY <2>4 DEF Return
    <3> QED
      BY <1>2, <3>1 DEF ReadableRows, Gathered
  <2>5. CASE Assemble
    <3>1. snapshot' = AllocateEvidenceIds(evidence) /\ UNCHANGED <<local, evidence>>
      BY <2>5 DEF Assemble
    <3> DEFINE A == AllocateEvidenceIds(evidence)
    <3>2. IsSeq(A) /\ \A n \in DOMAIN A : \E i \in DOMAIN evidence : A[n].item = evidence[i]
      BY AllocatedRows DEF Gathered
    <3> HIDE DEF A
    <3> QED
      BY <3>1, <3>2 DEF ReadableRows, A
  <2>6. CASE ListTasks \/ Raise \/ TasksMove
    BY <1>1, <2>6 DEF ListTasks, Raise, TasksMove
  <2> QED
    BY <1>3, <2>1, <2>2, <2>3, <2>4, <2>5, <2>6 DEF Snapshot, Collect
<1> QED
  BY <1>1, <1>3, StageSteps DEF ParseEvent, Claim, collectVars

-----------------------------------------------------------------------------
(* The Investigation.                                                      *)

(* A Tool result has recognised credentials where its answer has.          *)
LEMMA HandlerReadable ==
  ASSUME NEW request, Recognised(request.parameters), request.tool \in ToolNames,
         NEW answer \in ToolAnswers
  PROVE  /\ HandlerResult(request, answer).request = request
         /\ ReadableTool(HandlerResult(request, answer))
<1> DEFINE result == HandlerResult(request, answer)
           rows == Normalized(request.tool, answer.rows)
           rowEvidence == [i \in DOMAIN rows |->
             [id |-> <<Prefix[request.tool], request.key, i>>,
              item |-> [source |-> request.tool, on |-> request.resource,
                        value |-> rows[i]]]]
<1>1. CASE answer.kind # "rows"
  <2>1. \E code : result = Failure(request, code)
    BY <1>1 DEF HandlerResult
  <2>2. \A code : /\ Failure(request, code).request = request
                  /\ Failure(request, code).evidence = <<>>
    BY DEF Failure
  <2>3. result.request = request /\ result.evidence = <<>>
    BY <2>1, <2>2
  <2> HIDE DEF result
  <2> QED
    BY <2>3, NoElements DEF ReadableTool, result
<1>2. CASE answer.kind = "rows"
  <2>1. result = EvidenceResult(request, rows)
    BY <1>2 DEF HandlerResult
  <2>2. result.request = request /\ result.evidence = rowEvidence
    <3> HIDE DEF rows, result
    <3> QED
      BY <2>1 DEF EvidenceResult
  <2>3. IsSeq(answer.rows) /\ Timed(answer.rows)
    BY <1>2, TextsAssumption
  <2>4. /\ IsSeq(rows)
        /\ request.tool \in {"service_log_search", "rds_events"} =>
             \A i \in DOMAIN rows : Recognised(rows[i].text)
    <3>1. CASE request.tool \in {"service_log_search", "rds_events"}
      <4>1. rows = Cut(ByTime(answer.rows), MaxToolRows)
        BY <3>1 DEF Normalized, Events
      <4> HIDE DEF rows
      <4> QED
        BY <2>3, <4>1, TimedKept, ToolAssumption
    <3>2. CASE request.tool = "github_changed_files"
      <4>1. rows = ByTime(Cut(answer.rows, MaxToolRows))
        BY <3>2 DEF Normalized, ChangedFiles
      <4> HIDE DEF rows
      <4> QED
        BY <2>3, <3>2, <4>1, TimedKept, ToolAssumption
    <3>3. CASE request.tool \notin {"service_log_search", "rds_events",
                                    "github_changed_files"}
      <4>1. rows = <<answer.rows[1]>>
        BY <3>3 DEF Normalized, Single
      <4> HIDE DEF rows
      <4> QED
        BY <3>3, <4>1, OneElement
    <3> QED
      BY <3>1, <3>2, <3>3
  <2> HIDE DEF rows, result
  <2>5. IsSeq(rowEvidence)
    <3>1. /\ DOMAIN rowEvidence = DOMAIN rows
          /\ rowEvidence = [i \in DOMAIN rowEvidence |-> rowEvidence[i]]
      OBVIOUS
    <3> HIDE DEF rowEvidence
    <3> QED
      BY <2>4, <3>1, MappedSeq
  <2>6. ASSUME NEW i \in DOMAIN rowEvidence PROVE Readable(rowEvidence[i].item)
    <3>1. /\ i \in DOMAIN rows
          /\ rowEvidence[i].item.source = request.tool
          /\ rowEvidence[i].item.value = rows[i]
      OBVIOUS
    <3>2. request.tool \in Logs => request.tool \in {"service_log_search", "rds_events"}
      BY DEF Logs, ToolNames, ResourceType
    <3> HIDE DEF rowEvidence
    <3> QED
      BY <2>4, <3>1, <3>2 DEF Readable
  <2> HIDE DEF rowEvidence
  <2> QED
    BY <2>2, <2>5, <2>6 DEF ReadableTool, result
<1> HIDE DEF result
<1> QED
  BY <1>1, <1>2 DEF result

(* A plain text holds no credential.                                       *)
LEMMA PlainProse == Recognised(Prose("plain"))
<1> DEFINE p == Part("prose", "plain", "word")
<1>1. Prose("plain") = {Leaf("text", <<p>>)} /\ Leaf("text", <<p>>).parts = <<p>>
  BY DEF Prose, Text, Leaf
<1>2. p \in Parts /\ p.value = "plain"
  BY DEF Part, Parts, Shapes, Values, KeyForms
<1> HIDE DEF p
<1>3. IsSeq(<<p>>) /\ Elements(<<p>>) \subseteq Parts /\ \A i \in DOMAIN <<p>> : <<p>>[i] = p
  BY <1>2, OneElement
<1>4. IsJson(Prose("plain"))
  BY <1>1, <1>3, SingleLeaf
<1> QED
  BY <1>1, <1>2, <1>3, <1>4 DEF Recognised

(* What the investigation adds.                                            *)
LEMMA InvestigateReadable ==
  ASSUME Staged, Investigate
  PROVE  ReadableInvestigation'
<1>1. IsSeq(failures)
  BY DEF Staged, Places
<1>2. ASSUME NEW missing, IsSeq(missing), \A i \in DOMAIN missing : Recognised(missing[i])
      PROVE  /\ IsSeq(WithFailures(missing))
             /\ \A i \in DOMAIN WithFailures(missing) : Recognised(WithFailures(missing)[i])
  <2> DEFINE lines == [i \in DOMAIN failures |-> Prose("plain")]
             all == missing \o lines
  <2>1. IsSeq(lines) /\ \A i \in DOMAIN lines : Recognised(lines[i])
    <3>1. /\ DOMAIN lines = DOMAIN failures /\ lines = [i \in DOMAIN lines |-> lines[i]]
          /\ \A i \in DOMAIN lines : lines[i] = Prose("plain")
      OBVIOUS
    <3> HIDE DEF lines
    <3> QED
      BY <1>1, <3>1, MappedSeq, PlainProse
  <2> HIDE DEF lines
  <2>2. IsSeq(all) /\ Elements(all) = Elements(missing) \cup Elements(lines)
    BY <1>2, <2>1, Joined
  <2>3. \A x \in Elements(missing) \cup Elements(lines) : Recognised(x)
    BY <1>2, <2>1 DEF Elements
  <2> HIDE DEF all
  <2>4. \A i \in DOMAIN all : Recognised(all[i])
    BY <2>2, <2>3, SeqFacts
  <2> QED
    BY <2>2, <2>4 DEF WithFailures, all, lines
<1>3. \A t \in FactTexts \cup MissingTexts : Recognised(t)
  BY TextsAssumption
<1>4. ASSUME NEW facts, NEW missing, NEW tools, IsSeq(tools),
             \A i \in DOMAIN tools : ReadableTool(tools[i]),
             IsSeq(facts), \A i \in DOMAIN facts : Recognised(facts[i].text),
             IsSeq(missing), \A i \in DOMAIN missing : Recognised(missing[i]),
             investigation' = [facts |-> facts, tools |-> tools,
                               missing |-> WithFailures(missing)]
      PROVE  ReadableInvestigation'
  BY <1>2, <1>4 DEF ReadableInvestigation
<1>5. CASE ResolveAlarm(topology, alarm) = <<>>
  <2>1. investigation' = [facts |-> <<>>, tools |-> <<>>,
                          missing |-> WithFailures(<<Prose("plain")>>)]
    BY <1>5 DEF Investigate
  <2>2. /\ IsSeq(<<Prose("plain")>>)
        /\ \A i \in DOMAIN <<Prose("plain")>> : Recognised(<<Prose("plain")>>[i])
    BY OneElement, PlainProse
  <2> QED
    BY <1>4, <2>1, <2>2, NoElements
<1>6. CASE ResolveAlarm(topology, alarm) # <<>>
  <2>1. PICK plan, tools, facts, missing :
          /\ plan = <<>>
               \/ (/\ plan \in ToolPlans
                   /\ \A i \in DOMAIN plan :
                        Authorized(plan[i], AllowedResources(topology)))
          /\ tools \in Results(plan)
          /\ facts \in Statements(IdsOf(AllRows(tools)))
          /\ missing = <<>> \/ \E t \in MissingTexts : missing = <<t>>
          /\ investigation' = [facts |-> facts, tools |-> tools,
                               missing |-> WithFailures(missing)]
    BY <1>6 DEF Investigate
  <2>2. IsSeq(missing) /\ \A i \in DOMAIN missing : Recognised(missing[i])
    BY <1>3, <2>1, NoElements, OneElement
  <2>3. IsSeq(facts) /\ \A i \in DOMAIN facts : Recognised(facts[i].text)
    <3>1. facts = <<>> \/ \E t \in FactTexts : \E ids : facts = <<[text |-> t, ids |-> ids]>>
      BY <2>1 DEF Statements
    <3> QED
      BY <1>3, <3>1, NoElements, OneElement
  <2>4. /\ IsSeq(plan)
        /\ \A i \in DOMAIN plan : /\ Recognised(plan[i].parameters)
                                  /\ plan[i].tool \in ToolNames
    BY <2>1, TextsAssumption, NoElements DEF Authorized
  <2>5. /\ DOMAIN tools = DOMAIN plan /\ tools = [i \in DOMAIN tools |-> tools[i]]
        /\ \A i \in DOMAIN plan : \E j \in DOMAIN plan, a \in ToolAnswers :
             tools[i] = HandlerResult(plan[j], a)
    BY <2>1 DEF Results
  <2>6. \A i \in DOMAIN tools : ReadableTool(tools[i])
    BY <2>4, <2>5, HandlerReadable
  <2>7. IsSeq(tools)
    BY <2>4, <2>5, MappedSeq
  <2> QED
    BY <1>4, <2>1, <2>2, <2>3, <2>6, <2>7
<1> QED
  BY <1>5, <1>6

-----------------------------------------------------------------------------
(* What is rendered.                                                       *)

(* The texts of log rows, in order.                                        *)
LEMMA LogTextsRecognised ==
  ASSUME NEW rows, IsSeq(rows), \A i \in DOMAIN rows : Readable(rows[i].item)
  PROVE  /\ IsSeq(LogTexts(rows))
         /\ \A i \in DOMAIN LogTexts(rows) : Recognised(LogTexts(rows)[i])
<1> DEFINE places == {i \in DOMAIN rows : rows[i].item.source \in Logs}
           logged == Selected(rows, places)
<1>1. \A x \in {rows[i] : i \in places} : Recognised(x.item.value.text)
  BY DEF Readable
<1>2. places \subseteq DOMAIN rows
  OBVIOUS
<1>3. LogTexts(rows) = [i \in DOMAIN logged |-> logged[i].item.value.text]
  BY DEF LogTexts
<1> HIDE DEF places
<1>4. IsSeq(logged) /\ Elements(logged) = {rows[i] : i \in places}
  BY <1>2, SelectedFacts
<1> HIDE DEF logged
<1>5. \A i \in DOMAIN logged : Recognised(logged[i].item.value.text)
  BY <1>1, <1>4, SeqFacts
<1>6. IsSeq(LogTexts(rows))
  <2>1. /\ DOMAIN LogTexts(rows) = DOMAIN logged
        /\ LogTexts(rows) = [i \in DOMAIN LogTexts(rows) |-> LogTexts(rows)[i]]
    BY <1>3
  <2> QED
    BY <1>4, <2>1, MappedSeq
<1> QED
  BY <1>3, <1>5, <1>6

(* The rows of Snapshot and Tools together.                                *)
LEMMA AllRowsReadable ==
  ASSUME ReadableRows, ReadableInvestigation
  PROVE  /\ IsSeq(AllRows(investigation.tools))
         /\ \A i \in DOMAIN AllRows(investigation.tools) :
              Readable(AllRows(investigation.tools)[i].item)
<1> DEFINE tools == investigation.tools
           lists == [i \in DOMAIN tools |-> tools[i].evidence]
           flat == FlattenSeq(lists)
           all == snapshot \o flat
<1>1. /\ IsSeq(tools)
      /\ \A i \in DOMAIN tools : /\ IsSeq(tools[i].evidence)
                                 /\ \A x \in Elements(tools[i].evidence) : Readable(x.item)
  BY DEF ReadableInvestigation, ReadableTool, Elements
<1>2. /\ DOMAIN lists = DOMAIN tools /\ lists = [i \in DOMAIN lists |-> lists[i]]
      /\ \A i \in DOMAIN lists : lists[i] = tools[i].evidence
  OBVIOUS
<1>3. all = AllRows(investigation.tools)
  BY DEF AllRows
<1> HIDE DEF tools, lists
<1>4. IsSeq(lists)
  BY <1>1, <1>2, MappedSeq
<1>5. IsSeq(flat) /\ Elements(flat) = UNION {Elements(lists[i]) : i \in DOMAIN lists}
  BY <1>1, <1>2, <1>4, FlattenFacts
<1> HIDE DEF flat
<1>6. IsSeq(all) /\ Elements(all) = Elements(snapshot) \cup Elements(flat)
  BY <1>5, Joined DEF ReadableRows
<1>7. \A x \in Elements(snapshot) \cup Elements(flat) : Readable(x.item)
  BY <1>1, <1>2, <1>5 DEF ReadableRows, Elements
<1> HIDE DEF all
<1> QED
  BY <1>3, <1>6, <1>7, SeqFacts

(* The bundle has recognised credentials only.                             *)
LEMMA BundleRecognised ==
  ASSUME Staged, ReadableRows, ReadableInvestigation
  PROVE  Recognised(BundleValue)
<1> DEFINE inv == investigation
           a1 == input.event.detail
           t2 == LogTexts(AllRows(inv.tools))
           t3 == [i \in DOMAIN inv.tools |-> inv.tools[i].request.parameters]
           t4 == [i \in DOMAIN inv.facts |-> inv.facts[i].text]
           a2 == List(t2)
           a3 == List(t3)
           a4 == List(t4)
           a5 == List(inv.missing)
           parts == <<a1, a2, a3, a4, a5>>
<1>1. Recognised(a1)
  BY TextsAssumption DEF Staged, Places
<1>2. IsSeq(t2) /\ \A i \in DOMAIN t2 : Recognised(t2[i])
  BY AllRowsReadable, LogTextsRecognised
<1>3. IsSeq(t3) /\ \A i \in DOMAIN t3 : Recognised(t3[i])
  <2>1. /\ DOMAIN t3 = DOMAIN inv.tools /\ t3 = [i \in DOMAIN t3 |-> t3[i]]
        /\ \A i \in DOMAIN t3 : t3[i] = inv.tools[i].request.parameters
    OBVIOUS
  <2> HIDE DEF t3
  <2> QED
    BY <2>1, MappedSeq DEF ReadableInvestigation, ReadableTool
<1>4. IsSeq(t4) /\ \A i \in DOMAIN t4 : Recognised(t4[i])
  <2>1. /\ DOMAIN t4 = DOMAIN inv.facts /\ t4 = [i \in DOMAIN t4 |-> t4[i]]
        /\ \A i \in DOMAIN t4 : t4[i] = inv.facts[i].text
    OBVIOUS
  <2> HIDE DEF t4
  <2> QED
    BY <2>1, MappedSeq DEF ReadableInvestigation
<1>5. IsSeq(inv.missing) /\ \A i \in DOMAIN inv.missing : Recognised(inv.missing[i])
  BY DEF ReadableInvestigation
<1>6. BundleValue = List(parts)
  BY DEF BundleValue
<1> HIDE DEF a1, t2, t3, t4, inv
<1>7. Recognised(a2) /\ Recognised(a3) /\ Recognised(a4) /\ Recognised(a5)
  BY <1>2, <1>3, <1>4, <1>5, ListRecognised
<1> HIDE DEF a2, a3, a4, a5
<1>8. \A i \in DOMAIN parts : Recognised(parts[i])
  BY <1>1, <1>7
<1>9. IsSeq(parts)
  <2>1. 5 \in Nat /\ DOMAIN parts = 1..5 /\ parts = [i \in DOMAIN parts |-> parts[i]]
    OBVIOUS
  <2> HIDE DEF parts
  <2> QED
    BY <2>1, FunctionSeq
<1> HIDE DEF parts
<1> QED
  BY <1>6, <1>8, <1>9, ListRecognised

(* Neither of the two redactions shows a credential, nor the escape of     *)
(* what the Issue shows of it.                                             *)
LEMMA RenderedSafely ==
  ASSUME NEW v, Recognised(v)
  PROVE  LET twice == RedactJson(RedactJson(v))
         IN  /\ Secrets(twice) = {}
             /\ Secrets(IssueOf(twice)) = {}
<1> DEFINE once == RedactJson(v)
           twice == RedactJson(once)
<1>1. Secrets(once) = {}
  <2>1. \A p : p.value = "secret" /\ Known(p) => Replaced(p)
    BY DEF Known, Shapes, Replaced
  <2> QED
    BY <2>1, RedactedShowsNone DEF Recognised
<1> HIDE DEF once
<1>2. \A l \in once : \A i \in DOMAIN l.parts : l.parts[i].value # "secret"
  BY <1>1 DEF Secrets, PartsOf
<1>3. Secrets(twice) = {}
  BY <1>2, RedactedShowsNone
<1>4. \A l \in twice : "parts" \in DOMAIN l
  BY DEF RedactJson, RedactLeaf, Raised
<1> HIDE DEF twice
<1>5. ASSUME NEW l \in IssueOf(twice), NEW i \in DOMAIN l.parts
      PROVE  l.parts[i].value # "secret"
  <2>1. PICK m \in twice : l = [m EXCEPT !.parts = SafeInline(@)]
    BY DEF IssueOf
  <2>2. l.parts = SafeInline(m.parts)
    BY <1>4, <2>1
  <2>3. i \in DOMAIN m.parts /\ l.parts[i] = EscapePart(m.parts[i])
    BY <2>2 DEF SafeInline
  <2>4. m.parts[i].value # "secret"
    BY <1>3, <2>3 DEF Secrets, PartsOf
  <2> QED
    BY <2>3, <2>4 DEF EscapePart
<1>6. Secrets(IssueOf(twice)) = {}
  BY <1>5 DEF Secrets, PartsOf
<1> QED
  BY <1>3, <1>6 DEF twice, once

(* Hence it always holds.                                                  *)
LEMMA AlwaysReadable == Spec => [](ReadableRows /\ ReadableInvestigation)
<1>1. Init => ReadableRows /\ ReadableInvestigation
  <2> SUFFICES ASSUME Init PROVE ReadableRows /\ ReadableInvestigation
    OBVIOUS
  <2>1. ReadableRows
    BY NoElements DEF Init, Idle, ReadableRows
  <2>2. ReadableInvestigation
    BY NoElements DEF Init, NoInvestigation, ReadableInvestigation
  <2> QED
    BY <2>1, <2>2
<1>2. ASSUME Staged, Listing, Gathered, ReadableRows, ReadableInvestigation, [Next]_vars
      PROVE  ReadableRows' /\ ReadableInvestigation'
  <2>1. ReadableRows'
    BY <1>2, ReadableRowsNext
  <2>2. ReadableInvestigation'
    <3>1. CASE Investigate
      BY <1>2, <3>1, InvestigateReadable
    <3>2. CASE UNCHANGED investigation
      BY <1>2, <3>2 DEF ReadableInvestigation
    <3> QED
      BY <1>2, <3>1, <3>2 DEF Next, ParseEvent, LoadTopology, Claim, Snapshot,
         LeaveSnapshot, Render, Publish, Ended, vars, reportVars
  <2> QED
    BY <2>1, <2>2
<1> QED
  BY <1>1, <1>2, AlwaysGathered, PTL DEF Spec

(* Theorem: nothing that is about to be published shows a credential of a  *)
(* log line, a Tool row or parameter, the alarm, or what the planner wrote.*)
THEOREM PublishesNoSecret == Spec => []NothingSecret
<1>1. Init => NothingSecret
  BY DEF Init, NothingSecret
<1>2. ASSUME Staged, ReadableRows, ReadableInvestigation, NothingSecret, [Next]_vars
      PROVE  NothingSecret'
  <2>1. CASE UNCHANGED payload
    BY <1>2, <2>1 DEF NothingSecret
  <2>2. CASE Render
    <3> DEFINE twice == RedactJson(RedactJson(BundleValue))
    <3>1. \/ UNCHANGED payload
          \/ payload' = [bundle |-> twice, issue |-> IssueOf(twice),
                         brief |-> TheBrief]
      BY <2>2 DEF Render
    <3>2. Secrets(twice) = {} /\ Secrets(IssueOf(twice)) = {}
      BY <1>2, BundleRecognised, RenderedSafely
    <3> HIDE DEF twice
    <3>3. CASE payload' = [bundle |-> twice, issue |-> IssueOf(twice),
                           brief |-> TheBrief]
      <4>1. payload'.bundle = twice /\ payload'.issue = IssueOf(twice)
        BY <3>3
      <4> QED
        BY <3>2, <4>1 DEF NothingSecret
    <3> QED
      BY <2>1, <3>1, <3>3
  <2> QED
    BY <1>2, <2>1, <2>2 DEF Next, ParseEvent, LoadTopology, Claim, Snapshot,
       LeaveSnapshot, Investigate, Publish, Ended, vars, reportVars
<1> QED
  BY <1>1, <1>2, AlwaysGathered, AlwaysReadable, PTL DEF Spec

-----------------------------------------------------------------------------
(* Every fact is there once.                                               *)

(* No fact is there twice.                                                 *)
DistinctFacts(rows) ==
  \A i, j \in DOMAIN rows :
    /\ rows[i] = rows[j]
    /\ rows[i].source # "logs.filter_log_events"
    => i = j

(* A row names the call that read it, of the collector that made it.       *)
ReadBy(row, collector, call) ==
  /\ row.by = collector /\ row.source = call.source /\ row.on = call.on
  /\ collector \notin OnePerResource => row.service = call.service

Sourced ==
  /\ DistinctFacts(local) /\ DistinctFacts(evidence)
  /\ \A i \in DOMAIN local :
       \E k \in 1..reads : ReadBy(local[i], Name, Plan(Name, topology, alarm)[k])
  /\ \A i \in DOMAIN local : local[i].source \in Elements(Sources)
  /\ \A i \in DOMAIN evidence : evidence[i].source \in Elements(Sources)
  /\ \A i \in DOMAIN evidence : \E n \in 1..(next - 1) : evidence[i].by = Collectors[n]
  /\ local # <<>> => next <= Len(Collectors)

(* Where the elements of a concatenation come from.                        *)
LEMMA JoinedPlaces ==
  ASSUME NEW s, IsSeq(s), NEW t, IsSeq(t)
  PROVE  /\ Len(s) \in Nat /\ DOMAIN (s \o t) \subseteq Nat
         /\ \A i \in DOMAIN (s \o t) :
              \/ i \in DOMAIN s /\ (s \o t)[i] = s[i]
              \/ i - Len(s) \in DOMAIN t /\ (s \o t)[i] = t[i - Len(s)]
         /\ \A i \in DOMAIN s : s[i] \in Elements(s)
         /\ \A i \in DOMAIN t : t[i] \in Elements(t)
<1> DEFINE st == s \o t
<1>1. IsSeq(st) /\ Len(st) = Len(s) + Len(t)
  BY Joined
<1>2. \A i \in 1..Len(s) : st[i] = s[i]
  BY Joined
<1>3. \A i \in 1..Len(t) : st[Len(s) + i] = t[i]
  BY Joined
<1> HIDE DEF st
<1>4. /\ Len(s) \in Nat /\ Len(t) \in Nat /\ DOMAIN s = 1..Len(s)
      /\ DOMAIN t = 1..Len(t) /\ DOMAIN st = 1..(Len(s) + Len(t))
      /\ \A i \in DOMAIN s : s[i] \in Elements(s)
      /\ \A i \in DOMAIN t : t[i] \in Elements(t)
  BY <1>1, SeqFacts
<1>5. ASSUME NEW i \in DOMAIN st
      PROVE  \/ i \in DOMAIN s /\ st[i] = s[i]
             \/ i - Len(s) \in DOMAIN t /\ st[i] = t[i - Len(s)]
  <2>1. CASE i <= Len(s)
    BY <1>2, <1>4, <2>1
  <2>2. CASE ~(i <= Len(s))
    <3>1. i - Len(s) \in 1..Len(t) /\ Len(s) + (i - Len(s)) = i
      BY <1>4, <2>2
    <3> QED
      BY <1>3, <1>4, <3>1
  <2> QED
    BY <2>1, <2>2
<1>6. DOMAIN st \subseteq Nat
  BY <1>4
<1> QED
  BY <1>4, <1>5, <1>6 DEF st

(* Two lists of distinct facts that share none, joined.                    *)
LEMMA DistinctJoined ==
  ASSUME NEW s, IsSeq(s), DistinctFacts(s), NEW t, IsSeq(t), DistinctFacts(t),
         \A x \in Elements(s) : \A y \in Elements(t) : x # y
  PROVE  DistinctFacts(s \o t)
<1> DEFINE st == s \o t
<1>1. /\ Len(s) \in Nat /\ DOMAIN st \subseteq Nat
      /\ \A i \in DOMAIN st :
           \/ i \in DOMAIN s /\ st[i] = s[i]
           \/ i - Len(s) \in DOMAIN t /\ st[i] = t[i - Len(s)]
      /\ \A i \in DOMAIN s : s[i] \in Elements(s)
      /\ \A i \in DOMAIN t : t[i] \in Elements(t)
  BY JoinedPlaces
<1> HIDE DEF st
<1>2. ASSUME NEW i \in DOMAIN st, NEW j \in DOMAIN st, st[i] = st[j],
             st[i].source # "logs.filter_log_events"
      PROVE  i = j
  <2>1. CASE i \in DOMAIN s /\ st[i] = s[i] /\ j \in DOMAIN s /\ st[j] = s[j]
    BY <1>2, <2>1 DEF DistinctFacts
  <2>2. CASE /\ i - Len(s) \in DOMAIN t /\ st[i] = t[i - Len(s)]
             /\ j - Len(s) \in DOMAIN t /\ st[j] = t[j - Len(s)]
    <3>1. i - Len(s) = j - Len(s)
      BY <1>2, <2>2 DEF DistinctFacts
    <3> QED
      BY <1>1, <3>1
  <2> QED
    BY <1>1, <1>2, <2>1, <2>2
<1> QED
  BY <1>2 DEF DistinctFacts, st

(* The rows of one answer.                                                 *)
LEMMA AnswerRows ==
  ASSUME Staged, Calling, ~ListsTasks, NEW answer \in Answers(TheCall)
  PROVE  /\ DistinctFacts(RowsOf(answer))
         /\ \A i \in DOMAIN RowsOf(answer) : ReadBy(RowsOf(answer)[i], Name, TheCall)
<1> DEFINE rows == RowsOf(answer)
<1>0. /\ Parsed(topology) /\ Loadable(topology)
      /\ TheCall.source = "ecs.describe_services.all_pilo" <=> Name = "all_pilo_services"
  BY PlanAtWork DEF Staged, Phases, Calling, Collecting
<1>1. /\ \A key, value : /\ Row(key, value).source = TheCall.source
                         /\ Row(key, value).by = Name /\ Row(key, value).on = TheCall.on
                         /\ Row(key, value).service = key
                         /\ Row(key, value).value = value
  BY DEF Row
<1>2. ASSUME NEW s, NEW key, rows = [i \in DOMAIN s |-> Row(key, s[i])], Distinct(s),
             Name \in OnePerResource \/ key = TheCall.service
      PROVE  /\ DistinctFacts(rows)
             /\ \A i \in DOMAIN rows : ReadBy(rows[i], Name, TheCall)
  <2> HIDE DEF rows
  <2>1. DOMAIN rows = DOMAIN s
    BY <1>2
  <2>2. \A i \in DOMAIN s : rows[i] = Row(key, s[i])
    BY <1>2
  <2>3. \A i \in DOMAIN rows : /\ rows[i].value = s[i] /\ rows[i].source = TheCall.source
                               /\ rows[i].by = Name /\ rows[i].on = TheCall.on
                               /\ rows[i].service = key
    BY <1>1, <2>1, <2>2
  <2>4. DistinctFacts(rows)
    BY <1>2, <2>1, <2>3 DEF DistinctFacts, Distinct
  <2> QED
    BY <1>2, <2>3, <2>4 DEF ReadBy
<1>3. CASE TheCall.source = "logs.filter_log_events"
  <2> DEFINE events == Logged(answer)
  <2>1. rows = [i \in DOMAIN events |-> Row(TheCall.service, events[i])]
    BY <1>3 DEF RowsOf
  <2> HIDE DEF events, rows
  <2>2. \A i \in DOMAIN rows : rows[i] = Row(TheCall.service, events[i])
    BY <2>1
  <2>3. \A i \in DOMAIN rows : /\ rows[i].source = TheCall.source
                               /\ rows[i].by = Name /\ rows[i].on = TheCall.on
                               /\ rows[i].service = TheCall.service
    BY <1>1, <2>2
  <2> QED
    BY <1>3, <2>3 DEF DistinctFacts, ReadBy, rows
<1>4. CASE TheCall.source = "github.deployments"
  <2> DEFINE recent == Recent(answer)
  <2>1. rows = [i \in DOMAIN recent |-> Row("", recent[i])]
    BY <1>4 DEF RowsOf
  <2>2. /\ IsSeq(answer) /\ Distinct(answer)
        /\ \A n \in DOMAIN answer : answer[n].id \in Nat
    BY <1>4, AnswersOfCall
  <2>3. Distinct(recent)
    BY <2>2, DistinctRecent
  <2>4. Name \in OnePerResource
    BY <1>4, PlanAtWork DEF OnePerResource, Staged
  <2> HIDE DEF recent, rows
  <2> QED
    BY <1>2, <2>1, <2>3, <2>4 DEF rows
<1>5. CASE TheCall.source = "ecs.describe_services.all_pilo"
  <2> DEFINE places == {i \in DOMAIN topology.services :
                          topology.services[i].ecs_cluster = TheCall.cluster}
             S == ServicesIn(topology, TheCall.cluster)
  <2>1. rows = [i \in DOMAIN S |-> Row(S[i].key, answer[i])]
    BY <1>5 DEF RowsOf
  <2>2. \A i, j \in DOMAIN S : S[i].key = S[j].key => i = j
    <3>1. S = Selected(topology.services, places) /\ places \subseteq DOMAIN topology.services
      BY DEF ServicesIn
    <3> HIDE DEF S, places
    <3> QED
      BY <1>0, <3>1, DistinctKeys
  <2>3. Name \in OnePerResource
    BY <1>0, <1>5 DEF OnePerResource
  <2> HIDE DEF S, rows
  <2>4. DOMAIN rows = DOMAIN S
    BY <2>1
  <2>5. \A i \in DOMAIN S : rows[i] = Row(S[i].key, answer[i])
    BY <2>1
  <2>6. \A i \in DOMAIN rows : /\ rows[i].source = TheCall.source
                               /\ rows[i].by = Name /\ rows[i].on = TheCall.on
                               /\ rows[i].service = S[i].key
    BY <1>1, <2>4, <2>5
  <2>7. DistinctFacts(rows)
    BY <2>2, <2>4, <2>6 DEF DistinctFacts
  <2> QED
    BY <2>3, <2>6, <2>7 DEF ReadBy, rows
<1>6. CASE TheCall.source \notin {"logs.filter_log_events", "github.deployments",
                                  "ecs.describe_services.all_pilo"}
  <2>1. rows = [i \in DOMAIN answer |-> Row(TheCall.service, answer[i])]
    BY <1>6 DEF RowsOf
  <2>2. Distinct(answer)
    BY <1>6, AnswersOfCall
  <2> HIDE DEF rows
  <2> QED
    BY <1>2, <2>1, <2>2 DEF rows
<1> QED
  BY <1>3, <1>4, <1>5, <1>6

(* What is read is new, whatever was read before it.                       *)
LEMMA ReadSourced ==
  ASSUME Staged, Gathered, Sourced, Calling, NEW rows, IsSeq(rows),
         DistinctFacts(rows), \A i \in DOMAIN rows : ReadBy(rows[i], Name, TheCall),
         Finish(rows), UNCHANGED <<topology, alarm>>
  PROVE  Sourced'
<1> DEFINE P == Plan(Name, topology, alarm)
           both == local \o rows
<1>1. /\ local' = both /\ reads' = reads + 1 /\ UNCHANGED <<next, evidence>>
      /\ reads \in Nat /\ next <= Len(Collectors)
  BY DEF Finish, Staged, Places, Calling, Collecting
<1>2. /\ Parsed(topology) /\ Loadable(topology) /\ Name \in CollectorNames
      /\ IsSeq(P) /\ Len(P) \in Nat /\ reads + 1 \in DOMAIN P /\ DOMAIN P = 1..Len(P)
      /\ TheCall.source \in Elements(Sources)
  BY <1>1, PlanAtWork, SeqFacts DEF Staged, Phases, Calling, Collecting
<1>3. P' = P /\ Name' = Name
  BY <1>1 DEF Name
<1>4. TheCall = P[reads + 1]
  BY DEF TheCall
<1>5. \A k, m \in DOMAIN P : k # m =>
        /\ Differ(P[k], P[m])
        /\ Name \in OnePerResource => P[k].on # P[m].on
  BY <1>2, PlanApart
<1> HIDE DEF P
<1>6. ASSUME NEW x \in Elements(local), NEW y \in Elements(rows) PROVE x # y
  <2>1. PICK k \in 1..reads : ReadBy(x, Name, P[k])
    BY DEF Sourced, Elements, P
  <2>2. ReadBy(y, Name, P[reads + 1])
    BY <1>4 DEF Elements
  <2>3. k \in DOMAIN P /\ k # reads + 1
    BY <1>1, <1>2
  <2> QED
    BY <1>2, <1>5, <2>1, <2>2, <2>3 DEF ReadBy, Differ
<1>7. DistinctFacts(both)
  BY <1>6, DistinctJoined DEF Sourced, Gathered
<1>8. IsSeq(both) /\ Elements(both) = Elements(local) \cup Elements(rows)
  BY Joined DEF Gathered
<1> HIDE DEF both
<1>9. \A x \in Elements(both) : \E k \in 1..(reads + 1) : ReadBy(x, Name, P[k])
  <2>1. \A x \in Elements(local) : \E k \in 1..(reads + 1) : ReadBy(x, Name, P[k])
    <3>1. 1..reads \subseteq 1..(reads + 1)
      BY <1>1
    <3> QED
      BY <3>1 DEF Sourced, Elements, P
  <2>2. \A x \in Elements(rows) : ReadBy(x, Name, P[reads + 1])
    BY <1>4 DEF Elements
  <2>3. reads + 1 \in 1..(reads + 1)
    BY <1>1
  <2> QED
    BY <1>8, <2>1, <2>2, <2>3
<1>10. \A x \in Elements(both) : x.source \in Elements(Sources)
  <2>1. \A i \in DOMAIN local : local[i].source \in Elements(Sources)
    BY DEF Sourced
  <2>2. \A i \in DOMAIN rows : rows[i].source = TheCall.source
    BY DEF ReadBy
  <2>3. \A x \in Elements(local) \cup Elements(rows) : x.source \in Elements(Sources)
    BY <1>2, <2>1, <2>2 DEF Elements
  <2> QED
    BY <1>8, <2>3
<1>11. \A i \in DOMAIN both : both[i] \in Elements(both)
  BY DEF Elements
<1>12. \A i \in DOMAIN local' :
         \E k \in 1..reads' : ReadBy(local'[i], Name', P'[k])
  BY <1>1, <1>3, <1>9, <1>11
<1> QED
  BY <1>1, <1>7, <1>10, <1>11, <1>12 DEF Sourced, P

(* The next collector starts with no row of its own.                       *)
LEMMA LeftSourced ==
  ASSUME Staged, Sourced, next <= Len(Collectors), next' = next + 1,
         local' = <<>>, UNCHANGED evidence
  PROVE  Sourced'
<1>1. DOMAIN <<>> = {} /\ next \in Nat
  BY NoElements DEF Staged, Places
<1>2. 1..(next - 1) \subseteq 1..(next' - 1)
  BY <1>1
<1>3. DistinctFacts(<<>>)
  BY <1>1 DEF DistinctFacts
<1> QED
  BY <1>1, <1>2, <1>3 DEF Sourced

(* The collectors have different names.                                    *)
LEMMA CollectorsDiffer ==
  \A m, n \in 1..6 : Collectors[m] = Collectors[n] => m = n
<1>1. 1..6 = {1, 2, 3, 4, 5, 6}
  OBVIOUS
<1> QED
  BY <1>1 DEF Collectors

(* A collector returns its rows.                                           *)
LEMMA ReturnSourced ==
  ASSUME Staged, Gathered, Sourced, Return
  PROVE  Sourced'
<1> DEFINE all == evidence \o local
<1>1. /\ evidence' = all /\ local' = <<>> /\ next' = next + 1
      /\ next \in 1..6 /\ next' \in Nat
  BY SixCollectors DEF Return, Collecting, Staged, Places
<1>2. \A x \in Elements(local) : x.by = Collectors[next]
  BY DEF Sourced, ReadBy, Elements, Name
<1>3. \A x \in Elements(evidence) : \E n \in 1..(next - 1) : x.by = Collectors[n]
  BY DEF Sourced, Elements
<1>4. \A n \in 1..(next - 1) : n \in 1..6 /\ n # next /\ n \in 1..next
  BY <1>1
<1>5. \A x \in Elements(evidence) : \A y \in Elements(local) : x # y
  BY <1>1, <1>2, <1>3, <1>4, CollectorsDiffer
<1>6. DistinctFacts(all)
  BY <1>5, DistinctJoined DEF Sourced, Gathered
<1>7. Elements(all) = Elements(evidence) \cup Elements(local)
  BY Joined DEF Gathered
<1> HIDE DEF all
<1>8. \A x \in Elements(all) : x.source \in Elements(Sources)
  <2>1. \A x \in Elements(evidence) \cup Elements(local) : x.source \in Elements(Sources)
    BY DEF Sourced, Elements
  <2> QED
    BY <1>7, <2>1
<1>9. \A x \in Elements(all) : \E n \in 1..(next' - 1) : x.by = Collectors[n]
  <2>1. next' - 1 = next /\ next \in 1..next
    BY <1>1
  <2> QED
    BY <1>2, <1>3, <1>4, <1>7, <2>1
<1>10. \A i \in DOMAIN all : all[i] \in Elements(all)
  BY DEF Elements
<1>11. DOMAIN <<>> = {} /\ DistinctFacts(<<>>)
  BY NoElements DEF DistinctFacts
<1> QED
  BY <1>1, <1>6, <1>8, <1>9, <1>10, <1>11 DEF Sourced

(* Every step keeps the sources.                                           *)
LEMMA SourcedNext ==
  ASSUME Staged, Listing, Gathered, Sourced, [Next]_vars
  PROVE  Sourced'
<1>1. CASE UNCHANGED <<topology, alarm, local, evidence, next, reads>>
  <2>1. Plan(Name, topology, alarm)' = Plan(Name, topology, alarm) /\ Name' = Name
    BY <1>1 DEF Name
  <2> QED
    BY <1>1, <2>1 DEF Sourced
<1>2. CASE ParseEvent
  <2>1. status = "idle" /\ UNCHANGED <<local, evidence, next>>
    BY <1>2 DEF ParseEvent, Staged, Phases, BeforeSnapshot, collectVars
  <2>2. local = <<>>
    BY <2>1 DEF Staged, Places, Idle
  <2>3. DOMAIN <<>> = {}
    BY NoElements
  <2> QED
    BY <2>1, <2>2, <2>3 DEF Sourced
<1>3. CASE Snapshot
  <2>0. UNCHANGED <<topology, alarm>>
    BY <1>3 DEF Snapshot
  <2>1. CASE Read
    <3>1. PICK answer \in Answers(TheCall) : Finish(RowsOf(answer))
      BY <2>1 DEF Read
    <3>2. Parsed(topology) /\ Calling /\ ~ListsTasks
      BY <2>1, PlanAtWork DEF Staged, Read
    <3>3. IsSeq(RowsOf(answer))
      BY <3>1, <3>2, AnswersOfCall, RowsOfSeq
    <3>4. /\ DistinctFacts(RowsOf(answer))
          /\ \A i \in DOMAIN RowsOf(answer) : ReadBy(RowsOf(answer)[i], Name, TheCall)
      BY <3>1, <3>2, AnswerRows
    <3> QED
      BY <2>0, <3>1, <3>2, <3>3, <3>4, ReadSourced
  <2>2. CASE DescribeTasks
    <3> DEFINE rows == [i \in DOMAIN TaskArns |-> Row(TheCall.service, TaskArns[i])]
    <3>1. Finish(rows) /\ Calling
      BY <2>2 DEF DescribeTasks
    <3>2. IsSeq(TaskArns) /\ Distinct(TaskArns)
      <4> DEFINE A == Ascending(page.arns)
      <4>1. page.arns \subseteq Nat /\ IsFiniteSet(page.arns)
        BY CollectorAssumption DEF Listing
      <4>2. /\ IsSeq(A) /\ DOMAIN A = 1..Cardinality(page.arns)
            /\ \A n \in 1..Cardinality(page.arns) : A[n] \in page.arns
            /\ \A m, n \in 1..Cardinality(page.arns) : m < n => A[m] < A[n]
        BY <4>1, AscendingFacts
      <4>3. TaskArns = Cut(A, MaxTasks)
        BY DEF TaskArns
      <4>4. Cardinality(page.arns) \in Nat
        BY <4>1, FS_CardinalityType
      <4> HIDE DEF A
      <4>5. ASSUME NEW m \in DOMAIN A, NEW n \in DOMAIN A, A[m] = A[n] PROVE m = n
        <5>1. m \in Nat /\ n \in Nat /\ A[m] \in Nat
          BY <4>1, <4>2, <4>4
        <5>2. ~(m < n) /\ ~(n < m)
          BY <4>2, <4>5, <5>1
        <5> QED
          BY <5>1, <5>2
      <4> QED
        BY <4>2, <4>3, <4>5, CutFacts, DistinctCut, CollectorAssumption DEF Distinct
    <3>3. DOMAIN rows = DOMAIN TaskArns /\ rows = [i \in DOMAIN rows |-> rows[i]]
      OBVIOUS
    <3>4. \A i \in DOMAIN rows : /\ rows[i].value = TaskArns[i] /\ rows[i].by = Name
                                 /\ rows[i].source = TheCall.source
                                 /\ rows[i].on = TheCall.on
                                 /\ rows[i].service = TheCall.service
      BY DEF Row
    <3> HIDE DEF rows
    <3>5. IsSeq(rows)
      BY <3>2, <3>3, MappedSeq
    <3>6. DistinctFacts(rows)
      BY <3>2, <3>3, <3>4 DEF DistinctFacts, Distinct
    <3>7. \A i \in DOMAIN rows : ReadBy(rows[i], Name, TheCall)
      BY <3>4 DEF ReadBy
    <3> QED
      BY <2>0, <3>1, <3>5, <3>6, <3>7, ReadSourced
  <2>3. CASE Fail
    <3>1. /\ next <= Len(Collectors) /\ next' = next + 1 /\ local' = <<>>
          /\ UNCHANGED evidence
      BY <2>3 DEF Fail, AtCall, Calling, Collecting
    <3> QED
      BY <3>1, LeftSourced
  <2>4. CASE Return
    BY <2>4, ReturnSourced
  <2>5. CASE ListTasks \/ Raise \/ Assemble \/ TasksMove
    BY <1>1, <2>0, <2>5 DEF ListTasks, Raise, Assemble, TasksMove
  <2> QED
    BY <1>3, <2>1, <2>2, <2>3, <2>4, <2>5 DEF Snapshot, Collect
<1> QED
  BY <1>1, <1>2, <1>3, StageSteps DEF Claim, collectVars

(* A Snapshot that was collected is the Evidence with its IDs.             *)
Allocated == status = "collected" => snapshot = AllocateEvidenceIds(evidence)

(* Every step keeps the allocation.                                        *)
LEMMA AllocatedNext ==
  ASSUME Staged, Allocated, [Next]_vars
  PROVE  Allocated'
<1>1. CASE UNCHANGED <<status, snapshot, evidence>>
  BY <1>1 DEF Allocated
<1>2. CASE Claim
  <2>1. status = "idle" /\ status' \in {"idle", "collecting"}
    BY <1>2 DEF Claim, Staged, Phases, BeforeSnapshot
  <2> QED
    BY <2>1 DEF Allocated
<1>3. CASE Snapshot
  <2>1. status = "collecting"
    BY <1>3 DEF Snapshot
  <2>2. CASE Assemble
    BY <2>2 DEF Assemble, Allocated
  <2>3. CASE Raise
    BY <2>3 DEF Raise, Allocated
  <2>4. CASE Read \/ DescribeTasks \/ ListTasks \/ Fail \/ Return \/ TasksMove
    <3>1. status' = status
      BY <2>4 DEF Read, DescribeTasks, Finish, ListTasks, Fail, Return, TasksMove
    <3> QED
      BY <2>1, <3>1 DEF Allocated
  <2> QED
    BY <1>3, <2>2, <2>3, <2>4 DEF Snapshot, Collect
<1> QED
  BY <1>1, <1>2, <1>3, StageSteps DEF ParseEvent, collectVars

(* Hence all of these always hold.                                         *)
LEMMA AlwaysAllocated == Spec => [](Gathered /\ Sourced /\ Allocated)
<1>1. Init => Sourced /\ Allocated
  <2> SUFFICES ASSUME Init PROVE Sourced /\ Allocated
    OBVIOUS
  <2>1. local = <<>> /\ evidence = <<>> /\ status = "idle" /\ DOMAIN <<>> = {}
    BY NoElements DEF Init, Idle
  <2> QED
    BY <2>1 DEF Sourced, Allocated, DistinctFacts
<1>2. Staged /\ Listing /\ Gathered /\ Sourced /\ Allocated /\ [Next]_vars
        => Sourced' /\ Allocated'
  BY SourcedNext, AllocatedNext
<1> QED
  BY <1>1, <1>2, AlwaysGathered, PTL DEF Spec

(* Theorem: the IDs of a Snapshot are 1..n without a gap, in the order of  *)
(* the sources and, within a source, of the Evidence; no fact has two.     *)
THEOREM EvidenceIdsByRank == Spec => []IdsByRank
<1>1. ASSUME Gathered, Sourced, Allocated PROVE IdsByRank
  <2>1. SUFFICES ASSUME status = "collected" PROVE IdsByRank
    BY DEF IdsByRank
  <2> DEFINE A == AllocateEvidenceIds(evidence)
  <2>2. /\ Len(A) = Len(evidence)
        /\ \A j \in DOMAIN evidence :
             LET n == Cardinality({i \in DOMAIN evidence :
                        \/ Rank(evidence[i]) < Rank(evidence[j])
                        \/ Rank(evidence[i]) = Rank(evidence[j]) /\ i <= j})
             IN A[n] = [id |-> <<"E", n>>, item |-> evidence[j]]
    BY <1>1, AllocatedByRank DEF Gathered, Sourced
  <2>3. snapshot = A
    BY <1>1, <2>1 DEF Allocated
  <2>4. \A i, j \in DOMAIN evidence :
          (/\ evidence[i] = evidence[j]
           /\ evidence[i].source # "logs.filter_log_events") => i = j
    BY <1>1 DEF Sourced, DistinctFacts
  <2> HIDE DEF A
  <2> QED
    BY <2>2, <2>3, <2>4 DEF IdsByRank
<1> QED
  BY <1>1, AlwaysAllocated, PTL

-----------------------------------------------------------------------------
(* Redacting again.                                                        *)

IsPath(path) == IsSeq(path) /\ \A i \in DOMAIN path : IsStep(path[i])

(* A redacted path stays as it is, and so do the borders on it.            *)
LEMMA SafePathFacts ==
  ASSUME NEW path, IsPath(path)
  PROVE  /\ IsPath(SafePath(path)) /\ Len(SafePath(path)) = Len(path)
         /\ DOMAIN SafePath(path) = DOMAIN path
         /\ SafePath(SafePath(path)) = SafePath(path)
         /\ \A i \in DOMAIN path :
              path[i].key = "" => SafePath(path)[i] = path[i]
         /\ \A i \in DOMAIN path :
              SafePath(path)[i] = Border <=> path[i] = Border
<1> DEFINE s == SafePath(path)
           step(x) == IF x.key = "" THEN x ELSE Under(SafeKey[x.key])
<1>1. /\ DOMAIN s = DOMAIN path /\ s = [i \in DOMAIN s |-> s[i]]
      /\ \A i \in DOMAIN path : s[i] = step(path[i])
  BY DEF SafePath
<1>2. \A k : Under(k).key = k
  BY DEF Under
<1>3. ASSUME NEW x, IsStep(x)
      PROVE  IsStep(step(x)) /\ step(step(x)) = step(x) /\ (step(x) = Border <=> x = Border)
  <2>1. CASE x.key = ""
    BY <2>1 DEF IsStep
  <2>2. CASE x.key # ""
    <3>1. /\ x.key \in DOMAIN SafeKey /\ SafeKey[x.key] \in DOMAIN SafeKey
          /\ SafeKey[x.key] # "" /\ SafeKey[SafeKey[x.key]] = SafeKey[x.key]
      BY <1>3, <2>2, RedactionAssumption DEF IsStep
    <3>2. step(x) = Under(SafeKey[x.key]) /\ step(x).key = SafeKey[x.key]
      BY <1>2, <2>2
    <3>3. Border.key = ""
      BY DEF Border
    <3> QED
      BY <2>2, <3>1, <3>2, <3>3 DEF IsStep
  <2> QED
    BY <2>1, <2>2
<1>4. \A x : x.key = "" => step(x) = x
  OBVIOUS
<1>5. IsSeq(s) /\ Len(s) = Len(path)
  <2> HIDE DEF s
  <2> QED
    BY <1>1, MappedSeq DEF IsPath
<1>6. SafePath(s) = [i \in DOMAIN s |-> step(s[i])]
  BY DEF SafePath
<1> HIDE DEF s, step
<1>7. SafePath(s) = s
  BY <1>1, <1>3, <1>6 DEF IsPath
<1> QED
  BY <1>1, <1>3, <1>4, <1>5, <1>7 DEF IsPath, s

(* The beginning of a path is a path.                                      *)
LEMMA PathPrefix ==
  ASSUME NEW path, IsPath(path), NEW n \in 0..Len(path)
  PROVE  /\ IsPath(SubSeq(path, 1, n)) /\ Len(SubSeq(path, 1, n)) = n
         /\ DOMAIN SubSeq(path, 1, n) = 1..n
         /\ \A i \in 1..n : SubSeq(path, 1, n)[i] = path[i]
         /\ n = Len(path) => SubSeq(path, 1, n) = path
         /\ SafePath(path) = path => SafePath(SubSeq(path, 1, n)) = SubSeq(path, 1, n)
<1> DEFINE q == SubSeq(path, 1, n)
<1>1. /\ IsSeq(path) /\ Len(path) \in Nat /\ DOMAIN path = 1..Len(path)
      /\ path \in Seq(Elements(path))
  BY SeqFacts DEF IsPath, IsSeq
<1>4. n \in Nat /\ n <= Len(path)
  BY <1>1
<1>2. Cut(path, n) = q
  <2>1. Len(path) \in Nat
    BY <1>1
  <2>2. (IF n < Len(path) THEN n ELSE Len(path)) = n
    BY <1>4, <2>1
  <2> QED
    BY <2>2 DEF Cut
<1>8. Len(q) = n
  BY <1>1, <1>4
<1> HIDE DEF q
<1>3. /\ IsSeq(q) /\ \A i \in DOMAIN q : q[i] = path[i]
      /\ Len(path) <= n => q = path
  BY <1>1, <1>4, <1>2, CutFacts
<1>5. DOMAIN q = 1..n /\ 1..n \subseteq DOMAIN path
  BY <1>1, <1>4, <1>3, <1>8, SeqFacts
<1>6. IsPath(q)
  BY <1>3, <1>5 DEF IsPath
<1>7. SafePath(path) = path => SafePath(q) = q
  <2> SUFFICES ASSUME SafePath(path) = path PROVE SafePath(q) = q
    OBVIOUS
  <2>1. \A i \in 1..n : SafePath(q)[i] = q[i]
    <3>1. \A i \in 1..n : SafePath(q)[i] = SafePath(path)[i]
      BY <1>3, <1>5 DEF SafePath
    <3> QED
      BY <1>3, <1>5, <3>1
  <2>2. IsSeq(SafePath(q)) /\ DOMAIN SafePath(q) = DOMAIN q
    BY <1>6, SafePathFacts DEF IsPath
  <2>3. /\ q = [i \in DOMAIN q |-> q[i]]
        /\ SafePath(q) = [i \in DOMAIN SafePath(q) |-> SafePath(q)[i]]
    BY <1>3, <2>2, SeqFacts
  <2> QED
    BY <1>5, <2>1, <2>2, <2>3
<1>9. n = Len(path) => q = path
  <2>1. Len(path) \in Nat /\ (Len(path) <= n => q = path)
    BY <1>1, <1>3
  <2> QED
    BY <2>1
<1> QED
  BY <1>3, <1>5, <1>6, <1>7, <1>8, <1>9 DEF q

(* The outermost hidden place is the least of them.                        *)
LEMMA OutermostFacts ==
  ASSUME NEW path, IsPath(path), Hidden(path) # {}
  PROVE  /\ Outermost(path) \in Hidden(path) /\ Outermost(path) \in 0..Len(path)
         /\ \A m \in Hidden(path) : Outermost(path) <= m
<1>1. Hidden(path) \subseteq 0..Len(path)
  BY DEF Hidden
<1>2. Hidden(path) \subseteq Nat
  BY <1>1
<1>3. \E n \in Hidden(path) : \A m \in Hidden(path) : n <= m
  BY <1>2, Least
<1> QED
  BY <1>1, <1>3 DEF Outermost

(* A redacted part matches no rule and stays as it is.                     *)
LEMMA PartRedacted ==
  ASSUME NEW p \in Parts
  PROVE  /\ RedactPart(p) \in Parts /\ ~Replaced(RedactPart(p))
         /\ RedactPart(RedactPart(p)) = RedactPart(p)
<1>1. RedactPart(p) \in Parts
  BY DEF RedactPart, Part, Parts, Shapes, Values, KeyForms
<1>2. ~Replaced(RedactPart(p))
  BY DEF RedactPart, Part, Replaced
<1> QED
  BY <1>1, <1>2 DEF RedactPart

(* The sentinel matches no rule.                                           *)
LEMMA SentinelFacts ==
  /\ IsSeq(Sentinel) /\ Elements(Sentinel) \subseteq Parts
  /\ \A i \in DOMAIN Sentinel : ~Replaced(Sentinel[i])
<1> DEFINE p == Part("prose", "approved", "word")
<1>1. p \in Parts /\ ~Replaced(p)
  BY DEF Part, Parts, Shapes, Values, KeyForms, Replaced
<1>2. Sentinel = <<p>>
  BY DEF Sentinel
<1> HIDE DEF p
<1> QED
  BY <1>1, <1>2, OneElement

(* Redacted parts stay as they are.                                        *)
LEMMA PartsRedacted ==
  ASSUME NEW parts, IsSeq(parts), Elements(parts) \subseteq Parts
  PROVE  /\ IsSeq(RedactParts(parts)) /\ Elements(RedactParts(parts)) \subseteq Parts
         /\ \A i \in DOMAIN RedactParts(parts) : ~Replaced(RedactParts(parts)[i])
         /\ RedactParts(RedactParts(parts)) = RedactParts(parts)
<1> DEFINE r == RedactParts(parts)
<1>1. /\ DOMAIN r = DOMAIN parts /\ r = [i \in DOMAIN r |-> r[i]]
      /\ \A i \in DOMAIN parts : r[i] = RedactPart(parts[i])
  BY DEF RedactParts
<1>2. RedactParts(r) = [i \in DOMAIN r |-> RedactPart(r[i])]
  BY DEF RedactParts
<1>3. \A i \in DOMAIN parts : parts[i] \in Parts
  BY DEF Elements
<1> HIDE DEF r
<1>4. \A i \in DOMAIN r : r[i] \in Parts /\ ~Replaced(r[i]) /\ RedactPart(r[i]) = r[i]
  BY <1>1, <1>3, PartRedacted
<1>5. IsSeq(r)
  BY <1>1, MappedSeq
<1>6. RedactParts(r) = r
  BY <1>1, <1>2, <1>4
<1> QED
  BY <1>4, <1>5, <1>6 DEF r, Elements

(* A leaf that was redacted.                                               *)
LEMMA LeafRedacted ==
  ASSUME NEW l, IsLeaf(l)
  PROVE  LET m == RedactLeaf(l)
         IN  /\ IsLeaf(m) /\ SafePath(m.path) = m.path
             /\ \A i \in DOMAIN m.parts : ~Replaced(m.parts[i])
<1> DEFINE m == RedactLeaf(l)
<1>1. IsPath(l.path) /\ IsSeq(l.parts) /\ Elements(l.parts) \subseteq Parts
  BY DEF IsLeaf, IsPath
<1>2. \A path, kind, parts :
        LET x == [path |-> path, kind |-> kind, parts |-> parts]
        IN  /\ IsPath(path) /\ IsSeq(parts) /\ Elements(parts) \subseteq Parts => IsLeaf(x)
            /\ x.path = path /\ x.parts = parts
  BY DEF IsLeaf, IsPath
<1>3. CASE Hidden(l.path) = {}
  <2> DEFINE p == SafePath(l.path)
             r == RedactParts(l.parts)
  <2>1. m = [path |-> p, kind |-> l.kind, parts |-> r]
    BY <1>3 DEF RedactLeaf
  <2>2. IsPath(p) /\ SafePath(p) = p
    BY <1>1, SafePathFacts
  <2>3. /\ IsSeq(r) /\ Elements(r) \subseteq Parts
        /\ \A i \in DOMAIN r : ~Replaced(r[i])
    BY <1>1, PartsRedacted
  <2> HIDE DEF m, p, r
  <2>4. IsLeaf(m) /\ m.path = p /\ m.parts = r
    BY <1>2, <2>1, <2>2, <2>3
  <2> QED
    BY <2>2, <2>3, <2>4 DEF m
<1>4. CASE Hidden(l.path) # {}
  <2> DEFINE q == SubSeq(l.path, 1, Outermost(l.path))
             p == SafePath(q)
  <2>1. m = [path |-> p, kind |-> "text", parts |-> Sentinel]
    BY <1>4 DEF RedactLeaf
  <2>2. IsPath(q)
    BY <1>1, <1>4, OutermostFacts, PathPrefix
  <2>3. IsPath(p) /\ SafePath(p) = p
    BY <2>2, SafePathFacts
  <2> HIDE DEF m, p
  <2>4. IsLeaf(m) /\ m.path = p /\ m.parts = Sentinel
    BY <1>2, <2>1, <2>3, SentinelFacts
  <2> QED
    BY <2>3, <2>4, SentinelFacts DEF m
<1> QED
  BY <1>3, <1>4

(* The outermost hidden text of a path is the whole path up to it.         *)
LEMMA OutermostStays ==
  ASSUME NEW path, IsPath(path), Hidden(path) # {}
  PROVE  LET q == SubSeq(path, 1, Outermost(path))
         IN  Hidden(q) # {} /\ Outermost(q) = Len(q)
<1> DEFINE n == Outermost(path)
           q == SubSeq(path, 1, n)
<1>1. /\ n \in Hidden(path) /\ n \in 0..Len(path) /\ Len(path) \in Nat
      /\ \A m \in Hidden(path) : n <= m
  BY OutermostFacts, SeqFacts DEF IsPath
<1> HIDE DEF n
<1>2. /\ IsPath(q) /\ Len(q) = n /\ DOMAIN q = 1..n
      /\ \A i \in 1..n : q[i] = path[i]
  BY <1>1, PathPrefix
<1> HIDE DEF q
<1>3. n \in Nat /\ n <= Len(path)
  BY <1>1
<1>4. ASSUME NEW k \in 0..n
      PROVE  Sensitive(q, k) <=> Sensitive(path, k)
  <2>1. 1..k \subseteq 1..n /\ \A i \in 1..k : i..k \subseteq 1..k
    BY <1>3
  <2>2. \A i \in 1..k : q[i] = path[i]
    BY <1>2, <2>1
  <2> QED
    BY <2>1, <2>2 DEF Sensitive
<1>5. Sensitive(path, n)
  BY <1>1 DEF Hidden
<1>6. n \in Hidden(q)
  BY <1>2, <1>3, <1>4, <1>5 DEF Hidden
<1>7. ASSUME NEW k \in Hidden(q) PROVE n <= k
  <2>1. k \in 0..n /\ Sensitive(q, k) /\ (k = n \/ q[k + 1] = Border)
    BY <1>2 DEF Hidden
  <2>2. CASE k = n
    BY <1>3, <2>2
  <2>3. CASE k # n
    <3>1. k + 1 \in 1..n /\ k \in 0..Len(path)
      BY <1>3, <2>1, <2>3
    <3>2. k \in Hidden(path)
      BY <1>2, <1>4, <2>1, <2>3, <3>1 DEF Hidden
    <3> QED
      BY <1>1, <3>2
  <2> QED
    BY <2>2, <2>3
<1>8. Outermost(q) = n
  <2>1. Outermost(q) \in Hidden(q) /\ Outermost(q) <= n /\ n <= Outermost(q)
    BY <1>2, <1>6, <1>7, OutermostFacts
  <2>2. Outermost(q) \in Nat
    BY <1>2, <1>3, <2>1 DEF Hidden
  <2> QED
    BY <1>3, <2>1, <2>2
<1> QED
  BY <1>2, <1>6, <1>8 DEF q, n

(* On a leaf whose keys are redacted another redaction settles everything. *)
LEMMA LeafStable ==
  ASSUME NEW l, IsLeaf(l), SafePath(l.path) = l.path
  PROVE  LET m == RedactLeaf(l)
         IN  /\ RedactLeaf(m) = m
             /\ m.kind = "text" \/ Hidden(m.path) = {}
<1> DEFINE m == RedactLeaf(l)
<1>1. IsPath(l.path) /\ IsSeq(l.parts) /\ Elements(l.parts) \subseteq Parts
  BY DEF IsLeaf, IsPath
<1>2. CASE Hidden(l.path) = {}
  <2> DEFINE r == RedactParts(l.parts)
  <2>1. m = [path |-> l.path, kind |-> l.kind, parts |-> r]
    BY <1>2 DEF RedactLeaf
  <2>2. m.path = l.path /\ m.kind = l.kind /\ m.parts = r
    BY <2>1
  <2>3. RedactParts(r) = r
    BY <1>1, PartsRedacted
  <2> HIDE DEF m, r
  <2>4. RedactLeaf(m) = [path |-> l.path, kind |-> l.kind, parts |-> r]
    BY <1>2, <2>2, <2>3 DEF RedactLeaf
  <2> QED
    BY <1>2, <2>1, <2>2, <2>4 DEF m
<1>3. CASE Hidden(l.path) # {}
  <2> DEFINE q == SubSeq(l.path, 1, Outermost(l.path))
  <2>1. IsPath(q) /\ SafePath(q) = q
    BY <1>1, <1>3, OutermostFacts, PathPrefix
  <2>2. Hidden(q) # {} /\ Outermost(q) = Len(q)
    BY <1>1, <1>3, OutermostStays
  <2>3. m = [path |-> SafePath(q), kind |-> "text", parts |-> Sentinel]
    BY <1>3 DEF RedactLeaf
  <2> HIDE DEF m, q
  <2>4. m.path = q /\ m.kind = "text"
    BY <2>1, <2>3
  <2>5. SubSeq(q, 1, Len(q)) = q
    <3>1. Len(q) \in 0..Len(q)
      BY <2>1, SeqFacts DEF IsPath
    <3> QED
      BY <2>1, <3>1, PathPrefix
  <2>6. RedactLeaf(m) = [path |-> SafePath(q), kind |-> "text", parts |-> Sentinel]
    BY <2>2, <2>4, <2>5 DEF RedactLeaf
  <2> QED
    BY <2>3, <2>4, <2>6 DEF m
<1> QED
  BY <1>2, <1>3

(* When the redaction of a value raises, and what it is otherwise.         *)
LEMMA RaisedWhen ==
  ASSUME NEW v, v # {}
  PROVE  /\ RedactJson(v) = Raised <=> Raises(v)
         /\ RedactJson(v) # Raised => RedactJson(v) = {RedactLeaf(l) : l \in v}
BY DEF RedactJson, Raised

(* A redaction of a redacted value is clean.                               *)
LEMMA RedactedTwice ==
  ASSUME NEW v, IsJson(v), RedactJson(v) # Raised,
         RedactJson(RedactJson(v)) # Raised
  PROVE  Clean(RedactJson(RedactJson(v)))
<1> DEFINE once == RedactJson(v)
           twice == RedactJson(once)
<1>1. v # {} /\ \A l \in v : IsLeaf(l)
  BY DEF IsJson
<1>2. once = {RedactLeaf(l) : l \in v}
  BY <1>1, RaisedWhen
<1> HIDE DEF once
<1>3. once # {} /\ \A m \in once : IsLeaf(m) /\ SafePath(m.path) = m.path
  BY <1>1, <1>2, LeafRedacted
<1>4. twice = {RedactLeaf(l) : l \in once}
  BY <1>3, RaisedWhen DEF once
<1> HIDE DEF twice
<1>5. \A m \in twice : /\ RedactLeaf(m) = m /\ SafePath(m.path) = m.path
                       /\ m.kind = "text" \/ Hidden(m.path) = {}
                       /\ \A i \in DOMAIN m.parts : ~Replaced(m.parts[i])
  <2>1. \A l \in once : LET m == RedactLeaf(l)
                        IN  RedactLeaf(m) = m /\ (m.kind = "text" \/ Hidden(m.path) = {})
    BY <1>3, LeafStable
  <2>2. \A l \in once : LET m == RedactLeaf(l)
                        IN  /\ SafePath(m.path) = m.path
                            /\ \A i \in DOMAIN m.parts : ~Replaced(m.parts[i])
    BY <1>3, LeafRedacted
  <2> QED
    BY <1>4, <2>1, <2>2
<1>6. \A l, m \in twice : ~Collide(l, m)
  BY <1>5 DEF Collide
<1>7. ~Raises(twice)
  BY <1>5, <1>6 DEF Raises, Keyed
<1>8. RedactJson(twice) = {RedactLeaf(m) : m \in twice}
  BY <1>7 DEF RedactJson
<1>9. RedactJson(twice) = twice
  BY <1>5, <1>8
<1>10. \A p \in PartsOf(twice) : ~Replaced(p)
  BY <1>5 DEF PartsOf
<1> QED
  BY <1>9, <1>10 DEF Clean, twice, once

-----------------------------------------------------------------------------
(* What the Issue shows.                                                   *)

(* The first k steps of a path have no key.                                *)
Unkeyed(path, k) == \A i \in 1..k : path[i].key = ""

(* Paths whose first steps are no keys.                                    *)
LEMMA FirstSteps ==
  ASSUME NEW path
  PROVE  /\ path[1].key = "" => Unkeyed(path, 1)
         /\ path[1].key = "" /\ path[2].key = "" => Unkeyed(path, 2)
         /\ path[1].key = "" /\ path[2].key = "" /\ path[3].key = "" => Unkeyed(path, 3)
<1>1. /\ \A i \in 1..1 : i = 1
      /\ \A i \in 1..2 : i = 1 \/ i = 2
      /\ \A i \in 1..3 : i = 1 \/ i = 2 \/ i = 3
  OBVIOUS
<1> QED
  BY <1>1, Zenon DEF Unkeyed

(* List positions and borders at the start of a path stay there, and no    *)
(* text under them is hidden.                                              *)
LEMMA StartStays ==
  ASSUME NEW l, IsLeaf(l), NEW k \in 0..Len(l.path), Unkeyed(l.path, k)
  PROVE  LET m == RedactLeaf(l)
         IN  /\ k \in 0..Len(m.path) /\ \A i \in 1..k : m.path[i] = l.path[i]
             /\ k = Len(l.path) =>
                  m = [path |-> l.path, kind |-> l.kind, parts |-> RedactParts(l.parts)]
<1> DEFINE m == RedactLeaf(l)
           path == l.path
<1>1. /\ IsPath(path) /\ Len(path) \in Nat /\ DOMAIN path = 1..Len(path)
      /\ path = [i \in DOMAIN path |-> path[i]]
  BY SeqFacts DEF IsLeaf, IsPath
<1>a. Len(path) \in Nat
  BY <1>1
<1>b. k \in 0..Len(path)
  OBVIOUS
<1> HIDE DEF path
<1>c. k \in Nat /\ k <= Len(path)
  BY <1>a, <1>b
<1>2. k \in Nat /\ k <= Len(path) /\ 1..k \subseteq 1..Len(path)
  BY <1>a, <1>c
<1>d. Unkeyed(path, k)
  BY DEF path
<1>3. "" \notin SensitiveKeys
  BY RedactionAssumption
<1>4. ASSUME NEW n \in Hidden(path) PROVE n \in 0..Len(path) /\ k < n
  <2>1. n \in 0..Len(path) /\ Sensitive(path, n)
    BY DEF Hidden
  <2>2. PICK i \in 1..n : path[i].key \in SensitiveKeys
    BY <2>1 DEF Sensitive
  <2>3. i \notin 1..k
    BY <1>3, <1>d, <2>2 DEF Unkeyed
  <2>4. n \in Nat /\ i \in Nat /\ 1 <= i /\ i <= n
    BY <1>a, <2>1, <2>2
  <2>5. k < i
    BY <1>c, <2>3, <2>4
  <2> QED
    BY <1>c, <2>1, <2>4, <2>5
<1>5. CASE Hidden(path) = {}
  <2> DEFINE p == SafePath(path)
             r == RedactParts(l.parts)
  <2>1. m = [path |-> p, kind |-> l.kind, parts |-> r]
    BY <1>5 DEF RedactLeaf, path
  <2>2. /\ Len(p) = Len(path) /\ DOMAIN p = DOMAIN path
        /\ \A i \in DOMAIN path : path[i].key = "" => p[i] = path[i]
        /\ IsPath(p)
    BY <1>1, SafePathFacts
  <2>3. p = [i \in DOMAIN p |-> p[i]]
    BY <2>2, SeqFacts DEF IsPath
  <2> HIDE DEF m, p, r
  <2>4. m.path = p
    BY <2>1
  <2>5. k = Len(path) => p = path
    <3>1. k = Len(path) => \A i \in DOMAIN path : p[i] = path[i]
      BY <1>1, <1>d, <2>2 DEF Unkeyed
    <3> QED
      BY <1>1, <2>2, <2>3, <3>1
  <2> QED
    <3>1. \A i \in 1..k : p[i] = path[i]
      BY <1>1, <1>2, <1>d, <2>2 DEF Unkeyed
    <3> QED
      BY <1>b, <2>1, <2>2, <2>4, <2>5, <3>1 DEF m, r, path
<1>6. CASE Hidden(path) # {}
  <2> DEFINE n == Outermost(path)
             q == SubSeq(path, 1, n)
             p == SafePath(q)
  <2>1. m = [path |-> p, kind |-> "text", parts |-> Sentinel]
    BY <1>6 DEF RedactLeaf, path
  <2>2. n \in 0..Len(path) /\ k < n
    BY <1>1, <1>4, <1>6, OutermostFacts
  <2> HIDE DEF n
  <2>3. /\ IsPath(q) /\ Len(q) = n /\ DOMAIN q = 1..n
        /\ \A i \in 1..n : q[i] = path[i]
    BY <1>1, <2>2, PathPrefix
  <2> HIDE DEF q
  <2>4. /\ Len(p) = n /\ \A i \in 1..n : q[i].key = "" => p[i] = q[i]
    BY <2>3, SafePathFacts
  <2> HIDE DEF m, p
  <2>5. m.path = p
    BY <2>1
  <2>6. k \in 0..n /\ 1..k \subseteq 1..n /\ k # Len(path)
    <3>1. n \in Nat /\ n <= Len(path) /\ k < n
      BY <1>a, <2>2
    <3> QED
      BY <1>a, <1>c, <3>1
  <2>7. \A i \in 1..k : p[i] = path[i]
    BY <1>d, <2>3, <2>4, <2>6 DEF Unkeyed
  <2> QED
    BY <2>4, <2>5, <2>6, <2>7 DEF m, path
<1> QED
  BY <1>5, <1>6

(* An assignment or query credential of one word: its sentinel is escaped  *)
(* in an Issue and taken for a credential again, or something follows it.  *)
Unshowable(p) ==
  /\ p.shape \in {"query", "assignment"} /\ p.key = "word"
  /\ p.value \notin {"plain", "surrogate"}

(* A part redacted twice and escaped is refused exactly for these.         *)
LEMMA EscapedPart ==
  ASSUME NEW p \in Parts
  PROVE  LET q == EscapePart(RedactPart(RedactPart(p)))
         IN  (Replaced(q) \/ q.shape = "marker") <=> Unshowable(p)
<1> DEFINE q == RedactPart(p)
<1>1. RedactPart(q) = q /\ ~Replaced(q) /\ q \in Parts
  BY PartRedacted
<1>2. /\ q.shape \in Shapes /\ q.value \in Values /\ q.key \in KeyForms
      /\ p.shape \in Shapes /\ p.value \in Values /\ p.key \in KeyForms
  BY <1>1 DEF Parts
<1>3. Replaced(EscapePart(q)) <=>
        /\ q.shape \in {"query", "assignment"} /\ q.key = "word"
        /\ q.value \in {"approved", "open"}
  <2> HIDE DEF q
  <2>1. /\ EscapePart(q).shape = IF q.shape = "marker" THEN "prose" ELSE q.shape
        /\ q.value \in {"approved", "unapproved"} => EscapePart(q).value = "escaped"
        /\ q.value = "open" => EscapePart(q).value = "followed"
        /\ q.value \notin {"approved", "unapproved", "open"} =>
             EscapePart(q).value = q.value
        /\ EscapePart(q).key = IF q.key = "pair" THEN "split" ELSE q.key
    BY DEF EscapePart
  <2> QED
    BY <1>1, <1>2, <2>1 DEF Replaced, Values, KeyForms, Shapes
<1>4. EscapePart(q).shape # "marker"
  BY DEF EscapePart
<1>5. (/\ q.shape \in {"query", "assignment"} /\ q.key = "word"
       /\ q.value \in {"approved", "open"}) <=> Unshowable(p)
  BY <1>2 DEF RedactPart, Part, Replaced, Unshowable, Values, KeyForms, Shapes
<1> HIDE DEF q
<1> QED
  BY <1>1, <1>3, <1>4, <1>5 DEF q

(* The texts that an Issue shows of a bundle of five values.               *)
LEMMA ShownParts ==
  ASSUME NEW texts, IsSeq(texts), \A i \in DOMAIN texts : IsText(texts[i]),
         NEW n \in Nat,
         NEW l, l \in Within(Item(n), List(texts)),
         NEW m, m = RedactLeaf(RedactLeaf(l)),
         \A i \in DOMAIN m.path : m.path[i] # Border
  PROVE  \A i \in DOMAIN m.parts :
           \E t \in Elements(texts) : \E y \in t :
             /\ y.path = <<>>
             /\ \E p \in Elements(y.parts) : m.parts[i] = RedactPart(RedactPart(p))
<1>1. PICK x \in List(texts) : l = [x EXCEPT !.path = <<Item(n)>> \o @]
  BY DEF Within
<1>2. IsJson(List(texts)) /\ IsLeaf(x) /\ IsSeq(x.path) /\ DOMAIN x = {"path", "kind", "parts"}
  BY ListJson DEF IsText, IsJson, IsLeaf
<1>3. l.path = <<Item(n)>> \o x.path /\ l.parts = x.parts
  BY <1>1, <1>2
<1>4. IsLeaf(l)
  <2>1. IsStep(Item(n))
    BY DEF IsStep, Item
  <2> QED
    BY <1>2, <2>1, WithinJson DEF IsJson
<1>5. Item(n).key = "" /\ Border.key = "" /\ \A k : Item(k).key = ""
  BY DEF Item, Border
<1>6. CASE texts = <<>>
  <2>1. x = Leaf("empty", <<>>)
    BY <1>6 DEF List, Empty
  <2>2. x.path = <<>> /\ x.parts = <<>>
    BY <2>1 DEF Leaf
  <2>3. l.parts = <<>>
    BY <1>3, <2>2
  <2>4. Len(l.path) = 1 /\ l.path[1] = Item(n)
    BY <1>3, <2>2, NoElements, HeadFirst
  <2>5. RedactLeaf(l) = [path |-> l.path, kind |-> l.kind, parts |-> RedactParts(l.parts)]
    <3>a. Unkeyed(l.path, 1)
      BY <1>5, <2>4, FirstSteps
    <3>1. 1 \in 0..Len(l.path) /\ Unkeyed(l.path, 1)
      BY <2>4, <3>a
    <3> QED
      BY <1>4, <2>4, <3>1, StartStays
  <2> DEFINE o == RedactLeaf(l)
  <2>6. o.path = l.path /\ o.parts = RedactParts(l.parts)
    BY <2>5
  <2>7. IsLeaf(o)
    BY <1>4, LeafRedacted
  <2> HIDE DEF o
  <2>8. RedactLeaf(o) = [path |-> o.path, kind |-> o.kind, parts |-> RedactParts(o.parts)]
    <3>a. Unkeyed(o.path, 1)
      BY <1>5, <2>4, <2>6, FirstSteps
    <3>1. 1 \in 0..Len(o.path) /\ Unkeyed(o.path, 1)
      BY <2>4, <2>6, <3>a
    <3> QED
      BY <2>4, <2>6, <2>7, <3>1, StartStays
  <2>9. m.parts = RedactParts(RedactParts(<<>>))
    BY <2>3, <2>6, <2>8 DEF o
  <2> QED
    BY <2>9, NoElements DEF RedactParts
<1>7. CASE texts # <<>>
  <2>1. List(texts) = UNION {Within(Item(i), texts[i]) : i \in DOMAIN texts}
    BY <1>7 DEF List
  <2>2. PICK j \in DOMAIN texts : x \in Within(Item(j), texts[j])
    BY <2>1
  <2>3. PICK y \in texts[j] : x = [y EXCEPT !.path = <<Item(j)>> \o @]
    BY <2>2 DEF Within
  <2>4. /\ IsLeaf(y) /\ IsSeq(y.path) /\ DOMAIN y = {"path", "kind", "parts"}
        /\ y.path = <<>> \/ y.path[1] = Border
    BY <2>3 DEF IsText, IsJson, IsLeaf
  <2>5. x.path = <<Item(j)>> \o y.path /\ x.parts = y.parts
    BY <2>3, <2>4
  <2>6. /\ Len(x.path) = 1 + Len(y.path) /\ x.path[1] = Item(j)
        /\ \A i \in 1..Len(y.path) : x.path[1 + i] = y.path[i]
    BY <2>4, <2>5, HeadFirst
  <2>7. /\ Len(l.path) = 1 + Len(x.path) /\ l.path[1] = Item(n)
        /\ \A i \in 1..Len(x.path) : l.path[1 + i] = x.path[i]
    BY <1>2, <1>3, HeadFirst
  <2>8. Len(y.path) \in Nat /\ DOMAIN y.path = 1..Len(y.path)
    BY <2>4, SeqFacts
  <2> DEFINE o == RedactLeaf(l)
  <2>9. IsLeaf(o) /\ IsSeq(o.path) /\ m = RedactLeaf(o) /\ IsLeaf(m) /\ IsSeq(m.path)
    BY <1>4, LeafRedacted DEF IsLeaf
  <2>10. CASE y.path # <<>>
    <3>1. Len(y.path) # 0
      BY <2>4, <2>10, EmptyWhole
    <3>0. Len(y.path) \in Nat /\ Len(y.path) >= 1 /\ Len(l.path) = 2 + Len(y.path)
      BY <2>6, <2>7, <2>8, <3>1
    <3>2. 3 \in 0..Len(l.path) /\ l.path[3] = Border
      <4>1. 1 \in 1..Len(y.path) /\ 2 \in 1..Len(x.path)
        BY <2>6, <3>0
      <4>2. l.path[1 + 2] = x.path[2] /\ x.path[1 + 1] = y.path[1]
        BY <2>6, <2>7, <4>1
      <4> QED
        BY <2>4, <2>10, <3>0, <4>2
    <3>3. l.path[2] = Item(j)
      <4>1. 1 \in 1..Len(x.path) /\ 1 + 1 = 2
        BY <2>6, <3>0
      <4> QED
        BY <2>6, <2>7, <4>1
    <3>4. Unkeyed(l.path, 3)
      BY <1>5, <2>7, <3>2, <3>3, FirstSteps
    <3>5. 3 \in 0..Len(o.path) /\ \A i \in 1..3 : o.path[i] = l.path[i]
      BY <1>4, <3>2, <3>4, StartStays
    <3> HIDE DEF o
    <3>6. 3 \in 0..Len(m.path) /\ \A i \in 1..3 : m.path[i] = o.path[i]
      <4>1. Unkeyed(o.path, 3)
        BY <3>4, <3>5 DEF Unkeyed
      <4> QED
        BY <2>9, <3>5, <4>1, StartStays
    <3>7. 3 \in DOMAIN m.path /\ m.path[3] = Border
      BY <2>9, <3>2, <3>5, <3>6, SeqFacts
    <3> QED
      BY <3>7
  <2>11. CASE y.path = <<>>
    <3>1. Len(l.path) = 2 /\ l.path[2] = Item(j)
      <4>1. Len(x.path) = 1 /\ Len(l.path) = 2
        BY <2>6, <2>7, <2>11, NoElements
      <4>2. 1 \in 1..Len(x.path) /\ 1 + 1 = 2
        BY <4>1
      <4> QED
        BY <2>6, <2>7, <4>1, <4>2
    <3>2. Unkeyed(l.path, 2)
      BY <1>5, <2>7, <3>1, FirstSteps
    <3>3. o = [path |-> l.path, kind |-> l.kind, parts |-> RedactParts(l.parts)]
      <4>1. 2 \in 0..Len(l.path)
        BY <3>1
      <4> QED
        BY <1>4, <3>1, <3>2, <4>1, StartStays
    <3>4. o.path = l.path /\ o.parts = RedactParts(l.parts)
      BY <3>3
    <3> HIDE DEF o
    <3>5. m = [path |-> o.path, kind |-> o.kind, parts |-> RedactParts(o.parts)]
      <4>1. 2 \in 0..Len(o.path) /\ Unkeyed(o.path, 2)
        BY <3>1, <3>2, <3>4
      <4> QED
        BY <2>9, <3>1, <3>4, <4>1, StartStays
    <3>6. m.parts = RedactParts(RedactParts(y.parts))
      BY <1>3, <2>5, <3>4, <3>5
    <3>7. \A i \in DOMAIN m.parts : /\ i \in DOMAIN y.parts
                                    /\ m.parts[i] = RedactPart(RedactPart(y.parts[i]))
      BY <3>6 DEF RedactParts
    <3>8. texts[j] \in Elements(texts)
      BY DEF Elements
    <3> QED
      BY <2>3, <2>11, <3>7, <3>8 DEF Elements
  <2> QED
    BY <2>10, <2>11
<1> QED
  BY <1>6, <1>7

(* A text of the Issue is shown after two redactions.                      *)
LEMMA TextShown ==
  ASSUME NEW texts, IsSeq(texts), \A i \in DOMAIN texts : IsText(texts[i]),
         NEW n \in Nat \ {0}, NEW k \in DOMAIN texts,
         NEW y \in texts[k], y.path = <<>>
  PROVE  \E l \in Within(Item(n), List(texts)) :
           LET m == RedactLeaf(RedactLeaf(l))
           IN  m = [path |-> <<Item(n), Item(k)>>, kind |-> y.kind,
                    parts |-> RedactParts(RedactParts(y.parts))]
<1> DEFINE x == [y EXCEPT !.path = <<Item(k)>> \o @]
           l == [x EXCEPT !.path = <<Item(n)>> \o @]
           o == RedactLeaf(l)
           m == RedactLeaf(o)
<1>1. IsLeaf(y) /\ IsSeq(y.path) /\ DOMAIN y = {"path", "kind", "parts"}
  BY DEF IsText, IsJson, IsLeaf
<1>2. /\ x.path = <<Item(k)>> \o y.path /\ x.parts = y.parts /\ DOMAIN x = DOMAIN y
      /\ x.kind = y.kind
  BY <1>1
<1>3. x \in List(texts)
  <2>1. texts # <<>>
    BY NoElements
  <2>2. List(texts) = UNION {Within(Item(i), texts[i]) : i \in DOMAIN texts}
    BY <2>1 DEF List
  <2>3. x \in Within(Item(k), texts[k])
    BY DEF Within
  <2> HIDE DEF x
  <2> QED
    BY <2>2, <2>3
<1> HIDE DEF x
<1>4. l.path = <<Item(n)>> \o x.path /\ l.parts = x.parts /\ l.kind = x.kind
  BY <1>1, <1>2
<1>5. l \in Within(Item(n), List(texts))
  BY <1>3 DEF Within
<1>6. IsLeaf(l)
  <2>1. IsJson(List(texts)) /\ IsStep(Item(n))
    BY ListJson DEF IsText, IsStep, Item
  <2> QED
    BY <1>5, <2>1, WithinJson DEF IsJson
<1>7. Item(n).key = "" /\ Item(k).key = ""
  BY DEF Item
<1>8. /\ IsSeq(x.path) /\ Len(x.path) = 1 /\ x.path[1] = Item(k)
  <2>1. /\ IsSeq(<<Item(k)>> \o <<>>) /\ Len(<<Item(k)>> \o <<>>) = 1
        /\ (<<Item(k)>> \o <<>>)[1] = Item(k)
    BY OneElement, NoElements, Joined
  <2> QED
    BY <1>2, <2>1
<1> HIDE DEF l
<1>9. /\ IsSeq(l.path) /\ Len(l.path) = 2 /\ l.path[1] = Item(n) /\ l.path[2] = Item(k)
  <2>1. /\ IsSeq(l.path) /\ Len(l.path) = 1 + Len(x.path) /\ l.path[1] = Item(n)
        /\ \A i \in 1..Len(x.path) : l.path[1 + i] = x.path[i]
    <3> DEFINE rest == x.path
    <3>1. IsSeq(rest) /\ l.path = <<Item(n)>> \o rest
      BY <1>4, <1>8
    <3> HIDE DEF rest
    <3>2. /\ IsSeq(l.path) /\ Len(l.path) = 1 + Len(rest) /\ l.path[1] = Item(n)
          /\ \A i \in 1..Len(rest) : l.path[1 + i] = rest[i]
      BY <3>1, HeadFirst
    <3> QED
      BY <3>2 DEF rest
  <2> QED
    BY <1>8, <2>1
<1>10. Unkeyed(l.path, 2) /\ 2 \in 0..Len(l.path) /\ 2 = Len(l.path)
  <2>1. Unkeyed(l.path, 2)
    BY <1>7, <1>9, FirstSteps
  <2> QED
    BY <1>9, <2>1
<1>11. o = [path |-> l.path, kind |-> l.kind, parts |-> RedactParts(l.parts)]
  BY <1>6, <1>10, StartStays
<1>12. /\ o.path = l.path /\ o.parts = RedactParts(l.parts) /\ IsLeaf(o)
       /\ o.kind = l.kind
  <2>1. IsLeaf(o)
    BY <1>6, LeafRedacted
  <2> HIDE DEF o
  <2> QED
    BY <1>11, <2>1
<1> HIDE DEF o
<1>13. m = [path |-> o.path, kind |-> o.kind, parts |-> RedactParts(o.parts)]
  BY <1>10, <1>12, StartStays
<1>14. l.path = <<Item(n), Item(k)>>
  <2>1. /\ DOMAIN l.path = 1..2 /\ l.path = [i \in DOMAIN l.path |-> l.path[i]]
    BY <1>9, SeqFacts
  <2>2. l.path = [i \in 1..2 |-> IF i = 1 THEN Item(n) ELSE Item(k)]
    BY <1>9, <2>1
  <2>3. <<Item(n), Item(k)>> = [i \in 1..2 |-> IF i = 1 THEN Item(n) ELSE Item(k)]
    OBVIOUS
  <2> QED
    BY <2>2, <2>3
<1>15. m = [path |-> <<Item(n), Item(k)>>, kind |-> y.kind,
            parts |-> RedactParts(RedactParts(y.parts))]
  BY <1>2, <1>4, <1>12, <1>13, <1>14
<1> QED
  BY <1>5, <1>15 DEF m, o

(* Every part of a clean Markdown is one that the validator lets through.  *)
LEMMA MarkdownParts ==
  ASSUME NEW issue
  PROVE  CleanMarkdown(issue) <=>
           \A k \in issue : \A i \in DOMAIN k.parts :
             ~Replaced(k.parts[i]) /\ k.parts[i].shape # "marker"
<1>1. ASSUME CleanMarkdown(issue), NEW k \in issue, NEW i \in DOMAIN k.parts
      PROVE  ~Replaced(k.parts[i]) /\ k.parts[i].shape # "marker"
  <2>1. k.parts[i] \in PartsOf(issue)
    BY DEF PartsOf
  <2> QED
    BY <1>1, <2>1 DEF CleanMarkdown
<1>2. ASSUME \A k \in issue : \A i \in DOMAIN k.parts :
               ~Replaced(k.parts[i]) /\ k.parts[i].shape # "marker"
      PROVE  CleanMarkdown(issue)
  <2>1. \A p \in PartsOf(issue) : \E k \in issue : \E i \in DOMAIN k.parts : p = k.parts[i]
    BY DEF PartsOf
  <2> QED
    BY <1>2, <2>1 DEF CleanMarkdown
<1> QED
  BY <1>1, <1>2

(* The Issue of a bundle is what its last two values make it.              *)
LEMMA IssueRefused ==
  ASSUME NEW a, NEW b, NEW c, IsJson(a), IsJson(b), IsJson(c), NEW facts, IsSeq(facts), NEW missing, IsSeq(missing),
         \A i \in DOMAIN facts : IsText(facts[i]),
         \A i \in DOMAIN missing : IsText(missing[i]),
         NEW v, v = List(<<a, b, c, List(facts), List(missing)>>),
         NEW twice, twice = {RedactLeaf(RedactLeaf(l)) : l \in v},
         \A l \in twice : ~Unsettled(l)
  PROVE  CleanMarkdown(IssueOf(twice)) <=>
           ~\E t \in Elements(facts) \cup Elements(missing) : \E l \in t :
              l.path = <<>> /\ \E p \in Elements(l.parts) : Unshowable(p)
<1> DEFINE vs == <<a, b, c, List(facts), List(missing)>>
           Clash(ts) == \E t \in ts : \E l \in t :
                          l.path = <<>> /\ \E p \in Elements(l.parts) : Unshowable(p)
<1>1. v = UNION {Within(Item(i), vs[i]) : i \in 1..5}
  <2>1. vs # <<>> /\ DOMAIN vs = 1..5
    BY NoElements
  <2> HIDE DEF vs
  <2>2. v = List(vs)
    BY DEF vs
  <2> QED
    BY <2>1, <2>2 DEF List
<1>2. vs[4] = List(facts) /\ vs[5] = List(missing)
  OBVIOUS
<1>0. \A i \in 1..5 : IsJson(vs[i])
  <2>1. IsJson(List(facts)) /\ IsJson(List(missing))
    BY ListJson DEF IsText
  <2>2. \A i \in 1..5 : vs[i] \in {a, b, c, List(facts), List(missing)}
    OBVIOUS
  <2> QED
    BY <2>1, <2>2
<1> HIDE DEF vs
<1>3. \A l \in v : IsLeaf(l)
  <2>1. \A i \in 1..5 : IsStep(Item(i))
    BY DEF IsStep, Item
  <2> QED
    BY <1>0, <1>1, <2>1, WithinJson DEF IsJson
<1>4. CleanMarkdown(IssueOf(twice)) <=>
        \A m \in twice : ShownInIssue(m) =>
          \A i \in DOMAIN m.parts :
            LET q == EscapePart(m.parts[i]) IN ~Replaced(q) /\ q.shape # "marker"
  <2>1. \A m \in twice : "parts" \in DOMAIN m
    BY DEF RedactLeaf
  <2> DEFINE inIssue(m) == [m EXCEPT !.parts = SafeInline(@)]
  <2>2. \A m \in twice : inIssue(m).parts = SafeInline(m.parts)
    BY <2>1
  <2>3. \A m \in twice : /\ DOMAIN inIssue(m).parts = DOMAIN m.parts
                         /\ \A i \in DOMAIN m.parts :
                              inIssue(m).parts[i] = EscapePart(m.parts[i])
    BY <2>2 DEF SafeInline
  <2>4. IssueOf(twice) = {inIssue(m) : m \in {l \in twice : ShownInIssue(l)}}
    BY DEF IssueOf
  <2> HIDE DEF inIssue
  <2>5. CleanMarkdown(IssueOf(twice)) <=>
          \A k \in IssueOf(twice) : \A i \in DOMAIN k.parts :
            ~Replaced(k.parts[i]) /\ k.parts[i].shape # "marker"
    BY MarkdownParts
  <2>6. (\A k \in IssueOf(twice) : \A i \in DOMAIN k.parts :
           ~Replaced(k.parts[i]) /\ k.parts[i].shape # "marker")
        <=> \A m \in twice : ShownInIssue(m) => \A i \in DOMAIN inIssue(m).parts :
              LET q == inIssue(m).parts[i] IN ~Replaced(q) /\ q.shape # "marker"
    BY <2>4
  <2> QED
    BY <2>3, <2>5, <2>6
<1>5. \A n, k \in Nat : Item(n) = Item(k) => n = k
  BY DEF Item
<1>6. ASSUME NEW texts, IsSeq(texts), \A i \in DOMAIN texts : IsText(texts[i]),
             NEW n \in {4, 5}, vs[n] = List(texts), Clash(Elements(texts))
      PROVE  ~CleanMarkdown(IssueOf(twice))
  <2>1. PICK k \in DOMAIN texts : \E y \in texts[k] :
               y.path = <<>> /\ \E p \in Elements(y.parts) : Unshowable(p)
    BY <1>6 DEF Elements
  <2>2. PICK y \in texts[k] : y.path = <<>> /\ \E p \in Elements(y.parts) : Unshowable(p)
    BY <2>1
  <2>3. PICK i \in DOMAIN y.parts : Unshowable(y.parts[i])
    BY <2>2 DEF Elements
  <2>4. y.parts[i] \in Parts
    BY <1>6, <2>2 DEF IsText, IsJson, IsLeaf, Elements
  <2>5. PICK l \in Within(Item(n), List(texts)) :
          RedactLeaf(RedactLeaf(l)) =
            [path |-> <<Item(n), Item(k)>>, kind |-> y.kind,
             parts |-> RedactParts(RedactParts(y.parts))]
    <3>1. n \in Nat \ {0}
      OBVIOUS
    <3> QED
      BY <1>6, <2>2, <3>1, TextShown
  <2> DEFINE m == RedactLeaf(RedactLeaf(l))
  <2>6. m \in twice
    BY <1>1, <1>6, <2>5
  <2>7. m.path[1] = Item(n) /\ m.parts = RedactParts(RedactParts(y.parts))
    BY <2>5
  <2> HIDE DEF m
  <2>8. ShownInIssue(m)
    BY <2>7 DEF ShownInIssue
  <2>9. i \in DOMAIN m.parts /\ m.parts[i] = RedactPart(RedactPart(y.parts[i]))
    BY <2>7 DEF RedactParts
  <2>10. LET q == EscapePart(m.parts[i]) IN Replaced(q) \/ q.shape = "marker"
    BY <2>3, <2>4, <2>9, EscapedPart
  <2> QED
    BY <1>4, <2>6, <2>8, <2>9, <2>10
<1>7. ASSUME ~CleanMarkdown(IssueOf(twice))
      PROVE  Clash(Elements(facts) \cup Elements(missing))
  <2>1. PICK m \in twice : /\ ShownInIssue(m)
                           /\ \E i \in DOMAIN m.parts :
                                LET q == EscapePart(m.parts[i])
                                IN  Replaced(q) \/ q.shape = "marker"
    BY <1>4, <1>7
  <2>2. PICK i \in DOMAIN m.parts :
          LET q == EscapePart(m.parts[i]) IN Replaced(q) \/ q.shape = "marker"
    BY <2>1
  <2>3. ShownInIssue(m) /\ \A j \in DOMAIN m.path : m.path[j] # Border
    BY <2>1 DEF Unsettled
  <2>4. i \in DOMAIN m.parts
    OBVIOUS
  <2>5. PICK l \in v : m = RedactLeaf(RedactLeaf(l))
    OBVIOUS
  <2>6. PICK n \in 1..5 : l \in Within(Item(n), vs[n])
    BY <1>1
  <2>7. PICK x \in vs[n] : l = [x EXCEPT !.path = <<Item(n)>> \o @]
    BY <2>6 DEF Within
  <2>8. 1 \in 0..Len(l.path) /\ Unkeyed(l.path, 1) /\ l.path[1] = Item(n)
    <3>1. IsLeaf(l)
      BY <1>3
    <3>2. IsSeq(x.path) /\ l.path = <<Item(n)>> \o x.path
      BY <1>0, <2>7 DEF IsJson, IsLeaf
    <3>3. Len(x.path) \in Nat /\ Len(l.path) = 1 + Len(x.path) /\ l.path[1] = Item(n)
      BY <3>2, HeadFirst
    <3>4. Item(n).key = ""
      BY DEF Item
    <3>5. Unkeyed(l.path, 1)
      BY <3>3, <3>4, FirstSteps
    <3> QED
      BY <3>3, <3>5
  <2> DEFINE o == RedactLeaf(l)
  <2>9. /\ IsLeaf(o) /\ 1 \in 0..Len(o.path) /\ Unkeyed(o.path, 1) /\ o.path[1] = Item(n)
    <3>1. IsLeaf(l)
      BY <1>3
    <3>2. 1 \in 0..Len(o.path) /\ \A j \in 1..1 : o.path[j] = l.path[j]
      BY <2>8, <3>1, StartStays
    <3>3. IsLeaf(o)
      BY <3>1, LeafRedacted
    <3> HIDE DEF o
    <3>4. Item(n).key = ""
      BY DEF Item
    <3> QED
      <4>1. o.path[1] = Item(n)
        BY <2>8, <3>2
      <4>2. Unkeyed(o.path, 1)
        BY <3>4, <4>1, FirstSteps
      <4> QED
        BY <3>2, <3>3, <4>1, <4>2
  <2>10. m = RedactLeaf(o)
    BY <2>5
  <2> HIDE DEF o
  <2>11. m.path[1] = Item(n)
    BY <2>9, <2>10, StartStays
  <2>12. n \in {4, 5}
    BY <1>5, <2>3, <2>11 DEF ShownInIssue
  <2>13. ASSUME NEW texts, IsSeq(texts), \A j \in DOMAIN texts : IsText(texts[j]),
                vs[n] = List(texts)
         PROVE  Clash(Elements(texts))
    <3>1. \E t \in Elements(texts) : \E y \in t :
             /\ y.path = <<>>
             /\ \E p \in Elements(y.parts) : m.parts[i] = RedactPart(RedactPart(p))
      <4>1. l \in Within(Item(n), List(texts))
        BY <2>6, <2>13
      <4>2. \A j \in DOMAIN m.path : m.path[j] # Border
        BY <2>3
      <4> QED
        BY <2>4, <2>5, <2>13, <4>1, <4>2, ShownParts
    <3>2. PICK t \in Elements(texts) : \E y \in t :
             /\ y.path = <<>>
             /\ \E p \in Elements(y.parts) : m.parts[i] = RedactPart(RedactPart(p))
      BY <3>1
    <3>3. PICK y \in t : /\ y.path = <<>>
                         /\ \E p \in Elements(y.parts) :
                              m.parts[i] = RedactPart(RedactPart(p))
      BY <3>2
    <3>4. PICK p \in Elements(y.parts) : m.parts[i] = RedactPart(RedactPart(p))
      BY <3>3
    <3>5. p \in Parts
      BY <2>13 DEF Elements, IsText, IsJson, IsLeaf
    <3>6. Unshowable(p)
      BY <2>2, <2>4, <3>4, <3>5, EscapedPart
    <3> QED
      BY <3>3, <3>6
  <2>14. Clash(Elements(facts)) \/ Clash(Elements(missing))
    BY <1>2, <2>12, <2>13
  <2> QED
    BY <2>14
<1> QED
  BY <1>2, <1>6, <1>7

-----------------------------------------------------------------------------
(* Citations.                                                              *)

Numbered(rows) == \A i, j \in DOMAIN rows : rows[i].id = rows[j].id => i = j

(* Rows whose IDs differ have as many IDs.                                 *)
LEMMA NumberedIds ==
  ASSUME NEW rows, IsSeq(rows), Numbered(rows)
  PROVE  Cardinality(IdsOf(rows)) = Len(rows)
<1> DEFINE D == DOMAIN rows
           T == IdsOf(rows)
           f == [i \in D |-> rows[i].id]
<1>1. IsFiniteSet(D) /\ Cardinality(D) = Len(rows)
  BY SeqFacts
<1>2. T = {rows[i].id : i \in D}
  BY DEF IdsOf
<1> HIDE DEF T
<1>3. f \in [D -> T] /\ \A t \in T : \E s \in D : f[s] = t
  BY <1>2
<1>4. f \in Surjection(D, T)
  BY <1>3 DEF Surjection
<1>5. f \in Injection(D, T)
  <2>1. \A i, j \in D : f[i] = f[j] => i = j
    BY DEF Numbered
  <2>2. DOMAIN f = D
    OBVIOUS
  <2> HIDE DEF f, D
  <2> QED
    BY <1>3, <2>1, <2>2 DEF Injection, IsInjective
<1> HIDE DEF f, D
<1>6. Cardinality(T) = Cardinality(D)
  BY <1>1, <1>4, <1>5, FS_Surjection
<1> QED
  BY <1>1, <1>6 DEF T

(* Two numbered lists that share no ID, joined.                            *)
LEMMA NumberedJoined ==
  ASSUME NEW s, IsSeq(s), Numbered(s), NEW t, IsSeq(t), Numbered(t),
         \A x \in Elements(s) : \A y \in Elements(t) : x.id # y.id
  PROVE  Numbered(s \o t)
<1> DEFINE st == s \o t
<1>1. /\ Len(s) \in Nat /\ DOMAIN st \subseteq Nat
      /\ \A i \in DOMAIN st :
           \/ i \in DOMAIN s /\ st[i] = s[i]
           \/ i - Len(s) \in DOMAIN t /\ st[i] = t[i - Len(s)]
      /\ \A i \in DOMAIN s : s[i] \in Elements(s)
      /\ \A i \in DOMAIN t : t[i] \in Elements(t)
  BY JoinedPlaces
<1> HIDE DEF st
<1>2. ASSUME NEW i \in DOMAIN st, NEW j \in DOMAIN st, st[i].id = st[j].id
      PROVE  i = j
  <2>1. CASE i \in DOMAIN s /\ st[i] = s[i] /\ j \in DOMAIN s /\ st[j] = s[j]
    BY <1>2, <2>1 DEF Numbered
  <2>2. CASE /\ i - Len(s) \in DOMAIN t /\ st[i] = t[i - Len(s)]
             /\ j - Len(s) \in DOMAIN t /\ st[j] = t[j - Len(s)]
    <3>1. i - Len(s) = j - Len(s)
      BY <1>2, <2>2 DEF Numbered
    <3> QED
      BY <1>1, <3>1
  <2> QED
    BY <1>1, <1>2, <2>1, <2>2
<1> QED
  BY <1>2 DEF Numbered, st

(* Rows numbered under their Tool and request, whose keys differ.          *)
NumberedBy(tools, tool, key) ==
  /\ \A i, j \in DOMAIN tools : key[i] = key[j] => i = j
  /\ \A i \in DOMAIN tools :
       /\ IsSeq(tools[i].evidence)
       /\ \A k \in DOMAIN tools[i].evidence :
            tools[i].evidence[k].id = <<tool[i], key[i], k>>

(* The Evidence of the Snapshot is numbered "E", that of a Tool under its  *)
(* request.                                                                *)
LEMMA AllNumbered ==
  ASSUME IsSeq(snapshot), \A n \in DOMAIN snapshot : snapshot[n].id = <<"E", n>>,
         NEW tools, IsSeq(tools), NEW tool, NEW key, NumberedBy(tools, tool, key)
  PROVE  IsSeq(AllRows(tools)) /\ Numbered(AllRows(tools))
<1> DEFINE lists == [i \in DOMAIN tools |-> tools[i].evidence]
           All == UNION {Elements(lists[i]) : i \in DOMAIN lists}
           flat == FlattenSeq(lists)
           R == {p \in All \X All : p[1].id # p[2].id}
<1>1. /\ DOMAIN lists = DOMAIN tools /\ lists = [i \in DOMAIN lists |-> lists[i]]
      /\ \A i \in DOMAIN lists : lists[i] = tools[i].evidence
  OBVIOUS
<1>a. /\ \A i, j \in DOMAIN tools : key[i] = key[j] => i = j
      /\ \A i \in DOMAIN tools :
           /\ IsSeq(tools[i].evidence)
           /\ \A k \in DOMAIN tools[i].evidence :
                tools[i].evidence[k].id = <<tool[i], key[i], k>>
  BY DEF NumberedBy
<1>2. AllRows(tools) = snapshot \o flat
  BY DEF AllRows
<1> HIDE DEF lists
<1>3. IsSeq(lists) /\ \A i \in DOMAIN lists : IsSeq(lists[i])
  BY <1>1, <1>a, MappedSeq
<1>4. \A i \in DOMAIN lists : \A k \in DOMAIN lists[i] :
        lists[i][k] \in All /\ lists[i][k].id = <<tool[i], key[i], k>>
  BY <1>1, <1>a DEF Elements
<1>5. \A i \in DOMAIN lists : \A x \in Elements(lists[i]) :
        x \in All /\ \E k : x.id = <<tool[i], key[i], k>>
  BY <1>4 DEF Elements
<1> HIDE DEF All
<1>6. \A i \in DOMAIN lists : \A j, k \in DOMAIN lists[i] :
        j < k => <<lists[i][j], lists[i][k]>> \in R
  <2> SUFFICES ASSUME NEW i \in DOMAIN lists, NEW j \in DOMAIN lists[i],
                      NEW k \in DOMAIN lists[i], j < k
               PROVE  <<lists[i][j], lists[i][k]>> \in R
    OBVIOUS
  <2>1. DOMAIN lists[i] \subseteq Nat
    BY <1>3, SeqFacts
  <2>2. j # k
    BY <2>1
  <2>3. lists[i][j].id # lists[i][k].id
    BY <1>4, <2>2
  <2> QED
    BY <1>4, <2>3
<1>7. \A h, i \in DOMAIN lists : h < i =>
        \A x \in Elements(lists[h]) : \A y \in Elements(lists[i]) : <<x, y>> \in R
  <2> SUFFICES ASSUME NEW h \in DOMAIN lists, NEW i \in DOMAIN lists, h < i,
                      NEW x \in Elements(lists[h]), NEW y \in Elements(lists[i])
               PROVE  <<x, y>> \in R
    OBVIOUS
  <2>1. DOMAIN lists \subseteq Nat
    BY <1>3, SeqFacts
  <2>2. h # i
    BY <2>1
  <2>3. key[h] # key[i]
    BY <1>1, <1>a, <2>2
  <2>4. x.id # y.id
    BY <1>5, <2>3
  <2> QED
    BY <1>5, <2>4
<1>8. /\ IsSeq(flat)
      /\ Elements(flat) = UNION {Elements(lists[i]) : i \in DOMAIN lists}
      /\ \A j, k \in DOMAIN flat : j < k => <<flat[j], flat[k]>> \in R
  <2> HIDE DEF R
  <2> QED
    BY <1>3, <1>6, <1>7, FlattenOrdered
<1> HIDE DEF flat
<1>9. Numbered(flat)
  <2> SUFFICES ASSUME NEW i \in DOMAIN flat, NEW j \in DOMAIN flat, flat[i].id = flat[j].id
               PROVE  i = j
    BY DEF Numbered
  <2>1. DOMAIN flat \subseteq Nat
    BY <1>8, SeqFacts
  <2>2. ~(i < j) /\ ~(j < i)
    BY <1>8
  <2> QED
    BY <2>1, <2>2
<1>10. Numbered(snapshot)
  BY DEF Numbered
<1>11. \A x \in Elements(snapshot) : \A y \in Elements(flat) : x.id # y.id
  <2> SUFFICES ASSUME NEW x \in Elements(snapshot), NEW y \in Elements(flat)
               PROVE  x.id # y.id
    OBVIOUS
  <2>1. PICK n : x.id = <<"E", n>>
    BY DEF Elements
  <2>2. PICK a, b, c : y.id = <<a, b, c>>
    BY <1>5, <1>8
  <2>3. 3 \in DOMAIN <<a, b, c>> /\ 3 \notin DOMAIN <<"E", n>>
    OBVIOUS
  <2> QED
    BY <2>1, <2>2, <2>3
<1>12. IsSeq(snapshot \o flat)
  BY <1>8, Joined
<1>13. Numbered(snapshot \o flat)
  BY <1>8, <1>9, <1>10, <1>11, NumberedJoined
<1> QED
  BY <1>2, <1>12, <1>13

(* The Evidence of a request is numbered under its key.                    *)
LEMMA HandlerNumbered ==
  ASSUME NEW request, NEW answer
  PROVE  \A k \in DOMAIN HandlerResult(request, answer).evidence :
           HandlerResult(request, answer).evidence[k].id
             = <<Prefix[request.tool], request.key, k>>
<1> DEFINE result == HandlerResult(request, answer)
           rows == Normalized(request.tool, answer.rows)
           rowEvidence == [i \in DOMAIN rows |->
             [id |-> <<Prefix[request.tool], request.key, i>>,
              item |-> [source |-> request.tool, on |-> request.resource,
                        value |-> rows[i]]]]
<1>1. CASE answer.kind # "rows"
  <2>1. \E code : result = Failure(request, code)
    BY <1>1 DEF HandlerResult
  <2>2. \A code : Failure(request, code).evidence = <<>>
    BY DEF Failure
  <2>3. result.evidence = <<>>
    BY <2>1, <2>2
  <2> HIDE DEF result
  <2> QED
    BY <2>3, NoElements DEF result
<1>2. CASE answer.kind = "rows"
  <2>1. result = EvidenceResult(request, rows)
    BY <1>2 DEF HandlerResult
  <2>2. result.evidence = rowEvidence
    <3> HIDE DEF rows, result
    <3> QED
      BY <2>1 DEF EvidenceResult
  <2> HIDE DEF rows, result
  <2>3. \A k \in DOMAIN rowEvidence :
          rowEvidence[k].id = <<Prefix[request.tool], request.key, k>>
    OBVIOUS
  <2> HIDE DEF rowEvidence
  <2> QED
    BY <2>2, <2>3 DEF result
<1> QED
  BY <1>1, <1>2

(* What an Investigation leaves to be rendered: texts, and citations of    *)
(* Evidence that is there, under IDs that are all different.               *)
Cited ==
  /\ \A i \in DOMAIN investigation.facts : IsText(investigation.facts[i].text)
  /\ \A i \in DOMAIN investigation.missing : IsText(investigation.missing[i])
  /\ stage = "render" => CitationsValid

(* A plain text is a text.                                                 *)
LEMMA PlainText == IsText(Prose("plain"))
<1>1. IsJson(Prose("plain"))
  BY PlainProse DEF Recognised
<1>2. \A l \in Prose("plain") : l.path = <<>>
  BY DEF Prose, Text, Leaf
<1> QED
  BY <1>1, <1>2 DEF IsText

(* A statement cites all the Evidence there is, and some.                  *)
LEMMA StatementsCite ==
  ASSUME NEW rows, NEW facts \in Statements(IdsOf(rows))
  PROVE  /\ IsSeq(facts)
         /\ \A i \in DOMAIN facts : /\ facts[i].ids # {} /\ facts[i].ids \subseteq IdsOf(rows)
                                    /\ IsText(facts[i].text)
<1>1. CASE facts = <<>>
  BY <1>1, NoElements
<1>2. CASE facts # <<>>
  <2>1. IdsOf(rows) # {}
    BY <1>2 DEF Statements
  <2>2. PICK t \in FactTexts : facts = <<[text |-> t, ids |-> IdsOf(rows)]>>
    BY <1>2, <2>1 DEF Statements
  <2> DEFINE fact == [text |-> t, ids |-> IdsOf(rows)]
  <2>3. fact.text = t /\ fact.ids = IdsOf(rows) /\ IsText(t)
    BY TextsAssumption
  <2> HIDE DEF fact
  <2>4. facts = <<fact>>
    BY <2>2 DEF fact
  <2> QED
    BY <2>1, <2>3, <2>4, OneElement
<1> QED
  BY <1>1, <1>2

(* The investigation establishes it.                                       *)
LEMMA InvestigateCited ==
  ASSUME Staged, IsSeq(snapshot), \A n \in DOMAIN snapshot : snapshot[n].id = <<"E", n>>,
         Investigate
  PROVE  Cited'
<1>1. snapshot' = snapshot /\ IsSeq(failures)
  BY DEF Investigate, collectVars, Staged, Places
<1>2. \A tools : AllRows(tools)' = snapshot' \o FlattenSeq([i \in DOMAIN tools |-> tools[i].evidence])
  BY DEF AllRows
<1>3. ASSUME NEW missing, IsSeq(missing), \A i \in DOMAIN missing : IsText(missing[i])
      PROVE  \A i \in DOMAIN WithFailures(missing) : IsText(WithFailures(missing)[i])
  <2> DEFINE lines == [i \in DOMAIN failures |-> Prose("plain")]
             all == missing \o lines
  <2>1. IsSeq(lines) /\ \A i \in DOMAIN lines : IsText(lines[i])
    <3>1. /\ DOMAIN lines = DOMAIN failures /\ lines = [i \in DOMAIN lines |-> lines[i]]
          /\ \A i \in DOMAIN lines : lines[i] = Prose("plain")
      OBVIOUS
    <3> HIDE DEF lines
    <3> QED
      BY <1>1, <3>1, MappedSeq, PlainText
  <2> HIDE DEF lines
  <2>2. IsSeq(all) /\ Elements(all) = Elements(missing) \cup Elements(lines)
    BY <1>3, <2>1, Joined
  <2>3. \A x \in Elements(missing) \cup Elements(lines) : IsText(x)
    BY <1>3, <2>1 DEF Elements
  <2> HIDE DEF all
  <2>4. \A i \in DOMAIN all : IsText(all[i])
    BY <2>2, <2>3, SeqFacts
  <2> QED
    BY <2>4 DEF WithFailures, all, lines
<1>4. ASSUME NEW plan, IsSeq(plan), Distinct([i \in DOMAIN plan |-> plan[i].key]),
             \A i \in DOMAIN plan : Recognised(plan[i].parameters) /\ plan[i].tool \in ToolNames,
             NEW tools \in Results(plan)
      PROVE  IsSeq(AllRows(tools)) /\ Numbered(AllRows(tools))
  <2>1. /\ DOMAIN tools = DOMAIN plan /\ tools = [i \in DOMAIN tools |-> tools[i]]
        /\ \A i \in DOMAIN plan :
             /\ tools[i].request = plan[i]
             /\ \E j \in DOMAIN plan, a \in ToolAnswers : tools[i] = HandlerResult(plan[j], a)
    BY <1>4 DEF Results
  <2>2. IsSeq(tools)
    BY <1>4, <2>1, MappedSeq
  <2> DEFINE tool == [i \in DOMAIN plan |-> Prefix[plan[i].tool]]
             key == [i \in DOMAIN plan |-> plan[i].key]
  <2>3. \A i, j \in DOMAIN tools : key[i] = key[j] => i = j
    BY <1>4, <2>1 DEF Distinct
  <2>4. \A i \in DOMAIN plan : tool[i] = Prefix[plan[i].tool] /\ key[i] = plan[i].key
    OBVIOUS
  <2> HIDE DEF tool, key
  <2>5. ASSUME NEW i \in DOMAIN tools
        PROVE  /\ IsSeq(tools[i].evidence)
               /\ \A k \in DOMAIN tools[i].evidence :
                    tools[i].evidence[k].id = <<tool[i], key[i], k>>
    <3>1. PICK j \in DOMAIN plan, a \in ToolAnswers : tools[i] = HandlerResult(plan[j], a)
      BY <2>1
    <3>2. /\ HandlerResult(plan[j], a).request = plan[j]
          /\ ReadableTool(HandlerResult(plan[j], a))
      BY <1>4, HandlerReadable
    <3>3. plan[j] = plan[i]
      BY <2>1, <3>1, <3>2
    <3>4. \A k \in DOMAIN tools[i].evidence :
            tools[i].evidence[k].id = <<Prefix[plan[j].tool], plan[j].key, k>>
      BY <3>1, HandlerNumbered
    <3> QED
      BY <2>1, <2>4, <3>1, <3>2, <3>3, <3>4 DEF ReadableTool
  <2> QED
    <3>1. NumberedBy(tools, tool, key)
      BY <2>3, <2>5 DEF NumberedBy
    <3> QED
      BY <2>2, <3>1, AllNumbered
<1>5. ASSUME NEW tools, IsSeq(AllRows(tools)), Numbered(AllRows(tools)),
             NEW facts, NEW missing,
             \A i \in DOMAIN facts : /\ facts[i].ids # {}
                                     /\ facts[i].ids \subseteq IdsOf(AllRows(tools))
                                     /\ IsText(facts[i].text),
             IsSeq(missing), \A i \in DOMAIN missing : IsText(missing[i]),
             investigation' = [facts |-> facts, tools |-> tools,
                               missing |-> WithFailures(missing)]
      PROVE  Cited'
  <2>1. /\ investigation'.facts = facts /\ investigation'.tools = tools
        /\ investigation'.missing = WithFailures(missing)
    BY <1>5
  <2>2. AllRows(investigation.tools)' = AllRows(tools)
    BY <1>1, <2>1 DEF AllRows
  <2>3. Cardinality(IdsOf(AllRows(tools))) = Len(AllRows(tools))
    BY <1>5, NumberedIds
  <2>4. CitationsValid'
    BY <1>5, <2>1, <2>2, <2>3 DEF CitationsValid, IdsOf
  <2> QED
    BY <1>3, <1>5, <2>1, <2>4 DEF Cited
<1>6. \A tools : tools \in Results(<<>>) => IsSeq(AllRows(tools)) /\ Numbered(AllRows(tools))
  <2>1. /\ IsSeq(<<>>) /\ Distinct([i \in DOMAIN <<>> |-> <<>>[i].key])
        /\ \A i \in DOMAIN <<>> : FALSE
    BY NoElements DEF Distinct
  <2> QED
    BY <1>4, <2>1
<1>7. CASE ResolveAlarm(topology, alarm) = <<>>
  <2>1. investigation' = [facts |-> <<>>, tools |-> <<>>,
                          missing |-> WithFailures(<<Prose("plain")>>)]
    BY <1>7 DEF Investigate
  <2>2. /\ IsSeq(<<Prose("plain")>>)
        /\ \A i \in DOMAIN <<Prose("plain")>> : IsText(<<Prose("plain")>>[i])
    BY OneElement, PlainText
  <2>3. IsSeq(AllRows(<<>>)) /\ Numbered(AllRows(<<>>))
    <3>1. \A i, j \in DOMAIN <<>> : FALSE
      BY NoElements
    <3>2. NumberedBy(<<>>, <<>>, <<>>)
      BY <3>1 DEF NumberedBy
    <3> QED
      BY <3>2, NoElements, AllNumbered
  <2> QED
    BY <1>5, <2>1, <2>2, <2>3, NoElements
<1>8. CASE ResolveAlarm(topology, alarm) # <<>>
  <2>1. PICK plan, tools, facts, missing :
          /\ plan = <<>>
               \/ (/\ plan \in ToolPlans
                   /\ \A i \in DOMAIN plan :
                        Authorized(plan[i], AllowedResources(topology)))
          /\ tools \in Results(plan)
          /\ facts \in Statements(IdsOf(AllRows(tools)))
          /\ missing = <<>> \/ \E t \in MissingTexts : missing = <<t>>
          /\ investigation' = [facts |-> facts, tools |-> tools,
                               missing |-> WithFailures(missing)]
    BY <1>8 DEF Investigate
  <2>2. IsSeq(missing) /\ \A i \in DOMAIN missing : IsText(missing[i])
    BY <2>1, NoElements, OneElement, TextsAssumption
  <2>3. IsSeq(AllRows(tools)) /\ Numbered(AllRows(tools))
    <3>1. CASE plan = <<>>
      BY <1>6, <2>1, <3>1
    <3>2. CASE plan # <<>>
      <4>1. /\ IsSeq(plan) /\ Distinct([i \in DOMAIN plan |-> plan[i].key])
            /\ \A i \in DOMAIN plan : Recognised(plan[i].parameters)
        BY <2>1, <3>2, TextsAssumption
      <4>2. \A i \in DOMAIN plan : plan[i].tool \in ToolNames
        BY <2>1, <3>2 DEF Authorized
      <4> QED
        BY <1>4, <2>1, <4>1, <4>2
    <3> QED
      BY <3>1, <3>2
  <2>4. \A i \in DOMAIN facts : /\ facts[i].ids # {}
                                /\ facts[i].ids \subseteq IdsOf(AllRows(tools))
                                /\ IsText(facts[i].text)
    BY <2>1, StatementsCite
  <2> QED
    BY <1>5, <2>1, <2>2, <2>3, <2>4
<1> QED
  BY <1>7, <1>8

(* The lines of the brief: the fourth counts the failures.                 *)
LEMMA LinesFacts ==
  /\ IsSeq(TheLines) /\ 4 \in DOMAIN TheLines
  /\ TheLines[4].line = "failures" /\ TheLines[4].says = FailureCounts(failures)
<1> DEFINE keys == ServiceKeys(topology, alarm)
           facts == Facts(Shown, ResolveAlarm(topology, alarm))
           counts == FailureCounts(failures)
           owner == OwnerOf(topology, keys[1])
           name == input.event.name
           l4 == Line("failures", counts, 1 + Cardinality(DOMAIN counts))
           four == <<Line("target", <<PriorityOf(topology, alarm), keys>>, WidthOf(keys)),
                     Line("alarm", name, Width[name]),
                     Line("facts", facts, Len(facts)),
                     l4>>
           two == <<Line("owner", owner.owner, Width[owner.owner]),
                    Line("runbook", owner.runbook_url, Width[owner.runbook_url])>>
           rest == IF Len(keys) = 1 THEN two ELSE <<>>
<1>1. TheLines = four \o rest
  BY DEF TheLines, BriefLines
<1>2. l4.line = "failures" /\ l4.says = FailureCounts(failures)
  BY DEF Line
<1> HIDE DEF l4
<1>3. IsSeq(four) /\ Len(four) = 4 /\ four[4] = l4
  <2>1. /\ 4 \in Nat /\ DOMAIN four = 1..4 /\ four = [i \in DOMAIN four |-> four[i]]
        /\ Len(four) = 4 /\ four[4] = l4
    OBVIOUS
  <2> HIDE DEF four
  <2> QED
    BY <2>1, FunctionSeq
<1>4. IsSeq(two)
  <2>1. 2 \in Nat /\ DOMAIN two = 1..2 /\ two = [i \in DOMAIN two |-> two[i]]
    OBVIOUS
  <2> HIDE DEF two
  <2> QED
    BY <2>1, FunctionSeq
<1> HIDE DEF four, two, keys
<1>5. IsSeq(rest)
  BY <1>4, NoElements
<1> HIDE DEF rest
<1>6. /\ IsSeq(four \o rest) /\ Len(four \o rest) = Len(four) + Len(rest)
      /\ \A i \in 1..Len(four) : (four \o rest)[i] = four[i]
  BY <1>3, <1>5, Joined
<1>7. Len(rest) \in Nat
  BY <1>5, SeqFacts
<1>8. DOMAIN TheLines = 1..Len(TheLines) /\ Len(TheLines) = 4 + Len(rest)
  BY <1>1, <1>3, <1>6, SeqFacts
<1>9. 4 \in DOMAIN TheLines
  BY <1>7, <1>8
<1>10. TheLines[4] = l4
  BY <1>1, <1>3, <1>6
<1> QED
  BY <1>1, <1>2, <1>6, <1>9, <1>10

(* A bounded message is as long as fits, or nothing.                       *)
LEMMA BoundedFacts ==
  ASSUME NEW lines, IsSeq(lines), Bounded(lines) # UnsafeBrief
  PROVE  \E m \in DOMAIN lines :
           /\ Bounded(lines) = SubSeq(lines, 1, m)
           /\ Total(Bounded(lines)) <= MaxBriefChars
           /\ \A n \in DOMAIN lines : m < n =>
                ~(Total(SubSeq(lines, 1, n)) <= MaxBriefChars)
<1> DEFINE fit == {n \in DOMAIN lines : Total(SubSeq(lines, 1, n)) <= MaxBriefChars}
           m == Max(fit)
<1>1. /\ Len(lines) \in Nat /\ DOMAIN lines = 1..Len(lines)
      /\ fit \subseteq 1..Len(lines)
  BY SeqFacts
<1>2. Bounded(lines) = IF fit = {} THEN UnsafeBrief ELSE SubSeq(lines, 1, Max(fit))
  BY DEF Bounded
<1>3. \A n \in DOMAIN lines :
        n \in fit <=> Total(SubSeq(lines, 1, n)) <= MaxBriefChars
  OBVIOUS
<1> HIDE DEF fit
<1>4. fit # {} /\ Bounded(lines) = SubSeq(lines, 1, m)
  BY <1>2
<1>5. m \in fit /\ \A y \in fit : y <= m
  BY <1>1, <1>4, Greatest
<1> HIDE DEF m
<1>6. m \in DOMAIN lines
  BY <1>1, <1>5
<1>7. \A n \in DOMAIN lines : m < n => n \notin fit
  BY <1>1, <1>5, <1>6
<1> QED
  BY <1>3, <1>4, <1>5, <1>6, <1>7

(* The message is bounded where it is safe.                                *)
LEMMA BriefBounded == TheBrief = UnsafeBrief \/ TheBrief = Bounded(TheLines)
BY DEF TheBrief, TheLines, RenderBrief

(* A brief that could be rendered is within its limit.                     *)
LEMMA BriefWithin == TheBrief # UnsafeBrief => Total(TheBrief) <= MaxBriefChars
BY BriefBounded, LinesFacts, BoundedFacts

(* What the Issue of the bundle shows.                                     *)
LEMMA BundleShown ==
  ASSUME Staged, ReadableRows, ReadableInvestigation, Cited,
         NEW twice, twice = {RedactLeaf(RedactLeaf(l)) : l \in BundleValue},
         \A l \in twice : ~Unsettled(l)
  PROVE  CleanMarkdown(IssueOf(twice)) <=> ~Clashing
<1> DEFINE inv == investigation
           a == input.event.detail
           t2 == LogTexts(AllRows(inv.tools))
           t3 == [i \in DOMAIN inv.tools |-> inv.tools[i].request.parameters]
           b == List(t2)
           c == List(t3)
           facts == [i \in DOMAIN inv.facts |-> inv.facts[i].text]
           missing == inv.missing
           v == BundleValue
<1>1. v = List(<<a, b, c, List(facts), List(missing)>>)
  BY DEF BundleValue
<1>2. IsJson(a)
  BY TextsAssumption DEF Staged, Places, Recognised
<1>3. IsJson(b)
  <2>1. IsSeq(t2) /\ \A i \in DOMAIN t2 : Recognised(t2[i])
    BY AllRowsReadable, LogTextsRecognised
  <2> HIDE DEF t2
  <2> QED
    BY <2>1, ListJson DEF Recognised
<1>4. IsJson(c)
  <2>1. /\ DOMAIN t3 = DOMAIN inv.tools /\ t3 = [i \in DOMAIN t3 |-> t3[i]]
        /\ \A i \in DOMAIN t3 : t3[i] = inv.tools[i].request.parameters
    OBVIOUS
  <2> HIDE DEF t3
  <2>2. IsSeq(t3)
    BY <2>1, MappedSeq DEF ReadableInvestigation
  <2>3. \A i \in DOMAIN t3 : IsJson(t3[i])
    BY <2>1 DEF ReadableInvestigation, ReadableTool, Recognised
  <2> QED
    BY <2>2, <2>3, ListJson
<1>5. /\ DOMAIN facts = DOMAIN inv.facts /\ facts = [i \in DOMAIN facts |-> facts[i]]
      /\ \A i \in DOMAIN facts : facts[i] = inv.facts[i].text
  OBVIOUS
<1> HIDE DEF a, b, c, facts, v
<1>6. IsSeq(facts) /\ IsSeq(missing)
  BY <1>5, MappedSeq DEF ReadableInvestigation
<1>7. /\ \A i \in DOMAIN facts : IsText(facts[i])
      /\ \A i \in DOMAIN missing : IsText(missing[i])
  BY <1>5 DEF Cited
<1>8. twice = {RedactLeaf(RedactLeaf(l)) : l \in v}
  BY DEF v
<1>9. Elements(facts) = {inv.facts[i].text : i \in DOMAIN inv.facts}
  BY <1>5 DEF Elements
<1>10. Clashing <=>
         \E t \in Elements(facts) \cup Elements(missing) : \E l \in t :
           l.path = <<>> /\ \E p \in Elements(l.parts) : Unshowable(p)
  BY <1>9 DEF Clashing, Unshowable
<1> HIDE DEF missing, inv
<1>11. CleanMarkdown(IssueOf(twice)) <=>
           ~\E t \in Elements(facts) \cup Elements(missing) : \E l \in t :
              l.path = <<>> /\ \E p \in Elements(l.parts) : Unshowable(p)
  BY <1>1, <1>2, <1>3, <1>4, <1>6, <1>7, <1>8, IssueRefused
<1> QED
  BY <1>10, <1>11

(* A redacted key is a key.                                                *)
LEMMA KeyKept ==
  ASSUME NEW k \in DOMAIN SafeKey
  PROVE  Under(SafeKey[k]).key # ""
<1>1. SafeKey[k] \in DOMAIN SafeKey /\ "" \notin DOMAIN SafeKey
  BY RedactionAssumption
<1>2. SafeKey[k] # ""
  BY <1>1
<1> QED
  BY <1>2 DEF Under

(* A redaction leaves nothing unsettled that was settled before.           *)
LEMMA UnsettledRedacted ==
  ASSUME NEW l, IsLeaf(l), Unsettled(RedactLeaf(l))
  PROVE  Unsettled(l)
<1> DEFINE m == RedactLeaf(l)
<1>1. IsPath(l.path) /\ IsSeq(l.path)
  BY DEF IsLeaf, IsPath
<1>2. Len(l.path) \in Nat /\ DOMAIN l.path = 1..Len(l.path)
  BY <1>1, SeqFacts
<1>3. Border.key = "" /\ Item(4).key = "" /\ Item(5).key = ""
  BY DEF Border, Item
<1>4. CASE Hidden(l.path) = {}
  <2>1. m.path = SafePath(l.path) /\ m.parts = RedactParts(l.parts)
    BY <1>4 DEF RedactLeaf
  <2>2. /\ DOMAIN SafePath(l.path) = DOMAIN l.path
        /\ \A i \in DOMAIN l.path : SafePath(l.path)[i] = Border <=> l.path[i] = Border
    BY <1>1, SafePathFacts
  <2> HIDE DEF m
  <2>3. ShownInIssue(m) => ShownInIssue(l)
    <3>1. CASE l.path = <<>>
      BY <2>1, <3>1, NoElements DEF SafePath, ShownInIssue
    <3>2. CASE l.path # <<>>
      <4>1. Len(l.path) # 0
        BY <1>1, <3>2, EmptyWhole
      <4>2. 1 \in DOMAIN l.path
        BY <1>2, <4>1
      <4>3. l.path[1].key # "" => SafePath(l.path)[1].key # ""
        <5>1. IsStep(l.path[1])
          BY <1>1, <4>2 DEF IsPath
        <5>2. l.path[1].key # "" =>
                /\ l.path[1].key \in DOMAIN SafeKey
                /\ SafePath(l.path)[1] = Under(SafeKey[l.path[1].key])
          BY <4>2, <5>1 DEF IsStep, SafePath
        <5> QED
          BY <5>2, KeyKept
      <4>4. l.path[1].key = "" => SafePath(l.path)[1] = l.path[1]
        BY <1>1, <4>2, SafePathFacts
      <4> QED
        BY <1>3, <2>1, <4>3, <4>4 DEF ShownInIssue
    <3> QED
      BY <3>1, <3>2
  <2>4. \A p \in Elements(m.parts) :
          p.value \in {"open", "surrogate"} => p \in Elements(l.parts)
    <3>1. \A i \in DOMAIN m.parts : /\ i \in DOMAIN l.parts
                                    /\ m.parts[i] = RedactPart(l.parts[i])
      BY <2>1 DEF RedactParts
    <3>2. \A p : RedactPart(p).value \in {"open", "surrogate"} => RedactPart(p) = p
      BY DEF RedactPart, Part
    <3> QED
      BY <3>1, <3>2 DEF Elements
  <2>5. Unsettled(m)
    BY DEF m
  <2> QED
    BY <2>1, <2>2, <2>3, <2>4, <2>5 DEF Unsettled
<1>5. CASE Hidden(l.path) # {}
  <2> DEFINE n == Outermost(l.path)
             q == SubSeq(l.path, 1, n)
  <2>1. m.path = SafePath(q) /\ m.parts = Sentinel
    BY <1>5 DEF RedactLeaf
  <2>2. n \in Hidden(l.path) /\ n \in 0..Len(l.path)
    BY <1>1, <1>5, OutermostFacts
  <2>3. n # 0
    BY <2>2 DEF Hidden, Sensitive
  <2> HIDE DEF n
  <2>4. /\ IsPath(q) /\ DOMAIN q = 1..n /\ \A i \in 1..n : q[i] = l.path[i]
    BY <1>1, <2>2, PathPrefix
  <2> HIDE DEF q, m
  <2>5. /\ DOMAIN SafePath(q) = 1..n
        /\ \A i \in 1..n : SafePath(q)[i] = Border <=> l.path[i] = Border
        /\ \A i \in 1..n : q[i].key = "" => SafePath(q)[i] = l.path[i]
    BY <2>4, SafePathFacts
  <2>6. 1 \in 1..n /\ 1..n \subseteq DOMAIN l.path
    BY <1>2, <2>2, <2>3
  <2>7. ShownInIssue(m) => ShownInIssue(l)
    <3>1. q[1].key # "" => SafePath(q)[1].key # ""
      <4>1. IsStep(q[1])
        BY <2>4, <2>6 DEF IsPath
      <4>2. q[1].key # "" => /\ q[1].key \in DOMAIN SafeKey
                             /\ SafePath(q)[1] = Under(SafeKey[q[1].key])
        BY <2>4, <2>6, <4>1 DEF IsStep, SafePath
      <4> QED
        BY <4>2, KeyKept
    <3> QED
      BY <1>3, <2>1, <2>5, <2>6, <3>1 DEF ShownInIssue
  <2>8. \A p \in Elements(m.parts) : p.value = "approved"
    BY <2>1 DEF Elements, Sentinel, Part
  <2>9. Unsettled(m)
    BY DEF m
  <2> QED
    BY <2>1, <2>5, <2>6, <2>7, <2>8, <2>9 DEF Unsettled
<1> QED
  BY <1>4, <1>5

(* What refuses a report whatever its texts leave open.                    *)
Doomed ==
  OutOfBounds \/ Raises(BundleValue) \/ Raises(RedactJson(BundleValue))

(* A rendering is refused for that, or where the texts decide for a clash. *)
LEMMA RenderDecides ==
  ASSUME Staged, ReadableRows, ReadableInvestigation, Cited, Render
  PROVE  LET refused == failedAt' = "render" /\ outcome' = "failed"
             ready == stage' = "publish" /\ UNCHANGED <<outcome, failedAt>>
         IN  /\ refused \/ ready
             /\ Doomed => refused
             /\ ~Doomed /\ ~Uncertain => IF Clashing THEN refused ELSE ready
<1> DEFINE b == BundleValue
           once == RedactJson(b)
           twice == RedactJson(once)
           built == [bundle |-> twice, issue |-> IssueOf(twice), brief |-> TheBrief]
           noted == IF TheBrief = UnsafeBrief
                    THEN <<Metric("IncidentsFailed", "render")>> ELSE <<>>
           refused == failedAt' = "render" /\ outcome' = "failed"
           ready == stage' = "publish" /\ UNCHANGED <<outcome, failedAt>>
<1>1. /\ once = Raised => FailAt("render", <<>>)
      /\ once # Raised =>
           \E verdict \in Verdicts(twice) :
             IF twice # Raised /\ CitationsValid /\ Accepted(built, verdict)
             THEN Proceed("publish", noted) ELSE FailAt("render", noted)
  BY DEF Render
<1>2. /\ \A ms : FailAt("render", ms) => refused
      /\ \A ms : Proceed("publish", ms) => ready
  BY DEF FailAt, Proceed
<1>3. IsJson(b) /\ b # {}
  BY BundleRecognised DEF Recognised, IsJson
<1>4. once = Raised <=> Raises(b)
  BY <1>3, RaisedWhen
<1> HIDE DEF refused, ready
<1>5. CASE once = Raised
  BY <1>1, <1>2, <1>4, <1>5 DEF Doomed, refused, ready
<1>6. CASE once # Raised
  <2>1. PICK verdict \in Verdicts(twice) :
          IF twice # Raised /\ CitationsValid /\ Accepted(built, verdict)
          THEN ready ELSE refused
    BY <1>1, <1>2, <1>6
  <2>2. twice = Raised <=> Raises(once)
    BY <1>6, RaisedWhen DEF Raised
  <2>3. CASE twice = Raised
    BY <1>6, <2>1, <2>2, <2>3 DEF Doomed, refused, ready
  <2>4. CASE twice # Raised
    <3>1. Clean(twice)
      BY <1>3, <1>6, <2>4, RedactedTwice
    <3>2. /\ once = {RedactLeaf(l) : l \in b}
          /\ twice = {RedactLeaf(l) : l \in once}
      BY <1>3, <1>6, <2>4, RaisedWhen DEF Raised
    <3>3. twice = {RedactLeaf(RedactLeaf(l)) : l \in b}
      BY <3>2
    <3>4. CitationsValid
      BY DEF Render, Cited
    <3>5. /\ built.bundle = twice /\ built.issue = IssueOf(twice)
          /\ built.brief = TheBrief
      OBVIOUS
    <3>6. OutOfBounds <=> input.event.id \notin PublishableIds \/ TooLarge(twice)
      BY DEF OutOfBounds
    <3> HIDE DEF built, twice
    <3>7. Accepted(built, verdict) <=> ~OutOfBounds /\ verdict
      BY <3>1, <3>5, <3>6, BriefWithin DEF Accepted
    <3>8. ASSUME ~Uncertain PROVE verdict <=> ~Clashing
      <4>1. \A l \in b : ~Unsettled(l) /\ IsLeaf(l)
        BY <1>3, <3>8 DEF Uncertain, IsJson
      <4>2. \A l \in b : IsLeaf(RedactLeaf(l)) /\ ~Unsettled(RedactLeaf(l))
        BY <4>1, LeafRedacted, UnsettledRedacted
      <4>3. \A l \in twice : ~Unsettled(l)
        BY <3>3, <4>2, UnsettledRedacted
      <4>4. verdict = CleanMarkdown(IssueOf(twice))
        BY <4>3 DEF Verdicts
      <4>5. CleanMarkdown(IssueOf(twice)) <=> ~Clashing
        BY <3>3, <4>3, BundleShown
      <4> QED
        BY <4>4, <4>5
    <3>9. /\ OutOfBounds => refused
          /\ ~OutOfBounds => IF verdict THEN ready ELSE refused
      BY <2>1, <2>4, <3>4, <3>7
    <3>10. Doomed <=> OutOfBounds
      BY <1>4, <1>6, <2>2, <2>4 DEF Doomed
    <3> QED
      BY <3>8, <3>9, <3>10 DEF refused, ready
  <2> QED
    BY <2>3, <2>4
<1> QED
  BY <1>5, <1>6

(* Once rendered, a report is refused if it is doomed, and where its texts *)
(* settle the verdict also if they clash, but not otherwise.               *)
Decided ==
  stage = "publish" \/ outcome \in {"published", "degraded"}
    \/ failedAt \in {"render", "publish"}
    => /\ Doomed => failedAt = "render"
       /\ ~Uncertain => (failedAt = "render" <=> Doomed \/ Clashing)

(* All of that is a function of these variables.                           *)
LEMMA DecisionStays ==
  ASSUME UNCHANGED <<input, investigation, snapshot>>
  PROVE  (Doomed' <=> Doomed) /\ (Uncertain' <=> Uncertain) /\ (Clashing' <=> Clashing)
<1>1. AllRows(investigation.tools)' = AllRows(investigation.tools)
  BY DEF AllRows
<1>2. BundleValue' = BundleValue
  BY <1>1 DEF BundleValue, LogTexts
<1>3. Clashing' <=> Clashing
  BY DEF Clashing
<1>4. Uncertain' <=> Uncertain
  BY <1>2 DEF Uncertain
<1>5. OutOfBounds' <=> OutOfBounds
  BY <1>1, <1>2 DEF OutOfBounds, TooLarge
<1> QED
  BY <1>2, <1>3, <1>4, <1>5 DEF Doomed

(* Every step keeps the decision.                                          *)
LEMMA DecidedNext ==
  ASSUME Staged, ReadableRows, ReadableInvestigation, Cited, Decided, [Next]_vars
  PROVE  Decided'
<1>1. /\ stage # "ended" => outcome = "" /\ failedAt = ""
      /\ outcome \in {"", "published", "duplicate", "degraded", "failed"}
  BY DEF Staged, Phases
<1>2. CASE UNCHANGED vars
  BY <1>2, DecisionStays DEF vars, reportVars, collectVars, Decided
<1>3. CASE Render
  <2>1. (Doomed' <=> Doomed) /\ (Uncertain' <=> Uncertain) /\ (Clashing' <=> Clashing)
    BY <1>3, DecisionStays DEF Render, collectVars
  <2>2. stage # "ended"
    BY <1>3 DEF Render
  <2> QED
    BY <1>1, <1>3, <2>1, <2>2, RenderDecides DEF Decided
<1>4. CASE Publish
  <2>1. (Doomed' <=> Doomed) /\ (Uncertain' <=> Uncertain) /\ (Clashing' <=> Clashing)
    BY <1>4, DecisionStays DEF Publish, collectVars
  <2>2. stage = "publish" /\ failedAt' \in {failedAt, "publish"}
    BY <1>4 DEF Publish, EndWith, FailAt
  <2> QED
    BY <1>1, <2>1, <2>2 DEF Decided
<1>5. CASE ParseEvent \/ LoadTopology \/ Claim \/ Snapshot \/ LeaveSnapshot \/ Investigate
  <2>1. /\ stage # "ended" /\ stage' # "publish"
        /\ outcome' \in {outcome, "failed", "duplicate"}
        /\ failedAt' \in {failedAt, "parse_event", "load_topology", "claim_event", "snapshot"}
    BY <1>5 DEF ParseEvent, LoadTopology, Claim, Snapshot, LeaveSnapshot, Investigate,
       Proceed, EndWith, FailAt, reportVars
  <2> QED
    BY <1>1, <2>1 DEF Decided
<1> QED
  BY <1>2, <1>3, <1>4, <1>5 DEF Next, Ended

(* Every step keeps the citations.                                         *)
LEMMA CitedNext ==
  ASSUME Staged, Gathered, Allocated, Cited, [Next]_vars
  PROVE  Cited'
<1>1. CASE Investigate
  <2>1. snapshot = AllocateEvidenceIds(evidence)
    BY <1>1 DEF Investigate, Staged, Phases, AfterSnapshot, Allocated
  <2>2. IsSeq(snapshot)
    BY <2>1, AllocatedRows DEF Gathered
  <2>3. \A n \in DOMAIN snapshot : snapshot[n].id = <<"E", n>>
    BY <2>1 DEF AllocateEvidenceIds
  <2> QED
    BY <1>1, <2>2, <2>3, InvestigateCited
<1>2. CASE UNCHANGED vars
  <2>1. AllRows(investigation.tools)' = AllRows(investigation.tools)
    BY <1>2 DEF AllRows, vars, reportVars, collectVars
  <2>2. CitationsValid' <=> CitationsValid
    BY <1>2, <2>1 DEF CitationsValid, IdsOf, vars, reportVars
  <2> QED
    BY <1>2, <2>2 DEF Cited, vars, reportVars
<1>3. CASE ParseEvent \/ LoadTopology \/ Claim \/ Snapshot \/ LeaveSnapshot \/ Render \/ Publish
  <2>1. stage' # "render" /\ UNCHANGED investigation
    BY <1>3 DEF ParseEvent, LoadTopology, Claim, Snapshot, LeaveSnapshot, Render,
       Publish, Proceed, EndWith, FailAt, reportVars
  <2> QED
    BY <2>1 DEF Cited
<1> QED
  BY <1>1, <1>2, <1>3 DEF Next, Ended

(* Theorem: a report that was collected and investigated is refused when   *)
(* its event ID or its size is, or the Redactor raises on the bundle or on *)
(* its own output; and where its texts settle the verdict, also when one   *)
(* that the Issue shows is taken for a credential there, and never         *)
(* otherwise.                                                              *)
THEOREM RefusalsHaveCauses == Spec => []RefusedWithCause
<1>1. Init => Cited /\ Decided
  <2> SUFFICES ASSUME Init PROVE Cited /\ Decided
    OBVIOUS
  <2>1. /\ stage = "parse_event" /\ outcome = "" /\ failedAt = ""
        /\ investigation.facts = <<>> /\ investigation.missing = <<>>
    BY DEF Init, NoInvestigation
  <2> QED
    BY <2>1, NoElements DEF Cited, Decided
<1>2. ASSUME Staged, Gathered, Allocated, ReadableRows, ReadableInvestigation,
             Cited, Decided, [Next]_vars
      PROVE  Cited' /\ Decided'
  BY <1>2, CitedNext, DecidedNext
<1>3. Decided => RefusedWithCause
  BY DEF Decided, Doomed, RefusedWithCause
<1> QED
  BY <1>1, <1>2, <1>3, AlwaysGathered, AlwaysReadable, AlwaysAllocated, PTL DEF Spec

-----------------------------------------------------------------------------
(* The failures of the collectors in the report.                           *)

(* The beginning of a list.                                                *)
LEMMA Beginning ==
  ASSUME NEW s, IsSeq(s), NEW n \in DOMAIN s
  PROVE  /\ n \in Nat /\ Len(SubSeq(s, 1, n)) = n /\ DOMAIN SubSeq(s, 1, n) = 1..n
         /\ \A i \in 1..n : SubSeq(s, 1, n)[i] = s[i]
<1>1. /\ Len(s) \in Nat /\ DOMAIN s = 1..Len(s) /\ s \in Seq(Elements(s))
  BY SeqFacts DEF IsSeq
<1>2. n \in Nat /\ n <= Len(s) /\ n = 1 + n - 1 /\ 1..n \subseteq 1..Len(s)
  BY <1>1
<1>3. Len(SubSeq(s, 1, n)) = n /\ DOMAIN SubSeq(s, 1, n) = 1..n
  BY <1>1, <1>2
<1>4. ASSUME NEW i \in 1..n PROVE SubSeq(s, 1, n)[i] = s[i]
  <2>1. 1 + i - 1 = i /\ i \in 1..Len(s)
    BY <1>2
  <2> QED
    BY <1>1, <1>2, <2>1
<1> QED
  BY <1>2, <1>3, <1>4

(* What the message of Slack says of the failures.                         *)
LEMMA BriefCounts ==
  ASSUME IsSeq(failures)
  PROVE  \/ TheBrief = UnsafeBrief
         \/ \E n \in DOMAIN TheBrief :
              /\ TheBrief[n].line = "failures"
              /\ Cardinality(Tally(TheBrief[n])) = Len(failures)
         \/ /\ Len(TheBrief) < 4
            /\ ~(Total(SubSeq(TheLines, 1, 4)) <= MaxBriefChars)
<1>1. /\ IsSeq(TheLines) /\ 4 \in DOMAIN TheLines
      /\ TheLines[4].line = "failures" /\ TheLines[4].says = FailureCounts(failures)
  BY LinesFacts
<1>2. CASE TheBrief # UnsafeBrief
  <2>1. TheBrief = Bounded(TheLines)
    BY <1>2, BriefBounded
  <2>2. PICK m \in DOMAIN TheLines :
          /\ TheBrief = SubSeq(TheLines, 1, m)
          /\ \A n \in DOMAIN TheLines : m < n =>
               ~(Total(SubSeq(TheLines, 1, n)) <= MaxBriefChars)
    BY <1>1, <1>2, <2>1, BoundedFacts
  <2>3. /\ m \in Nat /\ Len(TheBrief) = m /\ DOMAIN TheBrief = 1..m
        /\ \A i \in 1..m : TheBrief[i] = TheLines[i]
    BY <1>1, <2>2, Beginning
  <2>4. CASE m < 4
    BY <1>1, <2>2, <2>3, <2>4
  <2>5. CASE 4 <= m
    <3>1. 4 \in DOMAIN TheBrief /\ TheBrief[4] = TheLines[4]
      BY <2>3, <2>5
    <3>2. Cardinality(Tally(TheBrief[4])) = Len(failures)
      BY <1>1, <3>1, CountsAddUp DEF Tally
    <3> QED
      BY <1>1, <3>1, <3>2
  <2> QED
    BY <2>3, <2>4, <2>5
<1> QED
  BY <1>2

(* The last lines of the missing information are those of the failures.    *)
Gapped ==
  stage = "render" =>
    \A i \in DOMAIN failures :
      LET at == Len(investigation.missing) - Len(failures) + i
      IN  /\ at \in DOMAIN investigation.missing
          /\ investigation.missing[at] = Prose("plain")

LEMMA GappedNext ==
  ASSUME Staged, Gapped, [Next]_vars
  PROVE  Gapped'
<1>1. CASE Investigate
  <2>1. IsSeq(failures) /\ UNCHANGED failures
    BY <1>1 DEF Staged, Places, Investigate, collectVars
  <2>2. PICK missing : /\ IsSeq(missing)
                       /\ investigation'.missing = WithFailures(missing)
    <3>1. CASE ResolveAlarm(topology, alarm) = <<>>
      <4>1. investigation'.missing = WithFailures(<<Prose("plain")>>)
        BY <1>1, <3>1 DEF Investigate
      <4> QED
        BY <4>1, OneElement
    <3>2. CASE ResolveAlarm(topology, alarm) # <<>>
      <4>1. PICK missing : /\ missing = <<>> \/ \E t \in MissingTexts : missing = <<t>>
                           /\ investigation'.missing = WithFailures(missing)
        BY <1>1, <3>2 DEF Investigate
      <4> QED
        BY <4>1, OneElement, NoElements
    <3> QED
      BY <3>1, <3>2
  <2> DEFINE lines == [i \in DOMAIN failures |-> Prose("plain")]
             all == missing \o lines
  <2>3. /\ DOMAIN lines = DOMAIN failures /\ lines = [i \in DOMAIN lines |-> lines[i]]
        /\ \A i \in DOMAIN failures : lines[i] = Prose("plain")
    OBVIOUS
  <2>4. investigation'.missing = all
    BY <2>2 DEF WithFailures
  <2> HIDE DEF lines
  <2>5. IsSeq(lines) /\ Len(lines) = Len(failures)
    BY <2>1, <2>3, MappedSeq
  <2>6. /\ IsSeq(all) /\ Len(all) = Len(missing) + Len(failures)
        /\ \A i \in 1..Len(failures) : all[Len(missing) + i] = lines[i]
    BY <2>2, <2>5, Joined
  <2> HIDE DEF all
  <2>7. /\ Len(missing) \in Nat /\ Len(failures) \in Nat
        /\ DOMAIN failures = 1..Len(failures) /\ DOMAIN all = 1..Len(all)
    BY <2>1, <2>2, <2>6, SeqFacts
  <2>8. ASSUME NEW i \in DOMAIN failures
        PROVE  LET at == Len(all) - Len(failures) + i
               IN  at \in DOMAIN all /\ all[at] = Prose("plain")
    <3>1. i \in 1..Len(failures) /\ Len(all) - Len(failures) + i = Len(missing) + i
      BY <2>6, <2>7
    <3>2. Len(missing) + i \in 1..Len(all)
      BY <2>6, <2>7, <3>1
    <3> QED
      BY <2>3, <2>6, <2>7, <3>1, <3>2
  <2> QED
    BY <2>1, <2>4, <2>8 DEF Gapped
<1>2. CASE UNCHANGED vars
  BY <1>2 DEF Gapped, vars, reportVars, collectVars
<1>3. CASE ParseEvent \/ LoadTopology \/ Claim \/ Snapshot \/ LeaveSnapshot \/ Render \/ Publish
  <2>1. stage' # "render"
    BY <1>3 DEF ParseEvent, LoadTopology, Claim, Snapshot, LeaveSnapshot, Render,
       Publish, Proceed, EndWith, FailAt, reportVars, Staged, Phases
  <2> QED
    BY <2>1 DEF Gapped
<1> QED
  BY <1>1, <1>2, <1>3 DEF Next, Ended

(* The plain line of a failure comes through two redactions and into the   *)
(* Issue as it is.                                                         *)
LEMMA PlainKept ==
  LET one == <<Part("prose", "plain", "word")>>
  IN  RedactParts(RedactParts(one)) = one /\ SafeInline(one) = one
<1> DEFINE p == Part("prose", "plain", "word")
<1>1. RedactPart(p) = p /\ EscapePart(p) = p
  BY DEF RedactPart, Replaced, EscapePart, Part
<1> HIDE DEF p
<1>2. DOMAIN <<p>> = {1} /\ <<p>>[1] = p
  BY OneElement
<1>3. [i \in {1} |-> p] = <<p>>
  OBVIOUS
<1>4. RedactParts(<<p>>) = <<p>> /\ SafeInline(<<p>>) = <<p>>
  BY <1>1, <1>2, <1>3 DEF RedactParts, SafeInline
<1> QED
  BY <1>4 DEF p

(* The lines of the failures are in the bundle and in the Issue.           *)
LEMMA GapShown ==
  ASSUME Staged, ReadableInvestigation, Cited, Gapped, stage = "render",
         NEW twice, twice = {RedactLeaf(RedactLeaf(l)) : l \in BundleValue},
         NEW i \in DOMAIN failures
  PROVE  Gap(i) \in twice \cap IssueOf(twice)
<1> DEFINE missing == investigation.missing
           at == Len(missing) - Len(failures) + i
           one == <<Part("prose", "plain", "word")>>
           y == Leaf("text", one)
<1>1. IsSeq(missing) /\ \A k \in DOMAIN missing : IsText(missing[k])
  BY DEF ReadableInvestigation, Cited
<1>2. at \in DOMAIN missing /\ missing[at] = Prose("plain")
  BY DEF Gapped
<1>3. y \in missing[at] /\ y.path = <<>> /\ y.kind = "text" /\ y.parts = one
  BY <1>2 DEF Prose, Text, Leaf
<1>4. Within(Item(5), List(missing)) \subseteq BundleValue
  <2> DEFINE inv == investigation
             vs == <<input.event.detail, List(LogTexts(AllRows(inv.tools))),
                     List([k \in DOMAIN inv.tools |-> inv.tools[k].request.parameters]),
                     List([k \in DOMAIN inv.facts |-> inv.facts[k].text]),
                     List(inv.missing)>>
  <2>1. BundleValue = List(vs)
    BY DEF BundleValue
  <2>2. DOMAIN vs = 1..5 /\ vs[5] = List(missing)
    OBVIOUS
  <2> HIDE DEF vs
  <2>3. vs # <<>> /\ 5 \in DOMAIN vs
    <3>1. 5 \in DOMAIN vs
      BY <2>2
    <3> QED
      BY <3>1, NoElements
  <2> QED
    BY <2>1, <2>2, <2>3 DEF List
<1>5. Gap(i) = [path |-> <<Item(5), Item(at)>>, kind |-> "text", parts |-> one]
  <2>1. DOMAIN missing = 1..Len(missing) /\ Len(missing) \in Nat
    BY <1>1, SeqFacts
  <2>2. IsSeq(failures) /\ Len(failures) \in Nat /\ i \in 1..Len(failures)
    BY SeqFacts DEF Staged, Places
  <2> QED
    BY <2>1, <2>2 DEF Gap
<1> HIDE DEF y, at
<1>6. PICK l \in Within(Item(5), List(missing)) :
        RedactLeaf(RedactLeaf(l)) =
          [path |-> <<Item(5), Item(at)>>, kind |-> y.kind,
           parts |-> RedactParts(RedactParts(y.parts))]
  BY <1>1, <1>2, <1>3, TextShown
<1>7. RedactLeaf(RedactLeaf(l)) = Gap(i)
  BY <1>3, <1>5, <1>6, PlainKept
<1>8. Gap(i) \in twice
  BY <1>4, <1>7
<1>9. Gap(i) \in IssueOf(twice)
  <2>1. ShownInIssue(Gap(i))
    BY <1>5 DEF ShownInIssue
  <2>2. [Gap(i) EXCEPT !.parts = SafeInline(@)] = Gap(i)
    <3>1. Gap(i).parts = one /\ SafeInline(one) = one
      BY <1>5, PlainKept
    <3> HIDE DEF one
    <3> QED
      BY <1>5, <3>1
  <2> QED
    BY <1>8, <2>1, <2>2 DEF IssueOf
<1> QED
  BY <1>8, <1>9

(* What is ready to be published tells of every failure.                   *)
Reported ==
  payload # NoPayload =>
    /\ payload.brief = TheBrief
    /\ \A i \in DOMAIN failures : Gap(i) \in payload.bundle \cap payload.issue

LEMMA ReportedNext ==
  ASSUME Staged, ReadableRows, ReadableInvestigation, Cited, Gapped, Reported,
         [Next]_vars
  PROVE  Reported'
<1>1. ASSUME UNCHANGED <<payload, topology, alarm, input, snapshot, failures,
                         investigation>>
      PROVE  Reported'
  <2>1. TheBrief' = TheBrief
    BY <1>1 DEF TheBrief, Shown
  <2>2. \A i : Gap(i)' = Gap(i)
    BY <1>1 DEF Gap
  <2> QED
    BY <1>1, <2>1, <2>2 DEF Reported
<1>2. CASE Render
  <2>1. UNCHANGED <<topology, alarm, input, snapshot, failures, investigation>>
    BY <1>2 DEF Render, collectVars
  <2> DEFINE once == RedactJson(BundleValue)
             twice == RedactJson(once)
             built == [bundle |-> twice, issue |-> IssueOf(twice), brief |-> TheBrief]
  <2>2. \/ UNCHANGED payload
        \/ once # Raised /\ twice # Raised /\ payload' = built
    BY <1>2 DEF Render
  <2>3. ASSUME once # Raised, twice # Raised, payload' = built PROVE Reported'
    <3>1. IsJson(BundleValue) /\ BundleValue # {}
      BY BundleRecognised DEF Recognised, IsJson
    <3>2. once = {RedactLeaf(l) : l \in BundleValue} /\ twice = {RedactLeaf(l) : l \in once}
      BY <2>3, <3>1, RaisedWhen DEF Raised
    <3>3. twice = {RedactLeaf(RedactLeaf(l)) : l \in BundleValue}
      BY <3>2
    <3>4. /\ payload'.bundle = twice /\ payload'.issue = IssueOf(twice)
          /\ payload'.brief = TheBrief
      BY <2>3
    <3> HIDE DEF twice, once, built
    <3>5. \A i \in DOMAIN failures : Gap(i) \in twice \cap IssueOf(twice)
      BY <1>2, <3>3, GapShown DEF Render
    <3>6. TheBrief' = TheBrief
      BY <2>1 DEF TheBrief, Shown
    <3>7. \A i : Gap(i)' = Gap(i)
      BY <2>1 DEF Gap
    <3> QED
      BY <2>1, <3>4, <3>5, <3>6, <3>7 DEF Reported
  <2> QED
    BY <1>1, <2>1, <2>2, <2>3
<1>3. CASE Publish \/ Ended \/ UNCHANGED vars
  BY <1>1, <1>3 DEF Publish, Ended, vars, collectVars, reportVars
<1>4. CASE ParseEvent \/ LoadTopology \/ Claim \/ Snapshot \/ LeaveSnapshot \/ Investigate
  <2>1. stage \notin {"publish", "ended"} /\ UNCHANGED payload
    BY <1>4, StageNames DEF ParseEvent, LoadTopology, Claim, Snapshot, LeaveSnapshot,
       Investigate, reportVars
  <2>2. payload = NoPayload
    BY <2>1 DEF Staged, Phases
  <2> QED
    BY <2>1, <2>2 DEF Reported, NoPayload
<1> QED
  BY <1>2, <1>3, <1>4 DEF Next

(* Theorem: every collector that failed has its line in the bundle and in  *)
(* the Issue, and the message of Slack counts it, unless the message is    *)
(* not rendered or its first four lines do not fit.                        *)
THEOREM GapsAreReported == Spec => []GapsReported
<1>1. Init => Cited /\ Gapped /\ Reported
  <2> SUFFICES ASSUME Init PROVE Cited /\ Gapped /\ Reported
    OBVIOUS
  <2>1. /\ stage = "parse_event" /\ payload = NoPayload
        /\ investigation.facts = <<>> /\ investigation.missing = <<>>
    BY DEF Init, NoInvestigation
  <2> QED
    BY <2>1, NoElements DEF Cited, Gapped, Reported
<1>2. ASSUME Staged, Gathered, Allocated, ReadableRows, ReadableInvestigation,
             Cited, Gapped, Reported, [Next]_vars
      PROVE  Cited' /\ Gapped' /\ Reported'
  BY <1>2, CitedNext, GappedNext, ReportedNext
<1>3. ASSUME Staged, Reported PROVE GapsReported
  <2>1. SUFFICES ASSUME stage = "publish" PROVE GapsReported
    BY DEF GapsReported
  <2>2. /\ payload.brief = TheBrief
        /\ \A i \in DOMAIN failures : Gap(i) \in payload.bundle \cap payload.issue
    BY <1>3, <2>1 DEF Reported, Staged, Phases
  <2>3. IsSeq(failures)
    BY <1>3 DEF Staged, Places
  <2> QED
    BY <2>2, <2>3, BriefCounts DEF GapsReported
<1> QED
  BY <1>1, <1>2, <1>3, AlwaysGathered, AlwaysReadable, AlwaysAllocated, PTL DEF Spec
=============================================================================
