------------------------- MODULE ReportSlotsProofs -------------------------
(***************************************************************************)
(* Type correctness of ReportSlots, that callers of write_report never     *)
(* share a slot, and whose files a process changes: nothing found in the   *)
(* directory, and, by write_report, nothing of another process.  For any   *)
(* number of processes and faults.                                         *)
(***************************************************************************)
EXTENDS ReportSlots, SequenceTheorems, TLAPS

Outputs == {"json", "md", "marker"}

Directory == [Slots \X Names -> Files]

(* What TypeOK says of the place of a process in its lists.                *)
WellPlaced(r) ==
  /\ r.pc \in {"build", "write"} => r.at \in DOMAIN Plan
  /\ r.pc \in {"idle", "check", "recheck"} => r.at \in DOMAIN Finals

LEMMA PlanFacts ==
  /\ Len(Plan) = 16 /\ DOMAIN Plan = 1..16
  /\ Len(Finals) = 3 /\ DOMAIN Finals = 1..3
  /\ \A i \in 1..16 :
       /\ Plan[i][2] \in Temps \cup Outputs
       /\ Plan[i][1] \in {"open", "fill", "create", "replace", "measure",
                          "digest"}
       /\ Plan[i][1] = "fill" => Plan[i][2] \in Temps
       /\ Plan[i][1] \in {"create", "replace"} => Plan[i][2] \in Outputs
  /\ \A i \in 1..3 : Finals[i] \in Outputs
  BY DEF Plan, Finals, Temps, Outputs

(* Files and what is written to them.                                      *)
LEMMA EmptyLists ==
  <<>> \in Digests /\ <<>> \in Seq(Temps) /\ <<>> \in Seq(Outputs)
  BY EmptySeq DEF Digests

LEMMA FileType ==
  ASSUME NEW kind \in {"absent", "empty", "lock", "report", "marker"},
         NEW author \in Authors, NEW digests \in Digests
  PROVE  File(kind, author, digests) \in Files
  BY DEF File, Files

LEMMA AbsentType == Absent \in Files
  BY FileType, EmptyLists DEF Absent, Authors

LEMMA DigestType ==
  ASSUME NEW file \in Files
  PROVE  DigestOf(file) \in SUBSET Authors
  BY DEF DigestOf, Files, Authors

LEMMA WithType ==
  ASSUME TypeOK, NEW p \in Processes, NEW name \in Names, NEW file \in Files
  PROVE  With(p, name, file) \in Directory
  BY DEF TypeOK, With, Directory, Runs

LEMMA AtType ==
  ASSUME TypeOK, NEW p \in Processes, NEW name \in Names
  PROVE  At(p, name) \in Files
  BY DEF TypeOK, At, Runs

LEMMA NamesSplit ==
  /\ Names = Outputs \cup {"lock"} \cup Temps
  /\ "lock" \notin Temps \cup Outputs
  /\ \A n \in Outputs : TempOf(n) \in Temps
  BY DEF Names, Outputs, Temps, TempOf

(* The finally clause removes no lock.                                     *)
LEMMA DoomedType ==
  ASSUME NEW r \in Runs
  PROVE  /\ Doomed(r) \in Seq(Temps \cup Outputs)
         /\ Doomed(r) # <<>> => Head(Doomed(r)) \in Temps \cup Outputs
<1>1. r.temps \in Seq(Temps \cup Outputs) /\ r.outputs \in Seq(Temps \cup Outputs)
      /\ <<>> \in Seq(Temps \cup Outputs)
  BY DEF Runs, Outputs
<1>2. Doomed(r) \in Seq(Temps \cup Outputs)
  BY <1>1, ConcatProperties DEF Doomed
<1> QED
  BY <1>2, HeadTailProperties

(* The list that holds the first doomed file is not empty.                 *)
LEMMA DoomedLists ==
  ASSUME NEW r \in Runs, Doomed(r) # <<>>
  PROVE  /\ Head(Doomed(r)) \in Temps => r.temps # <<>>
         /\ Head(Doomed(r)) \notin Temps => r.outputs # <<>>
<1>1. /\ r.temps \in Seq(Temps) /\ r.outputs \in Seq(Outputs)
      /\ <<>> \in Seq(Temps) /\ <<>> \in Seq(Outputs)
  BY EmptyLists DEF Runs, Outputs
<1>2. Temps \cap Outputs = {}
  BY DEF Temps, Outputs
<1>3. ASSUME r.temps = <<>>
      PROVE  Doomed(r) \in Seq(Outputs)
  BY <1>1, <1>3, ConcatProperties DEF Doomed
<1>4. ASSUME r.outputs = <<>>
      PROVE  Doomed(r) = r.temps
  BY <1>1, <1>4, ConcatEmptySeq DEF Doomed
<1>5. ASSUME r.temps = <<>>
      PROVE  Head(Doomed(r)) \in Outputs
  BY <1>3, <1>5, HeadTailProperties
<1>6. ASSUME r.outputs = <<>>
      PROVE  Head(Doomed(r)) \in Temps
  BY <1>1, <1>4, <1>6, HeadTailProperties
<1> QED
  BY <1>2, <1>5, <1>6

-----------------------------------------------------------------------------
(* Typing.                                                                 *)

(* The next call of a process that writes.                                 *)
LEMMA CallType ==
  ASSUME TypeOK, NEW p \in Processes, run[p].pc = "write"
  PROVE  /\ run[p].at \in 1..16
         /\ Target(p) \in Temps \cup Outputs
         /\ Op(p) = "fill" => Target(p) \in Temps
         /\ Op(p) \in {"create", "replace"} => Target(p) \in Outputs
  BY PlanFacts DEF TypeOK, Target, Op

LEMMA EffectType ==
  ASSUME TypeOK, NEW p \in Processes
  PROVE  Effect(p) \in Directory
<1> DEFINE r == run[p]
<1>1. r \in Runs /\ files \in Directory /\ p \in Authors
  BY DEF TypeOK, Directory, Authors
<1>2. /\ File("lock", p, <<>>) \in Files /\ File("empty", p, <<>>) \in Files
      /\ File("report", p, <<>>) \in Files
      /\ File("marker", p, r.digests) \in Files
  BY <1>1, FileType, EmptyLists DEF Runs
<1>3. Temps \cup Outputs \cup {"lock"} = Names
  BY NamesSplit
<1>4. With(p, "lock", File("lock", p, <<>>)) \in Directory
      /\ With(p, "lock", Absent) \in Directory
  BY <1>2, <1>3, WithType, AbsentType
<1>5. ASSUME r.pc = "write"
      PROVE  /\ With(p, Target(p), File("empty", p, <<>>)) \in Directory
             /\ With(p, Target(p), IF Target(p) = "markerTmp"
                                   THEN File("marker", p, r.digests)
                                   ELSE File("report", p, <<>>)) \in Directory
  <2>1. Target(p) \in Names
    BY <1>3, <1>5, CallType
  <2> QED
    BY <1>2, <2>1, WithType
<1>6. ASSUME Ready(p, "replace")
      PROVE  [files EXCEPT
                ![<<r.slot, Target(p)>>] = At(p, TempOf(Target(p))),
                ![<<r.slot, TempOf(Target(p))>>] = Absent] \in Directory
  <2>1. Target(p) \in Outputs
    BY <1>6, CallType DEF Ready
  <2>2. TempOf(Target(p)) \in Names
    BY <1>3, <2>1, NamesSplit
  <2>3. At(p, TempOf(Target(p))) \in Files
    BY <2>2, AtType
  <2> QED
    BY <1>1, <1>3, <2>3, AbsentType DEF Directory
<1>7. ASSUME Doomed(r) # <<>>
      PROVE  With(p, Head(Doomed(r)), Absent) \in Directory
  BY <1>1, <1>3, <1>7, DoomedType, WithType, AbsentType
<1> QED
  BY <1>1, <1>4, <1>5, <1>6, <1>7 DEF Effect, Ready

(* A step that only changes one process and one file keeps the types.      *)
LEMMA BecomesTypes ==
  ASSUME TypeOK, NEW p \in Processes, NEW r \in Runs, WellPlaced(r),
         Becomes(p, r), files' \in Directory, faults' \in 0..MaxFaults
  PROVE  TypeOK'
  BY DEF TypeOK, Becomes, Directory, WellPlaced

LEMMA FaultsType ==
  ASSUME TypeOK
  PROVE  /\ UNCHANGED faults => faults' \in 0..MaxFaults
         /\ \A kind : Fault(kind) => faults' \in 0..MaxFaults
  BY SlotsAssumption DEF TypeOK, Fault

LEMMA RunType ==
  ASSUME TypeOK, NEW p \in Processes
  PROVE  run[p] \in Runs /\ WellPlaced(run[p]) /\ files \in Directory
  BY DEF TypeOK, WellPlaced, Directory

(* At the first call of a list a process is well placed.                   *)
LEMMA FirstPlace ==
  ASSUME NEW r \in Runs, r.at = 1
  PROVE  WellPlaced(r)
<1>1. 1 \in DOMAIN Plan /\ 1 \in DOMAIN Finals
  BY PlanFacts
<1> QED
  BY <1>1 DEF WellPlaced

(* Ending, unwinding and moving on to the next second.                     *)
LEMMA LeaveTypes ==
  ASSUME TypeOK, NEW p \in Processes, files' \in Directory,
         faults' \in 0..MaxFaults,
         \/ \E error \in {"none", "exception", "interrupt", "abandoned",
                          "crash"} : End(p, error) \/ Unwind(p, error)
         \/ Occupied(p)
  PROVE  TypeOK'
<1>1. run[p] \in Runs
  BY RunType
<1>2. ASSUME NEW error \in {"none", "exception", "interrupt", "abandoned",
                           "crash"}
      PROVE  /\ End(p, error) => TypeOK'
             /\ Unwind(p, error) => TypeOK'
  <2> DEFINE ended == [run[p] EXCEPT !.pc = "ended", !.error = error]
             unwound == [run[p] EXCEPT !.pc = "unlink", !.error = error]
  <2>1. ended \in Runs /\ WellPlaced(ended)
    BY <1>1 DEF Runs, Labels, WellPlaced
  <2>2. unwound \in Runs /\ WellPlaced(unwound)
    BY <1>1 DEF Runs, Labels, WellPlaced
  <2> HIDE DEF ended, unwound
  <2>3. Becomes(p, ended) \/ Becomes(p, unwound) => TypeOK'
    BY <2>1, <2>2, BecomesTypes
  <2> QED
    BY <2>3 DEF End, Unwind, ended, unwound
<1>3. ASSUME Occupied(p), Cli
      PROVE  TypeOK'
  <2> DEFINE r == [run[p] EXCEPT !.pc = "check", !.at = 1,
                                 !.slot = run[p].slot + 1]
  <2>1. run[p].slot + 1 \in Slots
    <3>1. run[p].slot < MaxSlot
      BY <1>3, Zenon DEF Occupied
    <3>2. run[p].slot \in 1..MaxSlot
      BY <1>1 DEF Runs, Slots
    <3> QED
      BY <3>1, <3>2, SlotsAssumption DEF Slots
  <2>2. r \in Runs /\ r.at = 1
    BY <1>1, <2>1 DEF Runs, Labels
  <2>3. Becomes(p, r)
    BY <1>3, Zenon DEF Occupied
  <2> HIDE DEF r
  <2> QED
    BY <2>2, <2>3, FirstPlace, BecomesTypes
<1> QED
  BY <1>2, <1>3 DEF Occupied

LEMMA LookTypes ==
  ASSUME TypeOK, NEW p \in Processes, Look(p)
  PROVE  TypeOK'
<1>1. run[p] \in Runs /\ files' \in Directory /\ faults' \in 0..MaxFaults
  BY RunType, FaultsType DEF Look, LookIn
<1>2. run[p].at \in 1..3
  BY PlanFacts DEF Look, LookIn, TypeOK
<1> DEFINE held == [run[p] EXCEPT !.pc = "giveBack"]
           further == [run[p] EXCEPT !.at = run[p].at + 1]
           done(pc) == [run[p] EXCEPT !.at = 1, !.pc = pc]
<1>3. /\ held \in Runs /\ WellPlaced(held)
      /\ \A pc \in {"lock", "build", "write"} :
           done(pc) \in Runs /\ done(pc).at = 1
  BY <1>1 DEF Runs, Labels, WellPlaced
<1>4. ASSUME run[p].at < 3
      PROVE  further \in Runs /\ WellPlaced(further)
  <2>1. run[p].at + 1 \in 1..3 /\ run[p].at + 1 \in Nat
    BY <1>2, <1>4
  <2>2. further \in Runs
    BY <1>1, <2>1 DEF Runs
  <2>3. further.pc \in {"check", "recheck"} /\ further.at \in 1..3
    BY <1>1, <2>1 DEF Runs, Look, LookIn
  <2> QED
    BY <2>2, <2>3, PlanFacts DEF WellPlaced
<1>5. \/ Occupied(p)
      \/ Becomes(p, held)
      \/ run[p].at < 3 /\ Becomes(p, further)
      \/ \E pc \in {"lock", "build", "write"} : Becomes(p, done(pc))
  <2>1. CASE Exists(At(p, Finals[run[p].at]))
    BY <2>1, Zenon DEF Look, LookIn
  <2>2. CASE ~Exists(At(p, Finals[run[p].at])) /\ run[p].at < 3
    BY <2>2, PlanFacts DEF Look, LookIn
  <2>3. CASE ~Exists(At(p, Finals[run[p].at])) /\ ~(run[p].at < 3)
    <3> DEFINE pc == CASE run[p].pc = "check" -> "lock"
                       [] run[p].pc # "check" /\ Cli -> "build"
                       [] OTHER -> "write"
    <3>1. pc \in {"lock", "build", "write"}
      OBVIOUS
    <3>2. Becomes(p, done(pc))
      BY <2>3, PlanFacts DEF Look, LookIn
    <3> QED
      BY <3>1, <3>2
  <2> QED
    BY <2>1, <2>2, <2>3
<1> HIDE DEF held, further, done
<1> QED
  BY <1>1, <1>3, <1>4, <1>5, FirstPlace, BecomesTypes, LeaveTypes

LEMMA ReserveTypes ==
  ASSUME TypeOK, NEW p \in Processes, TakeLock(p) \/ GiveBack(p) \/ Build(p)
  PROVE  TypeOK'
<1>1. run[p] \in Runs /\ files' \in Directory /\ faults' \in 0..MaxFaults
  BY RunType, FaultsType, EffectType DEF TakeLock, GiveBack, Build
<1> DEFINE taken == [run[p] EXCEPT !.pc = "recheck", !.at = 1]
           built == [run[p] EXCEPT !.pc = "write"]
<1>2. taken \in Runs /\ WellPlaced(taken)
  <2>1. taken \in Runs /\ taken.at = 1
    BY <1>1 DEF Runs, Labels
  <2> QED
    BY <2>1, FirstPlace
<1>3. built \in Runs /\ (Build(p) => WellPlaced(built))
  BY <1>1, RunType DEF Runs, Labels, WellPlaced, Build
<1> HIDE DEF taken, built
<1>4. ASSUME TakeLock(p)
      PROVE  TypeOK'
  <2>1. Becomes(p, taken) \/ Occupied(p)
    BY <1>4, Zenon DEF TakeLock, taken
  <2> QED
    BY <1>1, <1>2, <2>1, BecomesTypes, LeaveTypes
<1>5. ASSUME GiveBack(p)
      PROVE  TypeOK'
  <2>1. run[p].error \in {"none", "exception", "interrupt", "abandoned",
                          "crash"}
    BY <1>1 DEF Runs
  <2>2. Occupied(p) \/ End(p, run[p].error)
    BY <1>5, Zenon DEF GiveBack
  <2> QED
    BY <1>1, <2>1, <2>2, LeaveTypes
<1>6. ASSUME Build(p)
      PROVE  TypeOK'
  <2>1. Becomes(p, built)
    BY <1>6 DEF Build, built
  <2> QED
    BY <1>1, <1>3, <1>6, <2>1, BecomesTypes
<1> QED
  BY <1>4, <1>5, <1>6

LEMMA WriteTypes ==
  ASSUME TypeOK, NEW p \in Processes, Write(p)
  PROVE  TypeOK'
<1>1. run[p] \in Runs /\ files' \in Directory /\ faults' \in 0..MaxFaults
  BY RunType, FaultsType, EffectType DEF Write
<1>2. /\ run[p].at \in 1..16
      /\ Target(p) \in Temps \cup Outputs
      /\ Op(p) = "fill" => Target(p) \in Temps
      /\ Op(p) = "create" => Target(p) \in Outputs
  BY CallType DEF Write
<1> DEFINE noted == Noted(p)
           onward == Onward(noted)
<1>3. noted \in Runs /\ noted.at = run[p].at /\ noted.pc = "write"
  <2>1. DigestOf(At(p, Target(p))) \in SUBSET Authors
    BY <1>2, NamesSplit, AtType, DigestType
  <2>2. /\ Op(p) = "fill" => Append(run[p].temps, Target(p)) \in Seq(Temps)
        /\ Op(p) = "create" =>
             Append(run[p].outputs, Target(p)) \in Seq(Outputs)
        /\ Append(run[p].digests, DigestOf(At(p, Target(p)))) \in Digests
    BY <1>1, <1>2, <2>1, AppendProperties DEF Runs, Digests, Outputs
  <2> QED
    BY <1>1, <2>2 DEF Noted, Runs, Outputs, Write
<1> HIDE DEF noted
<1>4. onward \in Runs /\ WellPlaced(onward)
  <2>1. CASE run[p].at = 16
    BY <1>3, <2>1, PlanFacts DEF Onward, Runs, Labels, WellPlaced
  <2>2. CASE run[p].at # 16
    <3>1. run[p].at + 1 \in 1..16 /\ run[p].at + 1 \in Nat
      BY <1>2, <2>2
    <3>2. onward = [noted EXCEPT !.at = run[p].at + 1]
      BY <1>3, <2>2, PlanFacts DEF Onward
    <3>3. onward \in Runs /\ onward.pc = "write"
      BY <1>3, <3>1, <3>2 DEF Runs
    <3>4. onward.at \in DOMAIN Plan
      BY <1>3, <3>1, <3>2, PlanFacts DEF Runs
    <3> QED
      BY <3>3, <3>4 DEF WellPlaced
  <2> QED
    BY <2>1, <2>2
<1> HIDE DEF onward
<1>5. Becomes(p, onward) \/ Unwind(p, "exception")
  BY Zenon DEF Write, onward, noted
<1> QED
  BY <1>1, <1>4, <1>5, BecomesTypes, LeaveTypes

LEMMA CleanupTypes ==
  ASSUME TypeOK, NEW p \in Processes,
         Unlink(p) \/ Release(p) \/ ReleaseAgain(p)
  PROVE  TypeOK'
<1>1. run[p] \in Runs /\ files' \in Directory /\ faults' \in 0..MaxFaults
  BY RunType, FaultsType, EffectType DEF Unlink, Release, ReleaseAgain
<1>2. ASSUME Unlink(p)
      PROVE  TypeOK'
  <2> DEFINE r == run[p]
             done == [r EXCEPT !.pc = "release"]
             fewerTemps == [r EXCEPT !.temps = Tail(@)]
             fewerOutputs == [r EXCEPT !.outputs = Tail(@)]
  <2>1. done \in Runs /\ WellPlaced(done)
    BY <1>1 DEF Runs, Labels, WellPlaced
  <2>2. ASSUME Doomed(r) # <<>>, Head(Doomed(r)) \in Temps
        PROVE  fewerTemps \in Runs /\ WellPlaced(fewerTemps)
    <3>1. Tail(r.temps) \in Seq(Temps)
      BY <1>1, <2>2, DoomedLists, HeadTailProperties DEF Runs
    <3> QED
      BY <1>1, <1>2, <3>1 DEF Runs, Unlink, WellPlaced
  <2>3. ASSUME Doomed(r) # <<>>, Head(Doomed(r)) \notin Temps
        PROVE  fewerOutputs \in Runs /\ WellPlaced(fewerOutputs)
    <3>1. Tail(r.outputs) \in Seq(Outputs)
      BY <1>1, <2>3, DoomedLists, HeadTailProperties DEF Runs, Outputs
    <3> QED
      BY <1>1, <1>2, <3>1 DEF Runs, Unlink, WellPlaced, Outputs
  <2>4. \/ Doomed(r) = <<>> /\ Becomes(p, done)
        \/ /\ Doomed(r) # <<>> /\ Head(Doomed(r)) \in Temps
           /\ Becomes(p, fewerTemps)
        \/ /\ Doomed(r) # <<>> /\ Head(Doomed(r)) \notin Temps
           /\ Becomes(p, fewerOutputs)
    <3>1. CASE Doomed(r) = <<>>
      BY <1>2, <3>1 DEF Unlink
    <3>2. CASE Doomed(r) # <<>> /\ Head(Doomed(r)) \in Temps
      BY <1>2, <3>2 DEF Unlink
    <3>3. CASE Doomed(r) # <<>> /\ Head(Doomed(r)) \notin Temps
      BY <1>2, <3>3 DEF Unlink
    <3> QED
      BY <3>1, <3>2, <3>3
  <2> HIDE DEF done, fewerTemps, fewerOutputs
  <2> QED
    BY <1>1, <2>1, <2>2, <2>3, <2>4, BecomesTypes
<1>3. ASSUME Release(p)
      PROVE  TypeOK'
  <2> DEFINE r == [run[p] EXCEPT !.pc = IF Cli /\ run[p].error = "exception"
                                        THEN "again" ELSE "ended"]
  <2>1. r \in Runs /\ WellPlaced(r)
    BY <1>1 DEF Runs, Labels, WellPlaced
  <2>2. Becomes(p, r)
    BY <1>3 DEF Release
  <2> HIDE DEF r
  <2> QED
    BY <1>1, <2>1, <2>2, BecomesTypes
<1>4. ASSUME ReleaseAgain(p)
      PROVE  TypeOK'
  <2>1. run[p].error \in {"none", "exception", "interrupt", "abandoned",
                          "crash"}
    BY <1>1 DEF Runs
  <2> QED
    BY <1>1, <1>4, <2>1, LeaveTypes DEF ReleaseAgain
<1> QED
  BY <1>2, <1>3, <1>4

LEMMA StartTypes ==
  ASSUME TypeOK, NEW p \in Processes, Start(p)
  PROVE  TypeOK'
<1>1. run[p] \in Runs /\ files' \in Directory /\ faults' \in 0..MaxFaults
  BY RunType, FaultsType DEF Start
<1>2. PICK s \in Candidates :
        Becomes(p, [run[p] EXCEPT !.pc = "check", !.slot = s])
  BY DEF Start
<1> DEFINE r == [run[p] EXCEPT !.pc = "check", !.slot = s]
<1>3. r \in Runs
  BY <1>1, SlotsAssumption DEF Runs, Labels
<1>4. WellPlaced(r)
  BY <1>1, RunType DEF Runs, Start, WellPlaced
<1> HIDE DEF r
<1> QED
  BY <1>1, <1>2, <1>3, <1>4, BecomesTypes DEF r

LEMMA FaultTypes ==
  ASSUME TypeOK, NEW p \in Processes, Crash(p) \/ Raise(p) \/ Interrupt(p)
  PROVE  TypeOK'
<1>1. run[p] \in Runs /\ files \in Directory /\ Effect(p) \in Directory
      /\ faults' \in 0..MaxFaults
  BY RunType, FaultsType, EffectType DEF Crash, Raise, Interrupt
<1>2. ASSUME Crash(p)
      PROVE  TypeOK'
  BY <1>1, <1>2, LeaveTypes DEF Crash
<1>3. ASSUME Interrupt(p)
      PROVE  TypeOK'
  BY <1>1, <1>3, LeaveTypes DEF Interrupt
<1>4. ASSUME Raise(p)
      PROVE  TypeOK'
  <2> DEFINE to(pc, error) == [run[p] EXCEPT !.pc = pc, !.error = error]
  <2>1. \A pc \in {"giveBack", "again"}, error \in {"exception", "abandoned"} :
          to(pc, error) \in Runs /\ WellPlaced(to(pc, error))
    BY <1>1 DEF Runs, Labels, WellPlaced
  <2> HIDE DEF to
  <2>2. CASE run[p].pc = "lock"
    <3>1. Becomes(p, to("giveBack", "exception")) /\ files' = Effect(p)
      BY <1>4, <2>2 DEF Raise, to
    <3> QED
      BY <1>1, <2>1, <3>1, BecomesTypes
  <2>3. CASE run[p].pc = "build"
    <3>1. Becomes(p, to("again", "exception")) /\ files' = files
      BY <1>4, <2>3 DEF Raise, to
    <3> QED
      BY <1>1, <2>1, <3>1, BecomesTypes
  <2>4. CASE run[p].pc = "write"
    <3>1. Unwind(p, "exception")
      BY <1>4, <2>4 DEF Raise
    <3>2. files' = files \/ files' = With(p, Target(p), Absent)
      BY <1>4, <2>4 DEF Raise
    <3>3. Target(p) \in Names
      BY <2>4, CallType, NamesSplit
    <3>4. files' \in Directory
      BY <1>1, <3>2, <3>3, WithType, AbsentType
    <3> QED
      BY <1>1, <3>1, <3>4, LeaveTypes
  <2>5. CASE run[p].pc \in {"unlink", "release"} /\ Cli
    <3>1. Becomes(p, to("again", "abandoned")) /\ files' = files
      BY <1>4, <2>5 DEF Raise, to
    <3> QED
      BY <1>1, <2>1, <3>1, BecomesTypes
  <2>6. CASE /\ run[p].pc \notin {"lock", "build", "write"}
             /\ ~(run[p].pc \in {"unlink", "release"} /\ Cli)
    <3>1. End(p, "abandoned") /\ files' = files
      BY <1>4, <2>6 DEF Raise
    <3> QED
      BY <1>1, <3>1, LeaveTypes
  <2> QED
    BY <2>2, <2>3, <2>4, <2>5, <2>6
<1> QED
  BY <1>2, <1>3, <1>4

LEMMA LeftType ==
  ASSUME NEW name
  PROVE  Left(name) \in Files
<1>1. <<{Earlier}, {Earlier}>> \in Digests
  BY DEF Digests, Authors
<1> QED
  BY <1>1, FileType, EmptyLists DEF Left, Authors

LEMMA InitTypes == Init => TypeOK
<1> SUFFICES ASSUME Init PROVE TypeOK
  OBVIOUS
<1>1. PICK there \in SUBSET Residue :
        files = [f \in Slots \X Names |->
                   IF f \in there THEN Left(f[2]) ELSE Absent]
  BY DEF Init
<1>2. files \in [Slots \X Names -> Files]
  BY <1>1, LeftType, AbsentType
<1>3. 1 \in Slots
  BY SlotsAssumption DEF Slots
<1>4. Unstarted \in Runs /\ WellPlaced(Unstarted)
  <2>1. Unstarted.at = 1
    BY DEF Unstarted
  <2>2. Unstarted \in Runs
    BY <1>3, EmptyLists DEF Unstarted, Runs, Labels, Outputs
  <2> QED
    BY <2>1, <2>2, FirstPlace
<1>5. faults \in 0..MaxFaults
  BY SlotsAssumption DEF Init
<1> QED
  BY <1>2, <1>4, <1>5 DEF Init, TypeOK, WellPlaced

(* Directory and processes keep their types, for every set of processes,   *)
(* every choice of slots and every fault.                                  *)
THEOREM SlotsTyping == Spec => []TypeOK
<1>1. TypeOK /\ [Next]_vars => TypeOK'
  <2> SUFFICES ASSUME TypeOK, [Next]_vars PROVE TypeOK'
    OBVIOUS
  <2>1. CASE UNCHANGED vars
    BY <2>1 DEF vars, TypeOK
  <2>2. CASE AllEnded
    BY <2>2 DEF AllEnded, vars, TypeOK
  <2>3. ASSUME NEW p \in Processes,
               Start(p) \/ Step(p) \/ Crash(p) \/ Raise(p) \/ Interrupt(p)
        PROVE  TypeOK'
    BY <2>3, StartTypes, LookTypes, ReserveTypes, WriteTypes, CleanupTypes,
       FaultTypes DEF Step
  <2> QED
    BY <2>1, <2>2, <2>3 DEF Next
<1> QED
  BY <1>1, InitTypes, PTL DEF Spec

-----------------------------------------------------------------------------
(* The lock.                                                               *)

LockOf(p) == File("lock", p, <<>>)

(* A process that has a slot has its lock there; write_report never comes  *)
(* to the steps of run_eval.                                               *)
HoldersLock ==
  \A p \in Processes :
    /\ run[p].pc \notin {"again", "build"}
    /\ Holds(p) => At(p, "lock") = LockOf(p)

(* What a step of p leaves to the others and keeps for p.                  *)
OthersKept(p) ==
  \A q \in Processes \ {p} :
    Holds(q) => files'[<<run[q].slot, "lock">>] = files[<<run[q].slot, "lock">>]

LockKept(p) ==
  files'[<<run[p].slot, "lock">>] = files[<<run[p].slot, "lock">>]

LEMMA LockIdentity ==
  /\ \A p, q : LockOf(p) = LockOf(q) => p = q
  /\ \A p : Exists(LockOf(p))
  BY DEF LockOf, File, Exists

(* A change of a file that is no lock.                                     *)
LEMMA OtherFile ==
  ASSUME TypeOK, NEW p \in Processes, NEW name \in Temps \cup Outputs,
         NEW file, files' = With(p, name, file)
  PROVE  OthersKept(p) /\ LockKept(p)
<1>1. name # "lock" /\ <<run[p].slot, "lock">> \in Slots \X Names
  BY NamesSplit, RunType DEF Runs
<1>2. \A q \in Processes : <<run[q].slot, "lock">> \in Slots \X Names
  BY NamesSplit, RunType DEF Runs
<1> QED
  BY <1>1, <1>2 DEF With, OthersKept, LockKept, TypeOK

LEMMA SameFiles ==
  ASSUME NEW p, files' = files
  PROVE  OthersKept(p) /\ LockKept(p)
  BY DEF OthersKept, LockKept

(* The effect of a call outside the lock's own steps.                      *)
LEMMA EffectKeepsLocks ==
  ASSUME TypeOK, NEW p \in Processes, files' = Effect(p),
         run[p].pc \notin {"lock", "giveBack", "release", "again"}
  PROVE  OthersKept(p) /\ LockKept(p)
<1>1. CASE run[p].pc = "write"
  <2>1. Target(p) \in Temps \cup Outputs
        /\ (Op(p) = "replace" => Target(p) \in Outputs)
    BY <1>1, CallType
  <2>2. CASE Op(p) = "replace"
    <3>1. files' = [files EXCEPT
                ![<<run[p].slot, Target(p)>>] = At(p, TempOf(Target(p))),
                ![<<run[p].slot, TempOf(Target(p))>>] = Absent]
      BY <1>1, <2>2 DEF Effect, Ready
    <3>2. Target(p) # "lock" /\ TempOf(Target(p)) # "lock"
      BY <2>1, <2>2, NamesSplit
    <3>3. \A s \in Slots : files'[<<s, "lock">>] = files[<<s, "lock">>]
      BY <3>1, <3>2, NamesSplit, RunType DEF Directory
    <3> QED
      BY <3>3, RunType DEF OthersKept, LockKept, Runs
  <2>3. CASE Op(p) # "replace"
    <3>1. \/ files' = files
          \/ \E file : files' = With(p, Target(p), file)
      <4>1. CASE Op(p) \in {"open", "create"}
        BY <1>1, <4>1 DEF Effect, Ready
      <4>2. CASE Op(p) \notin {"open", "create"}
                 /\ Op(p) = "fill" /\ At(p, Target(p)) = File("empty", p, <<>>)
        BY <1>1, <4>2 DEF Effect, Ready
      <4>3. CASE Op(p) \notin {"open", "create"}
                 /\ ~(Op(p) = "fill" /\ At(p, Target(p)) = File("empty", p, <<>>))
        BY <1>1, <2>3, <4>3 DEF Effect, Ready
      <4> QED
        BY <4>1, <4>2, <4>3
    <3> QED
      BY <2>1, <3>1, OtherFile, SameFiles
  <2> QED
    BY <2>2, <2>3
<1>2. CASE run[p].pc = "unlink" /\ Doomed(run[p]) # <<>>
  <2>1. files' = With(p, Head(Doomed(run[p])), Absent)
    BY <1>2 DEF Effect, Ready
  <2> QED
    BY <1>2, <2>1, DoomedType, RunType, OtherFile
<1>3. CASE run[p].pc # "write" /\ ~(run[p].pc = "unlink" /\ Doomed(run[p]) # <<>>)
  <2>1. files' = files
    BY <1>3 DEF Effect, Ready
  <2> QED
    BY <2>1, SameFiles
<1> QED
  BY <1>1, <1>2, <1>3

(* Taking and releasing the lock of one's own slot.                        *)
LEMMA LockEffect ==
  ASSUME TypeOK, HoldersLock, NEW p \in Processes,
         run[p].pc \in {"lock", "giveBack", "release"},
         Possible(p), files' = Effect(p)
  PROVE  /\ OthersKept(p)
         /\ run[p].pc = "lock" =>
              files'[<<run[p].slot, "lock">>] = LockOf(p)
<1>1. \A q \in Processes : <<run[q].slot, "lock">> \in Slots \X Names
  BY NamesSplit, RunType DEF Runs
<1>2. files' = With(p, "lock", LockOf(p)) \/ files' = With(p, "lock", Absent)
  BY DEF Effect, LockOf, Ready
<1>3. ASSUME NEW q \in Processes \ {p}, Holds(q)
      PROVE  run[q].slot # run[p].slot
  <2> SUFFICES ASSUME run[q].slot = run[p].slot PROVE FALSE
    OBVIOUS
  <2>1. At(p, "lock") = LockOf(q)
    BY <1>3 DEF HoldersLock, At
  <2>2. CASE run[p].pc = "lock"
    <3>1. ~Exists(At(p, "lock"))
      BY <2>2 DEF Possible, LockFree, NameFree, InputThere, Ready
    <3> QED
      BY <2>1, <3>1, LockIdentity
  <2>3. CASE run[p].pc \in {"giveBack", "release"}
    BY <1>3, <2>1, <2>3, LockIdentity DEF HoldersLock, Holds
  <2> QED
    BY <2>2, <2>3
<1>4. OthersKept(p)
  BY <1>1, <1>2, <1>3 DEF OthersKept, With, TypeOK
<1>5. ASSUME run[p].pc = "lock"
      PROVE  files'[<<run[p].slot, "lock">>] = LockOf(p)
  <2>1. files' = With(p, "lock", LockOf(p))
    BY <1>5 DEF Effect, LockOf, Ready
  <2>2. <<run[p].slot, "lock">> \in DOMAIN files
    BY <1>1 DEF TypeOK
  <2> QED
    BY <2>1, <2>2, Zenon DEF With
<1> QED
  BY <1>4, <1>5

(* A step after which p still has the lock if it holds the slot.           *)
LEMMA LockStep ==
  ASSUME TypeOK, HoldersLock, NEW p \in Processes, NEW r, Becomes(p, r),
         r.pc \notin {"again", "build"}, OthersKept(p),
         r.pc \in {"recheck", "giveBack", "write", "unlink", "release"} =>
           /\ r.slot = run[p].slot
           /\ files'[<<run[p].slot, "lock">>] = LockOf(p)
  PROVE  HoldersLock'
<1>1. run'[p] = r /\ \A q \in Processes \ {p} : run'[q] = run[q]
  BY DEF Becomes, TypeOK
<1>2. ASSUME NEW q \in Processes
      PROVE  /\ run'[q].pc \notin {"again", "build"}
             /\ Holds(q)' => At(q, "lock")' = LockOf(q)
  BY <1>1 DEF HoldersLock, Holds, OthersKept, At
<1> QED
  BY <1>2 DEF HoldersLock

(* A process that held the slot and goes on with its lock.                 *)
LEMMA HeldStep ==
  ASSUME TypeOK, HoldersLock, NEW p \in Processes, NEW r, Becomes(p, r),
         r.pc \notin {"again", "build"}, OthersKept(p),
         \/ r.pc \notin {"recheck", "giveBack", "write", "unlink", "release"}
         \/ Holds(p) /\ LockKept(p) /\ r.slot = run[p].slot
  PROVE  HoldersLock'
<1>1. Holds(p) /\ LockKept(p) => files'[<<run[p].slot, "lock">>] = LockOf(p)
  BY DEF HoldersLock, LockKept, At
<1> QED
  BY <1>1, LockStep

LEMMA EndStep ==
  ASSUME TypeOK, HoldersLock, ~Cli, NEW p \in Processes, OthersKept(p),
         Occupied(p) \/ \E error : End(p, error)
  PROVE  HoldersLock'
<1>1. PICK error : End(p, error)
  BY Zenon DEF Occupied
<1> DEFINE r == [run[p] EXCEPT !.pc = "ended", !.error = error]
<1>2. r.pc = "ended" /\ Becomes(p, r)
  BY <1>1, RunType DEF End, Runs
<1> HIDE DEF r
<1> QED
  BY <1>2, HeldStep

LEMMA UnwindStep ==
  ASSUME TypeOK, HoldersLock, NEW p \in Processes, NEW error,
         Unwind(p, error), run[p].pc = "write", OthersKept(p), LockKept(p)
  PROVE  HoldersLock'
<1> DEFINE r == [run[p] EXCEPT !.pc = "unlink", !.error = error]
<1>1. /\ r.pc = "unlink" /\ r.slot = run[p].slot /\ Becomes(p, r)
      /\ Holds(p)
  BY RunType DEF Unwind, Runs, Holds
<1> HIDE DEF r
<1> QED
  BY <1>1, HeldStep

LEMMA ReserveLocks ==
  ASSUME TypeOK, HoldersLock, ~Cli, NEW p \in Processes,
         Start(p) \/ Look(p) \/ TakeLock(p) \/ GiveBack(p)
  PROVE  HoldersLock'
<1>1. run[p] \in Runs
  BY RunType
<1>2. ASSUME Start(p)
      PROVE  HoldersLock'
  <2>1. PICK s \in Candidates :
          Becomes(p, [run[p] EXCEPT !.pc = "check", !.slot = s])
    BY <1>2 DEF Start
  <2> DEFINE r == [run[p] EXCEPT !.pc = "check", !.slot = s]
  <2>2. r.pc = "check" /\ Becomes(p, r)
    BY <1>1, <2>1 DEF Runs
  <2>3. OthersKept(p)
    BY <1>2, SameFiles DEF Start
  <2> HIDE DEF r
  <2> QED
    BY <2>2, <2>3, HeldStep
<1>3. ASSUME Look(p)
      PROVE  HoldersLock'
  <2>1. OthersKept(p) /\ LockKept(p)
    BY <1>3, SameFiles DEF Look, LookIn
  <2> DEFINE onward(r) ==
               /\ Becomes(p, r) /\ r.slot = run[p].slot
               /\ r.pc \in {"giveBack", "write", run[p].pc, "lock"}
               /\ run[p].pc = "check" => r.pc \in {"check", "lock"}
  <2>2. Occupied(p) \/ (\E r : onward(r))
    <3>1. CASE Exists(At(p, Finals[run[p].at])) /\ run[p].pc = "check"
      BY <1>3, <3>1, Zenon DEF Look, LookIn
    <3>2. CASE Exists(At(p, Finals[run[p].at])) /\ run[p].pc # "check"
      <4> DEFINE r == [run[p] EXCEPT !.pc = "giveBack"]
      <4>1. Becomes(p, r) /\ r.slot = run[p].slot /\ r.pc = "giveBack"
        BY <1>1, <1>3, <3>2 DEF Look, LookIn, Runs
      <4> HIDE DEF r
      <4> QED
        BY <3>2, <4>1
    <3>3. CASE /\ ~Exists(At(p, Finals[run[p].at]))
               /\ run[p].at < Len(Finals)
      <4> DEFINE r == [run[p] EXCEPT !.at = run[p].at + 1]
      <4>1. Becomes(p, r) /\ r.slot = run[p].slot /\ r.pc = run[p].pc
        BY <1>1, <1>3, <3>3 DEF Look, LookIn, Runs
      <4> HIDE DEF r
      <4> QED
        BY <4>1
    <3>4. CASE /\ ~Exists(At(p, Finals[run[p].at]))
               /\ ~(run[p].at < Len(Finals))
      <4> DEFINE pc == CASE run[p].pc = "check" -> "lock"
                         [] run[p].pc # "check" /\ Cli -> "build"
                         [] OTHER -> "write"
                 r == [run[p] EXCEPT !.at = 1, !.pc = pc]
      <4>1. run[p].pc = "check" => pc = "lock"
        OBVIOUS
      <4>2. run[p].pc # "check" => pc = "write"
        OBVIOUS
      <4>3. Becomes(p, r)
        BY <1>3, <3>4, Zenon DEF Look, LookIn
      <4>4. r.slot = run[p].slot /\ r.pc = pc
        BY <1>1 DEF Runs
      <4> HIDE DEF r, pc
      <4> QED
        BY <4>1, <4>2, <4>3, <4>4
    <3> QED
      BY <3>1, <3>2, <3>3, <3>4
  <2>3. run[p].pc = "recheck" => Holds(p)
    BY DEF Holds
  <2>4. run[p].pc \in {"check", "recheck"}
    BY <1>3 DEF Look, LookIn
  <2>5. CASE Occupied(p)
    BY <2>1, <2>5, EndStep
  <2>6. ASSUME NEW r, onward(r)
        PROVE  HoldersLock'
    <3>1. CASE run[p].pc = "check"
      BY <2>1, <2>6, <3>1, HeldStep
    <3>2. CASE run[p].pc = "recheck"
      BY <2>1, <2>3, <2>6, <3>2, HeldStep
    <3> QED
      BY <2>4, <3>1, <3>2
  <2> HIDE DEF onward
  <2> QED
    BY <2>2, <2>5, <2>6
<1>4. ASSUME TakeLock(p)
      PROVE  HoldersLock'
  <2>1. CASE Possible(p)
    <3> DEFINE r == [run[p] EXCEPT !.pc = "recheck", !.at = 1]
    <3>1. /\ r.pc = "recheck" /\ r.slot = run[p].slot
          /\ Becomes(p, r) /\ files' = Effect(p) /\ run[p].pc = "lock"
      BY <1>1, <1>4, <2>1 DEF TakeLock, Runs
    <3> HIDE DEF r
    <3> QED
      BY <2>1, <3>1, LockEffect, LockStep
  <2>2. CASE ~Possible(p)
    <3>1. Occupied(p) /\ files' = files
      BY <1>4, <2>2, Zenon DEF TakeLock
    <3> QED
      BY <3>1, SameFiles, EndStep
  <2> QED
    BY <2>1, <2>2
<1>5. ASSUME GiveBack(p)
      PROVE  HoldersLock'
  <2>1. files' = Effect(p) /\ run[p].pc = "giveBack"
    BY <1>5 DEF GiveBack
  <2>2. Possible(p)
    BY <2>1 DEF Possible, LockFree, NameFree, InputThere, Ready
  <2>3. Occupied(p) \/ End(p, run[p].error)
    BY <1>5, Zenon DEF GiveBack
  <2> QED
    BY <2>1, <2>2, <2>3, LockEffect, EndStep
<1> QED
  BY <1>2, <1>3, <1>4, <1>5

LEMMA WriteLocks ==
  ASSUME TypeOK, HoldersLock, ~Cli, NEW p \in Processes,
         Write(p) \/ Unlink(p) \/ Release(p)
  PROVE  HoldersLock'
<1>1. run[p] \in Runs
  BY RunType
<1>2. ASSUME Write(p)
      PROVE  HoldersLock'
  <2>1. run[p].pc = "write" /\ Holds(p)
    BY <1>2 DEF Write, Holds
  <2>2. OthersKept(p) /\ LockKept(p)
    <3>1. files' = Effect(p) \/ files' = files
      BY <1>2, Zenon DEF Write
    <3> QED
      BY <2>1, <3>1, EffectKeepsLocks, SameFiles
  <2> DEFINE r == Onward(Noted(p))
  <2>3. Becomes(p, r) \/ Unwind(p, "exception")
    BY <1>2, Zenon DEF Write
  <2>4. r.slot = run[p].slot /\ r.pc \in {"write", "unlink"}
    <3>1. /\ Noted(p).slot = run[p].slot /\ Noted(p).pc = "write"
          /\ {"slot", "pc", "at"} \subseteq DOMAIN Noted(p)
      BY <1>1, <2>1 DEF Noted, Runs
    <3> QED
      BY <3>1 DEF Onward
  <2> HIDE DEF r
  <2> QED
    BY <2>1, <2>2, <2>3, <2>4, HeldStep, UnwindStep
<1>3. ASSUME Unlink(p)
      PROVE  HoldersLock'
  <2>1. run[p].pc = "unlink" /\ Holds(p) /\ files' = Effect(p)
    BY <1>3 DEF Unlink, Holds
  <2>2. OthersKept(p) /\ LockKept(p)
    BY <2>1, EffectKeepsLocks
  <2>3. \E r : /\ Becomes(p, r) /\ r.slot = run[p].slot
              /\ r.pc \in {"unlink", "release"}
    <3> DEFINE done == [run[p] EXCEPT !.pc = "release"]
               fewerTemps == [run[p] EXCEPT !.temps = Tail(@)]
               fewerOutputs == [run[p] EXCEPT !.outputs = Tail(@)]
    <3>1. \/ Becomes(p, done) \/ Becomes(p, fewerTemps)
          \/ Becomes(p, fewerOutputs)
      BY <1>3 DEF Unlink
    <3>2. /\ done.slot = run[p].slot /\ done.pc = "release"
          /\ fewerTemps.slot = run[p].slot /\ fewerTemps.pc = "unlink"
          /\ fewerOutputs.slot = run[p].slot /\ fewerOutputs.pc = "unlink"
      BY <1>1, <2>1 DEF Runs
    <3> HIDE DEF done, fewerTemps, fewerOutputs
    <3> QED
      BY <3>1, <3>2
  <2> QED
    BY <2>1, <2>2, <2>3, HeldStep
<1>4. ASSUME Release(p)
      PROVE  HoldersLock'
  <2>1. files' = Effect(p) /\ run[p].pc = "release"
    BY <1>4 DEF Release
  <2>2. Possible(p)
    BY <2>1 DEF Possible, LockFree, NameFree, InputThere, Ready
  <2> DEFINE r == [run[p] EXCEPT !.pc = "ended"]
  <2>3. Becomes(p, r) /\ r.pc = "ended"
    BY <1>1, <1>4 DEF Release, Runs
  <2> HIDE DEF r
  <2> QED
    BY <2>1, <2>2, <2>3, LockEffect, HeldStep
<1> QED
  BY <1>2, <1>3, <1>4

LEMMA FaultLocks ==
  ASSUME TypeOK, HoldersLock, ~Cli, NEW p \in Processes,
         Crash(p) \/ Raise(p) \/ Interrupt(p)
  PROVE  HoldersLock'
<1>1. run[p] \in Runs
  BY RunType
<1>2. ASSUME Crash(p)
      PROVE  HoldersLock'
  BY <1>2, SameFiles, EndStep DEF Crash
<1>3. ASSUME Interrupt(p)
      PROVE  HoldersLock'
  <2>1. files' = files \/ (Possible(p) /\ files' = Effect(p))
    BY <1>3 DEF Interrupt
  <2>2. run[p].pc # "again"
    BY DEF HoldersLock
  <2>3. OthersKept(p)
    BY <2>1, <2>2, SameFiles, LockEffect, EffectKeepsLocks
  <2>4. CASE run[p].pc = "write"
    <3>1. Unwind(p, "interrupt")
      BY <1>3, <2>4 DEF Interrupt
    <3>2. LockKept(p)
      BY <2>1, <2>4, SameFiles, EffectKeepsLocks
    <3> QED
      BY <2>3, <2>4, <3>1, <3>2, UnwindStep
  <2>5. CASE run[p].pc # "write"
    <3>1. End(p, "abandoned")
      BY <1>3, <2>5 DEF Interrupt
    <3> QED
      BY <2>3, <3>1, EndStep
  <2> QED
    BY <2>4, <2>5
<1>4. ASSUME Raise(p)
      PROVE  HoldersLock'
  <2>1. CASE run[p].pc = "lock"
    <3> DEFINE r == [run[p] EXCEPT !.pc = "giveBack", !.error = "exception"]
    <3>1. Becomes(p, r) /\ Possible(p) /\ files' = Effect(p)
      BY <1>4, <2>1 DEF Raise
    <3>2. r.slot = run[p].slot /\ r.pc = "giveBack"
      BY <1>1 DEF Runs
    <3> HIDE DEF r
    <3> QED
      BY <2>1, <3>1, <3>2, LockEffect, LockStep
  <2>2. CASE run[p].pc = "write"
    <3>1. Unwind(p, "exception")
      BY <1>4, <2>2 DEF Raise
    <3>2. files' = files \/ files' = With(p, Target(p), Absent)
      BY <1>4, <2>2 DEF Raise
    <3>3. OthersKept(p) /\ LockKept(p)
      BY <2>2, <3>2, CallType, OtherFile, SameFiles
    <3> QED
      BY <2>2, <3>1, <3>3, UnwindStep
  <2>3. CASE run[p].pc \notin {"lock", "write"}
    <3>1. run[p].pc # "build"
      BY DEF HoldersLock
    <3>2. End(p, "abandoned") /\ files' = files
      BY <1>4, <2>3, <3>1 DEF Raise
    <3> QED
      BY <3>2, SameFiles, EndStep
  <2> QED
    BY <2>1, <2>2, <2>3
<1> QED
  BY <1>2, <1>3, <1>4

(* The inductive invariant of write_report: whoever has a slot has its     *)
(* lock.                                                                   *)
THEOREM LockInvariant ==
  ASSUME ~Cli
  PROVE  Spec => []HoldersLock
<1>1. Init => HoldersLock
  <2> SUFFICES ASSUME Init PROVE HoldersLock
    OBVIOUS
  <2>1. \A p \in Processes : run[p].pc = "idle"
    BY DEF Init, Unstarted
  <2> QED
    BY <2>1 DEF HoldersLock, Holds
<1>2. TypeOK /\ HoldersLock /\ [Next]_vars => HoldersLock'
  <2> SUFFICES ASSUME TypeOK, HoldersLock, [Next]_vars PROVE HoldersLock'
    OBVIOUS
  <2>1. CASE UNCHANGED vars
    BY <2>1 DEF vars, HoldersLock, Holds, At
  <2>2. CASE AllEnded
    BY <2>2 DEF AllEnded, vars, HoldersLock, Holds, At
  <2>3. ASSUME NEW p \in Processes,
               Start(p) \/ Step(p) \/ Crash(p) \/ Raise(p) \/ Interrupt(p)
        PROVE  HoldersLock'
    <3>1. ~Build(p) /\ ~ReleaseAgain(p)
      BY DEF HoldersLock, Build, ReleaseAgain
    <3> QED
      BY <2>3, <3>1, ReserveLocks, WriteLocks, FaultLocks DEF Step
  <2> QED
    BY <2>1, <2>2, <2>3 DEF Next
<1> QED
  BY <1>1, <1>2, SlotsTyping, PTL DEF Spec

(* Callers of write_report never have the same slot at the same time,      *)
(* however many they are and whatever fails.                               *)
THEOREM SlotsAreExclusive ==
  ASSUME ~Cli
  PROVE  Spec => []OneHolder
<1>1. HoldersLock => OneHolder
  <2> SUFFICES ASSUME HoldersLock, NEW p \in Processes, NEW q \in Processes,
                      Holds(p), Holds(q), run[p].slot = run[q].slot
               PROVE  p = q
    BY DEF OneHolder
  <2>1. At(p, "lock") = LockOf(p) /\ At(q, "lock") = LockOf(q)
    BY DEF HoldersLock
  <2> QED
    BY <2>1, LockIdentity DEF At
<1> QED
  BY <1>1, LockInvariant, PTL

-----------------------------------------------------------------------------
(* Whose files a process changes.                                          *)

(* p may change the file.                                                  *)
MayChange(p, file) ==
  Exists(file) => file.by # Earlier /\ (Cli \/ file.by = p)

(* Names of temporary files and outputs that a run has created.            *)
Opened(r, name) ==
  \E i \in 1..16 :
    i < r.at /\ Plan[i][1] \in {"open", "create"} /\ Plan[i][2] = name

Has(list, name) == \E j \in 1..Len(list) : list[j] = name

Listed(r, name) == Has(r.temps, name) \/ Has(r.outputs, name)

Holding == {"recheck", "giveBack", "build", "write", "unlink", "release"}

(* The names a run may still change without looking.                       *)
Claimed(r) ==
  {name \in Names :
     \/ name = "lock" /\ r.pc \in Holding \cup {"again"}
     \/ r.pc = "write" /\ Opened(r, name)
     \/ r.pc \in {"write", "unlink"} /\ Listed(r, name)}

(* Before it writes, a run has created nothing but its lock.               *)
Fresh(r) ==
  /\ r.pc \in {"idle", "check", "lock", "recheck", "giveBack", "build"} =>
       r.temps = <<>> /\ r.outputs = <<>>
  /\ r.pc = "build" => r.at = 1

(* The inductive invariant.                                                *)
ClaimsInv ==
  \A p \in Processes :
    /\ Fresh(run[p])
    /\ \A name \in Claimed(run[p]) : MayChange(p, At(p, name))

(* What a step of p may do to the directory.                               *)
Changing(p) ==
  \/ run[p].pc \in Holding \cup {"again"}
  \/ run[p].pc = "lock" /\ ~Exists(At(p, "lock"))

Touch(p) ==
  \A f \in Slots \X Names :
    files'[f] # files[f] =>
      /\ Changing(p) /\ f[1] = run[p].slot
      /\ MayChange(p, files[f]) /\ MayChange(p, files'[f])

Moves(p) == files' # files => run'[p] # run[p]

LEMMA ClaimedNames ==
  /\ \A r : Claimed(r) \subseteq Names
  /\ \A p \in Processes :
       Holds(p) <=> run[p].pc \in Holding
  BY DEF Claimed, Holds, Holding

LEMMA AbsentMayChange == \A p : MayChange(p, Absent)
  BY DEF MayChange, Absent, File, Exists

LEMMA OwnMayChange ==
  ASSUME NEW p \in Processes, NEW kind, NEW digests
  PROVE  MayChange(p, File(kind, p, digests))
  BY SlotsAssumption DEF MayChange, File

LEMMA SameTouch ==
  ASSUME NEW p, files' = files
  PROVE  Touch(p) /\ Moves(p)
  BY DEF Touch, Moves

(* One file of a slot changes.                                             *)
LEMMA WithTouch ==
  ASSUME TypeOK, NEW p \in Processes, Changing(p), NEW name \in Names,
         NEW file, MayChange(p, At(p, name)), MayChange(p, file),
         files' = With(p, name, file)
  PROVE  Touch(p)
<1>1. \A f \in Slots \X Names :
        files'[f] = IF f = <<run[p].slot, name>> THEN file ELSE files[f]
  BY DEF With, TypeOK
<1> QED
  BY <1>1 DEF Touch, At

(* What precedes a call in the plan.                                       *)
LEMMA PlanOrder ==
  \A i \in 1..16 :
    /\ Plan[i][1] = "fill" =>
         \E j \in 1..16 : j < i /\ Plan[j] = <<"open", Plan[i][2]>>
    /\ Plan[i][1] = "replace" =>
         /\ \E j \in 1..16 : j < i /\ Plan[j] = <<"create", Plan[i][2]>>
         /\ \E j \in 1..16 :
              j < i /\ Plan[j] = <<"open", TempOf(Plan[i][2])>>
<1> DEFINE Opens(n) == CASE n = "jsonTmp" -> 1 [] n = "mdTmp" -> 3
                         [] OTHER -> 13
           Creates(n) == CASE n = "json" -> 5 [] n = "md" -> 6
                           [] OTHER -> 15
<1> SUFFICES ASSUME NEW i \in 1..16
             PROVE  /\ Plan[i][1] = "fill" =>
                         \E j \in 1..16 :
                           j < i /\ Plan[j] = <<"open", Plan[i][2]>>
                    /\ Plan[i][1] = "replace" =>
                         /\ \E j \in 1..16 :
                              j < i /\ Plan[j] = <<"create", Plan[i][2]>>
                         /\ \E j \in 1..16 :
                              /\ j < i
                              /\ Plan[j] = <<"open", TempOf(Plan[i][2])>>
  OBVIOUS
<1>1. ASSUME Plan[i][1] = "fill"
      PROVE  LET j == Opens(Plan[i][2]) IN
               j \in 1..16 /\ j < i /\ Plan[j] = <<"open", Plan[i][2]>>
  BY <1>1 DEF Plan
<1>2. ASSUME Plan[i][1] = "replace"
      PROVE  LET j == Creates(Plan[i][2]) IN
               j \in 1..16 /\ j < i /\ Plan[j] = <<"create", Plan[i][2]>>
  BY <1>2 DEF Plan
<1>3. ASSUME Plan[i][1] = "replace"
      PROVE  LET j == Opens(TempOf(Plan[i][2])) IN
               /\ j \in 1..16 /\ j < i
               /\ Plan[j] = <<"open", TempOf(Plan[i][2])>>
  BY <1>3 DEF Plan, TempOf
<1> HIDE DEF Opens, Creates
<1> QED
  BY <1>1, <1>2, <1>3

(* What a call changes belongs to its run.                                 *)
LEMMA CallClaims ==
  ASSUME TypeOK, NEW p \in Processes, run[p].pc = "write"
  PROVE  /\ Op(p) = "fill" => Target(p) \in Claimed(run[p])
         /\ Op(p) = "replace" =>
              /\ Target(p) \in Claimed(run[p])
              /\ TempOf(Target(p)) \in Claimed(run[p])
<1>1. /\ run[p].at \in 1..16 /\ Target(p) \in Names
      /\ Op(p) = "replace" => TempOf(Target(p)) \in Names
  BY CallType, NamesSplit
<1>2. ASSUME NEW op \in {"open", "create"}, NEW name \in Names,
             \E j \in 1..16 : j < run[p].at /\ Plan[j] = <<op, name>>
      PROVE  name \in Claimed(run[p])
  BY <1>2 DEF Claimed, Opened
<1> QED
  BY <1>1, <1>2, PlanOrder DEF Op, Target

LEMMA DoomedListed ==
  ASSUME NEW r \in Runs, Doomed(r) # <<>>
  PROVE  Listed(r, Head(Doomed(r)))
<1>1. r.temps \in Seq(Temps \cup Outputs) /\ r.outputs \in Seq(Temps \cup Outputs)
      /\ <<>> \in Seq(Temps \cup Outputs)
  BY DEF Runs, Outputs
<1>2. Doomed(r) \in Seq(Temps \cup Outputs)
  BY <1>1, ConcatProperties DEF Doomed
<1>3. Head(Doomed(r)) = Doomed(r)[1] /\ Len(Doomed(r)) >= 1
  BY <1>2, HeadTailProperties, LenProperties
<1> DEFINE first == IF r.error = "none" THEN <<>> ELSE r.outputs
<1>4. /\ first \in Seq(Temps \cup Outputs) /\ Doomed(r) = first \o r.temps
      /\ Len(first) \in Nat /\ Len(r.temps) \in Nat
  BY <1>1, LenProperties DEF Doomed
<1>5. /\ Len(Doomed(r)) = Len(first) + Len(r.temps)
      /\ Doomed(r)[1] = IF 1 <= Len(first) THEN first[1]
                        ELSE r.temps[1 - Len(first)]
  BY <1>1, <1>3, <1>4, ConcatProperties
<1>6. CASE 1 <= Len(first)
  <2>1. first = r.outputs
    BY <1>6, EmptySeq DEF first
  <2> QED
    BY <1>3, <1>4, <1>5, <1>6, <2>1 DEF Listed, Has
<1>7. CASE Len(first) = 0
  <2>1. 1 <= Len(r.temps) /\ Doomed(r)[1] = r.temps[1]
    BY <1>3, <1>4, <1>5, <1>7
  <2> QED
    BY <1>3, <1>4, <2>1 DEF Listed, Has
<1> HIDE DEF first
<1> QED
  BY <1>4, <1>6, <1>7

-----------------------------------------------------------------------------
(* A call changes what is its run's.                                       *)

LEMMA EffectTouch ==
  ASSUME TypeOK, ClaimsInv, NEW p \in Processes, Possible(p),
         files' = Effect(p)
  PROVE  Touch(p)
<1> DEFINE r == run[p]
<1>1. r \in Runs /\ \A name \in Claimed(r) : MayChange(p, At(p, name))
  BY RunType DEF ClaimsInv
<1>2. "lock" \in Names /\ MayChange(p, Absent)
  BY AbsentMayChange DEF Names
<1>3. CASE r.pc = "lock"
  <2>1. ~Exists(At(p, "lock")) /\ Changing(p)
    BY <1>3 DEF Possible, LockFree, NameFree, InputThere, Ready, Changing
  <2>2. files' = With(p, "lock", File("lock", p, <<>>))
    BY <1>3 DEF Effect, Ready
  <2> QED
    BY <1>2, <2>1, <2>2, OwnMayChange, WithTouch DEF MayChange
<1>4. CASE r.pc \in {"giveBack", "release", "again"}
  <2>1. "lock" \in Claimed(r) /\ Changing(p)
    BY <1>2, <1>4 DEF Claimed, Changing, Holding
  <2>2. files' = With(p, "lock", Absent)
    BY <1>4 DEF Effect, Ready
  <2> QED
    BY <1>1, <1>2, <2>1, <2>2, WithTouch
<1>5. CASE r.pc = "unlink" /\ Doomed(r) # <<>>
  <2> DEFINE name == Head(Doomed(r))
  <2>1. name \in Names /\ Listed(r, name)
    BY <1>1, <1>5, DoomedType, DoomedListed, NamesSplit
  <2>2. name \in Claimed(r) /\ Changing(p)
    BY <1>5, <2>1 DEF Claimed, Changing, Holding
  <2>3. files' = With(p, name, Absent)
    BY <1>5 DEF Effect, Ready
  <2> HIDE DEF name
  <2> QED
    BY <1>1, <1>2, <2>1, <2>2, <2>3, WithTouch
<1>6. CASE r.pc = "write"
  <2>1. Changing(p) /\ Target(p) \in Names
    BY <1>6, CallType, NamesSplit DEF Changing, Holding
  <2>2. CASE Op(p) \in {"open", "create"}
    <3>1. ~Exists(At(p, Target(p)))
      BY <1>6, <2>2 DEF Possible, LockFree, NameFree, InputThere, Ready
    <3>2. files' = With(p, Target(p), File("empty", p, <<>>))
      BY <1>6, <2>2 DEF Effect, Ready
    <3> QED
      BY <2>1, <3>1, <3>2, OwnMayChange, WithTouch DEF MayChange
  <2>3. CASE Op(p) = "fill" /\ At(p, Target(p)) = File("empty", p, <<>>)
    <3>1. MayChange(p, At(p, Target(p)))
      BY <2>3, OwnMayChange
    <3>2. PICK file : file = IF Target(p) = "markerTmp"
                             THEN File("marker", p, r.digests)
                             ELSE File("report", p, <<>>)
      OBVIOUS
    <3>3. MayChange(p, file)
      BY <3>2, OwnMayChange
    <3>4. files' = With(p, Target(p), file)
      BY <1>6, <2>3, <3>2 DEF Effect, Ready
    <3> QED
      BY <2>1, <3>1, <3>3, <3>4, WithTouch
  <2>4. CASE Op(p) = "replace"
    <3>1. /\ Target(p) \in Claimed(r) /\ TempOf(Target(p)) \in Claimed(r)
          /\ TempOf(Target(p)) \in Names
      BY <1>6, <2>4, CallClaims, ClaimedNames
    <3>2. MayChange(p, At(p, Target(p)))
          /\ MayChange(p, At(p, TempOf(Target(p))))
      BY <1>1, <3>1
    <3>3. files' = [files EXCEPT
             ![<<r.slot, Target(p)>>] = At(p, TempOf(Target(p))),
             ![<<r.slot, TempOf(Target(p))>>] = Absent]
      BY <1>6, <2>4 DEF Effect, Ready
    <3>4. \A f \in Slots \X Names :
            files'[f] = IF f = <<r.slot, TempOf(Target(p))>> THEN Absent
                        ELSE IF f = <<r.slot, Target(p)>>
                             THEN At(p, TempOf(Target(p)))
                             ELSE files[f]
      BY <1>1, <2>1, <3>1, <3>3 DEF TypeOK, Runs
    <3> QED
      BY <1>2, <2>1, <3>2, <3>4 DEF Touch, At
  <2>5. CASE /\ Op(p) \notin {"open", "create", "replace"}
             /\ ~(Op(p) = "fill" /\ At(p, Target(p)) = File("empty", p, <<>>))
    <3>1. files' = files
      BY <1>6, <2>5 DEF Effect, Ready
    <3> QED
      BY <3>1, SameTouch
  <2> QED
    BY <2>2, <2>3, <2>4, <2>5
<1>7. CASE /\ r.pc \notin {"lock", "giveBack", "release", "again", "write"}
           /\ ~(r.pc = "unlink" /\ Doomed(r) # <<>>)
  <2>1. files' = files
    BY <1>7 DEF Effect, Ready
  <2> QED
    BY <2>1, SameTouch
<1> QED
  BY <1>3, <1>4, <1>5, <1>6, <1>7

-----------------------------------------------------------------------------
(* Whose the claimed files are.                                            *)

(* No process changes a file another one claims.                           *)
LEMMA OthersClaims ==
  ASSUME TypeOK, ClaimsInv, ~Cli => HoldersLock,
         NEW p \in Processes, NEW q \in Processes \ {p}, Touch(p),
         NEW name \in Claimed(run[q])
  PROVE  MayChange(q, files'[<<run[q].slot, name>>])
<1> DEFINE f == <<run[q].slot, name>>
<1>1. f \in Slots \X Names /\ MayChange(q, files[f])
  BY ClaimedNames, RunType DEF ClaimsInv, At, Runs
<1>2. SUFFICES ASSUME files'[f] # files[f]
               PROVE  MayChange(q, files'[f])
  BY <1>1
<1>3. Changing(p) /\ run[q].slot = run[p].slot /\ MayChange(p, files'[f])
  BY <1>1, <1>2 DEF Touch
<1>4. CASE Cli
  BY <1>3, <1>4 DEF MayChange
<1>5. CASE ~Cli
  <2>1. Holds(q) /\ At(q, "lock") = LockOf(q)
    BY <1>5, ClaimedNames DEF Claimed, HoldersLock, Holding
  <2>2. CASE run[p].pc = "lock" /\ ~Exists(At(p, "lock"))
    BY <1>3, <2>1, <2>2, LockIdentity DEF At
  <2>3. CASE run[p].pc \in Holding \cup {"again"}
    <3>1. Holds(p) /\ At(p, "lock") = LockOf(p)
      BY <1>5, <2>3, ClaimedNames DEF HoldersLock
    <3> QED
      BY <1>3, <2>1, <3>1, LockIdentity DEF At
  <2> QED
    BY <1>3, <2>2, <2>3 DEF Changing
<1> QED
  BY <1>4, <1>5

(* What a run claims after a step, it claimed before or has just made.     *)
LEMMA ClaimsStep ==
  ASSUME TypeOK, ClaimsInv, ~Cli => HoldersLock, NEW p \in Processes,
         NEW r, Becomes(p, r), Touch(p), Fresh(r),
         \A name \in Claimed(r) :
           /\ r.slot = run[p].slot
           /\ \/ name \in Claimed(run[p])
              \/ MayChange(p, files'[<<run[p].slot, name>>])
  PROVE  ClaimsInv'
<1>1. run'[p] = r /\ \A q \in Processes \ {p} : run'[q] = run[q]
  BY DEF Becomes, TypeOK
<1>2. ASSUME NEW name \in Claimed(r)
      PROVE  MayChange(p, files'[<<r.slot, name>>])
  <2>1. <<run[p].slot, name>> \in Slots \X Names
    BY ClaimedNames, RunType DEF Runs
  <2>2. CASE files'[<<run[p].slot, name>>] # files[<<run[p].slot, name>>]
    BY <2>1, <2>2 DEF Touch
  <2>3. CASE files'[<<run[p].slot, name>>] = files[<<run[p].slot, name>>]
    BY <2>3 DEF ClaimsInv, At
  <2> QED
    BY <2>2, <2>3
<1>3. ASSUME NEW q \in Processes \ {p}
      PROVE  /\ Fresh(run[q])
             /\ \A name \in Claimed(run[q]) :
                  MayChange(q, files'[<<run[q].slot, name>>])
  BY OthersClaims DEF ClaimsInv
<1>4. ASSUME NEW q \in Processes
      PROVE  /\ Fresh(run'[q])
             /\ \A name \in Claimed(run'[q]) :
                  MayChange(q, files'[<<run'[q].slot, name>>])
  <2>1. CASE q = p
    BY <1>1, <1>2, <2>1
  <2>2. CASE q # p
    BY <1>1, <1>3, <2>2
  <2> QED
    BY <2>1, <2>2
<1> QED
  BY <1>4 DEF ClaimsInv, At, MayChange

-----------------------------------------------------------------------------
(* Every step.                                                             *)

Sound(p) == ClaimsInv' /\ Touch(p) /\ Moves(p)

(* A step to a state in which a run claims no more than before.            *)
LEMMA NoNewClaims ==
  ASSUME TypeOK, ClaimsInv, ~Cli => HoldersLock, NEW p \in Processes,
         NEW r, Becomes(p, r), Touch(p), Fresh(r), r # run[p],
         \/ Claimed(r) = {}
         \/ r.slot = run[p].slot /\ Claimed(r) \subseteq Claimed(run[p])
  PROVE  Sound(p)
<1>1. run'[p] = r
  BY DEF Becomes, TypeOK
<1>2. ClaimsInv'
  BY ClaimsStep
<1> QED
  BY <1>1, <1>2 DEF Sound, Moves

LEMMA NothingClaimed ==
  ASSUME NEW r, r.pc \in {"idle", "check", "lock", "ended"}
  PROVE  Claimed(r) = {}
  BY DEF Claimed, Holding

LEMMA LeaveSound ==
  ASSUME TypeOK, ClaimsInv, ~Cli => HoldersLock, NEW p \in Processes,
         Touch(p), run[p].pc # "ended",
         \/ \E error : End(p, error)
         \/ run[p].pc = "write" /\ \E error : Unwind(p, error)
         \/ run[p].pc \in {"check", "lock", "giveBack"} /\ Occupied(p)
  PROVE  Sound(p)
<1>1. run[p] \in Runs
  BY RunType
<1>2. ASSUME NEW error, End(p, error)
      PROVE  Sound(p)
  <2> DEFINE r == [run[p] EXCEPT !.pc = "ended", !.error = error]
  <2>1. Becomes(p, r) /\ r.pc = "ended"
    BY <1>1, <1>2 DEF End, Runs
  <2>2. Fresh(r) /\ r # run[p]
    BY <2>1 DEF Fresh
  <2> HIDE DEF r
  <2> QED
    BY <2>1, <2>2, NothingClaimed, NoNewClaims
<1>3. ASSUME NEW error, Unwind(p, error), run[p].pc = "write"
      PROVE  Sound(p)
  <2> DEFINE r == [run[p] EXCEPT !.pc = "unlink", !.error = error]
  <2>1. /\ Becomes(p, r) /\ r.pc = "unlink" /\ r.slot = run[p].slot
        /\ r.temps = run[p].temps /\ r.outputs = run[p].outputs
    BY <1>1, <1>3 DEF Unwind, Runs
  <2> HIDE DEF r
  <2>2. Fresh(r) /\ r # run[p]
    BY <1>3, <2>1 DEF Fresh
  <2>3. Claimed(r) \subseteq Claimed(run[p])
    BY <1>3, <2>1 DEF Claimed, Listed, Holding
  <2> QED
    BY <2>1, <2>2, <2>3, NoNewClaims
<1>4. ASSUME Occupied(p), Cli, run[p].pc \in {"check", "lock", "giveBack"}
      PROVE  Sound(p)
  <2> DEFINE r == [run[p] EXCEPT !.pc = "check", !.at = 1,
                                 !.slot = run[p].slot + 1]
  <2>1. Becomes(p, r)
    BY <1>4, Zenon DEF Occupied
  <2>2. /\ r.pc = "check" /\ r.slot = run[p].slot + 1
        /\ r.temps = run[p].temps /\ r.outputs = run[p].outputs
    BY <1>1 DEF Runs
  <2>3. run[p].slot \in Nat
    BY <1>1, SlotsAssumption DEF Runs, Slots
  <2> HIDE DEF r
  <2>4. r # run[p]
    BY <2>2, <2>3
  <2>5. Fresh(r)
    BY <1>4, <2>2 DEF Fresh, ClaimsInv
  <2> QED
    BY <2>1, <2>2, <2>4, <2>5, NothingClaimed, NoNewClaims
<1> QED
  BY <1>2, <1>3, <1>4 DEF Occupied

LEMMA ReserveSound ==
  ASSUME TypeOK, ClaimsInv, ~Cli => HoldersLock, NEW p \in Processes,
         Start(p) \/ Look(p) \/ TakeLock(p) \/ GiveBack(p) \/ Build(p)
  PROVE  Sound(p)
<1>1. run[p] \in Runs /\ Fresh(run[p])
  BY RunType DEF ClaimsInv
<1>2. ASSUME Start(p)
      PROVE  Sound(p)
  <2>1. PICK s \in Candidates :
          Becomes(p, [run[p] EXCEPT !.pc = "check", !.slot = s])
    BY <1>2 DEF Start
  <2> DEFINE r == [run[p] EXCEPT !.pc = "check", !.slot = s]
  <2>2. /\ r.pc = "check" /\ Becomes(p, r)
        /\ r.temps = run[p].temps /\ r.outputs = run[p].outputs
    BY <1>1, <2>1 DEF Runs
  <2> HIDE DEF r
  <2>3. Touch(p) /\ Fresh(r) /\ r # run[p]
    BY <1>1, <1>2, <2>2, SameTouch DEF Start, Fresh
  <2> QED
    BY <2>2, <2>3, NothingClaimed, NoNewClaims
<1>3. ASSUME Look(p)
      PROVE  Sound(p)
  <2>1. Touch(p) /\ run[p].pc \in {"check", "recheck"}
    BY <1>3, SameTouch DEF Look, LookIn
  <2>2. CASE Exists(At(p, Finals[run[p].at])) /\ run[p].pc = "check"
    <3>1. Occupied(p)
      BY <1>3, <2>2, Zenon DEF Look, LookIn
    <3> QED
      BY <2>1, <2>2, <3>1, LeaveSound
  <2>3. CASE Exists(At(p, Finals[run[p].at])) /\ run[p].pc = "recheck"
    <3> DEFINE r == [run[p] EXCEPT !.pc = "giveBack"]
    <3>1. /\ Becomes(p, r) /\ r.slot = run[p].slot /\ r.pc = "giveBack"
          /\ r.temps = run[p].temps /\ r.outputs = run[p].outputs
      BY <1>1, <1>3, <2>3 DEF Look, LookIn, Runs
    <3> HIDE DEF r
    <3>2. Fresh(r) /\ r # run[p]
      BY <1>1, <2>3, <3>1 DEF Fresh
    <3>3. Claimed(r) \subseteq Claimed(run[p])
      BY <2>3, <3>1 DEF Claimed, Holding
    <3> QED
      BY <2>1, <3>1, <3>2, <3>3, NoNewClaims
  <2>4. CASE ~Exists(At(p, Finals[run[p].at])) /\ run[p].at < Len(Finals)
    <3> DEFINE r == [run[p] EXCEPT !.at = run[p].at + 1]
    <3>1. /\ Becomes(p, r) /\ r.slot = run[p].slot /\ r.pc = run[p].pc
          /\ r.temps = run[p].temps /\ r.outputs = run[p].outputs
          /\ r.at = run[p].at + 1 /\ run[p].at \in Nat
      BY <1>1, <1>3, <2>4 DEF Look, LookIn, Runs
    <3> HIDE DEF r
    <3>2. Fresh(r) /\ r # run[p]
      BY <1>1, <2>1, <3>1 DEF Fresh
    <3>3. Claimed(r) \subseteq Claimed(run[p])
      BY <2>1, <3>1 DEF Claimed, Holding
    <3> QED
      BY <2>1, <3>1, <3>2, <3>3, NoNewClaims
  <2>5. CASE /\ ~Exists(At(p, Finals[run[p].at]))
             /\ ~(run[p].at < Len(Finals))
    <3> DEFINE pc == CASE run[p].pc = "check" -> "lock"
                       [] run[p].pc # "check" /\ Cli -> "build"
                       [] OTHER -> "write"
               r == [run[p] EXCEPT !.at = 1, !.pc = pc]
    <3>1. /\ run[p].pc = "check" => pc = "lock"
          /\ run[p].pc = "recheck" => pc \in {"build", "write"}
      <4>1. run[p].pc = "check" => pc = "lock"
        OBVIOUS
      <4>2. CASE run[p].pc = "recheck" /\ Cli
        BY <4>2
      <4>3. CASE run[p].pc = "recheck" /\ ~Cli
        BY <4>3
      <4> QED
        BY <4>1, <4>2, <4>3
    <3>2. Becomes(p, r)
      BY <1>3, <2>5, Zenon DEF Look, LookIn
    <3>3. /\ r.slot = run[p].slot /\ r.pc = pc /\ r.at = 1
          /\ r.temps = run[p].temps /\ r.outputs = run[p].outputs
      BY <1>1 DEF Runs
    <3> HIDE DEF r, pc
    <3>4. Fresh(r) /\ r # run[p]
      BY <1>1, <2>1, <3>1, <3>3 DEF Fresh
    <3>5. CASE run[p].pc = "check"
      BY <2>1, <3>1, <3>2, <3>3, <3>4, <3>5, NothingClaimed, NoNewClaims
    <3>6. CASE run[p].pc = "recheck"
      <4>1. \A name : ~Opened(r, name) /\ ~Listed(r, name)
        BY <1>1, <3>3, <3>6, EmptySeq DEF Opened, Listed, Has, Fresh
      <4>2. Claimed(r) \subseteq Claimed(run[p])
        BY <3>6, <4>1 DEF Claimed, Holding
      <4> QED
        BY <2>1, <3>2, <3>3, <3>4, <4>2, NoNewClaims
    <3> QED
      BY <2>1, <3>5, <3>6
  <2> QED
    BY <2>1, <2>2, <2>3, <2>4, <2>5
<1>4. ASSUME TakeLock(p)
      PROVE  Sound(p)
  <2>1. CASE Possible(p)
    <3> DEFINE r == [run[p] EXCEPT !.pc = "recheck", !.at = 1]
    <3>1. /\ r.pc = "recheck" /\ r.slot = run[p].slot
          /\ r.temps = run[p].temps /\ r.outputs = run[p].outputs
          /\ Becomes(p, r) /\ files' = Effect(p) /\ run[p].pc = "lock"
      BY <1>1, <1>4, <2>1 DEF TakeLock, Runs
    <3> HIDE DEF r
    <3>2. Touch(p)
      BY <2>1, <3>1, EffectTouch
    <3>3. Fresh(r) /\ r # run[p]
      BY <1>1, <3>1 DEF Fresh
    <3>4. \A name \in Claimed(r) : name = "lock"
      BY <3>1 DEF Claimed
    <3>5. MayChange(p, files'[<<run[p].slot, "lock">>])
      <4>1. files' = With(p, "lock", File("lock", p, <<>>))
        BY <3>1 DEF Effect, Ready
      <4>2. <<run[p].slot, "lock">> \in DOMAIN files
        BY <1>1 DEF TypeOK, Runs, Names
      <4>3. files'[<<run[p].slot, "lock">>] = File("lock", p, <<>>)
        BY <4>1, <4>2, Zenon DEF With
      <4> QED
        BY <4>3, OwnMayChange
    <3>6. ClaimsInv'
      BY <3>1, <3>2, <3>3, <3>4, <3>5, ClaimsStep
    <3>7. run'[p] = r
      BY <3>1 DEF Becomes, TypeOK
    <3> QED
      BY <3>2, <3>3, <3>6, <3>7 DEF Sound, Moves
  <2>2. CASE ~Possible(p)
    <3>1. Occupied(p) /\ files' = files /\ run[p].pc = "lock"
      BY <1>4, <2>2, Zenon DEF TakeLock
    <3> QED
      BY <3>1, SameTouch, LeaveSound
  <2> QED
    BY <2>1, <2>2
<1>5. ASSUME GiveBack(p)
      PROVE  Sound(p)
  <2>1. files' = Effect(p) /\ run[p].pc = "giveBack"
    BY <1>5 DEF GiveBack
  <2>2. Possible(p)
    BY <2>1 DEF Possible, LockFree, NameFree, InputThere, Ready
  <2>3. Occupied(p) \/ End(p, run[p].error)
    BY <1>5, Zenon DEF GiveBack
  <2> QED
    BY <2>1, <2>2, <2>3, EffectTouch, LeaveSound
<1>6. ASSUME Build(p)
      PROVE  Sound(p)
  <2> DEFINE r == [run[p] EXCEPT !.pc = "write"]
  <2>1. /\ r.slot = run[p].slot /\ r.pc = "write" /\ r.at = 1
        /\ r.temps = <<>> /\ r.outputs = <<>>
        /\ run[p].pc = "build" /\ Becomes(p, r)
    BY <1>1, <1>6 DEF Runs, Build, Fresh
  <2>2. Touch(p)
    BY <1>6, SameTouch DEF Build
  <2> HIDE DEF r
  <2>3. \A name : ~Opened(r, name) /\ ~Listed(r, name)
    BY <2>1, EmptySeq DEF Opened, Listed, Has
  <2>4. Fresh(r) /\ r # run[p]
    BY <2>1 DEF Fresh
  <2> QED
    BY <2>1, <2>2, <2>3, <2>4, NoNewClaims DEF Claimed, Holding
<1> QED
  BY <1>2, <1>3, <1>4, <1>5, <1>6

LEMMA HasAppend ==
  ASSUME NEW S, NEW s \in Seq(S), NEW e \in S, NEW name,
         Has(Append(s, e), name)
  PROVE  name = e \/ Has(s, name)
<1>1. PICK j \in 1..Len(Append(s, e)) : Append(s, e)[j] = name
  BY DEF Has
<1>2. Len(s) \in Nat /\ j \in 1..(Len(s) + 1)
  BY AppendProperties, LenProperties
<1> QED
  BY <1>1, <1>2, AppendProperties DEF Has

(* t is the rest of s after its first element.                             *)
Rest(t, s) ==
  /\ Len(s) \in Nat /\ Len(t) = Len(s) - 1
  /\ \A j \in 1..Len(t) : t[j] = s[j + 1]

LEMMA HasRest ==
  ASSUME NEW s, NEW t, Rest(t, s)
  PROVE  t # s /\ \A name : Has(t, name) => Has(s, name)
<1>1. t # s
  BY DEF Rest
<1>2. ASSUME NEW j \in 1..Len(t)
      PROVE  j + 1 \in 1..Len(s) /\ s[j + 1] = t[j]
  BY DEF Rest
<1> QED
  BY <1>1, <1>2 DEF Has

(* What a run is after its next call.                                      *)
LEMMA OnwardFacts ==
  ASSUME TypeOK, NEW p \in Processes, run[p].pc = "write"
  PROVE  LET r == Onward(Noted(p)) IN
         /\ r.slot = run[p].slot /\ r.error = run[p].error
         /\ r.temps = IF Op(p) = "fill"
                       THEN Append(run[p].temps, Target(p)) ELSE run[p].temps
         /\ r.outputs = IF Op(p) = "create"
                         THEN Append(run[p].outputs, Target(p))
                         ELSE run[p].outputs
         /\ r.digests = IF Op(p) = "digest"
                         THEN Append(run[p].digests,
                                     DigestOf(At(p, Target(p))))
                         ELSE run[p].digests
         /\ run[p].at = 16 => r.pc = "unlink"
         /\ run[p].at # 16 => r.pc = "write" /\ r.at = run[p].at + 1
<1> DEFINE noted == Noted(p)
<1>1. /\ noted.slot = run[p].slot /\ noted.error = run[p].error
      /\ noted.temps = IF Op(p) = "fill"
                       THEN Append(run[p].temps, Target(p)) ELSE run[p].temps
      /\ noted.outputs = IF Op(p) = "create"
                         THEN Append(run[p].outputs, Target(p))
                         ELSE run[p].outputs
      /\ noted.digests = IF Op(p) = "digest"
                         THEN Append(run[p].digests,
                                     DigestOf(At(p, Target(p))))
                         ELSE run[p].digests
      /\ noted.at = run[p].at /\ noted.pc = "write"
      /\ DOMAIN noted = {"pc", "slot", "at", "temps", "outputs", "digests",
                         "error"}
  BY RunType DEF Noted, Runs
<1> HIDE DEF noted
<1>2. Onward(noted) = IF run[p].at = 16 THEN [noted EXCEPT !.pc = "unlink"]
                      ELSE [noted EXCEPT !.at = @ + 1]
  BY <1>1, PlanFacts DEF Onward
<1>3. LET r == Onward(noted) IN
        /\ \A x \in {"slot", "error", "temps", "outputs", "digests"} :
             r[x] = noted[x]
        /\ run[p].at = 16 => r.pc = "unlink"
        /\ run[p].at # 16 => r.pc = "write" /\ r.at = run[p].at + 1
  BY <1>1, <1>2
<1> QED
  BY <1>1, <1>3 DEF noted

(* A file that a call opens or creates is its process's own.               *)
LEMMA CreatedOwn ==
  ASSUME TypeOK, NEW p \in Processes, run[p].pc = "write",
         Op(p) \in {"open", "create"}, files' = Effect(p)
  PROVE  files'[<<run[p].slot, Target(p)>>] = File("empty", p, <<>>)
<1>1. <<run[p].slot, Target(p)>> \in DOMAIN files
  BY CallType, NamesSplit, RunType DEF TypeOK, Runs
<1>2. files' = With(p, Target(p), File("empty", p, <<>>))
  BY DEF Effect, Ready
<1> QED
  BY <1>1, <1>2, Zenon DEF With

LEMMA WriteSound ==
  ASSUME TypeOK, ClaimsInv, ~Cli => HoldersLock, NEW p \in Processes,
         Write(p)
  PROVE  Sound(p)
<1>1. /\ run[p] \in Runs /\ run[p].pc = "write" /\ run[p].at \in 1..16
      /\ Target(p) \in Temps \cup Outputs
      /\ Op(p) = "fill" => Target(p) \in Temps
      /\ Op(p) = "create" => Target(p) \in Outputs
  BY RunType, CallType DEF Write
<1>2. CASE ~Possible(p)
  <2>1. Unwind(p, "exception") /\ files' = files
    BY <1>2, Zenon DEF Write
  <2> QED
    BY <1>1, <2>1, SameTouch, LeaveSound
<1>3. CASE Possible(p)
  <2> DEFINE r == Onward(Noted(p))
  <2>1. Becomes(p, r) /\ files' = Effect(p)
    BY <1>3, Zenon DEF Write
  <2>2. Touch(p)
    BY <1>3, <2>1, EffectTouch
  <2>3. /\ r.slot = run[p].slot
        /\ r.temps = IF Op(p) = "fill"
                     THEN Append(run[p].temps, Target(p)) ELSE run[p].temps
        /\ r.outputs = IF Op(p) = "create"
                       THEN Append(run[p].outputs, Target(p))
                       ELSE run[p].outputs
        /\ run[p].at = 16 => r.pc = "unlink"
        /\ run[p].at # 16 => r.pc = "write" /\ r.at = run[p].at + 1
    BY <1>1, OnwardFacts
  <2> HIDE DEF r
  <2>4. Fresh(r) /\ r # run[p]
    BY <1>1, <2>3 DEF Fresh
  <2>5. ASSUME Op(p) \in {"open", "create"}
        PROVE  MayChange(p, files'[<<run[p].slot, Target(p)>>])
    BY <1>1, <2>1, <2>5, CreatedOwn, OwnMayChange
  <2>6. ASSUME NEW name \in Claimed(r)
        PROVE  \/ name \in Claimed(run[p])
               \/ MayChange(p, files'[<<run[p].slot, name>>])
    <3>1. name \in Names /\ (Op(p) = "fill" => Target(p) \in Claimed(run[p]))
      BY <1>1, <2>6, ClaimedNames, CallClaims
    <3>2. CASE name = "lock"
      BY <1>1, <3>1, <3>2 DEF Claimed, Holding
    <3>3. CASE r.pc = "write" /\ Opened(r, name)
      <4>1. PICK i \in 1..16 : /\ i < run[p].at + 1
                               /\ Plan[i][1] \in {"open", "create"}
                               /\ Plan[i][2] = name
        BY <1>1, <2>3, <3>3 DEF Opened
      <4>2. CASE i < run[p].at
        BY <1>1, <3>1, <4>1, <4>2 DEF Claimed, Opened
      <4>3. CASE i = run[p].at
        BY <2>5, <4>1, <4>3 DEF Op, Target
      <4> QED
        BY <1>1, <4>1, <4>2, <4>3
    <3>4. CASE Listed(r, name)
      <4>1. /\ run[p].temps \in Seq(Temps) /\ run[p].outputs \in Seq(Outputs)
        BY <1>1 DEF Runs, Outputs
      <4>2. CASE Has(r.temps, name)
        <5>1. CASE Op(p) = "fill"
          <6>1. name = Target(p) \/ Has(run[p].temps, name)
            BY <1>1, <2>3, <4>1, <4>2, <5>1, HasAppend
          <6> QED
            BY <1>1, <3>1, <5>1, <6>1 DEF Claimed, Listed
        <5>2. CASE Op(p) # "fill"
          BY <1>1, <2>3, <3>1, <4>2, <5>2 DEF Claimed, Listed
        <5> QED
          BY <5>1, <5>2
      <4>3. CASE Has(r.outputs, name)
        <5>1. CASE Op(p) = "create"
          <6>1. name = Target(p) \/ Has(run[p].outputs, name)
            BY <1>1, <2>3, <4>1, <4>3, <5>1, HasAppend
          <6> QED
            BY <1>1, <2>5, <3>1, <5>1, <6>1 DEF Claimed, Listed
        <5>2. CASE Op(p) # "create"
          BY <1>1, <2>3, <3>1, <4>3, <5>2 DEF Claimed, Listed
        <5> QED
          BY <5>1, <5>2
      <4> QED
        BY <3>4, <4>2, <4>3 DEF Listed
    <3> QED
      BY <2>6, <3>2, <3>3, <3>4 DEF Claimed
  <2>7. ClaimsInv'
    BY <2>1, <2>2, <2>3, <2>4, <2>6, ClaimsStep
  <2>8. run'[p] = r
    BY <2>1 DEF Becomes, TypeOK
  <2> QED
    BY <2>2, <2>4, <2>7, <2>8 DEF Sound, Moves
<1> QED
  BY <1>2, <1>3

LEMMA CleanupSound ==
  ASSUME TypeOK, ClaimsInv, ~Cli => HoldersLock, NEW p \in Processes,
         Unlink(p) \/ Release(p) \/ ReleaseAgain(p)
  PROVE  Sound(p)
<1>1. run[p] \in Runs
  BY RunType
<1>2. Touch(p)
  <2>1. Possible(p) /\ files' = Effect(p)
    BY DEF Unlink, Release, ReleaseAgain, Possible, LockFree, NameFree,
           InputThere, Ready
  <2> QED
    BY <2>1, EffectTouch
<1>3. ASSUME Unlink(p)
      PROVE  Sound(p)
  <2> DEFINE done == [run[p] EXCEPT !.pc = "release"]
             fewerTemps == [run[p] EXCEPT !.temps = Tail(@)]
             fewerOutputs == [run[p] EXCEPT !.outputs = Tail(@)]
  <2>1. /\ run[p].pc = "unlink"
        /\ \/ Becomes(p, done)
           \/ /\ Doomed(run[p]) # <<>> /\ Head(Doomed(run[p])) \in Temps
              /\ Becomes(p, fewerTemps)
           \/ /\ Doomed(run[p]) # <<>> /\ Head(Doomed(run[p])) \notin Temps
              /\ Becomes(p, fewerOutputs)
    BY <1>3 DEF Unlink
  <2>2. CASE Becomes(p, done)
    <3>1. done.pc = "release" /\ done.slot = run[p].slot
      BY <1>1 DEF Runs
    <3> HIDE DEF done
    <3>2. Fresh(done) /\ done # run[p] /\ Claimed(done) \subseteq Claimed(run[p])
      BY <2>1, <3>1 DEF Fresh, Claimed, Holding
    <3> QED
      BY <1>2, <2>2, <3>1, <3>2, NoNewClaims
  <2>3. CASE /\ Doomed(run[p]) # <<>> /\ Head(Doomed(run[p])) \in Temps
             /\ Becomes(p, fewerTemps)
    <3>1. /\ fewerTemps.pc = "unlink" /\ fewerTemps.slot = run[p].slot
          /\ fewerTemps.temps = Tail(run[p].temps)
          /\ fewerTemps.outputs = run[p].outputs
      BY <1>1, <2>1 DEF Runs
    <3> HIDE DEF fewerTemps
    <3>2. run[p].temps \in Seq(Temps) /\ run[p].temps # <<>>
      BY <1>1, <2>3, DoomedLists DEF Runs
    <3>3. Rest(fewerTemps.temps, run[p].temps)
      BY <3>1, <3>2, HeadTailProperties, LenProperties DEF Rest
    <3>4. /\ fewerTemps.temps # run[p].temps
          /\ \A name : Listed(fewerTemps, name) => Listed(run[p], name)
      BY <3>1, <3>3, HasRest DEF Listed
    <3>5. Fresh(fewerTemps) /\ fewerTemps # run[p]
          /\ Claimed(fewerTemps) \subseteq Claimed(run[p])
      BY <2>1, <3>1, <3>4 DEF Fresh, Claimed
    <3> QED
      BY <1>2, <2>3, <3>1, <3>5, NoNewClaims
  <2>4. CASE /\ Doomed(run[p]) # <<>> /\ Head(Doomed(run[p])) \notin Temps
             /\ Becomes(p, fewerOutputs)
    <3>1. /\ fewerOutputs.pc = "unlink" /\ fewerOutputs.slot = run[p].slot
          /\ fewerOutputs.temps = run[p].temps
          /\ fewerOutputs.outputs = Tail(run[p].outputs)
      BY <1>1, <2>1 DEF Runs
    <3> HIDE DEF fewerOutputs
    <3>2. run[p].outputs \in Seq(Outputs) /\ run[p].outputs # <<>>
      BY <1>1, <2>4, DoomedLists DEF Runs, Outputs
    <3>3. Rest(fewerOutputs.outputs, run[p].outputs)
      BY <3>1, <3>2, HeadTailProperties, LenProperties DEF Rest
    <3>4. /\ fewerOutputs.outputs # run[p].outputs
          /\ \A name : Listed(fewerOutputs, name) => Listed(run[p], name)
      BY <3>1, <3>3, HasRest DEF Listed
    <3>5. Fresh(fewerOutputs) /\ fewerOutputs # run[p]
          /\ Claimed(fewerOutputs) \subseteq Claimed(run[p])
      BY <2>1, <3>1, <3>4 DEF Fresh, Claimed
    <3> QED
      BY <1>2, <2>4, <3>1, <3>5, NoNewClaims
  <2> HIDE DEF done, fewerTemps, fewerOutputs
  <2> QED
    BY <2>1, <2>2, <2>3, <2>4
<1>4. ASSUME Release(p)
      PROVE  Sound(p)
  <2> DEFINE r == [run[p] EXCEPT
               !.pc = IF Cli /\ run[p].error = "exception" THEN "again"
                      ELSE "ended"]
  <2>1. /\ Becomes(p, r) /\ r.slot = run[p].slot /\ run[p].pc = "release"
        /\ r.pc \in {"again", "ended"}
    BY <1>1, <1>4 DEF Release, Runs
  <2> HIDE DEF r
  <2>2. Fresh(r) /\ r # run[p] /\ Claimed(r) \subseteq Claimed(run[p])
    BY <2>1 DEF Fresh, Claimed, Holding
  <2> QED
    BY <1>2, <2>1, <2>2, NoNewClaims
<1>5. ASSUME ReleaseAgain(p)
      PROVE  Sound(p)
  BY <1>2, <1>5, LeaveSound DEF ReleaseAgain
<1> QED
  BY <1>3, <1>4, <1>5

LEMMA FaultSound ==
  ASSUME TypeOK, ClaimsInv, ~Cli => HoldersLock, NEW p \in Processes,
         Crash(p) \/ Raise(p) \/ Interrupt(p)
  PROVE  Sound(p)
<1>1. run[p] \in Runs /\ Fresh(run[p]) /\ run[p].pc # "ended"
  BY RunType DEF ClaimsInv, Crash, Raise, Interrupt, Running
<1>2. ASSUME Crash(p)
      PROVE  Sound(p)
  BY <1>1, <1>2, SameTouch, LeaveSound DEF Crash
<1>3. ASSUME Interrupt(p)
      PROVE  Sound(p)
  <2>1. Touch(p)
    BY <1>3, SameTouch, EffectTouch DEF Interrupt
  <2>2. \/ run[p].pc = "write" /\ Unwind(p, "interrupt")
        \/ End(p, "abandoned")
    BY <1>3 DEF Interrupt
  <2> QED
    BY <1>1, <2>1, <2>2, LeaveSound
<1>4. ASSUME Raise(p)
      PROVE  Sound(p)
  <2> DEFINE to(pc, error) == [run[p] EXCEPT !.pc = pc, !.error = error]
  <2>1. \A pc \in {"giveBack", "again"}, error \in {"exception", "abandoned"} :
          /\ to(pc, error).pc = pc /\ to(pc, error).slot = run[p].slot
          /\ to(pc, error).temps = run[p].temps
          /\ to(pc, error).outputs = run[p].outputs
    BY <1>1 DEF Runs
  <2> HIDE DEF to
  <2>2. CASE run[p].pc = "lock"
    <3> DEFINE r == to("giveBack", "exception")
    <3>1. Becomes(p, r) /\ Possible(p) /\ files' = Effect(p)
      BY <1>4, <2>2 DEF Raise, to
    <3>2. /\ r.pc = "giveBack" /\ r.slot = run[p].slot
          /\ r.temps = run[p].temps /\ r.outputs = run[p].outputs
      BY <2>1
    <3> HIDE DEF r
    <3>3. Touch(p) /\ Fresh(r) /\ r # run[p]
      BY <1>1, <2>2, <3>1, <3>2, EffectTouch DEF Fresh
    <3>4. \A name \in Claimed(r) : name = "lock"
      BY <3>2 DEF Claimed
    <3>5. MayChange(p, files'[<<run[p].slot, "lock">>])
      <4>1. files' = With(p, "lock", File("lock", p, <<>>))
        BY <2>2, <3>1 DEF Effect, Ready
      <4>2. <<run[p].slot, "lock">> \in DOMAIN files
        BY <1>1 DEF TypeOK, Runs, Names
      <4>3. files'[<<run[p].slot, "lock">>] = File("lock", p, <<>>)
        BY <4>1, <4>2, Zenon DEF With
      <4> QED
        BY <4>3, OwnMayChange
    <3>6. ClaimsInv'
      BY <3>1, <3>2, <3>3, <3>4, <3>5, ClaimsStep
    <3>7. run'[p] = r
      BY <3>1 DEF Becomes, TypeOK
    <3> QED
      BY <3>3, <3>6, <3>7 DEF Sound, Moves
  <2>3. CASE run[p].pc = "build" \/ (run[p].pc \in {"unlink", "release"} /\ Cli)
    <3>1. \E error \in {"exception", "abandoned"} :
            Becomes(p, to("again", error)) /\ files' = files
      <4>1. CASE run[p].pc = "build"
        BY <1>4, <4>1 DEF Raise, to
      <4>2. CASE run[p].pc \in {"unlink", "release"} /\ Cli
        BY <1>4, <4>2 DEF Raise, to
      <4> QED
        BY <2>3, <4>1, <4>2
    <3> PICK error \in {"exception", "abandoned"} :
          Becomes(p, to("again", error)) /\ files' = files
      BY <3>1
    <3>2. PICK r : r = to("again", error)
      OBVIOUS
    <3>3. r.pc = "again" /\ r.slot = run[p].slot
      BY <2>1, <3>2
    <3>4. Fresh(r) /\ r # run[p] /\ Claimed(r) \subseteq Claimed(run[p])
      BY <2>3, <3>3 DEF Fresh, Claimed, Holding
    <3> QED
      BY <3>1, <3>2, <3>3, <3>4, SameTouch, NoNewClaims
  <2>4. CASE run[p].pc = "write"
    <3>1. Unwind(p, "exception")
      BY <1>4, <2>4 DEF Raise
    <3>2. \/ files' = files
          \/ Op(p) = "fill" /\ files' = With(p, Target(p), Absent)
      BY <1>4, <2>4 DEF Raise
    <3>3. ASSUME Op(p) = "fill", files' = With(p, Target(p), Absent)
          PROVE  Touch(p)
      <4>1. /\ Target(p) \in Names /\ Changing(p)
            /\ MayChange(p, At(p, Target(p)))
        BY <2>4, <3>3, CallClaims, ClaimedNames
           DEF Changing, Holding, ClaimsInv
      <4> QED
        BY <3>3, <4>1, AbsentMayChange, WithTouch
    <3>4. Touch(p)
      BY <3>2, <3>3, SameTouch
    <3> QED
      BY <2>4, <3>1, <3>4, LeaveSound
  <2>5. CASE /\ run[p].pc \notin {"lock", "build", "write"}
             /\ ~(run[p].pc \in {"unlink", "release"} /\ Cli)
    <3>1. End(p, "abandoned") /\ files' = files
      BY <1>4, <2>5 DEF Raise
    <3> QED
      BY <1>1, <3>1, SameTouch, LeaveSound
  <2> QED
    BY <2>2, <2>3, <2>4, <2>5
<1> QED
  BY <1>2, <1>3, <1>4

LEMMA StepSound ==
  ASSUME TypeOK, ClaimsInv, ~Cli => HoldersLock, NEW p \in Processes,
         Start(p) \/ Step(p) \/ Crash(p) \/ Raise(p) \/ Interrupt(p)
  PROVE  Sound(p)
  BY ReserveSound, WriteSound, CleanupSound, FaultSound DEF Step

(* Every step is one process's, or changes nothing.                        *)
LEMMA NextSound ==
  ASSUME TypeOK, ClaimsInv, ~Cli => HoldersLock, [Next]_vars
  PROVE  /\ ClaimsInv'
         /\ UNCHANGED files \/ \E p \in Processes : Touch(p) /\ Moves(p)
<1>1. CASE UNCHANGED vars
  BY <1>1 DEF vars, ClaimsInv, At
<1>2. CASE AllEnded
  BY <1>2 DEF AllEnded, vars, ClaimsInv, At
<1>3. ASSUME NEW p \in Processes,
             Start(p) \/ Step(p) \/ Crash(p) \/ Raise(p) \/ Interrupt(p)
      PROVE  Sound(p)
  BY <1>3, StepSound
<1> QED
  BY <1>1, <1>2, <1>3 DEF Next, Sound

LEMMA InitClaims == Init => ClaimsInv
<1> SUFFICES ASSUME Init, NEW p \in Processes
             PROVE  Fresh(run[p]) /\ Claimed(run[p]) = {}
  BY DEF ClaimsInv
<1>1. run[p] = Unstarted
  BY DEF Init
<1> QED
  BY <1>1, NothingClaimed DEF Unstarted, Fresh

(* write_report holds its lock, run_eval need not.                         *)
Locked == ~Cli => HoldersLock

LEMMA LockedInvariant == Spec => []Locked
<1>1. CASE Cli
  <2>1. Locked
    BY <1>1 DEF Locked
  <2> QED
    BY <2>1, PTL
<1>2. CASE ~Cli
  <2>1. HoldersLock => Locked
    BY DEF Locked
  <2>2. Spec => []HoldersLock
    BY <1>2, LockInvariant
  <2> QED
    BY <2>1, <2>2, PTL
<1> QED
  BY <1>1, <1>2

(* The inductive invariant: before it writes a run has created nothing but *)
(* its lock, and what it claims it may change.                             *)
THEOREM ClaimsInvariant == Spec => []ClaimsInv
<1>1. TypeOK /\ Locked /\ ClaimsInv /\ [Next]_vars => ClaimsInv'
  BY NextSound DEF Locked
<1> QED
  BY <1>1, InitClaims, SlotsTyping, LockedInvariant, PTL DEF Spec

(* What was in the directory before any process started stays as it was,   *)
(* for commands and callers alike and whatever fails.                      *)
THEOREM EarlierFilesStay == Spec => EarlierKept
<1>1. TypeOK /\ Locked /\ ClaimsInv /\ [Next]_vars =>
        [\A f \in Slots \X Names :
           Exists(files[f]) /\ files[f].by = Earlier => files'[f] = files[f]]_vars
  BY NextSound DEF Locked, Touch, MayChange
<1> QED
  BY <1>1, ClaimsInvariant, SlotsTyping, LockedInvariant, PTL
     DEF Spec, EarlierKept

(* A caller of write_report changes or removes no file but its own.        *)
THEOREM OnlyOwnFilesChange ==
  ASSUME ~Cli
  PROVE  Spec => OwnFilesOnly
<1>1. TypeOK /\ HoldersLock /\ ClaimsInv /\ [Next]_vars =>
        [\A f \in Slots \X Names :
           Exists(files[f]) /\ files'[f] # files[f] =>
             \E p \in Processes : p = files[f].by /\ run'[p] # run[p]]_vars
  BY NextSound DEF Touch, MayChange, Moves
<1> QED
  BY <1>1, ClaimsInvariant, SlotsTyping, LockInvariant, PTL
     DEF Spec, OwnFilesOnly
=============================================================================
