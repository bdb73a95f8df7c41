------------------------ MODULE ReportResultProofs -------------------------
(***************************************************************************)
(* What a caller of write_report leaves in its slot when it returned: its  *)
(* complete pair, made call by call; and what it leaves behind when its    *)
(* exception was handled: nothing.  For any number of processes and faults.*)
(***************************************************************************)
EXTENDS ReportSlotsProofs

Blank(p) == File("empty", p, <<>>)
Report(p) == File("report", p, <<>>)
Marker(p) == File("marker", p, <<{p}, {p}>>)

Between(i, low, high) == low <= i /\ i <= high

(* What a slot holds before the k-th call of the plan of p, or after the   *)
(* last one, and what p has noted of it.                                   *)
Stage(has, digests, p, k) ==
  /\ k = 2 => has["jsonTmp"] = Blank(p)
  /\ Between(k, 3, 7) => has["jsonTmp"] = Report(p)
  /\ k = 4 => has["mdTmp"] = Blank(p)
  /\ Between(k, 5, 8) => has["mdTmp"] = Report(p)
  /\ Between(k, 6, 7) => has["json"] = Blank(p)
  /\ k >= 8 => has["json"] = Report(p)
  /\ Between(k, 7, 8) => has["md"] = Blank(p)
  /\ k >= 9 => has["md"] = Report(p)
  /\ k <= 11 => digests = <<>>
  /\ k = 12 => digests = <<{p}>>
  /\ Between(k, 13, 14) => digests = <<{p}, {p}>>
  /\ k = 14 => has["markerTmp"] = Blank(p)
  /\ Between(k, 15, 16) => has["markerTmp"] = Marker(p)
  /\ k = 16 => has["marker"] = Blank(p)
  /\ k >= 17 => has["marker"] = Marker(p)

Slot(p) == [name \in Names |-> At(p, name)]

(* How far a process is, and what that says of its slot.                   *)
Staged(p) ==
  /\ run[p].pc \in {"idle", "check", "lock", "recheck", "giveBack"} =>
       run[p].digests = <<>>
  /\ run[p].pc = "write" =>
       Stage(Slot(p), run[p].digests, p, run[p].at)
  /\ run[p].pc \in {"unlink", "release", "ended"} /\ run[p].error = "none" =>
       Stage(Slot(p), run[p].digests, p, 17)

(* The inductive invariant of the result.                                  *)
StagesInv == \A p \in Processes : Staged(p)

-----------------------------------------------------------------------------
(* A file a process has is changed by nobody else.                         *)
LEMMA OwnStays ==
  ASSUME TypeOK, ~Cli, NEW p \in Processes, Touch(p),
         NEW q \in Processes \ {p}, NEW name \in Names,
         Exists(At(q, name)), At(q, name).by = q
  PROVE  files'[<<run[q].slot, name>>] = At(q, name)
<1>1. <<run[q].slot, name>> \in Slots \X Names
  BY RunType DEF Runs
<1> QED
  BY <1>1 DEF Touch, MayChange, At

LEMMA OwnFacts ==
  /\ \A p, kind, digests :
       /\ File(kind, p, digests).by = p
       /\ kind # "absent" => Exists(File(kind, p, digests))
  /\ {"jsonTmp", "mdTmp", "markerTmp", "json", "md", "marker"} \subseteq Names
  BY DEF File, Exists, Names, Temps

LEMMA OthersStaged ==
  ASSUME TypeOK, ~Cli, NEW p \in Processes, Touch(p),
         NEW q \in Processes \ {p}, run'[q] = run[q], Staged(q)
  PROVE  Staged(q)'
<1>1. \A name \in Names, kind \in {"empty", "report", "marker"} :
        \A digests : Slot(q)[name] = File(kind, q, digests) =>
                      Slot(q)'[name] = File(kind, q, digests)
  BY OwnStays, OwnFacts DEF At, Slot
<1>2. ASSUME NEW d, NEW k, Stage(Slot(q), d, q, k)
      PROVE  Stage(Slot(q)', d, q, k)
  BY <1>1, <1>2, OwnFacts DEF Stage, Blank, Report, Marker
<1> QED
  BY <1>2 DEF Staged

-----------------------------------------------------------------------------
(* From call to call.                                                      *)

Changed(has, then, name, file) ==
  /\ then[name] = file
  /\ \A n \in Names \ {name} : then[n] = has[n]

(* What a call of p does to its slot.                                      *)
Called(op, name, has, then, p, digests) ==
  /\ op \in {"open", "create"} => Changed(has, then, name, Blank(p))
  /\ op = "fill" /\ has[name] = Blank(p) =>
       Changed(has, then, name, IF name = "markerTmp"
                                THEN File("marker", p, digests)
                                ELSE Report(p))
  /\ op = "replace" =>
       /\ then[name] = has[TempOf(name)]
       /\ \A n \in Names \ {name, TempOf(name)} : then[n] = has[n]
  /\ op \in {"measure", "digest"} => then = has

(* And what p notes of it.                                                 *)
NotedDigests(op, name, has, digests, next) ==
  next = IF op = "digest" THEN Append(digests, DigestOf(has[name]))
         ELSE digests

(* The plan, call by call.                                                 *)
LEMMA Calls ==
  /\ Plan[1] = <<"open", "jsonTmp">> /\ Plan[2] = <<"fill", "jsonTmp">>
  /\ Plan[3] = <<"open", "mdTmp">> /\ Plan[4] = <<"fill", "mdTmp">>
  /\ Plan[5] = <<"create", "json">> /\ Plan[6] = <<"create", "md">>
  /\ Plan[7] = <<"replace", "json">> /\ Plan[8] = <<"replace", "md">>
  /\ Plan[9] = <<"measure", "json">> /\ Plan[10] = <<"measure", "md">>
  /\ Plan[11] = <<"digest", "json">> /\ Plan[12] = <<"digest", "md">>
  /\ Plan[13] = <<"open", "markerTmp">> /\ Plan[14] = <<"fill", "markerTmp">>
  /\ Plan[15] = <<"create", "marker">> /\ Plan[16] = <<"replace", "marker">>
  BY DEF Plan

LEMMA AppendOne ==
  ASSUME NEW x
  PROVE  Append(<<>>, x) = <<x>>
  OBVIOUS

LEMMA AppendTwo ==
  ASSUME NEW x, NEW y
  PROVE  Append(<<x>>, y) = <<x, y>>
<1> DEFINE S == {x, y}
<1>1. PICK t : t = Append(<<x>>, y)
  OBVIOUS
<1>2. <<x>> \in Seq(S) /\ <<x, y>> \in Seq(S) /\ y \in S
  OBVIOUS
<1>3. /\ t \in Seq(S) /\ Len(t) = Len(<<x>>) + 1 /\ t[Len(<<x>>) + 1] = y
      /\ \A i \in 1..Len(<<x>>) : t[i] = <<x>>[i]
  BY <1>1, <1>2, AppendProperties
<1>4. Len(t) = 2 /\ t[1] = x /\ t[2] = y
  BY <1>3
<1>5. t = <<x, y>>
  BY <1>2, <1>3, <1>4, SeqEqual
<1> QED
  BY <1>1, <1>5

LEMMA ReportDigest ==
  ASSUME NEW p
  PROVE  DigestOf(Report(p)) = {p}
  BY DEF DigestOf, Report, File

LEMMA TempOfFacts ==
  /\ TempOf("json") = "jsonTmp" /\ TempOf("md") = "mdTmp"
  /\ TempOf("marker") = "markerTmp"
  BY DEF TempOf

(* Every call takes the slot to the next stage.                            *)
LEMMA StageOnward ==
  ASSUME NEW has, NEW then, NEW digests, NEW next, NEW p, NEW k \in 1..16,
         Stage(has, digests, p, k),
         Called(Plan[k][1], Plan[k][2], has, then, p, digests),
         NotedDigests(Plan[k][1], Plan[k][2], has, digests, next)
  PROVE  Stage(then, next, p, k + 1)
<1>1. k \notin {11, 12} => next = digests
  BY Calls DEF NotedDigests
<1>2. CASE k \in {1, 3, 5, 6, 13, 15}
  <2>1. Changed(has, then, Plan[k][2], Blank(p))
    BY <1>2, Calls DEF Called
  <2> QED
    BY <1>1, <1>2, <2>1, Calls, OwnFacts DEF Stage, Changed, Between
<1>3. CASE k \in {2, 4}
  <2>1. Changed(has, then, Plan[k][2], Report(p))
    BY <1>3, Calls DEF Called, Stage
  <2> QED
    BY <1>1, <1>3, <2>1, Calls, OwnFacts DEF Stage, Changed, Between
<1>4. CASE k = 14
  <2>1. digests = <<{p}, {p}>> /\ has["markerTmp"] = Blank(p)
    BY <1>4 DEF Stage, Between
  <2>2. Changed(has, then, "markerTmp", Marker(p))
    BY <1>4, <2>1, Calls DEF Called, Marker
  <2> QED
    BY <1>1, <1>4, <2>2, OwnFacts DEF Stage, Changed, Between
<1>5. CASE k \in {7, 8, 16}
  <2>1. /\ then[Plan[k][2]] = has[TempOf(Plan[k][2])]
        /\ \A n \in Names \ {Plan[k][2], TempOf(Plan[k][2])} :
             then[n] = has[n]
    BY <1>5, Calls DEF Called
  <2> QED
    BY <1>1, <1>5, <2>1, Calls, TempOfFacts, OwnFacts DEF Stage, Between
<1>6. CASE k \in {9, 10}
  <2>1. then = has
    BY <1>6, Calls DEF Called
  <2> QED
    BY <1>1, <1>6, <2>1 DEF Stage, Between
<1>7. CASE k \in {11, 12}
  <2>1. then = has
    BY <1>7, Calls DEF Called
  <2>2. next = Append(digests, {p})
    <3>1. DigestOf(has[Plan[k][2]]) = {p}
      BY <1>7, Calls, ReportDigest DEF Stage
    <3>2. Plan[k][1] = "digest"
      BY <1>7, Calls
    <3> QED
      BY <3>1, <3>2, Zenon DEF NotedDigests
  <2>3. /\ k = 11 => digests = <<>>
        /\ k = 12 => digests = <<{p}>>
    BY <1>7 DEF Stage
  <2>4. /\ k = 11 => next = <<{p}>>
        /\ k = 12 => next = <<{p}, {p}>>
    BY <2>2, <2>3, AppendOne, AppendTwo, Zenon
  <2> QED
    BY <1>7, <2>1, <2>4 DEF Stage, Between
<1> QED
  BY <1>2, <1>3, <1>4, <1>5, <1>6, <1>7

(* The next call of p, of its slot.                                        *)
LEMMA CallCalled ==
  ASSUME TypeOK, NEW p \in Processes, run[p].pc = "write",
         files' = Effect(p), run'[p].slot = run[p].slot
  PROVE  Called(Op(p), Target(p), Slot(p), Slot(p)', p, run[p].digests)
<1>1. /\ Target(p) \in Names
      /\ Op(p) = "replace" =>
           TempOf(Target(p)) \in Names /\ TempOf(Target(p)) # Target(p)
      /\ \A name \in Names : <<run[p].slot, name>> \in Slots \X Names
  BY CallType, NamesSplit, RunType DEF Runs, Temps, Outputs
<1>2. \A name \in Names : /\ Slot(p)[name] = files[<<run[p].slot, name>>]
                          /\ Slot(p)'[name] = files'[<<run[p].slot, name>>]
  BY DEF Slot, At
<1>3. ASSUME NEW file, files' = With(p, Target(p), file)
      PROVE  Changed(Slot(p), Slot(p)', Target(p), file)
  <2>1. \A f \in Slots \X Names :
          files'[f] = IF f = <<run[p].slot, Target(p)>> THEN file ELSE files[f]
    BY <1>1, <1>3 DEF With, TypeOK
  <2>2. \A name \in Names :
          Slot(p)'[name] = IF name = Target(p) THEN file ELSE Slot(p)[name]
    BY <1>1, <1>2, <2>1
  <2> QED
    BY <1>1, <2>2 DEF Changed
<1>4. ASSUME Op(p) \in {"open", "create"}
      PROVE  Changed(Slot(p), Slot(p)', Target(p), Blank(p))
  <2>1. files' = With(p, Target(p), Blank(p))
    BY <1>4 DEF Effect, Ready, Blank
  <2> QED
    BY <1>3, <2>1
<1>5. ASSUME Op(p) = "fill", Slot(p)[Target(p)] = Blank(p)
      PROVE  Changed(Slot(p), Slot(p)', Target(p),
                     IF Target(p) = "markerTmp"
                     THEN File("marker", p, run[p].digests) ELSE Report(p))
  <2>1. PICK file : file = IF Target(p) = "markerTmp"
                           THEN File("marker", p, run[p].digests)
                           ELSE Report(p)
    OBVIOUS
  <2>2. At(p, Target(p)) = Blank(p)
    BY <1>1, <1>5 DEF Slot
  <2>3. files' = With(p, Target(p), file)
    BY <1>5, <2>1, <2>2 DEF Effect, Ready, Blank, Report
  <2> QED
    BY <1>3, <2>1, <2>3
<1>6. ASSUME Op(p) = "replace"
      PROVE  /\ Slot(p)'[Target(p)] = Slot(p)[TempOf(Target(p))]
             /\ \A name \in Names \ {Target(p), TempOf(Target(p))} :
                  Slot(p)'[name] = Slot(p)[name]
  <2>1. files' = [files EXCEPT
                ![<<run[p].slot, Target(p)>>] = At(p, TempOf(Target(p))),
                ![<<run[p].slot, TempOf(Target(p))>>] = Absent]
    BY <1>6 DEF Effect, Ready
  <2>2. \A f \in Slots \X Names :
          files'[f] = IF f = <<run[p].slot, TempOf(Target(p))>> THEN Absent
                      ELSE IF f = <<run[p].slot, Target(p)>>
                           THEN At(p, TempOf(Target(p)))
                           ELSE files[f]
    BY <1>1, <1>6, <2>1 DEF TypeOK
  <2>3. \A name \in Names :
          Slot(p)'[name] = IF name = TempOf(Target(p)) THEN Absent
                           ELSE IF name = Target(p)
                                THEN At(p, TempOf(Target(p)))
                                ELSE Slot(p)[name]
    BY <1>1, <1>2, <2>2
  <2> QED
    BY <1>1, <1>6, <2>3 DEF Slot
<1>7. ASSUME Op(p) \in {"measure", "digest"}
      PROVE  Slot(p)' = Slot(p)
  <2>1. files' = files
    BY <1>7 DEF Effect, Ready
  <2> QED
    BY <2>1 DEF Slot, At
<1> QED
  BY <1>4, <1>5, <1>6, <1>7 DEF Called

LEMMA CallStage ==
  ASSUME TypeOK, NEW p \in Processes, run[p].pc = "write", Staged(p),
         files' = Effect(p), run'[p].slot = run[p].slot,
         run'[p].digests = Noted(p).digests
  PROVE  Stage(Slot(p)', run'[p].digests, p, run[p].at + 1)
<1>1. PICK has, then, digests, next, k :
        /\ has = Slot(p) /\ then = Slot(p)' /\ digests = run[p].digests
        /\ next = run'[p].digests /\ k = run[p].at
  OBVIOUS
<1>2. k \in 1..16 /\ Op(p) = Plan[k][1] /\ Target(p) = Plan[k][2]
  BY <1>1, CallType DEF Op, Target
<1>3. Stage(has, digests, p, k)
  BY <1>1 DEF Staged
<1>4. Called(Plan[k][1], Plan[k][2], has, then, p, digests)
  BY <1>1, <1>2, CallCalled
<1>5. NotedDigests(Plan[k][1], Plan[k][2], has, digests, next)
  <2>1. Noted(p).digests = IF Op(p) = "digest"
                           THEN Append(run[p].digests,
                                       DigestOf(At(p, Target(p))))
                           ELSE run[p].digests
    BY RunType DEF Noted, Runs
  <2>2. Slot(p)[Target(p)] = At(p, Target(p))
    BY CallType, NamesSplit DEF Slot
  <2> QED
    BY <1>1, <1>2, <2>1, <2>2, Zenon DEF NotedDigests
<1>6. Stage(then, next, p, k + 1)
  BY <1>2, <1>3, <1>4, <1>5, StageOnward
<1> QED
  BY <1>1, <1>6

-----------------------------------------------------------------------------
(* Every step.                                                             *)

Reserving == {"idle", "check", "lock", "recheck", "giveBack"}
Leaving == {"unlink", "release", "ended"}

(* p alone moves, and its stage is right afterwards.                       *)
Stages(p) == (\E r : Becomes(p, r)) /\ Staged(p)'

LEMMA StagedAfter ==
  ASSUME TypeOK, NEW p \in Processes, NEW r, Becomes(p, r),
         \/ r.pc \in Reserving /\ r.digests = <<>>
         \/ r.pc \in Leaving /\ r.error # "none"
         \/ r.pc = "write" /\ Stage(Slot(p)', r.digests, p, r.at)
         \/ r.pc \in Leaving /\ Stage(Slot(p)', r.digests, p, 17)
  PROVE  Stages(p)
<1>1. run'[p] = r
  BY DEF Becomes, TypeOK
<1>2. Staged(p)'
  BY <1>1 DEF Staged, Reserving, Leaving
<1> QED
  BY <1>2 DEF Stages

LEMMA FirstStage == \A has, p : Stage(has, <<>>, p, 1)
  BY DEF Stage, Between

(* The reports and their marker are what they were.                        *)
LEMMA FinalStage ==
  ASSUME NEW has, NEW then, NEW digests, NEW p, Stage(has, digests, p, 17),
         \A name \in Outputs : then[name] = has[name]
  PROVE  Stage(then, digests, p, 17)
  BY DEF Stage, Between, Outputs

LEMMA EndStaged ==
  ASSUME TypeOK, ~Cli, NEW p \in Processes,
         \/ Occupied(p)
         \/ \E error : error # "none" /\ (End(p, error) \/ Unwind(p, error))
  PROVE  Stages(p)
<1>1. PICK error : error # "none" /\ (End(p, error) \/ Unwind(p, error))
  BY DEF Occupied
<1> DEFINE r(pc) == [run[p] EXCEPT !.pc = pc, !.error = error]
<1>2. \A pc : r(pc).pc = pc /\ r(pc).error = error
  BY RunType DEF Runs
<1>3. PICK pc \in {"ended", "unlink"} : Becomes(p, r(pc))
  BY <1>1 DEF End, Unwind
<1> HIDE DEF r
<1> QED
  BY <1>1, <1>2, <1>3, StagedAfter DEF Leaving

LEMMA ReserveStaged ==
  ASSUME TypeOK, ~Cli, NEW p \in Processes, Staged(p),
         Start(p) \/ Look(p) \/ TakeLock(p) \/ GiveBack(p)
  PROVE  Stages(p)
<1>1. run[p] \in Runs
  BY RunType
<1>2. run[p].digests = <<>>
  BY DEF Staged, Start, Look, LookIn, TakeLock, GiveBack
<1>3. ASSUME Start(p)
      PROVE  Stages(p)
  <2>1. PICK s \in Candidates :
          Becomes(p, [run[p] EXCEPT !.pc = "check", !.slot = s])
    BY <1>3 DEF Start
  <2> DEFINE r == [run[p] EXCEPT !.pc = "check", !.slot = s]
  <2>2. r.pc = "check" /\ r.digests = <<>> /\ Becomes(p, r)
    BY <1>1, <1>2, <2>1 DEF Runs
  <2> HIDE DEF r
  <2> QED
    BY <2>2, StagedAfter DEF Reserving
<1>4. ASSUME Look(p)
      PROVE  Stages(p)
  <2>1. CASE Exists(At(p, Finals[run[p].at])) /\ run[p].pc = "check"
    <3>1. Occupied(p)
      BY <1>4, <2>1, Zenon DEF Look, LookIn
    <3> QED
      BY <3>1, EndStaged
  <2>2. CASE Exists(At(p, Finals[run[p].at])) /\ run[p].pc # "check"
    <3> DEFINE r == [run[p] EXCEPT !.pc = "giveBack"]
    <3>1. r.pc = "giveBack" /\ r.digests = <<>> /\ Becomes(p, r)
      BY <1>1, <1>2, <1>4, <2>2 DEF Look, LookIn, Runs
    <3> HIDE DEF r
    <3> QED
      BY <3>1, StagedAfter DEF Reserving
  <2>3. CASE ~Exists(At(p, Finals[run[p].at])) /\ run[p].at < Len(Finals)
    <3> DEFINE r == [run[p] EXCEPT !.at = run[p].at + 1]
    <3>1. r.pc = run[p].pc /\ r.digests = <<>> /\ Becomes(p, r)
      BY <1>1, <1>2, <1>4, <2>3 DEF Look, LookIn, Runs
    <3>2. run[p].pc \in Reserving
      BY <1>4 DEF Look, LookIn, Reserving
    <3> HIDE DEF r
    <3> QED
      BY <3>1, <3>2, StagedAfter
  <2>4. CASE /\ ~Exists(At(p, Finals[run[p].at]))
             /\ ~(run[p].at < Len(Finals))
    <3> DEFINE pc == CASE run[p].pc = "check" -> "lock"
                       [] run[p].pc # "check" /\ Cli -> "build"
                       [] OTHER -> "write"
               r == [run[p] EXCEPT !.at = 1, !.pc = pc]
    <3>1. pc \in {"lock", "write"}
      OBVIOUS
    <3>2. Becomes(p, r)
      BY <1>4, <2>4, Zenon DEF Look, LookIn
    <3>3. r.pc = pc /\ r.at = 1 /\ r.digests = <<>>
      BY <1>1, <1>2 DEF Runs
    <3> HIDE DEF r, pc
    <3> QED
      BY <3>1, <3>2, <3>3, FirstStage, StagedAfter DEF Reserving
  <2> QED
    BY <2>1, <2>2, <2>3, <2>4
<1>5. ASSUME TakeLock(p)
      PROVE  Stages(p)
  <2>1. CASE Possible(p)
    <3> DEFINE r == [run[p] EXCEPT !.pc = "recheck", !.at = 1]
    <3>1. r.pc = "recheck" /\ r.digests = <<>> /\ Becomes(p, r)
      BY <1>1, <1>2, <1>5, <2>1 DEF TakeLock, Runs
    <3> HIDE DEF r
    <3> QED
      BY <3>1, StagedAfter DEF Reserving
  <2>2. CASE ~Possible(p)
    <3>1. Occupied(p)
      BY <1>5, <2>2, Zenon DEF TakeLock
    <3> QED
      BY <3>1, EndStaged
  <2> QED
    BY <2>1, <2>2
<1>6. ASSUME GiveBack(p)
      PROVE  Stages(p)
  <2>1. Occupied(p) \/ (run[p].error # "none" /\ End(p, run[p].error))
    BY <1>6, Zenon DEF GiveBack
  <2> QED
    BY <2>1, EndStaged
<1> QED
  BY <1>3, <1>4, <1>5, <1>6

LEMMA WriteStaged ==
  ASSUME TypeOK, ~Cli, NEW p \in Processes, Staged(p), Write(p)
  PROVE  Stages(p)
<1>1. run[p].pc = "write" /\ run[p].at \in 1..16
  BY CallType DEF Write
<1>2. CASE Possible(p)
  <2> DEFINE r == Onward(Noted(p))
  <2>1. Becomes(p, r) /\ files' = Effect(p)
    BY <1>2, Zenon DEF Write
  <2>2. /\ r.slot = run[p].slot /\ r.digests = Noted(p).digests
        /\ run[p].at = 16 => r.pc = "unlink"
        /\ run[p].at # 16 => r.pc = "write" /\ r.at = run[p].at + 1
    <3>1. Noted(p).digests = IF Op(p) = "digest"
                             THEN Append(run[p].digests,
                                         DigestOf(At(p, Target(p))))
                             ELSE run[p].digests
      BY RunType DEF Noted, Runs
    <3> QED
      BY <1>1, <3>1, OnwardFacts
  <2> HIDE DEF r
  <2>3. run'[p] = r
    BY <2>1 DEF Becomes, TypeOK
  <2>4. Stage(Slot(p)', r.digests, p, run[p].at + 1)
    BY <1>1, <2>1, <2>2, <2>3, CallStage
  <2> QED
    BY <1>1, <2>1, <2>2, <2>4, StagedAfter DEF Leaving
<1>3. CASE ~Possible(p)
  <2>1. Unwind(p, "exception")
    BY <1>3, Zenon DEF Write
  <2> QED
    BY <2>1, EndStaged
<1> QED
  BY <1>2, <1>3

(* The clean-up of a call that returns touches no output.                  *)
LEMMA CleanupStaged ==
  ASSUME TypeOK, ~Cli, NEW p \in Processes, Staged(p),
         Unlink(p) \/ Release(p)
  PROVE  Stages(p)
<1>1. run[p] \in Runs /\ files' = Effect(p) /\ run[p].pc \in {"unlink", "release"}
  BY RunType DEF Unlink, Release
<1>2. PICK r : /\ Becomes(p, r) /\ r.slot = run[p].slot
               /\ r.digests = run[p].digests /\ r.error = run[p].error
               /\ r.pc \in Leaving
  <2>1. CASE Unlink(p)
    <3> DEFINE done == [run[p] EXCEPT !.pc = "release"]
               fewerTemps == [run[p] EXCEPT !.temps = Tail(@)]
               fewerOutputs == [run[p] EXCEPT !.outputs = Tail(@)]
    <3>1. \/ Becomes(p, done) \/ Becomes(p, fewerTemps)
          \/ Becomes(p, fewerOutputs)
      BY <2>1 DEF Unlink
    <3>2. /\ done.slot = run[p].slot /\ done.pc = "release"
          /\ done.digests = run[p].digests /\ done.error = run[p].error
          /\ fewerTemps.slot = run[p].slot /\ fewerTemps.pc = "unlink"
          /\ fewerTemps.digests = run[p].digests
          /\ fewerTemps.error = run[p].error
          /\ fewerOutputs.slot = run[p].slot /\ fewerOutputs.pc = "unlink"
          /\ fewerOutputs.digests = run[p].digests
          /\ fewerOutputs.error = run[p].error
      BY <1>1, <2>1 DEF Runs, Unlink
    <3> HIDE DEF done, fewerTemps, fewerOutputs
    <3> QED
      BY <3>1, <3>2 DEF Leaving
  <2>2. CASE Release(p)
    <3> DEFINE r == [run[p] EXCEPT !.pc = "ended"]
    <3>1. Becomes(p, r)
      BY <2>2 DEF Release
    <3>2. /\ r.slot = run[p].slot /\ r.digests = run[p].digests
          /\ r.error = run[p].error /\ r.pc = "ended"
      BY <1>1 DEF Runs
    <3> HIDE DEF r
    <3> QED
      BY <3>1, <3>2 DEF Leaving
  <2> QED
    BY <2>1, <2>2
<1>3. CASE run[p].error # "none"
  BY <1>2, <1>3, StagedAfter
<1>4. CASE run[p].error = "none"
  <2>1. Stage(Slot(p), run[p].digests, p, 17)
    BY <1>1, <1>4 DEF Staged
  <2>2. \E name \in Temps \cup {"lock"} :
          files' = files \/ files' = With(p, name, Absent)
    <3>1. CASE run[p].pc = "release"
      BY <1>1, <3>1 DEF Effect, Ready
    <3>2. CASE run[p].pc = "unlink" /\ Doomed(run[p]) = <<>>
      BY <1>1, <3>2 DEF Effect, Ready, Temps
    <3>3. CASE run[p].pc = "unlink" /\ Doomed(run[p]) # <<>>
      <4>1. Doomed(run[p]) = run[p].temps
        BY <1>1, <1>4, ConcatEmptySeq DEF Doomed, Runs
      <4>2. Head(Doomed(run[p])) \in Temps
        BY <1>1, <3>3, <4>1, HeadTailProperties DEF Runs
      <4>3. files' = With(p, Head(Doomed(run[p])), Absent)
        BY <1>1, <3>3 DEF Effect, Ready
      <4> QED
        BY <4>2, <4>3
    <3> QED
      BY <1>1, <3>1, <3>2, <3>3
  <2>3. run'[p] = r
    BY <1>2 DEF Becomes, TypeOK
  <2>4. \A name \in Outputs : files'[<<run[p].slot, name>>] = At(p, name)
    <3>1. \A name \in Outputs : /\ name \notin Temps \cup {"lock"}
                               /\ <<run[p].slot, name>> \in Slots \X Names
      BY <1>1, NamesSplit DEF Runs, Temps, Outputs
    <3> QED
      BY <2>2, <3>1 DEF With, At, TypeOK
  <2>5. \A name \in Outputs : Slot(p)'[name] = Slot(p)[name]
    BY <1>2, <2>3, <2>4, NamesSplit DEF Slot, At
  <2>6. PICK has, then, digests : has = Slot(p) /\ then = Slot(p)'
                                 /\ digests = run[p].digests
    OBVIOUS
  <2>7. Stage(then, digests, p, 17)
    BY <2>1, <2>5, <2>6, FinalStage
  <2> QED
    BY <1>2, <2>6, <2>7, StagedAfter
<1> QED
  BY <1>3, <1>4

LEMMA FaultStaged ==
  ASSUME TypeOK, ~Cli, HoldersLock, NEW p \in Processes, Staged(p),
         Crash(p) \/ Raise(p) \/ Interrupt(p)
  PROVE  Stages(p)
<1>1. run[p] \in Runs /\ run[p].pc # "build"
  BY RunType DEF HoldersLock
<1>2. CASE Raise(p) /\ run[p].pc = "lock"
  <2> DEFINE r == [run[p] EXCEPT !.pc = "giveBack", !.error = "exception"]
  <2>1. Becomes(p, r)
    BY <1>2 DEF Raise
  <2>2. r.pc = "giveBack" /\ r.digests = <<>>
    BY <1>1, <1>2 DEF Runs, Staged
  <2> HIDE DEF r
  <2> QED
    BY <2>1, <2>2, StagedAfter DEF Reserving
<1>3. CASE Raise(p) /\ run[p].pc # "lock"
  <2>1. Unwind(p, "exception") \/ End(p, "abandoned")
    BY <1>1, <1>3 DEF Raise
  <2> QED
    BY <2>1, EndStaged
<1>4. CASE Crash(p) \/ Interrupt(p)
  <2>1. \/ End(p, "crash") \/ Unwind(p, "interrupt") \/ End(p, "abandoned")
    BY <1>4 DEF Crash, Interrupt
  <2> QED
    BY <2>1, EndStaged
<1> QED
  BY <1>2, <1>3, <1>4

LEMMA StepStaged ==
  ASSUME TypeOK, ~Cli, HoldersLock, ClaimsInv, StagesInv, [Next]_vars
  PROVE  StagesInv'
<1>1. CASE UNCHANGED vars
  BY <1>1 DEF vars, StagesInv, Staged, Slot, At
<1>2. CASE AllEnded
  BY <1>2 DEF AllEnded, vars, StagesInv, Staged, Slot, At
<1>3. ASSUME NEW p \in Processes,
             Start(p) \/ Step(p) \/ Crash(p) \/ Raise(p) \/ Interrupt(p)
      PROVE  StagesInv'
  <2>1. Touch(p)
    BY <1>3, StepSound DEF Sound
  <2>2. ~Build(p) /\ ~ReleaseAgain(p)
    BY DEF HoldersLock, Build, ReleaseAgain
  <2>3. Stages(p)
    BY <1>3, <2>2, ReserveStaged, WriteStaged, CleanupStaged, FaultStaged
       DEF Step, StagesInv
  <2>4. \A q \in Processes \ {p} : run'[q] = run[q]
    BY <2>3 DEF Stages, Becomes, TypeOK
  <2>5. ASSUME NEW q \in Processes
        PROVE  Staged(q)'
    <3>1. CASE q = p
      BY <2>3, <3>1 DEF Stages
    <3>2. CASE q # p
      BY <2>1, <2>4, <3>2, OthersStaged DEF StagesInv
    <3> QED
      BY <3>1, <3>2
  <2> QED
    BY <2>5 DEF StagesInv
<1> QED
  BY <1>1, <1>2, <1>3 DEF Next

THEOREM StagesInvariant ==
  ASSUME ~Cli
  PROVE  Spec => []StagesInv
<1>1. Init => StagesInv
  <2> SUFFICES ASSUME Init, NEW p \in Processes PROVE Staged(p)
    BY DEF StagesInv
  <2>1. run[p] = Unstarted
    BY DEF Init
  <2> QED
    BY <2>1 DEF Unstarted, Staged
<1>2. TypeOK /\ HoldersLock /\ ClaimsInv /\ StagesInv /\ [Next]_vars =>
        StagesInv'
  BY StepStaged
<1> QED
  BY <1>1, <1>2, SlotsTyping, LockInvariant, ClaimsInvariant, PTL DEF Spec

(* A call of write_report that returned without an error left a complete   *)
(* pair in its slot, both reports its own, and it stays.                   *)
THEOREM ReturnedPairs ==
  ASSUME ~Cli
  PROVE  Spec => []ReturnedIsComplete
<1>1. StagesInv => ReturnedIsComplete
  <2> SUFFICES ASSUME StagesInv, NEW p \in Processes, run[p].pc = "ended",
                      run[p].error = "none"
               PROVE  /\ Complete(run[p].slot)
                      /\ At(p, "json").by = p /\ At(p, "md").by = p
    BY DEF ReturnedIsComplete
  <2>1. Stage(Slot(p), run[p].digests, p, 17)
    BY DEF StagesInv, Staged
  <2>2. /\ At(p, "json") = Report(p) /\ At(p, "md") = Report(p)
        /\ At(p, "marker") = Marker(p)
    BY <2>1, OwnFacts DEF Stage, Between, Slot
  <2>3. /\ Report(p).kind = "report" /\ Report(p).by = p
        /\ Marker(p).kind = "marker" /\ Marker(p).digests = <<{p}, {p}>>
        /\ DigestOf(Report(p)) = {p}
    BY ReportDigest DEF Report, Marker, File
  <2> QED
    BY <2>2, <2>3 DEF Complete, At
<1> QED
  BY <1>1, StagesInvariant, PTL

-----------------------------------------------------------------------------
(* What an exception leaves behind.                                        *)

Own(p, file) == Exists(file) /\ file.by = p

(* Nobody cleans up after these.                                           *)
Forgiven(r) == r.error \in {"interrupt", "abandoned", "crash"}

(* The names a run has to account for.                                     *)
Kept(r) ==
  {name \in Names :
     \/ name = "lock" /\ r.pc \in Holding
     \/ r.pc \in {"write", "unlink"} /\ Listed(r, name)
     \/ r.pc = "write" /\ Plan[r.at] = <<"fill", name>>
     \/ r.pc \in {"release", "ended"} /\ r.error = "none" /\ name \in Outputs}

(* Until it unwinds, a run has seen no error.                              *)
ErrorsPlaced(r) ==
  /\ r.pc \in {"idle", "check", "lock", "recheck", "write"} => r.error = "none"
  /\ r.pc = "giveBack" => r.error \in {"none", "exception"}

Tidy(p) ==
  /\ ErrorsPlaced(run[p])
  /\ Forgiven(run[p]) \/ \A f \in Slots \X Names :
       Own(p, files[f]) => f[1] = run[p].slot /\ f[2] \in Kept(run[p])

(* The inductive invariant of the clean-up.                                *)
TidyInv == \A p \in Processes : Tidy(p)

-----------------------------------------------------------------------------
(* The files of a slot.                                                    *)

LEMMA SlotFiles ==
  ASSUME TypeOK, NEW p \in Processes, NEW name \in Names
  PROVE  /\ <<run[p].slot, name>> \in Slots \X Names
         /\ Slot(p)[name] = files[<<run[p].slot, name>>]
  BY RunType DEF Runs, Slot, At

LEMMA AbsentNotOwn == \A p : ~Own(p, Absent)
  BY DEF Own, Absent, File, Exists

(* One file of the slot changes.                                           *)
LEMMA WithSlot ==
  ASSUME TypeOK, NEW p \in Processes, NEW name \in Names, NEW file,
         files' = With(p, name, file)
  PROVE  \A n \in Names :
           files'[<<run[p].slot, n>>] = IF n = name THEN file ELSE Slot(p)[n]
<1>1. \A f \in Slots \X Names :
        files'[f] = IF f = <<run[p].slot, name>> THEN file ELSE files[f]
  BY SlotFiles DEF With, TypeOK
<1> QED
  BY <1>1, SlotFiles

(* A file of p's slot that is p's own is accounted for.                    *)
LEMMA OwnKept ==
  ASSUME TypeOK, NEW p \in Processes, Tidy(p), ~Forgiven(run[p]),
         NEW name \in Names, Own(p, Slot(p)[name])
  PROVE  name \in Kept(run[p])
  BY SlotFiles DEF Tidy

(* Other processes make and change no file of q.                           *)
LEMMA OthersTidy ==
  ASSUME TypeOK, ~Cli, NEW p \in Processes, Touch(p),
         NEW q \in Processes \ {p}, run'[q] = run[q], Tidy(q)
  PROVE  Tidy(q)'
<1>1. ASSUME NEW f \in Slots \X Names, Own(q, files'[f])
      PROVE  Own(q, files[f])
  BY <1>1 DEF Touch, MayChange, Own
<1> QED
  BY <1>1 DEF Tidy, Own, Exists

(* What p accounts for after its own step.                                 *)
LEMMA TidyAfter ==
  ASSUME TypeOK, NEW p \in Processes, Touch(p), Tidy(p), NEW r,
         Becomes(p, r), ErrorsPlaced(r),
         \/ Forgiven(r)
         \/ /\ ~Forgiven(run[p]) /\ r.slot = run[p].slot
            /\ \A name \in Names :
                 Own(p, files'[<<run[p].slot, name>>]) => name \in Kept(r)
  PROVE  Tidy(p)'
<1>1. run'[p] = r
  BY DEF Becomes, TypeOK
<1>2. CASE Forgiven(r)
  BY <1>1, <1>2 DEF Tidy
<1>3. CASE ~Forgiven(r)
  <2>1. ASSUME NEW f \in Slots \X Names, Own(p, files'[f])
        PROVE  f[1] = r.slot /\ f[2] \in Kept(r)
    <3>1. CASE files'[f] = files[f]
      <4>1. f[1] = run[p].slot
        BY <1>3, <2>1, <3>1 DEF Tidy
      <4> QED
        BY <1>3, <2>1, <4>1
    <3>2. CASE files'[f] # files[f]
      <4>1. f[1] = run[p].slot
        BY <3>2 DEF Touch
      <4> QED
        BY <1>3, <2>1, <4>1
    <3> QED
      BY <3>1, <3>2
  <2> QED
    BY <1>1, <2>1 DEF Tidy, Own, Exists
<1> QED
  BY <1>2, <1>3

(* Before its lock a process has nothing, and with it only the lock.       *)
LEMMA ReservingOwn ==
  ASSUME TypeOK, NEW p \in Processes, Tidy(p), run[p].pc \in Reserving
  PROVE  /\ ~Forgiven(run[p])
         /\ \A name \in Names :
              Own(p, Slot(p)[name]) =>
                run[p].pc \in {"recheck", "giveBack"} /\ name = "lock"
<1>1. ~Forgiven(run[p])
  BY DEF Tidy, ErrorsPlaced, Forgiven, Reserving
<1> QED
  BY <1>1, OwnKept DEF Kept, Holding, Reserving

-----------------------------------------------------------------------------
(* Every step.                                                             *)

(* A process that gives up leaves what it does not account for, unless it  *)
(* is forgiven, to nobody.                                                 *)
LEMMA EndTidy ==
  ASSUME TypeOK, ~Cli, NEW p \in Processes, Touch(p), Tidy(p),
         \/ /\ Occupied(p) \/ End(p, "exception")
            /\ ~Forgiven(run[p])
            /\ \A name \in Names : ~Own(p, files'[<<run[p].slot, name>>])
         \/ \E error \in {"interrupt", "abandoned", "crash"} :
              End(p, error) \/ Unwind(p, error)
  PROVE  Tidy(p)'
<1> DEFINE r(pc, error) == [run[p] EXCEPT !.pc = pc, !.error = error]
<1>1. \A pc, error : /\ r(pc, error).pc = pc /\ r(pc, error).error = error
                     /\ r(pc, error).slot = run[p].slot
  BY RunType DEF Runs
<1>2. CASE /\ Occupied(p) \/ End(p, "exception")
           /\ ~Forgiven(run[p])
           /\ \A name \in Names : ~Own(p, files'[<<run[p].slot, name>>])
  <2>1. Becomes(p, r("ended", "exception"))
    BY <1>2 DEF Occupied, End
  <2> HIDE DEF r
  <2>2. ErrorsPlaced(r("ended", "exception"))
    BY <1>1 DEF ErrorsPlaced
  <2> QED
    BY <1>1, <1>2, <2>1, <2>2, TidyAfter
<1>3. ASSUME NEW error \in {"interrupt", "abandoned", "crash"},
             End(p, error) \/ Unwind(p, error)
      PROVE  Tidy(p)'
  <2>1. PICK pc \in {"ended", "unlink"} : Becomes(p, r(pc, error))
    BY <1>3 DEF End, Unwind
  <2> HIDE DEF r
  <2>2. ErrorsPlaced(r(pc, error)) /\ Forgiven(r(pc, error))
    BY <1>1 DEF ErrorsPlaced, Forgiven
  <2> QED
    BY <2>1, <2>2, TidyAfter
<1> QED
  BY <1>2, <1>3

LEMMA ReserveTidy ==
  ASSUME TypeOK, ~Cli, NEW p \in Processes, Touch(p), Tidy(p),
         Start(p) \/ Look(p) \/ TakeLock(p) \/ GiveBack(p)
  PROVE  Tidy(p)'
<1>1. run[p] \in Runs /\ run[p].pc \in Reserving
  BY RunType DEF Reserving, Start, Look, LookIn, TakeLock, GiveBack
<1>2. /\ ~Forgiven(run[p])
      /\ \A name \in Names :
           Own(p, Slot(p)[name]) =>
             run[p].pc \in {"recheck", "giveBack"} /\ name = "lock"
  BY <1>1, ReservingOwn
<1>3. files' = files =>
        \A name \in Names : files'[<<run[p].slot, name>>] = Slot(p)[name]
  BY SlotFiles
<1>4. ASSUME Start(p)
      PROVE  Tidy(p)'
  <2>1. PICK s \in Candidates :
          Becomes(p, [run[p] EXCEPT !.pc = "check", !.slot = s])
    BY <1>4 DEF Start
  <2> DEFINE r == [run[p] EXCEPT !.pc = "check", !.slot = s]
  <2>2. r.pc = "check" /\ r.error = "none" /\ run'[p] = r
    BY <1>1, <1>4, <2>1 DEF Runs, Start, Tidy, ErrorsPlaced, Becomes, TypeOK
  <2> HIDE DEF r
  <2>3. \A f \in Slots \X Names : ~Own(p, files[f])
    BY <1>2, <1>4 DEF Start, Tidy, Kept, Holding
  <2> QED
    BY <1>4, <2>2, <2>3 DEF Start, Tidy, ErrorsPlaced, Own, Exists
<1>5. ASSUME Look(p)
      PROVE  Tidy(p)'
  <2>1. files' = files /\ run[p].pc \in {"check", "recheck"}
        /\ run[p].error = "none"
    BY <1>5 DEF Look, LookIn, Tidy, ErrorsPlaced
  <2>2. CASE Exists(At(p, Finals[run[p].at])) /\ run[p].pc = "check"
    <3>1. Occupied(p)
      BY <1>5, <2>2, Zenon DEF Look, LookIn
    <3> QED
      BY <1>2, <1>3, <2>1, <2>2, <3>1, EndTidy
  <2>3. ASSUME ~(Exists(At(p, Finals[run[p].at])) /\ run[p].pc = "check")
        PROVE  \E r : /\ Becomes(p, r) /\ r.slot = run[p].slot
                      /\ r.error = "none"
                      /\ run[p].pc = "recheck" => r.pc \in Holding
    <3>1. CASE Exists(At(p, Finals[run[p].at]))
      <4> DEFINE r == [run[p] EXCEPT !.pc = "giveBack"]
      <4>1. Becomes(p, r) /\ run[p].pc = "recheck"
        BY <1>5, <2>1, <2>3, <3>1 DEF Look, LookIn
      <4>2. r.slot = run[p].slot /\ r.error = "none" /\ r.pc = "giveBack"
        BY <1>1, <2>1 DEF Runs
      <4> HIDE DEF r
      <4> QED
        BY <4>1, <4>2 DEF Holding
    <3>2. CASE ~Exists(At(p, Finals[run[p].at])) /\ run[p].at < Len(Finals)
      <4> DEFINE r == [run[p] EXCEPT !.at = run[p].at + 1]
      <4>1. Becomes(p, r)
        BY <1>5, <3>2 DEF Look, LookIn
      <4>2. r.slot = run[p].slot /\ r.error = "none" /\ r.pc = run[p].pc
        BY <1>1, <2>1 DEF Runs
      <4> HIDE DEF r
      <4> QED
        BY <2>1, <4>1, <4>2 DEF Holding
    <3>3. CASE /\ ~Exists(At(p, Finals[run[p].at]))
               /\ ~(run[p].at < Len(Finals))
      <4> DEFINE pc == CASE run[p].pc = "check" -> "lock"
                         [] run[p].pc # "check" /\ Cli -> "build"
                         [] OTHER -> "write"
                 r == [run[p] EXCEPT !.at = 1, !.pc = pc]
      <4>1. /\ run[p].pc = "check" => pc = "lock"
            /\ run[p].pc = "recheck" => pc = "write"
        BY <2>1
      <4>2. Becomes(p, r)
        BY <1>5, <3>3, Zenon DEF Look, LookIn
      <4>3. r.slot = run[p].slot /\ r.error = "none" /\ r.pc = pc
        BY <1>1, <2>1 DEF Runs
      <4> HIDE DEF r, pc
      <4> QED
        BY <2>1, <4>1, <4>2, <4>3 DEF Holding
    <3> QED
      BY <3>1, <3>2, <3>3
  <2>4. ASSUME ~(Exists(At(p, Finals[run[p].at])) /\ run[p].pc = "check")
        PROVE  Tidy(p)'
    <3>1. PICK r : /\ Becomes(p, r) /\ r.slot = run[p].slot
                   /\ r.error = "none"
                   /\ run[p].pc = "recheck" => r.pc \in Holding
      BY <2>3, <2>4
    <3>2. ErrorsPlaced(r)
      BY <3>1 DEF ErrorsPlaced
    <3>3. \A name \in Names :
            Own(p, files'[<<run[p].slot, name>>]) => name \in Kept(r)
      BY <1>2, <1>3, <2>1, <3>1 DEF Kept
    <3> QED
      BY <1>2, <3>1, <3>2, <3>3, TidyAfter
  <2> QED
    BY <2>2, <2>4
<1>6. ASSUME TakeLock(p)
      PROVE  Tidy(p)'
  <2>1. CASE Possible(p)
    <3> DEFINE r == [run[p] EXCEPT !.pc = "recheck", !.at = 1]
    <3>1. /\ Becomes(p, r) /\ run[p].pc = "lock"
          /\ files' = With(p, "lock", File("lock", p, <<>>))
      BY <1>6, <2>1 DEF TakeLock, Effect, Ready
    <3>2. r.slot = run[p].slot /\ r.error = "none" /\ r.pc = "recheck"
      BY <1>1, <3>1 DEF Runs, Tidy, ErrorsPlaced
    <3> HIDE DEF r
    <3>3. ErrorsPlaced(r)
      BY <3>2 DEF ErrorsPlaced
    <3>4. \A name \in Names : name # "lock" =>
            ~Own(p, files'[<<run[p].slot, name>>])
      <4>1. "lock" \in Names
        BY NamesSplit
      <4> QED
        BY <1>2, <3>1, <4>1, WithSlot
    <3>5. \A name \in Names :
            Own(p, files'[<<run[p].slot, name>>]) => name \in Kept(r)
      BY <3>2, <3>4 DEF Kept, Holding
    <3> QED
      BY <1>2, <3>1, <3>2, <3>3, <3>5, TidyAfter
  <2>2. CASE ~Possible(p)
    <3>1. Occupied(p) /\ files' = files /\ run[p].pc = "lock"
      BY <1>6, <2>2, Zenon DEF TakeLock
    <3> QED
      BY <1>2, <1>3, <3>1, EndTidy
  <2> QED
    BY <2>1, <2>2
<1>7. ASSUME GiveBack(p)
      PROVE  Tidy(p)'
  <2>1. /\ run[p].pc = "giveBack" /\ run[p].error \in {"none", "exception"}
        /\ files' = With(p, "lock", Absent)
    BY <1>7 DEF GiveBack, Effect, Ready, Tidy, ErrorsPlaced
  <2>2. "lock" \in Names
    BY NamesSplit
  <2>3. \A name \in Names : ~Own(p, files'[<<run[p].slot, name>>])
    BY <1>2, <2>1, <2>2, WithSlot, AbsentNotOwn
  <2>4. Occupied(p) \/ End(p, "exception")
    BY <1>7, <2>1, Zenon DEF GiveBack
  <2> QED
    BY <1>2, <2>3, <2>4, EndTidy
<1> QED
  BY <1>4, <1>5, <1>6, <1>7

(* t is s and one more.                                                    *)
Extended(t, s, e) ==
  /\ Len(s) \in Nat /\ Len(t) = Len(s) + 1 /\ t[Len(s) + 1] = e
  /\ \A j \in 1..Len(s) : t[j] = s[j]

LEMMA HasExtended ==
  ASSUME NEW s, NEW t, NEW e, NEW name, Extended(t, s, e),
         name = e \/ Has(s, name)
  PROVE  Has(t, name)
<1>1. Len(s) + 1 \in 1..Len(t) /\ t[Len(s) + 1] = e
  BY DEF Extended
<1>2. ASSUME NEW j \in 1..Len(s)
      PROVE  j \in 1..Len(t) /\ t[j] = s[j]
  BY DEF Extended
<1> QED
  BY <1>1, <1>2 DEF Has

(* A call keeps what was listed and lists what it has written or created.  *)
LEMMA OnwardListed ==
  ASSUME TypeOK, NEW p \in Processes, run[p].pc = "write",
         NEW r, r = Onward(Noted(p))
  PROVE  /\ \A name : Listed(run[p], name) => Listed(r, name)
         /\ Op(p) \in {"fill", "create"} => Listed(r, Target(p))
<1>1. /\ run[p].temps \in Seq(Temps) /\ run[p].outputs \in Seq(Outputs)
      /\ Op(p) = "fill" => Target(p) \in Temps
      /\ Op(p) = "create" => Target(p) \in Outputs
  BY RunType, CallType DEF Runs, Outputs
<1>2. /\ r.temps = IF Op(p) = "fill"
                   THEN Append(run[p].temps, Target(p)) ELSE run[p].temps
      /\ r.outputs = IF Op(p) = "create"
                     THEN Append(run[p].outputs, Target(p))
                     ELSE run[p].outputs
  BY OnwardFacts
<1>3. CASE Op(p) = "fill"
  <2>1. Extended(r.temps, run[p].temps, Target(p)) /\ r.outputs = run[p].outputs
    BY <1>1, <1>2, <1>3, AppendProperties, LenProperties DEF Extended
  <2> QED
    BY <1>3, <2>1, HasExtended DEF Listed
<1>4. CASE Op(p) = "create"
  <2>1. Extended(r.outputs, run[p].outputs, Target(p)) /\ r.temps = run[p].temps
    BY <1>1, <1>2, <1>4, AppendProperties, LenProperties DEF Extended
  <2> QED
    BY <1>4, <2>1, HasExtended DEF Listed
<1>5. CASE Op(p) \notin {"fill", "create"}
  BY <1>2, <1>5 DEF Listed
<1> QED
  BY <1>3, <1>4, <1>5

LEMMA WriteTidy ==
  ASSUME TypeOK, ~Cli, NEW p \in Processes, Touch(p), Tidy(p), Staged(p),
         Write(p)
  PROVE  Tidy(p)'
<1>1. /\ run[p] \in Runs /\ run[p].pc = "write" /\ run[p].error = "none"
      /\ run[p].at \in 1..16 /\ ~Forgiven(run[p])
      /\ Plan[run[p].at] = <<Op(p), Target(p)>>
  <2>1. \A i \in 1..16 : Plan[i] = <<Plan[i][1], Plan[i][2]>>
    BY DEF Plan
  <2> QED
    BY <2>1, RunType, CallType
       DEF Write, Tidy, ErrorsPlaced, Forgiven, Op, Target
<1>2. \A name \in Names : Own(p, Slot(p)[name]) =>
        \/ name = "lock" \/ Listed(run[p], name)
        \/ Op(p) = "fill" /\ name = Target(p)
  BY <1>1, OwnKept DEF Kept, Op, Target
<1>3. CASE Possible(p)
  <2>1. PICK r : r = Onward(Noted(p))
    OBVIOUS
  <2>2. Becomes(p, r) /\ files' = Effect(p)
    BY <1>3, <2>1, Zenon DEF Write
  <2>3. /\ r.slot = run[p].slot /\ r.error = "none"
        /\ run[p].at = 16 => r.pc = "unlink"
        /\ run[p].at # 16 => r.pc = "write" /\ r.at = run[p].at + 1
    BY <1>1, <2>1, OnwardFacts
  <2>4. /\ \A name : Listed(run[p], name) => Listed(r, name)
        /\ Op(p) \in {"fill", "create"} => Listed(r, Target(p))
    BY <1>1, <2>1, OnwardListed
  <2>5. ErrorsPlaced(r)
    BY <2>3 DEF ErrorsPlaced
  <2>6. Called(Op(p), Target(p), Slot(p), Slot(p)', p, run[p].digests)
    <3>1. run'[p].slot = run[p].slot
      BY <2>2, <2>3 DEF Becomes, TypeOK
    <3> QED
      BY <1>1, <2>2, <3>1, CallCalled
  <2>7. \A name \in Names : Slot(p)'[name] = files'[<<run[p].slot, name>>]
    BY <2>2, <2>3 DEF Becomes, TypeOK, Slot, At
  <2>8. ASSUME NEW name \in Names, Own(p, Slot(p)'[name])
        PROVE  \/ name = "lock" \/ Listed(r, name)
               \/ Op(p) = "open" /\ name = Target(p)
    <3>1. Op(p) \in {"open", "fill", "create", "replace", "measure", "digest"}
      BY <1>1, PlanFacts DEF Op
    <3>2. ASSUME Slot(p)'[name] = Slot(p)[name]
          PROVE  \/ name = "lock" \/ Listed(r, name)
      <4>1. Own(p, Slot(p)[name])
        BY <2>8, <3>2
      <4> QED
        BY <1>2, <2>4, <4>1
    <3>3. CASE Op(p) \in {"open", "create"}
      BY <2>4, <2>6, <3>2, <3>3 DEF Called, Changed
    <3>4. CASE Op(p) = "fill"
      <4>1. Slot(p)[Target(p)] = Blank(p)
        BY <1>1, <3>4, Calls DEF Staged, Stage, Op, Target
      <4> QED
        BY <2>4, <2>6, <3>2, <3>4, <4>1 DEF Called, Changed
    <3>5. CASE Op(p) = "replace"
      <4>1. Own(p, Slot(p)[Target(p)]) /\ Own(p, Slot(p)[TempOf(Target(p))])
        BY <1>1, <3>5, Calls, TempOfFacts, OwnFacts
           DEF Staged, Stage, Op, Target, Between, Own, Blank, Report, Marker
      <4>2. /\ Target(p) \in Names \ {"lock"}
            /\ TempOf(Target(p)) \in Names \ {"lock"}
        BY <1>1, <3>5, CallType, NamesSplit
      <4>3. Listed(r, Target(p)) /\ Listed(r, TempOf(Target(p)))
        BY <1>2, <2>4, <3>5, <4>1, <4>2
      <4> QED
        BY <2>6, <3>2, <3>5, <4>3 DEF Called
    <3>6. CASE Op(p) \in {"measure", "digest"}
      BY <2>6, <3>2, <3>6 DEF Called
    <3> QED
      BY <3>1, <3>3, <3>4, <3>5, <3>6
  <2>9. ASSUME Op(p) = "open"
        PROVE  /\ run[p].at # 16
               /\ Plan[run[p].at + 1] = <<"fill", Target(p)>>
    BY <1>1, <2>9, Calls DEF Op, Target
  <2>10. ASSUME NEW name \in Names, Own(p, files'[<<run[p].slot, name>>])
         PROVE  name \in Kept(r)
    <3>1. \/ name = "lock" \/ Listed(r, name)
          \/ Op(p) = "open" /\ name = Target(p)
      BY <2>7, <2>8, <2>10
    <3> QED
      BY <1>1, <2>3, <2>9, <3>1 DEF Kept, Holding
  <2> QED
    BY <1>1, <2>2, <2>3, <2>5, <2>10, TidyAfter
<1>4. CASE ~Possible(p)
  <2>1. Unwind(p, "exception") /\ files' = files
    BY <1>4, Zenon DEF Write
  <2>2. Op(p) # "fill"
    BY <1>1, <1>4 DEF Possible, LockFree, NameFree, InputThere, Ready
  <2> DEFINE r == [run[p] EXCEPT !.pc = "unlink", !.error = "exception"]
  <2>3. /\ Becomes(p, r) /\ r.slot = run[p].slot /\ r.pc = "unlink"
        /\ r.temps = run[p].temps /\ r.outputs = run[p].outputs
    BY <1>1, <2>1 DEF Unwind, Runs
  <2> HIDE DEF r
  <2>4. ErrorsPlaced(r)
    BY <2>3 DEF ErrorsPlaced
  <2>5. \A name \in Names :
          Own(p, files'[<<run[p].slot, name>>]) => name \in Kept(r)
    BY <1>2, <2>1, <2>2, <2>3, SlotFiles DEF Kept, Listed, Holding
  <2> QED
    BY <1>1, <2>3, <2>4, <2>5, TidyAfter
<1> QED
  BY <1>3, <1>4

(* A list without its first element has all the others.                    *)
LEMMA RestKeeps ==
  ASSUME NEW s, NEW t, NEW name, Rest(t, s), Has(s, name), name # s[1]
  PROVE  Has(t, name)
<1>1. PICK j \in 1..Len(s) : s[j] = name
  BY DEF Has
<1>2. j # 1 /\ j - 1 \in 1..Len(t) /\ t[j - 1] = s[j]
  <2>1. j # 1 /\ j - 1 \in 1..Len(t)
    BY <1>1 DEF Rest
  <2>2. (j - 1) + 1 = j
    BY <1>1 DEF Rest
  <2> QED
    BY <2>1, <2>2 DEF Rest
<1> QED
  BY <1>1, <1>2 DEF Has

(* The list that holds the first doomed file starts with it.               *)
LEMMA DoomedFirst ==
  ASSUME NEW r \in Runs, Doomed(r) # <<>>
  PROVE  /\ Head(Doomed(r)) \in Temps =>
              r.temps # <<>> /\ Head(Doomed(r)) = r.temps[1]
         /\ Head(Doomed(r)) \notin Temps =>
              r.outputs # <<>> /\ Head(Doomed(r)) = r.outputs[1]
<1>1. /\ r.temps \in Seq(Temps \cup Outputs)
      /\ r.outputs \in Seq(Temps \cup Outputs) /\ <<>> \in Seq(Temps \cup Outputs)
      /\ r.temps \in Seq(Temps) /\ r.outputs \in Seq(Outputs)
  BY DEF Runs, Outputs
<1>2. Doomed(r) \in Seq(Temps \cup Outputs)
  BY <1>1, ConcatProperties DEF Doomed
<1>3. Head(Doomed(r)) = Doomed(r)[1] /\ Len(Doomed(r)) >= 1
  BY <1>2, HeadTailProperties, LenProperties
<1> DEFINE first == IF r.error = "none" THEN <<>> ELSE r.outputs
<1>4. /\ first \in Seq(Temps \cup Outputs) /\ Doomed(r) = first \o r.temps
      /\ Len(first) \in Nat /\ Len(r.temps) \in Nat
  BY <1>1, LenProperties DEF Doomed
<1>5. /\ Len(Doomed(r)) = Len(first) + Len(r.temps)
      /\ Doomed(r)[1] = IF 1 <= Len(first) THEN first[1]
                        ELSE r.temps[1 - Len(first)]
  BY <1>1, <1>3, <1>4, ConcatProperties
<1>6. CASE 1 <= Len(first)
  <2>1. first = r.outputs
    BY <1>6, EmptySeq DEF first
  <2>2. r.outputs[1] \in Outputs
    BY <1>1, <1>4, <1>6, <2>1, ElementOfSeq
  <2>3. r.outputs[1] \notin Temps
    BY <2>2 DEF Temps, Outputs
  <2> QED
    BY <1>3, <1>5, <1>6, <2>1, <2>3, DoomedLists
<1>7. CASE Len(first) = 0
  <2>1. 1 \in 1..Len(r.temps) /\ Doomed(r)[1] = r.temps[1]
    BY <1>3, <1>4, <1>5, <1>7
  <2>2. r.temps[1] \in Temps
    BY <1>1, <2>1, ElementOfSeq
  <2> QED
    BY <1>3, <2>1, <2>2, DoomedLists
<1> HIDE DEF first
<1> QED
  BY <1>4, <1>6, <1>7

LEMMA UnlinkTidy ==
  ASSUME TypeOK, NEW p \in Processes, Touch(p), Tidy(p),
         Unlink(p), ~Forgiven(run[p])
  PROVE  Tidy(p)'
<1>1. run[p] \in Runs /\ run[p].pc = "unlink" /\ files' = Effect(p)
  BY RunType DEF Unlink
<1>2. \A name \in Names : Own(p, Slot(p)[name]) =>
        name = "lock" \/ Listed(run[p], name)
  BY <1>1, OwnKept DEF Kept
<1>3. CASE Doomed(run[p]) = <<>>
  <2> DEFINE r == [run[p] EXCEPT !.pc = "release"]
  <2>1. Becomes(p, r) /\ files' = files
    BY <1>1, <1>3 DEF Unlink, Effect, Ready
  <2>2. r.slot = run[p].slot /\ r.pc = "release" /\ r.error = run[p].error
    BY <1>1 DEF Runs
  <2> HIDE DEF r
  <2>3. ErrorsPlaced(r)
    BY <2>2 DEF ErrorsPlaced
  <2>4. \A name : Listed(run[p], name) => run[p].error = "none" /\ name \in Outputs
    <3>1. /\ run[p].temps \in Seq(Temps) /\ run[p].outputs \in Seq(Outputs)
          /\ <<>> \in Seq(Temps)
      BY <1>1 DEF Runs, Outputs
    <3>2. CASE run[p].error = "none"
      <4>1. run[p].temps = <<>>
        BY <1>3, <3>1, <3>2, ConcatEmptySeq DEF Doomed
      <4>2. \A name : ~Has(run[p].temps, name)
        BY <4>1, EmptySeq DEF Has
      <4>3. \A name : Has(run[p].outputs, name) => name \in Outputs
        BY <3>1, ElementOfSeq DEF Has
      <4> QED
        BY <3>2, <4>2, <4>3 DEF Listed
    <3>3. CASE run[p].error # "none"
      <4>1. run[p].outputs \o run[p].temps = <<>>
        BY <1>3, <3>3 DEF Doomed
      <4>2. /\ run[p].temps \in Seq(Temps \cup Outputs)
            /\ run[p].outputs \in Seq(Temps \cup Outputs)
        BY <1>1 DEF Runs, Outputs
      <4>3. run[p].temps = <<>> /\ run[p].outputs = <<>>
        BY <4>1, <4>2, ConcatEqualIffEmpty
      <4> QED
        BY <4>3, EmptySeq DEF Listed, Has
    <3> QED
      BY <3>2, <3>3
  <2>5. \A name \in Names :
          Own(p, files'[<<run[p].slot, name>>]) => name \in Kept(r)
    BY <1>2, <2>1, <2>2, <2>4, SlotFiles DEF Kept, Holding
  <2> QED
    BY <2>1, <2>2, <2>3, <2>5, TidyAfter
<1>4. CASE Doomed(run[p]) # <<>>
  <2> DEFINE gone == Head(Doomed(run[p]))
             fewerTemps == [run[p] EXCEPT !.temps = Tail(@)]
             fewerOutputs == [run[p] EXCEPT !.outputs = Tail(@)]
  <2>1. gone \in Names /\ files' = With(p, gone, Absent)
    BY <1>1, <1>4, DoomedType, NamesSplit DEF Effect, Ready
  <2>2. \/ gone \in Temps /\ Becomes(p, fewerTemps)
        \/ gone \notin Temps /\ Becomes(p, fewerOutputs)
    BY <1>4 DEF Unlink
  <2>3. /\ gone \in Temps => run[p].temps # <<>> /\ gone = run[p].temps[1]
        /\ gone \notin Temps =>
             run[p].outputs # <<>> /\ gone = run[p].outputs[1]
    BY <1>1, <1>4, DoomedFirst
  <2>4. /\ fewerTemps.pc = "unlink" /\ fewerTemps.slot = run[p].slot
        /\ fewerTemps.temps = Tail(run[p].temps)
        /\ fewerTemps.outputs = run[p].outputs
        /\ fewerOutputs.pc = "unlink" /\ fewerOutputs.slot = run[p].slot
        /\ fewerOutputs.temps = run[p].temps
        /\ fewerOutputs.outputs = Tail(run[p].outputs)
    BY <1>1 DEF Runs
  <2> HIDE DEF gone, fewerTemps, fewerOutputs
  <2>5. run[p].temps \in Seq(Temps) /\ run[p].outputs \in Seq(Outputs)
    BY <1>1 DEF Runs, Outputs
  <2>6. PICK r : /\ Becomes(p, r) /\ r.slot = run[p].slot /\ r.pc = "unlink"
                 /\ \A name : name # gone /\ Listed(run[p], name) =>
                              Listed(r, name)
    <3>1. CASE gone \in Temps
      <4>1. Rest(fewerTemps.temps, run[p].temps)
        BY <2>3, <2>4, <2>5, <3>1, HeadTailProperties, LenProperties DEF Rest
      <4>2. \A name : name # gone /\ Listed(run[p], name) =>
                     Listed(fewerTemps, name)
        BY <2>3, <2>4, <3>1, <4>1, RestKeeps DEF Listed
      <4> QED
        BY <2>2, <2>4, <3>1, <4>2
    <3>2. CASE gone \notin Temps
      <4>1. Rest(fewerOutputs.outputs, run[p].outputs)
        BY <2>3, <2>4, <2>5, <3>2, HeadTailProperties, LenProperties DEF Rest
      <4>2. \A name : name # gone /\ Listed(run[p], name) =>
                     Listed(fewerOutputs, name)
        BY <2>3, <2>4, <3>2, <4>1, RestKeeps DEF Listed
      <4> QED
        BY <2>2, <2>4, <3>2, <4>2
    <3> QED
      BY <3>1, <3>2
  <2>7. ErrorsPlaced(r)
    BY <2>6 DEF ErrorsPlaced
  <2>8. \A name \in Names :
          Own(p, files'[<<run[p].slot, name>>]) => name \in Kept(r)
    <3>1. ASSUME NEW name \in Names, Own(p, files'[<<run[p].slot, name>>])
          PROVE  name # gone /\ Own(p, Slot(p)[name])
      BY <2>1, <3>1, WithSlot, AbsentNotOwn
    <3> QED
      BY <1>2, <2>6, <3>1 DEF Kept, Holding
  <2> QED
    BY <2>6, <2>7, <2>8, TidyAfter
<1> QED
  BY <1>3, <1>4

LEMMA CleanupTidy ==
  ASSUME TypeOK, ~Cli, NEW p \in Processes, Touch(p), Tidy(p),
         Unlink(p) \/ Release(p)
  PROVE  Tidy(p)'
<1>1. run[p] \in Runs /\ run[p].pc \in {"unlink", "release"}
  BY RunType DEF Unlink, Release
<1>2. CASE Forgiven(run[p])
  <2>1. \E r : Becomes(p, r) /\ r.error = run[p].error
              /\ r.pc \in Leaving
    <3> DEFINE done(pc) == [run[p] EXCEPT !.pc = pc]
               fewerTemps == [run[p] EXCEPT !.temps = Tail(@)]
               fewerOutputs == [run[p] EXCEPT !.outputs = Tail(@)]
    <3>1. \/ Becomes(p, done("release")) \/ Becomes(p, done("ended"))
          \/ run[p].pc = "unlink"
             /\ (Becomes(p, fewerTemps) \/ Becomes(p, fewerOutputs))
      BY DEF Unlink, Release
    <3>2. /\ \A pc : done(pc).error = run[p].error /\ done(pc).pc = pc
          /\ fewerTemps.error = run[p].error /\ fewerTemps.pc = run[p].pc
          /\ fewerOutputs.error = run[p].error /\ fewerOutputs.pc = run[p].pc
      BY <1>1 DEF Runs
    <3> HIDE DEF done, fewerTemps, fewerOutputs
    <3> QED
      BY <3>1, <3>2 DEF Leaving
  <2>2. PICK r : /\ Becomes(p, r) /\ r.error = run[p].error
                 /\ r.pc \in Leaving
    BY <2>1
  <2>3. Forgiven(r) /\ ErrorsPlaced(r)
    BY <1>2, <2>2 DEF Forgiven, ErrorsPlaced, Leaving
  <2> QED
    BY <2>2, <2>3, TidyAfter
<1>3. CASE ~Forgiven(run[p]) /\ Release(p)
  <2> DEFINE r == [run[p] EXCEPT !.pc = "ended"]
  <2>1. /\ Becomes(p, r) /\ run[p].pc = "release"
        /\ files' = With(p, "lock", Absent)
    BY <1>3 DEF Release, Effect, Ready
  <2>2. r.slot = run[p].slot /\ r.pc = "ended" /\ r.error = run[p].error
    BY <1>1 DEF Runs
  <2> HIDE DEF r
  <2>3. ErrorsPlaced(r)
    BY <2>2 DEF ErrorsPlaced
  <2>4. "lock" \in Names
    BY NamesSplit
  <2>5. ASSUME NEW name \in Names, Own(p, files'[<<run[p].slot, name>>])
        PROVE  name \in Kept(r)
    <3>1. name # "lock" /\ Own(p, Slot(p)[name])
      BY <2>1, <2>4, <2>5, WithSlot, AbsentNotOwn
    <3>2. name \in Kept(run[p])
      BY <1>3, <3>1, OwnKept
    <3> QED
      BY <2>1, <2>2, <3>1, <3>2 DEF Kept
  <2> QED
    BY <1>3, <2>1, <2>2, <2>3, <2>5, TidyAfter
<1> QED
  BY <1>2, <1>3, UnlinkTidy

(* Only the failure of a call is cleaned up after: the lock that could not *)
(* be closed is given back, a temporary file not written is removed.       *)
LEMMA FaultTidy ==
  ASSUME TypeOK, ~Cli, HoldersLock, NEW p \in Processes, Touch(p), Tidy(p),
         Crash(p) \/ Raise(p) \/ Interrupt(p)
  PROVE  Tidy(p)'
<1>1. run[p] \in Runs /\ run[p].pc # "build"
  BY RunType DEF HoldersLock
<1>2. CASE Crash(p) \/ Interrupt(p)
  <2>1. End(p, "crash") \/ Unwind(p, "interrupt") \/ End(p, "abandoned")
    BY <1>2 DEF Crash, Interrupt
  <2> QED
    BY <2>1, EndTidy
<1>3. CASE Raise(p) /\ run[p].pc = "lock"
  <2> DEFINE r == [run[p] EXCEPT !.pc = "giveBack", !.error = "exception"]
  <2>1. /\ Becomes(p, r)
        /\ files' = With(p, "lock", File("lock", p, <<>>))
    BY <1>3 DEF Raise, Effect, Ready
  <2>2. /\ r.slot = run[p].slot /\ r.pc = "giveBack"
        /\ r.error = "exception"
    BY <1>1 DEF Runs
  <2> HIDE DEF r
  <2>3. ErrorsPlaced(r)
    BY <2>2 DEF ErrorsPlaced
  <2>4. /\ ~Forgiven(run[p])
        /\ \A name \in Names : ~Own(p, Slot(p)[name])
    BY <1>3, ReservingOwn DEF Reserving
  <2>5. "lock" \in Names
    BY NamesSplit
  <2>6. \A name \in Names :
          Own(p, files'[<<run[p].slot, name>>]) => name = "lock"
    BY <2>1, <2>4, <2>5, WithSlot
  <2>7. "lock" \in Kept(r)
    BY <2>2, <2>5 DEF Kept, Holding
  <2> QED
    BY <2>1, <2>2, <2>3, <2>4, <2>6, <2>7, TidyAfter
<1>4. CASE Raise(p) /\ run[p].pc = "write"
  <2> DEFINE r == [run[p] EXCEPT !.pc = "unlink", !.error = "exception"]
  <2>1. /\ Becomes(p, r)
        /\ files' = IF Op(p) = "fill" THEN With(p, Target(p), Absent)
                    ELSE files
    BY <1>4 DEF Raise, Unwind
  <2>2. /\ r.slot = run[p].slot /\ r.pc = "unlink"
        /\ r.temps = run[p].temps /\ r.outputs = run[p].outputs
    BY <1>1 DEF Runs
  <2> HIDE DEF r
  <2>3. ErrorsPlaced(r)
    BY <2>2 DEF ErrorsPlaced
  <2>4. ~Forgiven(run[p])
    BY <1>4 DEF Tidy, ErrorsPlaced, Forgiven
  <2>5. Plan[run[p].at] = <<Op(p), Target(p)>> /\ Target(p) \in Names
    <3>1. \A i \in 1..16 : Plan[i] = <<Plan[i][1], Plan[i][2]>>
      BY DEF Plan
    <3> QED
      BY <1>4, <3>1, CallType, NamesSplit DEF Op, Target
  <2>6. \A name \in Names : Own(p, Slot(p)[name]) =>
          \/ name = "lock" \/ Listed(run[p], name)
          \/ Op(p) = "fill" /\ name = Target(p)
    BY <1>4, <2>4, <2>5, OwnKept DEF Kept
  <2>7. ASSUME NEW name \in Names, Own(p, files'[<<run[p].slot, name>>])
        PROVE  name = "lock" \/ Listed(run[p], name)
    <3>1. CASE Op(p) = "fill"
      <4>1. name # Target(p) /\ Own(p, Slot(p)[name])
        BY <2>1, <2>5, <2>7, <3>1, WithSlot, AbsentNotOwn
      <4> QED
        BY <2>6, <4>1
    <3>2. CASE Op(p) # "fill"
      BY <2>1, <2>6, <2>7, <3>2, SlotFiles
    <3> QED
      BY <3>1, <3>2
  <2>8. \A name \in Names :
          Own(p, files'[<<run[p].slot, name>>]) => name \in Kept(r)
    BY <2>2, <2>7 DEF Kept, Listed, Holding
  <2> QED
    BY <2>1, <2>2, <2>3, <2>4, <2>8, TidyAfter
<1>5. CASE Raise(p) /\ run[p].pc \notin {"lock", "write"}
  <2>1. End(p, "abandoned")
    BY <1>1, <1>5 DEF Raise
  <2> QED
    BY <2>1, EndTidy
<1> QED
  BY <1>2, <1>3, <1>4, <1>5

LEMMA StepTidy ==
  ASSUME TypeOK, ~Cli, HoldersLock, ClaimsInv, StagesInv, TidyInv,
         [Next]_vars
  PROVE  TidyInv'
<1>1. CASE UNCHANGED vars \/ AllEnded
  BY <1>1 DEF AllEnded, vars, TidyInv, Tidy, Own, Exists
<1>2. ASSUME NEW p \in Processes,
             Start(p) \/ Step(p) \/ Crash(p) \/ Raise(p) \/ Interrupt(p)
      PROVE  TidyInv'
  <2>1. Touch(p) /\ Tidy(p) /\ Staged(p)
    BY <1>2, StepSound DEF Sound, TidyInv, StagesInv
  <2>2. ~Build(p) /\ ~ReleaseAgain(p)
    BY DEF HoldersLock, Build, ReleaseAgain
  <2>3. Stages(p)
    BY <1>2, <2>1, <2>2, ReserveStaged, WriteStaged, CleanupStaged,
       FaultStaged DEF Step
  <2>4. Tidy(p)'
    BY <1>2, <2>1, <2>2, ReserveTidy, WriteTidy, CleanupTidy, FaultTidy
       DEF Step
  <2>5. \A q \in Processes \ {p} : run'[q] = run[q]
    BY <2>3 DEF Stages, Becomes, TypeOK
  <2>6. ASSUME NEW q \in Processes
        PROVE  Tidy(q)'
    <3>1. CASE q = p
      BY <2>4, <3>1
    <3>2. CASE q # p
      BY <2>1, <2>5, <3>2, OthersTidy DEF TidyInv
    <3> QED
      BY <3>1, <3>2
  <2> QED
    BY <2>6 DEF TidyInv
<1> QED
  BY <1>1, <1>2 DEF Next

(* In every state of a call of write_report, what it has to its name is    *)
(* what its clean-up will find.                                            *)
THEOREM TidyInvariant ==
  ASSUME ~Cli
  PROVE  Spec => []TidyInv
<1>1. Init => TidyInv
  <2> SUFFICES ASSUME Init, NEW p \in Processes PROVE Tidy(p)
    BY DEF TidyInv
  <2>1. run[p].pc = "idle" /\ run[p].error = "none"
    BY DEF Init, Unstarted
  <2>2. \A f \in Slots \X Names : ~Own(p, files[f])
    <3>1. p # Earlier
      BY SlotsAssumption
    <3>2. \A name : Left(name).by = Earlier /\ Absent.by = Earlier
      BY DEF Left, Absent, File
    <3> QED
      BY <3>1, <3>2 DEF Init, Own
  <2> QED
    BY <2>1, <2>2 DEF Tidy, ErrorsPlaced
<1>2. TypeOK /\ HoldersLock /\ ClaimsInv /\ StagesInv /\ TidyInv /\ [Next]_vars
        => TidyInv'
  BY StepTidy
<1> QED
  BY <1>1, <1>2, SlotsTyping, LockInvariant, ClaimsInvariant, StagesInvariant,
     PTL DEF Spec

(* A call of write_report whose exception was handled left nothing behind, *)
(* whichever of its calls raised, and one that returned left its reports   *)
(* and their marker only.                                                  *)
THEOREM CleanEnds ==
  ASSUME ~Cli
  PROVE  Spec => []CleanEnd
<1>1. TidyInv => CleanEnd
  <2> SUFFICES ASSUME TidyInv, NEW p \in Processes, NEW f \in Slots \X Names,
                      run[p].pc = "ended", Own(p, files[f])
               PROVE  \/ run[p].error \in {"crash", "interrupt", "abandoned"}
                      \/ /\ run[p].error = "none"
                         /\ f[2] \in {"json", "md", "marker"}
    BY DEF CleanEnd, Own
  <2>1. Forgiven(run[p]) \/ f[2] \in Kept(run[p])
    BY DEF TidyInv, Tidy
  <2> QED
    BY <2>1 DEF Forgiven, Kept, Holding, Outputs
<1> QED
  BY <1>1, TidyInvariant, PTL
=============================================================================
