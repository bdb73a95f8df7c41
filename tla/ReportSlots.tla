---------------------------- MODULE ReportSlots ----------------------------
(***************************************************************************)
(* evaluation/report.py: processes that publish evaluation reports into    *)
(* one directory, each in the slot of a timestamp.  A slot has a lock, two *)
(* reports and their completion marker, and the temporary files they are   *)
(* written to; "files" is the directory, and every call of the file system *)
(* is a step.  A report is its author, a digest the author of what it was  *)
(* taken of.                                                               *)
(*                                                                         *)
(* A process is the command scripts/run_eval.py (Cli) or a caller of       *)
(* write_report.  Its call may raise (an Exception), be interrupted before *)
(* or after it took effect (a KeyboardInterrupt, which no "except          *)
(* Exception" catches), or be the last of a process that is killed.        *)
(***************************************************************************)
EXTENDS Naturals, Sequences, FiniteSets

CONSTANTS
  Processes,    \* every process publishes one report
  Earlier,      \* the author of what was there before
  MaxSlot,      \* bound: slots are the seconds 1..MaxSlot
  Candidates,   \* the slots a process asks for first
  Residue,      \* what may be there before: pairs of a slot and a name
  Cli,          \* run_eval, or write_report
  FaultKinds,   \* of {"exception", "interrupt", "crash"}
  MaxFaults     \* bound on faults

Slots == 1..MaxSlot
Finals == <<"json", "md", "marker">>
Temps == {"jsonTmp", "mdTmp", "markerTmp"}
Names == {"json", "md", "marker", "lock"} \cup Temps

ASSUME SlotsAssumption ==
  /\ Earlier \notin Processes
  /\ MaxSlot \in Nat \ {0} /\ Candidates \subseteq Slots
  /\ Residue \subseteq Slots \X Names
  /\ Cli \in BOOLEAN /\ MaxFaults \in Nat

VARIABLES files, run, faults

vars == <<files, run, faults>>

-----------------------------------------------------------------------------
(* Files and processes.                                                    *)

Authors == Processes \cup {Earlier}

(* What a digest tells: the author of the report, or that it was empty.    *)
Digests == Seq(SUBSET Authors)

Files == [kind : {"absent", "empty", "lock", "report", "marker"},
          by : Authors, digests : Digests]

File(kind, author, digests) ==
  [kind |-> kind, by |-> author, digests |-> digests]

Absent == File("absent", Earlier, <<>>)

Exists(file) == file.kind # "absent"

DigestOf(file) == IF file.kind = "empty" THEN {} ELSE {file.by}

Left(name) ==
  CASE name = "lock" -> File("lock", Earlier, <<>>)
    [] name = "marker" -> File("marker", Earlier, <<{Earlier}, {Earlier}>>)
    [] OTHER -> File("report", Earlier, <<>>)

(* The calls of _write_reserved_report, in order.                          *)
Plan == << <<"open", "jsonTmp">>, <<"fill", "jsonTmp">>,
           <<"open", "mdTmp">>, <<"fill", "mdTmp">>,
           <<"create", "json">>, <<"create", "md">>,
           <<"replace", "json">>, <<"replace", "md">>,
           <<"measure", "json">>, <<"measure", "md">>,
           <<"digest", "json">>, <<"digest", "md">>,
           <<"open", "markerTmp">>, <<"fill", "markerTmp">>,
           <<"create", "marker">>, <<"replace", "marker">> >>

TempOf(name) ==
  CASE name = "json" -> "jsonTmp"
    [] name = "md" -> "mdTmp"
    [] OTHER -> "markerTmp"

Labels == {"idle", "check", "lock", "recheck", "giveBack", "build", "write",
           "unlink", "release", "again", "ended"}

(* "temps" and "outputs" are created_temps and created_outputs.            *)
Runs == [pc : Labels, slot : Slots, at : Nat, temps : Seq(Temps),
         outputs : Seq({"json", "md", "marker"}), digests : Digests,
         error : {"none", "exception", "interrupt", "abandoned", "crash"}]

Unstarted == [pc |-> "idle", slot |-> 1, at |-> 1, temps |-> <<>>,
              outputs |-> <<>>, digests |-> <<>>, error |-> "none"]

At(p, name) == files[<<run[p].slot, name>>]

With(p, name, file) == [files EXCEPT ![<<run[p].slot, name>>] = file]

Op(p) == Plan[run[p].at][1]
Target(p) == Plan[run[p].at][2]

Ready(p, op) == run[p].pc = "write" /\ Op(p) = op

-----------------------------------------------------------------------------
(* What a call does to the directory, and when it can.                     *)

(* The finally clause: outputs only after a failure, temporary files       *)
(* always, and of both only those the process has created.  The mistakes:  *)
(* outputs that always go; temporary files that stay after a failure.      *)
DoomedAlways(r) == r.outputs \o r.temps

DoomedOutputs(r) == IF r.error = "none" THEN r.temps ELSE r.outputs

Doomed(r) == (IF r.error = "none" THEN <<>> ELSE r.outputs) \o r.temps

(* Exclusive creation, os.replace, stat and reading each need their file.  *)
LockFree(p) == run[p].pc = "lock" => ~Exists(At(p, "lock"))

NameFree(p, ops) ==
  run[p].pc = "write" /\ Op(p) \in ops => ~Exists(At(p, Target(p)))

InputThere(p) ==
  /\ Ready(p, "replace") => Exists(At(p, TempOf(Target(p))))
  /\ Ready(p, "measure") => At(p, Target(p)).kind \notin {"absent", "empty"}
  /\ Ready(p, "digest") => Exists(At(p, Target(p)))

(* The mistakes: a lock, a temporary file opened like any file.            *)
PossibleSharedLock(p) == NameFree(p, {"open", "create"}) /\ InputThere(p)

PossibleSharedTemps(p) ==
  LockFree(p) /\ NameFree(p, {"create"}) /\ InputThere(p)

Possible(p) ==
  LockFree(p) /\ NameFree(p, {"open", "create"}) /\ InputThere(p)

(* A file opened for writing is written to even when its name is gone.     *)
Effect(p) ==
  CASE run[p].pc = "lock" -> With(p, "lock", File("lock", p, <<>>))
    [] run[p].pc = "write" /\ Op(p) \in {"open", "create"} ->
         With(p, Target(p), File("empty", p, <<>>))
    [] Ready(p, "fill") /\ At(p, Target(p)) = File("empty", p, <<>>) ->
         With(p, Target(p), IF Target(p) = "markerTmp"
                            THEN File("marker", p, run[p].digests)
                            ELSE File("report", p, <<>>))
    [] Ready(p, "replace") ->
         [files EXCEPT ![<<run[p].slot, Target(p)>>] = At(p, TempOf(Target(p))),
                       ![<<run[p].slot, TempOf(Target(p))>>] = Absent]
    [] run[p].pc = "unlink" /\ Doomed(run[p]) # <<>> ->
         With(p, Head(Doomed(run[p])), Absent)
    [] run[p].pc \in {"giveBack", "release", "again"} ->
         With(p, "lock", Absent)
    [] OTHER -> files

-----------------------------------------------------------------------------
Init ==
  /\ \E there \in SUBSET Residue :
       files = [f \in Slots \X Names |->
                  IF f \in there THEN Left(f[2]) ELSE Absent]
  /\ run = [p \in Processes |-> Unstarted]
  /\ faults = 0

Becomes(p, r) == run' = [run EXCEPT ![p] = r]

End(p, error) == Becomes(p, [run[p] EXCEPT !.pc = "ended", !.error = error])

(* An exception leaves the try block of _write_reserved_report.            *)
Unwind(p, error) ==
  Becomes(p, [run[p] EXCEPT !.pc = "unlink", !.error = error])

Start(p) ==
  /\ run[p].pc = "idle"
  /\ \E s \in Candidates :
       Becomes(p, [run[p] EXCEPT !.pc = "check", !.slot = s])
  /\ UNCHANGED <<files, faults>>

(* FileExistsError of _reserve_exact_report_slot: reserve_report_slot goes *)
(* on to the next second, write_report raises.                             *)
Occupied(p) ==
  IF Cli
  THEN /\ run[p].slot < MaxSlot
       /\ Becomes(p, [run[p] EXCEPT !.pc = "check", !.at = 1,
                                    !.slot = run[p].slot + 1])
  ELSE End(p, "exception")

(* One exists() of a final path, in the phases that refuse one.            *)
LookIn(p, phases) ==
  /\ run[p].pc \in {"check", "recheck"}
  /\ IF run[p].pc \in phases /\ Exists(At(p, Finals[run[p].at]))
     THEN IF run[p].pc = "check"
          THEN Occupied(p)
          ELSE Becomes(p, [run[p] EXCEPT !.pc = "giveBack"])
     ELSE Becomes(p,
            IF run[p].at < Len(Finals)
            THEN [run[p] EXCEPT !.at = run[p].at + 1]
            ELSE [run[p] EXCEPT !.at = 1,
                    !.pc = CASE run[p].pc = "check" -> "lock"
                             [] run[p].pc # "check" /\ Cli -> "build"
                             [] OTHER -> "write"])
  /\ UNCHANGED <<files, faults>>

(* Before and after the lock is taken; the mistake: no second look.        *)
LookOnce(p) == LookIn(p, {"check"})

Look(p) == LookIn(p, {"check", "recheck"})

TakeLock(p) ==
  /\ run[p].pc = "lock"
  /\ IF Possible(p)
     THEN /\ files' = Effect(p)
          /\ Becomes(p, [run[p] EXCEPT !.pc = "recheck", !.at = 1])
     ELSE Occupied(p) /\ UNCHANGED files
  /\ UNCHANGED faults

GiveBack(p) ==
  /\ run[p].pc = "giveBack" /\ files' = Effect(p)
  /\ IF run[p].error = "none" THEN Occupied(p) ELSE End(p, run[p].error)
  /\ UNCHANGED faults

(* build_offline_report, in run_eval after the reservation.                *)
Build(p) ==
  /\ run[p].pc = "build"
  /\ Becomes(p, [run[p] EXCEPT !.pc = "write"])
  /\ UNCHANGED <<files, faults>>

(* What a process notes of the call it made: a file is on its list of      *)
(* created ones when it has been written (temporary) or created (output).  *)
Noted(p) ==
  [run[p] EXCEPT
     !.temps = IF Op(p) = "fill" THEN Append(@, Target(p)) ELSE @,
     !.outputs = IF Op(p) = "create" THEN Append(@, Target(p)) ELSE @,
     !.digests = IF Op(p) = "digest"
                 THEN Append(@, DigestOf(At(p, Target(p)))) ELSE @]

(* On to the next call or the finally clause; the mistake: one call more.  *)
OnwardOnceMore(r) ==
  IF r.at > Len(Plan) THEN [r EXCEPT !.pc = "unlink"]
  ELSE [r EXCEPT !.at = @ + 1]

Onward(r) ==
  IF r.at = Len(Plan) THEN [r EXCEPT !.pc = "unlink"]
  ELSE [r EXCEPT !.at = @ + 1]

(* The next call of _write_reserved_report.                                *)
Write(p) ==
  /\ run[p].pc = "write"
  /\ IF Possible(p)
     THEN files' = Effect(p) /\ Becomes(p, Onward(Noted(p)))
     ELSE Unwind(p, "exception") /\ UNCHANGED files
  /\ UNCHANGED faults

(* The lists lose their first doomed file.                                 *)
Unlink(p) ==
  /\ run[p].pc = "unlink" /\ files' = Effect(p)
  /\ Becomes(p,
       CASE Doomed(run[p]) = <<>> -> [run[p] EXCEPT !.pc = "release"]
         [] Doomed(run[p]) # <<>> /\ Head(Doomed(run[p])) \in Temps ->
              [run[p] EXCEPT !.temps = Tail(@)]
         [] OTHER -> [run[p] EXCEPT !.outputs = Tail(@)])
  /\ UNCHANGED faults

(* The reservation is released; run_eval, which sees the exception, does   *)
(* it once more.                                                           *)
Release(p) ==
  /\ run[p].pc = "release" /\ files' = Effect(p)
  /\ Becomes(p, [run[p] EXCEPT
       !.pc = IF Cli /\ run[p].error = "exception" THEN "again" ELSE "ended"])
  /\ UNCHANGED faults

ReleaseAgain(p) ==
  /\ run[p].pc = "again" /\ files' = Effect(p)
  /\ End(p, run[p].error)
  /\ UNCHANGED faults

-----------------------------------------------------------------------------
(* Faults.                                                                 *)

Running(p) == run[p].pc \notin {"idle", "ended"}

Fault(kind) ==
  kind \in FaultKinds /\ faults < MaxFaults /\ faults' = faults + 1

Crash(p) ==
  Running(p) /\ Fault("crash") /\ End(p, "crash") /\ UNCHANGED files

(* A call raises.  A lock that cannot be closed and a temporary file that  *)
(* cannot be written are removed on the spot; a failed clean-up is left    *)
(* where it is.                                                            *)
Raise(p) ==
  /\ Running(p) /\ Fault("exception")
  /\ CASE run[p].pc = "lock" ->
            /\ Possible(p) /\ files' = Effect(p)
            /\ Becomes(p, [run[p] EXCEPT !.pc = "giveBack",
                                         !.error = "exception"])
       [] run[p].pc = "build" ->
            /\ Becomes(p, [run[p] EXCEPT !.pc = "again",
                                         !.error = "exception"])
            /\ UNCHANGED files
       [] run[p].pc = "write" ->
            /\ files' = IF Op(p) = "fill" THEN With(p, Target(p), Absent)
                        ELSE files
            /\ Unwind(p, "exception")
       [] run[p].pc \in {"unlink", "release"} /\ Cli ->
            /\ Becomes(p, [run[p] EXCEPT !.pc = "again",
                                         !.error = "abandoned"])
            /\ UNCHANGED files
       [] OTHER -> End(p, "abandoned") /\ UNCHANGED files

(* A KeyboardInterrupt, before or after the call but before its result is  *)
(* noted: only the finally clause runs.                                    *)
Interrupt(p) ==
  /\ Running(p) /\ Fault("interrupt")
  /\ files' \in {files} \cup (IF Possible(p) THEN {Effect(p)} ELSE {})
  /\ IF run[p].pc = "write" THEN Unwind(p, "interrupt")
     ELSE End(p, "abandoned")

-----------------------------------------------------------------------------
Step(p) ==
  \/ Look(p) \/ TakeLock(p) \/ GiveBack(p) \/ Build(p)
  \/ Write(p) \/ Unlink(p) \/ Release(p) \/ ReleaseAgain(p)

AllEnded == (\A p \in Processes : run[p].pc = "ended") /\ UNCHANGED vars

Next ==
  \/ \E p \in Processes :
       Start(p) \/ Step(p) \/ Crash(p) \/ Raise(p) \/ Interrupt(p)
  \/ AllEnded

Spec == Init /\ [][Next]_vars

(* A process that runs makes progress; none has to be started.             *)
FairSpec == Spec /\ \A p \in Processes : WF_vars(Step(p))

-----------------------------------------------------------------------------
(* What the slots must keep true.                                          *)

(* Files and processes have their types.                                   *)
TypeOK ==
  /\ files \in [Slots \X Names -> Files]
  /\ run \in [Processes -> Runs]
  /\ \A p \in Processes :
       /\ run[p].pc \in {"build", "write"} => run[p].at \in DOMAIN Plan
       /\ run[p].pc \in {"idle", "check", "recheck"} =>
            run[p].at \in DOMAIN Finals
  /\ faults \in 0..MaxFaults

Holds(p) == run[p].pc \in {"recheck", "giveBack", "build", "write", "unlink",
                           "release"}

(* Between its reservation and its release, a slot belongs to one process. *)
OneHolder ==
  \A p, q \in Processes :
    Holds(p) /\ Holds(q) /\ run[p].slot = run[q].slot => p = q

(* is_complete_report_pair.                                                *)
Complete(s) ==
  /\ files[<<s, "json">>].kind \notin {"absent", "empty"}
  /\ files[<<s, "md">>].kind \notin {"absent", "empty"}
  /\ files[<<s, "marker">>].kind = "marker"
  /\ files[<<s, "marker">>].digests =
       <<DigestOf(files[<<s, "json">>]), DigestOf(files[<<s, "md">>])>>

(* A process that returned without an error left a complete pair, both     *)
(* reports its own, and nobody touches it any more.                        *)
ReturnedIsComplete ==
  \A p \in Processes :
    run[p].pc = "ended" /\ run[p].error = "none" =>
      /\ Complete(run[p].slot)
      /\ At(p, "json").by = p /\ At(p, "md").by = p

(* A process whose exception was handled leaves nothing behind, whichever  *)
(* call raised; one that returns leaves only its reports and their marker. *)
CleanEnd ==
  \A p \in Processes, f \in Slots \X Names :
    run[p].pc = "ended" /\ Exists(files[f]) /\ files[f].by = p =>
      \/ run[p].error \in {"crash", "interrupt", "abandoned"}
      \/ run[p].error = "none" /\ f[2] \in {"json", "md", "marker"}

(* A file is changed or removed by its author alone: nothing of another    *)
(* process, finished, running or dead, and nothing found in the directory. *)
OwnFilesOnly ==
  [][\A f \in Slots \X Names :
       Exists(files[f]) /\ files'[f] # files[f] =>
         \E p \in Processes : p = files[f].by /\ run'[p] # run[p]]_vars

(* What was in the directory before is kept as it was, whatever fails and  *)
(* however often a command releases.                                       *)
EarlierKept ==
  [][\A f \in Slots \X Names :
       Exists(files[f]) /\ files[f].by = Earlier => files'[f] = files[f]]_vars

(* Nobody is held up by a slot that is taken, being written or left locked *)
(* by a process that died: every command ends, and it publishes unless a   *)
(* fault is spent on it.                                                   *)
EveryCommandPublishes ==
  \A p \in Processes :
    run[p].pc = "check" ~>
      /\ run[p].pc = "ended"
      /\ Cardinality({q \in Processes : run[q].error # "none"}) <= faults
=============================================================================
