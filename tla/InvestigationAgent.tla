------------------------- MODULE InvestigationAgent -------------------------
(***************************************************************************)
(* The investigation stage of Runtime.handle: the bounded agent loop of    *)
(* agent/loop.py with the Tool registry it executes through, next to the   *)
(* two ways around it (an alarm outside the topology, snapshot_only mode). *)
(* The planner is a model behind Bedrock: it may answer anything or raise. *)
(* A Tool request is its deduplication key and the Evidence its reason     *)
(* cites; all Evidence of one request's result becomes available at once   *)
(* and is named after the key, as _evidence_result names it.               *)
(***************************************************************************)
EXTENDS Naturals, Sequences, FiniteSets

CONSTANTS
  Keys,         \* deduplication keys of conceivable Tool requests
  Allowed,      \* the keys with a known Tool and an allowlisted resource
  SnapshotIds,  \* Evidence IDs of the Snapshot
  Batches,      \* the request sequences a planner may propose
  Outputs,      \* the conclusions a planner may draw
  MaxRounds,    \* MAX_ROUNDS
  MaxPerRound,  \* MAX_TOOLS_PER_ROUND
  MaxTotal      \* MAX_TOTAL_TOOLS

Ids == SnapshotIds \cup Keys

(* "cited" is the ID through which a reason passes or fails the check that *)
(* it names available Evidence.                                            *)
Requests == [key : Keys, cited : Ids]

(* The IDs cited by facts and directions, those cited by the               *)
(* classification, and whether it is another one than "unclassified".      *)
Conclusions == [facts : SUBSET Ids, grounds : SUBSET Ids, classified : BOOLEAN]

Unclassified == [facts |-> {}, grounds |-> {}, classified |-> FALSE]

ToolResults == [key : Keys, evidence : SUBSET Keys]

ASSUME AgentAssumption ==
  /\ Allowed \subseteq Keys
  /\ Batches \subseteq Seq(Requests)
  /\ Outputs \subseteq Conclusions
  /\ MaxRounds \in Nat \ {0} /\ MaxPerRound \in Nat /\ MaxTotal \in Nat

VARIABLES
  pc,        \* "start", "propose", "execute", "summarize" or "done"
  round,     \* the round of the loop, from 1
  batch,     \* the requests of the accepted proposal still to execute
  executed,  \* the results of the Tools executed
  seen,      \* deduplication keys of the Tools executed
  called,    \* every handler call: its key, round and the ID it was for
  result     \* the Investigation: conclusion and tool_calls

vars == <<pc, round, batch, executed, seen, called, result>>

NoResult == [conclusion |-> Unclassified, calls |-> <<>>]

Init ==
  /\ pc = "start" /\ round = 1
  /\ batch = <<>> /\ executed = <<>> /\ seen = {} /\ called = <<>>
  /\ result = NoResult

-----------------------------------------------------------------------------
(* Validation.                                                             *)

(* _allowed_evidence.                                                      *)
Available(results) ==
  SnapshotIds \cup UNION {results[i].evidence : i \in DOMAIN results}

(* The citation rules of _validate_supported_output.                       *)
Grounded(o, results) ==
  /\ o.facts \subseteq Available(results)
  /\ o.grounds \subseteq Available(results)
  /\ o.classified => o.grounds # {}

(* _validate_proposal.  The mistakes: a budget that forgets the rounds     *)
(* before or the limit of a round; reasons that are not checked.           *)
ValidProposalPerRound(b, o, results) ==
  /\ Len(b) <= MaxPerRound
  /\ \A i \in DOMAIN b : b[i].cited \in Available(results)
  /\ Grounded(o, results)

ValidProposalAnyReason(b, o, results) ==
  /\ Len(b) <= MaxPerRound /\ Len(b) <= MaxTotal - Len(results)
  /\ Grounded(o, results)

ValidProposal(b, o, results) ==
  /\ Len(b) <= MaxPerRound /\ Len(b) <= MaxTotal - Len(results)
  /\ \A i \in DOMAIN b : b[i].cited \in Available(results)
  /\ Grounded(o, results)

(* validate_batch: the whole round before any of it is executed.           *)
ValidBatch(b, known) ==
  /\ \A i \in DOMAIN b : b[i].key \in Allowed \ known
  /\ \A i, j \in DOMAIN b : b[i].key = b[j].key => i = j

-----------------------------------------------------------------------------
(* The stage.                                                              *)

Conclude(o, calls) ==
  /\ pc' = "done"
  /\ result' = [conclusion |-> o, calls |-> calls]

(* _fallback keeps the Tool calls already made; the mistake drops them.    *)
FallbackWithoutCalls(calls) == Conclude(Unclassified, <<>>)

Fallback(calls) == Conclude(Unclassified, calls)

(* An alarm the topology does not map: no planner, no Tool.                *)
UnknownAlarm ==
  /\ pc = "start" /\ Conclude(Unclassified, <<>>)
  /\ UNCHANGED <<round, batch, executed, seen, called>>

(* snapshot_only mode: BedrockPlanner.summarize, which checks what it      *)
(* decodes and falls back itself.                                          *)
SummarizeSnapshot ==
  /\ pc = "start"
  /\ \/ \E o \in Outputs : Grounded(o, <<>>) /\ Conclude(o, <<>>)
     \/ Fallback(<<>>)
  /\ UNCHANGED <<round, batch, executed, seen, called>>

(* hybrid mode enters the loop.                                            *)
StartHybrid ==
  /\ pc = "start" /\ pc' = "propose"
  /\ UNCHANGED <<round, batch, executed, seen, called, result>>

(* One proposal.  A planner that raises, and any refused proposal, end the *)
(* investigation; one without requests ends it with its own conclusion     *)
(* only when no Tool has run.                                              *)
Propose ==
  /\ pc = "propose"
  /\ \/ \E b \in Batches, o \in Outputs :
          /\ ValidProposal(b, o, executed) /\ ValidBatch(b, seen)
          /\ \/ /\ b # <<>>
                /\ pc' = "execute" /\ batch' = b /\ UNCHANGED result
             \/ /\ b = <<>> /\ executed = <<>>
                /\ Conclude(o, executed) /\ UNCHANGED batch
             \/ /\ b = <<>> /\ executed # <<>>
                /\ pc' = "summarize" /\ UNCHANGED <<batch, result>>
     \/ Fallback(executed) /\ UNCHANGED batch
  /\ UNCHANGED <<round, executed, seen, called>>

(* What follows an executed request: the rest of its round, another round  *)
(* or the summary.  The mistake: one round too many.                       *)
ContinueOnceMore(rest) ==
  /\ batch' = rest
  /\ pc' = CASE rest # <<>> -> "execute"
             [] rest = <<>> /\ round <= MaxRounds -> "propose"
             [] OTHER -> "summarize"
  /\ round' = IF rest = <<>> THEN round + 1 ELSE round

Continue(rest) ==
  /\ batch' = rest
  /\ pc' = CASE rest # <<>> -> "execute"
             [] rest = <<>> /\ round < MaxRounds -> "propose"
             [] OTHER -> "summarize"
  /\ round' = IF rest = <<>> /\ round < MaxRounds THEN round + 1 ELSE round

(* ToolRegistry.execute on the next request: it validates again, calls the *)
(* handler, and records the key only when the handler returned.  A handler *)
(* turns the errors it expects into a result without Evidence; any other   *)
(* error leaves the loop.                                                  *)
(* The mistakes: keys that are not recorded; a failed Tool that lets the   *)
(* planner choose another one.                                             *)
ExecuteWithoutSeen ==
  /\ pc = "execute"
  /\ called' = Append(called, [key |-> Head(batch).key,
                               cited |-> Head(batch).cited, round |-> round])
  /\ \E evidence \in {{}, {Head(batch).key}} :
       executed' = Append(executed, [key |-> Head(batch).key,
                                     evidence |-> evidence])
  /\ Continue(Tail(batch)) /\ UNCHANGED <<seen, result>>

ExecuteAskingAgain ==
  /\ pc = "execute" /\ pc' = "propose" /\ batch' = <<>>
  /\ UNCHANGED <<round, executed, seen, called, result>>

Execute ==
  /\ pc = "execute"
  /\ LET request == Head(batch)
         permitted == request.key \in Allowed \ seen
         call == [key |-> request.key, cited |-> request.cited,
                  round |-> round]
     IN /\ called' = IF permitted THEN Append(called, call) ELSE called
        /\ \/ /\ permitted
              /\ \E evidence \in {{}, {request.key}} :
                   executed' = Append(executed, [key |-> request.key,
                                                 evidence |-> evidence])
              /\ seen' = seen \cup {request.key}
              /\ Continue(Tail(batch)) /\ UNCHANGED result
           \/ /\ Fallback(executed)
              /\ UNCHANGED <<round, batch, executed, seen>>

(* _finalize: the planner's summary if it passes _validate_investigation.  *)
(* The mistake: a summary that cites what it likes.                        *)
SummarizeUngrounded ==
  /\ pc = "summarize"
  /\ \/ \E o \in Outputs : Conclude(o, executed)
     \/ Fallback(executed)
  /\ UNCHANGED <<round, batch, executed, seen, called>>

Summarize ==
  /\ pc = "summarize"
  /\ \/ \E o \in Outputs, calls \in {executed, <<>>} :
          /\ calls = executed /\ Grounded(o, executed)
          /\ Conclude(o, calls)
     \/ Fallback(executed)
  /\ UNCHANGED <<round, batch, executed, seen, called>>

Returned == pc = "done" /\ UNCHANGED vars

Step ==
  \/ UnknownAlarm \/ SummarizeSnapshot \/ StartHybrid
  \/ Propose \/ Execute \/ Summarize

Next == Step \/ Returned

Spec == Init /\ [][Next]_vars

(* Every call of the stage returns or raises: its clients have timeouts.   *)
FairSpec == Spec /\ WF_vars(Step)

-----------------------------------------------------------------------------
(* What the stage must keep true.                                          *)

CalledKeys == {called[i].key : i \in DOMAIN called}

CallsOf(r) == {i \in DOMAIN called : called[i].round = r}

(* Every variable of the agent has its type.                               *)
TypeOK ==
  /\ pc \in {"start", "propose", "execute", "summarize", "done"}
  /\ round \in 1..MaxRounds
  /\ batch \in Seq(Requests)
  /\ pc = "execute" => batch # <<>>
  /\ executed \in Seq(ToolResults)
  /\ seen \subseteq Keys
  /\ called \in Seq([key : Keys, cited : Ids, round : 1..MaxRounds])
  /\ result \in [conclusion : Conclusions, calls : Seq(ToolResults)]

(* The budgets of a round and of the whole investigation hold for the      *)
(* calls that went out, the one whose handler raised included, although    *)
(* the loop counts only the results it got.                                *)
WithinBudget ==
  /\ Len(called) <= MaxTotal
  /\ \A r \in 1..MaxRounds : Cardinality(CallsOf(r)) <= MaxPerRound

(* No target is asked twice under the same conditions, in one round or     *)
(* across rounds, although a key enters "seen" only after its call.        *)
NoRepeatedCall ==
  \A i, j \in DOMAIN called : called[i].key = called[j].key => i = j

(* A round is refused whole or run whole: no request that the registry     *)
(* denies is discovered after another one of its round went out.           *)
RoundPermitted ==
  pc = "execute" =>
    /\ \A i \in DOMAIN batch : batch[i].key \in Allowed \ seen
    /\ \A i, j \in DOMAIN batch : batch[i].key = batch[j].key => i = j

(* Every call was made for a reason known before its round: Evidence of    *)
(* the Snapshot or of a call of an earlier round.                          *)
CalledForReason ==
  \A i \in DOMAIN called :
    called[i].cited \in SnapshotIds
      \cup {called[j].key : j \in {k \in DOMAIN called :
                                     called[k].round < called[i].round}}

(* The Investigation cites only Evidence that it carries with it: of the   *)
(* Snapshot, or of a Tool call it reports.                                 *)
ResultGrounded == pc = "done" => Grounded(result.conclusion, result.calls)

(* However the loop ends, the Investigation reports every call that went   *)
(* out, in order, except the one whose handler raised.                     *)
NoCallLost ==
  pc = "done" =>
    /\ Len(called) - Len(result.calls) \in {0, 1}
    /\ \A i \in DOMAIN result.calls : result.calls[i].key = called[i].key

(* The stage ends with an Investigation whatever planner and Tools do.     *)
Terminates == <>(pc = "done")
=============================================================================
