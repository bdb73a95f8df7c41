---------------------- MODULE InvestigationAgentProofs ----------------------
(***************************************************************************)
(* Theorems about the agent loop, for every planner and every bound: it    *)
(* is well typed, its calls stay within the budgets, it calls a Tool only  *)
(* when the registry permits it, for a known reason and never twice the    *)
(* same way, and its result cites and reports what was really answered.    *)
(***************************************************************************)
EXTENDS InvestigationAgent, FiniteSetTheorems, SequenceTheorems, TLAPS

-----------------------------------------------------------------------------
(* Type correctness.                                                       *)

Calls == [key : Keys, cited : Ids, round : 1..MaxRounds]

LEMMA UnclassifiedType == Unclassified \in Conclusions
  BY DEF Unclassified, Conclusions

LEMMA ConcludeKeepsTypes ==
  ASSUME NEW o \in Conclusions, NEW calls \in Seq(ToolResults),
         Conclude(o, calls)
  PROVE  pc' = "done" /\ result' \in [conclusion : Conclusions,
                                      calls : Seq(ToolResults)]
  BY DEF Conclude

LEMMA NoCallsType == <<>> \in Seq(ToolResults)
  BY EmptySeq

LEMMA InitTypes == Init => TypeOK
<1> SUFFICES ASSUME Init PROVE TypeOK
  OBVIOUS
<1>1. /\ <<>> \in Seq(Requests) /\ <<>> \in Seq(ToolResults)
      /\ <<>> \in Seq(Calls)
  BY EmptySeq
<1>2. 1 \in 1..MaxRounds
  BY AgentAssumption
<1>3. NoResult \in [conclusion : Conclusions, calls : Seq(ToolResults)]
  BY <1>1, UnclassifiedType DEF NoResult
<1> QED
  BY <1>1, <1>2, <1>3 DEF Init, TypeOK, Calls

(* The first request of a round and what is left of it.                    *)
LEMMA BatchParts ==
  ASSUME TypeOK, pc = "execute"
  PROVE  /\ Len(batch) \in Nat \ {0}
         /\ Head(batch) = batch[1] /\ Head(batch) \in Requests
         /\ Tail(batch) \in Seq(Requests)
         /\ Len(Tail(batch)) = Len(batch) - 1
         /\ DOMAIN Tail(batch) = 1..Len(Tail(batch))
         /\ DOMAIN batch = 1..Len(batch)
         /\ \A i \in 1..Len(Tail(batch)) : Tail(batch)[i] = batch[i + 1]
<1>1. batch \in Seq(Requests) /\ batch # <<>>
  BY DEF TypeOK
<1>2. Len(batch) \in Nat \ {0}
  BY <1>1, EmptySeq
<1>3. Tail(batch) \in Seq(Requests) /\ Len(Tail(batch)) = Len(batch) - 1
  BY <1>1, <1>2, HeadTailProperties
<1>4. Head(batch) = batch[1] /\ batch[1] \in Requests
  BY <1>1, <1>2, ElementOfSeq
<1>5. DOMAIN Tail(batch) = 1..Len(Tail(batch)) /\ DOMAIN batch = 1..Len(batch)
  BY <1>1, <1>3, LenProperties
<1>6. \A i \in 1..Len(Tail(batch)) : Tail(batch)[i] = batch[i + 1]
  BY <1>1, <1>2, <1>3, HeadTailProperties
<1> QED
  BY <1>2, <1>3, <1>4, <1>5, <1>6

(* What a handler call leaves.                                             *)
LEMMA CallIsRecorded ==
  ASSUME TypeOK, pc = "execute",
         called' = Append(called, [key |-> Head(batch).key,
                                   cited |-> Head(batch).cited,
                                   round |-> round])
  PROVE  /\ called' \in Seq(Calls)
         /\ Len(called) \in Nat
         /\ Len(called') = Len(called) + 1
         /\ DOMAIN called = 1..Len(called)
         /\ DOMAIN called' = 1..(Len(called) + 1)
         /\ \A i \in 1..Len(called) : called'[i] = called[i]
         /\ called'[Len(called) + 1].key = Head(batch).key
         /\ called'[Len(called) + 1].round = round
<1> DEFINE call == [key |-> Head(batch).key, cited |-> Head(batch).cited,
                    round |-> round]
<1>1. called \in Seq(Calls)
  BY DEF TypeOK, Calls
<1>2. call \in Calls
  BY BatchParts DEF TypeOK, Calls, Requests
<1>3. called' = Append(called, call)
  OBVIOUS
<1>4. /\ called' \in Seq(Calls) /\ Len(called') = Len(called) + 1
      /\ \A i \in 1..Len(called) : called'[i] = called[i]
      /\ called'[Len(called) + 1] = call
  BY <1>1, <1>2, <1>3, AppendProperties
<1>5. Len(called) \in Nat /\ DOMAIN called = 1..Len(called)
  BY <1>1, LenProperties
<1>6. DOMAIN called' = 1..(Len(called) + 1)
  BY <1>4, LenProperties
<1>7. call.key = Head(batch).key /\ call.round = round
  OBVIOUS
<1> QED
  BY <1>4, <1>5, <1>6, <1>7

LEMMA ContinueKeepsTypes ==
  ASSUME TypeOK, NEW rest \in Seq(Requests), Continue(rest)
  PROVE  /\ pc' \in {"execute", "propose", "summarize"}
         /\ pc' = "execute" => batch' # <<>>
         /\ batch' \in Seq(Requests)
         /\ round' \in 1..MaxRounds
<1>1. /\ pc' \in {"execute", "propose", "summarize"}
      /\ pc' = "execute" => batch' # <<>>
  BY DEF Continue
<1>2. round' \in 1..MaxRounds
  BY AgentAssumption DEF Continue, TypeOK
<1> QED
  BY <1>1, <1>2 DEF Continue

LEMMA ExecuteTypes == TypeOK /\ Execute => TypeOK'
<1> SUFFICES ASSUME TypeOK, Execute PROVE TypeOK'
  OBVIOUS
<1> USE BatchParts DEF TypeOK
<1> DEFINE request == Head(batch)
           call == [key |-> request.key, cited |-> request.cited,
                    round |-> round]
<1>0. pc = "execute" /\ request \in Requests /\ request.key \in Keys
  BY DEF Execute, Requests
<1>1. called' \in Seq([key : Keys, cited : Ids, round : 1..MaxRounds])
  <2>1. CASE called' = Append(called, call)
    BY <1>0, <2>1, CallIsRecorded DEF Calls
  <2>2. CASE called' = called
    BY <2>2
  <2> QED
    BY <2>1, <2>2 DEF Execute
<1>2. CASE /\ \E evidence \in {{}, {request.key}} :
                executed' = Append(executed, [key |-> request.key,
                                              evidence |-> evidence])
           /\ seen' = seen \cup {request.key}
           /\ Continue(Tail(batch)) /\ UNCHANGED result
  <2>1. PICK evidence \in {{}, {request.key}} :
          executed' = Append(executed, [key |-> request.key,
                                        evidence |-> evidence])
    BY <1>2
  <2>2. [key |-> request.key, evidence |-> evidence] \in ToolResults
    BY <1>0 DEF ToolResults, Requests
  <2>3. executed' \in Seq(ToolResults)
    BY <2>1, <2>2, AppendProperties
  <2>4. /\ pc' \in {"execute", "propose", "summarize"}
        /\ pc' = "execute" => batch' # <<>>
        /\ batch' \in Seq(Requests)
        /\ round' \in 1..MaxRounds
    BY <1>0, <1>2, ContinueKeepsTypes
  <2> QED
    BY <1>0, <1>1, <1>2, <2>3, <2>4
<1>3. CASE Fallback(executed) /\ UNCHANGED <<round, batch, executed, seen>>
  BY <1>1, <1>3, UnclassifiedType, ConcludeKeepsTypes DEF Fallback
<1> QED
  BY <1>2, <1>3 DEF Execute

LEMMA ProposeTypes == TypeOK /\ Propose => TypeOK'
<1> SUFFICES ASSUME TypeOK, Propose PROVE TypeOK'
  OBVIOUS
<1> USE DEF TypeOK
<1>1. CASE Fallback(executed) /\ UNCHANGED batch
  BY <1>1, UnclassifiedType, ConcludeKeepsTypes DEF Propose, Fallback
<1>2. ASSUME NEW b \in Batches, NEW o \in Outputs,
             \/ b # <<>> /\ pc' = "execute" /\ batch' = b /\ UNCHANGED result
             \/ Conclude(o, executed) /\ UNCHANGED batch
             \/ pc' = "summarize" /\ UNCHANGED <<batch, result>>
      PROVE  TypeOK'
  <2>1. b \in Seq(Requests) /\ o \in Conclusions
    BY AgentAssumption
  <2> QED
    BY <1>2, <2>1, ConcludeKeepsTypes DEF Propose
<1> QED
  BY <1>1, <1>2 DEF Propose

(* The steps that end the stage without a Tool call.                       *)
LEMMA EndTypes ==
  TypeOK /\ (UnknownAlarm \/ SummarizeSnapshot \/ Summarize) => TypeOK'
<1> SUFFICES ASSUME TypeOK, UnknownAlarm \/ SummarizeSnapshot \/ Summarize
             PROVE  TypeOK'
  OBVIOUS
<1>1. \E o \in Conclusions, calls \in Seq(ToolResults) : Conclude(o, calls)
  <2>1. \A o \in Outputs : o \in Conclusions
    BY AgentAssumption
  <2>2. executed \in Seq(ToolResults)
    BY DEF TypeOK
  <2>3. CASE UnknownAlarm
    BY <2>3, UnclassifiedType, NoCallsType DEF UnknownAlarm
  <2>4. CASE SummarizeSnapshot
    BY <2>1, <2>4, UnclassifiedType, NoCallsType
       DEF SummarizeSnapshot, Fallback
  <2>5. CASE Summarize
    BY <2>1, <2>2, <2>5, UnclassifiedType DEF Summarize, Fallback
  <2> QED
    BY <2>3, <2>4, <2>5
<1>2. UNCHANGED <<round, batch, executed, seen, called>>
  BY DEF UnknownAlarm, SummarizeSnapshot, Summarize
<1> QED
  BY <1>1, <1>2, ConcludeKeepsTypes DEF TypeOK

(* Every variable of the agent keeps its type, for every planner, Tool and *)
(* budget.                                                                 *)
THEOREM AgentTyping == Spec => []TypeOK
<1>1. TypeOK /\ [Next]_vars => TypeOK'
  <2> SUFFICES ASSUME TypeOK, [Next]_vars PROVE TypeOK'
    OBVIOUS
  <2>1. CASE StartHybrid
    BY <2>1 DEF StartHybrid, TypeOK
  <2>2. CASE Returned \/ UNCHANGED vars
    BY <2>2 DEF Returned, vars, TypeOK
  <2> QED
    BY <2>1, <2>2, ExecuteTypes, ProposeTypes, EndTypes DEF Next, Step
<1> QED
  BY <1>1, InitTypes, PTL DEF Spec

-----------------------------------------------------------------------------
(* The calls of the loop.                                                  *)

(* Why the calls stay in bounds: until the stage ends, the results and the *)
(* seen keys are those of the calls; the calls of a round come after those *)
(* of the rounds before; and what is left of an accepted round still fits  *)
(* both budgets and is permitted.                                          *)
CallsCounted ==
  pc # "done" => Len(called) = Len(executed) /\ seen = CalledKeys

RoundsInOrder ==
  /\ \A i \in DOMAIN called : called[i].round <= round
  /\ pc \in {"start", "propose"} => CallsOf(round) = {}

BatchFits ==
  pc = "execute" =>
    /\ Len(called) + Len(batch) <= MaxTotal
    /\ Cardinality(CallsOf(round)) + Len(batch) <= MaxPerRound

CallsInv ==
  /\ CallsCounted /\ RoundsInOrder /\ BatchFits
  /\ WithinBudget /\ NoRepeatedCall /\ RoundPermitted
  /\ CalledKeys \subseteq Allowed

LEMMA CallsAreFinite ==
  ASSUME TypeOK, NEW r
  PROVE  /\ Len(called) \in Nat /\ DOMAIN called = 1..Len(called)
         /\ IsFiniteSet(CallsOf(r))
         /\ Cardinality(CallsOf(r)) \in Nat
<1>1. Len(called) \in Nat /\ DOMAIN called = 1..Len(called)
  BY LenProperties DEF TypeOK
<1>2. IsFiniteSet(1..Len(called)) /\ CallsOf(r) \in SUBSET (1..Len(called))
  BY <1>1, FS_Interval DEF CallsOf
<1>3. IsFiniteSet(CallsOf(r))
  BY <1>2, FS_Subset
<1> QED
  BY <1>1, <1>3, FS_CardinalityType

LEMMA InitCalls == Init => CallsInv
<1> SUFFICES ASSUME Init PROVE CallsInv
  OBVIOUS
<1>1. called = <<>> /\ executed = <<>> /\ Len(called) = 0
      /\ DOMAIN called = {} /\ pc = "start" /\ seen = {}
  BY EmptySeq DEF Init
<1>2. CalledKeys = {} /\ \A r : CallsOf(r) = {}
  BY <1>1 DEF CalledKeys, CallsOf
<1>3. WithinBudget
  BY <1>1, <1>2, FS_EmptySet, AgentAssumption DEF WithinBudget
<1> QED
  BY <1>1, <1>2, <1>3
     DEF CallsInv, CallsCounted, RoundsInOrder, BatchFits, NoRepeatedCall,
         RoundPermitted

(* A step without a call that leaves the loop's records keeps the          *)
(* invariant, wherever it goes but into a round.                           *)
LEMMA QuietStep ==
  ASSUME CallsInv, UNCHANGED <<round, executed, seen, called>>,
         pc # "done", pc' # "execute",
         pc' \in {"start", "propose"} => pc \in {"start", "propose"}
  PROVE  CallsInv'
<1>1. CalledKeys' = CalledKeys /\ \A r : CallsOf(r)' = CallsOf(r)
  BY DEF CalledKeys, CallsOf
<1> QED
  BY <1>1 DEF CallsInv, CallsCounted, RoundsInOrder, BatchFits, WithinBudget,
              NoRepeatedCall, RoundPermitted

LEMMA ProposeCalls == TypeOK /\ CallsInv /\ Propose => CallsInv'
<1> SUFFICES ASSUME TypeOK, CallsInv, Propose PROVE CallsInv'
  OBVIOUS
<1>1. CASE pc' # "execute"
  BY <1>1, QuietStep DEF Propose, Conclude, Fallback
<1>2. CASE pc' = "execute"
  <2>1. PICK b \in Batches, o \in Outputs :
          ValidProposal(b, o, executed) /\ ValidBatch(b, seen) /\ batch' = b
    BY <1>2 DEF Propose, Conclude, Fallback
  <2>2. UNCHANGED <<round, executed, seen, called>> /\ pc = "propose"
    BY DEF Propose
  <2>3. CalledKeys' = CalledKeys /\ \A r : CallsOf(r)' = CallsOf(r)
    BY <2>2 DEF CalledKeys, CallsOf
  <2>4. /\ Len(called) = Len(executed) /\ seen = CalledKeys
        /\ CallsOf(round) = {}
    BY <2>2 DEF CallsInv, CallsCounted, RoundsInOrder
  <2>5. Cardinality(CallsOf(round)) = 0
    BY <2>4, FS_EmptySet
  <2>6. Len(b) \in Nat /\ Len(called) \in Nat
    BY LenProperties, AgentAssumption, CallsAreFinite
  <2>7. BatchFits'
    <3>1. Len(b) <= MaxPerRound /\ Len(b) <= MaxTotal - Len(called)
      BY <2>1, <2>4 DEF ValidProposal
    <3>2. Len(called) + Len(b) <= MaxTotal
      BY <3>1, <2>6, AgentAssumption
    <3>3. Cardinality(CallsOf(round)) + Len(b) <= MaxPerRound
      BY <3>1, <2>5, <2>6, AgentAssumption
    <3> QED
      BY <3>2, <3>3, <2>1, <2>2, <2>3 DEF BatchFits
  <2>8. RoundPermitted'
    BY <2>1, <2>2 DEF RoundPermitted, ValidBatch
  <2>9. /\ WithinBudget' /\ NoRepeatedCall' /\ CallsCounted'
        /\ RoundsInOrder' /\ CalledKeys' \subseteq Allowed
    BY <1>2, <2>2, <2>3
       DEF CallsInv, WithinBudget, NoRepeatedCall, CallsCounted, RoundsInOrder
  <2> QED
    BY <2>7, <2>8, <2>9 DEF CallsInv
<1> QED
  BY <1>1, <1>2

(* A handler call of the loop: one more call of the round, with a key that *)
(* no call had.                                                            *)
LEMMA CallEffect ==
  ASSUME TypeOK, CallsInv, pc = "execute",
         called' = Append(called, [key |-> Head(batch).key,
                                   cited |-> Head(batch).cited,
                                   round |-> round])
  PROVE  /\ Len(called') = Len(called) + 1
         /\ CalledKeys' = CalledKeys \cup {Head(batch).key}
         /\ Head(batch).key \in Allowed \ CalledKeys
         /\ \A r \in 1..MaxRounds :
              CallsOf(r)' = IF r = round THEN CallsOf(r) \cup {Len(called) + 1}
                            ELSE CallsOf(r)
         /\ \A i \in DOMAIN called' : called'[i].round <= round
         /\ NoRepeatedCall'
<1> DEFINE n == Len(called)
<1>1. /\ n \in Nat /\ Len(called') = n + 1
      /\ DOMAIN called = 1..n /\ DOMAIN called' = 1..(n + 1)
      /\ \A i \in 1..n : called'[i] = called[i]
      /\ called'[n + 1].key = Head(batch).key
      /\ called'[n + 1].round = round
  BY CallIsRecorded
<1>2. 1..(n + 1) = (1..n) \cup {n + 1} /\ n + 1 \notin 1..n
  BY <1>1
<1>3. Head(batch).key \in Allowed \ seen
  BY BatchParts DEF CallsInv, RoundPermitted
<1>4. seen = CalledKeys
  BY DEF CallsInv, CallsCounted
<1> HIDE DEF n
<1>5. CalledKeys' = CalledKeys \cup {Head(batch).key}
  BY <1>1, <1>2 DEF CalledKeys
<1>6. ASSUME NEW r \in 1..MaxRounds
      PROVE  CallsOf(r)' = IF r = round THEN CallsOf(r) \cup {n + 1}
                           ELSE CallsOf(r)
  BY <1>1, <1>2 DEF CallsOf
<1>7. \A i \in DOMAIN called' : called'[i].round <= round
  <2>1. round <= round
    BY AgentAssumption DEF TypeOK
  <2>2. \A i \in 1..n : called[i].round <= round
    BY <1>1 DEF CallsInv, RoundsInOrder
  <2> QED
    BY <1>1, <1>2, <2>1, <2>2
<1>8. NoRepeatedCall'
  <2>1. \A i \in 1..n : called[i].key \in CalledKeys
    BY <1>1 DEF CalledKeys
  <2>2. \A i, j \in 1..n : called[i].key = called[j].key => i = j
    BY <1>1 DEF CallsInv, NoRepeatedCall
  <2>3. \A i \in 1..n : called'[i].key # called'[n + 1].key
    BY <1>1, <1>3, <1>4, <2>1
  <2> QED
    BY <1>1, <1>2, <2>2, <2>3 DEF NoRepeatedCall
<1> QED
  BY <1>1, <1>3, <1>4, <1>5, <1>6, <1>7, <1>8 DEF n

(* The budgets hold after the call, with the rest of its round to come.    *)
LEMMA CallFits ==
  ASSUME TypeOK, CallsInv, pc = "execute",
         called' = Append(called, [key |-> Head(batch).key,
                                   cited |-> Head(batch).cited,
                                   round |-> round])
  PROVE  /\ WithinBudget'
         /\ Len(called') + Len(Tail(batch)) <= MaxTotal
         /\ \A r \in 1..MaxRounds :
              r = round => Cardinality(CallsOf(r)') + Len(Tail(batch))
                             <= MaxPerRound
<1>1. /\ Len(batch) \in Nat \ {0} /\ Len(Tail(batch)) = Len(batch) - 1
  BY BatchParts
<1>2. Len(called) \in Nat /\ Len(called') = Len(called) + 1
  BY CallsAreFinite, CallEffect
<1>3. Len(called) + Len(batch) <= MaxTotal
  BY DEF CallsInv, BatchFits
<1>4. Len(called') + Len(Tail(batch)) <= MaxTotal /\ Len(called') <= MaxTotal
  BY <1>1, <1>2, <1>3, AgentAssumption
<1>5. ASSUME NEW r \in 1..MaxRounds
      PROVE  /\ r = round => Cardinality(CallsOf(r)') + Len(Tail(batch))
                               <= MaxPerRound
             /\ Cardinality(CallsOf(r)') <= MaxPerRound
  <2>1. /\ IsFiniteSet(CallsOf(r)) /\ Cardinality(CallsOf(r)) \in Nat
    BY CallsAreFinite
  <2>2. CASE r = round
    <3>1. Len(called) + 1 \notin CallsOf(r)
      BY CallsAreFinite DEF CallsOf
    <3>2. Cardinality(CallsOf(r)') = Cardinality(CallsOf(r)) + 1
      BY <2>1, <2>2, <3>1, CallEffect, FS_AddElement
    <3>3. Cardinality(CallsOf(r)) + Len(batch) <= MaxPerRound
      BY <2>2 DEF CallsInv, BatchFits
    <3> QED
      BY <1>1, <2>1, <3>2, <3>3, AgentAssumption
  <2>3. CASE r # round
    BY <2>3, CallEffect DEF CallsInv, WithinBudget
  <2> QED
    BY <2>2, <2>3
<1> QED
  BY <1>4, <1>5 DEF WithinBudget

(* The handler answered and the loop goes on.                              *)
LEMMA AnsweredCall ==
  ASSUME TypeOK, CallsInv, pc = "execute",
         called' = Append(called, [key |-> Head(batch).key,
                                   cited |-> Head(batch).cited,
                                   round |-> round]),
         NEW evidence,
         executed' = Append(executed, [key |-> Head(batch).key,
                                       evidence |-> evidence]),
         seen' = seen \cup {Head(batch).key},
         Continue(Tail(batch))
  PROVE  CallsInv'
<1> DEFINE rest == Tail(batch)
<1>1. round \in 1..MaxRounds /\ round' \in {round, round + 1}
  BY DEF TypeOK, Continue
<1>2. CallsCounted'
  <2>1. Len(executed') = Len(executed) + 1
    BY LenProperties DEF TypeOK
  <2>2. Len(called) = Len(executed) /\ seen = CalledKeys
    BY DEF CallsInv, CallsCounted
  <2> QED
    BY <2>1, <2>2, CallEffect DEF CallsCounted
<1>3. RoundsInOrder'
  <2>1. \A i \in DOMAIN called' : called'[i].round <= round /\
                                  called'[i].round \in 1..MaxRounds
    <3> SUFFICES ASSUME NEW i \in DOMAIN called'
                 PROVE  /\ called'[i].round <= round
                        /\ called'[i].round \in 1..MaxRounds
      OBVIOUS
    <3>1. called' \in Seq(Calls) /\ i \in 1..Len(called')
      BY CallIsRecorded
    <3>2. called'[i] \in Calls
      BY <3>1, ElementOfSeq
    <3> QED
      BY <3>2, CallEffect DEF Calls
  <2>2. \A i \in DOMAIN called' : called'[i].round <= round'
    BY <1>1, <2>1
  <2>3. pc' \in {"start", "propose"} => round' = round + 1
    BY DEF Continue
  <2>4. pc' \in {"start", "propose"} => CallsOf(round)' = {}
    BY <1>1, <2>1, <2>3 DEF CallsOf
  <2> QED
    BY <2>2, <2>4 DEF RoundsInOrder
<1>4. pc' = "execute" => rest # <<>> /\ batch' = rest /\ round' = round
  BY DEF Continue
<1>5. BatchFits'
  <2> SUFFICES ASSUME pc' = "execute" PROVE BatchFits'
    BY DEF BatchFits
  <2>1. Cardinality(CallsOf(round)') + Len(rest) <= MaxPerRound
    <3>1. PICK r \in 1..MaxRounds : r = round
      BY <1>1
    <3>2. Cardinality(CallsOf(r)') + Len(rest) <= MaxPerRound
      BY <3>1, CallFits
    <3>3. CallsOf(r)' = CallsOf(round)'
      BY <1>4, <3>1 DEF CallsOf
    <3> QED
      BY <3>2, <3>3
  <2> QED
    BY <1>4, <2>1, CallFits DEF BatchFits
<1>6. RoundPermitted'
  <2> SUFFICES ASSUME pc' = "execute" PROVE RoundPermitted'
    BY DEF RoundPermitted
  <2>1. /\ Len(batch) \in Nat \ {0} /\ Len(rest) = Len(batch) - 1
        /\ DOMAIN batch = 1..Len(batch) /\ DOMAIN rest = 1..Len(rest)
        /\ Head(batch) = batch[1]
        /\ \A i \in 1..Len(rest) : rest[i] = batch[i + 1]
    BY BatchParts
  <2>2. /\ \A i \in DOMAIN batch : batch[i].key \in Allowed \ seen
        /\ \A i, j \in DOMAIN batch : batch[i].key = batch[j].key => i = j
    BY DEF CallsInv, RoundPermitted
  <2>3. \A i \in 1..Len(rest) : i + 1 \in 1..Len(batch) /\ i + 1 # 1
    BY <2>1
  <2>4. \A i \in DOMAIN rest : rest[i].key \in Allowed \ seen'
    <3> SUFFICES ASSUME NEW i \in DOMAIN rest
                 PROVE  rest[i].key \in Allowed \ seen'
      OBVIOUS
    <3>1. rest[i] = batch[i + 1] /\ i + 1 \in DOMAIN batch /\ 1 \in DOMAIN batch
      BY <2>1, <2>3
    <3>2. batch[i + 1].key \in Allowed \ seen
      BY <2>2, <3>1
    <3>3. batch[i + 1].key # batch[1].key
      BY <2>2, <2>3, <2>1, <3>1
    <3> QED
      BY <2>1, <3>1, <3>2, <3>3
  <2>5. \A i, j \in DOMAIN rest : rest[i].key = rest[j].key => i = j
    BY <2>1, <2>2, <2>3
  <2> QED
    BY <1>4, <2>4, <2>5 DEF RoundPermitted
<1>7. CalledKeys' \subseteq Allowed
  BY CallEffect DEF CallsInv
<1> QED
  BY <1>2, <1>3, <1>5, <1>6, <1>7, CallEffect, CallFits DEF CallsInv

(* The handler raised: its call counts, and the stage ends.                *)
LEMMA FailedCall ==
  ASSUME TypeOK, CallsInv, pc = "execute",
         called' = Append(called, [key |-> Head(batch).key,
                                   cited |-> Head(batch).cited,
                                   round |-> round]),
         pc' = "done", UNCHANGED round
  PROVE  CallsInv'
<1>1. CallsCounted' /\ BatchFits' /\ RoundPermitted'
  BY DEF CallsCounted, BatchFits, RoundPermitted
<1>2. RoundsInOrder'
  BY CallEffect DEF RoundsInOrder
<1>3. CalledKeys' \subseteq Allowed
  BY CallEffect DEF CallsInv
<1> QED
  BY <1>1, <1>2, <1>3, CallEffect, CallFits DEF CallsInv

LEMMA ExecuteCalls == TypeOK /\ CallsInv /\ Execute => CallsInv'
<1> SUFFICES ASSUME TypeOK, CallsInv, Execute PROVE CallsInv'
  OBVIOUS
<1> DEFINE call == [key |-> Head(batch).key, cited |-> Head(batch).cited,
                    round |-> round]
<1>1. pc = "execute" /\ Head(batch).key \in Allowed \ seen
  BY BatchParts DEF Execute, CallsInv, RoundPermitted
<1>2. called' = Append(called, call)
  BY <1>1 DEF Execute
<1>3. CASE Fallback(executed) /\ UNCHANGED round
  BY <1>1, <1>2, <1>3, FailedCall DEF Fallback, Conclude
<1>4. CASE /\ \E evidence \in {{}, {Head(batch).key}} :
                executed' = Append(executed, [key |-> Head(batch).key,
                                              evidence |-> evidence])
           /\ seen' = seen \cup {Head(batch).key}
           /\ Continue(Tail(batch))
  BY <1>1, <1>2, <1>4, AnsweredCall
<1> QED
  BY <1>3, <1>4 DEF Execute

LEMMA NextCalls == TypeOK /\ CallsInv /\ [Next]_vars => CallsInv'
<1> SUFFICES ASSUME TypeOK, CallsInv, [Next]_vars PROVE CallsInv'
  OBVIOUS
<1>1. CASE UnknownAlarm \/ SummarizeSnapshot \/ StartHybrid \/ Summarize
  BY <1>1, QuietStep
     DEF UnknownAlarm, SummarizeSnapshot, StartHybrid, Summarize, Fallback,
         Conclude
<1>2. CASE UNCHANGED vars
  BY <1>2
     DEF vars, CallsInv, CallsCounted, RoundsInOrder, BatchFits, WithinBudget,
         NoRepeatedCall, RoundPermitted, CalledKeys, CallsOf
<1> QED
  BY <1>1, <1>2, ProposeCalls, ExecuteCalls DEF Next, Step, Returned

(* The inductive invariant of the calls: what the loop's counters say of    *)
(* the calls that went out, and that what is left of a round still fits.   *)
THEOREM CallsInvariant == Spec => []CallsInv
<1> QED
  BY AgentTyping, InitCalls, NextCalls, PTL DEF Spec

(* Whatever the planner proposes and whichever Tool fails, the calls that  *)
(* go out stay within the budget of each round and of the investigation.   *)
THEOREM Budget == Spec => []WithinBudget
<1>1. CallsInv => WithinBudget
  BY DEF CallsInv
<1> QED
  BY <1>1, CallsInvariant, PTL

(* No Tool is called twice for the same target under the same conditions.  *)
THEOREM NoDuplicates == Spec => []NoRepeatedCall
<1>1. CallsInv => NoRepeatedCall
  BY DEF CallsInv
<1> QED
  BY <1>1, CallsInvariant, PTL

(* Once a round has begun, none of its requests is denied.                 *)
THEOREM WholeRounds == Spec => []RoundPermitted
<1>1. CallsInv => RoundPermitted
  BY DEF CallsInv
<1> QED
  BY <1>1, CallsInvariant, PTL

-----------------------------------------------------------------------------
(* Reasons and results.                                                    *)

(* Why the Investigation is grounded: until the stage ends, the results    *)
(* are the answers to the calls, one by one and with no other Evidence     *)
(* than theirs; and what is left of a round cites what was known before it.*)
KnownBefore(r) ==
  SnapshotIds \cup {called[j].key : j \in {k \in DOMAIN called :
                                            called[k].round < r}}

Answers ==
  pc # "done" =>
    /\ Len(executed) = Len(called)
    /\ \A i \in DOMAIN executed :
         /\ executed[i].key = called[i].key
         /\ executed[i].evidence \subseteq {executed[i].key}

RoundReasons ==
  pc = "execute" => \A i \in DOMAIN batch : batch[i].cited \in KnownBefore(round)

GroundInv ==
  /\ Answers /\ RoundReasons
  /\ pc = "start" => executed = <<>>
  /\ CalledForReason /\ ResultGrounded /\ NoCallLost

LEMMA Domains ==
  ASSUME TypeOK
  PROVE  /\ Len(called) \in Nat /\ DOMAIN called = 1..Len(called)
         /\ Len(executed) \in Nat /\ DOMAIN executed = 1..Len(executed)
         /\ round \in Nat
         /\ \A i \in DOMAIN called : called[i].round \in Nat
<1>1. called \in Seq(Calls) /\ executed \in Seq(ToolResults)
  BY DEF TypeOK, Calls
<1>2. \A i \in 1..Len(called) : called[i] \in Calls
  BY <1>1, ElementOfSeq
<1>3. 1..MaxRounds \subseteq Nat
  BY AgentAssumption
<1>4. round \in Nat /\ \A c \in Calls : c.round \in Nat
  BY <1>3 DEF TypeOK, Calls
<1> QED
  BY <1>1, <1>2, <1>4, LenProperties

LEMMA UnclassifiedIsGrounded ==
  ASSUME NEW results PROVE Grounded(Unclassified, results)
  BY DEF Grounded, Unclassified

(* The stage ends, with the results it has and at most one call that has   *)
(* no result.                                                              *)
LEMMA EndingGround ==
  ASSUME TypeOK, Answers, pc # "done", NEW o, Grounded(o, executed),
         Conclude(o, executed), Len(called') - Len(called) \in {0, 1},
         \A i \in DOMAIN called : called'[i] = called[i]
  PROVE  ResultGrounded' /\ NoCallLost'
<1>1. result'.conclusion = o /\ result'.calls = executed
  BY DEF Conclude
<1>2. ResultGrounded'
  BY <1>1 DEF ResultGrounded, Grounded, Available
<1>3. /\ Len(executed) = Len(called)
      /\ \A i \in DOMAIN executed : executed[i].key = called[i].key
  BY DEF Answers
<1>4. \A i \in DOMAIN executed : executed[i].key = called'[i].key
  BY <1>3, Domains
<1> QED
  BY <1>1, <1>2, <1>3, <1>4 DEF NoCallLost

LEMMA InitGround == Init => GroundInv
<1> SUFFICES ASSUME Init PROVE GroundInv
  OBVIOUS
<1>1. /\ called = <<>> /\ executed = <<>> /\ pc = "start"
      /\ DOMAIN called = {} /\ DOMAIN executed = {}
  BY EmptySeq DEF Init
<1> QED
  BY <1>1 DEF GroundInv, Answers, RoundReasons, CalledForReason,
              ResultGrounded, NoCallLost

(* A step that calls nothing and ends the stage.                           *)
LEMMA QuietEnd ==
  ASSUME TypeOK, GroundInv, pc # "done", NEW o, Grounded(o, executed),
         Conclude(o, executed), UNCHANGED called
  PROVE  GroundInv'
<1>1. pc' = "done"
  BY DEF Conclude
<1>2. Len(called') - Len(called) = 0
  BY Domains
<1>3. ResultGrounded' /\ NoCallLost'
  BY <1>2, EndingGround DEF GroundInv
<1>4. CalledForReason'
  BY DEF GroundInv, CalledForReason
<1> QED
  BY <1>1, <1>3, <1>4 DEF GroundInv, Answers, RoundReasons

(* What a reason may cite is of the Snapshot or of an earlier round.       *)
LEMMA AvailableIsKnown ==
  ASSUME TypeOK, CallsInv, GroundInv, pc = "propose"
  PROVE  Available(executed) \subseteq KnownBefore(round)
<1> SUFFICES ASSUME NEW i \in DOMAIN executed, NEW id \in executed[i].evidence
             PROVE  id \in KnownBefore(round)
  BY DEF Available, KnownBefore
<1>1. /\ Len(executed) = Len(called) /\ id = called[i].key
  BY DEF GroundInv, Answers
<1>2. i \in DOMAIN called
  BY <1>1, Domains
<1>3. called[i].round <= round /\ called[i].round # round
  BY <1>2 DEF CallsInv, RoundsInOrder, CallsOf
<1>4. called[i].round < round
  BY <1>2, <1>3, Domains
<1> QED
  BY <1>1, <1>2, <1>4 DEF KnownBefore

LEMMA ProposeGround ==
  TypeOK /\ CallsInv /\ GroundInv /\ Propose => GroundInv'
<1> SUFFICES ASSUME TypeOK, CallsInv, GroundInv, Propose PROVE GroundInv'
  OBVIOUS
<1>1. pc = "propose" /\ UNCHANGED <<round, executed, called>>
  BY DEF Propose
<1>2. CASE Fallback(executed)
  BY <1>1, <1>2, QuietEnd, UnclassifiedIsGrounded DEF Fallback
<1>3. CASE \E b \in Batches, o \in Outputs :
             ValidProposal(b, o, executed) /\ Conclude(o, executed)
  BY <1>1, <1>3, QuietEnd DEF ValidProposal
<1>4. CASE \E b \in Batches, o \in Outputs :
             /\ ValidProposal(b, o, executed)
             /\ pc' = "execute" /\ batch' = b /\ UNCHANGED result
  <2>1. KnownBefore(round)' = KnownBefore(round)
    BY <1>1 DEF KnownBefore
  <2>2. RoundReasons'
    BY <1>1, <1>4, <2>1, AvailableIsKnown DEF RoundReasons, ValidProposal
  <2> QED
    BY <1>1, <1>4, <2>2 DEF GroundInv, Answers, CalledForReason,
                            ResultGrounded, NoCallLost
<1>5. CASE pc' = "summarize" /\ UNCHANGED <<batch, result>>
  BY <1>1, <1>5 DEF GroundInv, Answers, RoundReasons, CalledForReason,
                    ResultGrounded, NoCallLost
<1> QED
  BY <1>2, <1>3, <1>4, <1>5 DEF Propose

(* A call keeps what was known before its round, and has a reason in it.   *)
LEMMA CallHasReason ==
  ASSUME TypeOK, CallsInv, GroundInv, pc = "execute",
         called' = Append(called, [key |-> Head(batch).key,
                                   cited |-> Head(batch).cited,
                                   round |-> round])
  PROVE  /\ round' = round => KnownBefore(round) \subseteq KnownBefore(round)'
         /\ CalledForReason'
<1> DEFINE n == Len(called)
<1>1. /\ n \in Nat /\ DOMAIN called = 1..n /\ DOMAIN called' = 1..(n + 1)
      /\ \A i \in 1..n : called'[i] = called[i]
      /\ called'[n + 1].round = round
  BY CallIsRecorded
<1>2. called'[n + 1].cited = Head(batch).cited
  <2>1. [key |-> Head(batch).key, cited |-> Head(batch).cited,
         round |-> round] \in Calls /\ called \in Seq(Calls)
    BY BatchParts DEF TypeOK, Calls, Requests
  <2> QED
    BY <2>1, AppendProperties
<1>3. Head(batch).cited \in KnownBefore(round)
  BY BatchParts DEF GroundInv, RoundReasons
<1> HIDE DEF n
<1>4. ASSUME NEW r PROVE KnownBefore(r) \subseteq
        SnapshotIds \cup {called'[j].key : j \in {k \in DOMAIN called' :
                                                called'[k].round < r}}
  <2>1. \A j \in {k \in DOMAIN called : called[k].round < r} :
          /\ j \in {k \in DOMAIN called' : called'[k].round < r}
          /\ called'[j].key = called[j].key
    BY <1>1
  <2> QED
    BY <2>1 DEF KnownBefore
<1>5. round' = round => KnownBefore(round) \subseteq KnownBefore(round)'
  BY <1>4 DEF KnownBefore
<1>6. ASSUME NEW i \in DOMAIN called'
      PROVE  called'[i].cited \in
               SnapshotIds \cup {called'[j].key : j \in {k \in DOMAIN called' :
                                     called'[k].round < called'[i].round}}
  <2>1. CASE i = n + 1
    BY <1>1, <1>2, <1>3, <1>4, <2>1
  <2>2. CASE i # n + 1
    <3>1. i \in DOMAIN called /\ called'[i] = called[i]
      BY <1>1, <2>2
    <3>2. called[i].cited \in KnownBefore(called[i].round)
      BY <3>1 DEF GroundInv, CalledForReason, KnownBefore
    <3> QED
      BY <1>4, <3>1, <3>2
  <2> QED
    BY <2>1, <2>2
<1> QED
  BY <1>5, <1>6 DEF CalledForReason

(* A Tool answers, with its Evidence or with none, and the loop goes on.   *)
LEMMA AnswerGround ==
  ASSUME TypeOK, CallsInv, GroundInv, pc = "execute",
         called' = Append(called, [key |-> Head(batch).key,
                                   cited |-> Head(batch).cited,
                                   round |-> round]),
         NEW evidence \in {{}, {Head(batch).key}},
         executed' = Append(executed, [key |-> Head(batch).key,
                                       evidence |-> evidence]),
         Continue(Tail(batch)), UNCHANGED result
  PROVE  GroundInv'
<1> DEFINE n == Len(called)
           answer == [key |-> Head(batch).key, evidence |-> evidence]
<1>1. /\ n \in Nat /\ Len(called') = n + 1 /\ DOMAIN called = 1..n
      /\ \A i \in 1..n : called'[i] = called[i]
      /\ called'[n + 1].key = Head(batch).key
  BY CallIsRecorded
<1>2. /\ Len(executed) = n /\ DOMAIN executed = 1..n
      /\ \A i \in 1..n : /\ executed[i].key = called[i].key
                         /\ executed[i].evidence \subseteq {executed[i].key}
  BY Domains DEF GroundInv, Answers
<1>3. executed \in Seq(ToolResults) /\ answer \in ToolResults
  BY BatchParts DEF TypeOK, ToolResults, Requests
<1>4. /\ executed' \in Seq(ToolResults) /\ Len(executed') = n + 1
      /\ \A i \in 1..n : executed'[i] = executed[i]
      /\ executed'[n + 1] = answer
  BY <1>2, <1>3, AppendProperties
<1>5. DOMAIN executed' = 1..(n + 1)
  BY <1>4, LenProperties
<1>6. Answers'
  <2> SUFFICES ASSUME NEW i \in 1..(n + 1)
               PROVE  /\ executed'[i].key = called'[i].key
                      /\ executed'[i].evidence \subseteq {executed'[i].key}
    BY <1>1, <1>4, <1>5 DEF Answers
  <2>1. CASE i = n + 1
    BY <1>1, <1>4, <2>1
  <2>2. CASE i # n + 1
    BY <1>1, <1>2, <1>4, <2>2
  <2> QED
    BY <2>1, <2>2
<1>7. RoundReasons'
  <2> SUFFICES ASSUME pc' = "execute" PROVE RoundReasons'
    BY DEF RoundReasons
  <2>1. Tail(batch) # <<>> /\ batch' = Tail(batch) /\ round' = round
    BY DEF Continue
  <2>2. KnownBefore(round) \subseteq KnownBefore(round)'
    BY <2>1, CallHasReason
  <2>3. \A i \in DOMAIN Tail(batch) : Tail(batch)[i].cited \in KnownBefore(round)
    <3>1. \A i \in 1..Len(Tail(batch)) :
            i + 1 \in DOMAIN batch /\ Tail(batch)[i] = batch[i + 1]
      BY BatchParts
    <3> QED
      BY <3>1, BatchParts DEF GroundInv, RoundReasons
  <2> QED
    BY <2>1, <2>2, <2>3 DEF RoundReasons
<1>8. pc' \in {"execute", "propose", "summarize"}
  BY BatchParts, ContinueKeepsTypes
<1> QED
  BY <1>6, <1>7, <1>8, CallHasReason DEF GroundInv, ResultGrounded, NoCallLost

LEMMA ExecuteGround ==
  TypeOK /\ CallsInv /\ GroundInv /\ Execute => GroundInv'
<1> SUFFICES ASSUME TypeOK, CallsInv, GroundInv, Execute PROVE GroundInv'
  OBVIOUS
<1>1. pc = "execute" /\ Head(batch).key \in Allowed \ seen
  BY BatchParts DEF Execute, CallsInv, RoundPermitted
<1>2. called' = Append(called, [key |-> Head(batch).key,
                                cited |-> Head(batch).cited, round |-> round])
  BY <1>1 DEF Execute
<1>3. CASE Fallback(executed)
  <2>1. pc' = "done" /\ Conclude(Unclassified, executed)
    BY <1>3 DEF Fallback, Conclude
  <2>2. Len(called') - Len(called) = 1
        /\ \A i \in DOMAIN called : called'[i] = called[i]
    BY <1>1, <1>2, CallIsRecorded
  <2>3. ResultGrounded' /\ NoCallLost'
    BY <1>1, <2>1, <2>2, EndingGround, UnclassifiedIsGrounded DEF GroundInv
  <2> QED
    BY <1>1, <1>2, <2>1, <2>3, CallHasReason
       DEF GroundInv, Answers, RoundReasons
<1>4. CASE /\ \E evidence \in {{}, {Head(batch).key}} :
                executed' = Append(executed, [key |-> Head(batch).key,
                                              evidence |-> evidence])
           /\ Continue(Tail(batch)) /\ UNCHANGED result
  BY <1>1, <1>2, <1>4, AnswerGround
<1> QED
  BY <1>3, <1>4 DEF Execute

LEMMA NextGround ==
  TypeOK /\ CallsInv /\ GroundInv /\ [Next]_vars => GroundInv'
<1> SUFFICES ASSUME TypeOK, CallsInv, GroundInv, [Next]_vars PROVE GroundInv'
  OBVIOUS
<1>1. CASE UnknownAlarm \/ SummarizeSnapshot
  <2>1. pc = "start" /\ executed = <<>> /\ UNCHANGED called
    BY <1>1 DEF UnknownAlarm, SummarizeSnapshot, GroundInv
  <2>2. PICK o : Grounded(o, executed) /\ Conclude(o, executed)
    BY <1>1, <2>1, UnclassifiedIsGrounded
       DEF UnknownAlarm, SummarizeSnapshot, Fallback
  <2> QED
    BY <2>1, <2>2, QuietEnd
<1>2. CASE Summarize
  <2>1. pc = "summarize" /\ UNCHANGED called
    BY <1>2 DEF Summarize
  <2>2. PICK o : Grounded(o, executed) /\ Conclude(o, executed)
    BY <1>2, UnclassifiedIsGrounded DEF Summarize, Fallback
  <2> QED
    BY <2>1, <2>2, QuietEnd
<1>3. CASE StartHybrid
  BY <1>3 DEF StartHybrid, GroundInv, Answers, RoundReasons, CalledForReason,
              ResultGrounded, NoCallLost
<1>4. CASE UNCHANGED vars
  BY <1>4 DEF vars, GroundInv, Answers, RoundReasons, KnownBefore,
              CalledForReason, ResultGrounded, NoCallLost
<1> QED
  BY <1>1, <1>2, <1>3, <1>4, ProposeGround, ExecuteGround
     DEF Next, Step, Returned

(* The inductive invariant of reasons and results.                         *)
THEOREM GroundInvariant == Spec => []GroundInv
<1> QED
  BY AgentTyping, CallsInvariant, InitGround, NextGround, PTL DEF Spec

(* Every call goes out for Evidence known before its round, whatever the   *)
(* planner cites and whichever Tool failed before.                         *)
THEOREM Reasons == Spec => []CalledForReason
<1>1. GroundInv => CalledForReason
  BY DEF GroundInv
<1> QED
  BY <1>1, GroundInvariant, PTL

(* However the stage ends, the Investigation cites only Evidence that it   *)
(* carries.                                                                *)
THEOREM Grounding == Spec => []ResultGrounded
<1>1. GroundInv => ResultGrounded
  BY DEF GroundInv
<1> QED
  BY <1>1, GroundInvariant, PTL

(* However the stage ends, the Investigation reports the calls that were   *)
(* answered, in order; one may have gone out without an answer.            *)
THEOREM CallsReported == Spec => []NoCallLost
<1>1. GroundInv => NoCallLost
  BY DEF GroundInv
<1> QED
  BY <1>1, GroundInvariant, PTL
=============================================================================
