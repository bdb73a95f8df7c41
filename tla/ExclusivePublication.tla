------------------------ MODULE ExclusivePublication ------------------------
(***************************************************************************)
(* What the Investigator promises about one EventBridge event, with no     *)
(* table, lease, queue or process in sight: at any time at most one        *)
(* attempt works on the incident; only that attempt touches S3, GitHub and *)
(* Slack; whatever it publishes there rests on the bundle it has stored;   *)
(* and once the incident is complete, after an Issue and a normal Slack    *)
(* brief of the completing attempt exist, nothing is published again.      *)
(***************************************************************************)
EXTENDS Naturals

VARIABLES
  holders,   \* the attempts at work on the incident
  complete,  \* the incident is published and closed to further attempts
  bundle,    \* the attempt whose Incident Bundle S3 holds, 0 if none
  issues,    \* the attempts that created a GitHub Issue
  messages   \* the Slack messages delivered: [attempt, brief]

vars == <<holders, complete, bundle, issues, messages>>

Init ==
  /\ holders = {}
  /\ complete = FALSE
  /\ bundle = 0
  /\ issues = {}
  /\ messages = {}

Acquire(a) ==
  /\ holders = {} /\ ~complete
  /\ holders' = {a}
  /\ UNCHANGED <<complete, bundle, issues, messages>>

StoreBundle(a) ==
  /\ holders = {a} /\ ~complete
  /\ bundle' = a
  /\ UNCHANGED <<holders, complete, issues, messages>>

CreateIssue(a) ==
  /\ holders = {a} /\ ~complete /\ bundle = a
  /\ issues' = issues \cup {a}
  /\ UNCHANGED <<holders, complete, bundle, messages>>

(* A normal brief links the Issue, so one exists; the degraded notice of a *)
(* failed Issue publication needs none.                                    *)
Notify(a, brief) ==
  /\ holders = {a} /\ ~complete /\ bundle = a
  /\ brief => issues # {}
  /\ messages' = messages \cup {[attempt |-> a, brief |-> brief]}
  /\ UNCHANGED <<holders, complete, bundle, issues>>

(* The attempt may learn of its own success late, or never.                *)
Finish(a) ==
  /\ holders = {a} /\ ~complete
  /\ issues # {} /\ [attempt |-> a, brief |-> TRUE] \in messages
  /\ complete' = TRUE
  /\ holders' \in {{}, {a}}
  /\ UNCHANGED <<bundle, issues, messages>>

(* The attempt gives up, ends or dies.                                     *)
Leave ==
  /\ holders' = {}
  /\ UNCHANGED <<complete, bundle, issues, messages>>

(* Every step but Leave is one of the attempt at work, before or after it. *)
Next ==
  \/ \E a \in holders \cup holders' :
       \/ Acquire(a)
       \/ StoreBundle(a)
       \/ CreateIssue(a)
       \/ \E brief \in BOOLEAN : Notify(a, brief)
       \/ Finish(a)
  \/ Leave

Spec == Init /\ [][Next]_vars
=============================================================================
