---------------------------- MODULE ReviewRecord ----------------------------
(***************************************************************************)
(* What the record of one immutable review package promises, whatever the  *)
(* files, locks and crashes underneath: one run claims it and is the only  *)
(* one ever to ask reviewers about it; it is closed at most once; a run    *)
(* that finds it claimed but open may only take it over and close it as    *)
(* ESCALATE; and an automatic verdict needs reviewers to have been asked.  *)
(* ReviewLifecycle (the artifact files and the processes that share them)  *)
(* and Orchestration (the execution of one plan) both implement it.        *)
(***************************************************************************)
CONSTANTS Runs,      \* invocations of the program for this package
          NoRun      \* not a run: nobody has claimed the record

Verdicts == {"ACCEPT", "CHANGE", "ESCALATE", "INCOMPLETE"}

VARIABLES stage,     \* how far the record is
          owner,     \* the run that created it
          asked,     \* the runs that have called a reviewer about it
          verdict    \* its terminal outcome, or "none"

vars == <<stage, owner, asked, verdict>>

Init == /\ stage = "absent"
        /\ owner = NoRun
        /\ asked = {}
        /\ verdict = "none"

(* A run publishes the record before it asks anyone anything.              *)
Claim(r) == /\ stage = "absent"
            /\ stage' = "running"
            /\ owner' = r
            /\ UNCHANGED <<asked, verdict>>

(* Only the owner asks, and only while nobody has taken the record over.   *)
Ask(r) == /\ stage = "running"
          /\ owner = r
          /\ asked' = asked \cup {r}
          /\ UNCHANGED <<stage, owner, verdict>>

(* The owner closes its record; ACCEPT and CHANGE rest on reviewers' work. *)
Decide(r, v) == /\ stage = "running"
                /\ owner = r
                /\ v \in {"ACCEPT", "CHANGE"} => r \in asked
                /\ stage' = "closed"
                /\ verdict' = v
                /\ UNCHANGED <<owner, asked>>

(* Another run finds the record open: its owner died.                      *)
TakeOver(r) == /\ stage = "running"
               /\ owner # r
               /\ stage' = "closing"
               /\ UNCHANGED <<owner, asked, verdict>>

Abandon(r) == /\ stage = "closing"
              /\ owner # r
              /\ stage' = "closed"
              /\ verdict' = "ESCALATE"
              /\ UNCHANGED <<owner, asked>>

Next == \E r \in Runs : \/ Claim(r)
                        \/ Ask(r)
                        \/ \E v \in Verdicts : Decide(r, v)
                        \/ TakeOver(r)
                        \/ Abandon(r)

Spec == Init /\ [][Next]_vars

(* What every such record keeps: whoever asked is its owner, an automatic  *)
(* verdict rests on that, and the verdict is there exactly once closed.    *)
Promised == /\ stage = "absent" => asked = {}
            /\ asked \subseteq {owner}
            /\ verdict \in {"ACCEPT", "CHANGE"} => owner \in asked
            /\ verdict \in Verdicts <=> stage = "closed"
=============================================================================
