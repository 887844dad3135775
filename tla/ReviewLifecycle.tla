-------------------------- MODULE ReviewLifecycle --------------------------
(***************************************************************************)
(* cli._review_package, run by several processes for the same immutable    *)
(* package: take the package lock, create the record or open the one that  *)
(* is there, close it when its owner died, otherwise set up the reviewers, *)
(* execute the plan and record one terminal event.  The `summary` command  *)
(* runs beside them and takes no lock.  A process may be killed, or get an *)
(* OSError, between any two file operations.                               *)
(*                                                                         *)
(* execute_plan is abstracted to the reviewer calls, the events and the    *)
(* exits it may produce; module Orchestration has it in full.              *)
(***************************************************************************)
EXTENDS ArtifactStore

CONSTANTS PlainPayload,  \* whether a finding's text is free of odd line ends
          MaxEvents,     \* bound: events after which only closing ones follow
          MaxFaults,     \* bound: processes killed and OSErrors raised
          MaxEdits       \* bound: removals of summary.md by the user

ASSUME PayloadAssumption == PlainPayload \subseteq BOOLEAN
ASSUME BoundAssumption == {MaxEvents, MaxFaults, MaxEdits} \subseteq Nat

VARIABLES lock,      \* the process that holds the flock
          pc,        \* where each process is
          called,    \* the runs that have called a reviewer (history)
          faults,    \* kills and OSErrors so far
          edits      \* removals so far

vars == <<files, calls, lock, pc, called, faults, edits>>

(* The points of _review_package, each inside the lock; at the points in   *)
(* Recording a record_event call may be under way.                         *)
Recording == {"prior-error", "prior-terminal", "package", "bindings",
              "setup-error", "setup-terminal", "executing", "unstaffed", "terminal"}
Locked == {"creating", "loading"} \cup Recording
Ended == {"returned", "refused", "lost", "failed", "crashed"}

TypeOK == /\ StoreTypeOK
          /\ lock \in Runs \cup {NoRun}
          /\ pc \in [Procs -> {"idle", "waiting", "regenerating"} \cup Locked \cup Ended]
          /\ \A p \in Readers : pc[p] \in {"idle", "regenerating"} \cup Ended
          /\ called \subseteq Runs
          /\ faults \in Nat
          /\ edits \in Nat

Init == /\ StoreInit
        /\ lock = NoRun
        /\ pc = [p \in Procs |-> "idle"]
        /\ called = {}
        /\ faults = 0
        /\ edits = 0

Closed == \E i \in 1..Len(events) : events[i].phase = "terminal"

Goto(p, point) == pc' = [pc EXCEPT ![p] = point]

(* Mutant of Exit: the lock is not released.                               *)
ExitHoldingLock(p, end) == Goto(p, end) /\ UNCHANGED lock

(* The process leaves the `with acquire_package_lock` block, if it is in it. *)
Exit(p, end) == /\ Goto(p, end)
                /\ lock' = IF lock = p THEN NoRun ELSE lock

RecordEvent(p, phase, outcome) ==
  Begin(p, [phase |-> phase, by |-> p, outcome |-> outcome, plain |-> TRUE])

At(p, point) == pc[p] = point /\ op[p] = "none"

(* The record_event calls that follow one another: the event recorded at   *)
(* one point is complete, the next point's begins.                         *)
Follow(p, from, to, phase, outcome) ==
  /\ At(p, from)
  /\ Goto(p, to)
  /\ RecordEvent(p, phase, outcome)
  /\ UNCHANGED <<files, lock, called, faults, edits>>

-----------------------------------------------------------------------------
(* Mutants: each differs from the action it is named after as a slip in    *)
(* the code would, and makes a property below fail.                        *)

(* A closed record is not recognised.                                      *)
LoadUnchecked(p) ==
  /\ pc[p] = "loading" /\ Readable
  /\ \/ owner = p /\ Goto(p, "package") /\ RecordEvent(p, "package", "none")
     \/ owner # p /\ Goto(p, "prior-error") /\ RecordEvent(p, "execution-error", "none")
  /\ UNCHANGED <<files, lock, called, faults, edits>>

(* A record left open is reviewed again.                                   *)
LoadResuming(p) ==
  /\ pc[p] = "loading" /\ Readable
  /\ \/ Closed /\ Exit(p, "returned") /\ UNCHANGED calls
     \/ ~Closed /\ Goto(p, "package") /\ RecordEvent(p, "package", "none") /\ UNCHANGED lock
  /\ UNCHANGED <<files, called, faults, edits>>

(* A record left open is returned as it is.                                *)
LoadReturning(p) ==
  /\ pc[p] = "loading" /\ Readable
  /\ \/ owner # p /\ Exit(p, "returned") /\ UNCHANGED calls
     \/ owner = p /\ Goto(p, "package") /\ RecordEvent(p, "package", "none") /\ UNCHANGED lock
  /\ UNCHANGED <<files, called, faults, edits>>

ClosePriorIncomplete(p) ==
  Follow(p, "prior-error", "prior-terminal", "terminal", "INCOMPLETE")

CloseSetupFailed(p) == Follow(p, "setup-error", "setup-terminal", "terminal", "FAILED")

(* The reviewers are executed though no configuration bound them.          *)
ExecuteUnbound(p) == /\ At(p, "bindings") \/ At(p, "package")
                     /\ Goto(p, "executing")
                     /\ UNCHANGED <<files, calls, lock, called, faults, edits>>

(* A setup failure returns without its terminal event.                     *)
ReturnEarly(p) == /\ \/ At(p, "setup-error")
                     \/ At(p, "terminal")
                  /\ Exit(p, "returned")
                  /\ UNCHANGED <<files, calls, called, faults, edits>>

-----------------------------------------------------------------------------
Start(p) == /\ pc[p] = "idle"
            /\ Goto(p, "waiting")
            /\ UNCHANGED <<files, calls, lock, called, faults, edits>>

(* flock(LOCK_EX) returns; create() makes its staging directory.           *)
Acquire(p) == /\ pc[p] = "waiting"
              /\ lock = NoRun
              /\ lock' = p
              /\ Goto(p, "creating")
              /\ Stage(p)
              /\ UNCHANGED <<calls, called, faults, edits>>

(* The package or the configuration holds secret material.                 *)
Reject(p) == /\ pc[p] = "creating"
             /\ DiscardStaged(p)
             /\ Exit(p, "failed")
             /\ UNCHANGED <<calls, called, faults, edits>>

Publish(p) == /\ pc[p] = "creating"
              /\ \/ PublishStaged(p)
                 \/ Published /\ DiscardStaged(p)
              /\ Goto(p, "loading")
              /\ UNCHANGED <<calls, lock, called, faults, edits>>

(* store.events() decides: return a closed record, close an open one that  *)
(* this process did not create, start a new one.                           *)
Load(p) ==
  /\ pc[p] = "loading"
  /\ \/ /\ ~Readable
        /\ Exit(p, "refused")
        /\ UNCHANGED calls
     \/ /\ Readable /\ Closed
        /\ Exit(p, "returned")
        /\ UNCHANGED calls
     \/ /\ Readable /\ ~Closed /\ owner # p
        /\ Goto(p, "prior-error")
        /\ RecordEvent(p, "execution-error", "none")
        /\ UNCHANGED lock
     \/ /\ Readable /\ ~Closed /\ owner = p
        /\ Goto(p, "package")
        /\ RecordEvent(p, "package", "none")
        /\ UNCHANGED lock
  /\ UNCHANGED <<files, called, faults, edits>>

ClosePrior(p) == Follow(p, "prior-error", "prior-terminal", "terminal", "ESCALATE")

(* With a configuration that selects the plan's roles, its bindings are    *)
(* recorded; a role it does not select is a setup failure.                 *)
Configure(p) == \/ Follow(p, "package", "bindings", "configured-bindings", "none")
                \/ Follow(p, "package", "setup-error", "execution-error", "none")

(* A credential cannot be resolved or an adapter refuses its binding.      *)
SetupFails(p) == Follow(p, "bindings", "setup-error", "execution-error", "none")

CloseSetup(p) == Follow(p, "setup-error", "setup-terminal", "terminal", "ESCALATE")

(* execute_plan starts, with every reviewer or, when no configuration was  *)
(* given, with none.                                                       *)
Execute(p) == /\ \/ At(p, "bindings") /\ Goto(p, "executing")
                 \/ At(p, "package") /\ Goto(p, "unstaffed")
              /\ UNCHANGED <<files, calls, lock, called, faults, edits>>

CallReviewers(p) == /\ At(p, "executing")
                    /\ called' = called \cup {p}
                    /\ UNCHANGED <<files, calls, lock, pc, faults, edits>>

(* The plan, the first pass, a decision, ...: any event before the last.   *)
RecordPhase(p) ==
  /\ At(p, "executing") \/ At(p, "unstaffed")
  /\ Len(events) < MaxEvents
  /\ \E plain \in PlainPayload, phase \in {"body", "challenge-response"} :
        /\ phase = "challenge-response" => p \in called
        /\ Begin(p, [phase |-> phase, by |-> p, outcome |-> "none", plain |-> plain])
  /\ UNCHANGED <<files, lock, pc, called, faults, edits>>

Finish(p) ==
  \/ \E outcome \in Outcomes :
        /\ p \in called \/ outcome \in {"ESCALATE", "INCOMPLETE"}
        /\ Follow(p, "executing", "terminal", "terminal", outcome)
  \/ \E outcome \in {"ESCALATE", "INCOMPLETE"} :
        Follow(p, "unstaffed", "terminal", "terminal", outcome)

(* execute_plan raises: a dispute or a decision does not validate.         *)
Abort(p) == /\ At(p, "executing")
            /\ p \in called
            /\ Exit(p, "failed")
            /\ UNCHANGED <<files, calls, called, faults, edits>>

Return(p) == /\ \/ At(p, "prior-terminal")
                \/ At(p, "setup-terminal")
                \/ At(p, "terminal")
             /\ Exit(p, "returned")
             /\ UNCHANGED <<files, calls, called, faults, edits>>

-----------------------------------------------------------------------------
(* An exception leaves the file operation under way: inside the setup try  *)
(* block it becomes a setup failure; while the answer to a challenge is    *)
(* recorded it becomes one more challenge-response, whose status is        *)
(* unavailable; else it ends the process.                                  *)
RecoverWith(p, phase) == /\ op' = [op EXCEPT ![p] = "append"]
                     /\ pend' = [pend EXCEPT ![p] = [NoEvent EXCEPT !.phase = phase,
                                                                   !.by = p]]
                     /\ buf' = [buf EXCEPT ![p] = <<>>]
                     /\ fd' = [fd EXCEPT ![p] = "none"]
                     /\ UNCHANGED lock

Answering(p) == pc[p] = "executing" /\ pend[p].phase = "challenge-response"

Throw(p, end) ==
  \/ /\ pc[p] = "bindings"
     /\ Goto(p, "setup-error")
     /\ RecoverWith(p, "execution-error")
  \/ /\ Answering(p)
     /\ RecoverWith(p, "challenge-unavailable")
     /\ UNCHANGED pc
  \/ /\ pc[p] # "bindings"
     /\ EndCall(p)
     /\ Exit(p, end)

(* An OSError: no space, no permission, no such file.                      *)
Raise(p) ==
  /\ faults < MaxFaults
  /\ faults' = faults + 1
  /\ \/ /\ pc[p] = "creating"
        /\ DiscardStaged(p)
        /\ Exit(p, "failed")
        /\ UNCHANGED calls
     \/ /\ op[p] # "none" \/ pc[p] = "loading"
        /\ PartialAppend(p)
        /\ Throw(p, "failed")
        /\ UNCHANGED temps
  /\ UNCHANGED <<called, edits>>

(* The process is killed: the kernel frees the flock, nobody cleans up.    *)
Crash(p) == /\ faults < MaxFaults
            /\ faults' = faults + 1
            /\ pc[p] \notin {"idle"} \cup Ended
            /\ PartialAppend(p)
            /\ EndCall(p)
            /\ Exit(p, "crashed")
            /\ UNCHANGED <<temps, called, edits>>

(* A rebuild meets an events.jsonl that does not parse.                    *)
Unreadable(p) == /\ op[p] = "rebuild"
                 /\ ~Readable
                 /\ Throw(p, "refused")
                 /\ UNCHANGED <<files, called, faults, edits>>

(* The report was removed after the look at it: os.open, which does not     *)
(* create it, raises FileNotFoundError.                                    *)
Vanished(p) == /\ op[p] = "open"
               /\ summary = NoFile
               /\ Throw(p, "lost")
               /\ UNCHANGED <<files, called, faults, edits>>

Store(p) == StoreStep(p) /\ UNCHANGED <<lock, pc, called, faults, edits>>

-----------------------------------------------------------------------------
(* `review-fabric summary DIRECTORY`: regenerate_summary() with no lock.   *)
Summarize(p) == /\ pc[p] = "idle"
                /\ Published
                /\ Goto(p, "regenerating")
                /\ BeginRebuild(p)
                /\ UNCHANGED <<files, lock, called, faults, edits>>

Summarized(p) == /\ At(p, "regenerating")
                 /\ Goto(p, "returned")
                 /\ UNCHANGED <<files, calls, lock, called, faults, edits>>

EditSummary == /\ edits < MaxEdits
               /\ edits' = edits + 1
               /\ RemoveSummary
               /\ UNCHANGED <<lock, pc, called, faults>>

RunStep(p) == \/ Acquire(p) \/ Reject(p) \/ Publish(p) \/ Load(p)
              \/ ClosePrior(p) \/ Configure(p) \/ SetupFails(p) \/ CloseSetup(p)
              \/ Execute(p) \/ CallReviewers(p) \/ RecordPhase(p)
              \/ Finish(p) \/ Abort(p) \/ Return(p)

Next == \/ \E p \in Runs : Start(p) \/ RunStep(p)
        \/ \E p \in Readers : Summarize(p) \/ Summarized(p)
        \/ \E p \in Procs : Store(p) \/ Unreadable(p) \/ Vanished(p) \/ Raise(p) \/ Crash(p)
        \/ EditSummary

Spec == Init /\ [][Next]_vars

(* The operating system schedules every process and flock wakes a waiter;  *)
(* nothing forces an invocation, a fault or a removal to happen.           *)
Progress(p) == \/ p \in Runs /\ RunStep(p)
               \/ p \in Readers /\ Summarized(p)
               \/ Store(p)
               \/ Unreadable(p)
               \/ Vanished(p)

FairSpec == Spec /\ \A p \in Procs : WF_vars(Progress(p))

-----------------------------------------------------------------------------
(* Reviewers are paid for and shown the code by one run at most, the one   *)
(* that created the record, whoever dies and whoever comes back.           *)
AtMostOneExecution == called \subseteq {owner}

(* An automatic verdict was recorded by the owner, after its reviewers'    *)
(* bindings, with no other process's event between.                        *)
VerdictIsBacked ==
  \A i \in 1..Len(events) :
     events[i].outcome \in {"ACCEPT", "CHANGE"} =>
        /\ owner \in called
        /\ \A j \in 1..i : events[j].by = owner
        /\ \E j \in 1..i : events[j].phase = "configured-bindings"

(* A run that prints the record's directory leaves it closed.              *)
ReturnedIsClosed == \A p \in Runs : pc[p] = "returned" => Closed

(* A closed record never changes: no later process writes to its events.   *)
ClosedIsFinal == [][Closed => UNCHANGED <<owner, events, torn>>]_vars

(* With nobody writing, the report is the one regenerate_summary() would   *)
(* produce, or missing, as long as nothing failed and no summary command   *)
(* interfered: whenever the user removes it, also between the look at it   *)
(* and its opening, no line is lost from a report that is there, although  *)
(* that one removal may end the run.                                       *)
SummaryIsFaithful ==
  /\ Published /\ faults = 0
  /\ \A p \in Procs : op[p] = "none"
  /\ \A p \in Readers : pc[p] = "idle"
  => summary \in {NoFile, Report(events)}

(* A run that returned from a closed record left a report that matches it, *)
(* also when it came after a crash or beside a summary command.            *)
ReturnedIsReported ==
  /\ \A p \in Procs : op[p] = "none"
  /\ \E p \in Runs : pc[p] = "returned"
  => summary \in {NoFile, Report(events)}

(* A report that the user removes heals, as the docstring has it: no run   *)
(* ends because of it. This does not hold of a removal between CheckSummary *)
(* and OpenSummary (README, section 4).                                     *)
RemovalIsSurvived == \A p \in Runs : pc[p] # "lost"

(* A later run closes what a dead one left open; it never refuses.         *)
ResumeCloses == \A p \in Runs : pc[p] # "refused"

(* Every run that waits for the package lock gets through.                 *)
WaitersGetThrough == \A p \in Runs : pc[p] = "waiting" ~> pc[p] \in Ended

(* A record is closed by any run that comes by and is not itself ended by  *)
(* a kill, an exception or a report that goes from under it, unless the    *)
(* file no longer parses.                                                  *)
AbandonedIsClosed ==
  \A p \in Runs :
     pc[p] = "waiting" ~> Closed \/ ~Readable \/ pc[p] \in {"lost", "failed", "crashed"}

-----------------------------------------------------------------------------
(* Why the properties hold: the parts of an inductive invariant.           *)

(* The points after the prior record was opened, of the creating run, and  *)
(* those at which the event under way is the terminal one.                 *)
Prior == {"prior-error", "prior-terminal"}
Owned == Recording \ Prior
Closing == {"prior-terminal", "setup-terminal", "terminal"}

(* Between flock and its release a run is alone.                           *)
LockInv == \A p \in Runs : pc[p] \in Locked <=> lock = p

(* File operations happen inside the calls the points of the code make.    *)
CallInv == \A p \in Procs :
             op[p] # "none" =>
                \/ p \in Runs /\ pc[p] \in Recording
                \/ p \in Readers /\ pc[p] = "regenerating" /\ op[p] # "append"

(* The event about to be written is the one its point announces.           *)
PendInv == \A p \in Runs :
             op[p] = "append" =>
                /\ pend[p].by = p
                /\ pend[p].phase = "terminal" <=> pc[p] \in Closing

(* The code's local `created` agrees with who published the directory.     *)
OwnerInv == \A p \in Runs : /\ pc[p] \in Owned => owner = p
                            /\ pc[p] \in Prior => Published /\ owner # p
                            /\ pc[p] = "loading" => Published

FreshInv == ~Published => events = <<>> /\ ~torn

(* The record has at most one terminal event and nothing after it.         *)
TerminalIsLast ==
  \A i \in 1..Len(events) : events[i].phase = "terminal" => i = Len(events)

(* Once the terminal event is in, the lock holder has nothing to append.   *)
OpenInv == \A p \in Runs :
             pc[p] \in Recording /\ Closed => pc[p] \in Closing /\ op[p] # "append"

LifecycleInv == /\ TypeOK
                /\ LockInv
                /\ CallInv
                /\ PendInv
                /\ OwnerInv
                /\ FreshInv
                /\ OpenInv
                /\ AtMostOneExecution
                /\ TerminalIsLast

-----------------------------------------------------------------------------
(* The refinement mapping: what the files say of the record.               *)
TakenOver == \E i \in 1..Len(events) : events[i].by # owner

RecordStage == IF ~Published THEN "absent"
               ELSE IF Closed THEN "closed"
               ELSE IF TakenOver THEN "closing" ELSE "running"

RecordVerdict == IF Closed THEN events[Len(events)].outcome ELSE "none"

(* Why the refinement holds: nobody else wrote while the creator runs, a   *)
(* closing run has already announced itself, and a verdict about to be     *)
(* recorded has reviewers behind it.                                       *)
SoleWriter(p) ==
  /\ pc[p] \in {"idle", "waiting", "creating"} => owner # p
  /\ pc[p] \in {"loading"} \cup Owned /\ owner = p => ~TakenOver

Announced(p) ==
  pc[p] = "prior-terminal" \/ (pc[p] = "prior-error" /\ op[p] # "append") => TakenOver

OutcomeBacked(p) ==
  op[p] = "append" =>
     /\ pc[p] \in Closing => pend[p].outcome \in Outcomes
     /\ pc[p] = "prior-terminal" => pend[p].outcome = "ESCALATE"
     /\ pend[p].outcome \in {"ACCEPT", "CHANGE"} => p \in called

HistoryInv == \A p \in Runs : SoleWriter(p) /\ Announced(p) /\ OutcomeBacked(p)

(* Why the other two hold: the creator's reviewers were bound on record    *)
(* before they were called, and a run past its terminal line has closed    *)
(* the record.                                                             *)
BindingsRecorded == \E i \in 1..Len(events) : events[i].phase = "configured-bindings"

BoundFirst(p) ==
  /\ pc[p] = "bindings" /\ op[p] = "append" => pend[p].phase = "configured-bindings"
  /\ \/ p \in called \/ pc[p] = "executing"
     \/ pc[p] = "bindings" /\ op[p] # "append"
     => BindingsRecorded

ClosedBehind(p) ==
  pc[p] = "returned" \/ (pc[p] \in Closing /\ op[p] # "append") => Closed

ReturnInv == VerdictIsBacked /\ \A p \in Runs : BoundFirst(p) /\ ClosedBehind(p)

(* Why the report is faithful: as long as nothing failed and no summary    *)
(* command ran, a call knows what the report holds that it is about to     *)
(* write, unless the user removed it.                                      *)
Quiet == faults = 0 /\ \A p \in Readers : pc[p] = "idle"

Updating(p) ==
  /\ op[p] \in {"extend", "open"} =>
        events # <<>> /\ (summary # NoFile => events = Append(summary, pend[p]))
  /\ op[p] = "write" =>
        IF fd[p] = "live" THEN events = Append(summary, pend[p]) ELSE summary = NoFile
  /\ op[p] = "read" => events = <<pend[p]>> /\ summary \in {NoFile, <<Placeholder>>}
  /\ op[p] = "rebuild" => events # <<>> /\ summary = NoFile
  /\ op[p] = "replace" => events # <<>> /\ buf[p] = events

UpToDate == (\A p \in Runs : op[p] \in {"none", "append"}) => summary \in {NoFile, Report(events)}

ReportInv == Quiet /\ Published => ~torn /\ UpToDate /\ \A p \in Runs : Updating(p)

Record == INSTANCE ReviewRecord
            WITH stage <- RecordStage, asked <- called, verdict <- RecordVerdict

(* The files and the processes that share them keep the promises of        *)
(* ReviewRecord: claimed once, asked about by the claimant only, taken     *)
(* over only to be closed as ESCALATE, closed once.                        *)
ImplementsRecord == Record!Spec
=============================================================================
