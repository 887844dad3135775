----------------------- MODULE ReviewLifecycleProofs -----------------------
(***************************************************************************)
(* Theorems about ReviewLifecycle, for any number of runs and of `summary` *)
(* commands, faults and removals: the lock and the one writer, the record  *)
(* that module ReviewRecord promises, what a run returns, and the report.  *)
(***************************************************************************)
EXTENDS ReviewLifecycle, TLAPS

LEMMA EventTypes ==
  /\ NoEvent \in Event
  /\ \A p \in Runs, phase \in Phases, outcome \in Outcomes \cup {"none"}, plain \in BOOLEAN :
        [phase |-> phase, by |-> p, outcome |-> outcome, plain |-> plain] \in Event
BY DEF NoEvent, Event

(* The types a Recording step's new event and position have.               *)
LEMMA FollowTyping ==
  ASSUME TypeOK, NEW p \in Runs, NEW from, NEW to \in Recording,
         NEW phase \in Phases, NEW outcome \in Outcomes \cup {"none"},
         Follow(p, from, to, phase, outcome)
  PROVE  TypeOK'
BY EventTypes, ProcAssumption DEF Follow, Goto, RecordEvent, Begin, TypeOK, StoreTypeOK, Locked, Procs,
                  files, calls

LEMMA StoreTyping == ASSUME TypeOK, NEW p \in Procs, Store(p) PROVE TypeOK'
<1>. USE DEF TypeOK, StoreTypeOK, files, calls, Store
<1>1. CASE AppendEvent(p)
  BY <1>1 DEF AppendEvent
<1>2. CASE CheckSummary(p) \/ OpenSummary(p)
  BY <1>2 DEF CheckSummary, OpenSummary, BeginRebuild
<1>3. CASE WriteSummary(p)
  BY <1>3, EventTypes DEF WriteSummary, EndCall, Leave
<1>4. CASE ReadSummary(p)
  <2>1. HasPlaceholder => <<pend[p]>> \o Tail(summary) \in Seq(Event)
    BY DEF HasPlaceholder, NoFile
  <2>. QED
    BY <1>4, <2>1 DEF ReadSummary, BeginRebuild
<1>5. CASE LoadEvents(p)
  BY <1>5, EventTypes DEF LoadEvents, Report, Placeholder
<1>6. CASE ReplaceSummary(p)
  BY <1>6, EventTypes DEF ReplaceSummary, Leave, Unlinked
<1>. QED
  BY <1>1, <1>2, <1>3, <1>4, <1>5, <1>6 DEF StoreStep

LEMMA PartialTyping ==
  ASSUME StoreTypeOK, NEW p \in Procs, PartialAppend(p)
  PROVE  owner' = owner /\ summary' = summary /\ events' \in Seq(Event) /\ torn' \in BOOLEAN
<1>1. owner' = owner /\ summary' = summary
  BY DEF PartialAppend
<1>2. events' = events \/ events' = Append(events, pend[p])
  BY Zenon DEF PartialAppend
<1>3. events \in Seq(Event) /\ pend[p] \in Event
  BY DEF StoreTypeOK
<1>4. events' \in Seq(Event)
  BY <1>2, <1>3
<1>5. torn' = TRUE \/ torn' = torn
  BY Zenon DEF PartialAppend
<1>6. torn' \in BOOLEAN
  BY <1>5, Zenon DEF StoreTypeOK
<1>. QED
  BY <1>1, <1>4, <1>6

LEMMA ThrowTyping ==
  ASSUME TypeOK, NEW p \in Procs, NEW end \in Ended, pc[p] \in Recording => p \in Runs,
         Throw(p, end)
  PROVE  /\ pc' \in [Procs -> {"idle", "waiting", "regenerating"} \cup Locked \cup Ended]
         /\ lock' \in Runs \cup {NoRun}
         /\ op' \in [Procs -> {"none", "append", "extend", "open", "write", "read", "rebuild", "replace"}]
         /\ pend' \in [Procs -> Event]
         /\ buf' \in [Procs -> Seq(Event)]
         /\ fd' \in [Procs -> {"none", "live", "stale"}]
<1>. USE DEF TypeOK, StoreTypeOK, Locked, Recording, Ended
<1>1. ASSUME NEW phase \in Phases, p \in Runs
      PROVE [NoEvent EXCEPT !.phase = phase, !.by = p] \in Event
  BY <1>1 DEF NoEvent, Event
<1>2. CASE pc[p] = "bindings" /\ Goto(p, "setup-error") /\ RecoverWith(p, "execution-error")
  BY <1>1, <1>2 DEF RecoverWith, Goto, Phases
<1>3. CASE Answering(p) /\ RecoverWith(p, "challenge-unavailable") /\ UNCHANGED pc
  BY <1>1, <1>3 DEF RecoverWith, Answering, Phases
<1>4. CASE EndCall(p) /\ Exit(p, end)
  BY <1>4, EventTypes DEF EndCall, Leave, Exit, Goto
<1>. QED
  BY <1>2, <1>3, <1>4 DEF Throw

(* Every step that begins a record_event call: at a new point, or again at *)
(* the same one, while the record is open.                                 *)
LEMMA BeginPreserves ==
  ASSUME LifecycleInv, TypeOK', NEW p \in Runs, pc[p] \in Locked,
         NEW to \in Recording, to \in Owned => owner = p, to \in Prior => Published /\ owner # p,
         NEW e \in Event, e.by = p, e.phase = "terminal" <=> to \in Closing,
         ~Closed', FreshInv', TerminalIsLast',
         Goto(p, to),
         op' = [op EXCEPT ![p] = "append"],
         pend' = [pend EXCEPT ![p] = e],
         UNCHANGED <<owner, lock, called>>
  PROVE  LifecycleInv'
<1>. USE DEF Goto
<1>1. LockInv' /\ CallInv'
  BY DEF LifecycleInv, LockInv, CallInv, Locked, TypeOK, StoreTypeOK, Procs
<1>2. PendInv'
  BY DEF LifecycleInv, PendInv, TypeOK, StoreTypeOK, Procs
<1>3. OwnerInv'
  BY DEF LifecycleInv, OwnerInv, Published, Owned, Recording, Prior, TypeOK, Procs
<1>4. OpenInv'
  BY DEF OpenInv
<1>5. AtMostOneExecution'
  BY DEF LifecycleInv, AtMostOneExecution
<1>. QED
  BY <1>1, <1>2, <1>3, <1>4, <1>5 DEF LifecycleInv

LEMMA FollowPreserves ==
  ASSUME LifecycleInv, NEW p \in Runs,
         NEW from \in Recording \ Closing, NEW to \in Recording,
         from \in Prior <=> to \in Prior,
         NEW phase \in Phases, NEW outcome \in Outcomes \cup {"none"},
         phase = "terminal" <=> to \in Closing,
         Follow(p, from, to, phase, outcome)
  PROVE  LifecycleInv'
<1>1. TypeOK'
  BY FollowTyping DEF LifecycleInv
<1>2. pc[p] \in Locked /\ ~Closed'
  BY DEF Follow, At, files, LifecycleInv, OpenInv, Recording, Locked, Closed
<1>3. FreshInv' /\ TerminalIsLast'
  BY DEF Follow, files, LifecycleInv, FreshInv, TerminalIsLast, Published
<1>4. /\ to \in Owned => owner = p
      /\ to \in Prior => Published /\ owner # p
  BY DEF Follow, At, LifecycleInv, OwnerInv, Owned
<1>5. [phase |-> phase, by |-> p, outcome |-> outcome, plain |-> TRUE] \in Event
  BY EventTypes
<1>. QED
  BY <1>1, <1>2, <1>3, <1>4, <1>5, BeginPreserves DEF Follow, RecordEvent, Begin, files

(* Steps that move a run without touching the files or its call, inside or *)
(* out of the lock.                                                        *)
LEMMA MovePreserves ==
  ASSUME LifecycleInv, NEW p \in Runs, NEW to \in {"executing", "unstaffed"} \cup Ended,
         op[p] = "none", pc[p] \in Locked, Closed => to \in Ended,
         to \notin Ended => pc[p] \in Owned,
         UNCHANGED <<owner, events, torn, summary, calls, called, edits>>,
         faults' \in {faults, faults + 1},
         temps' \subseteq temps,
         Goto(p, to),
         lock' = IF to \in Ended THEN NoRun ELSE lock
  PROVE  LifecycleInv'
<1>. USE DEF Goto, calls
<1>1. TypeOK'
  BY ProcAssumption DEF LifecycleInv, TypeOK, StoreTypeOK, Locked, Recording, Procs
<1>2. LockInv'
  BY ProcAssumption DEF LifecycleInv, LockInv, TypeOK, Locked, Recording, Ended, Procs
<1>3. CallInv' /\ PendInv'
  BY DEF LifecycleInv, CallInv, PendInv, TypeOK
<1>4. OwnerInv' /\ FreshInv'
  BY DEF LifecycleInv, OwnerInv, FreshInv, Published, Owned, Recording, Prior, Ended, TypeOK
<1>5. OpenInv'
  BY DEF LifecycleInv, OpenInv, Closed, Recording, Ended, TypeOK, Procs
<1>6. AtMostOneExecution' /\ TerminalIsLast'
  BY DEF LifecycleInv, AtMostOneExecution, TerminalIsLast
<1>. QED
  BY <1>1, <1>2, <1>3, <1>4, <1>5, <1>6 DEF LifecycleInv

LEMMA RunStepPreserves ==
  ASSUME LifecycleInv, NEW p \in Runs, Start(p) \/ RunStep(p)
  PROVE  LifecycleInv'
<1>. USE DEF files, calls
<1>1. ASSUME Start(p) PROVE LifecycleInv'
  <2>. USE <1>1 DEF Start, Goto
  <2>1. TypeOK'
    BY ProcAssumption DEF LifecycleInv, TypeOK, StoreTypeOK, Procs
  <2>2. LockInv' /\ CallInv' /\ PendInv' /\ OwnerInv' /\ FreshInv' /\ OpenInv'
    BY DEF LifecycleInv, LockInv, CallInv, PendInv, OwnerInv, FreshInv, OpenInv, Published,
           Closed, Locked, Recording, Owned, Prior, TypeOK, Procs
  <2>3. AtMostOneExecution' /\ TerminalIsLast'
    BY DEF LifecycleInv, AtMostOneExecution, TerminalIsLast
  <2>. QED
    BY <2>1, <2>2, <2>3 DEF LifecycleInv
<1>2. ASSUME Acquire(p) PROVE LifecycleInv'
  <2>. USE <1>2 DEF Acquire, Goto, Stage
  <2>1. TypeOK'
    BY ProcAssumption DEF LifecycleInv, TypeOK, StoreTypeOK, Procs, Locked
  <2>2. LockInv'
    BY ProcAssumption DEF LifecycleInv, LockInv, TypeOK, Locked, Recording, Procs
  <2>3. CallInv' /\ PendInv' /\ OwnerInv' /\ FreshInv' /\ OpenInv'
    BY DEF LifecycleInv, CallInv, PendInv, OwnerInv, FreshInv, OpenInv, Published,
           Closed, Locked, Recording, Owned, Prior, TypeOK, Procs
  <2>4. AtMostOneExecution' /\ TerminalIsLast'
    BY DEF LifecycleInv, AtMostOneExecution, TerminalIsLast
  <2>. QED
    BY <2>1, <2>2, <2>3, <2>4 DEF LifecycleInv
<1>3. ASSUME Reject(p) PROVE LifecycleInv'
  <2>1. op[p] = "none" /\ lock = p /\ pc[p] \in Locked
    BY <1>3, ProcAssumption DEF Reject, LifecycleInv, CallInv, LockInv, Locked, Recording, Procs,
                                TypeOK, StoreTypeOK
  <2>. QED
    BY <1>3, <2>1, MovePreserves DEF Reject, DiscardStaged, Exit, Goto, Ended
<1>4. ASSUME Publish(p) PROVE LifecycleInv'
  <2>0. StoreTypeOK'
    <3>1. CASE PublishStaged(p)
      <4>1. torn' \in BOOLEAN
        BY <3>1, Zenon DEF PublishStaged
      <4>2. summary' = <<NoEvent>> /\ events' = <<>>
        BY <3>1 DEF PublishStaged, Report, Placeholder
      <4>3. summary' \in Seq(Event) /\ events' \in Seq(Event)
        BY <4>2, EventTypes
      <4>. QED
        BY <1>4, <3>1, <4>1, <4>3 DEF Publish, PublishStaged, LifecycleInv, TypeOK, StoreTypeOK
    <3>2. CASE DiscardStaged(p)
      BY <1>4, <3>2 DEF Publish, DiscardStaged, LifecycleInv, TypeOK, StoreTypeOK
    <3>. QED
      BY <1>4, <3>1, <3>2 DEF Publish
  <2>. USE <1>4 DEF Publish, Goto, PublishStaged, DiscardStaged
  <2>1. TypeOK'
    BY <2>0, ProcAssumption DEF LifecycleInv, TypeOK, Procs, Locked
  <2>2. LockInv' /\ CallInv' /\ PendInv'
    BY DEF LifecycleInv, LockInv, CallInv, PendInv, Locked, Recording, TypeOK, Procs
  <2>3. Published'
    BY ProcAssumption DEF Published
  <2>4. OwnerInv' /\ FreshInv'
    BY <2>3 DEF LifecycleInv, OwnerInv, FreshInv, LockInv, Locked, Recording, Published, Owned, Prior,
           TypeOK, StoreTypeOK, Procs
  <2>5. OpenInv'
    BY DEF LifecycleInv, OpenInv, Closed, Recording, TypeOK, Procs
  <2>6. AtMostOneExecution' /\ TerminalIsLast'
    BY ProcAssumption
    DEF LifecycleInv, AtMostOneExecution, TerminalIsLast, TypeOK, Published
  <2>. QED
    BY <2>1, <2>2, <2>4, <2>5, <2>6 DEF LifecycleInv
<1>5. ASSUME Load(p) PROVE LifecycleInv'
  <2>. USE <1>5 DEF Load
  <2>1. op[p] = "none" /\ lock = p /\ pc[p] \in Locked /\ Published
    BY ProcAssumption DEF LifecycleInv, CallInv, LockInv, OwnerInv, Locked, Recording, Procs,
                          TypeOK, StoreTypeOK
  <2>2. ASSUME NEW end \in {"refused", "returned"}, Exit(p, end), UNCHANGED calls
        PROVE LifecycleInv'
    BY <2>1, <2>2, MovePreserves DEF Exit, Goto, Ended
  <2>3. ASSUME ~Closed, UNCHANGED lock,
               NEW to \in {"prior-error", "package"}, owner = p <=> to = "package",
               NEW phase \in {"execution-error", "package"},
               Goto(p, to), RecordEvent(p, phase, "none")
        PROVE LifecycleInv'
    <3>. DEFINE e == [phase |-> phase, by |-> p, outcome |-> "none", plain |-> TRUE]
    <3>1. e \in Event
      BY EventTypes DEF Phases
    <3>2. TypeOK'
      BY <2>3, <3>1, ProcAssumption
      DEF Goto, RecordEvent, Begin, LifecycleInv, TypeOK, StoreTypeOK, Procs, Locked, Recording
    <3>3. ~Closed' /\ FreshInv' /\ TerminalIsLast'
      BY <2>3 DEF LifecycleInv, Closed, FreshInv, TerminalIsLast, Published
    <3>4. e.phase = "terminal" <=> to \in Closing
      BY DEF Closing
    <3>5. to \in Recording /\ (to \in Owned => owner = p)
          /\ (to \in Prior => Published /\ owner # p)
      BY <2>1, <2>3 DEF Recording, Owned, Prior
    <3>. QED
      BY <2>1, <2>3, <3>1, <3>2, <3>3, <3>4, <3>5, BeginPreserves DEF RecordEvent, Begin
  <2>. QED
    BY <2>2, <2>3
<1>6. ASSUME ClosePrior(p) \/ Configure(p) \/ SetupFails(p) \/ CloseSetup(p) \/ Finish(p)
      PROVE LifecycleInv'
  BY <1>6, FollowPreserves
  DEF ClosePrior, Configure, SetupFails, CloseSetup, Finish, Recording, Closing, Prior, Phases,
      Outcomes
<1>7. ASSUME Execute(p) PROVE LifecycleInv'
  <2>1. ~Closed /\ pc[p] \in Owned /\ op[p] = "none"
    BY <1>7 DEF Execute, At, LifecycleInv, OpenInv, Recording, Closing, Owned, Prior
  <2>. QED
    BY <1>7, <2>1, MovePreserves DEF Execute, At, Owned, Locked, Recording, Ended
<1>8. ASSUME CallReviewers(p) PROVE LifecycleInv'
  <2>1. owner = p
    BY <1>8 DEF CallReviewers, At, LifecycleInv, OwnerInv, Owned, Recording, Prior
  <2>2. TypeOK' /\ AtMostOneExecution'
    BY <1>8, <2>1 DEF CallReviewers, LifecycleInv, AtMostOneExecution, TypeOK, StoreTypeOK
  <2>. QED
    BY <1>8, <2>2
    DEF CallReviewers, LifecycleInv, LockInv, CallInv, PendInv, OwnerInv, FreshInv, OpenInv,
        TerminalIsLast, Published, Closed
<1>9. ASSUME RecordPhase(p) PROVE LifecycleInv'
  <2>1. PICK plain \in PlainPayload, phase \in {"body", "challenge-response"} :
           Begin(p, [phase |-> phase, by |-> p, outcome |-> "none", plain |-> plain])
    BY <1>9 DEF RecordPhase
  <2>. DEFINE e == [phase |-> phase, by |-> p, outcome |-> "none", plain |-> plain]
  <2>2. e \in Event /\ e.by = p /\ e.phase # "terminal"
    BY EventTypes, PayloadAssumption DEF Phases
  <2>3. PICK to \in {"executing", "unstaffed"} : pc[p] = to
    BY <1>9 DEF RecordPhase, At
  <2>4. TypeOK'
    BY <1>9, <2>1, <2>2 DEF RecordPhase, Begin, LifecycleInv, TypeOK, StoreTypeOK
  <2>5. Goto(p, to)
    BY <1>9, <2>3 DEF RecordPhase, Goto, LifecycleInv, TypeOK
  <2>6. ~Closed' /\ FreshInv' /\ TerminalIsLast'
    BY <1>9, <2>3 DEF RecordPhase, LifecycleInv, OpenInv, Closed, Closing, Recording, FreshInv,
                      TerminalIsLast, Published
  <2>7. pc[p] \in Locked /\ to \in Recording /\ to \notin Prior \cup Closing /\ owner = p
    BY <2>3 DEF LifecycleInv, OwnerInv, Locked, Recording, Owned, Prior, Closing
  <2>. QED
    BY <1>9, <2>1, <2>2, <2>4, <2>5, <2>6, <2>7, BeginPreserves DEF RecordPhase, Begin
<1>10. ASSUME Abort(p) \/ Return(p) PROVE LifecycleInv'
  <2>1. pc[p] \in Locked /\ lock = p /\ op[p] = "none"
    BY <1>10 DEF Abort, Return, At, Locked, Recording, LifecycleInv, LockInv
  <2>. QED
    BY <1>10, <2>1, MovePreserves DEF Abort, Return, Exit, Goto, Ended
<1>. QED
  BY <1>1, <1>2, <1>3, <1>4, <1>5, <1>6, <1>7, <1>8, <1>9, <1>10 DEF RunStep

(* What one more line does to the record, whole call or cut short.         *)
LEMMA AppendFacts ==
  ASSUME LifecycleInv, NEW p \in Procs, op[p] = "append",
         events' = Append(events, pend[p]), owner' = owner
  PROVE  /\ p \in Runs /\ pc[p] \in Recording /\ ~Closed
         /\ Closed' => pc[p] \in Closing
         /\ TerminalIsLast' /\ FreshInv'
<1>1. p \in Runs /\ pc[p] \in Recording /\ ~Closed
  BY DEF LifecycleInv, CallInv, OpenInv, Procs
<1>2. Published
  BY <1>1, ProcAssumption DEF LifecycleInv, OwnerInv, Published, Owned, Prior
<1>3. Len(events) \in Nat /\ Len(events') = Len(events) + 1
      /\ \A i \in 1..Len(events') : events'[i] = IF i = Len(events') THEN pend[p] ELSE events[i]
  BY DEF LifecycleInv, TypeOK, StoreTypeOK
<1>4. TerminalIsLast'
  BY <1>1, <1>3 DEF TerminalIsLast, Closed
<1>5. Closed' => pc[p] \in Closing
  BY <1>1, <1>3 DEF LifecycleInv, PendInv, Closed
<1>6. FreshInv'
  BY <1>2 DEF FreshInv, Published
<1>. QED
  BY <1>1, <1>4, <1>5, <1>6

(* A file operation of record_event: only AppendEvent touches the record.  *)
LEMMA StorePreserves ==
  ASSUME LifecycleInv, NEW p \in Procs, Store(p)
  PROVE  LifecycleInv'
<1>. USE DEF Store, files, calls
<1>1. TypeOK'
  BY StoreTyping DEF LifecycleInv
<1>2. LockInv' /\ OwnerInv' /\ AtMostOneExecution'
  BY DEF LifecycleInv, LockInv, OwnerInv, AtMostOneExecution, Published, StoreStep, AppendEvent,
         CheckSummary, OpenSummary, WriteSummary, ReadSummary, LoadEvents, ReplaceSummary
<1>3. /\ op[p] # "none"
      /\ \E next \in {"none", "extend", "open", "write", "read", "rebuild", "replace"} :
            op' = [op EXCEPT ![p] = next]
  BY Zenon DEF StoreStep, AppendEvent, CheckSummary, OpenSummary, WriteSummary,
                ReadSummary, LoadEvents,
         ReplaceSummary, BeginRebuild, EndCall, Leave
<1>4. CallInv' /\ PendInv'
  <2>1. \A q \in Procs \ {p} : pend'[q] = pend[q]
    BY DEF StoreStep, AppendEvent, CheckSummary, OpenSummary, WriteSummary,
                ReadSummary, LoadEvents,
           ReplaceSummary, BeginRebuild, EndCall, Leave, LifecycleInv, TypeOK, StoreTypeOK
  <2>. QED
    BY <1>3, <2>1 DEF LifecycleInv, CallInv, PendInv, TypeOK, StoreTypeOK, Procs
<1>5. CASE op[p] = "append"
  <2>1. events' = Append(events, pend[p]) /\ UNCHANGED <<owner, torn>>
    BY <1>5 DEF StoreStep, AppendEvent, CheckSummary, OpenSummary, WriteSummary,
                ReadSummary, LoadEvents,
                ReplaceSummary
  <2>2. OpenInv'
    BY <1>3, <1>5, <2>1, AppendFacts
    DEF OpenInv, LifecycleInv, LockInv, Locked, TypeOK, StoreTypeOK, Procs
  <2>. QED
    BY <1>1, <1>2, <1>4, <1>5, <2>1, <2>2, AppendFacts DEF LifecycleInv
<1>6. CASE op[p] # "append"
  <2>1. UNCHANGED <<owner, events, torn>>
    BY <1>6 DEF StoreStep, AppendEvent, CheckSummary, OpenSummary, WriteSummary,
                ReadSummary, LoadEvents,
                ReplaceSummary
  <2>2. FreshInv' /\ TerminalIsLast'
    BY <2>1 DEF LifecycleInv, FreshInv, TerminalIsLast, Published
  <2>3. OpenInv'
    BY <1>3, <2>1 DEF LifecycleInv, OpenInv, Closed, TypeOK, StoreTypeOK, Procs
  <2>. QED
    BY <1>1, <1>2, <1>4, <2>2, <2>3 DEF LifecycleInv
<1>. QED
  BY <1>5, <1>6

(* What a call cut short may have done to the record, and what it may not. *)
LEMMA PartialPreserves ==
  ASSUME LifecycleInv, NEW p \in Procs, PartialAppend(p)
  PROVE  /\ FreshInv' /\ TerminalIsLast'
         /\ Closed => events' = events
         /\ Closed' /\ ~Closed => p \in Runs /\ pc[p] \in Closing
<1>1. owner' = owner
  BY DEF PartialAppend
<1>2. CASE events' = events
  <2>1. TerminalIsLast'
    BY <1>2 DEF LifecycleInv, TerminalIsLast
  <2>2. torn' = torn \/ op[p] = "append"
    BY Zenon DEF PartialAppend
  <2>3. op[p] = "append" => Published
    BY ProcAssumption DEF LifecycleInv, CallInv, OwnerInv, Published, Owned, Prior, TypeOK,
                          StoreTypeOK
  <2>4. FreshInv'
    BY <1>1, <1>2, <2>2, <2>3 DEF LifecycleInv, FreshInv, Published
  <2>. QED
    BY <1>2, <2>1, <2>4 DEF Closed
<1>3. CASE op[p] = "append" /\ events' = Append(events, pend[p])
  BY <1>1, <1>3, AppendFacts
<1>. QED
  BY <1>2, <1>3, Zenon DEF PartialAppend

(* The process leaves for good, from wherever it is.                       *)
LEMMA DeathPreserves ==
  ASSUME LifecycleInv, NEW p \in Procs, NEW end \in Ended \ {"returned"},
         PartialAppend(p), temps' = temps, called' = called, faults' \in Nat, edits' \in Nat,
         pc[p] \notin {"idle"} \cup Ended,
         EndCall(p), Exit(p, end)
  PROVE  LifecycleInv'
<1>. USE DEF EndCall, Leave, Exit, Goto
<1>1. FreshInv' /\ TerminalIsLast' /\ owner' = owner
  BY PartialPreserves DEF PartialAppend
<1>2. TypeOK'
  BY EventTypes, PartialTyping, ProcAssumption
  DEF LifecycleInv, TypeOK, StoreTypeOK, Ended, Locked, Recording, Procs
<1>3. LockInv'
  BY ProcAssumption DEF LifecycleInv, LockInv, TypeOK, Locked, Recording, Ended, Procs
<1>4. CallInv' /\ PendInv'
  BY DEF LifecycleInv, CallInv, PendInv, TypeOK, StoreTypeOK, Procs
<1>5. OwnerInv' /\ AtMostOneExecution'
  BY <1>1 DEF LifecycleInv, OwnerInv, AtMostOneExecution, Published, Owned, Recording, Prior,
              TypeOK, Procs, Ended
<1>6. OpenInv'
  <2>1. SUFFICES ASSUME NEW q \in Runs, pc'[q] \in Recording, Closed'
                 PROVE pc'[q] \in Closing /\ op'[q] # "append"
    BY DEF OpenInv
  <2>2. q # p /\ pc'[q] = pc[q] /\ op'[q] = op[q]
    BY <2>1 DEF LifecycleInv, TypeOK, StoreTypeOK, Recording, Procs, Ended
  <2>3. p \notin Runs \/ pc[p] \notin Locked
    BY <2>1, <2>2 DEF LifecycleInv, LockInv, Locked
  <2>4. Closed
    BY <2>1, <2>3, PartialPreserves DEF Locked, Recording, Closing
  <2>. QED
    BY <2>1, <2>2, <2>4 DEF LifecycleInv, OpenInv
<1>. QED
  BY <1>1, <1>2, <1>3, <1>4, <1>5, <1>6 DEF LifecycleInv

(* An exception at any file operation.                                     *)
LEMMA ThrowPreserves ==
  ASSUME LifecycleInv, NEW p \in Procs, NEW end \in {"failed", "refused", "lost"},
         PartialAppend(p), temps' = temps, called' = called, faults' \in Nat, edits' \in Nat,
         op[p] # "none" \/ pc[p] = "loading",
         Throw(p, end)
  PROVE  LifecycleInv'
<1>0. pc[p] \in {"regenerating"} \cup Locked /\ (pc[p] \in Locked => p \in Runs /\ lock = p)
  BY DEF LifecycleInv, CallInv, LockInv, TypeOK, Procs, Locked, Recording, Ended
<1>1. TypeOK'
  <2>1. StoreTypeOK'
    BY <1>0, PartialTyping, ThrowTyping DEF LifecycleInv, TypeOK, StoreTypeOK, Ended, Locked
  <2>2. \A q \in Readers : pc'[q] \in {"idle", "regenerating"} \cup Ended
    BY <1>0, ProcAssumption
    DEF Throw, Exit, Goto, Answering, RecoverWith, LifecycleInv, TypeOK, Ended, Procs, Locked, Recording
  <2>. QED
    BY <1>0, <2>1, <2>2, ThrowTyping DEF LifecycleInv, TypeOK, Ended, Locked
<1>2. FreshInv' /\ TerminalIsLast' /\ owner' = owner
  BY PartialPreserves DEF PartialAppend
<1>3. ASSUME NEW to \in {"setup-error", "executing"}, NEW phase \in Phases \ {"terminal"},
             pc[p] \in {"bindings", "executing"}, Goto(p, to), RecoverWith(p, phase)
      PROVE  LifecycleInv'
  <2>. DEFINE e == [NoEvent EXCEPT !.phase = phase, !.by = p]
  <2>1. p \in Runs /\ pc[p] \in Locked /\ pc[p] \notin Closing /\ owner = p
    BY <1>0, <1>3 DEF LifecycleInv, OwnerInv, Locked, Recording, Owned, Prior, Closing
  <2>2. e \in Event /\ e.by = p /\ e.phase # "terminal"
    BY <2>1 DEF NoEvent, Event
  <2>3. ~Closed
    BY <1>3, <2>1 DEF LifecycleInv, OpenInv, Recording
  <2>4. ~Closed'
    BY <2>1, <2>3, PartialPreserves
  <2>5. to \in Recording /\ to \notin Prior \cup Closing
    BY DEF Recording, Prior, Closing
  <2>. QED
    BY <1>1, <1>2, <1>3, <2>1, <2>2, <2>4, <2>5, BeginPreserves DEF RecoverWith
<1>4. CASE EndCall(p) /\ Exit(p, end)
  BY <1>0, <1>4, DeathPreserves DEF Ended, Locked, Recording
<1>5. CASE pc[p] = "bindings" /\ Goto(p, "setup-error") /\ RecoverWith(p, "execution-error")
  BY <1>5, <1>3 DEF Phases
<1>6. CASE Answering(p) /\ RecoverWith(p, "challenge-unavailable") /\ UNCHANGED pc
  <2>1. pc[p] = "executing" /\ Goto(p, "executing")
    BY <1>6 DEF Answering, Goto, LifecycleInv, TypeOK
  <2>. QED
    BY <1>6, <2>1, <1>3 DEF Phases
<1>. QED
  BY <1>4, <1>5, <1>6 DEF Throw

LEMMA FaultPreserves ==
  ASSUME LifecycleInv, NEW p \in Procs, Raise(p) \/ Crash(p) \/ Unreadable(p) \/ Vanished(p)
  PROVE  LifecycleInv'
<1>1. faults + 1 \in Nat
  BY DEF LifecycleInv, TypeOK
<1>2. CASE Raise(p) /\ pc[p] = "creating"
  <2>1. op[p] = "none" /\ lock = p /\ pc[p] \in Locked /\ p \in Runs
    BY <1>2 DEF LifecycleInv, CallInv, LockInv, Locked, Recording, Procs, TypeOK, StoreTypeOK, Ended
  <2>2. DiscardStaged(p) /\ Exit(p, "failed") /\ UNCHANGED <<calls, called, edits>>
        /\ faults' = faults + 1
    BY <1>2, <2>1 DEF Raise
  <2>. QED
    BY <2>1, <2>2, MovePreserves DEF DiscardStaged, Exit, Goto, Ended
<1>3. CASE Raise(p) /\ pc[p] # "creating"
  BY <1>1, <1>3, ThrowPreserves DEF Raise, LifecycleInv, TypeOK
<1>4. CASE Unreadable(p) \/ Vanished(p)
  <2>1. PartialAppend(p)
    BY <1>4 DEF Unreadable, Vanished, PartialAppend, files
  <2>. QED
    BY <1>4, <2>1, ThrowPreserves DEF Unreadable, Vanished, files, LifecycleInv, TypeOK
<1>5. CASE Crash(p)
  BY <1>1, <1>5, DeathPreserves DEF Crash, LifecycleInv, TypeOK, Ended
<1>. QED
  BY <1>2, <1>3, <1>4, <1>5

LEMMA NextPreserves == ASSUME LifecycleInv, [Next]_vars PROVE LifecycleInv'
<1>. USE DEF files, calls
<1>1. CASE UNCHANGED vars
  BY <1>1
  DEF vars, LifecycleInv, TypeOK, StoreTypeOK, LockInv, CallInv, PendInv, OwnerInv, FreshInv,
      OpenInv, AtMostOneExecution, TerminalIsLast, Published, Closed
<1>2. ASSUME NEW p \in Runs, Start(p) \/ RunStep(p) PROVE LifecycleInv'
  BY <1>2, RunStepPreserves
<1>3. ASSUME NEW p \in Readers, Summarize(p) \/ Summarized(p) PROVE LifecycleInv'
  <2>. USE DEF Summarize, Summarized, At, BeginRebuild, Goto
  <2>1. TypeOK'
    BY <1>3 DEF LifecycleInv, TypeOK, StoreTypeOK, Procs, Ended
  <2>2. /\ UNCHANGED <<owner, events, torn, lock, pend, called>>
        /\ \A q \in Runs : pc'[q] = pc[q] /\ op'[q] = op[q]
    BY <1>3, ProcAssumption DEF LifecycleInv, TypeOK, StoreTypeOK, Procs
  <2>3. LockInv' /\ OwnerInv' /\ FreshInv' /\ OpenInv' /\ PendInv'
    BY <2>2
    DEF LifecycleInv, LockInv, OwnerInv, FreshInv, OpenInv, PendInv, Published, Closed
  <2>4. \A q \in Readers : op'[q] # "none" => pc'[q] = "regenerating" /\ op'[q] # "append"
    BY <1>3, ProcAssumption DEF LifecycleInv, CallInv, TypeOK, StoreTypeOK, Procs
  <2>5. CallInv'
    BY <2>2, <2>4 DEF LifecycleInv, CallInv, Procs
  <2>6. AtMostOneExecution' /\ TerminalIsLast'
    BY <2>2 DEF LifecycleInv, AtMostOneExecution, TerminalIsLast
  <2>. QED
    BY <2>1, <2>3, <2>5, <2>6 DEF LifecycleInv
<1>4. ASSUME NEW p \in Procs, Store(p) PROVE LifecycleInv'
  BY <1>4, StorePreserves
<1>5. ASSUME NEW p \in Procs, Raise(p) \/ Crash(p) \/ Unreadable(p) \/ Vanished(p) PROVE LifecycleInv'
  BY <1>5, FaultPreserves
<1>6. CASE EditSummary
  <2>1. TypeOK'
    BY <1>6 DEF EditSummary, RemoveSummary, Unlinked, NoFile, LifecycleInv, TypeOK, StoreTypeOK
  <2>. QED
    BY <1>6, <2>1
    DEF EditSummary, RemoveSummary, LifecycleInv, LockInv, CallInv, PendInv, OwnerInv, FreshInv,
        OpenInv, AtMostOneExecution, TerminalIsLast, Published, Closed
<1>. QED
  BY <1>1, <1>2, <1>3, <1>4, <1>5, <1>6 DEF Next

-----------------------------------------------------------------------------
(* The lock, the local `created` and the record's one writer at a time, of *)
(* _review_package and record_event, hold in every reachable state.        *)
THEOREM Invariance == Spec => []LifecycleInv
<1>1. Init => LifecycleInv
  <2>. SUFFICES ASSUME Init PROVE LifecycleInv
    OBVIOUS
  <2>. USE DEF Init, StoreInit
  <2>1. torn \in BOOLEAN
    BY Zenon
  <2>2. TypeOK
    BY <2>1, EventTypes, ProcAssumption DEF TypeOK, StoreTypeOK, NoFile, Procs
  <2>3. LockInv /\ OwnerInv /\ OpenInv
    BY ProcAssumption DEF LockInv, OwnerInv, OpenInv, Locked, Recording, Owned, Prior, Procs
  <2>4. CallInv /\ PendInv
    BY DEF CallInv, PendInv, Procs
  <2>5. FreshInv
    BY Zenon DEF FreshInv
  <2>6. AtMostOneExecution /\ TerminalIsLast
    BY DEF AtMostOneExecution, TerminalIsLast
  <2>. QED
    BY <2>2, <2>3, <2>4, <2>5, <2>6 DEF LifecycleInv
<1>2. LifecycleInv /\ [Next]_vars => LifecycleInv'
  BY NextPreserves
<1>. QED
  BY <1>1, <1>2, PTL DEF Spec

(* _review_package never lets two runs of one package ask reviewers, and   *)
(* record_event never writes after the terminal event: every constant.     *)
THEOREM OneExecutionOneTerminal == Spec => [](TypeOK /\ AtMostOneExecution /\ TerminalIsLast)
<1>1. LifecycleInv => TypeOK /\ AtMostOneExecution /\ TerminalIsLast
  BY DEF LifecycleInv
<1>. QED
  BY <1>1, Invariance, PTL

-----------------------------------------------------------------------------
(* ReviewLifecycle implements ReviewRecord: the files and processes of one *)
(* package keep the promises of its record, whoever crashes and whenever.  *)

(* What one process does leaves the others where they are.                 *)
Steps(p) == \/ p \in Runs /\ (Start(p) \/ RunStep(p))
            \/ p \in Readers /\ (Summarize(p) \/ Summarized(p))
            \/ Store(p) \/ Unreadable(p) \/ Vanished(p) \/ Raise(p) \/ Crash(p)

LEMMA OthersKeep ==
  ASSUME LifecycleInv, NEW p \in Procs, Steps(p)
  PROVE  \A q \in Procs \ {p} : pc'[q] = pc[q] /\ op'[q] = op[q] /\ pend'[q] = pend[q]
<1>. USE DEF LifecycleInv, TypeOK, StoreTypeOK, calls, files, Goto, Begin, RecordEvent, Exit
<1>1. ASSUME Start(p) \/ RunStep(p)
      PROVE \A q \in Procs \ {p} : pc'[q] = pc[q] /\ op'[q] = op[q] /\ pend'[q] = pend[q]
  <2>1. CASE Start(p) \/ Acquire(p) \/ Reject(p) \/ Publish(p) \/ Abort(p) \/ Return(p)
             \/ Execute(p) \/ CallReviewers(p)
    BY <2>1 DEF Start, Acquire, Reject, Publish, Abort, Return, Execute, CallReviewers
  <2>2. CASE Load(p)
    BY <2>2 DEF Load
  <2>3. CASE RecordPhase(p)
    BY <2>3 DEF RecordPhase
  <2>4. CASE ClosePrior(p) \/ Configure(p) \/ SetupFails(p) \/ CloseSetup(p) \/ Finish(p)
    BY <2>4 DEF ClosePrior, Configure, SetupFails, CloseSetup, Finish, Follow
  <2>. QED
    BY <1>1, <2>1, <2>2, <2>3, <2>4 DEF RunStep
<1>2. ASSUME Summarize(p) \/ Summarized(p)
      PROVE \A q \in Procs \ {p} : pc'[q] = pc[q] /\ op'[q] = op[q] /\ pend'[q] = pend[q]
  BY <1>2 DEF Summarize, Summarized, BeginRebuild
<1>3. ASSUME Store(p)
      PROVE \A q \in Procs \ {p} : pc'[q] = pc[q] /\ op'[q] = op[q] /\ pend'[q] = pend[q]
  BY <1>3 DEF Store, StoreStep, AppendEvent, CheckSummary, OpenSummary, WriteSummary,
                ReadSummary, LoadEvents,
              ReplaceSummary, BeginRebuild, EndCall, Leave
<1>4. ASSUME NEW end, Throw(p, end)
      PROVE \A q \in Procs \ {p} : pc'[q] = pc[q] /\ op'[q] = op[q] /\ pend'[q] = pend[q]
  BY <1>4 DEF Throw, RecoverWith, EndCall, Leave
<1>5. ASSUME Raise(p)
      PROVE \A q \in Procs \ {p} : pc'[q] = pc[q] /\ op'[q] = op[q] /\ pend'[q] = pend[q]
  BY <1>4, <1>5 DEF Raise
<1>6. ASSUME Crash(p)
      PROVE \A q \in Procs \ {p} : pc'[q] = pc[q] /\ op'[q] = op[q] /\ pend'[q] = pend[q]
  BY <1>6 DEF Crash, EndCall, Leave
<1>. QED
  BY <1>1, <1>2, <1>3, <1>4, <1>5, <1>6 DEF Steps, Unreadable, Vanished

Appends(p) == /\ op[p] = "append"
              /\ events' = Append(events, pend[p])
              /\ UNCHANGED <<owner, called>>

(* All a step can do to the record.                                        *)
LEMMA StepKinds ==
  ASSUME LifecycleInv, NEW p \in Procs, Steps(p)
  PROVE  \/ UNCHANGED <<owner, events, called>>
         \/ p \in Runs /\ CallReviewers(p) /\ UNCHANGED <<owner, events>>
         \/ p \in Runs /\ Publish(p) /\ PublishStaged(p) /\ called' = called
         \/ p \in Runs /\ Appends(p)
<1>. USE DEF files, calls
<1>0. op[p] = "append" => p \in Runs
  BY DEF LifecycleInv, CallInv, Procs
<1>1. ASSUME PartialAppend(p), called' = called
      PROVE UNCHANGED <<owner, events, called>> \/ (p \in Runs /\ Appends(p))
  <2>1. owner' = owner /\ (events' = events \/ Appends(p))
    BY <1>1, Zenon DEF PartialAppend, Appends
  <2>. QED
    BY <1>0, <1>1, <2>1 DEF Appends
<1>2. CASE Raise(p)
  <2>1. called' = called /\ (DiscardStaged(p) \/ PartialAppend(p))
    BY <1>2, Zenon DEF Raise
  <2>. QED
    BY <1>1, <2>1 DEF DiscardStaged
<1>3. CASE Crash(p)
  <2>1. called' = called /\ PartialAppend(p)
    BY <1>3 DEF Crash
  <2>. QED
    BY <1>1, <2>1
<1>4. CASE Store(p)
  BY <1>0, <1>4 DEF Store, StoreStep, AppendEvent, CheckSummary, OpenSummary, WriteSummary,
                ReadSummary, LoadEvents,
              ReplaceSummary, Appends
<1>5. CASE Unreadable(p) \/ Vanished(p) \/ Summarize(p) \/ Summarized(p) \/ Start(p)
  BY <1>5 DEF Unreadable, Vanished, Summarize, Summarized, Start
<1>6. CASE p \in Runs /\ RunStep(p)
  <2>1. CASE Publish(p)
    BY <1>6, <2>1 DEF Publish, DiscardStaged
  <2>2. CASE Acquire(p) \/ Reject(p) \/ Load(p)
    BY <2>2 DEF Acquire, Stage, Reject, DiscardStaged, Load
  <2>3. CASE ClosePrior(p) \/ Configure(p) \/ SetupFails(p) \/ CloseSetup(p) \/ Finish(p)
    BY <2>3 DEF ClosePrior, Configure, SetupFails, CloseSetup, Finish, Follow
  <2>4. CASE Execute(p) \/ CallReviewers(p) \/ RecordPhase(p) \/ Abort(p) \/ Return(p)
    BY <1>6, <2>4 DEF Execute, CallReviewers, RecordPhase, Abort, Return
  <2>. QED
    BY <1>6, <2>1, <2>2, <2>3, <2>4 DEF RunStep
<1>. QED
  BY <1>2, <1>3, <1>4, <1>5, <1>6 DEF Steps

-----------------------------------------------------------------------------
(* The history invariant.                                                  *)

LEMMA TakenOverAfterAppend ==
  ASSUME LifecycleInv, NEW p \in Runs, Appends(p)
  PROVE  /\ TakenOver' <=> TakenOver \/ p # owner
         /\ Closed' <=> pc[p] \in Closing
         /\ ~Closed /\ pc[p] \in Recording /\ lock = p
         /\ Len(events') \in Nat \ {0} /\ events'[Len(events')] = pend[p]
<1>1. pend[p].by = p /\ (pend[p].phase = "terminal" <=> pc[p] \in Closing)
  BY DEF Appends, LifecycleInv, PendInv
<1>2. pc[p] \in Recording /\ ~Closed
  BY DEF Appends, LifecycleInv, CallInv, OpenInv, Procs
<1>3. Len(events) \in Nat /\ Len(events') = Len(events) + 1
      /\ \A i \in 1..Len(events') : events'[i] = IF i = Len(events') THEN pend[p] ELSE events[i]
  BY DEF Appends, LifecycleInv, TypeOK, StoreTypeOK, Procs
<1>4. TakenOver' <=> TakenOver \/ p # owner
  BY <1>1, <1>3 DEF Appends, TakenOver
<1>5. Closed' <=> pc[p] \in Closing
  BY <1>1, <1>2, <1>3 DEF Closed
<1>. QED
  BY <1>2, <1>3, <1>4, <1>5 DEF LifecycleInv, LockInv, Locked

(* A process that takes no step loses nothing by another's.                *)
LEMMA OthersHistory ==
  ASSUME LifecycleInv, HistoryInv, NEW p \in Procs, Steps(p), NEW q \in Runs \ {p}
  PROVE  SoleWriter(q)' /\ Announced(q)' /\ OutcomeBacked(q)'
<1>1. pc'[q] = pc[q] /\ op'[q] = op[q] /\ pend'[q] = pend[q]
  BY OthersKeep DEF Procs
<1>2. CASE UNCHANGED <<owner, events>> /\ called \subseteq called'
  BY <1>1, <1>2 DEF HistoryInv, SoleWriter, Announced, OutcomeBacked, TakenOver
<1>3. CASE p \in Runs /\ Publish(p) /\ PublishStaged(p) /\ called' = called
  <2>1. pc[q] \notin Locked
    BY <1>3 DEF Publish, LifecycleInv, LockInv, Locked
  <2>2. op[q] # "append"
    BY <2>1, ProcAssumption DEF LifecycleInv, CallInv, Locked, Procs
  <2>. QED
    BY <1>1, <1>3, <2>1, <2>2
    DEF PublishStaged, SoleWriter, Announced, OutcomeBacked, Locked, Recording, Owned, Prior
<1>4. CASE p \in Runs /\ Appends(p)
  <2>1. pc[q] \notin Locked
    BY <1>4, TakenOverAfterAppend DEF LifecycleInv, LockInv, Locked
  <2>2. op[q] # "append"
    BY <2>1, ProcAssumption DEF LifecycleInv, CallInv, Locked, Procs
  <2>. QED
    BY <1>1, <1>4, <2>1, <2>2
    DEF Appends, HistoryInv, SoleWriter, Announced, OutcomeBacked, Locked, Recording, Owned, Prior
<1>. QED
  BY <1>2, <1>3, <1>4, StepKinds DEF CallReviewers

(* Following one record_event call with the next.                          *)
LEMMA FollowHistory ==
  ASSUME LifecycleInv, HistoryInv, NEW p \in Runs,
         NEW from \in Recording \ Closing, NEW to \in Recording,
         from \in Prior <=> to \in Prior,
         to \in Prior => from = "prior-error" /\ to = "prior-terminal",
         NEW phase, NEW outcome \in Outcomes \cup {"none"},
         to \in Closing => outcome \in Outcomes,
         to = "prior-terminal" => outcome = "ESCALATE",
         outcome \in {"ACCEPT", "CHANGE"} => p \in called,
         Follow(p, from, to, phase, outcome)
  PROVE  SoleWriter(p)' /\ Announced(p)' /\ OutcomeBacked(p)'
<1>. USE DEF Follow, At, Goto, RecordEvent, Begin, files
<1>1. pc'[p] = to /\ op'[p] = "append" /\ pend'[p].outcome = outcome
      /\ UNCHANGED <<owner, events, called>>
  BY DEF LifecycleInv, TypeOK, StoreTypeOK, Procs
<1>2. SoleWriter(p)'
  BY <1>1 DEF HistoryInv, SoleWriter, TakenOver, Owned, Recording, Prior
<1>3. Announced(p)'
  BY <1>1 DEF HistoryInv, Announced, TakenOver, Prior
<1>4. OutcomeBacked(p)'
  BY <1>1 DEF OutcomeBacked
<1>. QED
  BY <1>2, <1>3, <1>4

(* An exception, or the end of the process.                                *)
LEMMA FaultHistory ==
  ASSUME LifecycleInv, HistoryInv, NEW p \in Runs,
         Raise(p) \/ Crash(p) \/ Unreadable(p) \/ Vanished(p)
  PROVE  SoleWriter(p)' /\ Announced(p)' /\ OutcomeBacked(p)'
<1>. USE DEF Goto
<1>1. ASSUME pc'[p] \in Ended, op'[p] = "none"
      PROVE SoleWriter(p)' /\ Announced(p)' /\ OutcomeBacked(p)'
  BY <1>1 DEF SoleWriter, Announced, OutcomeBacked, Ended, Owned, Recording, Prior
<1>2. CASE Raise(p) /\ pc[p] = "creating"
  <2>1. op[p] = "none"
    BY <1>2 DEF LifecycleInv, CallInv, Recording, Procs, TypeOK, StoreTypeOK, ProcAssumption
  <2>. QED
    BY <1>1, <1>2, <2>1 DEF Raise, Exit, calls, LifecycleInv, TypeOK, StoreTypeOK, Ended, Procs
<1>3. CASE Crash(p)
  BY <1>1, <1>3 DEF Crash, Exit, EndCall, Leave, LifecycleInv, TypeOK, StoreTypeOK, Ended, Procs
<1>4. ASSUME NEW end \in {"failed", "refused", "lost"}, Throw(p, end),
             UNCHANGED <<owner, events, called>> \/ Appends(p)
      PROVE SoleWriter(p)' /\ Announced(p)' /\ OutcomeBacked(p)'
  <2>1. CASE EndCall(p) /\ Exit(p, end)
    BY <1>1, <2>1 DEF Exit, EndCall, Leave, LifecycleInv, TypeOK, StoreTypeOK, Ended, Procs
  <2>2. ASSUME NEW to \in {"setup-error", "executing"}, NEW phase,
               pc[p] \in {"bindings", "executing"}, Goto(p, to), RecoverWith(p, phase)
        PROVE SoleWriter(p)' /\ Announced(p)' /\ OutcomeBacked(p)'
    <3>1. pc'[p] = to /\ op'[p] = "append" /\ pend'[p].outcome = "none"
      BY <2>2 DEF RecoverWith, NoEvent, LifecycleInv, TypeOK, StoreTypeOK, Procs
    <3>2. owner = p /\ ~TakenOver
      BY <2>2 DEF LifecycleInv, OwnerInv, HistoryInv, SoleWriter, Owned, Recording, Prior
    <3>3. ~TakenOver'
      <4>1. CASE UNCHANGED <<owner, events, called>>
        BY <3>2, <4>1 DEF TakenOver
      <4>. QED
        BY <1>4, <3>2, <4>1, TakenOverAfterAppend
    <3>. QED
      BY <3>1, <3>3 DEF SoleWriter, Announced, OutcomeBacked, Closing, Outcomes
  <2>3. CASE pc[p] = "bindings" /\ Goto(p, "setup-error") /\ RecoverWith(p, "execution-error")
    BY <2>2, <2>3
  <2>4. CASE Answering(p) /\ RecoverWith(p, "challenge-unavailable") /\ UNCHANGED pc
    <3>1. pc[p] = "executing" /\ Goto(p, "executing")
      BY <2>4 DEF Answering, LifecycleInv, TypeOK
    <3>2. RecoverWith(p, "challenge-unavailable")
      BY <2>4
    <3>. QED
      BY <2>2, <3>1, <3>2
  <2>. QED
    BY <1>4, <2>1, <2>3, <2>4 DEF Throw
<1>5. CASE Raise(p) /\ pc[p] # "creating"
  <2>1. PartialAppend(p) /\ Throw(p, "failed") /\ called' = called
    BY <1>5 DEF Raise
  <2>2. owner' = owner /\ (events' = events \/ Appends(p))
    BY <2>1, Zenon DEF PartialAppend, Appends
  <2>. QED
    BY <1>4, <2>1, <2>2
<1>6. CASE Unreadable(p) \/ Vanished(p)
  BY <1>4, <1>6 DEF Unreadable, Vanished, files
<1>. QED
  BY <1>2, <1>3, <1>5, <1>6

LEMMA OwnHistory ==
  ASSUME LifecycleInv, HistoryInv, NEW p \in Runs, Steps(p)
  PROVE  SoleWriter(p)' /\ Announced(p)' /\ OutcomeBacked(p)'
<1>. USE DEF files, calls
<1>1. ASSUME UNCHANGED <<owner, events, called>>, op'[p] # "append",
             pc'[p] \in {"waiting", "creating"} => pc[p] \in {"idle", "waiting"},
             pc'[p] \in {"executing", "unstaffed"} => pc[p] \in Owned,
             pc'[p] \in {"waiting", "creating", "executing", "unstaffed"} \cup Ended
      PROVE SoleWriter(p)' /\ Announced(p)' /\ OutcomeBacked(p)'
  BY <1>1 DEF HistoryInv, SoleWriter, Announced, OutcomeBacked, TakenOver, Owned, Recording,
              Prior, Ended
<1>2. op[p] = "append" => pc[p] \in Recording
  BY ProcAssumption DEF LifecycleInv, CallInv, Procs
<1>3. CASE Start(p) \/ Acquire(p) \/ Reject(p) \/ Execute(p) \/ Abort(p) \/ Return(p)
  BY <1>1, <1>2, <1>3
  DEF Start, Acquire, Stage, Reject, DiscardStaged, Execute, Abort, Return, At, Exit, Goto, LifecycleInv,
      TypeOK, StoreTypeOK, Procs, Ended, Recording, Owned, Prior
<1>4. CASE Publish(p)
  <2>1. pc'[p] = "loading" /\ op'[p] # "append"
    BY <1>2, <1>4 DEF Publish, Goto, LifecycleInv, TypeOK, StoreTypeOK, Procs, Recording
  <2>2. owner' = p => ~TakenOver'
    BY <1>4 DEF Publish, PublishStaged, DiscardStaged, TakenOver, HistoryInv, SoleWriter
  <2>. QED
    BY <2>1, <2>2 DEF SoleWriter, Announced, OutcomeBacked
<1>5. CASE Load(p)
  <2>. USE DEF Goto, LifecycleInv, TypeOK, StoreTypeOK, Procs
  <2>1. UNCHANGED <<owner, events, called>> /\ pc[p] = "loading"
    BY <1>5 DEF Load
  <2>2. ASSUME NEW end \in {"refused", "returned"}, Exit(p, end), UNCHANGED calls
        PROVE SoleWriter(p)' /\ Announced(p)' /\ OutcomeBacked(p)'
    BY <1>1, <1>2, <2>1, <2>2 DEF Exit, Ended, Recording
  <2>3. ASSUME NEW to \in {"prior-error", "package"}, owner = p => to = "package",
               NEW phase, Goto(p, to), RecordEvent(p, phase, "none")
        PROVE SoleWriter(p)' /\ Announced(p)' /\ OutcomeBacked(p)'
    <3>1. pc'[p] = to /\ op'[p] = "append" /\ pend'[p].outcome = "none"
      BY <2>3 DEF RecordEvent, Begin
    <3>. QED
      BY <2>1, <2>3, <3>1
      DEF HistoryInv, SoleWriter, Announced, OutcomeBacked, TakenOver, Closing, Outcomes
  <2>. QED
    BY <1>5, <2>2, <2>3 DEF Load
<1>6. CASE ClosePrior(p) \/ Configure(p) \/ SetupFails(p) \/ CloseSetup(p) \/ Finish(p)
  BY <1>6, FollowHistory
  DEF ClosePrior, Configure, SetupFails, CloseSetup, Finish, Recording, Closing, Prior, Outcomes
<1>7. CASE CallReviewers(p) \/ RecordPhase(p)
  <2>1. /\ UNCHANGED <<owner, events, pc>> /\ pc[p] \in {"executing", "unstaffed"}
        /\ op'[p] = "append" => pend'[p].outcome = "none"
    BY <1>7 DEF CallReviewers, RecordPhase, At, Begin, LifecycleInv, TypeOK, StoreTypeOK, Procs
  <2>. QED
    BY <2>1 DEF HistoryInv, SoleWriter, Announced, OutcomeBacked, TakenOver, Closing, Outcomes
<1>8. CASE Store(p)
  <2>1. pc' = pc /\ called' = called /\ op'[p] # "append"
    BY <1>8 DEF Store, StoreStep, AppendEvent, CheckSummary, OpenSummary, WriteSummary,
                ReadSummary, LoadEvents,
                ReplaceSummary, BeginRebuild, EndCall, Leave, LifecycleInv, TypeOK, StoreTypeOK, Procs
  <2>2. CASE Appends(p)
    BY <2>1, <2>2, TakenOverAfterAppend
    DEF Appends, HistoryInv, SoleWriter, Announced, OutcomeBacked, LifecycleInv, OwnerInv, Prior,
        Recording
  <2>3. CASE op[p] # "append" /\ UNCHANGED <<owner, events>>
    BY <2>1, <2>3 DEF HistoryInv, SoleWriter, Announced, OutcomeBacked, TakenOver
  <2>. QED
    BY <1>8, <2>2, <2>3 DEF Store, StoreStep, AppendEvent, CheckSummary, OpenSummary, WriteSummary,
                ReadSummary,
                LoadEvents, ReplaceSummary, Appends
<1>9. CASE Raise(p) \/ Crash(p) \/ Unreadable(p) \/ Vanished(p)
  BY <1>9, FaultHistory
<1>. QED
  BY <1>3, <1>4, <1>5, <1>6, <1>7, <1>8, <1>9, ProcAssumption DEF Steps, RunStep

LEMMA NextHistory == ASSUME LifecycleInv, HistoryInv, [Next]_vars PROVE HistoryInv'
<1>1. CASE UNCHANGED vars
  BY <1>1 DEF vars, files, calls, HistoryInv, SoleWriter, Announced, OutcomeBacked, TakenOver
<1>2. CASE EditSummary
  BY <1>2 DEF EditSummary, RemoveSummary, HistoryInv, SoleWriter, Announced, OutcomeBacked, TakenOver
<1>3. ASSUME NEW p \in Procs, Steps(p) PROVE HistoryInv'
  <2>. SUFFICES ASSUME NEW q \in Runs PROVE SoleWriter(q)' /\ Announced(q)' /\ OutcomeBacked(q)'
    BY DEF HistoryInv
  <2>. QED
    BY <1>3, OwnHistory, OthersHistory
<1>. QED
  BY <1>1, <1>2, <1>3 DEF Next, Steps, Procs

-----------------------------------------------------------------------------
(* The lines appended to events.jsonl are the abstract record's steps: the *)
(* owner's terminal line decides, another run's error line takes over, its *)
(* terminal line abandons, and any other line is not seen.                 *)
LEMMA AppendRefines ==
  ASSUME LifecycleInv, HistoryInv, NEW p \in Runs, Appends(p)
  PROVE  [Record!Next]_(Record!vars)
<1>. USE DEF RecordStage, RecordVerdict
<1>1. /\ TakenOver' <=> TakenOver \/ p # owner
      /\ Closed' <=> pc[p] \in Closing
      /\ ~Closed /\ pc[p] \in Recording
      /\ Closed' => RecordVerdict' = pend[p].outcome
  BY TakenOverAfterAppend
<1>2. Published /\ Published' /\ UNCHANGED <<owner, called>>
  BY <1>1, ProcAssumption DEF Appends, LifecycleInv, OwnerInv, Published, Owned, Prior
<1>3. CASE pc[p] \in Owned \ Closing
  <2>1. owner = p
    BY <1>3 DEF LifecycleInv, OwnerInv
  <2>. QED
    BY <1>1, <1>2, <1>3, <2>1 DEF Record!vars
<1>4. CASE pc[p] \in Owned \cap Closing
  <2>1. owner = p /\ ~TakenOver
    BY <1>4 DEF LifecycleInv, OwnerInv, HistoryInv, SoleWriter
  <2>2. pend[p].outcome \in Outcomes /\ (pend[p].outcome \in {"ACCEPT", "CHANGE"} => p \in called)
    BY <1>4 DEF Appends, HistoryInv, OutcomeBacked
  <2>3. Record!Decide(p, pend[p].outcome)
    BY <1>1, <1>2, <1>4, <2>1, <2>2 DEF Record!Decide
  <2>. QED
    BY <2>2, <2>3 DEF Record!Next, Record!Verdicts, Outcomes
<1>5. CASE pc[p] = "prior-error"
  <2>1. owner # p
    BY <1>5 DEF LifecycleInv, OwnerInv, Prior
  <2>2. CASE TakenOver
    BY <1>1, <1>2, <1>5, <2>1, <2>2 DEF Record!vars, Closing
  <2>3. CASE ~TakenOver
    <3>1. Record!TakeOver(p)
      BY <1>1, <1>2, <1>5, <2>1, <2>3 DEF Record!TakeOver, Closing
    <3>. QED
      BY <3>1 DEF Record!Next
  <2>. QED
    BY <2>2, <2>3
<1>6. CASE pc[p] = "prior-terminal"
  <2>1. owner # p /\ TakenOver /\ pend[p].outcome = "ESCALATE"
    BY <1>6 DEF Appends, LifecycleInv, OwnerInv, Prior, HistoryInv, Announced, OutcomeBacked
  <2>2. Record!Abandon(p)
    BY <1>1, <1>2, <1>6, <2>1 DEF Record!Abandon, Closing
  <2>. QED
    BY <2>2 DEF Record!Next
<1>. QED
  BY <1>1, <1>3, <1>4, <1>5, <1>6 DEF Owned, Prior

LEMMA StepRefines ==
  ASSUME LifecycleInv, HistoryInv, [Next]_vars
  PROVE  [Record!Next]_(Record!vars)
<1>1. ASSUME UNCHANGED <<owner, events, called>> PROVE UNCHANGED Record!vars
  BY <1>1 DEF Record!vars, RecordStage, RecordVerdict, Published, Closed, TakenOver
<1>2. ASSUME NEW p \in Runs, CallReviewers(p) PROVE Record!Ask(p)
  <2>1. owner = p /\ ~TakenOver /\ ~Closed
    BY <1>2 DEF CallReviewers, At, LifecycleInv, OwnerInv, OpenInv, HistoryInv, SoleWriter, Owned,
                Recording, Prior, Closing
  <2>2. RecordStage = "running"
    BY <2>1, ProcAssumption DEF RecordStage, Published
  <2>3. UNCHANGED <<RecordStage, RecordVerdict>>
    BY <1>2 DEF CallReviewers, files, RecordStage, RecordVerdict, Published, Closed, TakenOver
  <2>. QED
    BY <1>2, <2>1, <2>2, <2>3 DEF CallReviewers, files, Record!Ask
<1>3. ASSUME NEW p \in Runs, PublishStaged(p), called' = called PROVE Record!Claim(p)
  <2>1. RecordStage = "absent" /\ RecordVerdict = "none"
    BY <1>3 DEF PublishStaged, RecordStage, RecordVerdict, LifecycleInv, FreshInv, Closed
  <2>2. RecordStage' = "running" /\ RecordVerdict' = "none"
    BY <1>3, ProcAssumption
    DEF PublishStaged, RecordStage, RecordVerdict, Published, Closed, TakenOver
  <2>. QED
    BY <1>3, <2>1, <2>2 DEF PublishStaged, Record!Claim
<1>4. ASSUME NEW p \in Procs, Steps(p) PROVE [Record!Next]_(Record!vars)
  BY <1>1, <1>2, <1>3, <1>4, StepKinds, AppendRefines DEF Record!Next
<1>5. CASE UNCHANGED vars \/ EditSummary
  BY <1>1, <1>5 DEF vars, files, EditSummary, RemoveSummary
<1>. QED
  BY <1>4, <1>5 DEF Next, Steps, Procs

(* The processes of cli._review_package and the files of ArtifactStore     *)
(* implement the promises of ReviewRecord, for any number of runs, summary *)
(* commands, kills, OSErrors and removals.                                 *)
THEOREM RecordRefinement == Spec => ImplementsRecord
<1>1. Init => HistoryInv /\ Record!Init
  <2>. SUFFICES ASSUME Init PROVE HistoryInv /\ Record!Init
    OBVIOUS
  <2>1. HistoryInv
    BY ProcAssumption
    DEF Init, StoreInit, HistoryInv, SoleWriter, Announced, OutcomeBacked, TakenOver, Owned,
        Recording, Prior, Procs
  <2>2. Record!Init
    BY DEF Init, StoreInit, Record!Init, RecordStage, RecordVerdict, Published, Closed
  <2>. QED
    BY <2>1, <2>2
<1>2. LifecycleInv /\ HistoryInv /\ [Next]_vars => HistoryInv' /\ [Record!Next]_(Record!vars)
  BY NextHistory, StepRefines
<1>. QED
  BY <1>1, <1>2, Invariance, PTL DEF Spec, ImplementsRecord, Record!Spec

(* What implementing it is good for: by the abstract record alone, one run *)
(* at most asks reviewers about a package, and what is decided as ACCEPT   *)
(* or CHANGE rests on that.                                                *)
THEOREM RecordPromises == Spec => []Record!Promised
<1>1. Record!Init => Record!Promised
  BY DEF Record!Init, Record!Promised, Record!Verdicts
<1>2. Record!Promised /\ [Record!Next]_(Record!vars) => Record!Promised'
  <2>. SUFFICES ASSUME Record!Promised, [Record!Next]_(Record!vars) PROVE Record!Promised'
    OBVIOUS
  <2>1. CASE UNCHANGED Record!vars
    BY <2>1 DEF Record!vars, Record!Promised
  <2>2. ASSUME NEW r \in Runs,
               \/ Record!Claim(r) \/ Record!Ask(r)
               \/ \E v \in Record!Verdicts : Record!Decide(r, v)
               \/ Record!TakeOver(r) \/ Record!Abandon(r)
        PROVE  Record!Promised'
    BY <2>2 DEF Record!Promised, Record!Verdicts, Record!Claim, Record!Ask, Record!Decide,
                Record!TakeOver, Record!Abandon
  <2>. QED
    BY <2>1, <2>2 DEF Record!Next
<1>. QED
  BY <1>1, <1>2, RecordRefinement, PTL DEF ImplementsRecord, Record!Spec

(* A closed record is final: once record_event has written the terminal    *)
(* line no process, however it fails, writes another.                      *)
THEOREM ClosedForGood == Spec => ClosedIsFinal
<1>1. LifecycleInv /\ [Next]_vars => [Closed => UNCHANGED <<owner, events, torn>>]_vars
  <2>. SUFFICES ASSUME LifecycleInv, Next, Closed PROVE UNCHANGED <<owner, events, torn>>
    OBVIOUS
  <2>1. Published
    BY DEF LifecycleInv, FreshInv, Closed
  <2>2. ASSUME NEW p \in Procs PROVE op[p] # "append"
    BY <2>2 DEF LifecycleInv, CallInv, OpenInv, Procs
  <2>3. ASSUME NEW p \in Procs, Steps(p) PROVE UNCHANGED <<owner, events, torn>>
    <3>. USE <2>1, <2>2 DEF files
    <3>1. UNCHANGED <<owner, events>>
      BY <2>3, StepKinds DEF Appends, PublishStaged
    <3>2. CASE p \in Runs /\ (Start(p) \/ RunStep(p))
      BY <3>2
      DEF Start, RunStep, Acquire, Stage, Reject, DiscardStaged, Publish, PublishStaged, Load,
          ClosePrior, Configure, SetupFails, CloseSetup, Follow, Execute, CallReviewers,
          RecordPhase, Finish, Abort, Return
    <3>3. CASE Store(p) \/ Unreadable(p) \/ Vanished(p) \/ Summarize(p) \/ Summarized(p)
      BY <3>3 DEF Store, StoreStep, AppendEvent, CheckSummary, OpenSummary, WriteSummary,
                ReadSummary,
                  LoadEvents, ReplaceSummary, Unreadable, Vanished, Summarize, Summarized
    <3>4. PartialAppend(p) => torn' = torn
      BY Zenon DEF PartialAppend
    <3>5. Raise(p) => DiscardStaged(p) \/ PartialAppend(p)
      BY Zenon DEF Raise
    <3>6. CASE Raise(p) \/ Crash(p)
      <4>1. DiscardStaged(p) \/ PartialAppend(p)
        BY <3>5, <3>6 DEF Crash
      <4>2. torn' = torn
        BY <3>4, <4>1 DEF DiscardStaged
      <4>. QED
        BY <3>1, <4>2
    <3>. QED
      BY <2>3, <3>1, <3>2, <3>3, <3>6 DEF Steps
  <2>4. CASE EditSummary
    BY <2>4 DEF EditSummary, RemoveSummary
  <2>. QED
    BY <2>3, <2>4 DEF Next, Steps, Procs
<1>. QED
  BY <1>1, Invariance, PTL DEF Spec, ClosedIsFinal

-----------------------------------------------------------------------------
(* The two promises of _review_package to whoever reads the record it      *)
(* returns: the record is closed, and an automatic verdict in it was       *)
(* reached by the record's creator with reviewers bound on record.         *)


(* The record only grows, and is empty before it is published.             *)
LEMMA RecordGrows ==
  ASSUME LifecycleInv, NEW p \in Procs, Steps(p)
  PROVE  /\ BindingsRecorded => BindingsRecorded'
         /\ Closed => Closed'
<1>1. CASE events' = events
  BY <1>1 DEF BindingsRecorded, Closed
<1>2. CASE PublishStaged(p)
  BY <1>2 DEF PublishStaged, LifecycleInv, FreshInv, BindingsRecorded, Closed
<1>3. CASE Appends(p)
  <2>1. \A i \in 1..Len(events) : i \in 1..Len(events') /\ events'[i] = events[i]
    BY <1>3 DEF Appends, LifecycleInv, TypeOK, StoreTypeOK, Procs
  <2>. QED
    BY <2>1 DEF BindingsRecorded, Closed
<1>. QED
  BY <1>1, <1>2, <1>3, StepKinds

LEMMA LastAppended ==
  ASSUME LifecycleInv, NEW p \in Procs, Appends(p)
  PROVE  /\ Len(events) \in Nat /\ Len(events') = Len(events) + 1
         /\ events'[Len(events')] = pend[p]
         /\ \A i \in 1..Len(events) : events'[i] = events[i]
BY DEF Appends, LifecycleInv, TypeOK, StoreTypeOK, Procs

(* A verdict that is recorded has the creator's bindings before it.        *)
LEMMA VerdictKept ==
  ASSUME LifecycleInv, HistoryInv, ReturnInv, NEW p \in Procs, Steps(p)
  PROVE  VerdictIsBacked'
<1>1. CASE UNCHANGED <<owner, events>> /\ called \subseteq called'
  BY <1>1 DEF ReturnInv, VerdictIsBacked
<1>2. CASE PublishStaged(p) /\ called' = called
  BY <1>2 DEF PublishStaged, VerdictIsBacked
<1>3. CASE p \in Runs /\ Appends(p)
  <2>. SUFFICES ASSUME NEW i \in 1..Len(events'), events'[i].outcome \in {"ACCEPT", "CHANGE"}
                PROVE  /\ owner' \in called'
                       /\ \A j \in 1..i : events'[j].by = owner'
                       /\ \E j \in 1..i : events'[j].phase = "configured-bindings"
    BY DEF VerdictIsBacked
  <2>1. owner' = owner /\ called' = called
    BY <1>3 DEF Appends
  <2>2. CASE i \in 1..Len(events)
    BY <1>3, <2>1, <2>2, LastAppended DEF ReturnInv, VerdictIsBacked
  <2>3. CASE i = Len(events')
    <3>1. pend[p].outcome \in {"ACCEPT", "CHANGE"} /\ pend[p].by = p /\ op[p] = "append"
      BY <1>3, <2>3, LastAppended DEF Appends, LifecycleInv, PendInv
    <3>2. p \in called /\ owner = p
      BY <1>3, <3>1 DEF HistoryInv, OutcomeBacked, LifecycleInv, AtMostOneExecution
    <3>3. pc[p] \in Owned
      BY <1>3, <3>1, <3>2 DEF LifecycleInv, CallInv, OwnerInv, Owned, Procs, Prior
    <3>4. \A j \in 1..Len(events) : events[j].by = owner
      BY <1>3, <3>2, <3>3 DEF HistoryInv, SoleWriter, TakenOver
    <3>5. PICK k \in 1..Len(events) : events[k].phase = "configured-bindings"
      BY <1>3, <3>2 DEF ReturnInv, BoundFirst, BindingsRecorded
    <3>6. \A j \in 1..i : events'[j].by = owner
      BY <1>3, <2>3, <3>1, <3>2, <3>4, LastAppended
    <3>7. k \in 1..i /\ events'[k].phase = "configured-bindings"
      BY <1>3, <2>3, <3>5, LastAppended
    <3>. QED
      BY <2>1, <3>2, <3>6, <3>7
  <2>. QED
    BY <1>3, <2>2, <2>3, LastAppended
<1>. QED
  BY <1>1, <1>2, <1>3, StepKinds DEF CallReviewers

(* A process that takes no step keeps what the record holds for it.        *)
LEMMA OthersBehind ==
  ASSUME LifecycleInv, ReturnInv, NEW p \in Procs, Steps(p), NEW q \in Runs \ {p}
  PROVE  BoundFirst(q)' /\ ClosedBehind(q)'
<1>1. pc'[q] = pc[q] /\ op'[q] = op[q] /\ pend'[q] = pend[q]
  BY OthersKeep DEF Procs
<1>2. q \in called' => q \in called
  <2>1. called' = called \/ (p \in Runs /\ CallReviewers(p))
    BY StepKinds DEF Appends
  <2>. QED
    BY <2>1 DEF CallReviewers
<1>. QED
  BY <1>1, <1>2, RecordGrows DEF ReturnInv, BoundFirst, ClosedBehind

LEMMA FollowBehind ==
  ASSUME LifecycleInv, ReturnInv, NEW p \in Runs, Steps(p),
         NEW from \in Recording, NEW to \in Recording \ {"executing"}, NEW phase, NEW outcome,
         to = "bindings" => phase = "configured-bindings",
         Follow(p, from, to, phase, outcome)
  PROVE  BoundFirst(p)' /\ ClosedBehind(p)'
<1>1. /\ pc'[p] = to /\ op'[p] = "append" /\ pend'[p].phase = phase
      /\ called' = called
  BY DEF Follow, At, Goto, RecordEvent, Begin, files, LifecycleInv, TypeOK, StoreTypeOK, Procs
<1>. QED
  BY <1>1, RecordGrows DEF ReturnInv, BoundFirst, ClosedBehind, Recording, Procs

LEMMA FaultBehind ==
  ASSUME LifecycleInv, ReturnInv, NEW p \in Runs, Steps(p),
         Raise(p) \/ Crash(p) \/ Unreadable(p) \/ Vanished(p)
  PROVE  BoundFirst(p)' /\ ClosedBehind(p)'
<1>0. called' = called
  BY DEF Raise, Crash, Unreadable, Vanished, files
<1>1. ASSUME pc'[p] \in {"failed", "refused", "lost", "crashed"}
      PROVE BoundFirst(p)' /\ ClosedBehind(p)'
  BY <1>0, <1>1, RecordGrows DEF ReturnInv, BoundFirst, ClosedBehind, Closing, Procs
<1>2. ASSUME NEW end \in {"failed", "refused", "lost"}, Throw(p, end)
      PROVE BoundFirst(p)' /\ ClosedBehind(p)'
  <2>1. CASE EndCall(p) /\ Exit(p, end)
    BY <1>1, <2>1 DEF Exit, Goto, LifecycleInv, TypeOK, Procs
  <2>2. CASE pc[p] = "bindings" /\ Goto(p, "setup-error") /\ RecoverWith(p, "execution-error")
    <3>1. pc'[p] = "setup-error"
      BY <2>2 DEF Goto, LifecycleInv, TypeOK, Procs
    <3>. QED
      BY <1>0, <3>1, RecordGrows DEF ReturnInv, BoundFirst, ClosedBehind, Closing, Procs
  <2>3. CASE Answering(p) /\ UNCHANGED pc
    BY <1>0, <2>3, RecordGrows DEF Answering, ReturnInv, BoundFirst, ClosedBehind, Closing, Procs
  <2>. QED
    BY <1>2, <2>1, <2>2, <2>3 DEF Throw
<1>3. CASE Raise(p)
  <2>1. CASE pc[p] = "creating" /\ Exit(p, "failed")
    BY <1>1, <2>1 DEF Exit, Goto, LifecycleInv, TypeOK, Procs
  <2>2. CASE Throw(p, "failed")
    BY <1>2, <2>2
  <2>. QED
    BY <1>3, <2>1, <2>2, Zenon DEF Raise
<1>4. CASE Crash(p)
  BY <1>1, <1>4 DEF Crash, Exit, Goto, LifecycleInv, TypeOK, Procs
<1>5. CASE Unreadable(p) \/ Vanished(p)
  BY <1>2, <1>5 DEF Unreadable, Vanished
<1>. QED
  BY <1>3, <1>4, <1>5

LEMMA OwnBehind ==
  ASSUME LifecycleInv, HistoryInv, ReturnInv, NEW p \in Runs, Steps(p)
  PROVE  BoundFirst(p)' /\ ClosedBehind(p)'
<1>. USE DEF LifecycleInv, TypeOK, StoreTypeOK, Procs
<1>0. (BindingsRecorded => BindingsRecorded') /\ (Closed => Closed')
  BY RecordGrows
<1>1. ASSUME called' = called, pc'[p] \notin {"executing", "bindings", "returned"} \cup Closing
      PROVE BoundFirst(p)' /\ ClosedBehind(p)'
  BY <1>0, <1>1 DEF ReturnInv, BoundFirst, ClosedBehind
<1>2. CASE Start(p) \/ Acquire(p) \/ Reject(p) \/ Publish(p) \/ Abort(p)
  BY <1>1, <1>2
  DEF Start, Acquire, Reject, Publish, Abort, Exit, Goto, Closing
<1>3. CASE Load(p)
  <2>1. called' = called /\ pc[p] = "loading"
    BY <1>3 DEF Load
  <2>2. CASE Readable /\ Closed /\ Exit(p, "returned")
    <3>1. pc'[p] = "returned"
      BY <2>2 DEF Exit, Goto
    <3>. QED
      BY <1>0, <2>1, <2>2, <3>1 DEF ReturnInv, BoundFirst, ClosedBehind, Closing
  <2>3. CASE pc'[p] \in {"refused", "prior-error", "package"}
    BY <1>1, <2>1, <2>3 DEF Closing
  <2>. QED
    BY <1>3, <2>2, <2>3 DEF Load, Exit, Goto
<1>4. CASE ClosePrior(p) \/ Configure(p) \/ SetupFails(p) \/ CloseSetup(p) \/ Finish(p)
  BY <1>4, FollowBehind
  DEF ClosePrior, Configure, SetupFails, CloseSetup, Finish, Recording
<1>5. CASE Execute(p)
  BY <1>0, <1>5 DEF Execute, At, Goto, ReturnInv, BoundFirst, ClosedBehind, Closing
<1>6. CASE CallReviewers(p) \/ RecordPhase(p)
  <2>1. pc' = pc /\ pc[p] \in {"executing", "unstaffed"} /\ called' \subseteq called \cup {p}
        /\ (called' = called \/ pc[p] = "executing")
    BY <1>6 DEF CallReviewers, RecordPhase, At
  <2>. QED
    BY <1>0, <2>1 DEF ReturnInv, BoundFirst, ClosedBehind, Closing
<1>7. CASE Return(p)
  <2>1. pc[p] \in Closing /\ op[p] = "none" /\ pc'[p] = "returned" /\ called' = called
    BY <1>7 DEF Return, At, Exit, Goto, Closing
  <2>. QED
    BY <1>0, <2>1 DEF ReturnInv, BoundFirst, ClosedBehind, Closing
<1>8. CASE Store(p)
  <2>1. pc' = pc /\ called' = called /\ op'[p] # "append"
    BY <1>8 DEF Store, StoreStep, AppendEvent, CheckSummary, OpenSummary, WriteSummary,
                ReadSummary, LoadEvents,
                ReplaceSummary, BeginRebuild, EndCall, Leave
  <2>2. op[p] = "append" => Appends(p)
    BY <1>8 DEF Store, StoreStep, AppendEvent, CheckSummary, OpenSummary, WriteSummary,
                ReadSummary, LoadEvents,
                ReplaceSummary, Appends
  <2>3. CASE Appends(p)
    <3>1. Closed' <=> pc[p] \in Closing
      BY <2>3, TakenOverAfterAppend
    <3>2. pc[p] = "bindings" => BindingsRecorded'
      <4>1. pc[p] = "bindings" => pend[p].phase = "configured-bindings"
        BY <2>3 DEF Appends, ReturnInv, BoundFirst
      <4>. QED
        <5>1. Len(events) \in Nat /\ Len(events') = Len(events) + 1
              /\ events'[Len(events')] = pend[p]
          BY <2>3, LastAppended
        <5>2. Len(events') \in 1..Len(events')
          BY <5>1
        <5>. QED
          BY <4>1, <5>1, <5>2 DEF BindingsRecorded
    <3>3. pc[p] # "returned"
      BY <2>3, ProcAssumption DEF Appends, CallInv, Recording
    <3>. QED
      BY <1>0, <2>1, <3>1, <3>2, <3>3 DEF ReturnInv, BoundFirst, ClosedBehind
  <2>4. CASE op[p] # "append"
    BY <1>0, <2>1, <2>4 DEF ReturnInv, BoundFirst, ClosedBehind
  <2>. QED
    BY <2>2, <2>3, <2>4
<1>9. CASE Raise(p) \/ Crash(p) \/ Unreadable(p) \/ Vanished(p)
  BY <1>9, FaultBehind
<1>. QED
  BY <1>2, <1>3, <1>4, <1>5, <1>6, <1>7, <1>8, <1>9, ProcAssumption DEF Steps, RunStep

LEMMA NextBehind == ASSUME LifecycleInv, HistoryInv, ReturnInv, [Next]_vars PROVE ReturnInv'
<1>1. CASE UNCHANGED vars \/ EditSummary
  <2>1. UNCHANGED <<owner, events, called, pc, op, pend>>
    BY <1>1 DEF vars, files, calls, EditSummary, RemoveSummary
  <2>. QED
    BY <2>1 DEF ReturnInv, VerdictIsBacked, BoundFirst, ClosedBehind, BindingsRecorded, Closed
<1>2. ASSUME NEW p \in Procs, Steps(p) PROVE ReturnInv'
  <2>1. VerdictIsBacked'
    BY <1>2, VerdictKept
  <2>2. ASSUME NEW q \in Runs PROVE BoundFirst(q)' /\ ClosedBehind(q)'
    BY <1>2, OwnBehind, OthersBehind
  <2>. QED
    BY <2>1, <2>2 DEF ReturnInv
<1>. QED
  BY <1>1, <1>2 DEF Next, Steps, Procs

-----------------------------------------------------------------------------
(* What a run returns is closed, and a verdict in it is backed: for any    *)
(* number of runs, kills and OSErrors, wherever in record_event they hit.  *)
THEOREM BackedAndClosed == Spec => [](VerdictIsBacked /\ ReturnedIsClosed)
<1>1. Init => HistoryInv /\ ReturnInv
  <2>. SUFFICES ASSUME Init PROVE HistoryInv /\ ReturnInv
    OBVIOUS
  <2>1. HistoryInv
    BY ProcAssumption
    DEF Init, StoreInit, HistoryInv, SoleWriter, Announced, OutcomeBacked, TakenOver, Owned,
        Recording, Prior, Procs
  <2>2. ReturnInv
    BY DEF Init, StoreInit, ReturnInv, VerdictIsBacked, BoundFirst, ClosedBehind, Closing, Procs
  <2>. QED
    BY <2>1, <2>2
<1>2. LifecycleInv /\ HistoryInv /\ ReturnInv /\ [Next]_vars => HistoryInv' /\ ReturnInv'
  BY NextHistory, NextBehind
<1>3. ReturnInv => VerdictIsBacked /\ ReturnedIsClosed
  BY DEF ReturnInv, ClosedBehind, ReturnedIsClosed
<1>. QED
  BY <1>1, <1>2, <1>3, Invariance, PTL DEF Spec

-----------------------------------------------------------------------------
(* The report.                                                             *)

(* While all is quiet a call is a run's, inside the lock, about a          *)
(* published record.                                                       *)
LEMMA SoleCaller ==
  ASSUME LifecycleInv, Quiet, NEW p \in Procs, op[p] # "none" \/ (p \in Runs /\ pc[p] \in Locked)
  PROVE  /\ p \in Runs /\ lock = p /\ pc[p] \in Locked
         /\ op[p] # "none" => Published /\ pc[p] \in Recording
         /\ \A q \in Procs \ {p} : op[q] = "none"
<1>1. ASSUME NEW q \in Procs, op[q] # "none"
      PROVE  q \in Runs /\ pc[q] \in Recording
  BY <1>1 DEF LifecycleInv, CallInv, Quiet
<1>2. p \in Runs /\ pc[p] \in Locked /\ lock = p
  BY <1>1 DEF LifecycleInv, LockInv, Locked
<1>3. op[p] # "none" => Published /\ pc[p] \in Recording
  BY <1>1, <1>2, ProcAssumption DEF LifecycleInv, OwnerInv, Owned, Published
<1>4. \A q \in Procs \ {p} : op[q] = "none"
  BY <1>1, <1>2 DEF LifecycleInv, LockInv, Locked
<1>. QED
  BY <1>2, <1>3, <1>4

(* Quiet cannot be restored.                                               *)
LEMMA QuietBefore ==
  ASSUME LifecycleInv, NEW p \in Procs, Steps(p), Quiet'
  PROVE  Quiet /\ p \in Runs /\ (Start(p) \/ RunStep(p) \/ Store(p) \/ Unreadable(p) \/ Vanished(p))
<1>. USE DEF LifecycleInv, TypeOK
<1>1. ~Raise(p) /\ ~Crash(p)
  BY DEF Raise, Crash, Quiet
<1>2. p \in Readers => ~Summarize(p) /\ ~Summarized(p)
  BY DEF Summarize, Summarized, Goto, Quiet, Ended, Procs
<1>3. faults' = faults
  BY <1>1, <1>2, Zenon
  DEF Steps, Start, RunStep, Acquire, Reject, Publish, Load, ClosePrior, Configure, SetupFails,
      CloseSetup, Execute, CallReviewers, RecordPhase, Finish, Abort, Return, Follow, Store,
      Unreadable, Vanished, Summarize, Summarized
<1>4. ASSUME NEW q \in Readers PROVE pc[q] = "idle"
  <2>1. CASE q # p
    BY <1>4, <2>1, OthersKeep DEF Quiet, Procs
  <2>2. CASE q = p
    <3>1. p \notin Runs
      BY <2>2, ProcAssumption
    <3>2. Store(p) \/ Unreadable(p) \/ Vanished(p)
      BY <1>1, <1>2, <2>2, <3>1 DEF Steps
    <3>3. op[p] # "none"
      BY <3>2 DEF Store, StoreStep, AppendEvent, CheckSummary, OpenSummary, WriteSummary,
                ReadSummary,
                  LoadEvents, ReplaceSummary, Unreadable, Vanished
    <3>4. pc[p] = "regenerating"
      BY <3>1, <3>3 DEF CallInv
    <3>5. pc' = pc \/ pc'[p] \in Ended
      <4>1. CASE Store(p)
        BY <4>1 DEF Store
      <4>2. CASE Unreadable(p) \/ Vanished(p)
        BY <3>4, <4>2 DEF Unreadable, Vanished, Throw, Answering, Exit, Goto, Ended
      <4>. QED
        BY <3>2, <4>1, <4>2
    <3>. QED
      BY <2>2, <3>4, <3>5 DEF Quiet, Ended
  <2>. QED
    BY <2>1, <2>2
<1>5. Quiet
  BY <1>3, <1>4 DEF Quiet
<1>6. p \in Runs
  <2>1. CASE Store(p) \/ Unreadable(p) \/ Vanished(p)
    <3>1. op[p] # "none"
      BY <2>1 DEF Store, StoreStep, AppendEvent, CheckSummary, OpenSummary, WriteSummary,
                ReadSummary,
                  LoadEvents, ReplaceSummary, Unreadable, Vanished
    <3>. QED
      BY <1>5, <3>1, SoleCaller
  <2>. QED
    BY <1>1, <1>2, <2>1 DEF Steps
<1>. QED
  BY <1>1, <1>2, <1>5, <1>6, ProcAssumption DEF Steps

(* A new record_event call, by the only process that can make one: the     *)
(* report is still what it was.                                            *)
LEMMA BeginReports ==
  ASSUME LifecycleInv, ReportInv, Quiet, NEW p \in Runs, pc[p] \in Locked,
         op[p] = "none" \/ (Published /\ (op[p] = "rebuild" \/ summary = NoFile)),
         NEW next \in {"none", "append"}, op' = [op EXCEPT ![p] = next],
         UNCHANGED <<owner, events, torn, summary>>
  PROVE  ReportInv'
<1>1. \A q \in Runs : op'[q] \in {"none", "append"}
  BY SoleCaller DEF LifecycleInv, TypeOK, StoreTypeOK, Procs
<1>2. Published => ~torn /\ UpToDate /\ Updating(p)
  BY DEF ReportInv
<1>3. Published => summary \in {NoFile, Report(events)}
  <2>1. CASE op[p] = "none"
    BY <1>2, <2>1, SoleCaller DEF UpToDate, Procs
  <2>2. CASE op[p] = "rebuild" \/ summary = NoFile
    BY <1>2, <2>2 DEF Updating
  <2>. QED
    BY <2>1, <2>2
<1>4. \A q \in Runs : Updating(q)'
  BY <1>1 DEF Updating
<1>5. Published' => ~torn' /\ UpToDate'
  BY <1>2, <1>3 DEF Published, UpToDate, Report, Placeholder, NoEvent, NoFile
<1>. QED
  BY <1>4, <1>5 DEF ReportInv

LEMMA RunReports ==
  ASSUME LifecycleInv, ReportInv, Quiet, NEW p \in Runs, Start(p) \/ RunStep(p)
  PROVE  ReportInv'
<1>. USE DEF files, calls
<1>1. ASSUME UNCHANGED <<owner, events, torn, summary, op, pend, buf, fd>> PROVE ReportInv'
  BY <1>1 DEF ReportInv, Quiet, Published, UpToDate, Updating
<1>2. ASSUME NEW phase, NEW outcome, NEW from, NEW to, pc[p] \in Locked, Follow(p, from, to, phase, outcome)
      PROVE  ReportInv'
  BY <1>2, BeginReports DEF Follow, At, RecordEvent, Begin
<1>3. CASE Start(p) \/ Acquire(p) \/ Reject(p) \/ Execute(p) \/ CallReviewers(p) \/ Abort(p)
           \/ Return(p)
  BY <1>1, <1>3
  DEF Start, Acquire, Stage, Reject, DiscardStaged, Execute, CallReviewers, Abort, Return
<1>4. CASE Publish(p)
  <2>1. CASE DiscardStaged(p)
    BY <1>1, <1>4, <2>1 DEF Publish, DiscardStaged
  <2>2. CASE PublishStaged(p)
    <3>1. \A q \in Runs : op'[q] = "none"
      BY <1>4, SoleCaller DEF Publish, Locked, Procs, Recording
    <3>. QED
      BY <2>2, <3>1 DEF PublishStaged, ReportInv, UpToDate, Updating
  <2>. QED
    BY <1>4, <2>1, <2>2 DEF Publish
<1>5. CASE Load(p)
  <2>1. pc[p] \in Locked /\ op[p] = "none"
    BY <1>5, SoleCaller DEF Load, Locked, Recording, Procs
  <2>2. UNCHANGED calls \/ \E phase : RecordEvent(p, phase, "none")
    BY <1>5, Zenon DEF Load
  <2>. QED
    BY <1>1, <1>5, <2>1, <2>2, BeginReports DEF Load, RecordEvent, Begin
<1>6. CASE ClosePrior(p) \/ Configure(p) \/ SetupFails(p) \/ CloseSetup(p) \/ Finish(p)
  <2>1. \A from, to, phase, outcome : Follow(p, from, to, phase, outcome) => pc[p] = from
    BY DEF Follow, At
  <2>. QED
    BY <1>2, <1>6, <2>1
    DEF ClosePrior, Configure, SetupFails, CloseSetup, Finish, Locked, Recording
<1>7. CASE RecordPhase(p)
  BY <1>7, BeginReports DEF RecordPhase, At, Begin, Locked, Recording
<1>. QED
  BY <1>3, <1>4, <1>5, <1>6, <1>7 DEF RunStep

LEMMA AppendedIsNonempty ==
  ASSUME NEW s \in Seq(Event), NEW e \in Event
  PROVE  Append(s, e) # <<>>
<1>1. Len(Append(s, e)) = Len(s) + 1 /\ Len(s) \in Nat
  OBVIOUS
<1>. QED
  BY <1>1

(* The file operations: each knows from the last what the report holds.    *)
LEMMA StoreReports ==
  ASSUME LifecycleInv, ReportInv, Quiet, NEW p \in Runs, Store(p)
  PROVE  ReportInv'
<1>. USE DEF files, calls, StoreTypeOK
<1>0. p \in Procs /\ TypeOK /\ StoreTypeOK
  BY DEF Procs, LifecycleInv, TypeOK
<1>1. op[p] # "none" /\ owner' = owner
  BY DEF Store, StoreStep, AppendEvent, CheckSummary, OpenSummary, WriteSummary,
                ReadSummary, LoadEvents,
         ReplaceSummary
<1>2. Published /\ \A q \in Runs \ {p} : op[q] = "none"
  BY <1>0, <1>1, SoleCaller DEF Procs
<1>3. ~torn /\ UpToDate /\ Updating(p)
  BY <1>2 DEF ReportInv
<1>4. \A q \in Runs \ {p} : op'[q] = "none"
  BY <1>0, <1>2 DEF Procs, Store, StoreStep, AppendEvent, CheckSummary, OpenSummary, WriteSummary,
                ReadSummary,
         LoadEvents, ReplaceSummary, BeginRebuild, EndCall, Leave
<1>5. SUFFICES ~torn' /\ UpToDate' /\ Updating(p)'
  BY <1>4 DEF ReportInv, Updating
<1>6. CASE AppendEvent(p)
  <2>1. summary \in {NoFile, Report(events)}
    BY <1>2, <1>3, <1>6 DEF AppendEvent, UpToDate
  <2>2. events' = Append(events, pend[p]) /\ events' # <<>> /\ torn' = torn
        /\ UNCHANGED <<summary, pend, buf, fd>>
    BY <1>0, <1>6, AppendedIsNonempty DEF AppendEvent
  <2>3. CASE events = <<>>
    <3>1. op'[p] = "read" /\ events' = <<pend[p]>>
      BY <1>0, <1>3, <1>6, <2>3 DEF AppendEvent
    <3>. QED
      BY <1>3, <2>1, <2>2, <2>3, <3>1 DEF UpToDate, Updating, Report
  <2>4. CASE events # <<>>
    <3>1. op'[p] = "extend"
      BY <1>0, <1>6, <2>4 DEF AppendEvent
    <3>. QED
      BY <1>3, <2>1, <2>2, <2>4, <3>1 DEF UpToDate, Updating, Report
  <2>. QED
    BY <2>3, <2>4
<1>7. CASE CheckSummary(p) \/ OpenSummary(p)
  <2>1. events # <<>> /\ (summary # NoFile => events = Append(summary, pend[p]))
        /\ UNCHANGED <<events, torn, summary, pend>>
    BY <1>3, <1>7 DEF CheckSummary, OpenSummary, Updating, BeginRebuild
  <2>2. \/ summary = NoFile /\ op'[p] = "rebuild"
        \/ summary # NoFile /\ op'[p] = "open"
        \/ summary # NoFile /\ op'[p] = "write" /\ fd'[p] = "live"
    BY <1>0, <1>7 DEF CheckSummary, OpenSummary, BeginRebuild
  <2>. QED
    BY <1>3, <2>1, <2>2 DEF UpToDate, Updating
<1>8. CASE WriteSummary(p)
  <2>1. /\ op'[p] = "none" /\ UNCHANGED <<events, torn>>
        /\ summary' = IF fd[p] = "live" THEN Append(summary, pend[p]) ELSE summary
    BY <1>0, <1>8 DEF WriteSummary, EndCall, Leave
  <2>2. IF fd[p] = "live" THEN events = Append(summary, pend[p]) ELSE summary = NoFile
    BY <1>3, <1>8 DEF WriteSummary, Updating
  <2>3. events = Append(summary, pend[p]) => events # <<>>
    BY <1>0, AppendedIsNonempty
  <2>. QED
    BY <1>3, <2>1, <2>2, <2>3 DEF UpToDate, Updating, Report
<1>9. CASE ReadSummary(p)
  <2>1. events = <<pend[p]>> /\ summary \in {NoFile, <<Placeholder>>}
        /\ UNCHANGED <<events, torn, summary, pend>>
    BY <1>3, <1>9 DEF ReadSummary, Updating, BeginRebuild
  <2>2. \/ summary = NoFile /\ op'[p] = "rebuild"
        \/ op'[p] = "replace" /\ buf'[p] = <<pend[p]>>
    <3>1. CASE summary = NoFile
      BY <1>0, <1>9, <3>1 DEF ReadSummary, BeginRebuild, HasPlaceholder
    <3>2. CASE summary = <<Placeholder>>
      <4>1. HasPlaceholder /\ <<pend[p]>> \o Tail(summary) = <<pend[p]>>
        BY <3>2 DEF HasPlaceholder, NoFile
      <4>. QED
        BY <1>0, <1>9, <4>1 DEF ReadSummary
    <3>. QED
      BY <2>1, <3>1, <3>2
  <2>. QED
    BY <1>3, <2>1, <2>2 DEF UpToDate, Updating
<1>10. CASE LoadEvents(p)
  <2>1. events # <<>> /\ UNCHANGED <<events, torn, summary>>
    BY <1>3, <1>10 DEF LoadEvents, Updating
  <2>2. op'[p] = "replace" /\ buf'[p] = events
    BY <1>0, <1>10, <2>1 DEF LoadEvents, Report
  <2>. QED
    BY <1>3, <2>1, <2>2 DEF UpToDate, Updating
<1>11. CASE ReplaceSummary(p)
  <2>1. events # <<>> /\ buf[p] = events
    BY <1>3, <1>11 DEF ReplaceSummary, Updating
  <2>2. op'[p] = "none" /\ summary' = events /\ UNCHANGED <<events, torn>>
    BY <1>0, <1>11, <2>1 DEF ReplaceSummary, Leave
  <2>. QED
    BY <1>3, <2>1, <2>2 DEF UpToDate, Updating, Report
<1>. QED
  BY <1>6, <1>7, <1>8, <1>9, <1>10, <1>11 DEF Store, StoreStep

LEMMA NextReports == ASSUME LifecycleInv, ReportInv, [Next]_vars PROVE ReportInv'
<1>. SUFFICES ASSUME Quiet' PROVE ReportInv'
  BY DEF ReportInv
<1>. USE DEF files, calls
<1>1. CASE UNCHANGED vars
  BY <1>1 DEF vars, ReportInv, Quiet, Published, UpToDate, Updating
<1>2. CASE EditSummary
  <2>1. Quiet /\ UNCHANGED <<owner, events, torn, op, pend, buf>> /\ summary' = NoFile
        /\ \A q \in Runs : fd'[q] # "live"
    BY <1>2 DEF EditSummary, RemoveSummary, Unlinked, Quiet, Procs
  <2>. QED
    BY <2>1 DEF ReportInv, Published, UpToDate, Updating
<1>3. ASSUME NEW p \in Procs, Steps(p) PROVE ReportInv'
  <2>1. Quiet /\ p \in Runs
    BY <1>3, QuietBefore
  <2>2. CASE Unreadable(p) \/ Vanished(p)
    <3>1. pc[p] \in Locked /\ Published
      BY <2>1, <2>2, SoleCaller DEF Unreadable, Vanished
    <3>2. PICK next \in {"none", "append"} : op' = [op EXCEPT ![p] = next]
      BY <2>2, Zenon DEF Unreadable, Vanished, Throw, RecoverWith, EndCall, Leave
    <3>. QED
      BY <2>1, <2>2, <3>1, <3>2, BeginReports DEF Unreadable, Vanished
  <2>. QED
    BY <1>3, <2>1, <2>2, QuietBefore, RunReports, StoreReports
<1>. QED
  BY <1>1, <1>2, <1>3 DEF Next, Steps, Procs

(* While nothing fails and no summary command runs, the report is the one  *)
(* regenerate_summary() would write, or missing, between any two calls of  *)
(* record_event: for any number of runs, events and removals by the user.  *)
THEOREM FaithfulSummary == Spec => []SummaryIsFaithful
<1>1. Init => ReportInv
  BY DEF Init, StoreInit, ReportInv, Published
<1>2. LifecycleInv /\ ReportInv /\ [Next]_vars => ReportInv'
  BY NextReports
<1>3. ReportInv => SummaryIsFaithful
  BY DEF ReportInv, SummaryIsFaithful, Quiet, UpToDate, Procs
<1>. QED
  BY <1>1, <1>2, <1>3, Invariance, PTL DEF Spec
=============================================================================
