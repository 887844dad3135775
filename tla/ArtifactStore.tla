--------------------------- MODULE ArtifactStore ---------------------------
(***************************************************************************)
(* The files kept for ONE review package, and the steps in which the calls *)
(* of evidence/artifacts.py touch them: manifest and record published by   *)
(* one rename, events.jsonl that only grows, and summary.md, which each    *)
(* record_event extends in place instead of rebuilding.  ReviewLifecycle   *)
(* composes these steps with the package lock and the processes.           *)
(*                                                                         *)
(* A line of summary.md is modelled by the event it renders.  A process is *)
(* inside at most one call at a time; op says which file operation of that *)
(* call comes next.                                                        *)
(***************************************************************************)
EXTENDS Integers, Sequences

CONSTANTS Runs,       \* processes that review the package
          Readers,    \* processes of the `summary` command
          NoRun       \* not a process

ASSUME ProcAssumption == Runs \cap Readers = {} /\ NoRun \notin Runs \cup Readers

Procs == Runs \cup Readers

VARIABLES owner,      \* the run whose rename published the directory
          temps,      \* processes whose staging directory exists
          events,     \* the complete lines of events.jsonl
          torn,       \* some line of events.jsonl is only partly written
          summary,    \* the lines of summary.md
          op,         \* op[p]: the next file operation of p's call
          pend,       \* pend[p]: the event p is recording
          buf,        \* buf[p]: the lines p is about to write to summary.md
          fd          \* fd[p]: p's descriptor of summary.md

files == <<owner, temps, events, torn, summary>>
calls == <<op, pend, buf, fd>>

Phases == {"package", "configured-bindings", "execution-error", "body",
           "challenge-response", "challenge-unavailable", "terminal"}
Outcomes == {"ACCEPT", "CHANGE", "ESCALATE", "INCOMPLETE"}

(* by is the recording process, which the file does not hold; plain says   *)
(* that no payload text contains a character that str.splitlines() takes   *)
(* for a line end but canonical JSON leaves as it is.                      *)
Event == [phase : Phases \cup {"placeholder"}, by : Runs \cup {NoRun},
          outcome : Outcomes \cup {"none"}, plain : BOOLEAN]

NoEvent == [phase |-> "placeholder", by |-> NoRun, outcome |-> "none", plain |-> TRUE]
Placeholder == NoEvent       \* the line "- No phases recorded."
NoFile == <<>>               \* a report is never empty

(* What events() accepts: every line of the file parses.                   *)
Readable == ~torn /\ \A i \in 1..Len(events) : events[i].plain

(* What regenerate_summary() renders.                                      *)
Report(es) == IF es = <<>> THEN <<Placeholder>> ELSE es

HasPlaceholder == summary # NoFile /\ Head(summary) = Placeholder

Published == owner # NoRun

StoreTypeOK ==
  /\ owner \in Runs \cup {NoRun}
  /\ temps \subseteq Runs
  /\ events \in Seq(Event)
  /\ torn \in BOOLEAN
  /\ summary \in Seq(Event)
  /\ op \in [Procs -> {"none", "append", "extend", "open", "write", "read", "rebuild", "replace"}]
  /\ pend \in [Procs -> Event]
  /\ buf \in [Procs -> Seq(Event)]
  /\ fd \in [Procs -> {"none", "live", "stale"}]

StoreInit ==
  /\ owner = NoRun
  /\ temps = {}
  /\ events = <<>>
  /\ torn = FALSE
  /\ summary = NoFile
  /\ op = [p \in Procs |-> "none"]
  /\ pend = [p \in Procs |-> NoEvent]
  /\ buf = [p \in Procs |-> <<>>]
  /\ fd = [p \in Procs |-> "none"]

-----------------------------------------------------------------------------
(* ArtifactStore.create: everything is written in a hidden directory ...   *)
Stage(p) == /\ temps' = temps \cup {p}
            /\ UNCHANGED <<owner, events, torn, summary>>

(* ... that one rename makes the package's, with an empty events.jsonl and *)
(* the empty report.                                                       *)
PublishStaged(p) == /\ ~Published
                    /\ owner' = p
                    /\ temps' = temps \ {p}
                    /\ events' = <<>>
                    /\ torn' = FALSE
                    /\ summary' = Report(<<>>)

(* The rename fails on an existing package, or an exception came first.    *)
DiscardStaged(p) == /\ temps' = temps \ {p}
                    /\ UNCHANGED <<owner, events, torn, summary>>

-----------------------------------------------------------------------------
(* record_event(phase, payload) is called.                                 *)
Begin(p, e) == /\ op' = [op EXCEPT ![p] = "append"]
               /\ pend' = [pend EXCEPT ![p] = e]
               /\ UNCHANGED <<buf, fd>>

(* regenerate_summary() is called.                                         *)
BeginRebuild(p) == /\ op' = [op EXCEPT ![p] = "rebuild"]
                   /\ UNCHANGED <<pend, buf, fd>>

(* The call returns, raises, or dies with its process.                     *)
Leave(p) == /\ op' = [op EXCEPT ![p] = "none"]
            /\ pend' = [pend EXCEPT ![p] = NoEvent]
            /\ buf' = [buf EXCEPT ![p] = <<>>]

EndCall(p) == Leave(p) /\ fd' = [fd EXCEPT ![p] = "none"]

(* events.jsonl is opened for append and the line written and synced; its  *)
(* size beforehand decides how the report is extended.                     *)
AppendEvent(p) ==
  /\ op[p] = "append"
  /\ events' = Append(events, pend[p])
  /\ op' = [op EXCEPT ![p] = IF events = <<>> /\ ~torn THEN "read" ELSE "extend"]
  /\ UNCHANGED <<owner, temps, torn, summary, pend, buf, fd>>

(* The write is cut short: nothing, part of the line, or all of it is in   *)
(* the file when the call raises or the process dies.                      *)
PartialAppend(p) ==
  /\ \/ UNCHANGED <<events, torn>>
     \/ op[p] = "append" /\ torn' = TRUE /\ UNCHANGED events
     \/ op[p] = "append" /\ events' = Append(events, pend[p]) /\ UNCHANGED torn
  /\ UNCHANGED <<owner, summary>>

(* A later event: a missing report is rebuilt, ...                         *)
CheckSummary(p) ==
  /\ op[p] = "extend"
  /\ \/ /\ summary = NoFile
        /\ BeginRebuild(p)
     \/ /\ summary # NoFile
        /\ op' = [op EXCEPT ![p] = "open"]
        /\ UNCHANGED <<pend, buf, fd>>
  /\ UNCHANGED files

(* Mutant of OpenSummary: a report that is gone by then is created.        *)
OpenSummaryCreating(p) ==
  /\ op[p] = "open"
  /\ op' = [op EXCEPT ![p] = "write"]
  /\ fd' = [fd EXCEPT ![p] = "live"]
  /\ UNCHANGED <<files, pend, buf>>

(* ... one that was there is then opened for append, if it still is.       *)
OpenSummary(p) ==
  /\ op[p] = "open"
  /\ summary # NoFile
  /\ op' = [op EXCEPT ![p] = "write"]
  /\ fd' = [fd EXCEPT ![p] = "live"]
  /\ UNCHANGED <<files, pend, buf>>

(* The line goes to the file that was opened, which may by now have been   *)
(* replaced or removed.                                                    *)
WriteSummary(p) ==
  /\ op[p] = "write"
  /\ summary' = IF fd[p] = "live" THEN Append(summary, pend[p]) ELSE summary
  /\ EndCall(p)
  /\ UNCHANGED <<owner, temps, events, torn>>

(* The first event: its line takes the placeholder's place.                *)
ReadSummary(p) ==
  /\ op[p] = "read"
  /\ \/ /\ HasPlaceholder
        /\ op' = [op EXCEPT ![p] = "replace"]
        /\ buf' = [buf EXCEPT ![p] = <<pend[p]>> \o Tail(summary)]
        /\ UNCHANGED <<pend, fd>>
     \/ /\ ~HasPlaceholder
        /\ BeginRebuild(p)
  /\ UNCHANGED files

(* regenerate_summary(): load every event, render, ...                     *)
LoadEvents(p) ==
  /\ op[p] = "rebuild"
  /\ Readable
  /\ op' = [op EXCEPT ![p] = "replace"]
  /\ buf' = [buf EXCEPT ![p] = Report(events)]
  /\ UNCHANGED <<files, pend, fd>>

Unlinked(f) == [q \in Procs |-> IF f[q] = "live" THEN "stale" ELSE f[q]]

(* ... and _write_private: a temporary file renamed over summary.md, which *)
(* leaves every other open descriptor on the old file.                     *)
ReplaceSummary(p) ==
  /\ op[p] = "replace"
  /\ summary' = buf[p]
  /\ Leave(p)
  /\ fd' = [Unlinked(fd) EXCEPT ![p] = "none"]
  /\ UNCHANGED <<owner, temps, events, torn>>

(* The user removes summary.md.                                            *)
RemoveSummary == /\ summary # NoFile
                 /\ summary' = NoFile
                 /\ fd' = Unlinked(fd)
                 /\ UNCHANGED <<owner, temps, events, torn, op, pend, buf>>

StoreStep(p) == \/ AppendEvent(p)
                \/ CheckSummary(p)
                \/ OpenSummary(p)
                \/ WriteSummary(p)
                \/ ReadSummary(p)
                \/ LoadEvents(p)
                \/ ReplaceSummary(p)
=============================================================================
