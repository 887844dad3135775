----------------------------- MODULE FullReview -----------------------------
(***************************************************************************)
(* cli.run_full: the patch of a whole tree is split into chunks of whole   *)
(* files, each at most --max-patch-bytes if one file alone is not more,    *)
(* and every chunk is reviewed as a package of its own, one after the      *)
(* other.  Several invocations for the same revision may run at once, die  *)
(* and be repeated; they share the chunks' records.                        *)
(*                                                                         *)
(* What one record goes through is module ReviewLifecycle; here it takes   *)
(* the steps of ReviewRecord, which ChunksAreRecords says.  The            *)
(* invocations have the same options, so a chunk's identity is its index:  *)
(* patch, index and total are the same.                                    *)
(***************************************************************************)
EXTENDS Integers, FiniteSets, SequencesExt

CONSTANTS Runs,        \* invocations of `review-fabric --full`
          Nobody,      \* not a run
          Outcomes,    \* the verdicts an execution may end in
          Requested,   \* --max-patch-bytes, or NotGiven
          NotGiven,
          Default,     \* DEFAULT_MAX_PATCH_EVIDENCE_BYTES
          MaxFiles,    \* bound: files of the tree
          MaxSize,     \* bound: bytes of one file's diff
          MaxFaults    \* bound: exceptions and kills

ASSUME RunAssumption == Nobody \notin Runs
ASSUME OutcomeAssumption ==
         Outcomes \subseteq {"ACCEPT", "CHANGE", "ESCALATE", "INCOMPLETE"}
ASSUME CapAssumption == Default \in Nat /\ Requested \in Nat \cup {NotGiven}
ASSUME BoundAssumption == {MaxFiles, MaxSize, MaxFaults} \subseteq Nat

(* A file's segment of the patch, by its size.                             *)
File == [size : 1..MaxSize]

VARIABLES files,       \* the patch of the tree, by segments
          chunks,      \* what split_patch_into_chunks makes of it
          pc,          \* where each run is
          cursor,      \* the chunk each run is at
          skipped,     \* oversized_chunks of each run
          stage,       \* how far each chunk's record is
          owner,       \* the run that created it
          asked,       \* the runs that called a reviewer about it
          verdict,     \* its terminal outcome, or "none"
          lock,        \* the run that holds its package lock
          faults       \* exceptions and kills so far

patch == <<files, chunks>>
vars == <<patch, pc, cursor, skipped, stage, owner, asked, verdict, lock, faults>>
records == <<stage, owner, asked, verdict>>

-----------------------------------------------------------------------------
(* `max_patch_bytes or DEFAULT` in run_full, `is not None` in from_patch.  *)
ChunkBound == IF Requested \in {NotGiven, 0} THEN Default ELSE Requested
EvidenceBound == IF Requested = NotGiven THEN Default ELSE Requested

Bytes(chunk) ==
  LET sum[n \in 0..Len(chunk)] == IF n = 0 THEN 0 ELSE sum[n - 1] + chunk[n].size
  IN  sum[Len(chunk)]

(* Mutant of Put: only the new file is compared with the bound.            *)
PutAnyway(done, file) ==
  IF done = <<>> \/ file.size > ChunkBound
  THEN Append(done, <<file>>)
  ELSE [done EXCEPT ![Len(done)] = Append(@, file)]

(* One round of the second loop of split_patch_into_chunks.                *)
Put(done, file) ==
  IF done = <<>> \/ Bytes(Last(done)) + file.size > ChunkBound
  THEN Append(done, <<file>>)
  ELSE [done EXCEPT ![Len(done)] = Append(@, file)]

Split ==
  LET done[n \in 0..Len(files)] == IF n = 0 THEN <<>> ELSE Put(done[n - 1], files[n])
  IN  done[Len(files)]

Oversized(chunk) == Bytes(chunk) > ChunkBound

Total == Len(chunks)

-----------------------------------------------------------------------------
Ended == {"refused", "returned", "failed", "crashed"}
Holding == {"opening", "reviewing", "closing"}

TypeOK == /\ files \in Seq(File)
          /\ chunks \in Seq(Seq(File))
          /\ pc \in [Runs -> {"idle", "next", "waiting"} \cup Holding \cup Ended]
          /\ cursor \in [Runs -> 1..(Total + 1)]
          /\ skipped \in [Runs -> SUBSET (1..Total)]
          /\ stage \in [1..Total -> {"absent", "running", "closing", "closed"}]
          /\ owner \in [1..Total -> Runs \cup {Nobody}]
          /\ asked \in [1..Total -> SUBSET Runs]
          /\ verdict \in [1..Total -> Outcomes \cup {"none", "ESCALATE"}]
          /\ lock \in [1..Total -> Runs \cup {Nobody}]
          /\ \A r \in Runs, c \in 1..Total :
                lock[c] = r <=> pc[r] \in Holding /\ cursor[r] = c
          /\ faults \in Nat

Init == /\ files \in UNION {[1..n -> File] : n \in 0..MaxFiles}
        /\ chunks = Split
        /\ pc = [r \in Runs |-> "idle"]
        /\ cursor = [r \in Runs |-> 1]
        /\ skipped = [r \in Runs |-> {}]
        /\ stage = [c \in 1..Total |-> "absent"]
        /\ owner = [c \in 1..Total |-> Nobody]
        /\ asked = [c \in 1..Total |-> {}]
        /\ verdict = [c \in 1..Total |-> "none"]
        /\ lock = [c \in 1..Total |-> Nobody]
        /\ faults = 0

Goto(r, point) == pc' = [pc EXCEPT ![r] = point]
Advance(r) == cursor' = [cursor EXCEPT ![r] = @ + 1]
Unlock(r) == lock' = [c \in 1..Total |-> IF lock[c] = r THEN Nobody ELSE lock[c]]
Chunk(r) == chunks[cursor[r]]

(* The tree's patch is collected and split.  It is not when git fails, the *)
(* patch holds a secret, or the configuration does not load.               *)
Collect(r) == /\ pc[r] = "idle"
              /\ Goto(r, "next") \/ Goto(r, "refused")
              /\ UNCHANGED <<patch, cursor, skipped, records, lock, faults>>

(* Mutant of Skip: the chunk is passed over in silence.                    *)
SkipSilently(r) == /\ pc[r] = "next"
                   /\ cursor[r] <= Total
                   /\ Oversized(Chunk(r))
                   /\ Advance(r)
                   /\ UNCHANGED <<patch, pc, skipped, records, lock, faults>>

Skip(r) == /\ pc[r] = "next"
           /\ cursor[r] <= Total
           /\ Oversized(Chunk(r))
           /\ skipped' = [skipped EXCEPT ![r] = @ \cup {cursor[r]}]
           /\ Advance(r)
           /\ UNCHANGED <<patch, pc, records, lock, faults>>

(* FrozenPatchEvidence.from_patch: beyond its own bound it raises, which   *)
(* nothing in run_full catches.                                            *)
Freeze(r) == /\ pc[r] = "next"
             /\ cursor[r] <= Total
             /\ ~Oversized(Chunk(r))
             /\ IF Bytes(Chunk(r)) > EvidenceBound THEN Goto(r, "failed")
                                                   ELSE Goto(r, "waiting")
             /\ UNCHANGED <<patch, cursor, skipped, records, lock, faults>>

(* Mutant of Acquire: the lock is not waited for.                          *)
AcquireAnyway(r) == /\ pc[r] = "waiting"
                    /\ lock' = [lock EXCEPT ![cursor[r]] = r]
                    /\ Goto(r, "opening")
                    /\ UNCHANGED <<patch, cursor, skipped, records, faults>>

Acquire(r) == /\ pc[r] = "waiting"
              /\ lock[cursor[r]] = Nobody
              /\ lock' = [lock EXCEPT ![cursor[r]] = r]
              /\ Goto(r, "opening")
              /\ UNCHANGED <<patch, cursor, skipped, records, faults>>

Create(r) == /\ pc[r] = "opening"
             /\ stage[cursor[r]] = "absent"
             /\ stage' = [stage EXCEPT ![cursor[r]] = "running"]
             /\ owner' = [owner EXCEPT ![cursor[r]] = r]
             /\ Goto(r, "reviewing")
             /\ UNCHANGED <<patch, cursor, skipped, asked, verdict, lock, faults>>

(* Mutant of Reopen: a record left open is reviewed again.                 *)
ReopenResuming(r) == /\ pc[r] = "opening"
                     /\ stage[cursor[r]] # "absent"
                     /\ Goto(r, "reviewing")
                     /\ UNCHANGED <<patch, cursor, skipped, records, lock, faults>>

(* The record is there: it is returned if it is closed.  An open one is    *)
(* taken over to be closed, as is one whose last taker died over that.     *)
Return(r) == /\ pc[r] = "opening"
             /\ stage[cursor[r]] = "closed"
             /\ Goto(r, "next")
             /\ Advance(r)
             /\ Unlock(r)
             /\ UNCHANGED <<patch, skipped, records, faults>>

Reopen(r) == /\ pc[r] = "opening"
             /\ stage[cursor[r]] \in {"running", "closing"}
             /\ stage' = [stage EXCEPT ![cursor[r]] = "closing"]
             /\ Goto(r, "closing")
             /\ UNCHANGED <<patch, cursor, skipped, owner, asked, verdict, lock, faults>>

CloseAs(r, outcome) == /\ stage' = [stage EXCEPT ![cursor[r]] = "closed"]
                       /\ verdict' = [verdict EXCEPT ![cursor[r]] = outcome]
                       /\ Goto(r, "next")
                       /\ Advance(r)

Abandon(r) == /\ pc[r] = "closing"
              /\ CloseAs(r, "ESCALATE")
              /\ Unlock(r)
              /\ UNCHANGED <<patch, skipped, owner, asked, faults>>

Ask(r) == /\ pc[r] = "reviewing"
          /\ asked' = [asked EXCEPT ![cursor[r]] = @ \cup {r}]
          /\ UNCHANGED <<patch, pc, cursor, skipped, stage, owner, verdict, lock, faults>>

(* Mutant of Finish: the lock is kept while the next chunk is reviewed.    *)
FinishLocked(r) == /\ pc[r] = "reviewing"
                   /\ \E outcome \in Outcomes : CloseAs(r, outcome)
                   /\ UNCHANGED <<patch, skipped, owner, asked, lock, faults>>

(* The execution, or the failed setup, closes its record; only with a      *)
(* reviewer's answer as ACCEPT or CHANGE.                                  *)
Finish(r) == /\ pc[r] = "reviewing"
             /\ \E outcome \in Outcomes :
                   /\ outcome \in {"ACCEPT", "CHANGE"} => r \in asked[cursor[r]]
                   /\ CloseAs(r, outcome)
             /\ Unlock(r)
             /\ UNCHANGED <<patch, skipped, owner, asked, faults>>

Complete(r) == /\ pc[r] = "next"
               /\ cursor[r] > Total
               /\ Goto(r, "returned")
               /\ UNCHANGED <<patch, cursor, skipped, records, lock, faults>>

(* The exit status main() returns, if the run ends by itself.              *)
ExitStatus(r) == IF pc[r] \in {"refused", "failed"} \/ skipped[r] # {} THEN 2 ELSE 0

(* An exception out of _review_package ends the run, with the chunks that  *)
(* remain; a kill does the same and reports nothing.                       *)
Fault(r) == /\ faults < MaxFaults
            /\ faults' = faults + 1
            /\ \/ pc[r] \in {"waiting"} \cup Holding /\ Goto(r, "failed")
               \/ pc[r] \notin {"idle"} \cup Ended /\ Goto(r, "crashed")
            /\ Unlock(r)
            /\ UNCHANGED <<patch, cursor, skipped, records>>

Step(r) == \/ Skip(r) \/ Freeze(r) \/ Acquire(r) \/ Create(r) \/ Return(r) \/ Reopen(r)
           \/ Abandon(r) \/ Finish(r) \/ Complete(r)

Next == \E r \in Runs : Collect(r) \/ Step(r) \/ Ask(r) \/ Fault(r)

Spec == Init /\ [][Next]_vars

(* A started run is scheduled, flock wakes a waiter, reviewer calls have   *)
(* timeouts; nothing forces an invocation or a fault.                      *)
FairSpec == Spec /\ \A r \in Runs : WF_vars(Step(r))

-----------------------------------------------------------------------------
(* The chunks are the patch: every file is in one, whole and in order, and *)
(* a chunk above the cap is one file that is so by itself.                 *)
ChunksAreThePatch ==
  /\ FlattenSeq(chunks) = files
  /\ \A c \in 1..Total : Oversized(chunks[c]) => Len(chunks[c]) = 1

(* When a run returns, every file is in a chunk whose record is closed, or *)
(* in one the run reports as too large, in which case its status is 2; a   *)
(* chunk within the cap is never given up, and no chunk's size ends a run, *)
(* unless --max-patch-bytes is 0.                                          *)
EveryFileIsAccounted ==
  \A r \in Runs :
     /\ pc[r] = "failed" => faults > 0 \/ Requested = 0
     /\ pc[r] = "returned" =>
        /\ \A c \in 1..Total :
              IF Oversized(chunks[c]) THEN c \in skipped[r] /\ stage[c] = "absent"
                                      ELSE c \notin skipped[r] /\ stage[c] = "closed"
        /\ ExitStatus(r) = 0 <=> \A c \in 1..Total : stage[c] = "closed"

(* Every chunk's record is a ReviewRecord, however often the command is    *)
(* repeated, at once or after it died: one run asks reviewers about the    *)
(* chunk, and a chunk left open is closed as ESCALATE.                     *)
ChunkRecord(c) == INSTANCE ReviewRecord
                    WITH NoRun <- Nobody, stage <- stage[c], owner <- owner[c],
                         asked <- asked[c], verdict <- verdict[c]

ChunksAreRecords == [][\A c \in 1..Total : [ChunkRecord(c)!Next]_(ChunkRecord(c)!vars)]_vars

(* Every run ends, whatever the others do with the locks.                  *)
EveryRunEnds == \A r \in Runs : pc[r] = "next" ~> pc[r] \in Ended
-----------------------------------------------------------------------------
(* Why: the parts of an inductive invariant.                               *)

(* A run is at a chunk there is, and what it holds is as it left it: its   *)
(* own record while it reviews, one taken over while it closes.            *)
AtInv(r) ==
  /\ pc[r] \in {"waiting"} \cup Holding => cursor[r] <= Total /\ ~Oversized(Chunk(r))
  /\ pc[r] = "reviewing" => stage[cursor[r]] = "running" /\ owner[cursor[r]] = r
  /\ pc[r] = "closing" => stage[cursor[r]] = "closing"

(* A run that made a chunk's record is still at it or never comes back.    *)
PastInv(r) ==
  \A c \in 1..Total :
     owner[c] = r => \/ pc[r] = "reviewing" /\ cursor[r] = c
                     \/ cursor[r] > c
                     \/ pc[r] \in Ended

(* The chunks behind a run are closed or skipped.                          *)
BehindInv(r) ==
  \A c \in 1..Total :
     IF c < cursor[r] THEN /\ c \in skipped[r] <=> Oversized(chunks[c])
                           /\ ~Oversized(chunks[c]) => stage[c] = "closed"
                      ELSE c \notin skipped[r]

FailedInv(r) == /\ pc[r] = "failed" => faults > 0 \/ Requested = 0
                /\ pc[r] = "returned" => cursor[r] > Total

ReviewInv ==
  /\ TypeOK
  /\ \A c \in 1..Total : Oversized(chunks[c]) => stage[c] = "absent"
  /\ \A r \in Runs : AtInv(r) /\ PastInv(r) /\ BehindInv(r) /\ FailedInv(r)

=============================================================================
