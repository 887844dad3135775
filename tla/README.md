# Verification of review-fabric

review-fabric is a command-line program that captures a Git comparison as an
immutable *review package*, selects reviewer roles by risk, calls the configured
model providers, and leaves a replayable record under the repository's private
`.review-fabric/` directory. What it promises is mostly about what must *not*
happen: a package's reviewers are not called twice, a record once closed does not
change, a failure never turns into a verdict, a citation that is not in the frozen
patch is never accepted. The modules in this directory state those promises over
the code's own steps; TLC checks them on small instances and TLAPS proves the most
important ones for every value of the constants.

All paths below are relative to `src/src/review_fabric/` unless they begin with
`src/`.

## 1. The system

| component | code | state it keeps | operations |
|---|---|---|---|
| artifact store | `evidence/artifacts.py` | per package: the published directory, `events.jsonl`, `summary.md`, hidden staging directories, a lock file beside them | `acquire_package_lock`, `create`, `open`, `events`, `record_event`, `regenerate_summary` |
| review lifecycle | `cli._review_package`, `main` (`summary`) | where each process is; nothing beyond the store's files survives it | take the lock, create or reopen, close an abandoned record, bind reviewers, execute, return |
| orchestration | `orchestration.py` | one execution's outcomes, groups, escalation | first pass with a thread per reviewer and retries, then the phases of `execute_plan` |
| adjudication | `domain/adjudication.py` | none | `make_dispute`, `ChallengeResponse.validate_for`, `adjudicate` |
| review policy | `domain/policy.py` | none | `select_plan` |
| normalization | `domain/normalization.py` | the clusters under construction | grouping and a group's identity |
| patch evidence | `domain/models.py` | the frozen patch | numbering of head lines, `supports_citation`, `lookup` |
| providers | `reviewers/providers.py` | one conversation per call | `review`, `review_challenge`, `http_post_json` |
| full review | `cli.run_full`, `evidence/git.py` | the chunks and what was skipped | split, skip, one review per chunk |
| command line | `cli.main`, `cli.run` | where each invocation is, what it has resolved so far | a comparison by `--pr`, `--diff` or two revisions, `--full`, `summary` |
| git evidence | `evidence/git.py` | none; it reads the clone | resolve two revisions, collect and bound the patch |
| pull request evidence | `evidence/github.py` | the private refs in the clone, which all invocations for the pull request share | `gh pr view`, `git fetch`, the check that the commits are there |
| configuration | `configuration.py` | none; it reads the binding file | load and validate bindings, select and bind a plan's roles |
| credentials | `credentials.py` | none; it reads environment, dotenv file and key ring | resolve a binding's credential |
| redaction | `redaction.py` | none | `redact`, over the patch before it is frozen and over every record |
| serialization, findings, errors | | none | pure functions and value types |

How they interact. `main` names a range (for `--pr` it asks the host for the two
commits and fetches them into private refs), resolves its two ends in the clone, one
after the other, collects the patch between them and redacts it, loads the configuration, builds a
package (with `--full`, one per chunk) and calls `_review_package`. Host, clone,
binding file and credentials belong to others and may change between any two of these
steps. The record's name is a digest of the package: its range, its patch, and its
constraints, one list of plain texts: the user's, then those for the pull request, the
declared risks and the configuration's identity. `_review_package` binds a reviewer to each of the plan's roles, with the
credential found for it, before any of them is called. It holds a `flock` on the
package for the whole lifecycle, so processes meet only at the lock, at the rename
that publishes the directory, and at the two files; the `summary` command touches
the same files without the lock. `execute_plan` calls every reviewer in a thread of
its own, joins all of them, and from then on is one thread that calls
`record_event` phase by phase. A reviewer's thread talks to its provider in turns.

What is hard about it: processes killed between any two file operations (and the
later process that has to make sense of what is left); two files that must agree
and cannot be written together; a reader without the lock; reviewer threads that
fail, retry and finish in any order; an exception inside a `try` block meant for
another; one challenge shared by several groups; a conversation whose length the
model chooses; a line counter that has to stay in step with git over hunks,
deletions and files, behind a redaction that matches over line ends; names made of
texts that two sides may write; byte bounds compared in two places; revisions, files and refs
that others change between two looks at them; and three places (the file's
validation, the selection of roles, the adapter) that each decide for themselves what
a usable binding is.

The properties that make each component right are listed in section 3, and the
places where it could go wrong, each with its line, under `hazards` in
`PROJECT.json`.

## 2. The modules

    ReviewRecord          abstract: the record of one package
      ^ implemented by      ReviewLifecycle EXTENDS ArtifactStore
      ^ implemented by      Orchestration   EXTENDS ReviewPolicy
      ^ implemented by      every chunk of FullReview
    ReviewerCall          abstract: one reviewer's thread
      ^ implemented by      ProviderConversation
      ^ every thread of     Orchestration
    Normalization, PatchEvidence     algorithms as machines, beside a reference
    Invocation            EXTENDS PullRequest, Configuration, ReviewPolicy:
                          whole commands beside a changing host, clone and setup

The composition is by these two abstract modules. `ReviewLifecycle` takes
`execute_plan` to be "some reviewer calls, some events, and a terminal event whose
ACCEPT or CHANGE needs a call before it"; `Orchestration` shows that the real one
does no more (`Orchestration!ImplementsRecord`). `Orchestration` takes a reviewer's
thread to be "at most `retry_limit + 1` attempts, then an answer or the last error";
`ThreadsAreCalls` shows its threads are instances of `ReviewerCall`, and
`ProviderConversation!ImplementsCall` that the conversations with providers are.
In `FullReview` each chunk's part of the state is an instance of `ReviewRecord`
(`ChunksAreRecords`), so it takes of a record what the other two modules show it to
be. `Invocation` names one set of roles by `ReviewPolicy!SelectPlan`, the operator
`Orchestration` executes; of a record it keeps what it was made for and whom its
source went to.

**ArtifactStore** has the files of one package and the single file operations the
store's calls consist of. `op[p]` is the next operation of the call process `p` is
in, `pend[p]`, `buf[p]` and `fd[p]` are that call's locals. `record_event` is
`Begin`, `AppendEvent` (or `PartialAppend`, when the write is cut short), then
either `CheckSummary`/`OpenSummary`/`WriteSummary` (the report extended in place, if it
is there and still there when it is opened), `ReadSummary`/`ReplaceSummary` (the first
event) or `LoadEvents`/`ReplaceSummary` (rebuilt). `fd = "stale"` is the descriptor of a file
another process has replaced or removed. A line of the report is the event it renders.

**ReviewLifecycle** composes those steps with the lock and the program counters of
`_review_package`; each point in `Recording` is one `record_event` call of the code,
and `Follow` is "that call returned, the next begins". `Raise` is an `OSError` at
any operation, `Vanished` the `FileNotFoundError` of a report that the user removed
between `CheckSummary` and `OpenSummary`, `Throw` where the code catches either
(nowhere, in the setup `try`, or in the challenge's `try`), `Crash` a kill, after which
the kernel frees the lock. A run whom the removal ends is `lost`: it needs no fault.

**ReviewPolicy** is `select_plan` as a function of the risk indicators.

**Orchestration** is `execute_plan` with one action per `record_event` call and one
`Attempt` action per reviewer thread. A finding is what the code branches on:
defect, severity, confidence, and whether its citation fits a challenge's limits.
Every `record_event` may raise, with or without the line having been written.

**ReviewerCall** and **ProviderConversation**: `ProviderConversation` is
`ProviderReviewer.review` under the retries of `run_first_pass`, and
`review_challenge`. One action per request (`Ask`), per answer or error (`Receive`,
`Break`), per batch of tool calls (`RunTools`), for the turn limit (`GiveUp`) and for
the validation at the end (`Conclude`). The wire formats are one variable, because
they differ in three guards only: whether `stopReason` decides, who checks the tool's
name, and whether results are one message or several.

**Normalization** places findings one by one, as `normalize_findings` does;
`GroupsAreDefects` compares the result with the classes of overlap.

**PatchEvidence** has git, writing a patch line by line (external: what
`git diff-tree --no-renames --unified=3 --patch` writes), `redact`, through which each
line goes (`Clean` is what it leaves of a line, `After` whether a match is still open at
the line's end, `Pass` that an open match takes the next line), and the reader of
`_iter_patch_lines`, which sees only what is left. `shown` is what git wrote for the head
side, `reader` what the code made of it, and `merged` the files of which redaction took a
line into one of another's, or of their own. A text has what redaction does with it as
a field, since which texts match is a matter of the patterns. `Lookup` is the cite
tool's answer, `Accepted` what a finding must pass.

**FullReview** has `split_patch_into_chunks` as a recursive function (`Split`, one
`Put` per file) and several invocations of `run_full` over the chunks' records and locks.

Its `Freeze` is `from_patch` with the other reading of the same option (`ChunkBound`,
`EvidenceBound`). A file there is a section of the redacted patch, between two
`diff --git` lines that are left.

**PullRequest** is what revisions are read from. `hub` and `local` are whole histories
(of the host's pull request and of the user's two branches), so that a property can
ask what was there when; `refs` are the private refs and `objects` the commits in the
clone. `Push` and `Move` are others' actions: a push advances or rewrites either end,
and its result arrives only with a fetch.

**Configuration** has the binding file as a record of bindings and roles, and one
operator per place that judges it: `ValidBinding` and `Loads` (`load_configuration`),
`Selects` (`validate_selected_roles`), `Resolve` (`resolve_credential`) and `Ready`
(what an adapter of `providers.py` asks for before it sends).

**Invocation** is `main` and `run` for one comparison, `n` of them at once: `View`,
`Fetch`, `ResolveEnd` twice, `Collect`, `Configure`, `Acquire`, `Create` or `Reopen`,
`SelectRoles`, a `Bind` per role, `Execute`, an `Ask` per reviewer, `Finish`; `GiveUp`
is the setup's `except`, `Fault` a kill or an exception anywhere, `Edit` a change of
the binding file or of the credentials' surroundings. `since` remembers at which
moments a run began, viewed and fetched; nothing reads it but the properties. `Made` is
what a run is about, `Package` what its record is named by: the range and the one list
of texts that `_package_constraints` makes, in which the user's texts may be the same
as the program's. Only the two digests (of a package and of a configuration) are taken
to be injective.

`MC*` modules hold the instances. A definition called a *mutant* in a module is the
code with a plausible slip in it; `PROJECT.json` pairs each property with a mutant
under which TLC finds that property violated, so that no property is idle.

## 3. What TLC checks

| run | instance | properties |
|---|---|---|
| `lifecycle` | 3 runs of one package, a `summary` process, 2 faults, 1 removal of the report | `AtMostOneExecution`, `VerdictIsBacked`, `ReturnedIsClosed`, `SummaryIsFaithful`, `ClosedIsFinal`, `ImplementsRecord` |
| `lifecycle_live` | 2 runs, 1 fault, 1 removal, fair | `WaitersGetThrough`, `AbandonedIsClosed` |
| `plan` | 2 policies, 3 kinds of change, up to 3 reviewers, 6 answers, 1 exception, fair | `VerdictIsWarranted`, `FailuresAreRecorded`, `EveryGroupIsDecided`, `ChallengesAreBounded`, `RisksAreReviewed`, `ThreadsAreCalls`, `ImplementsRecord`, `Concludes` |
| `conversation` | 3 turns, up to 2 tool calls each, 1 retry, all transports, fair | `CallsAreAnswered`, `RequestsAreBounded`, `OnlyPermittedIsReturned`, `Settles`, `ImplementsCall` |
| `normalization` | up to 4 findings, 2 titles, 3 lines | `IdsAreDistinct`, `SpanIsCited`, `GroupsAreDefects` |
| `patch_evidence` | 2 files, 3 head lines, any hunks, 1 match over a line end | `CitationsAreExact`, `NumbersAreFinal` |
| `full_review` | 2 invocations, up to 3 files, 1 fault, fair | `ChunksAreThePatch`, `EveryFileIsAccounted`, `ChunksAreRecords`, `EveryRunEnds` |
| `invocation` | 2 invocations, 2 changes by others, 3 command lines, 5 commits, 1 fault | `ComparedIsNamed`, `BoundCanAsk`, `ReturnedIsOwn` |

Every run checks its module's type invariant, too. In words:

* A package's reviewers are called by one process at most, the one that created the
  record, whoever dies and comes back; a record once closed never changes; a process that returns leaves it closed; while nothing
  fails, the incrementally extended report is the one a rebuild would give or is
  missing, whenever the user removes it. (That the *run* survives the removal does not
  hold: `RemovalIsSurvived`, section 4.)
* The outcome of an execution is the one the answers warrant, in both directions;
  each failed reviewer leaves exactly one error event of the right kind; each group
  gets exactly one decision although only one may be challenged; a change with a risk
  that has a specialist is not accepted without that specialist.
* Every tool call is answered, in order, before the next request goes out, with
  nothing left over from an attempt that failed; what comes back cites only the
  patch, or, for a challenge, only the dispute.
* Every call, execution and full review that is scheduled comes to its end, whatever the
  model answers, however the threads interleave and whatever other runs do with the locks.
* In a file that redaction took no line of into another, citations are supported exactly
  where git wrote those lines, with their texts as redacted; what the cite tool returns
  is such a citation, and is accepted unless it is one blank line. In such a file no
  number is given twice. Without the condition neither holds: `joined_lines`.
* The chunks of a full review are its patch, whole files in order; each file ends up
  reviewed or reported, and the exit status says which; several full reviews, some of
  them killed, take every chunk's record through the steps of `ReviewRecord` only.
* What `--pr` compares is a range the pull request really had at one moment between the
  look at it and the fetch, whoever pushes, rewrites, or fetches into the same refs;
  a run is refused for a missing commit only after a rewrite. Without `--pr` each end
  is what the user's branch was at a moment of the run, the base no later than the head.
* Once reviewers are called there is one for each role of the plan, and each has what
  its adapter asks for, but for three exceptions the property names (a fake, a source
  `none`, a dotenv file without the reference).
* If neither this run's `--constraint` texts nor those of the run that made the record
  read like one of the program's own (`pr:`, `risk:` and `configuration:`), the record a
  run returns was made for this run's range, constraints, pull request, declared risks
  and configuration, and its source went to no role outside its plan, also when another
  run made it or the file has been edited since. Without the condition it does not hold:
  `DeclaredRisksAreReviewed`, section 4.

**Bounds, and why they are enough.** Three runs are the first number at which one
dies, a second takes over and dies too, and a third finishes or races; two faults
allow both deaths, or a death and an `OSError`. `MaxEvents` ends the middle of an
execution, whose events are alike. Runs are interchangeable, hence the symmetry in
`lifecycle`, which has no liveness property. In `plan` two defects are enough for
a group beyond the single challenge, and the answers include none, immaterial,
unsure, two-defect and unchallengeable findings; four reviewers (the panel for a
change with both kinds of risk) differ from three only by one more thread like the
others. In `conversation` three turns reach
the limit with two batches of tool results behind it, and the retry reaches an
attempt with a history. Four findings are the first number with two non-transitive
pairs. In `patch_evidence` three lines are enough for a gap between two hunks, and two files for
a match that is open over the end of one; lines are blank, joined to the next, begin or
end a block, or begin with `++ ` (where they are not added). One match that reaches over a
line end (`MaxMatches`) is enough for a file that loses a line and one that does not.
In `full_review` sizes 1 to 4 against a cap of 3 and a default of 2 give chunks that
are full, overfull, and that a confusion of the two bounds would cut differently.
In `invocation` two runs are the first that share the private refs and a record, and
two changes allow a push between view and fetch with another before or after it, a
rewrite, or an edit of the file and of a credential. The history has a fast-forward
and a rewritten head, and a base that moves; the ranges differ in the risks their
paths suggest, hence in their plans. The three binding files are one that serves two
roles, one that does not load, and one that serves a role without a credential; of the
three command lines one says in its constraints exactly what another's package says of
its declared risk, without declaring it; the two surroundings have all credentials or none. Commits stay in the clone (nothing
collects garbage while a run is at work), and `gh pr view` answers with what the host
has when it is asked.

**Fairness.** `ReviewLifecycle`: the operating system schedules a started process and
`flock` wakes a waiter (weak fairness of each process's own steps); no invocation,
fault or removal is forced. The number of events of an execution is bounded, which
`plan` shows of the real one (`Concludes`). `Orchestration`: the main thread and the
pool's threads are scheduled, and every attempt ends: `Attempt` is fair because each
request has a socket timeout and `Settles` shows that a call is a bounded number of
requests. `ProviderConversation`: the thread runs on, and the timeout ends a wait.
A peer that sends a byte before each timeout is outside this assumption.
`FullReview`: as for the lifecycle, of which it abstracts.

`CHECK_DEADLOCK FALSE` is in every configuration because every system here ends:
processes return, an execution concludes, a patch is complete.

## 4. Disagreements with the repository's own words

Each is a run whose single property TLC finds violated; `PROJECT.json` quotes the line.

* `report_crash`: a kill between the event and its report line leaves a report that
  the run which closes the record extends without repairing it, although
  `_append_summary_event` promises equality with a rebuild at every step.
* `torn_record`: a kill inside the write of an event leaves a record no later run can
  read, hence none can close. `src/REVIEW_NOTES.md:55-60` calls the refusal deliberate
  ("fail-closed", with a manual recovery), the comment in `_review_package` speaks of
  closing such a record "deterministically instead"; both cannot hold of this case.
* `unrecorded_error`: a finding whose excerpt exceeds a challenge's limits raises in
  `make_dispute`, outside any handler; the review ends without an event about it.
* `joined_lines`: an ordinary line that ends in a keyword and a colon (`if not token:`)
  is joined to the next line of the patch by redaction, and every later number of the
  hunk is one too low, although `numbered_patch` speaks of the "exact head-side line
  number". A PEM block, which becomes one line, does the same (`joined_lines.cfg` with
  `Texts <- Redacted`, `Added <- Redacted`), and both go on into the next hunk or file.

Others met while modelling, without a run of their own. Those with a property named have
a trace, which TLC gives for the configuration and the changes in brackets:

* A report that is removed between `exists()` and `os.open` (`evidence/artifacts.py:271-276`)
  ends the run with `FileNotFoundError`, its record open, although the docstring says that a
  file which "a user manually deleted or edited ... self-heals" (262-266). At any other
  moment it does (`RemovalIsSurvived`: `torn_record.cfg` with `MaxFaults = 0`, `MaxEdits = 1`).
* `--constraint risk:concurrency` and `--risk concurrency` name the same package
  (`cli.py:284-294`), so the run with the second is returned a record made without the
  specialist it requires (`DeclaredRisksAreReviewed`: `invocation.cfg` with
  `Commands <- SayingAndDeclaring`, `MaxChanges = 0`). The same holds of `pr:` and
  `configuration:`, which stand in the same list.
* The cite tool's answer for one blank line has the excerpt `""`, which a finding may not
  have (`domain/findings.py:24`), although the answer is said to be "correct by
  construction" (`domain/models.py:87`; `LookupIsAccepted`: `joined_lines.cfg` with
  `Texts <- WithBlank`, `Added <- WithBlank`).
* Lines of a file with a space in its path are filed under the path with the tab that git
  appends (`domain/models.py:136-137`), so every citation by its path is refused
  (`CitationsAreExact`: `joined_lines.cfg` with `Label <- Tabbed`, `Texts <- Plain`,
  `Added <- Plain`).
* With three findings of one title on lines 1-1, 2-2 and 1-2, the groups depend on their
  order: one group when 1-2 comes first or second, two when it comes last. The key is
  said to be "independent of encounter order" (`domain/normalization.py:48`), which
  holds of a group's key and not of the groups; `GroupsAreDefects` therefore speaks of
  findings among which overlap is transitive.
* "Before source content is transmitted, the system SHALL validate ... credential-source
  availability" (`src/openspec/changes/establish-review-protocol/specs/provider-configuration/spec.md:112`),
  but a dotenv file that lacks the reference yields no credential and no error
  (`credentials.py:79`), and the source `none` none either: earlier roles' source goes
  out before the adapter refuses. `invocation.cfg` with the invariant
  `NoSourceWithoutCredentials` has the trace.
* A credential that is missing when a package is first reviewed closes its record with
  ESCALATE for good: credentials are not part of the identity, so the same command
  returns that record when the credential is there.
* The `summary` command can replace the report with one that lacks an event recorded
  meanwhile (`report_crash.cfg` with `Readers <- OneReader` and `MaxFaults = 0`).
* `str.splitlines()` ends lines at U+0085, U+2028 and others, which canonical JSON
  leaves as they are: a finding with one in its text makes its record unreadable
  (`ArtifactStore!Readable`; `lifecycle_live` runs with such texts). The same call in
  `_iter_patch_lines` cuts a source line that holds a form feed (`CitationsAreExact`:
  `joined_lines.cfg` with `Texts <- Broken`, `Added <- Broken`).
* An added line that begins with `++ ` reads as the name of the next file
  (the same with `Texts <- Signed`, `Added <- Signed`).
* The answer to a challenge is recorded inside the `try` whose handler records a second
  answer: if `record_event` raises after its line is in the file, there are two
  (`ChallengesAreBounded` therefore does not say "at most one response").
* `--max-patch-bytes 0` means the default in `run_full` and zero in `from_patch`, so the
  first chunk ends the run (`EveryFileIsAccounted` excepts it by `Requested = 0`).
* A chunk header that git quotes yields no path, so an oversized file of such a name is
  reported without it (paths are not in `FullReview`).
* `http_post_json` speaks of a plan-bounded timeout, but one call is up to twelve
  requests, each with that timeout; and a timeout while connecting arrives as
  `URLError` and is recorded as a provider error.
* A binding with the credential source `none` passes validation, and every HTTP
  transport then refuses it (`ready = FALSE` in `ProviderConversation`, the exception
  in `Invocation!CanAsk`).

## 5. What TLAPS proves

The theorems hold for any number of processes, events, faults, reviewers' turns,
findings and lines, under the modules' named assumptions only (`ProcAssumption`,
`PayloadAssumption`, `TurnAssumption`, ...: types and disjointness of the constants).

* **ReviewLifecycleProofs**: `LifecycleInv` is inductive. `AtMostOneExecution` and
  `TerminalIsLast` are not inductive by themselves: one needs that the code's local
  `created` agrees with the file system (`OwnerInv`), that only the lock holder is
  between lock and release (`LockInv`), that file operations happen inside the calls
  the program counter announces (`CallInv`), that the event under way is the one
  its point announces (`PendInv`), and that a process whose record is closed has
  nothing more to append (`OpenInv`). Theorems `Invariance` and
  `OneExecutionOneTerminal`.
  `HistoryInv` adds what the record's history says (nobody
  else wrote while the creator runs; a closing process has announced itself; a verdict
  has reviewers behind it), and with it every step maps to a step of `ReviewRecord` or
  to a stutter: `RecordRefinement`, and `ClosedForGood` for `ClosedIsFinal`.
  `RecordPromises` draws from that refinement alone what it is for (`Promised`: whoever
  asked is the owner, a verdict rests on that). `BackedAndClosed` takes
  `VerdictIsBacked` and `ReturnedIsClosed` from the same two invariants.
  `FaithfulSummary` needs a third, `ReportInv`: while there is no fault and nobody runs
  `summary`, what each operation inside `record_event` knows of the two files when it
  is about to act (`Updating`: a report that is there lacks just the event under way, a
  report that is read is the first one, one that is rebuilt has been removed), for a
  removal may fall between any two of them, the look at the report and its opening
  included; the run that such a removal ends is no fault, and is covered.
* **OrchestrationProofs**: `ExecutionInv`, for any policies, sets of risks, findings,
  answers and number of exceptions while recording. The properties speak of a closed
  record, so they need to know what the record holds at each point before: whose
  attempts are still possible (`CallsInv`), how the answers were sorted out
  (`AssessInv`), what has been challenged and what `escalated` and the last answer say
  of one another (`ChallengeInv`), which failures the loop has passed (`FailureInv`),
  which groups have their ruling (`RulingInv`), and that nothing follows a terminal
  event (`ClosedInv`). Theorems `ExecutionTypes`, `WarrantedVerdicts`,
  `RecordedFailures`, `DecidedGroups`, `BoundedChallenges`, `ReviewedRisks`, and the two refinements
  `ThreadsImplementCalls` and `RecordImplemented`: with `CallRefinement` and
  `RecordRefinement` both abstract modules are implemented on every side by theorem.
  The panel a plan draws is proved nonempty and without repetition on the way
  (`PlanFacts`), from `Policy` alone. `ReviewedRisks` has the hypothesis `Roomy`: a
  `max_reviewers` of at least 4, as the default's is, so that no specialist is cut.
  `ExecutionOnlyAdvances` is the variant: in every step either a thread makes one of
  its at most four attempts, or the main thread's phase, its place in the loop over
  failed roles or groups, or what is left to do about that group goes forward, and all of
  these are bounded (`Bounded`, with `RolesBounded` beside `ExecutionInv`).
* **RecursionLemmas**: what the proofs about recursive functions share. The library's
  induction theorems take a predicate as a parameter, which the provers here cannot
  instantiate; a predicate as the *set* of numbers that have it needs no parameter, and
  the least number outside of it (`WFMin`) gives `SetInduction`. From it: a recursion
  over `0..N` has one solution (`RecursionExists`, `SolutionsAgree`), and `FlattenSeq` of
  the community modules is what joins sequences (`FlattenIs`, `FlattenAppend`,
  `FlattenSingles`).
* **FullReviewProofs**: the split first. `Splits` is what `split_patch_into_chunks` has
  made of the first files (in order, whole, a chunk above the cap only alone);
  `PutSplits` shows a round keeps it and `SplitFacts` that the function is those rounds:
  `SplitIsThePatch`, for any tree and cap. `ReviewInv` then says where a run can be with
  respect to each chunk: at it (`AtInv`), past it (`PastInv`, `BehindInv`) or failed
  (`FailedInv`). Theorems `ReviewTypes`, `FilesAreAccounted`, `ChunksImplementRecords`
  and, by the abstract record alone, `ChunksKeepPromises`. `RunsOnlyAdvance` is the
  variant: a run of N chunks has 4N + 5 steps beside its reviewer calls at most.
* **InvocationProofs**: `InvocationInv` for any history of commits, command lines,
  binding files and number of runs and changes. `ComparedIsNamed` needs that a fetch
  brings all that the host had (`ViewInv`), that between two moments without a rewrite
  the host only grew (`HostInv`), and that local branches are in the clone
  (`CloneInv`); `ReturnedIsOwn` that a record is named for what it was made about
  (`RecordInv`), and by its owner (`OwnInv`). That such a name stands for one review only
  is the lemma `NamesAreOwn`: the user's texts end where the program's begin, because none
  of them is one of the program's, and the rest says which risks, pull request and
  configuration there are (`OwnTextsSay`, from `RisksAreSaid`); `BoundCanAsk` that roles are bound in order by a
  configuration that loaded and selects them (`BoundInv`). Theorems `InvocationTypes`,
  `NamedRanges`, `RecordsAreOwn`, `AdaptersAreReady`. `RecordsHaveOwners` is about
  several commands at one package: the record keeps the run that made it as its owner,
  source goes out only by the owner, at work on it, nobody closes the record before the
  owner is at its end, and closed it stays as it is. It needs `OwnersInv`: no two runs
  are in the critical section of one package (`HoldInv`), the owner of a record is at
  work on it with the record open, or has ended (`OwnerInv`), and whoever is at work on
  a record owns it. Its property, `RecordsAreOwned`, is defined beside the proof and no
  run checks it.
* **NormalizationProofs**: `NormalizationInv` (each cluster has a founder and ends,
  later clusters stay apart from earlier founders, no gap inside a cluster, classes
  where overlap is transitive) gives `GroupsAreSound`: distinct ids, exact spans,
  groups are defects. `PlacesAreClusters` is the type invariant.
* **PatchEvidenceProofs**: `EvidenceInv` says that reader and git are in step wherever git
  is in a hunk of a file that lost no line (`InStep`), which file's path the reader has
  elsewhere, what an open match may still reach (`BlockHeld`), and that such a file's
  lines are known as git wrote them (`Faithful`). It holds for any number of lines, files
  and matches over line ends: that redaction joins lines and cuts blocks out is inside
  the theorems, not assumed away. Their hypotheses are `PlainTexts` (no text has a line
  end of `str.splitlines` inside, no added one begins with `++ `) and `PlainPaths` (labels
  are the paths); the three traces of `CitationsAreExact` in section 4 show that none is idle.
  Theorems `EvidenceTypes`, `ExactCitations`, `FinalNumbers`.
* **ProviderConversationProofs**: `ConversationInv` counts requests by attempts
  (`sent <= MaxTurns * tries`, plus the turns of the attempt under way), and says
  what a challenge and an unready binding never do. Theorems `ConversationTypes`,
  `BoundedRequests`, `PermittedCitations`, and `CallRefinement`: a conversation is a
  `ReviewerCall`. `AnsweredCalls` needs `AnswerInv`: behind each of the model's turns the
  messages are the answers to its calls, one message or several, and end where its
  next turn begins, so the answers the property looks for by that end are these
  (`AnswersFound`), and a batch more disturbs none before it (`TurnAnswered`).
  `CallOnlyAdvances` is the variant: at most `limit + 1` attempts, each with
  `3 * MaxTurns + 1` steps to go at its start, none of which is given back.

Every invariant and action property of section 3 is the conclusion of a theorem. Only
model-checked are the liveness properties (`WaitersGetThrough`, `AbandonedIsClosed`,
`Concludes`, `Settles`, `EveryRunEnds`): the prover has no rule for fairness. Of the
last three the variants (`ExecutionAdvances`, `CallAdvances`, `RunsAdvance`, which are
defined beside their proofs and checked by no run) are the half that is about data: no
call, execution or run of a full review takes infinitely many steps. What is left to TLC
is that it always has one to take until it has ended, and takes it. The runs
marked `violation` are TLC's alone.

## 6. What is not modelled, and why

* Text: prompts, payloads, summaries' wording, which words redaction and secret detection
  look for, the words in paths that suggest a risk, JSON syntax. Values are reduced to what the code
  branches on.
* Time: a timeout is one of the ways an attempt may end.
* The checks for symbolic links, file modes and ownership, and the Windows lock.
* Argument parsing, `auth set`, `auth status` and `auth remove` (they change the key ring
  only, which `Invocation!Edit` does), running git and gh and parsing what they print.
* The contents of a setting: an endpoint is one of five kinds, a region or a deployment
  is there or not.
* Garbage collection in the clone while a run is at work, and a host whose answer to
  `gh pr view` is older than the question.
* Branches nothing reaches with the program's own reviewers: the `denied-mutation` kind
  of failure (nothing raises it), a reviewer without `review_challenge`, and a decision
  that fails validation in `adjudicate`. `FakeReviewer` is never challenged.
* Of `redaction`: a path or an extended header line whose end a match would join to the
  next (a file named `token:`), and what it does to records, findings and messages. "Joined"
  is by definition a match that takes something of the next line.
* The user's own settings of `git diff` (`diff.noprefix`, `diff.suppressBlankEmpty`), which
  change what git writes.
* `serialization` and the live smoke script: one call to `json.dumps`, and an entry point
  that calls `run`.

## 7. Plan

The order of the work was by what relies on what: the record of one package and the
processes that share it (`ArtifactStore`, `ReviewLifecycle`, `ReviewRecord`), the
execution (`Orchestration`, `ReviewPolicy`), the two algorithms it depends on
(`Normalization`, `PatchEvidence`), the calls (`ReviewerCall`,
`ProviderConversation`), the full review, then the whole commands (`PullRequest`,
`Configuration`, `Invocation`), and the proofs of each.

What is left, by what it would add:

1. `Invocation` with the record's life taken from `ReviewRecord` by an instance per
   identity, as `FullReview` has it, with the refinement as a theorem, and more of the
   findings of section 4 as runs.
2. The search for words in paths (`domain/policy.py`), if a property is found that is
   not a restatement of the list of words.

## 8. Files

`*.tla` the modules; `MC*.tla` with the `.cfg` of the same question the runs;
`*Proofs.tla` the proofs, one module per component, over `RecursionLemmas.tla`; `PROJECT.json` the index:
components, runs, mutants, the lines of source each definition stands for, findings,
hazards and theorems.
