----------------------------- MODULE Invocation -----------------------------
(***************************************************************************)
(* cli.main and cli.run for one comparison, with --pr, --diff or the two   *)
(* positional revisions: resolve the pull request, resolve its two ends,   *)
(* collect the patch, load the configuration, name the package, and take   *)
(* its record through the setup of the reviewers and the execution.        *)
(* Several invocations run at once, while the host, the user's branches,   *)
(* the configuration file and the credentials change under them.           *)
(*                                                                         *)
(* What a record goes through between processes is module ReviewLifecycle, *)
(* what an execution decides module Orchestration.                         *)
(***************************************************************************)
EXTENDS PullRequest, Configuration, ReviewPolicy, FiniteSets

CONSTANTS Runs,
          Commands,       \* the command lines that are tried
          Files,          \* the contents the configuration file may have
          Credentials,    \* what the credentials' surroundings may be
          Touched,        \* the risks the paths between two commits suggest
          Notes,          \* what --constraint may say of its own
          NoConfiguration,
          MaxFaults       \* bound: kills and exceptions

(* The texts of a package's constraints.  Those the program writes, pr:N,  *)
(* risk:R and configuration:D, the user may write as well.  That a         *)
(* configuration's digest tells it from others is assumed.                 *)
PrText == <<"pr">>
RiskText(risk) == <<"risk", risk>>
ConfigurationText(f) == <<"configuration", f>>
NoteText(note) == <<"note", note>>

Notation == {NoteText(note) : note \in Notes}
Written == {PrText} \cup {RiskText(risk) : risk \in RiskIndicators}
           \cup {ConfigurationText(f) : f \in Files}
Constraint == Notation \cup Written

Command == [pr : BOOLEAN, configured : BOOLEAN, declared : SUBSET RiskIndicators,
            constraints : Seq(Constraint), environment : SUBSET References]

ConfigurationFile(f) == /\ f.parses \in BOOLEAN
                        /\ f.bindings \in [DOMAIN f.bindings -> ProviderBinding]
                        /\ DOMAIN f.roles \subseteq Roles

ASSUME CommandAssumption == Commands \subseteq Command
ASSUME FileAssumption == \A f \in Files : ConfigurationFile(f)
ASSUME SurroundingsAssumption == Credentials \subseteq Surroundings
ASSUME TouchedAssumption == Touched \in [Commits \X Commits -> SUBSET RiskIndicators]
ASSUME ConfigurationAssumption == NoConfiguration \notin Files
ASSUME FaultAssumption == MaxFaults \in Nat

VARIABLES pc,             \* where each run is
          command,        \* its command line
          since,          \* the moments it began, saw and fetched (history)
          viewed,         \* what gh pr view said
          shas,           \* what its two ends resolved to
          configuration,  \* the configuration it loaded
          bound,          \* its reviewers so far: where the credential of
                          \* each of the plan's roles was found
          record,         \* the records, by package identity
          file,           \* the configuration file
          surroundings,   \* where credentials are looked for
          faults

run == <<pc, command, since, viewed, shas, configuration, bound>>
vars == <<git, changes, run, record, file, surroundings, faults>>

Ended == {"returned", "refused", "missing", "failed"}
Holding == {"opening", "selecting", "binding", "reviewing"}
Packaged == {"waiting", "returned"} \cup Holding
Compared == {"collecting", "configuring"} \cup Packaged
Points == {"idle", "viewing", "fetching", "resolving", "halfway"} \cup Compared \cup Ended

-----------------------------------------------------------------------------
(* What a run is about: the compared commits, for the patch and its paths, *)
(* and what its command line says.                                         *)
Made(p) == [range |-> shas[p], constraints |-> command[p].constraints, pr |-> command[p].pr,
            declared |-> command[p].declared, configuration |-> configuration[p]]

(* _package_constraints puts one list of texts together: the user's, main's *)
(* for the pull request, the declared risks in order, and the digest of    *)
(* the configuration.                                                      *)
Told(risk, declared) == IF risk \in declared THEN <<RiskText(risk)>> ELSE <<>>

RiskTexts(declared) ==
  Told("concurrency", declared) \o Told("dependency-change", declared)
  \o Told("destructive-data", declared) \o Told("identity-or-access", declared)
  \o Told("infrastructure", declared) \o Told("migration", declared)
  \o Told("public-interface", declared) \o Told("retry-idempotency", declared)

OwnTexts(made) ==
  (IF made.pr THEN <<PrText>> ELSE <<>>) \o RiskTexts(made.declared)
  \o (IF made.configuration = NoConfiguration THEN <<>>
      ELSE <<ConfigurationText(made.configuration)>>)

(* The package the run names its record by.                                *)
Package(made) == [range |-> made.range, constraints |-> made.constraints \o OwnTexts(made)]

(* Mutant of Identity: the configuration is not among the constraints.     *)
IdentityUnconfigured(p) == Package([Made(p) EXCEPT !.configuration = NoConfiguration])

Identity(p) == Package(Made(p))

RolesFor(range, declared) ==
  SelectPlan(Default, Touched[<<range.base, range.head>>], declared).roles

PlanRoles(p) == RolesFor(shas[p], command[p].declared)

Opened == DOMAIN record
Close(p) == record' = [record EXCEPT ![Identity(p)] = With(@, "stage", "closed")]
Goto(p, point) == pc' = [pc EXCEPT ![p] = point]

Outcome == Found \cup {"nothing"}
Moment == Nat \ {0}
Packages == [range : Comparison, constraints : Seq(Constraint)]
Reviews == [range : Comparison, constraints : Seq(Constraint), pr : BOOLEAN,
            declared : SUBSET RiskIndicators, configuration : Files \cup {NoConfiguration}]
Records == [stage : {"open", "closed"}, owner : Runs, sent : SUBSET Roles, made : Reviews]

TypeOK == /\ GitTypeOK
          /\ pc \in [Runs -> Points]
          /\ command \in [Runs -> Commands]
          /\ since \in [Runs -> [began : Moment, saw : Moment, fetched : Moment]]
          /\ viewed \in [Runs -> Comparison]
          /\ shas \in [Runs -> Comparison]
          /\ configuration \in [Runs -> Files \cup {NoConfiguration}]
          /\ bound \in [Runs -> Seq(Outcome)]
          /\ Opened \subseteq Packages
          /\ record \in [Opened -> Records]
          /\ file \in Files
          /\ surroundings \in Credentials
          /\ faults \in Nat

Init == /\ GitInit
        /\ pc = [p \in Runs |-> "idle"]
        /\ command \in [Runs -> Commands]
        /\ since = [p \in Runs |-> [began |-> 1, saw |-> 1, fetched |-> 1]]
        /\ viewed = [p \in Runs |-> First]
        /\ shas = [p \in Runs |-> First]
        /\ configuration = [p \in Runs |-> NoConfiguration]
        /\ bound = [p \in Runs |-> <<>>]
        /\ record = <<>>
        /\ file \in Files
        /\ surroundings \in Credentials
        /\ faults = 0

-----------------------------------------------------------------------------
(* main, after the checks of the command line: with --pr the host is asked *)
(* first.                                                                  *)
Start(p) == /\ pc[p] = "idle"
            /\ Goto(p, IF command[p].pr THEN "viewing" ELSE "resolving")
            /\ since' = [since EXCEPT ![p] = With(@, "began", Len(local))]
            /\ UNCHANGED <<git, changes, command, viewed, shas, configuration, bound,
                           record, file, surroundings, faults>>

(* gh pr view, unless it is missing, not logged in, times out, or says     *)
(* something else.                                                         *)
View(p) == /\ pc[p] = "viewing"
           /\ \/ /\ viewed' = [viewed EXCEPT ![p] = Now(hub)]
                 /\ since' = [since EXCEPT ![p] = With(@, "saw", Len(hub))]
                 /\ Goto(p, "fetching")
              \/ /\ Goto(p, "refused")
                 /\ UNCHANGED <<viewed, since>>
           /\ UNCHANGED <<git, changes, command, shas, configuration, bound,
                          record, file, surroundings, faults>>

(* git fetch; one that fails or times out may have brought the commits.    *)
Fetch(p) == /\ pc[p] = "fetching"
            /\ \/ FetchCommits /\ (Goto(p, "resolving") \/ Goto(p, "refused"))
               \/ UNCHANGED git /\ Goto(p, "refused")
            /\ since' = [since EXCEPT ![p] = With(@, "fetched", Len(hub))]
            /\ UNCHANGED <<changes, command, viewed, shas, configuration, bound,
                           record, file, surroundings, faults>>

(* Mutant of Revision: the private refs in place of the commits viewed.    *)
RevisionByRef(p, end) == IF command[p].pr THEN refs[end] ELSE Now(local)[end]

(* What rev-parse makes of an end: a commit the host named, or whatever    *)
(* the user's branch is at this moment.                                    *)
Revision(p, end) == IF command[p].pr THEN viewed[p][end] ELSE Now(local)[end]

(* collect_git_evidence resolves the ends one after the other; a commit    *)
(* that is not in the clone does not resolve.                              *)
ResolveEnd(p, end, from, to) ==
  /\ pc[p] = from
  /\ \/ /\ Revision(p, end) \in objects
        /\ shas' = [shas EXCEPT ![p] = With(@, end, Revision(p, end))]
        /\ Goto(p, to)
     \/ /\ Revision(p, end) \notin objects
        /\ Goto(p, "missing")
        /\ UNCHANGED shas
  /\ UNCHANGED <<git, changes, command, since, viewed, configuration, bound,
                 record, file, surroundings, faults>>

Resolve2(p) == \/ ResolveEnd(p, "base", "resolving", "halfway")
               \/ ResolveEnd(p, "head", "halfway", "collecting")

(* The two diffs; git fails, a path or the patch is not UTF-8, an added    *)
(* line looks like a secret, or the patch exceeds --max-patch-bytes.       *)
Collect(p) == /\ pc[p] = "collecting"
              /\ Goto(p, "configuring") \/ Goto(p, "refused")
              /\ UNCHANGED <<git, changes, command, since, viewed, shas, configuration,
                             bound, record, file, surroundings, faults>>

Configure(p) ==
  /\ pc[p] = "configuring"
  /\ \/ ~command[p].configured /\ Goto(p, "waiting") /\ UNCHANGED configuration
     \/ /\ command[p].configured /\ Loads(file)
        /\ configuration' = [configuration EXCEPT ![p] = file]
        /\ Goto(p, "waiting")
     \/ command[p].configured /\ ~Loads(file) /\ Goto(p, "refused") /\ UNCHANGED configuration
  /\ UNCHANGED <<git, changes, command, since, viewed, shas, bound,
                 record, file, surroundings, faults>>

-----------------------------------------------------------------------------
(* _review_package.  A package is locked by the run that works on it.      *)
Locked(id) == \E q \in Runs : pc[q] \in Holding /\ Identity(q) = id

Acquire(p) == /\ pc[p] = "waiting"
              /\ ~Locked(Identity(p))
              /\ Goto(p, "opening")
              /\ UNCHANGED <<git, changes, command, since, viewed, shas, configuration,
                             bound, record, file, surroundings, faults>>

Create(p) ==
  /\ pc[p] = "opening"
  /\ Identity(p) \notin Opened
  /\ record' = [id \in Opened \cup {Identity(p)} |->
                  IF id \in Opened THEN record[id]
                  ELSE [stage |-> "open", owner |-> p, sent |-> {}, made |-> Made(p)]]
  /\ Goto(p, "selecting")
  /\ UNCHANGED <<git, changes, command, since, viewed, shas, configuration,
                 bound, file, surroundings, faults>>

(* A record that is there is returned, closed first if its owner died.     *)
Reopen(p) == /\ pc[p] = "opening"
             /\ Identity(p) \in Opened
             /\ Close(p)
             /\ Goto(p, "returned")
             /\ UNCHANGED <<git, changes, command, since, viewed, shas, configuration,
                            bound, file, surroundings, faults>>

(* Setup fails: one of the plan's roles is not selected, or a credential   *)
(* is unavailable.  The record is closed as ESCALATE and returned.         *)
GiveUp(p) == Close(p) /\ Goto(p, "returned") /\ UNCHANGED bound

RoleSet(p) == {PlanRoles(p)[i] : i \in 1..Len(PlanRoles(p))}

SelectRoles(p) ==
  /\ pc[p] = "selecting"
  /\ IF configuration[p] = NoConfiguration
     THEN Goto(p, "reviewing") /\ UNCHANGED <<record, bound>>
     ELSE IF Selects(configuration[p], RoleSet(p))
     THEN Goto(p, "binding") /\ UNCHANGED <<record, bound>>
     ELSE GiveUp(p)
  /\ UNCHANGED <<git, changes, command, since, viewed, shas, configuration,
                 file, surroundings, faults>>

NextRole(p) == PlanRoles(p)[Len(bound[p]) + 1]
AllBound(p) == Len(bound[p]) = Len(PlanRoles(p))
BindingOf(p, i) == BindingFor(configuration[p], PlanRoles(p)[i])

(* The credential of one role: a fake reviewer needs none.                 *)
CredentialFor(p, role) ==
  LET b == BindingFor(configuration[p], role)
  IN  IF b.transport = "fake" THEN "nothing" ELSE Resolve(b, command[p].environment, surroundings)

(* Mutant of Bind: the exception of an unavailable credential is swallowed. *)
BindAnyway(p) ==
  /\ pc[p] = "binding"
  /\ ~AllBound(p)
  /\ bound' = [bound EXCEPT ![p] = Append(@, CredentialFor(p, NextRole(p)))]
  /\ UNCHANGED <<git, changes, pc, command, since, viewed, shas, configuration,
                 record, file, surroundings, faults>>

Bind(p) ==
  /\ pc[p] = "binding"
  /\ ~AllBound(p)
  /\ \/ /\ CredentialFor(p, NextRole(p)) # "unavailable"
        /\ bound' = [bound EXCEPT ![p] = Append(@, CredentialFor(p, NextRole(p)))]
        /\ UNCHANGED <<pc, record>>
     \/ CredentialFor(p, NextRole(p)) = "unavailable" /\ GiveUp(p)
  /\ UNCHANGED <<git, changes, command, since, viewed, shas, configuration,
                 file, surroundings, faults>>

Execute(p) == /\ pc[p] = "binding"
              /\ AllBound(p)
              /\ Goto(p, "reviewing")
              /\ UNCHANGED <<git, changes, command, since, viewed, shas, configuration,
                             bound, record, file, surroundings, faults>>

(* A reviewer's request goes out; one whose adapter is not ready raises.   *)
Ask(p) == /\ pc[p] = "reviewing"
          /\ \E i \in 1..Len(bound[p]) :
                /\ Ready(BindingOf(p, i), bound[p][i])
                /\ record' = [record EXCEPT ![Identity(p)] =
                                 With(@, "sent", @.sent \cup {PlanRoles(p)[i]})]
          /\ UNCHANGED <<git, changes, run, file, surroundings, faults>>

(* execute_plan closes the record, with no reviewer called if none is bound. *)
Finish(p) == /\ pc[p] = "reviewing"
             /\ Close(p)
             /\ Goto(p, "returned")
             /\ UNCHANGED <<git, changes, command, since, viewed, shas, configuration,
                            bound, file, surroundings, faults>>

(* An exception that main turns into status 2, or a kill: the record stays *)
(* open and the lock is free.  Before the lock either leaves nothing.      *)
Fault(p) == /\ faults < MaxFaults
            /\ faults' = faults + 1
            /\ pc[p] \in Holding
            /\ Goto(p, "failed")
            /\ UNCHANGED <<git, changes, command, since, viewed, shas, configuration,
                           bound, record, file, surroundings>>

-----------------------------------------------------------------------------
(* The user writes the configuration file, or sets a credential or removes *)
(* one, while invocations run.                                             *)
Edit == /\ Change
        /\ \/ file' \in Files /\ UNCHANGED surroundings
           \/ surroundings' \in Credentials /\ UNCHANGED file
        /\ UNCHANGED <<git, run, record, faults>>

Others == \/ (Push \/ Move) /\ UNCHANGED <<run, record, file, surroundings, faults>>
          \/ Edit

Step(p) == \/ Start(p) \/ View(p) \/ Fetch(p) \/ Resolve2(p) \/ Collect(p) \/ Configure(p)
           \/ Acquire(p) \/ Create(p) \/ Reopen(p) \/ SelectRoles(p) \/ Bind(p)
           \/ Execute(p) \/ Ask(p) \/ Finish(p)

Next == Others \/ \E p \in Runs : Step(p) \/ Fault(p)

Spec == Init /\ [][Next]_vars

-----------------------------------------------------------------------------
(* Of one run, once it compares or has found a commit missing.             *)
Compares(p) ==
  /\ pc[p] \in Compared =>
        IF command[p].pr
        THEN \E i \in since[p].saw .. since[p].fetched : hub[i] = shas[p]
        ELSE \E i \in since[p].began .. Len(local) : \E j \in i .. Len(local) :
                shas[p] = [base |-> local[i].base, head |-> local[j].head]
  /\ pc[p] = "missing" => command[p].pr /\ Rewritten(since[p].saw, since[p].fetched)

(* What --pr compares is a range the pull request had at one moment of the *)
(* run, whoever pushes and whoever else fetches into the same refs, and it *)
(* is refused for want of a commit only if the host's history was          *)
(* rewritten between the view and the fetch.  Without --pr each end is     *)
(* what the user's branch was, the base no later than the head.            *)
ComparedIsNamed == \A p \in Runs : Compares(p)

(* The i-th reviewer's request can go out, or it is one of the exceptions. *)
CanAsk(p, i) == \/ Ready(BindingOf(p, i), bound[p][i])
                \/ BindingOf(p, i).transport = "fake"
                \/ /\ bound[p][i] = "nothing"
                   /\ BindingOf(p, i).credential_source \in {"none"} \cup Variables

(* When the reviewers are called, a configured review has one for each of  *)
(* the plan's roles, and each could send its request: what the settings'   *)
(* validation, the selection and the lookup of credentials let through is  *)
(* what the adapters need.  Excepted are a fake one, a binding without a   *)
(* credential source, and a dotenv file that lacks the reference.          *)
BoundCanAsk ==
  \A p \in Runs :
     pc[p] = "reviewing" /\ configuration[p] # NoConfiguration =>
        /\ AllBound(p)
        /\ \A i \in 1..Len(PlanRoles(p)) : CanAsk(p, i)

(* The --constraint texts are not what the program itself might write.     *)
Ordinary(made) == \A i \in 1..Len(made.constraints) : made.constraints[i] \notin Written

(* The record a run prints is closed.  If neither this run's --constraint  *)
(* texts nor those of the run that made it read like the program's own, it *)
(* is about this run's comparison, constraints, pull request, risks and    *)
(* configuration; source went out for roles of this run's plan only, and   *)
(* with a configuration.                                                   *)
ReturnedIsOwn ==
  \A p \in Runs :
     pc[p] = "returned" =>
        /\ Identity(p) \in Opened
        /\ record[Identity(p)].stage = "closed"
        /\ Ordinary(Made(p)) /\ Ordinary(record[Identity(p)].made) =>
              /\ record[Identity(p)].made = Made(p)
              /\ record[Identity(p)].sent \subseteq RoleSet(p)
              /\ configuration[p] = NoConfiguration => record[Identity(p)].sent = {}

(* A declared risk requires specialist review, says the help of --risk:    *)
(* the returned record was made by a plan with the roles this run's risks  *)
(* call for. It does not hold of texts that read alike (README, section 4).*)
DeclaredRisksAreReviewed ==
  \A p \in Runs :
     pc[p] = "returned" =>
        LET made == record[Identity(p)].made
            roles == RolesFor(made.range, made.declared)
        IN  RoleSet(p) \subseteq {roles[i] : i \in 1..Len(roles)}

(* Source goes to no provider unless every binding of the plan has its     *)
(* credential.                                                             *)
NoSourceWithoutCredentials ==
  \A p \in Runs, role \in Roles :
     pc[p] = "reviewing" /\ role \in record[Identity(p)].sent =>
        \A i \in 1..Len(bound[p]) :
           BindingOf(p, i).transport # "fake" => bound[p][i] \in Found
-----------------------------------------------------------------------------
(* Why the properties hold: the parts of an inductive invariant.           *)

(* Between two moments without a rewrite the host's ends only grew.        *)
HostInv == \A k \in 1..Len(hub) : \A i \in 1..k :
              ~Rewritten(i, k) => \A end \in Ends : hub[i][end] \in Ancestors[hub[k][end]]

(* The user's branches are in the clone.                                   *)
CloneInv == \A end \in Ends : Now(local)[end] \in objects

Named == {"resolving", "halfway", "missing"} \cup Compared

(* What was viewed is what the host said then, the fetch came later and    *)
(* brought what was there, and the ends are resolved one by one.           *)
ViewInv(p) ==
  command[p].pr =>
     /\ pc[p] \in {"fetching"} \cup Named =>
           since[p].saw \in 1..Len(hub) /\ viewed[p] = hub[since[p].saw]
     /\ pc[p] \in Named => since[p].fetched \in since[p].saw .. Len(hub)
     /\ pc[p] \in {"resolving", "halfway"} =>
           \A end \in Ends : Ancestors[hub[since[p].fetched][end]] \subseteq objects
     /\ pc[p] = "halfway" => shas[p].base = viewed[p].base

BranchInv(p) ==
  ~command[p].pr =>
     /\ pc[p] \notin {"viewing", "fetching"}
     /\ pc[p] \in Named => since[p].began \in 1..Len(local)
     /\ pc[p] = "halfway" =>
           \E i \in since[p].began .. Len(local) : shas[p].base = local[i].base

(* A record is named for what it was made about.                           *)
RecordInv ==
  \A id \in Opened :
     LET made == record[id].made
         roles == RolesFor(made.range, made.declared)
     IN  /\ Package(made) = id
         /\ \A role \in record[id].sent : \E i \in 1..Len(roles) : roles[i] = role
         /\ made.configuration = NoConfiguration => record[id].sent = {}

(* Who is at work on a record made it.                                     *)
OwnInv(p) ==
  /\ pc[p] \in {"selecting", "binding", "reviewing"} => record[Identity(p)].made = Made(p)
  /\ pc[p] \in {"selecting", "binding", "reviewing", "returned"} => Identity(p) \in Opened
  /\ pc[p] = "returned" => record[Identity(p)].stage = "closed"

(* Roles are bound in the plan's order, by a configuration that loaded and *)
(* selects them.                                                           *)
BoundInv(p) ==
  /\ configuration[p] # NoConfiguration => Loads(configuration[p])
  /\ pc[p] \notin {"binding", "reviewing"} \cup Ended => bound[p] = <<>>
  /\ pc[p] = "binding" => configuration[p] # NoConfiguration
  /\ pc[p] = "reviewing" =>
        IF configuration[p] = NoConfiguration THEN bound[p] = <<>> ELSE AllBound(p)
  /\ pc[p] \in {"binding", "reviewing"} /\ configuration[p] # NoConfiguration =>
        /\ Selects(configuration[p], RoleSet(p))
        /\ Len(bound[p]) <= Len(PlanRoles(p))
        /\ \A i \in 1..Len(bound[p]) : CanAsk(p, i)

InvocationInv ==
  /\ TypeOK /\ HostInv /\ CloneInv /\ RecordInv /\ ComparedIsNamed
  /\ \A p \in Runs : ViewInv(p) /\ BranchInv(p) /\ OwnInv(p) /\ BoundInv(p)
=============================================================================
