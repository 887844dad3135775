---------------------------- MODULE MCInvocation ----------------------------
(* Instances of Invocation for TLC: a pull request of two commits, another *)
(* base and a rewritten head; three binding files, two surroundings.       *)
EXTENDS Invocation

CONSTANTS r1, r2, b0, b1, h0, h1, x, K1, K2, n1

TwoRuns == {r1, r2}
RunSymmetry == Permutations(TwoRuns)

AllCommits == {b0, b1, h0, h1, x}
History == [c \in AllCommits |->
              IF c = h1 THEN {b0, h0, h1} ELSE {b0, c}]
BothTips == [base |-> {b0, b1}, head |-> {h0, h1, x}]
Range1 == [base |-> b0, head |-> h0]

(* The commits after h0 change an interface: two roles instead of one.     *)
Paths == [range \in AllCommits \X AllCommits |->
            IF range[2] = h0 THEN {} ELSE {"public-interface"}]

TwoReferences == {K1, K2}

Plain == [transport |-> "gemini", credential_source |-> "dotenv", credential_ref |-> K1,
          endpoint |-> "absent", allow_local_http |-> FALSE, region |-> FALSE,
          deployment |-> FALSE, vertex |-> FALSE, structured_output |-> TRUE]
Converse == [Plain EXCEPT !.transport = "bedrock-converse", !.region = TRUE,
                          !.credential_source = "keychain", !.credential_ref = K2]
Keyless == [Plain EXCEPT !.transport = "xai", !.endpoint = "https",
                         !.credential_source = "none", !.credential_ref = Absent]

BothRoles(first, second) ==
  [parses |-> TRUE, bindings |-> "one" :> first @@ "two" :> second,
   roles |-> "correctness" :> "one" @@ "testing" :> "two"]

(* One that serves both roles, one that does not load, and one without a   *)
(* credential and a second role.                                           *)
Serving == BothRoles(Plain, Converse)
SomeFiles == {Serving,
              BothRoles(Plain, [Converse EXCEPT !.region = FALSE]),
              [BothRoles(Keyless, Converse) EXCEPT !.roles = "correctness" :> "one"]}

SomeCredentials ==
  {[dotenv |-> "read", holds |-> {K1}, keychain |-> {K2}],
   [dotenv |-> "read", holds |-> {}, keychain |-> {}]}

Unconfigured == [pr |-> FALSE, configured |-> FALSE, declared |-> {}, constraints |-> <<>>,
                 environment |-> {}]
ThePullRequest == [Unconfigured EXCEPT !.pr = TRUE, !.configured = TRUE]
Noted == << NoteText(n1) >>
Declaring == [Unconfigured EXCEPT !.declared = {"concurrency"}, !.constraints = Noted]

(* One whose constraints say of the risk what Declaring's package says.    *)
Saying == [Unconfigured EXCEPT !.constraints = Noted \o << RiskText("concurrency") >>]

SomeCommands == {ThePullRequest, Declaring, Saying}
SayingAndDeclaring == {Declaring, Saying}
SomeNotes == {n1}
=============================================================================
