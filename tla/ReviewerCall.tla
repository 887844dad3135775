---------------------------- MODULE ReviewerCall ----------------------------
(***************************************************************************)
(* What one reviewer's thread promises the first pass, whatever provider   *)
(* and conversation are behind it: after at most limit + 1 attempts it has *)
(* settled, with one answer or with the kind of its last error; an answer  *)
(* that breaks the protocol is never asked for again.  ProviderConversation *)
(* implements this, and Orchestration relies on nothing else.              *)
(***************************************************************************)
EXTENDS Integers

CONSTANT Answers      \* the answers that are valid

VARIABLES limit,      \* retry_limit; it never changes
          status, tries, error, findings

vars == <<limit, status, tries, error, findings>>

Kinds == {"timeout", "invalid-output", "provider-error"}

Init == /\ limit \in Nat
        /\ status = "pending"
        /\ tries = 0
        /\ error = "none"
        /\ findings = {}

Succeed == /\ status = "pending"
           /\ findings' \in Answers
           /\ status' = "answered"
           /\ tries' = tries + 1
           /\ UNCHANGED <<limit, error>>

Fail == /\ status = "pending"
        /\ error' \in Kinds
        /\ status' = IF error' = "invalid-output" \/ tries = limit THEN "failed" ELSE "pending"
        /\ tries' = tries + 1
        /\ UNCHANGED <<limit, findings>>

Next == Succeed \/ Fail

Spec == Init /\ [][Next]_vars
=============================================================================
