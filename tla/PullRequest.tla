---------------------------- MODULE PullRequest ----------------------------
(***************************************************************************)
(* What evidence/github.py and evidence/git.py read revisions from, and    *)
(* what else changes it: the host's pull request, which is pushed to,      *)
(* force-pushed and has its base branch advance at any time; and the       *)
(* user's clone, with its objects, its branches, and the private refs all  *)
(* invocations for the pull request share.                                 *)
(*                                                                         *)
(* hub and local are the whole histories, the last entry being the present *)
(* one, so that properties can speak of what was there when.               *)
(***************************************************************************)
EXTENDS Integers, Sequences

CONSTANTS Commits,
          Ancestors,    \* of each commit, itself included
          Tips,         \* the commits each end may be at
          First,        \* the range of the pull request at the start
          MaxChanges    \* bound: pushes, moved branches and edited files

ASSUME CommitAssumption ==
         /\ Ancestors \in [Commits -> SUBSET Commits]
         /\ \A c \in Commits : /\ c \in Ancestors[c]
                               /\ \A d \in Ancestors[c] : Ancestors[d] \subseteq Ancestors[c]
         /\ Tips \in [{"base", "head"} -> SUBSET Commits]
         /\ First \in [base : Commits, head : Commits]
ASSUME ChangeAssumption == MaxChanges \in Nat

VARIABLES hub,        \* the pull request's base and head, then and now
          local,      \* the user's own branches `base` and `head`, then and now
          objects,    \* the commits in the clone
          refs,       \* refs/review-fabric/pr-N-*
          changes     \* changes by others so far

git == <<hub, local, objects, refs>>

Comparison == [base : Commits, head : Commits]
Ends == {"base", "head"}

GitTypeOK == /\ hub \in Seq(Comparison) /\ Len(hub) > 0
             /\ local \in Seq(Comparison) /\ Len(local) > 0
             /\ objects \subseteq Commits
             /\ refs \in Comparison
             /\ changes \in Nat

Now(history) == history[Len(history)]

With(part, name, value) == [part EXCEPT ![name] = value]

(* The clone starts with the range: it was made when the request was.  The  *)
(* private refs are not read before a fetch has set them.                  *)
GitInit == /\ hub = <<First>>
           /\ local = <<First>>
           /\ objects = Ancestors[First.base] \cup Ancestors[First.head]
           /\ refs = First
           /\ changes = 0

Change == changes < MaxChanges /\ changes' = changes + 1

(* The author pushes or force-pushes; the base branch advances or is reset. *)
Push == /\ Change
        /\ \E end \in Ends : \E c \in Tips[end] \ {Now(hub)[end]} :
              hub' = Append(hub, With(Now(hub), end, c))
        /\ UNCHANGED <<local, objects, refs>>

(* The user commits on a branch, resets or pulls it.                       *)
Move == /\ Change
        /\ \E end \in Ends : \E c \in Tips[end] \ {Now(local)[end]} :
              /\ local' = Append(local, With(Now(local), end, c))
              /\ objects' = objects \cup Ancestors[c]
        /\ UNCHANGED <<hub, refs>>

(* Mutant of FetchCommits: the pull request's head only.                   *)
FetchHead == /\ refs' = [refs EXCEPT !.head = Now(hub).head]
             /\ objects' = objects \cup Ancestors[Now(hub).head]
             /\ UNCHANGED <<hub, local>>

(* git fetch +refs/pull/N/head:... +refs/heads/BASE:... brings what the    *)
(* two names stand for at this moment, with all of its history.            *)
FetchCommits == /\ refs' = Now(hub)
                /\ objects' = objects \cup Ancestors[Now(hub).base] \cup Ancestors[Now(hub).head]
                /\ UNCHANGED <<hub, local>>

(* The end was rewritten between two moments: what it was at some moment   *)
(* is not in the history of what it was at the next.                       *)
Rewritten(from, to) ==
  \E i \in (from + 1)..to, end \in Ends : hub[i - 1][end] \notin Ancestors[hub[i][end]]
=============================================================================
