------------------------ MODULE ProviderConversation ------------------------
(***************************************************************************)
(* reviewers/providers.py: what ProviderReviewer does with a provider to   *)
(* review a package, under the retries of run_first_pass, or to answer a   *)
(* challenge.  A review is a conversation: the model may ask the one tool  *)
(* there is for verified excerpts, several in a turn, and each request     *)
(* repeats everything said so far.  The provider and the network are the   *)
(* environment: any answer, any error.                                     *)
(*                                                                         *)
(* A citation is a range of lines; Supported are those the frozen patch    *)
(* has (module PatchEvidence); arguments that are no range at all are      *)
(* answered like a range it does not have.  What a text says is reduced to *)
(* the citations it makes.  The three transports differ in how they word a *)
(* turn, in whether stopReason matters, in who checks the tool's name and  *)
(* in how the results are put into messages.                               *)
(***************************************************************************)
EXTENDS Integers, SequencesExt

CONSTANTS Ranges,      \* the citations a model may make
          Supported,   \* those that frozen patch evidence supports
          Disputed,    \* those of the dispute that is challenged
          Calls,       \* the tool calls it may make
          MaxTurns,    \* _MAX_TOOL_TURNS
          MaxRetries,  \* bound: of retry_limit
          MaxCalls     \* bound: tool calls in one turn

ASSUME EvidenceAssumption == Supported \subseteq Ranges /\ Disputed \subseteq Ranges
ASSUME TurnAssumption == MaxTurns \in Nat \ {0} /\ {MaxRetries, MaxCalls} \subseteq Nat
ASSUME CallAssumption == Calls \subseteq [tool : {"cite", "other"}, range : Ranges]

Result == [range : Ranges, excerpt : BOOLEAN]

(* A turn of the model: tool calls and a text, either of which may lack;   *)
(* stop says whether stopReason, which only Converse has, is tool_use, and *)
(* json whether the text is the object asked for.                          *)
Turn == {t \in [calls : UNION {[1..n -> Calls] : n \in 0..MaxCalls}, stop : BOOLEAN,
                text : {"none", "prose", "json"}, cites : SUBSET Ranges] :
           t.text # "json" => t.cites = {}}

Message == [from : {"model", "tool"}, calls : Seq(Calls), results : Seq(Result)]

VARIABLES task,        \* review a package, or answer a challenge
          transport,   \* which API the binding names
          ready,       \* the credential, and what else a request needs, is there
          limit,       \* retry_limit
          pc,          \* where the thread is
          messages,    \* what was said since the first message of this attempt
          turn,        \* requests of this attempt
          sent,        \* requests of all attempts
          reply,       \* the turn being read, if any
          status, tries, error, findings   \* what the call has come to

vars == <<task, transport, ready, limit, pc, messages, turn, sent, reply,
          status, tries, error, findings>>
binding == <<task, transport, ready, limit>>
result == <<status, tries, error, findings>>

NoTurn == [calls |-> <<>>, stop |-> FALSE, text |-> "none", cites |-> {}]
Kinds == {"timeout", "invalid-output", "provider-error"}

TypeOK == /\ task \in {"review", "challenge"}
          /\ transport \in {"gemini", "converse", "chat"}
          /\ ready \in BOOLEAN
          /\ limit \in 0..MaxRetries
          /\ pc \in {"starting", "asking", "waiting", "reading", "settled"}
          /\ messages \in Seq(Message)
          /\ turn \in 0..MaxTurns
          /\ sent \in Nat
          /\ reply \in Turn
          /\ status \in {"pending", "answered", "failed"}
          /\ tries \in Nat
          /\ error \in Kinds \cup {"none"}
          /\ findings \subseteq Ranges

Init == /\ task \in {"review", "challenge"}
        /\ transport \in {"gemini", "converse", "chat"}
        /\ ready \in BOOLEAN
        /\ limit \in 0..MaxRetries
        /\ task = "challenge" => limit = 0
        /\ pc = "starting"
        /\ messages = <<>>
        /\ turn = 0
        /\ sent = 0
        /\ reply = NoTurn
        /\ status = "pending"
        /\ tries = 0
        /\ error = "none"
        /\ findings = {}

(* Mutant of Fail: what the model got wrong is asked for again.            *)
FailSoftly(kind) ==
  /\ error' = kind
  /\ tries' = tries + 1
  /\ IF tries = limit THEN status' = "failed" /\ pc' = "settled"
                      ELSE pc' = "starting" /\ UNCHANGED status
  /\ UNCHANGED findings

(* The call raises: run_first_pass tries again, unless the output broke    *)
(* the protocol or no attempt is left.  A challenge has only one.          *)
Fail(kind) ==
  /\ error' = kind
  /\ tries' = tries + 1
  /\ IF kind = "invalid-output" \/ tries = limit
     THEN status' = "failed" /\ pc' = "settled"
     ELSE pc' = "starting" /\ UNCHANGED status
  /\ UNCHANGED findings

(* Mutant of Begin: the payload of the last attempt is used again.         *)
BeginAgain == /\ pc = "starting"
              /\ \/ ready /\ pc' = "asking" /\ UNCHANGED result
                 \/ ~ready /\ Fail("provider-error")
              /\ turn' = 0
              /\ UNCHANGED <<binding, messages, sent, reply>>

(* A payload of its own for every attempt; without a credential, evidence  *)
(* or endpoint there is no request.                                        *)
Begin == /\ pc = "starting"
         /\ \/ ready /\ pc' = "asking" /\ UNCHANGED result
            \/ ~ready /\ Fail("provider-error")
         /\ messages' = <<>>
         /\ turn' = 0
         /\ UNCHANGED <<binding, sent, reply>>

(* Mutant of Ask: one request too many.                                    *)
AskOnceMore == /\ pc = "asking"
               /\ turn <= MaxTurns
               /\ turn' = turn + 1
               /\ sent' = sent + 1
               /\ pc' = "waiting"
               /\ UNCHANGED <<binding, messages, reply, result>>

(* http_post_json.                                                         *)
Ask == /\ pc = "asking"
       /\ turn < MaxTurns
       /\ turn' = turn + 1
       /\ sent' = sent + 1
       /\ pc' = "waiting"
       /\ UNCHANGED <<binding, messages, reply, result>>

(* Mutant of GiveUp: the loop falls off its end.                           *)
GiveUpSilently == /\ pc = "asking"
                  /\ turn = MaxTurns
                  /\ pc' = "settled"
                  /\ UNCHANGED <<binding, messages, turn, sent, reply, result>>

(* "reviewer exceeded tool-call turn limit"                                *)
GiveUp == /\ pc = "asking"
          /\ turn = MaxTurns
          /\ Fail("invalid-output")
          /\ UNCHANGED <<binding, messages, turn, sent, reply>>

(* No answer in time; a connection, status, redirect or size that is       *)
(* refused; or a body that is not the JSON this transport has.             *)
Break == /\ pc = "waiting"
         /\ \E kind \in Kinds : Fail(kind)
         /\ UNCHANGED <<binding, messages, turn, sent, reply>>

Receive == /\ pc = "waiting"
           /\ reply' \in Turn
           /\ reply'.stop => transport = "converse"
           /\ pc' = "reading"
           /\ UNCHANGED <<binding, messages, turn, sent, result>>

(* Mutant of Pursued: a challenge may call tools, too.                     *)
PursuedAlways == IF transport = "converse" => reply.stop THEN reply.calls ELSE <<>>

(* The calls the code goes on to answer.                                   *)
Pursued == IF task = "review" /\ (transport = "converse" => reply.stop)
           THEN reply.calls ELSE <<>>

(* Mutant of Execute: only the tool's name is looked at.                   *)
ExecuteAny(call) == [range |-> call.range, excerpt |-> call.tool = "cite"]

(* _execute_cite_tool and, for chat completions, the check of the name.    *)
Execute(call) ==
  [range |-> call.range,
   excerpt |-> call.range \in Supported /\ (transport = "chat" => call.tool = "cite")]

ModelMessage(calls) == [from |-> "model", calls |-> calls, results |-> <<>>]
ToolMessage(results) == [from |-> "tool", calls |-> <<>>, results |-> results]

(* One message per call, or one with a part for each.                      *)
Results(calls) ==
  IF transport = "chat"
  THEN [i \in 1..Len(calls) |-> ToolMessage(<<Execute(calls[i])>>)]
  ELSE <<ToolMessage([i \in 1..Len(calls) |-> Execute(calls[i])])>>

RunTools == /\ pc = "reading"
            /\ Pursued # <<>>
            /\ messages' = messages \o <<ModelMessage(Pursued)>> \o Results(Pursued)
            /\ reply' = NoTurn
            /\ pc' = "asking"
            /\ UNCHANGED <<binding, turn, sent, result>>

(* The text the transport finds in the turn.                               *)
HasText == reply.text # "none" /\ (transport = "gemini" => reply.calls = <<>>)

(* Mutant of Permitted: a challenge may be answered with other evidence.   *)
PermittedAnywhere == Supported \cup Disputed

Permitted == IF task = "review" THEN Supported ELSE Disputed

(* The findings are validated, or the response to the challenge: evidence  *)
(* that confirms has to be the dispute's own.                              *)
Conclude == /\ pc = "reading"
            /\ Pursued = <<>>
            /\ IF HasText /\ reply.text = "json" /\ reply.cites \subseteq Permitted
               THEN /\ status' = "answered"
                    /\ findings' = reply.cites
                    /\ tries' = tries + 1
                    /\ pc' = "settled"
                    /\ UNCHANGED error
               ELSE Fail("invalid-output")
            /\ reply' = NoTurn
            /\ UNCHANGED <<binding, messages, turn, sent>>

Local == Begin \/ Ask \/ GiveUp \/ RunTools \/ Conclude
Next == Local \/ Break \/ Receive

Spec == Init /\ [][Next]_vars

(* The thread runs on, and the socket's timeout ends every wait.           *)
FairSpec == Spec /\ WF_vars(Local) /\ WF_vars(Break \/ Receive)

-----------------------------------------------------------------------------
(* The model's turns in messages, and all that answers the one at i.       *)
Turns == {i \in 1..Len(messages) : messages[i].from = "model"}

AnswersTo(i) ==
  LET last == CHOOSE k \in i..Len(messages) :
                /\ \A j \in (i + 1)..k : j \notin Turns
                /\ k + 1 \in Turns \cup {Len(messages) + 1}
  IN  FlattenSeq([k \in 1..(last - i) |-> messages[i + k].results])

(* Whenever a request is out, its messages are the model turns of this     *)
(* attempt, one for each earlier request, and after each turn the answers  *)
(* to its calls, one per call and in their order: an excerpt only if the   *)
(* range is supported, and always if the tool is the one there is.         *)
CallsAreAnswered ==
  pc = "waiting" =>
     /\ Cardinality(Turns) = turn - 1
     /\ messages # <<>> => 1 \in Turns
     /\ \A i \in Turns :
           /\ messages[i].calls # <<>>
           /\ Len(AnswersTo(i)) = Len(messages[i].calls)
           /\ \A k \in 1..Len(AnswersTo(i)) :
                 LET call == messages[i].calls[k]
                     answer == AnswersTo(i)[k]
                 IN  /\ answer.range = call.range
                     /\ answer.excerpt => call.range \in Supported
                     /\ call.range \in Supported /\ call.tool = "cite" => answer.excerpt

(* A review makes at most MaxTurns requests an attempt, a challenge one,   *)
(* and nothing is sent before everything a request needs is there.         *)
RequestsAreBounded ==
  /\ ~ready => sent = 0
  /\ sent <= MaxTurns * (limit + 1)
  /\ task = "challenge" => sent <= 1 /\ messages = <<>>

(* What a call returns cites only lines of the patch, and what confirms a  *)
(* dispute is evidence of that dispute, whatever tools said before.        *)
OnlyPermittedIsReturned ==
  status = "answered" => /\ sent > 0
                         /\ findings \subseteq Supported \/ task = "challenge"
                         /\ findings \subseteq Disputed \/ task = "review"

(* However long the model keeps asking, the call comes to an end.          *)
Settles == <>(status # "pending")

(* The conversation is one reviewer's call as the first pass sees it.      *)
Attempted == INSTANCE ReviewerCall
               WITH Answers <- SUBSET (Supported \cup Disputed)

ImplementsCall == Attempted!Spec

-----------------------------------------------------------------------------
(* Why the bound holds: every attempt that ended made MaxTurns requests at *)
(* most, the one under way as many as it has turns.                        *)
SentInv == IF pc \in {"starting", "settled"} THEN sent <= MaxTurns * tries
                                             ELSE sent <= MaxTurns * tries + turn

TriesInv == /\ pc = "settled" <=> status # "pending"
            /\ tries <= limit + 1
            /\ status = "pending" => tries <= limit

(* A challenge has neither retries nor tool turns.                         *)
ChallengeInv ==
  task = "challenge" => /\ limit = 0
                        /\ messages = <<>>
                        /\ pc \in {"starting", "asking"} => sent = 0
                        /\ pc \in {"waiting", "reading", "settled"} => sent <= 1

(* Nothing is sent, let alone answered, before everything is ready.        *)
ReadyInv == IF ready THEN pc \in {"waiting", "reading"} => sent > 0
                     ELSE pc \in {"starting", "settled"} /\ sent = 0

(* Behind each of the model's turns are the answers to its calls and       *)
(* nothing else, up to its next turn or the end; the turns are the         *)
(* requests of this attempt but the one that is out.                       *)
AnsweredAt(i) ==
  LET answers == Results(messages[i].calls)
  IN  /\ messages[i].calls # <<>>
      /\ i + Len(answers) + 1 \in Turns \cup {Len(messages) + 1}
      /\ \A k \in 1..Len(answers) :
            i + k \in 1..Len(messages) /\ messages[i + k] = answers[k]

AnswerInv == /\ messages # <<>> => 1 \in Turns
             /\ \A i \in Turns : AnsweredAt(i)
             /\ pc = "asking" => Cardinality(Turns) = turn
             /\ pc \in {"waiting", "reading"} => Cardinality(Turns) = turn - 1

ConversationInv == /\ TypeOK
                   /\ SentInv
                   /\ TriesInv
                   /\ ChallengeInv
                   /\ ReadyInv
                   /\ OnlyPermittedIsReturned
=============================================================================
