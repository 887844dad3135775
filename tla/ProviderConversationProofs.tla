--------------------- MODULE ProviderConversationProofs ---------------------
(***************************************************************************)
(* For any number of turns, retries and calls in a turn, and whatever the  *)
(* provider says: the bound on requests, what may be returned, that every  *)
(* tool call has its answer before the next request, and that a            *)
(* conversation is one ReviewerCall.                                       *)
(***************************************************************************)
EXTENDS ProviderConversation, RecursionLemmas, FiniteSetTheorems

(* A turn is a record whose calls are a sequence; having none is a turn.   *)
LEMMA TurnShape ==
  NoTurn \in Turn /\ \A t \in Turn : t.calls \in Seq(Calls) /\ t.cites \subseteq Ranges
<1>1. NoTurn \in Turn
  <2>1. <<>> \in [1..0 -> Calls]
    OBVIOUS
  <2>2. 0 \in 0..MaxCalls
    BY TurnAssumption
  <2>3. <<>> \in UNION {[1..n -> Calls] : n \in 0..MaxCalls}
    BY <2>1, <2>2
  <2> QED
    BY <2>3 DEF NoTurn, Turn
<1>2. ASSUME NEW t \in Turn PROVE t.calls \in Seq(Calls) /\ t.cites \subseteq Ranges
  <2>1. PICK n \in 0..MaxCalls : t.calls \in [1..n -> Calls]
    BY DEF Turn
  <2>2. n \in Nat
    BY TurnAssumption
  <2>3. t.calls \in Seq(Calls)
    BY <2>1, <2>2
  <2> QED
    BY <2>3 DEF Turn
<1> QED
  BY <1>1, <1>2

(* What RunTools appends are sequences of messages.                        *)
LEMMA ResultsShape ==
  ASSUME NEW calls \in Seq(Calls)
  PROVE  <<ModelMessage(calls)>> \in Seq(Message) /\ Results(calls) \in Seq(Message)
<1>1. \A i \in 1..Len(calls) : Execute(calls[i]) \in Result
  BY CallAssumption DEF Execute, Result
<1>2. ModelMessage(calls) \in Message
  BY DEF ModelMessage, Message
<1>3. \A results \in Seq(Result) : ToolMessage(results) \in Message
  BY DEF ToolMessage, Message
<1>4. Results(calls) \in Seq(Message)
  <2>1. CASE transport = "chat"
    <3>1. \A i \in 1..Len(calls) : <<Execute(calls[i])>> \in Seq(Result)
      BY <1>1
    <3>2. \A i \in 1..Len(calls) : ToolMessage(<<Execute(calls[i])>>) \in Message
      BY <1>3, <3>1
    <3> QED
      BY <2>1, <3>2 DEF Results
  <2>2. CASE transport # "chat"
    <3>1. [i \in 1..Len(calls) |-> Execute(calls[i])] \in Seq(Result)
      BY <1>1
    <3> QED
      BY <1>3, <2>2, <3>1 DEF Results
  <2> QED
    BY <2>1, <2>2
<1> QED
  BY <1>2, <1>4

(* The arithmetic of the bound.                                            *)
LEMMA Budget ==
  ASSUME NEW m \in Nat, NEW k \in Nat, NEW n \in Nat, k <= n
  PROVE  m * k <= m * n
OBVIOUS

LEMMA BudgetStep ==
  ASSUME NEW m \in Nat, NEW k \in Nat
  PROVE  m * (k + 1) = m * k + m
OBVIOUS

-----------------------------------------------------------------------------
(* The part of the invariant that Fail re-establishes, wherever it is      *)
(* called: one more attempt, over or settled.                              *)
LEMMA FailKeeps ==
  ASSUME ConversationInv, NEW kind \in Kinds, Fail(kind),
         pc # "settled",
         UNCHANGED <<binding, turn, sent>>,
         messages' \in Seq(Message), reply' \in Turn,
         task = "challenge" => messages' = <<>>
  PROVE  ConversationInv'
<1> USE DEF ConversationInv, TypeOK, binding, Kinds
<1>1. status = "pending" /\ tries <= limit /\ tries \in Nat /\ limit \in Nat
  BY TurnAssumption DEF TriesInv
<1>2. /\ tries' = tries + 1
      /\ error' = kind
      /\ findings' = findings
      /\ \/ status' = "failed" /\ pc' = "settled"
         \/ status' = status /\ pc' = "starting" /\ tries # limit
  BY DEF Fail
<1>3. TypeOK'
  BY <1>1, <1>2
<1>4. SentInv'
  <2>1. MaxTurns * tries' = MaxTurns * tries + MaxTurns
    BY <1>1, <1>2, BudgetStep, TurnAssumption
  <2>2. sent <= MaxTurns * tries + MaxTurns
    <3>1. MaxTurns \in Nat /\ turn \in Nat /\ turn <= MaxTurns /\ MaxTurns * tries \in Nat
      BY <1>1, TurnAssumption
    <3> QED
      BY <3>1 DEF SentInv
  <2> QED
    BY <1>2, <2>1, <2>2 DEF SentInv
<1>5. TriesInv'
  BY <1>1, <1>2 DEF TriesInv
<1>6. ChallengeInv'
  BY <1>1, <1>2 DEF ChallengeInv
<1>7. ReadyInv'
  BY <1>1, <1>2 DEF ReadyInv
<1>8. OnlyPermittedIsReturned'
  BY <1>1, <1>2 DEF OnlyPermittedIsReturned
<1> QED
  BY <1>3, <1>4, <1>5, <1>6, <1>7, <1>8

LEMMA NaturalProduct == ASSUME NEW m \in Nat, NEW k \in Nat PROVE 0 <= m * k
OBVIOUS

LEMMA InitInv == Init => ConversationInv
BY TurnShape, TurnAssumption
   DEF Init, ConversationInv, TypeOK, SentInv, TriesInv, ChallengeInv, ReadyInv,
       OnlyPermittedIsReturned, Kinds

LEMMA BeginInv == ConversationInv /\ Begin => ConversationInv'
<1> SUFFICES ASSUME ConversationInv, Begin PROVE ConversationInv'
  OBVIOUS
<1>1. CASE ready /\ pc' = "asking" /\ UNCHANGED result
  BY <1>1, TurnAssumption
     DEF Begin, result, binding, ConversationInv, TypeOK, SentInv, TriesInv, ChallengeInv,
         ReadyInv, OnlyPermittedIsReturned
<1>2. CASE ~ready /\ Fail("provider-error")
  (* No request was made: FailKeeps would do but for turn, which is reset. *)
  <2>1. /\ sent = 0 /\ sent' = 0
        /\ status = "pending" /\ tries <= limit /\ tries \in Nat /\ limit \in Nat
    BY <1>2, TurnAssumption DEF Begin, ConversationInv, TypeOK, ReadyInv, TriesInv
  <2>2. /\ tries' = tries + 1
        /\ error' = "provider-error"
        /\ findings' = findings
        /\ \/ status' = "failed" /\ pc' = "settled"
           \/ status' = status /\ pc' = "starting" /\ tries # limit
    BY <1>2 DEF Fail
  <2>3. TypeOK'
    BY <2>1, <2>2, TurnAssumption DEF Begin, binding, ConversationInv, TypeOK, Kinds
  <2>4. SentInv'
    <3>1. tries' \in Nat /\ MaxTurns \in Nat
      BY <2>1, <2>2, TurnAssumption
    <3>2. 0 <= MaxTurns * tries'
      BY <3>1, NaturalProduct
    <3> QED
      BY <2>1, <2>2, <3>2 DEF SentInv
  <2>5. TriesInv'
    BY <2>1, <2>2 DEF Begin, binding, ConversationInv, TriesInv
  <2>6. ChallengeInv' /\ ReadyInv' /\ OnlyPermittedIsReturned'
    BY <1>2, <2>1, <2>2
       DEF Begin, binding, ConversationInv, ChallengeInv, ReadyInv, OnlyPermittedIsReturned
  <2> QED
    BY <2>3, <2>4, <2>5, <2>6 DEF ConversationInv
<1> QED
  BY <1>1, <1>2 DEF Begin

LEMMA AskInv == ConversationInv /\ Ask => ConversationInv'
<1> SUFFICES ASSUME ConversationInv, Ask PROVE ConversationInv'
  OBVIOUS
<1>1. TypeOK'
  BY TurnAssumption DEF Ask, binding, result, ConversationInv, TypeOK
<1>2. SentInv'
  <2>1. turn \in Nat /\ sent \in Nat /\ tries \in Nat /\ MaxTurns * tries \in Nat
    BY TurnAssumption DEF ConversationInv, TypeOK
  <2> QED
    BY <2>1 DEF Ask, binding, result, ConversationInv, SentInv
<1>3. TriesInv' /\ ChallengeInv' /\ ReadyInv' /\ OnlyPermittedIsReturned'
  BY DEF Ask, binding, result, ConversationInv, TypeOK, TriesInv, ChallengeInv, ReadyInv,
         OnlyPermittedIsReturned
<1> QED
  BY <1>1, <1>2, <1>3 DEF ConversationInv

LEMMA FailingInv == ConversationInv /\ (GiveUp \/ Break) => ConversationInv'
<1> SUFFICES ASSUME ConversationInv, GiveUp \/ Break PROVE ConversationInv'
  OBVIOUS
<1>1. PICK kind \in Kinds : Fail(kind)
  BY DEF GiveUp, Break, Kinds
<1>2. /\ pc # "settled"
      /\ UNCHANGED <<binding, messages, turn, sent, reply>>
  BY DEF GiveUp, Break
<1>3. messages' \in Seq(Message) /\ reply' \in Turn /\ (task = "challenge" => messages' = <<>>)
  BY <1>2 DEF ConversationInv, TypeOK, ChallengeInv
<1> QED
  BY <1>1, <1>2, <1>3, FailKeeps

LEMMA ReceiveInv == ConversationInv /\ Receive => ConversationInv'
BY DEF Receive, binding, result, ConversationInv, TypeOK, SentInv, TriesInv, ChallengeInv,
       ReadyInv, OnlyPermittedIsReturned

LEMMA RunToolsInv == ConversationInv /\ RunTools => ConversationInv'
<1> SUFFICES ASSUME ConversationInv, RunTools PROVE ConversationInv'
  OBVIOUS
<1>1. task = "review" /\ Pursued \in Seq(Calls)
  BY TurnShape DEF RunTools, Pursued, ConversationInv, TypeOK
<1>2. messages' \in Seq(Message)
  <2>1. <<ModelMessage(Pursued)>> \in Seq(Message) /\ Results(Pursued) \in Seq(Message)
    BY <1>1, ResultsShape
  <2> QED
    BY <2>1 DEF RunTools, ConversationInv, TypeOK
<1>3. TypeOK'
  BY <1>2, TurnShape DEF RunTools, binding, result, ConversationInv, TypeOK
<1>4. SentInv' /\ TriesInv' /\ ChallengeInv' /\ ReadyInv' /\ OnlyPermittedIsReturned'
  BY <1>1 DEF RunTools, binding, result, ConversationInv, SentInv, TriesInv, ChallengeInv,
              ReadyInv, OnlyPermittedIsReturned
<1> QED
  BY <1>3, <1>4 DEF ConversationInv

(* A text is accepted only with citations that are permitted.              *)
LEMMA ConcludeInv == ConversationInv /\ Conclude => ConversationInv'
<1> SUFFICES ASSUME ConversationInv, Conclude PROVE ConversationInv'
  OBVIOUS
<1>1. CASE HasText /\ reply.text = "json" /\ reply.cites \subseteq Permitted
  <2>1. /\ status' = "answered" /\ findings' = reply.cites /\ tries' = tries + 1
        /\ pc' = "settled" /\ UNCHANGED error
    BY <1>1 DEF Conclude
  <2>2. UNCHANGED <<binding, messages, turn, sent>> /\ reply' = NoTurn /\ pc = "reading"
    BY DEF Conclude
  <2>3. status = "pending" /\ tries <= limit /\ tries \in Nat /\ limit \in Nat /\ ready
    BY <2>2, TurnAssumption DEF ConversationInv, TypeOK, TriesInv, ReadyInv
  <2>4. TypeOK'
    BY <2>1, <2>2, <2>3, TurnShape DEF binding, ConversationInv, TypeOK
  <2>5. SentInv'
    <3>1. MaxTurns * tries' = MaxTurns * tries + MaxTurns
      BY <2>1, <2>3, BudgetStep, TurnAssumption
    <3>2. sent <= MaxTurns * tries + MaxTurns
      <4>1. turn \in Nat /\ turn <= MaxTurns /\ sent \in Nat /\ MaxTurns * tries \in Nat
        BY <2>3, TurnAssumption DEF ConversationInv, TypeOK
      <4> QED
        BY <2>2, <4>1, TurnAssumption DEF ConversationInv, SentInv
    <3> QED
      BY <2>1, <2>2, <3>1, <3>2 DEF SentInv
  <2>6. TriesInv' /\ ChallengeInv' /\ ReadyInv'
    BY <2>1, <2>2, <2>3
       DEF binding, ConversationInv, TypeOK, TriesInv, ChallengeInv, ReadyInv
  <2>7. OnlyPermittedIsReturned'
    BY <1>1, <2>1, <2>2, <2>3
       DEF binding, ConversationInv, TypeOK, ReadyInv, Permitted, OnlyPermittedIsReturned
  <2> QED
    BY <2>4, <2>5, <2>6, <2>7 DEF ConversationInv
<1>2. CASE ~(HasText /\ reply.text = "json" /\ reply.cites \subseteq Permitted)
  <2>1. Fail("invalid-output")
    BY <1>2 DEF Conclude
  <2>2. /\ pc # "settled"
        /\ UNCHANGED <<binding, messages, turn, sent>>
        /\ reply' \in Turn
    BY TurnShape DEF Conclude
  <2>3. messages' \in Seq(Message) /\ (task = "challenge" => messages' = <<>>)
    BY <2>2 DEF ConversationInv, TypeOK, ChallengeInv
  <2>4. "invalid-output" \in Kinds
    BY DEF Kinds
  <2> QED
    BY <2>1, <2>2, <2>3, <2>4, FailKeeps
<1> QED
  BY <1>1, <1>2

LEMMA StepInv == ConversationInv /\ [Next]_vars => ConversationInv'
<1>1. ConversationInv /\ UNCHANGED vars => ConversationInv'
  BY DEF vars, ConversationInv, TypeOK, SentInv, TriesInv, ChallengeInv, ReadyInv,
         OnlyPermittedIsReturned
<1> QED
  BY <1>1, BeginInv, AskInv, FailingInv, ReceiveInv, RunToolsInv, ConcludeInv DEF Next, Local

(* The inductive invariant holds in every state of every conversation.     *)
THEOREM ConversationInvariance == Spec => []ConversationInv
BY InitInv, StepInv, PTL DEF Spec

(* Type correctness of a conversation.                                     *)
THEOREM ConversationTypes == Spec => []TypeOK
<1>1. ConversationInv => TypeOK
  BY DEF ConversationInv
<1> QED
  BY <1>1, ConversationInvariance, PTL

(* Never more than MaxTurns requests an attempt, one for a challenge, and  *)
(* none before the credential is there: http_post_json is called no more   *)
(* often, whatever the model asks for.                                     *)
THEOREM BoundedRequests == Spec => []RequestsAreBounded
<1>1. ConversationInv => RequestsAreBounded
  <2> SUFFICES ASSUME ConversationInv PROVE RequestsAreBounded
    OBVIOUS
  <2>1. /\ MaxTurns \in Nat /\ tries \in Nat /\ limit \in Nat
        /\ turn \in Nat /\ turn <= MaxTurns /\ sent \in Nat
    BY TurnAssumption DEF ConversationInv, TypeOK
  <2>2. sent <= MaxTurns * (limit + 1)
    <3>1. CASE pc \in {"starting", "settled"}
      <4>1. sent <= MaxTurns * tries /\ tries <= limit + 1
        BY <3>1 DEF ConversationInv, SentInv, TriesInv
      <4>2. MaxTurns * tries <= MaxTurns * (limit + 1)
        BY <2>1, <4>1, Budget
      <4> QED
        BY <2>1, <4>1, <4>2
    <3>2. CASE pc \notin {"starting", "settled"}
      <4>1. sent <= MaxTurns * tries + turn /\ tries + 1 <= limit + 1
        BY <2>1, <3>2 DEF ConversationInv, TypeOK, SentInv, TriesInv
      <4>2. MaxTurns * (tries + 1) <= MaxTurns * (limit + 1)
        BY <2>1, <4>1, Budget
      <4>3. MaxTurns * (tries + 1) = MaxTurns * tries + MaxTurns
        BY <2>1, BudgetStep
      <4>4. /\ MaxTurns * tries \in Nat
            /\ MaxTurns * (tries + 1) \in Nat
            /\ MaxTurns * (limit + 1) \in Nat
        BY <2>1
      <4> QED
        BY <2>1, <4>1, <4>2, <4>3, <4>4
    <3> QED
      BY <3>1, <3>2
  <2>3. ~ready => sent = 0
    BY DEF ConversationInv, ReadyInv
  <2>4. task = "challenge" => sent <= 1 /\ messages = <<>>
    BY <2>1 DEF ConversationInv, TypeOK, ChallengeInv
  <2> QED
    BY <2>2, <2>3, <2>4 DEF RequestsAreBounded
<1> QED
  BY <1>1, ConversationInvariance, PTL

(* A review returns only citations the frozen patch supports, a challenge  *)
(* only evidence of its dispute.                                           *)
THEOREM PermittedCitations == Spec => []OnlyPermittedIsReturned
<1>1. ConversationInv => OnlyPermittedIsReturned
  BY DEF ConversationInv
<1> QED
  BY <1>1, ConversationInvariance, PTL

-----------------------------------------------------------------------------
(* Every tool call has its answer.                                         *)

(* The results of some calls are their answers, one by one, in as many     *)
(* tool messages as the transport makes of them.                           *)
LEMMA ResultsAreAnswers ==
  ASSUME NEW calls \in Seq(Calls), calls # <<>>
  PROVE  /\ Len(Results(calls)) \in Nat \ {0}
         /\ \A k \in 1..Len(Results(calls)) : Results(calls)[k].from = "tool"
         /\ FlattenSeq([k \in 1..Len(Results(calls)) |-> Results(calls)[k].results])
              = [k \in 1..Len(calls) |-> Execute(calls[k])]
<1>. DEFINE N == Len(calls)
            answers == [k \in 1..N |-> Execute(calls[k])]
            parts(n) == [k \in 1..n |-> Results(calls)[k].results]
<1>1. N \in Nat \ {0}
  BY EmptySeq
<1>2. answers \in Seq(Result) /\ Len(answers) = N
  <2>1. \A k \in 1..N : Execute(calls[k]) \in Result
    BY CallAssumption DEF Execute, Result
  <2>. HIDE DEF N
  <2>. QED
    BY <1>1, <2>1
<1>3. CASE transport = "chat"
  <2>1. Results(calls) = [k \in 1..N |-> ToolMessage(<<Execute(calls[k])>>)]
    BY <1>3 DEF Results
  <2>2. /\ Len(Results(calls)) = N
        /\ \A k \in 1..N : /\ Results(calls)[k].from = "tool"
                           /\ Results(calls)[k].results = <<answers[k]>>
    BY <1>1, <2>1 DEF ToolMessage
  <2>3. parts(N) = [k \in 1..Len(answers) |-> <<answers[k]>>]
    BY <1>2, <2>2
  <2>4. FlattenSeq(parts(N)) = answers
    BY <1>2, <2>3, FlattenSingles
  <2>. QED
    BY <1>1, <2>2, <2>4
<1>4. CASE transport # "chat"
  <2>1. Results(calls) = <<ToolMessage(answers)>>
    BY <1>4 DEF Results
  <2>2. /\ Len(Results(calls)) = 1
        /\ \A k \in 1..1 : /\ Results(calls)[k].from = "tool"
                           /\ Results(calls)[k].results = answers
    BY <2>1 DEF ToolMessage
  <2>. HIDE DEF answers
  <2>3. parts(1) = <<answers>>
    BY <2>2
  <2>4. FlattenSeq(parts(1)) = answers
    BY <1>2, <2>3, FlattenOne
  <2>. QED
    BY <2>2, <2>4 DEF answers
<1>. QED
  BY <1>3, <1>4

(* What is found behind a turn is exactly that.                            *)
LEMMA AnswersFound ==
  ASSUME TypeOK, NEW i \in Turns, AnsweredAt(i)
  PROVE  AnswersTo(i) = [k \in 1..Len(messages[i].calls) |-> Execute(messages[i].calls[k])]
<1>. DEFINE calls == messages[i].calls
            answers == Results(calls)
            n == Len(answers)
            L == Len(messages)
            Ends(k) == /\ \A j \in (i + 1)..k : j \notin Turns
                       /\ k + 1 \in Turns \cup {L + 1}
            last == CHOOSE k \in i..L : Ends(k)
<1>1. L \in Nat /\ i \in 1..L /\ Turns \subseteq 1..L /\ calls \in Seq(Calls)
  <2>1. L \in Nat /\ i \in 1..L /\ Turns \subseteq 1..L
    BY DEF TypeOK, Turns
  <2>2. messages[i] \in Message
    BY <2>1, ElementOfSeq DEF TypeOK
  <2>. QED
    BY <2>1, <2>2 DEF Message
<1>2. n \in Nat \ {0} /\ \A k \in 1..n : answers[k].from = "tool"
  BY <1>1, ResultsAreAnswers DEF AnsweredAt
<1>3. /\ i + n + 1 \in Turns \cup {L + 1}
      /\ \A k \in 1..n : i + k \in 1..L /\ messages[i + k] = answers[k]
  BY DEF AnsweredAt
<1>4. \A k \in 1..n : i + k \notin Turns
  BY <1>2, <1>3 DEF Turns
<1>. HIDE DEF L, n, answers
<1>5. i + n \in i..L /\ Ends(i + n)
  <2>1. i + n \in i..L
    BY <1>1, <1>2, <1>3
  <2>2. ASSUME NEW j \in (i + 1)..(i + n) PROVE j \notin Turns
    <3>1. j - i \in 1..n /\ i + (j - i) = j
      BY <1>1, <1>2
    <3>. QED
      BY <1>4, <3>1
  <2>. QED
    BY <1>3, <2>1, <2>2
<1>6. ASSUME NEW k \in i..L, Ends(k) PROVE k = i + n
  <2>1. CASE k < i + n
    <3>1. k + 1 - i \in 1..n /\ i + (k + 1 - i) = k + 1
      BY <1>1, <1>2, <2>1
    <3>2. k + 1 \notin Turns /\ k + 1 \in 1..L
      BY <1>3, <1>4, <3>1
    <3>. QED
      BY <1>1, <1>6, <3>2
  <2>2. CASE k > i + n
    <3>1. i + n + 1 \in (i + 1)..k /\ i + n + 1 # L + 1
      BY <1>1, <1>2, <2>2
    <3>. QED
      BY <1>3, <1>6, <3>1
  <2>. QED
    BY <1>1, <1>2, <2>1, <2>2
<1>7. last = i + n
  BY <1>5, <1>6
<1>8. AnswersTo(i) = FlattenSeq([k \in 1..(last - i) |-> messages[i + k].results])
  BY DEF AnswersTo, L
<1>. HIDE DEF last
<1>9. last - i = n
  BY <1>1, <1>2, <1>7
<1>10. [k \in 1..n |-> messages[i + k].results] = [k \in 1..n |-> answers[k].results]
  BY <1>3
<1>. QED
  BY <1>1, <1>8, <1>9, <1>10, ResultsAreAnswers DEF AnsweredAt, n, answers

(* One turn more, with all its answers behind it.                          *)
LEMMA TurnAnswered ==
  ASSUME TypeOK, AnswerInv, pc = "reading", NEW calls \in Seq(Calls), calls # <<>>,
         messages' = messages \o <<ModelMessage(calls)>> \o Results(calls),
         transport' = transport
  PROVE  /\ messages' # <<>> => 1 \in Turns'
         /\ \A i \in Turns' : AnsweredAt(i)'
         /\ Cardinality(Turns') = turn
<1>. DEFINE L == Len(messages)
            answers == Results(calls)
            n == Len(answers)
            M == L + 1 + n
<1>1. /\ L \in Nat /\ messages \in Seq(Message) /\ turn \in Nat
      /\ Turns \subseteq 1..L /\ \A i \in 1..L : i \in Turns <=> messages[i].from = "model"
  BY DEF TypeOK, Turns
<1>2. n \in Nat \ {0} /\ \A k \in 1..n : answers[k].from = "tool"
  BY ResultsAreAnswers
<1>3. <<ModelMessage(calls)>> \in Seq(Message) /\ answers \in Seq(Message)
  BY ResultsShape
<1>4. \A c : Results(c)' = Results(c)
  BY DEF Results, Execute
<1>5. ModelMessage(calls).from = "model" /\ ModelMessage(calls).calls = calls
  BY DEF ModelMessage
<1>. DEFINE one == <<ModelMessage(calls)>>
<1>6. Len(one) = 1 /\ one[1] = ModelMessage(calls)
  OBVIOUS
<1>. HIDE DEF one
<1>7. /\ Len(messages') = M
      /\ \A i \in 1..L : messages'[i] = messages[i]
      /\ messages'[L + 1] = ModelMessage(calls)
      /\ \A k \in 1..n : messages'[L + 1 + k] = answers[k]
  <2>. DEFINE half == messages \o one
  <2>1. /\ half \in Seq(Message) /\ Len(half) = L + 1
        /\ \A i \in 1..(L + 1) : half[i] = IF i <= L THEN messages[i] ELSE one[i - L]
    BY <1>1, <1>3, <1>6, ConcatProperties DEF one
  <2>2. messages' = half \o answers
    BY DEF one
  <2>. HIDE DEF half, answers
  <2>3. /\ Len(half \o answers) = L + 1 + n
        /\ \A i \in 1..(L + 1 + n) :
              (half \o answers)[i] = IF i <= L + 1 THEN half[i] ELSE answers[i - (L + 1)]
    <3>1. ASSUME NEW s \in Seq(Message), NEW t \in Seq(Message)
          PROVE  /\ Len(s \o t) = Len(s) + Len(t)
                 /\ \A i \in 1..(Len(s) + Len(t)) :
                       (s \o t)[i] = IF i <= Len(s) THEN s[i] ELSE t[i - Len(s)]
      BY ConcatProperties
    <3>2. half \in Seq(Message) /\ answers \in Seq(Message)
      BY <1>3, <2>1
    <3>3. /\ Len(half \o answers) = Len(half) + Len(answers)
          /\ \A i \in 1..(Len(half) + Len(answers)) :
                (half \o answers)[i] = IF i <= Len(half) THEN half[i] ELSE answers[i - Len(half)]
      BY ONLY <3>1, <3>2
    <3>. QED
      BY <2>1, <3>3
  <2>. HIDE DEF L, n
  <2>4. \A i \in 1..L : i \in 1..(L + 1) /\ i \in 1..(L + 1 + n) /\ i <= L + 1 /\ i <= L
    BY <1>1, <1>2
  <2>5. L + 1 \in 1..(L + 1) /\ L + 1 \in 1..(L + 1 + n) /\ ~(L + 1 <= L) /\ (L + 1) - L = 1
    BY <1>1, <1>2
  <2>6. \A k \in 1..n : /\ L + 1 + k \in 1..(L + 1 + n) /\ ~(L + 1 + k <= L + 1)
                       /\ (L + 1 + k) - (L + 1) = k
    BY <1>1, <1>2
  <2>7. \A i \in 1..L : messages'[i] = messages[i]
    BY <2>1, <2>2, <2>3, <2>4
  <2>8. messages'[L + 1] = ModelMessage(calls)
    BY <1>6, <2>1, <2>2, <2>3, <2>5
  <2>9. \A k \in 1..n : messages'[L + 1 + k] = answers[k]
    BY <2>2, <2>3, <2>6
  <2>. QED
    BY <2>2, <2>3, <2>7, <2>8, <2>9
<1>. HIDE DEF L, n, answers
<1>8. Turns' = Turns \cup {L + 1}
  <2>1. Turns' = {i \in 1..M : messages'[i].from = "model"}
    BY <1>7 DEF Turns
  <2>2. \A i \in 1..M : i \in 1..L \/ i = L + 1 \/ (i - (L + 1) \in 1..n /\ L + 1 + (i - (L + 1)) = i)
    BY <1>1, <1>2
  <2>3. \A i \in 1..M : messages'[i].from = "model" <=> i \in Turns \cup {L + 1}
    <3>1. SUFFICES ASSUME NEW i \in 1..M
                   PROVE  messages'[i].from = "model" <=> i \in Turns \cup {L + 1}
      OBVIOUS
    <3>2. CASE i \in 1..L
      BY <1>1, <1>7, <3>2
    <3>3. CASE i = L + 1
      BY <1>5, <1>7, <3>3
    <3>4. CASE i - (L + 1) \in 1..n /\ L + 1 + (i - (L + 1)) = i
      <4>1. messages'[i].from = "tool"
        BY <1>2, <1>7, <3>4
      <4>2. i \notin Turns \cup {L + 1}
        BY <1>1, <1>2, <3>4
      <4>. QED
        BY <4>1, <4>2
    <3>. QED
      BY <2>2, <3>2, <3>3, <3>4
  <2>4. Turns \cup {L + 1} \subseteq 1..M
    BY <1>1, <1>2
  <2>. QED
    BY <2>1, <2>3, <2>4
<1>9. 1 \in Turns'
  <2>1. L = 0 => L + 1 = 1
    OBVIOUS
  <2>2. L # 0 => messages # <<>>
    BY DEF L
  <2>. QED
    BY <1>8, <2>1, <2>2 DEF AnswerInv
<1>10. ASSUME NEW i \in Turns' PROVE AnsweredAt(i)'
  <2>1. CASE i \in Turns
    <3>1. AnsweredAt(i) /\ i \in 1..L
      BY <1>1, <2>1 DEF AnswerInv
    <3>2. messages'[i] = messages[i]
      BY <1>7, <3>1
    <3>. DEFINE a == Results(messages[i].calls)
    <3>3. Results(messages[i].calls)' = a
      BY <1>4, <3>2
    <3>4. /\ messages[i].calls # <<>>
          /\ i + Len(a) + 1 \in Turns \cup {L + 1}
          /\ \A k \in 1..Len(a) : i + k \in 1..L /\ messages[i + k] = a[k]
      BY <3>1 DEF AnsweredAt, L
    <3>. HIDE DEF a
    <3>5. \A k \in 1..Len(a) : i + k \in 1..M /\ messages'[i + k] = a[k]
      <4>1. \A j \in 1..L : j \in 1..M
        BY <1>1, <1>2
      <4>2. \A j \in 1..L : messages'[j] = messages[j]
        BY <1>7
      <4>. QED
        BY <3>4, <4>1, <4>2, Zenon
    <3>. QED
      BY <1>7, <1>8, <3>2, <3>3, <3>4, <3>5 DEF AnsweredAt
  <2>2. CASE i = L + 1
    <3>1. messages'[i].calls = calls
      BY <1>5, <1>7, <2>2
    <3>2. Results(messages[i].calls)' = answers
      BY <1>4, <3>1 DEF answers
    <3>3. \A k \in 1..n : i + k \in 1..M /\ messages'[i + k] = answers[k]
      BY <1>1, <1>2, <1>7, <2>2
    <3>4. i + n + 1 = M + 1
      BY <1>1, <1>2, <2>2
    <3>. QED
      BY <1>7, <3>1, <3>2, <3>3, <3>4 DEF AnsweredAt, n
  <2>. QED
    BY <1>8, <2>1, <2>2
<1>11. Cardinality(Turns') = turn
  <2>1. IsFiniteSet(Turns) /\ L + 1 \notin Turns
    <3>1. IsFiniteSet(1..L)
      BY <1>1, FS_Interval
    <3>2. IsFiniteSet(Turns)
      BY <1>1, <3>1, FS_Subset
    <3>. QED
      BY <1>1, <3>2
  <2>2. Cardinality(Turns \cup {L + 1}) = Cardinality(Turns) + 1
    BY <2>1, FS_AddElement
  <2>. QED
    BY <1>1, <1>8, <2>2 DEF AnswerInv
<1>. QED
  BY <1>9, <1>10, <1>11

LEMMA StepAnswers == ConversationInv /\ AnswerInv /\ [Next]_vars => AnswerInv'
<1>. SUFFICES ASSUME ConversationInv, AnswerInv, [Next]_vars PROVE AnswerInv'
  OBVIOUS
<1>0. TypeOK
  BY DEF ConversationInv
<1>1. ASSUME UNCHANGED <<messages, transport>>
      PROVE  /\ Turns' = Turns
             /\ messages' # <<>> => 1 \in Turns'
             /\ \A i \in Turns' : AnsweredAt(i)'
  <2>1. Turns' = Turns
    BY <1>1 DEF Turns
  <2>2. \A i : AnsweredAt(i)' <=> AnsweredAt(i)
    BY <1>1, <2>1 DEF AnsweredAt, Results, Execute
  <2>. QED
    BY <1>1, <2>1, <2>2 DEF AnswerInv
<1>2. CASE Begin
  <2>1. messages' = <<>> /\ turn' = 0 /\ pc' \in {"asking", "starting", "settled"}
    BY <1>2 DEF Begin, Fail
  <2>2. Turns' = {}
    BY <2>1 DEF Turns
  <2>3. Cardinality(Turns') = 0
    BY <2>2, FS_EmptySet
  <2>. QED
    BY <2>1, <2>2, <2>3 DEF AnswerInv
<1>3. CASE Ask
  <2>1. /\ UNCHANGED <<messages, transport>>
        /\ pc = "asking" /\ pc' = "waiting" /\ turn' = turn + 1 /\ turn \in Nat
    BY <1>0, <1>3 DEF Ask, binding, TypeOK
  <2>. QED
    BY <1>1, <2>1 DEF AnswerInv
<1>4. CASE Receive
  <2>1. /\ UNCHANGED <<messages, transport, turn>>
        /\ pc = "waiting" /\ pc' = "reading"
    BY <1>4 DEF Receive, binding
  <2>. QED
    BY <1>1, <2>1 DEF AnswerInv
<1>5. CASE RunTools
  <2>1. Pursued \in Seq(Calls)
    BY <1>0, TurnShape DEF Pursued, TypeOK
  <2>2. /\ Pursued # <<>> /\ pc = "reading" /\ pc' = "asking"
        /\ messages' = messages \o <<ModelMessage(Pursued)>> \o Results(Pursued)
        /\ UNCHANGED <<transport, turn>>
    BY <1>5 DEF RunTools, binding
  <2>. QED
    BY <1>0, <2>1, <2>2, TurnAnswered DEF AnswerInv
<1>6. CASE GiveUp \/ Break \/ Conclude
  <2>1. UNCHANGED <<messages, transport>> /\ pc' \in {"starting", "settled"}
    BY <1>6 DEF GiveUp, Break, Conclude, Fail, binding
  <2>. QED
    BY <1>1, <2>1 DEF AnswerInv
<1>7. CASE UNCHANGED vars
  BY <1>1, <1>7 DEF vars, AnswerInv
<1>. QED
  BY <1>2, <1>3, <1>4, <1>5, <1>6, <1>7 DEF Next, Local

(* No request repeats a conversation with a tool call that has no answer,  *)
(* or another call's, however many turns there were and whatever the       *)
(* transport makes of the results.                                         *)
THEOREM AnsweredCalls == Spec => []CallsAreAnswered
<1>1. Init => AnswerInv
  <2>1. SUFFICES ASSUME Init PROVE AnswerInv
    OBVIOUS
  <2>2. messages = <<>> /\ Turns = {} /\ pc = "starting"
    BY <2>1 DEF Init, Turns
  <2>. QED
    BY <2>2 DEF AnswerInv
<1>2. ConversationInv /\ AnswerInv => CallsAreAnswered
  <2>1. SUFFICES ASSUME TypeOK, AnswerInv, pc = "waiting",
                        NEW i \in Turns
                 PROVE  /\ messages[i].calls # <<>>
                        /\ Len(AnswersTo(i)) = Len(messages[i].calls)
                        /\ \A k \in 1..Len(AnswersTo(i)) :
                              LET call == messages[i].calls[k]
                                  answer == AnswersTo(i)[k]
                              IN  /\ answer.range = call.range
                                  /\ answer.excerpt => call.range \in Supported
                                  /\ call.range \in Supported /\ call.tool = "cite"
                                        => answer.excerpt
    BY DEF ConversationInv, AnswerInv, CallsAreAnswered
  <2>. DEFINE calls == messages[i].calls
  <2>2. AnsweredAt(i) /\ calls # <<>>
    BY <2>1 DEF AnswerInv, AnsweredAt
  <2>3. Len(calls) \in Nat
    <3>1. messages[i] \in Message
      BY <2>1, ElementOfSeq DEF TypeOK, Turns
    <3>. QED
      BY <3>1 DEF Message
  <2>4. AnswersTo(i) = [k \in 1..Len(calls) |-> Execute(calls[k])]
    BY <2>1, <2>2, AnswersFound
  <2>5. /\ Len(AnswersTo(i)) = Len(calls)
        /\ \A k \in 1..Len(calls) : AnswersTo(i)[k] = Execute(calls[k])
    BY <2>3, <2>4
  <2>6. ASSUME NEW call, NEW answer, answer = Execute(call)
        PROVE  /\ answer.range = call.range
               /\ answer.excerpt => call.range \in Supported
               /\ call.range \in Supported /\ call.tool = "cite" => answer.excerpt
    BY <2>6 DEF Execute
  <2>7. \A k \in 1..Len(AnswersTo(i)) : AnswersTo(i)[k] = Execute(calls[k])
    BY <2>5
  <2>. QED
    BY <2>2, <2>5, <2>6, <2>7, Zenon
<1>. QED
  BY <1>1, <1>2, StepAnswers, ConversationInvariance, PTL DEF Spec

-----------------------------------------------------------------------------
(* Every failure is a failure of the abstract call.                        *)
LEMMA FailMaps ==
  ASSUME ConversationInv, pc # "settled", NEW kind \in Kinds, Fail(kind), limit' = limit
  PROVE  Attempted!Next
<1>1. status = "pending"
  BY DEF ConversationInv, TriesInv
<1>2. Attempted!Fail
  BY <1>1 DEF Fail, Attempted!Fail, Attempted!Kinds, Kinds, ConversationInv, TypeOK
<1> QED
  BY <1>2 DEF Attempted!Next

LEMMA StepMaps == ConversationInv /\ [Next]_vars => [Attempted!Next]_(Attempted!vars)
<1> SUFFICES ASSUME ConversationInv, [Next]_vars
             PROVE  [Attempted!Next]_(Attempted!vars)
  OBVIOUS
<1>1. CASE Begin
  BY <1>1, FailMaps DEF Begin, binding, result, Kinds, Attempted!vars
<1>2. CASE Ask
  BY <1>2 DEF Ask, binding, result, Attempted!vars
<1>3. CASE GiveUp \/ Break
  BY <1>3, FailMaps DEF GiveUp, Break, binding, Kinds
<1>4. CASE Receive \/ RunTools
  BY <1>4 DEF Receive, RunTools, binding, result, Attempted!vars
<1>5. CASE Conclude
  <2>1. CASE HasText /\ reply.text = "json" /\ reply.cites \subseteq Permitted
    <3>1. status = "pending"
      BY <1>5 DEF Conclude, ConversationInv, TriesInv
    <3>2. reply.cites \in SUBSET (Supported \cup Disputed)
      BY <2>1 DEF Permitted
    <3>3. Attempted!Succeed
      BY <1>5, <2>1, <3>1, <3>2 DEF Conclude, binding, Attempted!Succeed
    <3> QED
      BY <3>3 DEF Attempted!Next
  <2>2. CASE ~(HasText /\ reply.text = "json" /\ reply.cites \subseteq Permitted)
    BY <1>5, <2>2, FailMaps DEF Conclude, binding, Kinds
  <2> QED
    BY <2>1, <2>2
<1>6. CASE UNCHANGED vars
  BY <1>6 DEF vars, Attempted!vars
<1> QED
  BY <1>1, <1>2, <1>3, <1>4, <1>5, <1>6 DEF Next, Local

(* A conversation of any length is one call as the first pass counts it:   *)
(* an answer or an error per attempt, and no attempt after a bad answer.   *)
THEOREM CallRefinement == Spec => ImplementsCall
<1>1. Init => Attempted!Init
  BY TurnAssumption DEF Init, Attempted!Init
<1> QED
  BY <1>1, ConversationInvariance, StepMaps, PTL DEF Spec, ImplementsCall, Attempted!Spec

-----------------------------------------------------------------------------
(* The variant.                                                            *)

(* What is left of an attempt: three steps a turn.                         *)
Left == IF pc = "starting" THEN 3 * MaxTurns + 1
        ELSE 3 * (MaxTurns - turn)
               + (CASE pc = "waiting" -> 2 [] pc = "reading" -> 1 [] OTHER -> 0)

(* Every step, the provider's too, leaves less of the attempt or of the    *)
(* attempts: no answer, error or tool call brings the call back to where   *)
(* it was.                                                                 *)
CallAdvances == [][tries' > tries \/ (tries' = tries /\ Left' < Left)]_vars

LEMMA LeftFacts ==
  ASSUME ConversationInv
  PROVE  /\ Left \in Nat
         /\ tries \in 0..(limit + 1)
<1>1. MaxTurns \in Nat /\ turn \in 0..MaxTurns /\ limit \in Nat /\ tries \in Nat
      /\ tries <= limit + 1
  BY TurnAssumption DEF ConversationInv, TypeOK, TriesInv
<1>. QED
  BY <1>1 DEF Left

LEMMA FailAdvances ==
  ASSUME ConversationInv, NEW kind, Fail(kind)
  PROVE  tries' > tries
BY DEF Fail, ConversationInv, TypeOK

LEMMA StepAdvances ==
  ASSUME ConversationInv, [Next]_vars
  PROVE  UNCHANGED vars \/ tries' > tries \/ (tries' = tries /\ Left' < Left)
<1>. MaxTurns \in Nat /\ turn \in 0..MaxTurns /\ tries \in Nat
  BY TurnAssumption DEF ConversationInv, TypeOK
<1>1. CASE Begin
  BY <1>1, FailAdvances DEF Begin, result, Left
<1>2. CASE Ask
  BY <1>2 DEF Ask, result, Left
<1>3. CASE GiveUp \/ Break
  BY <1>3, FailAdvances DEF GiveUp, Break
<1>4. CASE Receive
  BY <1>4 DEF Receive, result, Left
<1>5. CASE RunTools
  BY <1>5 DEF RunTools, result, Left
<1>6. CASE Conclude
  BY <1>6, FailAdvances DEF Conclude
<1>. QED
  BY <1>1, <1>2, <1>3, <1>4, <1>5, <1>6 DEF Next, Local

(* A call has at most limit + 1 attempts, each starts with 3 * MaxTurns +  *)
(* 1 steps to go, and every step, whatever the model answers, uses one of  *)
(* them up or ends the attempt: no conversation goes on for ever.          *)
THEOREM CallOnlyAdvances ==
  Spec => [](Left \in Nat /\ tries \in 0..(limit + 1)) /\ CallAdvances
<1>1. ConversationInv => Left \in Nat /\ tries \in 0..(limit + 1)
  BY LeftFacts
<1>2. ConversationInv /\ [Next]_vars => [tries' > tries \/ (tries' = tries /\ Left' < Left)]_vars
  BY StepAdvances
<1>. QED
  BY <1>1, <1>2, ConversationInvariance, PTL DEF Spec, CallAdvances
=============================================================================
