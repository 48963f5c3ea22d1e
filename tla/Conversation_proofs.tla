-------------------------- MODULE Conversation_proofs --------------------------
(***************************************************************************)
(* Proofs about the bot's answer to a message, for any window, budget,     *)
(* number of iterations and retries, and any number of messages.           *)
(***************************************************************************)
EXTENDS Conversation, ResearchSystem, TLAPS, SequenceTheorems, FiniteSetTheorems, WellFoundedInduction

Sessions == [messages : Seq(Entries), expired : BOOLEAN]

\* The nodes between the two that read and write the session, and those after.
Making == {"route_request", "run_news_agent", "run_runtime_agent", "run_research_agent",
           "run_main_agent", "tools", "guardrail_check", "reflect_result", "persist_session"}
Saved == {"enqueue_if_due", "finish_run", "reply"}

\* A reply is that of the message at hand or of an earlier one.
MessageInv ==
  /\ stage # "idle" => received \in 1..MaxMessages /\ received \notin replied
  /\ replied \subseteq 1..received

\* The session, and what a message found of it, is the end of the conversation:
\* between reading it and writing it nobody else adds an event.
SessionInv ==
  /\ session \in Sessions
  /\ Len(session.messages) <= Window /\ EndOf(session.messages, events)
  /\ stage \in Making => EndOf(loaded, events)

\* What the guardrail and the reviewer did to the answer that is on its way.
Guarded == answer.agent \in {"research", "main"} => answer.guarded
ReviewInv ==
  /\ stage \in {"guardrail_check", "reflect_result"} => answer \in Answers /\ ~answer.noted
  /\ stage = "reflect_result" => Guarded
  /\ stage \in Saved \cup {"persist_session"} \/ received \in replied =>
       answer \in Answers /\ Guarded /\ (answer.noted <=> verdict # "pass")

\* What is on record when the reply goes out.
RecordInv ==
  /\ stage \in Saved \/ run \in {"completed", "completed_with_errors"} => Recorded(received)
  /\ \A n \in replied : Recorded(n)
  /\ stage = "reply" \/ received \in replied => run = FinalStatus

IInv == TypeOK /\ MessageInv /\ SessionInv /\ ReviewInv /\ RecordInv

-----------------------------------------------------------------------------
(* Ends of sequences *)

\* One sequence is the end of another, element by element.
LEMMA EndOfElements ==
  ASSUME NEW S, NEW s \in Seq(S), NEW t \in Seq(S)
  PROVE  EndOf(s, t) <=> /\ Len(s) <= Len(t)
                         /\ \A i \in 1..Len(s) : s[i] = t[Len(t) - Len(s) + i]
<1> DEFINE m == Len(t) - Len(s) + 1
           n == Len(t)
           e == SubSeq(t, m, n)
<1>1. Len(s) \in Nat /\ Len(t) \in Nat
  BY LenProperties
<1> SUFFICES ASSUME Len(s) <= Len(t)
             PROVE  s = e <=> \A i \in 1..Len(s) : s[i] = t[Len(t) - Len(s) + i]
  BY DEF EndOf
<1>2. \A i \in m..n : t[i] \in S
  BY <1>1, ElementOfSeq
<1>3. /\ e \in Seq(S) /\ Len(e) = Len(s)
      /\ \A i \in 1..Len(s) : e[i] = t[Len(t) - Len(s) + i]
  <2>1. m \in Int /\ n \in Int
    BY <1>1
  <2> HIDE DEF m, n
  <2>2. /\ e \in Seq(S) /\ Len(e) = IF m <= n THEN n - m + 1 ELSE 0
        /\ \A i \in 1..n - m + 1 : e[i] = t[m + i - 1]
    BY <1>2, <2>1, SubSeqProperties
  <2> QED BY <1>1, <2>2 DEF m, n
<1> HIDE DEF e
<1> QED BY <1>3, SeqEqual

\* The end of the end is the end.
LEMMA EndOfTransitive ==
  ASSUME NEW S, NEW s \in Seq(S), NEW t \in Seq(S), NEW u \in Seq(S),
         EndOf(s, t), EndOf(t, u)
  PROVE  EndOf(s, u)
<1>1. Len(s) \in Nat /\ Len(t) \in Nat /\ Len(u) \in Nat
  BY LenProperties
<1>2. /\ Len(s) <= Len(t) /\ \A i \in 1..Len(s) : s[i] = t[Len(t) - Len(s) + i]
      /\ Len(t) <= Len(u) /\ \A i \in 1..Len(t) : t[i] = u[Len(u) - Len(t) + i]
  BY EndOfElements
<1>3. ASSUME NEW i \in 1..Len(s) PROVE s[i] = u[Len(u) - Len(s) + i]
  <2>1. Len(t) - Len(s) + i \in 1..Len(t)
    BY <1>1, <1>2
  <2>2. t[Len(t) - Len(s) + i] = u[Len(u) - Len(t) + (Len(t) - Len(s) + i)]
    BY <1>2, <2>1
  <2>3. Len(u) - Len(t) + (Len(t) - Len(s) + i) = Len(u) - Len(s) + i
    BY <1>1
  <2> QED BY <1>2, <2>2, <2>3
<1> QED BY <1>1, <1>2, <1>3, EndOfElements

\* What is appended to both keeps one the end of the other.
LEMMA EndOfConcat ==
  ASSUME NEW S, NEW s \in Seq(S), NEW t \in Seq(S), NEW u \in Seq(S), EndOf(s, t)
  PROVE  EndOf(s \o u, t \o u)
<1> DEFINE a == s \o u
           b == t \o u
<1>1. Len(s) \in Nat /\ Len(t) \in Nat /\ Len(u) \in Nat
  BY LenProperties
<1>2. Len(s) <= Len(t) /\ \A i \in 1..Len(s) : s[i] = t[Len(t) - Len(s) + i]
  BY EndOfElements
<1>3. /\ a \in Seq(S) /\ Len(a) = Len(s) + Len(u)
      /\ \A i \in 1..Len(s) + Len(u) : a[i] = IF i <= Len(s) THEN s[i] ELSE u[i - Len(s)]
  BY ConcatProperties
<1>4. /\ b \in Seq(S) /\ Len(b) = Len(t) + Len(u)
      /\ \A i \in 1..Len(t) + Len(u) : b[i] = IF i <= Len(t) THEN t[i] ELSE u[i - Len(t)]
  BY ConcatProperties
<1> HIDE DEF a, b
<1>5. ASSUME NEW i \in 1..Len(a) PROVE a[i] = b[Len(b) - Len(a) + i]
  <2> DEFINE j == Len(t) - Len(s) + i
  <2>1. Len(b) - Len(a) + i = j /\ j \in 1..Len(t) + Len(u)
    BY <1>1, <1>2, <1>3, <1>4
  <2>2. /\ a[i] = IF i <= Len(s) THEN s[i] ELSE u[i - Len(s)]
        /\ b[j] = IF j <= Len(t) THEN t[j] ELSE u[j - Len(t)]
    BY <1>3, <1>4, <2>1
  <2>3. j <= Len(t) <=> i <= Len(s)
    BY <1>1, <1>3
  <2>4. i \in 1..Len(s) => s[i] = t[j]
    BY <1>2
  <2>5. j - Len(t) = i - Len(s)
    BY <1>1, <1>3
  <2>6. i <= Len(s) => i \in 1..Len(s)
    BY <1>1, <1>3
  <2> HIDE DEF j
  <2> QED BY <2>1, <2>2, <2>3, <2>4, <2>5, <2>6
<1>6. Len(a) <= Len(b)
  BY <1>1, <1>2, <1>3, <1>4
<1>7. EndOf(a, b)
  BY <1>3, <1>4, <1>5, <1>6, EndOfElements
<1> QED BY <1>7 DEF a, b

\* Trimming keeps the end, within the window.
LEMMA TrimmedIsEnd ==
  ASSUME NEW S, NEW t \in Seq(S)
  PROVE  Trimmed(t) \in Seq(S) /\ Len(Trimmed(t)) <= Window /\ EndOf(Trimmed(t), t)
<1>1. Len(t) \in Nat /\ Window \in Nat \ {0}
  BY LenProperties, ConversationAssumption DEF ConversationAssumption
<1>2. CASE Len(t) <= Window
  <2>1. Trimmed(t) = t
    BY <1>2 DEF Trimmed
  <2> QED BY <1>1, <1>2, <2>1, EndOfElements
<1>3. CASE Len(t) > Window
  <2> DEFINE m == Len(t) - Window + 1
             n == Len(t)
  <2>1. Trimmed(t) = SubSeq(t, m, n)
    BY <1>1, <1>3 DEF Trimmed
  <2>2. m \in Int /\ n \in Int /\ \A i \in m..n : t[i] \in S
    BY <1>1, <1>3, ElementOfSeq
  <2>3. m <= n /\ n - m + 1 = Window /\ n - Window + 1 = m /\ Window <= n
    BY <1>1, <1>3
  <2> HIDE DEF m
  <2>4. SubSeq(t, m, n) \in Seq(S) /\ Len(SubSeq(t, m, n)) = Window
    BY <2>2, <2>3, SubSeqProperties
  <2> QED BY <1>1, <2>1, <2>3, <2>4 DEF EndOf
<1> QED BY <1>1, <1>2, <1>3

-----------------------------------------------------------------------------
(* The inductive invariant *)

\* The constants, one by one.
LEMMA Constants ==
  /\ Window \in Nat /\ MaxIterations \in Nat /\ MaxTurns \in Nat /\ MaxCalls \in Nat
  /\ MaxMessages \in Nat /\ MaxRetries \in Nat
  /\ Window > 0 /\ MaxMessages > 0
BY ConversationAssumption DEF ConversationAssumption

\* What is appended when a message is saved.
LEMMA TurnType ==
  ASSUME received \in 1..MaxMessages
  PROVE  Turn \in Seq(Entries) /\ Len(Turn) = 2 /\ Turn[2] = Entry("assistant", received)
BY DEF Turn, Entries, Entry

\* The invariant holds at first.
LEMMA InitInv == Init => IInv
<1> SUFFICES ASSUME Init PROVE IInv
  OBVIOUS
<1> USE Constants DEF Init
<1>1. <<>> \in Seq(Entries) /\ Len(<<>>) = 0
  BY EmptySeq
<1>2. EndOf(<<>>, <<>>)
  BY <1>1, SubSeqEmpty DEF EndOf
<1>3. TypeOK
  <2>1. stage \in Stages /\ received \in 0..MaxMessages /\ verdict \in {"none"} \cup Verdicts
    BY DEF Stages
  <2>2. attempts \in 0..MaxRetries /\ iterations \in 0..MaxIterations
    OBVIOUS
  <2>3. turns \in 0..MaxTurns /\ calls \in 0..MaxCalls
    OBVIOUS
  <2>4. loaded \in Seq(Entries) /\ events \in Seq(Entries)
        /\ session.messages \in Seq(Entries) /\ session.expired \in BOOLEAN
    BY <1>1 DEF NoSession
  <2> QED BY <2>1, <2>2, <2>3, <2>4 DEF TypeOK
<1>4. MessageInv /\ ReviewInv /\ RecordInv
  BY DEF MessageInv, ReviewInv, RecordInv, Saved
<1>5. SessionInv
  BY <1>1, <1>2 DEF SessionInv, Sessions, NoSession, Making
<1> QED BY <1>3, <1>4, <1>5 DEF IInv

\* What a step may spend is within the budget.
LEMMA BudgetType ==
  ASSUME TypeOK
  PROVE  /\ Refused \/ Completion => turns' \in 0..MaxTurns
         /\ Spends => turns' \in 0..MaxTurns /\ calls' \in 0..MaxCalls
         /\ FallBack => calls' \in 0..MaxCalls
BY Constants DEF TypeOK, Refused, Completion, Spends, FallBack

\* Every step keeps the types.
LEMMA TypesNext == ASSUME IInv, [Next]_vars PROVE TypeOK'
<1>0. TypeOK /\ MessageInv /\ SessionInv /\ ReviewInv
  BY DEF IInv
<1> USE Constants, <1>0 DEF TypeOK, Stages
<1>1. CASE LoadUserContext \/ RouteRequest
  BY <1>1 DEF LoadUserContext, RouteRequest, NodeOf, AgentOf, agentVars, budgetVars, stored
<1>2. ASSUME NEW a \in Agents \ {"main"}, RunDomain(a) PROVE TypeOK'
  <2>1. \A h \in HandlersOf(a) \cup {"error"} :
          [agent |-> a, handler |-> h, guarded |-> FALSE, noted |-> FALSE] \in Answers
    BY DEF HandlersOf, Given, Answers, Handlers, Commands, NewsCapabilities,
       RuntimeCapabilities, Agents
  <2>2. answer' \in Answers
    BY <1>2, <2>1 DEF RunDomain, AnsweredBy
  <2> QED BY <1>2, <2>2 DEF RunDomain, stored, budgetVars
<1>3. CASE ModelAnswers \/ ModelFails \/ OutOfIterations
  <2>1. answer' \in Answers
    <3>1. [agent |-> "main", handler |-> "main", guarded |-> FALSE, noted |-> FALSE] \in Answers
      BY DEF Answers, Agents, Handlers
    <3> QED BY <1>3, <3>1 DEF ModelAnswers, ModelFails, OutOfIterations, Concluded, AnsweredBy
  <2>2. turns' \in 0..MaxTurns /\ calls' \in 0..MaxCalls
    BY <1>3, BudgetType DEF ModelAnswers, ModelFails, OutOfIterations, ToolsSpeak, budgetVars
  <2>3. UNCHANGED <<iterations, log>> /\ Concluded
    BY <1>3 DEF ModelAnswers, ModelFails, OutOfIterations
  <2> QED BY <2>1, <2>2, <2>3 DEF Concluded, stored
<1>4. CASE ModelIsSilent \/ ModelCallsTools \/ Tools
  <2>1. turns' \in 0..MaxTurns /\ calls' \in 0..MaxCalls
    BY <1>4, BudgetType DEF ModelIsSilent, ModelCallsTools, Tools
  <2>2. iterations' \in 0..MaxIterations
    BY <1>4 DEF ModelIsSilent, ModelCallsTools, Tools, Asking
  <2> QED BY <1>4, <2>1, <2>2 DEF ModelIsSilent, ModelCallsTools, Tools, stored
<1>5. CASE GuardrailCheck
  <2>1. answer \in Answers
    BY <1>5 DEF GuardrailCheck, ReviewInv
  <2>2. answer' \in Answers
    <3> DEFINE g == answer.agent \in {"research", "main"}
    <3>1. g \in BOOLEAN /\ answer' = [answer EXCEPT !.guarded = g]
      BY <1>5 DEF GuardrailCheck
    <3> HIDE DEF g
    <3> QED BY <2>1, <3>1 DEF Answers
  <2> QED BY <1>5, <2>2 DEF GuardrailCheck, stored, budgetVars
<1>6. CASE Unreviewed
  BY <1>6, BudgetType DEF Unreviewed, Verdicts, stored
<1>7. ASSUME NEW a \in Agents \ {"news"}, Retry(a) PROVE TypeOK'
  <2>1. turns' \in 0..MaxTurns /\ attempts' \in 0..MaxRetries /\ iterations' \in 0..MaxIterations
    BY <1>7, BudgetType DEF Retry, MayRetry
  <2>2. stage' \in Stages /\ verdict' \in {"none"} \cup Verdicts
    BY <1>7 DEF Retry, NodeOf, Verdicts
  <2> QED BY <1>7, <2>1, <2>2 DEF Retry, stored
<1>8. ASSUME NEW v \in Verdicts, Judge(v) PROVE TypeOK'
  <2>1. answer' \in Answers
    <3>1. answer \in Answers /\ Noted(v) \in BOOLEAN /\ answer' = [answer EXCEPT !.noted = Noted(v)]
      BY <1>8 DEF Judge, ReviewInv, Noted
    <3> QED BY <3>1 DEF Answers
  <2> QED BY <1>8, <2>1, BudgetType DEF Judge, stored
<1>9. CASE PersistSession
  <2>1. Turn \in Seq(Entries)
    BY <1>9, TurnType DEF PersistSession, MessageInv
  <2>2. loaded \o Turn \in Seq(Entries) /\ events \o Turn \in Seq(Entries)
    BY <2>1, ConcatProperties
  <2>3. Trimmed(loaded \o Turn) \in Seq(Entries)
    BY <2>2, TrimmedIsEnd
  <2>4. /\ session'.messages \in Seq(Entries) /\ session'.expired \in BOOLEAN
        /\ events' \in Seq(Entries)
    BY <1>9, <2>2, <2>3 DEF PersistSession
  <2> QED BY <1>9, <2>4 DEF PersistSession, agentVars, budgetVars
<1>10. CASE EnqueueIfDue \/ FinishRun \/ Reply
  BY <1>10 DEF EnqueueIfDue, FinishRun, Reply, FinalStatus, MessageInv, agentVars, budgetVars, stored
<1>11. CASE Raise \/ Cut
  BY <1>11 DEF Raise, Cut, agentVars, budgetVars, stored
<1>12. CASE Expire \/ DeleteExpired
  <2>1. session' \in Sessions
    <3>1. CASE Expire
      BY <3>1 DEF Expire, SessionInv, Sessions
    <3>2. CASE DeleteExpired
      BY <3>2, EmptySeq DEF DeleteExpired, NoSession, Sessions
    <3> QED BY <1>12, <3>1, <3>2
  <2> QED BY <1>12, <2>1 DEF Expire, DeleteExpired, agentVars, budgetVars, Sessions
<1>13. ASSUME NEW r \in Requests, Receive(r) PROVE TypeOK'
  <2>1. received' \in 0..MaxMessages /\ loaded' \in Seq(Entries)
    BY <1>13, EmptySeq DEF Receive
  <2>2. turns' \in 0..MaxTurns /\ calls' \in 0..MaxCalls
        /\ attempts' \in 0..MaxRetries /\ iterations' \in 0..MaxIterations
    BY <1>13 DEF Receive
  <2> QED BY <1>13, <2>1, <2>2 DEF Receive, RunStarts, stored
<1>14. CASE UNCHANGED vars
  BY <1>14 DEF vars, agentVars, budgetVars, stored
<1> QED BY <1>1, <1>2, <1>3, <1>4, <1>5, <1>6, <1>7, <1>8, <1>9, <1>10, <1>11, <1>12, <1>13,
       <1>14 DEF Next, Node

\* Only three steps change what messages there are, what is stored of them or
\* that a reply is sent; all others belong to a message or to time.
LEMMA WhatSteps ==
  ASSUME [Next]_vars
  PROVE  /\ \/ \E r \in Requests : Receive(r)
            \/ Reply
            \/ /\ UNCHANGED <<received, replied>>
               /\ stage' # "idle" => stage # "idle"
         /\ UNCHANGED events \/ PersistSession
         /\ UNCHANGED loaded \/ LoadUserContext \/ \E r \in Requests : Receive(r)
         /\ UNCHANGED session \/ PersistSession \/ Expire \/ DeleteExpired
<1> USE DEF vars, agentVars, budgetVars, stored, Next, Node, LoadUserContext, RouteRequest,
      RunDomain, Concluded, ModelAnswers, ModelIsSilent, ModelCallsTools, Tools, ModelFails,
      OutOfIterations, Asking, GuardrailCheck, Unreviewed, Retry, Judge, EnqueueIfDue,
      FinishRun, Raise, Cut
<1>1. \/ \E r \in Requests : Receive(r)
      \/ Reply
      \/ /\ UNCHANGED <<received, replied>>
         /\ stage' # "idle" => stage # "idle"
  BY DEF PersistSession, Expire, DeleteExpired, NodeOf
<1>2. UNCHANGED events \/ PersistSession
  BY DEF Receive, Reply, Expire, DeleteExpired
<1>3. UNCHANGED loaded \/ LoadUserContext \/ \E r \in Requests : Receive(r)
  BY DEF Reply, PersistSession, Expire, DeleteExpired
<1>4. UNCHANGED session \/ PersistSession \/ Expire \/ DeleteExpired
  BY DEF Receive, Reply
<1> QED BY <1>1, <1>2, <1>3, <1>4

\* Every step keeps what is known of the message.
LEMMA MessageNext == ASSUME IInv, [Next]_vars PROVE MessageInv'
<1>1. TypeOK /\ MessageInv
  BY DEF IInv
<1>2. ASSUME NEW r \in Requests, Receive(r) PROVE MessageInv'
  BY <1>1, <1>2, Constants DEF Receive, MessageInv, TypeOK
<1>3. CASE Reply
  BY <1>1, <1>3, Constants DEF Reply, MessageInv, TypeOK
<1>4. CASE UNCHANGED <<received, replied>> /\ (stage' # "idle" => stage # "idle")
  BY <1>1, <1>4 DEF MessageInv
<1> QED BY <1>2, <1>3, <1>4, WhatSteps

\* A message that is being answered at a later node was loaded before.
LEMMA MakingStep ==
  ASSUME [Next]_vars, stage' \in Making
  PROVE  LoadUserContext \/ stage \in Making
BY DEF Making, vars, agentVars, budgetVars, stored, Next, Node, LoadUserContext, RouteRequest,
   RunDomain, Concluded, ModelAnswers, ModelIsSilent, ModelCallsTools, Tools, ModelFails,
   OutOfIterations, Asking, GuardrailCheck, Unreviewed, Retry, Judge, EnqueueIfDue,
   FinishRun, Raise, Cut, Receive, Reply, PersistSession, Expire, DeleteExpired, NodeOf, AgentOf

\* Every step keeps what is known of the session.
LEMMA SessionNext == ASSUME IInv, [Next]_vars PROVE SessionInv'
<1>0. TypeOK /\ MessageInv /\ SessionInv
  BY DEF IInv
<1>1. CASE PersistSession
  <2>1. /\ Turn \in Seq(Entries) /\ loaded \in Seq(Entries) /\ events \in Seq(Entries)
        /\ EndOf(loaded, events)
    BY <1>0, <1>1, TurnType DEF PersistSession, MessageInv, SessionInv, TypeOK, Making
  <2> DEFINE t == loaded \o Turn
  <2>2. t \in Seq(Entries) /\ events \o Turn \in Seq(Entries) /\ EndOf(t, events \o Turn)
    BY <2>1, ConcatProperties, EndOfConcat
  <2>3. /\ session' = [messages |-> Trimmed(t), expired |-> FALSE]
        /\ events' = events \o Turn /\ stage' \notin Making
    BY <1>1 DEF PersistSession, Making
  <2> HIDE DEF t
  <2>4. /\ Trimmed(t) \in Seq(Entries) /\ Len(Trimmed(t)) <= Window
        /\ EndOf(Trimmed(t), t)
    BY <2>2, TrimmedIsEnd
  <2>5. EndOf(Trimmed(t), events \o Turn)
    BY <2>2, <2>4, EndOfTransitive
  <2> QED BY <2>3, <2>4, <2>5 DEF SessionInv, Sessions
<1>2. CASE Expire \/ DeleteExpired
  <2>1. session' \in Sessions /\ session'.messages \in {session.messages, <<>>}
        /\ UNCHANGED <<stage, loaded, events>>
    <3>1. CASE Expire
      BY <1>0, <3>1 DEF Expire, SessionInv, Sessions
    <3>2. CASE DeleteExpired
      BY <3>2, EmptySeq DEF DeleteExpired, NoSession, Sessions
    <3> QED BY <1>2, <3>1, <3>2
  <2>2. Len(<<>>) = 0 /\ Len(<<>>) <= Window /\ EndOf(<<>>, events)
    <3>1. <<>> \in Seq(Entries) /\ Len(<<>>) = 0 /\ Len(events) \in Nat
      BY <1>0, EmptySeq, LenProperties DEF TypeOK
    <3>2. SubSeq(events, Len(events) - 0 + 1, Len(events)) = <<>>
      BY <3>1, SubSeqEmpty
    <3> QED BY <3>1, <3>2, Constants DEF EndOf
  <2> QED BY <1>0, <2>1, <2>2 DEF SessionInv
<1>3. CASE UNCHANGED <<session, events>>
  <2>1. CASE LoadUserContext
    BY <1>0, <1>3, <2>1 DEF LoadUserContext, SessionInv
  <2>2. CASE stage' \in Making /\ stage \in Making /\ ~LoadUserContext
    <3>1. UNCHANGED loaded
      BY <2>2, WhatSteps DEF Receive, Making
    <3> QED BY <1>0, <1>3, <2>2, <3>1 DEF SessionInv
  <2>3. CASE stage' \notin Making
    BY <1>0, <1>3, <2>3 DEF SessionInv
  <2> QED BY <2>1, <2>2, <2>3, MakingStep
<1> QED BY <1>1, <1>2, <1>3, WhatSteps DEF Expire, DeleteExpired, PersistSession

\* A step that makes no answer and judges none leaves it to those that do.
Bystands ==
  /\ UNCHANGED <<answer, verdict, received>>
  /\ stage' \in {"guardrail_check", "reflect_result", "persist_session"} => stage' = stage
  /\ stage' \in Saved => stage \in Saved \cup {"persist_session"}
  /\ received \in replied' => received \in replied \/ stage = "reply"

\* The steps of a turn that can change what the reviewer judges; every other one stands by.
LEMMA BystandsStep ==
  ASSUME [Next]_vars
  PROVE  \/ \E r \in Requests : Receive(r)
         \/ \E a \in Agents \ {"main"} : RunDomain(a)
         \/ ModelAnswers \/ ModelFails \/ OutOfIterations
         \/ GuardrailCheck \/ Unreviewed
         \/ \E a \in Agents \ {"news"} : Retry(a)
         \/ \E v \in Verdicts : Judge(v)
         \/ Bystands
BY DEF Bystands, Saved, vars, agentVars, budgetVars, stored, Next, Node, LoadUserContext,
   RouteRequest, ModelIsSilent, ModelCallsTools, Tools, Asking, EnqueueIfDue, FinishRun,
   Raise, Cut, Reply, PersistSession, Expire, DeleteExpired, NodeOf, AgentOf

\* Every step keeps what is known of the verdict.
LEMMA ReviewNext == ASSUME IInv, [Next]_vars PROVE ReviewInv'
<1>0. TypeOK /\ MessageInv /\ ReviewInv
  BY DEF IInv
<1>1. TypeOK' /\ MessageInv'
  BY TypesNext, MessageNext
<1>2. ASSUME NEW r \in Requests, Receive(r) PROVE ReviewInv'
  BY <1>1, <1>2 DEF Receive, ReviewInv, MessageInv, Saved
<1>3. ASSUME NEW a \in Agents, NEW h, AnsweredBy(a, h), stage' = "guardrail_check"
      PROVE  ReviewInv'
  <2>1. answer' \in Answers /\ ~answer'.noted
    BY <1>1, <1>3 DEF AnsweredBy, TypeOK, NoAnswer
  <2> QED BY <1>1, <1>3, <2>1 DEF ReviewInv, MessageInv, Saved
<1>4. ASSUME NEW a \in Agents \ {"main"}, RunDomain(a) PROVE ReviewInv'
  BY <1>3, <1>4 DEF RunDomain
<1>5. CASE ModelAnswers \/ ModelFails \/ OutOfIterations
  BY <1>3, <1>5 DEF ModelAnswers, ModelFails, OutOfIterations, Concluded, Agents
<1>6. CASE GuardrailCheck
  <2>1. answer \in Answers /\ ~answer.noted
    BY <1>0, <1>6 DEF GuardrailCheck, ReviewInv
  <2>2. answer' = [answer EXCEPT !.guarded = answer.agent \in {"research", "main"}]
    BY <1>6 DEF GuardrailCheck
  <2>3. answer' \in Answers /\ ~answer'.noted /\ Guarded'
    <3> DEFINE g == answer.agent \in {"research", "main"}
    <3>1. g \in BOOLEAN /\ answer' = [answer EXCEPT !.guarded = g]
      BY <2>2
    <3> HIDE DEF g
    <3>2. /\ answer' \in Answers /\ answer'.noted = answer.noted
          /\ answer'.agent = answer.agent /\ (answer'.guarded <=> g)
      BY <2>1, <3>1 DEF Answers
    <3> QED BY <2>1, <3>2 DEF Guarded, g
  <2> QED BY <1>1, <1>6, <2>3 DEF GuardrailCheck, ReviewInv, MessageInv, Saved
<1>7. CASE Unreviewed
  BY <1>0, <1>7 DEF Unreviewed, ReviewInv, Guarded, Saved
<1>8. ASSUME NEW a \in Agents \ {"news"}, Retry(a) PROVE ReviewInv'
  <2>1. /\ stage' \notin Saved \cup {"guardrail_check", "reflect_result", "persist_session"}
        /\ stage' # "idle"
    BY <1>8 DEF Retry, NodeOf, Saved
  <2> QED BY <1>1, <2>1 DEF ReviewInv, MessageInv
<1>9. ASSUME NEW v \in Verdicts, Judge(v) PROVE ReviewInv'
  <2>1. answer \in Answers /\ Guarded
    BY <1>0, <1>9 DEF Judge, ReviewInv
  <2>2. answer' = [answer EXCEPT !.noted = v # "pass"] /\ verdict' = v
    BY <1>9 DEF Judge, Noted
  <2>3. answer' \in Answers /\ Guarded' /\ (answer'.noted <=> verdict' # "pass")
    <3> DEFINE n == v # "pass"
    <3>1. n \in BOOLEAN /\ answer' = [answer EXCEPT !.noted = n]
      BY <2>2
    <3> HIDE DEF n
    <3>2. /\ answer' \in Answers /\ (answer'.noted <=> n)
          /\ answer'.agent = answer.agent /\ answer'.guarded = answer.guarded
      BY <2>1, <3>1 DEF Answers
    <3> QED BY <2>1, <2>2, <3>2 DEF Guarded, n
  <2> QED BY <1>9, <2>3 DEF Judge, ReviewInv, Saved
<1>10. CASE Bystands
  BY <1>0, <1>10 DEF Bystands, ReviewInv, Guarded, Saved
<1> QED BY <1>2, <1>4, <1>5, <1>6, <1>7, <1>8, <1>9, <1>10, BystandsStep

\* The run's status is written by few nodes.
LEMMA RunStep ==
  ASSUME [Next]_vars
  PROVE  \/ \E r \in Requests : Receive(r)
         \/ FinishRun
         \/ Raise
         \/ UNCHANGED run
BY DEF vars, Next, Node, LoadUserContext, RouteRequest, RunDomain, Concluded, ModelAnswers,
   ModelIsSilent, ModelCallsTools, Tools, ModelFails, OutOfIterations, GuardrailCheck,
   Unreviewed, Retry, Judge, EnqueueIfDue, Cut, Reply, PersistSession, Expire, DeleteExpired

\* What is recorded stays recorded, and a message that is saved is recorded.
LEMMA RecordedNext ==
  ASSUME IInv, [Next]_vars
  PROVE  /\ \A n : Recorded(n) => Recorded(n)'
         /\ PersistSession => Recorded(received)'
<1>1. CASE PersistSession
  <2>1. /\ Turn \in Seq(Entries) /\ Len(Turn) = 2
        /\ Turn[2] = Entry("assistant", received) /\ events \in Seq(Entries)
    BY <1>1, TurnType DEF PersistSession, MessageInv, TypeOK, IInv
  <2>2. events' = events \o Turn /\ received' = received
    BY <1>1 DEF PersistSession
  <2> DEFINE l == Len(events)
             e == events \o Turn
  <2>3. l \in Nat /\ DOMAIN events = 1..l
    BY <2>1, LenProperties
  <2>4. /\ e \in Seq(Entries) /\ Len(e) = l + 2
        /\ \A i \in 1..l + 2 : e[i] = IF i <= l THEN events[i] ELSE Turn[i - l]
    <3>1. /\ e \in Seq(Entries) /\ Len(e) = Len(events) + Len(Turn)
          /\ \A i \in 1..Len(events) + Len(Turn) :
               e[i] = IF i <= Len(events) THEN events[i] ELSE Turn[i - Len(events)]
      BY <2>1, ConcatProperties
    <3> QED BY <2>1, <3>1
  <2> HIDE DEF e
  <2>5. DOMAIN e = 1..l + 2
    BY <2>4, LenProperties
  <2> HIDE DEF l
  <2>6. \A i \in 1..l : i \in 1..l + 2 /\ e[i] = events[i]
    BY <2>3, <2>4
  <2>7. e[l + 2] = Turn[2] /\ l + 2 \in DOMAIN e
    BY <2>3, <2>4, <2>5
  <2>8. \A n : Recorded(n) => \E i \in DOMAIN e : e[i] = Entry("assistant", n)
    BY <2>3, <2>5, <2>6 DEF Recorded
  <2> QED BY <2>1, <2>2, <2>7, <2>8 DEF Recorded, e, Entry
<1>2. CASE ~PersistSession
  <2>1. UNCHANGED events
    BY <1>2, WhatSteps
  <2> QED BY <1>2, <2>1 DEF Recorded
<1> QED BY <1>1, <1>2

\* A node before the last saves nothing, and whoever is done keeps the answer.
LEMMA LateStep ==
  ASSUME [Next]_vars
  PROVE  /\ stage' \in Saved => stage \in Saved \/ PersistSession
         /\ stage' = "reply" => UNCHANGED <<stage, answer>> \/ FinishRun
         /\ stage = "idle" => UNCHANGED answer \/ \E r \in Requests : Receive(r)
<1> USE DEF vars, agentVars, budgetVars, stored, Next, Node, LoadUserContext, RouteRequest,
      RunDomain, Concluded, ModelAnswers, ModelIsSilent, ModelCallsTools, Tools, ModelFails,
      OutOfIterations, Asking, GuardrailCheck, Unreviewed, Retry, Judge, EnqueueIfDue,
      Raise, Cut, Expire, DeleteExpired, NodeOf, AgentOf
<1>1. stage' \in Saved => stage \in Saved \/ PersistSession
  BY DEF Saved, FinishRun, Reply, Receive
<1>2. stage' = "reply" => UNCHANGED <<stage, answer>> \/ FinishRun
  BY DEF Reply, Receive, PersistSession
<1>3. stage = "idle" => UNCHANGED answer \/ \E r \in Requests : Receive(r)
  BY DEF FinishRun, Reply, PersistSession
<1> QED BY <1>1, <1>2, <1>3

\* Every step keeps what is known of the record of the turn.
LEMMA RecordNext == ASSUME IInv, [Next]_vars PROVE RecordInv'
<1>0. TypeOK /\ MessageInv /\ RecordInv /\ (\A n : Recorded(n) => Recorded(n)')
  BY RecordedNext DEF IInv
<1>1. CASE \E r \in Requests : Receive(r)
  <2>1. /\ run' = "running" /\ stage' = "load_user_context"
        /\ received' = received + 1 /\ replied' = replied
    BY <1>1 DEF Receive, RunStarts
  <2> QED BY <1>0, <2>1 DEF RecordInv, MessageInv, TypeOK, Saved
<1>2. CASE PersistSession
  <2>1. Recorded(received)'
    BY <1>2, RecordedNext
  <2> QED BY <1>0, <1>2, <2>1 DEF PersistSession, RecordInv, FinalStatus, agentVars, MessageInv
<1>3. CASE FinishRun
  <2>1. Recorded(received)'
    BY <1>0, <1>3 DEF FinishRun, RecordInv, Saved
  <2> QED BY <1>0, <1>3, <2>1 DEF FinishRun, RecordInv, FinalStatus, agentVars, MessageInv
<1>4. CASE Reply
  BY <1>0, <1>4 DEF Reply, RecordInv, FinalStatus, agentVars, Saved
<1>5. CASE Raise
  BY <1>0, <1>5 DEF Raise, RecordInv, FinalStatus, agentVars, Saved, MessageInv
<1>6. CASE ~((\E r \in Requests : Receive(r)) \/ PersistSession \/ FinishRun \/ Reply \/ Raise)
  <2>1. UNCHANGED <<received, replied, run>>
    BY <1>6, WhatSteps, RunStep
  <2>2. /\ stage' \in Saved => stage \in Saved
        /\ stage' = "reply" => stage = "reply" /\ UNCHANGED answer
        /\ stage = "idle" => UNCHANGED answer
    BY <1>6, LateStep
  <2>3. received' \in replied' => received \in replied /\ stage = "idle"
    BY <1>0, <2>1 DEF MessageInv
  <2>4. stage \in Saved \/ run \in {"completed", "completed_with_errors"} => Recorded(received)'
    BY <1>0, <2>1 DEF RecordInv, Recorded
  <2> QED BY <1>0, <2>1, <2>2, <2>3, <2>4 DEF RecordInv, FinalStatus
<1> QED BY <1>1, <1>2, <1>3, <1>4, <1>5, <1>6

\* Every step keeps the invariant.
LEMMA NextInv == IInv /\ [Next]_vars => IInv'
BY TypesNext, MessageNext, SessionNext, ReviewNext, RecordNext DEF IInv

-----------------------------------------------------------------------------
(* What follows from it *)

\* The session is the end of the recorded conversation until the message that
\* was shown it writes it back, and nothing is said in the chat that the record
\* or the row of the run does not know.
THEOREM ConversationInvariant == Spec => []IInv
<1> QED BY InitInv, NextInv, PTL DEF Spec

\* The session is the end of the conversation within its window, the main agent
\* is shown the end of the conversation, and every reply is recorded.
THEOREM RecordedReplies == Spec => []RepliesAreRecorded
<1>1. IInv => RepliesAreRecorded
  <2> SUFFICES ASSUME IInv PROVE RepliesAreRecorded
    OBVIOUS
  <2>1. TypeOK /\ SessionInv /\ RecordInv
    BY DEF IInv
  <2>2. ASSUME stage \in {"run_main_agent", "tools"} PROVE EndOf(Shown, events)
    <3>1. loaded \in Seq(Entries) /\ events \in Seq(Entries) /\ EndOf(loaded, events)
      BY <2>1, <2>2 DEF TypeOK, SessionInv, Making
    <3>2. Shown = Trimmed(loaded)
      BY DEF Shown, Trimmed
    <3> QED BY <3>1, <3>2, TrimmedIsEnd, EndOfTransitive
  <2> QED BY <2>1, <2>2 DEF RepliesAreRecorded, SessionInv, RecordInv
<1> QED BY <1>1, ConversationInvariant, PTL

\* A reply that the reviewer did not accept is marked, and one of the research or
\* the main agent has passed the guardrail.
THEOREM RejectedReplies == Spec => []RejectedIsMarked
<1>1. IInv => RejectedIsMarked
  BY DEF IInv, ReviewInv, Guarded, RejectedIsMarked
<1> QED BY <1>1, ConversationInvariant, PTL

\* The row of a run says completed only of a recorded turn, and with errors exactly
\* if the reply is marked.
THEOREM HonestRuns == Spec => []RunIsHonest
<1>1. IInv => RunIsHonest
  BY DEF IInv, RecordInv, RunIsHonest, FinalStatus
<1> QED BY <1>1, ConversationInvariant, PTL

-----------------------------------------------------------------------------
(***************************************************************************)
(* The research of companies a sub-agent makes for an answer (module       *)
(* CompanyResearch), for any companies, requests, responses and limits.    *)
(***************************************************************************)
\* The packets of a research: each claim of one rests on what was found.
Urls == UNION {r.found : r \in Responses}

\* Each claim of a packet rests on addresses the search had returned.
Supported(p) == \A claim \in p.claims : claim # {} /\ claim \subseteq p.found

\* The packets a research may return.
Packets ==
  {p \in [company : C!Companies, status : {"failed", "timeout", "partial", "complete"},
          sources : SUBSET Urls, claims : SUBSET SUBSET Urls, found : SUBSET Urls] :
     Supported(p)}

\* What a task and a call may hold.
TaskType ==
  [pc : {"queued", "asking", "sleeping", "done", "cancelling", "ended"},
   attempt : 0..Attempts, packet : Seq(Packets)]

\* A call holds its tasks and, when they are over, their packets.
CallType ==
  [pc : {"issued", "waiting", "draining", "returned", "cut"}, companies : Seq(C!Companies),
   tasks : Seq(TaskType), packets : Seq(Packets)]

\* A task that is done has the packet of its company.
Delivers(c, i) == \E p \in Packets : c.tasks[i].packet = <<p>> /\ p.company = c.companies[i]

\* Where a task may be while its call is where it is.
MayBe(pc) ==
  CASE pc = "waiting" -> {"queued", "asking", "sleeping", "done"}
    [] pc = "draining" -> {"done", "cancelling", "ended"}
    [] pc = "returned" -> {"done", "ended"}
    [] OTHER -> {"queued", "asking", "sleeping", "done", "cancelling", "ended"}

\* The tasks of a call that hold a slot.
Busy(c) == {i \in DOMAIN c.tasks : C!Running(c.tasks[i])}

\* A call has a task per company once it has begun; no more of them than the
\* concurrency allows run, and one that is done has the packet of its company.
TasksOK(c) ==
  /\ Len(c.tasks) = (IF c.tasks = <<>> THEN 0 ELSE Len(c.companies))
  /\ c.pc = "issued" => c.tasks = <<>>
  /\ c.pc \in {"waiting", "draining", "returned"} => Len(c.tasks) = Len(c.companies)
  /\ \A i \in DOMAIN c.tasks :
       /\ c.tasks[i].pc \in MayBe(c.pc)
       /\ c.tasks[i].pc = "done" => Delivers(c, i)
       /\ c.tasks[i].pc = "sleeping" => c.tasks[i].attempt < Attempts
  /\ Cardinality(Busy(c)) <= Concurrency

\* The packets of a call are those of its companies, in their order, each one that
\* of its task or that of a time out.
PacketsOK(c) ==
  c.pc \in {"draining", "returned"} =>
    /\ Len(c.packets) = Len(c.companies)
    /\ \A i \in DOMAIN c.packets :
         /\ c.packets[i].company = c.companies[i]
         /\ \/ c.packets[i].status = "timeout"
            \/ c.tasks[i].pc = "done" /\ <<c.packets[i]>> = c.tasks[i].packet

\* What is so of every call, alone.
CallOK(c) == c \in CallType /\ TasksOK(c) /\ PacketsOK(c)

\* What the agent may hold.
AgentType ==
  [pc : {"planning", "tools", "enrich", "enriching", "report", "done", "cut"},
   round : 0..Rounds, batch : Nat, packets : SUBSET Packets, searched : BOOLEAN,
   noted : BOOLEAN, failed : BOOLEAN, shown : SUBSET C!Companies, synthesis : BOOLEAN]

\* The calls whose results the agent has taken.
Taken(k) == agent.pc \in {"planning", "enrich"} \/ k < agent.batch

\* How far the agent is with its calls.
PlanInv ==
  /\ Len(asked) <= MaxAsked + (IF agent.pc \in {"planning", "tools", "enrich"} THEN 0 ELSE 1)
  /\ agent.pc \in {"tools", "enriching", "report", "done"} => agent.batch \in 1..(Len(asked) + 1)
  /\ agent.pc = "enriching" => agent.batch = Len(asked)
  /\ agent.pc \in {"report", "done"} => agent.batch \in {Len(asked), Len(asked) + 1}

\* Calls whose results were taken are over, and their packets are in the answer,
\* unless the loop of the model failed.
TakenInv ==
  agent.pc # "cut" =>
    \A k \in DOMAIN asked : Taken(k) =>
      /\ C!Over(k)
      /\ asked[k].pc = "returned" =>
           C!Range(asked[k].packets) \subseteq agent.packets \/ agent.failed

\* The research of the stored candidates is made when there is no packet yet.
EnrichInv ==
  agent.pc \in {"enriching", "report", "done"} /\ agent.batch \in DOMAIN asked =>
    /\ agent.packets = {} /\ C!Range(asked[agent.batch].companies) \subseteq C!Range(Stored)
    /\ agent.pc # "enriching" => C!Over(agent.batch)

\* The inductive invariant of the research.
ResearchInv ==
  /\ agent \in AgentType
  /\ asked \in Seq(CallType) /\ \A k \in DOMAIN asked : CallOK(asked[k])
  /\ PlanInv /\ TakenInv /\ EnrichInv /\ C!FoundIsShown

\* The least of a set of numbers.
Least(S) == CHOOSE x \in S : \A y \in S : x <= y

-----------------------------------------------------------------------------
(* Lemmas *)

\* The research counts as this module does.
LEMMA CountedAlike ==
  ASSUME NEW S
  PROVE  C!Cardinality(S) = Cardinality(S)
BY Zenon DEF C!Cardinality, Cardinality

\* A set of numbers has a least one.
LEMMA LeastOf ==
  ASSUME NEW S \in SUBSET Nat, S # {}
  PROVE  Least(S) \in S /\ \A y \in S : Least(S) <= y
<1>1. PICK x \in S : \A y \in S : ~ (<<y, x>> \in OpToRel(<, Nat))
  BY NatLessThanWellFounded, WFMin
<1>2. \A y \in S : x \in Nat /\ y \in Nat /\ <<y, x>> \in Nat \X Nat
  OBVIOUS
<1>3. \A y \in S : ~(y < x)
  BY <1>1, <1>2 DEF OpToRel
<1>4. \A y \in S : x <= y
  BY <1>2, <1>3
<1>5. \E z \in S : \A y \in S : z <= y
  BY <1>4
<1> QED BY <1>5 DEF Least

\* The evidence of a response is a sequence, and its limit a positive number.
LEMMA ResponseParts ==
  ASSUME C!Settings, NEW r \in Responses
  PROVE  /\ Len(r.evidence) \in Nat /\ DOMAIN r.evidence = 1..Len(r.evidence)
         /\ MaxSources \in Nat /\ MaxSources > 0
<1>1. r.evidence \in Seq(C!Range(r.evidence))
  BY DEF C!Settings
<1> QED BY <1>1 DEF C!Settings

\* What a prefix of the evidence keeps.
KeptOf(r, K, n) == \A i \in 1..n : i \in K <=> C!LooksAt(K, i) /\ C!IsSupported(r, K, i)

\* Items that follow do not matter for the one that is looked at.
LEMMA SameBefore ==
  ASSUME NEW r, NEW K, NEW L, NEW i, C!Before(K, i) = C!Before(L, i)
  PROVE  C!LooksAt(K, i) = C!LooksAt(L, i) /\ C!IsSupported(r, K, i) = C!IsSupported(r, L, i)
BY DEF C!LooksAt, C!IsSupported, C!IsNew

\* The items that are kept of a prefix of the evidence can be told one by one.
LEMMA PrefixExists ==
  ASSUME C!Settings, NEW r \in Responses, NEW n \in 0..Len(r.evidence)
  PROVE  \E K \in SUBSET (1..n) : KeptOf(r, K, n)
<1>0. Len(r.evidence) \in Nat
  BY ResponseParts
<1> DEFINE S == {m \in 0..Len(r.evidence) : ~ \E K \in SUBSET (1..m) : KeptOf(r, K, m)}
<1> SUFFICES ASSUME S # {} PROVE FALSE
  OBVIOUS
<1>1. PICK m \in S : \A k \in S : m <= k
  <2>1. S \subseteq Nat
    BY <1>0
  <2> HIDE DEF S
  <2> QED BY <2>1, LeastOf
<1>2. m # 0
  <2>1. KeptOf(r, {}, 0) /\ {} \in SUBSET (1..0)
    BY DEF KeptOf
  <2> QED BY <2>1
<1>3. m \in Nat /\ m - 1 \in 0..Len(r.evidence) /\ m - 1 \notin S
  BY <1>0, <1>1, <1>2
<1>4. PICK K \in SUBSET (1..(m - 1)) : KeptOf(r, K, m - 1)
  BY <1>3
<1> DEFINE L == IF C!LooksAt(K, m) /\ C!IsSupported(r, K, m) THEN K \cup {m} ELSE K
<1>5. \A i \in 1..m : C!Before(L, i) = C!Before(K, i)
  BY <1>3 DEF C!Before
<1>6. L \in SUBSET (1..m)
  BY <1>3
<1>7. \A i \in 1..m : i \in L <=> C!LooksAt(L, i) /\ C!IsSupported(r, L, i)
  <2> TAKE i \in 1..m
  <2>1. C!LooksAt(L, i) = C!LooksAt(K, i) /\ C!IsSupported(r, L, i) = C!IsSupported(r, K, i)
    <3>1. C!Before(L, i) = C!Before(K, i)
      BY <1>5
    <3> HIDE DEF L
    <3> QED BY <3>1, SameBefore
  <2>2. CASE i = m
    <3>1. m \notin K
      BY <1>3
    <3> QED BY <2>1, <2>2, <3>1
  <2>3. CASE i # m
    <3>1. i \in 1..(m - 1) /\ (i \in L <=> i \in K)
      BY <1>3, <2>3
    <3> QED BY <1>4, <2>1, <3>1 DEF KeptOf
  <2> QED BY <2>2, <2>3
<1> HIDE DEF L
<1>8. \E J \in SUBSET (1..m) : KeptOf(r, J, m)
  BY <1>6, <1>7 DEF KeptOf
<1> QED BY <1>1, <1>8

\* The items that are kept are those that are looked at and supported, given the
\* ones kept before them.
LEMMA VerifiedKeeps ==
  ASSUME C!Settings, NEW r \in Responses
  PROVE  /\ C!Verified(r) \subseteq DOMAIN r.evidence
         /\ \A i \in DOMAIN r.evidence :
              i \in C!Verified(r) <=>
                C!LooksAt(C!Verified(r), i) /\ C!IsSupported(r, C!Verified(r), i)
<1>1. \E kept \in SUBSET DOMAIN r.evidence :
        \A i \in DOMAIN r.evidence : i \in kept <=> C!LooksAt(kept, i) /\ C!IsSupported(r, kept, i)
  <2>1. DOMAIN r.evidence = 1..Len(r.evidence) /\ Len(r.evidence) \in 0..Len(r.evidence)
    BY ResponseParts
  <2> QED BY <2>1, PrefixExists DEF KeptOf
<1> QED BY <1>1 DEF C!Verified

\* A research that failed or timed out leaves a packet without a claim.
LEMMA FailureType ==
  ASSUME NEW company \in C!Companies, NEW status \in {"failed", "timeout"}
  PROVE  /\ C!Failure(company, status) \in Packets
         /\ C!Failure(company, status).company = company
         /\ C!Failure(company, status).status = status
BY DEF C!Failure, Packets, Supported

\* A response that is parsed gives a packet of its company with supported claims.
LEMMA ParsedType ==
  ASSUME C!Settings, NEW company \in C!Companies, NEW r \in Responses
  PROVE  C!Parsed(company, r) \in Packets /\ C!Parsed(company, r).company = company
<1> DEFINE kept == C!Verified(r)
           cited(claim) == {r.evidence[i].url : i \in {j \in kept : r.evidence[j].id \in claim}}
           sources == {r.evidence[i].url : i \in kept}
           claims == {cited(claim) : claim \in r.claims} \ {{}}
           rejects == \E i \in DOMAIN r.evidence \ kept : C!LooksAt(kept, i)
           status == IF rejects \/ kept = {} \/ r.about # "assigned" THEN "partial" ELSE "complete"
           packet == [company |-> company, status |-> status, sources |-> sources,
                      claims |-> claims, found |-> r.found]
<1>1. \A i \in kept : r.evidence[i].url \in r.found
  BY VerifiedKeeps DEF C!IsSupported
<1>2. r.found \subseteq Urls
  BY DEF Urls
<1>3. \A claim : cited(claim) \subseteq r.found
  BY <1>1
<1>4. sources \subseteq r.found /\ \A c \in claims : c # {} /\ c \subseteq r.found
  BY <1>1, <1>3
<1>5. status \in {"failed", "timeout", "partial", "complete"}
  OBVIOUS
<1>6. C!Parsed(company, r) = IF r.about = "another" THEN C!Failure(company, "failed") ELSE packet
  BY DEF C!Parsed
<1> HIDE DEF sources, claims, status
<1>7. packet \in Packets /\ packet.company = company
  <2>1. claims \in SUBSET SUBSET Urls /\ sources \in SUBSET Urls
    BY <1>2, <1>4
  <2>2. Supported(packet)
    BY <1>4 DEF Supported
  <2> QED BY <1>2, <1>5, <2>1, <2>2 DEF Packets
<1> HIDE DEF packet
<1> QED BY <1>6, <1>7, FailureType

-----------------------------------------------------------------------------
(* One call *)

\* The limits are numbers.
LEMMA ResearchConstants ==
  ASSUME C!Settings
  PROVE  /\ Concurrency \in Nat /\ Concurrency > 0 /\ Attempts \in Nat /\ Attempts > 0
         /\ MaxCompanies \in Nat /\ MaxCompanies > 0 /\ MaxAsked \in Nat
         /\ Rounds \in Nat /\ Rounds > 0
BY DEF C!Settings

\* The parts of a call.
LEMMA CallParts ==
  ASSUME NEW c, CallOK(c)
  PROVE  /\ c.companies \in Seq(C!Companies) /\ c.tasks \in Seq(TaskType)
         /\ c.packets \in Seq(Packets)
         /\ Len(c.companies) \in Nat /\ Len(c.tasks) \in Nat /\ Len(c.packets) \in Nat
         /\ DOMAIN c.companies = 1..Len(c.companies)
         /\ DOMAIN c.tasks = 1..Len(c.tasks) /\ DOMAIN c.packets = 1..Len(c.packets)
         /\ DOMAIN c.tasks \subseteq DOMAIN c.companies
         /\ \A i \in DOMAIN c.tasks : c.tasks[i] \in TaskType /\ c.companies[i] \in C!Companies
<1>1. c.companies \in Seq(C!Companies) /\ c.tasks \in Seq(TaskType) /\ c.packets \in Seq(Packets)
  BY DEF CallOK, CallType
<1>2. /\ Len(c.companies) \in Nat /\ Len(c.tasks) \in Nat /\ Len(c.packets) \in Nat
      /\ DOMAIN c.companies = 1..Len(c.companies)
      /\ DOMAIN c.tasks = 1..Len(c.tasks) /\ DOMAIN c.packets = 1..Len(c.packets)
  BY <1>1, LenProperties
<1>3. DOMAIN c.tasks \subseteq DOMAIN c.companies
  <2>1. c.tasks = <<>> => Len(c.tasks) = 0
    BY <1>1, EmptySeq
  <2> QED BY <1>2, <2>1 DEF CallOK, TasksOK
<1>4. \A i \in DOMAIN c.tasks : c.tasks[i] \in TaskType /\ c.companies[i] \in C!Companies
  BY <1>1, <1>2, <1>3, ElementOfSeq
<1> QED BY <1>1, <1>2, <1>3, <1>4

\* A call with another task in the place of its i-th.
With(c, i, t) == [c EXCEPT !.tasks[i] = t]

\* Writing one task leaves the others and the call.
LEMMA WithTask ==
  ASSUME NEW c, CallOK(c), NEW i \in DOMAIN c.tasks, NEW t \in TaskType
  PROVE  LET d == With(c, i, t) IN
         /\ d \in CallType /\ d.pc = c.pc /\ d.companies = c.companies /\ d.packets = c.packets
         /\ DOMAIN d.tasks = DOMAIN c.tasks /\ Len(d.tasks) = Len(c.tasks)
         /\ d.tasks[i] = t /\ \A j \in DOMAIN c.tasks : j # i => d.tasks[j] = c.tasks[j]
<1> DEFINE d == With(c, i, t)
<1>1. c \in CallType /\ d = [c EXCEPT !.tasks = [c.tasks EXCEPT ![i] = t]]
  BY DEF With, CallOK
<1>2. /\ [c.tasks EXCEPT ![i] = t] \in Seq(TaskType)
      /\ Len([c.tasks EXCEPT ![i] = t]) = Len(c.tasks)
  BY CallParts, ExceptSeq
<1>3. d.tasks = [c.tasks EXCEPT ![i] = t]
  BY <1>1 DEF CallType
<1>4. d \in CallType /\ d.pc = c.pc /\ d.companies = c.companies /\ d.packets = c.packets
  BY <1>1, <1>2 DEF CallType
<1>5. DOMAIN d.tasks = DOMAIN c.tasks
  BY <1>3
<1>6. d.tasks[i] = t /\ \A j \in DOMAIN c.tasks : j # i => d.tasks[j] = c.tasks[j]
  BY <1>3
<1> QED BY <1>2, <1>3, <1>4, <1>5, <1>6

\* A task may go on to another state that its call allows.
LEMMA TaskStep ==
  ASSUME C!Settings, NEW c, CallOK(c), NEW i \in DOMAIN c.tasks, NEW t \in TaskType,
         t.pc \in MayBe(c.pc),
         t.pc = "done" => \E p \in Packets : t.packet = <<p>> /\ p.company = c.companies[i],
         t.pc = "sleeping" => t.attempt < Attempts,
         C!Running(t) => C!Running(c.tasks[i]) \/ Cardinality(Busy(c)) < Concurrency,
         c.tasks[i].pc # "done"
  PROVE  CallOK(With(c, i, t))
<1> DEFINE d == With(c, i, t)
<1>1. /\ d \in CallType /\ d.pc = c.pc /\ d.companies = c.companies /\ d.packets = c.packets
      /\ DOMAIN d.tasks = DOMAIN c.tasks /\ Len(d.tasks) = Len(c.tasks)
      /\ d.tasks[i] = t /\ \A j \in DOMAIN c.tasks : j # i => d.tasks[j] = c.tasks[j]
  BY WithTask
<1>2. DOMAIN c.tasks = 1..Len(c.tasks) /\ Len(c.tasks) \in Nat /\ c.tasks # <<>> /\ d.tasks # <<>>
  <2>1. Len(c.tasks) \in Nat /\ Len(c.tasks) > 0
    BY CallParts
  <2>2. Len(<<>>) = 0
    OBVIOUS
  <2> QED BY <1>1, <2>1, <2>2, CallParts
<1> HIDE DEF d
<1>3. Cardinality(Busy(d)) <= Concurrency
  <2>0. IsFiniteSet(Busy(c)) /\ Cardinality(Busy(c)) \in Nat /\ Cardinality(Busy(c)) <= Concurrency
    <3>1. IsFiniteSet(DOMAIN c.tasks)
      <4>1. IsFiniteSet(1..Len(c.tasks))
        BY <1>2, FS_Interval
      <4> QED BY <1>2, <4>1
    <3>2. Busy(c) \subseteq DOMAIN c.tasks
      BY DEF Busy
    <3> QED BY <3>1, <3>2, FS_Subset, FS_CardinalityType DEF CallOK, TasksOK
  <2>1. CASE C!Running(t) /\ ~C!Running(c.tasks[i])
    <3>1. Busy(d) = Busy(c) \cup {i} /\ i \notin Busy(c)
      BY <1>1, <2>1 DEF Busy
    <3>2. Cardinality(Busy(d)) = Cardinality(Busy(c)) + 1
      BY <2>0, <3>1, FS_AddElement
    <3> QED BY <2>0, <2>1, <3>2, ResearchConstants
  <2>2. CASE ~(C!Running(t) /\ ~C!Running(c.tasks[i]))
    <3>1. Busy(d) \subseteq Busy(c)
      BY <1>1, <2>2 DEF Busy
    <3>2. Cardinality(Busy(d)) <= Cardinality(Busy(c)) /\ Cardinality(Busy(d)) \in Nat
      BY <2>0, <3>1, FS_Subset, FS_CardinalityType
    <3> QED BY <2>0, <3>2, ResearchConstants
  <2> QED BY <2>1, <2>2
<1>4. \A j \in DOMAIN d.tasks :
        /\ d.tasks[j].pc \in MayBe(d.pc) /\ (d.tasks[j].pc = "done" => Delivers(d, j))
        /\ d.tasks[j].pc = "sleeping" => d.tasks[j].attempt < Attempts
  BY <1>1 DEF CallOK, TasksOK, Delivers
<1>5. TasksOK(d)
  BY <1>1, <1>2, <1>3, <1>4 DEF CallOK, TasksOK
<1>6. PacketsOK(d)
  <2> SUFFICES ASSUME d.pc \in {"draining", "returned"}, NEW j \in DOMAIN d.packets
               PROVE  /\ Len(d.packets) = Len(d.companies)
                      /\ d.packets[j].company = d.companies[j]
                      /\ \/ d.packets[j].status = "timeout"
                         \/ d.tasks[j].pc = "done" /\ <<d.packets[j]>> = d.tasks[j].packet
    BY <1>1, CallParts DEF PacketsOK, CallOK
  <2>1. /\ Len(c.packets) = Len(c.companies) /\ c.packets[j].company = c.companies[j]
        /\ \/ c.packets[j].status = "timeout"
           \/ c.tasks[j].pc = "done" /\ <<c.packets[j]>> = c.tasks[j].packet
    BY <1>1 DEF PacketsOK, CallOK
  <2>2. j \in DOMAIN c.tasks
    BY <1>1, <2>1, CallParts DEF CallOK, TasksOK
  <2> QED BY <1>1, <2>1, <2>2
<1> QED BY <1>1, <1>5, <1>6 DEF CallOK, d

\* A task that does a step: the sequence of calls has another one in its place.
LEMMA TaskActions ==
  ASSUME C!Settings, NEW k \in DOMAIN asked, CallOK(asked[k]), asked \in Seq(CallType),
         NEW i \in DOMAIN asked[k].tasks, C!Task(k, i)
  PROVE  \E t \in TaskType :
           asked' = [asked EXCEPT ![k] = With(asked[k], i, t)] /\ CallOK(With(asked[k], i, t))
<1> DEFINE c == asked[k]
           Stored1(t) == asked' = [asked EXCEPT ![k] = With(asked[k], i, t)]
<1>1. \A t : C!SetTask(k, i, t) => Stored1(t)
  BY DEF C!SetTask, With
<1>2. c.tasks[i] \in TaskType /\ c.companies[i] \in C!Companies /\ i \in DOMAIN c.tasks
      /\ c.tasks[i].pc \in MayBe(c.pc)
  BY CallParts DEF CallOK, TasksOK
<1>3. /\ Attempts \in Nat /\ 1 \in 0..Attempts
      /\ \A n \in 0..Attempts : n < Attempts => n + 1 \in 0..Attempts
  BY ResearchConstants
<1>4. C!NoTask \in TaskType
  <2>1. <<>> \in Seq(Packets) /\ 0 \in 0..Attempts
    BY <1>3
  <2> QED BY <2>1 DEF C!NoTask, TaskType
<1>5. ASSUME NEW t \in TaskType, C!SetTask(k, i, t), t.pc \in MayBe(c.pc),
             t.pc = "done" => \E p \in Packets : t.packet = <<p>> /\ p.company = c.companies[i],
             t.pc = "sleeping" => t.attempt < Attempts,
             C!Running(t) => C!Running(c.tasks[i]) \/ Cardinality(Busy(c)) < Concurrency,
             c.tasks[i].pc # "done"
      PROVE  Stored1(t) /\ CallOK(With(c, i, t))
  BY <1>1, <1>5, TaskStep
<1>6. ASSUME NEW p \in Packets, p.company = c.companies[i], C!Done(k, i, p), C!Running(c.tasks[i])
      PROVE  \E t \in TaskType : Stored1(t) /\ CallOK(With(c, i, t))
  <2> DEFINE t == [C!NoTask EXCEPT !.pc = "done", !.attempt = asked[k].tasks[i].attempt,
                                   !.packet = <<p>>]
  <2>1. <<p>> \in Seq(Packets) /\ c.tasks[i].attempt \in 0..Attempts
    BY <1>2 DEF TaskType
  <2>2. t \in TaskType /\ t.pc = "done" /\ t.packet = <<p>>
    BY <2>1, <1>4 DEF TaskType
  <2>3. "done" \in MayBe(c.pc) /\ c.tasks[i].pc # "done"
    BY <1>2, <1>6 DEF MayBe, C!Running
  <2>4. C!SetTask(k, i, t) /\ ~C!Running(t)
    BY <1>6, <2>2 DEF C!Done, C!Running
  <2> HIDE DEF t
  <2> QED BY <1>5, <1>6, <2>2, <2>3, <2>4
<1>7. CASE C!Enter(k, i)
  <2> DEFINE t == [C!NoTask EXCEPT !.pc = "asking", !.attempt = 1]
  <2>1. t \in TaskType /\ t.pc = "asking" /\ c.tasks[i].pc = "queued"
    BY <1>3, <1>4, <1>7 DEF TaskType, C!Enter, C!TaskIs
  <2>2. "asking" \in MayBe(c.pc)
    BY <1>2, <2>1 DEF MayBe
  <2>3. Cardinality(Busy(c)) < Concurrency
    <3>1. C!Cardinality(Busy(c)) < Concurrency
      BY <1>7 DEF C!Enter, Busy, C!HoldsSlot
    <3> QED BY <3>1, CountedAlike
  <2>4. C!SetTask(k, i, t)
    BY <1>7 DEF C!Enter
  <2> HIDE DEF t
  <2> QED BY <1>5, <2>1, <2>2, <2>3, <2>4
<1>8. CASE C!Answer(k, i)
  <2>1. C!Running(c.tasks[i])
    BY <1>8 DEF C!Answer, C!TaskIs, C!Running
  <2>2. CASE \E r \in Responses : C!Done(k, i, C!Parsed(c.companies[i], r))
    <3>1. PICK r \in Responses : C!Done(k, i, C!Parsed(c.companies[i], r))
      BY <2>2
    <3>2. /\ C!Parsed(c.companies[i], r) \in Packets
          /\ C!Parsed(c.companies[i], r).company = c.companies[i]
      BY <1>2, ParsedType
    <3> QED BY <1>6, <2>1, <3>1, <3>2
  <2>3. CASE C!Done(k, i, C!Failure(c.companies[i], "failed"))
    <3>1. /\ C!Failure(c.companies[i], "failed") \in Packets
          /\ C!Failure(c.companies[i], "failed").company = c.companies[i]
      BY <1>2, FailureType
    <3> QED BY <1>6, <2>1, <2>3, <3>1
  <2> QED BY <1>8, <2>2, <2>3 DEF C!Answer
<1>9. CASE C!TransientError(k, i)
  <2> DEFINE t == [c.tasks[i] EXCEPT !.pc = "sleeping"]
  <2>1. t \in TaskType /\ t.pc = "sleeping" /\ t.attempt = c.tasks[i].attempt
    BY <1>2 DEF TaskType
  <2>2. c.tasks[i].pc = "asking" /\ c.tasks[i].attempt < Attempts /\ C!SetTask(k, i, t)
    BY <1>9 DEF C!TransientError, C!TaskIs
  <2>3. "sleeping" \in MayBe(c.pc) /\ C!Running(c.tasks[i])
    BY <1>2, <2>2 DEF MayBe, C!Running
  <2> HIDE DEF t
  <2> QED BY <1>5, <2>1, <2>2, <2>3
<1>12. CASE C!AskAgain(k, i)
  <2> DEFINE t == [c.tasks[i] EXCEPT !.pc = "asking", !.attempt = @ + 1]
  <2>1. c.tasks[i].pc = "sleeping" /\ C!SetTask(k, i, t)
    BY <1>12 DEF C!AskAgain, C!TaskIs
  <2>2. c.tasks[i].attempt \in 0..Attempts /\ c.tasks[i].attempt < Attempts
    BY <1>2, <2>1 DEF CallOK, TasksOK, TaskType
  <2>3. t \in TaskType /\ t.pc = "asking"
    BY <1>2, <1>3, <2>2 DEF TaskType
  <2>4. "asking" \in MayBe(c.pc) /\ C!Running(c.tasks[i])
    BY <1>2, <2>1 DEF MayBe, C!Running
  <2> HIDE DEF t
  <2> QED BY <1>5, <2>1, <2>3, <2>4
<1>10. CASE C!CompanyTimeout(k, i)
  <2>1. /\ C!Failure(c.companies[i], "timeout") \in Packets
        /\ C!Failure(c.companies[i], "timeout").company = c.companies[i]
    BY <1>2, FailureType
  <2> QED BY <1>6, <1>10, <2>1 DEF C!CompanyTimeout
<1>11. CASE C!EndTask(k, i)
  <2> DEFINE t == [C!NoTask EXCEPT !.pc = "ended"]
  <2>1. t \in TaskType /\ t.pc = "ended" /\ c.tasks[i].pc = "cancelling"
    BY <1>4, <1>11 DEF TaskType, C!EndTask, C!TaskIs
  <2>2. "ended" \in MayBe(c.pc) /\ ~C!Running(t)
    BY <1>2, <2>1 DEF MayBe, C!Running
  <2>3. C!SetTask(k, i, t)
    BY <1>11 DEF C!EndTask
  <2> HIDE DEF t
  <2> QED BY <1>5, <2>1, <2>2, <2>3
<1> QED BY <1>7, <1>8, <1>9, <1>10, <1>11, <1>12 DEF C!Task

\* The companies that are selected are companies that were asked for.
LEMMA SelectedType ==
  ASSUME C!Settings, NEW s \in Seq(C!Companies)
  PROVE  /\ C!Selected(s) \in Seq(C!Companies) /\ Len(C!Selected(s)) \in Nat
         /\ DOMAIN C!Selected(s) = 1..Len(C!Selected(s))
         /\ C!Range(C!Selected(s)) \subseteq C!Range(s)
<1> DEFINE n == IF Len(s) < MaxCompanies THEN Len(s) ELSE MaxCompanies
<1>1. Len(s) \in Nat /\ DOMAIN s = 1..Len(s)
  BY LenProperties
<1>2. n \in Nat /\ n <= Len(s)
  BY <1>1, ResearchConstants
<1> HIDE DEF n
<1>3. \A i \in 1..n : s[i] \in C!Companies
  BY <1>1, <1>2, ElementOfSeq
<1>4. /\ SubSeq(s, 1, n) \in Seq(C!Companies) /\ Len(SubSeq(s, 1, n)) = n
      /\ \A i \in 1..n : SubSeq(s, 1, n)[i] = s[i]
  <2>1. /\ SubSeq(s, 1, n) \in Seq(C!Companies)
        /\ Len(SubSeq(s, 1, n)) = IF 1 <= n THEN n - 1 + 1 ELSE 0
        /\ \A i \in 1..(n - 1 + 1) : SubSeq(s, 1, n)[i] = s[1 + i - 1]
    BY <1>2, <1>3, SubSeqProperties
  <2> QED BY <1>2, <2>1
<1>5. C!Selected(s) = SubSeq(s, 1, n)
  BY DEF C!Selected, n
<1>6. DOMAIN SubSeq(s, 1, n) = 1..n
  BY <1>4, LenProperties
<1> QED BY <1>1, <1>2, <1>4, <1>5, <1>6 DEF C!Range

\* The answers of a research: each is its task's, or that of a timeout.
LEMMA ResultsType ==
  ASSUME C!Settings, NEW k \in DOMAIN asked, CallOK(asked[k])
  PROVE  /\ C!Results(k) \in Seq(Packets) /\ Len(C!Results(k)) = Len(asked[k].tasks)
         /\ DOMAIN C!Results(k) = DOMAIN asked[k].tasks
         /\ \A i \in DOMAIN asked[k].tasks :
              /\ C!Results(k)[i].company = asked[k].companies[i]
              /\ asked[k].tasks[i].pc = "done" => <<C!Results(k)[i]>> = asked[k].tasks[i].packet
              /\ asked[k].tasks[i].pc # "done" => C!Results(k)[i].status = "timeout"
<1> DEFINE c == asked[k]
           n == Len(c.tasks)
<1>1. n \in Nat /\ DOMAIN c.tasks = 1..n
  BY CallParts
<1>2. C!Results(k) = [i \in 1..n |-> IF c.tasks[i].pc = "done" THEN c.tasks[i].packet[1]
                                     ELSE C!Failure(c.companies[i], "timeout")]
  BY <1>1 DEF C!Results
<1>3. ASSUME NEW i \in 1..n
      PROVE  /\ C!Results(k)[i] \in Packets
             /\ C!Results(k)[i].company = c.companies[i]
             /\ c.tasks[i].pc = "done" => <<C!Results(k)[i]>> = c.tasks[i].packet
             /\ c.tasks[i].pc # "done" => C!Results(k)[i].status = "timeout"
  <2>1. CASE c.tasks[i].pc = "done"
    <3>1. PICK p \in Packets : c.tasks[i].packet = <<p>> /\ p.company = c.companies[i]
      BY <1>1, <1>3, <2>1 DEF CallOK, TasksOK, Delivers
    <3>2. C!Results(k)[i] = p
      BY <1>2, <1>3, <2>1, <3>1
    <3> QED BY <2>1, <3>1, <3>2
  <2>2. CASE c.tasks[i].pc # "done"
    <3>1. C!Results(k)[i] = C!Failure(c.companies[i], "timeout") /\ c.companies[i] \in C!Companies
      BY <1>1, <1>2, <1>3, <2>2, CallParts
    <3> QED BY <2>2, <3>1, FailureType
  <2> QED BY <2>1, <2>2
<1>4. C!Results(k) \in [1..n -> Packets]
  BY <1>2, <1>3
<1>5. C!Results(k) \in Seq(Packets) /\ Len(C!Results(k)) = n /\ DOMAIN C!Results(k) = 1..n
  BY <1>1, <1>4
<1> QED BY <1>1, <1>3, <1>5

\* A call that is cut: its tasks may be anywhere.
LEMMA CutOK ==
  ASSUME NEW c, CallOK(c)
  PROVE  LET d == [c EXCEPT !.pc = "cut"] IN
         d \in CallType /\ CallOK(d) /\ d.companies = c.companies
<1> DEFINE d == [c EXCEPT !.pc = "cut"]
<1>1. c \in CallType /\ TasksOK(c)
  BY DEF CallOK
<1>2. /\ d \in CallType /\ d.pc = "cut" /\ d.companies = c.companies /\ d.tasks = c.tasks
      /\ d.packets = c.packets
  BY <1>1 DEF CallType
<1> HIDE DEF d
<1>3. \A i \in DOMAIN c.tasks : c.tasks[i].pc \in MayBe("cut")
  BY <1>1, CallParts DEF MayBe, TaskType
<1>4. TasksOK(d)
  <2>1. Busy(d) = Busy(c) /\ \A i : Delivers(d, i) = Delivers(c, i)
    BY <1>2 DEF Busy, Delivers
  <2> QED BY <1>1, <1>2, <1>3, <2>1 DEF TasksOK
<1>5. CallOK(d)
  BY <1>2, <1>4 DEF CallOK, PacketsOK
<1> QED BY <1>2, <1>5 DEF d

\* A call that does a step.
LEMMA CallActions ==
  ASSUME C!Settings, NEW k \in DOMAIN asked, CallOK(asked[k]), asked \in Seq(CallType), C!Call(k)
  PROVE  \E d \in CallType :
           /\ asked' = [asked EXCEPT ![k] = d] /\ CallOK(d) /\ ~C!Over(k)
           /\ C!Range(d.companies) \subseteq C!Range(asked[k].companies)
<1> DEFINE c == asked[k]
           n == Len(c.tasks)
<1>1. c \in CallType /\ n \in Nat /\ DOMAIN c.tasks = 1..n /\ TasksOK(c) /\ PacketsOK(c)
  BY CallParts DEF CallOK
<1>2. CASE C!Begin(k)
  <2> DEFINE s == C!Selected(c.companies)
             d == [c EXCEPT !.companies = s, !.tasks = [i \in DOMAIN s |-> C!NoTask],
                            !.pc = "waiting"]
  <2>1. /\ s \in Seq(C!Companies) /\ Len(s) \in Nat /\ DOMAIN s = 1..Len(s)
        /\ C!Range(s) \subseteq C!Range(c.companies)
    BY SelectedType, CallParts
  <2>2. asked' = [asked EXCEPT ![k] = d] /\ c.pc = "issued"
    BY <1>2 DEF C!Begin
  <2>3. C!NoTask \in TaskType
    BY ResearchConstants DEF C!NoTask, TaskType
  <2> HIDE DEF s
  <2>4. /\ [i \in DOMAIN s |-> C!NoTask] \in Seq(TaskType)
        /\ Len([i \in DOMAIN s |-> C!NoTask]) = Len(s)
    <3> HIDE DEF s
    <3>1. [i \in 1..Len(s) |-> C!NoTask] \in Seq(TaskType)
      BY <2>1, <2>3
    <3>2. Len([i \in 1..Len(s) |-> C!NoTask]) = Len(s)
      BY <2>1
    <3> QED BY <2>1, <3>1, <3>2
  <2>5. /\ d \in CallType /\ d.pc = "waiting" /\ d.companies = s
        /\ d.tasks = [i \in DOMAIN s |-> C!NoTask] /\ d.packets = c.packets
    BY <1>1, <2>1, <2>4 DEF CallType
  <2> HIDE DEF d
  <2>6. TasksOK(d)
    <3>1. Busy(d) = {}
      BY <2>5 DEF Busy, C!Running, C!NoTask
    <3>2. Cardinality(Busy(d)) <= Concurrency
      BY <3>1, FS_EmptySet, ResearchConstants
    <3>3. \A i \in DOMAIN d.tasks : d.tasks[i].pc = "queued"
      BY <2>5 DEF C!NoTask
    <3>4. Len(d.tasks) = Len(d.companies) /\ (d.tasks = <<>> => Len(d.companies) = 0)
      BY <2>4, <2>5
    <3> QED BY <2>5, <3>2, <3>3, <3>4 DEF TasksOK, MayBe
  <2>7. CallOK(d)
    BY <2>5, <2>6 DEF CallOK, PacketsOK
  <2> QED BY <2>1, <2>2, <2>5, <2>7 DEF C!Over
<1>3. CASE C!Refuse(k) \/ C!CallTimeout(k)
  <2>1. asked' = [asked EXCEPT ![k] = [c EXCEPT !.pc = "cut"]] /\ ~C!Over(k)
    BY <1>3 DEF C!Refuse, C!CallTimeout, C!Over
  <2>2. LET d == [c EXCEPT !.pc = "cut"] IN
        d \in CallType /\ CallOK(d) /\ d.companies = c.companies
    BY CutOK
  <2> QED BY <2>1, <2>2
<1>4. CASE C!Collect(k)
  <2> DEFINE d == [c EXCEPT !.pc = "returned", !.packets = C!Results(k)]
  <2>1. asked' = [asked EXCEPT ![k] = d] /\ ~C!Over(k) /\ c.pc = "waiting"
        /\ \A i \in DOMAIN c.tasks : c.tasks[i].pc = "done"
    BY <1>4 DEF C!Collect, C!Over
  <2>2. /\ d \in CallType /\ d.pc = "returned" /\ d.companies = c.companies /\ d.tasks = c.tasks
        /\ d.packets = C!Results(k)
    BY <1>1, ResultsType DEF CallType
  <2> HIDE DEF d
  <2>3. TasksOK(d)
    <3>1. Busy(d) = Busy(c) /\ \A i : Delivers(d, i) = Delivers(c, i)
      BY <2>2 DEF Busy, Delivers
    <3> QED BY <1>1, <2>1, <2>2, <3>1 DEF TasksOK, MayBe
  <2>4. PacketsOK(d)
    BY <1>1, <2>1, <2>2, ResultsType DEF PacketsOK, TasksOK
  <2> QED BY <2>1, <2>2, <2>3, <2>4 DEF CallOK
<1>5. CASE C!TotalTimeout(k)
  <2> DEFINE e == [i \in DOMAIN c.tasks |-> IF c.tasks[i].pc = "done" THEN c.tasks[i]
                                              ELSE [c.tasks[i] EXCEPT !.pc = "cancelling"]]
             d == [c EXCEPT !.pc = "draining", !.packets = C!Results(k), !.tasks = e]
  <2>1. asked' = [asked EXCEPT ![k] = d] /\ ~C!Over(k) /\ c.pc = "waiting"
    BY <1>5 DEF C!TotalTimeout, C!Over
  <2>2. \A i \in 1..n : e[i] \in TaskType
    <3> TAKE i \in 1..n
    <3>1. c.tasks[i] \in TaskType /\ i \in DOMAIN c.tasks
      BY <1>1, CallParts
    <3> QED BY <3>1 DEF TaskType
  <2>3. e \in Seq(TaskType) /\ Len(e) = n /\ DOMAIN e = 1..n
    <3>1. e \in [1..n -> TaskType]
      BY <1>1, <2>2
    <3> HIDE DEF e
    <3> QED BY <1>1, <3>1
  <2>4. \A i \in 1..n : IF c.tasks[i].pc = "done" THEN e[i] = c.tasks[i] ELSE e[i].pc = "cancelling"
    <3> TAKE i \in 1..n
    <3>1. c.tasks[i] \in TaskType /\ i \in DOMAIN c.tasks
      BY <1>1, CallParts
    <3> QED BY <3>1 DEF TaskType
  <2> HIDE DEF e
  <2>5. /\ d \in CallType /\ d.pc = "draining" /\ d.companies = c.companies /\ d.tasks = e
        /\ d.packets = C!Results(k)
    BY <1>1, <2>3, ResultsType DEF CallType
  <2> HIDE DEF d
  <2>6. TasksOK(d)
    <3>1. Busy(d) = {}
      BY <2>3, <2>4, <2>5 DEF Busy, C!Running
    <3>2. Cardinality(Busy(d)) <= Concurrency
      BY <3>1, FS_EmptySet, ResearchConstants
    <3>3. \A i \in DOMAIN d.tasks : /\ d.tasks[i].pc \in {"done", "cancelling"}
                                    /\ d.tasks[i].pc = "done" => Delivers(d, i)
      BY <1>1, <2>3, <2>4, <2>5 DEF TasksOK, Delivers
    <3>4. Len(d.tasks) = Len(d.companies) /\ (d.tasks = <<>> => Len(d.companies) = 0)
      BY <1>1, <2>1, <2>3, <2>5 DEF TasksOK
    <3> QED BY <2>5, <3>2, <3>3, <3>4 DEF TasksOK, MayBe
  <2>7. PacketsOK(d)
    <3>1. Len(C!Results(k)) = n /\ DOMAIN C!Results(k) = 1..n /\ n = Len(c.companies)
      BY <1>1, <2>1, ResultsType DEF TasksOK
    <3>2. ASSUME NEW i \in 1..n
          PROVE  /\ C!Results(k)[i].company = c.companies[i]
                 /\ \/ C!Results(k)[i].status = "timeout"
                    \/ e[i].pc = "done" /\ <<C!Results(k)[i]>> = e[i].packet
      <4>1. /\ C!Results(k)[i].company = c.companies[i]
            /\ \/ C!Results(k)[i].status = "timeout"
               \/ c.tasks[i].pc = "done" /\ <<C!Results(k)[i]>> = c.tasks[i].packet
        BY <1>1, <3>2, ResultsType
      <4>2. c.tasks[i].pc = "done" => e[i] = c.tasks[i]
        BY <2>4
      <4> QED BY <4>1, <4>2
    <3> QED BY <2>5, <3>1, <3>2 DEF PacketsOK
  <2> QED BY <2>1, <2>5, <2>6, <2>7 DEF CallOK
<1>6. CASE C!Return(k)
  <2> DEFINE d == [c EXCEPT !.pc = "returned"]
  <2>1. asked' = [asked EXCEPT ![k] = d] /\ ~C!Over(k) /\ c.pc = "draining"
        /\ \A i \in DOMAIN c.tasks : c.tasks[i].pc # "cancelling"
    BY <1>6 DEF C!Return, C!Drained, C!Over
  <2>2. /\ d \in CallType /\ d.pc = "returned" /\ d.companies = c.companies /\ d.tasks = c.tasks
        /\ d.packets = c.packets
    BY <1>1 DEF CallType
  <2> HIDE DEF d
  <2>3. TasksOK(d)
    <3>1. Busy(d) = Busy(c) /\ \A i : Delivers(d, i) = Delivers(c, i)
      BY <2>2 DEF Busy, Delivers
    <3> QED BY <1>1, <2>1, <2>2, <3>1 DEF TasksOK, MayBe
  <2>4. PacketsOK(d)
    BY <1>1, <2>1, <2>2 DEF PacketsOK
  <2> QED BY <2>1, <2>2, <2>3, <2>4 DEF CallOK
<1> QED BY <1>2, <1>3, <1>4, <1>5, <1>6 DEF C!Call

-----------------------------------------------------------------------------
(* The calls and the agent *)

\* The types of the sequence of calls.
LEMMA CallsParts ==
  ASSUME ResearchInv
  PROVE  /\ Len(asked) \in Nat /\ DOMAIN asked = 1..Len(asked)
         /\ \A k \in DOMAIN asked : asked[k] \in CallType
BY LenProperties, ElementOfSeq DEF ResearchInv

\* A step of one call leaves the rest as it is.
LEMMA OneCall ==
  ASSUME C!Settings, ResearchInv, NEW k \in DOMAIN asked, NEW d \in CallType, CallOK(d),
         asked' = [asked EXCEPT ![k] = d], UNCHANGED agent,
         C!Over(k) => d.pc = asked[k].pc /\ d.packets = asked[k].packets,
         C!Range(d.companies) \subseteq C!Range(asked[k].companies)
  PROVE  ResearchInv'
<1>1. Len(asked) \in Nat /\ DOMAIN asked = 1..Len(asked)
  BY CallsParts
<1>2. asked' \in Seq(CallType) /\ Len(asked') = Len(asked) /\ DOMAIN asked' = DOMAIN asked
  BY <1>1, ExceptSeq DEF ResearchInv
<1>3. asked'[k] = d /\ \A j \in DOMAIN asked : j # k => asked'[j] = asked[j]
  OBVIOUS
<1>4. \A j \in DOMAIN asked' : CallOK(asked'[j])
  BY <1>2, <1>3 DEF ResearchInv
<1>5. \A j \in DOMAIN asked : C!Over(j) => /\ C!Over(j)'
                                        /\ asked'[j].pc = asked[j].pc
                                        /\ asked'[j].packets = asked[j].packets
  BY <1>3 DEF C!Over
<1>6. \A j \in DOMAIN asked : C!Range(asked'[j].companies) \subseteq C!Range(asked[j].companies)
  BY <1>3
<1>7. PlanInv'
  BY <1>2 DEF ResearchInv, PlanInv
<1>8. TakenInv'
  BY <1>2, <1>5 DEF ResearchInv, TakenInv, Taken
<1>9. EnrichInv'
  BY <1>2, <1>5, <1>6 DEF ResearchInv, EnrichInv
<1>10. C!FoundIsShown'
  <2> SUFFICES ASSUME agent.pc = "done", NEW j \in DOMAIN asked, asked'[j].pc = "returned",
                      NEW company \in C!WithEvidence(C!Range(asked'[j].packets))
               PROVE  \/ company \in agent.shown
                      \/ agent.failed /\ j < agent.batch
                      \/ company \notin C!Range(Stored) /\ ~agent.synthesis
                      \/ j = agent.batch /\ agent.packets = {} /\ agent.synthesis /\ agent.noted
    BY <1>2 DEF C!FoundIsShown
  <2>1. C!Over(j)
    <3>1. j < agent.batch \/ j = agent.batch
      BY <1>1 DEF ResearchInv, PlanInv
    <3> QED BY <3>1 DEF ResearchInv, TakenInv, Taken, EnrichInv
  <2>2. asked[j].pc = "returned" /\ asked'[j].packets = asked[j].packets
    BY <1>5, <2>1
  <2> QED BY <2>2 DEF ResearchInv, C!FoundIsShown
<1> QED BY <1>2, <1>4, <1>7, <1>8, <1>9, <1>10 DEF ResearchInv

\* A step of a call or of one of its tasks keeps the invariant.
LEMMA CallStep ==
  ASSUME C!Settings, ResearchInv, NEW k \in DOMAIN asked,
         C!Call(k) \/ \E i \in DOMAIN asked[k].tasks : C!Task(k, i)
  PROVE  ResearchInv'
<1>0. CallOK(asked[k]) /\ asked \in Seq(CallType) /\ asked[k] \in CallType
  BY DEF ResearchInv, CallOK
<1>1. CASE C!Call(k)
  <2>1. UNCHANGED agent
    BY <1>1 DEF C!Call, C!Begin, C!Refuse, C!Collect, C!TotalTimeout, C!Return, C!CallTimeout
  <2>2. PICK d \in CallType :
          /\ asked' = [asked EXCEPT ![k] = d] /\ CallOK(d) /\ ~C!Over(k)
          /\ C!Range(d.companies) \subseteq C!Range(asked[k].companies)
    BY <1>0, <1>1, CallActions
  <2> QED BY <2>1, <2>2, OneCall
<1>2. ASSUME NEW i \in DOMAIN asked[k].tasks, C!Task(k, i) PROVE ResearchInv'
  <2>1. UNCHANGED agent
    BY <1>2 DEF C!Task, C!Enter, C!Answer, C!TransientError, C!AskAgain, C!CompanyTimeout,
           C!EndTask
  <2>2. PICK t \in TaskType : /\ asked' = [asked EXCEPT ![k] = With(asked[k], i, t)]
                              /\ CallOK(With(asked[k], i, t))
    BY <1>0, <1>2, TaskActions
  <2>3. /\ With(asked[k], i, t) \in CallType /\ With(asked[k], i, t).pc = asked[k].pc
        /\ With(asked[k], i, t).companies = asked[k].companies
        /\ With(asked[k], i, t).packets = asked[k].packets
    BY <1>0, WithTask
  <2> QED BY <2>1, <2>2, <2>3, OneCall
<1> QED BY <1>1, <1>2

\* What the calls from k on that returned have found.
LEMMA GatheredType ==
  ASSUME ResearchInv, NEW k \in Nat \ {0}
  PROVE  /\ C!Gathered(k) \subseteq Packets
         /\ \A j \in DOMAIN asked :
              k <= j /\ asked[j].pc = "returned" =>
                 C!Range(asked[j].packets) \subseteq C!Gathered(k)
<1>1. DOMAIN asked = 1..Len(asked) /\ Len(asked) \in Nat
  BY CallsParts
<1>2. \A j \in DOMAIN asked : C!Range(asked[j].packets) \subseteq Packets
  <2> SUFFICES ASSUME NEW j \in DOMAIN asked, NEW i \in DOMAIN asked[j].packets
               PROVE  asked[j].packets[i] \in Packets
    BY DEF C!Range
  <2>1. asked[j].packets \in Seq(Packets) /\ i \in 1..Len(asked[j].packets)
    BY CallParts DEF ResearchInv
  <2> QED BY <2>1, ElementOfSeq
<1>3. \A j \in k..Len(asked) : j \in DOMAIN asked
  BY <1>1
<1>4. \A j \in DOMAIN asked : k <= j => j \in k..Len(asked)
  BY <1>1
<1>5. C!Gathered(k) \subseteq Packets
  BY <1>2, <1>3 DEF C!Gathered
<1>6. ASSUME NEW j \in DOMAIN asked, k <= j, asked[j].pc = "returned"
      PROVE  C!Range(asked[j].packets) \subseteq C!Gathered(k)
  BY <1>4, <1>6 DEF C!Gathered
<1> QED BY <1>5, <1>6

\* Whoever has companies with evidence.
LEMMA EvidenceType ==
  ASSUME NEW S \in SUBSET Packets
  PROVE  /\ C!WithEvidence(S) \subseteq C!Companies
         /\ \A T \in SUBSET S : C!WithEvidence(T) \subseteq C!WithEvidence(S)
BY DEF C!WithEvidence, Packets

\* The steps of the agent that leave the calls alone keep what is said of them.
LEMMA AgentAlone ==
  ASSUME ResearchInv, UNCHANGED asked, agent' \in AgentType, PlanInv', TakenInv', EnrichInv',
         C!FoundIsShown'
  PROVE  ResearchInv'
BY DEF ResearchInv

\* The results of a batch are taken.
LEMMA TakeResultsStep ==
  ASSUME C!Settings, ResearchInv, C!TakeResults
  PROVE  ResearchInv'
<1>1. agent \in AgentType /\ UNCHANGED asked /\ agent.pc = "tools"
  BY DEF ResearchInv, C!TakeResults
<1>2. agent.batch \in Nat \ {0}
  BY <1>1, CallsParts DEF ResearchInv, PlanInv
<1>3. C!Gathered(agent.batch) \subseteq Packets
  BY <1>2, GatheredType
<1>4. /\ agent' \in AgentType /\ agent'.pc = "planning" /\ agent'.failed = agent.failed
      /\ agent'.packets = agent.packets \cup C!Gathered(agent.batch)
  <2>1. PICK noted \in BOOLEAN :
          agent' = [agent EXCEPT !.pc = "planning", !.packets = C!Kept(C!Gathered(agent.batch)),
                                 !.noted = noted]
    BY <1>1 DEF C!TakeResults, AgentType
  <2>2. C!Kept(C!Gathered(agent.batch)) = agent.packets \cup C!Gathered(agent.batch)
    BY DEF C!Kept
  <2>3. agent.packets \cup C!Gathered(agent.batch) \in SUBSET Packets
    BY <1>1, <1>3 DEF AgentType
  <2> QED BY <1>1, <2>1, <2>2, <2>3 DEF AgentType
<1>5. TakenInv'
  <2> SUFFICES ASSUME NEW k \in DOMAIN asked
               PROVE  /\ C!Over(k)
                      /\ asked[k].pc = "returned" =>
                           C!Range(asked[k].packets) \subseteq agent'.packets \/ agent'.failed
    BY <1>1 DEF TakenInv, C!Over
  <2>1. CASE k < agent.batch
    BY <1>1, <1>4, <2>1 DEF ResearchInv, TakenInv, Taken
  <2>2. CASE agent.batch <= k
    <3>1. k \in agent.batch..Len(asked)
      BY <1>2, <2>2, CallsParts
    <3>2. C!Over(k)
      BY <3>1 DEF C!TakeResults
    <3> QED BY <1>2, <1>4, <2>2, <3>2, GatheredType
  <2> QED BY <1>2, <2>1, <2>2, CallsParts
<1>6. PlanInv' /\ EnrichInv' /\ C!FoundIsShown'
  BY <1>1, <1>4 DEF ResearchInv, PlanInv, EnrichInv, C!FoundIsShown
<1> QED BY <1>1, <1>4, <1>5, <1>6, AgentAlone

\* The model goes on or its loop ends.
LEMMA LoopStep ==
  ASSUME C!Settings, ResearchInv, C!LoopEnds \/ C!LoopFails
  PROVE  ResearchInv'
<1>1. agent \in AgentType /\ UNCHANGED asked /\ agent.pc = "planning"
  BY DEF ResearchInv, C!LoopEnds, C!LoopFails
<1>2. /\ agent' \in AgentType /\ agent'.pc = "enrich"
      /\ agent'.failed \/ (agent'.failed = agent.failed /\ agent'.packets = agent.packets)
  <2>1. CASE C!LoopEnds
    <3>1. PICK noted \in BOOLEAN : agent' = [agent EXCEPT !.pc = "enrich", !.noted = noted]
      BY <1>1, <2>1 DEF C!LoopEnds, AgentType
    <3> QED BY <1>1, <3>1 DEF AgentType
  <2>2. CASE C!LoopFails
    <3>1. {} \in SUBSET Packets
      OBVIOUS
    <3>2. agent' = [agent EXCEPT !.pc = "enrich", !.packets = {}, !.searched = FALSE,
                                 !.noted = FALSE, !.failed = TRUE]
      BY <2>2 DEF C!LoopFails
    <3>3. agent' \in AgentType
      BY <1>1, <3>1, <3>2 DEF AgentType
    <3>4. agent'.pc = "enrich" /\ agent'.failed
      BY <1>1, <3>2 DEF AgentType
    <3> QED BY <3>3, <3>4
  <2> QED BY <2>1, <2>2
<1>3. TakenInv'
  BY <1>1, <1>2 DEF ResearchInv, TakenInv, Taken, C!Over
<1>4. PlanInv' /\ EnrichInv' /\ C!FoundIsShown'
  BY <1>1, <1>2 DEF ResearchInv, PlanInv, EnrichInv, C!FoundIsShown
<1> QED BY <1>1, <1>2, <1>3, <1>4, AgentAlone

\* The calls that a step adds.
LEMMA MoreCalls ==
  ASSUME C!Settings, ResearchInv, NEW s \in Seq(CallType), \A i \in DOMAIN s : CallOK(s[i]),
         asked' = asked \o s
  PROVE  /\ asked' \in Seq(CallType) /\ Len(asked') = Len(asked) + Len(s)
         /\ DOMAIN asked' = 1..(Len(asked) + Len(s)) /\ Len(s) \in Nat
         /\ \A k \in DOMAIN asked' : CallOK(asked'[k])
         /\ \A k \in DOMAIN asked : k \in DOMAIN asked' /\ asked'[k] = asked[k]
         /\ \A k \in DOMAIN asked' : k <= Len(asked) => k \in DOMAIN asked
<1>1. Len(asked) \in Nat /\ DOMAIN asked = 1..Len(asked) /\ asked \in Seq(CallType)
  BY CallsParts DEF ResearchInv
<1>2. Len(s) \in Nat /\ DOMAIN s = 1..Len(s)
  BY LenProperties
<1>3. /\ asked' \in Seq(CallType) /\ Len(asked') = Len(asked) + Len(s)
      /\ \A i \in 1..(Len(asked) + Len(s)) :
           asked'[i] = IF i <= Len(asked) THEN asked[i] ELSE s[i - Len(asked)]
  BY <1>1, ConcatProperties
<1>4. DOMAIN asked' = 1..(Len(asked) + Len(s))
  BY <1>3, LenProperties
<1>5. ASSUME NEW k \in DOMAIN asked' PROVE CallOK(asked'[k])
  <2>1. CASE k <= Len(asked)
    <3>1. k \in DOMAIN asked /\ asked'[k] = asked[k]
      BY <1>1, <1>3, <1>4, <2>1
    <3> QED BY <3>1 DEF ResearchInv
  <2>2. CASE k > Len(asked)
    <3>1. k - Len(asked) \in DOMAIN s /\ asked'[k] = s[k - Len(asked)]
      BY <1>1, <1>2, <1>3, <1>4, <2>2
    <3> QED BY <3>1
  <2> QED BY <1>1, <1>2, <1>4, <2>1, <2>2
<1> QED BY <1>1, <1>2, <1>3, <1>4, <1>5

\* A call that is issued has no task yet.
LEMMA IssuedOK ==
  ASSUME C!Settings, NEW companies \in Seq(C!Companies)
  PROVE  /\ C!Issued(companies) \in CallType /\ CallOK(C!Issued(companies))
         /\ C!Issued(companies).companies = companies
<1> DEFINE c == C!Issued(companies)
<1>1. /\ c.pc = "issued" /\ c.companies = companies /\ c.tasks = <<>> /\ c.packets = <<>>
      /\ c \in CallType
  BY DEF C!Issued, CallType
<1> HIDE DEF c
<1>2. Busy(c) = {} /\ DOMAIN c.tasks = {}
  BY <1>1 DEF Busy
<1>3. Cardinality(Busy(c)) <= Concurrency
  BY <1>2, FS_EmptySet, ResearchConstants
<1>4. Len(c.tasks) = 0
  BY <1>1
<1>5. TasksOK(c)
  BY <1>1, <1>2, <1>3, <1>4 DEF TasksOK
<1>6. CallOK(c)
  BY <1>1, <1>5 DEF CallOK, PacketsOK
<1> QED BY <1>1, <1>6 DEF c

\* The model asks for researches, side by side.
LEMMA ModelCallsToolsStep ==
  ASSUME C!Settings, ResearchInv, C!ModelCallsTools
  PROVE  ResearchInv'
<1>1. agent \in AgentType /\ agent.pc = "planning" /\ agent.round < Rounds
  BY DEF ResearchInv, C!ModelCallsTools
<1>2. PICK requests \in UNION {[1..n -> Questions] : n \in 0..MaxAsked} :
        /\ Len(asked) + Len(requests) <= MaxAsked
        /\ asked' = asked \o [i \in DOMAIN requests |-> C!Issued(requests[i])]
        /\ \E searched, noted \in BOOLEAN :
             agent' = [agent EXCEPT !.pc = "tools", !.batch = Len(asked) + 1,
                                    !.round = agent.round + 1,
                                    !.searched = searched, !.noted = noted]
  <2>1. PICK requests \in UNION {[1..n -> Questions] : n \in 0..MaxAsked},
             searches \in BOOLEAN, reads \in BOOLEAN :
          /\ Len(asked) + Len(requests) <= MaxAsked
          /\ asked' = asked \o [i \in DOMAIN requests |-> C!Issued(requests[i])]
          /\ agent' = [agent EXCEPT !.pc = "tools", !.batch = Len(asked) + 1, !.round = @ + 1,
                                    !.searched = @ \/ searches, !.noted = @ \/ reads]
    BY Zenon DEF C!ModelCallsTools
  <2>2. (agent.searched \/ searches) \in BOOLEAN /\ (agent.noted \/ reads) \in BOOLEAN
    OBVIOUS
  <2>3. agent' = [agent EXCEPT !.pc = "tools", !.batch = Len(asked) + 1, !.round = agent.round + 1,
                               !.searched = (agent.searched \/ searches),
                               !.noted = (agent.noted \/ reads)]
    BY <2>1
  <2>4. \E searched, noted \in BOOLEAN :
          agent' = [agent EXCEPT !.pc = "tools", !.batch = Len(asked) + 1,
                                 !.round = agent.round + 1,
                                 !.searched = searched, !.noted = noted]
    BY <2>2, <2>3, Zenon
  <2> QED BY <2>1, <2>4
<1> DEFINE s == [i \in DOMAIN requests |-> C!Issued(requests[i])]
<1>3. requests \in Seq(Questions) /\ Len(requests) \in Nat /\ DOMAIN requests = 1..Len(requests)
      /\ \A i \in DOMAIN requests : requests[i] \in Seq(C!Companies)
  <2>1. requests \in Seq(Questions)
    <3>1. PICK n \in 0..MaxAsked : requests \in [1..n -> Questions]
      BY <1>2
    <3>2. n \in Nat
      BY ResearchConstants
    <3> QED BY <3>1, <3>2
  <2>2. \A i \in 1..Len(requests) : requests[i] \in Questions
    BY <2>1, ElementOfSeq
  <2> QED BY <2>1, <2>2, LenProperties DEF C!Settings
<1>4. s \in Seq(CallType) /\ Len(s) = Len(requests) /\ \A i \in DOMAIN s : CallOK(s[i])
  <2>1. \A i \in DOMAIN requests :
          C!Issued(requests[i]) \in CallType /\ CallOK(C!Issued(requests[i]))
    BY <1>3, IssuedOK
  <2>2. s \in [1..Len(requests) -> CallType]
    BY <1>3, <2>1
  <2>3. s \in Seq(CallType) /\ Len(s) = Len(requests)
    <3> HIDE DEF s
    <3> QED BY <1>3, <2>2
  <2> QED BY <2>1, <2>3
<1> HIDE DEF s
<1>5. /\ asked' \in Seq(CallType) /\ Len(asked') = Len(asked) + Len(requests)
      /\ DOMAIN asked' = 1..(Len(asked) + Len(requests))
      /\ \A k \in DOMAIN asked' : CallOK(asked'[k])
      /\ \A k \in DOMAIN asked : k \in DOMAIN asked' /\ asked'[k] = asked[k]
      /\ \A k \in DOMAIN asked' : k <= Len(asked) => k \in DOMAIN asked
  <2>1. asked' = asked \o s
    BY <1>2 DEF s
  <2> QED BY <1>4, <2>1, MoreCalls
<1>6. Len(asked) \in Nat /\ MaxAsked \in Nat /\ Rounds \in Nat
  BY CallsParts, ResearchConstants
<1>7. /\ agent' \in AgentType /\ agent'.pc = "tools" /\ agent'.batch = Len(asked) + 1
      /\ agent'.packets = agent.packets /\ agent'.failed = agent.failed
  <2>1. agent.round + 1 \in 0..Rounds /\ Len(asked) + 1 \in Nat
    BY <1>1, <1>6 DEF AgentType
  <2>2. PICK searched \in BOOLEAN, noted \in BOOLEAN :
          agent' = [agent EXCEPT !.pc = "tools", !.batch = Len(asked) + 1,
                                 !.round = agent.round + 1,
                                 !.searched = searched, !.noted = noted]
    BY <1>2, Zenon
  <2> QED BY <1>1, <2>1, <2>2 DEF AgentType
<1>8. PlanInv'
  BY <1>2, <1>3, <1>5, <1>6, <1>7 DEF PlanInv
<1>9. TakenInv'
  <2> SUFFICES ASSUME NEW k \in DOMAIN asked', k < Len(asked) + 1
               PROVE  /\ C!Over(k)'
                      /\ asked'[k].pc = "returned" =>
                           C!Range(asked'[k].packets) \subseteq agent'.packets \/ agent'.failed
    BY <1>7 DEF TakenInv, Taken
  <2>1. k \in DOMAIN asked /\ asked'[k] = asked[k]
    BY <1>5, <1>6
  <2> QED BY <1>1, <1>7, <2>1 DEF ResearchInv, TakenInv, Taken, C!Over
<1> QED BY <1>5, <1>7, <1>8, <1>9 DEF ResearchInv, EnrichInv, C!FoundIsShown

\* The stored candidates are researched when nothing was.
LEMMA EnrichStep ==
  ASSUME C!Settings, ResearchInv, C!Enrich
  PROVE  ResearchInv'
<1>1. agent \in AgentType /\ agent.pc = "enrich" /\ agent.packets = {}
      /\ asked' = Append(asked, C!Issued(Stored))
      /\ agent' = [agent EXCEPT !.pc = "enriching", !.batch = Len(asked) + 1]
  BY DEF ResearchInv, C!Enrich, C!NoneYet
<1>2. /\ Len(asked) \in Nat /\ DOMAIN asked = 1..Len(asked) /\ asked \in Seq(CallType)
      /\ MaxAsked \in Nat
  BY CallsParts, ResearchConstants DEF ResearchInv
<1>3. /\ C!Issued(Stored) \in CallType /\ CallOK(C!Issued(Stored))
      /\ C!Issued(Stored).companies = Stored
  BY IssuedOK DEF C!Settings
<1>4. /\ asked' \in Seq(CallType) /\ Len(asked') = Len(asked) + 1
      /\ \A k \in 1..Len(asked) : asked'[k] = asked[k]
      /\ asked'[Len(asked) + 1] = C!Issued(Stored)
  BY <1>1, <1>2, <1>3, AppendProperties
<1>5. DOMAIN asked' = 1..(Len(asked) + 1)
  BY <1>4, LenProperties
<1>6. \A k \in DOMAIN asked' : CallOK(asked'[k])
  <2> TAKE k \in DOMAIN asked'
  <2>1. CASE k = Len(asked) + 1
    BY <1>3, <1>4, <2>1
  <2>2. CASE k # Len(asked) + 1
    <3>1. k \in DOMAIN asked /\ asked'[k] = asked[k]
      BY <1>2, <1>4, <1>5, <2>2
    <3> QED BY <3>1 DEF ResearchInv
  <2> QED BY <2>1, <2>2
<1>7. /\ agent' \in AgentType /\ agent'.pc = "enriching" /\ agent'.batch = Len(asked) + 1
      /\ agent'.packets = agent.packets /\ agent'.failed = agent.failed
  <2>1. Len(asked) + 1 \in Nat
    BY <1>2
  <2> QED BY <1>1, <2>1 DEF AgentType
<1>8. PlanInv'
  BY <1>1, <1>2, <1>4, <1>7 DEF ResearchInv, PlanInv
<1>9. TakenInv'
  <2> SUFFICES ASSUME NEW k \in DOMAIN asked', k < Len(asked) + 1
               PROVE  /\ C!Over(k)'
                      /\ asked'[k].pc = "returned" =>
                           C!Range(asked'[k].packets) \subseteq agent'.packets \/ agent'.failed
    BY <1>7 DEF TakenInv, Taken
  <2>1. k \in DOMAIN asked /\ asked'[k] = asked[k]
    BY <1>2, <1>4, <1>5
  <2> QED BY <1>1, <1>7, <2>1 DEF ResearchInv, TakenInv, Taken, C!Over
<1>10. EnrichInv'
  BY <1>1, <1>3, <1>4, <1>7 DEF EnrichInv
<1> QED BY <1>4, <1>6, <1>7, <1>8, <1>9, <1>10 DEF ResearchInv, C!FoundIsShown

\* The report is written from what there is.
LEMMA ToReportStep ==
  ASSUME C!Settings, ResearchInv, C!NoEnrichment \/ C!TakeEnrichment
  PROVE  ResearchInv'
<1>1. agent \in AgentType /\ UNCHANGED asked /\ Len(asked) \in Nat /\ MaxAsked \in Nat
      /\ DOMAIN asked = 1..Len(asked)
  BY CallsParts, ResearchConstants DEF ResearchInv, C!NoEnrichment, C!TakeEnrichment
<1>2. CASE C!NoEnrichment
  <2>1. /\ agent' \in AgentType /\ agent'.pc = "report" /\ agent'.batch = Len(asked) + 1
        /\ agent'.packets = agent.packets /\ agent'.failed = agent.failed /\ agent.pc = "enrich"
    <3>1. Len(asked) + 1 \in Nat
      BY <1>1
    <3> QED BY <1>1, <1>2, <3>1 DEF C!NoEnrichment, AgentType
  <2>2. PlanInv'
    BY <1>1, <2>1 DEF ResearchInv, PlanInv
  <2>3. TakenInv'
    BY <1>1, <2>1 DEF ResearchInv, TakenInv, Taken, C!Over
  <2>4. EnrichInv' /\ C!FoundIsShown'
    BY <1>1, <2>1 DEF EnrichInv, C!FoundIsShown
  <2> QED BY <1>1, <2>1, <2>2, <2>3, <2>4, AgentAlone
<1>3. CASE C!TakeEnrichment
  <2>1. /\ agent' \in AgentType /\ agent'.pc = "report" /\ agent'.batch = agent.batch
        /\ agent'.packets = agent.packets /\ agent'.failed = agent.failed
        /\ agent.pc = "enriching" /\ C!Over(agent.batch)
    BY <1>1, <1>3 DEF C!TakeEnrichment, AgentType
  <2>2. PlanInv'
    BY <1>1, <2>1 DEF ResearchInv, PlanInv
  <2>3. TakenInv'
    BY <1>1, <2>1 DEF ResearchInv, TakenInv, Taken, C!Over
  <2>4. EnrichInv' /\ C!FoundIsShown'
    BY <1>1, <2>1 DEF ResearchInv, EnrichInv, C!FoundIsShown, C!Over
  <2> QED BY <1>1, <2>1, <2>2, <2>3, <2>4, AgentAlone
<1> QED BY <1>2, <1>3

\* What the report shows of the companies with evidence.
LEMMA ReportStep ==
  ASSUME C!Settings, ResearchInv, C!Report
  PROVE  ResearchInv'
<1>1. /\ agent \in AgentType /\ UNCHANGED asked /\ agent.pc = "report"
      /\ agent.packets \subseteq Packets
      /\ Len(asked) \in Nat /\ DOMAIN asked = 1..Len(asked)
  BY CallsParts DEF ResearchInv, C!Report, AgentType
<1>2. PICK synthesis \in BOOLEAN :
        agent' = [agent EXCEPT !.pc = "done", !.synthesis = synthesis,
                               !.shown = IF synthesis THEN C!Synthesized ELSE C!Reported]
  BY DEF C!Report
<1>3. agent.batch \in Nat \ {0} /\ agent.batch \in {Len(asked), Len(asked) + 1}
  BY <1>1 DEF ResearchInv, PlanInv
<1>4. C!Gathered(agent.batch) \subseteq Packets
  BY <1>3, GatheredType
<1>5. C!Reported \subseteq C!Companies /\ C!Synthesized \subseteq C!Companies
  <2>1. C!Range(Stored) \subseteq C!Companies
    BY DEF C!Companies
  <2>2. C!WithEvidence(agent.packets) \subseteq C!Companies
    BY <1>1, EvidenceType
  <2> QED BY <2>1, <2>2 DEF C!Reported, C!Synthesized
<1>6. /\ agent' \in AgentType /\ agent'.pc = "done" /\ agent'.batch = agent.batch
      /\ agent'.packets = agent.packets /\ agent'.failed = agent.failed
      /\ agent'.noted = agent.noted
      /\ agent'.synthesis = synthesis
      /\ agent'.shown = IF synthesis THEN C!Synthesized ELSE C!Reported
  <2> DEFINE shown == IF synthesis THEN C!Synthesized ELSE C!Reported
  <2>1. /\ shown \in SUBSET C!Companies
        /\ agent' = [agent EXCEPT !.pc = "done", !.synthesis = synthesis, !.shown = shown]
    BY <1>2, <1>5
  <2> HIDE DEF shown
  <2>2. agent' \in AgentType /\ agent'.pc = "done" /\ agent'.batch = agent.batch
    BY <1>1, <2>1 DEF AgentType
  <2>3. /\ agent'.packets = agent.packets /\ agent'.failed = agent.failed
        /\ agent'.noted = agent.noted
        /\ agent'.synthesis = synthesis /\ agent'.shown = shown
    BY <1>1, <2>1 DEF AgentType
  <2> QED BY <2>2, <2>3 DEF shown
<1>7. ASSUME NEW k \in DOMAIN asked, asked[k].pc = "returned",
             NEW company \in C!WithEvidence(C!Range(asked[k].packets))
      PROVE  \/ company \in agent'.shown
             \/ agent.failed /\ k < agent.batch
             \/ company \notin C!Range(Stored) /\ ~synthesis
             \/ k = agent.batch /\ agent.packets = {} /\ synthesis /\ agent.noted
  <2>1. CASE k < agent.batch
    <3> SUFFICES ASSUME ~agent.failed
                 PROVE  company \in agent'.shown \/ (company \notin C!Range(Stored) /\ ~synthesis)
      BY <2>1
    <3>1. C!Range(asked[k].packets) \subseteq agent.packets
      BY <1>1, <1>7, <2>1 DEF ResearchInv, TakenInv, Taken
    <3>2. company \in C!WithEvidence(agent.packets)
      BY <1>1, <1>7, <3>1, EvidenceType
    <3>3. agent.packets # {}
      BY <3>2 DEF C!WithEvidence
    <3>4. company \in C!Synthesized
      BY <3>2 DEF C!Synthesized
    <3>5. company \in C!Range(Stored) => company \in C!Reported
      BY <3>2, <3>3 DEF C!Reported, C!NoneYet
    <3> QED BY <1>6, <3>4, <3>5
  <2>2. CASE k = agent.batch
    <3>1. agent.packets = {} /\ C!Range(asked[k].companies) \subseteq C!Range(Stored)
      BY <1>1, <1>7, <2>2 DEF ResearchInv, EnrichInv
    <3>2. C!Range(asked[k].packets) \subseteq C!Gathered(agent.batch)
      BY <1>3, <1>7, <2>2, GatheredType
    <3>3. company \in C!WithEvidence(C!Gathered(agent.batch))
      BY <1>4, <1>7, <3>2, EvidenceType
    <3>4. company \in C!Range(asked[k].companies)
      <4>1. PICK i \in DOMAIN asked[k].packets : company = asked[k].packets[i].company
        BY <1>7 DEF C!WithEvidence, C!Range
      <4>2. CallOK(asked[k])
        BY <1>7 DEF ResearchInv
      <4>3. /\ Len(asked[k].packets) = Len(asked[k].companies)
            /\ asked[k].packets[i].company = asked[k].companies[i]
        BY <1>7, <4>2 DEF CallOK, PacketsOK
      <4>4. i \in DOMAIN asked[k].companies
        BY <4>2, <4>3, CallParts
      <4> QED BY <4>1, <4>3, <4>4 DEF C!Range
    <3>5. company \in C!Reported
      BY <3>1, <3>3, <3>4 DEF C!Reported, C!NoneYet
    <3>6. ~agent.noted => company \in C!Synthesized
      BY <3>5 DEF C!Synthesized
    <3> QED BY <1>6, <2>2, <3>1, <3>5, <3>6
  <2> QED BY <1>1, <1>3, <2>1, <2>2
<1>8. C!FoundIsShown'
  BY <1>1, <1>6, <1>7 DEF C!FoundIsShown
<1>9. PlanInv' /\ EnrichInv'
  BY <1>1, <1>6 DEF ResearchInv, PlanInv, EnrichInv, C!Over
<1>10. TakenInv'
  BY <1>1, <1>6 DEF ResearchInv, TakenInv, Taken, C!Over
<1> QED BY <1>1, <1>6, <1>8, <1>9, <1>10, AgentAlone

\* The run is cut off, and every call with it.
LEMMA CutStep ==
  ASSUME C!Settings, ResearchInv, C!Cut
  PROVE  ResearchInv'
<1>1. /\ agent \in AgentType /\ asked \in Seq(CallType)
      /\ Len(asked) \in Nat /\ DOMAIN asked = 1..Len(asked) /\ MaxAsked \in Nat
  BY CallsParts, ResearchConstants DEF ResearchInv
<1>2. agent' \in AgentType /\ agent'.pc = "cut"
  BY <1>1 DEF C!Cut, AgentType
<1>3. ASSUME NEW k \in DOMAIN asked
      PROVE  asked'[k] \in CallType /\ CallOK(asked'[k])
  <2>1. CASE C!Over(k)
    BY <1>3, <2>1, CallsParts DEF C!Cut, ResearchInv
  <2>2. CASE ~C!Over(k)
    <3>1. asked'[k] = [asked[k] EXCEPT !.pc = "cut"] /\ CallOK(asked[k])
      BY <1>3, <2>2 DEF C!Cut, ResearchInv
    <3> QED BY <3>1, CutOK
  <2> QED BY <2>1, <2>2
<1>4. asked' \in [1..Len(asked) -> CallType] /\ DOMAIN asked' = DOMAIN asked
  BY <1>1, <1>3 DEF C!Cut
<1>5. asked' \in Seq(CallType) /\ Len(asked') = Len(asked)
  BY <1>1, <1>4
<1>6. PlanInv'
  BY <1>1, <1>2, <1>5 DEF ResearchInv, PlanInv
<1> QED BY <1>2, <1>3, <1>4, <1>5, <1>6 DEF ResearchInv, TakenInv, EnrichInv, C!FoundIsShown

-----------------------------------------------------------------------------
(* Theorems *)

\* The first state.
LEMMA ResearchInitially ==
  ASSUME C!Settings, C!Init
  PROVE  ResearchInv
<1>1. 0 \in 0..Rounds /\ MaxAsked \in Nat
  BY ResearchConstants
<1>2. agent \in AgentType /\ agent.pc \in {"planning", "enrich"} /\ asked = <<>>
  <2>1. C!Start \in AgentType /\ C!Start.pc = "planning"
    <3>1. {} \in SUBSET Packets /\ {} \in SUBSET C!Companies /\ 0 \in Nat
      OBVIOUS
    <3> QED BY <1>1, <3>1 DEF C!Start, AgentType
  <2>2. /\ [C!Start EXCEPT !.pc = "enrich"] \in AgentType
        /\ [C!Start EXCEPT !.pc = "enrich"].pc = "enrich"
    BY <2>1 DEF AgentType
  <2> QED BY <2>1, <2>2 DEF C!Init
<1>3. asked \in Seq(CallType) /\ Len(asked) = 0 /\ DOMAIN asked = {}
  BY <1>2
<1> QED BY <1>1, <1>2, <1>3 DEF ResearchInv, PlanInv, TakenInv, EnrichInv, C!FoundIsShown

\* The invariant holds, for any companies, requests, responses and limits.
THEOREM ResearchInvariant == ResearchSpec => []ResearchInv
<1> USE ResearchAssumption
<1>1. C!Init => ResearchInv
  BY ResearchInitially
<1>2. ResearchInv /\ [C!Next]_C!vars => ResearchInv'
  <2> SUFFICES ASSUME ResearchInv, [C!Next]_C!vars PROVE ResearchInv'
    OBVIOUS
  <2>1. CASE C!Agent
    BY <2>1, ModelCallsToolsStep, TakeResultsStep, LoopStep, EnrichStep, ToReportStep, ReportStep
       DEF C!Agent
  <2>2. CASE C!Cut
    BY <2>2, CutStep
  <2>3. CASE \E k \in DOMAIN asked : C!Call(k) \/ \E i \in DOMAIN asked[k].tasks : C!Task(k, i)
    BY <2>3, CallStep
  <2>4. CASE UNCHANGED C!vars
    BY <2>4 DEF C!vars, ResearchInv, PlanInv, TakenInv, Taken, C!Over, EnrichInv, C!FoundIsShown
  <2> QED BY <2>1, <2>2, <2>3, <2>4 DEF C!Next
<1> QED BY <1>1, <1>2, PTL DEF ResearchSpec, C!Spec

\* A research that has returned leaves no task behind, and no more tasks run at
\* once than the limit.
THEOREM TasksStayContained == ResearchSpec => []TasksAreContained
<1> USE ResearchAssumption
<1>1. ResearchInv => C!TasksAreContained
  <2> SUFFICES ASSUME ResearchInv, NEW k \in DOMAIN asked
               PROVE  /\ asked[k].pc = "returned" =>
                           \A i \in DOMAIN asked[k].tasks : asked[k].tasks[i].pc \in {"done", "ended"}
                      /\ C!Cardinality(Busy(asked[k])) <= Concurrency
    BY DEF Busy, C!TasksAreContained
  <2> QED BY CountedAlike DEF ResearchInv, CallOK, TasksOK, MayBe
<1> QED BY <1>1, ResearchInvariant, PTL DEF TasksAreContained

\* The packets of a research are those of its companies in their order, with claims
\* that rest on what was found, and the answer shows each company that was researched.
THEOREM ResearchStaysShown == ResearchSpec => []ResearchIsShown
<1> USE ResearchAssumption
<1>1. ResearchInv => C!ResearchIsShown
  <2> SUFFICES ASSUME ResearchInv PROVE C!ResearchIsShown
    OBVIOUS
  <2>1. C!TypeOK
    <3>1. agent.round \in 0..Rounds
      BY DEF ResearchInv, AgentType
    <3>2. Len(asked) <= MaxAsked + 1
      BY CallsParts, ResearchConstants DEF ResearchInv, PlanInv
    <3>3. ASSUME NEW k \in DOMAIN asked
          PROVE  asked[k].pc \in {"issued", "waiting", "draining", "returned", "cut"}
      BY <3>3, CallsParts DEF CallType
    <3>4. ASSUME NEW k \in DOMAIN asked, NEW i \in DOMAIN asked[k].tasks
          PROVE  /\ asked[k].tasks[i].attempt \in 0..Attempts
                 /\ asked[k].tasks[i].pc \in
                      {"queued", "asking", "sleeping", "done", "cancelling", "ended"}
      <4>1. asked[k].tasks[i] \in TaskType
        BY <3>4, CallParts DEF ResearchInv
      <4> QED BY <4>1 DEF TaskType
    <3> QED BY <3>1, <3>2, <3>3, <3>4 DEF C!TypeOK
  <2>2. C!AnswersInOrder
    <3> SUFFICES ASSUME NEW k \in DOMAIN asked, asked[k].pc = "returned"
                 PROVE  /\ Len(asked[k].packets) = Len(asked[k].companies)
                        /\ \A i \in DOMAIN asked[k].packets :
                             /\ asked[k].packets[i].company = asked[k].companies[i]
                             /\ \/ asked[k].packets[i].status = "timeout"
                                \/ <<asked[k].packets[i]>> = asked[k].tasks[i].packet
      BY DEF C!AnswersInOrder
    <3> QED BY DEF ResearchInv, CallOK, PacketsOK
  <2>3. C!ClaimsAreSupported
    <3> SUFFICES ASSUME NEW k \in DOMAIN asked, NEW i \in DOMAIN asked[k].packets,
                        NEW claim \in asked[k].packets[i].claims
                 PROVE  claim # {} /\ claim \subseteq asked[k].packets[i].found
      BY DEF C!ClaimsAreSupported
    <3>1. asked[k].packets \in Seq(Packets) /\ i \in 1..Len(asked[k].packets)
      BY CallParts DEF ResearchInv
    <3>2. asked[k].packets[i] \in Packets
      BY <3>1, ElementOfSeq
    <3> QED BY <3>2 DEF Packets, Supported
  <2>4. C!NotTwice
    <3> SUFFICES ASSUME agent.pc \in {"enriching", "report", "done"}, agent.batch <= Len(asked),
                        NEW k \in 1..(agent.batch - 1), asked[k].pc = "returned", ~agent.failed
                 PROVE  asked[k].packets = <<>>
      BY DEF C!NotTwice
    <3>1. agent.batch \in DOMAIN asked /\ k \in DOMAIN asked /\ k < agent.batch
      BY CallsParts DEF ResearchInv, PlanInv
    <3>2. C!Range(asked[k].packets) \subseteq {}
      BY <3>1 DEF ResearchInv, TakenInv, Taken, EnrichInv
    <3>3. asked[k].packets \in Seq(Packets) /\ DOMAIN asked[k].packets = 1..Len(asked[k].packets)
          /\ Len(asked[k].packets) \in Nat
      BY <3>1, CallParts DEF ResearchInv
    <3>4. DOMAIN asked[k].packets = {}
      BY <3>2 DEF C!Range
    <3>5. Len(asked[k].packets) = 0
      <4> SUFFICES ASSUME Len(asked[k].packets) # 0 PROVE FALSE
        OBVIOUS
      <4>1. 1 \in DOMAIN asked[k].packets
        BY <3>3
      <4> QED BY <3>4, <4>1
    <3> QED BY <3>3, <3>5, EmptySeq
  <2> QED BY <2>1, <2>2, <2>3, <2>4 DEF C!ResearchIsShown, ResearchInv
<1> QED BY <1>1, ResearchInvariant, PTL DEF ResearchIsShown
=============================================================================
