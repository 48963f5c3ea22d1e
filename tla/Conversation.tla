----------------------------- MODULE Conversation -----------------------------
(***************************************************************************)
(* The bot's answer to a message (app/supervisor.py): the graph that loads *)
(* the short-term session, routes the message to a sub-agent's command or  *)
(* to the main agent with its bounded loop of tools (agent/main_agent.py), *)
(* lets a reviewer judge the answer and have it made again                 *)
(* (agent/reflection.py), and saves the session and the conversation's     *)
(* events before the handler sends the reply (bot/handlers.py).            *)
(*                                                                         *)
(* One message is handled at a time, in one run with one budget.  Any node *)
(* may raise, and the run's deadline may cut it off anywhere; meanwhile    *)
(* the scheduler deletes sessions that have expired.  What is learned of   *)
(* the events is MemoryConsolidation; how calls are executed is            *)
(* HarnessExecutor: here a call is granted or not, and ends somehow.       *)
(***************************************************************************)
EXTENDS Integers, FiniteSets, Sequences

CONSTANTS Requests,      \* the kinds of message that arrive: what route_request makes of them
          Window,        \* short_term_memory_window_size
          MaxIterations, \* main_agent_max_tool_iterations
          MaxRetries,    \* answer_reflection_max_retries
          MaxTurns,      \* model requests of a run
          MaxCalls,      \* calls of a run
          MaxMessages    \* bound of the messages that arrive

NewsCapabilities == {"source_admin", "scheduler_admin", "memory_admin", "resource_inventory",
                     "skills", "help"}
RuntimeCapabilities == {"runtime_inspection", "runtime_alerts"}
Commands == NewsCapabilities \cup RuntimeCapabilities \cup {"market_research"}

ASSUME ConversationAssumption ==
  /\ Requests \subseteq Commands \cup {"general_search", "unknown"}
  /\ {Window, MaxIterations, MaxTurns, MaxCalls, MaxMessages} \subseteq Nat \ {0}
  /\ MaxRetries \in Nat

VARIABLES
  stage,      \* the node of the graph the message is at
  request,    \* its kind
  received,   \* the messages so far
  loaded,     \* the session as the message found it
  answer,     \* final_response: who made it and what was done to it
  verdict,    \* what the reviewer said of it
  attempts,   \* reflection_attempts
  iterations, \* model requests of the main agent's loop
  log,        \* whether its tools have said anything
  turns,      \* the run's budget: model requests
  calls,      \* and calls
  session,    \* the row of short_term_sessions
  events,     \* conversation_events
  run,        \* the status of the message's row of runtime_runs
  replied     \* the messages whose reply the chat shows

agentVars == <<answer, verdict, attempts, iterations, log>>
budgetVars == <<turns, calls>>
stored == <<session, events>>
vars == <<stage, request, received, loaded, agentVars, budgetVars, stored, run, replied>>

Agents == {"news", "runtime", "research", "main"}
Stages == {"idle", "load_user_context", "route_request", "run_news_agent", "run_runtime_agent",
           "run_research_agent", "run_main_agent", "tools", "guardrail_check",
           "reflect_result", "persist_session", "enqueue_if_due", "finish_run", "reply"}
Handlers == Commands \cup {"default", "error", "main"}

Verdicts == {"pass", "retry", "fail"}

Entry(role, n) == [role |-> role, n |-> n]
Entries == [role : {"user", "assistant"}, n : 1..MaxMessages]
Answers == [agent : Agents, handler : Handlers, guarded : BOOLEAN, noted : BOOLEAN]
NoAnswer == [agent |-> "none"]
NoSession == [messages |-> <<>>, expired |-> TRUE]

TypeOK ==
  /\ stage \in Stages /\ request \in Requests /\ received \in 0..MaxMessages
  /\ loaded \in Seq(Entries) /\ events \in Seq(Entries)
  /\ answer \in Answers \cup {NoAnswer}
  /\ verdict \in {"none"} \cup Verdicts
  /\ attempts \in 0..MaxRetries /\ iterations \in 0..MaxIterations /\ log \in BOOLEAN
  /\ turns \in 0..MaxTurns /\ calls \in 0..MaxCalls
  /\ session.messages \in Seq(Entries) /\ session.expired \in BOOLEAN
  /\ run \in {"none", "running", "completed", "completed_with_errors", "failed"}
  /\ replied \subseteq 1..MaxMessages

Init ==
  /\ stage = "idle" /\ request \in Requests /\ received = 0
  /\ loaded = <<>> /\ answer = NoAnswer /\ verdict = "none"
  /\ attempts = 0 /\ iterations = 0 /\ log = FALSE /\ turns = 0 /\ calls = 0
  /\ session = NoSession /\ events = <<>> /\ run = "none" /\ replied = {}

-----------------------------------------------------------------------------
(* The graph *)

\* The row that the first node's trace inserts.
RunStarts == run' = "running"

\* handle_message starts a run with a budget of its own.
Receive(r) ==
  /\ stage = "idle" /\ received < MaxMessages
  /\ stage' = "load_user_context"
  /\ request' = r /\ received' = received + 1
  /\ loaded' = <<>> /\ answer' = NoAnswer /\ verdict' = "none"
  /\ attempts' = 0 /\ iterations' = 0 /\ log' = FALSE /\ turns' = 0 /\ calls' = 0
  /\ RunStarts
  /\ UNCHANGED <<stored, replied>>

\* The session is read as it is, expired or not.
LoadUserContext ==
  /\ stage = "load_user_context"
  /\ loaded' = session.messages
  /\ stage' = "route_request"
  /\ UNCHANGED <<request, received, agentVars, budgetVars, stored, run, replied>>

NodeOf(agent) ==
  CASE agent = "news" -> "run_news_agent"
    [] agent = "runtime" -> "run_runtime_agent"
    [] agent = "research" -> "run_research_agent"
    [] OTHER -> "run_main_agent"

\* route_request and _route_decision: only a known command goes to its sub-agent.
AgentOf(r) ==
  CASE r \in NewsCapabilities -> "news"
    [] r \in RuntimeCapabilities -> "runtime"
    [] r = "market_research" -> "research"
    [] OTHER -> "main"

RouteRequest ==
  /\ stage = "route_request"
  /\ stage' = NodeOf(AgentOf(request))
  /\ UNCHANGED <<request, received, loaded, agentVars, budgetVars, stored, run, replied>>

AnsweredBy(agent, handler) ==
  answer' = [agent |-> agent, handler |-> handler, guarded |-> FALSE, noted |-> FALSE]

\* A nested agent spends of the same budget.
Spends ==
  /\ turns' \in turns..MaxTurns
  /\ calls' \in calls..MaxCalls

\* The sub-agent of a command gets the command, its arguments and the text, but
\* not the route: the capabilities it looks for are not there.
Given == {}

\* NewsSubagent.run, RuntimeSubagent.run and ResearchSubagent.run.
HandlersOf(agent) ==
  CASE agent = "news" -> IF Given = {} THEN {"default"} ELSE Given
    [] agent = "runtime" -> IF "runtime_alerts" \in Given THEN {"runtime_alerts"}
                                                         ELSE {"runtime_inspection"}
    [] OTHER -> {"market_research"}

\* _run_domain: without a call left, or when the call fails, the answer is the
\* error's text.
RunDomain(agent) ==
  /\ stage = NodeOf(agent)
  /\ \/ /\ AnsweredBy(agent, "error")
        /\ UNCHANGED budgetVars
     \/ /\ calls < MaxCalls
        /\ turns' \in turns..MaxTurns /\ calls' \in (calls + 1)..MaxCalls
        /\ \E h \in HandlersOf(agent) \cup {"error"} : AnsweredBy(agent, h)
  /\ stage' = "guardrail_check"
  /\ UNCHANGED <<request, received, loaded, verdict, attempts, iterations, log, stored, run, replied>>

-----------------------------------------------------------------------------
(* The main agent *)

\* A request to the model that the budget grants.
Completion == turns < MaxTurns /\ turns' = turns + 1

Concluded ==
  /\ AnsweredBy("main", "main")
  /\ stage' = "guardrail_check"
  /\ UNCHANGED <<request, received, loaded, verdict, attempts, stored, run, replied>>

\* What the model is shown of the conversation.
Shown == IF Len(loaded) <= Window THEN loaded
         ELSE SubSeq(loaded, Len(loaded) - Window + 1, Len(loaded))

Asking == stage = "run_main_agent" /\ iterations < MaxIterations

ModelAnswers ==
  /\ Asking /\ Completion
  /\ Concluded
  /\ UNCHANGED <<iterations, log, calls>>

\* Neither text nor calls: it is asked again.
ModelIsSilent ==
  /\ Asking /\ Completion
  /\ iterations' = iterations + 1
  /\ UNCHANGED <<stage, request, received, loaded, answer, verdict, attempts, log, calls,
                 stored, run, replied>>

ModelCallsTools ==
  /\ Asking /\ Completion
  /\ iterations' = iterations + 1
  /\ stage' = "tools"
  /\ UNCHANGED <<request, received, loaded, answer, verdict, attempts, log, calls,
                 stored, run, replied>>

\* The batch is executed; a refused call has a result too.
Tools ==
  /\ stage = "tools"
  /\ Spends
  /\ log' = TRUE
  /\ stage' = "run_main_agent"
  /\ UNCHANGED <<request, received, loaded, answer, verdict, attempts, iterations,
                 stored, run, replied>>

\* For comparison: a failed request is made again, over and over.
ModelFailsAgain ==
  /\ Asking
  /\ UNCHANGED vars

\* The request is refused by the budget or fails: what the tools said is the answer, ...
Refused == turns' \in turns..(IF turns < MaxTurns THEN turns + 1 ELSE turns)
ToolsSpeak ==
  /\ log /\ UNCHANGED calls

\* ... or, if they have said nothing, that of the one tool a fixed rule picks.
FallBack == calls' \in calls..MaxCalls

ModelFails ==
  /\ Asking /\ Refused
  /\ ToolsSpeak \/ FallBack
  /\ Concluded
  /\ UNCHANGED <<iterations, log>>

\* The loop is over: what the tools said, or that there is no answer.
OutOfIterations ==
  /\ stage = "run_main_agent" /\ iterations = MaxIterations
  /\ Concluded
  /\ UNCHANGED <<iterations, log, budgetVars>>

-----------------------------------------------------------------------------
(* Review *)

GuardrailCheck ==
  /\ stage = "guardrail_check"
  /\ answer' = [answer EXCEPT !.guarded = answer.agent \in {"research", "main"}]
  /\ stage' = "reflect_result"
  /\ UNCHANGED <<request, received, loaded, verdict, attempts, iterations, log, budgetVars,
                 stored, run, replied>>

\* Without a client, a budget or a valid response the answer passes.
Unreviewed ==
  /\ stage = "reflect_result"
  /\ Refused
  /\ verdict' = "pass"
  /\ stage' = "persist_session"
  /\ UNCHANGED <<request, received, loaded, answer, attempts, iterations, log, calls,
                 stored, run, replied>>

MayRetry(v) == v = "retry" /\ attempts < MaxRetries

\* The answer is dropped; the reviewer may have named another agent.
Retry(agent) ==
  /\ stage = "reflect_result" /\ Completion
  /\ MayRetry("retry")
  /\ verdict' = "retry" /\ attempts' = attempts + 1
  /\ answer' = NoAnswer /\ iterations' = 0 /\ log' = FALSE
  /\ stage' = NodeOf(agent)
  /\ UNCHANGED <<request, received, loaded, calls, stored, run, replied>>

\* For comparison: only an answer that failed is marked.
NotedIfFailed(v) == v = "fail"

\* An answer that was not passed, and is not made again, is marked.
Noted(v) == v # "pass"

Judge(v) ==
  /\ stage = "reflect_result" /\ Completion
  /\ ~MayRetry(v)
  /\ verdict' = v
  /\ answer' = [answer EXCEPT !.noted = Noted(v)]
  /\ stage' = "persist_session"
  /\ UNCHANGED <<request, received, loaded, attempts, iterations, log, calls,
                 stored, run, replied>>

-----------------------------------------------------------------------------
(* Persistence and reply *)

\* For comparison: the whole conversation is kept.
Untrimmed(messages) == messages

\* trim_messages
Trimmed(messages) ==
  IF Len(messages) <= Window THEN messages
  ELSE SubSeq(messages, Len(messages) - Window + 1, Len(messages))

Turn == <<Entry("user", received), Entry("assistant", received)>>

\* One transaction writes the session, from what was loaded, and the events.
PersistSession ==
  /\ stage = "persist_session"
  /\ session' = [messages |-> Trimmed(loaded \o Turn), expired |-> FALSE]
  /\ events' = events \o Turn
  /\ stage' = "enqueue_if_due"
  /\ UNCHANGED <<request, received, loaded, agentVars, budgetVars, run, replied>>

EnqueueIfDue ==
  /\ stage = "enqueue_if_due"
  /\ stage' = "finish_run"
  /\ UNCHANGED <<request, received, loaded, agentVars, budgetVars, stored, run, replied>>

\* For comparison: without the reviewer's verdict.
CompletedAlways == "completed"

FinalStatus == IF answer.noted THEN "completed_with_errors" ELSE "completed"

FinishRun ==
  /\ stage = "finish_run"
  /\ run' = FinalStatus
  /\ stage' = "reply"
  /\ UNCHANGED <<request, received, loaded, agentVars, budgetVars, stored, replied>>

Reply ==
  /\ stage = "reply"
  /\ replied' = replied \cup {received}
  /\ stage' = "idle"
  /\ UNCHANGED <<request, received, loaded, agentVars, budgetVars, stored, run>>

-----------------------------------------------------------------------------
(* Faults and the passing of time *)

\* A node raises: its run has failed, unless tracing itself does.  Telegram may
\* refuse the reply.
Raise ==
  /\ stage # "idle"
  /\ run' \in IF stage \in {"finish_run", "reply"} THEN {run} ELSE {run, "failed"}
  /\ stage' = "idle"
  /\ UNCHANGED <<request, received, loaded, agentVars, budgetVars, stored, replied>>

\* The deadline passes: cancellation is no exception that a node records.
Cut ==
  /\ stage \notin {"idle", "reply"}
  /\ stage' = "idle"
  /\ UNCHANGED <<request, received, loaded, agentVars, budgetVars, stored, run, replied>>

Expire ==
  /\ ~session.expired
  /\ session' = [session EXCEPT !.expired = TRUE]
  /\ UNCHANGED <<stage, request, received, loaded, agentVars, budgetVars, events, run, replied>>

\* cleanup_expired_content of the scheduler.
DeleteExpired ==
  /\ session.expired /\ session # NoSession
  /\ session' = NoSession
  /\ UNCHANGED <<stage, request, received, loaded, agentVars, budgetVars, events, run, replied>>

Node ==
  \/ LoadUserContext \/ RouteRequest
  \/ \E a \in Agents \ {"main"} : RunDomain(a)
  \/ ModelAnswers \/ ModelIsSilent \/ ModelCallsTools \/ Tools \/ ModelFails \/ OutOfIterations
  \/ GuardrailCheck \/ Unreviewed
  \/ \E a \in Agents \ {"news"} : Retry(a)
  \/ \E v \in Verdicts : Judge(v)
  \/ PersistSession \/ EnqueueIfDue \/ FinishRun \/ Reply

Next == Node \/ Raise \/ Cut \/ Expire \/ DeleteExpired \/ \E r \in Requests : Receive(r)

Spec == Init /\ [][Next]_vars

\* Every call of a node ends, by a timeout if need be.
FairSpec == Spec /\ WF_vars(Node)

-----------------------------------------------------------------------------
(* Properties *)

\* s is the end of t.
EndOf(s, t) == Len(s) <= Len(t) /\ s = SubSeq(t, Len(t) - Len(s) + 1, Len(t))

Recorded(n) == \E i \in DOMAIN events : events[i] = Entry("assistant", n)

\* The session that the next message will see is the end of the recorded
\* conversation and no longer than its window, although it is written from what
\* was read before the answer was made and may have been deleted meanwhile; and
\* what the chat shows is recorded (app/supervisor.py: persist_session).  So is
\* what the main agent is shown while it answers: the end of the conversation.
RepliesAreRecorded ==
  /\ TypeOK
  /\ stage \in {"run_main_agent", "tools"} => EndOf(Shown, events)
  /\ Len(session.messages) <= Window /\ EndOf(session.messages, events)
  /\ \A n \in replied : Recorded(n)

\* A reply that the reviewer did not accept says so, whatever agent was asked
\* again in between, and one from the research or the main agent has passed the
\* financial guardrail (reflect_result, guardrail_check).
RejectedIsMarked ==
  received \in replied =>
    /\ answer.noted <=> verdict # "pass"
    /\ answer.agent \in {"research", "main"} => answer.guarded

\* The row of runtime_runs is true of the message: completed only if the turn is
\* recorded, and with errors exactly if the reply is marked; a reply is sent of a
\* completed run only.  One that was cut off may stay running for ever.
RunIsHonest ==
  /\ run \in {"completed", "completed_with_errors"} => Recorded(received)
  /\ received \in replied => run = IF answer.noted THEN "completed_with_errors" ELSE "completed"

\* Every message comes to an end: the loop of tools and the reviews are bounded.
AnswerEnds == (stage # "idle") ~> (stage = "idle")

\* A command is answered by its own handler, or with an error, as the commands of
\* README.md and docs/architecture.md say.
CommandReachesHandler ==
  received \in replied /\ attempts = 0 /\ request \in Commands =>
    answer.handler \in {request, "error"}
===============================================================================
