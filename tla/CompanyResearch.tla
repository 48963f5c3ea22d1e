-------------------------- MODULE CompanyResearch --------------------------
(* The live part of a market research (ResearchSubagent.run after its        *)
(* transaction): the loop in which a language model asks for tools, the      *)
(* research of several companies at once (CompanyResearchCoordinator), the   *)
(* web search behind each of them, and the answer that is made of it.        *)
(*                                                                           *)
(* A research of companies is one call of the executor.  It starts a task    *)
(* for each company; a semaphore lets some of them ask the provider, each    *)
(* with its own timeout and retries, and a timeout of all of them cancels    *)
(* the rest.  Around it are the timeout of the call and the deadline of the  *)
(* run, which know nothing of the tasks.                                     *)
EXTENDS Integers, Sequences, FiniteSets, Functions

CONSTANTS
  Stored,        \* companies of the stored candidates of the report, a sequence
  Requests,      \* what the model may ask to research, sequences of companies
  Responses,     \* what the provider may answer
  MaxCompanies,  \* research_web_max_companies
  Concurrency,   \* research_web_concurrency
  Attempts,      \* research_web_max_retries + 1
  MaxSources,    \* research_web_max_sources_per_company
  Rounds,        \* turns of the model in the loop
  MaxCalls       \* bound on the researches the model asks for

\* A response names the company it is about, the evidence it claims to rest on,
\* the addresses the search has returned, and the evidence of each claim.
Companies == Range(Stored) \cup UNION {Range(r) : r \in Requests}
Settings ==
  /\ Stored \in Seq(Companies) /\ Requests \subseteq Seq(Companies)
  /\ {MaxCompanies, Concurrency, Attempts, MaxSources, Rounds} \subseteq Nat \ {0}
  /\ MaxCalls \in Nat
  /\ \A r \in Responses : /\ DOMAIN r = {"about", "evidence", "found", "claims"}
                          /\ r.about \in {"assigned", "unconfirmed", "another"}
                          /\ r.evidence \in Seq(Range(r.evidence))
                          /\ \A i \in DOMAIN r.evidence : DOMAIN r.evidence[i] = {"id", "url"}

VARIABLES
  agent,   \* the run of the sub-agent
  calls    \* its researches, in the order they were asked for

vars == <<agent, calls>>

Start == [pc |-> "planning", round |-> 0, batch |-> 0, packets |-> {}, searched |-> FALSE,
          noted |-> FALSE, failed |-> FALSE, shown |-> {}, synthesis |-> FALSE]

\* A stock lookup (/signals) has no loop.
Init ==
  /\ agent \in {Start, [Start EXCEPT !.pc = "enrich"]}
  /\ calls = <<>>

-----------------------------------------------------------------------------
(* What becomes of a response *)

Failure(company, status) ==
  [company |-> company, status |-> status, sources |-> {}, claims |-> {}, found |-> {}]

\* An item is kept when the search has really returned its address, and it repeats
\* none that is kept; those after the last that is kept are not looked at.
Before(kept, i) == {j \in kept : j < i}
IsNew(r, kept, i) ==
  \A j \in Before(kept, i) : /\ r.evidence[j].url # r.evidence[i].url
                            /\ r.evidence[j].id # r.evidence[i].id
IsSupported(r, kept, i) == r.evidence[i].url \in r.found /\ IsNew(r, kept, i)
LooksAt(kept, i) == Cardinality(Before(kept, i)) < MaxSources
Verified(r) ==
  CHOOSE kept \in SUBSET DOMAIN r.evidence :
    \A i \in DOMAIN r.evidence : i \in kept <=> LooksAt(kept, i) /\ IsSupported(r, kept, i)

\* _parse_response.  A claim is kept with what is left of its evidence.
Parsed(company, r) ==
  LET kept == Verified(r)
      cited(claim) == {r.evidence[i].url : i \in {j \in kept : r.evidence[j].id \in claim}}
      rejects == \E i \in DOMAIN r.evidence \ kept : LooksAt(kept, i)
  IN  IF r.about = "another" THEN Failure(company, "failed")
      ELSE [company |-> company,
            status |-> IF rejects \/ kept = {} \/ r.about # "assigned"
                         THEN "partial" ELSE "complete",
            sources |-> {r.evidence[i].url : i \in kept},
            claims |-> {cited(claim) : claim \in r.claims} \ {{}},
            found |-> r.found]

-----------------------------------------------------------------------------
(* research_many *)

NoTask == [pc |-> "queued", attempt |-> 0, packet |-> <<>>]
Selected(companies) == SubSeq(companies, 1, IF Len(companies) < MaxCompanies
                                              THEN Len(companies) ELSE MaxCompanies)
Issued(companies) == [pc |-> "issued", companies |-> companies, tasks |-> <<>>, packets |-> <<>>]

Running(t) == t.pc \in {"asking", "sleeping"}
KeepsSlot(t) == t.pc \in {"asking", "sleeping", "done"}
HoldsSlot(t) == Running(t)
Over(k) == calls[k].pc \in {"returned", "cut"}
TaskIs(k, i, pc) == i \in DOMAIN calls[k].tasks /\ calls[k].tasks[i].pc = pc
SetTask(k, i, t) == calls' = [calls EXCEPT ![k].tasks[i] = t]

Begin(k) ==
  /\ calls[k].pc = "issued"
  /\ calls' = [calls EXCEPT
       ![k].companies = Selected(@),
       ![k].tasks = [i \in DOMAIN Selected(calls[k].companies) |-> NoTask],
       ![k].pc = "waiting"]
  /\ UNCHANGED agent

\* The call is refused, or its time is over before it gets a slot.
Refuse(k) ==
  /\ calls[k].pc = "issued"
  /\ calls' = [calls EXCEPT ![k].pc = "cut"]
  /\ UNCHANGED agent

Enter(k, i) ==
  /\ TaskIs(k, i, "queued")
  /\ Cardinality({j \in DOMAIN calls[k].tasks : HoldsSlot(calls[k].tasks[j])}) < Concurrency
  /\ SetTask(k, i, [NoTask EXCEPT !.pc = "asking", !.attempt = 1])
  /\ UNCHANGED agent

Done(k, i, packet) ==
  SetTask(k, i, [NoTask EXCEPT !.pc = "done", !.attempt = calls[k].tasks[i].attempt,
                               !.packet = <<packet>>])

\* research_company: an answer, an answer nobody can read, or an error.
Answer(k, i) ==
  /\ TaskIs(k, i, "asking")
  /\ \/ \E r \in Responses : Done(k, i, Parsed(calls[k].companies[i], r))
     \/ Done(k, i, Failure(calls[k].companies[i], "failed"))
  /\ UNCHANGED agent

TransientError(k, i) ==
  /\ TaskIs(k, i, "asking")
  /\ calls[k].tasks[i].attempt < Attempts
  /\ SetTask(k, i, [calls[k].tasks[i] EXCEPT !.pc = "sleeping"])
  /\ UNCHANGED agent

AskAgain(k, i) ==
  /\ TaskIs(k, i, "sleeping")
  /\ SetTask(k, i, [calls[k].tasks[i] EXCEPT !.pc = "asking", !.attempt = @ + 1])
  /\ UNCHANGED agent

CompanyTimeout(k, i) ==
  /\ i \in DOMAIN calls[k].tasks /\ Running(calls[k].tasks[i])
  /\ Done(k, i, Failure(calls[k].companies[i], "timeout"))
  /\ UNCHANGED agent

\* The answer for each company that was selected, in their order.
Results(k) ==
  [i \in DOMAIN calls[k].tasks |->
     IF calls[k].tasks[i].pc = "done" THEN calls[k].tasks[i].packet[1]
     ELSE Failure(calls[k].companies[i], "timeout")]

Collect(k) ==
  /\ calls[k].pc = "waiting"
  /\ \A i \in DOMAIN calls[k].tasks : calls[k].tasks[i].pc = "done"
  /\ calls' = [calls EXCEPT ![k].pc = "returned", ![k].packets = Results(k)]
  /\ UNCHANGED agent

\* Nothing is taken from a task that has to be cancelled.
TotalTimeout(k) ==
  /\ calls[k].pc = "waiting"
  /\ \E i \in DOMAIN calls[k].tasks : calls[k].tasks[i].pc # "done"
  /\ calls' = [calls EXCEPT
       ![k].pc = "draining", ![k].packets = Results(k),
       ![k].tasks = [i \in DOMAIN @ |-> IF @[i].pc = "done" THEN @[i]
                                          ELSE [@[i] EXCEPT !.pc = "cancelling"]]]
  /\ UNCHANGED agent

EndTask(k, i) ==
  /\ TaskIs(k, i, "cancelling")
  /\ SetTask(k, i, [NoTask EXCEPT !.pc = "ended"])
  /\ UNCHANGED agent

AtOnce(k) == TRUE
Drained(k) == \A i \in DOMAIN calls[k].tasks : calls[k].tasks[i].pc # "cancelling"
Return(k) ==
  /\ calls[k].pc = "draining"
  /\ Drained(k)
  /\ calls' = [calls EXCEPT ![k].pc = "returned"]
  /\ UNCHANGED agent

\* The timeout of the call strikes while research_many waits: asyncio.wait gives
\* up waiting and leaves the tasks as they are.
CallTimeout(k) ==
  /\ calls[k].pc \in {"waiting", "draining"}
  /\ calls' = [calls EXCEPT ![k].pc = "cut"]
  /\ UNCHANGED agent

-----------------------------------------------------------------------------
(* ResearchSubagent *)

\* The packets of the calls from k on that were not cut.
Gathered(k) ==
  UNION {Range(calls[j].packets) : j \in {c \in k..Len(calls) : calls[c].pc = "returned"}}

\* A turn of the model that asks for tools, all of them called at once: researches,
\* a web search, stored signals and articles.
ModelCallsTools ==
  /\ agent.pc = "planning" /\ agent.round < Rounds
  /\ \E requests \in UNION {[1..n -> Requests] : n \in 0..MaxCalls}, searches, reads \in BOOLEAN :
       /\ Len(calls) + Len(requests) <= MaxCalls
       /\ requests # <<>> \/ searches \/ reads
       /\ calls' = calls \o [i \in DOMAIN requests |-> Issued(requests[i])]
       /\ agent' = [agent EXCEPT !.pc = "tools", !.batch = Len(calls) + 1, !.round = @ + 1,
                                 !.searched = @ \/ searches, !.noted = @ \/ reads]

LatestOnly(packets) == packets
Kept(packets) == agent.packets \cup packets
TakeResults ==
  /\ agent.pc = "tools"
  /\ \A k \in agent.batch..Len(calls) : Over(k)
  /\ agent' = [agent EXCEPT
       !.pc = "planning", !.packets = Kept(Gathered(agent.batch)),
       !.noted = @ \/ \E k \in agent.batch..Len(calls) : calls[k].pc = "cut"]
  /\ UNCHANGED calls

\* The model has enough, and may say something, or has had its turns.
LoopEnds ==
  /\ agent.pc = "planning"
  /\ \E says \in BOOLEAN :
       /\ says => agent.round < Rounds
       /\ agent' = [agent EXCEPT !.pc = "enrich", !.noted = @ \/ says]
  /\ UNCHANGED calls

\* A turn fails: what the turns before have gathered is not handed over.
LoopFails ==
  /\ agent.pc = "planning" /\ agent.round < Rounds
  /\ agent' = [agent EXCEPT !.pc = "enrich", !.packets = {}, !.searched = FALSE,
                            !.noted = FALSE, !.failed = TRUE]
  /\ UNCHANGED calls

\* should_enrich_research: the command, or the words of the question.
NoneYet == agent.packets = {}
Enrich ==
  /\ agent.pc = "enrich"
  /\ NoneYet /\ Stored # <<>>
  /\ calls' = Append(calls, Issued(Stored))
  /\ agent' = [agent EXCEPT !.pc = "enriching", !.batch = Len(calls) + 1]

NoEnrichment ==
  /\ agent.pc = "enrich"
  /\ agent' = [agent EXCEPT !.pc = "report", !.batch = Len(calls) + 1]
  /\ UNCHANGED calls

TakeEnrichment ==
  /\ agent.pc = "enriching"
  /\ Over(agent.batch)
  /\ agent' = [agent EXCEPT !.pc = "report"]
  /\ UNCHANGED calls

\* The report shows research beside the stored candidates.
WithEvidence(packets) == {p.company : p \in {q \in packets : q.sources # {}}}
Reported ==
  Range(Stored) \cap
    WithEvidence(IF NoneYet THEN Gathered(agent.batch) ELSE agent.packets)
\* When the loop has found something on the web, a synthesis is tried, which is given
\* that, and the report only if the loop has noted nothing.
Synthesized == WithEvidence(agent.packets) \cup IF agent.noted THEN {} ELSE Reported

\* The synthesis replaces the report unless it fails.
Report ==
  /\ agent.pc = "report"
  /\ \E synthesis \in BOOLEAN :
       /\ synthesis => ~NoneYet \/ agent.searched
       /\ agent' = [agent EXCEPT
            !.pc = "done", !.synthesis = synthesis,
            !.shown = IF synthesis THEN Synthesized ELSE Reported]
  /\ UNCHANGED calls

\* The deadline of the run, or its caller, cancels the sub-agent and the calls it
\* waits for.
Cut ==
  /\ agent.pc \notin {"done", "cut"}
  /\ agent' = [agent EXCEPT !.pc = "cut"]
  /\ calls' = [k \in DOMAIN calls |-> IF Over(k) THEN calls[k]
                                        ELSE [calls[k] EXCEPT !.pc = "cut"]]

Task(k, i) ==
  \/ Enter(k, i) \/ Answer(k, i) \/ TransientError(k, i) \/ AskAgain(k, i)
  \/ CompanyTimeout(k, i) \/ EndTask(k, i)

Call(k) ==
  \/ Begin(k) \/ Refuse(k) \/ Collect(k) \/ TotalTimeout(k) \/ Return(k) \/ CallTimeout(k)

Agent ==
  \/ ModelCallsTools \/ TakeResults \/ LoopEnds \/ LoopFails
  \/ Enrich \/ NoEnrichment \/ TakeEnrichment \/ Report

Next ==
  \/ Agent \/ Cut
  \/ \E k \in DOMAIN calls : Call(k) \/ \E i \in DOMAIN calls[k].tasks : Task(k, i)

\* A task of the event loop that can go on does; timeouts strike, but a live
\* property may not rest on the one that ends everything.
MaxTasks == MaxCalls + 1
Fairness ==
  /\ WF_vars(Agent)
  /\ \A k \in 1..MaxTasks :
       /\ WF_vars(k \in DOMAIN calls /\ (Begin(k) \/ Collect(k) \/ Return(k)))
       /\ \A i \in 1..MaxCompanies :
            WF_vars(k \in DOMAIN calls /\ i \in DOMAIN calls[k].tasks /\ Task(k, i))

Spec == Init /\ [][Next]_vars
FairSpec == Spec /\ Fairness

-----------------------------------------------------------------------------
(* Properties *)

TypeOK ==
  /\ agent.round \in 0..Rounds /\ Len(calls) <= MaxCalls + 1
  /\ \A k \in DOMAIN calls :
       /\ calls[k].pc \in {"issued", "waiting", "draining", "returned", "cut"}
       /\ \A i \in DOMAIN calls[k].tasks :
            /\ calls[k].tasks[i].attempt \in 0..Attempts
            /\ calls[k].tasks[i].pc \in
                 {"queued", "asking", "sleeping", "done", "cancelling", "ended"}

\* A research answers for each of its companies in their order, with what its own
\* task found or not at all.
AnswersInOrder ==
  \A k \in DOMAIN calls : calls[k].pc = "returned" =>
    /\ Len(calls[k].packets) = Len(calls[k].companies)
    /\ \A i \in DOMAIN calls[k].packets :
         LET packet == calls[k].packets[i] IN
         /\ packet.company = calls[k].companies[i]
         /\ packet.status = "timeout" \/ <<packet>> = calls[k].tasks[i].packet

\* Every claim still rests on an address the search returned.
ClaimsAreSupported ==
  \A k \in DOMAIN calls : \A i \in DOMAIN calls[k].packets :
    LET packet == calls[k].packets[i] IN
    \A claim \in packet.claims : claim # {} /\ claim \subseteq packet.found

\* What was found of a company is shown, unless a later turn of the loop failed, or
\* it is about a company without a stored candidate and there is no synthesis, or
\* it was found after the loop and there is one made of the loop's notes.
FoundIsShown ==
  agent.pc = "done" =>
    \A k \in DOMAIN calls : calls[k].pc = "returned" =>
      \A company \in WithEvidence(Range(calls[k].packets)) :
        \/ company \in agent.shown
        \/ agent.failed /\ k < agent.batch
        \/ company \notin Range(Stored) /\ ~agent.synthesis
        \/ k = agent.batch /\ agent.packets = {} /\ agent.synthesis /\ agent.noted

\* The stored candidates are not researched on top of what the loop was given,
\* unless a later turn of it failed.
NotTwice ==
  agent.pc \in {"enriching", "report", "done"} /\ agent.batch <= Len(calls) =>
    \A k \in 1..(agent.batch - 1) :
      calls[k].pc = "returned" => calls[k].packets = <<>> \/ agent.failed

\* The research that reaches the answer is complete, in order and supported.
ResearchIsShown ==
  TypeOK /\ AnswersInOrder /\ ClaimsAreSupported /\ FoundIsShown /\ NotTwice

\* A research that has returned has left no task behind, and its tasks never ask
\* more at once than the semaphore lets in.  Of one that was cut while it waited
\* this is not so: its tasks go on and pay for answers nobody takes ("cancels and
\* awaits all local children", docs/stock-news-harness-proposal.md).
TasksAreContained ==
  \A k \in DOMAIN calls :
    /\ calls[k].pc = "returned" =>
         \A i \in DOMAIN calls[k].tasks : calls[k].tasks[i].pc \in {"done", "ended"}
    /\ Cardinality({i \in DOMAIN calls[k].tasks : Running(calls[k].tasks[i])}) <= Concurrency

\* A research comes to an end and its last task too, even if no timeout ever strikes
\* but that of a single company.
ResearchEnds ==
  <>[](/\ agent.pc \in {"done", "cut"}
      /\ \A k \in DOMAIN calls :
           \A i \in DOMAIN calls[k].tasks : calls[k].tasks[i].pc \in {"done", "ended"})
=============================================================================
