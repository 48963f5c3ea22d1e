--------------------------- MODULE ResearchSystem ---------------------------
(* The live research (module CompanyResearch) with parameters and variables  *)
(* of its own, under names that leave free those of the conversation whose   *)
(* answer it is part of: what is checked and proved of it.                   *)
CONSTANTS Stored, Questions, Responses, MaxCompanies, Concurrency, Attempts, MaxSources,
          Rounds, MaxAsked
VARIABLES agent, asked

C == INSTANCE CompanyResearch WITH Requests <- Questions, MaxCalls <- MaxAsked,
                                   calls <- asked

ASSUME ResearchAssumption == C!Settings

ResearchSpec == C!Spec
FairResearchSpec == C!FairSpec

\* What reaches the answer is in order, supported, complete but for the named
\* exceptions, and not researched twice.
ResearchIsShown == C!ResearchIsShown

\* A research that returned has left no task behind, and never are there more at
\* the provider than the semaphore lets in.
TasksAreContained == C!TasksAreContained

\* A research and its tasks come to an end, by the timeout of a single company.
ResearchEnds == C!ResearchEnds
=============================================================================
