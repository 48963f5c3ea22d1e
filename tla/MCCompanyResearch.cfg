SPECIFICATION FairResearchSpec
CONSTANTS
  Stored <- Candidates
  Questions <- Asked
  Responses <- Answers
  MaxCompanies = 2
  Concurrency = 1
  Attempts = 2
  MaxSources = 2
  Rounds = 2
  MaxAsked = 1
INVARIANTS ResearchIsShown TasksAreContained
PROPERTIES ResearchEnds
CHECK_DEADLOCK FALSE
