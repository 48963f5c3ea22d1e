------------------------- MODULE MCCompanyResearch -------------------------
EXTENDS ResearchSystem

\* The model asks for a stored company, for another, or for both.
Candidates == <<"a">>
Asked == {<<"b">>, <<"b", "a">>}

\* An answer that is well supported, and one that cites an address the search has
\* not returned, repeats an identifier, and claims something of it.
Item(id, url) == [id |-> id, url |-> url]
Answers ==
  {[about |-> "assigned", evidence |-> <<Item(1, "x")>>, found |-> {"x"}, claims |-> {{1}}],
   [about |-> "unconfirmed", evidence |-> <<Item(1, "y"), Item(2, "x"), Item(2, "z")>>,
    found |-> {"x", "z"}, claims |-> {{1}, {1, 2}}],
   [about |-> "another", evidence |-> <<>>, found |-> {"x"}, claims |-> {}]}
=============================================================================
