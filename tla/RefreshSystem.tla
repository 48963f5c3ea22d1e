---------------------------- MODULE RefreshSystem ----------------------------
(* The refreshes (module Refresh) with variables of their own, under names   *)
(* that leave free those of the collector whose sources they read: what is   *)
(* checked and proved of them.                                               *)
CONSTANTS Loop, Bot, Pipelines, MarketPrices, Cutoff
VARIABLES place, kind, job, age, left, queue, ran, rested, slept, embedding, summary,
          summaryEmbedding, mentions, reading, excuses, blamed, rowless

R == INSTANCE Refresh WITH pc <- place

ASSUME RefreshAssumption == R!Settings

RefreshSpec == R!Spec
FairRefreshSpec == R!FairSpec

\* No embedding is of a text the article had before, though each is made by a call
\* outside any transaction.
EmbeddingsAreCurrent == R!EmbeddingsAreCurrent

\* Two refreshes at once, and what they double, have one of the named causes.
OverlapIsAccounted == R!OverlapIsAccounted

\* The loop comes to the memory jobs again and again though its refreshes raise, if
\* they leave their rows running.
MemoryIsReached == R!MemoryIsReached

\* A row that a refresh has left running does not stay stale.
RowsEnd == R!RowsEnd
==============================================================================
