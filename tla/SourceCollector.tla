---------------------------- MODULE SourceCollector ----------------------------
(***************************************************************************)
(* One shared source of news: the row of sources that FastNewsCollector    *)
(* (alerts/collector.py) leases, fetches and stores, and that the refresh  *)
(* (graph/nodes.py) and the commands of the bot (domains/news/subagent.py) *)
(* rewrite through SourceRepository (storage/repositories.py).             *)
(*                                                                         *)
(* The lease, the time of the last poll, the count of refusals and the     *)
(* user's settings are keys of one JSON column, config.  The collector     *)
(* changes it under a row lock.  Every other writer reads the row, edits   *)
(* its copy and writes the whole column back; the ORM leaves out a column  *)
(* whose value is the one it read.  Times are ages: how long ago the last  *)
(* poll was, how long the lease has to run.                                *)
(***************************************************************************)
EXTENDS Integers, FiniteSets

CONSTANTS Collectors,  \* collect_once of the alert loops and of the command line
          Refreshes,   \* database sessions a refresh may use
          Bots,        \* those a command may use
          Interval,    \* the source's poll interval
          Lease,       \* seconds of a lease
          MaxLag,      \* how far a claim can be behind the start of its pass
          MaxUnauthorized  \* answers 401 in a row that quarantine a source

Sessions == Refreshes \cup Bots

ASSUME CollectorAssumption ==
  /\ {Interval, Lease, MaxUnauthorized} \subseteq Nat \ {0} /\ MaxLag \in Nat
  /\ IsFiniteSet(Collectors) /\ IsFiniteSet(Sessions)
  /\ Collectors \cap Sessions = {} /\ {"none", "old"} \cap (Collectors \cup Sessions) = {}

VARIABLES
  enabled,  \* sources.enabled
  config,   \* sources.config
  copy,     \* what a session has read: the two columns
  sess,     \* where a session stands
  pc,       \* where a collector stands with the source
  articles, \* who has the rows of the source's known articles locked
  denials,  \* answers 401
  removed,  \* the source was removed or quarantined and not added since
  track     \* what was seen of claims and settings, see below

vars == <<enabled, config, copy, sess, pc, articles, denials, removed, track>>

Ages == 0..(Interval + MaxLag)
Saturated(n, m) == IF n < m THEN n ELSE m

\* alert_lease_token ("old" is one that nobody holds any more), the rest of
\* alert_lease_until, the age of alert_last_fetched_at, unauthorized_failures,
\* quarantined_http_status, and a setting of the user's, alert_enabled.
Configs == [token : Collectors \cup {"none", "old"}, lease : (-MaxLag)..Lease, last : Ages,
            refused : 0..MaxUnauthorized, quarantined : BOOLEAN, polled : BOOLEAN]

\* The age of the last claim, who made it, what the user set last, whether a
\* result was stored after a later claim and whether two claims came too close:
\* followed until a session writes back what had changed since it read it, or
\* confirms a setting that it finds in its copy and somebody else has changed.
Track == [stale : BOOLEAN, claimed : Ages, newest : Collectors \cup {"none"},
          asked : BOOLEAN, saved : BOOLEAN, close : BOOLEAN]
Start == [stale |-> FALSE, claimed |-> Interval + MaxLag, newest |-> "none",
          asked |-> TRUE, saved |-> FALSE, close |-> FALSE]
Seen(t) == IF track.stale THEN track ELSE t

TypeOK ==
  /\ enabled \in BOOLEAN /\ config \in Configs
  /\ copy \in [Sessions -> [enabled : BOOLEAN, config : Configs]]
  /\ sess \in [Sessions -> {"idle", "articles", "read"}]
  /\ pc \in [Collectors -> {"idle", "fetch", "store"}]
  /\ articles \in Sessions \cup {"none"}
  /\ denials \in 0..MaxUnauthorized /\ removed \in BOOLEAN /\ track \in Track

Fresh == [token |-> "none", lease |-> -MaxLag, last |-> Interval + MaxLag, refused |-> 0,
          quarantined |-> FALSE, polled |-> TRUE]

Init ==
  /\ enabled = TRUE /\ config = Fresh
  /\ copy = [s \in Sessions |-> [enabled |-> TRUE, config |-> Fresh]]
  /\ sess = [s \in Sessions |-> "idle"]
  /\ pc = [c \in Collectors |-> "idle"]
  /\ articles = "none" /\ denials = 0 /\ removed = FALSE /\ track = Start

-----------------------------------------------------------------------------
(* The collector *)

SourceLocked == \E c \in Collectors : pc[c] = "store"

\* Nobody compares the token of c's claim any more.
Retired(r, c) == IF r.token = c THEN [r EXCEPT !.token = "old"] ELSE r
RetiredCopies(c) == [s \in Sessions |-> [copy[s] EXCEPT !.config = Retired(@, c)]]

\* For comparison: a lease ends with its holder only.
CollectibleUnleased(lag) ==
  /\ enabled /\ config.polled /\ ~config.quarantined
  /\ config.last - lag >= Interval /\ config.token = "none"

\* A pass that began lag ago finds the source due and not leased.
Collectible(lag) ==
  /\ enabled /\ config.polled /\ ~config.quarantined
  /\ config.last - lag >= Interval
  /\ config.lease + lag <= 0

\* _claim; the row is passed over while another transaction has it locked, as
\* one that has inserted articles of the source does too.
Claim(c, lag) ==
  /\ pc[c] = "idle" /\ ~SourceLocked
  /\ Collectible(lag)
  /\ config' = [config EXCEPT !.token = c, !.lease = Lease - lag, !.last = lag]
  /\ pc' = [pc EXCEPT ![c] = "fetch"]
  /\ track' = Seen([track EXCEPT !.claimed = 0, !.newest = c,
                      !.close = @ \/ track.claimed + MaxLag < Interval])
  /\ UNCHANGED <<enabled, copy, sess, articles, denials, removed>>

Leave(c) ==
  /\ pc' = [pc EXCEPT ![c] = "idle"]
  /\ copy' = RetiredCopies(c)

\* For comparison: the token is not compared.
HoldsAny(c) == pc[c] = "fetch" /\ ~SourceLocked

\* The result of a fetch is stored by whoever holds the row's token.
Holds(c) == pc[c] = "fetch" /\ ~SourceLocked /\ config.token = c

\* Another collector took the source meanwhile: what was fetched is dropped.
Superseded(c) ==
  /\ pc[c] = "fetch" /\ ~SourceLocked /\ config.token # c
  /\ Leave(c)
  /\ UNCHANGED <<enabled, config, sess, articles, denials, removed, track>>

Released(r) == [r EXCEPT !.token = "none", !.lease = -MaxLag]
Refused(r) == Saturated(r.refused + 1, MaxUnauthorized)
Quarantines(r) == r.refused + 1 >= MaxUnauthorized
Denied(r) == [r EXCEPT !.refused = Refused(r), !.quarantined = @ \/ Quarantines(r)]

\* The provider failed; 401 is counted, everything else ends the count.
StoreFailure(c) ==
  /\ Holds(c)
  /\ config' = [Released(config) EXCEPT !.refused = 0]
  /\ Leave(c)
  /\ UNCHANGED <<enabled, sess, articles, denials, removed, track>>

StoreUnauthorized(c) ==
  /\ Holds(c)
  /\ config' = Denied(Released(config))
  /\ enabled' = (enabled /\ ~Quarantines(config))
  /\ removed' = (removed \/ Quarantines(config))
  /\ denials' = Saturated(denials + 1, MaxUnauthorized)
  /\ Leave(c)
  /\ UNCHANGED <<sess, articles, track>>

\* With items to store, the row stays locked until the articles are locked too
\* and upserted; the lease is given up in the same transaction.
LockSource(c) ==
  /\ Holds(c)
  /\ pc' = [pc EXCEPT ![c] = "store"]
  /\ UNCHANGED <<enabled, config, copy, sess, articles, denials, removed, track>>

StoreArticles(c) ==
  /\ pc[c] = "store" /\ articles = "none"
  /\ config' = [Released(config) EXCEPT !.refused = 0]
  /\ track' = Seen([track EXCEPT !.saved = @ \/ track.newest # c])
  /\ Leave(c)
  /\ UNCHANGED <<enabled, sess, articles, denials, removed>>

\* The process dies, or its last transaction fails: the lease stays.
CollectorFails(c) ==
  /\ pc[c] # "idle"
  /\ config' = Retired(config, c)
  /\ Leave(c)
  /\ UNCHANGED <<enabled, sess, articles, denials, removed, track>>

-----------------------------------------------------------------------------
(* The sessions of the refresh and of the bot *)

\* normalize_dedupe upserts the articles it has fetched, and locks those it
\* finds, before it comes to the sources in the same transaction.
UpsertArticles(s) ==
  /\ s \in Refreshes /\ sess[s] = "idle" /\ articles = "none"
  /\ articles' = s
  /\ sess' = [sess EXCEPT ![s] = "articles"]
  /\ UNCHANGED <<enabled, config, copy, pc, denials, removed, track>>

Read(s) ==
  /\ sess[s] \in {"idle", "articles"}
  /\ copy' = [copy EXCEPT ![s] = [enabled |-> enabled, config |-> config]]
  /\ sess' = [sess EXCEPT ![s] = "read"]
  /\ UNCHANGED <<enabled, config, pc, articles, denials, removed, track>>

NoCopy == [enabled |-> TRUE, config |-> Fresh]

\* The session ends, and its locks with it.
Release(s) ==
  /\ sess' = [sess EXCEPT ![s] = "idle"]
  /\ copy' = [copy EXCEPT ![s] = NoCopy]
  /\ articles' = IF articles = s THEN "none" ELSE articles

\* For comparison: the whole row is written back.
WriteRow(s, e, r, others, t) ==
  /\ sess[s] = "read" /\ ~SourceLocked
  /\ LET rewrites == others \/ r # copy[s].config
     IN /\ config' = IF rewrites THEN r ELSE config
        /\ track' = IF (rewrites \/ t # track) /\ copy[s].config # config
                       THEN [Start EXCEPT !.stale = TRUE] ELSE Seen(t)
  /\ enabled' = e
  /\ Release(s)
  /\ UNCHANGED pc

\* The flush waits for the row and writes the columns of the edited copy, e and
\* r, that differ from what was read; other keys of config may differ as well.
Write(s, e, r, others, t) ==
  /\ sess[s] = "read" /\ ~SourceLocked
  /\ LET rewrites == others \/ r # copy[s].config
     IN /\ config' = IF rewrites THEN r ELSE config
        /\ track' = IF (rewrites \/ t # track) /\ copy[s].config # config
                       THEN [Start EXCEPT !.stale = TRUE] ELSE Seen(t)
  /\ enabled' = IF e = copy[s].enabled THEN enabled ELSE e
  /\ Release(s)
  /\ UNCHANGED pc

\* mark_fetch_result; a failure counts in the health metrics, too.
MarkSuccess(s) ==
  /\ Write(s, copy[s].enabled, [copy[s].config EXCEPT !.refused = 0], FALSE, track)
  /\ UNCHANGED <<denials, removed>>

MarkFailure(s) ==
  /\ Write(s, copy[s].enabled, [copy[s].config EXCEPT !.refused = 0], TRUE, track)
  /\ UNCHANGED <<denials, removed>>

MarkUnauthorized(s) ==
  LET r == copy[s].config IN
  /\ Write(s, copy[s].enabled /\ ~Quarantines(r), Denied(r), TRUE, track)
  /\ denials' = Saturated(denials + 1, MaxUnauthorized)
  /\ removed' = (removed \/ (copy[s].enabled /\ Quarantines(r)))

\* record_source_quality, the defaults of ensure_default_sources and the health
\* score change keys that only the health of the source depends on.
RecordQuality(s) ==
  /\ Write(s, copy[s].enabled, copy[s].config, TRUE, track)
  /\ UNCHANGED <<denials, removed>>

\* /sourceconfig, /addsource and /removesource.
UpdateConfigField(s, value) ==
  /\ Write(s, copy[s].enabled, [copy[s].config EXCEPT !.polled = value], FALSE,
           [track EXCEPT !.asked = value])
  /\ UNCHANGED <<denials, removed>>

AddSource(s) ==
  /\ Write(s, TRUE, [copy[s].config EXCEPT !.refused = 0, !.quarantined = FALSE], FALSE,
           track)
  /\ removed' = FALSE
  /\ UNCHANGED denials

DisableSource ==
  /\ ~SourceLocked
  /\ enabled' = FALSE /\ removed' = TRUE
  /\ UNCHANGED <<config, copy, sess, pc, articles, denials, track>>

\* The transaction is rolled back.
SessionFails(s) ==
  /\ sess[s] # "idle"
  /\ Release(s)
  /\ UNCHANGED <<enabled, config, pc, denials, removed, track>>

\* The collector waits for the articles and their session for the source: the
\* database gives up one of the two.
DeadlockVictim(c, s) ==
  /\ pc[c] = "store" /\ articles = s /\ sess[s] = "read"
  /\ CollectorFails(c) \/ SessionFails(s)

-----------------------------------------------------------------------------
Older(r) == [r EXCEPT !.lease = IF @ > -MaxLag THEN @ - 1 ELSE @,
                      !.last = Saturated(@ + 1, Interval + MaxLag)]

Tick ==
  /\ config' = Older(config)
  /\ copy' = [s \in Sessions |->
                IF sess[s] = "read" THEN [copy[s] EXCEPT !.config = Older(@)] ELSE copy[s]]
  /\ track' = Seen([track EXCEPT !.claimed = Saturated(@ + 1, Interval + MaxLag)])
  /\ UNCHANGED <<enabled, sess, pc, articles, denials, removed>>

Finish(c) ==
  Superseded(c) \/ StoreFailure(c) \/ StoreUnauthorized(c) \/ LockSource(c) \/ StoreArticles(c)

EndSession(s) ==
  \/ /\ s \in Refreshes
     /\ MarkSuccess(s) \/ MarkFailure(s) \/ MarkUnauthorized(s) \/ RecordQuality(s)
  \/ /\ s \in Bots
     /\ AddSource(s) \/ \E value \in BOOLEAN : UpdateConfigField(s, value)

Next ==
  \/ \E c \in Collectors :
       (\E lag \in 0..MaxLag : Claim(c, lag)) \/ Finish(c) \/ CollectorFails(c)
  \/ \E s \in Sessions : UpsertArticles(s) \/ Read(s) \/ EndSession(s) \/ SessionFails(s)
  \/ \E c \in Collectors, s \in Sessions : DeadlockVictim(c, s)
  \/ DisableSource \/ Tick

Spec == Init /\ [][Next]_vars

Poll == \E c \in Collectors, lag \in 0..MaxLag : Claim(c, lag)

\* Requests end; sessions end; the loop polls every minute, and a refresh has
\* the row locked for moments only, so that one poll or other finds it free.
FairSpec ==
  /\ Spec
  /\ WF_vars(Tick) /\ SF_vars(Poll)
  /\ \A c \in Collectors : SF_vars(Finish(c))
  /\ \A s \in Sessions : WF_vars(sess[s] # "idle" /\ (Read(s) \/ EndSession(s)))
  /\ \A c \in Collectors, s \in Sessions : WF_vars(DeadlockVictim(c, s))

-----------------------------------------------------------------------------
(* Properties *)

\* A source is quarantined only after as many answers 401 as that takes.
QuarantineIsEarned ==
  /\ config.refused <= denials
  /\ config.quarantined => denials = MaxUnauthorized

\* A source that was removed, or quarantined, is not enabled by whoever read it
\* before; only adding it again does that.
RemovedStaysRemoved == removed => ~enabled

\* What collectors and sessions write back of the source, however they overlap,
\* never undoes a removal or invents a refusal (alerts/collector.py:_collect_source,
\* storage/repositories.py:mark_fetch_result).
RowIsSound == TypeOK /\ QuarantineIsEarned /\ RemovedStaysRemoved

\* The result of a fetch that outlived its lease never replaces a later one's.
SavedInClaimOrder == ~track.saved

\* The provider is not polled more often than its interval allows, but for the
\* lag of the clock a pass works with.
ClaimsAreSpaced == ~track.close

\* The setting the bot has confirmed is the one in the row.
SettingKept == track.asked = config.polled

\* Unless a session has acted on what had changed since it read it, the
\* lease does what it is there for, whoever else crashes, is late or works on
\* the same row.
LeaseIsKept == track.stale \/ (SavedInClaimOrder /\ ClaimsAreSpaced /\ SettingKept)

\* A source that stays enabled is polled for ever, although collectors die with
\* the lease in hand, deadlock with the refresh, and sessions write old leases
\* back.
KeepsPolling ==
  <>[](enabled /\ config.polled /\ ~config.quarantined) => []<><<Poll>>_vars
===============================================================================
