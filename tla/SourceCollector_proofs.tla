------------------------ MODULE SourceCollector_proofs ------------------------
(***************************************************************************)
(* Proofs about the row of a shared source, for any collectors, sessions,  *)
(* poll interval, lease, lag and bound of refusals.                        *)
(***************************************************************************)
EXTENDS SourceCollector, RefreshSystem, TLAPS, WellFoundedInduction

\* A copy of config that a session may write back is no worse than the row: it
\* counts no refusal that was not an answer.
Earned(r) ==
  /\ r.refused <= denials
  /\ r.quarantined => denials = MaxUnauthorized

\* Whoever stores has the row's token, and stores alone.
StoreInv ==
  /\ \A c \in Collectors : pc[c] = "store" => config.token = c
  /\ \A c, d \in Collectors : pc[c] = "store" /\ pc[d] = "store" => c = d

\* While what sessions write back is what they read, the token is that of the
\* newest claim and the row knows when that was made.
LeaseInv ==
  track.stale \/
    /\ config.token \in Collectors => track.newest = config.token
    /\ config.last <= track.claimed + MaxLag
    /\ LeaseIsKept

IInv ==
  /\ TypeOK
  /\ Earned(config) /\ \A s \in Sessions : Earned(copy[s].config)
  /\ RemovedStaysRemoved
  /\ StoreInv
  /\ LeaseInv

-----------------------------------------------------------------------------
(* Lemmas *)

\* What the assumption says of each constant.
LEMMA Constants ==
  /\ Interval \in Nat /\ Interval > 0 /\ Lease \in Nat /\ Lease > 0
  /\ MaxUnauthorized \in Nat /\ MaxUnauthorized > 0 /\ MaxLag \in Nat
  /\ "none" \notin Collectors /\ "old" \notin Collectors
BY CollectorAssumption DEF CollectorAssumption

\* Ages and counts that saturate.
LEMMA SaturatedType ==
  ASSUME NEW m \in Nat, NEW n \in 0..m
  PROVE  /\ Saturated(n, m) \in 0..m /\ Saturated(n, m) = n
         /\ Saturated(n + 1, m) \in 0..m
         /\ Saturated(n + 1, m) = IF n < m THEN n + 1 ELSE m
BY DEF Saturated

\* What a refusal makes of it.
LEMMA DeniedParts ==
  ASSUME NEW r \in Configs
  PROVE  /\ Denied(r).token = r.token /\ Denied(r).last = r.last
         /\ Denied(r).polled = r.polled /\ Denied(r).refused = Refused(r)
         /\ Denied(r).quarantined <=> r.quarantined \/ Quarantines(r)
BY DEF Denied, Configs

\* What the edits of a row make of its config.
LEMMA EditTypes ==
  ASSUME NEW r \in Configs
  PROVE  /\ \A c : Retired(r, c) \in Configs
         /\ Released(r) \in Configs
         /\ [r EXCEPT !.refused = 0] \in Configs
         /\ Denied(r) \in Configs
         /\ Older(r) \in Configs
         /\ \A v \in BOOLEAN : [r EXCEPT !.polled = v] \in Configs
         /\ [r EXCEPT !.refused = 0, !.quarantined = FALSE] \in Configs
<1>0. /\ 0 \in 0..MaxUnauthorized /\ -MaxLag \in (-MaxLag)..Lease
      /\ "none" \in Collectors \cup {"none", "old"} /\ "old" \in Collectors \cup {"none", "old"}
  BY Constants
<1>1. \A c : Retired(r, c) \in Configs
  BY DEF Retired, Configs
<1>2. Released(r) \in Configs /\ [r EXCEPT !.refused = 0] \in Configs
  BY <1>0 DEF Released, Configs
<1>3. Denied(r) \in Configs
  <2>1. Refused(r) \in 0..MaxUnauthorized /\ (r.quarantined \/ Quarantines(r)) \in BOOLEAN
    BY SaturatedType, Constants DEF Refused, Configs
  <2> QED BY <2>1 DEF Denied, Configs
<1>4. Older(r) \in Configs
  <2>1. Saturated(r.last + 1, Interval + MaxLag) \in Ages
    <3>1. Interval + MaxLag \in Nat /\ r.last \in 0..(Interval + MaxLag)
      BY Constants DEF Configs, Ages
    <3> QED BY <3>1, SaturatedType DEF Ages
  <2>2. (IF r.lease > -MaxLag THEN r.lease - 1 ELSE r.lease) \in (-MaxLag)..Lease
    BY Constants DEF Configs
  <2> QED BY <2>1, <2>2 DEF Older, Configs
<1>5. \A v \in BOOLEAN : [r EXCEPT !.polled = v] \in Configs
  BY DEF Configs
<1>6. [r EXCEPT !.refused = 0, !.quarantined = FALSE] \in Configs
  BY <1>0 DEF Configs
<1> QED BY <1>1, <1>2, <1>3, <1>4, <1>5, <1>6

\* A source that was just added.
LEMMA FreshType ==
  /\ Fresh \in Configs /\ NoCopy.config = Fresh /\ Fresh.refused = 0 /\ ~Fresh.quarantined
  /\ Start \in Track /\ Interval + MaxLag \in Ages /\ MaxLag \in Nat
<1>1. /\ 0 \in 0..MaxUnauthorized /\ -MaxLag \in (-MaxLag)..Lease
      /\ Interval + MaxLag \in 0..(Interval + MaxLag)
  BY Constants
<1>2. Fresh \in Configs
  BY <1>1 DEF Fresh, Configs, Ages
<1>3. Start \in Track
  BY <1>1 DEF Start, Track, Ages
<1> QED BY <1>1, <1>2, <1>3, Constants DEF NoCopy, Fresh, Ages

-----------------------------------------------------------------------------
(* Sessions *)

\* What a session's edit makes of its copy: token and times stay, no refusal is
\* invented, a setting is changed only as the bot confirms it, and nobody enables
\* what was removed.
SessionEdit(s, e, r, others, t) ==
  /\ Write(s, e, r, others, t)
  /\ r.token = copy[s].config.token /\ r.last = copy[s].config.last
  /\ \/ t = track /\ r.polled = copy[s].config.polled
     \/ t = [track EXCEPT !.asked = r.polled]
  /\ denials' \in 0..MaxUnauthorized /\ denials <= denials' /\ removed' \in BOOLEAN
  /\ r.refused <= denials' /\ (r.quarantined => denials' = MaxUnauthorized)
  /\ removed' => removed \/ ~enabled'
  /\ enabled' => enabled \/ ~removed'

\* The end of a session is an edit of the row like the others.
LEMMA EndSessionEdits ==
  ASSUME IInv, NEW s \in Sessions, EndSession(s)
  PROVE  \E e \in BOOLEAN, r \in Configs, others \in BOOLEAN, t \in Track :
           SessionEdit(s, e, r, others, t)
<1> DEFINE q == copy[s].config
           b == copy[s].enabled
<1>1. /\ q \in Configs /\ b \in BOOLEAN /\ enabled \in BOOLEAN /\ removed \in BOOLEAN
      /\ denials \in 0..MaxUnauthorized /\ track \in Track
      /\ q.refused <= denials /\ (q.quarantined => denials = MaxUnauthorized)
  BY DEF IInv, TypeOK, Earned
<1>2. q.refused \in 0..MaxUnauthorized /\ q.polled \in BOOLEAN
  BY <1>1 DEF Configs
<1>3. \A e, r, o, t : Write(s, e, r, o, t) => enabled' = IF e = b THEN enabled ELSE e
  BY DEF Write
<1>4. ASSUME UNCHANGED denials
      PROVE  /\ denials' \in 0..MaxUnauthorized /\ denials <= denials' /\ q.refused <= denials'
             /\ q.quarantined => denials' = MaxUnauthorized
  BY <1>1, <1>4, Constants
<1>5. ASSUME UNCHANGED <<enabled, removed>>
       PROVE  /\ removed' \in BOOLEAN /\ (removed' => removed \/ ~enabled')
              /\ (enabled' => enabled \/ ~removed')
  BY <1>1, <1>5
<1>6. CASE MarkSuccess(s) \/ MarkFailure(s)
  <2> DEFINE r == [q EXCEPT !.refused = 0]
  <2>1. PICK o \in BOOLEAN : Write(s, b, r, o, track) /\ UNCHANGED <<denials, removed>>
    BY <1>6 DEF MarkSuccess, MarkFailure
  <2>2. /\ r \in Configs /\ r.token = q.token /\ r.last = q.last /\ r.polled = q.polled
        /\ r.refused = 0 /\ r.quarantined = q.quarantined
    BY <1>1, EditTypes DEF Configs
  <2>3. enabled' = enabled
    BY <1>3, <2>1
  <2> HIDE DEF r
  <2>4. SessionEdit(s, b, r, o, track)
    BY <1>1, <2>1, <2>2, <2>3, Constants DEF SessionEdit
  <2> QED BY <1>1, <2>2, <2>4
<1>7. CASE MarkUnauthorized(s)
  <2> DEFINE r == Denied(q)
             e == b /\ ~Quarantines(q)
  <2>1. /\ Write(s, e, r, TRUE, track) /\ denials' = Saturated(denials + 1, MaxUnauthorized)
        /\ removed' = (removed \/ (b /\ Quarantines(q)))
    BY <1>7 DEF MarkUnauthorized
  <2>2. /\ r \in Configs /\ r.token = q.token /\ r.last = q.last /\ r.polled = q.polled
        /\ r.refused = Refused(q) /\ (r.quarantined <=> q.quarantined \/ Quarantines(q))
    BY <1>1, EditTypes, DeniedParts
  <2>3. /\ denials' = (IF denials < MaxUnauthorized THEN denials + 1 ELSE MaxUnauthorized)
        /\ Refused(q) = IF q.refused < MaxUnauthorized THEN q.refused + 1 ELSE MaxUnauthorized
        /\ Quarantines(q) <=> q.refused + 1 >= MaxUnauthorized
    BY <1>1, <1>2, <2>1, SaturatedType, Constants DEF Refused, Quarantines
  <2>4. /\ denials' \in 0..MaxUnauthorized /\ denials <= denials' /\ r.refused <= denials'
        /\ r.quarantined => denials' = MaxUnauthorized
    BY <1>1, <1>2, <2>2, <2>3, Constants
  <2>5. Quarantines(q) \in BOOLEAN
    BY DEF Quarantines
  <2>6. /\ removed' \in BOOLEAN /\ (removed' => removed \/ ~enabled') /\ (enabled' => enabled)
    BY <1>1, <1>3, <2>1, <2>5
  <2> HIDE DEF r
  <2>7. SessionEdit(s, e, r, TRUE, track)
    BY <2>1, <2>2, <2>4, <2>6 DEF SessionEdit
  <2> QED BY <1>1, <2>2, <2>5, <2>7
<1>8. CASE RecordQuality(s)
  <2>1. Write(s, b, q, TRUE, track) /\ UNCHANGED <<denials, removed>> /\ enabled' = enabled
    BY <1>3, <1>8 DEF RecordQuality
  <2>2. SessionEdit(s, b, q, TRUE, track)
    BY <1>4, <1>5, <2>1 DEF SessionEdit
  <2> QED BY <1>1, <2>2
<1>9. ASSUME NEW value \in BOOLEAN, UpdateConfigField(s, value)
      PROVE  \E e \in BOOLEAN, r \in Configs, others \in BOOLEAN, t \in Track :
               SessionEdit(s, e, r, others, t)
  <2> DEFINE r == [q EXCEPT !.polled = value]
             t == [track EXCEPT !.asked = value]
  <2>1. Write(s, b, r, FALSE, t) /\ UNCHANGED <<denials, removed>>
    BY <1>9 DEF UpdateConfigField
  <2>2. /\ r \in Configs /\ r.token = q.token /\ r.last = q.last /\ r.polled = value
        /\ r.refused = q.refused /\ r.quarantined = q.quarantined
    BY <1>1, EditTypes DEF Configs
  <2>3. t \in Track /\ t = [track EXCEPT !.asked = r.polled]
    BY <1>1, <2>2 DEF Track
  <2>4. enabled' = enabled
    BY <1>3, <2>1
  <2> HIDE DEF r, t
  <2>5. SessionEdit(s, b, r, FALSE, t)
    <3>1. r.refused <= denials' /\ (r.quarantined => denials' = MaxUnauthorized)
      BY <1>4, <2>1, <2>2
    <3> QED BY <1>4, <1>5, <2>1, <2>2, <2>3, <2>4, <3>1 DEF SessionEdit
  <2> QED BY <1>1, <2>2, <2>3, <2>5
<1>10. CASE AddSource(s)
  <2> DEFINE r == [q EXCEPT !.refused = 0, !.quarantined = FALSE]
  <2>1. Write(s, TRUE, r, FALSE, track) /\ removed' = FALSE /\ UNCHANGED denials
    BY <1>10 DEF AddSource
  <2>2. /\ r \in Configs /\ r.token = q.token /\ r.last = q.last /\ r.polled = q.polled
        /\ r.refused = 0 /\ ~r.quarantined
    BY <1>1, EditTypes DEF Configs
  <2> HIDE DEF r
  <2>3. SessionEdit(s, TRUE, r, FALSE, track)
    <3>1. 0 <= denials' /\ denials' \in 0..MaxUnauthorized /\ denials <= denials'
      BY <1>1, <2>1, Constants
    <3> QED BY <2>1, <2>2, <3>1 DEF SessionEdit
  <2> QED BY <1>1, <2>2, <2>3
<1> QED BY <1>6, <1>7, <1>8, <1>9, <1>10 DEF EndSession

\* A session that ends keeps nothing of the row.
LEMMA ReleaseKeeps ==
  ASSUME IInv, NEW s \in Sessions, Release(s)
  PROVE  /\ copy' \in [Sessions -> [enabled : BOOLEAN, config : Configs]]
         /\ sess' \in [Sessions -> {"idle", "articles", "read"}]
         /\ articles' \in Sessions \cup {"none"}
         /\ \A u \in Sessions : \/ copy'[u].config = copy[u].config
                                \/ copy'[u].config.refused = 0 /\ ~copy'[u].config.quarantined
<1>1. NoCopy \in [enabled : BOOLEAN, config : Configs]
  BY FreshType DEF NoCopy
<1> QED BY <1>1, FreshType DEF Release, IInv, TypeOK

\* A copy that counts no refusal, or is the copy it was, is as good as before.
LEMMA CopiesStay ==
  ASSUME IInv, denials' \in 0..MaxUnauthorized, denials <= denials',
         \A u \in Sessions : \/ copy'[u].config = copy[u].config
                             \/ /\ copy'[u].config.refused = copy[u].config.refused
                                /\ copy'[u].config.quarantined = copy[u].config.quarantined
                             \/ copy'[u].config.refused = 0 /\ ~copy'[u].config.quarantined
  PROVE  \A u \in Sessions : Earned(copy[u].config)'
<1> SUFFICES ASSUME NEW u \in Sessions PROVE Earned(copy[u].config)'
  OBVIOUS
<1>1. /\ Earned(copy[u].config) /\ copy[u].config.refused \in 0..MaxUnauthorized
      /\ denials \in 0..MaxUnauthorized
  BY DEF IInv, TypeOK, Configs
<1> QED BY <1>1, Constants DEF Earned

\* EndSession keeps the invariant.
LEMMA EndSessionInv == ASSUME IInv, NEW s \in Sessions, EndSession(s) PROVE IInv'
<1>1. PICK e \in BOOLEAN, r \in Configs, others \in BOOLEAN, t \in Track :
        SessionEdit(s, e, r, others, t)
  BY EndSessionEdits
<1>2. Write(s, e, r, others, t) /\ TypeOK
  BY <1>1 DEF SessionEdit, IInv
<1>3. /\ UNCHANGED pc /\ Release(s) /\ ~SourceLocked
      /\ enabled' \in BOOLEAN /\ config' \in {config, r}
      /\ track' \in Track
  BY <1>2, FreshType DEF Write, TypeOK, Seen, Track, Start
<1>4. TypeOK'
  BY <1>1, <1>2, <1>3, ReleaseKeeps DEF TypeOK, SessionEdit
<1>5. Earned(config)' /\ \A u \in Sessions : Earned(copy[u].config)'
  <2>1. Earned(config)'
    <3>1. /\ denials' \in Nat /\ denials \in 0..MaxUnauthorized /\ denials <= denials'
          /\ denials' <= MaxUnauthorized
          /\ r.refused <= denials' /\ (r.quarantined => denials' = MaxUnauthorized)
      BY <1>1, <1>2, Constants DEF SessionEdit, TypeOK
    <3>2. /\ config.refused <= denials /\ (config.quarantined => denials = MaxUnauthorized)
          /\ config.refused \in 0..MaxUnauthorized
      BY <1>2 DEF IInv, Earned, TypeOK, Configs
    <3> QED BY <1>3, <3>1, <3>2, Constants DEF Earned
  <2>2. denials' \in 0..MaxUnauthorized /\ denials <= denials'
    BY <1>1 DEF SessionEdit
  <2>3. \A u \in Sessions : \/ copy'[u].config = copy[u].config
                            \/ copy'[u].config.refused = 0 /\ ~copy'[u].config.quarantined
    BY <1>3, ReleaseKeeps
  <2>4. \A u \in Sessions : Earned(copy[u].config)'
    BY <2>2, <2>3, CopiesStay
  <2> QED BY <2>1, <2>4
<1>6. RemovedStaysRemoved'
  BY <1>1 DEF SessionEdit, IInv, RemovedStaysRemoved
<1>7. StoreInv'
  BY <1>3 DEF StoreInv, SourceLocked
<1>8. ASSUME ~track'.stale PROVE LeaseInv'
  <2> DEFINE q == copy[s].config
  <2>1. ~track.stale /\ track' = t
    BY <1>2, <1>8 DEF Write, Seen, Start
  <2>2. q = config \/ (UNCHANGED config /\ t = track)
    BY <1>2, <1>8 DEF Write, Start
  <2>3. /\ config.token \in Collectors => track.newest = config.token
        /\ config.last <= track.claimed + MaxLag
        /\ ~track.saved /\ ~track.close /\ track.asked = config.polled
    BY <2>1 DEF IInv, LeaseInv, LeaseIsKept, SavedInClaimOrder, ClaimsAreSpaced, SettingKept
  <2>4. CASE UNCHANGED config /\ t = track
    BY <2>1, <2>3, <2>4 DEF LeaseInv, LeaseIsKept, SavedInClaimOrder, ClaimsAreSpaced, SettingKept
  <2>5. CASE q = config
    <3>1. config' = r
      BY <1>2, <2>5 DEF Write
    <3>2. /\ t.newest = track.newest /\ t.claimed = track.claimed /\ t.saved = track.saved
          /\ t.close = track.close /\ t.asked = r.polled
      BY <1>1, <1>2, <2>3, <2>5 DEF SessionEdit, TypeOK, Track
    <3> QED BY <1>1, <2>1, <2>3, <2>5, <3>1, <3>2
            DEF SessionEdit, LeaseInv, LeaseIsKept, SavedInClaimOrder, ClaimsAreSpaced, SettingKept
  <2> QED BY <2>2, <2>4, <2>5
<1> QED BY <1>4, <1>5, <1>6, <1>7, <1>8 DEF IInv, LeaseInv

\* The steps of a session that do not write keep the invariant.
LEMMA SessionStep ==
  ASSUME IInv, NEW s \in Sessions, UpsertArticles(s) \/ Read(s) \/ SessionFails(s)
  PROVE  IInv'
<1>1. UNCHANGED <<enabled, config, pc, denials, removed, track>>
  BY DEF UpsertArticles, Read, SessionFails
<1>2. /\ copy' \in [Sessions -> [enabled : BOOLEAN, config : Configs]]
      /\ sess' \in [Sessions -> {"idle", "articles", "read"}]
      /\ articles' \in Sessions \cup {"none"}
      /\ \A u \in Sessions : Earned(copy[u].config)'
  <2>1. TypeOK /\ denials \in 0..MaxUnauthorized /\ denials <= denials' /\ denials' = denials
    BY <1>1, Constants DEF IInv, TypeOK
  <2>2. CASE UpsertArticles(s)
    <3>1. UNCHANGED copy
      BY <2>2 DEF UpsertArticles
    <3>2. \A u \in Sessions : Earned(copy[u].config)'
      BY <2>1, <3>1 DEF IInv, Earned
    <3> QED BY <2>1, <2>2, <3>1, <3>2 DEF UpsertArticles, TypeOK
  <2>3. CASE Read(s)
    <3>1. copy' = [copy EXCEPT ![s] = [enabled |-> enabled, config |-> config]] /\ Earned(config)
      BY <2>3 DEF Read, IInv
    <3>2. \A u \in Sessions : Earned(copy[u].config)'
      BY <2>1, <3>1 DEF IInv, TypeOK, Earned
    <3> QED BY <2>1, <2>3, <3>1, <3>2 DEF Read, TypeOK
  <2>4. CASE SessionFails(s)
    <3>1. Release(s)
      BY <2>4 DEF SessionFails
    <3>2. \A u \in Sessions : \/ copy'[u].config = copy[u].config
                              \/ copy'[u].config.refused = 0 /\ ~copy'[u].config.quarantined
      BY <3>1, ReleaseKeeps
    <3>3. \A u \in Sessions : Earned(copy[u].config)'
      BY <2>1, <3>2, CopiesStay
    <3> QED BY <3>1, <3>3, ReleaseKeeps
  <2> QED BY <2>2, <2>3, <2>4
<1>3. TypeOK' /\ Earned(config)'
  BY <1>1, <1>2 DEF IInv, TypeOK, Earned
<1>4. RemovedStaysRemoved' /\ StoreInv' /\ LeaseInv'
  BY <1>1 DEF IInv, RemovedStaysRemoved, StoreInv, LeaseInv, LeaseIsKept, SavedInClaimOrder,
     ClaimsAreSpaced, SettingKept
<1> QED BY <1>2, <1>3, <1>4 DEF IInv

-----------------------------------------------------------------------------
(* Collectors *)

\* A collector that is done with the source retires its token in the copies.
LEMMA LeaveKeeps ==
  ASSUME IInv, NEW c \in Collectors, Leave(c)
  PROVE  /\ pc' \in [Collectors -> {"idle", "fetch", "store"}]
         /\ \A d \in Collectors : pc'[d] = IF d = c THEN "idle" ELSE pc[d]
         /\ copy' \in [Sessions -> [enabled : BOOLEAN, config : Configs]]
         /\ \A u \in Sessions : /\ copy'[u].config.refused = copy[u].config.refused
                                /\ copy'[u].config.quarantined = copy[u].config.quarantined
<1>1. pc' = [pc EXCEPT ![c] = "idle"] /\ pc \in [Collectors -> {"idle", "fetch", "store"}]
  BY DEF Leave, IInv, TypeOK
<1>2. \A u \in Sessions : copy[u] \in [enabled : BOOLEAN, config : Configs]
  BY DEF IInv, TypeOK
<1>3. copy' = [u \in Sessions |-> [copy[u] EXCEPT !.config = Retired(@, c)]]
  BY DEF Leave, RetiredCopies
<1>4. ASSUME NEW r \in Configs
      PROVE  /\ Retired(r, c) \in Configs /\ Retired(r, c).refused = r.refused
             /\ Retired(r, c).quarantined = r.quarantined
  BY EditTypes DEF Retired, Configs
<1>5. ASSUME NEW u \in Sessions
      PROVE  /\ copy'[u] \in [enabled : BOOLEAN, config : Configs]
             /\ copy'[u].config = Retired(copy[u].config, c)
  BY <1>2, <1>3, <1>4
<1> QED BY <1>1, <1>2, <1>3, <1>4, <1>5

\* What a collector that leaves may do to the row: it gives its own token up.
LEMMA LeaveInv ==
  ASSUME IInv, NEW c \in Collectors, Leave(c), UNCHANGED <<sess, articles>>,
         config' \in Configs, enabled' \in BOOLEAN, removed' \in BOOLEAN,
         denials' \in 0..MaxUnauthorized, denials <= denials', Earned(config)',
         RemovedStaysRemoved', track' \in Track,
         config'.token = config.token \/ (config.token = c /\ config'.token \notin Collectors),
         config'.last = config.last, config'.polled = config.polled,
         track' = track \/ track' = Seen(track)
  PROVE  IInv'
<1>1. TypeOK'
  BY LeaveKeeps DEF IInv, TypeOK
<1>2. \A u \in Sessions : Earned(copy[u].config)'
  BY LeaveKeeps, CopiesStay
<1>3. track' = track
  BY DEF Seen
<1>4. StoreInv'
  BY LeaveKeeps DEF IInv, StoreInv
<1>5. LeaseInv'
  BY <1>3 DEF IInv, LeaseInv, LeaseIsKept, SavedInClaimOrder, ClaimsAreSpaced, SettingKept
<1> QED BY <1>1, <1>2, <1>4, <1>5 DEF IInv

\* Finish keeps the invariant.
LEMMA FinishInv == ASSUME IInv, NEW c \in Collectors, Finish(c) \/ CollectorFails(c) PROVE IInv'
<1>1. /\ config \in Configs /\ enabled \in BOOLEAN /\ removed \in BOOLEAN /\ track \in Track
      /\ denials \in 0..MaxUnauthorized /\ RemovedStaysRemoved
      /\ config.refused <= denials /\ (config.quarantined => denials = MaxUnauthorized)
  BY DEF IInv, TypeOK, Earned
<1>2. config.refused \in 0..MaxUnauthorized
  BY <1>1 DEF Configs
<1>3. /\ Released(config) \in Configs /\ Released(config).token = "none"
      /\ Released(config).last = config.last /\ Released(config).polled = config.polled
      /\ Released(config).refused = config.refused
      /\ Released(config).quarantined = config.quarantined
  BY <1>1, EditTypes DEF Released, Configs
<1>4. denials <= denials
  BY <1>1, Constants
<1>5. CASE Superseded(c)
  BY <1>1, <1>4, <1>5, LeaveInv DEF Superseded, RemovedStaysRemoved, Earned
<1>6. CASE StoreFailure(c) \/ StoreArticles(c)
  <2>1. /\ Leave(c) /\ UNCHANGED <<sess, articles, enabled, denials, removed>>
        /\ config' = [Released(config) EXCEPT !.refused = 0] /\ config.token = c
    BY <1>6 DEF StoreFailure, StoreArticles, Holds, IInv, StoreInv
  <2>2. /\ config' \in Configs /\ config'.token = "none" /\ config'.last = config.last
        /\ config'.polled = config.polled
        /\ config'.refused = 0 /\ config'.quarantined = config.quarantined
    BY <1>3, <2>1, EditTypes DEF Configs
  <2>3. track' = track
    <3>1. CASE StoreFailure(c)
      BY <3>1 DEF StoreFailure
    <3>2. CASE StoreArticles(c) /\ track.stale
      BY <3>2 DEF StoreArticles, Seen
    <3>3. CASE StoreArticles(c) /\ ~track.stale
      <4>1. track.newest = c /\ ~track.saved
        BY <2>1, <3>3 DEF IInv, LeaseInv, LeaseIsKept, SavedInClaimOrder
      <4>2. track' = [track EXCEPT !.saved = @ \/ track.newest # c]
        BY <3>3 DEF StoreArticles, Seen
      <4>3. track' = [track EXCEPT !.saved = FALSE] /\ track.saved = FALSE
        BY <1>1, <4>1, <4>2 DEF Track
      <4> QED BY <1>1, <4>3 DEF Track
    <3> QED BY <1>6, <3>1, <3>2, <3>3
  <2>4. Earned(config)' /\ RemovedStaysRemoved'
    BY <1>1, <2>1, <2>2, Constants DEF Earned, RemovedStaysRemoved
  <2> QED BY <1>1, <1>4, <2>1, <2>2, <2>3, <2>4, Constants, LeaveInv
<1>7. CASE StoreUnauthorized(c)
  <2> DEFINE r == Released(config)
  <2>1. /\ Leave(c) /\ UNCHANGED <<sess, articles, track>> /\ config.token = c
        /\ config' = Denied(r) /\ denials' = Saturated(denials + 1, MaxUnauthorized)
        /\ enabled' = (enabled /\ ~Quarantines(config))
        /\ removed' = (removed \/ Quarantines(config))
    BY <1>7 DEF StoreUnauthorized, Holds
  <2>2. Quarantines(config) \in BOOLEAN /\ (Quarantines(r) <=> Quarantines(config))
    BY <1>3 DEF Quarantines
  <2>3. /\ denials' = (IF denials < MaxUnauthorized THEN denials + 1 ELSE MaxUnauthorized)
        /\ Refused(r) = IF config.refused < MaxUnauthorized THEN config.refused + 1 ELSE MaxUnauthorized
        /\ Quarantines(config) <=> config.refused + 1 >= MaxUnauthorized
    <3>1. r.refused = config.refused
      BY <1>3
    <3> HIDE DEF r
    <3>2. denials \in 0..MaxUnauthorized /\ MaxUnauthorized \in Nat
      BY <1>1, Constants
    <3>3. denials' = Saturated(denials + 1, MaxUnauthorized)
      BY <2>1
    <3> QED BY <1>2, <3>1, <3>2, <3>3 DEF Refused, Quarantines, Saturated
  <2>4. /\ config' \in Configs /\ config'.token = "none" /\ config'.last = config.last
        /\ config'.polled = config.polled /\ config'.refused = Refused(r)
        /\ config'.quarantined <=> config.quarantined \/ Quarantines(config)
    <3> HIDE DEF r
    <3>1. r \in Configs
      BY <1>3 DEF r
    <3>2. /\ Denied(r) \in Configs /\ Denied(r).token = r.token /\ Denied(r).last = r.last
          /\ Denied(r).polled = r.polled /\ Denied(r).refused = Refused(r)
          /\ Denied(r).quarantined <=> r.quarantined \/ Quarantines(r)
      BY <3>1, EditTypes, DeniedParts
    <3> QED BY <1>3, <2>1, <2>2, <3>2 DEF r
  <2> HIDE DEF r
  <2>5. denials' \in 0..MaxUnauthorized /\ denials <= denials' /\ Earned(config)'
    BY <1>1, <1>2, <2>3, <2>4, Constants DEF Earned
  <2>6. enabled' \in BOOLEAN /\ removed' \in BOOLEAN /\ RemovedStaysRemoved'
    BY <1>1, <2>1, <2>2 DEF RemovedStaysRemoved
  <2> QED BY <1>1, <2>1, <2>4, <2>5, <2>6, Constants, LeaveInv
<1>8. CASE LockSource(c)
  <2>1. /\ pc' = [pc EXCEPT ![c] = "store"] /\ ~SourceLocked /\ config.token = c
        /\ UNCHANGED <<enabled, config, copy, sess, articles, denials, removed, track>>
    BY <1>8 DEF LockSource, Holds
  <2>2. TypeOK' /\ Earned(config)' /\ (\A u \in Sessions : Earned(copy[u].config)')
    BY <2>1 DEF IInv, TypeOK, Earned
  <2>3. StoreInv'
    BY <2>1 DEF IInv, TypeOK, StoreInv, SourceLocked
  <2> QED BY <2>1, <2>2, <2>3 DEF IInv, RemovedStaysRemoved, LeaseInv, LeaseIsKept,
             SavedInClaimOrder, ClaimsAreSpaced, SettingKept
<1>9. CASE CollectorFails(c)
  <2>1. /\ Leave(c) /\ UNCHANGED <<enabled, sess, articles, denials, removed, track>>
        /\ config' = Retired(config, c)
    BY <1>9 DEF CollectorFails
  <2>2. /\ config' \in Configs /\ config'.last = config.last /\ config'.polled = config.polled
        /\ config'.refused = config.refused /\ config'.quarantined = config.quarantined
        /\ config'.token = config.token \/ (config.token = c /\ config'.token = "old")
    BY <1>1, <2>1, EditTypes DEF Retired, Configs
  <2>3. Earned(config)' /\ RemovedStaysRemoved'
    BY <1>1, <2>1, <2>2 DEF Earned, RemovedStaysRemoved
  <2> QED BY <1>1, <1>4, <2>1, <2>2, <2>3, Constants, LeaveInv
<1> QED BY <1>5, <1>6, <1>7, <1>8, <1>9 DEF Finish

\* A claim comes when the row says that the interval is over, and the row knows.
LEMMA ClaimInv ==
  ASSUME IInv, NEW c \in Collectors, NEW lag \in 0..MaxLag, Claim(c, lag)
  PROVE  IInv'
<1>1. /\ config \in Configs /\ track \in Track /\ TypeOK /\ RemovedStaysRemoved
      /\ ~SourceLocked /\ Collectible(lag)
      /\ config' = [config EXCEPT !.token = c, !.lease = Lease - lag, !.last = lag]
      /\ pc' = [pc EXCEPT ![c] = "fetch"]
      /\ UNCHANGED <<enabled, copy, sess, articles, denials, removed>>
  BY DEF IInv, TypeOK, Claim
<1>2. lag \in Ages /\ lag \in Nat /\ 0 \in Ages /\ Lease - lag \in (-MaxLag)..Lease
  BY Constants DEF Ages
<1>3. /\ config' \in Configs /\ config'.token = c /\ config'.last = lag
      /\ config'.polled = config.polled /\ config'.refused = config.refused
      /\ config'.quarantined = config.quarantined
  BY <1>1, <1>2 DEF Configs
<1> DEFINE close == track.close \/ track.claimed + MaxLag < Interval
           t == [track EXCEPT !.claimed = 0, !.newest = c, !.close = close]
<1>4. close \in BOOLEAN /\ track' = IF track.stale THEN track ELSE t
  BY <1>1 DEF Claim, Seen, Track
<1>5. t \in Track /\ t.claimed = 0 /\ t.newest = c /\ t.close = close /\ t.saved = track.saved
      /\ t.asked = track.asked /\ t.stale = track.stale
  <2> HIDE DEF close
  <2> QED BY <1>1, <1>2, <1>4 DEF Track
<1> HIDE DEF t
<1>6. TypeOK'
  BY <1>1, <1>3, <1>4, <1>5 DEF TypeOK
<1>7. Earned(config)' /\ (\A u \in Sessions : Earned(copy[u].config)') /\ RemovedStaysRemoved'
  BY <1>1, <1>3 DEF IInv, Earned, RemovedStaysRemoved
<1>8. StoreInv'
  BY <1>1, <1>3 DEF StoreInv, SourceLocked, TypeOK
<1>9. ASSUME ~track'.stale PROVE LeaseInv'
  <2>1. /\ ~track.stale /\ track' = t
    BY <1>4, <1>5, <1>9
  <2>2. /\ config.last <= track.claimed + MaxLag
        /\ ~track.saved /\ ~track.close /\ track.asked = config.polled
    BY <2>1 DEF IInv, LeaseInv, LeaseIsKept, SavedInClaimOrder, ClaimsAreSpaced, SettingKept
  <2>3. ~close
    <3>1. /\ config.last - lag >= Interval /\ config.last \in Nat /\ track.claimed \in Nat
      BY <1>1, Constants DEF Collectible, Configs, Track, Ages
    <3> QED BY <1>2, <2>2, <3>1, Constants
  <2>4. lag <= 0 + MaxLag
    BY <1>2, Constants
  <2> QED BY <1>3, <1>5, <2>1, <2>2, <2>3, <2>4
          DEF LeaseInv, LeaseIsKept, SavedInClaimOrder, ClaimsAreSpaced, SettingKept
<1> QED BY <1>6, <1>7, <1>8, <1>9 DEF IInv, LeaseInv

-----------------------------------------------------------------------------
(* Time, and the row's removal *)

\* Tick keeps the invariant.
LEMMA TickInv == ASSUME IInv, Tick PROVE IInv'
<1>1. /\ config \in Configs /\ track \in Track /\ TypeOK
      /\ config' = Older(config)
      /\ UNCHANGED <<enabled, sess, pc, articles, denials, removed>>
  BY DEF IInv, TypeOK, Tick
<1>2. ASSUME NEW r \in Configs
      PROVE  /\ Older(r) \in Configs /\ Older(r).token = r.token /\ Older(r).polled = r.polled
             /\ Older(r).refused = r.refused /\ Older(r).quarantined = r.quarantined
             /\ Older(r).last = Saturated(r.last + 1, Interval + MaxLag)
  BY EditTypes DEF Older, Configs
<1>3. ASSUME NEW u \in Sessions
      PROVE  /\ copy'[u] \in [enabled : BOOLEAN, config : Configs]
             /\ copy'[u].config.refused = copy[u].config.refused
             /\ copy'[u].config.quarantined = copy[u].config.quarantined
  <2>1. copy[u] \in [enabled : BOOLEAN, config : Configs]
    BY <1>1 DEF TypeOK
  <2>2. copy'[u] = IF sess[u] = "read" THEN [copy[u] EXCEPT !.config = Older(@)] ELSE copy[u]
    BY DEF Tick
  <2> QED BY <1>2, <2>1, <2>2
<1>4. copy' \in [Sessions -> [enabled : BOOLEAN, config : Configs]]
  BY <1>3 DEF Tick
<1> DEFINE a == Saturated(track.claimed + 1, Interval + MaxLag)
           t == [track EXCEPT !.claimed = a]
<1>5. /\ track.claimed \in 0..(Interval + MaxLag) /\ config.last \in 0..(Interval + MaxLag)
      /\ Interval + MaxLag \in Nat
  BY <1>1, Constants DEF Track, Configs, Ages
<1>6. /\ a \in Ages
      /\ a = IF track.claimed < Interval + MaxLag THEN track.claimed + 1 ELSE Interval + MaxLag
      /\ config'.last = IF config.last < Interval + MaxLag THEN config.last + 1 ELSE Interval + MaxLag
  BY <1>1, <1>2, <1>5, SaturatedType DEF Ages
<1>7. track' = IF track.stale THEN track ELSE t
  BY DEF Tick, Seen
<1> HIDE DEF a
<1>8. /\ t \in Track /\ t.claimed = a /\ t.newest = track.newest /\ t.close = track.close
      /\ t.saved = track.saved /\ t.asked = track.asked /\ t.stale = track.stale
  BY <1>1, <1>6 DEF Track
<1> HIDE DEF t
<1>9. TypeOK'
  BY <1>1, <1>2, <1>4, <1>7, <1>8 DEF TypeOK
<1>10. /\ Earned(config)' /\ (\A u \in Sessions : Earned(copy[u].config)')
       /\ RemovedStaysRemoved' /\ StoreInv'
  BY <1>1, <1>2, <1>3 DEF IInv, Earned, RemovedStaysRemoved, StoreInv
<1>11. ASSUME ~track'.stale PROVE LeaseInv'
  <2>1. /\ ~track.stale /\ track' = t
    BY <1>7, <1>8, <1>11
  <2>2. /\ config.token \in Collectors => track.newest = config.token
        /\ config.last <= track.claimed + MaxLag
        /\ ~track.saved /\ ~track.close /\ track.asked = config.polled
    BY <2>1 DEF IInv, LeaseInv, LeaseIsKept, SavedInClaimOrder, ClaimsAreSpaced, SettingKept
  <2>3. config'.last <= a + MaxLag
    BY <1>5, <1>6, <2>2, Constants
  <2> QED BY <1>1, <1>2, <1>8, <2>1, <2>2, <2>3
          DEF LeaseInv, LeaseIsKept, SavedInClaimOrder, ClaimsAreSpaced, SettingKept
<1> QED BY <1>9, <1>10, <1>11 DEF IInv, LeaseInv

\* DisableSource and stuttering keep the invariant.
LEMMA DisableInv == ASSUME IInv, DisableSource \/ UNCHANGED vars PROVE IInv'
<1>1. UNCHANGED <<config, copy, sess, pc, articles, denials, track>>
  BY DEF DisableSource, vars
<1>2. enabled' \in BOOLEAN /\ removed' \in BOOLEAN /\ RemovedStaysRemoved'
  <2>1. CASE DisableSource
    BY <1>1, <2>1, Zenon DEF DisableSource, RemovedStaysRemoved
  <2>2. CASE UNCHANGED vars
    BY <2>2, Zenon DEF vars, IInv, TypeOK, RemovedStaysRemoved
  <2> QED BY <2>1, <2>2
<1> QED BY <1>1, <1>2 DEF IInv, TypeOK, Earned, StoreInv, LeaseInv, LeaseIsKept,
           SavedInClaimOrder, ClaimsAreSpaced, SettingKept

-----------------------------------------------------------------------------
(* The inductive invariant and what follows from it *)

\* The invariant holds at first.
LEMMA InitInv == Init => IInv
<1> SUFFICES ASSUME Init PROVE IInv
  OBVIOUS
<1>1. /\ 0 \in 0..MaxUnauthorized /\ 0 <= 0
  BY Constants
<1>2. Earned(Fresh) /\ \A u \in Sessions : Earned(copy[u].config)
  BY <1>1, FreshType DEF Init, Earned
<1>3. TypeOK
  BY <1>1, FreshType DEF Init, TypeOK
<1>4. StoreInv /\ RemovedStaysRemoved
  BY DEF Init, StoreInv, RemovedStaysRemoved
<1>5. LeaseInv
  BY Constants DEF Init, LeaseInv, LeaseIsKept, SavedInClaimOrder, ClaimsAreSpaced, SettingKept,
     Start, Fresh
<1> QED BY <1>2, <1>3, <1>4, <1>5 DEF IInv, Init

\* Every step keeps the invariant.
LEMMA NextInv == IInv /\ [Next]_vars => IInv'
<1> SUFFICES ASSUME IInv, [Next]_vars PROVE IInv'
  OBVIOUS
<1>1. ASSUME NEW c \in Collectors,
             (\E lag \in 0..MaxLag : Claim(c, lag)) \/ Finish(c) \/ CollectorFails(c)
      PROVE  IInv'
  BY <1>1, ClaimInv, FinishInv
<1>2. ASSUME NEW s \in Sessions, UpsertArticles(s) \/ Read(s) \/ EndSession(s) \/ SessionFails(s)
      PROVE  IInv'
  BY <1>2, SessionStep, EndSessionInv
<1>3. ASSUME NEW c \in Collectors, NEW s \in Sessions, DeadlockVictim(c, s) PROVE IInv'
  BY <1>3, FinishInv, SessionStep DEF DeadlockVictim
<1> QED BY <1>1, <1>2, <1>3, TickInv, DisableInv DEF Next

\* The counts of every copy of the row are earned, and as long as sessions write
\* back what they read, the row knows the newest claim.
THEOREM SourceInvariant == Spec => []IInv
<1> QED BY InitInv, NextInv, PTL DEF Spec

\* No overlap of collectors and sessions undoes a removal or invents a refusal.
THEOREM SoundRow == Spec => []RowIsSound
<1>1. IInv => RowIsSound
  BY DEF IInv, RowIsSound, QuarantineIsEarned, Earned
<1> QED BY <1>1, SourceInvariant, PTL

\* Unless a session has acted on what had changed since it read it, results are
\* stored in the order of the claims, claims are an interval apart but for the lag
\* of a pass, and the setting that was confirmed is in the row.
THEOREM KeptLease == Spec => []LeaseIsKept
<1>1. IInv => LeaseIsKept
  BY DEF IInv, LeaseInv, LeaseIsKept
<1> QED BY <1>1, SourceInvariant, PTL

-----------------------------------------------------------------------------
(***************************************************************************)
(* The refreshes that read the sources and store their articles (module    *)
(* Refresh), for any pipelines, market prices, cutoff and failures.        *)
(***************************************************************************)
\* Two refreshes have begun together, or one outlived its row.
Collided == "race" \in excuses \/ "late" \in excuses

\* A refresh past its first node has a row, but for the mentions of a research.
RowInv ==
  \A p \in R!Processes :
    /\ job[p] # "none" => place[p] \in R!Nodes \ {"load_due_sources"}
    /\ place[p] \in R!Nodes \ {"load_due_sources"} /\ job[p] = "none" =>
         p = Bot /\ place[p] \in {"extract_mentions", "saving"} /\ "research" \in excuses
    /\ job[p] = "abandoned" => "late" \in excuses

\* Two refreshes have rows, or one begins beside a row, only after a collision.
OverlapInv ==
  \A p, q \in R!Processes :
    p # q /\ job[q] # "none" /\ (job[p] # "none" \/ place[p] = "load_due_sources") => Collided

\* A process works from a text only while a call for it is out; a summary or
\* mentions that are there already, of the text it works from, have a cause.
TextInv ==
  \A p \in R!Processes :
    /\ reading[p] # "none" => place[p] \in {"embedding", "summarizing", "saving"}
    /\ place[p] = "summarizing" /\ reading[p] = "current" /\ summary => Collided
    /\ place[p] = "saving" /\ reading[p] = "current" /\ mentions > 0 => excuses # {}

\* The inductive invariant of the refreshes.
RefreshInv ==
  /\ R!EmbeddingsAreCurrent
  /\ RowInv /\ OverlapInv /\ TextInv
  /\ ~blamed
  /\ kind[Loop] \in R!Names

\* A set of numbers has a least one.
LEMMA LeastPlace ==
  ASSUME NEW S \in SUBSET Nat, S # {}
  PROVE  R!Min(S) \in S /\ \A y \in S : R!Min(S) <= y
<1>1. PICK x \in S : \A y \in S : ~ (<<y, x>> \in OpToRel(<, Nat))
  BY NatLessThanWellFounded, WFMin
<1>2. \A y \in S : x \in Nat /\ y \in Nat /\ <<y, x>> \in Nat \X Nat
  OBVIOUS
<1>3. \A y \in S : ~(y < x)
  BY <1>1, <1>2 DEF OpToRel
<1>4. \A y \in S : x <= y
  BY <1>2, <1>3
<1>5. \E z \in S : \A y \in S : z <= y
  BY <1>4
<1> QED BY <1>5 DEF R!Min

\* The pipeline that is run next is one of those that were due.
LEMMA MinDue ==
  ASSUME R!Settings, R!TypeOK, queue # {}
  PROVE  R!Min(queue) \in DOMAIN Pipelines /\ Pipelines[R!Min(queue)] \in R!Kinds
<1>1. queue \subseteq Nat
  BY DEF R!TypeOK, R!Settings
<1> QED BY <1>1, LeastPlace DEF R!TypeOK, R!Kinds, R!Names

\* The texts a process may work from.
LEMMA NoText == R!Texts = {"none", "current", "former"} /\ "none" \in R!Texts
BY DEF R!Texts

\* A check that finds rows stale closes them, and that can only add a cause.
LEMMA RecoverType ==
  ASSUME R!TypeOK, R!RecoverStale
  PROVE  /\ job' \in [R!Processes -> {"none", "running", "abandoned"}]
         /\ age' = age /\ left' \subseteq left
         /\ excuses' \subseteq {"race", "late", "research"} /\ excuses \subseteq excuses'
<1>1. left' \subseteq left
  BY DEF R!RecoverStale, R!Fresh
<1>2. job' \in [R!Processes -> {"none", "running", "abandoned"}]
  BY DEF R!RecoverStale, R!TypeOK
<1>3. excuses' \subseteq {"race", "late", "research"} /\ excuses \subseteq excuses' /\ age' = age
  BY DEF R!RecoverStale, R!TypeOK
<1> QED BY <1>1, <1>2, <1>3

\* What a process does as it leaves the graph.
LEMMA LeaveType ==
  ASSUME R!TypeOK, NEW p \in R!Processes, NEW to, R!Leave(p, to)
  PROVE  excuses' \subseteq {"race", "late", "research"} /\ place' = [place EXCEPT ![p] = to]
BY DEF R!Leave, R!TypeOK, R!Goto

\* The tick goes on to its next pipeline.
LEMMA NextPipelineStep ==
  ASSUME R!Settings, RefreshInv, R!NextPipeline
  PROVE  RefreshInv'
<1>1. R!TypeOK'
  <2>1. place' \in [R!Processes -> R!Nodes \cup {"idle", "next", "after"}]
    BY DEF RefreshInv, R!EmbeddingsAreCurrent, R!TypeOK, R!Nodes, R!NextPipeline, R!Goto
  <2>0. queue # {} => Pipelines[R!Min(queue)] \in R!Kinds
    BY MinDue DEF RefreshInv, R!EmbeddingsAreCurrent
  <2>2. kind' \in [R!Processes -> R!Kinds]
    BY <2>0 DEF RefreshInv, R!EmbeddingsAreCurrent, R!TypeOK, R!NextPipeline
  <2>3. /\ job' \in [R!Processes -> {"none", "running", "abandoned"}]
        /\ age' \in [R!Processes -> R!Ages] /\ left' \subseteq R!Ages
    BY RecoverType DEF RefreshInv, R!EmbeddingsAreCurrent, R!TypeOK, R!NextPipeline
  <2>4. /\ queue' \subseteq DOMAIN Pipelines /\ ran' \subseteq R!Names
        /\ rested' \subseteq R!Names /\ slept' \in 0..1
    BY DEF RefreshInv, R!EmbeddingsAreCurrent, R!TypeOK, R!NextPipeline
  <2>5. /\ {embedding', summaryEmbedding'} \subseteq R!Texts /\ summary' \in BOOLEAN
        /\ mentions' \in 0..2
    BY DEF RefreshInv, R!EmbeddingsAreCurrent, R!TypeOK, R!NextPipeline, R!derived
  <2>6. reading' \in [R!Processes -> R!Texts]
    BY DEF RefreshInv, R!EmbeddingsAreCurrent, R!TypeOK, R!NextPipeline
  <2>7. /\ excuses' \subseteq {"race", "late", "research"} /\ blamed' \in BOOLEAN
        /\ rowless' \in BOOLEAN
    BY RecoverType DEF RefreshInv, R!EmbeddingsAreCurrent, R!TypeOK, R!NextPipeline
  <2> QED BY <2>1, <2>2, <2>3, <2>4, <2>5, <2>6, <2>7 DEF R!TypeOK
<1>2. ("former" \notin {embedding, summaryEmbedding})'
  BY DEF RefreshInv, R!EmbeddingsAreCurrent, R!NextPipeline, R!derived
<1>3. RowInv'
  BY DEF RefreshInv, RowInv, R!Nodes, R!TypeOK, R!EmbeddingsAreCurrent, R!NextPipeline,
     R!RecoverStale, R!Stale, R!Goto
<1>4. OverlapInv'
  BY DEF RefreshInv, RowInv, OverlapInv, Collided, R!TypeOK, R!EmbeddingsAreCurrent,
     R!NextPipeline, R!RecoverStale, R!HasRunningJob
<1>5. TextInv'
  BY DEF RefreshInv, TextInv, Collided, R!TypeOK, R!EmbeddingsAreCurrent, R!NextPipeline,
     R!RecoverStale, R!Goto, R!derived
<1>6. ~blamed'
  BY DEF RefreshInv, R!NextPipeline
<1>7. kind'[Loop] \in R!Names
  BY MinDue DEF RefreshInv, R!EmbeddingsAreCurrent, R!TypeOK, R!Names, R!NextPipeline
<1> QED BY <1>1, <1>2, <1>3, <1>4, <1>5, <1>6, <1>7 DEF RefreshInv, R!EmbeddingsAreCurrent

\* /refresh is allowed by the query.
LEMMA ManualStep ==
  ASSUME R!Settings, RefreshInv, NEW n \in R!Kinds, R!Manual(n)
  PROVE  RefreshInv'
<1>1. R!TypeOK'
  <2>1. place' \in [R!Processes -> R!Nodes \cup {"idle", "next", "after"}]
    BY DEF RefreshInv, R!EmbeddingsAreCurrent, R!TypeOK, R!Nodes, R!Manual, R!Goto
  <2>2. kind' \in [R!Processes -> R!Kinds]
    BY DEF RefreshInv, R!EmbeddingsAreCurrent, R!TypeOK, R!Manual
  <2>3. /\ job' \in [R!Processes -> {"none", "running", "abandoned"}]
        /\ age' \in [R!Processes -> R!Ages] /\ left' \subseteq R!Ages
    BY RecoverType DEF RefreshInv, R!EmbeddingsAreCurrent, R!TypeOK, R!Manual
  <2>4. /\ queue' \subseteq DOMAIN Pipelines /\ ran' \subseteq R!Names
        /\ rested' \subseteq R!Names /\ slept' \in 0..1
    BY DEF RefreshInv, R!EmbeddingsAreCurrent, R!TypeOK, R!Manual, R!tickVars
  <2>5. /\ {embedding', summaryEmbedding'} \subseteq R!Texts /\ summary' \in BOOLEAN
        /\ mentions' \in 0..2
    BY DEF RefreshInv, R!EmbeddingsAreCurrent, R!TypeOK, R!Manual, R!derived
  <2>6. reading' \in [R!Processes -> R!Texts]
    BY DEF RefreshInv, R!EmbeddingsAreCurrent, R!TypeOK, R!Manual
  <2>7. /\ excuses' \subseteq {"race", "late", "research"} /\ blamed' \in BOOLEAN
        /\ rowless' \in BOOLEAN
    BY RecoverType DEF RefreshInv, R!EmbeddingsAreCurrent, R!TypeOK, R!Manual
  <2> QED BY <2>1, <2>2, <2>3, <2>4, <2>5, <2>6, <2>7 DEF R!TypeOK
<1>2. ("former" \notin {embedding, summaryEmbedding})'
  BY DEF RefreshInv, R!EmbeddingsAreCurrent, R!Manual, R!derived
<1>3. RowInv'
  BY DEF RefreshInv, RowInv, R!Nodes, R!TypeOK, R!EmbeddingsAreCurrent, R!Manual, R!RecoverStale,
     R!Stale, R!Goto
<1>4. OverlapInv'
  BY DEF RefreshInv, RowInv, OverlapInv, Collided, R!TypeOK, R!EmbeddingsAreCurrent, R!Manual,
     R!RecoverStale, R!HasRunningJob
<1>5. TextInv'
  BY DEF RefreshInv, TextInv, Collided, R!TypeOK, R!EmbeddingsAreCurrent, R!Manual,
     R!RecoverStale, R!Goto, R!derived
<1>6. ~blamed'
  BY DEF RefreshInv, R!Manual
<1>7. kind'[Loop] \in R!Names
  BY DEF R!Settings, RefreshInv, R!EmbeddingsAreCurrent, R!TypeOK, R!Processes, R!Manual
<1> QED BY <1>1, <1>2, <1>3, <1>4, <1>5, <1>6, <1>7 DEF RefreshInv, R!EmbeddingsAreCurrent

\* A research extracts mentions without a row.
LEMMA ResearchStep ==
  ASSUME R!Settings, RefreshInv, R!Research
  PROVE  RefreshInv'
<1>1. R!TypeOK'
  BY DEF RefreshInv, R!TypeOK, R!Nodes, R!EmbeddingsAreCurrent, R!Research, R!Goto, R!jobVars,
     R!tickVars, R!derived
<1>2. ("former" \notin {embedding, summaryEmbedding})'
  BY DEF RefreshInv, R!EmbeddingsAreCurrent, R!Research, R!derived
<1>3. RowInv'
  BY DEF RefreshInv, RowInv, R!Nodes, R!Research, R!Goto, R!jobVars
<1>4. OverlapInv'
  BY DEF RefreshInv, R!Processes, RowInv, OverlapInv, R!Nodes, R!Research, R!Goto, R!jobVars
<1>5. TextInv'
  BY DEF RefreshInv, TextInv, Collided, R!Research, R!Goto, R!derived
<1>6. ~blamed'
  BY DEF RefreshInv, R!Research
<1>7. kind'[Loop] \in R!Names
  BY DEF RefreshInv, R!Research
<1> QED BY <1>1, <1>2, <1>3, <1>4, <1>5, <1>6, <1>7 DEF RefreshInv, R!EmbeddingsAreCurrent

\* The row is inserted, whatever has begun since the query.
LEMMA LoadDueSourcesStep ==
  ASSUME R!Settings, RefreshInv, NEW p \in R!Processes, R!LoadDueSources(p)
  PROVE  RefreshInv'
<1>1. R!TypeOK'
  BY DEF R!Settings, RefreshInv, R!TypeOK, R!Nodes, R!Ages, R!EmbeddingsAreCurrent,
     R!LoadDueSources, R!Goto, R!tickVars, R!derived
<1>2. ("former" \notin {embedding, summaryEmbedding})'
  BY DEF RefreshInv, R!EmbeddingsAreCurrent, R!LoadDueSources, R!derived
<1>3. RowInv'
  BY DEF RefreshInv, RowInv, R!Nodes, R!TypeOK, R!EmbeddingsAreCurrent, R!LoadDueSources, R!Goto
<1>4. OverlapInv'
  BY DEF RefreshInv, OverlapInv, Collided, R!LoadDueSources, R!Goto
<1>5. TextInv'
  BY DEF RefreshInv, RowInv, OverlapInv, TextInv, R!Nodes, Collided, R!LoadDueSources, R!Goto
<1>6. ~blamed'
  BY DEF RefreshInv, R!LoadDueSources
<1>7. kind'[Loop] \in R!Names
  BY DEF RefreshInv, R!LoadDueSources
<1> QED BY <1>1, <1>2, <1>3, <1>4, <1>5, <1>6, <1>7 DEF RefreshInv, R!EmbeddingsAreCurrent

\* A refresh fails before it has a row.
LEMMA LoadFailsStep ==
  ASSUME R!Settings, RefreshInv, NEW p \in R!Processes, R!LoadFails(p)
  PROVE  RefreshInv'
<1>1. R!TypeOK'
  BY DEF R!Settings, RefreshInv, R!TypeOK, R!EmbeddingsAreCurrent, R!LoadFails, R!EndRowless, R!Leave, R!Goto,
     R!jobVars, R!tickVars, R!derived
<1>2. ("former" \notin {embedding, summaryEmbedding})'
  BY DEF RefreshInv, R!EmbeddingsAreCurrent, R!LoadFails, R!derived
<1>3. RowInv'
  BY DEF RefreshInv, RowInv, R!Nodes, R!LoadFails, R!EndRowless, R!Leave, R!Goto, R!Working, R!jobVars
<1>4. OverlapInv'
  BY DEF RefreshInv, R!Processes, RowInv, OverlapInv, R!TypeOK, R!EmbeddingsAreCurrent,
     R!LoadFails, R!EndRowless, R!Leave, R!Goto, R!jobVars
<1>5. TextInv'
  BY DEF RefreshInv, RowInv, OverlapInv, TextInv, R!Nodes, Collided, R!LoadFails, R!EndRowless, R!Leave,
     R!Goto, R!Working
<1>6. ~blamed'
  BY DEF RefreshInv, R!LoadFails
<1>7. kind'[Loop] \in R!Names
  BY DEF RefreshInv, R!LoadFails
<1> QED BY <1>1, <1>2, <1>3, <1>4, <1>5, <1>6, <1>7 DEF RefreshInv, R!EmbeddingsAreCurrent

\* The articles are fetched.
LEMMA FetchParallelStep ==
  ASSUME R!Settings, RefreshInv, NEW p \in R!Processes, R!FetchParallel(p)
  PROVE  RefreshInv'
<1>1. R!TypeOK'
  BY DEF RefreshInv, R!TypeOK, R!Nodes, R!EmbeddingsAreCurrent, R!FetchParallel, R!Goto,
     R!jobVars, R!tickVars, R!derived
<1>2. ("former" \notin {embedding, summaryEmbedding})'
  BY DEF RefreshInv, R!EmbeddingsAreCurrent, R!FetchParallel, R!derived
<1>3. RowInv'
  BY DEF RefreshInv, RowInv, R!Nodes, R!FetchParallel, R!Goto, R!jobVars
<1>4. OverlapInv'
  BY DEF RefreshInv, OverlapInv, Collided, R!FetchParallel, R!Goto, R!jobVars
<1>5. TextInv'
  BY DEF RefreshInv, RowInv, OverlapInv, TextInv, R!Nodes, Collided, R!FetchParallel, R!Goto
<1>6. ~blamed'
  BY DEF RefreshInv, R!FetchParallel
<1>7. kind'[Loop] \in R!Names
  BY DEF RefreshInv, R!FetchParallel
<1> QED BY <1>1, <1>2, <1>3, <1>4, <1>5, <1>6, <1>7 DEF RefreshInv, R!EmbeddingsAreCurrent

\* The articles are stored.
LEMMA NormalizeDedupeStep ==
  ASSUME R!Settings, RefreshInv, NEW p \in R!Processes, R!NormalizeDedupe(p)
  PROVE  RefreshInv'
<1>1. R!TypeOK'
  <2>1. place' \in [R!Processes -> R!Nodes \cup {"idle", "next", "after"}]
    BY DEF RefreshInv, R!EmbeddingsAreCurrent, R!TypeOK, R!Nodes, R!NormalizeDedupe, R!Goto
  <2>2. kind' \in [R!Processes -> R!Kinds]
    BY DEF RefreshInv, R!EmbeddingsAreCurrent, R!TypeOK, R!NormalizeDedupe
  <2>3. /\ job' \in [R!Processes -> {"none", "running", "abandoned"}]
        /\ age' \in [R!Processes -> R!Ages] /\ left' \subseteq R!Ages
    BY DEF RefreshInv, R!EmbeddingsAreCurrent, R!TypeOK, R!NormalizeDedupe, R!jobVars
  <2>4. /\ queue' \subseteq DOMAIN Pipelines /\ ran' \subseteq R!Names
        /\ rested' \subseteq R!Names /\ slept' \in 0..1
    BY DEF RefreshInv, R!EmbeddingsAreCurrent, R!TypeOK, R!NormalizeDedupe, R!tickVars
  <2>5. /\ {embedding', summaryEmbedding'} \subseteq R!Texts /\ summary' \in BOOLEAN
        /\ mentions' \in 0..2
    <3>1. CASE R!Upsert
      <4>1. {embedding', summaryEmbedding'} \subseteq R!Texts
        BY <3>1, NoText DEF R!Upsert
      <4>2. summary' \in BOOLEAN
        BY <3>1 DEF R!Upsert
      <4>3. mentions' \in 0..2
        BY <3>1 DEF R!Upsert
      <4> QED BY <4>1, <4>2, <4>3
    <3>2. CASE UNCHANGED R!derived
      BY <3>2 DEF RefreshInv, R!EmbeddingsAreCurrent, R!TypeOK, R!derived
    <3> QED BY <3>1, <3>2 DEF R!NormalizeDedupe
  <2>6. reading' \in [R!Processes -> R!Texts]
    BY DEF RefreshInv, R!EmbeddingsAreCurrent, R!TypeOK, R!Texts, R!NormalizeDedupe, R!Upsert
  <2>7. /\ excuses' \subseteq {"race", "late", "research"} /\ blamed' \in BOOLEAN
        /\ rowless' \in BOOLEAN
    BY DEF RefreshInv, R!EmbeddingsAreCurrent, R!TypeOK, R!NormalizeDedupe
  <2> QED BY <2>1, <2>2, <2>3, <2>4, <2>5, <2>6, <2>7 DEF R!TypeOK
<1>2. ("former" \notin {embedding, summaryEmbedding})'
  BY DEF RefreshInv, R!EmbeddingsAreCurrent, R!NormalizeDedupe, R!Upsert, R!derived
<1>3. RowInv'
  BY DEF RefreshInv, RowInv, R!Nodes, R!NormalizeDedupe, R!Goto, R!jobVars
<1>4. OverlapInv'
  BY DEF RefreshInv, OverlapInv, Collided, R!NormalizeDedupe, R!Goto, R!jobVars
<1>5. TextInv'
  BY DEF RefreshInv, RowInv, OverlapInv, TextInv, R!Nodes, Collided, R!NormalizeDedupe, R!Upsert,
     R!Goto
<1>6. ~blamed'
  BY DEF RefreshInv, R!NormalizeDedupe
<1>7. kind'[Loop] \in R!Names
  BY DEF RefreshInv, R!NormalizeDedupe
<1> QED BY <1>1, <1>2, <1>3, <1>4, <1>5, <1>6, <1>7 DEF RefreshInv, R!EmbeddingsAreCurrent

\* The text is taken for the embedding call.
LEMMA EmbedStoreStep ==
  ASSUME R!Settings, RefreshInv, NEW p \in R!Processes, R!EmbedStore(p)
  PROVE  RefreshInv'
<1>1. R!TypeOK'
  BY DEF RefreshInv, R!TypeOK, R!Nodes, R!Texts, R!EmbeddingsAreCurrent, R!EmbedStore, R!Take,
     R!Goto, R!jobVars, R!tickVars, R!derived
<1>2. ("former" \notin {embedding, summaryEmbedding})'
  BY DEF RefreshInv, R!EmbeddingsAreCurrent, R!EmbedStore, R!derived
<1>3. RowInv'
  BY DEF RefreshInv, RowInv, R!Nodes, R!TypeOK, R!EmbeddingsAreCurrent, R!EmbedStore, R!Goto,
     R!jobVars
<1>4. OverlapInv'
  BY DEF RefreshInv, OverlapInv, Collided, R!TypeOK, R!EmbeddingsAreCurrent, R!EmbedStore,
     R!Goto, R!jobVars
<1>5. TextInv'
  BY DEF RefreshInv, RowInv, OverlapInv, TextInv, Collided, R!TypeOK, R!EmbeddingsAreCurrent,
     R!EmbedStore, R!Take, R!Goto
<1>6. ~blamed'
  BY DEF RefreshInv, R!EmbedStore
<1>7. kind'[Loop] \in R!Names
  BY DEF RefreshInv, R!EmbedStore
<1> QED BY <1>1, <1>2, <1>3, <1>4, <1>5, <1>6, <1>7 DEF RefreshInv, R!EmbeddingsAreCurrent

\* The embedding is saved for the revision it was made from.
LEMMA SaveArticleEmbeddingStep ==
  ASSUME R!Settings, RefreshInv, NEW p \in R!Processes, R!SaveArticleEmbedding(p)
  PROVE  RefreshInv'
<1>1. R!TypeOK'
  BY DEF RefreshInv, R!TypeOK, R!Nodes, R!Texts, R!EmbeddingsAreCurrent, R!SaveArticleEmbedding,
     R!Done, R!Goto, R!jobVars, R!tickVars
<1>2. ("former" \notin {embedding, summaryEmbedding})'
  BY DEF RefreshInv, R!EmbeddingsAreCurrent, R!SaveArticleEmbedding
<1>3. RowInv'
  BY DEF RefreshInv, RowInv, R!Nodes, R!SaveArticleEmbedding, R!Goto, R!jobVars
<1>4. OverlapInv'
  BY DEF RefreshInv, OverlapInv, Collided, R!SaveArticleEmbedding, R!Goto, R!jobVars
<1>5. TextInv'
  BY DEF RefreshInv, TextInv, Collided, R!TypeOK, R!EmbeddingsAreCurrent, R!SaveArticleEmbedding,
     R!Done, R!Goto
<1>6. ~blamed'
  BY DEF RefreshInv, R!SaveArticleEmbedding
<1>7. kind'[Loop] \in R!Names
  BY DEF RefreshInv, R!SaveArticleEmbedding
<1> QED BY <1>1, <1>2, <1>3, <1>4, <1>5, <1>6, <1>7 DEF RefreshInv, R!EmbeddingsAreCurrent

\* The text is taken for the summary call.
LEMMA PrecomputeSummariesStep ==
  ASSUME R!Settings, RefreshInv, NEW p \in R!Processes, R!PrecomputeSummaries(p)
  PROVE  RefreshInv'
<1>1. R!TypeOK'
  BY DEF RefreshInv, R!TypeOK, R!Nodes, R!Texts, R!EmbeddingsAreCurrent, R!PrecomputeSummaries,
     R!Take, R!Goto, R!jobVars, R!tickVars, R!derived
<1>2. ("former" \notin {embedding, summaryEmbedding})'
  BY DEF RefreshInv, R!EmbeddingsAreCurrent, R!PrecomputeSummaries, R!derived
<1>3. RowInv'
  BY DEF RefreshInv, RowInv, R!Nodes, R!TypeOK, R!EmbeddingsAreCurrent, R!PrecomputeSummaries,
     R!Goto, R!jobVars
<1>4. OverlapInv'
  BY DEF RefreshInv, OverlapInv, Collided, R!TypeOK, R!EmbeddingsAreCurrent,
     R!PrecomputeSummaries, R!Goto, R!jobVars
<1>5. TextInv'
  BY DEF RefreshInv, TextInv, Collided, R!TypeOK, R!EmbeddingsAreCurrent, R!PrecomputeSummaries,
     R!Take, R!Goto, R!derived
<1>6. ~blamed'
  BY DEF RefreshInv, R!PrecomputeSummaries
<1>7. kind'[Loop] \in R!Names
  BY DEF RefreshInv, R!PrecomputeSummaries
<1> QED BY <1>1, <1>2, <1>3, <1>4, <1>5, <1>6, <1>7 DEF RefreshInv, R!EmbeddingsAreCurrent

\* The summary is saved with its embedding.
LEMMA SaveSummaryStep ==
  ASSUME R!Settings, RefreshInv, NEW p \in R!Processes, R!SaveSummary(p)
  PROVE  RefreshInv'
<1>1. R!TypeOK'
  <2>1. place' \in [R!Processes -> R!Nodes \cup {"idle", "next", "after"}]
    BY DEF RefreshInv, R!EmbeddingsAreCurrent, R!TypeOK, R!Nodes, R!SaveSummary, R!Goto
  <2>2. kind' \in [R!Processes -> R!Kinds]
    BY DEF RefreshInv, R!EmbeddingsAreCurrent, R!TypeOK, R!SaveSummary
  <2>3. /\ job' \in [R!Processes -> {"none", "running", "abandoned"}]
        /\ age' \in [R!Processes -> R!Ages] /\ left' \subseteq R!Ages
    BY DEF RefreshInv, R!EmbeddingsAreCurrent, R!TypeOK, R!SaveSummary, R!jobVars
  <2>4. /\ queue' \subseteq DOMAIN Pipelines /\ ran' \subseteq R!Names
        /\ rested' \subseteq R!Names /\ slept' \in 0..1
    BY DEF RefreshInv, R!EmbeddingsAreCurrent, R!TypeOK, R!SaveSummary, R!tickVars
  <2>5. /\ {embedding', summaryEmbedding'} \subseteq R!Texts /\ summary' \in BOOLEAN
        /\ mentions' \in 0..2
    BY DEF RefreshInv, R!EmbeddingsAreCurrent, R!TypeOK, R!SaveSummary
  <2>6. reading' \in [R!Processes -> R!Texts]
    BY DEF RefreshInv, R!EmbeddingsAreCurrent, R!TypeOK, R!Texts, R!SaveSummary, R!Done
  <2>7. /\ excuses' \subseteq {"race", "late", "research"} /\ blamed' \in BOOLEAN
        /\ rowless' \in BOOLEAN
    BY DEF RefreshInv, R!EmbeddingsAreCurrent, R!TypeOK, R!SaveSummary
  <2> QED BY <2>1, <2>2, <2>3, <2>4, <2>5, <2>6, <2>7 DEF R!TypeOK
<1>2. ("former" \notin {embedding, summaryEmbedding})'
  BY DEF RefreshInv, R!EmbeddingsAreCurrent, R!SaveSummary
<1>3. RowInv'
  BY DEF RefreshInv, RowInv, R!Nodes, R!SaveSummary, R!Goto, R!jobVars
<1>4. OverlapInv'
  BY DEF RefreshInv, OverlapInv, Collided, R!SaveSummary, R!Goto, R!jobVars
<1>5. TextInv'
  BY DEF RefreshInv, RowInv, OverlapInv, TextInv, Collided, R!TypeOK, R!EmbeddingsAreCurrent,
     R!SaveSummary, R!Done, R!Goto
<1>6. ~blamed'
  BY DEF RefreshInv, TextInv, Collided, R!SaveSummary
<1>7. kind'[Loop] \in R!Names
  BY DEF RefreshInv, R!SaveSummary
<1> QED BY <1>1, <1>2, <1>3, <1>4, <1>5, <1>6, <1>7 DEF RefreshInv, R!EmbeddingsAreCurrent

\* The text is taken for the mentions call.
LEMMA ExtractMentionsStep ==
  ASSUME R!Settings, RefreshInv, NEW p \in R!Processes, R!ExtractMentions(p)
  PROVE  RefreshInv'
<1>1. R!TypeOK'
  BY DEF RefreshInv, R!TypeOK, R!Nodes, R!Texts, R!EmbeddingsAreCurrent, R!ExtractMentions,
     R!Take, R!Goto, R!jobVars, R!tickVars, R!derived
<1>2. ("former" \notin {embedding, summaryEmbedding})'
  BY DEF RefreshInv, R!EmbeddingsAreCurrent, R!ExtractMentions, R!derived
<1>3. RowInv'
  BY DEF RefreshInv, RowInv, R!Nodes, R!ExtractMentions, R!Goto, R!jobVars
<1>4. OverlapInv'
  BY DEF RefreshInv, OverlapInv, Collided, R!ExtractMentions, R!Goto, R!jobVars
<1>5. TextInv'
  BY DEF RefreshInv, TextInv, Collided, R!TypeOK, R!EmbeddingsAreCurrent, R!ExtractMentions,
     R!Take, R!Goto, R!derived
<1>6. ~blamed'
  BY DEF RefreshInv, R!ExtractMentions
<1>7. kind'[Loop] \in R!Names
  BY DEF RefreshInv, R!ExtractMentions
<1> QED BY <1>1, <1>2, <1>3, <1>4, <1>5, <1>6, <1>7 DEF RefreshInv, R!EmbeddingsAreCurrent

\* The mentions are saved.
LEMMA SaveMentionStep ==
  ASSUME R!Settings, RefreshInv, NEW p \in R!Processes, R!SaveMention(p)
  PROVE  RefreshInv'
<1>1. R!TypeOK'
  <2>1. place' \in [R!Processes -> R!Nodes \cup {"idle", "next", "after"}]
    BY DEF RefreshInv, R!EmbeddingsAreCurrent, R!TypeOK, R!Nodes, R!SaveMention, R!Leave, R!Goto
  <2>2. kind' \in [R!Processes -> R!Kinds]
    BY DEF RefreshInv, R!EmbeddingsAreCurrent, R!TypeOK, R!SaveMention
  <2>3. /\ job' \in [R!Processes -> {"none", "running", "abandoned"}]
        /\ age' \in [R!Processes -> R!Ages] /\ left' \subseteq R!Ages
    BY DEF RefreshInv, R!EmbeddingsAreCurrent, R!TypeOK, R!SaveMention, R!jobVars
  <2>4. /\ queue' \subseteq DOMAIN Pipelines /\ ran' \subseteq R!Names
        /\ rested' \subseteq R!Names /\ slept' \in 0..1
    BY DEF RefreshInv, R!EmbeddingsAreCurrent, R!TypeOK, R!SaveMention, R!tickVars
  <2>5. /\ {embedding', summaryEmbedding'} \subseteq R!Texts /\ summary' \in BOOLEAN
        /\ mentions' \in 0..2
    BY DEF RefreshInv, R!EmbeddingsAreCurrent, R!TypeOK, R!SaveMention
  <2>6. reading' \in [R!Processes -> R!Texts]
    BY DEF RefreshInv, R!EmbeddingsAreCurrent, R!TypeOK, R!Texts, R!SaveMention, R!Done
  <2>7. /\ excuses' \subseteq {"race", "late", "research"} /\ blamed' \in BOOLEAN
        /\ rowless' \in BOOLEAN
    <3>1. excuses' \subseteq {"race", "late", "research"}
      BY LeaveType DEF RefreshInv, R!EmbeddingsAreCurrent, R!TypeOK, R!SaveMention
    <3>2. blamed' \in BOOLEAN /\ rowless' \in BOOLEAN
      BY DEF RefreshInv, R!EmbeddingsAreCurrent, R!TypeOK, R!SaveMention
    <3> QED BY <3>1, <3>2
  <2> QED BY <2>1, <2>2, <2>3, <2>4, <2>5, <2>6, <2>7 DEF R!TypeOK
<1>2. ("former" \notin {embedding, summaryEmbedding})'
  BY DEF RefreshInv, R!EmbeddingsAreCurrent, R!SaveMention
<1>3. RowInv'
  BY DEF RefreshInv, RowInv, R!Nodes, R!TypeOK, R!EmbeddingsAreCurrent, R!SaveMention, R!Leave,
     R!Goto, R!Working, R!jobVars
<1>4. OverlapInv'
  BY DEF RefreshInv, R!Processes, OverlapInv, Collided, R!TypeOK, R!EmbeddingsAreCurrent,
     R!SaveMention, R!Leave, R!Goto, R!jobVars
<1>5. TextInv'
  BY DEF RefreshInv, RowInv, OverlapInv, TextInv, Collided, R!TypeOK, R!EmbeddingsAreCurrent,
     R!SaveMention, R!Done, R!Leave, R!Goto, R!Working
<1>6. ~blamed'
  BY DEF RefreshInv, TextInv, R!SaveMention
<1>7. kind'[Loop] \in R!Names
  BY DEF RefreshInv, R!SaveMention
<1> QED BY <1>1, <1>2, <1>3, <1>4, <1>5, <1>6, <1>7 DEF RefreshInv, R!EmbeddingsAreCurrent

\* The row is closed.
LEMMA RetryOrRecoverStep ==
  ASSUME R!Settings, RefreshInv, NEW p \in R!Processes, R!RetryOrRecover(p)
  PROVE  RefreshInv'
<1>1. R!TypeOK'
  <2>1. place' \in [R!Processes -> R!Nodes \cup {"idle", "next", "after"}]
    BY DEF RefreshInv, R!EmbeddingsAreCurrent, R!TypeOK, R!RetryOrRecover, R!Leave, R!Goto
  <2>2. kind' \in [R!Processes -> R!Kinds]
    BY DEF RefreshInv, R!EmbeddingsAreCurrent, R!TypeOK, R!RetryOrRecover
  <2>3. /\ job' \in [R!Processes -> {"none", "running", "abandoned"}]
        /\ age' \in [R!Processes -> R!Ages] /\ left' \subseteq R!Ages
    BY DEF R!Settings, RefreshInv, R!EmbeddingsAreCurrent, R!TypeOK, R!Ages, R!RetryOrRecover,
       R!NoRow
  <2>4. /\ queue' \subseteq DOMAIN Pipelines /\ ran' \subseteq R!Names
        /\ rested' \subseteq R!Names /\ slept' \in 0..1
    BY DEF RefreshInv, R!EmbeddingsAreCurrent, R!TypeOK, R!RetryOrRecover
  <2>5. /\ {embedding', summaryEmbedding'} \subseteq R!Texts /\ summary' \in BOOLEAN
        /\ mentions' \in 0..2
    BY DEF RefreshInv, R!EmbeddingsAreCurrent, R!TypeOK, R!RetryOrRecover, R!derived
  <2>6. reading' \in [R!Processes -> R!Texts]
    BY DEF RefreshInv, R!EmbeddingsAreCurrent, R!TypeOK, R!RetryOrRecover
  <2>7. /\ excuses' \subseteq {"race", "late", "research"} /\ blamed' \in BOOLEAN
        /\ rowless' \in BOOLEAN
    BY LeaveType DEF RefreshInv, R!EmbeddingsAreCurrent, R!TypeOK, R!RetryOrRecover
  <2> QED BY <2>1, <2>2, <2>3, <2>4, <2>5, <2>6, <2>7 DEF R!TypeOK
<1>2. ("former" \notin {embedding, summaryEmbedding})'
  BY DEF RefreshInv, R!EmbeddingsAreCurrent, R!RetryOrRecover, R!derived
<1>3. RowInv'
  BY DEF RefreshInv, RowInv, R!Nodes, R!TypeOK, R!EmbeddingsAreCurrent, R!RetryOrRecover,
     R!NoRow, R!Leave, R!Goto, R!Working
<1>4. OverlapInv'
  BY DEF RefreshInv, R!Processes, OverlapInv, R!TypeOK, R!EmbeddingsAreCurrent, R!RetryOrRecover,
     R!NoRow, R!Leave, R!Goto
<1>5. TextInv'
  BY DEF RefreshInv, RowInv, OverlapInv, TextInv, R!Nodes, Collided, R!RetryOrRecover, R!Leave,
     R!Goto, R!Working
<1>6. ~blamed'
  BY DEF RefreshInv, R!RetryOrRecover
<1>7. kind'[Loop] \in R!Names
  BY DEF RefreshInv, R!RetryOrRecover
<1> QED BY <1>1, <1>2, <1>3, <1>4, <1>5, <1>6, <1>7 DEF RefreshInv, R!EmbeddingsAreCurrent

\* The row is closed, and something raises.
LEMMA ReportFailsStep ==
  ASSUME R!Settings, RefreshInv, NEW p \in R!Processes, R!ReportFails(p)
  PROVE  RefreshInv'
<1>1. R!TypeOK'
  <2>1. place' \in [R!Processes -> R!Nodes \cup {"idle", "next", "after"}]
    BY DEF RefreshInv, R!EmbeddingsAreCurrent, R!TypeOK, R!ReportFails, R!EndRowless, R!Leave, R!Goto
  <2>2. kind' \in [R!Processes -> R!Kinds]
    BY DEF RefreshInv, R!EmbeddingsAreCurrent, R!TypeOK, R!ReportFails
  <2>3. /\ job' \in [R!Processes -> {"none", "running", "abandoned"}]
        /\ age' \in [R!Processes -> R!Ages] /\ left' \subseteq R!Ages
    BY DEF R!Settings, RefreshInv, R!EmbeddingsAreCurrent, R!TypeOK, R!Ages, R!ReportFails,
       R!NoRow
  <2>4. /\ queue' \subseteq DOMAIN Pipelines /\ ran' \subseteq R!Names
        /\ rested' \subseteq R!Names /\ slept' \in 0..1
    BY DEF RefreshInv, R!EmbeddingsAreCurrent, R!TypeOK, R!ReportFails, R!tickVars
  <2>5. /\ {embedding', summaryEmbedding'} \subseteq R!Texts /\ summary' \in BOOLEAN
        /\ mentions' \in 0..2
    BY DEF RefreshInv, R!EmbeddingsAreCurrent, R!TypeOK, R!ReportFails, R!derived
  <2>6. reading' \in [R!Processes -> R!Texts]
    BY DEF RefreshInv, R!EmbeddingsAreCurrent, R!TypeOK, R!ReportFails
  <2>7. /\ excuses' \subseteq {"race", "late", "research"} /\ blamed' \in BOOLEAN
        /\ rowless' \in BOOLEAN
    BY LeaveType DEF RefreshInv, R!EndRowless, R!EmbeddingsAreCurrent, R!TypeOK, R!ReportFails
  <2> QED BY <2>1, <2>2, <2>3, <2>4, <2>5, <2>6, <2>7 DEF R!TypeOK
<1>2. ("former" \notin {embedding, summaryEmbedding})'
  BY DEF RefreshInv, R!EmbeddingsAreCurrent, R!ReportFails, R!derived
<1>3. RowInv'
  BY DEF RefreshInv, RowInv, R!Nodes, R!TypeOK, R!EmbeddingsAreCurrent, R!ReportFails,
     R!NoRow, R!EndRowless, R!Leave, R!Goto, R!Working
<1>4. OverlapInv'
  BY DEF RefreshInv, R!Processes, OverlapInv, R!TypeOK, R!EmbeddingsAreCurrent, R!ReportFails,
     R!NoRow, R!EndRowless, R!Leave, R!Goto
<1>5. TextInv'
  BY DEF RefreshInv, RowInv, OverlapInv, TextInv, R!Nodes, Collided, R!ReportFails, R!EndRowless,
     R!Leave, R!Goto, R!Working
<1>6. ~blamed'
  BY DEF RefreshInv, R!ReportFails
<1>7. kind'[Loop] \in R!Names
  BY DEF RefreshInv, R!ReportFails
<1> QED BY <1>1, <1>2, <1>3, <1>4, <1>5, <1>6, <1>7 DEF RefreshInv, R!EmbeddingsAreCurrent

\* A node raises or its process dies.
LEMMA RaiseStep ==
  ASSUME R!Settings, RefreshInv, NEW p \in R!Processes, R!Raise(p)
  PROVE  RefreshInv'
<1>1. R!TypeOK'
  <2>1. place' \in [R!Processes -> R!Nodes \cup {"idle", "next", "after"}]
    BY DEF RefreshInv, R!EmbeddingsAreCurrent, R!TypeOK, R!Raise, R!Leave, R!Goto
  <2>2. kind' \in [R!Processes -> R!Kinds]
    BY DEF RefreshInv, R!EmbeddingsAreCurrent, R!TypeOK, R!Raise
  <2>3. /\ job' \in [R!Processes -> {"none", "running", "abandoned"}]
        /\ age' \in [R!Processes -> R!Ages] /\ left' \subseteq R!Ages
    <3>1. job' \in [R!Processes -> {"none", "running", "abandoned"}]
      BY DEF RefreshInv, R!EmbeddingsAreCurrent, R!TypeOK, R!Raise, R!NoRow
    <3>2. age' \in [R!Processes -> R!Ages]
      BY DEF RefreshInv, R!EmbeddingsAreCurrent, R!TypeOK, R!Raise, R!NoRow, R!Ages, R!Settings
    <3>3. left' \subseteq R!Ages
      <4>1. age[p] \in R!Ages /\ left \subseteq R!Ages
        BY DEF RefreshInv, R!EmbeddingsAreCurrent, R!TypeOK
      <4> QED BY <4>1 DEF R!Raise
    <3> QED BY <3>1, <3>2, <3>3
  <2>4. /\ queue' \subseteq DOMAIN Pipelines /\ ran' \subseteq R!Names
        /\ rested' \subseteq R!Names /\ slept' \in 0..1
    BY DEF RefreshInv, R!EmbeddingsAreCurrent, R!TypeOK, R!Raise, R!tickVars
  <2>5. /\ {embedding', summaryEmbedding'} \subseteq R!Texts /\ summary' \in BOOLEAN
        /\ mentions' \in 0..2
    BY DEF RefreshInv, R!EmbeddingsAreCurrent, R!TypeOK, R!Raise, R!derived
  <2>6. reading' \in [R!Processes -> R!Texts]
    BY DEF RefreshInv, R!EmbeddingsAreCurrent, R!TypeOK, R!Texts, R!Raise, R!Done
  <2>7. /\ excuses' \subseteq {"race", "late", "research"} /\ blamed' \in BOOLEAN
        /\ rowless' \in BOOLEAN
    BY LeaveType DEF RefreshInv, R!EmbeddingsAreCurrent, R!TypeOK, R!Raise
  <2> QED BY <2>1, <2>2, <2>3, <2>4, <2>5, <2>6, <2>7 DEF R!TypeOK
<1>2. ("former" \notin {embedding, summaryEmbedding})'
  BY DEF RefreshInv, R!EmbeddingsAreCurrent, R!Raise, R!derived
<1>3. RowInv'
  BY DEF RefreshInv, RowInv, R!Nodes, R!TypeOK, R!EmbeddingsAreCurrent, R!Raise, R!NoRow,
     R!Leave, R!Goto, R!Working
<1>4. OverlapInv'
  BY DEF RefreshInv, R!Processes, OverlapInv, R!TypeOK, R!EmbeddingsAreCurrent, R!Raise, R!NoRow,
     R!Leave, R!Goto
<1>5. TextInv'
  BY DEF RefreshInv, TextInv, Collided, R!TypeOK, R!EmbeddingsAreCurrent, R!Raise, R!Done,
     R!Leave, R!Goto, R!Working, R!derived
<1>6. ~blamed'
  BY DEF RefreshInv, R!Raise
<1>7. kind'[Loop] \in R!Names
  BY DEF RefreshInv, R!Raise
<1> QED BY <1>1, <1>2, <1>3, <1>4, <1>5, <1>6, <1>7 DEF RefreshInv, R!EmbeddingsAreCurrent

\* The rest of the tick.
LEMMA TickStep ==
  ASSUME R!Settings, RefreshInv, NEW open \in BOOLEAN,
         R!StartTick(open) \/ R!AfterPipelines \/ R!EndTick \/ R!TickFails
  PROVE  RefreshInv'
<1>1. R!TypeOK'
  <2>1. place' \in [R!Processes -> R!Nodes \cup {"idle", "next", "after"}]
    BY DEF RefreshInv, R!EmbeddingsAreCurrent, R!TypeOK, R!StartTick, R!AfterPipelines,
       R!EndTick, R!TickFails, R!Goto
  <2>2. /\ queue' \subseteq DOMAIN Pipelines /\ ran' \subseteq R!Names
        /\ rested' \subseteq R!Names /\ slept' \in 0..1
    BY DEF RefreshInv, R!EmbeddingsAreCurrent, R!TypeOK, R!StartTick, R!AfterPipelines,
       R!EndTick, R!TickFails, R!Due, R!tickVars
  <2> QED
    BY <2>1, <2>2 DEF RefreshInv, R!EmbeddingsAreCurrent, R!TypeOK, R!StartTick,
           R!AfterPipelines, R!EndTick, R!TickFails, R!jobVars, R!derived
<1>2. ("former" \notin {embedding, summaryEmbedding})'
  BY DEF RefreshInv, R!EmbeddingsAreCurrent, R!StartTick, R!AfterPipelines, R!EndTick,
     R!TickFails, R!derived
<1>3. RowInv'
  BY DEF RefreshInv, R!EmbeddingsAreCurrent, R!TypeOK, RowInv, R!Nodes, R!StartTick,
     R!AfterPipelines, R!EndTick, R!TickFails, R!Goto, R!jobVars
<1>4. OverlapInv'
  BY DEF RefreshInv, R!EmbeddingsAreCurrent, R!TypeOK, OverlapInv, Collided, R!StartTick,
     R!AfterPipelines, R!EndTick, R!TickFails, R!Goto, R!jobVars
<1>5. TextInv'
  BY DEF RefreshInv, R!EmbeddingsAreCurrent, R!TypeOK, TextInv, Collided, R!StartTick,
     R!AfterPipelines, R!EndTick, R!TickFails, R!Goto, R!derived
<1>6. ~blamed'
  BY DEF RefreshInv, R!StartTick, R!AfterPipelines, R!EndTick, R!TickFails
<1>7. kind'[Loop] \in R!Names
  BY DEF RefreshInv, R!StartTick, R!AfterPipelines, R!EndTick, R!TickFails
<1> QED BY <1>1, <1>2, <1>3, <1>4, <1>5, <1>6, <1>7 DEF RefreshInv, R!EmbeddingsAreCurrent

\* The collector changes the text; an interval passes; or nothing changes.
LEMMA OutsideStep ==
  ASSUME R!Settings, RefreshInv,
         R!Publish \/ (\E n \in R!Names : R!IntervalOver(n)) \/ UNCHANGED R!vars
  PROVE  RefreshInv'
<1>1. R!TypeOK'
  <2>1. CASE R!Publish
    <3>1. {embedding', summaryEmbedding'} \subseteq R!Texts
      BY <2>1, NoText DEF R!Publish, R!Upsert
    <3>2. reading' \in [R!Processes -> R!Texts]
      BY <2>1 DEF RefreshInv, R!EmbeddingsAreCurrent, R!TypeOK, R!Texts, R!Publish, R!Upsert
    <3>3. summary' \in BOOLEAN
      BY <2>1 DEF R!Publish, R!Upsert
    <3>4. mentions' \in 0..2
      BY <2>1 DEF R!Publish, R!Upsert
    <3> QED
      BY <2>1, <3>1, <3>2, <3>3, <3>4 DEF RefreshInv, R!EmbeddingsAreCurrent, R!TypeOK,
             R!Publish, R!jobVars, R!tickVars
  <2>2. CASE (\E n \in R!Names : R!IntervalOver(n)) \/ UNCHANGED R!vars
    BY <2>2 DEF RefreshInv, R!EmbeddingsAreCurrent, R!TypeOK, R!IntervalOver, R!vars, R!jobVars,
           R!tickVars, R!derived
  <2> QED BY <2>1, <2>2
<1>2. ("former" \notin {embedding, summaryEmbedding})'
  BY DEF RefreshInv, R!EmbeddingsAreCurrent, R!Publish, R!Upsert, R!IntervalOver, R!vars,
     R!derived
<1>3. RowInv'
  BY DEF RefreshInv, RowInv, R!Publish, R!IntervalOver, R!vars, R!jobVars
<1>4. OverlapInv'
  BY DEF RefreshInv, OverlapInv, Collided, R!Publish, R!IntervalOver, R!vars, R!jobVars
<1>5. TextInv'
  BY DEF RefreshInv, TextInv, Collided, R!Publish, R!Upsert, R!IntervalOver, R!vars, R!derived
<1>6. ~blamed'
  BY DEF RefreshInv, R!Publish, R!IntervalOver, R!vars
<1>7. kind'[Loop] \in R!Names
  BY DEF RefreshInv, R!Publish, R!IntervalOver, R!vars
<1> QED BY <1>1, <1>2, <1>3, <1>4, <1>5, <1>6, <1>7 DEF RefreshInv, R!EmbeddingsAreCurrent

\* Time passes.
LEMMA TimeStep ==
  ASSUME R!Settings, RefreshInv, R!Time
  PROVE  RefreshInv'
<1>1. R!TypeOK'
  BY DEF R!Settings, R!Processes, RefreshInv, R!EmbeddingsAreCurrent, R!TypeOK, R!Texts, R!Nodes,
     R!Names, R!Ages, R!Time, R!Older, R!derived
<1>2. ("former" \notin {embedding, summaryEmbedding})'
  BY DEF RefreshInv, R!EmbeddingsAreCurrent, R!Time, R!derived
<1>3. RowInv'
  BY DEF RefreshInv, RowInv, R!Time
<1>4. OverlapInv'
  BY DEF RefreshInv, OverlapInv, Collided, R!Time
<1>5. TextInv'
  BY DEF RefreshInv, TextInv, Collided, R!Time, R!derived
<1>6. ~blamed'
  BY DEF RefreshInv, R!Time
<1>7. kind'[Loop] \in R!Names
  BY DEF RefreshInv, R!Time
<1> QED BY <1>1, <1>2, <1>3, <1>4, <1>5, <1>6, <1>7 DEF RefreshInv, R!EmbeddingsAreCurrent

\* The first state.
LEMMA RefreshInitially ==
  ASSUME R!Settings, R!Init
  PROVE  RefreshInv
<1>1. Pipelines[1] \in R!Names /\ R!Names \subseteq R!Kinds
  <2>1. 1 \in DOMAIN Pipelines
    BY DEF R!Settings
  <2> QED BY <2>1 DEF R!Names, R!Kinds
<1>2. R!TypeOK
  <2>1. 0 \in R!Ages
    BY DEF R!Settings, R!Ages
  <2>2. {embedding, summaryEmbedding} \subseteq R!Texts
    BY NoText DEF R!Init
  <2>3. summary \in BOOLEAN /\ blamed \in BOOLEAN /\ rowless \in BOOLEAN
    BY DEF R!Init
  <2>4. /\ place \in [R!Processes -> R!Nodes \cup {"idle", "next", "after"}]
        /\ kind \in [R!Processes -> R!Kinds]
    BY <1>1 DEF R!Init
  <2>5. reading \in [R!Processes -> R!Texts]
    BY NoText DEF R!Init
  <2>6. /\ job \in [R!Processes -> {"none", "running", "abandoned"}]
        /\ age \in [R!Processes -> R!Ages] /\ left \subseteq R!Ages
        /\ queue \subseteq DOMAIN Pipelines
        /\ ran \subseteq R!Names /\ rested \subseteq R!Names /\ slept \in 0..1 /\ mentions \in 0..2
        /\ excuses \subseteq {"race", "late", "research"}
    BY <2>1 DEF R!Init
  <2> QED BY <2>2, <2>3, <2>4, <2>5, <2>6 DEF R!TypeOK
<1>3. RowInv /\ OverlapInv /\ TextInv
  BY DEF R!Init, RowInv, OverlapInv, TextInv, R!Nodes
<1> QED BY <1>1, <1>2, <1>3 DEF R!Init, RefreshInv, R!EmbeddingsAreCurrent, R!Processes

\* The invariant holds, for any pipelines and cutoff.
THEOREM RefreshInvariant == RefreshSpec => []RefreshInv
<1> USE RefreshAssumption
<1>1. R!Init => RefreshInv
  BY RefreshInitially
<1>2. RefreshInv /\ [R!Next]_R!vars => RefreshInv'
  <2> SUFFICES ASSUME RefreshInv, [R!Next]_R!vars PROVE RefreshInv'
    OBVIOUS
  <2>1. ASSUME NEW p \in R!Processes,
            R!Work(p) \/ R!Raise(p) \/ R!LoadFails(p) \/ R!ReportFails(p)
      PROVE RefreshInv'
    BY <2>1, LoadDueSourcesStep, FetchParallelStep, NormalizeDedupeStep, EmbedStoreStep,
       SaveArticleEmbeddingStep, PrecomputeSummariesStep, SaveSummaryStep, ExtractMentionsStep,
       SaveMentionStep, RetryOrRecoverStep, RaiseStep, LoadFailsStep, ReportFailsStep
       DEF R!Work
  <2>2. CASE R!Tick \/ R!TickFails
    BY <2>2, NextPipelineStep, TickStep DEF R!Tick
  <2>3. CASE R!Research \/ \E n \in R!Kinds : R!Manual(n)
    BY <2>3, ResearchStep, ManualStep
  <2>4. CASE R!Publish \/ (\E n \in R!Names : R!IntervalOver(n)) \/ UNCHANGED R!vars
    BY <2>4, OutsideStep
  <2>5. CASE R!Time
    BY <2>5, TimeStep
  <2> QED BY <2>1, <2>2, <2>3, <2>4, <2>5 DEF R!Next
<1> QED BY <1>1, <1>2, PTL DEF RefreshSpec, R!Spec

\* No embedding is of a text the article had before, whatever the collector does
\* while the calls are out.
THEOREM EmbeddingsStayCurrent == RefreshSpec => []EmbeddingsAreCurrent
<1> USE RefreshAssumption
<1>1. RefreshInv => R!EmbeddingsAreCurrent
  BY DEF RefreshInv
<1> QED BY <1>1, RefreshInvariant, PTL DEF EmbeddingsAreCurrent

\* Two refreshes have rows at the same time only if both were allowed before either
\* had one or if a row was found stale while its refresh ran, and a text is summarised
\* twice or has its mentions extracted twice only then or beside a research.
THEOREM OverlapHasCause == RefreshSpec => []OverlapIsAccounted
<1> USE RefreshAssumption
<1>1. RefreshInv => R!OverlapIsAccounted
  BY DEF RefreshInv, R!Settings, OverlapInv, R!OverlapIsAccounted, R!Refreshing, Collided,
     R!Processes
<1> QED BY <1>1, RefreshInvariant, PTL DEF OverlapIsAccounted
=============================================================================
