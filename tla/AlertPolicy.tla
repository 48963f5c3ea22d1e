----------------------------- MODULE AlertPolicy -----------------------------
(***************************************************************************)
(* The delivery limits of market alerts to one chat: guard_delivery and    *)
(* is_material_update (alerts/policy.py), applied when the assessor queues *)
(* an alert (alerts/service.py) and again when a dispatcher has claimed it *)
(* (_recheck_delivery in alerts/delivery.py).                              *)
(*                                                                         *)
(* The limits are computed from the other rows of the chat, which other    *)
(* dispatchers are sending meanwhile.  AlertDelivery has the dispatcher in *)
(* full and leaves the verdict of the policy open; here the verdict is     *)
(* computed, and an alert is one message whose checkpoint and finish are   *)
(* one step.  Rows that say "failed" count when an alert is queued but not *)
(* when it is sent.                                                        *)
(***************************************************************************)
EXTENDS Integers, FiniteSets, FiniteSetsExt

CONSTANTS Workers,     \* dispatchers, one per scheduler process
          Alerts,      \* row ids of market_alert_deliveries, in created_at order
          Event,       \* event_id of each
          Revision,    \* the event's revision it was decided on
          Judgments,   \* whether each may be judged "material_new_event"
          Critical,    \* alerts that may pass the quiet hours
          Hour,        \* an hour, in ticks of the clock
          MaxAge,      \* settings.market_alert_max_age_minutes
          Cooldown,    \* settings.market_alert_cooldown_minutes
          MaxPerHour,  \* settings.market_alert_max_per_hour
          QuietTimes,  \* times within the quiet hours
          Lease,       \* settings.market_alert_lease_seconds
          MaxAttempts, \* settings.market_alert_max_attempts
          RetryDelay,  \* what a failed request waits
          Lag,         \* how far the assessor's clock may be behind
          MaxTime      \* bound of the clock

History == 2 * Hour    \* how far back created_at is looked at
Events == {Event[a] : a \in Alerts}
Never == -1

ASSUME PolicyAssumption ==
  /\ Alerts \subseteq Nat \ {0} /\ IsFiniteSet(Alerts)
  /\ Revision \in [Alerts -> Nat \ {0}]
  /\ DOMAIN Event = Alerts
  /\ Judgments \in [Alerts -> SUBSET BOOLEAN]
  /\ Critical \subseteq Alerts
  /\ {Hour, MaxAge, MaxPerHour, Lease, MaxAttempts, RetryDelay} \subseteq Nat \ {0}
  /\ {Cooldown, Lag, MaxTime} \subseteq Nat
  /\ QuietTimes \subseteq Nat /\ IsFiniteSet(QuietTimes)

VARIABLES
  now,       \* the clock
  revision,  \* market_alert_events.revision
  row,       \* market_alert_deliveries, and if its decision is "material_new_event"
  work,      \* where each dispatcher stands with the row it claimed
  wire,      \* alerts whose requests Telegram has not decided yet
  shown,     \* when Telegram showed each alert, or Never
  rushed     \* alerts let go by a check that was late, see Late

vars == <<now, revision, row, work, wire, shown, rushed>>

Statuses == {"absent", "pending", "sending", "delivered", "failed", "unknown", "expired"}
NoRow == [status |-> "absent", created |-> 0, expires |-> 0, delivered |-> Never,
          due |-> 0, attempts |-> 0, token |-> 0, leaseEnd |-> 0, newFacts |-> FALSE]
Idle == [pc |-> "idle", item |-> 0, claim |-> 0, clock |-> 0, outcome |-> "none", retry |-> 0]

TypeOK ==
  /\ now \in 0..MaxTime
  /\ revision \in [Events -> Nat \ {0}]
  /\ row \in [Alerts ->
       [status : Statuses, created : Nat, expires : Nat, delivered : Nat \cup {Never},
        due : Nat, attempts : 0..MaxAttempts, token : 0..MaxAttempts, leaseEnd : Nat,
        newFacts : BOOLEAN]]
  /\ work \in [Workers ->
       [pc : {"idle", "guard", "check", "send", "wait", "finish"}, item : Alerts \cup {0},
        claim : 0..MaxAttempts, clock : Nat, retry : Nat,
        outcome : {"none", "delivered", "failed", "unknown", "expired"}]]
  /\ wire \in SUBSET Alerts
  /\ shown \in [Alerts -> Nat \cup {Never}]
  /\ rushed \in SUBSET Alerts

Init ==
  /\ now = 0
  /\ revision = [e \in Events |-> 1]
  /\ row = [a \in Alerts |-> NoRow]
  /\ work = [w \in Workers |-> Idle]
  /\ wire = {}
  /\ shown = [a \in Alerts |-> Never]
  /\ rushed = {}

-----------------------------------------------------------------------------
(* guard_delivery, at time t of the caller's clock *)

AtDispatch == {"pending", "sending", "delivered", "unknown"}
AtQueueing == AtDispatch \cup {"failed"}

\* The rows the policy looks at for alert a, and the time each counts for.
Recent(a, t, kinds) ==
  {b \in Alerts \ {a} : row[b].status \in kinds /\ row[b].created > t - History}
CountedAt(b) == IF row[b].delivered # Never THEN row[b].delivered ELSE row[b].created

\* is_material_update: new facts, in a later revision than any alert of the
\* event that was sent or is about to be, one of which was delivered.
IsLaterRevision(a, newFacts, same) ==
  /\ \E b \in same : row[b].status = "delivered"
  /\ \A b \in same : Revision[a] > Revision[b]
IsMaterialUpdate(a, newFacts, same) == newFacts /\ IsLaterRevision(a, newFacts, same)

\* The end of the cooldown of a's event.
CooldownEnds(a, newFacts, t, B) ==
  LET same == {b \in B : Event[b] = Event[a]}
  IN  IF same = {} \/ IsMaterialUpdate(a, newFacts, same) THEN {}
      ELSE {end \in {Max({CountedAt(b) : b \in same}) + Cooldown} : end > t}

\* When the first of the last MaxPerHour alerts will be an hour old.
FullWithOneMore(n) == n > MaxPerHour
Full(n) == n >= MaxPerHour
CapEnds(t, B) ==
  LET Since(x) == Cardinality({b \in B : x <= CountedAt(b) /\ CountedAt(b) <= t})
      full     == {x \in t - Hour + 1..t : Full(Since(x))}
  IN  IF full = {} THEN {} ELSE {Max(full) + Hour}

QuietEnds(a, t) ==
  IF t \in QuietTimes /\ a \notin Critical
    THEN {Min({u \in t..Max(QuietTimes) + 1 : u \notin QuietTimes})}
    ELSE {}

\* The times the alert must wait for; it may go when there is none.
Waits(a, newFacts, t, kinds) ==
  LET B == Recent(a, t, kinds)
  IN  CooldownEnds(a, newFacts, t, B) \cup CapEnds(t, B) \cup QuietEnds(a, t)

-----------------------------------------------------------------------------
(* The assessor *)

Revise(e) ==
  /\ \E a \in Alerts : Event[a] = e /\ Revision[a] > revision[e]
  /\ revision' = [revision EXCEPT ![e] = @ + 1]
  /\ UNCHANGED <<now, row, work, wire, shown, rushed>>

\* complete_decision with the policy's verdict, by the assessor's clock t, which
\* may be behind: the alert is queued, due at once or when the policy lets it
\* go, unless its news is too old by then.
Queue(a) ==
  /\ row[a].status = "absent"
  /\ \A b \in Alerts : b < a => row[b].status # "absent"
  /\ Revision[a] <= revision[Event[a]]
  /\ \E t \in now - Lag..now, age \in 0..MaxAge, newFacts \in Judgments[a] :
       LET waits   == Waits(a, newFacts, t, AtQueueing)
           due     == Max(waits \cup {t})
           expires == t - age + MaxAge
       IN  /\ t >= 0 /\ due < expires
           /\ row' = [row EXCEPT ![a] =
                [NoRow EXCEPT !.status = "pending", !.created = t,
                              !.expires = expires, !.due = due,
                              !.newFacts = newFacts]]
  /\ UNCHANGED <<now, revision, work, wire, shown, rushed>>

-----------------------------------------------------------------------------
(* The dispatcher *)

\* recover_expired.
Recovered ==
  [a \in Alerts |->
     IF row[a].status = "sending" /\ row[a].leaseEnd <= now
       THEN [row[a] EXCEPT !.status = "unknown", !.token = 0, !.leaseEnd = 0, !.due = 0]
     ELSE IF row[a].status \in {"pending", "failed"} /\ row[a].expires <= now
       THEN [row[a] EXCEPT !.status = "expired", !.due = 0]
     ELSE row[a]]

Recover ==
  /\ Recovered # row
  /\ row' = Recovered
  /\ UNCHANGED <<now, revision, work, wire, shown, rushed>>

Claimable == {a \in Alerts : /\ row[a].status \in {"pending", "failed"}
                             /\ row[a].attempts < MaxAttempts
                             /\ row[a].expires > now
                             /\ row[a].due <= now}

Claim(w) ==
  /\ work[w].pc = "idle" /\ Claimable # {}
  /\ LET a == Min(Claimable)
         t == row[a].attempts + 1
     IN  /\ row' = [row EXCEPT ![a].status = "sending", ![a].attempts = t,
                               ![a].token = t, ![a].leaseEnd = now + Lease]
         /\ work' = [work EXCEPT ![w] = [Idle EXCEPT !.pc = "guard", !.item = a, !.claim = t]]
  /\ UNCHANGED <<now, revision, wire, shown, rushed>>

Conclude(w, outcome, retry) ==
  work' = [work EXCEPT ![w] = [@ EXCEPT !.pc = "finish", !.clock = 0,
                                              !.outcome = outcome, !.retry = retry]]

\* _recheck_delivery begins by reading the clock; then it reads the decision and
\* the evidence and waits for the chat's advisory lock.
ReadClock(w) ==
  /\ work[w].pc = "guard"
  /\ work' = [work EXCEPT ![w].pc = "check", ![w].clock = now]
  /\ UNCHANGED <<now, revision, row, wire, shown, rushed>>

\* The check under the lock, by the clock it has read.  The evidence may have
\* been revised or have lost its corroboration in any state.
StillNews(a, t) == revision[Event[a]] = Revision[a] /\ t <= row[a].expires

\* It is late if another alert was sent or is being sent that counts for a time
\* its clock had not reached: that one is not within its hour.
Late(a, t) ==
  \E b \in Recent(a, t, {"sending", "delivered"}) : CountedAt(b) > t

Recheck(w) ==
  LET a     == work[w].item
      t     == work[w].clock
      waits == Waits(a, row[a].newFacts, t, AtDispatch)
  IN
  /\ work[w].pc = "check"
  /\ \/ Conclude(w, "expired", 0) /\ UNCHANGED rushed
     \/ /\ StillNews(a, t) /\ waits = {}
        /\ work' = [work EXCEPT ![w].pc = "send", ![w].clock = 0]
        /\ rushed' = IF Late(a, t) THEN rushed \cup {a} ELSE rushed \ {a}
     \/ /\ StillNews(a, t) /\ waits # {} /\ Max(waits) < row[a].expires
        /\ Conclude(w, "failed", Max(waits)) /\ UNCHANGED rushed
  /\ UNCHANGED <<now, revision, row, wire, shown>>

\* The loop over the chunks, of which there is one.
Send(w) ==
  LET a == work[w].item IN
  /\ work[w].pc = "send"
  /\ IF row[a].expires <= now
       THEN Conclude(w, "expired", 0) /\ UNCHANGED wire
       ELSE work' = [work EXCEPT ![w].pc = "wait"] /\ wire' = wire \cup {a}
  /\ UNCHANGED <<now, revision, row, shown, rushed>>

Acknowledged(w) ==
  /\ work[w].pc = "wait" /\ work[w].item \notin wire
  /\ Conclude(w, "delivered", 0)
  /\ UNCHANGED <<now, revision, row, wire, shown, rushed>>

Rejected(w) ==
  /\ work[w].pc = "wait" /\ work[w].item \in wire
  /\ wire' = wire \ {work[w].item}
  /\ \/ Conclude(w, "failed", now + RetryDelay)
     \/ Conclude(w, "expired", 0)
  /\ UNCHANGED <<now, revision, row, shown, rushed>>

\* No answer, or it could not be recorded.
AnswerLost(w) ==
  /\ work[w].pc = "wait"
  /\ Conclude(w, "unknown", 0)
  /\ UNCHANGED <<now, revision, row, wire, shown, rushed>>

\* finish_delivery, of a row that is still the worker's.
Finish(w) ==
  LET a == work[w].item
      owned == row[a].status = "sending" /\ row[a].token = work[w].claim
                 /\ row[a].leaseEnd > now
  IN
  /\ work[w].pc = "finish"
  /\ row' = IF owned
       THEN [row EXCEPT ![a].status = work[w].outcome,
               ![a].delivered = IF work[w].outcome = "delivered" THEN now ELSE Never,
               ![a].due = IF work[w].outcome = "failed" THEN work[w].retry ELSE 0,
               ![a].token = 0, ![a].leaseEnd = 0]
       ELSE row
  /\ work' = [work EXCEPT ![w] = Idle]
  /\ UNCHANGED <<now, revision, wire, shown, rushed>>

\* The process dies and is restarted.
Crash(w) ==
  /\ work[w].pc # "idle"
  /\ work' = [work EXCEPT ![w] = Idle]
  /\ UNCHANGED <<now, revision, row, wire, shown, rushed>>

-----------------------------------------------------------------------------
(* The rest of the world *)

TelegramShows(a) ==
  /\ a \in wire
  /\ wire' = wire \ {a}
  /\ shown' = [shown EXCEPT ![a] = now]
  /\ UNCHANGED <<now, revision, row, work, rushed>>

Tick ==
  /\ now < MaxTime
  /\ now' = now + 1
  /\ UNCHANGED <<revision, row, work, wire, shown, rushed>>

Next ==
  \/ \E e \in Events : Revise(e)
  \/ \E a \in Alerts : Queue(a) \/ TelegramShows(a)
  \/ \E w \in Workers : \/ Claim(w) \/ ReadClock(w) \/ Recheck(w) \/ Send(w)
                        \/ Acknowledged(w) \/ Rejected(w) \/ AnswerLost(w)
                        \/ Finish(w) \/ Crash(w)
  \/ Recover
  \/ Tick

Spec == Init /\ [][Next]_vars

-----------------------------------------------------------------------------
(* Properties *)

WithinAnHour(S) == \A t \in 0..MaxTime :
  Cardinality({a \in S : shown[a] # Never /\ t - Hour < shown[a] /\ shown[a] <= t}) <= MaxPerHour

\* However many dispatchers send at once, the chat shows in any hour no more of
\* the alerts that were recorded as delivered than the settings allow, those apart
\* that a late check let go.
HourlyCap ==
  TypeOK /\ WithinAnHour({a \in Alerts \ rushed : row[a].status = "delivered"})

\* Two delivered alerts of one event are a cooldown apart in the chat, unless
\* the one of the later revision brought new facts.
CooldownKept ==
  \A a, b \in Alerts :
    (/\ a # b /\ Event[a] = Event[b] /\ Revision[a] <= Revision[b]
     /\ row[a].status = "delivered" /\ row[b].status = "delivered")
    => \/ shown[b] - shown[a] >= Cooldown \/ shown[a] - shown[b] >= Cooldown
       \/ Revision[a] < Revision[b] /\ row[b].newFacts
==============================================================================
