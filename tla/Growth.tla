------------------------------ MODULE Growth ------------------------------
(***************************************************************************)
(* Marketing drafts (app/growth.py) and the scheduler that generates them  *)
(* within daily budgets (app/growth_scheduler.py).  The budgets are counts *)
(* of growth.scheduled_run events since the midnight before the tick.      *)
(*                                                                         *)
(* Abstractions: a run yields one draft; text is left out; days are        *)
(* counted, and a weekly plan runs once in all the modelled days.          *)
(***************************************************************************)
EXTENDS Server, FiniteSetsExt

CONSTANTS
  Shops,              \* live stores
  Drafts,             \* rows of growth_drafts
  GROWTH_DAILY_MAX, GROWTH_SCHED_STORE_DAILY_MAX,
  MaxDays,            \* days modelled, at most seven
  MaxGrowthFaults     \* runs cut off by a crash or an error, at most

ASSUME GrowthAssumption ==
  /\ {GROWTH_DAILY_MAX, GROWTH_SCHED_STORE_DAILY_MAX, MaxGrowthFaults} \subseteq Nat
  /\ MaxDays \in 1..7 /\ IsFiniteSet(Shops) /\ None \notin Shops

Days == 1..MaxDays

VARIABLES
  day,        \* today
  plan,       \* the latest growth.calendar_set of a store
  runs,       \* growth.scheduled_run events, by store and day
  attempts,   \* generations asked of the model by the scheduler, by store and day
  draft,      \* growth_drafts: none, pending, blocked, approved, discarded, published
  tick,       \* locals of the scheduler's tick
  growthFaults

growthVars == <<day, plan, runs, attempts, draft, tick, growthFaults>>

-----------------------------------------------------------------------------

NoTick == [step |-> "idle", since |-> 1, todo |-> {}, shop |-> None]
OnDays(count, s, since) == MapThenSumSet(LAMBDA d : count[s][d], since..MaxDays)

\* _runs_since() and _global_runs_since().
RunsSince(s, since) == OnDays(runs, s, since)
GlobalRunsSince(since) == MapThenSumSet(LAMBDA s : RunsSince(s, since), Shops)

\* _cadence_ready(): weekly draws once in the last seven days.
CadenceReady(s) == plan[s] = "weekly" => RunsSince(s, 1) = 0

\* growth_calendar_set: the merchant activates, changes or pauses the plan.
SetCalendar(s, p) ==
  /\ plan[s] # p /\ plan' = [plan EXCEPT ![s] = p]
  /\ UNCHANGED <<day, runs, attempts, draft, tick, growthFaults>>

Midnight ==
  /\ day < MaxDays /\ day' = day + 1
  /\ UNCHANGED <<plan, runs, attempts, draft, tick, growthFaults>>

\* run_scheduler_tick() starts: nothing to do over the global budget.
TickStart ==
  /\ tick.step = "idle" /\ GlobalRunsSince(day) < GROWTH_DAILY_MAX
  /\ tick' = [NoTick EXCEPT !.step = "next", !.since = day,
                            !.todo = {s \in Shops : plan[s] # "paused"}]
  /\ UNCHANGED <<day, plan, runs, attempts, draft, growthFaults>>

\* The next store: the global budget ends the tick, its own budget or its
\* cadence passes it over, and otherwise the model is asked.
TickNext ==
  /\ tick.step = "next"
  /\ \/ /\ tick.todo = {} \/ GlobalRunsSince(tick.since) >= GROWTH_DAILY_MAX
        /\ tick' = NoTick /\ UNCHANGED attempts
     \/ \E s \in tick.todo :
          /\ GlobalRunsSince(tick.since) < GROWTH_DAILY_MAX
          /\ IF RunsSince(s, tick.since) >= GROWTH_SCHED_STORE_DAILY_MAX \/ ~CadenceReady(s)
               THEN tick' = [tick EXCEPT !.todo = @ \ {s}] /\ UNCHANGED attempts
               ELSE /\ tick' = [tick EXCEPT !.step = "run", !.todo = @ \ {s}, !.shop = s]
                    /\ attempts' = [attempts EXCEPT ![s][day] = @ + 1]
  /\ UNCHANGED <<day, plan, runs, draft, growthFaults>>

\* A run's event, and the draft it may leave: screening allows it, withholds
\* it, or is down and nothing is stored.
Logged == runs' = [runs EXCEPT ![tick.shop][day] = @ + 1]
Drafted ==
  \/ \E d \in Drafts, status \in {"pending", "blocked"} :
       draft[d] = "none" /\ draft' = [draft EXCEPT ![d] = status]
  \/ UNCHANGED draft

\* Mutant of Generated: an unusable answer is not logged.
GeneratedOnly ==
  /\ tick.step = "run"
  /\ \/ Logged /\ Drafted
     \/ UNCHANGED <<runs, draft>>
  /\ tick' = [tick EXCEPT !.step = "next", !.shop = None]
  /\ UNCHANGED <<day, plan, attempts, growthFaults>>

\* _generate_for_store(): an attempt counts, whether its kit was usable or not.
Generated ==
  /\ tick.step = "run" /\ Logged /\ Drafted
  /\ tick' = [tick EXCEPT !.step = "next", !.shop = None]
  /\ UNCHANGED <<day, plan, attempts, growthFaults>>

\* The process dies during the run, or it raises: neither draft nor event.
RunFails ==
  /\ tick.step = "run" /\ growthFaults < MaxGrowthFaults
  /\ growthFaults' = growthFaults + 1
  /\ tick' \in {NoTick, [tick EXCEPT !.step = "next", !.shop = None]}
  /\ UNCHANGED <<day, plan, runs, attempts, draft>>

\* growth_kit_post(): a screened kit is fanned out into several drafts; any
\* other answer leaves nothing.
KitDrafts ==
  \E T \in SUBSET {d \in Drafts : draft[d] = "none"} :
    /\ T # {} /\ draft' = [d \in Drafts |-> IF d \in T THEN "pending" ELSE draft[d]]
    /\ UNCHANGED <<day, plan, runs, attempts, tick, growthFaults>>

\* growth_channel_draft(): generated, screened, queued.
ChannelDraft(d) ==
  /\ draft[d] = "none" /\ draft' = [draft EXCEPT ![d] = "pending"]
  /\ UNCHANGED <<day, plan, runs, attempts, tick, growthFaults>>

\* The outbox routes are conditional UPDATEs.
MoveDraft(d, from, to) ==
  /\ draft[d] \in from /\ draft' = [draft EXCEPT ![d] = to]
  /\ UNCHANGED <<day, plan, runs, attempts, tick, growthFaults>>

ApproveDraft(d) == MoveDraft(d, {"pending"}, "approved")
DiscardDraft(d) == MoveDraft(d, {"pending", "approved"}, "discarded")
MarkPublished(d) == MoveDraft(d, {"approved"}, "published")

GrowthInit ==
  /\ day = 1 /\ plan = [s \in Shops |-> "paused"]
  /\ runs = [s \in Shops |-> [d \in Days |-> 0]] /\ attempts = runs
  /\ draft = [d \in Drafts |-> "none"] /\ tick = NoTick /\ growthFaults = 0

GrowthNext ==
  \/ Midnight \/ TickStart \/ TickNext \/ Generated \/ RunFails \/ KitDrafts
  \/ \E s \in Shops, p \in {"paused", "daily", "weekly"} : SetCalendar(s, p)
  \/ \E d \in Drafts :
       ChannelDraft(d) \/ ApproveDraft(d) \/ DiscardDraft(d) \/ MarkPublished(d)

GrowthSpec == GrowthInit /\ [][GrowthNext]_growthVars

-----------------------------------------------------------------------------
(* Properties *)

GrowthTypeOK ==
  /\ day \in Days /\ plan \in [Shops -> {"paused", "daily", "weekly"}]
  /\ runs \in [Shops -> [Days -> Nat]] /\ attempts \in [Shops -> [Days -> Nat]]
  /\ draft \in [Drafts -> {"none", "pending", "blocked", "approved", "discarded", "published"}]
  /\ tick \in [step : {"idle", "next", "run"}, since : Days, todo : SUBSET Shops,
               shop : Shops \cup {None}]
  /\ growthFaults \in 0..MaxGrowthFaults

\* The model is asked at most the budgets' number of times a day, for all the
\* stores and for each, across midnight, restarts and answers nobody could use;
\* only a run that was cut off is not counted (app/growth_scheduler.py:109-113).
SpendCapped ==
  \A d \in Days :
    /\ MapThenSumSet(LAMBDA s : attempts[s][d], Shops) <= GROWTH_DAILY_MAX + growthFaults
    /\ \A s \in Shops : attempts[s][d] <= GROWTH_SCHED_STORE_DAILY_MAX + growthFaults

=============================================================================
