----------------------------- MODULE SendPolicy -----------------------------
(***************************************************************************)
(* When a channel may send and how much (policy_service, clock_service).   *)
(*                                                                         *)
(* A time is a day and a time of day in the channel's timezone, both       *)
(* numbers; a beat run takes Interval ticks of the day.  The clock changes *)
(* of the timezone are left out.                                           *)
(***************************************************************************)
EXTENDS Integers, Sequences, FiniteSets, FiniteSetsExt

CONSTANTS
  Ticks,      \* ticks of a day
  Interval,   \* COMMUNICATOR_SEND_INTERVAL_MIN
  SearchDays  \* SLOT_SEARCH_DAYS

VARIABLES
  policy,  \* windows (a sequence of start and end), businessDaysOnly, cap, spread
  closed,  \* the weekend days and holidays of the channel's country
  sent,    \* the counter of each channel day
  now      \* now_for(channel)

Time == [day : 0..SearchDays, tick : 0..(Ticks - 1)]
Later(a, b) == a.day > b.day \/ (a.day = b.day /\ a.tick > b.tick)

\* WindowRequest: the end is after the start.
ValidWindow(w) == w.start < w.end

Windows == {policy.windows[i] : i \in DOMAIN policy.windows}

IsBusinessDay(day) == policy.businessDaysOnly => day \notin closed

IsOpen(at) ==
  /\ \E w \in Windows : w.start <= at.tick /\ at.tick < w.end
  /\ IsBusinessDay(at.day)

\* The starts of a business day after a time.
Upcoming(day, after) ==
  {t \in {[day |-> day, tick |-> w.start] : w \in Windows} : IsBusinessDay(day) /\ Later(t, after)}

\* Mutation: the search ends with the first day that is not over.
SearchedDays(after) == {after.day}

Searched(after) == after.day..(after.day + SearchDays - 1)

None == [day |-> -1, tick |-> 0]

\* next_slot: the time itself, else the first start of the first day with one.
NextSlot(after) ==
  IF IsOpen(after) THEN after
  ELSE LET days == {d \in Searched(after) : Upcoming(d, after) # {}}
       IN  IF days = {} THEN None
           ELSE CHOOSE t \in Upcoming(Min(days), after) :
                  \A u \in Upcoming(Min(days), after) : t.tick <= u.tick

\* next_slot_for: a waiting message leaves neither before its date nor before now.
NextSlotFor(scheduledAt) == NextSlot(IF Later(scheduledAt, now) THEN scheduledAt ELSE now)

-----------------------------------------------------------------------------
\* The daily cap and its spread over the beat runs of the day.

Remaining == Max({policy.cap - sent, 0})

WindowRuns(w) == (w.end - w.start + Interval - 1) \div Interval

ElapsedRuns(w, tick) ==
  IF tick < w.start THEN 0 ELSE Min({(tick - w.start) \div Interval + 1, WindowRuns(w)})

\* The sum of the runs of each window: the runs in all, numbered by window.
Total(runs) == Cardinality(UNION {{i} \X (1..runs[i]) : i \in DOMAIN runs})

RunsToday == Total([i \in DOMAIN policy.windows |-> WindowRuns(policy.windows[i])])

\* Mutation: every window has elapsed once the day is open.
AllElapsed(tick) == RunsToday

Elapsed(tick) ==
  Total([i \in DOMAIN policy.windows |-> ElapsedRuns(policy.windows[i], tick)])

SpreadAllowed(tick) == IF RunsToday = 0 THEN 0 ELSE (policy.cap * Elapsed(tick)) \div RunsToday

Left(quota) == Max({quota - sent, 0})

RunBudget(at) ==
  IF ~IsOpen(at) THEN 0 ELSE IF policy.spread THEN Left(SpreadAllowed(at.tick)) ELSE Remaining

-----------------------------------------------------------------------------

\* The next slot is the first time from now on at which the channel is open,
\* whatever its windows, overlapping or not; there is none only when no day of
\* the search opens (next_slot against is_open).
NextSlotIsFirst ==
  LET slot == NextSlot(now)
      open == {t \in Time : ~Later(now, t) /\ IsOpen(t)}
  IN  IF slot = None THEN \A t \in open : t.day >= now.day + SearchDays
      ELSE IsOpen(slot) /\ ~Later(now, slot) /\ \A t \in open : ~Later(slot, t)

OpenTicks == {t \in 0..(Ticks - 1) : IsOpen([now EXCEPT !.tick = t])}

\* A run's share of the cap, rounded up, when all windows are at work.
Share == (policy.cap * Len(policy.windows) + RunsToday - 1) \div RunsToday

\* A run never takes the day above its cap.  The quota of the spread starts with
\* and grows over the day by shares: an interval adds no more than its share of
\* the cap, and the last open moment of the day has the whole cap, for windows
\* that overlap or are no multiple of the interval too (run_budget,
\* spread_allowed).
SpreadIsFair ==
  /\ sent <= policy.cap => RunBudget(now) + sent <= policy.cap
  /\ \A t \in OpenTicks \ {0} : SpreadAllowed(t - 1) <= SpreadAllowed(t)
  /\ \A t \in OpenTicks :
       t >= Interval =>
         SpreadAllowed(t) - SpreadAllowed(t - Interval) <= Share
  /\ OpenTicks # {} =>
       SpreadAllowed(Min(OpenTicks)) <= Share /\ SpreadAllowed(Max(OpenTicks)) = policy.cap
=============================================================================
