------------------------------ MODULE MCScheduler ------------------------------
(* Scheduler for TLC: two processes, one job, a calendar of three-day weeks  *)
(* and four-day months.                                                        *)
EXTENDS Scheduler, TLC

CONSTANTS s1, s2, h1, h2

\* Each process has a pid of its own.
MCHolderIds == (s1 :> {h1}) @@ (s2 :> {h2})

MCCalendar(t) == [slot |-> 0, of_week |-> t % 3, of_month |-> t % 4]

Seg(from, to, step) == [from |-> from, to |-> to, step |-> step]

Cron(of_month, of_week) ==
  [kind |-> "cron", every |-> 1, slot |-> CronField({}, 0, 0),
   of_month |-> CronField(of_month, 0, 3), of_week |-> CronField(of_week, 0, 2)]

Every(n) == [Cron({}, {}) EXCEPT !.kind = "interval", !.every = n]

\* Every day 0 or 2 of a month or first day of a week; every second day;
\* a schedule that never matches.
MCSchedules == {Cron({Seg(0, 3, 2)}, {Seg(0, 0, 1)}), Every(2),
                [Cron({}, {}) EXCEPT !.slot.allowed = {}]}
===============================================================================
