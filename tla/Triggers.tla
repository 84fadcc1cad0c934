------------------------------ MODULE Triggers ------------------------------
(***************************************************************************)
(* The fire times a trigger produces: get_next_fire_time of IntervalTrigger *)
(* and DateTrigger, and the absence of a trigger.                          *)
(*                                                                         *)
(* Time is counted in whole units.  A fire time is a whole number; the     *)
(* clock value t stands for an instant strictly between t and t + 1, so a  *)
(* comparison of a fire time with "now" never meets equality:              *)
(*     run_time <= now  is  run_time <= t,                                 *)
(*     start_date > now  is  start > t,                                    *)
(*     ceil((now - start) / len)  is  ((t - start) \div len) + 1.          *)
(***************************************************************************)
EXTENDS Integers

None == -1      \* Python's None where a time is expected

Interval(start, len, end) ==
    [kind |-> "interval", start |-> start, len |-> len, end |-> end]

Date(at) == [kind |-> "date", start |-> at, len |-> 1, end |-> None]

NoTrigger == [kind |-> "none", start |-> 0, len |-> 1, end |-> None]

\* The end_date test at the end of IntervalTrigger.get_next_fire_time.
Until(trig, t) == IF trig.end = None \/ t <= trig.end THEN t ELSE None

\* The fire time an interval trigger has when it never fired before.
FirstFire(trig, now) ==
    IF trig.start > now
    THEN trig.start
    ELSE trig.start + trig.len * (((now - trig.start) \div trig.len) + 1)

\* Mutant: an interval trigger may answer with the previous fire time itself.
NextFireNotAfter(trig, prev, now) ==
    CASE trig.kind = "interval" ->
             Until(trig, IF prev # None THEN prev ELSE FirstFire(trig, now))
      [] trig.kind = "date" -> IF prev = None THEN trig.start ELSE None
      [] trig.kind = "none" -> None

\* Mutant: the previous fire time is forgotten.
NextFireFromNow(trig, prev, now) ==
    CASE trig.kind = "interval" -> Until(trig, FirstFire(trig, now))
      [] trig.kind = "date" -> IF prev = None THEN trig.start ELSE None
      [] trig.kind = "none" -> None

(***************************************************************************)
(* get_next_fire_time(previous_fire_time, now).  Once an interval trigger  *)
(* has fired, the next fire time is the previous one plus the interval,    *)
(* whatever the clock says.                                                *)
(***************************************************************************)
NextFire(trig, prev, now) ==
    CASE trig.kind = "interval" ->
             Until(trig, IF prev # None THEN prev + trig.len
                                        ELSE FirstFire(trig, now))
      [] trig.kind = "date" -> IF prev = None THEN trig.start ELSE None
      [] trig.kind = "none" -> None
=============================================================================
