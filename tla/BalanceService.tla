--------------------------- MODULE BalanceService ---------------------------
(* services/balance/balance.js: what is claimable and what each period       *)
(* earned, recomputed outside the chain from a stream record and its pause   *)
(* history.                                                                  *)
EXTENDS Accrual, Sequences, SequencesExt

Most(a, b) == IF a < b THEN b ELSE a

\* One event of the history: acc holds the seconds paused so far and the start
\* of the pause in progress, -1 when there is none.
PauseStep(acc, event, from, to) ==
    IF event.is_pause
    THEN IF event.timestamp < to
         THEN [acc EXCEPT !.start = Most(event.timestamp, from)]
         ELSE acc
    ELSE IF acc.start >= 0
         THEN [paused |-> acc.paused + Monus(Least(event.timestamp, to), acc.start), start |-> -1]
         ELSE acc

\* Mutant: the pause in progress is not counted.
calcPausedSeconds_finished(history, from, to) ==
    LET Step(acc, event) == PauseStep(acc, event, from, to)
    IN  FoldLeft(Step, [paused |-> 0, start |-> -1], history).paused

\* Paused seconds between from and to.
calcPausedSeconds(history, from, to) ==
    LET Step(acc, event) == PauseStep(acc, event, from, to)
        end == FoldLeft(Step, [paused |-> 0, start |-> -1], history)
    IN  end.paused + (IF end.start >= 0 THEN to - end.start ELSE 0)

\* Active seconds since the last withdrawal, nothing before the cliff or after
\* the end of the stream.
ActiveElapsed(s, history, now) ==
    LET end == EffectiveEnd(s, now)
    IN  IF is_terminal(s.status) \/ BeforeCliff(s, now) \/ end <= s.last_withdraw_time THEN 0
        ELSE Monus(end - s.last_withdraw_time,
                   calcPausedSeconds(history, s.last_withdraw_time, end))

calculateBalance(s, history, now) ==
    Least(ActiveElapsed(s, history, now) * s.rate_per_second, Remaining(s))

\* Periods of a custom length; calendar days, weeks and months only differ in
\* how far each one reaches.
buildPeriods(start, end, length) ==
    LET count == (end - start + length - 1) \div length
    IN  [k \in 1..count |-> [start |-> start + (k - 1) * length,
                             end |-> Least(start + k * length, end)]]

\* Mutant: each period starts with the stream.
Slice_fromStart(s, period) == [s EXCEPT !.last_withdraw_time = s.start_time, !.stop_time = period.end]

Slice(s, period) == [s EXCEPT !.last_withdraw_time = period.start, !.stop_time = period.end]

\* Earnings of each period from the start of the stream.
calculateBalanceByDuration(s, history, length, now) ==
    LET end == EffectiveEnd(s, now)
    IN  IF end <= s.start_time THEN <<>>
        ELSE LET periods == buildPeriods(s.start_time, end, length)
             IN  [k \in 1..Len(periods) |->
                     calculateBalance(Slice(s, periods[k]), history, periods[k].end)]

SumOf(q) == FoldLeft(+, 0, q)
=============================================================================
