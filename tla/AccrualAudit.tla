---------------------------- MODULE AccrualAudit ----------------------------
(***************************************************************************)
(* The stream contract with a meter beside each stream.  The meter counts  *)
(* what the documentation calls earned: the rate, for every second the     *)
(* stream is Active before its stop time ("Time is capped at stop_time if  *)
(* set.  Paused time is excluded.", README.md).  The contract keeps no     *)
(* such counter: it reconstructs the amount from last_withdraw_time, which *)
(* withdraw, update_rate and resume_stream move.                           *)
(***************************************************************************)
EXTENDS StreamContract, BalanceService

CONSTANT PeriodLength   \* seconds of a period of the payroll report

\* buildPeriods throws an error for any other length.
ASSUME AuditAssumption == PeriodLength \in Nat \ {0}

VARIABLES
    metered,   \* tokens earned by each stream since its creation
    rerated    \* streams whose rate was ever updated

audit_vars == <<vars, metered, rerated>>

Accrues(s) == s.status = "Active" /\ (s.stop_time > 0 => now < s.stop_time)

Metered ==
    [id \in 1..stream_count' |->
        IF id > stream_count THEN 0
        ELSE IF now' > now /\ Accrues(streams[id])
             THEN metered[id] + (now' - now) * streams[id].rate_per_second
             ELSE metered[id]]

AuditInit == Init /\ metered = <<>> /\ rerated = {}

AuditNext ==
    /\ \/ \E a \in Accounts, id \in Ids, r \in Rates :
             update_rate(a, id, r) /\ rerated' = rerated \cup {id}
       \/ /\ CreateStep \/ PaymentStep \/ ManageStep \/ QueryStep \/ RoleStep
             \/ Tick \/ ConfigStep
          /\ UNCHANGED rerated
    /\ metered' = Metered

AuditSpec == AuditInit /\ [][AuditNext]_audit_vars

-----------------------------------------------------------------------------
\* What an Active stream has paid and lets the employee claim never exceeds
\* what it earned: paused time is not paid by withdraw after any sequence of
\* pauses and resumes, before or after the stop time, nor is a second paid
\* twice across a rate change.  A Paused stream has not paid more than it
\* earned either.
NeverAheadOfMeter ==
    \A id \in Ids :
        LET s == streams[id]
        IN  /\ s.status = "Active" => s.withdrawn + claimable_amount(s, now) <= metered[id]
            /\ s.status = "Paused" => s.withdrawn <= metered[id]

ResumedAfterStop(id) ==
    /\ streams[id].stop_time > 0
    /\ \E i \in 1..Len(pause_history[id]) :
          /\ ~pause_history[id][i].is_pause
          /\ pause_history[id][i].timestamp > streams[id].stop_time

\* Nothing earned is lost: past its cliff, an Active stream has paid or lets
\* the employee claim all that it earned, up to the deposit, provided its rate
\* was never updated and it was not resumed after its stop time.  With
\* NeverAheadOfMeter the claim is then exact.
NothingEarnedIsLost ==
    \A id \in Ids :
        LET s == streams[id]
        IN  (/\ s.status = "Active" /\ ~BeforeCliff(s, now)
             /\ id \notin rerated /\ ~ResumedAfterStop(id))
            => s.withdrawn + claimable_amount(s, now) >= Least(metered[id], s.deposit)

\* The balance service never shows more than was earned: running or paused,
\* after any pauses, withdrawals and rate changes, what was withdrawn and what
\* calculateBalance adds to it stay within the meter.
ReportWithinEarned ==
    \A id \in Ids :
        LET s == streams[id]
        IN  ~is_terminal(s.status) =>
               s.withdrawn + calculateBalance(s, pause_history[id], now) <= metered[id]

\* The payroll report, period by period, adds up to no more than was earned,
\* and to exactly that while nothing is withdrawn and neither the deposit nor
\* the cliff cuts a period short.  The rate is the present one, so a stream
\* whose rate was updated is left out.
PayrollAddsUp ==
    \A id \in Ids :
        LET s == streams[id]
            total == SumOf(calculateBalanceByDuration(s, pause_history[id], PeriodLength, now))
        IN  id \notin rerated /\ ~is_terminal(s.status) =>
               /\ total <= metered[id]
               /\ s.withdrawn = 0 /\ s.cliff_time = 0 /\ metered[id] <= s.deposit
                     => total = metered[id]

-----------------------------------------------------------------------------
(* What the documentation says and the code does not do.                   *)

\* README.md: "Paused time is excluded."  No stream, however it ends, pays
\* more than the seconds it was Active for.
PausedTimeExcluded == \A id \in Ids : streams[id].withdrawn <= metered[id]

\* lib.rs, resume_stream: paused time is excluded "while preserving pre-pause
\* accrued earnings".
ResumePreservesEarnings ==
    [][\A id \in Ids :
          (streams[id].status = "Paused" /\ streams'[id].status = "Active")
          => streams'[id].withdrawn + claimable_amount(streams'[id], now)
                >= Least(metered[id], streams[id].deposit)]_audit_vars

\* docs/api-reference.md: "Earnings accrued at the old rate are crystallised
\* first": what was earned before an update is counted afterwards.
RateChangeKeepsEarnings ==
    [][\A id \in Ids :
          streams'[id].rate_per_second # streams[id].rate_per_second
          => streams'[id].withdrawn >= Least(metered[id], streams[id].deposit)]_audit_vars
=============================================================================
