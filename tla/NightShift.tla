----------------------------- MODULE NightShift -----------------------------
(***************************************************************************)
(* The night shift of src/megavolt_ops/night_shift.py: a timer starts one  *)
(* pass after another; a pass asks Airflow for the runs that failed since  *)
(* the last check, has each new failure diagnosed, clears a run whose      *)
(* cause is transient, remembers it in state.json, and only then writes    *)
(* the report and the mail. Every call may fail (a clear or a mail also    *)
(* after it took effect), and the pass may die between any two steps; what *)
(* survives is the state file.                                             *)
(*                                                                         *)
(* Abstraction: time is a counter that every failure advances, so no two   *)
(* end dates are equal; a failure is the pair <<run, end date>>, the key   *)
(* of FailedRun; the diagnosis is a free choice of `transient`.            *)
(***************************************************************************)
EXTENDS Integers, Sequences, FiniteSets

CONSTANTS
    Run,            \* DAG runs
    Page,           \* PAGE
    AgentCap,       \* AGENT_RUNS_PER_DAY
    DayLength,      \* how many moments make a day
    LookBack,       \* FIRST_LOOK_BACK
    MaxTime,        \* bound: the last moment
    MaxCount,       \* bound: how far mails and clears are counted
    Never           \* last_checked of a fresh state file

ASSUME NightShiftAssumption ==
    /\ IsFiniteSet(Run)
    /\ Page \in Nat \ {0}
    /\ AgentCap \in Nat
    /\ DayLength \in Nat \ {0}
    /\ LookBack \in Nat
    /\ MaxTime \in Nat
    /\ MaxCount \in Nat
    /\ Never \notin Nat

VARIABLES
    now,            \* the clock
    state,          \* state[r]: running, failed or success, as Airflow says
    ended,          \* ended[r]: end_date of the last end
    file,           \* state.json
    pc,             \* the step the pass is at, "idle" between passes
    memory,         \* the State object of the pass
    passNow,        \* the `now` of the pass
    page,           \* failures still to look at
    upTo,           \* what last_checked becomes when the pass is through
    clearing,       \* `cleared` of the failure in hand
    reports,        \* failures with a report on disk
    mails,          \* mails[f]: how often failure f was mailed
    clears          \* clears[r]: clears that took effect

airflow == <<now, state, ended>>
pass == <<pc, memory, passNow, page, upTo, clearing>>
record == <<reports, mails, clears>>
vars == <<airflow, file, pass, record>>

Time == 0 .. MaxTime
DayOf(t) == t \div DayLength
DayNumber == {DayOf(t) : t \in Time}
Failure == Run \X Time
(* Counting stops at MaxCount. *)
OneMore(n) == IF n < MaxCount THEN n + 1 ELSE n

(* The contents of state.json: `cleared` are the handled failures whose    *)
(* entry says so.                                                          *)
States == [lastChecked : Time \cup {Never}, handled : SUBSET Failure,
           cleared : SUBSET Failure, agentRuns : [DayNumber -> 0 .. AgentCap]]
FreshState == [lastChecked |-> Never, handled |-> {}, cleared |-> {},
               agentRuns |-> [d \in DayNumber |-> 0]]

Since(data, t) == IF data.lastChecked = Never THEN t - LookBack ELSE data.lastChecked

(* Slip: only the very same failure counts as cleared, not the same run. *)
SameFailureCleared(data, f) == f \in data.cleared

(* was_cleared(): by run, whatever the end date. *)
WasCleared(data, f) == \E g \in data.cleared : g[1] = f[1]

TypeOK ==
    /\ now \in Time
    /\ state \in [Run -> {"running", "failed", "success"}]
    /\ ended \in [Run -> Time]
    /\ file \in States /\ memory \in States
    /\ pc \in {"idle", "query", "next", "clear", "save", "report", "mail"}
    /\ passNow \in Time /\ upTo \in Time
    /\ page \in Seq(Failure) /\ Len(page) <= Page
    /\ clearing \in BOOLEAN
    /\ reports \subseteq Failure
    /\ mails \in [Failure -> 0 .. MaxCount]
    /\ clears \in [Run -> 0 .. MaxCount]

Init ==
    /\ now = 0
    /\ state = [r \in Run |-> "running"]
    /\ ended = [r \in Run |-> 0]
    /\ file = FreshState
    /\ pc = "idle"
    /\ memory = FreshState
    /\ passNow = 0
    /\ page = << >>
    /\ upTo = 0
    /\ clearing = FALSE
    /\ reports = {}
    /\ mails = [f \in Failure |-> 0]
    /\ clears = [r \in Run |-> 0]

-----------------------------------------------------------------------------
(* Airflow, as the night shift sees it. *)

Fail(r) ==
    /\ state[r] = "running" /\ now < MaxTime
    /\ now' = now + 1
    /\ state' = [state EXCEPT ![r] = "failed"]
    /\ ended' = [ended EXCEPT ![r] = now + 1]
    /\ UNCHANGED <<file, pass, record>>

(* Time passes without a failure. *)
Tick ==
    /\ now < MaxTime
    /\ now' = now + 1
    /\ UNCHANGED <<state, ended, file, pass, record>>

Succeed(r) ==
    /\ state[r] = "running"
    /\ state' = [state EXCEPT ![r] = "success"]
    /\ UNCHANGED <<now, ended, file, pass, record>>

(* The owner clears a run himself. *)
ClearByHand(r) ==
    /\ state[r] = "failed"
    /\ state' = [state EXCEPT ![r] = "running"]
    /\ UNCHANGED <<now, ended, file, pass, record>>

-----------------------------------------------------------------------------
(* One pass of shift(). *)

(* The pass ends, whether it is through or an exception leaves main(). *)
Exit ==
    /\ pc' = "idle"
    /\ memory' = file'
    /\ passNow' = 0
    /\ page' = << >>
    /\ upTo' = 0
    /\ clearing' = FALSE

(* The timer: `now` is taken and the state file is read. *)
Begin ==
    /\ pc = "idle"
    /\ pc' = "query"
    /\ memory' = file
    /\ passNow' = now
    /\ UNCHANGED <<airflow, file, page, upTo, clearing, record>>

(* Runs that stand failed now and ended since the last check. *)
FailedSince(t) == {<<r, ended[r]>> : r \in {r \in Run : state[r] = "failed" /\ ended[r] >= t}}

(* Slip: the request sets no limit. *)
Unpaged(failures) ==
    LET earlier(f) == {g \in failures : g[2] < f[2]}
    IN  [i \in 1 .. Cardinality(failures) |->
            CHOOSE f \in failures : Cardinality(earlier(f)) = i - 1]

(* The answer's order: by end date, the first Page of them. *)
OldestFirst(failures) ==
    LET earlier(f) == {g \in failures : g[2] < f[2]}
        place(f) == Cardinality(earlier(f)) + 1
        size == IF Cardinality(failures) < Page THEN Cardinality(failures) ELSE Page
    IN  [i \in 1 .. size |-> CHOOSE f \in failures : place(f) = i]

(* Slip: the check always moves to now, also when a full page hides more. *)
UpToNow(runs, t) == t

(* "A full page may hide more: next pass continues from the last one."     *)
UpTo(runs, t) == IF Len(runs) = Page THEN runs[Page][2] ELSE t

(* failed_runs(): the list is read once, and aged from here on. *)
Query ==
    /\ pc = "query"
    /\ LET runs == OldestFirst(FailedSince(Since(memory, passNow)))
       IN  page' = runs /\ upTo' = UpTo(runs, passNow)
    /\ pc' = "next"
    /\ UNCHANGED <<airflow, file, memory, passNow, clearing, record>>

(* A failure already handled is passed over. *)
Skip ==
    /\ pc = "next" /\ page # << >>
    /\ Head(page) \in memory.handled
    /\ page' = Tail(page)
    /\ UNCHANGED <<airflow, file, pc, memory, passNow, upTo, clearing, record>>

(* No log to be had, or the cap is reached: reported without a diagnosis. *)
ReportUnread ==
    /\ pc = "next" /\ page # << >>
    /\ Head(page) \notin memory.handled
    /\ pc' = "save"
    /\ clearing' = FALSE
    /\ UNCHANGED <<airflow, file, memory, passNow, page, upTo, record>>

(* What the agent may conclude: whether the cause is transient. No answer, *)
(* an error or an unreadable one is an unknown verdict, not transient.     *)
Verdict == BOOLEAN

(* The agent is counted, then asked. A transient cause clears the run,     *)
(* unless it was cleared before.                                           *)
Diagnose ==
    /\ pc = "next" /\ page # << >>
    /\ Head(page) \notin memory.handled
    /\ memory.agentRuns[DayOf(passNow)] < AgentCap
    /\ memory' = [memory EXCEPT !.agentRuns[DayOf(passNow)] = @ + 1]
    /\ \E transient \in Verdict :
        /\ clearing' = (transient /\ ~WasCleared(memory, Head(page)))
        /\ pc' = IF clearing' THEN "clear" ELSE "save"
    /\ UNCHANGED <<airflow, file, passNow, page, upTo, record>>

(* clearTaskInstances, only failed ones: the run runs again. *)
TakesEffect(r) ==
    /\ state' = [state EXCEPT ![r] = IF @ = "failed" THEN "running" ELSE @]
    /\ clears' = [clears EXCEPT ![r] = IF state[r] = "failed" THEN OneMore(@) ELSE @]

Clear ==
    /\ pc = "clear"
    /\ TakesEffect(Head(page)[1])
    /\ pc' = "save"
    /\ UNCHANGED <<now, ended, file, memory, passNow, page, upTo, clearing,
                   reports, mails>>

(* The request failed, or its answer was lost: NightShiftError. *)
ClearFails ==
    /\ pc = "clear"
    /\ TakesEffect(Head(page)[1]) \/ UNCHANGED <<state, clears>>
    /\ UNCHANGED <<now, ended, file, reports, mails>>
    /\ Exit

Marked(data, f, c) ==
    [data EXCEPT !.handled = @ \cup {f}, !.cleared = IF c THEN @ \cup {f} ELSE @]

(* Slip: the state waits to be saved until the pass is through. *)
MarkOnly ==
    /\ pc = "save"
    /\ memory' = Marked(memory, Head(page), clearing)
    /\ pc' = "report"
    /\ UNCHANGED <<airflow, file, passNow, page, upTo, clearing, record>>

(* mark() and save(): os.replace puts the new file in place at once. *)
Save ==
    /\ pc = "save"
    /\ memory' = Marked(memory, Head(page), clearing)
    /\ file' = memory'
    /\ pc' = "report"
    /\ UNCHANGED <<airflow, passNow, page, upTo, clearing, record>>

WriteReport ==
    /\ pc = "report"
    /\ reports' = reports \cup {Head(page)}
    /\ pc' = "mail"
    /\ UNCHANGED <<airflow, file, memory, passNow, page, upTo, clearing, mails, clears>>

Sent(f) == mails' = [mails EXCEPT ![f] = OneMore(@)]

Mail ==
    /\ pc = "mail"
    /\ Sent(Head(page))
    /\ page' = Tail(page)
    /\ pc' = "next"
    /\ UNCHANGED <<airflow, file, memory, passNow, upTo, clearing, reports, clears>>

(* The mail server refuses, or the answer to a delivered mail is lost. *)
MailFails ==
    /\ pc = "mail"
    /\ Sent(Head(page)) \/ UNCHANGED mails
    /\ UNCHANGED <<airflow, file, reports, clears>>
    /\ Exit

(* All looked at: the next pass starts where this one read up to. *)
Finish ==
    /\ pc = "next" /\ page = << >>
    /\ file' = [memory EXCEPT !.lastChecked = upTo]
    /\ Exit
    /\ UNCHANGED <<airflow, record>>

(* Airflow is unreachable, the disk is full, or the process dies. *)
Abort ==
    /\ pc # "idle"
    /\ UNCHANGED <<airflow, file, record>>
    /\ Exit

-----------------------------------------------------------------------------
PassStep ==
    \/ Begin \/ Query
    \/ Skip \/ ReportUnread \/ Diagnose
    \/ Clear \/ Save \/ WriteReport \/ Mail
    \/ Finish

Breakdown == ClearFails \/ MailFails \/ Abort

AirflowStep == Tick \/ \E r \in Run : Fail(r) \/ Succeed(r) \/ ClearByHand(r)

Next == PassStep \/ Breakdown \/ AirflowStep

Spec == Init /\ [][Next]_vars

(* The timer fires again and again; what is tried in pass after pass       *)
(* succeeds in the end, except the mail, which need never go out.          *)
Fairness ==
    /\ WF_vars(Begin)
    /\ SF_vars(Query)
    /\ SF_vars(Skip)
    /\ SF_vars(ReportUnread \/ Diagnose)
    /\ SF_vars(Clear)
    /\ SF_vars(Save)
    /\ SF_vars(WriteReport)
    /\ SF_vars(Mail \/ MailFails)
    /\ SF_vars(Finish)

FairSpec == Spec /\ Fairness

-----------------------------------------------------------------------------
(* Properties. *)

(* No failure falls between two passes: when last_checked moves, every run *)
(* that stands failed and ended between the old and the new mark has been  *)
(* handled, full pages and failures that arrive during the pass included   *)
(* (night_shift.py:342-344).                                               *)
NothingSkipped ==
    [][file'.lastChecked # file.lastChecked =>
        \A r \in Run :
            /\ state[r] = "failed"
            /\ ended[r] >= Since(file, passNow)
            /\ ended[r] < file'.lastChecked
            => <<r, ended[r]>> \in file'.handled]_vars

(* Once the state file says a run was cleared, no pass clears it again,    *)
(* not even after it failed anew (night_shift.py:208-214, 334).            *)
RecordedClearIsFinal ==
    [][\A r \in Run :
        (\E f \in file.cleared : f[1] = r) => clears'[r] = clears[r]]_vars

(* Whatever breaks around the mail, no failure is mailed twice, and what   *)
(* was mailed is on disk and remembered: no later pass can take it for new *)
(* ("remembered before the report and the mail", night_shift.py:8).        *)
NoRepeatedMail ==
    \A f \in Failure :
        /\ mails[f] <= 1
        /\ mails[f] = 1 => f \in file.handled \cap reports

(* A run that stands failed is handled in the end, also while no mail ever *)
(* gets out: each pass gets at least one failure further.                  *)
FailuresAreHandled ==
    \A r \in Run :
        state[r] = "failed" ~> state[r] # "failed" \/ <<r, ended[r]>> \in file.handled

(* A pass that breaks costs at most one agent run more than the cap: what  *)
(* the file does not know yet is one run, of the pass's own day, and only  *)
(* until the failure is saved. Each later pass starts from what the file   *)
(* knows, so a day of n broken passes pays AgentCap + n runs, although     *)
(* "a crash loop must not turn into a bill" (night_shift.py:37, 329-336).  *)
OneRunAtRisk ==
    \A d \in DayNumber :
        memory.agentRuns[d] # file.agentRuns[d] =>
            /\ pc \in {"clear", "save"}
            /\ d = DayOf(passNow)
            /\ memory.agentRuns[d] = file.agentRuns[d] + 1
=============================================================================
