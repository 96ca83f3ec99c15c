---------------------------- MODULE PricingTool -----------------------------
(***************************************************************************)
(* The pricing tool of src/megavolt_tool: the routes of main.py, served by *)
(* threads of one process that share the rate limits, the portfolio's      *)
(* figures of the day and the one lock each of them has (pricing.py), and  *)
(* Supabase, which opens sessions and keeps the record (session.py).       *)
(*                                                                         *)
(* A request is taken once and goes through its route step by step; every  *)
(* call out of the process may fail, and a call to Supabase may also take  *)
(* effect while its answer is lost.                                        *)
(*                                                                         *)
(* Abstraction: a person is signed in before the first request and holds   *)
(* a token that verifies; only the sessions opened here are counted. The   *)
(* figures of the portfolio are the day they are for and the moment the    *)
(* reading of the warehouse for them began, which takes minutes; an offer  *)
(* is the figures it was priced with.                                      *)
(***************************************************************************)
EXTENDS Integers, Sequences, FiniteSets

CONSTANTS
    Requests,       \* bound: how many requests come, each in a thread of its own
    Ask,            \* Ask[r]: what a request may ask, records [action, who]
    RoleOf,         \* RoleOf[p]: app_metadata.role of person p
    Roleless,       \* the role of an account without one
    PerHour,        \* CALCULATIONS_PER_HOUR and SIGN_INS_PER_HOUR
    HourLength,     \* moments of an hour
    DayLength,      \* moments of a day
    LastMoment,     \* bound: the last moment
    MaxResets,      \* bound: manual refreshes
    Free,           \* the lock nobody holds
    None            \* nothing yet

Request == 1 .. Requests     \* in the order of their arrival
Action == {"offer", "portfolio", "signin", "signout"}
Person == DOMAIN RoleOf
Figures == [day : Nat, since : Nat]
Status == {"error", "refused", "priced", "portfolio", "signed in", "signed out"}
Answers == [status : Status, figures : Figures \cup {None}]

ASSUME PricingToolAssumption ==
    /\ Requests \in Nat
    /\ Ask \in [Request -> SUBSET [action : Action, who : Person]]
    /\ PerHour \in [{"offer", "signin"} -> Nat \ {0}]
    /\ HourLength \in Nat \ {0}
    /\ DayLength \in Nat \ {0}
    /\ LastMoment \in Nat
    /\ MaxResets \in Nat
    /\ Free \notin Request
    /\ None \notin Figures \cup [action : Action, who : Person] \cup Answers
    /\ None \notin [event : {"priced", "portfolio", "refused"}, figures : Figures \cup {None}]

VARIABLES
    clock,          \* datetime.now(UTC)
    step,           \* step[r]: the next step of the request
    ask,            \* ask[r]: what it asks
    stamp,          \* stamp[r]: `now` of RateLimit.check, taken before the lock
    local,          \* local[r]: what else the thread holds
    calls,          \* RateLimit._calls, of both limits: whose stamps a list holds
    lock,           \* who holds Portfolio._lock over a computation
    value,          \* Portfolio._value
    day,            \* Portfolio._day
    rows,           \* the record: pairs <<request, row>>
    answer,         \* answer[r]: how it was answered, with the figures it was shown
    sessions,       \* sessions open at Supabase, by the request that signed in
    \* History, read by no action of the tool:
    admitted,       \* requests a limit let through
    checked,        \* requests a limit looked at
    late,           \* those looked at after one with a later stamp
    made,           \* days of the completed computations since the last reset
    resets,         \* manual refreshes
    lost            \* sessions with a call that got lost

threads == <<step, local, answer>>
limits == <<calls, admitted, checked, late>>
portfolio == <<lock, value, day, made, resets>>
supabase == <<sessions, lost>>
vars == <<clock, threads, ask, stamp, limits, portfolio, rows, supabase>>

Moment == 0 .. LastMoment
DayOf(t) == t \div DayLength
Offering == {"sales", "support", "analyst"}
Viewing == {"analyst", "admin"}

(* A thread's locals: the moment it took the lock of the portfolio, from    *)
(* which `today` follows, the figures it got and the row it will record.    *)
Blank == [took |-> None, figures |-> None, row |-> None]

Init ==
    /\ clock = 0
    /\ step = [r \in Request |-> "idle"]
    /\ ask = [r \in Request |-> None]
    /\ stamp = [r \in Request |-> 0]
    /\ local = [r \in Request |-> Blank]
    /\ calls = [k \in {"offer", "signin"} |-> [p \in Person |-> {}]]
    /\ lock = Free
    /\ value = None
    /\ day = None
    /\ rows = {}
    /\ answer = [r \in Request |-> None]
    /\ sessions = {}
    /\ admitted = {}
    /\ checked = {}
    /\ late = {}
    /\ made = << >>
    /\ resets = 0
    /\ lost = {}

Tick ==
    /\ clock < LastMoment
    /\ clock' = clock + 1
    /\ UNCHANGED <<threads, ask, stamp, limits, portfolio, rows, supabase>>

-----------------------------------------------------------------------------
(* How a request goes on, and how it ends.                                 *)

GoesOn(r, next, held) ==
    /\ step' = [step EXCEPT ![r] = next]
    /\ local' = [local EXCEPT ![r] = held]
    /\ UNCHANGED answer

Ends(r, status, shown) ==
    /\ step' = [step EXCEPT ![r] = "done"]
    /\ local' = [local EXCEPT ![r] = Blank]
    /\ answer' = [answer EXCEPT ![r] = [status |-> status, figures |-> shown]]

(* The row of the record: the figures of a price are its detail, a view of  *)
(* the portfolio and a refusal have none.                                   *)
RowFor(event, shown) ==
    [event |-> event, figures |-> IF event = "priced" THEN shown ELSE None]

(* What will be shown is ready; audit comes next. *)
WillRecord(r, event, took, shown) ==
    GoesOn(r, "recording", [took |-> took, figures |-> shown, row |-> RowFor(event, shown)])

Refuse(r) == WillRecord(r, "refused", None, None)

-----------------------------------------------------------------------------
(* The session gate and the limits.                                        *)

Allowed(a) ==
    \/ a.action = "offer" /\ RoleOf[a.who] \in Offering
    \/ a.action = "portfolio" /\ RoleOf[a.who] \in Viewing
    \/ a.action = "signout" /\ RoleOf[a.who] # Roleless
    \/ a.action = "signin"

FirstStep == [offer |-> "checking", signin |-> "checking",
              portfolio |-> "portfolio", signout |-> "closing"]

(* A request passes the gate, and its thread reads the clock for the limit. *)
Arrive(r) ==
    /\ step[r] = "idle"
    /\ r > 1 => step[r - 1] # "idle"
    /\ \E a \in Ask[r] :
        /\ ask' = [ask EXCEPT ![r] = a]
        /\ IF Allowed(a) THEN GoesOn(r, FirstStep[a.action], Blank) ELSE Ends(r, "error", None)
        /\ stamp' = [stamp EXCEPT ![r] = IF a.action \in DOMAIN PerHour THEN clock ELSE 0]
    /\ UNCHANGED <<clock, limits, portfolio, rows, supabase>>

(* Slip: only the calls before this one are counted, and kept. *)
RecentBefore(kept, now) ==
    {q \in kept : now - stamp[q] < HourLength /\ stamp[q] <= now}

(* [t for t in ... if now - t < timedelta(hours=1)] *)
Recent(kept, now) ==
    {q \in kept : now - stamp[q] < HourLength}

(* RateLimit.check under its lock. *)
Check(r) ==
    LET kind == ask[r].action
        who == ask[r].who
        recent == Recent(calls[kind][who], stamp[r])
    IN
    /\ step[r] = "checking"
    /\ checked' = checked \cup {r}
    /\ late' = late \cup {s \in {r} : \E q \in checked : ask[q] = ask[s] /\ stamp[q] > stamp[s]}
    /\ \/ /\ Cardinality(recent) >= PerHour[kind]
          /\ calls' = [calls EXCEPT ![kind][who] = recent]
          /\ IF kind = "offer" THEN Refuse(r) ELSE Ends(r, "refused", None)
          /\ UNCHANGED admitted
       \/ /\ Cardinality(recent) < PerHour[kind]
          /\ calls' = [calls EXCEPT ![kind][who] = recent \cup {r}]
          /\ GoesOn(r, IF kind = "offer" THEN "reading" ELSE "opening", Blank)
          /\ admitted' = admitted \cup {r}
    /\ UNCHANGED <<clock, ask, stamp, portfolio, rows, supabase>>

-----------------------------------------------------------------------------
(* The offer and the portfolio.                                            *)

(* The store's answers on the customer, the prices, the settled quarter    *)
(* hours and the spread: rows, an identifier that is not ours, an error.   *)
Read(r) ==
    /\ step[r] = "reading"
    /\ \/ GoesOn(r, "portfolio", Blank)
       \/ Ends(r, "error", None)
       \/ Refuse(r)
    /\ UNCHANGED <<clock, ask, stamp, limits, portfolio, rows, supabase>>

(* With the figures in hand: a view shows them, an offer is priced.        *)
Continue(r, took, current) ==
    IF ask[r].action = "offer"
    THEN GoesOn(r, "pricing", [took |-> took, figures |-> current, row |-> None])
    ELSE WillRecord(r, "portfolio", took, current)

(* Slip: the figures are looked at before the lock is taken. *)
EnterUnlocked(r) ==
    /\ step[r] = "portfolio"
    /\ IF value # None /\ day = DayOf(clock)
       THEN Continue(r, clock, value) /\ UNCHANGED lock
       ELSE lock' = r /\ GoesOn(r, "computing", [Blank EXCEPT !.took = clock])
    /\ UNCHANGED <<clock, ask, stamp, limits, value, day, made, resets, rows, supabase>>

(* Portfolio.current takes the lock: figures of today are returned, else   *)
(* the lock is held and a computation begins.                              *)
Enter(r) ==
    /\ step[r] = "portfolio"
    /\ lock = Free
    /\ \/ /\ value # None /\ day = DayOf(clock)
          /\ Continue(r, clock, value)
          /\ UNCHANGED lock
       \/ /\ value = None \/ day # DayOf(clock)
          /\ lock' = r
          /\ GoesOn(r, "computing", [Blank EXCEPT !.took = clock])
    /\ UNCHANGED <<clock, ask, stamp, limits, value, day, made, resets, rows, supabase>>

Succeeds(r) ==
    LET took == local[r].took
        new == [day |-> DayOf(took), since |-> took]
    IN
    /\ lock' = Free
    /\ value' = new
    /\ day' = new.day
    /\ made' = Append(made, new.day)
    /\ Continue(r, took, new)

(* Slip: the day is marked before the figures are there. *)
FailsMarked(r) ==
    /\ lock' = Free
    /\ day' = DayOf(local[r].took)
    /\ UNCHANGED <<value, made>>
    /\ Refuse(r) \/ Ends(r, "error", None)

(* Slip: only an error the routes know lets go of the lock. *)
FailsLocked(r) ==
    /\ UNCHANGED <<value, day, made>>
    /\ \/ lock' = Free /\ Refuse(r)
       \/ UNCHANGED lock /\ Ends(r, "error", None)

(* A computation that fails, with an error the routes know or with another, *)
(* leaves the figures that were there and lets go of the lock.              *)
Fails(r) ==
    /\ lock' = Free
    /\ UNCHANGED <<value, day, made>>
    /\ Refuse(r) \/ Ends(r, "error", None)

Compute(r) ==
    /\ step[r] = "computing"
    /\ Succeeds(r) \/ Fails(r)
    /\ UNCHANGED <<clock, ask, stamp, limits, resets, rows, supabase>>

Reset ==
    /\ lock = Free
    /\ resets < MaxResets
    /\ resets' = resets + 1
    /\ value' = None
    /\ day' = None
    /\ made' = << >>
    /\ UNCHANGED <<clock, threads, ask, stamp, limits, lock, rows, supabase>>

(* The engine's price and `shown`: an offer, a ToolError, or an error that *)
(* no route knows.                                                         *)
Price(r) ==
    /\ step[r] = "pricing"
    /\ \/ WillRecord(r, "priced", local[r].took, local[r].figures)
       \/ Refuse(r)
       \/ Ends(r, "error", None)
    /\ UNCHANGED <<clock, ask, stamp, limits, portfolio, rows, supabase>>

(* Slip: a record that cannot be written is logged, no more. *)
RecordOrLog(r) ==
    /\ step[r] = "recording"
    /\ \/ rows' = rows \cup {<<r, local[r].row>>}
       \/ UNCHANGED rows
    /\ Ends(r, local[r].row.event, local[r].figures)
    /\ UNCHANGED <<clock, ask, stamp, limits, portfolio, supabase>>

(* audit: the row, then the answer; a row that was not confirmed, written   *)
(* or not, ends the request with an error.                                  *)
Record(r) ==
    /\ step[r] = "recording"
    /\ \/ /\ rows' = rows \cup {<<r, local[r].row>>}
          /\ Ends(r, local[r].row.event, local[r].figures)
       \/ rows' = rows \cup {<<r, local[r].row>>} /\ Ends(r, "error", None)
       \/ UNCHANGED rows /\ Ends(r, "error", None)
    /\ UNCHANGED <<clock, ask, stamp, limits, portfolio, supabase>>

-----------------------------------------------------------------------------
(* Signing in and out.                                                     *)

(* Supabase.sign_in: a session and its token, a session whose answer was   *)
(* lost, none.                                                             *)
Open(r) ==
    /\ step[r] = "opening"
    /\ \/ sessions' = sessions \cup {r} /\ GoesOn(r, "verifying", Blank) /\ UNCHANGED lost
       \/ sessions' = sessions \cup {r} /\ Ends(r, "refused", None) /\ lost' = lost \cup {r}
       \/ Ends(r, "refused", None) /\ UNCHANGED supabase
    /\ UNCHANGED <<clock, ask, stamp, limits, portfolio, rows>>

(* Slip: the session of an account without a role is left open. *)
VerifyOnly(r) ==
    /\ step[r] = "verifying"
    /\ \/ RoleOf[ask[r].who] # Roleless /\ Ends(r, "signed in", None)
       \/ Ends(r, "refused", None)
    /\ UNCHANGED <<clock, ask, stamp, limits, portfolio, rows, supabase>>

(* A session whose token does not verify, for want of a role or of the     *)
(* signing keys, is closed again. An answer of the key endpoint that is no *)
(* JSON is an error the route does not catch: it ends the request there.   *)
Verify(r) ==
    /\ step[r] = "verifying"
    /\ \/ RoleOf[ask[r].who] # Roleless /\ Ends(r, "signed in", None)
       \/ GoesOn(r, "closing", Blank)
       \/ Ends(r, "error", None)
    /\ UNCHANGED <<clock, ask, stamp, limits, portfolio, rows, supabase>>

(* Supabase.sign_out, of the session just opened or of one the person has; *)
(* a call that does not get through is no error.                           *)
Close(r) ==
    LET own == {s \in sessions : ask[s].who = ask[r].who /\ step[s] = "done"}
        signIn == ask[r].action = "signin"
    IN
    /\ step[r] = "closing"
    /\ \E s \in IF signIn THEN {r} ELSE own \cup {r} :
        \/ sessions' = sessions \ {s} /\ UNCHANGED lost
        \/ lost' = lost \cup {s} /\ UNCHANGED sessions
    /\ Ends(r, IF signIn THEN "refused" ELSE "signed out", None)
    /\ UNCHANGED <<clock, ask, stamp, limits, portfolio, rows>>

(* Steps that come to an end: the thread's own, and the calls to Supabase,  *)
(* each of which has a time-out.                                            *)
Prompt(r) ==
    Check(r) \/ Enter(r) \/ Record(r) \/ Open(r) \/ Verify(r) \/ Close(r)

(* The calls of the warehouse and of the engine: nothing bounds them.       *)
Unbounded(r) == Read(r) \/ Compute(r) \/ Price(r)

Serve(r) == Prompt(r) \/ Unbounded(r)

Next == Tick \/ Reset \/ \E r \in Request : Arrive(r) \/ Serve(r)

Spec == Init /\ [][Next]_vars

(* A thread that can run is scheduled; a call without a time-out may hang.  *)
FairSpec == Spec /\ \A r \in Request : WF_vars(Prompt(r))

-----------------------------------------------------------------------------
(* Correctness.                                                            *)

Row == [event : {"priced", "portfolio", "refused"}, figures : Figures \cup {None}]
Step == {"idle", "checking", "reading", "portfolio", "computing", "pricing", "recording",
         "opening", "verifying", "closing", "done"}

(* The types, the lists of the limits within their ceilings, and the lock   *)
(* held by the one thread that computes.                                    *)
TypeOK ==
    /\ clock \in Nat
    /\ step \in [Request -> Step]
    /\ \A r \in Request : ask[r] \in (IF step[r] = "idle" THEN {None} ELSE Ask[r])
    /\ stamp \in [Request -> Nat]
    /\ local \in [Request -> [took : Nat \cup {None}, figures : Figures \cup {None},
                              row : Row \cup {None}]]
    /\ calls \in [DOMAIN PerHour -> [Person -> SUBSET Request]]
    /\ \A k \in DOMAIN PerHour, p \in Person : Cardinality(calls[k][p]) <= PerHour[k]
    /\ answer \in [Request -> Answers \cup {None}]
    /\ value \in Figures \cup {None}
    /\ \A r \in Request : step[r] = "computing" <=> lock = r
    /\ sessions \subseteq Request

(* No hour of a person's holds more calculations, or sign-in attempts, than *)
(* the ceiling, in whatever order the threads reach the lock: one that was  *)
(* overtaken by a thread with a later clock may be let in above it, but     *)
(* takes no entry of the others away (RateLimit.check, pricing.py).         *)
RollingCeiling ==
    \A kind \in DOMAIN PerHour, p \in Person, end \in Moment :
        Cardinality({r \in admitted \ late :
                        /\ ask[r] = [action |-> kind, who |-> p]
                        /\ stamp[r] \in (end - HourLength + 1) .. end}) <= PerHour[kind]

(* The figures a request gets are of the day on which it took the lock, and *)
(* the reading for them began on that day, however long it had waited and   *)
(* whatever failed before (Portfolio.current, pricing.py:126-137).          *)
FiguresOfTheDay ==
    \A r \in Request : local[r].figures # None =>
        /\ local[r].figures.day = DayOf(local[r].took)
        /\ DayOf(local[r].figures.since) = local[r].figures.day
        /\ local[r].figures.since <= local[r].took

(* Between two refreshes a computation for a day is completed at most once, *)
(* and none for a day before it; and once the figures of a day are there,   *)
(* no thread spends the minutes on that day again, whatever it waited for.  *)
(* A computation that fails is repeated by the next in line (pricing.py).   *)
ComputedOnce ==
    /\ \A i, j \in 1 .. Len(made) : i < j => made[i] < made[j]
    /\ \A r \in Request : step[r] = "computing" =>
        \A i \in 1 .. Len(made) : made[i] < DayOf(local[r].took)

Recorded(r) ==
    /\ answer[r] # None
    /\ \/ answer[r].status \in {"priced", "portfolio"}
       \/ answer[r].status = "refused" /\ ask[r].action \in {"offer", "portfolio"}

(* No row, no answer (audit, main.py): whatever a person was shown stands   *)
(* in the record under the same request, a price with the same figures. And *)
(* what stands there was shown, or the request ended in an error, and a     *)
(* price among it was counted by the limit, its answer lost or not.         *)
NoRowNoAnswer ==
    /\ \A r \in Request :
        Recorded(r) => <<r, RowFor(answer[r].status, answer[r].figures)>> \in rows
    /\ \A entry \in rows :
        LET r == entry[1]
            event == entry[2].event
        IN  /\ answer[r] # None /\ answer[r].status \in {event, "error"}
            /\ event = "priced" => r \in admitted

(* A sign-in that was refused leaves no session behind at Supabase, unless  *)
(* a call was lost on its way (sign_in, main.py:131-135). It says nothing   *)
(* of a sign-in that ended in an error of the key endpoint: that one leaves *)
(* its session open.                                                        *)
RefusedLeavesNoSession ==
    \A r \in sessions : answer[r] # None /\ answer[r].status = "refused" => r \in lost

InCall(r) == step[r] \in {"reading", "computing", "pricing"}
BehindACall(r) == step[r] = "portfolio" /\ \E q \in Request : step[q] = "computing"

(* Every request is answered, unless it hangs in a call that has no         *)
(* time-out, or waits for the lock of the portfolio while its holder hangs  *)
(* in one: no other thread is left behind, whichever order they came in and *)
(* whatever failed (Portfolio.current, pricing.py:126-137).                 *)
EveryRequestAnswered ==
    \A r \in Request : <>[](step[r] \in {"idle", "done"} \/ InCall(r) \/ BehindACall(r))
=============================================================================
