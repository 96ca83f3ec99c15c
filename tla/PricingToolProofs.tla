------------------------- MODULE PricingToolProofs --------------------------
(* What the pricing tool promises for any number of requests, persons and  *)
(* moments: first of the figures, the record and the sessions, then of the *)
(* limits and of the types that rest on them.                              *)
EXTENDS PricingTool, FiniteSetTheorems, TLAPS

-----------------------------------------------------------------------------
(* The invariant. *)

AskRecord == [action : Action, who : Person]
Local == [took : Nat \cup {None}, figures : Figures \cup {None}, row : Row \cup {None}]

Threads ==
    /\ clock \in Nat
    /\ step \in [Request -> Step]
    /\ ask \in [Request -> AskRecord \cup {None}]
    /\ local \in [Request -> Local]
    /\ answer \in [Request -> Answers \cup {None}]
    /\ rows \subseteq Request \X Row
    /\ sessions \subseteq Request

(* Where a request may stand, by what it asks and what it has passed. *)
Stage(r) ==
    /\ step[r] # "idle" => ask[r] \in AskRecord
    /\ step[r] = "checking" => ask[r].action \in {"offer", "signin"}
    /\ step[r] \in {"reading", "pricing"} => ask[r].action = "offer"
    /\ step[r] \in {"reading", "portfolio", "computing", "pricing"} =>
            (ask[r].action = "offer" => r \in admitted)
    /\ step[r] \in {"opening", "verifying"} => ask[r].action = "signin"
    /\ step[r] = "closing" => ask[r].action \in {"signin", "signout"}
    /\ step[r] = "recording" =>
            /\ local[r].row \in Row
            /\ local[r].row = RowFor(local[r].row.event, local[r].figures)
            /\ local[r].row.event = "priced" => r \in admitted
    /\ answer[r] # None => step[r] = "done"
    /\ r \in sessions => step[r] \in {"verifying", "closing", "done"}

(* What the threads share of the portfolio. *)
Shared ==
    /\ made \in Seq(Nat)
    /\ value = None => made = << >>
    /\ value # None =>
        /\ value \in Figures
        /\ day = value.day
        /\ DayOf(value.since) = value.day
        /\ value.since <= clock
        /\ \A i \in 1 .. Len(made) : made[i] <= value.day

(* The thread that computes has the lock, and no day is made like its own. *)
Computing(r) ==
    step[r] = "computing" =>
        /\ lock = r
        /\ local[r].took \in Nat
        /\ local[r].took <= clock
        /\ \A i \in 1 .. Len(made) : made[i] < DayOf(local[r].took)

(* What the properties say of one request. *)
FiguresFit(r) ==
    local[r].figures # None =>
        /\ local[r].figures.day = DayOf(local[r].took)
        /\ DayOf(local[r].figures.since) = local[r].figures.day
        /\ local[r].figures.since <= local[r].took

RowStands(r) ==
    /\ Recorded(r) => <<r, RowFor(answer[r].status, answer[r].figures)>> \in rows
    /\ \A row \in Row : <<r, row>> \in rows =>
        /\ answer[r] # None /\ answer[r].status \in {row.event, "error"}
        /\ row.event = "priced" => r \in admitted

SessionClosed(r) ==
    r \in sessions /\ answer[r] # None /\ answer[r].status = "refused" => r \in lost

Served(r) == Stage(r) /\ FiguresFit(r) /\ RowStands(r) /\ SessionClosed(r)

(* The days of the computations that were completed come in order. *)
InOrder == \A i, j \in 1 .. Len(made) : i < j => made[i] < made[j]

PricingInv ==
    /\ Threads
    /\ \A r \in Request : Served(r)
    /\ Shared
    /\ \A r \in Request : Computing(r)
    /\ InOrder

-----------------------------------------------------------------------------
(* A later moment is of no earlier day. *)
LEMMA DaysInOrder ==
    ASSUME NEW s \in Nat, NEW t \in Nat, s <= t
    PROVE  DayOf(s) \in Nat /\ DayOf(t) \in Nat /\ DayOf(s) <= DayOf(t)
<1>1. DayLength \in Nat /\ DayLength > 0
    BY PricingToolAssumption
<1> DEFINE L == DayLength
           p == s \div L
           q == t \div L
<1>2. p \in Nat /\ q \in Nat
    BY <1>1
<1>3. L * p <= s /\ t < L * (q + 1)
    BY <1>1
<1>4. ASSUME q < p PROVE FALSE
    <2>1. q + 1 <= p
        BY <1>2, <1>4
    <2>2. L * (q + 1) <= L * p
        BY <1>1, <1>2, <2>1
    <2>3. L * (q + 1) \in Int /\ L * p \in Int
        BY <1>1, <1>2
    <2> HIDE DEF p, q, L
    <2> QED
        BY <1>3, <2>2, <2>3
<1> QED
    BY <1>2, <1>4 DEF DayOf

-----------------------------------------------------------------------------
(* What a step of one request leaves to the others. *)

Apart(r) ==
    /\ \A q \in Request \ {r} :
        step'[q] = step[q] /\ ask'[q] = ask[q] /\ local'[q] = local[q] /\ answer'[q] = answer[q]
    /\ admitted \subseteq admitted' /\ lost \subseteq lost'
    /\ rows \subseteq rows' /\ rows' \subseteq rows \cup ({r} \X Row)
    /\ sessions' \subseteq sessions \cup {r}

(* The other requests are served as before. *)
LEMMA OthersServed ==
    ASSUME PricingInv, NEW r \in Request, Apart(r)
    PROVE  \A q \in Request \ {r} : Served(q)'
<1> TAKE q \in Request \ {r}
<1>1. Served(q)
    BY DEF PricingInv
<1>2. step'[q] = step[q] /\ ask'[q] = ask[q] /\ local'[q] = local[q] /\ answer'[q] = answer[q]
    BY DEF Apart
<1>3. admitted \subseteq admitted' /\ lost \subseteq lost' /\ rows \subseteq rows'
      /\ (q \in sessions' => q \in sessions)
      /\ \A row : <<q, row>> \in rows' => <<q, row>> \in rows
    BY DEF Apart
<1>4. Stage(q)'
    BY <1>1, <1>2, <1>3 DEF Served, Stage, RowFor
<1>5. FiguresFit(q)'
    BY <1>1, <1>2 DEF Served, FiguresFit, DayOf
<1>6. RowStands(q)'
    BY <1>1, <1>2, <1>3 DEF Served, RowStands, Recorded, RowFor
<1>7. SessionClosed(q)'
    BY <1>1, <1>2, <1>3 DEF Served, SessionClosed
<1> QED
    BY <1>4, <1>5, <1>6, <1>7 DEF Served

(* A step that leaves the portfolio and the clock alone. *)
LEMMA PortfolioKept ==
    ASSUME PricingInv, NEW r \in Request, Apart(r), UNCHANGED <<clock, portfolio>>,
           step'[r] # "computing"
    PROVE  Shared' /\ (\A q \in Request : Computing(q)') /\ InOrder'
<1>1. Shared'
    BY DEF PricingInv, Shared, portfolio, DayOf
<1>2. ASSUME NEW q \in Request PROVE Computing(q)'
    <2>1. CASE q = r
        BY <2>1 DEF Computing
    <2>2. CASE q # r
        <3>1. step'[q] = step[q] /\ local'[q] = local[q]
            BY <2>2 DEF Apart
        <3>2. Computing(q)
            BY DEF PricingInv
        <3> QED
            BY <3>1, <3>2 DEF Computing, portfolio, DayOf
    <2> QED
        BY <2>1, <2>2
<1>3. InOrder'
    BY DEF PricingInv, InOrder, portfolio
<1> QED
    BY <1>1, <1>2, <1>3

(* Going on moves this request only. *)
LEMMA Going ==
    ASSUME Threads, NEW r \in Request, NEW next \in Step, NEW held \in Local,
           GoesOn(r, next, held)
    PROVE  /\ step' \in [Request -> Step] /\ step'[r] = next
           /\ local' \in [Request -> Local] /\ local'[r] = held
           /\ answer' = answer
           /\ \A q \in Request \ {r} : step'[q] = step[q] /\ local'[q] = local[q]
BY DEF GoesOn, Threads

(* So does ending, and the thread lets go of what it held. *)
LEMMA Ending ==
    ASSUME Threads, NEW r \in Request, NEW status \in Status, NEW shown \in Figures \cup {None},
           Ends(r, status, shown)
    PROVE  /\ step' \in [Request -> Step] /\ step'[r] = "done"
           /\ local' \in [Request -> Local] /\ local'[r] = Blank
           /\ answer' \in [Request -> Answers \cup {None}]
           /\ answer'[r] = [status |-> status, figures |-> shown]
           /\ answer'[r] # None
           /\ \A q \in Request \ {r} :
                step'[q] = step[q] /\ local'[q] = local[q] /\ answer'[q] = answer[q]
<1>1. Blank \in Local
    BY DEF Blank, Local
<1>2. "done" \in Step
    BY DEF Step
<1>3. [status |-> status, figures |-> shown] \in Answers
    BY DEF Answers
<1>4. None \notin Answers
    BY PricingToolAssumption
<1> QED
    BY <1>1, <1>2, <1>3, <1>4 DEF Ends, Threads

(* A request that has ended is served, when the record and its session are  *)
(* what the answer says.                                                    *)
LEMMA EndServed ==
    ASSUME PricingInv, NEW r \in Request,
           NEW status \in Status, NEW shown \in Figures \cup {None}, Ends(r, status, shown),
           ask'[r] \in AskRecord, RowStands(r)',
           r \in sessions' /\ status = "refused" => r \in lost'
    PROVE  Served(r)'
<1>1. step'[r] = "done" /\ local'[r] = Blank /\ answer'[r] = [status |-> status, figures |-> shown]
    BY Ending DEF PricingInv
<1>2. Stage(r)'
    BY <1>1 DEF Stage
<1>3. FiguresFit(r)'
    BY <1>1 DEF FiguresFit, Blank
<1>4. SessionClosed(r)'
    BY <1>1 DEF SessionClosed
<1> QED
    BY <1>2, <1>3, <1>4 DEF Served

(* A request on its way has no row yet. *)
LEMMA NoRowYet ==
    ASSUME PricingInv, NEW r \in Request, step[r] # "done"
    PROVE  answer[r] = None /\ \A row \in Row : <<r, row>> \notin rows
BY DEF PricingInv, Served, Stage, RowStands

(* An answer that owes no row leaves the record as it is. *)
OffRecord(r, status) ==
    /\ status \in {"error", "refused", "signed in", "signed out"}
    /\ status = "refused" => ask[r].action = "signin"

LEMMA NothingRecorded ==
    ASSUME PricingInv, NEW r \in Request, step[r] # "done", rows' = rows,
           NEW status \in Status, Ends(r, status, None), OffRecord(r, status)'
    PROVE  RowStands(r)'
<1>1. answer'[r] = [status |-> status, figures |-> None]
    BY Ending DEF PricingInv
<1>2. ~ Recorded(r)'
    <2>1. answer'[r].status = status
        BY <1>1
    <2> QED
        BY <2>1 DEF Recorded, OffRecord
<1>3. \A row \in Row : <<r, row>> \notin rows'
    BY NoRowYet
<1> QED
    BY <1>2, <1>3 DEF RowStands

(* A request that goes on is served, when its next stage fits. *)
LEMMA GoServed ==
    ASSUME PricingInv, NEW r \in Request, step[r] # "done", rows' = rows,
           NEW next \in Step, NEW held \in Local, GoesOn(r, next, held),
           Stage(r)', FiguresFit(r)'
    PROVE  Served(r)'
<1>1. answer'[r] = None /\ \A row \in Row : <<r, row>> \notin rows'
    BY NoRowYet DEF GoesOn
<1> QED
    BY <1>1 DEF Served, RowStands, Recorded, SessionClosed

(* A step that leaves the clock and the portfolio alone keeps the invariant *)
(* when the types and the acting request do.                                *)
LEMMA StepKeeps ==
    ASSUME PricingInv, NEW r \in Request, Threads', Apart(r), Served(r)',
           UNCHANGED <<clock, portfolio>>, step'[r] # "computing"
    PROVE  PricingInv'
<1>1. \A q \in Request : Served(q)'
    BY OthersServed
<1> QED
    BY <1>1, PortfolioKept DEF PricingInv

(* The refusal on record. *)
Refusal == [took |-> None, figures |-> None, row |-> RowFor("refused", None)]

LEMMA Refusing ==
    ASSUME PricingInv, NEW r \in Request, step[r] # "done", rows' = rows, Refuse(r),
           ask[r] \in AskRecord, ask'[r] = ask[r],
           r \in sessions' => r \in sessions, step[r] \notin {"verifying", "closing"}
    PROVE  /\ Served(r)' /\ GoesOn(r, "recording", Refusal)
           /\ "recording" \in Step /\ Refusal \in Local
<1>1. Refusal.row \in Row /\ Refusal.row = RowFor("refused", None)
      /\ Refusal.row.event = "refused" /\ Refusal.figures = None
    BY DEF Refusal, Row, RowFor
<1>2. Refusal \in Local
    BY DEF Refusal, Local, Row, RowFor
<1>3. "recording" \in Step
    BY DEF Step
<1>4. GoesOn(r, "recording", Refusal)
    BY DEF Refuse, WillRecord, Refusal
<1>5. step'[r] = "recording" /\ local'[r] = Refusal /\ answer' = answer
    BY <1>2, <1>3, <1>4, Going DEF PricingInv
<1>6. r \notin sessions /\ answer[r] = None
    BY NoRowYet DEF PricingInv, Served, Stage
<1>7. Stage(r)'
    BY <1>1, <1>5, <1>6 DEF Stage
<1>8. FiguresFit(r)'
    BY <1>1, <1>5 DEF FiguresFit
<1> QED
    BY <1>2, <1>3, <1>4, <1>7, <1>8, GoServed

-----------------------------------------------------------------------------
(* Init, and the steps that are nobody's. *)
LEMMA PricingInit == Init => PricingInv
<1> SUFFICES ASSUME Init PROVE PricingInv
    OBVIOUS
<1>1. Threads
    <2>1. Blank \in Local /\ "idle" \in Step
        BY DEF Blank, Local, Step
    <2> QED
        BY <2>1 DEF Init, Threads
<1>2. ASSUME NEW r \in Request PROVE Served(r) /\ Computing(r)
    <2>1. step[r] = "idle" /\ local[r] = Blank /\ answer[r] = None /\ sessions = {}
        BY DEF Init
    <2> QED
        BY <2>1 DEF Init, Served, Stage, FiguresFit, RowStands, Recorded, SessionClosed, Computing, Blank
<1>3. Shared
    <2>1. made = << >> /\ value = None
        BY DEF Init
    <2> QED
        BY <2>1 DEF Shared
<1>4. InOrder
    <2>1. Len(made) = 0
        BY DEF Init
    <2> QED
        BY <2>1 DEF InOrder
<1> QED
    BY <1>1, <1>2, <1>3, <1>4 DEF PricingInv

(* The clock. *)
LEMMA TickKeeps == ASSUME PricingInv, Tick PROVE PricingInv'
<1>1. clock \in Nat /\ clock' = clock + 1
    BY DEF PricingInv, Threads, Tick
<1>2. UNCHANGED <<step, local, answer, ask, admitted, rows, sessions, lost, lock, value, day, made>>
    BY DEF Tick, threads, limits, portfolio, supabase
<1>3. Threads'
    BY <1>1, <1>2 DEF PricingInv, Threads
<1>4. ASSUME NEW r \in Request PROVE Served(r)'
    <2>1. Served(r)
        BY DEF PricingInv
    <2> QED
        BY <1>2, <2>1 DEF Served, Stage, FiguresFit, RowStands, Recorded, RowFor, SessionClosed, DayOf
<1>5. Shared'
    <2>1. Shared
        BY DEF PricingInv
    <2> QED
        BY <1>1, <1>2, <2>1 DEF Shared, Figures, DayOf
<1>6. ASSUME NEW r \in Request PROVE Computing(r)'
    <2>1. Computing(r)
        BY DEF PricingInv
    <2> QED
        BY <1>1, <1>2, <2>1 DEF Computing, DayOf
<1>7. InOrder'
    BY <1>2 DEF PricingInv, InOrder
<1> QED
    BY <1>3, <1>4, <1>5, <1>6, <1>7 DEF PricingInv

(* A manual refresh finds nobody computing. *)
LEMMA ResetKeeps == ASSUME PricingInv, Reset PROVE PricingInv'
<1>1. UNCHANGED <<clock, step, local, answer, ask, admitted, rows, sessions, lost, lock>>
    BY DEF Reset, threads, limits, supabase
<1>2. lock = Free /\ value' = None /\ day' = None /\ made' = << >>
    BY DEF Reset
<1>3. Threads'
    BY <1>1 DEF PricingInv, Threads
<1>4. ASSUME NEW r \in Request PROVE Served(r)'
    <2>1. Served(r)
        BY DEF PricingInv
    <2> QED
        BY <1>1, <2>1 DEF Served, Stage, FiguresFit, RowStands, Recorded, RowFor, SessionClosed, DayOf
<1>5. Shared'
    BY <1>2 DEF Shared
<1>6. ASSUME NEW r \in Request PROVE Computing(r)'
    <2>1. Computing(r)
        BY DEF PricingInv
    <2>2. r # Free
        BY PricingToolAssumption
    <2> QED
        BY <1>1, <1>2, <2>1, <2>2 DEF Computing
<1>7. InOrder'
    <2>1. Len(made') = 0
        BY <1>2
    <2> QED
        BY <2>1 DEF InOrder
<1> QED
    BY <1>3, <1>4, <1>5, <1>6, <1>7 DEF PricingInv

-----------------------------------------------------------------------------
(* The steps of a request. *)

(* The gate. *)
LEMMA ArriveKeeps == ASSUME PricingInv, NEW r \in Request, Arrive(r) PROVE PricingInv'
<1>1. UNCHANGED <<clock, portfolio, admitted, rows, sessions, lost>>
    BY DEF Arrive, limits, supabase
<1>2. step[r] = "idle" /\ Threads /\ Served(r)
    BY DEF Arrive, PricingInv
<1>3. r \notin sessions
    BY <1>2 DEF Served, Stage
<1>4. PICK a \in Ask[r] :
        /\ ask' = [ask EXCEPT ![r] = a]
        /\ IF Allowed(a) THEN GoesOn(r, FirstStep[a.action], Blank) ELSE Ends(r, "error", None)
    BY DEF Arrive
<1>5. a \in AskRecord
    BY PricingToolAssumption DEF AskRecord
<1>6. ask' \in [Request -> AskRecord \cup {None}] /\ ask'[r] = a
      /\ \A q \in Request \ {r} : ask'[q] = ask[q]
    BY <1>2, <1>4, <1>5 DEF Threads
<1>7. CASE Allowed(a)
    <2>1. GoesOn(r, FirstStep[a.action], Blank)
        BY <1>4, <1>7
    <2>2. a.action \in {"offer", "portfolio", "signin", "signout"}
        BY <1>5 DEF AskRecord, Action
    <2>3. /\ FirstStep[a.action] \in {"checking", "portfolio", "closing"}
          /\ FirstStep[a.action] = "checking" => a.action \in {"offer", "signin"}
          /\ FirstStep[a.action] = "portfolio" => a.action = "portfolio"
          /\ FirstStep[a.action] = "closing" => a.action = "signout"
        BY <2>2 DEF FirstStep
    <2>4. FirstStep[a.action] \in Step /\ Blank \in Local
        BY <2>3 DEF Step, Blank, Local
    <2>5. /\ step' \in [Request -> Step] /\ step'[r] = FirstStep[a.action]
          /\ local' \in [Request -> Local] /\ local'[r] = Blank
          /\ answer' = answer
          /\ \A q \in Request \ {r} : step'[q] = step[q] /\ local'[q] = local[q]
        BY <1>2, <2>1, <2>4, Going
    <2>6. Threads'
        BY <1>1, <1>2, <1>6, <2>5 DEF Threads
    <2>7. Apart(r)
        BY <1>1, <1>6, <2>5 DEF Apart
    <2>8. Stage(r)'
        <3>1. answer'[r] = None
            BY <1>2, <2>5 DEF Served, Stage
        <3> QED
            BY <1>1, <1>3, <1>5, <1>6, <2>3, <2>5, <3>1 DEF Stage
    <2>9. FiguresFit(r)'
        BY <2>5 DEF FiguresFit, Blank
    <2>10. Served(r)'
        BY <1>1, <1>2, <2>1, <2>4, <2>8, <2>9, GoServed
    <2> QED
        BY <1>1, <2>3, <2>5, <2>6, <2>7, <2>10, StepKeeps
<1>8. CASE ~ Allowed(a)
    <2>1. Ends(r, "error", None) /\ "error" \in Status
        BY <1>4, <1>8 DEF Status
    <2>2. Served(r)'
        <3>1. RowStands(r)'
            BY <1>1, <1>2, <2>1, NothingRecorded DEF OffRecord
        <3> QED
            BY <1>5, <1>6, <2>1, <3>1, EndServed
    <2>3. /\ step' \in [Request -> Step] /\ step'[r] = "done"
          /\ local' \in [Request -> Local]
          /\ answer' \in [Request -> Answers \cup {None}]
          /\ \A q \in Request \ {r} :
                step'[q] = step[q] /\ local'[q] = local[q] /\ answer'[q] = answer[q]
        BY <1>2, <2>1, Ending
    <2>4. Threads' /\ Apart(r)
        BY <1>1, <1>2, <1>6, <2>3 DEF Threads, Apart
    <2> QED
        BY <1>1, <2>2, <2>3, <2>4, StepKeeps
<1> QED
    BY <1>7, <1>8

(* The three ways a step of a request on its way ends, for the steps that  *)
(* leave the clock, the portfolio and what is asked alone and only add to   *)
(* the records.                                                            *)
Quiet(r) ==
    /\ step[r] \notin {"idle", "done"}
    /\ UNCHANGED <<clock, portfolio, ask>>
    /\ admitted \subseteq admitted' /\ lost \subseteq lost'
    /\ rows \subseteq rows' /\ rows' \subseteq rows \cup ({r} \X Row)
    /\ sessions' \subseteq sessions \cup {r}

LEMMA AsksSomething ==
    ASSUME PricingInv, NEW r \in Request, step[r] # "idle"
    PROVE  ask[r] \in AskRecord
BY DEF PricingInv, Served, Stage

LEMMA EndKeeps ==
    ASSUME PricingInv, NEW r \in Request, Quiet(r),
           NEW status \in Status, NEW shown \in Figures \cup {None}, Ends(r, status, shown),
           RowStands(r)', r \in sessions' /\ status = "refused" => r \in lost'
    PROVE  PricingInv'
<1>1. Threads
    BY DEF PricingInv
<1>2. /\ step' \in [Request -> Step] /\ step'[r] = "done"
      /\ local' \in [Request -> Local]
      /\ answer' \in [Request -> Answers \cup {None}]
      /\ \A q \in Request \ {r} :
            step'[q] = step[q] /\ local'[q] = local[q] /\ answer'[q] = answer[q]
    BY <1>1, Ending
<1>3. rows' \subseteq Request \X Row
    BY <1>1 DEF Quiet, Threads
<1>4. Threads' /\ Apart(r)
    BY <1>1, <1>2, <1>3 DEF Quiet, Threads, Apart
<1>5. ask'[r] \in AskRecord
    BY AsksSomething DEF Quiet
<1>6. Served(r)'
    BY <1>5, EndServed
<1> QED
    BY <1>2, <1>4, <1>6, StepKeeps DEF Quiet

LEMMA EndOffRecord ==
    ASSUME PricingInv, NEW r \in Request, Quiet(r), rows' = rows,
           NEW status, Ends(r, status, None), OffRecord(r, status),
           r \in sessions' /\ status = "refused" => r \in lost'
    PROVE  PricingInv'
<1>1. status \in Status
    BY DEF OffRecord, Status
<1>2. RowStands(r)'
    BY <1>1, NothingRecorded DEF Quiet, OffRecord
<1> QED
    BY <1>1, <1>2, EndKeeps

LEMMA GoKeeps ==
    ASSUME PricingInv, NEW r \in Request, Quiet(r), rows' = rows,
           NEW next \in Step, NEW held \in Local, GoesOn(r, next, held),
           next # "computing", Stage(r)', FiguresFit(r)'
    PROVE  PricingInv'
<1>1. Threads
    BY DEF PricingInv
<1>2. /\ step' \in [Request -> Step] /\ step'[r] = next
      /\ local' \in [Request -> Local] /\ answer' = answer
      /\ \A q \in Request \ {r} : step'[q] = step[q] /\ local'[q] = local[q]
    BY <1>1, Going
<1>3. Threads' /\ Apart(r)
    BY <1>1, <1>2 DEF Quiet, Threads, Apart
<1>4. Served(r)'
    BY GoServed DEF Quiet
<1> QED
    BY <1>2, <1>3, <1>4, StepKeeps DEF Quiet

LEMMA RefuseKeeps ==
    ASSUME PricingInv, NEW r \in Request, Quiet(r), rows' = rows, Refuse(r),
           sessions' = sessions, step[r] \notin {"verifying", "closing"}
    PROVE  PricingInv'
<1>1. ask[r] \in AskRecord /\ ask'[r] = ask[r]
    BY AsksSomething DEF Quiet
<1>2. /\ Served(r)' /\ GoesOn(r, "recording", Refusal)
      /\ "recording" \in Step /\ Refusal \in Local
    BY <1>1, Refusing DEF Quiet
<1>3. Stage(r)' /\ FiguresFit(r)'
    BY <1>2 DEF Served
<1> QED
    BY <1>2, <1>3, GoKeeps

(* The limits. *)
LEMMA CheckKeeps == ASSUME PricingInv, NEW r \in Request, Check(r) PROVE PricingInv'
<1>1. step[r] = "checking" /\ Served(r) /\ r \notin sessions
    BY DEF Check, PricingInv, Served, Stage
<1>2. Quiet(r) /\ sessions' = sessions /\ rows' = rows
    BY <1>1 DEF Check, Quiet, supabase
<1>3. ask[r] \in AskRecord /\ ask[r].action \in {"offer", "signin"}
    BY <1>1, AsksSomething DEF Served, Stage
<1>4. CASE Refuse(r)
    BY <1>1, <1>2, <1>4, RefuseKeeps
<1>5. CASE ask[r].action # "offer" /\ Ends(r, "refused", None)
    <2>1. OffRecord(r, "refused")
        BY <1>3, <1>5 DEF OffRecord
    <2> QED
        BY <1>1, <1>2, <1>5, <2>1, EndOffRecord
<1>6. CASE GoesOn(r, IF ask[r].action = "offer" THEN "reading" ELSE "opening", Blank)
           /\ admitted' = admitted \cup {r}
    <2> DEFINE next == IF ask[r].action = "offer" THEN "reading" ELSE "opening"
    <2>1. next \in Step /\ next # "computing" /\ Blank \in Local
        BY DEF Step, Blank, Local
    <2>2. step'[r] = next /\ local'[r] = Blank /\ answer' = answer
        BY <1>6, <2>1, Going DEF PricingInv
    <2>3. answer[r] = None /\ ask'[r] = ask[r]
        BY <1>1, <1>2 DEF Served, Stage, Quiet
    <2>4. Stage(r)'
        BY <1>1, <1>2, <1>3, <1>6, <2>2, <2>3 DEF Stage
    <2>5. FiguresFit(r)'
        BY <2>2 DEF FiguresFit, Blank
    <2> QED
        BY <1>2, <1>6, <2>1, <2>4, <2>5, GoKeeps
<1> QED
    BY <1>4, <1>5, <1>6 DEF Check

(* The store's answers. *)
LEMMA ReadKeeps == ASSUME PricingInv, NEW r \in Request, Read(r) PROVE PricingInv'
<1>1. step[r] = "reading" /\ Served(r) /\ r \notin sessions
    BY DEF Read, PricingInv, Served, Stage
<1>2. Quiet(r) /\ sessions' = sessions /\ rows' = rows
    BY <1>1 DEF Read, Quiet, supabase, limits
<1>3. CASE GoesOn(r, "portfolio", Blank)
    <2>1. "portfolio" \in Step /\ Blank \in Local
        BY DEF Step, Blank, Local
    <2>2. step'[r] = "portfolio" /\ local'[r] = Blank /\ answer' = answer
        BY <1>3, <2>1, Going DEF PricingInv
    <2>3. ask'[r] = ask[r]
        BY <1>2 DEF Quiet
    <2>4. Stage(r)'
        BY <1>1, <1>2, <2>2, <2>3 DEF Served, Stage, Quiet
    <2>5. FiguresFit(r)'
        BY <2>2 DEF FiguresFit, Blank
    <2> QED
        BY <1>2, <1>3, <2>1, <2>4, <2>5, GoKeeps
<1>4. CASE Ends(r, "error", None)
    <2>1. OffRecord(r, "error")
        BY DEF OffRecord
    <2> QED
        BY <1>1, <1>2, <1>4, <2>1, EndOffRecord
<1>5. CASE Refuse(r)
    BY <1>1, <1>2, <1>5, RefuseKeeps
<1> QED
    BY <1>3, <1>4, <1>5 DEF Read

(* The engine's price. *)
LEMMA PriceKeeps == ASSUME PricingInv, NEW r \in Request, Price(r) PROVE PricingInv'
<1>1. step[r] = "pricing" /\ Served(r) /\ r \notin sessions /\ local[r] \in Local
    BY DEF Price, PricingInv, Served, Stage, Threads
<1>2. Quiet(r) /\ sessions' = sessions /\ rows' = rows
    BY <1>1 DEF Price, Quiet, supabase, limits
<1>3. CASE WillRecord(r, "priced", local[r].took, local[r].figures)
    <2> DEFINE row == RowFor("priced", local[r].figures)
               held == [took |-> local[r].took, figures |-> local[r].figures, row |-> row]
    <2>1. row \in Row /\ row.event = "priced"
        BY <1>1 DEF Row, RowFor, Local
    <2>2. held \in Local /\ held.row = row /\ row = RowFor(row.event, held.figures)
          /\ held.figures = local[r].figures /\ held.took = local[r].took
        BY <1>1, <2>1 DEF Local
    <2>3. GoesOn(r, "recording", held) /\ "recording" \in Step
        BY <1>3 DEF WillRecord, Step
    <2>4. r \in admitted'
        BY <1>1, <1>2 DEF Served, Stage, Quiet
    <2> HIDE DEF held, row
    <2>5. step'[r] = "recording" /\ local'[r] = held /\ answer' = answer
        BY <2>2, <2>3, Going DEF PricingInv
    <2>6. ask'[r] = ask[r] /\ answer[r] = None
        BY <1>1, <1>2 DEF Quiet, Served, Stage
    <2>7. Stage(r)'
        BY <1>1, <1>2, <2>1, <2>2, <2>4, <2>5, <2>6 DEF Served, Stage
    <2>8. FiguresFit(r)'
        BY <1>1, <2>2, <2>5 DEF Served, FiguresFit, DayOf
    <2> QED
        BY <1>2, <2>2, <2>3, <2>7, <2>8, GoKeeps
<1>4. CASE Refuse(r)
    BY <1>1, <1>2, <1>4, RefuseKeeps
<1>5. CASE Ends(r, "error", None)
    <2>1. OffRecord(r, "error")
        BY DEF OffRecord
    <2> QED
        BY <1>1, <1>2, <1>5, <2>1, EndOffRecord
<1> QED
    BY <1>3, <1>4, <1>5 DEF Price

(* The record and the answer. *)
LEMMA RecordKeeps == ASSUME PricingInv, NEW r \in Request, Record(r) PROVE PricingInv'
<1>1. step[r] = "recording" /\ Served(r) /\ r \notin sessions
    BY DEF Record, PricingInv, Served, Stage
<1>2. sessions' = sessions /\ admitted' = admitted
    BY DEF Record, supabase, limits
<1>3. /\ local[r].row \in Row
      /\ local[r].row = RowFor(local[r].row.event, local[r].figures)
      /\ local[r].row.event = "priced" => r \in admitted
      /\ local[r].figures \in Figures \cup {None}
    BY <1>1 DEF PricingInv, Threads, Local, Served, Stage
<1>4. Quiet(r)
    <2>1. rows' = rows \cup {<<r, local[r].row>>} \/ rows' = rows
        BY DEF Record
    <2>2. rows \subseteq rows' /\ rows' \subseteq rows \cup ({r} \X Row)
        BY <1>3, <2>1
    <2> QED
        BY <1>1, <1>2, <2>2 DEF Record, Quiet, supabase, limits
<1>5. local[r].row.event \in Status /\ "error" \in Status
    BY <1>3 DEF Row, Status
<1>6. \A row \in Row : <<r, row>> \notin rows
    BY <1>1, NoRowYet
<1>7. CASE rows' = rows \cup {<<r, local[r].row>>} /\ Ends(r, local[r].row.event, local[r].figures)
    <2> DEFINE event == local[r].row.event
               shown == local[r].figures
    <2>1. answer'[r] = [status |-> event, figures |-> shown] /\ answer'[r] # None
        BY <1>3, <1>5, <1>7, Ending DEF PricingInv
    <2>2. answer'[r].status = event /\ answer'[r].figures = shown
        BY <2>1
    <2>3. <<r, RowFor(event, shown)>> \in rows'
        BY <1>3, <1>7
    <2>4. \A row \in Row : <<r, row>> \in rows' => row.event = event
        BY <1>6, <1>7
    <2>5. RowStands(r)'
        BY <1>2, <1>3, <2>1, <2>2, <2>3, <2>4 DEF RowStands, RowFor
    <2> QED
        BY <1>1, <1>2, <1>3, <1>4, <1>5, <1>7, <2>5, EndKeeps
<1>8. CASE /\ rows' = rows \cup {<<r, local[r].row>>} \/ UNCHANGED rows
           /\ Ends(r, "error", None)
    <2>1. answer'[r] = [status |-> "error", figures |-> None] /\ answer'[r] # None
        BY <1>5, <1>8, Ending DEF PricingInv
    <2>2. ~ Recorded(r)'
        BY <2>1 DEF Recorded
    <2>3. \A row \in Row : <<r, row>> \in rows' => row = local[r].row
        BY <1>6, <1>8
    <2>4. RowStands(r)'
        BY <1>2, <1>3, <2>1, <2>2, <2>3 DEF RowStands
    <2> QED
        BY <1>1, <1>2, <1>4, <1>5, <1>8, <2>4, EndKeeps
<1> QED
    BY <1>7, <1>8 DEF Record

-----------------------------------------------------------------------------
(* The portfolio. *)

(* A thread goes on with figures that are of the day it took the lock. *)
LEMMA Continuing ==
    ASSUME PricingInv, NEW r \in Request, step[r] \in {"portfolio", "computing"},
           NEW took \in Nat, NEW current \in Figures, Continue(r, took, current),
           current.day = DayOf(took), DayOf(current.since) = current.day, current.since <= took,
           UNCHANGED <<ask, admitted, sessions, rows>>
    PROVE  /\ Served(r)'
           /\ step' \in [Request -> Step] /\ step'[r] \in {"pricing", "recording"}
           /\ local' \in [Request -> Local] /\ answer' = answer
           /\ \A q \in Request \ {r} : step'[q] = step[q] /\ local'[q] = local[q]
<1> DEFINE row == RowFor("portfolio", current)
           view == [took |-> took, figures |-> current, row |-> row]
           offer == [took |-> took, figures |-> current, row |-> None]
           held == IF ask[r].action = "offer" THEN offer ELSE view
           next == IF ask[r].action = "offer" THEN "pricing" ELSE "recording"
<1>1. row \in Row /\ row.event = "portfolio"
    BY DEF Row, RowFor
<1>2. held \in Local /\ held.took = took /\ held.figures = current
      /\ (next = "recording" => held.row = row)
    BY <1>1 DEF Local
<1>3. next \in Step /\ next \in {"pricing", "recording"}
    BY DEF Step
<1>4. GoesOn(r, next, held)
    BY DEF Continue, WillRecord
<1>5. Served(r) /\ Threads
    BY DEF PricingInv
<1>6. answer[r] = None /\ r \notin sessions /\ ask[r] \in AskRecord
      /\ (ask[r].action = "offer" => r \in admitted)
    BY <1>5 DEF Served, Stage
<1>7. row.event # "priced" /\ row = RowFor(row.event, current)
    BY <1>1
<1>8. next = "pricing" => ask[r].action = "offer"
    OBVIOUS
<1> HIDE DEF held, next, row
<1>9. /\ step' \in [Request -> Step] /\ step'[r] = next
      /\ local' \in [Request -> Local] /\ local'[r] = held /\ answer' = answer
      /\ \A q \in Request \ {r} : step'[q] = step[q] /\ local'[q] = local[q]
    BY <1>2, <1>3, <1>4, <1>5, Going
<1>10. Stage(r)'
    BY <1>1, <1>2, <1>3, <1>6, <1>7, <1>8, <1>9 DEF Stage
<1>11. FiguresFit(r)'
    BY <1>2, <1>9 DEF FiguresFit, DayOf
<1>12. Served(r)'
    BY <1>2, <1>3, <1>4, <1>10, <1>11, GoServed
<1> QED
    BY <1>3, <1>9, <1>12

LEMMA EnterKeeps == ASSUME PricingInv, NEW r \in Request, Enter(r) PROVE PricingInv'
<1>1. step[r] = "portfolio" /\ lock = Free /\ Served(r) /\ Threads /\ Shared /\ clock \in Nat
    BY DEF Enter, PricingInv, Threads
<1>2. UNCHANGED <<clock, ask, admitted, rows, sessions, lost, value, day, made, resets>>
    BY DEF Enter, limits, supabase
<1>3. CASE value # None /\ day = DayOf(clock) /\ Continue(r, clock, value) /\ UNCHANGED lock
    <2>1. value \in Figures /\ value.day = DayOf(clock) /\ DayOf(value.since) = value.day
          /\ value.since <= clock
        BY <1>1, <1>3 DEF Shared
    <2>2. /\ Served(r)' /\ step' \in [Request -> Step] /\ step'[r] \in {"pricing", "recording"}
          /\ local' \in [Request -> Local] /\ answer' = answer
          /\ \A q \in Request \ {r} : step'[q] = step[q] /\ local'[q] = local[q]
        BY <1>1, <1>2, <1>3, <2>1, Continuing
    <2>3. Threads' /\ Apart(r)
        BY <1>1, <1>2, <2>2 DEF Threads, Apart
    <2>4. UNCHANGED <<clock, portfolio>>
        BY <1>2, <1>3 DEF portfolio
    <2> QED
        BY <2>2, <2>3, <2>4, StepKeeps
<1>4. CASE /\ value = None \/ day # DayOf(clock)
           /\ lock' = r
           /\ GoesOn(r, "computing", [Blank EXCEPT !.took = clock])
    <2> DEFINE held == [Blank EXCEPT !.took = clock]
    <2>1. held \in Local /\ held.figures = None /\ held.took = clock /\ "computing" \in Step
        BY <1>1 DEF Blank, Local, Step
    <2>2. GoesOn(r, "computing", held)
        BY <1>4
    <2> HIDE DEF held
    <2>3. /\ step' \in [Request -> Step] /\ step'[r] = "computing"
          /\ local' \in [Request -> Local] /\ local'[r] = held /\ answer' = answer
          /\ \A q \in Request \ {r} : step'[q] = step[q] /\ local'[q] = local[q]
        BY <1>1, <2>1, <2>2, Going
    <2>4. Threads' /\ Apart(r)
        BY <1>1, <1>2, <2>3 DEF Threads, Apart
    <2>5. Stage(r)'
        BY <1>1, <1>2, <2>3 DEF Served, Stage
    <2>6. FiguresFit(r)'
        BY <2>1, <2>3 DEF FiguresFit
    <2>7. Served(r)'
        BY <1>1, <1>2, <2>1, <2>2, <2>5, <2>6, GoServed
    <2>8. \A q \in Request : Served(q)'
        BY <2>4, <2>7, OthersServed
    <2>9. Shared'
        BY <1>1, <1>2 DEF Shared, DayOf
    <2>10. \A i \in 1 .. Len(made) : made[i] < DayOf(clock)
        <3>1. CASE value = None
            <4>1. Len(made) = 0
                BY <1>1, <3>1 DEF Shared
            <4> QED
                BY <4>1
        <3>2. CASE value # None
            <4>1. value \in Figures /\ value.day # DayOf(clock) /\ value.day = DayOf(value.since)
                  /\ value.since <= clock
                BY <1>1, <1>4, <3>2 DEF Shared
            <4>2. value.day \in Nat /\ DayOf(clock) \in Nat /\ value.day <= DayOf(clock)
                BY <1>1, <4>1, DaysInOrder DEF Figures
            <4>3. made \in Seq(Nat) /\ \A i \in 1 .. Len(made) : made[i] <= value.day
                BY <1>1, <3>2 DEF Shared
            <4>4. \A i \in 1 .. Len(made) : made[i] \in Nat
                BY <4>3
            <4> QED
                BY <4>1, <4>2, <4>3, <4>4
        <3> QED
            BY <3>1, <3>2
    <2>11. ASSUME NEW q \in Request PROVE Computing(q)'
        <3>1. CASE q = r
            BY <1>1, <1>2, <1>4, <2>1, <2>3, <2>10, <3>1 DEF Computing, DayOf
        <3>2. CASE q # r
            <4>1. Computing(q) /\ lock # q
                BY <1>1, PricingToolAssumption DEF PricingInv
            <4> QED
                BY <2>3, <3>2, <4>1 DEF Computing
        <3> QED
            BY <3>1, <3>2
    <2>12. InOrder'
        BY <1>2 DEF PricingInv, InOrder
    <2> QED
        BY <2>4, <2>8, <2>9, <2>11, <2>12 DEF PricingInv
<1> QED
    BY <1>3, <1>4 DEF Enter

(* Only one thread computes: the one with the lock. *)
LEMMA Alone ==
    ASSUME PricingInv, NEW r \in Request, step[r] = "computing",
           NEW q \in Request, q # r
    PROVE  step[q] # "computing"
BY DEF PricingInv, Computing

LEMMA ComputeKeeps == ASSUME PricingInv, NEW r \in Request, Compute(r) PROVE PricingInv'
<1>1. /\ step[r] = "computing" /\ Served(r) /\ Threads /\ Shared /\ Computing(r) /\ InOrder
      /\ clock \in Nat
    BY DEF Compute, PricingInv, Threads
<1>2. UNCHANGED <<clock, ask, admitted, rows, sessions, lost>>
    BY DEF Compute, limits, supabase
<1>3. ask[r] \in AskRecord /\ ask'[r] = ask[r] /\ r \notin sessions /\ local[r] \in Local
    BY <1>1, <1>2, AsksSomething DEF Served, Stage, Threads
<1>4. ASSUME step'[r] # "computing", Apart(r) PROVE \A q \in Request : Computing(q)'
    <2> TAKE q \in Request
    <2>1. CASE q = r
        BY <1>4, <2>1 DEF Computing
    <2>2. CASE q # r
        <3>1. step'[q] # "computing"
            BY <1>1, <1>4, <2>2, Alone DEF Apart
        <3> QED
            BY <3>1 DEF Computing
    <2> QED
        BY <2>1, <2>2
<1>5. CASE Succeeds(r)
    <2> DEFINE took == local[r].took
               new == [day |-> DayOf(took), since |-> took]
    <2>1. took \in Nat /\ took <= clock /\ DayOf(took) \in Nat
        BY <1>1, DaysInOrder DEF Computing
    <2>2. new \in Figures /\ new.day = DayOf(took) /\ new.since = took
        BY <2>1 DEF Figures
    <2>3. value' = new /\ day' = new.day /\ made' = Append(made, new.day)
          /\ Continue(r, took, new)
        BY <1>5 DEF Succeeds
    <2>4. \A i \in 1 .. Len(made) : made[i] < DayOf(took)
        BY <1>1 DEF Computing
    <2> HIDE DEF took, new
    <2>5. /\ Served(r)' /\ step' \in [Request -> Step] /\ step'[r] \in {"pricing", "recording"}
          /\ local' \in [Request -> Local] /\ answer' = answer
          /\ \A q \in Request \ {r} : step'[q] = step[q] /\ local'[q] = local[q]
        <3>1. new.since <= took /\ DayOf(new.since) = new.day
            BY <2>1, <2>2
        <3> QED
            BY <1>1, <1>2, <2>1, <2>2, <2>3, <3>1, Continuing
    <2>6. Threads' /\ Apart(r)
        BY <1>1, <1>2, <2>5 DEF Threads, Apart
    <2>7. \A q \in Request : Served(q)'
        BY <2>5, <2>6, OthersServed
    <2>8. made \in Seq(Nat) /\ new.day \in Nat
        BY <1>1, <2>1, <2>2 DEF Shared
    <2>9. /\ made' \in Seq(Nat) /\ Len(made') = Len(made) + 1
          /\ \A i \in 1 .. Len(made) : made'[i] = made[i]
          /\ made'[Len(made) + 1] = new.day
        BY <2>3, <2>8
    <2>10. \A i \in 1 .. Len(made) : made[i] \in Nat
        BY <2>8
    <2>11. \A i \in 1 .. Len(made') : made'[i] <= new.day
        <3> TAKE i \in 1 .. Len(made')
        <3>1. Len(made) \in Nat
            BY <2>8
        <3>2. CASE i = Len(made) + 1
            BY <2>8, <2>9, <3>2
        <3>3. CASE i # Len(made) + 1
            <4>1. i \in 1 .. Len(made) /\ made'[i] = made[i]
                BY <2>9, <3>1, <3>3
            <4>2. made[i] < new.day
                BY <2>2, <2>4, <4>1
            <4> QED
                BY <2>8, <2>10, <4>1, <4>2
        <3> QED
            BY <3>2, <3>3
    <2>12. Shared'
        <3>1. new # None
            BY <2>2, PricingToolAssumption
        <3>2. DayOf(new.since) = new.day /\ new.since <= clock'
            BY <1>2, <2>1, <2>2
        <3> QED
            BY <2>2, <2>3, <2>9, <2>11, <3>1, <3>2 DEF Shared, DayOf
    <2>13. InOrder'
        <3> SUFFICES ASSUME NEW i \in 1 .. Len(made'), NEW j \in 1 .. Len(made'), i < j
                     PROVE  made'[i] < made'[j]
            BY DEF InOrder
        <3>1. i \in 1 .. Len(made) /\ made'[i] = made[i] /\ Len(made) \in Nat
            BY <2>8, <2>9
        <3>2. CASE j = Len(made) + 1
            BY <2>2, <2>4, <2>9, <3>1, <3>2
        <3>3. CASE j # Len(made) + 1
            <4>1. j \in 1 .. Len(made) /\ made'[j] = made[j]
                BY <2>9, <3>1, <3>3
            <4> QED
                BY <1>1, <3>1, <4>1 DEF InOrder
        <3> QED
            BY <3>2, <3>3
    <2>14. \A q \in Request : Computing(q)'
        BY <1>4, <2>5, <2>6
    <2> QED
        BY <2>6, <2>7, <2>12, <2>13, <2>14 DEF PricingInv
<1>6. CASE Fails(r)
    <2>1. UNCHANGED <<value, day, made>>
        BY <1>6 DEF Fails
    <2>2. Shared' /\ InOrder'
        BY <1>1, <1>2, <2>1 DEF Shared, InOrder, DayOf
    <2>3. CASE Refuse(r)
        <3>2. /\ Served(r)' /\ GoesOn(r, "recording", Refusal)
              /\ "recording" \in Step /\ Refusal \in Local
            BY <1>1, <1>2, <1>3, <2>3, Refusing
        <3>3. /\ step' \in [Request -> Step] /\ step'[r] = "recording"
              /\ local' \in [Request -> Local] /\ answer' = answer
              /\ \A q \in Request \ {r} : step'[q] = step[q] /\ local'[q] = local[q]
            BY <1>1, <3>2, Going
        <3>4. Served(r)'
            BY <3>2
        <3>5. Threads' /\ Apart(r)
            BY <1>1, <1>2, <3>3 DEF Threads, Apart
        <3>6. \A q \in Request : Served(q)' /\ Computing(q)'
            BY <1>4, <3>3, <3>4, <3>5, OthersServed
        <3> QED
            BY <2>2, <3>5, <3>6 DEF PricingInv
    <2>4. CASE Ends(r, "error", None)
        <3>1. "error" \in Status
            BY DEF Status
        <3>2. /\ step' \in [Request -> Step] /\ step'[r] = "done"
              /\ local' \in [Request -> Local]
              /\ answer' \in [Request -> Answers \cup {None}]
              /\ \A q \in Request \ {r} :
                    step'[q] = step[q] /\ local'[q] = local[q] /\ answer'[q] = answer[q]
            BY <1>1, <2>4, <3>1, Ending
        <3>3. Served(r)'
            <4>1. RowStands(r)'
                BY <1>1, <1>2, <2>4, <3>1, NothingRecorded DEF OffRecord
            <4> QED
                BY <1>2, <1>3, <2>4, <3>1, <4>1, EndServed
        <3>4. Threads' /\ Apart(r)
            BY <1>1, <1>2, <3>2 DEF Threads, Apart
        <3>5. \A q \in Request : Served(q)' /\ Computing(q)'
            BY <1>4, <3>2, <3>3, <3>4, OthersServed
        <3> QED
            BY <2>2, <3>4, <3>5 DEF PricingInv
    <2> QED
        BY <1>6, <2>3, <2>4 DEF Fails
<1> QED
    BY <1>5, <1>6 DEF Compute

-----------------------------------------------------------------------------
(* The sessions. *)
LEMMA OpenKeeps == ASSUME PricingInv, NEW r \in Request, Open(r) PROVE PricingInv'
<1>1. step[r] = "opening" /\ Served(r)
    BY DEF Open, PricingInv
<1>2. r \notin sessions /\ answer[r] = None /\ OffRecord(r, "refused")
    BY <1>1 DEF Served, Stage, OffRecord
<1>3. Quiet(r) /\ rows' = rows
    BY <1>1 DEF Open, Quiet, limits, supabase
<1>4. CASE sessions' = sessions \cup {r} /\ GoesOn(r, "verifying", Blank)
    <2>1. "verifying" \in Step /\ Blank \in Local
        BY DEF Step, Blank, Local
    <2>2. step'[r] = "verifying" /\ local'[r] = Blank /\ answer' = answer
        BY <1>4, <2>1, Going DEF PricingInv
    <2>3. ask'[r] = ask[r]
        BY <1>3 DEF Quiet
    <2>4. Stage(r)'
        BY <1>1, <1>2, <2>2, <2>3 DEF Served, Stage
    <2>5. FiguresFit(r)'
        BY <2>2 DEF FiguresFit, Blank
    <2> QED
        BY <1>3, <1>4, <2>1, <2>4, <2>5, GoKeeps
<1>5. CASE Ends(r, "refused", None) /\ lost' = lost \cup {r}
    BY <1>1, <1>2, <1>3, <1>5, EndOffRecord
<1>6. CASE Ends(r, "refused", None) /\ UNCHANGED supabase
    BY <1>1, <1>2, <1>3, <1>6, EndOffRecord DEF supabase
<1> QED
    BY <1>4, <1>5, <1>6 DEF Open

LEMMA VerifyKeeps == ASSUME PricingInv, NEW r \in Request, Verify(r) PROVE PricingInv'
<1>1. step[r] = "verifying" /\ Served(r) /\ OffRecord(r, "signed in") /\ OffRecord(r, "error")
    BY DEF Verify, PricingInv, OffRecord
<1>2. Quiet(r) /\ sessions' = sessions /\ rows' = rows
    BY <1>1 DEF Verify, Quiet, limits, supabase
<1>3. CASE Ends(r, "signed in", None)
    BY <1>1, <1>2, <1>3, EndOffRecord
<1>4. CASE GoesOn(r, "closing", Blank)
    <2>1. "closing" \in Step /\ Blank \in Local
        BY DEF Step, Blank, Local
    <2>2. step'[r] = "closing" /\ local'[r] = Blank /\ answer' = answer
        BY <1>4, <2>1, Going DEF PricingInv
    <2>3. ask'[r] = ask[r] /\ answer[r] = None
        BY <1>1, <1>2 DEF Quiet, Served, Stage
    <2>4. Stage(r)'
        BY <1>1, <1>2, <2>2, <2>3 DEF Served, Stage
    <2>5. FiguresFit(r)'
        BY <2>2 DEF FiguresFit, Blank
    <2> QED
        BY <1>2, <1>4, <2>1, <2>4, <2>5, GoKeeps
<1>5. CASE Ends(r, "error", None)
    BY <1>1, <1>2, <1>5, EndOffRecord
<1> QED
    BY <1>3, <1>4, <1>5 DEF Verify

LEMMA CloseKeeps == ASSUME PricingInv, NEW r \in Request, Close(r) PROVE PricingInv'
<1> DEFINE signIn == ask[r].action = "signin"
           own == {s \in sessions : ask[s].who = ask[r].who /\ step[s] = "done"}
<1>1. step[r] = "closing" /\ OffRecord(r, "signed out")
    BY DEF Close, OffRecord
<1>2. PICK s \in IF signIn THEN {r} ELSE own \cup {r} :
        \/ sessions' = sessions \ {s} /\ UNCHANGED lost
        \/ lost' = lost \cup {s} /\ UNCHANGED sessions
    BY DEF Close
<1>3. Quiet(r) /\ rows' = rows
    BY <1>1, <1>2 DEF Close, Quiet, limits
<1>4. Ends(r, IF signIn THEN "refused" ELSE "signed out", None)
    BY DEF Close
<1>5. CASE signIn
    <2>1. Ends(r, "refused", None) /\ (r \in sessions' => r \in lost')
        BY <1>2, <1>4, <1>5
    <2>2. OffRecord(r, "refused")
        BY <1>5 DEF OffRecord
    <2> QED
        BY <1>1, <1>3, <2>1, <2>2, EndOffRecord
<1>6. CASE ~ signIn
    <2>1. Ends(r, "signed out", None)
        BY <1>4, <1>6
    <2> QED
        BY <1>1, <1>3, <2>1, EndOffRecord
<1> QED
    BY <1>5, <1>6

-----------------------------------------------------------------------------
(* Every step keeps the invariant. *)
LEMMA PricingNext == PricingInv /\ [Next]_vars => PricingInv'
<1> SUFFICES ASSUME PricingInv, [Next]_vars PROVE PricingInv'
    OBVIOUS
<1>1. CASE Tick
    BY <1>1, TickKeeps
<1>2. CASE Reset
    BY <1>2, ResetKeeps
<1>3. ASSUME NEW r \in Request, Arrive(r) \/ Serve(r) PROVE PricingInv'
    BY <1>3, ArriveKeeps, CheckKeeps, ReadKeeps, EnterKeeps, ComputeKeeps, PriceKeeps,
       RecordKeeps, OpenKeeps, VerifyKeeps, CloseKeeps DEF Serve, Prompt, Unbounded
<1>4. CASE UNCHANGED vars
    <2>1. UNCHANGED <<clock, step, local, answer, ask, admitted, lock, value, day, made, rows,
                      sessions, lost>>
        BY <1>4 DEF vars, threads, limits, portfolio, supabase
    <2>2. Threads' /\ Shared' /\ InOrder'
        BY <2>1 DEF PricingInv, Threads, Shared, InOrder, DayOf
    <2>3. ASSUME NEW r \in Request PROVE Served(r)' /\ Computing(r)'
        <3>1. Served(r) /\ Computing(r)
            BY DEF PricingInv
        <3> QED
            BY <2>1, <3>1 DEF Served, Stage, FiguresFit, RowStands, Recorded, RowFor,
               SessionClosed, Computing, DayOf
    <2> QED
        BY <2>2, <2>3 DEF PricingInv
<1> QED
    BY <1>1, <1>2, <1>3, <1>4 DEF Next

LEMMA PricingAlways == Spec => []PricingInv
BY PricingInit, PricingNext, PTL DEF Spec

(* Nobody is priced with the figures of another day than the one on which   *)
(* the lock was taken, however long the wait for it (Portfolio.current).    *)
THEOREM FiguresAreOfTheDay == Spec => []FiguresOfTheDay
<1>1. PricingInv => FiguresOfTheDay
    BY DEF PricingInv, Served, FiguresFit, FiguresOfTheDay
<1> QED
    BY <1>1, PricingAlways, PTL

(* Between two refreshes the computation of a day is completed at most once *)
(* and the days come in order; and a thread that was behind in the queue    *)
(* does not compute a day whose figures are there. A computation that fails *)
(* is no part of this: the next in line repeats it (Portfolio.current).     *)
THEOREM EachDayIsComputedOnce == Spec => []ComputedOnce
<1>1. PricingInv => ComputedOnce
    BY DEF PricingInv, InOrder, Computing, ComputedOnce
<1> QED
    BY <1>1, PricingAlways, PTL

(* What a person was shown stands in the record, a price with its figures;  *)
(* and what stands there was shown or ended in an error, a price among it   *)
(* counted by the limit (audit and the routes, main.py).                    *)
THEOREM NoAnswerWithoutItsRow == Spec => []NoRowNoAnswer
<1>1. PricingInv => NoRowNoAnswer
    <2> SUFFICES ASSUME PricingInv PROVE NoRowNoAnswer
        OBVIOUS
    <2>1. \A r \in Request : RowStands(r)
        BY DEF PricingInv, Served
    <2>2. ASSUME NEW entry \in rows
          PROVE  /\ answer[entry[1]] # None
                 /\ answer[entry[1]].status \in {entry[2].event, "error"}
                 /\ entry[2].event = "priced" => entry[1] \in admitted
        <3>1. entry[1] \in Request /\ entry[2] \in Row /\ entry = <<entry[1], entry[2]>>
            BY DEF PricingInv, Threads
        <3> QED
            BY <2>1, <3>1 DEF RowStands
    <2> QED
        BY <2>1, <2>2 DEF RowStands, NoRowNoAnswer
<1> QED
    BY <1>1, PricingAlways, PTL

(* A refused sign-in leaves no session, but for a lost call (sign_in,       *)
(* main.py).                                                                *)
THEOREM RefusedSignInIsClosed == Spec => []RefusedLeavesNoSession
<1>1. PricingInv => RefusedLeavesNoSession
    BY DEF PricingInv, Threads, Served, SessionClosed, RefusedLeavesNoSession
<1> QED
    BY <1>1, PricingAlways, PTL

-----------------------------------------------------------------------------
(* The limits. *)

(* Every request that was let in still stands in the list it was put on, or *)
(* a request of the same person was checked an hour later.                  *)
Outlived(q) == \E x \in checked : ask[x] = ask[q] /\ stamp[x] >= stamp[q] + HourLength

Kept == \A q \in admitted : q \in calls[ask[q].action][ask[q].who] \/ Outlived(q)

Checked ==
    /\ admitted \subseteq checked
    /\ checked \subseteq Request
    /\ \A r \in checked :
        step[r] \notin {"idle", "checking"} /\ ask[r].action \in DOMAIN PerHour

Asked ==
    /\ stamp \in [Request -> Nat]
    /\ \A r \in Request : ask[r] \in (IF step[r] = "idle" THEN {None} ELSE Ask[r])

Listed ==
    /\ calls \in [DOMAIN PerHour -> [Person -> SUBSET Request]]
    /\ \A k \in DOMAIN PerHour, p \in Person : Cardinality(calls[k][p]) <= PerHour[k]

LockHeld == \A r \in Request : lock = r => step[r] = "computing"

LimitsInv == Checked /\ Asked /\ Listed /\ Kept /\ LockHeld /\ RollingCeiling

(* Sets of requests are finite. *)
LEMMA RequestsAreFew ==
    ASSUME NEW S \in SUBSET Request
    PROVE  IsFiniteSet(S) /\ Cardinality(S) \in Nat
<1>1. IsFiniteSet(Request)
    BY FS_Interval, PricingToolAssumption DEF Request
<1> QED
    BY <1>1, FS_Subset, FS_CardinalityType

LEMMA LimitsInit == Init => LimitsInv
<1> SUFFICES ASSUME Init PROVE LimitsInv
    OBVIOUS
<1>1. DOMAIN PerHour = {"offer", "signin"} /\ \A k \in DOMAIN PerHour : PerHour[k] \in Nat
    BY PricingToolAssumption
<1>2. Checked /\ Asked /\ Kept
    BY DEF Init, Checked, Asked, Kept
<1>3. Cardinality({}) = 0
    BY FS_EmptySet
<1>4. Listed
    <2>1. \A k \in DOMAIN PerHour, p \in Person : calls[k][p] = {}
        BY <1>1 DEF Init
    <2>2. calls \in [DOMAIN PerHour -> [Person -> SUBSET Request]]
        BY <1>1 DEF Init
    <2>3. \A k \in DOMAIN PerHour, p \in Person : Cardinality(calls[k][p]) <= PerHour[k]
        <3> TAKE k \in DOMAIN PerHour, p \in Person
        <3>1. PerHour[k] \in Nat /\ calls[k][p] = {}
            BY <1>1, <2>1
        <3> QED
            BY <1>3, <3>1
    <2> QED
        BY <2>2, <2>3 DEF Listed
<1>5. LockHeld
    BY PricingToolAssumption DEF Init, LockHeld
<1>6. RollingCeiling
    <2> SUFFICES ASSUME NEW kind \in DOMAIN PerHour, NEW p \in Person, NEW end \in Moment
                 PROVE  Cardinality({r \in admitted \ late :
                            /\ ask[r] = [action |-> kind, who |-> p]
                            /\ stamp[r] \in (end - HourLength + 1) .. end}) <= PerHour[kind]
        BY DEF RollingCeiling
    <2>1. {r \in admitted \ late :
                            /\ ask[r] = [action |-> kind, who |-> p]
                            /\ stamp[r] \in (end - HourLength + 1) .. end} = {}
        BY DEF Init
    <2>2. PerHour[kind] \in Nat
        BY <1>1
    <2> QED
        BY <1>3, <2>1, <2>2
<1> QED
    BY <1>2, <1>4, <1>5, <1>6 DEF LimitsInv

(* A request on its way moves on, and leaves what is asked as it was. *)
Passes(r) ==
    /\ step[r] # "idle"
    /\ step'[r] \notin {"idle", "checking"}
    /\ \A q \in Request \ {r} : step'[q] = step[q]
    /\ UNCHANGED <<ask, stamp>>

LEMMA ServePasses ==
    ASSUME PricingInv, NEW r \in Request, Serve(r)
    PROVE  Passes(r)
<1>1. step \in [Request -> Step]
    BY DEF PricingInv, Threads
<1>2. ASSUME NEW next, NEW held, GoesOn(r, next, held)
      PROVE  step'[r] = next /\ \A q \in Request \ {r} : step'[q] = step[q]
    BY <1>1, <1>2 DEF GoesOn
<1>3. ASSUME NEW status, NEW shown, Ends(r, status, shown)
      PROVE  step'[r] = "done" /\ \A q \in Request \ {r} : step'[q] = step[q]
    BY <1>1, <1>3 DEF Ends
<1>4. ASSUME Refuse(r)
      PROVE  step'[r] = "recording" /\ \A q \in Request \ {r} : step'[q] = step[q]
    BY <1>2, <1>4 DEF Refuse, WillRecord
<1>5. ASSUME NEW took, NEW current, Continue(r, took, current)
      PROVE  step'[r] \in {"pricing", "recording"} /\ \A q \in Request \ {r} : step'[q] = step[q]
    BY <1>2, <1>5 DEF Continue, WillRecord
<1>6. CASE Check(r)
    BY <1>2, <1>3, <1>4, <1>6 DEF Check, Passes
<1>7. CASE Read(r)
    BY <1>2, <1>3, <1>4, <1>7 DEF Read, Passes
<1>8. CASE Enter(r)
    <2>1. CASE Continue(r, clock, value)
        BY <1>5, <1>8, <2>1 DEF Enter, Passes
    <2>2. CASE GoesOn(r, "computing", [Blank EXCEPT !.took = clock])
        BY <1>2, <1>8, <2>2 DEF Enter, Passes
    <2> QED
        BY <1>8, <2>1, <2>2 DEF Enter
<1>9. CASE Compute(r)
    BY <1>3, <1>4, <1>5, <1>9 DEF Compute, Succeeds, Fails, Passes
<1>10. CASE Price(r)
    BY <1>2, <1>3, <1>4, <1>10 DEF Price, WillRecord, Passes
<1>11. CASE Record(r)
    BY <1>3, <1>11 DEF Record, Passes
<1>12. CASE Open(r)
    BY <1>2, <1>3, <1>12 DEF Open, Passes
<1>13. CASE Verify(r)
    <2>1. Ends(r, "signed in", None) \/ GoesOn(r, "closing", Blank) \/ Ends(r, "error", None)
        BY <1>13 DEF Verify
    <2>2. step'[r] \in {"done", "closing"} /\ \A q \in Request \ {r} : step'[q] = step[q]
        BY <1>2, <1>3, <2>1
    <2> QED
        BY <1>13, <2>2 DEF Verify, Passes
<1>14. CASE Close(r)
    BY <1>3, <1>14 DEF Close, Passes
<1> QED
    BY <1>6, <1>7, <1>8, <1>9, <1>10, <1>11, <1>12, <1>13, <1>14 DEF Serve, Prompt, Unbounded

(* The lock is held by the thread that computes. *)
LEMMA LockKeeps ==
    ASSUME PricingInv, LockHeld, NEW r \in Request, Serve(r)
    PROVE  LockHeld'
<1>1. \A q \in Request : step[q] = "computing" => lock = q
    BY DEF PricingInv, Computing
<1>2. Passes(r)
    BY ServePasses
<1>3. CASE Enter(r)
    <2>1. CASE UNCHANGED lock
        <3>1. lock = Free
            BY <1>3 DEF Enter
        <3> QED
            BY <2>1, <3>1, PricingToolAssumption DEF LockHeld
    <2>2. CASE lock' = r /\ GoesOn(r, "computing", [Blank EXCEPT !.took = clock])
        <3>1. step'[r] = "computing"
            BY <2>2 DEF GoesOn, PricingInv, Threads
        <3> QED
            BY <2>2, <3>1 DEF LockHeld
    <2> QED
        BY <1>3, <2>1, <2>2 DEF Enter
<1>4. CASE Compute(r)
    <2>1. lock' = Free
        BY <1>4 DEF Compute, Succeeds, Fails
    <2> QED
        BY <2>1, PricingToolAssumption DEF LockHeld
<1>5. CASE ~ Enter(r) /\ ~ Compute(r)
    <2>1. UNCHANGED lock /\ step[r] # "computing"
        BY <1>5 DEF Serve, Prompt, Unbounded, Check, Read, Price, Record, Open, Verify, Close, portfolio
    <2> QED
        BY <1>2, <2>1 DEF LockHeld, Passes
<1> QED
    BY <1>3, <1>4, <1>5

(* A step that looks at no limit leaves the lists as they were. *)
LEMMA LimitsKept ==
    ASSUME LimitsInv, LockHeld', Asked', UNCHANGED limits,
           \A q \in checked : step'[q] \notin {"idle", "checking"} /\ ask'[q] = ask[q] /\ stamp'[q] = stamp[q]
    PROVE  LimitsInv'
<1>1. UNCHANGED <<calls, admitted, checked, late>>
    BY DEF limits
<1>2. admitted \subseteq checked
    BY DEF LimitsInv, Checked
<1>3. Checked' /\ Listed'
    BY <1>1 DEF LimitsInv, Checked, Listed
<1>4. Kept'
    <2> SUFFICES ASSUME NEW q \in admitted
                 PROVE  q \in calls[ask'[q].action][ask'[q].who] \/ Outlived(q)'
        BY <1>1 DEF Kept
    <2>1. ask'[q] = ask[q] /\ stamp'[q] = stamp[q]
        BY <1>2
    <2>2. CASE Outlived(q)
        BY <1>1, <2>1, <2>2 DEF Outlived
    <2>3. CASE ~ Outlived(q)
        BY <2>1, <2>3 DEF LimitsInv, Kept
    <2> QED
        BY <2>2, <2>3
<1>5. RollingCeiling'
    <2> SUFFICES ASSUME NEW kind \in DOMAIN PerHour, NEW p \in Person, NEW end \in Moment
                 PROVE  Cardinality({r \in admitted' \ late' :
                            /\ ask'[r] = [action |-> kind, who |-> p]
                            /\ stamp'[r] \in (end - HourLength + 1) .. end}) <= PerHour[kind]
        BY DEF RollingCeiling
    <2>1. {r \in admitted' \ late' :
                            /\ ask'[r] = [action |-> kind, who |-> p]
                            /\ stamp'[r] \in (end - HourLength + 1) .. end}
          = {r \in admitted \ late :
                            /\ ask[r] = [action |-> kind, who |-> p]
                            /\ stamp[r] \in (end - HourLength + 1) .. end}
        BY <1>1, <1>2
    <2> QED
        BY <2>1 DEF LimitsInv, RollingCeiling
<1> QED
    BY <1>3, <1>4, <1>5 DEF LimitsInv

(* What Check keeps of the lists, and whom it lets in. *)
LEMMA CheckedOnce ==
    ASSUME PricingInv, LimitsInv, NEW r \in Request, Check(r)
    PROVE  /\ r \notin checked /\ r \notin admitted
           /\ ask[r] \in AskRecord /\ ask[r].action \in DOMAIN PerHour /\ ask[r].who \in Person
<1>1. step[r] = "checking"
    BY DEF Check
<1>2. ask[r] \in AskRecord /\ ask[r].action \in {"offer", "signin"}
    BY <1>1 DEF PricingInv, Served, Stage
<1>3. r \notin checked
    BY <1>1 DEF LimitsInv, Checked
<1> QED
    BY <1>2, <1>3, PricingToolAssumption DEF LimitsInv, Checked, AskRecord

LEMMA CheckLists ==
    ASSUME PricingInv, LimitsInv, NEW r \in Request, Check(r)
    PROVE  Listed' /\ Kept'
<1> DEFINE kind == ask[r].action
           who == ask[r].who
           recent == Recent(calls[kind][who], stamp[r])
<1>1. /\ r \notin checked /\ r \notin admitted
      /\ ask[r] \in AskRecord /\ kind \in DOMAIN PerHour /\ who \in Person
    BY CheckedOnce
<1>2. UNCHANGED <<ask, stamp>> /\ checked' = checked \cup {r}
    BY DEF Check
<1>3. calls \in [DOMAIN PerHour -> [Person -> SUBSET Request]]
      /\ (\A k \in DOMAIN PerHour, p \in Person : Cardinality(calls[k][p]) <= PerHour[k])
      /\ stamp \in [Request -> Nat]
    BY DEF LimitsInv, Listed, Asked
<1>4. PerHour[kind] \in Nat /\ HourLength \in Nat
    BY <1>1, PricingToolAssumption
<1>5. recent \in SUBSET calls[kind][who] /\ recent \in SUBSET Request
    BY <1>1, <1>3 DEF Recent
<1>6. IsFiniteSet(recent) /\ Cardinality(recent) \in Nat
      /\ Cardinality(calls[kind][who]) \in Nat /\ Cardinality(recent) <= Cardinality(calls[kind][who])
    <2>1. calls[kind][who] \in SUBSET Request
        BY <1>1, <1>3
    <2>2. IsFiniteSet(calls[kind][who])
        BY <2>1, RequestsAreFew
    <2> QED
        BY <1>5, <2>1, <2>2, RequestsAreFew, FS_Subset
<1>7. \E new \in SUBSET Request :
        /\ calls' = [calls EXCEPT ![kind][who] = new]
        /\ Cardinality(new) <= PerHour[kind]
        /\ recent \subseteq new
        /\ admitted' = admitted \/ (admitted' = admitted \cup {r} /\ r \in new)
    <2>1. CASE Cardinality(recent) >= PerHour[kind]
        <3>1. calls' = [calls EXCEPT ![kind][who] = recent] /\ admitted' = admitted
            BY <1>4, <1>6, <2>1 DEF Check
        <3>2. Cardinality(recent) <= PerHour[kind]
            BY <1>1, <1>3, <1>4, <1>6
        <3> HIDE DEF recent, kind, who
        <3> QED
            BY <1>5, <3>1, <3>2
    <2>2. CASE Cardinality(recent) < PerHour[kind]
        <3>1. calls' = [calls EXCEPT ![kind][who] = recent \cup {r}]
              /\ admitted' = admitted \cup {r}
            BY <1>4, <1>6, <2>2 DEF Check
        <3> HIDE DEF recent, kind, who
        <3>2. Cardinality(recent \cup {r}) <= PerHour[kind]
            <4>1. Cardinality(recent \cup {r}) \in {Cardinality(recent), Cardinality(recent) + 1}
                BY <1>6, FS_AddElement
            <4> QED
                BY <1>4, <1>6, <2>2, <4>1
        <3>3. recent \cup {r} \in SUBSET Request
            BY <1>5
        <3> QED
            BY <3>1, <3>2, <3>3
    <2>3. Cardinality(recent) >= PerHour[kind] \/ Cardinality(recent) < PerHour[kind]
        <3> HIDE DEF recent, kind
        <3> QED
            BY <1>4, <1>6
    <2> QED
        BY <2>1, <2>2, <2>3
<1>8. PICK new \in SUBSET Request :
        /\ calls' = [calls EXCEPT ![kind][who] = new]
        /\ Cardinality(new) <= PerHour[kind]
        /\ recent \subseteq new
        /\ admitted' = admitted \/ (admitted' = admitted \cup {r} /\ r \in new)
    BY <1>7
<1>9. \A q \in calls[kind][who] \ recent : stamp[r] >= stamp[q] + HourLength
    <2> TAKE q \in calls[kind][who] \ recent
    <2>1. q \in Request /\ ~ (stamp[r] - stamp[q] < HourLength)
        BY <1>1, <1>3 DEF Recent
    <2>2. stamp[q] \in Nat /\ stamp[r] \in Nat
        BY <1>3, <2>1
    <2> QED
        BY <1>4, <2>1, <2>2
<1> HIDE DEF recent, kind, who
<1>10. /\ calls' \in [DOMAIN PerHour -> [Person -> SUBSET Request]]
       /\ calls'[kind][who] = new
       /\ \A k \in DOMAIN PerHour, p \in Person :
            calls'[k][p] # calls[k][p] => k = kind /\ p = who
    BY <1>1, <1>3, <1>8
<1>11. Listed'
    <2> SUFFICES ASSUME NEW k \in DOMAIN PerHour, NEW p \in Person
                 PROVE  Cardinality(calls'[k][p]) <= PerHour[k]
        BY <1>10 DEF Listed
    <2>1. CASE calls'[k][p] = calls[k][p]
        BY <1>3, <2>1
    <2>2. CASE calls'[k][p] # calls[k][p]
        BY <1>8, <1>10, <2>2
    <2> QED
        BY <2>1, <2>2
<1>12. Kept'
    <2> SUFFICES ASSUME NEW q \in admitted'
                 PROVE  q \in calls'[ask[q].action][ask[q].who] \/ Outlived(q)'
        BY <1>2 DEF Kept
    <2>1. CASE q = r /\ r \in new
        BY <1>10, <2>1 DEF kind, who
    <2>2. CASE q \in admitted
        <3>1. CASE Outlived(q)
            BY <1>2, <3>1 DEF Outlived
        <3>2. CASE ~ Outlived(q)
            <4>1. q \in calls[ask[q].action][ask[q].who]
                BY <2>2, <3>2 DEF LimitsInv, Kept
            <4>2. q \in Request /\ step[q] # "idle"
                BY <2>2 DEF LimitsInv, Checked
            <4>3. ask[q] \in AskRecord
                BY <4>2 DEF PricingInv, Served, Stage
            <4>4. CASE ask[q] = ask[r]
                <5>1. CASE q \in recent
                    BY <1>8, <1>10, <4>4, <5>1 DEF kind, who
                <5>2. CASE q \notin recent
                    <6>1. stamp[r] >= stamp[q] + HourLength
                        BY <1>9, <4>1, <4>4, <5>2 DEF kind, who
                    <6> QED
                        BY <1>2, <4>4, <6>1 DEF Outlived
                <5> QED
                    BY <5>1, <5>2
            <4>5. CASE ask[q] # ask[r]
                <5>1. ask[q].action # kind \/ ask[q].who # who
                    BY <1>1, <4>3, <4>5 DEF AskRecord, kind, who
                <5>2. ask[q].action \in DOMAIN PerHour /\ ask[q].who \in Person
                    BY <2>2, <4>3 DEF LimitsInv, Checked, AskRecord
                <5> QED
                    BY <1>10, <4>1, <5>1, <5>2
            <4> QED
                BY <4>4, <4>5
        <3> QED
            BY <3>1, <3>2
    <2> QED
        BY <1>8, <2>1, <2>2
<1> QED
    BY <1>11, <1>12

(* The last hour of a request that is let in, and was not overtaken, holds  *)
(* nobody of its own whom the list does not hold.                           *)
LEMMA CheckCeiling ==
    ASSUME PricingInv, LimitsInv, NEW r \in Request, Check(r)
    PROVE  RollingCeiling'
<1> DEFINE Hour(k, p, end) ==
        {q \in admitted \ late : /\ ask[q] = [action |-> k, who |-> p]
                                 /\ stamp[q] \in (end - HourLength + 1) .. end}
<1> DEFINE kind == ask[r].action
           who == ask[r].who
           recent == Recent(calls[kind][who], stamp[r])
<1>1. /\ r \notin checked /\ r \notin admitted
      /\ ask[r] \in AskRecord /\ kind \in DOMAIN PerHour /\ who \in Person
    BY CheckedOnce
<1>2. UNCHANGED <<ask, stamp>>
      /\ late' = late \cup {s \in {r} : \E q \in checked : ask[q] = ask[s] /\ stamp[q] > stamp[s]}
    BY DEF Check
<1>3. /\ calls \in [DOMAIN PerHour -> [Person -> SUBSET Request]]
      /\ stamp \in [Request -> Nat]
      /\ admitted \subseteq Request
      /\ HourLength \in Nat
    BY PricingToolAssumption DEF LimitsInv, Listed, Asked, Checked
<1>4. admitted' = admitted \/ (admitted' = admitted \cup {r} /\ Cardinality(recent) < PerHour[kind])
    BY DEF Check
<1> SUFFICES ASSUME NEW k \in DOMAIN PerHour, NEW p \in Person, NEW end \in Moment
             PROVE  Cardinality(Hour(k, p, end)') <= PerHour[k]
    BY DEF RollingCeiling
<1>5. Hour(k, p, end)' = {q \in admitted' \ late' : /\ ask[q] = [action |-> k, who |-> p]
                                 /\ stamp[q] \in (end - HourLength + 1) .. end}
    BY <1>2
<1>6. Hour(k, p, end) \in SUBSET Request /\ end \in Int
    BY <1>3 DEF Moment
<1>7. Cardinality(Hour(k, p, end)) <= PerHour[k] /\ PerHour[k] \in Nat
    BY PricingToolAssumption DEF LimitsInv, RollingCeiling
<1>8. IsFiniteSet(Hour(k, p, end)) /\ Cardinality(Hour(k, p, end)) \in Nat
    BY <1>6, RequestsAreFew
<1>9. Hour(k, p, end)' \in SUBSET (Hour(k, p, end) \cup {r})
    BY <1>2, <1>4, <1>5
<1>10. CASE r \notin Hour(k, p, end)'
    <2>1. Hour(k, p, end)' \in SUBSET Hour(k, p, end)
        BY <1>9, <1>10
    <2> HIDE DEF Hour
    <2>2. Cardinality(Hour(k, p, end)') <= Cardinality(Hour(k, p, end))
          /\ Cardinality(Hour(k, p, end)') \in Nat
        BY <1>8, <2>1, FS_Subset, FS_CardinalityType
    <2> QED
        BY <1>7, <1>8, <2>2
<1>11. CASE r \in Hour(k, p, end)'
    <2>1. /\ admitted' = admitted \cup {r} /\ Cardinality(recent) < PerHour[kind]
          /\ r \notin late'
          /\ ask[r] = [action |-> k, who |-> p]
          /\ stamp[r] \in (end - HourLength + 1) .. end
        BY <1>1, <1>4, <1>5, <1>11
    <2>2. k = kind /\ p = who
        BY <2>1
    <2>3. \A q \in checked : ask[q] = ask[r] => ~ (stamp[q] > stamp[r])
        BY <1>2, <2>1
    <2>4. Hour(k, p, end) \subseteq recent
        <3> SUFFICES ASSUME NEW q \in Hour(k, p, end) PROVE q \in recent
            OBVIOUS
        <3>1. /\ q \in admitted /\ q \in Request /\ ask[q] = ask[r]
              /\ stamp[q] \in (end - HourLength + 1) .. end
            BY <1>3, <2>1
        <3>2. stamp[q] \in Nat /\ stamp[r] \in Nat
              /\ stamp[r] - stamp[q] < HourLength /\ stamp[r] < stamp[q] + HourLength
            BY <1>3, <1>6, <2>1, <3>1
        <3>3. ~ Outlived(q)
            <4> SUFFICES ASSUME NEW x \in checked, ask[x] = ask[q], stamp[x] >= stamp[q] + HourLength
                         PROVE  FALSE
                BY DEF Outlived
            <4>1. stamp[x] \in Nat
                BY <1>3 DEF LimitsInv, Checked
            <4>2. stamp[x] > stamp[r]
                BY <1>3, <3>2, <4>1
            <4> QED
                BY <2>3, <3>1, <4>2
        <3>4. q \in calls[kind][who]
            BY <3>1, <3>3 DEF LimitsInv, Kept
        <3> QED
            BY <3>2, <3>4 DEF Recent
    <2>5. recent \in SUBSET Request
        BY <1>1, <1>3 DEF Recent
    <2> HIDE DEF Hour, recent, kind
    <2>6. IsFiniteSet(recent) /\ Cardinality(recent) \in Nat
        BY <2>5, RequestsAreFew
    <2>7. Cardinality(Hour(k, p, end)) <= Cardinality(recent)
        BY <2>4, <2>6, FS_Subset
    <2>8. Hour(k, p, end)' \in SUBSET (Hour(k, p, end) \cup {r})
        BY <1>9
    <2>9. IsFiniteSet(Hour(k, p, end) \cup {r})
          /\ Cardinality(Hour(k, p, end) \cup {r}) \in {Cardinality(Hour(k, p, end)), Cardinality(Hour(k, p, end)) + 1}
        BY <1>8, FS_AddElement
    <2>10. Cardinality(Hour(k, p, end)') <= Cardinality(Hour(k, p, end) \cup {r})
           /\ Cardinality(Hour(k, p, end)') \in Nat
        BY <2>8, <2>9, FS_Subset, FS_CardinalityType
    <2> QED
        BY <1>7, <1>8, <2>1, <2>2, <2>6, <2>7, <2>9, <2>10
<1> HIDE DEF Hour
<1> QED
    BY <1>10, <1>11

(* Every step keeps the limits. *)
LEMMA LimitsNext ==
    ASSUME PricingInv, LimitsInv, [Next]_vars
    PROVE  LimitsInv'
<1>1. Checked /\ Asked /\ LockHeld
    BY DEF LimitsInv
<1>2. step \in [Request -> Step] /\ clock \in Nat
    BY DEF PricingInv, Threads
<1>3. ASSUME UNCHANGED <<step, ask, stamp, limits, lock>> PROVE LimitsInv'
    <2>1. Asked' /\ LockHeld'
        BY <1>1, <1>3 DEF Asked, LockHeld
    <2>2. \A q \in checked :
            step'[q] \notin {"idle", "checking"} /\ ask'[q] = ask[q] /\ stamp'[q] = stamp[q]
        BY <1>1, <1>3 DEF Checked
    <2> QED
        BY <1>3, <2>1, <2>2, LimitsKept
<1>4. CASE Tick \/ UNCHANGED vars
    BY <1>3, <1>4 DEF Tick, vars, threads, portfolio
<1>5. CASE Reset
    BY <1>3, <1>5 DEF Reset, threads
<1>6. ASSUME NEW r \in Request, Arrive(r) PROVE LimitsInv'
    <2>1. step[r] = "idle" /\ UNCHANGED limits /\ lock' = lock
        BY <1>6 DEF Arrive, portfolio
    <2>2. PICK a \in Ask[r] :
            /\ ask' = [ask EXCEPT ![r] = a]
            /\ IF Allowed(a) THEN GoesOn(r, FirstStep[a.action], Blank) ELSE Ends(r, "error", None)
            /\ stamp' = [stamp EXCEPT ![r] = IF a.action \in DOMAIN PerHour THEN clock ELSE 0]
        BY <1>6 DEF Arrive
    <2>3. a.action \in Action
        BY PricingToolAssumption
    <2>4. FirstStep[a.action] \in {"checking", "portfolio", "closing"}
        BY <2>3 DEF FirstStep, Action
    <2>5. /\ step'[r] \in {"checking", "portfolio", "closing", "done"}
          /\ \A q \in Request \ {r} : step'[q] = step[q]
        BY <1>2, <2>2, <2>4 DEF GoesOn, Ends
    <2>6. r \notin checked
        BY <1>1, <2>1 DEF Checked
    <2>7. ask' \in [Request -> AskRecord \cup {None}] /\ ask'[r] = a
          /\ \A q \in Request \ {r} : ask'[q] = ask[q]
        BY <2>2, PricingToolAssumption DEF PricingInv, Threads, AskRecord
    <2>8. Asked'
        <3>1. stamp' \in [Request -> Nat]
            BY <1>1, <1>2, <2>2 DEF Asked
        <3>2. ASSUME NEW q \in Request PROVE ask'[q] \in (IF step'[q] = "idle" THEN {None} ELSE Ask[q])
            <4>1. CASE q = r
                BY <2>2, <2>5, <2>7, <4>1
            <4>2. CASE q # r
                BY <1>1, <2>5, <2>7, <4>2 DEF Asked
            <4> QED
                BY <4>1, <4>2
        <3> QED
            BY <3>1, <3>2 DEF Asked
    <2>9. LockHeld'
        BY <1>1, <2>1, <2>5 DEF LockHeld
    <2>10. \A q \in checked :
            step'[q] \notin {"idle", "checking"} /\ ask'[q] = ask[q] /\ stamp'[q] = stamp[q]
        BY <1>1, <2>2, <2>5, <2>6, <2>7 DEF Checked, Asked
    <2> QED
        BY <2>1, <2>8, <2>9, <2>10, LimitsKept
<1>7. ASSUME NEW r \in Request, Serve(r) PROVE LimitsInv'
    <2>1. Passes(r) /\ LockHeld'
        BY <1>1, <1>7, ServePasses, LockKeeps
    <2>2. Asked'
        BY <1>1, <2>1 DEF Asked, Passes
    <2>3. CASE Check(r)
        <3>1. /\ checked' = checked \cup {r}
              /\ admitted' \subseteq admitted \cup {r}
            BY <2>3 DEF Check
        <3>2. Checked'
            BY <1>1, <2>1, <2>3, <3>1, CheckedOnce DEF Checked, Passes
        <3> QED
            BY <2>1, <2>2, <2>3, <3>2, CheckLists, CheckCeiling DEF LimitsInv
    <2>4. CASE ~ Check(r)
        <3>1. UNCHANGED limits
            BY <1>7, <2>4 DEF Serve, Prompt, Unbounded, Read, Enter, Compute, Price, Record, Open, Verify, Close
        <3>2. \A q \in checked :
                step'[q] \notin {"idle", "checking"} /\ ask'[q] = ask[q] /\ stamp'[q] = stamp[q]
            BY <1>1, <2>1 DEF Checked, Passes
        <3> QED
            BY <2>1, <2>2, <3>1, <3>2, LimitsKept
    <2> QED
        BY <2>3, <2>4
<1> QED
    BY <1>4, <1>5, <1>6, <1>7 DEF Next

LEMMA LimitsAlways == Spec => [](PricingInv /\ LimitsInv)
<1>1. PricingInv /\ LimitsInv /\ [Next]_vars => LimitsInv'
    BY LimitsNext
<1> QED
    BY <1>1, LimitsInit, PricingAlways, PTL DEF Spec

(* The types; among them, that no list of a limit ever holds more than its  *)
(* ceiling (RateLimit.check) and that a thread which holds the portfolio's  *)
(* lock is the one that computes (Portfolio.current).                       *)
THEOREM PricingTypes == Spec => []TypeOK
<1>1. PricingInv /\ LimitsInv => TypeOK
    <2> SUFFICES ASSUME PricingInv, LimitsInv PROVE TypeOK
        OBVIOUS
    <2>1. /\ clock \in Nat /\ step \in [Request -> Step] /\ sessions \subseteq Request
          /\ local \in [Request -> [took : Nat \cup {None}, figures : Figures \cup {None},
                                    row : Row \cup {None}]]
          /\ answer \in [Request -> Answers \cup {None}]
        BY DEF PricingInv, Threads, Local
    <2>2. value \in Figures \cup {None}
        BY DEF PricingInv, Shared
    <2>3. \A r \in Request : step[r] = "computing" <=> lock = r
        BY DEF PricingInv, Computing, LimitsInv, LockHeld
    <2> QED
        BY <2>1, <2>2, <2>3 DEF TypeOK, LimitsInv, Asked, Listed
<1> QED
    BY <1>1, LimitsAlways, PTL

(* No hour of a person's holds more requests than the ceiling, in whatever  *)
(* order the threads reach the lock: what was filtered from a list was an   *)
(* hour older than a request checked since, so that whoever is let in with  *)
(* a stamp within the hour was overtaken (RateLimit.check, pricing.py).     *)
THEOREM CeilingHolds == Spec => []RollingCeiling
<1>1. LimitsInv => RollingCeiling
    BY DEF LimitsInv
<1> QED
    BY <1>1, LimitsAlways, PTL
=============================================================================
