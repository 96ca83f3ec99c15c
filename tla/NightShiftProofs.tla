-------------------------- MODULE NightShiftProofs --------------------------
(* What the night shift promises for any number of runs, any page and any  *)
(* cap: its types, and every safety property the runs check. The argument  *)
(* that no failure is skipped needs what the order of a page means: the    *)
(* first part of this module, about finite sets of failures.               *)
EXTENDS NightShift, FiniteSetTheorems, Numbers, TLAPS

-----------------------------------------------------------------------------
(* The order of a page. *)

Distinct(F) == \A f, g \in F : f[2] = g[2] => f = g
Before(F, f) == {g \in F : g[2] < f[2]}
Place(F, f) == Cardinality(Before(F, f)) + 1

LEMMA Constants ==
    /\ IsFiniteSet(Run) /\ Page \in Nat \ {0} /\ AgentCap \in Nat /\ DayLength \in Nat \ {0}
    /\ LookBack \in Nat /\ MaxTime \in Nat /\ MaxCount \in Nat /\ Never \notin Nat
BY NightShiftAssumption

LEMMA FailuresFinite ==
    ASSUME NEW F \in SUBSET Failure
    PROVE  IsFiniteSet(F) /\ Cardinality(F) \in Nat
<1>1. IsFiniteSet(Time)
    BY Constants, FS_Interval DEF Time
<1>2. IsFiniteSet(Failure)
    BY <1>1, Constants, FS_Product DEF Failure
<1> QED
    BY <1>2, FS_Subset, FS_CardinalityType

LEMMA MomentOf ==
    ASSUME NEW f \in Failure
    PROVE  f[2] \in Nat /\ f[2] <= MaxTime /\ f[2] \in Time
BY Constants DEF Failure, Time

LEMMA PlaceType ==
    ASSUME NEW F \in SUBSET Failure, NEW f \in F
    PROVE  /\ Place(F, f) \in 1 .. Cardinality(F)
           /\ Cardinality(Before(F, f)) \in Nat
<1>1. IsFiniteSet(F) /\ Cardinality(F) \in Nat
    BY FailuresFinite
<1>2. f \notin Before(F, f) /\ Before(F, f) \subseteq F \ {f}
    BY MomentOf DEF Before
<1>3. IsFiniteSet(F \ {f}) /\ Cardinality(F \ {f}) = Cardinality(F) - 1
    BY <1>1, FS_RemoveElement
<1>4. Cardinality(Before(F, f)) <= Cardinality(F) - 1 /\ IsFiniteSet(Before(F, f))
    BY <1>2, <1>3, FS_Subset
<1>5. Cardinality(Before(F, f)) \in Nat
    BY <1>4, FS_CardinalityType
<1> QED
    BY <1>1, <1>4, <1>5 DEF Place

(* A later failure has a later place. *)
LEMMA PlacesInOrder ==
    ASSUME NEW F \in SUBSET Failure, NEW f \in F, NEW g \in F, f[2] < g[2]
    PROVE  Place(F, f) < Place(F, g)
<1>1. Before(F, f) \cup {f} \subseteq Before(F, g)
    <2> SUFFICES ASSUME NEW h \in F, h[2] < f[2] PROVE h[2] < g[2]
        BY DEF Before
    <2> QED
        BY MomentOf
<1>2. f \notin Before(F, f)
    BY MomentOf DEF Before
<1>3. IsFiniteSet(Before(F, f)) /\ IsFiniteSet(Before(F, g))
    BY FailuresFinite DEF Before
<1>4. Cardinality(Before(F, f) \cup {f}) = Cardinality(Before(F, f)) + 1
    BY <1>2, <1>3, FS_AddElement
<1>5. Cardinality(Before(F, f)) + 1 <= Cardinality(Before(F, g))
    BY <1>1, <1>3, <1>4, FS_Subset
<1> QED
    BY <1>5, PlaceType DEF Place

(* Among failures there is a latest. *)
LEMMA Latest ==
    ASSUME NEW T \in SUBSET Failure, T # {}
    PROVE  \E f \in T : \A g \in T : g[2] <= f[2]
<1> DEFINE D == {MaxTime - f[2] : f \in T}
<1>1. D \subseteq Nat /\ D # {}
    <2>1. ASSUME NEW f \in T PROVE MaxTime - f[2] \in Nat
        BY MomentOf, Constants
    <2> QED
        BY <2>1
<1> HIDE DEF D
<1>2. PICK x \in D : \A y \in D : x <= y
    BY <1>1, SmallestNumber
<1> USE DEF D
<1>3. PICK f \in T : x = MaxTime - f[2]
    BY <1>2
<1>4. ASSUME NEW g \in T PROVE g[2] <= f[2]
    <2>1. MaxTime - f[2] <= MaxTime - g[2]
        BY <1>2, <1>3
    <2>2. f[2] \in Nat /\ g[2] \in Nat /\ MaxTime \in Nat
        BY MomentOf, Constants
    <2> QED
        BY <2>1, <2>2
<1> QED
    BY <1>4

(* Every place up to the number of failures is taken. *)
LEMMA PlacesTaken ==
    ASSUME NEW F \in SUBSET Failure, Distinct(F), NEW i \in 1 .. Cardinality(F)
    PROVE  \E f \in F : Place(F, f) = i
<1> SUFFICES ASSUME \A f \in F : Place(F, f) # i PROVE FALSE
    OBVIOUS
<1> DEFINE U == {f \in F : Place(F, f) > i}
           D == {f[2] : f \in U}
<1>1. IsFiniteSet(F) /\ Cardinality(F) \in Nat
    BY FailuresFinite
<1>2. U # {}
    <2>1. F # {}
        BY <1>1, FS_EmptySet
    <2>2. PICK f \in F : \A g \in F : g[2] <= f[2]
        BY <2>1, Latest
    <2>3. Before(F, f) = F \ {f}
        <3>1. ASSUME NEW g \in F, g # f PROVE g[2] < f[2]
            <4>1. g[2] # f[2] /\ g[2] <= f[2] /\ g[2] \in Nat /\ f[2] \in Nat
                BY <2>2, <3>1, MomentOf DEF Distinct
            <4> QED
                BY <4>1
        <3>2. ~ (f[2] < f[2])
            BY MomentOf
        <3> QED
            BY <3>1, <3>2 DEF Before
    <2>4. Cardinality(Before(F, f)) = Cardinality(F) - 1
        BY <1>1, <2>3, FS_RemoveElement
    <2>5. Place(F, f) = Cardinality(F)
        BY <1>1, <2>4 DEF Place
    <2>6. Place(F, f) # i
        OBVIOUS
    <2>7. Cardinality(F) > i
        BY <1>1, <2>5, <2>6
    <2> QED
        BY <2>5, <2>7
<1>3. D \subseteq Nat /\ D # {}
    <2>1. ASSUME NEW f \in U PROVE f[2] \in Nat
        BY MomentOf
    <2> QED
        BY <1>2, <2>1
<1>4. PICK f \in U : \A g \in U : f[2] <= g[2]
    <2> HIDE DEF D
    <2>1. PICK x \in D : \A y \in D : x <= y
        BY <1>3, SmallestNumber
    <2> USE DEF D
    <2>2. PICK f \in U : x = f[2]
        BY <2>1
    <2> QED
        BY <2>1, <2>2
<1>5. Cardinality(Before(F, f)) \in Nat /\ Place(F, f) = Cardinality(Before(F, f)) + 1
    BY PlaceType DEF Place
<1>6. Before(F, f) # {} /\ IsFiniteSet(Before(F, f)) /\ Before(F, f) \in SUBSET Failure
    <2>1. Cardinality(Before(F, f)) >= 1
        BY <1>4, <1>5
    <2> QED
        BY <2>1, FS_EmptySet, FailuresFinite DEF Before
<1>7. PICK g \in Before(F, f) : \A h \in Before(F, f) : h[2] <= g[2]
    BY <1>6, Latest
<1>8. g \in F /\ g[2] < f[2]
    BY <1>7 DEF Before
<1>9. g \notin U
    BY <1>4, <1>8, MomentOf
<1>10. Place(F, g) < i
    <2>1. Place(F, g) \in Nat /\ Place(F, g) # i /\ ~ (Place(F, g) > i)
        BY <1>8, <1>9, PlaceType
    <2> QED
        BY <2>1
<1>11. Before(F, f) \ {g} \subseteq Before(F, g)
    <2> SUFFICES ASSUME NEW h \in Before(F, f), h # g PROVE h \in Before(F, g)
        OBVIOUS
    <2>1. h \in F /\ h[2] <= g[2] /\ h[2] # g[2]
        BY <1>7, <1>8 DEF Before, Distinct
    <2>2. h[2] \in Nat /\ g[2] \in Nat
        BY <1>8, <2>1, MomentOf
    <2> QED
        BY <2>1, <2>2 DEF Before
<1>12. Cardinality(Before(F, f)) - 1 <= Cardinality(Before(F, g))
    <2>1. Cardinality(Before(F, f) \ {g}) = Cardinality(Before(F, f)) - 1
        BY <1>6, <1>7, FS_RemoveElement
    <2>2. IsFiniteSet(Before(F, g))
        BY FailuresFinite DEF Before
    <2> QED
        BY <1>11, <2>1, <2>2, FS_Subset
<1>13. Cardinality(Before(F, g)) \in Nat /\ Place(F, g) = Cardinality(Before(F, g)) + 1
    BY <1>8, PlaceType DEF Place
<1>14. Place(F, f) > i
    BY <1>4
<1> QED
    BY <1>5, <1>10, <1>12, <1>13, <1>14

(* What the answer to the query holds: failures only, never more than a     *)
(* page; all of them when the page is not full, and else at least all that  *)
(* ended before its last one.                                               *)
LEMMA PageHolds ==
    ASSUME NEW F \in SUBSET Failure, Distinct(F)
    PROVE  LET p == OldestFirst(F)
           IN  /\ p \in Seq(F) /\ Len(p) <= Page
               /\ \A f \in F : Len(p) # Page \/ f[2] < p[Page][2] =>
                    \E i \in 1 .. Len(p) : p[i] = f
<1> DEFINE n == Cardinality(F)
           size == IF n < Page THEN n ELSE Page
           p == [i \in 1 .. size |-> CHOOSE f \in F : Place(F, f) = i]
<1>1. OldestFirst(F) = p
    BY DEF OldestFirst, Place, Before
<1>2. n \in Nat /\ Page \in Nat \ {0} /\ size \in Nat /\ size <= n /\ size <= Page
    BY FailuresFinite, Constants
<1>3. ASSUME NEW i \in 1 .. size PROVE p[i] \in F /\ Place(F, p[i]) = i
    <2>1. i \in 1 .. n
        BY <1>2
    <2>2. \E f \in F : Place(F, f) = i
        BY <2>1, PlacesTaken
    <2> QED
        BY <2>2
<1>4. p \in Seq(F) /\ Len(p) = size
    <2>1. \A i \in 1 .. size : p[i] \in F
        BY <1>3
    <2>2. p \in [1 .. size -> F]
        BY <2>1
    <2> HIDE DEF p, size
    <2> QED
        BY <1>2, <2>2
<1>5. ASSUME NEW f \in F, Len(p) # Page \/ f[2] < p[Page][2]
      PROVE  \E i \in 1 .. Len(p) : p[i] = f
    <2>1. Place(F, f) \in 1 .. n
        BY PlaceType
    <2>2. Place(F, f) \in 1 .. size
        <3>1. CASE n < Page
            BY <2>1, <3>1
        <3>2. CASE ~ (n < Page)
            <4>1. size = Page
                BY <3>2
            <4>2. f[2] < p[Page][2]
                BY <1>4, <1>5, <4>1
            <4>3. Page \in 1 .. size
                BY <1>2, <4>1
            <4>4. p[Page] \in F /\ Place(F, p[Page]) = Page
                BY <1>3, <4>3
            <4> HIDE DEF p
            <4>5. Place(F, f) < Page
                BY <4>2, <4>4, PlacesInOrder
            <4> QED
                BY <1>2, <2>1, <4>1, <4>5
        <3> QED
            BY <3>1, <3>2
    <2> DEFINE g == p[Place(F, f)]
    <2>3. g \in F /\ Place(F, g) = Place(F, f)
        BY <1>3, <2>2
    <2> HIDE DEF g
    <2>4. f[2] \in Nat /\ g[2] \in Nat
        BY <2>3, MomentOf
    <2>5. ~ (f[2] < g[2]) /\ ~ (g[2] < f[2])
        <3>1. Place(F, f) \in Nat
            BY <2>1
        <3> QED
            BY <2>3, <3>1, PlacesInOrder
    <2>6. f = g
        <3>1. f[2] = g[2]
            BY <2>4, <2>5
        <3> QED
            BY <2>3, <3>1 DEF Distinct
    <2> QED
        BY <1>4, <2>2, <2>6 DEF g
<1> HIDE DEF p
<1> QED
    BY <1>1, <1>2, <1>4, <1>5

-----------------------------------------------------------------------------
(* The invariant. *)

(* Nothing is of a later moment, and no two runs ended at the same one. *)
Dates ==
    /\ \A r \in Run : ended[r] <= now /\ (state[r] = "failed" => ended[r] > 0)
    /\ \A q, r \in Run : q # r /\ ended[q] = ended[r] => ended[r] = 0
    /\ passNow <= now

(* What the pass remembers is what the file says, but for the agent runs. *)
Memory ==
    /\ memory.lastChecked = file.lastChecked
    /\ memory.handled = file.handled
    /\ memory.cleared = file.cleared
    /\ OneRunAtRisk

(* The failure in hand. *)
InHand ==
    /\ pc \in {"clear", "save", "report", "mail"} => page # << >>
    /\ pc \in {"clear", "save"} => Head(page) \notin file.handled
    /\ pc = "clear" => ~ WasCleared(file, Head(page))
    /\ pc \in {"report", "mail"} => Head(page) \in file.handled /\ mails[Head(page)] = 0
    /\ pc = "mail" => Head(page) \in reports

OnPage(f) == \E i \in 1 .. Len(page) : page[i] = f

(* What the pass answers for: all that stands failed, ended before its mark *)
(* and was not handled yet is still ahead on its page.                      *)
StillAhead(r) ==
    state[r] = "failed" /\ ended[r] >= Since(file, passNow) /\ ended[r] < upTo =>
        <<r, ended[r]>> \in file.handled \/ OnPage(<<r, ended[r]>>)

Ahead ==
    pc \in {"next", "clear", "save", "report", "mail"} =>
        upTo <= now /\ \A r \in Run : StillAhead(r)

NightInv == TypeOK /\ Dates /\ Memory /\ InHand /\ Ahead /\ NoRepeatedMail

LEMMA NightInit == Init => NightInv
<1> SUFFICES ASSUME Init PROVE NightInv
    OBVIOUS
<1>1. 0 \in Time
    BY Constants DEF Time
<1>2. FreshState \in States
    BY Constants DEF FreshState, States
<1>3. TypeOK
    <2>1. page \in Seq(Failure) /\ Len(page) <= Page
        BY Constants DEF Init
    <2>2. mails \in [Failure -> 0 .. MaxCount] /\ clears \in [Run -> 0 .. MaxCount]
        BY Constants DEF Init
    <2> QED
        BY <1>1, <1>2, <2>1, <2>2 DEF Init, TypeOK
<1>4. Dates /\ Memory /\ OneRunAtRisk
    BY DEF Init, Dates, Memory, OneRunAtRisk
<1>5. InHand /\ Ahead /\ NoRepeatedMail
    BY DEF Init, InHand, Ahead, NoRepeatedMail
<1> QED
    BY <1>3, <1>4, <1>5 DEF NightInv

-----------------------------------------------------------------------------
(* Airflow. *)

LEMMA TickKeeps == ASSUME NightInv, Tick PROVE NightInv'
<1>1. UNCHANGED <<state, ended, file, pass, record>> /\ now' = now + 1 /\ now \in Time /\ now < MaxTime
    BY DEF Tick, NightInv, TypeOK
<1>2. now' \in Time /\ now' > now
    BY <1>1, Constants DEF Time
<1>3. TypeOK'
    BY <1>1, <1>2 DEF NightInv, TypeOK, pass, record
<1>4. Dates'
    <2>1. /\ \A r \in Run : ended[r] \in Nat
          /\ now \in Nat /\ passNow \in Nat /\ passNow' = passNow
        BY <1>1, Constants DEF NightInv, TypeOK, Time, pass
    <2>2. now' >= now /\ now' \in Nat
        BY <1>1, <2>1
    <2>3. \A r \in Run : ended[r] <= now'
        BY <2>1, <2>2 DEF NightInv, Dates
    <2>4. passNow' <= now'
        BY <2>1, <2>2 DEF NightInv, Dates
    <2>5. UNCHANGED <<state, ended>>
        BY <1>1
    <2> QED
        BY <2>3, <2>4, <2>5 DEF NightInv, Dates
<1>5. Memory' /\ NoRepeatedMail'
    BY <1>1 DEF NightInv, Memory, OneRunAtRisk, NoRepeatedMail, pass, record
<1>6. InHand'
    BY <1>1 DEF NightInv, InHand, WasCleared, pass, record
<1>7. Ahead'
    <2>1. upTo \in Nat /\ now \in Nat
        BY Constants DEF NightInv, TypeOK, Time
    <2>2. ASSUME upTo <= now PROVE upTo' <= now'
        BY <1>1, <2>1, <2>2 DEF pass
    <2>3. ASSUME NEW r \in Run, StillAhead(r) PROVE StillAhead(r)'
        BY <1>1, <2>3 DEF StillAhead, OnPage, Since, pass
    <2>4. pc' = pc
        BY <1>1 DEF pass
    <2> QED
        BY <2>2, <2>3, <2>4 DEF NightInv, Ahead
<1> QED
    BY <1>3, <1>4, <1>5, <1>6, <1>7 DEF NightInv

(* A new failure ends later than all the others, and than the mark. *)
LEMMA FailKeeps == ASSUME NightInv, NEW r \in Run, Fail(r) PROVE NightInv'
<1>1. /\ UNCHANGED <<file, pass, record>> /\ now' = now + 1 /\ now \in Time /\ now < MaxTime
      /\ state' = [state EXCEPT ![r] = "failed"] /\ ended' = [ended EXCEPT ![r] = now + 1]
      /\ state \in [Run -> {"running", "failed", "success"}] /\ ended \in [Run -> Time]
    BY DEF Fail, NightInv, TypeOK
<1>2. now' \in Time /\ now' > now /\ now \in Nat
    BY <1>1, Constants DEF Time
<1>3. /\ state'[r] = "failed" /\ ended'[r] = now'
      /\ \A q \in Run \ {r} : state'[q] = state[q] /\ ended'[q] = ended[q]
    BY <1>1
<1>4. TypeOK'
    BY <1>1, <1>2 DEF NightInv, TypeOK, pass, record
<1>5. \A q \in Run : ended[q] \in Nat /\ ended[q] <= now
    BY <1>1, Constants DEF NightInv, Dates, Time
<1>6. Dates'
    <2>1. ASSUME NEW q \in Run
          PROVE  ended'[q] <= now' /\ (state'[q] = "failed" => ended'[q] > 0)
        <3>1. CASE q = r
            BY <1>1, <1>2, <1>3, <3>1
        <3>2. CASE q # r
            <4>1. state'[q] = state[q] /\ ended'[q] = ended[q]
                BY <1>3, <3>2
            <4>2. state[q] = "failed" => ended[q] > 0
                BY DEF NightInv, Dates
            <4> QED
                BY <1>1, <1>2, <1>5, <4>1, <4>2
        <3> QED
            BY <3>1, <3>2
    <2>2. ASSUME NEW p \in Run, NEW q \in Run, p # q, ended'[p] = ended'[q]
          PROVE  ended'[q] = 0
        <3>1. p # r /\ q # r
            <4>1. \A s \in Run \ {r} : ended'[s] # ended'[r]
                BY <1>1, <1>2, <1>3, <1>5
            <4> QED
                BY <2>2, <4>1
        <3>2. ended'[p] = ended[p] /\ ended'[q] = ended[q]
            BY <1>3, <3>1
        <3> QED
            BY <2>2, <3>2 DEF NightInv, Dates
    <2>3. passNow' <= now'
        <3>1. passNow \in Nat /\ passNow' = passNow
            BY <1>1, Constants DEF NightInv, TypeOK, Time, pass
        <3> QED
            BY <1>1, <1>2, <3>1 DEF NightInv, Dates
    <2> QED
        BY <2>1, <2>2, <2>3 DEF Dates
<1>7. Memory' /\ NoRepeatedMail'
    BY <1>1 DEF NightInv, Memory, OneRunAtRisk, NoRepeatedMail, pass, record
<1>8. InHand'
    BY <1>1 DEF NightInv, InHand, WasCleared, pass, record
<1>9. Ahead'
    <2>1. upTo \in Nat
        BY Constants DEF NightInv, TypeOK, Time
    <2>2. upTo' = upTo /\ pc' = pc
        BY <1>1 DEF pass
    <2>3. ASSUME upTo <= now PROVE upTo' <= now'
        BY <1>1, <1>2, <2>1, <2>2, <2>3
    <2>4. ASSUME upTo <= now, NEW q \in Run, StillAhead(q) PROVE StillAhead(q)'
        <3>1. CASE q = r
            <4>1. ~ (ended'[q] < upTo')
                BY <1>1, <1>2, <1>3, <2>1, <2>2, <2>4, <3>1
            <4> QED
                BY <4>1 DEF StillAhead
        <3>2. CASE q # r
            <4>1. state'[q] = state[q] /\ ended'[q] = ended[q]
                BY <1>3, <3>2
            <4> QED
                BY <1>1, <2>4, <4>1 DEF StillAhead, OnPage, Since, pass
        <3> QED
            BY <3>1, <3>2
    <2> QED
        BY <2>2, <2>3, <2>4 DEF NightInv, Ahead
<1> QED
    BY <1>4, <1>6, <1>7, <1>8, <1>9 DEF NightInv

(* A run that stands failed no longer is no concern of the pass. *)
LEMMA StateKeeps ==
    ASSUME NightInv, UNCHANGED <<now, ended, file, pass, record>>,
           state' \in [Run -> {"running", "failed", "success"}],
           \A r \in Run : state'[r] = "failed" => state[r] = "failed"
    PROVE  NightInv'
<1>1. TypeOK'
    BY DEF NightInv, TypeOK, pass, record
<1>2. Dates'
    BY DEF NightInv, Dates, pass
<1>3. Memory' /\ NoRepeatedMail'
    BY DEF NightInv, Memory, OneRunAtRisk, NoRepeatedMail, pass, record
<1>4. InHand'
    BY DEF NightInv, InHand, WasCleared, pass, record
<1>5. Ahead'
    BY DEF NightInv, Ahead, StillAhead, OnPage, Since, pass
<1> QED
    BY <1>1, <1>2, <1>3, <1>4, <1>5 DEF NightInv

LEMMA SucceedKeeps == ASSUME NightInv, NEW r \in Run, Succeed(r) PROVE NightInv'
<1>1. state \in [Run -> {"running", "failed", "success"}]
    BY DEF NightInv, TypeOK
<1> QED
    BY <1>1, StateKeeps DEF Succeed

LEMMA ClearByHandKeeps == ASSUME NightInv, NEW r \in Run, ClearByHand(r) PROVE NightInv'
<1>1. state \in [Run -> {"running", "failed", "success"}]
    BY DEF NightInv, TypeOK
<1> QED
    BY <1>1, StateKeeps DEF ClearByHand

-----------------------------------------------------------------------------
(* The pass. *)

(* The end of a pass leaves nothing in hand. *)
LEMMA ExitKeeps ==
    ASSUME NightInv, Exit, file' \in States,
           UNCHANGED <<now, ended>>,
           state' \in [Run -> {"running", "failed", "success"}],
           \A r \in Run : state'[r] = "failed" => state[r] = "failed",
           reports' = reports,
           clears' \in [Run -> 0 .. MaxCount],
           mails' \in [Failure -> 0 .. MaxCount], NoRepeatedMail'
    PROVE  NightInv'
<1>1. TypeOK'
    <2>1. 0 \in Time
        BY Constants DEF Time
    <2>2. page' \in Seq(Failure) /\ Len(page') <= Page
        BY Constants DEF Exit
    <2> QED
        BY <2>1, <2>2 DEF NightInv, TypeOK, Exit
<1>2. Dates'
    BY Constants DEF NightInv, TypeOK, Time, Dates, Exit
<1>3. Memory'
    BY DEF Exit, Memory, OneRunAtRisk
<1>4. InHand' /\ Ahead'
    BY DEF Exit, InHand, Ahead
<1> QED
    BY <1>1, <1>2, <1>3, <1>4 DEF NightInv

LEMMA BeginKeeps == ASSUME NightInv, Begin PROVE NightInv'
<1>1. UNCHANGED <<now, state, ended, file, page, upTo, clearing, reports, mails, clears>>
    BY DEF Begin, airflow, record
<1>2. pc' = "query" /\ memory' = file /\ passNow' = now
    BY DEF Begin
<1>3. TypeOK'
    BY <1>1, <1>2 DEF NightInv, TypeOK
<1>4. Dates' /\ NoRepeatedMail'
    BY <1>1, <1>2, Constants DEF NightInv, TypeOK, Time, Dates, NoRepeatedMail
<1>5. Memory'
    BY <1>1, <1>2 DEF Memory, OneRunAtRisk
<1>6. InHand' /\ Ahead'
    BY <1>2 DEF InHand, Ahead
<1> QED
    BY <1>3, <1>4, <1>5, <1>6 DEF NightInv

(* The page: whatever stands failed and ended before the mark is on it. *)
LEMMA QueryKeeps == ASSUME NightInv, Query PROVE NightInv'
<1> DEFINE F == FailedSince(Since(memory, passNow))
           p == OldestFirst(F)
<1>1. UNCHANGED <<now, state, ended, file, memory, passNow, clearing, reports, mails, clears>>
    BY DEF Query, airflow, record
<1>2. pc = "query" /\ pc' = "next" /\ page' = p /\ upTo' = UpTo(p, passNow)
    BY DEF Query
<1>3. /\ state \in [Run -> {"running", "failed", "success"}] /\ ended \in [Run -> Time]
      /\ passNow \in Time /\ now \in Time /\ Dates /\ Memory
    BY DEF NightInv, TypeOK
<1>4. /\ \A r \in Run : state[r] = "failed" /\ ended[r] >= Since(memory, passNow) =>
            <<r, ended[r]>> \in F
      /\ \A f \in F : \E r \in Run : f = <<r, ended[r]>> /\ state[r] = "failed"
    BY DEF FailedSince
<1>5. F \in SUBSET Failure
    BY <1>3, <1>4 DEF Failure
<1>6. Distinct(F)
    <2> SUFFICES ASSUME NEW f \in F, NEW g \in F, f[2] = g[2] PROVE f = g
        BY DEF Distinct
    <2>1. PICK q \in Run : f = <<q, ended[q]>> /\ state[q] = "failed"
        BY <1>4
    <2>2. PICK r \in Run : g = <<r, ended[r]>> /\ state[r] = "failed"
        BY <1>4
    <2>3. ended[q] = ended[r] /\ ended[r] > 0 /\ ended[r] \in Nat
        BY <1>3, <2>1, <2>2, Constants DEF Dates, Time
    <2>4. q = r
        BY <1>3, <2>3 DEF Dates
    <2> QED
        BY <2>1, <2>2, <2>4
<1> HIDE DEF F
<1>7. /\ p \in Seq(F) /\ Len(p) <= Page
      /\ \A f \in F : Len(p) # Page \/ f[2] < p[Page][2] =>
            \E i \in 1 .. Len(p) : p[i] = f
    BY <1>5, <1>6, PageHolds
<1> HIDE DEF p
<1>8. upTo' \in Time /\ upTo' <= now'
    <2>1. CASE Len(p) = Page
        <3>1. p[Page] \in F /\ upTo' = p[Page][2]
            BY <1>2, <1>7, <2>1, Constants DEF UpTo
        <3>2. PICK r \in Run : p[Page] = <<r, ended[r]>>
            BY <1>4, <3>1
        <3> QED
            BY <1>1, <1>3, <3>1, <3>2 DEF Dates
    <2>2. CASE Len(p) # Page
        BY <1>1, <1>2, <1>3, <2>2 DEF UpTo, Dates
    <2> QED
        BY <2>1, <2>2
<1>9. TypeOK'
    <2>1. p \in Seq(Failure)
        BY <1>5, <1>7
    <2> QED
        BY <1>1, <1>2, <1>7, <1>8, <2>1 DEF NightInv, TypeOK
<1>10. Dates' /\ NoRepeatedMail'
    BY <1>1 DEF NightInv, Dates, NoRepeatedMail
<1>11. Memory'
    BY <1>1, <1>2, <1>3 DEF Memory, OneRunAtRisk
<1>12. InHand'
    BY <1>2 DEF InHand
<1>13. Ahead'
    <2>1. ASSUME NEW r \in Run PROVE StillAhead(r)'
        <3> SUFFICES ASSUME state[r] = "failed", ended[r] >= Since(memory, passNow),
                            ended[r] < upTo'
                     PROVE  \E i \in 1 .. Len(p) : p[i] = <<r, ended[r]>>
            <4>1. Since(file, passNow)' = Since(memory, passNow)
                BY <1>1, <1>3 DEF Since, Memory
            <4> QED
                BY <1>1, <1>2, <4>1 DEF StillAhead, OnPage
        <3>1. <<r, ended[r]>> \in F
            BY <1>4
        <3>2. Len(p) # Page \/ ended[r] < p[Page][2]
            BY <1>2 DEF UpTo
        <3> QED
            BY <1>7, <3>1, <3>2
    <2> QED
        BY <1>8, <2>1 DEF Ahead
<1> QED
    BY <1>9, <1>10, <1>11, <1>12, <1>13 DEF NightInv

(* What is behind the first of a page is still on the rest of it. *)
LEMMA TailOfPage ==
    ASSUME NEW p \in Seq(Failure), p # << >>
    PROVE  /\ Head(p) \in Failure
           /\ Tail(p) \in Seq(Failure) /\ Len(Tail(p)) <= Len(p)
           /\ \A i \in 1 .. Len(p) :
                p[i] = Head(p) \/ \E j \in 1 .. Len(Tail(p)) : Tail(p)[j] = p[i]
<1>1. /\ Tail(p) \in Seq(Failure) /\ Len(Tail(p)) = Len(p) - 1 /\ Len(p) \in Nat \ {0}
      /\ \A j \in 1 .. Len(Tail(p)) : Tail(p)[j] = p[j + 1]
      /\ Head(p) = p[1] /\ Head(p) \in Failure
    OBVIOUS
<1>2. ASSUME NEW i \in 1 .. Len(p), i # 1
      PROVE  \E j \in 1 .. Len(Tail(p)) : Tail(p)[j] = p[i]
    <2>1. i - 1 \in 1 .. Len(Tail(p)) /\ (i - 1) + 1 = i
        BY <1>1, <1>2
    <2> QED
        BY <1>1, <2>1
<1> QED
    BY <1>1, <1>2

(* The pass turns to the next failure of its page, when the first is       *)
(* handled.                                                                *)
LEMMA NextKeeps ==
    ASSUME NightInv, pc \in {"next", "mail"}, page # << >>, Head(page) \in file.handled,
           UNCHANGED <<now, state, ended, file, memory, passNow, upTo, clearing, reports, clears>>,
           pc' = "next", page' = Tail(page),
           mails' \in [Failure -> 0 .. MaxCount], NoRepeatedMail'
    PROVE  NightInv'
<1>1. page \in Seq(Failure) /\ Len(page) <= Page /\ Len(page) \in Nat /\ Page \in Nat
    BY Constants DEF NightInv, TypeOK
<1>2. /\ Tail(page) \in Seq(Failure) /\ Len(Tail(page)) <= Len(page)
      /\ \A i \in 1 .. Len(page) :
            page[i] = Head(page) \/ \E j \in 1 .. Len(Tail(page)) : Tail(page)[j] = page[i]
    BY <1>1, TailOfPage
<1>3. TypeOK'
    <2>1. Len(Tail(page)) <= Page
        BY <1>1, <1>2
    <2> QED
        BY <1>2, <2>1 DEF NightInv, TypeOK
<1>4. Dates'
    BY DEF NightInv, Dates
<1>5. Memory'
    BY DEF NightInv, Memory, OneRunAtRisk
<1>6. InHand'
    BY DEF InHand
<1>7. Ahead'
    <2>1. \A f : OnPage(f) => f = Head(page) \/ OnPage(f)'
        BY <1>2 DEF OnPage
    <2>2. ASSUME NEW r \in Run, StillAhead(r) PROVE StillAhead(r)'
        BY <2>1, <2>2 DEF StillAhead, Since
    <2> QED
        BY <2>2 DEF NightInv, Ahead
<1> QED
    BY <1>3, <1>4, <1>5, <1>6, <1>7 DEF NightInv

LEMMA SkipKeeps == ASSUME NightInv, Skip PROVE NightInv'
<1>1. UNCHANGED <<now, state, ended, file, memory, passNow, upTo, clearing, reports, clears, mails>>
    BY DEF Skip, airflow, record
<1>2. pc = "next" /\ pc' = "next" /\ page # << >> /\ page' = Tail(page)
      /\ Head(page) \in file.handled
    BY DEF Skip, NightInv, Memory
<1>3. mails' \in [Failure -> 0 .. MaxCount] /\ NoRepeatedMail'
    BY <1>1 DEF NightInv, TypeOK, NoRepeatedMail
<1> QED
    BY <1>1, <1>2, <1>3, NextKeeps

LEMMA ReportUnreadKeeps == ASSUME NightInv, ReportUnread PROVE NightInv'
<1>1. UNCHANGED <<now, state, ended, file, memory, passNow, page, upTo, reports, mails, clears>>
    BY DEF ReportUnread, airflow, record
<1>2. pc = "next" /\ pc' = "save" /\ page # << >> /\ clearing' = FALSE
      /\ Head(page) \notin file.handled
    BY DEF ReportUnread, NightInv, Memory
<1>3. TypeOK'
    BY <1>1, <1>2 DEF NightInv, TypeOK
<1>4. Dates' /\ NoRepeatedMail'
    BY <1>1 DEF NightInv, Dates, NoRepeatedMail
<1>5. Memory'
    BY <1>1, <1>2 DEF NightInv, Memory, OneRunAtRisk
<1>6. InHand'
    BY <1>1, <1>2 DEF InHand
<1>7. Ahead'
    BY <1>1, <1>2 DEF NightInv, Ahead, StillAhead, OnPage, Since
<1> QED
    BY <1>3, <1>4, <1>5, <1>6, <1>7 DEF NightInv

(* The agent is counted before it is asked. *)
LEMMA DiagnoseKeeps == ASSUME NightInv, Diagnose PROVE NightInv'
<1> DEFINE d == DayOf(passNow)
           runs == [memory.agentRuns EXCEPT ![d] = memory.agentRuns[d] + 1]
<1>1. UNCHANGED <<now, state, ended, file, passNow, page, upTo, reports, mails, clears>>
    BY DEF Diagnose, airflow, record
<1>2. /\ pc = "next" /\ page # << >> /\ memory.agentRuns[d] < AgentCap
      /\ Head(page) \notin file.handled
      /\ memory' = [memory EXCEPT !.agentRuns[DayOf(passNow)] = @ + 1]
    BY DEF Diagnose, NightInv, Memory
<1>3. PICK transient \in BOOLEAN :
        /\ clearing' = (transient /\ ~ WasCleared(memory, Head(page)))
        /\ pc' = IF clearing' THEN "clear" ELSE "save"
    BY DEF Diagnose, Verdict
<1>4. memory \in States /\ passNow \in Time /\ Memory
    BY DEF NightInv, TypeOK
<1>5. d \in DayNumber /\ memory.agentRuns \in [DayNumber -> 0 .. AgentCap]
    BY <1>4 DEF States, DayNumber
<1> HIDE DEF d
<1>6. /\ runs \in [DayNumber -> 0 .. AgentCap]
      /\ runs[d] = memory.agentRuns[d] + 1
      /\ \A e \in DayNumber \ {d} : runs[e] = memory.agentRuns[e]
    BY <1>2, <1>5, Constants
<1>7. /\ memory'.lastChecked = memory.lastChecked /\ memory'.handled = memory.handled
      /\ memory'.cleared = memory.cleared /\ memory'.agentRuns = runs
      /\ memory' \in States
    <2> USE DEF d
    <2>1. memory' = [memory EXCEPT !.agentRuns = runs]
        BY <1>2
    <2> HIDE DEF runs, d
    <2> QED
        BY <1>4, <1>6, <2>1 DEF States
<1> HIDE DEF runs
<1>8. WasCleared(memory, Head(page)) = WasCleared(file, Head(page))
    BY <1>4 DEF WasCleared, Memory
<1>9. TypeOK'
    BY <1>1, <1>3, <1>7 DEF NightInv, TypeOK
<1>10. Dates' /\ NoRepeatedMail'
    BY <1>1 DEF NightInv, Dates, NoRepeatedMail
<1>11. Memory'
    <2>1. \A e \in DayNumber : memory.agentRuns[e] = file.agentRuns[e]
        BY <1>2, <1>4 DEF Memory, OneRunAtRisk
    <2>2. ASSUME NEW e \in DayNumber, memory'.agentRuns[e] # file.agentRuns[e]
          PROVE  /\ pc' \in {"clear", "save"} /\ e = d
                 /\ memory'.agentRuns[e] = file.agentRuns[e] + 1
        <3>1. e = d
            BY <1>6, <1>7, <2>1, <2>2
        <3> QED
            BY <1>3, <1>5, <1>6, <1>7, <2>1, <3>1
    <2>3. DayOf(passNow)' = d
        BY <1>1 DEF d, DayOf
    <2> QED
        BY <1>1, <1>4, <1>7, <2>2, <2>3 DEF Memory, OneRunAtRisk
<1>12. InHand'
    BY <1>1, <1>2, <1>3, <1>8 DEF InHand, WasCleared
<1>13. Ahead'
    BY <1>1, <1>2, <1>3 DEF NightInv, Ahead, StillAhead, OnPage, Since
<1> QED
    BY <1>9, <1>10, <1>11, <1>12, <1>13 DEF NightInv

(* A clear leaves at most one failed run less, and counts for that run.    *)
LEMMA ClearEffect ==
    ASSUME NightInv, NEW x, TakesEffect(x)
    PROVE  /\ state' \in [Run -> {"running", "failed", "success"}]
           /\ \A r \in Run : state'[r] = "failed" => state[r] = "failed"
           /\ clears' \in [Run -> 0 .. MaxCount]
           /\ \A r \in Run : r # x => clears'[r] = clears[r]
<1>1. /\ state \in [Run -> {"running", "failed", "success"}] /\ clears \in [Run -> 0 .. MaxCount]
      /\ state' = [state EXCEPT ![x] = IF state[x] = "failed" THEN "running" ELSE state[x]]
      /\ clears' = [clears EXCEPT ![x] = IF state[x] = "failed" THEN OneMore(clears[x])
                                         ELSE clears[x]]
    BY DEF NightInv, TypeOK, TakesEffect
<1>2. CASE x \in Run
    <2>1. clears[x] \in 0 .. MaxCount /\ OneMore(clears[x]) \in 0 .. MaxCount
        BY <1>1, <1>2, Constants DEF OneMore
    <2> QED
        BY <1>1, <1>2, <2>1
<1>3. CASE x \notin Run
    <2>1. state' = state /\ clears' = clears
        BY <1>1, <1>3
    <2> QED
        BY <1>1, <2>1
<1> QED
    BY <1>2, <1>3

LEMMA ClearKeeps == ASSUME NightInv, Clear PROVE NightInv'
<1>1. UNCHANGED <<now, ended, file, memory, passNow, page, upTo, clearing, reports, mails>>
    BY DEF Clear
<1>2. pc = "clear" /\ pc' = "save" /\ TakesEffect(Head(page)[1])
    BY DEF Clear
<1>3. /\ state' \in [Run -> {"running", "failed", "success"}]
      /\ \A r \in Run : state'[r] = "failed" => state[r] = "failed"
      /\ clears' \in [Run -> 0 .. MaxCount]
    BY <1>2, ClearEffect
<1>4. TypeOK'
    BY <1>1, <1>2, <1>3 DEF NightInv, TypeOK
<1>5. Dates' /\ NoRepeatedMail'
    BY <1>1, <1>3 DEF NightInv, Dates, NoRepeatedMail
<1>6. Memory'
    BY <1>1, <1>2 DEF NightInv, Memory, OneRunAtRisk, DayOf
<1>7. InHand'
    BY <1>1, <1>2 DEF NightInv, InHand
<1>8. Ahead'
    BY <1>1, <1>2, <1>3 DEF NightInv, Ahead, StillAhead, OnPage, Since
<1> QED
    BY <1>4, <1>5, <1>6, <1>7, <1>8 DEF NightInv

LEMMA ClearFailsKeeps == ASSUME NightInv, ClearFails PROVE NightInv'
<1>1. UNCHANGED <<now, ended, file, reports, mails>> /\ Exit
    BY DEF ClearFails
<1>2. /\ state' \in [Run -> {"running", "failed", "success"}]
      /\ \A r \in Run : state'[r] = "failed" => state[r] = "failed"
      /\ clears' \in [Run -> 0 .. MaxCount]
    <2>1. CASE TakesEffect(Head(page)[1])
        BY <2>1, ClearEffect
    <2>2. CASE UNCHANGED <<state, clears>>
        BY <2>2 DEF NightInv, TypeOK
    <2> QED
        BY <2>1, <2>2 DEF ClearFails
<1>3. file' \in States /\ mails' \in [Failure -> 0 .. MaxCount] /\ NoRepeatedMail'
    BY <1>1 DEF NightInv, TypeOK, NoRepeatedMail
<1> QED
    BY <1>1, <1>2, <1>3, ExitKeeps

(* The failure in hand is remembered. *)
LEMMA SaveKeeps == ASSUME NightInv, Save PROVE NightInv'
<1> DEFINE h == Head(page)
<1>1. UNCHANGED <<now, state, ended, passNow, page, upTo, clearing, reports, mails, clears>>
    BY DEF Save, airflow, record
<1>2. pc = "save" /\ pc' = "report" /\ memory' = Marked(memory, h, clearing) /\ file' = memory'
    BY DEF Save
<1>3. /\ memory \in States /\ page \in Seq(Failure) /\ page # << >> /\ Memory
      /\ h \notin file.handled
    BY <1>2 DEF NightInv, TypeOK, InHand
<1>4. h \in Failure
    BY <1>3, TailOfPage
<1> HIDE DEF h
<1>5. /\ memory' \in States
      /\ memory'.lastChecked = memory.lastChecked
      /\ memory'.handled = memory.handled \cup {h}
    BY <1>2, <1>3, <1>4 DEF Marked, States
<1>6. TypeOK'
    BY <1>1, <1>2, <1>5 DEF NightInv, TypeOK
<1>7. file'.handled = file.handled \cup {h} /\ file'.lastChecked = file.lastChecked
    BY <1>2, <1>3, <1>5 DEF Memory
<1>8. Dates' /\ NoRepeatedMail'
    BY <1>1, <1>7 DEF NightInv, Dates, NoRepeatedMail
<1>9. Memory'
    BY <1>2 DEF Memory, OneRunAtRisk
<1>10. InHand'
    <2>1. mails[h] = 0
        <3>1. mails[h] <= 1 /\ mails[h] # 1 /\ mails[h] \in Nat
            BY <1>3, <1>4, Constants DEF NightInv, TypeOK, NoRepeatedMail
        <3> QED
            BY <3>1
    <2> QED
        BY <1>1, <1>2, <1>3, <1>7, <2>1 DEF InHand, h
<1>11. Ahead'
    <2>1. Since(file, passNow)' = Since(file, passNow)
        BY <1>1, <1>7 DEF Since
    <2>2. ASSUME NEW r \in Run, StillAhead(r) PROVE StillAhead(r)'
        BY <1>1, <1>7, <2>1, <2>2 DEF StillAhead, OnPage
    <2> QED
        BY <1>1, <1>2, <2>2 DEF NightInv, Ahead
<1> QED
    BY <1>6, <1>8, <1>9, <1>10, <1>11 DEF NightInv

LEMMA WriteReportKeeps == ASSUME NightInv, WriteReport PROVE NightInv'
<1>1. UNCHANGED <<now, state, ended, file, memory, passNow, page, upTo, clearing, mails, clears>>
    BY DEF WriteReport, airflow
<1>2. pc = "report" /\ pc' = "mail" /\ reports' = reports \cup {Head(page)}
    BY DEF WriteReport
<1>3. page \in Seq(Failure) /\ page # << >>
    BY <1>2 DEF NightInv, TypeOK, InHand
<1>4. Head(page) \in Failure
    BY <1>3, TailOfPage
<1>5. TypeOK'
    BY <1>1, <1>2, <1>4 DEF NightInv, TypeOK
<1>6. Dates' /\ NoRepeatedMail'
    BY <1>1, <1>2 DEF NightInv, Dates, NoRepeatedMail
<1>7. Memory'
    BY <1>1, <1>2 DEF NightInv, Memory, OneRunAtRisk
<1>8. InHand'
    BY <1>1, <1>2 DEF NightInv, InHand
<1>9. Ahead'
    BY <1>1, <1>2 DEF NightInv, Ahead, StillAhead, OnPage, Since
<1> QED
    BY <1>5, <1>6, <1>7, <1>8, <1>9 DEF NightInv

(* What is mailed is remembered, on disk, and was not mailed before. *)
LEMMA MailOnce ==
    ASSUME NightInv, pc = "mail", Sent(Head(page)), UNCHANGED <<file, reports>>
    PROVE  mails' \in [Failure -> 0 .. MaxCount] /\ NoRepeatedMail'
<1> DEFINE h == Head(page)
<1>1. /\ h \in file.handled /\ h \in reports /\ mails[h] = 0
      /\ mails \in [Failure -> 0 .. MaxCount] /\ mails' = [mails EXCEPT ![h] = OneMore(mails[h])]
    BY DEF NightInv, InHand, TypeOK, Sent
<1>2. OneMore(0) \in 0 .. MaxCount /\ OneMore(0) <= 1
    BY Constants DEF OneMore
<1> HIDE DEF h
<1> QED
    BY <1>1, <1>2 DEF NightInv, NoRepeatedMail

LEMMA MailKeeps == ASSUME NightInv, Mail PROVE NightInv'
<1>1. UNCHANGED <<now, state, ended, file, memory, passNow, upTo, clearing, reports, clears>>
    BY DEF Mail, airflow
<1>2. pc = "mail" /\ pc' = "next" /\ page' = Tail(page) /\ Sent(Head(page))
    BY DEF Mail
<1>3. page # << >> /\ Head(page) \in file.handled
    BY <1>2 DEF NightInv, InHand
<1>4. mails' \in [Failure -> 0 .. MaxCount] /\ NoRepeatedMail'
    BY <1>1, <1>2, MailOnce
<1> QED
    BY <1>1, <1>2, <1>3, <1>4, NextKeeps

LEMMA MailFailsKeeps == ASSUME NightInv, MailFails PROVE NightInv'
<1>1. UNCHANGED <<now, state, ended, file, reports, clears>> /\ Exit /\ pc = "mail"
    BY DEF MailFails, airflow
<1>2. mails' \in [Failure -> 0 .. MaxCount] /\ NoRepeatedMail'
    <2>1. CASE Sent(Head(page))
        BY <1>1, <2>1, MailOnce
    <2>2. CASE UNCHANGED mails
        BY <1>1, <2>2 DEF NightInv, TypeOK, NoRepeatedMail
    <2> QED
        BY <2>1, <2>2 DEF MailFails
<1>3. /\ file' \in States /\ state' \in [Run -> {"running", "failed", "success"}]
      /\ clears' \in [Run -> 0 .. MaxCount]
    BY <1>1 DEF NightInv, TypeOK
<1> QED
    BY <1>1, <1>2, <1>3, ExitKeeps

LEMMA FinishKeeps == ASSUME NightInv, Finish PROVE NightInv'
<1>1. UNCHANGED <<now, state, ended, reports, mails, clears>> /\ Exit
      /\ file' = [memory EXCEPT !.lastChecked = upTo]
    BY DEF Finish, airflow, record
<1>2. memory \in States /\ upTo \in Time /\ memory.handled = file.handled
    BY DEF NightInv, TypeOK, Memory
<1>3. file' \in States /\ file'.handled = file.handled
    BY <1>1, <1>2 DEF States
<1>4. /\ state' \in [Run -> {"running", "failed", "success"}] /\ clears' \in [Run -> 0 .. MaxCount]
      /\ mails' \in [Failure -> 0 .. MaxCount] /\ NoRepeatedMail'
    BY <1>1, <1>3 DEF NightInv, TypeOK, NoRepeatedMail
<1> QED
    BY <1>1, <1>3, <1>4, ExitKeeps

LEMMA AbortKeeps == ASSUME NightInv, Abort PROVE NightInv'
<1>1. UNCHANGED <<now, state, ended, file, reports, mails, clears>> /\ Exit
    BY DEF Abort, airflow, record
<1>2. /\ state' \in [Run -> {"running", "failed", "success"}] /\ clears' \in [Run -> 0 .. MaxCount]
      /\ file' \in States /\ mails' \in [Failure -> 0 .. MaxCount] /\ NoRepeatedMail'
    BY <1>1 DEF NightInv, TypeOK, NoRepeatedMail
<1> QED
    BY <1>1, <1>2, ExitKeeps

-----------------------------------------------------------------------------
(* Every step keeps the invariant. *)
LEMMA NightNext == NightInv /\ [Next]_vars => NightInv'
<1> SUFFICES ASSUME NightInv, [Next]_vars PROVE NightInv'
    OBVIOUS
<1>1. CASE PassStep
    BY <1>1, BeginKeeps, QueryKeeps, SkipKeeps, ReportUnreadKeeps, DiagnoseKeeps, ClearKeeps,
       SaveKeeps, WriteReportKeeps, MailKeeps, FinishKeeps DEF PassStep
<1>2. CASE Breakdown
    BY <1>2, ClearFailsKeeps, MailFailsKeeps, AbortKeeps DEF Breakdown
<1>3. CASE AirflowStep
    BY <1>3, TickKeeps, FailKeeps, SucceedKeeps, ClearByHandKeeps DEF AirflowStep
<1>4. CASE UNCHANGED vars
    <2>1. UNCHANGED <<now, ended, file, pass, record>> /\ state' = state
        BY <1>4 DEF vars, airflow
    <2>2. state' \in [Run -> {"running", "failed", "success"}]
        BY <2>1 DEF NightInv, TypeOK
    <2> QED
        BY <2>1, <2>2, StateKeeps
<1> QED
    BY <1>1, <1>2, <1>3, <1>4 DEF Next

LEMMA NightAlways == Spec => []NightInv
BY NightInit, NightNext, PTL DEF Spec

(* The types, a page never longer than asked for and no day over its cap in *)
(* the state file among them.                                               *)
THEOREM NightTypes == Spec => []TypeOK
<1>1. NightInv => TypeOK
    BY DEF NightInv
<1> QED
    BY <1>1, NightAlways, PTL

(* Whatever breaks, no failure is mailed twice, and what was mailed is      *)
(* remembered and on disk (night_shift.py:8, 334-341).                      *)
THEOREM MailedOnce == Spec => []NoRepeatedMail
<1>1. NightInv => NoRepeatedMail
    BY DEF NightInv
<1> QED
    BY <1>1, NightAlways, PTL

(* A broken pass costs one agent run over the cap at most                   *)
(* (night_shift.py:37, 329-336).                                            *)
THEOREM OneRunIsAtRisk == Spec => []OneRunAtRisk
<1>1. NightInv => OneRunAtRisk
    BY DEF NightInv, Memory
<1> QED
    BY <1>1, NightAlways, PTL

(* The mark moves at the end of a pass only, and all that failed before it  *)
(* is handled (night_shift.py:342-344).                                     *)
THEOREM NoFailureIsSkipped == Spec => NothingSkipped
<1> DEFINE Step == file'.lastChecked # file.lastChecked =>
        \A r \in Run :
            /\ state[r] = "failed"
            /\ ended[r] >= Since(file, passNow)
            /\ ended[r] < file'.lastChecked
            => <<r, ended[r]>> \in file'.handled
<1>1. ASSUME NightInv, [Next]_vars PROVE [Step]_vars
    <2>1. CASE Finish
        <3>1. /\ pc = "next" /\ page = << >> /\ file' = [memory EXCEPT !.lastChecked = upTo]
              /\ memory \in States /\ memory.handled = file.handled
            BY <1>1, <2>1 DEF Finish, NightInv, TypeOK, Memory
        <3>2. file'.lastChecked = upTo /\ file'.handled = file.handled
            BY <3>1 DEF States
        <3>3. ASSUME NEW r \in Run PROVE StillAhead(r) /\ ~ OnPage(<<r, ended[r]>>)
            BY <1>1, <3>1 DEF NightInv, Ahead, OnPage
        <3> QED
            BY <3>2, <3>3 DEF StillAhead
    <2>2. CASE Save
        <3>1. memory \in States /\ memory.lastChecked = file.lastChecked
            BY <1>1 DEF NightInv, TypeOK, Memory
        <3>2. file'.lastChecked = memory.lastChecked
            BY <2>2, <3>1 DEF Save, Marked, States
        <3> QED
            BY <3>1, <3>2
    <2>3. CASE UNCHANGED file
        BY <2>3
    <2>4. Finish \/ Save \/ UNCHANGED file
        BY <1>1 DEF Next, PassStep, Breakdown, AirflowStep, Begin, Query, Skip, ReportUnread,
            Diagnose, Clear, WriteReport, Mail, ClearFails, MailFails, Abort, Tick, Fail,
            Succeed, ClearByHand, vars
    <2> QED
        BY <2>1, <2>2, <2>3, <2>4
<1>2. NightInv /\ [Next]_vars => [Step]_vars
    BY <1>1
<1> QED
    BY <1>2, NightAlways, PTL DEF Spec, NothingSkipped

(* A run whose clear is on file is never cleared again                      *)
(* (night_shift.py:208-214, 334).                                           *)
THEOREM ClearedOnce == Spec => RecordedClearIsFinal
<1> DEFINE Step == \A r \in Run : (\E f \in file.cleared : f[1] = r) => clears'[r] = clears[r]
<1>1. ASSUME NightInv, [Next]_vars PROVE [Step]_vars
    <2>1. ASSUME pc = "clear", TakesEffect(Head(page)[1]) PROVE Step
        <3>1. \A r \in Run : r # Head(page)[1] => clears'[r] = clears[r]
            BY <1>1, <2>1, ClearEffect
        <3>2. \A f \in file.cleared : f[1] # Head(page)[1]
            BY <1>1, <2>1 DEF NightInv, InHand, WasCleared
        <3> QED
            BY <3>1, <3>2
    <2>2. CASE UNCHANGED clears
        BY <2>2
    <2>3. (pc = "clear" /\ TakesEffect(Head(page)[1])) \/ UNCHANGED clears
        BY <1>1 DEF Next, PassStep, Breakdown, AirflowStep, Begin, Query, Skip, ReportUnread,
            Diagnose, Clear, Save, WriteReport, Mail, Finish, ClearFails, MailFails, Abort,
            Tick, Fail, Succeed, ClearByHand, vars, record
    <2> QED
        BY <2>1, <2>2, <2>3
<1>2. NightInv /\ [Next]_vars => [Step]_vars
    BY <1>1
<1> QED
    BY <1>2, NightAlways, PTL DEF Spec, RecordedClearIsFinal
=============================================================================
