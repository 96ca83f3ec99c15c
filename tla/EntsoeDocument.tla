--------------------------- MODULE EntsoeDocument ---------------------------
(***************************************************************************)
(* What src/megavolt/entsoe.py makes of an answer of the platform: a body  *)
(* is refused as a whole (EntsoeError), or it is a value per key. No       *)
(* missing value is invented, no contradiction is settled by choosing.     *)
(*                                                                         *)
(* Abstraction: a moment is a number of quarter hours, a step a number of  *)
(* them; an XML document is the record of the elements the parser looks    *)
(* for, and an element that is absent or cannot be read is Unreadable.     *)
(* What a price and a load document share is one status and one direction, *)
(* both None.                                                              *)
(***************************************************************************)
EXTENDS Integers, Sequences, FiniteSets

CONSTANTS
    MaxPoints,      \* MAX_PERIOD_POINTS
    MaxMembers,     \* MAX_ZIP_MEMBERS
    Value,          \* published values
    Unreadable,     \* an element that is absent or is not what it should be
    Refused,        \* EntsoeError
    None            \* no status, no direction

ASSUME DocumentAssumption ==
    /\ MaxPoints \in Nat \ {0}
    /\ MaxMembers \in Nat \ {0}

Categories == {"A04", "A05"}
Statuses == {"A01", "A02"}

-----------------------------------------------------------------------------
(* What an element may hold. *)

(* A period as it is written, its elements read or unreadable. *)
Written(period) ==
    /\ {period.start, period.end} \subseteq Int \cup {Unreadable}
    /\ period.step \in (Nat \ {0}) \cup {Unreadable}
    /\ \A n \in DOMAIN period.points :
        /\ period.points[n].position \in Int \cup {Unreadable}
        /\ period.points[n].value \in Value \cup {Unreadable}

Elements(document) ==
    \A i \in DOMAIN document.series : \A j \in DOMAIN document.series[i].periods :
        Written(document.series[i].periods[j])

-----------------------------------------------------------------------------
(* One period of one series. *)

Expected(period) == (period.end - period.start) \div period.step

Positions(period) == {period.points[i].position : i \in DOMAIN period.points}

(* The checks of _parse_period before it expands anything. *)
Usable(period) ==
    /\ Unreadable \notin {period.step, period.start, period.end}
    /\ Expected(period) \in 1 .. MaxPoints
    /\ \A i \in DOMAIN period.points :
        /\ Unreadable \notin {period.points[i].position, period.points[i].value}
        /\ \A j \in DOMAIN period.points :
            period.points[i].position = period.points[j].position => i = j
    /\ Positions(period) \subseteq 1 .. Expected(period)

ValueAt(period, position) ==
    LET i == CHOOSE i \in DOMAIN period.points : period.points[i].position = position
    IN  period.points[i].value

(* Slip: a gap is filled whatever the curve says. *)
ExpandAny(period, curve) ==
    LET carried[p \in 0 .. Expected(period)] ==
            IF p \in Positions(period) THEN ValueAt(period, p)
            ELSE IF p = 0 THEN None
            ELSE carried[p - 1]
    IN  [p \in {p \in 1 .. Expected(period) : carried[p] # None} |-> carried[p]]

(* The loop of _parse_period: a value is carried forward only for A03. *)
Expand(period, curve) ==
    LET carried[p \in 0 .. Expected(period)] ==
            IF p \in Positions(period) THEN ValueAt(period, p)
            ELSE IF p = 0 \/ curve # "A03" THEN None
            ELSE carried[p - 1]
    IN  [p \in {p \in 1 .. Expected(period) : carried[p] # None} |-> carried[p]]

-----------------------------------------------------------------------------
(* One document. *)

(* _category(): the one known direction of a series. *)
Category(series) ==
    IF Cardinality(series.categories) = 1 /\ series.categories \subseteq Categories
    THEN CHOOSE c \in series.categories : TRUE
    ELSE Refused

(* The points a document expands to, each with its key: <<direction, moment>>. *)
PointsOf(document, directed) ==
    UNION {UNION {
        LET series == document.series[i]
            period == series.periods[j]
            values == Expand(period, series.curve)
        IN  {[at |-> <<i, j, p>>,
              key |-> <<IF directed THEN Category(series) ELSE None,
                        period.start + (p - 1) * period.step>>,
              value |-> values[p], step |-> period.step] : p \in DOMAIN values} :
        j \in DOMAIN document.series[i].periods} : i \in DOMAIN document.series}

(* Points say the same of a key, or are points of different keys. *)
Agree(points) ==
    \A a, b \in points : a.key = b.key => a.value = b.value /\ a.step = b.step

(* _root() and _values(): a set of points that can be used, or Refused. *)
Values(document, directed) ==
    LET points == PointsOf(document, directed)
    IN  IF /\ document.root = "market"
           /\ \A i \in DOMAIN document.series :
                \A j \in DOMAIN document.series[i].periods :
                    Usable(document.series[i].periods[j])
           /\ \A point \in points : point.key[1] # Refused
           /\ Agree(points)
           /\ Cardinality(points) \in 1 .. MaxPoints
        THEN points
        ELSE Refused

ByKey(points) ==
    [k \in {point.key : point \in points} |-> CHOOSE point \in points : point.key = k]

-----------------------------------------------------------------------------
(* The answers. *)

(* parse_price_document(), parse_load_document(): one plain document. *)
Single(body) ==
    IF body.form # "plain" THEN Refused
    ELSE LET points == Values(body.documents[1], FALSE)
         IN  IF points = Refused THEN Refused
             ELSE LET found == ByKey(points)
                  IN  [k \in DOMAIN found |->
                        [value |-> found[k].value, step |-> found[k].step, status |-> None]]

StatusKnown(document) == document.status \in Statuses

(* parse_imbalance_document(): the documents of an archive, each with the  *)
(* status it carries, which may repeat a key but not contradict each other. *)
Documents(body) ==
    LET numbers == DOMAIN body.documents
        points == UNION {LET found == Values(body.documents[n], TRUE)
                         IN  IF found = Refused THEN {}
                             ELSE {[key |-> point.key, value |-> point.value,
                                    step |-> point.step, status |-> body.documents[n].status] :
                                    point \in found} : n \in numbers}
    IN  IF /\ Cardinality(numbers) \in 1 .. MaxMembers
           /\ \A n \in numbers : /\ StatusKnown(body.documents[n])
                                 /\ Values(body.documents[n], TRUE) # Refused
           /\ \A a, b \in points : a.key = b.key => a = b
        THEN [k \in {point.key : point \in points} |->
                LET point == CHOOSE point \in points : point.key = k
                IN  [value |-> point.value, step |-> point.step, status |-> point.status]]
        ELSE Refused
=============================================================================
