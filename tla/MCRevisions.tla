---------------------------- MODULE MCRevisions -----------------------------
(* Instances of Revisions for TLC: two quarter hours a day; some days are  *)
(* published in every form, the days around them in one.                   *)
EXTENDS Revisions

CONSTANTS RichDays

At(p, v) == [position |-> p, value |-> v]

Period(d, step, points) ==
    [start |-> d * DayLength, end |-> (d + 1) * DayLength, step |-> step, points |-> points]

Series(category, curve, periods) ==
    [categories |-> {category}, curve |-> curve, periods |-> periods]

Document(status, series) == [root |-> "market", status |-> status, series |-> series]

Plain(document) == [form |-> "plain", documents |-> <<document>>]
Archive(documents) == [form |-> "zip", documents |-> documents]

(* One value for the whole day, carried forward. *)
Flat(d, status, v) ==
    Plain(Document(status, <<Series("A04", "A03", <<Period(d, 1, <<At(1, v)>>)>>)>>))

(* The same where nothing is carried forward: a gap follows. *)
Gap(d, status, v) ==
    Plain(Document(status, <<Series("A04", "A01", <<Period(d, 1, <<At(1, v)>>)>>)>>))

(* One step as long as the day. *)
Coarse(d, status, v) ==
    Plain(Document(status, <<Series("A04", "A03", <<Period(d, DayLength, <<At(1, v)>>)>>)>>))

(* Two series that overlap and do not agree. *)
Contradiction(d, status) ==
    Plain(Document(status, <<Series("A04", "A03", <<Period(d, 1, <<At(1, 1)>>)>>),
                             Series("A04", "A03", <<Period(d, 1, <<At(2, 2)>>)>>),
                             Series("A04", "A03", <<Period(d, 1, <<At(1, 2)>>)>>)>>))

(* The same interval in two documents of one archive, once as final. *)
Both(d) ==
    Archive(<<Flat(d, "A01", 1).documents[1], Flat(d, "A02", 1).documents[1]>>)

BothDirections(d, status) ==
    Archive(<<Flat(d, status, 1).documents[1],
              Document(status, <<Series("A05", "A01", <<Period(d, 1, <<At(2, 2)>>)>>)>>)>>)

Broken == [form |-> "broken", documents |-> << >>]

Bodies ==
    [d \in Day |->
        IF d \in RichDays
        THEN {Flat(d, s, v) : s \in Statuses, v \in Value}
             \cup {Gap(d, "A01", 2), Coarse(d, "A01", 1), BothDirections(d, "A02")}
             \cup {Contradiction(d, "A01"), Flat(d, "A03", 1), Both(d), Broken}
        ELSE {Flat(d, "A02", 1)}]
=============================================================================
