-------------------------- MODULE RevisionsProofs ---------------------------
(* What the feeds promise for any window, any number of runs and retries   *)
(* and whatever the source answers: that no day is hidden, that a success  *)
(* has seen what was final, and that the row staging picks is the one that *)
(* was said last. The parser is proved too: an answer that is not refused  *)
(* is read as it is stated, each value of a period carried as far as it    *)
(* holds and no further, whatever the documents, their order and curves.   *)
EXTENDS Revisions, FiniteSetTheorems, Numbers, TLAPS

-----------------------------------------------------------------------------
(* Numbers. *)

LEMMA Constants ==
    /\ Feed \subseteq {"imbalance", "load", "day_ahead", "profile"} /\ Day \subseteq Int
    /\ ProfileYear \in Day /\ Window \in Nat /\ FirstRun \in Int /\ LastRun \in Int
    /\ None \notin Statuses /\ None \notin UNION {{d} \X Body[d] : d \in Day}
BY RevisionsAssumption

(* Among the places of a sequence there is a last. *)
LEMMA LargestPlace ==
    ASSUME NEW n \in Nat, NEW T, T \subseteq 1 .. n, T # {}
    PROVE  Max(T) \in T /\ \A y \in T : y <= Max(T)
<1> DEFINE U == {n - x : x \in T}
<1>1. U \subseteq Nat /\ U # {}
    <2>1. \A x \in T : n - x \in Nat
        OBVIOUS
    <2> QED
        BY <2>1
<1> HIDE DEF U
<1>2. PICK u \in U : \A w \in U : u <= w
    BY <1>1, SmallestNumber
<1> USE DEF U
<1>3. PICK x \in T : u = n - x
    BY <1>2
<1>4. ASSUME NEW y \in T PROVE x >= y
    <2>1. n - x <= n - y
        BY <1>2, <1>3
    <2>2. x \in Int /\ y \in Int
        OBVIOUS
    <2> QED
        BY <2>1, <2>2
<1>5. \E z \in T : \A y \in T : z >= y
    BY <1>4
<1>6. Max(T) \in T /\ \A y \in T : Max(T) >= y
    BY <1>5, Zenon DEF Max
<1> QED
    BY <1>6

-----------------------------------------------------------------------------
(* The rows of a key and what was said of it. *)

(* HashOf, as an operator of the feed. *)
Hash(of, content) ==
    CASE of = "imbalance" -> <<content.status, content.value>>
      [] of = "day_ahead" -> <<content.value, content.step>>
      [] of \in {"load", "profile"} -> <<content.value>>

LEMMA HashIs == \A content : HashOf(content) = Hash(feed, content)
BY DEF HashOf, Hash

KeyInv(k) ==
    /\ \E S : rows[k] \in Seq(S)
    /\ rows[k] # << >> <=> k \in DOMAIN said
    /\ rows[k] # << >> /\ feed # "profile" =>
            Hash(feed, Last(rows[k])) = Hash(feed, said[k])
    /\ rows[k] # << >> /\ feed = "profile" /\ k \notin returned =>
            Last(rows[k]).value = said[k].value
    /\ k \in DOMAIN saidFinal <=> \E i \in DOMAIN rows[k] : rows[k][i].status = "A02"
    /\ k \in DOMAIN saidFinal => saidFinal[k].status = "A02"
    /\ \A i \in DOMAIN rows[k] :
            /\ rows[k][i].status = "A02"
            /\ \A j \in DOMAIN rows[k] : rows[k][j].status = "A02" => j <= i
            => rows[k][i].value = saidFinal[k].value
    /\ feed # "imbalance" =>
            /\ \A i \in DOMAIN rows[k] : rows[k][i].status = None
            /\ k \in DOMAIN said => said[k].status = None

TableInv ==
    /\ feed \in Feed
    /\ \A k \in Key : KeyInv(k)

LEMMA FeedIs ==
    ASSUME TableInv
    PROVE  feed \in {"imbalance", "load", "day_ahead", "profile"}
BY Constants DEF TableInv

(* A status that is none is not final. *)
LEMMA NoneIsNotFinal == None # "A02"
BY Constants DEF Statuses

(* The row staging picks is the one that was said last. *)
LEMMA WinnerFits == TableInv => WinnerIsLastSaid
<1> SUFFICES ASSUME TableInv, NEW k \in Key, k \in DOMAIN said
             PROVE  LET last == IF k \in DOMAIN saidFinal THEN saidFinal[k] ELSE said[k]
                    IN  \/ /\ Winner(k).value = last.value
                           /\ Winner(k).status = last.status
                           /\ feed = "day_ahead" => Winner(k).step = last.step
                        \/ KeyedByContent /\ k \in returned
    BY DEF WinnerIsLastSaid
<1> DEFINE finals == {i \in DOMAIN rows[k] : rows[k][i].status = "A02"}
           s == rows[k]
<1>1. KeyInv(k)
    BY DEF TableInv
<1>2. s # << >> /\ \E S : s \in Seq(S)
    BY <1>1 DEF KeyInv
<1>3. DOMAIN s = 1 .. Len(s) /\ Len(s) \in Nat \ {0}
    BY <1>2
<1>4. CASE finals # {}
    <2>1. finals \subseteq 1 .. Len(s)
        BY <1>3
    <2> DEFINE m == Max(finals)
    <2>2. m \in finals /\ \A j \in finals : j <= m
        BY <1>3, <1>4, <2>1, LargestPlace
    <2> HIDE DEF m
    <2>3. k \in DOMAIN saidFinal /\ saidFinal[k].status = "A02"
          /\ rows[k][m].status = "A02" /\ rows[k][m].value = saidFinal[k].value
        BY <1>1, <1>4, <2>2 DEF KeyInv
    <2>4. feed # "day_ahead"
        BY <1>1, <2>2, <2>3, NoneIsNotFinal DEF KeyInv
    <2>5. Winner(k) = rows[k][m]
        BY <1>4 DEF Winner, m
    <2> QED
        BY <2>3, <2>4, <2>5
<1>5. CASE finals = {}
    <2>1. Winner(k) = Last(s) /\ Last(s) = s[Len(s)]
        BY <1>5 DEF Winner, Last
    <2>2. k \notin DOMAIN saidFinal
        BY <1>1, <1>5 DEF KeyInv
    <2>3. Len(s) \in DOMAIN rows[k]
        BY <1>3
    <2>4. feed # "imbalance" => Last(s).status = said[k].status
        BY <1>1, <2>1, <2>3 DEF KeyInv
    <2>5. CASE feed = "profile"
        <3>1. k \notin returned => Last(s).value = said[k].value
            BY <1>1, <1>2, <2>5 DEF KeyInv
        <3> QED
            BY <2>1, <2>2, <2>4, <2>5, <3>1 DEF KeyedByContent
    <2>6. CASE feed # "profile"
        <3>1. Hash(feed, Last(s)) = Hash(feed, said[k])
            BY <1>1, <1>2, <2>6 DEF KeyInv
        <3>2. feed = "imbalance" => Last(s).status = said[k].status /\ Last(s).value = said[k].value
            BY <3>1 DEF Hash
        <3>3. feed = "load" => Last(s).value = said[k].value
            BY <3>1 DEF Hash
        <3>4. feed = "day_ahead" => Last(s).value = said[k].value /\ Last(s).step = said[k].step
            BY <3>1 DEF Hash
        <3> QED
            BY <2>1, <2>2, <2>4, <2>6, <3>2, <3>3, <3>4, FeedIs
    <2> QED
        BY <2>5, <2>6
<1> QED
    BY <1>4, <1>5

(* A document without a status is read as one. *)
LEMMA NoStatus ==
    ASSUME feed # "imbalance", NEW body, Parsed(body) # Refused, NEW k \in DOMAIN Parsed(body)
    PROVE  Parsed(body)[k].status = None
<1>1. Parsed(body) = Single(body)
    BY DEF Parsed
<1> DEFINE points == Values(body.documents[1], FALSE)
           found == ByKey(points)
<1>2. Single(body) = [i \in DOMAIN found |->
                        [value |-> found[i].value, step |-> found[i].step, status |-> None]]
    BY <1>1 DEF Single
<1> HIDE DEF found
<1> QED
    BY <1>1, <1>2

(* An answer all of whose documents are final says final things only. *)
LEMMA AllFinal ==
    ASSUME feed = "imbalance", NEW body, Parsed(body) # Refused,
           \A n \in DOMAIN body.documents : body.documents[n].status = "A02",
           NEW k \in DOMAIN Parsed(body)
    PROVE  Parsed(body)[k].status = "A02"
<1> DEFINE numbers == DOMAIN body.documents
           of(n) == LET found == Values(body.documents[n], TRUE)
                    IN  IF found = Refused THEN {}
                        ELSE {[key |-> point.key, value |-> point.value, step |-> point.step,
                               status |-> body.documents[n].status] : point \in found}
           points == UNION {of(n) : n \in numbers}
           keys == {point.key : point \in points}
           chosen(i) == CHOOSE point \in points : point.key = i
           contents == [i \in keys |-> [value |-> chosen(i).value, step |-> chosen(i).step,
                                        status |-> chosen(i).status]]
<1>1. Parsed(body) = Documents(body)
    BY DEF Parsed
<1>2. Documents(body) = contents \/ Documents(body) = Refused
    BY DEF Documents
<1>3. ASSUME NEW point \in points PROVE point.status = "A02"
    <2>1. PICK n \in numbers : point \in of(n)
        OBVIOUS
    <2> DEFINE found == Values(body.documents[n], TRUE)
               read(p) == [key |-> p.key, value |-> p.value, step |-> p.step,
                            status |-> body.documents[n].status]
    <2>2. point.status = body.documents[n].status
        <3>1. of(n) = IF found = Refused THEN {} ELSE {read(p) : p \in found}
            BY Zenon
        <3> HIDE DEF found, of
        <3>2. PICK p \in found : point = read(p)
            BY <2>1, <3>1
        <3> QED
            BY <3>2
    <2> QED
        BY <2>2
<1> HIDE DEF points
<1>4. k \in keys
    BY <1>1, <1>2
<1>5. chosen(k) \in points
    BY <1>4
<1>6. contents[k].status = chosen(k).status
    BY <1>4
<1> QED
    BY <1>1, <1>2, <1>3, <1>5, <1>6

-----------------------------------------------------------------------------
(* Storing. *)

(* A row more at the end. *)
LEMMA OneMoreRow ==
    ASSUME NEW s, \E S : s \in Seq(S), NEW c
    PROVE  /\ \E S : Append(s, c) \in Seq(S)
           /\ Append(s, c) # << >>
           /\ DOMAIN s = 1 .. Len(s) /\ Len(s) \in Nat
           /\ DOMAIN Append(s, c) = 1 .. Len(s) + 1
           /\ \A i \in DOMAIN s : Append(s, c)[i] = s[i]
           /\ Append(s, c)[Len(s) + 1] = c
           /\ Last(Append(s, c)) = c
<1>1. PICK S : s \in Seq(S)
    OBVIOUS
<1> DEFINE T == S \cup {c}
<1>2. s \in Seq(T) /\ c \in T
    BY <1>1
<1> HIDE DEF T
<1>3. /\ Append(s, c) \in Seq(T) /\ Len(s) \in Nat /\ Len(Append(s, c)) = Len(s) + 1
      /\ \A i \in 1 .. Len(s) : Append(s, c)[i] = s[i]
      /\ Append(s, c)[Len(s) + 1] = c
    BY <1>2
<1>4. DOMAIN s = 1 .. Len(s) /\ DOMAIN Append(s, c) = 1 .. Len(s) + 1
    BY <1>2, <1>3
<1>5. Last(Append(s, c)) = c
    BY <1>3 DEF Last
<1>6. Append(s, c) # << >>
    <2>1. Len(Append(s, c)) # 0 /\ Len(<< >>) = 0
        BY <1>3
    <2> HIDE DEF T
    <2> QED
        BY <2>1, Zenon
<1> QED
    BY <1>3, <1>4, <1>5, <1>6

LEMMA StoreKeeps ==
    ASSUME TableInv, UNCHANGED feed, NEW d, NEW contents, Store(d, contents),
           feed # "imbalance" => \A k \in DOMAIN contents : contents[k].status = None
    PROVE  TableInv'
<1> SUFFICES ASSUME NEW k \in Key PROVE KeyInv(k)'
    BY DEF TableInv
<1> DEFINE s == rows[k]
           c == contents[k]
           finals == [i \in {i \in DOMAIN contents : contents[i].status = "A02"} |-> contents[i]]
<1>1. KeyInv(k)
    BY DEF TableInv
<1>2. /\ rows'[k] = IF k \in DOMAIN contents /\ Inserts(k, c) THEN Append(s, c) ELSE s
      /\ said' = Updated(said, contents) /\ saidFinal' = Updated(saidFinal, finals)
      /\ returned \subseteq returned'
    BY DEF Store
<1>3. feed' = feed
    OBVIOUS
<1>4. CASE k \notin DOMAIN contents
    <2>1. rows'[k] = rows[k]
        BY <1>2, <1>4
    <2>2. /\ k \in DOMAIN said' <=> k \in DOMAIN said
          /\ k \in DOMAIN said => said'[k] = said[k]
        BY <1>2, <1>4 DEF Updated
    <2>3. /\ k \in DOMAIN saidFinal' <=> k \in DOMAIN saidFinal
          /\ k \in DOMAIN saidFinal => saidFinal'[k] = saidFinal[k]
        BY <1>2, <1>4 DEF Updated
    <2>4. rows'[k] # << >> => k \in DOMAIN said
        BY <1>1, <2>1 DEF KeyInv
    <2>5. \A i \in DOMAIN rows[k] : rows[k][i].status = "A02" => saidFinal'[k] = saidFinal[k]
        BY <1>1, <2>3 DEF KeyInv
    <2> QED
        BY <1>1, <1>2, <1>3, <2>1, <2>2, <2>3, <2>4, <2>5 DEF KeyInv
<1>5. CASE k \in DOMAIN contents
    <2>1. k \in DOMAIN said' /\ said'[k] = c
        BY <1>2, <1>5 DEF Updated
    <2>2. /\ c.status = "A02" => k \in DOMAIN saidFinal' /\ saidFinal'[k] = c
          /\ c.status # "A02" => (k \in DOMAIN saidFinal' <=> k \in DOMAIN saidFinal)
          /\ c.status # "A02" /\ k \in DOMAIN saidFinal => saidFinal'[k] = saidFinal[k]
        BY <1>2, <1>5 DEF Updated
    <2>3. feed # "imbalance" => c.status = None
        BY <1>5
    <2>4. \E S : s \in Seq(S)
        BY <1>1 DEF KeyInv
    <2> DEFINE t == Append(s, c)
               n == Len(s)
    <2>5. /\ \E S : t \in Seq(S)
          /\ t # << >> /\ DOMAIN s = 1 .. n /\ n \in Nat /\ DOMAIN t = 1 .. n + 1
          /\ \A i \in DOMAIN s : t[i] = s[i]
          /\ t[n + 1] = c /\ Last(t) = c
        BY <2>4, OneMoreRow
    <2> HIDE DEF t, n
    <2>6. CASE Inserts(k, c)
        <3>1. rows'[k] = t
            BY <1>2, <1>5, <2>6 DEF t
        <3>2. Last(rows'[k]) = said'[k]
            BY <2>1, <2>5, <3>1
        <3>4. k \in DOMAIN saidFinal' <=> \E i \in DOMAIN t : t[i].status = "A02"
            <4>1. CASE c.status = "A02"
                <5>1. n + 1 \in DOMAIN t
                    BY <2>5
                <5> QED
                    BY <2>2, <2>5, <4>1, <5>1
            <4>2. CASE c.status # "A02"
                <5>1. \A i \in DOMAIN t : t[i].status = "A02" => i \in DOMAIN s /\ s[i].status = "A02"
                    BY <2>5, <4>2
                <5>2. \A i \in DOMAIN s : i \in DOMAIN t /\ t[i] = s[i]
                    BY <2>5
                <5>3. k \in DOMAIN saidFinal <=> \E i \in DOMAIN s : s[i].status = "A02"
                    BY <1>1 DEF KeyInv
                <5> QED
                    BY <2>2, <4>2, <5>1, <5>2, <5>3
            <4> QED
                BY <4>1, <4>2
        <3>5. k \in DOMAIN saidFinal' => saidFinal'[k].status = "A02"
            BY <1>1, <2>2 DEF KeyInv
        <3>6. ASSUME NEW i \in DOMAIN t, t[i].status = "A02",
                     \A j \in DOMAIN t : t[j].status = "A02" => j <= i
              PROVE  t[i].value = saidFinal'[k].value
            <4>1. CASE c.status = "A02"
                <5>1. i = n + 1
                    BY <2>5, <3>6, <4>1
                <5> QED
                    BY <2>2, <2>5, <4>1, <5>1
            <4>2. CASE c.status # "A02"
                <5>1. i \in DOMAIN s /\ s[i] = t[i]
                    BY <2>5, <3>6, <4>2
                <5>2. \A j \in DOMAIN s : s[j].status = "A02" => j <= i
                    BY <2>5, <3>6
                <5>3. k \in DOMAIN saidFinal /\ s[i].value = saidFinal[k].value
                    BY <1>1, <3>6, <5>1, <5>2 DEF KeyInv
                <5> QED
                    BY <2>2, <4>2, <5>1, <5>3
            <4> QED
                BY <4>1, <4>2
        <3>7. feed # "imbalance" => \A i \in DOMAIN t : t[i].status = None
            BY <1>1, <2>3, <2>5 DEF KeyInv
        <3> QED
            BY <2>1, <2>3, <2>5, <3>1, <3>2, <3>4, <3>5, <3>6, <3>7, <1>3 DEF KeyInv
    <2>7. CASE ~ Inserts(k, c)
        <3>1. rows'[k] = s
            BY <1>2, <2>7
        <3>2. s # << >>
            BY <2>5, <2>7 DEF Inserts
        <3>3. k \in DOMAIN said /\ DOMAIN s = 1 .. n /\ n \in Nat /\ n \in DOMAIN s /\ Last(s) = s[n]
            <4>1. n # 0
                BY <2>4, <3>2 DEF n
            <4> QED
                BY <1>1, <2>5, <3>2, <4>1 DEF KeyInv, Last, n
        <3>4. feed # "profile" => Hash(feed, Last(s)) = Hash(feed, c)
            BY <2>7, <3>2, HashIs DEF Inserts, KeyedByContent
        <3>6. feed = "profile" /\ k \notin returned' => Last(s).value = c.value
            <4> SUFFICES ASSUME feed = "profile", k \notin returned' PROVE Last(s).value = c.value
                OBVIOUS
            <4>2. PICK i \in DOMAIN s : Hash(feed, s[i]) = Hash(feed, c)
                BY <2>7, HashIs DEF Inserts, KeyedByContent
            <4>3. s[i].value = c.value
                BY <4>2 DEF Hash
            <4>4. said[k].value = c.value
                BY <1>5, <3>3, <4>3 DEF Store
            <4>5. Last(s).value = said[k].value
                BY <1>1, <1>2, <3>2 DEF KeyInv
            <4> QED
                BY <4>4, <4>5
        <3>7. c.status = "A02" => k \in DOMAIN saidFinal /\ s[n].status = "A02"
                                  /\ s[n].value = c.value
            <4> SUFFICES ASSUME c.status = "A02"
                         PROVE  k \in DOMAIN saidFinal /\ s[n].status = "A02" /\ s[n].value = c.value
                OBVIOUS
            <4>1. feed = "imbalance"
                BY <2>3, NoneIsNotFinal
            <4>2. s[n].status = c.status /\ s[n].value = c.value
                BY <3>3, <3>4, <4>1 DEF Hash
            <4> QED
                BY <1>1, <3>3, <4>2 DEF KeyInv
        <3>8. k \in DOMAIN saidFinal' <=> \E i \in DOMAIN s : s[i].status = "A02"
            BY <1>1, <2>2, <3>7 DEF KeyInv
        <3>9. k \in DOMAIN saidFinal' => saidFinal'[k].status = "A02"
            BY <1>1, <2>2 DEF KeyInv
        <3>10. ASSUME NEW i \in DOMAIN s, s[i].status = "A02",
                      \A j \in DOMAIN s : s[j].status = "A02" => j <= i
               PROVE  s[i].value = saidFinal'[k].value
            <4>1. CASE c.status = "A02"
                <5>1. i = n
                    BY <3>3, <3>7, <3>10, <4>1
                <5> QED
                    BY <2>2, <3>7, <4>1, <5>1
            <4>2. CASE c.status # "A02"
                <5>1. k \in DOMAIN saidFinal /\ s[i].value = saidFinal[k].value
                    BY <1>1, <3>10 DEF KeyInv
                <5> QED
                    BY <2>2, <4>2, <5>1
            <4> QED
                BY <4>1, <4>2
        <3>11. feed # "imbalance" => \A i \in DOMAIN s : s[i].status = None
            BY <1>1 DEF KeyInv
        <3> QED
            BY <1>3, <2>1, <2>3, <2>4, <3>1, <3>2, <3>3, <3>4, <3>6, <3>8, <3>9, <3>10, <3>11 DEF KeyInv
    <2> QED
        BY <2>6, <2>7
<1> QED
    BY <1>4, <1>5

-----------------------------------------------------------------------------
(* What a period is expanded to. *)

(* One turn of the loop of _parse_period. *)
Carry(period, curve, f, p) ==
    IF p \in Positions(period) THEN ValueAt(period, p)
    ELSE IF p = 0 \/ curve # "A03" THEN None
    ELSE f[p - 1]

ExpandsBy(period, curve, f) ==
    /\ \A p \in 0 .. Expected(period) : f[p] = Carry(period, curve, f, p)
    /\ Expand(period, curve) = [p \in {p \in 1 .. Expected(period) : f[p] # None} |-> f[p]]

LEMMA ExpandIs ==
    ASSUME NEW period, NEW curve
    PROVE  Expand(period, curve) =
            LET f == CHOOSE f : f = [p \in 0 .. Expected(period) |-> Carry(period, curve, f, p)]
            IN  [p \in {p \in 1 .. Expected(period) : f[p] # None} |-> f[p]]
BY DEF Expand, Carry

LEMMA ExpandUnfolds ==
    ASSUME NEW period, NEW curve, Expected(period) \in Nat
    PROVE  \E f : ExpandsBy(period, curve, f)
<1> DEFINE E == Expected(period)
           Step(f, p) == Carry(period, curve, f, p)
           Works(f, n) == \A p \in 0 .. E : p <= n => f[p] = Step(f, p)
           Bad == {n \in Nat : ~ \E f : Works(f, n)}
<1>1. Bad = {}
    <2> SUFFICES ASSUME Bad # {} PROVE FALSE
        OBVIOUS
    <2>1. PICK m \in Bad : \A n \in Bad : m <= n
        BY SmallestNumber
    <2>2. CASE m = 0
        <3> DEFINE f == [p \in 0 .. E |-> Step(<< >>, 0)]
        <3>1. Step(f, 0) = Step(<< >>, 0)
            BY DEF Carry
        <3>2. Works(f, 0)
            BY <3>1
        <3> HIDE DEF f, Works
        <3> QED
            BY <2>1, <2>2, <3>2
    <2>3. CASE m # 0
        <3>1. m - 1 \in Nat /\ m - 1 \notin Bad
            BY <2>1, <2>3
        <3>2. PICK f : Works(f, m - 1)
            BY <3>1
        <3> DEFINE g == [p \in 0 .. E |-> Step(f, p)]
        <3>3. Works(g, m)
            <4> SUFFICES ASSUME NEW p \in 0 .. E, p <= m PROVE g[p] = Step(g, p)
                OBVIOUS
            <4>1. CASE p = 0
                BY <4>1 DEF Carry
            <4>2. CASE p # 0
                <5>1. p - 1 \in 0 .. E /\ p - 1 <= m - 1
                    BY <2>1, <4>2
                <5>2. g[p - 1] = f[p - 1]
                    BY <3>2, <5>1
                <5>3. g[p] = Step(f, p)
                    OBVIOUS
                <5> HIDE DEF g
                <5> QED
                    BY <5>2, <5>3 DEF Carry
            <4> QED
                BY <4>1, <4>2
        <3> HIDE DEF g, Works
        <3> QED
            BY <2>1, <3>3
    <2> QED
        BY <2>2, <2>3
<1>2. \E f : f = [p \in 0 .. E |-> Step(f, p)]
    <2>1. PICK f : Works(f, E)
        BY <1>1
    <2> DEFINE g == [p \in 0 .. E |-> f[p]]
    <2>2. ASSUME NEW p \in 0 .. E PROVE g[p] = Step(g, p)
        <3>1. f[p] = Step(f, p)
            BY <2>1
        <3>2. p # 0 => p - 1 \in 0 .. E
            OBVIOUS
        <3>3. p # 0 => g[p - 1] = f[p - 1]
            BY <3>2
        <3>4. g[p] = f[p]
            OBVIOUS
        <3> HIDE DEF g
        <3> QED
            BY <3>1, <3>3, <3>4 DEF Carry
    <2>3. g = [p \in 0 .. E |-> Step(g, p)]
        BY <2>2
    <2> QED
        BY <2>3
<1> DEFINE f == CHOOSE f : f = [p \in 0 .. E |-> Step(f, p)]
<1>3. f = [p \in 0 .. E |-> Step(f, p)]
    BY <1>2
<1>4. Expand(period, curve) = [p \in {p \in 1 .. E : f[p] # None} |-> f[p]]
    BY ExpandIs
<1> HIDE DEF f
<1>5. \A p \in 0 .. E : f[p] = Step(f, p)
    BY <1>3
<1> QED
    BY <1>4, <1>5 DEF ExpandsBy

(* A point lies at the position, or is the last before it where values are  *)
(* carried forward.                                                         *)
Says(period, curve, p, v) ==
    \E n \in DOMAIN period.points :
        /\ period.points[n].value = v
        /\ \/ period.points[n].position = p
           \/ /\ curve = "A03" /\ period.points[n].position < p
              /\ \A l \in DOMAIN period.points :
                    ~ (period.points[n].position < period.points[l].position
                        /\ period.points[l].position <= p)

LEMMA UsableIs ==
    ASSUME NEW period, Written(period), Usable(period)
    PROVE  /\ period.start \in Int /\ period.end \in Int /\ period.step \in Nat \ {0}
           /\ Expected(period) \in Nat
           /\ \A n \in DOMAIN period.points :
                /\ period.points[n].position \in 1 .. Expected(period)
                /\ period.points[n].position \in Positions(period)
                /\ period.points[n].value \in Value
                /\ ValueAt(period, period.points[n].position) = period.points[n].value
<1>1. /\ period.start \in Int /\ period.end \in Int /\ period.step \in Nat \ {0}
      /\ Expected(period) \in 1 .. MaxPoints
    BY DEF Written, Usable
<1>2. Expected(period) \in Nat
    BY <1>1
<1>3. ASSUME NEW n \in DOMAIN period.points
      PROVE  /\ period.points[n].position \in 1 .. Expected(period)
             /\ period.points[n].position \in Positions(period)
             /\ period.points[n].value \in Value
             /\ ValueAt(period, period.points[n].position) = period.points[n].value
    <2>1. period.points[n].position \in Positions(period)
        BY DEF Positions
    <2>2. period.points[n].value \in Value
        BY DEF Written, Usable
    <2> DEFINE i == CHOOSE i \in DOMAIN period.points :
                        period.points[i].position = period.points[n].position
    <2>3. i \in DOMAIN period.points /\ period.points[i].position = period.points[n].position
        OBVIOUS
    <2> HIDE DEF i
    <2>4. i = n
        BY <2>3 DEF Usable
    <2>5. ValueAt(period, period.points[n].position) = period.points[n].value
        BY <2>4 DEF ValueAt, i
    <2> QED
        BY <2>1, <2>2, <2>5 DEF Usable
<1> QED
    BY <1>1, <1>2, <1>3

LEMMA CarriedIsSaid ==
    ASSUME NEW period, Written(period), Usable(period), NEW curve, NEW f,
           ExpandsBy(period, curve, f), None \notin Value
    PROVE  \A p \in 0 .. Expected(period) :
            /\ f[p] \in Value \cup {None}
            /\ \A v \in Value : f[p] = v <=> Says(period, curve, p, v)
<1> DEFINE E == Expected(period)
           at(n) == period.points[n].position
           Good(p) == /\ f[p] \in Value \cup {None}
                      /\ \A v \in Value : f[p] = v <=> Says(period, curve, p, v)
           Bad == {p \in 0 .. E : ~ Good(p)}
<1>1. E \in Nat /\ \A n \in DOMAIN period.points :
        /\ at(n) \in 1 .. E /\ at(n) \in Positions(period)
        /\ period.points[n].value \in Value
        /\ ValueAt(period, at(n)) = period.points[n].value
    BY UsableIs
<1>2. \A p \in 0 .. E : f[p] = Carry(period, curve, f, p)
    BY DEF ExpandsBy
<1>3. Bad = {}
    <2> SUFFICES ASSUME Bad # {} PROVE FALSE
        OBVIOUS
    <2>1. Bad \subseteq Nat
        BY <1>1
    <2>2. PICK p \in Bad : \A r \in Bad : p <= r
        BY <2>1, SmallestNumber
    <2>3. p \in 0 .. E /\ p \in Nat /\ ~ Good(p)
        BY <2>1, <2>2
    <2>4. CASE p \in Positions(period)
        <3>1. PICK n \in DOMAIN period.points : at(n) = p
            BY <2>4 DEF Positions
        <3>2. f[p] = period.points[n].value /\ f[p] \in Value
            BY <1>1, <1>2, <2>3, <2>4, <3>1 DEF Carry
        <3>3. \A l \in DOMAIN period.points : at(l) = p => l = n
            BY <3>1 DEF Usable
        <3>4. Says(period, curve, p, f[p])
            BY <3>1, <3>2 DEF Says
        <3>5. ASSUME NEW v \in Value, Says(period, curve, p, v) PROVE f[p] = v
            <4>1. PICK l \in DOMAIN period.points :
                    /\ period.points[l].value = v
                    /\ at(l) = p \/ (at(l) < p /\ ~ (at(l) < at(n) /\ at(n) <= p))
                BY <3>5 DEF Says
            <4>2. at(l) = p
                BY <2>3, <3>1, <4>1
            <4> QED
                BY <3>2, <3>3, <4>1, <4>2
        <3> QED
            BY <2>3, <3>2, <3>4, <3>5
    <2>5. CASE p \notin Positions(period) /\ (p = 0 \/ curve # "A03")
        <3>1. f[p] = None
            BY <1>2, <2>3, <2>5 DEF Carry
        <3>2. ASSUME NEW v \in Value, Says(period, curve, p, v) PROVE FALSE
            <4>1. PICK l \in DOMAIN period.points : at(l) = p \/ (curve = "A03" /\ at(l) < p)
                BY <3>2 DEF Says
            <4> QED
                BY <1>1, <2>5, <4>1
        <3> QED
            BY <2>3, <3>1, <3>2
    <2>6. CASE p \notin Positions(period) /\ p # 0 /\ curve = "A03"
        <3>1. p - 1 \in 0 .. E /\ p - 1 \notin Bad
            <4>1. p - 1 \in 0 .. E /\ ~ (p <= p - 1)
                BY <1>1, <2>3, <2>6
            <4> QED
                BY <2>2, <4>1
        <3>2. Good(p - 1)
            BY <3>1
        <3>3. f[p] = f[p - 1]
            BY <1>2, <2>3, <2>6 DEF Carry
        <3>4. ASSUME NEW v \in Value
              PROVE  Says(period, curve, p - 1, v) <=> Says(period, curve, p, v)
            <4>1. \A l \in DOMAIN period.points : at(l) \in Int /\ at(l) # p
                BY <1>1, <2>6
            <4>2. \A l \in DOMAIN period.points : at(l) <= p <=> at(l) <= p - 1
                BY <2>3, <4>1
            <4>3. \A l \in DOMAIN period.points : at(l) < p <=> at(l) = p - 1 \/ at(l) < p - 1
                BY <2>3, <4>1
            <4>4. ASSUME Says(period, curve, p - 1, v) PROVE Says(period, curve, p, v)
                <5>1. PICK n \in DOMAIN period.points :
                        /\ period.points[n].value = v
                        /\ \/ at(n) = p - 1
                           \/ /\ at(n) < p - 1
                              /\ \A l \in DOMAIN period.points : ~ (at(n) < at(l) /\ at(l) <= p - 1)
                    BY <4>4 DEF Says
                <5>2. at(n) < p
                    BY <4>3, <5>1
                <5>3. \A l \in DOMAIN period.points : ~ (at(n) < at(l) /\ at(l) <= p)
                    BY <2>3, <4>1, <4>2, <5>1
                <5> QED
                    BY <2>6, <5>1, <5>2, <5>3 DEF Says
            <4>5. ASSUME Says(period, curve, p, v) PROVE Says(period, curve, p - 1, v)
                <5>1. PICK n \in DOMAIN period.points :
                        /\ period.points[n].value = v
                        /\ at(n) < p
                        /\ \A l \in DOMAIN period.points : ~ (at(n) < at(l) /\ at(l) <= p)
                    BY <4>1, <4>5 DEF Says
                <5>2. at(n) = p - 1 \/ at(n) < p - 1
                    BY <4>3, <5>1
                <5>3. \A l \in DOMAIN period.points : ~ (at(n) < at(l) /\ at(l) <= p - 1)
                    BY <4>2, <5>1
                <5> QED
                    BY <2>6, <5>1, <5>2, <5>3 DEF Says
            <4> QED
                BY <4>4, <4>5
        <3>5. f[p] \in Value \cup {None}
            BY <3>2, <3>3
        <3>6. \A v \in Value : f[p] = v <=> Says(period, curve, p, v)
            BY <3>2, <3>3, <3>4
        <3> QED
            BY <2>3, <3>5, <3>6
    <2> QED
        BY <2>4, <2>5, <2>6
<1> QED
    BY <1>3

LEMMA ExpandSays ==
    ASSUME NEW period, Written(period), Usable(period), NEW curve, None \notin Value
    PROVE  /\ DOMAIN Expand(period, curve) \subseteq 1 .. Expected(period)
           /\ \A p \in DOMAIN Expand(period, curve) : Expand(period, curve)[p] \in Value
           /\ \A p \in 1 .. Expected(period) : \A v \in Value :
                (p \in DOMAIN Expand(period, curve) /\ Expand(period, curve)[p] = v)
                    <=> Says(period, curve, p, v)
<1>1. Expected(period) \in Nat
    BY UsableIs
<1>2. PICK f : ExpandsBy(period, curve, f)
    BY <1>1, ExpandUnfolds
<1>3. \A p \in 1 .. Expected(period) :
        /\ f[p] \in Value \cup {None}
        /\ \A v \in Value : f[p] = v <=> Says(period, curve, p, v)
    BY <1>1, <1>2, CarriedIsSaid
<1>4. Expand(period, curve) = [p \in {p \in 1 .. Expected(period) : f[p] # None} |-> f[p]]
    BY <1>2 DEF ExpandsBy
<1> QED
    BY <1>3, <1>4

-----------------------------------------------------------------------------
(* What a period states of a moment. *)

LEMMA Scaled ==
    ASSUME NEW step \in Nat \ {0}, NEW a \in Int, NEW b \in Int
    PROVE  a * step \in Int /\ b * step \in Int /\ (a < b <=> a * step < b * step)
<1>1. a * step \in Int /\ b * step \in Int
    OBVIOUS
<1>2. ASSUME a < b PROVE a * step < b * step
    <2>1. b - a \in Nat \ {0} /\ b = a + (b - a)
        BY <1>2
    <2>2. (b - a) * step > 0
        BY <2>1
    <2>3. b * step = a * step + (b - a) * step
        OBVIOUS
    <2> QED
        BY <1>1, <2>2, <2>3
<1>3. ASSUME b < a PROVE b * step < a * step
    <2>1. a - b \in Nat \ {0} /\ a = b + (a - b)
        BY <1>3
    <2>2. (a - b) * step > 0
        BY <2>1
    <2>3. a * step = b * step + (a - b) * step
        OBVIOUS
    <2> QED
        BY <1>1, <2>2, <2>3
<1>4. CASE a < b
    BY <1>1, <1>2, <1>4
<1>5. CASE b < a
    BY <1>1, <1>3, <1>5
<1>6. CASE a = b
    BY <1>1, <1>6
<1> QED
    BY <1>4, <1>5, <1>6

LEMMA Multiple ==
    ASSUME NEW step \in Nat \ {0}, NEW x \in Int
    PROVE  /\ (x * step) % step = 0
           /\ x % step = 0 => x \div step \in Int /\ x = (x \div step) * step
<1>1. (x * step) % step = 0
    <2> DEFINE y == x * step
               d == y \div step
               r == y % step
    <2>1. y \in Int
        OBVIOUS
    <2>2. d \in Int /\ r \in 0 .. step - 1 /\ y = step * d + r
        BY <2>1
    <2> HIDE DEF d, r
    <2>3. step * (x - d) = r
        BY <2>2
    <2>4. CASE x - d > 0
        <3>1. step * (x - d) >= step
            BY <2>2, <2>4
        <3> QED
            BY <2>2, <2>3, <3>1
    <2>5. CASE x - d < 0
        <3>1. step * (x - d) < 0
            BY <2>2, <2>5
        <3> QED
            BY <2>2, <2>3, <3>1
    <2>6. CASE x - d = 0
        BY <2>3, <2>6 DEF r
    <2> QED
        BY <2>2, <2>4, <2>5, <2>6
<1>2. ASSUME x % step = 0 PROVE x \div step \in Int /\ x = (x \div step) * step
    BY <1>2
<1> QED
    BY <1>1, <1>2

MomentAt(period, position) == period.start + (position - 1) * period.step

PeriodStates(period, curve, m, v) ==
    \E n \in DOMAIN period.points :
        LET from == period.start + (period.points[n].position - 1) * period.step
        IN  /\ period.points[n].value = v
            /\ \/ m = from
               \/ /\ curve = "A03" /\ from < m /\ m + period.step <= period.end
                  /\ (m - from) % period.step = 0
                  /\ \A q \in from + 1 .. m : \A l \in DOMAIN period.points :
                        q # period.start + (period.points[l].position - 1) * period.step

LEMMA MomentsInOrder ==
    ASSUME NEW period, Written(period), Usable(period), NEW a \in Int, NEW b \in Int
    PROVE  /\ MomentAt(period, a) \in Int /\ MomentAt(period, b) \in Int
           /\ a < b <=> MomentAt(period, a) < MomentAt(period, b)
           /\ MomentAt(period, b) - MomentAt(period, a) = (b - a) * period.step
<1> DEFINE step == period.step
           start == period.start
<1>1. start \in Int /\ step \in Nat \ {0}
    BY UsableIs
<1> HIDE DEF step, start
<1>2. /\ (a - 1) * step \in Int /\ (b - 1) * step \in Int
      /\ a - 1 < b - 1 <=> (a - 1) * step < (b - 1) * step
    BY <1>1, Scaled
<1>3. (b - 1) * step - (a - 1) * step = (b - a) * step
    BY <1>1
<1>4. MomentAt(period, a) = start + (a - 1) * step /\ MomentAt(period, b) = start + (b - 1) * step
    BY DEF MomentAt, start, step
<1>5. a < b <=> a - 1 < b - 1
    OBVIOUS
<1> QED
    BY <1>1, <1>2, <1>3, <1>4, <1>5 DEF step

(* The last position is the last whose interval ends within the period. *)
LEMMA WithinThePeriod ==
    ASSUME NEW period, Written(period), Usable(period), NEW p \in Int
    PROVE  p <= Expected(period) <=> MomentAt(period, p) + period.step <= period.end
<1> DEFINE step == period.step
           long == period.end - period.start
           E == long \div step
<1>1. period.start \in Int /\ period.end \in Int /\ step \in Nat \ {0}
    BY UsableIs
<1>2. long \in Int
    BY <1>1
<1>3. Expected(period) = E
    BY DEF Expected
<1>4. MomentAt(period, p) + step = period.start + p * step /\ p * step \in Int
    BY <1>1 DEF MomentAt
<1> HIDE DEF step
<1>5. MomentAt(period, p) + step <= period.end <=> p * step <= long
    BY <1>1, <1>4
<1> HIDE DEF long
<1>6. E \in Int /\ E * step <= long /\ long < (E + 1) * step
    BY <1>1, <1>2
<1> HIDE DEF E
<1>7. /\ E * step \in Int /\ (E + 1) * step \in Int
      /\ E < p <=> E * step < p * step
      /\ p < E + 1 <=> p * step < (E + 1) * step
    BY <1>1, <1>6, Scaled
<1>8. p <= E <=> p * step <= long
    <2>1. ASSUME p <= E PROVE p * step <= long
        <3>1. ~ (E * step < p * step)
            BY <1>6, <1>7, <2>1
        <3> QED
            BY <1>2, <1>4, <1>6, <1>7, <3>1
    <2>2. ASSUME p * step <= long PROVE p <= E
        <3>1. p * step < (E + 1) * step
            BY <1>2, <1>4, <1>6, <1>7, <2>2
        <3> QED
            BY <1>6, <1>7, <3>1
    <2> QED
        BY <2>1, <2>2
<1> QED
    BY <1>3, <1>5, <1>8 DEF step

LEMMA SaidIsStated ==
    ASSUME NEW period, Written(period), Usable(period), NEW curve, NEW m \in Int, NEW v
    PROVE  PeriodStates(period, curve, m, v) <=>
            \E p \in 1 .. Expected(period) :
                m = MomentAt(period, p) /\ Says(period, curve, p, v)
<1> DEFINE E == Expected(period)
           at(n) == period.points[n].position
           from(n) == MomentAt(period, at(n))
<1>1. /\ E \in Nat /\ period.start \in Int /\ period.end \in Int /\ period.step \in Nat \ {0}
      /\ \A n \in DOMAIN period.points : at(n) \in 1 .. E /\ at(n) \in Int
    BY UsableIs
<1>2. \A n \in DOMAIN period.points : from(n) \in Int
    BY <1>1, MomentsInOrder
<1>3. ASSUME NEW p \in 1 .. E, m = MomentAt(period, p), Says(period, curve, p, v)
      PROVE  PeriodStates(period, curve, m, v)
    <2>1. PICK n \in DOMAIN period.points :
            /\ period.points[n].value = v
            /\ \/ at(n) = p
               \/ /\ curve = "A03" /\ at(n) < p
                  /\ \A l \in DOMAIN period.points : ~ (at(n) < at(l) /\ at(l) <= p)
        BY <1>3 DEF Says
    <2>2. CASE at(n) = p
        <3>1. m = from(n)
            BY <1>3, <2>2
        <3> QED
            BY <2>1, <3>1 DEF PeriodStates, MomentAt
    <2>3. CASE /\ curve = "A03" /\ at(n) < p
               /\ \A l \in DOMAIN period.points : ~ (at(n) < at(l) /\ at(l) <= p)
        <3>1. p \in Int /\ p <= E
            BY <1>1
        <3>2. from(n) < m /\ m - from(n) = (p - at(n)) * period.step
            BY <1>1, <1>3, <2>3, <3>1, MomentsInOrder
        <3>3. m + period.step <= period.end
            BY <1>3, <3>1, WithinThePeriod
        <3>4. (m - from(n)) % period.step = 0
            <4>1. p - at(n) \in Int
                BY <1>1, <3>1
            <4> QED
                BY <1>1, <3>2, <4>1, Multiple
        <3>5. ASSUME NEW l \in DOMAIN period.points, from(l) \in from(n) + 1 .. m PROVE FALSE
            <4>1. from(n) < from(l) /\ ~ (m < from(l))
                BY <1>2, <3>5
            <4>2. at(n) < at(l)
                BY <1>1, <4>1, MomentsInOrder
            <4>3. ~ (p < at(l))
                BY <1>1, <1>3, <3>1, <4>1, MomentsInOrder
            <4> QED
                BY <1>1, <2>3, <3>1, <4>2, <4>3
        <3> QED
            BY <2>1, <2>3, <3>2, <3>3, <3>4, <3>5 DEF PeriodStates, MomentAt
    <2> QED
        BY <2>1, <2>2, <2>3
<1>4. ASSUME PeriodStates(period, curve, m, v)
      PROVE  \E p \in 1 .. E : m = MomentAt(period, p) /\ Says(period, curve, p, v)
    <2>1. PICK n \in DOMAIN period.points :
            /\ period.points[n].value = v
            /\ \/ m = from(n)
               \/ /\ curve = "A03" /\ from(n) < m /\ m + period.step <= period.end
                  /\ (m - from(n)) % period.step = 0
                  /\ \A q \in from(n) + 1 .. m : \A l \in DOMAIN period.points : q # from(l)
        BY <1>4 DEF PeriodStates, MomentAt
    <2>2. CASE m = from(n)
        <3>1. Says(period, curve, at(n), v)
            BY <2>1 DEF Says
        <3> QED
            BY <1>1, <2>2, <3>1
    <2>3. CASE /\ curve = "A03" /\ from(n) < m /\ m + period.step <= period.end
               /\ (m - from(n)) % period.step = 0
               /\ \A q \in from(n) + 1 .. m : \A l \in DOMAIN period.points : q # from(l)
        <3> DEFINE k == (m - from(n)) \div period.step
                   p == at(n) + k
        <3>1. k \in Int /\ m - from(n) = k * period.step
            <4>1. m - from(n) \in Int
                BY <1>2
            <4> HIDE DEF from
            <4> QED
                BY <1>1, <2>3, <4>1, Multiple
        <3> HIDE DEF k
        <3>2. p \in Int /\ p - at(n) = k
            BY <1>1, <3>1
        <3>3. /\ MomentAt(period, p) - from(n) = k * period.step
              /\ MomentAt(period, p) \in Int
              /\ at(n) < p <=> from(n) < MomentAt(period, p)
            BY <1>1, <3>2, MomentsInOrder
        <3>4. m = MomentAt(period, p)
            BY <1>2, <3>1, <3>3
        <3>5. at(n) < p /\ p <= E
            BY <2>3, <3>2, <3>3, <3>4, WithinThePeriod
        <3> HIDE DEF p
        <3>6. p \in 1 .. E
            BY <1>1, <3>2, <3>5
        <3>7. ASSUME NEW l \in DOMAIN period.points, at(n) < at(l), at(l) <= p PROVE FALSE
            <4>1. from(n) < from(l)
                BY <1>1, <3>7, MomentsInOrder
            <4>2. ~ (m < from(l))
                <5>1. ~ (p < at(l))
                    BY <1>1, <3>2, <3>7
                <5> QED
                    BY <1>1, <3>2, <3>4, <5>1, MomentsInOrder
            <4>3. from(l) \in from(n) + 1 .. m
                BY <1>2, <4>1, <4>2
            <4> QED
                BY <2>3, <4>3
        <3>8. Says(period, curve, p, v)
            BY <2>1, <2>3, <3>5, <3>7 DEF Says
        <3> QED
            BY <3>4, <3>6, <3>8
    <2> QED
        BY <2>1, <2>2, <2>3
<1> QED
    BY <1>3, <1>4

-----------------------------------------------------------------------------
(* What a document states. *)

StatedBy(document, direction, m, v, i, j) ==
    /\ direction \in document.series[i].categories \cup {None}
    /\ PeriodStates(document.series[i].periods[j], document.series[i].curve, m, v)

LEMMA StatedIs ==
    ASSUME NEW document, NEW direction, NEW m, NEW v
    PROVE  Stated(document, direction, m, v) <=>
            \E i \in DOMAIN document.series : \E j \in DOMAIN document.series[i].periods :
                StatedBy(document, direction, m, v, i, j)
<1> SUFFICES ASSUME NEW i \in DOMAIN document.series,
                    NEW j \in DOMAIN document.series[i].periods
             PROVE  StatedBy(document, direction, m, v, i, j) <=>
                \E n \in DOMAIN document.series[i].periods[j].points :
                    LET series == document.series[i]
                        period == series.periods[j]
                        from == period.start + (period.points[n].position - 1) * period.step
                    IN  /\ direction \in series.categories \cup {None}
                        /\ period.points[n].value = v
                        /\ \/ m = from
                           \/ /\ series.curve = "A03" /\ from < m /\ m + period.step <= period.end
                              /\ (m - from) % period.step = 0
                              /\ \A q \in from + 1 .. m : \A l \in DOMAIN period.points :
                                    q # period.start + (period.points[l].position - 1) * period.step
    BY Zenon DEF Stated
<1> QED
    BY Zenon DEF StatedBy, PeriodStates

(* The direction a series gives its points. *)
HeadOf(document, directed, i) == IF directed THEN Category(document.series[i]) ELSE None

PointAt(document, directed, i, j, p) ==
    LET series == document.series[i]
        period == series.periods[j]
    IN  [at |-> <<i, j, p>>,
         key |-> <<HeadOf(document, directed, i), MomentAt(period, p)>>,
         value |-> Expand(period, series.curve)[p], step |-> period.step]

LEMMA PointsAre ==
    ASSUME NEW document, NEW directed
    PROVE  PointsOf(document, directed) =
            UNION {UNION {{PointAt(document, directed, i, j, p) :
                    p \in DOMAIN Expand(document.series[i].periods[j], document.series[i].curve)} :
                j \in DOMAIN document.series[i].periods} : i \in DOMAIN document.series}
BY DEF PointsOf, PointAt, HeadOf, MomentAt

LEMMA CategoryIs ==
    ASSUME NEW series, Category(series) # Refused
    PROVE  series.categories = {Category(series)}
<1>1. Cardinality(series.categories) = 1 /\ series.categories \subseteq Categories
    BY DEF Category
<1>2. IsFiniteSet({"A04", "A05"})
    <2>1. IsFiniteSet({"A04"})
        BY FS_Singleton
    <2>2. IsFiniteSet({"A04"} \cup {"A05"})
        BY <2>1, FS_AddElement
    <2>3. {"A04"} \cup {"A05"} = {"A04", "A05"}
        OBVIOUS
    <2> QED
        BY <2>2, <2>3
<1>3. IsFiniteSet(series.categories)
    BY <1>1, <1>2, FS_Subset DEF Categories
<1>4. PICK c : series.categories = {c}
    BY <1>1, <1>3, FS_Singleton
<1>5. Category(series) = CHOOSE d \in series.categories : TRUE
    BY <1>1 DEF Category
<1> QED
    BY <1>4, <1>5

LEMMA ValuesAre ==
    ASSUME NEW document, NEW directed, Values(document, directed) # Refused
    PROVE  /\ Values(document, directed) = PointsOf(document, directed)
           /\ \A i \in DOMAIN document.series : \A j \in DOMAIN document.series[i].periods :
                Usable(document.series[i].periods[j])
           /\ \A point \in PointsOf(document, directed) : point.key[1] # Refused
           /\ Agree(PointsOf(document, directed))
BY DEF Values

LEMMA PointTells ==
    ASSUME NEW document, Elements(document), NEW directed,
           Values(document, directed) # Refused, None \notin Value,
           NEW point \in Values(document, directed)
    PROVE  \E i \in DOMAIN document.series : \E j \in DOMAIN document.series[i].periods :
            LET period == document.series[i].periods[j]
                curve == document.series[i].curve
            IN  /\ Written(period) /\ Usable(period)
                /\ point.value \in Value
                /\ \E p \in 1 .. Expected(period) :
                    /\ point.key = <<HeadOf(document, directed, i), MomentAt(period, p)>>
                    /\ Says(period, curve, p, point.value)
<1>1. PICK i \in DOMAIN document.series : \E j \in DOMAIN document.series[i].periods :
        \E p \in DOMAIN Expand(document.series[i].periods[j], document.series[i].curve) :
            point = PointAt(document, directed, i, j, p)
    BY PointsAre, ValuesAre
<1>2. PICK j \in DOMAIN document.series[i].periods :
        \E p \in DOMAIN Expand(document.series[i].periods[j], document.series[i].curve) :
            point = PointAt(document, directed, i, j, p)
    BY <1>1
<1> DEFINE period == document.series[i].periods[j]
           curve == document.series[i].curve
<1>3. PICK p \in DOMAIN Expand(period, curve) : point = PointAt(document, directed, i, j, p)
    BY <1>2
<1>4. Written(period) /\ Usable(period)
    BY ValuesAre DEF Elements
<1>5. /\ point.key = <<HeadOf(document, directed, i), MomentAt(period, p)>>
      /\ point.value = Expand(period, curve)[p]
    BY <1>3 DEF PointAt
<1> HIDE DEF period, curve
<1>6. p \in 1 .. Expected(period) /\ point.value \in Value
    BY <1>4, <1>5, ExpandSays
<1>7. Says(period, curve, p, point.value)
    BY <1>4, <1>5, <1>6, ExpandSays
<1> QED
    BY <1>4, <1>5, <1>6, <1>7 DEF period, curve

(* A series speaks of a direction when its points are keyed by it. *)
Matches(document, directed, direction) ==
    \A i \in DOMAIN document.series :
        HeadOf(document, directed, i) # Refused =>
            (direction \in document.series[i].categories \cup {None}
                <=> HeadOf(document, directed, i) = direction)

LEMMA PlainMatches ==
    ASSUME NEW document PROVE Matches(document, FALSE, None)
BY DEF Matches, HeadOf

LEMMA DirectedMatches ==
    ASSUME NEW document, None \notin Categories, NEW direction \in Categories
    PROVE  Matches(document, TRUE, direction)
<1> SUFFICES ASSUME NEW i \in DOMAIN document.series, HeadOf(document, TRUE, i) # Refused
             PROVE  direction \in document.series[i].categories \cup {None}
                        <=> HeadOf(document, TRUE, i) = direction
    BY DEF Matches
<1>1. HeadOf(document, TRUE, i) = Category(document.series[i])
    BY DEF HeadOf
<1>2. document.series[i].categories = {Category(document.series[i])}
    BY <1>1, CategoryIs
<1> QED
    BY <1>1, <1>2

(* A document that is not refused is read as it is stated. *)
LEMMA DocumentIsRead ==
    ASSUME NEW document, Elements(document), NEW directed,
           Values(document, directed) # Refused, None \notin Value,
           NEW direction, Matches(document, directed, direction),
           NEW m \in Int, NEW v \in Value
    PROVE  Stated(document, direction, m, v) <=>
            \E point \in Values(document, directed) :
                point.key = <<direction, m>> /\ point.value = v
<1>1. ASSUME Stated(document, direction, m, v)
      PROVE  \E point \in Values(document, directed) :
                point.key = <<direction, m>> /\ point.value = v
    <2>1. PICK i \in DOMAIN document.series : \E j \in DOMAIN document.series[i].periods :
            StatedBy(document, direction, m, v, i, j)
        BY <1>1, StatedIs
    <2>2. PICK j \in DOMAIN document.series[i].periods : StatedBy(document, direction, m, v, i, j)
        BY <2>1
    <2> DEFINE period == document.series[i].periods[j]
               curve == document.series[i].curve
    <2>3. Written(period) /\ Usable(period)
        BY ValuesAre DEF Elements
    <2>4. PeriodStates(period, curve, m, v) /\ direction \in document.series[i].categories \cup {None}
        BY <2>2 DEF StatedBy
    <2>5. PICK p \in 1 .. Expected(period) : m = MomentAt(period, p) /\ Says(period, curve, p, v)
        BY <2>3, <2>4, SaidIsStated
    <2>6. p \in DOMAIN Expand(period, curve) /\ Expand(period, curve)[p] = v
        BY <2>3, <2>5, ExpandSays
    <2> DEFINE point == PointAt(document, directed, i, j, p)
    <2>7. point \in Values(document, directed)
        BY <2>6, PointsAre, ValuesAre
    <2>8. point.key = <<HeadOf(document, directed, i), m>> /\ point.value = v
        BY <2>5, <2>6 DEF PointAt
    <2>9. HeadOf(document, directed, i) # Refused
        BY <2>7, <2>8, ValuesAre
    <2>10. HeadOf(document, directed, i) = direction
        BY <2>4, <2>9 DEF Matches
    <2> QED
        BY <2>7, <2>8, <2>10
<1>2. ASSUME NEW point \in Values(document, directed),
             point.key = <<direction, m>>, point.value = v
      PROVE  Stated(document, direction, m, v)
    <2>1. PICK i \in DOMAIN document.series : \E j \in DOMAIN document.series[i].periods :
            LET period == document.series[i].periods[j]
                curve == document.series[i].curve
            IN  /\ Written(period) /\ Usable(period)
                /\ \E p \in 1 .. Expected(period) :
                    /\ point.key = <<HeadOf(document, directed, i), MomentAt(period, p)>>
                    /\ Says(period, curve, p, point.value)
        BY PointTells
    <2>2. PICK j \in DOMAIN document.series[i].periods :
            LET period == document.series[i].periods[j]
                curve == document.series[i].curve
            IN  /\ Written(period) /\ Usable(period)
                /\ \E p \in 1 .. Expected(period) :
                    /\ point.key = <<HeadOf(document, directed, i), MomentAt(period, p)>>
                    /\ Says(period, curve, p, point.value)
        BY <2>1
    <2> DEFINE period == document.series[i].periods[j]
               curve == document.series[i].curve
    <2>3. Written(period) /\ Usable(period)
        BY <2>2
    <2>4. PICK p \in 1 .. Expected(period) :
            /\ point.key = <<HeadOf(document, directed, i), MomentAt(period, p)>>
            /\ Says(period, curve, p, point.value)
        BY <2>2
    <2>5. m = MomentAt(period, p) /\ HeadOf(document, directed, i) = direction
        BY <1>2, <2>4
    <2>6. PeriodStates(period, curve, m, v)
        BY <1>2, <2>3, <2>4, <2>5, SaidIsStated
    <2>7. direction \in document.series[i].categories \cup {None}
        <3>1. HeadOf(document, directed, i) # Refused
            BY <1>2, <2>5, ValuesAre
        <3> QED
            BY <2>5, <3>1 DEF Matches
    <2> QED
        BY <2>6, <2>7, StatedIs DEF StatedBy
<1> QED
    BY <1>1, <1>2

(* What a set of points says of a key, when they say the same of each. *)
LEMMA OneValue ==
    ASSUME NEW points, NEW k, \A a \in points : a.value \in Value,
           \A a, b \in points : a.key = b.key => a.value = b.value
    PROVE  {v \in Value : \E a \in points : a.key = k /\ a.value = v}
            = IF k \in {a.key : a \in points} THEN {(CHOOSE a \in points : a.key = k).value} ELSE {}
<1>1. CASE k \in {a.key : a \in points}
    <2> DEFINE c == CHOOSE a \in points : a.key = k
    <2>1. c \in points /\ c.key = k
        BY <1>1
    <2> HIDE DEF c
    <2>2. {v \in Value : \E a \in points : a.key = k /\ a.value = v} = {c.value}
        BY <2>1
    <2> QED
        BY <1>1, <2>2 DEF c
<1>2. CASE k \notin {a.key : a \in points}
    BY <1>2
<1> QED
    BY <1>1, <1>2

(* The answers. *)

StatedOf(body, k) ==
    {v \in Value : \E n \in DOMAIN body.documents : Stated(body.documents[n], k[1], k[2], v)}

LEMMA SingleIsRead ==
    ASSUME NEW body, body.form = "plain" => DOMAIN body.documents = {1},
           \A n \in DOMAIN body.documents : Elements(body.documents[n]),
           None \notin Value, None \notin Categories,
           Single(body) # Refused, NEW k \in {None} \X Int
    PROVE  StatedOf(body, k) = IF k \in DOMAIN Single(body) THEN {Single(body)[k].value} ELSE {}
<1> DEFINE document == body.documents[1]
           points == Values(document, FALSE)
           choice == CHOOSE a \in points : a.key = k
<1>1. /\ body.form = "plain" /\ points # Refused
      /\ DOMAIN Single(body) = {a.key : a \in points}
      /\ k \in {a.key : a \in points} => Single(body)[k].value = choice.value
    BY DEF Single, ByKey
<1>2. DOMAIN body.documents = {1} /\ Elements(document)
    BY <1>1
<1>3. k = <<k[1], k[2]>> /\ k[1] = None /\ k[2] \in Int
    OBVIOUS
<1>4. ASSUME NEW v \in Value
      PROVE  Stated(document, k[1], k[2], v) <=> \E a \in points : a.key = k /\ a.value = v
    <2>1. Stated(document, k[1], k[2], v) <=>
            \E a \in Values(document, FALSE) : a.key = <<k[1], k[2]>> /\ a.value = v
        <3> DEFINE directed == FALSE
        <3>1. Elements(document) /\ Values(document, directed) # Refused
            BY <1>1, <1>2
        <3>2. Matches(document, directed, k[1]) /\ k[2] \in Int
            BY <1>3, PlainMatches
        <3> HIDE DEF document, directed
        <3>3. Stated(document, k[1], k[2], v) <=>
                \E a \in Values(document, directed) : a.key = <<k[1], k[2]>> /\ a.value = v
            BY <3>1, <3>2, DocumentIsRead
        <3> QED
            BY <3>3 DEF directed
    <2> QED
        BY <1>3, <2>1
<1>5. \A a \in points : a.value \in Value
    BY <1>1, <1>2, PointTells
<1>6. \A a, b \in points : a.key = b.key => a.value = b.value
    <2>1. points = PointsOf(document, FALSE) /\ Agree(PointsOf(document, FALSE))
        BY <1>1, ValuesAre
    <2> HIDE DEF points
    <2> QED
        BY <2>1 DEF Agree
<1>7. StatedOf(body, k) = {v \in Value : \E a \in points : a.key = k /\ a.value = v}
    BY <1>2, <1>4 DEF StatedOf
<1> HIDE DEF points
<1>8. {v \in Value : \E a \in points : a.key = k /\ a.value = v}
        = IF k \in {a.key : a \in points} THEN {choice.value} ELSE {}
    BY <1>5, <1>6, OneValue
<1> QED
    BY <1>1, <1>7, <1>8

(* The points of all documents of an archive. *)
PointsIn(body) ==
    UNION {IF Values(body.documents[n], TRUE) = Refused THEN {}
           ELSE {[key |-> point.key, value |-> point.value,
                  step |-> point.step, status |-> body.documents[n].status] :
                    point \in Values(body.documents[n], TRUE)} : n \in DOMAIN body.documents}

LEMMA DocumentsAre ==
    ASSUME NEW body, Documents(body) # Refused
    PROVE  /\ \A n \in DOMAIN body.documents : Values(body.documents[n], TRUE) # Refused
           /\ \A a, b \in PointsIn(body) : a.key = b.key => a = b
           /\ DOMAIN Documents(body) = {a.key : a \in PointsIn(body)}
           /\ \A k \in DOMAIN Documents(body) :
                Documents(body)[k].value = (CHOOSE a \in PointsIn(body) : a.key = k).value
<1> DEFINE points == PointsIn(body)
<1>1. Documents(body) =
        IF /\ Cardinality(DOMAIN body.documents) \in 1 .. MaxMembers
           /\ \A n \in DOMAIN body.documents : /\ StatusKnown(body.documents[n])
                                               /\ Values(body.documents[n], TRUE) # Refused
           /\ \A a, b \in points : a.key = b.key => a = b
        THEN [k \in {point.key : point \in points} |->
                LET point == CHOOSE point \in points : point.key = k
                IN  [value |-> point.value, step |-> point.step, status |-> point.status]]
        ELSE Refused
    BY DEF Documents, PointsIn
<1> HIDE DEF points
<1>2. /\ \A n \in DOMAIN body.documents : Values(body.documents[n], TRUE) # Refused
      /\ \A a, b \in points : a.key = b.key => a = b
    BY <1>1, Zenon
<1>3. Documents(body) = [k \in {point.key : point \in points} |->
                LET point == CHOOSE point \in points : point.key = k
                IN  [value |-> point.value, step |-> point.step, status |-> point.status]]
    BY <1>1, Zenon
<1>4. DOMAIN Documents(body) = {a.key : a \in points}
    BY <1>3
<1>5. ASSUME NEW k \in DOMAIN Documents(body)
      PROVE  Documents(body)[k].value = (CHOOSE a \in points : a.key = k).value
    BY <1>3, <1>4
<1> QED
    BY <1>2, <1>4, <1>5 DEF points

LEMMA ArchiveIsRead ==
    ASSUME NEW body, \A n \in DOMAIN body.documents : Elements(body.documents[n]),
           None \notin Value, None \notin Categories,
           Documents(body) # Refused, NEW k \in Categories \X Int
    PROVE  StatedOf(body, k) = IF k \in DOMAIN Documents(body) THEN {Documents(body)[k].value} ELSE {}
<1> DEFINE points == PointsIn(body)
           choice == CHOOSE a \in points : a.key = k
<1>1. /\ \A n \in DOMAIN body.documents : Values(body.documents[n], TRUE) # Refused
      /\ \A a, b \in points : a.key = b.key => a = b
      /\ DOMAIN Documents(body) = {a.key : a \in points}
      /\ k \in DOMAIN Documents(body) => Documents(body)[k].value = choice.value
    BY DocumentsAre
<1>2. k = <<k[1], k[2]>> /\ k[1] \in Categories /\ k[2] \in Int
    OBVIOUS
<1>3. ASSUME NEW n \in DOMAIN body.documents, NEW v \in Value
      PROVE  Stated(body.documents[n], k[1], k[2], v) <=>
                \E a \in Values(body.documents[n], TRUE) : a.key = k /\ a.value = v
    <2>1. Stated(body.documents[n], k[1], k[2], v) <=>
            \E a \in Values(body.documents[n], TRUE) : a.key = <<k[1], k[2]>> /\ a.value = v
        <3> DEFINE directed == TRUE
        <3>1. Elements(body.documents[n]) /\ Values(body.documents[n], directed) # Refused
            BY <1>1
        <3>2. Matches(body.documents[n], directed, k[1]) /\ k[2] \in Int
            BY <1>2, DirectedMatches
        <3> HIDE DEF directed
        <3>3. Stated(body.documents[n], k[1], k[2], v) <=>
                \E a \in Values(body.documents[n], directed) :
                    a.key = <<k[1], k[2]>> /\ a.value = v
            BY <3>1, <3>2, DocumentIsRead
        <3> QED
            BY <3>3 DEF directed
    <2> QED
        BY <1>2, <2>1
<1> DEFINE tells(n) ==
        {[key |-> a.key, value |-> a.value, step |-> a.step, status |-> body.documents[n].status] :
            a \in Values(body.documents[n], TRUE)}
           each(n) == IF Values(body.documents[n], TRUE) = Refused THEN {} ELSE tells(n)
<1>9. points = UNION {tells(n) : n \in DOMAIN body.documents}
    <2>1. points = UNION {each(n) : n \in DOMAIN body.documents}
        BY DEF PointsIn
    <2>2. \A n \in DOMAIN body.documents : each(n) = tells(n)
        BY <1>1
    <2> HIDE DEF each, tells, points
    <2> QED
        BY <2>1, <2>2
<1>4. ASSUME NEW n \in DOMAIN body.documents, NEW a \in Values(body.documents[n], TRUE)
      PROVE  \E b \in points : b.key = a.key /\ b.value = a.value
    <2> DEFINE b == [key |-> a.key, value |-> a.value,
                     step |-> a.step, status |-> body.documents[n].status]
    <2>1. b \in tells(n)
        OBVIOUS
    <2> HIDE DEF tells, points
    <2>2. b \in points
        BY <1>9, <2>1
    <2> QED
        BY <2>2
<1>5. ASSUME NEW b \in points
      PROVE  \E n \in DOMAIN body.documents : \E a \in Values(body.documents[n], TRUE) :
                a.key = b.key /\ a.value = b.value
    <2>1. PICK n \in DOMAIN body.documents : b \in tells(n)
        <3> HIDE DEF tells, points
        <3> QED
            BY <1>9
    <2>2. PICK a \in Values(body.documents[n], TRUE) :
            b = [key |-> a.key, value |-> a.value,
                 step |-> a.step, status |-> body.documents[n].status]
        BY <2>1
    <2>3. a.key = b.key /\ a.value = b.value
        BY <2>2
    <2> QED
        BY <2>3
<1> HIDE DEF points, tells
<1>6. \A a \in points : a.value \in Value
    <2> SUFFICES ASSUME NEW b \in points PROVE b.value \in Value
        OBVIOUS
    <2>1. PICK n \in DOMAIN body.documents : \E a \in Values(body.documents[n], TRUE) :
            a.value = b.value
        BY <1>5
    <2>2. \A a \in Values(body.documents[n], TRUE) : a.value \in Value
        BY <1>1, PointTells
    <2> QED
        BY <2>1, <2>2
<1>7. StatedOf(body, k) = {v \in Value : \E a \in points : a.key = k /\ a.value = v}
    <2> SUFFICES ASSUME NEW v \in Value
                 PROVE  (\E n \in DOMAIN body.documents : Stated(body.documents[n], k[1], k[2], v))
                            <=> \E a \in points : a.key = k /\ a.value = v
        BY DEF StatedOf
    <2>1. ASSUME NEW n \in DOMAIN body.documents, Stated(body.documents[n], k[1], k[2], v)
          PROVE  \E a \in points : a.key = k /\ a.value = v
        <3>1. PICK a \in Values(body.documents[n], TRUE) : a.key = k /\ a.value = v
            BY <1>3, <2>1
        <3> QED
            BY <1>4, <3>1
    <2>2. ASSUME NEW b \in points, b.key = k, b.value = v
          PROVE  \E n \in DOMAIN body.documents : Stated(body.documents[n], k[1], k[2], v)
        <3>1. PICK n \in DOMAIN body.documents : \E a \in Values(body.documents[n], TRUE) :
                a.key = b.key /\ a.value = b.value
            BY <1>5
        <3> QED
            BY <1>3, <2>2, <3>1
    <2> QED
        BY <2>1, <2>2
<1>8. {v \in Value : \E a \in points : a.key = k /\ a.value = v}
        = IF k \in {a.key : a \in points} THEN {choice.value} ELSE {}
    <2>1. \A a, b \in points : a.key = b.key => a.value = b.value
        BY <1>1
    <2> QED
        BY <1>6, <2>1, OneValue
<1> QED
    BY <1>1, <1>7, <1>8

(* What is in hand was answered for its day. *)
InHand == answer # None => answer[1] \in Day /\ answer[2] \in Body[answer[1]]

LEMMA MomentsAreNumbers == Moment \subseteq Int
<1>1. Day \subseteq Int /\ DayLength \in Nat
    BY RevisionsAssumption
<1>2. \A d \in Day, q \in 0 .. DayLength - 1 : d * DayLength + q \in Int
    BY <1>1
<1> QED
    BY <1>2 DEF Moment

LEMMA AnswerIsRead ==
    ASSUME InHand PROVE ReadAsStated
<1> SUFFICES ASSUME answer # None, Parsed(answer[2]) # Refused,
                    NEW k \in (IF feed = "imbalance" THEN Categories ELSE {None}) \X Moment
             PROVE  StatedOf(answer[2], k) =
                        IF k \in DOMAIN Parsed(answer[2]) THEN {Parsed(answer[2])[k].value} ELSE {}
    BY DEF ReadAsStated, StatedOf
<1> DEFINE body == answer[2]
<1>1. /\ body.form = "plain" => DOMAIN body.documents = {1}
      /\ \A n \in DOMAIN body.documents : Elements(body.documents[n])
      /\ None \notin Value /\ None \notin Categories
    BY BodyAssumption DEF InHand
<1> HIDE DEF body
<1>2. CASE feed = "imbalance"
    <2>1. k \in Categories \X Int
        BY <1>2, MomentsAreNumbers
    <2>2. Parsed(body) = Documents(body) /\ Documents(body) # Refused
        BY <1>2 DEF Parsed, body
    <2>3. StatedOf(body, k) = IF k \in DOMAIN Documents(body) THEN {Documents(body)[k].value} ELSE {}
        BY <1>1, <2>1, <2>2, ArchiveIsRead
    <2> QED
        BY <2>2, <2>3 DEF body
<1>3. CASE feed # "imbalance"
    <2>1. k \in {None} \X Int
        BY <1>3, MomentsAreNumbers
    <2>2. Parsed(body) = Single(body) /\ Single(body) # Refused
        BY <1>3 DEF Parsed, body
    <2>3. StatedOf(body, k) = IF k \in DOMAIN Single(body) THEN {Single(body)[k].value} ELSE {}
        BY <1>1, <2>1, <2>2, SingleIsRead
    <2> QED
        BY <2>2, <2>3 DEF body
<1> QED
    BY <1>2, <1>3

-----------------------------------------------------------------------------
(* The runs. *)

(* A day turns final after it is over, and what is known of it is not of   *)
(* the future.                                                             *)
Turned ==
    /\ turned \in [Day -> Int \cup {None}]
    /\ \A d \in Day : turned[d] # None =>
            feed = "imbalance" /\ turned[d] \in Int /\ d < turned[d] /\ turned[d] <= today

Runs ==
    /\ today \in Int
    /\ due \subseteq Asked(today)
    /\ answer # None =>
            /\ task = "running"
            /\ answer[1] \in Day
    /\ \A r \in succeeded : r \in Int /\ r <= today

(* What this run has in hand or has stored of a day that was final before  *)
(* it began.                                                               *)
FinalBefore(d) == turned[d] # None /\ turned[d] < today

SeenInTime ==
    /\ answer # None /\ FinalBefore(answer[1]) =>
            \A i \in DOMAIN answer[2].documents : answer[2].documents[i].status = "A02"
    /\ \A d \in fetched \cap Day : FinalBefore(d) => d \in seenFinal

RunInv == Turned /\ Runs /\ SeenInTime /\ EveryDayAccountedFor /\ SuccessSeesFinal

LEMMA AskedDays ==
    ASSUME feed \in {"imbalance", "load", "day_ahead", "profile"}, NEW r \in Int
    PROVE  Asked(r) \subseteq Day /\ \E low \in Int : \A d \in Asked(r) : low <= d
<1>1. Asked(r) \subseteq Day
    BY DEF Asked
<1>2. CASE feed \in {"imbalance", "load"}
    <2>1. Asked(r) \subseteq {r - offset : offset \in 1 .. Window}
        BY <1>2 DEF Asked, PastDays
    <2>2. \A d \in Asked(r) : r - Window <= d
        BY <2>1, Constants
    <2>3. r - Window \in Int
        BY Constants
    <2> QED
        BY <1>1, <2>2, <2>3
<1>3. CASE feed = "day_ahead"
    <2>1. Asked(r) \subseteq {r + 1}
        BY <1>3 DEF Asked
    <2> QED
        BY <1>1, <2>1
<1>4. CASE feed = "profile"
    <2>1. Asked(r) \subseteq {ProfileYear} /\ ProfileYear \in Int
        BY <1>4, Constants DEF Asked
    <2> QED
        BY <1>1, <2>1
<1> QED
    BY <1>2, <1>3, <1>4

LEMMA OldestIsDue ==
    ASSUME feed \in {"imbalance", "load", "day_ahead", "profile"}, Runs, due # {}
    PROVE  Oldest \in due /\ Oldest \in Day
<1>1. due \subseteq Day /\ \E low \in Int : \A d \in due : low <= d
    BY AskedDays DEF Runs
<1>2. due \subseteq Int
    BY <1>1, Constants
<1>3. \E d \in due : \A e \in due : d <= e
    BY <1>1, <1>2, SmallestAbove
<1> QED
    BY <1>1, <1>3, Zenon DEF Oldest

LEMMA RunInit == Init => TableInv /\ RunInv
<1> SUFFICES ASSUME Init PROVE TableInv /\ RunInv
    OBVIOUS
<1>1. TableInv
    <2> SUFFICES ASSUME NEW k \in Key PROVE KeyInv(k)
        BY DEF TableInv, Init
    <2>1. rows[k] = << >> /\ DOMAIN rows[k] = {} /\ \E S : rows[k] \in Seq(S)
        BY DEF Init
    <2>2. DOMAIN said = {} /\ DOMAIN saidFinal = {}
        BY DEF Init
    <2> QED
        BY <2>1, <2>2 DEF KeyInv
<1>2. Turned /\ Runs /\ SeenInTime
    BY Constants DEF Init, Turned, Runs, SeenInTime
<1>3. EveryDayAccountedFor /\ SuccessSeesFinal
    BY DEF Init, EveryDayAccountedFor, SuccessSeesFinal
<1> QED
    BY <1>1, <1>2, <1>3 DEF RunInv

LEMMA TableStays ==
    ASSUME TableInv, UNCHANGED <<feed, table>>
    PROVE  TableInv'
BY DEF TableInv, KeyInv, table

LEMMA TurnFinalKeeps ==
    ASSUME RunInv, NEW d \in Day, TurnFinal(d)
    PROVE  RunInv'
<1>1. /\ UNCHANGED <<feed, table, run, succeeded>> /\ feed = "imbalance"
      /\ turned[d] = None /\ d < today /\ turned' = [turned EXCEPT ![d] = today]
    BY DEF TurnFinal
<1>2. /\ turned \in [Day -> Int \cup {None}] /\ today \in Int /\ today' = today
      /\ turned'[d] = today /\ \A e \in Day \ {d} : turned'[e] = turned[e]
    BY <1>1 DEF RunInv, Turned, Runs, run
<1>3. Turned'
    BY <1>1, <1>2 DEF RunInv, Turned
<1>4. Runs' /\ EveryDayAccountedFor'
    BY <1>1 DEF RunInv, Runs, EveryDayAccountedFor, Asked, run
<1>5. \A e \in Day : FinalBefore(e)' => FinalBefore(e)
    BY <1>2 DEF FinalBefore
<1>6. SeenInTime'
    <2>1. UNCHANGED <<answer, fetched, seenFinal>>
        BY <1>1 DEF run, table
    <2> QED
        BY <1>5, <2>1 DEF RunInv, Runs, SeenInTime
<1>7. SuccessSeesFinal'
    <2> SUFFICES ASSUME NEW e \in Day, NEW r \in succeeded,
                        turned'[e] # None, turned'[e] < r, r <= e + Window
                 PROVE  e \in seenFinal
        BY <1>1 DEF SuccessSeesFinal, table
    <2>1. r \in Int /\ r <= today
        BY DEF RunInv, Runs
    <2>2. e # d
        BY <1>2, <2>1
    <2> QED
        BY <1>2, <2>2 DEF RunInv, SuccessSeesFinal
<1> QED
    BY <1>3, <1>4, <1>6, <1>7 DEF RunInv

(* An attempt begins: all of the window is due. *)
LEMMA BeginKeeps ==
    ASSUME RunInv, NEW r \in Int, today <= r, BeginAttempt(r),
           UNCHANGED <<feed, table, turned, succeeded>>
    PROVE  RunInv'
<1>1. /\ today' = r /\ task' = "running" /\ due' = Asked(r) /\ failed' = {} /\ fetched' = {}
      /\ answer' = None /\ Asked(today)' = Asked(r)
    BY DEF BeginAttempt, Asked
<1>2. Turned'
    <2>1. today \in Int
        BY DEF RunInv, Runs
    <2> QED
        BY <1>1, <2>1 DEF RunInv, Turned
<1>3. Runs'
    <2>1. \A s \in succeeded : s \in Int /\ s <= r
        BY DEF RunInv, Runs
    <2> QED
        BY <1>1, <2>1 DEF Runs
<1>4. SeenInTime' /\ EveryDayAccountedFor'
    BY <1>1 DEF SeenInTime, EveryDayAccountedFor
<1>5. SuccessSeesFinal'
    BY DEF RunInv, SuccessSeesFinal, table
<1> QED
    BY <1>2, <1>3, <1>4, <1>5 DEF RunInv

LEMMA AttemptFailsKeeps ==
    ASSUME RunInv, AttemptFails
    PROVE  RunInv'
<1>1. /\ task' \in {"retry", "failed"} /\ due' = {} /\ answer' = None
      /\ UNCHANGED <<feed, rows, said, saidFinal, returned, seenFinal, today, failed, fetched,
                     turned, succeeded>>
    BY DEF AttemptFails, table
<1>2. Turned' /\ Runs' /\ EveryDayAccountedFor' /\ SuccessSeesFinal'
    BY <1>1 DEF RunInv, Turned, Runs, EveryDayAccountedFor, SuccessSeesFinal
<1>3. SeenInTime'
    BY <1>1 DEF RunInv, SeenInTime, FinalBefore
<1> QED
    BY <1>2, <1>3 DEF RunInv

(* What is fetched of a day that is final is final. *)
LEMMA FetchKeeps ==
    ASSUME feed \in {"imbalance", "load", "day_ahead", "profile"}, RunInv, Fetch
    PROVE  RunInv'
<1>1. /\ task = "running" /\ due # {} /\ answer = None /\ due' = due \ {Oldest}
      /\ UNCHANGED <<feed, rows, said, saidFinal, returned, seenFinal, today, task, failed,
                     fetched, turned, succeeded>>
    BY DEF Fetch, table
<1>2. PICK body \in Answers(Oldest) : answer' = <<Oldest, body>>
    BY DEF Fetch
<1> DEFINE d == Oldest
<1>3. d \in due /\ d \in Day
    BY <1>1, OldestIsDue DEF RunInv
<1> HIDE DEF d
<1>4. /\ body \in Body[d] /\ answer' = <<d, body>>
      /\ turned[d] # None => \A i \in DOMAIN body.documents : body.documents[i].status = "A02"
    BY <1>2 DEF Answers, d
<1>5. answer' # None /\ answer'[1] = d /\ answer'[2] = body
    <2>1. <<d, body>> \in UNION {{e} \X Body[e] : e \in Day}
        BY <1>3, <1>4
    <2> QED
        BY <1>4, <2>1, Constants
<1>6. due' = due \ {d}
    BY <1>1 DEF d
<1>7. Turned' /\ SuccessSeesFinal'
    BY <1>1 DEF RunInv, Turned, SuccessSeesFinal
<1>8. Runs'
    BY <1>1, <1>3, <1>5, <1>6 DEF RunInv, Runs, Asked
<1>9. SeenInTime'
    BY <1>1, <1>4, <1>5 DEF RunInv, SeenInTime, FinalBefore
<1>10. EveryDayAccountedFor'
    <2>1. Asked(today) = due \cup failed \cup fetched
        BY <1>1 DEF RunInv, EveryDayAccountedFor
    <2>2. Asked(today)' = Asked(today)
        BY <1>1 DEF Asked
    <2>3. Asked(today) = due' \cup failed \cup fetched \cup {d}
        BY <1>3, <1>6, <2>1
    <2> QED
        BY <1>1, <1>5, <2>2, <2>3 DEF EveryDayAccountedFor
<1> QED
    BY <1>7, <1>8, <1>9, <1>10 DEF RunInv

(* A day that fails stays in sight. *)
LEMMA DayFailsKeeps ==
    ASSUME RunInv, NEW d, DayFails(d), task = "running",
           (d \in due /\ answer = None) \/ (answer # None /\ d = answer[1])
    PROVE  RunInv'
<1>1. /\ failed' = failed \cup {d} /\ due' = due \ {d} /\ answer' = None
      /\ UNCHANGED <<feed, rows, said, saidFinal, returned, seenFinal, today, task, fetched,
                     turned, succeeded>>
    BY DEF DayFails, PutDown, table
<1>2. Turned' /\ SuccessSeesFinal'
    BY <1>1 DEF RunInv, Turned, SuccessSeesFinal
<1>3. Runs'
    BY <1>1 DEF RunInv, Runs, Asked
<1>4. SeenInTime'
    BY <1>1 DEF RunInv, SeenInTime, FinalBefore
<1>5. EveryDayAccountedFor'
    <2>1. Asked(today) = due \cup failed \cup fetched \cup (IF answer = None THEN {} ELSE {answer[1]})
        BY DEF RunInv, EveryDayAccountedFor
    <2>2. Asked(today)' = Asked(today)
        BY <1>1 DEF Asked
    <2>3. Asked(today) = due' \cup failed' \cup fetched
        BY <1>1, <2>1
    <2> QED
        BY <1>1, <2>2, <2>3 DEF EveryDayAccountedFor
<1> QED
    BY <1>2, <1>3, <1>4, <1>5 DEF RunInv

(* A day that is stored final is seen. *)
LEMMA TakeKeeps ==
    ASSUME feed \in {"imbalance", "load", "day_ahead", "profile"}, RunInv, Take
    PROVE  RunInv'
<1> DEFINE d == answer[1]
           body == answer[2]
           contents == Parsed(body)
<1>1. /\ answer # None /\ contents # Refused /\ Store(d, contents)
      /\ fetched' = fetched \cup {d} /\ answer' = None
      /\ UNCHANGED <<feed, today, task, due, failed, turned, succeeded>>
    BY DEF Take
<1>2. task = "running" /\ d \in Day
    BY <1>1 DEF RunInv, Runs
<1>3. seenFinal \subseteq seenFinal'
    BY <1>1 DEF Store
<1>4. Turned' /\ SuccessSeesFinal'
    BY <1>1, <1>3 DEF RunInv, Turned, SuccessSeesFinal
<1>5. Runs'
    BY <1>1 DEF RunInv, Runs, Asked
<1>6. FinalBefore(d) => d \in seenFinal'
    <2> SUFFICES ASSUME FinalBefore(d) PROVE d \in seenFinal'
        OBVIOUS
    <2>1. feed = "imbalance"
        BY <1>2 DEF FinalBefore, RunInv, Turned
    <2>2. \A i \in DOMAIN body.documents : body.documents[i].status = "A02"
        BY <1>1 DEF RunInv, SeenInTime
    <2>3. \A k \in DOMAIN contents : contents[k].status = "A02"
        BY <1>1, <2>1, <2>2, AllFinal
    <2> QED
        BY <1>1, <2>3 DEF Store
<1> HIDE DEF d, contents
<1>7. SeenInTime'
    BY <1>1, <1>3, <1>6 DEF RunInv, SeenInTime, FinalBefore
<1>8. EveryDayAccountedFor'
    <2>1. Asked(today) = due \cup failed \cup fetched \cup {d}
        BY <1>1, <1>2 DEF RunInv, EveryDayAccountedFor, d
    <2>2. Asked(today)' = Asked(today)
        BY <1>1 DEF Asked
    <2> QED
        BY <1>1, <1>2, <2>1, <2>2 DEF EveryDayAccountedFor
<1> QED
    BY <1>4, <1>5, <1>7, <1>8 DEF RunInv

(* A run that is a success has fetched all of its window. *)
LEMMA FinishKeeps ==
    ASSUME feed \in {"imbalance", "load", "day_ahead", "profile"}, RunInv, Finish
    PROVE  RunInv'
<1>1. task = "running" /\ due = {} /\ answer = None /\ LoudFinish
    BY DEF Finish
<1>2. CASE failed = {}
    <2>1. /\ task' = "success" /\ succeeded' = succeeded \cup {today}
          /\ UNCHANGED <<feed, rows, said, saidFinal, returned, seenFinal, today, due, failed,
                         fetched, answer, turned>>
        BY <1>1, <1>2 DEF LoudFinish, table
    <2>2. Asked(today) = fetched /\ Asked(today)' = Asked(today)
        BY <1>1, <1>2, <2>1 DEF RunInv, EveryDayAccountedFor, Asked
    <2>3. Turned' /\ EveryDayAccountedFor'
        BY <2>1, <2>2 DEF RunInv, Turned, EveryDayAccountedFor
    <2>4. Runs'
        BY <1>1, <2>1, <2>2 DEF RunInv, Runs
    <2>5. SeenInTime'
        BY <2>1 DEF RunInv, SeenInTime, FinalBefore
    <2>6. SuccessSeesFinal'
        <3> SUFFICES ASSUME NEW d \in Day, NEW r \in succeeded \cup {today},
                            turned[d] # None, turned[d] < r, r <= d + Window
                     PROVE  d \in seenFinal
            BY <2>1 DEF SuccessSeesFinal
        <3>1. CASE r \in succeeded
            BY <3>1 DEF RunInv, SuccessSeesFinal
        <3>2. CASE r = today
            <4>1. /\ feed = "imbalance" /\ d < turned[d] /\ turned[d] \in Int /\ today \in Int
                  /\ d \in Int /\ Window \in Nat
                BY Constants DEF RunInv, Turned, Runs
            <4>2. today - d \in 1 .. Window /\ d = today - (today - d)
                BY <3>2, <4>1
            <4>3. d \in Asked(today)
                BY <4>1, <4>2 DEF Asked, PastDays
            <4>4. d \in fetched /\ FinalBefore(d)
                BY <2>2, <3>2, <4>3 DEF FinalBefore
            <4> QED
                BY <4>4 DEF RunInv, SeenInTime
        <3> QED
            BY <3>1, <3>2
    <2> QED
        BY <2>3, <2>4, <2>5, <2>6 DEF RunInv
<1>3. CASE failed # {}
    BY <1>1, <1>3, AttemptFailsKeeps DEF LoudFinish
<1> QED
    BY <1>2, <1>3

LEMMA RevisionsNext ==
    ASSUME TableInv, RunInv, [Next]_vars
    PROVE  TableInv' /\ RunInv'
<1>1. feed \in {"imbalance", "load", "day_ahead", "profile"} /\ today \in Int
    BY FeedIs DEF RunInv, Runs
<1>2. ASSUME NEW d \in Day, TurnFinal(d) PROVE TableInv' /\ RunInv'
    <2>1. UNCHANGED <<feed, table>>
        BY <1>2 DEF TurnFinal
    <2> QED
        BY <1>2, <2>1, TableStays, TurnFinalKeeps
<1>3. CASE StartRun
    <2>1. UNCHANGED <<feed, table, turned, succeeded>>
        BY <1>3 DEF StartRun
    <2>2. PICK r \in today + 1 .. LastRun : BeginAttempt(r)
        BY <1>3 DEF StartRun
    <2>3. r \in Int /\ today <= r
        BY <1>1, <2>2, Constants
    <2> QED
        BY <2>1, <2>2, <2>3, TableStays, BeginKeeps
<1>4. CASE RunAgain \/ Retry
    <2>1. BeginAttempt(today) /\ UNCHANGED <<feed, table, turned, succeeded>>
        BY <1>4 DEF RunAgain, Retry
    <2>2. today <= today
        BY <1>1
    <2> QED
        BY <1>1, <2>1, <2>2, TableStays, BeginKeeps
<1>5. CASE Fetch
    <2>1. UNCHANGED <<feed, table>>
        BY <1>5 DEF Fetch
    <2> QED
        BY <1>1, <1>5, <2>1, TableStays, FetchKeeps
<1>6. ASSUME AttemptFails PROVE TableInv' /\ RunInv'
    <2>1. UNCHANGED <<feed, table>>
        BY <1>6 DEF AttemptFails
    <2> QED
        BY <1>6, <2>1, TableStays, AttemptFailsKeeps
<1>7. ASSUME NEW d, DayFails(d), task = "running",
             (d \in due /\ answer = None) \/ (answer # None /\ d = answer[1])
      PROVE  TableInv' /\ RunInv'
    <2>1. UNCHANGED <<feed, table>>
        BY <1>7 DEF DayFails
    <2> QED
        BY <1>7, <2>1, TableStays, DayFailsKeeps
<1>8. CASE FetchFails
    <2>1. task = "running" /\ due # {} /\ answer = None /\ (DayFails(Oldest) \/ AttemptFails)
        BY <1>8 DEF FetchFails
    <2>2. Oldest \in due
        BY <1>1, <2>1, OldestIsDue DEF RunInv
    <2>3. CASE DayFails(Oldest)
        <3>1. PICK d : d = Oldest
            OBVIOUS
        <3>2. DayFails(d)
            BY <2>3, <3>1 DEF DayFails, PutDown
        <3> QED
            BY <1>7, <2>1, <2>2, <3>1, <3>2
    <2> QED
        BY <1>6, <2>1, <2>3
<1>9. CASE Refuse
    <2>1. answer # None /\ (DayFails(answer[1]) \/ AttemptFails)
        BY <1>9 DEF Refuse
    <2>2. task = "running"
        BY <2>1 DEF RunInv, Runs
    <2>3. CASE DayFails(answer[1])
        <3>1. PICK d : d = answer[1]
            OBVIOUS
        <3>2. DayFails(d)
            BY <2>3, <3>1 DEF DayFails, PutDown
        <3> QED
            BY <1>7, <2>1, <2>2, <3>1, <3>2
    <2> QED
        BY <1>6, <2>1, <2>3
<1>10. CASE Take
    <2>1. Store(answer[1], Parsed(answer[2])) /\ Parsed(answer[2]) # Refused /\ UNCHANGED feed
        BY <1>10 DEF Take
    <2>2. feed # "imbalance" =>
            \A k \in DOMAIN Parsed(answer[2]) : Parsed(answer[2])[k].status = None
        BY <2>1, NoStatus
    <2>3. PICK d, contents : d = answer[1] /\ contents = Parsed(answer[2])
        OBVIOUS
    <2>4. /\ Store(d, contents)
          /\ feed # "imbalance" => \A k \in DOMAIN contents : contents[k].status = None
        BY <2>1, <2>2, <2>3 DEF Store
    <2>5. TableInv'
        BY <2>1, <2>4, StoreKeeps
    <2> QED
        BY <1>1, <1>10, <2>5, TakeKeeps
<1>11. CASE Die
    BY <1>6, <1>11 DEF Die
<1>12. CASE Finish
    <2>1. UNCHANGED <<feed, table>>
        BY <1>12 DEF Finish, LoudFinish, AttemptFails
    <2> QED
        BY <1>1, <1>12, <2>1, TableStays, FinishKeeps
<1>13. CASE UNCHANGED vars
    <2>1. /\ UNCHANGED <<feed, table, turned, succeeded>>
          /\ UNCHANGED <<today, task, due, failed, fetched, answer>>
        BY <1>13 DEF vars, run
    <2>2. UNCHANGED seenFinal
        BY <2>1 DEF table
    <2>3. Turned' /\ Runs' /\ EveryDayAccountedFor' /\ SuccessSeesFinal'
        BY <2>1, <2>2 DEF RunInv, Turned, Runs, EveryDayAccountedFor, SuccessSeesFinal, Asked
    <2>4. SeenInTime'
        BY <2>1, <2>2 DEF RunInv, SeenInTime, FinalBefore
    <2> QED
        BY <2>1, <2>3, <2>4, TableStays DEF RunInv
<1> QED
    BY <1>2, <1>3, <1>4, <1>5, <1>8, <1>9, <1>10, <1>11, <1>12, <1>13 DEF Next

LEMMA RevisionsAlways == Spec => [](TableInv /\ RunInv)
<1>1. TableInv /\ RunInv /\ [Next]_vars => (TableInv /\ RunInv)'
    BY RevisionsNext
<1> QED
    BY <1>1, RunInit, PTL DEF Spec

-----------------------------------------------------------------------------
(* Theorems. *)

(* Whatever is revised, taken back or said again, the row staging picks    *)
(* says what the source said last, and of final prices the last final one  *)
(* (warehouse.py:21-25, stg_imbalance_price.sql:1-2).                      *)
THEOREM LastSaidWins == Spec => []WinnerIsLastSaid
<1>1. TableInv => WinnerIsLastSaid
    BY WinnerFits
<1> QED
    BY <1>1, RevisionsAlways, PTL

(* While an attempt runs, every day of its window is stored, put down as   *)
(* failed, in hand or still to come, and a run that ends well has stored   *)
(* them all, whichever days fail and however often it is tried             *)
(* (entsoe_actuals.py:41-45, 67-100). An attempt that breaks off leaves    *)
(* the days behind to the next one.                                        *)
THEOREM AllDaysAreAccountedFor == Spec => []EveryDayAccountedFor
<1>1. RunInv => EveryDayAccountedFor
    BY DEF RunInv
<1> QED
    BY <1>1, RevisionsAlways, PTL

(* A run that ends well has stored the final prices of every day of its    *)
(* window that was final before it began (entsoe_actuals.py:21-26).        *)
THEOREM FinalIsSeen == Spec => []SuccessSeesFinal
<1>1. RunInv => SuccessSeesFinal
    BY DEF RunInv
<1> QED
    BY <1>1, RevisionsAlways, PTL

(* An answer that is not refused is stored as its documents state it, gaps, *)
(* carried values, repeated and contradicting points included               *)
(* (entsoe.py:198-221, 236-263, 266-319).                                   *)
THEOREM AnswersAreRead == Spec => []ReadAsStated
<1>1. Init => InHand
    BY DEF Init, InHand
<1>2. (TableInv /\ RunInv /\ InHand) /\ [Next]_vars => InHand'
    <2> SUFFICES ASSUME TableInv, RunInv, InHand, [Next]_vars, answer' # None, answer' # answer
                 PROVE  answer'[1] \in Day /\ answer'[2] \in Body[answer'[1]]
        BY DEF InHand
    <2>1. Fetch
        BY DEF Next, vars, run, TurnFinal, StartRun, RunAgain, Retry, BeginAttempt, FetchFails,
            DayFails, AttemptFails, Refuse, Take, Die, Finish, LoudFinish
    <2>2. Oldest \in Day
        <3>1. feed \in {"imbalance", "load", "day_ahead", "profile"} /\ Runs
            BY FeedIs DEF RunInv
        <3> QED
            BY <2>1, <3>1, OldestIsDue DEF Fetch
    <2>3. PICK body \in Answers(Oldest) : answer' = <<Oldest, body>>
        BY <2>1 DEF Fetch
    <2>4. body \in Body[Oldest]
        BY DEF Answers
    <2> QED
        BY <2>2, <2>3, <2>4
<1>3. InHand => ReadAsStated
    BY AnswerIsRead
<1> QED
    BY <1>1, <1>2, <1>3, RevisionsAlways, PTL DEF Spec
=============================================================================
