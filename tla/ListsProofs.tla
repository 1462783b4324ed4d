---------------------------- MODULE ListsProofs -----------------------------
(***************************************************************************)
(* What a list at rest shows, for any number of rows, people and moves:    *)
(* rows that satisfy the filters on the screen, and, as long as no row     *)
(* changes, an empty page only to those who picked it in haste.  Both rest *)
(* on what is known of every answer cached or on its way, and the second   *)
(* on a lemma about ranks in finite sets, that a page which begins within  *)
(* the rows is not empty.                                                  *)
(*                                                                         *)
(* Then what the dashboard shows: lines that account for every task, from  *)
(* what each of its statements counted and whether anybody wrote since.    *)
(* At last the types, with the length of a page.                           *)
(***************************************************************************)
EXTENDS Lists, FiniteSetTheorems, WellFoundedInduction, TLAPS

\* The axes of the task filters.
Axes == {"progress", "overdue", "assignee", "q"}

\* A row that was answered, against the filters it was asked for.
Fits(it, f, now) ==
  IF screen = "users" THEN UsersWhere(it.row, f)
  ELSE /\ BuildListWhere(it.row, f, now)
       /\ it.overdue \in BOOLEAN
       /\ screen = "tasks" => (it.overdue <=> IsOverdue(it.row, now))

\* What is on its way and what is cached fits the filters of its own key.
AnswersFit ==
  /\ \A r \in flights : r.key = r.params
  /\ \A r \in flights : r.st = "read" => \A it \in r.items : Fits(it, r.params.f, r.now)
  /\ \A a \in cache : \A it \in a.items : Fits(it, a.key.f, a.now)

Controls ==
  /\ screen \in Screens
  /\ screen = "dashboard" => cache = {} /\ flights = {}
  /\ screen = "tasks" => /\ DOMAIN filters = Axes
                         /\ filters.overdue \in {"all", "overdue", "ontime"}

\* As long as no row changes, an answer is what any statement would read now.
Answer(params) == {Item(i, FALSE) : i \in Window(Where(params.f, FALSE), params.page)}

AnswersStand ==
  /\ late = FALSE
  /\ \A r \in flights : r.st \in {"begun", "read"} => r.now = FALSE
  /\ \A r \in flights : r.st = "read" => r.items = Answer(r.params)
  /\ \A a \in cache : /\ a.items = Answer(a.key)
                      /\ a.total = Cardinality(Where(a.key.f, FALSE))

\* The page that is looked at has rows, once the search is in effect.
PageHasRows ==
  /\ page \in Nat \ {0}
  /\ page > 1 => (page - 1) * Limit < Cardinality(Where(Params(filters, filters.q, page).f, FALSE))

Inv ==
  /\ Controls /\ AnswersFit
  /\ last = NoData \/ Has(last)
  /\ events \in Nat
  /\ hasty \in BOOLEAN
  /\ events = 0 => AnswersStand
  /\ events = 0 /\ ~hasty => PageHasRows

-----------------------------------------------------------------------------
(* Windows of finite sets *)

\* A set of numbers that is not empty has a least element.
LEMMA Least ==
  ASSUME NEW S \in SUBSET Nat, S # {}
  PROVE  \E m \in S : \A n \in S : m <= n
<1>1. PICK m \in S : \A n \in S : <<n, m>> \notin OpToRel(<, Nat)
  BY NatLessThanWellFounded, WFMin
<1>2. \A n \in S : ~(n < m)
  BY <1>1 DEF OpToRel
<1> QED BY <1>2

\* Every rank below the size of a set is some element's.
LEMMA RankTaken ==
  ASSUME NEW N \in Nat, NEW S \in SUBSET (1 .. N), NEW k \in Nat, k < Cardinality(S)
  PROVE  \E i \in S : Cardinality({j \in S : j >= i}) = k + 1
<1> DEFINE From(i) == {j \in S : j >= i}
           High == {i \in S : Cardinality(From(i)) > k}
<1>0. IsFiniteSet(S) /\ S \subseteq Nat /\ Cardinality(S) \in Nat
  <2>1. 1 \in Int /\ N \in Int
    OBVIOUS
  <2>2. IsFiniteSet(1 .. N)
    BY <2>1, FS_Interval
  <2>3. IsFiniteSet(S)
    BY <2>2, FS_Subset
  <2>4. Cardinality(S) \in Nat
    BY <2>3, FS_CardinalityType
  <2> QED BY <2>3, <2>4
<1>1. \A i : IsFiniteSet(From(i)) /\ Cardinality(From(i)) \in Nat
  BY <1>0, FS_Subset, FS_CardinalityType
<1>2. High # {}
  <2>1. S # {}
    BY <1>0, FS_EmptySet
  <2>2. PICK m \in S : \A n \in S : m <= n
    BY <1>0, <2>1, Least
  <2>3. From(m) = S
    BY <1>0, <2>2
  <2> QED BY <2>2, <2>3
<1>3. PICK i \in High : \A j \in High : j <= i
  <2> DEFINE Back == {N - j : j \in High}
  <2>1. Back \in SUBSET Nat /\ Back # {}
    <3>1. \A j \in High : j \in 1 .. N /\ N - j \in Nat
      OBVIOUS
    <3> HIDE DEF High
    <3> QED BY <1>2, <3>1
  <2>2. PICK m \in Back : \A n \in Back : m <= n
    BY <2>1, Least
  <2>3. PICK i \in High : m = N - i
    BY <2>2
  <2>4. \A j \in High : N - i <= N - j
    BY <2>2, <2>3
  <2>5. i \in Nat /\ \A j \in High : j \in Nat
    BY <1>0
  <2> QED BY <2>4, <2>5
<1>4. Cardinality(From(i)) = k + 1
  <2> SUFFICES ASSUME Cardinality(From(i)) # k + 1 PROVE FALSE
    OBVIOUS
  <2> DEFINE Above == From(i) \ {i}
  <2>1. i \in S /\ i \in From(i) /\ Cardinality(From(i)) > k + 1
    BY <1>0, <1>1, <1>3
  <2>2. Cardinality(Above) = Cardinality(From(i)) - 1
    <3>1. IsFiniteSet(From(i))
      BY <1>1
    <3> HIDE DEF From
    <3> QED BY <2>1, <3>1, FS_RemoveElement
  <2>3. Above # {} /\ Above \in SUBSET Nat
    <3>1. Above \in SUBSET Nat
      BY <1>0
    <3>2. Cardinality(Above) # 0
      BY <1>1, <2>1, <2>2
    <3> HIDE DEF Above
    <3> QED BY <3>1, <3>2, FS_EmptySet
  <2>4. PICK m \in Above : \A n \in Above : m <= n
    BY <2>3, Least
  <2>5. m \in S /\ m > i
    BY <1>0, <2>1, <2>4
  <2>6. From(m) = Above
    <3>1. From(m) \subseteq Above
      <4> SUFFICES ASSUME NEW j \in S, j >= m PROVE j >= i /\ j # i
        OBVIOUS
      <4>1. i \in Nat /\ m \in Nat /\ j \in Nat
        BY <1>0, <2>1, <2>5
      <4> QED BY <2>5, <4>1
    <3>2. Above \subseteq From(m)
      BY <1>0, <2>4
    <3> QED BY <3>1, <3>2
  <2>7. m \in High
    BY <1>1, <2>1, <2>2, <2>5, <2>6
  <2> QED BY <1>0, <1>3, <2>1, <2>5, <2>7
<1> QED BY <1>3, <1>4

\* A page that begins within the rows is not empty.
LEMMA WindowFull ==
  ASSUME NEW S \in SUBSET Ids, NEW p \in Nat \ {0}, (p - 1) * Limit < Cardinality(S)
  PROVE  Window(S, p) # {}
<1> DEFINE k == (p - 1) * Limit
<1>1. Limit \in Nat \ {0} /\ MaxRows \in Nat /\ p - 1 \in Nat
  BY ListsAssumption
<1>2. k \in Nat /\ p * Limit = k + Limit
  BY <1>1
<1>3. PICK i \in S : Cardinality({j \in S : j >= i}) = k + 1
  BY <1>1, <1>2, RankTaken DEF Ids
<1>4. k + 1 > k /\ k + 1 <= p * Limit
  BY <1>1, <1>2
<1> HIDE DEF k
<1>5. i \in Window(S, p)
  BY <1>3, <1>4 DEF Window, k
<1> QED BY <1>5

\* The last page of a pager begins within the rows.
LEMMA LastPage ==
  ASSUME NEW total \in Nat, NEW p \in Nat \ {0}, p <= (total + Limit - 1) \div Limit
  PROVE  (p - 1) * Limit < total
<1> DEFINE d == (total + Limit - 1) \div Limit
<1>1. Limit \in Nat \ {0}
  BY ListsAssumption
<1>2. d \in Nat /\ d * Limit <= total + Limit - 1
  BY <1>1
<1>3. p * Limit <= d * Limit
  BY <1>1, <1>2
<1>4. (p - 1) * Limit = p * Limit - Limit
  BY <1>1
<1> HIDE DEF d
<1>5. p * Limit \in Nat /\ d * Limit \in Nat
  BY <1>1, <1>2
<1> QED BY <1>1, <1>2, <1>3, <1>4, <1>5

-----------------------------------------------------------------------------
(* The invariant *)

\* The initial states.
LEMMA InitSound == Init => Inv
<1> SUFFICES ASSUME Init PROVE Inv
    OBVIOUS
<1>1. Controls
  <2>1. screen = "tasks" => DOMAIN filters = Axes /\ filters.overdue = "all"
    BY DEF Init, Unfiltered, Axes
  <2> QED BY <2>1 DEF Init, Controls
<1>2. AnswersFit /\ AnswersStand
  <2>1. \A r \in flights : r = Ask(Params(Unfiltered, "", 1))
    BY DEF Init
  <2>2. \A params : /\ Ask(params).key = params /\ Ask(params).params = params
                    /\ Ask(params).st = "asked"
    BY DEF Ask, Key
  <2> QED BY <2>1, <2>2 DEF Init, AnswersFit, AnswersStand
<1>3. PageHasRows
  <2>1. page = 1
    BY DEF Init
  <2> QED BY <2>1 DEF PageHasRows
<1> QED BY <1>1, <1>2, <1>3 DEF Init, Inv

\* Another key is looked at: what is asked for it is new.
LEMMA LookKeeps ==
  ASSUME Inv, screen # "dashboard", NEW f, NEW q, NEW p, Look(f, q, p)
  PROVE  /\ AnswersFit' /\ (last = NoData \/ Has(last))'
         /\ UNCHANGED <<screen, table, cache, stats, events>>
         /\ filters' = f /\ search' = q /\ page' = p
         /\ AnswersStand => AnswersStand'
<1> DEFINE params == Params(f, q, p)
<1>1. /\ UNCHANGED <<screen, table, cache, stats, events>>
      /\ filters' = f /\ search' = q /\ page' = p
      /\ last' = IF Has(Current) THEN Current ELSE last
      /\ flights' = flights \/ flights' = flights \cup {Ask(params)}
  BY DEF Look
<1> HIDE DEF params
<1>2. Ask(params).key = params /\ Ask(params).params = params /\ Ask(params).st = "asked"
  BY DEF Ask, Key
<1>3. UNCHANGED <<screen, rows, late, cache>>
  BY <1>1 DEF table
<1>4. AnswersFit'
  BY <1>1, <1>2, <1>3 DEF Inv, AnswersFit, Fits
<1>5. (last = NoData \/ Has(last))'
  BY <1>1, <1>3 DEF Inv, Has
<1>6. AnswersStand => AnswersStand'
  <2> SUFFICES ASSUME AnswersStand PROVE AnswersStand'
    OBVIOUS
  <2>1. \A g : Answer(g)' = Answer(g) /\ \A h : Where(h, FALSE)' = Where(h, FALSE)
    BY <1>3 DEF Answer, Where, Item
  <2>2. \A r \in flights' : r \in flights \/ r.st = "asked"
    BY <1>1, <1>2
  <2> QED BY <1>3, <2>1, <2>2 DEF AnswersStand
<1> QED BY <1>1, <1>4, <1>5, <1>6

\* The filter that a condition of the database and the mark agree about.
LEMMA FilterStep ==
  ASSUME Inv, NEW axis, NEW v, SetFilter(axis, v),
         screen = "tasks" => axis \in DOMAIN Filters.tasks /\ v \in Filters.tasks[axis]
  PROVE  Inv'
<1> DEFINE f == [filters EXCEPT ![axis] = v]
<1>1. screen # "dashboard" /\ Look(f, search, 1) /\ hasty' = hasty
  BY DEF SetFilter, Move, PatchFilters
<1>2. /\ AnswersFit' /\ (last = NoData \/ Has(last))'
      /\ UNCHANGED <<screen, table, cache, stats, events>>
      /\ filters' = f /\ page' = 1
      /\ AnswersStand => AnswersStand'
  <2> HIDE DEF f
  <2> QED BY <1>1, LookKeeps
<1>3. Controls'
  <2>1. screen = "tasks" => DOMAIN f = Axes /\ f.overdue \in {"all", "overdue", "ontime"}
    <3> SUFFICES ASSUME screen = "tasks"
                 PROVE  DOMAIN f = Axes /\ f.overdue \in {"all", "overdue", "ontime"}
      OBVIOUS
    <3>1. DOMAIN filters = Axes /\ filters.overdue \in {"all", "overdue", "ontime"}
      BY DEF Inv, Controls
    <3>2. CASE axis = "overdue"
      <4>1. v \in {"all", "overdue", "ontime"}
        BY <3>2, ListsAssumption DEF Inv, Controls
      <4> QED BY <3>1, <3>2, <4>1 DEF Axes
    <3>3. CASE axis # "overdue"
      BY <3>1, <3>3 DEF Axes
    <3> QED BY <3>2, <3>3
  <2> HIDE DEF f
  <2> QED BY <1>1, <1>2, <2>1 DEF Inv, Controls
<1>4. PageHasRows'
  BY <1>2 DEF PageHasRows
<1> QED BY <1>1, <1>2, <1>3, <1>4 DEF Inv

\* What is known of the page counts with the search as typed, so that it holds
\* on when the search takes effect.
LEMMA DebounceStep ==
  ASSUME Inv, Debounce
  PROVE  Inv'
<1>1. screen # "dashboard" /\ Look(filters, filters.q, page) /\ hasty' = hasty
  BY DEF Debounce
<1>2. /\ AnswersFit' /\ (last = NoData \/ Has(last))'
      /\ UNCHANGED <<screen, table, cache, stats, events>>
      /\ filters' = filters /\ page' = page
      /\ AnswersStand => AnswersStand'
  BY <1>1, LookKeeps
<1>3. Controls'
  BY <1>1, <1>2 DEF Inv, Controls
<1>4. PageHasRows => PageHasRows'
  BY <1>2 DEF PageHasRows, Params, Where, table
<1> QED BY <1>1, <1>2, <1>3, <1>4 DEF Inv

\* The pager counts the rows of the filters it was answered for.
LEMMA PageStep ==
  ASSUME Inv, NEW p \in Ids, PickPage(p)
  PROVE  Inv'
<1> DEFINE g == Params(filters, filters.q, p).f
<1>1. /\ screen # "dashboard" /\ Look(filters, search, p)
      /\ hasty' = (hasty \/ Shown.key.f # g)
      /\ Shown # NoData /\ p <= (Shown.total + Limit - 1) \div Limit
  BY DEF PickPage, Move
<1>2. /\ AnswersFit' /\ (last = NoData \/ Has(last))'
      /\ UNCHANGED <<screen, table, cache, stats, events>>
      /\ filters' = filters /\ page' = p
      /\ AnswersStand => AnswersStand'
  BY <1>1, LookKeeps
<1>3. Controls'
  BY <1>1, <1>2 DEF Inv, Controls
<1>4. hasty' \in BOOLEAN /\ (~hasty' => Shown.key.f = g)
  BY <1>1, Zenon DEF Inv
<1>5. ASSUME events = 0, ~hasty' PROVE PageHasRows'
  <2>1. Shown \in cache
    <3>1. \A k : Has(k) => Data(k) \in cache
      BY DEF Has, Data
    <3> QED BY <1>1, <3>1 DEF Shown, Inv
  <2>2. Shown.total = Cardinality(Where(g, FALSE))
    BY <1>4, <1>5, <2>1 DEF Inv, AnswersStand
  <2>3. Cardinality(Where(g, FALSE)) \in Nat
    <3>1. IsFiniteSet(Ids)
      BY ListsAssumption, FS_Interval DEF Ids
    <3>2. Where(g, FALSE) \in SUBSET Ids
      BY DEF Where
    <3> QED BY <3>1, <3>2, FS_Subset, FS_CardinalityType
  <2>4. p \in Nat \ {0}
    BY ListsAssumption DEF Ids
  <2>5. (p - 1) * Limit < Cardinality(Where(g, FALSE))
    BY <1>1, <2>2, <2>3, <2>4, LastPage
  <2>6. Params(filters, filters.q, page).f' = g /\ Where(g, FALSE)' = Where(g, FALSE)
    BY <1>2 DEF Params, Where, table
  <2> QED BY <1>2, <2>4, <2>5, <2>6 DEF PageHasRows
<1> QED BY <1>2, <1>3, <1>4, <1>5 DEF Inv

\* The endpoints: what a statement reads satisfies the filters it is given, and
\* bears the mark of the same clock.
LEMMA ServeStep ==
  ASSUME Inv, NEW r \in flights, Serve(r)
  PROVE  Inv'
<1>1. /\ UNCHANGED <<screen, rows, late, filters, search, page, last, events, hasty>>
      /\ screen # "dashboard" /\ screen \in {"tasks", "users", "dashboard"}
  BY ListsAssumption DEF Serve, Execute, FindMany, CountAndDeliver, table, controls, Inv, Controls
<1>2. Controls' /\ (PageHasRows => PageHasRows')
  BY <1>1 DEF Inv, Controls, PageHasRows, Params, Where
<1>3. /\ \A g : Answer(g)' = Answer(g)
      /\ \A h : Where(h, FALSE)' = Where(h, FALSE)
  BY <1>1 DEF Answer, Where, Item
<1>4. AnswersFit /\ (events = 0 => AnswersStand) /\ (last = NoData \/ Has(last))
  BY DEF Inv
<1>5. CASE Execute(r)
  <2> DEFINE s == [key |-> r.key, params |-> r.params, st |-> "begun", now |-> late]
  <2>1. flights' = (flights \ {r}) \cup {s} /\ cache' = cache
    BY <1>5 DEF Execute, To
  <2>2. s.key = r.key /\ s.params = r.params /\ s.st = "begun" /\ s.now = late
    OBVIOUS
  <2> HIDE DEF s
  <2>3. AnswersFit'
    BY <1>1, <1>4, <2>1, <2>2 DEF AnswersFit, Fits
  <2>4. events = 0 => AnswersStand'
    BY <1>1, <1>3, <1>4, <2>1, <2>2 DEF AnswersStand
  <2> QED BY <1>1, <1>2, <1>4, <2>1, <2>3, <2>4 DEF Inv, Has
<1>6. CASE FindMany(r)
  <2> DEFINE ids == Window(Where(r.params.f, r.now), r.params.page)
             items == {Item(i, r.now) : i \in ids}
             s == [key |-> r.key, params |-> r.params, st |-> "read", now |-> r.now,
                   items |-> items]
  <2>1. flights' = (flights \ {r}) \cup {s} /\ cache' = cache
    BY <1>6 DEF FindMany, To
  <2>2. /\ s.key = r.key /\ s.params = r.params /\ s.st = "read" /\ s.now = r.now
        /\ s.items = items
    OBVIOUS
  <2>3. \A it \in items : Fits(it, r.params.f, r.now)
    <3> SUFFICES ASSUME NEW i \in ids PROVE Fits(Item(i, r.now), r.params.f, r.now)
      OBVIOUS
    <3>1. i \in Where(r.params.f, r.now)
      BY DEF Window
    <3>2. /\ Item(i, r.now).row = rows[i]
          /\ Item(i, r.now).overdue = (screen = "tasks" /\ IsOverdue(rows[i], r.now))
      BY DEF Item
    <3>3. /\ Item(i, r.now).overdue \in BOOLEAN
          /\ screen = "tasks" => (Item(i, r.now).overdue <=> IsOverdue(rows[i], r.now))
      BY <3>2, Zenon
    <3>4. IF screen = "users" THEN UsersWhere(rows[i], r.params.f)
          ELSE BuildListWhere(rows[i], r.params.f, r.now)
      BY <3>1 DEF Where
    <3> QED BY <3>2, <3>3, <3>4 DEF Fits
  <2>4. events = 0 => r.now = FALSE /\ items = Answer(r.params)
    BY <1>4, <1>6 DEF AnswersStand, FindMany, Answer
  <2> HIDE DEF s, items
  <2>5. AnswersFit'
    BY <1>1, <1>4, <2>1, <2>2, <2>3 DEF AnswersFit, Fits
  <2>6. events = 0 => AnswersStand'
    BY <1>1, <1>3, <1>4, <2>1, <2>2, <2>4 DEF AnswersStand
  <2> QED BY <1>1, <1>2, <1>4, <2>1, <2>5, <2>6 DEF Inv, Has
<1>7. CASE CountAndDeliver(r)
  <2> DEFINE a == [key |-> r.key, items |-> r.items, now |-> r.now,
                   total |-> Cardinality(Where(r.params.f, r.now))]
  <2>1. /\ r.st = "read" /\ flights' = flights \ {r}
        /\ cache' = {b \in cache : b.key # r.key} \cup {a}
    BY <1>7 DEF CountAndDeliver
  <2>2. /\ a.key = r.key /\ a.items = r.items /\ a.now = r.now
        /\ a.total = Cardinality(Where(r.params.f, r.now))
    OBVIOUS
  <2> HIDE DEF a
  <2>3. AnswersFit'
    BY <1>1, <1>4, <2>1, <2>2 DEF AnswersFit, Fits
  <2>4. events = 0 => AnswersStand'
    BY <1>1, <1>3, <1>4, <2>1, <2>2 DEF AnswersStand, AnswersFit
  <2>5. \A k : Has(k) => Has(k)'
    BY <2>1, <2>2 DEF Has
  <2>6. (last = NoData \/ Has(last))'
    BY <1>1, <1>4, <2>5 DEF Has
  <2> QED BY <1>1, <1>2, <2>3, <2>4, <2>6 DEF Inv
<1> QED BY <1>5, <1>6, <1>7 DEF Serve

\* What others write, an answer that is lost, and the row's own button.
LEMMA EventStep ==
  ASSUME Inv,
         \/ \E r \in flights : Lose(r)
         \/ Tick \/ Elsewhere
         \/ \E u \in People : Deactivate(u)
         \/ \E i \in Ids : RunDeactivate(i)
  PROVE  Inv'
<1>1. /\ events' = events + 1 /\ UNCHANGED <<screen, filters, search, page, cache, last, hasty>>
      /\ \A r \in flights' : r \in flights \/ (r.st = "asked" /\ r.key = r.params)
      /\ screen = "dashboard" => flights' \subseteq flights
  <2>1. Ask(Params(filters, search, page)).st = "asked"
        /\ Ask(Params(filters, search, page)).key = Ask(Params(filters, search, page)).params
    BY DEF Ask, Key
  <2>2. CASE \E r \in flights : Lose(r)
    BY <2>2 DEF Lose, Happen, table, controls
  <2>3. CASE Tick \/ Elsewhere \/ \E u \in People : Deactivate(u)
    BY <2>3 DEF Tick, Elsewhere, Deactivate, Happen, controls, queries
  <2>4. CASE \E i \in Ids : RunDeactivate(i)
    <3>1. /\ events' = events + 1
          /\ UNCHANGED <<screen, filters, search, page, cache, last, hasty>>
          /\ screen = "users"
          /\ flights' \subseteq flights \cup {Ask(Params(filters, search, page))}
      BY <2>4 DEF RunDeactivate, Happen, controls
    <3> QED BY <2>1, <3>1
  <2> QED BY <2>2, <2>3, <2>4
<1>2. AnswersFit'
  BY <1>1 DEF Inv, AnswersFit, Fits
<1>3. Controls' /\ (last = NoData \/ Has(last))'
  BY <1>1 DEF Inv, Controls, Has
<1>4. events' \in Nat /\ events' # 0
  BY <1>1 DEF Inv
<1> QED BY <1>1, <1>2, <1>3, <1>4 DEF Inv

\* The dashboard has no part in the lists.
LEMMA StatsStep ==
  ASSUME Inv, ServeStats \/ vars' = vars
  PROVE  Inv'
<1>1. UNCHANGED <<screen, rows, late, filters, search, page, cache, flights, last, events, hasty>>
  BY DEF ServeStats, StatsBegin, StatsRead, StatsCompose, vars, table, controls, queries
<1>2. Controls' /\ (last = NoData \/ Has(last))'
  BY <1>1 DEF Inv, Controls, Has
<1>3. AnswersFit'
  BY <1>1 DEF Inv, AnswersFit, Fits
<1>4. AnswersStand => AnswersStand'
  <2>1. /\ \A g : Answer(g)' = Answer(g)
        /\ \A h : Where(h, FALSE)' = Where(h, FALSE)
    BY <1>1 DEF Answer, Where, Item
  <2> QED BY <1>1, <2>1 DEF AnswersStand
<1>5. PageHasRows => PageHasRows'
  BY <1>1 DEF PageHasRows, Params, Where
<1> QED BY <1>1, <1>2, <1>3, <1>4, <1>5 DEF Inv

\* The invariant is inductive.
LEMMA Inductive == Inv /\ [Next]_vars => Inv'
<1> SUFFICES ASSUME Inv, [Next]_vars PROVE Inv'
    OBVIOUS
<1>1. CASE TaskFilters
  BY <1>1, FilterStep DEF TaskFilters
<1>2. CASE UserFilters
  BY <1>2, FilterStep DEF UserFilters
<1>3. CASE Debounce
  BY <1>3, DebounceStep
<1>4. ASSUME NEW p \in Ids, PickPage(p) PROVE Inv'
  BY <1>4, PageStep
<1>5. ASSUME NEW r \in flights, Serve(r) PROVE Inv'
  BY <1>5, ServeStep
<1> QED BY <1>1, <1>2, <1>3, <1>4, <1>5, EventStep, StatsStep DEF Next

\* At rest every row on the screen satisfies every control of the filter bar,
\* and its overdue mark agrees with the overdue filter (TaskList.tsx:34,
\* hooks.ts:16, list-tasks.usecase.ts:17).
THEOREM RowsFit == Spec => []RowsAsFiltered
<1>1. Inv => RowsAsFiltered
  <2> SUFFICES ASSUME Inv, AtRest, NEW it \in Shown.items
               PROVE  IF screen = "users" THEN UsersWhere(it.row, filters)
                      ELSE /\ BuildListWhere(it.row, filters, Shown.now)
                           /\ filters.overdue # "all" => it.overdue = (filters.overdue = "overdue")
    BY DEF RowsAsFiltered
  <2>1. Shown = Data(Current) /\ Has(Current)
    BY DEF AtRest, Shown
  <2>2. PICK a \in cache : a = Shown /\ a.key = Current
    BY <2>1 DEF Has, Data
  <2>3. Fits(it, Current.f, a.now)
    BY <2>2 DEF Inv, AnswersFit
  <2>4. Current.f = IF screen = "tasks" THEN [filters EXCEPT !.q = search] ELSE filters
    BY DEF Current, Key, Params
  <2>5. CASE screen = "users"
    BY <2>3, <2>4, <2>5 DEF Fits
  <2>6. CASE screen = "tasks"
    <3>1. DOMAIN filters = Axes /\ filters.overdue \in {"all", "overdue", "ontime"}
      BY <2>6 DEF Inv, Controls
    <3>2. search = filters.q
      BY <2>6 DEF AtRest
    <3>3. /\ Current.f.assignee = filters.assignee /\ Current.f.progress = filters.progress
          /\ Current.f.overdue = filters.overdue /\ Current.f.q = filters.q
      BY <2>4, <2>6, <3>1, <3>2 DEF Axes
    <3>4. /\ BuildListWhere(it.row, Current.f, a.now)
          /\ it.overdue <=> IsOverdue(it.row, a.now)
      BY <2>3, <2>6 DEF Fits
    <3>5. BuildListWhere(it.row, filters, a.now)
      BY <3>3, <3>4 DEF BuildListWhere
    <3>6. filters.overdue # "all" => it.overdue = (filters.overdue = "overdue")
      <4>1. filters.overdue = "overdue" => it.overdue
        BY <3>4, <3>5 DEF BuildListWhere, OverduePredicate, IsOverdue, Passed
      <4>2. filters.overdue = "ontime" => ~it.overdue
        BY <3>4, <3>5 DEF BuildListWhere, NotOverdue, IsOverdue, Passed
      <4>3. it.overdue \in BOOLEAN
        BY <2>2, <2>6 DEF Inv, AnswersFit, Fits
      <4> QED BY <3>1, <4>1, <4>2, <4>3
    <3> QED BY <2>2, <2>6, <3>5, <3>6
  <2>7. screen # "dashboard"
    BY <2>2 DEF Inv, Controls
  <2> QED BY <2>5, <2>6, <2>7, ListsAssumption DEF Inv, Controls
<1> QED BY InitSound, Inductive, <1>1, PTL DEF Spec

\* As long as nothing happens around the page, only a page picked while a search
\* waits or other rows are shown leaves anybody on an empty page (TaskList.tsx:57).
THEOREM OnlyHasteStrands == Spec => []StrandedOnlyByHaste
<1>1. Inv => StrandedOnlyByHaste
  <2> SUFFICES ASSUME Inv, AtRest, Shown.items = {}, page > 1, ~hasty, events = 0
               PROVE  FALSE
    BY DEF StrandedOnlyByHaste, Stranded, Inv
  <2>1. PICK a \in cache : a = Shown /\ a.key = Current
    BY DEF AtRest, Shown, Has, Data
  <2> DEFINE S == Where(Current.f, FALSE)
  <2>2. Current.page = page /\ Current.f = Params(filters, filters.q, page).f
    BY DEF Current, Key, Params, AtRest
  <2>3. page \in Nat \ {0} /\ (page - 1) * Limit < Cardinality(S)
    BY <2>2 DEF Inv, PageHasRows
  <2>4. S \in SUBSET Ids
    BY DEF Where
  <2>5. Window(S, page) # {}
    BY <2>3, <2>4, WindowFull
  <2>6. Shown.items = {Item(i, FALSE) : i \in Window(S, page)}
    BY <2>1, <2>2 DEF Inv, AnswersStand, Answer
  <2> QED BY <2>5, <2>6
<1> QED BY InitSound, Inductive, <1>1, PTL DEF Spec

-----------------------------------------------------------------------------
(* The dashboard *)

\* The overdue tasks of u, as the filter of the list finds them.
OverdueOf(u, now) ==
  {i \in Ids : rows[i] # Absent /\ rows[i].assignee = u /\ BuildListWhere(rows[i],
    [assignee |-> "all", progress |-> "all", q |-> "", overdue |-> "overdue"], now)}

\* What a statement has counted is numbers, and, while nobody writes, those of
\* the table.
Reading ==
  /\ DOMAIN stats = {"st", "now", "since", "progress", "overdue", "members"}
  /\ stats.since \in 0 .. events
  /\ stats.progress # Unread =>
       /\ stats.progress.val \in [People -> [Progress -> Nat]]
       /\ events = stats.since => stats.progress.val = GroupByProgress
  /\ stats.overdue # Unread =>
       /\ DOMAIN stats.overdue.val = People
       /\ events = stats.since => stats.overdue.val = GroupOverdue(stats.now)
  /\ stats.members # Unread => stats.members.val \subseteq People

\* A screen reads one table.
RowsTyped == rows \in [Ids -> (IF screen = "users" THEN Users ELSE Tasks) \cup {Absent}]

StatsInv ==
  /\ RowsTyped
  /\ events \in Nat /\ active \subseteq People
  /\ stats.st \in {"idle", "asked", "begun", "answered"}
  /\ stats.st # "idle" => screen = "dashboard"
  /\ stats.st = "begun" => Reading
  /\ stats.st = "answered" => stats.since \in 0 .. events /\ StatsAddUp

\* The dashboard starts with nothing counted.
LEMMA InitStats == Init => StatsInv
<1> SUFFICES ASSUME Init PROVE StatsInv
    OBVIOUS
<1>1. stats.st \in {"idle", "asked"} /\ (stats.st # "idle" => screen = "dashboard")
  BY DEF Init
<1>2. RowsTyped
  BY ListsAssumption DEF Init, RowsTyped
<1> QED BY <1>1, <1>2 DEF Init, StatsInv

\* A step that leaves the table and the dashboard alone.
LEMMA StatsKept ==
  ASSUME StatsInv, UNCHANGED <<screen, rows, active, stats, events>>
  PROVE  StatsInv'
<1>1. GroupByProgress' = GroupByProgress /\ \A now : GroupOverdue(now)' = GroupOverdue(now)
  BY DEF GroupByProgress, GroupOverdue
<1>2. Reading => Reading'
  BY <1>1 DEF Reading
<1>3. StatsAddUp => StatsAddUp'
  BY DEF StatsAddUp
<1> QED BY <1>2, <1>3 DEF StatsInv, RowsTyped

\* A write makes what was counted before it out of date, and says so.
LEMMA StatsAged ==
  ASSUME StatsInv, events' = events + 1, UNCHANGED <<screen, stats>>, active' \subseteq active,
         RowsTyped'
  PROVE  StatsInv'
<1>1. events \in Nat /\ events' \in Nat
  BY DEF StatsInv
<1>2. stats.st = "begun" => Reading'
  <2> SUFFICES ASSUME stats.st = "begun" PROVE Reading'
      OBVIOUS
  <2>1. stats.since \in 0 .. events
    BY DEF StatsInv, Reading
  <2>2. stats.since \in 0 .. events' /\ events' # stats.since
    BY <1>1, <2>1
  <2> QED BY <2>2 DEF StatsInv, Reading
<1>3. stats.st = "answered" => stats.since \in 0 .. events' /\ StatsAddUp'
  <2> SUFFICES ASSUME stats.st = "answered" PROVE stats.since \in 0 .. events' /\ StatsAddUp'
      OBVIOUS
  <2>1. stats.since \in 0 .. events
    BY DEF StatsInv
  <2>2. stats.since \in 0 .. events' /\ events' # stats.since
    BY <1>1, <2>1
  <2> QED BY <2>2 DEF StatsInv, StatsAddUp
<1> QED BY <1>1, <1>2, <1>3 DEF StatsInv

\* What others write is typed.
LEMMA WritesTyped ==
  ASSUME RowsTyped, Elsewhere \/ \E i \in Ids : RunDeactivate(i)
  PROVE  RowsTyped'
<1>1. ASSUME NEW i \in Ids, NEW row \in (IF screen = "users" THEN Users ELSE Tasks) \cup {Absent},
             Written(i, row), screen' = screen
      PROVE  RowsTyped'
  BY <1>1 DEF RowsTyped, Written
<1>2. CASE Elsewhere
  <2>1. ASSUME NEW i \in Ids, rows[i] # Absent, NEW row \in Rewrites(rows[i]), Written(i, row)
        PROVE  RowsTyped'
    <3>1. CASE screen = "users"
      <4>1. rows[i] \in Users
        BY <2>1, <3>1 DEF RowsTyped
      <4>2. row \in Users
        BY <2>1, <3>1, <4>1 DEF Rewrites, Users
      <4> QED BY <1>1, <1>2, <2>1, <3>1, <4>2 DEF Elsewhere
    <3>2. CASE screen # "users"
      <4>1. rows[i] \in Tasks
        BY <2>1, <3>2 DEF RowsTyped
      <4>2. row \in Tasks \cup {Absent}
        BY <2>1, <3>2, <4>1 DEF Rewrites, Tasks
      <4> QED BY <1>1, <1>2, <2>1, <3>2, <4>2 DEF Elsewhere
    <3> QED BY <3>1, <3>2
  <2>2. ASSUME NEW i \in Ids, NEW j \in Ids, Written(j, rows[i])
        PROVE  RowsTyped'
    BY <1>1, <1>2, <2>2 DEF Elsewhere, RowsTyped
  <2> QED BY <1>2, <2>1, <2>2 DEF Elsewhere
<1>3. ASSUME NEW i \in Ids, RunDeactivate(i)
      PROVE  RowsTyped'
  <2>1. screen = "users" /\ screen' = screen /\ Written(i, [rows[i] EXCEPT !.active = FALSE])
    BY <1>3 DEF RunDeactivate
  <2>2. CASE rows[i] = Absent
    <3>1. [Absent EXCEPT !.active = FALSE] = Absent
      BY DEF Absent
    <3> QED BY <1>1, <2>1, <2>2, <3>1
  <2>3. CASE rows[i] \in Users
    <3>1. [rows[i] EXCEPT !.active = FALSE] \in Users
      BY <2>3 DEF Users
    <3> QED BY <1>1, <2>1, <3>1
  <2> QED BY <2>1, <2>2, <2>3 DEF RowsTyped
<1> QED BY <1>2, <1>3

\* A task that the overdue filter finds is on somebody's progress count.
LEMMA OverdueCounted ==
  ASSUME NEW u \in People, rows \in [Ids -> Tasks \cup {Absent}],
         \A p \in Progress : GroupByProgress[u][p] = 0, NEW now
  PROVE  Cardinality(OverdueOf(u, now)) = 0
<1> DEFINE With(p) == {i \in Ids : rows[i] # Absent /\ rows[i].assignee = u /\ rows[i].progress = p}
<1>1. IsFiniteSet(Ids)
  BY ListsAssumption, FS_Interval DEF Ids
<1>2. \A p : IsFiniteSet(With(p))
  BY <1>1, FS_Subset
<1>3. \A p \in Progress : Cardinality(With(p)) = 0
  BY DEF GroupByProgress
<1>4. \A p \in Progress : With(p) = {}
  BY <1>2, <1>3, FS_EmptySet
<1>5. OverdueOf(u, now) = {}
  <2> SUFFICES ASSUME NEW i \in OverdueOf(u, now) PROVE FALSE
      OBVIOUS
  <2>1. i \in Ids /\ rows[i] # Absent /\ rows[i].assignee = u
    BY DEF OverdueOf
  <2>2. rows[i].progress \in Progress
    BY <2>1 DEF Tasks
  <2> QED BY <1>4, <2>1, <2>2
<1> QED BY <1>5, FS_EmptySet

\* The overdue filter of the list and the overdue group of the dashboard.
LEMMA SameOverdue ==
  ASSUME NEW u \in People, NEW now
  PROVE  GroupOverdue(now)[u] = Cardinality(OverdueOf(u, now))
<1>1. \A row : BuildListWhere(row,
        [assignee |-> "all", progress |-> "all", q |-> "", overdue |-> "overdue"], now)
        <=> OverdueWhere(row, now)
  BY DEF BuildListWhere, OverdueWhere
<1>2. OverdueOf(u, now)
      = {i \in Ids : rows[i] # Absent /\ rows[i].assignee = u /\ OverdueWhere(rows[i], now)}
  BY <1>1 DEF OverdueOf
<1> QED BY <1>2 DEF GroupOverdue

\* The statements of the aggregate, and the lines made of them.
LEMMA DashboardStep ==
  ASSUME StatsInv, ServeStats
  PROVE  StatsInv'
<1>1. UNCHANGED <<screen, rows, active, events>> /\ RowsTyped'
  <2>1. UNCHANGED <<screen, rows, active, events>>
    BY DEF ServeStats, StatsBegin, StatsRead, StatsCompose, table
  <2> QED BY <2>1 DEF StatsInv, RowsTyped
<1>2. CASE StatsBegin
  BY <1>1, <1>2 DEF StatsInv, StatsBegin, Reading
<1>3. CASE StatsRead("progress", GroupByProgress)
  <2>1. GroupByProgress \in [People -> [Progress -> Nat]]
    <3>1. IsFiniteSet(Ids)
      BY ListsAssumption, FS_Interval DEF Ids
    <3>2. \A S \in SUBSET Ids : Cardinality(S) \in Nat
      BY <3>1, FS_Subset, FS_CardinalityType
    <3> QED BY <3>2 DEF GroupByProgress
  <2>2. GroupByProgress' = GroupByProgress /\ \A now : GroupOverdue(now)' = GroupOverdue(now)
    BY <1>1 DEF GroupByProgress, GroupOverdue
  <2>3. stats.st = "begun" /\ Reading /\ stats' = [stats EXCEPT !.progress = Result(GroupByProgress)]
    BY <1>3 DEF StatsRead, StatsInv
  <2>4. Reading'
    BY <1>1, <2>1, <2>2, <2>3 DEF Reading, Result
  <2> QED BY <1>1, <2>3, <2>4 DEF StatsInv, Reading
<1>4. CASE stats.st = "begun" /\ StatsRead("overdue", GroupOverdue(stats.now))
  <2>1. GroupByProgress' = GroupByProgress /\ \A now : GroupOverdue(now)' = GroupOverdue(now)
    BY <1>1 DEF GroupByProgress, GroupOverdue
  <2>2. Reading /\ stats' = [stats EXCEPT !.overdue = Result(GroupOverdue(stats.now))]
    BY <1>4 DEF StatsRead, StatsInv
  <2>3. DOMAIN GroupOverdue(stats.now) = People
    BY DEF GroupOverdue
  <2>4. Reading'
    BY <1>1, <2>1, <2>2, <2>3 DEF Reading, Result
  <2> QED BY <1>1, <1>4, <2>2, <2>4 DEF StatsInv, Reading
<1>5. CASE StatsRead("members", active)
  <2>1. GroupByProgress' = GroupByProgress /\ \A now : GroupOverdue(now)' = GroupOverdue(now)
    BY <1>1 DEF GroupByProgress, GroupOverdue
  <2>2. stats.st = "begun" /\ Reading /\ stats' = [stats EXCEPT !.members = Result(active)]
    BY <1>5 DEF StatsRead, StatsInv
  <2>3. Reading'
    BY <1>1, <2>1, <2>2 DEF Reading, Result, StatsInv
  <2> QED BY <1>1, <2>2, <2>3 DEF StatsInv, Reading
<1>6. CASE StatsCompose
  <2> DEFINE progress == stats.progress.val
             overdue == stats.overdue.val
  <2>1. /\ Reading
        /\ stats.progress # Unread /\ stats.overdue # Unread /\ stats.members # Unread
        /\ stats' = [st |-> "answered", now |-> stats.now, since |-> stats.since,
                     counted |-> progress,
                     byProgress |-> [u \in ByAssignee |-> progress[u]],
                     overdue |-> [u \in ByAssignee |-> overdue[u]]]
    BY <1>6 DEF StatsCompose, StatsInv
  <2>2. \A u \in People : u \notin ByAssignee => \A p \in Progress : progress[u][p] = 0
    BY <2>1 DEF Reading, ByAssignee
  <2>3. StatsAddUp'
    <3> SUFFICES ASSUME NEW u \in People
                 PROVE  /\ \A p \in Progress :
                             progress[u][p] = IF u \in ByAssignee THEN progress[u][p] ELSE 0
                        /\ events = stats.since =>
                             Cardinality(OverdueOf(u, stats.now))
                             = IF u \in ByAssignee THEN overdue[u] ELSE 0
      BY <1>1, <2>1 DEF StatsAddUp, OverdueOf
    <3>1. ASSUME events = stats.since, u \in ByAssignee
          PROVE  Cardinality(OverdueOf(u, stats.now)) = overdue[u]
      BY <2>1, <3>1, SameOverdue DEF Reading
    <3>2. ASSUME events = stats.since, u \notin ByAssignee
          PROVE  Cardinality(OverdueOf(u, stats.now)) = 0
      <4>1. \A p \in Progress : GroupByProgress[u][p] = 0
        BY <2>1, <2>2, <3>2 DEF Reading
      <4>2. rows \in [Ids -> Tasks \cup {Absent}]
        BY <1>6 DEF StatsCompose, StatsInv, RowsTyped
      <4> QED BY <4>1, <4>2, OverdueCounted
    <3> QED BY <2>2, <3>1, <3>2
  <2>4. stats.since \in 0 .. events
    BY <2>1 DEF Reading
  <2> QED BY <1>1, <1>6, <2>1, <2>3, <2>4 DEF StatsInv, StatsCompose
<1> QED BY <1>2, <1>3, <1>4, <1>5, <1>6 DEF ServeStats

\* The invariant of the dashboard is inductive.
LEMMA StatsInductive == StatsInv /\ [Next]_vars => StatsInv'
<1> SUFFICES ASSUME StatsInv, [Next]_vars PROVE StatsInv'
    OBVIOUS
<1>1. CASE \/ TaskFilters \/ UserFilters \/ Debounce \/ \E p \in Ids : PickPage(p)
           \/ vars' = vars \/ \E r \in flights : Serve(r)
  <2>1. UNCHANGED <<screen, rows, active, stats, events>>
    BY <1>1 DEF TaskFilters, UserFilters, Debounce, PickPage, SetFilter, PatchFilters, Look,
                Serve, Execute, FindMany, CountAndDeliver, table, vars
  <2> QED BY <2>1, StatsKept
<1>2. CASE ServeStats
  BY <1>2, DashboardStep
<1>3. CASE \/ \E r \in flights : Lose(r)
           \/ Tick \/ \E u \in People : Deactivate(u)
           \/ Elsewhere \/ \E i \in Ids : RunDeactivate(i)
  <2>1. events' = events + 1 /\ UNCHANGED <<screen, stats>> /\ active' \subseteq active
    BY <1>3 DEF Lose, Tick, Elsewhere, Deactivate, RunDeactivate, Happen, table
  <2>2. CASE Elsewhere \/ \E i \in Ids : RunDeactivate(i)
    BY <2>1, <2>2, WritesTyped, StatsAged DEF StatsInv
  <2>3. CASE \/ \E r \in flights : Lose(r)
             \/ Tick \/ \E u \in People : Deactivate(u)
    <3>1. rows' = rows
      BY <2>3 DEF Lose, Tick, Deactivate, table
    <3> QED BY <2>1, <3>1, StatsAged DEF StatsInv, RowsTyped
  <2> QED BY <1>3, <2>2, <2>3
<1>4. \/ TaskFilters \/ UserFilters \/ Debounce \/ \E p \in Ids : PickPage(p)
      \/ vars' = vars \/ \E r \in flights : Serve(r)
      \/ ServeStats
      \/ \E r \in flights : Lose(r)
      \/ Tick \/ \E u \in People : Deactivate(u)
      \/ Elsewhere \/ \E i \in Ids : RunDeactivate(i)
  BY DEF Next
<1> QED BY <1>1, <1>2, <1>3, <1>4

\* The dashboard loses no task, whoever is deactivated between its statements,
\* and, if nothing is written meanwhile, counts as overdue what the list's
\* filter finds (prisma-task.repository.ts:109, 263).
THEOREM LinesAddUp == Spec => []StatsAddUp
<1>1. StatsInv => StatsAddUp
  BY DEF StatsInv, StatsAddUp
<1> QED BY InitStats, StatsInductive, <1>1, PTL DEF Spec

-----------------------------------------------------------------------------
(* Types: one request and one answer per key, and pages of Limit rows *)

\* No two rows of a set have the same rank.
LEMMA RanksDiffer ==
  ASSUME NEW S \in SUBSET Ids, NEW i \in S, NEW k \in S,
         Cardinality({j \in S : j >= i}) = Cardinality({j \in S : j >= k})
  PROVE  i = k
<1>1. Ids \subseteq Nat /\ IsFiniteSet(S)
  <2>1. IsFiniteSet(Ids)
    BY ListsAssumption, FS_Interval DEF Ids
  <2>2. Ids \subseteq Nat
    BY ListsAssumption DEF Ids
  <2>3. IsFiniteSet(S)
    BY <2>1, FS_Subset
  <2> QED BY <2>2, <2>3
<1>2. ASSUME NEW a \in S, NEW b \in S, a < b
      PROVE  Cardinality({j \in S : j >= a}) # Cardinality({j \in S : j >= b})
  <2> DEFINE From(n) == {j \in S : j >= n}
  <2>1. From(b) \subseteq From(a) /\ a \in From(a) /\ a \notin From(b)
    <3>1. a \in Nat /\ b \in Nat /\ \A j \in S : j \in Nat
      BY <1>1
    <3>2. \A j \in S : j >= b => j >= a
      BY <1>2, <3>1
    <3>3. a >= a /\ ~(a >= b)
      BY <1>2, <3>1
    <3> QED BY <3>2, <3>3
  <2>2. IsFiniteSet(From(a))
    BY <1>1, FS_Subset
  <2> QED BY <2>1, <2>2, FS_Subset
<1> QED BY <1>1, <1>2

\* A page has at most Limit rows.
LEMMA WindowSize ==
  ASSUME NEW S \in SUBSET Ids, NEW p \in Nat \ {0}, NEW now
  PROVE  Cardinality({Item(i, now) : i \in Window(S, p)}) <= Limit
<1> DEFINE W == Window(S, p)
           rank == [i \in W |-> Cardinality({j \in S : j >= i})]
           places == ((p - 1) * Limit + 1) .. (p * Limit)
           items == {Item(i, now) : i \in W}
           item == [i \in W |-> Item(i, now)]
<1>1. /\ p * Limit \in Nat /\ (p - 1) * Limit \in Nat /\ Limit \in Nat
      /\ (p - 1) * Limit = p * Limit - Limit
  BY ListsAssumption
<1>2. W \subseteq S
  BY DEF Window
<1>3. \A i \in S : Cardinality({j \in S : j >= i}) \in Nat
  <2>1. IsFiniteSet(Ids)
    BY ListsAssumption, FS_Interval DEF Ids
  <2>2. \A i \in S : IsFiniteSet({j \in S : j >= i})
    BY <2>1, FS_Subset
  <2> QED BY <2>2, FS_CardinalityType
<1>4. rank \in Injection(W, places)
  <2>1. \A i \in W : rank[i] \in places
    BY <1>1, <1>2, <1>3 DEF Window
  <2>2. \A i, k \in W : rank[i] = rank[k] => i = k
    BY <1>2, RanksDiffer
  <2> HIDE DEF rank, W, places
  <2>3. rank \in [W -> places]
    <3>1. DOMAIN rank = W /\ rank = [i \in W |-> rank[i]]
      BY DEF rank
    <3> QED BY <2>1, <3>1
  <2> QED BY <2>2, <2>3 DEF Injection, IsInjective
<1>5. IsFiniteSet(places) /\ Cardinality(places) = Limit
  <2> DEFINE hi == p * Limit
             lo == (p - 1) * Limit
  <2>1. hi \in Nat /\ lo \in Nat /\ lo = hi - Limit /\ Limit \in Nat
    BY <1>1
  <2> HIDE DEF hi, lo
  <2>2. IsFiniteSet((lo + 1) .. hi) /\ Cardinality((lo + 1) .. hi) = Limit
    <3>1. lo + 1 \in Int /\ hi \in Int
      BY <2>1
    <3>2. /\ IsFiniteSet((lo + 1) .. hi)
          /\ Cardinality((lo + 1) .. hi) = IF lo + 1 > hi THEN 0 ELSE hi - (lo + 1) + 1
      BY <3>1, FS_Interval
    <3> QED BY <2>1, <3>2
  <2> QED BY <2>2 DEF hi, lo
<1>6. IsFiniteSet(W) /\ Cardinality(W) <= Limit
  <2> HIDE DEF W, rank, places
  <2> QED BY <1>4, <1>5, FS_Injection
<1>7. item \in Surjection(W, items)
  BY DEF Surjection
<1>8. Cardinality(items) <= Cardinality(W) /\ Cardinality(items) \in Nat /\ Cardinality(W) \in Nat
  <2> HIDE DEF W, item, items
  <2> QED BY <1>6, <1>7, FS_Surjection, FS_CardinalityType
<1> HIDE DEF W, items
<1>9. Cardinality(items) <= Limit
  BY <1>1, <1>6, <1>8
<1> QED BY <1>9 DEF W, items

\* What the client asks for and keeps, per key.
OneOfEach ==
  /\ \A a, b \in cache : a.key = b.key => a = b
  /\ \A r, s \in flights : r.key = s.key => r = s

PagesKnown ==
  /\ page \in Ids
  /\ \A a \in cache : a.key.page \in Ids
  /\ \A k \in failed : k.page \in Ids
  /\ \A r \in flights : r.key.page \in Ids

PagesLimited ==
  /\ \A a \in cache : Cardinality(a.items) <= Limit
  /\ \A r \in flights : r.st = "read" => Cardinality(r.items) <= Limit

Tidy == OneOfEach /\ PagesKnown /\ PagesLimited

Counters == late \in BOOLEAN /\ moves \in 0 .. MaxMoves /\ events \in 0 .. MaxEvents

\* One request for the first page.
LEMMA InitTidy == Init => Tidy /\ Counters
<1> SUFFICES ASSUME Init PROVE Tidy /\ Counters
    OBVIOUS
<1>1. 1 \in Ids
  BY ListsAssumption DEF Ids
<1>2. \A r \in flights : r = Ask(Params(Unfiltered, "", 1))
  BY DEF Init
<1>3. Ask(Params(Unfiltered, "", 1)).key.page = 1 /\ Ask(Params(Unfiltered, "", 1)).st = "asked"
  BY DEF Ask, Key, Params
<1>4. Tidy
  BY <1>1, <1>2, <1>3 DEF Init, Tidy, OneOfEach, PagesKnown, PagesLimited
<1>5. late \in BOOLEAN
  BY DEF Init
<1>6. moves \in 0 .. MaxMoves /\ events \in 0 .. MaxEvents
  <2>1. MaxMoves \in Nat /\ MaxEvents \in Nat
    BY ListsAssumption
  <2>2. moves = 0 /\ events = 0
    BY DEF Init
  <2> QED BY <2>1, <2>2
<1> QED BY <1>4, <1>5, <1>6 DEF Counters

\* Only a key that is not under way is asked for.
LEMMA LookTidy ==
  ASSUME Tidy, NEW f, NEW q, NEW p \in Ids, Look(f, q, p)
  PROVE  Tidy'
<1> DEFINE new == Ask(Params(f, q, p))
<1>1. new.key = Key(Params(f, q, p)) /\ new.key.page = p /\ new.st = "asked"
  BY DEF Ask, Key, Params
<1> HIDE DEF new
<1>2. /\ page' = p /\ cache' = cache /\ failed' \subseteq failed
      /\ flights' = flights \/ (flights' = flights \cup {new} /\ \A r \in flights : r.key # new.key)
  BY <1>1 DEF Look, InFlight, new
<1> QED BY <1>1, <1>2 DEF Tidy, OneOfEach, PagesKnown, PagesLimited

\* The endpoints answer a request once, and with one page.
LEMMA ServeTidy ==
  ASSUME Inv, Tidy, NEW r \in flights, Serve(r)
  PROVE  Tidy'
<1>1. r.key = r.params /\ r.key.page \in Ids /\ r.key.page \in Nat \ {0}
  BY ListsAssumption DEF Inv, AnswersFit, Tidy, PagesKnown, Ids
<1>2. page' = page
  BY DEF Serve, Execute, FindMany, CountAndDeliver, controls
<1>3. ASSUME NEW s, s.key = r.key, s.st = "read" => Cardinality(s.items) <= Limit, To(r, s),
             UNCHANGED <<cache, failed>>
      PROVE  Tidy'
  BY <1>1, <1>2, <1>3 DEF To, Tidy, OneOfEach, PagesKnown, PagesLimited
<1>4. CASE Execute(r)
  <2> DEFINE s == [key |-> r.key, params |-> r.params, st |-> "begun", now |-> late]
  <2>1. s.key = r.key /\ s.st # "read"
    OBVIOUS
  <2> HIDE DEF s
  <2>2. To(r, s) /\ UNCHANGED <<cache, failed>>
    BY <1>4 DEF Execute, s
  <2> QED BY <1>3, <2>1, <2>2
<1>5. CASE FindMany(r)
  <2> DEFINE ids == Window(Where(r.params.f, r.now), r.params.page)
             s == [key |-> r.key, params |-> r.params, st |-> "read", now |-> r.now,
                   items |-> {Item(i, r.now) : i \in ids}]
  <2>1. Where(r.params.f, r.now) \in SUBSET Ids
    BY DEF Where
  <2>2. Cardinality({Item(i, r.now) : i \in ids}) <= Limit
    BY <1>1, <2>1, WindowSize
  <2>3. s.key = r.key /\ Cardinality(s.items) <= Limit
    BY <2>2
  <2>4. To(r, s) /\ UNCHANGED <<cache, failed>>
    BY <1>5 DEF FindMany
  <2> HIDE DEF s
  <2> QED BY <1>3, <2>3, <2>4
<1>6. CASE CountAndDeliver(r)
  <2> DEFINE a == [key |-> r.key, items |-> r.items, now |-> r.now,
                   total |-> Cardinality(Where(r.params.f, r.now))]
  <2>1. a.key = r.key /\ a.items = r.items
    OBVIOUS
  <2>2. /\ r.st = "read" /\ flights' \subseteq flights /\ failed' \subseteq failed
        /\ cache' = {b \in cache : b.key # r.key} \cup {a}
    BY <1>6 DEF CountAndDeliver
  <2> HIDE DEF a
  <2> QED BY <1>1, <1>2, <2>1, <2>2 DEF Tidy, OneOfEach, PagesKnown, PagesLimited
<1> QED BY <1>4, <1>5, <1>6 DEF Serve

\* The row's button asks again for what is shown, in place of what is under way.
LEMMA RefetchTidy ==
  ASSUME Tidy, NEW i, RunDeactivate(i)
  PROVE  Tidy'
<1> DEFINE new == Ask(Params(filters, search, page))
<1>1. new.key = Current /\ new.key.page = page /\ new.st = "asked"
  BY DEF Ask, Current, Key, Params
<1> HIDE DEF new
<1>2. UNCHANGED <<page, cache, failed>>
  BY DEF RunDeactivate, controls
<1>3. \/ flights' \subseteq flights
      \/ flights' \subseteq flights \cup {new} /\ \A r \in flights' : r # new => r.key # new.key
  BY <1>1 DEF RunDeactivate, InFlight, new
<1> QED BY <1>1, <1>2, <1>3 DEF Tidy, OneOfEach, PagesKnown, PagesLimited

\* Every step keeps the client's queries in order, and the bounds.
LEMMA TidyStep == Inv /\ Tidy /\ Counters /\ [Next]_vars => Tidy' /\ Counters'
<1> SUFFICES ASSUME Inv, Tidy, Counters, [Next]_vars PROVE Tidy' /\ Counters'
    OBVIOUS
<1>1. page \in Ids /\ 1 \in Ids
  BY ListsAssumption DEF Tidy, PagesKnown, Ids
<1>2. ASSUME NEW axis, NEW v, SetFilter(axis, v)
      PROVE  Tidy' /\ moves' \in 0 .. MaxMoves /\ UNCHANGED <<late, events>>
  <2>1. Tidy'
    BY <1>1, <1>2, LookTidy DEF SetFilter, PatchFilters
  <2> QED BY <1>2, <2>1, ListsAssumption DEF SetFilter, PatchFilters, Look, Move, Counters, table
<1>3. CASE TaskFilters \/ UserFilters
  BY <1>2, <1>3 DEF TaskFilters, UserFilters, Counters
<1>4. CASE Debounce
  <2>1. Tidy'
    BY <1>1, <1>4, LookTidy DEF Debounce
  <2> QED BY <1>4, <2>1 DEF Debounce, Look, Counters, table
<1>5. ASSUME NEW p \in Ids, PickPage(p) PROVE Tidy' /\ Counters'
  <2>1. Tidy'
    BY <1>5, LookTidy DEF PickPage
  <2> QED BY <1>5, <2>1, ListsAssumption DEF PickPage, Look, Move, Counters, table
<1>6. ASSUME NEW r \in flights, Serve(r) PROVE Tidy' /\ Counters'
  <2>1. UNCHANGED <<late, moves, events>>
    BY <1>6 DEF Serve, Execute, FindMany, CountAndDeliver, table
  <2> QED BY <1>6, <2>1, ServeTidy DEF Counters
<1>7. ASSUME NEW r \in flights, Lose(r) PROVE Tidy' /\ Counters'
  <2>1. /\ flights' \subseteq flights /\ failed' = failed \cup {r.key}
        /\ UNCHANGED <<page, cache, late, moves>> /\ events < MaxEvents /\ events' = events + 1
    BY <1>7 DEF Lose, Happen, table, controls
  <2>2. Tidy'
    BY <2>1 DEF Tidy, OneOfEach, PagesKnown, PagesLimited
  <2> QED BY <2>1, <2>2, ListsAssumption DEF Counters
<1>8. CASE ServeStats \/ vars' = vars
  <2>1. UNCHANGED <<page, cache, failed, flights, late, moves, events>>
    BY <1>8 DEF ServeStats, StatsBegin, StatsRead, StatsCompose, vars, table, controls, queries
  <2> QED BY <2>1 DEF Tidy, OneOfEach, PagesKnown, PagesLimited, Counters
<1>9. CASE Tick \/ Elsewhere \/ \E u \in People : Deactivate(u)
  <2>1. /\ UNCHANGED <<page, cache, failed, flights, moves>> /\ late' \in {late, TRUE}
        /\ events < MaxEvents /\ events' = events + 1
    BY <1>9 DEF Tick, Elsewhere, Deactivate, Happen, controls, queries
  <2>2. Tidy'
    BY <2>1 DEF Tidy, OneOfEach, PagesKnown, PagesLimited
  <2>3. late' \in BOOLEAN
    BY <2>1 DEF Counters
  <2>4. moves' \in 0 .. MaxMoves /\ events' \in 0 .. MaxEvents
    BY <2>1, ListsAssumption DEF Counters
  <2> QED BY <2>2, <2>3, <2>4 DEF Counters
<1>10. ASSUME NEW i \in Ids, RunDeactivate(i) PROVE Tidy' /\ Counters'
  <2>1. UNCHANGED <<late, moves>> /\ events < MaxEvents /\ events' = events + 1
    BY <1>10 DEF RunDeactivate, Happen
  <2> QED BY <1>10, <2>1, RefetchTidy, ListsAssumption DEF Counters
<1>11. \/ TaskFilters \/ UserFilters \/ Debounce
       \/ \E p \in Ids : PickPage(p)
       \/ \E r \in flights : Serve(r)
       \/ \E r \in flights : Lose(r)
       \/ ServeStats \/ vars' = vars
       \/ Tick \/ Elsewhere \/ \E u \in People : Deactivate(u)
       \/ \E i \in Ids : RunDeactivate(i)
  BY DEF Next
<1> QED BY <1>3, <1>4, <1>5, <1>6, <1>7, <1>8, <1>9, <1>10, <1>11

\* Types: a key is asked for once at a time and has one answer, and no page
\* is longer than the limit it was asked for with
\* (prisma-task.repository.ts:58, hooks.ts:16).
THEOREM TypeCorrect == Spec => []TypeOK
<1>1. Inv /\ StatsInv /\ Tidy /\ Counters => TypeOK
  <2> SUFFICES ASSUME Inv, StatsInv, Tidy, Counters PROVE TypeOK
      OBVIOUS
  <2>1. rows \in [Ids -> Tasks \cup Users \cup {Absent}]
    BY DEF StatsInv, RowsTyped
  <2>2. \A k \in Keys : k.page \in Ids
    BY DEF Keys, Tidy, PagesKnown
  <2> QED BY <2>1, <2>2
         DEF TypeOK, Inv, Controls, StatsInv, Tidy, OneOfEach, PagesKnown, PagesLimited, Counters
<1> QED BY InitSound, Inductive, InitStats, StatsInductive, InitTidy, TidyStep, <1>1, PTL DEF Spec
=============================================================================
