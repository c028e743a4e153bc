--------------------------- MODULE ListingProofs ----------------------------
(***************************************************************************)
(* Proofs about what a listing's own row promises.  Module Mehko: the      *)
(* caps of a day and of a week and the time a meal starts, for any number  *)
(* of hosts, listings and connections, any capacities, caps and clock.     *)
(* Module Geocode: the location, for any number of address changes,        *)
(* failures, crashes and workers.                                          *)
(***************************************************************************)
EXTENDS Mehko, Geocode, FiniteSetTheorems, TLAPS

-----------------------------------------------------------------------------
(* The clock.                                                              *)

LEMMA StartIs ==
    ASSUME NEW w \in Typed
    PROVE  /\ w \in Nat /\ w + Offset[w] \in DOMAIN Offset
           /\ WallClockToInstant(w) = w + Offset[w + Offset[w]]
           /\ WallClockToInstant(w) \in DOMAIN Offset /\ WallClockToInstant(w) \in Nat
           /\ \A s \in Nearby(w) : s \in Nat /\ Offset[s] \in Nat
  <1>1. /\ w \in DOMAIN Offset /\ w + Offset[w] \in DOMAIN Offset
        /\ w + Offset[w + Offset[w]] \in DOMAIN Offset
    BY MehkoAssumption DEF Nearby
  <1>2. \A s \in DOMAIN Offset : s \in Nat /\ Offset[s] \in Nat
    BY MehkoAssumption
  <1>. QED BY <1>1, <1>2 DEF WallClockToInstant, WallClock, Nearby

\* Two shifts find the instant at which the clock shows a time that exists.
LEMMA ShownAsTyped ==
    ASSUME NEW w \in Typed, Exists(w)
    PROVE  WallClock(WallClockToInstant(w)) = w
  <1>1. PICK change \in DOMAIN Offset, before \in Range(Offset), after \in Range(Offset) :
            /\ \A s \in Nearby(w) : Offset[s] = IF s < change THEN before ELSE after
            /\ w + before < change \/ w + after >= change
    BY DEF Exists
  <1>2. change \in Nat /\ before \in Nat /\ after \in Nat
    BY MehkoAssumption DEF Range
  <1>. DEFINE i == w + Offset[w]
              s == w + Offset[i]
  <1>3. /\ w \in Nat /\ i \in Nat /\ s \in Nat
        /\ Offset[w] = IF w < change THEN before ELSE after
        /\ Offset[i] = IF i < change THEN before ELSE after
        /\ Offset[s] = IF s < change THEN before ELSE after
    BY <1>1, StartIs DEF Nearby
  <1>4. Offset[s] = Offset[i]
    BY <1>1, <1>2, <1>3
  <1>5. WallClockToInstant(w) = s /\ Offset[i] \in Nat
    BY <1>3, <1>2, StartIs
  <1>. QED BY <1>3, <1>4, <1>5 DEF WallClock

LEMMA WallIsNat ==
    ASSUME NEW s \in Starts
    PROVE  Wall[s] = WallClock(s) /\ Wall[s] \in Nat
  <1>1. s \in DOMAIN Offset
    BY StartIs DEF Starts
  <1>. QED BY <1>1, MehkoAssumption DEF Wall, WallClock

\* Between two midnights there is one local date.
LEMMA OneDate ==
    ASSUME NEW s \in Starts, NEW r \in Starts, Wall[r] \in Midnight[s]..Midnight[s] + 24 - 1
    PROVE  LocalDate(r) = LocalDate(s)
  <1>. DEFINE m == Midnight[s]
  <1>1. /\ Wall[s] \in Nat /\ Wall[s] = WallClock(s)
        /\ Wall[r] \in Nat /\ Wall[r] = WallClock(r)
    BY WallIsNat
  <1>2. \E d \in Wall[s] - 23..Wall[s] : d % 24 = 0
    <2>1. Wall[s] - (Wall[s] % 24) \in Wall[s] - 23..Wall[s]
      BY <1>1
    <2>2. (Wall[s] - (Wall[s] % 24)) % 24 = 0
      BY <1>1
    <2>. QED BY <2>1, <2>2
  <1>3. m \in Wall[s] - 23..Wall[s] /\ m % 24 = 0
    BY <1>2 DEF Midnight
  <1>4. m \in Int /\ m <= Wall[s] /\ Wall[s] <= m + 23
    BY <1>1, <1>3
  <1>5. Wall[r] \div 24 = m \div 24 /\ Wall[s] \div 24 = m \div 24
    BY <1>1, <1>3, <1>4
  <1>. QED BY <1>1, <1>5 DEF LocalDate

-----------------------------------------------------------------------------
(* Sums.                                                                   *)

\* Induction over a finite set: a family of its subsets has a smallest member.
LEMMA SmallestSubset ==
    ASSUME NEW S, IsFiniteSet(S), NEW T, T \subseteq SUBSET S, T # {}
    PROVE  \E x \in T : \A y \in T : y \subseteq x => y = x
  <1>1. IsWellFoundedOn(StrictSubsetOrdering(S), SUBSET S)
    BY FS_StrictSubsetOrderingWellFounded, FS_FiniteSubsetsOfFinite
  <1>2. PICK x \in T : \A y \in T : ~(<<y, x>> \in StrictSubsetOrdering(S))
    BY <1>1, WFMin
  <1>. QED BY <1>2 DEF StrictSubsetOrdering

\* As many pairs <<i, k>> as f gives to the elements i of s: a sum is a number of pairs.
Units(f, s) == UNION {{i} \X (1..f[i]) : i \in s}
Total(f, s) == Cardinality(Units(f, s))

\* Taking an element out of the set takes out its pairs.
LEMMA UnitsOfRest ==
    ASSUME NEW f, NEW s, NEW i \in s
    PROVE  /\ Units(f, s) = Units(f, s \ {i}) \cup ({i} \X (1..f[i]))
           /\ Units(f, s \ {i}) \cap ({i} \X (1..f[i])) = {}
  BY DEF Units

\* The empty sum.
LEMMA UnitsOfNone == ASSUME NEW f PROVE Units(f, {}) = {} /\ Total(f, {}) = 0
  BY FS_EmptySet DEF Units, Total

\* Finitely many numbers have a sum: a smallest set without one would have one more element
\* than a set that has it.
LEMMA UnitsFinite ==
    ASSUME NEW s, IsFiniteSet(s), NEW f, \A i \in s : f[i] \in Nat
    PROVE  IsFiniteSet(Units(f, s)) /\ Total(f, s) \in Nat
  <1>. DEFINE T == {x \in SUBSET s : ~IsFiniteSet(Units(f, x))}
  <1>1. ASSUME T # {} PROVE FALSE
    <2>0. T \subseteq SUBSET s
      OBVIOUS
    <2>. HIDE DEF T
    <2>1. PICK x \in T : \A y \in T : y \subseteq x => y = x
      BY <1>1, <2>0, SmallestSubset
    <2>. USE DEF T
    <2>2. PICK i \in x : f[i] \in Nat
      BY <2>1, UnitsOfNone, FS_EmptySet
    <2>3. IsFiniteSet(Units(f, x \ {i}))
      BY <2>1, <2>2
    <2>4. IsFiniteSet({i} \X (1..f[i]))
      <3>1. IsFiniteSet({i})
        BY FS_Singleton
      <3>2. IsFiniteSet(1..f[i])
        BY <2>2, FS_Interval
      <3>. QED BY <3>1, <3>2, FS_Product
    <2>5. Units(f, x) = Units(f, x \ {i}) \cup ({i} \X (1..f[i]))
      BY <2>2, UnitsOfRest
    <2>6. IsFiniteSet(Units(f, x \ {i}) \cup ({i} \X (1..f[i])))
      BY ONLY <2>3, <2>4, FS_Union
    <2>. QED BY <2>1, <2>5, <2>6
  <1>2. IsFiniteSet(Units(f, s))
    BY <1>1
  <1>. QED BY <1>2, FS_CardinalityType DEF Total

\* A sum is an element's number and the sum of the rest.
LEMMA TotalOfRest ==
    ASSUME NEW s, IsFiniteSet(s), NEW f, \A i \in s : f[i] \in Nat, NEW i \in s
    PROVE  Total(f, s) = f[i] + Total(f, s \ {i})
  <1>. DEFINE a == Units(f, s \ {i})
              b == {i} \X (1..f[i])
  <1>1. IsFiniteSet(s \ {i}) /\ f[i] \in Nat
    BY FS_RemoveElement
  <1>2. IsFiniteSet(a) /\ Cardinality(a) \in Nat
    BY <1>1, UnitsFinite DEF Total
  <1>3. IsFiniteSet(b) /\ Cardinality(b) = f[i]
    <2>1. IsFiniteSet({i}) /\ Cardinality({i}) = 1
      BY FS_Singleton
    <2>2. IsFiniteSet(1..f[i]) /\ Cardinality(1..f[i]) = f[i]
      <3>. DEFINE n == f[i]
      <3>1. n \in Nat
        BY <1>1
      <3>. HIDE DEF n
      <3>2. IsFiniteSet(1..n) /\ Cardinality(1..n) = IF 1 > n THEN 0 ELSE n - 1 + 1
        BY <3>1, FS_Interval
      <3>3. (IF 1 > n THEN 0 ELSE n - 1 + 1) = n
        BY <3>1
      <3>. QED BY <3>2, <3>3 DEF n
    <2>3. IsFiniteSet(b) /\ Cardinality(b) = 1 * f[i]
      BY <2>1, <2>2, FS_Product
    <2>. QED BY <1>1, <2>3
  <1>4. Units(f, s) = a \cup b /\ a \cap b = {}
    BY UnitsOfRest
  <1>. HIDE DEF a, b
  <1>5. Cardinality(a \cup b) = Cardinality(a) + Cardinality(b) - Cardinality(a \cap b)
    BY <1>2, <1>3, FS_Union
  <1>6. Total(f, s) = Cardinality(a \cup b) /\ Total(f, s \ {i}) = Cardinality(a)
    BY <1>4 DEF Total, a
  <1>7. Cardinality(a \cap b) = 0
    BY <1>4, FS_EmptySet
  <1>. QED BY <1>1, <1>2, <1>3, <1>5, <1>6, <1>7

\* A part of the set sums up to no more.
LEMMA TotalGrows ==
    ASSUME NEW s, IsFiniteSet(s), NEW f, \A i \in s : f[i] \in Nat,
           NEW r \in SUBSET s, NEW g, \A i \in r : g[i] = f[i]
    PROVE  Total(g, r) \in Nat /\ Total(g, r) <= Total(f, s)
  <1>1. Units(g, r) \subseteq Units(f, s)
    BY DEF Units
  <1>2. IsFiniteSet(Units(f, s))
    BY UnitsFinite
  <1>. QED BY <1>1, <1>2, FS_Subset, FS_CardinalityType DEF Total

\* Numbers of at most m sum up to at most m for each.
LEMMA TotalBounded ==
    ASSUME NEW s, IsFiniteSet(s), NEW m \in Nat, NEW f, \A i \in s : f[i] \in Nat /\ f[i] <= m
    PROVE  Total(f, s) <= Cardinality(s) * m
  <1>1. Units(f, s) \subseteq s \X (1..m)
    BY DEF Units
  <1>2. IsFiniteSet(1..m) /\ Cardinality(1..m) = m
    BY FS_Interval
  <1>3. IsFiniteSet(s \X (1..m)) /\ Cardinality(s \X (1..m)) = Cardinality(s) * m
    BY <1>2, FS_Product
  <1>. QED BY <1>1, <1>3, FS_Subset DEF Total

\* The sum over the listings, in whatever order they are chosen.
LEMMA MealsAreUnits ==
    ASSUME NEW ids, IsFiniteSet(ids), NEW f, \A i \in ids : f[i] = meal[i].cap /\ f[i] \in Nat
    PROVE  Meals(ids) = Total(f, ids)
  <1>. DEFINE any(s) == CHOOSE x \in s : TRUE
              Sums(g) == g = [s \in SUBSET ids |->
                                IF s = {} THEN 0 ELSE meal[any(s)].cap + g[s \ {any(s)}]]
              sum == CHOOSE g : Sums(g)
              total == [s \in SUBSET ids |-> Total(f, s)]
  <1>1. Meals(ids) = sum[ids]
    BY DEF Meals, MapThenSumSet, MapThenFoldSet
  <1>2. ASSUME NEW s \in SUBSET ids, s # {}
        PROVE  any(s) \in s /\ Total(f, s) = meal[any(s)].cap + Total(f, s \ {any(s)})
    <2>1. any(s) \in s
      BY <1>2
    <2>2. IsFiniteSet(s)
      BY FS_Subset
    <2>. HIDE DEF any
    <2>. QED BY <2>1, <2>2, TotalOfRest
  <1>3. Sums(total)
    <2>1. ASSUME NEW s \in SUBSET ids
          PROVE  total[s] = IF s = {} THEN 0 ELSE meal[any(s)].cap + total[s \ {any(s)}]
      <3>1. s \ {any(s)} \in SUBSET ids
        OBVIOUS
      <3>. HIDE DEF any
      <3>. QED BY <1>2, <3>1, UnitsOfNone
    <2>. HIDE DEF any
    <2>. QED BY <2>1
  <1>4. Sums(sum)
    BY <1>3
  <1>. HIDE DEF sum, any
  <1>. DEFINE T == {s \in SUBSET ids : sum[s] # Total(f, s)}
  <1>5. ASSUME T # {} PROVE FALSE
    <2>0. T \subseteq SUBSET ids
      OBVIOUS
    <2>. HIDE DEF T
    <2>1. PICK x \in T : \A y \in T : y \subseteq x => y = x
      BY <1>5, <2>0, SmallestSubset
    <2>. USE DEF T
    <2>2. x # {}
      BY <1>4, <2>1, UnitsOfNone
    <2>3. any(x) \in x /\ Total(f, x) = meal[any(x)].cap + Total(f, x \ {any(x)})
      BY <1>2, <2>1, <2>2
    <2>4. sum[x] = meal[any(x)].cap + sum[x \ {any(x)}]
      BY <1>4, <2>1, <2>2
    <2>5. sum[x \ {any(x)}] = Total(f, x \ {any(x)})
      BY <2>1, <2>3
    <2>. QED BY <2>1, <2>3, <2>4, <2>5
  <1>. QED BY <1>1, <1>5

\* The meals of no listing and of one.
LEMMA MealsOfNone == Meals({}) = 0
  BY MealsAreUnits, UnitsOfNone, FS_EmptySet

LEMMA MealsOfOne ==
    ASSUME NEW i, meal[i].cap \in Nat
    PROVE  Meals({i}) = meal[i].cap
  <1>. DEFINE f == [x \in {i} |-> meal[x].cap]
  <1>1. f[i] = meal[i].cap /\ IsFiniteSet({i}) /\ {i} \ {i} = {}
    BY FS_Singleton
  <1>. HIDE DEF f
  <1>2. Meals({i}) = Total(f, {i})
    BY <1>1, MealsAreUnits
  <1>3. Total(f, {i}) = f[i] + Total(f, {i} \ {i})
    BY <1>1, TotalOfRest
  <1>. QED BY <1>1, <1>2, <1>3, UnitsOfNone

-----------------------------------------------------------------------------
(* The inductive invariant.                                                *)

Active(i) == meal[i].status = "active"

\* What the unique index keeps: a host has one live listing on a local date.
OnePerDay ==
    \A i, j \in Ids :
        Active(i) /\ Active(j) /\ meal[i].host = meal[j].host
                  /\ LocalDate(meal[i].start) = LocalDate(meal[j].start)
            => i = j

\* What the checks keep: a listing that is written, or about to be, is within a day's meals.
WithinDay ==
    /\ \A i \in Ids : Active(i) => meal[i].cap <= MaxMealsPerDay
    /\ \A t \in Txns : txn[t] # Idle /\ txn[t].at \in {"create.write", "update.write"}
                         => txn[t].cap <= MaxMealsPerDay

\* The start is the instant of the time typed, on the way to the table and in it.
StartOfTyped ==
    /\ \A i \in Ids : meal[i] # Unused => meal[i].start = WallClockToInstant(meal[i].typed)
    /\ \A t \in Txns : txn[t] # Idle => txn[t].start = WallClockToInstant(txn[t].typed)

\* The inductive invariant of the caps.
CapsInv == TypeOK /\ OnePerDay /\ WithinDay /\ StartOfTyped

-----------------------------------------------------------------------------
(* The check.                                                              *)

\* A passed check has seen no other live listing on the day, so the listing's own meals
\* are within the day's.
LEMMA PassedCheck ==
    ASSUME TypeOK, NEW h \in Hosts, NEW s \in Starts, NEW cap \in Capacities, NEW excluded,
           WithinCaps(h, s, cap, excluded)
    PROVE  cap <= MaxMealsPerDay
  <1>. DEFINE others == OnDay(h, LocalDate(s)) \ excluded
  <1>1. others \in SUBSET Ids
    BY DEF OnDay, Live
  <1>2. IsFiniteSet(others)
    BY <1>1, FS_Subset, MehkoAssumption
  <1>3. Cardinality(others) < 1 /\ Meals(others) + cap <= MaxMealsPerDay
    BY MehkoAssumption DEF WithinCaps
  <1>. HIDE DEF others
  <1>4. Cardinality(others) = 0
    BY <1>2, <1>3, FS_CardinalityType
  <1>5. others = {}
    BY <1>2, <1>4, FS_EmptySet
  <1>. QED BY <1>3, <1>5, MealsOfNone, MehkoAssumption

-----------------------------------------------------------------------------
(* The steps.                                                              *)

\* A step of a connection that writes nothing to the table.
LEMMA QuietStep ==
    ASSUME CapsInv, NEW t \in Txns, NEW r \in TxnRow \cup {Idle},
           txn' = [txn EXCEPT ![t] = r], meal' = meal, requests' \in Nat,
           r # Idle => /\ r.start = WallClockToInstant(r.typed)
                       /\ r.at \in {"create.write", "update.write"} => r.cap <= MaxMealsPerDay
                       /\ r.at \in {"update.check", "update.write"} => Active(r.id)
    PROVE  CapsInv'
  <1>1. \A u \in Txns : txn'[u] = IF u = t THEN r ELSE txn[u]
    BY DEF CapsInv, TypeOK
  <1>2. TypeOK'
    BY <1>1 DEF CapsInv, TypeOK, Active
  <1>3. OnePerDay' /\ WithinDay' /\ StartOfTyped'
    BY <1>1 DEF CapsInv, OnePerDay, WithinDay, StartOfTyped, Active
  <1>. QED BY <1>2, <1>3 DEF CapsInv

LEMMA RefuseKeeps ==
    ASSUME CapsInv, NEW t \in Txns, Refuse(t)
    PROVE  CapsInv'
  BY QuietStep DEF Refuse, CapsInv, TypeOK

LEMMA StartKeeps ==
    ASSUME CapsInv, NEW t \in Txns, NEW step \in {"create.check", "update.lock"}, NEW i \in Ids,
           NEW h \in Hosts, NEW w \in Typed, NEW cap \in Capacities, Start(t, step, i, h, w, cap)
    PROVE  CapsInv'
  <1>. DEFINE r == [at |-> step, id |-> i, host |-> h, cap |-> cap, typed |-> w,
                    start |-> WallClockToInstant(w)]
  <1>1. r \in TxnRow /\ r.at = step /\ r.start = WallClockToInstant(r.typed)
    BY DEF TxnRow, Starts
  <1>2. txn' = [txn EXCEPT ![t] = r] /\ meal' = meal /\ requests' = requests + 1
    BY DEF Start
  <1>. HIDE DEF r
  <1>3. requests' \in Nat
    BY <1>2 DEF CapsInv, TypeOK
  <1>. QED BY <1>1, <1>2, <1>3, QuietStep

LEMMA GotoKeeps ==
    ASSUME CapsInv, NEW t \in Txns, txn[t] # Idle,
           NEW step \in {"create.write", "update.check", "update.write"}, Goto(t, step),
           step \in {"create.write", "update.write"} => txn[t].cap <= MaxMealsPerDay,
           step \in {"update.check", "update.write"} => Active(txn[t].id)
    PROVE  CapsInv'
  <1>1. PICK q \in TxnRow : q = txn[t]
    BY DEF CapsInv, TypeOK
  <1>. DEFINE r == [q EXCEPT !.at = step]
  <1>2. /\ r \in TxnRow /\ r.at = step /\ r.start = q.start /\ r.typed = q.typed
        /\ r.cap = q.cap /\ r.id = q.id
    BY DEF TxnRow
  <1>3. txn' = [txn EXCEPT ![t] = r] /\ meal' = meal /\ requests' = requests
    BY <1>1 DEF Goto
  <1>. HIDE DEF r
  <1>4. q.start = WallClockToInstant(q.typed)
    BY <1>1 DEF CapsInv, StartOfTyped
  <1>. QED BY <1>1, <1>2, <1>3, <1>4, QuietStep DEF CapsInv, TypeOK

\* The row is written only when the unique index has no other on the day.
LEMMA WriteKeeps ==
    ASSUME CapsInv, NEW t \in Txns, txn[t] # Idle, txn[t].at \in {"create.write", "update.write"},
           Write(t)
    PROVE  CapsInv'
  <1>1. PICK r \in TxnRow : r = txn[t]
    BY DEF CapsInv, TypeOK
  <1>2. CASE Refuse(t)
    BY <1>2, RefuseKeeps
  <1>3. CASE ~Refuse(t)
    <2>. DEFINE m == [status |-> "active", host |-> r.host, start |-> r.start,
                      typed |-> r.typed, cap |-> r.cap]
    <2>1. /\ m \in MealRow /\ m # Unused /\ m.status = "active" /\ m.host = r.host
          /\ m.start = r.start /\ m.typed = r.typed /\ m.cap = r.cap
      BY DEF MealRow, TxnRow, Unused
    <2>2. /\ IndexAllows(r.id, r.host, r.start)
          /\ meal' = [meal EXCEPT ![r.id] = m]
          /\ txn' = [txn EXCEPT ![t] = Idle] /\ requests' = requests
      BY <1>1, <1>3 DEF Write
    <2>. HIDE DEF m
    <2>3. r.id \in Ids /\ r.cap <= MaxMealsPerDay /\ r.start = WallClockToInstant(r.typed)
      BY <1>1 DEF TxnRow, CapsInv, WithinDay, StartOfTyped
    <2>4. /\ \A i \in Ids : meal'[i] = IF i = r.id THEN m ELSE meal[i]
          /\ \A u \in Txns : txn'[u] = IF u = t THEN Idle ELSE txn[u]
      BY <2>2 DEF CapsInv, TypeOK
    <2>5. TypeOK'
      <3>1. meal' \in [Ids -> MealRow \cup {Unused}] /\ txn' \in [Txns -> TxnRow \cup {Idle}]
            /\ requests' \in Nat
        BY <2>1, <2>2 DEF CapsInv, TypeOK
      <3>2. \A u \in Txns : txn[u] # Idle /\ txn[u].at \in {"update.check", "update.write"}
                             => txn[u].id \in Ids /\ meal[txn[u].id].status = "active"
        BY DEF CapsInv, TypeOK, TxnRow
      <3>3. \A u \in Txns : txn'[u] # Idle /\ txn'[u].at \in {"update.check", "update.write"}
                             => meal'[txn'[u].id].status = "active"
        BY <2>1, <2>4, <3>2
      <3>. QED BY <3>1, <3>3 DEF TypeOK
    <2>6. OnePerDay'
      <3>1. \A j \in Ids : Active(j) /\ meal[j].host = r.host
                              /\ LocalDate(meal[j].start) = LocalDate(r.start) => j = r.id
        BY <2>2 DEF IndexAllows, OnDay, Live, Active
      <3>. QED BY <2>1, <2>4, <3>1 DEF CapsInv, OnePerDay, Active
    <2>7. WithinDay' /\ StartOfTyped'
      BY <2>1, <2>3, <2>4 DEF CapsInv, WithinDay, StartOfTyped, Active
    <2>. QED BY <2>5, <2>6, <2>7 DEF CapsInv
  <1>. QED BY <1>2, <1>3

LEMMA CancelKeeps ==
    ASSUME CapsInv, NEW i \in Ids, CancelListing(i)
    PROVE  CapsInv'
  <1>1. PICK q \in MealRow \cup {Unused} : q = meal[i]
    BY DEF CapsInv, TypeOK
  <1>2. q \in MealRow
    BY <1>1 DEF CancelListing, Unused
  <1>. DEFINE m == [q EXCEPT !.status = "cancelled"]
  <1>3. m \in MealRow /\ m.status = "cancelled" /\ m.start = q.start /\ m.typed = q.typed
    BY <1>2 DEF MealRow
  <1>4. /\ meal' = [meal EXCEPT ![i] = m] /\ UNCHANGED <<txn, requests>>
        /\ ~Locked(i) /\ q # Unused
    BY <1>1 DEF CancelListing, Unused
  <1>. HIDE DEF m
  <1>5. \A j \in Ids : meal'[j] = IF j = i THEN m ELSE meal[j]
    BY <1>4 DEF CapsInv, TypeOK
  <1>6. TypeOK'
    <2>1. meal' \in [Ids -> MealRow \cup {Unused}]
      BY <1>3, <1>4 DEF CapsInv, TypeOK
    <2>2. \A t \in Txns : txn[t] # Idle /\ txn[t].at \in {"update.check", "update.write"}
                           => txn[t].id # i /\ txn[t].id \in Ids
      BY <1>4 DEF Locked, CapsInv, TypeOK, TxnRow
    <2>. QED BY <1>4, <1>5, <2>1, <2>2 DEF CapsInv, TypeOK
  <1>7. OnePerDay' /\ WithinDay' /\ StartOfTyped'
    BY <1>1, <1>3, <1>4, <1>5 DEF CapsInv, OnePerDay, WithinDay, StartOfTyped, Active
  <1>. QED BY <1>6, <1>7 DEF CapsInv

LEMMA NextKeeps ==
    ASSUME CapsInv, [Next]_mvars
    PROVE  CapsInv'
  <1>1. ASSUME NEW t \in Txns, NEW i \in Ids, NEW w \in Typed, NEW cap \in Capacities,
               BeginUpdate(t, i, w, cap)
        PROVE  CapsInv'
    <2>1. meal[i].host \in Hosts
      BY <1>1 DEF BeginUpdate, CapsInv, TypeOK, MealRow
    <2>. QED BY <1>1, <2>1, StartKeeps DEF BeginUpdate
  <1>2. ASSUME NEW t \in Txns, NEW i \in Ids, NEW w \in Typed, NEW cap \in Capacities,
               NEW h \in Hosts, BeginCreate(t, i, h, w, cap)
        PROVE  CapsInv'
    BY <1>2, StartKeeps DEF BeginCreate
  <1>3. ASSUME NEW t \in Txns, CreateCheck(t) \/ UpdateCheck(t) PROVE CapsInv'
    <2>1. txn[t] # Idle /\ txn[t] \in TxnRow
      BY <1>3 DEF CreateCheck, UpdateCheck, CapsInv, TypeOK
    <2>2. txn[t].host \in Hosts /\ txn[t].start \in Starts /\ txn[t].cap \in Capacities
      BY <2>1 DEF TxnRow
    <2>3. CASE Refuse(t)
      BY <2>3, RefuseKeeps
    <2>4. CASE CreateCheck(t) /\ ~Refuse(t)
      <3>1. Goto(t, "create.write") /\ txn[t].cap <= MaxMealsPerDay
        BY <2>2, <2>4, PassedCheck DEF CreateCheck, CapsInv
      <3>. QED BY <2>1, <3>1, GotoKeeps
    <2>5. CASE UpdateCheck(t) /\ ~Refuse(t)
      <3>1. Goto(t, "update.write") /\ txn[t].cap <= MaxMealsPerDay /\ txn[t].at = "update.check"
        BY <2>2, <2>5, PassedCheck DEF UpdateCheck, CapsInv
      <3>2. Active(txn[t].id)
        BY <2>1, <3>1 DEF CapsInv, TypeOK, Active
      <3>. QED BY <2>1, <3>1, <3>2, GotoKeeps
    <2>. QED BY <1>3, <2>3, <2>4, <2>5
  <1>4. ASSUME NEW t \in Txns, UpdateLock(t) PROVE CapsInv'
    <2>1. CASE Refuse(t)
      BY <2>1, RefuseKeeps
    <2>2. CASE ~Refuse(t)
      <3>1. txn[t] # Idle /\ Goto(t, "update.check") /\ Active(txn[t].id)
        BY <1>4, <2>2 DEF UpdateLock, Active
      <3>. QED BY <3>1, GotoKeeps
    <2>. QED BY <2>1, <2>2
  <1>5. ASSUME NEW t \in Txns, CreateWrite(t) \/ UpdateWrite(t) PROVE CapsInv'
    BY <1>5, WriteKeeps DEF CreateWrite, UpdateWrite
  <1>6. CASE UNCHANGED mvars
    BY <1>6 DEF mvars, CapsInv, TypeOK, OnePerDay, WithinDay, StartOfTyped, Active
  <1>. QED BY <1>1, <1>2, <1>3, <1>4, <1>5, <1>6, RefuseKeeps, CancelKeeps DEF Next, Rollback

-----------------------------------------------------------------------------
(* Theorems.                                                               *)

\* The unique index backs the unserialised check: however the transactions interleave,
\* a host has one live listing on a local date, no larger than the daily cap, its start
\* is the instant of the time typed, and nothing revives a cancelled one.
THEOREM CapsInvariance == Spec => []CapsInv
  <1>1. Init => CapsInv
    BY DEF Init, CapsInv, TypeOK, OnePerDay, WithinDay, StartOfTyped, Active, Unused
  <1>2. CapsInv /\ [Next]_mvars => CapsInv'
    BY NextKeeps
  <1>. QED BY <1>1, <1>2, PTL DEF Spec

\* FR-11, AB-03, AB-07: between two midnights on the wall clock of the operating timezone
\* a host has no more live listings, and they offer no more meals, than a day allows.
THEOREM DayWithinCaps == Spec => []DailyCaps
  <1>1. CapsInv => DailyCaps
    <2>. SUFFICES ASSUME CapsInv, NEW h \in Hosts, NEW s \in Starts
                  PROVE  /\ Cardinality(Within(h, Midnight[s], 24)) <= ListingsPerDay
                         /\ Meals(Within(h, Midnight[s], 24)) <= MaxMealsPerDay
      BY DEF DailyCaps
    <2>. DEFINE today == Within(h, Midnight[s], 24)
    <2>1. \A i \in today : /\ i \in Ids /\ Active(i) /\ meal[i].host = h
                           /\ meal[i].start \in Starts /\ meal[i].cap \in Capacities
                           /\ LocalDate(meal[i].start) = LocalDate(s)
      <3>. SUFFICES ASSUME NEW i \in today
                    PROVE  /\ i \in Ids /\ Active(i) /\ meal[i].host = h
                           /\ meal[i].start \in Starts /\ meal[i].cap \in Capacities
                           /\ LocalDate(meal[i].start) = LocalDate(s)
        OBVIOUS
      <3>1. /\ i \in Ids /\ Active(i) /\ meal[i].host = h
            /\ Wall[meal[i].start] \in Midnight[s]..Midnight[s] + 24 - 1
        BY DEF Within, Live, Active
      <3>2. meal[i] \in MealRow
        BY <3>1 DEF CapsInv, TypeOK, Active, Unused
      <3>. QED BY <3>1, <3>2, OneDate DEF MealRow
    <2>. HIDE DEF today
    <2>2. CASE today = {}
      BY <2>2, FS_EmptySet, MealsOfNone, MehkoAssumption DEF today
    <2>3. CASE today # {}
      <3>1. PICK i \in today : TRUE
        BY <2>3
      <3>2. today = {i}
        BY <2>1, <3>1 DEF CapsInv, OnePerDay
      <3>3. meal[i].cap \in Nat /\ meal[i].cap <= MaxMealsPerDay
        BY <2>1, <3>1, MehkoAssumption DEF CapsInv, WithinDay
      <3>4. Cardinality(today) = 1 /\ Meals(today) = meal[i].cap
        BY <3>2, <3>3, FS_Singleton, MealsOfOne
      <3>. QED BY <3>3, <3>4, MehkoAssumption DEF today
    <2>. QED BY <2>2, <2>3
  <1>. QED BY <1>1, CapsInvariance, PTL

\* SRS 2.1.7: when every time typed exists on the clock, every meal, created or moved,
\* starts when the clock shows the time its host typed.
THEOREM MealsStartAsTyped ==
    ASSUME \A w \in Typed : Exists(w)
    PROVE  Spec => []StartsAsTyped
  <1>1. CapsInv => StartsAsTyped
    <2>. SUFFICES ASSUME CapsInv, NEW i \in Ids, meal[i] # Unused
                  PROVE  WallClock(meal[i].start) = meal[i].typed
      BY DEF StartsAsTyped
    <2>1. meal[i].typed \in Typed /\ meal[i].start = WallClockToInstant(meal[i].typed)
      BY DEF CapsInv, TypeOK, MealRow, StartOfTyped
    <2>. QED BY <2>1, ShownAsTyped
  <1>. QED BY <1>1, CapsInvariance, PTL

-----------------------------------------------------------------------------
(* The week.                                                               *)

\* The capacities of the listings, and those the transactions are about to write.
Caps == [i \in Ids |-> meal[i].cap]
Asks == [t \in Txns |-> txn[t].cap]

\* The local dates on which a meal may start.
Dates == {LocalDate(s) : s \in Starts}

\* The transactions that passed the check for a day of the week of d.
Writing(h, d) ==
    {t \in Txns : /\ txn[t] # Idle /\ txn[t].at \in {"create.write", "update.write"}
                  /\ txn[t].host = h
                  /\ LocalDate(txn[t].start) \in WeekStart(d)..WeekStart(d) + 6}

\* The listings that the transactions of Q write, and those of the week that they leave.
Replaced(Q) == {txn[t].id : t \in Q}
Kept(h, d, Q) == InWeek(h, d) \ Replaced(Q)

\* The meals of the week when those of Q commit and the other transactions do not.
AfterCommits(h, d, Q) == Total(Caps, Kept(h, d, Q)) + Total(Asks, Q)

\* The cap, and a day's meals for each connection but one.
WeekLimit == MaxMealsPerWeek + (Cardinality(Txns) - 1) * MaxMealsPerDay

\* Whichever of the transactions that passed the check commit, the week is within its limit.
WeekBounded ==
    \A h \in Hosts, d \in Dates : \A Q \in SUBSET Writing(h, d) : AfterCommits(h, d, Q) <= WeekLimit

\* The week of a date is that of every date in it.
LEMMA SameWeek ==
    ASSUME NEW d \in Nat, NEW e \in Nat, e \in WeekStart(d)..WeekStart(d) + 6
    PROVE  WeekStart(e) = WeekStart(d)
  BY DEF WeekStart, SinceMonday, DayOfWeek

\* Dates and the Mondays before them are numbers.
LEMMA DateIsNat ==
    ASSUME NEW s \in Starts
    PROVE  LocalDate(s) \in Nat
  BY WallIsNat DEF LocalDate

\* Between two Monday midnights there is one calendar week.
LEMMA OneWeek ==
    ASSUME NEW s \in Starts, NEW r \in Starts, Wall[r] \in Monday[s]..Monday[s] + 7 * 24 - 1
    PROVE  LocalDate(r) \in WeekStart(LocalDate(s))..WeekStart(LocalDate(s)) + 6
  <1>. DEFINE m == Monday[s]
  <1>1. /\ Wall[s] \in Nat /\ Wall[s] = WallClock(s)
        /\ Wall[r] \in Nat /\ Wall[r] = WallClock(r)
    BY WallIsNat
  <1>2. \E x \in Wall[s] - 167..Wall[s] : x % 168 = 96
    <2>1. Wall[s] - ((Wall[s] + 72) % 168) \in Wall[s] - 167..Wall[s]
      BY <1>1
    <2>2. (Wall[s] - ((Wall[s] + 72) % 168)) % 168 = 96
      BY <1>1
    <2>. QED BY <2>1, <2>2
  <1>3. m \in Wall[s] - 167..Wall[s] /\ m % 168 = 96
    BY <1>2 DEF Monday
  <1>4. m \in Int /\ m <= Wall[s] /\ Wall[s] <= m + 167 /\ m <= Wall[r] /\ Wall[r] <= m + 167
    BY <1>1, <1>3
  <1>. HIDE DEF m
  <1>5. PICK k \in Int : m = 168 * k + 96
    BY <1>3, <1>4
  <1>6. /\ Wall[s] \div 24 \in 7 * k + 4..7 * k + 10
        /\ Wall[r] \div 24 \in 7 * k + 4..7 * k + 10
    BY <1>1, <1>4, <1>5
  <1>7. WeekStart(Wall[s] \div 24) = 7 * k + 4
    BY <1>6 DEF WeekStart, SinceMonday, DayOfWeek
  <1>. QED BY <1>1, <1>6, <1>7 DEF LocalDate

\* What is summed up are numbers, finitely many, and a transaction asks for no more than a
\* day's meals.
LEMMA WeekNumbers ==
    ASSUME CapsInv, NEW h \in Hosts, NEW d, NEW Q \in SUBSET Writing(h, d)
    PROVE  /\ IsFiniteSet(Kept(h, d, Q)) /\ Kept(h, d, Q) \subseteq InWeek(h, d)
           /\ \A i \in InWeek(h, d) : i \in Ids /\ Caps[i] = meal[i].cap /\ Caps[i] \in Nat
           /\ IsFiniteSet(Q)
           /\ \A t \in Q : t \in Txns /\ Asks[t] = txn[t].cap
                           /\ Asks[t] \in Nat /\ Asks[t] <= MaxMealsPerDay
           /\ Total(Caps, Kept(h, d, Q)) \in Nat /\ Total(Asks, Q) \in Nat
           /\ MaxMealsPerDay \in Nat /\ MaxMealsPerWeek \in Nat
           /\ Cardinality(Txns) \in Nat /\ Cardinality(Txns) >= 1 /\ WeekLimit \in Nat
  <1>1. \A i \in InWeek(h, d) : i \in Ids /\ Caps[i] = meal[i].cap /\ Caps[i] \in Nat
    <2>. SUFFICES ASSUME NEW i \in InWeek(h, d)
                  PROVE  i \in Ids /\ Caps[i] = meal[i].cap /\ Caps[i] \in Nat
      OBVIOUS
    <2>1. i \in Ids /\ meal[i].status = "active"
      BY DEF InWeek, Live
    <2>2. meal[i] \in MealRow
      BY <2>1 DEF CapsInv, TypeOK, Unused
    <2>. QED BY <2>1, <2>2, MehkoAssumption DEF Caps, MealRow
  <1>2. Kept(h, d, Q) \subseteq InWeek(h, d) /\ Kept(h, d, Q) \in SUBSET Ids
    BY <1>1 DEF Kept
  <1>3. IsFiniteSet(Kept(h, d, Q)) /\ IsFiniteSet(Q)
    <2>1. IsFiniteSet(Ids) /\ IsFiniteSet(Txns) /\ Q \in SUBSET Txns
      BY MehkoAssumption DEF Writing
    <2>. QED BY <1>2, <2>1, FS_Subset
  <1>4. \A t \in Q : t \in Txns /\ Asks[t] = txn[t].cap
                           /\ Asks[t] \in Nat /\ Asks[t] <= MaxMealsPerDay
    <2>. SUFFICES ASSUME NEW t \in Q
                  PROVE  t \in Txns /\ Asks[t] = txn[t].cap
                           /\ Asks[t] \in Nat /\ Asks[t] <= MaxMealsPerDay
      OBVIOUS
    <2>1. t \in Txns /\ txn[t] # Idle /\ txn[t].at \in {"create.write", "update.write"}
      BY DEF Writing
    <2>2. txn[t] \in TxnRow /\ txn[t].cap <= MaxMealsPerDay
      BY <2>1 DEF CapsInv, TypeOK, WithinDay
    <2>. QED BY <2>1, <2>2, MehkoAssumption DEF Asks, TxnRow
  <1>5. Total(Caps, Kept(h, d, Q)) \in Nat /\ Total(Asks, Q) \in Nat
    BY <1>1, <1>2, <1>3, <1>4, UnitsFinite
  <1>6. Cardinality(Txns) \in Nat /\ Cardinality(Txns) # 0
    BY MehkoAssumption, FS_CardinalityType, FS_EmptySet
  <1>7. MaxMealsPerDay \in Nat /\ MaxMealsPerWeek \in Nat
    BY MehkoAssumption
  <1>8. (Cardinality(Txns) - 1) * MaxMealsPerDay \in Nat
    BY <1>6, <1>7
  <1>. QED BY <1>1, <1>2, <1>3, <1>4, <1>5, <1>6, <1>7, <1>8 DEF WeekLimit

\* A step after which there are no listings and no transactions to count that were not
\* counted, as they are, before.
LEMMA FewerMeals ==
    ASSUME CapsInv, CapsInv', WeekBounded,
           NEW h \in Hosts, NEW d \in Dates, NEW Q, NEW P,
           Q \in SUBSET Writing(h, d)', P \in SUBSET Writing(h, d), Q \subseteq P,
           \A t \in Q : Asks'[t] = Asks[t],
           Kept(h, d, Q)' \subseteq Kept(h, d, P),
           \A i \in Kept(h, d, Q)' : meal'[i] = meal[i]
    PROVE  AfterCommits(h, d, Q)' <= WeekLimit
  <1>1. /\ IsFiniteSet(Kept(h, d, P)) /\ \A i \in Kept(h, d, P) : Caps[i] \in Nat
        /\ IsFiniteSet(P) /\ \A t \in P : Asks[t] \in Nat
        /\ Total(Caps, Kept(h, d, P)) \in Nat /\ Total(Asks, P) \in Nat /\ WeekLimit \in Nat
    BY WeekNumbers
  <1>2. \A i \in Kept(h, d, Q)' : Caps'[i] = Caps[i]
    BY DEF Kept, InWeek, Live, Caps
  <1>3. Total(Caps', Kept(h, d, Q)') <= Total(Caps, Kept(h, d, P))
        /\ Total(Caps', Kept(h, d, Q)') \in Nat
    BY <1>1, <1>2, TotalGrows
  <1>4. Total(Asks', Q) <= Total(Asks, P) /\ Total(Asks', Q) \in Nat
    BY <1>1, TotalGrows
  <1>5. AfterCommits(h, d, Q)' = Total(Caps', Kept(h, d, Q)') + Total(Asks', Q)
    BY DEF AfterCommits
  <1>6. Total(Caps, Kept(h, d, P)) + Total(Asks, P) <= WeekLimit
    BY DEF WeekBounded, AfterCommits
  <1>. QED BY <1>1, <1>3, <1>4, <1>5, <1>6

\* A step that writes no listing but a cancelled one, and passes no check.
LEMMA QuietWeek ==
    ASSUME CapsInv, CapsInv', WeekBounded,
           \A t \in Txns : txn'[t] # Idle /\ txn'[t].at \in {"create.write", "update.write"}
                             => txn'[t] = txn[t],
           \A i \in Ids : meal'[i] = meal[i] \/ meal'[i].status # "active"
    PROVE  WeekBounded'
  <1>1. SUFFICES ASSUME NEW h \in Hosts, NEW d \in Dates, NEW Q, Q \in SUBSET Writing(h, d)'
                 PROVE  AfterCommits(h, d, Q)' <= WeekLimit
    BY DEF WeekBounded, Dates, LocalDate, WallClock, Starts, WallClockToInstant, WeekLimit
  <1>2. \A t \in Q : t \in Txns /\ txn'[t] = txn[t]
    BY <1>1 DEF Writing
  <1>3. Q \in SUBSET Writing(h, d)
    BY <1>1, <1>2 DEF Writing, LocalDate, WallClock, WeekStart, SinceMonday, DayOfWeek
  <1>4. \A t \in Q : Asks'[t] = Asks[t]
    BY <1>2 DEF Asks
  <1>5. Replaced(Q)' = Replaced(Q)
    BY <1>2 DEF Replaced
  <1>6. \A i \in InWeek(h, d)' : i \in InWeek(h, d) /\ meal'[i] = meal[i]
    BY DEF InWeek, Live, LocalDate, WallClock, WeekStart, SinceMonday, DayOfWeek
  <1>. QED BY <1>1, <1>3, <1>4, <1>5, <1>6, FewerMeals DEF Kept

\* A transaction passes the check: with it commit at most all the others, each with at most
\* a day's meals, on top of what the check has seen.
LEMMA CheckedWeek ==
    ASSUME CapsInv, CapsInv', WeekBounded,
           NEW t \in Txns, NEW r \in TxnRow, r = txn[t], r # Idle, r.at \notin {"create.write", "update.write"},
           NEW step \in {"create.write", "update.write"}, Goto(t, step),
           NEW excluded \in SUBSET {r.id}, WithinCaps(r.host, r.start, r.cap, excluded)
    PROVE  WeekBounded'
  <1>1. SUFFICES ASSUME NEW h \in Hosts, NEW d \in Dates, NEW Q, Q \in SUBSET Writing(h, d)'
                 PROVE  AfterCommits(h, d, Q)' <= WeekLimit
    BY DEF WeekBounded, Dates, LocalDate, WallClock, Starts, WallClockToInstant, WeekLimit
  <1>2. /\ \A u \in Txns : txn'[u] = IF u = t THEN [r EXCEPT !.at = step] ELSE txn[u]
        /\ meal' = meal /\ Q \subseteq Txns
    BY <1>1 DEF Goto, CapsInv, TypeOK, Writing
  <1>3. /\ \A u \in Q : txn'[u].id = txn[u].id /\ Asks'[u] = Asks[u]
        /\ Asks[t] = r.cap
    BY <1>2 DEF Asks, TxnRow
  <1>4. /\ Replaced(Q)' = Replaced(Q) /\ InWeek(h, d)' = InWeek(h, d)
        /\ Kept(h, d, Q)' = Kept(h, d, Q) /\ Caps' = Caps
    BY <1>2, <1>3 DEF Replaced, Kept, InWeek, Live, LocalDate, WallClock, WeekStart, SinceMonday,
                      DayOfWeek, Caps
  <1>5. Q \ {t} \in SUBSET Writing(h, d)
    BY <1>1, <1>2 DEF Writing, LocalDate, WallClock, WeekStart, SinceMonday, DayOfWeek
  <1>6. CASE t \notin Q
    <2>1. Q \in SUBSET Writing(h, d)
      BY <1>5, <1>6
    <2>. QED BY <1>1, <1>2, <1>3, <1>4, <2>1, FewerMeals
  <1>7. CASE t \in Q
    <2>. DEFINE seen == InWeek(h, d) \ excluded
                others == Q \ {t}
    <2>1. r.host = h /\ LocalDate(r.start) \in WeekStart(d)..WeekStart(d) + 6
      <3>1. t \in Writing(h, d)'
        BY <1>1, <1>7
      <3>2. txn'[t].host = r.host /\ txn'[t].start = r.start
        BY <1>2 DEF TxnRow
      <3>. QED BY <3>1, <3>2 DEF Writing, LocalDate, WallClock, WeekStart, SinceMonday, DayOfWeek
    <2>2. WeekStart(LocalDate(r.start)) = WeekStart(d)
      <3>1. d \in Nat /\ LocalDate(r.start) \in Nat
        BY DateIsNat DEF Dates, TxnRow
      <3>. QED BY <2>1, <3>1, SameWeek
    <2>3. Meals(seen) + r.cap <= MaxMealsPerWeek
      BY <2>1, <2>2 DEF WithinCaps, InWeek
    <2>4. /\ \A i \in InWeek(h, d) : i \in Ids /\ Caps[i] = meal[i].cap /\ Caps[i] \in Nat
          /\ IsFiniteSet(others) /\ \A u \in others : Asks[u] \in Nat /\ Asks[u] <= MaxMealsPerDay
          /\ MaxMealsPerDay \in Nat /\ MaxMealsPerWeek \in Nat
          /\ Cardinality(Txns) \in Nat
      BY <1>5, WeekNumbers
    <2>5. IsFiniteSet(seen)
      <3>1. seen \in SUBSET Ids /\ IsFiniteSet(Ids)
        BY <2>4, MehkoAssumption
      <3>. QED BY <3>1, FS_Subset
    <2>6. \A i \in seen : Caps[i] = meal[i].cap /\ Caps[i] \in Nat
      BY <2>4
    <2>7. Kept(h, d, Q) \in SUBSET seen
      BY <1>7 DEF Kept, Replaced
    <2>. HIDE DEF seen
    <2>8. Meals(seen) = Total(Caps, seen)
      BY <2>5, <2>6, MealsAreUnits
    <2>9. Total(Caps, Kept(h, d, Q)) \in Nat /\ Total(Caps, Kept(h, d, Q)) <= Total(Caps, seen)
      BY <2>5, <2>6, <2>7, TotalGrows
    <2>10. Total(Caps, seen) \in Nat
      BY <2>5, <2>6, UnitsFinite
    <2>11. r.cap \in Nat
      BY MehkoAssumption DEF TxnRow
    <2>12. IsFiniteSet(Q) /\ \A u \in Q : Asks[u] \in Nat /\ Asks'[u] = Asks[u]
      <3>1. Q = others \cup {t}
        BY <1>7
      <3>. QED BY <1>3, <2>4, <2>11, <3>1, FS_AddElement
    <2>13. Total(Asks, Q) = r.cap + Total(Asks, others)
      BY <1>3, <1>7, <2>12, TotalOfRest
    <2>14. Total(Asks', Q) <= Total(Asks, Q) /\ Total(Asks', Q) \in Nat
      BY <2>12, TotalGrows
    <2>15. Total(Asks, others) <= Cardinality(others) * MaxMealsPerDay /\ Total(Asks, others) \in Nat
      BY <2>4, TotalBounded, UnitsFinite
    <2>16. Cardinality(others) \in Nat /\ Cardinality(others) <= Cardinality(Txns) - 1
      <3>1. IsFiniteSet(Txns \ {t}) /\ Cardinality(Txns \ {t}) = Cardinality(Txns) - 1
        BY MehkoAssumption, FS_RemoveElement
      <3>2. others \in SUBSET (Txns \ {t})
        BY <1>2
      <3>. QED BY <2>4, <3>1, <3>2, FS_Subset, FS_CardinalityType
    <2>. HIDE DEF others
    <2>17. Cardinality(others) * MaxMealsPerDay <= (Cardinality(Txns) - 1) * MaxMealsPerDay
           /\ Cardinality(others) * MaxMealsPerDay \in Nat
           /\ (Cardinality(Txns) - 1) * MaxMealsPerDay \in Int
      BY <2>4, <2>16
    <2>18. AfterCommits(h, d, Q)' = Total(Caps, Kept(h, d, Q)) + Total(Asks', Q)
      BY <1>4 DEF AfterCommits
    <2>. QED BY <2>3, <2>4, <2>8, <2>9, <2>10, <2>11, <2>13, <2>14, <2>15, <2>17, <2>18
                DEF WeekLimit
  <1>. QED BY <1>6, <1>7

\* The row that is written was counted as asked for.
LEMMA WrittenWeek ==
    ASSUME CapsInv, CapsInv', WeekBounded,
           NEW t \in Txns, NEW r \in TxnRow, r = txn[t], r # Idle, r.at \in {"create.write", "update.write"},
           NEW m \in MealRow, m.status = "active", m.host = r.host, m.start = r.start, m.cap = r.cap,
           meal' = [meal EXCEPT ![r.id] = m], txn' = [txn EXCEPT ![t] = Idle]
    PROVE  WeekBounded'
  <1>1. SUFFICES ASSUME NEW h \in Hosts, NEW d \in Dates, NEW Q, Q \in SUBSET Writing(h, d)'
                 PROVE  AfterCommits(h, d, Q)' <= WeekLimit
    BY DEF WeekBounded, Dates, LocalDate, WallClock, Starts, WallClockToInstant, WeekLimit
  <1>2. /\ \A u \in Txns : txn'[u] = IF u = t THEN Idle ELSE txn[u]
        /\ \A i \in Ids : meal'[i] = IF i = r.id THEN m ELSE meal[i]
        /\ r.id \in Ids
    BY DEF CapsInv, TypeOK, TxnRow
  <1>3. t \notin Q /\ \A u \in Q : u \in Txns /\ txn'[u] = txn[u] /\ Asks'[u] = Asks[u]
    BY <1>1, <1>2 DEF Writing, Asks
  <1>4. Q \in SUBSET Writing(h, d) /\ Replaced(Q)' = Replaced(Q)
    BY <1>1, <1>3 DEF Writing, Replaced, LocalDate, WallClock, WeekStart, SinceMonday, DayOfWeek
  <1>5. \A i \in InWeek(h, d)' : i = r.id \/ (i \in InWeek(h, d) /\ meal'[i] = meal[i])
    BY <1>2 DEF InWeek, Live, LocalDate, WallClock, WeekStart, SinceMonday, DayOfWeek
  <1>6. CASE t \notin Writing(h, d)
    <2>1. r.host # h \/ LocalDate(r.start) \notin WeekStart(d)..WeekStart(d) + 6
      BY <1>6 DEF Writing
    <2>2. r.id \notin InWeek(h, d)'
      BY <1>2, <2>1 DEF InWeek, Live, LocalDate, WallClock, WeekStart, SinceMonday, DayOfWeek
    <2>3. /\ Kept(h, d, Q)' \subseteq Kept(h, d, Q)
          /\ \A i \in Kept(h, d, Q)' : meal'[i] = meal[i]
      BY <1>4, <1>5, <2>2 DEF Kept
    <2>. QED BY <1>1, <1>3, <1>4, <2>3, FewerMeals
  <1>7. CASE t \in Writing(h, d)
    <2>. DEFINE P == Q \cup {t}
                before == Kept(h, d, P)
                after == Kept(h, d, Q)'
                rest == after \ {r.id}
    <2>1. P \in SUBSET Writing(h, d)
      BY <1>4, <1>7
    <2>2. /\ IsFiniteSet(before) /\ before \subseteq InWeek(h, d)
          /\ \A i \in before : i \in Ids /\ Caps[i] \in Nat
          /\ IsFiniteSet(P) /\ \A u \in P : Asks[u] \in Nat
          /\ Total(Caps, before) \in Nat /\ Total(Asks, P) \in Nat
          /\ WeekLimit \in Nat
      BY <2>1, WeekNumbers
    <2>3. Total(Caps, before) + Total(Asks, P) <= WeekLimit
      BY <2>1 DEF WeekBounded, AfterCommits
    <2>4. \A i \in rest : i \in before /\ meal'[i] = meal[i]
      <3>1. Replaced(P) = Replaced(Q) \cup {r.id}
        BY DEF Replaced
      <3>. QED BY <1>4, <1>5, <3>1 DEF Kept
    <2>5. \A i \in rest : Caps'[i] = Caps[i]
      <3>1. \A i \in rest : i \in Ids /\ meal'[i] = meal[i]
        BY <2>2, <2>4
      <3>. QED BY ONLY <3>1 DEF Caps
    <2>6. Caps'[r.id] = r.cap /\ r.cap \in Nat /\ Asks[t] = r.cap
      BY <1>2, MehkoAssumption DEF Caps, Asks, TxnRow
    <2>7. P \ {t} = Q
      BY <1>3
    <2>8. Total(Asks, P) = r.cap + Total(Asks, Q)
      BY <2>2, <2>6, <2>7, TotalOfRest
    <2>9. Total(Asks', Q) <= Total(Asks, Q) /\ Total(Asks', Q) \in Nat /\ Total(Asks, Q) \in Nat
      <3>1. IsFiniteSet(Q) /\ \A u \in Q : Asks[u] \in Nat /\ Asks'[u] = Asks[u]
        BY <1>3, <2>2, <2>7, FS_RemoveElement
      <3>. QED BY <3>1, TotalGrows, UnitsFinite
    <2>. HIDE DEF P, before, rest
    <2>10. Total(Caps', rest) <= Total(Caps, before) /\ Total(Caps', rest) \in Nat
      BY <2>2, <2>4, <2>5, TotalGrows
    <2>11. Total(Caps', after) <= r.cap + Total(Caps', rest) /\ Total(Caps', after) \in Nat
      <3>1. IsFiniteSet(rest)
        BY <2>2, <2>4, FS_Subset
      <3>2. CASE r.id \in after
        <4>1. after = rest \cup {r.id}
          BY <3>2 DEF rest
        <4>2. IsFiniteSet(after)
          BY <3>1, <4>1, FS_AddElement
        <4>3. \A i \in after : Caps'[i] \in Nat
          BY <2>2, <2>4, <2>5, <2>6, <4>1
        <4>. HIDE DEF after
        <4>4. Total(Caps', after) = Caps'[r.id] + Total(Caps', after \ {r.id})
          BY <3>2, <4>2, <4>3, TotalOfRest
        <4>. QED BY <2>6, <2>10, <4>4 DEF rest
      <3>3. CASE r.id \notin after
        <4>1. after = rest
          BY <3>3 DEF rest
        <4>. QED BY <2>6, <2>10, <4>1
      <3>. QED BY <3>2, <3>3
    <2>12. AfterCommits(h, d, Q)' = Total(Caps', after) + Total(Asks', Q)
      BY DEF AfterCommits
    <2>. HIDE DEF after
    <2>. QED BY <2>2, <2>3, <2>6, <2>8, <2>9, <2>10, <2>11, <2>12
  <1>. QED BY <1>6, <1>7

\* Every step keeps the week within its limit.
LEMMA NextWeek ==
    ASSUME CapsInv, CapsInv', WeekBounded, [Next]_mvars
    PROVE  WeekBounded'
  <1>1. ASSUME NEW t \in Txns, NEW q, txn' = [txn EXCEPT ![t] = q], meal' = meal,
               q = Idle \/ q.at \notin {"create.write", "update.write"}
        PROVE  WeekBounded'
    <2>1. \A u \in Txns : txn'[u] = IF u = t THEN q ELSE txn[u]
      BY <1>1 DEF CapsInv, TypeOK
    <2>. QED BY <1>1, <2>1, QuietWeek
  <1>2. ASSUME NEW t \in Txns, Refuse(t) PROVE WeekBounded'
    BY <1>1, <1>2 DEF Refuse
  <1>3. ASSUME NEW t \in Txns, NEW step \in {"create.check", "update.lock"}, NEW i, NEW h, NEW w,
               NEW cap, Start(t, step, i, h, w, cap)
        PROVE  WeekBounded'
    <2>. DEFINE q == [at |-> step, id |-> i, host |-> h, cap |-> cap, typed |-> w,
                      start |-> WallClockToInstant(w)]
    <2>1. txn' = [txn EXCEPT ![t] = q] /\ meal' = meal /\ q.at \notin {"create.write", "update.write"}
      BY <1>3 DEF Start
    <2>. HIDE DEF q
    <2>. QED BY <1>1, <2>1
  <1>4. ASSUME NEW t \in Txns, CreateCheck(t) \/ UpdateCheck(t) PROVE WeekBounded'
    <2>1. PICK r \in TxnRow : r = txn[t] /\ r # Idle /\ r.at \notin {"create.write", "update.write"}
      BY <1>4 DEF CreateCheck, UpdateCheck, CapsInv, TypeOK
    <2>2. CASE Refuse(t)
      BY <1>2, <2>2
    <2>3. CASE ~Refuse(t)
      <3>1. PICK step \in {"create.write", "update.write"}, excluded \in SUBSET {r.id} :
              Goto(t, step) /\ WithinCaps(r.host, r.start, r.cap, excluded)
        BY <1>4, <2>1, <2>3 DEF CreateCheck, UpdateCheck
      <3>. QED BY <2>1, <3>1, CheckedWeek
    <2>. QED BY <2>2, <2>3
  <1>5. ASSUME NEW t \in Txns, UpdateLock(t) PROVE WeekBounded'
    <2>1. CASE Refuse(t)
      BY <1>2, <2>1
    <2>2. CASE Goto(t, "update.check")
      <3>1. PICK r \in TxnRow : r = txn[t]
        BY <1>5 DEF UpdateLock, CapsInv, TypeOK
      <3>2. /\ txn' = [txn EXCEPT ![t] = [r EXCEPT !.at = "update.check"]] /\ meal' = meal
            /\ [r EXCEPT !.at = "update.check"].at \notin {"create.write", "update.write"}
        BY <2>2, <3>1 DEF Goto, TxnRow
      <3>. QED BY <1>1, <3>2
    <2>. QED BY <1>5, <2>1, <2>2 DEF UpdateLock
  <1>6. ASSUME NEW t \in Txns, CreateWrite(t) \/ UpdateWrite(t) PROVE WeekBounded'
    <2>1. PICK r \in TxnRow : r = txn[t] /\ r # Idle /\ r.at \in {"create.write", "update.write"}
      BY <1>6 DEF CreateWrite, UpdateWrite, CapsInv, TypeOK
    <2>2. CASE Refuse(t)
      BY <1>2, <2>2
    <2>3. CASE ~Refuse(t)
      <3>. DEFINE m == [status |-> "active", host |-> r.host, start |-> r.start,
                        typed |-> r.typed, cap |-> r.cap]
      <3>1. /\ m \in MealRow /\ m.status = "active" /\ m.host = r.host
            /\ m.start = r.start /\ m.cap = r.cap
        BY DEF MealRow, TxnRow
      <3>2. meal' = [meal EXCEPT ![r.id] = m] /\ txn' = [txn EXCEPT ![t] = Idle]
        BY <1>6, <2>1, <2>3 DEF CreateWrite, UpdateWrite, Write
      <3>. HIDE DEF m
      <3>. QED BY <2>1, <3>1, <3>2, WrittenWeek
    <2>. QED BY <2>2, <2>3
  <1>7. ASSUME NEW i \in Ids, CancelListing(i) PROVE WeekBounded'
    <2>1. PICK q \in MealRow : q = meal[i]
      BY <1>7 DEF CancelListing, CapsInv, TypeOK, Unused
    <2>2. txn' = txn /\ \A j \in Ids : meal'[j] = meal[j] \/ meal'[j].status # "active"
      BY <1>7, <2>1 DEF CancelListing, CapsInv, TypeOK, MealRow
    <2>. QED BY <2>2, QuietWeek
  <1>8. CASE UNCHANGED mvars
    BY <1>8, QuietWeek DEF mvars
  <1>. QED BY <1>2, <1>3, <1>4, <1>5, <1>6, <1>7, <1>8 DEF Next, Rollback, BeginUpdate, BeginCreate

\* FR-11: however the unserialised checks and the writes interleave, a host's meals of a week
\* exceed the weekly cap by at most a day's meals for each other connection.
THEOREM WeekNearlyWithinCap == Spec => []WeeklyOverrunBounded
  <1>1. Init /\ CapsInv => WeekBounded
    <2>. SUFFICES ASSUME Init, CapsInv, NEW h \in Hosts, NEW d \in Dates, NEW Q \in SUBSET Writing(h, d)
                  PROVE  AfterCommits(h, d, Q) <= WeekLimit
      BY DEF WeekBounded
    <2>1. Q = {} /\ InWeek(h, d) = {}
      BY DEF Init, Writing, InWeek, Live, Unused
    <2>2. Kept(h, d, Q) = {}
      BY <2>1 DEF Kept
    <2>3. WeekLimit \in Nat
      BY WeekNumbers
    <2>. QED BY <2>1, <2>2, <2>3, UnitsOfNone DEF AfterCommits
  <1>2. CapsInv /\ CapsInv' /\ WeekBounded /\ [Next]_mvars => WeekBounded'
    BY NextWeek
  <1>3. CapsInv /\ WeekBounded => WeeklyOverrunBounded
    <2>. SUFFICES ASSUME CapsInv, WeekBounded, NEW h \in Hosts, NEW s \in Starts
                  PROVE  Meals(Within(h, Monday[s], 7 * 24)) <= WeekLimit
      BY DEF WeeklyOverrunBounded, WeekLimit
    <2>. DEFINE d == LocalDate(s)
                week == Within(h, Monday[s], 7 * 24)
    <2>1. d \in Dates /\ {} \in SUBSET Writing(h, d)
      BY DEF Dates
    <2>2. week \subseteq InWeek(h, d)
      <3>. SUFFICES ASSUME NEW i \in week PROVE i \in InWeek(h, d)
        OBVIOUS
      <3>1. i \in Live(h) /\ Wall[meal[i].start] \in Monday[s]..Monday[s] + 7 * 24 - 1
        BY DEF Within
      <3>2. i \in Ids /\ meal[i] \in MealRow
        BY <3>1 DEF Live, CapsInv, TypeOK, Unused
      <3>. QED BY <3>1, <3>2, OneWeek DEF InWeek, MealRow
    <2>. HIDE DEF d, week
    <2>3. Kept(h, d, {}) = InWeek(h, d)
      BY DEF Kept, Replaced
    <2>4. /\ IsFiniteSet(InWeek(h, d)) /\ WeekLimit \in Nat
          /\ \A i \in InWeek(h, d) : Caps[i] = meal[i].cap /\ Caps[i] \in Nat
      BY <2>1, <2>3, WeekNumbers
    <2>5. Total(Caps, InWeek(h, d)) + Total(Asks, {}) <= WeekLimit
      BY <2>1, <2>3 DEF WeekBounded, AfterCommits
    <2>6. IsFiniteSet(week) /\ Total(Caps, week) \in Nat /\ Total(Caps, week) <= Total(Caps, InWeek(h, d))
          /\ Total(Caps, InWeek(h, d)) \in Nat
      BY <2>2, <2>4, TotalGrows, FS_Subset, UnitsFinite
    <2>7. Meals(week) = Total(Caps, week)
      BY <2>2, <2>4, <2>6, MealsAreUnits
    <2>. QED BY <2>4, <2>5, <2>6, <2>7, UnitsOfNone DEF week
  <1>. QED BY <1>1, <1>2, <1>3, CapsInvariance, PTL DEF Spec

-----------------------------------------------------------------------------
(* The location and the geocoding jobs.                                     *)

\* The types of address, location, jobs and deliveries.
GeoTypes ==
    /\ address \in 1..(MaxMoves + 1)
    /\ geo \in Nat \cup {None}
    /\ active \in BOOLEAN
    /\ jobs \in [JobIds -> JobRow]
    /\ run \in [Workers -> RunRow \cup {None}]
    /\ overlap \in BOOLEAN

\* A job has an address the listing has had, and while it is pending a try left.
JobsSound ==
    \A i \in JobIds : /\ jobs[i].status # "none" => i <= address
                      /\ jobs[i].status = "pending" => jobs[i].attempts < MaxAttempts

\* A delivery x, also one that was overtaken: its job is still pending, and if it is
\* about to be done with the address there is, something has been stored.
Passing(x) ==
    x # None =>
        /\ jobs[x.job].status = "pending" /\ x.job <= address
        /\ x.at \in {"call", "done"} => x.job <= x.from /\ x.from <= address
        /\ x.at = "done" /\ x.job = address /\ active /\ address \notin Unknown => geo # None

\* No job is in the hands of two workers.
OneClaim ==
    \A u, v \in Workers :
        u # v /\ run[u] # None /\ run[v] # None => run[u].job # run[v].job

\* What is stored is a place where the listing is or was; if nothing is, a job will see to it.
SomewhereOrWaiting ==
    /\ geo # None => geo \in (1..address) \ Unknown
    /\ active /\ address \notin Unknown /\ geo = None => jobs[address].status \in {"pending", "dead"}

\* Of what a delivery x has read: if it is no longer the address, the address waits for
\* a delivery of its own, and if x is that one and done, it has stored the location.
OnTheWay(x) ==
    x # None =>
        /\ x.at = "call" /\ x.from # address => jobs[address].status = "pending"
        /\ x.at = "done" /\ x.job = address /\ active /\ address \notin Unknown => geo = address

\* The delivery of the address there is has no company.
Alone == \A u, v \in Workers : u # v /\ run[u] # None /\ run[v] # None => run[u].job # address

\* A known address that is not located yet has a job that is not done.
LocatedOrWaiting ==
    active /\ address \notin Unknown /\ geo # address
      => jobs[address].status \in {"pending", "dead"}

\* What is so unless deliveries overlap.
InOrder == ~overlap => LocatedOrWaiting /\ Alone /\ \A v \in Workers : OnTheWay(run[v])

\* The inductive invariant of geocoding.
GeoInv ==
    /\ GeoTypes
    /\ JobsSound
    /\ \A v \in Workers : Passing(run[v])
    /\ OneClaim
    /\ SomewhereOrWaiting
    /\ InOrder

\* The jobs and the deliveries are records.
LEMMA GeoRows ==
    ASSUME GeoTypes
    PROVE  /\ MaxMoves \in Nat /\ MaxAttempts \in Nat \ {0} /\ address \in JobIds
           /\ \A i \in JobIds : i \in Nat /\ jobs[i].attempts \in Nat
                                /\ jobs[i].status \in {"none", "pending", "delivered", "dead"}
  BY GeocodeAssumption DEF GeoTypes, JobIds, JobRow

\* What a worker that is busy knows.
LEMMA Busy ==
    ASSUME GeoInv, NEW v \in Workers, run[v] # None
    PROVE  \E x \in RunRow : /\ x = run[v] /\ x # None /\ Passing(x)
                             /\ x.job \in JobIds /\ x.job \in Nat /\ x.from \in Nat
  <1>1. PICK x \in RunRow : x = run[v]
    BY DEF GeoInv, GeoTypes
  <1>. QED BY <1>1 DEF RunRow, JobIds, GeoInv

LEMMA GeoInit == GeocodeInit => GeoInv
  <1>. SUFFICES ASSUME GeocodeInit PROVE GeoInv
    OBVIOUS
  <1>1. MaxMoves \in Nat /\ MaxAttempts \in Nat \ {0}
    BY GeocodeAssumption
  <1>2. /\ NewJob \in JobRow /\ NewJob.status = "pending" /\ NewJob.attempts = 0
        /\ [status |-> "none", attempts |-> 0] \in JobRow
    BY <1>1 DEF NewJob, JobRow
  <1>7. overlap \in BOOLEAN /\ active \in BOOLEAN
    BY DEF GeocodeInit
  <1>3. GeoTypes
    BY <1>1, <1>2, <1>7 DEF GeocodeInit, GeoTypes, JobIds
  <1>4. JobsSound
    BY <1>1, <1>2 DEF GeocodeInit, JobIds, JobsSound
  <1>5. \A v \in Workers : run[v] = None
    BY DEF GeocodeInit
  <1>6. SomewhereOrWaiting /\ LocatedOrWaiting
    BY <1>1, <1>2 DEF GeocodeInit, JobIds, SomewhereOrWaiting, LocatedOrWaiting
  <1>. QED BY <1>3, <1>4, <1>5, <1>6 DEF GeoInv, Passing, OneClaim, InOrder, Alone, OnTheWay

\* A step of a delivery that leaves the jobs alone: a claim takes a free job, and if
\* there is another delivery they overlap.
LEMMA GeoDelivery ==
    ASSUME GeoInv, NEW v \in Workers, NEW x \in RunRow \cup {None},
           run' = [run EXCEPT ![v] = x], UNCHANGED <<address, active, jobs>>,
           geo' = geo \/ (run[v] # None /\ geo' \in (1..address) \ Unknown),
           overlap' \in BOOLEAN, ~overlap' => ~overlap,
           Passing(x)', ~overlap' => OnTheWay(x)' /\ LocatedOrWaiting',
           \/ x = None
           \/ run[v] # None /\ x.job = run[v].job
           \/ /\ \A u \in Workers : run[u] # None => run[u].job # x.job
              /\ ~overlap' => \A u \in Workers : run[u] = None
    PROVE  GeoInv'
  <1>1. /\ run' \in [Workers -> RunRow \cup {None}]
        /\ \A u \in Workers : run'[u] = IF u = v THEN x ELSE run[u]
    BY DEF GeoInv, GeoTypes
  <1>2. address \in Nat /\ None \notin Nat
    BY GeoRows, GeocodeAssumption DEF GeoInv, JobIds
  <1>3. GeoTypes'
    BY <1>1, <1>2 DEF GeoInv, GeoTypes, JobIds, JobRow, RunRow
  <1>4. JobsSound'
    BY DEF GeoInv, JobsSound, JobIds
  <1>5. SomewhereOrWaiting'
    BY <1>2 DEF GeoInv, SomewhereOrWaiting
  <1>6. ASSUME NEW u \in Workers PROVE Passing(run[u])'
    <2>1. CASE u = v
      BY <1>1, <2>1
    <2>2. CASE u # v
      BY <1>1, <1>2, <2>2 DEF GeoInv, Passing
    <2>. QED BY <2>1, <2>2
  <1>7. OneClaim'
    BY <1>1 DEF GeoInv, OneClaim
  <1>8. ASSUME ~overlap' PROVE LocatedOrWaiting' /\ Alone' /\ \A u \in Workers : OnTheWay(run[u])'
    <2>1. Alone /\ \A u \in Workers : OnTheWay(run[u])
      BY <1>8 DEF GeoInv, InOrder
    <2>2. Alone'
      BY <1>1, <1>8, <2>1 DEF Alone
    <2>3. ASSUME NEW u \in Workers, u # v PROVE OnTheWay(run[u])'
      <3>1. run'[u] = run[u] /\ OnTheWay(run[u])
        BY <1>1, <2>1, <2>3
      <3>2. run[u] # None /\ run[u].job = address => geo' = geo
        BY <2>1, <2>3 DEF Alone
      <3>. QED BY <3>1, <3>2 DEF OnTheWay
    <2>4. OnTheWay(run[v])'
      BY <1>1, <1>8
    <2>. QED BY <1>8, <2>2, <2>3, <2>4
  <1>9. InOrder'
    BY <1>8 DEF InOrder
  <1>. QED BY <1>3, <1>4, <1>5, <1>6, <1>7, <1>9 DEF GeoInv

\* One job changes: the delivery that has it ends, or an operator revives it.
LEMMA GeoJob ==
    ASSUME GeoInv, NEW i \in JobIds, NEW j \in JobRow,
           jobs' = [jobs EXCEPT ![i] = j], UNCHANGED <<address, geo, active, overlap>>,
           jobs[i].status # "none", j.status # "none",
           j.status = "pending" => j.attempts < MaxAttempts,
           \/ \E v \in Workers : /\ run[v] # None /\ run[v].job = i
                                 /\ run' = [run EXCEPT ![v] = None]
           \/ run' = run /\ jobs[i].status = "dead",
           active /\ address \notin Unknown /\ i = address /\ (geo = None \/ (~overlap /\ geo # address))
              => j.status \in {"pending", "dead"}
    PROVE  GeoInv'
  <1>1. /\ jobs' \in [JobIds -> JobRow]
        /\ \A k \in JobIds : jobs'[k] = IF k = i THEN j ELSE jobs[k]
        /\ address \in JobIds
    BY GeoRows DEF GeoInv, GeoTypes
  <1>2. \A u \in Workers : run'[u] = None \/ run'[u] = run[u]
    BY DEF GeoInv, GeoTypes
  <1>3. GeoTypes'
    BY <1>1 DEF GeoInv, GeoTypes, JobIds, JobRow, RunRow
  <1>4. JobsSound'
    BY <1>1 DEF GeoInv, JobsSound, JobIds
  <1>5. SomewhereOrWaiting'
    BY <1>1 DEF GeoInv, SomewhereOrWaiting
  <1>6. ASSUME NEW u \in Workers, run'[u] # None PROVE Passing(run[u])'
    <2>1. PICK x \in RunRow : /\ x = run[u] /\ x # None /\ Passing(x)
                              /\ x.job \in JobIds /\ x.job \in Nat /\ x.from \in Nat
      BY <1>2, <1>6, Busy
    <2>2. x.job # i
      <3>1. CASE run' = run /\ jobs[i].status = "dead"
        BY <2>1, <3>1 DEF Passing
      <3>2. ASSUME NEW v \in Workers, run[v] # None, run[v].job = i,
                   run' = [run EXCEPT ![v] = None]
            PROVE  x.job # i
        BY <1>6, <2>1, <3>2 DEF GeoInv, GeoTypes, OneClaim
      <3>. QED BY <3>1, <3>2
    <2>3. Passing(x)'
      BY <1>1, <2>1, <2>2 DEF Passing
    <2>. QED BY <1>2, <1>6, <2>1, <2>3
  <1>7. \A u \in Workers : Passing(run[u])'
    BY <1>6 DEF Passing
  <1>8. OneClaim'
    BY <1>2 DEF GeoInv, OneClaim
  <1>9. ASSUME ~overlap PROVE LocatedOrWaiting' /\ Alone' /\ \A u \in Workers : OnTheWay(run[u])'
    <2>1. LocatedOrWaiting /\ Alone /\ \A u \in Workers : OnTheWay(run[u])
      BY <1>9 DEF GeoInv, InOrder
    <2>2. LocatedOrWaiting'
      BY <1>1, <1>9, <2>1 DEF LocatedOrWaiting
    <2>3. Alone'
      BY <1>2, <2>1 DEF Alone
    <2>4. ASSUME NEW u \in Workers, run'[u] # None PROVE OnTheWay(run[u])'
      <3>1. run'[u] = run[u] /\ OnTheWay(run[u])
        BY <1>2, <2>1, <2>4
      <3>2. CASE run' = run /\ jobs[i].status = "dead"
        BY <1>1, <3>1, <3>2 DEF OnTheWay
      <3>3. ASSUME NEW v \in Workers, run[v] # None, run[v].job = i, run' = [run EXCEPT ![v] = None]
            PROVE  OnTheWay(run[u])'
        <4>1. i # address
          BY <2>1, <2>4, <3>1, <3>3 DEF Alone, GeoInv, GeoTypes
        <4>. QED BY <1>1, <3>1, <4>1 DEF OnTheWay
      <3>. QED BY <3>2, <3>3
    <2>5. \A u \in Workers : OnTheWay(run[u])'
      BY <2>4 DEF OnTheWay
    <2>. QED BY <2>2, <2>3, <2>5
  <1>10. InOrder'
    BY <1>9 DEF InOrder
  <1>. QED BY <1>3, <1>4, <1>5, <1>7, <1>8, <1>10 DEF GeoInv

LEMMA GeoChangeAddress ==
    ASSUME GeoInv, ChangeAddress
    PROVE  /\ GeoInv'
           /\ jobs[address + 1].status = "none" /\ address + 1 \in JobIds
  <1>1. /\ MaxMoves \in Nat /\ address \in Nat /\ address + 1 \in 1..(MaxMoves + 1)
        /\ address' = address + 1 /\ geo' = None /\ overlap' = FALSE /\ UNCHANGED <<active, run>>
        /\ jobs' = [jobs EXCEPT ![address + 1] = NewJob]
    BY GeocodeAssumption DEF ChangeAddress, GeoInv, GeoTypes
  <1>2. NewJob \in JobRow /\ NewJob.status = "pending" /\ NewJob.attempts < MaxAttempts
    BY GeocodeAssumption DEF NewJob, JobRow
  <1>3. /\ jobs' \in [JobIds -> JobRow] /\ address + 1 \in JobIds
        /\ \A i \in JobIds : jobs'[i] = IF i = address + 1 THEN NewJob ELSE jobs[i]
    BY <1>1, <1>2 DEF GeoInv, GeoTypes, JobIds
  <1>4. GeoTypes'
    BY <1>1, <1>3 DEF GeoInv, GeoTypes, JobIds, JobRow, RunRow
  <1>5. JobsSound'
    BY <1>1, <1>2, <1>3 DEF GeoInv, JobsSound, JobIds
  <1>6. ASSUME NEW v \in Workers, run[v] # None PROVE Passing(run[v])'
    <2>1. PICK x \in RunRow : /\ x = run[v] /\ x # None /\ Passing(x)
                              /\ x.job \in JobIds /\ x.job \in Nat /\ x.from \in Nat
      BY <1>6, Busy
    <2>2. Passing(x)'
      BY <1>1, <1>3, <2>1 DEF Passing
    <2>. QED BY <1>1, <2>1, <2>2
  <1>7. \A v \in Workers : Passing(run[v])'
    BY <1>1, <1>6 DEF Passing
  <1>8. SomewhereOrWaiting'
    BY <1>1, <1>2, <1>3 DEF SomewhereOrWaiting
  <1>9. jobs[address + 1].status = "none"
    BY <1>1, <1>3 DEF GeoInv, JobsSound
  <1>10. \A v \in Workers : run[v] # None => run[v].job # address'
    BY <1>1, Busy DEF Passing
  <1>11. jobs'[address'].status = "pending"
    BY <1>1, <1>2, <1>3
  <1>12. InOrder'
    BY <1>1, <1>10, <1>11 DEF InOrder, LocatedOrWaiting, Alone, OnTheWay
  <1>. QED BY <1>1, <1>3, <1>4, <1>5, <1>7, <1>8, <1>9, <1>12 DEF GeoInv, OneClaim

LEMMA GeoClaim ==
    ASSUME GeoInv, NEW v \in Workers, NEW i \in JobIds, Claim(v, i)
    PROVE  GeoInv'
  <1>. DEFINE x == [at |-> "read", job |-> i, from |-> 0]
  <1>1. x \in RunRow /\ x.at = "read" /\ x.job = i
    BY DEF RunRow
  <1>2. /\ jobs[i].status = "pending" /\ run' = [run EXCEPT ![v] = x]
        /\ UNCHANGED <<address, geo, active, jobs>>
        /\ \A u \in Workers : run[u] # None => run[u].job # i
    BY DEF Claim, Claimed, UnderWay
  <1>3. /\ overlap' \in BOOLEAN
        /\ ~overlap' => ~overlap
        /\ ~overlap' => \A u \in Workers : run[u] = None
    BY DEF Claim, UnderWay
  <1>. HIDE DEF x
  <1>4. Passing(x)' /\ OnTheWay(x)'
    BY <1>1, <1>2 DEF GeoInv, JobsSound, Passing, OnTheWay
  <1>5. ASSUME ~overlap' PROVE LocatedOrWaiting'
    <2>1. LocatedOrWaiting
      BY <1>3, <1>5 DEF GeoInv, InOrder
    <2>. QED BY <1>2, <2>1 DEF LocatedOrWaiting
  <1>. QED BY <1>1, <1>2, <1>3, <1>4, <1>5, GeoDelivery

LEMMA GeoRead ==
    ASSUME GeoInv, NEW v \in Workers, ReadAddress(v)
    PROVE  GeoInv'
  <1>1. PICK z \in RunRow : /\ z = run[v] /\ z # None /\ Passing(z)
                            /\ z.job \in JobIds /\ z.job \in Nat /\ z.from \in Nat
    BY Busy DEF ReadAddress, At
  <1>2. PICK at \in {"call", "done"} : at = IF active THEN "call" ELSE "done"
    OBVIOUS
  <1>3. PICK a \in Nat : a = address
    BY GeoRows DEF GeoInv, JobIds
  <1>. DEFINE x == [z EXCEPT !.at = at, !.from = a]
  <1>4. x \in RunRow /\ x.at = at /\ x.from = a /\ x.job = z.job
    BY DEF RunRow
  <1>5. run' = [run EXCEPT ![v] = x] /\ UNCHANGED <<address, geo, active, jobs, overlap>>
    <2>1. CASE active = TRUE
      BY <1>1, <1>2, <1>3, <2>1 DEF ReadAddress, GeoInv, GeoTypes
    <2>2. CASE active = FALSE
      BY <1>1, <1>2, <1>3, <2>2 DEF ReadAddress, GeoInv, GeoTypes
    <2>. QED BY <2>1, <2>2 DEF GeoInv, GeoTypes
  <1>. HIDE DEF x
  <1>6. /\ jobs[x.job].status = "pending" /\ x.job <= address
        /\ x.at = "call" \/ ~active
    BY <1>1, <1>2, <1>4 DEF Passing
  <1>7. Passing(x)' /\ OnTheWay(x)'
    BY <1>3, <1>4, <1>5, <1>6 DEF Passing, OnTheWay
  <1>8. overlap \in BOOLEAN /\ (~overlap' => LocatedOrWaiting')
    BY <1>5 DEF GeoInv, GeoTypes, InOrder, LocatedOrWaiting
  <1>. QED BY <1>1, <1>4, <1>5, <1>7, <1>8, GeoDelivery

\* A slow answer may be about an address before, but it is about one.
LEMMA GeoStore ==
    ASSUME GeoInv, NEW v \in Workers, StoreGeocode(v) \/ NoResults(v)
    PROVE  GeoInv'
  <1>1. PICK z \in RunRow : /\ z = run[v] /\ z # None /\ Passing(z)
                            /\ z.job \in JobIds /\ z.job \in Nat /\ z.from \in Nat
    BY Busy DEF StoreGeocode, NoResults, At
  <1>. DEFINE x == [z EXCEPT !.at = "done"]
  <1>2. x \in RunRow /\ x.at = "done" /\ x.from = z.from /\ x.job = z.job
    BY DEF RunRow
  <1>3. /\ z.at = "call" /\ run' = [run EXCEPT ![v] = x]
        /\ UNCHANGED <<address, active, jobs, overlap>>
        /\ \/ z.from \notin Unknown /\ geo' = z.from
           \/ z.from \in Unknown /\ geo' = geo
    BY <1>1 DEF StoreGeocode, NoResults, At, GeoInv, GeoTypes
  <1>. HIDE DEF x
  <1>4. /\ address \in Nat /\ None \notin Nat /\ z.job >= 1
        /\ z.job <= z.from /\ z.from <= address
    BY <1>1, <1>3, GeoRows, GeocodeAssumption DEF GeoInv, JobIds, Passing
  <1>5. Passing(x)'
    BY <1>1, <1>2, <1>3, <1>4 DEF Passing
  <1>6. geo' = geo \/ geo' \in (1..address) \ Unknown
    BY <1>1, <1>3, <1>4
  <1>7. ASSUME ~overlap PROVE OnTheWay(x)' /\ LocatedOrWaiting'
    <2>1. LocatedOrWaiting /\ OnTheWay(z) /\ (z.job = address => z.from = address)
      BY <1>1, <1>4, <1>7 DEF GeoInv, InOrder
    <2>2. active /\ address \notin Unknown /\ z.from = address => geo' = address
      BY <1>3
    <2>3. OnTheWay(x)'
      BY <1>2, <1>3, <2>1, <2>2 DEF OnTheWay
    <2>4. LocatedOrWaiting'
      BY <1>1, <1>3, <2>1, <2>2 DEF OnTheWay, LocatedOrWaiting
    <2>. QED BY <2>3, <2>4
  <1>8. overlap \in BOOLEAN
    BY DEF GeoInv, GeoTypes
  <1>. QED BY <1>1, <1>2, <1>3, <1>5, <1>6, <1>7, <1>8, GeoDelivery

\* Job i, and no other, changes as a ledger of jobs allows.
Settles(i) ==
    /\ \A k \in JobIds \ {i} : jobs'[k] = jobs[k]
    /\ \/ jobs[i].status \in {"none", "dead"} /\ jobs'[i] = NewJob
       \/ /\ jobs[i].status = "pending"
          /\ jobs'[i].attempts = jobs[i].attempts + 1
          /\ \/ jobs'[i].status = "delivered"
             \/ jobs'[i].status = IF jobs[i].attempts + 1 < MaxAttempts THEN "pending" ELSE "dead"

\* The delivery ends: delivered, failed, or cut short.
LEMMA GeoEnd ==
    ASSUME GeoInv, NEW v \in Workers, Deliver(v) \/ MapsFails(v) \/ Crash(v)
    PROVE  /\ GeoInv'
           /\ UNCHANGED jobs \/ \E i \in JobIds : Settles(i)
  <1>1. PICK z \in RunRow : /\ z = run[v] /\ z # None /\ Passing(z)
                            /\ z.job \in JobIds /\ z.job \in Nat /\ z.from \in Nat
    BY Busy DEF Deliver, MapsFails, Crash, At
  <1>2. PICK i \in JobIds, q \in JobRow : i = z.job /\ q = jobs[i]
    BY <1>1 DEF GeoInv, GeoTypes
  <1>3. /\ q.status = "pending" /\ q.attempts \in 0..(MaxAttempts - 1)
        /\ MaxAttempts \in Nat \ {0} /\ UNCHANGED <<address, geo, active, overlap>>
        /\ run' = [run EXCEPT ![v] = None]
    BY GeocodeAssumption, <1>1, <1>2
       DEF GeoInv, JobsSound, Passing, JobRow, Deliver, MapsFails, Crash
  <1>4. PICK n \in 0..MaxAttempts : n = q.attempts + 1
    BY <1>3
  <1>5. CASE Crash(v)
    <2>1. UNCHANGED jobs /\ None \in RunRow \cup {None} /\ Passing(None)' /\ OnTheWay(None)'
      BY <1>5 DEF Crash, Passing, OnTheWay
    <2>2. overlap \in BOOLEAN /\ (~overlap => LocatedOrWaiting')
      BY <1>3, <2>1 DEF GeoInv, GeoTypes, InOrder, LocatedOrWaiting
    <2>. QED BY <1>3, <2>1, <2>2, GeoDelivery
  <1>6. CASE Deliver(v)
    <2>. DEFINE j == [q EXCEPT !.status = "delivered", !.attempts = n]
    <2>1. j \in JobRow /\ j.status = "delivered" /\ j.attempts = n
      BY DEF JobRow
    <2>2. jobs' = [jobs EXCEPT ![i] = j] /\ z.at = "done"
      BY <1>1, <1>2, <1>4, <1>6 DEF Deliver, At, GeoInv, GeoTypes
    <2>. HIDE DEF j
    <2>3. active /\ address \notin Unknown /\ (geo = None \/ (~overlap /\ geo # address))
            => i # address
      BY <1>1, <1>2, <2>2 DEF GeoInv, InOrder, Passing, OnTheWay
    <2>4. Settles(i)
      BY <1>2, <1>3, <1>4, <2>1, <2>2 DEF Settles, GeoInv, GeoTypes
    <2>. QED BY <1>1, <1>2, <1>3, <2>1, <2>2, <2>3, <2>4, GeoJob
  <1>7. CASE MapsFails(v)
    <2>1. PICK status \in {"pending", "dead"} :
            status = IF n >= MaxAttempts THEN "dead" ELSE q.status
      BY <1>3
    <2>. DEFINE j == [q EXCEPT !.attempts = n, !.status = status]
    <2>2. j \in JobRow /\ j.status = status /\ j.attempts = n
      BY DEF JobRow
    <2>3. jobs' = [jobs EXCEPT ![i] = j]
      BY <1>1, <1>2, <1>4, <1>7, <2>1 DEF MapsFails, GeoInv, GeoTypes
    <2>4. (status = "pending" => n < MaxAttempts) /\ (status = "dead" => ~(n < MaxAttempts))
      BY <1>3, <1>4, <2>1
    <2>. HIDE DEF j
    <2>5. jobs'[i] = j /\ \A k \in JobIds \ {i} : jobs'[k] = jobs[k]
      BY <2>3 DEF GeoInv, GeoTypes
    <2>6. Settles(i)
      BY <1>2, <1>3, <1>4, <2>1, <2>2, <2>4, <2>5 DEF Settles
    <2>. QED BY <1>1, <1>2, <1>3, <2>1, <2>2, <2>3, <2>4, <2>6, GeoJob
  <1>. QED BY <1>5, <1>6, <1>7

LEMMA GeoRequeue ==
    ASSUME GeoInv, NEW i \in JobIds, Requeue(i)
    PROVE  GeoInv' /\ Settles(i)
  <1>1. /\ NewJob \in JobRow /\ NewJob.status = "pending"
        /\ NewJob.attempts < MaxAttempts
    BY GeocodeAssumption DEF NewJob, JobRow
  <1>. QED BY <1>1, GeoJob DEF Requeue, Settles, GeoInv, GeoTypes

\* Every step keeps the invariant and settles at most one job.
LEMMA GeoNext ==
    ASSUME GeoInv, [GeocodeNext]_vars
    PROVE  /\ GeoInv'
           /\ UNCHANGED jobs \/ \E i \in JobIds : Settles(i)
  <1>1. CASE Cancel
    <2>1. active' = FALSE /\ UNCHANGED <<address, geo, jobs, run, overlap>>
      BY <1>1 DEF Cancel
    <2>2. ASSUME NEW v \in Workers PROVE Passing(run[v])'
      BY <2>1 DEF GeoInv, Passing
    <2>3. GeoTypes' /\ JobsSound' /\ OneClaim' /\ SomewhereOrWaiting'
      BY <2>1 DEF GeoInv, GeoTypes, JobIds, JobRow, RunRow, JobsSound, OneClaim, SomewhereOrWaiting
    <2>4. InOrder'
      BY <2>1 DEF GeoInv, InOrder, LocatedOrWaiting, Alone, OnTheWay
    <2>. QED BY <2>1, <2>2, <2>3, <2>4 DEF GeoInv
  <1>2. CASE UNCHANGED vars
    <2>1. UNCHANGED <<address, geo, active, jobs, run, overlap>>
      BY <1>2 DEF vars
    <2>2. ASSUME NEW v \in Workers PROVE Passing(run[v])'
      BY <2>1 DEF GeoInv, Passing
    <2>3. GeoTypes' /\ JobsSound' /\ OneClaim' /\ SomewhereOrWaiting'
      BY <2>1 DEF GeoInv, GeoTypes, JobIds, JobRow, RunRow, JobsSound, OneClaim, SomewhereOrWaiting
    <2>4. InOrder'
      BY <2>1 DEF GeoInv, InOrder, LocatedOrWaiting, Alone, OnTheWay
    <2>. QED BY <2>1, <2>2, <2>3, <2>4 DEF GeoInv
  <1>3. CASE ChangeAddress
    <2>1. Settles(address + 1)
      BY <1>3, GeoChangeAddress DEF ChangeAddress, Settles, GeoInv, GeoTypes
    <2>. QED BY <1>3, <2>1, GeoChangeAddress
  <1>4. ASSUME NEW v \in Workers, Work(v) PROVE GeoInv' /\ (UNCHANGED jobs \/ \E i \in JobIds : Settles(i))
    <2>1. CASE \E i \in JobIds : Claim(v, i)
      BY <2>1, GeoClaim DEF Claim
    <2>2. CASE ReadAddress(v)
      BY <2>2, GeoRead DEF ReadAddress
    <2>3. CASE StoreGeocode(v) \/ NoResults(v)
      BY <2>3, GeoStore DEF StoreGeocode, NoResults
    <2>4. CASE Deliver(v)
      BY <2>4, GeoEnd
    <2>. QED BY <1>4, <2>1, <2>2, <2>3, <2>4 DEF Work
  <1>5. ASSUME NEW v \in Workers, MapsFails(v) \/ Crash(v)
        PROVE  GeoInv' /\ (UNCHANGED jobs \/ \E i \in JobIds : Settles(i))
    BY <1>5, GeoEnd
  <1>. QED BY <1>1, <1>2, <1>3, <1>4, <1>5, GeoRequeue DEF GeocodeNext

\* What Settles says is what the ledger allows.
LEMMA SettlesInLedger ==
    ASSUME GeoInv, GeoInv', NEW i \in JobIds, Settles(i)
    PROVE  Ledger!LedgerNext
  <1>. DEFINE Fate(k) == IF jobs[k].status = "none" THEN "absent" ELSE jobs[k].status
  <1>1. \A k \in JobIds : /\ jobs[k] \in JobRow /\ jobs'[k] \in JobRow
                          /\ jobs[k].attempts \in Nat /\ jobs'[k].attempts \in Nat
    BY DEF GeoInv, GeoTypes, JobRow
  <1>2. \A k \in JobIds : /\ Fate(k) \in Ledger!Fates /\ Fate(k)' \in Ledger!Fates
                          /\ Fate(k) = "absent" <=> jobs[k].status = "none"
                          /\ Fate(k) # "absent" => Fate(k) = jobs[k].status
                          /\ Fate(k)' # "absent" => Fate(k)' = jobs'[k].status
    BY <1>1 DEF Ledger!Fates, JobRow
  <1>3. ASSUME NEW k \in JobIds, k # i PROVE Ledger!Keep(k)
    BY <1>3 DEF Settles, Ledger!Keep
  <1>4. CASE jobs[i].status = "none" /\ jobs'[i] = NewJob
    <2>1. Ledger!Enter(i)
      BY <1>4 DEF NewJob, Ledger!Enter
    <2>. QED BY <1>1, <1>2, <1>3, <2>1 DEF Ledger!LedgerNext
  <1>5. CASE jobs[i].status = "dead" /\ jobs'[i] = NewJob
    <2>1. Ledger!Revive(i)
      BY <1>5 DEF NewJob, Ledger!Revive
    <2>. QED BY <1>1, <1>2, <1>3, <2>1 DEF Ledger!LedgerNext
  <1>6. CASE /\ jobs[i].status = "pending" /\ jobs'[i].attempts = jobs[i].attempts + 1
             /\ jobs'[i].status = "delivered"
    <2>1. Ledger!Succeed(i)
      BY <1>6 DEF Ledger!Succeed
    <2>. QED BY <1>1, <1>2, <1>3, <2>1 DEF Ledger!LedgerNext
  <1>7. CASE /\ jobs[i].status = "pending" /\ jobs'[i].attempts = jobs[i].attempts + 1
             /\ jobs'[i].status = IF jobs[i].attempts + 1 < MaxAttempts THEN "pending" ELSE "dead"
    <2>1. Ledger!Fail(i)
      BY <1>7 DEF Ledger!Fail
    <2>. QED BY <1>1, <1>2, <1>3, <2>1 DEF Ledger!LedgerNext
  <1>. QED BY <1>4, <1>5, <1>6, <1>7 DEF Settles

LEMMA GeoInvariance == GeocodeSpec => []GeoInv
  <1>1. GeoInv /\ [GeocodeNext]_vars => GeoInv'
    BY GeoNext
  <1>. QED BY <1>1, GeoInit, PTL DEF GeocodeSpec

\* FR-11, NFR-09: with any number of workers, and however often the listing moves,
\* deliveries fail or workers die, once all geocoding is done an active listing at a known
\* address is on the map, and where it is unless deliveries have overlapped: coordinates
\* of an address before are overwritten by the job of the last one.
THEOREM LocationIsCurrent == GeocodeSpec => []LocationCatchesUp
  <1>1. GeoInv => LocationCatchesUp
    BY GeoRows DEF GeoInv, SomewhereOrWaiting, InOrder, LocatedOrWaiting, LocationCatchesUp, Quiet
  <1>. QED BY <1>1, GeoInvariance, PTL

\* RT-02, NFR-09: the geocoding jobs, claimed by any number of workers that overlap, fail and
\* crash, are the jobs of a ledger.
THEOREM GeocodeJobsAreLedgered == GeocodeSpec => FollowsJobLedger
  <1>1. GeocodeInit => Ledger!LedgerInit
    BY GeocodeAssumption DEF GeocodeInit, Ledger!LedgerInit, NewJob
  <1>2. GeoInv /\ GeoInv' /\ [GeocodeNext]_vars => [Ledger!LedgerNext]_(Ledger!ledger)
    <2>. SUFFICES ASSUME GeoInv, GeoInv', [GeocodeNext]_vars
                  PROVE  [Ledger!LedgerNext]_(Ledger!ledger)
      OBVIOUS
    <2>1. CASE UNCHANGED jobs
      BY <2>1 DEF Ledger!ledger
    <2>2. CASE \E i \in JobIds : Settles(i)
      BY <2>2, SettlesInLedger
    <2>. QED BY <2>1, <2>2, GeoNext
  <1>. QED BY <1>1, <1>2, GeoInvariance, PTL DEF GeocodeSpec, FollowsJobLedger, Ledger!LedgerSpec
=============================================================================
