------------------------ MODULE BufferScheduler_proofs ------------------------
(***************************************************************************)
(* Proofs about BufferScheduler for any events, times and buffers.         *)
(***************************************************************************)
EXTENDS BufferScheduler, FiniteSetTheorems, SequenceTheorems, WellFoundedInduction, TLAPS

-----------------------------------------------------------------------------
(* Induction over sets of numbers, and what follows of finite sets.        *)

\* A set of numbers that is not empty has a least one.
LEMMA LeastNumber ==
    ASSUME NEW T, T \subseteq Nat, T # {}
    PROVE  \E n \in T : \A m \in T : n <= m
<1> DEFINE R == {ss \in Nat \X Nat : ss[1] < ss[2]}
<1>1. IsWellFoundedOn(R, Nat)
  BY NatLessThanWellFounded, Zenon DEF OpToRel
<1>2. PICK n \in T : \A m \in T : ~(<<m, n>> \in R)
  <2> HIDE DEF R
  <2> QED
    BY <1>1, WFMin
<1>3. ASSUME NEW m \in T PROVE n <= m
  <2>1. m \in Nat /\ n \in Nat
    OBVIOUS
  <2>2. m < n => <<m, n>> \in R
    BY <2>1
  <2> QED
    BY <1>2, <2>1, <2>2
<1> QED
  BY <1>3

\* What holds of zero, and of n + 1 whenever of n, holds of all numbers.
LEMMA Induction ==
    ASSUME NEW T, 0 \in T, \A n \in Nat : n \in T => n + 1 \in T
    PROVE  Nat \subseteq T
<1> SUFFICES ASSUME Nat \ T # {} PROVE FALSE
  OBVIOUS
<1>1. PICK n \in Nat \ T : \A m \in Nat \ T : n <= m
  BY LeastNumber
<1>2. n # 0 /\ n - 1 \in Nat
  OBVIOUS
<1>3. n - 1 \in T
  BY <1>1, <1>2
<1>4. (n - 1) + 1 \in T
  BY <1>2, <1>3
<1> QED
  BY <1>4

\* A finite set of numbers has a greatest and a least element.
HasBounds(S) == /\ \E x \in S : \A y \in S : x >= y
                /\ \E x \in S : \A y \in S : x <= y

\* By induction over the number of the elements.
LEMMA FiniteBounds ==
    ASSUME NEW S, IsFiniteSet(S), S \subseteq Int, S # {}
    PROVE  HasBounds(S)
<1> DEFINE T == {n \in Nat : \A R \in SUBSET S :
                    IsFiniteSet(R) /\ R # {} /\ Cardinality(R) = n => HasBounds(R)}
<1>1. 0 \in T
  BY FS_EmptySet
<1>2. ASSUME NEW n \in Nat, n \in T PROVE n + 1 \in T
  <2>0. ASSUME NEW R \in SUBSET S, IsFiniteSet(R), R # {}, Cardinality(R) = n + 1
        PROVE  HasBounds(R)
    <3>1. PICK x \in R : TRUE
      BY <2>0
    <3>2. IsFiniteSet(R \ {x}) /\ Cardinality(R \ {x}) = n
      <4>1. IsFiniteSet(R \ {x}) /\ Cardinality(R \ {x}) = (n + 1) - 1
        BY <2>0, FS_RemoveElement
      <4> QED
        BY <4>1
    <3>3. CASE R \ {x} = {}
      <4>1. R = {x} /\ x \in Int
        BY <3>3
      <4> QED
        BY <4>1 DEF HasBounds
    <3>4. CASE R \ {x} # {}
      <4>1. HasBounds(R \ {x})
        BY <1>2, <3>2, <3>4
      <4>2. PICK u \in R \ {x} : \A y \in R \ {x} : u >= y
        BY <4>1 DEF HasBounds
      <4>3. PICK v \in R \ {x} : \A y \in R \ {x} : v <= y
        BY <4>1 DEF HasBounds
      <4>4. u \in Int /\ v \in Int /\ x \in Int
        OBVIOUS
      <4>5. \E z \in R : \A y \in R : z >= y
        <5>1. CASE u >= x
          BY <4>2, <5>1
        <5>2. CASE ~(u >= x)
          <6>1. \A y \in R : y \in Int
            OBVIOUS
          <6>2. \A y \in R : x >= y
            BY <4>2, <4>4, <5>2, <6>1
          <6> QED
            BY <6>2
        <5> QED
          BY <5>1, <5>2
      <4>6. \E z \in R : \A y \in R : z <= y
        <5>1. CASE v <= x
          BY <4>3, <5>1
        <5>2. CASE ~(v <= x)
          <6>1. \A y \in R : y \in Int
            OBVIOUS
          <6>2. \A y \in R : x <= y
            BY <4>3, <4>4, <5>2, <6>1
          <6> QED
            BY <6>2
        <5> QED
          BY <5>1, <5>2
      <4> QED
        BY <4>5, <4>6 DEF HasBounds
    <3> QED
      BY <3>3, <3>4
  <2> QED
    BY <2>0
<1> HIDE DEF T
<1>3. Nat \subseteq T
  BY <1>1, <1>2, Induction
<1>4. Cardinality(S) \in Nat
  BY FS_CardinalityType
<1>5. Cardinality(S) \in T
  BY <1>3, <1>4
<1> QED
  BY <1>5 DEF T

\* What Max and Min choose of a finite set of integers.
LEMMA MaxMin ==
    ASSUME NEW S, IsFiniteSet(S), S \subseteq Int, S # {}
    PROVE  /\ Max(S) \in S /\ \A y \in S : Max(S) >= y
           /\ Min(S) \in S /\ \A y \in S : Min(S) <= y
BY FiniteBounds DEF HasBounds, Max, Min

-----------------------------------------------------------------------------
(* Sequences restricted to a set.                                          *)

CountTo(keep, k) == Cardinality({j \in keep : j <= k})

\* Counting up to each of them numbers a finite set of numbers.
LEMMA RankBijection ==
    ASSUME NEW keep, IsFiniteSet(keep), keep \subseteq Nat
    PROVE  [k \in keep |-> CountTo(keep, k)] \in Bijection(keep, 1 .. Cardinality(keep))
<1> DEFINE K == Cardinality(keep)
           upto(k) == {j \in keep : j <= k}
           f == [k \in keep |-> CountTo(keep, k)]
<1>1. K \in Nat
  BY FS_CardinalityType
<1>2. ASSUME NEW k \in keep
      PROVE  /\ IsFiniteSet(upto(k)) /\ Cardinality(upto(k)) \in 1 .. K
             /\ f[k] = Cardinality(upto(k))
  <2>1. upto(k) \in SUBSET keep /\ k \in upto(k)
    OBVIOUS
  <2>2. IsFiniteSet(upto(k)) /\ Cardinality(upto(k)) <= K
    BY <2>1, FS_Subset
  <2>3. Cardinality(upto(k)) \in Nat /\ Cardinality(upto(k)) # 0
    BY <2>1, <2>2, FS_CardinalityType, FS_EmptySet
  <2>4. f[k] = Cardinality(upto(k))
    BY DEF CountTo
  <2> QED
    BY <1>1, <2>2, <2>3, <2>4
<1>3. ASSUME NEW k \in keep, NEW l \in keep, k < l
      PROVE  f[k] # f[l]
  <2>1. upto(k) \in SUBSET upto(l) /\ l \in upto(l) /\ l \notin upto(k)
    <3>1. \A j \in keep : j \in Nat
      OBVIOUS
    <3>2. \A j \in keep : j <= k => j <= l
      BY <1>3, <3>1
    <3>3. l <= l /\ ~(l <= k)
      BY <1>3, <3>1
    <3> QED
      BY <3>2, <3>3
  <2>2. Cardinality(upto(k)) # Cardinality(upto(l))
    BY <1>2, <2>1, FS_Subset
  <2> QED
    BY <1>2, <2>2
<1>4. f \in [keep -> 1 .. K]
  BY <1>2
<1> HIDE DEF f
<1>5. f \in Injection(keep, 1 .. K)
  <2>1. ASSUME NEW k \in keep, NEW l \in keep, f[k] = f[l] PROVE k = l
    BY <1>3, <2>1
  <2> QED
    BY <1>4, <2>1 DEF Injection, IsInjective
<1>6. IsFiniteSet(1 .. K) /\ Cardinality(1 .. K) = K
  BY <1>1, FS_Interval
<1>7. f \in Surjection(keep, 1 .. K)
  BY <1>5, <1>6, FS_Injection
<1> QED
  BY <1>5, <1>7 DEF Bijection, f

\* What is left of a sequence is as often in it as before; nothing else is in it.
LEMMA RestrictedProperties ==
    ASSUME NEW A, NEW s \in Seq(A), NEW S
    PROVE  /\ Restricted(s, S) \in Seq(A)
           /\ ToSet(Restricted(s, S)) = ToSet(s) \cap S
           /\ \A i \in S : Occurrences(Restricted(s, S), i) = Occurrences(s, i)
<1> DEFINE keep == {k \in DOMAIN s : s[k] \in S}
           K == Cardinality(keep)
           rank == [k \in keep |-> CountTo(keep, k)]
           index(n) == CHOOSE k \in keep : Cardinality({j \in keep : j <= k}) = n
           r == Restricted(s, S)
<1>1. DOMAIN s = 1 .. Len(s) /\ Len(s) \in Nat /\ \A k \in DOMAIN s : s[k] \in A
  OBVIOUS
<1>2. IsFiniteSet(DOMAIN s) /\ keep \in SUBSET (DOMAIN s) /\ keep \subseteq Nat
  BY <1>1, FS_Interval
<1>3. IsFiniteSet(keep) /\ K \in Nat
  BY <1>2, FS_Subset, FS_CardinalityType
<1>4. rank \in Bijection(keep, 1 .. K)
  BY <1>2, <1>3, RankBijection
<1>5. r = [n \in 1 .. K |-> s[index(n)]]
  BY DEF Restricted
<1>6. ASSUME NEW n \in 1 .. K
      PROVE  index(n) \in keep /\ rank[index(n)] = n
  <2>1. PICK k \in keep : rank[k] = n
    BY <1>4 DEF Bijection, Surjection
  <2>2. Cardinality({j \in keep : j <= k}) = n
    BY <2>1 DEF CountTo
  <2>3. index(n) \in keep /\ Cardinality({j \in keep : j <= index(n)}) = n
    BY <2>2
  <2> QED
    BY <2>3 DEF CountTo
<1>7. ASSUME NEW k \in keep
      PROVE  rank[k] \in 1 .. K /\ index(rank[k]) = k
  <2>1. rank[k] \in 1 .. K
    BY <1>4 DEF Bijection, Injection
  <2>2. index(rank[k]) \in keep /\ rank[index(rank[k])] = rank[k]
    BY <1>6, <2>1
  <2> QED
    BY <1>4, <2>1, <2>2 DEF Bijection, Injection, IsInjective
<1> HIDE DEF index, rank, r, K
<1>8. DOMAIN r = 1 .. K /\ \A n \in 1 .. K : r[n] = s[index(n)] /\ r[n] \in A \cap S
  BY <1>1, <1>5, <1>6
<1>9. r \in Seq(A)
  <2>1. r \in [1 .. K -> A]
    BY <1>5, <1>8
  <2> QED
    BY <1>3, <2>1
<1>10. ToSet(r) = ToSet(s) \cap S
  <2>1. ASSUME NEW i \in ToSet(s) \cap S PROVE i \in ToSet(r)
    <3>1. PICK k \in keep : s[k] = i
      BY DEF ToSet
    <3>2. r[rank[k]] = i /\ rank[k] \in DOMAIN r
      BY <1>7, <1>8, <3>1
    <3> QED
      BY <3>2 DEF ToSet
  <2>2. ASSUME NEW i \in ToSet(r) PROVE i \in ToSet(s) \cap S
    <3>1. PICK n \in 1 .. K : r[n] = i
      BY <1>8 DEF ToSet
    <3>2. index(n) \in DOMAIN s /\ s[index(n)] = i /\ i \in S
      BY <1>6, <1>8, <3>1
    <3> QED
      BY <3>2 DEF ToSet
  <2> QED
    BY <2>1, <2>2
<1>11. ASSUME NEW i \in S PROVE Occurrences(r, i) = Occurrences(s, i)
  <2> DEFINE P == {k \in DOMAIN s : s[k] = i}
             Q == {n \in DOMAIN r : r[n] = i}
             f == [k \in P |-> rank[k]]
  <2>1. P \subseteq keep /\ IsFiniteSet(P)
    BY <1>2, FS_Subset
  <2>2. \A k \in P : rank[k] \in Q /\ index(rank[k]) = k
    BY <1>7, <1>8, <2>1
  <2>3. \A n \in Q : index(n) \in P /\ rank[index(n)] = n
    BY <1>6, <1>8
  <2>4. f \in [P -> Q] /\ \A a, b \in P : f[a] = f[b] => a = b
    BY <2>2
  <2>5. \A n \in Q : f[index(n)] = n /\ index(n) \in P
    BY <2>3
  <2> HIDE DEF f, P, Q
  <2>6. f \in Bijection(P, Q)
    <3>1. DOMAIN f = P
      BY <2>4
    <3> QED
      BY <2>4, <2>5, <3>1 DEF Bijection, Injection, Surjection, IsInjective
  <2>7. Cardinality(Q) = Cardinality(P)
    BY <2>1, <2>6, FS_Bijection DEF ExistsBijection
  <2> QED
    BY <2>7 DEF Occurrences, P, Q
<1> QED
  BY <1>9, <1>10, <1>11 DEF r

-----------------------------------------------------------------------------
(* Types.                                                                  *)

\* Rounding gives an integer.
LEMMA RoundType ==
    ASSUME NEW value \in Int, NEW unit \in Nat \ {0}
    PROVE  Round(value, unit) \in Int
<1>1. value \div unit \in Int
  OBVIOUS
<1>2. \A x \in Int : x + 1 \in Int
  OBVIOUS
<1> QED
  BY <1>1, <1>2 DEF Round

\* So do the conversions of a time that is set.
LEMMA ConvertTypes ==
    /\ \A value \in Time : convert_resolution(value) \in Time
    /\ \A value \in Int : convert_resolution(value) \in Int /\ convert_seconds(value) \in Int
<1>1. ASSUME NEW value \in Int PROVE value # None /\ Round(value, Resolution) \in Int
  BY EventAssumption, RoundType
<1>2. ASSUME NEW value \in Int PROVE value * Resolution \in Int
  BY EventAssumption
<1> QED
  BY <1>1, <1>2 DEF convert_resolution, convert_seconds, Time

\* The agent's reports and the solver's plan change the times and the state of an event.
LEMMA MethodTypes ==
    ASSUME NEW e \in EventType, NEW time \in Int
    PROVE  /\ arrive(e, time) \in EventType /\ start(e, time) \in EventType
           /\ finish(e, time) \in EventType /\ depart(e, time) \in EventType
           /\ cancel(e) \in EventType
           /\ schedule_eta(e, time, None) \in EventType
           /\ schedule_etd(e, time, None) \in EventType
<1>1. convert_seconds(time) \in Int /\ time # None /\ time \in Time
  BY ConvertTypes, EventAssumption DEF Time
<1>2. /\ "ARRIVED" \in States /\ "STARTED" \in States /\ "FINISHED" \in States
      /\ "DEPARTED" \in States /\ "CANCELED" \in States /\ "SCHEDULED" \in States
  BY DEF States, Rank
<1>3. arrive(e, time) \in EventType
  BY <1>1, <1>2 DEF arrive, EventType, EtxType, Bounded
<1>4. depart(e, time) \in EventType
  BY <1>1, <1>2 DEF depart, EventType, EtxType
<1>5. start(e, time) \in EventType /\ finish(e, time) \in EventType
  BY <1>1, <1>2 DEF start, finish, EventType, Time
<1>6. cancel(e) \in EventType
  BY <1>2 DEF cancel, EventType
<1>7. \A f \in EventType : Rescheduled(f) \in EventType
  BY <1>2 DEF Rescheduled, EventType
<1>8. [e EXCEPT !.eta = Bounds(@, time, None)] \in EventType
  BY <1>1 DEF Bounds, EventType, EtxType, Bounded
<1>9. [e EXCEPT !.etd = Bounds(@, time, None)] \in EventType
  BY <1>1 DEF Bounds, EventType, EtxType
<1> QED
  BY <1>3, <1>4, <1>5, <1>6, <1>7, <1>8, <1>9 DEF schedule_eta, schedule_etd

\* A plan changes the times of an event, and not the state.
LEMMA PlanTypes ==
    ASSUME NEW e \in EventType, NEW p,
           p.eta \in Int, p.start \in Int, p.finish \in Int, p.etd \in Int
    PROVE  /\ Plan(e, p) \in EventType
           /\ Plan(e, p).state = e.state
           /\ Plan(e, p).canceled = e.canceled
<1>1. /\ convert_seconds(p.eta) \in Time /\ convert_seconds(p.start) \in Time
      /\ convert_seconds(p.finish) \in Time /\ convert_seconds(p.etd) \in Time
  BY ConvertTypes DEF Time
<1>2. CASE e.state = "NEW"
  BY <1>1, <1>2 DEF Plan, EventType, EtxType, Bounded
<1>3. CASE e.state \in {"SCHEDULED", "ARRIVED"}
  BY <1>1, <1>3 DEF Plan, EventType
<1>4. CASE e.state = "STARTED"
  BY <1>1, <1>4 DEF Plan, EventType
<1>5. CASE e.state \notin {"NEW", "SCHEDULED", "ARRIVED", "STARTED"}
  BY <1>5 DEF Plan
<1> QED
  BY <1>2, <1>3, <1>4, <1>5

\* The values of a function with a finite domain are finitely many.
LEMMA RangeFinite ==
    ASSUME NEW f, IsFiniteSet(DOMAIN f)
    PROVE  IsFiniteSet({f[x] : x \in DOMAIN f})
<1> DEFINE R == {f[x] : x \in DOMAIN f}
           g == [x \in DOMAIN f |-> f[x]]
<1>1. g \in Surjection(DOMAIN f, R)
  BY DEF Surjection
<1> HIDE DEF g, R
<1>2. IsFiniteSet(R)
  BY <1>1, FS_Surjection
<1> QED
  BY <1>2 DEF R

\* What an event demands of the time range.
LEMMA MakespanType ==
    ASSUME NEW e \in EventType, ~Raises(e)
    PROVE  /\ get_variables(e).makespan[1] \in Time
           /\ get_variables(e).makespan[2] \in Time
<1> DEFINE conv(value) == convert_resolution(value)
<1>1. \A x \in EtxType : Constraints(x)[1] \in Time /\ Constraints(x)[2] \in Time
  BY ConvertTypes DEF Constraints, EtxType, Time
<1>2. Constraints(e.eta)[1] \in Time /\ Constraints(e.etd)[2] \in Time
  BY <1>1 DEF EventType
<1>3. /\ conv(e.eta.time) \in Time /\ conv(get_start(e)) \in Time
      /\ conv(get_finish(e)) \in Time /\ conv(e.etd.time) \in Time
  BY ConvertTypes DEF EventType, EtxType, get_start, get_finish
<1>4. e.state \in {"NEW", "SCHEDULED", "ARRIVED", "STARTED", "FINISHED", "DEPARTED"}
  BY DEF EventType, States, Rank, Raises
<1> HIDE DEF conv
<1>5. CASE e.state \in {"NEW", "SCHEDULED"}
  BY <1>2, <1>5 DEF get_variables, Windows
<1>6. CASE e.state \in {"ARRIVED", "STARTED"}
  BY <1>2, <1>3, <1>6 DEF get_variables, Windows, conv
<1>7. CASE e.state = "FINISHED"
  BY <1>2, <1>3, <1>7 DEF get_variables, Windows, conv
<1>8. CASE e.state = "DEPARTED"
  BY <1>2, <1>3, <1>8 DEF get_variables, Windows, conv
<1> QED
  BY <1>4, <1>5, <1>6, <1>7, <1>8

\* The time range has an end, whatever the events leave open.
LEMMA TimeRangeType ==
    ASSUME NEW spans, IsFiniteSet(spans), \A s \in spans : s[1] \in Time /\ s[2] \in Time
    PROVE  TimeRange(spans)[2] \in Int
<1> DEFINE mins == {s[1] : s \in spans} \ {None}
           maxs == {s[2] : s \in spans} \ {None}
<1>1. IsFiniteSet({s[1] : s \in spans}) /\ IsFiniteSet({s[2] : s \in spans})
  <2> DEFINE f == [s \in spans |-> s[1]]
             g == [s \in spans |-> s[2]]
  <2>1. {s[1] : s \in spans} = {f[x] : x \in DOMAIN f} /\ IsFiniteSet(DOMAIN f)
    OBVIOUS
  <2>2. {s[2] : s \in spans} = {g[x] : x \in DOMAIN g} /\ IsFiniteSet(DOMAIN g)
    OBVIOUS
  <2> HIDE DEF f, g
  <2> QED
    BY <2>1, <2>2, RangeFinite
<1>2. IsFiniteSet(mins) /\ IsFiniteSet(maxs)
  BY <1>1, FS_Subset
<1>3. mins \subseteq Int /\ maxs \subseteq Int
  BY DEF Time
<1> HIDE DEF mins, maxs
<1>4. mins # {} => Min(mins) \in Int /\ Max(mins) \in Int
  BY <1>2, <1>3, MaxMin
<1>5. maxs # {} => Min(maxs) \in Int /\ Max(maxs) \in Int
  BY <1>2, <1>3, MaxMin
<1>6. Horizon \in Int
  BY SchedulerAssumption
<1>7. \A x, y \in Int : Round(Horizon - (x - y), 2) \in Int
  BY <1>6, RoundType
<1> DEFINE short == Max(maxs) - Min(mins) < Horizon
           noneMin == \E s \in spans : s[1] = None
           noneMax == \E s \in spans : s[2] = None
           slack == Round(Horizon - (Max(maxs) - Min(mins)), 2)
<1> HIDE DEF short, noneMin, noneMax, slack
<1>8. CASE mins = {} /\ maxs = {}
  BY <1>6, <1>8 DEF TimeRange, mins, maxs
<1>9. CASE mins # {} /\ maxs = {}
  <2>1. TimeRange(spans) = <<Min(mins), Max(mins) + Horizon>>
    BY <1>9 DEF TimeRange, mins, maxs
  <2> QED
    BY <1>4, <1>6, <1>9, <2>1
<1>10. CASE mins = {} /\ maxs # {}
  <2>1. TimeRange(spans) = <<Min(maxs) - Horizon, Max(maxs)>>
    BY <1>10 DEF TimeRange, mins, maxs
  <2> QED
    BY <1>5, <1>10, <2>1
<1>11. CASE mins # {} /\ maxs # {}
  <2>1. TimeRange(spans) =
            CASE short /\ noneMin /\ noneMax -> <<Min(mins) - slack, Max(maxs) + slack>>
              [] short /\ noneMin /\ ~noneMax -> <<Max(maxs) - Horizon, Max(maxs)>>
              [] short /\ ~noneMin /\ noneMax -> <<Min(mins), Min(mins) + Horizon>>
              [] OTHER -> <<Min(mins), Max(maxs)>>
    BY <1>11 DEF TimeRange, mins, maxs, short, noneMin, noneMax, slack
  <2>2. slack \in Int
    BY <1>4, <1>5, <1>7, <1>11 DEF slack
  <2> QED
    BY <1>4, <1>5, <1>6, <1>11, <2>1, <2>2
<1> QED
  BY <1>8, <1>9, <1>10, <1>11

-----------------------------------------------------------------------------
(* A request.                                                              *)

\* There is only one sequence of the elements of a singleton.
LEMMA Singleton ==
    ASSUME NEW i
    PROVE  SetToSeq({i}) = <<i>>
<1>1. Cardinality({i}) = 1 /\ 1 .. 1 = {1}
  BY FS_Singleton
<1>2. <<i>> \in [1 .. 1 -> {i}] /\ IsInjective(<<i>>)
  BY <1>1 DEF IsInjective
<1>3. \A f \in [1 .. 1 -> {i}] : f = <<i>>
  BY <1>1
<1> QED
  BY <1>1, <1>2, <1>3 DEF SetToSeq

\* There is only one sequence of no elements.
LEMMA EmptyToSeq == SetToSeq({}) = <<>>
<1>1. Cardinality({}) = 0 /\ 1 .. 0 = {}
  BY FS_EmptySet
<1>2. <<>> \in [1 .. 0 -> {}] /\ IsInjective(<<>>)
  BY <1>1 DEF IsInjective
<1>3. \A f \in [1 .. 0 -> {}] : f = <<>>
  BY <1>1
<1> QED
  BY <1>1, <1>2, <1>3 DEF SetToSeq

\* A request is about one event that is not registered, or about none.
Askable == {{}} \cup {{i} : i \in {j \in Created : Unsaved(j)}}

\* What a request is about has been created.
LEMMA AskableFacts ==
    ASSUME NEW new \in Askable
    PROVE  new \in SUBSET Created /\ SetToSeq(new) \in Seq(Created)
<1>1. CASE new = {}
  <2>1. SetToSeq(new) = <<>> /\ <<>> \in Seq(Created)
    BY <1>1, EmptyToSeq
  <2> QED
    BY <1>1, <2>1
<1>2. CASE \E i \in Created : new = {i}
  <2>1. PICK i \in Created : new = {i}
    BY <1>2
  <2>2. SetToSeq(new) = <<i>> /\ <<i>> \in Seq(Created)
    BY <2>1, Singleton
  <2> QED
    BY <2>1, <2>2
<1> QED
  BY <1>1, <1>2 DEF Askable

\* So have the events that are planned; those that are swept are over.
LEMMA CandidateFacts ==
    ASSUME TypeOK, NEW new \in SUBSET Created
    PROVE  /\ Candidates(new) \in SUBSET Created /\ IsFiniteSet(Candidates(new))
           /\ Registered \in SUBSET Created
           /\ Swept \subseteq Registered /\ \A i \in Swept : Over(i)
<1>1. Registered \in SUBSET Created
  BY DEF TypeOK, Registered, ToSet
<1>2. Candidates(new) \in SUBSET Created
  BY <1>1 DEF Candidates, Live, Kept
<1>3. IsFiniteSet(Number) /\ Created \in SUBSET Number
  BY SchedulerAssumption, FS_Interval DEF Number, TypeOK
<1>4. IsFiniteSet(Candidates(new))
  BY <1>2, <1>3, FS_Subset
<1>5. Swept \subseteq Dropped
  BY DEF Swept
<1> QED
  BY <1>1, <1>2, <1>4, <1>5 DEF Dropped

\* What the solver chooses is within the windows of the events, and fits together.
LEMMA ChosenFacts ==
    ASSUME NEW C, NEW new, NEW first, NEW last,
           NEW plan \in Optimal(Solutions(C, new, first, last))
    PROVE  /\ \A i \in C : plan[i] \in PlansOf(i, first, last)
           /\ NoOvertakingIn(plan, Queue(C, new))
           /\ Fits(plan, C)
<1> DEFINE own == [i \in C |-> PlansOf(i, first, last)]
<1>1. plan \in Solutions(C, new, first, last)
  BY DEF Optimal
<1>2. plan \in Combinations(own) /\ NoOvertakingIn(plan, Queue(C, new)) /\ Fits(plan, C)
  BY <1>1 DEF Solutions, Possible
<1>3. \A i \in C : plan[i] \in own[i]
  BY <1>2 DEF Combinations
<1> QED
  BY <1>2, <1>3

\* The times of a plan are in the windows of the event.
LEMMA WindowFacts ==
    ASSUME NEW i, NEW first, NEW last, NEW p \in PlansOf(i, first, last)
    PROVE  LET v == get_variables(event[i])
           IN  /\ p.eta \in Within(v.eta, first, last)
               /\ p.start \in Within(v.start, first, last)
               /\ p.finish \in Within(v.finish, first, last)
               /\ p.etd \in Within(v.etd, first, last)
BY DEF PlansOf, PlansIn

\* The times of a plan are integers.
LEMMA PlanIntegers ==
    ASSUME NEW i, NEW first, NEW last, NEW p \in PlansOf(i, first, last)
    PROVE  p.eta \in Int /\ p.start \in Int /\ p.finish \in Int /\ p.etd \in Int
<1>1. \A window : Within(window, first, last) \subseteq Int
  BY DEF Within
<1> QED
  BY <1>1, WindowFacts

\* What comes of a request that is answered with a plan.
Succeeds(call, new, first, last, plan) ==
    LET C == Candidates(new) IN
    /\ \A i \in C : ~Raises(event[i])
    /\ plan \in Optimal(Solutions(C, new, first, last))
    /\ event' = [i \in Created |-> IF i \in C THEN Plan(event[i], plan[i]) ELSE event[i]]
    /\ events' = Remaining(Swept) \o (IF call = "save" THEN SetToSeq(new) ELSE <<>>)
    /\ saved' = [i \in Number |-> saved[i] + IF call = "save" /\ i \in new THEN 1 ELSE 0]
    /\ answer' = Answer(call, new, "ok")

\* What comes of one that is not.
Fails(call, new) ==
    /\ \E result \in {"refused", "error"} : answer' = Answer(call, new, result)
    /\ events' = Remaining(Swept)
    /\ UNCHANGED <<event, saved>>

\* A request is answered with a plan or fails; both remove what was swept.
LEMMA SolveFacts ==
    ASSUME NEW call, NEW new, Solve(call, new)
    PROVE  /\ Cleanup(Swept) /\ clock' = clock
           /\ \/ Fails(call, new)
              \/ \E first, last, plan : Succeeds(call, new, first, last, plan)
<1> DEFINE C == Candidates(new)
           span == Makespan(C)
<1> HIDE DEF C, span
<1>1. SolveModel(call, new, C, span, Swept)
  BY DEF Solve, C, span
<1>2. Cleanup(Swept) /\ clock' = clock
  BY <1>1 DEF SolveModel
<1>3. CASE \E i \in C : Raises(event[i])
  <2>1. /\ events' = Remaining(Swept) /\ answer' = Answer(call, new, "error")
        /\ UNCHANGED <<event, max_horizon, saved>>
    BY <1>1, <1>3 DEF SolveModel
  <2> QED
    BY <1>2, <2>1 DEF Fails
<1>4. CASE ~\E i \in C : Raises(event[i])
  <2> DEFINE last == Max({max_horizon, span[2]})
             first == span[1]
  <2> HIDE DEF first, last
  <2>1. Optimize(call, new, C, Solutions(C, new, first, last), Swept)
    BY <1>1, <1>4 DEF SolveModel, Build, first, last
  <2>2. \/ Fails(call, new)
        \/ \E plan \in Optimal(Solutions(C, new, first, last)) :
               /\ event' = [i \in Created |->
                               IF i \in C THEN Plan(event[i], plan[i]) ELSE event[i]]
               /\ events' = Remaining(Swept) \o (IF call = "save" THEN SetToSeq(new) ELSE <<>>)
               /\ saved' = [i \in Number |->
                               saved[i] + IF call = "save" /\ i \in new THEN 1 ELSE 0]
               /\ answer' = Answer(call, new, "ok")
    BY <2>1 DEF Optimize, Fails
  <2>3. ASSUME NEW plan \in Optimal(Solutions(C, new, first, last)),
               event' = [i \in Created |->
                            IF i \in C THEN Plan(event[i], plan[i]) ELSE event[i]],
               events' = Remaining(Swept) \o (IF call = "save" THEN SetToSeq(new) ELSE <<>>),
               saved' = [i \in Number |->
                            saved[i] + IF call = "save" /\ i \in new THEN 1 ELSE 0],
               answer' = Answer(call, new, "ok")
        PROVE  Succeeds(call, new, first, last, plan)
    BY <1>4, <2>3 DEF Succeeds, C
  <2> QED
    BY <1>2, <2>2, <2>3
<1> QED
  BY <1>3, <1>4

\* The horizon of a request is an integer.
LEMMA HorizonType ==
    ASSUME TypeOK, NEW call, NEW new \in SUBSET Created, Solve(call, new)
    PROVE  max_horizon' \in Int
<1> DEFINE C == Candidates(new)
           span == Makespan(C)
<1>1. SolveModel(call, new, C, span, Swept)
  BY DEF Solve
<1>2. C \in SUBSET Created /\ IsFiniteSet(C)
  BY CandidateFacts
<1> HIDE DEF C, span
<1>3. CASE \E i \in C : Raises(event[i])
  BY <1>1, <1>3 DEF SolveModel, TypeOK
<1>4. CASE ~\E i \in C : Raises(event[i])
  <2> DEFINE f == [i \in C |-> get_variables(event[i]).makespan]
             m == Max({max_horizon, span[2]})
  <2>1. Spans(C) = {f[x] : x \in DOMAIN f} /\ IsFiniteSet(DOMAIN f)
    BY <1>2 DEF Spans
  <2>2. \A i \in C : event[i] \in EventType
    BY <1>2 DEF TypeOK, Created
  <2>3. \A i \in C : f[i][1] \in Time /\ f[i][2] \in Time
    BY <1>4, <2>2, MakespanType
  <2> HIDE DEF f
  <2>4. IsFiniteSet(Spans(C)) /\ \A s \in Spans(C) : s[1] \in Time /\ s[2] \in Time
    <3>1. DOMAIN f = C
      BY DEF f
    <3> QED
      BY <2>1, <2>3, <3>1, RangeFinite
  <2>5. span[2] \in Int
    BY <2>4, TimeRangeType DEF span, Makespan
  <2>6. IsFiniteSet({max_horizon, span[2]}) /\ {max_horizon, span[2]} \subseteq Int
    <3>1. {max_horizon, span[2]} = {max_horizon} \cup {span[2]} /\ max_horizon \in Int
      BY DEF TypeOK
    <3>2. IsFiniteSet({max_horizon}) /\ IsFiniteSet({span[2]})
      BY FS_Singleton
    <3> QED
      BY <2>5, <3>1, <3>2, FS_Union
  <2>7. m \in Int
    BY <2>6, MaxMin
  <2> HIDE DEF m
  <2>8. Build(call, new, C, span[1], m, Swept)
    BY <1>1, <1>4 DEF SolveModel, m
  <2> QED
    BY <2>7, <2>8 DEF Build
<1> QED
  BY <1>3, <1>4

-----------------------------------------------------------------------------
(* Type correctness.                                                       *)

\* An event keeps its number and its state when it is planned.
LEMMA AnsweredTypes ==
    ASSUME TypeOK, NEW call, NEW new \in SUBSET Created, NEW first, NEW last, NEW plan,
           Succeeds(call, new, first, last, plan)
    PROVE  /\ event' \in Seq(EventType) /\ Created' = Created
           /\ \A i \in Created : /\ event[i] \in EventType
                                 /\ event'[i].state = event[i].state
                                 /\ event'[i].canceled = event[i].canceled
<1> DEFINE C == Candidates(new)
<1>1. /\ \A i \in C : plan[i] \in PlansOf(i, first, last)
      /\ event' = [i \in Created |-> IF i \in C THEN Plan(event[i], plan[i]) ELSE event[i]]
  BY ChosenFacts DEF Succeeds
<1>2. \A i \in Created : event[i] \in EventType
  BY DEF TypeOK, Created
<1>3. ASSUME NEW i \in Created
      PROVE  /\ event'[i] \in EventType
             /\ event'[i].state = event[i].state
             /\ event'[i].canceled = event[i].canceled
  <2>1. CASE i \in C
    <3>1. /\ plan[i].eta \in Int /\ plan[i].start \in Int
          /\ plan[i].finish \in Int /\ plan[i].etd \in Int
      BY <1>1, <2>1, PlanIntegers
    <3>2. event'[i] = Plan(event[i], plan[i])
      BY <1>1, <2>1
    <3> QED
      BY <1>2, <3>1, <3>2, PlanTypes
  <2>2. CASE i \notin C
    BY <1>1, <1>2, <2>2
  <2> QED
    BY <2>1, <2>2
<1>4. Created = 1 .. Len(event) /\ Len(event) \in Nat
  BY DEF TypeOK, Created
<1>5. DOMAIN event' = Created
  BY <1>1
<1>6. event' \in [1 .. Len(event) -> EventType]
  BY <1>1, <1>3, <1>4
<1>7. event' \in Seq(EventType)
  BY <1>4, <1>6
<1> QED
  BY <1>2, <1>3, <1>5, <1>7 DEF Created

\* What is registered after the sweep.
LEMMA RemainingFacts ==
    ASSUME TypeOK
    PROVE  /\ Remaining(Swept) \in Seq(Created)
           /\ ToSet(Remaining(Swept)) = Registered \ Swept
           /\ \A i \in Created : Occurrences(Remaining(Swept), i) =
                                     IF i \in Swept THEN 0 ELSE Occurrences(events, i)
<1> DEFINE S == Registered \ Swept
           r == Restricted(events, S)
<1>1. /\ r \in Seq(Created) /\ ToSet(r) = ToSet(events) \cap S
      /\ \A i \in S : Occurrences(r, i) = Occurrences(events, i)
  BY RestrictedProperties DEF TypeOK
<1>2. Remaining(Swept) = r /\ ToSet(events) = Registered
  BY DEF Remaining, Registered
<1>3. ASSUME NEW s, NEW i, i \notin ToSet(s) PROVE Occurrences(s, i) = 0
  <2>1. {k \in DOMAIN s : s[k] = i} = {}
    BY <1>3 DEF ToSet
  <2> QED
    BY <2>1, FS_EmptySet DEF Occurrences
<1> HIDE DEF r
<1>4. ASSUME NEW i \in Created
      PROVE  Occurrences(r, i) = IF i \in Swept THEN 0 ELSE Occurrences(events, i)
  <2>1. CASE i \in S
    BY <1>1, <2>1
  <2>2. CASE i \notin S
    <3>1. Occurrences(r, i) = 0
      BY <1>1, <1>3, <2>2
    <3>2. i \notin Swept => Occurrences(events, i) = 0
      BY <1>2, <1>3, <2>2
    <3> QED
      BY <3>1, <3>2
  <2> QED
    BY <2>1, <2>2
<1> QED
  BY <1>1, <1>2, <1>4

\* Occurrences are counted by a number.
LEMMA OccurrencesType ==
    ASSUME NEW A, NEW s \in Seq(A), NEW i
    PROVE  Occurrences(s, i) \in Nat
<1>1. IsFiniteSet(DOMAIN s) /\ {k \in DOMAIN s : s[k] = i} \in SUBSET (DOMAIN s)
  BY FS_Interval
<1> QED
  BY <1>1, FS_Subset, FS_CardinalityType DEF Occurrences

\* A request preserves the types.
LEMMA SolveType ==
    ASSUME TypeOK, NEW call \in Calls, NEW new \in Askable, Solve(call, new)
    PROVE  TypeOK'
<1>1. new \in SUBSET Created /\ SetToSeq(new) \in Seq(Created)
  BY AskableFacts
<1>2. max_horizon' \in Int
  BY <1>1, HorizonType
<1>3. Cleanup(Swept) /\ clock' = clock
  BY SolveFacts
<1>4. clock' \in Nat
  BY <1>3 DEF TypeOK
<1>5. removed' \in [Number -> Nat]
  <2>1. \A i \in Number : Occurrences(events, i) \in Nat /\ removed[i] \in Nat
    BY OccurrencesType DEF TypeOK
  <2>2. \A i \in Number : removed[i] + (IF i \in Swept THEN Occurrences(events, i) ELSE 0) \in Nat
    BY <2>1
  <2> QED
    BY <1>3, <2>2 DEF Cleanup
<1>6. Remaining(Swept) \in Seq(Created)
  BY RemainingFacts
<1>7. CASE Fails(call, new)
  <2>1. /\ event' = event /\ saved' = saved /\ events' = Remaining(Swept)
        /\ Created' = Created
    BY <1>7 DEF Fails, Created
  <2>2. answer' \in [call : Calls \cup {"none"}, new : SUBSET Created,
                     result : {"none", "ok", "refused", "error"}]
    BY <1>1, <1>7 DEF Fails, Answer
  <2> QED
    BY <1>2, <1>4, <1>5, <1>6, <2>1, <2>2 DEF TypeOK
<1>8. CASE \E first, last, plan : Succeeds(call, new, first, last, plan)
  <2>1. PICK first, last, plan : Succeeds(call, new, first, last, plan)
    BY <1>8
  <2>2. event' \in Seq(EventType) /\ Created' = Created
    BY <1>1, <2>1, AnsweredTypes
  <2>3. answer' \in [call : Calls \cup {"none"}, new : SUBSET Created,
                     result : {"none", "ok", "refused", "error"}]
    BY <1>1, <2>1 DEF Succeeds, Answer
  <2>4. events' \in Seq(Created)
    BY <1>1, <1>6, <2>1 DEF Succeeds
  <2>5. saved' \in [Number -> Nat]
    <3>1. \A i \in Number : saved[i] + (IF call = "save" /\ i \in new THEN 1 ELSE 0) \in Nat
      BY DEF TypeOK
    <3> QED
      BY <2>1, <3>1 DEF Succeeds
  <2>6. Created \subseteq Number
    BY DEF TypeOK
  <2> QED
    BY <1>2, <1>4, <1>5, <2>2, <2>3, <2>4, <2>5, <2>6 DEF TypeOK, Number
<1> QED
  BY <1>7, <1>8, SolveFacts

\* What the agent's call makes of an event.
Step(i, e) ==
    \/ i \in Registered /\ event[i].state \in {"NEW", "SCHEDULED"} /\ e = arrive(event[i], clock)
    \/ event[i].state = "ARRIVED" /\ e = start(event[i], clock)
    \/ event[i].state = "STARTED" /\ e = finish(event[i], clock)
    \/ event[i].state = "FINISHED" /\ e = depart(event[i], clock)
    \/ e = cancel(event[i])
    \/ \E time \in Dates :
        e = schedule_etd(event[i], time, None) \/ e = schedule_eta(event[i], time, None)

\* Every step is one of these.
LEMMA NextFacts ==
    ASSUME Next
    PROVE  \/ \E kwargs \in Kwargs : Create(kwargs)
           \/ \E call \in Calls, new \in Askable :
                  Solve(call, new) /\ (call = "save" => new # {})
           \/ \E i \in Created : \E e : Step(i, e) /\ Report(i, e)
           \/ Tick
<1> DEFINE Asked == \E call \in Calls, new \in Askable :
                        Solve(call, new) /\ (call = "save" => new # {})
           Told == \E i \in Created : \E e : Step(i, e) /\ Report(i, e)
<1>1. ASSUME NEW i \in Created, save(i) \/ can_schedule(i) PROVE Asked
  <2>1. {i} \in Askable /\ {i} # {} /\ "save" \in Calls /\ "can_schedule" \in Calls
    BY <1>1 DEF Askable, Calls, save, can_schedule
  <2>2. Solve("save", {i}) \/ Solve("can_schedule", {i})
    BY <1>1 DEF save, can_schedule
  <2> QED
    BY <2>1, <2>2
<1>2. ASSUME validate PROVE Asked
  <2>1. {} \in Askable /\ "validate" \in Calls /\ "validate" # "save"
    BY DEF Askable, Calls
  <2> QED
    BY <1>2, <2>1 DEF validate
<1>3. ASSUME NEW i \in Created, Arrive(i) \/ Start(i) \/ Finish(i) \/ Depart(i)
      PROVE  Told
  BY <1>3 DEF Arrive, Start, Finish, Depart, Step
<1>4. ASSUME NEW i \in Created, Cancel(i) PROVE Told
  BY <1>4 DEF Cancel, Step
<1>5. ASSUME NEW i \in Created, NEW time \in Dates, Appoint(i, time) \/ Move(i, time)
      PROVE  Told
  BY <1>5 DEF Appoint, Move, Step
<1> HIDE DEF Asked, Told
<1>6. \/ \E kwargs \in Kwargs : Create(kwargs)
      \/ Asked \/ Told \/ Tick
  BY <1>1, <1>2, <1>3, <1>4, <1>5 DEF Next
<1> QED
  BY <1>6 DEF Asked, Told

\* What the agent's call makes of an event is an event.
LEMMA StepTypes ==
    ASSUME TypeOK, NEW i \in Created, NEW e, Step(i, e)
    PROVE  event[i] \in EventType /\ e \in EventType
<1>1. event[i] \in EventType /\ clock \in Int
  BY DEF TypeOK, Created
<1>2. \A time \in Dates : time \in Int
  BY SchedulerAssumption
<1> QED
  BY <1>1, <1>2, MethodTypes DEF Step

\* All variables have their types, for any events, times and buffers: whatever is written
\* back to an event is a time, and only numbers of created events are registered.
THEOREM TypeCorrect == Spec => []TypeOK
<1>1. Init => TypeOK
  <2> SUFFICES ASSUME Init PROVE TypeOK
    OBVIOUS
  <2>1. event = <<>> /\ events = <<>> /\ Created = {}
    BY DEF Init, Created
  <2>2. event \in Seq(EventType) /\ events \in Seq(Created) /\ Created \subseteq Number
    BY <2>1
  <2>3. max_horizon \in Int /\ clock \in Nat
    BY SchedulerAssumption DEF Init
  <2>4. saved \in [Number -> Nat] /\ removed \in [Number -> Nat]
    BY DEF Init
  <2>5. answer \in [call : Calls \cup {"none"}, new : SUBSET Created,
                    result : {"none", "ok", "refused", "error"}]
    BY DEF Init, NoAnswer
  <2> QED
    BY <2>2, <2>3, <2>4, <2>5 DEF TypeOK
<1>2. TypeOK /\ [Next]_vars => TypeOK'
  <2> SUFFICES ASSUME TypeOK, [Next]_vars PROVE TypeOK'
    OBVIOUS
  <2>1. ASSUME NEW kwargs \in Kwargs, Create(kwargs) PROVE TypeOK'
    <3>1. NewEvent(kwargs) \in EventType
      BY SchedulerAssumption DEF NewEvent, EventType, States, Rank, Bounded, Time
    <3>2. /\ event' \in Seq(EventType) /\ Len(event') = Len(event) + 1
          /\ Len(event) < MaxEvents /\ events = <<>>
      BY <2>1, <3>1 DEF Create, TypeOK
    <3>3. Created' \subseteq Number
      BY <3>2, SchedulerAssumption DEF Created, Number, TypeOK
    <3>4. events' \in Seq(Created')
      BY <2>1 DEF Create
    <3>5. answer' \in [call : Calls \cup {"none"}, new : SUBSET Created',
                       result : {"none", "ok", "refused", "error"}]
      BY <2>1 DEF Create, NoAnswer
    <3> QED
      BY <2>1, <3>2, <3>3, <3>4, <3>5 DEF Create, TypeOK, Number
  <2>2. ASSUME NEW call \in Calls, NEW new \in Askable, Solve(call, new) PROVE TypeOK'
    BY <2>2, SolveType
  <2>3. ASSUME NEW i \in Created, NEW e, Step(i, e), Report(i, e) PROVE TypeOK'
    <3>1. e \in EventType
      BY <2>3, StepTypes
    <3>2. event' \in Seq(EventType) /\ Created' = Created
      BY <2>3, <3>1 DEF Report, TypeOK, Created
    <3>3. answer' \in [call : Calls \cup {"none"}, new : SUBSET Created',
                       result : {"none", "ok", "refused", "error"}]
      BY <2>3 DEF Report, NoAnswer
    <3> QED
      BY <2>3, <3>2, <3>3 DEF Report, TypeOK, Number
  <2>4. ASSUME Tick PROVE TypeOK'
    <3>1. answer' \in [call : Calls \cup {"none"}, new : SUBSET Created',
                       result : {"none", "ok", "refused", "error"}]
      BY <2>4 DEF Tick, NoAnswer
    <3> QED
      BY <2>4, <3>1 DEF Tick, TypeOK, Number, Created
  <2>5. ASSUME UNCHANGED vars PROVE TypeOK'
    BY <2>5 DEF vars, TypeOK, Number, Created
  <2> QED
    BY <2>1, <2>2, <2>3, <2>4, <2>5, NextFacts
<1> QED
  BY <1>1, <1>2, PTL DEF Spec

-----------------------------------------------------------------------------
(* No event gets lost.                                                     *)

\* The bookkeeping, for all numbers, also those of the events that will be created.
Accounted == \A i \in Number : saved[i] = removed[i] + Occurrences(events, i)

\* Only what is over is removed.
RemovesOver == \A i \in Number : removed'[i] # removed[i] => i \in Created /\ Over(i)

\* Appending an event counts for that event only.
LEMMA OccurrencesOfAppended ==
    ASSUME NEW A, NEW s \in Seq(A), NEW j \in A, NEW i
    PROVE  Occurrences(s \o <<j>>, i) = Occurrences(s, i) + IF i = j THEN 1 ELSE 0
<1> DEFINE t == s \o <<j>>
           n == Len(s) + 1
           P == {k \in DOMAIN s : s[k] = i}
           Q == {k \in DOMAIN t : t[k] = i}
<1>1. /\ DOMAIN s = 1 .. Len(s) /\ DOMAIN t = 1 .. n /\ Len(s) \in Nat
      /\ \A k \in DOMAIN s : t[k] = s[k]
      /\ t[n] = j
  OBVIOUS
<1>2. IsFiniteSet(P) /\ n \notin P
  <2>1. IsFiniteSet(DOMAIN s) /\ P \in SUBSET (DOMAIN s)
    BY <1>1, FS_Interval
  <2> QED
    BY <1>1, <2>1, FS_Subset
<1>3. Cardinality(P) \in Nat
  BY <1>2, FS_CardinalityType
<1>4. 1 .. n = (1 .. Len(s)) \cup {n}
  BY <1>1
<1> HIDE DEF t
<1>5. CASE i = j
  <2>1. Q = P \cup {n}
    BY <1>1, <1>4, <1>5
  <2> QED
    BY <1>2, <1>3, <1>5, <2>1, FS_AddElement DEF Occurrences, t
<1>6. CASE i # j
  <2>1. Q = P
    BY <1>1, <1>4, <1>6
  <2>2. Occurrences(t, i) = Cardinality(Q) /\ Occurrences(s, i) = Cardinality(P)
    BY DEF Occurrences
  <2> HIDE DEF P, Q
  <2> QED
    BY <1>3, <1>6, <2>1, <2>2 DEF t
<1> QED
  BY <1>5, <1>6

\* A request keeps the books: saving adds one, each cleanup takes what was there.
LEMMA SolveAccounted ==
    ASSUME TypeOK, Accounted, NEW call \in Calls, NEW new \in Askable, Solve(call, new),
           call = "save" => new # {}
    PROVE  Accounted' /\ RemovesOver
<1> SUFFICES ASSUME NEW i \in Number
             PROVE  /\ saved'[i] = removed'[i] + Occurrences(events', i)
                    /\ removed'[i] # removed[i] => i \in Created /\ Over(i)
  BY DEF Accounted, RemovesOver, Number
<1>1. new \in SUBSET Created
  BY AskableFacts
<1>2. /\ saved[i] = removed[i] + Occurrences(events, i)
      /\ saved[i] \in Nat /\ removed[i] \in Nat /\ Occurrences(events, i) \in Nat
  BY OccurrencesType DEF Accounted, TypeOK
<1>3. removed'[i] = removed[i] + IF i \in Swept THEN Occurrences(events, i) ELSE 0
  BY SolveFacts DEF Cleanup
<1>4. \A j \in Swept : j \in Created /\ Over(j)
  BY <1>1, CandidateFacts
<1>5. removed'[i] # removed[i] => i \in Created /\ Over(i)
  BY <1>2, <1>3, <1>4
<1>7. Occurrences(Remaining(Swept), i) = IF i \in Swept THEN 0 ELSE Occurrences(events, i)
  <2>1. CASE i \in Created
    BY <2>1, RemainingFacts
  <2>2. CASE i \notin Created
    <3>1. ASSUME NEW s \in Seq(Created) PROVE Occurrences(s, i) = 0
      <4>1. {k \in DOMAIN s : s[k] = i} = {}
        BY <2>2
      <4> QED
        BY <4>1, FS_EmptySet DEF Occurrences
    <3>2. Occurrences(events, i) = 0 /\ Occurrences(Remaining(Swept), i) = 0
      BY <3>1, RemainingFacts DEF TypeOK
    <3> QED
      BY <3>2
  <2> QED
    BY <2>1, <2>2
<1>8. saved'[i] = removed'[i] + Occurrences(events', i)
  <2>1. CASE Fails(call, new)
    <3>1. events' = Remaining(Swept) /\ saved' = saved
      BY <2>1 DEF Fails
    <3> QED
      BY <1>2, <1>3, <1>7, <3>1
  <2>2. CASE \E first, last, plan : Succeeds(call, new, first, last, plan)
    <3>1. /\ events' = Remaining(Swept) \o (IF call = "save" THEN SetToSeq(new) ELSE <<>>)
          /\ saved'[i] = saved[i] + IF call = "save" /\ i \in new THEN 1 ELSE 0
      BY <2>2 DEF Succeeds
    <3>2. CASE call # "save"
      <4>1. events' = Remaining(Swept) /\ saved'[i] = saved[i]
        BY <1>2, <3>1, <3>2, RemainingFacts
      <4> QED
        BY <1>2, <1>3, <1>7, <4>1
    <3>3. CASE call = "save"
      <4>1. PICK j \in Created : new = {j}
        BY <3>3 DEF Askable
      <4>2. events' = Remaining(Swept) \o <<j>>
        BY <3>1, <3>3, <4>1, Singleton
      <4>3. Occurrences(events', i) =
                Occurrences(Remaining(Swept), i) + IF i = j THEN 1 ELSE 0
        BY <4>2, RemainingFacts, OccurrencesOfAppended
      <4>4. saved'[i] = saved[i] + IF i = j THEN 1 ELSE 0
        BY <3>1, <3>3, <4>1
      <4> QED
        BY <1>2, <1>3, <1>7, <4>3, <4>4
    <3> QED
      BY <3>2, <3>3
  <2> QED
    BY <2>1, <2>2, SolveFacts
<1> QED
  BY <1>5, <1>8

\* The books are kept in every step.
LEMMA AccountedSteps ==
    /\ Init => Accounted
    /\ TypeOK /\ Accounted /\ [Next]_vars => Accounted' /\ RemovesOver
<1>1. Init => Accounted
  <2> SUFFICES ASSUME Init, NEW i \in Number
               PROVE  saved[i] = removed[i] + Occurrences(events, i)
    BY DEF Accounted
  <2>1. saved[i] = 0 /\ removed[i] = 0 /\ {k \in DOMAIN events : events[k] = i} = {}
    BY DEF Init
  <2> QED
    BY <2>1, FS_EmptySet DEF Occurrences
<1>2. ASSUME TypeOK, Accounted, [Next]_vars PROVE Accounted' /\ RemovesOver
  <2>1. ASSUME UNCHANGED <<events, saved, removed>> PROVE Accounted' /\ RemovesOver
    BY <1>2, <2>1 DEF Accounted, RemovesOver, Number
  <2>2. ASSUME NEW call \in Calls, NEW new \in Askable, Solve(call, new),
               call = "save" => new # {}
        PROVE  Accounted' /\ RemovesOver
    BY <1>2, <2>2, SolveAccounted
  <2>3. \/ \E call \in Calls, new \in Askable :
               Solve(call, new) /\ (call = "save" => new # {})
        \/ UNCHANGED <<events, saved, removed>>
    BY <1>2, NextFacts DEF Create, Report, Tick, vars
  <2> QED
    BY <2>1, <2>2, <2>3
<1> QED
  BY <1>1, <1>2

\* No registered event gets lost: each one is still there or cleanup was called for it, and
\* that only while it had departed or was canceled.
THEOREM NeverForgottenHolds == Spec => NeverForgotten
<1>1. TypeOK /\ Accounted /\ [Next]_vars =>
          [\A i \in Created :
              /\ saved'[i] = removed'[i] + Occurrences(events', i)
              /\ removed'[i] # removed[i] => Over(i)]_vars
  <2> SUFFICES ASSUME TypeOK, Accounted, [Next]_vars, NEW i \in Created
               PROVE  /\ saved'[i] = removed'[i] + Occurrences(events', i)
                      /\ removed'[i] # removed[i] => Over(i)
    OBVIOUS
  <2>1. Accounted' /\ RemovesOver /\ i \in Number
    BY AccountedSteps DEF TypeOK
  <2> QED
    BY <2>1 DEF Accounted, RemovesOver, Number
<1>2. Init => Accounted
  BY AccountedSteps
<1>3. TypeOK /\ Accounted /\ [Next]_vars => Accounted'
  BY AccountedSteps
<1> QED
  BY <1>1, <1>2, <1>3, TypeCorrect, PTL DEF Spec, NeverForgotten

-----------------------------------------------------------------------------
(* The plan of an answered request.                                        *)

\* With steps of one second the conversions change nothing.
LEMMA UnitConversion ==
    ASSUME Resolution = 1
    PROVE  /\ \A value \in Time : convert_resolution(value) = value
           /\ \A value \in Int : convert_seconds(value) = value
<1>1. ASSUME NEW value \in Int PROVE Round(value, 1) = value
  <2>1. value \div 1 = value /\ value % 1 = 0
    OBVIOUS
  <2> QED
    BY <2>1 DEF Round
<1> QED
  BY <1>1 DEF convert_resolution, convert_seconds, Time

\* With steps of one second an event gets the times of its plan, or has had them before.
LEMMA PlannedTimes ==
    ASSUME Resolution = 1, NEW e \in EventType, ~Raises(e), NEW first, NEW last,
           NEW p \in PlansIn(get_variables(e), first, last)
    PROVE  /\ p.eta \in Int /\ p.start \in Int /\ p.finish \in Int
           /\ Plan(e, p).schedule_start = p.start
           /\ Plan(e, p).schedule_finish = p.finish
           /\ e.state \in EtaStates => p.eta = Arrival(Plan(e, p))
<1> DEFINE v == get_variables(e)
           fixed(value) == Within(Fixed(value), first, last)
<1>1. /\ p.eta \in Within(v.eta, first, last) /\ p.start \in Within(v.start, first, last)
      /\ p.finish \in Within(v.finish, first, last) /\ p.etd \in Within(v.etd, first, last)
  BY DEF PlansIn
<1>2. \A window : Within(window, first, last) \subseteq Int
  BY DEF Within
<1>3. p.eta \in Int /\ p.start \in Int /\ p.finish \in Int /\ p.etd \in Int
  BY <1>1, <1>2
<1>4. /\ convert_seconds(p.eta) = p.eta /\ convert_seconds(p.start) = p.start
      /\ convert_seconds(p.finish) = p.finish /\ convert_seconds(p.etd) = p.etd
  BY <1>3, UnitConversion
<1>5. \A value \in Int : fixed(value) = {value}
  BY EventAssumption DEF Within, Fixed
<1>6. \A value \in Time : convert_resolution(value) = value
  BY UnitConversion
<1>7. e.state \in {"NEW", "SCHEDULED", "ARRIVED", "STARTED", "FINISHED", "DEPARTED"}
  BY DEF EventType, States, Rank, Raises
<1>8. /\ e.schedule_start \in Time /\ e.schedule_finish \in Time
      /\ e.eta.low \in Int /\ e.eta.high \in Int /\ e.eta.time \in Time /\ Int \subseteq Time
      /\ \A value \in Time : value # None => value \in Int
  BY DEF EventType, EtxType, Bounded, Time
<1>9. /\ convert_resolution(get_start(e)) = e.schedule_start
      /\ convert_resolution(get_finish(e)) = e.schedule_finish
      /\ convert_resolution(e.eta.time) = e.eta.time
  BY <1>6, <1>8 DEF get_start, get_finish
<1>10. Constraints(e.eta) = Fixed(e.eta.low)
  <2>1. e.eta.high # None /\ convert_resolution(e.eta.low) = e.eta.low
    BY <1>6, <1>8, EventAssumption
  <2> QED
    BY <2>1 DEF Constraints, Fixed
<1> HIDE DEF fixed
<1>11. CASE e.state \in {"NEW", "SCHEDULED"}
  <2>1. v.eta = Fixed(e.eta.low)
    BY <1>10, <1>11 DEF get_variables, Windows
  <2>2. p.eta = e.eta.low
    BY <1>1, <1>5, <1>8, <2>1 DEF fixed
  <2>3. /\ Plan(e, p).schedule_start = p.start /\ Plan(e, p).schedule_finish = p.finish
        /\ Plan(e, p).eta.low = e.eta.low /\ Plan(e, p).state = e.state
    BY <1>4, <1>11 DEF Plan, EventType, EtxType
  <2> QED
    BY <1>3, <1>11, <2>2, <2>3 DEF Arrival
<1>12. CASE e.state = "ARRIVED"
  <2>1. e.eta.time # None
    BY <1>12 DEF Raises
  <2>2. v.eta = Fixed(e.eta.time)
    BY <1>9, <1>12 DEF get_variables, Windows
  <2>3. p.eta = e.eta.time
    BY <1>1, <1>5, <1>8, <2>1, <2>2 DEF fixed
  <2>4. /\ Plan(e, p).schedule_start = p.start /\ Plan(e, p).schedule_finish = p.finish
        /\ Plan(e, p).eta = e.eta /\ Plan(e, p).state = e.state
    BY <1>4, <1>12 DEF Plan, EventType
  <2> QED
    BY <1>3, <1>12, <2>3, <2>4 DEF Arrival
<1>13. CASE e.state = "STARTED"
  <2>1. e.schedule_start # None
    BY <1>13 DEF Raises
  <2>2. v.start = Fixed(e.schedule_start)
    BY <1>9, <1>13 DEF get_variables, Windows
  <2>3. p.start = e.schedule_start
    BY <1>1, <1>5, <1>8, <2>1, <2>2 DEF fixed
  <2>4. /\ Plan(e, p).schedule_start = e.schedule_start
        /\ Plan(e, p).schedule_finish = p.finish
    BY <1>4, <1>13 DEF Plan, EventType
  <2> QED
    BY <1>3, <1>13, <2>3, <2>4 DEF EtaStates
<1>14. CASE e.state \in {"FINISHED", "DEPARTED"}
  <2>1. e.schedule_start # None /\ e.schedule_finish # None
    BY <1>14 DEF Raises
  <2>2. v.start = Fixed(e.schedule_start) /\ v.finish = Fixed(e.schedule_finish)
    BY <1>9, <1>14 DEF get_variables, Windows
  <2>3. p.start = e.schedule_start /\ p.finish = e.schedule_finish
    BY <1>1, <1>5, <1>8, <2>1, <2>2 DEF fixed
  <2>4. Plan(e, p) = e
    BY <1>14 DEF Plan
  <2> QED
    BY <1>3, <1>14, <2>3, <2>4 DEF EtaStates
<1> QED
  BY <1>7, <1>11, <1>12, <1>13, <1>14

\* Where no more than one interval may contain any one time, no two of them overlap.
LEMMA OneAtATime ==
    ASSUME NEW intervals, IsFiniteSet(intervals), Cumulative(intervals, 1),
           NEW s \in intervals, NEW t \in intervals, s # t,
           s.from \in Int, s.to \in Int, t.from \in Int, t.to \in Int
    PROVE  (s.from .. s.to - 1) \cap (t.from .. t.to - 1) = {}
<1>1. ASSUME NEW x \in intervals, NEW y \in intervals, x # y,
             x.from <= y.from, y.from < x.to, y.from < y.to, y.from \in Int
      PROVE  FALSE
  <2> DEFINE B == {u \in intervals : u.from <= y.from /\ y.from < u.to}
  <2>1. B \in SUBSET intervals /\ x \in B /\ y \in B
    BY <1>1
  <2>2. IsFiniteSet(B) /\ Cardinality(B) <= 1
    BY <2>1, FS_Subset DEF Cumulative
  <2> HIDE DEF B
  <2>3. IsFiniteSet(B \ {x}) /\ Cardinality(B \ {x}) = Cardinality(B) - 1
    BY <2>1, <2>2, FS_RemoveElement
  <2>4. Cardinality(B \ {x}) \in Nat /\ Cardinality(B) \in Nat
    BY <2>2, <2>3, FS_CardinalityType
  <2>5. Cardinality(B \ {x}) = 0
    BY <2>2, <2>3, <2>4
  <2>6. B \ {x} = {}
    BY <2>3, <2>5, FS_EmptySet
  <2>7. y \in B \ {x}
    BY <1>1, <2>1
  <2> QED
    BY <2>6, <2>7
<1>2. ASSUME NEW time \in (s.from .. s.to - 1) \cap (t.from .. t.to - 1) PROVE FALSE
  <2>1. /\ s.from <= time /\ time < s.to /\ t.from <= time /\ time < t.to /\ time \in Int
    BY <1>2
  <2>2. s.from < s.to /\ t.from < t.to /\ s.from < t.to /\ t.from < s.to
    BY <2>1
  <2>3. CASE s.from <= t.from
    BY <1>1, <2>2, <2>3
  <2>4. CASE t.from <= s.from
    BY <1>1, <2>2, <2>4
  <2> QED
    BY <2>3, <2>4
<1> QED
  BY <1>2

-----------------------------------------------------------------------------
(* The queue of the events that wait.                                      *)

\* Sorting an event in loses none and adds no other.
LEMMA InsertFacts ==
    ASSUME NEW A, NEW s \in Seq(A), NEW i \in A
    PROVE  Insert(s, i) \in Seq(A) /\ ToSet(Insert(s, i)) = ToSet(s) \cup {i}
<1> DEFINE K == {0} \cup Place(s, i)
           n == Max(K) + 1
           front == SubSeq(s, 1, n - 1)
           back == SubSeq(s, n, Len(s))
<1>1. CASE i \in ToSet(s)
  BY <1>1 DEF Insert
<1>2. CASE i \notin ToSet(s)
  <2>1. DOMAIN s = 1 .. Len(s) /\ Len(s) \in Nat /\ Place(s, i) \subseteq DOMAIN s
    BY DEF Place
  <2>2. K \in SUBSET (0 .. Len(s)) /\ IsFiniteSet(0 .. Len(s)) /\ 0 \in K
    BY <2>1, FS_Interval
  <2>3. IsFiniteSet(K) /\ K \subseteq Int /\ K # {}
    BY <2>1, <2>2, FS_Subset
  <2>4. Max(K) \in 0 .. Len(s)
    BY <2>2, <2>3, MaxMin
  <2> HIDE DEF K
  <2>5. n \in 1 .. Len(s) + 1
    BY <2>1, <2>4
  <2>6. Insert(s, i) = front \o <<i>> \o back
    BY <1>2 DEF Insert, InsertAt, K
  <2> HIDE DEF n
  <2>7. /\ front \in Seq(A) /\ Len(front) = n - 1
        /\ \A k \in 1 .. n - 1 : front[k] = s[k]
    BY <2>1, <2>5
  <2>8. /\ back \in Seq(A) /\ Len(back) = Len(s) - n + 1
        /\ \A k \in 1 .. Len(s) - n + 1 : back[k] = s[n + k - 1]
    BY <2>1, <2>5
  <2> HIDE DEF front, back
  <2> DEFINE r == front \o <<i>> \o back
  <2>9. /\ r \in Seq(A) /\ DOMAIN r = 1 .. Len(s) + 1
        /\ \A k \in 1 .. Len(s) + 1 :
              r[k] = IF k < n THEN front[k] ELSE IF k = n THEN i ELSE back[k - n]
    <3>1. <<i>> \in Seq(A) /\ Len(<<i>>) = 1 /\ <<i>>[1] = i
      OBVIOUS
    <3>2. /\ front \o <<i>> \in Seq(A) /\ Len(front \o <<i>>) = n
          /\ \A k \in 1 .. n : (front \o <<i>>)[k] = IF k < n THEN front[k] ELSE i
      BY <2>1, <2>5, <2>7, <3>1
    <3> DEFINE h == front \o <<i>>
    <3> HIDE DEF h
    <3>3. h \in Seq(A) /\ Len(h) = n /\ \A k \in 1 .. n : h[k] = IF k < n THEN front[k] ELSE i
      BY <3>2 DEF h
    <3>4. /\ h \o back \in Seq(A) /\ Len(h \o back) = Len(s) + 1
          /\ \A k \in 1 .. Len(s) + 1 : (h \o back)[k] = IF k <= n THEN h[k] ELSE back[k - n]
      BY <2>1, <2>5, <2>8, <3>3
    <3>5. r = h \o back
      BY DEF h
    <3> HIDE DEF r
    <3>6. r \in Seq(A) /\ DOMAIN r = 1 .. Len(s) + 1
      BY <3>4, <3>5
    <3>7. ASSUME NEW k \in 1 .. Len(s) + 1
          PROVE  r[k] = IF k < n THEN front[k] ELSE IF k = n THEN i ELSE back[k - n]
      <4>1. r[k] = IF k <= n THEN h[k] ELSE back[k - n]
        BY <3>4, <3>5
      <4>2. k <= n => h[k] = IF k < n THEN front[k] ELSE i
        BY <2>5, <3>3
      <4> QED
        BY <2>5, <4>1, <4>2
    <3> QED
      BY <3>6, <3>7
  <2>10. \A k \in 1 .. Len(s) + 1 :
            r[k] = IF k < n THEN s[k] ELSE IF k = n THEN i ELSE s[k - 1]
    <3>1. ASSUME NEW k \in 1 .. Len(s) + 1, n < k PROVE back[k - n] = s[k - 1]
      <4>1. k - n \in 1 .. Len(s) - n + 1 /\ n + (k - n) - 1 = k - 1
        BY <2>1, <2>5, <3>1
      <4> QED
        BY <2>8, <4>1
    <3>2. ASSUME NEW k \in 1 .. Len(s) + 1, k < n PROVE front[k] = s[k]
      BY <2>1, <2>5, <2>7, <3>2
    <3> QED
      BY <2>1, <2>5, <2>9, <3>1, <3>2
  <2> HIDE DEF r
  <2>11. ASSUME NEW x \in ToSet(s) \cup {i} PROVE x \in ToSet(r)
    <3>1. CASE x = i
      <4>1. r[n] = i /\ n \in DOMAIN r
        BY <2>1, <2>5, <2>9, <2>10
      <4> QED
        BY <3>1, <4>1 DEF ToSet
    <3>2. CASE x \in ToSet(s)
      <4>1. PICK k \in 1 .. Len(s) : s[k] = x
        BY <2>1, <3>2 DEF ToSet
      <4>2. k < n => k \in DOMAIN r /\ r[k] = x
        BY <2>1, <2>9, <2>10, <4>1
      <4>3. ~(k < n) => k + 1 \in DOMAIN r /\ r[k + 1] = x
        <5> SUFFICES ASSUME ~(k < n) PROVE k + 1 \in DOMAIN r /\ r[k + 1] = x
          OBVIOUS
        <5>1. k + 1 \in 1 .. Len(s) + 1 /\ n < k + 1 /\ (k + 1) - 1 = k
          BY <2>1, <2>5, <4>1
        <5>2. r[k + 1] = s[(k + 1) - 1]
          BY <2>5, <2>10, <5>1
        <5> QED
          BY <2>9, <4>1, <5>1, <5>2
      <4> QED
        BY <4>2, <4>3 DEF ToSet
    <3> QED
      BY <3>1, <3>2
  <2>12. ASSUME NEW x \in ToSet(r) PROVE x \in ToSet(s) \cup {i}
    <3>1. PICK k \in 1 .. Len(s) + 1 : r[k] = x
      BY <2>9, <2>12 DEF ToSet
    <3>2. CASE k < n
      <4>1. k \in DOMAIN s /\ s[k] = x
        BY <2>1, <2>5, <2>10, <3>1, <3>2
      <4> QED
        BY <4>1 DEF ToSet
    <3>3. CASE k = n
      BY <2>5, <2>10, <3>1, <3>3
    <3>4. CASE n < k
      <4>1. k - 1 \in DOMAIN s /\ s[k - 1] = x
        BY <2>1, <2>5, <2>10, <3>1, <3>4
      <4> QED
        BY <4>1 DEF ToSet
    <3> QED
      BY <2>5, <3>2, <3>3, <3>4
  <2> QED
    BY <2>6, <2>9, <2>11, <2>12 DEF r
<1> QED
  BY <1>1, <1>2

\* What comes is in the queue, nothing else is.
LEMMA QueueFacts ==
    ASSUME NEW A, NEW coming \in Seq(A)
    PROVE  /\ Queues(coming)[Len(coming)] \in Seq(A)
           /\ ToSet(Queues(coming)[Len(coming)]) = ToSet(coming)
<1> DEFINE N == Len(coming)
           next(f, m) == IF m = 0 THEN <<>> ELSE Insert(f[m - 1], coming[m])
           Upto(n) == \E f : f = [m \in 0 .. n |-> next(f, m)]
           T == {n \in Nat : Upto(n)}
           q == Queues(coming)
<1>1. N \in Nat /\ DOMAIN coming = 1 .. N /\ \A k \in 1 .. N : coming[k] \in A
  OBVIOUS
<1>2. 0 \in T
  <2> DEFINE f == [m \in 0 .. 0 |-> <<>>]
  <2>1. f = [m \in 0 .. 0 |-> next(f, m)]
    <3>1. \A m \in 0 .. 0 : m = 0
      OBVIOUS
    <3> QED
      BY <3>1
  <2> QED
    BY <2>1
<1>3. ASSUME NEW n \in Nat, n \in T PROVE n + 1 \in T
  <2>1. PICK f : f = [m \in 0 .. n |-> next(f, m)]
    BY <1>3
  <2> DEFINE g == [m \in 0 .. n + 1 |-> IF m = n + 1 THEN Insert(f[n], coming[m]) ELSE f[m]]
  <2>2. ASSUME NEW m \in 0 .. n + 1 PROVE g[m] = next(g, m)
    <3>1. CASE m = 0
      <4>1. m \in 0 .. n /\ m # n + 1
        BY <3>1
      <4>2. g[m] = f[m] /\ f[m] = next(f, m)
        BY <2>1, <4>1
      <4> QED
        BY <3>1, <4>2
    <3>2. CASE m \in 1 .. n
      <4>1. m \in 0 .. n /\ m - 1 \in 0 .. n + 1 /\ m # n + 1 /\ m - 1 # n + 1 /\ m # 0
        BY <3>2
      <4>2. g[m] = f[m] /\ g[m - 1] = f[m - 1] /\ f[m] = next(f, m)
        BY <2>1, <4>1
      <4> QED
        BY <4>1, <4>2
    <3>3. CASE m = n + 1
      <4>1. m # 0 /\ m - 1 = n /\ n \in 0 .. n + 1 /\ n # n + 1
        BY <3>3
      <4>2. g[m] = Insert(f[n], coming[m]) /\ g[n] = f[n]
        BY <3>3, <4>1
      <4> QED
        BY <4>1, <4>2
    <3> QED
      BY <3>1, <3>2, <3>3
  <2>3. g = [m \in 0 .. n + 1 |-> next(g, m)]
    BY <2>2
  <2> HIDE DEF g
  <2> QED
    BY <2>3
<1>4. Upto(N)
  <2> HIDE DEF T
  <2>1. Nat \subseteq T
    BY <1>2, <1>3, Induction
  <2>2. N \in T
    BY <1>1, <2>1
  <2> QED
    BY <2>2 DEF T
<1>5. q = [m \in 0 .. N |-> next(q, m)]
  BY <1>4 DEF Queues
<1> HIDE DEF q
<1>6. q[0] = <<>> /\ \A m \in 1 .. N : q[m] = Insert(q[m - 1], coming[m])
  <2>1. ASSUME NEW m \in 0 .. N PROVE q[m] = next(q, m)
    BY <1>5
  <2> HIDE DEF q
  <2>2. 0 \in 0 .. N /\ \A m \in 1 .. N : m \in 0 .. N /\ m # 0
    BY <1>1
  <2> QED
    BY <2>1, <2>2
<1> DEFINE R == {n \in Nat : n <= N => /\ q[n] \in Seq(A)
                                     /\ ToSet(q[n]) = {coming[k] : k \in 1 .. n}}
<1>7. 0 \in R
  <2>1. q[0] \in Seq(A) /\ ToSet(q[0]) = {} /\ 1 .. 0 = {}
    BY <1>6 DEF ToSet
  <2> QED
    BY <2>1
<1>8. ASSUME NEW n \in Nat, n \in R PROVE n + 1 \in R
  <2> SUFFICES ASSUME n + 1 <= N
               PROVE  /\ q[n + 1] \in Seq(A)
                      /\ ToSet(q[n + 1]) = {coming[k] : k \in 1 .. n + 1}
    OBVIOUS
  <2>1. n <= N /\ n + 1 \in 1 .. N /\ (n + 1) - 1 = n
    BY <1>1
  <2>2. q[n] \in Seq(A) /\ ToSet(q[n]) = {coming[k] : k \in 1 .. n}
    BY <1>8, <2>1
  <2>3. q[n + 1] = Insert(q[n], coming[n + 1]) /\ coming[n + 1] \in A
    BY <1>1, <1>6, <2>1
  <2>4. q[n + 1] \in Seq(A) /\ ToSet(q[n + 1]) = ToSet(q[n]) \cup {coming[n + 1]}
    <3> DEFINE u == q[n]
               x == coming[n + 1]
    <3>1. u \in Seq(A) /\ x \in A /\ q[n + 1] = Insert(u, x)
      BY <2>2, <2>3
    <3> HIDE DEF u, x
    <3>2. Insert(u, x) \in Seq(A) /\ ToSet(Insert(u, x)) = ToSet(u) \cup {x}
      BY <3>1, InsertFacts
    <3> QED
      BY <3>1, <3>2 DEF u, x
  <2>5. 1 .. n + 1 = (1 .. n) \cup {n + 1}
    OBVIOUS
  <2> QED
    BY <2>2, <2>4, <2>5
<1> HIDE DEF R
<1>9. N \in R
  <2>1. Nat \subseteq R
    BY <1>7, <1>8, Induction
  <2> QED
    BY <1>1, <2>1
<1>10. q[N] \in Seq(A) /\ ToSet(q[N]) = {coming[k] : k \in 1 .. N}
  BY <1>1, <1>9 DEF R
<1> QED
  BY <1>1, <1>10 DEF ToSet, q

\* What is in a sequence after a request's events are appended.
LEMMA AppendedSet ==
    ASSUME NEW A, NEW s \in Seq(A), NEW new \in Askable
    PROVE  /\ ToSet(SetToSeq(new)) = new
           /\ ToSet(s \o SetToSeq(new)) = ToSet(s) \cup new
<1>1. CASE new = {}
  <2>1. SetToSeq(new) = <<>> /\ s \o <<>> = s
    BY <1>1, EmptyToSeq
  <2>2. ToSet(<<>>) = {}
    BY DEF ToSet
  <2> QED
    BY <1>1, <2>1, <2>2
<1>2. ASSUME NEW i, new = {i}
      PROVE  /\ ToSet(SetToSeq(new)) = new
             /\ ToSet(s \o SetToSeq(new)) = ToSet(s) \cup new
  <2> DEFINE t == s \o <<i>>
  <2>1. SetToSeq(new) = <<i>> /\ ToSet(<<i>>) = {i}
    <3>1. DOMAIN <<i>> = {1} /\ <<i>>[1] = i
      OBVIOUS
    <3>2. ToSet(<<i>>) = {i}
      BY <3>1 DEF ToSet
    <3> QED
      BY <1>2, <3>2, Singleton
  <2>2. DOMAIN s = 1 .. Len(s) /\ Len(s) \in Nat
    OBVIOUS
  <2>3. /\ DOMAIN t = 1 .. Len(s) + 1 /\ t[Len(s) + 1] = i
        /\ \A k \in 1 .. Len(s) : t[k] = s[k]
    <3>1. s \in Seq(A \cup {i}) /\ <<i>> \in Seq(A \cup {i})
      OBVIOUS
    <3> QED
      BY <3>1
  <2> HIDE DEF t
  <2>4. ToSet(t) = ToSet(s) \cup {i}
    <3>1. 1 .. Len(s) + 1 = (1 .. Len(s)) \cup {Len(s) + 1}
      BY <2>2
    <3> QED
      BY <2>2, <2>3, <3>1 DEF ToSet
  <2> QED
    BY <1>2, <2>1, <2>4 DEF t
<1> QED
  BY <1>1, <1>2 DEF Askable

\* The queue of a request holds the events that wait.
LEMMA QueueOfRequest ==
    ASSUME TypeOK, NEW new \in Askable
    PROVE  /\ Queue(Candidates(new), new) \in Seq(Created)
           /\ ToSet(Queue(Candidates(new), new)) = Waiting(Candidates(new))
<1> DEFINE C == Candidates(new)
           W == Waiting(C)
           all == events \o SetToSeq(new)
           coming == Restricted(all, W)
<1>1. new \in SUBSET Created /\ SetToSeq(new) \in Seq(Created) /\ events \in Seq(Created)
  BY AskableFacts DEF TypeOK
<1>2. all \in Seq(Created) /\ ToSet(all) = Registered \cup new
  BY <1>1, AppendedSet DEF Registered
<1>3. W \subseteq Registered \cup new
  BY DEF Waiting, Candidates, Live, Kept
<1> HIDE DEF W, all
<1>4. coming \in Seq(Created) /\ ToSet(coming) = W
  <2>1. coming \in Seq(Created) /\ ToSet(coming) = ToSet(all) \cap W
    BY <1>2, RestrictedProperties
  <2> QED
    BY <1>2, <1>3, <2>1
<1>5. Queue(C, new) = Queues(coming)[Len(coming)]
  BY DEF Queue, W, all
<1> HIDE DEF coming, C
<1>6. Queue(C, new) \in Seq(Created) /\ ToSet(Queue(C, new)) = W
  BY <1>4, <1>5, QueueFacts
<1> QED
  BY <1>6 DEF C, W

\* Whoever arrives earlier is further ahead in the queue, and starts no later.
LEMMA Sorted ==
    ASSUME NEW A, NEW q \in Seq(A), NEW plan, NoOvertakingIn(plan, q),
           \A i \in ToSet(q) : plan[i].eta \in Int /\ plan[i].start \in Int,
           NEW i \in ToSet(q), NEW j \in ToSet(q), plan[i].eta < plan[j].eta
    PROVE  plan[i].start <= plan[j].start
<1> DEFINE N == Len(q)
           eta(k) == plan[q[k]].eta
           begin(k) == plan[q[k]].start
           T == {d \in Nat : \A k \in 1 .. N :
                    k + d \in 1 .. N => eta(k) <= eta(k + d) /\ begin(k) <= begin(k + d)}
<1>1. /\ N \in Nat /\ DOMAIN q = 1 .. N
      /\ \A k \in 1 .. N : eta(k) \in Int /\ begin(k) \in Int
  BY DEF ToSet
<1>2. \A k \in 1 .. N - 1 : eta(k) <= eta(k + 1) /\ begin(k) <= begin(k + 1)
  BY DEF NoOvertakingIn
<1> HIDE DEF eta, begin
<1>3. 0 \in T
  <2>1. ASSUME NEW k \in 1 .. N PROVE eta(k) <= eta(k + 0) /\ begin(k) <= begin(k + 0)
    <3>1. k + 0 = k
      OBVIOUS
    <3> QED
      BY <1>1, <3>1
  <2> QED
    BY <2>1
<1>4. ASSUME NEW d \in Nat, d \in T PROVE d + 1 \in T
  <2> SUFFICES ASSUME NEW k \in 1 .. N, k + (d + 1) \in 1 .. N
               PROVE  eta(k) <= eta(k + (d + 1)) /\ begin(k) <= begin(k + (d + 1))
    OBVIOUS
  <2>1. k + d \in 1 .. N - 1 /\ k + d \in 1 .. N /\ (k + d) + 1 = k + (d + 1)
    BY <1>1
  <2>2. eta(k) <= eta(k + d) /\ begin(k) <= begin(k + d)
    BY <1>4, <2>1
  <2>3. eta(k + d) <= eta(k + (d + 1)) /\ begin(k + d) <= begin(k + (d + 1))
    BY <1>2, <2>1
  <2>4. /\ eta(k) \in Int /\ eta(k + d) \in Int /\ eta(k + (d + 1)) \in Int
        /\ begin(k) \in Int /\ begin(k + d) \in Int /\ begin(k + (d + 1)) \in Int
    BY <1>1, <2>1
  <2> QED
    BY <2>2, <2>3, <2>4
<1>5. PICK a \in 1 .. N : q[a] = i
  BY <1>1 DEF ToSet
<1>6. PICK b \in 1 .. N : q[b] = j
  BY <1>1 DEF ToSet
<1>7. \A c, k \in 1 .. N : c <= k => eta(c) <= eta(k) /\ begin(c) <= begin(k)
  <2> HIDE DEF T
  <2>1. Nat \subseteq T
    BY <1>3, <1>4, Induction
  <2>2. ASSUME NEW c \in 1 .. N, NEW k \in 1 .. N, c <= k
        PROVE  eta(c) <= eta(k) /\ begin(c) <= begin(k)
    <3>1. k - c \in Nat /\ c + (k - c) = k
      BY <2>2
    <3>2. k - c \in T
      BY <2>1, <3>1
    <3> QED
      BY <3>1, <3>2 DEF T
  <2> QED
    BY <2>2
<1>8. eta(a) < eta(b) /\ eta(a) \in Int /\ eta(b) \in Int
  BY <1>1, <1>5, <1>6 DEF eta
<1>9. a <= b
  <2>1. b <= a => eta(b) <= eta(a)
    BY <1>7
  <2> QED
    BY <1>8, <2>1
<1> QED
  BY <1>5, <1>6, <1>7, <1>9 DEF begin

\* The times of the candidates of an answered request.
LEMMA AnsweredPlans ==
    ASSUME Resolution = 1, TypeOK, NEW call, NEW new \in Askable,
           NEW first, NEW last, NEW plan, Succeeds(call, new, first, last, plan),
           NEW i \in Candidates(new)
    PROVE  /\ event[i] \in EventType /\ ~Raises(event[i]) /\ plan[i] \in PlansOf(i, first, last)
           /\ event'[i].state = event[i].state
           /\ plan[i].eta \in Int /\ plan[i].start \in Int /\ plan[i].finish \in Int
           /\ event'[i].schedule_start = plan[i].start
           /\ event'[i].schedule_finish = plan[i].finish
           /\ event[i].state \in EtaStates => plan[i].eta = Arrival(event'[i])
<1>1. new \in SUBSET Created /\ Candidates(new) \in SUBSET Created
  BY AskableFacts, CandidateFacts
<1>2. plan[i] \in PlansOf(i, first, last) /\ ~Raises(event[i])
  BY ChosenFacts DEF Succeeds
<1>3. event'[i] = Plan(event[i], plan[i])
  BY <1>1 DEF Succeeds
<1>4. event[i] \in EventType /\ event'[i].state = event[i].state
  BY <1>1, AnsweredTypes
<1>5. plan[i] \in PlansIn(get_variables(event[i]), first, last)
  BY <1>2 DEF PlansOf
<1> QED
  BY <1>2, <1>3, <1>4, <1>5, PlannedTimes

\* The intervals of the candidates are finitely many.
LEMMA IntervalsFinite ==
    ASSUME NEW C, IsFiniteSet(C), NEW from, NEW to
    PROVE  IsFiniteSet({Interval(i, from[i], to[i]) : i \in C})
<1> DEFINE f == [i \in C |-> Interval(i, from[i], to[i])]
<1>1. DOMAIN f = C /\ {f[x] : x \in DOMAIN f} = {Interval(i, from[i], to[i]) : i \in C}
  OBVIOUS
<1> HIDE DEF f
<1>2. IsFiniteSet({f[x] : x \in DOMAIN f})
  BY <1>1, RangeFinite
<1> QED
  BY <1>1, <1>2

\* No two candidates of an answered request are processed at the same time.
LEMMA PlannedApart ==
    ASSUME Resolution = 1, TypeOK, NEW call, NEW new \in Askable,
           NEW first, NEW last, NEW plan, Succeeds(call, new, first, last, plan),
           NEW i \in Candidates(new), NEW j \in Candidates(new), i # j
    PROVE  Processing(event'[i]) \cap Processing(event'[j]) = {}
<1> DEFINE C == Candidates(new)
           from == [k \in C |-> plan[k].start]
           to == [k \in C |-> plan[k].finish]
           intervals == {Interval(k, from[k], to[k]) : k \in C}
<1>1. IsFiniteSet(C)
  BY AskableFacts, CandidateFacts
<1>2. Fits(plan, C)
  BY ChosenFacts DEF Succeeds
<1>3. intervals = {Interval(k, plan[k].start, plan[k].finish) : k \in C}
  OBVIOUS
<1>4. Cumulative(intervals, 1)
  BY <1>2, <1>3 DEF Fits
<1>5. IsFiniteSet(intervals)
  <2> HIDE DEF C, from, to
  <2> QED
    BY <1>1, IntervalsFinite
<1>6. /\ Interval(i, plan[i].start, plan[i].finish) \in intervals
      /\ Interval(j, plan[j].start, plan[j].finish) \in intervals
  BY <1>3
<1> HIDE DEF intervals
<1> HIDE DEF from, to
<1>7. ASSUME NEW k \in C
      PROVE  /\ plan[k].start \in Int /\ plan[k].finish \in Int
             /\ event'[k].schedule_start = plan[k].start
             /\ event'[k].schedule_finish = plan[k].finish
  <2>1. k \in Candidates(new)
    OBVIOUS
  <2> HIDE DEF C
  <2> QED
    BY <2>1, AnsweredPlans
<1> DEFINE s == Interval(i, plan[i].start, plan[i].finish)
           t == Interval(j, plan[j].start, plan[j].finish)
<1>8. /\ s # t /\ s.from = plan[i].start /\ s.to = plan[i].finish
      /\ t.from = plan[j].start /\ t.to = plan[j].finish
  BY DEF Interval
<1>9. s \in intervals /\ t \in intervals
  BY <1>6
<1> HIDE DEF s, t
<1>10. (s.from .. s.to - 1) \cap (t.from .. t.to - 1) = {}
  BY <1>4, <1>5, <1>7, <1>8, <1>9, OneAtATime
<1> QED
  BY <1>7, <1>8, <1>10 DEF Processing

\* A request registers nothing but what it was asked for.
LEMMA RegisteredAfter ==
    ASSUME TypeOK, NEW new \in Askable,
           \/ events' = Remaining(Swept)
           \/ events' = Remaining(Swept) \o SetToSeq(new)
    PROVE  Registered' \subseteq Registered \cup new
<1>1. ToSet(Remaining(Swept)) = Registered \ Swept /\ Remaining(Swept) \in Seq(Created)
  BY RemainingFacts
<1>2. CASE events' = Remaining(Swept) \o SetToSeq(new)
  BY <1>1, <1>2, AppendedSet DEF Registered
<1>3. CASE events' = Remaining(Swept)
  BY <1>1, <1>3 DEF Registered
<1> QED
  BY <1>2, <1>3

\* What is registered after an answered request.
LEMMA AnsweredEvents ==
    ASSUME TypeOK, NEW call, NEW new, NEW first, NEW last, NEW plan,
           Succeeds(call, new, first, last, plan)
    PROVE  \/ events' = Remaining(Swept)
           \/ events' = Remaining(Swept) \o SetToSeq(new)
<1>1. Remaining(Swept) \in Seq(Created)
  BY RemainingFacts
<1>2. Remaining(Swept) \o <<>> = Remaining(Swept)
  BY <1>1
<1> QED
  BY <1>2 DEF Succeeds

\* The events that are planned after an answered request were candidates of it.
LEMMA PlannedFacts ==
    ASSUME TypeOK, NEW call, NEW new \in Askable,
           NEW first, NEW last, NEW plan, Succeeds(call, new, first, last, plan)
    PROVE  Planned' \subseteq Candidates(new)
<1>1. new \in SUBSET Created /\ SetToSeq(new) \in Seq(Created)
  BY AskableFacts
<1>2. \/ events' = Remaining(Swept)
      \/ events' = Remaining(Swept) \o SetToSeq(new)
  BY AnsweredEvents
<1>3. Registered' \subseteq Registered \cup new
  BY <1>2, RegisteredAfter
<1>4. Registered \subseteq Created
  BY <1>1, CandidateFacts
<1>5. \A i \in Created : Over(i)' <=> Over(i)
  BY <1>1, AnsweredTypes DEF Over
<1>6. answer'.new = new
  BY DEF Succeeds, Answer
<1>7. Live' \subseteq Live \cup new
  BY <1>1, <1>3, <1>4, <1>5 DEF Live
<1> QED
  BY <1>6, <1>7 DEF Planned, Candidates

\* The input buffer holds the candidates that wait at the arrival of one of them.
LEMMA InputHolds ==
    ASSUME Resolution = 1, TypeOK, NEW call, NEW new \in Askable,
           NEW first, NEW last, NEW plan, Succeeds(call, new, first, last, plan),
           NEW S \in SUBSET Waiting(Candidates(new)), NEW i \in Waiting(Candidates(new))
    PROVE  Cardinality({j \in S : /\ Arrival(event'[j]) <= Arrival(event'[i])
                                  /\ Arrival(event'[i]) < event'[j].schedule_start})
                <= BufferInput
<1> DEFINE C == Candidates(new)
           from == [k \in C |-> plan[k].eta]
           to == [k \in C |-> plan[k].start]
           intervals == {Interval(k, from[k], to[k]) : k \in C}
           s == Interval(i, plan[i].eta, plan[i].start)
           B == {t \in intervals : t.from <= s.from /\ s.from < t.to}
           J == {j \in S : /\ Arrival(event'[j]) <= Arrival(event'[i])
                           /\ Arrival(event'[i]) < event'[j].schedule_start}
           f == [j \in J |-> Interval(j, plan[j].eta, plan[j].start)]
<1>1. IsFiniteSet(C)
  BY AskableFacts, CandidateFacts
<1>2. Waiting(C) \subseteq C /\ \A k \in Waiting(C) : event[k].state \in EtaStates
  BY DEF Waiting
<1>3. intervals = {Interval(k, plan[k].eta, plan[k].start) : k \in C}
  OBVIOUS
<1>4. Cumulative(intervals, BufferInput)
  <2>1. Fits(plan, C)
    BY ChosenFacts DEF Succeeds
  <2> QED
    BY <1>3, <2>1 DEF Fits
<1>5. IsFiniteSet(intervals)
  <2> HIDE DEF C, from, to
  <2> QED
    BY <1>1, IntervalsFinite
<1>6. s \in intervals
  BY <1>2, <1>3
<1>7. ASSUME NEW k \in Waiting(C)
      PROVE  plan[k].eta = Arrival(event'[k]) /\ plan[k].start = event'[k].schedule_start
  <2>1. k \in Candidates(new) /\ event[k].state \in EtaStates
    BY <1>2
  <2> HIDE DEF C, from, to, intervals, s, B, J, f
  <2> QED
    BY <2>1, AnsweredPlans
<1>8. IsFiniteSet(B) /\ Cardinality(B) <= BufferInput
  <2> HIDE DEF intervals, s
  <2>1. B \in SUBSET intervals
    OBVIOUS
  <2>2. IsFiniteSet(B)
    BY <1>5, <2>1, FS_Subset
  <2>3. Cardinality(B) <= BufferInput
    BY <1>4, <1>6 DEF Cumulative
  <2> QED
    BY <2>2, <2>3
<1>9. ASSUME NEW j \in J PROVE f[j] \in B
  <2>1. j \in Waiting(C) /\ j \in C
    BY <1>2
  <2>2. plan[j].eta <= plan[i].eta /\ plan[i].eta < plan[j].start
    BY <1>7, <2>1
  <2>3. f[j] = Interval(j, plan[j].eta, plan[j].start)
    OBVIOUS
  <2>4. f[j] \in intervals
    BY <1>3, <2>1, <2>3
  <2>5. f[j].from = plan[j].eta /\ f[j].to = plan[j].start /\ s.from = plan[i].eta
    BY <2>3 DEF Interval
  <2> HIDE DEF intervals, s, f
  <2> QED
    BY <2>2, <2>4, <2>5
<1>10. f \in Injection(J, B)
  <2>1. \A j \in J : f[j].of = j
    BY DEF Interval
  <2>2. f \in [J -> B]
    <3> HIDE DEF B, J
    <3> QED
      BY <1>9
  <2> HIDE DEF f, B, J
  <2> QED
    BY <2>1, <2>2 DEF Injection, IsInjective
<1>11. Cardinality(J) <= Cardinality(B) /\ IsFiniteSet(J)
  <2> HIDE DEF f, B, J
  <2> QED
    BY <1>8, <1>10, FS_Injection
<1>12. Cardinality(J) \in Nat /\ Cardinality(B) \in Nat /\ BufferInput \in Nat
  <2> HIDE DEF B, J
  <2> QED
    BY <1>8, <1>11, FS_CardinalityType, SchedulerAssumption
<1>13. Cardinality(J) <= BufferInput
  <2> HIDE DEF B, J
  <2> QED
    BY <1>8, <1>11, <1>12
<1> QED
  BY <1>13

\* An answered request leaves a plan that can be carried out.
LEMMA AnsweredFeasible ==
    ASSUME Resolution = 1, TypeOK, NEW call, NEW new \in Askable,
           NEW first, NEW last, NEW plan, Succeeds(call, new, first, last, plan)
    PROVE  PlanFeasible'
<1> DEFINE C == Candidates(new)
           q == Queue(C, new)
<1>1. Planned' \subseteq C
  BY PlannedFacts
<1>2. Waiting(Planned)' \subseteq Waiting(C)
  <2>1. \A i \in C : event'[i].state = event[i].state
    BY AnsweredPlans
  <2> QED
    BY <1>1, <2>1 DEF Waiting
<1>3. \A i \in Waiting(C) :
          /\ i \in C /\ plan[i].eta \in Int /\ plan[i].start \in Int
          /\ plan[i].eta = Arrival(event'[i]) /\ plan[i].start = event'[i].schedule_start
  BY AnsweredPlans DEF Waiting
<1>4. ASSUME NEW i \in Planned', NEW j \in Planned', i # j
      PROVE  Processing(event'[i]) \cap Processing(event'[j]) = {}
  BY <1>1, <1>4, PlannedApart
<1>5. ASSUME NEW i \in Waiting(Planned)', NEW j \in Waiting(Planned)',
             Arrival(event'[i]) < Arrival(event'[j])
      PROVE  event'[i].schedule_start <= event'[j].schedule_start
  <2>1. i \in Waiting(C) /\ j \in Waiting(C)
    BY <1>2
  <2>2. q \in Seq(Created) /\ ToSet(q) = Waiting(C)
    BY QueueOfRequest
  <2>3. NoOvertakingIn(plan, q)
    BY ChosenFacts DEF Succeeds
  <2> HIDE DEF q, C
  <2>4. plan[i].eta < plan[j].eta
    BY <1>3, <1>5, <2>1
  <2>5. \A k \in ToSet(q) : plan[k].eta \in Int /\ plan[k].start \in Int
    BY <1>3, <2>2
  <2>6. i \in ToSet(q) /\ j \in ToSet(q)
    BY <2>1, <2>2
  <2>7. plan[i].start <= plan[j].start
    BY <2>2, <2>3, <2>4, <2>5, <2>6, Sorted
  <2> QED
    BY <1>3, <2>1, <2>7
<1>6. ASSUME NEW i \in Waiting(Planned)'
      PROVE  Cardinality({j \in Waiting(Planned)' :
                            /\ Arrival(event'[j]) <= Arrival(event'[i])
                            /\ Arrival(event'[i]) < event'[j].schedule_start}) <= BufferInput
  BY <1>2, InputHolds
<1> QED
  BY <1>4, <1>5, <1>6 DEF PlanFeasible

\* After every successful request the live events have a plan that can be carried out, if
\* a step of the solver is a second, as it is unless the agent is told otherwise.
THEOREM PlanFeasibleHolds ==
    ASSUME Resolution = 1
    PROVE  Spec => []PlanFeasible
<1>1. Init => PlanFeasible
  BY DEF Init, NoAnswer, PlanFeasible
<1>2. TypeOK /\ PlanFeasible /\ [Next]_vars => PlanFeasible'
  <2> SUFFICES ASSUME TypeOK, PlanFeasible, [Next]_vars PROVE PlanFeasible'
    OBVIOUS
  <2>1. ASSUME answer'.result # "ok" PROVE PlanFeasible'
    BY <2>1 DEF PlanFeasible
  <2>2. ASSUME NEW kwargs \in Kwargs, Create(kwargs) PROVE PlanFeasible'
    BY <2>1, <2>2 DEF Create, NoAnswer
  <2>3. ASSUME NEW call \in Calls, NEW new \in Askable, Solve(call, new) PROVE PlanFeasible'
    <3>1. CASE Fails(call, new)
      BY <2>1, <3>1 DEF Fails, Answer
    <3>2. CASE \E first, last, plan : Succeeds(call, new, first, last, plan)
      BY <3>2, AnsweredFeasible
    <3> QED
      BY <2>3, <3>1, <3>2, SolveFacts
  <2>4. ASSUME NEW i \in Created, NEW e, Report(i, e) PROVE PlanFeasible'
    BY <2>1, <2>4 DEF Report, NoAnswer
  <2>5. ASSUME Tick PROVE PlanFeasible'
    BY <2>1, <2>5 DEF Tick, NoAnswer
  <2>6. ASSUME UNCHANGED vars PROVE PlanFeasible'
    BY <2>6 DEF vars, PlanFeasible, Planned, Live, Registered, Over, Waiting
  <2> QED
    BY <2>2, <2>3, <2>4, <2>5, <2>6, NextFacts
<1> QED
  BY <1>1, <1>2, TypeCorrect, PTL DEF Spec

-----------------------------------------------------------------------------
(* What the waiting ones are planned around.                               *)

\* The times of a positive clock and positive dates do not look as if they were not set.
TimesPositive ==
    /\ MinClock > 0
    /\ \A kwargs \in Kwargs : kwargs.eta.low > 0
    /\ \A time \in Dates : time > 0

\* What the states of an event say about its times; a registered one has been planned or
\* has arrived, and if it is given other dates afterwards, that time stays.
Timed(e, registered) ==
    /\ e.eta.low > 0
    /\ e.state \in {"ARRIVED", "STARTED", "FINISHED", "DEPARTED"} =>
           e.activity_start \in Nat \ {0}
    /\ e.state = "DEPARTED" => e.activity_finish \in Int
    /\ registered => e.schedule_start \in Nat \ {0} \/ e.activity_start \in Nat \ {0}

AllTimed == clock > 0 /\ \A i \in Created : Timed(event[i], i \in Registered)

\* No event starts before it arrives.
LEMMA StartsAfterArrival ==
    ASSUME Resolution = 1, NEW e \in EventType, e.state \in {"NEW", "SCHEDULED"},
           NEW first, NEW last, NEW p \in PlansIn(get_variables(e), first, last)
    PROVE  e.eta.low <= p.start
<1>1. e.eta.low \in Int /\ e.eta.high # None /\ e.eta.low \in Time
  BY EventAssumption DEF EventType, EtxType, Bounded, Time
<1>2. Constraints(e.eta)[2] = e.eta.low /\ e.eta.low # None
  <2>1. convert_resolution(e.eta.low) = e.eta.low
    BY <1>1, UnitConversion
  <2> QED
    BY <1>1, <2>1, EventAssumption DEF Constraints
<1>3. get_variables(e).start[1] = e.eta.low
  BY <1>2 DEF get_variables, Windows
<1>4. p.start \in Within(get_variables(e).start, first, last)
  BY DEF PlansIn
<1> HIDE DEF get_variables
<1> QED
  BY <1>1, <1>2, <1>3, <1>4 DEF Within

\* A plan leaves the reported times and the arrival's bounds alone.
LEMMA PlanKeeps ==
    ASSUME NEW e \in EventType, NEW p
    PROVE  /\ Plan(e, p).state = e.state /\ Plan(e, p).eta.low = e.eta.low
           /\ Plan(e, p).activity_start = e.activity_start
           /\ Plan(e, p).activity_finish = e.activity_finish
           /\ e.state = "DEPARTED" => Plan(e, p) = e
<1>1. CASE e.state = "NEW"
  BY <1>1 DEF Plan, EventType, EtxType
<1>2. CASE e.state \in {"SCHEDULED", "ARRIVED"}
  BY <1>2 DEF Plan, EventType
<1>3. CASE e.state = "STARTED"
  BY <1>3 DEF Plan, EventType
<1>4. CASE e.state \notin {"NEW", "SCHEDULED", "ARRIVED", "STARTED"}
  BY <1>4 DEF Plan
<1> QED
  BY <1>1, <1>2, <1>3, <1>4

\* The agent's calls keep the times an event has by its state.
LEMMA StepTimed ==
    ASSUME TypeOK, AllTimed, TimesPositive, NEW i \in Created, NEW e, Step(i, e)
    PROVE  Timed(e, i \in Registered)
<1> DEFINE c == event[i]
<1>1. c \in EventType /\ Timed(c, i \in Registered) /\ clock \in Nat \ {0}
  BY StepTypes DEF AllTimed, TypeOK
<1> HIDE DEF c
<1>2. CASE i \in Registered /\ c.state \in {"NEW", "SCHEDULED"} /\ e = arrive(c, clock)
  BY <1>1, <1>2 DEF Timed, arrive, EventType, EtxType
<1>3. CASE c.state = "ARRIVED" /\ e = start(c, clock)
  BY <1>1, <1>3 DEF Timed, start, EventType
<1>4. CASE c.state = "STARTED" /\ e = finish(c, clock)
  BY <1>1, <1>4 DEF Timed, finish, EventType
<1>5. CASE c.state = "FINISHED" /\ e = depart(c, clock)
  BY <1>1, <1>5 DEF Timed, depart, EventType, EtxType
<1>6. CASE e = cancel(c)
  BY <1>1, <1>6 DEF Timed, cancel, EventType
<1>7. ASSUME NEW time \in Dates, e = schedule_etd(c, time, None)
      PROVE  Timed(e, i \in Registered)
  BY <1>1, <1>7 DEF Timed, schedule_etd, Rescheduled, EventType
<1>8. ASSUME NEW time \in Dates, e = schedule_eta(c, time, None)
      PROVE  Timed(e, i \in Registered)
  <2> DEFINE f == [c EXCEPT !.eta = Bounds(@, time, None)]
  <2>1. f.eta.low = time /\ time > 0
    BY <1>1 DEF Bounds, EventType, EtxType, TimesPositive
  <2>2. /\ f.state = c.state /\ f.schedule_start = c.schedule_start
        /\ f.activity_start = c.activity_start /\ f.activity_finish = c.activity_finish
    BY <1>1 DEF EventType
  <2>3. /\ e.eta.low = f.eta.low /\ e.schedule_start = f.schedule_start
        /\ e.activity_start = f.activity_start /\ e.activity_finish = f.activity_finish
        /\ e.state \in {f.state, "SCHEDULED"}
    BY <1>1, <1>8, <2>2 DEF schedule_eta, Rescheduled, EventType
  <2> HIDE DEF f
  <2> QED
    BY <1>1, <1>8, <2>1, <2>2, <2>3 DEF Timed
<1> QED
  BY <1>2, <1>3, <1>4, <1>5, <1>6, <1>7, <1>8 DEF Step, c

\* So does a request: the start it plans for an event is not before the arrival.
LEMMA SolveTimed ==
    ASSUME Resolution = 1, TypeOK, AllTimed, TimesPositive,
           NEW call \in Calls, NEW new \in Askable, Solve(call, new)
    PROVE  AllTimed'
<1>1. new \in SUBSET Created /\ Registered \subseteq Created
  BY AskableFacts, CandidateFacts
<1>2. clock' = clock /\ clock > 0 /\ \A i \in Created : Timed(event[i], i \in Registered)
  BY SolveFacts DEF AllTimed
<1>3. CASE Fails(call, new)
  <2>1. event' = event /\ events' = Remaining(Swept) /\ Created' = Created
    BY <1>3 DEF Fails, Created
  <2>2. Registered' \subseteq Registered
    <3>1. ToSet(Remaining(Swept)) = Registered \ Swept
      BY RemainingFacts
    <3> QED
      BY <2>1, <3>1 DEF Registered
  <2>3. ASSUME NEW i \in Created PROVE Timed(event'[i], i \in Registered')
    BY <1>2, <2>1, <2>2 DEF Timed
  <2> QED
    BY <1>2, <2>1, <2>3 DEF AllTimed
<1>4. CASE \E first, last, plan : Succeeds(call, new, first, last, plan)
  <2>1. PICK first, last, plan : Succeeds(call, new, first, last, plan)
    BY <1>4
  <2>2. Created' = Created
    BY <1>1, <2>1, AnsweredTypes
  <2>3. Registered' \subseteq Registered \cup new
    BY <2>1, AnsweredEvents, RegisteredAfter
  <2>4. ASSUME NEW i \in Created PROVE Timed(event'[i], i \in Registered')
    <3>1. event[i] \in EventType /\ Timed(event[i], i \in Registered)
      BY <1>2, <2>1, <1>1, AnsweredTypes
    <3>2. /\ event'[i].state = event[i].state /\ event'[i].eta.low = event[i].eta.low
          /\ event'[i].activity_start = event[i].activity_start
          /\ event'[i].activity_finish = event[i].activity_finish
      <4>1. event'[i] = IF i \in Candidates(new) THEN Plan(event[i], plan[i]) ELSE event[i]
        BY <2>1 DEF Succeeds
      <4> QED
        BY <3>1, <4>1, PlanKeeps
    <3>3. ASSUME event[i].state \in {"NEW", "SCHEDULED"}, i \in Registered'
          PROVE  event'[i].schedule_start \in Nat \ {0}
      <4>1. i \in Candidates(new)
        BY <2>3, <3>3 DEF Candidates, Live, Over
      <4>2. /\ event'[i].schedule_start = plan[i].start /\ plan[i].start \in Int
            /\ plan[i] \in PlansIn(get_variables(event[i]), first, last)
        BY <2>1, <4>1, AnsweredPlans DEF PlansOf
      <4>3. event[i].eta.low <= plan[i].start
        BY <3>1, <3>3, <4>2, StartsAfterArrival
      <4>4. event[i].eta.low > 0 /\ event[i].eta.low \in Int
        BY <3>1, EventAssumption DEF Timed, EventType, EtxType, Bounded, Time
      <4> QED
        BY <4>2, <4>3, <4>4
    <3>4. ASSUME event[i].state = "CANCELED", i \in Registered'
          PROVE  i \in Registered /\ event'[i] = event[i]
      <4>1. i \notin Candidates(new)
        BY <2>1, <3>4 DEF Succeeds, Raises
      <4> QED
        BY <2>1, <2>3, <3>4, <4>1 DEF Succeeds, Candidates
    <3>5. event[i].state \in {"NEW", "SCHEDULED", "CANCELED"} \cup
                             {"ARRIVED", "STARTED", "FINISHED", "DEPARTED"}
      BY <3>1 DEF EventType, States, Rank
    <3> QED
      BY <3>1, <3>2, <3>3, <3>4, <3>5 DEF Timed
  <2> QED
    BY <1>2, <2>2, <2>4 DEF AllTimed
<1> QED
  BY <1>3, <1>4, SolveFacts

\* Every event has the times its state says it has, and those are not zero.
LEMMA AllTimedHolds ==
    ASSUME Resolution = 1, TimesPositive
    PROVE  Spec => []AllTimed
<1>1. Init => AllTimed
  BY DEF Init, AllTimed, Created, TimesPositive
<1>2. TypeOK /\ AllTimed /\ [Next]_vars => AllTimed'
  <2> SUFFICES ASSUME TypeOK, AllTimed, [Next]_vars PROVE AllTimed'
    OBVIOUS
  <2>0. clock > 0 /\ \A i \in Created : Timed(event[i], i \in Registered)
    BY DEF AllTimed
  <2>1. ASSUME NEW kwargs \in Kwargs, Create(kwargs) PROVE AllTimed'
    <3>1. /\ event' = Append(event, NewEvent(kwargs)) /\ event \in Seq(EventType)
          /\ events = <<>> /\ events' = events /\ clock' = clock
      BY <2>1 DEF Create, TypeOK
    <3>2. Registered' = Registered /\ Registered = {}
      BY <3>1 DEF Registered, ToSet
    <3>3. Timed(NewEvent(kwargs), FALSE)
      BY DEF Timed, NewEvent, TimesPositive
    <3>4. Created = 1 .. Len(event) /\ Created' = 1 .. Len(event) + 1 /\ Len(event) \in Nat
      BY <3>1 DEF Created
    <3>5. ASSUME NEW i \in Created' PROVE Timed(event'[i], i \in Registered')
      <4>1. CASE i \in Created
        <5>1. event'[i] = event[i]
          BY <3>1, <3>4, <4>1
        <5> QED
          BY <2>0, <3>2, <4>1, <5>1
      <4>2. CASE i \notin Created
        <5>1. i = Len(event) + 1
          BY <3>4, <4>2
        <5>2. event'[i] = NewEvent(kwargs) /\ i \notin Registered'
          BY <3>1, <3>2, <5>1
        <5> QED
          BY <3>3, <5>2 DEF Timed
      <4> QED
        BY <4>1, <4>2
    <3> QED
      BY <2>0, <3>1, <3>5 DEF AllTimed
  <2>2. ASSUME NEW call \in Calls, NEW new \in Askable, Solve(call, new) PROVE AllTimed'
    BY <2>2, SolveTimed
  <2>3. ASSUME NEW j \in Created, NEW e, Step(j, e), Report(j, e) PROVE AllTimed'
    <3>1. event' = [event EXCEPT ![j] = e] /\ UNCHANGED <<events, clock>>
      BY <2>3 DEF Report
    <3>2. Timed(e, j \in Registered)
      BY <2>3, StepTimed
    <3>3. Created' = Created /\ Registered' = Registered
      BY <3>1 DEF Created, Registered
    <3>4. ASSUME NEW i \in Created PROVE Timed(event'[i], i \in Registered)
      <4>1. event'[i] = IF i = j THEN e ELSE event[i]
        BY <3>1 DEF Created
      <4> QED
        BY <2>0, <3>2, <4>1
    <3> QED
      BY <2>0, <3>1, <3>3, <3>4 DEF AllTimed
  <2>4. ASSUME Tick PROVE AllTimed'
    <3>1. clock' = clock + 1 /\ UNCHANGED <<event, events>> /\ clock \in Nat
      BY <2>4 DEF Tick, TypeOK
    <3>2. Created' = Created /\ Registered' = Registered /\ clock' > 0
      BY <3>1 DEF Created, Registered
    <3> QED
      BY <2>0, <3>1, <3>2 DEF AllTimed
  <2>5. ASSUME UNCHANGED vars PROVE AllTimed'
    BY <2>0, <2>5 DEF vars, AllTimed, Created, Registered
  <2> QED
    BY <2>1, <2>2, <2>3, <2>4, <2>5, NextFacts
<1> QED
  BY <1>1, <1>2, TypeCorrect, PTL DEF Spec

\* A departed event whose stay overlaps with what is known of a waiting one is kept.
LEMMA OverlappingKept ==
    ASSUME TypeOK, AllTimed, NEW w \in Registered, NEW d \in Registered,
           event[w].state = "ARRIVED", event[d].state = "DEPARTED",
           event[w].activity_start < event[d].activity_finish,
           event[d].activity_start <
               Max({event[w].activity_start, event[w].schedule_finish} \ {None})
    PROVE  d \in Kept /\ w \in Live
<1> DEFINE known == {event[w].activity_start, event[w].schedule_finish} \ {None}
<1>1. /\ \A i \in Registered : event[i] \in EventType /\ Timed(event[i], TRUE)
      /\ w \in Live
  <2>1. Registered \subseteq Created
    BY CandidateFacts
  <2>2. \A i \in Created : event[i] \in EventType
    BY DEF TypeOK, Created
  <2> QED
    BY <2>1, <2>2 DEF AllTimed, Live, Over, Timed
<1>2. /\ event[w].activity_start \in Nat \ {0} /\ event[d].activity_start \in Nat \ {0}
      /\ event[d].activity_finish \in Int /\ event[w].schedule_finish \in Time
  BY <1>1 DEF Timed, EventType
<1>3. ASSUME NEW i \in Live PROVE Times(event[i]) # {}
  <2>1. event[i] \in EventType /\ Timed(event[i], TRUE) /\ ~Over(i)
    BY <1>1 DEF Live
  <2>2. \/ event[i].schedule_start \in Nat \ {0}
        \/ event[i].activity_start \in Nat \ {0}
    BY <2>1 DEF Timed
  <2> QED
    BY <2>2, EventAssumption DEF Times
<1>4. LiveTimes = UNION {Times(event[i]) : i \in Live}
  BY <1>3 DEF LiveTimes
<1>5. Times(event[w]) \subseteq LiveTimes
  BY <1>1, <1>4
<1>6. event[w].activity_start \in LiveTimes
  BY <1>2, <1>5, EventAssumption DEF Times
<1>7. Max(known) \in known /\ Max(known) >= event[w].activity_start
  <2>1. known \subseteq Int /\ event[w].activity_start \in known
    BY <1>2, EventAssumption DEF Time
  <2>2. IsFiniteSet(known)
    <3>1. known \in SUBSET {event[w].activity_start, event[w].schedule_finish}
      OBVIOUS
    <3>2. IsFiniteSet({event[w].activity_start} \cup {event[w].schedule_finish})
      BY FS_Singleton, FS_Union
    <3>3. {event[w].activity_start} \cup {event[w].schedule_finish} =
              {event[w].activity_start, event[w].schedule_finish}
      OBVIOUS
    <3> QED
      BY <3>1, <3>2, <3>3, FS_Subset
  <2> HIDE DEF known
  <2> QED
    BY <2>1, <2>2, MaxMin
<1>8. Max(known) \in LiveTimes
  <2>1. Max(known) \in Int /\ Max(known) # 0 /\ Max(known) # None
    BY <1>2, <1>7, EventAssumption DEF Time
  <2>2. Max(known) \in Times(event[w])
    BY <1>7, <2>1 DEF Times
  <2> QED
    BY <1>5, <2>2
<1>9. Overlaps(d)
  <2>1. event[d].activity_start # None /\ event[d].activity_finish # None
    BY <1>2, EventAssumption
  <2> QED
    BY <1>6, <1>8, <2>1 DEF Overlaps
<1> QED
  BY <1>1, <1>9 DEF Kept, Over

\* An event that waits is not planned into the time in which one that has departed was
\* processed while their stays overlapped.
THEOREM PlansAroundDepartedHolds ==
    ASSUME Resolution = 1, TimesPositive
    PROVE  Spec => PlansAroundDeparted
<1> DEFINE Around(w, d) ==
        LET known == {event[w].activity_start, event[w].schedule_finish} \ {None}
        IN
          /\ event[w].state = "ARRIVED" /\ ~event[w].canceled
          /\ event[d].state = "DEPARTED"
          /\ event[w].activity_start < event[d].activity_finish
          /\ event[d].activity_start < Max(known)
          => Processing(event'[w]) \cap Processing(event[d]) = {}
<1>1. TypeOK /\ AllTimed /\ [Next]_vars =>
          [answer'.result = "ok" => \A w, d \in Registered : Around(w, d)]_vars
  <2> SUFFICES ASSUME TypeOK, AllTimed, Next, answer'.result = "ok",
                      NEW w \in Registered, NEW d \in Registered,
                      event[w].state = "ARRIVED", event[d].state = "DEPARTED",
                      event[w].activity_start < event[d].activity_finish,
                      event[d].activity_start <
                          Max({event[w].activity_start, event[w].schedule_finish} \ {None})
               PROVE  Processing(event'[w]) \cap Processing(event[d]) = {}
    OBVIOUS
  <2>1. \E call \in Calls, new \in Askable : Solve(call, new)
    BY NextFacts DEF Create, Report, Tick, NoAnswer
  <2>2. PICK call \in Calls, new \in Askable : Solve(call, new)
    BY <2>1
  <2>3. ~Fails(call, new)
    BY DEF Fails, Answer
  <2>4. PICK first, last, plan : Succeeds(call, new, first, last, plan)
    BY <2>2, <2>3, SolveFacts
  <2>5. d \in Candidates(new) /\ w \in Candidates(new) /\ w # d
    BY OverlappingKept DEF Candidates
  <2>6. Processing(event'[w]) \cap Processing(event'[d]) = {}
    BY <2>4, <2>5, PlannedApart
  <2>7. event'[d] = event[d]
    <3>1. d \in Created /\ event[d] \in EventType
      BY <2>4, <2>5, AnsweredPlans, AskableFacts, CandidateFacts
    <3>2. event'[d] = Plan(event[d], plan[d])
      BY <2>4, <2>5, <3>1 DEF Succeeds
    <3> QED
      BY <3>1, <3>2, PlanKeeps
  <2> QED
    BY <2>6, <2>7
<1> QED
  BY <1>1, TypeCorrect, AllTimedHolds, PTL DEF Spec, PlansAroundDeparted

===============================================================================
