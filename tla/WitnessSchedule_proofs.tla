------------------------ MODULE WitnessSchedule_proofs ------------------------
(***************************************************************************)
(* Proofs about WitnessSchedule for any number of witnesses, any votes and *)
(* any length of the lap, with arithmetic that wraps at the lap.           *)
(***************************************************************************)
EXTENDS WitnessSchedule, FiniteSetTheorems, NaturalsInduction, WellFoundedInduction, TLAPS

(***************************************************************************)
(* Arithmetic.                                                             *)
(***************************************************************************)

\* What the unsigned type makes of a number below its range twice over.
LEMMA Wrap ==
  ASSUME NEW n \in Nat
  PROVE  /\ U(n) \in 0 .. Lap
         /\ n <= Lap => U(n) = n
         /\ n > Lap /\ n <= 2 * Lap + 1 => U(n) = n - Lap - 1
BY ScheduleAssumption DEF U

LEMMA MulMonotone ==
  ASSUME NEW v \in Nat, NEW a \in Nat, NEW b \in Nat, a <= b
  PROVE  v * a \in Nat /\ v * b \in Nat /\ v * a <= v * b
<1>1. v * (b - a) \in Nat /\ v * a \in Nat /\ v * b \in Nat
  OBVIOUS
<1>2. v * b = v * a + v * (b - a)
  OBVIOUS
<1> QED  BY <1>1, <1>2

\* A witness with x votes needs the time d for the distance a: it does not run
\* further than a.
LEMMA LapTime ==
  ASSUME NEW a \in Nat, NEW x \in Nat
  PROVE  a \div (x + 1) \in 0 .. a /\ x * (a \div (x + 1)) <= a
<1> DEFINE d == a \div (x + 1)
<1>1. d \in Nat /\ (x + 1) * d <= a
  OBVIOUS
<1>2. (x + 1) * d = x * d + d
  BY <1>1
<1>3. x * d \in Nat
  BY <1>1
<1> QED  BY <1>1, <1>2, <1>3

\* A set of numbers that has an upper bound has a greatest number.
LEMMA HasMax ==
  ASSUME NEW S, S \subseteq 0 .. Lap, S # {}
  PROVE  Max(S) \in S /\ \A y \in S : y <= Max(S)
<1>l. Lap \in Nat
  BY ScheduleAssumption
<1> DEFINE T == {k \in Nat : Lap - k \in S}
<1>1. PICK s \in S : TRUE
  OBVIOUS
<1>2. Lap - s \in T
  BY <1>l
<1>3. PICK k \in T : \A j \in T : ~(<<j, k>> \in OpToRel(<, Nat))
  BY <1>2, NatLessThanWellFounded, WFMin
<1>4. \A j \in T : ~(j < k)
  BY <1>3 DEF OpToRel
<1>5. ASSUME NEW y \in S PROVE y <= Lap - k
  <2>1. y \in 0 .. Lap /\ Lap - y \in T
    BY <1>l
  <2>2. k \in Nat /\ ~(Lap - y < k)
    BY <1>4, <2>1
  <2> QED  BY <1>l, <2>1, <2>2
<1>6. Lap - k \in S /\ \A y \in S : Lap - k >= y
  BY <1>3, <1>5, <1>l
<1>7. Max(S) \in S /\ \A y \in S : Max(S) >= y
  BY <1>6 DEF Max
<1> QED  BY <1>7, <1>l

(***************************************************************************)
(* The steps.                                                              *)
(***************************************************************************)

LEMMA FiniteParts ==
  ASSUME NEW S, S \subseteq Witnesses
  PROVE  IsFiniteSet(S) /\ Cardinality(S) \in Nat
BY ScheduleAssumption, FS_Subset, FS_CardinalityType

\* The arrival with x votes of a witness at position pos now: it is not in the
\* past, and the witness ends at most its lap until then.
LEMMA ArrivalInLap ==
  ASSUME NEW w, NEW pos \in 0 .. Lap, NEW x \in Nat, time \in 0 .. Lap
  PROVE  /\ Arrival(w, pos, x) \in 0 .. Lap /\ time <= Arrival(w, pos, x)
         /\ pos + x * (Arrival(w, pos, x) - time) <= Lap
<1> DEFINE d == (Lap - pos) \div (x + 1)
<1>l. Lap \in Nat
  BY ScheduleAssumption
<1>1. U(Lap - pos) = Lap - pos /\ Lap - pos \in Nat
  BY <1>l, Wrap
<1>2. d \in 0 .. Lap - pos /\ x * d <= Lap - pos /\ x * d \in Nat
  BY <1>1, LapTime
<1>3. Arrival(w, pos, x) = IF U(time + d) < time THEN Lap ELSE U(time + d)
  BY <1>1 DEF Arrival
<1> HIDE DEF d
<1>4. CASE time + d <= Lap
  <2>1. Arrival(w, pos, x) = time + d
    BY <1>2, <1>3, <1>4, <1>l, Wrap
  <2>2. Arrival(w, pos, x) - time = d
    BY <1>2, <1>l, <2>1
  <2>3. x * (Arrival(w, pos, x) - time) = x * d
    BY <2>2
  <2> QED  BY <1>2, <1>4, <1>l, <2>1, <2>3
<1>5. CASE time + d > Lap
  <2>1. U(time + d) < time
    BY <1>2, <1>5, <1>l, Wrap
  <2>2. Arrival(w, pos, x) = Lap /\ Lap - time \in Nat /\ Lap - time <= d /\ d \in Nat
    BY <1>2, <1>3, <1>5, <1>l, <2>1
  <2>3. x * (Lap - time) <= x * d /\ x * (Lap - time) \in Nat
    BY <2>2, MulMonotone
  <2> QED  BY <1>2, <1>l, <2>2, <2>3
<1> QED  BY <1>2, <1>4, <1>5, <1>l

\* Whoever arrives before one that is looked at is looked at as well.
LEMMA LedBy ==
  ASSUME TypeOK, NEW elected, elected \subseteq there,
         NEW m \in Processed(elected), NEW w \in there, sched[w] < sched[m]
  PROVE  w \in Processed(elected)
<1> DEFINE P(x) == {v \in there : key[v] /\ v \notin elected /\ AheadByTime(v, x)}
<1>1. there \subseteq Witnesses /\ m \in there /\ \A v \in there : sched[v] \in 0 .. Lap /\ v \in Nat
  BY ScheduleAssumption DEF TypeOK, Processed
<1>2. P(w) \in SUBSET P(m)
  <2>1. ASSUME NEW v \in there, AheadByTime(v, w) PROVE AheadByTime(v, m)
    BY <1>1, <2>1, ScheduleAssumption DEF AheadByTime
  <2> QED  BY <2>1
<1>3. IsFiniteSet(P(m)) /\ Cardinality(P(m)) \in Nat /\ Cardinality(P(w)) \in Nat
      /\ Cardinality(elected) \in Nat
  BY <1>1, FiniteParts
<1>4. Cardinality(P(w)) <= Cardinality(P(m))
  BY <1>2, <1>3, FS_Subset
<1>5. Cardinality(P(m)) < MaxWitnesses - Cardinality(elected)
  BY DEF Processed
<1>6. Cardinality(P(w)) < MaxWitnesses - Cardinality(elected)
  BY <1>3, <1>4, <1>5, ScheduleAssumption
<1> QED  BY <1>6 DEF Processed

\* Time does not pass those that are not looked at, and never goes back.
LEMMA TimeAdvances ==
  ASSUME IInv, NEW elected, elected \subseteq there
  PROVE  LET on == Processed(elected) IN
           /\ on \subseteq there
           /\ NewTime(on) \in 0 .. Lap /\ time <= NewTime(on)
           /\ \A w \in there \ on : NewTime(on) <= sched[w]
<1> DEFINE on == Processed(elected)
           S == {sched[w] : w \in on}
<1>1. on \subseteq there
  BY DEF Processed
<1>2. there \subseteq Witnesses /\ (\A w \in there : sched[w] \in 0 .. Lap /\ time <= sched[w])
      /\ time \in 0 .. Lap /\ Lap \in Nat
  BY ScheduleAssumption DEF IInv, TypeOK, OneLap
<1> HIDE DEF on
<1>3. CASE on = {}
  BY <1>1, <1>2, <1>3 DEF NewTime, on
<1>4. CASE on # {}
  <2>1. S \subseteq 0 .. Lap /\ S # {}
    BY <1>1, <1>2, <1>4
  <2>2. Max(S) \in S /\ NewTime(on) = Max(S)
    BY <1>4, <2>1, HasMax DEF NewTime
  <2>3. PICK m \in on : NewTime(on) = sched[m]
    BY <2>2
  <2>4. m \in there /\ sched[m] \in 0 .. Lap /\ time <= sched[m]
    BY <1>1, <1>2
  <2>5. ASSUME NEW w \in there \ on PROVE sched[m] <= sched[w]
    <3>1. ~(sched[w] < sched[m])
      BY LedBy, <2>3, <2>5 DEF on, IInv
    <3> QED  BY <1>2, <2>4, <3>1
  <2> QED  BY <1>1, <2>3, <2>4, <2>5 DEF on
<1> QED  BY <1>3, <1>4

LEMMA InvInit == Init => IInv
<1> SUFFICES ASSUME Init PROVE IInv
  OBVIOUS
<1>l. Lap \in Nat
  BY ScheduleAssumption
<1>1. ASSUME NEW w \in there
      PROVE  /\ w \in Witnesses /\ votes[w] = InitVotes[w] /\ votes[w] \in Nat
             /\ sched[w] = Lap \div (votes[w] + 1)
             /\ sched[w] \in 0 .. Lap /\ votes[w] * (sched[w] - 0) <= Lap
  <2>1. w \in Witnesses /\ votes[w] = InitVotes[w] /\ votes[w] \in Nat /\ sched[w] = Lap \div (votes[w] + 1)
    BY ScheduleAssumption DEF Init
  <2>2. sched[w] \in 0 .. Lap /\ votes[w] * sched[w] <= Lap /\ sched[w] - 0 = sched[w]
    BY <1>l, <2>1, LapTime
  <2> QED  BY <2>1, <2>2
<1>2. /\ votes \in [Witnesses -> Nat] /\ sched \in [Witnesses -> 0 .. Lap]
  <2>0. \A w \in Witnesses \ there : votes[w] = 0 /\ sched[w] = Lap
    BY DEF Init
  <2>1. \A w \in Witnesses : votes[w] \in Nat /\ sched[w] \in 0 .. Lap
    BY <1>1, <1>l, <2>0
  <2>2. votes = [w \in Witnesses |-> votes[w]] /\ sched = [w \in Witnesses |-> sched[w]]
    BY DEF Init
  <2> QED  BY <2>1, <2>2
<1>3. TypeOK
  <2>1. there \subseteq Witnesses /\ active \subseteq there /\ key \in [Witnesses -> BOOLEAN]
    BY ScheduleAssumption DEF Init
  <2>2. /\ last \in [Witnesses -> 0 .. Lap] /\ position \in [Witnesses -> 0 .. Lap]
        /\ time \in 0 .. Lap /\ round \in 0 .. 1 /\ changes \in Nat /\ halted \in BOOLEAN
    <3>1. 0 \in 0 .. Lap /\ 0 \in 0 .. 1 /\ 0 \in Nat
      BY <1>l
    <3> QED  BY <3>1, Zenon DEF Init
  <2> QED  BY <1>2, <2>1, <2>2 DEF TypeOK
<1>4. OneLap
  <2> SUFFICES ASSUME NEW w \in there
               PROVE  /\ last[w] <= time /\ time <= sched[w]
                      /\ position[w] + votes[w] * (sched[w] - last[w]) <= Lap
    BY DEF OneLap
  <2>1. last[w] = 0 /\ position[w] = 0 /\ time = 0
    BY <1>1 DEF Init
  <2> QED  BY <1>1, <1>l, <2>1
<1>5. AtRest
  BY DEF Init, AtRest
<1> QED  BY <1>3, <1>4, <1>5 DEF IInv

LEMMA AdjustStep ==
  ASSUME IInv, NEW w \in Witnesses, NEW x \in Nat, AdjustWitnessVote(w, x)
  PROVE  IInv'
<1> DEFINE pos == position[w] + votes[w] * (time - last[w])
           a == Arrival(w, pos, x)
<1>l. Lap \in Nat
  BY ScheduleAssumption
<1>1. /\ w \in there /\ votes[w] \in Nat /\ position[w] \in 0 .. Lap /\ last[w] \in 0 .. Lap
      /\ sched[w] \in 0 .. Lap /\ time \in 0 .. Lap /\ last[w] <= time /\ time <= sched[w]
      /\ position[w] + votes[w] * (sched[w] - last[w]) <= Lap
  BY DEF AdjustWitnessVote, IInv, TypeOK, OneLap
<1>2. time - last[w] \in 0 .. Lap /\ sched[w] - last[w] \in Nat /\ time - last[w] <= sched[w] - last[w]
  BY <1>1, <1>l
<1>3. votes[w] * (time - last[w]) <= votes[w] * (sched[w] - last[w])
      /\ votes[w] * (time - last[w]) \in Nat /\ votes[w] * (sched[w] - last[w]) \in Nat
  BY <1>1, <1>2, MulMonotone
<1>4. pos \in 0 .. Lap
  BY <1>1, <1>3, <1>l
<1>5. U(time - last[w]) = time - last[w] /\ U(pos) = pos
  BY <1>2, <1>4, <1>l, Wrap
<1>6. /\ votes' = [votes EXCEPT ![w] = x] /\ position' = [position EXCEPT ![w] = pos]
      /\ last' = [last EXCEPT ![w] = time] /\ sched' = [sched EXCEPT ![w] = a]
      /\ changes' = changes + 1 /\ UNCHANGED <<there, key, time, active, round, halted>>
  BY <1>5 DEF AdjustWitnessVote
<1> HIDE DEF pos
<1>7. a \in 0 .. Lap /\ time <= a /\ pos + x * (a - time) <= Lap
  BY <1>1, <1>4, ArrivalInLap
<1> HIDE DEF a
<1>8. TypeOK'
  BY <1>1, <1>4, <1>6, <1>7 DEF IInv, TypeOK
<1>9. OneLap'
  <2> SUFFICES ASSUME NEW v \in there
               PROVE  /\ last'[v] <= time /\ time <= sched'[v]
                      /\ position'[v] + votes'[v] * (sched'[v] - last'[v]) <= Lap
    BY <1>6 DEF OneLap
  <2>0. v \in Witnesses
    BY DEF IInv, TypeOK
  <2>1. CASE v = w
    <3>1. last'[v] = time /\ sched'[v] = a /\ position'[v] = pos /\ votes'[v] = x
      BY <1>6, <2>0, <2>1 DEF IInv, TypeOK
    <3> QED  BY <1>1, <1>7, <3>1
  <2>2. CASE v # w
    <3>1. last'[v] = last[v] /\ sched'[v] = sched[v] /\ position'[v] = position[v] /\ votes'[v] = votes[v]
      BY <1>6, <2>0, <2>2 DEF IInv, TypeOK
    <3> QED  BY <3>1 DEF IInv, OneLap
  <2> QED  BY <2>1, <2>2
<1>10. AtRest'
  BY <1>1, <1>6 DEF IInv, AtRest, TypeOK
<1> QED  BY <1>8, <1>9, <1>10 DEF IInv

LEMMA UpdateStep ==
  ASSUME IInv, NEW w \in Witnesses, NEW k \in BOOLEAN, WitnessUpdate(w, k)
  PROVE  IInv'
<1>l. Lap \in Nat
  BY ScheduleAssumption
<1>1. TypeOK'
  BY DEF WitnessUpdate, IInv, TypeOK
<1>2. ASSUME NEW v \in there'
      PROVE  /\ last[v] <= time /\ time <= sched[v]
             /\ position[v] + votes[v] * (sched[v] - last[v]) <= Lap
  <2>1. CASE v \in there
    BY <2>1 DEF IInv, OneLap
  <2>2. CASE v \notin there
    <3>1. v \in Witnesses /\ votes[v] = 0 /\ last[v] = 0 /\ position[v] = 0 /\ sched[v] = Lap
      BY <2>2 DEF WitnessUpdate, IInv, AtRest
    <3>2. time \in 0 .. Lap
      BY DEF IInv, TypeOK
    <3> QED  BY <1>l, <3>1, <3>2
  <2> QED  BY <2>1, <2>2
<1>3. OneLap'
  BY <1>2 DEF OneLap, WitnessUpdate
<1>4. AtRest'
  BY DEF AtRest, WitnessUpdate, IInv
<1> QED  BY <1>1, <1>3, <1>4 DEF IInv

\* A new lap of one witness from the time t.
LEMMA FullLap ==
  ASSUME NEW t \in 0 .. Lap, NEW v \in Nat, ~(U(t + Lap \div (v + 1)) < t)
  PROVE  /\ U(t + Lap \div (v + 1)) \in 0 .. Lap /\ t <= U(t + Lap \div (v + 1))
         /\ 0 + v * (U(t + Lap \div (v + 1)) - t) <= Lap
<1> DEFINE d == Lap \div (v + 1)
<1>l. Lap \in Nat
  BY ScheduleAssumption
<1>1. d \in 0 .. Lap /\ v * d <= Lap
  BY <1>l, LapTime
<1> HIDE DEF d
<1>2. U(t + d) \in 0 .. Lap /\ ~(U(t + d) < t)
  BY <1>1, <1>l, Wrap DEF d
<1>3. t + d <= Lap
  BY <1>1, <1>2, <1>l, Wrap
<1>4. U(t + d) = t + d /\ t + d - t = d
  BY <1>1, <1>3, <1>l, Wrap
<1>5. v * (U(t + d) - t) = v * d /\ v * d \in Int
  BY <1>1, <1>4
<1> QED  BY <1>1, <1>2, <1>3, <1>4, <1>5, <1>l DEF d

LEMMA ScheduleStep ==
  ASSUME IInv, UpdateWitnessSchedule
  PROVE  IInv'
<1> DEFINE elected == Elected
           on == Processed(elected)
           t == NewTime(on)
           selected == elected \cup {w \in on : key[w]}
<1>l. Lap \in Nat
  BY ScheduleAssumption
<1>t. /\ there \subseteq Witnesses /\ votes \in [Witnesses -> Nat] /\ last \in [Witnesses -> 0 .. Lap]
      /\ position \in [Witnesses -> 0 .. Lap] /\ sched \in [Witnesses -> 0 .. Lap] /\ time \in 0 .. Lap
  BY DEF IInv, TypeOK
<1>0. elected \subseteq there
  BY DEF Elected
<1>1. on \subseteq there /\ t \in 0 .. Lap /\ time <= t /\ \A w \in there \ on : t <= sched[w]
  BY <1>0, TimeAdvances
<1>2. /\ \/ /\ active' = selected /\ round' = 1 - round /\ halted' = halted
            /\ IF Overflows(on, t) THEN Reset ELSE NewLap(on, t)
         \/ halted' = TRUE /\ UNCHANGED <<last, position, sched, time, active, round>>
      /\ UNCHANGED <<there, votes, key, changes>>
  BY DEF UpdateWitnessSchedule
<1>3. selected \subseteq there
  BY <1>0, <1>1
<1> HIDE DEF elected, on, t, selected
<1>4. CASE halted' = TRUE /\ UNCHANGED <<last, position, sched, time, active, round>>
  BY <1>2, <1>4 DEF IInv, TypeOK, OneLap, AtRest
<1>5. ASSUME active' = selected, round' = 1 - round, halted' = halted,
             time' \in 0 .. Lap,
             \A w \in there : /\ last'[w] \in 0 .. Lap /\ position'[w] \in 0 .. Lap /\ sched'[w] \in 0 .. Lap
                              /\ last'[w] <= time' /\ time' <= sched'[w]
                              /\ position'[w] + votes[w] * (sched'[w] - last'[w]) <= Lap,
             \A w \in Witnesses \ there : last'[w] = last[w] /\ position'[w] = position[w] /\ sched'[w] = sched[w],
             last' = [w \in Witnesses |-> last'[w]], position' = [w \in Witnesses |-> position'[w]],
             sched' = [w \in Witnesses |-> sched'[w]]
      PROVE  IInv'
  <2>1. \A w \in Witnesses : last'[w] \in 0 .. Lap /\ position'[w] \in 0 .. Lap /\ sched'[w] \in 0 .. Lap
    BY <1>5, <1>t
  <2>2. last' \in [Witnesses -> 0 .. Lap] /\ position' \in [Witnesses -> 0 .. Lap] /\ sched' \in [Witnesses -> 0 .. Lap]
    BY <1>5, <2>1
  <2>3. TypeOK'
    BY <1>2, <1>3, <1>5, <2>2 DEF IInv, TypeOK
  <2>4. OneLap'
    BY <1>2, <1>5 DEF OneLap
  <2>5. AtRest'
    BY <1>2, <1>5 DEF IInv, AtRest
  <2> QED  BY <2>3, <2>4, <2>5 DEF IInv
<1>6. CASE /\ active' = selected /\ round' = 1 - round /\ halted' = halted
           /\ Overflows(on, t) /\ Reset
  <2>1. ASSUME NEW w \in there
        PROVE  /\ last'[w] = 0 /\ position'[w] = 0 /\ sched'[w] = Lap \div (votes[w] + 1)
               /\ sched'[w] \in 0 .. Lap /\ position'[w] + votes[w] * (sched'[w] - last'[w]) <= Lap
    <3>1. last'[w] = 0 /\ position'[w] = 0 /\ sched'[w] = Lap \div (votes[w] + 1) /\ votes[w] \in Nat
      BY <1>6, <1>t DEF Reset
    <3>2. sched'[w] \in 0 .. Lap /\ votes[w] * sched'[w] <= Lap /\ sched'[w] - 0 = sched'[w]
      BY <1>l, <3>1, LapTime
    <3>3. votes[w] * (sched'[w] - last'[w]) = votes[w] * sched'[w] /\ votes[w] * sched'[w] \in Int
      BY <3>1, <3>2
    <3> QED  BY <3>1, <3>2, <3>3
  <2>2. time' = 0
    BY <1>6 DEF Reset
  <2>3. /\ last' = [w \in Witnesses |-> last'[w]] /\ position' = [w \in Witnesses |-> position'[w]]
        /\ sched' = [w \in Witnesses |-> sched'[w]]
        /\ \A w \in Witnesses \ there : last'[w] = last[w] /\ position'[w] = position[w] /\ sched'[w] = sched[w]
    BY <1>6 DEF Reset
  <2> QED  BY <1>5, <1>6, <1>l, <2>1, <2>2, <2>3
<1>7. CASE /\ active' = selected /\ round' = 1 - round /\ halted' = halted
           /\ ~Overflows(on, t) /\ NewLap(on, t)
  <2>1. ASSUME NEW w \in there
        PROVE  /\ last'[w] \in 0 .. Lap /\ position'[w] \in 0 .. Lap /\ sched'[w] \in 0 .. Lap
               /\ last'[w] <= t /\ t <= sched'[w]
               /\ position'[w] + votes[w] * (sched'[w] - last'[w]) <= Lap
    <3>1. CASE w \in on
      <4>1. /\ last'[w] = t /\ position'[w] = 0 /\ sched'[w] = U(t + Lap \div (votes[w] + 1)) /\ votes[w] \in Nat
            /\ ~(U(t + Lap \div (votes[w] + 1)) < t)
        BY <1>7, <1>t, <3>1 DEF NewLap, Overflows
      <4>2. /\ sched'[w] \in 0 .. Lap /\ t <= sched'[w]
            /\ position'[w] + votes[w] * (sched'[w] - last'[w]) <= Lap
        BY <1>1, <4>1, FullLap
      <4> QED  BY <1>1, <1>l, <4>1, <4>2
    <3>2. CASE w \notin on
      <4>1. last'[w] = last[w] /\ position'[w] = position[w] /\ sched'[w] = sched[w]
        BY <1>7, <1>t, <3>2 DEF NewLap
      <4>2. last[w] <= time /\ position[w] + votes[w] * (sched[w] - last[w]) <= Lap
        BY DEF IInv, OneLap
      <4>3. last[w] \in 0 .. Lap /\ position[w] \in 0 .. Lap /\ sched[w] \in 0 .. Lap
        BY <1>t
      <4> QED  BY <1>1, <1>l, <1>t, <3>2, <4>1, <4>2, <4>3
    <3> QED  BY <3>1, <3>2
  <2>2. time' = t
    BY <1>7 DEF NewLap
  <2>3. /\ last' = [w \in Witnesses |-> last'[w]] /\ position' = [w \in Witnesses |-> position'[w]]
        /\ sched' = [w \in Witnesses |-> sched'[w]]
        /\ \A w \in Witnesses \ there : last'[w] = last[w] /\ position'[w] = position[w] /\ sched'[w] = sched[w]
    BY <1>1, <1>7 DEF NewLap
  <2> QED  BY <1>1, <1>5, <1>7, <2>1, <2>2, <2>3
<1> QED  BY <1>2, <1>4, <1>6, <1>7

(***************************************************************************)
(* Theorems                                                                *)
(***************************************************************************)

\* The inductive invariant holds for every set of witnesses, every length of
\* the lap and every sequence of votes, key changes, rounds and resets.
THEOREM Invariance == Spec => []IInv
<1>1. IInv /\ [Next]_vars => IInv'
  <2> SUFFICES ASSUME IInv, [Next]_vars PROVE IInv'
    OBVIOUS
  <2>1. ASSUME NEW w \in Witnesses, NEW x \in 0 .. MaxVotes, AdjustWitnessVote(w, x) PROVE IInv'
    BY <2>1, AdjustStep, ScheduleAssumption
  <2>2. ASSUME NEW w \in Witnesses, NEW k \in BOOLEAN, WitnessUpdate(w, k) PROVE IInv'
    BY <2>2, UpdateStep
  <2>3. CASE UpdateWitnessSchedule
    BY <2>3, ScheduleStep
  <2>4. CASE UNCHANGED vars
    BY <2>4 DEF vars, IInv, TypeOK, OneLap, AtRest
  <2> QED  BY <2>1, <2>2, <2>3, <2>4 DEF Next
<1> QED  BY <1>1, InvInit, PTL DEF Spec

\* Times, positions and laps always fit the unsigned type, and the witnesses
\* of a round are existing ones.
THEOREM TypeCorrect == Spec => []TypeOK
<1>1. IInv => TypeOK
  BY DEF IInv
<1> QED  BY <1>1, Invariance, PTL

\* Whatever happens to its votes, no witness's scheduled time is in the past
\* and no position is beyond the lap: adjust_witness_vote and the new laps of
\* update_witness_schedule4 never wrap unnoticed.
THEOREM NobodyWrapsAlways == Spec => []NobodyWraps
<1>1. ASSUME IInv PROVE NobodyWraps
  <2> SUFFICES ASSUME NEW w \in there
               PROVE  /\ time <= sched[w] /\ last[w] <= time
                      /\ position[w] + votes[w] * (time - last[w]) <= Lap
    BY DEF NobodyWraps
  <2>1. /\ votes[w] \in Nat /\ position[w] \in 0 .. Lap /\ last[w] \in 0 .. Lap
        /\ sched[w] \in 0 .. Lap /\ time \in 0 .. Lap /\ last[w] <= time /\ time <= sched[w]
        /\ position[w] + votes[w] * (sched[w] - last[w]) <= Lap /\ Lap \in Nat
    BY <1>1, ScheduleAssumption DEF IInv, TypeOK, OneLap
  <2>2. time - last[w] \in Nat /\ sched[w] - last[w] \in Nat /\ time - last[w] <= sched[w] - last[w]
    BY <2>1
  <2>3. votes[w] * (time - last[w]) <= votes[w] * (sched[w] - last[w])
        /\ votes[w] * (time - last[w]) \in Nat /\ votes[w] * (sched[w] - last[w]) \in Nat
    BY <2>1, <2>2, MulMonotone
  <2> QED  BY <2>1, <2>3
<1> QED  BY <1>1, Invariance, PTL
=============================================================================
