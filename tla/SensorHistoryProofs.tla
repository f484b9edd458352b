------------------------ MODULE SensorHistoryProofs ------------------------
(***************************************************************************)
(* Theorems about the history of a sensor, for any readings and any        *)
(* number of callbacks and restarts.                                       *)
(***************************************************************************)
EXTENDS SensorHistory, SequenceTheorems, TLAPS

\* While the screen is open the saved arrays are the ones on the screen; the
\* times, which are trimmed with the readings, never grow past seven.
SavedIsShown ==
  /\ screen \in {"open", "saving"} => savedValues = values
  /\ screen = "open" => savedTimes = times
  /\ screen = "closed" => values = <<>> /\ times = <<>>

FewTimes == Len(times) <= 7 /\ Len(savedTimes) <= 7

ShownDraws == ~torn => Draws(values, times)

FewerTimes == /\ Len(times) <= Len(values)
              /\ Len(savedTimes) <= Len(savedValues)

IInv == /\ TypeOK
        /\ SavedIsShown
        /\ FewTimes
        /\ FewerTimes
        /\ Aligned
        /\ ShownDraws
        /\ SavedDraws

\* A fresh installation has empty arrays.
LEMMA Initially == Init => IInv
<1> SUFFICES ASSUME Init PROVE IInv
  OBVIOUS
<1>1. TypeOK
  BY EmptySeq DEF Init, TypeOK
<1>2. SavedIsShown /\ FewTimes /\ FewerTimes
  BY EmptySeq DEF Init, SavedIsShown, FewTimes, FewerTimes
<1>3. Aligned /\ ShownDraws /\ SavedDraws
  BY EmptySeq DEF Init, Aligned, AlignedWith, ShownDraws, SavedDraws, Draws
<1> QED
  BY <1>1, <1>2, <1>3 DEF IInv

\* Recording a reading: one more of each, or none.
LEMMA Recording ==
  ASSUME TypeOK, NEW val \in Readings
  PROVE  /\ Recorded(val) \in Seq(Reading) /\ Stamped(val) \in Seq(Nat)
         /\ \/ /\ Recorded(val) = values /\ Stamped(val) = times
            \/ /\ Len(Recorded(val)) = Len(values) + 1
               /\ Len(Stamped(val)) = Len(times) + 1
               /\ \A i \in 1..Len(values) : Recorded(val)[i] = values[i]
               /\ \A i \in 1..Len(times) : Stamped(val)[i] = times[i]
               /\ Recorded(val)[Len(values) + 1].at = clock
               /\ Stamped(val)[Len(times) + 1] = clock
<1> DEFINE r == [val |-> val, at |-> clock]
<1>1. /\ values \in Seq(Reading) /\ times \in Seq(Nat) /\ clock \in Nat
      /\ r \in Reading /\ r.at = clock
  BY DEF TypeOK, Reading
<1> HIDE DEF r
<1>2. CASE IsNew(val)
  <2>1. Recorded(val) = Append(values, r) /\ Stamped(val) = Append(times, clock)
    BY <1>2 DEF Recorded, Stamped, r
  <2> QED
    BY <1>1, <2>1, AppendProperties
<1>3. CASE ~IsNew(val)
  BY <1>1, <1>3 DEF Recorded, Stamped
<1> QED
  BY <1>2, <1>3

\* Trimming takes the first of each array, or nothing.
LEMMA Trimming ==
  ASSUME NEW S, NEW s \in Seq(S), NEW T, NEW t \in Seq(T), NEW U, NEW u \in Seq(U),
         u # <<>> \/ ~TooLong(s, t)
  PROVE  /\ Trimmed(s, t, u) \in Seq(U)
         /\ ~TooLong(s, t) => Trimmed(s, t, u) = u
         /\ TooLong(s, t) =>
              /\ Len(Trimmed(s, t, u)) = Len(u) - 1
              /\ \A i \in 1..Len(u) - 1 : Trimmed(s, t, u)[i] = u[i + 1]
<1>1. CASE TooLong(s, t)
  BY <1>1, HeadTailProperties DEF Trimmed
<1>2. CASE ~TooLong(s, t)
  BY <1>2 DEF Trimmed
<1> QED
  BY <1>1, <1>2

\* The arrays that a callback draws, in the three ways it may change them:
\* not at all, one more of each, or one more of each without the first ones.
LEMMA ThreeOutcomes ==
  ASSUME IInv, NEW val \in Readings
  PROVE  LET vs == NextValues(val)
             ts == NextTimes(val)
             n  == Len(values)
             m  == Len(times)
         IN /\ vs \in Seq(Reading) /\ ts \in Seq(Nat)
            /\ \/ vs = values /\ ts = times
               \/ /\ n < 7 \/ m < 7
                  /\ Len(vs) = n + 1 /\ Len(ts) = m + 1
                  /\ \A i \in 1..n : vs[i] = values[i]
                  /\ \A i \in 1..m : ts[i] = times[i]
                  /\ vs[n + 1].at = clock /\ ts[m + 1] = clock
               \/ /\ n >= 7 /\ m >= 7
                  /\ Len(vs) = n /\ Len(ts) = m
                  /\ \A i \in 1..n - 1 : vs[i] = values[i + 1]
                  /\ \A i \in 1..m - 1 : ts[i] = times[i + 1]
                  /\ vs[n].at = clock /\ ts[m] = clock
<1> DEFINE r == Recorded(val)
           u == Stamped(val)
           n == Len(values)
           m == Len(times)
<1>1. /\ values \in Seq(Reading) /\ times \in Seq(Nat)
      /\ n \in Nat /\ m \in Nat /\ m <= 7 /\ m <= n
  BY LenProperties DEF IInv, TypeOK, FewTimes, FewerTimes
<1>2. /\ r \in Seq(Reading) /\ u \in Seq(Nat)
      /\ \/ r = values /\ u = times
         \/ /\ Len(r) = n + 1 /\ Len(u) = m + 1
            /\ \A i \in 1..n : r[i] = values[i]
            /\ \A i \in 1..m : u[i] = times[i]
            /\ r[n + 1].at = clock /\ u[m + 1] = clock
  BY Recording DEF IInv
<1> HIDE DEF r, u
<1>3. NextValues(val) = Trimmed(r, u, r) /\ NextTimes(val) = Trimmed(r, u, u)
  BY DEF NextValues, NextTimes, r, u
<1>4. CASE ~TooLong(r, u)
  <2>1. NextValues(val) = r /\ NextTimes(val) = u
    BY <1>3, <1>4 DEF Trimmed
  <2>2. Len(r) = n + 1 /\ Len(u) = m + 1 => n < 7 \/ m < 7
    BY <1>1, <1>4 DEF TooLong
  <2> QED
    BY <1>2, <2>1, <2>2
<1>5. CASE TooLong(r, u)
  <2>1. u # times
    BY <1>1, <1>5 DEF TooLong
  <2>2. /\ Len(r) = n + 1 /\ Len(u) = m + 1 /\ n >= 7 /\ m >= 7
        /\ \A i \in 1..n : r[i] = values[i]
        /\ \A i \in 1..m : u[i] = times[i]
        /\ r[n + 1].at = clock /\ u[m + 1] = clock
    BY <1>1, <1>2, <1>5, <2>1 DEF TooLong
  <2>3. r # <<>> /\ u # <<>>
    BY <1>1, <2>2, EmptySeq
  <2>4. /\ Tail(r) \in Seq(Reading) /\ Len(Tail(r)) = n
        /\ \A i \in 1..n : Tail(r)[i] = r[i + 1]
    BY <1>1, <1>2, <2>2, <2>3, HeadTailProperties
  <2>5. /\ Tail(u) \in Seq(Nat) /\ Len(Tail(u)) = m
        /\ \A i \in 1..m : Tail(u)[i] = u[i + 1]
    BY <1>1, <1>2, <2>2, <2>3, HeadTailProperties
  <2>6. NextValues(val) = Tail(r) /\ NextTimes(val) = Tail(u)
    BY <1>3, <1>5 DEF Trimmed
  <2>7. \A i \in 1..n - 1 : Tail(r)[i] = values[i + 1]
    <3>1. \A i \in 1..n - 1 : i \in 1..n /\ i + 1 \in 1..n
      BY <1>1
    <3> QED
      BY <2>2, <2>4, <3>1
  <2>8. \A i \in 1..m - 1 : Tail(u)[i] = times[i + 1]
    <3>1. \A i \in 1..m - 1 : i \in 1..m /\ i + 1 \in 1..m
      BY <1>1
    <3> QED
      BY <2>2, <2>5, <3>1
  <2>9. Tail(r)[n].at = clock /\ Tail(u)[m] = clock
    BY <1>1, <2>2, <2>4, <2>5
  <2> QED
    BY <2>2, <2>4, <2>5, <2>6, <2>7, <2>8, <2>9
<1> QED
  BY <1>4, <1>5

\* A callback keeps the arrays short, the times fewer than the readings and,
\* where they were aligned, aligned.
LEMMA NextArrays ==
  ASSUME IInv, NEW val \in Readings
  PROVE  LET vs == NextValues(val)
             ts == NextTimes(val)
         IN /\ vs \in Seq(Reading) /\ ts \in Seq(Nat)
            /\ Len(ts) <= 7 /\ Len(ts) <= Len(vs) /\ Len(times) <= Len(vs)
            /\ AlignedWith(values, times) => AlignedWith(vs, ts)
<1> DEFINE vs == NextValues(val)
           ts == NextTimes(val)
           n == Len(values)
           m == Len(times)
<1>1. n \in Nat /\ m \in Nat /\ m <= 7 /\ m <= n
  BY LenProperties DEF IInv, TypeOK, FewTimes, FewerTimes
<1>2. /\ vs \in Seq(Reading) /\ ts \in Seq(Nat)
      /\ \/ vs = values /\ ts = times
         \/ /\ n < 7 \/ m < 7
            /\ Len(vs) = n + 1 /\ Len(ts) = m + 1
            /\ \A i \in 1..n : vs[i] = values[i]
            /\ \A i \in 1..m : ts[i] = times[i]
            /\ vs[n + 1].at = clock /\ ts[m + 1] = clock
         \/ /\ n >= 7 /\ m >= 7
            /\ Len(vs) = n /\ Len(ts) = m
            /\ \A i \in 1..n - 1 : vs[i] = values[i + 1]
            /\ \A i \in 1..m - 1 : ts[i] = times[i + 1]
            /\ vs[n].at = clock /\ ts[m] = clock
  BY ThreeOutcomes
<1> HIDE DEF vs, ts
<1>3. CASE vs = values /\ ts = times
  BY <1>1, <1>2, <1>3 DEF vs, ts
<1>4. CASE /\ n < 7 \/ m < 7
           /\ Len(vs) = n + 1 /\ Len(ts) = m + 1
           /\ \A i \in 1..n : vs[i] = values[i]
           /\ \A i \in 1..m : ts[i] = times[i]
           /\ vs[n + 1].at = clock /\ ts[m + 1] = clock
  <2>1. ASSUME AlignedWith(values, times) PROVE AlignedWith(vs, ts)
    <3>1. n = m /\ Len(vs) = Len(ts) /\ Len(vs) <= 7
      BY <1>1, <1>4, <2>1 DEF AlignedWith
    <3>2. ASSUME NEW i \in 1..Len(vs) PROVE vs[i].at = ts[i]
      <4>1. i \in 1..n \/ i = n + 1
        BY <1>1, <1>4
      <4> QED
        BY <1>4, <2>1, <3>1, <4>1 DEF AlignedWith
    <3> QED
      BY <3>1, <3>2 DEF AlignedWith
  <2>2. m < 7
    BY <1>1, <1>4
  <2> QED
    BY <1>1, <1>2, <1>4, <2>1, <2>2 DEF vs, ts
<1>5. CASE /\ n >= 7 /\ m >= 7
           /\ Len(vs) = n /\ Len(ts) = m
           /\ \A i \in 1..n - 1 : vs[i] = values[i + 1]
           /\ \A i \in 1..m - 1 : ts[i] = times[i + 1]
           /\ vs[n].at = clock /\ ts[m] = clock
  <2>1. ASSUME AlignedWith(values, times) PROVE AlignedWith(vs, ts)
    <3>1. n = m /\ Len(vs) = Len(ts) /\ Len(vs) <= 7
      BY <1>1, <1>5, <2>1 DEF AlignedWith
    <3>2. ASSUME NEW i \in 1..Len(vs) PROVE vs[i].at = ts[i]
      <4>1. (i \in 1..n - 1 /\ i + 1 \in 1..n) \/ i = n
        BY <1>1, <1>5
      <4> QED
        BY <1>5, <2>1, <3>1, <4>1 DEF AlignedWith
    <3> QED
      BY <3>1, <3>2 DEF AlignedWith
  <2> QED
    BY <1>1, <1>2, <1>5, <2>1 DEF vs, ts
<1> QED
  BY <1>2, <1>3, <1>4, <1>5

\* Opening the screen shows what was saved.
LEMMA OpenKeeps ==
  ASSUME IInv, Open
  PROVE  IInv'
<1>1. TypeOK' /\ SavedIsShown' /\ FewTimes' /\ FewerTimes'
  BY DEF IInv, TypeOK, SavedIsShown, FewTimes, FewerTimes, Open
<1>2. Aligned' /\ ShownDraws' /\ SavedDraws'
  BY DEF IInv, Aligned, AlignedWith, ShownDraws, SavedDraws, Draws, Open
<1> QED
  BY <1>1, <1>2 DEF IInv

\* The callback, drawn or trapped.
LEMMA EventKeeps ==
  ASSUME IInv, NEW val \in Readings, SensorEvent(val)
  PROVE  IInv'
<1> DEFINE vs == NextValues(val)
           ts == NextTimes(val)
<1>1. /\ vs \in Seq(Reading) /\ ts \in Seq(Nat)
      /\ Len(ts) <= 7 /\ Len(ts) <= Len(vs) /\ Len(times) <= Len(vs)
      /\ AlignedWith(values, times) => AlignedWith(vs, ts)
  BY NextArrays
<1>2. /\ screen = "open" /\ savedValues = values /\ savedTimes = times
      /\ clock' = clock + 1 /\ savedTimes' = savedTimes /\ torn' = torn
  BY DEF IInv, SavedIsShown, SensorEvent
<1>3. CASE Draws(vs, ts)
  <2>1. /\ values' = vs /\ times' = ts /\ savedValues' = vs
        /\ screen' = "saving"
    BY <1>3 DEF SensorEvent
  <2> HIDE DEF vs, ts
  <2>2. TypeOK' /\ SavedIsShown' /\ FewTimes' /\ FewerTimes'
    BY <1>1, <1>2, <2>1
       DEF IInv, TypeOK, SavedIsShown, FewTimes, FewerTimes
  <2>3. Aligned'
    BY <1>1, <1>2, <2>1 DEF IInv, Aligned
  <2>4. ShownDraws' /\ SavedDraws'
    BY <1>3, <2>1 DEF ShownDraws, SavedDraws
  <2> QED
    BY <2>2, <2>3, <2>4 DEF IInv
<1>4. CASE ~Draws(vs, ts)
  <2>1. /\ values' = <<>> /\ times' = <<>> /\ screen' = "closed"
        /\ savedValues' = savedValues
    BY <1>4 DEF SensorEvent
  <2>2. TypeOK' /\ SavedIsShown' /\ FewTimes' /\ FewerTimes'
    BY <1>2, <2>1, EmptySeq
       DEF IInv, TypeOK, SavedIsShown, FewTimes, FewerTimes
  <2>3. Aligned' /\ ShownDraws' /\ SavedDraws'
    BY <1>2, <2>1, EmptySeq
       DEF IInv, Aligned, AlignedWith, ShownDraws, SavedDraws, Draws
  <2> QED
    BY <2>2, <2>3 DEF IInv
<1> QED
  BY <1>3, <1>4

\* The second call of saveData completes the save.
LEMMA SaveTimesKeeps ==
  ASSUME IInv, SaveTimes
  PROVE  IInv'
<1>1. TypeOK' /\ SavedIsShown' /\ FewTimes' /\ FewerTimes'
  BY DEF IInv, TypeOK, SavedIsShown, FewTimes, FewerTimes, SaveTimes
<1>2. Aligned' /\ ShownDraws' /\ SavedDraws'
  BY DEF IInv, Aligned, AlignedWith, ShownDraws, SavedDraws, SavedIsShown,
         Draws, SaveTimes
<1> QED
  BY <1>1, <1>2 DEF IInv

\* Closing the screen, or a kill, leaves what was saved.
LEMMA LeaveKeeps ==
  ASSUME IInv, Leave
  PROVE  IInv'
<1>1. TypeOK' /\ SavedIsShown' /\ FewTimes' /\ FewerTimes'
  <2>1. (torn \/ screen = "saving") \in BOOLEAN
    OBVIOUS
  <2>2. torn' \in BOOLEAN
    BY <2>1 DEF Leave
  <2> QED
    BY <2>2, EmptySeq DEF IInv, TypeOK, SavedIsShown, FewTimes, FewerTimes, Leave
<1>2. CASE torn'
  BY <1>1, <1>2 DEF IInv, Aligned, ShownDraws, SavedDraws
<1>3. CASE ~torn'
  <2>1. ~torn /\ screen = "open" /\ savedValues' = savedValues
        /\ savedTimes' = savedTimes /\ values' = <<>> /\ times' = <<>>
    BY <1>3 DEF Leave
  <2>2. Aligned' /\ ShownDraws' /\ SavedDraws'
    BY <2>1, EmptySeq DEF IInv, Aligned, AlignedWith, ShownDraws, SavedDraws, Draws
  <2> QED
    BY <1>1, <2>2 DEF IInv
<1> QED
  BY <1>2, <1>3

\* Every step of the screen keeps the invariant.
LEMMA StepKeeps == IInv /\ [Next]_vars => IInv'
<1> SUFFICES ASSUME IInv, [Next]_vars PROVE IInv'
  OBVIOUS
<1>1. CASE UNCHANGED vars
  BY <1>1 DEF vars, IInv, TypeOK, SavedIsShown, FewTimes, FewerTimes, Aligned,
              AlignedWith, ShownDraws, SavedDraws, Draws
<1> QED
  BY <1>1, OpenKeeps, EventKeeps, SaveTimesKeeps, LeaveKeeps DEF Next

\* The inductive invariant of a sensor's history: it holds after any number of
\* callbacks of DULIEUCAMBIEN, saves, kills and restarts.
THEOREM Invariant == Spec => []IInv
  BY Initially, StepKeeps, PTL DEF Spec

\* Every variable of the history keeps its type.
THEOREM Typing == Spec => []TypeOK
<1>1. IInv => TypeOK
  BY DEF IInv
<1> QED
  BY <1>1, Invariant, PTL

\* However often the app is killed, between the two calls of a save too, the
\* chart finds a reading for each of its times.
THEOREM NeverPastTheReadings == Spec => []NoIndexTrap
<1>1. IInv => NoIndexTrap
  <2> SUFFICES ASSUME IInv PROVE NoIndexTrap
    OBVIOUS
  <2>1. ASSUME NEW val \in Readings
        PROVE  Len(NextTimes(val)) <= Len(NextValues(val))
    BY NextArrays
  <2> QED
    BY <2>1 DEF IInv, FewerTimes, NoIndexTrap
<1> QED
  BY <1>1, Invariant, PTL

\* If no save is torn, each reading keeps its time and seven at most are kept.
THEOREM KeptAligned == Spec => []Aligned
<1>1. IInv => Aligned
  BY DEF IInv
<1> QED
  BY <1>1, Invariant, PTL

\* If no save is torn, what was saved can be drawn at the next start.
THEOREM SavedCanBeDrawn == Spec => []SavedDraws
<1>1. IInv => SavedDraws
  BY DEF IInv
<1> QED
  BY <1>1, Invariant, PTL
=============================================================================
