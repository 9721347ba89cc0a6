-------------------------- MODULE TimingWheelProofs --------------------------
(***************************************************************************)
(* The timing wheel returns every event on its schedule, for every wheel     *)
(* size.  The argument: a stored event is always filed where the digits of   *)
(* its time say, and the turn that brings it one level down (W * Turn1 for   *)
(* level 1, W^2 * Dig2 for level 2) lies within one revolution ahead of the  *)
(* pointer, so the pointer's bucket is the event's bucket at that very turn. *)
(***************************************************************************)
EXTENDS TimingWheel, FiniteSetTheorems, TLAPS

(* Arithmetic of quotients and remainders.                                   *)

LEMMA ModRange ==
  ASSUME NEW a \in Nat, NEW b \in Nat, b > 0
  PROVE  a % b \in 0..(b - 1) /\ a \div b \in Nat
  OBVIOUS

LEMMA ModUnique ==
  ASSUME NEW q \in Nat, NEW r \in Nat, NEW b \in Nat, r < b
  PROVE  (b * q + r) % b = r
  OBVIOUS

LEMMA ModSmall ==
  ASSUME NEW r \in Nat, NEW b \in Nat, r < b
  PROVE  r % b = r
  OBVIOUS

LEMMA DivBounds ==
  ASSUME NEW a \in Nat, NEW b \in Nat, b > 0
  PROVE  b * (a \div b) <= a /\ a < b * (a \div b) + b
  BY SMTT(30)

LEMMA DivMod ==
  ASSUME NEW a \in Nat, NEW b \in Nat, b > 0
  PROVE  a = b * (a \div b) + (a % b)
<1> DEFINE q == a \div b
<1>1. q \in Nat /\ b * q <= a /\ a < b * q + b
  BY ModRange, DivBounds
<1>2. (b * q + (a - b * q)) % b = a - b * q
  BY <1>1, ModUnique
<1> QED BY <1>1, <1>2

LEMMA SquareOfW == W * W \in Nat /\ W * W > 0 /\ W <= W * W
  BY WheelAssumption

LEMMA MulCancel ==
  ASSUME NEW s \in Nat, s > 0, NEW x \in Nat, NEW y \in Nat, s * x = s * y
  PROVE  x = y
<1>1. s * (x - y) = 0
  OBVIOUS
<1>2. CASE x - y >= 1
  BY <1>1, <1>2
<1>3. CASE x - y <= -1
  BY <1>1, <1>3
<1> QED BY <1>2, <1>3

LEMMA ModShift ==
  ASSUME NEW a \in Nat, NEW k \in Nat
  PROVE  (a + W * k) % W = a % W
<1> DEFINE q == a \div W
           r == a % W
<1>1. a = W * q + r /\ q \in Nat /\ r \in Nat /\ r < W
  BY DivMod, ModRange, WheelAssumption
<1> HIDE DEF q, r
<1>2. a + W * k = W * (q + k) + r /\ q + k \in Nat
  BY <1>1, WheelAssumption
<1>3. (W * (q + k) + r) % W = r
  BY <1>1, <1>2, ModUnique, WheelAssumption
<1> QED BY <1>2, <1>3 DEF r

LEMMA DivUnique ==
  ASSUME NEW q \in Nat, NEW r \in Nat, NEW b \in Nat, r < b
  PROVE  (b * q + r) \div b = q
<1> DEFINE a == b * q + r
<1>1. a \in Nat /\ a % b = r
  BY ModUnique
<1>2. a = b * (a \div b) + (a % b) /\ a \div b \in Nat
  BY <1>1, DivMod, ModRange
<1>3. b * q = b * (a \div b)
  BY <1>1, <1>2
<1> QED BY <1>2, <1>3, MulCancel

LEMMA CongruentNear ==
  ASSUME NEW a \in Nat, NEW b \in Nat, a <= b, b < a + W, a % W = b % W
  PROVE  a = b
<1> DEFINE p == a \div W
           q == b \div W
           r == a % W
<1>1. a = W * p + r /\ b = W * q + r /\ p \in Nat /\ q \in Nat /\ r \in Nat
  BY DivMod, ModRange, WheelAssumption
<1> HIDE DEF p, q, r
<1>2. W * (q - p) = W * q - W * p
  BY <1>1, WheelAssumption
<1>3. W * (q - p) >= 0 /\ W * (q - p) < W
  BY <1>1, <1>2, WheelAssumption
<1>4. CASE q - p >= 1
  BY <1>1, <1>3, <1>4, WheelAssumption
<1>5. CASE q - p <= -1
  BY <1>1, <1>3, <1>5, WheelAssumption
<1> QED BY <1>1, <1>4, <1>5, WheelAssumption
\* Two multiples of s less than W multiples apart, with quotients congruent
\* modulo W, are equal.
LEMMA SameTurn ==
  ASSUME NEW s \in Nat, s > 0, NEW c \in Nat, c % s = 0, NEW k \in Nat,
         c <= s * k, s * k < c + s * W, (c \div s) % W = k % W
  PROVE  s * k = c
<1> DEFINE j == c \div s
<1>1. c = s * j /\ j \in Nat
  BY DivMod, ModRange
<1> HIDE DEF j
<1>2. s * (k - j) = s * k - s * j /\ s * (j + W - k) = s * j + s * W - s * k
  BY <1>1, WheelAssumption
<1>3. j <= k
  BY <1>1, <1>2
<1>4. k < j + W
  BY <1>1, <1>2, WheelAssumption
<1>5. j % W = k % W
  BY DEF j
<1> QED BY <1>1, <1>3, <1>4, <1>5, CongruentNear

-----------------------------------------------------------------------------
(* The digits of a time in base W: d = W^2 * Dig2(d) + W * Dig1(d) + d % W. *)

Dig1(d) == (d \div W) % W
Dig2(d) == d \div (W * W)

LEMMA Digits ==
  ASSUME NEW d \in Nat
  PROVE  /\ d = W * W * Dig2(d) + W * Dig1(d) + (d % W)
         /\ W * (d \div W) = W * W * Dig2(d) + W * Dig1(d)
         /\ Dig2(d) \in Nat /\ Dig1(d) \in 0..(W - 1) /\ d % W \in 0..(W - 1)
         /\ d % (W * W) = W * Dig1(d) + (d % W)
         /\ d \div W \in Nat
<1> DEFINE p == d \div W
           m == p \div W
           b == p % W
           r == d % W
           S == W * W
<1>1. d = W * p + r /\ p \in Nat /\ r \in Nat /\ r < W
  BY DivMod, ModRange, WheelAssumption
<1>2. p = W * m + b /\ m \in Nat /\ b \in Nat /\ b < W
  BY <1>1, DivMod, ModRange, WheelAssumption
<1> HIDE DEF p, m, b, r
<1>3. W * p = S * m + W * b
  BY <1>1, <1>2, WheelAssumption
<1>4. W * b + r \in Nat /\ W * b + r < S
  <2>1. b <= W - 1 /\ W * b <= W * (W - 1)
    BY <1>2, WheelAssumption
  <2>2. W * (W - 1) = S - W
    BY WheelAssumption
  <2> QED BY <1>1, <1>2, <2>1, <2>2, WheelAssumption
<1>5. d = S * m + (W * b + r)
  BY <1>1, <1>2, <1>3, WheelAssumption
<1>6. d % S = W * b + r
  BY <1>2, <1>4, <1>5, ModUnique, SquareOfW
<1>7. Dig2(d) = m
  <2>1. d = S * Dig2(d) + (d % S) /\ Dig2(d) \in Nat
    BY DivMod, ModRange, SquareOfW DEF Dig2
  <2>2. S * Dig2(d) = S * m
    BY <1>2, <1>4, <1>5, <1>6, <2>1, SquareOfW
  <2> QED BY <1>2, <2>1, <2>2, SquareOfW, MulCancel
<1>8. Dig1(d) = b /\ d % W = r /\ d \div W = p
  BY DEF Dig1, p, b, r
<1>9. d = S * m + W * b + r
  BY <1>1, <1>2, <1>3, WheelAssumption
<1> HIDE DEF S
<1>10. /\ d = S * Dig2(d) + W * Dig1(d) + (d % W)
       /\ W * (d \div W) = S * Dig2(d) + W * Dig1(d)
       /\ Dig2(d) \in Nat /\ Dig1(d) \in 0..(W - 1) /\ d % W \in 0..(W - 1)
       /\ d % S = W * Dig1(d) + (d % W)
       /\ d \div W \in Nat
  <2> HIDE DEF Dig1, Dig2
  <2> QED BY <1>1, <1>2, <1>3, <1>6, <1>7, <1>8, <1>9, WheelAssumption
<1> QED
  BY <1>10 DEF S

-----------------------------------------------------------------------------
(* Where an event must be, given the time for which it was added.            *)

Target(e) == due[e] + Lateness(e)

\* The block of W time units whose beginning cascades the event to level 0.
Turn1(e) ==
  (due[e] \div W) + (IF entry[e] = 2 /\ Dig1(due[e]) = 0 THEN W ELSE 0)

PlacedAt(s, e, t) ==
  /\ s.lvl = 0 => /\ s.idx = due[e] % W
                  /\ t <= Target(e) /\ Target(e) < t + W
  /\ s.lvl = 1 => /\ entry[e] \in {1, 2}
                  /\ s.idx = Dig1(due[e]) /\ s.rem = due[e] % W
                  /\ 1 <= Turn1(e)
                  /\ t <= W * Turn1(e) /\ W * Turn1(e) < t + W * W
  /\ s.lvl = 2 => /\ entry[e] = 2
                  /\ s.idx = Dig2(due[e]) % W /\ s.rem = due[e] % (W * W)
                  /\ 1 <= Dig2(due[e])
                  /\ t <= W * W * Dig2(due[e]) /\ W * W * Dig2(due[e]) < t + W * W * W

InPlace(e) ==
  IF entry[e] = NotAhead THEN slot[e].lvl \in {0, 3}
  ELSE /\ PlacedAt(slot[e], e, current_time)
       /\ slot[e].lvl = 0 => Target(e) # current_time

Placed == \A e \in Event : InPlace(e)

TargetFact(e) ==
  /\ Target(e) \in Nat /\ Turn1(e) \in Nat /\ W * Turn1(e) \in Nat
  /\ Target(e) % W = due[e] % W
  /\ Turn1(e) % W = Dig1(due[e])
  /\ entry[e] \in {1, 2} =>
       Target(e) = W * Turn1(e) + (IF due[e] % W = 0 THEN W ELSE due[e] % W)
  /\ entry[e] = 2 =>
       W * Turn1(e) = W * W * Dig2(due[e])
                      + (IF Dig1(due[e]) = 0 THEN W * W ELSE W * Dig1(due[e]))
  /\ entry[e] = 0 => Target(e) = due[e]

LEMMA TargetFacts ==
  ASSUME TypeOK, NEW e \in Event
  PROVE  TargetFact(e)
<1> DEFINE d == due[e]
           p == d \div W
           m == Dig2(d)
           b == Dig1(d)
           r == d % W
           S == W * W
<1>1. d \in Nat /\ entry[e] \in 0..3
  BY DEF TypeOK
<1>2. /\ d = S * m + W * b + r
      /\ W * p = S * m + W * b
      /\ m \in Nat /\ b \in 0..(W - 1) /\ r \in 0..(W - 1) /\ p \in Nat
  BY <1>1, Digits
<1>3. S \in Nat /\ S > 0 /\ W \in Nat /\ W >= 2
  BY SquareOfW, WheelAssumption
<1>4. b = (d \div W) % W /\ p = d \div W
  BY DEF Dig1
<1>5. p % W = b
  BY <1>4
<1>6. Lateness(e) = (IF entry[e] \in {1, 2} /\ r = 0 THEN W ELSE 0)
                     + (IF entry[e] = 2 /\ b = 0 THEN S ELSE 0)
  BY <1>4 DEF Lateness, OnL1Boundary, OnL2Boundary
<1>7. Turn1(e) = p + (IF entry[e] = 2 /\ b = 0 THEN W ELSE 0)
  BY DEF Turn1
<1> HIDE DEF d, p, m, b, r, S
<1>8. W * (p + W) = W * p + S
  BY <1>2, <1>3 DEF S
<1>9. d = W * p + r
  BY <1>1, <1>2, <1>3
<1>12. (p + W) % W = b
  <2>1. (p + W * 1) % W = p % W
    BY <1>2, ModShift
  <2>2. W * 1 = W
    BY <1>3
  <2> QED BY <2>1, <2>2, <1>5
<1>13. Turn1(e) \in Nat /\ W * Turn1(e) \in Nat
  BY <1>2, <1>3, <1>7
<1>14. Turn1(e) % W = b
  BY <1>5, <1>7, <1>12, <1>2, <1>3
<1>15. Target(e) = d + (IF entry[e] \in {1, 2} /\ r = 0 THEN W ELSE 0)
                     + (IF entry[e] = 2 /\ b = 0 THEN S ELSE 0)
  BY <1>1, <1>3, <1>6 DEF Target, d
<1>16. W * Turn1(e) = W * p + (IF entry[e] = 2 /\ b = 0 THEN S ELSE 0)
  BY <1>2, <1>3, <1>7, <1>8
<1>17. Target(e) % W = r
  <2>1. \E k \in Nat : Target(e) = d + W * k
    <3>1. W * 0 = 0 /\ W * 1 = W /\ W * W = S /\ W * (W + 1) = S + W
      BY <1>3 DEF S
    <3>2. Target(e) \in {d + W * 0, d + W * 1, d + W * W, d + W * (W + 1)}
      BY <3>1, <1>1, <1>3, <1>15 DEF d
    <3>3. 0 \in Nat /\ 1 \in Nat /\ W \in Nat /\ W + 1 \in Nat
      BY <1>3
    <3> QED BY <3>2, <3>3, Zenon
  <2> QED BY <2>1, <1>1, ModShift DEF d, r
<1>18. entry[e] \in {1, 2} => Target(e) = W * Turn1(e) + (IF r = 0 THEN W ELSE r)
  BY <1>1, <1>2, <1>3, <1>9, <1>15, <1>16
<1>19. entry[e] = 2 => W * Turn1(e) = S * m + (IF b = 0 THEN S ELSE W * b)
  BY <1>1, <1>2, <1>3, <1>16
<1>20. entry[e] = 0 => Target(e) = d
  BY <1>1, <1>3, <1>15
<1>21. Target(e) \in Nat
  BY <1>1, <1>3, <1>15 DEF d
<1> QED
  BY <1>13, <1>14, <1>17, <1>18, <1>19, <1>20, <1>21 DEF d, m, b, r, S, TargetFact

AllTargetFacts == \A e \in Event : TargetFact(e)

LEMMA TargetFactsAlways == TypeOK => AllTargetFacts
  BY TargetFacts DEF AllTargetFacts

-----------------------------------------------------------------------------
(* The inductive invariant.                                                  *)

AddedFirst ==
  \A e \in Event : /\ due[e] = Never => firedAt[e] = Never
                   /\ firedAt[e] # Never => firedAt[e] \in 0..MaxTime

\* A future event is returned at its time, or late by its boundaries.
FiredOnSchedule ==
  \A e \in Event : (Fired(e) /\ entry[e] # NotAhead) => firedAt[e] = due[e] + Lateness(e)

IInv ==
  /\ TypeOK
  /\ CounterExact
  /\ NothingLost
  /\ AddedFirst
  /\ Placed
  /\ FiredOnSchedule

LEMMA Basics ==
  /\ Never \in Nat /\ MaxTime + MaxOffset < Never
  /\ W * W * W \in Nat
  /\ W \in Nat /\ W >= 2
  BY WheelAssumption DEF Never

\* Pushing or moving an entry: its position counts a set of events.
LEMMA CountNat ==
  ASSUME NEW S \in SUBSET Event
  PROVE  IsFiniteSet(S) /\ Cardinality(S) \in Nat
  BY WheelAssumption, FS_Subset, FS_CardinalityType

LEMMA InitIInv == Init => IInv
<1> SUFFICES ASSUME Init PROVE IInv
  OBVIOUS
<1>1. TypeOK
  BY WheelAssumption, Basics DEF Init, TypeOK, Slot, NotAhead
<1>2. Stored = {}
  BY DEF Init, Stored
<1>3. CounterExact
  BY <1>2, FS_EmptySet DEF CounterExact, Init
<1>4. NothingLost /\ AddedFirst
  BY <1>2 DEF NothingLost, AddedFirst, Fired, Init
<1>5. Placed /\ FiredOnSchedule
  BY DEF Placed, InPlace, FiredOnSchedule, Fired, Init, NotAhead, Nowhere
<1> QED BY <1>1, <1>3, <1>4, <1>5 DEF IInv

LEMMA DrainStep ==
  ASSUME IInv,
         NEW filed \in [Event -> Slot],
         NEW t \in 0..MaxTime,
         \A e \in Event : filed[e] = Nowhere <=> slot[e] = Nowhere,
         \A e \in Event : IF entry[e] = NotAhead THEN filed[e].lvl \in {0, 3}
                          ELSE PlacedAt(filed[e], e, t),
         Drain(filed, t),
         current_time' = t,
         UNCHANGED <<due, stamp, entry>>
  PROVE  IInv'
<1> DEFINE out == Drained(filed, t)
<1> USE DEF IInv
<1>1. /\ slot' = [e \in Event |-> IF e \in out THEN Nowhere ELSE filed[e]]
      /\ total_events' = total_events - Cardinality(out)
      /\ firedAt' = [e \in Event |-> IF e \in out THEN t ELSE firedAt[e]]
  BY DEF Drain
<1>2. \A e \in out : e \in Event /\ filed[e].lvl = 0 /\ filed[e].idx = t % W
  BY DEF Drained
<1>3. out \subseteq Stored /\ Stored \subseteq Event
  BY <1>2 DEF Stored, Nowhere
<1>4. Stored' = Stored \ out
  BY <1>1, <1>3 DEF Stored
<1> HIDE DEF out
<1>5. /\ IsFiniteSet(Stored) /\ Cardinality(Stored) \in Nat
      /\ IsFiniteSet(out) /\ Cardinality(out) \in Nat
      /\ Cardinality(out) <= Cardinality(Stored)
  BY <1>3, CountNat, FS_Subset
<1>6. Cardinality(Stored \ out) = Cardinality(Stored) - Cardinality(out)
  <2>1. Stored \cap out = out
    BY <1>3
  <2> QED BY <1>5, <2>1, FS_Difference
<1>7. \A e \in Event : Target(e)' = Target(e) /\ Turn1(e)' = Turn1(e)
  BY DEF Target, Turn1, Lateness, OnL1Boundary, OnL2Boundary
<1>8. TypeOK'
  <2>1. slot' \in [Event -> Slot]
    BY <1>1 DEF Slot
  <2>2. total_events' \in Nat
    BY <1>1, <1>5 DEF CounterExact
  <2>3. firedAt' \in [Event -> Nat]
    BY <1>1 DEF TypeOK
  <2> QED BY <2>1, <2>2, <2>3 DEF TypeOK
<1>9. CounterExact'
  BY <1>1, <1>4, <1>6 DEF CounterExact
<1>10. NothingLost' /\ AddedFirst'
  <2>1. t # Never
    BY Basics, WheelAssumption
  <2>2. \A e \in Event : Fired(e)' <=> (Fired(e) \/ e \in out)
    BY <1>1, <2>1 DEF Fired
  <2>3. NothingLost'
    BY <1>3, <1>4, <2>2 DEF NothingLost
  <2>4. AddedFirst'
    <3> SUFFICES ASSUME NEW e \in Event
                 PROVE  /\ due[e] = Never => firedAt'[e] = Never
                        /\ firedAt'[e] # Never => firedAt'[e] \in 0..MaxTime
      BY DEF AddedFirst
    <3>1. CASE e \in out
      BY <3>1, <1>1, <1>3 DEF NothingLost
    <3>2. CASE e \notin out
      BY <3>2, <1>1 DEF AddedFirst
    <3> QED BY <3>1, <3>2
  <2> QED BY <2>3, <2>4
<1>11. ASSUME NEW e \in Event, entry[e] # NotAhead, filed[e].lvl = 0
       PROVE  e \in out <=> Target(e) = t
  <2>1. /\ filed[e].idx = due[e] % W
        /\ t <= Target(e) /\ Target(e) < t + W
    BY <1>11 DEF PlacedAt
  <2>2. Target(e) \in Nat /\ Target(e) % W = due[e] % W /\ t \in Nat
    BY TargetFacts, WheelAssumption DEF TargetFact
  <2>3. ASSUME e \in out PROVE Target(e) = t
    <3>1. t % W = Target(e) % W
      BY <1>2, <2>1, <2>2, <2>3
    <3> QED BY <2>1, <2>2, <3>1, CongruentNear
  <2>4. ASSUME Target(e) = t PROVE e \in out
    BY <2>1, <2>2, <2>4, <1>11 DEF out, Drained
  <2> QED BY <2>3, <2>4
<1>12. Placed'
  <2> SUFFICES ASSUME NEW e \in Event PROVE InPlace(e)'
    BY DEF Placed
  <2>1. CASE e \in out
    <3>1. slot'[e].lvl = 3
      BY <2>1, <1>1 DEF Nowhere
    <3> QED BY <3>1 DEF InPlace, PlacedAt
  <2>2. CASE e \notin out
    <3>1. slot'[e] = filed[e]
      BY <1>1, <2>2
    <3>2. CASE entry[e] = NotAhead
      BY <3>1, <3>2 DEF InPlace
    <3>3. CASE entry[e] # NotAhead
      <4>1. PlacedAt(slot[e], e, current_time)'
        BY <3>1, <3>3, <1>7 DEF PlacedAt
      <4>2. slot'[e].lvl = 0 => Target(e)' # t
        BY <3>1, <3>3, <1>7, <1>11, <2>2
      <4> QED BY <3>3, <4>1, <4>2 DEF InPlace
    <3> QED BY <3>2, <3>3
  <2> QED BY <2>1, <2>2
<1>13. FiredOnSchedule'
  <2> SUFFICES ASSUME NEW e \in Event, Fired(e)', entry[e] # NotAhead
               PROVE  firedAt'[e] = Target(e)
    BY <1>7 DEF FiredOnSchedule, Target
  <2>1. CASE e \in out
    BY <2>1, <1>1, <1>2, <1>11
  <2>2. CASE e \notin out
    BY <2>2, <1>1 DEF FiredOnSchedule, Fired, Target
  <2> QED BY <2>1, <2>2
<1> QED BY <1>8, <1>9, <1>10, <1>12, <1>13

LEMMA CascadeStep ==
  ASSUME IInv, NEW e \in Event, current_time < MaxTime
  PROVE  /\ Cascaded(e) \in Slot
         /\ Cascaded(e) = Nowhere <=> slot[e] = Nowhere
         /\ IF entry[e] = NotAhead THEN Cascaded(e).lvl \in {0, 3}
            ELSE PlacedAt(Cascaded(e), e, current_time + 1)
<1> DEFINE c == current_time
<1> USE DEF IInv
<1>1. /\ c \in Nat /\ slot[e] \in Slot /\ due[e] \in Nat /\ entry[e] \in 0..3
      /\ W \in Nat /\ W >= 2 /\ W * W \in Nat /\ W * W > 0
  BY WheelAssumption, SquareOfW DEF TypeOK
<1>2. InPlace(e)
  BY DEF Placed
<1>3. /\ due[e] % W \in 0..(W - 1) /\ Dig1(due[e]) \in 0..(W - 1)
      /\ Dig2(due[e]) \in Nat
      /\ due[e] % (W * W) = W * Dig1(due[e]) + (due[e] % W)
  BY <1>1, Digits
<1>4. CASE e \in CascadedL1
  <2>1. /\ c > 0 /\ c % W = 0 /\ slot[e].lvl = 1 /\ slot[e].idx = (c \div W) % W
    BY <1>4 DEF CascadedL1, LeavesL1Boundary, Bucket, IdxFor
  <2>2. /\ entry[e] # NotAhead /\ PlacedAt(slot[e], e, c)
    BY <1>2, <2>1 DEF InPlace
  <2>3. /\ entry[e] \in {1, 2} /\ slot[e].idx = Dig1(due[e])
        /\ slot[e].rem = due[e] % W
        /\ c <= W * Turn1(e) /\ W * Turn1(e) < c + W * W
    BY <2>1, <2>2 DEF PlacedAt
  <2>4. W * Turn1(e) = c
    <3>1. Turn1(e) \in Nat /\ (c \div W) % W = Turn1(e) % W
      BY <2>1, <2>3, TargetFacts DEF TargetFact
    <3> QED BY <2>1, <2>3, <3>1, <1>1, SameTurn
  <2>5. Target(e) = c + (IF due[e] % W = 0 THEN W ELSE due[e] % W)
    BY <2>3, <2>4, TargetFacts DEF TargetFact
  <2>6. /\ Cascaded(e).lvl = 0 /\ Cascaded(e).idx = due[e] % W
        /\ Cascaded(e) \in Slot
    <3>1. Cascaded(e) = [lvl |-> 0, idx |-> due[e] % W, rem |-> 0, pos |-> Cascaded(e).pos]
      BY <1>4, <2>1, <2>3 DEF Cascaded, Lowered, LowerIdx, LowerRem
    <3>2. Cascaded(e).pos \in Nat \ {0}
      <4>1. Cascaded(e).pos = Cardinality(Occupants(0, LowerIdx(e)))
                               + Cardinality(Before(e, CascadedL1)) + 1
        BY <1>4, <2>1 DEF Cascaded, Lowered
      <4>2. Occupants(0, LowerIdx(e)) \in SUBSET Event /\ Before(e, CascadedL1) \in SUBSET Event
        BY DEF Occupants, Before, CascadedL1, Bucket
      <4> QED BY <4>1, <4>2, CountNat
    <3> QED BY <3>1, <3>2, <1>1, <1>3 DEF Slot, Levels
  <2>7. Target(e) \in Nat
    BY TargetFacts DEF TargetFact
  <2>8. PlacedAt(Cascaded(e), e, c + 1)
    BY <2>5, <2>6, <2>7, <1>1, <1>3 DEF PlacedAt
  <2> QED BY <2>1, <2>2, <2>6, <2>8 DEF Nowhere
<1>5. CASE e \notin CascadedL1 /\ e \in CascadedL2
  <2>1. /\ c > 0 /\ c % (W * W) = 0 /\ slot[e].lvl = 2
        /\ slot[e].idx = (c \div (W * W)) % W
    BY <1>5 DEF CascadedL2, LeavesL2Boundary, Bucket, IdxFor
  <2>2. /\ entry[e] # NotAhead /\ PlacedAt(slot[e], e, c)
    BY <1>2, <2>1 DEF InPlace
  <2>3. /\ entry[e] = 2 /\ slot[e].idx = Dig2(due[e]) % W
        /\ slot[e].rem = due[e] % (W * W)
        /\ 1 <= Dig2(due[e])
        /\ c <= W * W * Dig2(due[e]) /\ W * W * Dig2(due[e]) < c + W * W * W
    BY <2>1, <2>2 DEF PlacedAt
  <2>4. W * W * Dig2(due[e]) = c
    BY <1>1, <1>3, <2>1, <2>3, SameTurn
  <2>5. W * Turn1(e) = c + (IF Dig1(due[e]) = 0 THEN W * W ELSE W * Dig1(due[e]))
    BY <2>3, <2>4, TargetFacts DEF TargetFact
  <2>6. LowerIdx(e) = Dig1(due[e]) /\ LowerRem(e) = due[e] % W
    <3>1. slot[e].rem \div W = Dig1(due[e]) /\ slot[e].rem % W = due[e] % W
      <4> DEFINE b == Dig1(due[e])
                 r == due[e] % W
      <4>1. b \in Nat /\ r \in Nat /\ r < W /\ slot[e].rem = W * b + r
        BY <1>1, <1>3, <2>3
      <4> HIDE DEF b, r
      <4>2. slot[e].rem \div W = b /\ slot[e].rem % W = r
        BY <1>1, <4>1, DivUnique, ModUnique
      <4> QED BY <4>2 DEF b, r
    <3>2. Dig1(due[e]) % W = Dig1(due[e])
      BY <1>1, <1>3, ModSmall
    <3> QED BY <2>1, <3>1, <3>2 DEF LowerIdx, LowerRem
  <2>7. /\ Cascaded(e).lvl = 1 /\ Cascaded(e).idx = Dig1(due[e])
        /\ Cascaded(e).rem = due[e] % W /\ Cascaded(e) \in Slot
    <3>1. Cascaded(e) = [lvl |-> 1, idx |-> Dig1(due[e]), rem |-> due[e] % W, pos |-> Cascaded(e).pos]
      BY <1>5, <2>1, <2>6 DEF Cascaded, Lowered
    <3>2. Cascaded(e).pos \in Nat \ {0}
      <4>1. Cascaded(e).pos = Cardinality(Occupants(1, LowerIdx(e)))
                               + Cardinality(Before(e, CascadedL2)) + 1
        BY <1>5, <2>1 DEF Cascaded, Lowered
      <4>2. Occupants(1, LowerIdx(e)) \in SUBSET Event /\ Before(e, CascadedL2) \in SUBSET Event
        BY DEF Occupants, Before, CascadedL2, Bucket
      <4> QED BY <4>1, <4>2, CountNat
    <3>3. due[e] % W \in 0..(W * W - 1)
      BY <1>1, <1>3, SquareOfW
    <3> QED BY <3>1, <3>2, <3>3, <1>1, <1>3 DEF Slot, Levels
  <2>8. W * Turn1(e) >= c + 1 /\ W * Turn1(e) < c + 1 + W * W /\ Turn1(e) >= 1
    <3> DEFINE b == Dig1(due[e])
               B == W * b
               S == W * W
    <3>1. b # 0 => B >= 1 /\ B <= S
      BY <1>1, <1>3
    <3>4. /\ W * Turn1(e) = c + (IF b = 0 THEN S ELSE B)
          /\ b \in Nat /\ B \in Nat /\ S \in Nat /\ S > 0
      BY <2>5, <1>1, <1>3
    <3> HIDE DEF b, B, S, c
    <3>5. W * Turn1(e) >= c + 1 /\ W * Turn1(e) < c + 1 + S
      BY <3>1, <3>4, <1>1
    <3>2. W * Turn1(e) >= c + 1 /\ W * Turn1(e) < c + 1 + W * W
      BY <3>5 DEF S
    <3>3. Turn1(e) # 0
      BY <3>2, <1>1
    <3> QED BY <3>2, <3>3, TargetFacts DEF TargetFact
  <2>9. PlacedAt(Cascaded(e), e, c + 1)
    BY <2>3, <2>7, <2>8 DEF PlacedAt
  <2> QED BY <2>1, <2>2, <2>7, <2>9 DEF Nowhere
<1>6. CASE e \notin CascadedL1 /\ e \notin CascadedL2
  <2>1. Cascaded(e) = slot[e]
    BY <1>6 DEF Cascaded
  <2>2. ASSUME entry[e] # NotAhead PROVE PlacedAt(slot[e], e, c + 1)
    <3>1. PlacedAt(slot[e], e, c) /\ (slot[e].lvl = 0 => Target(e) # c)
      BY <1>2, <2>2 DEF InPlace
    <3>2. /\ Target(e) \in Nat /\ Turn1(e) \in Nat /\ W * Turn1(e) \in Nat
          /\ Turn1(e) % W = Dig1(due[e])
      BY TargetFacts DEF TargetFact
    <3>3. ASSUME slot[e].lvl = 1 PROVE W * Turn1(e) # c
      <4>1. SUFFICES ASSUME W * Turn1(e) = c PROVE FALSE
        OBVIOUS
      <4>2. Turn1(e) >= 1 /\ slot[e].idx = Dig1(due[e])
        BY <3>1, <3>3 DEF PlacedAt
      <4>3. c > 0
        BY <4>1, <4>2, <3>2, <1>1
      <4>4. c = W * Turn1(e) + 0
        BY <4>1, <1>1
      <4>5. c % W = 0 /\ c \div W = Turn1(e)
        BY <4>4, <3>2, <1>1, ModUnique, DivUnique
      <4>6. e \in Bucket(1, IdxFor(1, c))
        BY <4>2, <4>5, <3>2, <3>3 DEF Bucket, IdxFor
      <4> QED BY <4>3, <4>5, <4>6, <1>6 DEF CascadedL1, LeavesL1Boundary
    <3>4. ASSUME slot[e].lvl = 2 PROVE W * W * Dig2(due[e]) # c
      <4>1. SUFFICES ASSUME W * W * Dig2(due[e]) = c PROVE FALSE
        OBVIOUS
      <4>2. Dig2(due[e]) >= 1 /\ slot[e].idx = Dig2(due[e]) % W
        BY <3>1, <3>4 DEF PlacedAt
      <4>3. c > 0
        BY <4>1, <4>2, <1>3, <1>1
      <4>4. c = (W * W) * Dig2(due[e]) + 0
        BY <4>1, <1>1
      <4>5. c % (W * W) = 0 /\ c \div (W * W) = Dig2(due[e])
        BY <4>4, <1>3, <1>1, ModUnique, DivUnique
      <4>6. e \in Bucket(2, IdxFor(2, c))
        BY <4>2, <4>5, <3>4 DEF Bucket, IdxFor
      <4> QED BY <4>3, <4>5, <4>6, <1>6 DEF CascadedL2, LeavesL2Boundary
    <3>5. W * W * W \in Nat /\ W * W * Dig2(due[e]) \in Nat
      BY <1>1, <1>3
    <3> HIDE DEF c
    <3> QED BY <3>1, <3>2, <3>3, <3>4, <3>5, <1>1 DEF PlacedAt
  <2>3. ASSUME entry[e] = NotAhead PROVE slot[e].lvl \in {0, 3}
    BY <1>2, <2>3 DEF InPlace
  <2> QED BY <2>1, <2>2, <2>3, <1>1
<1> QED BY <1>4, <1>5, <1>6

\* The bucket and the position add_event chooses, and the level it remembers.
LEMMA AddFiles ==
  ASSUME IInv, NEW e \in Event, NEW time \in AddTimes, AddEvent(e, time)
  PROVE  /\ slot' = [slot EXCEPT ![e] = slot'[e]] /\ entry' = [entry EXCEPT ![e] = entry'[e]]
         /\ slot'[e] \in Slot /\ entry'[e] \in 0..3 /\ slot'[e].lvl \in 0..2
         /\ slot'[e].pos = Cardinality(Bucket(slot'[e].lvl, slot'[e].idx)) + 1
         /\ entry'[e] = NotAhead => slot'[e].lvl = 0
         /\ entry'[e] # NotAhead =>
              /\ time > current_time /\ slot'[e].lvl = entry'[e]
              /\ entry'[e] = LevelFor(time - current_time)
              /\ slot'[e].idx = IdxFor(entry'[e], time) /\ slot'[e].rem = RemFor(entry'[e], time)
<1> DEFINE c == current_time
           off == time - c
           s == slot'[e]
           v == entry'[e]
<1> USE DEF IInv
<1>1. /\ c \in Nat /\ time \in Nat
      /\ W \in Nat /\ W >= 2 /\ W * W \in Nat /\ W * W > 0 /\ W <= W * W
  BY WheelAssumption, SquareOfW DEF TypeOK, AddTimes
<1>2. AddAhead(e, time) \/ AddPast(e, time)
  BY DEF AddEvent
<1>3. /\ slot' = [slot EXCEPT ![e] = s] /\ entry' = [entry EXCEPT ![e] = v]
      /\ s \in Slot /\ v \in 0..3 /\ s.lvl \in 0..2
      /\ s.pos = Cardinality(Bucket(s.lvl, s.idx)) + 1
      /\ v = NotAhead => s.lvl = 0
      /\ v # NotAhead => /\ time > c /\ s.lvl = v /\ v = LevelFor(off)
                         /\ s.idx = IdxFor(v, time) /\ s.rem = RemFor(v, time)
  <2>1. \A lvl \in 0..2, idx \in 0..(W - 1), rem \in 0..(W * W - 1) :
          Filed(lvl, idx, rem) \in Slot
    <3>1. \A lvl, idx : Cardinality(Bucket(lvl, idx)) \in Nat
      BY CountNat DEF Bucket
    <3> QED BY <3>1 DEF Filed, Slot, Levels
  <2>2. CASE AddPast(e, time)
    <3>1. /\ Filed(0, 0, 0) \in Slot /\ Filed(0, 0, 0).lvl = 0
          /\ Filed(0, 0, 0).pos = Cardinality(Bucket(0, 0)) + 1 /\ Filed(0, 0, 0).idx = 0
      BY <1>1, <2>1 DEF Filed
    <3>2. /\ s = Filed(0, 0, 0) /\ v = NotAhead
          /\ slot' = [slot EXCEPT ![e] = s] /\ entry' = [entry EXCEPT ![e] = v]
      BY <2>2 DEF AddPast, TypeOK
    <3> HIDE DEF s, v
    <3> QED BY <3>1, <3>2 DEF NotAhead
  <2>3. CASE AddAhead(e, time)
    <3> DEFINE lvl == LevelFor(off)
               new == Filed(lvl, IdxFor(lvl, time), RemFor(lvl, time))
    <3>1. lvl \in 0..2
      BY DEF LevelFor
    <3>2. IdxFor(lvl, time) \in 0..(W - 1)
      <4>1. time \div W \in Nat /\ time \div (W * W) \in Nat
        BY <1>1, ModRange
      <4>2. time % W \in 0..(W - 1)
        BY <1>1, ModRange
      <4>3. (time \div W) % W \in 0..(W - 1)
        BY <1>1, <4>1, ModRange
      <4>4. (time \div (W * W)) % W \in 0..(W - 1)
        BY <1>1, <4>1, ModRange
      <4> HIDE DEF lvl
      <4> QED BY <3>1, <4>2, <4>3, <4>4 DEF IdxFor
    <3>3. RemFor(lvl, time) \in 0..(W * W - 1)
      <4>1. time % W \in 0..(W * W - 1) /\ time % (W * W) \in 0..(W * W - 1)
        BY <1>1, ModRange
      <4> QED BY <3>1, <4>1, <1>1 DEF RemFor
    <3>4. /\ new \in Slot /\ new.lvl = lvl /\ new.idx = IdxFor(lvl, time) /\ new.rem = RemFor(lvl, time)
          /\ new.pos = Cardinality(Bucket(lvl, IdxFor(lvl, time))) + 1
      BY <2>1, <3>1, <3>2, <3>3 DEF Filed
    <3>5. /\ slot' = [slot EXCEPT ![e] = new] /\ s = new
          /\ entry' = [entry EXCEPT ![e] = v]
          /\ v = IF time > c THEN lvl ELSE NotAhead
      BY <2>3 DEF AddAhead, TypeOK
    <3> HIDE DEF lvl, new, s, v
    <3>6. CASE time > c
      BY <3>1, <3>4, <3>5, <3>6 DEF lvl, NotAhead
    <3>7. CASE ~(time > c)
      <4>1. lvl = 0
        BY <3>7, <2>3, <1>1 DEF lvl, LevelFor, AddAhead
      <4> QED BY <3>4, <3>5, <3>7, <4>1 DEF NotAhead
    <3> QED BY <3>6, <3>7
  <2> QED BY <1>2, <2>2, <2>3
<1> QED BY <1>3

LEMMA AddKeepsInvariant ==
  ASSUME IInv, NEW e \in Event, NEW time \in AddTimes, AddEvent(e, time)
  PROVE  IInv'
<1> DEFINE c == current_time
           off == time - c
<1> USE DEF IInv
<1>1. /\ c \in Nat /\ c <= MaxTime /\ time \in Nat /\ time <= c + MaxOffset
      /\ W \in Nat /\ W >= 2 /\ W * W \in Nat /\ W * W > 0 /\ W <= W * W
      /\ Never \in Nat /\ MaxTime + MaxOffset < Never
  BY WheelAssumption, SquareOfW, Basics DEF TypeOK, AddTimes
<1>2. /\ due[e] = Never /\ due' = [due EXCEPT ![e] = time]
      /\ total_events' = total_events + 1
      /\ current_time' = c /\ firedAt' = firedAt
      /\ stamp' = [stamp EXCEPT ![e] = Cardinality({f \in Event : due[f] # Never}) + 1]
      /\ AddAhead(e, time) \/ AddPast(e, time)
  BY DEF AddEvent
<1> DEFINE s == slot'[e]
           v == entry'[e]
<1>3. /\ slot' = [slot EXCEPT ![e] = s] /\ entry' = [entry EXCEPT ![e] = v]
      /\ s \in Slot /\ v \in 0..3 /\ s.lvl \in 0..2
      /\ v = NotAhead => s.lvl = 0
      /\ v # NotAhead => /\ time > c /\ s.lvl = v /\ v = LevelFor(off)
                         /\ s.idx = IdxFor(v, time) /\ s.rem = RemFor(v, time)
  BY AddFiles DEF s, v
<1> HIDE DEF s, v
<1>4. TypeOK'
  <2>1. Cardinality({f \in Event : due[f] # Never}) + 1 \in Nat
    BY CountNat
  <2> QED BY <1>1, <1>2, <1>3, <2>1 DEF TypeOK
<1>5. e \notin Stored /\ Stored \subseteq Event /\ Stored' = Stored \cup {e}
  <2>1. e \notin Stored
    BY <1>2 DEF NothingLost
  <2>2. s # Nowhere
    BY <1>3 DEF Nowhere
  <2>3. \A f \in Event : slot'[f] = IF f = e THEN s ELSE slot[f]
    BY <1>3 DEF TypeOK
  <2> QED BY <2>1, <2>2, <2>3 DEF Stored
<1>6. CounterExact'
  <2>1. IsFiniteSet(Stored)
    BY <1>5, CountNat
  <2>2. Cardinality(Stored \cup {e}) = Cardinality(Stored) + 1
    BY <2>1, <1>5, FS_AddElement
  <2> QED BY <2>2, <1>2, <1>5 DEF CounterExact
<1>7. NothingLost' /\ AddedFirst'
  <2>1. \A f \in Event : due'[f] = IF f = e THEN time ELSE due[f]
    BY <1>2 DEF TypeOK
  <2>2. time # Never
    BY <1>1, WheelAssumption
  <2>3. ~Fired(e)
    BY <1>2 DEF AddedFirst, Fired
  <2>4. \A f \in Event : Fired(f)' <=> Fired(f)
    BY <1>2 DEF Fired
  <2>5. NothingLost'
    BY <1>5, <2>1, <2>2, <2>3, <2>4 DEF NothingLost
  <2>6. AddedFirst'
    BY <1>2, <2>1, <2>2 DEF AddedFirst
  <2> QED BY <2>5, <2>6
<1>8. \A f \in Event \ {e} :
        /\ slot'[f] = slot[f] /\ entry'[f] = entry[f] /\ due'[f] = due[f]
        /\ Target(f)' = Target(f) /\ Turn1(f)' = Turn1(f)
  <2> SUFFICES ASSUME NEW f \in Event \ {e}
               PROVE  /\ slot'[f] = slot[f] /\ entry'[f] = entry[f] /\ due'[f] = due[f]
                      /\ Target(f)' = Target(f) /\ Turn1(f)' = Turn1(f)
    OBVIOUS
  <2>1. slot'[f] = slot[f] /\ entry'[f] = entry[f] /\ due'[f] = due[f]
    BY <1>2, <1>3 DEF TypeOK
  <2>2. Target(f)' = Target(f) /\ Turn1(f)' = Turn1(f)
    BY <2>1 DEF Target, Turn1, Lateness, OnL1Boundary, OnL2Boundary
  <2> QED BY <2>1, <2>2
<1>9. slot'[e] = s /\ entry'[e] = v /\ due'[e] = time
  BY <1>2 DEF TypeOK, s, v
<1>10. ASSUME v # NotAhead
       PROVE  PlacedAt(slot[e], e, current_time)' /\ (slot'[e].lvl = 0 => Target(e)' # c)
  <2>1. TargetFact(e)'
    <3>1. AllTargetFacts'
      BY <1>4, TargetFactsAlways, PTL
    <3> QED BY <3>1 DEF AllTargetFacts
  <2>2. /\ Target(e)' \in Nat /\ Turn1(e)' \in Nat /\ W * Turn1(e)' \in Nat
        /\ v = 0 => Target(e)' = time
    BY <2>1, <1>9 DEF TargetFact
  <2>3. /\ time = W * W * Dig2(time) + W * Dig1(time) + (time % W)
        /\ W * (time \div W) = W * W * Dig2(time) + W * Dig1(time)
        /\ Dig2(time) \in Nat /\ Dig1(time) \in 0..(W - 1) /\ time % W \in 0..(W - 1)
        /\ time % (W * W) = W * Dig1(time) + (time % W)
        /\ time \div W \in Nat
    BY <1>1, Digits
  <2>4. time > c /\ off \in Nat /\ off <= MaxOffset /\ off = time - c
    BY <1>1, <1>3, <1>10, WheelAssumption
  <2>5. CASE v = 0
    <3>1. off < W
      BY <2>5, <1>3, <1>10 DEF LevelFor
    <3>2. s.lvl = 0 /\ s.idx = time % W
      BY <2>5, <1>3, <1>10 DEF IdxFor
    <3> HIDE DEF off, c
    <3>3. c <= time /\ time < c + W /\ time # c
      BY <2>4, <3>1, <1>1
    <3> QED BY <2>2, <2>5, <3>2, <3>3, <1>2, <1>9 DEF PlacedAt, c
  <2>6. CASE v = 1
    <3>1. W <= off /\ off < W * W
      BY <2>6, <2>4, <1>1, <1>3, <1>10 DEF LevelFor
    <3>2. s.lvl = 1 /\ s.idx = Dig1(time) /\ s.rem = time % W
      BY <2>6, <1>3, <1>10 DEF IdxFor, RemFor, Dig1
    <3>3. Turn1(e)' = time \div W
      BY <2>6, <1>9, <2>3 DEF Turn1
    <3>4. W * (time \div W) <= time /\ time < W * (time \div W) + W
      BY <1>1, DivBounds
    <3> DEFINE p == time \div W
               P == W * p
               S == W * W
    <3>5. P \in Nat /\ p \in Nat /\ S \in Nat
      BY <2>3, <1>1
    <3>6. p # 0
      <4>1. W * 0 = 0
        BY <1>1
      <4> QED BY <4>1, <3>4, <3>1, <2>4, <1>1
    <3> HIDE DEF off, c, p, P, S
    <3>7. c <= P /\ P < c + S
      BY <3>1, <3>4, <3>5, <2>4, <1>1 DEF P, S, p
    <3>8. 1 <= p
      BY <3>5, <3>6
    <3> QED BY <2>6, <3>2, <3>3, <3>7, <3>8, <1>2, <1>9 DEF PlacedAt, P, S, p, c
  <2>7. CASE v = 2
    <3>1. W * W <= off /\ off < W * W * W
      BY <2>7, <2>4, <1>1, <1>3, <1>10, HorizonAssumption, Basics, WheelAssumption DEF LevelFor
    <3>2. s.lvl = 2 /\ s.idx = Dig2(time) % W /\ s.rem = time % (W * W)
      BY <2>7, <1>3, <1>10 DEF IdxFor, RemFor, Dig2
    <3> DEFINE S == W * W
               m == Dig2(time)
               M == S * m
    <3>3. M <= time /\ time < M + S
      BY <1>1, DivBounds DEF Dig2
    <3>4. M \in Nat /\ m \in Nat /\ S \in Nat /\ W * W * W \in Nat
      BY <2>3, <1>1, Basics
    <3>5. m # 0
      <4>1. S * 0 = 0
        BY <1>1
      <4> QED BY <4>1, <3>3, <3>1, <2>4, <1>1
    <3>6. W * W * m = M /\ W * W * W = S * W
      OBVIOUS
    <3> HIDE DEF off, c, m, M, S
    <3>7. c <= M /\ M < c + W * W * W
      BY <3>1, <3>3, <3>4, <2>4, <1>1 DEF S
    <3>8. 1 <= m
      BY <3>4, <3>5
    <3> QED BY <2>7, <3>2, <3>6, <3>7, <3>8, <1>2, <1>9 DEF PlacedAt, m, c
  <2> QED BY <2>5, <2>6, <2>7, <1>3, <1>10 DEF NotAhead
<1>11. Placed'
  <2> SUFFICES ASSUME NEW f \in Event PROVE InPlace(f)'
    BY DEF Placed
  <2>1. CASE f # e
    <3>1. InPlace(f)
      BY DEF Placed
    <3> QED BY <2>1, <3>1, <1>2, <1>8 DEF InPlace, PlacedAt
  <2>2. CASE f = e
    BY <2>2, <1>2, <1>3, <1>9, <1>10 DEF InPlace
  <2> QED BY <2>1, <2>2
<1>12. FiredOnSchedule'
  <2> SUFFICES ASSUME NEW f \in Event, Fired(f), entry'[f] # NotAhead
               PROVE  firedAt[f] = (due[f] + Lateness(f))'
    BY <1>2 DEF FiredOnSchedule, Fired
  <2>1. f # e
    BY <1>2 DEF AddedFirst, Fired
  <2> QED BY <2>1, <1>8 DEF FiredOnSchedule, Target
<1> QED BY <1>4, <1>6, <1>7, <1>11, <1>12

LEMMA TickKeepsInvariant ==
  ASSUME IInv, Tick
  PROVE  IInv'
<1> DEFINE filed == [e \in Event |-> Cascaded(e)]
           t == current_time + 1
<1>1. /\ current_time < MaxTime /\ current_time' = t /\ Drain(filed, t)
      /\ UNCHANGED <<due, stamp, entry>>
  BY DEF Tick
<1>2. t \in 0..MaxTime
  BY <1>1, WheelAssumption DEF IInv, TypeOK
<1>3. filed \in [Event -> Slot]
  BY <1>1, CascadeStep
<1>4. \A e \in Event : filed[e] = Nowhere <=> slot[e] = Nowhere
  BY <1>1, CascadeStep
<1>5. \A e \in Event : IF entry[e] = NotAhead THEN filed[e].lvl \in {0, 3}
                       ELSE PlacedAt(filed[e], e, t)
  BY <1>1, CascadeStep
<1> HIDE DEF filed, t
<1> QED BY <1>1, <1>2, <1>3, <1>4, <1>5, DrainStep

LEMMA RedrainKeepsInvariant ==
  ASSUME IInv, Redrain
  PROVE  IInv'
<1>1. /\ slot \in [Event -> Slot] /\ current_time \in 0..MaxTime
      /\ \A e \in Event : IF entry[e] = NotAhead THEN slot[e].lvl \in {0, 3}
                          ELSE PlacedAt(slot[e], e, current_time)
  BY DEF IInv, TypeOK, Placed, InPlace
<1>2. /\ Drain(slot, current_time) /\ current_time' = current_time
      /\ UNCHANGED <<due, stamp, entry>>
  BY DEF Redrain
<1> QED BY <1>1, <1>2, DrainStep

LEMMA ClearKeepsInvariant ==
  ASSUME IInv, Clear
  PROVE  IInv'
<1>1. TypeOK'
  BY WheelAssumption, Basics DEF Clear, ForgetHistory, TypeOK, Slot, NotAhead
<1>2. Stored' = {}
  BY DEF Clear, Stored
<1>3. CounterExact'
  BY <1>2, FS_EmptySet DEF CounterExact, Clear
<1>4. NothingLost' /\ AddedFirst'
  BY <1>2 DEF NothingLost, AddedFirst, Fired, Clear, ForgetHistory
<1>5. Placed' /\ FiredOnSchedule'
  BY DEF Placed, InPlace, FiredOnSchedule, Fired, Clear, ForgetHistory, NotAhead, Nowhere
<1> QED BY <1>1, <1>3, <1>4, <1>5 DEF IInv

LEMMA StutterKeepsInvariant ==
  ASSUME IInv, UNCHANGED vars
  PROVE  IInv'
<1>1. TypeOK' /\ CounterExact' /\ NothingLost' /\ AddedFirst'
  BY DEF vars, IInv, TypeOK, CounterExact, NothingLost, AddedFirst, Stored, Fired
<1>2. FiredOnSchedule'
  BY DEF vars, IInv, FiredOnSchedule, Fired, Lateness, OnL1Boundary, OnL2Boundary
<1>3. Placed'
  BY DEF vars, IInv, Placed, InPlace, PlacedAt, Target, Turn1, Lateness, OnL1Boundary, OnL2Boundary
<1> QED BY <1>1, <1>2, <1>3 DEF IInv
-----------------------------------------------------------------------------
LEMMA InvariantStep == IInv /\ [Next]_vars => IInv'
<1> SUFFICES ASSUME IInv, [Next]_vars PROVE IInv'
  OBVIOUS
<1>1. ASSUME NEW e \in Event, NEW t \in AddTimes, AddEvent(e, t) PROVE IInv'
  BY <1>1, AddKeepsInvariant
<1>2. CASE Tick
  BY <1>2, TickKeepsInvariant
<1>3. CASE Redrain
  BY <1>3, RedrainKeepsInvariant
<1>4. CASE Clear
  BY <1>4, ClearKeepsInvariant
<1>5. CASE UNCHANGED vars
  BY <1>5, StutterKeepsInvariant
<1> QED BY <1>1, <1>2, <1>3, <1>4, <1>5 DEF Next

\* Whatever the wheel size, every reachable state satisfies the invariant that
\* tells for each stored event in which bucket it is and when it will be moved.
THEOREM Invariance == Spec => []IInv
  BY InitIInv, InvariantStep, PTL DEF Spec

\* Every bucket index, remainder and counter stays in the range of its type.
THEOREM TypeCorrect == Spec => []TypeOK
  BY Invariance, PTL DEF IInv

\* total_events() is the number of stored events, after any add_event, advance
\* and clear, and no cascade drops or copies an event.
THEOREM Accounting == Spec => []StoredExact
<1>1. IInv => StoredExact
  BY DEF IInv, StoredExact
<1> QED BY <1>1, Invariance, PTL

\* A stored event is still ahead of the pointer.
NothingOverdue ==
  \A e \in Stored : entry[e] # NotAhead => current_time < due[e] + Lateness(e)

LEMMA StoredIsAhead == IInv => NothingOverdue
<1> SUFFICES ASSUME IInv, NEW e \in Stored, entry[e] # NotAhead
             PROVE  current_time < Target(e)
  BY DEF NothingOverdue, Target
<1>1. /\ e \in Event /\ slot[e] # Nowhere /\ slot[e] \in Slot
      /\ current_time \in Nat /\ due[e] \in Nat
  BY WheelAssumption DEF Stored, IInv, TypeOK
<1>2. PlacedAt(slot[e], e, current_time) /\ (slot[e].lvl = 0 => Target(e) # current_time)
  BY <1>1 DEF IInv, Placed, InPlace
<1>3. TargetFact(e)
  BY <1>1, TargetFacts DEF IInv
<1>4. slot[e].lvl \in 0..2
  BY <1>1 DEF Slot, Levels
<1>5. CASE slot[e].lvl = 0
  BY <1>1, <1>2, <1>3, <1>5 DEF PlacedAt, TargetFact
<1>6. due[e] % W \in 0..(W - 1) /\ W \in Nat /\ W >= 2
      /\ Dig1(due[e]) \in 0..(W - 1) /\ Dig2(due[e]) \in Nat
  BY <1>1, Digits, WheelAssumption
<1>7. CASE slot[e].lvl = 1
  <2> DEFINE T == W * Turn1(e)
             r == due[e] % W
  <2>1. current_time <= T
    BY <1>2, <1>7 DEF PlacedAt
  <2>2. T \in Nat /\ Target(e) = T + (IF r = 0 THEN W ELSE r)
    BY <1>2, <1>3, <1>7 DEF PlacedAt, TargetFact
  <2>3. r \in Nat
    BY <1>6
  <2> HIDE DEF T, r
  <2> QED BY <1>1, <1>6, <2>1, <2>2, <2>3
<1>8. CASE slot[e].lvl = 2
  <2> DEFINE b == Dig1(due[e])
             B == W * b
             S == W * W
             M == W * W * Dig2(due[e])
             T == W * Turn1(e)
  <2>1. b \in Nat /\ (b # 0 => B > 0) /\ S > 0 /\ B \in Nat /\ S \in Nat /\ M \in Nat
    BY <1>6
  <2>2. current_time <= M
    BY <1>2, <1>8 DEF PlacedAt
  <2>3. T = M + (IF b = 0 THEN S ELSE B)
    BY <1>2, <1>3, <1>8 DEF PlacedAt, TargetFact
  <2>4. T \in Nat /\ Target(e) = T + (IF due[e] % W = 0 THEN W ELSE due[e] % W)
    BY <1>2, <1>3, <1>8 DEF PlacedAt, TargetFact
  <2> HIDE DEF b, B, S, M, T
  <2> QED BY <1>1, <1>6, <2>1, <2>2, <2>3, <2>4
<1> QED BY <1>4, <1>5, <1>7, <1>8

\* An event added for a future time that is not on a cascade boundary is returned
\* exactly at its time by advance, whatever the wheel size and however adds,
\* ticks and clears interleave.  (For the others ExactTime fails.)
THEOREM Schedule == Spec => []OnSchedule
<1>1. IInv => OnSchedule
  <2> SUFFICES ASSUME IInv, NEW e \in Event, entry[e] # NotAhead, ~OnBoundary(e)
               PROVE  OnTime(e)
    BY DEF OnSchedule
  <2>1. Lateness(e) = 0 /\ due[e] \in Nat
    BY DEF OnBoundary, Lateness, IInv, TypeOK
  <2>2. Fired(e) => firedAt[e] = due[e]
    BY <2>1 DEF IInv, FiredOnSchedule
  <2>3. e \in Stored => current_time < due[e]
    BY <2>1, StoredIsAhead DEF NothingOverdue
  <2> QED BY <2>2, <2>3 DEF OnTime
<1> QED BY <1>1, Invariance, PTL
-----------------------------------------------------------------------------
(* The order of the events of one time.                                      *)

\* Two events of one time that entered at one level, e first.
Twins(e, f) ==
  due[e] = due[f] /\ entry[e] = entry[f] /\ entry[e] # NotAhead /\ stamp[e] < stamp[f]

\* Where events are filed, as a function like slot: the Vec of a bucket keeps twins in
\* order, no position is beyond its end, and an event that entered at level 2 leaves
\* it when the pointer leaves the beginning of its turn.
BucketIn(s, lvl, idx) == {g \in Event : s[g].lvl = lvl /\ s[g].idx = idx}
Ordered(s) ==
  \A e, f \in Event : s[e] # Nowhere /\ s[f] # Nowhere /\ Twins(e, f) =>
    s[e].lvl = s[f].lvl /\ s[e].idx = s[f].idx /\ s[e].pos < s[f].pos
WithinVec(s) ==
  \A e \in Event : s[e] # Nowhere => s[e].pos <= Cardinality(BucketIn(s, s[e].lvl, s[e].idx))
Descended(s, t) ==
  \A e \in Event : entry[e] = 2 /\ s[e].lvl \in {0, 1} => W * W * Dig2(due[e]) < t

Added == {e \in Event : due[e] # Never}
Stamped == \A e \in Added : stamp[e] <= Cardinality(Added)

FifoInv == Ordered(slot) /\ WithinVec(slot) /\ Descended(slot, current_time) /\ Stamped

\* What is in one bucket is cascaded together.
LEMMA SameFate ==
  ASSUME NEW e \in Event, NEW g \in Event, slot[e].lvl = slot[g].lvl, slot[e].idx = slot[g].idx
  PROVE  (e \in CascadedL1 <=> g \in CascadedL1) /\ (e \in CascadedL2 <=> g \in CascadedL2)
  BY DEF CascadedL1, CascadedL2, Bucket

LEMMA CascadeLevels ==
  /\ \A e \in CascadedL1 : e \in Event /\ slot[e].lvl = 1
  /\ \A e \in CascadedL2 : e \in Event /\ slot[e].lvl = 2
  BY DEF CascadedL1, CascadedL2, Bucket

\* An event that moves down is pushed behind what stays and what moved before it.
LEMMA MovedWithinVec ==
  ASSUME TypeOK, NEW filed, filed = [g \in Event |-> Cascaded(g)],
         NEW M, M = CascadedL1 \/ M = CascadedL2, NEW e \in M
  PROVE  /\ filed[e] = Lowered(e, M)
         /\ filed[e].pos <= Cardinality(BucketIn(filed, filed[e].lvl, filed[e].idx))
<1> DEFINE lvl == slot[e].lvl - 1
           idx == LowerIdx(e)
           occ == Occupants(lvl, idx)
           bef == Before(e, M)
           all == BucketIn(filed, lvl, idx)
<1>1. M \subseteq Event /\ e \in Event /\ lvl \in {0, 1} /\ \A g \in M : slot[g].lvl = lvl + 1
  BY CascadeLevels
<1>2. \A g \in M : Cascaded(g) = Lowered(g, M)
  BY CascadeLevels DEF Cascaded
<1>3. \A g \in M : Lowered(g, M).lvl = lvl /\ Lowered(g, M).idx = LowerIdx(g)
  BY <1>1 DEF Lowered
<1>4. occ \subseteq all
  <2> SUFFICES ASSUME NEW g \in occ PROVE g \in all
    OBVIOUS
  <2>1. g \in Event /\ slot[g].lvl = lvl /\ slot[g].idx = idx /\ g \notin CascadedL1
    BY DEF Occupants, Bucket
  <2>2. g \notin CascadedL2
    BY <1>1, <2>1, CascadeLevels
  <2>3. filed[g] = slot[g]
    BY <2>1, <2>2 DEF Cascaded
  <2> QED BY <2>1, <2>3 DEF BucketIn
<1>5. bef \cup {e} \subseteq all
  BY <1>1, <1>2, <1>3 DEF Before, BucketIn
<1>6. e \notin bef
  <2>1. slot[e].pos \in Nat
    BY <1>1 DEF TypeOK, Slot, Nowhere
  <2> QED BY <2>1 DEF Before
<1>7. occ \cap (bef \cup {e}) = {}
  <2>1. bef \cup {e} \subseteq M
    BY DEF Before
  <2>2. \A g \in occ : slot[g].lvl = lvl
    BY DEF Occupants, Bucket
  <2> QED BY <1>1, <2>1, <2>2
<1>8. filed[e] = Lowered(e, M)
  BY <1>1, <1>2
<1>9. filed[e].lvl = lvl /\ filed[e].idx = idx /\ filed[e].pos = Cardinality(occ) + Cardinality(bef) + 1
  BY <1>8 DEF Lowered
<1>10. occ \in SUBSET Event /\ bef \in SUBSET Event /\ bef \cup {e} \in SUBSET Event /\ all \in SUBSET Event
  BY <1>1 DEF Occupants, Bucket, Before, BucketIn
<1> HIDE DEF lvl, idx, occ, bef, all
<1>11. /\ IsFiniteSet(occ) /\ IsFiniteSet(bef) /\ IsFiniteSet(bef \cup {e}) /\ IsFiniteSet(all)
       /\ Cardinality(occ) \in Nat /\ Cardinality(bef) \in Nat /\ Cardinality(all) \in Nat
  BY <1>10, CountNat
<1>12. Cardinality(bef \cup {e}) = Cardinality(bef) + 1
  BY <1>6, <1>11, FS_AddElement
<1>13. Cardinality(occ \cup (bef \cup {e})) = Cardinality(occ) + Cardinality(bef) + 1
  <2>1. Cardinality(occ \cup (bef \cup {e})) = Cardinality(occ) + Cardinality(bef \cup {e}) - Cardinality({})
    BY <1>7, <1>11, FS_Union
  <2> QED BY <1>11, <1>12, <2>1, FS_EmptySet
<1>14. Cardinality(occ \cup (bef \cup {e})) <= Cardinality(all)
  BY <1>4, <1>5, <1>11, FS_Subset
<1>15. filed[e].pos <= Cardinality(all)
  BY <1>9, <1>11, <1>13, <1>14
<1> QED BY <1>8, <1>9, <1>15 DEF all

\* Of two events that move down to one bucket the first goes first.
LEMMA MovedOrdered ==
  ASSUME TypeOK, NEW M, M = CascadedL1 \/ M = CascadedL2, NEW e \in M, NEW f \in M,
         slot[e].pos < slot[f].pos, LowerIdx(e) = LowerIdx(f)
  PROVE  /\ Lowered(e, M).lvl = Lowered(f, M).lvl /\ Lowered(e, M).idx = Lowered(f, M).idx
         /\ Lowered(e, M).pos < Lowered(f, M).pos
<1> DEFINE lvl == slot[e].lvl - 1
           occ == Occupants(lvl, LowerIdx(e))
<1>1. M \subseteq Event /\ slot[f].lvl = slot[e].lvl
  BY CascadeLevels
<1>2. /\ Lowered(e, M).lvl = Lowered(f, M).lvl /\ Lowered(e, M).idx = Lowered(f, M).idx
      /\ Lowered(e, M).pos = Cardinality(occ) + Cardinality(Before(e, M)) + 1
      /\ Lowered(f, M).pos = Cardinality(occ) + Cardinality(Before(f, M)) + 1
  BY <1>1 DEF Lowered
<1>3. \A g \in M : slot[g].pos \in Nat
  BY <1>1 DEF TypeOK, Slot, Nowhere
<1>4. Before(e, M) \cup {e} \subseteq Before(f, M) /\ e \notin Before(e, M)
  BY <1>3 DEF Before
<1>5. occ \in SUBSET Event /\ Before(e, M) \in SUBSET Event /\ Before(f, M) \in SUBSET Event
  BY <1>1 DEF Occupants, Bucket, Before
<1> HIDE DEF occ
<1>6. /\ IsFiniteSet(Before(e, M)) /\ IsFiniteSet(Before(f, M))
      /\ Cardinality(occ) \in Nat /\ Cardinality(Before(e, M)) \in Nat /\ Cardinality(Before(f, M)) \in Nat
  BY <1>5, CountNat
<1>7. Cardinality(Before(e, M)) + 1 <= Cardinality(Before(f, M))
  <2> DEFINE A == Before(e, M)
             B == Before(f, M)
  <2> HIDE DEF A, B
  <2>1. IsFiniteSet(A) /\ e \notin A /\ A \cup {e} \subseteq B /\ IsFiniteSet(B)
    BY <1>4, <1>6 DEF A, B
  <2>2. Cardinality(A \cup {e}) = Cardinality(A) + 1
    BY <2>1, FS_AddElement
  <2>3. Cardinality(A \cup {e}) <= Cardinality(B)
    BY <2>1, FS_Subset
  <2> QED BY <2>2, <2>3 DEF A, B
<1> QED BY <1>2, <1>6, <1>7

\* The index one level down is decided by the time of the event.
LEMMA LowerIdxOfDue ==
  ASSUME IInv, NEW e \in CascadedL1 \cup CascadedL2, NEW f \in CascadedL1 \cup CascadedL2,
         slot[e].lvl = slot[f].lvl, due[e] = due[f], entry[e] # NotAhead, entry[f] # NotAhead
  PROVE  LowerIdx(e) = LowerIdx(f)
<1>1. e \in Event /\ f \in Event /\ slot[e].lvl \in {1, 2}
  BY CascadeLevels
<1>2. PlacedAt(slot[e], e, current_time) /\ PlacedAt(slot[f], f, current_time)
  BY <1>1 DEF IInv, Placed, InPlace
<1>3. slot[e].rem = slot[f].rem
  BY <1>1, <1>2 DEF PlacedAt
<1> QED BY <1>3 DEF LowerIdx

LEMMA CascadeKeepsOrder ==
  ASSUME IInv, FifoInv, current_time < MaxTime, NEW filed, filed = [g \in Event |-> Cascaded(g)]
  PROVE  Ordered(filed) /\ WithinVec(filed) /\ Descended(filed, current_time + 1)
<1>1. TypeOK /\ current_time \in Nat
  BY WheelAssumption DEF IInv, TypeOK
<1>2. \A e \in Event : filed[e] = Nowhere <=> slot[e] = Nowhere
  BY CascadeStep
<1>3. \A e \in Event \ (CascadedL1 \cup CascadedL2) : filed[e] = slot[e]
  BY DEF Cascaded
<1>4. WithinVec(filed)
  <2> SUFFICES ASSUME NEW e \in Event, filed[e] # Nowhere
               PROVE  filed[e].pos <= Cardinality(BucketIn(filed, filed[e].lvl, filed[e].idx))
    BY DEF WithinVec
  <2>1. CASE e \in CascadedL1
    BY <1>1, <2>1, MovedWithinVec
  <2>2. CASE e \in CascadedL2
    BY <1>1, <2>2, MovedWithinVec
  <2>3. CASE e \notin CascadedL1 \cup CascadedL2
    <3> DEFINE old == BucketIn(slot, slot[e].lvl, slot[e].idx)
               new == BucketIn(filed, slot[e].lvl, slot[e].idx)
    <3>1. old \subseteq new
      <4> SUFFICES ASSUME NEW g \in old PROVE g \in new
        OBVIOUS
      <4>1. g \in Event /\ slot[g].lvl = slot[e].lvl /\ slot[g].idx = slot[e].idx
        BY DEF BucketIn
      <4>2. filed[g] = slot[g]
        BY <1>3, <2>3, <4>1, SameFate
      <4> QED BY <4>1, <4>2 DEF BucketIn
    <3>2. filed[e] = slot[e] /\ slot[e].pos <= Cardinality(old) /\ slot[e].pos \in Nat
      BY <1>1, <1>3, <2>3 DEF FifoInv, WithinVec, TypeOK, Slot, Nowhere
    <3>3. old \in SUBSET Event /\ new \in SUBSET Event
      BY DEF BucketIn
    <3> HIDE DEF old, new
    <3>4. IsFiniteSet(new) /\ Cardinality(old) \in Nat /\ Cardinality(new) \in Nat
      BY <3>3, CountNat
    <3>5. Cardinality(old) <= Cardinality(new)
      BY <3>1, <3>4, FS_Subset
    <3>6. slot[e].pos <= Cardinality(new)
      BY <3>2, <3>4, <3>5
    <3> QED BY <3>2, <3>6 DEF new
  <2> QED BY <2>1, <2>2, <2>3
<1>5. Ordered(filed)
  <2> SUFFICES ASSUME NEW e \in Event, NEW f \in Event, filed[e] # Nowhere, filed[f] # Nowhere, Twins(e, f)
               PROVE  filed[e].lvl = filed[f].lvl /\ filed[e].idx = filed[f].idx /\ filed[e].pos < filed[f].pos
    BY DEF Ordered
  <2>1. slot[e].lvl = slot[f].lvl /\ slot[e].idx = slot[f].idx /\ slot[e].pos < slot[f].pos
    BY <1>2 DEF FifoInv, Ordered
  <2>2. (e \in CascadedL1 <=> f \in CascadedL1) /\ (e \in CascadedL2 <=> f \in CascadedL2)
    BY <2>1, SameFate
  <2>3. ASSUME NEW M, M = CascadedL1 \/ M = CascadedL2, e \in M
        PROVE  filed[e].lvl = filed[f].lvl /\ filed[e].idx = filed[f].idx /\ filed[e].pos < filed[f].pos
    <3>1. f \in M
      BY <2>2, <2>3
    <3>2. filed[e] = Lowered(e, M) /\ filed[f] = Lowered(f, M)
      BY <1>1, <2>3, <3>1, MovedWithinVec
    <3>3. LowerIdx(e) = LowerIdx(f)
      BY <2>1, <2>3, <3>1, LowerIdxOfDue DEF Twins
    <3> QED BY <1>1, <2>1, <2>3, <3>1, <3>2, <3>3, MovedOrdered
  <2>4. CASE e \notin CascadedL1 \cup CascadedL2
    BY <1>3, <2>1, <2>2, <2>4
  <2> QED BY <2>3, <2>4
<1>6. Descended(filed, current_time + 1)
  <2> SUFFICES ASSUME NEW e \in Event, entry[e] = 2, filed[e].lvl \in {0, 1}
               PROVE  W * W * Dig2(due[e]) < current_time + 1
    BY DEF Descended
  <2>1. W * W * Dig2(due[e]) \in Nat
    <3>1. Dig2(due[e]) \in Nat
      BY Digits DEF IInv, TypeOK
    <3> HIDE DEF Dig2
    <3> QED BY <3>1, WheelAssumption
  <2>2. CASE slot[e].lvl \in {0, 1}
    <3>1. W * W * Dig2(due[e]) < current_time
      BY <2>2 DEF FifoInv, Descended
    <3> QED BY <1>1, <2>1, <3>1
  <2>3. CASE slot[e].lvl \notin {0, 1}
    <3>1. e \in CascadedL2
      BY <1>3, <2>3, CascadeLevels
    <3>2. /\ current_time > 0 /\ current_time % (W * W) = 0 /\ slot[e].lvl = 2
          /\ slot[e].idx = (current_time \div (W * W)) % W
      BY <3>1 DEF CascadedL2, LeavesL2Boundary, Bucket, IdxFor
    <3>3. PlacedAt(slot[e], e, current_time)
      BY DEF IInv, Placed, InPlace, NotAhead
    <3>4. /\ slot[e].idx = Dig2(due[e]) % W /\ Dig2(due[e]) \in Nat
          /\ current_time <= W * W * Dig2(due[e]) /\ W * W * Dig2(due[e]) < current_time + W * W * W
      BY <3>2, <3>3, Digits DEF PlacedAt, IInv, TypeOK
    <3>5. W * W * Dig2(due[e]) = current_time
      BY <1>1, <3>2, <3>4, SquareOfW, WheelAssumption, SameTurn
    <3> QED BY <1>1, <3>5
  <2> QED BY <2>2, <2>3
<1> QED BY <1>4, <1>5, <1>6

LEMMA DrainKeepsOrder ==
  ASSUME NEW filed \in [Event -> Slot], NEW t, Ordered(filed), WithinVec(filed), Descended(filed, t), Stamped,
         Drain(filed, t), current_time' = t, UNCHANGED <<due, stamp, entry>>
  PROVE  FifoInv'
<1> DEFINE out == Drained(filed, t)
<1>1. slot' = [e \in Event |-> IF e \in out THEN Nowhere ELSE filed[e]]
  BY DEF Drain
<1>2. \A e \in Event : slot'[e] # Nowhere => e \notin out /\ slot'[e] = filed[e]
  BY <1>1
<1>3. \A e, g \in Event : filed[e].lvl = filed[g].lvl /\ filed[e].idx = filed[g].idx => (e \in out <=> g \in out)
  BY DEF Drained
<1> HIDE DEF out
<1>4. Ordered(slot)'
  BY <1>2 DEF Ordered, Twins, Nowhere
<1>5. WithinVec(slot)'
  <2> SUFFICES ASSUME NEW e \in Event, slot'[e] # Nowhere
               PROVE  slot'[e].pos <= Cardinality(BucketIn(slot', slot'[e].lvl, slot'[e].idx))
    BY DEF WithinVec, BucketIn, Nowhere
  <2>1. e \notin out /\ slot'[e] = filed[e]
    BY <1>2
  <2>2. \A g \in Event : filed[g].lvl = filed[e].lvl /\ filed[g].idx = filed[e].idx => slot'[g] = filed[g]
    BY <1>1, <1>3, <2>1
  <2> DEFINE old == BucketIn(filed, filed[e].lvl, filed[e].idx)
             new == BucketIn(slot', filed[e].lvl, filed[e].idx)
  <2>3. old \subseteq new
    BY <2>2 DEF BucketIn
  <2>4. old \in SUBSET Event /\ new \in SUBSET Event
    BY DEF BucketIn
  <2>5. filed[e].pos <= Cardinality(old) /\ filed[e].pos \in Nat
    BY <2>1 DEF WithinVec, Slot, Nowhere
  <2> HIDE DEF old, new
  <2>6. IsFiniteSet(new) /\ Cardinality(old) \in Nat /\ Cardinality(new) \in Nat
    BY <2>4, CountNat
  <2>7. Cardinality(old) <= Cardinality(new)
    BY <2>3, <2>6, FS_Subset
  <2>8. slot'[e].pos <= Cardinality(new)
    BY <2>1, <2>5, <2>6, <2>7
  <2> QED BY <2>1, <2>8 DEF new
<1>6. Descended(slot, current_time)'
  <2> SUFFICES ASSUME NEW e \in Event, entry[e] = 2, slot'[e].lvl \in {0, 1}
               PROVE  W * W * Dig2(due[e]) < t
    BY DEF Descended, Dig2
  <2>1. slot'[e] = filed[e]
    BY <1>1 DEF Nowhere
  <2> QED BY <2>1 DEF Descended
<1>7. Stamped'
  BY DEF Stamped, Added, Never
<1> QED BY <1>4, <1>5, <1>6, <1>7 DEF FifoInv

\* A new event goes behind everything in its bucket, and its twins are there.
LEMMA AddKeepsOrder ==
  ASSUME IInv, FifoInv, NEW n \in Event, NEW time \in AddTimes, AddEvent(n, time)
  PROVE  FifoInv'
<1> DEFINE c == current_time
           s == slot'[n]
           v == entry'[n]
<1>1. /\ c \in Nat /\ time \in Nat /\ Never \in Nat
      /\ W \in Nat /\ W >= 2 /\ W * W \in Nat /\ W * W > 0 /\ W <= W * W
  BY WheelAssumption, SquareOfW, Basics DEF IInv, TypeOK, AddTimes
<1>2. /\ due[n] = Never /\ due' = [due EXCEPT ![n] = time] /\ current_time' = c
      /\ stamp' = [stamp EXCEPT ![n] = Cardinality(Added) + 1]
  BY DEF AddEvent, Added
<1>3. /\ slot' = [slot EXCEPT ![n] = s] /\ entry' = [entry EXCEPT ![n] = v]
      /\ s \in Slot /\ v \in 0..3 /\ s.lvl \in 0..2
      /\ s.pos = Cardinality(Bucket(s.lvl, s.idx)) + 1
      /\ v # NotAhead => /\ time > c /\ s.lvl = v /\ v = LevelFor(time - c) /\ s.idx = IdxFor(v, time)
  BY AddFiles
<1> HIDE DEF s, v
<1>4. \A e \in Event \ {n} :
        /\ slot'[e] = slot[e] /\ entry'[e] = entry[e] /\ due'[e] = due[e] /\ stamp'[e] = stamp[e]
  BY <1>2, <1>3 DEF IInv, TypeOK
<1>5. slot'[n] = s /\ entry'[n] = v /\ due'[n] = time /\ stamp'[n] = Cardinality(Added) + 1
  BY <1>2, <1>3 DEF IInv, TypeOK
<1>6. time # Never
  BY WheelAssumption DEF AddTimes, IInv, TypeOK, Never, Basics
<1>7. /\ n \notin Added /\ Added \in SUBSET Event /\ Added' = Added \cup {n}
  <2>1. Never' = Never
    BY DEF Never
  <2>2. \A e \in Event : due'[e] # Never <=> due[e] # Never \/ e = n
    BY <1>2, <1>4, <1>5, <1>6
  <2> QED BY <1>2, <2>1, <2>2 DEF Added
<1>8. IsFiniteSet(Added) /\ Cardinality(Added) \in Nat /\ Cardinality(Added') = Cardinality(Added) + 1
  BY <1>7, CountNat, FS_AddElement
<1>9. \A e \in Event \ {n} : slot[e] # Nowhere => e \in Added /\ stamp[e] \in Nat /\ stamp[e] <= Cardinality(Added)
  BY DEF IInv, NothingLost, Stored, Added, FifoInv, Stamped, TypeOK
<1>10. Stamped'
  <2> SUFFICES ASSUME NEW e \in Added' PROVE stamp'[e] <= Cardinality(Added')
    BY DEF Stamped, Added
  <2>1. CASE e = n
    BY <1>5, <1>8, <2>1
  <2>2. CASE e # n
    <3>1. e \in Added /\ stamp'[e] = stamp[e] /\ stamp[e] \in Nat
      BY <1>4, <1>7, <2>2 DEF IInv, TypeOK
    <3> QED BY <1>8, <3>1 DEF FifoInv, Stamped
  <2> QED BY <2>1, <2>2
<1>11. /\ slot[n] = Nowhere
       /\ \A lvl, idx : /\ Bucket(lvl, idx) = BucketIn(slot, lvl, idx)
                        /\ lvl \in 0..2 => n \notin Bucket(lvl, idx)
                        /\ lvl \in 0..2 => Bucket(lvl, idx) \subseteq BucketIn(slot', lvl, idx)
  <2>1. slot[n] = Nowhere
    BY <1>2 DEF IInv, NothingLost, Stored
  <2>2. slot[n].lvl = 3
    BY <2>1 DEF Nowhere
  <2> QED BY <1>4, <2>1, <2>2 DEF Bucket, BucketIn
<1>12. WithinVec(slot)'
  <2> SUFFICES ASSUME NEW e \in Event, slot'[e] # Nowhere
               PROVE  slot'[e].pos <= Cardinality(BucketIn(slot', slot'[e].lvl, slot'[e].idx))
    BY DEF WithinVec, BucketIn, Nowhere
  <2> DEFINE lvl == slot'[e].lvl
             idx == slot'[e].idx
             old == Bucket(lvl, idx)
             new == BucketIn(slot', lvl, idx)
  <2>1. slot'[e] \in Slot /\ lvl \in 0..2 /\ slot'[e].pos \in Nat
    <3>1. slot'[e] \in Slot
      BY <1>3, <1>4, <1>5 DEF IInv, TypeOK
    <3> QED BY <3>1 DEF Slot, Levels
  <2>2. old \subseteq new /\ n \notin old /\ e \in new
    BY <1>11, <2>1 DEF BucketIn
  <2>3. old \in SUBSET Event /\ new \in SUBSET Event
    BY DEF Bucket, BucketIn
  <2>4. CASE e # n
    <3>1. slot'[e].pos <= Cardinality(old)
      <4>1. slot'[e] = slot[e]
        BY <1>4, <2>4
      <4>2. slot[e].pos <= Cardinality(BucketIn(slot, slot[e].lvl, slot[e].idx))
        BY <4>1 DEF FifoInv, WithinVec
      <4> QED BY <1>11, <4>1, <4>2
    <3> HIDE DEF old, new, lvl, idx
    <3>2. IsFiniteSet(new) /\ Cardinality(old) \in Nat /\ Cardinality(new) \in Nat
      BY <2>3, CountNat
    <3>3. Cardinality(old) <= Cardinality(new)
      BY <2>2, <3>2, FS_Subset
    <3>4. slot'[e].pos <= Cardinality(new)
      BY <2>1, <3>1, <3>2, <3>3
    <3> QED BY <3>4 DEF new, lvl, idx
  <2>5. CASE e = n
    <3>1. slot'[e].pos = Cardinality(old) + 1
      BY <1>3, <1>5, <2>5
    <3>2. old \cup {n} \subseteq new
      BY <2>2, <2>5
    <3> HIDE DEF old, new, lvl, idx
    <3>3. IsFiniteSet(old) /\ IsFiniteSet(new) /\ Cardinality(old) \in Nat /\ Cardinality(new) \in Nat
      BY <2>3, CountNat
    <3>4. Cardinality(old \cup {n}) = Cardinality(old) + 1
      BY <2>2, <3>3, FS_AddElement
    <3>5. Cardinality(old \cup {n}) <= Cardinality(new)
      BY <3>2, <3>3, FS_Subset
    <3>6. slot'[e].pos <= Cardinality(new)
      BY <3>1, <3>4, <3>5
    <3> QED BY <3>6 DEF new, lvl, idx
  <2> QED BY <2>4, <2>5
<1>13. Descended(slot, current_time)'
  <2> SUFFICES ASSUME NEW e \in Event, entry'[e] = 2, slot'[e].lvl \in {0, 1}
               PROVE  W * W * Dig2(due'[e]) < c
    BY <1>2 DEF Descended, Dig2
  <2>1. e # n
    BY <1>3, <1>5 DEF NotAhead
  <2> QED BY <1>4, <2>1 DEF FifoInv, Descended
\* A stored event of the same time and entry level has not been moved yet.
<1>14. ASSUME NEW e \in Event \ {n}, slot[e] # Nowhere, due[e] = time, entry[e] = v, v # NotAhead
       PROVE  slot[e].lvl = v /\ slot[e].idx = s.idx /\ slot[e].pos < s.pos
  <2> DEFINE d == due[e]
             D2 == W * W * Dig2(d)
             D1 == W * Dig1(d)
  <2>1. /\ PlacedAt(slot[e], e, c) /\ slot[e].lvl \in 0..2 /\ d = time /\ time > c
    BY <1>3, <1>14 DEF IInv, Placed, InPlace, TypeOK, Slot, Levels
  <2>2. /\ d = D2 + D1 + (d % W) /\ d % W \in 0..(W - 1) /\ Dig1(d) \in 0..(W - 1) /\ Dig2(d) \in Nat
        /\ d % (W * W) = D1 + (d % W) /\ d % (W * W) \in 0..(W * W - 1)
        /\ D1 \in Nat /\ D2 \in Nat
    <3>1. /\ d = D2 + D1 + (d % W) /\ d % W \in 0..(W - 1) /\ Dig1(d) \in 0..(W - 1) /\ Dig2(d) \in Nat
          /\ d % (W * W) = D1 + (d % W)
      BY <1>1, <2>1, Digits
    <3>2. d % (W * W) \in 0..(W * W - 1)
      BY <1>1, <2>1, ModRange
    <3> QED BY <1>1, <3>1, <3>2
  <2>3. Target(e) \in Nat /\ Target(e) >= d
    <3>1. Lateness(e) \in Nat
      BY <1>1 DEF Lateness, OnL1Boundary, OnL2Boundary
    <3> QED BY <1>1, <2>1, <3>1 DEF Target
  <2>4. slot[e].lvl = v
    <3>1. CASE v = 0
      BY <1>14, <2>1, <3>1 DEF PlacedAt
    <3>2. CASE v = 1
      <4>1. time - c >= W
        BY <1>1, <1>3, <2>1, <3>2 DEF LevelFor, NotAhead
      <4>2. slot[e].lvl # 0
        <5> SUFFICES ASSUME slot[e].lvl = 0 PROVE FALSE
          OBVIOUS
        <5>1. Target(e) < c + W
          BY <2>1 DEF PlacedAt
        <5> HIDE DEF d, c
        <5> QED BY <1>1, <2>1, <2>3, <4>1, <5>1
      <4>3. slot[e].lvl # 2
        BY <1>14, <2>1, <3>2 DEF PlacedAt
      <4> QED BY <2>1, <3>2, <4>2, <4>3
    <3>3. CASE v = 2
      <4>1. time - c >= W * W
        BY <1>1, <1>3, <2>1, <3>3 DEF LevelFor, NotAhead
      <4>2. slot[e].lvl \notin {0, 1}
        <5> SUFFICES ASSUME slot[e].lvl \in {0, 1} PROVE FALSE
          OBVIOUS
        <5>1. D2 < c
          BY <1>14, <3>3 DEF FifoInv, Descended
        <5> HIDE DEF d, c, D1, D2
        <5>2. d < D2 + W * W
          BY <1>1, <2>2
        <5> QED BY <1>1, <2>1, <2>2, <4>1, <5>1, <5>2
      <4> QED BY <2>1, <3>3, <4>2
    <3> QED BY <1>3, <1>14, <3>1, <3>2, <3>3 DEF NotAhead
  <2>5. slot[e].idx = s.idx
    <3>1. s.idx = IdxFor(v, time) /\ v \in 0..2
      BY <1>3, <1>14 DEF NotAhead
    <3>2. CASE v = 0
      BY <1>14, <2>1, <2>4, <3>1, <3>2 DEF PlacedAt, IdxFor
    <3>3. CASE v = 1
      BY <1>14, <2>1, <2>4, <3>1, <3>3 DEF PlacedAt, IdxFor, Dig1
    <3>4. CASE v = 2
      BY <1>14, <2>1, <2>4, <3>1, <3>4 DEF PlacedAt, IdxFor, Dig2
    <3> QED BY <3>1, <3>2, <3>3, <3>4
  <2>6. s.lvl = v /\ s.pos = Cardinality(Bucket(s.lvl, s.idx)) + 1
    BY <1>3, <1>14
  <2>7. slot[e].pos <= Cardinality(BucketIn(slot, slot[e].lvl, slot[e].idx)) /\ slot[e].pos \in Nat
    BY <1>14 DEF FifoInv, WithinVec, IInv, TypeOK, Slot
  <2>8. Bucket(s.lvl, s.idx) = BucketIn(slot, slot[e].lvl, slot[e].idx) /\ Bucket(s.lvl, s.idx) \in SUBSET Event
    BY <2>4, <2>5, <2>6 DEF Bucket, BucketIn
  <2>9. Cardinality(Bucket(s.lvl, s.idx)) \in Nat
    BY <2>8, CountNat
  <2>10. slot[e].pos < s.pos
    BY <2>6, <2>7, <2>8, <2>9
  <2> QED BY <2>4, <2>5, <2>10
<1>15. Ordered(slot)'
  <2> SUFFICES ASSUME NEW e \in Event, NEW f \in Event, slot'[e] # Nowhere, slot'[f] # Nowhere,
                      due'[e] = due'[f], entry'[e] = entry'[f], entry'[e] # NotAhead, stamp'[e] < stamp'[f]
               PROVE  slot'[e].lvl = slot'[f].lvl /\ slot'[e].idx = slot'[f].idx /\ slot'[e].pos < slot'[f].pos
    BY DEF Ordered, Twins, NotAhead, Nowhere
  <2>1. CASE e # n /\ f # n
    BY <1>4, <2>1 DEF FifoInv, Ordered, Twins
  <2>2. CASE e # n /\ f = n
    <3>1. slot[e] # Nowhere /\ due[e] = time /\ entry[e] = v /\ v # NotAhead /\ slot'[e] = slot[e]
      BY <1>4, <1>5, <2>2
    <3>2. slot[e].lvl = v /\ slot[e].idx = s.idx /\ slot[e].pos < s.pos
      BY <1>14, <2>2, <3>1
    <3> QED BY <1>3, <1>5, <2>2, <3>1, <3>2
  <2>3. CASE e = n
    <3>1. stamp'[e] = Cardinality(Added) + 1
      BY <1>5, <2>3
    <3>2. CASE f = n
      BY <1>5, <1>8, <2>3, <3>2
    <3>3. CASE f # n
      <4>1. slot[f] # Nowhere /\ stamp'[f] = stamp[f]
        BY <1>4, <3>3
      <4>2. stamp[f] \in Nat /\ stamp[f] <= Cardinality(Added)
        BY <1>9, <3>3, <4>1
      <4> QED BY <1>8, <3>1, <4>1, <4>2
    <3> QED BY <3>2, <3>3
  <2> QED BY <2>1, <2>2, <2>3
<1> QED BY <1>10, <1>12, <1>13, <1>15 DEF FifoInv

LEMMA EmptyWheelOrdered ==
  ASSUME slot = [e \in Event |-> Nowhere], due = [e \in Event |-> Never]
  PROVE  FifoInv
<1>1. \A e \in Event : slot[e] = Nowhere /\ slot[e].lvl = 3
  BY DEF Nowhere
<1>2. Added = {}
  BY DEF Added
<1> QED BY <1>1, <1>2 DEF FifoInv, Ordered, WithinVec, Descended, Stamped

LEMMA FifoStep == IInv /\ FifoInv /\ [Next]_vars => FifoInv'
<1> SUFFICES ASSUME IInv, FifoInv, [Next]_vars PROVE FifoInv'
  OBVIOUS
<1>1. ASSUME NEW e \in Event, NEW t \in AddTimes, AddEvent(e, t) PROVE FifoInv'
  BY <1>1, AddKeepsOrder
<1>2. CASE Tick
  <2> DEFINE filed == [g \in Event |-> Cascaded(g)]
  <2>1. /\ current_time < MaxTime /\ current_time' = current_time + 1
        /\ Drain(filed, current_time + 1) /\ UNCHANGED <<due, stamp, entry>>
    BY <1>2 DEF Tick
  <2>2. filed \in [Event -> Slot]
    BY <2>1, CascadeStep
  <2>3. Ordered(filed) /\ WithinVec(filed) /\ Descended(filed, current_time + 1)
    BY <2>1, CascadeKeepsOrder
  <2> HIDE DEF filed
  <2> QED BY <2>1, <2>2, <2>3, DrainKeepsOrder DEF FifoInv
<1>3. CASE Redrain
  <2>1. slot \in [Event -> Slot]
    BY DEF IInv, TypeOK
  <2> QED BY <1>3, <2>1, DrainKeepsOrder DEF FifoInv, Redrain
<1>4. CASE Clear
  <2>1. slot' = [e \in Event |-> Nowhere] /\ due' = [e \in Event |-> Never]
    BY <1>4 DEF Clear, ForgetHistory
  <2>2. \A e \in Event : slot'[e] = Nowhere /\ slot'[e].lvl = 3
    BY <2>1 DEF Nowhere
  <2>3. Added' = {}
    BY <2>1 DEF Added, Never
  <2> QED BY <2>2, <2>3 DEF FifoInv, Ordered, WithinVec, Descended, Stamped, Nowhere
<1>5. CASE UNCHANGED vars
  BY <1>5 DEF vars, FifoInv, Ordered, WithinVec, Descended, Stamped, Added, Twins, BucketIn,
              Never, Nowhere, NotAhead, Dig2
<1> QED BY <1>1, <1>2, <1>3, <1>4, <1>5 DEF Next

\* Two events of one time that entered the wheel at one level stay in one bucket,
\* the first added before the other, through every cascade, so advance returns
\* them in the order of their add_event calls.
THEOREM FirstInFirstOut == Spec => []SameLevelFifo
<1>1. Init => FifoInv
  BY EmptyWheelOrdered DEF Init
<1>2. FifoInv => SameLevelFifo
  BY DEF FifoInv, Ordered, Twins, SameLevelFifo, Stored
<1> QED BY <1>1, <1>2, Invariance, FifoStep, PTL DEF Spec

-----------------------------------------------------------------------------
(***************************************************************************)
(* The timing wheel implements EventQueue, the queue of timed events the     *)
(* run loop needs, for every wheel size and every number of events.          *)
(*                                                                         *)
(* The window of a pending event ends when the wheel will return it: its    *)
(* time plus its lateness if it was added for a future time, else the next   *)
(* drain of the level-0 bucket it was put into.                              *)
(***************************************************************************)

\* An event that was not added for a future time is due already.
LateIsDue == \A e \in Stored : entry[e] = NotAhead => due[e] <= current_time

RInv == IInv /\ LateIsDue

(* The drains of a level-0 bucket.                                           *)

DrainAfter(c, idx) ==
  IF idx > c % W THEN c - (c % W) + idx ELSE c - (c % W) + W + idx

LEMMA NextDrainIsDrainAfter ==
  ASSUME NEW idx PROVE NextDrain(idx) = DrainAfter(current_time, idx)
  BY DEF NextDrain, DrainAfter

LEMMA DrainAfterRange ==
  ASSUME NEW c \in Nat, NEW idx \in 0..(W - 1)
  PROVE  DrainAfter(c, idx) \in (c + 1)..(c + W)
<1> DEFINE r == c % W
<1>1. r \in 0..(W - 1)
  BY ModRange, WheelAssumption
<1>2. DrainAfter(c, idx) = IF idx > r THEN c - r + idx ELSE c - r + W + idx
  BY DEF DrainAfter
<1> HIDE DEF r
<1> QED BY <1>1, <1>2, WheelAssumption

LEMMA SuccMod ==
  ASSUME NEW c \in Nat
  PROVE  (c + 1) % W = IF c % W = W - 1 THEN 0 ELSE (c % W) + 1
<1> DEFINE q == c \div W
           r == c % W
<1>1. c = W * q + r /\ q \in Nat /\ r \in Nat /\ r < W /\ W \in Nat /\ W >= 2
  BY DivMod, ModRange, WheelAssumption
<1> HIDE DEF q, r
<1>2. CASE r = W - 1
  <2>1. c + 1 = W * (q + 1) + 0
    BY <1>1, <1>2
  <2>2. (W * (q + 1) + 0) % W = 0
    BY <1>1, ModUnique
  <2> QED BY <2>1, <2>2, <1>2 DEF r
<1>3. CASE r # W - 1
  <2>1. c + 1 = W * q + (r + 1) /\ r + 1 < W /\ r + 1 \in Nat
    BY <1>1, <1>3
  <2>2. (W * q + (r + 1)) % W = r + 1
    BY <1>1, <2>1, ModUnique
  <2> QED BY <2>1, <2>2, <1>3 DEF r
<1> QED BY <1>2, <1>3

\* A bucket that is not drained at the next time is drained when it was going to.
LEMMA DrainAfterStable ==
  ASSUME NEW c \in Nat, NEW idx \in 0..(W - 1), idx # (c + 1) % W
  PROVE  DrainAfter(c + 1, idx) = DrainAfter(c, idx)
<1> DEFINE r == c % W
           s == (c + 1) % W
<1>1. s = IF r = W - 1 THEN 0 ELSE r + 1
  BY SuccMod
<1>2. r \in 0..(W - 1) /\ W \in Nat /\ W >= 2
  BY ModRange, WheelAssumption
<1>3. DrainAfter(c, idx) = IF idx > r THEN c - r + idx ELSE c - r + W + idx
  BY DEF DrainAfter
<1>4. DrainAfter(c + 1, idx) = IF idx > s THEN (c + 1) - s + idx ELSE (c + 1) - s + W + idx
  BY DEF DrainAfter
<1>5. idx # s
  OBVIOUS
<1> HIDE DEF r, s
<1> QED BY <1>1, <1>2, <1>3, <1>4, <1>5
-----------------------------------------------------------------------------
(* Where the mapping's values lie.                                           *)

FiledWell(e) ==
  /\ e \in Event /\ slot[e] \in Slot /\ slot[e].lvl \in 0..2
  /\ slot[e].idx \in 0..(W - 1) /\ current_time \in Nat
  /\ entry[e] = NotAhead => slot[e].lvl = 0
  /\ due[e] \in Nat

LEMMA StoredSlot ==
  ASSUME IInv, NEW e \in Stored
  PROVE  FiledWell(e)
<1>1. e \in Event /\ slot[e] # Nowhere /\ slot[e] \in Slot
  BY DEF Stored, IInv, TypeOK
<1>2. slot[e].lvl \in 0..2 /\ slot[e].idx \in 0..(W - 1)
  BY <1>1 DEF Slot, Levels
<1>3. entry[e] = NotAhead => slot[e].lvl \in {0, 3}
  BY <1>1 DEF IInv, Placed, InPlace
<1> QED BY <1>1, <1>2, <1>3, WheelAssumption DEF IInv, TypeOK, FiledWell

LEMMA LatenessRange ==
  ASSUME NEW e \in Event PROVE Lateness(e) \in 0..(W + W * W)
<1>1. W \in Nat /\ W * W \in Nat
  BY SquareOfW, WheelAssumption
<1> DEFINE S == W * W
           a == IF entry[e] \in {1, 2} /\ due[e] % W = 0 THEN W ELSE 0
           b == IF entry[e] = 2 /\ (due[e] \div W) % W = 0 THEN S ELSE 0
<1>2. Lateness(e) = a + b /\ a \in {0, W} /\ b \in {0, S}
  BY DEF Lateness, OnL1Boundary, OnL2Boundary
<1> HIDE DEF S, a, b
<1> QED BY <1>1, <1>2 DEF S

\* The latest time of a pending event lies ahead of the pointer.
LEMMA LatestIsAhead ==
  ASSUME IInv, NEW e \in Stored
  PROVE  current_time < LatestDrain(e)
<1>1. CASE entry[e] = NotAhead
  BY <1>1, StoredSlot, NextDrainIsDrainAfter, DrainAfterRange, WheelAssumption DEF LatestDrain, FiledWell
<1>2. CASE entry[e] # NotAhead
  BY <1>2, StoredIsAhead DEF LatestDrain, NothingOverdue
<1> QED BY <1>1, <1>2

AllFacts ==
  /\ \A e \in Stored : FiledWell(e) /\ current_time < LatestDrain(e)
  /\ \A e \in Event : Lateness(e) \in 0..(W + W * W)

LEMMA AllFactsHold == IInv => AllFacts
  BY StoredSlot, LatestIsAhead, LatenessRange DEF AllFacts

LEMMA AllFactsHoldNext ==
  ASSUME IInv' PROVE AllFacts'
  BY AllFactsHold, PTL

LEMMA LateIsDueInductive ==
  ASSUME IInv, LateIsDue, [Next]_vars PROVE LateIsDue'
<1> SUFFICES ASSUME NEW e \in Stored', entry'[e] = NotAhead
             PROVE  due'[e] <= current_time'
  BY DEF LateIsDue
<1>1. e \in Event /\ current_time \in Nat /\ slot'[e] # Nowhere
  BY WheelAssumption DEF Stored, IInv, TypeOK
<1>2. ASSUME NEW f \in Event, NEW t \in AddTimes, AddEvent(f, t)
      PROVE  due'[e] <= current_time'
  <2>1. current_time' = current_time /\ due' = [due EXCEPT ![f] = t]
        /\ due \in [Event -> Nat] /\ t \in Nat
    BY <1>2, <1>1, WheelAssumption DEF AddEvent, IInv, TypeOK, AddTimes
  <2>2. CASE e # f
    <3>1. slot'[e] = slot[e] /\ entry'[e] = entry[e] /\ due'[e] = due[e]
      BY <1>2, <1>1, <2>1, <2>2 DEF AddEvent, AddAhead, AddPast, IInv, TypeOK
    <3> QED BY <3>1, <2>1, <1>1 DEF LateIsDue, Stored
  <2>3. CASE e = f
    <3>1. due'[e] = t
      BY <2>1, <2>3
    <3>2. entry'[e] = NotAhead => t <= current_time
      <4>1. CASE AddAhead(f, t)
        BY <4>1, <2>1, <2>3, <1>1 DEF AddAhead, LevelFor, NotAhead, IInv, TypeOK
      <4>2. CASE AddPast(f, t)
        BY <4>2, <2>1, <1>1 DEF AddPast
      <4> QED BY <4>1, <4>2, <1>2 DEF AddEvent
    <3> QED BY <3>1, <3>2, <2>1
  <2> QED BY <2>2, <2>3
<1>3. CASE Tick
  <2>1. /\ current_time' = current_time + 1 /\ due' = due /\ entry' = entry
        /\ Drain([f \in Event |-> Cascaded(f)], current_time + 1)
    BY <1>3 DEF Tick
  <2>2. slot[e] # Nowhere
    <3>1. current_time < MaxTime
      BY <1>3 DEF Tick
    <3>2. slot'[e] = Cascaded(e)
      BY <2>1, <1>1 DEF Drain
    <3> QED BY <3>1, <3>2, <1>1, CascadeStep
  <2> QED BY <2>1, <2>2, <1>1 DEF LateIsDue, Stored, IInv, TypeOK
<1>4. CASE Redrain
  <2>1. slot[e] # Nowhere /\ due' = due /\ entry' = entry /\ current_time' = current_time
    BY <1>4, <1>1 DEF Redrain, Drain
  <2> QED BY <2>1, <1>1 DEF LateIsDue, Stored
<1>5. CASE Clear
  BY <1>5, <1>1 DEF Clear
<1>6. CASE UNCHANGED vars
  BY <1>6, <1>1 DEF vars, LateIsDue, Stored
<1> QED BY <1>2, <1>3, <1>4, <1>5, <1>6 DEF Next

LEMMA RInvInductive ==
  ASSUME RInv, [Next]_vars PROVE RInv'
<1>1. IInv'
  <2>1. ASSUME NEW e \in Event, NEW t \in AddTimes, AddEvent(e, t) PROVE IInv'
    BY <2>1, AddKeepsInvariant DEF RInv
  <2> QED
    BY <2>1, TickKeepsInvariant, RedrainKeepsInvariant, ClearKeepsInvariant,
       StutterKeepsInvariant DEF Next, RInv
<1> QED BY <1>1, LateIsDueInductive DEF RInv
-----------------------------------------------------------------------------
(* Every step of the wheel is a step of the queue.                           *)

LEMMA DrainRefines ==
  ASSUME RInv, RInv',
         NEW filed \in [Event -> Slot],
         NEW t \in {current_time, current_time + 1},
         \A e \in Event : filed[e] = Nowhere <=> slot[e] = Nowhere,
         \A e \in Event : slot[e].lvl = 0 => filed[e] = slot[e],
         Drain(filed, t), current_time' = t, UNCHANGED <<due, stamp, entry>>,
         t \in 0..MaxTime
  PROVE  Queue!Drain(t)
<1> DEFINE S == Drained(filed, t)
           pend == [e \in Stored |-> WindowOf(e)]
<1> USE DEF RInv
<1>1. /\ slot' = [e \in Event |-> IF e \in S THEN Nowhere ELSE filed[e]]
      /\ firedAt' = [e \in Event |-> IF e \in S THEN t ELSE firedAt[e]]
  BY DEF Drain
<1>2. \A e \in S : e \in Event /\ filed[e].lvl = 0 /\ filed[e].idx = t % W
  BY DEF Drained
<1>3. \A e \in Event : filed[e].lvl = 0 /\ filed[e].idx = t % W => e \in S
  BY DEF Drained
<1>4. S \subseteq Stored /\ Stored \subseteq Event
  BY <1>2 DEF Stored, Nowhere
<1>5. Stored' = Stored \ S
  BY <1>1, <1>4 DEF Stored
<1>6. t # Never /\ t \in Nat /\ current_time \in Nat /\ current_time <= t
      /\ current_time' = t /\ due' = due /\ entry' = entry
  BY WheelAssumption, Basics DEF IInv, TypeOK
<1> HIDE DEF S
<1>7. \A e \in S : due[e] <= t
  <2> SUFFICES ASSUME NEW e \in S PROVE due[e] <= t
    OBVIOUS
  <2>1. e \in Stored /\ e \in Event /\ due[e] \in Nat
    BY <1>4, StoredSlot DEF FiledWell
  <2>2. CASE entry[e] = NotAhead
    BY <2>1, <2>2, <1>6 DEF LateIsDue
  <2>3. CASE entry[e] # NotAhead
    <3>1. firedAt'[e] = t
      BY <2>1, <1>1
    <3>2. t = due[e] + Lateness(e)'
      BY <3>1, <2>1, <2>3, <1>6 DEF IInv, FiredOnSchedule, Fired, Never
    <3>3. Lateness(e)' = Lateness(e)
      BY <1>6 DEF Lateness, OnL1Boundary, OnL2Boundary
    <3>4. Lateness(e) \in Nat
      BY <2>1, LatenessRange
    <3> QED BY <3>2, <3>3, <3>4, <2>1
  <2> QED BY <2>2, <2>3
<1>8. \A e \in Stored \ S : LatestDrain(e)' = LatestDrain(e) /\ t < LatestDrain(e)
  <2> SUFFICES ASSUME NEW e \in Stored, e \notin S
               PROVE  LatestDrain(e)' = LatestDrain(e) /\ t < LatestDrain(e)
    OBVIOUS
  <2>1. e \in Event /\ e \in Stored'
    BY <1>4, <1>5
  <2>2. t < LatestDrain(e)'
    BY <2>1, <1>6, AllFactsHoldNext DEF AllFacts
  <2>3. CASE entry[e] # NotAhead
    <3>1. LatestDrain(e) = due[e] + Lateness(e) /\ LatestDrain(e)' = due[e] + Lateness(e)'
      BY <2>3, <1>6 DEF LatestDrain
    <3>2. Lateness(e)' = Lateness(e)
      BY <1>6 DEF Lateness, OnL1Boundary, OnL2Boundary
    <3> QED BY <3>1, <3>2, <2>2
  <2>4. CASE entry[e] = NotAhead
    <3>1. /\ slot[e].lvl = 0 /\ slot[e].idx \in 0..(W - 1)
      BY <2>4, StoredSlot DEF FiledWell
    <3>2. filed[e] = slot[e] /\ slot'[e] = slot[e]
      BY <3>1, <2>1, <1>1
    <3>3. slot[e].idx # t % W
      BY <3>1, <3>2, <2>1, <1>3
    <3>4. LatestDrain(e)' = DrainAfter(t, slot[e].idx)
      BY <2>4, <3>2, <1>6 DEF LatestDrain, NextDrain, DrainAfter
    <3>5. LatestDrain(e) = DrainAfter(current_time, slot[e].idx)
      BY <2>4 DEF LatestDrain, NextDrain, DrainAfter
    <3> QED BY <3>1, <3>3, <3>4, <3>5, <2>2, <1>6, DrainAfterStable
  <2> QED BY <2>2, <2>3, <2>4
<1>9. pend' = [e \in Stored \ S |-> pend[e]]
  <2>1. \A e \in Stored \ S : WindowOf(e)' = WindowOf(e)
    BY <1>8, <1>6 DEF WindowOf
  <2> QED BY <2>1, <1>5
<1>10. {e \in Event : Fired(e)}' = {e \in Event : Fired(e)} \cup S
  <2>1. \A e \in Event : Fired(e)' <=> Fired(e) \/ e \in S
    BY <1>1, <1>6 DEF Fired, Never
  <2> QED BY <2>1, <1>4
<1>11. /\ DOMAIN pend = Stored
       /\ \A e \in S : pend[e].due <= t
       /\ \A e \in Stored \ S : t < pend[e].latest
  BY <1>4, <1>7, <1>8 DEF WindowOf
<1>12. Queue!Take(S, t)
  BY <1>6, <1>9, <1>10, <1>11 DEF Queue!Take
<1> QED BY <1>4, <1>11, <1>12 DEF Queue!Drain

LEMMA TickRefines ==
  ASSUME RInv, RInv', Tick PROVE Queue!Advance
<1> DEFINE filed == [e \in Event |-> Cascaded(e)]
           t == current_time + 1
<1>1. /\ current_time < MaxTime /\ current_time' = t /\ Drain(filed, t)
      /\ UNCHANGED <<due, stamp, entry>>
  BY DEF Tick
<1>2. t \in 0..MaxTime /\ t \in {current_time, current_time + 1}
  BY <1>1, WheelAssumption DEF RInv, IInv, TypeOK
<1>3. filed \in [Event -> Slot]
  BY <1>1, CascadeStep DEF RInv
<1>4. \A e \in Event : filed[e] = Nowhere <=> slot[e] = Nowhere
  BY <1>1, CascadeStep DEF RInv
<1>5. \A e \in Event : slot[e].lvl = 0 => filed[e] = slot[e]
  BY DEF Cascaded, CascadedL1, CascadedL2, Bucket
<1> HIDE DEF filed
<1>6. Queue!Drain(t)
  BY <1>1, <1>2, <1>3, <1>4, <1>5, DrainRefines
<1> QED BY <1>1, <1>6 DEF Queue!Advance

LEMMA RedrainRefines ==
  ASSUME RInv, RInv', Redrain PROVE Queue!Drain(current_time)
<1>1. /\ slot \in [Event -> Slot] /\ current_time \in 0..MaxTime
      /\ current_time \in {current_time, current_time + 1}
  BY DEF RInv, IInv, TypeOK
<1>2. /\ Drain(slot, current_time) /\ current_time' = current_time
      /\ UNCHANGED <<due, stamp, entry>>
  BY DEF Redrain
<1> QED BY <1>1, <1>2, DrainRefines

LEMMA AddRefines ==
  ASSUME RInv, RInv', NEW e \in Event, NEW time \in AddTimes, AddEvent(e, time)
  PROVE  Queue!Push(e, time)
<1> DEFINE c == current_time
           pend == [f \in Stored |-> WindowOf(f)]
           l == LatestDrain(e)'
<1> USE DEF RInv
<1>1. /\ due[e] = Never /\ due' = [due EXCEPT ![e] = time]
      /\ c' = c /\ firedAt' = firedAt /\ c \in Nat /\ time \in Nat
      /\ due \in [Event -> Nat] /\ slot \in [Event -> Slot] /\ entry \in [Event -> 0..3]
      /\ W \in Nat /\ W * W \in Nat /\ W >= 2
  BY WheelAssumption, SquareOfW DEF AddEvent, IInv, TypeOK, AddTimes
<1>2. e \notin Stored /\ ~Fired(e)
  BY <1>1 DEF IInv, NothingLost, AddedFirst, Fired, Never
<1>3. /\ slot' = [slot EXCEPT ![e] = slot'[e]]
      /\ entry' = [entry EXCEPT ![e] = entry'[e]]
  BY <1>1 DEF AddEvent, AddAhead, AddPast
<1>4. e \in Stored'
  <2>1. due'[e] # Never /\ ~Fired(e)'
    <3>1. time # Never /\ due'[e] = time
      BY <1>1, Basics, WheelAssumption DEF AddTimes, IInv, TypeOK
    <3>2. Never' = Never
      BY DEF Never
    <3> QED BY <3>1, <3>2, <1>1, <1>2 DEF Fired
  <2>2. NothingLost'
    BY DEF IInv
  <2> QED BY <2>1, <2>2 DEF NothingLost, IInv, Never
<1>5. Stored' = Stored \cup {e}
  BY <1>1, <1>3, <1>4 DEF Stored
<1>6. \A f \in Stored : WindowOf(f)' = WindowOf(f)
  <2> SUFFICES ASSUME NEW f \in Stored PROVE WindowOf(f)' = WindowOf(f)
    OBVIOUS
  <2>1. f \in Event /\ f # e
    BY <1>2 DEF Stored
  <2>2. slot'[f] = slot[f] /\ entry'[f] = entry[f] /\ due'[f] = due[f]
    BY <2>1, <1>1, <1>3
  <2> QED BY <2>2, <1>1 DEF WindowOf, LatestDrain, NextDrain, Lateness, OnL1Boundary, OnL2Boundary
<1>7. c < l
  BY <1>1, <1>4, AllFactsHoldNext DEF AllFacts
<1>8. time <= l /\ l <= Queue!Later(time) + (W + W * W) /\ l \in Nat
  <2>1. due'[e] = time /\ slot'[e].idx \in 0..(W - 1)
    BY <1>1, <1>4, AllFactsHoldNext DEF AllFacts, FiledWell
  <2>2. CASE entry'[e] = NotAhead
    <3>1. l \in (c + 1)..(c + W)
      BY <2>1, <2>2, <1>1, NextDrainIsDrainAfter, DrainAfterRange DEF LatestDrain, NextDrain, DrainAfter
    <3>2. time <= c
      BY <2>1, <2>2, <1>1, <1>4 DEF LateIsDue
    <3>3. Queue!Later(time) = c
      BY <3>2, <1>1 DEF Queue!Later
    <3> HIDE DEF l
    <3> QED BY <3>1, <3>2, <3>3, <1>1
  <2>3. CASE entry'[e] # NotAhead
    <3>1. l = time + Lateness(e)'
      BY <2>1, <2>3 DEF LatestDrain
    <3>2. Lateness(e)' \in 0..(W + W * W)
      BY AllFactsHoldNext DEF AllFacts
    <3>3. time > c
      BY <2>3, <1>1 DEF AddEvent, AddAhead, AddPast
    <3>4. Queue!Later(time) = time
      BY <3>3 DEF Queue!Later
    <3> QED BY <3>1, <3>2, <3>4, <1>1
  <2> QED BY <2>2, <2>3
<1>9. pend' = [f \in DOMAIN pend \cup {e} |->
                 IF f = e THEN [due |-> time, latest |-> l] ELSE pend[f]]
  <2>1. WindowOf(e)' = [due |-> time, latest |-> l]
    BY <1>1 DEF WindowOf
  <2> HIDE DEF l
  <2> QED BY <2>1, <1>2, <1>5, <1>6
<1>10. {f \in Event : Fired(f)}' = {f \in Event : Fired(f)}
  BY <1>1 DEF Fired
<1>11. l \in (c + 1)..(Queue!Later(time) + (W + W * W))
  <2>1. Queue!Later(time) \in Nat
    BY <1>1 DEF Queue!Later
  <2> HIDE DEF l
  <2> QED BY <2>1, <1>1, <1>7, <1>8
<1> HIDE DEF l
<1>12. DOMAIN pend = Stored
  OBVIOUS
<1> QED BY <1>1, <1>2, <1>8, <1>9, <1>10, <1>11, <1>12 DEF Queue!Push

LEMMA ClearRefines ==
  ASSUME Clear PROVE Queue!Clear
<1>1. Stored' = {} /\ {e \in Event : Fired(e)}' = {}
  BY DEF Clear, Stored, ForgetHistory, Fired, Never
<1> QED BY <1>1 DEF Clear, Queue!Clear

LEMMA StutterRefines ==
  ASSUME UNCHANGED vars PROVE UNCHANGED Queue!queue
<1>1. Stored' = Stored /\ \A e \in Event : Fired(e)' <=> Fired(e)
  BY DEF vars, Stored, Fired
<1>2. \A e : WindowOf(e)' = WindowOf(e)
  BY DEF vars, WindowOf, LatestDrain, NextDrain, Lateness, OnL1Boundary, OnL2Boundary
<1> QED BY <1>1, <1>2 DEF vars, Queue!queue

\* The refinement: whatever the size of the wheel, its behaviours are behaviours
\* of the queue of timed events with a slack of one turn of each lower level.
THEOREM Refinement == Spec => ImplementsEventQueue
<1>1. Init => Queue!Init
  <2> SUFFICES ASSUME Init PROVE Queue!Init
    OBVIOUS
  <2>1. Stored = {} /\ {e \in Event : Fired(e)} = {}
    BY DEF Init, Stored, Fired, Never
  <2> QED BY <2>1 DEF Init, Queue!Init
<1>2. Init => RInv
  BY InitIInv DEF RInv, LateIsDue, Init, Stored
<1>3. RInv /\ [Next]_vars => RInv'
  BY RInvInductive
<1>4. RInv /\ RInv' /\ [Next]_vars => [Queue!Next]_Queue!queue
  <2> SUFFICES ASSUME RInv, RInv', [Next]_vars PROVE [Queue!Next]_Queue!queue
    OBVIOUS
  <2>1. ASSUME NEW e \in Event, NEW t \in AddTimes, AddEvent(e, t)
        PROVE  Queue!Next
    BY <2>1, AddRefines DEF AddTimes, Queue!Next
  <2>2. CASE Tick
    BY <2>2, TickRefines DEF Queue!Next
  <2>3. CASE Redrain
    BY <2>3, RedrainRefines DEF Queue!Next
  <2>4. CASE Clear
    BY <2>4, ClearRefines DEF Queue!Next
  <2>5. CASE UNCHANGED vars
    BY <2>5, StutterRefines
  <2> QED BY <2>1, <2>2, <2>3, <2>4, <2>5 DEF Next
<1> QED BY <1>1, <1>2, <1>3, <1>4, PTL DEF Spec, ImplementsEventQueue, Queue!Spec
=============================================================================
