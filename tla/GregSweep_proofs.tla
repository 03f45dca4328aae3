--------------------------- MODULE GregSweep_proofs ---------------------------
(***************************************************************************)
(* What the control law promises for every reading of the two pressures,   *)
(* not only for those of a grid, and for every tuning of the constants     *)
(* that TuningAssumption allows.                                           *)
(***************************************************************************)
EXTENDS GregSweep, TLAPS

-----------------------------------------------------------------------------
(* Arithmetic.                                                             *)

\* A larger divisor does not give a larger quotient.
LEMMA DivisorAntitone ==
    ASSUME NEW a \in Nat, NEW m \in Nat \ {0}, NEW n \in Nat, m <= n
    PROVE  /\ a \div n <= a \div m
           /\ a \div m \in Int /\ a \div n \in Int
  <1> DEFINE q == a \div m
             r == a \div n
  <1>1. q \in Int /\ m * q <= a /\ a < m * q + m
    OBVIOUS
  <1>2. r \in Int /\ n * r <= a /\ 0 <= r
    OBVIOUS
  <1> HIDE DEF q, r
  <1>3. r <= q
    <2> SUFFICES ASSUME q + 1 <= r PROVE FALSE
      BY <1>1, <1>2
    <2>1. m * (q + 1) <= m * r
      BY <1>1, <1>2
    <2>2. m * r <= n * r
      BY <1>2
    <2>3. m * (q + 1) = m * q + m /\ m * r \in Int /\ n * r \in Int /\ m * q \in Int
      BY <1>1, <1>2
    <2> QED
      BY <1>1, <1>2, <2>1, <2>2, <2>3
  <1> QED
    BY <1>1, <1>2, <1>3 DEF q, r

\* A factor that is not negative keeps the order of a product.
LEMMA ProductMonotone ==
    ASSUME NEW a \in Int, NEW b \in Int, NEW c \in Nat, a <= b
    PROVE  a * c <= b * c /\ c * a <= c * b /\ a * c \in Int /\ b * c \in Int
  OBVIOUS

\* The division by 1000 keeps the order, and finds a bound.
LEMMA QuotientMonotone ==
    ASSUME NEW x \in Int, NEW y \in Int
    PROVE  /\ x \div 1000 \in Int
           /\ x <= y => x \div 1000 <= y \div 1000
           /\ x < 1000 * (y + 1) => x \div 1000 <= y
  OBVIOUS

-----------------------------------------------------------------------------
(* The curves.                                                             *)

\* Both curves stay within their bounds; the gain of exhausted nitrogen is
\* the feed-forward bound.
LEMMA CurvesBounded ==
    ASSUME NEW n \in Int
    PROVE  /\ feedforward(n) \in FF_min .. FF_max
           /\ Kp(n) \in Kp_min .. FF_max
           /\ ~N2Exhausted(n) => Kp(n) <= Kp_max
  <1>1. CASE N2Exhausted(n)
    BY <1>1, ControlAssumption, TuningAssumption
    DEF ControlAssumption, TuningAssumption, feedforward, Kp
  <1>2. CASE ~N2Exhausted(n)
    <2>1. n \in Nat \ {0}
      BY <1>2, ControlAssumption DEF ControlAssumption, N2Exhausted
    <2>2. FF_0 + (FF_Alpha \div n) \in Int /\ Kp_0 + (Kp_Beta \div n) \in Int
      BY <2>1, ControlAssumption DEF ControlAssumption
    <2> DEFINE f == FF_0 + (FF_Alpha \div n)
               k == Kp_0 + (Kp_Beta \div n)
    <2>3. /\ feedforward(n) = Clamp(f, FF_min, FF_max)
          /\ Kp(n) = Clamp(k, Kp_min, Kp_max)
      BY <1>2 DEF feedforward, Kp
    <2>4. f \in Int /\ k \in Int
      BY <2>2
    <2> HIDE DEF f, k
    <2>5. /\ Clamp(f, FF_min, FF_max) \in FF_min .. FF_max
          /\ Clamp(k, Kp_min, Kp_max) \in Kp_min .. Kp_max
      BY <2>4, ControlAssumption DEF ControlAssumption, Clamp
    <2>6. Kp_min .. Kp_max \subseteq Kp_min .. FF_max
      BY ControlAssumption, TuningAssumption
      DEF ControlAssumption, TuningAssumption
    <2>7. ASSUME NEW x \in Kp_min .. Kp_max PROVE x <= Kp_max
      BY ControlAssumption DEF ControlAssumption
    <2> QED
      BY <2>3, <2>5, <2>6, <2>7
  <1> QED
    BY <1>1, <1>2

\* Neither curve is negative.
LEMMA CurvesNatural ==
    ASSUME NEW n \in Int
    PROVE  /\ Kp(n) \in Nat /\ feedforward(n) \in Nat
           /\ Kp_min <= Kp(n) /\ feedforward(n) <= FF_max
  <1> DEFINE k == Kp(n)
             f == feedforward(n)
  <1>1. k \in Kp_min .. FF_max /\ f \in FF_min .. FF_max
    BY CurvesBounded
  <1> HIDE DEF k, f
  <1>2. k \in Nat /\ f \in Nat /\ Kp_min <= k /\ f <= FF_max
    BY <1>1, ControlAssumption DEF ControlAssumption
  <1> QED
    BY <1>2 DEF k, f

\* Neither curve falls when the nitrogen pressure falls, also where the
\* bottle counts as exhausted.
LEMMA CurvesAntitone ==
    ASSUME NEW m \in Int, NEW n \in Int, m < n
    PROVE  feedforward(n) <= feedforward(m) /\ Kp(n) <= Kp(m)
  <1>1. CASE N2Exhausted(m)
    <2>1. feedforward(m) = FF_max /\ Kp(m) = FF_max
      BY <1>1 DEF feedforward, Kp
    <2> QED
      BY <2>1, CurvesBounded
  <1>2. CASE ~N2Exhausted(m)
    <2>1. m \in Nat \ {0} /\ n \in Nat \ {0} /\ m <= n /\ ~N2Exhausted(n)
      BY <1>2, ControlAssumption DEF ControlAssumption, N2Exhausted
    <2>2. FF_Alpha \in Nat /\ Kp_Beta \in Nat
      BY ControlAssumption, TuningAssumption
      DEF ControlAssumption, TuningAssumption
    <2>3. /\ FF_Alpha \div n <= FF_Alpha \div m
          /\ FF_Alpha \div n \in Int /\ FF_Alpha \div m \in Int
      BY <2>1, <2>2, DivisorAntitone
    <2>4. /\ Kp_Beta \div n <= Kp_Beta \div m
          /\ Kp_Beta \div n \in Int /\ Kp_Beta \div m \in Int
      BY <2>1, <2>2, DivisorAntitone
    <2> DEFINE f == FF_Alpha \div n
               g == FF_Alpha \div m
               j == Kp_Beta \div n
               k == Kp_Beta \div m
    <2>5. /\ feedforward(n) = Clamp(FF_0 + f, FF_min, FF_max)
          /\ feedforward(m) = Clamp(FF_0 + g, FF_min, FF_max)
      BY <1>2, <2>1 DEF feedforward
    <2>6. /\ Kp(n) = Clamp(Kp_0 + j, Kp_min, Kp_max)
          /\ Kp(m) = Clamp(Kp_0 + k, Kp_min, Kp_max)
      BY <1>2, <2>1 DEF Kp
    <2>7. f \in Int /\ g \in Int /\ f <= g /\ j \in Int /\ k \in Int /\ j <= k
      BY <2>3, <2>4
    <2> HIDE DEF f, g, j, k
    <2>8. Clamp(FF_0 + f, FF_min, FF_max) <= Clamp(FF_0 + g, FF_min, FF_max)
      BY <2>7, ControlAssumption DEF ControlAssumption, Clamp
    <2>9. Clamp(Kp_0 + j, Kp_min, Kp_max) <= Clamp(Kp_0 + k, Kp_min, Kp_max)
      BY <2>7, ControlAssumption DEF ControlAssumption, Clamp
    <2> QED
      BY <2>5, <2>6, <2>8, <2>9
  <1> QED
    BY <1>1, <1>2

-----------------------------------------------------------------------------
(* The angle.                                                              *)

\* The sum of which the angle is the clamped quotient.
Demand(f, n) == Kp(n) * (P_setpoint - f) + 10 * feedforward(n)

\* The demand is an integer.
LEMMA DemandInteger ==
    ASSUME NEW f \in Int, NEW n \in Int
    PROVE  /\ Demand(f, n) \in Int /\ Kp(n) * (P_setpoint - f) \in Int
           /\ TargetAngle(f, n) = Demand(f, n) \div 1000
  <1>1. Kp(n) \in Nat /\ feedforward(n) \in Nat
    BY CurvesNatural
  <1>2. P_setpoint - f \in Int
    BY ControlAssumption DEF ControlAssumption
  <1>3. Kp(n) * (P_setpoint - f) \in Int
    BY <1>1, <1>2
  <1>4. Demand(f, n) \in Int
    BY <1>1, <1>3 DEF Demand
  <1>5. TargetAngle(f, n) = Demand(f, n) \div 1000
    BY DEF Demand, TargetAngle
  <1> QED
    BY <1>1, <1>3, <1>4, <1>5

\* A larger demand does not give a smaller angle.
LEMMA AngleMonotone ==
    ASSUME NEW f \in Int, NEW n \in Int, NEW g \in Int, NEW m \in Int,
           NEW s \in BOOLEAN, Demand(f, n) <= Demand(g, m)
    PROVE  ControlledAngle(f, n, s) <= ControlledAngle(g, m, s)
  <1> DEFINE d == Demand(f, n)
             e == Demand(g, m)
             x == TargetAngle(f, n)
             y == TargetAngle(g, m)
  <1>1. d \in Int /\ e \in Int /\ d <= e /\ x = d \div 1000 /\ y = e \div 1000
    BY DemandInteger
  <1>2. /\ ControlledAngle(f, n, s) =
                IF s THEN AngleMin(Clamp(x, regMinOpenAngle, regMaxOpenAngle),
                                   regMaxOpenFirstStart)
                     ELSE Clamp(x, regMinOpenAngle, regMaxOpenAngle)
        /\ ControlledAngle(g, m, s) =
                IF s THEN AngleMin(Clamp(y, regMinOpenAngle, regMaxOpenAngle),
                                   regMaxOpenFirstStart)
                     ELSE Clamp(y, regMinOpenAngle, regMaxOpenAngle)
    BY DEF ControlledAngle, nextAngle
  <1> HIDE DEF d, e, x, y
  <1>3. x \in Int /\ y \in Int /\ x <= y
    BY <1>1, QuotientMonotone
  <1>4. /\ Clamp(x, regMinOpenAngle, regMaxOpenAngle)
                <= Clamp(y, regMinOpenAngle, regMaxOpenAngle)
        /\ Clamp(x, regMinOpenAngle, regMaxOpenAngle) \in Int
        /\ Clamp(y, regMinOpenAngle, regMaxOpenAngle) \in Int
    BY <1>3, ControlAssumption DEF ControlAssumption, Clamp
  <1> DEFINE v == Clamp(x, regMinOpenAngle, regMaxOpenAngle)
             w == Clamp(y, regMinOpenAngle, regMaxOpenAngle)
  <1>5. v \in Int /\ w \in Int /\ v <= w
    BY <1>4
  <1> HIDE DEF v, w
  <1>6. AngleMin(v, regMaxOpenFirstStart) <= AngleMin(w, regMaxOpenFirstStart)
    BY <1>5, ControlAssumption DEF ControlAssumption, AngleMin
  <1>7. CASE s
    BY <1>2, <1>6, <1>7 DEF v, w
  <1>8. CASE ~s
    BY <1>2, <1>5, <1>8 DEF v, w
  <1> QED
    BY <1>7, <1>8

\* The angle is an integer.
LEMMA AngleInteger ==
    ASSUME NEW f \in Int, NEW n \in Int, NEW s \in BOOLEAN
    PROVE  ControlledAngle(f, n, s) \in Int
  <1> DEFINE x == TargetAngle(f, n)
  <1>1. x \in Int
    BY DemandInteger, QuotientMonotone
  <1>2. nextAngle(f, n) = Clamp(x, regMinOpenAngle, regMaxOpenAngle)
    BY DEF nextAngle
  <1> HIDE DEF x
  <1>3. nextAngle(f, n) \in Int
    BY <1>1, <1>2, ControlAssumption DEF ControlAssumption, Clamp
  <1> QED
    BY <1>3, ControlAssumption DEF ControlAssumption, ControlledAngle, AngleMin

\* A rising feedback pressure does not raise the demand.
LEMMA DemandFallsWithPressure ==
    ASSUME NEW f \in Int, NEW g \in Int, NEW n \in Int, f < g
    PROVE  Demand(g, n) <= Demand(f, n)
  <1>1. /\ P_setpoint - g \in Int /\ P_setpoint - f \in Int
        /\ P_setpoint - g <= P_setpoint - f
    BY ControlAssumption DEF ControlAssumption
  <1> DEFINE k == Kp(n)
             a == P_setpoint - g
             b == P_setpoint - f
             h == 10 * feedforward(n)
  <1>2. k \in Nat /\ h \in Int
    BY CurvesNatural
  <1>3. Demand(g, n) = k * a + h /\ Demand(f, n) = k * b + h
    BY DEF Demand
  <1>4. a \in Int /\ b \in Int /\ a <= b
    BY <1>1
  <1> HIDE DEF k, a, b, h
  <1>5. k * a <= k * b /\ k * a \in Int /\ k * b \in Int
    BY <1>2, <1>4, ProductMonotone
  <1>6. k * a + h <= k * b + h
    BY <1>2, <1>5
  <1> QED
    BY <1>3, <1>6

\* Below the setpoint a falling nitrogen pressure does not lower it.
LEMMA DemandRisesWithoutNitrogen ==
    ASSUME NEW f \in Int, f <= P_setpoint, NEW m \in Int, NEW n \in Int, m < n
    PROVE  Demand(f, n) <= Demand(f, m)
  <1>1. P_setpoint - f \in Nat
    BY ControlAssumption DEF ControlAssumption
  <1>2. /\ Kp(n) \in Nat /\ Kp(m) \in Nat
        /\ feedforward(n) \in Nat /\ feedforward(m) \in Nat
    BY CurvesNatural
  <1>3. Kp(n) <= Kp(m) /\ feedforward(n) <= feedforward(m)
    BY CurvesAntitone
  <1> DEFINE j == Kp(n)
             k == Kp(m)
             a == P_setpoint - f
             h == feedforward(n)
             i == feedforward(m)
  <1>4. Demand(f, n) = j * a + 10 * h /\ Demand(f, m) = k * a + 10 * i
    BY DEF Demand
  <1>5. j \in Nat /\ k \in Nat /\ j <= k /\ a \in Nat /\ h \in Nat /\ i \in Nat /\ h <= i
    BY <1>1, <1>2, <1>3
  <1> HIDE DEF j, k, a, h, i
  <1>6. j * a <= k * a /\ j * a \in Int /\ k * a \in Int
    BY <1>5, ProductMonotone
  <1>7. j * a + 10 * h <= k * a + 10 * i
    BY <1>5, <1>6
  <1> QED
    BY <1>4, <1>7

\* Above the full abort the demand is below what opens the valve further
\* than its minimum.
LEMMA DemandAtFullAbort ==
    ASSUME NEW f \in Int, P_full_abort < f, NEW n \in Int
    PROVE  Demand(f, n) < 1000 * (regMinOpenAngle + 1)
  <1> DEFINE excess == P_setpoint - P_full_abort - 1
             over == -excess
             a == P_setpoint - f
             k == Kp(n)
             h == feedforward(n)
  <1>1. /\ a \in Int /\ excess \in Int /\ over \in Nat
        /\ a <= excess /\ excess = -over
    BY ControlAssumption, TuningAssumption
    DEF ControlAssumption, TuningAssumption
  <1>2. Kp_min * excess + 10 * FF_max < 1000 * (regMinOpenAngle + 1)
    BY TuningAssumption DEF TuningAssumption
  <1>3. k \in Nat /\ h \in Nat /\ Kp_min <= k /\ h <= FF_max
    BY CurvesNatural
  <1>4. Demand(f, n) = k * a + 10 * h
    BY DEF Demand
  <1>5. Kp_min \in Nat /\ FF_max \in Int /\ regMinOpenAngle \in Nat
    BY ControlAssumption DEF ControlAssumption
  <1> HIDE DEF over, excess, a, k, h
  <1>6. k * a <= k * excess /\ k * a \in Int
    BY <1>1, <1>3, ProductMonotone
  <1>7. Kp_min * over <= k * over /\ Kp_min * over \in Int /\ k * over \in Int
    BY <1>1, <1>3, <1>5, ProductMonotone
  <1>8. k * excess = -(k * over) /\ Kp_min * excess = -(Kp_min * over)
    BY <1>1, <1>3, <1>5
  <1>9. k * a + 10 * h <= Kp_min * excess + 10 * FF_max
    BY <1>3, <1>5, <1>6, <1>7, <1>8
  <1>10. Kp_min * excess \in Int
    BY <1>7, <1>8
  <1>11. k * a + 10 * h < 1000 * (regMinOpenAngle + 1)
    BY <1>2, <1>3, <1>5, <1>6, <1>9, <1>10
  <1> QED
    BY <1>4, <1>11

-----------------------------------------------------------------------------
(* The specification.                                                      *)

\* The angle is the law's for the readings it was computed from.
SweepInv ==
    /\ fb \in Int /\ n2 \in Int /\ starting \in BOOLEAN
    /\ angle = ControlledAngle(fb, n2, starting)

\* Each step computes the angle anew.
LEMMA SweepInvariance == Spec => []SweepInv
  <1>1. Init => SweepInv
    BY TuningAssumption DEF TuningAssumption, Init, SweepInv
  <1>2. SweepInv /\ [Next]_vars => SweepInv'
    BY TuningAssumption
    DEF TuningAssumption, SweepInv, Next, FeedbackMoves, NitrogenMoves,
        StartEnds, vars
  <1> QED
    BY <1>1, <1>2, PTL DEF Spec

\* The loop's feedback is negative: a rising pressure never opens the valve
\* further, whatever the nitrogen pressure.
THEOREM FeedbackNegative == Spec => RisingPressureNeverOpens
  <1>1. SweepInv /\ SweepInv' /\ [Next]_vars
            => [fb' > fb /\ n2' = n2 /\ starting' = starting => angle' <= angle]_vars
    <2> SUFFICES ASSUME SweepInv, SweepInv', fb' > fb, n2' = n2,
                        starting' = starting
                 PROVE  angle' <= angle
      OBVIOUS
    <2>1. Demand(fb', n2) <= Demand(fb, n2)
      BY DemandFallsWithPressure DEF SweepInv
    <2> QED
      BY <2>1, AngleMonotone DEF SweepInv
  <1> QED
    BY <1>1, SweepInvariance, PTL DEF Spec, RisingPressureNeverOpens

\* Below the setpoint a falling nitrogen pressure never closes the valve.
THEOREM NitrogenCompensated == Spec => FallingNitrogenNeverCloses
  <1>1. SweepInv /\ SweepInv' /\ [Next]_vars
            => [n2' < n2 /\ fb' = fb /\ fb <= P_setpoint /\ starting' = starting
                   => angle' >= angle]_vars
    <2> SUFFICES ASSUME SweepInv, SweepInv', n2' < n2, fb' = fb,
                        fb <= P_setpoint, starting' = starting
                 PROVE  angle <= angle'
      BY AngleInteger DEF SweepInv
    <2>1. Demand(fb, n2) <= Demand(fb, n2')
      BY DemandRisesWithoutNitrogen DEF SweepInv
    <2> QED
      BY <2>1, AngleMonotone DEF SweepInv
  <1> QED
    BY <1>1, SweepInvariance, PTL DEF Spec, FallingNitrogenNeverCloses

\* Above the full abort pressure the controller has the valve at its minimum.
THEOREM AbortFindsMinimum == Spec => []MinimumOpenAtFullAbort
  <1>1. SweepInv => MinimumOpenAtFullAbort
    <2> SUFFICES ASSUME SweepInv, fb > P_full_abort
                 PROVE  angle = regMinOpenAngle
      BY DEF MinimumOpenAtFullAbort
    <2>1. Demand(fb, n2) < 1000 * (regMinOpenAngle + 1)
      BY DemandAtFullAbort, TuningAssumption DEF SweepInv, TuningAssumption
    <2> DEFINE d == Demand(fb, n2)
               x == TargetAngle(fb, n2)
    <2>2. d \in Int /\ x = d \div 1000
      BY DemandInteger DEF SweepInv
    <2>3. nextAngle(fb, n2) = Clamp(x, regMinOpenAngle, regMaxOpenAngle)
      BY DEF nextAngle
    <2> HIDE DEF d, x
    <2>4. x \in Int /\ x <= regMinOpenAngle
      BY <2>1, <2>2, QuotientMonotone, ControlAssumption
      DEF ControlAssumption, d
    <2>5. nextAngle(fb, n2) = regMinOpenAngle
      BY <2>3, <2>4, ControlAssumption DEF ControlAssumption, Clamp
    <2> QED
      BY <2>5, ControlAssumption
      DEF ControlAssumption, SweepInv, ControlledAngle, AngleMin
  <1> QED
    BY <1>1, SweepInvariance, PTL
=============================================================================
