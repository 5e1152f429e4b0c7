--------------------------- MODULE PulseIn_proofs ---------------------------
(***************************************************************************)
(* Proofs about PulseIn: how precise pulseIn is and when it gives up, for  *)
(* any widths of the two integer types, any timeout, and any bounds on the *)
(* time between two steps and on the length of a pulse.                    *)
(***************************************************************************)
EXTENDS PulseIn, TLAPS

TypeOK ==
    /\ LONG \in Longs /\ usecs \in 0 .. LONG - 1 /\ startUsec \in 0 .. LONG - 1
    /\ start \in 0 .. U32 - 1 /\ from \in 0 .. LONG - 1
    /\ timeout \in Nat /\ (loop # "idle" => timeout \in Timeouts)
    /\ loop \in Loops \cup {"idle", "begin", "return"}
    /\ at \in {"pin", "clock"} /\ (at = "clock" => loop \in Loops)
    /\ level \in BOOLEAN /\ width \in Nat
    /\ held \in Nat /\ (~level => held <= HOLD)
    /\ since \in Nat /\ lag \in 0 .. LAG /\ gaveUp \subseteq Loops

-----------------------------------------------------------------------------
(* Where a call is.  Times are up to the last step of the program; lag is  *)
(* what has passed since.                                                  *)

\* The time since start was assigned, while every loop goes on at once.
Early ==
    IF at = "clock" THEN IF loop = "rise" THEN 2 * LAG ELSE LAG
    ELSE IF loop \in {"rise", "return"} THEN LAG
    ELSE IF loop = "begin" THEN 2 * LAG ELSE 0

\* By how much the time since start was assigned may exceed timeout.
Late ==
    IF at = "clock" THEN IF loop = "rise" THEN 5 * LAG ELSE 3 * LAG
    ELSE IF loop \in {"rise", "return"} THEN 4 * LAG
    ELSE IF loop = "begin" THEN 6 * LAG ELSE 2 * LAG

InTime == lag <= since /\ since <= timeout + Late + lag

\* start measures from `from'.  If that was at a clock of 0, micros has its origin
\* d microseconds later, at the next call.
Measures(d) ==
    /\ start = from % U32
    /\ d <= since /\ (d # 0 => from = 0)
    /\ d <= (IF loop \in {"rise", "begin"} THEN 3 * LAG ELSE 2 * LAG)
    /\ startUsec = 0 =>
          from = 0 /\ d = since /\ usecs = since /\ since <= Early + lag
    /\ startUsec # 0 => micros \in {from + since - d, from + since - d - LONG}

-----------------------------------------------------------------------------
(* What the program knows of the pin, if the first and the third loop did  *)
(* not give up.                                                            *)

\* The time since the pin was last read in this loop.
Unread == IF at = "clock" THEN lag ELSE LAG + lag

\* The pin was not at the level k ago, nor at the call.
Rose(k) == level => held <= k /\ held <= since

\* start differs from the begin of the pulse by lo before and hi after it.
Pulses(lo, hi) ==
    /\ level => since - held >= -lo /\ since - held <= hi
    /\ ~level => /\ since - width >= -lo /\ since - width <= hi + held
                 /\ held <= Unread

AwaitsPulse ==
    loop = "rise" /\ gaveUp = {} => Rose(Unread)

SawPulse ==
    loop = "begin" /\ gaveUp = {} =>
        /\ Rose(2 * LAG + lag)
        /\ ~level => /\ held <= lag
                     /\ width + held <= 2 * LAG + lag /\ width + held <= since

MayMissPulse ==
    loop = "begin" /\ gaveUp = {"rise"} => Rose(LAG + lag)

InPulse(l) == loop = "pulse" /\ gaveUp = {} => Pulses(3 * l, 0)

InPulseLate(l) ==
    loop = "pulse" /\ gaveUp = {"rise"} =>
        \/ at = "pin" /\ since <= lag /\ (level => since - held >= -(2 * l))
        \/ Pulses(2 * l, LAG)

AfterPulse(l) ==
    loop = "return" =>
        /\ gaveUp \subseteq {"rise"} => (level => held <= lag)
        /\ gaveUp = {} => /\ since - width >= -(3 * l)
                          /\ since - width <= 2 * LAG + lag
        /\ gaveUp = {"rise"} =>
              \/ since <= LAG + lag
              \/ since - width >= -(2 * l) /\ since - width <= 3 * LAG + lag

Pin(l) ==
    /\ loop \in {"leave", "rise"} => "rise" \notin gaveUp
    /\ AwaitsPulse /\ SawPulse /\ MayMissPulse
    /\ InPulse(l) /\ InPulseLate(l) /\ AfterPulse(l)

\* If micros had its origin at start, no time had passed since the call, and
\* start was not assigned after the begin of the pulse (l = 0).
Calling ==
    loop # "idle" =>
        /\ InTime
        /\ \E d \in Nat, l \in {0, LAG} :
              Measures(d) /\ Pin(l) /\ (startUsec = 0 \/ d # 0 => l = 0)

Inv == TypeOK /\ Calling

-----------------------------------------------------------------------------
(* Remainders.                                                             *)

\* A number in the range is its remainder.
LEMMA Small ==
    ASSUME NEW w \in Nat \ {0}, NEW x \in 0 .. w - 1
    PROVE  x % w = x
  OBVIOUS

\* A remainder is in its range, and not greater than the number.
LEMMA Bounded ==
    ASSUME NEW w \in Nat \ {0}, NEW x \in Int
    PROVE  x % w \in 0 .. w - 1 /\ (x >= 0 => x % w <= x)
  OBVIOUS

\* What the clock does.
LEMMA Successor ==
    ASSUME NEW w \in Nat \ {0}, NEW a \in 0 .. w - 1
    PROVE  (a + 1) % w = IF a = w - 1 THEN 0 ELSE a + 1
  OBVIOUS

\* What unsigned subtraction does.
LEMMA Difference ==
    ASSUME NEW w \in Nat \ {0}, NEW a \in 0 .. w - 1, NEW b \in 0 .. w - 1
    PROVE  (a - b) % w = IF a < b THEN a - b + w ELSE a - b
  OBVIOUS

\* The last w numbers below a multiple of w have the remainders in order.
LEMMA LastBlock ==
    ASSUME NEW w \in Nat \ {0}, NEW l \in Nat \ {0}, l % w = 0,
           NEW m \in l - w .. l - 1
    PROVE  m % w = m - l + w
  <1> DEFINE k == l \div w
             q == m \div w
  <1>1. k \in Int /\ q \in Int /\ l = w * k
    OBVIOUS
  <1>2. w * q <= m /\ m < w * q + w /\ m % w = m - w * q
    OBVIOUS
  <1> HIDE DEF k, q
  <1>3. ~ q >= k
    <2> SUFFICES ASSUME q >= k PROVE FALSE
      OBVIOUS
    <2>1. w * q >= w * k
      BY <1>1
    <2> QED  BY <1>1, <1>2, <2>1
  <1>4. ~ q <= k - 2
    <2> SUFFICES ASSUME q <= k - 2 PROVE FALSE
      OBVIOUS
    <2>1. w * q <= w * (k - 2)
      BY <1>1
    <2> QED  BY <1>1, <1>2, <2>1
  <1>5. q = k - 1
    BY <1>1, <1>3, <1>4
  <1>6. w * q = w * k - w
    BY <1>1, <1>5
  <1> QED  BY <1>1, <1>2, <1>6

\* A multiple is one of some number, and any number one plus its remainder.
LEMMA Multiple ==
    ASSUME NEW w \in Nat \ {0}, NEW l \in Nat, l % w = 0
    PROVE  \E j \in Nat : l = w * j
  <1>1. l \div w \in Nat /\ l = w * (l \div w)
    OBVIOUS
  <1> QED  BY <1>1

LEMMA Quotient ==
    ASSUME NEW w \in Nat \ {0}, NEW x \in Nat
    PROVE  \E k \in Nat : x = (x % w) + w * k
  <1>1. x \div w \in Nat /\ x = (x % w) + w * (x \div w)
    OBVIOUS
  <1> QED  BY <1>1

\* Multiples grow with the number.
LEMMA Grows ==
    ASSUME NEW w \in Nat \ {0}, NEW k \in Nat
    PROVE  /\ w * k \in Nat
           /\ (k # 0 => w * k >= w) /\ (k # 0 /\ k # 1 => w * k >= w * 2)
           /\ w * (k - 1) = w * k - w
  OBVIOUS

\* A multiple does not change the remainder.
LEMMA Blocks ==
    ASSUME NEW w \in Nat \ {0}, NEW k \in Nat, NEW a \in 0 .. w - 1, NEW x \in Int,
           x = a + w * k
    PROVE  x % w = a
  <1> DEFINE q == x \div w
             y == x % w
  <1>1. q \in Int /\ y \in 0 .. w - 1 /\ x = y + w * q
    OBVIOUS
  <1> HIDE DEF q, y
  <1>2. ~ q >= k + 1
    <2> SUFFICES ASSUME q >= k + 1 PROVE FALSE
      OBVIOUS
    <2>1. w * q >= w * (k + 1)
      BY <1>1
    <2>2. w * (k + 1) = w * k + w
      OBVIOUS
    <2> QED  BY <1>1, <2>1, <2>2
  <1>3. ~ q <= k - 1
    <2> SUFFICES ASSUME q <= k - 1 PROVE FALSE
      OBVIOUS
    <2>1. w * q <= w * (k - 1)
      BY <1>1
    <2>2. w * (k - 1) = w * k - w
      OBVIOUS
    <2> QED  BY <1>1, <2>1, <2>2
  <1>4. q = k
    BY <1>1, <1>2, <1>3
  <1>5. y = a
    BY <1>1, <1>4
  <1> QED  BY <1>5 DEF y

\* The numbers of the model, from the assumption.
LEMMA Numbers ==
    TypeOK =>
        /\ U32 \in Nat \ {0} /\ LONG \in Nat \ {0} /\ LONG % U32 = 0
        /\ U32 <= LONG
        /\ LAG \in Nat /\ HOLD \in Nat /\ HOLD > 2 * LAG
        /\ timeout \in Nat
        /\ loop # "idle" => timeout + 7 * LAG < U32
  BY PulseInAssumption DEF PulseInAssumption, TypeOK

-----------------------------------------------------------------------------
(* The clock.                                                              *)

\* micros and its origin are in the range of unsigned long.
LEMMA MicrosType ==
    ASSUME TypeOK
    PROVE  micros \in 0 .. LONG - 1 /\ Origin \in 0 .. LONG - 1
  <1>1. Origin \in 0 .. LONG - 1
    BY DEF TypeOK, Origin
  <1>2. usecs - Origin \in Int /\ LONG \in Nat \ {0}
    BY <1>1, Numbers DEF TypeOK
  <1> QED  BY <1>1, <1>2, Bounded DEF micros

\* A call of micros changes not what it returns.
LEMMA MicrosCalled ==
    CallMicros => /\ micros' = micros
                  /\ startUsec' = 0 <=> startUsec = 0 /\ usecs = 0
  BY DEF CallMicros, micros, Origin

\* It grows by one with the clock, and wraps.
LEMMA MicrosTicks ==
    ASSUME TypeOK, startUsec # 0, startUsec' = startUsec, LONG' = LONG,
           usecs' = (usecs + 1) % LONG
    PROVE  micros' = IF micros = LONG - 1 THEN 0 ELSE micros + 1
  <1>1. LONG \in Nat \ {0} /\ usecs \in 0 .. LONG - 1 /\ startUsec \in 0 .. LONG - 1
    BY Numbers DEF TypeOK
  <1>2. usecs' = IF usecs = LONG - 1 THEN 0 ELSE usecs + 1
    BY <1>1, Successor
  <1>3. /\ micros = (usecs - startUsec) % LONG
        /\ micros' = (usecs' - startUsec) % LONG
    BY DEF micros, Origin
  <1>4. usecs' \in 0 .. LONG - 1
    BY <1>1, <1>2
  <1>5. /\ micros = IF usecs < startUsec THEN usecs - startUsec + LONG
                    ELSE usecs - startUsec
        /\ micros' = IF usecs' < startUsec THEN usecs' - startUsec + LONG
                     ELSE usecs' - startUsec
    BY <1>1, <1>3, <1>4, Difference
  <1> QED  BY <1>1, <1>2, <1>5

\* Before the clock moves away from startUsec = 0 it gives 0.
LEMMA MicrosZero == TypeOK /\ startUsec = 0 => micros = 0
  <1> SUFFICES ASSUME TypeOK, startUsec = 0 PROVE micros = 0
    OBVIOUS
  <1>1. usecs \in 0 .. LONG - 1 /\ LONG \in Nat \ {0}
    BY Numbers DEF TypeOK
  <1>2. micros = (usecs - usecs) % LONG
    BY DEF micros, Origin
  <1> QED  BY <1>1, <1>2, Difference

\* No wait is as long as start can tell.
LEMMA Within ==
    ASSUME Inv, loop # "idle"
    PROVE  since + LAG - lag < U32 /\ since <= timeout + 7 * LAG
  <1>1. /\ U32 \in Nat /\ LAG \in Nat /\ timeout \in Nat /\ since \in Nat
        /\ lag \in 0 .. LAG /\ timeout + 7 * LAG < U32
    BY Numbers DEF Inv, TypeOK
  <1>2. since <= timeout + Late + lag
    BY DEF Inv, Calling, InTime
  <1>3. Late \in Nat /\ Late <= 6 * LAG
    BY <1>1 DEF Late
  <1> QED  BY <1>1, <1>2, <1>3

\* What a loop compares with the timeout is the time since the origin of micros,
\* up to the blocks of U32 that start is too small by.
LEMMA ElapsedIs ==
    ASSUME Inv, loop # "idle", NEW d \in Nat, Measures(d)
    PROVE  /\ Elapsed \in Nat /\ Elapsed >= since - d
           /\ Elapsed % U32 = since - d
           /\ Fits => Elapsed = since - d
           /\ ~Fits => Elapsed >= U32
  <1>1. /\ U32 \in Nat \ {0} /\ LONG \in Nat \ {0} /\ U32 <= LONG
        /\ LAG \in Nat /\ lag \in 0 .. LAG /\ since \in Nat /\ d <= since
        /\ start \in 0 .. U32 - 1 /\ micros \in 0 .. LONG - 1
        /\ from \in 0 .. LONG - 1
    BY Numbers, MicrosType DEF Inv, TypeOK, Measures
  <1>2. since - d \in 0 .. U32 - 1
    BY <1>1, Within
  <1>3. start = from % U32
    BY DEF Measures
  <1>4. Fits => start = from
    <2>1. Fits => from \in 0 .. U32 - 1
      BY <1>1 DEF Fits
    <2> QED  BY <1>1, <1>3, <2>1, Small
  <1>5. from >= LONG - U32 => start = from - LONG + U32
    <2>1. from >= LONG - U32 => from \in LONG - U32 .. LONG - 1
      BY <1>1
    <2>2. LONG % U32 = 0
      BY Numbers DEF Inv
    <2> QED  BY <1>1, <1>3, <2>1, <2>2, LastBlock
  <1>6. Elapsed = IF micros < start THEN micros - start + LONG ELSE micros - start
    <2>1. start \in 0 .. LONG - 1
      BY <1>1
    <2> QED  BY <1>1, <2>1, Difference DEF Elapsed
  <1>7. PICK j \in Nat : LONG = U32 * j
    BY <1>1, Numbers, Multiple DEF Inv
  <1>8. PICK k \in Nat : from = start + U32 * k
    <2>1. from \in Nat
      BY <1>1
    <2>2. PICK k \in Nat : from = (from % U32) + U32 * k
      BY <1>1, <2>1, Quotient
    <2> QED  BY <1>3, <2>2
  <1>9. ~Fits => U32 * k >= U32 /\ LONG - U32 >= U32
    <2>1. ~Fits => k # 0 /\ j # 0 /\ j # 1
      BY <1>1, <1>7, <1>8 DEF Fits
    <2>2. (k # 0 => U32 * k >= U32) /\ (j # 0 /\ j # 1 => U32 * j >= U32 * 2)
      BY <1>1, <1>7, <1>8, Grows
    <2> QED  BY <1>1, <1>7, <2>1, <2>2
  <1>10. CASE startUsec = 0
    <2>1. from = 0 /\ d = since /\ micros = 0
      BY <1>10, MicrosZero DEF Measures, Inv
    <2>2. Fits /\ start = 0
      BY <1>1, <1>4, <2>1 DEF Fits
    <2>3. Elapsed = since - d
      BY <1>1, <1>6, <2>1, <2>2
    <2> QED  BY <1>1, <1>2, <2>2, <2>3, Small
  <1>11. CASE micros = from + since - d
    <2>1. Elapsed = since - d + U32 * k
      <3>1. U32 * k \in Int /\ U32 * k >= 0
        BY <1>1, <1>8, Grows
      <3> QED  BY <1>1, <1>2, <1>6, <1>8, <1>11, <3>1
    <2>2. Elapsed % U32 = since - d
      BY <1>1, <1>2, <1>8, <2>1, Blocks
    <2>3. Fits => Elapsed = since - d
      BY <1>1, <1>2, <1>4, <1>6, <1>11
    <2>4. ~Fits => Elapsed >= U32
      BY <1>1, <1>2, <1>9, <2>1
    <2> QED  BY <1>1, <1>2, <1>6, <2>2, <2>3, <2>4
  <1>12. CASE micros = from + since - d - LONG
    <2>1. from >= LONG - U32 /\ start = from - LONG + U32
      BY <1>1, <1>2, <1>5, <1>12
    <2>2. Elapsed = since - d - U32 + LONG
      BY <1>1, <1>2, <1>6, <1>12, <2>1
    <2>3. Elapsed % U32 = since - d
      <3>1. j # 0
        BY <1>1, <1>7
      <3>2. PICK i \in Nat : i = j - 1
        BY <1>7, <3>1
      <3>3. LONG - U32 = U32 * i
        BY <1>1, <1>7, <3>2, Grows
      <3>4. Elapsed = since - d + U32 * i
        BY <1>1, <2>2, <3>3
      <3> QED  BY <1>1, <1>2, <3>4, Blocks
    <2>4. Fits => Elapsed = since - d
      BY <1>1, <1>2, <1>4, <2>1, <2>2
    <2>5. ~Fits => Elapsed >= U32
      BY <1>1, <1>2, <1>9, <2>2
    <2> QED  BY <1>1, <1>2, <2>2, <2>3, <2>4, <2>5
  <1> QED  BY <1>10, <1>11, <1>12 DEF Measures

-----------------------------------------------------------------------------
(* Every step keeps what start measures.                                   *)

\* An assignment to start.
LEMMA Assigns ==
    ASSUME Inv, Assign, loop' # "idle", lag' = 0
    PROVE  Measures(0)'
  <1>1. /\ LAG \in Nat /\ LONG \in Nat \ {0} /\ LONG' = LONG
        /\ micros \in 0 .. LONG - 1 /\ micros' = micros /\ from' = micros
        /\ start' = micros % U32 /\ since' = 0 /\ usecs' = usecs
        /\ startUsec' = 0 => usecs = 0 /\ startUsec = 0
    BY Numbers, MicrosType, MicrosCalled DEF Inv, Assign, CallMicros
  <1>2. startUsec' = 0 => from' = 0 /\ usecs' = 0
    BY <1>1, MicrosZero DEF Inv
  <1>4. 0 <= (IF loop' \in {"rise", "begin"} THEN 3 * LAG ELSE 2 * LAG)
    BY <1>1
  <1>5. startUsec' # 0 =>
           micros' \in {from' + since' - 0, from' + since' - 0 - LONG'}
    BY <1>1
  <1>6. startUsec' = 0 =>
           from' = 0 /\ 0 = since' /\ usecs' = since' /\ since' <= Early' + lag'
    BY <1>1, <1>2 DEF Early
  <1> QED  BY <1>1, <1>4, <1>5, <1>6 DEF Measures

\* The loops follow each other.
LEMMA Afters ==
    /\ After("leave") = "rise" /\ After("rise") = "begin"
    /\ After("pulse") = "return"
  BY Zenon DEF After

\* What a step that reads the pin or the clock does, if it does not throw.
Turn ==
    /\ loop \in Loops /\ lag' = 0
    /\ LONG' = LONG /\ usecs' = usecs /\ start' = start /\ from' = from
    /\ timeout' = timeout /\ since' = since /\ level' = level /\ held' = held /\ width' = width
    /\ \/ at = "pin" /\ at' = "clock" /\ loop' = loop
       \/ at = "clock" /\ at' = "pin" /\ loop' = loop
       \/ /\ at' = "pin"
          /\ \/ loop = "leave" /\ loop' = "rise"
             \/ loop = "rise" /\ loop' = "begin"
             \/ loop = "pulse" /\ loop' = "return"

\* Both steps of a loop are turns.
LEMMA Turns == Inv /\ (ReadPin \/ CheckClock) => Turn
  BY Afters DEF Inv, TypeOK, ReadPin, CheckClock, Check, CallMicros, Turn, Loops,
     clock, pinVars

\* A step that reads the pin or the clock and goes on.
LEMMA Continues ==
    ASSUME Inv, ReadPin \/ CheckClock,
           NEW d \in Nat, Measures(d)
    PROVE  Measures(d)'
  <1>1. /\ LAG \in Nat /\ lag \in 0 .. LAG /\ since \in Nat
        /\ LONG \in Nat \ {0} /\ usecs \in 0 .. LONG - 1
    BY Numbers DEF Inv, TypeOK
  <1>2. Turn
    BY Turns
  <1>4. startUsec' = 0 =>
           from = 0 /\ d = since /\ usecs = since /\ since <= Early' + lag'
    <2>1. CASE ReadPin
      <3>1. /\ startUsec' = startUsec /\ at = "pin"
            /\ startUsec = 0 => from = 0 /\ d = since /\ usecs = since
            /\ startUsec = 0 => since <= Early + lag
        BY <2>1 DEF Measures, ReadPin, clock
      <3> QED  BY <1>1, <1>2, <3>1 DEF Turn, Early, Loops
    <2>2. CASE CheckClock
      <3>1. startUsec' = 0 => startUsec = 0 /\ usecs = 0
        BY <2>2, MicrosCalled DEF CheckClock, Check
      <3>2. startUsec = 0 => from = 0 /\ d = since /\ usecs = since
        BY DEF Measures
      <3> QED  BY <1>1, <1>2, <3>1, <3>2 DEF Turn, Early
    <2> QED  BY <2>1, <2>2
  <1>5. d <= (IF loop' \in {"rise", "begin"} THEN 3 * LAG ELSE 2 * LAG)
    BY <1>1, <1>2 DEF Measures, Turn
  <1>6. micros' = micros /\ (startUsec' = startUsec \/ CallMicros)
    BY MicrosCalled DEF ReadPin, CheckClock, Check, micros, Origin, clock
  <1>7. CASE startUsec' = startUsec
    BY <1>1, <1>2, <1>4, <1>5, <1>6, <1>7 DEF Measures, Turn
  <1>8. CASE startUsec' # startUsec
    <2>1. startUsec = 0 /\ startUsec' # 0 /\ micros = 0
      BY <1>6, <1>8, MicrosZero DEF CallMicros, Origin, Inv
    <2> QED  BY <1>1, <1>2, <1>5, <1>6, <2>1 DEF Measures, Turn
  <1> QED  BY <1>7, <1>8

\* A tick, during a call.
LEMMA Passes ==
    ASSUME Inv, loop # "idle", Tick,
           NEW d \in Nat, Measures(d),
           NEW e, e = IF startUsec = 0 THEN d + 1 ELSE d
    PROVE  Measures(e)'
  <1>1. /\ LAG \in Nat /\ lag \in 0 .. LAG /\ since \in Nat /\ U32 \in Nat
        /\ LONG \in Nat \ {0} /\ usecs \in 0 .. LONG - 1 /\ U32 <= LONG
        /\ startUsec \in Nat /\ micros \in 0 .. LONG - 1 /\ timeout \in Nat
        /\ from \in 0 .. LONG - 1
    BY Numbers, MicrosType DEF Inv, TypeOK
  <1>2. /\ lag < LAG /\ lag' = lag + 1 /\ since' = since + 1
        /\ usecs' = (usecs + 1) % LONG /\ loop' = loop /\ at' = at
        /\ start' = start /\ from' = from /\ startUsec' = startUsec /\ LONG' = LONG
    BY DEF Tick, callVars
  <1>3. since + 1 < U32
    BY <1>1, <1>2, Within
  <1>4. CASE startUsec = 0
    <2>1. from = 0 /\ d = since /\ usecs = since /\ since <= Early + lag
      BY <1>4 DEF Measures
    <2>2. since + 1 <= Early' + lag'
      BY <1>1, <1>2, <2>1 DEF Early
    <2>3. usecs' = since + 1
      <3>1. usecs # LONG - 1
        BY <1>1, <1>3, <2>1
      <3> QED  BY <1>1, <1>2, <2>1, <3>1, Successor
    <2>4. d + 1 <= (IF loop \in {"rise", "begin"} THEN 3 * LAG ELSE 2 * LAG)
      BY <1>1, <1>2, <2>1 DEF Early
    <2>5. start' = from' % U32
      BY <1>2 DEF Measures
    <2> QED  BY <1>1, <1>2, <1>4, <2>1, <2>2, <2>3, <2>4, <2>5 DEF Measures
  <1>5. CASE startUsec # 0
    <2>1. micros' = IF micros = LONG - 1 THEN 0 ELSE micros + 1
      BY <1>2, <1>5, MicrosTicks DEF Inv
    <2>2. micros' \in {from' + since' - d, from' + since' - d - LONG}
      BY <1>1, <1>2, <1>3, <1>5, <2>1 DEF Measures
    <2> QED  BY <1>1, <1>2, <1>5, <2>2 DEF Measures
  <1> QED  BY <1>4, <1>5

-----------------------------------------------------------------------------
(* Every step keeps the types and the timing.                              *)

\* Every step keeps the types.
LEMMA TypeStep == TypeOK /\ [Next]_vars => TypeOK'
  <1> SUFFICES ASSUME TypeOK, [Next]_vars PROVE TypeOK'
    OBVIOUS
  <1>1. /\ LONG \in Nat \ {0} /\ U32 \in Nat \ {0} /\ LAG \in Nat /\ HOLD \in Nat
        /\ usecs \in 0 .. LONG - 1 /\ Origin \in 0 .. LONG - 1
        /\ micros \in 0 .. LONG - 1
    BY Numbers, MicrosType DEF TypeOK
  <1>2. Assign => /\ start' \in 0 .. U32 - 1 /\ since' = 0
                  /\ from' \in 0 .. LONG' - 1
    BY <1>1, Bounded DEF Assign, CallMicros
  <1>3. CallMicros => /\ LONG' = LONG /\ usecs' = usecs
                      /\ startUsec' \in 0 .. LONG' - 1
    BY <1>1 DEF CallMicros
  <1>4. ASSUME NEW t \in Timeouts, Call(t) PROVE TypeOK'
    <2>1. t \in Nat
      BY PulseInAssumption DEF PulseInAssumption
    <2> QED
      BY <1>1, <1>2, <1>3, <1>4, <2>1 DEF Call, Assign, TypeOK, pinVars, Loops
  <1>5. CASE ReadPin
    BY <1>1, <1>5, Afters DEF ReadPin, TypeOK, pinVars, clock, Loops
  <1>6. CASE CheckClock
    <2>1. /\ at' = "pin" /\ lag' = 0 /\ start' = start /\ from' = from
          /\ timeout' = timeout
          /\ level' = level /\ held' = held /\ width' = width /\ since' = since
          /\ loop \in Loops
      BY <1>6 DEF CheckClock, Check, pinVars
    <2>2. loop' \in {"leave", "rise", "begin", "pulse", "return"}
      BY <1>6, Afters DEF CheckClock, Check, Loops
    <2>3. gaveUp' \subseteq Loops
      BY <1>6 DEF CheckClock, Check, TypeOK
    <2>4. LONG' = LONG /\ usecs' = usecs /\ startUsec' \in 0 .. LONG' - 1
      BY <1>3, <1>6 DEF CheckClock, Check
    <2> QED  BY <1>1, <2>1, <2>2, <2>3, <2>4 DEF TypeOK, Loops
  <1>7. CASE Begin
    BY <1>1, <1>2, <1>3, <1>7 DEF Begin, Assign, TypeOK, pinVars, Loops
  <1>8. CASE Return
    BY <1>1, <1>3, <1>8 DEF Return, Leave, TypeOK, pinVars, Loops
  <1>9. CASE Throw
    BY <1>1, <1>9 DEF Throw, Leave, TypeOK, pinVars, clock, Loops
  <1>10. CASE Tick
    <2>1. usecs' \in 0 .. LONG - 1
      BY <1>1, <1>10, Bounded DEF Tick
    <2>2. held' \in Nat /\ (~level => held' <= HOLD)
      BY <1>1, <1>10 DEF Tick, TypeOK
    <2>3. since' \in Nat /\ lag' \in 0 .. LAG
      BY <1>1, <1>10 DEF Tick, TypeOK
    <2> QED  BY <1>1, <1>10, <2>1, <2>2, <2>3 DEF Tick, TypeOK, callVars, Loops
  <1>11. CASE LevelChanges
    BY <1>1, <1>11 DEF LevelChanges, TypeOK, clock, callVars
  <1>12. CASE UNCHANGED vars
    BY <1>12 DEF vars, clock, callVars, pinVars, TypeOK
  <1> QED
    BY <1>4, <1>5, <1>6, <1>7, <1>8, <1>9, <1>10, <1>11, <1>12 DEF Next

\* No step makes a call longer than it may be: what is left of the loop ends at
\* the next look at the clock.
LEMMA TimeStep == Inv /\ [Next]_vars /\ loop' # "idle" => InTime'
  <1> SUFFICES ASSUME Inv, [Next]_vars, loop' # "idle" PROVE InTime'
    OBVIOUS
  <1>1. /\ LAG \in Nat /\ lag \in 0 .. LAG /\ timeout \in Nat /\ since \in Nat
    BY Numbers DEF Inv, TypeOK
  <1>2. loop # "idle" => lag <= since /\ since <= timeout + Late + lag
    BY DEF Inv, Calling, InTime
  <1>3. ASSUME NEW t \in Timeouts, Call(t) PROVE InTime'
    <2>1. t \in Nat
      BY PulseInAssumption DEF PulseInAssumption
    <2>2. at = "pin"
      BY <1>3 DEF Call, Inv, TypeOK, Loops
    <2> QED  BY <1>1, <1>3, <2>1, <2>2 DEF Call, Assign, InTime, Late
  <1>4. CASE ReadPin
    BY <1>1, <1>2, <1>4, Turns DEF ReadPin, Turn, InTime, Late, Loops
  <1>5. CASE CheckClock /\ Elapsed >= timeout
    <2>1. Turn
      BY <1>5, Turns
    <2>2. at = "clock" /\ loop' # loop
      BY <1>5, Afters DEF CheckClock, Check, Loops
    <2> QED  BY <1>1, <1>2, <2>1, <2>2 DEF Turn, InTime, Late, Loops
  <1>6. CASE CheckClock /\ ~(Elapsed >= timeout)
    <2>1. PICK d \in Nat : Measures(d)
      BY <1>6 DEF CheckClock, Check, Loops, Inv, Calling
    <2>2. Elapsed \in Nat /\ Elapsed >= since - d
      BY <1>6, <2>1, ElapsedIs DEF CheckClock, Check, Loops
    <2>3. d <= (IF loop = "rise" THEN 3 * LAG ELSE 2 * LAG)
      BY <1>6, <2>1 DEF Measures, CheckClock, Check, Loops
    <2>4. Turn
      BY <1>6, Turns
    <2>5. loop' = loop /\ at' = "pin" /\ loop \in Loops
      BY <1>6 DEF CheckClock, Check
    <2> QED
      BY <1>1, <1>6, <2>2, <2>3, <2>4, <2>5 DEF Turn, InTime, Late, Loops
  <1>7. CASE Begin
    <2>1. at = "pin"
      BY <1>7 DEF Begin, Inv, TypeOK, Loops
    <2> QED  BY <1>1, <1>7, <2>1 DEF Begin, Assign, InTime, Late
  <1>8. CASE Tick
    BY <1>1, <1>2, <1>8 DEF Tick, InTime, Late, callVars
  <1>9. CASE LevelChanges \/ UNCHANGED vars
    BY <1>1, <1>2, <1>9 DEF LevelChanges, InTime, Late, vars, callVars
  <1> QED
    BY <1>3, <1>4, <1>5, <1>6, <1>7, <1>8, <1>9 DEF Next, Return, Throw, CheckClock

-----------------------------------------------------------------------------
(* Every step keeps what is known of the pin.                              *)

\* The numbers these lemmas are about.
Times ==
    /\ LAG \in Nat /\ HOLD \in Nat /\ HOLD > 2 * LAG
    /\ since \in Nat /\ lag \in 0 .. LAG /\ held \in Nat /\ width \in Nat

\* They are numbers.
LEMMA Bounds == TypeOK => Times
  BY Numbers DEF TypeOK, Times

\* The first and the second loop read the pin.
LEMMA ReadBefore ==
    ASSUME Inv, ReadPin, loop \in {"leave", "rise"}, NEW l \in {0, LAG}, Pin(l)
    PROVE  Pin(l)'
  <1>1. Times /\ Turn
    BY Turns, Bounds DEF Inv
  <1>2. /\ at = "pin" /\ gaveUp' = gaveUp /\ "rise" \notin gaveUp
        /\ loop = "rise" /\ gaveUp = {} => Rose(LAG + lag)
    BY DEF ReadPin, Pin, AwaitsPulse, Unread
  <1>3. /\ \/ loop' \in {"leave", "rise"}
           \/ loop = "rise" /\ loop' = "begin" /\ level
        /\ loop' = "rise" => ~level
    <2>1. CASE loop = "leave"
      BY <2>1, Afters DEF ReadPin, Waits
    <2>2. CASE loop = "rise"
      BY <2>2, Afters DEF ReadPin, Waits
    <2> QED  BY <2>1, <2>2
  <1>4. AwaitsPulse'
    BY <1>1, <1>3 DEF Times, AwaitsPulse, Rose, Turn
  <1>5. SawPulse'
    BY <1>1, <1>2, <1>3 DEF Times, SawPulse, Rose, Turn
  <1> QED
    BY <1>2, <1>3, <1>4, <1>5
       DEF Pin, MayMissPulse, InPulse, InPulseLate, AfterPulse

\* The third loop reads the pin.
LEMMA ReadDuring ==
    ASSUME Inv, ReadPin, loop = "pulse", NEW l \in {0, LAG}, Pin(l)
    PROVE  Pin(l)'
  <1>1. /\ Times /\ Turn
        /\ at = "pin" /\ gaveUp' = gaveUp
    BY Turns, Bounds DEF Inv, ReadPin
  <1>2. /\ gaveUp = {} => Pulses(3 * l, 0)
        /\ gaveUp = {"rise"} => \/ since <= lag /\ (level => since - held >= -(2 * l))
                                \/ Pulses(2 * l, LAG)
    BY DEF Pin, InPulse, InPulseLate
  <1>3. CASE level
    <2>1. at' = "clock" /\ loop' = "pulse"
      BY <1>3 DEF ReadPin, Waits
    <2>2. InPulse(l)'
      BY <1>1, <1>2, <1>3, <2>1 DEF Times, InPulse, Pulses, Turn
    <2>3. InPulseLate(l)'
      BY <1>1, <1>2, <1>3, <2>1 DEF Times, InPulseLate, Pulses, Turn
    <2> QED
      BY <2>1, <2>2, <2>3 DEF Pin, AwaitsPulse, SawPulse, MayMissPulse, AfterPulse
  <1>4. CASE ~level
    <2>1. loop' = "return" /\ ~level'
      BY <1>1, <1>4, Afters DEF ReadPin, Waits, Turn
    <2>2. AfterPulse(l)'
      BY <1>1, <1>2, <1>4, <2>1 DEF Times, AfterPulse, Pulses, Unread, Turn
    <2> QED
      BY <2>1, <2>2
         DEF Pin, AwaitsPulse, SawPulse, MayMissPulse, InPulse, InPulseLate
  <1> QED  BY <1>3, <1>4

\* A loop looks at the clock.
LEMMA ClockLooks ==
    ASSUME Inv, CheckClock, NEW l \in {0, LAG}, Pin(l)
    PROVE  Pin(l)'
  <1>1. /\ Times /\ Turn
        /\ at = "clock" /\ at' = "pin" /\ loop \in Loops
    BY Turns, Bounds DEF Inv, CheckClock, Check
  <1>2. CASE loop' = loop
    <2>1. gaveUp' = gaveUp
      BY <1>1, <1>2, Afters DEF CheckClock, Check, Loops
    <2>2. AwaitsPulse'
      BY <1>1, <1>2, <2>1 DEF Times, Pin, AwaitsPulse, Rose, Unread, Turn
    <2>3. InPulse(l)'
      BY <1>1, <1>2, <2>1 DEF Times, Pin, InPulse, Pulses, Unread, Turn
    <2>4. InPulseLate(l)'
      BY <1>1, <1>2, <2>1 DEF Times, Pin, InPulseLate, Pulses, Unread, Turn
    <2> QED
      BY <1>1, <1>2, <2>1, <2>2, <2>3, <2>4
         DEF Pin, SawPulse, MayMissPulse, AfterPulse, Loops
  <1>3. CASE loop' # loop
    <2>1. gaveUp' = gaveUp \cup {loop} /\ loop' = After(loop)
      BY <1>1, <1>3 DEF CheckClock, Check
    <2>2. CASE loop = "leave"
      BY <2>1, <2>2, Afters DEF Pin, AwaitsPulse, SawPulse, MayMissPulse, InPulse,
                                InPulseLate, AfterPulse
    <2>3. CASE loop = "rise"
      <3>1. loop' = "begin" /\ gaveUp' # {} /\ (gaveUp' = {"rise"} => gaveUp = {})
        BY <2>1, <2>3, Afters DEF Pin
      <3>2. MayMissPulse'
        BY <1>1, <2>3, <3>1 DEF Times, Pin, AwaitsPulse, MayMissPulse, Rose, Unread, Turn
      <3> QED
        BY <3>1, <3>2 DEF Pin, AwaitsPulse, SawPulse, InPulse, InPulseLate, AfterPulse
    <2>4. CASE loop = "pulse"
      <3>1. loop' = "return" /\ gaveUp' # {} /\ ~(gaveUp' \subseteq {"rise"})
        BY <2>1, <2>4, Afters
      <3> QED
        BY <3>1 DEF Pin, AwaitsPulse, SawPulse, MayMissPulse, InPulse, InPulseLate,
                    AfterPulse
    <2> QED  BY <1>1, <2>2, <2>3, <2>4 DEF Loops
  <1> QED  BY <1>2, <1>3

\* start is assigned again.
LEMMA BeginsPulse ==
    ASSUME Inv, Begin, NEW l \in {0, LAG}, l = LAG \/ since = 0,
           NEW k \in {0, LAG}, Pin(k)
    PROVE  Pin(l)'
  <1>1. /\ Times
        /\ at' = "pin" /\ loop' = "pulse" /\ since' = 0 /\ lag' = 0 /\ gaveUp' = gaveUp
        /\ held' = held /\ width' = width /\ level' = level
    BY Bounds DEF Inv, TypeOK, Begin, Assign, pinVars, Loops
  <1>2. /\ loop = "begin"
        /\ SawPulse /\ MayMissPulse
    BY DEF Begin, Pin
  <1>3. InPulse(l)'
    BY <1>1, <1>2 DEF Times, SawPulse, InPulse, Pulses, Rose, Unread
  <1>4. InPulseLate(l)'
    BY <1>1, <1>2 DEF Times, MayMissPulse, InPulseLate, Rose
  <1> QED
    BY <1>1, <1>3, <1>4 DEF Pin, AwaitsPulse, SawPulse, MayMissPulse, AfterPulse

\* Time passes.
LEMMA TimePasses ==
    ASSUME Inv, loop # "idle", Tick, NEW l \in {0, LAG}, Pin(l)
    PROVE  Pin(l)'
  <1>1. /\ Times
        /\ since' = since + 1 /\ lag' = lag + 1 /\ lag < LAG
        /\ loop' = loop /\ at' = at /\ gaveUp' = gaveUp
        /\ level' = level /\ width' = width
    BY Bounds DEF Inv, Tick, callVars
  <1>2. \/ held' = held + 1
        \/ held' = held /\ held = HOLD /\ ~level
    BY Zenon DEF Tick
  <1>3. AwaitsPulse'
    BY <1>1, <1>2 DEF Times, Pin, AwaitsPulse, Rose, Unread
  <1>4. SawPulse'
    BY <1>1, <1>2 DEF Times, Pin, SawPulse, Rose
  <1>5. MayMissPulse'
    BY <1>1, <1>2 DEF Times, Pin, MayMissPulse, Rose
  <1>6. InPulse(l)'
    BY <1>1, <1>2 DEF Times, Pin, InPulse, Pulses, Unread
  <1>7. InPulseLate(l)'
    BY <1>1, <1>2 DEF Times, Pin, InPulseLate, Pulses, Unread
  <1>8. AfterPulse(l)'
    BY <1>1, <1>2 DEF Times, Pin, AfterPulse
  <1> QED  BY <1>1, <1>3, <1>4, <1>5, <1>6, <1>7, <1>8 DEF Pin

\* The pin changes.  A level that the program has just seen begin or end stays
\* longer than it takes to read the pin again.
LEMMA PinChanges ==
    ASSUME Inv, loop # "idle", LevelChanges, NEW l \in {0, LAG}, Pin(l)
    PROVE  Pin(l)'
  <1>1. /\ Times
        /\ since' = since /\ lag' = lag
        /\ loop' = loop /\ at' = at /\ gaveUp' = gaveUp
        /\ held >= HOLD /\ held' = 0
        /\ level => width' = held
        /\ ~level => width' = width
    BY Bounds DEF Inv, LevelChanges, callVars
  <1>2. level' <=> ~level
    BY DEF LevelChanges
  <1>3. AwaitsPulse'
    BY <1>1, <1>2 DEF Times, AwaitsPulse, Rose, Unread
  <1>4. SawPulse'
    BY <1>1, <1>2 DEF Times, Pin, SawPulse, Rose
  <1>5. MayMissPulse'
    BY <1>1, <1>2 DEF Times, Pin, MayMissPulse, Rose
  <1>6. InPulse(l)'
    BY <1>1, <1>2 DEF Times, Pin, InPulse, Pulses, Unread
  <1>7. InPulseLate(l)'
    BY <1>1, <1>2 DEF Times, Pin, InPulseLate, Pulses, Unread
  <1>8. AfterPulse(l)'
    BY <1>1, <1>2 DEF Times, Pin, AfterPulse
  <1> QED  BY <1>1, <1>3, <1>4, <1>5, <1>6, <1>7, <1>8 DEF Pin

-----------------------------------------------------------------------------
(* The invariant and the theorems.                                         *)

\* No call is under way at first.
LEMMA InvInit == Init => Inv
  <1> SUFFICES ASSUME Init PROVE Inv
    OBVIOUS
  <1>1. /\ LONG \in Nat \ {0} /\ U32 \in Nat \ {0} /\ LAG \in Nat /\ HOLD \in Nat
        /\ startUsec \in 0 .. LONG - 1
    BY PulseInAssumption DEF PulseInAssumption, Init
  <1>2. TypeOK
    BY <1>1 DEF Init, TypeOK, Loops
  <1> QED  BY <1>2 DEF Init, Inv, Calling

\* Every step keeps the invariant: start goes on to measure what it measured, or
\* is assigned again, and the pin is known as well as before.
LEMMA InvStep == Inv /\ [Next]_vars => Inv'
  <1> SUFFICES ASSUME Inv, [Next]_vars, loop' # "idle"
               PROVE  \E d \in Nat, l \in {0, LAG} :
                         /\ Measures(d)' /\ Pin(l)'
                         /\ startUsec' = 0 \/ d # 0 => l = 0
    BY TypeStep, TimeStep DEF Inv, Calling
  <1>1. /\ LAG \in Nat /\ LONG' = LONG
        /\ startUsec' = 0 => startUsec = 0
    <2>1. CallMicros => LONG' = LONG /\ (startUsec' = 0 => startUsec = 0)
      BY MicrosCalled DEF CallMicros
    <2> QED
      BY <2>1, Numbers
         DEF Inv, Next, Call, Assign, ReadPin, CheckClock, Check, Begin, Return, Throw,
             Tick, LevelChanges, vars, clock
  <1>2. ASSUME loop # "idle",
               NEW d \in Nat, NEW l \in {0, LAG},
               Measures(d), Pin(l), startUsec = 0 \/ d # 0 => l = 0
        PROVE  \E e \in Nat, k \in {0, LAG} :
                  /\ Measures(e)' /\ Pin(k)'
                  /\ startUsec' = 0 \/ e # 0 => k = 0
    <2>1. CASE ReadPin
      <3>1. Measures(d)'
        BY <1>2, <2>1, Continues
      <3>2. Pin(l)'
        BY <1>2, <2>1, ReadBefore, ReadDuring DEF ReadPin, Loops
      <3> QED  BY <1>1, <1>2, <3>1, <3>2
    <2>2. CASE CheckClock
      <3>1. Measures(d)' /\ Pin(l)'
        BY <1>2, <2>2, Continues, ClockLooks
      <3> QED  BY <1>1, <1>2, <3>1
    <2>3. CASE Begin
      <3>2. Measures(0)'
        BY <2>3, Assigns DEF Begin
      <3>3. startUsec' = 0 => since = 0
        BY <1>2, <2>3, MicrosCalled DEF Begin, Assign, Measures
      <3>4. CASE startUsec' = 0
        <4>1. Pin(0)'
          BY <1>2, <2>3, <3>3, <3>4, BeginsPulse
        <4> QED  BY <3>2, <4>1
      <3>5. CASE startUsec' # 0
        <4>1. Pin(LAG)'
          BY <1>2, <2>3, BeginsPulse
        <4> QED  BY <3>2, <3>5, <4>1
      <3> QED  BY <3>4, <3>5
    <2>4. CASE Tick
      <3>0. PICK e \in Nat : e = IF startUsec = 0 THEN d + 1 ELSE d
        OBVIOUS
      <3>1. Measures(e)'
        BY <1>2, <2>4, <3>0, Passes
      <3>2. Pin(l)'
        BY <1>2, <2>4, TimePasses
      <3>3. startUsec' = 0 \/ e # 0 => l = 0
        BY <1>1, <1>2, <3>0
      <3> QED  BY <1>1, <3>1, <3>2, <3>3
    <2>5. CASE LevelChanges
      <3>1. Measures(d)'
        BY <1>2, <2>5 DEF LevelChanges, Measures, micros, Origin, Early, clock, callVars
      <3>2. Pin(l)'
        BY <1>2, <2>5, PinChanges
      <3> QED  BY <1>1, <1>2, <3>1, <3>2
    <2>6. CASE UNCHANGED vars
      <3>1. Measures(d)' /\ Pin(l)'
        BY <1>2, <2>6
           DEF vars, clock, callVars, pinVars, Measures, micros, Origin, Early, Pin,
               AwaitsPulse, SawPulse, MayMissPulse, InPulse, InPulseLate, AfterPulse,
               Pulses, Rose, Unread
      <3> QED  BY <1>1, <1>2, <3>1
    <2> QED
      BY <1>2, <2>1, <2>2, <2>3, <2>4, <2>5, <2>6
         DEF Next, Call, Return, Throw
  <1>3. CASE loop # "idle"
    BY <1>2, <1>3 DEF Inv, Calling
  <1>4. CASE loop = "idle"
    <2>1. PICK t \in Timeouts : Call(t)
      BY <1>4
         DEF Next, ReadPin, CheckClock, Check, Begin, Return, Throw, Tick,
             LevelChanges, callVars, vars, Loops
    <2>3. Measures(0)'
      BY <2>1, Assigns DEF Call
    <2>4. Pin(0)'
      BY <2>1 DEF Call, Pin, AwaitsPulse, SawPulse, MayMissPulse, InPulse, InPulseLate,
                  AfterPulse
    <2> QED  BY <2>3, <2>4
  <1> QED  BY <1>3, <1>4

\* The invariant holds always.
LEMMA InvAlways == Spec => []Inv
  BY InvInit, InvStep, PTL DEF Spec

\* Every variable keeps to the values it is declared for; start to those of a
\* uint32_t.
THEOREM TypeCorrect == Spec => []TypeOK
  BY InvAlways, PTL DEF Inv

\* pulseIn returns the length of the pulse modulo 2^32, up to the time of three
\* steps, also when micros wraps between two assignments or during the pulse, and
\* four if the second loop gave up just before the pulse began.  It returns less
\* than 2^32 if and only if start holds what micros returned.
THEOREM Precise == Spec => PulseMeasured
  <1>1. Inv /\ [Next]_vars =>
           [loop = "return" /\ loop' = "idle" =>
              /\ Fits <=> Elapsed < U32
              /\ LET result == Elapsed % U32
                 IN  \/ gaveUp \cap {"leave", "pulse"} # {}
                     \/ gaveUp = {} /\ result - width \in -(3 * LAG) .. 3 * LAG
                     \/ /\ gaveUp = {"rise"}
                        /\ \/ result <= 2 * LAG
                           \/ result - width \in -(2 * LAG) .. 4 * LAG]_vars
    <2> SUFFICES ASSUME Inv, loop = "return"
                 PROVE  /\ Fits <=> Elapsed < U32
                        /\ \/ gaveUp \cap {"leave", "pulse"} # {}
                           \/ gaveUp = {} /\ (Elapsed % U32) - width \in -(3 * LAG) .. 3 * LAG
                           \/ /\ gaveUp = {"rise"}
                              /\ \/ Elapsed % U32 <= 2 * LAG
                                 \/ (Elapsed % U32) - width \in -(2 * LAG) .. 4 * LAG
      OBVIOUS
    <2>1. PICK d \in Nat, l \in {0, LAG} :
             Measures(d) /\ Pin(l) /\ (startUsec = 0 \/ d # 0 => l = 0)
      BY DEF Inv, Calling
    <2>2. /\ Elapsed \in Nat /\ Elapsed % U32 = since - d
          /\ (Fits => Elapsed = since - d) /\ (~Fits => Elapsed >= U32)
      BY <2>1, ElapsedIs
    <2>3. d <= 2 * LAG
      BY <2>1 DEF Measures
    <2>4. Times
      BY Bounds DEF Inv
    <2>5. Fits <=> Elapsed < U32
      <3>1. since < U32 /\ U32 \in Nat
        BY <2>4, Within, Numbers DEF Inv, Times
      <3> QED  BY <2>1, <2>2, <2>4, <3>1 DEF Times
    <2> SUFFICES ASSUME gaveUp \cap {"leave", "pulse"} = {}
                 PROVE  \/ gaveUp = {} /\ since - d - width \in -(3 * LAG) .. 3 * LAG
                        \/ /\ gaveUp = {"rise"}
                           /\ \/ since - d <= 2 * LAG
                              \/ since - d - width \in -(2 * LAG) .. 4 * LAG
      BY <2>2, <2>5
    <2>6. gaveUp = {} \/ gaveUp = {"rise"}
      BY DEF Inv, TypeOK, Loops
    <2>7. CASE gaveUp = {}
      <3>1. since - width >= -(3 * l) /\ since - width <= 2 * LAG + lag
        BY <2>1, <2>7 DEF Pin, AfterPulse
      <3> QED  BY <2>1, <2>3, <2>4, <2>7, <3>1 DEF Times
    <2>8. CASE gaveUp = {"rise"}
      <3>1. \/ since <= LAG + lag
            \/ since - width >= -(2 * l) /\ since - width <= 3 * LAG + lag
        BY <2>1, <2>8 DEF Pin, AfterPulse
      <3> QED  BY <2>1, <2>3, <2>4, <2>8, <3>1 DEF Times
    <2> QED  BY <2>6, <2>7, <2>8
  <1> QED  BY <1>1, InvAlways, PTL DEF Spec, PulseMeasured

\* No loop of pulseIn gives up before the timeout while start holds what micros
\* returned, every loop gives up at once when it does not, and no call goes on
\* for more than seven steps after the timeout.
THEOREM GivesUpInTime == Spec => TimesOut
  <1> DEFINE Ends == loop # "idle" => since <= timeout + 7 * LAG
  <1>0. Inv => Ends
    BY Within
  <1>1. Inv /\ Inv' /\ [Next]_vars =>
           [/\ at = "clock" /\ at' = "pin" =>
                  IF Fits THEN loop' # loop => since >= timeout ELSE loop' # loop
            /\ loop' # "idle" => since' <= timeout' + 7 * LAG]_vars
    <2> SUFFICES ASSUME Inv, Inv', Next
                 PROVE  /\ at = "clock" /\ at' = "pin" =>
                              IF Fits THEN loop' # loop => since >= timeout
                                      ELSE loop' # loop
                        /\ Ends'
      OBVIOUS
    <2>1. ASSUME at = "clock", at' = "pin"
          PROVE  IF Fits THEN loop' # loop => since >= timeout ELSE loop' # loop
      <3>1. CheckClock /\ loop # "idle"
        BY <2>1 DEF Inv, TypeOK, Next, Call, ReadPin, CheckClock, Check, Begin, Return,
                    Throw, Leave, Tick, LevelChanges, callVars, Loops
      <3>2. loop' # loop <=> Elapsed >= timeout
        BY <3>1, Afters DEF CheckClock, Check, Loops
      <3>3. PICK d \in Nat : Measures(d)
        BY <3>1 DEF Inv, Calling
      <3>4. /\ Elapsed \in Nat
            /\ (Fits => Elapsed = since - d) /\ (~Fits => Elapsed >= U32)
        BY <3>1, <3>3, ElapsedIs
      <3>5. since \in Nat /\ timeout \in Nat /\ U32 \in Nat /\ timeout < U32
        BY <3>1, Numbers DEF Inv, TypeOK
      <3>6. CASE Fits
        BY <3>2, <3>3, <3>4, <3>5, <3>6
      <3>7. CASE ~Fits
        <4>1. Elapsed >= timeout
          BY <3>4, <3>5, <3>7
        <4> QED  BY <3>2, <3>7, <4>1
      <3> QED  BY <3>6, <3>7
    <2>2. Ends'
      BY <1>0, PTL
    <2> QED  BY <2>1, <2>2
  <1>2. Spec => []Inv
    BY InvAlways
  <1> QED  BY <1>1, <1>2, PTL DEF Spec, TimesOut

=============================================================================
