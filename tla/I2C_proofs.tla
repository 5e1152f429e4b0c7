----------------------------- MODULE I2C_proofs ------------------------------
(***************************************************************************)
(* Proofs about I2C, for buffers of any size and any number of objects.    *)
(***************************************************************************)
EXTENDS I2C, TLAPS

-----------------------------------------------------------------------------
(* Types.                                                                  *)

LEMMA TypeStep == TypeOK /\ [Next]_vars => TypeOK'
  <1> SUFFICES ASSUME TypeOK, [Next]_vars PROVE TypeOK'
    OBVIOUS
  <1> USE I2CAssumption DEF I2CAssumption, TypeOK, fileVars, txVars, rxVars
  <1>1. ASSUME NEW o \in Objects, Begin(o) PROVE TypeOK'
    BY <1>1 DEF Begin
  <1>2. ASSUME NEW o \in Objects, End(o) PROVE TypeOK'
    BY <1>2 DEF End
  <1>3. CASE BeginTransmission
    BY <1>3 DEF BeginTransmission
  <1>4. ASSUME NEW n \in 1 .. SIZE, Write(n) PROVE TypeOK'
    <2> DEFINE k == IF n <= SIZE - requestedBytes THEN n ELSE SIZE - requestedBytes
    <2>1. k \in 0 .. SIZE /\ requestedBytes + k \in 0 .. SIZE
      OBVIOUS
    <2>2. /\ queued + k <= MaxQueued
          /\ TXbuf' = [i \in Places |->
                          IF i \in requestedBytes .. requestedBytes + k - 1
                          THEN queued + 1 + (i - requestedBytes)
                          ELSE TXbuf[i]]
          /\ requestedBytes' = requestedBytes + k
          /\ queued' = queued + k
          /\ UNCHANGED <<fileVars, settled, rxVars>>
      BY <1>4 DEF Write
    <2> HIDE DEF k
    <2>3. TXbuf' \in [Places -> 0 .. MaxQueued]
      BY <2>1, <2>2 DEF Places
    <2> QED
      BY <2>1, <2>2, <2>3
  <1>5. CASE EndTransmission
    BY <1>5 DEF EndTransmission
  <1>6. ASSUME NEW n \in 0 .. SIZE, NEW count \in 0 .. SIZE, Ask(count), Answer(n)
        PROVE  answers' \in 0 .. MaxRequests /\ RXbuf' \in [Places -> Received]
    <2>1. answers' \in 0 .. MaxRequests
      BY <1>6 DEF Answer, Ask
    <2>2. ASSUME NEW i \in Places
          PROVE  (IF i < n THEN [answer |-> requests + 1, place |-> i] ELSE RXbuf[i])
                     \in Received
      <3>1. [answer |-> requests + 1, place |-> i] \in Received
        BY <1>6, <2>2 DEF Ask, Received
      <3>2. RXbuf[i] \in Received
        BY <2>2
      <3> QED
        BY <3>1, <3>2
    <2> QED
      BY <1>6, <2>1, <2>2 DEF Answer
  <1>7. ASSUME NEW o \in Objects, NEW count \in 0 .. SIZE, RequestCombined(o, count)
        PROVE  TypeOK'
    BY <1>6, <1>7 DEF RequestCombined, Ask
  <1>8. ASSUME NEW o \in Objects, NEW count \in 0 .. SIZE, RequestPlain(o, count)
        PROVE  TypeOK'
    <2>1. PICK n \in 0 .. count :
             /\ IF n > 0 THEN i2c_file[o] = "open" /\ Answer(n)
                         ELSE UNCHANGED <<RXbuf, answers>>
             /\ RXlen' = n
             /\ owed' = n
      BY <1>8 DEF RequestPlain
    <2>2. answers' \in 0 .. MaxRequests /\ RXbuf' \in [Places -> Received]
      BY <1>6, <1>8, <2>1 DEF RequestPlain
    <2> QED
      BY <1>8, <2>1, <2>2 DEF RequestPlain, Ask, Places
  <1>9. ASSUME NEW count \in 0 .. SIZE, RequestFailed(count) PROVE TypeOK'
    BY <1>9 DEF RequestFailed, Ask
  <1>10. CASE Read
    <2>1. RXbuf[RXindex] \in Received
      OBVIOUS
    <2>2. RXindex' \in Places /\ RXlen' \in 0 .. SIZE
      BY <1>10 DEF Read, Places
    <2> QED
      BY <1>10, <2>1, <2>2 DEF Read
  <1>11. CASE UNCHANGED vars
    BY <1>11 DEF vars
  <1> HIDE DEF TypeOK, fileVars, txVars, rxVars
  <1> QED
    BY <1>1, <1>2, <1>3, <1>4, <1>5, <1>7, <1>8, <1>9, <1>10, <1>11 DEF Next

LEMMA TypeInit == Init => TypeOK
  <1> SUFFICES ASSUME Init PROVE TypeOK
    OBVIOUS
  <1>1. 0 \in Places /\ 0 \in 0 .. MaxRequests /\ 0 \in 0 .. MaxQueued /\ 0 \in 0 .. SIZE
    BY I2CAssumption DEF I2CAssumption, Places
  <1>2. ASSUME NEW i \in Places PROVE [answer |-> 0, place |-> i] \in Received
    BY <1>1, <1>2 DEF Received
  <1> QED
    BY <1>1, <1>2 DEF Init, TypeOK

\* The counters stay inside the buffers, whatever is written, asked for and read.
THEOREM TypeCorrect == Spec => []TypeOK
  BY TypeInit, TypeStep, PTL DEF Spec

-----------------------------------------------------------------------------
(* The transmit buffer.                                                    *)

LEMMA PendingStep == TypeOK /\ PendingExact /\ [Next]_vars => PendingExact'
  <1> SUFFICES ASSUME TypeOK, PendingExact, [Next]_vars PROVE PendingExact'
    OBVIOUS
  <1> USE I2CAssumption DEF I2CAssumption, TypeOK, PendingExact
  <1>1. CASE UNCHANGED txVars
    BY <1>1 DEF txVars
  <1>2. CASE BeginTransmission \/ EndTransmission
    BY <1>2 DEF BeginTransmission, EndTransmission, Places
  <1>3. ASSUME NEW n \in 1 .. SIZE, Write(n) PROVE PendingExact'
    <2> DEFINE k == IF n <= SIZE - requestedBytes THEN n ELSE SIZE - requestedBytes
    <2>1. k \in 0 .. SIZE /\ requestedBytes + k \in 0 .. SIZE
      OBVIOUS
    <2>2. /\ TXbuf' = [i \in Places |->
                          IF i \in requestedBytes .. requestedBytes + k - 1
                          THEN queued + 1 + (i - requestedBytes)
                          ELSE TXbuf[i]]
          /\ requestedBytes' = requestedBytes + k
          /\ queued' = queued + k
          /\ settled' = settled
      BY <1>3 DEF Write
    <2> HIDE DEF k
    <2>3. requestedBytes' = queued' - settled'
      BY <2>1, <2>2
    <2>4. ASSUME NEW i \in Places, i < requestedBytes'
          PROVE  TXbuf'[i] = settled' + 1 + i
      BY <2>1, <2>2, <2>4 DEF Places
    <2> QED
      BY <2>3, <2>4
  <1> QED
    BY <1>1, <1>2, <1>3
       DEF Next, Begin, End, RequestCombined, RequestPlain, RequestFailed, Read, vars

\* The bytes of the next transfer are exactly the accepted and not yet settled
\* ones, in order.
THEOREM PendingKept == Spec => []PendingExact
  <1>1. Init => PendingExact
    BY I2CAssumption DEF I2CAssumption, Init, PendingExact, Places
  <1> QED
    BY <1>1, PendingStep, TypeCorrect, PTL DEF Spec

-----------------------------------------------------------------------------
(* The receive buffer.                                                     *)

LEMMA AnswerStep == TypeOK /\ OneAnswer /\ [Next]_vars => OneAnswer'
  <1> SUFFICES ASSUME TypeOK, OneAnswer, [Next]_vars PROVE OneAnswer'
    OBVIOUS
  <1> USE I2CAssumption DEF I2CAssumption, TypeOK, OneAnswer
  <1>1. CASE UNCHANGED <<RXbuf, RXlen, answers, owed, requests>>
    BY <1>1
  <1>2. ASSUME NEW n \in 0 .. SIZE, Answer(n), RXlen' = n, requests' = requests + 1
        PROVE  OneAnswer'
    BY <1>2 DEF Answer
  <1>3. ASSUME NEW o \in Objects, NEW count \in 0 .. SIZE, RequestCombined(o, count)
        PROVE  OneAnswer'
    BY <1>2, <1>3 DEF RequestCombined, Ask
  <1>4. ASSUME NEW o \in Objects, NEW count \in 0 .. SIZE, RequestPlain(o, count)
        PROVE  OneAnswer'
    <2>1. PICK n \in 0 .. count :
             /\ IF n > 0 THEN i2c_file[o] = "open" /\ Answer(n)
                         ELSE UNCHANGED <<RXbuf, answers>>
             /\ RXlen' = n
             /\ owed' = n
      BY <1>4 DEF RequestPlain
    <2>2. CASE n > 0
      BY <1>2, <1>4, <2>1, <2>2 DEF RequestPlain, Ask
    <2>3. CASE n = 0
      BY <2>1, <2>3 DEF Places
    <2> QED
      BY <2>2, <2>3
  <1>5. CASE Read
    <2>1. /\ RXbuf' = RXbuf /\ answers' = answers /\ RXlen' \in {0, RXlen}
          /\ requests' = requests /\ (owed' > 0 => owed > 0)
      BY <1>5 DEF Read
    <2> QED
      BY <2>1 DEF Places
  <1>6. ASSUME NEW count \in 0 .. SIZE, RequestFailed(count) PROVE OneAnswer'
    BY <1>6 DEF RequestFailed
  <1> QED
    BY <1>1, <1>3, <1>4, <1>5, <1>6
       DEF Next, Begin, End, BeginTransmission, Write, EndTransmission,
           vars, rxVars

\* The bytes still to be read are of one answer, and of that to the last request
\* unless this returned no more than has been read.
THEOREM AnswerWhole == Spec => []OneAnswer
  <1>1. Init => OneAnswer
    BY I2CAssumption DEF I2CAssumption, Init, OneAnswer, Places
  <1> QED
    BY <1>1, AnswerStep, TypeCorrect, PTL DEF Spec

-----------------------------------------------------------------------------
(* Reading.  While bytes of the last answer are left, those already given  *)
(* stand before the cursor.                                                *)

GivenBefore ==
    /\ answers <= requests
    /\ \A g \in given : /\ g.answer <= answers
                        /\ RXlen > 0 /\ g.answer = answers => g.place < RXindex

LEMMA GivenStep ==
    TypeOK /\ OneAnswer /\ GivenBefore /\ [Next]_vars => GivenBefore'
  <1> SUFFICES ASSUME TypeOK, OneAnswer, GivenBefore, [Next]_vars PROVE GivenBefore'
    OBVIOUS
  <1>1. /\ answers \in Nat /\ requests \in Nat /\ RXindex \in Nat /\ RXlen \in Nat
        /\ RXindex \in Places
        /\ \A g \in given : g.answer \in Nat /\ g.place \in Nat
    <2>1. \A g \in given : g.answer \in 0 .. MaxRequests /\ g.place \in Places
      BY DEF TypeOK, Received
    <2> QED
      BY <2>1, I2CAssumption DEF I2CAssumption, TypeOK, Places
  <1>2. CASE UNCHANGED <<given, RXlen, RXindex, requests, answers>>
    BY <1>2 DEF GivenBefore
  \* The bytes given so far came with earlier answers than the next one.
  <1>3. ASSUME NEW n \in Nat, Answer(n), given' = given, requests' = requests + 1
        PROVE  GivenBefore'
    BY <1>1, <1>3 DEF GivenBefore, Answer
  <1>4. ASSUME NEW o \in Objects, NEW count \in 0 .. SIZE, RequestCombined(o, count)
        PROVE  GivenBefore'
    BY <1>3, <1>4, I2CAssumption DEF RequestCombined, Ask, I2CAssumption
  <1>5. ASSUME NEW o \in Objects, NEW count \in 0 .. SIZE, RequestPlain(o, count)
        PROVE  GivenBefore'
    <2>1. PICK n \in 0 .. count :
             /\ IF n > 0 THEN i2c_file[o] = "open" /\ Answer(n)
                         ELSE UNCHANGED <<RXbuf, answers>>
             /\ RXlen' = n
      BY <1>5 DEF RequestPlain
    <2>2. given' = given /\ requests' = requests + 1
      BY <1>5 DEF RequestPlain, Ask
    <2>3. CASE n > 0
      BY <1>3, <2>1, <2>2, <2>3
    <2>4. CASE ~(n > 0)
      <3>1. RXlen' = 0 /\ answers' = answers
        BY <2>1, <2>4
      <3> QED
        BY <1>1, <2>2, <3>1 DEF GivenBefore
    <2> QED
      BY <2>3, <2>4
  <1>6. CASE Read
    <2>1. RXindex < RXlen
      BY <1>1, <1>6 DEF Read, Unread
    <2>2. RXbuf[RXindex] = [answer |-> answers, place |-> RXindex]
      BY <1>1, <2>1 DEF OneAnswer
    <2>3. /\ given' = given \cup {[answer |-> answers, place |-> RXindex]}
          /\ answers' = answers /\ requests' = requests
      BY <1>6, <2>2 DEF Read
    <2>4. CASE RXlen' = 0
      BY <1>1, <2>3, <2>4 DEF GivenBefore
    <2>5. CASE RXindex' = RXindex + 1 /\ RXlen' = RXlen
      BY <1>1, <2>1, <2>3, <2>5 DEF GivenBefore
    <2> QED
      BY <1>6, <2>4, <2>5 DEF Read
  <1>7. ASSUME NEW count \in 0 .. SIZE, RequestFailed(count) PROVE GivenBefore'
    BY <1>1, <1>7 DEF RequestFailed, Ask, GivenBefore
  <1> QED
    BY <1>2, <1>4, <1>5, <1>6, <1>7
       DEF Next, Begin, End, BeginTransmission, Write, EndTransmission,
           vars, rxVars

THEOREM GivenKept == Spec => []GivenBefore
  <1>1. Init => GivenBefore
    BY DEF Init, GivenBefore
  <1> QED
    BY <1>1, GivenStep, TypeCorrect, AnswerWhole, PTL DEF Spec

\* read never returns a byte of the buffer a second time.
THEOREM ReadOnce == Spec => NoByteTwice
  <1>1. TypeOK /\ OneAnswer /\ GivenBefore
        => [Read => RXbuf[RXindex] \notin given]_vars
    <2> SUFFICES ASSUME TypeOK, OneAnswer, GivenBefore, Read
                 PROVE  RXbuf[RXindex] \notin given
      OBVIOUS
    <2>1. RXindex \in Places /\ RXindex \in Nat /\ RXlen \in Nat
      BY I2CAssumption DEF I2CAssumption, TypeOK, Places
    <2>2. RXindex < RXlen
      BY <2>1 DEF Read, Unread
    <2>3. RXbuf[RXindex] = [answer |-> answers, place |-> RXindex]
      BY <2>1, <2>2 DEF OneAnswer
    <2> QED
      BY <2>1, <2>2, <2>3 DEF GivenBefore
  <1> QED
    BY <1>1, TypeCorrect, AnswerWhole, GivenKept, PTL DEF NoByteTwice

-----------------------------------------------------------------------------
(* What was promised can be read.  The cursor stands inside the answer or  *)
(* at its start: only a request with bytes left unread puts it elsewhere.  *)

Drained == drains => owed = Unread /\ (RXindex = 0 \/ RXindex < RXlen)

LEMMA DrainedStep == TypeOK /\ Drained /\ [Next]_vars => Drained'
  <1> SUFFICES ASSUME TypeOK, Drained, [Next]_vars PROVE Drained'
    OBVIOUS
  <1> USE I2CAssumption DEF I2CAssumption, TypeOK, Drained, Unread, Places
  <1>1. CASE UNCHANGED <<drains, owed, RXlen, RXindex>>
    BY <1>1
  <1>2. ASSUME NEW o \in Objects, NEW count \in 0 .. SIZE, RequestCombined(o, count)
        PROVE  Drained'
    BY <1>2 DEF RequestCombined, Ask, fileVars
  <1>3. ASSUME NEW o \in Objects, NEW count \in 0 .. SIZE, RequestPlain(o, count)
        PROVE  Drained'
    BY <1>3 DEF RequestPlain
  <1>4. ASSUME NEW count \in 0 .. SIZE, RequestFailed(count) PROVE Drained'
    BY <1>4 DEF RequestFailed, Ask, fileVars
  <1>5. CASE Read
    BY <1>5 DEF Read, fileVars
  <1> QED
    BY <1>1, <1>2, <1>3, <1>4, <1>5
       DEF Next, Begin, End, BeginTransmission, Write, EndTransmission,
           vars, fileVars, rxVars

\* A program that reads each answer to its end before the next request can read
\* exactly as many bytes as requestFrom returned.
THEOREM ServedWhenDrained == Spec => []DrainedServed
  <1>1. Init => Drained
    BY DEF Init, Drained, Unread
  <1>2. Drained => DrainedServed
    BY DEF Drained, DrainedServed
  <1> QED
    BY <1>1, <1>2, DrainedStep, TypeCorrect, PTL DEF Spec
=============================================================================
