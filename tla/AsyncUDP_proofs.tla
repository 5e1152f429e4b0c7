--------------------------- MODULE AsyncUDP_proofs ---------------------------
(***************************************************************************)
(* Proofs about AsyncUDP, for any number of tasks, threads, peers and any  *)
(* faults of the network.                                                  *)
(***************************************************************************)
EXTENDS AsyncUDP, TLAPS

-----------------------------------------------------------------------------
(* Sequences as the queues use them.                                       *)

\* Appending (push_back, a datagram that arrives) adds one element, and keeps
\* tasks from occurring twice if that task was not there.
LEMMA AppendFacts ==
    ASSUME NEW S, NEW s \in Seq(S), NEW e \in S
    PROVE  /\ Append(s, e) \in Seq(S)
           /\ Range(Append(s, e)) = Range(s) \cup {e}
           /\ Once(s) /\ (e \in Tasks => e \notin Range(s))
              => Once(Append(s, e))
  <1>1. /\ Append(s, e) \in Seq(S)
        /\ Len(Append(s, e)) = Len(s) + 1
        /\ DOMAIN Append(s, e) = 1 .. Len(s) + 1
        /\ DOMAIN s = 1 .. Len(s)
        /\ Len(s) \in Nat
        /\ \A i \in 1 .. Len(s) : Append(s, e)[i] = s[i]
        /\ Append(s, e)[Len(s) + 1] = e
    OBVIOUS
  <1>2. Range(Append(s, e)) = Range(s) \cup {e}
    BY <1>1 DEF Range
  <1>3. ASSUME Once(s), e \in Tasks => e \notin Range(s)
        PROVE  Once(Append(s, e))
    BY <1>1, <1>3 DEF Once, Range
  <1> QED  BY <1>1, <1>2, <1>3

\* Taking the head (a read, a flushed request) removes that element only.
LEMMA TailFacts ==
    ASSUME NEW S, NEW s \in Seq(S), s # <<>>
    PROVE  /\ Head(s) \in S
           /\ Tail(s) \in Seq(S)
           /\ Head(s) \in Range(s)
           /\ Range(s) = Range(Tail(s)) \cup {Head(s)}
           /\ Once(s) => /\ Once(Tail(s))
                         /\ Head(s) \in Tasks => Head(s) \notin Range(Tail(s))
  <1>1. /\ Tail(s) \in Seq(S)
        /\ Head(s) = s[1]
        /\ Len(s) \in Nat \ {0}
        /\ DOMAIN s = 1 .. Len(s)
        /\ DOMAIN Tail(s) = 1 .. Len(s) - 1
        /\ \A i \in 1 .. Len(s) - 1 : Tail(s)[i] = s[i + 1]
    OBVIOUS
  <1>2. Head(s) \in S /\ Head(s) \in Range(s)
    BY <1>1 DEF Range
  <1>3. Range(s) = Range(Tail(s)) \cup {Head(s)}
    <2>1. ASSUME NEW i \in DOMAIN s
          PROVE  s[i] \in Range(Tail(s)) \cup {Head(s)}
      <3>1. CASE i = 1  BY <3>1, <1>1
      <3>2. CASE i # 1
        <4>1. i - 1 \in DOMAIN Tail(s) /\ Tail(s)[i - 1] = s[i]
          BY <3>2, <1>1
        <4> QED  BY <4>1 DEF Range
      <3> QED  BY <3>1, <3>2
    <2>2. ASSUME NEW i \in DOMAIN Tail(s) PROVE Tail(s)[i] \in Range(s)
      BY <1>1 DEF Range
    <2> QED  BY <2>1, <2>2, <1>2 DEF Range
  <1>4. ASSUME Once(s)
        PROVE  /\ Once(Tail(s))
               /\ Head(s) \in Tasks => Head(s) \notin Range(Tail(s))
    BY <1>1, <1>4 DEF Once, Range
  <1> QED  BY <1>1, <1>2, <1>3, <1>4

\* pop_back removes the last element only.
LEMMA PopBackFacts ==
    ASSUME NEW S, NEW s \in Seq(S), s # <<>>
    PROVE  LET last == s[Len(s)]  rest == SubSeq(s, 1, Len(s) - 1) IN
           /\ last \in S
           /\ rest \in Seq(S)
           /\ last \in Range(s)
           /\ Range(s) = Range(rest) \cup {last}
           /\ Once(s) => /\ Once(rest)
                         /\ last \in Tasks => last \notin Range(rest)
  <1> DEFINE last == s[Len(s)]
             rest == SubSeq(s, 1, Len(s) - 1)
  <1>1. /\ Len(s) \in Nat \ {0}
        /\ DOMAIN s = 1 .. Len(s)
        /\ rest \in Seq(S)
        /\ DOMAIN rest = 1 .. Len(s) - 1
        /\ \A i \in 1 .. Len(s) - 1 : rest[i] = s[i]
    OBVIOUS
  <1>2. last \in S /\ last \in Range(s)
    BY <1>1 DEF Range
  <1> HIDE DEF rest
  <1>3. Range(s) = Range(rest) \cup {last}
    <2>1. ASSUME NEW i \in DOMAIN s PROVE s[i] \in Range(rest) \cup {last}
      <3>1. CASE i = Len(s)  BY <3>1
      <3>2. CASE i # Len(s)
        <4>1. i \in DOMAIN rest /\ rest[i] = s[i]
          BY <3>2, <1>1
        <4> QED  BY <4>1 DEF Range
      <3> QED  BY <3>1, <3>2
    <2>2. ASSUME NEW i \in DOMAIN rest PROVE rest[i] \in Range(s)
      BY <1>1 DEF Range
    <2> QED  BY <2>1, <2>2, <1>2 DEF Range
  <1>4. ASSUME Once(s)
        PROVE  Once(rest) /\ (last \in Tasks => last \notin Range(rest))
    BY <1>1, <1>4 DEF Once, Range
  <1> QED  BY <1>1, <1>2, <1>3, <1>4 DEF rest
-----------------------------------------------------------------------------
(* Type correctness.                                                       *)

\* _attemptWrite, whatever it is entered with, leaves well-typed state.
LEMMA AttemptWriteType ==
    ASSUME TypeOK,
           NEW w \in Tasks \cup {NoTask}, NEW tm \in BOOLEAN,
           NEW f \in [Tasks -> Fates], AttemptWrite(w, tm, f)
    PROVE  /\ sendQueue' \in Seq(Tasks)
           /\ waiting' \in Tasks \cup {NoTask}
           /\ timer' \in BOOLEAN
           /\ fate' \in [Tasks -> Fates]
           /\ emptied' \in BOOLEAN
           /\ txq' \in Seq(Tasks)
           /\ air' \in SUBSET Tasks
           /\ gaveUp' \in BOOLEAN
  <1>1. CASE w # NoTask \/ sendQueue = <<>>
    BY <1>1 DEF AttemptWrite, TypeOK
  <1>2. CASE w = NoTask /\ sendQueue # <<>>
    <2> DEFINE t == sendQueue[Len(sendQueue)]
    <2>1. /\ t \in Tasks
          /\ SubSeq(sendQueue, 1, Len(sendQueue) - 1) \in Seq(Tasks)
      BY <1>2, PopBackFacts DEF TypeOK
    <2>2. /\ gaveUp' = FALSE
          /\ sendQueue' = SubSeq(sendQueue, 1, Len(sendQueue) - 1)
          /\ DoWrite(t)
          /\ waiting' = t
          /\ fate' = [f EXCEPT ![t] = "parked"]
          /\ emptied' = FALSE
          /\ timer' = TRUE
      BY <1>2 DEF AttemptWrite
    <2> HIDE DEF t
    <2>3. txq' \in Seq(Tasks) /\ air' \in SUBSET Tasks
      <3>1. txq' = txq \/ txq' = Append(txq, t)
        BY <2>2 DEF DoWrite
      <3>2. air' = air \/ air' = air \cup {t}
        BY <2>2 DEF DoWrite
      <3>3. txq \in Seq(Tasks) /\ air \in SUBSET Tasks
        BY DEF TypeOK
      <3>4. t \in Tasks
        BY <2>1
      <3>5. txq' \in Seq(Tasks)
        BY <3>1, <3>3, <3>4, AppendFacts
      <3>6. air' \in SUBSET Tasks
        BY <3>2, <3>3, <3>4
      <3> QED  BY <3>5, <3>6
    <2>4. fate' \in [Tasks -> Fates]
      BY <2>1, <2>2 DEF Fates
    <2> QED  BY <2>1, <2>2, <2>3, <2>4
  <1> QED  BY <1>1, <1>2

\* Every call, callback and arrival keeps the types.
LEMMA TypeStep == TypeOK /\ [Next]_vars => TypeOK'
  <1> SUFFICES ASSUME TypeOK, [Next]_vars PROVE TypeOK'
    OBVIOUS
  <1> USE DEF TypeOK
  <1>1. CASE UNCHANGED vars
    BY <1>1 DEF vars, apiVars, sendVars, ioVars
  <1>2. ASSUME NEW th \in Threads, NEW t \in Tasks, NEW p \in Payloads,
               WritePush(th, t, p)
        PROVE  TypeOK'
    BY <1>2 DEF WritePush, apiVars, ioVars, Fates, Datagrams
  <1>3. ASSUME NEW th \in Threads, WriteSignal(th) PROVE TypeOK'
    BY <1>3 DEF WriteSignal, apiVars, sendVars, ioVars
  <1>4. ASSUME NEW th \in Threads, NEW h \in Handlers, OnPacket(th, h)
        PROVE  TypeOK'
    BY <1>4 DEF OnPacket, sendVars, ioVars
  <1>6. CASE ListenStart \/ ListenReturn
    <2>2. CASE ListenStart
      BY <2>2 DEF ListenStart, sendVars
    <2>3. CASE ListenReturn
      BY <2>3 DEF ListenReturn, sendVars, ioVars
    <2> QED  BY <1>6, <2>2, <2>3
  <1>7. CASE DestroyQuit \/ DestroySignal \/ DestroyJoin
    <2>1. CASE DestroyQuit
      BY <2>1 DEF DestroyQuit, sendVars, ioVars
    <2>2. CASE DestroySignal
      BY <2>2 DEF DestroySignal, sendVars, ioVars
    <2>3. CASE DestroyJoin
      BY <2>3 DEF DestroyJoin, sendVars, ioVars
    <2> QED  BY <1>7, <2>1, <2>2, <2>3
  <1>8. CASE AsyncCb
    <2>1. AttemptWrite(waiting, timer, fate)
      BY <1>8 DEF AsyncCb
    <2> QED  BY <1>8, <2>1, AttemptWriteType DEF AsyncCb, apiVars
  <1>9. CASE TimerCb
    BY <1>9 DEF TimerCb, apiVars, ioVars, Fates, Released
  <1>10. CASE ReadStart
    BY <1>10, AsyncUDPAssumption DEF AsyncUDPAssumption, ReadStart, apiVars, sendVars
  <1>11. ASSUME NEW d \in Datagrams, Receive(d)
         PROVE  rcvbuf' \in Seq(Datagrams) /\ budget' \in 0 .. ReadBatch
    BY <1>11, TailFacts, AsyncUDPAssumption DEF AsyncUDPAssumption, Receive
  <1>12. ASSUME NEW d \in Datagrams, ReadZeroLength(d) PROVE TypeOK'
    BY <1>11, <1>12 DEF ReadZeroLength, apiVars, sendVars
  <1>13. ASSUME NEW d \in Datagrams, ReadLooped(d) PROVE TypeOK'
    <2> DEFINE f == [fate EXCEPT ![waiting] = IF d = waiting THEN "echo"
                                                             ELSE "twin"]
    <2>1. f \in [Tasks -> Fates]
      BY DEF Fates, Released
    <2>2. AttemptWrite(NoTask, FALSE, f)
      BY <1>13 DEF ReadLooped
    <2> HIDE DEF f
    <2>3. /\ sendQueue' \in Seq(Tasks)
          /\ waiting' \in Tasks \cup {NoTask}
          /\ timer' \in BOOLEAN
          /\ fate' \in [Tasks -> Fates]
          /\ emptied' \in BOOLEAN
          /\ txq' \in Seq(Tasks)
          /\ air' \in SUBSET Tasks
          /\ gaveUp' \in BOOLEAN
      BY <2>1, <2>2, AttemptWriteType
    <2>4. rcvbuf' \in Seq(Datagrams) /\ budget' \in 0 .. ReadBatch
      BY <1>11, <1>13 DEF ReadLooped
    <2> QED  BY <1>13, <2>3, <2>4 DEF ReadLooped, apiVars
  <1>14. ASSUME NEW d \in Datagrams, ReadDeliver(d) PROVE TypeOK'
    BY <1>11, <1>14 DEF ReadDeliver, apiVars, sendVars
  <1>15. CASE HandlerReturn \/ ReadExhausted \/ ReadYield
    <2>1. CASE HandlerReturn
      BY <2>1 DEF HandlerReturn, apiVars, sendVars
    <2>2. CASE ReadExhausted
      BY <2>2 DEF ReadExhausted, apiVars, sendVars
    <2>3. CASE ReadYield
      BY <2>3 DEF ReadYield, apiVars, sendVars
    <2> QED  BY <1>15, <2>1, <2>2, <2>3
  <1>16. CASE Flush
    <2>1. Head(txq) \in Tasks /\ Tail(txq) \in Seq(Tasks)
      BY <1>16, TailFacts DEF Flush
    <2>2. data' \in [Datagrams -> Payloads \cup {NoData}]
      BY <1>16, <2>1 DEF Flush
    <2>3. air' \in SUBSET Tasks /\ txq' \in Seq(Tasks)
      BY <1>16, <2>1 DEF Flush
    <2> QED  BY <1>16, <2>2, <2>3 DEF Flush, apiVars, ioVars
  <1>17. ASSUME NEW d \in Datagrams, Enqueue(d) PROVE rcvbuf' \in Seq(Datagrams)
    BY <1>17 DEF Enqueue
  <1>18. ASSUME NEW t \in Tasks, LoopBack(t) PROVE TypeOK'
    BY <1>17, <1>18 DEF LoopBack, apiVars, sendVars, ioVars, Datagrams
  <1>19. ASSUME NEW d \in PeerPackets, NEW p \in Payloads, PeerArrives(d, p)
         PROVE  TypeOK'
    BY <1>17, <1>19 DEF PeerArrives, apiVars, sendVars, ioVars, Datagrams
  <1> QED
    BY <1>1, <1>2, <1>3, <1>4, <1>6, <1>7, <1>8, <1>9, <1>10, <1>12,
       <1>13, <1>14, <1>15, <1>16, <1>18, <1>19 DEF Next, Api, Read, Network

\* The initial state has the types.
LEMMA TypeInit == Init => TypeOK
  <1> SUFFICES ASSUME Init PROVE TypeOK
    OBVIOUS
  <1>1. /\ sendQueue \in Seq(Tasks)
        /\ txq \in Seq(Tasks)
        /\ rcvbuf \in Seq(Datagrams)
        /\ fate \in [Tasks -> Fates]
        /\ call \in [Threads -> {"idle", "pushed"}]
        /\ data \in [Datagrams -> Payloads \cup {NoData}]
    BY DEF Init, Fates
  <1>2. budget \in 0 .. ReadBatch
    BY AsyncUDPAssumption DEF AsyncUDPAssumption, Init
  <1> QED  BY <1>1, <1>2 DEF Init, TypeOK

\* Every variable keeps its type, for all values of the constants.
THEOREM TypeCorrect == Spec => []TypeOK
  BY TypeInit, TypeStep, PTL DEF Spec
-----------------------------------------------------------------------------
(* The inductive invariant.                                                *)

\* Bookkeeping of the send queue q, the parked task w and the fates f.
Accounted(q, w, f) ==
    /\ Once(q)
    /\ \A t \in Tasks : /\ f[t] = "queued" <=> t \in Range(q)
                        /\ f[t] = "parked" <=> t = w

\* Own datagrams held by libuv (tx), in the air (ar) and in the receive buffer
\* (whose contents are the set R).
Copies(tx, ar, R, f) ==
    /\ Once(tx)
    /\ \A t \in Tasks :
          /\ t \in ar => t \notin Range(tx) \cup R
          /\ t \in Range(tx) => t \notin R
          /\ t \in ar \cup Range(tx) \cup R
                => f[t] \in {"parked", "twin", "givenUp"}

\* How the life of the object, the I/O thread and the calls go together.
Lifecycle ==
    /\ life = "new" => io = "off"
    /\ quit <=> life \in {"quitting", "joining", "destroyed", "terminated"}
    /\ io = "stopped" => quit
    /\ life = "destroyed" => io = "stopped"
    /\ \A th \in AppThreads : call[th] = "pushed" => ~quit
    /\ call[IoThread] = "pushed" => io = "handler"

\* The parts of the invariant hold only together: an echo is excused because a
\* copy under way belongs to a task that is parked or released otherwise, that
\* needs every copy to exist once, and that needs a task to be queued once.
Inv ==
    /\ TypeOK
    /\ TaskAccounting
    /\ WatchdogArmed
    /\ NoLostWakeup
    /\ CopiesAccounted
    /\ EchoExcused
    /\ Lifecycle

\* What _attemptWrite keeps, entered with bookkeeping in order and R left in
\* the receive buffer.
LEMMA AttemptWriteFacts ==
    ASSUME TypeOK,
           NEW w \in Tasks \cup {NoTask}, NEW tm \in BOOLEAN,
           NEW f \in [Tasks -> Fates], NEW R,
           Accounted(sendQueue, w, f), Copies(txq, air, R, f),
           tm <=> w # NoTask,
           AttemptWrite(w, tm, f)
    PROVE  /\ Accounted(sendQueue', waiting', fate')
           /\ Copies(txq', air', R, fate')
           /\ timer' <=> waiting' # NoTask
           /\ waiting' = NoTask => sendQueue' = <<>>
           /\ \A t \in Tasks : f[t] \in Released => fate'[t] = f[t]
  <1>1. CASE w # NoTask \/ sendQueue = <<>>
    <2>1. /\ waiting' = w
          /\ timer' = tm
          /\ fate' = f
          /\ UNCHANGED <<sendQueue, txq, air>>
      BY <1>1, AsyncUDPAssumption DEF AttemptWrite
    <2> QED  BY <1>1, <2>1
  <1>2. CASE w = NoTask /\ sendQueue # <<>>
    <2> DEFINE t == sendQueue[Len(sendQueue)]
               rest == SubSeq(sendQueue, 1, Len(sendQueue) - 1)
    <2>1. /\ sendQueue' = rest
          /\ DoWrite(t)
          /\ waiting' = t
          /\ fate' = [f EXCEPT ![t] = "parked"]
          /\ timer' = TRUE
      BY <1>2 DEF AttemptWrite
    <2>2. sendQueue \in Seq(Tasks) /\ txq \in Seq(Tasks)
      BY DEF TypeOK
    <2>3. /\ t \in Tasks
          /\ t \in Range(sendQueue)
          /\ Range(sendQueue) = Range(rest) \cup {t}
          /\ Once(rest)
          /\ t \notin Range(rest)
      BY <1>2, <2>2, PopBackFacts DEF Accounted
    <2> HIDE DEF t, rest
    <2>4. f[t] = "queued"
      BY <2>3 DEF Accounted
    <2>5. /\ fate' \in [Tasks -> Fates]
          /\ fate'[t] = "parked"
          /\ \A u \in Tasks : u # t => fate'[u] = f[u]
      BY <2>1, <2>3 DEF Fates
    <2>6. t # NoTask
      BY <2>3, AsyncUDPAssumption DEF AsyncUDPAssumption
    <2>7. \A u \in Tasks : f[u] # "parked"
      BY <1>2, AsyncUDPAssumption DEF Accounted, AsyncUDPAssumption
    <2>8. Accounted(sendQueue', waiting', fate')
      BY <2>1, <2>3, <2>5, <2>7 DEF Accounted
    <2>9. t \notin air \cup Range(txq) \cup R
      BY <2>3, <2>4 DEF Copies
    <2>10. \/ txq' = Append(txq, t) /\ air' = air
           \/ txq' = txq /\ air' = air \cup {t}
           \/ txq' = txq /\ air' = air
      BY <2>1 DEF DoWrite
    <2>11. /\ Range(Append(txq, t)) = Range(txq) \cup {t}
           /\ Once(Append(txq, t))
      BY <2>2, <2>3, <2>9, AppendFacts DEF Copies
    <2>12. Copies(txq', air', R, fate')
      BY <2>3, <2>5, <2>9, <2>10, <2>11 DEF Copies
    <2>13. \A u \in Tasks : f[u] \in Released => fate'[u] = f[u]
      BY <2>4, <2>5 DEF Released
    <2> QED  BY <2>1, <2>6, <2>8, <2>12, <2>13
  <1> QED  BY <1>1, <1>2

\* The bookkeeping predicates are the invariants of the specification.
LEMMA Bookkeeping ==
    /\ TaskAccounting <=> Accounted(sendQueue, waiting, fate)
    /\ CopiesAccounted <=> /\ Once(rcvbuf)
                           /\ Copies(txq, air, Range(rcvbuf), fate)
  BY DEF TaskAccounting, Accounted, CopiesAccounted, Copies, OnItsWay

\* A step that leaves the queue, the parked task and the datagrams alone has
\* only NoLostWakeup to answer for.
LEMMA QuietStep ==
    ASSUME Inv, TypeOK', NoLostWakeup',
           Lifecycle',
           UNCHANGED <<sendQueue, waiting, timer, txq, air, rcvbuf, fate,
                       echoes>>
    PROVE  Inv'
  BY DEF Inv, TaskAccounting, WatchdogArmed, CopiesAccounted, EchoExcused,
         OnItsWay, Once

\* Every step keeps the order of start, quit, stop and join.
LEMMA LifecycleStep == TypeOK /\ Lifecycle /\ [Next]_vars => Lifecycle'
  <1> SUFFICES ASSUME TypeOK, Lifecycle, [Next]_vars PROVE Lifecycle'
    OBVIOUS
  <1>0. /\ AppThreads \subseteq Threads
        /\ IoThread \in Threads
        /\ IoThread \notin AppThreads
        /\ call \in [Threads -> {"idle", "pushed"}]
    BY AsyncUDPAssumption DEF AsyncUDPAssumption, Threads, TypeOK
  <1> USE DEF Lifecycle
  <1>1. CASE UNCHANGED vars
    BY <1>1 DEF vars, apiVars, ioVars
  <1>2. ASSUME NEW th \in Threads, NEW t \in Tasks, NEW p \in Payloads,
               WritePush(th, t, p)
        PROVE  Lifecycle'
    <2>1. /\ call' = [call EXCEPT ![th] = "pushed"]
          /\ UNCHANGED <<life, quit, io>>
      BY <1>2 DEF WritePush, apiVars, ioVars
    <2>2. CASE th \in AppThreads /\ life \in {"new", "starting", "up"}
      BY <1>0, <2>1, <2>2
    <2>3. CASE th = IoThread /\ io = "handler"
      BY <1>0, <2>1, <2>3
    <2> QED  BY <1>2, <2>2, <2>3 DEF WritePush, MayCall
  <1>3. ASSUME NEW th \in Threads, WriteSignal(th) PROVE Lifecycle'
    BY <1>0, <1>3 DEF WriteSignal, apiVars, ioVars
  <1>4. ASSUME NEW th \in Threads, NEW h \in Handlers, OnPacket(th, h)
        PROVE  Lifecycle'
    BY <1>4 DEF OnPacket, ioVars
  <1>7. CASE ListenStart
    BY <1>7 DEF ListenStart
  <1>8. CASE ListenReturn
    BY <1>8 DEF ListenReturn, ioVars
  <1>9. CASE DestroyQuit
    BY <1>0, <1>9 DEF DestroyQuit, ioVars
  <1>10. CASE DestroySignal
    BY <1>10 DEF DestroySignal, ioVars
  <1>11. CASE DestroyJoin
    BY <1>11 DEF DestroyJoin, ioVars
  <1>12. CASE AsyncCb
    BY <1>12 DEF AsyncCb, apiVars
  <1>13. CASE TimerCb
    BY <1>13 DEF TimerCb, apiVars, ioVars
  <1>14. ASSUME NEW d \in Datagrams,
                ReadZeroLength(d) \/ ReadLooped(d) \/ ReadDeliver(d)
         PROVE  Lifecycle'
    <2>1. UNCHANGED <<life, quit, call>> /\ io = "read" /\ io' # "stopped"
      BY <1>14 DEF ReadZeroLength, ReadLooped, ReadDeliver, Receive, apiVars
    <2> QED  BY <2>1
  <1>15. CASE ReadStart \/ HandlerReturn \/ ReadExhausted \/ ReadYield
    <2>1. UNCHANGED <<life, quit, call>> /\ io' # "stopped"
          /\ (io = "handler" => call[IoThread] = "idle") /\ io # "off"
          /\ io # "stopped"
      BY <1>15 DEF ReadStart, HandlerReturn, ReadExhausted, ReadYield, apiVars
    <2> QED  BY <2>1
  <1>16. CASE Flush
    BY <1>16 DEF Flush, apiVars, ioVars
  <1>17. ASSUME NEW t \in Tasks, LoopBack(t) PROVE Lifecycle'
    BY <1>17 DEF LoopBack, apiVars, ioVars
  <1>18. ASSUME NEW d \in PeerPackets, NEW p \in Payloads, PeerArrives(d, p)
         PROVE  Lifecycle'
    BY <1>18 DEF PeerArrives, apiVars, ioVars
  <1> QED
    BY <1>1, <1>2, <1>3, <1>4, <1>7, <1>8, <1>9, <1>10, <1>11,
       <1>12, <1>13, <1>14, <1>15, <1>16, <1>17, <1>18
       DEF Next, Api, Read, Network

\* The invariant holds initially.
LEMMA InvInit == Init => Inv
  <1> SUFFICES ASSUME Init PROVE Inv
    OBVIOUS
  <1>1. TypeOK
    BY TypeInit
  <1>2. TaskAccounting /\ CopiesAccounted
    BY AsyncUDPAssumption DEF AsyncUDPAssumption, Init, TaskAccounting,
       CopiesAccounted, Once, OnItsWay, Range
  <1>3. WatchdogArmed /\ NoLostWakeup /\ EchoExcused
    BY DEF Init, WatchdogArmed, NoLostWakeup, EchoExcused
  <1>4. Lifecycle
    BY DEF Init, Lifecycle, Threads
  <1> QED  BY <1>1, <1>2, <1>3, <1>4 DEF Inv

\* Every step keeps the invariant: one case per action, and in it one step per
\* conjunct the action can disturb.
LEMMA InvStep == Inv /\ [Next]_vars => Inv'
  <1> SUFFICES ASSUME Inv, [Next]_vars PROVE Inv'
    OBVIOUS
  <1>0. /\ TypeOK /\ TypeOK'
        /\ TaskAccounting /\ WatchdogArmed /\ NoLostWakeup /\ CopiesAccounted
        /\ EchoExcused /\ Lifecycle /\ Lifecycle'
    BY TypeStep, LifecycleStep DEF Inv
  <1>a. /\ Accounted(sendQueue, waiting, fate)
        /\ Once(rcvbuf)
        /\ Copies(txq, air, Range(rcvbuf), fate)
    BY <1>0, Bookkeeping
  <1>b. ASSUME Accounted(sendQueue, waiting, fate)', Once(rcvbuf)',
               Copies(txq, air, Range(rcvbuf), fate)',
               WatchdogArmed', NoLostWakeup', EchoExcused'
        PROVE  Inv'
    <2>1. TaskAccounting' /\ CopiesAccounted'
      BY <1>b, Bookkeeping, PTL
    <2> QED  BY <1>0, <1>b, <2>1 DEF Inv
  <1>1. CASE UNCHANGED vars
    <2>1. NoLostWakeup'
      BY <1>0, <1>1 DEF NoLostWakeup, vars, apiVars, sendVars, ioVars
    <2> QED  BY <1>0, <1>1, <2>1, QuietStep DEF vars, sendVars
  <1>2. ASSUME NEW th \in Threads, NEW t \in Tasks, NEW p \in Payloads,
               WritePush(th, t, p)
        PROVE  Inv'
    <2>1. /\ sendQueue' = Append(sendQueue, t)
          /\ fate' = [fate EXCEPT ![t] = "queued"]
          /\ fate[t] = "unwritten"
          /\ call' = [call EXCEPT ![th] = "pushed"]
          /\ UNCHANGED <<waiting, timer, txq, air, rcvbuf, echoes>>
      BY <1>2 DEF WritePush
    <2>2. /\ fate'[t] = "queued"
          /\ \A u \in Tasks : u # t => fate'[u] = fate[u]
      BY <1>0, <2>1 DEF TypeOK
    <2>3. t \notin Range(sendQueue) /\ t # waiting
      BY <1>a, <2>1 DEF Accounted
    <2>4. Once(Append(sendQueue, t))
          /\ Range(Append(sendQueue, t)) = Range(sendQueue) \cup {t}
      BY <1>0, <1>a, <2>3, AppendFacts DEF TypeOK, Accounted
    <2>5. Accounted(sendQueue, waiting, fate)'
      BY <1>a, <2>1, <2>2, <2>3, <2>4 DEF Accounted
    <2>6. Copies(txq, air, Range(rcvbuf), fate)'
      BY <1>a, <2>1, <2>2 DEF Copies, Once
    <2>7. NoLostWakeup'
      BY <1>0, <2>1 DEF NoLostWakeup, TypeOK
    <2>8. EchoExcused' /\ WatchdogArmed'
      BY <1>0, <2>1, <2>2 DEF EchoExcused, WatchdogArmed, TypeOK
    <2> QED  BY <1>a, <1>b, <2>1, <2>5, <2>6, <2>7, <2>8 DEF Once
  <1>3. ASSUME NEW th \in Threads, WriteSignal(th) PROVE Inv'
    <2>1. NoLostWakeup'
      BY <1>3 DEF WriteSignal, NoLostWakeup
    <2> QED  BY <1>0, <1>3, <2>1, QuietStep DEF WriteSignal, sendVars
  <1>4. ASSUME NEW th \in Threads, NEW h \in Handlers, OnPacket(th, h)
        PROVE  Inv'
    <2>1. NoLostWakeup'
      BY <1>0, <1>4 DEF OnPacket, NoLostWakeup, sendVars, ioVars
    <2> QED  BY <1>0, <1>4, <2>1, QuietStep DEF OnPacket, sendVars
  <1>6. CASE ListenStart \/ ListenReturn
    <2>1. /\ UNCHANGED <<sendVars, call, wake, air, rcvbuf, fate, echoes>>
          /\ io' # "stopped" => io # "stopped"
      <3>2. CASE ListenStart
        BY <1>0, <3>2 DEF ListenStart, Lifecycle
      <3>3. CASE ListenReturn
        BY <3>3 DEF ListenReturn, ioVars
      <3> QED  BY <1>6, <3>2, <3>3
    <2>2. NoLostWakeup'
      BY <1>0, <2>1 DEF NoLostWakeup, sendVars
    <2> QED  BY <1>0, <2>1, <2>2, QuietStep DEF sendVars
  <1>7. CASE DestroyQuit \/ DestroySignal \/ DestroyJoin
    <2>1. /\ UNCHANGED <<sendVars, io, call, air, rcvbuf, fate, echoes>>
          /\ wake => wake'
      BY <1>7 DEF DestroyQuit, DestroySignal, DestroyJoin, sendVars, ioVars
    <2>2. NoLostWakeup'
      BY <1>0, <2>1 DEF NoLostWakeup, sendVars
    <2> QED  BY <1>0, <2>1, <2>2, QuietStep DEF sendVars
  <1>8. CASE AsyncCb
    <2>1. AttemptWrite(waiting, timer, fate) /\ UNCHANGED <<rcvbuf, echoes>>
      BY <1>8 DEF AsyncCb
    <2>2. /\ Accounted(sendQueue', waiting', fate')
          /\ Copies(txq', air', Range(rcvbuf), fate')
          /\ timer' <=> waiting' # NoTask
          /\ waiting' = NoTask => sendQueue' = <<>>
          /\ \A t \in Tasks : fate[t] \in Released => fate'[t] = fate[t]
      <3>1. /\ TypeOK
            /\ waiting \in Tasks \cup {NoTask}
            /\ timer \in BOOLEAN
            /\ fate \in [Tasks -> Fates]
        BY <1>0 DEF TypeOK
      <3>2. timer <=> waiting # NoTask
        BY <1>0 DEF WatchdogArmed
      <3> QED  BY <1>a, <2>1, <3>1, <3>2, AttemptWriteFacts
    <2>3. EchoExcused'
      BY <1>0, <2>1, <2>2 DEF EchoExcused, Released, TypeOK
    <2>4. NoLostWakeup' /\ WatchdogArmed'
      BY <2>2 DEF NoLostWakeup, WatchdogArmed
    <2> QED  BY <1>a, <1>b, <2>1, <2>2, <2>3, <2>4 DEF Once
  <1>9. CASE TimerCb
    <2>1. /\ waiting' = NoTask
          /\ waiting # NoTask
          /\ timer' = FALSE
          /\ gaveUp' = TRUE
          /\ fate' = [t \in Tasks |->
                        IF t = waiting THEN "givenUp" ELSE fate[t]]
          /\ UNCHANGED <<sendQueue, txq, air, rcvbuf, echoes>>
      BY <1>0, <1>9 DEF TimerCb, WatchdogArmed
    <2>2. Accounted(sendQueue, waiting, fate)'
      BY <1>a, <2>1, AsyncUDPAssumption
         DEF Accounted, Once, AsyncUDPAssumption
    <2>3. Copies(txq, air, Range(rcvbuf), fate)'
      BY <1>a, <2>1 DEF Copies, Once
    <2>4. EchoExcused' /\ NoLostWakeup' /\ WatchdogArmed'
      BY <1>0, <2>1 DEF EchoExcused, NoLostWakeup, WatchdogArmed, TypeOK
    <2> QED  BY <1>a, <1>b, <2>1, <2>2, <2>3, <2>4 DEF Once
  <1>10. CASE ReadStart \/ HandlerReturn \/ ReadExhausted \/ ReadYield
    <2>1. UNCHANGED <<sendVars, wake, call, air, rcvbuf, fate, echoes>>
          /\ io # "stopped"
      BY <1>10 DEF ReadStart, HandlerReturn, ReadExhausted, ReadYield
    <2>2. NoLostWakeup'
      BY <1>0, <2>1 DEF NoLostWakeup, sendVars
    <2> QED  BY <1>0, <2>1, <2>2, QuietStep DEF sendVars
  <1>11. ASSUME NEW d \in Datagrams, Receive(d)
         PROVE  /\ Once(rcvbuf')
                /\ Range(rcvbuf) = Range(rcvbuf') \cup {d}
                /\ d \in Tasks => d \notin Range(rcvbuf')
                /\ io = "read"
    BY <1>0, <1>a, <1>11, TailFacts DEF Receive, TypeOK
  <1>12. ASSUME NEW d \in Datagrams, ReadZeroLength(d) \/ ReadDeliver(d)
         PROVE  Inv'
    <2>1. /\ Receive(d)
          /\ UNCHANGED <<sendVars, wake, call, air, fate>>
      BY <1>12 DEF ReadZeroLength, ReadDeliver
    <2>2. Copies(txq, air, Range(rcvbuf), fate)'
      BY <1>a, <1>11, <2>1 DEF Copies, Once, sendVars
    <2>3. echoes' = echoes \/ (d \in Tasks => fate[d] \in {"twin", "givenUp"})
      <3>1. CASE ReadZeroLength(d)
        BY <3>1 DEF ReadZeroLength
      <3>2. CASE ReadDeliver(d) /\ d \in Tasks
        <4>1. d # waiting
          BY <3>2, AsyncUDPAssumption
             DEF ReadDeliver, Matches, AsyncUDPAssumption
        <4>2. fate[d] \in {"parked", "twin", "givenUp"}
          BY <1>a, <1>11, <2>1, <3>2 DEF Copies
        <4> QED  BY <1>a, <3>2, <4>1, <4>2 DEF Accounted
      <3> QED  BY <1>12, <3>1, <3>2
    <2>4. echoes' \subseteq echoes \cup ({d} \cap Tasks)
      BY <1>12 DEF ReadZeroLength, ReadDeliver
    <2>5. EchoExcused'
      BY <1>0, <2>1, <2>3, <2>4 DEF EchoExcused
    <2>6. NoLostWakeup' /\ WatchdogArmed'
      BY <1>0, <1>11, <2>1 DEF NoLostWakeup, WatchdogArmed, sendVars
    <2>7. Accounted(sendQueue, waiting, fate)'
      BY <1>a, <2>1 DEF Accounted, Once, sendVars
    <2> QED  BY <1>b, <1>11, <2>1, <2>2, <2>5, <2>6, <2>7 DEF Once
  <1>13. ASSUME NEW d \in Datagrams, ReadLooped(d) PROVE Inv'
    <2> DEFINE how == IF d = waiting THEN "echo" ELSE "twin"
               f == [fate EXCEPT ![waiting] = how]
    <2>1. /\ Receive(d)
          /\ waiting # NoTask
          /\ AttemptWrite(NoTask, FALSE, f)
          /\ UNCHANGED echoes
      BY <1>13 DEF ReadLooped, Matches
    <2>2. waiting \in Tasks
      BY <1>0, <2>1 DEF TypeOK
    <2>3. /\ f \in [Tasks -> Fates]
          /\ f[waiting] = how
          /\ \A t \in Tasks : t # waiting => f[t] = fate[t]
      BY <1>0, <2>2 DEF TypeOK, Fates, Released
    <2>4. fate[waiting] = "parked"
      BY <1>a, <2>2 DEF Accounted
    <2> HIDE DEF f
    <2>5. Accounted(sendQueue, NoTask, f)
      BY <1>a, <2>2, <2>3, <2>4, AsyncUDPAssumption
         DEF Accounted, AsyncUDPAssumption
    <2>6. Copies(txq, air, Range(rcvbuf'), f)
      BY <1>a, <1>11, <2>1, <2>2, <2>3 DEF Copies
    <2>7. /\ Accounted(sendQueue', waiting', fate')
          /\ Copies(txq', air', Range(rcvbuf'), fate')
          /\ timer' <=> waiting' # NoTask
          /\ waiting' = NoTask => sendQueue' = <<>>
          /\ \A t \in Tasks : f[t] \in Released => fate'[t] = f[t]
      BY <1>0, <2>1, <2>3, <2>5, <2>6, AttemptWriteFacts
    <2>8. ASSUME NEW t \in echoes PROVE fate'[t] \in {"twin", "givenUp"}
      <3>1. t \in Tasks /\ fate[t] \in {"twin", "givenUp"}
        BY <1>0, <2>8 DEF EchoExcused, TypeOK
      <3>2. f[t] = fate[t]
        BY <2>3, <2>4, <3>1
      <3> QED  BY <2>7, <3>1, <3>2 DEF Released
    <2>9. EchoExcused' /\ NoLostWakeup' /\ WatchdogArmed'
      BY <2>1, <2>7, <2>8 DEF EchoExcused, NoLostWakeup, WatchdogArmed
    <2> QED  BY <1>b, <1>11, <2>1, <2>7, <2>9 DEF Once
  <1>14. CASE Flush
    <2> DEFINE t == Head(txq)
    <2>1. /\ txq # <<>>
          /\ air' = air \cup {t}
          /\ txq' = Tail(txq)
          /\ UNCHANGED <<wake, call, sendQueue, waiting, timer, gaveUp, io,
                         rcvbuf, fate, echoes>>
      BY <1>14 DEF Flush, ioVars
    <2>2. /\ t \in Tasks
          /\ Range(txq) = Range(txq') \cup {t}
          /\ Once(txq')
          /\ t \notin Range(txq')
      BY <1>0, <1>a, <2>1, TailFacts DEF TypeOK, Copies
    <2>3. Copies(txq, air, Range(rcvbuf), fate)'
      BY <1>a, <2>1, <2>2 DEF Copies
    <2>4. EchoExcused' /\ NoLostWakeup' /\ WatchdogArmed'
      BY <1>0, <2>1 DEF EchoExcused, NoLostWakeup, WatchdogArmed
    <2>5. Accounted(sendQueue, waiting, fate)'
      BY <1>a, <2>1 DEF Accounted, Once
    <2> QED  BY <1>a, <1>b, <2>1, <2>3, <2>4, <2>5 DEF Once
  <1>15. ASSUME NEW d \in Datagrams, Enqueue(d), d \in Tasks => d \notin Range(rcvbuf)
         PROVE  /\ Once(rcvbuf')
                /\ Range(rcvbuf') \subseteq Range(rcvbuf) \cup {d}
    <2>1. CASE rcvbuf' = rcvbuf
      BY <1>a, <2>1
    <2>2. CASE rcvbuf' = Append(rcvbuf, d)
      BY <1>0, <1>a, <1>15, <2>2, AppendFacts DEF TypeOK
    <2> QED  BY <1>15, <2>1, <2>2 DEF Enqueue
  <1>16. ASSUME UNCHANGED <<sendQueue, waiting, timer, gaveUp, wake, call, io,
                            fate, echoes>>,
                Once(rcvbuf'), Copies(txq, air, Range(rcvbuf), fate)'
         PROVE  Inv'
    <2>1. EchoExcused' /\ NoLostWakeup' /\ WatchdogArmed'
      BY <1>0, <1>16 DEF EchoExcused, NoLostWakeup, WatchdogArmed
    <2>2. Accounted(sendQueue, waiting, fate)'
      BY <1>a, <1>16 DEF Accounted, Once
    <2> QED  BY <1>b, <1>16, <2>1, <2>2 DEF Once
  <1>17. ASSUME NEW t \in Tasks, LoopBack(t) PROVE Inv'
    <2>1. /\ t \in air
          /\ air' = air \ {t}
          /\ Enqueue(t) \/ rcvbuf' = rcvbuf
          /\ UNCHANGED <<call, wake, sendVars, io, fate, echoes>>
      BY <1>17 DEF LoopBack, ioVars
    <2>2. t \notin Range(txq) /\ t \notin Range(rcvbuf) /\ t \in Datagrams
      BY <1>a, <2>1 DEF Copies, Datagrams
    <2>3. Once(rcvbuf') /\ Range(rcvbuf') \subseteq Range(rcvbuf) \cup {t}
      BY <1>a, <1>15, <2>1, <2>2
    <2>4. Copies(txq, air, Range(rcvbuf), fate)'
      BY <1>a, <2>1, <2>2, <2>3 DEF Copies, sendVars, Once
    <2> QED  BY <1>16, <2>1, <2>3, <2>4 DEF sendVars
  <1>18. ASSUME NEW d \in PeerPackets, NEW p \in Payloads, PeerArrives(d, p)
         PROVE  Inv'
    <2>1. /\ d \in Datagrams /\ d \notin Tasks
          /\ Enqueue(d)
          /\ UNCHANGED <<call, wake, sendVars, io, air, fate, echoes>>
      BY <1>18, AsyncUDPAssumption
         DEF PeerArrives, ioVars, Datagrams, AsyncUDPAssumption
    <2>2. Once(rcvbuf') /\ Range(rcvbuf') \subseteq Range(rcvbuf) \cup {d}
      BY <1>15, <2>1
    <2>3. Copies(txq, air, Range(rcvbuf), fate)'
      BY <1>a, <2>1, <2>2 DEF Copies, sendVars, Once
    <2> QED  BY <1>16, <2>1, <2>2, <2>3 DEF sendVars
  <1> QED
    BY <1>1, <1>2, <1>3, <1>4, <1>6, <1>7, <1>8, <1>9, <1>10, <1>12,
       <1>13, <1>14, <1>17, <1>18 DEF Next, Api, Read, Network

\* The invariant holds in every reachable state.
THEOREM Invariance == Spec => []Inv
  BY InvInit, InvStep, PTL DEF Spec

\* No task that writeTo accepted is lost or sent twice.
THEOREM TasksAccounted == Spec => []TaskAccounting
  BY Invariance, PTL DEF Inv

\* A parked task always has its timeout running, and only a parked task has.
THEOREM WatchdogFollowsTask == Spec => []WatchdogArmed
  BY Invariance, PTL DEF Inv

\* Queued work always has someone who will send it, except after a give-up.
THEOREM WakeupsKept == Spec => []NoLostWakeup
  BY Invariance, PTL DEF Inv

\* Every looped-back copy exists once and only for a task not yet matched by it.
THEOREM CopiesUnique == Spec => []CopiesAccounted
  BY Invariance, PTL DEF Inv

\* The handler gets the program's own packet only after a give-up or a twin.
THEOREM EchoesExcused == Spec => []EchoExcused
  BY Invariance, PTL DEF Inv

\* The destructor ends with no thread left inside the object.
THEOREM DestroyedAlone == Spec => []NoUseAfterDestroy
  <1>1. Inv => NoUseAfterDestroy
    <2> SUFFICES ASSUME Inv, life = "destroyed",
                        NEW th \in Threads
                 PROVE  io = "stopped" /\ call[th] = "idle"
      BY DEF NoUseAfterDestroy, Inv, Lifecycle
    <2>1. /\ io = "stopped"
          /\ quit
          /\ call[IoThread] # "pushed"
          /\ \A a \in AppThreads : call[a] # "pushed"
      BY DEF Inv, Lifecycle
    <2>2. call[th] \in {"idle", "pushed"}
      BY DEF Inv, TypeOK
    <2> QED  BY <2>1, <2>2 DEF Threads
  <1> QED  BY <1>1, Invariance, PTL

-----------------------------------------------------------------------------
(* AsyncUDP implements SendChannel.                                        *)

\* _attemptWrite hands over a queued task, or changes neither the parked task
\* nor the fates it was entered with.
LEMMA AttemptWriteHandsOver ==
    ASSUME TypeOK, TaskAccounting,
           NEW w \in Tasks \cup {NoTask}, NEW tm \in BOOLEAN,
           NEW f \in [Tasks -> Fates], AttemptWrite(w, tm, f),
           \A t \in Tasks : f[t] = "queued" <=> t \in Range(sendQueue)
    PROVE  \/ waiting' = w /\ fate' = f
           \/ /\ w = NoTask
              /\ waiting' \in Tasks
              /\ f[waiting'] = "queued"
              /\ fate' = [f EXCEPT ![waiting'] = "parked"]
  <1>1. CASE w # NoTask \/ sendQueue = <<>>
    BY <1>1, AsyncUDPAssumption DEF AttemptWrite
  <1>2. CASE w = NoTask /\ sendQueue # <<>>
    <2>1. /\ waiting' = sendQueue[Len(sendQueue)]
          /\ fate' = [f EXCEPT ![waiting'] = "parked"]
      BY <1>2 DEF AttemptWrite
    <2>2. waiting' \in Tasks /\ waiting' \in Range(sendQueue)
      BY <1>2, <2>1, PopBackFacts DEF TypeOK
    <2> QED  BY <1>2, <2>1, <2>2
  <1> QED  BY <1>1, <1>2

\* A new object is a new channel.
LEMMA ChannelInit == Init => Channel!Init
  BY DEF Init, Channel!Init, Released

\* Every step of the object is a step of the channel or leaves it alone.
LEMMA ChannelStep == Inv /\ [Next]_vars => [Channel!Next]_Channel!vars
  <1> SUFFICES ASSUME Inv, [Next]_vars PROVE [Channel!Next]_Channel!vars
    OBVIOUS
  <1> DEFINE pending == {t \in Tasks : fate[t] = "queued"}
             done    == {t \in Tasks : fate[t] \in Released}
  <1>0. /\ TypeOK /\ TaskAccounting
        /\ fate \in [Tasks -> Fates]
        /\ waiting \in Tasks \cup {NoTask}
        /\ NoTask \notin Tasks
        /\ \A t \in Tasks : fate[t] = "parked" <=> t = waiting
        /\ \A t \in Tasks : fate[t] = "queued" <=> t \in Range(sendQueue)
    BY AsyncUDPAssumption DEF Inv, TypeOK, TaskAccounting, AsyncUDPAssumption
  <1>a. ASSUME UNCHANGED <<fate, waiting>>, io' = "stopped" <=> io = "stopped"
        PROVE  UNCHANGED Channel!vars
    BY <1>a DEF Channel!vars
  <1>1. CASE UNCHANGED vars
    BY <1>1, <1>a DEF vars, sendVars, ioVars
  <1>2. ASSUME NEW th \in Threads, NEW t \in Tasks, NEW p \in Payloads,
               WritePush(th, t, p)
        PROVE  Channel!Accept(t)
    <2>1. /\ fate[t] = "unwritten"
          /\ fate' = [fate EXCEPT ![t] = "queued"]
          /\ UNCHANGED <<waiting, io>>
      BY <1>2 DEF WritePush, ioVars
    <2>2. io # "stopped"
      BY <1>2 DEF WritePush, MayCall, Inv, Lifecycle
    <2>3. /\ fate'[t] = "queued"
          /\ \A u \in Tasks : u # t => fate'[u] = fate[u]
      BY <1>0, <2>1
    <2>4. t \notin pending \cup done \cup {waiting}
      BY <1>0, <2>1 DEF Released
    <2>5. /\ {u \in Tasks : fate'[u] = "queued"} = pending \cup {t}
          /\ {u \in Tasks : fate'[u] \in Released} = done
      BY <2>1, <2>3 DEF Released
    <2> QED  BY <2>1, <2>2, <2>4, <2>5 DEF Channel!Accept
  <1>3. CASE \/ \E th \in Threads : WriteSignal(th)
             \/ \E th \in Threads, h \in Handlers : OnPacket(th, h)
             \/ ListenStart \/ ListenReturn
             \/ DestroyQuit \/ DestroySignal \/ DestroyJoin
    <2>1. CASE \/ \E th \in Threads : WriteSignal(th)
               \/ \E th \in Threads, h \in Handlers : OnPacket(th, h)
        BY <2>1, <1>a DEF WriteSignal, OnPacket, sendVars, ioVars
    <2>2. CASE ListenReturn
      BY <2>2, <1>a DEF ListenReturn, sendVars, ioVars
    <2>3. CASE ListenStart
      BY <2>3, <1>a DEF ListenStart, sendVars, Inv, Lifecycle
    <2>4. CASE DestroyQuit \/ DestroySignal \/ DestroyJoin
      BY <2>4, <1>a
         DEF DestroyQuit, DestroySignal, DestroyJoin, sendVars, ioVars
    <2> QED  BY <1>3, <2>1, <2>2, <2>3, <2>4
  <1>4. CASE AsyncCb
    <2>1. /\ io = "poll"
          /\ io' \in {"poll", "stopped"}
          /\ AttemptWrite(waiting, timer, fate)
      BY <1>4 DEF AsyncCb
    <2>2. \/ UNCHANGED <<waiting, fate>>
          \/ /\ waiting = NoTask
             /\ waiting' \in Tasks
             /\ fate[waiting'] = "queued"
             /\ fate' = [fate EXCEPT ![waiting'] = "parked"]
      <3>1. timer \in BOOLEAN
        BY <1>0 DEF TypeOK
      <3> QED  BY <1>0, <2>1, <3>1, AttemptWriteHandsOver
    <2>3. CASE UNCHANGED <<waiting, fate>>
      BY <1>a, <2>1, <2>3 DEF Channel!Shut, Channel!Next
    <2>4. CASE /\ waiting = NoTask
               /\ waiting' \in Tasks
               /\ fate[waiting'] = "queued"
               /\ fate' = [fate EXCEPT ![waiting'] = "parked"]
      <3>1. /\ {u \in Tasks : fate'[u] = "queued"} = pending \ {waiting'}
            /\ {u \in Tasks : fate'[u] \in Released}
                 = done \cup ({waiting} \ {NoTask})
        BY <1>0, <2>4 DEF Released
      <3> QED  BY <2>1, <2>4, <3>1 DEF Channel!HandOver, Channel!Next
    <2> QED  BY <2>2, <2>3, <2>4
  <1>5. CASE TimerCb
    <2>1. /\ io = "poll" /\ io' = io
          /\ waiting # NoTask
          /\ waiting' = NoTask
          /\ fate' = [t \in Tasks |->
                        IF t = waiting THEN "givenUp" ELSE fate[t]]
      BY <1>5 DEF TimerCb, ioVars, Inv, WatchdogArmed
    <2>2. /\ {u \in Tasks : fate'[u] = "queued"} = pending
          /\ {u \in Tasks : fate'[u] \in Released} = done \cup {waiting}
      BY <1>0, <2>1 DEF Released
    <2> QED  BY <2>1, <2>2 DEF Channel!Finish, Channel!Next
  <1>6. ASSUME NEW d \in Datagrams, ReadLooped(d) PROVE Channel!Next
    <2> DEFINE how == IF d = waiting THEN "echo" ELSE "twin"
               f == [fate EXCEPT ![waiting] = how]
    <2>1. /\ io = "read" /\ io' = io
          /\ waiting # NoTask
          /\ AttemptWrite(NoTask, FALSE, f)
      BY <1>6 DEF ReadLooped, Receive, Matches
    <2>2. waiting \in Tasks /\ fate[waiting] = "parked"
      BY <1>0, <2>1
    <2>3. /\ f \in [Tasks -> Fates]
          /\ f[waiting] \in Released
          /\ \A t \in Tasks : t # waiting => f[t] = fate[t]
      BY <1>0, <2>2 DEF Fates, Released
    <2> HIDE DEF f
    <2>4. \A t \in Tasks : f[t] = "queued" <=> t \in Range(sendQueue)
      BY <1>0, <2>2, <2>3 DEF Released
    <2>5. \/ waiting' = NoTask /\ fate' = f
          \/ /\ waiting' \in Tasks
             /\ f[waiting'] = "queued"
             /\ fate' = [f EXCEPT ![waiting'] = "parked"]
      BY <1>0, <2>1, <2>3, <2>4, AttemptWriteHandsOver
    <2>6. /\ {u \in Tasks : f[u] = "queued"} = pending
          /\ {u \in Tasks : f[u] \in Released} = done \cup {waiting}
      BY <2>2, <2>3 DEF Released
    <2>7. CASE waiting' = NoTask /\ fate' = f
      BY <2>1, <2>6, <2>7 DEF Channel!Finish, Channel!Next
    <2>8. CASE /\ waiting' \in Tasks
               /\ f[waiting'] = "queued"
               /\ fate' = [f EXCEPT ![waiting'] = "parked"]
      <3>1. /\ {u \in Tasks : fate'[u] = "queued"} = pending \ {waiting'}
            /\ {u \in Tasks : fate'[u] \in Released} = done \cup {waiting}
        BY <2>3, <2>6, <2>8 DEF Released
      <3>2. waiting' \in pending
        BY <2>2, <2>3, <2>8 DEF Released
      <3> QED  BY <2>1, <2>8, <3>1, <3>2 DEF Channel!HandOver, Channel!Next
    <2> QED  BY <2>5, <2>7, <2>8
  <1>7. CASE \/ \E d \in Datagrams : ReadZeroLength(d) \/ ReadDeliver(d)
             \/ ReadStart \/ HandlerReturn \/ ReadExhausted \/ ReadYield
    <2>1. /\ UNCHANGED <<fate, waiting>>
          /\ io # "stopped" /\ io' # "stopped"
      BY <1>7 DEF ReadZeroLength, ReadDeliver, Receive, ReadStart,
                  HandlerReturn, ReadExhausted, ReadYield, sendVars
    <2> QED  BY <2>1, <1>a
  <1>8. CASE \/ Flush
             \/ \E t \in Tasks : LoopBack(t)
             \/ \E d \in PeerPackets, p \in Payloads : PeerArrives(d, p)
    BY <1>8, <1>a DEF Flush, LoopBack, PeerArrives, sendVars, ioVars
  <1> QED
    BY <1>1, <1>2, <1>3, <1>4, <1>5, <1>6, <1>7, <1>8
       DEF Next, Api, Read, Network, Channel!Next

\* AsyncUDP keeps the promise SendChannel states to the callers of writeTo.
THEOREM Implementation == Spec => ImplementsChannel
  BY Invariance, ChannelInit, ChannelStep, PTL
     DEF Spec, ImplementsChannel, Channel!Spec
=============================================================================
