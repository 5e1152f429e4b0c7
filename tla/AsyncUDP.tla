------------------------------ MODULE AsyncUDP ------------------------------
(***************************************************************************)
(* AsyncUDP (AsyncUDP.cpp, AsyncUDP.h): one multicast socket served by a   *)
(* libuv loop on a thread of its own.                                      *)
(*                                                                         *)
(* Application threads call writeTo, onPacket, listenMulticast and the     *)
(* destructor; the I/O thread runs the four libuv callbacks (async, timer, *)
(* read, writable) one at a time; the kernel loops every multicast packet  *)
(* back to its sender, and delivers the packets of the peers.              *)
(*                                                                         *)
(* A send task is known by its identity.  Its payload is data[t], so that  *)
(* two tasks, or a task and a packet of a peer, can carry equal bytes: the *)
(* code recognises its own looped-back copy by content only.               *)
(*                                                                         *)
(* The code's critical sections (_sendQueueMutex, _handlerMutex) neither   *)
(* block nor call out, so each is one step.  A callback is one step,       *)
(* except where it calls the application's handler, which runs with no     *)
(* lock held and may itself call writeTo and onPacket.                     *)
(***************************************************************************)
EXTENDS Naturals, Sequences, Functions

CONSTANTS
    Tasks,         \* the identities of the writeTo calls
    PeerPackets,   \* the identities of the packets other hosts may send
    Payloads,      \* what a datagram can carry
    Empty,         \* the payload of length zero
    AppThreads,    \* the threads that use the public API
    IoThread,      \* _ioThread
    Handlers,      \* the callbacks the application may register
    NoHandler,     \* a null _handler
    NoTask,        \* a null _waitingToBeLooped
    NoData,        \* the payload of what was not written yet
    RcvCap,        \* datagrams the socket's receive buffer holds
    ReadBatch,     \* datagrams libuv reads per readable event (32)
    Faults         \* what may go wrong outside the program, see AllFaults

(***************************************************************************)
(* "loss"     a looped copy disappears before it reaches the buffer        *)
(* "sendfail" uv_udp_send, or the send it tries, fails                     *)
(* "eagain"   the socket is not writable and libuv keeps the request       *)
(* "late"     a looped copy needs longer than LOOP_TIMER_CHECK_TIMEOUT_MS  *)
(* "recvfail" a read of the socket fails, with datagrams in its buffer     *)
(***************************************************************************)
AllFaults == {"loss", "sendfail", "eagain", "late", "recvfail"}

ASSUME AsyncUDPAssumption ==
    /\ Tasks \cap PeerPackets = {}
    /\ NoTask \notin Tasks
    /\ NoData \notin Payloads
    /\ IoThread \notin AppThreads
    /\ NoHandler \notin Handlers
    /\ RcvCap \in Nat \ {0}
    /\ ReadBatch \in Nat \ {0}
    /\ Faults \subseteq AllFaults

Threads   == AppThreads \cup {IoThread}
Datagrams == Tasks \cup PeerPackets

VARIABLES
    life,       \* how far the object is; _connected is set when it is "up"
    handler,    \* _handler
    call,       \* per thread: a writeTo between its push and uv_async_send
    quit,       \* _quit
    wake,       \* _async was signalled and its callback has not run yet
    sendQueue,  \* _sendQueue, the newest task last
    data,       \* the payload of every task and packet
    io,         \* where the I/O thread is
    budget,     \* reads left in the current readable event
    waiting,    \* _waitingToBeLooped
    emptied,    \* _emptiedBuffer
    timer,      \* _timer is armed
    txq,        \* send requests libuv holds until the socket is writable
    air,        \* own datagrams sent and not looped back yet
    rcvbuf,     \* the socket's receive buffer, oldest first
    fate,       \* history: what became of each task
    echoes,     \* history: tasks whose own copy the handler was given
    gaveUp      \* history: the watchdog gave up and no _attemptWrite followed

apiVars  == <<life, handler, quit>>
sendVars == <<sendQueue, waiting, timer, txq, gaveUp>>
ioVars   == <<io, budget, emptied>>
vars     == <<apiVars, call, wake, data, sendVars, ioVars, air, rcvbuf,
              fate, echoes>>

(***************************************************************************)
(* unwritten -> queued -> parked -> the way the wait ended:                *)
(*   "echo"     its own looped-back copy was read                          *)
(*   "twin"     another datagram with the same bytes was taken for it      *)
(*   "givenUp"  the watchdog timer ended the wait                          *)
(***************************************************************************)
Released == {"echo", "twin", "givenUp"}
Fates    == {"unwritten", "queued", "parked"} \cup Released

TypeOK ==
    /\ life \in {"new", "starting", "up", "quitting", "joining", "destroyed",
                 "terminated"}
    /\ handler \in Handlers \cup {NoHandler}
    /\ call \in [Threads -> {"idle", "pushed"}]
    /\ quit \in BOOLEAN
    /\ wake \in BOOLEAN
    /\ sendQueue \in Seq(Tasks)
    /\ data \in [Datagrams -> Payloads \cup {NoData}]
    /\ io \in {"off", "poll", "read", "handler", "stopped"}
    /\ budget \in 0 .. ReadBatch
    /\ waiting \in Tasks \cup {NoTask}
    /\ emptied \in BOOLEAN
    /\ timer \in BOOLEAN
    /\ txq \in Seq(Tasks)
    /\ air \in SUBSET Tasks
    /\ rcvbuf \in Seq(Datagrams)
    /\ fate \in [Tasks -> Fates]
    /\ echoes \in SUBSET Tasks
    /\ gaveUp \in BOOLEAN

Init ==
    /\ life = "new"
    /\ handler = NoHandler
    /\ call = [th \in Threads |-> "idle"]
    /\ quit = FALSE
    /\ wake = FALSE
    /\ sendQueue = <<>>
    /\ data = [d \in Datagrams |-> NoData]
    /\ io = "off"
    /\ budget = 0
    /\ waiting = NoTask
    /\ emptied = FALSE
    /\ timer = FALSE
    /\ txq = <<>>
    /\ air = {}
    /\ rcvbuf = <<>>
    /\ fate = [t \in Tasks |-> "unwritten"]
    /\ echoes = {}
    /\ gaveUp = FALSE

-----------------------------------------------------------------------------
(* The public API.                                                         *)

\* Application threads use a live object; the I/O thread calls back into it
\* from the handler, even while the destructor waits for that thread.
MayCall(th) ==
    /\ call[th] = "idle"
    /\ \/ th \in AppThreads /\ life \in {"new", "starting", "up"}
       \/ th = IoThread /\ io = "handler"

\* writeTo, first part: copy the payload and push the task under the mutex.
WritePush(th, t, p) ==
    /\ MayCall(th)
    /\ fate[t] = "unwritten"
    /\ data' = [data EXCEPT ![t] = p]
    /\ sendQueue' = Append(sendQueue, t)
    /\ fate' = [fate EXCEPT ![t] = "queued"]
    /\ call' = [call EXCEPT ![th] = "pushed"]
    /\ UNCHANGED <<apiVars, wake, waiting, timer, txq, gaveUp, ioVars, air,
                   rcvbuf, echoes>>

\* Mutant: the signal is saved when the queue was not empty before the push.
WriteSignalIfFirst(th) ==
    /\ call[th] = "pushed"
    /\ wake' = (wake \/ Len(sendQueue) = 1)
    /\ call' = [call EXCEPT ![th] = "idle"]
    /\ UNCHANGED <<apiVars, data, sendVars, ioVars, air, rcvbuf, fate, echoes>>

\* writeTo, second part: uv_async_send.  Signals coalesce.
WriteSignal(th) ==
    /\ call[th] = "pushed"
    /\ wake' = TRUE
    /\ call' = [call EXCEPT ![th] = "idle"]
    /\ UNCHANGED <<apiVars, data, sendVars, ioVars, air, rcvbuf, fate, echoes>>

OnPacket(th, h) ==
    /\ MayCall(th)
    /\ handler' = h
    /\ UNCHANGED <<life, quit, call, wake, data, sendVars,
                   ioVars, air, rcvbuf, fate, echoes>>

\* listenMulticast.  A call that fails, or comes when _connected is set, returns
\* early and changes nothing of this state.  Otherwise the I/O thread starts ...
ListenStart ==
    /\ life = "new"
    /\ life' = "starting"
    /\ io' = "poll"
    /\ UNCHANGED <<handler, quit, call, wake, data,
                   sendVars, budget, emptied, air, rcvbuf, fate, echoes>>

\* ... before the caller sets _connected.
ListenReturn ==
    /\ life = "starting"
    /\ life' = "up"
    /\ UNCHANGED <<handler, quit, call, wake, data, sendVars, ioVars, air,
                   rcvbuf, fate, echoes>>

\* The destructor runs when no application thread is in a call any more.
DestroyQuit ==
    /\ life \in {"new", "up"}
    /\ \A th \in AppThreads : call[th] = "idle"
    /\ quit' = TRUE
    /\ life' = "quitting"
    /\ UNCHANGED <<handler, call, wake, data, sendVars,
                   ioVars, air, rcvbuf, fate, echoes>>

\* Mutant: _quit is set and the loop is not woken.
DestroyNoSignal ==
    /\ life = "quitting"
    /\ life' = "joining"
    /\ UNCHANGED <<handler, quit, call, wake, data,
                   sendVars, ioVars, air, rcvbuf, fate, echoes>>

DestroySignal ==
    /\ life = "quitting"
    /\ wake' = TRUE
    /\ life' = "joining"
    /\ UNCHANGED <<handler, quit, call, data, sendVars,
                   ioVars, air, rcvbuf, fate, echoes>>

\* Mutant: the thread is detached, nobody waits for it.
DestroyDetach ==
    /\ life = "joining"
    /\ life' = "destroyed"
    /\ UNCHANGED <<handler, quit, call, wake, data,
                   sendVars, ioVars, air, rcvbuf, fate, echoes>>

\* join() waits for the thread; on a thread that was never started it throws,
\* and an exception that leaves a destructor ends the program.
DestroyJoin ==
    /\ life = "joining"
    /\ \/ io = "stopped" /\ life' = "destroyed"
       \/ io = "off" /\ life' = "terminated"
    /\ UNCHANGED <<handler, quit, call, wake, data,
                   sendVars, ioVars, air, rcvbuf, fate, echoes>>

-----------------------------------------------------------------------------
(* The I/O thread.                                                         *)

\* uv_udp_send tries at once when no earlier request is held.
DoWrite(t) ==
    \/ txq = <<>> /\ air' = air \cup {t} /\ UNCHANGED txq
    \/ /\ txq # <<>> \/ "eagain" \in Faults
       /\ txq' = Append(txq, t)
       /\ UNCHANGED air
    \/ "sendfail" \in Faults /\ UNCHANGED <<txq, air>>

\* _attemptWrite, entered with _waitingToBeLooped = w, the timer tm, and the
\* fates f.  It takes the newest task: pop_back.
AttemptWrite(w, tm, f) ==
    /\ gaveUp' = FALSE
    /\ \/ /\ w # NoTask \/ sendQueue = <<>>
          /\ waiting' = w
          /\ timer' = tm
          /\ fate' = f
          /\ UNCHANGED <<sendQueue, emptied, txq, air>>
       \/ /\ w = NoTask
          /\ sendQueue # <<>>
          /\ LET t == sendQueue[Len(sendQueue)] IN
               /\ sendQueue' = SubSeq(sendQueue, 1, Len(sendQueue) - 1)
               /\ DoWrite(t)
               /\ waiting' = t
               /\ fate' = [f EXCEPT ![t] = "parked"]
          /\ emptied' = FALSE
          /\ timer' = TRUE

\* Mutant: the callback does not look whether a task is parked.
AsyncCbIgnoresParked ==
    /\ io = "poll"
    /\ wake
    /\ wake' = FALSE
    /\ AttemptWrite(NoTask, timer, fate)
    /\ io' = IF quit THEN "stopped" ELSE "poll"
    /\ UNCHANGED <<apiVars, call, data, budget, rcvbuf, echoes>>

\* Mutant: the test of _quit is inverted.
AsyncCbStopsEarly ==
    /\ io = "poll"
    /\ wake
    /\ wake' = FALSE
    /\ AttemptWrite(waiting, timer, fate)
    /\ io' = IF ~quit THEN "stopped" ELSE "poll"
    /\ UNCHANGED <<apiVars, call, data, budget, rcvbuf, echoes>>

AsyncCb ==
    /\ io = "poll"
    /\ wake
    /\ wake' = FALSE
    /\ AttemptWrite(waiting, timer, fate)
    /\ io' = IF quit THEN "stopped" ELSE "poll"
    /\ UNCHANGED <<apiVars, call, data, budget, rcvbuf, echoes>>

OnItsWay(t) == t \in air \cup Range(txq) \cup Range(rcvbuf)

\* Mutant: the timed-out task goes back to the queue.
TimerCbRetries ==
    /\ io = "poll"
    /\ timer
    /\ "late" \in Faults \/ ~OnItsWay(waiting)
    /\ waiting # NoTask /\ emptied
    /\ sendQueue' = Append(sendQueue, waiting)
    /\ fate' = [fate EXCEPT ![waiting] = "queued"]
    /\ waiting' = NoTask
    /\ timer' = FALSE
    /\ gaveUp' = TRUE
    /\ UNCHANGED <<apiVars, call, wake, data, txq, ioVars, air, rcvbuf, echoes>>

\* Mutant: the timer does not repeat, and is over when the buffer was not
\* emptied in time.
TimerCbOneShot ==
    /\ io = "poll"
    /\ timer
    /\ "late" \in Faults \/ ~OnItsWay(waiting)
    /\ timer' = FALSE
    /\ \/ ~emptied /\ UNCHANGED <<waiting, fate, gaveUp>>
       \/ /\ emptied
          /\ waiting' = NoTask
          /\ fate' = [fate EXCEPT ![waiting] = "givenUp"]
          /\ gaveUp' = TRUE
    /\ UNCHANGED <<apiVars, call, wake, data, sendQueue, txq, ioVars, air,
                   rcvbuf, echoes>>

\* A timer before a read found no data keeps waiting and changes nothing.
TimerCb ==
    /\ io = "poll"
    /\ timer
    /\ "late" \in Faults \/ ~OnItsWay(waiting)
    /\ waiting = NoTask \/ emptied
    /\ waiting' = NoTask
    /\ timer' = FALSE
    /\ fate' = [t \in Tasks |-> IF t = waiting THEN "givenUp" ELSE fate[t]]
    /\ gaveUp' = (waiting # NoTask)
    /\ UNCHANGED <<apiVars, call, wake, data, sendQueue, txq, ioVars, air,
                   rcvbuf, echoes>>

\* The socket is readable: libuv reads until it is empty or ReadBatch is used.
ReadStart ==
    /\ io = "poll"
    /\ rcvbuf # <<>>
    /\ io' = "read"
    /\ budget' = ReadBatch
    /\ UNCHANGED <<apiVars, call, wake, data, sendVars, emptied, air, rcvbuf,
                   fate, echoes>>

\* Mutant: the reads are not counted against ReadBatch.
ReceiveUncounted(d) ==
    /\ io = "read"
    /\ rcvbuf # <<>>
    /\ d = Head(rcvbuf)
    /\ rcvbuf' = Tail(rcvbuf)
    /\ budget' = budget - 1

\* One datagram is taken from the buffer ...
Receive(d) ==
    /\ io = "read"
    /\ budget > 0
    /\ rcvbuf # <<>>
    /\ d = Head(rcvbuf)
    /\ rcvbuf' = Tail(rcvbuf)
    /\ budget' = budget - 1

\* Mutant: the result of the comparison is taken the wrong way round.
MatchesInverted(d) == waiting # NoTask /\ data[d] # data[waiting]

Matches(d) == waiting # NoTask /\ data[d] = data[waiting]

\* ... and is empty: nread is 0, which the callback takes for "no data".
ReadZeroLength(d) ==
    /\ Receive(d)
    /\ data[d] = Empty
    /\ emptied' = (emptied \/ waiting # NoTask)
    /\ UNCHANGED <<apiVars, call, wake, data, sendVars, io, air, fate, echoes>>

\* Mutant: the timer runs on after the match.
ReadLoopedKeepsTimer(d) ==
    /\ Receive(d)
    /\ data[d] # Empty
    /\ Matches(d)
    /\ AttemptWrite(NoTask, timer,
           [fate EXCEPT ![waiting] = IF d = waiting THEN "echo" ELSE "twin"])
    /\ UNCHANGED <<apiVars, call, wake, data, io, echoes>>

\* Mutant: the timer is stopped and _waitingToBeLooped is not reset.
ReadLoopedKeepsTask(d) ==
    /\ Receive(d)
    /\ data[d] # Empty
    /\ Matches(d)
    /\ AttemptWrite(waiting, FALSE, fate)
    /\ UNCHANGED <<apiVars, call, wake, data, io, echoes>>

\* Mutant: the next task is not sent.
ReadLoopedSendsNone(d) ==
    /\ Receive(d)
    /\ data[d] # Empty
    /\ Matches(d)
    /\ waiting' = NoTask
    /\ timer' = FALSE
    /\ fate' = [fate EXCEPT ![waiting] = IF d = waiting THEN "echo" ELSE "twin"]
    /\ UNCHANGED <<apiVars, call, wake, data, sendQueue, txq, gaveUp, io,
                   emptied, air, echoes>>

\* ... or has the bytes of the parked task: suppress it, send the next one.
ReadLooped(d) ==
    /\ Receive(d)
    /\ data[d] # Empty
    /\ Matches(d)
    /\ AttemptWrite(NoTask, FALSE,
           [fate EXCEPT ![waiting] = IF d = waiting THEN "echo" ELSE "twin"])
    /\ UNCHANGED <<apiVars, call, wake, data, io, echoes>>

\* ... or goes to the handler, if there is one.
ReadDeliver(d) ==
    /\ Receive(d)
    /\ data[d] # Empty
    /\ ~Matches(d)
    /\ \/ handler = NoHandler /\ UNCHANGED <<io, echoes>>
       \/ /\ handler # NoHandler
          /\ io' = "handler"
          /\ echoes' = echoes \cup ({d} \cap Tasks)
    /\ UNCHANGED <<apiVars, call, wake, data, sendVars, emptied, air, fate>>

HandlerReturn ==
    /\ io = "handler"
    /\ call[IoThread] = "idle"
    /\ io' = "read"
    /\ UNCHANGED <<apiVars, call, wake, data, sendVars, budget, emptied, air,
                   rcvbuf, fate, echoes>>

\* The read that finds the buffer empty reports nread = 0 and ends the event, and
\* so does one that fails, with nread < 0: the callback takes both for "no data".
ReadExhausted ==
    /\ io = "read"
    /\ budget > 0
    /\ rcvbuf = <<>> \/ "recvfail" \in Faults
    /\ emptied' = (emptied \/ waiting # NoTask)
    /\ io' = "poll"
    /\ UNCHANGED <<apiVars, call, wake, data, sendVars, budget, air, rcvbuf,
                   fate, echoes>>

\* After ReadBatch datagrams libuv serves its other handles, with no such read.
ReadYield ==
    /\ io = "read"
    /\ budget = 0
    /\ io' = "poll"
    /\ UNCHANGED <<apiVars, call, wake, data, sendVars, budget, emptied, air,
                   rcvbuf, fate, echoes>>

\* The socket is writable: libuv sends the oldest request it holds, from the
\* task's own buffer.  If the task was released, that memory was freed, and
\* the datagram carries whatever it holds by then.
Flush ==
    /\ io = "poll"
    /\ txq # <<>>
    /\ LET t == Head(txq) IN
         /\ air' = air \cup {t}
         /\ \/ t = waiting /\ UNCHANGED data
            \/ t # waiting /\ \E p \in Payloads : data' = [data EXCEPT ![t] = p]
    /\ txq' = Tail(txq)
    /\ UNCHANGED <<apiVars, call, wake, sendQueue, waiting, timer, gaveUp,
                   ioVars, rcvbuf, fate, echoes>>

-----------------------------------------------------------------------------
(* The network and the kernel.                                             *)

\* A full receive buffer drops what arrives.
Enqueue(d) ==
    rcvbuf' = IF Len(rcvbuf) < RcvCap THEN Append(rcvbuf, d) ELSE rcvbuf

LoopBack(t) ==
    /\ t \in air
    /\ air' = air \ {t}
    /\ \/ Enqueue(t)
       \/ "loss" \in Faults /\ UNCHANGED rcvbuf
    /\ UNCHANGED <<apiVars, call, wake, data, sendVars, ioVars, fate, echoes>>

PeerArrives(d, p) ==
    /\ io \notin {"off", "stopped"}
    /\ data[d] = NoData
    /\ data' = [data EXCEPT ![d] = p]
    /\ Enqueue(d)
    /\ UNCHANGED <<apiVars, call, wake, sendVars, ioVars, air, fate, echoes>>

-----------------------------------------------------------------------------
Api ==
    \/ \E th \in Threads, t \in Tasks, p \in Payloads : WritePush(th, t, p)
    \/ \E th \in Threads : WriteSignal(th)
    \/ \E th \in Threads, h \in Handlers : OnPacket(th, h)
    \/ ListenStart
    \/ ListenReturn
    \/ DestroyQuit
    \/ DestroySignal
    \/ DestroyJoin

Read ==
    \/ ReadStart
    \/ \E d \in Datagrams : ReadZeroLength(d)
    \/ \E d \in Datagrams : ReadLooped(d)
    \/ \E d \in Datagrams : ReadDeliver(d)
    \/ HandlerReturn
    \/ ReadExhausted
    \/ ReadYield

Network ==
    \/ \E t \in Tasks : LoopBack(t)
    \/ \E d \in PeerPackets, p \in Payloads : PeerArrives(d, p)

Next == Api \/ AsyncCb \/ TimerCb \/ Read \/ Flush \/ Network

Spec == Init /\ [][Next]_vars

(***************************************************************************)
(* Fairness.  A thread inside writeTo, listenMulticast or the destructor   *)
(* goes on; a handler returns.  The loop serves every handle that is ready *)
(* in each of its iterations, so a handle that is ready again and again is *)
(* served: strong fairness, because between two iterations the loop is     *)
(* busy reading.  What is sent comes back or is lost.  Nothing makes the   *)
(* application call the API, or a peer send.  Nor does anything say that   *)
(* reads do not fail for ever, so what must happen is checked without      *)
(* "recvfail".                                                             *)
(***************************************************************************)
Fairness ==
    /\ \A th \in Threads : WF_vars(WriteSignal(th))
    /\ WF_vars(ListenReturn)
    /\ WF_vars(DestroySignal)
    /\ WF_vars(DestroyJoin)
    /\ SF_vars(AsyncCb)
    /\ SF_vars(TimerCb)
    /\ SF_vars(Flush)
    /\ SF_vars(Read)
    /\ \A t \in Tasks : WF_vars(LoopBack(t))

FairSpec == Spec /\ Fairness

-----------------------------------------------------------------------------
(* Safety.                                                                 *)

\* No task occurs twice in a sequence of tasks and packets.
Once(s) == \A i, j \in DOMAIN s : s[i] \in Tasks /\ s[i] = s[j] => i = j

\* Every task that writeTo accepted is in exactly one place: once in the
\* queue, or parked, or released.  Pushes by several threads, pops by the I/O
\* thread, failed sends and the shutdown neither lose nor duplicate one.
TaskAccounting ==
    /\ Once(sendQueue)
    /\ \A t \in Tasks : /\ fate[t] = "queued" <=> t \in Range(sendQueue)
                        /\ fate[t] = "parked" <=> t = waiting

\* The watchdog runs exactly while a task is parked: no path of the read, async
\* and timer callbacks leaves a parked task without its timeout, or a timer
\* behind that would give up on the next task early.
WatchdogArmed == timer <=> waiting # NoTask

\* While the I/O thread runs, work that waits with nothing parked has someone
\* who will send it: a signal not yet served, or a writer about to signal.  The
\* one exception is the time after the watchdog gave up.
NoLostWakeup ==
    sendQueue # <<>> /\ waiting = NoTask /\ io # "stopped" =>
        \/ wake
        \/ \E th \in Threads : call[th] = "pushed"
        \/ gaveUp

\* Own datagrams on their way (held by libuv, in the air, in the receive
\* buffer) are there once, belong to a task that was handed to the socket, and
\* never to one whose own copy was already read.
CopiesAccounted ==
    /\ Once(txq)
    /\ Once(rcvbuf)
    /\ \A t \in Tasks :
          /\ t \in air => t \notin Range(txq) \cup Range(rcvbuf)
          /\ t \in Range(txq) => t \notin Range(rcvbuf)
          /\ OnItsWay(t) => fate[t] \in {"parked", "twin", "givenUp"}

\* When the destructor is done with join(), no thread is inside the object: the
\* loop has stopped, no writeTo is half way, not even one the handler made.
NoUseAfterDestroy ==
    life = "destroyed" => /\ io = "stopped"
                          /\ \A th \in Threads : call[th] = "idle"

\* The handler sees the program's own packet only if the wait for its copy had
\* ended before that copy came: the watchdog gave up, or another datagram with
\* the same bytes was taken for it.
EchoExcused == \A t \in echoes : fate[t] \in {"twin", "givenUp"}

(* Refinement.                                                             *)

\* AsyncUDP is a SendChannel: the queue is what is pending, the parked task is
\* the outstanding one, and the channel is open until the loop has stopped.
Channel == INSTANCE SendChannel WITH
    pending     <- {t \in Tasks : fate[t] = "queued"},
    outstanding <- waiting,
    done        <- {t \in Tasks : fate[t] \in Released},
    open        <- (io # "stopped")

ImplementsChannel == Channel!Spec

-----------------------------------------------------------------------------
(* Liveness.                                                               *)

Stopping == quit \/ io = "off"

\* The copy of the parked task is lost.
CopyLost == waiting # NoTask /\ ~OnItsWay(waiting)

\* Every queued task is sent, unless the object is destroyed first: the signal,
\* the match of the looped copy and the next pop always follow one another.
\* Only a lost copy, or a watchdog that gave up, can interrupt the chain.
EveryWriteSent ==
    \A t \in Tasks :
        fate[t] = "queued" ~> fate[t] # "queued" \/ Stopping \/ CopyLost \/ gaveUp

\* A wait whose looped copy has come to the socket ends, wherever a batch of
\* reads is cut off, and also when the copy is empty and reads as nothing.
CopyEndsWait ==
    \A t \in Tasks :
        waiting = t /\ t \in Range(rcvbuf) ~> waiting # t \/ Stopping

\* A wait during which a read found no data ends, whatever the network loses: by
\* the copy or by the watchdog.
WatchdogEndsWait ==
    \A t \in Tasks : waiting = t /\ emptied ~> waiting # t \/ Stopping

\* The destructor of a listening object returns: the loop is woken, sees _quit
\* and stops, whatever it is doing and whatever signals coalesced.
DestructorJoins == life = "quitting" /\ io # "off" ~> life = "destroyed"

\* Every datagram in the receive buffer is read.
BufferDrained == rcvbuf # <<>> ~> rcvbuf = <<>> \/ Stopping

-----------------------------------------------------------------------------
(* What comments of the code say, and the code does not keep.              *)

\* AsyncUDP.h:310-312: the timer callback "declares the wait timed out and
\* unblocks the send queue".
GiveUpUnblocksQueue ==
    gaveUp /\ sendQueue # <<>> ~> sendQueue = <<>> \/ waiting # NoTask \/ Stopping
=============================================================================
