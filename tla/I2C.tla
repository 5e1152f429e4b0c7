--------------------------------- MODULE I2C ---------------------------------
(***************************************************************************)
(* The I2C master (linux/LinuxHardwareI2C.cpp).  All its objects share one *)
(* transmit buffer, one receive buffer and their counters, and hasBegun;   *)
(* each has a descriptor of its own.                                       *)
(*                                                                         *)
(* A queued byte is known by its number, counted over all the calls of     *)
(* write.  A received byte is known by the request it answered and its      *)
(* place in the answer.  What a raw read, readBytes or writeQuick exchange with    *)
(* the device passes these buffers by and is left out.                     *)
(*                                                                         *)
(* One thread uses the objects.  It asks for at most SIZE bytes: the code  *)
(* does not check the count.                                               *)
(***************************************************************************)
EXTENDS Naturals

CONSTANTS
    Objects,     \* the LinuxHardwareI2C objects
    SIZE,        \* the bytes in each buffer (1000)
    MaxRequests, \* bound on the calls of requestFrom
    MaxQueued    \* bound on the bytes queued

ASSUME I2CAssumption ==
    /\ SIZE \in Nat \ {0}
    /\ MaxRequests \in Nat
    /\ MaxQueued \in Nat

VARIABLES
    drains,          \* whether the program reads each answer to its end
    hasBegun,        \* a begin was not undone by an end
    i2c_file,        \* per object: its descriptor
    TXbuf,           \* the transmit buffer: the number of the byte in it
    requestedBytes,  \* the bytes pending in it
    RXbuf,           \* the receive buffer: where the byte in it came from
    RXlen,           \* the bytes of the answer in it
    RXindex,         \* the next of them to read
    queued,          \* history: the bytes write has accepted
    settled,         \* history: those of them sent with a stop, or discarded
    requests,        \* history: the calls of requestFrom
    answers,         \* history: the last of them that brought bytes
    owed,            \* history: what requestFrom returned, less the bytes read
    given            \* history: the bytes that read returned from RXbuf

fileVars == <<drains, hasBegun, i2c_file>>
txVars   == <<TXbuf, requestedBytes, queued, settled>>
rxVars   == <<RXbuf, RXlen, RXindex, requests, answers, owed, given>>
vars     == <<fileVars, txVars, rxVars>>

Places   == 0 .. SIZE - 1
Received == [answer : 0 .. MaxRequests, place : Places]

TypeOK ==
    /\ drains \in BOOLEAN
    /\ hasBegun \in BOOLEAN
    /\ i2c_file \in [Objects -> {"none", "open", "closed"}]
    /\ TXbuf \in [Places -> 0 .. MaxQueued]
    /\ requestedBytes \in 0 .. SIZE
    /\ RXbuf \in [Places -> Received]
    /\ RXlen \in 0 .. SIZE
    /\ RXindex \in Places
    /\ queued \in 0 .. MaxQueued
    /\ settled \in 0 .. MaxQueued
    /\ requests \in 0 .. MaxRequests
    /\ answers \in 0 .. MaxRequests
    /\ owed \in 0 .. SIZE
    /\ given \in SUBSET Received

Init ==
    /\ drains \in BOOLEAN
    /\ hasBegun = FALSE
    /\ i2c_file = [o \in Objects |-> "none"]
    /\ TXbuf = [i \in Places |-> 0]
    /\ requestedBytes = 0
    /\ RXbuf = [i \in Places |-> [answer |-> 0, place |-> i]]
    /\ RXlen = 0
    /\ RXindex = 0
    /\ queued = 0
    /\ settled = 0
    /\ requests = 0
    /\ answers = 0
    /\ owed = 0
    /\ given = {}

-----------------------------------------------------------------------------
(* begin and end.  The descriptor is per object, the flag is not.          *)

Begin(o) ==
    /\ ~hasBegun
    /\ hasBegun' = TRUE
    /\ \E f \in {"open", "none"} : i2c_file' = [i2c_file EXCEPT ![o] = f]
    /\ UNCHANGED <<drains, txVars, rxVars>>

End(o) ==
    /\ hasBegun
    /\ hasBegun' = FALSE
    /\ i2c_file' = [i2c_file EXCEPT ![o] = IF @ = "open" THEN "closed" ELSE @]
    /\ UNCHANGED <<drains, txVars, rxVars>>

-----------------------------------------------------------------------------
(* Transmitting.                                                           *)

\* Mutant: the pending bytes are kept.
BeginTransmissionKeeps ==
    /\ settled' = queued
    /\ UNCHANGED <<fileVars, TXbuf, requestedBytes, queued, rxVars>>

\* What was pending is discarded.
BeginTransmission ==
    /\ requestedBytes' = 0
    /\ settled' = queued
    /\ UNCHANGED <<fileVars, TXbuf, queued, rxVars>>

\* Mutant: the room left is not looked at.
WriteUnchecked(n) ==
    /\ queued + n <= MaxQueued
    /\ TXbuf' = [i \in Places |->
                    IF i \in requestedBytes .. requestedBytes + n - 1
                    THEN queued + 1 + (i - requestedBytes)
                    ELSE TXbuf[i]]
    /\ requestedBytes' = requestedBytes + n
    /\ queued' = queued + n
    /\ UNCHANGED <<fileVars, settled, rxVars>>

\* write(buffer, n): what does not fit is not taken.
Write(n) ==
    LET k == IF n <= SIZE - requestedBytes THEN n ELSE SIZE - requestedBytes IN
        /\ queued + k <= MaxQueued
        /\ TXbuf' = [i \in Places |->
                        IF i \in requestedBytes .. requestedBytes + k - 1
                        THEN queued + 1 + (i - requestedBytes)
                        ELSE TXbuf[i]]
        /\ requestedBytes' = requestedBytes + k
        /\ queued' = queued + k
        /\ UNCHANGED <<fileVars, settled, rxVars>>

\* endTransmission(true) empties the buffer whether the device took the bytes
\* or not; endTransmission(false), and one with nothing pending, do nothing.
EndTransmission ==
    /\ requestedBytes > 0
    /\ requestedBytes' = 0
    /\ settled' = queued
    /\ UNCHANGED <<fileVars, TXbuf, queued, rxVars>>

-----------------------------------------------------------------------------
(* Receiving.                                                              *)

Unread == IF RXindex < RXlen THEN RXlen - RXindex ELSE 0

Ask(count) ==
    /\ requests < MaxRequests
    /\ requests' = requests + 1
    /\ count <= SIZE
    /\ drains => Unread = 0

\* The device sends n bytes into the buffer.
Answer(n) ==
    /\ answers' = requests + 1
    /\ RXbuf' = [i \in Places |-> IF i < n
                                  THEN [answer |-> requests + 1, place |-> i]
                                  ELSE RXbuf[i]]

\* requestFrom with pending bytes sends these and reads, in one transfer.  The
\* bytes stay pending, and the read cursor stays where it is.
RequestCombined(o, count) ==
    /\ Ask(count)
    /\ requestedBytes > 0
    /\ i2c_file[o] = "open"
    /\ Answer(count)
    /\ RXlen' = count
    /\ owed' = count
    /\ UNCHANGED <<fileVars, txVars, RXindex, given>>

\* Mutant: the length in the buffer is returned, also when it is an old one.
RequestFailedReturnsLength(count) ==
    /\ Ask(count)
    /\ requestedBytes > 0
    /\ owed' = RXlen
    /\ UNCHANGED <<fileVars, txVars, RXbuf, RXlen, RXindex, answers, given>>

\* Mutant: the length is set before the result is looked at.
RequestFailedSetsLength(count) ==
    /\ Ask(count)
    /\ requestedBytes > 0
    /\ RXlen' = count
    /\ owed' = 0
    /\ UNCHANGED <<fileVars, txVars, RXbuf, RXindex, answers, given>>

\* The transfer fails: the buffer keeps its old answer, which can still be read,
\* and only the 0 that is returned tells.
RequestFailed(count) ==
    /\ Ask(count)
    /\ requestedBytes > 0
    /\ owed' = 0
    /\ UNCHANGED <<fileVars, txVars, RXbuf, RXlen, RXindex, answers, given>>

\* With nothing pending, a plain read of what the device gives; nothing, if it
\* fails.
RequestPlain(o, count) ==
    /\ Ask(count)
    /\ requestedBytes = 0
    /\ \E n \in 0 .. count :
          /\ IF n > 0 THEN i2c_file[o] = "open" /\ Answer(n)
                      ELSE UNCHANGED <<RXbuf, answers>>
          /\ RXlen' = n
          /\ owed' = n
    /\ RXindex' = 0
    /\ UNCHANGED <<fileVars, txVars, given>>

\* Mutant: a byte that leaves the cursor at the end of the answer is kept.
ReadKeepsLast ==
    /\ Unread > 0
    /\ given' = given \cup {RXbuf[RXindex]}
    /\ owed' = IF owed > 0 THEN owed - 1 ELSE 0
    /\ IF RXindex + 1 = RXlen THEN RXindex' = 0 ELSE RXindex' = RXindex + 1
    /\ UNCHANGED <<fileVars, txVars, RXbuf, RXlen, requests, answers>>

\* read, from the buffer.  The last byte resets cursor and length.
Read ==
    /\ Unread > 0
    /\ given' = given \cup {RXbuf[RXindex]}
    /\ owed' = IF owed > 0 THEN owed - 1 ELSE 0
    /\ \/ /\ RXindex + 1 = RXlen \/ RXindex + 1 > SIZE - 1
          /\ RXindex' = 0
          /\ RXlen' = 0
       \/ /\ RXindex + 1 # RXlen
          /\ RXindex + 1 <= SIZE - 1
          /\ RXindex' = RXindex + 1
          /\ UNCHANGED RXlen
    /\ UNCHANGED <<fileVars, txVars, RXbuf, requests, answers>>

-----------------------------------------------------------------------------
Next ==
    \/ \E o \in Objects : Begin(o) \/ End(o)
    \/ BeginTransmission
    \/ \E n \in 1 .. SIZE : Write(n)
    \/ EndTransmission
    \/ \E o \in Objects, count \in 0 .. SIZE :
          RequestCombined(o, count) \/ RequestPlain(o, count)
    \/ \E count \in 0 .. SIZE : RequestFailed(count)
    \/ Read

Spec == Init /\ [][Next]_vars

-----------------------------------------------------------------------------
(* Safety.                                                                 *)

\* What the next transfer sends is, in order and to the byte, what write has
\* accepted since the last beginTransmission or endTransmission(true): whatever
\* failed, was cut off at SIZE, or was sent in combined transfers meanwhile.
PendingExact ==
    /\ requestedBytes = queued - settled
    /\ \A i \in Places : i < requestedBytes => TXbuf[i] = settled + 1 + i

\* The bytes still to be read are those of one answer, each at its place, however
\* short it was and wherever the cursor was left.  It is the answer to the last
\* request as long as fewer bytes were read than that returned; after a request
\* that failed, old bytes pass for new ones only if its 0 is ignored.
OneAnswer ==
    /\ \A i \in Places : i < RXlen => RXbuf[i] = [answer |-> answers, place |-> i]
    /\ owed > 0 => answers = requests

\* No byte is read twice.
NoByteTwice == [][Read => RXbuf[RXindex] \notin given]_vars

\* A program that reads every answer to its end before the next request can read
\* exactly as many bytes as requestFrom returned.
DrainedServed == drains => owed = Unread

-----------------------------------------------------------------------------
(* What comments of the code say, and the code does not keep.              *)

\* LinuxHardwareI2C.h:99 and :142: requestFrom returns the "number of bytes
\* received, or 0 on error", and these are "available to read from the RX buffer";
\* LinuxHardwareI2C.cpp:250: after an error the "caller checks RXlen == 0".
AnswerAvailable == owed = Unread
=============================================================================
