------------------------------- MODULE Serial -------------------------------
(***************************************************************************)
(* The serial ports (linux/LinuxSerial.cpp): LinuxSerial opens a tty,      *)
(* sets its speed through one termios structure that all objects share,    *)
(* and closes it; SimSerial is the console, on stdout, where logging.cpp   *)
(* writes.                                                                 *)
(*                                                                         *)
(* Descriptors are numbers that the process uses again: each is tagged     *)
(* here with who opened it, which the program cannot see.                  *)
(***************************************************************************)
EXTENDS Integers, FiniteSetsExt

CONSTANTS
    Ports,     \* the LinuxSerial objects
    Devices,   \* the paths of ttys
    Speeds,    \* baud rates the switch in begin knows
    OddRates,  \* baud rates it does not know, and hands to termios as they are
    Taken,     \* the speed that cfsetospeed takes some of them for
    MaxFd,     \* bound: the descriptors of the process, after the standard ones
    NoPath,    \* the empty path
    NoSpeed,   \* B0
    Free,      \* a descriptor number not in use
    File,      \* one that belongs to another part of the program
    Lost       \* one whose number no object has any more

SerialAssumption ==
    /\ DOMAIN Taken \subseteq OddRates
    /\ Speeds \cap OddRates = {} /\ NoSpeed \notin Speeds \cup OddRates
    /\ NoPath \notin Devices
    /\ MaxFd \in Nat
    /\ Ports \cap {Free, File, Lost} = {}
    /\ Free # File /\ File # Lost /\ Lost # Free

VARIABLES
    serial_port,  \* per port: the descriptor number, or -1
    path,         \* per port: the path of the next begin
    ended,        \* per port: end was called since its last begin
    fds,          \* per descriptor number: who opened it
    tty,          \* the speed in the shared termios structure
    speed,        \* per device: the speed it is set to
    asked,        \* per device: the speed the process found and those asked
    tidy,         \* the program has ended each port once for each begin
    stray,        \* a call of a port went to a descriptor not its own
    lineBuffered, \* stdout is line-buffered
    held,         \* what stdout holds back: a partial line, a complete one
    cut           \* a complete line was lost

portVars == <<serial_port, path, ended, fds, tty, speed, asked, tidy, stray>>
consoleVars == <<lineBuffered, held, cut>>
vars == <<portVars, consoleVars>>

Fds == 0 .. MaxFd - 1

\* What a device may be set to.
Settable == Speeds \cup {NoSpeed} \cup {Taken[b] : b \in DOMAIN Taken}

TypeOK ==
    /\ serial_port \in [Ports -> Fds \cup {-1}]
    /\ path \in [Ports -> Devices \cup {NoPath}]
    /\ ended \in [Ports -> BOOLEAN]
    /\ fds \in [Fds -> Ports \cup {Free, File, Lost}]
    /\ tty \in Settable
    /\ speed \in [Devices -> Settable]
    /\ asked \in [Devices -> SUBSET Settable]
    /\ {tidy, stray, lineBuffered, cut} \subseteq BOOLEAN
    /\ held \subseteq {"partial", "complete"}

\* The objects of a new process.
Objects ==
    /\ serial_port' = [o \in Ports |-> -1]
    /\ path' = [o \in Ports |-> NoPath]
    /\ ended' = [o \in Ports |-> TRUE]
    /\ tty' = NoSpeed /\ asked' = [d \in Devices |-> {speed[d]}]
    /\ lineBuffered' = FALSE /\ held' = {}

Init ==
    /\ serial_port = [o \in Ports |-> -1]
    /\ path = [o \in Ports |-> NoPath]
    /\ ended = [o \in Ports |-> TRUE]
    /\ fds = [f \in Fds |-> Free]
    /\ tty = NoSpeed
    /\ \E s \in Speeds : speed = [d \in Devices |-> s]
    /\ asked = [d \in Devices |-> {speed[d]}]
    /\ tidy = TRUE /\ stray = FALSE
    /\ lineBuffered = FALSE /\ held = {} /\ cut = FALSE

-----------------------------------------------------------------------------
(* LinuxSerial.                                                            *)

FreeFds == {f \in Fds : fds[f] = Free}

SetPath(o, d) ==
    /\ path' = [path EXCEPT ![o] = d]
    /\ UNCHANGED <<serial_port, ended, fds, tty, speed, asked, tidy, stray,
                   consoleVars>>

\* A number that begin overwrites while its descriptor is open is lost.
Forgotten(o) == [f \in Fds |-> IF fds[f] = o THEN Lost ELSE fds[f]]

\* Mutant: a rate that the switch does not know is stored as it is.
RateRaw(baud, before) == baud

\* The switch, cfsetispeed and cfsetospeed.  A rate that these refuse leaves the
\* structure as tcgetattr filled it, or, if that failed, as the last begin did.
Rate(baud, before) ==
    CASE baud \in Speeds       -> baud
      [] baud \in DOMAIN Taken -> Taken[baud]
      [] OTHER                 -> before

\* The speed that a begin asks for, if it asks for one.
AskedWith(baud) ==
    ({baud} \cap Speeds) \cup {Taken[b] : b \in {baud} \cap DOMAIN Taken}

\* Everything but the device: begin was called.
Begun(o) ==
    /\ ended' = [ended EXCEPT ![o] = FALSE]
    /\ tidy' = (tidy /\ (ended[o] \/ serial_port[o] = -1))
    /\ UNCHANGED <<path, stray, consoleVars>>

BeginOpens(o, baud, got) ==
    LET f == Min(FreeFds)
        d == path[o]
    IN  /\ d \in Devices /\ FreeFds # {}
        /\ serial_port' = [serial_port EXCEPT ![o] = f]
        /\ fds' = [Forgotten(o) EXCEPT ![f] = o]
        /\ tty' = Rate(baud, got)
        /\ speed' = [speed EXCEPT ![d] = tty']
        /\ asked' = [asked EXCEPT ![d] = @ \cup AskedWith(baud)]
        /\ Begun(o)

\* Mutant: the settings are not read from the device first.
BeginOverwrites(o, baud) == BeginOpens(o, baud, tty)

Begin(o, baud) == BeginOpens(o, baud, speed[path[o]])

\* open fails: no path, no such device, no descriptor left.  tcgetattr and
\* tcsetattr fail with it.
BeginFailsWith(o, baud, number) ==
    /\ serial_port' = [serial_port EXCEPT ![o] = number]
    /\ fds' = Forgotten(o)
    /\ tty' = Rate(baud, tty)
    /\ Begun(o)
    /\ UNCHANGED <<speed, asked>>

\* Mutant: the member keeps the number of the descriptor before.
BeginFailsQuietly(o, baud) == BeginFailsWith(o, baud, serial_port[o])

BeginFails(o, baud) == BeginFailsWith(o, baud, -1)

\* A call uses the descriptor the member names, whoever has opened it.
Touches(o) ==
    /\ stray' = (stray \/ /\ serial_port[o] # -1
                          /\ fds[serial_port[o]] \notin {o, Free})
    /\ tidy' = (tidy /\ (ended[o] => serial_port[o] = -1))

\* end closes the descriptor, and the member keeps its number.
End(o) ==
    /\ Touches(o)
    /\ fds' = IF serial_port[o] = -1 THEN fds
              ELSE [fds EXCEPT ![serial_port[o]] = Free]
    /\ ended' = [ended EXCEPT ![o] = TRUE]
    /\ UNCHANGED <<serial_port, path, tty, speed, asked, consoleVars>>

\* available, read and write.
Use(o) ==
    /\ Touches(o)
    /\ UNCHANGED <<serial_port, path, ended, fds, tty, speed, asked,
                   consoleVars>>

\* Another part of the program opens or closes a file.
OpenFile ==
    /\ FreeFds # {}
    /\ fds' = [fds EXCEPT ![Min(FreeFds)] = File]
    /\ UNCHANGED <<serial_port, path, ended, tty, speed, asked, tidy, stray,
                   consoleVars>>

CloseFile(f) ==
    /\ fds[f] = File
    /\ fds' = [fds EXCEPT ![f] = Free]
    /\ UNCHANGED <<serial_port, path, ended, tty, speed, asked, tidy, stray,
                   consoleVars>>

-----------------------------------------------------------------------------
(* SimSerial, and logging, which writes each message and then a newline.   *)

\* Mutant: stdout keeps the buffering it has when it is not a terminal.
ConfigureNothing == UNCHANGED <<portVars, consoleVars>>

\* The constructor of Serial, before main and, as its comment has it, before any
\* output: what constructors that run earlier might print is left out.
Configure ==
    /\ ~lineBuffered /\ held = {}
    /\ lineBuffered' = TRUE
    /\ UNCHANGED <<portVars, held, cut>>

WriteByte ==
    /\ held' = held \cup {"partial"}
    /\ UNCHANGED <<portVars, lineBuffered, cut>>

WriteNewline ==
    /\ held' = IF lineBuffered THEN {} ELSE {"complete"}
    /\ UNCHANGED <<portVars, lineBuffered, cut>>

\* flush, or stdio's buffer is full.
Flush ==
    /\ held' = {}
    /\ UNCHANGED <<portVars, lineBuffered, cut>>

Next ==
    \/ \E o \in Ports :
          \/ \E d \in Devices : SetPath(o, d)
          \/ \E baud \in Speeds \cup OddRates :
                Begin(o, baud) \/ BeginFails(o, baud)
          \/ End(o) \/ Use(o)
    \/ OpenFile \/ \E f \in Fds : CloseFile(f)
    \/ WriteByte \/ WriteNewline \/ Flush

-----------------------------------------------------------------------------
(* The end of the process.                                                 *)

LosesOutput == cut' = (cut \/ "complete" \in held)

\* execv: the descriptors stay open, and their numbers are forgotten.
Replaced ==
    /\ Objects /\ LosesOutput
    /\ fds' = [f \in Fds |-> IF fds[f] = Free THEN Free ELSE Lost]
    /\ tidy' = (tidy /\ \A f \in Fds : fds[f] = Free)
    /\ UNCHANGED <<speed, stray>>

\* A signal: the kernel closes them.
Killed ==
    /\ Objects /\ LosesOutput
    /\ fds' = [f \in Fds |-> Free]
    /\ tidy' = TRUE /\ stray' = FALSE
    /\ UNCHANGED speed

-----------------------------------------------------------------------------
(* Safety.                                                                 *)

\* A program that ends each port once for each begin, and before it reboots,
\* loses no descriptor, and no call of a port reaches what others opened,
\* whichever begins failed and however often numbers were used again.
OwnDescriptor == tidy => ~stray /\ \A f \in Fds : fds[f] # Lost

\* In spite of the shared termios structure and of begins that failed, a
\* device runs at the speed the process found or at one asked for it, or for
\* which termios takes a rate asked for it.
SpeedAsked == \A d \in Devices : speed[d] \in asked[d]

\* A reboot or a crash loses no log line that was complete.
LinesOut == ~cut

=============================================================================
