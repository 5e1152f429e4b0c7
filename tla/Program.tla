------------------------------- MODULE Program -------------------------------
(***************************************************************************)
(* A program from its first start through reboots and kills: Runtime, and  *)
(* Serial in its main loop.  execv hands the descriptors on to the new     *)
(* process, which knows none of them, and drops what stdout holds back; a  *)
(* kill closes them.                                                       *)
(***************************************************************************)
EXTENDS Integers

CONSTANTS
    CommandLines, Shortened, Bad, Default, Entries, Parent, Top,
    Ports, Devices, Speeds, OddRates, Taken, MaxFd, NoPath, NoSpeed, Free, File, Lost

VARIABLES
    phase, command, argv, rebooted, erase, root, made, content, todo,
    disturbed,
    serial_port, path, ended, fds, tty, speed, asked, tidy, stray,
    lineBuffered, held, cut

R == INSTANCE Runtime
S == INSTANCE Serial

ASSUME ProgramAssumption == R!RuntimeAssumption /\ S!SerialAssumption

runtimeVars == <<phase, command, argv, rebooted, erase, root, made, content,
                 todo, disturbed>>
portVars == <<serial_port, path, ended, fds, tty, speed, asked, tidy, stray>>
serialVars == <<portVars, lineBuffered, held, cut>>
vars == <<runtimeVars, serialVars>>

Init == R!Init /\ S!Init

\* The constructors of static objects run before main.
Start == R!Start /\ S!Configure

\* What ardulinux_main does without the serial ports.
Main ==
    /\ \/ R!MakeRoot \/ R!Visited \/ R!Changes
       \/ \E e \in Entries : R!Visit(e) \/ R!OthersChange(e)
    /\ UNCHANGED serialVars

\* setup and loop of the application.
Loop == phase = "run" /\ S!Next /\ UNCHANGED runtimeVars

Reboot == R!Reboot /\ S!Replaced

\* exit flushes stdout.
RebootFails ==
    /\ R!RebootFails
    /\ held' = {}
    /\ UNCHANGED <<portVars, lineBuffered, cut>>

Restart == R!Restart /\ S!Killed

Next == Start \/ Main \/ Loop \/ Reboot \/ RebootFails \/ Restart

Spec == Init /\ [][Next]_vars

-----------------------------------------------------------------------------

TypeOK           == R!TypeOK /\ S!TypeOK
RebootKeepsFiles == R!RebootKeepsFiles
EraseComplete    == R!EraseComplete
OwnDescriptor    == S!OwnDescriptor
SpeedAsked       == S!SpeedAsked
LinesOut         == S!LinesOut

=============================================================================
