------------------------------- MODULE Runtime -------------------------------
(***************************************************************************)
(* The life of the program (main.cpp): ardulinux_main takes the arguments, *)
(* makes or erases the root of the file system, and runs setup and loop    *)
(* until the application reboots, which replaces the process by a new one  *)
(* with the arguments that were kept for it.                               *)
(*                                                                         *)
(* The arguments are a sequence of words after the name of the program.    *)
(* argp takes a word of Shortened for --erase as well: an abbreviation, or *)
(* letters in one word.                                                    *)
(*                                                                         *)
(* The erase removes one entry after another; other processes use the      *)
(* directory meanwhile, a remove may fail, and the process may be killed.  *)
(***************************************************************************)
EXTENDS Sequences, SequencesExt

CONSTANTS
    CommandLines,  \* what the program may be started with
    Shortened,     \* words that argp, and not strcmp, knows as --erase
    Bad,           \* a word argp refuses, or answers and exits: --help
    Default,       \* the root under XDG_DATA_HOME
    Entries,       \* what may be in a root
    Parent,        \* per entry: the directory it is in
    Top            \* the root itself, as a parent

EraseWords == {"-e", "--erase"}
Words == UNION {ToSet(a) : a \in CommandLines}
Roots == Words \cup {Default}

RuntimeAssumption ==
    /\ \A a \in CommandLines : a \in Seq(Words)
    /\ Parent \in [Entries -> Entries \cup {Top}]
    /\ Top \notin Entries /\ Default \notin Words
    /\ Shortened \cap (EraseWords \cup {"-d", Bad}) = {}

VARIABLES
    phase,      \* what ardulinux_main is doing
    command,    \* the arguments of the first start
    argv,       \* those of this process
    rebooted,   \* this process was started by reboot
    erase,      \* ardulinuxArguments.erase
    root,       \* fsRoot
    made,       \* the roots that exist
    content,    \* per root: its entries
    todo,       \* the entries the erase has found and not visited
    disturbed   \* others changed the root during the erase, part of it cannot
                \* be read, or a remove failed

startVars == <<command, argv, rebooted>>
diskVars  == <<made, content>>
vars == <<phase, startVars, erase, root, diskVars, todo, disturbed>>

\* Sets of entries that are each in a directory that is there.
Trees == {S \in SUBSET Entries : \A e \in S : Parent[e] \in S \cup {Top}}

TypeOK ==
    /\ phase \in {"start", "mkdir", "erase", "run", "exit"}
    /\ command \in CommandLines
    /\ argv \in Seq(Words)
    /\ {rebooted, erase, disturbed} \subseteq BOOLEAN
    /\ root \in Roots
    /\ made \subseteq Roots
    /\ content \in [Roots -> Trees]
    /\ todo \subseteq Entries

Init ==
    /\ phase = "start"
    /\ command \in CommandLines /\ argv = command
    /\ rebooted = FALSE /\ erase = FALSE /\ disturbed = FALSE
    /\ root = Default
    /\ made \in {{}, Roots}
    /\ content = [r \in Roots |-> IF r \in made THEN Entries ELSE {}]
    /\ todo = {}

-----------------------------------------------------------------------------
(* The arguments.                                                          *)

\* The loop that copies the words of a, except for some.
Without(a, words) ==
    LET kept[i \in 0 .. Len(a)] ==
            IF i = 0 THEN <<>>
            ELSE IF a[i] \in words THEN kept[i - 1]
            ELSE Append(kept[i - 1], a[i])
    IN  kept[Len(a)]

\* Mutant: only the long option is stripped.
StripLong(a) == Without(a, {"--erase"})

\* progArgv: words are compared, options are not understood.
Strip(a) == Without(a, EraseWords)

\* The word is the DIR of a -d before it.
IsDir(a) ==
    LET dir[i \in 0 .. Len(a)] ==
            i > 1 /\ a[i - 1] = "-d" /\ ~dir[i - 1]
    IN  dir

Options(a) == {i \in 1 .. Len(a) : ~IsDir(a)[i]}

\* argp_parse ends the process: a -d without DIR, an unknown word, --help.
Refuses(a) ==
    \E i \in Options(a) : a[i] = Bad \/ (a[i] = "-d" /\ i = Len(a))

\* The last -d counts.
FsDir(a) ==
    LET dirs == {i \in 1 .. Len(a) : IsDir(a)[i]}
    IN  IF dirs = {} THEN Default
        ELSE a[CHOOSE i \in dirs : \A j \in dirs : j <= i]

Erases(a) == \E i \in Options(a) : a[i] \in EraseWords \cup Shortened

-----------------------------------------------------------------------------
(* ardulinux_main.                                                         *)

Start ==
    /\ phase = "start"
    /\ \/ ~Refuses(argv) /\ phase' = "mkdir"
       \/ Refuses(argv) /\ phase' = "exit"
    /\ erase' = Erases(argv) /\ root' = FsDir(argv)
    /\ disturbed' = FALSE
    /\ UNCHANGED <<startVars, diskVars, todo>>

\* What nftw finds: all but what is below directories it cannot read.
Found(C) ==
    {S \in Trees :
        /\ S \subseteq C
        /\ \A d \in S \cup {Top} :
              {e \in C : Parent[e] = d} \cap S \in {{}, {e \in C : Parent[e] = d}}}

\* The root is made, or was there and is erased first.  mkdir fails also
\* where the directory above is missing, and the program goes on without.
MakeRoot ==
    /\ phase = "mkdir"
    /\ \/ /\ root \notin made
          /\ made' \in {made, made \cup {root}}
          /\ phase' = "run" /\ UNCHANGED <<todo, disturbed>>
       \/ /\ root \in made /\ erase
          /\ phase' = "erase" /\ todo' \in Found(content[root])
          /\ disturbed' = (todo' # content[root])
          /\ UNCHANGED made
       \/ /\ root \in made /\ ~erase
          /\ phase' = "run" /\ UNCHANGED <<made, todo, disturbed>>
    /\ UNCHANGED <<startVars, erase, root, content>>

\* unlink_cb: remove fails on a directory with something in it, on an entry
\* that is gone, and for the system's reasons; nftw then stops.
RemoveEntry(e) ==
    /\ phase = "erase"
    /\ \/ /\ e \in content[root] /\ \A x \in content[root] : Parent[x] # e
          /\ content' = [content EXCEPT ![root] = @ \ {e}]
          /\ todo' = todo \ {e}
          /\ UNCHANGED <<phase, disturbed>>
       \/ /\ phase' = "run" /\ todo' = {}
          /\ disturbed' =
                (disturbed \/ /\ e \in content[root]
                              /\ \A x \in content[root] : Parent[x] # e)
          /\ UNCHANGED content
    /\ UNCHANGED <<startVars, erase, root, made>>

\* Mutant: a directory is visited before what is in it.
VisitDown(e) == e \in todo /\ Parent[e] \notin todo /\ RemoveEntry(e)

\* nftw with FTW_DEPTH.
Visit(e) == e \in todo /\ (\A x \in todo : Parent[x] # e) /\ RemoveEntry(e)

\* Mutant: the root is removed as well.
VisitedTop ==
    /\ phase = "erase" /\ todo = {}
    /\ phase' = "run" /\ made' = made \ {root}
    /\ UNCHANGED <<startVars, erase, root, content, todo, disturbed>>

\* Level 0, the root itself, is left.
Visited ==
    /\ phase = "erase" /\ todo = {}
    /\ phase' = "run"
    /\ UNCHANGED <<startVars, erase, root, diskVars, todo, disturbed>>

\* The application creates and removes files.
Changes ==
    /\ phase = "run" /\ root \in made
    /\ \E S \in Trees : content' = [content EXCEPT ![root] = S]
    /\ UNCHANGED <<phase, startVars, erase, root, made, todo, disturbed>>

\* Another process does, while the erase goes on, which may find the change or
\* have read the directory before.
OthersChange(e) ==
    /\ phase = "erase"
    /\ \/ /\ content' = [content EXCEPT ![root] = @ \cup {e}]
          /\ todo' \in {todo, todo \cup {e}}
       \/ /\ content' = [content EXCEPT ![root] = @ \ {e}]
          /\ todo' \in {todo, todo \ {e}}
    /\ content'[root] \in Trees
    /\ disturbed' = TRUE
    /\ UNCHANGED <<phase, startVars, erase, root, made>>

Reboot ==
    /\ phase = "run"
    /\ phase' = "start" /\ argv' = Strip(argv) /\ rebooted' = TRUE
    /\ UNCHANGED <<command, erase, root, diskVars, todo, disturbed>>

\* execv does not find the program, which was started by a name in PATH.
RebootFails ==
    /\ phase = "run"
    /\ phase' = "exit"
    /\ UNCHANGED <<startVars, erase, root, diskVars, todo, disturbed>>

\* The process is killed, or has ended, and the service is started again.
Restart ==
    /\ phase # "start"
    /\ phase' = "start" /\ argv' = command /\ rebooted' = FALSE
    /\ todo' = {} /\ disturbed' = FALSE
    /\ UNCHANGED <<command, erase, root, diskVars>>

-----------------------------------------------------------------------------
(* Safety.                                                                 *)

\* argp takes a word for --erase that Strip does not know.
Abbreviates(a) == \E i \in 1 .. Len(a) : a[i] \in Shortened

\* No word that Strip drops is the DIR of a -d.
DirsKept(a) == \A i \in 1 .. Len(a) : a[i] \in EraseWords => i \in Options(a)

\* However often it reboots, the program erases nothing, but for one whose --erase
\* is abbreviated, which may erase again at each reboot.  It has the root it was
\* started with and starts, unless a DIR was spelled -e or --erase, which is lost.
RebootKeepsFiles ==
    rebooted /\ phase # "start" =>
        /\ phase = "erase" => Abbreviates(command)
        /\ DirsKept(command) =>
              root = FsDir(command) /\ (phase = "exit" => ~Refuses(argv))

\* An erase that nothing disturbs leaves an empty root, also after one that
\* was killed half way, provided that it can read the directories it finds.
EraseComplete ==
    [][phase = "erase" /\ phase' = "run" /\ ~disturbed' =>
           root \in made' /\ content'[root] = {}]_vars

\* main.cpp:239-240: progArgv "has --erase stripped to avoid re-wiping the
\* filesystem".  An abbreviated --erase refutes this; no configuration checks it.
RebootNeverErases == rebooted => phase # "erase"

=============================================================================
