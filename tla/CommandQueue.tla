----------------------------- MODULE CommandQueue -----------------------------
(***************************************************************************)
(* The command queue of agent_exec: the list of commands in memory, the    *)
(* .command files it is fed from, the .queue file it is saved to, the main *)
(* loop (load, run, save) and the requests that change the list while the  *)
(* loop is under way.  The two threads share the list without a lock;     *)
(* run_commands and save_commands walk it entry by entry, and every other  *)
(* operation on it is one step here.                                       *)
(***************************************************************************)
EXTENDS Integers, SequencesExt

CONSTANTS
  Commands,      \* the commands a user may submit, each once
  Due,           \* Due[c]: the time c is to be run at (mjd)
  Repeated,      \* the commands that are conditional and repeatable
  \* bounds of the model
  MaxTime, MaxCrashes,
  MaxFailures    \* system calls that fail (opendir, open, remove, fork, fopen, fprintf)

ASSUME CommandAssumption ==
  /\ MaxTime \in Nat /\ MaxCrashes \in Nat /\ MaxFailures \in Nat
  /\ Due \in [Commands -> 0 .. MaxTime] /\ Repeated \subseteq Commands

VARIABLES
  now,
  incoming,     \* the .command files, one command in each
  commands,     \* CommandQueue::commands
  changed,      \* CommandQueue::queue_changed
  saved,        \* the .queue file
  pc,           \* where the main loop is
  todo,         \* what readdir has still to return
  request,      \* what is left to do for the request under way
  \* history and bounds
  submitted, deleted, runs,
  pass,         \* of the run under way: the last command run, and whether no
                \* request has touched the list since it was sorted
  kept,         \* the commands that were in the .queue file after a save, and that no crash
                \* during a later save, or request that got into one, has taken from it
  mixed,        \* a request moved or removed entries under the walk that wrote the file
  reread,       \* the process began with such a file
  crashes, failures

memory == <<commands, changed, pc, todo, request>>
ofSaves == <<kept, mixed, reread>>
history == <<submitted, deleted, runs, pass, ofSaves>>
queueVars == <<now, incoming, saved, memory, history, crashes, failures>>

\* An entry of the list: has it been run (the flag ACTUAL, which is saved, and
\* already_ran, which is not), and is the iterator of run_commands or save_commands here?
Entry == [cmd : Commands, actual : BOOLEAN, ran : BOOLEAN, here : BOOLEAN]
NewEntry(c, actual) == [cmd |-> c, actual |-> actual, ran |-> FALSE, here |-> FALSE]

InQueue == { commands[i].cmd : i \in DOMAIN commands }

Init ==
  /\ now = 0
  /\ incoming = {} /\ saved = <<>>
  /\ commands = <<>> /\ changed = FALSE /\ pc = "idle" /\ todo = {} /\ request = "none"
  /\ submitted = {} /\ deleted = {} /\ runs = [c \in Commands |-> 0]
  /\ pass = [last |-> 0, clean |-> TRUE] /\ kept = {}
  /\ mixed = FALSE /\ reread = FALSE
  /\ crashes = 0 /\ failures = 0

Fails == failures < MaxFailures /\ failures' = failures + 1

Mark(list, i) == [j \in DOMAIN list |-> [list[j] EXCEPT !.here = j = i]]

\* The elements of list at the places in K, in the order before of these places.
Arranged(list, K, before) ==
  LET Place(i) == 1 + Cardinality({ j \in K : <<j, i>> \in before })
  IN  [n \in 1 .. Cardinality(K) |-> list[CHOOSE i \in K : Place(i) = n]]

Earlier(list, i, j) ==
  \/ Due[list[i].cmd] < Due[list[j].cmd]
  \/ Due[list[i].cmd] = Due[list[j].cmd] /\ i < j

Unsorted(list) == list   \* mutant: sort() forgotten

\* std::list::sort keeps the order of commands that are due at the same time.
Sorted(list) ==
  LET K == DOMAIN list
  IN  Arranged(list, K, { p \in K \X K : Earlier(list, p[1], p[2]) })

\* The list without the entries for c with the given flag.
Without(list, c, actual) ==
  LET K == { i \in DOMAIN list : list[i].cmd # c \/ list[i].actual # actual }
  IN  Arranged(list, K, { p \in K \X K : p[1] < p[2] })

-----------------------------------------------------------------------------
(* The user. *)

Tick ==
  /\ now < MaxTime /\ now' = now + 1
  /\ UNCHANGED <<incoming, saved, memory, history, crashes, failures>>

SubmitFile(c) ==
  /\ c \notin submitted
  /\ submitted' = submitted \cup {c} /\ incoming' = incoming \cup {c}
  /\ UNCHANGED <<now, saved, memory, deleted, runs, pass, ofSaves, crashes, failures>>

-----------------------------------------------------------------------------
(* load_commands *)

\* mutant: run_commands looks at an entry before it looks whether there is one
StartRunAlways(list) ==
  commands' = Mark(list, 1) /\ pc' = "run" /\ pass' = [last |-> 0, clean |-> TRUE]

\* run_commands starts at the first entry.
StartRun(list) ==
  /\ commands' = Mark(list, 1)
  /\ pc' = IF list = <<>> THEN "save" ELSE "run"
  /\ pass' = [last |-> 0, clean |-> TRUE]

BeginPass ==
  /\ pc = "idle"
  /\ \/ pc' = "load" /\ todo' = incoming /\ UNCHANGED <<commands, pass, failures>>
     \/ Fails /\ StartRun(commands) /\ UNCHANGED todo
  /\ UNCHANGED <<now, incoming, saved, changed, request, submitted, deleted, runs, ofSaves>>
  /\ UNCHANGED crashes

\* A file that cannot be opened is passed over; one that cannot be removed is
\* loaded again in the next pass.
LoadFile(c) ==
  /\ pc = "load" /\ c \in todo /\ todo' = todo \ {c}
  /\ \/ Fails /\ UNCHANGED <<commands, changed, incoming>>
     \/ /\ commands' = Append(commands, NewEntry(c, FALSE)) /\ changed' = TRUE
        /\ \/ incoming' = incoming \ {c} /\ UNCHANGED failures
           \/ Fails /\ UNCHANGED incoming
  /\ UNCHANGED <<now, saved, pc, request, history, crashes>>

EndLoad ==
  /\ pc = "load" /\ todo = {}
  /\ StartRun(Sorted(commands))
  /\ UNCHANGED <<now, incoming, saved, changed, todo, request>>
  /\ UNCHANGED <<submitted, deleted, runs, ofSaves, crashes, failures>>

-----------------------------------------------------------------------------
(* run_commands *)

IsReadyLate(c) == Due[c] < now   \* mutant: off by one
IsReady(c) == Due[c] <= now

\* The condition of a conditional command is never looked at: condition_true
\* returns true.
Runs(e) == IsReady(e.cmd) /\ ~(e.cmd \in Repeated /\ e.ran)

\* mutant: the entry that was run stays
DoneNever(list, i) == Mark(list, i + 1)

\* The list and its iterator after the entry at i was run.
Done(list, i) ==
  IF list[i].cmd \in Repeated
    THEN Mark([list EXCEPT ![i].actual = TRUE, ![i].ran = TRUE], i + 1)
    ELSE Mark(RemoveAt(list, i), i)

\* run_command clears nothing and retries nothing when fork fails.
RunEntry ==
  /\ pc = "run"
  /\ \E i \in DOMAIN commands :
       LET e == commands[i]
       IN  /\ e.here
           /\ pc' = IF i = Len(commands) THEN "save" ELSE "run"
           /\ \/ /\ ~Runs(e)
                 /\ commands' = Mark(commands, i + 1)
                 /\ UNCHANGED <<changed, runs, pass, failures>>
              \/ /\ Runs(e)
                 /\ commands' = Done(commands, i)
                 /\ changed' = TRUE
                 /\ pass' = [pass EXCEPT !.last = Due[e.cmd]]
                 /\ \/ runs' = [runs EXCEPT ![e.cmd] = @ + 1] /\ UNCHANGED failures
                    \/ Fails /\ UNCHANGED runs
  /\ UNCHANGED <<now, incoming, saved, todo, request, submitted, deleted, ofSaves, crashes>>

-----------------------------------------------------------------------------
(* save_commands *)

\* The commands that are in a file, and those that are known to be there after the save
\* that wrote it.
Named(file) == { file[i].cmd : i \in DOMAIN file }
Kept(file) == Named(file) \cup (IF mixed THEN {} ELSE kept)

\* fopen(.., "w") empties the file, and the walk begins at the first entry.  When it
\* fails the change is forgotten.
BeginSave ==
  /\ pc = "save"
  /\ \/ ~changed /\ pc' = "idle" /\ UNCHANGED <<commands, changed, saved, mixed, failures>>
     \/ changed /\ changed' = FALSE
        /\ \/ /\ pc' = IF commands = <<>> THEN "idle" ELSE "write"
              /\ commands' = Mark(commands, 1)
              /\ saved' = <<>> /\ mixed' = FALSE /\ UNCHANGED failures
           \/ Fails /\ pc' = "idle" /\ UNCHANGED <<commands, saved, mixed>>
  /\ UNCHANGED <<now, incoming, todo, request, submitted, deleted, runs, pass>>
  /\ UNCHANGED <<kept, reread, crashes>>

Line(e) == [cmd |-> e.cmd, actual |-> e.actual]
Text(list) == [i \in DOMAIN list |-> Line(list[i])]

WriteFirst == commands[1]   \* mutant: the loop prints the front of the list again

\* The walk takes the entry it is at, writes it and goes to the one that is behind it
\* now; after the last it closes the file.  Whether fprintf wrote is not looked at.
WriteEntry ==
  /\ pc = "write"
  /\ \E i \in DOMAIN commands :
       /\ commands[i].here
       /\ commands' = Mark(commands, i + 1)
       /\ \/ saved' = Append(saved, Line(commands[i])) /\ UNCHANGED failures
          \/ Fails /\ UNCHANGED saved
       /\ IF i = Len(commands)
            THEN pc' = "idle" /\ kept' = Kept(saved')
            ELSE UNCHANGED <<pc, kept>>
  /\ UNCHANGED <<now, incoming, changed, todo, request, submitted, deleted, runs, pass>>
  /\ UNCHANGED <<mixed, reread, crashes>>

-----------------------------------------------------------------------------
(* The request thread: add_event, del_event and del_event_id.              *)

AddEvent(c) ==
  /\ pc # "down" /\ request = "none" /\ c \notin submitted
  /\ submitted' = submitted \cup {c}
  /\ commands' = Append(commands, NewEntry(c, FALSE))
  /\ request' = "added"
  /\ pass' = [pass EXCEPT !.clean = FALSE]
  /\ UNCHANGED <<now, incoming, saved, changed, pc, todo, deleted, runs, ofSaves>>
  /\ UNCHANGED <<crashes, failures>>

\* What is gone when the process dies; of a file that was being written a part is left.
Forgotten ==
  /\ commands' = <<>> /\ changed' = FALSE /\ pc' = "down" /\ todo' = {} /\ request' = "none"
  /\ crashes < MaxCrashes /\ crashes' = crashes + 1
  /\ \/ /\ pc = "write" /\ \E n \in 0 .. Len(saved) : saved' = SubSeq(saved, 1, n)
        /\ kept' = kept \cap Named(saved')
     \/ pc # "write" /\ UNCHANGED <<saved, kept>>

\* Every entry equal to the given event goes, if there is one.  When the iterator of
\* run_commands or save_commands was at one of them, what follows is undefined: the
\* process dies, or the walk goes no further.
DelEvent(c, actual) ==
  LET rest == Without(commands, c, actual)
      dangling == \E e \in Range(commands) : e.here /\ e.cmd = c /\ e.actual = actual
  IN  /\ pc # "down" /\ request = "none"
      /\ deleted' = deleted \cup { d \in {c} : rest # commands }
      /\ \/ /\ commands' = rest /\ request' = "deleted"
            /\ pc' = IF ~dangling THEN pc ELSE IF pc = "run" THEN "save" ELSE "idle"
            /\ mixed' = (mixed \/ (dangling /\ pc = "write"))
            /\ kept' = IF dangling /\ pc = "write" THEN Named(saved) ELSE kept
            /\ UNCHANGED <<changed, saved, todo, crashes>>
         \/ dangling /\ Forgotten /\ UNCHANGED mixed
      /\ pass' = [pass EXCEPT !.clean = FALSE]
      /\ UNCHANGED <<now, incoming, submitted, runs, reread, failures>>

FlagIfAdded == changed' = (changed \/ request = "added")   \* mutant: not by del_command
Flag == changed' = TRUE

\* The request then sets the flag, and add_event sorts the list.
EndRequest ==
  /\ \/ /\ request \in {"added", "deleted"} /\ Flag
        /\ request' = IF request = "added" THEN "sort" ELSE "none"
        /\ UNCHANGED <<commands, pass, mixed>>
     \/ /\ request = "sort" /\ request' = "none"
        /\ commands' = Sorted(commands) /\ UNCHANGED changed
        /\ pass' = [pass EXCEPT !.clean = FALSE]
        /\ mixed' = (mixed \/ (pc = "write" /\ commands' # commands))
  /\ UNCHANGED <<now, incoming, saved, pc, todo, submitted, deleted, runs, kept, reread>>
  /\ UNCHANGED <<crashes, failures>>

-----------------------------------------------------------------------------
(* Crash and restart. *)

Crash ==
  /\ pc # "down" /\ Forgotten
  /\ UNCHANGED <<now, incoming, submitted, deleted, runs, pass, mixed, reread, failures>>

ReloadedButLast ==   \* mutant: the last line is taken for the end of the file
  [i \in 1 .. Len(saved) - 1 |-> NewEntry(saved[i].cmd, saved[i].actual)]
Reloaded == [i \in DOMAIN saved |-> NewEntry(saved[i].cmd, saved[i].actual)]

\* main reads the .queue file back before it enters its loop; when it cannot be opened
\* it begins with no commands.
Restart ==
  /\ pc = "down" /\ pc' = "idle"
  /\ \/ /\ commands' = Reloaded /\ changed' = (saved # <<>>) /\ UNCHANGED failures
        /\ reread' = (reread \/ mixed) /\ mixed' = FALSE
     \/ Fails /\ UNCHANGED <<commands, changed, mixed, reread>>
  /\ UNCHANGED <<now, incoming, saved, todo, request, submitted, deleted, runs, pass>>
  /\ UNCHANGED <<kept, crashes>>

-----------------------------------------------------------------------------
MainLoop ==
  BeginPass \/ (\E c \in Commands : LoadFile(c)) \/ EndLoad \/ RunEntry \/ BeginSave \/ WriteEntry

QueueNext ==
  \/ Tick
  \/ \E c \in Commands : SubmitFile(c) \/ AddEvent(c)
  \/ \E c \in Commands, actual \in BOOLEAN : DelEvent(c, actual)
  \/ BeginPass \/ (\E c \in Commands : LoadFile(c)) \/ EndLoad
  \/ RunEntry \/ BeginSave \/ WriteEntry
  \/ EndRequest \/ Crash \/ Restart

QueueSpec == Init /\ [][QueueNext]_queueVars

\* Time passes, the main loop never stops, a request is carried through, and a
\* process that died is started again.
FairQueueSpec ==
  QueueSpec /\ WF_queueVars(Tick) /\ WF_queueVars(MainLoop)
            /\ WF_queueVars(EndRequest) /\ WF_queueVars(Restart)

-----------------------------------------------------------------------------
(* Properties. *)

\* Every variable has its type, and the iterator of a walk is at one entry at most, and
\* at one exactly while a run or a save is under way.
QueueTypeOK ==
  /\ now \in 0 .. MaxTime /\ incoming \subseteq Commands /\ todo \subseteq Commands
  /\ commands \in Seq(Entry) /\ changed \in BOOLEAN
  /\ saved \in Seq([cmd : Commands, actual : BOOLEAN])
  /\ pc \in {"idle", "load", "run", "save", "write", "down"}
  /\ request \in {"none", "added", "sort", "deleted"}
  /\ mixed \in BOOLEAN /\ reread \in BOOLEAN
  /\ Cardinality({ i \in DOMAIN commands : commands[i].here })
       = IF pc \in {"run", "write"} THEN 1 ELSE 0

\* Apart from crashes and failing system calls a command is run once (the condition
\* under which a repeatable one would run again never becomes false), and a crash or
\* a file that cannot be removed makes for one more run of it at most.  Only a process
\* that was started with a file a request got into may run it more often: such a file
\* can hold an entry twice.
RunsBounded == ~reread => \A c \in Commands : runs[c] <= (1 + failures) * (1 + crashes)

Bag(list) == [v \in Range(list) |-> Cardinality({ i \in DOMAIN list : list[i] = v })]

\* When the loop sleeps, no request is under way and nothing is marked as changed,
\* the .queue file holds what the list holds, however requests and saves overlapped,
\* unless a request moved or removed entries in the middle of the save: add_event sorts
\* the list after it marked it as changed, so that nothing makes up for that.
SavedIsQueue ==
  pc = "idle" /\ ~changed /\ request = "none" /\ failures = 0 /\ ~mixed
    => Bag(saved) = Bag(Text(commands))

\* In one pass over the list that no request disturbs, commands are run in the
\* order of the times they are due at.
RunsInOrder ==
  [][\A c \in Commands :
       runs'[c] > runs[c] /\ pass.clean /\ failures = 0 => Due[c] >= pass.last]_queueVars

\* A command that was submitted is run or deleted in the end, unless the process
\* dies or a system call fails.
EventuallyRun ==
  \A c \in Commands :
    c \in submitted ~> runs[c] > 0 \/ c \in deleted \/ crashes > 0 \/ failures > 0

\* A command that was saved and has neither run nor been deleted is in the list
\* or, while the process is down, in the .queue file: only a crash in the middle of
\* a save, which empties the file first, and a request that moves or removes entries in
\* the middle of one take it away.
SavedNeverLost ==
  \A c \in kept :
    runs[c] > 0 \/ c \in deleted \/ failures > 0
      \/ IF pc = "down" THEN \E i \in DOMAIN saved : saved[i].cmd = c ELSE c \in InQueue
=============================================================================
