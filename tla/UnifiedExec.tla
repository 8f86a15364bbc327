----------------------------- MODULE UnifiedExec -----------------------------
(***************************************************************************)
(* Commands that go on in the background of a session                      *)
(* (UnifiedExecProcessManager and UnifiedExecProcess of                    *)
(* pycodex/core/unified_exec, with the exec_command and write_stdin        *)
(* handlers and the exit watcher).                                         *)
(*                                                                         *)
(* Four kinds of threads touch this state.  The event loop runs the        *)
(* handlers; from the spawn to the answer a call does not suspend, so that *)
(* the loop has one job at a time (pc, job, at, on) and calls interleave   *)
(* only while they wait for their approval.  Each process has a reader     *)
(* thread, and an exit watcher once its call is answered.  The terminal    *)
(* interface cleans up all processes from its own thread (sweep).  A       *)
(* process is named by the call that spawned it.                           *)
(***************************************************************************)
EXTENDS Integers, Sequences, FiniteSets

CONSTANTS Calls,        \* calls of exec_command
          Tty,          \* those that ask for a terminal
          Ids,          \* process ids, counted from the first one
          Bytes,        \* how much each process may write (a bound)
          Forking,      \* calls whose process may leave a descendant behind
          Limit,        \* max_processes
          Protected,    \* how many recently used processes are never pruned
          HeadBudget, TailBudget,   \* budgets of a HeadTailBuffer
          None

ASSUME CallsAssumption ==
    /\ IsFiniteSet(Calls) /\ Tty \subseteq Calls /\ None \notin Calls
    /\ Ids \subseteq Nat \ {0}
    /\ HeadBudget \in Nat /\ TailBudget \in Nat \ {0}
    /\ Protected \in Nat \ {0}      \* the eight last used, so the newest

VARIABLES
    stage,      \* where the handler of each call stands
    id,         \* the id it reserved, 0 before
    told,       \* calls whose answer named their id: the process goes on
    reserved,   \* _reserved_process_ids
    entry,      \* _processes: the process stored under each id
    newer,      \* ids in the table that were used later than this one
    watched,    \* keys of _exit_watchers
    watching,   \* the process that the exit watcher of each call waits for
    ends,       \* how many ends of each command were reported
    pc, job, at, on,   \* the job of the loop: its step, call, id and process
    complete,   \* its snapshot saw the end of the output
    closing, after,    \* the process it closes, and the step that follows
    child,      \* state of each child process
    held,       \* a descendant of it holds the output pipe open
    made, read, \* bytes written to the pipe, and taken from it
    buffer,     \* _buffer: bytes read and not yet reported
    got,        \* bytes reported to the model
    omitted,    \* bytes the buffer dropped
    reader,     \* state of the reader thread
    sweep,      \* how far terminate_all_processes is
    swept,      \* the processes it collected
    pruned, missed, displaced   \* processes the table lost to a prune, to a
                \* sweep that had not collected them, and to another call

callVars  == <<stage, id, told>>
tableVars == <<reserved, entry, newer, watched>>
endVars   == <<watching, ends>>
loopVars  == <<pc, job, at, on, complete, closing, after>>
procVars  == <<child, held, made, read, buffer, got, omitted, reader>>
sweepVars == <<sweep, swept, missed>>
lostVars  == <<pruned, displaced>>
vars == <<callVars, tableVars, endVars, loopVars, procVars, sweepVars, lostVars>>

\* The types, by the threads that write.
TableTypes ==
    /\ stage \in [Calls -> {"new", "waiting", "running", "begun", "failed"}]
    /\ id \in [Calls -> Ids \cup {0}] /\ told \subseteq Calls
    /\ reserved \subseteq Ids /\ watched \subseteq Ids
    /\ entry \in [Ids -> Calls \cup {None}] /\ newer \in [Ids -> SUBSET Ids]
    /\ watching \in [Calls -> Calls \cup {None}] /\ ends \in [Calls -> Nat]

LoopTypes ==
    /\ pc \in {"idle", "store", "prune", "touch", "look", "answer", "emit", "close"}
    /\ job \in Calls \cup {None} /\ at \in Ids \cup {0} /\ on \in Calls \cup {None}
    /\ complete \in BOOLEAN
    /\ closing \in Calls \cup {None} /\ after \in {"idle", "look", "emit"}

ProcessTypes ==
    /\ child \in [Calls -> {"none", "running", "exited"}]
    /\ held \in [Calls -> BOOLEAN]
    /\ made \in [Calls -> Nat] /\ read \in [Calls -> Nat]
    /\ buffer \in [Calls -> Seq(Nat)] /\ got \in [Calls -> Seq(Nat)]
    /\ omitted \in [Calls -> SUBSET Nat]
    /\ reader \in [Calls -> {"none", "reading", "done"}]

LossTypes ==
    /\ sweep \in {"idle", "collected", "cleared", "done"}
    /\ swept \subseteq Calls /\ missed \subseteq Calls
    /\ pruned \subseteq Calls /\ displaced \subseteq Calls

UnifiedExecTypeOK == TableTypes /\ LoopTypes /\ ProcessTypes /\ LossTypes

Init ==
    /\ stage = [c \in Calls |-> "new"] /\ id = [c \in Calls |-> 0] /\ told = {}
    /\ reserved = {} /\ watched = {}
    /\ entry = [i \in Ids |-> None] /\ newer = [i \in Ids |-> {}]
    /\ watching = [c \in Calls |-> None] /\ ends = [c \in Calls |-> 0]
    /\ pc = "idle" /\ job = None /\ at = 0 /\ on = None /\ complete = FALSE
    /\ closing = None /\ after = "idle"
    /\ child = [c \in Calls |-> "none"] /\ held = [c \in Calls |-> FALSE]
    /\ made = [c \in Calls |-> 0] /\ read = [c \in Calls |-> 0]
    /\ buffer = [c \in Calls |-> <<>>] /\ got = [c \in Calls |-> <<>>]
    /\ omitted = [c \in Calls |-> {}]
    /\ reader = [c \in Calls |-> "none"]
    /\ sweep = "idle" /\ swept = {} /\ missed = {} /\ pruned = {} /\ displaced = {}

Stored == {i \in Ids : entry[i] # None}
Exited(p) == p # None /\ child[p] = "exited"
-----------------------------------------------------------------------------
(***************************************************************************)
(* The event loop                                                          *)
(***************************************************************************)

\* Operators named Faulty... are mistakes that confirm that a property notices;
\* each precedes the definition it varies.

\* allocate_process_id: one more than the largest reserved id.
FaultyIsNextLargest(i) == /\ \A j \in reserved : j <= i
                          /\ IF reserved = {} THEN i = 1 ELSE i \in reserved
IsNext(i) == /\ \A j \in reserved : j < i
             /\ i = 1 \/ i - 1 \in reserved

Allocate(c) ==
    /\ pc = "idle" /\ stage[c] = "new"
    /\ \E i \in Ids : /\ IsNext(i)
                      /\ id' = [id EXCEPT ![c] = i]
                      /\ reserved' = reserved \cup {i}
    /\ stage' = [stage EXCEPT ![c] = "waiting"]
    /\ UNCHANGED <<told, entry, newer, watched, endVars, loopVars, procVars,
                   sweepVars, lostVars>>

\* release_process_id(i): the process is forgotten, and its streams are closed
\* when it has exited; then the loop goes on with step next.
Release(i, next) ==
    /\ reserved' = reserved \ {i} /\ watched' = watched \ {i}
    /\ entry' = [entry EXCEPT ![i] = None]
    /\ newer' = [j \in Ids |-> IF j = i THEN {} ELSE newer[j] \ {i}]
    /\ IF Exited(entry[i])
         THEN pc' = "close" /\ closing' = entry[i] /\ after' = next
         ELSE pc' = next /\ UNCHANGED <<closing, after>>

\* An id given back by a call that does not own the process stored under it.
Displaces(i) == displaced' = displaced \cup ({entry[i]} \ {None})

\* The call is rejected, or its spawn fails: it gives its id back.
Refuse(c) ==
    /\ pc = "idle" /\ stage[c] = "waiting"
    /\ stage' = [stage EXCEPT ![c] = "failed"]
    /\ Release(id[c], "idle") /\ Displaces(id[c])
    /\ UNCHANGED <<id, told, endVars, job, at, on, complete, procVars, sweepVars,
                   pruned>>

\* The turn is cancelled while the call waits: nobody gives the id back.
Abandon(c) ==
    /\ pc = "idle" /\ stage[c] = "waiting"
    /\ stage' = [stage EXCEPT ![c] = "failed"]
    /\ UNCHANGED <<id, told, tableVars, endVars, loopVars, procVars, sweepVars,
                   lostVars>>

Spawn(c) ==
    /\ pc = "idle" /\ stage[c] = "waiting"
    /\ stage' = [stage EXCEPT ![c] = "running"]
    /\ child' = [child EXCEPT ![c] = "running"]
    /\ reader' = [reader EXCEPT ![c] = "reading"]
    /\ pc' = "store" /\ job' = c /\ at' = id[c] /\ on' = c
    /\ UNCHANGED <<id, told, tableVars, endVars, complete, closing, after, held,
                   made, read, buffer, got, omitted, sweepVars, lostVars>>

\* An entry is written under id i with the present time.
Write(i, p) ==
    /\ entry' = [entry EXCEPT ![i] = p]
    /\ newer' = [j \in Ids |-> IF j = i THEN {}
                               ELSE IF entry[j] # None THEN newer[j] \cup {i}
                               ELSE {}]

Store ==
    /\ pc = "store"
    /\ Write(at, on)
    /\ displaced' = displaced \cup ({entry[at]} \ {None})
    /\ reserved' = reserved \cup {at}
    /\ pc' = IF Cardinality(Stored \cup {at}) < Limit THEN "look" ELSE "prune"
    /\ UNCHANGED <<callVars, watched, endVars, job, at, on, complete, closing, after,
                   procVars, sweepVars, pruned>>

\* A handler returns: its locals are gone.
NoJob == job' = None /\ at' = 0 /\ on' = None /\ complete' = FALSE

\* process_id_to_prune_from_meta: the least recently used id that is not
\* protected, of an exited process if there is one.
Prunable == {i \in Stored : Cardinality(newer[i]) >= Protected}
Preferred == IF \E i \in Prunable : Exited(entry[i])
               THEN {i \in Prunable : Exited(entry[i])}
               ELSE Prunable
Victims == {i \in Preferred :
                \A j \in Preferred : Cardinality(newer[j]) <= Cardinality(newer[i])}

Prune ==
    /\ pc = "prune"
    /\ \/ /\ Victims = {} /\ pc' = "look"
          /\ UNCHANGED <<tableVars, closing, after, pruned>>
       \/ \E i \in Victims : /\ Release(i, "look")
                             /\ pruned' = pruned \cup {entry[i]}
    /\ UNCHANGED <<callVars, endVars, job, at, on, complete, procVars, sweepVars,
                   displaced>>

\* The table is cleared while prune_processes_if_needed iterates over it: the
\* RuntimeError makes the handler give the id back.
PruneRaises ==
    /\ pc = "prune" /\ Stored = {}
    /\ stage' = [stage EXCEPT ![job] = "failed"]
    /\ Release(at, "idle") /\ NoJob
    /\ UNCHANGED <<id, told, endVars, procVars, sweepVars, lostVars>>

\* write_stdin(i): the exclusive gate lets it in when no exec_command runs.
TouchRead(i) ==
    /\ pc = "idle" /\ \A c \in Calls : stage[c] # "waiting"
    /\ entry[i] # None /\ \E c \in told : id[c] = i
    /\ pc' = "touch" /\ job' = None /\ at' = i /\ on' = entry[i]
    /\ UNCHANGED <<callVars, tableVars, endVars, complete, closing, after, procVars,
                   sweepVars, lostVars>>

\* touch_process writes what it read back, with the present time.  A write to
\* a process without a terminal is refused, unless it has exited.
TouchWrite ==
    /\ pc = "touch"
    /\ Write(at, on)
    /\ \/ pc' = "look" /\ UNCHANGED <<job, at, on, complete>>
       \/ child[on] = "running" /\ pc' = "idle" /\ NoJob
    /\ UNCHANGED <<callVars, reserved, watched, endVars, closing, after, procVars,
                   sweepVars, lostVars>>

\* One round of snapshot(), under the condition's lock: drain the buffer, and
\* go on, or leave at the deadline, at a terminal's first output, or when the
\* process has exited and its output is closed and drained.
FaultyClosedAtExit(p) == buffer[p] = <<>> /\ Exited(p)
Closed(p) == buffer[p] = <<>> /\ Exited(p) /\ reader[p] = "done"

Look ==
    /\ pc = "look"
    /\ got' = [got EXCEPT ![on] = @ \o buffer[on]]
    /\ buffer' = [buffer EXCEPT ![on] = <<>>]
    /\ \/ Closed(on) /\ pc' = "answer" /\ complete' = TRUE
       \/ ~ Closed(on) /\ pc' = "answer" /\ complete' = FALSE
       \/ /\ buffer[on] # <<>> /\ (on \in Tty => Exited(on))
          /\ pc' = "look" /\ UNCHANGED complete
    /\ UNCHANGED <<callVars, tableVars, endVars, job, at, on, closing, after, child,
                   held, made, read, omitted, reader, sweepVars, lostVars>>

\* The last poll comes after the lock was given up.  An exec_command that saw
\* the end of a process without a terminal, and a write_stdin that saw the end
\* of any, release the id; any other answer names it.
Answer ==
    /\ pc = "answer"
    /\ LET next == IF job = None THEN "idle" ELSE "emit"
           over == Exited(on) /\ job \notin Tty
       IN  /\ IF over THEN Release(at, next)
              ELSE pc' = next /\ UNCHANGED <<tableVars, closing, after>>
           /\ told' = IF ~ over /\ job # None THEN told \cup {job} ELSE told
    /\ IF job = None THEN NoJob
       ELSE on' = None /\ complete' = FALSE /\ UNCHANGED <<job, at>>
    /\ UNCHANGED <<stage, id, endVars, procVars, sweepVars, lostVars>>

\* close() waits for the lock of the output stream, which the reader holds
\* while it waits for a byte.  A reader that finds the stream closed is done.
Blocked(p) == reader[p] = "reading" /\ read[p] = made[p] /\ held[p]

CloseStreams ==
    /\ pc = "close" /\ ~ Blocked(closing)
    /\ reader' = [reader EXCEPT ![closing] = "done"]
    /\ pc' = after /\ closing' = None /\ after' = "idle"
    /\ UNCHANGED <<callVars, tableVars, endVars, job, at, on, complete, child, held, made,
                   read, buffer, got, omitted, sweepVars, lostVars>>

\* watch_process_exit starts one watcher for each id in the table.
FaultyWatchableLive(i) ==
    entry[i] # None /\ i \notin watched /\ ~ Exited(entry[i])
Watchable(i) == entry[i] # None /\ i \notin watched

\* The start of the command is reported, and its end when it is known; else
\* a watcher is started of the process stored under the id.  The answer, the
\* report and the watcher are one stretch of the event loop, although the report
\* is awaited: nothing it calls suspends.  A session puts events on an unbounded
\* queue (core/session/__init__.py), and the observer of the terminal interface
\* is a plain function (observe_session_event, tui/app/runtime.py).
Emit ==
    /\ pc = "emit" /\ pc' = "idle" /\ NoJob
    /\ stage' = [stage EXCEPT ![job] = "begun"]
    /\ IF job \notin told
         THEN ends' = [ends EXCEPT ![job] = @ + 1] /\ UNCHANGED <<watching, watched>>
         ELSE /\ IF Watchable(at)
                   THEN /\ watching' = [watching EXCEPT ![job] = entry[at]]
                        /\ watched' = watched \cup {at}
                   ELSE UNCHANGED <<watching, watched>>
              /\ UNCHANGED ends
    /\ UNCHANGED <<id, told, reserved, entry, newer, closing, after, procVars, sweepVars,
                   lostVars>>

Loop == \/ Store \/ Prune \/ PruneRaises \/ TouchWrite \/ Look \/ Answer
        \/ CloseStreams \/ Emit

\* The watcher's thread waits for the reader to be done, and hands the end to
\* the event loop, which runs it between two jobs.
WatcherEnds(c) ==
    /\ watching[c] # None /\ ends[c] = 0 /\ pc = "idle"
    /\ reader[watching[c]] = "done"
    /\ ends' = [ends EXCEPT ![c] = @ + 1]
    /\ UNCHANGED <<callVars, tableVars, watching, loopVars, procVars, sweepVars,
                   lostVars>>
-----------------------------------------------------------------------------
(***************************************************************************)
(* The processes and their readers                                         *)
(***************************************************************************)

Output(p) ==
    /\ child[p] = "running" \/ held[p]
    /\ made[p] < Bytes[p]
    /\ made' = [made EXCEPT ![p] = @ + 1]
    /\ UNCHANGED <<callVars, tableVars, endVars, loopVars, child, held, read, buffer,
                   got, omitted, reader, sweepVars, lostVars>>

\* The process ends, by itself or by a signal; it may leave a descendant
\* behind that has its output pipe.
Exit(p) ==
    /\ child[p] = "running"
    /\ child' = [child EXCEPT ![p] = "exited"]
    /\ \E h \in BOOLEAN : (h => p \in Forking) /\ held' = [held EXCEPT ![p] = h]
    /\ UNCHANGED <<callVars, tableVars, endVars, loopVars, made, read, buffer, got,
                   omitted, reader, sweepVars, lostVars>>

DescendantEnds(p) ==
    /\ held[p]
    /\ held' = [held EXCEPT ![p] = FALSE]
    /\ UNCHANGED <<callVars, tableVars, endVars, loopVars, child, made, read, buffer,
                   got, omitted, reader, sweepVars, lostVars>>

\* push_chunk of one byte: a full buffer drops the oldest byte of its tail.
Push(s, b) == IF Len(s) < HeadBudget + TailBudget THEN Append(s, b)
              ELSE SubSeq(s, 1, HeadBudget) \o SubSeq(s, HeadBudget + 2, Len(s)) \o <<b>>

Read(p) ==
    /\ reader[p] = "reading" /\ read[p] < made[p]
    /\ read' = [read EXCEPT ![p] = @ + 1]
    /\ buffer' = [buffer EXCEPT ![p] = Push(@, read[p] + 1)]
    /\ omitted' = IF Len(buffer[p]) < HeadBudget + TailBudget THEN omitted
                  ELSE [omitted EXCEPT ![p] = @ \cup {buffer[p][HeadBudget + 1]}]
    /\ UNCHANGED <<callVars, tableVars, endVars, loopVars, child, held, made, got,
                   reader, sweepVars, lostVars>>

\* End of file, when nobody is left that could write: the reader waits for the
\* process and marks the output as closed and drained.
Finish(p) ==
    /\ reader[p] = "reading" /\ read[p] = made[p]
    /\ child[p] = "exited" /\ ~ held[p]
    /\ reader' = [reader EXCEPT ![p] = "done"]
    /\ UNCHANGED <<callVars, tableVars, endVars, loopVars, child, held, made, read,
                   buffer, got, omitted, sweepVars, lostVars>>
-----------------------------------------------------------------------------
(***************************************************************************)
(* terminate_all_processes, on the thread of the terminal interface.  One  *)
(* cleanup is modelled.  The signals it sends at last make the processes   *)
(* exit, as they may at any time.                                          *)
(***************************************************************************)

Collect ==
    /\ sweep = "idle" /\ sweep' = "collected"
    /\ swept' = {entry[i] : i \in Stored}
    /\ UNCHANGED <<callVars, tableVars, endVars, loopVars, procVars, missed, lostVars>>

ClearTable ==
    /\ sweep = "collected" /\ sweep' = "cleared"
    /\ missed' = {entry[i] : i \in Stored} \ swept
    /\ entry' = [i \in Ids |-> None] /\ newer' = [i \in Ids |-> {}]
    /\ UNCHANGED <<callVars, reserved, watched, endVars, loopVars, procVars, swept,
                   lostVars>>

ClearIds ==
    /\ sweep = "cleared" /\ sweep' = "done"
    /\ reserved' = {} /\ watched' = {}
    /\ UNCHANGED <<callVars, entry, newer, endVars, loopVars, procVars, swept, missed,
                   lostVars>>
-----------------------------------------------------------------------------
Handler(c) == Allocate(c) \/ Refuse(c) \/ Abandon(c) \/ Spawn(c)
Process(p) == Output(p) \/ Exit(p) \/ DescendantEnds(p)
Reader(p)  == Read(p) \/ Finish(p)

Next == \/ \E c \in Calls : Handler(c) \/ WatcherEnds(c) \/ Process(c) \/ Reader(c)
        \/ \E i \in Ids : TouchRead(i)
        \/ Loop
        \/ Collect \/ ClearTable \/ ClearIds

Spec == Init /\ [][Next]_vars

\* The loop's thread and the readers run on; what was handed to the loop comes
\* to its turn however many jobs there are, since the ready queue is a FIFO.
\* Nothing makes a process exit, or a descendant let go of its pipe.
Fairness ==
    /\ WF_vars(Loop)
    /\ \A c \in Calls : WF_vars(Reader(c)) /\ SF_vars(WatcherEnds(c))

FairSpec == Spec /\ Fairness
-----------------------------------------------------------------------------
(***************************************************************************)
(* Properties                                                              *)
(***************************************************************************)

\* A live process that the model was told of can be reached under its id, or
\* was pruned, or was collected by the cleanup.  Only after a cleanup began
\* can it be lost in another way: stored between the collection and the
\* clearing, or under an id that a second call was given too.
RetainedIsReachable ==
    \A c \in told : child[c] = "running" =>
        \/ entry[id[c]] = c
        \/ c \in pruned \cup swept
        \/ sweep # "idle" /\ c \in missed \cup displaced

\* An answer that saw the end of the output completes the report: over all
\* answers the model got every byte that the buffer did not drop, once and in
\* the order they were written.
ExitReportsAll ==
    /\ \A p \in Calls : \A m, n \in 1 .. Len(got[p]) : m < n => got[p][m] < got[p][n]
    /\ pc = "answer" /\ complete =>
           {got[on][n] : n \in 1 .. Len(got[on])} = 1 .. made[on] \ omitted[on]

\* The end of every command is reported, when its process has exited and
\* nobody holds its pipe, unless a cleanup took it from the table before its
\* watcher was started.  A pipe that is held for good blocks the loop, and
\* with it the ends of all commands.
StartedCommandEnds ==
    (\A p \in Calls : []<> ~ held[p]) =>
        \A c \in Calls :
            (stage[c] = "begun" /\ child[c] = "exited") ~>
                (ends[c] = 1 \/ (sweep # "idle" /\ watching[c] = None))
=============================================================================
