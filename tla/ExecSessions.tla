---------------------------- MODULE ExecSessions ----------------------------
(***************************************************************************)
(* Resumable sessions of the exec server: SessionRegistry and SessionEntry *)
(* (pycodex/exec_server/server/session_registry.py), the per-connection    *)
(* ExecServerHandler (server/handler.py) driven by the connection loop     *)
(* (server/processor.py), and the process table of each session            *)
(* (LocalProcess in pycodex/exec_server/local_process.py).                 *)
(*                                                                         *)
(* A connection serves one message at a time, and the only request that    *)
(* changes this state across a suspension is a start, which waits for the  *)
(* spawn.  Every other handler is one action.  Requests that are rejected  *)
(* change nothing and have no action.                                      *)
(***************************************************************************)
EXTENDS Naturals, FiniteSets

CONSTANTS Sessions,       \* session ids the registry may draw
          Connections,    \* client connections, one ConnectionId each
          ProcessIds,     \* ids clients give their processes
          None            \* no session, connection or process

ASSUME NoneAssumption ==
    /\ None \notin Sessions \cup Connections \cup ProcessIds
    /\ Connections \cap {"unborn", "free", "ended"} = {}

VARIABLES
    registered,    \* "unborn", "yes" while in the sessions dictionary, "removed"
    attached,      \* current_connection_id of each session
    detachedBy,    \* detached_connection_id of each session
    sender,        \* the connection whose notification sender is installed
    sleeping,      \* connections whose expire_if_detached task sleeps
    due,           \* connections whose detached TTL is over
    loop,          \* where each connection's message loop stands
    handshake,     \* initialize_requested and initialized_flag
    handle,        \* the session a connection's handler is bound to
    spawning,      \* the process id whose spawn a connection awaits
    table,         \* the process table of each session
    child          \* the operating system's process behind an entry

sessionVars == <<registered, attached, detachedBy, sender, sleeping, due>>
connVars    == <<loop, handshake, handle, spawning>>
processVars == <<table, child>>
vars        == <<sessionVars, connVars, processVars>>

Entries == {"absent", "starting", "running", "closed"}

SessionsTypeOK ==
    /\ registered \in [Sessions -> {"unborn", "yes", "removed"}]
    /\ attached \in [Sessions -> Connections \cup {None}]
    /\ detachedBy \in [Sessions -> Connections \cup {None}]
    /\ sender \in [Sessions -> Connections \cup {None}]
    /\ sleeping \subseteq Connections
    /\ due \subseteq Connections
    /\ loop \in [Connections -> {"new", "serving", "awaiting", "leaving", "closed"}]
    /\ handshake \in [Connections -> {"none", "requested", "initialized"}]
    /\ handle \in [Connections -> Sessions \cup {None}]
    /\ spawning \in [Connections -> ProcessIds \cup {None}]
    /\ table \in [Sessions -> [ProcessIds -> Entries]]
    /\ child \in [Sessions -> [ProcessIds -> {"none", "alive", "signalled", "dead"}]]

Init ==
    /\ registered = [s \in Sessions |-> "unborn"]
    /\ attached = [s \in Sessions |-> None]
    /\ detachedBy = [s \in Sessions |-> None]
    /\ sender = [s \in Sessions |-> None]
    /\ sleeping = {}
    /\ due = {}
    /\ loop = [c \in Connections |-> "new"]
    /\ handshake = [c \in Connections |-> "none"]
    /\ handle = [c \in Connections |-> None]
    /\ spawning = [c \in Connections |-> None]
    /\ table = [s \in Sessions |-> [p \in ProcessIds |-> "absent"]]
    /\ child = [s \in Sessions |-> [p \in ProcessIds |-> "none"]]
-----------------------------------------------------------------------------
\* Faulty variants, used only to confirm that the properties notice them, are
\* named Faulty... and precede the definition they vary.
FaultyRemoveOnly(s) ==
    /\ registered' = [registered EXCEPT ![s] = "removed"]
    /\ UNCHANGED processVars

\* The session leaves the dictionary and LocalProcess.shutdown() runs: the
\* table is emptied and every running process is sent its signal.
RemoveSession(s) ==
    /\ registered' = [registered EXCEPT ![s] = "removed"]
    /\ table' = [table EXCEPT ![s] = [p \in ProcessIds |-> "absent"]]
    /\ child' = [child EXCEPT ![s] = [p \in ProcessIds |->
                    IF table[s][p] = "running" /\ child[s][p] = "alive"
                      THEN "signalled" ELSE child[s][p]]]

\* is_expired; a deadline that was set is cleared only by attach.
Expired(s) == detachedBy[s] \in due

Bind(c, s) ==
    /\ attached' = [attached EXCEPT ![s] = c]
    /\ detachedBy' = [detachedBy EXCEPT ![s] = None]
    /\ sender' = [sender EXCEPT ![s] = c]
    /\ handle' = [handle EXCEPT ![c] = s]
    /\ handshake' = [handshake EXCEPT ![c] = "requested"]
-----------------------------------------------------------------------------
Connect(c) ==
    /\ loop[c] = "new"
    /\ loop' = [loop EXCEPT ![c] = "serving"]
    /\ UNCHANGED <<sessionVars, handshake, handle, spawning, processVars>>

\* initialize without a session id.
InitializeNew(c, s) ==
    /\ loop[c] = "serving" /\ handshake[c] = "none"
    /\ registered[s] = "unborn"
    /\ registered' = [registered EXCEPT ![s] = "yes"]
    /\ Bind(c, s)
    /\ UNCHANGED <<sleeping, due, loop, spawning, processVars>>

FaultyResumeHeld(c, s) ==
    /\ loop[c] = "serving" /\ handshake[c] = "none"
    /\ registered[s] = "yes" /\ ~ Expired(s)
    /\ Bind(c, s)
    /\ UNCHANGED <<registered, sleeping, due, loop, spawning, processVars>>

\* initialize with the id of a session that waits for its client.
InitializeResume(c, s) ==
    /\ loop[c] = "serving" /\ handshake[c] = "none"
    /\ registered[s] = "yes" /\ ~ Expired(s)
    /\ attached[s] = None
    /\ Bind(c, s)
    /\ UNCHANGED <<registered, sleeping, due, loop, spawning, processVars>>

\* initialize with the id of a session whose TTL is over: it is removed here
\* and the client gets an error.
InitializeExpired(c, s) ==
    /\ loop[c] = "serving" /\ handshake[c] = "none"
    /\ registered[s] = "yes" /\ Expired(s)
    /\ RemoveSession(s)
    /\ UNCHANGED <<attached, detachedBy, sender, sleeping, due, connVars>>

IsAttached(c) == handle[c] # None /\ attached[handle[c]] = c

Initialized(c) ==
    /\ loop[c] = "serving" /\ handshake[c] = "requested"
    /\ IsAttached(c)
    /\ handshake' = [handshake EXCEPT ![c] = "initialized"]
    /\ UNCHANGED <<sessionVars, loop, handle, spawning, processVars>>

\* require_initialized_for.
MayRequest(c) == loop[c] = "serving" /\ handshake[c] = "initialized" /\ IsAttached(c)

\* start_process up to the await of the spawn.
StartProcess(c, p) ==
    /\ MayRequest(c)
    /\ table[handle[c]][p] = "absent"
    /\ table' = [table EXCEPT ![handle[c]][p] = "starting"]
    /\ spawning' = [spawning EXCEPT ![c] = p]
    /\ loop' = [loop EXCEPT ![c] = "awaiting"]
    /\ UNCHANGED <<sessionVars, handshake, handle, child>>

\* The spawn succeeds: the entry is written without another look at the table.
SpawnSucceeds(c) ==
    LET s == handle[c]
        p == spawning[c]
    IN  /\ loop[c] = "awaiting"
        /\ table' = [table EXCEPT ![s][p] = "running"]
        /\ child' = [child EXCEPT ![s][p] = "alive"]
        /\ loop' = [loop EXCEPT ![c] = "serving"]
        /\ spawning' = [spawning EXCEPT ![c] = None]
        /\ UNCHANGED <<sessionVars, handshake, handle>>

SpawnFails(c) ==
    LET s == handle[c]
        p == spawning[c]
    IN  /\ loop[c] = "awaiting"
        /\ table' = [table EXCEPT ![s][p] = IF @ = "starting" THEN "absent" ELSE @]
        /\ loop' = [loop EXCEPT ![c] = "serving"]
        /\ spawning' = [spawning EXCEPT ![c] = None]
        /\ UNCHANGED <<sessionVars, handshake, handle, child>>

\* The connection is lost during the spawn: the route is cancelled, and
\* CancelledError passes start_process' `except Exception`.
CancelStart(c) ==
    /\ loop[c] = "awaiting"
    /\ loop' = [loop EXCEPT ![c] = "leaving"]
    /\ spawning' = [spawning EXCEPT ![c] = None]
    /\ UNCHANGED <<sessionVars, handshake, handle, processVars>>

TerminateProcess(c, p) ==
    /\ MayRequest(c)
    /\ table[handle[c]][p] = "running" /\ child[handle[c]][p] = "alive"
    /\ child' = [child EXCEPT ![handle[c]][p] = "signalled"]
    /\ UNCHANGED <<sessionVars, connVars, table>>

FaultyLeaveKeepsSender(c) ==
    /\ loop[c] \in {"serving", "leaving"}
    /\ loop' = [loop EXCEPT ![c] = "closed"]
    /\ IF IsAttached(c)
         THEN /\ attached' = [attached EXCEPT ![handle[c]] = None]
              /\ detachedBy' = [detachedBy EXCEPT ![handle[c]] = c]
              /\ sleeping' = sleeping \cup {c}
         ELSE UNCHANGED <<attached, detachedBy, sleeping>>
    /\ UNCHANGED <<registered, due, handshake, handle, spawning, processVars, sender>>

FaultyLeaveWithoutExpiry(c) ==
    /\ loop[c] \in {"serving", "leaving"}
    /\ loop' = [loop EXCEPT ![c] = "closed"]
    /\ IF IsAttached(c)
         THEN /\ attached' = [attached EXCEPT ![handle[c]] = None]
              /\ detachedBy' = [detachedBy EXCEPT ![handle[c]] = c]
              /\ sender' = [sender EXCEPT ![handle[c]] = None]
         ELSE UNCHANGED <<attached, detachedBy, sender>>
    /\ UNCHANGED <<registered, sleeping, due, handshake, handle, spawning, processVars>>

\* The loop ends, by disconnection or protocol error, and the handler's
\* shutdown detaches the session.
Leave(c) ==
    /\ loop[c] \in {"serving", "leaving"}
    /\ loop' = [loop EXCEPT ![c] = "closed"]
    /\ IF IsAttached(c)
         THEN /\ attached' = [attached EXCEPT ![handle[c]] = None]
              /\ detachedBy' = [detachedBy EXCEPT ![handle[c]] = c]
              /\ sender' = [sender EXCEPT ![handle[c]] = None]
              /\ sleeping' = sleeping \cup {c}
         ELSE UNCHANGED <<attached, detachedBy, sender, sleeping>>
    /\ UNCHANGED <<registered, due, handshake, handle, spawning, processVars>>
-----------------------------------------------------------------------------
\* The TTL that began with c's detach is over.  Nothing here relies on the TTLs
\* of one session running out in the order of its detaches.
TtlPasses(c) ==
    /\ c \in sleeping \ due
    /\ due' = due \cup {c}
    /\ UNCHANGED <<registered, attached, detachedBy, sender, sleeping, connVars, processVars>>

FaultyExpireUnmatched(c) ==
    /\ c \in sleeping \cap due
    /\ sleeping' = sleeping \ {c}
    /\ IF registered[handle[c]] = "yes"
         THEN RemoveSession(handle[c])
         ELSE UNCHANGED <<registered, processVars>>
    /\ UNCHANGED <<attached, detachedBy, sender, due, connVars>>

\* expire_if_detached wakes.
Expire(c) ==
    /\ c \in sleeping \cap due
    /\ sleeping' = sleeping \ {c}
    /\ IF registered[handle[c]] = "yes" /\ attached[handle[c]] = None
          /\ detachedBy[handle[c]] = c
         THEN RemoveSession(handle[c])
         ELSE UNCHANGED <<registered, processVars>>
    /\ UNCHANGED <<attached, detachedBy, sender, due, connVars>>

ChildExits(s, p) ==
    /\ child[s][p] \in {"alive", "signalled"}
    /\ child' = [child EXCEPT ![s][p] = "dead"]
    /\ UNCHANGED <<sessionVars, connVars, table>>

\* Exit and both stream ends were recorded.
CloseProcess(s, p) ==
    /\ table[s][p] = "running" /\ child[s][p] = "dead"
    /\ table' = [table EXCEPT ![s][p] = "closed"]
    /\ UNCHANGED <<sessionVars, connVars, child>>

\* The retention of a closed process is over and its id may be used again.
RetireProcess(s, p) ==
    /\ table[s][p] = "closed"
    /\ table' = [table EXCEPT ![s][p] = "absent"]
    /\ child' = [child EXCEPT ![s][p] = "none"]
    /\ UNCHANGED <<sessionVars, connVars>>
-----------------------------------------------------------------------------
ConnectionStep(c) ==
    \/ Connect(c) \/ Initialized(c) \/ Leave(c)
    \/ \E s \in Sessions : \/ InitializeNew(c, s)
                           \/ InitializeResume(c, s)
                           \/ InitializeExpired(c, s)
    \/ \E p \in ProcessIds : StartProcess(c, p) \/ TerminateProcess(c, p)
    \/ SpawnSucceeds(c) \/ SpawnFails(c) \/ CancelStart(c)

ProcessStep(s, p) == ChildExits(s, p) \/ CloseProcess(s, p) \/ RetireProcess(s, p)

Next == \/ \E c \in Connections : ConnectionStep(c) \/ TtlPasses(c) \/ Expire(c)
        \/ \E s \in Sessions, p \in ProcessIds : ProcessStep(s, p)

\* Time passes and sleeping tasks wake.  Nothing is assumed of clients, of
\* connections or of child processes.
Fairness == \A c \in Connections :
    /\ WF_vars(TtlPasses(c))
    /\ WF_vars(Expire(c))

Spec     == Init /\ [][Next]_vars
FairSpec == Spec /\ Fairness
-----------------------------------------------------------------------------
(***************************************************************************)
(* Properties                                                              *)
(***************************************************************************)

Live(c) == loop[c] \in {"serving", "awaiting", "leaving"}

\* A connection that was given a session keeps it until it leaves: no resume
\* and no stale expiry task takes it away, so that the error "session has been
\* resumed by another connection" has no occasion.
HolderKeepsSession ==
    \A c \in Connections : Live(c) /\ handle[c] # None =>
        attached[handle[c]] = c /\ registered[handle[c]] = "yes"

\* Notifications go to the connection that holds the session and to no other.
SenderIsHolder == \A s \in Sessions : sender[s] = attached[s]

\* A removed session leaves no process behind: its table is empty and every
\* child was signalled, also when a start was under way around its expiry.
NothingSurvivesRemoval ==
    \A s \in Sessions : registered[s] = "removed" =>
        \A p \in ProcessIds : table[s][p] = "absent" /\ child[s][p] # "alive"

\* Two starts never race for one id: whoever awaits a spawn owns the Starting
\* entry, and nobody else awaits the same one.
StartIsExclusive ==
    \A c \in Connections : loop[c] = "awaiting" =>
        /\ table[handle[c]][spawning[c]] = "starting"
        /\ \A d \in Connections \ {c} :
              loop[d] = "awaiting" => <<handle[d], spawning[d]>> # <<handle[c], spawning[c]>>

\* A Starting entry is temporary: it is there only while a start awaits its
\* spawn.
StartingIsTemporary ==
    \A s \in Sessions, p \in ProcessIds : table[s][p] = "starting" =>
        \E c \in Connections : loop[c] = "awaiting" /\ handle[c] = s /\ spawning[c] = p

\* A session ends only when the TTL of its latest detach is over: tasks that
\* sleep for an earlier detach do not end it.
EndsOnlyWhenDue ==
    [][\A s \in Sessions : registered[s] = "yes" /\ registered'[s] = "removed"
          => attached[s] = None /\ detachedBy[s] \in due]_vars

\* The registry is a lease of sessions.
LeaseHolder == [s \in Sessions |->
    CASE registered[s] = "unborn"  -> "unborn"
      [] registered[s] = "removed" -> "ended"
      [] OTHER -> IF attached[s] = None THEN "free" ELSE attached[s]]
Lease == INSTANCE SessionLease WITH Clients <- Connections, holder <- LeaseHolder,
                                    Unborn <- "unborn", Free <- "free", Ended <- "ended"
ImplementsLease == Lease!Spec

\* A session whose client has gone and does not come back ends.
AbandonedSessionEnds ==
    \A s \in Sessions : registered[s] = "yes" /\ attached[s] = None
                           ~> registered[s] = "removed" \/ attached[s] # None
=============================================================================
