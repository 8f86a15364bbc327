-------------------------- MODULE ExecServerProofs --------------------------
(***************************************************************************)
(* Proofs about the exec server, in two parts: its resumable sessions      *)
(* (ExecSessions), for any sets of sessions, connections and process ids;  *)
(* and one connection (ServerConnection), for any capacity of the outgoing *)
(* queue and any numbers of requests and notifications.                    *)
(*                                                                         *)
(* The second part follows the messages of a connection as one sequence,   *)
(* from the wire over the outgoing queue to the queue of notifications, of *)
(* which the loop and the writer only move the borders.                    *)
(***************************************************************************)
EXTENDS ExecSessions, ServerConnection, SequenceTheorems, TLAPS

\* The holder of a session is a live connection bound to it, and only a
\* session without a holder has a deadline.
HolderIsBound ==
    \A s \in Sessions :
        /\ attached[s] # None => /\ handle[attached[s]] = s
                                 /\ Live(attached[s])
                                 /\ registered[s] = "yes"
        /\ detachedBy[s] # None => attached[s] = None

\* A connection is bound from its initialize on, and only bound connections
\* await spawns or have an expiry task.
BoundSinceInitialize ==
    \A c \in Connections :
        /\ handle[c] = None <=> handshake[c] = "none"
        /\ loop[c] = "new" => handshake[c] = "none"
        /\ loop[c] = "awaiting" => handle[c] # None /\ spawning[c] # None
        /\ c \in sleeping => handle[c] # None

\* A living child is behind a running entry.
AliveIsRunning ==
    \A s \in Sessions, p \in ProcessIds : child[s][p] = "alive" => table[s][p] = "running"

\* The inductive invariants: who holds a session, and what its table holds.
HInv == SessionsTypeOK /\ HolderIsBound /\ BoundSinceInitialize /\ HolderKeepsSession
TInv == AliveIsRunning /\ NothingSurvivesRemoval /\ StartIsExclusive

\* Initially no session exists and no connection is bound.
LEMMA SessionsInitInv == Init => HInv /\ TInv
  BY NoneAssumption DEF Init, HInv, TInv, SessionsTypeOK, Entries, HolderIsBound,
     BoundSinceInitialize, HolderKeepsSession, AliveIsRunning, NothingSurvivesRemoval,
     StartIsExclusive, Live

\* Every step preserves who holds the sessions; one case per action.
LEMMA HolderStepInv == HInv /\ [Next]_vars => HInv'
<1> SUFFICES ASSUME HInv, [Next]_vars PROVE HInv'
  OBVIOUS
<1> USE NoneAssumption DEF HInv
<1>1. ASSUME NEW c \in Connections, Connect(c) PROVE HInv'
  BY <1>1 DEF Connect, SessionsTypeOK, HolderIsBound, BoundSinceInitialize,
     HolderKeepsSession, Live, sessionVars, processVars
<1>2. ASSUME NEW c \in Connections, Initialized(c) PROVE HInv'
  BY <1>2 DEF Initialized, SessionsTypeOK, HolderIsBound, BoundSinceInitialize,
     HolderKeepsSession, Live, sessionVars, processVars
<1>3. ASSUME NEW c \in Connections, Leave(c) PROVE HInv'
  <2>1. CASE IsAttached(c)
    <3>1. /\ handle[c] \in Sessions
          /\ attached[handle[c]] = c
      BY <2>1 DEF IsAttached, SessionsTypeOK
    <3>2. SessionsTypeOK'
      <4>1. /\ attached' \in [Sessions -> Connections \cup {None}]
            /\ detachedBy' \in [Sessions -> Connections \cup {None}]
            /\ sender' \in [Sessions -> Connections \cup {None}]
        <5>1. /\ attached' = [attached EXCEPT ![handle[c]] = None]
              /\ detachedBy' = [detachedBy EXCEPT ![handle[c]] = c]
              /\ sender' = [sender EXCEPT ![handle[c]] = None]
          BY <1>3, <2>1 DEF Leave
        <5>2. /\ attached \in [Sessions -> Connections \cup {None}]
              /\ detachedBy \in [Sessions -> Connections \cup {None}]
              /\ sender \in [Sessions -> Connections \cup {None}]
          BY DEF SessionsTypeOK
        <5> QED BY <5>1, <5>2
      <4>2. /\ sleeping' \subseteq Connections
            /\ loop' \in [Connections -> {"new", "serving", "awaiting", "leaving", "closed"}]
        BY <1>3, <2>1 DEF Leave, SessionsTypeOK
      <4>3. UNCHANGED <<registered, due, handshake, handle, spawning, processVars>>
        BY <1>3 DEF Leave
      <4> QED BY <4>1, <4>2, <4>3 DEF SessionsTypeOK, processVars
    <3>3. HolderIsBound' /\ HolderKeepsSession'
      BY <1>3, <2>1, <3>1 DEF Leave, SessionsTypeOK, HolderIsBound, HolderKeepsSession, Live
    <3>4. BoundSinceInitialize'
      BY <1>3, <2>1, <3>1 DEF Leave, SessionsTypeOK, BoundSinceInitialize
    <3> QED BY <3>2, <3>3, <3>4
  <2>2. CASE ~ IsAttached(c)
    <3>1. SessionsTypeOK'
      <4>1. /\ sleeping' \subseteq Connections
            /\ loop' \in [Connections -> {"new", "serving", "awaiting", "leaving", "closed"}]
        BY <1>3, <2>2 DEF Leave, SessionsTypeOK
      <4>2. UNCHANGED <<registered, attached, detachedBy, sender, due, handshake, handle,
                        spawning, processVars>>
        BY <1>3, <2>2 DEF Leave
      <4> QED BY <4>1, <4>2 DEF SessionsTypeOK, processVars
    <3>2. HolderIsBound' /\ BoundSinceInitialize' /\ HolderKeepsSession'
      BY <1>3, <2>2 DEF Leave, IsAttached, SessionsTypeOK, HolderIsBound,
         BoundSinceInitialize, HolderKeepsSession, Live
    <3> QED BY <3>1, <3>2
  <2> QED BY <2>1, <2>2
<1>4. ASSUME NEW c \in Connections, NEW s \in Sessions, InitializeNew(c, s) PROVE HInv'
  BY <1>4 DEF InitializeNew, Bind, SessionsTypeOK, HolderIsBound, BoundSinceInitialize,
     HolderKeepsSession, Live, processVars
<1>5. ASSUME NEW c \in Connections, NEW s \in Sessions, InitializeResume(c, s) PROVE HInv'
  BY <1>5 DEF InitializeResume, Bind, SessionsTypeOK, HolderIsBound, BoundSinceInitialize,
     HolderKeepsSession, Live, processVars
<1>6. ASSUME NEW c \in Connections, NEW s \in Sessions, InitializeExpired(c, s) PROVE HInv'
  <2>1. /\ registered' = [registered EXCEPT ![s] = "removed"]
        /\ UNCHANGED <<attached, detachedBy, sender, sleeping, due, connVars>>
        /\ registered[s] = "yes" /\ attached[s] = None
    BY <1>6 DEF InitializeExpired, Expired, RemoveSession, SessionsTypeOK, HolderIsBound
  <2>2. table' \in [Sessions -> [ProcessIds -> Entries]]
    BY <1>6 DEF InitializeExpired, RemoveSession, SessionsTypeOK, Entries
  <2>3. child' \in [Sessions -> [ProcessIds -> {"none", "alive", "signalled", "dead"}]]
    BY <1>6 DEF InitializeExpired, RemoveSession, SessionsTypeOK
  <2>4. SessionsTypeOK'
    BY <2>1, <2>2, <2>3 DEF SessionsTypeOK, connVars
  <2>5. HolderIsBound' /\ BoundSinceInitialize' /\ HolderKeepsSession'
    BY <2>1 DEF SessionsTypeOK, HolderIsBound, BoundSinceInitialize, HolderKeepsSession,
       Live, connVars
  <2> QED BY <2>4, <2>5
<1>7. ASSUME NEW c \in Connections, NEW p \in ProcessIds, StartProcess(c, p) PROVE HInv'
  BY <1>7 DEF StartProcess, MayRequest, IsAttached, SessionsTypeOK, Entries, HolderIsBound,
     BoundSinceInitialize, HolderKeepsSession, Live, sessionVars
<1>8. ASSUME NEW c \in Connections, NEW p \in ProcessIds, TerminateProcess(c, p) PROVE HInv'
  BY <1>8 DEF TerminateProcess, MayRequest, IsAttached, SessionsTypeOK, HolderIsBound,
     BoundSinceInitialize, HolderKeepsSession, Live, sessionVars, connVars
<1>9. ASSUME NEW c \in Connections, SpawnSucceeds(c) PROVE HInv'
  BY <1>9 DEF SpawnSucceeds, SessionsTypeOK, Entries, HolderIsBound,
     BoundSinceInitialize, HolderKeepsSession, Live, sessionVars
<1>10. ASSUME NEW c \in Connections, SpawnFails(c) PROVE HInv'
  BY <1>10 DEF SpawnFails, SessionsTypeOK, Entries, HolderIsBound,
     BoundSinceInitialize, HolderKeepsSession, Live, sessionVars
<1>11. ASSUME NEW c \in Connections, CancelStart(c) PROVE HInv'
  BY <1>11 DEF CancelStart, SessionsTypeOK, HolderIsBound,
     BoundSinceInitialize, HolderKeepsSession, Live, sessionVars, processVars
<1>12. ASSUME NEW c \in Connections, TtlPasses(c) PROVE HInv'
  BY <1>12 DEF TtlPasses, SessionsTypeOK, HolderIsBound,
     BoundSinceInitialize, HolderKeepsSession, Live, connVars, processVars
<1>13. ASSUME NEW c \in Connections, Expire(c) PROVE HInv'
  <2>1. handle[c] \in Sessions
    BY <1>13 DEF Expire, SessionsTypeOK, BoundSinceInitialize
  <2>2. BoundSinceInitialize' /\ UNCHANGED <<attached, detachedBy, sender, due, connVars>>
    BY <1>13 DEF Expire, BoundSinceInitialize, connVars
  <2>3. CASE RemoveSession(handle[c]) /\ attached[handle[c]] = None
    <3>1. SessionsTypeOK'
      BY <1>13, <2>1, <2>2, <2>3 DEF Expire, RemoveSession, SessionsTypeOK, Entries, connVars
    <3>2. HolderIsBound' /\ HolderKeepsSession'
      BY <2>1, <2>2, <2>3 DEF RemoveSession, SessionsTypeOK, HolderIsBound, HolderKeepsSession,
         Live, connVars
    <3> QED BY <2>2, <3>1, <3>2
  <2>4. CASE UNCHANGED <<registered, processVars>>
    BY <1>13, <2>2, <2>4 DEF Expire, SessionsTypeOK, HolderIsBound, HolderKeepsSession,
       Live, connVars, processVars
  <2> QED BY <1>13, <2>3, <2>4 DEF Expire
<1>14. ASSUME NEW s \in Sessions, NEW p \in ProcessIds, ProcessStep(s, p) PROVE HInv'
  <2>1. UNCHANGED <<sessionVars, connVars>>
    BY <1>14 DEF ProcessStep, ChildExits, CloseProcess, RetireProcess
  <2>2. SessionsTypeOK'
    <3>1. CASE ChildExits(s, p)
      BY <2>1, <3>1 DEF ChildExits, SessionsTypeOK, sessionVars, connVars
    <3>2. CASE CloseProcess(s, p)
      BY <2>1, <3>2 DEF CloseProcess, SessionsTypeOK, Entries, sessionVars, connVars
    <3>3. CASE RetireProcess(s, p)
      BY <2>1, <3>3 DEF RetireProcess, SessionsTypeOK, Entries, sessionVars, connVars
    <3> QED BY <1>14, <3>1, <3>2, <3>3 DEF ProcessStep
  <2>3. HolderIsBound' /\ BoundSinceInitialize' /\ HolderKeepsSession'
    BY <2>1 DEF sessionVars, connVars, HolderIsBound, BoundSinceInitialize,
       HolderKeepsSession, Live
  <2> QED BY <2>2, <2>3
<1>15. CASE UNCHANGED vars
  BY <1>15 DEF vars, sessionVars, connVars, processVars, SessionsTypeOK,
     HolderIsBound, BoundSinceInitialize, HolderKeepsSession, Live
<1> QED
  BY <1>1, <1>2, <1>3, <1>4, <1>5, <1>6, <1>7, <1>8, <1>9, <1>10, <1>11, <1>12, <1>13,
     <1>14, <1>15 DEF Next, ConnectionStep

\* Every step preserves what the tables hold, given who holds the sessions.
LEMMA TableStepInv == HInv /\ TInv /\ [Next]_vars => TInv'
<1> SUFFICES ASSUME HInv, TInv, [Next]_vars PROVE TInv'
  OBVIOUS
<1> USE NoneAssumption DEF HInv, TInv
<1>1. ASSUME NEW c \in Connections, NEW p \in ProcessIds, StartProcess(c, p) PROVE TInv'
  <2>1. /\ handle[c] \in Sessions /\ attached[handle[c]] = c
        /\ registered[handle[c]] = "yes" /\ loop[c] = "serving"
    BY <1>1 DEF StartProcess, MayRequest, IsAttached, SessionsTypeOK, HolderIsBound
  <2>2. AliveIsRunning'
    BY <1>1, <2>1 DEF StartProcess, SessionsTypeOK, AliveIsRunning
  <2>3. NothingSurvivesRemoval'
    BY <1>1, <2>1 DEF StartProcess, SessionsTypeOK, NothingSurvivesRemoval, sessionVars
  <2>4. StartIsExclusive'
    BY <1>1, <2>1 DEF StartProcess, SessionsTypeOK, StartIsExclusive
  <2> QED BY <2>2, <2>3, <2>4
<1>2. ASSUME NEW c \in Connections, SpawnSucceeds(c) PROVE TInv'
  <2>1. /\ handle[c] \in Sessions /\ spawning[c] \in ProcessIds
        /\ registered[handle[c]] = "yes" /\ loop[c] = "awaiting"
    BY <1>2 DEF SpawnSucceeds, SessionsTypeOK, BoundSinceInitialize, HolderKeepsSession, Live
  <2>2. AliveIsRunning'
    BY <1>2, <2>1 DEF SpawnSucceeds, SessionsTypeOK, AliveIsRunning
  <2>3. NothingSurvivesRemoval'
    BY <1>2, <2>1 DEF SpawnSucceeds, SessionsTypeOK, NothingSurvivesRemoval, sessionVars
  <2>4. StartIsExclusive'
    BY <1>2, <2>1 DEF SpawnSucceeds, SessionsTypeOK, StartIsExclusive
  <2> QED BY <2>2, <2>3, <2>4
<1>3. ASSUME NEW c \in Connections, SpawnFails(c) PROVE TInv'
  <2>1. /\ handle[c] \in Sessions /\ spawning[c] \in ProcessIds
        /\ registered[handle[c]] = "yes" /\ loop[c] = "awaiting"
    BY <1>3 DEF SpawnFails, SessionsTypeOK, BoundSinceInitialize, HolderKeepsSession, Live
  <2>2. AliveIsRunning'
    BY <1>3, <2>1 DEF SpawnFails, SessionsTypeOK, AliveIsRunning
  <2>3. NothingSurvivesRemoval'
    BY <1>3, <2>1 DEF SpawnFails, SessionsTypeOK, NothingSurvivesRemoval, sessionVars
  <2>4. StartIsExclusive'
    BY <1>3, <2>1 DEF SpawnFails, SessionsTypeOK, StartIsExclusive
  <2> QED BY <2>2, <2>3, <2>4
<1>4. ASSUME NEW c \in Connections, NEW p \in ProcessIds, TerminateProcess(c, p) PROVE TInv'
  <2>1. handle[c] \in Sessions
    BY <1>4 DEF TerminateProcess, MayRequest, IsAttached, SessionsTypeOK
  <2> QED
    BY <1>4, <2>1 DEF TerminateProcess, SessionsTypeOK, AliveIsRunning,
       NothingSurvivesRemoval, StartIsExclusive, sessionVars, connVars
<1>5. ASSUME NEW s \in Sessions, RemoveSession(s), attached[s] = None, UNCHANGED connVars
      PROVE  TInv'
  <2>1. AliveIsRunning' /\ NothingSurvivesRemoval'
    BY <1>5 DEF RemoveSession, SessionsTypeOK, AliveIsRunning, NothingSurvivesRemoval
  <2>2. \A c \in Connections : loop[c] = "awaiting" => handle[c] # s
    BY <1>5 DEF HolderKeepsSession, Live, BoundSinceInitialize, SessionsTypeOK
  <2>3. StartIsExclusive'
    BY <1>5, <2>2 DEF RemoveSession, SessionsTypeOK, StartIsExclusive, connVars, BoundSinceInitialize
  <2> QED BY <2>1, <2>3
<1>6. ASSUME NEW c \in Connections, NEW s \in Sessions, InitializeExpired(c, s) PROVE TInv'
  BY <1>5, <1>6 DEF InitializeExpired, Expired, HolderIsBound, SessionsTypeOK
<1>7. ASSUME NEW c \in Connections, Expire(c) PROVE TInv'
  <2>1. handle[c] \in Sessions
    BY <1>7 DEF Expire, SessionsTypeOK, BoundSinceInitialize
  <2>2. CASE UNCHANGED <<registered, processVars>>
    BY <1>7, <2>2 DEF Expire, AliveIsRunning, NothingSurvivesRemoval, StartIsExclusive,
       connVars, processVars
  <2> QED BY <1>5, <1>7, <2>1, <2>2 DEF Expire
<1>8. ASSUME NEW s \in Sessions, NEW p \in ProcessIds, ProcessStep(s, p) PROVE TInv'
  <2>1. CASE ChildExits(s, p)
    BY <2>1 DEF ChildExits, SessionsTypeOK, AliveIsRunning, NothingSurvivesRemoval,
       StartIsExclusive, sessionVars, connVars
  <2>2. CASE CloseProcess(s, p)
    BY <2>2 DEF CloseProcess, SessionsTypeOK, AliveIsRunning, NothingSurvivesRemoval,
       StartIsExclusive, sessionVars, connVars, BoundSinceInitialize
  <2>3. CASE RetireProcess(s, p)
    BY <2>3 DEF RetireProcess, SessionsTypeOK, AliveIsRunning, NothingSurvivesRemoval,
       StartIsExclusive, sessionVars, connVars, BoundSinceInitialize
  <2> QED BY <1>8, <2>1, <2>2, <2>3 DEF ProcessStep
<1>9. ASSUME UNCHANGED processVars,
             \A s \in Sessions : registered'[s] = "removed" => registered[s] = "removed",
             \A c \in Connections : loop'[c] = "awaiting" =>
                 loop[c] = "awaiting" /\ handle'[c] = handle[c] /\ spawning'[c] = spawning[c]
      PROVE  TInv'
  BY <1>9 DEF processVars, AliveIsRunning, NothingSurvivesRemoval, StartIsExclusive
<1>10. ASSUME NEW c \in Connections,
              Connect(c) \/ Initialized(c) \/ Leave(c) \/ CancelStart(c) \/ TtlPasses(c)
       PROVE  TInv'
  BY <1>9, <1>10 DEF Connect, Initialized, Leave, CancelStart, TtlPasses, SessionsTypeOK,
     sessionVars, connVars
<1>11. ASSUME NEW c \in Connections, NEW s \in Sessions,
              InitializeNew(c, s) \/ InitializeResume(c, s)
       PROVE  TInv'
  BY <1>9, <1>11 DEF InitializeNew, InitializeResume, Bind, SessionsTypeOK
<1>12. CASE UNCHANGED vars
  BY <1>9, <1>12 DEF vars, sessionVars, connVars
<1> QED
  BY <1>1, <1>2, <1>3, <1>4, <1>6, <1>7, <1>8, <1>10, <1>11, <1>12
  DEF Next, ConnectionStep

\* The inductive invariants hold in every behaviour.
THEOREM SessionsInvariance == Spec => [](HInv /\ TInv)
  BY SessionsInitInv, HolderStepInv, TableStepInv, PTL DEF Spec

\* A connection keeps the session it was given until it leaves.
THEOREM HoldersKeepSessions == Spec => []HolderKeepsSession
  BY SessionsInvariance, PTL DEF HInv

\* The installed notification sender is that of the connection that holds the
\* session, through every attach, detach and resume.
THEOREM SendersAreHolders == Spec => []SenderIsHolder
<1>1. Init => SenderIsHolder
  BY DEF Init, SenderIsHolder
<1>2. HInv /\ SenderIsHolder /\ [Next]_vars => SenderIsHolder'
  <2> SUFFICES ASSUME HInv, SenderIsHolder, [Next]_vars PROVE SenderIsHolder'
    OBVIOUS
  <2> USE DEF HInv
  <2>1. ASSUME NEW c \in Connections, NEW s \in Sessions, Bind(c, s) PROVE SenderIsHolder'
    BY <2>1 DEF Bind, SessionsTypeOK, SenderIsHolder
  <2>2. ASSUME NEW c \in Connections, Leave(c) PROVE SenderIsHolder'
    <3>1. CASE IsAttached(c)
      BY <2>2, <3>1 DEF Leave, SessionsTypeOK, SenderIsHolder
    <3>2. CASE ~ IsAttached(c)
      BY <2>2, <3>2 DEF Leave, SenderIsHolder
    <3> QED BY <3>1, <3>2
  <2>3. UNCHANGED <<attached, sender>>
        \/ (\E c \in Connections : Leave(c))
        \/ \E c \in Connections, s \in Sessions : Bind(c, s)
    BY DEF Next, ConnectionStep, ProcessStep, Connect, Initialized, InitializeNew,
       InitializeResume, InitializeExpired, StartProcess, TerminateProcess,
       SpawnSucceeds, SpawnFails, CancelStart, TtlPasses, Expire,
       ChildExits, CloseProcess, RetireProcess, sessionVars, vars
  <2> QED BY <2>1, <2>2, <2>3 DEF SenderIsHolder
<1> QED
  BY <1>1, <1>2, SessionsInvariance, PTL DEF Spec

\* Nothing of a removed session is left running.
THEOREM RemovalIsComplete == Spec => []NothingSurvivesRemoval
  BY SessionsInvariance, PTL DEF TInv

\* Starts never race for one process id.
THEOREM StartsAreExclusive == Spec => []StartIsExclusive
  BY SessionsInvariance, PTL DEF TInv

\* A session ends only when its latest deadline has passed.
THEOREM SessionsEndWhenDue == Spec => EndsOnlyWhenDue
<1>1. HInv /\ [Next]_vars =>
        [\A s \in Sessions : registered[s] = "yes" /\ registered'[s] = "removed"
             => attached[s] = None /\ detachedBy[s] \in due]_vars
  <2> SUFFICES ASSUME HInv, [Next]_vars, NEW s \in Sessions,
                      registered[s] = "yes", registered'[s] = "removed"
               PROVE  attached[s] = None /\ detachedBy[s] \in due
    OBVIOUS
  <2> USE NoneAssumption DEF HInv
  <2>1. ASSUME NEW c \in Connections, NEW t \in Sessions, InitializeExpired(c, t)
        PROVE  attached[s] = None /\ detachedBy[s] \in due
    BY <2>1 DEF InitializeExpired, RemoveSession, Expired, SessionsTypeOK, HolderIsBound
  <2>2. ASSUME NEW c \in Connections, Expire(c)
        PROVE  attached[s] = None /\ detachedBy[s] \in due
    BY <2>2 DEF Expire, RemoveSession, SessionsTypeOK, BoundSinceInitialize
  <2>3. registered' = registered
        \/ (\E c \in Connections : \E t \in Sessions :
               InitializeExpired(c, t) \/ InitializeNew(c, t))
        \/ \E c \in Connections : Expire(c)
    BY DEF Next, ConnectionStep, ProcessStep, Connect, Initialized, Leave, InitializeResume,
       StartProcess, TerminateProcess, SpawnSucceeds, SpawnFails, CancelStart, TtlPasses,
       ChildExits, CloseProcess, RetireProcess, sessionVars, vars
  <2> QED
    BY <2>1, <2>2, <2>3 DEF InitializeNew, SessionsTypeOK
<1> QED
  BY <1>1, SessionsInvariance, PTL DEF Spec, EndsOnlyWhenDue

\* The registry implements the lease.
THEOREM SessionsImplementLease == Spec => ImplementsLease
<1> USE NoneAssumption DEF LeaseHolder
<1>1. Init => Lease!Init
  BY DEF Init, Lease!Init
<1>2. HInv /\ HInv' /\ [Next]_vars => [Lease!Next]_LeaseHolder
  <2> SUFFICES ASSUME HInv, HInv', [Next]_vars
               PROVE  Lease!Next \/ UNCHANGED LeaseHolder
    OBVIOUS
  <2> USE DEF HInv
  <2>0. LeaseHolder = [s \in Sessions |-> LeaseHolder[s]]
    OBVIOUS
  <2>1. ASSUME NEW c \in Connections, NEW s \in Sessions,
               InitializeNew(c, s) \/ InitializeResume(c, s)
        PROVE  Lease!Next
    <3>1. LeaseHolder[s] \in {"unborn", "free"}
      BY <2>1 DEF InitializeNew, InitializeResume
    <3>2. \A t \in Sessions : LeaseHolder[t] # c
      BY <2>1 DEF InitializeNew, InitializeResume, BoundSinceInitialize, HolderIsBound
    <3>3. LeaseHolder' = [LeaseHolder EXCEPT ![s] = c]
      <4>1. /\ attached' = [attached EXCEPT ![s] = c]
            /\ registered' = [registered EXCEPT ![s] = "yes"]
        BY <2>1 DEF InitializeNew, InitializeResume, Bind, SessionsTypeOK
      <4>2. \A t \in Sessions :
               /\ attached'[t] = IF t = s THEN c ELSE attached[t]
               /\ registered'[t] = IF t = s THEN "yes" ELSE registered[t]
        BY <4>1 DEF SessionsTypeOK
      <4>3. c # None
        OBVIOUS
      <4>4. \A t \in Sessions : LeaseHolder'[t] = IF t = s THEN c ELSE LeaseHolder[t]
        BY <4>2, <4>3
      <4> QED BY <4>4
    <3> QED BY <3>1, <3>2, <3>3 DEF Lease!Next, Lease!Grant
  <2>2. ASSUME NEW c \in Connections, Leave(c)
        PROVE  Lease!Next \/ UNCHANGED LeaseHolder
    <3>1. CASE IsAttached(c)
      <4>1. /\ handle[c] \in Sessions /\ attached[handle[c]] = c
            /\ registered[handle[c]] = "yes"
        BY <3>1 DEF IsAttached, SessionsTypeOK, HolderIsBound
      <4>2. LeaseHolder[handle[c]] = c
        BY <4>1
      <4>3. LeaseHolder' = [LeaseHolder EXCEPT ![handle[c]] = "free"]
        <5>1. attached' = [attached EXCEPT ![handle[c]] = None] /\ registered' = registered
          BY <2>2, <3>1 DEF Leave
        <5>2. \A s \in Sessions : attached'[s] = IF s = handle[c] THEN None ELSE attached[s]
          BY <4>1, <5>1 DEF SessionsTypeOK
        <5>3. \A s \in Sessions : LeaseHolder'[s] = IF s = handle[c] THEN "free" ELSE LeaseHolder[s]
          BY <4>1, <5>1, <5>2
        <5> QED BY <5>3
      <4> QED BY <4>1, <4>2, <4>3 DEF Lease!Next, Lease!GiveBack
    <3>2. CASE ~ IsAttached(c)
      BY <2>2, <3>2 DEF Leave
    <3> QED BY <3>1, <3>2
  <2>3. ASSUME NEW s \in Sessions, RemoveSession(s), attached[s] = None, registered[s] = "yes",
               UNCHANGED attached
        PROVE  Lease!Next
    <3>1. LeaseHolder[s] = "free"
      BY <2>3
    <3>2. LeaseHolder' = [LeaseHolder EXCEPT ![s] = "ended"]
      BY <2>3 DEF RemoveSession, SessionsTypeOK
    <3> QED BY <3>1, <3>2 DEF Lease!Next, Lease!End
  <2>4. ASSUME NEW c \in Connections, NEW s \in Sessions, InitializeExpired(c, s)
        PROVE  Lease!Next
    BY <2>3, <2>4 DEF InitializeExpired, Expired, SessionsTypeOK, HolderIsBound
  <2>5. ASSUME NEW c \in Connections, Expire(c)
        PROVE  Lease!Next \/ UNCHANGED LeaseHolder
    <3>1. handle[c] \in Sessions
      BY <2>5 DEF Expire, SessionsTypeOK, BoundSinceInitialize
    <3>2. CASE registered' = registered
      BY <2>5, <3>2 DEF Expire
    <3> QED BY <2>3, <2>5, <3>1, <3>2 DEF Expire
  <2>6. CASE UNCHANGED <<registered, attached>>
    BY <2>6
  <2>7. UNCHANGED <<registered, attached>>
        \/ (\E c \in Connections : \E s \in Sessions :
               InitializeExpired(c, s) \/ InitializeNew(c, s) \/ InitializeResume(c, s))
        \/ \E c \in Connections : Expire(c) \/ Leave(c)
    BY DEF Next, ConnectionStep, ProcessStep, Connect, Initialized, StartProcess,
       TerminateProcess, SpawnSucceeds, SpawnFails, CancelStart, TtlPasses,
       ChildExits, CloseProcess, RetireProcess, sessionVars, vars
  <2> QED BY <2>1, <2>2, <2>4, <2>5, <2>6, <2>7
<1> QED
  BY <1>1, <1>2, SessionsInvariance, PTL DEF Spec, ImplementsLease, Lease!Spec
-----------------------------------------------------------------------------
\* No message of X comes after one of Y of its kind.
Before(X, Y) == \A x \in X, y \in Y : x.kind = y.kind => x.number < y.number

\* What was sent, and how many responses are among it while the loop serves.
Sent == wire \o outgoing
Serves == phase \in {"waiting", "routing", "answering", "draining"}
Answered == IF phase \in {"routing", "answering"} THEN serving - 1 ELSE serving

\* No message was lost: the writer runs, or it was only closed.
Up == writer = "running" \/ ~ disconnected

\* The requests that wait are the next ones, up to the disconnection.
RequestsAreNext ==
    Serves => /\ \A i \in DOMAIN incoming : incoming[i] \in {Gone, serving + i}
              /\ ~ disconnected => Len(incoming) = asked - serving
              /\ phase \in {"routing", "answering"} => serving > 0

Notified == {Notice(n) : n \in 1 .. noticed}

\* While no message was lost, all messages are in order, all notifications are
\* there, and so is the response to every request that was served.
NothingLost ==
    Up => /\ Ordered(Sent) /\ Ordered(notices) /\ Before(ToSet(Sent), ToSet(notices))
          /\ {m \in ToSet(Sent) \cup ToSet(notices) : m.kind = "notice"} = Notified
          /\ \A m \in ToSet(Sent) : m.kind = "response" =>
                m.number > 0 /\ \A n \in 1 .. m.number : Response(n) \in ToSet(Sent)
          /\ Serves => /\ \A n \in 1 .. Answered : Response(n) \in ToSet(Sent)
                       /\ \A m \in ToSet(Sent) : m.kind = "response" => m.number <= Answered

\* The inductive invariant.
CInv == /\ ConnectionTypeOK /\ RequestsAreNext /\ NothingLost
        /\ ToSet(notices) \subseteq Notified
        /\ InSequence(wire)

-----------------------------------------------------------------------------
LEMMA MessageFacts ==
  /\ \A n \in Nat : Response(n) \in Messages /\ Response(n).kind = "response" /\ Response(n).number = n
  /\ \A n \in Nat : Notice(n) \in Messages /\ Notice(n).kind = "notice" /\ Notice(n).number = n
  /\ \A m \in Messages : /\ m.number \in Nat
                         /\ m.kind = "response" => m = Response(m.number)
                         /\ m.kind = "notice" => m = Notice(m.number)
                         /\ m.kind \in {"response", "notice"}
                         /\ \A n : m.kind = "response" => [m EXCEPT !.number = n] = Response(n)
                         /\ \A n : m.kind = "notice" => [m EXCEPT !.number = n] = Notice(n)
BY DEF Messages, Response, Notice

\* The messages of a sequence that is put together.
LEMMA SetOfConcat ==
  ASSUME NEW s \in Seq(Messages), NEW t \in Seq(Messages)
  PROVE  /\ s \o t \in Seq(Messages) /\ ToSet(s) \subseteq Messages
         /\ ToSet(s \o t) = ToSet(s) \cup ToSet(t)
<1>1. /\ s \o t \in Seq(Messages) /\ Len(s \o t) = Len(s) + Len(t)
      /\ DOMAIN s = 1 .. Len(s) /\ DOMAIN t = 1 .. Len(t) /\ DOMAIN (s \o t) = 1 .. Len(s) + Len(t)
  OBVIOUS
<1>2. ASSUME NEW i \in 1 .. Len(s) PROVE (s \o t)[i] = s[i] /\ i \in 1 .. Len(s) + Len(t)
  OBVIOUS
<1>3. ASSUME NEW i \in 1 .. Len(t)
      PROVE  (s \o t)[i + Len(s)] = t[i] /\ i + Len(s) \in 1 .. Len(s) + Len(t)
  OBVIOUS
<1>4. ASSUME NEW i \in 1 .. Len(s) + Len(t), ~ i \in 1 .. Len(s)
      PROVE  (s \o t)[i] = t[i - Len(s)] /\ i - Len(s) \in 1 .. Len(t)
  BY <1>4
<1>5. ToSet(s) \cup ToSet(t) \subseteq ToSet(s \o t)
  BY <1>1, <1>2, <1>3 DEF ToSet
<1>6. ToSet(s \o t) \subseteq ToSet(s) \cup ToSet(t)
  BY <1>1, <1>2, <1>4 DEF ToSet
<1>7. ToSet(s) \subseteq Messages
  BY DEF ToSet
<1> QED BY <1>1, <1>5, <1>6, <1>7

LEMMA SetOfFew ==
  /\ ToSet(<<>>) = {} /\ Ordered(<<>>)
  /\ \A m : ToSet(<<m>>) = {m} /\ Ordered(<<m>>)
BY DEF ToSet, Ordered

\* Two ordered sequences make an ordered one when the first comes before the
\* second, and only then.
LEMMA OrderedConcat ==
  ASSUME NEW s \in Seq(Messages), NEW t \in Seq(Messages)
  PROVE  Ordered(s \o t) <=> Ordered(s) /\ Ordered(t) /\ Before(ToSet(s), ToSet(t))
<1>1. /\ DOMAIN s = 1 .. Len(s) /\ DOMAIN t = 1 .. Len(t)
      /\ DOMAIN (s \o t) = 1 .. Len(s) + Len(t) /\ Len(s) \in Nat /\ Len(t) \in Nat
  OBVIOUS
<1>2. ASSUME NEW i \in 1 .. Len(s) PROVE (s \o t)[i] = s[i] /\ i \in 1 .. Len(s) + Len(t)
  OBVIOUS
<1>3. ASSUME NEW i \in 1 .. Len(t)
      PROVE  (s \o t)[i + Len(s)] = t[i] /\ i + Len(s) \in 1 .. Len(s) + Len(t)
  OBVIOUS
<1>4. ASSUME Ordered(s \o t) PROVE Ordered(s) /\ Ordered(t) /\ Before(ToSet(s), ToSet(t))
  <2>1. Ordered(s)
    BY <1>1, <1>2, <1>4 DEF Ordered
  <2>2. Ordered(t)
    <3> SUFFICES ASSUME NEW i \in 1 .. Len(t), NEW j \in 1 .. Len(t), i < j, t[i].kind = t[j].kind
                 PROVE  t[i].number < t[j].number
      BY <1>1 DEF Ordered
    <3>1. i + Len(s) < j + Len(s)
      BY <1>1
    <3> QED BY <1>1, <1>3, <1>4, <3>1 DEF Ordered
  <2>3. Before(ToSet(s), ToSet(t))
    <3> SUFFICES ASSUME NEW i \in 1 .. Len(s), NEW j \in 1 .. Len(t), s[i].kind = t[j].kind
                 PROVE  s[i].number < t[j].number
      BY <1>1 DEF Before, ToSet
    <3>1. i < j + Len(s)
      BY <1>1
    <3> QED BY <1>1, <1>2, <1>3, <1>4, <3>1 DEF Ordered
  <2> QED BY <2>1, <2>2, <2>3
<1>5. ASSUME Ordered(s), Ordered(t), Before(ToSet(s), ToSet(t)) PROVE Ordered(s \o t)
  <2> SUFFICES ASSUME NEW i \in 1 .. Len(s) + Len(t), NEW j \in 1 .. Len(s) + Len(t), i < j,
                      (s \o t)[i].kind = (s \o t)[j].kind
               PROVE  (s \o t)[i].number < (s \o t)[j].number
    BY <1>1 DEF Ordered
  <2>1. ASSUME NEW k \in 1 .. Len(s) + Len(t), ~ k \in 1 .. Len(s)
        PROVE  (s \o t)[k] = t[k - Len(s)] /\ k - Len(s) \in 1 .. Len(t)
    BY <2>1
  <2>2. CASE i \in 1 .. Len(s) /\ j \in 1 .. Len(s)
    BY <1>1, <1>2, <1>5, <2>2 DEF Ordered
  <2>3. CASE i \in 1 .. Len(s) /\ j \notin 1 .. Len(s)
    <3>1. s[i] \in ToSet(s) /\ t[j - Len(s)] \in ToSet(t)
      BY <1>1, <2>1, <2>3 DEF ToSet
    <3> QED BY <1>2, <1>5, <2>1, <2>3, <3>1 DEF Before
  <2>4. CASE i \notin 1 .. Len(s)
    <3>1. i - Len(s) < j - Len(s) /\ j \notin 1 .. Len(s)
      BY <1>1, <2>4
    <3> QED BY <1>1, <1>5, <2>1, <2>4, <3>1 DEF Ordered
  <2> QED BY <2>2, <2>3, <2>4
<1> QED BY <1>4, <1>5

\* A sequence taken apart.
LEMMA SplitAt ==
  ASSUME NEW s \in Seq(Messages), NEW n \in 0 .. Len(s)
  PROVE  /\ SubSeq(s, 1, n) \in Seq(Messages) /\ Len(SubSeq(s, 1, n)) = n
         /\ SubSeq(s, n + 1, Len(s)) \in Seq(Messages)
         /\ s = SubSeq(s, 1, n) \o SubSeq(s, n + 1, Len(s))
<1>1. /\ SubSeq(s, 1, n) \in Seq(Messages) /\ Len(SubSeq(s, 1, n)) = n
      /\ SubSeq(s, n + 1, Len(s)) \in Seq(Messages)
      /\ Len(SubSeq(s, n + 1, Len(s))) = Len(s) - n
  OBVIOUS
<1>2. s = SubSeq(s, 1, n) \o SubSeq(s, n + 1, Len(s))
  <2>1. 1 \in 1 .. Len(s) + 1 /\ n \in 1 - 1 .. Len(s) /\ Len(s) \in n .. Len(s)
    OBVIOUS
  <2>2. SubSeq(s, 1, n) \o SubSeq(s, n + 1, Len(s)) = SubSeq(s, 1, Len(s))
    BY <2>1, ConcatAdjacentSubSeq
  <2> QED BY <2>2, SubSeqFull
<1> QED BY <1>1, <1>2

LEMMA SplitHead ==
  ASSUME NEW s \in Seq(Messages), s # <<>>
  PROVE  /\ Head(s) \in Messages /\ Tail(s) \in Seq(Messages) /\ Len(Tail(s)) = Len(s) - 1
         /\ s = <<Head(s)>> \o Tail(s)
OBVIOUS

LEMMA Associative ==
  ASSUME NEW s \in Seq(Messages), NEW t \in Seq(Messages), NEW u \in Seq(Messages)
  PROVE  s \o (t \o u) = (s \o t) \o u
OBVIOUS

\* What is moved: first and then a front part of the notifications, as long
\* as they fit.
LEMMA MoveFacts ==
  ASSUME ConnectionTypeOK, NEW first \in Seq(Messages), Len(first) <= Room,
         NEW goesOn \in BOOLEAN, Move(first, goesOn)
  PROVE  \E front, back \in Seq(Messages) :
            /\ notices = front \o back /\ notices' = back
            /\ outgoing' = (outgoing \o first) \o front
            /\ outgoing' \in Seq(Messages) /\ Len(outgoing') <= Capacity
            /\ phase' \in IF goesOn THEN {"waiting", "draining"} ELSE {"joining", "stopping"}
            /\ handlerUp' \in BOOLEAN
<1> DEFINE room == Room - Len(first)
           moved == Min({Len(notices), room})
           front == SubSeq(notices, 1, moved)
           back == SubSeq(notices, moved + 1, Len(notices))
<1>1. /\ notices \in Seq(Messages) /\ outgoing \in Seq(Messages) /\ Len(outgoing) <= Capacity
      /\ Capacity \in Nat
  BY BoundsAssumption DEF ConnectionTypeOK
<1>2. room \in Nat /\ Len(notices) \in Nat
  BY <1>1 DEF Room
<1>3. moved \in 0 .. Len(notices) /\ moved <= room
  <2> HIDE DEF room
  <2>1. PICK m \in {Len(notices), room} : \A y \in {Len(notices), room} : m <= y
    BY <1>2
  <2>2. moved \in {Len(notices), room} /\ \A y \in {Len(notices), room} : moved <= y
    BY <2>1 DEF Min
  <2> HIDE DEF moved
  <2> QED BY <1>2, <2>2
<1>4. /\ outgoing' = (outgoing \o first) \o front /\ notices' = back
      /\ phase' \in IF goesOn THEN {"waiting", "draining"} ELSE {"joining", "stopping"}
      /\ handlerUp' \in BOOLEAN
  <2> DEFINE rest == Len(notices) - moved
  <2>1. /\ phase' = CASE rest = 0 /\ goesOn   -> "waiting"
                     [] rest = 0 /\ ~ goesOn -> "joining"
                     [] rest > 0 /\ goesOn   -> "draining"
                     [] OTHER                -> "stopping"
        /\ handlerUp' = (goesOn \/ rest > 0)
    BY DEF Move
  <2>2. rest \in Nat
    BY <1>2, <1>3
  <2> HIDE DEF rest
  <2>3. phase' \in IF goesOn THEN {"waiting", "draining"} ELSE {"joining", "stopping"}
    BY <2>1, <2>2
  <2>4. handlerUp' \in BOOLEAN
    BY <2>1
  <2>5. outgoing' = (outgoing \o first) \o front /\ notices' = back
    BY DEF Move
  <2> QED BY <2>3, <2>4, <2>5
<1>5. /\ front \in Seq(Messages) /\ Len(front) = moved /\ back \in Seq(Messages)
      /\ notices = front \o back
  <2> HIDE DEF moved
  <2> QED BY <1>1, <1>3, SplitAt
<1> HIDE DEF front, back, moved
<1>6. outgoing' \in Seq(Messages) /\ Len(outgoing') = Len(outgoing) + Len(first) + moved
  <2>1. outgoing \o first \in Seq(Messages) /\ Len(outgoing \o first) = Len(outgoing) + Len(first)
    BY <1>1, ConcatProperties
  <2>2. /\ (outgoing \o first) \o front \in Seq(Messages)
        /\ Len((outgoing \o first) \o front) = Len(outgoing \o first) + Len(front)
    BY <1>5, <2>1, ConcatProperties
  <2> QED BY <1>4, <1>5, <2>1, <2>2
<1>7. Len(outgoing') <= Capacity
  BY <1>1, <1>2, <1>3, <1>6 DEF Room
<1> QED BY <1>4, <1>5, <1>6, <1>7

\* Initially there are no messages.
LEMMA ConnectionInitInv == ConnectionInit => CInv
<1> SUFFICES ASSUME ConnectionInit PROVE CInv
  OBVIOUS
<1>1. ConnectionTypeOK
  <2>1. incoming \in Seq(0 .. MaxRequests) /\ notices \in Seq(Messages) /\ wire \in Seq(Messages)
        /\ outgoing \in Seq(Messages) /\ Len(outgoing) <= Capacity
    BY BoundsAssumption DEF ConnectionInit
  <2>2. asked \in 0 .. MaxRequests /\ serving \in 0 .. MaxRequests /\ noticed \in 0 .. MaxNotices
    BY BoundsAssumption DEF ConnectionInit
  <2>3. /\ phase = "waiting" /\ writer = "running" /\ disconnected = FALSE /\ handlerUp = TRUE
    BY DEF ConnectionInit
  <2> QED BY <2>1, <2>2, <2>3 DEF ConnectionTypeOK
<1>2. RequestsAreNext
  BY DEF ConnectionInit, RequestsAreNext
<1>3. ToSet(wire) = {} /\ Ordered(wire) /\ ToSet(notices) = {} /\ Ordered(notices)
      /\ Sent = <<>> /\ Notified = {}
  BY SetOfFew DEF ConnectionInit, Sent, Notified
<1>4. NothingLost
  <2>1. Answered = 0
    BY DEF ConnectionInit, Answered
  <2> QED BY <1>3, <2>1, SetOfFew DEF NothingLost, Before
<1>5. InSequence(wire)
  BY <1>3 DEF InSequence
<1> QED BY <1>1, <1>2, <1>3, <1>4, <1>5 DEF CInv

\* The loop moves the borders between what is sent and what waits, and puts at
\* most the response it owes in between.
LEMMA MoveKeeps ==
  ASSUME CInv, NEW first \in {<<>>, <<Response(serving)>>}, Len(first) <= Room,
         NEW goesOn \in BOOLEAN, Move(first, goesOn),
         first # <<>> => goesOn /\ phase \in {"routing", "answering"},
         first = <<>> /\ goesOn => phase = "draining", Serves \/ ~ goesOn,
         UNCHANGED <<serving, incoming, transportVars, asked, noticed>>
  PROVE  CInv'
<1>0. UNCHANGED <<serving, incoming, writer, disconnected, wire, asked, noticed>>
  BY DEF transportVars
<1>1. /\ wire \in Seq(Messages) /\ outgoing \in Seq(Messages) /\ notices \in Seq(Messages)
      /\ serving \in Nat /\ incoming \in Seq(0 .. MaxRequests)
      /\ Response(serving) \in Messages
  <2>1. serving \in Nat
    BY BoundsAssumption DEF CInv, ConnectionTypeOK
  <2> QED BY <2>1, MessageFacts DEF CInv, ConnectionTypeOK
<1>2. first \in Seq(Messages)
  <2>1. <<>> \in Seq(Messages) /\ <<Response(serving)>> \in Seq(Messages)
    BY <1>1
  <2> QED BY <2>1
<1>3. PICK front \in Seq(Messages), back \in Seq(Messages) :
            /\ notices = front \o back /\ notices' = back
            /\ outgoing' = (outgoing \o first) \o front
            /\ outgoing' \in Seq(Messages) /\ Len(outgoing') <= Capacity
            /\ phase' \in IF goesOn THEN {"waiting", "draining"} ELSE {"joining", "stopping"}
            /\ handlerUp' \in BOOLEAN
  BY <1>2, MoveFacts DEF CInv
<1>4. ConnectionTypeOK'
  <2>1. phase' \in {"waiting", "routing", "answering", "draining", "stopping",
                   "joining", "closed"}
    BY <1>3
  <2> QED BY <1>0, <1>3, <2>1 DEF CInv, ConnectionTypeOK
<1>5. RequestsAreNext'
  <2>1. Serves' => Serves /\ ~ phase' \in {"routing", "answering"}
    BY <1>3 DEF Serves
  <2> QED BY <1>0, <2>1 DEF CInv, RequestsAreNext
<1>6. ToSet(notices) = ToSet(front) \cup ToSet(back)
      /\ ToSet(front) \subseteq Notified /\ ToSet(back) \subseteq Notified
  BY <1>3, SetOfConcat DEF CInv
<1>7. Notified' = Notified /\ ToSet(notices') \subseteq Notified /\ InSequence(wire)'
  <2>1. Notified' = Notified
    BY <1>0 DEF Notified
  <2>2. ToSet(notices') \subseteq Notified
    BY <1>3, <1>6
  <2>3. InSequence(wire)'
    BY <1>0 DEF CInv, InSequence, Ordered, ToSet
  <2> QED BY <2>1, <2>2, <2>3
<1>8. Sent' = (Sent \o first) \o front
  <2>1. outgoing' = (outgoing \o first) \o front /\ wire' = wire
    BY <1>0, <1>3
  <2>2. PICK x \in Seq(Messages) : x = first
    BY <1>2
  <2>3. wire \in Seq(Messages) /\ outgoing \in Seq(Messages)
    BY <1>1
  <2>4. wire \o ((outgoing \o x) \o front) = ((wire \o outgoing) \o x) \o front
    BY <2>3
  <2> QED BY <2>1, <2>2, <2>4 DEF Sent
<1>9. ASSUME Up' PROVE NothingLost'
  <2>1. Up
    BY <1>0, <1>9 DEF Up
  <2>2. /\ Ordered(Sent) /\ Ordered(notices) /\ Before(ToSet(Sent), ToSet(notices))
        /\ {m \in ToSet(Sent) \cup ToSet(notices) : m.kind = "notice"} = Notified
        /\ \A m \in ToSet(Sent) : m.kind = "response" =>
              m.number > 0 /\ \A n \in 1 .. m.number : Response(n) \in ToSet(Sent)
        /\ Serves => /\ \A n \in 1 .. Answered : Response(n) \in ToSet(Sent)
                     /\ \A m \in ToSet(Sent) : m.kind = "response" => m.number <= Answered
    BY <2>1 DEF CInv, NothingLost
  <2>3. /\ Sent \in Seq(Messages) /\ Sent \o first \in Seq(Messages)
        /\ ToSet(Sent \o first) = ToSet(Sent) \cup ToSet(first)
        /\ ToSet(Sent') = ToSet(Sent) \cup ToSet(first) \cup ToSet(front)
        /\ ToSet(Sent) \subseteq Messages
    <3>1. Sent \in Seq(Messages)
      BY <1>1, SetOfConcat DEF Sent
    <3>2. Sent \o first \in Seq(Messages) /\ ToSet(Sent) \subseteq Messages
          /\ ToSet(Sent \o first) = ToSet(Sent) \cup ToSet(first)
      BY <1>2, <3>1, SetOfConcat
    <3> DEFINE u == Sent \o first
    <3>3. u \in Seq(Messages) /\ Sent' = u \o front
      BY <1>8, <3>2
    <3> HIDE DEF u
    <3>4. ToSet(Sent') = ToSet(u) \cup ToSet(front)
      BY <3>3, SetOfConcat
    <3> QED BY <3>1, <3>2, <3>4 DEF u
  <2>4. /\ ToSet(first) = IF first = <<>> THEN {} ELSE {Response(serving)}
        /\ Ordered(first)
    BY SetOfFew
  <2>5. Ordered(front) /\ Ordered(back) /\ Before(ToSet(front), ToSet(back))
    BY <1>3, <2>2, OrderedConcat
  <2>6. first # <<>> => Serves /\ Answered = serving - 1 /\ serving > 0
    BY DEF Serves, Answered, CInv, RequestsAreNext
  <2>7. Before(ToSet(Sent), ToSet(first))
    <3> SUFFICES ASSUME first # <<>>, NEW m \in ToSet(Sent), m.kind = "response"
                 PROVE  m.number < serving
      BY <2>4, MessageFacts, <1>1 DEF Before
    <3>1. m.number <= serving - 1 /\ m.number \in Nat
      BY <2>2, <2>3, <2>6, MessageFacts
    <3> QED BY <1>1, <3>1
  <2>8. \A m \in Notified : m.kind = "notice"
    BY MessageFacts DEF Notified, Notice
  <2>9. Before(ToSet(Sent) \cup ToSet(first), ToSet(front))
        /\ Before(ToSet(Sent) \cup ToSet(first) \cup ToSet(front), ToSet(back))
    <3>1. \A m \in ToSet(first) : m.kind = "response"
      BY <2>4, <1>1, MessageFacts
    <3> QED BY <1>6, <2>2, <2>5, <2>8, <3>1 DEF Before
  <2>10. Ordered(Sent')
    <3>1. Ordered(Sent \o first)
      BY <1>2, <2>2, <2>3, <2>4, <2>7, OrderedConcat
    <3> DEFINE u == Sent \o first
    <3>2. /\ u \in Seq(Messages) /\ Sent' = u \o front /\ Ordered(u)
          /\ Before(ToSet(u), ToSet(front))
      BY <1>8, <2>3, <2>9, <3>1
    <3> HIDE DEF u
    <3> QED BY <2>5, <3>2, OrderedConcat
  <2>11. Ordered(notices') /\ Before(ToSet(Sent'), ToSet(notices'))
    BY <1>3, <2>3, <2>5, <2>9
  <2>12. {m \in ToSet(Sent') \cup ToSet(notices') : m.kind = "notice"} = Notified'
    <3>1. \A m \in ToSet(first) : m.kind # "notice"
      BY <2>4, <1>1, MessageFacts
    <3> QED BY <1>3, <1>6, <1>7, <2>2, <2>3, <3>1
  <2>13. \A m \in ToSet(Sent') : m.kind = "response" =>
            m \in ToSet(Sent) \/ (first # <<>> /\ m = Response(serving))
    BY <1>6, <2>3, <2>4, <2>8
  <2>14. first # <<>> => \A n \in 1 .. serving : Response(n) \in ToSet(Sent')
    <3>1. ASSUME first # <<>>, NEW n \in 1 .. serving PROVE Response(n) \in ToSet(Sent')
      <4>1. n = serving \/ n \in 1 .. serving - 1
        BY <1>1
      <4> QED BY <2>2, <2>3, <2>4, <2>6, <3>1, <4>1
    <3> QED BY <3>1
  <2>15. \A m \in ToSet(Sent') : m.kind = "response" =>
            m.number > 0 /\ \A n \in 1 .. m.number : Response(n) \in ToSet(Sent')
    <3> SUFFICES ASSUME NEW m \in ToSet(Sent'), m.kind = "response"
                 PROVE  m.number > 0 /\ \A n \in 1 .. m.number : Response(n) \in ToSet(Sent')
      OBVIOUS
    <3>1. CASE m \in ToSet(Sent)
      BY <2>2, <2>3, <3>1
    <3>2. CASE first # <<>> /\ m = Response(serving)
      <4>1. m.number = serving /\ serving > 0
        BY <1>1, <2>6, <3>2, MessageFacts
      <4> QED BY <2>14, <3>2, <4>1
    <3> QED BY <2>13, <3>1, <3>2
  <2>16. ASSUME Serves'
         PROVE  /\ \A n \in 1 .. Answered' : Response(n) \in ToSet(Sent')
                /\ \A m \in ToSet(Sent') : m.kind = "response" => m.number <= Answered'
    <3>1. goesOn /\ Serves /\ Answered' = serving
      BY <1>0, <1>3, <2>16 DEF Serves, Answered
    <3>2. CASE first = <<>>
      <4>1. Answered = serving /\ ToSet(Sent) \subseteq ToSet(Sent')
        BY <2>3, <3>1, <3>2 DEF Answered
      <4> QED BY <2>2, <2>13, <3>1, <3>2, <4>1
    <3>3. CASE first # <<>>
      <4>1. ASSUME NEW m \in ToSet(Sent'), m.kind = "response" PROVE m.number <= serving
        <5>1. CASE m \in ToSet(Sent)
          <6>1. m.number <= serving - 1 /\ m.number \in Nat
            BY <2>2, <2>3, <2>6, <3>1, <3>3, <4>1, <5>1, MessageFacts
          <6> QED BY <1>1, <6>1
        <5>2. CASE m = Response(serving)
          BY <1>1, <5>2, MessageFacts
        <5> QED BY <2>13, <4>1, <5>1, <5>2
      <4> QED BY <2>14, <3>1, <3>3, <4>1
    <3> QED BY <3>2, <3>3
  <2> QED BY <2>10, <2>11, <2>12, <2>15, <2>16 DEF NothingLost
<1>10. NothingLost'
  <2>1. CASE Up'
    BY <1>9, <2>1
  <2>2. CASE ~ Up'
    BY <2>2 DEF NothingLost
  <2> QED BY <2>1, <2>2
<1> QED BY <1>4, <1>5, <1>7, <1>10 DEF CInv

\* The client's side: a request that is sent is the one after those that wait.
LEMMA AskKeeps == ASSUME CInv, Ask PROVE CInv'
<1>0. /\ UNCHANGED <<phase, serving, handlerUp, notices, outgoing, writer, disconnected, wire, noticed>>
      /\ incoming' = Append(incoming, asked + 1) /\ asked' = asked + 1
      /\ ~ disconnected /\ asked < MaxRequests
  BY DEF Ask, loopVars, transportVars
<1>1. incoming \in Seq(0 .. MaxRequests) /\ asked \in 0 .. MaxRequests /\ MaxRequests \in Nat
      /\ serving \in 0 .. MaxRequests
  BY BoundsAssumption DEF CInv, ConnectionTypeOK
<1>2. asked + 1 \in 0 .. MaxRequests
  BY <1>0, <1>1
<1>3. incoming' \in Seq(0 .. MaxRequests) /\ asked' \in 0 .. MaxRequests
  BY <1>0, <1>1, <1>2
<1>4. ConnectionTypeOK'
  BY <1>0, <1>3 DEF CInv, ConnectionTypeOK
<1>5. RequestsAreNext'
  <2> SUFFICES ASSUME Serves'
               PROVE  /\ \A i \in DOMAIN incoming' : incoming'[i] \in {Gone, serving + i}
                      /\ Len(incoming') = asked' - serving
                      /\ phase \in {"routing", "answering"} => serving > 0
    BY <1>0 DEF RequestsAreNext
  <2>1. /\ \A i \in DOMAIN incoming : incoming[i] \in {Gone, serving + i}
        /\ Len(incoming) = asked - serving
        /\ phase \in {"routing", "answering"} => serving > 0
    BY <1>0 DEF CInv, RequestsAreNext, Serves
  <2>2. Len(incoming') = Len(incoming) + 1 /\ DOMAIN incoming' = 1 .. Len(incoming) + 1
    BY <1>0, <1>1, <1>2
  <2>3. ASSUME NEW i \in 1 .. Len(incoming) + 1 PROVE incoming'[i] \in {Gone, serving + i}
    <3>1. CASE i = Len(incoming) + 1
      <4>1. incoming'[i] = asked + 1
        BY <1>0, <1>1, <1>2, <3>1
      <4>2. asked + 1 = serving + i
        BY <1>1, <2>1, <3>1
      <4> QED BY <4>1, <4>2
    <3>2. CASE i # Len(incoming) + 1
      <4>1. i \in 1 .. Len(incoming) /\ i \in DOMAIN incoming
        BY <1>1, <3>2
      <4>2. incoming'[i] = incoming[i]
        BY <1>0, <1>1, <1>2, <4>1
      <4> QED BY <2>1, <4>1, <4>2
    <3> QED BY <3>1, <3>2
  <2>4. Len(incoming') = asked' - serving
    BY <1>0, <1>1, <2>1, <2>2
  <2> QED BY <2>1, <2>2, <2>3, <2>4
<1>6. /\ Sent' = Sent /\ Up' = Up /\ Serves' = Serves /\ Answered' = Answered
      /\ Notified' = Notified
  BY <1>0 DEF Sent, Up, Serves, Answered, Notified
<1>7. NothingLost' /\ (ToSet(notices) \subseteq Notified)' /\ InSequence(wire)'
  BY <1>0, <1>6 DEF CInv, NothingLost
<1> QED BY <1>4, <1>5, <1>7 DEF CInv

\* A process's notification comes after all others.
LEMMA NotifyKeeps == ASSUME CInv, Notify PROVE CInv'
<1>0. /\ UNCHANGED <<phase, serving, handlerUp, incoming, outgoing, writer, disconnected, wire, asked>>
      /\ notices' = Append(notices, Notice(noticed + 1)) /\ noticed' = noticed + 1
      /\ noticed < MaxNotices
  BY DEF Notify, loopVars, transportVars
<1>1. /\ wire \in Seq(Messages) /\ outgoing \in Seq(Messages) /\ notices \in Seq(Messages)
      /\ noticed \in 0 .. MaxNotices /\ MaxNotices \in Nat
  BY BoundsAssumption DEF CInv, ConnectionTypeOK
<1> DEFINE new == Notice(noticed + 1)
<1>2. /\ new \in Messages /\ new.kind = "notice" /\ new.number = noticed + 1
      /\ noticed + 1 \in 0 .. MaxNotices
  BY <1>0, <1>1, MessageFacts
<1>3. notices' = notices \o <<new>> /\ <<new>> \in Seq(Messages)
  BY <1>0, <1>1, <1>2
<1>4. ConnectionTypeOK'
  <2>1. notices' \in Seq(Messages) /\ noticed' \in 0 .. MaxNotices
    BY <1>0, <1>1, <1>2
  <2> QED BY <1>0, <2>1 DEF CInv, ConnectionTypeOK
<1>5. RequestsAreNext'
  BY <1>0 DEF CInv, RequestsAreNext, Serves
<1>6. Notified' = Notified \cup {new} /\ \A m \in Notified : m.kind = "notice" /\ m.number <= noticed
  <2>1. 1 .. noticed + 1 = (1 .. noticed) \cup {noticed + 1}
    BY <1>1
  <2>2. Notified' = Notified \cup {new}
    BY <1>0, <2>1 DEF Notified
  <2>3. \A n \in 1 .. noticed : Notice(n).kind = "notice" /\ Notice(n).number <= noticed
    BY <1>1, MessageFacts
  <2> QED BY <2>2, <2>3 DEF Notified
<1> HIDE DEF new
<1>7. /\ Sent' = Sent /\ Up' = Up /\ Serves' = Serves /\ Answered' = Answered
  BY <1>0 DEF Sent, Up, Serves, Answered
<1>8. ToSet(notices') = ToSet(notices) \cup {new} /\ ToSet(notices) \subseteq Messages
      /\ Sent \in Seq(Messages) /\ ToSet(Sent) \subseteq Messages
  BY <1>1, <1>3, SetOfConcat, SetOfFew DEF Sent
<1>9. ToSet(notices') \subseteq Notified'
  BY <1>6, <1>8 DEF CInv
<1>10. ASSUME Up' PROVE NothingLost'
  <2>1. /\ Ordered(Sent) /\ Ordered(notices) /\ Before(ToSet(Sent), ToSet(notices))
        /\ {m \in ToSet(Sent) \cup ToSet(notices) : m.kind = "notice"} = Notified
        /\ \A m \in ToSet(Sent) : m.kind = "response" =>
              m.number > 0 /\ \A n \in 1 .. m.number : Response(n) \in ToSet(Sent)
        /\ Serves => /\ \A n \in 1 .. Answered : Response(n) \in ToSet(Sent)
                     /\ \A m \in ToSet(Sent) : m.kind = "response" => m.number <= Answered
    BY <1>7, <1>10 DEF CInv, NothingLost
  <2>2. \A m \in ToSet(Sent) \cup ToSet(notices) : m.kind = new.kind => m.number < new.number
    <3> SUFFICES ASSUME NEW m \in ToSet(Sent) \cup ToSet(notices), m.kind = "notice"
                 PROVE  m.number < noticed + 1
      BY <1>2
    <3>1. m \in Notified /\ m.number \in Nat
      BY <1>8, <2>1, MessageFacts
    <3> QED BY <1>1, <1>6, <3>1
  <2>3. Before(ToSet(notices), ToSet(<<new>>)) /\ Before(ToSet(Sent), ToSet(notices'))
    BY <1>8, <2>1, <2>2, SetOfFew DEF Before
  <2>4. Ordered(notices')
    BY <1>1, <1>3, <2>1, <2>3, OrderedConcat, SetOfFew
  <2>5. {m \in ToSet(Sent) \cup ToSet(notices') : m.kind = "notice"} = Notified'
    BY <1>2, <1>6, <1>8, <2>1
  <2> QED BY <1>7, <2>1, <2>3, <2>4, <2>5 DEF NothingLost
<1>11. NothingLost'
  <2>1. CASE ~ Up'
    BY <2>1 DEF NothingLost
  <2> QED BY <1>10, <2>1
<1>12. InSequence(wire)'
  BY <1>0 DEF CInv
<1> QED BY <1>4, <1>5, <1>9, <1>11, <1>12 DEF CInv

\* The loop takes the next request, whose response is the first one missing.
LEMMA TakeRequestKeeps == ASSUME CInv, TakeRequest PROVE CInv'
<1>0. /\ UNCHANGED <<handlerUp, notices, outgoing, writer, disconnected, wire, asked, noticed>>
      /\ incoming' = Tail(incoming) /\ serving' = Head(incoming)
      /\ phase = "waiting" /\ phase' = "routing" /\ incoming # <<>> /\ Head(incoming) # Gone
  BY DEF TakeRequest, transportVars
<1>1. incoming \in Seq(0 .. MaxRequests) /\ asked \in Nat /\ serving \in Nat
  BY BoundsAssumption DEF CInv, ConnectionTypeOK
<1>2. incoming' \in Seq(0 .. MaxRequests) /\ serving' \in 0 .. MaxRequests
  BY <1>0, <1>1, HeadTailProperties
<1>3. ConnectionTypeOK'
  BY <1>0, <1>2 DEF CInv, ConnectionTypeOK
<1>4. /\ \A i \in DOMAIN incoming : incoming[i] \in {Gone, serving + i}
      /\ ~ disconnected => Len(incoming) = asked - serving
  BY <1>0 DEF CInv, RequestsAreNext, Serves
<1>5. serving' = serving + 1
  BY <1>0, <1>1, <1>4
<1>6. RequestsAreNext'
  <2>1. Len(incoming') = Len(incoming) - 1 /\ DOMAIN incoming' = 1 .. Len(incoming) - 1
    BY <1>0, <1>1
  <2>2. ASSUME NEW i \in 1 .. Len(incoming) - 1 PROVE incoming'[i] \in {Gone, serving' + i}
    <3>1. incoming'[i] = incoming[i + 1] /\ i + 1 \in DOMAIN incoming
      BY <1>0, <1>1
    <3>2. serving' + i = serving + (i + 1)
      BY <1>1, <1>5
    <3> QED BY <1>4, <3>1, <3>2
  <2>3. ~ disconnected => Len(incoming') = asked - serving'
    BY <1>1, <1>4, <1>5, <2>1
  <2> QED BY <1>0, <1>1, <1>5, <2>1, <2>2, <2>3 DEF RequestsAreNext
<1>7. Answered' = Answered
  BY <1>0, <1>1, <1>5 DEF Answered
<1>8. Sent' = Sent /\ Up' = Up /\ Serves /\ Notified' = Notified
  BY <1>0 DEF Sent, Up, Serves, Notified
<1>9. NothingLost' /\ (ToSet(notices) \subseteq Notified)' /\ InSequence(wire)'
  BY <1>0, <1>7, <1>8 DEF CInv, NothingLost
<1> QED BY <1>3, <1>6, <1>9 DEF CInv

\* After these the loop serves nothing more, or the connection is down.
LEMMA EndsKeep ==
  ASSUME CInv, TakeDisconnected \/ Close PROVE CInv'
<1>0. /\ UNCHANGED <<serving, notices, outgoing, disconnected, wire, asked, noticed>>
      /\ phase' \in {"joining", "closed"} /\ handlerUp' \in BOOLEAN
      /\ writer' \in {writer, "ended"}
      /\ incoming' = incoming \/ (incoming # <<>> /\ incoming' = Tail(incoming))
  BY DEF TakeDisconnected, Close, queueVars, transportVars, CInv, ConnectionTypeOK
<1>1. ConnectionTypeOK'
  <2>1. incoming' \in Seq(0 .. MaxRequests) /\ writer' \in {"running", "ended"}
    BY <1>0, HeadTailProperties DEF CInv, ConnectionTypeOK
  <2>2. phase' \in {"waiting", "routing", "answering", "draining", "stopping",
                   "joining", "closed"}
    BY <1>0
  <2> QED BY <1>0, <2>1, <2>2 DEF CInv, ConnectionTypeOK
<1>2. ~ Serves'
  BY <1>0 DEF Serves
<1>3. RequestsAreNext'
  BY <1>2 DEF RequestsAreNext
<1>4. (Up' => Up) /\ Sent' = Sent /\ Notified' = Notified
  BY <1>0 DEF Up, Sent, Notified, CInv, ConnectionTypeOK
<1>5. NothingLost' /\ (ToSet(notices) \subseteq Notified)' /\ InSequence(wire)'
  BY <1>0, <1>2, <1>4 DEF CInv, NothingLost
<1> QED BY <1>1, <1>3, <1>5 DEF CInv

\* The steps that put messages on the outgoing queue.
LEMMA QueueingKeeps ==
  ASSUME CInv, RouteEnds \/ Answer \/ RouteBreaks \/ Drain PROVE CInv'
<1>1. /\ Len(<<>>) = 0 /\ Len(<<Response(serving)>>) = 1
      /\ Room \in Nat
  BY BoundsAssumption DEF CInv, ConnectionTypeOK, Room
<1>2. CASE RouteEnds /\ Room > 0
  <2>1. /\ phase = "routing" /\ Move(<<Response(serving)>>, TRUE)
        /\ UNCHANGED <<serving, incoming, transportVars, asked, noticed>>
    BY <1>2 DEF RouteEnds
  <2>2. Serves /\ Len(<<Response(serving)>>) <= Room
    BY <1>1, <1>2, <2>1 DEF Serves
  <2> QED BY <2>1, <2>2, MoveKeeps
<1>3. CASE RouteEnds /\ ~ Room > 0
  <2>1. /\ phase = "routing" /\ phase' = "answering"
        /\ UNCHANGED <<handlerUp, notices, outgoing, serving, incoming, asked, noticed>>
        /\ UNCHANGED <<writer, disconnected, wire>>
    BY <1>3 DEF RouteEnds, transportVars
  <2>2. ConnectionTypeOK'
    BY <2>1 DEF CInv, ConnectionTypeOK
  <2>3. RequestsAreNext'
    BY <2>1 DEF CInv, RequestsAreNext, Serves
  <2>4. Sent' = Sent /\ Up' = Up /\ Serves /\ Notified' = Notified /\ Answered' = Answered
    BY <2>1 DEF Sent, Up, Serves, Notified, Answered
  <2>5. NothingLost' /\ (ToSet(notices) \subseteq Notified)' /\ InSequence(wire)'
    BY <2>1, <2>4 DEF CInv, NothingLost
  <2> QED BY <2>2, <2>3, <2>5 DEF CInv
<1>4. CASE Answer
  <2>1. /\ phase = "answering" /\ Room > 0 /\ Move(<<Response(serving)>>, TRUE)
        /\ UNCHANGED <<serving, incoming, transportVars, asked, noticed>>
    BY <1>4 DEF Answer
  <2>2. Serves /\ Len(<<Response(serving)>>) <= Room
    BY <1>1, <2>1 DEF Serves
  <2> QED BY <2>1, <2>2, MoveKeeps
<1>5. CASE RouteBreaks
  <2>1. /\ Move(<<>>, FALSE)
        /\ UNCHANGED <<serving, incoming, transportVars, asked, noticed>>
    BY <1>5 DEF RouteBreaks
  <2>2. Len(<<>>) <= Room
    BY <1>1
  <2> QED BY <2>1, <2>2, MoveKeeps
<1>6. CASE Drain
  <2>1. PICK goesOn \in BOOLEAN : goesOn <=> (phase = "draining")
    OBVIOUS
  <2>2. /\ Move(<<>>, goesOn)
        /\ UNCHANGED <<serving, incoming, transportVars, asked, noticed>>
    <3>1. Move(<<>>, phase = "draining")
      BY <1>6 DEF Drain
    <3>2. (phase = "draining") = goesOn
      BY <2>1, Zenon
    <3>3. Move(<<>>, goesOn)
      BY <3>1, <3>2, Zenon
    <3> QED BY <1>6, <3>3 DEF Drain
  <2>3. Len(<<>>) <= Room /\ (Serves \/ ~ goesOn)
    BY <1>1, <2>1 DEF Serves
  <2> QED BY <2>1, <2>2, <2>3, MoveKeeps
<1> QED BY <1>2, <1>3, <1>4, <1>5, <1>6

\* The transport fails: messages may be lost, and then nothing more is claimed
\* but of what is on the wire.
LEMMA FailureKeeps == ASSUME CInv, WriteFails \/ ReadEnds PROVE CInv'
<1>0. /\ UNCHANGED <<phase, serving, handlerUp, notices, wire, asked, noticed>>
      /\ disconnected' = TRUE /\ incoming' = Append(incoming, Gone)
      /\ writer' \in {writer, "ended"}
      /\ \/ outgoing' = outgoing /\ ~ disconnected
         \/ writer' = "ended" /\ outgoing # <<>> /\ outgoing' = Tail(outgoing)
  BY DEF WriteFails, ReadEnds, loopVars
<1>1. /\ incoming \in Seq(0 .. MaxRequests) /\ 0 \in 0 .. MaxRequests /\ serving \in Nat
      /\ outgoing \in Seq(Messages) /\ Len(outgoing) <= Capacity /\ Capacity \in Nat
  BY BoundsAssumption DEF CInv, ConnectionTypeOK
<1>2. ConnectionTypeOK'
  <2>1. incoming' \in Seq(0 .. MaxRequests) /\ writer' \in {"running", "ended"}
    BY <1>0, <1>1 DEF CInv, ConnectionTypeOK, Gone
  <2>2. outgoing' \in Seq(Messages) /\ Len(outgoing') <= Capacity
    <3>1. CASE outgoing' = outgoing
      BY <1>1, <3>1
    <3>2. CASE outgoing # <<>> /\ outgoing' = Tail(outgoing)
      <4>1. Tail(outgoing) \in Seq(Messages) /\ Len(Tail(outgoing)) = Len(outgoing) - 1
        BY <1>1, <3>2, SplitHead
      <4> QED BY <1>1, <3>2, <4>1
    <3> QED BY <1>0, <3>1, <3>2
  <2> QED BY <1>0, <2>1, <2>2 DEF CInv, ConnectionTypeOK
<1>3. RequestsAreNext'
  <2> SUFFICES ASSUME Serves'
               PROVE  /\ \A i \in DOMAIN incoming' : incoming'[i] \in {Gone, serving + i}
                      /\ phase \in {"routing", "answering"} => serving > 0
    BY <1>0 DEF RequestsAreNext
  <2>1. /\ \A i \in DOMAIN incoming : incoming[i] \in {Gone, serving + i}
        /\ phase \in {"routing", "answering"} => serving > 0
    BY <1>0 DEF CInv, RequestsAreNext, Serves
  <2>2. ASSUME NEW i \in DOMAIN incoming' PROVE incoming'[i] \in {Gone, serving + i}
    <3>1. i \in 1 .. Len(incoming) + 1
      BY <1>0, <1>1 DEF Gone
    <3>2. CASE i = Len(incoming) + 1
      BY <1>0, <1>1, <3>2 DEF Gone
    <3>3. CASE i # Len(incoming) + 1
      <4>1. i \in DOMAIN incoming /\ incoming'[i] = incoming[i]
        BY <1>0, <1>1, <3>1, <3>3 DEF Gone
      <4> QED BY <2>1, <4>1
    <3> QED BY <3>2, <3>3
  <2> QED BY <2>1, <2>2
<1>4. /\ Up' => Up /\ Sent' = Sent
      /\ Serves' = Serves /\ Notified' = Notified /\ Answered' = Answered
  BY <1>0 DEF Up, Sent, Serves, Notified, Answered, CInv, ConnectionTypeOK
<1>5. NothingLost'
  <2>1. CASE ~ Up'
    BY <2>1 DEF NothingLost
  <2>2. CASE Up'
    BY <1>0, <1>4, <2>2 DEF CInv, NothingLost
  <2> QED BY <2>1, <2>2
<1>6. (ToSet(notices) \subseteq Notified)' /\ InSequence(wire)'
  BY <1>0, <1>4 DEF CInv
<1> QED BY <1>2, <1>3, <1>5, <1>6 DEF CInv

\* What the writer takes is the first message that is not on the wire, and no
\* smaller one of its kind is still to come.
LEMMA WriteKeeps == ASSUME CInv, Write PROVE CInv'
<1>0. /\ UNCHANGED <<phase, serving, handlerUp, incoming, notices, writer, disconnected, asked, noticed>>
      /\ wire' = Append(wire, Head(outgoing)) /\ outgoing' = Tail(outgoing)
      /\ writer = "running" /\ outgoing # <<>>
  BY DEF Write, loopVars
<1>1. /\ wire \in Seq(Messages) /\ outgoing \in Seq(Messages) /\ notices \in Seq(Messages)
      /\ Len(outgoing) <= Capacity /\ Capacity \in Nat
  BY BoundsAssumption DEF CInv, ConnectionTypeOK
<1>2. /\ Head(outgoing) \in Messages /\ Tail(outgoing) \in Seq(Messages)
      /\ Len(Tail(outgoing)) = Len(outgoing) - 1
      /\ outgoing = <<Head(outgoing)>> \o Tail(outgoing)
  BY <1>0, <1>1, SplitHead
<1>3. wire' \in Seq(Messages) /\ wire' = wire \o <<Head(outgoing)>>
  BY <1>0, <1>1, <1>2
<1>4. ConnectionTypeOK'
  <2>1. outgoing' \in Seq(Messages) /\ Len(outgoing') <= Capacity
    BY <1>0, <1>1, <1>2
  <2> QED BY <1>0, <1>3, <2>1 DEF CInv, ConnectionTypeOK
<1>5. Sent' = Sent
  <2>1. <<Head(outgoing)>> \in Seq(Messages) /\ Tail(outgoing) \in Seq(Messages)
    BY <1>2
  <2>2. wire \o (<<Head(outgoing)>> \o Tail(outgoing)) = (wire \o <<Head(outgoing)>>) \o Tail(outgoing)
    BY <1>1, <2>1, Associative
  <2> QED BY <1>0, <1>2, <1>3, <2>2 DEF Sent
<1>6. RequestsAreNext'
  BY <1>0 DEF CInv, RequestsAreNext, Serves
<1>7. Up /\ Up' = Up /\ Serves' = Serves /\ Notified' = Notified /\ Answered' = Answered
  BY <1>0 DEF Up, Serves, Notified, Answered
<1>8. NothingLost' /\ (ToSet(notices) \subseteq Notified)'
  BY <1>0, <1>5, <1>7 DEF CInv, NothingLost
<1>9. /\ Ordered(Sent) /\ Before(ToSet(Sent), ToSet(notices))
      /\ {m \in ToSet(Sent) \cup ToSet(notices) : m.kind = "notice"} = Notified
      /\ \A m \in ToSet(Sent) : m.kind = "response" =>
            m.number > 0 /\ \A n \in 1 .. m.number : Response(n) \in ToSet(Sent)
  BY <1>7 DEF CInv, NothingLost
<1>10. /\ ToSet(Sent) = ToSet(wire') \cup ToSet(outgoing') /\ ToSet(Sent) \subseteq Messages
       /\ Ordered(wire') /\ Before(ToSet(wire'), ToSet(outgoing'))
       /\ Before(ToSet(wire'), ToSet(notices))
  <2>1. Sent = wire' \o outgoing' /\ wire' \in Seq(Messages) /\ outgoing' \in Seq(Messages)
    BY <1>0, <1>2, <1>3, <1>5 DEF Sent
  <2>2. /\ ToSet(Sent) = ToSet(wire') \cup ToSet(outgoing')
        /\ Ordered(wire') /\ Before(ToSet(wire'), ToSet(outgoing'))
    BY <1>9, <2>1, SetOfConcat, OrderedConcat
  <2>3. ToSet(Sent) \subseteq Messages
    BY <2>1, SetOfConcat
  <2> QED BY <1>9, <2>2, <2>3 DEF Before
<1>11. ASSUME NEW m \in ToSet(wire')
       PROVE  m.number > 0 /\ \A n \in 1 .. m.number : [m EXCEPT !.number = n] \in ToSet(wire')
  <2>1. m \in Messages /\ m \in ToSet(Sent) /\ m.number \in Nat
    BY <1>10, MessageFacts
  <2>2. m.number > 0
    <3>1. CASE m.kind = "response"
      BY <1>9, <2>1, <3>1
    <3>2. CASE m.kind = "notice"
      <4>1. PICK n \in 1 .. noticed : m = Notice(n)
        BY <1>9, <2>1, <3>2 DEF Notified
      <4>2. n \in Nat /\ n > 0
        BY <4>1
      <4> QED BY <4>1, <4>2, MessageFacts
    <3> QED BY <2>1, <3>1, <3>2, MessageFacts
  <2>3. ASSUME NEW n \in 1 .. m.number PROVE [m EXCEPT !.number = n] \in ToSet(wire')
    <3> DEFINE x == [m EXCEPT !.number = n]
    <3>1. n \in Nat /\ n <= m.number
      BY <2>1
    <3>2. n # m.number => x.kind = m.kind /\ ~ m.number < x.number
      BY <2>1, <3>1 DEF Messages
    <3>3. n = m.number => x = m
      BY <2>1 DEF Messages
    <3>4. x \in ToSet(Sent) \cup ToSet(notices)
      <4>1. CASE m.kind = "response"
        <5>1. x = Response(n)
          BY <2>1, <4>1, MessageFacts
        <5> HIDE DEF x
        <5> QED BY <1>9, <2>1, <4>1, <5>1
      <4>2. CASE m.kind = "notice"
        <5>1. x = Notice(n)
          BY <2>1, <4>2, MessageFacts
        <5>2. PICK k \in 1 .. noticed : m = Notice(k)
          BY <1>9, <2>1, <4>2 DEF Notified
        <5>3. m.number = k /\ noticed \in Nat
          BY <5>2, MessageFacts, BoundsAssumption DEF CInv, ConnectionTypeOK
        <5>4. n \in 1 .. noticed
          BY <3>1, <5>2, <5>3
        <5>5. Notice(n) \in Notified
          BY <5>4 DEF Notified
        <5> HIDE DEF x
        <5> QED BY <1>9, <5>1, <5>5
      <4> QED BY <2>1, <4>1, <4>2, MessageFacts
    <3> HIDE DEF x
    <3>5. n # m.number => x \notin ToSet(outgoing') /\ x \notin ToSet(notices)
      BY <1>10, <3>2 DEF Before
    <3>6. x \in ToSet(wire')
      BY <1>10, <3>3, <3>4, <3>5
    <3> QED BY <3>6 DEF x
  <2> QED BY <2>2, <2>3
<1>12. InSequence(wire)'
  BY <1>10, <1>11 DEF InSequence
<1> QED BY <1>4, <1>6, <1>8, <1>12 DEF CInv

LEMMA ConnectionInvariant == ConnectionSpec => []CInv
<1>1. ConnectionInit => CInv
  BY ConnectionInitInv
<1>2. CInv /\ [ConnectionNext]_connectionVars => CInv'
  <2> SUFFICES ASSUME CInv, [ConnectionNext]_connectionVars PROVE CInv'
    OBVIOUS
  <2>1. CASE TakeRequest
    BY <2>1, TakeRequestKeeps
  <2>2. CASE TakeDisconnected \/ Close
    BY <2>2, EndsKeep
  <2>3. CASE RouteEnds \/ Answer \/ RouteBreaks \/ Drain
    BY <2>3, QueueingKeeps
  <2>4. CASE Write
    BY <2>4, WriteKeeps
  <2>5. CASE WriteFails \/ ReadEnds
    BY <2>5, FailureKeeps
  <2>6. CASE Ask
    BY <2>6, AskKeeps
  <2>7. CASE Notify
    BY <2>7, NotifyKeeps
  <2>8. CASE UNCHANGED connectionVars
    <3>1. UNCHANGED <<incoming, asked, phase, serving, notices, noticed, outgoing, writer,
                      disconnected, handlerUp, wire>>
      BY <2>8 DEF connectionVars, loopVars, queueVars, transportVars
    <3>2. ConnectionTypeOK' /\ RequestsAreNext'
      BY <3>1 DEF CInv, ConnectionTypeOK, RequestsAreNext, Serves
    <3>3. /\ Sent' = Sent /\ Up' = Up /\ Serves' = Serves /\ Notified' = Notified
          /\ Answered' = Answered
      BY <3>1 DEF Sent, Up, Serves, Notified, Answered
    <3>4. NothingLost' /\ (ToSet(notices) \subseteq Notified)' /\ InSequence(wire)'
      BY <3>1, <3>3 DEF CInv, NothingLost
    <3> QED BY <3>2, <3>4 DEF CInv
  <2> QED BY <2>1, <2>2, <2>3, <2>4, <2>5, <2>6, <2>7, <2>8 DEF ConnectionNext, LoopStep
<1> QED BY <1>1, <1>2, PTL DEF ConnectionSpec

\* Every variable of a connection has its type, and the queue of outgoing
\* messages never holds more than its capacity, whatever is put on it.
THEOREM ConnectionTypeCorrect == ConnectionSpec => []ConnectionTypeOK
<1>1. CInv => ConnectionTypeOK
  BY DEF CInv
<1> QED BY <1>1, ConnectionInvariant, PTL

\* For every capacity and any number of requests and notifications: what is on
\* the wire has the responses and the notifications each in order and without
\* a gap, and while the connection is up none is lost or made twice in the
\* queues on the way, however often the loop finds them full.
THEOREM WireStaysInOrder == ConnectionSpec => []WireInOrder
<1>1. CInv => WireInOrder
  <2> SUFFICES ASSUME CInv, ~ disconnected
               PROVE  LET all == wire \o outgoing \o notices
                      IN  /\ InSequence(all)
                          /\ {m \in ToSet(all) : m.kind = "notice"} = {Notice(n) : n \in 1..noticed}
    BY DEF CInv, WireInOrder
  <2>1. /\ wire \in Seq(Messages) /\ outgoing \in Seq(Messages) /\ notices \in Seq(Messages)
        /\ noticed \in Nat
    BY BoundsAssumption DEF CInv, ConnectionTypeOK
  <2>2. /\ Ordered(Sent) /\ Ordered(notices) /\ Before(ToSet(Sent), ToSet(notices))
        /\ {m \in ToSet(Sent) \cup ToSet(notices) : m.kind = "notice"} = Notified
        /\ \A m \in ToSet(Sent) : m.kind = "response" =>
              m.number > 0 /\ \A n \in 1 .. m.number : Response(n) \in ToSet(Sent)
        /\ ToSet(notices) \subseteq Notified
    BY DEF CInv, NothingLost, Up
  <2>3. Sent \in Seq(Messages) /\ wire \o outgoing \o notices = Sent \o notices
    BY <2>1, SetOfConcat DEF Sent
  <2> DEFINE all == Sent \o notices
  <2>4. Ordered(all) /\ ToSet(all) = ToSet(Sent) \cup ToSet(notices) /\ ToSet(all) \subseteq Messages
    BY <2>1, <2>2, <2>3, OrderedConcat, SetOfConcat
  <2> HIDE DEF all
  <2>5. ASSUME NEW m \in ToSet(all)
        PROVE  m.number > 0 /\ \A n \in 1 .. m.number : [m EXCEPT !.number = n] \in ToSet(all)
    <3>1. m \in Messages
      BY <2>4
    <3>2. CASE m.kind = "response"
      <4>1. m \in ToSet(Sent)
        <5>1. \A x \in Notified : x.kind = "notice"
          BY <2>2
        <5> QED BY <2>2, <2>4, <3>2, <5>1, MessageFacts
      <4>2. m.number > 0 /\ \A n \in 1 .. m.number : Response(n) \in ToSet(Sent)
        BY <2>2, <3>2, <4>1
      <4>3. \A n : [m EXCEPT !.number = n] = Response(n)
        BY <3>1, <3>2, MessageFacts
      <4> QED BY <2>4, <4>2, <4>3
    <3>3. CASE m.kind = "notice"
      <4>1. PICK k \in 1 .. noticed : m = Notice(k)
        BY <2>2, <2>4, <3>3 DEF Notified
      <4>2. m.number = k /\ k > 0 /\ k <= noticed
        BY <2>1, <4>1, MessageFacts
      <4>3. ASSUME NEW n \in 1 .. m.number PROVE Notice(n) \in ToSet(all)
        <5>1. n \in 1 .. noticed
          BY <2>1, <4>1, <4>2
        <5>2. Notice(n) \in Notified
          BY <5>1 DEF Notified
        <5> QED BY <2>2, <2>4, <5>2
      <4>4. \A n : [m EXCEPT !.number = n] = Notice(n)
        BY <3>1, <3>3, MessageFacts
      <4> QED BY <4>2, <4>3, <4>4
    <3> QED BY <3>1, <3>2, <3>3, MessageFacts
  <2>6. InSequence(all) /\ {m \in ToSet(all) : m.kind = "notice"} = {Notice(n) : n \in 1 .. noticed}
    BY <2>2, <2>4, <2>5 DEF InSequence, Notified
  <2> QED BY <2>3, <2>6 DEF all
<1> QED BY <1>1, ConnectionInvariant, PTL
=============================================================================
