--------------------------- MODULE RequestQueues ---------------------------
(***************************************************************************)
(* Serialization of JSON-RPC requests in the app server:                   *)
(* RequestSerializationQueues of pycodex/app_server/request_serialization.py *)
(* on top of the per-connection gates.                                     *)
(*                                                                         *)
(* Every key has a queue and, while the queue exists, one drain task.  The *)
(* task pops a batch, gathers the runs of its requests and pops again; it  *)
(* removes the queue and ends when it finds it empty.  The queues' lock is *)
(* never held across a suspension, so enqueue and the pop are one action.  *)
(* gather() runs every request of the batch in a task of its own: between  *)
(* the pop and the start of a request anything else may happen.            *)
(***************************************************************************)
EXTENDS ConnectionRpcGate, Sequences

CONSTANTS ScopeOf,         \* each request's serialization scope
          NoConnection

ConnectionScoped == {"CommandExecProcess", "Process", "FsWatch"}
ScopeTypes == ConnectionScoped \cup
    {"Global", "GlobalSharedRead", "Thread", "ThreadPath",
     "FuzzyFileSearchSession", "McpOauth"}

ASSUME ScopeAssumption == \A r \in Requests : ScopeOf[r].type \in ScopeTypes

\* RequestSerializationQueueKey.from_scope
Key(r) ==
    LET scope == ScopeOf[r]
    IN  [kind |-> IF scope.type = "GlobalSharedRead" THEN "Global" ELSE scope.type,
         value |-> scope.value,
         connection |-> IF scope.type \in ConnectionScoped THEN ConnOf[r]
                                                            ELSE NoConnection]

SharedReads == {r \in Requests : ScopeOf[r].type = "GlobalSharedRead"}
Keys        == {Key(r) : r \in Requests}

VARIABLES open,      \* keys of the _queues dictionary
          queue,     \* the requests queued under each key
          drain,     \* where each key's drain task stands
          batch,     \* the requests of the drain task's current gather()
          place,     \* whether a request is new, queued or popped
          ticket     \* history: the position of a request in arrival order

queueVars == <<open, queue, drain, batch, place, ticket>>
vars == <<gateVars, queueVars>>

QueuesTypeOK ==
    /\ GateTypeOK
    /\ open \subseteq Keys
    /\ queue \in [Keys -> Seq(Requests)]
    /\ drain \in [Keys -> {"none", "popping", "gathering", "dead"}]
    /\ batch \in [Keys -> SUBSET Requests]
    /\ place \in [Requests -> {"new", "queued", "popped"}]
    /\ ticket \in [Requests -> Nat]

Init ==
    /\ GateInit
    /\ open = {}
    /\ queue = [k \in Keys |-> <<>>]
    /\ drain = [k \in Keys |-> "none"]
    /\ batch = [k \in Keys |-> {}]
    /\ place = [r \in Requests |-> "new"]
    /\ ticket = [r \in Requests |-> 0]

Arrived == {r \in Requests : place[r] # "new"}
Over(r) == run[r] \in OverStates
-----------------------------------------------------------------------------
\* A drain task is spawned only with a new queue.
Enqueue(r) ==
    LET k == Key(r)
    IN  /\ place[r] = "new"
        /\ place' = [place EXCEPT ![r] = "queued"]
        /\ queue' = [queue EXCEPT ![k] = Append(@, r)]
        /\ open' = open \cup {k}
        /\ drain' = [drain EXCEPT ![k] = IF k \in open THEN @ ELSE "popping"]
        /\ ticket' = [ticket EXCEPT ![r] = Cardinality(Arrived) + 1]
        /\ UNCHANGED <<gateVars, batch>>

FaultyReadsAnywhere(q, n) == /\ n \in 1 .. Len(q)
                             /\ n > 1 => \E i \in 1 .. n : q[i] \in SharedReads

\* The first n requests of q make a batch: one exclusive request, or all the
\* shared reads at the head.
IsBatch(q, n) ==
    /\ n \in 1 .. Len(q)
    /\ \/ n = 1 /\ q[1] \notin SharedReads
       \/ /\ \A i \in 1 .. n : q[i] \in SharedReads
          /\ n < Len(q) => q[n + 1] \notin SharedReads

FaultyPopLast(k) ==
    /\ drain[k] = "popping" /\ queue[k] # <<>>
    /\ LET r == queue[k][Len(queue[k])]
       IN  /\ batch' = [batch EXCEPT ![k] = {r}]
           /\ place' = [place EXCEPT ![r] = "popped"]
           /\ queue' = [queue EXCEPT ![k] = SubSeq(@, 1, Len(@) - 1)]
    /\ drain' = [drain EXCEPT ![k] = "gathering"]
    /\ UNCHANGED <<gateVars, open, ticket>>

PopBatch(k) ==
    /\ drain[k] = "popping"
    /\ \E n \in 1 .. Len(queue[k]) :
          /\ IsBatch(queue[k], n)
          /\ LET popped == {queue[k][i] : i \in 1 .. n}
             IN  /\ batch' = [batch EXCEPT ![k] = popped]
                 /\ place' = [r \in Requests |->
                                 IF r \in popped THEN "popped" ELSE place[r]]
          /\ queue' = [queue EXCEPT ![k] = SubSeq(@, n + 1, Len(@))]
    /\ drain' = [drain EXCEPT ![k] = "gathering"]
    /\ UNCHANGED <<gateVars, open, ticket>>

FaultyRemoveLater(k) ==
    /\ drain[k] = "popping" /\ queue[k] = <<>>
    /\ drain' = [drain EXCEPT ![k] = "none"]
    /\ UNCHANGED <<gateVars, open, queue, batch, place, ticket>>

PopEmpty(k) ==
    /\ drain[k] = "popping" /\ queue[k] = <<>>
    /\ open' = open \ {k}
    /\ drain' = [drain EXCEPT ![k] = "none"]
    /\ UNCHANGED <<gateVars, queue, batch, place, ticket>>

GatherReturns(k) ==
    /\ drain[k] = "gathering"
    /\ \A r \in batch[k] : Over(r) /\ run[r] # "raised"
    /\ drain' = [drain EXCEPT ![k] = "popping"]
    /\ batch' = [batch EXCEPT ![k] = {}]
    /\ UNCHANGED <<gateVars, open, queue, place, ticket>>

\* gather() raises with its first failed child, without waiting for the
\* others: the drain task ends, the queue stays in the dictionary.
GatherRaises(k) ==
    /\ drain[k] = "gathering"
    /\ \E r \in batch[k] : run[r] = "raised"
    /\ drain' = [drain EXCEPT ![k] = "dead"]
    /\ UNCHANGED <<gateVars, open, queue, batch, place, ticket>>

\* A gathered request runs through its connection's gate.
RunRequest(r) ==
    /\ place[r] = "popped"
    /\ RunHandler(r)
    /\ UNCHANGED queueVars

Shutdown(c) == ShutdownGate(c) /\ UNCHANGED queueVars

DrainStep(k) == PopBatch(k) \/ PopEmpty(k) \/ GatherReturns(k) \/ GatherRaises(k)

Next == \/ \E r \in Requests : Enqueue(r) \/ RunRequest(r)
        \/ \E k \in Keys : DrainStep(k)
        \/ \E c \in Connections : Shutdown(c)

\* Tasks of the event loop are resumed and handlers are assumed to return;
\* clients need not send a request and connections need not close.
Fairness == /\ \A r \in Requests : WF_vars(RunRequest(r))
            /\ \A k \in Keys : WF_vars(DrainStep(k))
            /\ \A c \in Connections : WF_vars(closing[c] = "woken" /\ Shutdown(c))

Spec     == Init /\ [][Next]_vars
FairSpec == Spec /\ Fairness
-----------------------------------------------------------------------------
(***************************************************************************)
(* Properties                                                              *)
(***************************************************************************)

\* An exclusive request shares its key with no other running request, also
\* when a read of an earlier batch outlives its failed gather().
SameKeyExclusive ==
    \A a, b \in Requests :
        /\ a # b /\ Key(a) = Key(b)
        /\ run[a] = "running" /\ run[b] = "running"
        => {a, b} \subseteq SharedReads

\* Requests of a key are served in the order they arrived: one is popped only
\* after every earlier one is over, or together with earlier shared reads.
ServedInOrder ==
    \A a, b \in Arrived :
        /\ Key(a) = Key(b) /\ ticket[a] < ticket[b] /\ place[b] = "popped"
        => place[a] = "popped" /\ (Over(a) \/ {a, b} \subseteq SharedReads)

\* Two requests that a key serializes.
Conflicting(a, b) == a # b /\ Key(a) = Key(b) /\ ~ {a, b} \subseteq SharedReads

\* Under every key the requests follow the shared/exclusive discipline.
Discipline == INSTANCE SharedExclusive
                WITH Items     <- Requests,
                     Conflicts <- {p \in Requests \X Requests : Conflicting(p[1], p[2])},
                     active    <- {r \in Requests : run[r] = "running"},
                     finished  <- {r \in Requests : Over(r)}
ImplementsDiscipline == Discipline!Spec

\* A request that was enqueued is run or refused, unless a handler of its key
\* raised and ended the drain task.
ServedUnlessDead ==
    \A r \in Requests : place[r] # "new" ~> Over(r) \/ drain[Key(r)] = "dead"

\* Every request that was enqueued is run or refused.
EveryRequestServed == \A r \in Requests : place[r] # "new" ~> Over(r)

\* A connection that began to shut down finishes shutting down.
ShutdownCompletes == \A c \in Connections : closing[c] # "no" ~> closing[c] = "closed"
=============================================================================
