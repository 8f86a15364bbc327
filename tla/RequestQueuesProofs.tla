------------------------ MODULE RequestQueuesProofs ------------------------
(***************************************************************************)
(* Proofs about RequestQueues for every finite set of requests, every      *)
(* assignment of scopes and connections and any handlers that raise.       *)
(***************************************************************************)
EXTENDS RequestQueues, FiniteSetTheorems, TLAPS

\* The types the arguments about the queues need.
QTypes ==
    /\ run \in [Requests -> RunStates]
    /\ queue \in [Keys -> Seq(Requests)]
    /\ drain \in [Keys -> {"none", "popping", "gathering", "dead"}]
    /\ batch \in [Keys -> SUBSET Requests]
    /\ place \in [Requests -> {"new", "queued", "popped"}]

\* A queue holds requests of its key that were not popped, each once.
QueueContents ==
    \A k \in Keys :
        /\ \A i \in 1 .. Len(queue[k]) :
              Key(queue[k][i]) = k /\ place[queue[k][i]] = "queued"
        /\ \A i, j \in 1 .. Len(queue[k]) : i # j => queue[k][i] # queue[k][j]

\* A batch is one request or shared reads only, and is empty between gathers.
BatchContents ==
    \A k \in Keys :
        /\ \A a, b \in batch[k] : a = b \/ {a, b} \subseteq SharedReads
        /\ drain[k] \in {"none", "popping"} => batch[k] = {}

\* What was popped and is not over is in its key's batch, and nothing runs
\* before it is popped.
PoppedInBatch ==
    \A r \in Requests :
        /\ place[r] # "popped" => run[r] = "waiting"
        /\ place[r] = "popped" /\ ~ Over(r) => r \in batch[Key(r)]

\* A key has a drain task exactly while its queue exists.
DrainOfOpen == \A k \in Keys : k \in open <=> drain[k] # "none"

\* The inductive invariant.
QInv == QTypes /\ DrainOfOpen /\ QueueContents /\ BatchContents /\ PoppedInBatch

\* What is left of a queue after its first n requests.
LEMMA RestOfQueue ==
    ASSUME NEW q \in Seq(Requests), NEW n \in 1 .. Len(q)
    PROVE  LET rest == SubSeq(q, n + 1, Len(q))
           IN  /\ rest \in Seq(Requests)
               /\ Len(rest) = Len(q) - n
               /\ \A i \in 1 .. Len(rest) : rest[i] = q[n + i]
  OBVIOUS

\* Every request's key is one of the keys.
LEMMA KeyOfRequest == \A r \in Requests : Key(r) \in Keys
  BY DEF Keys

\* The invariant forbids two conflicting requests to run together.
LEMMA QInvExclusive == QInv => SameKeyExclusive
<1> SUFFICES ASSUME QInv, NEW a \in Requests, NEW b \in Requests,
                    a # b, Key(a) = Key(b), run[a] = "running", run[b] = "running"
             PROVE  {a, b} \subseteq SharedReads
  BY DEF SameKeyExclusive
<1>1. place[a] = "popped" /\ place[b] = "popped" /\ ~ Over(a) /\ ~ Over(b)
  BY DEF QInv, PoppedInBatch, QTypes, Over, OverStates
<1>2. a \in batch[Key(a)] /\ b \in batch[Key(a)]
  BY <1>1 DEF QInv, PoppedInBatch
<1> QED
  BY <1>2, KeyOfRequest DEF QInv, BatchContents

\* Initially nothing is queued and nothing runs.
LEMMA QInitInv == Init => QInv
<1> SUFFICES ASSUME Init PROVE QInv
  OBVIOUS
<1>1. QTypes /\ DrainOfOpen
  BY DEF Init, GateInit, QTypes, DrainOfOpen, RunStates
<1>2. QueueContents /\ BatchContents
  BY DEF Init, QueueContents, BatchContents
<1>3. PoppedInBatch
  BY DEF Init, GateInit, PoppedInBatch
<1> QED
  BY <1>1, <1>2, <1>3 DEF QInv

\* Every step preserves the invariant; one case per action.
LEMMA QStepInv == QInv /\ [Next]_vars => QInv'
<1> SUFFICES ASSUME QInv, [Next]_vars PROVE QInv'
  OBVIOUS
<1> USE DEF QInv
<1>1. ASSUME NEW r \in Requests, Enqueue(r) PROVE QInv'
  <2> DEFINE k == Key(r)
  <2>0. k \in Keys
    BY KeyOfRequest
  <2>1. /\ place[r] = "new" /\ run' = run /\ batch' = batch
        /\ place' = [place EXCEPT ![r] = "queued"]
        /\ queue' = [queue EXCEPT ![k] = Append(@, r)]
        /\ drain' = [drain EXCEPT ![k] = IF k \in open THEN @ ELSE "popping"]
    BY <1>1 DEF Enqueue, gateVars
  <2>2. QTypes'
    BY <2>0, <2>1 DEF QTypes
  <2>3. QueueContents'
    <3> SUFFICES ASSUME NEW l \in Keys
                 PROVE /\ \A i \in 1 .. Len(queue'[l]) :
                             Key(queue'[l][i]) = l /\ place'[queue'[l][i]] = "queued"
                       /\ \A i, j \in 1 .. Len(queue'[l]) :
                             i # j => queue'[l][i] # queue'[l][j]
      BY DEF QueueContents
    <3>1. queue[l] \in Seq(Requests)
      BY DEF QTypes
    <3>2. \A i \in 1 .. Len(queue[l]) : queue[l][i] # r
      BY <2>1, <3>1 DEF QueueContents
    <3>3. CASE l = k
      <4>1. /\ queue'[l] = Append(queue[l], r)
            /\ Len(queue'[l]) = Len(queue[l]) + 1
            /\ queue'[l][Len(queue[l]) + 1] = r
            /\ \A i \in 1 .. Len(queue[l]) : queue'[l][i] = queue[l][i]
        BY <2>0, <2>1, <3>1, <3>3 DEF QTypes
      <4> QED BY <2>1, <3>1, <3>2, <3>3, <4>1 DEF QueueContents, QTypes
    <3>4. CASE l # k
      BY <2>0, <2>1, <3>1, <3>2, <3>4 DEF QueueContents, QTypes
    <3> QED BY <3>3, <3>4
  <2>4. BatchContents'
    <3>1. \A l \in Keys : drain'[l] \in {"none", "popping"} =>
                             drain[l] \in {"none", "popping"}
      BY <2>0, <2>1 DEF QTypes, DrainOfOpen
    <3> QED BY <2>0, <2>1, <3>1 DEF BatchContents
  <2>5. PoppedInBatch'
    BY <2>0, <2>1, KeyOfRequest DEF PoppedInBatch, QTypes, Over
  <2>6. DrainOfOpen'
    BY <1>1, <2>0, <2>1 DEF Enqueue, DrainOfOpen, QTypes
  <2> QED BY <2>2, <2>3, <2>4, <2>5, <2>6
<1>2. ASSUME NEW k \in Keys, PopBatch(k) PROVE QInv'
  <2>1. PICK n \in 1 .. Len(queue[k]) :
          /\ IsBatch(queue[k], n)
          /\ batch' = [batch EXCEPT ![k] = {queue[k][i] : i \in 1 .. n}]
          /\ place' = [r \in Requests |->
                          IF r \in {queue[k][i] : i \in 1 .. n} THEN "popped" ELSE place[r]]
          /\ queue' = [queue EXCEPT ![k] = SubSeq(@, n + 1, Len(@))]
    BY <1>2 DEF PopBatch
  <2>2. /\ drain[k] = "popping" /\ batch[k] = {} /\ run' = run
        /\ drain' = [drain EXCEPT ![k] = "gathering"]
    BY <1>2 DEF PopBatch, gateVars, BatchContents
  <2> DEFINE popped == {queue[k][i] : i \in 1 .. n}
  <2>3. /\ queue[k] \in Seq(Requests) /\ n \in Nat /\ n <= Len(queue[k])
        /\ popped \subseteq Requests
        /\ \A r \in popped : Key(r) = k /\ place[r] = "queued"
    BY DEF QTypes, QueueContents
  <2>4. QTypes'
    BY <2>1, <2>2, <2>3 DEF QTypes
  <2>5. QueueContents'
    <3> SUFFICES ASSUME NEW l \in Keys
                 PROVE /\ \A i \in 1 .. Len(queue'[l]) :
                             Key(queue'[l][i]) = l /\ place'[queue'[l][i]] = "queued"
                       /\ \A i, j \in 1 .. Len(queue'[l]) :
                             i # j => queue'[l][i] # queue'[l][j]
      BY DEF QueueContents
    <3>1. CASE l = k
      <4>0. queue'[l] = SubSeq(queue[k], n + 1, Len(queue[k]))
        BY <2>1, <3>1 DEF QTypes
      <4>1. /\ queue'[l] \in Seq(Requests)
            /\ Len(queue'[l]) = Len(queue[k]) - n
            /\ \A i \in 1 .. Len(queue'[l]) : queue'[l][i] = queue[k][n + i]
        <5>1. LET rest == SubSeq(queue[k], n + 1, Len(queue[k]))
              IN  /\ rest \in Seq(Requests)
                  /\ Len(rest) = Len(queue[k]) - n
                  /\ \A i \in 1 .. Len(rest) : rest[i] = queue[k][n + i]
          BY <2>3, RestOfQueue
        <5> QED BY <4>0, <5>1
      <4>2. \A i \in 1 .. Len(queue'[l]) :
                n + i \in 1 .. Len(queue[k]) /\ queue[k][n + i] \notin popped
        BY <2>3, <4>1 DEF QueueContents
      <4>3. \A i \in 1 .. Len(queue'[l]) :
                Key(queue'[l][i]) = l /\ place'[queue'[l][i]] = "queued"
        BY <2>1, <2>3, <3>1, <4>1, <4>2 DEF QueueContents
      <4>4. \A i, j \in 1 .. Len(queue'[l]) : i # j => queue'[l][i] # queue'[l][j]
        <5> SUFFICES ASSUME NEW i \in 1 .. Len(queue'[l]), NEW j \in 1 .. Len(queue'[l]),
                            i # j
                     PROVE  queue'[l][i] # queue'[l][j]
          OBVIOUS
        <5>1. n + i # n + j
          BY <2>3, <4>1
        <5>2. queue[k][n + i] # queue[k][n + j]
          BY <4>2, <5>1 DEF QueueContents
        <5> QED BY <4>1, <5>2
      <4> QED BY <4>3, <4>4
    <3>2. CASE l # k
      <4>1. queue'[l] = queue[l] /\ queue[l] \in Seq(Requests)
        BY <2>1, <3>2 DEF QTypes
      <4>2. \A i \in 1 .. Len(queue[l]) : queue[l][i] \notin popped
        BY <2>3, <3>2, <4>1 DEF QueueContents
      <4>3. \A i \in 1 .. Len(queue[l]) :
               Key(queue[l][i]) = l /\ place'[queue[l][i]] = "queued"
        <5> SUFFICES ASSUME NEW i \in 1 .. Len(queue[l])
                     PROVE  Key(queue[l][i]) = l /\ place'[queue[l][i]] = "queued"
          OBVIOUS
        <5>1. /\ queue[l][i] \in Requests /\ queue[l][i] \notin popped
              /\ Key(queue[l][i]) = l /\ place[queue[l][i]] = "queued"
          BY <4>1, <4>2 DEF QueueContents
        <5> QED BY <2>1, <5>1
      <4>4. \A i, j \in 1 .. Len(queue[l]) : i # j => queue[l][i] # queue[l][j]
        BY DEF QueueContents
      <4> QED BY <4>1, <4>3, <4>4
    <3> QED BY <3>1, <3>2
  <2>6. \A a, b \in popped : a = b \/ {a, b} \subseteq SharedReads
    BY <2>1, <2>3 DEF IsBatch
  <2>7. BatchContents'
    <3>1. /\ batch'[k] = popped /\ drain'[k] = "gathering"
          /\ \A l \in Keys \ {k} : batch'[l] = batch[l] /\ drain'[l] = drain[l]
      BY <2>1, <2>2 DEF QTypes
    <3>2. \A a, b \in batch'[k] : a = b \/ {a, b} \subseteq SharedReads
      BY <2>6, <3>1
    <3> SUFFICES ASSUME NEW l \in Keys
                 PROVE  /\ \A a, b \in batch'[l] : a = b \/ {a, b} \subseteq SharedReads
                        /\ drain'[l] \in {"none", "popping"} => batch'[l] = {}
      BY DEF BatchContents
    <3>3. CASE l = k
      BY <3>1, <3>2, <3>3
    <3>4. CASE l # k
      BY <3>1, <3>4 DEF BatchContents
    <3> QED BY <3>3, <3>4
  <2>8. PoppedInBatch'
    <3> SUFFICES ASSUME NEW r \in Requests
                 PROVE  /\ place'[r] # "popped" => run'[r] = "waiting"
                        /\ place'[r] = "popped" /\ ~ Over(r)' => r \in batch'[Key(r)]
      BY DEF PoppedInBatch
    <3>0. Key(r) \in Keys /\ run'[r] = run[r]
      BY <2>2, KeyOfRequest
    <3>1. CASE r \in popped
      <4>1. place'[r] = "popped" /\ Key(r) = k
        BY <2>1, <2>3, <3>1
      <4>2. batch'[k] = popped
        BY <2>1 DEF QTypes
      <4> QED BY <3>1, <4>1, <4>2
    <3>2. CASE r \notin popped
      <4>1. place'[r] = place[r]
        BY <2>1, <3>2
      <4>2. Key(r) # k => batch'[Key(r)] = batch[Key(r)]
        BY <2>1, <3>0 DEF QTypes
      <4>3. place[r] = "popped" /\ ~ Over(r) => Key(r) # k
        BY <2>2 DEF PoppedInBatch
      <4> QED BY <3>0, <4>1, <4>2, <4>3 DEF PoppedInBatch, Over
    <3> QED BY <3>1, <3>2
  <2>9. DrainOfOpen'
    BY <1>2, <2>2 DEF PopBatch, DrainOfOpen, QTypes
  <2> QED BY <2>4, <2>5, <2>7, <2>8, <2>9
<1>3. ASSUME NEW k \in Keys, PopEmpty(k) PROVE QInv'
  BY <1>3 DEF PopEmpty, gateVars, QTypes, DrainOfOpen, QueueContents, BatchContents,
              PoppedInBatch, Over
<1>4. ASSUME NEW k \in Keys, GatherReturns(k) PROVE QInv'
  BY <1>4, KeyOfRequest DEF GatherReturns, gateVars, QTypes, DrainOfOpen, QueueContents,
              BatchContents, PoppedInBatch, Over
<1>5. ASSUME NEW k \in Keys, GatherRaises(k) PROVE QInv'
  BY <1>5 DEF GatherRaises, gateVars, QTypes, DrainOfOpen, QueueContents, BatchContents,
              PoppedInBatch, Over
<1>6. ASSUME NEW r \in Requests, RunRequest(r) PROVE QInv'
  <2>1. /\ place[r] = "popped" /\ UNCHANGED queueVars
        /\ \E s \in RunStates \ {"waiting"} : run' = [run EXCEPT ![r] = s]
        /\ ~ Over(r)
    BY <1>6 DEF RunRequest, RunHandler, EnterHandler, RefuseHandler, ExitHandler,
                RunStates, Over, OverStates
  <2> QED
    BY <2>1 DEF queueVars, QTypes, DrainOfOpen, QueueContents, BatchContents, PoppedInBatch, Over
<1>7. ASSUME NEW c \in Connections, Shutdown(c) PROVE QInv'
  <2>1. UNCHANGED <<run, queueVars>>
    BY <1>7 DEF Shutdown, ShutdownGate, BeginShutdown, ResumeShutdown
  <2> QED
    BY <2>1 DEF queueVars, QTypes, DrainOfOpen, QueueContents, BatchContents, PoppedInBatch, Over
<1>8. CASE UNCHANGED vars
  BY <1>8 DEF vars, gateVars, queueVars, QTypes, DrainOfOpen, QueueContents, BatchContents,
              PoppedInBatch, Over
<1> QED
  BY <1>1, <1>2, <1>3, <1>4, <1>5, <1>6, <1>7, <1>8 DEF Next, DrainStep

\* The inductive invariant holds in every behaviour.
THEOREM QueuesInvariance == Spec => []QInv
  BY QInitInv, QStepInv, PTL DEF Spec

\* Requests a key serializes never run together.
THEOREM SameKeyRequestsExclude == Spec => []SameKeyExclusive
  BY QueuesInvariance, QInvExclusive, PTL

\* Tickets are given in order of arrival.
TicketsOfArrived ==
    /\ ticket \in [Requests -> Nat]
    /\ IsFiniteSet(Arrived)
    /\ \A r \in Arrived : ticket[r] <= Cardinality(Arrived)

\* A queue holds every queued request of its key, in the order of the tickets.
QueueSorted ==
    /\ \A r \in Requests : place[r] = "queued" =>
          \E i \in 1 .. Len(queue[Key(r)]) : queue[Key(r)][i] = r
    /\ \A k \in Keys : \A i, j \in 1 .. Len(queue[k]) :
          i < j => ticket[queue[k][i]] < ticket[queue[k][j]]

\* What was popped came before what is still queued under the key.
PoppedCameFirst ==
    \A a, b \in Requests :
        Key(a) = Key(b) /\ place[a] = "popped" /\ place[b] = "queued"
        => ticket[a] < ticket[b]

\* The invariant behind the order of service.
OInv == TicketsOfArrived /\ QueueSorted /\ PoppedCameFirst /\ ServedInOrder

\* Initially nothing has arrived.
LEMMA OInitInv == Init => OInv
<1> SUFFICES ASSUME Init PROVE OInv
  OBVIOUS
<1>1. Arrived = {}
  BY DEF Init, Arrived
<1> QED
  BY <1>1, FS_EmptySet DEF Init, OInv, TicketsOfArrived, QueueSorted, PoppedCameFirst,
     ServedInOrder, Keys

\* A step that moves no request between the places and at most ends some
\* preserves the order.
LEMMA OrderKept ==
    ASSUME QInv, OInv, UNCHANGED <<queue, place, ticket>>,
           \A r \in Requests : Over(r) => Over(r)'
    PROVE  OInv'
<1>1. Arrived' = Arrived
  BY DEF Arrived
<1>2. TicketsOfArrived' /\ QueueSorted' /\ PoppedCameFirst'
  BY <1>1 DEF OInv, TicketsOfArrived, QueueSorted, PoppedCameFirst
<1>3. ServedInOrder'
  BY <1>1 DEF OInv, ServedInOrder, Arrived
<1> QED BY <1>2, <1>3 DEF OInv

\* Every step preserves the order; only arrivals and pops move requests.
LEMMA OStepInv == QInv /\ QInv' /\ OInv /\ [Next]_vars => OInv'
<1> SUFFICES ASSUME QInv, QInv', OInv, [Next]_vars PROVE OInv'
  OBVIOUS
<1> USE DEF OInv
<1>1. ASSUME NEW r \in Requests, Enqueue(r) PROVE OInv'
  <2> DEFINE k == Key(r)
             N == Cardinality(Arrived)
  <2>0. k \in Keys /\ \A l \in Keys : queue[l] \in Seq(Requests)
    BY KeyOfRequest DEF QInv, QTypes
  <2>1. /\ place[r] = "new" /\ run' = run
        /\ place' = [place EXCEPT ![r] = "queued"]
        /\ queue' = [queue EXCEPT ![k] = Append(@, r)]
        /\ ticket' = [ticket EXCEPT ![r] = N + 1]
    BY <1>1 DEF Enqueue, gateVars
  <2>2. /\ r \notin Arrived /\ Arrived' = Arrived \cup {r}
    BY <2>1 DEF Arrived, QInv, QTypes
  <2>3. /\ N \in Nat /\ IsFiniteSet(Arrived') /\ Cardinality(Arrived') = N + 1
    BY <2>2, FS_CardinalityType, FS_AddElement DEF TicketsOfArrived
  <2>4. /\ ticket'[r] = N + 1 /\ place'[r] = "queued"
        /\ \A a \in Requests \ {r} : ticket'[a] = ticket[a] /\ place'[a] = place[a]
        /\ \A a \in Arrived : a # r /\ ticket[a] \in Nat /\ ticket[a] <= N
    BY <2>1, <2>2 DEF TicketsOfArrived, QInv, QTypes, Arrived
  <2>5. TicketsOfArrived'
    <3>1. ticket' \in [Requests -> Nat]
      BY <2>1, <2>3 DEF TicketsOfArrived
    <3>2. \A a \in Arrived' : ticket'[a] <= N + 1
      BY <2>2, <2>3, <2>4 DEF Arrived
    <3> QED BY <2>3, <3>1, <3>2 DEF TicketsOfArrived
  <2>6. /\ Len(queue'[k]) = Len(queue[k]) + 1
        /\ queue'[k][Len(queue[k]) + 1] = r
        /\ \A i \in 1 .. Len(queue[k]) : queue'[k][i] = queue[k][i]
        /\ \A l \in Keys \ {k} : queue'[l] = queue[l]
    BY <2>0, <2>1 DEF QInv, QTypes
  <2>7. \A l \in Keys : \A i \in 1 .. Len(queue[l]) :
            queue[l][i] \in Arrived /\ ticket'[queue[l][i]] = ticket[queue[l][i]]
    BY <2>0, <2>4 DEF QInv, QueueContents, Arrived
  <2>8. QueueSorted'
    <3>1. ASSUME NEW a \in Requests, place'[a] = "queued"
          PROVE  \E i \in 1 .. Len(queue'[Key(a)]) : queue'[Key(a)][i] = a
      <4>1. CASE a = r
        <5>1. Len(queue[k]) + 1 \in 1 .. Len(queue'[k])
          BY <2>0, <2>6
        <5> QED BY <2>6, <4>1, <5>1
      <4>2. CASE a # r
        <5>1. PICK i \in 1 .. Len(queue[Key(a)]) : queue[Key(a)][i] = a
          BY <2>4, <3>1, <4>2 DEF QueueSorted
        <5>2. i \in 1 .. Len(queue'[Key(a)]) /\ queue'[Key(a)][i] = a
          BY <2>0, <2>6, <5>1, KeyOfRequest
        <5> QED BY <5>2
      <4> QED BY <4>1, <4>2
    <3>2. ASSUME NEW l \in Keys, NEW i \in 1 .. Len(queue'[l]), NEW j \in 1 .. Len(queue'[l]),
                 i < j
          PROVE  ticket'[queue'[l][i]] < ticket'[queue'[l][j]]
      <4>0. Len(queue[l]) \in Nat /\ i \in Nat /\ j \in Nat
        BY <2>0
      <4>1. CASE l = k /\ j = Len(queue[k]) + 1
        <5>1. i \in 1 .. Len(queue[l])
          BY <3>2, <4>0, <4>1
        <5>2. /\ queue'[l][i] = queue[l][i] /\ queue'[l][j] = r
              /\ queue[l][i] \in Arrived /\ ticket'[queue[l][i]] = ticket[queue[l][i]]
          BY <2>6, <2>7, <4>1, <5>1
        <5> QED BY <2>3, <2>4, <5>2
      <4>2. CASE ~ (l = k /\ j = Len(queue[k]) + 1)
        <5>1. i \in 1 .. Len(queue[l]) /\ j \in 1 .. Len(queue[l])
          BY <2>6, <3>2, <4>0, <4>2
        <5>2. queue'[l][i] = queue[l][i] /\ queue'[l][j] = queue[l][j]
          BY <2>6, <5>1
        <5> QED BY <2>7, <3>2, <5>1, <5>2 DEF QueueSorted
      <4> QED BY <4>1, <4>2
    <3> QED BY <3>1, <3>2 DEF QueueSorted
  <2>9. PoppedCameFirst'
    BY <2>3, <2>4 DEF PoppedCameFirst, Arrived
  <2>10. ServedInOrder'
    <3> SUFFICES ASSUME NEW a \in Arrived', NEW b \in Arrived', Key(a) = Key(b),
                        ticket'[a] < ticket'[b], place'[b] = "popped"
                 PROVE  place'[a] = "popped" /\ (Over(a)' \/ {a, b} \subseteq SharedReads)
      BY DEF ServedInOrder
    <3>1. b # r /\ b \in Arrived
      BY <2>2, <2>4
    <3>2. a # r /\ a \in Arrived
      BY <2>2, <2>3, <2>4, <3>1 DEF Arrived
    <3>3. place[a] = "popped" /\ (Over(a) \/ {a, b} \subseteq SharedReads)
      BY <2>4, <3>1, <3>2 DEF ServedInOrder, Arrived
    <3> QED BY <2>1, <2>4, <3>2, <3>3 DEF Over, Arrived
  <2> QED BY <2>5, <2>8, <2>9, <2>10
<1>2. ASSUME NEW k \in Keys, PopBatch(k) PROVE OInv'
  <2>1. PICK n \in 1 .. Len(queue[k]) :
          /\ IsBatch(queue[k], n)
          /\ place' = [r \in Requests |->
                          IF r \in {queue[k][i] : i \in 1 .. n} THEN "popped" ELSE place[r]]
          /\ queue' = [queue EXCEPT ![k] = SubSeq(@, n + 1, Len(@))]
    BY <1>2 DEF PopBatch
  <2>2. batch[k] = {} /\ run' = run /\ ticket' = ticket
    BY <1>2 DEF PopBatch, gateVars, QInv, BatchContents
  <2> DEFINE popped == {queue[k][i] : i \in 1 .. n}
             rest == SubSeq(queue[k], n + 1, Len(queue[k]))
  <2>3. /\ queue[k] \in Seq(Requests) /\ n \in Nat /\ n <= Len(queue[k])
        /\ popped \subseteq Requests
        /\ \A r \in popped : Key(r) = k /\ place[r] = "queued"
    BY DEF QInv, QTypes, QueueContents
  <2>4. /\ queue'[k] = rest
        /\ Len(rest) = Len(queue[k]) - n
        /\ \A i \in 1 .. Len(rest) : rest[i] = queue[k][n + i]
        /\ \A l \in Keys \ {k} : queue'[l] = queue[l]
    BY <2>1, <2>3, RestOfQueue DEF QInv, QTypes
  <2>5. /\ \A r \in popped : place'[r] = "popped"
        /\ \A r \in Requests \ popped : place'[r] = place[r]
    BY <2>1, <2>3
  <2>6. Arrived' = Arrived
    BY <2>3, <2>5 DEF Arrived
  <2>7. TicketsOfArrived'
    BY <2>2, <2>6 DEF TicketsOfArrived
  <2>8. \A r \in Requests \ popped : Key(r) = k /\ place[r] = "queued" =>
            \E i \in 1 .. Len(rest) : queue[k][n + i] = r
    <3> SUFFICES ASSUME NEW r \in Requests \ popped, Key(r) = k, place[r] = "queued"
                 PROVE  \E i \in 1 .. Len(rest) : queue[k][n + i] = r
      OBVIOUS
    <3>1. PICK j \in 1 .. Len(queue[k]) : queue[k][j] = r
      BY DEF QueueSorted
    <3>2. j \notin 1 .. n
      BY <3>1
    <3>3. j - n \in 1 .. Len(rest) /\ n + (j - n) = j
      BY <2>3, <2>4, <3>2
    <3> QED BY <3>1, <3>3
  <2>9. QueueSorted'
    <3>1. ASSUME NEW r \in Requests, place'[r] = "queued"
          PROVE  \E i \in 1 .. Len(queue'[Key(r)]) : queue'[Key(r)][i] = r
      <4>1. r \notin popped /\ place[r] = "queued"
        BY <2>5, <3>1
      <4>2. CASE Key(r) = k
        <5>1. PICK i \in 1 .. Len(rest) : queue[k][n + i] = r
          BY <2>8, <4>1, <4>2
        <5>2. rest[i] = r
          BY <2>4, <5>1
        <5> QED BY <2>4, <4>2, <5>1, <5>2
      <4>3. CASE Key(r) # k
        BY <2>4, <4>1, <4>3, KeyOfRequest DEF QueueSorted
      <4> QED BY <4>2, <4>3
    <3>2. ASSUME NEW l \in Keys, NEW i \in 1 .. Len(queue'[l]), NEW j \in 1 .. Len(queue'[l]),
                 i < j
          PROVE  ticket'[queue'[l][i]] < ticket'[queue'[l][j]]
      <4>1. CASE l = k
        <5>1. /\ n + i \in 1 .. Len(queue[k]) /\ n + j \in 1 .. Len(queue[k])
              /\ n + i < n + j
          BY <2>3, <2>4, <3>2, <4>1
        <5>2. ticket[queue[k][n + i]] < ticket[queue[k][n + j]]
          BY <5>1 DEF QueueSorted
        <5> QED BY <2>2, <2>4, <4>1, <5>2
      <4>2. CASE l # k
        BY <2>2, <2>4, <3>2, <4>2 DEF QueueSorted
      <4> QED BY <4>1, <4>2
    <3> QED BY <3>1, <3>2 DEF QueueSorted
  <2>10. \A a \in popped, b \in Requests \ popped :
             Key(b) = k /\ place[b] = "queued" => ticket[a] < ticket[b]
    <3> SUFFICES ASSUME NEW i \in 1 .. n, NEW b \in Requests \ popped,
                        Key(b) = k, place[b] = "queued"
                 PROVE  ticket[queue[k][i]] < ticket[b]
      OBVIOUS
    <3>1. PICK j \in 1 .. Len(rest) : queue[k][n + j] = b
      BY <2>8
    <3>2. i \in 1 .. Len(queue[k]) /\ n + j \in 1 .. Len(queue[k]) /\ i < n + j
      BY <2>3, <2>4
    <3> QED BY <3>1, <3>2 DEF QueueSorted
  <2>11. PoppedCameFirst'
    <3> SUFFICES ASSUME NEW a \in Requests, NEW b \in Requests, Key(a) = Key(b),
                        place'[a] = "popped", place'[b] = "queued"
                 PROVE  ticket'[a] < ticket'[b]
      BY DEF PoppedCameFirst
    <3>1. b \notin popped /\ place[b] = "queued"
      BY <2>5
    <3>2. CASE a \in popped
      BY <2>2, <2>3, <2>10, <3>1, <3>2
    <3>3. CASE a \notin popped
      BY <2>2, <2>5, <3>1, <3>3 DEF PoppedCameFirst
    <3> QED BY <3>2, <3>3
  <2>12. ServedInOrder'
    <3> SUFFICES ASSUME NEW a \in Requests, NEW b \in Requests, a \in Arrived, b \in Arrived,
                        Key(a) = Key(b), ticket[a] < ticket[b], place'[b] = "popped"
                 PROVE  place'[a] = "popped" /\ (Over(a) \/ {a, b} \subseteq SharedReads)
      BY <2>2, <2>6 DEF ServedInOrder, Arrived, Over
    <3>0. ticket[a] \in Nat /\ ticket[b] \in Nat
      BY DEF TicketsOfArrived
    <3>1. CASE b \notin popped
      BY <2>3, <2>5, <3>1 DEF ServedInOrder
    <3>2. CASE b \in popped /\ a \in popped
      <4>1. a # b
        BY <3>0
      <4>2. {a, b} \subseteq SharedReads
        BY <2>1, <2>3, <3>2, <4>1 DEF IsBatch
      <4> QED BY <2>5, <3>2, <4>2
    <3>3. CASE b \in popped /\ a \notin popped
      <4>1. Key(b) = k /\ place[b] = "queued" /\ place[a] # "new"
        BY <2>3, <3>3 DEF Arrived
      <4>2. place[a] # "queued"
        <5> SUFFICES ASSUME place[a] = "queued" PROVE FALSE
          OBVIOUS
        <5>1. ticket[b] < ticket[a]
          BY <2>10, <3>3, <4>1
        <5> QED BY <3>0, <5>1
      <4>3. place[a] = "popped"
        BY <4>1, <4>2 DEF QInv, QTypes
      <4>4. Over(a)
        BY <2>2, <4>1, <4>3 DEF QInv, PoppedInBatch
      <4> QED BY <2>5, <3>3, <4>3, <4>4
    <3> QED BY <3>1, <3>2, <3>3
  <2> QED BY <2>7, <2>9, <2>11, <2>12
<1>3. ASSUME NEW k \in Keys, PopEmpty(k) \/ GatherReturns(k) \/ GatherRaises(k) PROVE OInv'
  BY <1>3, OrderKept DEF PopEmpty, GatherReturns, GatherRaises, gateVars, Over
<1>4. ASSUME NEW r \in Requests, RunRequest(r) PROVE OInv'
  <2>1. UNCHANGED <<queue, place, ticket>>
    BY <1>4 DEF RunRequest, queueVars
  <2>2. \A a \in Requests : Over(a) => Over(a)'
    BY <1>4 DEF RunRequest, RunHandler, EnterHandler, RefuseHandler, ExitHandler,
       Over, OverStates, QInv, QTypes
  <2> QED BY <2>1, <2>2, OrderKept
<1>5. ASSUME NEW c \in Connections, Shutdown(c) PROVE OInv'
  BY <1>5, OrderKept DEF Shutdown, ShutdownGate, BeginShutdown, ResumeShutdown, queueVars, Over
<1>6. CASE UNCHANGED vars
  BY <1>6, OrderKept DEF vars, gateVars, queueVars, Over
<1> QED
  BY <1>1, <1>2, <1>3, <1>4, <1>5, <1>6 DEF Next, DrainStep

\* Requests of one key are served in the order they arrived, also around a
\* raising handler and a closing connection.
THEOREM RequestsServedInOrder == Spec => []ServedInOrder
<1>1. OInv => ServedInOrder
  BY DEF OInv
<1> QED
  BY <1>1, OInitInv, OStepInv, QueuesInvariance, PTL DEF Spec

\* A gate counts the handlers that run through it and none that has ended,
\* a gate that is closing accepts nobody, and one that is closed is empty.
GateCounts ==
    \A c \in Connections :
        /\ inflight[c] = Cardinality(RunningOn(c))
        /\ closing[c] # "no" => ~ accepting[c]
        /\ closing[c] = "closed" => RunningOn(c) = {}

GInv == GateTypeOK /\ GateCounts

\* The handlers on a connection are finitely many.
LEMMA RunningFinite ==
    ASSUME NEW c \in Connections
    PROVE  IsFiniteSet(RunningOn(c)) /\ Cardinality(RunningOn(c)) \in Nat
  BY GateAssumption, FS_Subset, FS_CardinalityType DEF RunningOn

\* Initially nothing runs and every gate is open.
LEMMA GateInitInv == Init => GInv
<1> SUFFICES ASSUME Init PROVE GInv
  OBVIOUS
<1>1. \A c \in Connections : RunningOn(c) = {}
  BY DEF Init, GateInit, RunningOn
<1> QED
  BY <1>1, FS_EmptySet DEF Init, GateInit, GInv, GateTypeOK, GateCounts, RunStates

\* Every step keeps the count: one handler enters or leaves one gate.
LEMMA GateStepInv == GInv /\ [Next]_vars => GInv'
<1> SUFFICES ASSUME GInv, [Next]_vars PROVE GInv'
  OBVIOUS
<1> USE DEF GInv
<1>1. ASSUME NEW r \in Requests, EnterHandler(r) PROVE GInv'
  <2> DEFINE c == ConnOf[r]
  <2>1. /\ c \in Connections /\ accepting[c] /\ run[r] = "waiting"
        /\ run' = [run EXCEPT ![r] = "running"]
        /\ inflight' = [inflight EXCEPT ![c] = @ + 1]
        /\ UNCHANGED <<accepting, closing>>
    BY <1>1, GateAssumption DEF EnterHandler
  <2>2. GateTypeOK'
    BY <2>1 DEF GateTypeOK, RunStates
  <2>3. /\ r \notin RunningOn(c) /\ RunningOn(c)' = RunningOn(c) \cup {r}
        /\ \A d \in Connections \ {c} : RunningOn(d)' = RunningOn(d)
    BY <2>1 DEF RunningOn, GateTypeOK
  <2>4. Cardinality(RunningOn(c)') = Cardinality(RunningOn(c)) + 1
    BY <2>1, <2>3, RunningFinite, FS_AddElement
  <2>5. GateCounts'
    BY <2>1, <2>3, <2>4 DEF GateCounts, GateTypeOK
  <2> QED BY <2>2, <2>5
<1>2. ASSUME NEW r \in Requests, RefuseHandler(r) PROVE GInv'
  <2>1. GateTypeOK'
    BY <1>2 DEF RefuseHandler, GateTypeOK, RunStates
  <2>2. \A c \in Connections : RunningOn(c)' = RunningOn(c)
    BY <1>2 DEF RefuseHandler, RunningOn, GateTypeOK
  <2> QED BY <1>2, <2>1, <2>2 DEF RefuseHandler, GateCounts
<1>3. ASSUME NEW r \in Requests, ExitHandler(r) PROVE GInv'
  <2> DEFINE c == ConnOf[r]
  <2>1. /\ c \in Connections /\ run[r] = "running"
        /\ \E s \in {"finished", "raised"} : run' = [run EXCEPT ![r] = s]
        /\ inflight' = [inflight EXCEPT ![c] = @ - 1]
        /\ closing' = [closing EXCEPT ![c] =
                          IF inflight[c] = 1 /\ @ = "waiting" THEN "woken" ELSE @]
        /\ accepting' = accepting
    BY <1>3, GateAssumption DEF ExitHandler
  <2>2. /\ r \in RunningOn(c) /\ RunningOn(c)' = RunningOn(c) \ {r}
        /\ \A d \in Connections \ {c} : RunningOn(d)' = RunningOn(d)
    BY <2>1 DEF RunningOn, GateTypeOK
  <2>3. /\ Cardinality(RunningOn(c)') = Cardinality(RunningOn(c)) - 1
        /\ Cardinality(RunningOn(c)') \in Nat
    BY <2>1, <2>2, RunningFinite, FS_RemoveElement, FS_CardinalityType
  <2>4. /\ inflight[c] = Cardinality(RunningOn(c)) /\ inflight[c] - 1 \in Nat
        /\ Cardinality(RunningOn(c)) \in Nat
    BY <2>1, <2>3, RunningFinite DEF GateCounts
  <2>5. GateTypeOK'
    BY <2>1, <2>4 DEF GateTypeOK, RunStates
  <2>6. GateCounts'
    BY <2>1, <2>2, <2>3, <2>4 DEF GateCounts, GateTypeOK
  <2> QED BY <2>5, <2>6
<1>4. ASSUME NEW c \in Connections, Shutdown(c) PROVE GInv'
  <2>1. /\ UNCHANGED <<run, inflight>>
        /\ closing' = [closing EXCEPT ![c] = IF inflight[c] > 0 THEN "waiting" ELSE "closed"]
        /\ \/ accepting' = [accepting EXCEPT ![c] = FALSE]
           \/ accepting' = accepting /\ closing[c] = "woken"
    BY <1>4 DEF Shutdown, ShutdownGate, BeginShutdown, ResumeShutdown
  <2>2. \A d \in Connections : RunningOn(d)' = RunningOn(d)
    BY <2>1 DEF RunningOn
  <2>3. inflight[c] = 0 => RunningOn(c) = {}
    BY RunningFinite, FS_EmptySet DEF GateCounts
  <2>4. GateTypeOK'
    BY <2>1 DEF GateTypeOK
  <2>5. inflight[c] \in Nat
    BY DEF GateTypeOK
  <2>6. GateCounts'
    BY <2>1, <2>2, <2>3, <2>5 DEF GateCounts, GateTypeOK
  <2> QED BY <2>4, <2>6
<1>5. CASE UNCHANGED gateVars
  BY <1>5 DEF gateVars, GateTypeOK, GateCounts, RunningOn
<1>6. UNCHANGED gateVars \/ (\E r \in Requests : RunHandler(r))
        \/ \E c \in Connections : Shutdown(c)
  BY DEF Next, vars, Enqueue, RunRequest, DrainStep, PopBatch, PopEmpty, GatherReturns,
     GatherRaises
<1> QED
  BY <1>1, <1>2, <1>3, <1>4, <1>5, <1>6 DEF RunHandler

\* The counter of a gate is exact, and a shutdown ends only with no handler
\* of the connection running, however entries, exits and wake-ups interleave.
THEOREM ShutdownWaitsForHandlers == Spec => []GateCounts
<1>1. GInv => GateCounts
  BY DEF GInv
<1> QED
  BY <1>1, GateInitInv, GateStepInv, PTL DEF Spec

\* Once shutdown() has begun no handler of the connection starts.
THEOREM ShutdownStartsNothing == Spec => NoStartAfterShutdown
<1>1. GInv /\ [Next]_vars =>
        [\A r \in Requests : closing[ConnOf[r]] # "no" /\ run[r] # "running"
                                => run'[r] # "running"]_gateVars
  <2> SUFFICES ASSUME GInv, [Next]_vars, NEW r \in Requests,
                      closing[ConnOf[r]] # "no", run[r] # "running"
               PROVE  run'[r] # "running"
    OBVIOUS
  <2>1. ConnOf[r] \in Connections /\ ~ accepting[ConnOf[r]]
    BY GateAssumption DEF GInv, GateCounts
  <2>2. ASSUME NEW q \in Requests, RunHandler(q) PROVE run'[r] # "running"
    BY <2>1, <2>2 DEF RunHandler, EnterHandler, RefuseHandler, ExitHandler, GInv, GateTypeOK
  <2>3. run' = run \/ \E q \in Requests : RunHandler(q)
    BY DEF Next, vars, gateVars, Enqueue, RunRequest, DrainStep, PopBatch, PopEmpty,
           GatherReturns, GatherRaises, Shutdown, ShutdownGate, BeginShutdown,
           ResumeShutdown
  <2> QED BY <2>2, <2>3
<1> QED
  BY <1>1, GateInitInv, GateStepInv, PTL DEF Spec, NoStartAfterShutdown

\* The queues implement the shared/exclusive discipline.
THEOREM QueuesImplementDiscipline == Spec => ImplementsDiscipline
<1> DEFINE act == {r \in Requests : run[r] = "running"}
           fin == {r \in Requests : Over(r)}
<1>1. Init => Discipline!Init
  BY DEF Init, GateInit, Discipline!Init, Over, OverStates
<1>2. QInv /\ SameKeyExclusive' /\ [Next]_vars => [Discipline!Next]_<<act, fin>>
  <2> SUFFICES ASSUME QInv, SameKeyExclusive', [Next]_vars
               PROVE  Discipline!Next \/ UNCHANGED <<act, fin>>
    OBVIOUS
  <2>1. run \in [Requests -> RunStates]
    BY DEF QInv, QTypes
  <2>2. Discipline!Compatible(act')
    BY DEF SameKeyExclusive, Discipline!Compatible, Conflicting
  <2>3. ASSUME NEW r \in Requests, EnterHandler(r) PROVE Discipline!Start
    <3>1. r \in Requests \ (act \cup fin) /\ act' = act \cup {r} /\ fin' = fin
      BY <2>1, <2>3 DEF EnterHandler, Over, OverStates
    <3> QED BY <2>2, <3>1 DEF Discipline!Start
  <2>4. ASSUME NEW r \in Requests, RefuseHandler(r) PROVE Discipline!GiveUp
    <3>1. r \in Requests \ (act \cup fin) /\ act' = act /\ fin' = fin \cup {r}
      BY <2>1, <2>4 DEF RefuseHandler, Over, OverStates
    <3> QED BY <3>1 DEF Discipline!GiveUp
  <2>5. ASSUME NEW r \in Requests, ExitHandler(r) PROVE Discipline!Finish
    <3>1. r \in act /\ act' = act \ {r} /\ fin' = fin \cup {r}
      BY <2>1, <2>5 DEF ExitHandler, Over, OverStates
    <3> QED BY <3>1 DEF Discipline!Finish
  <2>6. CASE run' = run
    BY <2>6 DEF Over
  <2>7. run' = run \/ \E r \in Requests : RunHandler(r)
    BY DEF Next, vars, gateVars, Enqueue, RunRequest, DrainStep, PopBatch, PopEmpty,
           GatherReturns, GatherRaises, Shutdown, ShutdownGate, BeginShutdown,
           ResumeShutdown
  <2> QED
    BY <2>3, <2>4, <2>5, <2>6, <2>7 DEF RunHandler, Discipline!Next
<1> QED
  BY <1>1, <1>2, QueuesInvariance, SameKeyRequestsExclude, PTL
  DEF Spec, ImplementsDiscipline, Discipline!Spec, Discipline!absVars
=============================================================================
