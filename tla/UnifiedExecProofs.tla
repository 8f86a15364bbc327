------------------------- MODULE UnifiedExecProofs -------------------------
(***************************************************************************)
(* Proofs about UnifiedExec for every finite set of calls, any limits and  *)
(* whatever the processes do: what reaches a process by its id.            *)
(***************************************************************************)
EXTENDS UnifiedExec, FiniteSetTheorems, SequenceTheorems, TLAPS

\* The types of what the argument speaks of.
ClaimTypes ==
    /\ stage \in [Calls -> {"new", "waiting", "running", "begun", "failed"}]
    /\ id \in [Calls -> Ids \cup {0}] /\ told \subseteq Calls
    /\ reserved \subseteq Ids
    /\ entry \in [Ids -> Calls \cup {None}]
    /\ child \in [Calls -> {"none", "running", "exited"}]
    /\ sweep \in {"idle", "collected", "cleared", "done"}

\* The loop is between the store of a process and its answer.
Following == pc \in {"prune", "look", "answer"} \/ (pc = "close" /\ after = "look")

\* The loop knows whose job it does, and where its process was stored.
JobIsKnown ==
    /\ pc \in {"idle", "store", "prune", "touch", "look", "answer", "emit", "close"}
    /\ after \in {"idle", "look", "emit"}
    /\ pc # "close" => after = "idle"
    /\ pc \in {"store", "prune"} => job # None
    /\ pc = "store" \/ Following => on \in Calls /\ job \in {None, on} /\ id[on] = at
    /\ pc = "touch" => on \in Calls /\ id[on] = at /\ job = None
    /\ pc = "store" \/ Following \/ pc = "touch" =>
           at \in Ids /\ stage[on] \notin {"new", "waiting"}
    /\ (pc = "store" \/ Following) /\ job # None => stage[job] = "running"
    /\ pc = "emit" \/ (pc = "close" /\ after = "emit") =>
           job \in Calls /\ at \in Ids /\ stage[job] = "running"

\* A process is stored under its own id; waiting calls have an id.
StoredUnderOwnId ==
    /\ \A i \in Ids : entry[i] # None =>
           id[entry[i]] = i /\ stage[entry[i]] \notin {"new", "waiting"}
    /\ \A c \in Calls : stage[c] = "waiting" => id[c] \in Ids
    /\ pc = "store" => \A i \in Ids : entry[i] # on
    /\ Following \/ pc = "touch" => entry[at] \in {None, on}

\* A call has a claim to its id from its reservation to its release.
Claims(c) == \/ stage[c] = "waiting"
             \/ pc = "store" /\ job = c
             \/ \E i \in Ids : entry[i] = c

\* Before a cleanup clears the table, what a call claims is reserved, and is
\* claimed by no other call.
ClaimsAreOwn ==
    sweep \in {"idle", "collected"} =>
        /\ \A c \in Calls : Claims(c) => id[c] \in reserved
        /\ \A c, d \in Calls : Claims(c) /\ Claims(d) /\ id[c] = id[d] => c = d
        /\ pc \in {"prune", "touch"} => entry[at] = on
        /\ Following => \A d \in Calls : Claims(d) /\ id[d] = at => d = on
        /\ missed = {} /\ displaced = {}

\* A call whose process is stored, and is not yet known to have exited.
Placed(c) == c \in told \/ (job = c /\ Following)

PlacedIsReachable ==
    \A c \in Calls : Placed(c) /\ child[c] = "running" =>
        \/ entry[id[c]] = c
        \/ c \in pruned \cup swept
        \/ sweep # "idle" /\ c \in missed \cup displaced

\* The inductive invariant.
UInv == /\ ClaimTypes /\ JobIsKnown /\ StoredUnderOwnId /\ ClaimsAreOwn
        /\ PlacedIsReachable
        /\ sweep = "idle" => swept = {}
        /\ \A c \in told : id[c] \in Ids /\ stage[c] \notin {"new", "waiting"}

LEMMA UInit == Init => UInv
  BY CallsAssumption DEF Init, UInv, ClaimTypes, JobIsKnown, Following,
     StoredUnderOwnId, ClaimsAreOwn, Claims, PlacedIsReachable, Placed

\* A call reserves an id above all reserved ones: before a cleanup no call claims it.
LEMMA AllocateKeeps ==
    ASSUME UInv, NEW c \in Calls, Allocate(c)
    PROVE  UInv'
<1> USE CallsAssumption DEF Allocate, callVars, tableVars, endVars, loopVars, procVars,
       sweepVars, lostVars
<1>1. ClaimTypes'
  BY DEF UInv, ClaimTypes, JobIsKnown, StoredUnderOwnId, Following, IsNext
<1>2. JobIsKnown'
  BY DEF UInv, ClaimTypes, JobIsKnown, StoredUnderOwnId, Following, IsNext
<1>3. StoredUnderOwnId'
  BY DEF UInv, ClaimTypes, JobIsKnown, StoredUnderOwnId, Following, IsNext
<1>4. ClaimsAreOwn'
  BY DEF UInv, ClaimTypes, JobIsKnown, StoredUnderOwnId, Following, ClaimsAreOwn,
     Claims, IsNext
<1>5. PlacedIsReachable'
  BY DEF UInv, ClaimTypes, JobIsKnown, StoredUnderOwnId, Following, ClaimsAreOwn,
     Claims,
     PlacedIsReachable, Placed, IsNext
<1>6. (sweep = "idle" => swept = {})'
      /\ (\A d \in told : id[d] \in Ids /\ stage[d] \notin {"new", "waiting"})'
  BY DEF UInv, ClaimTypes, JobIsKnown, StoredUnderOwnId, Following, IsNext
<1> QED BY <1>1, <1>2, <1>3, <1>4, <1>5, <1>6 DEF UInv

\* A call that gives its id back takes no process along, before a cleanup; after
\* it, the process it takes along is displaced.
LEMMA RefuseKeeps ==
    ASSUME UInv, NEW c \in Calls, Refuse(c)
    PROVE  UInv'
<1> USE CallsAssumption DEF Refuse, callVars, tableVars, endVars, loopVars, procVars,
       sweepVars, lostVars
<1>1. ClaimTypes'
  BY DEF UInv, ClaimTypes, JobIsKnown, StoredUnderOwnId, Following, Release,
     Displaces, Exited
<1>2. JobIsKnown'
  BY DEF UInv, ClaimTypes, JobIsKnown, StoredUnderOwnId, Following, Release,
     Displaces, Exited
<1>3. StoredUnderOwnId'
  BY DEF UInv, ClaimTypes, JobIsKnown, StoredUnderOwnId, Following, Release,
     Displaces, Exited
<1>a. sweep \in {"idle", "collected"} => entry[id[c]] = None
  <2> SUFFICES ASSUME sweep \in {"idle", "collected"}, entry[id[c]] # None PROVE FALSE
    OBVIOUS
  <2>1. id[c] \in Ids /\ entry[id[c]] \in Calls
    BY DEF UInv, ClaimTypes, StoredUnderOwnId
  <2>2. id[entry[id[c]]] = id[c] /\ entry[id[c]] # c
    BY <2>1 DEF UInv, StoredUnderOwnId
  <2>3. Claims(c) /\ Claims(entry[id[c]])
    BY <2>1 DEF Claims
  <2> QED BY <2>1, <2>2, <2>3 DEF UInv, ClaimsAreOwn
<1>b. id[c] \in Ids /\ pc = "idle"
  BY DEF UInv, StoredUnderOwnId
<1>c. entry' = [entry EXCEPT ![id[c]] = None] /\ reserved' = reserved \ {id[c]}
      /\ displaced' = displaced \cup ({entry[id[c]]} \ {None})
      /\ pc' \in {"idle", "close"} /\ after' = "idle"
  BY DEF Release, Displaces, UInv, JobIsKnown
<1>4. ClaimsAreOwn'
  <2> SUFFICES ASSUME sweep \in {"idle", "collected"} PROVE ClaimsAreOwn'
    BY DEF ClaimsAreOwn
  <2>1. entry' = entry /\ displaced' = displaced
    BY <1>a, <1>b, <1>c DEF UInv, ClaimTypes
  <2>2. \A d \in Calls : Claims(d)' => Claims(d) /\ d # c
    BY <2>1, <1>a, <1>b, <1>c DEF Claims, UInv, ClaimTypes, StoredUnderOwnId
  <2>3. Claims(c)
    BY DEF Claims
  <2>4. \A d \in Calls : Claims(d)' => id[d] \in reserved'
    BY <2>2, <2>3, <1>c DEF UInv, ClaimsAreOwn
  <2> QED BY <2>1, <2>2, <2>4, <1>c DEF UInv, ClaimsAreOwn, Following
<1>5. PlacedIsReachable'
  <2> SUFFICES ASSUME NEW d \in Calls, Placed(d)', child[d] = "running",
                      ~ (d \in pruned \cup swept)
               PROVE  entry'[id[d]] = d \/ (sweep # "idle" /\ d \in missed \cup displaced')
    BY DEF PlacedIsReachable
  <2>1. d \in told
    BY <1>c DEF Placed, Following
  <2>2. entry[id[d]] = d \/ (sweep # "idle" /\ d \in missed \cup displaced)
    BY <2>1 DEF UInv, PlacedIsReachable, Placed
  <2>3. CASE entry[id[d]] = d /\ id[d] = id[c]
    <3>1. sweep # "idle" /\ d \in displaced'
      BY <2>3, <1>a, <1>c DEF UInv, ClaimTypes
    <3> QED BY <3>1
  <2> QED BY <2>1, <2>2, <2>3, <1>b, <1>c DEF UInv, ClaimTypes
<1>6. (sweep = "idle" => swept = {})'
      /\ (\A d \in told : id[d] \in Ids /\ stage[d] \notin {"new", "waiting"})'
  BY DEF UInv, ClaimTypes, JobIsKnown, StoredUnderOwnId, Following, Release,
     Displaces, Exited
<1> QED BY <1>1, <1>2, <1>3, <1>4, <1>5, <1>6 DEF UInv

\* An abandoned call gives up its claim and leaves the rest alone.
LEMMA AbandonKeeps ==
    ASSUME UInv, NEW c \in Calls, Abandon(c)
    PROVE  UInv'
<1> USE CallsAssumption DEF Abandon, callVars, tableVars, endVars, loopVars, procVars,
       sweepVars, lostVars
<1>1. ClaimTypes'
  BY DEF UInv, ClaimTypes, JobIsKnown, StoredUnderOwnId, Following
<1>2. JobIsKnown'
  BY DEF UInv, ClaimTypes, JobIsKnown, StoredUnderOwnId, Following
<1>3. StoredUnderOwnId'
  BY DEF UInv, ClaimTypes, JobIsKnown, StoredUnderOwnId, Following
<1>4. ClaimsAreOwn'
  BY DEF UInv, ClaimTypes, JobIsKnown, StoredUnderOwnId, Following, ClaimsAreOwn, Claims
<1>5. PlacedIsReachable'
  BY DEF UInv, ClaimTypes, JobIsKnown, StoredUnderOwnId, Following, ClaimsAreOwn,
     Claims,
     PlacedIsReachable, Placed
<1>6. (sweep = "idle" => swept = {})'
      /\ (\A d \in told : id[d] \in Ids /\ stage[d] \notin {"new", "waiting"})'
  BY DEF UInv, ClaimTypes, JobIsKnown, StoredUnderOwnId, Following
<1> QED BY <1>1, <1>2, <1>3, <1>4, <1>5, <1>6 DEF UInv

\* A spawned call keeps its claim: its process is the one that will be stored.
LEMMA SpawnKeeps ==
    ASSUME UInv, NEW c \in Calls, Spawn(c)
    PROVE  UInv'
<1> USE CallsAssumption DEF Spawn, callVars, tableVars, endVars, loopVars, procVars,
       sweepVars, lostVars
<1>1. ClaimTypes'
  BY DEF UInv, ClaimTypes, JobIsKnown, StoredUnderOwnId, Following
<1>2. JobIsKnown'
  BY DEF UInv, ClaimTypes, JobIsKnown, StoredUnderOwnId, Following
<1>3. StoredUnderOwnId'
  BY DEF UInv, ClaimTypes, JobIsKnown, StoredUnderOwnId, Following
<1>4. ClaimsAreOwn'
  BY DEF UInv, ClaimTypes, JobIsKnown, StoredUnderOwnId, Following, ClaimsAreOwn, Claims
<1>5. PlacedIsReachable'
  BY DEF UInv, ClaimTypes, JobIsKnown, StoredUnderOwnId, Following, ClaimsAreOwn,
     Claims,
     PlacedIsReachable, Placed
<1>6. (sweep = "idle" => swept = {})'
      /\ (\A d \in told : id[d] \in Ids /\ stage[d] \notin {"new", "waiting"})'
  BY DEF UInv, ClaimTypes, JobIsKnown, StoredUnderOwnId, Following
<1> QED BY <1>1, <1>2, <1>3, <1>4, <1>5, <1>6 DEF UInv

\* Storing a process displaces another one only after a cleanup.
LEMMA StoreKeeps ==
    ASSUME UInv, Store
    PROVE  UInv'
<1> USE CallsAssumption DEF Store, callVars, tableVars, endVars, loopVars, procVars,
       sweepVars, lostVars
<1>1. ClaimTypes'
  BY DEF UInv, ClaimTypes, JobIsKnown, StoredUnderOwnId, Following, Write
<1>2. JobIsKnown'
  BY DEF UInv, ClaimTypes, JobIsKnown, StoredUnderOwnId, Following, Write
<1>3. StoredUnderOwnId'
  BY DEF UInv, ClaimTypes, JobIsKnown, StoredUnderOwnId, Following, Write
<1>a. on \in Calls /\ job = on /\ id[on] = at /\ at \in Ids /\ pc' \in {"look", "prune"}
  BY DEF UInv, JobIsKnown
<1>b. entry' = [entry EXCEPT ![at] = on] /\ \A i \in Ids : entry[i] # on
  BY DEF Write, UInv, StoredUnderOwnId
<1>c. sweep \in {"idle", "collected"} => entry[at] = None
  BY <1>a, <1>b DEF UInv, ClaimTypes, StoredUnderOwnId, ClaimsAreOwn, Claims
<1>4. ClaimsAreOwn'
  <2> SUFFICES ASSUME sweep \in {"idle", "collected"} PROVE ClaimsAreOwn'
    BY DEF ClaimsAreOwn
  <2>1. displaced' = displaced
    BY <1>c
  <2>2. \A d \in Calls : Claims(d)' => Claims(d)
    BY <1>a, <1>b DEF Claims, UInv, ClaimTypes
  <2>3. Claims(on) /\ entry'[at] = on
    BY <1>a, <1>b DEF Claims, UInv, ClaimTypes
  <2> QED BY <2>1, <2>2, <2>3, <1>a DEF UInv, ClaimsAreOwn, Following
<1>5. PlacedIsReachable'
  <2> SUFFICES ASSUME NEW d \in Calls, Placed(d)', child[d] = "running",
                      ~ (d \in pruned \cup swept)
               PROVE  entry'[id[d]] = d \/ (sweep # "idle" /\ d \in missed \cup displaced')
    BY DEF PlacedIsReachable
  <2>1. CASE d = on
    BY <2>1, <1>a, <1>b DEF UInv, ClaimTypes
  <2>2. CASE d # on
    <3>1. Placed(d)
      BY <2>2, <1>a DEF Placed, Following
    <3>2. entry[id[d]] = d \/ (sweep # "idle" /\ d \in missed \cup displaced)
      BY <3>1 DEF UInv, PlacedIsReachable
    <3>3. d \in told /\ id[d] \in Ids
      BY <3>1 DEF Placed, Following, UInv
    <3>4. CASE entry[id[d]] = d /\ id[d] = at
      BY <3>4, <1>c, CallsAssumption DEF UInv, ClaimTypes
    <3> QED BY <3>2, <3>3, <3>4, <1>a, <1>b DEF UInv, ClaimTypes
  <2> QED BY <2>1, <2>2
<1>6. (sweep = "idle" => swept = {})'
      /\ (\A d \in told : id[d] \in Ids /\ stage[d] \notin {"new", "waiting"})'
  BY DEF UInv, ClaimTypes, JobIsKnown, StoredUnderOwnId, Following, Write
<1> QED BY <1>1, <1>2, <1>3, <1>4, <1>5, <1>6 DEF UInv

\* A prune takes one process from the table, which it records in pruned.
LEMMA PruneKeeps ==
    ASSUME UInv, Prune
    PROVE  UInv'
<1> USE CallsAssumption DEF Prune, callVars, tableVars, endVars, loopVars, procVars,
       sweepVars, lostVars
<1>a. on \in Calls /\ job = on /\ id[on] = at /\ at \in Ids
      /\ pc' \in {"look", "close"} /\ (pc' = "close" => after' = "look")
  BY DEF UInv, JobIsKnown, Release, Following
<1>b. \/ entry' = entry /\ pruned' = pruned /\ reserved' = reserved
      \/ \E i \in Ids : /\ entry[i] # None /\ entry' = [entry EXCEPT ![i] = None]
                        /\ pruned' = pruned \cup {entry[i]} /\ reserved' = reserved \ {i}
  BY DEF Release, Victims, Preferred, Prunable, Stored
<1>1. ClaimTypes'
  BY <1>b DEF UInv, ClaimTypes
<1>2. JobIsKnown'
  BY DEF UInv, ClaimTypes, JobIsKnown, StoredUnderOwnId, Following, Release, Exited,
     Victims, Preferred, Prunable, Stored
<1>3. StoredUnderOwnId'
  BY <1>a, <1>b DEF UInv, ClaimTypes, StoredUnderOwnId, Following
<1>4. ClaimsAreOwn'
  BY DEF UInv, ClaimTypes, JobIsKnown, StoredUnderOwnId, Following, ClaimsAreOwn,
     Claims, Release, Exited, Victims, Preferred, Prunable, Stored
<1>5. PlacedIsReachable'
  <2> SUFFICES ASSUME NEW d \in Calls, Placed(d)', child[d] = "running",
                      ~ (d \in pruned' \cup swept)
               PROVE  entry'[id[d]] = d \/ (sweep # "idle" /\ d \in missed \cup displaced)
    BY DEF PlacedIsReachable
  <2>1. Placed(d) /\ d \notin pruned /\ id[d] \in Ids
    BY <1>a, <1>b DEF Placed, Following, UInv
  <2>2. entry[id[d]] = d \/ (sweep # "idle" /\ d \in missed \cup displaced)
    BY <2>1 DEF UInv, PlacedIsReachable
  <2>3. entry[id[d]] = d => entry'[id[d]] = d
    <3> SUFFICES ASSUME entry[id[d]] = d PROVE entry'[id[d]] = d
      OBVIOUS
    <3>1. ASSUME NEW i \in Ids, entry' = [entry EXCEPT ![i] = None],
                 pruned' = pruned \cup {entry[i]}
          PROVE  entry'[id[d]] = d
      <4>1. i # id[d]
        BY <3>1
      <4> QED BY <2>1, <3>1, <4>1 DEF UInv, ClaimTypes
    <3> QED BY <3>1, <1>b
  <2> QED BY <2>2, <2>3
<1>6. (sweep = "idle" => swept = {})'
      /\ (\A d \in told : id[d] \in Ids /\ stage[d] \notin {"new", "waiting"})'
  BY DEF UInv, ClaimTypes, JobIsKnown, StoredUnderOwnId, Following, Release, Exited,
     Victims, Preferred, Prunable, Stored
<1> QED BY <1>1, <1>2, <1>3, <1>4, <1>5, <1>6 DEF UInv

\* A prune that finds the table cleared fails its call, whose answer told no id.
LEMMA PruneRaisesKeeps ==
    ASSUME UInv, PruneRaises
    PROVE  UInv'
<1> USE CallsAssumption DEF PruneRaises, callVars, tableVars, endVars, loopVars, procVars,
       sweepVars, lostVars
<1>1. ClaimTypes'
  BY DEF UInv, ClaimTypes, JobIsKnown, StoredUnderOwnId, Following, Release, Exited,
     NoJob, Stored
<1>2. JobIsKnown'
  BY DEF UInv, ClaimTypes, JobIsKnown, StoredUnderOwnId, Following, Release, Exited,
     NoJob, Stored
<1>3. StoredUnderOwnId'
  BY DEF UInv, ClaimTypes, JobIsKnown, StoredUnderOwnId, Following, Release, Exited,
     NoJob, Stored
<1>4. ClaimsAreOwn'
  BY DEF UInv, ClaimTypes, JobIsKnown, StoredUnderOwnId, Following, ClaimsAreOwn,
     Claims, Release, Exited, NoJob, Stored
<1>5. PlacedIsReachable'
  BY DEF UInv, ClaimTypes, JobIsKnown, StoredUnderOwnId, Following, ClaimsAreOwn,
     Claims,
     PlacedIsReachable, Placed, Release, Exited, NoJob, Stored
<1>6. (sweep = "idle" => swept = {})'
      /\ (\A d \in told : id[d] \in Ids /\ stage[d] \notin {"new", "waiting"})'
  BY DEF UInv, ClaimTypes, JobIsKnown, StoredUnderOwnId, Following, Release, Exited,
     NoJob, Stored
<1> QED BY <1>1, <1>2, <1>3, <1>4, <1>5, <1>6 DEF UInv

\* The process that a write_stdin finds under an id is the one stored there.
LEMMA TouchReadKeeps ==
    ASSUME UInv, NEW i \in Ids, TouchRead(i)
    PROVE  UInv'
<1> USE CallsAssumption DEF TouchRead, callVars, tableVars, endVars, loopVars, procVars,
       sweepVars, lostVars
<1>1. ClaimTypes'
  BY DEF UInv, ClaimTypes, JobIsKnown, StoredUnderOwnId, Following
<1>2. JobIsKnown'
  BY DEF UInv, ClaimTypes, JobIsKnown, StoredUnderOwnId, Following
<1>3. StoredUnderOwnId'
  BY DEF UInv, ClaimTypes, JobIsKnown, StoredUnderOwnId, Following
<1>4. ClaimsAreOwn'
  BY DEF UInv, ClaimTypes, JobIsKnown, StoredUnderOwnId, Following, ClaimsAreOwn, Claims
<1>5. PlacedIsReachable'
  BY DEF UInv, ClaimTypes, JobIsKnown, StoredUnderOwnId, Following, ClaimsAreOwn,
     Claims,
     PlacedIsReachable, Placed
<1>6. (sweep = "idle" => swept = {})'
      /\ (\A d \in told : id[d] \in Ids /\ stage[d] \notin {"new", "waiting"})'
  BY DEF UInv, ClaimTypes, JobIsKnown, StoredUnderOwnId, Following
<1> QED BY <1>1, <1>2, <1>3, <1>4, <1>5, <1>6 DEF UInv

\* Before the table is cleared, writing the entry back changes nothing.
LEMMA TouchWriteKeeps ==
    ASSUME UInv, TouchWrite
    PROVE  UInv'
<1> USE CallsAssumption DEF TouchWrite, callVars, tableVars, endVars, loopVars, procVars,
       sweepVars, lostVars
<1>1. ClaimTypes'
  BY DEF UInv, ClaimTypes, JobIsKnown, StoredUnderOwnId, Following, Write, NoJob
<1>2. JobIsKnown'
  BY DEF UInv, ClaimTypes, JobIsKnown, StoredUnderOwnId, Following, Write, NoJob
<1>3. StoredUnderOwnId'
  BY DEF UInv, ClaimTypes, JobIsKnown, StoredUnderOwnId, Following, Write, NoJob
<1>4. ClaimsAreOwn'
  <2> SUFFICES ASSUME sweep \in {"idle", "collected"} PROVE ClaimsAreOwn'
    BY DEF ClaimsAreOwn
  <2>1. at \in Ids /\ on \in Calls /\ id[on] = at /\ entry[at] = on /\ job = None
    BY DEF UInv, JobIsKnown, ClaimsAreOwn
  <2>2. entry' = entry /\ pc' \in {"look", "idle"}
    BY <2>1 DEF Write, UInv, ClaimTypes
  <2>3. Claims(on)
    BY <2>1 DEF Claims
  <2>4. \A d \in Calls : Claims(d)' => Claims(d)
    BY <2>2 DEF Claims
  <2>5. pc' = "look" => at' = at /\ on' = on
    OBVIOUS
  <2>6. \A d \in Calls : Claims(d) /\ id[d] = at => d = on
    BY <2>1, <2>3 DEF UInv, ClaimsAreOwn
  <2> QED BY <2>1, <2>2, <2>4, <2>5, <2>6 DEF UInv, ClaimsAreOwn, Following, JobIsKnown
<1>5. PlacedIsReachable'
  BY DEF UInv, ClaimTypes, JobIsKnown, StoredUnderOwnId, Following, ClaimsAreOwn,
     Claims,
     PlacedIsReachable, Placed, Write, NoJob
<1>6. (sweep = "idle" => swept = {})'
      /\ (\A d \in told : id[d] \in Ids /\ stage[d] \notin {"new", "waiting"})'
  BY DEF UInv, ClaimTypes, JobIsKnown, StoredUnderOwnId, Following, Write, NoJob
<1> QED BY <1>1, <1>2, <1>3, <1>4, <1>5, <1>6 DEF UInv

\* Looking at the output leaves the table alone.
LEMMA LookKeeps ==
    ASSUME UInv, Look
    PROVE  UInv'
<1> USE CallsAssumption DEF Look, callVars, tableVars, endVars, loopVars, procVars,
       sweepVars, lostVars
<1>1. ClaimTypes'
  BY DEF UInv, ClaimTypes, JobIsKnown, StoredUnderOwnId, Following
<1>2. JobIsKnown'
  BY DEF UInv, ClaimTypes, JobIsKnown, StoredUnderOwnId, Following
<1>3. StoredUnderOwnId'
  BY DEF UInv, ClaimTypes, JobIsKnown, StoredUnderOwnId, Following
<1>4. ClaimsAreOwn'
  BY DEF UInv, ClaimTypes, JobIsKnown, StoredUnderOwnId, Following, ClaimsAreOwn, Claims
<1>5. PlacedIsReachable'
  BY DEF UInv, ClaimTypes, JobIsKnown, StoredUnderOwnId, Following, ClaimsAreOwn,
     Claims,
     PlacedIsReachable, Placed
<1>6. (sweep = "idle" => swept = {})'
      /\ (\A d \in told : id[d] \in Ids /\ stage[d] \notin {"new", "waiting"})'
  BY DEF UInv, ClaimTypes, JobIsKnown, StoredUnderOwnId, Following
<1> QED BY <1>1, <1>2, <1>3, <1>4, <1>5, <1>6 DEF UInv

\* An answer names an id only of a process that was placed, and releases an id
\* only of one that has exited.
LEMMA AnswerKeeps ==
    ASSUME UInv, Answer
    PROVE  UInv'
<1> USE CallsAssumption DEF Answer, callVars, tableVars, endVars, loopVars, procVars,
       sweepVars, lostVars
<1>a. on \in Calls /\ job \in {None, on} /\ at \in Ids /\ id[on] = at
      /\ stage[on] \notin {"new", "waiting"} /\ entry[at] \in {None, on}
  BY DEF UInv, JobIsKnown, StoredUnderOwnId, Following
<1>b. \/ child[on] = "exited" /\ entry' = [entry EXCEPT ![at] = None]
         /\ reserved' = reserved \ {at} /\ told' = told
      \/ UNCHANGED <<entry, reserved>> /\ told' = told \cup ({job} \ {None})
  BY <1>a DEF Release, Exited
<1>c. /\ pc' \in {"idle", "emit", "close"}
      /\ pc' = "close" => after' \in {"idle", "emit"}
  BY <1>a DEF Release
<1>1. ClaimTypes'
  BY <1>a, <1>b DEF UInv, ClaimTypes
<1>2. JobIsKnown'
  BY DEF UInv, ClaimTypes, JobIsKnown, StoredUnderOwnId, Following, Release, Exited,
     NoJob
<1>3. StoredUnderOwnId'
  BY DEF UInv, ClaimTypes, JobIsKnown, StoredUnderOwnId, Following, Release, Exited,
     NoJob
<1>4. ClaimsAreOwn'
  <2> SUFFICES ASSUME sweep \in {"idle", "collected"} PROVE ClaimsAreOwn'
    BY DEF ClaimsAreOwn
  <2>1. \A d \in Calls : Claims(d)' => Claims(d)
    BY <1>a, <1>b, <1>c DEF Claims, UInv, ClaimTypes
  <2>2. reserved' # reserved => \A d \in Calls : Claims(d)' => id[d] # at
    <3> SUFFICES ASSUME reserved' # reserved, NEW d \in Calls, Claims(d)', id[d] = at
                 PROVE  FALSE
      OBVIOUS
    <3>1. d = on
      BY <2>1 DEF UInv, ClaimsAreOwn, Following
    <3>2. entry' = [entry EXCEPT ![at] = None]
      BY <1>b
    <3>3. PICK i \in Ids : entry'[i] = on
      BY <3>1, <1>a, <1>c DEF Claims
    <3> QED BY <3>2, <3>3, <1>a, CallsAssumption DEF UInv, ClaimTypes, StoredUnderOwnId
  <2>3. \A d \in Calls : Claims(d)' => id[d] \in reserved'
    BY <2>1, <2>2, <1>b DEF UInv, ClaimsAreOwn
  <2> QED BY <2>1, <2>3, <1>c DEF UInv, ClaimsAreOwn, Following
<1>5. PlacedIsReachable'
  <2> SUFFICES ASSUME NEW d \in Calls, Placed(d)', child[d] = "running",
                      ~ (d \in pruned \cup swept)
               PROVE  entry'[id[d]] = d \/ (sweep # "idle" /\ d \in missed \cup displaced)
    BY DEF PlacedIsReachable
  <2>1. d \in told'
    BY <1>c DEF Placed, Following
  <2>2. Placed(d) /\ id[d] \in Ids
    BY <2>1, <1>a, <1>b DEF Placed, Following, UInv
  <2>3. entry[id[d]] = d \/ (sweep # "idle" /\ d \in missed \cup displaced)
    BY <2>2 DEF UInv, PlacedIsReachable
  <2>4. entry[id[d]] = d => entry'[id[d]] = d
    <3>1. child[on] = "exited" => d # on
      OBVIOUS
    <3> QED BY <3>1, <2>2, <1>a, <1>b, CallsAssumption DEF UInv, ClaimTypes
  <2> QED BY <2>3, <2>4
<1>6. (sweep = "idle" => swept = {})'
      /\ (\A d \in told : id[d] \in Ids /\ stage[d] \notin {"new", "waiting"})'
  BY DEF UInv, ClaimTypes, JobIsKnown, StoredUnderOwnId, Following, Release, Exited,
     NoJob
<1> QED BY <1>1, <1>2, <1>3, <1>4, <1>5, <1>6 DEF UInv

\* Closing streams leaves the table alone.
LEMMA CloseStreamsKeeps ==
    ASSUME UInv, CloseStreams
    PROVE  UInv'
<1> USE CallsAssumption DEF CloseStreams, callVars, tableVars, endVars, loopVars, procVars,
       sweepVars, lostVars
<1>1. ClaimTypes'
  BY DEF UInv, ClaimTypes, JobIsKnown, StoredUnderOwnId, Following
<1>2. JobIsKnown'
  BY DEF UInv, ClaimTypes, JobIsKnown, StoredUnderOwnId, Following
<1>3. StoredUnderOwnId'
  BY DEF UInv, ClaimTypes, JobIsKnown, StoredUnderOwnId, Following
<1>4. ClaimsAreOwn'
  BY DEF UInv, ClaimTypes, JobIsKnown, StoredUnderOwnId, Following, ClaimsAreOwn, Claims
<1>5. PlacedIsReachable'
  BY DEF UInv, ClaimTypes, JobIsKnown, StoredUnderOwnId, Following, ClaimsAreOwn,
     Claims,
     PlacedIsReachable, Placed
<1>6. (sweep = "idle" => swept = {})'
      /\ (\A d \in told : id[d] \in Ids /\ stage[d] \notin {"new", "waiting"})'
  BY DEF UInv, ClaimTypes, JobIsKnown, StoredUnderOwnId, Following
<1> QED BY <1>1, <1>2, <1>3, <1>4, <1>5, <1>6 DEF UInv

\* Reporting the start or the end of a command leaves the table alone.
LEMMA EmitKeeps ==
    ASSUME UInv, Emit
    PROVE  UInv'
<1> USE CallsAssumption DEF Emit, callVars, tableVars, endVars, loopVars, procVars,
       sweepVars, lostVars
<1>1. ClaimTypes'
  BY DEF UInv, ClaimTypes, JobIsKnown, StoredUnderOwnId, Following, NoJob
<1>2. JobIsKnown'
  BY DEF UInv, ClaimTypes, JobIsKnown, StoredUnderOwnId, Following, NoJob
<1>3. StoredUnderOwnId'
  BY DEF UInv, ClaimTypes, JobIsKnown, StoredUnderOwnId, Following, NoJob
<1>4. ClaimsAreOwn'
  BY DEF UInv, ClaimTypes, JobIsKnown, StoredUnderOwnId, Following, ClaimsAreOwn,
     Claims, NoJob
<1>5. PlacedIsReachable'
  BY DEF UInv, ClaimTypes, JobIsKnown, StoredUnderOwnId, Following, ClaimsAreOwn,
     Claims,
     PlacedIsReachable, Placed, NoJob
<1>6. (sweep = "idle" => swept = {})'
      /\ (\A d \in told : id[d] \in Ids /\ stage[d] \notin {"new", "waiting"})'
  BY DEF UInv, ClaimTypes, JobIsKnown, StoredUnderOwnId, Following, NoJob
<1> QED BY <1>1, <1>2, <1>3, <1>4, <1>5, <1>6 DEF UInv

\* The cleanup clears the table: what it had not collected is missed.
LEMMA ClearTableKeeps ==
    ASSUME UInv, ClearTable
    PROVE  UInv'
<1> USE CallsAssumption DEF ClearTable, callVars, tableVars, endVars, loopVars, procVars,
       sweepVars, lostVars
<1>1. ClaimTypes'
  BY DEF UInv, ClaimTypes, JobIsKnown, StoredUnderOwnId, Following, Stored
<1>2. JobIsKnown'
  BY DEF UInv, ClaimTypes, JobIsKnown, StoredUnderOwnId, Following, Stored
<1>3. StoredUnderOwnId'
  BY DEF UInv, ClaimTypes, JobIsKnown, StoredUnderOwnId, Following, Stored
<1>4. ClaimsAreOwn'
  BY DEF UInv, ClaimTypes, JobIsKnown, StoredUnderOwnId, Following, ClaimsAreOwn,
     Claims, Stored
<1>5. PlacedIsReachable'
  BY DEF UInv, ClaimTypes, JobIsKnown, StoredUnderOwnId, Following, ClaimsAreOwn,
     Claims,
     PlacedIsReachable, Placed, Stored
<1>6. (sweep = "idle" => swept = {})'
      /\ (\A d \in told : id[d] \in Ids /\ stage[d] \notin {"new", "waiting"})'
  BY DEF UInv, ClaimTypes, JobIsKnown, StoredUnderOwnId, Following, Stored
<1> QED BY <1>1, <1>2, <1>3, <1>4, <1>5, <1>6 DEF UInv

\* The steps of the processes, of their readers and of the watchers, the
\* collection and the clearing of the ids leave the claims alone.
LEMMA OthersKeep ==
    ASSUME UInv,
           \/ \E c \in Calls : WatcherEnds(c) \/ Process(c) \/ Reader(c)
           \/ Collect \/ ClearIds \/ UNCHANGED vars
    PROVE  UInv'
<1>1. /\ UNCHANGED <<callVars, entry, newer, loopVars, lostVars, missed>>
      /\ \A d \in Calls : child'[d] = "running" => child[d] = "running"
      /\ child' \in [Calls -> {"none", "running", "exited"}]
      /\ sweep \in {"idle", "collected"} => sweep' = "collected" \/ sweep' = sweep
      /\ sweep \notin {"idle", "collected"} => sweep' \in {"cleared", "done"}
  BY DEF UInv, ClaimTypes, vars, callVars, tableVars, endVars, loopVars, procVars,
         sweepVars, lostVars, WatcherEnds, Process, Reader, Output, Exit, DescendantEnds,
         Read, Finish, Collect, ClearIds
<1>2. /\ sweep' \in {"idle", "collected"} => reserved' = reserved
      /\ reserved' \subseteq Ids
      /\ swept \subseteq swept' /\ (sweep' = "idle" => swept' = {})
      /\ sweep' = "idle" => sweep = "idle"
  BY DEF UInv, ClaimTypes, vars, callVars, tableVars, endVars, loopVars, procVars,
         sweepVars, lostVars, WatcherEnds, Process, Reader, Output, Exit, DescendantEnds,
         Read, Finish, Collect, ClearIds
<1> USE DEF callVars, loopVars, lostVars
<1>3. ClaimTypes' /\ JobIsKnown' /\ StoredUnderOwnId'
  BY <1>1, <1>2 DEF UInv, ClaimTypes, JobIsKnown, StoredUnderOwnId, Following
<1>4. ClaimsAreOwn'
  BY <1>1, <1>2 DEF UInv, ClaimTypes, ClaimsAreOwn, Claims, Following
<1>5. PlacedIsReachable'
  BY <1>1, <1>2 DEF UInv, PlacedIsReachable, Placed, Following
<1> QED BY <1>1, <1>2, <1>3, <1>4, <1>5 DEF UInv

LEMMA UStep == UInv /\ [Next]_vars => UInv'
<1> SUFFICES ASSUME UInv, [Next]_vars PROVE UInv'
  OBVIOUS
<1>1. CASE \E c \in Calls : Handler(c)
  BY <1>1, AllocateKeeps, RefuseKeeps, AbandonKeeps, SpawnKeeps DEF Handler
<1>2. CASE \E i \in Ids : TouchRead(i)
  BY <1>2, TouchReadKeeps
<1>3. CASE Loop
  BY <1>3, StoreKeeps, PruneKeeps, PruneRaisesKeeps, TouchWriteKeeps, LookKeeps,
     AnswerKeeps, CloseStreamsKeeps, EmitKeeps DEF Loop
<1>4. CASE ClearTable
  BY <1>4, ClearTableKeeps
<1>5. CASE \/ \E c \in Calls : WatcherEnds(c) \/ Process(c) \/ Reader(c)
           \/ Collect \/ ClearIds \/ UNCHANGED vars
  BY <1>5, OthersKeep
<1> QED BY <1>1, <1>2, <1>3, <1>4, <1>5 DEF Next

\* Whatever the threads do in whatever order, a live process that the model was
\* told of is reached by its id, unless a prune or a cleanup took it; and only
\* a cleanup can make two calls share an id.
THEOREM LiveProcessesAreReachable == Spec => []RetainedIsReachable
<1>1. UInv => RetainedIsReachable
  BY DEF UInv, ClaimTypes, PlacedIsReachable, Placed, RetainedIsReachable
<1> QED
  BY <1>1, UInit, UStep, PTL DEF Spec

\* No two calls are given one id, and none takes another's process out of the
\* table, before a cleanup clears the table.
THEOREM IdsAreOwn == Spec => [](sweep \in {"idle", "collected"} => displaced = {})
<1>1. UInv => (sweep \in {"idle", "collected"} => displaced = {})
  BY DEF UInv, ClaimsAreOwn
<1> QED
  BY <1>1, UInit, UStep, PTL DEF Spec

\* A byte pushed on a buffer of bytes.
LEMMA PushType ==
    ASSUME NEW q \in Seq(Nat), NEW b \in Nat PROVE Push(q, b) \in Seq(Nat)
<1>1. CASE Len(q) < HeadBudget + TailBudget
  BY <1>1 DEF Push
<1>2. CASE ~ (Len(q) < HeadBudget + TailBudget)
  <2>1. HeadBudget \in Nat /\ TailBudget \in Nat /\ Len(q) \in Nat
    BY CallsAssumption
  <2>2. SubSeq(q, 1, HeadBudget) \in Seq(Nat)
    <3>1. HeadBudget <= Len(q)
      BY <1>2, <2>1
    <3> QED BY <2>1, <3>1
  <2>3. SubSeq(q, HeadBudget + 2, Len(q)) \in Seq(Nat)
    BY <2>1
  <2> QED BY <1>2, <2>2, <2>3 DEF Push
<1> QED BY <1>1, <1>2

\* Each group of variables keeps its types.
LEMMA TableTypesStep == UInv /\ UnifiedExecTypeOK /\ [Next]_vars => TableTypes'
<1> SUFFICES ASSUME UInv, TableTypes, LoopTypes, [Next]_vars PROVE TableTypes'
  BY DEF UnifiedExecTypeOK
<1> USE CallsAssumption DEF TableTypes, LoopTypes
<1>1. ASSUME NEW c \in Calls, Allocate(c) \/ Abandon(c) \/ Spawn(c) PROVE TableTypes'
  <2>1. CASE Allocate(c)
    BY <2>1 DEF Allocate, endVars
  <2>2. CASE Abandon(c)
    BY <2>2 DEF Abandon, tableVars, endVars
  <2>3. CASE Spawn(c)
    BY <2>3 DEF Spawn, tableVars, endVars
  <2> QED BY <1>1, <2>1, <2>2, <2>3
<1>2. ASSUME NEW c \in Calls, Refuse(c) PROVE TableTypes'
  BY <1>2 DEF Refuse, Release, endVars
<1>3. ASSUME NEW c \in Calls, WatcherEnds(c) PROVE TableTypes'
  BY <1>3 DEF WatcherEnds, callVars, tableVars
<1>4. CASE Store \/ TouchWrite
  <2>1. at \in Ids
    BY <1>4 DEF Store, TouchWrite, UInv, JobIsKnown
  <2>2. Write(at, on) => entry' \in [Ids -> Calls \cup {None}] /\ newer' \in [Ids -> SUBSET Ids]
    BY <2>1 DEF Write
  <2> QED BY <1>4, <2>1, <2>2 DEF Store, TouchWrite, callVars, endVars
<1>5. CASE Prune \/ PruneRaises
  <2>1. ASSUME NEW i, NEW next, Release(i, next)
        PROVE  /\ reserved' \subseteq Ids /\ watched' \subseteq Ids
               /\ entry' \in [Ids -> Calls \cup {None}] /\ newer' \in [Ids -> SUBSET Ids]
    BY <2>1 DEF Release
  <2>2. CASE Prune
    BY <2>1, <2>2 DEF Prune, callVars, tableVars, endVars
  <2>3. CASE PruneRaises
    BY <2>1, <2>3 DEF PruneRaises, endVars
  <2> QED BY <1>5, <2>2, <2>3
<1>6. CASE Answer
  <2>1. told' \subseteq Calls
    <3>1. told' = told \/ (job # None /\ told' = told \cup {job})
      BY <1>6, Zenon DEF Answer
    <3>2. told \subseteq Calls /\ job \in Calls \cup {None}
      OBVIOUS
    <3> QED BY <3>1, <3>2
  <2>2. \/ UNCHANGED tableVars
        \/ /\ reserved' = reserved \ {at} /\ watched' = watched \ {at}
           /\ entry' = [entry EXCEPT ![at] = None]
           /\ newer' = [j \in Ids |-> IF j = at THEN {} ELSE newer[j] \ {at}]
    BY <1>6 DEF Answer, Release
  <2>3. UNCHANGED <<stage, id, endVars>>
    BY <1>6 DEF Answer
  <2>4. reserved' \subseteq Ids /\ watched' \subseteq Ids
    BY <2>2 DEF tableVars
  <2>5. entry' \in [Ids -> Calls \cup {None}]
    BY <2>2 DEF tableVars
  <2>6. newer' \in [Ids -> SUBSET Ids]
    BY <2>2 DEF tableVars
  <2> QED BY <2>1, <2>3, <2>4, <2>5, <2>6 DEF endVars
<1>7. CASE Emit
  <2>0. UNCHANGED <<id, told, reserved, entry, newer>>
    BY <1>7 DEF Emit
  <2>a. pc = "emit"
    BY <1>7 DEF Emit
  <2>1. job \in Calls
    BY <2>a DEF UInv, JobIsKnown
  <2>2. stage' \in [Calls -> {"new", "waiting", "running", "begun", "failed"}]
    BY <1>7 DEF Emit
  <2>3. /\ ends' = ends \/ ends' = [ends EXCEPT ![job] = @ + 1]
        /\ \/ UNCHANGED <<watching, watched>>
           \/ /\ Watchable(at)
              /\ watching' = [watching EXCEPT ![job] = entry[at]]
              /\ watched' = watched \cup {at}
    BY <1>7 DEF Emit
  <2>4. at \in Ids
    BY <1>7 DEF Emit, UInv, JobIsKnown
  <2>5. ends' \in [Calls -> Nat]
    BY <2>3
  <2>6. entry[at] \in Calls \cup {None}
    BY <2>4
  <2>7. watching' \in [Calls -> Calls \cup {None}] /\ watched' \subseteq Ids
    BY <2>3, <2>4, <2>6
  <2> QED BY <2>0, <2>2, <2>5, <2>7
<1>8. CASE ClearTable \/ ClearIds
  BY <1>8 DEF ClearTable, ClearIds, callVars, endVars
<1>9. CASE UNCHANGED <<callVars, tableVars, endVars>>
  BY <1>9 DEF callVars, tableVars, endVars
<1>10. ASSUME NEW c \in Calls, Process(c) \/ Reader(c)
       PROVE  UNCHANGED <<callVars, tableVars, endVars>>
  BY <1>10 DEF Process, Output, Exit, DescendantEnds, Reader, Read, Finish
<1>11. ASSUME NEW i \in Ids, TouchRead(i) PROVE UNCHANGED <<callVars, tableVars, endVars>>
  BY <1>11 DEF TouchRead
<1>12. Look \/ CloseStreams \/ Collect \/ UNCHANGED vars
          => UNCHANGED <<callVars, tableVars, endVars>>
  BY DEF Look, CloseStreams, Collect, vars
<1> QED
  BY <1>1, <1>2, <1>3, <1>4, <1>5, <1>6, <1>7, <1>8, <1>9, <1>10, <1>11, <1>12
  DEF Next, Handler, Loop

LEMMA LoopTypesStep == UInv /\ UnifiedExecTypeOK /\ [Next]_vars => LoopTypes'
<1> SUFFICES ASSUME UInv, TableTypes, LoopTypes, [Next]_vars PROVE LoopTypes'
  BY DEF UnifiedExecTypeOK
<1> USE CallsAssumption DEF TableTypes, LoopTypes
<1>1. ASSUME NEW c \in Calls, Spawn(c) PROVE LoopTypes'
  BY <1>1 DEF Spawn
<1>0. ASSUME NEW i \in Ids, NEW next \in {"idle", "look", "emit"}, Release(i, next)
      PROVE  /\ pc' \in {"idle", "look", "emit", "close"}
             /\ closing' \in Calls \cup {None} /\ after' \in {"idle", "look", "emit"}
  BY <1>0 DEF Release
<1>2. ASSUME NEW c \in Calls, Refuse(c) PROVE LoopTypes'
  <2>1. id[c] \in Ids
    BY <1>2 DEF Refuse, UInv, StoredUnderOwnId
  <2> QED BY <1>0, <1>2, <2>1 DEF Refuse
<1>3. ASSUME NEW i \in Ids, TouchRead(i) PROVE LoopTypes'
  BY <1>3 DEF TouchRead
<1>4. CASE Store \/ TouchWrite \/ Look \/ CloseStreams \/ Emit
  BY <1>4 DEF Store, TouchWrite, NoJob, Look, CloseStreams, Emit
<1>5. CASE Prune \/ PruneRaises
  <2>1. Victims \subseteq Ids
    BY DEF Victims, Preferred, Prunable, Stored
  <2>2. CASE Prune
    BY <1>0, <2>1, <2>2 DEF Prune
  <2>3. CASE PruneRaises
    <3>1. at \in Ids
      BY <2>3 DEF PruneRaises, UInv, JobIsKnown, Following
    <3> QED BY <1>0, <2>3, <3>1 DEF PruneRaises, NoJob
  <2> QED BY <1>5, <2>2, <2>3
<1>6. CASE Answer
  BY <1>6 DEF Answer, Release, NoJob, UInv, JobIsKnown, Following
<1>7. CASE UNCHANGED loopVars
  BY <1>7 DEF loopVars
<1>8. ASSUME NEW c \in Calls, Allocate(c) \/ Abandon(c) \/ WatcherEnds(c) \/ Process(c) \/ Reader(c)
      PROVE  UNCHANGED loopVars
  BY <1>8 DEF Allocate, Abandon, WatcherEnds, Process, Output, Exit, DescendantEnds,
     Reader, Read, Finish
<1>9. Collect \/ ClearTable \/ ClearIds \/ UNCHANGED vars => UNCHANGED loopVars
  BY DEF Collect, ClearTable, ClearIds, vars
<1> QED
  BY <1>1, <1>2, <1>3, <1>4, <1>5, <1>6, <1>7, <1>8, <1>9 DEF Next, Handler, Loop

LEMMA ProcessTypesStep == UnifiedExecTypeOK /\ [Next]_vars => ProcessTypes'
<1> SUFFICES ASSUME ProcessTypes, [Next]_vars PROVE ProcessTypes'
  BY DEF UnifiedExecTypeOK
<1> USE DEF ProcessTypes
<1>1. ASSUME NEW c \in Calls, Spawn(c) PROVE ProcessTypes'
  BY <1>1 DEF Spawn
<1>2. ASSUME NEW c \in Calls, Process(c) PROVE ProcessTypes'
  <2>1. CASE Output(c)
    BY <2>1 DEF Output
  <2>2. CASE Exit(c)
    BY <2>2 DEF Exit
  <2>3. CASE DescendantEnds(c)
    BY <2>3 DEF DescendantEnds
  <2> QED BY <1>2, <2>1, <2>2, <2>3 DEF Process
<1>3. ASSUME NEW c \in Calls, Read(c) PROVE ProcessTypes'
  <2>1. Push(buffer[c], read[c] + 1) \in Seq(Nat)
    BY PushType
  <2>2. Len(buffer[c]) >= HeadBudget + TailBudget => buffer[c][HeadBudget + 1] \in Nat
    <3> SUFFICES ASSUME Len(buffer[c]) >= HeadBudget + TailBudget
                 PROVE  buffer[c][HeadBudget + 1] \in Nat
      OBVIOUS
    <3>1. buffer[c] \in Seq(Nat) /\ HeadBudget + 1 \in 1 .. Len(buffer[c])
      BY CallsAssumption
    <3> QED BY <3>1
  <2>3. buffer' \in [Calls -> Seq(Nat)] /\ read' \in [Calls -> Nat]
    BY <1>3, <2>1 DEF Read
  <2>4. omitted' \in [Calls -> SUBSET Nat]
    <3>1. Len(buffer[c]) \in Nat /\ HeadBudget + TailBudget \in Nat
      BY CallsAssumption
    <3> QED BY <1>3, <2>2, <3>1 DEF Read
  <2> QED BY <1>3, <2>3, <2>4 DEF Read
<1>4. ASSUME NEW c \in Calls, Finish(c) PROVE ProcessTypes'
  BY <1>4 DEF Finish
<1>5. CASE Look
  <2>1. got' \in [Calls -> Seq(Nat)]
    <3>1. on \in Calls => got[on] \o buffer[on] \in Seq(Nat)
      OBVIOUS
    <3> QED BY <1>5, <3>1 DEF Look
  <2>2. buffer' \in [Calls -> Seq(Nat)]
    <3>1. <<>> \in Seq(Nat)
      OBVIOUS
    <3> QED BY <1>5, <3>1 DEF Look
  <2> QED BY <1>5, <2>1, <2>2 DEF Look
<1>6. CASE CloseStreams
  BY <1>6 DEF CloseStreams
<1>7. CASE UNCHANGED procVars
  BY <1>7 DEF procVars
<1>8. ASSUME NEW c \in Calls, Allocate(c) \/ Refuse(c) \/ Abandon(c) \/ WatcherEnds(c)
      PROVE  UNCHANGED procVars
  BY <1>8 DEF Allocate, Refuse, Abandon, WatcherEnds
<1>9. Store \/ Prune \/ PruneRaises \/ TouchWrite \/ Answer \/ Emit \/ Collect
         \/ ClearTable \/ ClearIds \/ (\E i \in Ids : TouchRead(i)) \/ UNCHANGED vars
         => UNCHANGED procVars
  BY DEF Store, Prune, PruneRaises, TouchWrite, Answer, Emit, Collect, ClearTable,
     ClearIds,
     TouchRead, vars
<1> QED
  BY <1>1, <1>2, <1>3, <1>4, <1>5, <1>6, <1>7, <1>8, <1>9 DEF Next, Handler, Loop,
     Reader

LEMMA LossTypesStep == UInv /\ UnifiedExecTypeOK /\ [Next]_vars => LossTypes'
<1> SUFFICES ASSUME UInv, TableTypes, LossTypes, [Next]_vars PROVE LossTypes'
  BY DEF UnifiedExecTypeOK
<1>0. \A i \in Ids : entry[i] \in Calls \cup {None}
  BY DEF TableTypes
<1> USE DEF LossTypes
<1>1. ASSUME NEW c \in Calls, Refuse(c) PROVE LossTypes'
  <2>1. id[c] \in Ids
    BY <1>1 DEF Refuse, UInv, StoredUnderOwnId
  <2> QED BY <1>1, <1>0, <2>1 DEF Refuse, Displaces, sweepVars
<1>2. CASE Store
  BY <1>2, <1>0 DEF Store, sweepVars, UInv, JobIsKnown
<1>3. CASE Prune
  BY <1>3, <1>0 DEF Prune, Victims, Preferred, Prunable, Stored, sweepVars
<1>4. CASE Collect \/ ClearTable \/ ClearIds
  BY <1>4, <1>0 DEF Collect, ClearTable, ClearIds, Stored, lostVars
<1>5. CASE UNCHANGED <<sweepVars, lostVars>>
  BY <1>5 DEF sweepVars, lostVars
<1>6. ASSUME NEW c \in Calls,
             Allocate(c) \/ Abandon(c) \/ Spawn(c) \/ WatcherEnds(c) \/ Process(c) \/ Reader(c)
      PROVE  UNCHANGED <<sweepVars, lostVars>>
  BY <1>6 DEF Allocate, Abandon, Spawn, WatcherEnds, Process, Output, Exit,
     DescendantEnds, Reader, Read, Finish
<1>7. PruneRaises \/ TouchWrite \/ Look \/ Answer \/ CloseStreams \/ Emit
         \/ (\E i \in Ids : TouchRead(i)) \/ UNCHANGED vars
         => UNCHANGED <<sweepVars, lostVars>>
  BY DEF PruneRaises, TouchWrite, Look, Answer, CloseStreams, Emit, TouchRead, vars
<1> QED
  BY <1>1, <1>2, <1>3, <1>4, <1>5, <1>6, <1>7 DEF Next, Handler, Loop

\* The variables keep their types, in particular a buffer is a sequence of
\* bytes however often it overflows.
THEOREM TypeCorrect == Spec => []UnifiedExecTypeOK
<1>1. Init => UnifiedExecTypeOK
  <2> SUFFICES ASSUME Init PROVE UnifiedExecTypeOK
    OBVIOUS
  <2>1. TableTypes
    BY DEF Init, TableTypes
  <2>2. LoopTypes /\ LossTypes
    BY DEF Init, LoopTypes, LossTypes
  <2>3. ProcessTypes
    BY DEF Init, ProcessTypes
  <2> QED BY <2>1, <2>2, <2>3 DEF UnifiedExecTypeOK
<1>2. UInv /\ UnifiedExecTypeOK /\ [Next]_vars => UnifiedExecTypeOK'
  BY TableTypesStep, LoopTypesStep, ProcessTypesStep, LossTypesStep DEF
     UnifiedExecTypeOK
<1> QED
  BY <1>1, <1>2, UInit, UStep, PTL DEF Spec
-----------------------------------------------------------------------------
(***************************************************************************)
(* What the answers report                                                 *)
(***************************************************************************)

Elements(s)   == {s[n] : n \in 1 .. Len(s)}
Increasing(s) == \A m, n \in 1 .. Len(s) : m < n => s[m] < s[n]

\* What was reported and what is buffered is in order, and every byte read is
\* reported, buffered or dropped.
InOrder(p) ==
    /\ Increasing(got[p]) /\ Increasing(buffer[p])
    /\ \A x \in Elements(got[p]), y \in Elements(buffer[p]) : x < y
Accounted(p) ==
    /\ read[p] <= made[p]
    /\ Elements(got[p]) \cup Elements(buffer[p]) \cup omitted[p] = 1 .. read[p]
    /\ (Elements(got[p]) \cup Elements(buffer[p])) \cap omitted[p] = {}
BytesAreKept == \A p \in Calls : InOrder(p) /\ Accounted(p)

\* The loop holds a process that it handles, stored or not.
Handled == pc \in {"store", "touch"} \/ Following
Reachable(p) == (\E i \in Ids : entry[i] = p) \/ (p = on /\ Handled)

\* As long as a process can be reached its reader is not cut short: only a
\* released process has its streams closed, and a prune never releases the
\* process it makes room for.
DoneIsDrained ==
    \A p \in Calls : reader[p] = "done" /\ Reachable(p) =>
        child[p] = "exited" /\ ~ held[p] /\ read[p] = made[p]
ClosingIsGone == closing # None => pc = "close" /\ ~ Reachable(closing)
NewestIsKept  == pc = "prune" => newer[at] = {}
CompleteIsOver ==
    pc = "answer" /\ complete => buffer[on] = <<>> /\ reader[on] = "done"

DInv == DoneIsDrained /\ ClosingIsGone /\ NewestIsKept /\ CompleteIsOver

\* Elements of sequences put together.
LEMMA ElementsOfConcat ==
  ASSUME NEW s \in Seq(Nat), NEW t \in Seq(Nat)
  PROVE  Elements(s \o t) = Elements(s) \cup Elements(t)
<1>1. ASSUME NEW x \in Elements(s) PROVE x \in Elements(s \o t)
  <2>1. PICK n \in 1 .. Len(s) : x = s[n]
    BY <1>1 DEF Elements
  <2>2. n \in 1 .. Len(s \o t) /\ (s \o t)[n] = x
    BY <2>1
  <2> QED BY <2>2 DEF Elements
<1>2. ASSUME NEW x \in Elements(t) PROVE x \in Elements(s \o t)
  <2>1. PICK n \in 1 .. Len(t) : x = t[n]
    BY <1>2 DEF Elements
  <2>2. n + Len(s) \in 1 .. Len(s \o t) /\ (s \o t)[n + Len(s)] = x
    BY <2>1
  <2> QED BY <2>2 DEF Elements
<1>3. ASSUME NEW x \in Elements(s \o t) PROVE x \in Elements(s) \cup Elements(t)
  <2>1. PICK n \in 1 .. Len(s) + Len(t) : x = (s \o t)[n]
    BY <1>3 DEF Elements
  <2>2. CASE n <= Len(s)
    BY <2>1, <2>2 DEF Elements
  <2>3. CASE ~ n <= Len(s)
    <3>1. n - Len(s) \in 1 .. Len(t) /\ x = t[n - Len(s)]
      BY <2>1, <2>3
    <3> QED BY <3>1 DEF Elements
  <2> QED BY <2>2, <2>3
<1> QED BY <1>1, <1>2, <1>3

\* An increasing sequence goes on with larger elements.
LEMMA IncreasingConcat ==
  ASSUME NEW s \in Seq(Nat), NEW t \in Seq(Nat), Increasing(s), Increasing(t),
         \A x \in Elements(s), y \in Elements(t) : x < y
  PROVE  Increasing(s \o t)
<1> SUFFICES ASSUME NEW m \in 1 .. Len(s) + Len(t), NEW n \in 1 .. Len(s) + Len(t), m < n
             PROVE  (s \o t)[m] < (s \o t)[n]
  BY DEF Increasing
<1>1. CASE n <= Len(s)
  BY <1>1 DEF Increasing
<1>2. CASE m <= Len(s) /\ ~ n <= Len(s)
  <2>1. m \in 1 .. Len(s) /\ n - Len(s) \in 1 .. Len(t)
    BY <1>2
  <2>2. s[m] \in Elements(s) /\ t[n - Len(s)] \in Elements(t)
    BY <2>1 DEF Elements
  <2>3. (s \o t)[m] = s[m] /\ (s \o t)[n] = t[n - Len(s)]
    BY <1>2, <2>1
  <2> QED BY <2>2, <2>3
<1>3. CASE ~ m <= Len(s)
  <2>1. m - Len(s) \in 1 .. Len(t) /\ n - Len(s) \in 1 .. Len(t) /\ m - Len(s) < n - Len(s)
    BY <1>3
  <2>2. t[m - Len(s)] < t[n - Len(s)]
    BY <2>1 DEF Increasing
  <2> QED BY <1>3, <2>1, <2>2
<1> QED BY <1>1, <1>2, <1>3

\* A part of an increasing sequence.
LEMMA IncreasingPart ==
  ASSUME NEW s \in Seq(Nat), Increasing(s), NEW a \in 1 .. Len(s) + 1, NEW b \in 0 .. Len(s)
  PROVE  /\ SubSeq(s, a, b) \in Seq(Nat) /\ Increasing(SubSeq(s, a, b))
         /\ Elements(SubSeq(s, a, b)) = {s[n] : n \in a .. b}
<1> DEFINE t == SubSeq(s, a, b)
<1>1. /\ t \in Seq(Nat) /\ Len(t) = IF a <= b THEN b - a + 1 ELSE 0
      /\ \A n \in 1 .. Len(t) : t[n] = s[a + n - 1]
  <2>1. \A n \in a .. b : s[n] \in Nat
    OBVIOUS
  <2> QED BY <2>1, SubSeqProperties
<1> HIDE DEF t
<1>2. Increasing(t)
  <2> SUFFICES ASSUME NEW m \in 1 .. Len(t), NEW n \in 1 .. Len(t), m < n PROVE t[m] < t[n]
    BY DEF Increasing
  <2>1. a + m - 1 \in 1 .. Len(s) /\ a + n - 1 \in 1 .. Len(s) /\ a + m - 1 < a + n - 1
    BY <1>1
  <2> QED BY <1>1, <2>1 DEF Increasing
<1>3. Elements(t) = {s[n] : n \in a .. b}
  <2>1. ASSUME NEW n \in 1 .. Len(t) PROVE a + n - 1 \in a .. b /\ t[n] = s[a + n - 1]
    <3>1. a <= b /\ Len(t) = b - a + 1
      BY <1>1
    <3>2. a + n - 1 \in a .. b
      BY <3>1
    <3> QED BY <1>1, <3>2
  <2>2. ASSUME NEW n \in a .. b PROVE n - a + 1 \in 1 .. Len(t) /\ t[n - a + 1] = s[n]
    <3>1. a <= b /\ Len(t) = b - a + 1
      BY <1>1
    <3>2. n - a + 1 \in 1 .. Len(t) /\ a + (n - a + 1) - 1 = n
      BY <3>1
    <3>3. t[n - a + 1] = s[a + (n - a + 1) - 1]
      BY <1>1, <3>2
    <3> QED BY <3>2, <3>3
  <2>3. ASSUME NEW x \in Elements(t) PROVE x \in {s[n] : n \in a .. b}
    BY <2>1, <2>3 DEF Elements
  <2>4. ASSUME NEW n \in a .. b PROVE s[n] \in Elements(t)
    BY <2>2, <2>4 DEF Elements
  <2> QED BY <2>3, <2>4
<1> QED BY <1>1, <1>2, <1>3 DEF t

LEMMA SingleElement ==
  ASSUME NEW b \in Nat
  PROVE  <<b>> \in Seq(Nat) /\ Increasing(<<b>>) /\ Elements(<<b>>) = {b}
BY DEF Increasing, Elements

\* push_chunk keeps the order, and loses at most the byte it drops.
LEMMA PushKeeps ==
  ASSUME NEW s \in Seq(Nat), NEW b \in Nat, Increasing(s), \A x \in Elements(s) : x < b
  PROVE  /\ Increasing(Push(s, b))
         /\ Len(s) < HeadBudget + TailBudget => Elements(Push(s, b)) = Elements(s) \cup {b}
         /\ ~ Len(s) < HeadBudget + TailBudget =>
               /\ s[HeadBudget + 1] \in Elements(s)
               /\ Elements(Push(s, b)) = (Elements(s) \ {s[HeadBudget + 1]}) \cup {b}
<1>1. CASE Len(s) < HeadBudget + TailBudget
  <2>1. Push(s, b) = s \o <<b>>
    BY <1>1, AppendIsConcat DEF Push
  <2>2. /\ <<b>> \in Seq(Nat) /\ Increasing(<<b>>) /\ Elements(<<b>>) = {b}
    BY SingleElement
  <2>3. Increasing(s \o <<b>>) /\ Elements(s \o <<b>>) = Elements(s) \cup {b}
    BY <2>2, ElementsOfConcat, IncreasingConcat
  <2> QED BY <1>1, <2>1, <2>3
<1>2. CASE ~ Len(s) < HeadBudget + TailBudget
  <2> DEFINE k == HeadBudget + 1
             front == SubSeq(s, 1, HeadBudget)
             back == SubSeq(s, k + 1, Len(s))
  <2>1. HeadBudget \in 0 .. Len(s) /\ k \in 1 .. Len(s) /\ k + 1 \in 1 .. Len(s) + 1
    BY <1>2, CallsAssumption
  <2>2. /\ front \in Seq(Nat) /\ Increasing(front)
        /\ Elements(front) = {s[n] : n \in 1 .. HeadBudget}
        /\ back \in Seq(Nat) /\ Increasing(back)
        /\ Elements(back) = {s[n] : n \in k + 1 .. Len(s)}
    <3>1. 1 \in 1 .. Len(s) + 1 /\ Len(s) \in 0 .. Len(s)
      BY <2>1
    <3> HIDE DEF k
    <3> QED BY <2>1, <3>1, IncreasingPart
  <2>3. Push(s, b) = (front \o back) \o <<b>>
    <3>1. k + 1 = HeadBudget + 2
      BY CallsAssumption
    <3> HIDE DEF k
    <3> QED BY <1>2, <3>1 DEF Push
  <2> HIDE DEF front, back
  <2>4. \A m, n \in 1 .. Len(s) : m < n => s[m] < s[n] /\ s[m] \in Nat /\ s[n] \in Nat
    BY DEF Increasing
  <2>5. \A x \in Elements(front), y \in Elements(back) : x < y
    <3> SUFFICES ASSUME NEW m \in 1 .. HeadBudget, NEW n \in k + 1 .. Len(s) PROVE s[m] < s[n]
      BY <2>2
    <3>1. m \in 1 .. Len(s) /\ n \in 1 .. Len(s) /\ m < n
      BY <2>1
    <3> QED BY <2>4, <3>1
  <2>6. Elements(front) \cup Elements(back) = Elements(s) \ {s[k]}
    <3>1. ASSUME NEW n \in 1 .. Len(s), n # k PROVE s[n] # s[k]
      BY <2>1, <2>4, <3>1
    <3>2. \A n \in 1 .. Len(s) : n # k <=> n \in 1 .. HeadBudget \/ n \in k + 1 .. Len(s)
      BY <2>1
    <3>3. 1 .. HeadBudget \subseteq 1 .. Len(s) /\ k + 1 .. Len(s) \subseteq 1 .. Len(s)
      BY <2>1
    <3> HIDE DEF k
    <3> QED BY <2>2, <3>1, <3>2, <3>3 DEF Elements
  <2>7. front \o back \in Seq(Nat) /\ Increasing(front \o back)
        /\ Elements(front \o back) = Elements(s) \ {s[k]}
    <3>1. front \o back \in Seq(Nat)
      BY <2>2, ConcatProperties
    <3>2. Increasing(front \o back)
      BY <2>2, <2>5, IncreasingConcat
    <3>3. Elements(front \o back) = Elements(front) \cup Elements(back)
      BY <2>2, ElementsOfConcat
    <3> QED BY <2>6, <3>1, <3>2, <3>3
  <2>8. Increasing((front \o back) \o <<b>>)
        /\ Elements((front \o back) \o <<b>>) = (Elements(s) \ {s[k]}) \cup {b}
    <3> DEFINE u == front \o back
               v == <<b>>
    <3>1. /\ u \in Seq(Nat) /\ Increasing(u) /\ Elements(u) = Elements(s) \ {s[k]}
          /\ v \in Seq(Nat) /\ Increasing(v) /\ Elements(v) = {b}
      BY <2>7, SingleElement
    <3> HIDE DEF u, v
    <3>2. \A x \in Elements(u), y \in Elements(v) : x < y
      BY <3>1
    <3>3. Increasing(u \o v) /\ Elements(u \o v) = (Elements(s) \ {s[k]}) \cup {b}
      BY <3>1, <3>2, ElementsOfConcat, IncreasingConcat
    <3> QED BY <3>3 DEF u, v
  <2>9. s[k] \in Elements(s)
    BY <2>1 DEF Elements
  <2> QED BY <1>2, <2>3, <2>8, <2>9
<1> QED BY <1>1, <1>2

\* Bytes are written, read, dropped and reported in order.
LEMMA BytesStep ==
  UInv /\ UnifiedExecTypeOK /\ BytesAreKept /\ [Next]_vars => BytesAreKept'
<1> SUFFICES ASSUME UInv, ProcessTypes, BytesAreKept, [Next]_vars PROVE BytesAreKept'
  BY DEF UnifiedExecTypeOK
<1>0. /\ made \in [Calls -> Nat] /\ read \in [Calls -> Nat] /\ omitted \in [Calls -> SUBSET Nat]
      /\ buffer \in [Calls -> Seq(Nat)] /\ got \in [Calls -> Seq(Nat)]
  BY DEF ProcessTypes
<1>1. ASSUME NEW p \in Calls, Output(p) PROVE BytesAreKept'
  <2>1. made' = [made EXCEPT ![p] = @ + 1] /\ UNCHANGED <<read, buffer, got, omitted>>
    BY <1>1 DEF Output
  <2>2. \A q \in Calls : made[q] <= made'[q] /\ made[q] \in Nat /\ made'[q] \in Nat
    BY <1>0, <2>1
  <2>3. ASSUME NEW q \in Calls PROVE InOrder(q)' /\ Accounted(q)'
    <3>1. InOrder(q) /\ Accounted(q)
      BY DEF BytesAreKept
    <3>2. InOrder(q)'
      BY <2>1, <3>1 DEF InOrder, Elements, Increasing
    <3>3. read[q] \in Nat /\ read[q] <= made'[q]
      BY <1>0, <2>2, <3>1 DEF Accounted
    <3>4. Accounted(q)'
      BY <2>1, <3>1, <3>3 DEF Accounted, Elements
    <3> QED BY <3>2, <3>4
  <2> QED BY <2>3 DEF BytesAreKept
<1>2. ASSUME NEW p \in Calls, Read(p) PROVE BytesAreKept'
  <2> DEFINE b == read[p] + 1
             full == ~ Len(buffer[p]) < HeadBudget + TailBudget
             oldest == buffer[p][HeadBudget + 1]
  <2>1. /\ read[p] < made[p] /\ read' = [read EXCEPT ![p] = b]
        /\ buffer' = [buffer EXCEPT ![p] = Push(buffer[p], b)]
        /\ omitted' = IF ~ full THEN omitted ELSE [omitted EXCEPT ![p] = @ \cup {oldest}]
        /\ UNCHANGED <<made, got>>
    BY <1>2 DEF Read
  <2>2. InOrder(p) /\ Accounted(p)
    BY DEF BytesAreKept
  <2>3. /\ b \in Nat /\ buffer[p] \in Seq(Nat) /\ 1 .. b = (1 .. read[p]) \cup {b}
        /\ b <= made[p] /\ \A x \in 1 .. read[p] : x < b
    BY <1>0, <2>1
  <2>4. \A x \in Elements(got[p]) \cup Elements(buffer[p]) \cup omitted[p] : x < b
    BY <2>2, <2>3 DEF Accounted
  <2>5. /\ read'[p] = b /\ buffer'[p] = Push(buffer[p], b) /\ got'[p] = got[p] /\ made'[p] = made[p]
        /\ omitted'[p] = IF ~ full THEN omitted[p] ELSE omitted[p] \cup {oldest}
    BY <1>0, <2>1
  <2> HIDE DEF b, oldest
  <2>6. /\ Increasing(Push(buffer[p], b))
        /\ ~ full => Elements(Push(buffer[p], b)) = Elements(buffer[p]) \cup {b}
        /\ full => /\ oldest \in Elements(buffer[p])
                   /\ Elements(Push(buffer[p], b)) = (Elements(buffer[p]) \ {oldest}) \cup {b}
    <3>1. Increasing(buffer[p]) /\ \A x \in Elements(buffer[p]) : x < b
      BY <2>2, <2>4 DEF InOrder
    <3> QED BY <2>3, <3>1, PushKeeps DEF oldest
  <2> HIDE DEF full
  <2> DEFINE before == Elements(buffer[p])
             now == Elements(Push(buffer[p], b))
  <2>7. /\ \A x \in Elements(got[p]), y \in before : x < y /\ y # x
        /\ Elements(got[p]) \cup before \cup omitted[p] = 1 .. read[p]
        /\ (Elements(got[p]) \cup before) \cap omitted[p] = {}
        /\ Elements(got[p]) \subseteq Nat /\ before \subseteq Nat
    <3>1. Elements(got[p]) \cup before \cup omitted[p] = 1 .. read[p]
      BY <2>2 DEF Accounted
    <3>2. Elements(got[p]) \subseteq Nat /\ before \subseteq Nat
      BY <3>1
    <3>3. \A x \in Elements(got[p]), y \in before : x < y
      BY <2>2 DEF InOrder
    <3>4. (Elements(got[p]) \cup before) \cap omitted[p] = {}
      BY <2>2 DEF Accounted
    <3> HIDE DEF before
    <3>5. \A x \in Elements(got[p]), y \in before : y # x
      BY <3>2, <3>3
    <3> QED BY <3>1, <3>2, <3>3, <3>4, <3>5
  <2>8. b \notin Elements(got[p]) \cup before \cup omitted[p]
    BY <2>3, <2>4
  <2>9. now \subseteq before \cup {b}
    BY <2>6
  <2>10. InOrder(p)'
    <3>1. Increasing(got[p])
      BY <2>2 DEF InOrder
    <3>2. \A x \in Elements(got[p]), y \in now : x < y
      BY <2>4, <2>7, <2>9
    <3> QED BY <2>5, <2>6, <3>1, <3>2 DEF InOrder
  <2>11. Accounted(p)'
    <3>1. CASE ~ full
      <4>1. now = before \cup {b} /\ omitted'[p] = omitted[p]
        BY <2>5, <2>6, <3>1
      <4> HIDE DEF now, before
      <4>2. Elements(got[p]) \cup now \cup omitted[p] = 1 .. b
        BY <2>3, <2>7, <4>1
      <4>3. (Elements(got[p]) \cup now) \cap omitted[p] = {}
        BY <2>7, <2>8, <4>1
      <4> QED BY <2>3, <2>5, <4>1, <4>2, <4>3 DEF Accounted, now
    <3>2. CASE full
      <4>1. /\ now = (before \ {oldest}) \cup {b} /\ oldest \in before
            /\ omitted'[p] = omitted[p] \cup {oldest}
        BY <2>5, <2>6, <3>2
      <4> HIDE DEF now, before
      <4>2. Elements(got[p]) \cup now \cup omitted'[p] = 1 .. b
        BY <2>3, <2>7, <4>1
      <4>3. oldest # b /\ oldest \notin Elements(got[p])
        BY <2>7, <2>8, <4>1
      <4>4. (Elements(got[p]) \cup now) \cap omitted'[p] = {}
        BY <2>7, <2>8, <4>1, <4>3
      <4> QED BY <2>3, <2>5, <4>2, <4>4 DEF Accounted, now
    <3> QED BY <3>1, <3>2
  <2>12. ASSUME NEW q \in Calls, q # p PROVE InOrder(q)' /\ Accounted(q)'
    <3>1. InOrder(q) /\ Accounted(q)
      BY DEF BytesAreKept
    <3>2. /\ read'[q] = read[q] /\ buffer'[q] = buffer[q] /\ got'[q] = got[q]
          /\ made'[q] = made[q] /\ omitted'[q] = omitted[q]
      BY <1>0, <2>1, <2>12
    <3> QED BY <3>1, <3>2 DEF InOrder, Accounted
  <2> QED BY <2>10, <2>11, <2>12 DEF BytesAreKept
<1>3. CASE Look
  <2>1. PICK p \in Calls : p = on
    BY <1>3 DEF Look, UInv, JobIsKnown, Following
  <2>2. /\ got' = [got EXCEPT ![p] = got[p] \o buffer[p]]
        /\ buffer' = [buffer EXCEPT ![p] = <<>>] /\ UNCHANGED <<made, read, omitted>>
    BY <1>3, <2>1 DEF Look
  <2>3. InOrder(p) /\ Accounted(p) /\ got[p] \in Seq(Nat) /\ buffer[p] \in Seq(Nat)
    BY <1>0, <2>1 DEF BytesAreKept
  <2>4. got'[p] = got[p] \o buffer[p] /\ buffer'[p] = <<>>
    BY <1>0, <2>1, <2>2
  <2>5. Elements(<<>>) = {} /\ Increasing(<<>>)
    BY DEF Elements, Increasing
  <2>6. Increasing(got[p] \o buffer[p])
        /\ Elements(got[p] \o buffer[p]) = Elements(got[p]) \cup Elements(buffer[p])
    BY <2>3, IncreasingConcat, ElementsOfConcat DEF InOrder
  <2>7. InOrder(p)'
    BY <2>4, <2>5, <2>6 DEF InOrder
  <2>8. Accounted(p)'
    BY <2>2, <2>3, <2>4, <2>5, <2>6 DEF Accounted
  <2>9. ASSUME NEW q \in Calls, q # p PROVE InOrder(q)' /\ Accounted(q)'
    <3>1. InOrder(q) /\ Accounted(q)
      BY DEF BytesAreKept
    <3>2. buffer'[q] = buffer[q] /\ got'[q] = got[q] /\ UNCHANGED <<made, read, omitted>>
      BY <1>0, <2>2, <2>9
    <3> QED BY <3>1, <3>2 DEF InOrder, Accounted
  <2> QED BY <2>7, <2>8, <2>9 DEF BytesAreKept
<1>4. CASE UNCHANGED <<made, read, buffer, got, omitted>>
  BY <1>4 DEF BytesAreKept, InOrder, Accounted, Elements, Increasing
<1>5. ASSUME NEW c \in Calls,
             Handler(c) \/ WatcherEnds(c) \/ Exit(c) \/ DescendantEnds(c) \/ Finish(c)
      PROVE  UNCHANGED <<made, read, buffer, got, omitted>>
  BY <1>5 DEF Handler, Allocate, Refuse, Abandon, Spawn, WatcherEnds, Exit,
     DescendantEnds, Finish, procVars
<1>6. Store \/ Prune \/ PruneRaises \/ TouchWrite \/ Answer \/ CloseStreams \/ Emit
      \/ Collect \/ ClearTable \/ ClearIds \/ (\E i \in Ids : TouchRead(i)) \/ UNCHANGED vars
      => UNCHANGED <<made, read, buffer, got, omitted>>
  BY DEF Store, Prune, PruneRaises, TouchWrite, Answer, CloseStreams, Emit, Collect,
     ClearTable, ClearIds, TouchRead, vars, procVars
<1> QED
  BY <1>1, <1>2, <1>3, <1>4, <1>5, <1>6 DEF Next, Loop, Process, Reader

\* A step that makes nothing reachable and touches no process.
LEMMA NothingNewReachable ==
  ASSUME DInv, UNCHANGED procVars, \A p \in Calls : Reachable(p)' => Reachable(p)
  PROVE  DoneIsDrained'
BY DEF DInv, DoneIsDrained, procVars

\* A step of the loop, and one of another thread, keep what is known of the
\* readers of reachable processes.
LEMMA LoopKeepsDrained ==
  ASSUME UInv, UnifiedExecTypeOK, DInv, Loop
  PROVE  DInv'
<1>0. /\ entry \in [Ids -> Calls \cup {None}] /\ newer \in [Ids -> SUBSET Ids]
      /\ closing \in Calls \cup {None} /\ reader \in [Calls -> {"none", "reading", "done"}]
      /\ buffer \in [Calls -> Seq(Nat)]
  BY DEF UnifiedExecTypeOK, TableTypes, LoopTypes, ProcessTypes
<1>00. \A i \in Ids : entry[i] # None => id[entry[i]] = i
  BY DEF UInv, StoredUnderOwnId
<1>1. CASE Store
  <2>1. /\ pc = "store" /\ pc' \in {"look", "prune"}
        /\ UNCHANGED <<at, on, closing, after, procVars>>
        /\ entry' = [entry EXCEPT ![at] = on] /\ at \in Ids /\ on \in Calls
        /\ newer' = [j \in Ids |-> IF j = at THEN {}
                                 ELSE IF entry[j] # None THEN newer[j] \cup {at} ELSE {}]
    BY <1>1 DEF Store, Write, UInv, JobIsKnown
  <2>2. \A p \in Calls : Reachable(p)' => Reachable(p)
    BY <1>0, <2>1 DEF Reachable, Handled, Following
  <2>3. newer'[at'] = {} /\ closing' = None
    BY <2>1 DEF DInv, ClosingIsGone
  <2> QED BY <2>1, <2>2, <2>3, NothingNewReachable
             DEF DInv, ClosingIsGone, NewestIsKept, CompleteIsOver
<1>2. CASE Prune
  <2>1. pc = "prune" /\ UNCHANGED <<at, on, complete, procVars>> /\ closing = None
    BY <1>2 DEF Prune, DInv, ClosingIsGone
  <2>2. on \in Calls /\ id[on] = at /\ at \in Ids
    BY <2>1 DEF UInv, JobIsKnown, Following
  <2>3. CASE pc' = "look" /\ UNCHANGED <<tableVars, closing, after, pruned>>
    <3>1. UNCHANGED entry
      BY <2>3 DEF tableVars
    <3>2. \A p \in Calls : Reachable(p)' => Reachable(p)
      BY <2>1, <2>3, <3>1 DEF Reachable, Handled, Following
    <3> QED BY <2>1, <2>3, <3>2, NothingNewReachable
               DEF DInv, ClosingIsGone, NewestIsKept, CompleteIsOver
  <2>4. ASSUME NEW i \in Victims, Release(i, "look") PROVE DInv'
    <3>1. i \in Ids /\ entry[i] # None /\ Cardinality(newer[i]) >= Protected
      BY DEF Victims, Preferred, Prunable, Stored
    <3>2. i # at
      <4>1. newer[at] = {} /\ Cardinality(newer[at]) = 0
        BY <2>1, FS_EmptySet DEF DInv, NewestIsKept
      <4>2. ~ 0 >= Protected
        BY CallsAssumption
      <4> QED BY <3>1, <4>1, <4>2
    <3>3. entry' = [entry EXCEPT ![i] = None] /\ entry[i] \in Calls /\ entry[i] # on
      BY <1>0, <1>00, <2>2, <2>4, <3>1, <3>2 DEF Release
    <3>4. \A p \in Calls : Reachable(p)' => Reachable(p) /\ p # entry[i]
      <4>1. \A j \in Ids : entry'[j] = IF j = i THEN None ELSE entry[j]
        BY <1>0, <3>3
      <4>2. \A j \in Ids : entry[j] = entry[i] => j = i
        BY <1>00, <3>1
      <4>3. ASSUME NEW p \in Calls, NEW j \in Ids, entry'[j] = p
            PROVE  entry[j] = p /\ p # entry[i]
        BY <3>1, <4>1, <4>2, <4>3, CallsAssumption
      <4>4. on \in Calls /\ on # entry[i] /\ Reachable(on)
        BY <2>1, <2>2, <3>3 DEF Reachable, Handled, Following
      <4> QED BY <2>1, <4>3, <4>4 DEF Reachable
    <3>5. \/ pc' = "close" /\ closing' = entry[i]
          \/ pc' = "look" /\ closing' = closing
      BY <2>4 DEF Release
    <3> QED BY <2>1, <3>3, <3>4, <3>5, NothingNewReachable
               DEF DInv, ClosingIsGone, NewestIsKept, CompleteIsOver
  <2> QED BY <1>2, <2>3, <2>4 DEF Prune
<1>3. CASE PruneRaises
  <2>1. pc = "prune" /\ Stored = {} /\ Release(at, "idle") /\ UNCHANGED procVars /\ on' = None
    BY <1>3 DEF PruneRaises, NoJob
  <2>2. at \in Ids /\ entry[at] = None /\ \A i \in Ids : entry[i] = None
    BY <2>1 DEF Stored, UInv, JobIsKnown, Following
  <2>3. pc' = "idle" /\ closing' = None /\ \A i \in Ids : entry'[i] = None
    BY <1>0, <2>1, <2>2 DEF Release, Exited, DInv, ClosingIsGone
  <2>4. \A p \in Calls : Reachable(p)' => Reachable(p)
    BY <2>1, <2>3, CallsAssumption DEF Reachable, Handled, Following
  <2> QED BY <2>1, <2>3, <2>4, NothingNewReachable
             DEF DInv, ClosingIsGone, NewestIsKept, CompleteIsOver
<1>4. CASE TouchWrite
  <2>1. /\ pc = "touch" /\ at \in Ids /\ on \in Calls /\ UNCHANGED <<closing, after, procVars>>
        /\ \/ pc' = "look" /\ UNCHANGED <<at, on>>
           \/ pc' = "idle" /\ on' = None
        /\ entry' = [entry EXCEPT ![at] = on]
    BY <1>4 DEF TouchWrite, Write, NoJob, UInv, JobIsKnown
  <2>2. \A p \in Calls : Reachable(p)' => Reachable(p)
    BY <1>0, <2>1 DEF Reachable, Handled, Following
  <2>3. closing' = None
    BY <2>1 DEF DInv, ClosingIsGone
  <2> QED BY <2>1, <2>2, <2>3, NothingNewReachable
             DEF DInv, ClosingIsGone, NewestIsKept, CompleteIsOver
<1>5. CASE Look
  <2>1. /\ pc = "look" /\ pc' \in {"look", "answer"} /\ on \in Calls
        /\ buffer' = [buffer EXCEPT ![on] = <<>>]
        /\ UNCHANGED <<entry, on, closing, after, child, held, made, read, reader>>
        /\ pc' = "answer" /\ complete' => reader[on] = "done"
    BY <1>5 DEF Look, Closed, tableVars, UInv, JobIsKnown, Following
  <2>2. \A p \in Calls : Reachable(p)' => Reachable(p)
    BY <2>1 DEF Reachable, Handled, Following
  <2>3. DoneIsDrained'
    BY <2>1, <2>2 DEF DInv, DoneIsDrained
  <2>4. closing' = None /\ buffer'[on] = <<>>
    BY <1>0, <2>1 DEF DInv, ClosingIsGone
  <2> QED BY <2>1, <2>3, <2>4 DEF DInv, ClosingIsGone, NewestIsKept, CompleteIsOver
<1>6. CASE Answer
  <2> DEFINE next == IF job = None THEN "idle" ELSE "emit"
  <2>1. pc = "answer" /\ on' = None /\ UNCHANGED procVars /\ at \in Ids
    BY <1>6 DEF Answer, NoJob, UInv, JobIsKnown, Following
  <2>2. CASE pc' = next /\ UNCHANGED <<tableVars, closing, after>>
    <3>1. UNCHANGED entry /\ closing' = None /\ pc' \in {"idle", "emit"}
      BY <2>1, <2>2 DEF tableVars, DInv, ClosingIsGone
    <3>2. \A p \in Calls : Reachable(p)' => Reachable(p)
      BY <2>1, <3>1 DEF Reachable, Handled, Following
    <3> QED BY <2>1, <3>1, <3>2, NothingNewReachable
               DEF DInv, ClosingIsGone, NewestIsKept, CompleteIsOver
  <2>3. CASE Release(at, next)
    <3>1. /\ entry' = [entry EXCEPT ![at] = None]
          /\ \/ /\ pc' = "close" /\ after' \in {"idle", "emit"}
                /\ closing' = entry[at] /\ entry[at] # None
             \/ pc' \in {"idle", "emit"} /\ closing' = closing
      BY <2>3 DEF Release, Exited
    <3>2. \A j \in Ids : entry'[j] = IF j = at THEN None ELSE entry[j]
      BY <1>0, <2>1, <3>1
    <3>3. \A p \in Calls : Reachable(p)' => \E j \in Ids : entry'[j] = p
      BY <2>1, <3>1, CallsAssumption DEF Reachable, Handled, Following
    <3>4. \A p \in Calls : Reachable(p)' => Reachable(p) /\ p # entry[at]
      <4>1. ASSUME NEW p \in Calls, NEW j \in Ids, entry'[j] = p
            PROVE  entry[j] = p /\ p # entry[at]
        <5>1. j # at /\ entry[j] = p /\ p # None
          BY <3>2, <4>1, CallsAssumption
        <5>2. id[p] = j
          BY <1>00, <5>1
        <5>3. entry[at] # None => id[entry[at]] = at
          BY <1>00, <2>1
        <5> QED BY <5>1, <5>2, <5>3
      <4> QED BY <3>3, <4>1 DEF Reachable
    <3>5. closing' # None => closing' = entry[at] /\ entry[at] \in Calls /\ pc' = "close"
      BY <1>0, <2>1, <3>1 DEF DInv, ClosingIsGone
    <3> QED BY <2>1, <3>1, <3>4, <3>5, NothingNewReachable
               DEF DInv, ClosingIsGone, NewestIsKept, CompleteIsOver
  <2> QED BY <1>6, <2>2, <2>3 DEF Answer
<1>7. CASE CloseStreams
  <2>1. /\ pc = "close" /\ pc' = after /\ after \in {"idle", "look", "emit"} /\ closing' = None
        /\ reader' = [reader EXCEPT ![closing] = "done"]
        /\ UNCHANGED <<entry, on, child, held, made, read>>
    BY <1>7 DEF CloseStreams, tableVars, UInv, JobIsKnown
  <2>2. \A p \in Calls : Reachable(p)' => Reachable(p)
    BY <2>1 DEF Reachable, Handled, Following
  <2>3. \A p \in Calls : p # closing => reader'[p] = reader[p]
    BY <1>0, <2>1
  <2>4. \A p \in Calls : Reachable(p) => p # closing
    BY CallsAssumption DEF DInv, ClosingIsGone
  <2>5. DoneIsDrained'
    BY <2>1, <2>2, <2>3, <2>4 DEF DInv, DoneIsDrained
  <2> QED BY <2>1, <2>5 DEF DInv, ClosingIsGone, NewestIsKept, CompleteIsOver
<1>8. CASE Emit
  <2>1. pc = "emit" /\ pc' = "idle" /\ on' = None /\ UNCHANGED <<entry, closing, procVars>>
    BY <1>8 DEF Emit, NoJob
  <2>2. \A p \in Calls : Reachable(p)' => Reachable(p)
    BY <2>1 DEF Reachable, Handled, Following
  <2>3. closing' = None
    BY <2>1 DEF DInv, ClosingIsGone
  <2> QED BY <2>1, <2>2, <2>3, NothingNewReachable
             DEF DInv, ClosingIsGone, NewestIsKept, CompleteIsOver
<1> QED BY <1>1, <1>2, <1>3, <1>4, <1>5, <1>6, <1>7, <1>8 DEF Loop

LEMMA OthersKeepDrained ==
  ASSUME UInv, UnifiedExecTypeOK, DInv,
         \/ \E c \in Calls : Handler(c) \/ WatcherEnds(c) \/ Process(c) \/ Reader(c)
         \/ \E i \in Ids : TouchRead(i)
         \/ Collect \/ ClearTable \/ ClearIds \/ UNCHANGED vars
  PROVE  DInv'
<1>0. /\ entry \in [Ids -> Calls \cup {None}] /\ newer \in [Ids -> SUBSET Ids]
      /\ child \in [Calls -> {"none", "running", "exited"}] /\ held \in [Calls -> BOOLEAN]
      /\ made \in [Calls -> Nat] /\ read \in [Calls -> Nat]
      /\ reader \in [Calls -> {"none", "reading", "done"}]
  BY DEF UnifiedExecTypeOK, TableTypes, LoopTypes, ProcessTypes
<1>00. \A i \in Ids : entry[i] # None => id[entry[i]] = i
  BY DEF UInv, StoredUnderOwnId
<1>1. ASSUME UNCHANGED <<entry, newer, loopVars, procVars>> PROVE DInv'
  <2>1. UNCHANGED <<entry, newer, pc, at, on, complete, closing, after, procVars>>
    BY <1>1 DEF loopVars
  <2>2. \A p \in Calls : Reachable(p)' <=> Reachable(p)
    BY <2>1 DEF Reachable, Handled, Following
  <2>3. ClosingIsGone' /\ NewestIsKept'
    BY <2>1 DEF DInv, ClosingIsGone, NewestIsKept, Reachable, Handled, Following
  <2>4. CompleteIsOver'
    BY <2>1 DEF DInv, CompleteIsOver, procVars
  <2> QED BY <2>1, <2>2, <2>3, <2>4, NothingNewReachable DEF DInv
<1>2. ASSUME NEW c \in Calls, Refuse(c) PROVE DInv'
  <2>1. PICK i \in Ids : i = id[c]
    BY <1>2 DEF Refuse, UInv, StoredUnderOwnId
  <2>2. pc = "idle" /\ Release(i, "idle") /\ UNCHANGED procVars /\ on' = on /\ closing = None
    BY <1>2, <2>1 DEF Refuse, DInv, ClosingIsGone
  <2>3. /\ entry' = [entry EXCEPT ![i] = None]
        /\ \/ pc' = "close" /\ closing' = entry[i] /\ entry[i] # None /\ after' = "idle"
           \/ pc' = "idle" /\ closing' = None
    BY <2>2 DEF Release, Exited
  <2>4. \A j \in Ids : entry'[j] = IF j = i THEN None ELSE entry[j]
    BY <1>0, <2>1, <2>3
  <2>5. \A p \in Calls : Reachable(p)' => Reachable(p) /\ p # entry[i]
    <3>1. ASSUME NEW p \in Calls, NEW j \in Ids, entry'[j] = p
          PROVE  entry[j] = p /\ p # entry[i]
      <4>1. j # i /\ entry[j] = p /\ p # None
        BY <2>4, <3>1, CallsAssumption
      <4>2. id[p] = j /\ (entry[i] # None => id[entry[i]] = i)
        BY <1>00, <4>1
      <4> QED BY <4>1, <4>2
    <3> QED BY <2>3, <3>1 DEF Reachable, Handled, Following
  <2>6. closing' # None => closing' \in Calls /\ closing' = entry[i] /\ pc' = "close"
    BY <1>0, <2>3
  <2>7. ClosingIsGone'
    BY <2>5, <2>6 DEF ClosingIsGone
  <2>8. NewestIsKept' /\ CompleteIsOver'
    BY <2>3 DEF NewestIsKept, CompleteIsOver
  <2> QED BY <2>2, <2>5, <2>7, <2>8, NothingNewReachable DEF DInv
<1>3. ASSUME NEW c \in Calls, Spawn(c) PROVE DInv'
  <2>1. /\ pc = "idle" /\ pc' = "store" /\ on' = c /\ UNCHANGED <<entry, closing>>
        /\ reader' = [reader EXCEPT ![c] = "reading"] /\ child' = [child EXCEPT ![c] = "running"]
        /\ UNCHANGED <<held, made, read>>
    BY <1>3 DEF Spawn, tableVars
  <2>2. ASSUME NEW p \in Calls, reader'[p] = "done", Reachable(p)'
        PROVE  child'[p] = "exited" /\ ~ held'[p] /\ read'[p] = made'[p]
    <3>1. p # c /\ reader[p] = "done" /\ child'[p] = child[p]
      BY <1>0, <2>1, <2>2
    <3>2. Reachable(p)
      BY <2>1, <2>2, <3>1 DEF Reachable
    <3> QED BY <2>1, <3>1, <3>2 DEF DInv, DoneIsDrained
  <2>3. closing' = None
    BY <2>1 DEF DInv, ClosingIsGone
  <2> QED BY <2>1, <2>2, <2>3 DEF DInv, DoneIsDrained, ClosingIsGone, NewestIsKept,
         CompleteIsOver
<1>4. ASSUME NEW i \in Ids, TouchRead(i) PROVE DInv'
  <2>1. /\ pc = "idle" /\ pc' = "touch" /\ on' = entry[i]
        /\ UNCHANGED <<entry, closing, after, procVars>>
    BY <1>4 DEF TouchRead, tableVars
  <2>2. \A p \in Calls : Reachable(p)' => Reachable(p)
    BY <2>1 DEF Reachable
  <2>3. closing' = None
    BY <2>1 DEF DInv, ClosingIsGone
  <2> QED BY <2>1, <2>2, <2>3, NothingNewReachable
             DEF DInv, ClosingIsGone, NewestIsKept, CompleteIsOver
<1>5. CASE ClearTable
  <2>1. /\ entry' = [j \in Ids |-> None] /\ newer' = [j \in Ids |-> {}]
        /\ UNCHANGED <<pc, at, on, complete, closing, after, procVars>>
    BY <1>5 DEF ClearTable, loopVars
  <2>2. \A p \in Calls : Reachable(p)' => Reachable(p)
    BY <2>1, CallsAssumption DEF Reachable, Handled, Following
  <2>3. closing \in Calls \cup {None}
    BY DEF UnifiedExecTypeOK, LoopTypes
  <2>4. ClosingIsGone'
    BY <2>1, <2>2, <2>3 DEF DInv, ClosingIsGone
  <2>5. pc = "prune" => at \in Ids
    BY DEF UInv, JobIsKnown, Following
  <2>6. NewestIsKept'
    BY <2>1, <2>5 DEF NewestIsKept
  <2>7. CompleteIsOver'
    BY <2>1 DEF DInv, CompleteIsOver, procVars
  <2> QED BY <2>1, <2>2, <2>4, <2>6, <2>7, NothingNewReachable DEF DInv
<1>6. ASSUME NEW q \in Calls, Process(q) \/ Reader(q) PROVE DInv'
  <2>1. UNCHANGED <<entry, newer, pc, at, on, complete, closing, after>>
    BY <1>6 DEF Process, Output, Exit, DescendantEnds, Reader, Read, Finish, loopVars,
       tableVars
  <2>2. \A p \in Calls : Reachable(p)' <=> Reachable(p)
    BY <2>1 DEF Reachable, Handled, Following
  <2>3. ClosingIsGone' /\ NewestIsKept'
    BY <2>1 DEF DInv, ClosingIsGone, NewestIsKept, Reachable, Handled, Following
  <2>4. CompleteIsOver'
    <3>1. \A p \in Calls : reader[p] = "done" => buffer'[p] = buffer[p] /\ reader'[p] = "done"
      BY <1>0, <1>6 DEF Process, Output, Exit, DescendantEnds, Reader, Read, Finish,
         UnifiedExecTypeOK, ProcessTypes
    <3>2. pc = "answer" => on \in Calls
      BY DEF UInv, JobIsKnown, Following
    <3> QED BY <2>1, <3>1, <3>2 DEF DInv, CompleteIsOver
  <2>5. DoneIsDrained'
    <3> SUFFICES ASSUME NEW p \in Calls, reader'[p] = "done", Reachable(p)
                 PROVE  child'[p] = "exited" /\ ~ held'[p] /\ read'[p] = made'[p]
      BY <2>2 DEF DoneIsDrained
    <3>1. reader[p] = "done" => child[p] = "exited" /\ ~ held[p] /\ read[p] = made[p]
      BY DEF DInv, DoneIsDrained
    <3>2. CASE Output(q)
      BY <1>0, <3>1, <3>2 DEF Output
    <3>3. CASE Exit(q)
      BY <1>0, <3>1, <3>3 DEF Exit
    <3>4. CASE DescendantEnds(q)
      BY <1>0, <3>1, <3>4 DEF DescendantEnds
    <3>5. CASE Read(q)
      BY <1>0, <3>1, <3>5 DEF Read
    <3>6. CASE Finish(q)
      BY <1>0, <3>1, <3>6 DEF Finish
    <3> QED BY <1>6, <3>2, <3>3, <3>4, <3>5, <3>6 DEF Process, Reader
  <2> QED BY <2>3, <2>4, <2>5 DEF DInv
<1>7. ASSUME NEW c \in Calls, Allocate(c) \/ Abandon(c) \/ WatcherEnds(c)
      PROVE  UNCHANGED <<entry, newer, loopVars, procVars>>
  BY <1>7 DEF Allocate, Abandon, WatcherEnds, tableVars
<1>8. Collect \/ ClearIds \/ UNCHANGED vars => UNCHANGED <<entry, newer, loopVars, procVars>>
  BY DEF Collect, ClearIds, vars, tableVars
<1> QED BY <1>1, <1>2, <1>3, <1>4, <1>5, <1>6, <1>7, <1>8 DEF Handler

\* The inductive invariant of the reports, on top of UInv and the types.
LEMMA ReportInv == Spec => [](UInv /\ UnifiedExecTypeOK /\ BytesAreKept /\ DInv)
<1>1. Init => BytesAreKept /\ DInv
  <2> SUFFICES ASSUME Init PROVE BytesAreKept /\ DInv
    OBVIOUS
  <2>1. ASSUME NEW p \in Calls PROVE InOrder(p) /\ Accounted(p)
    <3>1. got[p] = <<>> /\ buffer[p] = <<>> /\ omitted[p] = {} /\ read[p] = 0 /\ made[p] = 0
      BY DEF Init
    <3>2. Elements(<<>>) = {} /\ Increasing(<<>>)
      BY DEF Elements, Increasing
    <3> QED BY <3>1, <3>2 DEF InOrder, Accounted
  <2>2. DInv
    BY DEF Init, DInv, DoneIsDrained, ClosingIsGone, NewestIsKept, CompleteIsOver
  <2> QED BY <2>1, <2>2 DEF BytesAreKept
<1>2. UInv /\ UnifiedExecTypeOK /\ DInv /\ [Next]_vars => DInv'
  BY LoopKeepsDrained, OthersKeepDrained DEF Next
<1> QED BY <1>1, <1>2, UInit, UStep, TypeCorrect, BytesStep, PTL DEF Spec

\* An answer that saw the end of the output completes the report: the reader of
\* a process that can be reached is never cut short, the bytes it took are
\* reported once and in order, and only those the buffer dropped are missing.
THEOREM ReportsAreComplete == Spec => []ExitReportsAll
<1>1. UInv /\ UnifiedExecTypeOK /\ BytesAreKept /\ DInv => ExitReportsAll
  <2> SUFFICES ASSUME UInv, BytesAreKept, DInv PROVE ExitReportsAll
    OBVIOUS
  <2>1. \A p \in Calls : \A m, n \in 1 .. Len(got[p]) : m < n => got[p][m] < got[p][n]
    BY DEF BytesAreKept, InOrder, Increasing
  <2>2. ASSUME pc = "answer", complete
        PROVE  {got[on][n] : n \in 1 .. Len(got[on])} = 1 .. made[on] \ omitted[on]
    <3>1. PICK p \in Calls : p = on
      BY <2>2 DEF UInv, JobIsKnown, Following
    <3>2. buffer[p] = <<>> /\ read[p] = made[p]
      BY <2>2, <3>1 DEF DInv, CompleteIsOver, DoneIsDrained, Reachable, Handled, Following
    <3>3. Elements(got[p]) = 1 .. made[p] \ omitted[p]
      <4>1. Elements(<<>>) = {}
        BY DEF Elements
      <4>2. /\ Elements(got[p]) \cup Elements(<<>>) \cup omitted[p] = 1 .. made[p]
            /\ Elements(got[p]) \cap omitted[p] = {}
        BY <3>2 DEF BytesAreKept, Accounted
      <4> QED BY <4>1, <4>2
    <3> QED BY <3>1, <3>3 DEF Elements
  <2> QED BY <2>1, <2>2 DEF ExitReportsAll
<1> QED BY <1>1, ReportInv, PTL
=============================================================================
