-------------------------- MODULE ToolCallsProofs --------------------------
(***************************************************************************)
(* Proofs about ToolGate and ToolCalls for every finite set of calls, any  *)
(* of which may be parallel or wait for the runtime cancellation.          *)
(***************************************************************************)
EXTENDS ToolCalls, FiniteSetTheorems, TLAPS

-----------------------------------------------------------------------------
(***************************************************************************)
(* The gate.  The inductive invariant says that the counters count what    *)
(* the phases say, that an exclusive call inside is alone, and that nobody *)
(* is parked without someone left to notify it.                            *)
(***************************************************************************)

\* The inductive invariant.
GateInv == GateTypeOK /\ CountersExact /\ ExclusiveAlone /\ NoLostWakeup

\* The sets of calls the counters count are finite, so that a counter is
\* zero exactly when its set is empty.
LEMMA CountedSets ==
    ASSUME GateTypeOK
    PROVE  /\ IsFiniteSet(Readers) /\ IsFiniteSet(Waiting)
           /\ Cardinality(Readers) = 0 <=> Readers = {}
           /\ Cardinality(Waiting) = 0 <=> Waiting = {}
<1>1. Readers \subseteq Calls /\ Waiting \subseteq Calls
  BY DEF Readers, Waiting, In
<1>2. IsFiniteSet(Readers) /\ IsFiniteSet(Waiting)
  BY <1>1, CallsAssumption, FS_Subset
<1> QED
  BY <1>2, FS_EmptySet

\* Waking parked calls leaves a phase function and moves nobody but them.
LEMMA WakeFacts ==
    ASSUME NEW ph \in [Calls -> Phases]
    PROVE  /\ Wake(ph) \in [Calls -> Phases]
           /\ \A d \in Calls :
                 Wake(ph)[d] = IF ph[d] = "parked" THEN "notified" ELSE ph[d]
  BY DEF Wake, Phases

\* Initially the gate is open and nobody is at it.
LEMMA GateInitInv == GateInit => GateInv
<1> SUFFICES ASSUME GateInit PROVE GateInv
  OBVIOUS
<1>1. GateTypeOK
  BY DEF GateInit, GateTypeOK, Phases
<1>2. Readers = {} /\ Writers = {} /\ Waiting = {}
  BY DEF GateInit, Readers, Writers, Waiting, In
<1>3. CountersExact
  BY <1>2, FS_EmptySet DEF GateInit, CountersExact
<1>4. ExclusiveAlone /\ NoLostWakeup
  BY CallsAssumption DEF GateInit, ExclusiveAlone, NoLostWakeup, ExclusiveCalls
<1> QED
  BY <1>1, <1>3, <1>4 DEF GateInv

\* Every step preserves the invariant; one case per action.
LEMMA GateStepInv == GateInv /\ [GateNext]_gateVars => GateInv'
<1> SUFFICES ASSUME GateInv, [GateNext]_gateVars PROVE GateInv'
  OBVIOUS
<1> USE DEF GateInv
<1>0. /\ IsFiniteSet(Readers) /\ IsFiniteSet(Waiting)
      /\ readers = 0 <=> Readers = {}
      /\ waitingWriters = 0 <=> Waiting = {}
      /\ readers \in Nat /\ waitingWriters \in Nat /\ writer \in BOOLEAN
      /\ phase \in [Calls -> Phases] /\ ParallelCalls \subseteq Calls
  BY CountedSets, CallsAssumption DEF CountersExact, GateTypeOK
<1>1. ASSUME NEW c \in Calls, EnterParallel(c) PROVE GateInv'
  <2>1. /\ c \notin Readers /\ Readers' = Readers \cup {c}
        /\ Writers' = Writers /\ Waiting' = Waiting
    BY <1>0, <1>1 DEF EnterParallel, AtLoop, Readers, Writers, Waiting, In,
                      ExclusiveCalls, Phases
  <2>2. GateTypeOK'
    BY <1>0, <1>1 DEF EnterParallel, GateTypeOK, Phases
  <2>3. CountersExact'
    BY <1>0, <1>1, <2>1, FS_AddElement DEF EnterParallel, CountersExact
  <2>4. ExclusiveAlone'
    BY <1>0, <1>1, <2>1 DEF EnterParallel, ParallelBlocked, ExclusiveAlone,
         CountersExact, Writers, In, ExclusiveCalls
  <2>5. NoLostWakeup'
    BY <1>0, <1>1 DEF EnterParallel, NoLostWakeup, ParallelBlocked,
         ExclusiveBlocked, ExclusiveCalls
  <2> QED BY <2>2, <2>3, <2>4, <2>5
<1>2. ASSUME NEW c \in Calls, ParkParallel(c) PROVE GateInv'
  <2>1. Readers' = Readers /\ Writers' = Writers /\ Waiting' = Waiting
    BY <1>0, <1>2 DEF ParkParallel, AtLoop, Readers, Writers, Waiting, In,
                      ExclusiveCalls, Phases
  <2>2. GateTypeOK' /\ CountersExact'
    BY <1>0, <1>2, <2>1 DEF ParkParallel, GateTypeOK, CountersExact, Phases
  <2>3. ExclusiveAlone'
    BY <1>0, <1>2 DEF ParkParallel, ExclusiveAlone, In, ExclusiveCalls, AtLoop
  <2>4. NoLostWakeup'
    BY <1>0, <1>2 DEF ParkParallel, NoLostWakeup, ParallelBlocked,
         ExclusiveBlocked, ExclusiveCalls
  <2> QED BY <2>2, <2>3, <2>4
<1>3. ASSUME NEW c \in Calls, EnterExclusive(c) PROVE GateInv'
  <2> DEFINE ph == [phase EXCEPT ![c] = "inside"]
  <2>1. /\ ph \in [Calls -> Phases]
        /\ phase' \in [Calls -> Phases]
        /\ \A d \in Calls :
              phase'[d] = IF ph[d] = "parked" THEN "notified" ELSE ph[d]
    <3>1. ph \in [Calls -> Phases]
      BY <1>0 DEF Phases
    <3> HIDE DEF ph
    <3> QED BY <1>3, <3>1, WakeFacts DEF EnterExclusive, ph
  <2>2. Readers = {} /\ Writers = {}
    BY <1>0, <1>3 DEF EnterExclusive, ExclusiveBlocked, CountersExact
  <2>a. \A d \in Calls : phase'[d] = "inside" <=> d = c \/ phase[d] = "inside"
    BY <1>0, <2>1
  <2>b. Readers' = {} /\ Writers' = {c}
    BY <1>0, <1>3, <2>2, <2>a DEF EnterExclusive, Readers, Writers, In, ExclusiveCalls
  <2>3. Waiting' = Waiting \ {c} /\ (c \in Waiting <=> phase[c] = "notified")
    BY <1>0, <1>3, <2>1 DEF EnterExclusive, Waiting, In, ExclusiveCalls, AtLoop
  <2>4. waitingWriters' = Cardinality(Waiting')
    BY <1>0, <1>3, <2>3, FS_RemoveElement DEF EnterExclusive, CountersExact
  <2>5. waitingWriters' \in Nat
    BY <1>0, <2>3, <2>4, FS_RemoveElement, FS_CardinalityType
  <2>6. GateTypeOK' /\ CountersExact'
    BY <1>0, <1>3, <2>1, <2>2, <2>b, <2>4, <2>5
    DEF EnterExclusive, GateTypeOK, CountersExact
  <2>7. ExclusiveAlone'
    BY <1>0, <1>3, <2>1, <2>b DEF ExclusiveAlone, Readers, Writers, In, ExclusiveCalls
  <2>8. NoLostWakeup'
    BY <1>0, <1>3, <2>1 DEF EnterExclusive, NoLostWakeup, ExclusiveBlocked,
         ParallelBlocked, ExclusiveCalls
  <2> QED BY <2>6, <2>7, <2>8
<1>4. ASSUME NEW c \in Calls, ParkExclusive(c) PROVE GateInv'
  <2>1. /\ Readers' = Readers /\ Writers' = Writers
        /\ Waiting' = Waiting \cup {c}
        /\ (c \in Waiting <=> phase[c] = "notified")
    BY <1>0, <1>4 DEF ParkExclusive, AtLoop, Readers, Writers, Waiting, In,
                      ExclusiveCalls, Phases
  <2>2. waitingWriters' = Cardinality(Waiting')
    BY <1>0, <1>4, <2>1, FS_AddElement DEF ParkExclusive, CountersExact, AtLoop
  <2>3. GateTypeOK' /\ CountersExact'
    BY <1>0, <1>4, <2>1, <2>2 DEF ParkExclusive, GateTypeOK, CountersExact, Phases
  <2>4. ExclusiveAlone'
    BY <1>0, <1>4 DEF ParkExclusive, ExclusiveAlone, In, ExclusiveCalls, AtLoop
  <2>5. waitingWriters' > 0
    BY <1>0, <2>1, <2>2, FS_AddElement, FS_CardinalityType, FS_EmptySet
  <2>6. NoLostWakeup'
    BY <1>0, <1>4, <2>5 DEF ParkExclusive, NoLostWakeup, ParallelBlocked,
         ExclusiveBlocked, ExclusiveCalls
  <2> QED BY <2>3, <2>4, <2>6
<1>5. ASSUME NEW c \in Calls, LeaveParallel(c) PROVE GateInv'
  <2> DEFINE left == [phase EXCEPT ![c] = "gone"]
  <2>1. /\ left \in [Calls -> Phases]
        /\ phase' \in [Calls -> Phases]
        /\ \A d \in Calls :
              phase'[d] = IF readers = 1 /\ left[d] = "parked" THEN "notified"
                                                              ELSE left[d]
    <3>1. left \in [Calls -> Phases]
      BY <1>0 DEF Phases
    <3> HIDE DEF left
    <3> QED BY <1>5, <3>1, WakeFacts DEF LeaveParallel, left
  <2>2. c \in Readers /\ Readers' = Readers \ {c}
    BY <1>0, <1>5, <2>1 DEF LeaveParallel, Readers, In
  <2>3. Writers = {}
    BY <1>0, <2>2 DEF ExclusiveAlone, Readers, Writers, In, ExclusiveCalls
  <2>4. Writers' = Writers /\ Waiting' = Waiting
    BY <1>0, <1>5, <2>1 DEF LeaveParallel, Writers, Waiting, In, ExclusiveCalls
  <2>5. readers' = Cardinality(Readers') /\ readers' \in Nat
    BY <1>0, <1>5, <2>2, FS_RemoveElement, FS_CardinalityType
    DEF LeaveParallel, CountersExact
  <2>6. GateTypeOK' /\ CountersExact'
    BY <1>0, <1>5, <2>1, <2>4, <2>5 DEF LeaveParallel, GateTypeOK, CountersExact
  <2>7. ExclusiveAlone'
    BY <1>0, <2>3, <2>4 DEF ExclusiveAlone, Writers, In, ExclusiveCalls
  <2>8. CASE readers = 1
    <3>1. \A d \in Calls : phase'[d] # "parked"
      BY <1>0, <2>1, <2>8
    <3> QED BY <1>0, <2>6, <2>7, <3>1 DEF NoLostWakeup, ExclusiveCalls
  <2>9. CASE readers # 1
    <3>1. readers' > 0 /\ phase' = left
      BY <1>0, <1>5, <2>2, <2>9 DEF LeaveParallel
    <3>2. NoLostWakeup'
      BY <1>0, <1>5, <3>1 DEF LeaveParallel, NoLostWakeup, ParallelBlocked,
           ExclusiveBlocked, ExclusiveCalls
    <3> QED BY <2>6, <2>7, <3>2
  <2> QED BY <2>8, <2>9
<1>6. ASSUME NEW c \in Calls, LeaveExclusive(c) PROVE GateInv'
  <2> DEFINE left == [phase EXCEPT ![c] = "gone"]
  <2>1. /\ left \in [Calls -> Phases]
        /\ phase' \in [Calls -> Phases]
        /\ \A d \in Calls :
              phase'[d] = IF left[d] = "parked" THEN "notified" ELSE left[d]
    <3>1. left \in [Calls -> Phases]
      BY <1>0 DEF Phases
    <3> HIDE DEF left
    <3> QED BY <1>6, <3>1, WakeFacts DEF LeaveExclusive, left
  <2>2. Readers = {} /\ Writers = {c}
    BY <1>0, <1>6 DEF LeaveExclusive, ExclusiveAlone, Readers, Writers, In,
                      ExclusiveCalls
  <2>3. Readers' = {} /\ Writers' = {} /\ Waiting' = Waiting
    BY <1>0, <1>6, <2>1, <2>2 DEF LeaveExclusive, Readers, Writers, Waiting, In,
                                  ExclusiveCalls
  <2>4. GateTypeOK' /\ CountersExact'
    BY <1>0, <1>6, <2>1, <2>2, <2>3 DEF LeaveExclusive, GateTypeOK, CountersExact
  <2>5. ExclusiveAlone'
    BY <1>0, <2>3 DEF ExclusiveAlone, Writers, In, ExclusiveCalls
  <2>6. NoLostWakeup'
    BY <1>0, <2>1 DEF NoLostWakeup, ExclusiveCalls
  <2> QED BY <2>4, <2>5, <2>6
<1>7. ASSUME NEW c \in Calls, InterruptParallel(c) PROVE GateInv'
  <2>1. Readers' = Readers /\ Writers' = Writers /\ Waiting' = Waiting
    BY <1>0, <1>7 DEF InterruptParallel, Readers, Writers, Waiting, In,
                      ExclusiveCalls, Phases
  <2>2. GateTypeOK' /\ CountersExact'
    BY <1>0, <1>7, <2>1 DEF InterruptParallel, GateTypeOK, CountersExact, Phases
  <2>3. ExclusiveAlone'
    BY <1>0, <1>7 DEF InterruptParallel, ExclusiveAlone, In, ExclusiveCalls
  <2>4. NoLostWakeup'
    BY <1>0, <1>7 DEF InterruptParallel, NoLostWakeup, ParallelBlocked,
         ExclusiveBlocked, ExclusiveCalls
  <2> QED BY <2>2, <2>3, <2>4
<1>8. ASSUME NEW c \in Calls, InterruptExclusive(c) PROVE GateInv'
  <2> DEFINE left == [phase EXCEPT ![c] = "gone"]
  <2>1. /\ left \in [Calls -> Phases]
        /\ phase' \in [Calls -> Phases]
        /\ \A d \in Calls :
              phase'[d] = IF left[d] = "parked" THEN "notified" ELSE left[d]
    <3>1. left \in [Calls -> Phases]
      BY <1>0 DEF Phases
    <3> HIDE DEF left
    <3> QED BY <1>8, <3>1, WakeFacts DEF InterruptExclusive, left
  <2>2. /\ Readers' = Readers /\ Writers' = Writers
        /\ c \in Waiting /\ Waiting' = Waiting \ {c}
    BY <1>0, <1>8, <2>1 DEF InterruptExclusive, Readers, Writers, Waiting, In,
                            ExclusiveCalls
  <2>3. waitingWriters' = Cardinality(Waiting') /\ waitingWriters' \in Nat
    BY <1>0, <1>8, <2>2, FS_RemoveElement, FS_CardinalityType
    DEF InterruptExclusive, CountersExact
  <2>4. GateTypeOK' /\ CountersExact'
    BY <1>0, <1>8, <2>1, <2>2, <2>3
    DEF InterruptExclusive, GateTypeOK, CountersExact
  <2>a. \A d \in Calls : phase'[d] = "inside" <=> phase[d] = "inside"
    BY <1>0, <1>8, <2>1 DEF InterruptExclusive
  <2>5. ExclusiveAlone'
    BY <1>0, <2>a DEF ExclusiveAlone, In, ExclusiveCalls
  <2>6. NoLostWakeup'
    BY <1>0, <2>1 DEF NoLostWakeup, ExclusiveCalls
  <2> QED BY <2>4, <2>5, <2>6
<1>9. CASE UNCHANGED gateVars
  BY <1>9 DEF gateVars, GateTypeOK, CountersExact, ExclusiveAlone, NoLostWakeup,
       Readers, Writers, Waiting, In, ParallelBlocked, ExclusiveBlocked
<1> QED
  BY <1>1, <1>2, <1>3, <1>4, <1>5, <1>6, <1>7, <1>8, <1>9
  DEF GateNext, Enter, Park, Leave, Interrupt

\* The inductive invariant holds in every behaviour of the gate.
THEOREM GateInvariance == GateSpec => []GateInv
  BY GateInitInv, GateStepInv, PTL DEF GateSpec

\* The variables keep their types: the counters never go negative.
THEOREM GateTypeCorrect == GateSpec => []GateTypeOK
  BY GateInvariance, PTL DEF GateInv

\* A tool that does not support parallel calls runs alone.
THEOREM ExclusiveRunsAlone == GateSpec => []ExclusiveAlone
  BY GateInvariance, PTL DEF GateInv

\* The counters never leak a reader, a writer or a waiting writer.
THEOREM CountersNeverLeak == GateSpec => []CountersExact
  BY GateInvariance, PTL DEF GateInv

\* No wake-up is lost.
THEOREM NoWakeupIsLost == GateSpec => []NoLostWakeup
  BY GateInvariance, PTL DEF GateInv

\* A parallel call enters only when no exclusive call waits.
THEOREM WritersPreferred == GateSpec => WriterPreference
<1>1. GateInv /\ [GateNext]_gateVars =>
        [\A c \in ParallelCalls :
            phase[c] # "inside" /\ phase'[c] = "inside" => Waiting = {}]_gateVars
  <2> SUFFICES ASSUME GateInv, GateNext, NEW p \in ParallelCalls,
                      phase[p] # "inside", phase'[p] = "inside"
               PROVE  Waiting = {}
    BY DEF gateVars
  <2>1. /\ phase \in [Calls -> Phases] /\ ParallelCalls \subseteq Calls
        /\ waitingWriters = 0 <=> Waiting = {}
        /\ waitingWriters \in Nat
    BY CountedSets, CallsAssumption DEF GateInv, GateTypeOK, CountersExact
  <2>2. ASSUME NEW c \in Calls, EnterParallel(c) PROVE Waiting = {}
    BY <2>1, <2>2 DEF EnterParallel, ParallelBlocked
  <2>3. ASSUME NEW c \in Calls, ~ EnterParallel(c),
               Enter(c) \/ Park(c) \/ Leave(c) \/ Interrupt(c)
        PROVE  phase'[p] # "inside"
    <3>1. CASE ParkParallel(c) \/ ParkExclusive(c) \/ InterruptParallel(c)
      BY <2>1, <3>1 DEF ParkParallel, ParkExclusive, InterruptParallel
    <3>2. CASE EnterExclusive(c)
      BY <2>1, <3>2 DEF EnterExclusive, Wake, ExclusiveCalls
    <3>3. CASE LeaveParallel(c) \/ LeaveExclusive(c) \/ InterruptExclusive(c)
      BY <2>1, <3>3 DEF LeaveParallel, LeaveExclusive, InterruptExclusive, Wake
    <3> QED BY <2>3, <3>1, <3>2, <3>3 DEF Enter, Park, Leave, Interrupt
  <2> QED BY <2>2, <2>3 DEF GateNext
<1> QED
  BY <1>1, GateInvariance, PTL DEF GateSpec, WriterPreference

\* The gate implements the shared/exclusive discipline: entering starts a
\* call, leaving finishes it, a cancelled wait gives it up, everything else
\* is a stuttering step.
THEOREM GateImplementsDiscipline == GateSpec => ImplementsDiscipline
<1> DEFINE act == In({"inside"})
           fin == In({"gone"})
<1>1. GateInit => Discipline!Init
  BY DEF GateInit, Discipline!Init, In
<1>2. GateInv /\ GateInv' /\ [GateNext]_gateVars => [Discipline!Next]_<<act, fin>>
  <2> SUFFICES ASSUME GateInv, GateInv', GateNext
               PROVE  Discipline!Next \/ UNCHANGED <<act, fin>>
    BY DEF gateVars, In
  <2>1. phase \in [Calls -> Phases]
    BY DEF GateInv, GateTypeOK
  <2>2. Discipline!Compatible(act')
    BY CallsAssumption DEF GateInv, ExclusiveAlone, Discipline!Compatible, In,
                           ExclusiveCalls, Conflicting
  <2>3. ASSUME NEW c \in Calls, Enter(c) PROVE Discipline!Start
    <3>1. c \in Calls \ (act \cup fin) /\ act' = act \cup {c} /\ fin' = fin
      <4>1. CASE EnterParallel(c)
        BY <2>1, <4>1 DEF EnterParallel, AtLoop, In
      <4>2. CASE EnterExclusive(c)
        BY <2>1, <4>2 DEF EnterExclusive, AtLoop, Wake, In
      <4> QED BY <2>3, <4>1, <4>2 DEF Enter
    <3> QED BY <2>2, <3>1 DEF Discipline!Start
  <2>4. ASSUME NEW c \in Calls, Park(c) PROVE UNCHANGED <<act, fin>>
    BY <2>1, <2>4 DEF Park, ParkParallel, ParkExclusive, AtLoop, In
  <2>5. ASSUME NEW c \in Calls, Leave(c) PROVE Discipline!Finish
    <3>1. c \in act /\ act' = act \ {c} /\ fin' = fin \cup {c}
      BY <2>1, <2>5 DEF Leave, LeaveParallel, LeaveExclusive, Wake, In
    <3> QED BY <3>1 DEF Discipline!Finish
  <2>6. ASSUME NEW c \in Calls, Interrupt(c) PROVE Discipline!GiveUp
    <3>1. c \in Calls \ (act \cup fin) /\ act' = act /\ fin' = fin \cup {c}
      BY <2>1, <2>6 DEF Interrupt, InterruptParallel, InterruptExclusive, Wake, In
    <3> QED BY <3>1 DEF Discipline!GiveUp
  <2> QED
    BY <2>3, <2>4, <2>5, <2>6 DEF GateNext, Discipline!Next
<1> QED
  BY <1>1, <1>2, GateInvariance, PTL
  DEF GateSpec, ImplementsDiscipline, Discipline!Spec, Discipline!absVars

-----------------------------------------------------------------------------
(***************************************************************************)
(* The calls.  All but the gate is local to a call: the inductive          *)
(* invariant ties the stage of the dispatch task to the phase at the gate, *)
(* the handler to the stage, and the claim of the outcome to what was      *)
(* reported.                                                               *)
(***************************************************************************)
Busy == {"entered", "running", "ran", "reporting"}

\* The dispatch task is inside the gate exactly while it dispatches.
PhaseFollowsStage(c) ==
    /\ stage[c] = "none" => phase[c] = "outside"
    /\ stage[c] = "queued" => phase[c] \in {"outside", "parked", "notified"}
    /\ stage[c] \in Busy <=> phase[c] = "inside"
    /\ stage[c] = "done" => phase[c] \in {"outside", "gone"}

\* A handler that settled or answered has no running task, and a task that is
\* being killed is awaited and has claimed nothing; one that survived the
\* cancellation was running by then.
HandlerFollowsStage(c) ==
    /\ handler[c] = "new" => stage[c] = "none"
    /\ stage[c] = "none" => handler[c] \in {"new", "replied"}
    /\ handler[c] = "replied" => stage[c] \in {"none", "done"}
    /\ handler[c] = "settling" => stage[c] = "done"
    /\ handler[c] = "awaitResult" => claimed[c]
    /\ killed[c] => handler[c] = "awaitKilled" /\ stage[c] # "done" /\ ~ claimed[c]
    /\ handler[c] = "awaitKilled" /\ ~ killed[c] =>
          stage[c] \in {"running", "ran", "reporting", "done"}

\* The task claimed the outcome and reported what it returns or raises.
Reported(c) ==
    /\ stage[c] \in {"reporting", "done"} /\ started[c]
    /\ \/ outcome[c] = "ok" /\ finishes[c] = <<"completed">>
       \/ outcome[c] = "error" /\ finishes[c] \in {<<"failed">>, <<"blocked">>}
       \/ outcome[c] = "fatal" /\ finishes[c] = <<"failed">>
       \/ outcome[c] = "hookTypeError"

\* Nobody has claimed the outcome or reported anything.
Unreported(c) ==
    /\ finishes[c] = <<>> /\ stage[c] # "reporting"
    /\ stage[c] \in {"none", "queued", "entered"} => ~ started[c]
    /\ stage[c] \in {"running", "ran"} => started[c]
    /\ stage[c] = "done" => \/ outcome[c] \in Errors /\ ~ started[c]
                            \/ outcome[c] = "cancelled" /\ handler[c] = "awaitKilled"

\* Before the answer, the flag says who reports.
ClaimDecides(c) ==
    handler[c] # "replied" =>
        IF handler[c] = "awaitAbort"
          THEN claimed[c] /\ finishes[c] = <<>>
          ELSE IF claimed[c] THEN Reported(c) ELSE Unreported(c)

\* ResponseMatchesLifecycle of one call.
Matches(c) ==
    handler[c] = "replied" =>
        /\ response[c] = "completed" => finishes[c] = <<"completed">>
        /\ response[c] = "aborted"   => finishes[c] = <<"aborted">>
        /\ response[c] = "failed"    =>
              finishes[c] \in IF started[c] THEN {<<"failed">>, <<"blocked">>} ELSE {<<>>}
        /\ response[c] = "raised" /\ outcome[c] = "fatal" =>
              finishes[c] = IF started[c] THEN <<"failed">> ELSE <<>>

CallInv(c) ==
    PhaseFollowsStage(c) /\ HandlerFollowsStage(c) /\ ClaimDecides(c) /\ Matches(c)

\* The inductive invariant.
CInv == CallsTypeOK /\ \A c \in Calls : CallInv(c)
-----------------------------------------------------------------------------
\* The call d is now at p; others are where they were, or were woken.
Moved(d, p) ==
    /\ phase' \in [Calls -> Phases]
    /\ phase'[d] = p
    /\ \A c \in Calls \ {d} : \/ phase'[c] = phase[c]
                              \/ phase[c] = "parked" /\ phase'[c] = "notified"

\* Moving one call and waking the parked ones does this.
LEMMA MoveAndWake ==
    ASSUME GateTypeOK, NEW d \in Calls, NEW p \in Phases \ {"parked"},
           \/ phase' = [phase EXCEPT ![d] = p]
           \/ phase' = Wake([phase EXCEPT ![d] = p])
    PROVE  Moved(d, p)
<1> DEFINE ph == [phase EXCEPT ![d] = p]
<1>1. /\ ph \in [Calls -> Phases] /\ ph[d] = p
      /\ \A c \in Calls \ {d} : ph[c] = phase[c]
  BY DEF GateTypeOK
<1>2. CASE phase' = ph
  BY <1>1, <1>2 DEF Moved
<1>3. CASE phase' = Wake(ph)
  <2> HIDE DEF ph
  <2>1. /\ Wake(ph) \in [Calls -> Phases]
        /\ \A c \in Calls : Wake(ph)[c] = IF ph[c] = "parked" THEN "notified" ELSE ph[c]
    BY <1>1 DEF Wake, Phases
  <2> QED
    BY <1>1, <1>3, <2>1 DEF Moved
<1> QED
  BY <1>2, <1>3

\* What the gate's operations do to the phases.
LEMMA PhasesMove ==
    ASSUME GateTypeOK, NEW d \in Calls
    PROVE  /\ Enter(d) => phase[d] \in {"outside", "notified"} /\ Moved(d, "inside")
           /\ Park(d) => phase[d] \in {"outside", "notified"} /\ Moved(d, "parked")
           /\ Leave(d) => phase[d] = "inside" /\ Moved(d, "gone")
           /\ Interrupt(d) => phase[d] \in {"parked", "notified"} /\ Moved(d, "gone")
<1>1. ASSUME Enter(d) PROVE phase[d] \in {"outside", "notified"} /\ Moved(d, "inside")
  BY <1>1, MoveAndWake DEF Enter, EnterParallel, EnterExclusive, AtLoop, Phases
<1>2. ASSUME Park(d) PROVE phase[d] \in {"outside", "notified"} /\ Moved(d, "parked")
  BY <1>2 DEF Park, ParkParallel, ParkExclusive, AtLoop, Phases, Moved, GateTypeOK
<1>3. ASSUME Leave(d) PROVE phase[d] = "inside" /\ Moved(d, "gone")
  BY <1>3, MoveAndWake DEF Leave, LeaveParallel, LeaveExclusive, Phases
<1>4. ASSUME Interrupt(d) PROVE phase[d] \in {"parked", "notified"} /\ Moved(d, "gone")
  BY <1>4, MoveAndWake DEF Interrupt, InterruptParallel, InterruptExclusive, Phases
<1> QED
  BY <1>1, <1>2, <1>3, <1>4
-----------------------------------------------------------------------------
\* Initially nothing has been called.
LEMMA CallsInitInv == Init => CInv
<1> SUFFICES ASSUME Init PROVE CInv
  OBVIOUS
<1>1. GateTypeOK
  BY GateInitInv DEF Init, GateInv
<1>2. finishes \in [Calls -> Seq(Finishes)]
  BY DEF Init
<1>3. CallsTypeOK
  BY <1>1, <1>2 DEF Init, CallsTypeOK, HandlerStates, Stages, Outcomes, Errors, Responses
<1>4. ASSUME NEW c \in Calls PROVE CallInv(c)
  BY <1>4 DEF Init, GateInit, CallInv, PhaseFollowsStage, HandlerFollowsStage,
     ClaimDecides, Unreported, Matches, Busy
<1> QED
  BY <1>3, <1>4 DEF CInv

\* Calls and their tasks use the gate through its operations only.
LEMMA StepsUseGate == [Next]_vars => [GateNext]_gateVars
<1> SUFFICES ASSUME [Next]_vars PROVE [GateNext]_gateVars
  OBVIOUS
<1>1. CASE CancelToken
  BY <1>1 DEF CancelToken
<1>2. ASSUME NEW c \in Calls, NoticeCancel(c) \/ HandlerStep(c) PROVE UNCHANGED gateVars
  BY <1>2 DEF NoticeCancel, HandlerStep, HandleCall, RaceWonByTask, Settle,
     RaceWonByCancel, Deliver
<1>3. ASSUME NEW c \in Calls, TaskStep(c) PROVE GateNext \/ UNCHANGED gateVars
  BY <1>3 DEF TaskStep, AtGate, RejectCall, StartTool, HookStopsTool, ToolReturns,
     ToolFails, ToolCompletes, EndTask, KillTask, SwallowCancel, GateNext
<1>4. CASE UNCHANGED vars
  BY <1>4 DEF vars
<1> QED
  BY <1>1, <1>2, <1>3, <1>4 DEF Next

\* Answers and reports keep the types.
LEMMA ReportTypes ==
    ASSUME CallsTypeOK, NEW c \in Calls, NEW f \in Finishes, Report(c, f)
    PROVE  /\ finishes' \in [Calls -> Seq(Finishes)]
           /\ finishes'[c] = Append(finishes[c], f)
           /\ \A d \in Calls \ {c} : finishes'[d] = finishes[d]
<1>1. finishes \in [Calls -> Seq(Finishes)]
  BY DEF CallsTypeOK
<1>2. Append(finishes[c], f) \in Seq(Finishes)
  BY <1>1
<1> QED
  BY <1>1, <1>2 DEF Report

LEMMA ReplyTypes ==
    ASSUME CallsTypeOK, NEW c \in Calls,
           \/ ReplyAborted(c)
           \/ ReplyWithResult(c) /\ UNCHANGED finishes
    PROVE  /\ handler' \in [Calls -> HandlerStates] /\ response' \in [Calls -> Responses]
           /\ finishes' \in [Calls -> Seq(Finishes)]
<1>1. ASSUME NEW r \in Responses, Reply(c, r)
      PROVE  handler' \in [Calls -> HandlerStates] /\ response' \in [Calls -> Responses]
  BY <1>1 DEF Reply, Goto, CallsTypeOK, HandlerStates
<1>2. CASE ReplyAborted(c)
  BY <1>1, <1>2, ReportTypes DEF ReplyAborted, Responses, Finishes
<1>3. CASE ReplyWithResult(c) /\ UNCHANGED finishes
  BY <1>1, <1>3 DEF ReplyWithResult, Responses, CallsTypeOK
<1> QED
  BY <1>2, <1>3

\* The types of the variables that are not the gate's.
LEMMA CallsStepTypes ==
    ASSUME CallsTypeOK, GateTypeOK', [Next]_vars
    PROVE  CallsTypeOK'
<1> USE DEF CallsTypeOK
<1>1. CASE CancelToken
  BY <1>1 DEF CancelToken
<1>2. ASSUME NEW c \in Calls, NoticeCancel(c) PROVE CallsTypeOK'
  BY <1>2 DEF NoticeCancel
<1>3. ASSUME NEW c \in Calls, HandleCall(c) PROVE CallsTypeOK'
  <2>1. CASE cancelled
    BY <1>3, <2>1, ReplyTypes DEF HandleCall
  <2>2. CASE ~ cancelled
    BY <1>3, <2>2 DEF HandleCall, Goto, HandlerStates, Stages
  <2> QED BY <2>1, <2>2
<1>4. ASSUME NEW c \in Calls, RaceWonByTask(c) PROVE CallsTypeOK'
  BY <1>4 DEF RaceWonByTask, Goto, HandlerStates
<1>5. ASSUME NEW c \in Calls, Settle(c) PROVE CallsTypeOK'
  BY <1>5, ReplyTypes DEF Settle
<1>6. ASSUME NEW c \in Calls, RaceWonByCancel(c) PROVE CallsTypeOK'
  BY <1>6 DEF RaceWonByCancel, Goto, HandlerStates
<1>7. ASSUME NEW c \in Calls, Deliver(c) PROVE CallsTypeOK'
  BY <1>7, ReplyTypes DEF Deliver
<1>8. ASSUME NEW c \in Calls, AtGate(c) \/ StartTool(c) \/ ToolReturns(c) PROVE CallsTypeOK'
  BY <1>8 DEF AtGate, StartTool, ToolReturns, handlerSide, Stages
<1>9. ASSUME NEW c \in Calls, RejectCall(c) \/ EndTask(c) \/ KillTask(c) PROVE CallsTypeOK'
  BY <1>9 DEF RejectCall, EndTask, KillTask, TaskEnds, handlerSide, Stages, Outcomes, Errors
<1>10. ASSUME NEW c \in Calls, HookStopsTool(c) \/ ToolFails(c) \/ ToolCompletes(c)
       PROVE CallsTypeOK'
  <2>1. ASSUME NEW f \in Finishes, Claim(c, f)
        PROVE  finishes' \in [Calls -> Seq(Finishes)] /\ claimed' \in [Calls -> BOOLEAN]
    BY <2>1, ReportTypes DEF Claim
  <2>2. finishes' \in [Calls -> Seq(Finishes)] /\ claimed' \in [Calls -> BOOLEAN]
    BY <1>10, <2>1 DEF HookStopsTool, ToolFails, ToolCompletes, Finishes
  <2>3. stage' \in [Calls -> Stages] /\ outcome' \in [Calls -> Outcomes]
    BY <1>10 DEF HookStopsTool, ToolFails, ToolCompletes, Stages, Outcomes, Errors
  <2> QED
    BY <1>10, <2>2, <2>3 DEF HookStopsTool, ToolFails, ToolCompletes, handlerSide
<1>11. ASSUME NEW c \in Calls, SwallowCancel(c) PROVE CallsTypeOK'
  BY <1>11 DEF SwallowCancel, handlerSide
<1>12. CASE UNCHANGED vars
  BY <1>12 DEF vars, callVars
<1> QED
  BY <1>1, <1>2, <1>3, <1>4, <1>5, <1>6, <1>7, <1>8, <1>9, <1>10, <1>11, <1>12
  DEF Next, HandlerStep, TaskStep
-----------------------------------------------------------------------------
\* A step leaves this call alone, except that it may wake it at the gate.
Untouched(d) ==
    /\ handler'[d] = handler[d] /\ stage'[d] = stage[d] /\ killed'[d] = killed[d]
    /\ outcome'[d] = outcome[d] /\ claimed'[d] = claimed[d] /\ started'[d] = started[d]
    /\ finishes'[d] = finishes[d] /\ response'[d] = response[d]
    /\ \/ phase'[d] = phase[d]
       \/ phase[d] = "parked" /\ phase'[d] = "notified"

LEMMA UntouchedKeeps ==
    ASSUME NEW d \in Calls, CallInv(d), Untouched(d)
    PROVE  CallInv(d)'
<1> USE DEF Untouched, CallInv
<1>1. PhaseFollowsStage(d)'
  BY DEF PhaseFollowsStage, Busy
<1>2. HandlerFollowsStage(d)'
  BY DEF HandlerFollowsStage
<1>3. ClaimDecides(d)'
  BY DEF ClaimDecides, Reported, Unreported
<1>4. Matches(d)'
  BY DEF Matches
<1> QED
  BY <1>1, <1>2, <1>3, <1>4

\* A step of one call leaves the others alone.
LEMMA OthersUntouched ==
    ASSUME CallsTypeOK, NEW c \in Calls, NEW d \in Calls \ {c},
           NoticeCancel(c) \/ HandlerStep(c) \/ TaskStep(c)
    PROVE  Untouched(d)
<1> USE DEF CallsTypeOK, Untouched
<1>1. CASE NoticeCancel(c)
  BY <1>1 DEF NoticeCancel, gateVars
<1>2. CASE HandleCall(c) \/ RaceWonByTask(c) \/ RaceWonByCancel(c)
  BY <1>2 DEF HandleCall, RaceWonByTask, RaceWonByCancel, ReplyAborted, Reply, Report,
     Goto, gateVars
<1>3. CASE Settle(c) \/ Deliver(c)
  BY <1>3 DEF Settle, Deliver, ReplyAborted, ReplyWithResult, Reply, Report, Goto, gateVars
<1>4. ASSUME NEW p \in Phases, Moved(c, p)
      PROVE  \/ phase'[d] = phase[d]
             \/ phase[d] = "parked" /\ phase'[d] = "notified"
  BY <1>4 DEF Moved
<1>5. CASE AtGate(c)
  BY <1>4, <1>5, PhasesMove DEF AtGate, handlerSide, Phases
<1>6. CASE RejectCall(c) \/ EndTask(c)
  BY <1>4, <1>6, PhasesMove DEF RejectCall, EndTask, TaskEnds, handlerSide, Phases
<1>7. CASE KillTask(c)
  BY <1>4, <1>7, PhasesMove DEF KillTask, TaskEnds, handlerSide, Phases, gateVars
<1>8. CASE StartTool(c) \/ ToolReturns(c) \/ SwallowCancel(c)
  BY <1>8 DEF StartTool, ToolReturns, SwallowCancel, handlerSide, gateVars
<1>9. CASE HookStopsTool(c) \/ ToolFails(c) \/ ToolCompletes(c)
  BY <1>9 DEF HookStopsTool, ToolFails, ToolCompletes, Claim, Report, handlerSide, gateVars
<1> QED
  BY <1>1, <1>2, <1>3, <1>5, <1>6, <1>7, <1>8, <1>9 DEF HandlerStep, TaskStep
-----------------------------------------------------------------------------
\* The call whose handler or task moves keeps the invariant.
LEMMA HandlerKeeps ==
    ASSUME CallsTypeOK, NEW c \in Calls, CallInv(c), NoticeCancel(c) \/ HandlerStep(c)
    PROVE  CallInv(c)'
<1> USE DEF CallsTypeOK, CallInv
<1>1. PhaseFollowsStage(c)'
  <2>1. CASE NoticeCancel(c) \/ RaceWonByTask(c) \/ Settle(c) \/ RaceWonByCancel(c) \/ Deliver(c)
    BY <2>1 DEF NoticeCancel, RaceWonByTask, Settle, RaceWonByCancel, Deliver,
       PhaseFollowsStage, gateVars
  <2>2. CASE HandleCall(c)
    BY <2>2 DEF HandleCall, PhaseFollowsStage, HandlerFollowsStage, Busy, gateVars
  <2> QED
    BY <2>1, <2>2 DEF HandlerStep
<1>2. CASE NoticeCancel(c)
  BY <1>1, <1>2 DEF NoticeCancel, HandlerFollowsStage, ClaimDecides, Reported, Unreported,
     Matches
<1>3. CASE HandleCall(c)
  <2>1. CASE cancelled
    <3>1. stage[c] = "none" /\ ~ killed[c] /\ finishes[c] = <<>>
      BY <1>3 DEF HandleCall, HandlerFollowsStage, ClaimDecides, Reported, Unreported
    <3>2. finishes'[c] = <<"aborted">>
      BY <1>3, <2>1, <3>1, ReportTypes DEF HandleCall, ReplyAborted, Finishes
    <3>3. handler'[c] = "replied" /\ response'[c] = "aborted"
      BY <1>3, <2>1 DEF HandleCall, ReplyAborted, Reply, Goto
    <3>4. HandlerFollowsStage(c)'
      BY <1>3, <2>1, <3>1, <3>3 DEF HandleCall, HandlerFollowsStage
    <3> QED
      BY <1>1, <3>2, <3>3, <3>4 DEF ClaimDecides, Matches
  <2>2. CASE ~ cancelled
    BY <1>1, <1>3, <2>2 DEF HandleCall, Goto, HandlerFollowsStage, ClaimDecides, Reported,
       Unreported, Matches
  <2> QED BY <2>1, <2>2
<1>4. CASE RaceWonByTask(c)
  BY <1>1, <1>4 DEF RaceWonByTask, TaskDone, Goto, HandlerFollowsStage, ClaimDecides,
     Reported, Unreported, Matches
<1>5. CASE RaceWonByCancel(c)
  BY <1>1, <1>5 DEF RaceWonByCancel, TaskDone, Goto, HandlerFollowsStage, ClaimDecides,
     Reported, Unreported, Matches
<1>6. ASSUME UNCHANGED <<stage, killed, outcome, claimed, started>>, stage[c] = "done",
             ~ killed[c], handler'[c] = "replied", Matches(c)'
      PROVE  CallInv(c)'
  BY <1>1, <1>6 DEF HandlerFollowsStage, ClaimDecides
<1>7. ASSUME ReplyAborted(c), finishes[c] = <<>>, UNCHANGED started
      PROVE  handler'[c] = "replied" /\ Matches(c)'
  <2>1. finishes'[c] = <<"aborted">>
    BY <1>7, ReportTypes DEF ReplyAborted, Finishes
  <2> QED
    BY <1>7, <2>1 DEF ReplyAborted, Reply, Goto, Matches
<1>8. ASSUME ReplyWithResult(c), UNCHANGED <<finishes, started, outcome>>,
             \/ Reported(c) \/ outcome[c] \in {"hookTypeError", "cancelled"}
             \/ outcome[c] \in Errors /\ finishes[c] = <<>> /\ ~ started[c]
      PROVE  handler'[c] = "replied" /\ Matches(c)'
  BY <1>8 DEF ReplyWithResult, Reply, Goto, Matches, Reported, Errors
<1>9. CASE Settle(c)
  <2>1. stage[c] = "done" /\ ~ killed[c] /\ (IF claimed[c] THEN Reported(c) ELSE Unreported(c))
    BY <1>9 DEF Settle, HandlerFollowsStage, ClaimDecides
  <2>2. CASE ReplyAborted(c)
    BY <1>6, <1>7, <1>9, <2>1, <2>2 DEF Settle, Unreported, ReplyAborted, ReplyWithResult,
       Reply, Goto
  <2>3. CASE ReplyWithResult(c) /\ UNCHANGED finishes
    BY <1>6, <1>8, <1>9, <2>1, <2>3 DEF Settle, Unreported
  <2> QED
    BY <1>9, <2>2, <2>3 DEF Settle
<1>10. CASE Deliver(c)
  <2>1. stage[c] = "done" /\ ~ killed[c]
    BY <1>10 DEF Deliver, TaskDone, HandlerFollowsStage
  <2>2. CASE handler[c] = "awaitResult"
    BY <1>6, <1>8, <1>10, <2>1, <2>2 DEF Deliver, HandlerFollowsStage, ClaimDecides
  <2>3. CASE handler[c] = "awaitAbort"
    BY <1>6, <1>7, <1>8, <1>10, <2>1, <2>3 DEF Deliver, ClaimDecides
  <2>4. CASE handler[c] = "awaitKilled"
    BY <1>6, <1>7, <1>8, <1>10, <2>1, <2>4 DEF Deliver, ClaimDecides, Unreported, Reported
  <2> QED
    BY <1>10, <2>2, <2>3, <2>4 DEF Deliver
<1> QED
  BY <1>2, <1>3, <1>4, <1>5, <1>9, <1>10 DEF HandlerStep

\* The call whose dispatch task moves keeps it.
LEMMA TaskKeeps ==
    ASSUME CallsTypeOK, NEW c \in Calls, CallInv(c), TaskStep(c)
    PROVE  CallInv(c)'
<1> USE DEF CallsTypeOK, CallInv
<1>1. /\ handler'[c] = handler[c] /\ response'[c] = response[c]
      /\ handler[c] \notin {"new", "replied", "settling"}
  BY DEF TaskStep, AtGate, RejectCall, StartTool, HookStopsTool, ToolReturns, ToolFails,
     ToolCompletes, EndTask, KillTask, SwallowCancel, TaskDone, handlerSide,
     HandlerFollowsStage
<1>2. Matches(c)'
  BY <1>1 DEF Matches
<1>3. CASE AtGate(c)
  <2>1. \/ stage'[c] = "entered" /\ phase'[c] = "inside"
        \/ stage'[c] = "queued" /\ phase'[c] = "parked"
    BY <1>3, PhasesMove DEF AtGate, Moved
  <2> QED
    BY <1>1, <1>2, <1>3, <2>1 DEF AtGate, handlerSide, PhaseFollowsStage,
       HandlerFollowsStage, ClaimDecides, Reported, Unreported, Busy
<1>4. CASE RejectCall(c) \/ EndTask(c)
  <2>1. stage'[c] = "done" /\ phase'[c] = "gone"
    BY <1>4, PhasesMove DEF RejectCall, EndTask, TaskEnds, Moved
  <2>2. PhaseFollowsStage(c)' /\ HandlerFollowsStage(c)'
    BY <1>1, <1>4, <2>1 DEF RejectCall, EndTask, PhaseFollowsStage, HandlerFollowsStage, Busy
  <2>3. ClaimDecides(c)'
    BY <1>1, <1>4, <2>1 DEF RejectCall, EndTask, TaskEnds, ClaimDecides, Reported, Unreported
  <2> QED BY <1>2, <2>2, <2>3
<1>5. CASE StartTool(c) \/ ToolReturns(c) \/ SwallowCancel(c)
  <2>1. PhaseFollowsStage(c)' /\ HandlerFollowsStage(c)'
    BY <1>1, <1>5 DEF StartTool, ToolReturns, SwallowCancel, PhaseFollowsStage,
       HandlerFollowsStage, Busy, gateVars
  <2>2. ClaimDecides(c)'
    BY <1>1, <1>5 DEF StartTool, ToolReturns, SwallowCancel, ClaimDecides, Reported,
       Unreported
  <2> QED BY <1>2, <2>1, <2>2
<1>6. CASE HookStopsTool(c) \/ ToolFails(c) \/ ToolCompletes(c)
  <2>1. /\ stage[c] \in {"running", "ran"} /\ stage'[c] = "reporting" /\ ~ killed[c]
        /\ claimed'[c] /\ started'[c] = started[c] /\ UNCHANGED <<phase, killed>>
    BY <1>6 DEF HookStopsTool, ToolFails, ToolCompletes, Claim, gateVars
  <2>2. PhaseFollowsStage(c)' /\ HandlerFollowsStage(c)'
    BY <1>1, <2>1 DEF PhaseFollowsStage, HandlerFollowsStage, Busy
  <2>3. CASE claimed[c]
    <3>1. handler[c] = "awaitAbort" /\ finishes[c] = <<>>
      BY <1>1, <2>1, <2>3 DEF ClaimDecides, Reported
    <3>2. UNCHANGED finishes
      BY <1>6, <2>3 DEF HookStopsTool, ToolFails, ToolCompletes, Claim
    <3> QED
      BY <1>1, <1>2, <2>1, <2>2, <3>1, <3>2 DEF ClaimDecides
  <2>4. CASE ~ claimed[c]
    <3>1. handler[c] # "awaitAbort" /\ finishes[c] = <<>> /\ started[c]
      BY <1>1, <2>1, <2>4 DEF ClaimDecides, Unreported
    <3>2. ASSUME NEW f \in Finishes, Claim(c, f) PROVE finishes'[c] = <<f>>
      BY <2>4, <3>1, <3>2, ReportTypes DEF Claim
    <3>3. \/ outcome'[c] = "ok" /\ finishes'[c] = <<"completed">>
          \/ outcome'[c] = "error" /\ finishes'[c] \in {<<"failed">>, <<"blocked">>}
          \/ outcome'[c] = "fatal" /\ finishes'[c] = <<"failed">>
          \/ outcome'[c] = "hookTypeError"
      <4>1. CASE HookStopsTool(c)
        BY <3>2, <4>1 DEF HookStopsTool, Finishes, Errors
      <4>2. CASE ToolFails(c)
        BY <3>2, <4>2 DEF ToolFails, Finishes, Errors
      <4>3. CASE ToolCompletes(c)
        BY <3>2, <4>3 DEF ToolCompletes, Finishes
      <4> QED BY <1>6, <4>1, <4>2, <4>3
    <3> QED
      BY <1>1, <1>2, <2>1, <2>2, <3>1, <3>3 DEF ClaimDecides, Reported
  <2> QED BY <2>3, <2>4
<1>7. CASE KillTask(c)
  <2>1. /\ stage[c] \notin {"none", "done"} /\ handler[c] = "awaitKilled" /\ ~ claimed[c]
        /\ stage'[c] = "done" /\ outcome'[c] = "cancelled" /\ ~ killed'[c]
    BY <1>7 DEF KillTask, TaskDone, TaskEnds, HandlerFollowsStage
  <2>2. phase'[c] \in {"outside", "gone"}
    BY <1>7, PhasesMove DEF KillTask, Moved, gateVars
  <2>3. PhaseFollowsStage(c)' /\ HandlerFollowsStage(c)'
    BY <1>1, <2>1, <2>2 DEF PhaseFollowsStage, HandlerFollowsStage, Busy
  <2>4. ClaimDecides(c)'
    BY <1>1, <1>7, <2>1 DEF KillTask, ClaimDecides, Unreported
  <2> QED BY <1>2, <2>3, <2>4
<1> QED
  BY <1>3, <1>4, <1>5, <1>6, <1>7 DEF TaskStep

LEMMA CallsStepInv == CInv /\ GateTypeOK' /\ [Next]_vars => CInv'
<1> SUFFICES ASSUME CInv, GateTypeOK', [Next]_vars PROVE CInv'
  OBVIOUS
<1>1. CallsTypeOK /\ CallsTypeOK'
  BY CallsStepTypes DEF CInv
<1>2. ASSUME NEW d \in Calls PROVE CallInv(d)'
  <2>1. CallInv(d)
    BY <1>2 DEF CInv
  <2>2. CASE CancelToken \/ UNCHANGED vars
    <3>1. Untouched(d)
      BY <2>2 DEF CancelToken, Untouched, vars, callVars, gateVars
    <3> QED BY <2>1, <3>1, UntouchedKeeps
  <2>3. ASSUME NEW c \in Calls, NoticeCancel(c) \/ HandlerStep(c) \/ TaskStep(c)
        PROVE  CallInv(d)'
    <3>1. CASE c = d
      BY <1>1, <2>1, <2>3, <3>1, HandlerKeeps, TaskKeeps
    <3>2. CASE c # d
      BY <1>1, <2>1, <2>3, <3>2, OthersUntouched, UntouchedKeeps
    <3> QED BY <3>1, <3>2
  <2> QED
    BY <2>2, <2>3 DEF Next
<1> QED
  BY <1>1, <1>2 DEF CInv
-----------------------------------------------------------------------------
\* The calls of a turn use the gate only through its operations, so that
\* everything proved of the gate holds of them.
THEOREM CallsUseGate == Spec => GateSpec
<1>1. Init => GateInit
  BY DEF Init
<1> QED
  BY <1>1, StepsUseGate, PTL DEF Spec, GateSpec

\* An exclusive call is alone inside, and no wake-up is lost, whichever way
\* the calls of a turn come, end and are cancelled.
THEOREM CallsExclude == Spec => [](ExclusiveAlone /\ NoLostWakeup)
  BY CallsUseGate, ExclusiveRunsAlone, NoWakeupIsLost, PTL

LEMMA CallsInvariance == Spec => []CInv
<1>1. Spec => []GateTypeOK
  BY CallsUseGate, GateTypeCorrect, PTL
<1> QED
  BY <1>1, CallsInitInv, CallsStepInv, PTL DEF Spec

\* The caller gets its answer only after the dispatch task is over: nothing
\* of an answered call runs or holds the gate.
THEOREM AnswersComeLast == Spec => []AnsweredIsOver
<1>1. CInv => AnsweredIsOver
  BY DEF CInv, CallInv, HandlerFollowsStage, PhaseFollowsStage, AnsweredIsOver, Busy
<1> QED
  BY <1>1, CallsInvariance, PTL

\* The answer and what the lifecycle contributors were told agree, and each
\* call is reported once, whoever claims the outcome.
THEOREM AnswersMatchReports == Spec => []ResponseMatchesLifecycle
<1>1. CInv => ResponseMatchesLifecycle
  BY DEF CInv, CallInv, Matches, ResponseMatchesLifecycle
<1> QED
  BY <1>1, CallsInvariance, PTL

\* A tool that had not started when its call was cancelled never starts.
THEOREM AbortedNeverStart == Spec => NoStartAfterAbort
<1>1. CInv /\ [Next]_vars =>
        [\A c \in Calls \ WaitingCalls :
            handler[c] = "awaitKilled" => started'[c] = started[c]]_vars
  <2> SUFFICES ASSUME CInv, Next, NEW d \in Calls, handler[d] = "awaitKilled"
               PROVE  started'[d] = started[d]
    OBVIOUS
  <2>1. CASE CancelToken
    BY <2>1 DEF CancelToken
  <2>2. ASSUME NEW c \in Calls \ {d}, NoticeCancel(c) \/ HandlerStep(c) \/ TaskStep(c)
        PROVE  started'[d] = started[d]
    BY <2>2, OthersUntouched DEF CInv, Untouched
  <2>3. CASE NoticeCancel(d) \/ HandlerStep(d)
    BY <2>3 DEF NoticeCancel, HandlerStep, HandleCall, RaceWonByTask, Settle,
       RaceWonByCancel, Deliver
  <2>4. CASE TaskStep(d)
    <3>1. ~ StartTool(d)
      BY DEF StartTool, CInv, CallInv, HandlerFollowsStage
    <3> QED
      BY <2>4, <3>1 DEF TaskStep, AtGate, RejectCall, HookStopsTool, ToolReturns,
         ToolFails, ToolCompletes, EndTask, KillTask, SwallowCancel
  <2> QED
    BY <2>1, <2>2, <2>3, <2>4 DEF Next
<1> QED
  BY <1>1, CallsInvariance, PTL DEF Spec, NoStartAfterAbort
=============================================================================
