------------------------------ MODULE ToolGate ------------------------------
(***************************************************************************)
(* The read/write gate through which a turn's tool calls are dispatched:   *)
(* _AsyncToolExecutionGate of pycodex/core/tools/parallel.py.              *)
(*                                                                         *)
(* The gate is an asyncio.Condition around two counters and a flag.  No    *)
(* body of the condition suspends except in wait(), which gives the lock   *)
(* back, so the lock is free whenever a coroutine is resumed and each      *)
(* stretch between two suspensions is one action here:                     *)
(*   - a call reaches the gate and enters it, or parks in wait();          *)
(*   - a notified call is resumed, re-evaluates its condition and enters   *)
(*     or parks again;                                                     *)
(*   - a call inside leaves (the finally of acquire());                    *)
(*   - a parked or notified call is cancelled: CancelledError is raised    *)
(*     out of wait() and only the finally clauses run.                     *)
(***************************************************************************)
EXTENDS Naturals, FiniteSets

CONSTANTS Calls,           \* tool calls of one ToolCallRuntime
          ParallelCalls    \* those whose tool supports parallel calls

ASSUME CallsAssumption == IsFiniteSet(Calls) /\ ParallelCalls \subseteq Calls

ExclusiveCalls == Calls \ ParallelCalls

VARIABLES phase,            \* where each call stands with respect to the gate
          readers,          \* _readers
          writer,           \* _writer
          waitingWriters    \* _waiting_writers

gateVars == <<phase, readers, writer, waitingWriters>>

Phases == {"outside", "parked", "notified", "inside", "gone"}

GateTypeOK ==
    /\ phase \in [Calls -> Phases]
    /\ readers \in Nat
    /\ writer \in BOOLEAN
    /\ waitingWriters \in Nat

GateInit ==
    /\ phase = [c \in Calls |-> "outside"]
    /\ readers = 0
    /\ writer = FALSE
    /\ waitingWriters = 0

In(p) == {c \in Calls : phase[c] \in p}

Readers == In({"inside"}) \cap ParallelCalls
Writers == In({"inside"}) \cap ExclusiveCalls
Waiting == In({"parked", "notified"}) \cap ExclusiveCalls

\* A call at the head of its while loop: it has just arrived or was woken.
AtLoop(c) == phase[c] \in {"outside", "notified"}

\* Condition.notify_all(): every parked coroutine is scheduled.
Wake(ph) == [d \in Calls |-> IF ph[d] = "parked" THEN "notified" ELSE ph[d]]

\* Faulty variants, used only to confirm that the properties notice them, are
\* named Faulty... and precede the definition they vary.
FaultyBlockedByWriterOnly  == writer

ParallelBlocked  == writer \/ waitingWriters > 0
ExclusiveBlocked == writer \/ readers > 0
-----------------------------------------------------------------------------
EnterParallel(c) ==
    /\ c \in ParallelCalls /\ AtLoop(c)
    /\ ~ ParallelBlocked
    /\ readers' = readers + 1
    /\ phase' = [phase EXCEPT ![c] = "inside"]
    /\ UNCHANGED <<writer, waitingWriters>>

ParkParallel(c) ==
    /\ c \in ParallelCalls /\ AtLoop(c)
    /\ ParallelBlocked
    /\ phase' = [phase EXCEPT ![c] = "parked"]
    /\ UNCHANGED <<readers, writer, waitingWriters>>

\* An arriving writer that need not wait raises and lowers _waiting_writers
\* in the same stretch.
EnterExclusive(c) ==
    /\ c \in ExclusiveCalls /\ AtLoop(c)
    /\ ~ ExclusiveBlocked
    /\ writer' = TRUE
    /\ waitingWriters' = IF phase[c] = "notified" THEN waitingWriters - 1
                                                  ELSE waitingWriters
    /\ phase' = Wake([phase EXCEPT ![c] = "inside"])
    /\ UNCHANGED readers

ParkExclusive(c) ==
    /\ c \in ExclusiveCalls /\ AtLoop(c)
    /\ ExclusiveBlocked
    /\ waitingWriters' = IF phase[c] = "outside" THEN waitingWriters + 1
                                                 ELSE waitingWriters
    /\ phase' = [phase EXCEPT ![c] = "parked"]
    /\ UNCHANGED <<readers, writer>>

\* Only the last reader notifies.
LeaveParallel(c) ==
    /\ c \in ParallelCalls /\ phase[c] = "inside"
    /\ readers' = readers - 1
    /\ LET left == [phase EXCEPT ![c] = "gone"]
       IN  phase' = IF readers = 1 THEN Wake(left) ELSE left
    /\ UNCHANGED <<writer, waitingWriters>>

FaultyLeaveSilently(c) ==
    /\ c \in ExclusiveCalls /\ phase[c] = "inside"
    /\ writer' = FALSE
    /\ phase' = [phase EXCEPT ![c] = "gone"]
    /\ UNCHANGED <<readers, waitingWriters>>

LeaveExclusive(c) ==
    /\ c \in ExclusiveCalls /\ phase[c] = "inside"
    /\ writer' = FALSE
    /\ phase' = Wake([phase EXCEPT ![c] = "gone"])
    /\ UNCHANGED <<readers, waitingWriters>>

\* CancelledError out of wait(): a reader has nothing to undo, a writer runs
\* the finally that takes its claim back and notifies.
InterruptParallel(c) ==
    /\ c \in ParallelCalls /\ phase[c] \in {"parked", "notified"}
    /\ phase' = [phase EXCEPT ![c] = "gone"]
    /\ UNCHANGED <<readers, writer, waitingWriters>>

InterruptExclusive(c) ==
    /\ c \in ExclusiveCalls /\ phase[c] \in {"parked", "notified"}
    /\ waitingWriters' = waitingWriters - 1
    /\ phase' = Wake([phase EXCEPT ![c] = "gone"])
    /\ UNCHANGED <<readers, writer>>

Enter(c)     == EnterParallel(c) \/ EnterExclusive(c)
Park(c)      == ParkParallel(c) \/ ParkExclusive(c)
Leave(c)     == LeaveParallel(c) \/ LeaveExclusive(c)
Interrupt(c) == InterruptParallel(c) \/ InterruptExclusive(c)

GateNext == \E c \in Calls : Enter(c) \/ Park(c) \/ Leave(c) \/ Interrupt(c)

GateSpec == GateInit /\ [][GateNext]_gateVars
-----------------------------------------------------------------------------
(***************************************************************************)
(* Properties                                                              *)
(***************************************************************************)

\* A call whose tool does not support parallel calls has the gate to itself:
\* every other call is outside it, whatever cancellations hit the waiters.
ExclusiveAlone ==
    \A c \in ExclusiveCalls : phase[c] = "inside" => In({"inside"}) = {c}

\* The counters say exactly who is inside and which writers are waiting, so
\* that no release, cancelled wait or wake-up leaks a reader or a writer.
CountersExact ==
    /\ readers = Cardinality(Readers)
    /\ writer <=> Writers # {}
    /\ waitingWriters = Cardinality(Waiting)

\* No lost wake-up: a call stays parked only while what it waits for is
\* still there, so that someone inside, or a waiting writer, will notify it.
NoLostWakeup ==
    /\ \A c \in ParallelCalls  : phase[c] = "parked" => ParallelBlocked
    /\ \A c \in ExclusiveCalls : phase[c] = "parked" => ExclusiveBlocked

\* While an exclusive call waits, no parallel call gets in before it: what
\* test_waiting_non_parallel_dispatch_blocks_later_parallel_dispatch checks
\* for one schedule.
WriterPreference ==
    [][\A c \in ParallelCalls :
          phase[c] # "inside" /\ phase'[c] = "inside"
              => Waiting = {}]_gateVars

\* Two calls of which one needs the gate to itself.
Conflicting(a, b) == a # b /\ ~ {a, b} \subseteq ParallelCalls

\* The gate implements the shared/exclusive discipline.
Discipline == INSTANCE SharedExclusive
                WITH Items <- Calls,
                     Conflicts <- {p \in Calls \X Calls : Conflicting(p[1], p[2])},
                     active <- In({"inside"}), finished <- In({"gone"})
ImplementsDiscipline == Discipline!Spec
=============================================================================
