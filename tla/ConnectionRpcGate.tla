------------------------- MODULE ConnectionRpcGate -------------------------
(***************************************************************************)
(* The gate every initialized JSON-RPC handler of a connection runs        *)
(* through: pycodex/app_server/connection_rpc_gate.py.                     *)
(*                                                                         *)
(* As in the tool gate, the condition's lock is never held across a        *)
(* suspension other than wait(), so a handler's entry and its exit are one *)
(* action each, and so are the stretches of shutdown().                    *)
(***************************************************************************)
EXTENDS Naturals, FiniteSets

CONSTANTS Connections,
          Requests,      \* handlers handed to run()
          ConnOf,        \* the connection whose gate a handler runs through
          Raising        \* handlers that may raise

ASSUME GateAssumption ==
    /\ IsFiniteSet(Requests)
    /\ ConnOf \in [Requests -> Connections]
    /\ Raising \subseteq Requests

VARIABLES run,          \* how far run() is with each handler
          accepting,    \* _accepting
          inflight,     \* _inflight
          closing       \* where shutdown() of each connection stands

gateVars == <<run, accepting, inflight, closing>>

RunStates  == {"waiting", "running", "finished", "raised", "refused"}
OverStates == {"finished", "raised", "refused"}

GateTypeOK ==
    /\ run \in [Requests -> RunStates]
    /\ accepting \in [Connections -> BOOLEAN]
    /\ inflight \in [Connections -> Nat]
    /\ closing \in [Connections -> {"no", "waiting", "woken", "closed"}]

GateInit ==
    /\ run = [r \in Requests |-> "waiting"]
    /\ accepting = [c \in Connections |-> TRUE]
    /\ inflight = [c \in Connections |-> 0]
    /\ closing = [c \in Connections |-> "no"]

RunningOn(c) == {r \in Requests : run[r] = "running" /\ ConnOf[r] = c}
-----------------------------------------------------------------------------
\* Faulty variants, used only to confirm that the properties notice them, are
\* named Faulty... and precede the definition they vary.
FaultyEnterUnchecked(r) ==
    /\ run[r] = "waiting"
    /\ run' = [run EXCEPT ![r] = "running"]
    /\ inflight' = [inflight EXCEPT ![ConnOf[r]] = @ + 1]
    /\ UNCHANGED <<accepting, closing>>

EnterHandler(r) ==
    /\ run[r] = "waiting"
    /\ accepting[ConnOf[r]]
    /\ run' = [run EXCEPT ![r] = "running"]
    /\ inflight' = [inflight EXCEPT ![ConnOf[r]] = @ + 1]
    /\ UNCHANGED <<accepting, closing>>

\* A closed gate drops the handler without starting it.
RefuseHandler(r) ==
    /\ run[r] = "waiting"
    /\ ~ accepting[ConnOf[r]]
    /\ run' = [run EXCEPT ![r] = "refused"]
    /\ UNCHANGED <<accepting, inflight, closing>>

FaultyExitSilently(r) ==
    /\ run[r] = "running"
    /\ run' = [run EXCEPT ![r] = "finished"]
    /\ inflight' = [inflight EXCEPT ![ConnOf[r]] = @ - 1]
    /\ UNCHANGED <<accepting, closing>>

\* The finally of run(): the last handler out notifies shutdown().
ExitHandler(r) ==
    LET c == ConnOf[r]
    IN  /\ run[r] = "running"
        /\ \/ run' = [run EXCEPT ![r] = "finished"]
           \/ r \in Raising /\ run' = [run EXCEPT ![r] = "raised"]
        /\ inflight' = [inflight EXCEPT ![c] = @ - 1]
        /\ closing' = [closing EXCEPT ![c] =
                          IF inflight[c] = 1 /\ @ = "waiting" THEN "woken" ELSE @]
        /\ UNCHANGED accepting

\* shutdown() up to its first wait, or to its end when nothing is in flight.
BeginShutdown(c) ==
    /\ closing[c] = "no"
    /\ accepting' = [accepting EXCEPT ![c] = FALSE]
    /\ closing' = [closing EXCEPT ![c] = IF inflight[c] > 0 THEN "waiting" ELSE "closed"]
    /\ UNCHANGED <<run, inflight>>

ResumeShutdown(c) ==
    /\ closing[c] = "woken"
    /\ closing' = [closing EXCEPT ![c] = IF inflight[c] > 0 THEN "waiting" ELSE "closed"]
    /\ UNCHANGED <<run, accepting, inflight>>

RunHandler(r)      == EnterHandler(r) \/ RefuseHandler(r) \/ ExitHandler(r)
ShutdownGate(c)    == BeginShutdown(c) \/ ResumeShutdown(c)
-----------------------------------------------------------------------------
(***************************************************************************)
(* Properties                                                              *)
(***************************************************************************)

\* Once shutdown() has begun no handler of the connection starts.
NoStartAfterShutdown ==
    [][\A r \in Requests : closing[ConnOf[r]] # "no" /\ run[r] # "running"
                              => run'[r] # "running"]_gateVars
=============================================================================
