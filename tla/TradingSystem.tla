----------------------------- MODULE TradingSystem -----------------------------
(***************************************************************************)
(* The process: main (src/main.cpp), which loads the configuration,        *)
(* initializes a TradingSystem and sleeps, and TradingSystem::stop, which  *)
(* signal handlers call.  The one adapter it may create is that of         *)
(* ExchangeAdapter, whose owner's thread is the main thread; the engine is *)
(* reduced to its life and that of its threads, which MarketDataEngine     *)
(* models in full.                                                         *)
(*                                                                         *)
(* A signal interrupts the main thread wherever it is.  Its handler runs   *)
(* with that signal blocked, so a second, other signal is handled inside   *)
(* the first one's handler, and the calls of stop nest.  What a handler    *)
(* calls is not made for that: it logs and allocates, under locks that the *)
(* very thread it runs on may hold already.                                *)
(***************************************************************************)
EXTENDS ExchangeAdapter, Integers, Sequences

CONSTANTS
    Signals,     \* the signals that have a handler
    MaxSignals   \* bounds how many arrive

ASSUME MaxSignalsAssumption == MaxSignals \in Nat

VARIABLES
    main,      \* where main is
    created,   \* whether adapters_ has an adapter
    engine,    \* the engine's life, from its initialize to its destruction
    working,   \* whether its receiver and dispatcher threads run
    frames,    \* the calls of stop, the innermost last
    arrived,   \* how many signals have
    overtaken, \* whether a signal came between a disconnect's store to
               \* connected_ and the end of its join
    held       \* whether one came while the call it interrupted held a lock
               \* that its handler has to take

system == <<main, created, engine, working, frames, arrived, overtaken, held>>
sysVars == <<vars, system>>

MainPcs == {"loading", "exchanges", "engine", "connecting", "sleeping",
            "failing", "destroying", "returned"}

StopPcs == {"unsubscribing", "disconnecting", "resetting", "joining"}

\* A call of stop: the signal whose handler made it, or NoSignal; how far it
\* has got; and where the main thread was in the adapter.
NoSignal == "none"
Frame == [signal : Signals \cup {NoSignal}, pc : StopPcs,
          at : OwnerPcs, back : {"disconnected", "releasing"}]

SystemTypeOK ==
    /\ TypeOK
    /\ main \in MainPcs
    /\ created \in BOOLEAN
    /\ engine \in {"none", "running", "stopping", "destroyed"}
    /\ working \in BOOLEAN
    /\ frames \in Seq(Frame)
    /\ arrived \in 0..MaxSignals
    /\ overtaken \in BOOLEAN
    /\ held \in BOOLEAN

\* An adapter that is not created yet is one that nobody uses.
SystemInit ==
    /\ Init
    /\ main = "loading"
    /\ created = FALSE
    /\ engine = "none"
    /\ working = FALSE
    /\ frames = <<>>
    /\ arrived = 0
    /\ overtaken = FALSE
    /\ held = FALSE

-----------------------------------------------------------------------------
\* main.  Without a configuration that loads it returns.
LoadConfig ==
    /\ main = "loading"
    /\ main' \in {"exchanges", "returned"}
    /\ UNCHANGED <<vars, created, engine, working, frames,
                   arrived, overtaken, held>>

\* initializeExchanges: the adapter, where the configuration enables it.  Any
\* step of initialize may throw, and initialize returns false.
InitializeExchanges ==
    /\ main = "exchanges"
    /\ \/ created' \in BOOLEAN /\ main' = "engine"
       \/ created' = created /\ main' = "failing"
    /\ UNCHANGED <<vars, engine, working, frames, arrived, overtaken, held>>

\* initializeMarketData: the engine, made and initialized.
InitializeEngine ==
    /\ main = "engine"
    /\ \/ /\ engine' = "running"
          /\ working' = TRUE
          /\ main' \in {IF created THEN "connecting" ELSE "sleeping", "failing"}
       \/ /\ main' = "failing"
          /\ UNCHANGED <<engine, working>>
    /\ UNCHANGED <<vars, created, frames, arrived, overtaken, held>>

\* connect and subscribe, whose results nobody looks at.  The rest of
\* initialize and start do nothing, and the handlers are installed.
ConnectAdapter ==
    /\ main = "connecting"
    /\ OwnerConnect
    /\ main' = "sleeping"
    /\ UNCHANGED <<created, engine, working, frames, arrived, overtaken, held>>

\* main returns 1, and the destructor of TradingSystem calls stop.
Fail ==
    /\ main = "failing"
    /\ main' = "destroying"
    /\ frames' = <<[signal |-> NoSignal, pc |-> "unsubscribing",
                    at |-> at["owner"], back |-> back["owner"]]>>
    /\ UNCHANGED <<vars, created, engine, working, arrived, overtaken, held>>

\* Then it destroys the adapter, and main returns.
DestroyAdapter ==
    /\ main = "destroying"
    /\ frames = <<>>
    /\ created
    /\ Destroy
    /\ UNCHANGED system

Return ==
    /\ main = "destroying"
    /\ frames = <<>>
    /\ created => at["owner"] = "destroyed"
    /\ main' = "returned"
    /\ UNCHANGED <<vars, created, engine, working, frames,
                   arrived, overtaken, held>>

-----------------------------------------------------------------------------
Depth == Len(frames)

In(pc) == Depth > 0 /\ frames[Depth].pc = pc

\* Where stop calls what takes the lock of the log's sink, of the heap or of
\* ioc_: reading the symbols and unsubscribe, both of which log; async_close,
\* ioc_.stop() and the message that disconnect ends with; and the destructors.
\* Sleeping and waiting for a thread take none.
Locking ==
    \/ In("unsubscribing") \/ In("resetting")
    \/ In("disconnecting") /\ at["owner"] \in {"stopping", "disconnected"}
    \/ In("joining") /\ ~working

\* A handler logs and calls stop, unless it is its own signal that is being
\* handled.  None of the locks is recursive, and what it interrupts does not
\* go on before it returns.
Handle(signal) ==
    /\ main = "sleeping"
    /\ arrived < MaxSignals
    /\ \A i \in DOMAIN frames : frames[i].signal # signal
    /\ arrived' = arrived + 1
    /\ frames' = Append(frames, [signal |-> signal, pc |-> "unsubscribing",
                                 at |-> at["owner"], back |-> back["owner"]])
    /\ overtaken' = (overtaken \/ at["owner"] \in {"stopping", "joining"})
    /\ \/ held' = held
       \/ Locking /\ held' = TRUE
    /\ UNCHANGED <<vars, main, created, engine, working>>

Proceed(pc) == frames' = [frames EXCEPT ![Depth].pc = pc]

\* stop: the symbols, for which the key is not found and logged, unsubscribe,
\* which changes nothing here but logs, and disconnect, where there is an
\* adapter.  A handler whose locks are taken gets no further than here.
\* Faulty: the engine goes first.
StopEngineFirst ==
    /\ In("unsubscribing")
    /\ ~held
    /\ IF created
       THEN CallDisconnect("owner", "disconnected") /\ Proceed("disconnecting")
       ELSE UNCHANGED <<at, back>> /\ Proceed("resetting")
    /\ engine' = IF engine = "running" THEN "destroyed" ELSE engine
    /\ working' = FALSE
    /\ UNCHANGED <<venue, connected, authenticated, stopped, guarded, joinable,
                   reading, main, created, arrived, overtaken, held>>

StopAdapter ==
    /\ In("unsubscribing")
    /\ ~held
    /\ IF created
       THEN CallDisconnect("owner", "disconnected") /\ Proceed("disconnecting")
       ELSE UNCHANGED <<at, back>> /\ Proceed("resetting")
    /\ UNCHANGED <<venue, connected, authenticated, stopped, guarded, joinable,
                   reading, main, created, engine, working,
                   arrived, overtaken, held>>

\* What the main thread does in the adapter, in stop or in its destructor.
AdapterGoesOn ==
    /\ In("disconnecting") \/ (main = "destroying" /\ frames = <<>>)
    /\ OwnerGoesOn
    /\ UNCHANGED system

AdapterStopped ==
    /\ In("disconnecting")
    /\ at["owner"] = "disconnected"
    /\ Proceed("resetting")
    /\ UNCHANGED <<vars, main, created, engine, working,
                   arrived, overtaken, held>>

\* market_data_engine_.reset(): the pointer is null at once, the destructor
\* stops the engine's threads, joins them, and the engine is gone.
\* Faulty: it joins them without telling them to end.
ResetEngineRunning ==
    /\ In("resetting")
    /\ engine = "running"
    /\ Proceed("joining")
    /\ UNCHANGED <<vars, main, created, engine, working,
                   arrived, overtaken, held>>

ResetEngine ==
    /\ In("resetting")
    /\ engine = "running"
    /\ engine' = "stopping"
    /\ Proceed("joining")
    /\ UNCHANGED <<vars, main, created, working, arrived, overtaken, held>>

EngineThreadsExit ==
    /\ engine = "stopping"
    /\ working
    /\ working' = FALSE
    /\ UNCHANGED <<vars, main, created, engine, frames,
                   arrived, overtaken, held>>

DestroyEngine ==
    /\ In("joining")
    /\ ~working
    /\ engine' = "destroyed"
    /\ Proceed("resetting")
    /\ UNCHANGED <<vars, main, created, working, arrived, overtaken, held>>

\* stop returns to what the signal interrupted.
StopReturns ==
    /\ In("resetting")
    /\ engine # "running"
    /\ frames' = SubSeq(frames, 1, Depth - 1)
    /\ IF Depth > 1
       THEN /\ at' = [at EXCEPT !["owner"] = frames[Depth].at]
            /\ back' = [back EXCEPT !["owner"] = frames[Depth].back]
       ELSE UNCHANGED <<at, back>>
    /\ UNCHANGED <<venue, connected, authenticated, stopped, guarded, joinable,
                   reading, main, created, engine, working,
                   arrived, overtaken, held>>

-----------------------------------------------------------------------------
MainGoesOn ==
    \/ LoadConfig \/ InitializeExchanges \/ InitializeEngine
    \/ Fail \/ DestroyAdapter \/ Return
    \/ StopAdapter \/ AdapterStopped
    \/ ResetEngine \/ DestroyEngine \/ StopReturns
    \/ AdapterGoesOn

SystemNext ==
    \/ MainGoesOn \/ ConnectAdapter
    \/ \E signal \in Signals : Handle(signal)
    \/ EngineThreadsExit
    \/ (Reads \/ IoGoesOn \/ Reconnect) /\ UNCHANGED system

SystemSpec == SystemInit /\ [][SystemNext]_sysVars

\* Every thread is scheduled.  That a connect returns is not promised, and
\* no signal is.
SystemFairSpec ==
    /\ SystemSpec
    /\ WF_sysVars(MainGoesOn)
    /\ WF_sysVars(EngineThreadsExit)
    /\ WF_sysVars(IoGoesOn /\ UNCHANGED system)

-----------------------------------------------------------------------------
\* A callback of the adapter runs in the engine: none does, nor begins, once
\* stop has begun to destroy it.  The one way around that is a second signal
\* that comes when the first one's disconnect has cleared connected_ and still
\* has to stop ioc_ or to join: the inner disconnect then waits for nobody.
EngineOutlivesCallbacks ==
    at["io"] = "callback" /\ ~overtaken => engine = "running"

\* When main has returned, no thread that it began is left.
ReturnsAlone ==
    main = "returned" => /\ created => at["io"] = "exited"
                         /\ ~working

\* A system that has been stopped is not connected, unless its io thread was
\* connecting again after a failed read, which stop does not wait for.
StoppedStaysDisconnected ==
    engine = "destroyed" /\ frames = <<>> /\ connected
        => back["io"] = "reconnecting"

\* Handlers return, if handshakes do, unless one was interrupted in the middle
\* of a call that holds a lock: it waits for the handler above it, which waits
\* for the lock.  The handler of one signal alone is never in that place.
StopsReturn ==
    HandshakesEnd =>
        (frames # <<>> ~> frames = <<>> \/ (held /\ Depth > 1))
=============================================================================
