---------------------------- MODULE ExchangeAdapter ----------------------------
(***************************************************************************)
(* The life of one websocket adapter: CoinbaseAdapter, KrakenAdapter or    *)
(* BinanceAdapter (src/exchanges), which share their connect, disconnect,  *)
(* read loop and destructor.  Two threads meet in it: its owner's, which   *)
(* calls connect, then disconnect and the destructor, as TradingSystem     *)
(* does, and the io thread, which runs ioc_.run() and in it the completion *)
(* handler of async_read, on_message.                                      *)
(*                                                                         *)
(* boost is external and modelled from its use: a read completes on the io *)
(* thread or not at all, stop() makes run() return when the handler it is  *)
(* in has, and nothing calls restart().  Writes are left out: that one has *)
(* completed is only logged.                                               *)
(***************************************************************************)
CONSTANT Venues  \* the adapters modelled, of coinbase, kraken and binance

ASSUME VenuesAssumption == Venues \subseteq {"coinbase", "kraken", "binance"}

VARIABLES
    venue,          \* which adapter this is
    connected,      \* connected_
    authenticated,  \* authenticated_, of Coinbase only
    stopped,        \* ioc_ has been stopped
    guarded,        \* work_guard_ keeps run() from returning for want of work
    joinable,       \* io_thread_.joinable()
    reading,        \* an async_read is outstanding
    at,             \* where each of the two threads is
    back            \* where a thread in disconnect will go on

vars == <<venue, connected, authenticated, stopped, guarded, joinable, reading,
          at, back>>

Threads == {"owner", "io"}

InDisconnect == {"checking", "clearing", "stopping", "joining"}

OwnerPcs == {"new", "idle", "disconnected", "releasing", "finalJoin",
             "destroyed"} \cup InDisconnect

\* The io thread calls disconnect too, but does not get as far as to wait.
IoPcs == {"running", "callback", "reconnecting", "exited"}
            \cup (InDisconnect \ {"joining"})

TypeOK ==
    /\ venue \in Venues
    /\ connected \in BOOLEAN
    /\ authenticated \in BOOLEAN
    /\ stopped \in BOOLEAN
    /\ guarded \in BOOLEAN
    /\ joinable \in BOOLEAN
    /\ reading \in BOOLEAN
    /\ at \in [Threads -> OwnerPcs \cup IoPcs]
    /\ at["owner"] \in OwnerPcs
    /\ at["io"] \in IoPcs
    /\ back \in [Threads -> OwnerPcs \cup IoPcs]
    /\ back["owner"] \in {"disconnected", "releasing"}
    /\ back["io"] \in {"running", "reconnecting"}

\* The constructor has started the io thread.
Init ==
    /\ venue \in Venues
    /\ connected = FALSE
    /\ authenticated = FALSE
    /\ stopped = FALSE
    /\ guarded = TRUE
    /\ joinable = TRUE
    /\ reading = FALSE
    /\ at = [t \in Threads |-> IF t = "owner" THEN "new" ELSE "running"]
    /\ back = [t \in Threads |->
                 IF t = "owner" THEN "disconnected" ELSE "running"]

Go(t, pc) == at' = [at EXCEPT ![t] = pc]

-----------------------------------------------------------------------------
\* connect, called by t, which goes on at pc: already connected it does
\* nothing; else the handshakes succeed and the first read begins, or
\* something throws and nothing of the adapter's own state has changed.
Connect(t, pc) ==
    /\ \/ connected /\ UNCHANGED <<connected, reading>>
       \/ ~connected /\ connected' = TRUE /\ reading' = TRUE
       \/ ~connected /\ UNCHANGED <<connected, reading>>
    /\ Go(t, pc)
    /\ UNCHANGED <<venue, authenticated, stopped, guarded, joinable, back>>

\* disconnect, called by t, which goes on at pc when it returns.
CallDisconnect(t, pc) ==
    /\ Go(t, "checking")
    /\ back' = [back EXCEPT ![t] = pc]

\* Its test of connected_, the store that the other thread may come before,
\* and the stop of ioc_.
DisconnectCheck(t) ==
    /\ at[t] = "checking"
    /\ Go(t, IF connected THEN "clearing" ELSE back[t])
    /\ UNCHANGED <<venue, connected, authenticated, stopped, guarded, joinable,
                   reading, back>>

\* Faulty: the flag is left as it is.
DisconnectClearsNothing(t) ==
    /\ at[t] = "clearing"
    /\ Go(t, "stopping")
    /\ UNCHANGED <<venue, connected, authenticated, stopped, guarded, joinable,
                   reading, back>>

DisconnectClear(t) ==
    /\ at[t] = "clearing"
    /\ connected' = FALSE
    /\ Go(t, "stopping")
    /\ UNCHANGED <<venue, authenticated, stopped, guarded, joinable, reading, back>>

\* The io thread cannot join itself: join throws, and disconnect catches.
\* Faulty: any thread joins the io thread, itself included; and ioc_ is not
\* stopped.
DisconnectStopSelfJoining(t) ==
    /\ at[t] = "stopping"
    /\ stopped' = TRUE
    /\ Go(t, IF joinable THEN "joining" ELSE back[t])
    /\ UNCHANGED <<venue, connected, authenticated, guarded, joinable, reading, back>>

DisconnectNoStop(t) ==
    /\ at[t] = "stopping"
    /\ Go(t, IF t = "owner" /\ joinable THEN "joining" ELSE back[t])
    /\ UNCHANGED <<venue, connected, authenticated, stopped, guarded, joinable,
                   reading, back>>

DisconnectStop(t) ==
    /\ at[t] = "stopping"
    /\ stopped' = TRUE
    /\ Go(t, IF t = "owner" /\ joinable THEN "joining" ELSE back[t])
    /\ UNCHANGED <<venue, connected, authenticated, guarded, joinable, reading, back>>

\* Faulty: the io thread is detached.
DisconnectDetach ==
    /\ at["owner"] = "joining"
    /\ joinable' = FALSE
    /\ Go("owner", back["owner"])
    /\ UNCHANGED <<venue, connected, authenticated, stopped, guarded, reading, back>>

DisconnectJoin ==
    /\ at["owner"] = "joining"
    /\ at["io"] = "exited"
    /\ joinable' = FALSE
    /\ Go("owner", back["owner"])
    /\ UNCHANGED <<venue, connected, authenticated, stopped, guarded, reading, back>>

-----------------------------------------------------------------------------
\* The owner's thread.  It may connect again, though not while the io thread
\* is doing so: two handshakes on one stream are no state to reason about.
OwnerConnect ==
    /\ at["owner"] \in {"new", "idle"}
    /\ at["io"] \in {"running", "callback", "exited"}
    /\ Connect("owner", "idle")

OwnerDisconnect ==
    /\ at["owner"] \in {"idle", "disconnected"}
    /\ CallDisconnect("owner", "disconnected")
    /\ UNCHANGED <<venue, connected, authenticated, stopped, guarded, joinable,
                   reading>>

\* The destructor: disconnect, release the work guard, join.
Destroy ==
    /\ at["owner"] \in {"new", "idle", "disconnected"}
    /\ CallDisconnect("owner", "releasing")
    /\ UNCHANGED <<venue, connected, authenticated, stopped, guarded, joinable,
                   reading>>

\* Faulty: the destructor relies on disconnect for the join; and it keeps
\* the work guard.
ReleaseNoJoin ==
    /\ at["owner"] = "releasing"
    /\ guarded' = FALSE
    /\ Go("owner", "destroyed")
    /\ UNCHANGED <<venue, connected, authenticated, stopped, joinable, reading, back>>

ReleaseNothing ==
    /\ at["owner"] = "releasing"
    /\ Go("owner", IF joinable THEN "finalJoin" ELSE "destroyed")
    /\ UNCHANGED <<venue, connected, authenticated, stopped, guarded, joinable,
                   reading, back>>

Release ==
    /\ at["owner"] = "releasing"
    /\ guarded' = FALSE
    /\ Go("owner", IF joinable THEN "finalJoin" ELSE "destroyed")
    /\ UNCHANGED <<venue, connected, authenticated, stopped, joinable, reading, back>>

FinalJoin ==
    /\ at["owner"] = "finalJoin"
    /\ at["io"] = "exited"
    /\ joinable' = FALSE
    /\ Go("owner", "destroyed")
    /\ UNCHANGED <<venue, connected, authenticated, stopped, guarded, reading, back>>

-----------------------------------------------------------------------------
\* The io thread.  run() hands it the completion of the outstanding read.
ReadCompletes ==
    /\ at["io"] = "running"
    /\ reading
    /\ ~stopped

\* A snapshot or an update of the book: the registered callback runs.
\* Faulty: the next read begins before the callback runs.
ReadBookEagerly ==
    /\ ReadCompletes
    /\ Go("io", "callback")
    /\ UNCHANGED <<venue, connected, authenticated, stopped, guarded, joinable,
                   reading, back>>

ReadBook ==
    /\ ReadCompletes
    /\ reading' = FALSE
    /\ Go("io", "callback")
    /\ UNCHANGED <<venue, connected, authenticated, stopped, guarded, joinable, back>>

\* Faulty: on_message returns from where the callback was called.
CallbackReturnsSilently ==
    /\ at["io"] = "callback"
    /\ Go("io", "running")
    /\ UNCHANGED <<venue, connected, authenticated, stopped, guarded, joinable,
                   reading, back>>

\* When it has, Kraken's and Binance's on_message read on; Coinbase's returns.
CallbackReturns ==
    /\ at["io"] = "callback"
    /\ reading' = (venue # "coinbase")
    /\ Go("io", "running")
    /\ UNCHANGED <<venue, connected, authenticated, stopped, guarded, joinable, back>>

\* What they log and return from without another read: confirmations, status
\* and error messages, Coinbase's successful authentication, and a message of
\* its book that does not parse.
ReadNotice ==
    /\ ReadCompletes
    /\ reading' = FALSE
    /\ authenticated' \in {authenticated} \cup
          (IF venue = "coinbase" THEN {TRUE} ELSE {})
    /\ UNCHANGED <<venue, connected, stopped, guarded, joinable, at, back>>

\* Coinbase: the authentication was refused, in an answer or as an error.
ReadRefusal ==
    /\ ReadCompletes
    /\ venue = "coinbase"
    /\ reading' = FALSE
    /\ authenticated' \in {authenticated, FALSE}
    /\ CallDisconnect("io", "running")
    /\ UNCHANGED <<venue, connected, stopped, guarded, joinable>>

\* A message of no known type, or one that is not JSON: read on.
ReadUnknown == ReadCompletes /\ UNCHANGED vars

\* The read fails.
ReadError ==
    /\ ReadCompletes
    /\ reading' = FALSE
    /\ \/ connected /\ CallDisconnect("io", "reconnecting")
       \/ ~connected /\ UNCHANGED <<at, back>>
    /\ UNCHANGED <<venue, connected, authenticated, stopped, guarded, joinable>>

Reconnect == at["io"] = "reconnecting" /\ Connect("io", "running")

\* run() returns, and with it the thread's function.
RunReturns ==
    /\ at["io"] = "running"
    /\ stopped \/ (~guarded /\ ~reading)
    /\ Go("io", "exited")
    /\ UNCHANGED <<venue, connected, authenticated, stopped, guarded, joinable,
                   reading, back>>

-----------------------------------------------------------------------------
\* What a call that has begun does next, on either thread.
OwnerGoesOn ==
    \/ DisconnectCheck("owner") \/ DisconnectClear("owner")
    \/ DisconnectStop("owner") \/ DisconnectJoin
    \/ Release \/ FinalJoin

IoGoesOn ==
    \/ DisconnectCheck("io") \/ DisconnectClear("io") \/ DisconnectStop("io")
    \/ CallbackReturns \/ RunReturns

Reads == ReadBook \/ ReadNotice \/ ReadRefusal \/ ReadUnknown \/ ReadError

Next ==
    \/ OwnerConnect \/ OwnerDisconnect \/ Destroy
    \/ OwnerGoesOn
    \/ Reads
    \/ IoGoesOn \/ Reconnect

Spec == Init /\ [][Next]_vars

\* Both threads are scheduled, and the callback, which puts an update in a
\* queue, returns.  No message is promised, nor that the owner calls
\* anything, nor that connect returns: its handshakes have no timeout.
FairSpec == Spec /\ WF_vars(OwnerGoesOn) /\ WF_vars(IoGoesOn)

-----------------------------------------------------------------------------
\* TradingSystem::stop destroys the engine once disconnect has returned
\* (src/core/TradingSystem.cpp:94-99): no callback into it may be running or
\* begin, even when disconnect found the flag cleared by the io thread and
\* did not wait for it, and even when that thread connected again.
NoCallbackAfterDisconnect ==
    at["owner"] \in {"disconnected", "releasing", "finalJoin", "destroyed"}
        => at["io"] # "callback"

\* The io thread is gone when the members it uses are destroyed.
NoThreadAfterDestroy == at["owner"] = "destroyed" => at["io"] = "exited"

\* A websocket stream takes one async_read at a time: none is outstanding
\* where on_message, or the connect it calls, may begin another.
OneReadAtATime ==
    reading => at["io"] \notin {"callback", "reconnecting"}

HandshakesEnd == []<>(at["io"] # "reconnecting")

\* A handler that closed the connection itself or opened it again does not
\* keep the owner's disconnect waiting for ever, unless its handshake does.
DisconnectReturns ==
    HandshakesEnd => (at["owner"] = "joining" ~> at["owner"] # "joining")

\* Nor does the destructor wait for an io thread that never returns, though
\* the disconnect it began with may have found nothing to stop.
DestroyReturns ==
    HandshakesEnd => (at["owner"] = "releasing" ~> at["owner"] = "destroyed")

-----------------------------------------------------------------------------
\* What comments say the code does, and it does not.

\* "Continue reading" (src/exchanges/CoinbaseAdapter.cpp:284): between two
\* messages of an open connection a read is outstanding.
ContinuesReading ==
    connected /\ ~stopped /\ at["io"] = "running" => reading

\* "Try to reconnect if we're still supposed to be connected"
\* (src/exchanges/CoinbaseAdapter.cpp:215): when a failed read's disconnect
\* and connect are done and the adapter reports that it is connected, its
\* owner not having disconnected it, it can receive.  Yet disconnect stopped
\* ioc_, and nothing calls restart().
ReconnectedCanReceive ==
    /\ back["io"] = "reconnecting"
    /\ at["io"] \in {"running", "exited"}
    /\ at["owner"] = "idle"
    /\ connected
    => ~stopped
=============================================================================
