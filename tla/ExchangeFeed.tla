------------------------------ MODULE ExchangeFeed ------------------------------
(***************************************************************************)
(* What goes over the connection of an adapter (ExchangeAdapter) and what  *)
(* comes out of it: the requests that connect, subscribe and unsubscribe   *)
(* write, the messages that the exchange sends, and the snapshots and      *)
(* deltas that the registered callbacks are given.                         *)
(*                                                                         *)
(* The exchange and the network are external: messages arrive in the order *)
(* in which they were sent, or the read fails.  So is the websocket, which *)
(* masks a message into a buffer of its own as a write begins, so that the *)
(* string written need not outlive the call; a write begun while another   *)
(* is outstanding comes to that only later, when the string is gone, and   *)
(* may send anything.                                                      *)
(***************************************************************************)
EXTENDS ExchangeAdapter, BookMessages

CONSTANTS
    Symbols,      \* the symbols the owner subscribes to
    Events,       \* what an exchange may have to say of a book
    MaxSent       \* bounds the messages of the exchange

ASSUME MaxSentAssumption == MaxSent \in Nat

Kinds == {"snapshot", "delta"}

\* An event has something to say.
ASSUME EventsAssumption ==
    \A e \in Events :
        /\ e \in [kind : Kinds, symbol : Symbols \ {NotText},
                  bids : Seq(Int \X Int), asks : Seq(Int \X Int)]
        /\ e.bids # <<>> \/ e.asks # <<>>

VARIABLES
    registered,  \* the kinds of event that a callback is registered for
    requests,    \* what has been written, and how far each has got
    coming,      \* the message of the exchange that the next read completes with
    sent,        \* how many messages it has sent
    said,        \* the events that it meant by those handled
    delivered,   \* the events that the callbacks were given
    silenced     \* whether on_message has returned from one without a read

feed == <<registered, requests, coming, sent, said, delivered, silenced>>
feedVars == <<vars, feed>>

\* A message, as JSON, and the event it means.
Message(means, data) == [means |-> means, data |-> data]

NoMessage == Message(Nothing, [text |-> ""])

FeedInit ==
    /\ Init
    /\ registered = {}
    /\ requests = <<>>
    /\ coming = NoMessage
    /\ sent = 0
    /\ said = <<>>
    /\ delivered = <<>>
    /\ silenced = FALSE

-----------------------------------------------------------------------------
\* registerOrderBookCallback and registerOrderBookDeltaCallback: the engine,
\* where there is one, calls both before the owner connects.
Register ==
    /\ at["owner"] = "new"
    /\ registered' = Kinds
    /\ UNCHANGED <<vars, requests, coming, sent, said, delivered, silenced>>

\* do_write: a write is late when another has yet to complete.  One begun
\* when ioc_ has stopped never completes, and is left out.
DoWrite(request) ==
    requests' = IF stopped THEN requests
                ELSE Append(requests,
                    [data |-> request,
                     fate |-> IF \E i \in DOMAIN requests :
                                    requests[i].fate \in {"writing", "late"}
                              THEN "late" ELSE "writing"])

Authentication == [type |-> "authenticate"]

\* A connect that succeeds: Coinbase's writes a request for authentication.
\* Faulty: so do the others'.
AuthenticatingAlways ==
    IF ~connected /\ connected'
    THEN DoWrite(Authentication)
    ELSE UNCHANGED requests

Authenticating ==
    IF venue = "coinbase" /\ ~connected /\ connected'
    THEN DoWrite(Authentication)
    ELSE UNCHANGED requests

FeedConnect ==
    /\ OwnerConnect \/ Reconnect
    /\ Authenticating
    /\ UNCHANGED <<registered, coming, sent, said, delivered, silenced>>

\* subscribe and unsubscribe return false, having done nothing, unless
\* connected.  TradingSystem, the one owner, subscribes once, and unsubscribes
\* as it begins to disconnect.
Called(request) == \E i \in DOMAIN requests : requests[i].data = request

Subscribe ==
    /\ at["owner"] = "idle"
    /\ connected
    /\ ~Called(SubscribeRequest(venue, Symbols))
    /\ DoWrite(SubscribeRequest(venue, Symbols))
    /\ UNCHANGED <<vars, registered, coming, sent, said, delivered, silenced>>

Unsubscribing ==
    IF connected
    THEN DoWrite(UnsubscribeRequest(venue, Symbols))
    ELSE UNCHANGED requests

FeedDisconnect ==
    /\ OwnerDisconnect
    /\ Unsubscribing
    /\ UNCHANGED <<registered, coming, sent, said, delivered, silenced>>

\* The first write outstanding completes, its handler having nothing to do.
WriteCompletes ==
    /\ at["io"] = "running"
    /\ ~stopped
    /\ \E i \in DOMAIN requests :
        /\ requests[i].fate \in {"writing", "late"}
        /\ \A j \in 1..(i - 1) : requests[j].fate \in {"sent", "garbled"}
        /\ \E fate \in {"sent"} \cup
                 (IF requests[i].fate = "late" THEN {"garbled"} ELSE {}) :
              requests' = [requests EXCEPT ![i].fate = fate]
    /\ UNCHANGED <<vars, registered, coming, sent, said, delivered, silenced>>

-----------------------------------------------------------------------------
\* The exchange sends: a notice at any time, an event of a book that it has
\* been asked for.  A request may reach it before its write completes.  That
\* messages wait for one another no adapter can tell, so one at a time is on
\* its way; and what comes when ioc_ has stopped nobody reads.
AskedFor ==
    UNION {Asks(requests[i].data) :
             i \in {j \in DOMAIN requests : requests[j].fate \in {"writing", "sent"}}}

Send(message) ==
    /\ connected \/ reading
    /\ ~stopped
    /\ coming = NoMessage
    /\ sent < MaxSent
    /\ coming' = message
    /\ sent' = sent + 1
    /\ UNCHANGED <<vars, registered, requests, said, delivered, silenced>>

SendNotice == \E data \in Notices(venue) : Send(Message(Nothing, data))

SendEvent ==
    \E e \in Events : e.symbol \in AskedFor /\ Send(Message(e, Written(venue, e)))

-----------------------------------------------------------------------------
\* An event that every handler can read.
Readable(e) == Parses(e.bids) /\ Parses(e.asks)

\* What a message says to those who registered for it.  Kraken's symbol alone
\* is not the exchange's.
Meant(message) ==
    IF \/ message.means = Nothing
       \/ ~Readable(message.means)
       \/ message.means.kind \notin registered
    THEN <<>>
    ELSE IF venue = "kraken" THEN <<[message.means EXCEPT !.symbol = KrakenSymbol]>>
    ELSE <<message.means>>

\* on_message, which gives an event that no callback is registered for to none.
Handled == OnMessage(venue, coming.data, authenticated)

Delivers == Handled.event # Nothing /\ Handled.event.kind \in registered

OnMessageStep ==
    /\ coming # NoMessage
    /\ coming' = NoMessage
    /\ said' = said \o Meant(coming)
    /\ UNCHANGED <<registered, requests, sent>>

ReceiveEvent ==
    /\ OnMessageStep
    /\ Delivers
    /\ ReadBook
    /\ delivered' = Append(delivered, Handled.event)
    /\ UNCHANGED silenced

ReceiveQuietly ==
    /\ OnMessageStep
    /\ ~Delivers
    /\ \/ Handled.next = "return" /\ ReadNotice
       \/ Handled.next = "disconnect" /\ ReadRefusal
       \/ Handled.next = "read" /\ ReadUnknown
    /\ authenticated' = Handled.authenticated
    /\ silenced' = (silenced \/ Handled.next = "return")
    /\ UNCHANGED delivered

Receives ==
    \/ ReceiveEvent
    \/ ReceiveQuietly
    \/ ReadError /\ UNCHANGED feed

-----------------------------------------------------------------------------
\* With ioc_ stopped no handler runs again: what is under way in either
\* direction is lost.
Losing ==
    /\ IF stopped'
       THEN requests' = <<>> /\ coming' = NoMessage
       ELSE UNCHANGED <<requests, coming>>
    /\ UNCHANGED <<registered, sent, said, delivered, silenced>>

FeedOwnerGoesOn == OwnerGoesOn /\ Losing

FeedIoGoesOn == IoGoesOn /\ Losing

FeedNext ==
    \/ Register
    \/ FeedConnect
    \/ Subscribe \/ FeedDisconnect
    \/ WriteCompletes
    \/ SendNotice \/ SendEvent
    \/ Receives
    \/ FeedOwnerGoesOn \/ FeedIoGoesOn
    \/ Destroy /\ UNCHANGED feed

FeedSpec == FeedInit /\ [][FeedNext]_feedVars

\* The threads are scheduled, as in ExchangeAdapter.  The network carries
\* what has been written and sent, or fails the read.
FeedFairSpec ==
    /\ FeedSpec
    /\ WF_feedVars(FeedOwnerGoesOn)
    /\ WF_feedVars(FeedIoGoesOn)
    /\ WF_feedVars(WriteCompletes)
    /\ WF_feedVars(Receives)

-----------------------------------------------------------------------------
\* The callbacks are given what the exchange said of its book: every event
\* that can be read, whole, on its own side, in the order sent, and nothing
\* else.  A message that cannot be read to its end leaves no part of itself
\* behind.
DeliveredAsSaid == delivered = said

\* Kraken and Binance read on after an event, after one they cannot read and
\* one that nobody takes: a message that has come is handled, unless ioc_
\* stops or a notice has ended the reading before.
MessagesAreHandled ==
    venue # "coinbase" =>
        (coming # NoMessage ~> coming = NoMessage \/ stopped \/ silenced)

\* Kraken and Binance write nothing as they connect: the first request of
\* the owner's overlaps no other write and goes out as it was made, unless
\* ioc_ stops.
FirstRequestIsSent ==
    LET first(i) == /\ i \in DOMAIN requests
                    /\ requests[i].data # Authentication
                    /\ \A j \in 1..(i - 1) : requests[j].data = Authentication
    IN  venue # "coinbase" =>
            \A i \in 1..2 :
                first(i) ~> (first(i) /\ requests[i].fate = "sent") \/ stopped
=============================================================================
