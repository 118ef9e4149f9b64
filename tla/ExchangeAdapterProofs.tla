------------------------ MODULE ExchangeAdapterProofs ------------------------
(***************************************************************************)
(* Theorems about ExchangeAdapter: what disconnect and the destructor      *)
(* promise of the io thread, for each of the adapters.                     *)
(***************************************************************************)
EXTENDS ExchangeAdapter, TLAPS

\* disconnect has returned to the owner.
Done == {"disconnected", "releasing", "finalJoin", "destroyed"}

\* While the owner has not disconnected, an io thread that has a read under
\* way, or has just completed one, is connected: disconnect will not find
\* the flag cleared and leave without a stop and a join.  Only its own
\* disconnect clears the flag, and that stops ioc_ before connect is called.
Attended ==
    /\ reading \/ at["io"] \in {"callback", "checking"} => connected
    /\ at["io"] = "reconnecting" => stopped

\* No callback is running and none can begin.
Quiet ==
    /\ at["io"] # "callback"
    /\ reading \/ at["io"] \in {"checking", "reconnecting"} => stopped

\* The inductive invariant.  checking is entered with either: from a first
\* call of disconnect, or from one after it.
Inv ==
    /\ reading => at["io"] \in {"running", "exited"}
    /\ ~joinable => at["io"] = "exited"
    /\ at["owner"] \in {"new", "idle"} => Attended
    /\ at["owner"] = "checking" => Attended \/ Quiet
    /\ at["owner"] = "joining" => stopped
    /\ at["owner"] \in Done => Quiet
    /\ at["owner"] = "destroyed" => at["io"] = "exited"

-----------------------------------------------------------------------------
\* A step leaves each thread where its own code can be.
LEMMA TypeStep == TypeOK /\ [Next]_vars => TypeOK'
<1> USE DEF Threads, InDisconnect, OwnerPcs, IoPcs
<1> SUFFICES ASSUME TypeOK, [Next]_vars PROVE TypeOK'
  OBVIOUS
<1> USE DEF TypeOK, Go, CallDisconnect, Connect
<1>1. CASE OwnerConnect
  BY <1>1 DEF OwnerConnect
<1>2. CASE OwnerDisconnect
  BY <1>2 DEF OwnerDisconnect
<1>3. CASE Destroy
  BY <1>3 DEF Destroy
<1>4. ASSUME NEW t \in Threads, DisconnectCheck(t) PROVE TypeOK'
  BY <1>4 DEF DisconnectCheck
<1>5. ASSUME NEW t \in Threads, DisconnectClear(t) PROVE TypeOK'
  BY <1>5 DEF DisconnectClear
<1>6. ASSUME NEW t \in Threads, DisconnectStop(t) PROVE TypeOK'
  BY <1>6 DEF DisconnectStop
<1>7. CASE DisconnectJoin
  BY <1>7 DEF DisconnectJoin
<1>8. CASE Release
  BY <1>8 DEF Release
<1>9. CASE FinalJoin
  BY <1>9 DEF FinalJoin
<1>10. CASE Reads
  <2> USE DEF ReadCompletes
  <2>1. CASE ReadBook
    BY <2>1 DEF ReadBook
  <2>2. CASE ReadNotice
    BY <2>2 DEF ReadNotice
  <2>3. CASE ReadRefusal
    BY <2>3 DEF ReadRefusal
  <2>4. CASE ReadError
    BY <2>4 DEF ReadError
  <2>5. CASE ReadUnknown
    BY <2>5 DEF ReadUnknown, vars
  <2> QED BY <1>10, <2>1, <2>2, <2>3, <2>4, <2>5 DEF Reads
<1>11. CASE CallbackReturns
  BY <1>11 DEF CallbackReturns
<1>12. CASE RunReturns
  BY <1>12 DEF RunReturns
<1>13. CASE Reconnect
  BY <1>13 DEF Reconnect
<1>14. CASE UNCHANGED vars
  BY <1>14 DEF vars
<1> QED BY <1>1, <1>2, <1>3, <1>4, <1>5, <1>6, <1>7, <1>8, <1>9, <1>10,
           <1>11, <1>12, <1>13, <1>14
        DEF Next, OwnerGoesOn, IoGoesOn

\* Each thread is where its own code can be: the io thread, which calls
\* disconnect and connect, never gets as far as to join itself.
THEOREM TypeCorrect == Spec => []TypeOK
<1>1. Init => TypeOK
  BY DEF Init, TypeOK, Threads, InDisconnect, OwnerPcs, IoPcs
<1> QED BY <1>1, TypeStep, PTL DEF Spec

-----------------------------------------------------------------------------
LEMMA InvHolds == Spec => []Inv
<1> USE DEF Threads, InDisconnect, OwnerPcs, IoPcs, Inv, Attended, Quiet, Done
<1>1. Init => Inv
  BY DEF Init
<1>2. TypeOK /\ Inv /\ [Next]_vars => Inv'
  <2> SUFFICES ASSUME TypeOK, Inv, [Next]_vars PROVE Inv'
    OBVIOUS
  <2> USE DEF TypeOK, Go, CallDisconnect, Connect
  <2>1. CASE OwnerConnect
    BY <2>1 DEF OwnerConnect
  <2>2. CASE OwnerDisconnect
    BY <2>2 DEF OwnerDisconnect
  <2>3. CASE Destroy
    BY <2>3 DEF Destroy
  <2>4. ASSUME NEW t \in Threads, DisconnectCheck(t) PROVE Inv'
    <3>1. CASE t = "owner"
      BY <2>4, <3>1 DEF DisconnectCheck
    <3>2. CASE t = "io"
      BY <2>4, <3>2 DEF DisconnectCheck
    <3> QED BY <3>1, <3>2
  <2>5. ASSUME NEW t \in Threads, DisconnectClear(t) PROVE Inv'
    <3>1. CASE t = "owner"
      BY <2>5, <3>1 DEF DisconnectClear
    <3>2. CASE t = "io"
      BY <2>5, <3>2 DEF DisconnectClear
    <3> QED BY <3>1, <3>2
  <2>6. ASSUME NEW t \in Threads, DisconnectStop(t) PROVE Inv'
    <3>1. CASE t = "owner"
      BY <2>6, <3>1 DEF DisconnectStop
    <3>2. CASE t = "io"
      BY <2>6, <3>2 DEF DisconnectStop
    <3> QED BY <3>1, <3>2
  <2>7. CASE DisconnectJoin
    BY <2>7 DEF DisconnectJoin
  <2>8. CASE Release
    BY <2>8 DEF Release
  <2>9. CASE FinalJoin
    BY <2>9 DEF FinalJoin
  <2>10. CASE ReadBook
    BY <2>10 DEF ReadBook, ReadCompletes
  <2>11. CASE ReadNotice
    BY <2>11 DEF ReadNotice, ReadCompletes
  <2>12. CASE ReadRefusal
    BY <2>12 DEF ReadRefusal, ReadCompletes
  <2>13. CASE ReadError
    BY <2>13 DEF ReadError, ReadCompletes
  <2>14. CASE CallbackReturns
    BY <2>14 DEF CallbackReturns
  <2>15. CASE RunReturns
    BY <2>15 DEF RunReturns
  <2>16. CASE Reconnect
    BY <2>16 DEF Reconnect
  <2>17. CASE ReadUnknown \/ UNCHANGED vars
    BY <2>17 DEF ReadUnknown, vars
  <2> QED BY <2>1, <2>2, <2>3, <2>4, <2>5, <2>6, <2>7, <2>8, <2>9, <2>10,
             <2>11, <2>12, <2>13, <2>14, <2>15, <2>16, <2>17
          DEF Next, OwnerGoesOn, IoGoesOn, Reads
<1> QED BY <1>1, <1>2, TypeCorrect, PTL DEF Spec

\* Once disconnect has returned, no callback into the engine runs.
THEOREM DisconnectedIsQuiet == Spec => []NoCallbackAfterDisconnect
<1>1. Inv => NoCallbackAfterDisconnect
  BY DEF Inv, Done, Quiet, NoCallbackAfterDisconnect
<1> QED BY <1>1, InvHolds, PTL

\* Nor is there a thread that could run one, after the destructor.
THEOREM DestroyedIsAlone == Spec => []NoThreadAfterDestroy
<1>1. Inv => NoThreadAfterDestroy
  BY DEF Inv, NoThreadAfterDestroy
<1> QED BY <1>1, InvHolds, PTL

\* No read begins on a stream that has one outstanding.
THEOREM ReadsAreSingle == Spec => []OneReadAtATime
<1>1. Inv => OneReadAtATime
  BY DEF Inv, OneReadAtATime
<1> QED BY <1>1, InvHolds, PTL
=============================================================================
