-------------------------- MODULE TradingSystemProofs --------------------------
(***************************************************************************)
(* Theorems about TradingSystem: what stop and main promise, for any set   *)
(* of signals, however many come and however their handlers nest.          *)
(***************************************************************************)
EXTENDS TradingSystem, ExchangeAdapterProofs, SequenceTheorems

\* An adapter that TradingSystem has not created.
Unused == ~connected /\ ~reading /\ at["io"] \in {"running", "exited"}

\* The io thread, whatever the owner does.
IoInv ==
    /\ reading => at["io"] \in {"running", "exited"}
    /\ ~joinable => at["io"] = "exited"
    /\ at["owner"] = "destroyed" => at["io"] = "exited"
    /\ \A i \in DOMAIN frames : frames[i].at = "destroyed" => at["io"] = "exited"
    /\ ~created => Unused

\* How far main can be with which frames and which engine.
MainInv ==
    /\ main = "connecting" => created /\ engine = "running"
    /\ main \in {"loading", "exchanges", "engine", "connecting", "failing",
                 "returned"} => frames = <<>>
    /\ main \in {"loading", "exchanges", "engine", "connecting", "failing"}
         => at["owner"] = "new" /\ Unused
    /\ main \in {"loading", "exchanges", "engine"} => engine = "none"
    /\ main \in {"loading", "exchanges"} => ~created
    /\ main = "failing" => engine \in {"none", "running"}
    /\ main = "destroying" => Len(frames) <= 1
    /\ main = "destroying" /\ engine = "stopping"
         => Len(frames) = 1 /\ frames[1].pc = "joining"
    /\ main = "destroying" /\ engine = "running" => Len(frames) = 1
    /\ main = "returned" => engine \in {"none", "destroyed"}
    /\ main = "returned" /\ created => at["io"] = "exited"
    /\ engine \in {"none", "destroyed"} => ~working
    /\ engine = "none" => Unused

\* A frame above an owner in the middle of a disconnect shows in overtaken.
FramesInv ==
    /\ \A i \in DOMAIN frames : frames[i].at \in {"stopping", "joining"} => overtaken
    /\ at["owner"] \in {"stopping", "joining"} /\ Depth > 0 /\ ~In("disconnecting")
         => overtaken

\* Where no signal overtakes a disconnect: what ExchangeAdapterProofs says of
\* one adapter, and that a stop which is past its disconnect leaves it quiet.
QuietInv ==
    /\ at["owner"] \in {"new", "idle", "checking", "clearing"} => Attended \/ Quiet
    /\ at["owner"] = "joining" => stopped
    /\ at["owner"] \in Done => Quiet
    /\ \A i \in DOMAIN frames : frames[i].pc \in {"resetting", "joining"} => Quiet
    /\ engine \in {"stopping", "destroyed"} => Quiet

SystemInv == IoInv /\ MainInv /\ FramesInv /\ (~overtaken => QuietInv)

-----------------------------------------------------------------------------
\* The calls of stop: one more, the innermost further, one less.
LEMMA Entered ==
    ASSUME NEW s \in Seq(Frame), NEW f \in Frame
    PROVE  /\ Append(s, f) \in Seq(Frame)
           /\ Len(Append(s, f)) = Len(s) + 1
           /\ \A i \in DOMAIN Append(s, f) :
                Append(s, f)[i] = f \/ (i \in DOMAIN s /\ Append(s, f)[i] = s[i])
           /\ Append(s, f)[Len(s) + 1] = f
OBVIOUS

LEMMA Proceeded ==
    ASSUME frames \in Seq(Frame), Depth > 0, NEW pc \in StopPcs, Proceed(pc)
    PROVE  /\ frames' \in Seq(Frame)
           /\ Len(frames') = Len(frames)
           /\ \A i \in DOMAIN frames' :
                /\ i \in DOMAIN frames
                /\ frames'[i].at = frames[i].at
                /\ i # Depth => frames'[i] = frames[i]
           /\ frames'[Depth].pc = pc
<1> DEFINE f == [frames[Depth] EXCEPT !.pc = pc]
<1>1. Depth \in 1..Len(frames) /\ frames[Depth] \in Frame /\ DOMAIN frames = 1..Len(frames)
  BY DEF Depth
<1>2. f \in Frame /\ f.at = frames[Depth].at /\ f.pc = pc
  BY <1>1 DEF Frame
<1>3. frames' = [frames EXCEPT ![Depth] = f]
  BY DEF Proceed
<1>4. /\ frames' \in Seq(Frame)
      /\ Len(frames') = Len(frames)
      /\ \A i \in 1..Len(frames) : frames'[i] = IF i = Depth THEN f ELSE frames[i]
  <2> HIDE DEF f
  <2> QED BY <1>1, <1>2, <1>3, ExceptSeq
<1>5. DOMAIN frames' = 1..Len(frames)
  BY <1>4
<1> QED
  <2> HIDE DEF f
  <2> QED BY <1>1, <1>2, <1>4, <1>5

LEMMA Returned ==
    ASSUME NEW s \in Seq(Frame), Len(s) > 0
    PROVE  /\ SubSeq(s, 1, Len(s) - 1) \in Seq(Frame)
           /\ Len(SubSeq(s, 1, Len(s) - 1)) = Len(s) - 1
           /\ \A i \in DOMAIN SubSeq(s, 1, Len(s) - 1) :
                i \in DOMAIN s /\ SubSeq(s, 1, Len(s) - 1)[i] = s[i]
<1> DEFINE n == Len(s) - 1
           t == SubSeq(s, 1, n)
<1>1. /\ n \in Nat
      /\ DOMAIN s = 1..Len(s)
      /\ \A i \in 1..n : i \in DOMAIN s /\ s[i] \in Frame
  OBVIOUS
<1>2. /\ t \in Seq(Frame)
      /\ Len(t) = IF 1 <= n THEN n - 1 + 1 ELSE 0
      /\ \A i \in 1..(n - 1 + 1) : t[i] = s[1 + i - 1]
  BY <1>1, SubSeqProperties
<1>3. Len(t) = n /\ DOMAIN t = 1..n /\ \A i \in 1..n : t[i] = s[i]
  <2> HIDE DEF n, t
  <2> QED BY <1>1, <1>2
<1> QED BY <1>1, <1>2, <1>3

LEMMA Innermost ==
    ASSUME frames \in Seq(Frame), Depth > 0
    PROVE  Depth \in DOMAIN frames /\ frames[Depth] \in Frame
BY DEF Depth

-----------------------------------------------------------------------------
\* What each thread of the adapter does to what the invariant speaks of.
IoSteps == Reads \/ IoGoesOn \/ Reconnect

LEMMA IoKeeps ==
    ASSUME TypeOK, IoSteps,
           reading => at["io"] \in {"running", "exited"},
           ~joinable => at["io"] = "exited"
    PROVE  /\ at'["owner"] = at["owner"]
           /\ joinable' = joinable
           /\ stopped => stopped'
           /\ at["io"] = "exited" => at'["io"] = "exited"
           /\ Unused => Unused'
           /\ reading' => at'["io"] \in {"running", "exited"}
           /\ Attended => Attended' \/ Quiet'
           /\ Quiet => Quiet'
<1> USE DEF TypeOK, Threads, InDisconnect, OwnerPcs, IoPcs, Go, CallDisconnect,
            Unused, Attended, Quiet
<1>1. CASE ReadBook
  BY <1>1 DEF ReadBook, ReadCompletes
<1>2. CASE ReadNotice
  BY <1>2 DEF ReadNotice, ReadCompletes
<1>3. CASE ReadRefusal
  BY <1>3 DEF ReadRefusal, ReadCompletes
<1>4. CASE ReadUnknown
  BY <1>4 DEF ReadUnknown, ReadCompletes, vars
<1>5. CASE ReadError
  BY <1>5 DEF ReadError, ReadCompletes
<1>6. CASE DisconnectCheck("io")
  BY <1>6 DEF DisconnectCheck
<1>7. CASE DisconnectClear("io")
  BY <1>7 DEF DisconnectClear
<1>8. CASE DisconnectStop("io")
  BY <1>8 DEF DisconnectStop
<1>9. CASE CallbackReturns
  BY <1>9 DEF CallbackReturns
<1>10. CASE RunReturns
  BY <1>10 DEF RunReturns
<1>11. CASE Reconnect
  BY <1>11 DEF Reconnect, Connect
<1> QED BY <1>1, <1>2, <1>3, <1>4, <1>5, <1>6, <1>7, <1>8, <1>9, <1>10, <1>11
        DEF IoSteps, Reads, IoGoesOn

LEMMA OwnerKeeps ==
    ASSUME TypeOK, OwnerGoesOn,
           ~joinable => at["io"] = "exited"
    PROVE  /\ at'["io"] = at["io"]
           /\ ~joinable' => at["io"] = "exited"
           /\ UNCHANGED reading
           /\ stopped => stopped'
           /\ connected' => connected
           /\ at'["owner"] = "destroyed" => at["io"] = "exited"
           /\ at'["owner"] \notin {"new", "idle", "checking"}
           /\ at'["owner"] = "clearing" =>
                at["owner"] = "checking" /\ UNCHANGED <<connected, stopped>>
           /\ at'["owner"] = "joining" => stopped'
           /\ Quiet => Quiet'
           /\ /\ at["owner"] \in {"checking", "clearing"} => Attended \/ Quiet
              /\ at["owner"] = "joining" => stopped
              /\ at["owner"] \in Done => Quiet
              => (at'["owner"] \in Done => Quiet')
<1> USE DEF TypeOK, Threads, InDisconnect, OwnerPcs, IoPcs, Go, Attended, Quiet,
            Done
<1>1. CASE DisconnectCheck("owner")
  BY <1>1 DEF DisconnectCheck
<1>2. CASE DisconnectClear("owner")
  BY <1>2 DEF DisconnectClear
<1>3. CASE DisconnectStop("owner")
  BY <1>3 DEF DisconnectStop
<1>4. CASE DisconnectJoin
  BY <1>4 DEF DisconnectJoin
<1>5. CASE Release
  BY <1>5 DEF Release
<1>6. CASE FinalJoin
  BY <1>6 DEF FinalJoin
<1> QED BY <1>1, <1>2, <1>3, <1>4, <1>5, <1>6 DEF OwnerGoesOn

-----------------------------------------------------------------------------
\* Every state has a place for each thread, and each frame of stop a place
\* to return to.
THEOREM SystemTypeCorrect == SystemSpec => []SystemTypeOK
<1>1. SystemInit => SystemTypeOK
  <2>1. Init => TypeOK
    BY DEF Init, TypeOK, Threads, InDisconnect, OwnerPcs, IoPcs
  <2>2. <<>> \in Seq(Frame)
    OBVIOUS
  <2>3. 0 \in 0..MaxSignals
    BY MaxSignalsAssumption
  <2> SUFFICES ASSUME SystemInit PROVE SystemTypeOK
    OBVIOUS
  <2>4. TypeOK
    BY <2>1 DEF SystemInit
  <2>5. frames \in Seq(Frame)
    BY <2>2 DEF SystemInit
  <2> QED BY <2>3, <2>4, <2>5 DEF SystemInit, SystemTypeOK, MainPcs
<1>2. SystemTypeOK /\ [SystemNext]_sysVars => SystemTypeOK'
  <2> SUFFICES ASSUME SystemTypeOK, [SystemNext]_sysVars PROVE SystemTypeOK'
    OBVIOUS
  <2> USE DEF SystemTypeOK, MainPcs, StopPcs
  <2>1. UNCHANGED vars => TypeOK'
    BY TypeStep
  <2>2. OwnerConnect \/ Destroy \/ OwnerGoesOn \/ Reads \/ IoGoesOn \/ Reconnect
          => TypeOK'
    BY TypeStep DEF Next
  <2>3. /\ [signal |-> NoSignal, pc |-> "unsubscribing",
            at |-> at["owner"], back |-> back["owner"]] \in Frame
        /\ \A signal \in Signals :
             [signal |-> signal, pc |-> "unsubscribing",
              at |-> at["owner"], back |-> back["owner"]] \in Frame
    BY DEF TypeOK, Frame
  <2>4. CASE LoadConfig \/ InitializeExchanges \/ InitializeEngine \/ Return
             \/ EngineThreadsExit
    BY <2>1, <2>4 DEF LoadConfig, InitializeExchanges, InitializeEngine, Return,
                      EngineThreadsExit
  <2>5. CASE ConnectAdapter \/ DestroyAdapter \/ AdapterGoesOn
    BY <2>2, <2>5 DEF ConnectAdapter, DestroyAdapter, AdapterGoesOn, system
  <2>6. CASE (Reads \/ IoGoesOn \/ Reconnect) /\ UNCHANGED system
    BY <2>2, <2>6 DEF system
  <2>7. CASE Fail
    <3>1. frames' \in Seq(Frame)
      BY <2>3, <2>7 DEF Fail
    <3> QED BY <2>1, <2>7, <3>1 DEF Fail
  <2>8. ASSUME NEW signal \in Signals, Handle(signal) PROVE SystemTypeOK'
    <3>1. frames' \in Seq(Frame)
      BY <2>3, <2>8, Entered DEF Handle
    <3>2. held' \in BOOLEAN /\ overtaken' \in BOOLEAN
      BY <2>8, Zenon DEF Handle
    <3>3. arrived' \in 0..MaxSignals
      BY <2>8, MaxSignalsAssumption DEF Handle
    <3> QED BY <2>1, <2>8, <3>1, <3>2, <3>3 DEF Handle
  <2>9. ASSUME NEW pc \in StopPcs, Depth > 0, Proceed(pc)
        PROVE  frames' \in Seq(Frame)
    BY <2>9, Proceeded
  <2>10. CASE StopAdapter
    <3>1. frames' \in Seq(Frame)
      BY <2>9, <2>10 DEF StopAdapter, In
    <3>2. TypeOK'
      BY <2>10 DEF StopAdapter, CallDisconnect, Go, TypeOK, Threads, OwnerPcs,
                   IoPcs, InDisconnect
    <3> QED BY <2>10, <3>1, <3>2 DEF StopAdapter
  <2>11. CASE AdapterStopped \/ ResetEngine \/ DestroyEngine
    <3>1. frames' \in Seq(Frame)
      BY <2>9, <2>11 DEF AdapterStopped, ResetEngine, DestroyEngine, In
    <3> QED BY <2>1, <2>11, <3>1 DEF AdapterStopped, ResetEngine, DestroyEngine
  <2>12. CASE StopReturns
    <3>1. Depth \in Nat /\ Depth > 0 /\ frames[Depth] \in Frame
      BY <2>12, Innermost DEF StopReturns, In, Depth
    <3>2. frames' \in Seq(Frame)
      BY <2>12, <3>1, Returned DEF StopReturns, Depth
    <3>3. TypeOK'
      BY <2>12, <3>1 DEF StopReturns, Frame, TypeOK, Threads, OwnerPcs, IoPcs,
                         InDisconnect
    <3> QED BY <2>12, <3>2, <3>3 DEF StopReturns
  <2>13. CASE UNCHANGED sysVars
    BY <2>1, <2>13 DEF sysVars, system
  <2> QED BY <2>4, <2>5, <2>6, <2>7, <2>8, <2>10, <2>11, <2>12, <2>13
          DEF SystemNext, MainGoesOn
<1> QED BY <1>1, <1>2, PTL DEF SystemSpec

-----------------------------------------------------------------------------
\* The inductive invariant, one part after the other.
LEMMA QuietStays ==
    ASSUME TypeOK, Quiet, at'["io"] = at["io"], UNCHANGED <<reading, stopped>>
    PROVE  Quiet'
BY DEF Quiet

LEMMA AttendedStays ==
    ASSUME TypeOK, Attended, at'["io"] = at["io"],
           UNCHANGED <<reading, stopped, connected>>
    PROVE  Attended'
BY DEF Attended

LEMMA IoInvHolds ==
    ASSUME SystemTypeOK, IoInv, MainInv, [SystemNext]_sysVars
    PROVE  IoInv'
<1> USE DEF IoInv
<1>0. TypeOK /\ frames \in Seq(Frame)
  BY DEF SystemTypeOK
<1>1. CASE IoSteps /\ UNCHANGED system
  BY <1>0, <1>1, IoKeeps DEF system
<1>2. CASE AdapterGoesOn
  <2>1. OwnerGoesOn /\ UNCHANGED system
    BY <1>2 DEF AdapterGoesOn
  <2>2. ~created => Unused'
    BY <1>0, <2>1, OwnerKeeps DEF Unused, TypeOK
  <2> QED BY <1>0, <2>1, <2>2, OwnerKeeps DEF system
<1>3. CASE ConnectAdapter
  <2>1. /\ at'["io"] = at["io"] /\ at'["owner"] = "idle"
        /\ UNCHANGED <<created, frames, joinable>>
    BY <1>0, <1>3 DEF ConnectAdapter, OwnerConnect, Connect, Go, TypeOK, Threads
  <2>2. at["io"] \in {"running", "exited"} /\ created
    BY <1>3 DEF ConnectAdapter, MainInv, Unused
  <2> QED BY <2>1, <2>2
<1>4. CASE DestroyAdapter \/ StopAdapter
  <2>1. /\ at'["io"] = at["io"]
        /\ UNCHANGED <<created, connected, reading, joinable>>
        /\ at'["owner"] = "destroyed" => at["owner"] = "destroyed"
    BY <1>0, <1>4 DEF DestroyAdapter, StopAdapter, Destroy, CallDisconnect, Go,
                      TypeOK, Threads, system
  <2>2. \A i \in DOMAIN frames' : i \in DOMAIN frames /\ frames'[i].at = frames[i].at
    <3>1. CASE UNCHANGED frames
      BY <3>1
    <3>2. ASSUME NEW pc \in StopPcs, Depth > 0, Proceed(pc)
          PROVE  \A i \in DOMAIN frames' :
                    i \in DOMAIN frames /\ frames'[i].at = frames[i].at
      BY <1>0, <3>2, Proceeded
    <3> QED BY <1>4, <3>1, <3>2
            DEF DestroyAdapter, StopAdapter, In, StopPcs, system
  <2> QED BY <2>1, <2>2 DEF Unused
<1>5. CASE UNCHANGED vars /\ UNCHANGED frames /\ (created => created' \/ Unused)
  BY <1>5 DEF vars, Unused
<1>6. CASE AdapterStopped \/ ResetEngine \/ DestroyEngine
  <2>1. UNCHANGED vars /\ UNCHANGED created
    BY <1>6 DEF AdapterStopped, ResetEngine, DestroyEngine
  <2>2. \A i \in DOMAIN frames' : i \in DOMAIN frames /\ frames'[i].at = frames[i].at
    BY <1>0, <1>6, Proceeded
       DEF AdapterStopped, ResetEngine, DestroyEngine, In, StopPcs
  <2> QED BY <2>1, <2>2 DEF vars, Unused
<1>7. ASSUME UNCHANGED vars, UNCHANGED created,
             NEW f \in Frame, f.at = at["owner"], frames' = Append(frames, f)
      PROVE  IoInv'
  BY <1>0, <1>7, Entered DEF vars, Unused
<1>8. CASE StopReturns
  <2>1. Depth > 0 /\ frames' = SubSeq(frames, 1, Depth - 1)
    BY <1>8 DEF StopReturns, In
  <2>2. /\ at'["io"] = at["io"]
        /\ UNCHANGED <<created, connected, reading, joinable>>
        /\ at'["owner"] \in {at["owner"], frames[Depth].at}
    BY <1>0, <1>8 DEF StopReturns, TypeOK, Threads
  <2>3. at'["owner"] = "destroyed" => at["io"] = "exited"
    BY <1>0, <2>1, <2>2, Innermost
  <2>4. \A i \in DOMAIN frames' : i \in DOMAIN frames /\ frames'[i] = frames[i]
    BY <1>0, <2>1, Returned DEF Depth
  <2> QED BY <2>2, <2>3, <2>4 DEF Unused
<1> QED
  <2>1. CASE LoadConfig \/ InitializeExchanges \/ InitializeEngine \/ Return
             \/ EngineThreadsExit \/ UNCHANGED sysVars
    BY <1>5, <2>1 DEF LoadConfig, InitializeExchanges, InitializeEngine, Return,
                      EngineThreadsExit, sysVars, system, MainInv
  <2>2. CASE Fail
    <3> DEFINE f == [signal |-> NoSignal, pc |-> "unsubscribing",
                     at |-> at["owner"], back |-> back["owner"]]
    <3>1. frames' = <<f>> /\ UNCHANGED vars /\ UNCHANGED created
      BY <2>2 DEF Fail
    <3>2. f.at = at["owner"]
      OBVIOUS
    <3> HIDE DEF f
    <3>3. \A i \in DOMAIN frames' : frames'[i] = f
      BY <3>1
    <3> QED BY <3>1, <3>2, <3>3 DEF vars, Unused
  <2>3. ASSUME NEW signal \in Signals, Handle(signal) PROVE IoInv'
    BY <1>0, <1>7, <2>3 DEF Handle, Frame, StopPcs, TypeOK
  <2> QED BY <1>1, <1>2, <1>3, <1>4, <1>6, <1>8, <2>1, <2>2, <2>3
          DEF SystemNext, MainGoesOn, IoSteps

LEMMA MainInvHolds ==
    ASSUME SystemTypeOK, IoInv, MainInv, [SystemNext]_sysVars
    PROVE  MainInv'
<1> USE DEF MainInv
<1>0. TypeOK /\ frames \in Seq(Frame) /\ main \in MainPcs
  BY DEF SystemTypeOK
<1>1. CASE IoSteps /\ UNCHANGED system
  BY <1>0, <1>1, IoKeeps DEF system, IoInv
<1>2. CASE AdapterGoesOn
  <2>1. /\ UNCHANGED system /\ at'["io"] = at["io"]
        /\ UNCHANGED reading /\ (connected' => connected)
    BY <1>0, <1>2, OwnerKeeps DEF AdapterGoesOn, IoInv
  <2>2. main = "destroying" \/ frames # <<>>
    BY <1>2 DEF AdapterGoesOn, In, Depth
  <2>3. Unused => Unused'
    BY <1>0, <2>1 DEF Unused, TypeOK
  <2> QED BY <2>1, <2>2, <2>3 DEF system
<1>3. CASE ConnectAdapter
  BY <1>3 DEF ConnectAdapter
<1>4. CASE DestroyAdapter
  <2>1. Unused => Unused'
    BY <1>0, <1>4 DEF DestroyAdapter, Destroy, CallDisconnect, Go, TypeOK, Threads,
                      Unused
  <2> QED BY <1>4, <2>1 DEF DestroyAdapter, system
<1>5. ASSUME NEW pc, In(pc)
      PROVE  main \in {"sleeping", "destroying"}
  BY <1>0, <1>5 DEF In, Depth, MainPcs
<1>6. CASE StopAdapter \/ AdapterStopped \/ ResetEngine \/ DestroyEngine
  <2>1. PICK from \in StopPcs, to \in StopPcs :
          /\ In(from)
          /\ Proceed(to)
          /\ \/ from # "joining" /\ UNCHANGED engine
             \/ from = "resetting" /\ to = "joining" /\ engine' = "stopping"
             \/ engine' = "destroyed" /\ ~working
          /\ UNCHANGED <<main, created, working>>
    BY <1>6 DEF StopAdapter, AdapterStopped, ResetEngine, DestroyEngine, StopPcs
  <2>2. main \in {"sleeping", "destroying"} /\ Depth > 0 /\ frames[Depth].pc = from
    BY <1>5, <2>1 DEF In
  <2>3. Len(frames') = Len(frames) /\ frames'[Depth].pc = to
    BY <1>0, <2>1, <2>2, Proceeded
  <2>4. Len(frames) \in Nat /\ Depth = Len(frames)
    BY <1>0 DEF Depth
  <2>5. main = "destroying" => Depth = 1
    BY <2>2, <2>4
  <2>6. Unused => Unused'
    BY <1>0, <1>6 DEF StopAdapter, AdapterStopped, ResetEngine, DestroyEngine, vars,
                      CallDisconnect, Go, TypeOK, Threads, Unused
  <2> QED BY <2>1, <2>2, <2>3, <2>4, <2>5, <2>6
<1>7. CASE StopReturns
  <2>1. /\ main \in {"sleeping", "destroying"} /\ Depth > 0
        /\ frames[Depth].pc = "resetting"
        /\ frames' = SubSeq(frames, 1, Depth - 1)
        /\ engine # "running"
        /\ UNCHANGED <<main, created, engine, working>>
    BY <1>5, <1>7 DEF StopReturns, In
  <2>2. Depth = Len(frames) /\ Len(frames) \in Nat /\ Len(frames') = Len(frames) - 1
    BY <1>0, <2>1, Returned DEF Depth
  <2>3. main = "destroying" => engine \notin {"running", "stopping"}
    BY <2>1, <2>2
  <2>4. Unused => Unused'
    BY <1>0, <1>7 DEF StopReturns, TypeOK, Threads, Unused
  <2> QED BY <2>1, <2>2, <2>3, <2>4
<1>8. CASE LoadConfig \/ InitializeExchanges \/ InitializeEngine
  BY <1>8 DEF LoadConfig, InitializeExchanges, InitializeEngine, vars, Unused
<1>9. CASE Return
  BY <1>0, <1>9 DEF Return, vars, Unused, SystemTypeOK, IoInv
<1>10. CASE EngineThreadsExit \/ UNCHANGED sysVars
  BY <1>10 DEF EngineThreadsExit, sysVars, system, vars, Unused
<1>11. CASE Fail
  BY <1>11 DEF Fail, vars, Unused
<1>12. ASSUME NEW signal \in Signals, Handle(signal) PROVE MainInv'
  BY <1>12 DEF Handle, vars, Unused
<1> QED BY <1>1, <1>2, <1>3, <1>4, <1>6, <1>7, <1>8, <1>9, <1>10, <1>11, <1>12
        DEF SystemNext, MainGoesOn, IoSteps

LEMMA FramesInvHolds ==
    ASSUME SystemTypeOK, IoInv, MainInv, FramesInv, [SystemNext]_sysVars
    PROVE  FramesInv'
<1> USE DEF FramesInv
<1>0. TypeOK /\ frames \in Seq(Frame) /\ Depth = Len(frames) /\ Depth \in Nat
  BY DEF SystemTypeOK, Depth
<1>1. CASE IoSteps /\ UNCHANGED system
  BY <1>0, <1>1, IoKeeps DEF system, IoInv, In, Depth
<1>2. CASE AdapterGoesOn
  BY <1>0, <1>2 DEF AdapterGoesOn, system, In, Depth
<1>3. CASE ConnectAdapter \/ DestroyAdapter
  BY <1>0, <1>3 DEF ConnectAdapter, DestroyAdapter, MainInv, system, In, Depth
<1>4. ASSUME NEW pc \in StopPcs, Proceed(pc), Depth > 0, UNCHANGED overtaken,
             pc = "disconnecting" \/ at'["owner"] \notin {"stopping", "joining"}
                \/ (~In("disconnecting") /\ at'["owner"] = at["owner"])
      PROVE  FramesInv'
  <2>1. /\ Len(frames') = Len(frames) /\ frames'[Depth].pc = pc
        /\ \A i \in DOMAIN frames' : i \in DOMAIN frames /\ frames'[i].at = frames[i].at
    BY <1>0, <1>4, Proceeded
  <2> QED BY <1>0, <1>4, <2>1 DEF In, Depth
<1>5. CASE StopAdapter
  <2>1. PICK pc \in StopPcs : Proceed(pc) /\ (pc = "disconnecting" \/ UNCHANGED at)
    BY <1>5 DEF StopAdapter, StopPcs
  <2> QED BY <1>4, <1>5, <2>1 DEF StopAdapter, In
<1>6. CASE AdapterStopped \/ ResetEngine \/ DestroyEngine
  <2>1. PICK pc \in StopPcs : Proceed(pc)
    BY <1>6 DEF AdapterStopped, ResetEngine, DestroyEngine, StopPcs
  <2> QED BY <1>4, <1>6, <2>1
          DEF AdapterStopped, ResetEngine, DestroyEngine, In, vars
<1>7. CASE StopReturns
  <2>1. Depth > 0 /\ frames' = SubSeq(frames, 1, Depth - 1) /\ UNCHANGED overtaken
    BY <1>7 DEF StopReturns, In
  <2>2. /\ Len(frames') = Len(frames) - 1
        /\ \A i \in DOMAIN frames' : i \in DOMAIN frames /\ frames'[i] = frames[i]
    BY <1>0, <2>1, Returned
  <2>3. Depth > 1 => at'["owner"] = frames[Depth].at
    BY <1>0, <1>7 DEF StopReturns, TypeOK, Threads
  <2>4. Depth > 1 /\ at'["owner"] \in {"stopping", "joining"} => overtaken
    BY <1>0, <2>1, <2>3, Innermost
  <2> QED BY <1>0, <2>1, <2>2, <2>4 DEF Depth
<1>8. CASE UNCHANGED <<at, frames, overtaken>>
  BY <1>8 DEF In, Depth
<1>9. CASE Fail
  <2> DEFINE f == [signal |-> NoSignal, pc |-> "unsubscribing",
                   at |-> at["owner"], back |-> back["owner"]]
  <2>1. frames' = <<f>> /\ UNCHANGED at /\ at["owner"] = "new"
    BY <1>9 DEF Fail, vars, MainInv
  <2>2. f.at = at["owner"]
    OBVIOUS
  <2> HIDE DEF f
  <2>3. \A i \in DOMAIN frames' : frames'[i] = f
    BY <2>1
  <2> QED BY <2>1, <2>2, <2>3
<1>10. ASSUME NEW signal \in Signals, Handle(signal) PROVE FramesInv'
  <2> DEFINE f == [signal |-> signal, pc |-> "unsubscribing",
                   at |-> at["owner"], back |-> back["owner"]]
  <2>1. /\ frames' = Append(frames, f)
        /\ UNCHANGED at
        /\ overtaken' = (overtaken \/ at["owner"] \in {"stopping", "joining"})
    BY <1>10 DEF Handle, vars
  <2>2. f \in Frame /\ f.at = at["owner"]
    BY <1>0, <1>10 DEF Frame, StopPcs, TypeOK
  <2> HIDE DEF f
  <2>3. \A i \in DOMAIN frames' : frames'[i] = f \/ (i \in DOMAIN frames /\ frames'[i] = frames[i])
    BY <1>0, <2>1, <2>2, Entered
  <2> QED BY <2>1, <2>2, <2>3
<1> QED
  <2>1. CASE LoadConfig \/ InitializeExchanges \/ InitializeEngine \/ Return
             \/ EngineThreadsExit \/ UNCHANGED sysVars
    BY <1>8, <2>1 DEF LoadConfig, InitializeExchanges, InitializeEngine, Return,
                      EngineThreadsExit, sysVars, system, vars
  <2> QED BY <1>1, <1>2, <1>3, <1>5, <1>6, <1>7, <1>9, <1>10, <2>1
          DEF SystemNext, MainGoesOn, IoSteps

\* A stop that nobody overtakes leaves its adapter quiet, and for good.
LEMMA QuietInvHolds ==
    ASSUME SystemTypeOK, IoInv, MainInv, FramesInv, QuietInv,
           ~overtaken, [SystemNext]_sysVars
    PROVE  QuietInv'
<1> USE DEF QuietInv
<1>0. TypeOK /\ frames \in Seq(Frame) /\ Depth = Len(frames) /\ Depth \in Nat
  BY DEF SystemTypeOK, Depth
<1>a. Unused => Quiet
  BY DEF Unused, Quiet
<1>1. CASE IoSteps /\ UNCHANGED system
  BY <1>0, <1>1, IoKeeps DEF system, IoInv
<1>2. CASE AdapterGoesOn
  <2>1. OwnerGoesOn /\ UNCHANGED system
    BY <1>2 DEF AdapterGoesOn
  <2>2. /\ at'["io"] = at["io"] /\ UNCHANGED reading
        /\ at'["owner"] \notin {"new", "idle", "checking"}
        /\ at'["owner"] = "clearing" =>
              at["owner"] = "checking" /\ UNCHANGED <<connected, stopped>>
        /\ at'["owner"] = "joining" => stopped'
        /\ Quiet => Quiet'
        /\ at'["owner"] \in Done => Quiet'
    BY <1>0, <2>1, OwnerKeeps DEF IoInv
  <2>3. at'["owner"] = "clearing" => Attended' \/ Quiet'
    BY <1>0, <2>2, AttendedStays
  <2> QED BY <2>1, <2>2, <2>3 DEF system
<1>3. CASE ConnectAdapter
  <2>1. frames = <<>> /\ engine = "running" /\ Unused /\ UNCHANGED <<frames, engine>>
    BY <1>3 DEF ConnectAdapter, MainInv
  <2>2. at'["io"] = at["io"] /\ at'["owner"] = "idle" /\ (reading' => connected')
    BY <1>0, <1>3, <2>1 DEF ConnectAdapter, OwnerConnect, Connect, Go, TypeOK,
                            Threads, Unused
  <2>3. Attended'
    BY <2>1, <2>2 DEF Attended, Unused
  <2> QED BY <2>1, <2>2, <2>3 DEF Done
<1>4. CASE DestroyAdapter
  <2>1. /\ at'["io"] = at["io"] /\ at'["owner"] = "checking"
        /\ at["owner"] \in {"new", "idle", "disconnected"}
        /\ UNCHANGED <<reading, stopped, connected, frames, engine>>
    BY <1>0, <1>4 DEF DestroyAdapter, Destroy, CallDisconnect, Go, TypeOK, Threads,
                      system
  <2>2. Quiet => Quiet'
    BY <1>0, <2>1, QuietStays
  <2>3. Attended \/ Quiet
    BY <2>1 DEF Done
  <2>4. Attended' \/ Quiet'
    BY <1>0, <2>1, <2>2, <2>3, AttendedStays
  <2> QED BY <2>1, <2>2, <2>4 DEF Done
<1>5. ASSUME NEW pc \in StopPcs, Proceed(pc), Depth > 0,
             pc \in {"resetting", "joining"} => Quiet'
      PROVE  \A i \in DOMAIN frames' : frames'[i].pc \in {"resetting", "joining"}
                => Quiet' \/ Quiet
  <2>1. /\ frames'[Depth].pc = pc
        /\ \A i \in DOMAIN frames' :
              i \in DOMAIN frames /\ (i # Depth => frames'[i] = frames[i])
    BY <1>0, <1>5, Proceeded
  <2> QED BY <1>5, <2>1
<1>6. CASE StopAdapter /\ created
  <2>1. /\ at'["io"] = at["io"] /\ at'["owner"] = "checking"
        /\ UNCHANGED <<reading, stopped, connected, engine>>
        /\ Proceed("disconnecting") /\ Depth > 0
    BY <1>0, <1>6 DEF StopAdapter, CallDisconnect, Go, TypeOK, Threads, In
  <2>2. at["owner"] \notin {"stopping", "joining"}
    BY <1>6 DEF StopAdapter, FramesInv, In
  <2>3. Quiet => Quiet'
    BY <1>0, <2>1, QuietStays
  <2>4. Attended \/ Quiet
    BY <1>0, <2>2 DEF TypeOK, OwnerPcs, InDisconnect, Done
  <2>5. Attended' \/ Quiet'
    BY <1>0, <2>1, <2>3, <2>4, AttendedStays
  <2>6. \A i \in DOMAIN frames' : frames'[i].pc \in {"resetting", "joining"} => Quiet'
    BY <1>5, <2>1, <2>3 DEF StopPcs
  <2> QED BY <2>1, <2>3, <2>5, <2>6 DEF Done
<1>7. CASE UNCHANGED <<vars, engine>> /\ Quiet
           /\ \E pc \in StopPcs : Proceed(pc) /\ Depth > 0
  <2>1. Quiet'
    BY <1>0, <1>7, QuietStays DEF vars
  <2> QED BY <1>7, <2>1 DEF vars
<1>8. CASE StopAdapter /\ ~created
  <2>1. UNCHANGED <<at, reading, stopped, connected, engine>> /\ Quiet
    BY <1>8, <1>a DEF StopAdapter, IoInv
  <2>2. Quiet'
    BY <1>0, <2>1, QuietStays
  <2> QED BY <2>1, <2>2
<1>9. CASE AdapterStopped \/ ResetEngine \/ DestroyEngine
  <2>1. UNCHANGED vars
    BY <1>9 DEF AdapterStopped, ResetEngine, DestroyEngine
  <2>2. Quiet
    BY <1>0, <1>9, Innermost
       DEF AdapterStopped, ResetEngine, DestroyEngine, In, Done
  <2>3. Quiet'
    BY <1>0, <2>1, <2>2, QuietStays DEF vars
  <2> QED BY <2>1, <2>3 DEF vars
<1>10. CASE StopReturns
  <2>1. /\ In("resetting") /\ Depth > 0
        /\ UNCHANGED <<reading, stopped, connected, engine>>
        /\ at'["io"] = at["io"]
        /\ at'["owner"] \in {at["owner"], frames[Depth].at}
    BY <1>0, <1>10 DEF StopReturns, TypeOK, Threads, In
  <2>2. Quiet
    BY <1>0, <2>1, Innermost DEF In
  <2>3. Quiet'
    BY <1>0, <2>1, <2>2, QuietStays
  <2>4. at'["owner"] = "joining" => stopped'
    BY <1>0, <2>1, Innermost DEF FramesInv
  <2> QED BY <2>3, <2>4
<1>11. ASSUME UNCHANGED vars, engine' \in {engine, "running"},
              \A i \in DOMAIN frames' :
                 frames'[i].pc \in {"resetting", "joining"} =>
                    i \in DOMAIN frames /\ frames'[i] = frames[i]
       PROVE  QuietInv'
  <2>1. (Quiet => Quiet') /\ (Attended => Attended')
    BY <1>0, <1>11, QuietStays, AttendedStays DEF vars
  <2> QED BY <1>11, <2>1 DEF vars
<1>12. CASE Fail
  <2> DEFINE f == [signal |-> NoSignal, pc |-> "unsubscribing",
                   at |-> at["owner"], back |-> back["owner"]]
  <2>1. frames' = <<f>> /\ UNCHANGED <<vars, engine>>
    BY <1>12 DEF Fail
  <2>2. f.pc = "unsubscribing"
    OBVIOUS
  <2> HIDE DEF f
  <2>3. \A i \in DOMAIN frames' : frames'[i] = f
    BY <2>1
  <2> QED BY <1>11, <2>1, <2>2, <2>3
<1>13. ASSUME NEW signal \in Signals, Handle(signal) PROVE QuietInv'
  <2> DEFINE f == [signal |-> signal, pc |-> "unsubscribing",
                   at |-> at["owner"], back |-> back["owner"]]
  <2>1. frames' = Append(frames, f) /\ UNCHANGED <<vars, engine>>
    BY <1>13 DEF Handle
  <2>2. f \in Frame /\ f.pc = "unsubscribing"
    BY <1>0, <1>13 DEF Frame, StopPcs, TypeOK
  <2> HIDE DEF f
  <2>3. \A i \in DOMAIN frames' : frames'[i] = f \/ (i \in DOMAIN frames /\ frames'[i] = frames[i])
    BY <1>0, <2>1, <2>2, Entered
  <2> QED BY <1>11, <2>1, <2>2, <2>3
<1> QED
  <2>1. CASE LoadConfig \/ InitializeExchanges \/ InitializeEngine \/ Return
             \/ EngineThreadsExit \/ UNCHANGED sysVars
    BY <1>11, <2>1 DEF LoadConfig, InitializeExchanges, InitializeEngine, Return,
                       EngineThreadsExit, sysVars, system
  <2> QED BY <1>1, <1>2, <1>3, <1>4, <1>6, <1>8, <1>9, <1>10, <1>12, <1>13, <2>1
          DEF SystemNext, MainGoesOn, IoSteps

LEMMA SystemInvHolds == SystemSpec => []SystemInv
<1>1. SystemInit => SystemInv
  BY DEF SystemInit, Init, Threads, SystemInv, IoInv, MainInv, FramesInv, QuietInv,
         Unused, Attended, Quiet, Done, In, Depth
<1>2. SystemTypeOK /\ SystemInv /\ [SystemNext]_sysVars => SystemInv'
  <2> SUFFICES ASSUME SystemTypeOK, SystemInv, [SystemNext]_sysVars PROVE SystemInv'
    OBVIOUS
  <2>1. overtaken => overtaken'
    BY DEF SystemNext, MainGoesOn, LoadConfig, InitializeExchanges, InitializeEngine,
           ConnectAdapter, Fail, DestroyAdapter, Return, Handle, StopAdapter,
           AdapterGoesOn, AdapterStopped, ResetEngine, EngineThreadsExit,
           DestroyEngine, StopReturns, system, sysVars
  <2>2. IoInv' /\ MainInv' /\ FramesInv'
    BY IoInvHolds, MainInvHolds, FramesInvHolds DEF SystemInv
  <2>3. ASSUME ~overtaken PROVE QuietInv'
    BY <2>3, QuietInvHolds DEF SystemInv
  <2> QED BY <2>1, <2>2, <2>3 DEF SystemInv
<1> QED BY <1>1, <1>2, SystemTypeCorrect, PTL DEF SystemSpec

\* No callback runs in an engine that stop has begun to destroy, however many
\* signals come, unless one came between another's disconnect and its join.
THEOREM EngineOutlives == SystemSpec => []EngineOutlivesCallbacks
<1>1. SystemTypeOK /\ SystemInv => EngineOutlivesCallbacks
  BY DEF SystemTypeOK, SystemInv, MainInv, QuietInv, Unused, Quiet,
         EngineOutlivesCallbacks
<1> QED BY <1>1, SystemTypeCorrect, SystemInvHolds, PTL

\* When main returns, the io thread and the engine's threads have ended,
\* whether the system ran, or failed at any step of its initialize.
THEOREM MainReturnsAlone == SystemSpec => []ReturnsAlone
<1>1. SystemInv => ReturnsAlone
  BY DEF SystemInv, MainInv, ReturnsAlone
<1> QED BY <1>1, SystemInvHolds, PTL

-----------------------------------------------------------------------------
\* What overtaken stops are left with.  A disconnect has cleared the flag and
\* has not returned.
Cleared == {"stopping", "joining"}

\* The innermost stop came then: it may return with the io thread at work, and
\* it is the interrupted disconnect that waits.
Pending == \E i \in DOMAIN frames : frames[i].at \in Cleared

\* Only a disconnect is interrupted there, by a stop or by a chain of them
\* that have not called disconnect yet; and never the outermost.
NestInv ==
    /\ Depth > 0 => frames[1].at \notin Cleared
    /\ \A i \in DOMAIN frames : i > 1 /\ frames[i].at \in Cleared
         => frames[i - 1].pc = "disconnecting" \/ frames[i - 1].at \in Cleared
    /\ at["owner"] \in Cleared /\ Depth > 0
         => In("disconnecting") \/ frames[Depth].at \in Cleared
    /\ main = "sleeping" /\ frames = <<>> => at["owner"] \notin Cleared

\* Since the flag was cleared only a reconnect has set it, and what the io
\* thread has begun since then is a disconnect that clears it again.
Claimed ==
    connected => \/ back["io"] = "reconnecting"
                 \/ at["io"] \in {"checking", "clearing"}

ClaimInv ==
    /\ at["io"] = "reconnecting" => back["io"] = "reconnecting"
    /\ at["owner"] \in Cleared \cup Done => Claimed
    /\ \A i \in DOMAIN frames :
         \/ frames[i].at \in Cleared \cup Done
         \/ frames[i].pc \in {"resetting", "joining"}
         => Claimed
    /\ engine \in {"stopping", "destroyed"} => Claimed

\* The io thread will complete no read, whoever is connected.
Shut ==
    /\ at["io"] \notin {"callback", "checking"}
    /\ reading \/ at["io"] = "reconnecting" => stopped
    /\ connected => back["io"] = "reconnecting" /\ at["io"] # "clearing"

\* A stop that was not called inside another's disconnect leaves it so.
ShutInv ==
    /\ at["owner"] = "joining" => stopped
    /\ \A i \in DOMAIN frames : frames[i].at = "joining" => stopped
    /\ ~Pending /\ at["owner"] \in {"new", "idle", "checking", "clearing"}
         => Attended \/ Shut
    /\ ~Pending /\ at["owner"] \in Done => Shut
    /\ \A i \in DOMAIN frames :
         frames[i].pc \in {"resetting", "joining"}
           => Shut \/ \E j \in 1..i : frames[j].at \in Cleared
    /\ ~Pending /\ engine \in {"stopping", "destroyed"}
         => Shut \/ (frames # <<>> /\ at["owner"] \in Cleared)

\* What a step of either thread does to that.
LEMMA IoShuts ==
    ASSUME TypeOK, IoSteps,
           reading => at["io"] \in {"running", "exited"},
           at["io"] = "reconnecting" => back["io"] = "reconnecting"
    PROVE  /\ at'["owner"] = at["owner"]
           /\ stopped => stopped'
           /\ at'["io"] = "reconnecting" => back'["io"] = "reconnecting"
           /\ Claimed => Claimed'
           /\ Attended => Attended'
           /\ Shut => Shut'
<1> USE DEF TypeOK, Threads, InDisconnect, OwnerPcs, IoPcs, Go, CallDisconnect,
            Claimed, Attended, Shut
<1>1. CASE ReadBook
  BY <1>1 DEF ReadBook, ReadCompletes
<1>2. CASE ReadNotice
  BY <1>2 DEF ReadNotice, ReadCompletes
<1>3. CASE ReadRefusal
  BY <1>3 DEF ReadRefusal, ReadCompletes
<1>4. CASE ReadUnknown
  BY <1>4 DEF ReadUnknown, ReadCompletes, vars
<1>5. CASE ReadError
  BY <1>5 DEF ReadError, ReadCompletes
<1>6. CASE DisconnectCheck("io")
  BY <1>6 DEF DisconnectCheck
<1>7. CASE DisconnectClear("io")
  BY <1>7 DEF DisconnectClear
<1>8. CASE DisconnectStop("io")
  BY <1>8 DEF DisconnectStop
<1>9. CASE CallbackReturns
  BY <1>9 DEF CallbackReturns
<1>10. CASE RunReturns
  BY <1>10 DEF RunReturns
<1>11. CASE Reconnect
  BY <1>11 DEF Reconnect, Connect
<1> QED BY <1>1, <1>2, <1>3, <1>4, <1>5, <1>6, <1>7, <1>8, <1>9, <1>10, <1>11
        DEF IoSteps, Reads, IoGoesOn

LEMMA OwnerShuts ==
    ASSUME TypeOK, OwnerGoesOn,
           ~joinable => at["io"] = "exited",
           at["owner"] \in Cleared \cup Done => Claimed,
           at["owner"] = "joining" => stopped
    PROVE  /\ at'["io"] = at["io"]
           /\ UNCHANGED back
           /\ stopped => stopped'
           /\ at'["owner"] = "joining" => stopped'
           /\ at'["owner"] \in Cleared \cup Done \cup {"clearing"}
           /\ at'["owner"] \in Cleared \cup Done => Claimed'
           /\ Claimed => Claimed'
           /\ Shut => Shut'
           /\ at'["owner"] = "clearing" =>
                at["owner"] = "checking" /\ UNCHANGED <<connected, stopped, reading>>
           /\ /\ at["owner"] \in {"checking", "clearing"} => Attended \/ Shut
              /\ at["owner"] \in Done => Shut
              => (at'["owner"] \in Done => Shut')
<1> USE DEF TypeOK, Threads, InDisconnect, OwnerPcs, IoPcs, Go, Claimed, Attended,
            Shut, Cleared, Done
<1>1. CASE DisconnectCheck("owner")
  BY <1>1 DEF DisconnectCheck
<1>2. CASE DisconnectClear("owner")
  BY <1>2 DEF DisconnectClear
<1>3. CASE DisconnectStop("owner")
  BY <1>3 DEF DisconnectStop
<1>4. CASE DisconnectJoin
  BY <1>4 DEF DisconnectJoin
<1>5. CASE Release
  BY <1>5 DEF Release
<1>6. CASE FinalJoin
  BY <1>6 DEF FinalJoin
<1> QED BY <1>1, <1>2, <1>3, <1>4, <1>5, <1>6 DEF OwnerGoesOn

\* The rest of the system leaves the io thread alone.
LEMMA ClaimStays ==
    ASSUME TypeOK, at'["io"] = at["io"], back'["io"] = back["io"],
           UNCHANGED <<reading, stopped, connected>>
    PROVE  /\ Claimed' <=> Claimed
           /\ Attended' <=> Attended
           /\ Shut' <=> Shut
BY DEF Claimed, Attended, Shut

LEMMA NestInvHolds ==
    ASSUME SystemTypeOK, IoInv, MainInv, NestInv, [SystemNext]_sysVars
    PROVE  NestInv'
<1> USE DEF NestInv
<1>0. TypeOK /\ frames \in Seq(Frame) /\ Depth = Len(frames) /\ Depth \in Nat
      /\ DOMAIN frames = 1..Depth
  BY DEF SystemTypeOK, Depth
<1>a. "disconnecting" \notin Cleared /\ {"new", "idle", "checking"} \cap Cleared = {}
  BY DEF Cleared
<1>1. CASE IoSteps /\ UNCHANGED system
  BY <1>0, <1>1, IoKeeps DEF system, IoInv, In, Depth
<1>2. CASE AdapterGoesOn
  BY <1>0, <1>2 DEF AdapterGoesOn, system, In, Depth
<1>3. CASE ConnectAdapter \/ DestroyAdapter
  <2>1. frames = <<>> /\ UNCHANGED frames /\ at'["owner"] \in {"idle", "checking"}
    BY <1>0, <1>3 DEF ConnectAdapter, DestroyAdapter, MainInv, system, OwnerConnect,
                      Connect, Destroy, CallDisconnect, Go, TypeOK, Threads
  <2> QED BY <1>0, <1>a, <2>1 DEF In, Depth
<1>4. ASSUME NEW pc \in StopPcs, Proceed(pc), Depth > 0, ~In("disconnecting")
                \/ at["owner"] \notin Cleared,
             at'["owner"] = at["owner"] \/ at'["owner"] \notin Cleared
      PROVE  NestInv'
  <2>1. /\ Len(frames') = Len(frames) /\ frames'[Depth].pc = pc
        /\ \A i \in DOMAIN frames' :
             i \in DOMAIN frames /\ frames'[i].at = frames[i].at
        /\ \A i \in DOMAIN frames' : i # Depth => frames'[i] = frames[i]
        /\ frames' \in Seq(Frame)
    BY <1>0, <1>4, Proceeded
  <2>2. Depth' = Depth /\ DOMAIN frames' = 1..Depth /\ frames' # <<>>
    BY <1>0, <1>4, <2>1 DEF Depth
  <2>3. \A i \in DOMAIN frames' : i > 1 /\ frames'[i].at \in Cleared
          => frames'[i - 1].pc = "disconnecting" \/ frames'[i - 1].at \in Cleared
    BY <1>0, <2>1, <2>2
  <2> QED BY <1>0, <1>4, <2>1, <2>2, <2>3 DEF In
<1>5. CASE StopAdapter
  <2>1. PICK pc \in StopPcs : Proceed(pc) /\ (at'["owner"] = "checking" \/ UNCHANGED at)
    BY <1>0, <1>5 DEF StopAdapter, StopPcs, CallDisconnect, Go, TypeOK, Threads
  <2> QED BY <1>4, <1>5, <1>a, <2>1 DEF StopAdapter, In
<1>6. CASE AdapterStopped \/ ResetEngine \/ DestroyEngine
  <2>1. PICK pc \in StopPcs : Proceed(pc)
    BY <1>6 DEF AdapterStopped, ResetEngine, DestroyEngine, StopPcs
  <2> QED BY <1>4, <1>6, <2>1
          DEF AdapterStopped, ResetEngine, DestroyEngine, In, vars, Cleared
<1>7. CASE StopReturns
  <2>1. /\ Depth > 0 /\ frames' = SubSeq(frames, 1, Depth - 1)
        /\ frames[Depth].pc = "resetting"
    BY <1>7 DEF StopReturns, In
  <2>2. /\ Len(frames') = Depth - 1
        /\ \A i \in DOMAIN frames' : i \in DOMAIN frames /\ frames'[i] = frames[i]
        /\ frames' \in Seq(Frame)
    BY <1>0, <2>1, Returned
  <2>3. Depth' = Depth - 1 /\ DOMAIN frames' = 1..(Depth - 1)
    BY <1>0, <2>2 DEF Depth
  <2>4. CASE Depth > 1
    <3>1. at'["owner"] = frames[Depth].at
      BY <1>0, <1>7, <2>4 DEF StopReturns, TypeOK, Threads
    <3>2. frames' # <<>> /\ Depth' > 0 /\ Depth' \in DOMAIN frames'
      BY <1>0, <2>3, <2>4
    <3>3. at'["owner"] \in Cleared =>
            frames'[Depth'].pc = "disconnecting" \/ frames'[Depth'].at \in Cleared
      BY <1>0, <2>2, <2>3, <2>4, <3>1, <3>2
    <3>4. \A i \in DOMAIN frames' : i > 1 => i - 1 \in DOMAIN frames'
      BY <1>0, <2>3
    <3> QED BY <1>0, <2>2, <2>3, <2>4, <3>2, <3>3, <3>4 DEF In
  <2>5. CASE Depth = 1
    <3>1. UNCHANGED at
      BY <1>7, <2>5 DEF StopReturns
    <3>2. at["owner"] \notin Cleared
      BY <1>0, <2>1, <2>5 DEF In
    <3> QED BY <1>0, <2>3, <2>5, <3>1, <3>2
  <2>6. Depth > 1 \/ Depth = 1
    BY <1>0, <2>1
  <2> QED BY <2>4, <2>5, <2>6
<1>8. CASE UNCHANGED <<at, frames>>
           /\ (main' = "sleeping" => main = "sleeping" \/ at["owner"] = "new")
  BY <1>8, <1>a DEF In, Depth
<1>9. CASE Fail
  <2> DEFINE f == [signal |-> NoSignal, pc |-> "unsubscribing",
                   at |-> at["owner"], back |-> back["owner"]]
  <2>1. frames' = <<f>> /\ UNCHANGED at /\ at["owner"] = "new"
    BY <1>9 DEF Fail, vars, MainInv
  <2>2. f.at = at["owner"]
    OBVIOUS
  <2> HIDE DEF f
  <2>3. \A i \in DOMAIN frames' : i = 1 /\ frames'[i] = f
    BY <2>1
  <2>4. frames'[1] = f /\ frames' # <<>>
    BY <2>1
  <2> QED BY <1>a, <2>1, <2>2, <2>3, <2>4
<1>10. ASSUME NEW signal \in Signals, Handle(signal) PROVE NestInv'
  <2> DEFINE f == [signal |-> signal, pc |-> "unsubscribing",
                   at |-> at["owner"], back |-> back["owner"]]
  <2>1. frames' = Append(frames, f) /\ UNCHANGED <<at, main>> /\ main = "sleeping"
    BY <1>10 DEF Handle, vars
  <2>2. f \in Frame /\ f.at = at["owner"]
    BY <1>0, <1>10 DEF Frame, StopPcs, TypeOK
  <2> HIDE DEF f
  <2>3. /\ frames' \in Seq(Frame) /\ Len(frames') = Depth + 1
        /\ \A i \in 1..Depth : frames'[i] = frames[i]
        /\ frames'[Depth + 1] = f
    BY <1>0, <2>1, <2>2
  <2>4. Depth' = Depth + 1 /\ DOMAIN frames' = 1..(Depth + 1) /\ frames' # <<>>
    BY <1>0, <2>3 DEF Depth
  <2>5. frames'[1].at \notin Cleared
    BY <1>0, <2>1, <2>2, <2>3
  <2>6. ASSUME NEW i \in DOMAIN frames', i > 1, frames'[i].at \in Cleared
        PROVE  frames'[i - 1].pc = "disconnecting" \/ frames'[i - 1].at \in Cleared
    <3>1. CASE i = Depth + 1
      <4>1. Depth > 0 /\ at["owner"] \in Cleared /\ frames'[i - 1] = frames[Depth]
        BY <1>0, <2>2, <2>3, <2>6, <3>1
      <4> QED BY <4>1 DEF In
    <3>2. CASE i \in 1..Depth
      BY <1>0, <2>3, <2>6, <3>2
    <3> QED BY <1>0, <2>4, <2>6, <3>1, <3>2
  <2> QED BY <2>1, <2>2, <2>3, <2>4, <2>5, <2>6
<1> QED
  <2>1. CASE LoadConfig \/ InitializeExchanges \/ InitializeEngine \/ Return
             \/ EngineThreadsExit \/ UNCHANGED sysVars
    BY <1>8, <2>1 DEF LoadConfig, InitializeExchanges, InitializeEngine, Return,
                      EngineThreadsExit, sysVars, system, vars, MainInv
  <2> QED BY <1>1, <1>2, <1>3, <1>5, <1>6, <1>7, <1>9, <1>10, <2>1
          DEF SystemNext, MainGoesOn, IoSteps

LEMMA ClaimInvHolds ==
    ASSUME SystemTypeOK, IoInv, MainInv, ShutInv, ClaimInv, [SystemNext]_sysVars
    PROVE  ClaimInv'
<1> USE DEF ClaimInv
<1>0. TypeOK /\ frames \in Seq(Frame) /\ Depth = Len(frames) /\ Depth \in Nat
  BY DEF SystemTypeOK, Depth
<1>1. CASE IoSteps /\ UNCHANGED system
  BY <1>0, <1>1, IoShuts DEF system, IoInv
<1>2. CASE AdapterGoesOn
  <2>1. OwnerGoesOn /\ UNCHANGED system
    BY <1>2 DEF AdapterGoesOn
  <2> QED BY <1>0, <2>1, OwnerShuts DEF system, IoInv, ShutInv, TypeOK
<1>3. CASE ConnectAdapter
  <2>1. /\ at'["io"] = at["io"] /\ at'["owner"] = "idle" /\ at["io"] # "reconnecting"
        /\ frames = <<>> /\ engine = "running" /\ UNCHANGED <<frames, engine>>
    BY <1>0, <1>3 DEF ConnectAdapter, OwnerConnect, Connect, Go, TypeOK, Threads,
                      MainInv
  <2> QED BY <2>1 DEF Cleared, Done
<1>4. CASE DestroyAdapter
  <2>1. /\ at'["io"] = at["io"] /\ back'["io"] = back["io"]
        /\ at'["owner"] = "checking"
        /\ UNCHANGED <<reading, stopped, connected, frames, engine>>
    BY <1>0, <1>4 DEF DestroyAdapter, Destroy, CallDisconnect, Go, TypeOK, Threads,
                      system
  <2> QED BY <1>0, <2>1, ClaimStays DEF Cleared, Done
<1>5. ASSUME NEW pc \in StopPcs, Proceed(pc), Depth > 0,
             pc \in {"resetting", "joining"} => Claimed,
             at'["io"] = at["io"], back'["io"] = back["io"],
             UNCHANGED <<reading, stopped, connected>>,
             at'["owner"] = at["owner"] \/ at'["owner"] = "checking",
             engine' = engine \/ Claimed
      PROVE  ClaimInv'
  <2>1. /\ frames'[Depth].pc = pc
        /\ \A i \in DOMAIN frames' :
              /\ i \in DOMAIN frames /\ frames'[i].at = frames[i].at
              /\ i # Depth => frames'[i] = frames[i]
    BY <1>0, <1>5, Proceeded
  <2>2. Claimed' <=> Claimed
    BY <1>0, <1>5, ClaimStays
  <2>3. at'["owner"] \in Cleared \cup Done => Claimed
    BY <1>5 DEF Cleared, Done
  <2> QED BY <1>5, <2>1, <2>2, <2>3
<1>6. CASE StopAdapter
  <2>1. PICK pc \in StopPcs : /\ Proceed(pc) /\ pc # "joining"
                              /\ pc = "resetting" => ~created
    BY <1>6 DEF StopAdapter, StopPcs
  <2>2. /\ at'["io"] = at["io"] /\ back'["io"] = back["io"]
        /\ at'["owner"] = at["owner"] \/ at'["owner"] = "checking"
    BY <1>0, <1>6 DEF StopAdapter, CallDisconnect, Go, TypeOK, Threads
  <2>3. ~created => Claimed
    BY DEF IoInv, Unused, Claimed
  <2> QED BY <1>5, <1>6, <2>1, <2>2, <2>3 DEF StopAdapter, In
<1>7. CASE AdapterStopped \/ ResetEngine \/ DestroyEngine
  <2>1. PICK pc \in StopPcs : Proceed(pc)
    BY <1>7 DEF AdapterStopped, ResetEngine, DestroyEngine, StopPcs
  <2>2. Claimed
    BY <1>0, <1>7, Innermost
       DEF AdapterStopped, ResetEngine, DestroyEngine, In, Done
  <2> QED BY <1>5, <1>7, <2>1, <2>2
          DEF AdapterStopped, ResetEngine, DestroyEngine, In, vars
<1>8. CASE StopReturns
  <2>1. /\ Depth > 0 /\ frames' = SubSeq(frames, 1, Depth - 1)
        /\ frames[Depth].pc = "resetting"
        /\ UNCHANGED <<reading, stopped, connected, engine>>
        /\ at'["io"] = at["io"] /\ back'["io"] = back["io"]
    BY <1>0, <1>8 DEF StopReturns, In, TypeOK, Threads
  <2>2. \A i \in DOMAIN frames' : i \in DOMAIN frames /\ frames'[i] = frames[i]
    BY <1>0, <2>1, Returned
  <2>3. Claimed'
    BY <1>0, <2>1, Innermost, ClaimStays
  <2> QED BY <2>1, <2>2, <2>3
<1>9. ASSUME UNCHANGED vars, engine' \in {engine, "running"},
             \A i \in DOMAIN frames' :
                \/ i \in DOMAIN frames /\ frames'[i] = frames[i]
                \/ frames'[i].at = at["owner"] /\ frames'[i].pc = "unsubscribing"
      PROVE  ClaimInv'
  <2>1. Claimed' <=> Claimed
    BY <1>0, <1>9, ClaimStays DEF vars
  <2> QED BY <1>9, <2>1 DEF vars
<1>10. CASE Fail
  <2> DEFINE f == [signal |-> NoSignal, pc |-> "unsubscribing",
                   at |-> at["owner"], back |-> back["owner"]]
  <2>1. frames' = <<f>> /\ UNCHANGED <<vars, engine>>
    BY <1>10 DEF Fail
  <2>2. f.pc = "unsubscribing" /\ f.at = at["owner"]
    OBVIOUS
  <2> HIDE DEF f
  <2>3. \A i \in DOMAIN frames' : frames'[i] = f
    BY <2>1
  <2> QED BY <1>9, <2>1, <2>2, <2>3
<1>11. ASSUME NEW signal \in Signals, Handle(signal) PROVE ClaimInv'
  <2> DEFINE f == [signal |-> signal, pc |-> "unsubscribing",
                   at |-> at["owner"], back |-> back["owner"]]
  <2>1. frames' = Append(frames, f) /\ UNCHANGED <<vars, engine>>
    BY <1>11 DEF Handle
  <2>2. f \in Frame /\ f.pc = "unsubscribing" /\ f.at = at["owner"]
    BY <1>0, <1>11 DEF Frame, StopPcs, TypeOK
  <2> HIDE DEF f
  <2>3. \A i \in DOMAIN frames' : frames'[i] = f \/ (i \in DOMAIN frames /\ frames'[i] = frames[i])
    BY <1>0, <2>1, <2>2, Entered
  <2> QED BY <1>9, <2>1, <2>2, <2>3
<1> QED
  <2>1. CASE LoadConfig \/ InitializeExchanges \/ InitializeEngine \/ Return
             \/ EngineThreadsExit \/ UNCHANGED sysVars
    BY <1>9, <2>1 DEF LoadConfig, InitializeExchanges, InitializeEngine, Return,
                      EngineThreadsExit, sysVars, system
  <2> QED BY <1>1, <1>2, <1>3, <1>4, <1>6, <1>7, <1>8, <1>10, <1>11, <2>1
          DEF SystemNext, MainGoesOn, IoSteps

LEMMA ShutInvHolds ==
    ASSUME SystemTypeOK, IoInv, MainInv, NestInv, ClaimInv, ShutInv,
           [SystemNext]_sysVars
    PROVE  ShutInv'
<1> USE DEF ShutInv
<1>0. TypeOK /\ frames \in Seq(Frame) /\ Depth = Len(frames) /\ Depth \in Nat
      /\ DOMAIN frames = 1..Depth
  BY DEF SystemTypeOK, Depth
<1>a. Unused => Shut
  BY DEF Unused, Shut
<1>1. CASE IoSteps /\ UNCHANGED system
  BY <1>0, <1>1, IoShuts DEF system, IoInv, ClaimInv, Pending
<1>2. CASE AdapterGoesOn
  <2>1. OwnerGoesOn /\ UNCHANGED system /\ (In("disconnecting") \/ frames = <<>>)
    BY <1>2 DEF AdapterGoesOn
  <2>2. /\ at'["io"] = at["io"]
        /\ UNCHANGED back
        /\ stopped => stopped'
        /\ at'["owner"] = "joining" => stopped'
        /\ at'["owner"] \in Cleared \cup Done \cup {"clearing"}
        /\ Shut => Shut'
        /\ at'["owner"] = "clearing" =>
              at["owner"] = "checking" /\ UNCHANGED <<connected, stopped, reading>>
        /\ ~Pending /\ at'["owner"] \in Done => Shut'
    BY <1>0, <2>1, OwnerShuts DEF IoInv, ClaimInv
  <2>3. Pending' <=> Pending
    BY <2>1 DEF Pending, system
  <2>4. ~Pending /\ at'["owner"] = "clearing" => Attended' \/ Shut'
    BY <1>0, <2>2, ClaimStays
  <2>5. ~Pending' /\ engine' \in {"stopping", "destroyed"}
          => Shut' \/ (frames' # <<>> /\ at'["owner"] \in Cleared)
    BY <2>1, <2>2, <2>3 DEF Cleared, Done, system
  <2>6. at'["owner"] \notin {"new", "idle", "checking"}
    BY <2>2 DEF Cleared, Done
  <2> QED BY <2>1, <2>2, <2>3, <2>4, <2>5, <2>6 DEF system
<1>3. CASE ConnectAdapter
  <2>1. frames = <<>> /\ engine = "running" /\ Unused /\ UNCHANGED <<frames, engine>>
    BY <1>3 DEF ConnectAdapter, MainInv
  <2>2. at'["io"] = at["io"] /\ at'["owner"] = "idle" /\ (reading' => connected')
    BY <1>0, <1>3, <2>1 DEF ConnectAdapter, OwnerConnect, Connect, Go, TypeOK,
                            Threads, Unused
  <2>3. Attended'
    BY <2>1, <2>2 DEF Attended, Unused
  <2> QED BY <2>1, <2>2, <2>3 DEF Done
<1>4. CASE DestroyAdapter
  <2>1. /\ at'["io"] = at["io"] /\ at'["owner"] = "checking" /\ back'["io"] = back["io"]
        /\ at["owner"] \in {"new", "idle", "disconnected"}
        /\ UNCHANGED <<reading, stopped, connected, frames, engine>> /\ frames = <<>>
    BY <1>0, <1>4 DEF DestroyAdapter, Destroy, CallDisconnect, Go, TypeOK, Threads,
                      system
  <2>2. (Shut' <=> Shut) /\ (Attended' <=> Attended) /\ (Pending' <=> Pending)
    BY <1>0, <2>1, ClaimStays DEF Pending
  <2>3. ~Pending => Attended \/ Shut
    BY <2>1 DEF Done
  <2> QED BY <2>1, <2>2, <2>3 DEF Done
<1>5. ASSUME NEW pc \in StopPcs, Proceed(pc), Depth > 0,
             pc \in {"resetting", "joining"} => Shut \/ Pending,
             at'["io"] = at["io"], back'["io"] = back["io"],
             UNCHANGED <<reading, stopped, connected>>,
             \/ at'["owner"] = at["owner"] /\ (engine' = engine \/ Shut \/ Pending)
             \/ /\ at["owner"] \notin Cleared \/ Pending
                /\ at'["owner"] = "checking" /\ engine' = engine
      PROVE  ShutInv'
  <2>1. /\ Len(frames') = Len(frames) /\ frames' \in Seq(Frame)
        /\ frames'[Depth].pc = pc
        /\ \A i \in DOMAIN frames' :
              /\ i \in DOMAIN frames /\ frames'[i].at = frames[i].at
              /\ i # Depth => frames'[i] = frames[i]
    BY <1>0, <1>5, Proceeded
  <2>2. DOMAIN frames' = DOMAIN frames /\ frames' # <<>>
    BY <1>0, <1>5, <2>1
  <2>3. (Shut' <=> Shut) /\ (Attended' <=> Attended)
    BY <1>0, <1>5, ClaimStays
  <2>4. Pending' <=> Pending
    BY <2>1, <2>2 DEF Pending
  <2>5. ASSUME NEW i \in DOMAIN frames', frames'[i].pc \in {"resetting", "joining"}
        PROVE  Shut \/ \E j \in 1..i : frames'[j].at \in Cleared
    <3>1. \A j \in 1..i : j \in DOMAIN frames'
      BY <1>0, <2>2, <2>5
    <3>2. CASE i = Depth
      BY <1>0, <1>5, <2>1, <2>5, <3>2 DEF Pending
    <3>3. CASE i # Depth
      BY <2>1, <2>5, <3>1, <3>3
    <3> QED BY <3>2, <3>3
  <2>6. at["owner"] \in {"new", "idle", "checking", "clearing"} \cup Done \cup Cleared
    BY <1>0 DEF TypeOK, OwnerPcs, InDisconnect, Done, Cleared
  <2>7. ~Pending /\ at'["owner"] = "checking" => Attended \/ Shut
    BY <1>5, <2>6
  <2> QED BY <1>5, <2>1, <2>2, <2>3, <2>4, <2>5, <2>7 DEF Done, Cleared
<1>6. CASE StopAdapter
  <2>1. PICK pc \in StopPcs : /\ Proceed(pc) /\ pc # "joining"
                              /\ pc = "resetting" => ~created
    BY <1>6 DEF StopAdapter, StopPcs
  <2>2. /\ at'["io"] = at["io"] /\ back'["io"] = back["io"]
        /\ at'["owner"] = at["owner"] \/ at'["owner"] = "checking"
    BY <1>0, <1>6 DEF StopAdapter, CallDisconnect, Go, TypeOK, Threads
  <2>3. ~created => Shut
    BY <1>a DEF IoInv
  <2>4. at["owner"] \notin Cleared \/ Pending
    BY <1>0, <1>6 DEF StopAdapter, In, NestInv, Pending
  <2> QED BY <1>5, <1>6, <2>1, <2>2, <2>3, <2>4 DEF StopAdapter, In
<1>7. CASE AdapterStopped \/ ResetEngine \/ DestroyEngine
  <2>1. PICK pc \in StopPcs : Proceed(pc)
    BY <1>7 DEF AdapterStopped, ResetEngine, DestroyEngine, StopPcs
  <2>2. Shut \/ Pending
    BY <1>0, <1>7, Innermost
       DEF AdapterStopped, ResetEngine, DestroyEngine, In, Done, Pending
  <2> QED BY <1>5, <1>7, <2>1, <2>2
          DEF AdapterStopped, ResetEngine, DestroyEngine, In, vars
<1>8. CASE StopReturns
  <2>1. /\ Depth > 0 /\ frames' = SubSeq(frames, 1, Depth - 1)
        /\ frames[Depth].pc = "resetting"
        /\ UNCHANGED <<reading, stopped, connected, engine>>
        /\ at'["io"] = at["io"] /\ back'["io"] = back["io"]
        /\ IF Depth > 1 THEN at'["owner"] = frames[Depth].at
                        ELSE at'["owner"] = at["owner"]
    BY <1>0, <1>8 DEF StopReturns, In, TypeOK, Threads
  <2>2. /\ \A i \in DOMAIN frames' : i \in DOMAIN frames /\ frames'[i] = frames[i]
        /\ Len(frames') = Depth - 1 /\ frames' \in Seq(Frame)
    BY <1>0, <2>1, Returned
  <2>3. DOMAIN frames' = 1..(Depth - 1) /\ (Depth > 1 <=> frames' # <<>>)
    BY <1>0, <2>1, <2>2
  <2>4. (Shut' <=> Shut) /\ (Attended' <=> Attended)
    BY <1>0, <2>1, ClaimStays
  <2>5. Depth \in DOMAIN frames /\ 1 \in DOMAIN frames
    BY <1>0, <2>1
  <2>6. Pending => Pending' \/ frames[Depth].at \in Cleared
    BY <1>0, <2>2, <2>3 DEF Pending
  <2>7. Shut \/ Pending
    BY <1>0, <2>1, <2>5 DEF Pending
  <2>8. ~Pending' => Shut \/ (frames' # <<>> /\ at'["owner"] \in Cleared)
    BY <1>0, <2>1, <2>3, <2>5, <2>6, <2>7 DEF NestInv
  <2>9. at'["owner"] = "joining" => stopped'
    BY <2>1, <2>5
  <2>10. at'["owner"] \in Cleared => at'["owner"] \notin
            {"new", "idle", "checking", "clearing"} \cup Done
    BY DEF Cleared, Done
  <2>11. \A i \in DOMAIN frames' : frames'[i].pc \in {"resetting", "joining"}
           => Shut' \/ \E j \in 1..i : frames'[j].at \in Cleared
    <3>1. \A i \in DOMAIN frames' : \A j \in 1..i : j \in DOMAIN frames'
      BY <1>0, <2>3
    <3> QED BY <2>2, <2>4, <3>1
  <2> QED BY <2>1, <2>2, <2>4, <2>8, <2>9, <2>10, <2>11
<1>9. ASSUME UNCHANGED vars, UNCHANGED engine,
             NEW f \in Frame, f.at = at["owner"], f.pc = "unsubscribing",
             frames' = Append(frames, f)
      PROVE  ShutInv'
  <2>1. /\ frames' \in Seq(Frame) /\ Len(frames') = Depth + 1
        /\ \A i \in 1..Depth : frames'[i] = frames[i]
        /\ frames'[Depth + 1] = f
    BY <1>0, <1>9
  <2>2. DOMAIN frames' = 1..(Depth + 1)
    BY <1>0, <2>1
  <2>3. (Shut' <=> Shut) /\ (Attended' <=> Attended)
    BY <1>0, <1>9, ClaimStays DEF vars
  <2>4. Pending' <=> Pending \/ at["owner"] \in Cleared
    BY <1>0, <1>9, <2>1, <2>2 DEF Pending
  <2>5. \A i \in DOMAIN frames' : frames'[i].pc \in {"resetting", "joining"}
           => Shut' \/ \E j \in 1..i : frames'[j].at \in Cleared
    <3>1. \A i \in 1..Depth : \A j \in 1..i : j \in 1..Depth
      BY <1>0
    <3> QED BY <1>0, <1>9, <2>1, <2>2, <2>3, <3>1
  <2>6. \A i \in DOMAIN frames' : frames'[i].at = "joining" => stopped'
    BY <1>0, <1>9, <2>1, <2>2 DEF vars
  <2> QED BY <1>9, <2>3, <2>4, <2>5, <2>6 DEF vars
<1>10. ASSUME UNCHANGED vars, UNCHANGED frames, engine' \in {engine, "running"}
       PROVE  ShutInv'
  <2>1. (Shut' <=> Shut) /\ (Attended' <=> Attended) /\ (Pending' <=> Pending)
    BY <1>0, <1>10, ClaimStays DEF vars, Pending
  <2> QED BY <1>10, <2>1 DEF vars
<1>11. CASE Fail
  <2> DEFINE f == [signal |-> NoSignal, pc |-> "unsubscribing",
                   at |-> at["owner"], back |-> back["owner"]]
  <2>1. frames' = <<f>> /\ frames = <<>> /\ UNCHANGED <<vars, engine>>
    BY <1>11 DEF Fail, MainInv
  <2>2. f.pc = "unsubscribing" /\ f.at = at["owner"] /\ f \in Frame
    BY <1>0 DEF Frame, StopPcs, TypeOK
  <2> HIDE DEF f
  <2>3. frames' = Append(frames, f)
    BY <2>1
  <2> QED BY <1>9, <2>1, <2>2, <2>3
<1>12. ASSUME NEW signal \in Signals, Handle(signal) PROVE ShutInv'
  <2> DEFINE f == [signal |-> signal, pc |-> "unsubscribing",
                   at |-> at["owner"], back |-> back["owner"]]
  <2>1. frames' = Append(frames, f) /\ UNCHANGED <<vars, engine>>
    BY <1>12 DEF Handle
  <2>2. f \in Frame /\ f.pc = "unsubscribing" /\ f.at = at["owner"]
    BY <1>0, <1>12 DEF Frame, StopPcs, TypeOK
  <2> HIDE DEF f
  <2> QED BY <1>9, <2>1, <2>2
<1> QED
  <2>1. CASE LoadConfig \/ InitializeExchanges \/ InitializeEngine \/ Return
             \/ EngineThreadsExit \/ UNCHANGED sysVars
    BY <1>10, <2>1 DEF LoadConfig, InitializeExchanges, InitializeEngine, Return,
                       EngineThreadsExit, sysVars, system
  <2> QED BY <1>1, <1>2, <1>3, <1>4, <1>6, <1>7, <1>8, <1>11, <1>12, <2>1
          DEF SystemNext, MainGoesOn, IoSteps

StopInv == NestInv /\ ClaimInv /\ ShutInv

LEMMA StopInvHolds == SystemSpec => []StopInv
<1>1. SystemInit => StopInv
  BY DEF SystemInit, Init, Threads, StopInv, NestInv, ClaimInv, ShutInv, Pending,
         Claimed, Attended, Shut, Cleared, Done, In, Depth
<1>2. SystemTypeOK /\ SystemInv /\ StopInv /\ [SystemNext]_sysVars => StopInv'
  BY NestInvHolds, ClaimInvHolds, ShutInvHolds DEF SystemInv, StopInv
<1> QED BY <1>1, <1>2, SystemTypeCorrect, SystemInvHolds, PTL DEF SystemSpec

\* When the last call of stop has returned and the engine is destroyed, the
\* adapter is not connected, unless its io thread was connecting again after a
\* failed read: however the stops were nested, and though one that overtook
\* another's disconnect waits for nobody.
THEOREM StoppedIsDisconnected == SystemSpec => []StoppedStaysDisconnected
<1>1. StopInv => StoppedStaysDisconnected
  BY DEF StopInv, ShutInv, Pending, Shut, StoppedStaysDisconnected
<1> QED BY <1>1, StopInvHolds, PTL
=============================================================================
