-------------------------- MODULE LifecycleProofs --------------------------
(***************************************************************************)
(* Proofs about Lifecycle, for any number of requests and interrupts.      *)
(*                                                                         *)
(* LifecycleInv says of each place of main what it has done so far to the  *)
(* shared memory, and of each reader that is between a test and a read     *)
(* that main can have got ahead of it only in Close.                       *)
(***************************************************************************)
EXTENDS Lifecycle, TLAPS

(* The start satisfies the inductive invariant.                            *)
LEMMA InitLifecycle == Init => LifecycleInv
<1> SUFFICES ASSUME Init PROVE LifecycleInv
  OBVIOUS
<1>1. MainType
  BY FreqsAssumption DEF Init, MainType, Starting, InRun
<1>2. SharedMemType /\ SignalType
  <2>1. interrupts \in 0 .. MaxInterrupts
    BY BoundsAssumption DEF Init
  <2> QED
    BY <2>1 DEF Init, SharedMemType, SignalType
<1>3. Unopened /\ NothingToOpen /\ ReadyInTime /\ Closing /\ TickerSet
  BY DEF Init, Unopened, NothingToOpen, ReadyInTime, Closing, TickerSet, Ended
<1>4. ReadersType /\ ReadersBehind
  BY DEF Init, ReadersType, ReadersBehind
<1>5. CrashOnlyInClose /\ NullOnlyAfterClose /\ Released
  BY DEF Init, CrashOnlyInClose, NullOnlyAfterClose, Released
<1> QED
  BY <1>1, <1>2, <1>3, <1>4, <1>5 DEF LifecycleInv, TypeOK

(* Every step of main keeps it.                                            *)
LEMMA MainKeepsInv ==
  ASSUME LifecycleInv,
         MainStep \/ Disconnect \/ ImcsTick \/ ListenerFails
  PROVE LifecycleInv'
<1> USE FreqsAssumption, BoundsAssumption DEF LifecycleInv, TypeOK, MainType,
        SharedMemType, SignalType, ReadersType, Unopened, NothingToOpen, ReadyInTime,
        Closing, ReadersBehind, TickerSet, CrashOnlyInClose, NullOnlyAfterClose,
        Released, Starting, InRun, Running, Deferred, Ended, Alive,
        configVars, shmVars, signalVars, tickerVars, requestVars, readerVars
<1>1. CASE ParseConfig
  BY <1>1 DEF ParseConfig, ParsedFreq
<1>2. CASE Open
  <2>1. MainType'
    BY <1>2 DEF Open, MapFails, AfterOpen
  <2>2. SharedMemType' /\ SignalType' /\ ReadersType'
    BY <1>2 DEF Open, MapFails, AfterOpen
  <2>3. Unopened' /\ NothingToOpen' /\ Closing'
    <3>1. Unopened'
      BY <1>2 DEF Open, MapFails, AfterOpen
    <3>2. NothingToOpen'
      BY <1>2 DEF Open, MapFails, AfterOpen
    <3>3. Closing'
      BY <1>2 DEF Open, MapFails, AfterOpen
    <3> QED
      BY <3>1, <3>2, <3>3
  <2>4. ReadyInTime'
    BY <1>2 DEF Open, MapFails, AfterOpen
  <2>5. ReadersBehind' /\ TickerSet'
    BY <1>2 DEF Open, MapFails, AfterOpen
  <2>6. CrashOnlyInClose' /\ NullOnlyAfterClose' /\ Released'
    BY <1>2 DEF Open, MapFails, AfterOpen
  <2> QED
    BY <2>1, <2>2, <2>3, <2>4, <2>5, <2>6
<1>3. CASE NotifyContext
  BY <1>3 DEF NotifyContext
<1>4. CASE Dial
  BY <1>4 DEF Dial, DialFails
<1>5. CASE Disconnect
  BY <1>5 DEF Disconnect
<1>6. CASE ImcsTick
  BY <1>6 DEF ImcsTick
<1>7. CASE ImcsWrite
  BY <1>7 DEF ImcsWrite
<1>8. CASE StartTicker
  BY <1>8 DEF StartTicker
<1>9. CASE Listen
  <2>1. MainType'
    BY <1>9 DEF Listen, FirstDeferred
  <2>2. SharedMemType' /\ SignalType' /\ ReadersType'
    BY <1>9 DEF Listen, FirstDeferred
  <2>3. Unopened' /\ NothingToOpen' /\ Closing'
    BY <1>9 DEF Listen, FirstDeferred
  <2>4. ReadyInTime'
    BY <1>9 DEF Listen, FirstDeferred
  <2>5. ReadersBehind' /\ TickerSet'
    BY <1>9 DEF Listen, FirstDeferred
  <2>6. CrashOnlyInClose' /\ NullOnlyAfterClose' /\ Released'
    BY <1>9 DEF Listen, FirstDeferred
  <2> QED
    BY <2>1, <2>2, <2>3, <2>4, <2>5, <2>6
<1>10. CASE ListenerFails
  <2>1. MainType'
    BY <1>10 DEF ListenerFails, FirstDeferred
  <2>2. SharedMemType' /\ SignalType' /\ ReadersType'
    BY <1>10 DEF ListenerFails, FirstDeferred
  <2>3. Unopened' /\ NothingToOpen' /\ Closing'
    BY <1>10 DEF ListenerFails, FirstDeferred
  <2>4. ReadyInTime'
    BY <1>10 DEF ListenerFails, FirstDeferred
  <2>5. ReadersBehind' /\ TickerSet'
    BY <1>10 DEF ListenerFails, FirstDeferred
  <2>6. CrashOnlyInClose' /\ NullOnlyAfterClose' /\ Released'
    BY <1>10 DEF ListenerFails, FirstDeferred
  <2> QED
    BY <2>1, <2>2, <2>3, <2>4, <2>5, <2>6
<1>11. CASE Cancel
  <2>1. MainType'
    BY <1>11 DEF Cancel
  <2>2. SharedMemType' /\ SignalType' /\ ReadersType'
    BY <1>11 DEF Cancel
  <2>3. Unopened' /\ NothingToOpen' /\ Closing'
    BY <1>11 DEF Cancel
  <2>4. ReadyInTime'
    BY <1>11 DEF Cancel
  <2>5. ReadersBehind' /\ TickerSet'
    BY <1>11 DEF Cancel
  <2>6. CrashOnlyInClose' /\ NullOnlyAfterClose' /\ Released'
    BY <1>11 DEF Cancel
  <2> QED
    BY <2>1, <2>2, <2>3, <2>4, <2>5, <2>6
<1>12. CASE Unmap
  <2>1. MainType'
    BY <1>12 DEF Unmap
  <2>2. SharedMemType' /\ SignalType' /\ ReadersType'
    BY <1>12 DEF Unmap
  <2>3. Unopened' /\ NothingToOpen' /\ Closing'
    BY <1>12 DEF Unmap
  <2>4. ReadyInTime'
    BY <1>12 DEF Unmap
  <2>5. ReadersBehind' /\ TickerSet'
    BY <1>12 DEF Unmap
  <2>6. CrashOnlyInClose' /\ NullOnlyAfterClose' /\ Released'
    BY <1>12 DEF Unmap
  <2> QED
    BY <2>1, <2>2, <2>3, <2>4, <2>5, <2>6
<1>13. CASE CloseHandle
  <2>1. MainType'
    BY <1>13 DEF CloseHandle
  <2>2. SharedMemType' /\ SignalType' /\ ReadersType'
    BY <1>13 DEF CloseHandle
  <2>3. Unopened' /\ NothingToOpen' /\ Closing'
    BY <1>13 DEF CloseHandle
  <2>4. ReadyInTime'
    BY <1>13 DEF CloseHandle
  <2>5. ReadersBehind' /\ TickerSet'
    BY <1>13 DEF CloseHandle
  <2>6. CrashOnlyInClose' /\ NullOnlyAfterClose' /\ Released'
    BY <1>13 DEF CloseHandle
  <2> QED
    BY <2>1, <2>2, <2>3, <2>4, <2>5, <2>6
<1>14. CASE ClearReady
  <2>1. MainType'
    BY <1>14 DEF ClearReady
  <2>2. SharedMemType' /\ SignalType' /\ ReadersType'
    BY <1>14 DEF ClearReady
  <2>3. Unopened' /\ NothingToOpen' /\ Closing'
    BY <1>14 DEF ClearReady
  <2>4. ReadyInTime'
    BY <1>14 DEF ClearReady
  <2>5. ReadersBehind' /\ TickerSet'
    BY <1>14 DEF ClearReady
  <2>6. CrashOnlyInClose' /\ NullOnlyAfterClose' /\ Released'
    BY <1>14 DEF ClearReady
  <2> QED
    BY <2>1, <2>2, <2>3, <2>4, <2>5, <2>6
<1>15. CASE Return
  BY <1>15 DEF Return
<1> HIDE DEF LifecycleInv
<1> QED
  BY <1>1, <1>2, <1>3, <1>4, <1>5, <1>6, <1>7, <1>8, <1>9, <1>10, <1>11, <1>12,
     <1>13, <1>14, <1>15 DEF MainStep

(* Every step of the ticker's goroutine keeps it.                          *)
LEMMA TickerKeepsInv ==
  ASSUME LifecycleInv,
         TickerStep
  PROVE LifecycleInv'
<1> USE FreqsAssumption, BoundsAssumption DEF LifecycleInv, TypeOK, MainType,
        SharedMemType, SignalType, ReadersType, Unopened, NothingToOpen, ReadyInTime,
        Closing, ReadersBehind, TickerSet, CrashOnlyInClose, NullOnlyAfterClose,
        Released, Starting, InRun, Running, Deferred, Ended, Alive,
        configVars, shmVars, signalVars, tickerVars, requestVars, readerVars
<1>1. CASE NewTicker
  <2>1. MainType'
    BY <1>1 DEF NewTicker, Crash
  <2>2. SharedMemType' /\ SignalType' /\ ReadersType'
    BY <1>1 DEF NewTicker, Crash
  <2>3. Unopened' /\ NothingToOpen' /\ Closing'
    BY <1>1 DEF NewTicker, Crash
  <2>4. ReadyInTime'
    BY <1>1 DEF NewTicker, Crash
  <2>5. ReadersBehind' /\ TickerSet'
    BY <1>1 DEF NewTicker, Crash
  <2>6. CrashOnlyInClose' /\ NullOnlyAfterClose' /\ Released'
    BY <1>1 DEF NewTicker, Crash
  <2> QED
    BY <2>1, <2>2, <2>3, <2>4, <2>5, <2>6
<1>2. CASE Tick
  BY <1>2 DEF Tick
<1>3. CASE TestReady
  <2>1. MainType'
    BY <1>3 DEF TestReady
  <2>2. SharedMemType' /\ SignalType' /\ ReadersType'
    BY <1>3 DEF TestReady
  <2>3. Unopened' /\ NothingToOpen' /\ Closing'
    BY <1>3 DEF TestReady
  <2>4. ReadyInTime'
    BY <1>3 DEF TestReady
  <2>5. ReadersBehind' /\ TickerSet'
    BY <1>3 DEF TestReady
  <2>6. CrashOnlyInClose' /\ NullOnlyAfterClose' /\ Released'
    BY <1>3 DEF TestReady
  <2> QED
    BY <2>1, <2>2, <2>3, <2>4, <2>5, <2>6
<1>4. CASE ReadShip
  <2>1. MainType'
    BY <1>4 DEF ReadShip, Crash
  <2>2. SharedMemType' /\ SignalType' /\ ReadersType'
    BY <1>4 DEF ReadShip, Crash
  <2>3. Unopened' /\ NothingToOpen' /\ Closing'
    BY <1>4 DEF ReadShip, Crash
  <2>4. ReadyInTime'
    BY <1>4 DEF ReadShip, Crash
  <2>5. ReadersBehind' /\ TickerSet'
    BY <1>4 DEF ReadShip, Crash
  <2>6. CrashOnlyInClose' /\ NullOnlyAfterClose' /\ Released'
    BY <1>4 DEF ReadShip, Crash
  <2> QED
    BY <2>1, <2>2, <2>3, <2>4, <2>5, <2>6
<1>5. CASE SendPosition
  <2>1. MainType'
    BY <1>5 DEF SendPosition
  <2>2. SharedMemType' /\ SignalType' /\ ReadersType'
    <3>1. SharedMemType'
      BY <1>5 DEF SendPosition
    <3>2. SignalType'
      BY <1>5 DEF SendPosition
    <3>3. ReadersType'
      BY <1>5 DEF SendPosition
    <3> QED
      BY <3>1, <3>2, <3>3
  <2>3. Unopened' /\ NothingToOpen' /\ Closing'
    BY <1>5 DEF SendPosition
  <2>4. ReadyInTime'
    BY <1>5 DEF SendPosition
  <2>5. ReadersBehind' /\ TickerSet'
    BY <1>5 DEF SendPosition
  <2>6. CrashOnlyInClose' /\ NullOnlyAfterClose' /\ Released'
    BY <1>5 DEF SendPosition
  <2> QED
    BY <2>1, <2>2, <2>3, <2>4, <2>5, <2>6
<1> HIDE DEF LifecycleInv
<1> QED
  BY <1>1, <1>2, <1>3, <1>4, <1>5 DEF TickerStep

(* A request, an interrupt and a step of another system keep it.           *)
LEMMA RestKeepsInv ==
  ASSUME LifecycleInv,
         (\E r \in Requests : GetPos(r) \/ AnswerPos(r)) \/ Interrupt \/ UNCHANGED vars
  PROVE LifecycleInv'
<1> USE FreqsAssumption, BoundsAssumption DEF LifecycleInv, TypeOK, MainType,
        SharedMemType, SignalType, ReadersType, Unopened, NothingToOpen, ReadyInTime,
        Closing, ReadersBehind, TickerSet, CrashOnlyInClose, NullOnlyAfterClose,
        Released, Starting, InRun, Running, Deferred, Ended, Alive,
        configVars, shmVars, signalVars, tickerVars, requestVars, readerVars
<1>1. ASSUME NEW r \in Requests, GetPos(r)
      PROVE LifecycleInv'
  BY <1>1 DEF GetPos
<1>2. ASSUME NEW r \in Requests, AnswerPos(r)
      PROVE LifecycleInv'
  <2>1. MainType'
    BY <1>2 DEF AnswerPos, Crash
  <2>2. SharedMemType' /\ SignalType' /\ ReadersType'
    BY <1>2 DEF AnswerPos, Crash
  <2>3. Unopened' /\ NothingToOpen' /\ Closing'
    BY <1>2 DEF AnswerPos, Crash
  <2>4. ReadyInTime'
    BY <1>2 DEF AnswerPos, Crash
  <2>5. ReadersBehind' /\ TickerSet'
    BY <1>2 DEF AnswerPos, Crash
  <2>6. CrashOnlyInClose' /\ NullOnlyAfterClose' /\ Released'
    BY <1>2 DEF AnswerPos, Crash
  <2> QED
    BY <2>1, <2>2, <2>3, <2>4, <2>5, <2>6
<1>3. CASE Interrupt
  <2>1. MainType'
    BY <1>3 DEF Interrupt
  <2>2. SharedMemType' /\ SignalType' /\ ReadersType'
    <3>1. SharedMemType'
      BY <1>3 DEF Interrupt
    <3>2. SignalType'
      <4>1. interrupts' \in 0 .. MaxInterrupts
        BY <1>3 DEF Interrupt
      <4>2. registered' \in BOOLEAN /\ cancelled' \in BOOLEAN
        BY <1>3 DEF Interrupt
      <4> QED
        BY <4>1, <4>2
    <3>3. ReadersType'
      BY <1>3 DEF Interrupt
    <3> QED
      BY <3>1, <3>2, <3>3
  <2>3. Unopened' /\ NothingToOpen' /\ Closing'
    BY <1>3 DEF Interrupt
  <2>4. ReadyInTime'
    BY <1>3 DEF Interrupt
  <2>5. ReadersBehind' /\ TickerSet'
    BY <1>3 DEF Interrupt
  <2>6. CrashOnlyInClose' /\ NullOnlyAfterClose' /\ Released'
    BY <1>3 DEF Interrupt
  <2> QED
    BY <2>1, <2>2, <2>3, <2>4, <2>5, <2>6
<1>4. CASE UNCHANGED vars
  <2>1. MainType'
    BY <1>4 DEF vars
  <2>2. SharedMemType' /\ SignalType' /\ ReadersType'
    BY <1>4 DEF vars
  <2>3. Unopened' /\ NothingToOpen' /\ Closing'
    BY <1>4 DEF vars
  <2>4. ReadyInTime'
    BY <1>4 DEF vars
  <2>5. ReadersBehind' /\ TickerSet'
    BY <1>4 DEF vars
  <2>6. CrashOnlyInClose' /\ NullOnlyAfterClose' /\ Released'
    BY <1>4 DEF vars
  <2> QED
    BY <2>1, <2>2, <2>3, <2>4, <2>5, <2>6
<1> HIDE DEF LifecycleInv
<1> QED
  BY <1>1, <1>2, <1>3, <1>4

(* The inductive invariant of main, the memory and its readers.            *)
THEOREM LifecycleInvariant == Spec => []LifecycleInv
<1>1. LifecycleInv /\ [Next]_vars => LifecycleInv'
  BY MainKeepsInv, TickerKeepsInv, RestKeepsInv DEF Next
<1> QED
  BY InitLifecycle, <1>1, PTL DEF Spec

(* The agent's state has its types, and the IMCS client runs only if asked *)
(* for (TypeOK).                                                           *)
THEOREM TypeCorrect == Spec => []TypeOK
<1>1. LifecycleInv => TypeOK
  BY DEF LifecycleInv
<1> QED
  BY LifecycleInvariant, <1>1, PTL

(* For any number of concurrent requests, and whatever the flags, nothing  *)
(* crashes the process but a reader that Close overtakes (Close).          *)
THEOREM CrashesOnlyInClose == Spec => []CrashOnlyInClose
<1>1. LifecycleInv => CrashOnlyInClose
  BY DEF LifecycleInv
<1> QED
  BY LifecycleInvariant, <1>1, PTL

(* The hub is sent null for a position only after Close (GetOwnShip).      *)
THEOREM NullsOnlyAfterClose == Spec => []NullOnlyAfterClose
<1>1. LifecycleInv => NullOnlyAfterClose
  BY DEF LifecycleInv
<1> QED
  BY LifecycleInvariant, <1>1, PTL

(* When main has returned, view and handle are released; a handle is closed*)
(* twice only if the mapping had failed (Open, Close).                     *)
THEOREM AllReleased == Spec => []Released
<1>1. LifecycleInv => Released
  BY DEF LifecycleInv
<1> QED
  BY LifecycleInvariant, <1>1, PTL
=============================================================================
