------------------------- MODULE NioSelectorProofs -------------------------
(***************************************************************************)
(* The lock protocol of SocketNIODataService, for any set of sessions:     *)
(* SelectorInv is an invariant, and the three safety properties of         *)
(* NioSelector follow from it.                                             *)
(***************************************************************************)
EXTENDS NioSelector, TLAPS

\* The service starts with every lock free and nothing registered.
LEMMA SelectorInit == Init => SelectorInv
  BY SelectorAssumption DEF Init, SelectorInv, TypeOK, OwnerInv, RegisteredInv, AnnouncedInv,
                            Threads, None

\* Every step of either thread, and shutdown, keeps SelectorInv.
LEMMA SelectorStep == SelectorInv /\ [Next]_vars => SelectorInv'
  <1> SUFFICES ASSUME SelectorInv, [Next]_vars
               PROVE  SelectorInv'
    OBVIOUS
  <1> USE SelectorAssumption DEF SelectorInv, Threads, None
  <1>1. ASSUME NEW s \in Sessions, VpnEnter(s)
        PROVE  SelectorInv'
    <2>1. TypeOK'
      BY <1>1 DEF VpnEnter, TypeOK
    <2>2. OwnerInv'
      BY <1>1 DEF VpnEnter, TypeOK, OwnerInv
    <2>3. RegisteredInv'
      BY <1>1 DEF VpnEnter, RegisteredInv
    <2>4. AnnouncedInv'
      BY <1>1 DEF VpnEnter, AnnouncedInv
    <2> QED
      BY <2>1, <2>2, <2>3, <2>4
  <1>2. CASE TrySelection
    <2>1. TypeOK'
      BY <1>2 DEF TrySelection, TypeOK
    <2>2. OwnerInv'
      BY <1>2 DEF TrySelection, OwnerInv
    <2>3. RegisteredInv'
      BY <1>2 DEF TrySelection, RegisteredInv
    <2>4. AnnouncedInv'
      BY <1>2 DEF TrySelection, AnnouncedInv
    <2> QED
      BY <2>1, <2>2, <2>3, <2>4
  <1>3. CASE VpnLockHandling
    <2>1. TypeOK'
      BY <1>3 DEF VpnLockHandling, TypeOK
    <2>2. OwnerInv'
      BY <1>3 DEF VpnLockHandling, OwnerInv
    <2>3. RegisteredInv'
      BY <1>3 DEF VpnLockHandling, RegisteredInv
    <2>4. AnnouncedInv'
      BY <1>3 DEF VpnLockHandling, AnnouncedInv
    <2> QED
      BY <2>1, <2>2, <2>3, <2>4
  <1>4. CASE WakeSelector
    <2>1. TypeOK'
      BY <1>4 DEF WakeSelector, TypeOK, locks
    <2>2. OwnerInv'
      BY <1>4 DEF WakeSelector, OwnerInv, locks
    <2>3. RegisteredInv'
      BY <1>4 DEF WakeSelector, RegisteredInv
    <2>4. AnnouncedInv'
      BY <1>4 DEF WakeSelector, AnnouncedInv
    <2> QED
      BY <2>1, <2>2, <2>3, <2>4
  <1>5. CASE VpnLockSelection
    <2>1. TypeOK'
      BY <1>5 DEF VpnLockSelection, TypeOK
    <2>2. OwnerInv'
      BY <1>5 DEF VpnLockSelection, OwnerInv
    <2>3. RegisteredInv'
      BY <1>5 DEF VpnLockSelection, RegisteredInv
    <2>4. AnnouncedInv'
      BY <1>5 DEF VpnLockSelection, AnnouncedInv
    <2> QED
      BY <2>1, <2>2, <2>3, <2>4
  <1>6. CASE VpnUnlockHandling
    <2>1. TypeOK'
      BY <1>6 DEF VpnUnlockHandling, TypeOK
    <2>2. OwnerInv'
      BY <1>6 DEF VpnUnlockHandling, OwnerInv
    <2>3. RegisteredInv'
      BY <1>6 DEF VpnUnlockHandling, RegisteredInv
    <2>4. AnnouncedInv'
      BY <1>6 DEF VpnUnlockHandling, AnnouncedInv
    <2> QED
      BY <2>1, <2>2, <2>3, <2>4
  <1>7. CASE Register
    <2>1. TypeOK'
      BY <1>7 DEF Register, TypeOK
    <2>2. OwnerInv'
      BY <1>7 DEF Register, OwnerInv
    <2>3. RegisteredInv'
      BY <1>7 DEF Register, RegisteredInv
    <2>4. AnnouncedInv'
      BY <1>7 DEF Register, AnnouncedInv
    <2> QED
      BY <2>1, <2>2, <2>3, <2>4
  <1>8. CASE Subscribe
    <2>1. TypeOK'
      BY <1>8 DEF Subscribe, TypeOK, locks
    <2>2. OwnerInv'
      BY <1>8 DEF Subscribe, OwnerInv, locks
    <2>3. RegisteredInv'
      BY <1>8 DEF Subscribe, RegisteredInv
    <2>4. AnnouncedInv'
      BY <1>8 DEF Subscribe, AnnouncedInv
    <2> QED
      BY <2>1, <2>2, <2>3, <2>4
  <1>9. CASE RefreshTry
    <2>1. TypeOK'
      BY <1>9 DEF RefreshTry, TypeOK
    <2>2. OwnerInv'
      BY <1>9 DEF RefreshTry, OwnerInv
    <2>3. RegisteredInv'
      BY <1>9 DEF RefreshTry, RegisteredInv
    <2>4. AnnouncedInv'
      BY <1>9 DEF RefreshTry, OwnerInv, AnnouncedInv
    <2> QED
      BY <2>1, <2>2, <2>3, <2>4
  <1>10. CASE RefreshUnlock
    <2>1. TypeOK'
      BY <1>10 DEF RefreshUnlock, TypeOK
    <2>2. OwnerInv'
      BY <1>10 DEF RefreshUnlock, OwnerInv
    <2>3. RegisteredInv'
      BY <1>10 DEF RefreshUnlock, RegisteredInv
    <2>4. AnnouncedInv'
      BY <1>10 DEF RefreshUnlock, AnnouncedInv
    <2> QED
      BY <2>1, <2>2, <2>3, <2>4
  <1>11. CASE VpnLeave
    <2>1. TypeOK'
      BY <1>11 DEF VpnLeave, TypeOK
    <2>2. OwnerInv'
      BY <1>11 DEF VpnLeave, TypeOK, OwnerInv
    <2>3. RegisteredInv'
      BY <1>11 DEF VpnLeave, RegisteredInv
    <2>4. AnnouncedInv'
      BY <1>11 DEF VpnLeave, AnnouncedInv
    <2> QED
      BY <2>1, <2>2, <2>3, <2>4
  <1>12. CASE Shutdown
    <2>1. TypeOK'
      BY <1>12 DEF Shutdown, TypeOK, locks
    <2>2. OwnerInv'
      BY <1>12 DEF Shutdown, OwnerInv, locks
    <2>3. RegisteredInv'
      BY <1>12 DEF Shutdown, RegisteredInv
    <2>4. AnnouncedInv'
      BY <1>12 DEF Shutdown, AnnouncedInv
    <2> QED
      BY <2>1, <2>2, <2>3, <2>4
  <1>13. CASE NioLockSelection
    <2>1. TypeOK'
      BY <1>13 DEF NioLockSelection, TypeOK
    <2>2. OwnerInv'
      BY <1>13 DEF NioLockSelection, OwnerInv
    <2>3. RegisteredInv'
      BY <1>13 DEF NioLockSelection, RegisteredInv
    <2>4. AnnouncedInv'
      BY <1>13 DEF NioLockSelection, AnnouncedInv
    <2> QED
      BY <2>1, <2>2, <2>3, <2>4
  <1>14. CASE SelectEnter
    <2>1. TypeOK'
      BY <1>14 DEF SelectEnter, TypeOK, locks
    <2>2. OwnerInv'
      BY <1>14 DEF SelectEnter, OwnerInv, locks
    <2>3. RegisteredInv'
      BY <1>14 DEF SelectEnter, RegisteredInv
    <2>4. AnnouncedInv'
      BY <1>14 DEF SelectEnter, RegisteredInv, AnnouncedInv
    <2> QED
      BY <2>1, <2>2, <2>3, <2>4
  <1>15. CASE SelectReturn
    <2>1. TypeOK'
      BY <1>15 DEF SelectReturn, TypeOK
    <2>2. OwnerInv'
      BY <1>15 DEF SelectReturn, OwnerInv
    <2>3. RegisteredInv'
      BY <1>15 DEF SelectReturn, RegisteredInv
    <2>4. AnnouncedInv'
      BY <1>15 DEF SelectReturn, AnnouncedInv
    <2> QED
      BY <2>1, <2>2, <2>3, <2>4
  <1>16. CASE SelectFail
    <2>1. TypeOK'
      BY <1>16 DEF SelectFail, TypeOK
    <2>2. OwnerInv'
      BY <1>16 DEF SelectFail, OwnerInv
    <2>3. RegisteredInv'
      BY <1>16 DEF SelectFail, RegisteredInv
    <2>4. AnnouncedInv'
      BY <1>16 DEF SelectFail, AnnouncedInv
    <2> QED
      BY <2>1, <2>2, <2>3, <2>4
  <1>17. CASE NioLockHandling
    <2>1. TypeOK'
      BY <1>17 DEF NioLockHandling, TypeOK
    <2>2. OwnerInv'
      BY <1>17 DEF NioLockHandling, OwnerInv
    <2>3. RegisteredInv'
      BY <1>17 DEF NioLockHandling, RegisteredInv
    <2>4. AnnouncedInv'
      BY <1>17 DEF NioLockHandling, AnnouncedInv
    <2> QED
      BY <2>1, <2>2, <2>3, <2>4
  <1>18. ASSUME NEW s \in Sessions, NextKey(s)
        PROVE  SelectorInv'
    <2>1. TypeOK'
      BY <1>18 DEF NextKey, TypeOK, locks
    <2>2. OwnerInv'
      BY <1>18 DEF NextKey, OwnerInv, locks
    <2>3. RegisteredInv'
      BY <1>18 DEF NextKey, RegisteredInv
    <2>4. AnnouncedInv'
      BY <1>18 DEF NextKey, AnnouncedInv
    <2> QED
      BY <2>1, <2>2, <2>3, <2>4
  <1>19. CASE NioLockSession
    <2>1. TypeOK'
      BY <1>19 DEF NioLockSession, TypeOK
    <2>2. OwnerInv'
      BY <1>19 DEF NioLockSession, TypeOK, OwnerInv
    <2>3. RegisteredInv'
      BY <1>19 DEF NioLockSession, RegisteredInv
    <2>4. AnnouncedInv'
      BY <1>19 DEF NioLockSession, AnnouncedInv
    <2> QED
      BY <2>1, <2>2, <2>3, <2>4
  <1>20. CASE Process
    <2>1. TypeOK'
      BY <1>20 DEF Process, TypeOK
    <2>2. OwnerInv'
      BY <1>20 DEF Process, TypeOK, OwnerInv
    <2>3. RegisteredInv'
      BY <1>20 DEF Process, RegisteredInv
    <2>4. AnnouncedInv'
      BY <1>20 DEF Process, AnnouncedInv
    <2> QED
      BY <2>1, <2>2, <2>3, <2>4
  <1>21. CASE KeysDone
    <2>1. TypeOK'
      BY <1>21 DEF KeysDone, TypeOK, locks
    <2>2. OwnerInv'
      BY <1>21 DEF KeysDone, OwnerInv, locks
    <2>3. RegisteredInv'
      BY <1>21 DEF KeysDone, RegisteredInv
    <2>4. AnnouncedInv'
      BY <1>21 DEF KeysDone, AnnouncedInv
    <2> QED
      BY <2>1, <2>2, <2>3, <2>4
  <1>22. CASE NioUnlockHandling
    <2>1. TypeOK'
      BY <1>22 DEF NioUnlockHandling, TypeOK
    <2>2. OwnerInv'
      BY <1>22 DEF NioUnlockHandling, OwnerInv
    <2>3. RegisteredInv'
      BY <1>22 DEF NioUnlockHandling, RegisteredInv
    <2>4. AnnouncedInv'
      BY <1>22 DEF NioUnlockHandling, AnnouncedInv
    <2> QED
      BY <2>1, <2>2, <2>3, <2>4
  <1>23. CASE UNCHANGED vars
    BY <1>23 DEF vars, locks, TypeOK, OwnerInv, RegisteredInv, AnnouncedInv
  <1> QED
    BY <1>1, <1>2, <1>3, <1>4, <1>5, <1>6, <1>7, <1>8, <1>9, <1>10, <1>11, <1>12, <1>13, <1>14, <1>15, <1>16, <1>17, <1>18, <1>19, <1>20, <1>21, <1>22, <1>23 DEF Next, VpnInside, Nio

\* The inductive invariant holds throughout.
THEOREM LockProtocol == Spec => []SelectorInv
  BY SelectorInit, SelectorStep, PTL DEF Spec

\* lockSelector: no channel is registered while the NIO thread selects.
THEOREM RegistersAlone == Spec => []NoRegisterWhileSelecting
  <1>1. SelectorInv => NoRegisterWhileSelecting
    BY DEF SelectorInv, OwnerInv, NoRegisterWhileSelecting
  <1> QED
    BY LockProtocol, <1>1, PTL

\* refreshSelect: no subscribed event is left out of a select() for good.
THEOREM WakeupsReach == Spec => []NoLostWakeup
  <1>1. SelectorInv => NoLostWakeup
    BY DEF SelectorInv, AnnouncedInv, NoLostWakeup
  <1> QED
    BY LockProtocol, <1>1, PTL

\* The VPN thread never holds the monitor the NIO thread waits for while it
\* waits for the lock the NIO thread holds.
THEOREM WaitsAreAcyclic == Spec => []NoCircularWait
  <1>1. SelectorInv => NoCircularWait
    BY DEF SelectorInv, TypeOK, OwnerInv, RegisteredInv, NoCircularWait
  <1> QED
    BY LockProtocol, <1>1, PTL
=============================================================================
