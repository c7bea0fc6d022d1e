----------------------------- MODULE HelloProofs ----------------------------
(***************************************************************************)
(* Proofs about HelloTimer, for any users and any delays.  Each theorem    *)
(* takes those of the module's three conditions that it needs: that the    *)
(* device is not opened during its init, that users take turns with        *)
(* SET_DELAY, that unloading meets no running handler.  The timer is never *)
(* lost, even without any of them.                                         *)
(***************************************************************************)
EXTENDS HelloProperties, TLAPS

\* The types hold at first.
LEMMA HelloTypeInit == Init => TypeOK
  <1> SUFFICES ASSUME Init PROVE TypeOK
    OBVIOUS
  <1>1. ready \in BOOLEAN /\ pending \in BOOLEAN /\ oops \in BOOLEAN
    BY Zenon DEF Init, TimerInit
  <1> QED
    BY <1>1, DelayAssumption DEF Init, TimerInit, TypeOK, Phases, SetDelayPCs

\* Every step keeps them.
LEMMA HelloTypeStep == ASSUME TypeOK, [Next]_vars PROVE TypeOK'
  <1> USE DelayAssumption DEF TypeOK, Phases, SetDelayPCs, timer
  <1>1. CASE Fire
    BY <1>1 DEF Fire, Expire
  <1>2. CASE HandlerExpires
    BY <1>2 DEF HandlerExpires
  <1>3. CASE HandlerAdd
    BY <1>3 DEF HandlerAdd, AddTimer
  <1>4. CASE HandlerReturn
    BY <1>4 DEF HandlerReturn
  <1>5. CASE Insmod
    BY <1>5 DEF Insmod, LoadTimer
  <1>6. CASE ClassFails
    BY <1>6 DEF ClassFails
  <1>7. CASE MakeNode
    BY <1>7 DEF MakeNode
  <1>8. CASE StartTimer
    BY <1>8 DEF StartTimer, InitTimer
  <1>9. CASE InitAdds
    BY <1>9 DEF InitAdds, AddTimer
  <1>10. CASE Rmmod
    BY <1>10 DEF Rmmod, DelTimer
  <1>11. CASE Unloaded
    BY <1>11 DEF Unloaded
  <1>12. ASSUME NEW u \in Users, NEW d \in Delays, CopyDelay(u, d) PROVE TypeOK'
    BY <1>12 DEF CopyDelay, MayCall, Goto
  <1>13. ASSUME NEW u \in Users, CopyFails(u) PROVE TypeOK'
    BY <1>13 DEF CopyFails, MayCall
  <1>14. ASSUME NEW u \in Users, Delete(u) PROVE TypeOK'
    BY <1>14 DEF Delete, DelTimerSync, Goto
  <1>15. ASSUME NEW u \in Users, SetExpires(u) PROVE TypeOK'
    BY <1>15 DEF SetExpires, Goto
  <1>16. ASSUME NEW u \in Users, Add(u) PROVE TypeOK'
    BY <1>16 DEF Add, AddTimer, Goto
  <1>17. ASSUME NEW u \in Users, Return(u) PROVE TypeOK'
    BY <1>17 DEF Return, Goto
  <1>18. ASSUME NEW u \in Users, HelloOpen(u) PROVE TypeOK'
    BY <1>18 DEF HelloOpen, Openable
  <1>19. ASSUME NEW u \in Users, HelloRelease(u) PROVE TypeOK'
    BY <1>19 DEF HelloRelease
  <1>20. CASE UNCHANGED vars
    BY <1>20 DEF vars
  <1> QED
    BY <1>1, <1>2, <1>3, <1>4, <1>5, <1>6, <1>7, <1>8, <1>9, <1>10,
       <1>11, <1>12, <1>13, <1>14, <1>15, <1>16, <1>17, <1>18, <1>19, <1>20
       DEF Next, MyTimerFunc, SetDelay

\* All variables stay in their types, whatever users and processors do.
THEOREM HelloTypeCorrect == Spec => []TypeOK
  <1>1. TypeOK /\ [Next]_vars => TypeOK'
    BY HelloTypeStep
  <1> QED
    BY HelloTypeInit, <1>1, PTL DEF Spec

-----------------------------------------------------------------------------
(* The timer is never lost: who takes it off the list puts it back.        *)

\* Every step that takes the timer off the list is followed by one that arms
\* it, of the same handler or the same user.
LEMMA AliveStep == ASSUME TypeOK, TimerAlive, [Next]_vars PROVE TimerAlive'
  <1> USE DEF TypeOK, TimerAlive, HandlerOwns, Owns, Running, timer
  <1>1. CASE Fire
    BY <1>1 DEF Fire, Expire
  <1>2. CASE HandlerExpires
    BY <1>2 DEF HandlerExpires
  <1>3. CASE HandlerAdd
    BY <1>3 DEF HandlerAdd, AddTimer
  <1>4. CASE HandlerReturn
    BY <1>4 DEF HandlerReturn
  <1>5. CASE Insmod
    BY <1>5 DEF Insmod, LoadTimer
  <1>6. CASE ClassFails
    BY <1>6 DEF ClassFails
  <1>7. CASE MakeNode
    BY <1>7 DEF MakeNode
  <1>8. CASE StartTimer
    BY <1>8 DEF StartTimer, InitTimer
  <1>9. CASE InitAdds
    BY <1>9 DEF InitAdds, AddTimer
  <1>10. CASE Rmmod
    BY <1>10 DEF Rmmod, DelTimer
  <1>11. CASE Unloaded
    BY <1>11 DEF Unloaded
  <1>12. ASSUME NEW u \in Users, NEW d \in Delays, CopyDelay(u, d) PROVE TimerAlive'
    BY <1>12 DEF CopyDelay, MayCall, Goto
  <1>13. ASSUME NEW u \in Users, CopyFails(u) PROVE TimerAlive'
    BY <1>13 DEF CopyFails, MayCall
  <1>14. ASSUME NEW u \in Users, Delete(u) PROVE TimerAlive'
    BY <1>14 DEF Delete, DelTimerSync, Goto
  <1>15. ASSUME NEW u \in Users, SetExpires(u) PROVE TimerAlive'
    BY <1>15 DEF SetExpires, Goto
  <1>16. ASSUME NEW u \in Users, Add(u) PROVE TimerAlive'
    BY <1>16 DEF Add, AddTimer, Goto
  <1>17. ASSUME NEW u \in Users, Return(u) PROVE TimerAlive'
    BY <1>17 DEF Return, Goto
  <1>18. ASSUME NEW u \in Users, HelloOpen(u) PROVE TimerAlive'
    BY <1>18 DEF HelloOpen, Openable
  <1>19. ASSUME NEW u \in Users, HelloRelease(u) PROVE TimerAlive'
    BY <1>19 DEF HelloRelease
  <1>20. CASE UNCHANGED vars
    BY <1>20 DEF vars
  <1> QED
    BY <1>1, <1>2, <1>3, <1>4, <1>5, <1>6, <1>7, <1>8, <1>9, <1>10,
       <1>11, <1>12, <1>13, <1>14, <1>15, <1>16, <1>17, <1>18, <1>19, <1>20
       DEF Next, MyTimerFunc, SetDelay

\* While the module is in (lines 181 to 194) the timer is pending or somebody
\* is about to arm it: with users that do not take turns too, with opens during
\* init, and with handlers on other processors.
THEOREM TimerLives == Spec => []TimerAlive
  <1>1. Init => TimerAlive
    BY DEF Init, TimerAlive
  <1>2. TypeOK /\ TimerAlive /\ [Next]_vars => TimerAlive'
    BY AliveStep
  <1> QED
    BY HelloTypeCorrect, <1>1, <1>2, PTL DEF Spec

-----------------------------------------------------------------------------
(* A delay that is set sticks, for users that take turns.                  *)

\* Nobody but the one user in SET_DELAY changes the delay, or gives the timer
\* another one.
LEMMA TurnStep ==
  ASSUME ~EarlyOpen, TakeTurns, TypeOK, TurnInv, [Next]_vars PROVE TurnInv'
  <1> USE DEF TypeOK, TurnInv, CallInv, DelayInv, timer
  <1>1. CASE Fire
    BY <1>1 DEF Fire, Expire
  <1>2. CASE HandlerExpires
    BY <1>2 DEF HandlerExpires
  <1>3. CASE HandlerAdd
    BY <1>3 DEF HandlerAdd, AddTimer
  <1>4. CASE HandlerReturn
    BY <1>4 DEF HandlerReturn
  <1>5. CASE Insmod
    BY <1>5 DEF Insmod, LoadTimer
  <1>6. CASE ClassFails
    BY <1>6 DEF ClassFails
  <1>7. CASE MakeNode
    BY <1>7 DEF MakeNode
  <1>8. CASE StartTimer
    BY <1>8 DEF StartTimer, InitTimer
  <1>9. CASE InitAdds
    BY <1>9 DEF InitAdds, AddTimer
  <1>10. CASE Rmmod
    BY <1>10 DEF Rmmod, DelTimer
  <1>11. CASE Unloaded
    BY <1>11 DEF Unloaded
  <1>12. ASSUME NEW u \in Users, NEW d \in Delays, CopyDelay(u, d) PROVE TurnInv'
    BY <1>12 DEF CopyDelay, MayCall, Goto
  <1>13. ASSUME NEW u \in Users, CopyFails(u) PROVE TurnInv'
    BY <1>13 DEF CopyFails, MayCall
  <1>14. ASSUME NEW u \in Users, Delete(u) PROVE TurnInv'
    BY <1>14 DEF Delete, DelTimerSync, Goto
  <1>15. ASSUME NEW u \in Users, SetExpires(u) PROVE TurnInv'
    BY <1>15 DEF SetExpires, Goto
  <1>16. ASSUME NEW u \in Users, Add(u) PROVE TurnInv'
    BY <1>16 DEF Add, AddTimer, Goto
  <1>17. ASSUME NEW u \in Users, Return(u) PROVE TurnInv'
    BY <1>17 DEF Return, Goto
  <1>18. ASSUME NEW u \in Users, HelloOpen(u) PROVE TurnInv'
    BY <1>18 DEF HelloOpen, Openable
  <1>19. ASSUME NEW u \in Users, HelloRelease(u) PROVE TurnInv'
    BY <1>19 DEF HelloRelease
  <1>20. CASE UNCHANGED vars
    BY <1>20 DEF vars
  <1> QED
    BY <1>1, <1>2, <1>3, <1>4, <1>5, <1>6, <1>7, <1>8, <1>9, <1>10,
       <1>11, <1>12, <1>13, <1>14, <1>15, <1>16, <1>17, <1>18, <1>19, <1>20
       DEF Next, MyTimerFunc, SetDelay

\* What SET_DELAY sets is in force when it returns (line 82), also while the
\* module's handler runs on another processor.
THEOREM DelaySticks == ~EarlyOpen /\ TakeTurns => (Spec => []DelayInForce)
  <1> SUFFICES ASSUME ~EarlyOpen /\ TakeTurns PROVE Spec => []DelayInForce
    OBVIOUS
  <1>1. Init => TurnInv
    BY DEF Init, TurnInv, CallInv, DelayInv
  <1>2. TypeOK /\ TurnInv /\ [Next]_vars => TurnInv'
    BY TurnStep
  <1>3. TurnInv => DelayInForce
    BY DEF TurnInv, DelayInv, DelayInForce
  <1> QED
    BY HelloTypeCorrect, <1>1, <1>2, <1>3, PTL DEF Spec

-----------------------------------------------------------------------------
(* Nothing is left after unloading that meets no running handler.          *)

\* Outside the loaded module nobody can arm the timer without a stop of the
\* kernel, and del_timer finds no handler.
LEMMA QuietStep == ASSUME ~HotUnload, TypeOK, QuietInv, [Next]_vars PROVE QuietInv'
  <1> USE DEF TypeOK, Phases, QuietInv, Owns, Running, timer
  <1>1. CASE Fire
    BY <1>1 DEF Fire, Expire
  <1>2. CASE HandlerExpires
    BY <1>2 DEF HandlerExpires
  <1>3. CASE HandlerAdd
    BY <1>3 DEF HandlerAdd, AddTimer
  <1>4. CASE HandlerReturn
    BY <1>4 DEF HandlerReturn
  <1>5. CASE Insmod
    BY <1>5 DEF Insmod, LoadTimer
  <1>6. CASE ClassFails
    BY <1>6 DEF ClassFails
  <1>7. CASE MakeNode
    BY <1>7 DEF MakeNode
  <1>8. CASE StartTimer
    BY <1>8 DEF StartTimer, InitTimer
  <1>9. CASE InitAdds
    BY <1>9 DEF InitAdds, AddTimer
  <1>10. CASE Rmmod
    BY <1>10 DEF Rmmod, DelTimer
  <1>11. CASE Unloaded
    BY <1>11 DEF Unloaded
  <1>12. ASSUME NEW u \in Users, NEW d \in Delays, CopyDelay(u, d) PROVE QuietInv'
    BY <1>12 DEF CopyDelay, MayCall, Goto
  <1>13. ASSUME NEW u \in Users, CopyFails(u) PROVE QuietInv'
    BY <1>13 DEF CopyFails, MayCall
  <1>14. ASSUME NEW u \in Users, Delete(u) PROVE QuietInv'
    BY <1>14 DEF Delete, DelTimerSync, Goto
  <1>15. ASSUME NEW u \in Users, SetExpires(u) PROVE QuietInv'
    BY <1>15 DEF SetExpires, Goto
  <1>16. ASSUME NEW u \in Users, Add(u) PROVE QuietInv'
    <2>1. pc' # pc
      BY <1>16 DEF Add, Goto
    <2>2. ~oops
      BY Zenon, <2>1 DEF Next, vars
    <2>3. ready = TRUE /\ module \in {"timer", "in"}
      BY <1>16, <2>2 DEF Add
    <2> QED
      BY <1>16, <2>3 DEF Add, Goto
  <1>17. ASSUME NEW u \in Users, Return(u) PROVE QuietInv'
    BY <1>17 DEF Return, Goto
  <1>18. ASSUME NEW u \in Users, HelloOpen(u) PROVE QuietInv'
    BY <1>18 DEF HelloOpen, Openable
  <1>19. ASSUME NEW u \in Users, HelloRelease(u) PROVE QuietInv'
    BY <1>19 DEF HelloRelease
  <1>20. CASE UNCHANGED vars
    BY <1>20 DEF vars
  <1> QED
    BY <1>1, <1>2, <1>3, <1>4, <1>5, <1>6, <1>7, <1>8, <1>9, <1>10,
       <1>11, <1>12, <1>13, <1>14, <1>15, <1>16, <1>17, <1>18, <1>19, <1>20
       DEF Next, MyTimerFunc, SetDelay

\* The timer is gone with the module: the del_timer of line 194 was enough,
\* however the users took turns and whenever they opened the device.
THEOREM UnloadLeavesNothing == ~HotUnload => (Spec => []UnloadedQuiet)
  <1> SUFFICES ASSUME ~HotUnload PROVE Spec => []UnloadedQuiet
    OBVIOUS
  <1>1. Init => QuietInv
    BY DEF Init, TimerInit, QuietInv, Owns, Running
  <1>2. TypeOK /\ QuietInv /\ [Next]_vars => QuietInv'
    BY QuietStep
  <1>3. QuietInv => UnloadedQuiet
    BY DEF QuietInv, UnloadedQuiet
  <1> QED
    BY HelloTypeCorrect, <1>1, <1>2, <1>3, PTL DEF Spec

-----------------------------------------------------------------------------
(* The kernel never stops, under all three conditions.                     *)

\* The initial state satisfies the inductive invariant.
LEMMA HelloInit == Init => IndInv
  <1> SUFFICES ASSUME Init PROVE IndInv
    OBVIOUS
  <1> USE DEF Init, TimerInit
  <1>1. TypeOK
    BY DelayAssumption DEF TypeOK, Phases, SetDelayPCs
  <1>2. NoOops
    BY Zenon DEF NoOops
  <1>3. CallInv /\ OwnerInv
    BY DEF CallInv, OwnerInv, HandlerOwns, Owns, Running
  <1>4. DelayInv /\ TimerAlive
    BY DEF DelayInv, TimerAlive
  <1> QED
    BY <1>1, <1>2, <1>3, <1>4 DEF IndInv

\* Every action keeps the inductive invariant.
LEMMA HelloStep ==
  ASSUME ~EarlyOpen, TakeTurns, ~HotUnload, IndInv, [Next]_vars
  PROVE  IndInv'
  <1> USE DelayAssumption
      DEF IndInv, TypeOK, Phases, SetDelayPCs, NoOops, CallInv, OwnerInv, DelayInv,
          TimerAlive, HandlerOwns, Owns, Running, timer
  <1>1. CASE Fire
    BY <1>1 DEF Fire, Expire
  <1>2. CASE HandlerExpires
    BY <1>2 DEF HandlerExpires
  <1>3. CASE HandlerAdd
    BY <1>3 DEF HandlerAdd, AddTimer
  <1>4. CASE HandlerReturn
    BY <1>4 DEF HandlerReturn
  <1>5. CASE Insmod
    BY <1>5 DEF Insmod, LoadTimer
  <1>6. CASE ClassFails
    BY <1>6 DEF ClassFails
  <1>7. CASE MakeNode
    BY <1>7 DEF MakeNode
  <1>8. CASE StartTimer
    BY <1>8 DEF StartTimer, InitTimer
  <1>9. CASE InitAdds
    BY <1>9 DEF InitAdds, AddTimer
  <1>10. CASE Rmmod
    BY <1>10 DEF Rmmod, DelTimer
  <1>11. CASE Unloaded
    BY <1>11 DEF Unloaded
  <1>12. ASSUME NEW u \in Users, NEW d \in Delays, CopyDelay(u, d) PROVE IndInv'
    BY <1>12 DEF CopyDelay, MayCall, Goto
  <1>13. ASSUME NEW u \in Users, CopyFails(u) PROVE IndInv'
    BY <1>13 DEF CopyFails, MayCall
  <1>14. ASSUME NEW u \in Users, Delete(u) PROVE IndInv'
    BY <1>14 DEF Delete, DelTimerSync, Goto
  <1>15. ASSUME NEW u \in Users, SetExpires(u) PROVE IndInv'
    BY <1>15 DEF SetExpires, Goto
  <1>16. ASSUME NEW u \in Users, Add(u) PROVE IndInv'
    BY <1>16 DEF Add, AddTimer, Goto
  <1>17. ASSUME NEW u \in Users, Return(u) PROVE IndInv'
    BY <1>17 DEF Return, Goto
  <1>18. ASSUME NEW u \in Users, HelloOpen(u) PROVE IndInv'
    BY <1>18 DEF HelloOpen, Openable
  <1>19. ASSUME NEW u \in Users, HelloRelease(u) PROVE IndInv'
    BY <1>19 DEF HelloRelease
  <1>20. CASE UNCHANGED vars
    BY <1>20 DEF vars
  <1> QED
    BY <1>1, <1>2, <1>3, <1>4, <1>5, <1>6, <1>7, <1>8, <1>9, <1>10, <1>11, <1>12, <1>13, <1>14, <1>15, <1>16, <1>17, <1>18, <1>19, <1>20 DEF Next, MyTimerFunc, SetDelay

\* The inductive invariant holds in every reachable state.
THEOREM HelloInvariance == ~EarlyOpen /\ TakeTurns /\ ~HotUnload => (Spec => []IndInv)
  <1> SUFFICES ASSUME ~EarlyOpen /\ TakeTurns /\ ~HotUnload PROVE Spec => []IndInv
    OBVIOUS
  <1>1. IndInv /\ [Next]_vars => IndInv'
    BY HelloStep
  <1> QED
    BY HelloInit, <1>1, PTL DEF Spec

\* Lines 50, 81 and 181 never add a pending timer.
THEOREM TimerNeverMisused == ~EarlyOpen /\ TakeTurns /\ ~HotUnload => (Spec => []NoOops)
  <1> SUFFICES ASSUME ~EarlyOpen /\ TakeTurns /\ ~HotUnload PROVE Spec => []NoOops
    OBVIOUS
  <1>1. IndInv => NoOops
    BY DEF IndInv
  <1> QED
    BY HelloInvariance, <1>1, PTL
=============================================================================
