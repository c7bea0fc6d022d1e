---------------------------- MODULE BlinkProofs -----------------------------
(***************************************************************************)
(* Proofs about BlinkTimer, for any users, LEDs, masks and intervals.      *)
(***************************************************************************)
EXTENDS BlinkProperties, TLAPS

\* Before loading there is no timer and the LEDs are the keyboard's own.
LEMMA BlinkInit == Init => UnloadInv
  BY Zenon DEF Init, TimerInit, UnloadInv, Running, Normal, RestoreLeds, Bits

\* Arming, running and showing happen only while the module is in, and
\* Rmmod finds no handler; so nothing undoes the cleanup.
LEMMA BlinkStep ==
  ASSUME ~HotUnload, UnloadInv, [Next]_vars
  PROVE  UnloadInv'
  <1> USE DEF UnloadInv, Running, Normal, timer, interval, lights
  <1>1. CASE Fire
    BY <1>1 DEF Fire, Expire
  <1>2. CASE Compare
    BY <1>2 DEF Compare
  <1>3. CASE Choose
    BY <1>3 DEF Choose
  <1>4. CASE Show
    BY <1>4 DEF Show
  <1>5. CASE NextInterval
    BY <1>5 DEF NextInterval
  <1>6. CASE HandlerAdd
    BY <1>6 DEF HandlerAdd
  <1>7. CASE Insmod
    BY <1>7 DEF Insmod, LoadTimer
  <1>8. CASE StartTimer
    BY <1>8 DEF StartTimer
  <1>9. CASE Rmmod
    BY <1>9 DEF Rmmod, DelTimer
  <1>10. CASE RestoreKeyboard
    BY <1>10 DEF RestoreKeyboard, SetLeds, RestoreLeds, Bits
  <1>11. ASSUME NEW u \in Users, BlinkIoctl(u) \/ BlinkOpen(u) \/ Close(u)
         PROVE  UnloadInv'
    BY <1>11 DEF BlinkIoctl, SetInv, SelectNone, SelectMore, SelectOnce, BlinkOpen, Close
  <1>12. CASE UNCHANGED vars
    BY <1>12 DEF vars
  <1> QED
    BY <1>1, <1>2, <1>3, <1>4, <1>5, <1>6, <1>7, <1>8, <1>9, <1>10, <1>11, <1>12
       DEF Next, MyTimerFunc

\* Line 2, "until the module is unloaded": on condition that del_timer finds
\* no handler running, the LEDs stop blinking for good.
THEOREM UnloadStopsBlinking == ~HotUnload => (Spec => []BlinksUntilUnloaded)
  <1> SUFFICES ASSUME ~HotUnload PROVE Spec => []BlinksUntilUnloaded
    OBVIOUS
  <1>1. UnloadInv /\ [Next]_vars => UnloadInv'
    BY BlinkStep
  <1>2. UnloadInv => BlinksUntilUnloaded
    BY DEF UnloadInv, BlinksUntilUnloaded
  <1> QED
    BY BlinkInit, <1>1, <1>2, PTL DEF Spec

-----------------------------------------------------------------------------
(* The timer: it is used as the kernel demands, and never lost.            *)

\* Whoever arms the timer finds it initialised and off the list.
LEMMA ArmStep ==
  ASSUME ~HotUnload, UnloadInv, ArmInv, NoOops, [Next]_vars
  PROVE  ArmInv' /\ NoOops'
  <1> USE DEF UnloadInv, ArmInv, NoOops, Running, timer, interval, lights
  <1>1. CASE Fire
    BY <1>1 DEF Fire, Expire
  <1>2. CASE Compare
    BY <1>2 DEF Compare
  <1>3. CASE Choose
    BY <1>3 DEF Choose
  <1>4. CASE Show
    BY <1>4 DEF Show
  <1>5. CASE NextInterval
    BY <1>5 DEF NextInterval
  <1>6. CASE HandlerAdd
    <2>1. Running /\ module = "in"
      BY <1>6 DEF HandlerAdd
    <2>2. ready /\ ~pending
      BY Zenon, <2>1
    <2>3. ~oops' /\ handler' = "idle" /\ UNCHANGED <<ready, module>>
      BY Zenon, <1>6, <2>2 DEF HandlerAdd, AddTimer
    <2> QED
      BY <2>1, <2>2, <2>3
  <1>7. CASE Insmod
    BY <1>7 DEF Insmod, LoadTimer
  <1>8. CASE StartTimer
    BY <1>8 DEF StartTimer
  <1>9. CASE Rmmod
    BY <1>9 DEF Rmmod, DelTimer
  <1>10. CASE RestoreKeyboard
    BY <1>10 DEF RestoreKeyboard
  <1>11. ASSUME NEW u \in Users, BlinkIoctl(u) \/ BlinkOpen(u) \/ Close(u)
         PROVE  ArmInv' /\ NoOops'
    BY <1>11 DEF BlinkIoctl, SetInv, SelectNone, SelectMore, SelectOnce, BlinkOpen, Close
  <1>12. CASE UNCHANGED vars
    BY <1>12 DEF vars
  <1> QED
    BY <1>1, <1>2, <1>3, <1>4, <1>5, <1>6, <1>7, <1>8, <1>9, <1>10, <1>11, <1>12
       DEF Next, MyTimerFunc

\* Line 76: if del_timer finds no handler running, no add_timer ever meets a
\* pending or an uninitialised timer, for all the loading and unloading.
THEOREM BlinkNeverMisused == ~HotUnload => (Spec => []NoOops)
  <1> SUFFICES ASSUME ~HotUnload PROVE Spec => []NoOops
    OBVIOUS
  <1>1. Init => ArmInv /\ NoOops
    BY Zenon DEF Init, TimerInit, ArmInv, NoOops, Running
  <1>2. UnloadInv /\ ArmInv /\ NoOops /\ [Next]_vars => (UnloadInv /\ ArmInv /\ NoOops)'
    BY BlinkStep, ArmStep
  <1> QED
    BY BlinkInit, <1>1, <1>2, PTL DEF Spec

\* Every step that takes the timer off the list while the module is in hands
\* it to a handler that puts it back.
LEMMA AliveStep == ASSUME TimerAlive, [Next]_vars PROVE TimerAlive'
  <1> USE DEF TimerAlive, Running, timer, interval, lights
  <1>1. CASE Fire
    BY <1>1 DEF Fire, Expire
  <1>2. CASE Compare \/ Choose \/ Show \/ NextInterval
    BY <1>2 DEF Compare, Choose, Show, NextInterval
  <1>3. CASE HandlerAdd
    BY <1>3 DEF HandlerAdd, AddTimer
  <1>4. CASE Insmod \/ Rmmod \/ RestoreKeyboard
    BY <1>4 DEF Insmod, Rmmod, RestoreKeyboard
  <1>5. CASE StartTimer
    BY <1>5 DEF StartTimer
  <1>6. ASSUME NEW u \in Users, BlinkIoctl(u) \/ BlinkOpen(u) \/ Close(u)
        PROVE  TimerAlive'
    BY <1>6 DEF BlinkIoctl, SetInv, SelectNone, SelectMore, SelectOnce, BlinkOpen, Close
  <1>7. CASE UNCHANGED vars
    BY <1>7 DEF vars
  <1> QED
    BY <1>1, <1>2, <1>3, <1>4, <1>5, <1>6, <1>7 DEF Next, MyTimerFunc

\* Lines 45 and 76: the LEDs never stop blinking because the timer was lost.
\* This is the safety behind SteadyBlink, and needs no condition at all.
THEOREM BlinkTimerLives == Spec => []TimerAlive
  <1>1. Init => TimerAlive
    BY DEF Init, TimerAlive
  <1>2. TimerAlive /\ [Next]_vars => TimerAlive'
    BY AliveStep
  <1> QED
    BY <1>1, <1>2, PTL DEF Spec

-----------------------------------------------------------------------------
(* The types: every interval is an int, whatever SETINV was given.         *)

\* A conversion to int gives an int.
LEMMA ToIntIsInt == ASSUME NEW x \in Int PROVE ToInt(x) \in Ints
  <1> DEFINE M == 2 * (IntMax + 1)
             y == x + IntMax + 1
  <1>1. M \in Nat /\ M > 0 /\ y \in Int
    BY NumberAssumption DEF NumberAssumption
  <1>2. y % M \in 0 .. M - 1
    BY <1>1
  <1> QED
    BY <1>2, NumberAssumption DEF NumberAssumption, ToInt, Ints

\* The interval that loading sets is an int.
LEMMA BlinkDelayIsInt == BlinkDelay \in Ints
  <1>1. Hz \div 5 \in Nat /\ Hz \div 5 <= Hz
    BY NumberAssumption DEF NumberAssumption
  <1> QED
    BY <1>1, NumberAssumption DEF NumberAssumption, BlinkDelay, Ints

\* SETINV stores an int.
LEMMA IntervalIsInt == ASSUME NEW s \in Seconds PROVE ToInt(Hz * s) \in Ints
  <1>1. Hz * s \in Int
    BY NumberAssumption DEF NumberAssumption
  <1> QED
    BY <1>1, ToIntIsInt

\* The types hold at first.
LEMMA BlinkTypeInit == Init => BlinkTypeOK
  BY BlinkDelayIsInt DEF Init, TimerInit, BlinkTypeOK, AllLedsOn, RestoreLeds, Bits

\* Every step keeps them.
LEMMA BlinkTypeStep == ASSUME BlinkTypeOK, [Next]_vars PROVE BlinkTypeOK'
  <1> USE DEF BlinkTypeOK, timer, interval, lights, Bits
  <1>1. CASE Fire
    BY <1>1 DEF Fire, Expire
  <1>2. CASE Compare
    BY <1>2 DEF Compare, RestoreLeds
  <1>3. CASE Choose
    BY <1>3 DEF Choose
  <1>4. CASE Show
    BY <1>4 DEF Show, SetLeds
  <1>5. CASE NextInterval
    BY <1>5 DEF NextInterval
  <1>6. CASE HandlerAdd
    <2>1. oops' \in BOOLEAN /\ pending' \in BOOLEAN
      BY Zenon, <1>6 DEF HandlerAdd, AddTimer
    <2> QED
      BY <1>6, <2>1 DEF HandlerAdd
  <1>7. CASE Insmod
    BY <1>7, BlinkDelayIsInt DEF Insmod, LoadTimer, AllLedsOn
  <1>8. CASE StartTimer
    BY <1>8 DEF StartTimer
  <1>9. CASE Rmmod
    BY <1>9 DEF Rmmod, DelTimer
  <1>10. CASE RestoreKeyboard
    BY <1>10 DEF RestoreKeyboard, SetLeds, RestoreLeds
  <1>11. ASSUME NEW u \in Users, BlinkIoctl(u) PROVE BlinkTypeOK'
    <2>1. ASSUME NEW s \in Seconds, SetInv(u, s) PROVE BlinkTypeOK'
      BY <2>1, IntervalIsInt DEF SetInv
    <2>2. ASSUME NEW m \in Masks, SelectNone(u, m) PROVE BlinkTypeOK'
      BY <2>2, LedAssumption DEF SelectNone, LedAssumption
    <2>3. ASSUME NEW m \in Masks, SelectOnce(u, m) PROVE BlinkTypeOK'
      BY <2>3, LedAssumption DEF SelectOnce, LedAssumption
    <2>4. CASE SelectMore(u)
      BY <2>4 DEF SelectMore
    <2> QED
      BY <1>11, <2>1, <2>2, <2>3, <2>4 DEF BlinkIoctl
  <1>12. ASSUME NEW u \in Users, BlinkOpen(u) \/ Close(u) PROVE BlinkTypeOK'
    BY <1>12 DEF BlinkOpen, Close
  <1>13. CASE UNCHANGED vars
    BY <1>13 DEF vars
  <1> QED
    BY <1>1, <1>2, <1>3, <1>4, <1>5, <1>6, <1>7, <1>8, <1>9, <1>10, <1>11, <1>12, <1>13
       DEF Next, MyTimerFunc

\* Lines 85 and 74: an interval never leaves the ints, and a value that
\* SETLED makes has only bits that the LEDs or the keyboard state know.
THEOREM BlinkTypeCorrect == Spec => []BlinkTypeOK
  <1>1. BlinkTypeOK /\ [Next]_vars => BlinkTypeOK'
    BY BlinkTypeStep
  <1> QED
    BY BlinkTypeInit, <1>1, PTL DEF Spec
=============================================================================
