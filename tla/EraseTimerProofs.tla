-------------------------- MODULE EraseTimerProofs --------------------------
(***************************************************************************)
(* The erase countdown, for every delay and every width of the counter, on *)
(* a board that is switched off before the disabled counter has run out:   *)
(* Uptime < WordMax, about 49.7 days.                                      *)
(***************************************************************************)
EXTENDS EraseTimer, TLAPS

\* The value the next step of the countdown starts from, and the ticks that
\* were counted off before it.
Value == IF tickPc = "store" THEN loaded ELSE gEraseDelay
Counted == IF tickPc = "store" THEN gTickCounter - 1 ELSE gTickCounter

\* Nothing but ticks has changed the counter since it was disabled.
FromDisabled == Value + Counted >= WordMax

\* The counter and the age of some touch add up to the delay.
FromTouch == Value \in 1 .. EraseDelay /\ EraseDelay - Value \in touches

\* From the write to the erase: some touch has reached its age, and the counter
\* stands at zero unless a request has come since.
ErasePending ==
    /\ EraseDelay \in touches
    /\ gEraseDelay = 0 \/ FromDisabled \/ FromTouch
    /\ ~torn => gEraseDelay = 0 /\ scheduled

IInv ==
    /\ TypeOK
    /\ tickPc = "store" => gTickCounter > 0
    /\ tickPc = "erase" => ErasePending
    /\ ~erased /\ tickPc # "erase" => FromDisabled \/ FromTouch
    /\ ~erased /\ ~torn /\ ~scheduled => FromDisabled
    /\ scheduled => rate1200 /\ ~dtr
    /\ EraseFollowsTouch
    /\ CancelHolds

LEMMA InitInv == Init => IInv
<1> SUFFICES ASSUME Init PROVE IInv
  OBVIOUS
<1>1. WordMax \in Nat /\ 0 \in 0 .. WordMax /\ 0 \in 0 .. Uptime
  BY EraseTimerAssumption
<1>2. TypeOK
  <2>1. /\ gEraseDelay \in 0 .. WordMax /\ loaded \in 0 .. WordMax
        /\ tickPc \in {"idle", "store", "erase"} /\ gTickCounter \in 0 .. Uptime
    BY <1>1 DEF Init, Disabled
  <2>2. /\ rate1200 \in BOOLEAN /\ dtr \in BOOLEAN /\ erased \in BOOLEAN
        /\ scheduled \in BOOLEAN /\ torn \in BOOLEAN
        /\ touches \subseteq 0 .. EraseDelay
    BY Zenon DEF Init
  <2> QED
    BY <2>1, <2>2, Zenon DEF TypeOK
<1>3. FromDisabled
  BY <1>1 DEF Init, FromDisabled, Value, Counted, Disabled
<1> QED
  BY <1>2, <1>3 DEF Init, IInv, EraseFollowsTouch, CancelHolds

-----------------------------------------------------------------------------

\* A request sets the counter, or disables it, while no tick is under way.
LEMMA CdcSetupInv ==
    ASSUME IInv, NEW rate \in BOOLEAN, NEW open \in BOOLEAN, CdcSetup(rate, open)
    PROVE  IInv'
<1>1. /\ ~erased /\ ~erased' /\ rate1200' = rate /\ dtr' = open
      /\ loaded' = loaded /\ tickPc' = tickPc /\ gTickCounter' = gTickCounter
      /\ touches' = IF rate /\ ~open THEN touches \cup {0} ELSE touches
  BY DEF CdcSetup
<1>2. /\ rate /\ ~open => gEraseDelay' = EraseDelay /\ scheduled'
      /\ ~(rate /\ ~open) => gEraseDelay' = WordMax /\ ~scheduled'
  BY DEF CdcSetup, LineChanged, Disabled
<1>3. ~torn' => tickPc = "idle"
  BY DEF CdcSetup
<1>4. TypeOK'
  <2>1. /\ gEraseDelay' \in 0 .. WordMax /\ touches' \subseteq 0 .. EraseDelay
    BY <1>1, <1>2, EraseTimerAssumption DEF IInv, TypeOK
  <2>2. scheduled' \in BOOLEAN /\ torn' \in BOOLEAN
    BY DEF CdcSetup, LineChanged
  <2>3. /\ rate1200' \in BOOLEAN /\ dtr' \in BOOLEAN /\ erased' \in BOOLEAN
    BY Zenon DEF CdcSetup, IInv, TypeOK
  <2>4. /\ loaded' \in 0 .. WordMax /\ tickPc' \in {"idle", "store", "erase"}
        /\ gTickCounter' \in 0 .. Uptime
    BY <1>1, Zenon DEF IInv, TypeOK
  <2> QED
    BY <2>1, <2>2, <2>3, <2>4, Zenon DEF TypeOK
<1>5. /\ WordMax \in Nat /\ EraseDelay \in 1 .. WordMax /\ gTickCounter \in Nat
  BY EraseTimerAssumption DEF IInv, TypeOK
<1>6. CASE tickPc = "store"
  <2>1. Value' = Value /\ Counted' = Counted /\ touches \subseteq touches'
    BY <1>1, <1>6 DEF Value, Counted
  <2>2. FromDisabled' \/ FromTouch'
    BY <1>1, <1>6, <2>1 DEF IInv, FromDisabled, FromTouch
  <2>3. torn'
    BY <1>3, <1>6
  <2> QED
    BY <1>1, <1>2, <1>4, <1>6, <2>2, <2>3 DEF IInv, EraseFollowsTouch, CancelHolds
<1>7. CASE tickPc # "store"
  <2>1. Value' = gEraseDelay' /\ Counted' = gTickCounter
    BY <1>1, <1>7 DEF Value, Counted
  <2>2. ASSUME FromTouch' \/ FromDisabled'
        PROVE  tickPc' = "erase" => ErasePending'
    <3> SUFFICES ASSUME tickPc = "erase" PROVE ErasePending'
      BY <1>1
    <3>1. EraseDelay \in touches' /\ torn'
      BY <1>1, <1>3 DEF IInv, ErasePending
    <3> QED
      BY <2>2, <3>1 DEF ErasePending
  <2>3. CASE rate /\ ~open
    <3>1. FromTouch'
      BY <1>1, <1>2, <1>5, <2>1, <2>3 DEF FromTouch
    <3> QED
      BY <1>1, <1>2, <1>4, <1>7, <2>2, <2>3, <3>1 DEF IInv, EraseFollowsTouch, CancelHolds
  <2>4. CASE ~(rate /\ ~open)
    <3>1. FromDisabled'
      BY <1>2, <1>5, <2>1, <2>4 DEF FromDisabled
    <3> QED
      BY <1>1, <1>2, <1>4, <1>7, <2>2, <2>4, <3>1 DEF IInv, EraseFollowsTouch, CancelHolds
  <2> QED
    BY <2>3, <2>4
<1> QED
  BY <1>6, <1>7

\* The read changes neither the value nor the ticks counted off.
LEMMA TickLoadInv ==
    ASSUME IInv, TickLoad
    PROVE  IInv'
<1>1. /\ ~erased /\ tickPc = "idle" /\ gTickCounter < Uptime
      /\ gTickCounter' = gTickCounter + 1 /\ loaded' = gEraseDelay
      /\ tickPc' = "store"
      /\ UNCHANGED <<gEraseDelay, erased, rate1200, dtr, scheduled, touches, torn>>
  BY DEF TickLoad, lineVars, ghosts
<1>2. gTickCounter \in Nat /\ gTickCounter + 1 \in 0 .. Uptime
  BY <1>1, EraseTimerAssumption DEF IInv, TypeOK
<1>3. TypeOK'
  BY <1>1, <1>2 DEF IInv, TypeOK
<1>4. Value' = Value /\ Counted' = Counted
  BY <1>1, <1>2 DEF Value, Counted
<1>5. /\ ~erased' => FromDisabled' \/ FromTouch'
      /\ ~erased' /\ ~torn' /\ ~scheduled' => FromDisabled'
  BY <1>1, <1>4 DEF IInv, FromDisabled, FromTouch
<1> QED
  BY <1>1, <1>2, <1>3, <1>5 DEF IInv, EraseFollowsTouch, CancelHolds

\* The write takes the value one tick nearer to zero and makes each touch one
\* tick older.  A disabled counter does not get to zero in time.
LEMMA TickStoreInv ==
    ASSUME Uptime < WordMax, IInv, TickStore
    PROVE  IInv'
<1>1. /\ ~erased /\ ~erased' /\ tickPc = "store" /\ loaded' = 0
      /\ gEraseDelay' = IF loaded = 0 THEN WordMax ELSE loaded - 1
      /\ touches' = {age + 1 : age \in touches \ {EraseDelay}}
      /\ UNCHANGED <<gTickCounter, erased, rate1200, dtr, scheduled, torn>>
  BY DEF TickStore, Decrement, lineVars
<1>2. tickPc' = IF gEraseDelay' = 0 THEN "erase" ELSE "idle"
  BY DEF TickStore, Expired
<1>3. /\ WordMax \in Nat /\ Uptime \in Nat /\ EraseDelay \in 1 .. WordMax
      /\ loaded \in 0 .. WordMax /\ gTickCounter \in 1 .. Uptime
      /\ touches \subseteq 0 .. EraseDelay
  BY <1>1, EraseTimerAssumption DEF IInv, TypeOK
<1>4. /\ Value = loaded /\ Counted = gTickCounter - 1
      /\ Value' = gEraseDelay' /\ Counted' = gTickCounter
  BY <1>1, <1>2 DEF Value, Counted
<1>5. TypeOK'
  <2>1. gEraseDelay' \in 0 .. WordMax
    BY <1>1, <1>3
  <2>2. touches' \subseteq 0 .. EraseDelay
    BY <1>1, <1>3
  <2> QED
    BY <1>1, <1>2, <1>3, <2>1, <2>2 DEF IInv, TypeOK
<1>6. FromDisabled => FromDisabled' /\ gEraseDelay' # 0
  BY <1>1, <1>3, <1>4 DEF FromDisabled
<1>7. FromTouch => EraseDelay - gEraseDelay' \in touches' /\ gEraseDelay' \in 0 .. EraseDelay
  <2> SUFFICES ASSUME FromTouch
               PROVE  EraseDelay - gEraseDelay' \in touches' /\ gEraseDelay' \in 0 .. EraseDelay
    OBVIOUS
  <2>1. loaded \in 1 .. EraseDelay /\ EraseDelay - loaded \in touches
    BY <1>4 DEF FromTouch
  <2>2. gEraseDelay' = loaded - 1 /\ gEraseDelay' \in 0 .. EraseDelay
    BY <1>1, <1>3, <2>1
  <2>3. EraseDelay - loaded # EraseDelay
    BY <1>3, <2>1
  <2>4. (EraseDelay - loaded) + 1 \in touches'
    BY <1>1, <2>1, <2>3, Zenon
  <2>5. EraseDelay - gEraseDelay' = (EraseDelay - loaded) + 1
    BY <1>3, <2>1, <2>2
  <2> QED
    BY <2>2, <2>4, <2>5
<1>8. FromDisabled \/ FromTouch
  BY <1>1 DEF IInv
<1>9. tickPc' # "erase" => FromDisabled' \/ FromTouch'
  BY <1>2, <1>3, <1>4, <1>6, <1>7, <1>8 DEF FromTouch
<1>10. ~torn /\ ~scheduled => FromDisabled' /\ gEraseDelay' # 0
  BY <1>1, <1>6 DEF IInv
<1>11. tickPc' = "erase" => ErasePending'
  <2> SUFFICES ASSUME tickPc' = "erase" PROVE ErasePending'
    OBVIOUS
  <2>1. gEraseDelay' = 0
    BY <1>2
  <2>2. EraseDelay \in touches'
    <3>1. EraseDelay - gEraseDelay' \in touches'
      BY <1>6, <1>7, <1>8, <2>1
    <3> QED
      BY <1>3, <2>1, <3>1
  <2>3. ~torn' => scheduled'
    BY <1>1, <1>10, <2>1
  <2> QED
    BY <2>1, <2>2, <2>3 DEF ErasePending
<1>12. EraseFollowsTouch' /\ CancelHolds'
  BY <1>1 DEF EraseFollowsTouch, CancelHolds
<1> QED
  BY <1>1, <1>2, <1>5, <1>9, <1>10, <1>11, <1>12 DEF IInv

\* The erase is that of a touch which has reached its age; if a request has come
\* in between it was torn.
LEMMA TickEraseInv == ASSUME IInv, TickErase PROVE IInv'
<1>1. /\ ~erased /\ tickPc = "erase" /\ tickPc' = "idle"
      /\ UNCHANGED <<gEraseDelay, loaded, gTickCounter, rate1200, dtr, scheduled,
                     touches, torn>>
  BY DEF TickErase, lineVars, ghosts
<1>2. erased' \in BOOLEAN /\ (~erased' => gEraseDelay # 0)
  BY DEF TickErase, Expired
<1>3. ErasePending
  BY <1>1 DEF IInv
<1>4. Value' = Value /\ Counted' = Counted
  BY <1>1 DEF Value, Counted
<1>5. TypeOK'
  BY <1>1, <1>2 DEF IInv, TypeOK
<1>6. ~erased' => (FromDisabled' \/ FromTouch') /\ torn
  BY <1>1, <1>2, <1>3, <1>4 DEF ErasePending, FromDisabled, FromTouch
<1>7. EraseFollowsTouch'
  BY <1>1, <1>3 DEF ErasePending, EraseFollowsTouch
<1>8. CancelHolds'
  BY <1>1, <1>3 DEF IInv, ErasePending, CancelHolds
<1> QED
  BY <1>1, <1>2, <1>5, <1>6, <1>7, <1>8 DEF IInv

LEMMA NextInv == Uptime < WordMax /\ IInv /\ [Next]_vars => IInv'
<1> SUFFICES ASSUME Uptime < WordMax, IInv, [Next]_vars PROVE IInv'
  OBVIOUS
<1>1. CASE Next
  BY <1>1, CdcSetupInv, TickLoadInv, TickStoreInv, TickEraseInv DEF Next, Tick
<1>2. CASE UNCHANGED vars
  BY <1>2 DEF vars, timerVars, lineVars, ghosts, IInv, TypeOK, FromDisabled, FromTouch,
      ErasePending, Value, Counted, EraseFollowsTouch, CancelHolds
<1> QED
  BY <1>1, <1>2

-----------------------------------------------------------------------------

\* The counters keep their width and the ages of the touches their range.
THEOREM TypeCorrect == ASSUME Uptime < WordMax PROVE Spec => []TypeOK
<1>1. IInv => TypeOK
  BY DEF IInv
<1> QED
  BY <1>1, InitInv, NextInv, PTL DEF Spec

\* CDC_Setup() and eraseTick(): an erase comes EraseDelay ticks after a touch,
\* even if the USB interrupt came between the read and the write of the counter,
\* or between the write and the erase.
THEOREM EraseHasCause == ASSUME Uptime < WordMax PROVE Spec => []EraseFollowsTouch
<1>1. IInv => EraseFollowsTouch
  BY DEF IInv
<1> QED
  BY <1>1, InitInv, NextInv, PTL DEF Spec

\* CDC_Setup(): the last request decides, unless it came inside eraseTick(), before
\* the counter was written back or between that and erase().
THEOREM CancelWins == ASSUME Uptime < WordMax PROVE Spec => []CancelHolds
<1>1. IInv => CancelHolds
  BY DEF IInv
<1> QED
  BY <1>1, InitInv, NextInv, PTL DEF Spec
=============================================================================
