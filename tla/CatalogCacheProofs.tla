------------------------ MODULE CatalogCacheProofs ------------------------
(***************************************************************************)
(* Proofs about CatalogCache, for every number of requests, reloads and    *)
(* template edits.                                                         *)
(***************************************************************************)
EXTENDS CatalogCache, TLAPS

-----------------------------------------------------------------------------
\* Types, and who may be in the code the gate guards.

\* Whoever runs guarded code is at the head of the gate's queue.
GateHeld == \A p \in Process : Holding(p) => gate # <<>> /\ Head(gate) = p

BaseInv == TypeOK /\ GateHeld

LEMMA BlankEntry == Blank \in Entry
  BY BoundsAssumption DEF Blank, Entry, Version, Text

LEMMA StageStep == ASSUME pc \in [Process -> Stage], NEW p, NEW s \in Stage, Goto(p, s)
                   PROVE  pc' \in [Process -> Stage]
  BY DEF Goto

LEMMA AfterStages ==
    ASSUME NEW p, NEW s PROVE
    /\ AfterHit(s, p) \in Stage
    /\ s \in HitStage => AfterMiss(s, p) \in Stage
    /\ AfterRefresh(p) \in Stage
  BY DEF AfterHit, AfterMiss, AfterRefresh, Stage, HitStage

LEMMA BaseInit == Init => BaseInv
  BY BoundsAssumption, BlankEntry
  DEF Init, BaseInv, TypeOK, GateHeld, Holding, Version, Text, Process, FetchProcess, Stage

LEMMA TypeStep == BaseInv /\ [Next]_vars => TypeOK'
<1> SUFFICES ASSUME TypeOK, GateHeld, [Next]_vars PROVE TypeOK'
  BY DEF BaseInv
<1> USE BoundsAssumption, StageStep, AfterStages DEF TypeOK, locals
<1>1. ASSUME NEW p \in Process, FastSnapshot(p) PROVE TypeOK'
  BY <1>1 DEF FastSnapshot
<1>2. ASSUME NEW p \in Process, FastHit(p) PROVE TypeOK'
  BY <1>2 DEF FastHit, HitStage, Entry
<1>3. ASSUME NEW p \in Process, FastMiss(p) PROVE TypeOK'
  BY <1>3 DEF FastMiss
<1>4. ASSUME NEW p \in Process, BranchCold(p) PROVE TypeOK'
  BY <1>4 DEF BranchCold, Stage, Goto
<1>5. ASSUME NEW p \in Process, BranchSwr(p) PROVE TypeOK'
  BY <1>5 DEF BranchSwr, Stage
<1>6. ASSUME NEW p \in Process, BranchChanged(p) PROVE TypeOK'
  BY <1>6 DEF BranchChanged, Stage, Goto
<1>7. ASSUME NEW p \in Process, Reread(p) PROVE TypeOK'
  BY <1>7 DEF Reread, Stage, Goto
<1>8. ASSUME NEW p \in Process, ServeStored(p) PROVE TypeOK'
  BY <1>8 DEF ServeStored, Stage, Goto, Entry
<1>9. ASSUME NEW p \in Process, ColdLook(p) PROVE TypeOK'
  BY <1>9, ZenonT(40) DEF ColdLook, Stage, Goto, Entry
<1>10. ASSUME NEW p \in Process, JoinGate(p) PROVE TypeOK'
  <2>1. "wait" \in Stage
    BY DEF Stage
  <2> QED
    BY <1>10, <2>1 DEF JoinGate
<1>11. ASSUME NEW p \in Process, WinGate(p) PROVE TypeOK'
  <2>1. "stored" \in Stage /\ "behind" \in Stage
    BY DEF Stage
  <2> QED
    BY <1>11, <2>1 DEF WinGate
<1>12. ASSUME NEW p \in Process, TryGate(p) PROVE TypeOK'
  <2>1. <<p>> \in Seq(Process) /\ "read" \in Stage /\ "done" \in Stage
    BY DEF Stage
  <2> QED
    BY <1>12, <2>1 DEF TryGate
<1>13. ASSUME NEW p \in Process, Unlock(p) PROVE TypeOK'
  <2>1. gate # <<>>
    BY <1>13 DEF Unlock, GateHeld, Holding
  <2>2. Tail(gate) \in Seq(Process)
    BY <2>1
  <2>3. need' \in [Process -> Version]
    BY <1>13 DEF Unlock, Version
  <2>4. pc' \in [Process -> Stage]
    BY <1>13 DEF Unlock, Stage, Goto
  <2> QED
    BY <1>13, <2>2, <2>3, <2>4 DEF Unlock
<1>14. ASSUME NEW p \in Process, RefreshRead(p) PROVE TypeOK'
  <2>1. [Blank EXCEPT !.ver = ver] \in Entry /\ "load" \in Stage
    BY BlankEntry DEF Entry, Stage
  <2> QED
    BY <1>14, <2>1 DEF RefreshRead
<1>15. ASSUME NEW p \in Process, RefreshLoad(p) PROVE TypeOK'
  <2>1. PICK found \in BOOLEAN :
          draft' = [draft EXCEPT ![p].file = found, ![p].text = IF found THEN template ELSE 0]
    BY <1>15 DEF RefreshLoad
  <2>2. draft[p] \in Entry /\ (IF found THEN template ELSE 0) \in Text
    BY DEF Text
  <2>3. draft' \in [Process -> Entry]
    BY <2>1, <2>2 DEF Entry
  <2>4. "stat" \in Stage
    BY DEF Stage
  <2> QED
    BY <1>15, <2>3, <2>4 DEF RefreshLoad
<1>16. ASSUME NEW p \in Process, RefreshStat(p) PROVE TypeOK'
  <2>0. draft[p] \in Entry /\ (IF draft[p].file THEN template ELSE 0) \in Text
    BY DEF Text
  <2>1. [draft[p] EXCEPT !.mtime = IF draft[p].file THEN template ELSE 0] \in Entry
    BY <2>0 DEF Entry
  <2>2. "check" \in Stage
    BY DEF Stage
  <2> QED
    BY <1>16, <2>1, <2>2 DEF RefreshStat
<1>17. ASSUME NEW p \in Process, RefreshCheck(p) PROVE TypeOK'
  <2>1. "store" \in Stage
    BY DEF Stage
  <2> QED
    BY <1>17, <2>1, BlankEntry DEF RefreshCheck
<1>18. ASSUME NEW p \in Process, RefreshStore(p) PROVE TypeOK'
  BY <1>18, BlankEntry DEF RefreshStore
<1>19. ASSUME NEW p \in Process, BeginFetch(p) PROVE TypeOK'
  BY <1>19 DEF BeginFetch, Stage, Goto
<1>20. ASSUME ApplyConfig PROVE TypeOK'
  BY <1>20 DEF ApplyConfig, Version
<1>21. ASSUME EditTemplate PROVE TypeOK'
  BY <1>21 DEF EditTemplate, Text
<1>22. ASSUME PassInterval PROVE TypeOK'
  <2>1. entry' \in Entry
    BY <1>22 DEF PassInterval, Entry
  <2> QED
    BY <1>22, <2>1 DEF PassInterval
<1>23. ASSUME FireHook PROVE TypeOK'
  <2>1. hooked' \in 0..ver' /\ "reread" \in Stage
    BY <1>23 DEF FireHook, Version, Stage
  <2> QED
    BY <1>23, <2>1 DEF FireHook
<1>24. ASSUME UNCHANGED vars PROVE TypeOK'
  BY <1>24 DEF vars
<1> QED
  BY <1>1, <1>2, <1>3, <1>4, <1>5, <1>6, <1>7, <1>8, <1>9, <1>10, <1>11, <1>12, <1>13, <1>14, <1>15, <1>16, <1>17, <1>18, <1>19, <1>20, <1>21, <1>22, <1>23, <1>24 DEF Next, Environment, Step

LEMMA GateStep == BaseInv /\ [Next]_vars => GateHeld'
<1> SUFFICES ASSUME TypeOK, GateHeld, [Next]_vars, NEW q \in Process, Holding(q)'
             PROVE  (gate # <<>> /\ Head(gate) = q)'
  BY DEF BaseInv, GateHeld
<1> USE DEF TypeOK, GateHeld, Holding, Goto
<1>1. ASSUME NEW p \in Process, FastSnapshot(p) PROVE (gate # <<>> /\ Head(gate) = q)'
  BY <1>1 DEF FastSnapshot, HitStage, AfterHit, AfterMiss, AfterRefresh
<1>2. ASSUME NEW p \in Process, FastHit(p) PROVE (gate # <<>> /\ Head(gate) = q)'
  BY <1>2 DEF FastHit, HitStage, AfterHit, AfterMiss, AfterRefresh
<1>3. ASSUME NEW p \in Process, FastMiss(p) PROVE (gate # <<>> /\ Head(gate) = q)'
  BY <1>3 DEF FastMiss, HitStage, AfterHit, AfterMiss, AfterRefresh
<1>4. ASSUME NEW p \in Process, BranchCold(p) PROVE (gate # <<>> /\ Head(gate) = q)'
  BY <1>4 DEF BranchCold, HitStage, AfterHit, AfterMiss, AfterRefresh
<1>5. ASSUME NEW p \in Process, BranchSwr(p) PROVE (gate # <<>> /\ Head(gate) = q)'
  BY <1>5 DEF BranchSwr, HitStage, AfterHit, AfterMiss, AfterRefresh
<1>6. ASSUME NEW p \in Process, BranchChanged(p) PROVE (gate # <<>> /\ Head(gate) = q)'
  BY <1>6 DEF BranchChanged, HitStage, AfterHit, AfterMiss, AfterRefresh
<1>7. ASSUME NEW p \in Process, Reread(p) PROVE (gate # <<>> /\ Head(gate) = q)'
  BY <1>7 DEF Reread, HitStage, AfterHit, AfterMiss, AfterRefresh
<1>8. ASSUME NEW p \in Process, ServeStored(p) PROVE (gate # <<>> /\ Head(gate) = q)'
  BY <1>8 DEF ServeStored, HitStage, AfterHit, AfterMiss, AfterRefresh
<1>9. ASSUME NEW p \in Process, ColdLook(p) PROVE (gate # <<>> /\ Head(gate) = q)'
  BY <1>9 DEF ColdLook, HitStage, AfterHit, AfterMiss, AfterRefresh
<1>10. ASSUME NEW p \in Process, RefreshRead(p) PROVE (gate # <<>> /\ Head(gate) = q)'
  BY <1>10 DEF RefreshRead, HitStage, AfterHit, AfterMiss, AfterRefresh
<1>11. ASSUME NEW p \in Process, RefreshLoad(p) PROVE (gate # <<>> /\ Head(gate) = q)'
  BY <1>11 DEF RefreshLoad, HitStage, AfterHit, AfterMiss, AfterRefresh
<1>12. ASSUME NEW p \in Process, RefreshStat(p) PROVE (gate # <<>> /\ Head(gate) = q)'
  BY <1>12 DEF RefreshStat, HitStage, AfterHit, AfterMiss, AfterRefresh
<1>13. ASSUME NEW p \in Process, RefreshCheck(p) PROVE (gate # <<>> /\ Head(gate) = q)'
  BY <1>13 DEF RefreshCheck, HitStage, AfterHit, AfterMiss, AfterRefresh
<1>14. ASSUME NEW p \in Process, RefreshStore(p) PROVE (gate # <<>> /\ Head(gate) = q)'
  BY <1>14 DEF RefreshStore, HitStage, AfterHit, AfterMiss, AfterRefresh
<1>15. ASSUME NEW p \in Process, BeginFetch(p) PROVE (gate # <<>> /\ Head(gate) = q)'
  BY <1>15 DEF BeginFetch, HitStage, AfterHit, AfterMiss, AfterRefresh
<1>16. ASSUME NEW p \in Process, JoinGate(p) PROVE (gate # <<>> /\ Head(gate) = q)'
  <2>1. Holding(q)
    BY <1>16 DEF JoinGate
  <2>2. gate # <<>> /\ Head(gate) = q
    BY <2>1
  <2>3. Append(gate, p) # <<>> /\ Head(Append(gate, p)) = Head(gate)
    BY <2>2
  <2> QED
    BY <1>16, <2>2, <2>3 DEF JoinGate
<1>17. ASSUME NEW p \in Process, WinGate(p) PROVE (gate # <<>> /\ Head(gate) = q)'
  BY <1>17 DEF WinGate
<1>18. ASSUME NEW p \in Process, TryGate(p) PROVE (gate # <<>> /\ Head(gate) = q)'
  <2>1. CASE q = p
    <3>1. gate' = <<p>>
      BY <1>18, <2>1 DEF TryGate
    <3> QED
      BY <2>1, <3>1
  <2>2. CASE q # p
    BY <1>18, <2>2 DEF TryGate
  <2> QED
    BY <2>1, <2>2
<1>19. ASSUME NEW p \in Process, Unlock(p) PROVE (gate # <<>> /\ Head(gate) = q)'
  BY <1>19 DEF Unlock
<1>20. ASSUME ApplyConfig PROVE (gate # <<>> /\ Head(gate) = q)'
  BY <1>20 DEF ApplyConfig
<1>21. ASSUME EditTemplate PROVE (gate # <<>> /\ Head(gate) = q)'
  BY <1>21 DEF EditTemplate
<1>22. ASSUME PassInterval PROVE (gate # <<>> /\ Head(gate) = q)'
  BY <1>22 DEF PassInterval
<1>23. ASSUME FireHook PROVE (gate # <<>> /\ Head(gate) = q)'
  BY <1>23 DEF FireHook
<1>24. ASSUME UNCHANGED vars PROVE (gate # <<>> /\ Head(gate) = q)'
  BY <1>24 DEF vars
<1> QED
  BY <1>1, <1>2, <1>3, <1>4, <1>5, <1>6, <1>7, <1>8, <1>9, <1>10, <1>11, <1>12, <1>13, <1>14, <1>15, <1>16, <1>17, <1>18, <1>19, <1>20, <1>21, <1>22, <1>23, <1>24 DEF Next, Environment, Step

LEMMA BaseInvariance == Spec => []BaseInv
<1>1. BaseInv /\ [Next]_vars => BaseInv'
  BY TypeStep, GateStep DEF BaseInv
<1> QED
  BY BaseInit, <1>1, PTL DEF Spec

\* Every reachable state is well typed, whatever the bounds.
THEOREM TypeCorrect == Spec => []TypeOK
  BY BaseInvariance, PTL DEF BaseInv

\* No two processes ever run the refresh at once, for any number of requests
\* and reloads.
THEOREM SingleFlightHolds == Spec => []SingleFlight
<1>1. BaseInv => SingleFlight
  BY DEF BaseInv, GateHeld, SingleFlight
<1> QED
  BY BaseInvariance, <1>1, PTL

-----------------------------------------------------------------------------
\* Where a process can stand for which arm of `get`.

ArmOfStage ==
    \A p \in Process :
      /\ pc[p] \in {"get", "branch", "final", "stale"} => p \in FetchProcess
      /\ pc[p] \in {"reread", "before", "behind", "after", "final"} => path[p] = "changed"
      /\ pc[p] \in {"lock", "wait"} => path[p] \in {"cold", "changed"}
      /\ pc[p] \in {"stored", "coldafter"} => path[p] = "cold"
      /\ pc[p] = "try" => path[p] = "swr"
      /\ pc[p] = "stale" => path[p] \in {"swr", "changed"}
      /\ pc[p] \in {"read", "load", "stat", "check", "store"} => path[p] # "none"

TaskArms ==
    \A p \in Process :
      /\ p \notin FetchProcess => path[p] = IF p[1] = "swr" THEN "swr" ELSE "changed"
      /\ p \in FetchProcess /\ path[p] = "swr" => pc[p] \in {"stale", "done"}
      /\ p \in FetchProcess /\ pc[p] = "idle" => path[p] = "none" /\ answer[p] = NoEntry
      /\ p \in FetchProcess /\ path[p] \in {"swr", "changed"} => entry # NoEntry

ControlInv == ArmOfStage /\ TaskArms

LEMMA ProcessKinds ==
    /\ \A p \in FetchProcess : p \in Process /\ p[1] = "fetch"
    /\ \A p \in FetchProcess : <<"swr", p[2]>> \in Process \ FetchProcess
    /\ \A n : <<"hook", n>> \notin FetchProcess
  BY DEF Process, FetchProcess

LEMMA ControlInit == Init => ControlInv
<1> SUFFICES ASSUME Init PROVE ArmOfStage /\ TaskArms
  BY DEF ControlInv
<1>1. \A p \in Process : pc[p] = "idle" /\ answer[p] = NoEntry
  BY DEF Init
<1>2. ArmOfStage
  BY <1>1 DEF ArmOfStage
<1>3. \A p \in FetchProcess : path[p] = "none"
  BY ProcessKinds DEF Init
<1>4. \A p \in Process \ FetchProcess : path[p] = IF p[1] = "swr" THEN "swr" ELSE "changed"
  BY DEF Init, Process, FetchProcess
<1> QED
  BY <1>1, <1>2, <1>3, <1>4 DEF TaskArms

LEMMA ArmStep == BaseInv /\ ControlInv /\ [Next]_vars => ArmOfStage'
<1> SUFFICES ASSUME TypeOK, ArmOfStage, TaskArms, [Next]_vars PROVE ArmOfStage'
  BY DEF BaseInv, ControlInv
<1> USE ProcessKinds DEF TypeOK, ArmOfStage, Goto, locals
<1>1. ASSUME NEW p \in Process, FastSnapshot(p) PROVE ArmOfStage'
  BY <1>1 DEF FastSnapshot
<1>2. ASSUME NEW p \in Process, FastHit(p) PROVE ArmOfStage'
  BY <1>2 DEF FastHit, HitStage, AfterHit
<1>3. ASSUME NEW p \in Process, FastMiss(p) PROVE ArmOfStage'
  BY <1>3 DEF FastMiss, HitStage, AfterMiss
<1>4. ASSUME NEW p \in Process, BranchCold(p) PROVE ArmOfStage'
  BY <1>4 DEF BranchCold
<1>5. ASSUME NEW p \in Process, BranchSwr(p) PROVE ArmOfStage'
  BY <1>5 DEF BranchSwr, TaskArms
<1>6. ASSUME NEW p \in Process, BranchChanged(p) PROVE ArmOfStage'
  BY <1>6 DEF BranchChanged
<1>7. ASSUME NEW p \in Process, Reread(p) PROVE ArmOfStage'
  BY <1>7 DEF Reread
<1>8. ASSUME NEW p \in Process, ServeStored(p) PROVE ArmOfStage'
  BY <1>8 DEF ServeStored
<1>9. ASSUME NEW p \in Process, JoinGate(p) PROVE ArmOfStage'
  BY <1>9 DEF JoinGate
<1>10. ASSUME NEW p \in Process, WinGate(p) PROVE ArmOfStage'
  BY <1>10 DEF WinGate
<1>11. ASSUME NEW p \in Process, TryGate(p) PROVE ArmOfStage'
  BY <1>11 DEF TryGate
<1>12. ASSUME NEW p \in Process, ColdLook(p) PROVE ArmOfStage'
  BY <1>12 DEF ColdLook
<1>13. ASSUME NEW p \in Process, Unlock(p) PROVE ArmOfStage'
  BY <1>13 DEF Unlock
<1>14. ASSUME NEW p \in Process, RefreshRead(p) PROVE ArmOfStage'
  BY <1>14 DEF RefreshRead
<1>15. ASSUME NEW p \in Process, RefreshLoad(p) PROVE ArmOfStage'
  BY <1>15 DEF RefreshLoad
<1>16. ASSUME NEW p \in Process, RefreshStat(p) PROVE ArmOfStage'
  BY <1>16 DEF RefreshStat
<1>17. ASSUME NEW p \in Process, RefreshCheck(p) PROVE ArmOfStage'
  BY <1>17 DEF RefreshCheck, AfterRefresh
<1>18. ASSUME NEW p \in Process, RefreshStore(p) PROVE ArmOfStage'
  BY <1>18 DEF RefreshStore, AfterRefresh
<1>19. ASSUME NEW p \in Process, BeginFetch(p) PROVE ArmOfStage'
  BY <1>19 DEF BeginFetch
<1>20. ASSUME ApplyConfig PROVE ArmOfStage'
  BY <1>20 DEF ApplyConfig
<1>21. ASSUME EditTemplate PROVE ArmOfStage'
  BY <1>21 DEF EditTemplate
<1>22. ASSUME PassInterval PROVE ArmOfStage'
  BY <1>22 DEF PassInterval
<1>23. ASSUME FireHook PROVE ArmOfStage'
  BY <1>23 DEF FireHook, TaskArms
<1>24. ASSUME UNCHANGED vars PROVE ArmOfStage'
  BY <1>24 DEF vars
<1> QED
  BY <1>1, <1>2, <1>3, <1>4, <1>5, <1>6, <1>7, <1>8, <1>9, <1>10, <1>11, <1>12, <1>13, <1>14, <1>15, <1>16, <1>17, <1>18, <1>19, <1>20, <1>21, <1>22, <1>23, <1>24 DEF Next, Environment, Step

LEMMA TaskArmStep == BaseInv /\ ControlInv /\ [Next]_vars => TaskArms'
<1> SUFFICES ASSUME TypeOK, ArmOfStage, TaskArms, [Next]_vars PROVE TaskArms'
  BY DEF BaseInv, ControlInv
<1> USE ProcessKinds, NoEntryAssumption DEF TypeOK, ArmOfStage, TaskArms, Goto, locals
<1>1. ASSUME NEW p \in Process, FastSnapshot(p) PROVE TaskArms'
  BY <1>1 DEF FastSnapshot
<1>2. ASSUME NEW p \in Process, FastHit(p) PROVE TaskArms'
  BY <1>2 DEF FastHit, HitStage, AfterHit
<1>3. ASSUME NEW p \in Process, FastMiss(p) PROVE TaskArms'
  BY <1>3 DEF FastMiss, HitStage, AfterMiss
<1>4. ASSUME NEW p \in Process, BranchCold(p) PROVE TaskArms'
  BY <1>4 DEF BranchCold
<1>5. ASSUME NEW p \in Process, BranchSwr(p) PROVE TaskArms'
  BY <1>5 DEF BranchSwr
<1>6. ASSUME NEW p \in Process, BranchChanged(p) PROVE TaskArms'
  BY <1>6 DEF BranchChanged
<1>7. ASSUME NEW p \in Process, Reread(p) PROVE TaskArms'
  BY <1>7 DEF Reread
<1>8. ASSUME NEW p \in Process, ServeStored(p) PROVE TaskArms'
  BY <1>8 DEF ServeStored
<1>9. ASSUME NEW p \in Process, JoinGate(p) PROVE TaskArms'
  BY <1>9 DEF JoinGate
<1>10. ASSUME NEW p \in Process, WinGate(p) PROVE TaskArms'
  BY <1>10 DEF WinGate
<1>11. ASSUME NEW p \in Process, TryGate(p) PROVE TaskArms'
  BY <1>11 DEF TryGate
<1>12. ASSUME NEW p \in Process, ColdLook(p) PROVE TaskArms'
  BY <1>12 DEF ColdLook
<1>13. ASSUME NEW p \in Process, Unlock(p) PROVE TaskArms'
  BY <1>13 DEF Unlock
<1>14. ASSUME NEW p \in Process, RefreshRead(p) PROVE TaskArms'
  BY <1>14 DEF RefreshRead
<1>15. ASSUME NEW p \in Process, RefreshLoad(p) PROVE TaskArms'
  BY <1>15 DEF RefreshLoad
<1>16. ASSUME NEW p \in Process, RefreshStat(p) PROVE TaskArms'
  BY <1>16 DEF RefreshStat
<1>17. ASSUME NEW p \in Process, RefreshCheck(p) PROVE TaskArms'
  BY <1>17 DEF RefreshCheck, AfterRefresh
<1>18. ASSUME NEW p \in Process, RefreshStore(p) PROVE TaskArms'
  BY <1>18 DEF RefreshStore, AfterRefresh
<1>19. ASSUME NEW p \in Process, BeginFetch(p) PROVE TaskArms'
  BY <1>19 DEF BeginFetch
<1>20. ASSUME ApplyConfig PROVE TaskArms'
  BY <1>20 DEF ApplyConfig
<1>21. ASSUME EditTemplate PROVE TaskArms'
  BY <1>21 DEF EditTemplate
<1>22. ASSUME PassInterval PROVE TaskArms'
  BY <1>22, ZenonT(40) DEF PassInterval, Entry
<1>23. ASSUME FireHook PROVE TaskArms'
  BY <1>23 DEF FireHook
<1>24. ASSUME UNCHANGED vars PROVE TaskArms'
  BY <1>24 DEF vars
<1> QED
  BY <1>1, <1>2, <1>3, <1>4, <1>5, <1>6, <1>7, <1>8, <1>9, <1>10, <1>11, <1>12, <1>13, <1>14, <1>15, <1>16, <1>17, <1>18, <1>19, <1>20, <1>21, <1>22, <1>23, <1>24 DEF Next, Environment, Step

LEMMA ControlInvariance == Spec => []ControlInv
<1>1. BaseInv /\ ControlInv /\ [Next]_vars => ControlInv'
  BY ArmStep, TaskArmStep DEF ControlInv
<1> QED
  BY ControlInit, BaseInvariance, <1>1, PTL DEF Spec

\* The expect() calls of `get` never fire.
THEOREM NoPanicHolds == Spec => []NoPanic
<1>1. BaseInv /\ ControlInv => NoPanic
  BY DEF ControlInv, ArmOfStage, TaskArms, NoPanic
<1> QED
  BY BaseInvariance, ControlInvariance, <1>1, PTL

-----------------------------------------------------------------------------
\* Versions: everything read is at most the current one, and a refresh in
\* progress works on one at least as new as the stored entry's.

Refreshing(p) == pc[p] \in {"load", "stat", "check", "store"}

VersionInv ==
    /\ entry # NoEntry => entry.ver <= ver
    /\ \A p \in Process :
         /\ want[p] <= ver /\ need[p] <= ver
         /\ Refreshing(p) => draft[p].ver <= ver
         /\ Refreshing(p) /\ entry # NoEntry => entry.ver <= draft[p].ver
         /\ snap[p] # NoEntry => entry # NoEntry /\ snap[p].ver <= entry.ver
         /\ answer[p] # NoEntry => answer[p] <= ver

LEMMA EntryVersion == \A e \in Entry : e.ver \in Nat /\ e.ver <= MaxEdits
  BY BoundsAssumption DEF Entry, Version

LEMMA VersionInit == Init => VersionInv
  BY NoEntryAssumption DEF Init, VersionInv, Refreshing

LEMMA VersionStep == BaseInv /\ VersionInv /\ [Next]_vars => VersionInv'
<1> SUFFICES ASSUME TypeOK, TypeOK', GateHeld, VersionInv, [Next]_vars PROVE VersionInv'
  BY TypeStep DEF BaseInv
<1> USE BoundsAssumption, NoEntryAssumption, EntryVersion DEF TypeOK, Version, VersionInv, Goto, locals
<1>1. ASSUME NEW p \in Process, FastSnapshot(p) PROVE VersionInv'
  BY <1>1 DEF FastSnapshot, Refreshing
<1>2. ASSUME NEW p \in Process, FastHit(p) PROVE VersionInv'
  BY <1>2, SMTT(30) DEF FastHit, Refreshing, HitStage, AfterHit
<1>3. ASSUME NEW p \in Process, FastMiss(p) PROVE VersionInv'
  BY <1>3, SMTT(30) DEF FastMiss, Refreshing, HitStage, AfterMiss
<1>4. ASSUME NEW p \in Process, BranchCold(p) PROVE VersionInv'
  BY <1>4 DEF BranchCold, Refreshing
<1>5. ASSUME NEW p \in Process, BranchSwr(p) PROVE VersionInv'
  BY <1>5 DEF BranchSwr, Refreshing
<1>6. ASSUME NEW p \in Process, BranchChanged(p) PROVE VersionInv'
  BY <1>6 DEF BranchChanged, Refreshing
<1>7. ASSUME NEW p \in Process, Reread(p) PROVE VersionInv'
  BY <1>7 DEF Reread, Refreshing
<1>8. ASSUME NEW p \in Process, ServeStored(p) PROVE VersionInv'
  BY <1>8 DEF ServeStored, Refreshing
<1>9. ASSUME NEW p \in Process, JoinGate(p) PROVE VersionInv'
  BY <1>9 DEF JoinGate, Refreshing
<1>10. ASSUME NEW p \in Process, WinGate(p) PROVE VersionInv'
  BY <1>10 DEF WinGate, Refreshing
<1>11. ASSUME NEW p \in Process, TryGate(p) PROVE VersionInv'
  BY <1>11 DEF TryGate, Refreshing
<1>12. ASSUME NEW p \in Process, ColdLook(p) PROVE VersionInv'
  <2>1. \A q \in Process : Refreshing(q)' => Refreshing(q)
    BY <1>12 DEF ColdLook, Refreshing
  <2>2. \A q \in Process : answer'[q] # answer[q] => entry # NoEntry /\ answer'[q] = entry.ver
    BY <1>12 DEF ColdLook
  <2> QED
    BY <1>12, <2>1, <2>2 DEF ColdLook
<1>13. ASSUME NEW p \in Process, Unlock(p) PROVE VersionInv'
  BY <1>13 DEF Unlock, Refreshing
<1>14. ASSUME NEW p \in Process, RefreshRead(p) PROVE VersionInv'
  <2>1. draft'[p].ver = ver
    BY <1>14 DEF RefreshRead, Blank
  <2> QED
    BY <1>14, <2>1 DEF RefreshRead, Refreshing
<1>15. ASSUME NEW p \in Process, RefreshLoad(p) PROVE VersionInv'
  <2>1. draft'[p].ver = draft[p].ver
    BY <1>15 DEF RefreshLoad, Entry
  <2> QED
    BY <1>15, <2>1 DEF RefreshLoad, Refreshing
<1>16. ASSUME NEW p \in Process, RefreshStat(p) PROVE VersionInv'
  <2>1. draft'[p].ver = draft[p].ver
    BY <1>16 DEF RefreshStat, Entry
  <2> QED
    BY <1>16, <2>1 DEF RefreshStat, Refreshing
<1>17. ASSUME NEW p \in Process, RefreshCheck(p) PROVE VersionInv'
  <2>1. \A q \in Process : Refreshing(q)' => Refreshing(q) /\ draft'[q] = draft[q]
    BY <1>17 DEF RefreshCheck, Refreshing, AfterRefresh
  <2> QED
    BY <1>17, <2>1 DEF RefreshCheck
<1>18. ASSUME NEW p \in Process, RefreshStore(p) PROVE VersionInv'
  <2>1. \A q \in Process : q # p => ~Refreshing(q)
    BY <1>18 DEF RefreshStore, GateHeld, Holding, Refreshing
  <2>2. entry' \in Entry /\ entry'.ver = draft[p].ver /\ ~Refreshing(p)'
    BY <1>18 DEF RefreshStore, AfterRefresh, Refreshing
  <2> QED
    BY <1>18, <2>1, <2>2, SMTT(30) DEF RefreshStore, Refreshing
<1>19. ASSUME NEW p \in Process, BeginFetch(p) PROVE VersionInv'
  BY <1>19 DEF BeginFetch, Refreshing
<1>20. ASSUME ApplyConfig PROVE VersionInv'
  BY <1>20 DEF ApplyConfig, Refreshing
<1>21. ASSUME EditTemplate PROVE VersionInv'
  BY <1>21 DEF EditTemplate, Refreshing
<1>22. ASSUME PassInterval PROVE VersionInv'
  <2>1. entry'.ver = entry.ver /\ entry' # NoEntry
    BY <1>22, NoEntryAssumption, ZenonT(40) DEF PassInterval, Entry
  <2> QED
    BY <1>22, <2>1 DEF PassInterval, Refreshing
<1>23. ASSUME FireHook PROVE VersionInv'
  BY <1>23 DEF FireHook, Refreshing
<1>24. ASSUME UNCHANGED vars PROVE VersionInv'
  BY <1>24 DEF vars, Refreshing
<1> QED
  BY <1>1, <1>2, <1>3, <1>4, <1>5, <1>6, <1>7, <1>8, <1>9, <1>10, <1>11, <1>12, <1>13, <1>14, <1>15, <1>16, <1>17, <1>18, <1>19, <1>20, <1>21, <1>22, <1>23, <1>24 DEF Next, Environment, Step

LEMMA VersionInvariance == Spec => []VersionInv
  BY VersionInit, VersionStep, BaseInvariance, PTL DEF Spec

\* Only a store and the passing of time touch the entry.
LEMMA EntryStep ==
    ASSUME BaseInv, [Next]_vars, entry' # entry
    PROVE  (\E p \in Process : RefreshStore(p)) \/ PassInterval
<1> USE DEF locals
<1>1. ASSUME NEW p \in Process, FastSnapshot(p) PROVE FALSE
  BY <1>1 DEF FastSnapshot
<1>2. ASSUME NEW p \in Process, FastHit(p) PROVE FALSE
  BY <1>2 DEF FastHit
<1>3. ASSUME NEW p \in Process, FastMiss(p) PROVE FALSE
  BY <1>3 DEF FastMiss
<1>4. ASSUME NEW p \in Process, BranchCold(p) PROVE FALSE
  BY <1>4 DEF BranchCold
<1>5. ASSUME NEW p \in Process, BranchSwr(p) PROVE FALSE
  BY <1>5 DEF BranchSwr
<1>6. ASSUME NEW p \in Process, BranchChanged(p) PROVE FALSE
  BY <1>6 DEF BranchChanged
<1>7. ASSUME NEW p \in Process, Reread(p) PROVE FALSE
  BY <1>7 DEF Reread
<1>8. ASSUME NEW p \in Process, ServeStored(p) PROVE FALSE
  BY <1>8 DEF ServeStored
<1>9. ASSUME NEW p \in Process, JoinGate(p) PROVE FALSE
  BY <1>9 DEF JoinGate
<1>10. ASSUME NEW p \in Process, WinGate(p) PROVE FALSE
  BY <1>10 DEF WinGate
<1>11. ASSUME NEW p \in Process, TryGate(p) PROVE FALSE
  BY <1>11 DEF TryGate
<1>12. ASSUME NEW p \in Process, ColdLook(p) PROVE FALSE
  BY <1>12 DEF ColdLook
<1>13. ASSUME NEW p \in Process, Unlock(p) PROVE FALSE
  BY <1>13 DEF Unlock
<1>14. ASSUME NEW p \in Process, RefreshRead(p) PROVE FALSE
  BY <1>14 DEF RefreshRead
<1>15. ASSUME NEW p \in Process, RefreshLoad(p) PROVE FALSE
  BY <1>15 DEF RefreshLoad
<1>16. ASSUME NEW p \in Process, RefreshStat(p) PROVE FALSE
  BY <1>16 DEF RefreshStat
<1>17. ASSUME NEW p \in Process, RefreshCheck(p) PROVE FALSE
  BY <1>17 DEF RefreshCheck
<1>18. ASSUME NEW p \in Process, BeginFetch(p) PROVE FALSE
  BY <1>18 DEF BeginFetch
<1>19. ASSUME ApplyConfig \/ EditTemplate \/ FireHook \/ UNCHANGED vars PROVE FALSE
  BY <1>19 DEF ApplyConfig, EditTemplate, FireHook, vars
<1> QED
  BY <1>1, <1>2, <1>3, <1>4, <1>5, <1>6, <1>7, <1>8, <1>9, <1>10, <1>11, <1>12, <1>13, <1>14, <1>15, <1>16, <1>17, <1>18, <1>19 DEF Next, Environment, Step

LEMMA EntryForward ==
    ASSUME BaseInv, VersionInv, [Next]_vars, entry # NoEntry
    PROVE  entry' # NoEntry /\ entry'.ver >= entry.ver
<1>1. CASE entry' = entry
  BY <1>1, EntryVersion DEF BaseInv, TypeOK
<1>2. ASSUME NEW p \in Process, RefreshStore(p) PROVE entry' # NoEntry /\ entry'.ver >= entry.ver
  <2>1. entry' = draft[p] /\ draft[p] \in Entry /\ draft[p].ver >= entry.ver
    BY <1>2, EntryVersion DEF RefreshStore, VersionInv, Refreshing, BaseInv, TypeOK
  <2> QED
    BY <2>1, NoEntryAssumption
<1>3. CASE PassInterval
  <2>1. entry \in Entry
    BY DEF BaseInv, TypeOK
  <2>2. entry' \in Entry /\ entry'.ver = entry.ver
    BY <1>3, <2>1 DEF PassInterval, Entry
  <2> QED
    BY <2>1, <2>2, NoEntryAssumption, EntryVersion
<1> QED
  BY <1>1, <1>2, <1>3, EntryStep

\* The stored catalog never goes back to an older configuration's, for any
\* number of racing refreshes and any fingerprint collisions.
THEOREM NeverBackwardsHolds == Spec => NeverBackwards
<1>1. BaseInv /\ VersionInv /\ [Next]_vars
        => [entry # NoEntry => entry' # NoEntry /\ entry'.ver >= entry.ver]_entry
  BY EntryForward
<1> QED
  BY BaseInvariance, VersionInvariance, <1>1, PTL DEF Spec, NeverBackwards

-----------------------------------------------------------------------------
\* Freshness, when different versions have different fingerprints.

DistinctFingerprints == \A u, v \in Version : SameFingerprint(u, v) => u = v

\* What a fetch that began with an entry stored has secured at each point.
FreshInv ==
    \A p \in warm :
      /\ entry # NoEntry
      /\ pc[p] # "idle"
      /\ path[p] # "cold"
      /\ pc[p] \in {"before", "lock", "wait", "behind", "after",
                     "read", "load", "stat", "check", "store"} => need[p] >= want[p]
      /\ Refreshing(p) => draft[p].ver >= want[p]
      /\ pc[p] = "after" /\ force[p] => entry.ver >= want[p]
      /\ pc[p] \in {"unlock", "final", "stale"} => entry.ver >= want[p]
      /\ answer[p] # NoEntry => answer[p] >= want[p]

LEMMA FreshInit == Init => FreshInv
  BY DEF Init, FreshInv

LEMMA FreshStep ==
  ASSUME DistinctFingerprints PROVE BaseInv /\ ControlInv /\ VersionInv /\ FreshInv /\ [Next]_vars => FreshInv'
<1> SUFFICES ASSUME BaseInv, TypeOK, TypeOK', GateHeld, ArmOfStage, TaskArms, VersionInv, FreshInv,
                    [Next]_vars
             PROVE  FreshInv'
  BY TypeStep DEF BaseInv, ControlInv
<1> USE BoundsAssumption, NoEntryAssumption, EntryVersion, ProcessKinds
        DEF TypeOK, Version, FreshInv, Goto, locals, ArmOfStage
<1>1. ASSUME NEW p \in Process, FastSnapshot(p) PROVE FreshInv'
  BY <1>1 DEF FastSnapshot, Refreshing
<1>2. ASSUME NEW p \in Process, FastHit(p) PROVE FreshInv'
  <2>1. snap[p] \in Entry /\ snap[p].ver \in Version /\ snap[p].ver <= entry.ver
    BY <1>2 DEF FastHit, VersionInv, Entry
  <2>2. snap[p].ver = Target(p)
    <3>1. Target(p) \in Version
      BY DEF Target
    <3> QED
      BY <1>2, <2>1, <3>1 DEF FastHit, Fresh, DistinctFingerprints
  <2>3. \A q \in Process : Refreshing(q)' => Refreshing(q)
    BY <1>2 DEF FastHit, AfterHit, HitStage, Refreshing
  <2>4. \A q \in warm : q # p => pc'[q] = pc[q] /\ answer'[q] = answer[q]
    BY <1>2 DEF FastHit
  <2>5. ASSUME p \in warm, pc[p] \in {"get", "final"} PROVE pc'[p] = "done" /\ answer'[p] = want[p]
    BY <1>2, <2>1, <2>2, <2>5 DEF FastHit, AfterHit, Target
  <2>6. ASSUME p \in warm, pc[p] \notin {"get", "final"}
        PROVE  pc'[p] \in {"unlock", "final"} /\ entry.ver >= want[p] /\ answer'[p] = answer[p]
    <3>1. snap[p].ver = need[p] /\ need[p] >= want[p]
      BY <1>2, <2>2, <2>6 DEF FastHit, Target, HitStage
    <3>2. entry.ver >= want[p]
      <4>1. entry \in Entry /\ need[p] \in Nat /\ want[p] \in Nat
        BY <2>6
      <4> QED
        BY <3>1, <2>1, <4>1, EntryVersion
    <3> QED
      BY <1>2, <2>6, <3>2 DEF FastHit, AfterHit, HitStage
  <2>7. want' = want /\ need' = need /\ draft' = draft /\ entry' = entry /\ warm' = warm
        /\ path' = path /\ force' = force
    BY <1>2 DEF FastHit
  <2> QED
    BY <1>2, <2>3, <2>4, <2>5, <2>6, <2>7, SMTT(30)
<1>3. ASSUME NEW p \in Process, FastMiss(p) PROVE FreshInv'
  BY <1>3 DEF FastMiss, Refreshing, HitStage, AfterMiss
<1>4. ASSUME NEW p \in Process, BranchCold(p) PROVE FreshInv'
  BY <1>4 DEF BranchCold, Refreshing
<1>5. ASSUME NEW p \in Process, BranchSwr(p) PROVE FreshInv'
  <2>1. p \in FetchProcess /\ <<"swr", p[2]>> \in Process \ FetchProcess
    BY <1>5, ProcessKinds DEF BranchSwr, ArmOfStage
  <2>2. entry.ver = want[p]
    <3>1. entry.ver \in Version /\ want[p] \in Version
      BY <1>5 DEF BranchSwr, Entry
    <3> QED
      BY <1>5, <3>1 DEF BranchSwr, DistinctFingerprints
  <2> QED
    BY <1>5, <2>1, <2>2 DEF BranchSwr, Refreshing
<1>6. ASSUME NEW p \in Process, BranchChanged(p) PROVE FreshInv'
  BY <1>6 DEF BranchChanged, Refreshing
<1>7. ASSUME NEW p \in Process, Reread(p) PROVE FreshInv'
  BY <1>7 DEF Reread, Refreshing, VersionInv
<1>8. ASSUME NEW p \in Process, ServeStored(p) PROVE FreshInv'
  BY <1>8 DEF ServeStored, Refreshing
<1>9. ASSUME NEW p \in Process, JoinGate(p) PROVE FreshInv'
  BY <1>9 DEF JoinGate, Refreshing
<1>10. ASSUME NEW p \in Process, WinGate(p) PROVE FreshInv'
  BY <1>10 DEF WinGate, Refreshing
<1>11. ASSUME NEW p \in Process, TryGate(p) PROVE FreshInv'
  <2>1. p \notin warm
    BY <1>11 DEF TryGate, TaskArms
  <2> QED
    BY <1>11, <2>1 DEF TryGate, Refreshing
<1>12. ASSUME NEW p \in Process, ColdLook(p) PROVE FreshInv'
  BY <1>12 DEF ColdLook, Refreshing
<1>13. ASSUME NEW p \in Process, Unlock(p) PROVE FreshInv'
  BY <1>13 DEF Unlock, Refreshing
<1>14. ASSUME NEW p \in Process, RefreshRead(p) PROVE FreshInv'
  <2>1. draft'[p].ver = ver
    BY <1>14 DEF RefreshRead, Blank
  <2> QED
    BY <1>14, <2>1, SMTT(30) DEF RefreshRead, Refreshing, VersionInv
<1>15. ASSUME NEW p \in Process, RefreshLoad(p) PROVE FreshInv'
  <2>1. draft'[p].ver = draft[p].ver
    BY <1>15 DEF RefreshLoad, Entry
  <2> QED
    BY <1>15, <2>1 DEF RefreshLoad, Refreshing
<1>16. ASSUME NEW p \in Process, RefreshStat(p) PROVE FreshInv'
  <2>1. draft'[p].ver = draft[p].ver
    BY <1>16 DEF RefreshStat, Entry
  <2> QED
    BY <1>16, <2>1 DEF RefreshStat, Refreshing
<1>17. ASSUME NEW p \in Process, RefreshCheck(p) PROVE FreshInv'
  <2>1. \A q \in Process : Refreshing(q)' => Refreshing(q) /\ draft'[q] = draft[q]
    BY <1>17 DEF RefreshCheck, Refreshing, AfterRefresh
  <2>0. p \in warm => path[p] = "changed"
    BY <1>17, ZenonT(40) DEF RefreshCheck, TaskArms
  <2>2. p \in warm => pc'[p] = "store" \/ (pc'[p] = "after" /\ ~force[p])
    BY <1>17, <2>0 DEF RefreshCheck, AfterRefresh
  <2> QED
    BY <1>17, <2>1, <2>2 DEF RefreshCheck
<1>18. ASSUME NEW p \in Process, RefreshStore(p) PROVE FreshInv'
  <2>1. entry' = draft[p] /\ entry' # NoEntry /\ ~Refreshing(p)'
    BY <1>18 DEF RefreshStore, AfterRefresh, Refreshing
  <2>2. p \in warm => entry'.ver >= want[p]
    BY <1>18, <2>1 DEF RefreshStore, Refreshing
  <2>3. \A q \in warm : entry'.ver >= entry.ver
    BY EntryForward
  <2>4. p \in warm => pc'[p] = "after"
    BY <1>18, ZenonT(40) DEF RefreshStore, AfterRefresh, TaskArms
  <2>5. \A q \in warm : q # p => pc'[q] = pc[q] /\ draft'[q] = draft[q]
    BY <1>18 DEF RefreshStore
  <2>6. \A q \in warm : entry'.ver \in Nat /\ entry.ver \in Nat /\ want[q] \in Nat
    BY <2>1, SMTT(30)
  <2> QED
    BY <1>18, <2>1, <2>2, <2>3, <2>4, <2>5, <2>6, SMTT(30) DEF RefreshStore, Refreshing
<1>19. ASSUME NEW p \in Process, BeginFetch(p) PROVE FreshInv'
  <2>1. p \in Process /\ path[p] = "none" /\ answer[p] = NoEntry
    BY <1>19 DEF BeginFetch, TaskArms
  <2> QED
    BY <1>19, <2>1 DEF BeginFetch, Refreshing
<1>20. ASSUME ApplyConfig PROVE FreshInv'
  BY <1>20 DEF ApplyConfig, Refreshing
<1>21. ASSUME EditTemplate PROVE FreshInv'
  BY <1>21 DEF EditTemplate, Refreshing
<1>22. ASSUME PassInterval PROVE FreshInv'
  <2>1. entry'.ver = entry.ver /\ entry' # NoEntry
    BY <1>22, NoEntryAssumption, ZenonT(40) DEF PassInterval, Entry
  <2> QED
    BY <1>22, <2>1 DEF PassInterval, Refreshing
<1>23. ASSUME FireHook PROVE FreshInv'
  BY <1>23 DEF FireHook, Refreshing, TaskArms
<1>24. ASSUME UNCHANGED vars PROVE FreshInv'
  BY <1>24 DEF vars, Refreshing
<1> QED
  BY <1>1, <1>2, <1>3, <1>4, <1>5, <1>6, <1>7, <1>8, <1>9, <1>10, <1>11, <1>12, <1>13, <1>14, <1>15, <1>16, <1>17, <1>18, <1>19, <1>20, <1>21, <1>22, <1>23, <1>24 DEF Next, Environment, Step

\* When every reload changes something the fingerprint hashes, a fetch that
\* begins with a catalog stored is never answered with a body that was
\* already out of date when it began.
THEOREM NeverPreChangeHolds == ASSUME DistinctFingerprints PROVE Spec => []NeverPreChange
<1>1. BaseInv /\ VersionInv /\ FreshInv => NeverPreChange
  <2> SUFFICES ASSUME BaseInv, VersionInv, FreshInv, NEW p \in warm, answer[p] # NoEntry
               PROVE  \E v \in want[p]..ver : ConfigAt[v] = ConfigAt[answer[p]]
    BY DEF NeverPreChange
  <2>1. p \in Process /\ answer[p] \in Nat /\ want[p] \in Nat /\ ver \in Nat
    BY ProcessKinds DEF BaseInv, TypeOK, Version
  <2>2. answer[p] \in want[p]..ver
    BY <2>1 DEF FreshInv, VersionInv
  <2> QED
    BY <2>2
<1> QED
  BY FreshInit, FreshStep, BaseInvariance, ControlInvariance, VersionInvariance, <1>1, PTL DEF Spec

-----------------------------------------------------------------------------
(* The cache implements CatalogService, under the same assumption.          *)

\* A fetch is answered once.
AnsweredInv ==
    \A p \in FetchProcess : answer[p] # NoEntry =>
        pc[p] = "done" \/ (pc[p] = "unlock" /\ path[p] = "cold")

LEMMA AnsweredInit == Init => AnsweredInv
  BY ProcessKinds DEF Init, AnsweredInv

\* The steps that answer a fetch.
Answers(p) == \/ FastHit(p) /\ pc[p] \in {"get", "final"}
              \/ ServeStored(p)
              \/ ColdLook(p) /\ entry # NoEntry

\* An answer is a version between the one the fetch may expect and the
\* stored one.
LEMMA AnswerStep ==
    ASSUME BaseInv, ControlInv, VersionInv, AnsweredInv, NEW p \in Process, Answers(p)
    PROVE  /\ p \in FetchProcess /\ answer[p] = NoEntry /\ pc[p] # "idle" /\ entry \in Entry
           /\ pc'[p] = "done" \/ (pc'[p] = "unlock" /\ path'[p] = "cold")
           /\ \E v \in 0..entry.ver : answer' = [answer EXCEPT ![p] = v]
           /\ \A q \in Process : q # p => pc'[q] = pc[q]
           /\ UNCHANGED <<ver, entry, want, warm, path>>
<1> USE BoundsAssumption, NoEntryAssumption, EntryVersion, ProcessKinds DEF Goto
<1>0. TypeOK /\ ArmOfStage /\ TaskArms
  BY DEF BaseInv, ControlInv
<1>1. CASE FastHit(p) /\ pc[p] \in {"get", "final"}
  <2>1. p \in FetchProcess
    BY <1>0, <1>1 DEF ArmOfStage
  <2>2. answer[p] = NoEntry
    BY <1>1, <2>1 DEF AnsweredInv
  <2>3. snap[p] \in Entry /\ entry \in Entry /\ snap[p].ver <= entry.ver
    BY <1>0, <1>1 DEF FastHit, VersionInv, TypeOK
  <2>4. snap[p].ver \in 0..entry.ver
    BY <2>3
  <2>5. answer' = [answer EXCEPT ![p] = snap[p].ver] /\ pc' = [pc EXCEPT ![p] = "done"]
        /\ UNCHANGED <<ver, entry, want, warm, path>>
    BY <1>1 DEF FastHit, AfterHit
  <2>6. pc'[p] = "done" /\ \A q \in Process : q # p => pc'[q] = pc[q]
    BY <1>0, <2>5 DEF TypeOK
  <2> QED
    BY <1>1, <2>1, <2>2, <2>3, <2>4, <2>5, <2>6
<1>2. CASE ServeStored(p)
  <2>1. p \in FetchProcess
    BY <1>0, <1>2 DEF ArmOfStage, ServeStored
  <2>2. answer[p] = NoEntry
    BY <1>2, <2>1 DEF AnsweredInv, ServeStored
  <2>3. entry \in Entry /\ entry.ver \in 0..entry.ver
    BY <1>0, <1>2 DEF ServeStored, TypeOK
  <2> QED
    BY <1>0, <1>2, <2>1, <2>2, <2>3 DEF ServeStored, TypeOK
<1>3. CASE ColdLook(p) /\ entry # NoEntry
  <2>1. path[p] = "cold"
    BY <1>0, <1>3 DEF ArmOfStage, ColdLook
  <2>2. p \in FetchProcess
    BY <1>0, <2>1 DEF TaskArms
  <2>3. answer[p] = NoEntry
    BY <1>3, <2>2 DEF AnsweredInv, ColdLook
  <2>4. entry \in Entry /\ entry.ver \in 0..entry.ver
    BY <1>0, <1>3 DEF TypeOK
  <2> QED
    BY <1>0, <1>3, <2>1, <2>2, <2>3, <2>4 DEF ColdLook, TypeOK
<1> QED
  BY <1>1, <1>2, <1>3 DEF Answers

\* All other steps of a process: no answer, and no fetch begins or ends.
LEMMA SilentStep ==
    ASSUME BaseInv, ControlInv, NEW p \in Process, Step(p), ~Answers(p)
    PROVE  /\ UNCHANGED <<ver, want, warm, answer>>
           /\ \A q \in FetchProcess : pc[q] = "idle" <=> pc'[q] = "idle"
           /\ \A q \in FetchProcess : pc[q] = "done" => pc'[q] = "done"
           /\ \A q \in FetchProcess : pc[q] = "unlock" /\ path[q] = "cold" =>
                pc'[q] \in {"unlock", "done"} /\ path'[q] = "cold"
           /\ RefreshStore(p) \/ UNCHANGED entry
<1> DEFINE Silent ==
           /\ UNCHANGED <<ver, want, warm, answer>>
           /\ \A q \in FetchProcess : pc[q] = "idle" <=> pc'[q] = "idle"
           /\ \A q \in FetchProcess : pc[q] = "done" => pc'[q] = "done"
           /\ \A q \in FetchProcess : pc[q] = "unlock" /\ path[q] = "cold" =>
                pc'[q] \in {"unlock", "done"} /\ path'[q] = "cold"
           /\ RefreshStore(p) \/ UNCHANGED entry
<1> SUFFICES Silent
  OBVIOUS
<1>0. TypeOK /\ ArmOfStage /\ TaskArms
  BY DEF BaseInv, ControlInv
<1> USE <1>0, ProcessKinds DEF TypeOK, Goto
<1>1. CASE FastSnapshot(p)
  BY <1>1 DEF FastSnapshot
<1>2. CASE FastHit(p)
  BY <1>2 DEF FastHit, Answers, AfterHit, HitStage
<1>3. CASE FastMiss(p)
  BY <1>3 DEF FastMiss, AfterMiss, HitStage
<1>4. CASE BranchCold(p)
  BY <1>4 DEF BranchCold
<1>5. CASE BranchSwr(p)
  BY <1>5 DEF BranchSwr, ArmOfStage
<1>6. CASE BranchChanged(p)
  BY <1>6 DEF BranchChanged
<1>7. CASE Reread(p)
  BY <1>7 DEF Reread
<1>8. CASE ServeStored(p)
  BY <1>8 DEF Answers
<1>9. CASE JoinGate(p)
  BY <1>9 DEF JoinGate, locals
<1>10. CASE WinGate(p)
  BY <1>10 DEF WinGate, locals
<1>11. CASE TryGate(p)
  BY <1>11 DEF TryGate, locals
<1>12. CASE ColdLook(p)
  BY <1>12 DEF ColdLook, Answers
<1>13. CASE Unlock(p)
  BY <1>13 DEF Unlock
<1>14. CASE RefreshRead(p)
  BY <1>14 DEF RefreshRead
<1>15. CASE RefreshLoad(p)
  BY <1>15 DEF RefreshLoad
<1>16. CASE RefreshStat(p)
  BY <1>16 DEF RefreshStat
<1>17. CASE RefreshCheck(p)
  BY <1>17 DEF RefreshCheck, AfterRefresh
<1>18. CASE RefreshStore(p)
  BY <1>18 DEF RefreshStore, AfterRefresh
<1> HIDE DEF Silent
<1> QED
  BY <1>1, <1>2, <1>3, <1>4, <1>5, <1>6, <1>7, <1>8, <1>9, <1>10, <1>11, <1>12, <1>13, <1>14, <1>15, <1>16, <1>17, <1>18 DEF Step

LEMMA AnsweredStep ==
    BaseInv /\ ControlInv /\ VersionInv /\ AnsweredInv /\ [Next]_vars => AnsweredInv'
<1> SUFFICES ASSUME BaseInv, ControlInv, VersionInv, AnsweredInv, [Next]_vars PROVE AnsweredInv'
  OBVIOUS
<1>0. TypeOK /\ TaskArms
  BY DEF BaseInv, ControlInv
<1>1. ASSUME NEW p \in Process, Answers(p) PROVE AnsweredInv'
  BY <1>0, <1>1, AnswerStep, ProcessKinds DEF AnsweredInv, TypeOK
<1>2. ASSUME NEW p \in Process, Step(p), ~Answers(p) PROVE AnsweredInv'
  BY <1>2, SilentStep DEF AnsweredInv
<1>3. ASSUME NEW p \in Process, BeginFetch(p) PROVE AnsweredInv'
  BY <1>0, <1>3, ProcessKinds DEF BeginFetch, AnsweredInv, Goto, TaskArms, TypeOK
<1>4. CASE FireHook
  <2>1. \A q \in FetchProcess : pc'[q] = pc[q]
    BY <1>0, <1>4, ProcessKinds DEF FireHook, Goto, TypeOK
  <2> QED
    BY <1>4, <2>1 DEF FireHook, AnsweredInv, locals
<1>5. CASE ApplyConfig \/ EditTemplate \/ PassInterval \/ UNCHANGED vars
  BY <1>5 DEF ApplyConfig, EditTemplate, PassInterval, vars, locals, AnsweredInv
<1> QED
  BY <1>1, <1>2, <1>3, <1>4, <1>5 DEF Next, Environment

ServiceInv == BaseInv /\ ControlInv /\ VersionInv /\ FreshInv /\ AnsweredInv

\* What the service shows of the cache.
Published == IF entry = NoEntry THEN NoEntry ELSE entry.ver
Floor == [p \in FetchProcess |->
            IF pc[p] = "idle" THEN NoEntry ELSE IF p \in warm THEN want[p] ELSE 0]
Answered == [p \in FetchProcess |-> answer[p]]

LEMMA ServiceStart == Init => Service!Init
  BY ProcessKinds DEF Init, Service!Init

LEMMA ServiceStep == ServiceInv /\ ServiceInv' /\ [Next]_vars => [Service!Next]_(Service!vars)
<1> SUFFICES ASSUME ServiceInv, ServiceInv', [Next]_vars PROVE [Service!Next]_(Service!vars)
  OBVIOUS
<1> USE DEF ServiceInv
<1>0. /\ TypeOK /\ TypeOK' /\ TaskArms
      /\ \A e \in Entry : e.ver \in Nat /\ e.ver \in Version /\ e.ver # NoEntry
      /\ NoEntry \notin Version /\ 0 \in Version /\ MaxEdits \in Nat
  BY BoundsAssumption, NoEntryAssumption DEF BaseInv, ControlInv, Entry, Version
<1>1. ASSUME UNCHANGED <<ver, Published, Floor, Answered>> PROVE [Service!Next]_(Service!vars)
  BY <1>1 DEF Published, Floor, Answered, Service!vars
<1>2. ASSUME UNCHANGED <<want, warm>>, \A q \in FetchProcess : pc[q] = "idle" <=> pc'[q] = "idle"
      PROVE  UNCHANGED Floor
  BY <1>2 DEF Floor
<1>3. ASSUME UNCHANGED <<ver, Floor, Answered>>, entry' \in Entry, entry'.ver <= ver,
             entry # NoEntry => entry'.ver >= entry.ver
      PROVE  Service!Next
  <2>1. entry'.ver \in 0..ver /\ Published' = entry'.ver
    BY <1>0, <1>3, NoEntryAssumption DEF Published, TypeOK, Version
  <2>2. Published # NoEntry => Published <= entry'.ver
    BY <1>0, <1>3 DEF Published, TypeOK
  <2>3. Service!Publish
    BY <1>3, <2>1, <2>2 DEF Service!Publish, Published, Floor, Answered
  <2> QED
    BY <2>3 DEF Service!Next
<1>4. ASSUME NEW p \in Process, Answers(p) PROVE [Service!Next]_(Service!vars)
  <2>1. /\ p \in FetchProcess /\ answer[p] = NoEntry /\ pc[p] # "idle" /\ entry \in Entry
        /\ pc'[p] = "done" \/ (pc'[p] = "unlock" /\ path'[p] = "cold")
        /\ \A q \in Process : q # p => pc'[q] = pc[q]
        /\ UNCHANGED <<ver, entry, want, warm, path>>
    BY <1>4, AnswerStep
  <2>2. PICK v \in 0..entry.ver : answer' = [answer EXCEPT ![p] = v]
    BY <1>4, AnswerStep
  <2>3. UNCHANGED Floor
    BY <1>2, <2>1, ProcessKinds
  <2>4. Published = entry.ver /\ UNCHANGED Published /\ Published # NoEntry
    BY <1>0, <2>1, NoEntryAssumption DEF Published
  <2>5. Floor[p] # NoEntry /\ v \in Floor[p]..Published
    <3>1. Floor[p] = IF p \in warm THEN want[p] ELSE 0
      BY <2>1 DEF Floor
    <3>2. want[p] \in Version /\ want[p] \in Nat
      BY <1>0, <2>1, ProcessKinds DEF TypeOK, Version
    <3>3. answer'[p] = v /\ v # NoEntry
      <4>1. v \in Version
        BY <1>0, <2>1 DEF Version, Entry
      <4> QED
        BY <1>0, <2>1, <2>2, <4>1, ProcessKinds DEF TypeOK
    <3>4. p \in warm => v >= want[p]
      BY <2>1, <3>3 DEF FreshInv
    <3> QED
      BY <1>0, <2>1, <2>4, <3>1, <3>2, <3>4
  <2>6. Answered' = [Answered EXCEPT ![p] = v] /\ Answered[p] = NoEntry
    BY <1>0, <2>1, <2>2, ProcessKinds, ZenonT(40) DEF Answered, TypeOK
  <2>7. Service!Reply(p)
    BY <2>1, <2>3, <2>4, <2>5, <2>6 DEF Service!Reply, Published, Floor, Answered
  <2> QED
    BY <2>1, <2>7 DEF Service!Next
<1>5. ASSUME NEW p \in Process, Step(p), ~Answers(p) PROVE [Service!Next]_(Service!vars)
  <2>1. /\ UNCHANGED <<ver, want, warm, answer>>
        /\ \A q \in FetchProcess : pc[q] = "idle" <=> pc'[q] = "idle"
        /\ RefreshStore(p) \/ UNCHANGED entry
    BY <1>5, SilentStep
  <2>2. UNCHANGED Floor /\ UNCHANGED Answered
    BY <1>2, <2>1 DEF Answered
  <2>3. CASE UNCHANGED entry
    BY <1>1, <2>1, <2>2, <2>3 DEF Published
  <2>4. CASE RefreshStore(p)
    <3>1. entry' = draft[p] /\ entry' \in Entry
      BY <1>0, <2>4 DEF RefreshStore, TypeOK
    <3>2. entry' # NoEntry
      BY <3>1, NoEntryAssumption
    <3>3. entry'.ver <= ver
      BY <2>1, <3>2 DEF VersionInv
    <3>4. entry # NoEntry => entry'.ver >= entry.ver
      BY EntryForward
    <3> QED
      BY <1>3, <2>1, <2>2, <3>1, <3>3, <3>4
  <2> QED
    BY <2>1, <2>3, <2>4
<1>6. ASSUME NEW p \in Process, BeginFetch(p) PROVE [Service!Next]_(Service!vars)
  <2>1. p \in FetchProcess /\ pc[p] = "idle" /\ UNCHANGED <<ver, entry, answer>>
    BY <1>6 DEF BeginFetch
  <2>2. /\ pc'[p] = "get" /\ want'[p] = ver /\ (p \in warm' <=> entry # NoEntry \/ p \in warm)
        /\ \A q \in FetchProcess : q # p =>
             pc'[q] = pc[q] /\ want'[q] = want[q] /\ (q \in warm' <=> q \in warm)
    BY <1>0, <1>6, <2>1, ProcessKinds DEF BeginFetch, Goto, TypeOK
  <2>3. p \notin warm
    BY <2>1 DEF FreshInv
  <2>4. Floor[p] = NoEntry
    BY <2>1 DEF Floor
  <2>5. Floor' = [Floor EXCEPT ![p] = IF Published = NoEntry THEN 0 ELSE ver]
    <3>1. Published = NoEntry <=> entry = NoEntry
      BY <1>0 DEF Published, TypeOK
    <3> QED
      BY <2>1, <2>2, <2>3, <3>1 DEF Floor
  <2>6. UNCHANGED <<Published, Answered>>
    BY <2>1 DEF Published, Answered
  <2>7. Service!Ask(p)
    BY <2>1, <2>4, <2>5, <2>6 DEF Service!Ask, Published, Floor, Answered
  <2> QED
    BY <2>1, <2>7 DEF Service!Next
<1>7. CASE ApplyConfig
  <2>1. ver < MaxEdits /\ ver' = ver + 1 /\ UNCHANGED <<entry, pc, want, warm, answer>>
    BY <1>7 DEF ApplyConfig, locals
  <2>2. UNCHANGED <<Published, Floor, Answered>>
    BY <2>1 DEF Published, Floor, Answered
  <2>3. Service!Edit
    BY <2>1, <2>2 DEF Service!Edit, Published, Floor, Answered
  <2> QED
    BY <2>3 DEF Service!Next
<1>8. CASE PassInterval
  <2>1. entry \in Entry /\ entry' \in Entry /\ entry'.ver = entry.ver
    BY <1>0, <1>8 DEF PassInterval, TypeOK, Entry
  <2>2. UNCHANGED <<ver, pc, want, warm, answer>>
    BY <1>8 DEF PassInterval, locals
  <2>3. UNCHANGED Published
    BY <2>1, NoEntryAssumption DEF Published
  <2>4. UNCHANGED <<Floor, Answered>>
    BY <2>2 DEF Floor, Answered
  <2> QED
    BY <1>1, <2>2, <2>3, <2>4
<1>9. CASE FireHook
  <2>1. \A q \in FetchProcess : pc'[q] = pc[q]
    BY <1>0, <1>9, ProcessKinds DEF FireHook, Goto, TypeOK
  <2>2. UNCHANGED <<ver, entry, want, warm, answer>>
    BY <1>9 DEF FireHook, locals
  <2>3. UNCHANGED <<Published, Answered>>
    BY <2>2 DEF Published, Answered
  <2>4. UNCHANGED Floor
    BY <1>2, <2>1, <2>2
  <2> QED
    BY <1>1, <2>2, <2>3, <2>4
<1>10. CASE EditTemplate \/ UNCHANGED vars
  <2>1. UNCHANGED <<ver, entry, pc, want, warm, answer>>
    BY <1>10 DEF EditTemplate, vars, locals
  <2>2. UNCHANGED <<Published, Floor, Answered>>
    BY <2>1 DEF Published, Floor, Answered
  <2> QED
    BY <1>1, <2>1, <2>2
<1> QED
  BY <1>4, <1>5, <1>6, <1>7, <1>8, <1>9, <1>10 DEF Next, Environment

\* Through all its refreshes, gates and snapshots (src/src/models_cache.rs), the
\* cache does only what CatalogService lets it do, for any number of fetches,
\* reloads and template edits, if the fingerprint tells configurations apart.
THEOREM ServiceImplemented == ASSUME DistinctFingerprints PROVE Spec => ImplementsService
<1>1. Init => ServiceInv
  BY BaseInit, ControlInit, VersionInit, FreshInit, AnsweredInit DEF ServiceInv
<1>2. ServiceInv /\ [Next]_vars => ServiceInv'
  <2> SUFFICES ASSUME ServiceInv, [Next]_vars PROVE ServiceInv'
    OBVIOUS
  <2>1. BaseInv' /\ ControlInv'
    BY TypeStep, GateStep, ArmStep, TaskArmStep DEF ServiceInv, BaseInv, ControlInv
  <2>2. VersionInv'
    BY VersionStep DEF ServiceInv
  <2>3. FreshInv'
    BY FreshStep DEF ServiceInv
  <2>4. AnsweredInv'
    BY AnsweredStep DEF ServiceInv
  <2> QED
    BY <2>1, <2>2, <2>3, <2>4 DEF ServiceInv
<1> QED
  BY <1>1, <1>2, ServiceStart, ServiceStep, PTL DEF Spec, ImplementsService, Service!Spec
=============================================================================
