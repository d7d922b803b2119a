--------------------------- MODULE RepoLockProofs ---------------------------
(***************************************************************************)
(* The store lock of internal/storage/git.go, proved for every number of   *)
(* processes, bases, repositories and nested acquisitions: LockInv is an   *)
(* invariant, mutual exclusion and the absence of leaked flocks follow     *)
(* from it, and RepoLock implements Mutex.                                 *)
(***************************************************************************)
EXTENDS RepoLock, TLAPS, FiniteSetTheorems

-----------------------------------------------------------------------------
\* The set of live handles is finite and its cardinality a natural number.
LEMMA LiveFinite ==
    ASSUME NEW p \in Procs
    PROVE  /\ IsFiniteSet(Live(p))
           /\ Cardinality(Live(p)) \in 0 .. Cardinality(Handles)
           /\ Cardinality(Live(p)) = 0 <=> Live(p) = {}
<1>1. Live(p) \in SUBSET Handles
  BY DEF Live
<1>2. IsFiniteSet(Handles) /\ Cardinality(Handles) \in Nat
  BY RepoLockAssumption, FS_CardinalityType
<1>3. IsFiniteSet(Live(p)) /\ Cardinality(Live(p)) <= Cardinality(Handles)
  BY <1>1, <1>2, FS_Subset
<1>4. Cardinality(Live(p)) \in Nat
  BY <1>3, FS_CardinalityType
<1>5. Cardinality(Live(p)) = 0 <=> Live(p) = {}
  BY <1>3, FS_EmptySet
<1> QED
  BY <1>2, <1>3, <1>4, <1>5

\* The same facts of the next state.
LEMMA LiveFinitePrimed ==
    ASSUME NEW p \in Procs
    PROVE  /\ IsFiniteSet(Live(p)')
           /\ Cardinality(Live(p)') \in 0 .. Cardinality(Handles)
           /\ Cardinality(Live(p)') = 0 <=> Live(p)' = {}
<1>1. Live(p)' \in SUBSET Handles
  BY DEF Live
<1>2. IsFiniteSet(Handles) /\ Cardinality(Handles) \in Nat
  BY RepoLockAssumption, FS_CardinalityType
<1>3. IsFiniteSet(Live(p)') /\ Cardinality(Live(p)') <= Cardinality(Handles)
  BY <1>1, <1>2, FS_Subset
<1>4. Cardinality(Live(p)') \in Nat
  BY <1>3, FS_CardinalityType
<1>5. Cardinality(Live(p)') = 0 <=> Live(p)' = {}
  BY <1>3, FS_EmptySet
<1> QED
  BY <1>2, <1>3, <1>4, <1>5

\* Every base has its lock file among the lock files.
LEMMA LockPathType == \A k \in KBs : LockPath(k) \in LockPaths
  BY DEF LockPaths

-----------------------------------------------------------------------------
(* Every action keeps the invariant: a lemma per action, a step per part.    *)

\* At the start no process holds a handle and no flock is taken.
LEMMA InitLockInv == Init => LockInv
<1> SUFFICES ASSUME Init PROVE LockInv
  OBVIOUS
<1>1. \A p \in Procs : Live(p) = {}
  BY DEF Init, Live, NoHandles
<1>2. Cardinality({}) = 0 /\ Cardinality(Handles) \in Nat
  BY RepoLockAssumption, FS_EmptySet, FS_CardinalityType
<1>3. TypeOK
  BY <1>2 DEF Init, TypeOK, NoHandles
<1>4. RefsCountLive
  BY <1>1, <1>2 DEF Init, RefsCountLive
<1>5. ExitedIsClean
  BY DEF Init, ExitedIsClean
<1>6. LiveHasFlock
  BY <1>1 DEF LiveHasFlock
<1>7. FlockHasHolder
  BY RepoLockAssumption DEF Init, FlockHasHolder
<1>8. WaiterHoldsNothing
  BY DEF Init, WaiterHoldsNothing
<1> QED
  BY <1>3, <1>4, <1>5, <1>6, <1>7, <1>8 DEF LockInv

\* An action that leaves the handles of every process alone leaves Live alone.
LEMMA LiveUnchanged ==
    ASSUME UNCHANGED handle
    PROVE  \A p \in Procs : Live(p)' = Live(p)
  BY DEF Live

\* A process that starts its command holds nothing yet.
LEMMA StartKeepsInv ==
    ASSUME LockInv, NEW p \in Procs, NEW k \in KBs, Start(p, k)
    PROVE  LockInv'
<1> USE DEF LockInv
<1>1. \A q \in Procs : Live(q)' = Live(q)
  BY LiveUnchanged DEF Start
<1>2. TypeOK'
  BY DEF TypeOK, Start
<1>3. Live(p) = {}
  BY DEF Start, ExitedIsClean, Live, NoHandles
<1>4. RefsCountLive'
  BY <1>1 DEF RefsCountLive, Start
<1>5. ExitedIsClean'
  BY RepoLockAssumption DEF ExitedIsClean, Start, TypeOK
<1>6. LiveHasFlock'
  BY <1>1, <1>3 DEF LiveHasFlock, Start, TypeOK
<1>7. FlockHasHolder'
  BY <1>1, <1>3 DEF FlockHasHolder, Start, TypeOK
<1>8. WaiterHoldsNothing'
  BY <1>1 DEF WaiterHoldsNothing, Start
<1> QED
  BY <1>2, <1>4, <1>5, <1>6, <1>7, <1>8

\* A nested acquisition counts one more handle on the flock the process has.
LEMMA LockNestedKeepsInv ==
    ASSUME LockInv, NEW p \in Procs, NEW h \in Handles, LockNested(p, h)
    PROVE  LockInv'
<1> USE DEF LockInv
<1>1. Live(p)' = Live(p) \cup {h} /\ h \notin Live(p)
  BY DEF LockNested, Live, TypeOK
<1>2. \A q \in Procs : q # p => Live(q)' = Live(q)
  BY DEF LockNested, Live, TypeOK
<1>3. refs'[p] = Cardinality(Live(p)')
  <2>1. Cardinality(Live(p) \cup {h}) = Cardinality(Live(p)) + 1
    BY <1>1, LiveFinite, FS_AddElement
  <2>2. refs'[p] = refs[p] + 1
    BY DEF LockNested, NestedRefs, TypeOK
  <2> QED
    BY <1>1, <2>1, <2>2 DEF RefsCountLive
<1>4. \A q \in Procs : q # p => refs'[q] = refs[q]
  BY DEF LockNested, TypeOK
<1>5. TypeOK'
  <2>1. refs' \in [Procs -> 0 .. Cardinality(Handles)]
    <3>1. refs'[p] \in 0 .. Cardinality(Handles)
      BY <1>3, LiveFinitePrimed
    <3>2. refs' = [refs EXCEPT ![p] = refs'[p]]
      BY DEF LockNested, TypeOK
    <3> QED
      BY <3>1, <3>2 DEF TypeOK
  <2> QED
    BY <2>1 DEF TypeOK, LockNested
<1>6. RefsCountLive'
  BY <1>2, <1>3, <1>4 DEF RefsCountLive
<1>7. Live(p) # {} /\ base[p] # NoKB
  BY LiveFinite DEF LockNested, Held, RefsCountLive, Running, TypeOK
<1>8. ExitedIsClean'
  BY <1>7 DEF ExitedIsClean, LockNested, TypeOK
<1>9. LiveHasFlock'
  BY <1>2, <1>7 DEF LiveHasFlock, LockNested
<1>10. FlockHasHolder'
  BY <1>1, <1>2 DEF FlockHasHolder, LockNested
<1>11. WaiterHoldsNothing'
  BY <1>2 DEF WaiterHoldsNothing, LockNested, Running, TypeOK
<1> QED
  BY <1>5, <1>6, <1>8, <1>9, <1>10, <1>11

\* An outermost acquisition waits for the flock and takes nothing.
LEMMA LockOutermostKeepsInv ==
    ASSUME LockInv, NEW p \in Procs, NEW h \in Handles, LockOutermost(p, h)
    PROVE  LockInv'
<1> USE DEF LockInv
<1>1. \A q \in Procs : Live(q)' = Live(q)
  BY LiveUnchanged DEF LockOutermost
<1>2. TypeOK'
  BY DEF TypeOK, LockOutermost
<1>3. Live(p) = {}
  BY LiveFinite DEF LockOutermost, Held, RefsCountLive, TypeOK
<1>4. RefsCountLive'
  BY <1>1 DEF RefsCountLive, LockOutermost
<1>5. ExitedIsClean'
  BY DEF ExitedIsClean, LockOutermost, Running, TypeOK
<1>6. LiveHasFlock'
  BY <1>1 DEF LiveHasFlock, LockOutermost
<1>7. FlockHasHolder'
  BY <1>1 DEF FlockHasHolder, LockOutermost
<1>8. WaiterHoldsNothing'
  BY <1>1, <1>3 DEF WaiterHoldsNothing, LockOutermost, TypeOK
<1> QED
  BY <1>2, <1>4, <1>5, <1>6, <1>7, <1>8

\* The kernel grants a free flock to one waiter, whose first handle is live.
LEMMA FlockGrantedKeepsInv ==
    ASSUME LockInv, NEW p \in Procs, FlockGranted(p)
    PROVE  LockInv'
<1> USE DEF LockInv
<1> DEFINE h == waiting[p]
<1> DEFINE l == LockPath(base[p])
<1>1. h \in Handles /\ Live(p) = {} /\ base[p] \in KBs /\ base[p] # NoKB
  BY DEF FlockGranted, WaiterHoldsNothing, ExitedIsClean, TypeOK
<1>2. l \in LockPaths
  BY <1>1, LockPathType
<1>3. Live(p)' = {h}
  BY <1>1 DEF FlockGranted, Live, TypeOK
<1>4. \A q \in Procs : q # p => Live(q)' = Live(q)
  BY DEF FlockGranted, Live, TypeOK
<1>5. refs'[p] = Cardinality(Live(p)')
  BY <1>3, FS_Singleton DEF FlockGranted, TypeOK
<1>6. TypeOK'
  <2>1. refs' \in [Procs -> 0 .. Cardinality(Handles)]
    <3>1. 1 \in 0 .. Cardinality(Handles)
      BY <1>3, FS_Singleton, LiveFinitePrimed
    <3> QED
      BY <3>1 DEF FlockGranted, TypeOK
  <2> QED
    BY <1>1, <1>2, <2>1 DEF TypeOK, FlockGranted
<1>7. RefsCountLive'
  BY <1>4, <1>5 DEF RefsCountLive, FlockGranted, TypeOK
<1>8. ExitedIsClean'
  BY <1>1 DEF ExitedIsClean, FlockGranted, TypeOK
<1>9. flock'[l] = p /\ \A m \in LockPaths : m # l => flock'[m] = flock[m]
  BY <1>2 DEF FlockGranted, TypeOK
<1>10. flock[l] \notin Procs
  BY RepoLockAssumption DEF FlockGranted
<1>11. LiveHasFlock'
  <2> SUFFICES ASSUME NEW q \in Procs, Live(q)' # {}
               PROVE  base'[q] # NoKB /\ flock'[LockPath(base'[q])] = q
    BY DEF LiveHasFlock, LockPath
  <2>1. CASE q = p
    BY <2>1, <1>1, <1>9 DEF FlockGranted
  <2>2. CASE q # p
    <3>1. base[q] # NoKB /\ flock[LockPath(base[q])] = q
      BY <2>2, <1>4 DEF LiveHasFlock
    <3>2. LockPath(base[q]) # l
      BY <3>1, <1>10
    <3>3. LockPath(base[q]) \in LockPaths
      BY <3>1, LockPathType DEF TypeOK
    <3> QED
      BY <3>1, <3>2, <3>3, <1>9 DEF FlockGranted
  <2> QED
    BY <2>1, <2>2
<1>12. FlockHasHolder'
  <2> SUFFICES ASSUME NEW q \in Procs, NEW m \in LockPaths, flock'[m] = q
               PROVE  base'[q] # NoKB /\ LockPath(base'[q]) = m /\ Live(q)' # {}
    BY DEF FlockHasHolder, LockPaths, LockPath
  <2>1. CASE m = l
    BY <2>1, <1>1, <1>3, <1>9 DEF FlockGranted
  <2>2. CASE m # l
    <3>1. base[q] # NoKB /\ LockPath(base[q]) = m /\ Live(q) # {}
      BY <2>2, <1>9 DEF FlockHasHolder
    <3> QED
      BY <3>1, <1>1, <1>4 DEF FlockGranted
  <2> QED
    BY <2>1, <2>2
<1>13. WaiterHoldsNothing'
  BY <1>4 DEF WaiterHoldsNothing, FlockGranted, TypeOK
<1> QED
  BY <1>6, <1>7, <1>8, <1>11, <1>12, <1>13

\* A failed acquisition leaves no handle and no flock behind (lockFile).
LEMMA LockFailsKeepsInv ==
    ASSUME LockInv, NEW p \in Procs, LockFails(p)
    PROVE  LockInv'
<1> USE DEF LockInv
<1>1. \A q \in Procs : Live(q)' = Live(q)
  BY LiveUnchanged DEF LockFails
<1>2. TypeOK'
  BY DEF TypeOK, LockFails
<1>3. RefsCountLive'
  BY <1>1 DEF RefsCountLive, LockFails
<1>4. ExitedIsClean'
  BY DEF ExitedIsClean, LockFails, TypeOK
<1>5. LiveHasFlock' /\ FlockHasHolder'
  BY <1>1 DEF LiveHasFlock, FlockHasHolder, LockFails
<1>6. WaiterHoldsNothing'
  BY <1>1 DEF WaiterHoldsNothing, LockFails, TypeOK
<1> QED
  BY <1>2, <1>3, <1>4, <1>5, <1>6

\* A release drops the flock with the last live handle only (RepoLock.Release).
LEMMA ReleaseKeepsInv ==
    ASSUME LockInv, NEW p \in Procs, NEW h \in Handles, Release(p, h)
    PROVE  LockInv'
<1> USE DEF LockInv
<1> DEFINE l == LockPath(base[p])
<1>1. base[p] \in KBs /\ base[p] # NoKB /\ waiting[p] = NoHandle
  BY DEF Release, Running, TypeOK
<1>2. l \in LockPaths
  BY <1>1, LockPathType
<1>3. Live(p)' = Live(p) \ {h}
  BY DEF Release, Live, TypeOK
<1>4. \A q \in Procs : q # p => Live(q)' = Live(q)
  BY DEF Release, Live, TypeOK
<1>5. base' = base /\ waiting' = waiting
  BY DEF Release
<1>6. Cardinality(Live(p)') = IF h \in Live(p) THEN Cardinality(Live(p)) - 1
                                             ELSE Cardinality(Live(p))
  BY <1>3, LiveFinite, FS_RemoveElement
<1>7. DropsAcquisition(p, h) <=> h \in Live(p)
  <2>1. h \in Live(p) => refs[p] # 0
    BY LiveFinite DEF RefsCountLive
  <2> QED
    BY <2>1 DEF DropsAcquisition, Held, Live, TypeOK
<1>8. refs'[p] = Cardinality(Live(p)')
  BY <1>6, <1>7, LiveFinite DEF Release, RefsCountLive, TypeOK
<1>9. \A q \in Procs : q # p => refs'[q] = refs[q]
  BY DEF Release, TypeOK
<1>10. RefsCountLive'
  BY <1>4, <1>8, <1>9 DEF RefsCountLive
<1>11. flock' \in [LockPaths -> Procs \cup {NoProc}]
  BY <1>2 DEF Release, TypeOK
<1>12. TypeOK'
  <2>1. refs' = [refs EXCEPT ![p] = refs'[p]]
    BY DEF Release, TypeOK
  <2>2. refs'[p] \in 0 .. Cardinality(Handles)
    BY <1>8, LiveFinitePrimed
  <2>3. handle' \in [Procs -> [Handles -> {"nil", "live", "released"}]]
    BY DEF Release, TypeOK
  <2> QED
    BY <1>5, <1>11, <2>1, <2>2, <2>3 DEF TypeOK
<1>13. ExitedIsClean'
  BY <1>1, <1>5 DEF ExitedIsClean, Release, TypeOK
<1>14. WaiterHoldsNothing'
  BY <1>1, <1>4, <1>5 DEF WaiterHoldsNothing, Release, TypeOK
<1>15. CASE Live(p)' # {}
  <2>1. flock' = flock
    BY <1>15, <1>8, LiveFinitePrimed DEF Release, Outermost, TypeOK
  <2>2. Live(p) # {}
    BY <1>15, <1>3
  <2>3. LiveHasFlock'
    BY <2>1, <2>2, <1>4, <1>5 DEF LiveHasFlock
  <2>4. FlockHasHolder'
    BY <2>1, <1>15, <1>4, <1>5 DEF FlockHasHolder
  <2> QED
    BY <1>10, <1>12, <1>13, <1>14, <2>3, <2>4
<1>16. CASE Live(p)' = {} /\ h \in Live(p)
  <2>1. flock' = [flock EXCEPT ![l] = NoProc]
    <3>1. refs'[p] = 0
      BY <1>16, <1>8, LiveFinitePrimed
    <3>2. refs'[p] = refs[p] - 1
      BY <1>16, <1>7 DEF Release, TypeOK
    <3>3. refs[p] = 1
      BY <3>1, <3>2 DEF TypeOK
    <3> QED
      BY <1>16, <1>7, <3>3 DEF Release, Outermost
  <2>2. flock[l] = p
    BY <1>16 DEF LiveHasFlock
  <2>3. LiveHasFlock'
    <3> SUFFICES ASSUME NEW q \in Procs, Live(q)' # {}
                 PROVE  base'[q] # NoKB /\ flock'[LockPath(base'[q])] = q
      BY DEF LiveHasFlock, LockPath
    <3>1. q # p /\ base[q] # NoKB /\ flock[LockPath(base[q])] = q
      BY <1>4, <1>16 DEF LiveHasFlock
    <3>2. LockPath(base[q]) # l
      BY <3>1, <2>2
    <3>3. LockPath(base[q]) \in LockPaths
      BY <3>1, LockPathType DEF TypeOK
    <3> QED
      BY <3>1, <3>2, <3>3, <2>1, <1>5 DEF TypeOK
  <2>4. FlockHasHolder'
    <3> SUFFICES ASSUME NEW q \in Procs, NEW m \in LockPaths, flock'[m] = q
                 PROVE  base'[q] # NoKB /\ LockPath(base'[q]) = m /\ Live(q)' # {}
      BY DEF FlockHasHolder, LockPaths, LockPath
    <3>1. m # l /\ flock[m] = q
      BY <2>1, <1>2, RepoLockAssumption DEF TypeOK
    <3>2. base[q] # NoKB /\ LockPath(base[q]) = m /\ Live(q) # {}
      BY <3>1 DEF FlockHasHolder
    <3> QED
      BY <3>1, <3>2, <1>4, <1>5
  <2> QED
    BY <1>10, <1>12, <1>13, <1>14, <2>3, <2>4
<1>17. CASE Live(p)' = {} /\ h \notin Live(p)
  <2>1. flock' = flock /\ Live(p)' = Live(p)
    BY <1>17, <1>3, <1>7 DEF Release
  <2>2. LiveHasFlock' /\ FlockHasHolder'
    BY <2>1, <1>4, <1>5 DEF LiveHasFlock, FlockHasHolder
  <2> QED
    BY <1>10, <1>12, <1>13, <1>14, <2>2
<1> QED
  BY <1>15, <1>16, <1>17

\* The end of a process drops whatever it held.
LEMMA ExitKeepsInv ==
    ASSUME LockInv, NEW p \in Procs, Exit(p)
    PROVE  LockInv'
<1> USE DEF LockInv
<1>1. Live(p)' = {}
  BY DEF Exit, Live, NoHandles, TypeOK
<1>2. \A q \in Procs : q # p => /\ Live(q)' = Live(q)
                                /\ base'[q] = base[q]
                                /\ refs'[q] = refs[q]
                                /\ handle'[q] = handle[q]
                                /\ waiting'[q] = waiting[q]
  BY DEF Exit, Live, TypeOK
<1>3. \A m \in LockPaths : flock'[m] = IF flock[m] = p THEN NoProc ELSE flock[m]
  BY DEF Exit
<1>4. refs'[p] = 0 /\ base'[p] = NoKB /\ handle'[p] = NoHandles /\ waiting'[p] = NoHandle
  BY DEF Exit, TypeOK
<1>5. Cardinality(Handles) \in Nat
  BY RepoLockAssumption, FS_CardinalityType
<1>6. TypeOK'
  BY <1>5 DEF TypeOK, Exit, NoHandles
<1>7. RefsCountLive'
  BY <1>1, <1>2, <1>4, FS_EmptySet DEF RefsCountLive
<1>8. ExitedIsClean'
  BY <1>2, <1>4 DEF ExitedIsClean
<1>9. LiveHasFlock'
  <2> SUFFICES ASSUME NEW q \in Procs, Live(q)' # {}
               PROVE  base'[q] # NoKB /\ flock'[LockPath(base'[q])] = q
    BY DEF LiveHasFlock, LockPath
  <2>1. q # p /\ base'[q] = base[q] /\ base[q] # NoKB /\ flock[LockPath(base[q])] = q
    BY <1>1, <1>2 DEF LiveHasFlock
  <2>2. LockPath(base[q]) \in LockPaths
    BY <2>1, LockPathType DEF TypeOK
  <2> QED
    BY <2>1, <2>2, <1>3
<1>10. FlockHasHolder'
  <2> SUFFICES ASSUME NEW q \in Procs, NEW m \in LockPaths, flock'[m] = q
               PROVE  base'[q] # NoKB /\ LockPath(base'[q]) = m /\ Live(q)' # {}
    BY DEF FlockHasHolder, LockPaths, LockPath
  <2>1. flock[m] = q /\ q # p
    BY <1>3, RepoLockAssumption
  <2> QED
    BY <2>1, <1>2 DEF FlockHasHolder
<1>11. WaiterHoldsNothing'
  BY <1>1, <1>2, <1>4 DEF WaiterHoldsNothing
<1> QED
  BY <1>6, <1>7, <1>8, <1>9, <1>10, <1>11

\* A step that changes nothing keeps the invariant.
LEMMA StutterKeepsInv == LockInv /\ UNCHANGED vars => LockInv'
  BY DEF LockInv, TypeOK, RefsCountLive, ExitedIsClean, LiveHasFlock,
         FlockHasHolder, WaiterHoldsNothing, Live, vars

\* Every step of the lock keeps the invariant.
LEMMA NextKeepsInv == LockInv /\ [Next]_vars => LockInv'
<1> SUFFICES ASSUME LockInv, [Next]_vars PROVE LockInv'
  OBVIOUS
<1>1. ASSUME NEW p \in Procs, NEW k \in KBs, Start(p, k) PROVE LockInv'
  BY <1>1, StartKeepsInv
<1>2. ASSUME NEW p \in Procs, NEW h \in Handles, LockNested(p, h) PROVE LockInv'
  BY <1>2, LockNestedKeepsInv
<1>3. ASSUME NEW p \in Procs, NEW h \in Handles, LockOutermost(p, h) PROVE LockInv'
  BY <1>3, LockOutermostKeepsInv
<1>4. ASSUME NEW p \in Procs, NEW h \in Handles, Release(p, h) PROVE LockInv'
  BY <1>4, ReleaseKeepsInv
<1>5. ASSUME NEW p \in Procs, FlockGranted(p) PROVE LockInv'
  BY <1>5, FlockGrantedKeepsInv
<1>6. ASSUME NEW p \in Procs, LockFails(p) PROVE LockInv'
  BY <1>6, LockFailsKeepsInv
<1>7. ASSUME NEW p \in Procs, Exit(p) PROVE LockInv'
  BY <1>7, ExitKeepsInv
<1>8. CASE UNCHANGED vars
  BY <1>8, StutterKeepsInv
<1> QED
  BY <1>1, <1>2, <1>3, <1>4, <1>5, <1>6, <1>7, <1>8 DEF Next

-----------------------------------------------------------------------------
\* In every reachable state the reference counts, the handles and the kernel's
\* flocks agree (lockFile, RepoLock.Release), whatever the number of processes,
\* bases and nested acquisitions.
THEOREM LockInvariant == Spec => []LockInv
<1>1. Init => LockInv
  BY InitLockInv
<1>2. LockInv /\ [Next]_vars => LockInv'
  BY NextKeepsInv
<1> QED
  BY <1>1, <1>2, PTL DEF Spec

\* Every variable has its type: a process waits with one of its own handles, and
\* a reference count is a number.
THEOREM LockType == Spec => []TypeOK
<1>1. LockInv => TypeOK
  BY DEF LockInv
<1> QED
  BY <1>1, LockInvariant, PTL

\* Bases that conflict share their lock file: repoLockPath resolves the common
\* dir, which the linked worktrees of a repository have in common.
LEMMA ConflictSharesLockPath ==
    \A k, m \in KBs : Conflict(k, m) => LockPath(k) = LockPath(m)
  BY RepoLockAssumption DEF Conflict, LockPath

\* No two processes are ever inside mutation sequences of one base, or of two
\* git-versioned bases of one repository (LockRepo).
THEOREM LockMutualExclusion == Spec => []MutualExclusion
<1>1. LockInv => MutualExclusion
  <2> SUFFICES ASSUME LockInv, NEW p \in Procs, NEW q \in Procs,
                      base[p] # NoKB, base[q] # NoKB, Live(p) # {}, Live(q) # {},
                      Conflict(base[p], base[q])
               PROVE  p = q
    BY DEF MutualExclusion
  <2>1. base[p] \in KBs /\ base[q] \in KBs
    BY DEF LockInv, TypeOK
  <2>2. LockPath(base[p]) = LockPath(base[q])
    BY <2>1, ConflictSharesLockPath
  <2>3. flock[LockPath(base[p])] = p /\ flock[LockPath(base[q])] = q
    BY DEF LockInv, LiveHasFlock
  <2> QED
    BY <2>2, <2>3
<1> QED
  BY <1>1, LockInvariant, PTL

\* A process holds a flock exactly while it has a live handle: no release leaks
\* the flock and none drops it early (RepoLock.Release).
THEOREM LockNeverLeaks == Spec => []FlockIffLive
<1>1. LockInv => FlockIffLive
  <2> SUFFICES ASSUME LockInv, NEW p \in Procs
               PROVE  (Live(p) # {}) <=> (\E l \in LockPaths : flock[l] = p)
    BY DEF FlockIffLive
  <2>1. ASSUME Live(p) # {} PROVE \E l \in LockPaths : flock[l] = p
    BY <2>1, LockPathType DEF LockInv, LiveHasFlock, TypeOK
  <2>2. ASSUME NEW l \in LockPaths, flock[l] = p PROVE Live(p) # {}
    BY <2>2 DEF LockInv, FlockHasHolder
  <2> QED
    BY <2>1, <2>2
<1> QED
  BY <1>1, LockInvariant, PTL

-----------------------------------------------------------------------------
\* Whoever is inside a mutation sequence is who owns the flock, and nobody is
\* inside when nobody owns it.
LEMMA InsideIsFlock ==
    LockInv => Inside = [l \in LockPaths |->
                           IF flock[l] = NoProc THEN {} ELSE {flock[l]}]
<1> SUFFICES ASSUME LockInv, NEW l \in LockPaths
             PROVE  {p \in Procs : base[p] # NoKB /\ Live(p) # {} /\ LockPath(base[p]) = l}
                      = IF flock[l] = NoProc THEN {} ELSE {flock[l]}
  BY DEF Inside
<1>1. \A p \in Procs : base[p] # NoKB /\ Live(p) # {} /\ LockPath(base[p]) = l
                         <=> flock[l] = p
  BY DEF LockInv, LiveHasFlock, FlockHasHolder
<1>2. flock[l] \in Procs \cup {NoProc}
  BY DEF LockInv, TypeOK
<1> QED
  BY <1>1, <1>2, RepoLockAssumption

\* The same fact of the next state.
LEMMA InsideIsFlockPrimed ==
    LockInv' => Inside' = [l \in LockPaths |->
                             IF flock'[l] = NoProc THEN {} ELSE {flock'[l]}]
<1>1. LockInv' => (Inside = [l \in LockPaths |->
                               IF flock[l] = NoProc THEN {} ELSE {flock[l]}])'
  BY InsideIsFlock, PTL
<1> QED
  BY <1>1

\* Every step of the lock is an Enter, a Leave or a stuttering step of Mutex.
LEMMA StepImplementsMutex ==
    LockInv /\ LockInv' /\ [Next]_vars => [M!Next]_Inside
<1> SUFFICES ASSUME LockInv, LockInv', [Next]_vars PROVE [M!Next]_Inside
  OBVIOUS
<1>1. Inside = [l \in LockPaths |-> IF flock[l] = NoProc THEN {} ELSE {flock[l]}]
  BY InsideIsFlock
<1>2. Inside' = [l \in LockPaths |-> IF flock'[l] = NoProc THEN {} ELSE {flock'[l]}]
  BY InsideIsFlockPrimed
<1>3. TypeOK
  BY DEF LockInv
<1>4. ASSUME flock' = flock PROVE Inside' = Inside
  BY <1>1, <1>2, <1>4
<1>5. ASSUME NEW p \in Procs, NEW l \in LockPaths, flock[l] = NoProc,
             flock' = [flock EXCEPT ![l] = p]
      PROVE  M!Enter(p, l)
  <2>1. Inside[l] = {}
    BY <1>1, <1>5
  <2>2. Inside' = [Inside EXCEPT ![l] = {p}]
    BY <1>1, <1>2, <1>3, <1>5, RepoLockAssumption DEF TypeOK
  <2> QED
    BY <2>1, <2>2 DEF M!Enter
<1>6. ASSUME NEW p \in Procs, NEW l \in LockPaths, flock[l] = p,
             flock' = [flock EXCEPT ![l] = NoProc]
      PROVE  M!Leave(p, l)
  <2>1. Inside[l] = {p}
    BY <1>1, <1>6, RepoLockAssumption
  <2>2. Inside' = [Inside EXCEPT ![l] = {}]
    BY <1>1, <1>2, <1>3, <1>6 DEF TypeOK
  <2> QED
    BY <2>1, <2>2 DEF M!Leave
<1>7. ASSUME NEW p \in Procs, FlockGranted(p) PROVE M!Next
  <2>1. base[p] \in KBs
    BY <1>7 DEF FlockGranted, LockInv, ExitedIsClean, TypeOK
  <2> QED
    BY <2>1, <1>5, <1>7, LockPathType DEF FlockGranted, M!Next
<1>8. ASSUME NEW p \in Procs, NEW h \in Handles, Release(p, h)
      PROVE  M!Next \/ Inside' = Inside
  <2>1. CASE flock' = flock
    BY <2>1, <1>4
  <2>2. CASE flock' # flock
    <3>1. base[p] \in KBs /\ flock' = [flock EXCEPT ![LockPath(base[p])] = NoProc]
      BY <1>8, <2>2, <1>3 DEF Release, Running, TypeOK
    <3>2. Live(p) # {}
      BY <1>8, <2>2 DEF Release, DropsAcquisition, Live
    <3>3. flock[LockPath(base[p])] = p
      BY <3>2 DEF LockInv, LiveHasFlock
    <3> QED
      BY <3>1, <3>3, <1>6, LockPathType DEF M!Next
  <2> QED
    BY <2>1, <2>2
<1>9. ASSUME NEW p \in Procs, Exit(p) PROVE M!Next \/ Inside' = Inside
  <2>1. CASE \A l \in LockPaths : flock[l] # p
    <3>1. flock' = flock
      BY <2>1, <1>9, <1>3 DEF Exit, TypeOK
    <3> QED
      BY <3>1, <1>4
  <2>2. CASE \E l \in LockPaths : flock[l] = p
    <3>1. PICK l \in LockPaths : flock[l] = p
      BY <2>2
    <3>2. \A m \in LockPaths : flock[m] = p => m = l
      BY <3>1 DEF LockInv, FlockHasHolder
    <3>3. flock' = [flock EXCEPT ![l] = NoProc]
      BY <3>1, <3>2, <1>9, <1>3 DEF Exit, TypeOK
    <3> QED
      BY <3>1, <3>3, <1>6 DEF M!Next
  <2> QED
    BY <2>1, <2>2
<1>10. CASE UNCHANGED vars
  BY <1>10, <1>4 DEF vars
<1>11. ASSUME Next PROVE M!Next \/ Inside' = Inside
  BY <1>4, <1>7, <1>8, <1>9, <1>11
     DEF Next, Start, LockNested, LockOutermost, LockFails
<1> QED
  BY <1>10, <1>11, <1>4 DEF vars

\* The flock with its re-entrant, idempotently released handles implements the
\* plain mutual exclusion lock of module Mutex: LockRepo enters, the release of
\* the last handle or the end of the process leaves, all else is internal.
THEOREM LockImplementsMutex == Spec => ImplementsMutex
<1>1. Init => M!Init
  BY InitLockInv, InsideIsFlock DEF Init, M!Init
<1>2. LockInv /\ LockInv' /\ [Next]_vars => [M!Next]_Inside
  BY StepImplementsMutex
<1> QED
  BY <1>1, <1>2, LockInvariant, PTL DEF Spec, ImplementsMutex, M!Spec
=============================================================================
