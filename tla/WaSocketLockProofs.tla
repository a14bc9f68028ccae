----------------------- MODULE WaSocketLockProofs -----------------------
(* TypeOK, the conditional exclusion of WaSocketLock and its refinement of *)
(* SocketMutex, for any set of processes, any TTL and any time limit.      *)
EXTENDS WaSocketLock, TLAPS

USE DEF Acquiring, Granted, Goto, Store, Delete, Overwrite, BeginRelease, Aborted, Rejected,
        Connecting

\* Every variable keeps its type, in every reachable state.
LEMMA TypeInductive == Spec => []TypeOK
<1> USE LockAssumption
<1>1. Init => TypeOK
  <2> SUFFICES ASSUME Init PROVE TypeOK
    OBVIOUS
  <2>1. breach \in BOOLEAN
    BY Zenon DEF Init
  <2> QED
    BY <2>1 DEF Init, TypeOK
<1>2. TypeOK /\ [Next]_vars => TypeOK'
  <2> SUFFICES ASSUME TypeOK, [Next]_vars PROVE TypeOK'
    OBVIOUS
  <2> USE DEF TypeOK
  <2>1. CASE Tick
    <3>0. breach' \in BOOLEAN
      BY <2>1, Zenon DEF Tick, AgeKey
    <3>1. /\ lock' \in Proc \cup {None} /\ ttl' \in 0..LockTtl /\ breach' \in BOOLEAN
      BY <2>1, <3>0 DEF Tick, AgeKey
    <3>2. age' \in [Proc -> 0..ConnectTimeout] /\ due' \subseteq Proc
      BY <2>1 DEF Tick, AgeProcesses
    <3> QED
      BY <2>1, <3>1, <3>2 DEF Tick, AgeProcesses
  <2>2. ASSUME NEW p \in Proc, Acquire(p) \/ Live(p) PROVE TypeOK'
    <3>1. CASE StartAttempt(p) BY <3>1 DEF StartAttempt
    <3>2. CASE AcquireGet(p) BY <3>2 DEF AcquireGet
    <3>3. CASE AcquireDel(p) BY <3>3 DEF AcquireDel
    <3>4. CASE AcquireSetNx(p) BY <3>4 DEF AcquireSetNx
    <3>5. CASE AcquireReget(p) BY <3>5 DEF AcquireReget
    <3>6. CASE RenewGet(p) BY <3>6 DEF RenewGet
    <3>7. CASE RenewSet(p) BY <3>7 DEF RenewSet
    <3>8. CASE Open(p) BY <3>8 DEF Open
    <3>9. CASE Fail(p) BY <3>9 DEF Fail
    <3>10. CASE Restart(p) BY <3>10 DEF Restart
    <3>11. CASE Abort(p) BY <3>11 DEF Abort
    <3>12. CASE LooseOpens(p) BY <3>12 DEF LooseOpens
    <3>13. CASE LooseEnds(p) BY <3>13 DEF LooseEnds
    <3>14. CASE DropKeepingLock(p) BY <3>14 DEF DropKeepingLock
    <3>15. CASE KeepAliveGet(p) BY <3>15 DEF KeepAliveGet
    <3>16. CASE KeepAliveSet(p) BY <3>16 DEF KeepAliveSet
    <3>17. CASE ReleaseGet(p) BY <3>17 DEF ReleaseGet
    <3>18. CASE ReleaseDel(p) BY <3>18 DEF ReleaseDel
    <3>19. CASE Crash(p) BY <3>19 DEF Crash
    <3> QED
      BY <2>2, <3>1, <3>2, <3>3, <3>4, <3>5, <3>6, <3>7, <3>8, <3>9, <3>10,
         <3>11, <3>12, <3>13, <3>14, <3>15, <3>16, <3>17, <3>18, <3>19 DEF
         Acquire, Live
  <2>3. CASE UNCHANGED vars
    BY <2>3 DEF vars
  <2> QED
    BY <2>1, <2>2, <2>3 DEF Next
<1> QED
  BY <1>1, <1>2, PTL DEF Spec

-------------------------------------------------------------------------
(* A step disturbs the agreement of the key with what the processes rely   *)
(* on only by recording a breach.                                          *)

\* A breach is history: no step forgets one.
LEMMA BreachGrows == TypeOK /\ [Next]_vars => (breach => breach')
<1> SUFFICES ASSUME TypeOK, [Next]_vars, breach PROVE breach'
  OBVIOUS
<1> USE DEF TypeOK
<1>1. CASE Tick
  BY <1>1 DEF Tick, AgeKey
<1>2. ASSUME NEW p \in Proc, Acquire(p) PROVE breach'
  BY <1>2 DEF Acquire, StartAttempt, AcquireGet, AcquireDel, AcquireSetNx, AcquireReget,
     RenewGet, RenewSet
<1>3. ASSUME NEW p \in Proc, Live(p) PROVE breach'
  BY <1>3 DEF Live, Open, Fail, Restart, Abort, LooseOpens, LooseEnds, DropKeepingLock,
     KeepAliveGet, KeepAliveSet, ReleaseGet, ReleaseDel, Crash
<1>4. CASE UNCHANGED vars
  BY <1>4 DEF vars
<1> QED
  BY <1>1, <1>2, <1>3, <1>4 DEF Next

\* Without a breach, a process that relies on the key still has it.
LEMMA GrantedInductive == Spec => []GrantedHolds
<1> USE LockAssumption
<1>1. Init => GrantedHolds
  BY DEF Init, GrantedHolds, Relies
<1>2. TypeOK /\ GrantedHolds /\ [Next]_vars => GrantedHolds'
  <2> SUFFICES ASSUME TypeOK, GrantedHolds, [Next]_vars, ~breach',
                      NEW q \in Proc, Relies(q)'
               PROVE  lock' = q
    BY DEF GrantedHolds
  <2>0. ~breach /\ \A r \in Proc : Relies(r) => lock = r
    BY BreachGrows DEF GrantedHolds
  <2> USE <2>0 DEF TypeOK, Relies
  <2>1. CASE Tick
    BY <2>1 DEF Tick, AgeKey, AgeProcesses
  <2>2. ASSUME NEW p \in Proc, Acquire(p) \/ Live(p) PROVE lock' = q
    <3>1. CASE StartAttempt(p) BY <3>1 DEF StartAttempt
    <3>2. CASE AcquireGet(p) BY <3>2 DEF AcquireGet
    <3>3. CASE AcquireDel(p)
      <4>1. Relies(q)
        BY <3>3 DEF AcquireDel
      <4>2. lock = q /\ q # None
        BY <4>1
      <4> QED
        BY <3>3, <4>1, <4>2, Zenon DEF AcquireDel
    <3>4. CASE AcquireSetNx(p) BY <3>4 DEF AcquireSetNx
    <3>5. CASE AcquireReget(p) BY <3>5 DEF AcquireReget
    <3>6. CASE RenewGet(p) BY <3>6 DEF RenewGet
    <3>7. CASE RenewSet(p) BY <3>7 DEF RenewSet
    <3>8. CASE Open(p) BY <3>8 DEF Open
    <3>9. CASE Fail(p) BY <3>9 DEF Fail
    <3>10. CASE Restart(p) BY <3>10 DEF Restart
    <3>11. CASE Abort(p) BY <3>11 DEF Abort
    <3>12. CASE LooseOpens(p) BY <3>12 DEF LooseOpens
    <3>13. CASE LooseEnds(p) BY <3>13 DEF LooseEnds
    <3>14. CASE DropKeepingLock(p) BY <3>14 DEF DropKeepingLock
    <3>15. CASE KeepAliveGet(p) BY <3>15 DEF KeepAliveGet
    <3>16. CASE KeepAliveSet(p) BY <3>16 DEF KeepAliveSet
    <3>17. CASE ReleaseGet(p) BY <3>17 DEF ReleaseGet
    <3>18. CASE ReleaseDel(p)
      <4>1. Relies(q)
        BY <3>18 DEF ReleaseDel
      <4>2. lock = q /\ q # None
        BY <4>1
      <4> QED
        BY <3>18, <4>1, <4>2, Zenon DEF ReleaseDel
    <3>19. CASE Crash(p) BY <3>19 DEF Crash
    <3> QED
      BY <2>2, <3>1, <3>2, <3>3, <3>4, <3>5, <3>6, <3>7, <3>8, <3>9, <3>10,
         <3>11, <3>12, <3>13, <3>14, <3>15, <3>16, <3>17, <3>18, <3>19 DEF
         Acquire, Live
  <2>3. CASE UNCHANGED vars
    BY <2>3 DEF vars
  <2> QED
    BY <2>1, <2>2, <2>3 DEF Next
<1> QED
  BY <1>1, <1>2, TypeInductive, PTL DEF Spec

\* The socket lock keeps its type: every reachable state is well formed.
THEOREM LockTypeCorrect == Spec => []TypeOK
BY TypeInductive

\* Two processes have a socket at once, in an attempt, in a session or
\* forgotten by the maps, only after a breach: the key of a process relying on
\* it expired, was hit by the two commands of another, or was released by
\* itself while a socket of its own lived on.
THEOREM LockExcludesUnlessBreached == Spec => []ExclusiveUnlessBreached
<1>1. GrantedHolds => ExclusiveUnlessBreached
  BY DEF GrantedHolds, ExclusiveUnlessBreached, ExclusiveSocket, HasSocket, Relies
<1> QED
  BY <1>1, GrantedInductive, PTL

-------------------------------------------------------------------------
(* The lock implements SocketMutex: every step connects, disconnects or    *)
(* leaves the sockets alone, and connects only under the granted key.      *)

Sockets == {p \in Proc : HasSocket(p)}

\* The process whose step it is gains or loses a socket; nobody else does.
LEMMA OneAtATime ==
    ASSUME TypeOK, [Next]_vars
    PROVE  \/ Sockets' = Sockets
           \/ \E p \in Proc : Sockets' = Sockets \cup {p} \/ Sockets' = Sockets \ {p}
<1> USE DEF TypeOK, Sockets, HasSocket
<1>1. CASE Tick \/ UNCHANGED vars
  BY <1>1 DEF Tick, AgeProcesses, vars
<1>2. ASSUME NEW p \in Proc, Acquire(p) \/ Live(p)
      PROVE  \A q \in Proc \ {p} : HasSocket(q)' <=> HasSocket(q)
  <2>1. CASE Acquire(p)
    BY <2>1 DEF Acquire, StartAttempt, AcquireGet, AcquireDel, AcquireSetNx, AcquireReget,
       RenewGet, RenewSet
  <2>2. CASE Live(p)
    BY <2>2 DEF Live, Open, Fail, Restart, Abort, LooseOpens, LooseEnds, DropKeepingLock,
       KeepAliveGet, KeepAliveSet, ReleaseGet, ReleaseDel, Crash
  <2> QED
    BY <1>2, <2>1, <2>2
<1>3. ASSUME NEW p \in Proc, Acquire(p) \/ Live(p)
      PROVE  Sockets' = Sockets \cup {p} \/ Sockets' = Sockets \ {p}
  <2>1. CASE HasSocket(p)'
    <3>1. Sockets' = Sockets \cup {p}
      BY <1>2, <1>3, <2>1
    <3> QED
      BY <3>1
  <2>2. CASE ~HasSocket(p)'
    <3>1. Sockets' = Sockets \ {p}
      BY <1>2, <1>3, <2>2
    <3> QED
      BY <3>1
  <2> QED
    BY <2>1, <2>2
<1> QED
  BY <1>1, <1>3 DEF Next

\* The lock implements the promise of one socket at a time, for any number
\* of processes, any TTL and any time limit.
THEOREM LockImplementsMutex == Spec => ImplementsMutex
<1>1. Init => Mutex!Init
  BY DEF Init, Mutex!Init, HasSocket
<1>2. TypeOK /\ TypeOK' /\ GrantedHolds' /\ [Next]_vars
        => [Mutex!Next]_<<{p \in Proc : HasSocket(p)}, breach>>
  <2> SUFFICES ASSUME TypeOK, TypeOK', GrantedHolds', [Next]_vars
               PROVE  [Mutex!Next]_<<{p \in Proc : HasSocket(p)}, breach>>
    OBVIOUS
  <2>1. breach => breach'
    BY BreachGrows
  <2>2. ~breach' => \A p, q \in Sockets' : p = q
    BY DEF GrantedHolds, Sockets, HasSocket, Relies
  <2>3. CASE Sockets' = Sockets
    <3>1. CASE breach' = breach
      BY <2>3, <3>1 DEF Sockets
    <3>2. CASE ~breach /\ breach'
      BY <2>3, <3>2 DEF Sockets, Mutex!Next, Mutex!Break
    <3>3. breach \in BOOLEAN /\ breach' \in BOOLEAN
      BY Zenon DEF TypeOK
    <3>4. breach' = breach \/ (~breach /\ breach')
      BY <2>1, <3>3, Zenon
    <3> QED
      BY <3>1, <3>2, <3>4, Zenon
  <2>4. ASSUME NEW p \in Proc, Sockets' = Sockets \cup {p}
        PROVE  Mutex!Next
    <3>1. Sockets \subseteq {p} \/ breach'
      BY <2>2, <2>4
    <3>2. Mutex!Connect(p)
      BY <2>4, <3>1 DEF Sockets, Mutex!Connect
    <3> QED
      BY <2>1, <3>2 DEF Mutex!Next
  <2>5. ASSUME NEW p \in Proc, Sockets' = Sockets \ {p}
        PROVE  Mutex!Next
    <3>1. Mutex!Disconnect(p)
      BY <2>5 DEF Sockets, Mutex!Disconnect
    <3> QED
      BY <2>1, <3>1 DEF Mutex!Next
  <2> QED
    BY <2>3, <2>4, <2>5, OneAtATime
<1> QED
  BY <1>1, <1>2, TypeInductive, GrantedInductive, PTL DEF Spec, ImplementsMutex, Mutex!Spec
=========================================================================
