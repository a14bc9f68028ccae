--------------------------- MODULE WaSocketLock ---------------------------
(***************************************************************************)
(* The Redis lock that is meant to leave one WhatsApp socket per client     *)
(* on a machine (utils/wa-session-lock.ts), together with the part of       *)
(* WhatsAppService that takes it, keeps it and gives it up.  One key, of    *)
(* one client; every Redis command is a step of its own, so the commands    *)
(* of several processes interleave.  Time advances in ticks of 30 seconds,  *)
(* the keep-alive period.                                                   *)
(***************************************************************************)
EXTENDS Naturals, FiniteSets

CONSTANTS
    Proc,            \* process ids; a restarted process has a new one
    None,            \* the key does not exist
    LockTtl,         \* LOCK_TTL_SEC in ticks
    ConnectTimeout   \* the time limit of one connection attempt, in ticks

ASSUME LockAssumption ==
    /\ None \notin Proc
    /\ LockTtl \in Nat \ {0}
    /\ ConnectTimeout \in Nat \ {0}

VARIABLES
    lock,     \* the pid stored under the key, or None
    ttl,      \* ticks left before Redis drops the key
    alive,    \* the processes that run (process.kill(pid, 0) finds them)
    attempt,  \* where each process is in createWhatsAppSession
    age,      \* ticks since the socket of the attempt was made
    session,  \* the processes with an open session in the maps
    loose,    \* the processes with a live socket that the maps do not know
    release,  \* where each process is in releaseWaSocketLock
    due,      \* the keep-alive timer of an open session has fired
    renewing, \* a keep-alive read its own lock and has yet to write it back
    breach    \* history: the key was lost while its holder relied on it

vars == <<lock, ttl, alive, attempt, age, session, loose, release, due, renewing, breach>>

Acquiring == {"get", "del", "setnx", "reget"}
Granted   == {"renewGet", "renewSet", "connecting"}

TypeOK ==
    /\ lock \in Proc \cup {None}
    /\ ttl \in 0..LockTtl
    /\ alive \subseteq Proc
    /\ attempt \in [Proc -> {"off"} \cup Acquiring \cup Granted]
    /\ age \in [Proc -> 0..ConnectTimeout]
    /\ session \subseteq Proc /\ loose \subseteq Proc
    /\ release \in [Proc -> {"none", "get", "del"}]
    /\ due \subseteq Proc /\ renewing \subseteq Proc
    /\ breach \in BOOLEAN

Init ==
    /\ lock = None /\ ttl = 0
    /\ alive = Proc
    /\ attempt = [p \in Proc |-> "off"] /\ age = [p \in Proc |-> 0]
    /\ session = {} /\ loose = {}
    /\ release = [p \in Proc |-> "none"]
    /\ due = {} /\ renewing = {}
    /\ breach = FALSE

\* A process has a Baileys socket: of its attempt, of its session, or one that
\* the maps have forgotten.
HasSocket(p) == attempt[p] = "connecting" \/ p \in session \cup loose

\* From the moment acquireWaSocketLock is bound to answer true.
Relies(p) == attempt[p] \in Granted \/ p \in session \cup loose

---------------------------------------------------------------------------
(* Effects of Redis commands on the key.                                   *)

\* SETEX / SET NX by p: the key is p's for a full TTL.
Store(p) == lock' = p /\ ttl' = LockTtl

\* DEL, whoever's key it is by now.
Delete ==
    /\ lock' = None /\ ttl' = 0
    /\ breach' = (breach \/ (lock # None /\ Relies(lock)))

Overwrite(p) ==
    /\ Store(p)
    /\ breach' = (breach \/ (lock \notin {None, p} /\ Relies(lock)))

---------------------------------------------------------------------------
(* What becomes of a session.                                              *)

Goto(p, step) ==
    /\ attempt' = [attempt EXCEPT ![p] = step]
    /\ age' = [age EXCEPT ![p] = 0]

BeginRelease(p) ==
    /\ release[p] = "none"
    /\ release' = [release EXCEPT ![p] = "get"]

\* abortClientConnection: it ends the socket of the session only.  An attempt
\* under way is forgotten, its socket lives, and the lock is released.
Aborted(p, left) ==
    /\ session' = session \ {p} /\ due' = due \ {p}
    /\ IF attempt[p] = "connecting"
         THEN Goto(p, "off") /\ loose' = left \cup {p}
         ELSE loose' = left /\ UNCHANGED <<attempt, age>>
    /\ BeginRelease(p)

\* The .catch of createWhatsAppSession: it aborts unless there is a session.
Rejected(p) ==
    /\ Goto(p, "off")
    /\ IF p \in session THEN UNCHANGED release ELSE BeginRelease(p)

\* The lock is granted: a session opened meanwhile is ended, a socket made.
Connecting(p) ==
    /\ Goto(p, "connecting")
    /\ session' = session \ {p} /\ due' = due \ {p}

---------------------------------------------------------------------------
(* Taking the lock.                                                        *)

\* createWhatsAppSession with no session and no attempt under way.  The
\* 20 second wait only delays the attempt: it goes on whatever it saw.
StartAttempt(p) ==
    /\ p \in alive \ session
    /\ attempt[p] = "off"
    /\ Goto(p, "get")
    /\ UNCHANGED <<lock, ttl, alive, session, loose, release, due, renewing, breach>>

AcquireGet(p) ==
    /\ attempt[p] = "get"
    /\ \/ lock \in {None, p} /\ Goto(p, "setnx") /\ UNCHANGED release
       \/ lock \notin alive \cup {None} /\ Goto(p, "del") /\ UNCHANGED release
       \/ lock \in alive \ {p} /\ Rejected(p)
    /\ UNCHANGED <<lock, ttl, alive, session, loose, due, renewing, breach>>

\* The orphan is removed by key: not only the value that was read.
AcquireDel(p) ==
    /\ attempt[p] = "del"
    /\ Delete
    /\ Goto(p, "setnx")
    /\ UNCHANGED <<alive, session, loose, release, due, renewing>>

\* Mutant: SET without NX.
AcquireSetAlways(p) ==
    /\ attempt[p] = "setnx"
    /\ Store(p)
    /\ Connecting(p)
    /\ UNCHANGED <<alive, loose, release, renewing, breach>>

AcquireSetNx(p) ==
    /\ attempt[p] = "setnx"
    /\ \/ lock = None /\ Store(p) /\ Connecting(p)
       \/ lock # None /\ Goto(p, "reget") /\ UNCHANGED <<lock, ttl, session, due>>
    /\ UNCHANGED <<alive, loose, release, renewing, breach>>

AcquireReget(p) ==
    /\ attempt[p] = "reget"
    /\ \/ lock = p /\ Goto(p, "renewGet") /\ UNCHANGED release
       \/ lock # p /\ Rejected(p)
    /\ UNCHANGED <<lock, ttl, alive, session, loose, due, renewing, breach>>

\* renewWaSocketLock inside the acquire; its outcome is not looked at.
RenewGet(p) ==
    /\ attempt[p] = "renewGet"
    /\ \/ lock = p /\ Goto(p, "renewSet") /\ UNCHANGED <<session, due>>
       \/ lock # p /\ Connecting(p)
    /\ UNCHANGED <<lock, ttl, alive, loose, release, renewing, breach>>

RenewSet(p) ==
    /\ attempt[p] = "renewSet"
    /\ Overwrite(p)
    /\ Connecting(p)
    /\ UNCHANGED <<alive, loose, release, renewing>>

---------------------------------------------------------------------------
(* A session's life.                                                       *)

\* connection.update "open": the event handlers and the keep-alive are set
\* up.  A session that is replaced in the map lives on.
Open(p) ==
    /\ attempt[p] = "connecting"
    /\ Goto(p, "off")
    /\ session' = session \cup {p} /\ due' = due \ {p}
    /\ loose' = IF p \in session THEN loose \cup {p} ELSE loose
    /\ UNCHANGED <<lock, ttl, alive, release, renewing, breach>>

\* The attempt ends its socket: the time limit, the QR limit; or its socket is
\* closed with 440 or 401, which also aborts whatever session there is.
Fail(p) ==
    /\ attempt[p] = "connecting"
    /\ \/ Rejected(p) /\ UNCHANGED <<session, due>>
       \/ /\ Goto(p, "off") /\ BeginRelease(p)
          /\ session' = session \ {p} /\ due' = due \ {p}
    /\ UNCHANGED <<lock, ttl, alive, loose, renewing, breach>>

\* Code 515 after a QR code was scanned: the socket is ended and another
\* attempt acquires the lock again.
Restart(p) ==
    /\ attempt[p] = "connecting"
    /\ Goto(p, IF p \in session THEN "off" ELSE "get")
    /\ UNCHANGED <<lock, ttl, alive, session, loose, release, due, renewing, breach>>

\* The panel asks for a new QR code or gives up waiting for one, an attempt
\* that 515 replaced reaches its limit, or a session is disconnected.
Abort(p) ==
    /\ p \in alive
    /\ Aborted(p, loose)
    /\ UNCHANGED <<lock, ttl, alive, renewing, breach>>

\* The socket of a forgotten attempt opens: it becomes the session.
LooseOpens(p) ==
    /\ p \in loose
    /\ session' = session \cup {p} /\ due' = due \ {p}
    /\ loose' = IF p \in session THEN loose ELSE loose \ {p}
    /\ UNCHANGED <<lock, ttl, alive, attempt, age, release, renewing, breach>>

\* It is closed, or reaches its limit: the .catch aborts what there is now.
LooseEnds(p) ==
    /\ p \in loose
    /\ \/ loose' = loose \ {p} /\ UNCHANGED <<attempt, age, session, release, due>>
       \/ p \notin session /\ Aborted(p, loose \ {p})
    /\ UNCHANGED <<lock, ttl, alive, renewing, breach>>

\* scheduleReconnect: the connection dropped and the timer will connect
\* again; the socket is gone, the lock is kept.
DropKeepingLock(p) ==
    /\ p \in session
    /\ session' = session \ {p} /\ due' = due \ {p}
    /\ UNCHANGED <<lock, ttl, alive, attempt, age, loose, release, renewing, breach>>

KeepAliveGet(p) ==
    /\ p \in session \cap due
    /\ due' = due \ {p}
    /\ renewing' = IF lock = p THEN renewing \cup {p} ELSE renewing
    /\ UNCHANGED <<lock, ttl, alive, attempt, age, session, loose, release, breach>>

\* Runs even if the session was closed and released since the read.
KeepAliveSet(p) ==
    /\ p \in renewing
    /\ renewing' = renewing \ {p}
    /\ Overwrite(p)
    /\ UNCHANGED <<alive, attempt, age, session, loose, release, due>>

ReleaseGet(p) ==
    /\ release[p] = "get"
    /\ release' = [release EXCEPT ![p] = IF lock \in {None, p} THEN "del" ELSE "none"]
    /\ UNCHANGED <<lock, ttl, alive, attempt, age, session, loose, due, renewing, breach>>

ReleaseDel(p) ==
    /\ release[p] = "del"
    /\ Delete
    /\ release' = [release EXCEPT ![p] = "none"]
    /\ UNCHANGED <<alive, attempt, age, session, loose, due, renewing>>

Crash(p) ==
    /\ p \in alive
    /\ alive' = alive \ {p}
    /\ Goto(p, "off")
    /\ session' = session \ {p} /\ loose' = loose \ {p}
    /\ release' = [release EXCEPT ![p] = "none"]
    /\ due' = due \ {p} /\ renewing' = renewing \ {p}
    /\ UNCHANGED <<lock, ttl, breach>>

\* Counting down the key's TTL; at its end Redis drops the key.
AgeKey ==
    \/ /\ ttl > 1
       /\ ttl' = ttl - 1
       /\ UNCHANGED <<lock, breach>>
    \/ /\ ttl <= 1
       /\ Delete

\* What 30 seconds do to the processes.
AgeProcesses ==
    /\ age' = [p \in Proc |-> IF attempt[p] = "connecting" THEN age[p] + 1 ELSE age[p]]
    /\ due' = session
    /\ UNCHANGED <<alive, attempt, session, loose, release, renewing>>

\* Mutant: an attempt has no time limit.
TickPastLimit ==
    /\ due = {} /\ renewing = {}
    /\ AgeProcesses
    /\ AgeKey

\* Mutant: the key is stored without a TTL.
TickNoTtl ==
    /\ \A p \in Proc : attempt[p] = "connecting" => age[p] < ConnectTimeout
    /\ due = {} /\ renewing = {}
    /\ AgeProcesses
    /\ UNCHANGED <<lock, ttl, breach>>

\* 30 seconds pass.  No attempt outlives its time limit, and no keep-alive
\* takes longer than its period.
Tick ==
    /\ \A p \in Proc : attempt[p] = "connecting" => age[p] < ConnectTimeout
    /\ due = {} /\ renewing = {}
    /\ AgeProcesses
    /\ AgeKey

Acquire(p) ==
    \/ StartAttempt(p)
    \/ AcquireGet(p) \/ AcquireDel(p) \/ AcquireSetNx(p) \/ AcquireReget(p)
    \/ RenewGet(p) \/ RenewSet(p)

Live(p) ==
    \/ Open(p) \/ Fail(p) \/ Restart(p) \/ Abort(p) \/ LooseOpens(p) \/ LooseEnds(p)
    \/ DropKeepingLock(p) \/ KeepAliveGet(p) \/ KeepAliveSet(p)
    \/ ReleaseGet(p) \/ ReleaseDel(p) \/ Crash(p)

Next == Tick \/ \E p \in Proc : Acquire(p) \/ Live(p)

Spec == Init /\ [][Next]_vars

\* Time passes, the Redis commands of a keep-alive and of a release are
\* answered, and an attempt ends, by its own time limit at the latest.
\* Nothing obliges a process to connect, to abort or to crash.
Fairness ==
    /\ WF_vars(Tick)
    /\ \A p \in Proc : /\ WF_vars(Open(p) \/ Fail(p) \/ Restart(p))
                       /\ WF_vars(KeepAliveGet(p)) /\ WF_vars(KeepAliveSet(p))
                       /\ WF_vars(ReleaseGet(p)) /\ WF_vars(ReleaseDel(p))

FairSpec == Spec /\ Fairness

---------------------------------------------------------------------------
(* Properties.                                                             *)

Mutex == INSTANCE SocketMutex WITH open   <- {p \in Proc : HasSocket(p)},
                                   broken <- breach

\* acquire, renew and release implement the promise of one socket at a time,
\* as far as no breach has broken it: a process connects only while no other
\* has a socket, whatever the order of the Redis commands.
ImplementsMutex == Mutex!Spec

\* At most one process has a socket for the client: what the comment above
\* acquireWaSocketLock promises ("Toma lock exclusivo da socket WA").
ExclusiveSocket == \A p, q \in Proc : HasSocket(p) /\ HasSocket(q) => p = q

\* The protocol's own guards are enough for exclusion: two sockets exist
\* only after the key of a process relying on it expired, was deleted or
\* overwritten by another's two commands, or was released by the process
\* itself while a socket of its own, connecting or forgotten, lived on.
ExclusiveUnlessBreached == ~breach => ExclusiveSocket

\* A process that relies on the lock finds its own pid under the key, until
\* a breach: the invariant behind the exclusion.
GrantedHolds == ~breach => \A p \in Proc : Relies(p) => lock = p

\* A key left behind by a dead process is always reclaimed, by the TTL or by
\* the orphan check, so that a crash never locks a client out for good.
OrphanReclaimed == (lock # None /\ lock \notin alive) ~> (lock \in alive \cup {None})
===========================================================================
