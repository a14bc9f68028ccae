--------------------------- MODULE WaSessionProofs ---------------------------
(***************************************************************************)
(* The maps of the session keep their types, and as long as they drop       *)
(* nothing that goes on, no two sockets of the client are up at once, for   *)
(* any number of attempts and any limit of reconnections.                   *)
(***************************************************************************)
EXTENDS WaSession, TLAPS

Known == Socket \cup {None}
Sock  == [ up: BOOLEAN, step: Steps, waiters: SUBSET Waiter, next: Known ]
Wa    == [ session: Known, creating: Known, connecting: BOOLEAN, reconnecting: BOOLEAN,
           timer: 0..Abandon, attempts: 0..Abandon, cool: 0..2, manual: BOOLEAN,
           stray: BOOLEAN, sock: [Socket -> Sock] ]

\* Unless the maps dropped something, an attempt under way is the one they
\* know and there is no session meanwhile, and a socket that is up is that of
\* the attempt or that of the session.
Calm(session, creating, stray, sock) ==
    /\ \A s \in Socket : sock[s].next # None => sock[s].step = "restart"
    /\ \/ stray
       \/ \A s \in Socket :
            /\ sock[s].step \in {"lock", "connect"} => creating = s /\ session = None
            /\ sock[s].up => sock[s].step = "connect" \/ session = s

Good(w) == w \in Wa /\ Calm(w.session, w.creating, w.stray, w.sock)

IInv ==
    /\ Good(wa) /\ panel \in {"idle", "start", "wait", "again"}
    /\ scan \in BOOLEAN /\ creds \in BOOLEAN

---------------------------------------------------------------------------
(* Sockets.                                                                *)

\* The limits, as far as the proofs need them.
LEMMA Bounds ==
    /\ Abandon \in Nat /\ 0 \in 0..Abandon /\ 1 \in 0..Abandon /\ None \notin Socket
    /\ 0 \in 0..2 /\ 2 \in 0..2 /\ None \in Known
BY SessionAssumption DEF Known

\* A socket nobody uses.
LEMMA NoSocketTyped ==
    /\ NoSocket \in Sock /\ ~NoSocket.up /\ NoSocket.step = "none" /\ NoSocket.next = None
<1>1. "none" \in Steps /\ {} \in SUBSET Waiter /\ FALSE \in BOOLEAN
  BY DEF Steps
<1>2. NoSocket \in Sock
  BY Zenon, <1>1, Bounds DEF NoSocket, Sock
<1> QED
  BY <1>2 DEF NoSocket

\* The parts of the maps.
LEMMA Parts ==
    ASSUME NEW w \in Wa
    PROVE  /\ w.session \in Known /\ w.creating \in Known /\ w.connecting \in BOOLEAN
           /\ w.reconnecting \in BOOLEAN /\ w.timer \in 0..Abandon
           /\ w.attempts \in 0..Abandon /\ w.cool \in 0..2 /\ w.manual \in BOOLEAN
           /\ w.stray \in BOOLEAN /\ w.sock \in [Socket -> Sock]
BY Zenon DEF Wa

---------------------------------------------------------------------------
(* What the helpers do.                                                    *)

\* What every helper keeps, besides the sockets' steps.
Keeps(w, v) ==
    /\ v \in Wa
    /\ w.stray => v.stray
    /\ \A s \in Socket : /\ v.sock[s].step = w.sock[s].step /\ v.sock[s].next = w.sock[s].next
                         /\ v.sock[s].up => w.sock[s].up

\* Only the maps that speak of no socket change.
Quiet(w, v) ==
    /\ v \in Wa /\ v.session = w.session /\ v.creating = w.creating /\ v.stray = w.stray
    /\ v.sock = w.sock

\* Which keeps everything.
LEMMA QuietGood ==
    ASSUME NEW w, NEW v, Good(w), Quiet(w, v)
    PROVE  Good(v) /\ Keeps(w, v)
BY DEF Good, Quiet, Keeps

\* cancelScheduledReconnect.
LEMMA CancelledQuiet ==
    ASSUME NEW w \in Wa
    PROVE  /\ Quiet(w, Cancelled(w)) /\ Cancelled(w).manual = w.manual
           /\ Cancelled(w).cool = 0 /\ Cancelled(w).attempts = 0
<1> DEFINE v == [w EXCEPT !.timer = 0, !.attempts = 0, !.cool = 0]
<1>1. v \in Wa
  BY Zenon, Bounds DEF Wa
<1>2. v.session = w.session /\ v.creating = w.creating /\ v.stray = w.stray /\ v.sock = w.sock
      /\ v.manual = w.manual /\ v.cool = 0 /\ v.attempts = 0
  BY Zenon DEF Wa
<1> HIDE DEF v
<1>3. Cancelled(w) = v
  BY DEF Cancelled, v
<1> QED
  BY <1>1, <1>2, <1>3 DEF Quiet

\* scheduleReconnect, but for the attempt it would give up at.
LEMMA ScheduledGood ==
    ASSUME NEW w, Good(w), w.cool = 2 \/ w.attempts < Abandon
    PROVE  Good(Scheduled(w)) /\ Keeps(w, Scheduled(w)) /\ Scheduled(w).sock = w.sock
           /\ Scheduled(w).manual = w.manual
<1>1. w \in Wa /\ w.attempts \in 0..Abandon /\ w.stray \in BOOLEAN
  BY Parts DEF Good
<1>2. CASE w.cool = 2
  BY <1>1, <1>2 DEF Scheduled, Keeps
<1>3. CASE w.cool # 2
  <2> DEFINE a == w.attempts + 1
             t == w.stray \/ Live(w)
             v == [w EXCEPT !.cool = 2, !.attempts = a, !.timer = a, !.session = None,
                            !.stray = t]
  <2>1. a \in 0..Abandon
    BY <1>1, <1>3, Bounds
  <2>2. t \in BOOLEAN
    BY Zenon
  <2> HIDE DEF a, t
  <2>3. v \in Wa
    BY Zenon, <1>1, <2>1, <2>2, Bounds DEF Wa
  <2>4. v.session = None /\ v.creating = w.creating /\ v.stray = t /\ v.sock = w.sock
        /\ v.manual = w.manual
    BY Zenon, <1>1 DEF Wa
  <2> HIDE DEF v
  <2>5. Scheduled(w) = v
    BY <1>3 DEF Scheduled, v, a, t
  <2>6. (w.stray => v.stray) /\ (~v.stray => ~w.stray /\ ~Live(w))
    BY Zenon, <2>4 DEF t
  <2>7. Calm(v.session, v.creating, v.stray, v.sock)
    BY <2>4, <2>6 DEF Good, Calm, Live
  <2> QED
    BY <2>3, <2>4, <2>5, <2>6, <2>7 DEF Good, Keeps
<1> QED
  BY <1>2, <1>3

\* A socket ends.
LEMMA Downed ==
    ASSUME NEW w, Good(w), NEW s \in Socket
    PROVE  LET v == [w EXCEPT !.sock[s].up = FALSE] IN
           /\ Good(v) /\ Keeps(w, v) /\ ~v.sock[s].up
           /\ v.session = w.session /\ v.creating = w.creating /\ v.stray = w.stray
           /\ v.manual = w.manual
           /\ \A t \in Socket \ {s} : v.sock[t] = w.sock[t]
<1> DEFINE j == [w.sock[s] EXCEPT !.up = FALSE]
           k == [w.sock EXCEPT ![s] = j]
           v == [w EXCEPT !.sock = k]
<1>1. w \in Wa /\ w.sock \in [Socket -> Sock] /\ w.sock[s] \in Sock
  BY Parts DEF Good
<1>2. FALSE \in BOOLEAN
  OBVIOUS
<1>3. j \in Sock /\ j.up = FALSE /\ j.step = w.sock[s].step /\ j.next = w.sock[s].next
  BY Zenon, <1>1, <1>2 DEF Sock
<1> HIDE DEF j
<1>4. k \in [Socket -> Sock] /\ k[s] = j /\ \A t \in Socket \ {s} : k[t] = w.sock[t]
  BY <1>1, <1>3
<1> HIDE DEF k
<1>5. v \in Wa
  BY Zenon, <1>1, <1>4 DEF Wa
<1>6. v.session = w.session /\ v.creating = w.creating /\ v.stray = w.stray /\ v.sock = k
      /\ v.manual = w.manual
  BY Zenon, <1>1 DEF Wa
<1>7. [w EXCEPT !.sock[s].up = FALSE] = v
  BY DEF k, j
<1> HIDE DEF v
<1>8. Keeps(w, v)
  BY <1>3, <1>4, <1>5, <1>6 DEF Keeps
<1>9. Calm(v.session, v.creating, v.stray, v.sock)
  BY <1>3, <1>4, <1>6 DEF Good, Calm
<1> QED
  BY <1>3, <1>4, <1>5, <1>6, <1>7, <1>8, <1>9 DEF Good

\* abortActiveSession.
LEMMA AbortedGood ==
    ASSUME NEW w, Good(w)
    PROVE  Good(Aborted(w)) /\ Keeps(w, Aborted(w)) /\ Aborted(w).session = None
           /\ Aborted(w).creating = None
<1>1. w \in Wa /\ w.session \in Known
  BY Parts DEF Good
<1> DEFINE closed == IF w.session = None THEN w ELSE [w EXCEPT !.sock[w.session].up = FALSE]
           rearmed == Live(w) /\ ~w.manual /\ ~w.reconnecting
           base == IF rearmed THEN Scheduled(Cancelled(closed)) ELSE Cancelled(closed)
           dropped == UnderWay(w) # {}
           t == base.stray \/ dropped
           v == [base EXCEPT !.session = None, !.creating = None, !.connecting = FALSE,
                             !.reconnecting = FALSE, !.stray = t]
<1>2. Good(closed) /\ Keeps(w, closed) /\ \A s \in Socket : closed.sock[s].up => s # w.session
  <2>1. CASE w.session = None
    BY <1>1, <2>1, Bounds DEF Keeps, Good
  <2>2. CASE w.session # None
    <3>1. w.session \in Socket
      BY <1>1, <2>2 DEF Known
    <3>2. closed = [w EXCEPT !.sock[w.session].up = FALSE]
      BY <2>2
    <3> HIDE DEF closed
    <3> QED
      BY <3>1, <3>2, Downed
  <2> QED
    BY <2>1, <2>2
<1> HIDE DEF closed
<1>3. Quiet(closed, Cancelled(closed)) /\ Cancelled(closed).attempts = 0
  BY <1>2, CancelledQuiet DEF Good
<1>4. Good(Cancelled(closed)) /\ Keeps(closed, Cancelled(closed))
      /\ Cancelled(closed).sock = closed.sock
  BY <1>2, <1>3, QuietGood DEF Quiet
<1>5. Good(base) /\ Keeps(Cancelled(closed), base) /\ base.sock = closed.sock
  <2>1. 0 < Abandon
    BY SessionAssumption
  <2>2. Good(Scheduled(Cancelled(closed))) /\ Keeps(Cancelled(closed), Scheduled(Cancelled(closed)))
        /\ Scheduled(Cancelled(closed)).sock = Cancelled(closed).sock
    BY <1>3, <1>4, <2>1, ScheduledGood
  <2>3. Keeps(Cancelled(closed), Cancelled(closed))
    BY <1>4 DEF Good, Keeps
  <2> QED
    BY <1>4, <2>2, <2>3
<1> HIDE DEF base, rearmed
<1>6. base \in Wa /\ (w.stray => base.stray)
  BY <1>2, <1>4, <1>5 DEF Good, Keeps
<1>7. t \in BOOLEAN /\ FALSE \in BOOLEAN
  BY Zenon
<1> HIDE DEF t
<1>8. v \in Wa
  BY Zenon, <1>6, <1>7, Bounds DEF Wa
<1>9. v.session = None /\ v.creating = None /\ v.stray = t /\ v.sock = base.sock
  BY Zenon, <1>6 DEF Wa
<1> HIDE DEF v
<1>10. Aborted(w) = v
  BY DEF Aborted, v, base, rearmed, closed, t, dropped
<1>11. (w.stray => v.stray) /\ (~v.stray => ~w.stray /\ UnderWay(w) = {})
  BY Zenon, <1>6, <1>9 DEF t, dropped
<1>12. \A s \in Socket : /\ v.sock[s].step = w.sock[s].step /\ v.sock[s].next = w.sock[s].next
                         /\ v.sock[s].up => w.sock[s].up /\ s # w.session
  BY <1>2, <1>5, <1>9 DEF Keeps
<1>13. Calm(v.session, v.creating, v.stray, v.sock)
  BY <1>9, <1>11, <1>12 DEF Good, Calm, UnderWay
<1> QED
  BY <1>8, <1>9, <1>10, <1>11, <1>12, <1>13 DEF Good, Keeps

\* scheduleReconnect with its limit.
LEMMA RetriedGood ==
    ASSUME NEW w, Good(w)
    PROVE  Good(Retried(w)) /\ Keeps(w, Retried(w))
<1>1. w.attempts \in 0..Abandon
  BY Parts DEF Good
<1>2. CASE w.cool # 2 /\ w.attempts = Abandon
  BY <1>2, AbortedGood DEF Retried
<1>3. CASE w.cool = 2 \/ w.attempts # Abandon
  <2>1. w.cool = 2 \/ w.attempts < Abandon
    BY <1>1, <1>3, Bounds
  <2> QED
    BY <1>3, <2>1, ScheduledGood DEF Retried
<1> QED
  BY <1>2, <1>3

\* The close handler.
LEMMA ClosedGood ==
    ASSUME NEW w, Good(w)
    PROVE  Good(Closed(w)) /\ Keeps(w, Closed(w))
<1>1. Keeps(w, w)
  BY DEF Good, Keeps
<1> QED
  BY <1>1, AbortedGood, RetriedGood DEF Closed

\* The maps that speak of no socket.
LEMMA QuietSet ==
    ASSUME NEW w \in Wa
    PROVE  /\ \A b \in BOOLEAN : Quiet(w, [w EXCEPT !.connecting = b])
           /\ \A b \in BOOLEAN : Quiet(w, [w EXCEPT !.reconnecting = b])
           /\ \A b \in BOOLEAN : Quiet(w, [w EXCEPT !.manual = b])
           /\ \A n \in 0..Abandon : Quiet(w, [w EXCEPT !.timer = n])
           /\ \A n \in 0..2 : Quiet(w, [w EXCEPT !.cool = n])
<1>1. \A b \in BOOLEAN : Quiet(w, [w EXCEPT !.connecting = b])
  BY Zenon DEF Quiet, Wa
<1>2. \A b \in BOOLEAN : Quiet(w, [w EXCEPT !.reconnecting = b])
  BY Zenon DEF Quiet, Wa
<1>3. \A b \in BOOLEAN : Quiet(w, [w EXCEPT !.manual = b])
  BY Zenon DEF Quiet, Wa
<1>4. \A n \in 0..Abandon : Quiet(w, [w EXCEPT !.timer = n])
  BY Zenon DEF Quiet, Wa
<1>5. \A n \in 0..2 : Quiet(w, [w EXCEPT !.cool = n])
  BY Zenon DEF Quiet, Wa
<1> QED
  BY <1>1, <1>2, <1>3, <1>4, <1>5

\* Those who await an attempt learn that it is through.
LEMMA ResolvedGood ==
    ASSUME NEW w, Good(w), NEW waiters
    PROVE  Good(Resolved(w, waiters)) /\ Quiet(w, Resolved(w, waiters))
<1>1. w \in Wa /\ w.attempts \in 0..Abandon
  BY Parts DEF Good
<1> DEFINE timers == waiters \ {ByPanel}
           c == w.connecting /\ ByPanel \notin waiters
           a == IF timers = {} THEN w.attempts ELSE 0
           r == w.reconnecting /\ timers = {}
           v == [w EXCEPT !.connecting = c, !.attempts = a, !.reconnecting = r]
<1>2. c \in BOOLEAN /\ r \in BOOLEAN
  BY Zenon
<1>3. a \in 0..Abandon
  BY <1>1, Bounds
<1>4. Resolved(w, waiters) = v
  BY DEF Resolved
<1> HIDE DEF c, a, r
<1>5. Quiet(w, v)
  BY Zenon, <1>1, <1>2, <1>3 DEF Quiet, Wa
<1> HIDE DEF v
<1> QED
  BY <1>4, <1>5, QuietGood

\* Or that it failed.
LEMMA RejectedGood ==
    ASSUME NEW w, Good(w), NEW waiters
    PROVE  Good(Rejected(w, waiters))
<1>1. w \in Wa
  BY DEF Good
<1> DEFINE timers == waiters \ {ByPanel}
           c == w.connecting /\ ByPanel \notin waiters
           quiet == [w EXCEPT !.connecting = c]
           late == \E n \in timers : n >= SoftAfter
           again == IF timers = {} THEN quiet
                    ELSE IF late THEN Aborted(quiet) ELSE Retried(quiet)
           r == again.reconnecting /\ timers = {}
           v == [again EXCEPT !.reconnecting = r]
<1>2. c \in BOOLEAN /\ r \in BOOLEAN
  BY Zenon
<1>3. Good(quiet)
  <2> HIDE DEF c
  <2>1. Quiet(w, quiet)
    BY <1>1, <1>2, QuietSet
  <2> HIDE DEF quiet
  <2> QED
    BY <2>1, QuietGood
<1>4. Rejected(w, waiters) = v
  BY DEF Rejected
<1> HIDE DEF quiet, late
<1>5. Good(again)
  BY <1>3, AbortedGood, RetriedGood
<1> HIDE DEF again, r
<1>6. Quiet(again, v)
  BY <1>2, <1>5, QuietSet DEF Good
<1> HIDE DEF v
<1> QED
  BY <1>4, <1>5, <1>6, QuietGood

\* Other sockets: those who waited for s to replace them wait no more, ...
LEMMA Unlinked ==
    ASSUME NEW w, Good(w), NEW s \in Socket
    PROVE  LET v == [ w EXCEPT !.sock = [ t \in Socket |->
                        IF t = s THEN NoSocket
                        ELSE IF w.sock[t].next = s THEN [w.sock[t] EXCEPT !.next = None]
                        ELSE w.sock[t] ] ]
           IN  Good(v) /\ v.sock[s].step = "none"
<1>1. w \in Wa /\ w.sock \in [Socket -> Sock]
  BY Parts DEF Good
<1> DEFINE j(t) == [w.sock[t] EXCEPT !.next = None]
           k == [ t \in Socket |-> IF t = s THEN NoSocket
                                   ELSE IF w.sock[t].next = s THEN j(t) ELSE w.sock[t] ]
           v == [w EXCEPT !.sock = k]
<1>2. ASSUME NEW t \in Socket
      PROVE  j(t) \in Sock /\ j(t).up = w.sock[t].up /\ j(t).step = w.sock[t].step
             /\ j(t).next = None
  <2>1. w.sock[t] \in Sock
    BY <1>1
  <2> QED
    BY Zenon, <2>1, Bounds DEF Sock
<1> HIDE DEF j
<1>3. k \in [Socket -> Sock]
  BY <1>1, <1>2, NoSocketTyped
<1>4. /\ k[s] = NoSocket
      /\ \A t \in Socket \ {s} : /\ k[t].up = w.sock[t].up /\ k[t].step = w.sock[t].step
                                 /\ k[t].next \in {w.sock[t].next, None}
  BY <1>2
<1> HIDE DEF k
<1>5. v \in Wa
  BY Zenon, <1>1, <1>3 DEF Wa
<1>6. v.session = w.session /\ v.creating = w.creating /\ v.stray = w.stray /\ v.sock = k
  BY Zenon, <1>1 DEF Wa
<1> HIDE DEF v
<1>7. Calm(v.session, v.creating, v.stray, v.sock)
  BY <1>4, <1>6, NoSocketTyped DEF Good, Calm
<1>8. Good(v) /\ v.sock[s].step = "none"
  BY <1>4, <1>5, <1>6, <1>7, NoSocketTyped DEF Good
<1> QED
  BY <1>8 DEF v, k, j

\* An attempt is rejected.
LEMMA FailedGood ==
    ASSUME NEW w, Good(w), NEW s \in Socket
    PROVE  Good(Failed(w, s))
<1> DEFINE ended == [ w EXCEPT !.sock = [ t \in Socket |->
                        IF t = s THEN NoSocket
                        ELSE IF w.sock[t].next = s THEN [w.sock[t] EXCEPT !.next = None]
                        ELSE w.sock[t] ] ]
           cleared == IF ended.session = None THEN Aborted(ended) ELSE ended
           c == IF cleared.creating = s THEN None ELSE cleared.creating
           dropped == [cleared EXCEPT !.creating = c]
<1>1. Good(ended) /\ ended.sock[s].step = "none"
  BY Zenon, Unlinked
<1>2. Failed(w, s) = Rejected(dropped, w.sock[s].waiters)
  BY DEF Failed
<1> HIDE DEF ended
<1>3. Good(cleared) /\ cleared.sock[s].step = "none"
  BY <1>1, AbortedGood DEF Keeps
<1> HIDE DEF cleared
<1>4. cleared \in Wa /\ c \in Known
  BY <1>3, Parts, Bounds DEF Good
<1> HIDE DEF c
<1>5. dropped \in Wa
  BY Zenon, <1>4 DEF Wa
<1>6. dropped.session = cleared.session /\ dropped.creating = c
      /\ dropped.stray = cleared.stray /\ dropped.sock = cleared.sock
  BY Zenon, <1>4 DEF Wa
<1> HIDE DEF dropped
<1>7. Calm(dropped.session, dropped.creating, dropped.stray, dropped.sock)
  BY <1>3, <1>6 DEF Good, Calm, c
<1>8. Good(dropped)
  BY <1>5, <1>7 DEF Good
<1> QED
  BY <1>2, <1>8, RejectedGood

\* A new attempt is made only when the maps know none and there is no session.
LEMMA FreshGood ==
    ASSUME NEW w, Good(w), w.creating = None, w.session = None,
           NEW waiters \in SUBSET Waiter, NEW v \in Fresh(w, waiters)
    PROVE  /\ Good(v) /\ v.session = None /\ v.creating \in Socket
           /\ \A t \in Socket : v.sock[t] = w.sock[t] \/ w.sock[t] = NoSocket
<1>1. w \in Wa /\ w.sock \in [Socket -> Sock]
  BY Parts DEF Good
<1>2. PICK s \in Socket :
         /\ w.sock[s] = NoSocket
         /\ v = [w EXCEPT !.creating = s,
                          !.sock[s] = [NoSocket EXCEPT !.step = "lock", !.waiters = waiters]]
  BY DEF Fresh
<1> DEFINE j == [NoSocket EXCEPT !.step = "lock", !.waiters = waiters]
           k == [w.sock EXCEPT ![s] = j]
<1>3. "lock" \in Steps /\ s \in Known
  BY DEF Steps, Known
<1>4. j \in Sock /\ j.up = NoSocket.up /\ j.step = "lock" /\ j.next = NoSocket.next
  <2>1. NoSocket \in Sock
    BY NoSocketTyped
  <2> QED
    BY Zenon, <1>3, <2>1 DEF Sock
<1>5. v = [w EXCEPT !.creating = s, !.sock = k]
  BY <1>2
<1> HIDE DEF j
<1>6. k \in [Socket -> Sock] /\ k[s] = j /\ \A t \in Socket \ {s} : k[t] = w.sock[t]
  BY <1>1, <1>4
<1> HIDE DEF k
<1>7. v \in Wa
  BY Zenon, <1>1, <1>3, <1>5, <1>6 DEF Wa
<1>8. v.session = w.session /\ v.creating = s /\ v.stray = w.stray /\ v.sock = k
  BY Zenon, <1>1, <1>5 DEF Wa
<1>9. Calm(v.session, v.creating, v.stray, v.sock)
  BY <1>4, <1>6, <1>8, NoSocketTyped, Bounds DEF Good, Calm
<1> QED
  BY <1>2, <1>6, <1>7, <1>8, <1>9 DEF Good

\* createWhatsAppSession.
LEMMA BegunGood ==
    ASSUME NEW w, Good(w), NEW waiters \in SUBSET Waiter, NEW v \in Begun(w, waiters)
    PROVE  Good(v)
<1>1. w \in Wa /\ w.creating \in Known /\ w.sock \in [Socket -> Sock]
  BY Parts DEF Good
<1>2. CASE w.creating # None
  <2> DEFINE s == w.creating
             y == w.sock[s].waiters \cup waiters
             j == [w.sock[s] EXCEPT !.waiters = y]
             k == [w.sock EXCEPT ![s] = j]
  <2>1. s \in Socket /\ w.sock[s] \in Sock
    BY <1>1, <1>2 DEF Known
  <2>2. y \in SUBSET Waiter
    BY <2>1 DEF Sock
  <2>3. v = [w EXCEPT !.sock = k]
    BY <1>2 DEF Begun
  <2> HIDE DEF y
  <2>4. j \in Sock /\ j.up = w.sock[s].up /\ j.step = w.sock[s].step /\ j.next = w.sock[s].next
    BY Zenon, <2>1, <2>2 DEF Sock
  <2> HIDE DEF j
  <2>5. k \in [Socket -> Sock] /\ k[s] = j /\ \A t \in Socket \ {s} : k[t] = w.sock[t]
    BY <1>1, <2>1, <2>4
  <2> HIDE DEF k
  <2>6. v \in Wa
    BY Zenon, <1>1, <2>3, <2>5 DEF Wa
  <2>7. v.session = w.session /\ v.creating = w.creating /\ v.stray = w.stray /\ v.sock = k
    BY Zenon, <1>1, <2>3 DEF Wa
  <2>8. Calm(v.session, v.creating, v.stray, v.sock)
    BY <2>1, <2>4, <2>5, <2>7 DEF Good, Calm
  <2> QED
    BY <2>6, <2>8 DEF Good
<1>3. CASE w.creating = None /\ w.session # None
  BY <1>3, ResolvedGood DEF Begun
<1>4. CASE w.creating = None /\ w.session = None
  BY <1>4, FreshGood DEF Begun
<1> QED
  BY <1>2, <1>3, <1>4

---------------------------------------------------------------------------
(* The panel, the timer and the scan.                                      *)

\* A request of the panel.
LEMMA ConnectGood ==
    ASSUME Good(wa), NEW request \in Requests, Connect(request)
    PROVE  Good(wa')
<1> DEFINE asked == [wa EXCEPT !.manual = FALSE]
           quiet == Cancelled(asked)
<1>1. FALSE \in BOOLEAN /\ wa \in Wa
  BY DEF Good
<1>2. Good(asked)
  <2>1. Quiet(wa, asked)
    BY <1>1, QuietSet
  <2> HIDE DEF asked
  <2> QED
    BY <2>1, QuietGood
<1> HIDE DEF asked
<1>3. Good(quiet)
  BY <1>2, CancelledQuiet, QuietGood DEF Good
<1> HIDE DEF quiet
<1>4. Good(Aborted(quiet))
  BY <1>3, AbortedGood
<1>5. wa' = asked \/ wa' = quiet \/ wa' = Aborted(quiet)
  BY Zenon DEF Connect, asked, quiet
<1> QED
  BY <1>2, <1>3, <1>4, <1>5

\* startConnectAndWaitForQr.
LEMMA StartGood ==
    ASSUME Good(wa), Start
    PROVE  Good(wa')
<1> DEFINE w == [wa EXCEPT !.connecting = TRUE]
<1>1. TRUE \in BOOLEAN /\ wa \in Wa
  BY DEF Good
<1>2. Good(w)
  <2>1. Quiet(wa, w)
    BY <1>1, QuietSet
  <2> HIDE DEF w
  <2> QED
    BY <2>1, QuietGood
<1>3. {ByPanel} \in SUBSET Waiter
  BY DEF Waiter
<1>4. wa' = wa \/ wa' \in Begun(w, {ByPanel})
  BY DEF Start
<1> HIDE DEF w
<1> QED
  BY <1>2, <1>3, <1>4, BegunGood

\* temporaryDisconnect.
LEMMA DisconnectGood ==
    ASSUME Good(wa), Disconnect
    PROVE  Good(wa')
<1> DEFINE told == [wa EXCEPT !.manual = TRUE]
           mid  == IF Live(told) THEN Aborted(told) ELSE told
<1>1. TRUE \in BOOLEAN /\ FALSE \in BOOLEAN /\ wa \in Wa
  BY DEF Good
<1>2. Good(told)
  <2>1. Quiet(wa, told)
    BY <1>1, QuietSet
  <2> HIDE DEF told
  <2> QED
    BY <2>1, QuietGood
<1>3. wa' = [mid EXCEPT !.session = None, !.connecting = FALSE]
  BY DEF Disconnect
<1> HIDE DEF told
<1>4. Good(mid) /\ ~Live(mid)
  BY <1>2, AbortedGood DEF Live
<1> HIDE DEF mid
<1>5. mid \in Wa
  BY <1>4 DEF Good
<1>6. wa' \in Wa
  BY Zenon, <1>1, <1>3, <1>5, Bounds DEF Wa
<1>7. wa'.session = None /\ wa'.creating = mid.creating /\ wa'.stray = mid.stray
      /\ wa'.sock = mid.sock
  BY Zenon, <1>3, <1>5 DEF Wa
<1>8. Calm(wa'.session, wa'.creating, wa'.stray, wa'.sock)
  BY <1>4, <1>7 DEF Good, Calm, Live
<1> QED
  BY <1>6, <1>8 DEF Good

\* disconnectSession.
LEMMA LogoutGood ==
    ASSUME Good(wa), Logout
    PROVE  Good(wa')
<1> DEFINE told == [wa EXCEPT !.manual = TRUE]
           mid  == IF Live(wa) THEN Aborted(told) ELSE wa
<1>1. TRUE \in BOOLEAN /\ FALSE \in BOOLEAN /\ wa \in Wa
  BY DEF Good
<1>2. Good(told)
  <2>1. Quiet(wa, told)
    BY <1>1, QuietSet
  <2> HIDE DEF told
  <2> QED
    BY <2>1, QuietGood
<1>3. wa' = [mid EXCEPT !.connecting = FALSE]
  BY DEF Logout
<1> HIDE DEF told
<1>4. Good(mid)
  BY <1>2, AbortedGood
<1> HIDE DEF mid
<1>5. Quiet(mid, wa')
  BY <1>1, <1>3, <1>4, QuietSet DEF Good
<1> QED
  BY <1>4, <1>5, QuietGood

\* purgeClientCompletely.
LEMMA PurgeGood ==
    ASSUME Good(wa), Purge
    PROVE  Good(wa')
<1> DEFINE told == [wa EXCEPT !.manual = TRUE]
<1>1. TRUE \in BOOLEAN /\ wa \in Wa
  BY DEF Good
<1>2. Good(told)
  <2>1. Quiet(wa, told)
    BY <1>1, QuietSet
  <2> HIDE DEF told
  <2> QED
    BY <2>1, QuietGood
<1>3. wa' = Aborted(Cancelled(told))
  BY DEF Purge
<1> HIDE DEF told
<1>4. Good(Cancelled(told))
  BY <1>2, CancelledQuiet, QuietGood DEF Good
<1> QED
  BY <1>3, <1>4, AbortedGood

\* The reconnection.
LEMMA TimerGood ==
    ASSUME Good(wa), TimerFires
    PROVE  Good(wa')
<1> DEFINE fired == [wa EXCEPT !.timer = 0]
           w     == [fired EXCEPT !.reconnecting = TRUE]
<1>1. TRUE \in BOOLEAN /\ wa \in Wa /\ wa.timer \in 0..Abandon /\ wa.timer # 0
  BY Parts DEF Good, TimerFires
<1>2. {wa.timer} \in SUBSET Waiter
  BY <1>1, Bounds DEF Waiter
<1>3. Good(fired)
  <2>1. Quiet(wa, fired)
    BY <1>1, Bounds, QuietSet
  <2> HIDE DEF fired
  <2> QED
    BY <2>1, QuietGood
<1>4. wa' = fired \/ wa' \in Begun(w, {wa.timer})
  BY DEF TimerFires
<1> HIDE DEF fired
<1>5. Good(w)
  <2>1. Quiet(fired, w)
    BY <1>1, <1>3, QuietSet DEF Good
  <2> HIDE DEF w
  <2> QED
    BY <1>3, <2>1, QuietGood
<1> HIDE DEF w
<1> QED
  BY <1>2, <1>3, <1>4, <1>5, BegunGood

\* ensurePersistedSessionsConnected.
LEMMA ScanGood ==
    ASSUME Good(wa), ScanGo
    PROVE  Good(wa')
<1> DEFINE w == [wa EXCEPT !.cool = 2]
<1>1. wa \in Wa
  BY DEF Good
<1>2. Good(w)
  <2>1. Quiet(wa, w)
    BY <1>1, Bounds, QuietSet
  <2> HIDE DEF w
  <2> QED
    BY <2>1, QuietGood
<1>3. {} \in SUBSET Waiter
  OBVIOUS
<1>4. wa' = wa \/ wa' = w \/ wa' \in Begun(w, {})
  BY DEF ScanGo
<1> HIDE DEF w
<1> QED
  BY <1>2, <1>3, <1>4, BegunGood

\* lastReconnectAt recedes.
LEMMA TickGood ==
    ASSUME Good(wa), Tick
    PROVE  Good(wa')
<1>1. wa \in Wa /\ wa.cool - 1 \in 0..2
  BY Parts DEF Good, Tick
<1>2. wa' = [wa EXCEPT !.cool = wa.cool - 1]
  BY DEF Tick
<1>3. Quiet(wa, wa')
  BY <1>1, <1>2, QuietSet
<1> QED
  BY <1>3, QuietGood

---------------------------------------------------------------------------
(* The attempts.                                                           *)

\* A session opened while the attempt waited for the lock can only be one that
\* the maps lost sight of.
LEMMA MakeGood ==
    ASSUME Good(wa), NEW s \in Socket, Make(s)
    PROVE  Good(wa')
<1> DEFINE stale == wa.session
           w     == [wa EXCEPT !.sock[stale].up = FALSE]
           free  == IF Live(wa) THEN Closed(w) ELSE wa
<1>1. wa.sock[s].step = "lock"
      /\ wa' = [free EXCEPT !.session = None, !.connecting = TRUE,
                            !.sock[s].up = TRUE, !.sock[s].step = "connect"]
  BY DEF Make
<1>2. Good(free) /\ Keeps(wa, free) /\ (~free.stray => free = wa)
  <2>1. CASE Live(wa)
    <3>1. stale \in Socket
      BY <2>1, Parts DEF Live, Good, Known
    <3>2. Good(w) /\ Keeps(wa, w)
      BY <3>1, Downed
    <3>3. wa.stray
      BY <1>1, <2>1, Bounds DEF Good, Calm, Live
    <3> HIDE DEF w
    <3>4. Good(Closed(w)) /\ Keeps(w, Closed(w))
      BY <3>2, ClosedGood
    <3> QED
      BY <2>1, <3>2, <3>3, <3>4 DEF Keeps, Good
  <2>2. CASE ~Live(wa)
    BY <2>2 DEF Keeps, Good
  <2> QED
    BY <2>1, <2>2
<1>3. ~free.stray => ~Live(wa)
  BY <1>1, <1>2, Bounds DEF Good, Calm, Live
<1> HIDE DEF free
<1> DEFINE j == [free.sock[s] EXCEPT !.up = TRUE, !.step = "connect"]
           k == [free.sock EXCEPT ![s] = j]
<1>4. free \in Wa /\ free.sock \in [Socket -> Sock] /\ free.sock[s] \in Sock
  BY <1>2, Parts DEF Good
<1>5. "connect" \in Steps /\ TRUE \in BOOLEAN
  BY DEF Steps
<1>6. j \in Sock /\ j.up = TRUE /\ j.step = "connect" /\ j.next = free.sock[s].next
  BY Zenon, <1>4, <1>5 DEF Sock
<1>7. wa' = [free EXCEPT !.session = None, !.connecting = TRUE, !.sock = k]
  BY <1>1, <1>4 DEF Wa, Sock
<1> HIDE DEF j
<1>8. k \in [Socket -> Sock] /\ k[s] = j /\ \A t \in Socket \ {s} : k[t] = free.sock[t]
  BY <1>4, <1>6
<1> HIDE DEF k
<1>9. wa' \in Wa
  BY Zenon, <1>4, <1>5, <1>7, <1>8, Bounds DEF Wa
<1>10. wa'.session = None /\ wa'.creating = free.creating /\ wa'.stray = free.stray /\ wa'.sock = k
  BY Zenon, <1>4, <1>7 DEF Wa
<1>11. free.sock[s].next = None
  BY <1>1, <1>2 DEF Keeps, Good, Calm
<1>12. Calm(wa'.session, wa'.creating, wa'.stray, wa'.sock)
  BY <1>1, <1>2, <1>3, <1>6, <1>8, <1>10, <1>11 DEF Good, Calm, Live
<1> QED
  BY <1>9, <1>12 DEF Good

\* The socket opens.
LEMMA OpenGood ==
    ASSUME Good(wa), NEW s \in Socket, Open(s)
    PROVE  Good(wa')
<1> DEFINE j == [wa.sock[s] EXCEPT !.step = "announce"]
           k == [wa.sock EXCEPT ![s] = j]
<1>1. wa \in Wa /\ wa.sock \in [Socket -> Sock] /\ wa.sock[s] \in Sock
      /\ wa.sock[s].step = "connect"
  BY Parts DEF Good, Open
<1>2. "announce" \in Steps /\ s \in Known
  BY DEF Steps, Known
<1>3. j \in Sock /\ j.up = wa.sock[s].up /\ j.step = "announce" /\ j.next = wa.sock[s].next
  BY Zenon, <1>1, <1>2 DEF Sock
<1>4. wa' = [wa EXCEPT !.session = s, !.sock = k]
  BY DEF Open
<1> HIDE DEF j
<1>5. k \in [Socket -> Sock] /\ k[s] = j /\ \A t \in Socket \ {s} : k[t] = wa.sock[t]
  BY <1>1, <1>3
<1> HIDE DEF k
<1>6. wa' \in Wa
  BY Zenon, <1>1, <1>2, <1>4, <1>5 DEF Wa
<1>7. wa'.session = s /\ wa'.creating = wa.creating /\ wa'.stray = wa.stray /\ wa'.sock = k
  BY Zenon, <1>1, <1>4 DEF Wa
<1>8. Calm(wa'.session, wa'.creating, wa'.stray, wa'.sock)
  BY <1>1, <1>3, <1>5, <1>7, Bounds DEF Good, Calm
<1> QED
  BY <1>6, <1>8 DEF Good

\* The promise resolves, and with it those of the attempts it replaced.
LEMMA ResolveGood ==
    ASSUME Good(wa), NEW s \in Socket, Resolve(s)
    PROVE  Good(wa')
<1> DEFINE opened == wa.sock[s].step = "announce"
           c == wa.connecting /\ ~opened
           g == IF wa.creating = s THEN None ELSE wa.creating
           h == [NoSocket EXCEPT !.up = wa.sock[s].up]
           j(t) == [wa.sock[t] EXCEPT !.step = "resolve", !.next = None]
           k == [ t \in Socket |-> IF t = s THEN h
                                   ELSE IF wa.sock[t].next = s THEN j(t) ELSE wa.sock[t] ]
           v == [wa EXCEPT !.connecting = c, !.creating = g, !.sock = k]
<1>1. wa.sock[s].step \in {"announce", "resolve"} /\ wa' = Resolved(v, wa.sock[s].waiters)
  BY DEF Resolve
<1>2. wa \in Wa /\ wa.sock \in [Socket -> Sock] /\ wa.creating \in Known
  BY Parts DEF Good
<1>3. c \in BOOLEAN
  BY Zenon
<1>4. g \in Known
  BY <1>2, Bounds
<1>5. h \in Sock /\ h.up = wa.sock[s].up /\ h.step = "none" /\ h.next = None
  <2>1. NoSocket \in Sock /\ NoSocket.step = "none" /\ NoSocket.next = None
    BY NoSocketTyped
  <2>2. wa.sock[s].up \in BOOLEAN
    BY Zenon, <1>2 DEF Sock
  <2> QED
    BY Zenon, <2>1, <2>2 DEF Sock
<1>6. ASSUME NEW t \in Socket
      PROVE  j(t) \in Sock /\ j(t).up = wa.sock[t].up /\ j(t).step = "resolve" /\ j(t).next = None
  <2>1. wa.sock[t] \in Sock
    BY <1>2
  <2>2. "resolve" \in Steps
    BY DEF Steps
  <2> QED
    BY Zenon, <2>1, <2>2, Bounds DEF Sock
<1> HIDE DEF c, h, j
<1>7. k \in [Socket -> Sock]
  BY <1>2, <1>5, <1>6
<1>8. /\ k[s] = h
      /\ \A t \in Socket \ {s} :
           \/ k[t] = wa.sock[t]
           \/ /\ wa.sock[t].next = s
              /\ k[t].up = wa.sock[t].up /\ k[t].step = "resolve" /\ k[t].next = None
  BY <1>6
<1> HIDE DEF k, g
<1>9. v \in Wa
  BY Zenon, <1>2, <1>3, <1>4, <1>7 DEF Wa
<1>10. v.session = wa.session /\ v.creating = g /\ v.stray = wa.stray /\ v.sock = k
  BY Zenon, <1>2 DEF Wa
<1> HIDE DEF v
<1>11. \A t \in Socket : wa.sock[t].next = s => wa.sock[t].step = "restart"
  BY Bounds DEF Good, Calm
<1>12. Calm(v.session, v.creating, v.stray, v.sock)
  <2>1. \A t \in Socket : v.sock[t].next # None => v.sock[t].step = "restart"
    BY <1>5, <1>8, <1>10 DEF Good, Calm
  <2>2. ASSUME ~wa.stray, NEW t \in Socket
        PROVE  /\ v.sock[t].step \in {"lock", "connect"} => g = t /\ wa.session = None
               /\ v.sock[t].up => v.sock[t].step = "connect" \/ wa.session = t
    <3>1. /\ wa.sock[t].step \in {"lock", "connect"} => wa.creating = t /\ wa.session = None
          /\ wa.sock[t].up => wa.sock[t].step = "connect" \/ wa.session = t
      BY <2>2 DEF Good, Calm
    <3>2. CASE t = s
      BY <1>1, <1>5, <1>8, <1>10, <3>1, <3>2
    <3>3. CASE t # s /\ v.sock[t] = wa.sock[t]
      BY <3>1, <3>3 DEF g
    <3>4. CASE t # s /\ wa.sock[t].next = s /\ v.sock[t].up = wa.sock[t].up
               /\ v.sock[t].step = "resolve"
      BY <1>11, <3>1, <3>4
    <3> QED
      BY <1>8, <1>10, <3>2, <3>3, <3>4
  <2> QED
    BY <1>10, <2>1, <2>2 DEF Calm
<1> QED
  BY <1>1, <1>9, <1>12, ResolvedGood DEF Good

\* The limits, and the socket that closes before it is open.
LEMMA FailGood ==
    ASSUME Good(wa), NEW s \in Socket, Fail(s) \/ Drop(s)
    PROVE  Good(wa')
<1>1. CASE Fail(s)
  BY <1>1, FailedGood DEF Fail
<1>2. CASE Drop(s)
  <2>1. wa' = [wa EXCEPT !.sock[s].up = FALSE]
    BY <1>2 DEF Drop
  <2>2. Good([wa EXCEPT !.sock[s].up = FALSE])
    BY Zenon, Downed
  <2> QED
    BY Zenon, <2>1, <2>2
<1> QED
  BY <1>1, <1>2

\* Code 515: the attempt that takes over is the one the maps know.
LEMMA RestartGood ==
    ASSUME Good(wa), NEW s \in Socket, Restart(s)
    PROVE  Good(wa')
<1> DEFINE j == [wa.sock[s] EXCEPT !.up = FALSE, !.step = "restart"]
           k == [wa.sock EXCEPT ![s] = j]
           w == [wa EXCEPT !.sock = k, !.creating = None]
<1>1. wa \in Wa /\ wa.sock \in [Socket -> Sock] /\ wa.sock[s] \in Sock
      /\ wa.sock[s].step = "connect"
  BY Parts DEF Good, Restart
<1>2. "restart" \in Steps /\ "resolve" \in Steps /\ FALSE \in BOOLEAN
  BY DEF Steps
<1>3. j \in Sock /\ j.up = FALSE /\ j.step = "restart" /\ j.next = wa.sock[s].next
  BY Zenon, <1>1, <1>2 DEF Sock
<1>4. \/ wa.session # None /\ wa' = [w EXCEPT !.sock[s].step = "resolve"]
      \/ wa.session = None /\ \E v \in Begun(w, {}) : wa' = [v EXCEPT !.sock[s].next = v.creating]
  <2>1. w = [wa EXCEPT !.sock[s].up = FALSE, !.sock[s].step = "restart", !.creating = None]
    BY <1>1 DEF Wa, Sock
  <2> HIDE DEF w
  <2> QED
    BY Zenon, <2>1 DEF Restart
<1> HIDE DEF j
<1>5. k \in [Socket -> Sock] /\ k[s] = j /\ \A t \in Socket \ {s} : k[t] = wa.sock[t]
  BY <1>1, <1>3
<1> HIDE DEF k
<1>6. w \in Wa
  BY Zenon, <1>1, <1>5, Bounds DEF Wa
<1>7. w.session = wa.session /\ w.creating = None /\ w.stray = wa.stray /\ w.sock = k
  BY Zenon, <1>1 DEF Wa
<1> HIDE DEF w
<1>8. Calm(w.session, w.creating, w.stray, w.sock)
  BY <1>1, <1>3, <1>5, <1>7 DEF Good, Calm
<1>9. Good(w) /\ w.sock[s] = j
  BY <1>5, <1>6, <1>7, <1>8 DEF Good
<1>10. wa.sock[s].next = None
  BY <1>1 DEF Good, Calm
<1>11. CASE wa.session # None /\ wa' = [w EXCEPT !.sock[s].step = "resolve"]
  <2> DEFINE i == [w.sock[s] EXCEPT !.step = "resolve"]
  <2>1. i \in Sock /\ i.up = FALSE /\ i.step = "resolve" /\ i.next = None
    BY Zenon, <1>2, <1>3, <1>9, <1>10 DEF Sock
  <2> DEFINE f == [w.sock EXCEPT ![s] = i]
  <2>2. wa' = [w EXCEPT !.sock = f]
    BY <1>11
  <2> HIDE DEF i
  <2>3. f \in [Socket -> Sock] /\ f[s] = i /\ \A t \in Socket \ {s} : f[t] = w.sock[t]
    BY <1>6, <2>1, Parts
  <2> HIDE DEF f
  <2>4. wa' \in Wa
    BY Zenon, <1>6, <2>2, <2>3 DEF Wa
  <2>5. wa'.session = w.session /\ wa'.creating = w.creating /\ wa'.stray = w.stray
        /\ wa'.sock = f
    BY Zenon, <1>6, <2>2 DEF Wa
  <2>6. Calm(wa'.session, wa'.creating, wa'.stray, wa'.sock)
    BY <1>9, <2>1, <2>3, <2>5 DEF Good, Calm
  <2> QED
    BY <2>4, <2>6 DEF Good
<1>12. ASSUME wa.session = None, NEW v \in Begun(w, {}),
              wa' = [v EXCEPT !.sock[s].next = v.creating]
       PROVE  Good(wa')
  <2>1. v \in Fresh(w, {})
    BY <1>7, <1>12 DEF Begun
  <2>2. w.sock[s] # NoSocket
    BY <1>3, <1>9, NoSocketTyped
  <2>3. Good(v) /\ v.creating \in Socket /\ v.sock[s] = j
    BY <1>7, <1>9, <1>12, <2>1, <2>2, FreshGood
  <2> DEFINE i == [v.sock[s] EXCEPT !.next = v.creating]
  <2>4. v \in Wa /\ v.creating \in Known
    BY <2>3 DEF Good, Known
  <2>5. i \in Sock /\ i.up = FALSE /\ i.step = "restart"
    BY Zenon, <1>3, <2>3, <2>4 DEF Sock
  <2> DEFINE f == [v.sock EXCEPT ![s] = i]
  <2>6. wa' = [v EXCEPT !.sock = f]
    BY <1>12
  <2> HIDE DEF i
  <2>7. f \in [Socket -> Sock] /\ f[s] = i /\ \A t \in Socket \ {s} : f[t] = v.sock[t]
    BY <2>4, <2>5, Parts
  <2> HIDE DEF f
  <2>8. wa' \in Wa
    BY Zenon, <2>4, <2>6, <2>7 DEF Wa
  <2>9. wa'.session = v.session /\ wa'.creating = v.creating /\ wa'.stray = v.stray
        /\ wa'.sock = f
    BY Zenon, <2>4, <2>6 DEF Wa
  <2>10. Calm(wa'.session, wa'.creating, wa'.stray, wa'.sock)
    BY <2>3, <2>5, <2>7, <2>9 DEF Good, Calm
  <2> QED
    BY <2>8, <2>10 DEF Good
<1> QED
  BY <1>4, <1>11, <1>12

\* Code 440 or 401 while connecting.
LEMMA RefusedGood ==
    ASSUME Good(wa), NEW s \in Socket, Refused(s)
    PROVE  Good(wa')
<1> DEFINE j == [wa.sock[s] EXCEPT !.step = "none", !.up = FALSE]
           k == [wa.sock EXCEPT ![s] = j]
           w == [wa EXCEPT !.manual = TRUE, !.sock = k]
<1>1. wa \in Wa /\ wa.sock \in [Socket -> Sock] /\ wa.sock[s] \in Sock
      /\ wa.sock[s].step = "connect"
  BY Parts DEF Good, Refused
<1>2. "none" \in Steps /\ FALSE \in BOOLEAN /\ TRUE \in BOOLEAN
  BY DEF Steps
<1>3. j \in Sock /\ j.up = FALSE /\ j.step = "none" /\ j.next = wa.sock[s].next
  BY Zenon, <1>1, <1>2 DEF Sock
<1>4. wa' = Failed(Aborted(w), s)
  BY DEF Refused
<1> HIDE DEF j
<1>5. k \in [Socket -> Sock] /\ k[s] = j /\ \A t \in Socket \ {s} : k[t] = wa.sock[t]
  BY <1>1, <1>3
<1> HIDE DEF k
<1>6. w \in Wa
  BY Zenon, <1>1, <1>2, <1>5 DEF Wa
<1>7. w.session = wa.session /\ w.creating = wa.creating /\ w.stray = wa.stray /\ w.sock = k
  BY Zenon, <1>1 DEF Wa
<1> HIDE DEF w
<1>8. Calm(w.session, w.creating, w.stray, w.sock)
  BY <1>1, <1>3, <1>5, <1>7 DEF Good, Calm
<1> QED
  BY <1>4, <1>6, <1>8, AbortedGood, FailedGood DEF Good

\* The close of an open socket.
LEMMA CloseGood ==
    ASSUME Good(wa), NEW s \in Socket, Close(s)
    PROVE  Good(wa')
<1> DEFINE w == [wa EXCEPT !.sock[s].up = FALSE]
<1>1. Good(w)
  BY Zenon, Downed
<1>2. wa' = Closed(w)
  BY DEF Close
<1> HIDE DEF w
<1> QED
  BY <1>1, <1>2, ClosedGood

\* Code 440 or 401 of an open session.
LEMMA LogOutGood ==
    ASSUME Good(wa), NEW s \in Socket, LogOut(s)
    PROVE  Good(wa')
<1> DEFINE w == [wa EXCEPT !.sock[s].up = FALSE]
           v == [w EXCEPT !.manual = TRUE]
<1>1. Good(w)
  BY Zenon, Downed
<1>2. wa' = Aborted(v)
  BY DEF LogOut
<1> HIDE DEF w
<1>3. w \in Wa /\ TRUE \in BOOLEAN
  BY <1>1 DEF Good
<1>4. Quiet(w, v)
  BY <1>3, QuietSet
<1> HIDE DEF v
<1> QED
  BY <1>1, <1>2, <1>4, QuietGood, AbortedGood

\* The steps of the attempts together.
LEMMA AttemptGood ==
    ASSUME Good(wa), NEW s \in Socket, Attempt(s)
    PROVE  Good(wa') /\ UNCHANGED <<panel, scan>> /\ creds' \in {creds, TRUE}
<1>1. CASE Make(s)
  BY <1>1, MakeGood DEF Make
<1>2. CASE Open(s)
  BY <1>2, OpenGood DEF Open
<1>3. CASE Resolve(s)
  BY <1>3, ResolveGood DEF Resolve
<1>4. CASE Fail(s) \/ Drop(s)
  BY <1>4, FailGood DEF Fail, Drop
<1>5. CASE Restart(s)
  BY <1>5, RestartGood DEF Restart
<1>6. CASE Refused(s)
  BY <1>6, RefusedGood DEF Refused
<1>7. CASE Close(s)
  BY <1>7, CloseGood DEF Close
<1>8. CASE LogOut(s)
  BY <1>8, LogOutGood DEF LogOut
<1> QED
  BY <1>1, <1>2, <1>3, <1>4, <1>5, <1>6, <1>7, <1>8 DEF Attempt

---------------------------------------------------------------------------
(* The invariant.                                                          *)

\* At first there is nothing.
LEMMA Base == Init => IInv
<1> SUFFICES ASSUME Init PROVE IInv
  OBVIOUS
<1>1. [s \in Socket |-> NoSocket] \in [Socket -> Sock]
  BY NoSocketTyped
<1>2. wa \in Wa
  BY Zenon, <1>1, Bounds DEF Init, Wa
<1>3. Calm(wa.session, wa.creating, wa.stray, wa.sock)
  BY NoSocketTyped DEF Init, Calm
<1> QED
  BY <1>2, <1>3 DEF IInv, Good, Init

\* Every step keeps the invariant.
LEMMA Step == IInv /\ [Next]_vars => IInv'
<1> SUFFICES ASSUME IInv, [Next]_vars PROVE IInv'
  OBVIOUS
<1>1. Good(wa)
  BY DEF IInv
<1>2. ASSUME NEW request \in Requests, Connect(request) PROVE IInv'
  <2>1. Good(wa')
    BY <1>1, <1>2, ConnectGood
  <2>2. panel' \in {panel, "start", "again"} /\ scan' = scan
    BY <1>2 DEF Connect
  <2>3. creds' \in BOOLEAN
    BY Zenon, <1>2 DEF IInv, Connect
  <2> QED
    BY <2>1, <2>2, <2>3 DEF IInv, Good
<1>3. CASE Start
  <2>1. Good(wa')
    BY <1>1, <1>3, StartGood
  <2> QED
    BY <1>3, <2>1 DEF IInv, Start, Good
<1>4. CASE Shown
  BY <1>1, <1>4 DEF IInv, Shown, Good
<1>5. CASE GiveUp
  <2>1. Good(wa')
    BY <1>1, <1>5, AbortedGood DEF GiveUp
  <2> QED
    BY <1>5, <2>1 DEF IInv, GiveUp, Good
<1>6. CASE Disconnect
  <2>1. Good(wa')
    BY <1>1, <1>6, DisconnectGood
  <2> QED
    BY <1>6, <2>1 DEF IInv, Disconnect, Good
<1>7. CASE Logout
  <2>1. Good(wa')
    BY <1>1, <1>7, LogoutGood
  <2> QED
    BY <1>7, <2>1 DEF IInv, Logout, Good
<1>14. CASE Purge
  <2>1. Good(wa')
    BY <1>1, <1>14, PurgeGood
  <2> QED
    BY <1>14, <2>1 DEF IInv, Purge, Good
<1>8. CASE TimerFires
  <2>1. Good(wa')
    BY <1>1, <1>8, TimerGood
  <2> QED
    BY <1>8, <2>1 DEF IInv, TimerFires, Good
<1>9. CASE ScanLook
  BY <1>1, <1>9 DEF IInv, ScanLook, Good
<1>10. CASE ScanGo
  <2>1. Good(wa')
    BY <1>1, <1>10, ScanGood
  <2> QED
    BY <1>10, <2>1 DEF IInv, ScanGo, Good
<1>11. CASE Tick
  <2>1. Good(wa')
    BY <1>1, <1>11, TickGood
  <2> QED
    BY <1>11, <2>1 DEF IInv, Tick, Good
<1>12. ASSUME NEW s \in Socket, Attempt(s) PROVE IInv'
  <2>1. Good(wa') /\ UNCHANGED <<panel, scan>> /\ creds' \in {creds, TRUE}
    BY <1>1, <1>12, AttemptGood
  <2> QED
    BY <2>1 DEF IInv, Good
<1>13. CASE UNCHANGED vars
  BY <1>1, <1>13 DEF IInv, vars, Good
<1> QED
  BY <1>2, <1>3, <1>4, <1>5, <1>6, <1>7, <1>8, <1>9, <1>10, <1>11, <1>12, <1>13,
     <1>14 DEF Next, Panel, Clock

\* The invariant holds of every behaviour.
THEOREM SessionCalm == Spec => []IInv
BY Base, Step, PTL DEF Spec

\* The maps and the attempts keep their types; the attempts of a
\* reconnection never pass the limit at which scheduleReconnect gives up.
THEOREM SessionTyped == Spec => []TypeOK
<1>1. IInv => TypeOK
  BY Zenon DEF IInv, Good, TypeOK, Wa, Sock, Known
<1> QED
  BY <1>1, SessionCalm, PTL

\* No two sockets of the client are up at once unless the maps dropped an
\* attempt that went on or a live socket.
THEOREM OneSocketUp == Spec => []OneSocketUnlessStray
<1>1. IInv => OneSocketUnlessStray
  <2> SUFFICES ASSUME IInv, ~wa.stray, NEW s \in Socket, NEW t \in Socket,
                      wa.sock[s].up, wa.sock[t].up
               PROVE  s = t
    BY DEF OneSocketUnlessStray
  <2> QED
    BY Bounds DEF IInv, Good, Calm
<1> QED
  BY <1>1, SessionCalm, PTL

==============================================================================
