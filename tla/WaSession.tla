----------------------------- MODULE WaSession -----------------------------
(***************************************************************************)
(* The WhatsApp session of one client in one process: the maps of           *)
(* WhatsAppService (sessions, sessionCreatePromises, connectingClients,     *)
(* reconnectingClients, reconnectTimers, reconnectAttempts,                 *)
(* lastReconnectAt, manuallyDisconnectedClients), the Baileys sockets they  *)
(* should speak of, and whoever touches them: the panel, the reconnect      *)
(* timer, the minute scan and the sockets' own events.  A step lasts until  *)
(* the next await whose outcome another step may change.                    *)
(*                                                                          *)
(* The lock of WaSocketLock is left out: it is reentrant inside a process.  *)
(* The marks of the cache that repeat manuallyDisconnectedClients are taken *)
(* to agree with it, and Mongo's copy of the credentials is either restorable *)
(* or not.                                                                  *)
(***************************************************************************)
EXTENDS Naturals

CONSTANTS
    Socket,     \* connection attempts that may be known at once
    None,
    Abandon,    \* the attempts after which scheduleReconnect gives up (8)
    SoftAfter   \* the attempt whose failure ends in softDisconnect (4)

ASSUME SessionAssumption ==
    /\ None \notin Socket
    /\ Abandon \in Nat \ {0}
    /\ SoftAfter \in Nat

VARIABLES
    wa,      \* the maps and the attempts, with their sockets
    panel,   \* where a request of connectInstance is
    scan,    \* a scan found nothing under way and awaits the cache
    creds    \* creds.json is on the disk

vars == <<wa, panel, scan, creds>>

\* Whoever awaits an attempt: startConnectAndWaitForQr or the timer of the
\* n-th reconnection, n > 0.  Nothing depends on what the scan does afterwards.
ByPanel == 0
Waiter  == {ByPanel} \cup 1..Abandon

\* The promise of an attempt: waiting for the lock, for 'open', for the
\* announcements of an open session, or (515) for the attempt that replaced
\* it, which may have resolved it.  "none": settled, or never made.
Steps == {"none", "lock", "connect", "announce", "restart", "resolve"}

\* cool: under 15 s (2) or under 60 s (1) since lastReconnectAt.
\* stray: history, the maps dropped an attempt that goes on, or a live socket.
TypeOK ==
    /\ wa \in [ session: Socket \cup {None}, creating: Socket \cup {None},
                connecting: BOOLEAN, reconnecting: BOOLEAN,
                timer: 0..Abandon, attempts: 0..Abandon, cool: 0..2,
                manual: BOOLEAN, stray: BOOLEAN,
                sock: [Socket -> [ up: BOOLEAN, step: Steps,
                                   waiters: SUBSET Waiter,
                                   next: Socket \cup {None} ]] ]
    /\ panel \in {"idle", "start", "wait", "again"}
    /\ scan \in BOOLEAN /\ creds \in BOOLEAN

NoSocket == [up |-> FALSE, step |-> "none", waiters |-> {}, next |-> None]

Init ==
    /\ wa = [ session |-> None, creating |-> None,
              connecting |-> FALSE, reconnecting |-> FALSE,
              timer |-> 0, attempts |-> 0, cool |-> 0,
              manual |-> FALSE, stray |-> FALSE,
              sock |-> [s \in Socket |-> NoSocket] ]
    /\ panel = "idle"
    /\ scan = FALSE
    /\ creds \in BOOLEAN

---------------------------------------------------------------------------
(* What the service's helpers do to the maps.                              *)

Live(w) == w.session # None /\ w.sock[w.session].up

UnderWay(w) == {s \in Socket : w.sock[s].step \in {"lock", "connect"}}

Cancelled(w) == [w EXCEPT !.timer = 0, !.attempts = 0, !.cool = 0]

\* A close of a session nobody asked for: nothing within 15 s of the last.
Scheduled(w) ==
    IF w.cool = 2 THEN w
    ELSE [w EXCEPT !.cool = 2, !.attempts = @ + 1, !.timer = w.attempts + 1,
                   !.session = None, !.stray = @ \/ Live(w)]

\* The maps are cleared; the session's socket is ended, and its own close
\* handler, run by socket.end, arms a timer that nothing cancels.
Aborted(w) ==
    LET rearmed == Live(w) /\ ~w.manual /\ ~w.reconnecting
        closed  == IF w.session = None THEN w
                   ELSE [w EXCEPT !.sock[w.session].up = FALSE]
    IN  [ (IF rearmed THEN Scheduled(Cancelled(closed)) ELSE Cancelled(closed))
          EXCEPT !.session = None, !.creating = None,
                 !.connecting = FALSE, !.reconnecting = FALSE,
                 !.stray = @ \/ UnderWay(w) # {} ]

\* Mutant: the attempts have no limit.
RetriedForever(w) == Scheduled(w)

\* scheduleReconnect: after too many attempts in a row, softDisconnect.
Retried(w) ==
    IF w.cool # 2 /\ w.attempts = Abandon THEN Aborted(w) ELSE Scheduled(w)

\* The close handler of an open socket, without a code of its own.
Closed(w) ==
    IF w.manual THEN Aborted(w)
    ELSE IF w.reconnecting THEN w
    ELSE Retried(w)

\* .then and .catch of those who await an attempt.
Resolved(w, waiters) ==
    LET timers == waiters \ {ByPanel}
    IN  [ w EXCEPT !.connecting   = @ /\ ByPanel \notin waiters,
                   !.attempts     = IF timers = {} THEN @ ELSE 0,
                   !.reconnecting = @ /\ timers = {} ]

\* Mutant: no .finally after a failure.
RejectedStuck(w, waiters) ==
    IF waiters \ {ByPanel} = {}
      THEN [w EXCEPT !.connecting = @ /\ ByPanel \notin waiters]
      ELSE Retried(w)

Rejected(w, waiters) ==
    LET timers == waiters \ {ByPanel}
        quiet  == [w EXCEPT !.connecting = @ /\ ByPanel \notin waiters]
        again  == IF timers = {} THEN quiet
                  ELSE IF \E n \in timers : n >= SoftAfter THEN Aborted(quiet)
                  ELSE Retried(quiet)
    IN  [again EXCEPT !.reconnecting = @ /\ timers = {}]

\* An attempt is rejected: createWhatsAppSession aborts unless there is a
\* session, and then those who wait learn of it.
Failed(w, s) ==
    LET ended   == [ w EXCEPT !.sock = [ t \in Socket |->
                        IF t = s THEN NoSocket
                        ELSE IF w.sock[t].next = s THEN [w.sock[t] EXCEPT !.next = None]
                        ELSE w.sock[t] ] ]
        cleared == IF ended.session = None THEN Aborted(ended) ELSE ended
        dropped == [cleared EXCEPT !.creating = IF @ = s THEN None ELSE @]
    IN  Rejected(dropped, w.sock[s].waiters)

\* A new attempt, one that nothing else refers to.
Fresh(w, waiters) ==
    {[ w EXCEPT !.creating = s,
                !.sock[s] = [NoSocket EXCEPT !.step = "lock", !.waiters = waiters] ]
       : s \in {t \in Socket : w.sock[t] = NoSocket}}

\* Mutant: the attempt under way is not looked for.
BegunAnother(w, waiters) ==
    IF w.session # None THEN {Resolved(w, waiters)} ELSE Fresh(w, waiters)

\* createWhatsAppSession: join the attempt under way, be told that there is
\* a session, or make a new attempt.
Begun(w, waiters) ==
    IF w.creating # None
      THEN {[w EXCEPT !.sock[w.creating].waiters = @ \cup waiters]}
    ELSE IF w.session # None THEN {Resolved(w, waiters)}
    ELSE Fresh(w, waiters)

---------------------------------------------------------------------------
(* The panel.                                                              *)

\* connectInstance up to the look at the cached QR code.  forceQr deletes the
\* credentials, and does not give up waiting afterwards.
Connect(request) ==
    LET fresh   == request \in {"forceQr", "refreshQr"}
        asked   == [wa EXCEPT !.manual = FALSE]
        quiet   == Cancelled(asked)
        pending == wa.connecting \/ wa.reconnecting \/ wa.creating # None
    IN  /\ panel = "idle"
        /\ UNCHANGED scan
        /\ \/ /\ wa.session # None
              /\ wa' = asked
              /\ UNCHANGED <<panel, creds>>
           \/ /\ wa.session = None /\ ~fresh /\ pending
              /\ wa' = quiet
              /\ UNCHANGED <<panel, creds>>
           \/ /\ wa.session = None /\ (fresh \/ ~pending)
              /\ wa' = IF fresh THEN Aborted(quiet) ELSE quiet
              /\ panel' = IF request = "forceQr" THEN "again" ELSE "start"
              /\ creds' = (creds /\ request # "forceQr")

\* startConnectAndWaitForQr.
Start ==
    /\ panel \in {"start", "again"}
    /\ panel' = IF panel = "start" THEN "wait" ELSE "idle"
    /\ UNCHANGED <<scan, creds>>
    /\ IF wa.session # None \/ wa.connecting \/ wa.reconnecting
         THEN UNCHANGED wa
         ELSE wa' \in Begun([wa EXCEPT !.connecting = TRUE], {ByPanel})

\* The QR code was shown, or the session is open.
Shown ==
    /\ panel = "wait"
    /\ panel' = "idle"
    /\ UNCHANGED <<wa, scan, creds>>

\* No QR code came with stored credentials: they are deleted.
GiveUp ==
    /\ panel = "wait"
    /\ wa.session = None /\ creds
    /\ creds' = FALSE
    /\ wa' = Aborted(wa)
    /\ panel' = "again"
    /\ UNCHANGED scan

\* temporaryDisconnect: a live session aborts itself in its close handler;
\* an attempt under way and a timer are left alone.
Disconnect ==
    LET told == [wa EXCEPT !.manual = TRUE]
    IN  /\ wa' = [ (IF Live(told) THEN Aborted(told) ELSE told)
                   EXCEPT !.session = None, !.connecting = FALSE ]
        /\ UNCHANGED <<panel, scan, creds>>

\* disconnectSession: the logout of a live session closes it with code 401;
\* that of a dead one throws.  cleanupSession deletes the credentials.
Logout ==
    /\ wa.session # None => Live(wa)
    /\ wa' = [ (IF Live(wa) THEN Aborted([wa EXCEPT !.manual = TRUE]) ELSE wa)
               EXCEPT !.connecting = FALSE ]
    /\ creds' = FALSE
    /\ UNCHANGED <<panel, scan>>

\* purgeClientCompletely, when the account is deleted.
Purge ==
    /\ wa' = Aborted(Cancelled([wa EXCEPT !.manual = TRUE]))
    /\ creds' = FALSE
    /\ UNCHANGED <<panel, scan>>

---------------------------------------------------------------------------
(* The timer and the scan.                                                 *)

TimerFires ==
    LET fired == [wa EXCEPT !.timer = 0]
    IN  /\ wa.timer # 0
        /\ IF wa.reconnecting \/ wa.session # None
             THEN wa' = fired
             ELSE wa' \in Begun([fired EXCEPT !.reconnecting = TRUE], {wa.timer})
        /\ UNCHANGED <<panel, scan, creds>>

\* ensurePersistedSessionsConnected up to the awaited cache ...
ScanLook ==
    /\ ~scan
    /\ creds
    /\ wa.session = None /\ ~wa.connecting /\ ~wa.reconnecting
    /\ wa.creating = None /\ wa.timer = 0 /\ ~wa.manual
    /\ scan' = TRUE
    /\ UNCHANGED <<wa, panel, creds>>

\* ... and from there: only the session, the mark and the time are looked at
\* again.  restoreSession looks for the credentials, takes those of the database
\* in their place or throws.
ScanGo ==
    LET tried == [wa EXCEPT !.cool = 2]
        idle  == wa.manual \/ wa.session # None \/ wa.cool # 0
    IN  /\ scan
        /\ scan' = FALSE
        /\ UNCHANGED panel
        /\ \/ idle /\ UNCHANGED <<wa, creds>>
           \/ ~idle /\ creds' = TRUE /\ wa' \in Begun(tried, {})
           \/ ~idle /\ ~creds /\ UNCHANGED creds /\ wa' = tried

\* The time since lastReconnectAt goes by.
Tick ==
    /\ wa.cool # 0
    /\ wa' = [wa EXCEPT !.cool = @ - 1]
    /\ UNCHANGED <<panel, scan, creds>>

---------------------------------------------------------------------------
(* The attempts and their sockets.                                         *)

\* doCreateWhatsAppSession has the lock: a session opened meanwhile is ended.
Make(s) ==
    LET stale == wa.session
        free  == IF Live(wa) THEN Closed([wa EXCEPT !.sock[stale].up = FALSE]) ELSE wa
    IN  /\ wa.sock[s].step = "lock"
        /\ wa' = [ free EXCEPT !.session = None, !.connecting = TRUE,
                               !.sock[s].up = TRUE, !.sock[s].step = "connect" ]
        /\ UNCHANGED <<panel, scan, creds>>

\* A login emits creds.update: the credentials are written.
Open(s) ==
    /\ wa.sock[s].step = "connect" /\ wa.sock[s].up
    /\ wa' = [wa EXCEPT !.session = s, !.sock[s].step = "announce"]
    /\ creds' = TRUE
    /\ UNCHANGED <<panel, scan>>

\* The announcements are made and the promise resolves, and with it those of
\* the attempts it replaced.
Resolve(s) ==
    LET opened == wa.sock[s].step = "announce"
        told   == [ wa EXCEPT
                      !.connecting = @ /\ ~opened,
                      !.creating = IF @ = s THEN None ELSE @,
                      !.sock = [ t \in Socket |->
                         IF t = s THEN [NoSocket EXCEPT !.up = wa.sock[s].up]
                         ELSE IF wa.sock[t].next = s
                           THEN [wa.sock[t] EXCEPT !.step = "resolve", !.next = None]
                         ELSE wa.sock[t] ] ]
    IN  /\ wa.sock[s].step \in {"announce", "resolve"}
        /\ wa' = Resolved(told, wa.sock[s].waiters)
        /\ UNCHANGED <<panel, scan, creds>>

\* The lock was refused, or the time limit or the QR limit was reached; the
\* limit of a replaced attempt runs on.
Fail(s) ==
    /\ wa.sock[s].step \in {"lock", "connect", "restart"}
    /\ wa' = Failed(wa, s)
    /\ UNCHANGED <<panel, scan, creds>>

\* A socket that is not open yet closes: the attempt waits for its limit.
Drop(s) ==
    /\ wa.sock[s].step = "connect" /\ wa.sock[s].up
    /\ wa' = [wa EXCEPT !.sock[s].up = FALSE]
    /\ UNCHANGED <<panel, scan, creds>>

\* Code 515 after a QR code was scanned, which stored the credentials: another
\* attempt takes over.
Restart(s) ==
    LET ended == [wa EXCEPT !.sock[s].up = FALSE, !.sock[s].step = "restart",
                            !.creating = None]
    IN  /\ wa.sock[s].step = "connect" /\ wa.sock[s].up
        /\ IF wa.session # None
             THEN wa' = [ended EXCEPT !.sock[s].step = "resolve"]
             ELSE \E w \in Begun(ended, {}) :
                    wa' = [w EXCEPT !.sock[s].next = w.creating]
        /\ creds' = TRUE
        /\ UNCHANGED <<panel, scan>>

\* Code 440 or 401 while connecting: never again without the user.
Refused(s) ==
    /\ wa.sock[s].step = "connect" /\ wa.sock[s].up
    /\ wa' = Failed(Aborted([wa EXCEPT !.manual = TRUE, !.sock[s].step = "none",
                                       !.sock[s].up = FALSE]), s)
    /\ UNCHANGED <<panel, scan, creds>>

\* An open socket is closed by the network.
Close(s) ==
    /\ wa.sock[s].step \notin {"lock", "connect"} /\ wa.sock[s].up
    /\ wa' = Closed([wa EXCEPT !.sock[s].up = FALSE])
    /\ UNCHANGED <<panel, scan, creds>>

\* Code 440 or 401 of an open session.
LogOut(s) ==
    /\ wa.sock[s].step \notin {"lock", "connect"} /\ wa.sock[s].up
    /\ wa' = Aborted([wa EXCEPT !.sock[s].up = FALSE, !.manual = TRUE])
    /\ UNCHANGED <<panel, scan, creds>>

---------------------------------------------------------------------------
Requests == {"connect", "refreshQr", "forceQr"}

Panel == (\E request \in Requests : Connect(request)) \/ Start \/ Shown \/ GiveUp
         \/ Disconnect \/ Logout \/ Purge

Clock == TimerFires \/ ScanLook \/ ScanGo \/ Tick

Attempt(s) ==
    \/ Make(s) \/ Open(s) \/ Resolve(s) \/ Fail(s) \/ Drop(s) \/ Restart(s)
    \/ Refused(s) \/ Close(s) \/ LogOut(s)

Next == Panel \/ Clock \/ \E s \in Socket : Attempt(s)

Spec == Init /\ [][Next]_vars

\* Timers and the scan run, time goes by, and an attempt ends, by its time
\* limit at the latest; nothing obliges the user, the phone or the network.
Fairness ==
    /\ WF_vars(Tick) /\ WF_vars(TimerFires \/ ScanLook \/ ScanGo)
    /\ WF_vars(\E s \in Socket : Make(s) \/ Open(s) \/ Fail(s) \/ Resolve(s))

FairSpec == Spec /\ Fairness

---------------------------------------------------------------------------
(* Properties.                                                             *)

\* Two sockets of one client at once are what WhatsApp answers with 440.  The
\* promise per client keeps them apart as long as the maps drop neither an
\* attempt that goes on nor a live socket.
OneSocketUnlessStray ==
    ~wa.stray => \A s, t \in Socket : wa.sock[s].up /\ wa.sock[t].up => s = t

\* A client without a session whose credentials are stored is tried again, by
\* the timer or by the scan, unless the user has to act.
AttemptedAgain ==
    (wa.session = None /\ creds)
        ~> (wa.session # None \/ wa.manual \/ UnderWay(wa) # {} \/ ~creds)

============================================================================
