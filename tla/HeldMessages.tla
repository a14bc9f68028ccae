---------------------------- MODULE HeldMessages ----------------------------
(***************************************************************************)
(* What ConsentService promises about the messages for one contact: each is *)
(* taken once, sent at once or held; what is held waits in the order in     *)
(* which it came, is replayed whole and in that order, one message at a     *)
(* time, and goes out once, unless it is dropped.  The promise may be       *)
(* broken once and for all.                                                 *)
(***************************************************************************)
EXTENDS Sequences, SequencesExt

CONSTANT Msg

VARIABLES
    held,     \* waits for the contact's answer
    queue,    \* is being replayed
    taken,    \* messages whose job is through
    sent,
    dropped,  \* by a refusal, or by a replay that failed
    broken    \* the promise no longer stands

Init == /\ held = <<>> /\ queue = <<>>
        /\ taken = {} /\ sent = {} /\ dropped = {}
        /\ broken = FALSE

Send(m) ==
    /\ m \notin taken \cup sent
    /\ taken' = taken \cup {m} /\ sent' = sent \cup {m}
    /\ UNCHANGED <<held, queue, dropped>>

\* What a refusal dropped may come back with the next message.
Hold(m) ==
    /\ m \notin taken
    /\ taken' = taken \cup {m}
    /\ \/ held' = Append(held, m)
       \/ /\ held = <<>> /\ held' # <<>>
          /\ Last(held') = m /\ ToSet(held') \subseteq dropped \cup {m}
    /\ UNCHANGED <<queue, sent, dropped>>

Drop ==
    /\ held' = <<>>
    /\ dropped' = dropped \cup ToSet(held)
    /\ UNCHANGED <<queue, taken, sent>>

Release ==
    /\ queue = <<>>
    /\ queue' = held /\ held' = <<>>
    /\ UNCHANGED <<taken, sent, dropped>>

Replay ==
    /\ queue # <<>>
    /\ Head(queue) \notin sent
    /\ queue' = Tail(queue)
    /\ \/ sent' = sent \cup {Head(queue)} /\ UNCHANGED dropped
       \/ dropped' = dropped \cup {Head(queue)} /\ UNCHANGED sent
    /\ UNCHANGED <<held, taken>>

Next ==
    \/ broken' = TRUE
    \/ /\ broken = FALSE /\ broken' = FALSE
       /\ Drop \/ Release \/ Replay \/ \E m \in Msg : Send(m) \/ Hold(m)

Spec == Init /\ [][Next]_<<held, queue, taken, sent, dropped, broken>>
=============================================================================
