---------------------------- MODULE SocketMutex ----------------------------
(***************************************************************************)
(* What utils/wa-session-lock.ts promises to its callers: one process at a  *)
(* time has a WhatsApp socket for the client.  The promise may be broken    *)
(* once and for all; until then a process connects only while no other      *)
(* has a socket.                                                            *)
(***************************************************************************)
CONSTANT Proc

VARIABLES
    open,    \* the processes that have a socket
    broken   \* the promise no longer stands

Init == open = {} /\ broken = FALSE

Connect(p) ==
    /\ open \subseteq {p} \/ broken'
    /\ open' = open \cup {p}

Disconnect(p) == open' = open \ {p}

Break == broken' = TRUE /\ open' = open

Next ==
    /\ broken => broken'
    /\ Break \/ \E p \in Proc : Connect(p) \/ Disconnect(p)

Spec == Init /\ [][Next]_<<open, broken>>
============================================================================
