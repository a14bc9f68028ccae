---------------------- MODULE MCOutboundPipeline ----------------------
EXTENDS OutboundPipeline

CONSTANTS p1, p2, c1, d1, d2

\* Two posts of the same content.
SameContent == [p \in Post |-> c1]
AllGranted == [d \in Destination |-> {"granted"}]
\* A contact who consents, or not, at any time.
Changing == [d \in Destination |-> {"granted", "pending", "refused"}]

\* What no action and no invariant of the run depends on is left out.
NoHistoryView == <<post, job, claimed, dedup, stalled, connected, used, due, resets,
                   faults, days, lapsed>>
=======================================================================
