------------------------------ MODULE MCConsent ------------------------------
EXTENDS Consent

MsgSymmetry == Permutations(Msg)

\* Without what no step reads again: the panel saves neither the held messages
\* nor the prompt, the contact's handler neither the approvals nor more of the
\* count than whether it was 0, and after a crash no one counts the messages.
WhatMatters ==
    << row, job, renewal, said,
       [panel EXCEPT !.doc.held = <<>>, !.doc.prompted = 0],
       [hand EXCEPT !.doc.approvals = 0,
                    !.doc.count = IF @ = 0 THEN 0 ELSE 1],
       IF hist.crashed
         THEN [hist EXCEPT !.sent = <<>>, !.dropped = {}]
         ELSE hist >>
=============================================================================
