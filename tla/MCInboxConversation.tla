----------------------- MODULE MCInboxConversation -----------------------
(* Every row of the checked instances is one contact's.                    *)
EXTENDS InboxConversation

CONSTANT k1

OneContact == [c \in Conv |-> k1]

\* The properties of the safety run say nothing of a row once it is stale:
\* these states are checked and not continued.
NoneStale == stale = {}

\* Which rows became open outside the chain is history that only the run of two rows asks about.
NoOutsideView == <<row, presence, pullable, awaiting, quiet, task, stale>>

\* With a single agent no priority is ever somebody else's, and without the
\* monitor nobody asks how long a client has been silent: the variables left
\* out make no difference to what may happen next.
OneAgentView == <<row, presence, task, outside>>
===========================================================================
