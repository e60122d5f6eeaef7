------------------------------ MODULE EventLog ------------------------------
(***************************************************************************)
(* What a StreamBridge promises to the clients of one run: a log that is   *)
(* closed once, read in order by every client across its reconnections,    *)
(* of which a client misses an event only if at least Retained newer ones  *)
(* exist, and whose end is announced last.                                 *)
(***************************************************************************)
EXTENDS Integers

CONSTANTS Clients, Retained

VARIABLES
  published,   \* number of events in the log
  closed,      \* the end of the log was announced
  read,        \* read[c]: the client c is done with the events 0 .. read[c]-1
  informed     \* the clients that were told the end

logVars == <<published, closed, read, informed>>

LogInit ==
  /\ published = 0
  /\ closed = FALSE
  /\ read = [c \in Clients |-> 0]
  /\ informed = {}

Append ==
  /\ ~closed
  /\ published' = published + 1
  /\ UNCHANGED <<closed, read, informed>>

Close ==
  /\ ~closed
  /\ closed' = TRUE
  /\ UNCHANGED <<published, read, informed>>

\* The next event, or a later one when all those between are no longer retained.
Deliver(c) ==
  /\ c \notin informed
  /\ \E e \in read[c]..(published - 1) :
       /\ read[c] < e => e + Retained <= published
       /\ read' = [read EXCEPT ![c] = e + 1]
  /\ UNCHANGED <<published, closed, informed>>

\* The end is announced to a client that has everything.
Inform(c) ==
  /\ closed /\ c \notin informed
  /\ read[c] = published
  /\ informed' = informed \cup {c}
  /\ UNCHANGED <<published, closed, read>>

LogNext == Append \/ Close \/ \E c \in Clients : Deliver(c) \/ Inform(c)

LogSpec == LogInit /\ [][LogNext]_logVars
=============================================================================
