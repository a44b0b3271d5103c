------------------------------- MODULE Consent -------------------------------
(***************************************************************************)
(* What the app promises about the payloads that leave the device: only a  *)
(* thread that was cleared while AI was on sends, once, and only a request *)
(* it was told to send while that was open, or one it put on record        *)
(* itself.  From then on the thread owes an outcome: it records that       *)
(* before it takes on anything else, or the outcome counts as lost.        *)
(***************************************************************************)
CONSTANTS
  Threads,   \* whoever may send
  Reqs       \* the ids of requests

VARIABLES
  on,        \* is AI switched on?
  cleared,   \* the threads that may send without asking again
  told,      \* <<t, r>>: t is to send r
  owes,      \* <<t, r>>: t has sent r, or decided not to, and is to record what came of it
  open,      \* the requests that wait for a decision or a reply
  closed,    \* the requests that have an outcome
  gone,      \* the requests whose payload has left
  lost       \* the requests whose outcome was lost

vars == <<on, cleared, told, owes, open, closed, gone, lost>>

Init ==
  /\ on = FALSE
  /\ cleared = {} /\ told = {} /\ owes = {}
  /\ open = {} /\ closed = {} /\ gone = {} /\ lost = {}

\* Threads turn back: what they owed is lost.
GiveUp ==
  /\ UNCHANGED <<on, open, closed, gone>>
  /\ cleared' \subseteq cleared /\ told' \subseteq told /\ owes' \subseteq owes
  /\ lost' = lost \cup {p[2] : p \in owes \ owes'}

\* The owner switches AI on or off.
Switch ==
  /\ on' = ~on
  /\ UNCHANGED <<cleared, told, owes, open, closed, gone, lost>>

\* A thread that owes nothing is cleared, while AI is on.
Clear(t) ==
  /\ on /\ owes \cap ({t} \X Reqs) = {}
  /\ cleared' = cleared \cup {t}
  /\ UNCHANGED <<on, told, owes, open, closed, gone, lost>>

\* Ids nobody is using, and whose last payload, if any, is known as lost.
Unused(S) ==
  /\ S \cap (open \cup closed) = {}
  /\ S \cap gone \subseteq lost
  /\ (told \cup owes) \cap (Threads \X S) = {}

\* The requests S are put before the owner; whoever staged them does not send them.
Stage(S) ==
  /\ Unused(S)
  /\ cleared' \subseteq cleared
  /\ open' = open \cup S /\ gone' = gone \ S /\ lost' = lost \ S
  /\ UNCHANGED <<on, told, owes, closed>>

Busy(t) == t \in cleared \/ (told \cup owes) \cap ({t} \X Reqs) # {}

\* The owner tells a thread that has nothing to do to send requests that are open.
Tell(t, S) ==
  /\ ~Busy(t) /\ S \subseteq open
  /\ told' = told \cup ({t} \X S)
  /\ UNCHANGED <<on, cleared, owes, open, closed, gone, lost>>

\* A cleared thread takes an id for a request of its own.
Own(t, r) ==
  /\ t \in cleared /\ (told \cup owes) \cap ({t} \X Reqs) = {} /\ Unused({r})
  /\ told' = told \cup {<<t, r>>}
  /\ gone' = gone \ {r} /\ lost' = lost \ {r}
  /\ UNCHANGED <<on, cleared, owes, open, closed>>

\* The thread is done with sending r, and has an outcome to record.
Turn(t, r) ==
  /\ <<t, r>> \in told
  /\ cleared' = cleared \ {t}
  /\ told' = told \ {<<t, r>>} /\ owes' = owes \cup {<<t, r>>}
  /\ UNCHANGED <<on, open, closed, lost>>

\* A payload leaves: the one thing all the others are there for.
Send(t, r) == t \in cleared /\ Turn(t, r) /\ gone' = gone \cup {r}

\* A thread decides not to send, or cannot.
Decline(t, r) == Turn(t, r) /\ UNCHANGED gone

\* A thread records an outcome that it owes.
Record(t, r) ==
  /\ <<t, r>> \in owes
  /\ owes' = owes \ {<<t, r>>}
  /\ open' = open \ {r} /\ closed' = closed \cup {r}
  /\ UNCHANGED <<on, cleared, told, gone, lost>>

\* The owner rejects requests, whoever is sending them.
Reject(S) ==
  /\ S \subseteq open \cup closed
  /\ open' = open \ S /\ closed' = closed \cup S
  /\ UNCHANGED <<on, cleared, told, owes, gone, lost>>

Next ==
  \/ GiveUp \/ Switch
  \/ \E t \in Threads : Clear(t) \/ \E r \in Reqs : Own(t, r) \/ Send(t, r) \/ Decline(t, r) \/ Record(t, r)
  \/ \E S \in SUBSET Reqs : Stage(S) \/ Reject(S) \/ \E t \in Threads : Tell(t, S)

Spec == Init /\ [][Next]_vars
=============================================================================
