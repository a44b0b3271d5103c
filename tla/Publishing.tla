------------------------------ MODULE Publishing ------------------------------
(***************************************************************************)
(* What Home Assistant shows: services/mqtt_service.py, called at the end  *)
(* of the routes that change a subscription or a budget, at startup and by *)
(* hand.  A cycle reads the sensors, connects, and sends its messages one  *)
(* by one; the broker retains the last of each topic.  Cycles of two       *)
(* requests overlap.  A message may be lost, the connection may drop, and  *)
(* the broker sends the will of a dropped connection when it notices,      *)
(* which may be after a later cycle.                                       *)
(***************************************************************************)
EXTENDS Subscriptions

CONSTANTS
  Budgets,    \* household budgets there may be
  Limits,     \* what the sensors of a budget may show; 0: there is no such budget
  MaxDrops    \* bound: connections that drop, and stops of the process

ASSUME BudgetsAssumption == Limits \subseteq Nat \ {0} /\ "total" \notin Budgets /\ IsFiniteSet(Budgets)

VARIABLES
  budget,  \* the budgets, by what their sensors show
  off,     \* the publish selection: the sensors the owner has switched off
  config,  \* at the broker: the sensors whose discovery config is retained
  state,   \* at the broker: the retained states
  avail,   \* at the broker: the retained availability
  wills,   \* dropped connections whose will is still to come
  drops,   \* history: connections that dropped
  calm     \* history: the last cycle was alone, lost nothing, and nothing changed since

broker == <<config, state, avail, wills, drops>>
vars == <<subscriptions, call, budget, off, broker, calm>>

Keys == {"total"} \cup Budgets

\* _all_sensors
Sensors ==
  [k \in {"total"} \cup {b \in Budgets : budget[b] # 0} |->
     IF k = "total" THEN MonthlyTotal ELSE budget[k]]

\* _sensor_index, without computing any value.
SensorIndex == {"total"} \cup {b \in Budgets : budget[b] # 0}

Online == [topic |-> "availability", key |-> "all", payload |-> "online"]
ConfigOf(k) == [topic |-> "config", key |-> k, payload |-> "config"]
StateOf(k, v) == [topic |-> "state", key |-> k, payload |-> v]
Clear(k) == [topic |-> "config", key |-> k, payload |-> "none"]
EventConfig == [topic |-> "event_config", key |-> "all", payload |-> "config"]
Event == [topic |-> "event", key |-> "all", payload |-> "failure"]

Map(Op(_), S) == LET s == SetToSeq(S) IN [i \in DOMAIN s |-> Op(s[i])]

\* Mutant: what is switched off is left out, and no more.
Messages_Left(sensors, unwanted) ==
  LET wanted == DOMAIN sensors \ unwanted
  IN <<Online>> \o Map(ConfigOf, wanted) \o Map(LAMBDA k : StateOf(k, sensors[k]), wanted)

\* publish_all
Messages(sensors, unwanted) ==
  LET wanted == DOMAIN sensors \ unwanted
  IN <<Online>> \o Map(ConfigOf, wanted) \o Map(LAMBDA k : StateOf(k, sensors[k]), wanted)
       \o Map(Clear, DOMAIN sensors \cap unwanted)

InCycle == {t \in Callers : call[t].pc = "cycle"}

\* The cycle has read its sensors and is connected; the others are no longer alone.
PublishRead(t) ==
  /\ call[t].pc = "publish" /\ home.mqtt
  /\ call' = [u \in Callers |->
       IF u = t THEN [pc |-> "cycle", todo |-> Messages(Sensors, off), sensors |-> Sensors, off |-> off,
                      alone |-> InCycle = {}, whole |-> TRUE, up |-> TRUE]
       ELSE IF u \in InCycle THEN [call[u] EXCEPT !.alone = FALSE] ELSE call[u]]
  /\ calm' = FALSE
  /\ UNCHANGED <<subscriptions, budget, off, broker>>

\* publish_safe: MQTT is switched off, or there is no broker.
ConnectFails(t) ==
  /\ call[t].pc = "publish"
  /\ Goto(t, "idle")
  /\ UNCHANGED <<subscriptions, budget, off, broker, calm>>

\* The broker retains the message, or what it says to forget.
Retained(m) ==
  /\ config' = IF m.topic # "config" THEN config
               ELSE IF m.payload = "none" THEN config \ {m.key} ELSE config \cup {m.key}
  /\ state' = IF m.topic = "state" THEN [state EXCEPT ![m.key] = m.payload] ELSE state
  /\ avail' = IF m.topic = "availability" THEN m.payload ELSE avail

Sent(t) == [call EXCEPT ![t].todo = Tail(call[t].todo)]

Send(t) ==
  /\ call[t].pc = "cycle" /\ call[t].todo # <<>>
  /\ Retained(Head(call[t].todo))
  /\ call' = Sent(t)
  /\ UNCHANGED <<subscriptions, budget, off, wills, drops, calm>>

\* The broker refuses it, or it is still unsent when the wait for it ends.  Bound: once
\* in a cycle.
Lose(t) ==
  /\ call[t].pc = "cycle" /\ call[t].todo # <<>> /\ call[t].whole
  /\ call' = [Sent(t) EXCEPT ![t].whole = FALSE]
  /\ UNCHANGED <<subscriptions, budget, off, broker, calm>>

\* The connection drops; the network loop connects again.
Drop(t) ==
  /\ call[t].pc = "cycle" /\ call[t].up /\ drops < MaxDrops
  /\ call' = [call EXCEPT ![t].up = FALSE]
  /\ wills' = wills + 1 /\ drops' = drops + 1
  /\ UNCHANGED <<subscriptions, budget, off, config, state, avail, calm>>

WillFires ==
  /\ wills > 0 /\ wills' = wills - 1
  /\ avail' = "offline"
  /\ UNCHANGED <<subscriptions, call, budget, off, config, state, drops, calm>>

\* The client disconnects, which discards the will of its connection.
CycleEnds(t) ==
  /\ call[t].pc = "cycle" /\ call[t].todo = <<>>
  /\ Goto(t, "idle")
  /\ calm' = IF "sensors" \notin DOMAIN call[t] THEN calm
             ELSE /\ call[t].alone /\ call[t].whole
                  /\ call[t].sensors = Sensors /\ call[t].off = off
  /\ UNCHANGED <<subscriptions, budget, off, broker>>

\* publish_security_event: the event itself is not retained.
SecurityEvent(t) ==
  /\ Begin(t) /\ home.mqtt
  /\ call' = [call EXCEPT ![t] = [pc |-> "cycle", todo |-> <<Online, EventConfig, Event>>,
                                  alone |-> FALSE, whole |-> TRUE, up |-> TRUE]]
  /\ UNCHANGED <<charges, sub, history, budget, off, broker, calm>>

\* At startup, and POST /mqtt/publish.
PublishNow(t) ==
  /\ Begin(t) /\ home.mqtt
  /\ Goto(t, "publish")
  /\ UNCHANGED <<charges, sub, history, budget, off, broker, calm>>

\* What changes the database may change what the sensors show.
Unshown == calm' = (calm /\ Sensors' = Sensors /\ off' = off)

\* create_budget and update_budget (n > 0), delete_budget (n = 0).
SaveBudget(t, b, n) ==
  /\ Begin(t) /\ home.mqtt /\ budget[b] # n
  /\ budget' = [budget EXCEPT ![b] = n]
  /\ Goto(t, "publish")
  /\ UNCHANGED <<charges, sub, history, off, broker>> /\ Unshown

\* set_mqtt_sensors saves the selection and publishes nothing.
SetSelection(t, unwanted) ==
  /\ Begin(t) /\ home.mqtt /\ off # unwanted
  /\ off' = unwanted
  /\ UNCHANGED <<charges, sub, history, call, budget, broker>> /\ Unshown

Renewal(t) == Renewals(t) /\ UNCHANGED <<budget, off, broker>> /\ Unshown

\* The process stops: what is not committed is gone, and connections drop.
Crash ==
  /\ drops < MaxDrops /\ ~AllIdle
  /\ call' = [t \in Callers |-> Idle]
  /\ wills' = wills + Cardinality({t \in InCycle : call[t].up}) /\ drops' = drops + 1
  /\ UNCHANGED <<subscriptions, budget, off, config, state, avail, calm>>

Init ==
  /\ Begun /\ call = [t \in Callers |-> Idle]
  /\ budget = [b \in Budgets |-> 0] /\ off = {}
  /\ config = {} /\ state = [k \in Keys |-> 0] /\ avail = "none"
  /\ wills = 0 /\ drops = 0 /\ calm = FALSE

Next ==
  \/ \E t \in Callers :
       \/ Renewal(t) \/ PublishRead(t) \/ ConnectFails(t)
       \/ Send(t) \/ Lose(t) \/ Drop(t) \/ CycleEnds(t)
       \/ SecurityEvent(t) \/ PublishNow(t)
       \/ \E b \in Budgets, n \in Limits \cup {0} : SaveBudget(t, b, n)
       \/ \E unwanted \in SUBSET Keys : SetSelection(t, unwanted)
  \/ WillFires \/ Crash

Spec == Init /\ [][Next]_vars

-----------------------------------------------------------------------------
(* Properties.                                                             *)

\* After a cycle that was alone, lost no message, and saw the last change, Home Assistant
\* shows every sensor the owner has not switched off, with its value, and none that is
\* switched off; they are available unless a connection has dropped; and the status page
\* counts the sensors that are published.
ShownAsPublished ==
  calm =>
    /\ \A k \in DOMAIN Sensors \ off : k \in config /\ state[k] = Sensors[k]
    /\ \A k \in DOMAIN Sensors \cap off : k \notin config
    /\ avail = "online" \/ drops > 0
    /\ SensorIndex \ off = DOMAIN Sensors \ off
=============================================================================
