--------------------------- MODULE PublishingProofs ---------------------------
(***************************************************************************)
(* Proofs about Publishing and the subscriptions it shows, for any number  *)
(* of requests, budgets, charges and subscriptions, and for any lost       *)
(* messages, dropped connections, late wills and stops.                    *)
(***************************************************************************)
EXTENDS Publishing, TLAPS, FiniteSetTheorems, NaturalsInduction, WellFoundedInduction

\* The messages of a cycle that has read sensors and selection, and of a security event.
Wanted(sensors, unwanted) == DOMAIN sensors \ unwanted
Unwanted(sensors, unwanted) == DOMAIN sensors \cap unwanted
MessagesOf(sensors, unwanted) ==
  {Online} \cup {ConfigOf(k) : k \in Wanted(sensors, unwanted)}
           \cup {StateOf(k, sensors[k]) : k \in Wanted(sensors, unwanted)}
           \cup {Clear(k) : k \in Unwanted(sensors, unwanted)}
SecurityMessages == {Online, EventConfig, Event}

\* A publish cycle and a security event under way.
Cycles(sensors, unwanted, messages) ==
  [pc : {"cycle"}, todo : Seq(messages), sensors : {sensors}, off : {unwanted},
   alone : BOOLEAN, whole : BOOLEAN, up : BOOLEAN]
Events == [pc : {"cycle"}, todo : Seq(SecurityMessages), alone : {FALSE}, whole : BOOLEAN, up : BOOLEAN]
Publishes(c) ==
  c \in Cycles(c.sensors, c.off, MessagesOf(c.sensors, c.off)) /\ DOMAIN c.sensors \subseteq Keys
Tells(c) == c \in Events

\* A message the cycle has still to send.
In(m, s) == \E i \in DOMAIN s : s[i] = m
Due(m, c) == In(m, c.todo)

\* The broker holds what the cycle has sent.
HoldsWanted(c) ==
  \A k \in Wanted(c.sensors, c.off) :
    /\ Due(ConfigOf(k), c) \/ k \in config
    /\ Due(StateOf(k, c.sensors[k]), c) \/ state[k] = c.sensors[k]
HoldsUnwanted(c) == \A k \in Unwanted(c.sensors, c.off) : Due(Clear(k), c) \/ k \notin config
Holds(c) == HoldsWanted(c) /\ HoldsUnwanted(c) /\ (Due(Online, c) \/ avail = "online" \/ drops > 0)

CyclesFit ==
  /\ DOMAIN call = Callers /\ call = [t \in Callers |-> call[t]]
  /\ \A t \in InCycle : Publishes(call[t]) \/ Tells(call[t])
BrokerFits ==
  /\ state = [k \in Keys |-> state[k]]
  /\ drops \in Nat /\ (wills > 0 => drops > 0)

\* Beside a cycle that is alone, and when it is calm, there are security events at most.
AloneIsAlone ==
  \A t \in InCycle : call[t].alone => \A u \in InCycle \ {t} : Tells(call[u])
CalmIsCalm == calm => \A t \in InCycle : Tells(call[t])

\* What a cycle that is alone and lost nothing has sent is still there.
SentStays == \A t \in InCycle : call[t].alone /\ call[t].whole => Holds(call[t])

PublishingInv == CyclesFit /\ BrokerFits /\ AloneIsAlone /\ CalmIsCalm /\ SentStays /\ ShownAsPublished

-----------------------------------------------------------------------------
(* Messages.                                                               *)

\* SetToSeq lists every element of a finite set once.
LEMMA Listed ==
  ASSUME NEW S, IsFiniteSet(S)
  PROVE  /\ SetToSeq(S) \in [1..Cardinality(S) -> S]
         /\ \A x \in S : \E i \in 1..Cardinality(S) : SetToSeq(S)[i] = x
         /\ \A i, j \in 1..Cardinality(S) : SetToSeq(S)[i] = SetToSeq(S)[j] => i = j
         /\ Cardinality(S) \in Nat
<1>1. PICK n : n = Cardinality(S) OBVIOUS
<1>2. n \in Nat /\ ExistsBijection(1..n, S) BY <1>1, FS_CardinalityType
<1>3. \E f \in [1..n -> S] : IsInjective(f)
  BY <1>2 DEF ExistsBijection, Bijection, Injection, IsInjective
<1>4. SetToSeq(S) = CHOOSE f \in [1..n -> S] : IsInjective(f) BY <1>1, Zenon DEF SetToSeq
<1>5. PICK f : f = SetToSeq(S) OBVIOUS
<1>6. f \in [1..n -> S] /\ IsInjective(f) BY <1>3, <1>4, <1>5
<1>7. f \in Injection(1..n, S) BY <1>6 DEF Injection
<1>8. IsFiniteSet(1..n) /\ Cardinality(1..n) = n BY <1>2, FS_Interval
<1>9. f \in Surjection(1..n, S) BY <1>1, <1>7, <1>8, FS_Injection
<1> QED BY <1>1, <1>2, <1>5, <1>6, <1>9 DEF Surjection, IsInjective

\* A sequence of elements of M that has each of them.
Lists(s, M) == s \in Seq(M) /\ \A m \in M : \E i \in DOMAIN s : s[i] = m

\* The messages of one kind, one for each element of a set.
LEMMA Configs == ASSUME NEW S, IsFiniteSet(S) PROVE Lists(Map(ConfigOf, S), {ConfigOf(k) : k \in S})
<1>1. PICK s : s = SetToSeq(S) OBVIOUS
<1>2. Map(ConfigOf, S) = [i \in DOMAIN s |-> ConfigOf(s[i])] BY <1>1 DEF Map
<1> QED BY <1>1, <1>2, Listed DEF Lists

\* The messages of some keys are a list of their states.
LEMMA States ==
  ASSUME NEW S, IsFiniteSet(S), NEW f
  PROVE  Lists(Map(LAMBDA k : StateOf(k, f[k]), S), {StateOf(k, f[k]) : k \in S})
<1>1. PICK s : s = SetToSeq(S) OBVIOUS
<1>2. PICK n : n = Cardinality(S) OBVIOUS
<1>3. n \in Nat /\ s \in [1..n -> S] /\ \A x \in S : \E i \in 1..n : s[i] = x BY <1>1, <1>2, Listed
<1>4. PICK r : r = Map(LAMBDA k : StateOf(k, f[k]), S) OBVIOUS
<1>5. r = [i \in DOMAIN s |-> StateOf(s[i], f[s[i]])] BY <1>1, <1>4 DEF Map
<1>6. DOMAIN r = 1..n /\ \A i \in 1..n : r[i] = StateOf(s[i], f[s[i]]) BY <1>3, <1>5
<1>7. PICK M : M = {StateOf(k, f[k]) : k \in S} OBVIOUS
<1>8. \A i \in 1..n : r[i] \in M BY <1>3, <1>6, <1>7
<1>9. r = [i \in 1..n |-> r[i]] BY <1>3, <1>5
<1>10. r \in Seq(M) BY <1>3, <1>8, <1>9
<1>11. \A m \in M : \E i \in DOMAIN r : r[i] = m BY <1>3, <1>6, <1>7
<1>12. Lists(r, M) BY <1>10, <1>11 DEF Lists
<1> QED BY <1>4, <1>7, <1>12, Zenon

\* So are those that clear them.
LEMMA Clears == ASSUME NEW S, IsFiniteSet(S) PROVE Lists(Map(Clear, S), {Clear(k) : k \in S})
<1>1. PICK s : s = SetToSeq(S) OBVIOUS
<1>2. Map(Clear, S) = [i \in DOMAIN s |-> Clear(s[i])] BY <1>1 DEF Map
<1> QED BY <1>1, <1>2, Listed DEF Lists

\* Two lists one after the other.
LEMMA Joined ==
  ASSUME NEW A, NEW B, NEW s, NEW r, Lists(s, A), Lists(r, B)
  PROVE  Lists(s \o r, A \cup B)
<1>1. s \in Seq(A) /\ r \in Seq(B) BY DEF Lists
<1>2. PICK q : q = s \o r OBVIOUS
<1>3. q \in Seq(A \cup B) BY <1>1, <1>2
<1>4. \A i \in DOMAIN s : i \in DOMAIN q /\ q[i] = s[i] BY <1>1, <1>2
<1>5. \A i \in DOMAIN r : Len(s) + i \in DOMAIN q /\ q[Len(s) + i] = r[i] BY <1>1, <1>2
<1>6. \A m \in A : \E i \in DOMAIN q : q[i] = m BY <1>4 DEF Lists
<1>7. \A m \in B : \E i \in DOMAIN q : q[i] = m BY <1>5 DEF Lists
<1> QED BY <1>2, <1>3, <1>6, <1>7 DEF Lists

\* publish_all sends each of its messages and no other.
LEMMA AllMessages ==
  ASSUME NEW sensors, NEW unwanted, IsFiniteSet(DOMAIN sensors)
  PROVE  Lists(Messages(sensors, unwanted), MessagesOf(sensors, unwanted))
<1>1. PICK W : W = Wanted(sensors, unwanted) OBVIOUS
<1>2. PICK U : U = Unwanted(sensors, unwanted) OBVIOUS
<1>3. IsFiniteSet(W) /\ IsFiniteSet(U)
  BY <1>1, <1>2, FS_Subset DEF Wanted, Unwanted
<1>4. Messages(sensors, unwanted) =
        <<Online>> \o Map(ConfigOf, W) \o Map(LAMBDA k : StateOf(k, sensors[k]), W) \o Map(Clear, U)
  BY <1>1, <1>2, Zenon DEF Messages, Wanted, Unwanted
<1>5. Lists(<<Online>>, {Online}) BY DEF Lists
<1>6. PICK b : b = Map(ConfigOf, W) OBVIOUS
<1>7. PICK c : c = Map(LAMBDA k : StateOf(k, sensors[k]), W) OBVIOUS
<1>8. PICK d : d = Map(Clear, U) OBVIOUS
<1>9. PICK B : B = {ConfigOf(k) : k \in W} OBVIOUS
<1>10. PICK C : C = {StateOf(k, sensors[k]) : k \in W} OBVIOUS
<1>11. PICK D : D = {Clear(k) : k \in U} OBVIOUS
<1>12. Lists(b, B) BY <1>3, <1>6, <1>9, Configs
<1>13. Lists(c, C) BY <1>3, <1>7, <1>10, States, Zenon
<1>14. Lists(d, D) BY <1>3, <1>8, <1>11, Clears
<1>15. Lists(<<Online>> \o b, {Online} \cup B) BY <1>5, <1>12, Joined
<1>16. Lists(<<Online>> \o b \o c, {Online} \cup B \cup C) BY <1>13, <1>15, Joined
<1>17. Lists(<<Online>> \o b \o c \o d, {Online} \cup B \cup C \cup D) BY <1>14, <1>16, Joined
<1>18. MessagesOf(sensors, unwanted) = {Online} \cup B \cup C \cup D
  BY <1>1, <1>2, <1>9, <1>10, <1>11, Zenon DEF MessagesOf
<1>19. Messages(sensors, unwanted) = <<Online>> \o b \o c \o d
  BY <1>4, <1>6, <1>7, <1>8, Zenon
<1> QED BY <1>17, <1>18, <1>19

\* What is due after a message has been sent or lost.
LEMMA TailDue ==
  ASSUME NEW M, NEW s \in Seq(M), s # <<>>
  PROVE  /\ Head(s) \in M /\ Tail(s) \in Seq(M)
         /\ \A m : In(m, s) => m = Head(s) \/ In(m, Tail(s))
<1>1. PICK n : n = Len(s) OBVIOUS
<1>2. n \in Nat /\ n # 0 /\ DOMAIN s = 1..n BY <1>1
<1>3. PICK r : r = Tail(s) OBVIOUS
<1>4. r \in Seq(M) /\ DOMAIN r = 1..(n - 1) /\ Head(s) = s[1] BY <1>1, <1>2, <1>3
<1>5. \A i \in 1..(n - 1) : r[i] = s[i + 1] BY <1>1, <1>2, <1>3
<1>6. s[1] \in M BY <1>1, <1>2
<1>7. ASSUME NEW i \in 1..n, i # 1 PROVE In(s[i], r)
  <2>1. i - 1 \in 1..(n - 1) /\ (i - 1) + 1 = i BY <1>2, <1>7
  <2>2. r[i - 1] = s[i] BY <1>5, <2>1
  <2> QED BY <1>4, <2>1, <2>2 DEF In
<1>8. \A m : In(m, s) => m = Head(s) \/ In(m, r) BY <1>2, <1>4, <1>7 DEF In
<1> QED BY <1>3, <1>4, <1>6, <1>8

-----------------------------------------------------------------------------
(* Steps.                                                                  *)

\* The sensors depend on the subscriptions and the budgets only.
LEMMA SensorsSame == UNCHANGED <<subscriptions, budget>> => Sensors' = Sensors
BY DEF subscriptions, charges, history, Sensors, MonthlyTotal, Active, Live

\* There are finitely many sensors.
LEMMA SensorsFinite == IsFiniteSet(DOMAIN Sensors) /\ DOMAIN Sensors \subseteq Keys
<1>1. IsFiniteSet({"total"} \cup Budgets) BY BudgetsAssumption, FS_AddElement
<1>2. DOMAIN Sensors \subseteq {"total"} \cup Budgets BY DEF Sensors
<1> QED BY <1>1, <1>2, FS_Subset DEF Keys

\* A cycle and a security event are not the same.
LEMMA Kinds ==
  ASSUME NEW c
  PROVE  /\ Publishes(c) => c.pc = "cycle" /\ "sensors" \in DOMAIN c /\ ~Tells(c) /\ c.alone \in BOOLEAN
         /\ Tells(c) => c.pc = "cycle" /\ "sensors" \notin DOMAIN c /\ c.alone = FALSE
BY DEF Publishes, Tells, Cycles, Events

\* No cycle begins, ends or sends, and the broker keeps what it has.
CyclesSame ==
  /\ DOMAIN call' = Callers /\ call' = [t \in Callers |-> call'[t]]
  /\ InCycle' = InCycle /\ \A t \in InCycle : call'[t] = call[t]
  /\ UNCHANGED broker

\* A step that leaves the cycles and the broker keeps the invariant,
LEMMA Frame ==
  ASSUME PublishingInv, CyclesSame, calm' => calm /\ Sensors' = Sensors /\ off' = off
  PROVE  PublishingInv'
<1> USE DEF PublishingInv, CyclesSame, broker
<1>1. CyclesFit' BY DEF CyclesFit
<1>2. BrokerFits' BY DEF BrokerFits
<1>3. AloneIsAlone' BY DEF AloneIsAlone
<1>4. CalmIsCalm' BY DEF CalmIsCalm
<1>5. SentStays' BY DEF SentStays, Holds, HoldsWanted, HoldsUnwanted
<1>6. SensorIndex \ off = DOMAIN Sensors \ off BY DEF SensorIndex, Sensors
<1>7. ShownAsPublished'
  <2>1. (SensorIndex \ off = DOMAIN Sensors \ off)' BY <1>6 DEF SensorIndex, Sensors
  <2> QED BY <2>1 DEF ShownAsPublished
<1> QED BY <1>1, <1>2, <1>3, <1>4, <1>5, <1>7

\* A call that is in no cycle goes to where it is in none.
LEMMA Elsewhere ==
  ASSUME CyclesFit, NEW t \in Callers, call[t].pc # "cycle", NEW c, c.pc # "cycle",
         call' = [call EXCEPT ![t] = c], UNCHANGED broker
  PROVE  CyclesSame
BY DEF CyclesFit, CyclesSame, InCycle, broker

\* The steps of Subscriptions.
LEMMA RenewalFrame ==
  ASSUME CyclesFit, NEW t \in Callers, Renewals(t), UNCHANGED broker
  PROVE  CyclesSame
<1>0. CASE UNCHANGED call BY <1>0 DEF CyclesSame, CyclesFit, InCycle
<1>1. ASSUME NEW next \in {"idle", "detect_after", "publish"}, call[t].pc # "cycle", Goto(t, next)
      PROVE  CyclesSame
  BY <1>1, Elsewhere DEF Goto
<1>2. ASSUME NEW b, ImportRows(t, b) PROVE CyclesSame
  <2>1. Goto(t, "detect_after") /\ call[t].pc = "idle" BY <1>2 DEF ImportRows, Begin
  <2> QED BY <1>1, <2>1
<1>3. CASE Recategorise(t) BY <1>0, <1>3 DEF Recategorise
<1>4. CASE DetectStart(t) BY <1>4, Elsewhere DEF DetectStart, Begin
<1>5. CASE DetectAfter(t) BY <1>5, Elsewhere DEF DetectAfter
<1>6. CASE DetectCommit(t)
  <2>1. Goto(t, "publish") /\ call[t].pc = "detected" BY <1>6 DEF DetectCommit
  <2> QED BY <1>1, <2>1
<1>7. CASE DetectFails(t) BY <1>1, <1>7 DEF DetectFails
<1>8. ASSUME NEW l, NEW v, Match(t, l, v) PROVE CyclesSame BY <1>0, <1>8 DEF Match
<1>9. ASSUME NEW v, NEW w, MergeVendor(t, v, w) \/ DeleteVendor(t, v) PROVE CyclesSame
  BY <1>0, <1>9 DEF MergeVendor, DeleteVendor, Repoint
<1>10. ASSUME NEW i, NEW x, SetStatus(t, i, x) \/ Rename(t, i, x) \/ DeleteSubscription(t, i) PROVE CyclesSame
  BY <1>1, <1>10 DEF SetStatus, Rename, DeleteSubscription, Begin
<1> QED BY <1>2, <1>3, <1>4, <1>5, <1>6, <1>7, <1>8, <1>9, <1>10 DEF Renewals

\* One cycle goes on: another call of the same kind with the same sensors takes its place.
Goes(c, d) ==
  /\ Publishes(c) => Publishes(d) /\ d.sensors = c.sensors /\ d.off = c.off
  /\ Tells(c) => Tells(d)
  /\ d.alone => c.alone
  /\ d.whole => c.whole

\* It is no longer alone, its connection is gone, or its first message is.
LEMMA GoesOn ==
  ASSUME NEW c, Publishes(c) \/ Tells(c),
         NEW rest, Publishes(c) => rest \in Seq(MessagesOf(c.sensors, c.off)),
         Tells(c) => rest \in Seq(SecurityMessages)
  PROVE  /\ Goes(c, [c EXCEPT !.alone = FALSE]) /\ [c EXCEPT !.alone = FALSE].alone = FALSE
         /\ Goes(c, [c EXCEPT !.up = FALSE]) /\ [c EXCEPT !.up = FALSE].todo = c.todo
         /\ Goes(c, [c EXCEPT !.todo = rest]) /\ [c EXCEPT !.todo = rest].todo = rest
         /\ Goes(c, [[c EXCEPT !.todo = rest] EXCEPT !.whole = FALSE])
         /\ [[c EXCEPT !.todo = rest] EXCEPT !.whole = FALSE].whole = FALSE
<1>1. CASE Publishes(c)
  <2>1. PICK S, O : S = c.sensors /\ O = c.off OBVIOUS
  <2>2. PICK M : M = MessagesOf(S, O) OBVIOUS
  <2>3. c \in Cycles(S, O, M) /\ DOMAIN S \subseteq Keys /\ rest \in Seq(M) BY <1>1, <2>1, <2>2 DEF Publishes
  <2>4. ASSUME NEW d \in Cycles(S, O, M) PROVE Publishes(d) /\ d.sensors = S /\ d.off = O
    <3>1. d.sensors = S /\ d.off = O BY DEF Cycles
    <3> QED BY <2>2, <2>3, <3>1 DEF Publishes
  <2>5. /\ [c EXCEPT !.alone = FALSE] \in Cycles(S, O, M)
        /\ [c EXCEPT !.up = FALSE] \in Cycles(S, O, M)
        /\ [c EXCEPT !.todo = rest] \in Cycles(S, O, M)
        /\ [[c EXCEPT !.todo = rest] EXCEPT !.whole = FALSE] \in Cycles(S, O, M)
    BY <2>3 DEF Cycles
  <2>6. /\ [c EXCEPT !.alone = FALSE].alone = FALSE /\ [c EXCEPT !.alone = FALSE].whole = c.whole
        /\ [c EXCEPT !.up = FALSE].alone = c.alone /\ [c EXCEPT !.up = FALSE].whole = c.whole
        /\ [c EXCEPT !.up = FALSE].todo = c.todo
        /\ [c EXCEPT !.todo = rest].alone = c.alone /\ [c EXCEPT !.todo = rest].whole = c.whole
        /\ [c EXCEPT !.todo = rest].todo = rest
        /\ [[c EXCEPT !.todo = rest] EXCEPT !.whole = FALSE].alone = c.alone
        /\ [[c EXCEPT !.todo = rest] EXCEPT !.whole = FALSE].whole = FALSE
    BY <2>3 DEF Cycles
  <2> QED BY <1>1, <2>1, <2>4, <2>5, <2>6, Kinds DEF Goes
<1>2. CASE Tells(c)
  <2>1. c \in Events /\ rest \in Seq(SecurityMessages) BY <1>2 DEF Tells
  <2>2. /\ Tells([c EXCEPT !.alone = FALSE]) /\ Tells([c EXCEPT !.up = FALSE])
        /\ Tells([c EXCEPT !.todo = rest])
        /\ Tells([[c EXCEPT !.todo = rest] EXCEPT !.whole = FALSE])
    BY <2>1 DEF Tells, Events
  <2>3. /\ [c EXCEPT !.alone = FALSE].alone = FALSE /\ [c EXCEPT !.alone = FALSE].whole = c.whole
        /\ [c EXCEPT !.up = FALSE].alone = c.alone /\ [c EXCEPT !.up = FALSE].whole = c.whole
        /\ [c EXCEPT !.up = FALSE].todo = c.todo
        /\ [c EXCEPT !.todo = rest].alone = c.alone /\ [c EXCEPT !.todo = rest].whole = c.whole
        /\ [c EXCEPT !.todo = rest].todo = rest
        /\ [[c EXCEPT !.todo = rest] EXCEPT !.whole = FALSE].alone = c.alone
        /\ [[c EXCEPT !.todo = rest] EXCEPT !.whole = FALSE].whole = FALSE
    BY <2>1 DEF Events
  <2> QED BY <1>2, <2>2, <2>3, Kinds DEF Goes
<1> QED BY <1>1, <1>2

\* Where it takes the place of the call.
LEMMA GoesFit ==
  ASSUME PublishingInv, NEW t \in InCycle, NEW d, Goes(call[t], d), call' = [call EXCEPT ![t] = d]
  PROVE  CyclesFit' /\ AloneIsAlone' /\ InCycle' = InCycle /\ call'[t] = d
         /\ \A u \in InCycle \ {t} : call'[u] = call[u]
<1> USE DEF PublishingInv
<1>1. t \in Callers /\ call'[t] = d /\ \A u \in Callers \ {t} : call'[u] = call[u] BY DEF CyclesFit, InCycle
<1>2. Publishes(d) \/ Tells(d) BY DEF CyclesFit, Goes
<1>3. d.pc = "cycle" BY <1>2, Kinds
<1>4. InCycle' = InCycle BY <1>1, <1>3 DEF InCycle
<1>5. CyclesFit' BY <1>1, <1>2, <1>4 DEF CyclesFit, InCycle
<1>6. AloneIsAlone' BY <1>1, <1>4 DEF AloneIsAlone, Goes, InCycle
<1> QED BY <1>1, <1>4, <1>5, <1>6 DEF InCycle

\* The messages of a call, the first of which is sent or lost.
LEMMA FirstMessage ==
  ASSUME PublishingInv, NEW t \in InCycle, call[t].todo # <<>>
  PROVE  /\ Publishes(call[t]) => /\ Head(call[t].todo) \in MessagesOf(call[t].sensors, call[t].off)
                                  /\ Tail(call[t].todo) \in Seq(MessagesOf(call[t].sensors, call[t].off))
         /\ Tells(call[t]) => /\ Head(call[t].todo) \in SecurityMessages
                              /\ Tail(call[t].todo) \in Seq(SecurityMessages)
         /\ \A m : In(m, call[t].todo) => m = Head(call[t].todo) \/ In(m, Tail(call[t].todo))
<1>1. PICK c : c = call[t] OBVIOUS
<1>2. PICK M : M = MessagesOf(c.sensors, c.off) OBVIOUS
<1>3. Publishes(c) => c.todo \in Seq(M) BY <1>2 DEF Publishes, Cycles
<1>4. Tells(c) => c.todo \in Seq(SecurityMessages) BY DEF Tells, Events
<1>5. Publishes(c) \/ Tells(c) BY <1>1 DEF PublishingInv, CyclesFit
<1> QED BY <1>1, <1>2, <1>3, <1>4, <1>5, TailDue

\* A cycle that has read the sensors has everything to send.
LEMMA ReadKeeps ==
  ASSUME PublishingInv, NEW t \in Callers, PublishRead(t)
  PROVE  PublishingInv'
<1> USE DEF PublishingInv
<1>1. PICK c : c = [pc |-> "cycle", todo |-> Messages(Sensors, off), sensors |-> Sensors, off |-> off,
                    alone |-> InCycle = {}, whole |-> TRUE, up |-> TRUE]
  OBVIOUS
<1>2. /\ call' = [u \in Callers |-> IF u = t THEN c
                                    ELSE IF u \in InCycle THEN [call[u] EXCEPT !.alone = FALSE] ELSE call[u]]
      /\ t \notin InCycle /\ calm' = FALSE /\ UNCHANGED <<subscriptions, budget, off, broker>>
  BY <1>1 DEF PublishRead, InCycle
<1>3. c.pc = "cycle" /\ c.todo = Messages(Sensors, off) /\ c.sensors = Sensors /\ c.off = off
      /\ c.alone = (InCycle = {})
  BY <1>1
<1>4. Lists(c.todo, MessagesOf(Sensors, off)) BY <1>3, AllMessages, SensorsFinite
<1>5. Publishes(c)
  <2>1. c.todo \in Seq(MessagesOf(Sensors, off)) BY <1>4 DEF Lists
  <2>2. PICK s, M : s = c.todo /\ M = MessagesOf(Sensors, off) OBVIOUS
  <2>3. c \in Cycles(Sensors, off, M) BY <1>1, <1>3, <2>1, <2>2 DEF Cycles
  <2> QED BY <1>3, <2>2, <2>3, SensorsFinite DEF Publishes
<1>6. ASSUME NEW u \in InCycle
      PROVE  call'[u].pc = "cycle" /\ (Publishes(call'[u]) \/ Tells(call'[u])) /\ call'[u].alone = FALSE
  <2>1. u # t /\ u \in Callers /\ call'[u] = [call[u] EXCEPT !.alone = FALSE] BY <1>2 DEF InCycle
  <2>2. PICK d : d = call[u] OBVIOUS
  <2>3. Publishes(d) \/ Tells(d) BY <2>2 DEF CyclesFit
  <2>4. Publishes(d) => d.todo \in Seq(MessagesOf(d.sensors, d.off)) BY DEF Publishes, Cycles
  <2>5. Tells(d) => d.todo \in Seq(SecurityMessages) BY DEF Tells, Events
  <2>6. Goes(d, [d EXCEPT !.alone = FALSE]) /\ [d EXCEPT !.alone = FALSE].alone = FALSE
    BY <2>3, <2>4, <2>5, GoesOn
  <2> QED BY <2>1, <2>2, <2>3, <2>6, Kinds DEF Goes
<1>7. InCycle' = InCycle \cup {t} /\ call'[t] = c
  <2>1. call'[t] = c BY <1>2
  <2>2. \A u \in Callers \ {t} : u \in InCycle <=> call'[u].pc = "cycle" BY <1>2, <1>6 DEF InCycle
  <2> QED BY <1>3, <2>1, <2>2 DEF InCycle
<1>8. CyclesFit' BY <1>2, <1>5, <1>6, <1>7 DEF CyclesFit
<1>9. BrokerFits' BY <1>2 DEF BrokerFits, broker
<1>10. \A u \in InCycle' : call'[u].alone => u = t /\ InCycle = {} BY <1>3, <1>6, <1>7
<1>11. AloneIsAlone' BY <1>7, <1>10 DEF AloneIsAlone
<1>12. CalmIsCalm' /\ ShownAsPublished' BY <1>2 DEF CalmIsCalm, ShownAsPublished
<1>13. Holds(c)'
  <2>1. \A m \in MessagesOf(Sensors, off) : In(m, c.todo) BY <1>4 DEF Lists, In
  <2>2. HoldsWanted(c)' BY <1>3, <2>1 DEF HoldsWanted, Due, MessagesOf
  <2>3. HoldsUnwanted(c)' BY <1>3, <2>1 DEF HoldsUnwanted, Due, MessagesOf
  <2> QED BY <2>1, <2>2, <2>3 DEF Holds, Due, MessagesOf
<1>14. SentStays' BY <1>7, <1>10, <1>13 DEF SentStays
<1> QED BY <1>8, <1>9, <1>11, <1>12, <1>14

\* What the broker does with a message of a cycle keeps what the cycle has sent before.
LEMMA BrokerTakes ==
  ASSUME BrokerFits, NEW c, Publishes(c), Holds(c), NEW m \in MessagesOf(c.sensors, c.off), Retained(m),
         UNCHANGED drops, NEW d, d.sensors = c.sensors, d.off = c.off,
         \A n : Due(n, c) => n = m \/ Due(n, d)
  PROVE  Holds(d)'
<1>1. DOMAIN c.sensors \subseteq Keys BY DEF Publishes
<1>2. \A k \in Keys : state'[k] = IF m.topic = "state" /\ m.key = k THEN m.payload ELSE state[k]
  BY DEF BrokerFits, Retained
<1>3. CASE m = Online
  <2>1. m.topic = "availability" /\ m.payload = "online" BY <1>3 DEF Online
  <2>2. config' = config /\ state' = state /\ avail' = "online" BY <2>1 DEF Retained
  <2>3. \A k : ConfigOf(k) # m /\ Clear(k) # m /\ \A v : StateOf(k, v) # m
    BY <1>3 DEF Online, ConfigOf, Clear, StateOf
  <2> QED BY <2>2, <2>3 DEF Holds, HoldsWanted, HoldsUnwanted
<1>4. ASSUME NEW j \in Wanted(c.sensors, c.off), m = ConfigOf(j) PROVE Holds(d)'
  <2>1. m.topic = "config" /\ m.key = j /\ m.payload = "config" BY <1>4 DEF ConfigOf
  <2>2. config' = config \cup {j} /\ state' = state /\ avail' = avail BY <2>1 DEF Retained
  <2>3. Online # m /\ \A k : Clear(k) # m /\ \A v : StateOf(k, v) # m
    BY <1>4 DEF Online, ConfigOf, Clear, StateOf
  <2>4. \A k : ConfigOf(k) = m => k = j BY <2>1 DEF ConfigOf
  <2>5. j \notin Unwanted(c.sensors, c.off) BY DEF Wanted, Unwanted
  <2> QED BY <2>2, <2>3, <2>4, <2>5 DEF Holds, HoldsWanted, HoldsUnwanted
<1>5. ASSUME NEW j \in Wanted(c.sensors, c.off), m = StateOf(j, c.sensors[j]) PROVE Holds(d)'
  <2>1. m.topic = "state" /\ m.key = j /\ m.payload = c.sensors[j] BY <1>5 DEF StateOf
  <2>2. config' = config /\ avail' = avail BY <2>1 DEF Retained
  <2>3. Online # m /\ \A k : Clear(k) # m /\ ConfigOf(k) # m
    BY <1>5 DEF Online, ConfigOf, Clear, StateOf
  <2>4. \A k, v : StateOf(k, v) = m => k = j BY <2>1 DEF StateOf
  <2>5. \A k \in Wanted(c.sensors, c.off) : k \in Keys BY <1>1 DEF Wanted
  <2>6. \A k \in Wanted(c.sensors, c.off) :
          state'[k] = c.sensors[k] \/ (k # j /\ state'[k] = state[k])
    BY <1>2, <2>1, <2>5
  <2>7. HoldsWanted(d)' BY <2>2, <2>3, <2>4, <2>6 DEF Holds, HoldsWanted
  <2>8. HoldsUnwanted(d)' BY <2>2, <2>3 DEF Holds, HoldsUnwanted
  <2> QED BY <2>2, <2>3, <2>7, <2>8 DEF Holds
<1>6. ASSUME NEW j \in Unwanted(c.sensors, c.off), m = Clear(j) PROVE Holds(d)'
  <2>1. m.topic = "config" /\ m.key = j /\ m.payload = "none" BY <1>6 DEF Clear
  <2>2. config' = config \ {j} /\ state' = state /\ avail' = avail BY <2>1 DEF Retained
  <2>3. Online # m /\ \A k : ConfigOf(k) # m /\ \A v : StateOf(k, v) # m
    BY <1>6 DEF Online, ConfigOf, Clear, StateOf
  <2>4. \A k : Clear(k) = m => k = j BY <2>1 DEF Clear
  <2>5. j \notin Wanted(c.sensors, c.off) BY DEF Wanted, Unwanted
  <2> QED BY <2>2, <2>3, <2>4, <2>5 DEF Holds, HoldsWanted, HoldsUnwanted
<1> QED BY <1>3, <1>4, <1>5, <1>6 DEF MessagesOf

\* The messages of a security event change no sensor.
LEMMA EventTaken ==
  ASSUME NEW m \in SecurityMessages, Retained(m)
  PROVE  config' = config /\ state' = state /\ (avail' = "online" \/ avail' = avail)
BY DEF SecurityMessages, Retained, Online, EventConfig, Event

\* What a cycle has sent stays while nothing of the sensors changes at the broker.
LEMMA HoldsOn ==
  ASSUME NEW c, Holds(c), NEW d, d.sensors = c.sensors, d.off = c.off, d.todo = c.todo,
         config' = config, state' = state, avail' \in {avail, "online"} \/ drops' > 0, drops > 0 => drops' > 0
  PROVE  Holds(d)'
BY DEF Holds, HoldsWanted, HoldsUnwanted, Due

\* and one that leaves what the broker holds keeps what is shown.
LEMMA ShownOn ==
  ASSUME ShownAsPublished, Sensors' = Sensors, UNCHANGED <<budget, off, config, state>>, calm' => calm,
         avail' \in {avail, "online"} \/ drops' > 0, drops > 0 => drops' > 0
  PROVE  ShownAsPublished'
<1>1. (SensorIndex \ off = DOMAIN Sensors \ off)' BY DEF SensorIndex, Sensors
<1> QED BY <1>1 DEF ShownAsPublished

\* A message is sent.
LEMMA SendKeeps ==
  ASSUME PublishingInv, NEW t \in Callers, Send(t)
  PROVE  PublishingInv'
<1> USE DEF PublishingInv
<1>1. PICK c, m : c = call[t] /\ m = Head(c.todo) OBVIOUS
<1>2. PICK d : d = [c EXCEPT !.todo = Tail(c.todo)] OBVIOUS
<1>3. t \in InCycle /\ c.todo # <<>> BY <1>1 DEF Send, InCycle
<1>4. /\ Retained(m) /\ call' = [call EXCEPT ![t] = d]
      /\ UNCHANGED <<subscriptions, budget, off, wills, drops, calm>>
  BY <1>1, <1>2 DEF Send, Sent
<1>5. /\ Publishes(c) => m \in MessagesOf(c.sensors, c.off)
      /\ Tells(c) => m \in SecurityMessages
      /\ Goes(c, d) /\ \A n : Due(n, c) => n = m \/ Due(n, d)
  <2>1. PICK rest : rest = Tail(c.todo) OBVIOUS
  <2>2. Publishes(c) \/ Tells(c) BY <1>1, <1>3 DEF CyclesFit
  <2>3. /\ Publishes(c) => m \in MessagesOf(c.sensors, c.off) /\ rest \in Seq(MessagesOf(c.sensors, c.off))
        /\ Tells(c) => m \in SecurityMessages /\ rest \in Seq(SecurityMessages)
        /\ \A n : In(n, c.todo) => n = m \/ In(n, rest)
    BY <1>1, <1>3, <2>1, FirstMessage
  <2>4. Goes(c, d) /\ d.todo = rest BY <1>2, <2>1, <2>2, <2>3, GoesOn
  <2> QED BY <2>3, <2>4 DEF Due
<1>6. CyclesFit' /\ AloneIsAlone' /\ InCycle' = InCycle /\ call'[t] = d
      /\ \A u \in InCycle \ {t} : call'[u] = call[u]
  BY <1>1, <1>3, <1>4, <1>5, GoesFit
<1>7. BrokerFits' BY <1>4 DEF BrokerFits, Retained
<1>8. CalmIsCalm' BY <1>1, <1>3, <1>4, <1>5, <1>6 DEF CalmIsCalm, Goes
<1>9. ASSUME NEW u \in InCycle, call'[u].alone, call'[u].whole PROVE Holds(call[u])'
  <2>1. CASE u = t
    <3>1. c.alone /\ c.whole BY <1>5, <1>6, <1>9, <2>1 DEF Goes
    <3>2. Publishes(c) BY <1>1, <1>3, <3>1, Kinds DEF CyclesFit
    <3>3. Holds(c) BY <1>1, <1>3, <3>1 DEF SentStays
    <3>4. d.sensors = c.sensors /\ d.off = c.off BY <1>5, <3>2 DEF Goes
    <3>5. Holds(d)' BY <1>4, <1>5, <3>2, <3>3, <3>4, BrokerTakes
    <3> QED BY <1>6, <2>1, <3>5
  <2>2. CASE u # t
    <3>1. call'[u] = call[u] BY <1>6, <2>2
    <3>2. Holds(call[u]) /\ Tells(c) BY <1>1, <1>3, <1>9, <2>2, <3>1 DEF SentStays, AloneIsAlone
    <3>3. config' = config /\ state' = state /\ avail' \in {avail, "online"}
      BY <1>4, <1>5, <3>2, EventTaken
    <3> QED BY <1>4, <3>1, <3>2, <3>3, HoldsOn
  <2> QED BY <2>1, <2>2
<1>10. SentStays' BY <1>6, <1>9 DEF SentStays
<1>11. ShownAsPublished'
  <2>1. CASE ~calm BY <1>4, <2>1 DEF ShownAsPublished
  <2>2. CASE calm
    <3>1. Tells(c) BY <1>1, <1>3, <2>2 DEF CalmIsCalm
    <3>2. config' = config /\ state' = state /\ avail' \in {avail, "online"} BY <1>4, <1>5, <3>1, EventTaken
    <3> QED BY <1>4, <3>2, ShownOn, SensorsSame
  <2> QED BY <2>1, <2>2
<1> QED BY <1>6, <1>7, <1>8, <1>10, <1>11

\* A message is lost.
LEMMA LoseKeeps ==
  ASSUME PublishingInv, NEW t \in Callers, Lose(t)
  PROVE  PublishingInv'
<1> USE DEF PublishingInv
<1>1. PICK c, rest : c = call[t] /\ rest = Tail(c.todo) OBVIOUS
<1>2. PICK d : d = [[c EXCEPT !.todo = rest] EXCEPT !.whole = FALSE] OBVIOUS
<1>3. t \in InCycle /\ c.todo # <<>> BY <1>1 DEF Lose, InCycle
<1>4. call' = [call EXCEPT ![t] = d] BY <1>1, <1>2 DEF Lose, Sent, CyclesFit
<1>5. UNCHANGED <<subscriptions, budget, off, broker, calm>> BY DEF Lose
<1>6. Goes(c, d) /\ d.whole = FALSE
  <2>1. Publishes(c) \/ Tells(c) BY <1>1, <1>3 DEF CyclesFit
  <2>2. /\ Publishes(c) => rest \in Seq(MessagesOf(c.sensors, c.off))
        /\ Tells(c) => rest \in Seq(SecurityMessages)
    BY <1>1, <1>3, FirstMessage
  <2> QED BY <1>2, <2>1, <2>2, GoesOn
<1>7. CyclesFit' /\ AloneIsAlone' /\ InCycle' = InCycle /\ call'[t] = d
      /\ \A u \in InCycle \ {t} : call'[u] = call[u]
  BY <1>1, <1>3, <1>4, <1>6, GoesFit
<1>8. BrokerFits' BY <1>5 DEF BrokerFits, broker
<1>9. CalmIsCalm' BY <1>1, <1>3, <1>5, <1>6, <1>7 DEF CalmIsCalm, Goes
<1>10. SentStays' BY <1>5, <1>6, <1>7, HoldsOn DEF SentStays, broker
<1>11. ShownAsPublished' BY <1>5, ShownOn, SensorsSame DEF broker
<1> QED BY <1>7, <1>8, <1>9, <1>10, <1>11

\* A connection drops.
LEMMA DropKeeps ==
  ASSUME PublishingInv, NEW t \in Callers, Drop(t)
  PROVE  PublishingInv'
<1> USE DEF PublishingInv
<1>1. PICK c : c = call[t] OBVIOUS
<1>2. PICK d : d = [c EXCEPT !.up = FALSE] OBVIOUS
<1>3. t \in InCycle BY DEF Drop, InCycle
<1>4. call' = [call EXCEPT ![t] = d] BY <1>1, <1>2 DEF Drop
<1>5. UNCHANGED <<subscriptions, budget, off, config, state, avail, calm>> /\ drops' = drops + 1 BY DEF Drop
<1>6. drops' \in Nat /\ drops' > 0 BY <1>5 DEF BrokerFits
<1>7. Goes(c, d) /\ d.todo = c.todo
  <2>1. Publishes(c) \/ Tells(c) BY <1>1, <1>3 DEF CyclesFit
  <2>2. PICK rest : rest = c.todo OBVIOUS
  <2>3. Publishes(c) => rest \in Seq(MessagesOf(c.sensors, c.off)) BY <2>2 DEF Publishes, Cycles
  <2>4. Tells(c) => rest \in Seq(SecurityMessages) BY <2>2 DEF Tells, Events
  <2> QED BY <1>2, <2>1, <2>3, <2>4, GoesOn
<1>8. CyclesFit' /\ AloneIsAlone' /\ InCycle' = InCycle /\ call'[t] = d
      /\ \A u \in InCycle \ {t} : call'[u] = call[u]
  BY <1>1, <1>3, <1>4, <1>7, GoesFit
<1>9. BrokerFits' BY <1>5, <1>6 DEF BrokerFits
<1>10. CalmIsCalm' BY <1>1, <1>3, <1>5, <1>7, <1>8 DEF CalmIsCalm, Goes
<1>11. ASSUME NEW u \in InCycle, call'[u].alone, call'[u].whole PROVE Holds(call[u])'
  <2>1. CASE u = t
    <3>1. c.alone /\ c.whole BY <1>7, <1>8, <1>11, <2>1 DEF Goes
    <3>2. Publishes(c) BY <1>1, <1>3, <3>1, Kinds DEF CyclesFit
    <3>3. Holds(c) BY <1>1, <1>3, <3>1 DEF SentStays
    <3>4. d.sensors = c.sensors /\ d.off = c.off BY <1>7, <3>2 DEF Goes
    <3> QED BY <1>5, <1>6, <1>7, <1>8, <2>1, <3>3, <3>4, HoldsOn
  <2>2. CASE u # t BY <1>5, <1>6, <1>8, <1>11, <2>2, HoldsOn DEF SentStays
  <2> QED BY <2>1, <2>2
<1>12. SentStays' BY <1>8, <1>11 DEF SentStays
<1>13. ShownAsPublished' BY <1>5, <1>6, ShownOn, SensorsSame
<1> QED BY <1>8, <1>9, <1>10, <1>12, <1>13

\* A will fires.
LEMMA WillKeeps ==
  ASSUME PublishingInv, WillFires
  PROVE  PublishingInv'
<1> USE DEF PublishingInv
<1>1. /\ UNCHANGED <<subscriptions, call, budget, off, config, state, drops, calm>>
      /\ wills > 0 /\ drops' > 0
  BY DEF WillFires, BrokerFits
<1>2. CyclesFit' /\ AloneIsAlone' /\ CalmIsCalm' /\ InCycle' = InCycle
  BY <1>1 DEF CyclesFit, AloneIsAlone, CalmIsCalm, InCycle
<1>3. BrokerFits' BY <1>1 DEF BrokerFits
<1>4. SentStays' BY <1>1, <1>2, HoldsOn DEF SentStays
<1>5. ShownAsPublished' BY <1>1, ShownOn, SensorsSame
<1> QED BY <1>2, <1>3, <1>4, <1>5

\* A call ends.
LEMMA EndKeeps ==
  ASSUME PublishingInv, NEW t \in Callers, CycleEnds(t)
  PROVE  PublishingInv'
<1> USE DEF PublishingInv
<1>1. PICK c : c = call[t] OBVIOUS
<1>2. /\ t \in InCycle /\ c.todo = <<>> /\ UNCHANGED <<subscriptions, budget, off, broker>>
      /\ calm' = IF "sensors" \notin DOMAIN c THEN calm
                 ELSE c.alone /\ c.whole /\ c.sensors = Sensors /\ c.off = off
  BY <1>1 DEF CycleEnds, InCycle
<1>3. PICK idle : idle = [pc |-> "idle"] OBVIOUS
<1>4. call' = [call EXCEPT ![t] = idle] /\ idle.pc = "idle" BY <1>3 DEF CycleEnds, Goto
<1>5. call'[t] = idle /\ (\A u \in Callers \ {t} : call'[u] = call[u]) /\ InCycle' = InCycle \ {t}
  BY <1>4 DEF CyclesFit, InCycle
<1>6. CyclesFit' BY <1>4, <1>5 DEF CyclesFit, InCycle
<1>7. BrokerFits' BY <1>2 DEF BrokerFits, broker
<1>8. AloneIsAlone' BY <1>5 DEF AloneIsAlone, InCycle
<1>9. SentStays' BY <1>2, <1>5, HoldsOn DEF SentStays, broker, InCycle
<1>10. Sensors' = Sensors BY <1>2, SensorsSame
<1>11. CASE Tells(c)
  <2>1. calm' = calm BY <1>2, <1>11, Kinds
  <2>2. CalmIsCalm' BY <1>5, <2>1 DEF CalmIsCalm, InCycle
  <2>3. ShownAsPublished' BY <1>2, <1>10, <2>1, ShownOn DEF broker
  <2> QED BY <1>6, <1>7, <1>8, <1>9, <2>2, <2>3
<1>12. CASE Publishes(c)
  <2>1. calm' = (c.alone /\ c.whole /\ c.sensors = Sensors /\ c.off = off) BY <1>2, <1>12, Kinds
  <2>2. CASE ~calm' BY <1>6, <1>7, <1>8, <1>9, <2>2 DEF CalmIsCalm, ShownAsPublished
  <2>3. CASE calm'
    <3>1. \A u \in InCycle \ {t} : Tells(call[u]) BY <1>1, <1>2, <2>1, <2>3 DEF AloneIsAlone
    <3>2. CalmIsCalm' BY <1>5, <3>1 DEF CalmIsCalm, InCycle
    <3>3. Holds(c) BY <1>1, <1>2, <2>1, <2>3 DEF SentStays
    <3>4. \A m : ~Due(m, c) BY <1>2 DEF Due, In
    <3>5. (SensorIndex \ off = DOMAIN Sensors \ off)' BY DEF SensorIndex, Sensors
    <3>6. ShownAsPublished'
      BY <1>2, <1>10, <2>1, <2>3, <3>3, <3>4, <3>5
      DEF ShownAsPublished, Holds, HoldsWanted, HoldsUnwanted, Wanted, Unwanted, broker
    <3> QED BY <1>6, <1>7, <1>8, <1>9, <3>2, <3>6
  <2> QED BY <2>2, <2>3
<1> QED BY <1>1, <1>2, <1>11, <1>12 DEF CyclesFit

\* A security event begins.
LEMMA EventKeeps ==
  ASSUME PublishingInv, NEW t \in Callers, SecurityEvent(t)
  PROVE  PublishingInv'
<1> USE DEF PublishingInv
<1>1. PICK d : d = [pc |-> "cycle", todo |-> <<Online, EventConfig, Event>>,
                    alone |-> FALSE, whole |-> TRUE, up |-> TRUE]
  OBVIOUS
<1>2. call' = [call EXCEPT ![t] = d] /\ t \notin InCycle BY <1>1 DEF SecurityEvent, Begin, InCycle
<1>3. UNCHANGED <<charges, sub, history, budget, off, broker, calm>> BY DEF SecurityEvent
<1>4. Tells(d)
  <2>1. <<Online, EventConfig, Event>> \in Seq(SecurityMessages) BY DEF SecurityMessages
  <2>2. PICK s, M : s = <<Online, EventConfig, Event>> /\ M = SecurityMessages OBVIOUS
  <2>3. d \in [pc : {"cycle"}, todo : Seq(M), alone : {FALSE}, whole : BOOLEAN, up : BOOLEAN]
    BY <1>1, <2>1, <2>2
  <2> QED BY <2>2, <2>3 DEF Tells, Events
<1>5. d.pc = "cycle" /\ d.alone = FALSE BY <1>4, Kinds
<1>6. call'[t] = d /\ (\A u \in Callers \ {t} : call'[u] = call[u]) /\ InCycle' = InCycle \cup {t}
  BY <1>2, <1>5 DEF CyclesFit, InCycle
<1>7. CyclesFit' BY <1>2, <1>4, <1>6 DEF CyclesFit, InCycle
<1>8. BrokerFits' BY <1>3 DEF BrokerFits, broker
<1>9. AloneIsAlone' BY <1>4, <1>5, <1>6 DEF AloneIsAlone, InCycle
<1>10. CalmIsCalm' BY <1>3, <1>4, <1>6 DEF CalmIsCalm, InCycle
<1>11. SentStays' BY <1>2, <1>3, <1>5, <1>6, HoldsOn DEF SentStays, broker, InCycle
<1>12. Sensors' = Sensors BY <1>3 DEF charges, Sensors, MonthlyTotal, Active, Live
<1>13. ShownAsPublished' BY <1>3, <1>12, ShownOn DEF broker
<1> QED BY <1>7, <1>8, <1>9, <1>10, <1>11, <1>13

\* The process stops.
LEMMA CrashKeeps ==
  ASSUME PublishingInv, Crash
  PROVE  PublishingInv'
<1> USE DEF PublishingInv
<1>1. UNCHANGED <<subscriptions, budget, off, config, state, avail, calm>> /\ drops' = drops + 1 BY DEF Crash
<1>2. drops' \in Nat /\ drops' > 0 BY <1>1 DEF BrokerFits
<1>3. call' = [t \in Callers |-> Idle] BY DEF Crash
<1>4. InCycle' = {} BY <1>3 DEF InCycle, Idle
<1>5. CyclesFit' BY <1>3, <1>4 DEF CyclesFit
<1>6. BrokerFits' BY <1>1, <1>2 DEF BrokerFits
<1>7. AloneIsAlone' /\ CalmIsCalm' /\ SentStays' BY <1>4 DEF AloneIsAlone, CalmIsCalm, SentStays
<1>8. ShownAsPublished' BY <1>1, <1>2, ShownOn, SensorsSame
<1> QED BY <1>5, <1>6, <1>7, <1>8

\* Every other step: the requests that change what is to be shown, and those that find no broker.
LEMMA OtherKeeps ==
  ASSUME PublishingInv, NEW t \in Callers,
         \/ Renewal(t) \/ ConnectFails(t) \/ PublishNow(t)
         \/ \E b \in Budgets, n \in Limits \cup {0} : SaveBudget(t, b, n)
         \/ \E unwanted \in SUBSET Keys : SetSelection(t, unwanted)
  PROVE  PublishingInv'
<1>0. CyclesFit BY DEF PublishingInv
<1>1. CASE Renewal(t)
  <2>1. CyclesSame BY <1>0, <1>1, RenewalFrame DEF Renewal, broker
  <2> QED BY <1>1, <2>1, Frame DEF Renewal, Unshown
<1>2. ASSUME NEW next \in {"idle", "publish"}, call[t].pc # "cycle", Goto(t, next), UNCHANGED broker
      PROVE  CyclesSame
  BY <1>0, <1>2, Elsewhere DEF Goto
<1>3. CASE ConnectFails(t)
  <2>1. CyclesSame BY <1>2, <1>3 DEF ConnectFails
  <2>2. Sensors' = Sensors BY <1>3, SensorsSame DEF ConnectFails
  <2> QED BY <1>3, <2>1, <2>2, Frame DEF ConnectFails
<1>4. CASE PublishNow(t)
  <2>1. CyclesSame BY <1>2, <1>4 DEF PublishNow, Begin
  <2>2. Sensors' = Sensors BY <1>4 DEF PublishNow, charges, Sensors, MonthlyTotal, Active, Live
  <2> QED BY <1>4, <2>1, <2>2, Frame DEF PublishNow
<1>5. ASSUME NEW b \in Budgets, NEW n \in Limits \cup {0}, SaveBudget(t, b, n) PROVE PublishingInv'
  <2>1. CyclesSame BY <1>2, <1>5 DEF SaveBudget, Begin
  <2> QED BY <1>5, <2>1, Frame DEF SaveBudget, Unshown
<1>6. ASSUME NEW unwanted \in SUBSET Keys, SetSelection(t, unwanted) PROVE PublishingInv'
  <2>1. CyclesSame BY <1>0, <1>6 DEF SetSelection, CyclesSame, CyclesFit, InCycle, broker
  <2> QED BY <1>6, <2>1, Frame DEF SetSelection, Unshown
<1> QED BY <1>1, <1>3, <1>4, <1>5, <1>6

\* The invariant holds of publish cycles, security events, wills and stops.
THEOREM PublishingInvariant == Spec => []PublishingInv
<1>1. Init => PublishingInv
  <2> SUFFICES ASSUME Init PROVE PublishingInv OBVIOUS
  <2>1. InCycle = {} BY DEF Init, InCycle, Idle
  <2>2. CyclesFit /\ BrokerFits BY <2>1 DEF Init, CyclesFit, BrokerFits
  <2>3. AloneIsAlone /\ CalmIsCalm /\ SentStays BY <2>1 DEF AloneIsAlone, CalmIsCalm, SentStays
  <2>4. ShownAsPublished BY DEF Init, ShownAsPublished
  <2> QED BY <2>2, <2>3, <2>4 DEF PublishingInv
<1>2. PublishingInv /\ [Next]_vars => PublishingInv'
  <2> SUFFICES ASSUME PublishingInv, [Next]_vars PROVE PublishingInv' OBVIOUS
  <2>1. CASE UNCHANGED vars
    <3>1. CyclesSame BY <2>1 DEF vars, CyclesSame, PublishingInv, CyclesFit, InCycle, broker
    <3>2. Sensors' = Sensors BY <2>1, SensorsSame DEF vars
    <3> QED BY <2>1, <3>1, <3>2, Frame DEF vars
  <2>2. ASSUME NEW t \in Callers, PublishRead(t) \/ Send(t) \/ Lose(t) \/ Drop(t) \/ CycleEnds(t) \/ SecurityEvent(t)
        PROVE  PublishingInv'
    BY <2>2, ReadKeeps, SendKeeps, LoseKeeps, DropKeeps, EndKeeps, EventKeeps
  <2> QED BY <2>1, <2>2, OtherKeeps, WillKeeps, CrashKeeps DEF Next
<1> QED BY <1>1, <1>2, PTL DEF Spec

\* After a publish cycle that was alone, lost nothing and saw the last change, Home
\* Assistant shows every selected sensor with its value and no other, for any number of
\* cycles, security events, lost messages, dropped connections and late wills before it,
\* and of security events, wills and stops after it (mqtt_service.publish_all).
THEOREM ShownTheorem == Spec => []ShownAsPublished
<1>1. PublishingInv => ShownAsPublished BY DEF PublishingInv
<1> QED BY <1>1, PublishingInvariant, PTL

-----------------------------------------------------------------------------
(* The table of subscriptions.                                             *)

Columns == {"vendor", "name", "amount", "frequency", "last", "next", "occurrences", "status"}
IsRow(r) == r = [c \in Columns |-> r[c]] /\ r.vendor \in Vendors \cup {None} /\ r.name \in DOMAIN Fold

\* The group a row stands for, unless SQLite and Python fold its name apart.
RowKey(r) ==
  IF r.vendor # None THEN [vendor |-> r.vendor, name |-> None]
  ELSE [vendor |-> None, name |-> Fold[r.name]]
Stands(r) == r.vendor # None \/ Plain(r.name)

\* _find_existing finds r when it looks for the row of what was detected as f.
Finds(r, f) == r.vendor = f.vendor /\ (f.vendor = None => SqlFold[r.name] = Fold[f.name])

TableFits ==
  /\ home \in Households /\ seen \subseteq Charges /\ IsFiniteSet(seen)
  /\ alias \in [Labels -> Vendors \cup {None}]
  /\ sub = [i \in Ids |-> sub[i]] /\ \A i \in Live : IsRow(sub[i])
  /\ wish = [i \in Ids |-> wish[i]]

\* What a detection has read: one entry for a group, with the row found for it.
PlanFits(plan) ==
  /\ IsFiniteSet(plan)
  /\ \A p \in plan :
       /\ p.id \in {0} \cup Ids /\ IsRow(p.row)
       /\ p.id # 0 => IsRow(p.was) /\ Finds(p.was, p.row)
  /\ \A p, q \in plan : RowKey(p.row) = RowKey(q.row) \/ (p.id = q.id /\ p.id # 0) => p = q
PlansFit == \A t \in Callers : call[t].pc = "detected" => PlanFits(call[t].plan)

RowsApart == \A i, j \in Standing : KeyOf(i) = KeyOf(j) => i = j
WishKept == \A i \in Ids : wish[i] \in USER_LOCKED => sub[i] # NoSub /\ sub[i].status = wish[i]

\* The row found for what is detected says what was detected.
Written(f) ==
  LET i == FindExisting(f.vendor, f.name)
  IN i # 0 /\ \A c \in {"vendor", "name", "amount", "next"} : sub[i][c] = f[c]
AllWritten == settled => \A f \in Verdicts : Stands(f) => Written(f)

SubscriptionsInv == TableFits /\ PlansFit /\ RowsApart /\ WishKept /\ AllWritten

\* A row is found for those of its group, if it stands for one.
LEMMA FindsGroup ==
  ASSUME NEW r, IsRow(r), NEW f, IsRow(f)
  PROVE  Finds(r, f) <=> Stands(r) /\ RowKey(r) = RowKey(f)
BY FoldAssumption DEF IsRow, Finds, Stands, RowKey, Plain

\* A row is not the mark of a place without one.
LEMMA RowIsThere == ASSUME NEW r, IsRow(r) PROVE r # NoSub
<1>1. "vendor" \in DOMAIN r BY DEF IsRow, Columns
<1>2. "vendor" \notin DOMAIN NoSub BY DEF NoSub
<1> QED BY <1>1, <1>2

\* Every set of naturals that has a member has a least one.
LEMMA LeastNumber ==
  ASSUME NEW T \in SUBSET Nat, T # {}
  PROVE  \E m \in T : \A k \in T : m <= k
<1>1. PICK R : R = OpToRel(<, Nat) OBVIOUS
<1>2. \A x, y \in Nat : x < y => <<x, y>> \in R
  BY <1>1, Zenon DEF OpToRel
<1>3. IsWellFoundedOn(R, Nat) BY <1>1, NatLessThanWellFounded, Zenon
<1>4. PICK m \in T : \A k \in T : ~(<<k, m>> \in R) BY <1>3, WFMin
<1>5. \A k \in T : ~(k < m) BY <1>2, <1>4
<1> QED BY <1>5

\* Min finds it.
LEMMA MinIs ==
  ASSUME NEW T \in SUBSET Nat, T # {}
  PROVE  Min(T) \in T /\ \A k \in T : Min(T) <= k
BY LeastNumber DEF Min

\* Max finds the largest, when no member is above n.
LEMMA MaxIs ==
  ASSUME NEW n \in Nat, NEW T \in SUBSET (0..n), T # {}
  PROVE  Max(T) \in T /\ \A k \in T : k <= Max(T)
<1>1. PICK U : U = {n - k : k \in T} OBVIOUS
<1>2. U \in SUBSET Nat /\ U # {}
  <2>1. \A k \in T : n - k \in Nat OBVIOUS
  <2>2. PICK k \in T : TRUE OBVIOUS
  <2>3. n - k \in U BY <1>1
  <2> QED BY <1>1, <2>1, <2>3
<1>3. PICK m \in U : \A k \in U : m <= k BY <1>2, LeastNumber
<1>4. PICK x \in T : m = n - x BY <1>1
<1>5. \A k \in T : n - k \in U BY <1>1
<1>6. \A k \in T : x >= k BY <1>3, <1>4, <1>5
<1> QED BY <1>6 DEF Max

\* _find_existing returns the first row that is found for f.
LEMMA FirstFound ==
  ASSUME NEW f, NEW i, i = FindExisting(f.vendor, f.name)
  PROVE  /\ i = 0 => \A j \in Live : ~Finds(sub[j], f)
         /\ i # 0 => i \in Live /\ Finds(sub[i], f) /\ \A j \in Live : Finds(sub[j], f) => i <= j
<1>1. PICK R : R = {j \in Live : Finds(sub[j], f)} OBVIOUS
<1>2. i = IF R = {} THEN 0 ELSE Min(R) BY <1>1, Zenon DEF FindExisting, Finds
<1>3. R \in SUBSET Nat /\ 0 \notin R BY <1>1, BoundsAssumption DEF Live, Ids
<1> QED BY <1>1, <1>2, <1>3, MinIs

\* New rows come after those there are.
LEMMA RowsAdded ==
  ASSUME NEW n \in Nat, NEW s, s = [k \in 1..n |-> s[k]], Fits(s)
  PROVE  /\ LastId \in Nat /\ \A i \in Live : i <= LastId
         /\ \A k \in 1..n : LastId + k \in Ids \ Live /\ Added(s)[LastId + k] = s[k]
         /\ \A i \in Ids : (\E k \in 1..n : i = LastId + k) \/ Added(s)[i] = sub[i]
         /\ Added(s) = [i \in Ids |-> Added(s)[i]]
<1>1. PICK T : T = {0} \cup Live OBVIOUS
<1>2. MaxId \in Nat /\ T \in SUBSET (0..MaxId) /\ T # {} BY <1>1, BoundsAssumption DEF Live, Ids
<1>3. PICK m : m = Max(T) OBVIOUS
<1>4. m \in Nat /\ \A i \in T : i <= m BY <1>2, <1>3, MaxIs
<1>5. LastId = m BY <1>1, <1>3 DEF LastId
<1>6. Len(s) = n
  <2>1. s \in Seq({s[k] : k \in 1..n}) OBVIOUS
  <2> QED BY <2>1
<1>7. m + n <= MaxId BY <1>5, <1>6 DEF Fits
<1>8. DOMAIN s = 1..n OBVIOUS
<1>9. Added(s) = [i \in Ids |-> IF i - m \in 1..n THEN s[i - m] ELSE sub[i]] BY <1>5, <1>8 DEF Added
<1>10. \A k \in 1..n : m + k \in Ids /\ m + k \notin Live
  <2> TAKE k \in 1..n
  <2>1. m + k \in Ids BY <1>2, <1>4, <1>7 DEF Ids
  <2>2. m + k \notin Live BY <1>1, <1>4
  <2> QED BY <2>1, <2>2
<1>11. \A k \in 1..n : Added(s)[m + k] = s[k]
  <2> TAKE k \in 1..n
  <2>1. (m + k) - m = k BY <1>4
  <2> QED BY <1>9, <1>10, <2>1
<1>12. \A i \in Ids : (\E k \in 1..n : i = m + k) \/ Added(s)[i] = sub[i]
  <2> TAKE i \in Ids
  <2>1. i \in Int BY BoundsAssumption DEF Ids
  <2>2. CASE i - m \in 1..n
    <3>1. i = m + (i - m) BY <1>4, <2>1
    <3> QED BY <2>2, <3>1
  <2>3. CASE i - m \notin 1..n BY <1>9, <2>3
  <2> QED BY <2>2, <2>3
<1> QED BY <1>1, <1>4, <1>5, <1>9, <1>10, <1>11, <1>12

\* Rows that join the table stand apart, when none was found for the group of any
\* and those of one group are among the odd, but for the first.
Stays(i) ==
  \/ sub[i] = NoSub /\ sub'[i] = NoSub
  \/ /\ i \in Live /\ IsRow(sub'[i])
     /\ i \in Standing' => i \in Standing /\ RowKey(sub'[i]) = RowKey(sub[i])
Joins(i, r) == i \in Ids \ Live /\ IsRow(r) /\ sub'[i] = r

LEMMA RowsJoin ==
  ASSUME TableFits, RowsApart, sub' = [i \in Ids |-> sub'[i]],
         NEW n \in Nat, NEW m \in Nat, NEW rows, \A k \in 1..n : Joins(m + k, rows[k]),
         \A i \in Ids : (\E k \in 1..n : i = m + k) \/ Stays(i),
         \A k \in 1..n : m + k \in odd' \/ \A i \in Live : ~Finds(sub[i], rows[k]),
         \A j, k \in 1..n : j < k /\ Stands(rows[j]) /\ RowKey(rows[j]) = RowKey(rows[k]) => m + k \in odd'
  PROVE  RowsApart' /\ \A i \in Live' : IsRow(sub'[i])
<1>1. \A i \in Standing : RowKey(sub[i]) = KeyOf(i) /\ Stands(sub[i]) BY DEF RowKey, KeyOf, Standing, Stands
<1>2. \A i \in Standing' : /\ RowKey(sub'[i]) = KeyOf(i)' /\ Stands(sub'[i])
                           /\ i \in Ids /\ i \notin odd' /\ sub'[i] # NoSub
  BY DEF RowKey, KeyOf, Standing, Stands, Live
<1>3. \A i \in Standing' : \/ i \in Standing /\ RowKey(sub'[i]) = RowKey(sub[i])
                           \/ \E k \in 1..n : i = m + k /\ sub'[i] = rows[k]
  BY <1>2 DEF Stays, Joins
<1>4. ASSUME NEW k \in 1..n, m + k \in Standing', NEW i \in Standing
      PROVE  RowKey(rows[k]) # RowKey(sub[i])
  <2>1. ~Finds(sub[i], rows[k]) BY <1>2, <1>4 DEF Standing
  <2>2. IsRow(sub[i]) /\ IsRow(rows[k]) /\ Stands(sub[i]) BY <1>1, <1>4 DEF TableFits, Standing, Joins
  <2> QED BY <2>1, <2>2, FindsGroup
<1>5. ASSUME NEW j \in 1..n, NEW k \in 1..n, m + j \in Standing', m + k \in Standing', RowKey(rows[j]) = RowKey(rows[k])
      PROVE  j = k
  <2>1. Stands(rows[j]) /\ Stands(rows[k]) /\ m + j \notin odd' /\ m + k \notin odd'
    BY <1>2, <1>5 DEF Joins
  <2>2. ~(j < k) /\ ~(k < j) BY <1>5, <2>1
  <2> QED BY <2>2
<1>6. ASSUME NEW i \in Standing', NEW j \in Standing', RowKey(sub'[i]) = RowKey(sub'[j]) PROVE i = j
  <2>1. CASE i \in Standing /\ RowKey(sub'[i]) = RowKey(sub[i]) /\ j \in Standing /\ RowKey(sub'[j]) = RowKey(sub[j])
    BY <1>1, <1>6, <2>1 DEF RowsApart
  <2>2. ASSUME NEW k \in 1..n, i = m + k, sub'[i] = rows[k] PROVE i = j
    BY <1>3, <1>4, <1>5, <1>6, <2>2
  <2>3. ASSUME NEW k \in 1..n, j = m + k, sub'[j] = rows[k] PROVE i = j
    BY <1>3, <1>4, <1>5, <1>6, <2>3
  <2> QED BY <1>3, <2>1, <2>2, <2>3
<1>7. RowsApart' BY <1>2, <1>6 DEF RowsApart
<1>8. \A i \in Live' : IsRow(sub'[i]) BY DEF Stays, Joins, Live
<1> QED BY <1>7, <1>8

-----------------------------------------------------------------------------
(* What a detection finds.                                                 *)

\* Of charges that are finitely many there is one of the latest day.
LEMMA LatestCharge ==
  ASSUME NEW S \in SUBSET Charges, IsFiniteSet(S), S # {}
  PROVE  \E c \in S : \A d \in S : d.day <= c.day
<1> DEFINE Has(T) == \E c \in T : \A d \in T : d.day <= c.day
<1>1. PICK Bad : Bad = {T \in SUBSET S : T # {} /\ ~Has(T)} OBVIOUS
<1>2. SUFFICES ASSUME Bad # {} PROVE FALSE BY <1>1
<1>3. PICK R : R = StrictSubsetOrdering(S) OBVIOUS
<1>4. IsWellFoundedOn(R, SUBSET S)
  BY <1>3, FS_StrictSubsetOrderingWellFounded, FS_FiniteSubsetsOfFinite, Zenon
<1>5. PICK T \in Bad : \A U \in Bad : ~(<<U, T>> \in R) BY <1>1, <1>2, <1>4, WFMin
<1>6. PICK c \in T : TRUE BY <1>1, <1>5
<1>7. PICK U : U = T \ {c} OBVIOUS
<1>8. U \notin Bad
  <2>1. <<U, T>> \in R BY <1>1, <1>3, <1>5, <1>6, <1>7 DEF StrictSubsetOrdering
  <2> QED BY <1>5, <2>1
<1>9. \A d \in T : d.day \in Nat BY <1>1, <1>5, ChargesAssumption
<1>10. CASE U = {}
  <2>1. \A d \in T : d = c BY <1>7, <1>10
  <2>2. Has(T) BY <1>6, <1>9, <2>1
  <2> QED BY <1>1, <1>5, <2>2
<1>11. CASE U # {}
  <2>1. Has(U) BY <1>1, <1>5, <1>7, <1>8, <1>11
  <2>2. PICK e \in U : \A d \in U : d.day <= e.day BY <2>1
  <2>3. CASE c.day <= e.day
    <3>1. \A d \in T : d.day <= e.day BY <1>7, <2>2, <2>3
    <3> QED BY <1>1, <1>5, <1>7, <2>2, <3>1
  <2>4. CASE ~(c.day <= e.day)
    <3>1. \A d \in T : d.day <= c.day BY <1>6, <1>7, <1>9, <2>2, <2>4
    <3> QED BY <1>1, <1>5, <1>6, <3>1
  <2> QED BY <2>3, <2>4
<1> QED BY <1>10, <1>11

\* The frequency of a band is one there is an interval for.
LEMMA BandHasInterval ==
  ASSUME NEW median2, Classify(median2) # None
  PROVE  Classify(median2) \in DOMAIN FREQUENCY_INTERVALS /\ FREQUENCY_INTERVALS[Classify(median2)] \in Nat
<1> DEFINE B == {b \in Bands : 2 * b[1] <= median2 /\ median2 <= 2 * b[2]}
<1>1. PICK c : c = CHOOSE b \in B : TRUE OBVIOUS
<1>2. PICK f : f = Classify(median2) OBVIOUS
<1>3. B # {} /\ f = c[3] BY <1>1, <1>2, Zenon DEF Classify
<1>4. PICK b \in Bands : f = b[3] BY <1>1, <1>3
<1>5. b[3] \in {"weekly", "fortnightly", "monthly", "bi_monthly", "quarterly", "yearly"} BY <1>4 DEF Bands
<1> QED BY <1>2, <1>4, <1>5 DEF FREQUENCY_INTERVALS

\* What is detected of a group bears the name of its latest charge, and is expected an
\* interval after it.
SaysOf(f, key) ==
  /\ IsRow(f) /\ RowKey(f) = key /\ f.frequency \in DOMAIN FREQUENCY_INTERVALS
  /\ FREQUENCY_INTERVALS[f.frequency] \in Nat
  /\ \E last \in Group(key) : /\ \A d \in Group(key) : d.day <= last.day
                              /\ f.next = last.day + FREQUENCY_INTERVALS[f.frequency]

LEMMA DetectedRow ==
  ASSUME TableFits, NEW c \in RecentSpend, NEW f \in Detected(GroupKey(c))
  PROVE  SaysOf(f, GroupKey(c)) /\ Detected(GroupKey(c)) = {f}
<1>1. PICK key : key = GroupKey(c) OBVIOUS
<1>2. PICK S : S = Group(key) OBVIOUS
<1>3. PICK last : last = CHOOSE x \in S : \A d \in S : d.day <= x.day OBVIOUS
<1>4. PICK q : q = Classify(Median2(Gaps(ByDay(S)))) OBVIOUS
<1>5. PICK n : n = Len(ByDay(S)) OBVIOUS
<1>6. PICK st : st = IF Confident(Gaps(ByDay(S)), Amounts(ByDay(S)), last.plan) THEN "active" ELSE "possible" OBVIOUS
<1>7. PICK skip \in BOOLEAN : skip <=> (n < 3 \/ Len(Gaps(ByDay(S))) < 2 \/ q = None \/ ~Steady(Amounts(ByDay(S)))) OBVIOUS
<1>8. PICK r : r = [vendor |-> key.vendor, name |-> last.label, amount |-> last.amount,
                    frequency |-> q, last |-> last.day, next |-> last.day + FREQUENCY_INTERVALS[q],
                    occurrences |-> n, status |-> st]
  OBVIOUS
<1>9. Detected(key) = IF skip THEN {} ELSE {r}
  BY <1>2, <1>3, <1>4, <1>5, <1>6, <1>7, <1>8, Zenon DEF Detected
<1>10. f = r /\ Detected(key) = {f} /\ ~skip BY <1>1, <1>9
<1>11. q \in DOMAIN FREQUENCY_INTERVALS /\ FREQUENCY_INTERVALS[q] \in Nat BY <1>4, <1>7, <1>10, BandHasInterval
<1>12. S \in SUBSET Charges /\ IsFiniteSet(S) /\ S # {}
  <2>1. S \subseteq seen /\ c \in S BY <1>1, <1>2 DEF Group, RecentSpend
  <2> QED BY <2>1, FS_Subset DEF TableFits
<1>13. last \in S /\ \A d \in S : d.day <= last.day BY <1>3, <1>12, LatestCharge
<1>14. GroupKey(last) = key /\ last.label \in Labels BY <1>2, <1>12, <1>13, ChargesAssumption DEF Group
<1>15. key.vendor = alias[last.label] /\ alias[last.label] \in Vendors \cup {None}
  BY <1>14 DEF GroupKey, TableFits
<1>16. IsRow(r) BY <1>8, <1>14, <1>15, FoldAssumption DEF IsRow, Columns
<1>17. RowKey(r) = key BY <1>8, <1>14, <1>15 DEF RowKey, GroupKey
<1> QED BY <1>1, <1>2, <1>8, <1>10, <1>11, <1>13, <1>16, <1>17 DEF SaysOf

\* There is one verdict for a group.
LEMMA OneVerdict ==
  ASSUME TableFits
  PROVE  /\ \A f \in Verdicts : IsRow(f) /\ SaysOf(f, RowKey(f))
         /\ \A f, g \in Verdicts : RowKey(f) = RowKey(g) => f = g
         /\ IsFiniteSet(Verdicts)
<1>1. ASSUME NEW f \in Verdicts
      PROVE  \E c \in RecentSpend : SaysOf(f, GroupKey(c)) /\ Detected(GroupKey(c)) = {f}
  <2>1. PICK c \in RecentSpend : f \in Detected(GroupKey(c)) BY DEF Verdicts
  <2> QED BY <2>1, DetectedRow
<1>2. \A f \in Verdicts : SaysOf(f, RowKey(f)) /\ Detected(RowKey(f)) = {f} /\ IsRow(f)
  <2> TAKE f \in Verdicts
  <2>1. PICK c \in RecentSpend : SaysOf(f, GroupKey(c)) /\ Detected(GroupKey(c)) = {f} BY <1>1
  <2>2. RowKey(f) = GroupKey(c) /\ IsRow(f) BY <2>1 DEF SaysOf
  <2> QED BY <2>1, <2>2
<1>3. \A f, g \in Verdicts : RowKey(f) = RowKey(g) => f = g BY <1>2
<1>4. IsFiniteSet(Verdicts)
  <2>1. IsFiniteSet(RecentSpend) BY FS_Subset DEF TableFits, RecentSpend
  <2>2. CASE Verdicts = {} BY <2>2, FS_EmptySet
  <2>3. ASSUME NEW v \in Verdicts PROVE IsFiniteSet(Verdicts)
    <3>1. PICK F : F = [c \in RecentSpend |-> IF Detected(GroupKey(c)) = {} THEN v ELSE CHOOSE f \in Detected(GroupKey(c)) : TRUE]
      OBVIOUS
    <3>2. \A c \in RecentSpend : F[c] \in Verdicts
      <4> TAKE c \in RecentSpend
      <4>1. Detected(GroupKey(c)) \subseteq Verdicts BY DEF Verdicts
      <4> QED BY <3>1, <4>1
    <3>3. \A f \in Verdicts : \E c \in RecentSpend : F[c] = f
      <4> TAKE f \in Verdicts
      <4>1. PICK c \in RecentSpend : Detected(GroupKey(c)) = {f} BY <1>1
      <4> QED BY <3>1, <4>1
    <3>4. F \in Surjection(RecentSpend, Verdicts) BY <3>1, <3>2, <3>3 DEF Surjection
    <3> QED BY <2>1, <3>4, FS_Surjection
  <2> QED BY <2>2, <2>3
<1> QED BY <1>2, <1>3, <1>4

\* A detection that reads now has what it will need.
LEMMA PlanReads ==
  ASSUME TableFits
  PROVE  /\ PlanFits(Plan)
         /\ \A f \in Verdicts : \E p \in Plan : p.row = f
         /\ \A p \in Plan : p.id = FindExisting(p.row.vendor, p.row.name) /\ (p.id # 0 => p.was = sub[p.id])
<1> DEFINE Entry(f) == [id |-> FindExisting(f.vendor, f.name),
                        was |-> IF FindExisting(f.vendor, f.name) = 0 THEN NoSub ELSE sub[FindExisting(f.vendor, f.name)],
                        row |-> f]
<1>1. Plan = {Entry(f) : f \in Verdicts} BY Zenon DEF Plan
<1>2. PICK F : F = [f \in Verdicts |-> Entry(f)] OBVIOUS
<1>3. F \in Surjection(Verdicts, Plan) BY <1>1, <1>2 DEF Surjection
<1>4. IsFiniteSet(Plan) BY <1>3, OneVerdict, FS_Surjection
<1>5. ASSUME NEW p \in Plan
      PROVE  /\ p.row \in Verdicts /\ p = Entry(p.row) /\ p.id \in {0} \cup Ids /\ IsRow(p.row)
             /\ p.id # 0 => IsRow(p.was) /\ Finds(p.was, p.row)
  <2>1. PICK f \in Verdicts : p = Entry(f) BY <1>1
  <2>2. p.row = f /\ p.id = FindExisting(f.vendor, f.name) /\ IsRow(f) BY <2>1, OneVerdict
  <2>3. p.id # 0 => p.was = sub[p.id] /\ p.id \in Live /\ Finds(p.was, f) BY <2>1, <2>2, FirstFound
  <2> QED BY <2>1, <2>2, <2>3 DEF TableFits, Live
<1>6. \A p, q \in Plan : RowKey(p.row) = RowKey(q.row) \/ (p.id = q.id /\ p.id # 0) => p = q
  <2> TAKE p, q \in Plan
  <2>1. ASSUME RowKey(p.row) = RowKey(q.row) PROVE p = q
    <3>1. p.row = q.row BY <1>5, <2>1, OneVerdict
    <3> QED BY <1>5, <3>1
  <2>2. ASSUME p.id = q.id, p.id # 0 PROVE RowKey(p.row) = RowKey(q.row)
    <3>1. p.was = q.was BY <1>5, <2>2
    <3>2. RowKey(p.was) = RowKey(p.row) /\ RowKey(q.was) = RowKey(q.row) BY <1>5, <2>2, FindsGroup
    <3> QED BY <3>1, <3>2
  <2> QED BY <2>1, <2>2
<1>7. \A f \in Verdicts : \E p \in Plan : p.row = f
  <2> TAKE f \in Verdicts
  <2>1. Entry(f) \in Plan /\ Entry(f).row = f BY <1>1
  <2> QED BY <2>1
<1>8. \A p \in Plan : p.id = FindExisting(p.row.vendor, p.row.name) /\ (p.id # 0 => p.was = sub[p.id]) BY <1>5
<1> QED BY <1>4, <1>5, <1>6, <1>7, <1>8 DEF PlanFits

-----------------------------------------------------------------------------
(* Each step keeps what holds of subscriptions.                            *)

\* Plans stay with the detections they are of.
PlansStay == \A t \in Callers : call'[t].pc = "detected" => call'[t] = call[t]

\* A call that goes on to anything else has no plan.
LEMMA GotoKeepsPlans ==
  ASSUME CyclesFit, NEW t \in Callers, NEW c, c.pc # "detected", call' = [call EXCEPT ![t] = c]
  PROVE  PlansStay
BY DEF CyclesFit, PlansStay

\* A step that touches neither rows nor charges.
LEMMA NothingHappens ==
  ASSUME SubscriptionsInv, PlansFit', UNCHANGED <<charges, sub, history>>
  PROVE  SubscriptionsInv'
<1> USE DEF SubscriptionsInv, charges, history
<1>1. TableFits' BY DEF TableFits, Live
<1>3. RowsApart' BY DEF RowsApart, Standing, Live, KeyOf
<1>4. WishKept' BY DEF WishKept
<1>5. Verdicts' = Verdicts BY DEF Verdicts, RecentSpend, Detected, Group, GroupKey
<1>6. ASSUME NEW f, Written(f) PROVE Written(f)'
  <2>1. FindExisting(f.vendor, f.name)' = FindExisting(f.vendor, f.name) BY DEF FindExisting, Live
  <2> QED BY <1>6, <2>1 DEF Written
<1>7. AllWritten' BY <1>5, <1>6 DEF AllWritten, Stands, Plain
<1> QED BY <1>1, <1>3, <1>4, <1>7

\* Rows that a rule makes join the table.
LEMMA MarksJoin ==
  ASSUME SubscriptionsInv, PlansStay, UNCHANGED <<home, alias, wish>>, ~settled', odd \subseteq odd',
         seen' \subseteq Charges, IsFiniteSet(seen'),
         NEW n \in Nat, NEW rows, rows = [k \in 1..n |-> rows[k]], Fits(rows), sub' = Added(rows),
         \A k \in 1..n : /\ IsRow(rows[k]) /\ FindExisting(rows[k].vendor, rows[k].name) = 0,
         \A j, k \in 1..n : j < k /\ Stands(rows[j]) /\ RowKey(rows[j]) = RowKey(rows[k]) => LastId + k \in odd'
  PROVE  SubscriptionsInv'
<1> USE DEF SubscriptionsInv
<1>1. /\ LastId \in Nat /\ sub' = [i \in Ids |-> sub'[i]]
      /\ \A k \in 1..n : LastId + k \in Ids \ Live /\ sub'[LastId + k] = rows[k]
      /\ \A i \in Ids : (\E k \in 1..n : i = LastId + k) \/ sub'[i] = sub[i]
  BY RowsAdded
<1>2. \A k \in 1..n : Joins(LastId + k, rows[k]) BY <1>1 DEF Joins
<1>3. \A i \in Ids : (\E k \in 1..n : i = LastId + k) \/ Stays(i)
  <2> TAKE i \in Ids
  <2>1. CASE sub'[i] = sub[i]
    <3>1. i \in Standing' => i \in Standing BY <2>1 DEF Standing, Live
    <3> QED BY <2>1, <3>1 DEF Stays, TableFits, Live
  <2> QED BY <1>1, <2>1
<1>4. \A k \in 1..n : \A i \in Live : ~Finds(sub[i], rows[k]) BY FirstFound
<1>5. RowsApart' /\ \A i \in Live' : IsRow(sub'[i]) BY <1>1, <1>2, <1>3, <1>4, RowsJoin
<1>6. TableFits' BY <1>1, <1>5 DEF TableFits
<1>7. PlansFit' BY DEF PlansFit, PlansStay
<1>8. \A i \in Ids : wish[i] \in USER_LOCKED => sub'[i] = sub[i] BY <1>1 DEF WishKept, Live
<1>9. WishKept' BY <1>8 DEF WishKept
<1> QED BY <1>5, <1>6, <1>7, <1>9 DEF AllWritten

\* Charges in the order of their days.
LEMMA OrderLists ==
  ASSUME NEW S, IsFiniteSet(S), NEW s \in InOrder(S)
  PROVE  \E n \in Nat : s \in [1..n -> S]
<1>1. PICK n : n = Cardinality(S) OBVIOUS
<1>2. n \in Nat BY <1>1, FS_CardinalityType
<1>3. s \in [1..n -> S] BY <1>1 DEF InOrder, SetToSeqs
<1> QED BY <1>2, <1>3

\* The row a rule makes of a charge.
LEMMA MarkRow ==
  ASSUME NEW c \in Charges, NEW v \in Vendors \cup {None}, NEW r, r = Mark(v, c)
  PROVE  IsRow(r) /\ r.vendor = v /\ r.name = c.label
<1>1. c.label \in DOMAIN Fold BY ChargesAssumption, FoldAssumption
<1> QED BY <1>1 DEF IsRow, Mark, Columns

\* An import makes rows for the charges a rule marks.
LEMMA ImportKeeps ==
  ASSUME SubscriptionsInv, CyclesFit, NEW t \in Callers, NEW b \in home.batches, ImportRows(t, b)
  PROVE  SubscriptionsInv'
<1> USE DEF SubscriptionsInv
<1>1. PICK cs : cs = {c \in b : c.label \in Marked /\ FindExisting(None, c.label) = 0} OBVIOUS
<1>2. PICK s \in Firsts(cs) : LET rows == [k \in DOMAIN s |-> Mark(None, s[k])] IN Fits(rows) /\ sub' = Added(rows)
  BY <1>1 DEF ImportRows
<1>3. PICK rows : rows = [k \in DOMAIN s |-> Mark(None, s[k])] /\ Fits(rows) /\ sub' = Added(rows) BY <1>2
<1>4. b \subseteq Charges /\ IsFiniteSet(b) BY HouseholdsAssumption DEF TableFits
<1>5. IsFiniteSet(cs) /\ cs \subseteq Charges BY <1>1, <1>4, FS_Subset
<1>6. PICK ds \in SUBSET cs : s \in InOrder(ds) BY DEF Firsts
<1>7. PICK n \in Nat : s \in [1..n -> ds] BY <1>5, <1>6, FS_Subset, OrderLists
<1>8. rows = [k \in 1..n |-> rows[k]] /\ \A k \in 1..n : s[k] \in cs /\ rows[k] = Mark(None, s[k]) BY <1>3, <1>7
<1>9. \A k \in 1..n : IsRow(rows[k]) /\ rows[k].vendor = None /\ rows[k].name = s[k].label
  BY <1>5, <1>8, MarkRow
<1>10. \A k \in 1..n : FindExisting(rows[k].vendor, rows[k].name) = 0 BY <1>1, <1>8, <1>9
<1>11. \A j, k \in 1..n : j < k => SqlFold[s[j].label] # Fold[s[k].label] BY <1>7 DEF Firsts
<1>12. \A j, k \in 1..n : j < k => ~(Stands(rows[j]) /\ RowKey(rows[j]) = RowKey(rows[k]))
  BY <1>9, <1>11 DEF Stands, RowKey, Plain
<1>13. seen' \subseteq Charges /\ IsFiniteSet(seen') BY <1>4, FS_Union DEF ImportRows, TableFits
<1>14. PlansStay BY GotoKeepsPlans DEF ImportRows, Goto
<1>15. UNCHANGED <<home, alias, wish, odd>> /\ ~settled' BY DEF ImportRows
<1> QED BY <1>3, <1>8, <1>9, <1>10, <1>12, <1>13, <1>14, <1>15, MarksJoin

\* A pass over all rows may make two of a group; the second is odd.
LEMMA RecategoriseKeeps ==
  ASSUME SubscriptionsInv, CyclesFit, NEW t \in Callers, Recategorise(t)
  PROVE  SubscriptionsInv'
<1> USE DEF SubscriptionsInv
<1>1. PICK cs : cs = {c \in seen : c.label \in Marked /\ FindExisting(alias[c.label], c.label) = 0} OBVIOUS
<1>2. PICK s \in InOrder(cs) :
        LET rows == [i \in DOMAIN s |-> Mark(alias[s[i].label], s[i])]
            beside == {LastId + i : i \in {j \in DOMAIN rows : \E k \in 1..(j - 1) : GroupKey(s[k]) = GroupKey(s[j])}}
        IN Fits(rows) /\ sub' = Added(rows) /\ odd' = odd \cup beside
  BY <1>1 DEF Recategorise
<1>3. PICK rows : /\ rows = [k \in DOMAIN s |-> Mark(alias[s[k].label], s[k])] /\ Fits(rows) /\ sub' = Added(rows)
                  /\ odd' = odd \cup {LastId + i : i \in {j \in DOMAIN rows : \E k \in 1..(j - 1) : GroupKey(s[k]) = GroupKey(s[j])}}
  BY <1>2
<1>4. IsFiniteSet(cs) /\ cs \subseteq Charges BY <1>1, FS_Subset DEF TableFits
<1>5. PICK n \in Nat : s \in [1..n -> cs] BY <1>4, OrderLists
<1>6. rows = [k \in 1..n |-> rows[k]] /\ \A k \in 1..n : s[k] \in cs /\ rows[k] = Mark(alias[s[k].label], s[k]) BY <1>3, <1>5
<1>7. \A k \in 1..n : alias[s[k].label] \in Vendors \cup {None} BY <1>4, <1>6, ChargesAssumption DEF TableFits
<1>8. \A k \in 1..n : IsRow(rows[k]) /\ rows[k].vendor = alias[s[k].label] /\ rows[k].name = s[k].label
  BY <1>4, <1>6, <1>7, MarkRow
<1>9. \A k \in 1..n : FindExisting(rows[k].vendor, rows[k].name) = 0 BY <1>1, <1>6, <1>8
<1>10. \A k \in 1..n : RowKey(rows[k]) = GroupKey(s[k]) BY <1>8 DEF RowKey, GroupKey
<1>11. \A j, k \in 1..n : j < k /\ RowKey(rows[j]) = RowKey(rows[k]) => LastId + k \in odd'
  <2> TAKE j, k \in 1..n
  <2> HAVE j < k /\ RowKey(rows[j]) = RowKey(rows[k])
  <2>1. j \in 1..(k - 1) /\ GroupKey(s[j]) = GroupKey(s[k]) /\ k \in DOMAIN rows BY <1>6, <1>10
  <2> QED BY <1>3, <2>1
<1>12. PlansStay /\ seen' = seen BY DEF Recategorise, charges, PlansStay
<1>13. seen' \subseteq Charges /\ IsFiniteSet(seen') BY <1>12 DEF TableFits
<1>14. UNCHANGED <<home, alias, wish>> /\ ~settled' /\ odd \subseteq odd' BY <1>3 DEF Recategorise, charges
<1> QED BY <1>3, <1>6, <1>8, <1>9, <1>11, <1>12, <1>13, <1>14, MarksJoin

\* Rows change, and each stays of its group or joins the odd.
LEMMA RowsChange ==
  ASSUME SubscriptionsInv, PlansStay, UNCHANGED home, ~settled',
         seen' = seen, alias' \in [Labels -> Vendors \cup {None}],
         sub' = [i \in Ids |-> sub'[i]], \A i \in Ids : Stays(i) \/ sub'[i] = NoSub,
         wish' = [i \in Ids |-> wish'[i]],
         \A i \in Ids : \/ wish'[i] \notin USER_LOCKED
                        \/ sub'[i] # NoSub /\ sub'[i].status = wish'[i]
  PROVE  SubscriptionsInv'
<1> USE DEF SubscriptionsInv
<1>1. \A i \in Live' : Stays(i) BY DEF Live
<1>2. TableFits' BY <1>1 DEF TableFits, Stays, Live
<1>3. \A i \in Standing' : i \in Standing /\ KeyOf(i)' = KeyOf(i)
  BY <1>1 DEF Standing, Stays, KeyOf, RowKey, Live
<1>4. RowsApart' BY <1>3 DEF RowsApart
<1>5. PlansFit' BY DEF PlansFit, PlansStay
<1> QED BY <1>2, <1>4, <1>5 DEF WishKept, AllWritten

\* A row with another status, name or vendor is a row.
LEMMA OtherStatus ==
  ASSUME NEW r, IsRow(r), NEW s, NEW q, q = [r EXCEPT !.status = s]
  PROVE  IsRow(q) /\ RowKey(q) = RowKey(r) /\ Stands(q) = Stands(r) /\ q.status = s
<1>1. IsRow(q) /\ q.vendor = r.vendor /\ q.name = r.name /\ q.status = s BY DEF IsRow, Columns
<1>2. RowKey(q) = RowKey(r) /\ Stands(q) = Stands(r) BY <1>1 DEF RowKey, Stands
<1> QED BY <1>1, <1>2

LEMMA OtherName ==
  ASSUME NEW r, IsRow(r), NEW l \in DOMAIN Fold, NEW q, q = [r EXCEPT !.name = l]
  PROVE  IsRow(q) /\ q.status = r.status
BY DEF IsRow, Columns

LEMMA OtherVendor ==
  ASSUME NEW r, IsRow(r), NEW v \in Vendors \cup {None}, NEW q, q = [r EXCEPT !.vendor = v]
  PROVE  IsRow(q) /\ q.status = r.status
BY DEF IsRow, Columns

\* A row that does not change stays.
LEMMA SameStays ==
  ASSUME TableFits, NEW i \in Ids, sub'[i] = sub[i], odd \subseteq odd' \cup {j \in Ids : sub'[j] = NoSub}
  PROVE  Stays(i)
<1>1. i \in Standing' => i \in Standing BY DEF Standing, Live
<1> QED BY <1>1 DEF Stays, TableFits, Live

\* The charges of a label get a vendor.
LEMMA MatchKeeps ==
  ASSUME SubscriptionsInv, NEW t \in Callers, NEW l \in Labels, NEW v \in home.vendors, Match(t, l, v)
  PROVE  SubscriptionsInv'
<1> USE DEF SubscriptionsInv
<1>1. v \in Vendors BY HouseholdsAssumption DEF TableFits
<1>2. UNCHANGED <<home, seen, sub, call, odd, wish>> /\ ~settled' BY DEF Match
<1>3. alias' \in [Labels -> Vendors \cup {None}] BY <1>1 DEF Match, TableFits
<1>4. PlansStay BY <1>2 DEF PlansStay
<1>5. \A i \in Ids : Stays(i) BY <1>2, SameStays
<1> QED BY <1>2, <1>3, <1>4, <1>5, RowsChange DEF TableFits, WishKept

\* A vendor is merged into another, or deleted.
LEMMA RepointKeeps ==
  ASSUME SubscriptionsInv, NEW t \in Callers, NEW v \in home.vendors, NEW w \in home.vendors \cup {None},
         Repoint(t, v, w)
  PROVE  SubscriptionsInv'
<1> USE DEF SubscriptionsInv
<1>1. w \in Vendors \cup {None} BY HouseholdsAssumption DEF TableFits
<1>2. UNCHANGED <<home, seen, call, wish>> /\ ~settled' BY DEF Repoint
<1>3. alias' \in [Labels -> Vendors \cup {None}] BY <1>1 DEF Repoint, TableFits
<1>4. PlansStay BY <1>2 DEF PlansStay
<1>5. PICK its : its = {i \in Live : sub[i].vendor = v} OBVIOUS
<1>6. /\ sub' = [i \in Ids |-> IF i \in its THEN [sub[i] EXCEPT !.vendor = w] ELSE sub[i]]
      /\ odd' = odd \cup its
  BY <1>5 DEF Repoint
<1>7. ASSUME NEW i \in Ids PROVE Stays(i) /\ (sub[i] # NoSub => sub'[i] # NoSub /\ sub'[i].status = sub[i].status)
  <2>1. CASE i \notin its
    <3>1. sub'[i] = sub[i] BY <1>6, <2>1
    <3> QED BY <1>6, <3>1, SameStays
  <2>2. CASE i \in its
    <3>1. IsRow(sub[i]) /\ i \in Live BY <1>5, <2>2 DEF TableFits
    <3>2. sub'[i] = [sub[i] EXCEPT !.vendor = w] /\ i \in odd' BY <1>6, <2>2
    <3>3. IsRow(sub'[i]) /\ sub'[i].status = sub[i].status BY <1>1, <3>1, <3>2, OtherVendor
    <3>4. i \notin Standing' BY <3>2 DEF Standing
    <3> QED BY <3>1, <3>3, <3>4, RowIsThere DEF Stays
  <2> QED BY <2>1, <2>2
<1>8. sub' = [i \in Ids |-> sub'[i]] BY <1>6
<1> QED BY <1>2, <1>3, <1>4, <1>7, <1>8, RowsChange DEF TableFits, WishKept

\* The owner sets a status, gives a name or deletes a row.
LEMMA EditKeeps ==
  ASSUME SubscriptionsInv, CyclesFit, NEW t \in Callers, NEW i \in Ids,
         \/ \E status \in Chosen : SetStatus(t, i, status)
         \/ \E name \in DOMAIN Fold : Rename(t, i, name)
         \/ DeleteSubscription(t, i)
  PROVE  SubscriptionsInv'
<1> USE DEF SubscriptionsInv
<1>1. UNCHANGED <<home, seen, alias>> /\ ~settled' /\ i \in Live /\ Goto(t, "publish")
  BY DEF SetStatus, Rename, DeleteSubscription, charges
<1>2. PlansStay BY <1>1, GotoKeepsPlans DEF Goto
<1>3. IsRow(sub[i]) BY <1>1 DEF TableFits
<1>4. PICK r : r = sub[i] OBVIOUS
<1>5. ASSUME NEW status \in Chosen, SetStatus(t, i, status) PROVE SubscriptionsInv'
  <2>1. PICK q : q = [r EXCEPT !.status = status] OBVIOUS
  <2>2. sub' = [sub EXCEPT ![i] = q] /\ odd' = odd /\ wish' = [wish EXCEPT ![i] = status]
    BY <1>4, <1>5, <2>1 DEF SetStatus
  <2>3. IsRow(q) /\ RowKey(q) = RowKey(r) /\ Stands(q) = Stands(r) /\ q.status = status
    BY <1>3, <1>4, <2>1, OtherStatus
  <2>4. sub'[i] = q BY <2>2 DEF TableFits
  <2>5. i \in Standing' => i \in Standing
    <3>1. Stands(q) => Stands(r) BY <2>3
    <3> QED BY <1>1, <1>4, <2>2, <2>4, <3>1 DEF Standing, Stands
  <2>6. Stays(i) BY <1>1, <1>4, <2>3, <2>4, <2>5 DEF Stays
  <2>7. \A j \in Ids \ {i} : sub'[j] = sub[j] BY <2>2 DEF TableFits
  <2>8. \A j \in Ids : Stays(j) BY <2>2, <2>6, <2>7, SameStays
  <2>9. sub' = [j \in Ids |-> sub'[j]] /\ wish' = [j \in Ids |-> wish'[j]] BY <2>2 DEF TableFits
  <2>10. \A j \in Ids : wish'[j] \in USER_LOCKED => sub'[j] # NoSub /\ sub'[j].status = wish'[j]
    BY <2>2, <2>3, <2>4, <2>7, RowIsThere DEF TableFits, WishKept
  <2> QED BY <1>1, <1>2, <2>8, <2>9, <2>10, RowsChange DEF TableFits
<1>6. ASSUME NEW name \in DOMAIN Fold, Rename(t, i, name) PROVE SubscriptionsInv'
  <2>1. PICK q : q = [r EXCEPT !.name = name] OBVIOUS
  <2>2. sub' = [sub EXCEPT ![i] = q] /\ odd' = odd \cup {i} /\ wish' = wish
    BY <1>4, <1>6, <2>1 DEF Rename
  <2>3. IsRow(q) /\ q.status = r.status BY <1>3, <1>4, <2>1, OtherName
  <2>4. sub'[i] = q BY <2>2 DEF TableFits
  <2>5. i \notin Standing' BY <2>2 DEF Standing
  <2>6. Stays(i) BY <1>1, <2>3, <2>4, <2>5 DEF Stays
  <2>7. \A j \in Ids \ {i} : sub'[j] = sub[j] BY <2>2 DEF TableFits
  <2>8. \A j \in Ids : Stays(j) BY <2>2, <2>6, <2>7, SameStays
  <2>9. sub' = [j \in Ids |-> sub'[j]] /\ wish' = [j \in Ids |-> wish'[j]] BY <2>2 DEF TableFits
  <2>10. \A j \in Ids : wish'[j] \in USER_LOCKED => sub'[j] # NoSub /\ sub'[j].status = wish'[j]
    BY <1>4, <2>2, <2>3, <2>4, <2>7, RowIsThere DEF WishKept
  <2> QED BY <1>1, <1>2, <2>8, <2>9, <2>10, RowsChange DEF TableFits
<1>7. CASE DeleteSubscription(t, i)
  <2>1. sub' = [sub EXCEPT ![i] = NoSub] /\ odd' = odd \ {i} /\ wish' = [wish EXCEPT ![i] = None]
    BY <1>7 DEF DeleteSubscription
  <2>2. sub'[i] = NoSub /\ wish'[i] = None /\ \A j \in Ids \ {i} : sub'[j] = sub[j] /\ wish'[j] = wish[j]
    BY <2>1 DEF TableFits
  <2>3. \A j \in Ids : Stays(j) \/ sub'[j] = NoSub BY <2>1, <2>2, SameStays
  <2>4. sub' = [j \in Ids |-> sub'[j]] /\ wish' = [j \in Ids |-> wish'[j]] BY <2>1 DEF TableFits
  <2>5. None \notin USER_LOCKED BY VendorsAssumption DEF USER_LOCKED
  <2>6. \A j \in Ids : wish'[j] \in USER_LOCKED => sub'[j] # NoSub /\ sub'[j].status = wish'[j]
    BY <2>2, <2>5 DEF WishKept
  <2> QED BY <1>1, <1>2, <2>3, <2>4, <2>6, RowsChange DEF TableFits
<1> QED BY <1>5, <1>6, <1>7

\* What a detection makes of a row it has loaded.
LEMMA TargetRow ==
  ASSUME NEW p, IsRow(p.row), IsRow(p.was)
  PROVE  /\ IsRow(Target(p)) /\ RowKey(Target(p)) = RowKey(p.row)
         /\ \A c \in {"vendor", "name", "amount", "next"} : Target(p)[c] = p.row[c]
         /\ p.was.status \in USER_LOCKED => Target(p).status = p.was.status
<1>1. CASE p.was.status \in USER_LOCKED
  <2>1. PICK r : r = p.row OBVIOUS
  <2>2. PICK q : q = [r EXCEPT !.status = p.was.status] OBVIOUS
  <2>3. Target(p) = q BY <1>1, <2>1, <2>2 DEF Target
  <2>4. IsRow(q) /\ RowKey(q) = RowKey(r) /\ q.status = p.was.status BY <2>1, <2>2, OtherStatus
  <2>5. \A c \in {"vendor", "name", "amount", "next"} : q[c] = r[c] BY <2>1, <2>2 DEF IsRow, Columns
  <2> QED BY <1>1, <2>1, <2>3, <2>4, <2>5
<1>2. CASE p.was.status \notin USER_LOCKED
  <2>1. Target(p) = p.row BY <1>2 DEF Target
  <2> QED BY <1>2, <2>1
<1> QED BY <1>1, <1>2

\* What it writes over the row there is now.
LEMMA OverRow ==
  ASSUME NEW p, IsRow(p.row), IsRow(p.was), Finds(p.was, p.row), NEW r, r = sub[p.id], IsRow(r),
         NEW o, o = Over(p)
  PROVE  /\ IsRow(o) /\ o.vendor = r.vendor
         /\ o.name = r.name \/ (Target(p).name # p.was.name /\ o.name = p.row.name)
         /\ p.was.status \in USER_LOCKED => o.status = r.status
         /\ r = p.was => o = Target(p)
<1>1. PICK g : g = Target(p) OBVIOUS
<1>2. /\ IsRow(g) /\ g.vendor = p.row.vendor /\ g.name = p.row.name
      /\ p.was.status \in USER_LOCKED => g.status = p.was.status
  BY <1>1, TargetRow
<1>3. DOMAIN p.row = Columns BY DEF IsRow
<1>4. o = [c \in Columns |-> IF g[c] # p.was[c] THEN g[c] ELSE r[c]] BY <1>1, <1>3 DEF Over
<1>5. o.vendor = r.vendor BY <1>2, <1>4 DEF Finds, Columns
<1>6. o.name = r.name \/ (g.name # p.was.name /\ o.name = p.row.name) BY <1>2, <1>4 DEF Columns
<1>7. IsRow(o)
  <2>1. o.name \in DOMAIN Fold /\ o.vendor \in Vendors \cup {None} BY <1>2, <1>5, <1>6 DEF IsRow
  <2> QED BY <1>4, <2>1 DEF IsRow
<1>8. p.was.status \in USER_LOCKED => o.status = r.status BY <1>2, <1>4 DEF Columns
<1>9. r = p.was => o = g
  <2>1. g = [c \in Columns |-> g[c]] BY <1>2 DEF IsRow
  <2> QED BY <1>4, <2>1
<1> QED BY <1>1, <1>5, <1>6, <1>7, <1>8, <1>9

\* The rows after the commit of a detection.
Commits(plan, n, new) ==
  /\ PlanFits(plan) /\ n \in Nat /\ LastId \in Nat
  /\ \A k \in 1..n : \E p \in plan : p.id = 0 /\ new[k] = p.row
  /\ \A p \in plan : p.id = 0 => \E k \in 1..n : new[k] = p.row
  /\ \A j, k \in 1..n : new[j] = new[k] => j = k
  /\ \A p \in plan : Changes(p) => p.id \in Live /\ sub'[p.id] = Over(p)
  /\ \A k \in 1..n : Joins(LastId + k, new[k])
  /\ \A i \in Ids : (\E p \in plan : Changes(p) /\ p.id = i) \/ (\E k \in 1..n : i = LastId + k) \/ sub'[i] = sub[i]
  /\ odd \subseteq odd'
  /\ \A k \in 1..n : FindExisting(new[k].vendor, new[k].name) # 0 => LastId + k \in odd'
  /\ \A p \in plan : /\ Changes(p) /\ Target(p).name # p.was.name
                     /\ <<sub[p.id].vendor, sub[p.id].name>> # <<p.was.vendor, p.was.name>>
                     => p.id \in odd'
  /\ \A i \in Ids : wish'[i] = wish[i] \/ wish'[i] = None
  /\ \A p \in plan : Changes(p) /\ sub[p.id].status # p.was.status => wish'[p.id] = None

\* The commit of a detection is such a change of the rows.
LEMMA CommitIs ==
  ASSUME TableFits, NEW t \in Callers, NEW plan, plan = call[t].plan, PlanFits(plan), DetectCommit(t)
  PROVE  /\ \E n, new : Commits(plan, n, new)
         /\ sub' = [i \in Ids |-> sub'[i]] /\ wish' = [i \in Ids |-> wish'[i]]
         /\ UNCHANGED <<home, seen, alias>> /\ settled' = (plan = Plan)
<1>1. PICK S : S = {p.row : p \in {q \in plan : q.id = 0}} OBVIOUS
<1>2. PICK new : new = SetToSeq(S) OBVIOUS
<1>3. PICK n : n = Cardinality(S) OBVIOUS
<1>4. PICK crossed : crossed = {p.id : p \in {q \in plan : Changes(q) /\ sub[q.id].status # q.was.status}} OBVIOUS
<1>5. PICK moved : moved = {p.id : p \in {q \in plan : /\ Changes(q) /\ Target(q).name # q.was.name
                                                    /\ <<sub[q.id].vendor, sub[q.id].name>> # <<q.was.vendor, q.was.name>>}}
  OBVIOUS
<1>6. PICK beside : beside = {LastId + k : k \in {j \in DOMAIN new : FindExisting(new[j].vendor, new[j].name) # 0}} OBVIOUS
<1> DEFINE Updated(i) == {Over(p) : p \in {q \in plan : q.id = i /\ Changes(q)}}
<1>7. /\ ~Vanished(plan) /\ Fits(new)
      /\ sub' = [i \in Ids |-> IF Updated(i) # {} THEN CHOOSE r \in Updated(i) : TRUE ELSE Added(new)[i]]
      /\ odd' = odd \cup beside \cup moved
      /\ wish' = [i \in Ids |-> IF i \in crossed THEN None ELSE wish[i]]
      /\ settled' = (plan = Plan)
      /\ UNCHANGED charges
  BY <1>1, <1>2, <1>4, <1>5, <1>6, Zenon DEF DetectCommit
<1>8. IsFiniteSet(S)
  <2>1. PICK A : A = {q \in plan : q.id = 0} OBVIOUS
  <2>2. IsFiniteSet(A) BY <2>1, FS_Subset DEF PlanFits
  <2>3. PICK F : F = [p \in A |-> p.row] OBVIOUS
  <2>4. F \in Surjection(A, S) BY <1>1, <2>1, <2>3 DEF Surjection
  <2> QED BY <2>2, <2>4, FS_Surjection
<1>9. /\ n \in Nat /\ new \in [1..n -> S] /\ \A x \in S : \E i \in 1..n : new[i] = x
      /\ \A i, j \in 1..n : new[i] = new[j] => i = j
  BY <1>2, <1>3, <1>8, Listed
<1>10. new = [k \in 1..n |-> new[k]] BY <1>9
<1>11. /\ LastId \in Nat /\ \A i \in Live : i <= LastId
       /\ \A k \in 1..n : LastId + k \in Ids \ Live /\ Added(new)[LastId + k] = new[k]
       /\ \A i \in Ids : (\E k \in 1..n : i = LastId + k) \/ Added(new)[i] = sub[i]
  <2>1. Fits(new) /\ n \in Nat BY <1>7, <1>9
  <2> HIDE DEF Updated
  <2> QED BY <1>10, <2>1, RowsAdded
<1>12. \A p \in plan : Changes(p) => p.id \in Live BY <1>7 DEF Vanished, Changes, PlanFits, Live
<1>13. ASSUME NEW p \in plan, Changes(p) PROVE sub'[p.id] = Over(p)
  <2>1. p.id \in Ids /\ p.id # 0 BY <1>12, <1>13 DEF Live, Changes
  <2>2. \A q \in plan : q.id = p.id => q = p BY <2>1 DEF PlanFits
  <2>3. Updated(p.id) = {Over(p)} BY <1>13, <2>2
  <2> QED BY <1>7, <2>1, <2>3
<1>14. \A i \in Ids : (\E p \in plan : Changes(p) /\ p.id = i) \/ sub'[i] = Added(new)[i] BY <1>7
<1>15. \A k \in 1..n : \E p \in plan : p.id = 0 /\ new[k] = p.row BY <1>1, <1>9
<1>16. \A p \in plan : p.id = 0 => \E k \in 1..n : new[k] = p.row BY <1>1, <1>9
<1>17. \A k \in 1..n : Joins(LastId + k, new[k])
  <2> TAKE k \in 1..n
  <2>1. LastId + k \in Ids \ Live /\ Added(new)[LastId + k] = new[k] BY <1>11
  <2>2. sub'[LastId + k] = new[k] BY <1>12, <1>14, <2>1
  <2>3. IsRow(new[k]) BY <1>15 DEF PlanFits
  <2> QED BY <2>1, <2>2, <2>3 DEF Joins
<1>18. \A i \in Ids : (\E p \in plan : Changes(p) /\ p.id = i) \/ (\E k \in 1..n : i = LastId + k) \/ sub'[i] = sub[i]
  BY <1>11, <1>14
<1>19. \A k \in 1..n : FindExisting(new[k].vendor, new[k].name) # 0 => LastId + k \in odd' BY <1>6, <1>7, <1>9
<1>20. \A p \in plan : /\ Changes(p) /\ Target(p).name # p.was.name
                      /\ <<sub[p.id].vendor, sub[p.id].name>> # <<p.was.vendor, p.was.name>>
                      => p.id \in odd'
  BY <1>5, <1>7
<1>21. \A i \in Ids : wish'[i] = wish[i] \/ wish'[i] = None BY <1>7
<1>22. \A p \in plan : Changes(p) /\ sub[p.id].status # p.was.status => wish'[p.id] = None
  BY <1>4, <1>7, <1>12 DEF Live
<1>23. Commits(plan, n, new)
  BY <1>7, <1>9, <1>11, <1>12, <1>13, <1>15, <1>16, <1>17, <1>18, <1>19, <1>20, <1>21, <1>22 DEF Commits
<1> QED BY <1>7, <1>23 DEF charges

\* A row that is written stays of its group, unless it is no more the row that was read.
LEMMA WrittenStays ==
  ASSUME TableFits, NEW plan, NEW n, NEW new, Commits(plan, n, new), NEW p \in plan, Changes(p)
  PROVE  Stays(p.id)
<1>1. /\ p.id \in Live /\ p.id # 0 /\ sub'[p.id] = Over(p) /\ odd \subseteq odd'
      /\ IsRow(p.row) /\ IsRow(p.was) /\ Finds(p.was, p.row)
  BY DEF Commits, PlanFits, Changes
<1>2. PICK r : r = sub[p.id] OBVIOUS
<1>3. PICK o : o = Over(p) OBVIOUS
<1>4. IsRow(r) BY <1>1, <1>2 DEF TableFits
<1>5. /\ IsRow(o) /\ o.vendor = r.vendor
      /\ o.name = r.name \/ (Target(p).name # p.was.name /\ o.name = p.row.name)
  BY <1>1, <1>2, <1>3, <1>4, OverRow
<1>6. ASSUME p.id \in Standing' PROVE p.id \in Standing /\ RowKey(o) = RowKey(r)
  <2>1. p.id \notin odd' /\ Stands(o) BY <1>1, <1>3, <1>6 DEF Standing, Stands
  <2>2. p.id \notin odd BY <1>1, <2>1
  <2>3. CASE o.name = r.name
    <3>1. RowKey(o) = RowKey(r) /\ Stands(r) BY <1>5, <2>1, <2>3 DEF RowKey, Stands
    <3> QED BY <1>1, <1>2, <2>2, <3>1 DEF Standing, Stands
  <2>4. CASE Target(p).name # p.was.name /\ o.name = p.row.name
    <3>1. <<r.vendor, r.name>> = <<p.was.vendor, p.was.name>> BY <1>2, <2>1, <2>4 DEF Commits
    <3>2. r.vendor = p.was.vendor /\ r.name = p.was.name BY <3>1
    <3>3. Finds(r, p.row) BY <1>1, <3>2 DEF Finds
    <3>4. Stands(r) /\ RowKey(r) = RowKey(p.row) BY <1>1, <1>4, <3>3, FindsGroup
    <3>5. RowKey(o) = RowKey(p.row) BY <1>5, <2>4, <3>3 DEF RowKey, Finds
    <3> QED BY <1>1, <1>2, <2>2, <3>4, <3>5 DEF Standing, Stands
  <2> QED BY <1>5, <2>3, <2>4
<1> QED BY <1>1, <1>2, <1>3, <1>5, <1>6 DEF Stays

\* After a detection nothing came between, the row found for a group that recurs is the
\* one it was written to.
LEMMA CommitWrites ==
  ASSUME TableFits, NEW n, NEW new, Commits(Plan, n, new), UNCHANGED <<seen, alias>>, NEW f \in Verdicts, Stands(f)
  PROVE  Written(f)'
<1>1. /\ PlanFits(Plan) /\ IsRow(f)
      /\ \A p \in Plan : p.id = FindExisting(p.row.vendor, p.row.name) /\ (p.id # 0 => p.was = sub[p.id])
  BY PlanReads, OneVerdict
<1>2. PICK p \in Plan : p.row = f BY PlanReads
<1>3. p.id = FindExisting(f.vendor, f.name) BY <1>1, <1>2
<1>4. n \in Nat /\ LastId \in Nat BY DEF Commits
<1>5. PICK T : T = {i \in Live' : Finds(sub'[i], f)} OBVIOUS
<1>6. FindExisting(f.vendor, f.name)' = IF T = {} THEN 0 ELSE Min(T)
  BY <1>5, Zenon DEF FindExisting, Finds
<1>7. \A q \in Plan : RowKey(q.row) = RowKey(f) => q = p BY <1>1, <1>2 DEF PlanFits
<1>8. ASSUME NEW q \in Plan, Changes(q)
      PROVE  /\ q.id \in Live /\ IsRow(sub'[q.id]) /\ RowKey(sub'[q.id]) = RowKey(q.row)
             /\ \A c \in {"vendor", "name", "amount", "next"} : sub'[q.id][c] = q.row[c]
  <2>1. /\ q.id \in Live /\ q.id # 0 /\ sub'[q.id] = Over(q) /\ q.was = sub[q.id]
        /\ IsRow(q.row) /\ IsRow(q.was) /\ Finds(q.was, q.row)
    BY <1>1, <1>8 DEF Commits, PlanFits, Changes
  <2>2. Over(q) = Target(q) BY <2>1, OverRow
  <2> QED BY <2>1, <2>2, TargetRow
<1>9. ASSUME NEW i \in T
      PROVE  \/ i = p.id
             \/ \E k \in 1..n : i = LastId + k /\ new[k] = f /\ p.id = 0
             \/ i \in Live /\ Finds(sub[i], f)
  <2>1. i \in Ids /\ sub'[i] # NoSub /\ Finds(sub'[i], f) BY <1>5 DEF Live
  <2>2. ASSUME NEW q \in Plan, Changes(q), q.id = i PROVE i = p.id
    <3>1. RowKey(sub'[i]) = RowKey(f) BY <1>1, <1>8, <2>1, <2>2, FindsGroup
    <3>2. RowKey(q.row) = RowKey(f) BY <1>8, <2>2, <3>1
    <3> QED BY <1>7, <2>2, <3>2
  <2>3. ASSUME NEW k \in 1..n, i = LastId + k PROVE new[k] = f /\ p.id = 0
    <3>1. sub'[i] = new[k] /\ IsRow(new[k]) BY <2>3 DEF Commits, Joins
    <3>2. RowKey(new[k]) = RowKey(f) BY <1>1, <2>1, <3>1, FindsGroup
    <3>3. PICK q \in Plan : q.id = 0 /\ new[k] = q.row BY DEF Commits
    <3> QED BY <1>2, <1>7, <3>2, <3>3
  <2>4. CASE sub'[i] = sub[i] BY <2>1, <2>4 DEF Live
  <2> QED BY <2>1, <2>2, <2>3, <2>4 DEF Commits
<1>10. T \subseteq Ids /\ Ids \subseteq Nat /\ 0 \notin Ids BY <1>5, BoundsAssumption DEF Live, Ids
<1>11. ASSUME NEW r, IsRow(r), r.vendor = f.vendor, r.name = f.name PROVE Finds(r, f)
  BY <1>11 DEF Finds, Stands, Plain
<1>12. ASSUME p.id = 0
       PROVE  \E i \in T : /\ \A j \in T : i <= j
                           /\ \A c \in {"vendor", "name", "amount", "next"} : sub'[i][c] = f[c]
  <2>1. PICK k \in 1..n : new[k] = f BY <1>2, <1>12 DEF Commits
  <2>2. LastId + k \in Ids /\ sub'[LastId + k] = f BY <2>1 DEF Commits, Joins
  <2>3. LastId + k \in T BY <1>1, <1>5, <1>11, <2>2, RowIsThere DEF Live
  <2>4. \A j \in Live : ~Finds(sub[j], f) BY <1>3, <1>12, FirstFound
  <2>5. \A j \in T : j = LastId + k
    <3> TAKE j \in T
    <3>1. j # 0 BY <1>10
    <3>2. PICK h \in 1..n : j = LastId + h /\ new[h] = f BY <1>9, <1>12, <2>4, <3>1
    <3>3. h = k BY <2>1, <3>2 DEF Commits
    <3> QED BY <3>2, <3>3
  <2>6. LastId + k <= LastId + k BY <1>4
  <2> QED BY <2>2, <2>3, <2>5, <2>6
<1>13. ASSUME p.id # 0
       PROVE  \E i \in T : /\ \A j \in T : i <= j
                           /\ \A c \in {"vendor", "name", "amount", "next"} : sub'[i][c] = f[c]
  <2>1. p.id \in Live /\ p.was = sub[p.id] /\ \A j \in Live : Finds(sub[j], f) => p.id <= j
    BY <1>1, <1>3, <1>13, FirstFound
  <2>2. p.id \in Ids /\ IsRow(p.was) BY <2>1 DEF Live, TableFits
  <2>3. /\ IsRow(sub'[p.id])
        /\ \A c \in {"vendor", "name", "amount", "next"} : sub'[p.id][c] = f[c]
    <3>1. CASE Changes(p) BY <1>2, <1>8, <3>1
    <3>2. CASE ~Changes(p)
      <4>1. Target(p) = sub[p.id] BY <1>13, <2>1, <3>2 DEF Changes
      <4>2. sub'[p.id] = sub[p.id]
        <5>1. \A q \in Plan : q.id = p.id => q = p BY <1>1, <1>13 DEF PlanFits
        <5>2. \A k \in 1..n : p.id # LastId + k BY <2>1 DEF Commits, Joins
        <5> QED BY <2>2, <3>2, <5>1, <5>2 DEF Commits
      <4> QED BY <1>1, <1>2, <2>2, <4>1, <4>2, TargetRow
    <3> QED BY <3>1, <3>2
  <2>4. p.id \in T BY <1>5, <1>11, <2>2, <2>3, RowIsThere DEF Live
  <2>5. \A j \in T : p.id <= j BY <1>9, <1>10, <1>13, <2>1, <2>4
  <2> QED BY <2>3, <2>4, <2>5
<1>14. PICK i \in T : /\ \A j \in T : i <= j
                      /\ \A c \in {"vendor", "name", "amount", "next"} : sub'[i][c] = f[c]
  BY <1>12, <1>13
<1>15. Min(T) \in T /\ \A j \in T : Min(T) <= j
  <2>1. T \in SUBSET Nat /\ T # {} BY <1>10, <1>14
  <2> QED BY <2>1, MinIs
<1>16. FindExisting(f.vendor, f.name)' = i /\ i # 0
  <2>1. Min(T) <= i /\ i <= Min(T) /\ i \in Nat /\ Min(T) \in Nat BY <1>10, <1>14, <1>15
  <2>2. Min(T) = i BY <2>1
  <2> QED BY <1>6, <1>10, <1>14, <2>2
<1> QED BY <1>14, <1>16 DEF Written

\* A detection commits.
LEMMA CommitKeeps ==
  ASSUME SubscriptionsInv, CyclesFit, NEW t \in Callers, DetectCommit(t)
  PROVE  SubscriptionsInv'
<1> USE DEF SubscriptionsInv
<1>1. PICK plan : plan = call[t].plan OBVIOUS
<1>2. PlanFits(plan) BY <1>1 DEF PlansFit, DetectCommit
<1>3. /\ sub' = [i \in Ids |-> sub'[i]] /\ wish' = [i \in Ids |-> wish'[i]]
      /\ UNCHANGED <<home, seen, alias>> /\ settled' = (plan = Plan)
  BY <1>1, <1>2, CommitIs
<1>4. PICK n, new : Commits(plan, n, new) BY <1>1, <1>2, CommitIs
<1>5. PlansStay
  <2>1. Goto(t, "publish") BY DEF DetectCommit
  <2> QED BY <2>1, GotoKeepsPlans DEF Goto
<1>6. \A i \in Ids : (\E k \in 1..n : i = LastId + k) \/ Stays(i)
  <2> TAKE i \in Ids
  <2>1. CASE sub'[i] = sub[i] BY <1>4, <2>1, SameStays DEF Commits
  <2>2. ASSUME NEW p \in plan, Changes(p), p.id = i PROVE Stays(i) BY <1>4, <2>2, WrittenStays
  <2> QED BY <1>4, <2>1, <2>2 DEF Commits
<1>7. \A k \in 1..n : LastId + k \in odd' \/ \A i \in Live : ~Finds(sub[i], new[k])
  BY <1>4, FirstFound DEF Commits
<1>8. \A j, k \in 1..n : RowKey(new[j]) = RowKey(new[k]) => j = k
  <2> TAKE j, k \in 1..n
  <2> HAVE RowKey(new[j]) = RowKey(new[k])
  <2>1. PICK p \in plan : new[j] = p.row BY <1>4 DEF Commits
  <2>2. PICK q \in plan : new[k] = q.row BY <1>4 DEF Commits
  <2>3. p = q BY <1>2, <2>1, <2>2 DEF PlanFits
  <2> QED BY <1>4, <2>1, <2>2, <2>3 DEF Commits
<1>9. n \in Nat /\ LastId \in Nat /\ \A k \in 1..n : Joins(LastId + k, new[k]) BY <1>4 DEF Commits
<1>10. RowsApart' /\ \A i \in Live' : IsRow(sub'[i])
  <2>1. \A j, k \in 1..n : j < k /\ Stands(new[j]) /\ RowKey(new[j]) = RowKey(new[k]) => LastId + k \in odd'
    BY <1>8
  <2> QED BY <1>3, <1>6, <1>7, <1>9, <2>1, RowsJoin
<1>11. TableFits' BY <1>3, <1>10 DEF TableFits
<1>12. PlansFit' BY <1>5 DEF PlansFit, PlansStay
<1>13. WishKept'
  <2>1. None \notin USER_LOCKED BY VendorsAssumption DEF USER_LOCKED
  <2> SUFFICES ASSUME NEW i \in Ids, wish'[i] \in USER_LOCKED
               PROVE  sub'[i] # NoSub /\ sub'[i].status = wish'[i]
    BY DEF WishKept
  <2>2. wish'[i] = wish[i] BY <1>4, <2>1 DEF Commits
  <2>3. i \in Live /\ sub[i].status = wish[i] BY <2>2 DEF WishKept, Live
  <2>4. CASE sub'[i] = sub[i] BY <2>2, <2>3, <2>4 DEF Live
  <2>5. ASSUME NEW p \in plan, Changes(p), p.id = i PROVE sub'[i] # NoSub /\ sub'[i].status = sub[i].status
    <3>1. sub[i].status = p.was.status BY <1>4, <2>1, <2>5 DEF Commits
    <3>2. /\ sub'[i] = Over(p) /\ IsRow(p.row) /\ IsRow(p.was) /\ Finds(p.was, p.row)
      BY <1>2, <1>4, <2>5 DEF Commits, PlanFits, Changes
    <3>3. IsRow(sub[i]) BY <2>3 DEF TableFits
    <3>4. IsRow(sub'[i]) /\ sub'[i].status = sub[i].status BY <2>2, <2>3, <2>5, <3>1, <3>2, <3>3, OverRow
    <3> QED BY <3>4, RowIsThere
  <2>6. \A k \in 1..n : i # LastId + k BY <1>9, <2>3 DEF Joins
  <2> QED BY <1>4, <2>2, <2>3, <2>4, <2>5, <2>6 DEF Commits
<1>14. AllWritten'
  <2> SUFFICES ASSUME settled', NEW f \in Verdicts', Stands(f)' PROVE Written(f)' BY DEF AllWritten
  <2>1. plan = Plan BY <1>3
  <2>2. Verdicts' = Verdicts
    <3>1. seen' = seen /\ alias' = alias BY <1>3
    <3> QED BY <3>1 DEF Verdicts, RecentSpend, Detected, Group, GroupKey
  <2>3. Stands(f) BY DEF Stands, Plain
  <2> QED BY <1>3, <1>4, <2>1, <2>2, <2>3, CommitWrites
<1> QED BY <1>10, <1>11, <1>12, <1>13, <1>14

\* A detection reads what there is.
LEMMA DetectKeeps ==
  ASSUME SubscriptionsInv, CyclesFit, NEW t \in Callers, DetectStart(t) \/ DetectAfter(t)
  PROVE  SubscriptionsInv'
<1>1. PICK plan : plan = Plan OBVIOUS
<1>2. PICK after : call' = [call EXCEPT ![t] = [pc |-> "detected", after |-> after, plan |-> plan]]
  BY <1>1 DEF DetectStart, DetectAfter
<1>3. UNCHANGED <<charges, sub, history>> BY DEF DetectStart, DetectAfter, subscriptions
<1>4. PlanFits(plan) BY <1>1, PlanReads DEF SubscriptionsInv
<1>5. call'[t].plan = plan /\ \A u \in Callers \ {t} : call'[u] = call[u] BY <1>2 DEF CyclesFit
<1>6. PlansFit' BY <1>4, <1>5 DEF PlansFit, SubscriptionsInv
<1> QED BY <1>3, <1>6, NothingHappens

\* The steps of Subscriptions.
LEMMA RenewalKeeps ==
  ASSUME SubscriptionsInv, CyclesFit, NEW t \in Callers, Renewals(t)
  PROVE  SubscriptionsInv'
<1>1. ASSUME NEW v \in home.vendors, NEW w \in home.vendors, MergeVendor(t, v, w) PROVE SubscriptionsInv'
  BY <1>1, RepointKeeps DEF MergeVendor
<1>2. ASSUME NEW v \in home.vendors, DeleteVendor(t, v) PROVE SubscriptionsInv'
  BY <1>2, RepointKeeps DEF DeleteVendor
<1>3. CASE DetectFails(t)
  <2>1. PICK next \in {"publish", "idle"} : Goto(t, next) BY <1>3 DEF DetectFails
  <2>2. PlansStay BY <2>1, GotoKeepsPlans DEF Goto
  <2>3. PlansFit' BY <2>2 DEF PlansFit, PlansStay, SubscriptionsInv
  <2> QED BY <1>3, <2>3, NothingHappens DEF DetectFails, subscriptions
<1>4. ASSUME NEW i \in Ids,
             \/ \E status \in Chosen : SetStatus(t, i, status)
             \/ \E name \in DOMAIN Fold : Rename(t, i, name)
             \/ DeleteSubscription(t, i)
      PROVE  SubscriptionsInv'
  BY <1>4, EditKeeps
<1>5. ASSUME NEW b \in home.batches, ImportRows(t, b) PROVE SubscriptionsInv' BY <1>5, ImportKeeps
<1>6. ASSUME NEW l \in Labels, NEW v \in home.vendors, Match(t, l, v) PROVE SubscriptionsInv' BY <1>6, MatchKeeps
<1>7. CASE Recategorise(t) BY <1>7, RecategoriseKeeps
<1>8. CASE DetectStart(t) \/ DetectAfter(t) BY <1>8, DetectKeeps
<1>9. CASE DetectCommit(t) BY <1>9, CommitKeeps
<1> QED BY <1>1, <1>2, <1>3, <1>4, <1>5, <1>6, <1>7, <1>8, <1>9 DEF Renewals

\* Publishing leaves the table and the detections under way alone.
LEMMA PublishingKeepsPlans ==
  ASSUME CyclesFit, NEW t \in Callers,
         \/ PublishRead(t) \/ ConnectFails(t) \/ Send(t) \/ Lose(t) \/ Drop(t) \/ CycleEnds(t)
         \/ SecurityEvent(t) \/ PublishNow(t)
  PROVE  PlansStay
<1>1. ASSUME NEW u \in InCycle, NEW rest
      PROVE  /\ [call[u] EXCEPT !.alone = FALSE].pc = "cycle" /\ [call[u] EXCEPT !.up = FALSE].pc = "cycle"
             /\ [call[u] EXCEPT !.todo = rest].pc = "cycle"
             /\ [[call[u] EXCEPT !.todo = rest] EXCEPT !.whole = FALSE].pc = "cycle"
  BY DEF CyclesFit, InCycle, Publishes, Tells, Cycles, Events
<1>2. ASSUME NEW next \in {"idle", "publish"}, Goto(t, next) PROVE PlansStay BY <1>2, GotoKeepsPlans DEF Goto
<1>3. CASE PublishRead(t) BY <1>1, <1>3 DEF PublishRead, PlansStay
<1>4. CASE ConnectFails(t) \/ CycleEnds(t) \/ PublishNow(t) BY <1>2, <1>4 DEF ConnectFails, CycleEnds, PublishNow
<1>5. CASE Send(t) BY <1>1, <1>5, GotoKeepsPlans DEF Send, Sent, InCycle
<1>6. CASE Lose(t)
  <2>1. call' = [call EXCEPT ![t] = [[call[t] EXCEPT !.todo = Tail(call[t].todo)] EXCEPT !.whole = FALSE]] /\ t \in InCycle
    BY <1>6 DEF Lose, Sent, CyclesFit, InCycle
  <2> QED BY <1>1, <2>1, GotoKeepsPlans
<1>7. CASE Drop(t) BY <1>1, <1>7, GotoKeepsPlans DEF Drop, InCycle
<1>8. CASE SecurityEvent(t)
  <2>1. PICK c : c.pc = "cycle" /\ call' = [call EXCEPT ![t] = c] BY <1>8 DEF SecurityEvent
  <2> QED BY <2>1, GotoKeepsPlans
<1> QED BY <1>3, <1>4, <1>5, <1>6, <1>7, <1>8

\* Every step of Publishing's own leaves the table alone.
LEMMA PublishingLeaves ==
  ASSUME SubscriptionsInv, CyclesFit, Next, \A t \in Callers : ~Renewal(t)
  PROVE  SubscriptionsInv'
<1>1. ASSUME NEW t \in Callers,
             \/ PublishRead(t) \/ ConnectFails(t) \/ Send(t) \/ Lose(t) \/ Drop(t) \/ CycleEnds(t)
             \/ SecurityEvent(t) \/ PublishNow(t)
      PROVE  PlansStay /\ UNCHANGED <<charges, sub, history>>
  <2>1. PlansStay BY <1>1, PublishingKeepsPlans
  <2>2. UNCHANGED <<charges, sub, history>>
    BY <1>1
    DEF PublishRead, ConnectFails, Send, Lose, Drop, CycleEnds, SecurityEvent, PublishNow, subscriptions, broker
  <2> QED BY <2>1, <2>2
<1>2. ASSUME NEW t \in Callers, NEW b \in Budgets, NEW n \in Limits \cup {0}, SaveBudget(t, b, n)
      PROVE  PlansStay /\ UNCHANGED <<charges, sub, history>>
  BY <1>2, GotoKeepsPlans DEF SaveBudget, Goto
<1>3. ASSUME NEW t \in Callers, NEW unwanted \in SUBSET Keys, SetSelection(t, unwanted)
      PROVE  PlansStay /\ UNCHANGED <<charges, sub, history>>
  BY <1>3 DEF SetSelection, PlansStay
<1>4. CASE WillFires \/ Crash
  <2>1. PlansStay BY <1>4 DEF WillFires, Crash, PlansStay, Idle
  <2>2. UNCHANGED <<charges, sub, history>> BY <1>4 DEF WillFires, Crash, subscriptions
  <2>3. PlansFit' BY <2>1 DEF PlansFit, PlansStay, SubscriptionsInv
  <2> QED BY <2>2, <2>3, NothingHappens
<1>5. ASSUME PlansStay, UNCHANGED <<charges, sub, history>> PROVE SubscriptionsInv'
  <2>1. PlansFit' BY <1>5 DEF PlansFit, PlansStay, SubscriptionsInv
  <2> QED BY <1>5, <2>1, NothingHappens
<1> QED BY <1>1, <1>2, <1>3, <1>4, <1>5 DEF Next

\* What holds of subscriptions, of the detections under way and of what the owner chose.
THEOREM SubscriptionsInvariant == Spec => []SubscriptionsInv
<1>1. Init => SubscriptionsInv
  <2> SUFFICES ASSUME Init PROVE SubscriptionsInv OBVIOUS
  <2>1. Live = {} BY DEF Init, Begun, Live
  <2>2. None \notin USER_LOCKED BY VendorsAssumption DEF USER_LOCKED
  <2>3. TableFits BY <2>1, FS_EmptySet DEF Init, Begun, TableFits
  <2>4. PlansFit BY DEF Init, Idle, PlansFit
  <2>5. RowsApart BY <2>1 DEF RowsApart, Standing
  <2>6. WishKept BY <2>2 DEF Init, Begun, WishKept
  <2>7. AllWritten BY DEF Init, Begun, AllWritten
  <2> QED BY <2>3, <2>4, <2>5, <2>6, <2>7 DEF SubscriptionsInv
<1>2. SubscriptionsInv /\ PublishingInv /\ [Next]_vars => SubscriptionsInv'
  <2> SUFFICES ASSUME SubscriptionsInv, PublishingInv, [Next]_vars PROVE SubscriptionsInv' OBVIOUS
  <2>1. CyclesFit BY DEF PublishingInv
  <2>2. CASE UNCHANGED vars
    <3>1. UNCHANGED <<charges, sub, history>> /\ call' = call BY <2>2 DEF vars, subscriptions
    <3>2. PlansFit' BY <3>1 DEF PlansFit, SubscriptionsInv
    <3> QED BY <3>1, <3>2, NothingHappens
  <2>3. ASSUME NEW t \in Callers, Renewal(t) PROVE SubscriptionsInv' BY <2>1, <2>3, RenewalKeeps DEF Renewal
  <2>4. CASE Next /\ \A t \in Callers : ~Renewal(t) BY <2>1, <2>4, PublishingLeaves
  <2> QED BY <2>2, <2>3, <2>4
<1> QED BY <1>1, <1>2, PublishingInvariant, PTL DEF Spec

-----------------------------------------------------------------------------
(* What the pages show of them.                                            *)

\* The charges of a group that is detected are no later than the one it is dated by.
LEMMA LatestOfAll ==
  ASSUME TableFits, NEW key, NEW last \in Group(key), \A d \in Group(key) : d.day <= last.day,
         NEW c \in seen, GroupKey(c) = key
  PROVE  c.day <= last.day
<1>1. \A d \in seen : d.day \in Nat BY ChargesAssumption DEF TableFits
<1>2. last \in RecentSpend /\ last \in seen BY DEF Group, RecentSpend
<1>3. CASE c \in RecentSpend BY <1>3 DEF Group
<1>4. CASE c \notin RecentSpend
  <2>1. PICK d \in seen : ~(c.day >= d.day - DETECT_WINDOW) BY <1>4 DEF RecentSpend
  <2>2. last.day >= d.day - DETECT_WINDOW BY <1>2 DEF RecentSpend
  <2> QED BY <1>1, <1>2, <2>1, <2>2, BoundsAssumption
<1> QED BY <1>3, <1>4

\* A row that says what was detected is overdue when its group is, and is seen by those who
\* see a charge of it.
LEMMA WrittenServes ==
  ASSUME TableFits, NEW f \in Verdicts, Written(f)
  PROVE  Served(f)
<1>1. IsRow(f) /\ SaysOf(f, RowKey(f)) BY OneVerdict
<1>2. PICK i : i = FindExisting(f.vendor, f.name) OBVIOUS
<1>3. PICK r : r = sub[i] OBVIOUS
<1>4. i # 0 /\ r.vendor = f.vendor /\ r.name = f.name /\ r.amount = f.amount /\ r.next = f.next
  BY <1>2, <1>3 DEF Written
<1>5. i \in Live BY <1>2, <1>4, FirstFound
<1>6. PICK key : key = RowKey(f) OBVIOUS
<1>7. KeyOf(i) = key BY <1>3, <1>4, <1>6 DEF KeyOf, RowKey
<1>8. PICK its : its = {c \in seen : GroupKey(c) = key} OBVIOUS
<1>9. PICK every : every = FREQUENCY_INTERVALS[f.frequency] OBVIOUS
<1>10. PICK last \in Group(key) : (\A d \in Group(key) : d.day <= last.day) /\ f.next = last.day + every /\ every \in Nat
  BY <1>1, <1>6, <1>9 DEF SaysOf
<1>11. last \in its /\ \A c \in its : c.day <= last.day /\ c.day \in Nat
  <2>1. last \in its BY <1>8, <1>10 DEF Group, RecentSpend
  <2>2. \A c \in its : c.day <= last.day BY <1>8, <1>10, LatestOfAll
  <2> QED BY <1>8, <2>1, <2>2, ChargesAssumption DEF TableFits
<1>12. ASSUME NEW c \in seen, i \in Active
       PROVE  i \in Overdue(c.day + 40, 3) <=> (~(\E d \in its : d.day + every + 3 >= c.day + 40))
  <2>1. c.day \in Nat /\ last.day \in Nat BY <1>11, ChargesAssumption DEF TableFits
  <2>2. r.next = last.day + every /\ r.next # None
    <3>1. last.day + every \in Nat BY <1>10, <2>1
    <3> QED BY <1>4, <1>10, <3>1, VendorsAssumption
  <2>3. i \in Overdue(c.day + 40, 3) <=> last.day + every - (c.day + 40) < -3
    <3>1. PICK day : day = c.day + 40 OBVIOUS
    <3>2. day \in Nat BY <2>1, <3>1
    <3>3. i \in Overdue(day, 3) <=> r.next - day < -3 BY <1>3, <1>12, <2>2 DEF Overdue
    <3> QED BY <1>10, <2>1, <2>2, <3>1, <3>2, <3>3
  <2>4. (\E d \in its : d.day + every + 3 >= c.day + 40) <=> last.day + every + 3 >= c.day + 40
    BY <1>10, <1>11, <2>1
  <2> QED BY <1>10, <2>1, <2>3, <2>4
<1>13. ASSUME NEW a PROVE (i \in VisibleIds({a})) <=> (\E c \in its : c.account = a)
  <2>1. ASSUME NEW c \in seen
        PROVE  GroupKey(c) = key <=> IF r.vendor # None THEN GroupKey(c).vendor = r.vendor
                                     ELSE GroupKey(c).vendor = None /\ GroupKey(c).name = Fold[r.name]
    BY <1>4, <1>6 DEF GroupKey, RowKey
  <2>2. i \in VisibleIds({a}) <=> \E c \in seen : c.account = a /\ GroupKey(c) = key
    BY <1>3, <1>5, <2>1 DEF VisibleIds
  <2>3. (\E c \in seen : c.account = a /\ GroupKey(c) = key) <=> (\E c \in its : c.account = a) BY <1>8
  <2> QED BY <2>2, <2>3
<1>14. sub[i].amount = f.amount BY <1>3, <1>4
<1>15. \A c \in seen : i \in Active => (i \in Overdue(c.day + 40, 3) <=> ~(\E d \in its : d.day + every + 3 >= c.day + 40))
  BY <1>12
<1>16. \A a \in {c.account : c \in Charges} : i \in VisibleIds({a}) <=> (\E c \in its : c.account = a) BY <1>13
<1>17. its = {c \in seen : GroupKey(c) = KeyOf(i)} BY <1>7, <1>8
<1> QED BY <1>2, <1>4, <1>9, <1>14, <1>15, <1>16, <1>17 DEF Served

\* However imports, rules, edits, merges of vendors and detections come, also detections that
\* overlap, one row stands for a group of charges unless it came to stand beside another by
\* two detections that overlapped or a pass over all rows, or its name or vendor was changed;
\* and after a detection nothing came between every group that recurs has its row, with its
\* latest price, overdue and seen when the group is (subscription_service.detect).
THEOREM ChargeTheorem == Spec => []OnePerCharge
<1>1. SubscriptionsInv => OnePerCharge
  BY WrittenServes DEF SubscriptionsInv, RowsApart, AllWritten, OnePerCharge, Stands
<1> QED BY <1>1, SubscriptionsInvariant, PTL

\* A row the owner cancelled or ignores keeps that status through every detection, unless
\* one that had read the row before wrote over his choice, and no other row of its group
\* is counted (subscription_service._upsert_subscription).
THEOREM CancelledTheorem == Spec => []CancelledStays
<1>1. "active" \notin USER_LOCKED BY DEF USER_LOCKED
<1>2. SubscriptionsInv => CancelledStays
  <2> SUFFICES ASSUME SubscriptionsInv, NEW i \in Standing, wish[i] \in USER_LOCKED
               PROVE  sub[i].status = wish[i] /\ \A j \in Standing \cap Active : KeyOf(j) # KeyOf(i)
    BY DEF CancelledStays
  <2>1. sub[i].status = wish[i] BY DEF SubscriptionsInv, WishKept, Standing, Live
  <2>2. ASSUME NEW j \in Standing \cap Active, KeyOf(j) = KeyOf(i) PROVE FALSE
    <3>1. j = i BY <2>2 DEF SubscriptionsInv, RowsApart
    <3> QED BY <1>1, <2>1, <2>2, <3>1 DEF Active
  <2> QED BY <2>1, <2>2
<1> QED BY <1>2, SubscriptionsInvariant, PTL
===============================================================================
