--------------------------- MODULE DeadlineProofs ---------------------------
(***************************************************************************)
(* Proofs about Deadline, for any number of certs, any timeouts and any    *)
(* set of sources that do not answer and reloads that do not end.          *)
(***************************************************************************)
EXTENDS Deadline, TLAPS

\* The run is where it stands no later than what came before it can have cost.
OnTime ==
  /\ pc = "login"  => cur = 1 /\ clock <= spent /\ spent <= RequestTimeout
  /\ pc = "cert"   => spent = 0 /\ clock <= Start[cur]
  /\ pc = "fetch"  => spent <= FetchLimit(cur) /\ clock <= Start[cur] + spent
  /\ pc = "reload" => /\ cur \notin Slow
                      /\ spent <= ReloadLimit(cur)
                      /\ clock <= Start[cur] + FetchLimit(cur) + spent

\* Only the clock cancels.
CancelledLate == cancelled => clock >= StartTimeout

\* The healthy certs that the loop has passed in time are renewed.
Passed ==
  pc \in {"cert", "fetch", "reload"} =>
    \A c \in due \cap Healthy : c < cur /\ InTime(c) => outcome[c] = "renewed"

IInv == TypeOK /\ OnTime /\ CancelledLate /\ Passed /\ HealthyServed

\* The parameters are numbers, and a run starts within its bounds.
LEMMA Numbers ==
  /\ N \in Nat /\ StartTimeout \in Nat /\ RequestTimeout \in Nat
  /\ FetchMax \in Nat /\ ReloadMax \in Nat
  BY DeadlineAssumption

LEMMA Blank == 0 \in 0..StartTimeout /\ [c \in Certs |-> "none"] \in [Certs -> Outcomes]
  <1>1. 0 \in 0..StartTimeout BY Numbers
  <1>2. "none" \in Outcomes BY DEF Outcomes
  <1> QED BY <1>1, <1>2

LEMMA FirstStart == 1 \in 1..N+1 /\ Start[1] \in Nat /\ RequestTimeout <= Start[1]
  <1>1. 1 \in 1..N+1 BY Numbers
  <1> QED BY <1>1, StartAssumption

\* A cert starts no earlier than the one before it has to have ended.
LEMMA CostFacts ==
  ASSUME NEW c \in Certs
  PROVE  /\ c \in 1..N+1 /\ c + 1 \in 1..N+1
         /\ FetchLimit(c) \in Nat /\ ReloadLimit(c) \in Nat /\ Cost(c) \in Nat
         /\ Start[c] \in Nat /\ Start[c + 1] \in Nat
         /\ Start[c] + Cost(c) <= Start[c + 1]
         /\ c \in Slow => FetchLimit(c) = Cost(c)
         /\ c \notin Slow => FetchLimit(c) + ReloadLimit(c) = Cost(c)
  <1>1. c \in 1..N+1 /\ c + 1 \in 1..N+1 /\ c < c + 1
    BY Numbers DEF Certs
  <1>2. FetchLimit(c) \in Nat /\ ReloadLimit(c) \in Nat
    BY Numbers DEF FetchLimit, ReloadLimit
  <1>3. Cost(c) \in Nat
    BY <1>2, Numbers DEF Cost
  <1>4. Start[c] \in Nat /\ Start[c + 1] \in Nat
    BY <1>1, StartAssumption
  <1>5. Start[c] + Cost(c) <= Start[c + 1]
    BY <1>1, StartAssumption
  <1>6. /\ c \in Slow => FetchLimit(c) = Cost(c)
        /\ c \notin Slow => FetchLimit(c) + ReloadLimit(c) = Cost(c)
    BY DEF FetchLimit, Cost
  <1> QED BY <1>1, <1>2, <1>3, <1>4, <1>5, <1>6

\* The initial states satisfy the invariant.
LEMMA InitIInv == Init => IInv
  <1> SUFFICES ASSUME Init PROVE IInv OBVIOUS
  <1>1. TypeOK
    BY FirstStart, Blank DEF Init, TypeOK
  <1>2. OnTime
    BY Numbers DEF Init, OnTime
  <1> QED BY <1>1, <1>2 DEF IInv, Init, CancelledLate, Passed, HealthyServed

\* processCert returns: the next cert is come to in time, and this one, when it
\* is healthy, due and in time, is renewed.
LEMMA DoneStep ==
  ASSUME IInv, NEW result \in Outcomes, Done(result),
         pc \in {"cert", "fetch", "reload"}, cur \in Certs,
         clock <= Start[cur] + Cost(cur),
         cur \in due \cap Healthy /\ InTime(cur) => result = "renewed"
  PROVE  IInv'
  <1> USE DEF IInv
  <1>1. cur + 1 \in 1..N+1 /\ clock <= Start[cur + 1] /\ cur < cur + 1
    <2>1. clock \in Nat /\ cur \in Nat BY Numbers DEF TypeOK, Certs
    <2> QED BY <2>1, CostFacts
  <1>2. TypeOK'
    BY <1>1 DEF TypeOK, Done
  <1>3. OnTime'
    BY <1>1 DEF OnTime, Done
  <1>4. CancelledLate'
    BY DEF CancelledLate, Done
  <1>5. Passed'
    <2> SUFFICES ASSUME NEW c \in due \cap Healthy, c < cur + 1, InTime(c)
                 PROVE  outcome'[c] = "renewed"
      BY DEF Passed, Done, Healthy, InTime
    <2>1. c \in Nat /\ cur \in Nat /\ c \in Certs
      BY Numbers DEF Healthy, Certs
    <2>2. CASE c = cur
      BY <2>1, <2>2 DEF Done, TypeOK
    <2>3. CASE c < cur
      BY <2>1, <2>3 DEF Done, Passed, TypeOK
    <2> QED BY <2>1, <2>2, <2>3
  <1>6. HealthyServed'
    BY DEF HealthyServed, Done
  <1> QED BY <1>2, <1>3, <1>4, <1>5, <1>6

\* Every step keeps the invariant.
LEMMA NextIInv == IInv /\ [Next]_vars => IInv'
  <1> SUFFICES ASSUME IInv, [Next]_vars PROVE IInv' OBVIOUS
  <1> USE DEF IInv
  <1>0. /\ clock \in Nat /\ spent \in Nat /\ cur \in 1..N+1 /\ cur \in Nat
        /\ clock <= StartTimeout
    BY Numbers DEF TypeOK
  <1>1. CASE Tick
    <2>1. TypeOK'
      BY <1>0, <1>1, Numbers DEF Tick, TypeOK
    <2>2. OnTime'
      <3>1. CASE pc = "login"
        BY <1>0, <1>1, <3>1, Numbers DEF Tick, Limit, OnTime
      <3>2. CASE pc = "fetch"
        <4>1. cur \in Certs BY <3>2 DEF TypeOK
        <4> QED BY <1>0, <1>1, <3>2, <4>1, CostFacts DEF Tick, Limit, OnTime
      <3>3. CASE pc = "reload"
        <4>1. cur \in Certs BY <3>3 DEF TypeOK
        <4> QED BY <1>0, <1>1, <3>3, <4>1, CostFacts DEF Tick, Limit, OnTime
      <3>4. CASE pc \notin {"login", "fetch", "reload"}
        BY <1>0, <1>1, <3>4 DEF Tick, Limit
      <3> QED BY <3>1, <3>2, <3>3, <3>4
    <2>3. CancelledLate' /\ Passed' /\ HealthyServed'
      BY <1>1 DEF Tick, CancelledLate, Passed, HealthyServed, Healthy, InTime
    <2> QED BY <2>1, <2>2, <2>3
  <1>2. CASE Terminate
    BY <1>2 DEF Terminate, TypeOK, OnTime, CancelledLate, Passed, HealthyServed,
                Healthy, InTime
  <1>3. CASE Login
    <2>1. cur = 1 /\ clock <= Start[1]
      BY <1>0, <1>3, Numbers, FirstStart DEF Login, OnTime
    <2>2. TypeOK' /\ OnTime' /\ CancelledLate' /\ HealthyServed'
      BY <1>3, <2>1 DEF Login, TypeOK, OnTime, CancelledLate, HealthyServed
    <2>3. Passed'
      BY <1>3, <2>1 DEF Login, Passed, Healthy, Certs
    <2> QED BY <2>2, <2>3
  <1>4. CASE LoginFails
    BY <1>4 DEF LoginFails, TypeOK, OnTime, CancelledLate, Passed, HealthyServed
  <1>5. CASE Skip
    <2>1. cur \in Certs /\ cur \notin due /\ pc = "cert" /\ Done("fresh")
      BY <1>5 DEF Skip
    <2>2. clock <= Start[cur] + Cost(cur)
      BY <1>0, <2>1, CostFacts DEF OnTime
    <2> QED BY <2>1, <2>2, DoneStep DEF Outcomes
  <1>6. CASE Ask
    <2>1. OnTime'
      <3>1. cur \in Certs BY <1>6 DEF Ask
      <3> QED BY <1>0, <1>6, <3>1, CostFacts DEF Ask, OnTime
    <2> QED BY <1>6, <2>1 DEF Ask, TypeOK, CancelledLate, Passed, HealthyServed,
                             Healthy, InTime
  <1>7. CASE Answer
    <2>1. OnTime'
      <3>1. cur \in Certs BY <1>7 DEF Answer, TypeOK
      <3> QED BY <1>0, <1>7, <3>1, CostFacts DEF Answer, OnTime
    <2> QED BY <1>7, <2>1 DEF Answer, TypeOK, CancelledLate, Passed, HealthyServed,
                             Healthy, InTime
  <1>8. CASE FetchFails
    <2>1. /\ cur \in Certs /\ pc = "fetch" /\ Done("unfetched")
          /\ cur \in Slow \/ cancelled
      BY <1>8 DEF FetchFails, TypeOK
    <2>2. clock <= Start[cur] + Cost(cur)
      BY <1>0, <2>1, CostFacts DEF OnTime
    <2>3. ~ (cur \in Healthy /\ InTime(cur))
      BY <1>0, <2>1, <2>2, Numbers, CostFacts DEF Healthy, InTime, CancelledLate
    <2> QED BY <2>1, <2>2, <2>3, DoneStep DEF Outcomes
  <1>9. CASE Reloaded
    <2>1. cur \in Certs /\ pc = "reload" /\ Done("renewed")
      BY <1>9 DEF Reloaded, TypeOK
    <2>2. clock <= Start[cur] + Cost(cur)
      BY <1>0, <2>1, CostFacts DEF OnTime
    <2> QED BY <2>1, <2>2, DoneStep DEF Outcomes
  <1>10. CASE ReloadFails
    <2>1. cur \in Certs /\ pc = "reload" /\ Done("unreloaded") /\ cancelled
      BY <1>10 DEF ReloadFails, TypeOK
    <2>2. clock <= Start[cur] + Cost(cur)
      BY <1>0, <2>1, CostFacts DEF OnTime
    <2>3. ~ InTime(cur)
      BY <1>0, <2>1, <2>2, Numbers, CostFacts DEF InTime, CancelledLate
    <2> QED BY <2>1, <2>2, <2>3, DoneStep DEF Outcomes
  <1>11. CASE Finish
    <2>1. \A c \in due \cap Healthy : InTime(c) => outcome[c] = "renewed"
      BY <1>11, Numbers DEF Finish, Passed, Healthy, Certs
    <2> QED BY <1>11, <2>1 DEF Finish, TypeOK, OnTime, CancelledLate, Passed,
                               HealthyServed, Healthy, InTime
  <1>12. CASE NextRun
    <2>1. TypeOK'
      BY <1>12, Blank, FirstStart DEF NextRun, TypeOK
    <2>2. OnTime'
      BY <1>12, Numbers DEF NextRun, OnTime
    <2> QED BY <1>12, <2>1, <2>2 DEF NextRun, CancelledLate, Passed, HealthyServed
  <1>13. CASE UNCHANGED vars
    BY <1>13 DEF vars, TypeOK, OnTime, CancelledLate, Passed, HealthyServed,
                 Healthy, InTime
  <1> QED BY <1>1, <1>2, <1>3, <1>4, <1>5, <1>6, <1>7, <1>8, <1>9, <1>10,
             <1>11, <1>12, <1>13 DEF Next

\* Type correctness; in particular a fetch or a reload under way is that of a
\* cert of the config: the loop of Run (renewer.go:80-86) stays within its list.
THEOREM Typing == Spec => []TypeOK
  <1>1. IInv => TypeOK BY DEF IInv
  <1> QED BY <1>1, InitIInv, NextIInv, PTL DEF Spec

\* Every run that gets past the login renews the due healthy certs that the
\* certs before them cannot have made late (client.go:25,
\* vault-cert-agent.service:22), for any number of certs and any timeouts.
THEOREM HealthyServedHolds == Spec => []HealthyServed
  <1>1. IInv => HealthyServed BY DEF IInv
  <1> QED BY <1>1, InitIInv, NextIInv, PTL DEF Spec
=============================================================================
