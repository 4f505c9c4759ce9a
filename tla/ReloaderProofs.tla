--------------------------- MODULE ReloaderProofs ---------------------------
(***************************************************************************)
(* Proofs about Reloader, for any number of certs and units, any methods   *)
(* and any operators: its types, that a reload which returns no error has  *)
(* reached every running unit, and that it implements Notify.              *)
(***************************************************************************)
EXTENDS Reloader, TLAPS

\* The units before the k-th are on the cert's present files.
Acked == pc \in {"invoke", "await"} =>
           \A j \in 1..Len(UnitSeq[cur]) :
             j < k /\ UnitSeq[cur][j] \in up => << UnitSeq[cur][j], cur >> \in read

\* So is the k-th once its job has succeeded, and every one when a command has.
Answered == Succeeded /\ pc = "await" /\ Unit \in up => << Unit, cur >> \in read

CommandDone == proc = "zero" =>
                 \A u \in UnitsOf[cur] \cap up : << u, cur >> \in read

\* Every call starts from the first unit and an empty channel, with the kind
\* of reload its place in the code says.
CallsStartClean ==
  /\ pc \notin {"invoke", "await"} => k = 1
  /\ pc # "await" => result = "none"
  /\ pc \in {"invoke", "await"} => Kind[cur] = "units"

\* A queued job was asked for by a method that may ask it.
JobsAsked == \A u \in Units : Starts(job[u]) => u \in Startable

IInv == TypeOK /\ Acked /\ Answered /\ CommandDone /\ CallsStartClean
          /\ JobsAsked /\ NilMeansFresh

\* The units of a cert are its sequence's, and none means no units.
LEMMA UnitFacts ==
  ASSUME NEW c \in Certs
  PROVE  /\ UnitSeq[c] \in Seq(Units)
         /\ Len(UnitSeq[c]) \in Nat
         /\ UnitsOf[c] = { UnitSeq[c][i] : i \in 1..Len(UnitSeq[c]) }
         /\ \A i \in 1..Len(UnitSeq[c]) : UnitSeq[c][i] \in Units /\ UnitSeq[c][i] \in UnitsOf[c]
         /\ Kind[c] # "none" => 1 \in 1..Len(UnitSeq[c])
         /\ Kind[c] = "none" => UnitsOf[c] = {}
  <1>1. UnitSeq[c] \in Seq(Units) /\ (Kind[c] = "none" <=> UnitSeq[c] = << >>)
    BY ReloaderAssumption
  <1>2. UnitsOf[c] = { UnitSeq[c][i] : i \in 1..Len(UnitSeq[c]) }
    BY DEF UnitsOf
  <1>3. Len(UnitSeq[c]) \in Nat /\ \A i \in 1..Len(UnitSeq[c]) : UnitSeq[c][i] \in Units
    BY <1>1
  <1>4. \A i \in 1..Len(UnitSeq[c]) : UnitSeq[c][i] \in UnitsOf[c]
    BY <1>2
  <1>5. UnitSeq[c] # << >> => 1 \in 1..Len(UnitSeq[c])
    BY <1>1
  <1>6. UnitSeq[c] = << >> => UnitsOf[c] = {}
    BY <1>2
  <1> QED BY <1>1, <1>2, <1>3, <1>4, <1>5, <1>6

\* The number of certs is a number.
LEMMA NFacts == N \in Nat /\ \A c \in Certs : c \in 1..N+1 /\ c + 1 \in 1..N+1
  <1>1. N \in Nat BY ReloaderAssumption
  <1> QED BY <1>1 DEF Certs

\* Dispatch keeps to the methods, and starts nothing on its own account.
LEMMA DispatchFacts ==
  ASSUME NEW m \in ConfigMethods \cup {""}
  PROVE  /\ Dispatch(m) \in ConfigMethods
         /\ Starts(Dispatch(m)) => Starts(m)
  BY DEF Dispatch, ConfigMethods, Starts

\* The initial states satisfy the invariant.
LEMMA InitIInv == Init => IInv
  <1> SUFFICES ASSUME Init PROVE IInv OBVIOUS
  <1>0. 1 \in 1..N+1 /\ 1 \in Nat \ {0}
    BY NFacts
  <1>1. TypeOK
    BY <1>0 DEF Init, TypeOK, Results
  <1>2. JobsAsked BY DEF Init, JobsAsked, Starts
  <1>3. Acked /\ Answered /\ CommandDone /\ CallsStartClean /\ NilMeansFresh
    BY DEF Init, Acked, Answered, CommandDone, CallsStartClean, NilMeansFresh
  <1> QED BY <1>1, <1>2, <1>3 DEF IInv

(* ------------------------- What systemd may do ------------------------- *)

\* Whatever makes units read their files anew keeps every promise about units
\* that have read them; the agent's own state is as before, up to its channel.
LEMMA SystemdIInv ==
  ASSUME IInv, NEW u \in Units, Systemd(u)
  PROVE  IInv'
  <1> USE DEF IInv
  <1>0. Unit \in Units \/ pc # "await"
    BY UnitFacts DEF TypeOK, Unit
  <1>1. CASE JobDone(u)
    <2>1. TypeOK' BY <1>1 DEF JobDone, JobGone, Signal, TypeOK, Results
    <2>2. Acked' BY <1>1 DEF JobDone, JobGone, Acked, TypeOK
    <2>3. Answered'
      BY <1>1 DEF JobDone, JobGone, Signal, Answered, Succeeded, Unit, TypeOK
    <2>4. CommandDone' BY <1>1 DEF JobDone, JobGone, CommandDone, TypeOK
    <2>5. CallsStartClean'
      BY <1>1 DEF JobDone, JobGone, Signal, CallsStartClean
    <2>6. JobsAsked' BY <1>1 DEF JobDone, JobGone, JobsAsked, Starts, TypeOK
    <2>7. NilMeansFresh' BY <1>1 DEF JobDone, JobGone, NilMeansFresh
    <2> QED BY <2>1, <2>2, <2>3, <2>4, <2>5, <2>6, <2>7
  <1>2. CASE JobSkipped(u)
    <2>1. TypeOK' BY <1>2 DEF JobSkipped, JobGone, Signal, TypeOK, Results
    <2>2. Acked' BY <1>2 DEF JobSkipped, JobGone, Acked
    <2>3. Answered'
      BY <1>2 DEF JobSkipped, JobGone, Signal, Answered, Succeeded, Unit
    <2>4. CommandDone' BY <1>2 DEF JobSkipped, JobGone, CommandDone
    <2>5. CallsStartClean'
      BY <1>2 DEF JobSkipped, JobGone, Signal, CallsStartClean
    <2>6. JobsAsked' BY <1>2 DEF JobSkipped, JobGone, JobsAsked, Starts, TypeOK
    <2>7. NilMeansFresh' BY <1>2 DEF JobSkipped, JobGone, NilMeansFresh
    <2> QED BY <2>1, <2>2, <2>3, <2>4, <2>5, <2>6, <2>7
  <1>3. CASE JobFails(u) \/ Replace(u)
    <2>1. TypeOK' BY <1>3 DEF JobFails, Replace, JobGone, Signal, TypeOK, Results
    <2>2. Acked' BY <1>3 DEF JobFails, Replace, JobGone, Acked
    <2>3. Answered'
      BY <1>3 DEF JobFails, Replace, JobGone, Signal, Answered, Succeeded, Unit
    <2>4. CommandDone' BY <1>3 DEF JobFails, Replace, JobGone, CommandDone
    <2>5. CallsStartClean'
      BY <1>3 DEF JobFails, Replace, JobGone, Signal, CallsStartClean
    <2>6. JobsAsked' BY <1>3 DEF JobFails, Replace, JobGone, JobsAsked, Starts, TypeOK
    <2>7. NilMeansFresh' BY <1>3 DEF JobFails, Replace, JobGone, NilMeansFresh
    <2> QED BY <2>1, <2>2, <2>3, <2>4, <2>5, <2>6, <2>7
  <1>4. CASE OpStart(u)
    <2>1. TypeOK' BY <1>4 DEF OpStart, agent, TypeOK
    <2>2. Acked' BY <1>4 DEF OpStart, agent, Acked, TypeOK
    <2>3. Answered' BY <1>4 DEF OpStart, agent, Answered, Succeeded, Unit, TypeOK
    <2>4. CommandDone' BY <1>4 DEF OpStart, agent, CommandDone, TypeOK
    <2>5. CallsStartClean' BY <1>4 DEF OpStart, agent, CallsStartClean
    <2>6. JobsAsked' BY <1>4 DEF OpStart, agent, JobsAsked
    <2>7. NilMeansFresh' BY <1>4 DEF OpStart, agent, NilMeansFresh
    <2> QED BY <2>1, <2>2, <2>3, <2>4, <2>5, <2>6, <2>7
  <1>5. CASE OpStop(u)
    <2>0. up' = up \ {u} /\ \A v \in up' : \A c : << v, c >> \in read => << v, c >> \in read'
      BY <1>5 DEF OpStop
    <2>1. TypeOK'
      <3>1. (read \subseteq up \X Certs)' BY <1>5 DEF OpStop, TypeOK
      <3> QED BY <1>5, <3>1 DEF OpStop, agent, TypeOK
    <2>2. Acked' BY <1>5, <2>0 DEF OpStop, agent, Acked
    <2>3. Answered' BY <1>5, <2>0 DEF OpStop, agent, Answered, Succeeded, Unit
    <2>4. CommandDone' BY <1>5, <2>0 DEF OpStop, agent, CommandDone
    <2>5. CallsStartClean' BY <1>5 DEF OpStop, agent, CallsStartClean
    <2>6. JobsAsked' BY <1>5 DEF OpStop, agent, JobsAsked
    <2>7. NilMeansFresh' BY <1>5, <2>0 DEF OpStop, agent, NilMeansFresh
    <2> QED BY <2>1, <2>2, <2>3, <2>4, <2>5, <2>6, <2>7
  <1> QED BY <1>1, <1>2, <1>3, <1>4, <1>5 DEF Systemd

(* --------------------------- What the run does ------------------------- *)

\* Reload returns: with "error", or with "ok" once every running unit is served.
LEMMA ReturnIInv ==
  ASSUME IInv, NEW o \in {"ok", "error"}, Return(o), cur \in Certs,
         UNCHANGED << up, read >>, conn' \in {"none", "open", "broken"},
         job' \in [Units -> ConfigMethods \cup {"none"}], JobsAsked',
         o = "ok" => \A u \in UnitsOf[cur] \cap up : << u, cur >> \in read
  PROVE  IInv'
  <1> USE DEF IInv
  <1>1. cur + 1 \in 1..N+1 BY NFacts
  <1>2. TypeOK' BY <1>1 DEF Return, TypeOK, Results
  <1>3. NilMeansFresh'
    <2> SUFFICES ASSUME NEW c \in Certs, told'[c] = "ok",
                        NEW u \in UnitsOf[c] \cap up
                 PROVE  << u, c >> \in read
      BY DEF NilMeansFresh
    <2>1. CASE c = cur BY <2>1 DEF Return, TypeOK
    <2>2. CASE c # cur BY <2>2 DEF Return, TypeOK, NilMeansFresh
    <2> QED BY <2>1, <2>2
  <1>4. (Acked /\ Answered /\ CommandDone /\ CallsStartClean)'
    BY DEF Return, Acked, Answered, CommandDone, CallsStartClean, TypeOK
  <1> QED BY <1>2, <1>3, <1>4

\* The run ends, or is killed.
LEMMA RestIInv ==
  ASSUME IInv, Rest, UNCHANGED world,
         told' = told \/ (Calling /\ told' = [told EXCEPT ![cur] = "error"])
  PROVE  IInv'
  <1> USE DEF IInv
  <1>1. 1 \in 1..N+1 BY NFacts
  <1>2. Calling => cur \in Certs BY DEF Calling, TypeOK
  <1>3. TypeOK'
    <2>1. told' \in [Certs -> {"none", "ok", "error"}] BY <1>2 DEF TypeOK
    <2>2. (up \subseteq Units /\ read \subseteq up \X Certs
             /\ job \in [Units -> ConfigMethods \cup {"none"}])'
      BY DEF world, TypeOK
    <2>3. (cur \in 1..N+1 /\ k \in Nat \ {0})' BY <1>1 DEF Rest
    <2> QED BY <2>1, <2>2, <2>3 DEF Rest, TypeOK, Results
  <1>4. NilMeansFresh'
    <2>1. \A c \in Certs : told'[c] = "ok" => told[c] = "ok"
      BY <1>2 DEF TypeOK
    <2> QED BY <2>1 DEF world, NilMeansFresh
  <1>5. JobsAsked' BY DEF world, JobsAsked
  <1>6. (Acked /\ Answered /\ CommandDone /\ CallsStartClean)'
    BY DEF Rest, Acked, Answered, CommandDone, CallsStartClean
  <1> QED BY <1>3, <1>4, <1>5, <1>6

\* Steps of the run outside Reload, and the bus.
LEMMA RunIInv ==
  ASSUME IInv, StartRun \/ Skip \/ Write \/ Finish \/ Cancel \/ Kill \/ BusBreaks
  PROVE  IInv'
  <1> USE DEF IInv
  <1>1. CASE StartRun \/ Cancel \/ BusBreaks
    <2> USE <1>1 DEF StartRun, Cancel, BusBreaks, world
    <2>1. TypeOK' BY DEF TypeOK
    <2>2. Acked' /\ CommandDone' BY DEF Acked, CommandDone
    <2>3. Answered' BY DEF Answered, Succeeded, Unit
    <2>4. CallsStartClean' BY DEF CallsStartClean
    <2>5. JobsAsked' /\ NilMeansFresh' BY DEF JobsAsked, NilMeansFresh
    <2> QED BY <2>1, <2>2, <2>3, <2>4, <2>5
  <1>2. CASE Skip
    <2>1. cur + 1 \in 1..N+1 BY <1>2, NFacts DEF Skip
    <2>2. TypeOK' BY <1>2, <2>1 DEF Skip, world, TypeOK
    <2>3. (Acked /\ Answered /\ CommandDone /\ CallsStartClean)'
      BY <1>2 DEF Skip, Acked, Answered, CommandDone, CallsStartClean, TypeOK
    <2>4. JobsAsked' /\ NilMeansFresh'
      BY <1>2 DEF Skip, world, JobsAsked, NilMeansFresh
    <2> QED BY <2>2, <2>3, <2>4
  <1>3. CASE Write
    <2>1. TypeOK' BY <1>3 DEF Write, TypeOK
    <2>2. (Acked /\ Answered /\ CommandDone /\ CallsStartClean)'
      BY <1>3 DEF Write, Acked, Answered, CommandDone, CallsStartClean, TypeOK
    <2>3. JobsAsked' BY <1>3 DEF Write, JobsAsked
    <2>4. NilMeansFresh' BY <1>3 DEF Write, NilMeansFresh, TypeOK
    <2> QED BY <2>1, <2>2, <2>3, <2>4
  <1>4. CASE Finish BY <1>4, RestIInv DEF Finish, world
  <1>5. CASE Kill BY <1>5, RestIInv DEF Kill
  <1> QED BY <1>1, <1>2, <1>3, <1>4, <1>5

\* Reload by systemd jobs.
LEMMA UnitsIInv ==
  ASSUME IInv,
         NoReload \/ Connect \/ ConnectFails \/ Invoke \/ InvokeFails
           \/ Await \/ AwaitFails \/ AwaitCancelled
  PROVE  IInv'
  <1> USE DEF IInv
  <1>1. cur \in Certs
    BY DEF TypeOK, NoReload, Connect, ConnectFails, Invoke, InvokeFails,
           Await, AwaitFails, AwaitCancelled
  <1>2. CASE NoReload
    <2>1. UnitsOf[cur] = {} BY <1>1, <1>2, UnitFacts DEF NoReload
    <2> QED BY <1>1, <1>2, <2>1, ReturnIInv DEF NoReload, world, TypeOK, JobsAsked
  <1>3. CASE ConnectFails \/ AwaitFails \/ AwaitCancelled
    BY <1>1, <1>3, ReturnIInv
       DEF ConnectFails, AwaitFails, AwaitCancelled, world, TypeOK, JobsAsked
  <1>4. CASE Connect
    <2>1. 1 \in 1..Len(UnitSeq[cur]) /\ k = 1
      BY <1>1, <1>4, UnitFacts DEF Connect, CallsStartClean
    <2>2. TypeOK' BY <1>4, <2>1 DEF Connect, world, TypeOK
    <2>3. Acked' BY <1>1, <1>4, <2>1, UnitFacts DEF Connect, Acked
    <2>4. (Answered /\ CommandDone /\ CallsStartClean)'
      BY <1>4, <2>1 DEF Connect, Answered, CommandDone, CallsStartClean, TypeOK
    <2>5. JobsAsked' /\ NilMeansFresh'
      BY <1>4 DEF Connect, world, JobsAsked, NilMeansFresh
    <2> QED BY <2>2, <2>3, <2>4, <2>5
  <1>5. ASSUME pc = "invoke", Queue(Unit)
        PROVE  job' \in [Units -> ConfigMethods \cup {"none"}] /\ JobsAsked'
    <2>1. Unit \in Units /\ Unit \in UnitsOf[cur] /\ Kind[cur] = "units"
      BY <1>1, <1>5, UnitFacts DEF TypeOK, CallsStartClean, Unit
    <2>2. Method[cur] \in ConfigMethods \cup {""} BY <1>1, ReloaderAssumption
    <2>3. /\ Dispatch(Method[cur]) \in ConfigMethods
          /\ Starts(Dispatch(Method[cur])) => Starts(Method[cur])
      BY <2>2, DispatchFacts
    <2>4. Starts(Dispatch(Method[cur])) => Unit \in Startable
      BY <1>1, <2>1, <2>3 DEF Startable
    <2> QED BY <1>5, <2>1, <2>3, <2>4 DEF Queue, JobsAsked, TypeOK
  <1>6. CASE Invoke
    <2>1. TypeOK' BY <1>5, <1>6 DEF Invoke, TypeOK
    <2>2. (Acked /\ Answered /\ CommandDone /\ CallsStartClean)'
      BY <1>6 DEF Invoke, Acked, Answered, Succeeded, CommandDone, CallsStartClean, TypeOK
    <2>3. JobsAsked' BY <1>5, <1>6 DEF Invoke
    <2>4. NilMeansFresh' BY <1>6 DEF Invoke, NilMeansFresh
    <2> QED BY <2>1, <2>2, <2>3, <2>4
  <1>7. CASE InvokeFails
    <2>1. job' \in [Units -> ConfigMethods \cup {"none"}] /\ JobsAsked'
      BY <1>5, <1>7 DEF InvokeFails, TypeOK, JobsAsked
    <2> QED BY <1>1, <1>7, <2>1, ReturnIInv DEF InvokeFails, TypeOK
  <1>8. CASE Await
    <2>1. k \in 1..Len(UnitSeq[cur]) /\ Len(UnitSeq[cur]) \in Nat
      BY <1>1, <1>8, UnitFacts DEF Await, TypeOK
    <2>2. \A j \in 1..Len(UnitSeq[cur]) :
            j < k + 1 /\ UnitSeq[cur][j] \in up => << UnitSeq[cur][j], cur >> \in read
      BY <1>8, <2>1 DEF Await, Acked, Answered, Unit
    <2>3. CASE k < Len(UnitSeq[cur])
      <3>1. k + 1 \in 1..Len(UnitSeq[cur]) BY <2>1, <2>3
      <3>2. TypeOK' BY <1>8, <2>3, <3>1 DEF Await, world, TypeOK, Results
      <3>3. Acked' BY <1>8, <2>2, <2>3 DEF Await, world, Acked
      <3>4. (Answered /\ CommandDone /\ CallsStartClean)'
        BY <1>8, <2>3 DEF Await, Answered, CommandDone, CallsStartClean, TypeOK
      <3>5. JobsAsked' /\ NilMeansFresh'
        BY <1>8, <2>3 DEF Await, world, JobsAsked, NilMeansFresh
      <3> QED BY <3>2, <3>3, <3>4, <3>5
    <2>4. CASE ~(k < Len(UnitSeq[cur]))
      <3>1. \A u \in UnitsOf[cur] \cap up : << u, cur >> \in read
        <4> SUFFICES ASSUME NEW u \in UnitsOf[cur] \cap up
                     PROVE  << u, cur >> \in read
          OBVIOUS
        <4>1. PICK j \in 1..Len(UnitSeq[cur]) : u = UnitSeq[cur][j]
          BY <1>1, UnitFacts
        <4>2. j < k + 1 BY <2>1, <2>4
        <4> QED BY <2>2, <4>1, <4>2
      <3> QED BY <1>1, <1>8, <2>4, <3>1, ReturnIInv DEF Await, world, TypeOK, JobsAsked
    <2> QED BY <2>3, <2>4
  <1> QED BY <1>2, <1>3, <1>4, <1>6, <1>7, <1>8

\* Reload by a command.
LEMMA CommandIInv ==
  ASSUME IInv,
         Exec \/ ExecFails \/ ExecKilled \/ ExecReturns \/ Exits \/ PipeCloses
  PROVE  IInv'
  <1> USE DEF IInv
  <1>1. CASE Exec \/ ExecKilled \/ PipeCloses
    <2> USE <1>1 DEF Exec, ExecKilled, PipeCloses, world
    <2>1. TypeOK' BY DEF TypeOK
    <2>2. (Acked /\ Answered /\ CommandDone)'
      BY DEF Acked, Answered, Succeeded, Unit, CommandDone, TypeOK
    <2>3. CallsStartClean' BY DEF CallsStartClean
    <2>4. JobsAsked' /\ NilMeansFresh' BY DEF JobsAsked, NilMeansFresh
    <2> QED BY <2>1, <2>2, <2>3, <2>4
  <1>2. CASE ExecFails \/ ExecReturns
    <2>1. cur \in Certs BY <1>2 DEF ExecFails, ExecReturns, TypeOK
    <2>2. proc = "zero" => \A u \in UnitsOf[cur] \cap up : << u, cur >> \in read
      BY DEF CommandDone
    <2> QED BY <1>2, <2>1, <2>2, ReturnIInv
            DEF ExecFails, ExecReturns, world, TypeOK, JobsAsked
  <1>3. CASE Exits
    <2>1. pc = "exec" /\ cur \in Certs BY <1>3 DEF Exits, TypeOK
    <2>2. PICK S \in SUBSET (UnitsOf[cur] \cap up), code \in {"zero", "nonzero"} :
            /\ code = "zero" => S = UnitsOf[cur] \cap up
            /\ read' = read \cup (S \X Certs)
            /\ proc' = code
      BY <1>3 DEF Exits
    <2>3. TypeOK' BY <1>3, <2>1, <2>2 DEF Exits, TypeOK
    <2>4. CommandDone' BY <1>3, <2>1, <2>2 DEF Exits, CommandDone
    <2>5. (Acked /\ Answered /\ CallsStartClean)'
      BY <1>3, <2>1 DEF Exits, Acked, Answered, CallsStartClean
    <2>6. JobsAsked' BY <1>3 DEF Exits, JobsAsked
    <2>7. NilMeansFresh' BY <1>3, <2>2 DEF Exits, NilMeansFresh
    <2> QED BY <2>3, <2>4, <2>5, <2>6, <2>7
  <1> QED BY <1>1, <1>2, <1>3

\* The invariant is inductive.
LEMMA NextIInv == IInv /\ [Next]_vars => IInv'
  <1> SUFFICES ASSUME IInv, [Next]_vars PROVE IInv' OBVIOUS
  <1>1. CASE UNCHANGED vars
    BY <1>1 DEF IInv, vars, world, agent, TypeOK, Acked, Answered, Succeeded, Unit,
                CommandDone, CallsStartClean, JobsAsked, NilMeansFresh
  <1>2. CASE Next
    BY <1>2, SystemdIInv, RunIInv, UnitsIInv, CommandIInv DEF Next, Agent, Reload
  <1> QED BY <1>1, <1>2

LEMMA Invariance == Spec => []IInv
  <1> QED BY InitIInv, NextIInv, PTL DEF Spec

\* Types hold for any number of certs and units.
THEOREM Typing == Spec => []TypeOK
  <1>1. IInv => TypeOK BY DEF IInv
  <1> QED BY <1>1, Invariance, PTL

\* A reload that returned no error (reload.go, Reload) has got every running
\* unit of the cert onto its present files, however many certs share the units.
THEOREM NilMeansFreshHolds == Spec => []NilMeansFresh
  <1>1. IInv => NilMeansFresh BY DEF IInv
  <1> QED BY <1>1, Invariance, PTL

(* ------------------------------ Refinement ----------------------------- *)

\* What systemd, operators and commands do maps to units reading, starting and
\* stopping.
LEMMA SystemdMaps ==
  ASSUME IInv, NEW u \in Units, Systemd(u)
  PROVE  [Abstract!Next]_(Abstract!vars)
  <1> USE DEF Abstract!vars, Abstract!Next
  <1>1. ASSUME up' = up, UNCHANGED << pc, cur, told >>,
               read' = read \/ (u \in up /\ read' = read \cup ({u} \X Certs))
        PROVE  [Abstract!Next]_(Abstract!vars)
    <2>1. Calling' = Calling BY <1>1 DEF Calling
    <2>2. CASE read' = read BY <1>1, <2>1, <2>2
    <2>3. CASE u \in up /\ read' = read \cup ({u} \X Certs)
      <3>1. {u} \in SUBSET up BY <2>3
      <3>2. Abstract!Read BY <1>1, <2>1, <2>3, <3>1 DEF Abstract!Read
      <3> QED BY <3>2
    <2> QED BY <1>1, <2>2, <2>3
  <1>2. ASSUME u \notin up, u \in Startable, UNCHANGED << pc, cur, told >>,
               up' = up \cup {u}, read' = read \cup ({u} \X Certs)
        PROVE  Abstract!Start(u)
    BY <1>2 DEF Abstract!Start, Calling
  <1>3. CASE JobDone(u)
    <2>1. CASE u \in up
      <3>1. up' = up BY <1>3, <2>1 DEF JobDone
      <3> QED BY <1>1, <1>3, <2>1, <3>1 DEF JobDone, JobGone
    <2>2. CASE u \notin up
      <3>1. u \in Startable BY <1>3, <2>2 DEF JobDone, IInv, JobsAsked
      <3> QED BY <1>2, <1>3, <2>2, <3>1 DEF JobDone, JobGone
    <2> QED BY <2>1, <2>2
  <1>4. CASE JobSkipped(u) \/ JobFails(u) \/ Replace(u)
    BY <1>1, <1>4 DEF JobSkipped, JobFails, Replace, JobGone
  <1>5. CASE OpStart(u)
    <2>1. u \in Startable BY <1>5 DEF OpStart, Startable
    <2> QED BY <1>2, <1>5, <2>1 DEF OpStart, agent
  <1>6. CASE OpStop(u)
    <2>1. Abstract!Stop(u) BY <1>6 DEF OpStop, agent, Abstract!Stop, Calling
    <2> QED BY <2>1
  <1> QED BY <1>3, <1>4, <1>5, <1>6 DEF Systemd

\* A return maps to success or failure.
LEMMA ReturnMaps ==
  ASSUME IInv, NEW o \in {"ok", "error"}, Return(o), Calling, UNCHANGED << up, read >>,
         o = "ok" => \A u \in UnitsOf[cur] \cap up : << u, cur >> \in read
  PROVE  Abstract!Succeed \/ Abstract!Fail
  <1>1. cur \in Certs /\ cur # Nobody
    BY NFacts DEF IInv, TypeOK, Calling, Nobody, Certs
  <1>2. ~Calling' BY DEF Return, Calling
  <1> QED BY <1>1, <1>2 DEF Return, Abstract!Succeed, Abstract!Fail, Abstract!Return

\* Every step of Reload, of the run and of the command maps as well.
LEMMA RunMaps ==
  ASSUME IInv, Agent \/ StartRun \/ Cancel \/ Kill \/ Exits \/ PipeCloses \/ BusBreaks
  PROVE  [Abstract!Next]_(Abstract!vars)
  <1> USE DEF Abstract!vars, Abstract!Next
  <1>1. CASE \/ StartRun \/ Cancel \/ BusBreaks \/ PipeCloses \/ Skip \/ Finish
             \/ Connect \/ Invoke \/ Exec \/ ExecKilled
    <2>1. UNCHANGED << up, read, told >>
      BY <1>1 DEF StartRun, Cancel, BusBreaks, PipeCloses, Skip, Finish, Connect,
                  Invoke, Exec, ExecKilled, world
    <2>2. UNCHANGED (IF Calling THEN cur ELSE Nobody)
      BY <1>1 DEF StartRun, Cancel, BusBreaks, PipeCloses, Skip, Finish, Rest, Connect,
                  Invoke, Exec, ExecKilled, Calling
    <2> QED BY <2>1, <2>2
  <1>2. CASE Write
    <2>1. Abstract!Call(cur) BY <1>2 DEF Write, Abstract!Call, Calling
    <2> QED BY <1>2, <2>1 DEF Write
  <1>3. CASE \/ NoReload \/ ConnectFails \/ InvokeFails \/ AwaitFails
             \/ AwaitCancelled \/ ExecFails \/ ExecReturns
    <2>1. cur \in Certs /\ Calling
      BY <1>3 DEF IInv, TypeOK, Calling, NoReload, ConnectFails, InvokeFails, AwaitFails,
                  AwaitCancelled, ExecFails, ExecReturns
    <2>2. NoReload => UnitsOf[cur] = {} BY <2>1, UnitFacts DEF NoReload
    <2>3. proc = "zero" => \A u \in UnitsOf[cur] \cap up : << u, cur >> \in read
      BY DEF IInv, CommandDone
    <2> QED BY <1>3, <2>1, <2>2, <2>3, ReturnMaps
            DEF NoReload, ConnectFails, InvokeFails, AwaitFails, AwaitCancelled,
                ExecFails, ExecReturns, world
  <1>4. CASE Await
    <2>1. CASE k < Len(UnitSeq[cur])
      BY <1>4, <2>1 DEF Await, world, Calling
    <2>2. CASE ~(k < Len(UnitSeq[cur]))
      <3>1. IInv' BY <1>4, UnitsIInv
      <3>2. cur \in Certs /\ told' = [told EXCEPT ![cur] = "ok"] /\ Calling
        BY <1>4, <2>2 DEF Await, Return, Calling, IInv, TypeOK
      <3>3. told'[cur] = "ok" BY <3>2 DEF IInv, TypeOK
      <3>4. \A u \in UnitsOf[cur] \cap up' : << u, cur >> \in read'
        BY <3>1, <3>2, <3>3 DEF IInv, NilMeansFresh
      <3> QED BY <1>4, <2>2, <3>2, <3>4, ReturnMaps DEF Await, world
    <2> QED BY <2>1, <2>2
  <1>5. CASE Exits
    <2>1. PICK S \in SUBSET (UnitsOf[cur] \cap up) : read' = read \cup (S \X Certs)
      BY <1>5 DEF Exits
    <2>2. UNCHANGED << up, told, IF Calling THEN cur ELSE Nobody >>
      BY <1>5 DEF Exits, Calling
    <2>3. Abstract!Read BY <2>1, <2>2 DEF Abstract!Read
    <2> QED BY <2>3
  <1>6. CASE Kill
    <2>1. ~Calling' BY <1>6 DEF Kill, Rest, Calling
    <2>2. Calling => cur # Nobody
      BY NFacts DEF IInv, TypeOK, Calling, Nobody, Certs
    <2>3. Calling => Abstract!Fail
      BY <1>6, <2>1, <2>2 DEF Kill, world, Abstract!Fail, Abstract!Return
    <2> QED BY <1>6, <2>1, <2>3 DEF Kill, world
  <1> QED BY <1>1, <1>2, <1>3, <1>4, <1>5, <1>6 DEF Agent, Reload

\* The promise the renewer relies on (Notify), for every value of the constants.
THEOREM ImplementsNotifyHolds == Spec => ImplementsNotify
  <1>1. Init => Abstract!Init
    BY DEF Init, Abstract!Init, Calling
  <1>2. IInv /\ [Next]_vars => [Abstract!Next]_(Abstract!vars)
    <2>1. ASSUME IInv, Next PROVE [Abstract!Next]_(Abstract!vars)
      BY <2>1, SystemdMaps, RunMaps DEF Next
    <2>2. ASSUME UNCHANGED vars PROVE UNCHANGED Abstract!vars
      BY <2>2 DEF vars, world, agent, Abstract!vars, Calling
    <2> QED BY <2>1, <2>2
  <1> QED BY <1>1, <1>2, Invariance, PTL DEF Spec, ImplementsNotify, Abstract!Spec
=============================================================================
