------------------------------ MODULE Reloader ------------------------------
(***************************************************************************)
(* internal/reload, with what it talks to.  In a run the agent writes some *)
(* certs and reloads the consumers of each, either by executing a command  *)
(* or by queueing systemd jobs over a D-Bus connection that is opened on   *)
(* first use and kept for the run.  Jobs may hang, fail, or be replaced by *)
(* an operator's; the connection may break; units come and go; commands    *)
(* leave descendants behind; the run may be cancelled or killed.           *)
(***************************************************************************)
EXTENDS Naturals, Sequences

CONSTANTS
  N,           \* number of certs; a run visits them in order
  Units,       \* systemd units
  Kind,        \* cert -> "units", "command", or "none"
  UnitSeq,     \* cert -> its reload_units, or the units its command reloads
  Method,      \* cert -> its reload_method, "" when not set
  Operators    \* unit -> what operators do to it: "start", "stop", "replace"

Certs == 1..N
Nobody == 0

ConfigMethods == {"reload", "restart", "try-restart", "reload-or-restart",
                  "try-reload-or-restart"}

ASSUME ReloaderAssumption ==
  /\ N \in Nat
  /\ Kind \in [Certs -> {"units", "command", "none"}]
  /\ UnitSeq \in [Certs -> Seq(Units)]
  /\ Method \in [Certs -> ConfigMethods \cup {""}]
  /\ \A c \in Certs : Kind[c] = "none" <=> UnitSeq[c] = << >>
  /\ Operators \in [Units -> SUBSET {"start", "stop", "replace"}]

UnitsOf == [c \in Certs |-> { UnitSeq[c][i] : i \in 1..Len(UnitSeq[c]) }]

VARIABLES
  up,          \* running units
  read,        \* << unit, cert >>: the running unit has read cert's present files
  job,         \* unit -> method of the job systemd has queued for it, or "none"
  conn,        \* m.bus: "none", "open", or "broken"
  pc,          \* where the run stands
  cur,         \* the cert it is at
  k,           \* index of the unit runSystemdJob works on
  result,      \* what the job's channel holds, or "none"
  proc,        \* the command: "none", "running", "zero", "nonzero"
  held,        \* a descendant of the command holds its output pipe
  cancelled,   \* the run's context is cancelled
  told         \* ghost: cert -> what Reload last returned since its files changed

world == << up, read, job >>
agent == << conn, pc, cur, k, result, proc, held, cancelled, told >>
vars  == << world, agent >>

(* ------------------------------- systemd ------------------------------- *)

\* Mutant: the try- prefix is lost.
DispatchUntried(method) ==
  CASE method \in {"reload", "restart", "reload-or-restart"} -> method
    [] method = "try-restart" -> "restart"
    [] OTHER -> "reload-or-restart"

\* systemdMethod, and the default method it is called with.
Dispatch(method) == IF method = "" THEN "try-reload-or-restart" ELSE method

\* What a job of each method does to a unit that is not running.
Starts(method) == method \in {"restart", "reload-or-restart"}
Skips(method)  == method \in {"try-restart", "try-reload-or-restart"}

Startable == { u \in Units :
                 \/ "start" \in Operators[u]
                 \/ \E c \in Certs : u \in UnitsOf[c] /\ Kind[c] = "units" /\ Starts(Method[c]) }

Unit == UnitSeq[cur][k]

\* JobRemoved reaches the channel of whoever waits for u's job.
Signal(u, outcome) ==
  result' = IF pc = "await" /\ u = Unit /\ conn = "open" THEN outcome ELSE result

JobGone(u, outcome) ==
  /\ job' = [job EXCEPT ![u] = "none"]
  /\ Signal(u, outcome)
  /\ UNCHANGED << conn, pc, cur, k, proc, held, cancelled, told >>

\* The unit is reloaded, restarted or started: it runs on the present files.
JobDone(u) ==
  /\ job[u] # "none"
  /\ u \in up \/ Starts(job[u])
  /\ up' = up \cup {u}
  /\ read' = read \cup ({u} \X Certs)
  /\ JobGone(u, "done")

\* There is nothing to do for a unit that is not running.
JobSkipped(u) ==
  /\ u \notin up /\ Skips(job[u])
  /\ \E outcome \in {"done", "skipped"} : JobGone(u, outcome)
  /\ UNCHANGED << up, read >>

\* It fails, leaving a running unit as it was.
JobFails(u) ==
  /\ job[u] # "none"
  /\ JobGone(u, "failed")
  /\ UNCHANGED << up, read >>

\* An operator's own job replaces it.
Replace(u) ==
  /\ "replace" \in Operators[u]
  /\ job[u] # "none"
  /\ JobGone(u, "canceled")
  /\ UNCHANGED << up, read >>

OpStart(u) ==
  /\ "start" \in Operators[u]
  /\ u \notin up
  /\ up' = up \cup {u}
  /\ read' = read \cup ({u} \X Certs)
  /\ UNCHANGED << job, agent >>

OpStop(u) ==
  /\ "stop" \in Operators[u]
  /\ u \in up
  /\ up' = up \ {u}
  /\ read' = { p \in read : p[1] # u }
  /\ UNCHANGED << job, agent >>

BusBreaks ==
  /\ conn = "open"
  /\ conn' = "broken"
  /\ UNCHANGED << world, pc, cur, k, result, proc, held, cancelled, told >>

(* ------------------------------- The run ------------------------------- *)

StartRun ==
  /\ pc = "rest"
  /\ pc' = "loop"
  /\ UNCHANGED << world, conn, cur, k, result, proc, held, cancelled, told >>

\* processCert has nothing to reload for this cert.
Skip ==
  /\ pc = "loop" /\ cur \in Certs
  /\ cur' = cur + 1
  /\ UNCHANGED << world, conn, pc, k, result, proc, held, cancelled, told >>

\* Write has changed files of the cert, and processCert calls Reload.
Write ==
  /\ pc = "loop" /\ cur \in Certs
  /\ read' = { p \in read : p[2] # cur }
  /\ told' = [told EXCEPT ![cur] = "none"]
  /\ pc' = "call"
  /\ UNCHANGED << up, job, conn, cur, k, result, proc, held, cancelled >>

\* Mutant: the next cert's units are counted from where these ended.
ReturnMidway(outcome) ==
  /\ told' = [told EXCEPT ![cur] = outcome]
  /\ pc' = "loop" /\ cur' = cur + 1 /\ result' = "none" /\ proc' = "none"
  /\ UNCHANGED << k, held, cancelled >>

\* Reload returns, and processCert with it.
Return(outcome) ==
  /\ told' = [told EXCEPT ![cur] = outcome]
  /\ pc' = "loop"
  /\ cur' = cur + 1
  /\ k' = 1
  /\ result' = "none"
  /\ proc' = "none"
  /\ UNCHANGED << held, cancelled >>

\* The run is over: Close drops the connection.
Rest ==
  /\ pc' = "rest" /\ cur' = 1 /\ k' = 1
  /\ conn' = "none" /\ result' = "none"
  /\ proc' = "none" /\ held' = FALSE
  /\ cancelled' = FALSE

Finish == pc = "loop" /\ cur = N + 1 /\ Rest /\ UNCHANGED << world, told >>

Cancel ==
  /\ pc # "rest" /\ ~cancelled
  /\ cancelled' = TRUE
  /\ UNCHANGED << world, conn, pc, cur, k, result, proc, held, told >>

Calling == pc \in {"call", "invoke", "await", "exec"}

\* SIGKILL; with the unit's processes go the command's.
Kill ==
  /\ pc # "rest"
  /\ Rest
  /\ told' = IF Calling THEN [told EXCEPT ![cur] = "error"] ELSE told
  /\ UNCHANGED world

(* ----------------------------- reloadSystemd --------------------------- *)

NoReload ==
  /\ pc = "call" /\ Kind[cur] = "none"
  /\ Return("ok")
  /\ UNCHANGED << world, conn >>

\* A cached connection is used again, broken or not.
Connect ==
  /\ pc = "call" /\ Kind[cur] = "units"
  /\ conn' = IF conn = "none" THEN "open" ELSE conn
  /\ pc' = "invoke"
  /\ UNCHANGED << world, cur, k, result, proc, held, cancelled, told >>

ConnectFails ==
  /\ pc = "call" /\ Kind[cur] = "units" /\ conn = "none"
  /\ Return("error")
  /\ UNCHANGED << world, conn >>

Queue(u) == job' = [job EXCEPT ![u] = Dispatch(Method[cur])]

\* systemd has queued the job, in place of any that was queued before.
Invoke ==
  /\ pc = "invoke" /\ conn = "open"
  /\ Queue(Unit)
  /\ pc' = "await"
  /\ UNCHANGED << up, read, conn, cur, k, result, proc, held, cancelled, told >>

\* polkit refuses, the unit is unknown, the connection is broken, the context
\* is cancelled: whatever the error, the job may have been queued.
InvokeFails ==
  /\ pc = "invoke"
  /\ Return("error")
  /\ job' = job \/ (conn = "open" /\ Queue(Unit))
  /\ UNCHANGED << up, read, conn >>

\* Mutant: any answer will do.
AnySucceeded == result \in {"done", "skipped", "failed", "canceled"}

Succeeded == result \in {"done", "skipped"}

\* The job's result arrives: on to the next unit, or back to the caller.
Await ==
  /\ pc = "await" /\ result # "none" /\ Succeeded
  /\ IF k < Len(UnitSeq[cur])
     THEN /\ pc' = "invoke" /\ k' = k + 1 /\ result' = "none"
          /\ UNCHANGED << cur, proc, held, cancelled, told >>
     ELSE Return("ok")
  /\ UNCHANGED << world, conn >>

AwaitFails ==
  /\ pc = "await" /\ result # "none" /\ ~Succeeded
  /\ Return("error")
  /\ UNCHANGED << world, conn >>

\* Mutant: the context is looked at once the answer is there.
AwaitDeaf ==
  /\ pc = "await" /\ cancelled /\ result # "none"
  /\ Return("error")
  /\ UNCHANGED << world, conn >>

\* The wait ends with the context, whether or not the answer is there.
AwaitCancelled ==
  /\ pc = "await" /\ cancelled
  /\ Return("error")
  /\ UNCHANGED << world, conn >>

(* ------------------------------ reloadExec ----------------------------- *)

Exec ==
  /\ pc = "call" /\ Kind[cur] = "command" /\ ~cancelled
  /\ pc' = "exec" /\ proc' = "running"
  /\ UNCHANGED << world, conn, cur, k, result, held, cancelled, told >>

\* No such executable; the context is cancelled before the start.
ExecFails ==
  /\ pc = "call" /\ Kind[cur] = "command"
  /\ Return("error")
  /\ UNCHANGED << world, conn >>

\* The command ends, having reloaded those of its units that are running, or
\* some of them; descendants may live on with its standard output.
Exits ==
  /\ proc = "running"
  /\ \E S \in SUBSET (UnitsOf[cur] \cap up), code \in {"zero", "nonzero"} :
       /\ code = "zero" => S = UnitsOf[cur] \cap up
       /\ read' = read \cup (S \X Certs)
       /\ proc' = code
  /\ held' \in BOOLEAN
  /\ UNCHANGED << up, job, conn, pc, cur, k, result, cancelled, told >>

\* exec.CommandContext kills the command, not its descendants.
ExecKilled ==
  /\ proc = "running" /\ cancelled
  /\ proc' = "nonzero"
  /\ held' \in BOOLEAN
  /\ UNCHANGED << world, conn, pc, cur, k, result, cancelled, told >>

PipeCloses == held /\ held' = FALSE
              /\ UNCHANGED << world, conn, pc, cur, k, result, proc, cancelled, told >>

\* CombinedOutput has read the output to its end, and the exit code.
ExecReturns ==
  /\ pc = "exec" /\ proc \in {"zero", "nonzero"} /\ ~held
  /\ Return(IF proc = "zero" THEN "ok" ELSE "error")
  /\ UNCHANGED << world, conn >>

(* ------------------------------ Behaviours ----------------------------- *)

Init ==
  /\ up \in SUBSET Units
  /\ read = up \X Certs
  /\ job = [u \in Units |-> "none"]
  /\ conn = "none" /\ pc = "rest" /\ cur = 1 /\ k = 1 /\ result = "none"
  /\ proc = "none" /\ held = FALSE /\ cancelled = FALSE
  /\ told = [c \in Certs |-> "none"]

Reload == \/ NoReload \/ Connect \/ ConnectFails \/ Invoke \/ InvokeFails
          \/ Await \/ AwaitFails \/ AwaitCancelled
          \/ Exec \/ ExecFails \/ ExecKilled \/ ExecReturns

Agent == Reload \/ Skip \/ Write \/ Finish

Systemd(u) == \/ JobDone(u) \/ JobSkipped(u) \/ JobFails(u)
              \/ Replace(u) \/ OpStart(u) \/ OpStop(u)

Next == \/ Agent \/ StartRun \/ Cancel \/ Kill
        \/ Exits \/ PipeCloses \/ BusBreaks
        \/ \E u \in Units : Systemd(u)

Spec == Init /\ [][Next]_vars

FairSpec == Spec /\ WF_vars(Agent)

(* ------------------------------ Properties ----------------------------- *)

Results == {"none", "done", "skipped", "failed", "canceled"}

\* Types; and a reload in progress is at a unit of its cert.
TypeOK ==
  /\ up \subseteq Units /\ read \subseteq up \X Certs
  /\ job \in [Units -> ConfigMethods \cup {"none"}]
  /\ conn \in {"none", "open", "broken"}
  /\ pc \in {"rest", "loop", "call", "invoke", "await", "exec"}
  /\ cur \in 1..N+1 /\ k \in Nat \ {0}
  /\ result \in Results
  /\ proc \in {"none", "running", "zero", "nonzero"}
  /\ held \in BOOLEAN /\ cancelled \in BOOLEAN
  /\ told \in [Certs -> {"none", "ok", "error"}]
  /\ pc \notin {"rest", "loop"} => cur \in Certs
  /\ pc \in {"invoke", "await"} => k \in 1..Len(UnitSeq[cur])
  /\ proc # "none" <=> pc = "exec"

\* A reload that reported success has got every running unit of the cert onto
\* the cert's present files, however many units there are and whatever happened
\* to them, to the connection and to the other certs meanwhile.
NilMeansFresh ==
  \A c \in Certs : told[c] = "ok" =>
    \A u \in UnitsOf[c] \cap up : << u, c >> \in read

\* The caller's view: Notify is all it relies on.  In particular no stopped
\* unit is started that no method asks to start.
Abstract == INSTANCE Notify WITH calling <- IF Calling THEN cur ELSE Nobody
ImplementsNotify == Abstract!Spec

\* A cancelled run comes to its end whatever systemd and the bus do, except
\* while a descendant of a command holds on to the command's output.
CancelEnds == cancelled ~> (pc = "rest" \/ held)
=============================================================================
