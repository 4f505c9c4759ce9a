------------------------------ MODULE Deadline ------------------------------
(***************************************************************************)
(* Runs of the agent against two clocks: the 30 s that internal/vault      *)
(* gives a request with its retry, and the 120 s that the systemd unit     *)
(* gives the whole run.  Certs are processed one after the other, so a     *)
(* source that does not answer, or a reload that does not end, takes time  *)
(* from the certs after it, on every run again.                            *)
(***************************************************************************)
EXTENDS Naturals

CONSTANTS
  N,               \* number of certs
  StartTimeout,    \* TimeoutStartSec, in ticks
  RequestTimeout,  \* defaultTimeout
  FetchMax,        \* what a source that works takes at most, and the write
  ReloadMax,       \* what a reload that works takes at most
  Slow,            \* certs whose source does not answer
  Stuck,           \* certs whose reload does not end
  Start            \* cert -> tick by which the run has come to it; N+1 is its end

Certs == 1..N
Outcomes == {"none", "fresh", "renewed", "unfetched", "unreloaded"}

FetchLimit(c)  == IF c \in Slow THEN RequestTimeout ELSE FetchMax
ReloadLimit(c) == IF c \in Stuck THEN StartTimeout ELSE ReloadMax
Cost(c) == IF c \in Slow THEN RequestTimeout ELSE FetchLimit(c) + ReloadLimit(c)

ASSUME DeadlineAssumption ==
  /\ N \in Nat
  /\ {StartTimeout, RequestTimeout, FetchMax, ReloadMax} \subseteq Nat
  /\ FetchMax <= RequestTimeout
  /\ Slow \subseteq Certs /\ Stuck \subseteq Certs
ASSUME StartAssumption ==
  /\ Start \in [1..N+1 -> Nat]
  /\ RequestTimeout <= Start[1]
  /\ \A c \in Certs, d \in 1..N+1 : c < d => Start[c] + Cost(c) <= Start[d]

VARIABLES
  clock,      \* ticks since systemd started the run
  spent,      \* ticks in the request or reload that is waited for
  pc, cur,    \* where the run stands, at which cert
  due,        \* certs that decide finds due in this run
  outcome,    \* cert -> what became of it in this run
  cancelled,  \* systemd has sent SIGTERM
  exit        \* exit code: "none", "ok", "startup", "partial"

vars == << clock, spent, pc, cur, due, outcome, cancelled, exit >>

\* Mutant: each of the two attempts has the timeout to itself.
PerAttempt == IF pc = "fetch" /\ cur \in Slow THEN 2 * RequestTimeout
              ELSE IF pc = "fetch" THEN FetchMax
              ELSE IF pc = "reload" THEN ReloadLimit(cur)
              ELSE IF pc = "login" THEN RequestTimeout ELSE 0

\* How long the step the run is at may take.
Limit == IF pc = "login" THEN RequestTimeout
         ELSE IF pc = "fetch" THEN FetchLimit(cur)
         ELSE IF pc = "reload" THEN ReloadLimit(cur) ELSE 0

Tick ==
  /\ spent < Limit
  /\ ~cancelled /\ clock < StartTimeout
  /\ clock' = clock + 1 /\ spent' = spent + 1
  /\ UNCHANGED << pc, cur, due, outcome, cancelled, exit >>

\* The time systemd gives the run is over: SIGTERM cancels the context.
Terminate ==
  /\ pc # "end" /\ clock >= StartTimeout /\ ~cancelled
  /\ cancelled' = TRUE
  /\ UNCHANGED << clock, spent, pc, cur, due, outcome, exit >>

Login ==
  /\ pc = "login" /\ ~cancelled
  /\ pc' = "cert" /\ spent' = 0
  /\ UNCHANGED << clock, cur, due, outcome, cancelled, exit >>

LoginFails ==
  /\ pc = "login"
  /\ pc' = "end" /\ spent' = 0 /\ exit' = "startup"
  /\ UNCHANGED << clock, cur, due, outcome, cancelled >>

\* processCert returns.
Done(result) ==
  /\ outcome' = [outcome EXCEPT ![cur] = result]
  /\ cur' = cur + 1 /\ pc' = "cert" /\ spent' = 0
  /\ UNCHANGED << clock, due, cancelled, exit >>

Skip == pc = "cert" /\ cur \in Certs \ due /\ Done("fresh")

\* Mutant: the loop goes one past the last cert.
AskPast ==
  /\ pc = "cert" /\ cur \in due \cup {N + 1}
  /\ pc' = "fetch"
  /\ UNCHANGED << clock, spent, cur, due, outcome, cancelled, exit >>

Ask ==
  /\ pc = "cert" /\ cur \in Certs \cap due
  /\ pc' = "fetch"
  /\ UNCHANGED << clock, spent, cur, due, outcome, cancelled, exit >>

\* The source answers, the files are written, the reload is called.
Answer ==
  /\ pc = "fetch" /\ cur \notin Slow /\ ~cancelled
  /\ pc' = "reload" /\ spent' = 0
  /\ UNCHANGED << clock, cur, due, outcome, cancelled, exit >>

\* It is refused, or not answered in time, or the context is cancelled.
FetchFails == pc = "fetch" /\ (cur \in Slow \/ cancelled) /\ Done("unfetched")

Reloaded == pc = "reload" /\ cur \notin Stuck /\ ~cancelled /\ Done("renewed")

\* The files are written and stay; the command or the job is given up.
ReloadFails == pc = "reload" /\ cancelled /\ Done("unreloaded")

Finish ==
  /\ pc = "cert" /\ cur = N + 1
  /\ pc' = "end"
  /\ exit' = IF \E c \in Certs : outcome[c] \in {"unfetched", "unreloaded"} THEN "partial" ELSE "ok"
  /\ UNCHANGED << clock, spent, cur, due, outcome, cancelled >>

\* The next run: what was not written is still due, what was may be again.
NextRun ==
  /\ pc = "end"
  /\ pc' = "login" /\ cur' = 1 /\ clock' = 0 /\ spent' = 0
  /\ cancelled' = FALSE /\ exit' = "none"
  /\ outcome' = [c \in Certs |-> "none"]
  /\ due' \in SUBSET Certs
  /\ \A c \in due : outcome[c] \in {"none", "unfetched"} => c \in due'

Init ==
  /\ clock = 0 /\ spent = 0 /\ pc = "login" /\ cur = 1
  /\ due \in SUBSET Certs
  /\ outcome = [c \in Certs |-> "none"]
  /\ cancelled = FALSE /\ exit = "none"

Next == \/ Tick \/ Terminate \/ Login \/ LoginFails
        \/ Skip \/ Ask \/ Answer \/ FetchFails \/ Reloaded \/ ReloadFails
        \/ Finish \/ NextRun

Spec == Init /\ [][Next]_vars

(* ------------------------------ Properties ----------------------------- *)

TypeOK ==
  /\ clock \in 0..StartTimeout /\ spent \in Nat
  /\ pc \in {"login", "cert", "fetch", "reload", "end"}
  /\ cur \in 1..N+1 /\ due \subseteq Certs
  /\ outcome \in [Certs -> Outcomes]
  /\ cancelled \in BOOLEAN /\ exit \in {"none", "ok", "startup", "partial"}
  /\ pc \in {"fetch", "reload"} => cur \in Certs

\* Nothing is wrong with the cert itself.
Healthy == Certs \ (Slow \cup Stuck)

\* What the certs before it can cost at most still leaves it its own time.
InTime(c) == Start[c] + Cost(c) < StartTimeout

\* A source that does not answer and a reload that does not end take nothing
\* from a healthy cert as long as what they cost before it stays within
\* systemd's patience: a run that gets past the login renews it when it is due.
HealthyServed ==
  pc = "end" /\ exit # "startup" =>
    \A c \in due \cap Healthy : InTime(c) => outcome[c] = "renewed"

\* "partial failure - at least one cert failed; others ran" (README.md:293): a
\* run that exits with 2 has renewed the others.
OthersRan == exit = "partial" => \A c \in due \cap Healthy : outcome[c] = "renewed"
=============================================================================
