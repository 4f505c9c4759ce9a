------------------------------- MODULE Renewer -------------------------------
(***************************************************************************)
(* The life of the certs one agent maintains: the timer starts a run, the  *)
(* run walks the certs in config order, decides from the files on disk     *)
(* whether each is due, fetches, writes and reloads; between runs time     *)
(* passes, operators change the config and other actors touch the files.   *)
(* Any fetch, commit or reload may fail, a reload may hang, SIGTERM cancels *)
(* the run and SIGKILL or a power loss cuts it anywhere.                   *)
(*                                                                         *)
(* A commit is one step here: that is what Writer is shown to implement.   *)
(***************************************************************************)
EXTENDS Layout

CONSTANTS
  N,          \* number of certs in the config; cert c is the c-th
  Configs,    \* cert -> the configs an operator may deploy for it
  Ids,        \* identities of issues
  NoIssue,    \* no issue
  Names,      \* DNS names
  Chain,      \* source -> number of chain blocks it returns
  Ttl,        \* lifetime of a leaf, in ticks
  ServeMin,   \* life left in any leaf a source returns
  Num, Den,   \* threshold_fraction = Num/Den
  Interval,   \* ticks between two starts by the timer
  RunMax,     \* ticks a timer run may take (TimeoutStartSec, TimeoutStopSec)
  Reliable,   \* certs whose source and disk work again within MaxBad runs
  MaxBad,     \* timer runs in a row that may fail a reliable cert
  Manual,     \* flags of the runs operators start: "force", "dry"
  OtherPerms  \* perms another actor may leave on a file

Certs == 1..N

Paths(c) == { PathOf(cfg, s) : cfg \in Configs[c], s \in AllSlots } \ {NoFile}

Contents == { << >> } \cup { Content(cfg, s, [id |-> i, chain |-> Chain[cfg.source]]) :
                cfg \in UNION { Configs[c] : c \in Certs }, s \in AllSlots, i \in Ids }

AllPerms == (UNION { { PermsOf(cfg, s) : cfg \in Configs[c], s \in AllSlots } : c \in Certs })
              \cup OtherPerms

ASSUME CertsAssumption ==
  /\ N \in Nat \ {0} /\ Reliable \subseteq Certs
  /\ NoIssue \notin Ids /\ Issuer \notin Ids
  /\ Manual \subseteq {"force", "dry"}
ASSUME TimeAssumption ==
  /\ Ttl \in Nat /\ ServeMin \in 1..Ttl
  /\ Num \in Nat /\ Den \in Nat \ {0}
  /\ Interval \in Nat \ {0} /\ RunMax \in 0..Interval /\ MaxBad \in Nat
ASSUME ConfigAssumption ==
  \A c \in Certs : \A cfg \in Configs[c] :
    /\ Declared(cfg) # {} /\ LeafSlot(cfg) # "none"
    /\ \A s \in Declared(cfg) : PathOf(cfg, s) # NoFile
    /\ \A s, t \in Declared(cfg) : s # t => PathOf(cfg, s) # PathOf(cfg, t)
    /\ cfg.order \in BundleOrders
    /\ cfg.source \in {"pki", "letsencrypt"} /\ Chain[cfg.source] \in Nat
    /\ cfg.fqdn \in Names /\ cfg.alt \in Seq(Names)

VARIABLES
  config,     \* cert -> its deployed config
  disk,       \* cert -> path -> file [kind, content, perms]
  left,       \* issue -> ticks its leaf is still valid
  names,      \* issue -> DNS names of its leaf
  stored,     \* cert -> issue the Let's Encrypt plugin holds for its path
  since,      \* ticks since the last timer run started
  pc, opt,    \* where the run stands; what started it
  cur,        \* the cert the run is at
  got,        \* issue fetched for it
  todo,       \* its slots not yet committed
  changed,    \* Result.Changed
  failures,   \* certs failed in this run
  cancelled,  \* the run's context is cancelled
  bad,        \* ghost: timer runs since cert was last processed to the end
  checked,    \* ghost: processed since its config or its files were meddled with
  kept,       \* ghost: written whole since then
  stale,      \* ghost: the consumer has not been reloaded since a file changed
  told        \* ghost: a run has ended in failure since a file of cert's changed

env   == << config, disk, left, names, stored, since >>
run   == << pc, opt, cur, got, todo, changed, failures, cancelled >>
ghost == << bad, checked, kept, stale, told >>
vars  == << env, run, ghost >>

File(kind, content, perms) == [kind |-> kind, content |-> content, perms |-> perms]
NoPerms == CHOOSE q \in AllPerms : TRUE
Absent  == File("absent", << >>, NoPerms)

(* ------------------------------- decide -------------------------------- *)

Cfg(c)       == config[c]
At(c, s)     == disk[c][PathOf(Cfg(c), s)]
LeafFile(c)  == At(c, LeafSlot(Cfg(c)))
First(f)     == Head(f.content)
Material(c)  == [id |-> got, chain |-> Chain[Cfg(c).source]]

\* Mutant: the threshold itself is still fresh.
DueBelow(ticks) == ticks = 0 \/ Den * ticks < Num * Ttl

\* Life left as a fraction of Ttl is at or below the threshold.
Due(ticks) == ticks = 0 \/ Den * ticks <= Num * Ttl

\* The first certificate of the file is all decide looks at.  A chain block
\* outlives every leaf and carries no DNS name.
BlockDue(b)   == b.role = "leaf" /\ Due(left[b.id])
BlockNames(b) == IF b.role = "leaf" THEN names[b.id] ELSE {}

\* Mutant: alt_names are compared for the other source.
PkiNamesDiffer(c) == /\ Cfg(c).source = "pki"
                     /\ AltNamesDiffer(Cfg(c), BlockNames(First(LeafFile(c))))

NamesDiffer(c) == /\ Cfg(c).source = "letsencrypt"
                  /\ AltNamesDiffer(Cfg(c), BlockNames(First(LeafFile(c))))

LooksFresh(c) ==
  /\ AuditPasses(Cfg(c), disk[c])
  /\ LoadLeafOK(LeafFile(c))
  /\ ~BlockDue(First(LeafFile(c)))
  /\ ~NamesDiffer(c)

NeedsFetch(c) == opt = "force" \/ ~LooksFresh(c)

(* ------------------------- Time and other actors ----------------------- *)

IdsIn(f) == { f.content[i].id : i \in 1..Len(f.content) }
InUse == {got} \cup { stored[c] : c \in Certs }
           \cup UNION { UNION { IdsIn(disk[c][p]) : p \in Paths(c) } : c \in Certs }

Idle == pc = "idle"

\* The timer fires Interval after its last start; systemd ends its runs
\* within RunMax.  A manual run is over before the timer's next.
Tick ==
  /\ since < IF ~Idle /\ opt = "timer" THEN RunMax ELSE Interval
  /\ since' = since + 1
  /\ left' = [i \in Ids |-> IF i \in InUse /\ left[i] > 0 THEN left[i] - 1 ELSE 0]
  /\ UNCHANGED << config, disk, names, stored, run, ghost >>

\* The deployed config or a file is no longer what the last run left.
Disturb(c) ==
  /\ checked' = [checked EXCEPT ![c] = FALSE]
  /\ kept' = [kept EXCEPT ![c] = FALSE]
  /\ UNCHANGED << bad, stale, told >>

Reconfigure(c) ==
  /\ Idle
  /\ \E cfg \in Configs[c] \ {Cfg(c)} : config' = [config EXCEPT ![c] = cfg]
  /\ Disturb(c)
  /\ UNCHANGED << disk, left, names, stored, since, run >>

\* A file is removed; or, where no promise is made about the cert, replaced
\* by something the agent refuses to touch.
Displace(c, path) ==
  /\ Idle
  /\ \E f \in {Absent} \cup IF c \in Reliable THEN {}
                            ELSE {File("special", << >>, NoPerms)} :
       /\ disk[c][path] # f
       /\ disk' = [disk EXCEPT ![c][path] = f]
  /\ Disturb(c)
  /\ UNCHANGED << config, left, names, stored, since, run >>

Reperm(c, path) ==
  /\ Idle
  /\ disk[c][path].kind = "regular"
  /\ \E q \in OtherPerms : disk' = [disk EXCEPT ![c][path].perms = q]
  /\ disk' # disk
  /\ UNCHANGED << config, left, names, stored, since, run, ghost >>

(* ---------------------------- Run, processCert ------------------------- *)

\* May the run lose cert c without breaking the promise about its failures?
MayLose(c) == c \in Reliable /\ opt = "timer" => bad[c] <= MaxBad

Started(c) == IF c \in Reliable THEN bad[c] + 1 ELSE 0

\* main: log in, then Run.  opt is "timer", or an operator's "force" or "dry".
StartTimer ==
  /\ Idle
  /\ since > 0
  /\ since' = 0
  /\ bad' = [c \in Certs |-> Started(c)]
  /\ pc' = "cert" /\ opt' = "timer"
  /\ UNCHANGED << config, disk, left, names, stored, cur, got, todo, changed,
                  failures, cancelled, checked, kept, stale, told >>

StartManual ==
  /\ Idle
  /\ since < Interval
  /\ pc' = "cert" /\ opt' \in Manual
  /\ UNCHANGED << env, cur, got, todo, changed, failures, cancelled, ghost >>

\* Vault refuses the login, the config does not load: exit 1, nothing done.
LoginFails ==
  /\ Idle
  /\ since > 0
  /\ since' = 0
  /\ bad' = [c \in Certs |-> Started(c)]
  /\ \A c \in Reliable : bad'[c] <= MaxBad
  /\ told' = [c \in Certs |-> TRUE]
  /\ UNCHANGED << config, disk, left, names, stored, run, checked, kept, stale >>

\* Mutant: the slots left over stay behind for the next cert.
LeaveLittered(c, failed) ==
  /\ pc' = "cert" /\ cur' = c + 1 /\ got' = NoIssue /\ changed' = FALSE
  /\ failures' = IF failed THEN failures + 1 ELSE failures
  /\ UNCHANGED << opt, cancelled, todo >>

\* The run leaves cert c, having failed on it or not.
Leave(c, failed) ==
  /\ pc' = "cert"
  /\ cur' = c + 1
  /\ got' = NoIssue
  /\ todo' = {}
  /\ changed' = FALSE
  /\ failures' = IF failed THEN failures + 1 ELSE failures
  /\ UNCHANGED << opt, cancelled >>

\* Mutant: the first failure ends the loop.
FailAborts(c) ==
  /\ MayLose(c)
  /\ pc' = "cert" /\ cur' = N + 1 /\ got' = NoIssue /\ todo' = {} /\ changed' = FALSE
  /\ failures' = failures + 1
  /\ UNCHANGED << opt, cancelled >>

Fail(c) == MayLose(c) /\ Leave(c, TRUE)

Deciding(c) == pc = "cert" /\ cur = c

Skip(c) ==
  /\ Deciding(c)
  /\ ~NeedsFetch(c)
  /\ Leave(c, FALSE)
  /\ bad' = IF opt = "dry" THEN bad ELSE [bad EXCEPT ![c] = 0]
  /\ checked' = IF opt = "dry" THEN checked ELSE [checked EXCEPT ![c] = TRUE]
  /\ UNCHANGED << env, kept, stale, told >>

DryRun(c) ==
  /\ Deciding(c)
  /\ NeedsFetch(c)
  /\ opt = "dry"
  /\ Leave(c, FALSE)
  /\ UNCHANGED << env, ghost >>

Renew(c) ==
  /\ Deciding(c)
  /\ NeedsFetch(c)
  /\ opt # "dry"
  /\ pc' = "fetch"
  /\ UNCHANGED << env, opt, cur, got, todo, changed, failures, cancelled, ghost >>

\* Run returns and main exits.
Reset ==
  /\ pc' = "idle"
  /\ opt' = "none"
  /\ cur' = 1
  /\ got' = NoIssue
  /\ todo' = {}
  /\ changed' = FALSE
  /\ failures' = 0
  /\ cancelled' = FALSE

\* Mutant: a single failed cert is let pass.
LenientExitCode == IF failures > 1 THEN 2 ELSE 0

\* main exits with 2 when any cert failed, with 0 otherwise.
ExitCode == IF failures > 0 THEN 2 ELSE 0

Finish ==
  /\ pc = "cert" /\ cur = N + 1
  /\ Reset
  /\ told' = [c \in Certs |-> told[c] \/ ExitCode # 0]
  /\ UNCHANGED << env, bad, checked, kept, stale >>

(* -------------------------------- Fetch -------------------------------- *)

\* An issue i with the given names leaves the source's hands.  What nobody
\* holds any more is forgotten.
Issue(i, leafNames) ==
  /\ i \in Ids \ InUse
  /\ left' = [j \in Ids |-> IF j = i THEN Ttl ELSE IF j \in InUse THEN left[j] ELSE 0]
  /\ names' = [j \in Ids |-> IF j = i THEN leafNames
                             ELSE IF j \in InUse THEN names[j] ELSE {}]

\* The plugin (external) answers from what it stores, and issues again when
\* that is missing, running out, or not for the names asked; no alt_names
\* parameter means "reuse stored".
Asked(c) == {Cfg(c).fqdn} \cup NamesIn(Cfg(c).alt)

Answers(c) ==
  /\ stored[c] # NoIssue
  /\ left[stored[c]] >= ServeMin
  /\ Cfg(c).alt # << >> => names[stored[c]] = Asked(c)

IssuedNames(c) == IF Cfg(c).alt = << >> /\ stored[c] # NoIssue
                  THEN names[stored[c]] ELSE Asked(c)

\* One request, answered with issue i: PKI issues on every request.
Serve(c, i) ==
  CASE Cfg(c).source = "pki" ->
         Issue(i, {}) /\ UNCHANGED stored
    [] Cfg(c).source = "letsencrypt" /\ Answers(c) ->
         i = stored[c] /\ UNCHANGED << left, names, stored >>
    [] OTHER ->
         /\ Issue(i, IssuedNames(c))
         /\ stored' = [stored EXCEPT ![c] = i]

Fetching(c) == pc = "fetch" /\ cur = c

Fetch(c) ==
  /\ Fetching(c)
  /\ ~cancelled
  /\ \E i \in Ids : Serve(c, i) /\ got' = i
  /\ pc' = "write"
  /\ todo' = Declared(Cfg(c))
  /\ UNCHANGED << config, disk, since, opt, cur, changed, failures, cancelled, ghost >>

\* The request fails or its answer is refused; the source may have served it
\* all the same, the answer being lost.
FetchFails(c) ==
  /\ Fetching(c)
  /\ Fail(c)
  /\ \/ UNCHANGED << left, names, stored >>
     \/ ~cancelled /\ \E i \in Ids : Serve(c, i)
  /\ UNCHANGED << config, disk, since, ghost >>

(* -------------------------------- Write -------------------------------- *)

Writing(c, s) == pc = "write" /\ cur = c /\ IsNext(s, todo)

\* commitFile: replace the file, or enforce perms where it is up to date.
Commit(c, s) ==
  LET file  == At(c, s)
      bytes == Content(Cfg(c), s, Material(c))
      same  == file.kind = "regular" /\ file.content = bytes
  IN  /\ Writing(c, s)
      /\ file.kind # "special"
      /\ disk' = [disk EXCEPT ![c][PathOf(Cfg(c), s)] =
                    File("regular", bytes, PermsOf(Cfg(c), s))]
      /\ changed' = (changed \/ ~same)
      /\ stale' = [stale EXCEPT ![c] = @ \/ (~same /\ Cfg(c).reload)]
      /\ told' = [told EXCEPT ![c] = @ /\ same]
      /\ todo' = todo \ {s}
      /\ pc' = IF todo = {s} THEN "written" ELSE "write"
      /\ UNCHANGED << config, left, names, stored, since, opt, cur, got, failures,
                      cancelled, bad, checked, kept >>

\* Mutant: the error of one file does not stop the others.
CommitFailsOnwards(c, s) ==
  /\ Writing(c, s)
  /\ todo' = todo \ {s}
  /\ pc' = IF todo = {s} THEN "written" ELSE "write"
  /\ UNCHANGED << env, opt, cur, got, changed, failures, cancelled, ghost >>

\* A commit fails (before the first one: an owner that does not resolve, a
\* mkdir): the slots that are left, and Result.Changed, are dropped.
CommitFails(c, s) ==
  /\ Writing(c, s)
  /\ Fail(c)
  /\ UNCHANGED << env, ghost >>

(* -------------------------------- Reload ------------------------------- *)

Processed(c) ==
  /\ bad' = [bad EXCEPT ![c] = 0]
  /\ checked' = [checked EXCEPT ![c] = TRUE]
  /\ kept' = [kept EXCEPT ![c] = TRUE]

\* Write returned; is there anything to tell the consumer?
NoReload(c) ==
  /\ pc = "written" /\ cur = c
  /\ ~(changed /\ Cfg(c).reload)
  /\ Leave(c, FALSE)
  /\ Processed(c)
  /\ UNCHANGED << env, stale, told >>

\* Mutant: the reload is forgotten.
CallNoReload(c) ==
  /\ pc = "written" /\ cur = c /\ changed /\ Cfg(c).reload
  /\ Leave(c, FALSE)
  /\ Processed(c)
  /\ UNCHANGED << env, stale, told >>

\* The command is started, the units' jobs are queued.  Whoever works on them
\* will answer ("reload"), or never will and is not waited for once the context
\* is cancelled ("hung"), or has left the command's output with a descendant,
\* for which CombinedOutput waits cancelled or not ("held"): both cost the certs
\* after c this run.  With the context cancelled nothing starts.
CallReload(c) ==
  /\ pc = "written" /\ cur = c
  /\ changed /\ Cfg(c).reload
  /\ IF cancelled
     THEN Leave(c, TRUE)
     ELSE /\ \/ pc' = "reload"
             \/ pc' \in {"hung", "held"} /\ \A d \in c+1..N : MayLose(d)
          /\ UNCHANGED << opt, cur, got, todo, changed, failures, cancelled >>
  /\ Processed(c)
  /\ UNCHANGED << env, stale, told >>

\* The command exits with 0; every unit's job ends in "done" or "skipped".
ReloadOK(c) ==
  /\ pc = "reload" /\ cur = c
  /\ Leave(c, FALSE)
  /\ stale' = [stale EXCEPT ![c] = FALSE]
  /\ UNCHANGED << env, bad, checked, kept, told >>

\* Mutant: the wait for a reload's answer does not look at the context.
ReloadFailsDeaf(c) ==
  /\ cur = c
  /\ pc = "reload"
  /\ Leave(c, TRUE)
  /\ UNCHANGED << env, ghost >>

\* Mutant: a failed reload is logged and no more.
ReloadFailureLogged(c) ==
  /\ cur = c
  /\ pc = "reload" \/ (pc = "hung" /\ cancelled)
  /\ Leave(c, FALSE)
  /\ UNCHANGED << env, ghost >>

\* It answers with a failure, or the context is cancelled under it.
ReloadFails(c) ==
  /\ cur = c
  /\ pc = "reload" \/ (pc = "hung" /\ cancelled)
  /\ Leave(c, TRUE)
  /\ UNCHANGED << env, ghost >>

\* The descendant lets go of the output: the command's end can be seen.
PipeCloses ==
  /\ pc = "held"
  /\ pc' = "reload"
  /\ UNCHANGED << env, opt, cur, got, todo, changed, failures, cancelled, ghost >>

(* ----------------------------- Interruption ---------------------------- *)

MayInterrupt == \A c \in cur..N : MayLose(c)

\* SIGTERM: fetches and reloads fail from now on, commits do not look at the
\* context.
Cancel ==
  /\ ~Idle /\ ~cancelled
  /\ MayInterrupt
  /\ cancelled' = TRUE
  /\ UNCHANGED << env, pc, opt, cur, got, todo, changed, failures, ghost >>

Overdue == opt = "timer" /\ pc \in {"reload", "hung", "held"}

\* It comes from systemd when a reload takes a run of the service past
\* TimeoutStartSec, and at any other moment, or to a run of their own, from
\* operators: main sets no deadline.
Timeout   == Overdue /\ Cancel
Interrupt == ~Overdue /\ Cancel

KillRun ==
  /\ ~Idle
  /\ MayInterrupt
  /\ Reset
  /\ told' = [c \in Certs |-> TRUE]
  /\ UNCHANGED << env, bad, checked, kept, stale >>

\* What SIGTERM does not end systemd kills after TimeoutStopSec, the descendants
\* of its commands included, and reports the unit failed.
Doomed == opt = "timer" /\ pc = "held" /\ cancelled

Abort == Doomed /\ KillRun

\* Nobody ends a hanging run of an operator but himself, who sees that it does
\* not return.  The timer's runs go on beside it, for no lock keeps the two
\* apart; it is out of the model then, being at no file any more.
LeftHanging == opt # "timer" /\ (pc = "held" \/ (pc = "hung" /\ ~cancelled))

StepAside == LeftHanging /\ KillRun

\* SIGKILL at any other moment, a power loss.
Kill == ~Doomed /\ ~LeftHanging /\ KillRun

(* ------------------------------ Behaviours ----------------------------- *)

Init ==
  /\ config \in { f \in [Certs -> UNION { Configs[c] : c \in Certs }] :
                    \A c \in Certs : f[c] \in Configs[c] }
  /\ disk = [c \in Certs |-> [path \in Paths(c) |-> Absent]]
  /\ left = [i \in Ids |-> 0]
  /\ names = [i \in Ids |-> {}]
  /\ stored = [c \in Certs |-> NoIssue]
  /\ since = 0
  /\ pc = "idle" /\ opt = "none" /\ cur = 1 /\ got = NoIssue /\ todo = {}
  /\ changed = FALSE /\ failures = 0 /\ cancelled = FALSE
  /\ bad = [c \in Certs |-> 0]
  /\ checked = [c \in Certs |-> FALSE]
  /\ kept = [c \in Certs |-> FALSE]
  /\ stale = [c \in Certs |-> FALSE]
  /\ told = [c \in Certs |-> FALSE]

Process(c) ==
  \/ Skip(c) \/ DryRun(c) \/ Renew(c)
  \/ Fetch(c) \/ FetchFails(c)
  \/ \E s \in AllSlots : Commit(c, s) \/ CommitFails(c, s)
  \/ NoReload(c) \/ CallReload(c) \/ ReloadOK(c) \/ ReloadFails(c)

Meddle(c) == \/ Reconfigure(c)
             \/ \E path \in Paths(c) : Displace(c, path) \/ Reperm(c, path)

Next ==
  \/ Tick
  \/ StartTimer \/ StartManual \/ LoginFails \/ Finish
  \/ PipeCloses \/ Timeout \/ Interrupt \/ Abort \/ StepAside \/ Kill
  \/ \E c \in Certs : Process(c) \/ Meddle(c)

Spec == Init /\ [][Next]_vars

(* ------------------------------ Properties ----------------------------- *)

Files == [kind : {"absent", "regular", "special"}, content : Contents, perms : AllPerms]

Labels == {"idle", "cert", "fetch", "write", "written", "reload", "hung", "held"}

\* Types; and a run that fetches, writes or reloads is at a cert, with the
\* material that step works on.
TypeOK ==
  /\ \A c \in Certs : config[c] \in Configs[c] /\ disk[c] \in [Paths(c) -> Files]
  /\ left \in [Ids -> 0..Ttl]
  /\ names \in [Ids -> SUBSET Names]
  /\ stored \in [Certs -> Ids \cup {NoIssue}]
  /\ since \in 0..Interval
  /\ pc \in Labels /\ opt \in {"none", "timer", "force", "dry"}
  /\ cur \in 1..N+1 /\ failures \in 0..N
  /\ got \in Ids \cup {NoIssue} /\ todo \subseteq AllSlots
  /\ changed \in BOOLEAN /\ cancelled \in BOOLEAN
  /\ bad \in [Certs -> 0..MaxBad + 1]
  /\ checked \in [Certs -> BOOLEAN] /\ kept \in [Certs -> BOOLEAN]
  /\ stale \in [Certs -> BOOLEAN] /\ told \in [Certs -> BOOLEAN]
  /\ pc \notin {"idle", "cert"} => cur \in Certs
  /\ pc \in {"write", "written", "reload", "hung", "held"} => got \in Ids
  /\ pc = "write" <=> todo # {}

\* The leaf a consumer is served has not expired: ever since the agent last
\* processed the cert, and however the runs since then failed within MaxBad,
\* whatever the other certs of the config did to those runs.
LeafStillValid(f) ==
  /\ \E i \in 1..Len(f.content) : f.content[i].role = "leaf"
  /\ \A i \in 1..Len(f.content) :
       f.content[i].role = "leaf" => left[f.content[i].id] > 0

ServedLeafValid ==
  \A c \in Reliable : checked[c] => LeafStillValid(LeafFile(c))

\* What the promise takes (ServedLeafValid is proved from these two): the leaf
\* of a skipped cert, or of a new issue, outlives the runs that may fail; and
\* nothing a config puts where another of the cert's configs reads the leaf
\* starts with a certificate that is not one (ca_file swapped with cert_file,
\* bundle_order starting with the chain).
Lapse == Interval * (MaxBad + 1) + RunMax

WindowOpen == ServeMin > Lapse /\ Den * Lapse <= Num * Ttl

LeafFirst ==
  \A c \in Certs : \A cfg, reader \in Configs[c], s \in AllSlots, i \in Ids :
    LET content == Content(cfg, s, [id |-> i, chain |-> Chain[cfg.source]])
    IN  /\ s \in Declared(cfg)
        /\ PathOf(cfg, s) = PathOf(reader, LeafSlot(reader))
        /\ content # << >> /\ IsCert(Head(content))
        => Head(content).role = "leaf"

\* Every declared file holds its slot of one and the same issue.
Whole(c) ==
  \E i \in Ids : \A s \in Declared(Cfg(c)) :
    /\ At(c, s).kind = "regular"
    /\ At(c, s).content = Content(Cfg(c), s, [id |-> i, chain |-> Chain[Cfg(c).source]])

\* QuietIsSound takes this (and is proved from it): a config that has a reload
\* is not followed by one that has none, whose runs have nobody to tell.
ReloadKept == \A c \in Certs : \A cfg, next \in Configs[c] : cfg.reload => next.reload

\* Between runs, a cert whose files are not one whole set (a new leaf beside
\* an old key), or whose consumer still runs on older files, has made some
\* run end in failure since its files last changed: a lost write or reload is
\* never silent, although the next runs find the leaf fresh and exit with 0.
QuietIsSound ==
  Idle => \A c \in Certs : kept[c] /\ ~told[c] => Whole(c) /\ ~stale[c]

\* The consumer is told to reload only when the whole set of its files is in
\* place, all of the material just fetched, under the configured perms.
ReloadSeesWholeSet ==
  pc \in {"written", "reload", "hung", "held"} =>
    \A s \in Declared(Cfg(cur)) :
      At(cur, s) = File("regular", Content(Cfg(cur), s, Material(cur)), PermsOf(Cfg(cur), s))

\* What Write lays down is what decide accepts: a cert renewed with a fresh
\* leaf is skipped by the next run ("skips work when certs are still fresh",
\* README.md:5), instead of being fetched again on every run.
SettledIsSkipped ==
  pc = "written" /\ ~Due(left[got]) => LooksFresh(cur)

\* An operator's change of alt_names reaches the served leaf by the first
\* run that processes the cert, however fresh the leaf was.
NamesServed ==
  \A c \in Certs : checked[c] /\ Cfg(c).source = "letsencrypt" =>
    BlockNames(First(LeafFile(c))) = Asked(c)

\* What they take.  NamesServed is proved from the first two: the plugin goes on
\* with the names it has stored once alt_names are gone, and decide compares the
\* names of the first certificate.  SettledIsSkipped is proved from all three:
\* the audit wants a chain in a fullchain, loadLeaf a certificate in front, and
\* names are compared as multisets.
AltNamesStay ==
  \A c \in Certs : \A cfg, next \in Configs[c] :
    cfg.source = "letsencrypt" /\ next.source = "letsencrypt" /\ next.alt = << >> =>
      NamesIn(ExpectedNames(cfg)) = {next.fqdn}

LeafInFront ==
  \A c \in Certs : \A cfg \in Configs[c] :
    cfg.source = "letsencrypt" /\ cfg.format = "combined" => cfg.order[1] = "cert"

Recognised ==
  \A c \in Certs : \A cfg \in Configs[c] :
    /\ "fullchain" \in Declared(cfg) => Chain[cfg.source] > 0
    /\ cfg.format = "combined" =>
         cfg.order[1] = "cert" \/ (cfg.order[1] = "ca" /\ Chain[cfg.source] > 0)
    /\ cfg.source = "letsencrypt" =>
         \A i, j \in 1..Len(ExpectedNames(cfg)) :
           i # j => ExpectedNames(cfg)[i] # ExpectedNames(cfg)[j]

\* "Every declared split slot must exist on disk with a shape that matches the
\* slot's semantics" (renewer.go:146-147): a cert that was processed has a key
\* in its key file and a certificate in every other, whatever its files were
\* called before.
Fits(s, b) == IF s = "key" THEN b.role = "key" ELSE IsCert(b)

ShapesMatch ==
  \A c \in Certs : checked[c] /\ Cfg(c).format = "split" =>
    \A s \in Declared(Cfg(c)) : At(c, s).content # << >> => Fits(s, First(At(c, s)))

\* "The first block is always the leaf in both layouts" (renewer.go:198-201):
\* the certificate whose lifetime decides about a processed cert is its leaf.
TtlIsTheLeafs ==
  \A c \in Certs : checked[c] => First(LeafFile(c)).role = "leaf"

\* "Permissions are re-enforced on every run even when the content hasn't
\* changed" (README.md:254): every cert a run has left without failure has
\* the configured perms on its files.
PermsReenforced ==
  pc = "cert" /\ failures = 0 /\ opt # "dry" =>
    \A c \in 1..cur-1 : \A s \in Declared(Cfg(c)) :
      At(c, s).perms = PermsOf(Cfg(c), s)

(* ------------------------------- Liveness ------------------------------ *)

\* Time passes and the timer fires; the agent goes on while nothing hangs;
\* systemd ends a run of its own that a reload holds up, an operator's it leaves
\* alone; a reload that is attempted again and again is answered some time, and
\* works some time; and there comes a time when nobody else interrupts or kills
\* the agent any more.  Nothing is assumed of a reload that hangs, nor of the
\* descendants of a command.
RunStep == Finish \/ \E c \in Certs : Process(c)

Answered(c) == CallReload(c) /\ pc' = "reload"

Fairness == /\ WF_vars(Tick)
            /\ WF_vars(StartTimer)
            /\ WF_vars(RunStep)
            /\ WF_vars(Timeout) /\ WF_vars(Abort) /\ WF_vars(StepAside)
            /\ \A c \in Certs : SF_vars(Answered(c)) /\ SF_vars(ReloadOK(c))
            /\ <>[][~Interrupt /\ ~Kill]_vars

FairSpec == Spec /\ Fairness

\* Every run ends: of its own accord, by the reload that gives up when systemd
\* cancels the run, or, where a descendant of a command holds the run up, by
\* systemd's SIGKILL.  The exception is an operator's run, which has no deadline:
\* its hanging reload lasts until he interrupts it, or the descendant lets go.
RunEnds == ~Idle ~> (Idle \/ LeftHanging)

\* A consumer left with older files is reloaded in the end, although no run
\* retries the reload that was lost: the next renewal brings another one.
StaleIsReloaded == \A c \in Certs : stale[c] ~> ~stale[c]
=============================================================================
