---------------------------- MODULE RenewerProofs ---------------------------
(***************************************************************************)
(* Renewer keeps its types, reloads on whole sets only, loses nothing      *)
(* silently, serves valid leaves for the names asked and skips what it has *)
(* written, for any number of certs, any configs and any timing.  TypeOK   *)
(* is not inductive: that a run never counts more failures than certs      *)
(* rests on how far it has come, that its slots are declared on the config *)
(* it reads, and the bound on lost runs on what a run may lose.            *)
(***************************************************************************)
EXTENDS Renewer, FiniteSetTheorems, TLAPS

(* ---------------------------- The invariant ---------------------------- *)

\* The run never counts more failures than certs it has left; the slots it
\* works on are slots of the config it reads.
RunOK ==
  /\ DOMAIN config = Certs /\ DOMAIN disk = Certs
  /\ disk = [c \in Certs |-> disk[c]]
  /\ failures < cur
  /\ todo \subseteq IF cur \in Certs THEN Declared(Cfg(cur)) ELSE {}

\* A reliable cert has lost at most MaxBad runs, the one in progress aside;
\* that one is within the time systemd gives it.
MayStillLose(c) ==
  /\ ~Idle /\ opt = "timer" /\ c >= cur
  /\ c = cur => pc \notin {"reload", "hung", "held"}

BadBounded ==
  /\ \A c \in Reliable : MayStillLose(c) \/ bad[c] <= MaxBad
  /\ opt = "timer" => since <= RunMax
  /\ Idle => opt = "none" /\ cur = 1

TypeInv == TypeOK /\ RunOK /\ BadBounded

(* ------------------------------- Types --------------------------------- *)

LEMMA PathDeclared ==
  ASSUME NEW c \in Certs, NEW cfg \in Configs[c], NEW s \in Declared(cfg)
  PROVE  s \in AllSlots /\ PathOf(cfg, s) \in Paths(c)
<1>1. s \in AllSlots
  BY DEF Declared, AllSlots, SplitSlots
<1> QED  BY <1>1, ConfigAssumption DEF Paths

LEMMA LeafDeclared ==
  ASSUME NEW c \in Certs, NEW cfg \in Configs[c]
  PROVE  LeafSlot(cfg) \in Declared(cfg)
<1>1. LeafSlot(cfg) # "none"
  BY ConfigAssumption
<1> QED  BY <1>1 DEF LeafSlot

LEMMA ContentKnown ==
  ASSUME NEW c \in Certs, NEW cfg \in Configs[c], NEW s \in AllSlots, NEW i \in Ids
  PROVE  Content(cfg, s, [id |-> i, chain |-> Chain[cfg.source]]) \in Contents
BY DEF Contents

LEMMA PermsKnown ==
  ASSUME NEW c \in Certs, NEW cfg \in Configs[c], NEW s \in AllSlots
  PROVE  PermsOf(cfg, s) \in AllPerms
BY DEF AllPerms

\* Any config at all makes the placeholder perms of an absent file a value.
LEMMA EmptyKnown ==
  ASSUME NEW c \in Certs, NEW cfg \in Configs[c], NEW kind \in {"absent", "special"}
  PROVE  File(kind, << >>, NoPerms) \in Files
<1>1. "key" \in AllSlots
  BY DEF AllSlots, SplitSlots
<1>2. PermsOf(cfg, "key") \in AllPerms
  BY <1>1, PermsKnown
<1>3. NoPerms \in AllPerms
  BY <1>2 DEF NoPerms
<1>4. << >> \in Contents
  BY DEF Contents
<1> QED  BY <1>3, <1>4 DEF File, Files

\* One file of the disk replaced by another of the right type.
LEMMA DiskUpdate ==
  ASSUME TypeInv, NEW c \in Certs, NEW p \in Paths(c), NEW f \in Files,
         disk' = [disk EXCEPT ![c][p] = f]
  PROVE  /\ DOMAIN disk' = Certs /\ disk' = [d \in Certs |-> disk'[d]]
         /\ \A d \in Certs : disk'[d] \in [Paths(d) -> Files]
         /\ \A d \in Certs : d # c => disk'[d] = disk[d]
         /\ disk'[c][p] = f
         /\ \A q \in Paths(c) : q # p => disk'[c][q] = disk[c][q]
<1>1. /\ DOMAIN disk = Certs /\ disk = [d \in Certs |-> disk[d]]
      /\ \A d \in Certs : disk[d] \in [Paths(d) -> Files]
  BY DEF TypeInv, TypeOK, RunOK
<1>2. disk' = [disk EXCEPT ![c] = [disk[c] EXCEPT ![p] = f]]
  OBVIOUS
<1>3. [disk[c] EXCEPT ![p] = f] \in [Paths(c) -> Files]
  BY <1>1
<1>4. disk' = [d \in Certs |-> IF d = c THEN [disk[c] EXCEPT ![p] = f] ELSE disk[d]]
  BY <1>1, <1>2
<1> QED  BY <1>1, <1>3, <1>4

\* The file decide reads the leaf from.
LEMMA LeafFileOK ==
  ASSUME TypeOK, NEW c \in Certs
  PROVE  /\ PathOf(Cfg(c), LeafSlot(Cfg(c))) \in Paths(c)
         /\ LeafFile(c) \in Files
<1>1. Cfg(c) \in Configs[c] /\ disk[c] \in [Paths(c) -> Files]
  BY DEF TypeOK, Cfg
<1>2. PathOf(Cfg(c), LeafSlot(Cfg(c))) \in Paths(c)
  BY <1>1, LeafDeclared, PathDeclared
<1> QED  BY <1>1, <1>2 DEF LeafFile, At

LEMMA TypeInit == Init => TypeInv
<1>1. SUFFICES ASSUME Init PROVE TypeInv
  OBVIOUS
<1>2. 1 \in Certs /\ N \in Nat
  BY CertsAssumption DEF Certs
<1>3. \A c \in Certs : config[c] \in Configs[c]
  BY <1>1 DEF Init
<1>4. Absent \in Files
  BY <1>2, <1>3, EmptyKnown DEF Absent
<1>5. TypeOK
  <2>1. \A c \in Certs : disk[c] \in [Paths(c) -> Files]
    BY <1>1, <1>4 DEF Init
  <2>2. left \in [Ids -> 0..Ttl] /\ since \in 0..Interval
    BY <1>1, TimeAssumption DEF Init
  <2>3. bad \in [Certs -> 0..MaxBad + 1]
    BY <1>1, TimeAssumption DEF Init
  <2>4. names \in [Ids -> SUBSET Names] /\ stored \in [Certs -> Ids \cup {NoIssue}]
    BY <1>1 DEF Init
  <2>5. cur \in 1..N+1 /\ failures \in 0..N
    BY <1>1, <1>2 DEF Init
  <2> QED
    BY <1>1, <1>3, <2>1, <2>2, <2>3, <2>4, <2>5 DEF Init, TypeOK, Labels
<1>6. RunOK
  BY <1>1, <1>2 DEF Init, RunOK
<1>7. BadBounded
  BY <1>1, TimeAssumption, CertsAssumption DEF Init, BadBounded, MayStillLose, Idle
<1> QED  BY <1>5, <1>6, <1>7 DEF TypeInv

\* Outside a run nothing is in progress.
LEMMA TypeReset ==
  ASSUME Reset
  PROVE  /\ pc' = "idle" /\ opt' = "none" /\ cur' \in 1..N+1 /\ failures' \in 0..N
         /\ got' = NoIssue /\ todo' = {} /\ changed' \in BOOLEAN /\ cancelled' \in BOOLEAN
         /\ cur' = 1 /\ failures' = 0
<1>1. 1 \in 1..N+1 /\ 0 \in 0..N
  BY CertsAssumption
<1>2. changed' \in BOOLEAN /\ cancelled' \in BOOLEAN
  BY DEF Reset
<1> QED  BY <1>1, <1>2 DEF Reset

\* Leaving a cert: the next one is up, and one failure more at most.
LEMMA TypeLeave ==
  ASSUME TypeInv, NEW c \in Certs, cur = c, NEW failed \in BOOLEAN, Leave(c, failed)
  PROVE  /\ pc' = "cert" /\ opt' = opt /\ cancelled' = cancelled
         /\ cur' = cur + 1 /\ cur' \in 1..N+1
         /\ failures' \in 0..N /\ failures' < cur'
         /\ got' = NoIssue /\ todo' = {} /\ changed' = FALSE
BY CertsAssumption DEF TypeInv, TypeOK, RunOK, Leave, Certs

LEMMA TypeTick == TypeInv /\ Tick => TypeInv'
<1>1. SUFFICES ASSUME TypeInv, Tick PROVE TypeInv'
  OBVIOUS
<1>2. since' \in 0..Interval /\ (opt' = "timer" => since' <= RunMax)
  BY <1>1, TimeAssumption DEF TypeInv, TypeOK, BadBounded, Tick, run, Idle
<1>3. left' \in [Ids -> 0..Ttl]
  BY <1>1, TimeAssumption DEF TypeInv, TypeOK, Tick
<1>4. UNCHANGED << config, disk, names, stored, run, ghost >>
  BY <1>1 DEF Tick
<1> QED
  BY <1>1, <1>2, <1>3, <1>4
  DEF TypeInv, TypeOK, RunOK, BadBounded, MayStillLose, Idle, Cfg, run, ghost

LEMMA TypeFinish == TypeInv /\ Finish => TypeInv'
<1>1. SUFFICES ASSUME TypeInv, Finish PROVE TypeInv'
  OBVIOUS
<1>2. TypeOK'
  <2>1. told' \in [Certs -> BOOLEAN]
    BY <1>1 DEF Finish
  <2>2. Reset /\ UNCHANGED << env, bad, checked, kept, stale >>
    BY <1>1 DEF Finish
  <2> QED
    BY <1>1, <2>1, <2>2, TypeReset DEF TypeInv, TypeOK, env, Labels
<1>3. RunOK'
  BY <1>1, <1>2 DEF TypeInv, RunOK, Finish, Reset, env
<1>4. \A c \in Reliable : c < cur
  BY <1>1, CertsAssumption DEF Finish, Certs
<1>5. BadBounded'
  BY <1>1, <1>4, CertsAssumption DEF TypeInv, TypeOK, BadBounded, MayStillLose, Finish, Reset, env, Idle, Certs
<1> QED  BY <1>2, <1>3, <1>5 DEF TypeInv

LEMMA TypeStart == TypeInv /\ (StartTimer \/ StartManual \/ LoginFails) => TypeInv'
<1>1. CASE TypeInv /\ StartTimer
  <2>1. \A c \in Certs : Started(c) \in 0..MaxBad + 1
    BY <1>1, TimeAssumption DEF TypeInv, TypeOK, BadBounded, MayStillLose, StartTimer, Started
  <2>2. TypeOK'
    BY <1>1, <2>1, TimeAssumption DEF TypeInv, TypeOK, StartTimer, Labels, Idle
  <2>3. RunOK'
    BY <1>1 DEF TypeInv, RunOK, StartTimer, Cfg
  <2>4. BadBounded'
    BY <1>1, TimeAssumption, CertsAssumption
    DEF TypeInv, TypeOK, BadBounded, MayStillLose, StartTimer, Idle, Certs
  <2> QED  BY <2>2, <2>3, <2>4 DEF TypeInv
<1>2. CASE TypeInv /\ StartManual
  <2>1. TypeOK'
    BY <1>2, CertsAssumption DEF TypeInv, TypeOK, StartManual, Labels, Idle, env, ghost
  <2>2. RunOK'
    BY <1>2 DEF TypeInv, RunOK, StartManual, Cfg, env
  <2>3. BadBounded'
    BY <1>2, CertsAssumption DEF TypeInv, TypeOK, BadBounded, MayStillLose, StartManual, Idle, env, ghost
  <2> QED  BY <2>1, <2>2, <2>3 DEF TypeInv
<1>3. CASE TypeInv /\ LoginFails
  <2>1. \A c \in Certs : Started(c) \in 0..MaxBad + 1
    BY <1>3, TimeAssumption DEF TypeInv, TypeOK, BadBounded, MayStillLose, LoginFails, Started
  <2>2. TypeOK'
    BY <1>3, <2>1, TimeAssumption DEF TypeInv, TypeOK, LoginFails, run
  <2>3. RunOK'
    BY <1>3 DEF TypeInv, RunOK, LoginFails, Cfg, run
  <2>4. BadBounded'
    BY <1>3, TimeAssumption DEF TypeInv, TypeOK, BadBounded, MayStillLose, LoginFails, Idle, run
  <2> QED  BY <2>2, <2>3, <2>4 DEF TypeInv
<1> QED  BY <1>1, <1>2, <1>3

\* Whoever ends a run, it is cancelled or killed.
LEMMA Interruptions ==
  Timeout \/ Interrupt \/ Abort \/ StepAside \/ Kill => Cancel \/ KillRun
BY DEF Timeout, Interrupt, Abort, StepAside, Kill

LEMMA TypeInterrupted == TypeInv /\ (PipeCloses \/ Cancel \/ KillRun) => TypeInv'
<1>1. CASE TypeInv /\ Cancel
  BY <1>1 DEF TypeInv, TypeOK, RunOK, BadBounded, MayStillLose, Cancel, Idle, Cfg, env, ghost
<1>2. CASE TypeInv /\ PipeCloses
  <2>1. pc = "held" /\ pc' = "reload" /\ UNCHANGED << env, opt, cur, got, todo, changed,
                                                    failures, cancelled, ghost >>
    BY <1>2 DEF PipeCloses
  <2>2. TypeOK'
    BY <1>2, <2>1 DEF TypeInv, TypeOK, Labels, env, ghost
  <2>3. RunOK'
    BY <1>2, <2>1 DEF TypeInv, RunOK, Idle, Cfg, env
  <2>4. BadBounded'
    BY <1>2, <2>1 DEF TypeInv, BadBounded, MayStillLose, Idle, env, ghost
  <2> QED  BY <2>2, <2>3, <2>4 DEF TypeInv
<1>3. CASE TypeInv /\ KillRun
  <2>1. TypeOK'
    BY <1>3, TypeReset DEF TypeInv, TypeOK, KillRun, env, Labels
  <2>2. RunOK'
    BY <1>3 DEF TypeInv, RunOK, KillRun, Reset, env
  <2>3. \A c \in Reliable : bad[c] <= MaxBad
    BY <1>3, CertsAssumption
    DEF TypeInv, TypeOK, BadBounded, MayStillLose, KillRun, MayInterrupt, MayLose, Certs, Idle
  <2>4. BadBounded'
    BY <1>3, <2>3 DEF TypeInv, BadBounded, KillRun, Reset, env, Idle
  <2> QED  BY <2>1, <2>2, <2>4 DEF TypeInv
<1> QED  BY <1>1, <1>2, <1>3

\* The run leaves cert c, which it may lose or has just processed.
LEMMA TypeLeaves ==
  ASSUME TypeInv, NEW c \in Certs, cur = c, ~Idle, NEW failed \in BOOLEAN, Leave(c, failed),
         UNCHANGED << config, disk, since >>,
         left' \in [Ids -> 0..Ttl], names' \in [Ids -> SUBSET Names],
         stored' \in [Certs -> Ids \cup {NoIssue}],
         bad' \in [Certs -> 0..MaxBad + 1],
         \A d \in Certs : d # c => bad'[d] = bad[d],
         c \in Reliable => bad'[c] <= MaxBad,
         checked' \in [Certs -> BOOLEAN], kept' \in [Certs -> BOOLEAN],
         stale' \in [Certs -> BOOLEAN], told' \in [Certs -> BOOLEAN]
  PROVE  TypeInv'
<1>1. /\ pc' = "cert" /\ opt' = opt /\ cancelled' = cancelled
      /\ cur' = cur + 1 /\ cur' \in 1..N+1
      /\ failures' \in 0..N /\ failures' < cur'
      /\ got' = NoIssue /\ todo' = {} /\ changed' = FALSE
  BY TypeLeave
<1>2. TypeOK'
  BY <1>1 DEF TypeInv, TypeOK, Labels
<1>3. RunOK'
  BY <1>1 DEF TypeInv, RunOK, Cfg
<1>4. BadBounded'
  <2>1. opt' = "timer" => since' <= RunMax
    BY <1>1 DEF TypeInv, BadBounded
  <2>2. ASSUME NEW d \in Reliable, ~MayStillLose(d)' PROVE bad'[d] <= MaxBad
    <3>1. d \in Certs /\ c \in Nat /\ d \in Nat
      BY CertsAssumption DEF Certs
    <3>2. CASE d = c
      BY <3>2
    <3>3. CASE d # c
      <4>1. bad'[d] = bad[d]
        BY <3>1, <3>3
      <4>2. ~MayStillLose(d)
        BY <1>1, <2>2, <3>1, <3>3 DEF MayStillLose, Idle
      <4> QED  BY <4>1, <4>2 DEF TypeInv, BadBounded
    <3> QED  BY <3>2, <3>3
  <2> QED  BY <1>1, <2>1, <2>2 DEF BadBounded, Idle
<1> QED  BY <1>2, <1>3, <1>4 DEF TypeInv

\* Where MayLose holds, or the run is not the timer's, MaxBad is not used up.
LEMMA LossAllowed ==
  ASSUME TypeInv, NEW c \in Reliable, MayLose(c) \/ opt # "timer"
  PROVE  bad[c] <= MaxBad
BY DEF TypeInv, BadBounded, MayStillLose, MayLose

LEMMA TypeDecide ==
  ASSUME TypeInv, NEW c \in Certs, Skip(c) \/ DryRun(c) \/ Renew(c)
  PROVE  TypeInv'
<1>0. pc = "cert" /\ cur = c /\ ~Idle
  BY DEF Skip, DryRun, Renew, Deciding, Idle
<1>1. CASE Skip(c)
  <2>1. /\ Leave(c, FALSE) /\ UNCHANGED << env, kept, stale, told >>
        /\ bad' = IF opt = "dry" THEN bad ELSE [bad EXCEPT ![c] = 0]
        /\ checked' = IF opt = "dry" THEN checked ELSE [checked EXCEPT ![c] = TRUE]
    BY <1>1 DEF Skip
  <2>2. /\ bad' \in [Certs -> 0..MaxBad + 1]
        /\ \A d \in Certs : d # c => bad'[d] = bad[d]
    BY <2>1, TimeAssumption DEF TypeInv, TypeOK
  <2>3. c \in Reliable => bad'[c] <= MaxBad
    BY <2>1, LossAllowed, TimeAssumption DEF TypeInv, TypeOK
  <2>4. checked' \in [Certs -> BOOLEAN]
    BY <2>1 DEF TypeInv, TypeOK
  <2> QED
    BY <1>0, <2>1, <2>2, <2>3, <2>4, TypeLeaves DEF TypeInv, TypeOK, env
<1>2. CASE DryRun(c)
  <2>1. Leave(c, FALSE) /\ UNCHANGED << env, ghost >> /\ opt = "dry"
    BY <1>2 DEF DryRun
  <2>2. c \in Reliable => bad'[c] <= MaxBad
    BY <2>1, LossAllowed DEF ghost
  <2> QED
    BY <1>0, <2>1, <2>2, TypeLeaves DEF TypeInv, TypeOK, env, ghost
<1>3. CASE Renew(c)
  BY <1>0, <1>3 DEF Renew, TypeInv, TypeOK, RunOK, BadBounded, MayStillLose, Idle, Cfg, Labels, env, ghost
<1> QED  BY <1>1, <1>2, <1>3

\* What one request may change.
LEMMA TypeServe ==
  ASSUME TypeInv, NEW c \in Certs, NEW i \in Ids, Serve(c, i)
  PROVE  /\ left' \in [Ids -> 0..Ttl] /\ names' \in [Ids -> SUBSET Names]
         /\ stored' \in [Certs -> Ids \cup {NoIssue}]
<1>1. /\ left \in [Ids -> 0..Ttl] /\ names \in [Ids -> SUBSET Names]
      /\ stored \in [Certs -> Ids \cup {NoIssue}] /\ Cfg(c) \in Configs[c]
  BY DEF TypeInv, TypeOK, Cfg
<1>2. Asked(c) \subseteq Names
  <2>1. Cfg(c).fqdn \in Names /\ Cfg(c).alt \in Seq(Names)
    BY <1>1, ConfigAssumption
  <2> QED  BY <2>1 DEF Asked, NamesIn
<1>3. IssuedNames(c) \subseteq Names
  BY <1>1, <1>2 DEF IssuedNames
<1>4. ASSUME NEW ns \in SUBSET Names, Issue(i, ns)
      PROVE  left' \in [Ids -> 0..Ttl] /\ names' \in [Ids -> SUBSET Names]
  BY <1>1, <1>4, TimeAssumption DEF Issue
<1>5. CASE Issue(i, {}) /\ UNCHANGED stored
  BY <1>1, <1>4, <1>5
<1>6. CASE UNCHANGED << left, names, stored >>
  BY <1>1, <1>6
<1>7. CASE Issue(i, IssuedNames(c)) /\ stored' = [stored EXCEPT ![c] = i]
  BY <1>1, <1>3, <1>4, <1>7
<1>8. \/ Issue(i, {}) /\ UNCHANGED stored
      \/ UNCHANGED << left, names, stored >>
      \/ Issue(i, IssuedNames(c)) /\ stored' = [stored EXCEPT ![c] = i]
  BY DEF Serve
<1> QED  BY <1>5, <1>6, <1>7, <1>8

LEMMA TypeFetch ==
  ASSUME TypeInv, NEW c \in Certs, Fetch(c) \/ FetchFails(c)
  PROVE  TypeInv'
<1>0. pc = "fetch" /\ cur = c /\ ~Idle
  BY DEF Fetch, FetchFails, Fetching, Idle
<1>1. CASE Fetch(c)
  <2>1. PICK i \in Ids : Serve(c, i) /\ got' = i
    BY <1>1 DEF Fetch
  <2>2. /\ left' \in [Ids -> 0..Ttl] /\ names' \in [Ids -> SUBSET Names]
        /\ stored' \in [Certs -> Ids \cup {NoIssue}]
    BY <2>1, TypeServe
  <2>3. /\ pc' = "write" /\ todo' = Declared(Cfg(c))
        /\ UNCHANGED << config, disk, since, opt, cur, changed, failures, cancelled, ghost >>
    BY <1>1 DEF Fetch
  <2>4. Declared(Cfg(c)) # {} /\ Declared(Cfg(c)) \subseteq AllSlots
    BY ConfigAssumption, PathDeclared DEF TypeInv, TypeOK, Cfg
  <2>5. TypeOK'
    BY <1>0, <2>1, <2>2, <2>3, <2>4 DEF TypeInv, TypeOK, Labels, ghost
  <2>6. RunOK'
    BY <1>0, <2>3 DEF TypeInv, RunOK, Cfg
  <2>7. BadBounded'
    BY <1>0, <2>3 DEF TypeInv, BadBounded, MayStillLose, Idle, ghost
  <2> QED  BY <2>5, <2>6, <2>7 DEF TypeInv
<1>2. CASE FetchFails(c)
  <2>1. MayLose(c) /\ Leave(c, TRUE) /\ UNCHANGED << config, disk, since, ghost >>
    BY <1>2 DEF FetchFails, Fail
  <2>2. UNCHANGED << left, names, stored >> \/ \E i \in Ids : Serve(c, i)
    BY <1>2 DEF FetchFails
  <2>3. /\ left' \in [Ids -> 0..Ttl] /\ names' \in [Ids -> SUBSET Names]
        /\ stored' \in [Certs -> Ids \cup {NoIssue}]
    BY <2>2, TypeServe DEF TypeInv, TypeOK
  <2>4. c \in Reliable => bad'[c] <= MaxBad
    BY <2>1, LossAllowed DEF ghost
  <2> QED
    BY <1>0, <2>1, <2>3, <2>4, TypeLeaves DEF TypeInv, TypeOK, ghost
<1> QED  BY <1>1, <1>2

\* A commit works on a declared slot, at a managed path.
LEMMA CommitSlot ==
  ASSUME TypeInv, NEW c \in Certs, NEW s \in AllSlots, Writing(c, s)
  PROVE  /\ pc = "write" /\ cur = c /\ s \in todo
         /\ s \in Declared(Cfg(c)) /\ PathOf(Cfg(c), s) \in Paths(c)
         /\ Cfg(c) \in Configs[c] /\ got \in Ids
<1>1. pc = "write" /\ cur = c /\ s \in todo
  BY DEF Writing, IsNext
<1>2. s \in Declared(Cfg(c)) /\ Cfg(c) \in Configs[c] /\ got \in Ids
  BY <1>1 DEF TypeInv, TypeOK, RunOK, Cfg
<1> QED  BY <1>1, <1>2, PathDeclared

LEMMA TypeWrite ==
  ASSUME TypeInv, NEW c \in Certs, NEW s \in AllSlots, Commit(c, s) \/ CommitFails(c, s)
  PROVE  TypeInv'
<1>0. Writing(c, s)
  BY DEF Commit, CommitFails
<1>1. /\ pc = "write" /\ cur = c /\ s \in todo
      /\ s \in Declared(Cfg(c)) /\ PathOf(Cfg(c), s) \in Paths(c)
      /\ Cfg(c) \in Configs[c] /\ got \in Ids
  BY <1>0, CommitSlot
<1>2. CASE Commit(c, s)
  <2> DEFINE f == File("regular", Content(Cfg(c), s, Material(c)), PermsOf(Cfg(c), s))
  <2>1. f \in Files
    BY <1>1, ContentKnown, PermsKnown DEF Material, File, Files
  <2>2. disk' = [disk EXCEPT ![c][PathOf(Cfg(c), s)] = f]
    BY <1>2 DEF Commit
  <2>3. /\ DOMAIN disk' = Certs /\ disk' = [d \in Certs |-> disk'[d]]
        /\ \A d \in Certs : disk'[d] \in [Paths(d) -> Files]
    BY <1>1, <2>1, <2>2, DiskUpdate
  <2>4. /\ todo' = todo \ {s} /\ pc' = IF todo = {s} THEN "written" ELSE "write"
        /\ UNCHANGED << config, left, names, stored, since, opt, cur, got, failures,
                         cancelled, bad, checked, kept >>
    BY <1>2 DEF Commit
  <2>5. changed' \in BOOLEAN
    BY <1>2 DEF Commit, TypeInv, TypeOK
  <2>6. stale' \in [Certs -> BOOLEAN]
    BY <1>2 DEF Commit, TypeInv, TypeOK
  <2>7. told' \in [Certs -> BOOLEAN]
    BY <1>2 DEF Commit, TypeInv, TypeOK
  <2>8. TypeOK'
    BY <1>1, <2>3, <2>4, <2>5, <2>6, <2>7 DEF TypeInv, TypeOK, Labels
  <2>9. RunOK'
    BY <1>1, <2>3, <2>4 DEF TypeInv, RunOK, Cfg
  <2>10. BadBounded'
    BY <1>1, <2>4 DEF TypeInv, BadBounded, MayStillLose, Idle
  <2> QED  BY <2>8, <2>9, <2>10 DEF TypeInv
<1>3. CASE CommitFails(c, s)
  <2>1. MayLose(c) /\ Leave(c, TRUE) /\ UNCHANGED << env, ghost >>
    BY <1>3 DEF CommitFails, Fail
  <2>2. c \in Reliable => bad'[c] <= MaxBad
    BY <2>1, LossAllowed DEF ghost
  <2> QED
    BY <1>1, <2>1, <2>2, TypeLeaves DEF TypeInv, TypeOK, env, ghost, Idle
<1> QED  BY <1>2, <1>3

LEMMA TypeProcessed ==
  ASSUME TypeInv, NEW c \in Certs, Processed(c)
  PROVE  /\ bad' \in [Certs -> 0..MaxBad + 1] /\ bad'[c] = 0
         /\ \A d \in Certs : d # c => bad'[d] = bad[d]
         /\ checked' \in [Certs -> BOOLEAN] /\ kept' \in [Certs -> BOOLEAN]
BY TimeAssumption DEF TypeInv, TypeOK, Processed

LEMMA TypeReload ==
  ASSUME TypeInv, NEW c \in Certs,
         NoReload(c) \/ CallReload(c) \/ ReloadOK(c) \/ ReloadFails(c)
  PROVE  TypeInv'
<1>0. pc \in {"written", "reload", "hung", "held"} /\ cur = c /\ ~Idle
  BY DEF NoReload, CallReload, ReloadOK, ReloadFails, Idle
<1>1. CASE Processed(c) /\ (Leave(c, FALSE) \/ Leave(c, TRUE)) /\ UNCHANGED << env, stale, told >>
  <2>1. /\ bad' \in [Certs -> 0..MaxBad + 1] /\ bad'[c] <= MaxBad
        /\ \A d \in Certs : d # c => bad'[d] = bad[d]
        /\ checked' \in [Certs -> BOOLEAN] /\ kept' \in [Certs -> BOOLEAN]
    BY <1>1, TypeProcessed, TimeAssumption
  <2>2. /\ UNCHANGED << config, disk, since >>
        /\ left' \in [Ids -> 0..Ttl] /\ names' \in [Ids -> SUBSET Names]
        /\ stored' \in [Certs -> Ids \cup {NoIssue}]
        /\ stale' \in [Certs -> BOOLEAN] /\ told' \in [Certs -> BOOLEAN]
    BY <1>1 DEF TypeInv, TypeOK, env
  <2> QED
    BY <1>0, <1>1, <2>1, <2>2, TypeLeaves
<1>2. CASE /\ Processed(c) /\ pc = "written" /\ pc' \in {"reload", "hung", "held"}
           /\ UNCHANGED << env, stale, told, opt, cur, got, todo, changed, failures, cancelled >>
  <2>1. /\ bad' \in [Certs -> 0..MaxBad + 1] /\ bad'[c] = 0
        /\ \A d \in Certs : d # c => bad'[d] = bad[d]
        /\ checked' \in [Certs -> BOOLEAN] /\ kept' \in [Certs -> BOOLEAN]
    BY <1>2, TypeProcessed
  <2>2. TypeOK'
    BY <1>0, <1>2, <2>1 DEF TypeInv, TypeOK, Labels, env
  <2>3. RunOK'
    BY <1>2 DEF TypeInv, RunOK, Cfg, env
  <2>4. ASSUME NEW d \in Reliable, ~MayStillLose(d)' PROVE bad'[d] <= MaxBad
    <3>1. CASE d = c
      BY <2>1, <3>1, TimeAssumption
    <3>2. CASE d # c
      BY <1>0, <1>2, <2>1, <2>4, <3>2, CertsAssumption DEF TypeInv, BadBounded, MayStillLose, Idle
    <3> QED  BY <3>1, <3>2
  <2>5. BadBounded'
    BY <1>2, <2>4 DEF TypeInv, BadBounded, Idle, env
  <2> QED  BY <2>2, <2>3, <2>5 DEF TypeInv
<1>3. CASE ReloadOK(c) \/ ReloadFails(c)
  <2>1. /\ pc \in {"reload", "hung", "held"}
        /\ Leave(c, FALSE) \/ Leave(c, TRUE)
        /\ UNCHANGED << env, bad, checked, kept, told >>
        /\ stale' = stale \/ stale' = [stale EXCEPT ![c] = FALSE]
    BY <1>3 DEF ReloadOK, ReloadFails, ghost
  <2>2. c \in Reliable => bad'[c] <= MaxBad
    BY <1>0, <2>1 DEF TypeInv, BadBounded, MayStillLose
  <2>3. stale' \in [Certs -> BOOLEAN]
    BY <2>1 DEF TypeInv, TypeOK
  <2> QED
    BY <1>0, <2>1, <2>2, <2>3, TypeLeaves DEF TypeInv, TypeOK, env
<1> QED
  BY <1>1, <1>2, <1>3 DEF NoReload, CallReload

LEMMA TypeMeddle ==
  ASSUME TypeInv, NEW c \in Certs, Meddle(c)
  PROVE  TypeInv'
<1>1. CASE Reconfigure(c)
  <2>1. PICK cfg \in Configs[c] : config' = [config EXCEPT ![c] = cfg]
    BY <1>1 DEF Reconfigure
  <2>2. /\ Idle /\ Disturb(c) /\ UNCHANGED << disk, left, names, stored, since, run >>
    BY <1>1 DEF Reconfigure
  <2>3. checked' \in [Certs -> BOOLEAN] /\ kept' \in [Certs -> BOOLEAN]
        /\ UNCHANGED << bad, stale, told >>
    BY <2>2 DEF TypeInv, TypeOK, Disturb
  <2>4. \A d \in Certs : config'[d] \in Configs[d]
    BY <2>1 DEF TypeInv, TypeOK, RunOK
  <2>5. TypeOK'
    BY <2>2, <2>3, <2>4 DEF TypeInv, TypeOK, run
  <2>6. RunOK'
    BY <2>1, <2>2 DEF TypeInv, TypeOK, RunOK, run, Idle
  <2>7. BadBounded'
    BY <2>2, <2>3 DEF TypeInv, BadBounded, MayStillLose, Idle, run
  <2> QED  BY <2>5, <2>6, <2>7 DEF TypeInv
<1>2. ASSUME NEW path \in Paths(c), Displace(c, path) \/ Reperm(c, path) PROVE TypeInv'
  <2>1. PICK f \in Files : disk' = [disk EXCEPT ![c][path] = f]
    <3>1. CASE Displace(c, path)
      <4>1. Cfg(c) \in Configs[c]
        BY DEF TypeInv, TypeOK, Cfg
      <4>2. Absent \in Files /\ File("special", << >>, NoPerms) \in Files
        BY <4>1, EmptyKnown DEF Absent
      <4> QED  BY <3>1, <4>2 DEF Displace
    <3>2. CASE Reperm(c, path)
      <4>1. PICK q \in OtherPerms : disk' = [disk EXCEPT ![c][path].perms = q]
        BY <3>2 DEF Reperm
      <4>2. disk[c][path] \in Files /\ q \in AllPerms
        BY DEF TypeInv, TypeOK, AllPerms
      <4>3. [disk[c][path] EXCEPT !.perms = q] \in Files
        BY <4>2 DEF Files
      <4>4. disk' = [disk EXCEPT ![c][path] = [disk[c][path] EXCEPT !.perms = q]]
        BY <4>1
      <4> QED  BY <4>3, <4>4
    <3> QED  BY <1>2, <3>1, <3>2
  <2>2. /\ DOMAIN disk' = Certs /\ disk' = [d \in Certs |-> disk'[d]]
        /\ \A d \in Certs : disk'[d] \in [Paths(d) -> Files]
    BY <1>2, <2>1, DiskUpdate
  <2>3. /\ Idle /\ UNCHANGED << config, left, names, stored, since, run, bad, stale, told >>
        /\ Disturb(c) \/ UNCHANGED << checked, kept >>
    BY <1>2 DEF Displace, Reperm, Disturb, ghost
  <2>4. checked' \in [Certs -> BOOLEAN] /\ kept' \in [Certs -> BOOLEAN]
    BY <2>3 DEF TypeInv, TypeOK, Disturb
  <2>5. TypeOK'
    BY <2>2, <2>3, <2>4 DEF TypeInv, TypeOK, run
  <2>6. RunOK'
    BY <2>2, <2>3 DEF TypeInv, RunOK, run, Cfg
  <2>7. BadBounded'
    BY <2>3 DEF TypeInv, BadBounded, MayStillLose, Idle, run
  <2> QED  BY <2>5, <2>6, <2>7 DEF TypeInv
<1> QED  BY <1>1, <1>2 DEF Meddle

LEMMA TypeStep == TypeInv /\ [Next]_vars => TypeInv'
<1>1. SUFFICES ASSUME TypeInv, [Next]_vars PROVE TypeInv'
  OBVIOUS
<1>2. CASE UNCHANGED vars
  BY <1>1, <1>2 DEF TypeInv, TypeOK, RunOK, BadBounded, MayStillLose, Idle, Cfg, vars, env, run, ghost
<1>3. ASSUME NEW c \in Certs, Process(c) PROVE TypeInv'
  BY <1>1, <1>3, TypeDecide, TypeFetch, TypeWrite, TypeReload DEF Process
<1> QED
  BY <1>1, <1>2, <1>3, TypeTick, TypeFinish, TypeStart, TypeInterrupted, TypeMeddle,
     Interruptions DEF Next

\* The state of the agent and of its environment stays within its types, and
\* a run that fetches, writes or reloads is at a cert of the config with the
\* material that step needs (renewer.go, Run and processCert).
THEOREM Typing == Spec => []TypeOK
<1>1. TypeInv => TypeOK
  BY DEF TypeInv
<1> QED  BY <1>1, TypeInit, TypeStep, PTL DEF Spec

(* -------------------------- Whole and told of -------------------------- *)

Laid(c, s) ==
  At(c, s) = File("regular", Content(Cfg(c), s, Material(c)), PermsOf(Cfg(c), s))

\* What a Write call has committed stays in place until the cert is left.
InPlace ==
  pc \in {"write", "written", "reload", "hung", "held"} =>
    \A s \in Declared(Cfg(cur)) \ todo : Laid(cur, s)

LEMMA ReloadSees == TypeInv /\ InPlace => ReloadSeesWholeSet
<1>1. SUFFICES ASSUME TypeInv, InPlace, pc \in {"written", "reload", "hung", "held"},
                      NEW s \in Declared(Cfg(cur))
               PROVE  Laid(cur, s)
  BY DEF ReloadSeesWholeSet, Laid
<1>2. todo = {}
  BY <1>1 DEF TypeInv, TypeOK
<1> QED  BY <1>1, <1>2 DEF InPlace

\* A commit lays its slot down, and leaves the other slots of the cert alone,
\* which are files of their own.
LEMMA CommitLays ==
  ASSUME TypeInv, NEW c \in Certs, NEW s \in AllSlots, Commit(c, s)
  PROVE  /\ disk'[c][PathOf(Cfg(c), s)] =
              File("regular", Content(Cfg(c), s, Material(c)), PermsOf(Cfg(c), s))
         /\ \A t \in Declared(Cfg(c)) \ {s} :
              disk'[c][PathOf(Cfg(c), t)] = disk[c][PathOf(Cfg(c), t)]
         /\ \A d \in Certs \ {c} : disk'[d] = disk[d]
<1>1. /\ pc = "write" /\ cur = c /\ s \in todo
      /\ s \in Declared(Cfg(c)) /\ PathOf(Cfg(c), s) \in Paths(c)
      /\ Cfg(c) \in Configs[c] /\ got \in Ids
  BY CommitSlot DEF Commit
<1> DEFINE f == File("regular", Content(Cfg(c), s, Material(c)), PermsOf(Cfg(c), s))
<1>2. f \in Files
  BY <1>1, ContentKnown, PermsKnown DEF Material, File, Files
<1>3. disk' = [disk EXCEPT ![c][PathOf(Cfg(c), s)] = f] /\ UNCHANGED << config, got >>
  BY DEF Commit
<1>4. /\ disk'[c][PathOf(Cfg(c), s)] = f
      /\ \A d \in Certs : d # c => disk'[d] = disk[d]
      /\ \A q \in Paths(c) : q # PathOf(Cfg(c), s) => disk'[c][q] = disk[c][q]
  BY <1>1, <1>2, <1>3, DiskUpdate
<1>5. ASSUME NEW t \in Declared(Cfg(c)) \ {s}
      PROVE  disk'[c][PathOf(Cfg(c), t)] = disk[c][PathOf(Cfg(c), t)]
  <2>1. PathOf(Cfg(c), t) \in Paths(c) /\ PathOf(Cfg(c), t) # PathOf(Cfg(c), s)
    BY <1>1, PathDeclared, ConfigAssumption
  <2> QED  BY <1>4, <2>1
<1> QED  BY <1>4, <1>5

LEMMA InPlaceStep == TypeInv /\ InPlace /\ [Next]_vars => InPlace'
<1>1. SUFFICES ASSUME TypeInv, InPlace, [Next]_vars,
                      pc' \in {"write", "written", "reload", "hung", "held"},
                      NEW s \in Declared(Cfg(cur)') \ todo'
               PROVE  Laid(cur, s)'
  BY DEF InPlace
<1>2. ASSUME pc \in {"write", "written", "reload", "hung", "held"}, todo' = todo,
             UNCHANGED << config, disk, cur, got >>
      PROVE  Laid(cur, s)'
  BY <1>1, <1>2 DEF InPlace, Laid, At, Cfg, Material
<1>3. CASE \E c \in Certs : Process(c)
  <2>1. PICK c \in Certs : Process(c)
    BY <1>3
  <2>2. CASE Fetch(c)
    BY <1>1, <2>2 DEF Fetch, Fetching, Cfg
  <2>3. ASSUME NEW t \in AllSlots, Commit(c, t) PROVE Laid(cur, s)'
    <3>1. /\ pc = "write" /\ cur = c /\ cur' = c /\ todo' = todo \ {t}
          /\ UNCHANGED << config, got >>
      BY <2>3 DEF Commit, Writing
    <3>2. CASE s = t
      BY <1>1, <2>3, <3>1, <3>2, CommitLays DEF Laid, At, Cfg, Material
    <3>3. CASE s # t
      <4>1. s \in Declared(Cfg(c)) \ todo /\ Laid(c, s)
        BY <1>1, <3>1, <3>3 DEF InPlace, Cfg
      <4>2. disk'[c][PathOf(Cfg(c), s)] = disk[c][PathOf(Cfg(c), s)]
        BY <1>1, <2>3, <3>3, <4>1, CommitLays
      <4> QED  BY <3>1, <4>1, <4>2 DEF Laid, At, Cfg, Material
    <3> QED  BY <3>2, <3>3
  <2>4. CASE CallReload(c)
    BY <1>1, <1>2, <2>4 DEF CallReload, Leave, env
  <2>5. CASE Skip(c) \/ DryRun(c) \/ Renew(c) \/ FetchFails(c) \/ NoReload(c)
             \/ ReloadOK(c) \/ ReloadFails(c) \/ \E t \in AllSlots : CommitFails(c, t)
    BY <1>1, <2>5 DEF Skip, DryRun, Renew, FetchFails, NoReload, ReloadOK, ReloadFails,
                      CommitFails, Fail, Leave
  <2> QED  BY <2>1, <2>2, <2>3, <2>4, <2>5 DEF Process
<1>4. CASE Tick \/ PipeCloses \/ Cancel \/ UNCHANGED vars
  BY <1>1, <1>2, <1>4 DEF Tick, PipeCloses, Cancel, vars, env, run
<1>5. CASE StartTimer \/ StartManual \/ LoginFails \/ Finish \/ KillRun
  BY <1>1, <1>5 DEF StartTimer, StartManual, LoginFails, Finish, KillRun, Reset, run, Idle
<1>6. CASE \E c \in Certs : Meddle(c)
  BY <1>1, <1>6 DEF Meddle, Reconfigure, Displace, Reperm, run, Idle
<1> QED  BY <1>1, <1>3, <1>4, <1>5, <1>6, Interruptions DEF Next

\* Whatever failed before, however files and configs were meddled with between
\* runs, and wherever signals fall, a consumer is told to reload only when every
\* file of its cert is in place (renewer.go, processCert: Write before Reload).
THEOREM ReloadSeesWholeSetHolds == Spec => []ReloadSeesWholeSet
<1>1. Init => InPlace
  BY DEF Init, InPlace
<1> QED  BY <1>1, TypeInit, TypeStep, InPlaceStep, ReloadSees, PTL DEF Spec

Reloading == {"reload", "hung", "held"}
Busy == {"write", "written"} \cup Reloading

\* What QuietIsSound says of a cert, with what a run has under way or has
\* counted as a failure, and will be told of, set apart.
QuietAt(c) ==
  /\ stale[c] => Cfg(c).reload
  /\ kept[c] /\ ~told[c] => Whole(c) \/ failures > 0 \/ (c = cur /\ pc = "write")
  /\ stale[c] /\ ~told[c] =>
       failures > 0 \/ (c = cur /\ pc \in Busy /\ (pc \in {"write", "written"} => changed))

Quiet == \A c \in Certs : QuietAt(c)

LEMMA QuietSuffices == TypeInv /\ Quiet => QuietIsSound
<1>1. SUFFICES ASSUME TypeInv, Quiet, Idle, NEW c \in Certs, kept[c], ~told[c]
               PROVE  Whole(c) /\ ~stale[c]
  BY DEF QuietIsSound
<1>2. ~(failures > 0)
  BY <1>1 DEF TypeInv, TypeOK, RunOK, BadBounded
<1>3. QuietAt(c)
  BY <1>1 DEF Quiet
<1> QED  BY <1>1, <1>2, <1>3 DEF QuietAt, Idle, Busy, Reloading

\* A step that leaves a cert's config and files alone, and does not end what the
\* run has under way for it, but by a failure.
LEMMA QuietFrame ==
  ASSUME NEW d \in Certs, QuietAt(d), config'[d] = config[d], disk'[d] = disk[d],
         kept'[d] => kept[d], stale'[d] => stale[d], told[d] => told'[d],
         failures > 0 => failures' > 0,
         d = cur /\ pc \in Busy =>
           \/ failures' > 0
           \/ /\ d = cur' /\ changed' = changed
              /\ pc' = pc \/ {pc, pc'} \subseteq Reloading
  PROVE  QuietAt(d)'
<1>1. Whole(d)' <=> Whole(d)
  BY DEF Whole, At, Cfg
<1>2. (stale[d] => Cfg(d).reload)'
  BY DEF QuietAt, Cfg
<1>3. ASSUME kept'[d], ~told'[d]
      PROVE  Whole(d)' \/ failures' > 0 \/ (d = cur' /\ pc' = "write")
  BY <1>1, <1>3 DEF QuietAt, Busy, Reloading
<1>4. ASSUME stale'[d], ~told'[d]
      PROVE  \/ failures' > 0
             \/ d = cur' /\ pc' \in Busy /\ (pc' \in {"write", "written"} => changed')
  BY <1>4 DEF QuietAt, Busy, Reloading
<1> QED  BY <1>2, <1>3, <1>4 DEF QuietAt

\* A run leaves a cert behind that is whole and whose consumer knows, or fails.
LEMMA QuietLeave ==
  ASSUME TypeInv, NEW c \in Certs, cur = c, NEW failed \in BOOLEAN, Leave(c, failed),
         stale'[c] => Cfg(c).reload, config' = config,
         failed \/ failures > 0 \/ (Whole(c)' /\ (stale'[c] => told'[c]))
  PROVE  QuietAt(c)'
<1>1. failures' > 0 \/ (Whole(c)' /\ (stale'[c] => told'[c]))
  BY DEF Leave, TypeInv, TypeOK
<1>2. (stale[c] => Cfg(c).reload)'
  BY DEF Cfg
<1> QED  BY <1>1, <1>2 DEF QuietAt

\* Material in place is a whole set.
LEMMA LaidWhole ==
  ASSUME TypeInv, NEW c \in Certs, cur = c, got \in Ids, \A s \in Declared(Cfg(c)) : Laid(c, s)
  PROVE  Whole(c)
<1>1. \A s \in Declared(Cfg(c)) :
        /\ At(c, s).kind = "regular"
        /\ At(c, s).content = Content(Cfg(c), s, [id |-> got, chain |-> Chain[Cfg(c).source]])
  BY DEF Laid, File, Material
<1> QED  BY <1>1 DEF Whole

LEMMA QuietCommit ==
  ASSUME TypeInv, InPlace, InPlace', TypeInv', ReloadKept, NEW c \in Certs, QuietAt(c),
         NEW s \in AllSlots, Commit(c, s)
  PROVE  QuietAt(c)'
<1> DEFINE same == At(c, s).kind = "regular" /\ At(c, s).content = Content(Cfg(c), s, Material(c))
<1>1. /\ pc = "write" /\ cur = c /\ cur' = c /\ pc' \in {"write", "written"}
      /\ UNCHANGED << config, failures, got, kept >> /\ changed' = (changed \/ ~same)
      /\ stale' = [stale EXCEPT ![c] = @ \/ (~same /\ Cfg(c).reload)]
      /\ told' = [told EXCEPT ![c] = @ /\ same]
  BY DEF Commit, Writing
<1>2. /\ stale'[c] = (stale[c] \/ (~same /\ Cfg(c).reload))
      /\ told'[c] = (told[c] /\ same)
  BY <1>1 DEF TypeInv, TypeOK
<1>3. (stale[c] => Cfg(c).reload)'
  BY <1>1, <1>2 DEF QuietAt, Cfg
<1>4. (Whole(c) \/ pc = "write")'
  <2>1. SUFFICES ASSUME pc' = "written" PROVE Whole(c)'
    BY <1>1
  <2>2. \A t \in Declared(Cfg(c))' : Laid(c, t)'
    BY <1>1, <2>1 DEF InPlace, TypeInv, TypeOK
  <2>3. got' \in Ids
    BY <2>1 DEF TypeInv, TypeOK
  <2>4. (\A t \in Declared(Cfg(c)) :
           /\ At(c, t).kind = "regular"
           /\ At(c, t).content = Content(Cfg(c), t, [id |-> got, chain |-> Chain[Cfg(c).source]]))'
    BY <2>2 DEF Laid, File, Material
  <2> QED  BY <2>3, <2>4 DEF Whole
<1>5. ASSUME stale'[c], ~told'[c] PROVE failures' > 0 \/ changed'
  BY <1>1, <1>2, <1>5 DEF QuietAt, Busy, Reloading
<1> QED  BY <1>1, <1>3, <1>4, <1>5 DEF QuietAt, Busy, Reloading

LEMMA QuietProcess ==
  ASSUME TypeInv, InPlace, TypeInv', InPlace', ReloadKept, NEW c \in Certs, QuietAt(c),
         Process(c)
  PROVE  QuietAt(c)'
<1>1. ASSUME NEW s \in AllSlots, Commit(c, s) PROVE QuietAt(c)'
  BY <1>1, QuietCommit
<1>2. CASE Skip(c) \/ DryRun(c)
  <2>1. /\ pc = "cert" /\ pc' = "cert" /\ failures' = failures
        /\ UNCHANGED << config, disk, kept, stale, told >>
    BY <1>2 DEF Skip, DryRun, Deciding, Leave, env, ghost
  <2> QED  BY <2>1, QuietFrame DEF Busy, Reloading
<1>3. CASE Renew(c) \/ Fetch(c)
  <2>1. /\ pc \in {"cert", "fetch"} /\ failures' = failures
        /\ UNCHANGED << config, disk, kept, stale, told >>
    BY <1>3 DEF Renew, Fetch, Deciding, Fetching, env, ghost
  <2> QED  BY <2>1, QuietFrame DEF Busy, Reloading
<1>4. CASE FetchFails(c) \/ ReloadFails(c) \/ \E s \in AllSlots : CommitFails(c, s)
  <2>1. failures' > 0 /\ UNCHANGED << config, disk, kept, stale, told >>
    BY <1>4 DEF FetchFails, ReloadFails, CommitFails, Fail, Leave, env, ghost, TypeInv, TypeOK
  <2> QED  BY <2>1, QuietFrame
<1>5. ASSUME pc = "written", cur = c PROVE Whole(c)
  <2>1. \A s \in Declared(Cfg(c)) : Laid(c, s)
    BY <1>5 DEF InPlace, TypeInv, TypeOK
  <2> QED  BY <1>5, <2>1, LaidWhole DEF TypeInv, TypeOK
<1>6. CASE NoReload(c)
  <2>1. /\ pc = "written" /\ cur = c /\ ~(changed /\ Cfg(c).reload) /\ Leave(c, FALSE)
        /\ UNCHANGED << config, disk, stale, told >>
    BY <1>6 DEF NoReload, env
  <2>2. Whole(c)'
    BY <1>5, <2>1 DEF Whole, At, Cfg
  <2>3. (stale[c] => Cfg(c).reload) /\ (stale[c] /\ ~told[c] => failures > 0)
    BY <2>1 DEF QuietAt
  <2> QED  BY <2>1, <2>2, <2>3, QuietLeave
<1>7. CASE CallReload(c)
  <2>1. /\ pc = "written" /\ cur = c /\ UNCHANGED << config, disk, stale, told >>
        /\ \/ Leave(c, TRUE)
           \/ pc' \in {"reload", "hung", "held"} /\ cur' = cur /\ failures' = failures
    BY <1>7 DEF CallReload, env
  <2>2. Whole(c)'
    BY <1>5, <2>1 DEF Whole, At, Cfg
  <2>3. (stale[c] => Cfg(c).reload)'
    BY <2>1 DEF QuietAt, Cfg
  <2>4. CASE Leave(c, TRUE)
    BY <2>1, <2>3, <2>4, QuietLeave DEF Cfg
  <2>5. CASE pc' \in {"reload", "hung", "held"} /\ cur' = cur /\ failures' = failures
    BY <2>1, <2>2, <2>3, <2>5 DEF QuietAt, Busy, Reloading
  <2> QED  BY <2>1, <2>4, <2>5
<1>8. CASE ReloadOK(c)
  <2>1. /\ pc = "reload" /\ cur = c /\ Leave(c, FALSE)
        /\ UNCHANGED << config, disk, kept, told >> /\ stale' = [stale EXCEPT ![c] = FALSE]
    BY <1>8 DEF ReloadOK, env
  <2>2. ~stale'[c]
    BY <2>1 DEF TypeInv, TypeOK
  <2>3. \A s \in Declared(Cfg(c)) : Laid(c, s)
    BY <2>1 DEF InPlace, TypeInv, TypeOK
  <2>4. Whole(c)'
    BY <2>1, <2>3, LaidWhole DEF TypeInv, TypeOK, Whole, At, Cfg
  <2> QED  BY <2>1, <2>2, <2>4, QuietLeave
<1> QED  BY <1>1, <1>2, <1>3, <1>4, <1>6, <1>7, <1>8 DEF Process

\* Another cert of the config is processed.
LEMMA QuietOther ==
  ASSUME TypeInv, NEW c \in Certs, Process(c), NEW d \in Certs \ {c}, QuietAt(d)
  PROVE  QuietAt(d)'
<1>1. d # cur /\ d \in Certs
  BY DEF Process, Skip, DryRun, Renew, Deciding, Fetch, FetchFails, Fetching, Commit,
         CommitFails, Writing, NoReload, CallReload, ReloadOK, ReloadFails
<1>2. failures > 0 => failures' > 0
  BY DEF Process, Skip, DryRun, Renew, Fetch, FetchFails, Commit, CommitFails, NoReload,
         CallReload, ReloadOK, ReloadFails, Fail, Leave, TypeInv, TypeOK
<1>3. /\ config' = config /\ disk'[d] = disk[d]
      /\ kept'[d] = kept[d] /\ stale'[d] = stale[d] /\ told'[d] = told[d]
  <2>1. ASSUME NEW s \in AllSlots, Commit(c, s)
        PROVE  /\ config' = config /\ disk'[d] = disk[d]
               /\ kept'[d] = kept[d] /\ stale'[d] = stale[d] /\ told'[d] = told[d]
    <3>1. disk'[d] = disk[d] BY <2>1, CommitLays
    <3> QED  BY <2>1, <3>1 DEF Commit, TypeInv, TypeOK
  <2>2. CASE ~\E s \in AllSlots : Commit(c, s)
    BY <2>2 DEF Process, Skip, DryRun, Renew, Fetch, FetchFails, CommitFails, NoReload,
                CallReload, ReloadOK, ReloadFails, Processed, TypeInv, TypeOK, env, ghost
  <2> QED  BY <2>1, <2>2
<1> QED  BY <1>1, <1>2, <1>3, QuietFrame

LEMMA QuietMeddle ==
  ASSUME TypeInv, ReloadKept, NEW c \in Certs, Meddle(c), NEW d \in Certs, QuietAt(d)
  PROVE  QuietAt(d)'
<1>1. Idle /\ UNCHANGED << stale, told, failures, cur, pc >>
  BY DEF Meddle, Reconfigure, Displace, Reperm, Disturb, run, ghost
<1>2. CASE Reconfigure(c)
  <2>1. PICK cfg \in Configs[c] : config' = [config EXCEPT ![c] = cfg]
    BY <1>2 DEF Reconfigure
  <2>2. disk' = disk /\ kept' = [kept EXCEPT ![c] = FALSE]
    BY <1>2 DEF Reconfigure, Disturb
  <2>3. CASE d # c
    BY <1>1, <2>1, <2>2, <2>3, QuietFrame DEF TypeInv, TypeOK, RunOK, Busy, Reloading, Idle
  <2>4. CASE d = c
    <3>1. config'[c] = cfg /\ config[c] \in Configs[c] /\ ~kept'[c]
      BY <2>1, <2>2 DEF TypeInv, TypeOK, RunOK
    <3>2. stale[c] => cfg.reload
      BY <2>4, <3>1 DEF QuietAt, Cfg, ReloadKept
    <3> QED  BY <1>1, <2>4, <3>1, <3>2 DEF QuietAt, Cfg, Busy, Reloading, Idle
  <2> QED  BY <2>3, <2>4
<1>3. ASSUME NEW path \in Paths(c), Displace(c, path) PROVE QuietAt(d)'
  <2>1. config' = config /\ kept' = [kept EXCEPT ![c] = FALSE]
    BY <1>3 DEF Displace, Disturb
  <2>2. \E f : disk' = [disk EXCEPT ![c][path] = f]
    BY <1>3 DEF Displace
  <2>3. CASE d # c
    BY <1>1, <2>1, <2>2, <2>3, QuietFrame DEF TypeInv, TypeOK, RunOK, Busy, Reloading, Idle
  <2>4. CASE d = c
    <3>1. ~kept'[c]
      BY <2>1 DEF TypeInv, TypeOK
    <3> QED  BY <1>1, <2>1, <2>4, <3>1 DEF QuietAt, Cfg, Busy, Reloading, Idle
  <2> QED  BY <2>3, <2>4
<1>4. ASSUME NEW path \in Paths(c), Reperm(c, path) PROVE QuietAt(d)'
  <2>1. UNCHANGED << config, kept >>
    BY <1>4 DEF Reperm, ghost
  <2>2. PICK q \in OtherPerms : disk' = [disk EXCEPT ![c][path].perms = q]
    BY <1>4 DEF Reperm
  <2>3. \A p : /\ disk'[d][p].kind = disk[d][p].kind
               /\ disk'[d][p].content = disk[d][p].content
    <3>1. disk[c][path] \in Files /\ path \in DOMAIN disk[c] /\ c \in DOMAIN disk
      BY DEF TypeInv, TypeOK, RunOK
    <3> QED  BY <2>2, <3>1 DEF Files
  <2>4. Whole(d)' <=> Whole(d)
    BY <2>1, <2>3 DEF Whole, At, Cfg
  <2> QED  BY <1>1, <2>1, <2>4 DEF QuietAt, Cfg, Busy, Reloading, Idle
<1> QED  BY <1>2, <1>3, <1>4 DEF Meddle

LEMMA QuietStep ==
  TypeInv /\ InPlace /\ ReloadKept /\ Quiet /\ [Next]_vars => Quiet'
<1>1. SUFFICES ASSUME TypeInv, InPlace, ReloadKept, Quiet, [Next]_vars, NEW d \in Certs
               PROVE  QuietAt(d)'
  BY DEF Quiet
<1>2. TypeInv' /\ InPlace' /\ QuietAt(d)
  BY <1>1, TypeStep, InPlaceStep DEF Quiet
<1>3. ASSUME NEW c \in Certs, Process(c) PROVE QuietAt(d)'
  BY <1>1, <1>2, <1>3, QuietProcess, QuietOther
<1>4. ASSUME NEW c \in Certs, Meddle(c) PROVE QuietAt(d)'
  BY <1>1, <1>2, <1>4, QuietMeddle
<1>5. CASE Tick \/ PipeCloses \/ Cancel \/ UNCHANGED vars
  <2>1. /\ UNCHANGED << config, disk, kept, stale, told, failures, cur, changed >>
        /\ pc' = pc \/ (pc = "held" /\ pc' = "reload")
    BY <1>5 DEF Tick, PipeCloses, Cancel, vars, env, run, ghost
  <2> QED  BY <1>2, <2>1, QuietFrame DEF Reloading
<1>6. CASE StartTimer \/ StartManual
  <2>1. /\ UNCHANGED << config, disk, kept, stale, told, failures >> /\ pc = "idle"
    BY <1>6 DEF StartTimer, StartManual, Idle, env, ghost
  <2> QED  BY <1>2, <2>1, QuietFrame DEF Busy, Reloading
<1>7. CASE LoginFails \/ KillRun
  <2>1. told'[d] /\ UNCHANGED << config, stale >>
    BY <1>7 DEF LoginFails, KillRun, env
  <2> QED  BY <1>2, <2>1 DEF QuietAt, Cfg
<1>8. CASE Finish
  <2>1. /\ pc = "cert" /\ UNCHANGED << config, disk, kept, stale >>
        /\ told'[d] <=> told[d] \/ failures > 0
    <3>1. /\ told' = [c \in Certs |-> told[c] \/ ExitCode # 0] /\ told[d] \in BOOLEAN
          /\ ExitCode # 0 <=> failures > 0
      BY <1>1, <1>8 DEF Finish, ExitCode, TypeInv, TypeOK
    <3>2. told'[d] = (told[d] \/ ExitCode # 0)
      BY <3>1
    <3>3. pc = "cert" /\ UNCHANGED << config, disk, kept, stale >>
      BY <1>8 DEF Finish, env
    <3> QED  BY <3>1, <3>2, <3>3
  <2>2. Whole(d)' <=> Whole(d)
    BY <2>1 DEF Whole, At, Cfg
  <2> QED  BY <1>2, <2>1, <2>2 DEF QuietAt, Cfg, Busy, Reloading
<1> QED  BY <1>1, <1>3, <1>4, <1>5, <1>6, <1>7, <1>8, Interruptions DEF Next

\* A lost write or a lost reload is never silent: files that are not one whole
\* set, and a consumer left on older ones, have made a run end in failure
\* (renewer.go:82-83, main.go's exit code 2).
THEOREM QuietIsSoundHolds == ReloadKept => (Spec => []QuietIsSound)
<1> SUFFICES ASSUME ReloadKept PROVE Spec => []QuietIsSound
  OBVIOUS
<1>1. Init => InPlace /\ Quiet
  <2>1. SUFFICES ASSUME Init PROVE InPlace /\ Quiet OBVIOUS
  <2> QED  BY <2>1 DEF Init, InPlace, Quiet, QuietAt
<1>2. Quiet /\ TypeInv => QuietIsSound
  BY QuietSuffices
<1>3. TypeInv /\ InPlace /\ Quiet /\ [Next]_vars => TypeInv' /\ InPlace' /\ Quiet'
  BY TypeStep, InPlaceStep, QuietStep
<1> QED  BY <1>1, <1>2, <1>3, TypeInit, PTL DEF Spec
(* ------------------ What the contents are made of ---------------------- *)

\* The blocks a file for issue i may hold.
Blocks(i) == { LeafBlock(i), KeyBlock(i), ChainBlock }

HasLeaf(content) == \E k \in 1..Len(content) : content[k].role = "leaf"

LeavesAre(content, i) ==
  \A k \in 1..Len(content) : content[k].role = "leaf" => content[k].id = i

MaterialOf(i, n) == [id |-> i, chain |-> n]

\* Among one issue's blocks, a leaf is the leaf of that issue.
LEMMA LeafOfIssue ==
  ASSUME NEW i, NEW content \in Seq(Blocks(i))
  PROVE  LeavesAre(content, i)
<1>1. SUFFICES ASSUME NEW k \in 1..Len(content), content[k].role = "leaf"
               PROVE  content[k].id = i
  BY DEF LeavesAre
<1>2. content[k] \in Blocks(i)
  OBVIOUS
<1>3. /\ LeafBlock(i).id = i
      /\ KeyBlock(i).role = "key"
      /\ ChainBlock.role = "chain"
  BY DEF LeafBlock, KeyBlock, ChainBlock
<1> QED  BY <1>1, <1>2, <1>3 DEF Blocks

\* Every part of a bundle is made of the issue's own blocks, and the cert part
\* is its leaf.
LEMMA PartBlocks ==
  ASSUME NEW i, NEW n \in Nat, NEW s \in {"cert", "ca", "key"}
  PROVE  /\ Part(s, MaterialOf(i, n)) \in Seq(Blocks(i))
         /\ s = "cert" => HasLeaf(Part(s, MaterialOf(i, n)))
<1> DEFINE m == MaterialOf(i, n)
<1>1. m.id = i /\ m.chain = n
  BY DEF MaterialOf
<1>2. CASE s = "cert"
  <2>1. Part(s, m) = << LeafBlock(i) >>
    BY <1>1, <1>2 DEF Part, Cert
  <2>2. LeafBlock(i).role = "leaf"
    BY DEF LeafBlock
  <2>3. << LeafBlock(i) >> \in Seq(Blocks(i)) /\ HasLeaf(<< LeafBlock(i) >>)
    BY <2>2 DEF Blocks, HasLeaf
  <2> QED  BY <2>1, <2>3
<1>3. CASE s = "key"
  <2>1. Part(s, m) = << KeyBlock(i) >>
    BY <1>1, <1>3 DEF Part, Key
  <2>2. << KeyBlock(i) >> \in Seq(Blocks(i))
    BY DEF Blocks
  <2> QED  BY <1>3, <2>1, <2>2
<1>4. CASE s = "ca"
  <2>1. Part(s, m) = [j \in 1..n |-> ChainBlock]
    BY <1>1, <1>4 DEF Part, CA
  <2>2. [j \in 1..n |-> ChainBlock] \in Seq(Blocks(i))
    BY DEF Blocks
  <2> QED  BY <1>4, <2>1, <2>2
<1> QED  BY <1>2, <1>3, <1>4

\* Concatenation keeps the blocks, and the leaf of either side.
LEMMA ConcatLeaf ==
  ASSUME NEW S, NEW a \in Seq(S), NEW b \in Seq(S)
  PROVE  /\ a \o b \in Seq(S)
         /\ HasLeaf(a) \/ HasLeaf(b) => HasLeaf(a \o b)
<1>1. a \o b \in Seq(S) /\ Len(a \o b) = Len(a) + Len(b)
  OBVIOUS
<1>2. ASSUME HasLeaf(a) PROVE HasLeaf(a \o b)
  <2>1. PICK k \in 1..Len(a) : a[k].role = "leaf"
    BY <1>2 DEF HasLeaf
  <2>2. k \in 1..Len(a \o b) /\ (a \o b)[k] = a[k]
    BY <1>1
  <2> QED  BY <2>1, <2>2 DEF HasLeaf
<1>3. ASSUME HasLeaf(b) PROVE HasLeaf(a \o b)
  <2>1. PICK k \in 1..Len(b) : b[k].role = "leaf"
    BY <1>3 DEF HasLeaf
  <2>2. Len(a) + k \in 1..Len(a \o b) /\ (a \o b)[Len(a) + k] = b[k]
    BY <1>1
  <2> QED  BY <2>1, <2>2 DEF HasLeaf
<1> QED  BY <1>1, <1>2, <1>3

\* Whatever the bundle order, the content of a slot is made of the blocks of
\* the one issue it was written for (writer.go, splitFiles and bundleParts).
LEMMA ContentBlocks ==
  ASSUME NEW i, NEW n \in Nat, NEW cfg, cfg.order \in BundleOrders, NEW s \in AllSlots
  PROVE  Content(cfg, s, MaterialOf(i, n)) \in Seq(Blocks(i))
<1> DEFINE m == MaterialOf(i, n)
<1>1. CASE s = "fullchain"
  <2>1. /\ Cert(m) = Part("cert", m)
        /\ CA(m) = Part("ca", m)
    BY DEF Part
  <2>2. Cert(m) \in Seq(Blocks(i)) /\ CA(m) \in Seq(Blocks(i))
    BY <2>1, PartBlocks
  <2>3. Cert(m) \o CA(m) \in Seq(Blocks(i))
    BY <2>2, ConcatLeaf
  <2> QED  BY <1>1, <2>3 DEF Content
<1>2. CASE s = "bundle"
  <2> DEFINE a == Part(cfg.order[1], m)
             b == Part(cfg.order[2], m)
             d == Part(cfg.order[3], m)
  <2>1. \A j \in 1..3 : cfg.order[j] \in {"cert", "ca", "key"}
    BY DEF BundleOrders
  <2>2. a \in Seq(Blocks(i)) /\ b \in Seq(Blocks(i)) /\ d \in Seq(Blocks(i))
    BY <2>1, PartBlocks
  <2>3. a \o b \in Seq(Blocks(i))
    BY <2>2, ConcatLeaf
  <2>4. (a \o b) \o d \in Seq(Blocks(i))
    BY <2>2, <2>3, ConcatLeaf
  <2> QED  BY <1>2, <2>4 DEF Content
<1>3. CASE s \in {"cert", "key", "ca"}
  <2>1. Content(cfg, s, m) = Part(s, m)
    BY <1>3 DEF Content
  <2> QED  BY <1>3, <2>1, PartBlocks
<1> QED  BY <1>1, <1>2, <1>3 DEF AllSlots, SplitSlots

\* The file ResolveLeafPath names is written with a leaf in it.
LEMMA LeafSlotHasLeaf ==
  ASSUME NEW i, NEW n \in Nat, NEW cfg, cfg.order \in BundleOrders, LeafSlot(cfg) # "none"
  PROVE  HasLeaf(Content(cfg, LeafSlot(cfg), MaterialOf(i, n)))
<1> DEFINE m == MaterialOf(i, n)
           s == LeafSlot(cfg)
<1>0. s \in {"bundle", "cert", "fullchain"}
  BY DEF LeafSlot
<1>1. CASE s = "fullchain"
  <2>1. Cert(m) = Part("cert", m) /\ CA(m) = Part("ca", m)
    BY DEF Part
  <2>2. /\ Cert(m) \in Seq(Blocks(i)) /\ CA(m) \in Seq(Blocks(i))
        /\ HasLeaf(Cert(m))
    BY <2>1, PartBlocks
  <2>3. HasLeaf(Cert(m) \o CA(m))
    BY <2>2, ConcatLeaf
  <2> QED  BY <1>1, <2>3 DEF Content
<1>2. CASE s = "bundle"
  <2> DEFINE a == Part(cfg.order[1], m)
             b == Part(cfg.order[2], m)
             d == Part(cfg.order[3], m)
  <2>1. /\ \A j \in 1..3 : cfg.order[j] \in {"cert", "ca", "key"}
        /\ cfg.order[1] = "cert" \/ cfg.order[2] = "cert" \/ cfg.order[3] = "cert"
    BY DEF BundleOrders
  <2>2. a \in Seq(Blocks(i)) /\ b \in Seq(Blocks(i)) /\ d \in Seq(Blocks(i))
    BY <2>1, PartBlocks
  <2>3. HasLeaf(a) \/ HasLeaf(b) \/ HasLeaf(d)
    BY <2>1, PartBlocks
  <2>4. a \o b \in Seq(Blocks(i)) /\ (HasLeaf(a) \/ HasLeaf(b) => HasLeaf(a \o b))
    BY <2>2, ConcatLeaf
  <2>5. HasLeaf((a \o b) \o d)
    BY <2>2, <2>3, <2>4, ConcatLeaf
  <2> QED  BY <1>2, <2>5 DEF Content
<1>3. CASE s = "cert"
  <2>1. Content(cfg, s, m) = Part("cert", m)
    BY <1>3 DEF Content
  <2> QED  BY <2>1, PartBlocks
<1> QED  BY <1>0, <1>1, <1>2, <1>3

(* ---------------- The leaf that the consumers are served --------------- *)

\* What is at a path was written there for some config and some issue.
Provenance ==
  \A c \in Certs : \A p \in Paths(c) : disk[c][p].content # << >> =>
    \E cfg \in Configs[c], s \in AllSlots, i \in Ids :
      /\ s \in Declared(cfg) /\ PathOf(cfg, s) = p
      /\ disk[c][p].content = Content(cfg, s, MaterialOf(i, Chain[cfg.source]))

\* Issue i is the one leaf in cert c's leaf file.
Serves(c, i) == HasLeaf(LeafFile(c).content) /\ LeavesAre(LeafFile(c).content, i)

\* The leaf outlives Lapse, counted from the start of the first run that has
\* not processed the cert.
Lasts(c, i) == left[i] + since + Interval * bad[c] > Lapse

\* What was fetched lasts, and is in the leaf file once its slot is committed.
GotLasts ==
  pc \in {"write", "written"} =>
    /\ left[got] + since > Lapse
    /\ LeafSlot(Cfg(cur)) \in todo \/ Serves(cur, got)

CheckedLasts ==
  \A c \in Reliable : checked[c] => \E i \in Ids : Serves(c, i) /\ Lasts(c, i)

LeafInv == TypeInv /\ Provenance /\ GotLasts /\ CheckedLasts

(* ----------------------------- Arithmetic ------------------------------ *)

LEMMA ProductNat == ASSUME NEW a \in Nat, NEW b \in Nat PROVE a * b \in Nat
OBVIOUS

LEMMA ProductMonotonic ==
  ASSUME NEW a \in Nat, NEW b \in Nat, NEW d \in Nat, b <= d
  PROVE  a * b <= a * d
OBVIOUS

LEMMA LapseNat == Lapse \in Nat
<1>1. Interval \in Nat /\ MaxBad + 1 \in Nat /\ RunMax \in Nat
  BY TimeAssumption
<1>2. Interval * (MaxBad + 1) \in Nat
  BY <1>1, ProductNat
<1> QED  BY <1>1, <1>2 DEF Lapse

(* ---------------------------- What a file says ------------------------- *)

\* The content Write derives from a fetched issue serves that issue's leaf.
LEMMA LeafContent ==
  ASSUME NEW c \in Certs, NEW cfg \in Configs[c], NEW i \in Ids
  PROVE  LET content == Content(cfg, LeafSlot(cfg), MaterialOf(i, Chain[cfg.source]))
         IN  HasLeaf(content) /\ LeavesAre(content, i)
<1>1. /\ cfg.order \in BundleOrders /\ Chain[cfg.source] \in Nat
      /\ LeafSlot(cfg) # "none"
  BY ConfigAssumption
<1>2. LeafSlot(cfg) \in AllSlots
  BY LeafDeclared, PathDeclared
<1> QED  BY <1>1, <1>2, ContentBlocks, LeafOfIssue, LeafSlotHasLeaf

\* The leaf a cert serves is in use: the clock runs for it.
LEMMA ServedInUse ==
  ASSUME TypeInv, NEW c \in Certs, NEW i \in Ids, Serves(c, i)
  PROVE  i \in InUse
<1> DEFINE p == PathOf(Cfg(c), LeafSlot(Cfg(c)))
<1>1. p \in Paths(c) /\ LeafFile(c) = disk[c][p]
  BY LeafFileOK DEF TypeInv, LeafFile, At
<1>2. PICK k \in 1..Len(LeafFile(c).content) : LeafFile(c).content[k].role = "leaf"
  BY DEF Serves, HasLeaf
<1>3. LeafFile(c).content[k].id = i
  BY <1>2 DEF Serves, LeavesAre
<1>4. i \in IdsIn(disk[c][p])
  BY <1>1, <1>3 DEF IdsIn
<1> QED  BY <1>1, <1>4 DEF InUse

\* A file decide finds fresh serves a leaf that outlives Lapse.
LEMMA FreshLasts ==
  ASSUME WindowOpen, LeafFirst, TypeInv, Provenance, NEW c \in Certs, LooksFresh(c)
  PROVE  \E i \in Ids : Serves(c, i) /\ left[i] > Lapse
<1> DEFINE f == LeafFile(c)
           p == PathOf(Cfg(c), LeafSlot(Cfg(c)))
<1>1. /\ p \in Paths(c) /\ f = disk[c][p] /\ Cfg(c) \in Configs[c]
  BY LeafFileOK DEF TypeInv, TypeOK, LeafFile, At, Cfg
<1>2. /\ f.content # << >> /\ IsCert(Head(f.content)) /\ ~BlockDue(Head(f.content))
  BY DEF LooksFresh, LoadLeafOK, StartsWithCert, First
<1>3. PICK cfg \in Configs[c], s \in AllSlots, i \in Ids :
        /\ s \in Declared(cfg) /\ PathOf(cfg, s) = p
        /\ f.content = Content(cfg, s, MaterialOf(i, Chain[cfg.source]))
  BY <1>1, <1>2 DEF Provenance
<1>4. Head(f.content).role = "leaf"
  BY <1>1, <1>2, <1>3 DEF LeafFirst, MaterialOf
<1>5. f.content \in Seq(Blocks(i)) /\ LeavesAre(f.content, i)
  BY <1>3, ConfigAssumption, ContentBlocks, LeafOfIssue
<1>6. 1 \in 1..Len(f.content) /\ f.content[1] = Head(f.content)
  BY <1>2, <1>5
<1>7. Serves(c, i) /\ Head(f.content).id = i
  BY <1>4, <1>5, <1>6 DEF Serves, HasLeaf, LeavesAre
<1>8. ~Due(left[i])
  BY <1>2, <1>4, <1>7 DEF BlockDue
<1>9. left[i] > Lapse
  <2>1. left[i] \in Nat /\ Num \in Nat /\ Ttl \in Nat /\ Den \in Nat
    BY TimeAssumption DEF TypeInv, TypeOK
  <2>2. Den * left[i] \in Nat /\ Num * Ttl \in Nat /\ Den * Lapse \in Nat
    BY <2>1, LapseNat, ProductNat
  <2>3. Den * left[i] > Num * Ttl
    BY <1>8, <2>2 DEF Due
  <2>4. Den * Lapse <= Num * Ttl
    BY DEF WindowOpen
  <2>5. left[i] <= Lapse => Den * left[i] <= Den * Lapse
    BY <2>1, LapseNat, ProductMonotonic
  <2> QED  BY <2>1, <2>2, <2>3, <2>4, <2>5, LapseNat
<1> QED  BY <1>7, <1>9

(* ------------------------------ Timing --------------------------------- *)

\* No leaf in use loses more life than the clock shows.
Aging == \A i \in Ids \cap InUse : left'[i] + since' >= left[i] + since

\* Cert c serves what it served, and its count of lost runs stands.
Untouched(c) == /\ checked'[c] => checked[c]
                /\ Cfg(c)' = Cfg(c)
                /\ LeafFile(c)'.content = LeafFile(c).content
                /\ bad'[c] = bad[c]

LEMMA StillLasts ==
  ASSUME TypeInv, TypeInv', CheckedLasts, NEW c \in Reliable, Untouched(c), Aging, checked'[c]
  PROVE  \E i \in Ids : Serves(c, i)' /\ Lasts(c, i)'
<1>0. c \in Certs
  BY CertsAssumption
<1>1. PICK i \in Ids : Serves(c, i) /\ Lasts(c, i)
  BY DEF CheckedLasts, Untouched
<1>2. Serves(c, i)'
  BY <1>1 DEF Serves, Untouched
<1>3. left'[i] + since' >= left[i] + since
  BY <1>0, <1>1, ServedInUse DEF Aging
<1>4. /\ left[i] \in Nat /\ left'[i] \in Nat /\ since \in Nat /\ since' \in Nat
      /\ Interval \in Nat /\ bad[c] \in Nat
  BY <1>0, TimeAssumption DEF TypeInv, TypeOK
<1> DEFINE slack == Interval * bad[c]
<1>5. slack \in Nat
  BY <1>4, ProductNat
<1>6. left[i] + since + slack > Lapse /\ bad'[c] = bad[c]
  BY <1>1 DEF Lasts, Untouched
<1>7. left'[i] + since' + slack > Lapse
  <2> HIDE DEF slack
  <2> QED  BY <1>3, <1>4, <1>5, <1>6, LapseNat
<1>8. Lasts(c, i)'
  BY <1>6, <1>7 DEF Lasts
<1> QED  BY <1>2, <1>8

LEMMA AgingTick == TypeInv /\ Tick => Aging
BY TimeAssumption DEF TypeInv, TypeOK, Tick, Aging

LEMMA AgingServe ==
  ASSUME TypeInv, NEW c \in Certs, NEW i \in Ids, Serve(c, i), since' = since
  PROVE  Aging
<1>1. \A j \in Ids \cap InUse : left'[j] = left[j]
  BY DEF Serve, Issue, TypeInv, TypeOK
<1> QED  BY <1>1, TimeAssumption DEF Aging, TypeInv, TypeOK

\* What a request returns outlives Lapse.
LEMMA ServedLasts ==
  ASSUME WindowOpen, TypeInv, NEW c \in Certs, NEW i \in Ids, Serve(c, i)
  PROVE  left'[i] > Lapse
<1>1. /\ ServeMin > Lapse /\ Ttl >= ServeMin /\ ServeMin \in Nat /\ Ttl \in Nat
      /\ Lapse \in Nat /\ left \in [Ids -> 0..Ttl]
  BY TimeAssumption, LapseNat DEF WindowOpen, TypeInv, TypeOK
<1>2. ASSUME NEW ns, Issue(i, ns) PROVE left'[i] > Lapse
  BY <1>1, <1>2 DEF Issue
<1>3. CASE Answers(c) /\ i = stored[c] /\ UNCHANGED << left, names, stored >>
  BY <1>1, <1>3 DEF Answers
<1> QED  BY <1>2, <1>3 DEF Serve

(* ------------------------------- Commits ------------------------------- *)

\* A commit puts the fetched leaf in the leaf file, or leaves that file alone.
LEMMA CommitLeaf ==
  ASSUME TypeInv, NEW c \in Certs, NEW s \in AllSlots, Commit(c, s)
  PROVE  /\ s = LeafSlot(Cfg(c)) => Serves(c, got)'
         /\ s # LeafSlot(Cfg(c)) => LeafFile(c)' = LeafFile(c)
         /\ \A d \in Certs : d # c => LeafFile(d)' = LeafFile(d)
         /\ Cfg(c) \in Configs[c] /\ s \in Declared(Cfg(c)) /\ got \in Ids
         /\ disk'[c][PathOf(Cfg(c), s)].content
              = Content(Cfg(c), s, MaterialOf(got, Chain[Cfg(c).source]))
         /\ \A q \in Paths(c) : q # PathOf(Cfg(c), s) => disk'[c][q] = disk[c][q]
         /\ \A d \in Certs : d # c => disk'[d] = disk[d]
<1> DEFINE p == PathOf(Cfg(c), s)
           bytes == Content(Cfg(c), s, MaterialOf(got, Chain[Cfg(c).source]))
           f == File("regular", bytes, PermsOf(Cfg(c), s))
           slot == LeafSlot(Cfg(c))
<1>1. /\ s \in Declared(Cfg(c)) /\ p \in Paths(c) /\ Cfg(c) \in Configs[c] /\ got \in Ids
  BY CommitSlot DEF Commit
<1>2. disk' = [disk EXCEPT ![c][p] = f] /\ UNCHANGED << config, got >>
  BY DEF Commit, Material, MaterialOf
<1>3. f \in Files /\ f.content = bytes
  BY <1>1, ContentKnown, PermsKnown DEF File, Files, MaterialOf
<1>4. /\ \A d \in Certs : d # c => disk'[d] = disk[d]
      /\ disk'[c][p] = f
      /\ \A q \in Paths(c) : q # p => disk'[c][q] = disk[c][q]
  BY <1>1, <1>2, <1>3, DiskUpdate
<1>5. \A d \in Certs : Cfg(d)' = Cfg(d)
  BY <1>2 DEF Cfg
<1>6. ASSUME s = slot PROVE Serves(c, got)'
  <2>1. LeafFile(c)'.content = bytes
    BY <1>3, <1>4, <1>5, <1>6 DEF LeafFile, At
  <2>2. HasLeaf(bytes) /\ LeavesAre(bytes, got)
    BY <1>1, <1>6, LeafContent
  <2> QED  BY <1>2, <2>1, <2>2 DEF Serves
<1>7. ASSUME s # slot PROVE LeafFile(c)' = LeafFile(c)
  <2>1. slot \in Declared(Cfg(c)) /\ PathOf(Cfg(c), slot) \in Paths(c)
    BY <1>1, LeafDeclared, PathDeclared
  <2>2. PathOf(Cfg(c), slot) # p
    BY <1>1, <1>7, <2>1, ConfigAssumption
  <2> QED  BY <1>4, <1>5, <2>1, <2>2 DEF LeafFile, At
<1>8. \A d \in Certs : d # c => LeafFile(d)' = LeafFile(d)
  BY <1>4, <1>5 DEF LeafFile, At
<1> QED  BY <1>1, <1>3, <1>4, <1>6, <1>7, <1>8

(* ---------------------------- Preservation ----------------------------- *)

LEMMA ProvenanceStep == TypeInv /\ Provenance /\ [Next]_vars => Provenance'
<1>1. SUFFICES ASSUME TypeInv, Provenance, [Next]_vars PROVE Provenance'
  OBVIOUS
<1>2. CASE UNCHANGED disk
  BY <1>1, <1>2 DEF Provenance
<1>3. ASSUME NEW c \in Certs, NEW s \in AllSlots, Commit(c, s) PROVE Provenance'
  <2> DEFINE p == PathOf(Cfg(c), s)
  <2>1. /\ Cfg(c) \in Configs[c] /\ s \in Declared(Cfg(c)) /\ got \in Ids
        /\ disk'[c][p].content = Content(Cfg(c), s, MaterialOf(got, Chain[Cfg(c).source]))
        /\ \A q \in Paths(c) : q # p => disk'[c][q] = disk[c][q]
        /\ \A d \in Certs : d # c => disk'[d] = disk[d]
    BY <1>1, <1>3, CommitLeaf
  <2>2. SUFFICES ASSUME NEW d \in Certs, NEW q \in Paths(d), disk'[d][q].content # << >>
                 PROVE  \E cfg \in Configs[d], t \in AllSlots, i \in Ids :
                          /\ t \in Declared(cfg) /\ PathOf(cfg, t) = q
                          /\ disk'[d][q].content = Content(cfg, t, MaterialOf(i, Chain[cfg.source]))
    BY DEF Provenance
  <2>3. CASE d = c /\ q = p
    BY <2>1, <2>3
  <2>4. CASE ~(d = c /\ q = p)
    <3>1. disk'[d][q] = disk[d][q]
      BY <2>1, <2>4
    <3> QED  BY <1>1, <2>2, <3>1 DEF Provenance
  <2> QED  BY <2>3, <2>4
<1>4. ASSUME NEW c \in Certs, NEW p \in Paths(c), Displace(c, p) \/ Reperm(c, p)
      PROVE  Provenance'
  <2>1. \A d \in Certs : disk[d] \in [Paths(d) -> Files]
    BY <1>1 DEF TypeInv, TypeOK
  <2>2. /\ \A d \in Certs : d # c => disk'[d] = disk[d]
        /\ \A q \in Paths(c) : q # p => disk'[c][q] = disk[c][q]
        /\ disk'[c][p].content = << >> \/ disk'[c][p].content = disk[c][p].content
    BY <1>1, <1>4, <2>1 DEF Displace, Reperm, Absent, File, Files, TypeInv, RunOK
  <2> QED  BY <1>1, <2>2 DEF Provenance
<1>5. \/ UNCHANGED disk
      \/ \E c \in Certs, s \in AllSlots : Commit(c, s)
      \/ \E c \in Certs : \E p \in Paths(c) : Displace(c, p) \/ Reperm(c, p)
  <2>1. ASSUME NEW c \in Certs, Process(c)
        PROVE  UNCHANGED disk \/ \E s \in AllSlots : Commit(c, s)
    BY <2>1 DEF Process, Skip, DryRun, Renew, Fetch, FetchFails, CommitFails, NoReload,
                CallReload, ReloadOK, ReloadFails, env
  <2>2. ASSUME NEW c \in Certs, Meddle(c)
        PROVE  UNCHANGED disk \/ \E p \in Paths(c) : Displace(c, p) \/ Reperm(c, p)
    BY <2>2 DEF Meddle, Reconfigure
  <2>3. CASE Tick \/ StartTimer \/ StartManual \/ LoginFails \/ Finish
             \/ PipeCloses \/ Cancel \/ KillRun
    BY <2>3 DEF Tick, StartTimer, StartManual, LoginFails, Finish, PipeCloses,
                Cancel, KillRun, env
  <2> QED  BY <1>1, <2>1, <2>2, <2>3, Interruptions DEF Next, vars, env
<1> QED  BY <1>2, <1>3, <1>4, <1>5

LEMMA GotStep == WindowOpen /\ TypeInv /\ GotLasts /\ [Next]_vars => GotLasts'
<1>1. SUFFICES ASSUME WindowOpen, TypeInv, GotLasts, [Next]_vars, pc' \in {"write", "written"}
               PROVE  GotLasts'
  BY DEF GotLasts
<1>2. CASE /\ pc \in {"write", "written"} /\ Aging
           /\ UNCHANGED << config, disk, got, todo, cur >>
  <2>1. got \in Ids /\ got \in InUse
    BY <1>1, <1>2 DEF TypeInv, TypeOK, InUse
  <2>2. left'[got] + since' > Lapse
    <3>1. left'[got] + since' >= left[got] + since /\ left[got] + since > Lapse
      BY <1>1, <1>2, <2>1 DEF Aging, GotLasts
    <3>2. /\ left[got] \in Nat /\ since \in Nat /\ left'[got] \in Nat /\ since' \in Nat
      BY <1>1, <2>1, TypeStep, TimeAssumption DEF TypeInv, TypeOK
    <3> QED  BY <3>1, <3>2, LapseNat
  <2>3. LeafSlot(Cfg(cur)) \in todo \/ Serves(cur, got)
    BY <1>1, <1>2 DEF GotLasts
  <2>4. (LeafSlot(Cfg(cur)) \in todo \/ Serves(cur, got))'
    BY <1>2, <2>3 DEF Serves, LeafFile, At, Cfg
  <2> QED  BY <1>2, <2>2, <2>4 DEF GotLasts
<1>3. ASSUME NEW c \in Certs, Fetch(c) PROVE GotLasts'
  <2>1. PICK i \in Ids : Serve(c, i) /\ got' = i
    BY <1>3 DEF Fetch
  <2>2. left'[i] > Lapse
    BY <1>1, <2>1, ServedLasts
  <2>3. since' \in Nat /\ left'[i] \in Nat
    BY <1>1, TypeStep, TimeAssumption DEF TypeInv, TypeOK
  <2>4. Cfg(cur)' \in Configs[c] /\ todo' = Declared(Cfg(cur)')
    BY <1>1, <1>3 DEF Fetch, Fetching, TypeInv, TypeOK, Cfg
  <2>5. LeafSlot(Cfg(cur)') \in todo'
    BY <2>4, LeafDeclared
  <2> QED  BY <2>1, <2>2, <2>3, <2>5, LapseNat DEF GotLasts
<1>4. ASSUME NEW c \in Certs, NEW s \in AllSlots, Commit(c, s) PROVE GotLasts'
  <2>1. /\ pc = "write" /\ cur = c
        /\ UNCHANGED << config, left, since, cur, got >> /\ todo' = todo \ {s}
    BY <1>4 DEF Commit, Writing
  <2>2. left[got] + since > Lapse /\ (LeafSlot(Cfg(c)) \in todo \/ Serves(c, got))
    BY <1>1, <2>1 DEF GotLasts
  <2>3. CASE s = LeafSlot(Cfg(c))
    BY <1>1, <1>4, <2>1, <2>2, <2>3, CommitLeaf DEF GotLasts
  <2>4. CASE s # LeafSlot(Cfg(c))
    <3>1. LeafFile(c)' = LeafFile(c)
      BY <1>1, <1>4, <2>4, CommitLeaf
    <3>2. (LeafSlot(Cfg(c)) \in todo \/ Serves(c, got))'
      BY <2>1, <2>2, <2>4, <3>1 DEF Serves, Cfg
    <3> QED  BY <2>1, <2>2, <3>2 DEF GotLasts, Cfg
  <2> QED  BY <2>3, <2>4
<1>5. CASE UNCHANGED vars
  BY <1>1, <1>2, <1>5, TimeAssumption DEF vars, env, run, Aging, TypeInv, TypeOK
<1>6. CASE Tick
  BY <1>1, <1>2, <1>6, AgingTick DEF Tick, run
<1>7. CASE PipeCloses \/ Cancel
  BY <1>1, <1>2, <1>7, TimeAssumption DEF PipeCloses, Cancel, env, Aging, TypeInv, TypeOK
<1>8. ASSUME NEW c \in Certs, Process(c) PROVE GotLasts'
  <2>1. \/ Fetch(c) \/ \E s \in AllSlots : Commit(c, s)
    BY <1>1, <1>8 DEF Process, Skip, DryRun, Renew, FetchFails, CommitFails, NoReload,
                CallReload, ReloadOK, ReloadFails, Fail, Leave
  <2> QED  BY <1>3, <1>4, <2>1
<1>9. ASSUME NEW c \in Certs, Meddle(c) PROVE FALSE
  BY <1>1, <1>9 DEF Meddle, Reconfigure, Displace, Reperm, Idle, run
<1>10. ~(StartTimer \/ StartManual \/ LoginFails \/ Finish \/ KillRun)
  BY <1>1 DEF StartTimer, StartManual, LoginFails, Finish, KillRun, Reset, run, Idle
<1> QED
  BY <1>1, <1>5, <1>6, <1>7, <1>8, <1>9, <1>10, Interruptions DEF Next

\* A run counts against a cert before it is processed: Interval more for the
\* leaf to last, which the clock starting again takes off.
LEMMA StartedLasts ==
  ASSUME TypeInv, CheckedLasts, NEW c \in Reliable, checked[c],
         UNCHANGED << config, disk, left >>, since' = 0, bad'[c] = Started(c)
  PROVE  \E i \in Ids : Serves(c, i)' /\ Lasts(c, i)'
<1>0. c \in Certs
  BY CertsAssumption
<1>1. PICK i \in Ids : Serves(c, i) /\ Lasts(c, i)
  BY DEF CheckedLasts
<1>2. Serves(c, i)'
  BY <1>1 DEF Serves, LeafFile, At, Cfg
<1>3. /\ left[i] \in Nat /\ since \in Nat /\ since <= Interval
      /\ Interval \in Nat /\ bad[c] \in Nat
  BY <1>0, TimeAssumption DEF TypeInv, TypeOK
<1> DEFINE slack == Interval * bad[c]
           more == Interval * (bad[c] + 1)
<1>4. slack \in Nat /\ more = slack + Interval
  BY <1>3, ProductNat
<1>5. left[i] + since + slack > Lapse /\ bad'[c] = bad[c] + 1
  BY <1>1 DEF Lasts, Started
<1>6. left'[i] + since' + more > Lapse
  <2> HIDE DEF slack, more
  <2> QED  BY <1>3, <1>4, <1>5, LapseNat
<1>7. Lasts(c, i)'
  BY <1>5, <1>6 DEF Lasts
<1> QED  BY <1>2, <1>7

\* Whatever lasts without slack lasts with any.
LEMMA LastsAnyway ==
  ASSUME TypeInv, NEW c \in Certs, NEW i \in Ids, left[i] + since > Lapse
  PROVE  Lasts(c, i)
<1>1. /\ left[i] \in Nat /\ since \in Nat /\ Interval \in Nat /\ bad[c] \in Nat
  BY TimeAssumption DEF TypeInv, TypeOK
<1> DEFINE slack == Interval * bad[c]
<1>2. slack \in Nat
  BY <1>1, ProductNat
<1>3. left[i] + since + slack > Lapse
  <2> HIDE DEF slack
  <2> QED  BY <1>1, <1>2, LapseNat
<1> QED  BY <1>3 DEF Lasts

\* The material written is what the cert serves when it has been processed.
LEMMA ProcessedLasts ==
  ASSUME TypeInv, TypeInv', GotLasts, NEW c \in Certs,
         pc = "written", cur = c, Processed(c), UNCHANGED env
  PROVE  \E i \in Ids : Serves(c, i)' /\ Lasts(c, i)'
<1>1. got \in Ids /\ todo = {} /\ left[got] + since > Lapse
  BY DEF TypeInv, TypeOK, GotLasts
<1>2. Serves(c, got)
  BY <1>1 DEF GotLasts
<1>3. HasLeaf(LeafFile(c)'.content) /\ LeavesAre(LeafFile(c)'.content, got)
  BY <1>2 DEF Serves, LeafFile, At, Cfg, env
<1>4. /\ left[got] \in Nat /\ since \in Nat /\ Interval \in Nat /\ bad'[c] \in Nat
      /\ left' = left /\ since' = since
  BY <1>1, TimeAssumption DEF TypeInv, TypeOK, env
<1> DEFINE slack == Interval * bad'[c]
<1>5. slack \in Nat
  BY <1>4, ProductNat
<1>6. left[got] + since + slack > Lapse
  <2> HIDE DEF slack
  <2> QED  BY <1>1, <1>4, <1>5, LapseNat
<1>7. \E j \in Ids : /\ HasLeaf(LeafFile(c)'.content) /\ LeavesAre(LeafFile(c)'.content, j)
                     /\ left'[j] + since' + slack > Lapse
  BY <1>1, <1>3, <1>4, <1>6
<1> QED  BY <1>7 DEF Serves, Lasts

LEMMA CheckedStep ==
  ASSUME WindowOpen, LeafFirst, LeafInv, [Next]_vars
  PROVE  CheckedLasts'
<1>0. /\ TypeInv /\ TypeInv' /\ CheckedLasts /\ GotLasts /\ Provenance
      /\ Reliable \subseteq Certs
  BY TypeStep, CertsAssumption DEF LeafInv
<1> DEFINE Kept(c) == checked'[c] => \E i \in Ids : Serves(c, i)' /\ Lasts(c, i)'
<1>1. SUFFICES ASSUME NEW c \in Reliable PROVE Kept(c)
  BY DEF CheckedLasts
<1>2. c \in Certs
  BY <1>0
<1>3. ASSUME Untouched(c), Aging PROVE Kept(c)
  BY <1>0, <1>3, StillLasts
<1>4. ASSUME UNCHANGED << left, since >> PROVE Aging
  BY <1>0, <1>4, TimeAssumption DEF Aging, TypeInv, TypeOK
<1>5. CASE UNCHANGED << config, disk, left, since, bad, checked >>
  BY <1>3, <1>4, <1>5 DEF Untouched, LeafFile, At, Cfg
<1>6. CASE Tick
  BY <1>0, <1>3, <1>6, AgingTick DEF Tick, ghost, Untouched, LeafFile, At, Cfg
<1>7. CASE StartTimer \/ LoginFails
  BY <1>0, <1>2, <1>7, StartedLasts DEF StartTimer, LoginFails
<1>8. ASSUME NEW d \in Certs, Process(d) PROVE Kept(c)
  <2>1. CASE Skip(d)
    <3>1. UNCHANGED env /\ Aging
      BY <1>4, <2>1 DEF Skip, env
    <3>2. CASE d # c \/ opt = "dry"
      <4>1. Untouched(c)
        BY <1>0, <1>2, <2>1, <3>1, <3>2
        DEF Skip, env, Untouched, LeafFile, At, Cfg, TypeInv, TypeOK
      <4> QED  BY <1>3, <3>1, <4>1
    <3>3. CASE d = c /\ opt # "dry"
      <4>1. LooksFresh(c) /\ bad'[c] = 0
        BY <1>0, <1>2, <2>1, <3>3 DEF Skip, NeedsFetch, TypeInv, TypeOK
      <4>2. PICK i \in Ids : Serves(c, i) /\ left[i] > Lapse
        BY <1>0, <1>2, <4>1, FreshLasts
      <4>3. Serves(c, i)'
        BY <3>1, <4>2 DEF env, Serves, LeafFile, At, Cfg
      <4>4. left'[i] \in Nat /\ since' \in Nat /\ left'[i] > Lapse /\ Interval * 0 = 0
        BY <1>0, <3>1, <4>2, TimeAssumption DEF env, TypeInv, TypeOK
      <4>5. left'[i] + since' + Interval * 0 > Lapse
        BY <4>4, LapseNat
      <4>6. Lasts(c, i)'
        BY <4>1, <4>5 DEF Lasts
      <4> QED  BY <4>3, <4>6
    <3> QED  BY <3>2, <3>3
  <2>2. CASE Fetch(d) \/ FetchFails(d)
    <3>1. UNCHANGED << config, disk, since, ghost >>
      BY <2>2 DEF Fetch, FetchFails
    <3>2. UNCHANGED left \/ \E i \in Ids : Serve(d, i)
      BY <2>2 DEF Fetch, FetchFails
    <3>3. Aging
      BY <1>0, <1>4, <3>1, <3>2, AgingServe
    <3> QED  BY <1>3, <3>1, <3>3 DEF ghost, Untouched, LeafFile, At, Cfg
  <2>3. ASSUME NEW s \in AllSlots, Commit(d, s) PROVE Kept(c)
    <3>1. /\ pc = "write" /\ cur = d
          /\ UNCHANGED << config, left, since, got, bad, checked >>
      BY <2>3 DEF Commit, Writing
    <3>2. CASE d = c /\ s = LeafSlot(Cfg(c))
      <4>1. Serves(c, got)' /\ got \in Ids /\ got' = got
        BY <1>0, <2>3, <3>1, <3>2, CommitLeaf
      <4>2. left[got] + since > Lapse
        BY <1>0, <3>1 DEF GotLasts
      <4>3. Lasts(c, got)
        BY <1>0, <1>2, <4>1, <4>2, LastsAnyway
      <4>4. Lasts(c, got)'
        BY <3>1, <4>3 DEF Lasts
      <4>5. got' \in Ids /\ Serves(c, got)' /\ Lasts(c, got)'
        BY <4>1, <4>4
      <4> QED  BY <4>5
    <3>3. CASE ~(d = c /\ s = LeafSlot(Cfg(c)))
      <4>1. LeafFile(c)' = LeafFile(c)
        BY <1>0, <1>2, <2>3, <3>3, CommitLeaf
      <4> QED  BY <1>3, <1>4, <3>1, <4>1 DEF Untouched, Cfg
    <3> QED  BY <3>2, <3>3
  <2>4. CASE NoReload(d) \/ CallReload(d)
    <3>1. pc = "written" /\ cur = d /\ Processed(d) /\ UNCHANGED env
      BY <2>4 DEF NoReload, CallReload
    <3>2. CASE d = c
      BY <1>0, <1>2, <3>1, <3>2, ProcessedLasts
    <3>3. CASE d # c
      BY <1>0, <1>2, <1>3, <1>4, <3>1, <3>3
      DEF Processed, env, Untouched, LeafFile, At, Cfg, TypeInv, TypeOK
    <3> QED  BY <3>2, <3>3
  <2>5. CASE \/ DryRun(d) \/ Renew(d) \/ ReloadOK(d) \/ ReloadFails(d)
             \/ \E s \in AllSlots : CommitFails(d, s)
    BY <1>5, <2>5 DEF DryRun, Renew, ReloadOK, ReloadFails, CommitFails, env, ghost
  <2> QED  BY <1>8, <2>1, <2>2, <2>3, <2>4, <2>5 DEF Process
<1>9. ASSUME NEW d \in Certs, Meddle(d) PROVE Kept(c)
  <2>1. Aging /\ bad' = bad
    BY <1>4, <1>9 DEF Meddle, Reconfigure, Displace, Reperm, Disturb, ghost
  <2>2. CASE Reconfigure(d)
    BY <1>0, <1>2, <1>3, <2>1, <2>2
    DEF Reconfigure, Disturb, Untouched, LeafFile, At, Cfg, TypeInv, TypeOK, RunOK
  <2>3. ASSUME NEW p \in Paths(d), Displace(d, p) PROVE Kept(c)
    <3>1. CASE d = c
      BY <1>0, <1>2, <2>3, <3>1 DEF Displace, Disturb, TypeInv, TypeOK
    <3>2. CASE d # c
      BY <1>0, <1>2, <1>3, <2>1, <2>3, <3>2
      DEF Displace, Disturb, Untouched, LeafFile, At, Cfg, TypeInv, TypeOK, RunOK
    <3> QED  BY <3>1, <3>2
  <2>4. ASSUME NEW p \in Paths(d), Reperm(d, p) PROVE Kept(c)
    <3>1. PICK q \in OtherPerms : disk' = [disk EXCEPT ![d][p].perms = q]
      BY <2>4 DEF Reperm
    <3>2. UNCHANGED << config, checked >>
      BY <2>4 DEF Reperm, ghost
    <3>3. PathOf(Cfg(c), LeafSlot(Cfg(c))) \in Paths(c) /\ LeafFile(c) \in Files
      BY <1>0, <1>2, LeafFileOK DEF TypeInv
    <3>4. /\ disk = [e \in Certs |-> disk[e]] /\ disk[c] \in [Paths(c) -> Files]
          /\ disk[d] \in [Paths(d) -> Files]
      BY <1>0, <1>2 DEF TypeInv, TypeOK, RunOK
    <3>5. LeafFile(c)'.content = LeafFile(c).content
      BY <1>2, <3>1, <3>2, <3>3, <3>4 DEF LeafFile, At, Cfg, Files
    <3> QED  BY <1>3, <2>1, <3>2, <3>5 DEF Untouched, Cfg
  <2> QED  BY <1>9, <2>2, <2>3, <2>4 DEF Meddle
<1>10. CASE UNCHANGED vars \/ StartManual \/ Finish \/ PipeCloses \/ Cancel \/ KillRun
  BY <1>5, <1>10 DEF vars, StartManual, Finish, PipeCloses,
                    Cancel, KillRun, env, ghost
<1> QED
  BY <1>6, <1>7, <1>8, <1>9, <1>10, Interruptions DEF Next

(* ------------------------------- Theorem ------------------------------- *)

LEMMA LeafInit == Init => LeafInv
<1>1. SUFFICES ASSUME Init PROVE LeafInv
  OBVIOUS
<1>2. TypeInv
  BY <1>1, TypeInit
<1>3. Provenance
  BY <1>1 DEF Init, Provenance, Absent, File
<1>4. GotLasts
  BY <1>1 DEF Init, GotLasts
<1>5. CheckedLasts
  BY <1>1, CertsAssumption DEF Init, CheckedLasts
<1> QED  BY <1>2, <1>3, <1>4, <1>5 DEF LeafInv

LEMMA LeafStep == WindowOpen /\ LeafFirst /\ LeafInv /\ [Next]_vars => LeafInv'
BY TypeStep, ProvenanceStep, GotStep, CheckedStep DEF LeafInv

\* What lasts is valid now: at most MaxBad runs before this one have failed
\* the cert, Interval apart, and this one has taken at most RunMax.
LEMMA LeafInvImplies == LeafInv => ServedLeafValid
<1>1. SUFFICES ASSUME LeafInv, NEW c \in Reliable, checked[c] PROVE LeafStillValid(LeafFile(c))
  BY DEF ServedLeafValid
<1>2. TypeInv /\ CheckedLasts /\ c \in Certs
  BY <1>1, CertsAssumption DEF LeafInv
<1>3. PICK i \in Ids : Serves(c, i) /\ Lasts(c, i)
  BY <1>1, <1>2 DEF CheckedLasts
<1>4. left[i] > 0
  <2>1. /\ left[i] \in Nat /\ since \in Nat /\ since <= Interval /\ bad[c] \in Nat
        /\ bad[c] <= MaxBad + 1 /\ Interval \in Nat /\ MaxBad \in Nat /\ RunMax \in Nat
    BY <1>2, TimeAssumption DEF TypeInv, TypeOK
  <2> DEFINE slack == Interval * bad[c]
             used == Interval * MaxBad
             full == Interval * (MaxBad + 1)
  <2>2. slack \in Nat /\ used \in Nat /\ full = used + Interval
    BY <2>1, ProductNat
  <2>3. left[i] + since + slack > full + RunMax
    BY <1>3 DEF Lasts, Lapse
  <2>4. CASE bad[c] <= MaxBad
    <3>1. slack <= used
      BY <2>1, <2>4, ProductMonotonic
    <3> HIDE DEF slack, used, full
    <3> QED  BY <2>1, <2>2, <2>3, <3>1
  <2>5. CASE ~(bad[c] <= MaxBad)
    <3>1. since <= RunMax
      BY <1>2, <2>5 DEF TypeInv, BadBounded, MayStillLose
    <3>2. slack <= full
      BY <2>1, ProductMonotonic
    <3> HIDE DEF slack, used, full
    <3> QED  BY <2>1, <2>2, <2>3, <3>1, <3>2
  <2> QED  BY <2>4, <2>5
<1> QED  BY <1>3, <1>4 DEF Serves, HasLeaf, LeavesAre, LeafStillValid

\* The agent's promise: however its runs fail within MaxBad in a row, whatever
\* the other certs do to them and wherever a run is cut, the leaf a reliable
\* cert's consumers are served does not expire, provided the renewal window is
\* open and no file begins with somebody else's certificate (renewer.go, Run
\* and decide; vault-cert-agent.timer).
THEOREM ServedLeafHolds == WindowOpen /\ LeafFirst => (Spec => []ServedLeafValid)
<1>1. SUFFICES ASSUME WindowOpen, LeafFirst PROVE Spec => []ServedLeafValid
  OBVIOUS
<1>2. LeafInv /\ [Next]_vars => LeafInv'
  BY <1>1, LeafStep
<1> QED  BY <1>2, LeafInit, LeafInvImplies, PTL DEF Spec

(* ----------------------------- The names ------------------------------- *)

\* A concatenation begins as its first part does.
LEMMA ConcatHead ==
  ASSUME NEW S, NEW a \in Seq(S), NEW b \in Seq(S), Len(a) > 0
  PROVE  /\ a \o b \in Seq(S) /\ Len(a \o b) > 0 /\ (a \o b)[1] = a[1]
         /\ a \o b # << >> /\ Head(a \o b) = a[1]
<1>1. a \o b \in Seq(S) /\ Len(a \o b) = Len(a) + Len(b) /\ Len(a) \in Nat /\ Len(b) \in Nat
  OBVIOUS
<1>2. (a \o b)[1] = a[1]
  BY <1>1
<1>3. Len(a \o b) > 0
  BY <1>1
<1> DEFINE both == a \o b
<1>4. both \in Seq(S) /\ Len(both) > 0
  BY <1>1, <1>3
<1> HIDE DEF both
<1>5. both # << >> /\ Head(both) = both[1]
  BY <1>4
<1> QED  BY <1>1, <1>2, <1>3, <1>5 DEF both

\* What Write derives from an issue for the leaf file begins with its leaf,
\* in a bundle if the order says so.
LEMMA LeafHead ==
  ASSUME NEW cfg, NEW i, NEW n \in Nat, LeafSlot(cfg) # "none",
         LeafSlot(cfg) = "bundle" => cfg.order[1] = "cert", cfg.order \in BundleOrders
  PROVE  LET content == Content(cfg, LeafSlot(cfg), MaterialOf(i, n))
         IN  content # << >> /\ Head(content) = LeafBlock(i)
<1> DEFINE m == MaterialOf(i, n)
           s == LeafSlot(cfg)
<1>0. s \in {"bundle", "cert", "fullchain"}
  BY DEF LeafSlot
<1>1. /\ Cert(m) = << LeafBlock(i) >> /\ Part("cert", m) = Cert(m)
      /\ CA(m) = Part("ca", m)
  BY DEF Cert, MaterialOf, Part
<1>2. ASSUME NEW rest \in Seq(Blocks(i))
      PROVE  << LeafBlock(i) >> \o rest # << >> /\ Head(<< LeafBlock(i) >> \o rest) = LeafBlock(i)
  <2>1. << LeafBlock(i) >> \in Seq(Blocks(i))
    BY DEF Blocks
  <2> DEFINE one == << LeafBlock(i) >>
  <2>2. Len(one) = 1 /\ one[1] = LeafBlock(i) /\ one \in Seq(Blocks(i))
    BY <2>1
  <2> HIDE DEF one
  <2>3. one \o rest # << >> /\ Head(one \o rest) = LeafBlock(i)
    BY <2>2, ConcatHead
  <2> QED  BY <2>3 DEF one
<1>3. CASE s = "cert"
  <2>1. Content(cfg, s, m) = << LeafBlock(i) >>
    BY <1>1, <1>3 DEF Content
  <2> QED  BY <2>1
<1>4. CASE s = "fullchain"
  <2>1. Content(cfg, s, m) = << LeafBlock(i) >> \o CA(m)
    BY <1>1, <1>4 DEF Content
  <2>2. CA(m) \in Seq(Blocks(i))
    BY <1>1, PartBlocks
  <2> QED  BY <1>2, <2>1, <2>2
<1>5. CASE s = "bundle"
  <2> DEFINE a == Part(cfg.order[2], m)
             b == Part(cfg.order[3], m)
  <2>1. a \in Seq(Blocks(i)) /\ b \in Seq(Blocks(i))
    BY PartBlocks DEF BundleOrders
  <2>2. Content(cfg, s, m) = (<< LeafBlock(i) >> \o a) \o b
    BY <1>1, <1>5 DEF Content
  <2>3. << LeafBlock(i) >> \in Seq(Blocks(i))
    BY DEF Blocks
  <2> HIDE DEF a, b
  <2>4. (<< LeafBlock(i) >> \o a) \o b = << LeafBlock(i) >> \o (a \o b) /\ a \o b \in Seq(Blocks(i))
    BY <2>1, <2>3
  <2> QED  BY <1>2, <2>2, <2>4
<1> QED  BY <1>0, <1>3, <1>4, <1>5

LE(cfg) == cfg.source = "letsencrypt"

\* What the plugin stores is for names that some config of the cert asked for.
StoredNames ==
  \A c \in Certs : stored[c] # NoIssue =>
    \E cfg \in Configs[c] : LE(cfg) /\ names[stored[c]] = NamesIn(ExpectedNames(cfg))

\* What was fetched is for the names the config asks for.
GotNames ==
  pc \in {"write", "written"} /\ LE(Cfg(cur)) => names[got] = Asked(cur)

\* Issue i is the leaf in front of cert c's leaf file, for the names asked.
Fronts(c, i) ==
  /\ Serves(c, i)
  /\ LeafFile(c).content # << >> /\ Head(LeafFile(c).content) = LeafBlock(i)

NamedAt(c) ==
  checked[c] /\ LE(Cfg(c)) => \E i \in Ids : Fronts(c, i) /\ names[i] = Asked(c)

NamesInv ==
  TypeInv /\ InPlace /\ Provenance /\ StoredNames /\ GotNames /\ \A c \in Certs : NamedAt(c)

\* No leaf in use changes its names.
NamesStand == \A i \in Ids \cap InUse : names'[i] = names[i]

\* The names of a config, as Asked and ExpectedNames have them.
LEMMA AskedNames ==
  ASSUME NEW cfg, cfg.alt \in Seq(Names), cfg.fqdn \in Names
  PROVE  /\ NamesIn(ExpectedNames(cfg)) = {cfg.fqdn} \cup NamesIn(cfg.alt)
         /\ cfg.alt = << >> => NamesIn(ExpectedNames(cfg)) = {cfg.fqdn}
<1> DEFINE alt == cfg.alt
           e == << cfg.fqdn >> \o alt
           n == Len(alt)
<1>1. /\ Len(e) = 1 + n /\ e[1] = cfg.fqdn /\ n \in Nat
      /\ \A k \in 1..n : e[k + 1] = alt[k]
  OBVIOUS
<1>2. NamesIn(alt) = { alt[k] : k \in 1..n } /\ NamesIn(e) = { e[k] : k \in 1..1+n }
  BY <1>1 DEF NamesIn
<1>3. /\ \A k \in 1..1+n : k = 1 \/ (k - 1 \in 1..n /\ (k - 1) + 1 = k)
      /\ 1 \in 1..1+n /\ \A k \in 1..n : k + 1 \in 1..1+n
  <2> HIDE DEF n
  <2> QED  BY <1>1
<1> HIDE DEF e, n, alt
<1>4. ASSUME NEW x \in NamesIn(e) PROVE x \in {cfg.fqdn} \cup NamesIn(alt)
  <2>1. PICK k \in 1..1+n : x = e[k]
    BY <1>2, <1>4
  <2>2. CASE k = 1
    BY <1>1, <2>1, <2>2
  <2>3. CASE k # 1
    <3>1. k - 1 \in 1..n /\ e[(k - 1) + 1] = alt[k - 1] /\ (k - 1) + 1 = k
      BY <1>1, <1>3, <2>3
    <3>2. x = alt[k - 1]
      BY <2>1, <3>1
    <3> QED  BY <1>2, <3>1, <3>2
  <2> QED  BY <2>2, <2>3
<1>5. ASSUME NEW x \in NamesIn(alt) PROVE x \in NamesIn(e)
  <2>1. PICK k \in 1..n : x = alt[k]
    BY <1>2, <1>5
  <2>2. k + 1 \in 1..1+n /\ x = e[k + 1]
    BY <1>1, <1>3, <2>1
  <2> QED  BY <1>2, <2>2
<1>6. cfg.fqdn \in NamesIn(e)
  BY <1>1, <1>2, <1>3
<1>7. NamesIn(e) = {cfg.fqdn} \cup NamesIn(alt)
  BY <1>4, <1>5, <1>6
<1>8. alt = << >> => NamesIn(alt) = {}
  BY DEF NamesIn
<1> QED  BY <1>7, <1>8 DEF e, alt, ExpectedNames

\* A config's names, as its cert's steps use them.
LEMMA AskedIs ==
  ASSUME TypeInv, NEW c \in Certs
  PROVE  /\ Asked(c) = NamesIn(ExpectedNames(Cfg(c)))
         /\ Cfg(c).alt = << >> => Asked(c) = {Cfg(c).fqdn}
         /\ Cfg(c) \in Configs[c] /\ Cfg(c).fqdn \in Asked(c)
<1>1. Cfg(c) \in Configs[c]
  BY DEF TypeInv, TypeOK, Cfg
<1>2. Cfg(c).alt \in Seq(Names) /\ Cfg(c).fqdn \in Names
  BY <1>1, ConfigAssumption
<1> QED  BY <1>1, <1>2, AskedNames DEF Asked

\* A request that is served leaves the names of what is in use alone.
LEMMA ServeStands ==
  ASSUME TypeInv, NEW c \in Certs, NEW i \in Ids, Serve(c, i)
  PROVE  NamesStand
BY DEF Serve, Issue, NamesStand, TypeInv, TypeOK

\* The plugin's answer is for the names the config asks for, unless alt_names
\* were dropped.
LEMMA ServedNames ==
  ASSUME AltNamesStay, TypeInv, StoredNames, NEW c \in Certs, NEW i \in Ids, Serve(c, i)
  PROVE  /\ LE(Cfg(c)) => names'[i] = Asked(c) /\ stored' = [stored EXCEPT ![c] = i]
         /\ ~LE(Cfg(c)) => stored' = stored
<1>1. /\ names \in [Ids -> SUBSET Names] /\ stored \in [Certs -> Ids \cup {NoIssue}]
      /\ Cfg(c) \in Configs[c]
  BY DEF TypeInv, TypeOK, Cfg
<1>2. Cfg(c).source \in {"pki", "letsencrypt"}
  BY <1>1, ConfigAssumption
<1>3. CASE ~LE(Cfg(c))
  BY <1>2, <1>3 DEF LE, Serve
<1>4. CASE LE(Cfg(c))
  <2>1. ASSUME stored[c] # NoIssue, Cfg(c).alt = << >> PROVE names[stored[c]] = Asked(c)
    <3>1. PICK cfg \in Configs[c] :
            LE(cfg) /\ names[stored[c]] = NamesIn(ExpectedNames(cfg))
      BY <2>1 DEF StoredNames
    <3>2. NamesIn(ExpectedNames(cfg)) = {Cfg(c).fqdn}
      BY <1>1, <1>4, <2>1, <3>1 DEF AltNamesStay, LE
    <3> QED  BY <2>1, <3>1, <3>2, AskedIs
  <2>2. CASE Answers(c)
    <3>1. i = stored[c] /\ UNCHANGED << names, stored >>
      BY <1>4, <2>2 DEF Serve, LE
    <3>2. names[stored[c]] = Asked(c)
      BY <2>1, <2>2 DEF Answers
    <3>3. stored' = [stored EXCEPT ![c] = i]
      BY <1>1, <3>1
    <3> QED  BY <1>4, <3>1, <3>2, <3>3
  <2>3. CASE ~Answers(c)
    <3>1. Issue(i, IssuedNames(c)) /\ stored' = [stored EXCEPT ![c] = i]
      BY <1>4, <2>3 DEF Serve, LE
    <3>2. names'[i] = IssuedNames(c)
      BY <3>1 DEF Issue
    <3>3. IssuedNames(c) = Asked(c)
      BY <2>1 DEF IssuedNames
    <3> QED  BY <1>4, <3>1, <3>2, <3>3
  <2> QED  BY <2>2, <2>3
<1> QED  BY <1>3, <1>4

\* Only a request that is served changes names or the plugin's store.
LEMMA NamesChange ==
  ASSUME [Next]_vars
  PROVE  \/ UNCHANGED << names, stored >>
         \/ \E c \in Certs, i \in Ids : Serve(c, i)
<1>1. ASSUME NEW c \in Certs, Process(c)
      PROVE  UNCHANGED << names, stored >> \/ \E i \in Ids : Serve(c, i)
  BY <1>1 DEF Process, Skip, DryRun, Renew, Fetch, FetchFails, Commit, CommitFails, NoReload,
              CallReload, ReloadOK, ReloadFails, env
<1>2. ASSUME NEW c \in Certs, Meddle(c) PROVE UNCHANGED << names, stored >>
  BY <1>2 DEF Meddle, Reconfigure, Displace, Reperm
<1>3. CASE Tick \/ StartTimer \/ StartManual \/ LoginFails \/ Finish
           \/ PipeCloses \/ Cancel \/ KillRun
  BY <1>3 DEF Tick, StartTimer, StartManual, LoginFails, Finish, PipeCloses,
              Cancel, KillRun, env
<1> QED  BY <1>1, <1>2, <1>3, Interruptions DEF Next, vars, env

LEMMA StandStep == TypeInv /\ [Next]_vars => NamesStand
<1>1. SUFFICES ASSUME TypeInv, [Next]_vars PROVE NamesStand
  OBVIOUS
<1>2. CASE UNCHANGED << names, stored >>
  BY <1>2 DEF NamesStand
<1> QED  BY <1>1, <1>2, NamesChange, ServeStands

LEMMA StoredStep == AltNamesStay /\ TypeInv /\ StoredNames /\ [Next]_vars => StoredNames'
<1>1. SUFFICES ASSUME AltNamesStay, TypeInv, StoredNames, [Next]_vars,
                      NEW c \in Certs, stored'[c] # NoIssue
               PROVE  \E cfg \in Configs[c] :
                        LE(cfg) /\ names'[stored'[c]] = NamesIn(ExpectedNames(cfg))
  BY DEF StoredNames
<1>2. CASE UNCHANGED << names, stored >>
  BY <1>1, <1>2 DEF StoredNames
<1>3. ASSUME NEW d \in Certs, NEW i \in Ids, Serve(d, i)
      PROVE  \E cfg \in Configs[c] :
               LE(cfg) /\ names'[stored'[c]] = NamesIn(ExpectedNames(cfg))
  <2>1. stored \in [Certs -> Ids \cup {NoIssue}]
    BY <1>1 DEF TypeInv, TypeOK
  <2>2. CASE d = c /\ LE(Cfg(c))
    <3>1. names'[i] = Asked(c) /\ stored'[c] = i
      BY <1>1, <1>3, <2>1, <2>2, ServedNames
    <3>2. Asked(c) = NamesIn(ExpectedNames(Cfg(c))) /\ Cfg(c) \in Configs[c]
      BY <1>1, AskedIs
    <3> QED  BY <2>2, <3>1, <3>2
  <2>3. CASE ~(d = c /\ LE(Cfg(c)))
    <3>1. stored'[c] = stored[c]
      BY <1>1, <1>3, <2>1, <2>3, ServedNames
    <3>2. stored[c] \in Ids \cap InUse
      BY <1>1, <2>1, <3>1 DEF InUse
    <3>3. names'[stored[c]] = names[stored[c]]
      BY <1>1, <1>3, <3>2, ServeStands DEF NamesStand
    <3> QED  BY <1>1, <3>1, <3>3 DEF StoredNames
  <2> QED  BY <2>2, <2>3
<1> QED  BY <1>1, <1>2, <1>3, NamesChange

LEMMA GotNamesStep ==
  AltNamesStay /\ TypeInv /\ StoredNames /\ GotNames /\ [Next]_vars => GotNames'
<1>1. SUFFICES ASSUME AltNamesStay, TypeInv, StoredNames, GotNames, [Next]_vars,
                      pc' \in {"write", "written"}, LE(Cfg(cur)')
               PROVE  names'[got'] = Asked(cur)'
  BY DEF GotNames
<1>2. CASE /\ pc \in {"write", "written"} /\ UNCHANGED << config, got, cur >>
  <2>1. got \in Ids \cap InUse
    BY <1>1, <1>2 DEF TypeInv, TypeOK, InUse
  <2>2. names'[got] = names[got]
    BY <1>1, <2>1, StandStep DEF NamesStand
  <2> QED  BY <1>1, <1>2, <2>2 DEF GotNames, Cfg, Asked
<1>3. ASSUME NEW c \in Certs, Fetch(c) PROVE names'[got'] = Asked(cur)'
  <2>1. PICK i \in Ids : Serve(c, i) /\ got' = i
    BY <1>3 DEF Fetch
  <2>2. cur = c /\ UNCHANGED << config, cur >>
    BY <1>3 DEF Fetch, Fetching
  <2>3. names'[i] = Asked(c)
    BY <1>1, <2>1, <2>2, ServedNames DEF Cfg
  <2> QED  BY <2>1, <2>2, <2>3 DEF Asked, Cfg
<1>4. ASSUME NEW c \in Certs, Process(c) PROVE names'[got'] = Asked(cur)'
  <2>1. \/ Fetch(c) \/ \E s \in AllSlots : Commit(c, s)
    BY <1>1, <1>4 DEF Process, Skip, DryRun, Renew, FetchFails, CommitFails, NoReload,
                CallReload, ReloadOK, ReloadFails, Fail, Leave
  <2>2. ASSUME NEW s \in AllSlots, Commit(c, s)
        PROVE  pc \in {"write", "written"} /\ UNCHANGED << config, got, cur >>
    BY <2>2 DEF Commit, Writing
  <2> QED  BY <1>2, <1>3, <2>1, <2>2
<1>5. CASE Tick \/ PipeCloses \/ Cancel \/ UNCHANGED vars
  BY <1>1, <1>2, <1>5 DEF Tick, PipeCloses, Cancel, vars, env, run
<1>6. ASSUME NEW c \in Certs, Meddle(c) PROVE FALSE
  BY <1>1, <1>6 DEF Meddle, Reconfigure, Displace, Reperm, Idle, run
<1>7. ~(StartTimer \/ StartManual \/ LoginFails \/ Finish \/ KillRun)
  BY <1>1 DEF StartTimer, StartManual, LoginFails, Finish, KillRun, Reset, run, Idle
<1> QED
  BY <1>1, <1>4, <1>5, <1>6, <1>7, Interruptions DEF Next

\* A file decide accepts for a Let's Encrypt cert has its leaf in front, for
\* the names the config asks for.
LEMMA FreshFronts ==
  ASSUME TypeInv, Provenance, NEW c \in Certs, LooksFresh(c), LE(Cfg(c))
  PROVE  \E i \in Ids : Fronts(c, i) /\ names[i] = Asked(c)
<1> DEFINE f == LeafFile(c)
           p == PathOf(Cfg(c), LeafSlot(Cfg(c)))
           b == Head(f.content)
<1>1. /\ p \in Paths(c) /\ f = disk[c][p]
  BY LeafFileOK DEF TypeInv, LeafFile, At
<1>2. /\ f.content # << >> /\ ~NamesDiffer(c)
  BY DEF LooksFresh, LoadLeafOK, StartsWithCert
<1>3. BlockNames(b) = Asked(c)
  <2>1. ~AltNamesDiffer(Cfg(c), BlockNames(b))
    BY <1>2 DEF NamesDiffer, First, LE
  <2>2. NamesIn(ExpectedNames(Cfg(c))) = BlockNames(b)
    BY <2>1 DEF AltNamesDiffer
  <2> QED  BY <2>2, AskedIs
<1>4. b.role = "leaf" /\ names[b.id] = Asked(c)
  <2>1. BlockNames(b) # {}
    BY <1>3, AskedIs
  <2> QED  BY <1>3, <2>1 DEF BlockNames
<1>5. PICK cfg \in Configs[c], s \in AllSlots, i \in Ids :
        /\ s \in Declared(cfg) /\ PathOf(cfg, s) = p
        /\ f.content = Content(cfg, s, MaterialOf(i, Chain[cfg.source]))
  BY <1>1, <1>2 DEF Provenance
<1>6. f.content \in Seq(Blocks(i)) /\ LeavesAre(f.content, i)
  BY <1>5, ConfigAssumption, ContentBlocks, LeafOfIssue
<1>7. 1 \in 1..Len(f.content) /\ f.content[1] = b /\ b \in Blocks(i)
  BY <1>2, <1>6
<1>8. b = LeafBlock(i) /\ b.id = i
  <2>1. KeyBlock(i).role = "key" /\ ChainBlock.role = "chain" /\ LeafBlock(i).id = i
    BY DEF LeafBlock, KeyBlock, ChainBlock
  <2> HIDE DEF b
  <2>2. b \in {LeafBlock(i), KeyBlock(i), ChainBlock} /\ b.role = "leaf"
    BY <1>4, <1>7 DEF Blocks
  <2>3. b = LeafBlock(i)
    BY <2>1, <2>2
  <2> QED  BY <2>1, <2>3
<1>9. Serves(c, i)
  BY <1>4, <1>6, <1>7 DEF Serves, HasLeaf
<1> QED  BY <1>2, <1>4, <1>8, <1>9 DEF Fronts

\* What Write lays down for a Let's Encrypt cert has its leaf in front.
LEMMA LaidFronts ==
  ASSUME LeafInFront, NEW c \in Certs, NEW cfg \in Configs[c], LE(cfg), NEW i \in Ids
  PROVE  LET content == Content(cfg, LeafSlot(cfg), MaterialOf(i, Chain[cfg.source]))
         IN  /\ content # << >> /\ Head(content) = LeafBlock(i)
             /\ HasLeaf(content) /\ LeavesAre(content, i)
<1>1. /\ cfg.order \in BundleOrders /\ Chain[cfg.source] \in Nat /\ LeafSlot(cfg) # "none"
  BY ConfigAssumption
<1>2. LeafSlot(cfg) = "bundle" => cfg.format = "combined"
  BY LeafDeclared DEF Declared, SplitSlots
<1>3. LeafSlot(cfg) = "bundle" => cfg.order[1] = "cert"
  BY <1>2 DEF LeafInFront, LE
<1> QED  BY <1>1, <1>3, LeafHead, LeafContent

\* Cert c serves what it served.
SameLeaf(c) == /\ checked'[c] => checked[c]
               /\ Cfg(c)' = Cfg(c)
               /\ LeafFile(c)'.content = LeafFile(c).content

LEMMA NamedFrame ==
  ASSUME TypeInv, NamesStand, NEW c \in Certs, NamedAt(c), SameLeaf(c)
  PROVE  NamedAt(c)'
<1>1. SUFFICES ASSUME checked'[c], LE(Cfg(c)')
               PROVE  \E i \in Ids : Fronts(c, i)' /\ names'[i] = Asked(c)'
  BY DEF NamedAt
<1>2. PICK i \in Ids : Fronts(c, i) /\ names[i] = Asked(c)
  BY <1>1 DEF NamedAt, SameLeaf
<1>3. names'[i] = names[i]
  BY <1>2, ServedInUse DEF Fronts, NamesStand
<1>4. Fronts(c, i)' /\ Asked(c)' = Asked(c)
  BY <1>2 DEF Fronts, Serves, SameLeaf, Asked
<1> QED  BY <1>2, <1>3, <1>4

LEMMA NamedStep ==
  ASSUME LeafInFront, NamesInv, [Next]_vars, NEW c \in Certs
  PROVE  NamedAt(c)'
<1>0. /\ TypeInv /\ TypeInv' /\ InPlace /\ Provenance /\ GotNames /\ NamedAt(c) /\ NamesStand
  BY TypeStep, StandStep DEF NamesInv
<1>1. SameLeaf(c) => NamedAt(c)'
  BY <1>0, NamedFrame
<1>2. CASE UNCHANGED << config, disk, checked >>
  BY <1>1, <1>2 DEF SameLeaf, LeafFile, At, Cfg
<1>3. ASSUME NEW d \in Certs, Process(d) PROVE NamedAt(c)'
  <2>1. CASE Skip(d)
    <3>1. CASE d # c \/ opt = "dry"
      BY <1>0, <1>1, <2>1, <3>1 DEF Skip, env, SameLeaf, LeafFile, At, Cfg, TypeInv, TypeOK
    <3>2. CASE d = c /\ opt # "dry"
      <4>1. LooksFresh(c) /\ UNCHANGED env
        BY <2>1, <3>2 DEF Skip, NeedsFetch
      <4>2. ASSUME LE(Cfg(c)) PROVE \E i \in Ids : Fronts(c, i) /\ names[i] = Asked(c)
        BY <1>0, <4>1, <4>2, FreshFronts
      <4> QED  BY <4>1, <4>2 DEF NamedAt, Fronts, Serves, LeafFile, At, Cfg, Asked, env
    <3> QED  BY <3>1, <3>2
  <2>2. CASE Fetch(d) \/ FetchFails(d)
    BY <1>2, <2>2 DEF Fetch, FetchFails, ghost
  <2>3. ASSUME NEW s \in AllSlots, Commit(d, s) PROVE NamedAt(c)'
    <3>1. /\ pc = "write" /\ cur = d
          /\ UNCHANGED << config, names, got, checked >>
      BY <2>3 DEF Commit, Writing
    <3>2. CASE d = c /\ s = LeafSlot(Cfg(c))
      <4>1. SUFFICES ASSUME LE(Cfg(c))
                     PROVE  \E i \in Ids : Fronts(c, i)' /\ names[i] = Asked(c)
        BY <3>1 DEF NamedAt, Cfg, Asked
      <4>2. /\ Serves(c, got)' /\ got \in Ids /\ got' = got /\ Cfg(c) \in Configs[c]
            /\ disk'[c][PathOf(Cfg(c), s)].content
                 = Content(Cfg(c), s, MaterialOf(got, Chain[Cfg(c).source]))
        BY <1>0, <2>3, <3>1, <3>2, CommitLeaf
      <4>3. LeafFile(c)'.content = disk'[c][PathOf(Cfg(c), s)].content
        BY <3>1, <3>2 DEF LeafFile, At, Cfg
      <4>4. LeafFile(c)'.content # << >> /\ Head(LeafFile(c)'.content) = LeafBlock(got)
        BY <3>2, <4>1, <4>2, <4>3, LaidFronts
      <4>5. names[got] = Asked(c)
        BY <1>0, <3>1, <3>2, <4>1 DEF GotNames
      <4>6. Fronts(c, got)'
        BY <4>2, <4>4 DEF Fronts
      <4>7. got' \in Ids /\ Fronts(c, got)' /\ names[got'] = Asked(c)
        BY <4>2, <4>5, <4>6
      <4> QED  BY <4>2, <4>5, <4>6, <4>7
    <3>3. CASE ~(d = c /\ s = LeafSlot(Cfg(c)))
      <4>1. LeafFile(c)' = LeafFile(c)
        BY <1>0, <2>3, <3>3, CommitLeaf
      <4> QED  BY <1>1, <3>1, <4>1 DEF SameLeaf, Cfg
    <3> QED  BY <3>2, <3>3
  <2>4. CASE NoReload(d) \/ CallReload(d)
    <3>1. pc = "written" /\ cur = d /\ Processed(d) /\ UNCHANGED env
      BY <2>4 DEF NoReload, CallReload
    <3>2. CASE d = c
      <4>1. SUFFICES ASSUME LE(Cfg(c))
                     PROVE  \E i \in Ids : Fronts(c, i) /\ names[i] = Asked(c)
        BY <3>1 DEF NamedAt, Fronts, Serves, LeafFile, At, Cfg, Asked, env
      <4>2. got \in Ids /\ todo = {} /\ Cfg(c) \in Configs[c]
        BY <1>0, <3>1 DEF TypeInv, TypeOK, Cfg
      <4>3. Laid(c, LeafSlot(Cfg(c)))
        BY <1>0, <3>1, <3>2, <4>2, LeafDeclared DEF InPlace
      <4>4. LeafFile(c).content
              = Content(Cfg(c), LeafSlot(Cfg(c)), MaterialOf(got, Chain[Cfg(c).source]))
        BY <4>3 DEF Laid, LeafFile, File, Material, MaterialOf
      <4>5. Fronts(c, got)
        BY <4>1, <4>2, <4>4, LaidFronts DEF Fronts, Serves
      <4>6. names[got] = Asked(c)
        BY <1>0, <3>1, <3>2, <4>1 DEF GotNames
      <4> QED  BY <4>2, <4>5, <4>6
    <3>3. CASE d # c
      BY <1>0, <1>1, <3>1, <3>3
      DEF Processed, env, SameLeaf, LeafFile, At, Cfg, TypeInv, TypeOK
    <3> QED  BY <3>2, <3>3
  <2>5. CASE \/ DryRun(d) \/ Renew(d) \/ ReloadOK(d) \/ ReloadFails(d)
             \/ \E s \in AllSlots : CommitFails(d, s)
    BY <1>2, <2>5 DEF DryRun, Renew, ReloadOK, ReloadFails, CommitFails, env, ghost
  <2> QED  BY <1>3, <2>1, <2>2, <2>3, <2>4, <2>5 DEF Process
<1>4. ASSUME NEW d \in Certs, Meddle(d) PROVE NamedAt(c)'
  <2>1. CASE d = c /\ ~checked'[c]
    BY <2>1 DEF NamedAt
  <2>2. ASSUME Reconfigure(d) PROVE (d = c /\ ~checked'[c]) \/ SameLeaf(c)
    BY <1>0, <2>2 DEF Reconfigure, Disturb, SameLeaf, LeafFile, At, Cfg, TypeInv, TypeOK, RunOK
  <2>3. ASSUME NEW p \in Paths(d), Displace(d, p)
        PROVE  (d = c /\ ~checked'[c]) \/ SameLeaf(c)
    BY <1>0, <2>3 DEF Displace, Disturb, SameLeaf, LeafFile, At, Cfg, TypeInv, TypeOK, RunOK
  <2>4. ASSUME NEW p \in Paths(d), Reperm(d, p) PROVE SameLeaf(c)
    <3>1. PICK q \in OtherPerms : disk' = [disk EXCEPT ![d][p].perms = q]
      BY <2>4 DEF Reperm
    <3>2. UNCHANGED << config, checked >>
      BY <2>4 DEF Reperm, ghost
    <3>3. PathOf(Cfg(c), LeafSlot(Cfg(c))) \in Paths(c) /\ LeafFile(c) \in Files
      BY <1>0, LeafFileOK DEF TypeInv
    <3>4. /\ disk = [e \in Certs |-> disk[e]] /\ disk[c] \in [Paths(c) -> Files]
          /\ disk[d] \in [Paths(d) -> Files]
      BY <1>0 DEF TypeInv, TypeOK, RunOK
    <3>5. LeafFile(c)'.content = LeafFile(c).content
      BY <3>1, <3>2, <3>3, <3>4 DEF LeafFile, At, Cfg, Files
    <3> QED  BY <3>2, <3>5 DEF SameLeaf, Cfg
  <2>5. CASE SameLeaf(c)
    BY <1>1, <2>5
  <2> QED  BY <1>4, <2>1, <2>2, <2>3, <2>4, <2>5 DEF Meddle
<1>5. CASE \/ UNCHANGED vars \/ Tick \/ StartTimer \/ StartManual \/ LoginFails \/ Finish
           \/ PipeCloses \/ Cancel \/ KillRun
  BY <1>2, <1>5 DEF vars, Tick, StartTimer, StartManual, LoginFails, Finish, PipeCloses,
                    Cancel, KillRun, env, ghost
<1> QED
  BY <1>3, <1>4, <1>5, Interruptions DEF Next

LEMMA NamesInit == Init => NamesInv
<1>1. SUFFICES ASSUME Init PROVE NamesInv
  OBVIOUS
<1>2. TypeInv /\ Provenance
  BY <1>1, LeafInit DEF LeafInv
<1>3. InPlace /\ GotNames
  BY <1>1 DEF Init, InPlace, GotNames
<1>4. StoredNames
  BY <1>1 DEF Init, StoredNames
<1>5. \A c \in Certs : NamedAt(c)
  BY <1>1 DEF Init, NamedAt
<1> QED  BY <1>2, <1>3, <1>4, <1>5 DEF NamesInv

LEMMA NamesStep == AltNamesStay /\ LeafInFront /\ NamesInv /\ [Next]_vars => NamesInv'
<1>1. SUFFICES ASSUME AltNamesStay, LeafInFront, NamesInv, [Next]_vars PROVE NamesInv'
  OBVIOUS
<1>2. TypeInv' /\ InPlace' /\ Provenance' /\ StoredNames' /\ GotNames'
  BY <1>1, TypeStep, InPlaceStep, ProvenanceStep, StoredStep, GotNamesStep DEF NamesInv
<1>3. \A c \in Certs : NamedAt(c)'
  BY <1>1, NamedStep
<1> QED  BY <1>2, <1>3 DEF NamesInv

\* The names a processed Let's Encrypt cert serves are those its config asks for
\* (altNamesDiffer, renewer.go:363-379, and source/letsencrypt.go), whatever the
\* plugin had stored before and however requests, writes and runs fail, as long as
\* operators change alt_names without removing them and the leaf comes first.
THEOREM NamesServedHolds == AltNamesStay /\ LeafInFront => (Spec => []NamesServed)
<1>1. SUFFICES ASSUME AltNamesStay, LeafInFront PROVE Spec => []NamesServed
  OBVIOUS
<1>2. NamesInv /\ [Next]_vars => NamesInv'
  BY <1>1, NamesStep
<1>3. NamesInv => NamesServed
  <2>1. SUFFICES ASSUME NamesInv, NEW c \in Certs, checked[c], LE(Cfg(c))
                 PROVE  BlockNames(First(LeafFile(c))) = Asked(c)
    BY DEF NamesServed, LE
  <2>2. PICK i \in Ids : Fronts(c, i) /\ names[i] = Asked(c)
    BY <2>1 DEF NamesInv, NamedAt
  <2> QED  BY <2>2 DEF Fronts, BlockNames, First, LeafBlock
<1> QED  BY <1>2, <1>3, NamesInit, PTL DEF Spec

(* ------------------------ What decide recognises ----------------------- *)

\* A list without repetition is as long as the set of its members is large.
LEMMA ListedOnce ==
  ASSUME NEW S, NEW list \in Seq(S),
         \A i, j \in 1..Len(list) : i # j => list[i] # list[j]
  PROVE  Cardinality(NamesIn(list)) = Len(list)
<1> DEFINE I == 1..Len(list)
           f == [i \in I |-> list[i]]
<1>1. Len(list) \in Nat
  OBVIOUS
<1>2. IsFiniteSet(I) /\ Cardinality(I) = Len(list)
  <2>1. IsFiniteSet(I) /\ Cardinality(I) = IF 1 > Len(list) THEN 0 ELSE Len(list) - 1 + 1
    BY <1>1, FS_Interval
  <2> HIDE DEF I
  <2> QED  BY <1>1, <2>1
<1>3. f \in Bijection(I, NamesIn(list))
  <2>1. f \in [I -> NamesIn(list)]
    BY DEF NamesIn
  <2>2. \A i, j \in I : f[i] = f[j] => i = j
    OBVIOUS
  <2>3. \A t \in NamesIn(list) : \E i \in I : f[i] = t
    BY DEF NamesIn
  <2> QED  BY <2>1, <2>2, <2>3 DEF Bijection, Injection, Surjection, IsInjective
<1>4. ExistsBijection(I, NamesIn(list))
  BY <1>3 DEF ExistsBijection
<1> QED  BY <1>2, <1>4, FS_Bijection

\* The audit accepts the shape of what Write puts in a slot.
LEMMA ShapeAccepted ==
  ASSUME Recognised, NEW c \in Certs, NEW cfg \in Configs[c], NEW i \in Ids,
         NEW s \in SplitSlots, s \in Declared(cfg), NEW f, f.kind = "regular",
         f.content = Content(cfg, s, MaterialOf(i, Chain[cfg.source]))
  PROVE  SlotShapeOK(s, f)
<1> DEFINE m == MaterialOf(i, Chain[cfg.source])
<1>1. /\ Chain[cfg.source] \in Nat
      /\ Cert(m) = << LeafBlock(i) >> /\ CA(m) = [k \in 1..Chain[cfg.source] |-> ChainBlock]
  BY ConfigAssumption DEF Cert, CA, MaterialOf
<1>2. IsCert(LeafBlock(i)) /\ IsCert(ChainBlock)
  BY DEF IsCert, LeafBlock, ChainBlock
<1>3. CASE s = "cert"
  <2>1. f.content = << LeafBlock(i) >>
    BY <1>1, <1>3 DEF Content, Part
  <2> QED  BY <1>2, <1>3, <2>1 DEF SlotShapeOK, CheckLeafOnly, StartsWithCert, MoreCerts
<1>4. CASE s = "fullchain"
  <2>1. f.content = Cert(m) \o CA(m)
    BY <1>4 DEF Content
  <2>2. Chain[cfg.source] > 0
    BY <1>4 DEF Recognised
  <2>3. /\ Cert(m) \in Seq(Blocks(i)) /\ CA(m) \in Seq(Blocks(i))
        /\ Len(Cert(m)) = 1 /\ Len(CA(m)) = Chain[cfg.source]
        /\ Cert(m)[1] = LeafBlock(i) /\ CA(m)[1] = ChainBlock
    BY <1>1, <2>2 DEF Blocks
  <2>4. /\ Len(f.content) = 1 + Chain[cfg.source] /\ f.content \in Seq(Blocks(i))
        /\ f.content[1] = LeafBlock(i) /\ f.content[2] = ChainBlock
    BY <1>1, <2>1, <2>2, <2>3
  <2>5. /\ f.content # << >> /\ Head(f.content) = LeafBlock(i)
        /\ 2 \in 2..Len(f.content)
    BY <1>1, <2>2, <2>4
  <2> QED  BY <1>2, <1>4, <2>4, <2>5
           DEF SlotShapeOK, CheckLeafPlusChain, StartsWithCert, MoreCerts
<1>5. CASE s \in {"key", "ca"}
  BY <1>5 DEF SlotShapeOK, CheckExists
<1> QED  BY <1>3, <1>4, <1>5 DEF SplitSlots

\* The first block of what Write puts in the leaf file is a certificate: that
\* of the leaf, or a chain block, which outlives it.
LEMMA FrontRead ==
  ASSUME Recognised, NEW c \in Certs, NEW cfg \in Configs[c], NEW i \in Ids
  PROVE  LET content == Content(cfg, LeafSlot(cfg), MaterialOf(i, Chain[cfg.source]))
         IN  content # << >> /\ Head(content) \in {LeafBlock(i), ChainBlock}
<1> DEFINE m == MaterialOf(i, Chain[cfg.source])
           n == Chain[cfg.source]
<1>1. /\ cfg.order \in BundleOrders /\ n \in Nat /\ LeafSlot(cfg) # "none"
  BY ConfigAssumption
<1>2. CASE LeafSlot(cfg) = "bundle" /\ cfg.order[1] # "cert"
  <2>1. cfg.format = "combined"
    BY <1>2, LeafDeclared DEF Declared, SplitSlots
  <2>2. cfg.order[1] = "ca" /\ n > 0
    BY <1>2, <2>1 DEF Recognised
  <2> DEFINE a == CA(m)
             b == Part(cfg.order[2], m)
             d == Part(cfg.order[3], m)
  <2>3. a = [k \in 1..n |-> ChainBlock]
    BY DEF CA, MaterialOf
  <2>4. a \in Seq(Blocks(i)) /\ Len(a) = n /\ a[1] = ChainBlock
    BY <1>1, <2>2, <2>3 DEF Blocks
  <2>5. b \in Seq(Blocks(i)) /\ d \in Seq(Blocks(i))
    BY <1>1, PartBlocks DEF BundleOrders
  <2>6. Content(cfg, LeafSlot(cfg), m) = (a \o b) \o d
    BY <1>2, <2>2 DEF Content, Part
  <2> HIDE DEF a, b, d, n
  <2>7. /\ a \o b \in Seq(Blocks(i)) /\ Len(a \o b) >= 1 /\ (a \o b)[1] = ChainBlock
    BY <1>1, <2>2, <2>4, <2>5
  <2>8. /\ (a \o b) \o d \in Seq(Blocks(i)) /\ Len((a \o b) \o d) >= 1
        /\ ((a \o b) \o d)[1] = ChainBlock
    BY <2>5, <2>7
  <2>9. (a \o b) \o d # << >> /\ Head((a \o b) \o d) = ChainBlock
    BY <2>8
  <2> QED  BY <2>6, <2>9 DEF n
<1>3. CASE ~(LeafSlot(cfg) = "bundle" /\ cfg.order[1] # "cert")
  BY <1>1, <1>3, LeafHead
<1> QED  BY <1>2, <1>3

\* What Write leaves behind is what the next run's decide takes for fresh, the
\* leaf being so (renewer.go: decide, auditOnDiskFiles, loadLeaf): no cert that the
\* configs' fullchain, bundle order and list of names let decide recognise is
\* fetched run after run.
THEOREM SettledIsSkippedHolds ==
  AltNamesStay /\ LeafInFront /\ Recognised => (Spec => []SettledIsSkipped)
<1>1. SUFFICES ASSUME AltNamesStay, LeafInFront, Recognised PROVE Spec => []SettledIsSkipped
  OBVIOUS
<1>2. NamesInv /\ [Next]_vars => NamesInv'
  BY <1>1, NamesStep
<1>3. NamesInv => SettledIsSkipped
  <2>1. SUFFICES ASSUME NamesInv, pc = "written", ~Due(left[got]) PROVE LooksFresh(cur)
    BY DEF SettledIsSkipped
  <2> DEFINE c == cur
             cfg == Cfg(c)
             f == LeafFile(c)
             m == MaterialOf(got, Chain[cfg.source])
  <2>2. /\ TypeInv /\ c \in Certs /\ cfg \in Configs[c] /\ got \in Ids /\ todo = {}
    BY <2>1 DEF NamesInv, TypeInv, TypeOK, Cfg
  <2>3. \A s \in Declared(cfg) :
          At(c, s).kind = "regular" /\ At(c, s).content = Content(cfg, s, m)
    BY <2>1, <2>2 DEF NamesInv, InPlace, Laid, File, Material, MaterialOf
  <2>4. f.kind = "regular" /\ f.content = Content(cfg, LeafSlot(cfg), m)
    BY <2>2, <2>3, LeafDeclared DEF LeafFile
  <2>5. AuditPasses(cfg, disk[c])
    <3>1. SUFFICES ASSUME cfg.format = "split", NEW s \in Declared(cfg)
                   PROVE  SlotShapeOK(s, At(c, s))
      BY DEF AuditPasses, At
    <3>2. s \in SplitSlots
      BY <3>1 DEF Declared
    <3> QED  BY <1>1, <2>2, <2>3, <3>1, <3>2, ShapeAccepted
  <2>6. f.content # << >> /\ Head(f.content) \in {LeafBlock(got), ChainBlock}
    BY <1>1, <2>2, <2>4, FrontRead
  <2>7. LoadLeafOK(f)
    BY <2>4, <2>6 DEF LoadLeafOK, StartsWithCert, IsCert, LeafBlock, ChainBlock
  <2>8. ~BlockDue(First(f))
    BY <2>1, <2>6 DEF BlockDue, First, LeafBlock, ChainBlock
  <2>9. ~NamesDiffer(c)
    <3>1. SUFFICES ASSUME LE(cfg)
                   PROVE  ~AltNamesDiffer(cfg, BlockNames(First(f)))
      BY DEF NamesDiffer, LE
    <3>2. Head(f.content) = LeafBlock(got)
      BY <1>1, <2>2, <2>4, <3>1, LaidFronts
    <3>3. BlockNames(First(f)) = names[got]
      BY <3>2 DEF BlockNames, First, LeafBlock
    <3>4. names[got] = NamesIn(ExpectedNames(cfg))
      BY <2>1, <2>2, <3>1, AskedIs DEF NamesInv, GotNames
    <3>5. Cardinality(NamesIn(ExpectedNames(cfg))) = Len(ExpectedNames(cfg))
      <4>1. cfg.fqdn \in Names /\ cfg.alt \in Seq(Names)
        BY <2>2, ConfigAssumption
      <4>2. ExpectedNames(cfg) \in Seq(Names)
        BY <4>1 DEF ExpectedNames
      <4>3. \A i, j \in 1..Len(ExpectedNames(cfg)) :
              i # j => ExpectedNames(cfg)[i] # ExpectedNames(cfg)[j]
        BY <1>1, <2>2, <3>1 DEF Recognised, LE
      <4> QED  BY <4>2, <4>3, ListedOnce
    <3> QED  BY <3>3, <3>4, <3>5 DEF AltNamesDiffer
  <2> QED  BY <2>5, <2>7, <2>8, <2>9 DEF LooksFresh
<1> QED  BY <1>2, <1>3, NamesInit, PTL DEF Spec
=============================================================================
