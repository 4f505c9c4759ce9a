------------------------------- MODULE Writer -------------------------------
(***************************************************************************)
(* internal/writer, one system call at a time.  A Write call commits the   *)
(* declared slots in order; each commit reads the file in place and either *)
(* enforces its perms (same content) or stages a temp file and renames it. *)
(* Any call may fail, the process may be killed and the machine may lose   *)
(* power between any two of them, and several agents (the timer's and an   *)
(* operator's) may write the same paths, for nothing locks them.           *)
(***************************************************************************)
EXTENDS Layout

CONSTANTS
  Procs,       \* agent processes
  Configs,     \* cert configs a call may be given
  Materials,   \* material a call may be given
  TempPerms,   \* mode and owner os.CreateTemp gives a file: 0600, root
  ForeignPerms,\* mode and owner left by another actor
  Torn,        \* content of a file whose data never reached the disk
  MaxFaults    \* bound on kills, power losses, failed removes and meddling

Asked == { a \in Configs \X AllSlots : a[2] \in Declared(a[1]) }
Paths == { PathOf(a[1], a[2]) : a \in Asked }

VARIABLES
  dir,         \* path -> the inode the directory entry leads to
  durable,     \* dir as the file system's journal last committed it
  pc,          \* process -> the system call it is about to make
  job,         \* process -> the [cfg, mat] of its Write call
  todo,        \* process -> slots of the call not committed yet
  tmp,         \* process -> its staged temp file, or NoInode
  pinned,      \* process -> the inode enforcePerms opened is still at its path
  changed,     \* process -> Result.Changed
  leaked,      \* a temp file outlived the call that staged it
  faults,      \* faults so far
  before,      \* ghost: what each path held when the call began, Unknown once
               \* somebody else has touched anything since
  author       \* ghost: path -> process whose rename put the file there, or none

sys   == << dir, durable, leaked, faults, author >>
local == << pc, job, todo, tmp, pinned, changed, before >>
vars  == << sys, local >>

Inode(kind, content, perms) ==
  [kind |-> kind, content |-> content, mode |-> perms.mode,
   owner |-> perms.owner, synced |-> TRUE]

Absent  == Inode("absent", << >>, ForeignPerms)
Special == Inode("special", << >>, ForeignPerms)
NoInode == Inode("none", << >>, TempPerms)
Staged  == [Inode("regular", << >>, TempPerms) EXCEPT !.synced = FALSE]

\* An idle process has no job; which one it holds means nothing.
NoJob   == [cfg |-> CHOOSE c \in Configs : TRUE, mat |-> CHOOSE m \in Materials : TRUE]
Nobody  == "nobody"
Unknown == << >>

\* What config.Validate has established: there are files to write, and no two
\* slots of a cert share one.
ASSUME WriterAssumption ==
  /\ Nobody \notin Procs /\ MaxFaults \in Nat
  /\ Configs # {} /\ Materials # {}
  /\ \A c \in Configs :
       /\ Declared(c) # {}
       /\ \A s, t \in Declared(c) : s # t => PathOf(c, s) # PathOf(c, t)

\* What a reader finds at each path.
Held == [path \in Paths |-> << dir[path].kind, dir[path].content >>]

(* ------------------------- The call in progress ------------------------ *)

Slot(p)  == CHOOSE s \in todo[p] : IsNext(s, todo[p])
Path(p)  == PathOf(job[p].cfg, Slot(p))
Bytes(p) == Content(job[p].cfg, Slot(p), job[p].mat)
Perms(p) == PermsOf(job[p].cfg, Slot(p))

\* Nobody else has touched the directory since p's call began.
Undisturbed(p) == before[p] # Unknown

Goto(p, label) == pc' = [pc EXCEPT ![p] = label]

At(p, label) == pc[p] = label

\* Process p left the path of q's open file: its chmod and chown go nowhere.
Unlink(path) ==
  pinned' = [q \in Procs |-> pinned[q] /\ ~(todo[q] # {} /\ Path(q) = path)]

\* Mutant: the loop does not notice that the last slot is done.
SlotDoneLoops(p) == /\ todo' = [todo EXCEPT ![p] = @ \ {Slot(p)}]
                    /\ Goto(p, "read")

SlotDone(p) ==
  /\ todo' = [todo EXCEPT ![p] = @ \ {Slot(p)}]
  /\ Goto(p, IF todo[p] = {Slot(p)} THEN "ok" ELSE "read")

Init ==
  /\ dir \in [Paths -> {Absent} \cup
                { Inode("regular", Content(a[1], a[2], m), ForeignPerms)
                    : a \in Asked, m \in Materials }]
  /\ \A a \in Asked : \E m \in Materials :
       LET f == dir[PathOf(a[1], a[2])]
       IN  f.kind = "regular" => f.content = Content(a[1], a[2], m)
  /\ durable = dir
  /\ pc = [p \in Procs |-> "idle"]
  /\ job = [p \in Procs |-> NoJob]
  /\ todo = [p \in Procs |-> {}]
  /\ tmp = [p \in Procs |-> NoInode]
  /\ pinned = [p \in Procs |-> FALSE]
  /\ changed = [p \in Procs |-> FALSE]
  /\ leaked = FALSE
  /\ faults = 0
  /\ before = [p \in Procs |-> Unknown]
  /\ author = [path \in Paths |-> Nobody]

(* ------------------------------- Write --------------------------------- *)

\* Write, up to the first commitFile: perms are resolved, the directory made.
Begin(p) ==
  /\ At(p, "idle")
  /\ \E c \in Configs, m \in Materials :
       /\ job' = [job EXCEPT ![p] = [cfg |-> c, mat |-> m]]
       /\ todo' = [todo EXCEPT ![p] = Declared(c)]
  /\ Goto(p, "read")
  /\ changed' = [changed EXCEPT ![p] = FALSE]
  /\ before' = [q \in Procs |->
                  IF q = p /\ \A r \in Procs \ {p} : At(r, "idle") THEN Held ELSE Unknown]
  /\ author' = [path \in Paths |-> IF author[path] = p THEN Nobody ELSE author[path]]
  /\ UNCHANGED << dir, durable, leaked, faults, tmp, pinned >>

\* An owner that does not resolve, a mkdir that fails: no file was touched.
BeginFails(p) ==
  /\ At(p, "idle")
  /\ Goto(p, "failed")
  /\ UNCHANGED << sys, job, todo, tmp, pinned, changed, before >>

\* Mutant: nothing to do for a file whose content is up to date.
ReadForgetsPerms(p) ==
  /\ At(p, "read")
  /\ IF dir[Path(p)].kind = "regular" /\ dir[Path(p)].content = Bytes(p)
     THEN SlotDone(p) ELSE Goto(p, "create") /\ UNCHANGED todo
  /\ UNCHANGED << sys, job, tmp, pinned, changed, before >>

\* commitFile reads the file in place and chooses what to do with it.
Read(p) ==
  /\ At(p, "read")
  /\ dir[Path(p)].kind # "special"
  /\ Goto(p, IF /\ dir[Path(p)].kind = "regular"
                /\ dir[Path(p)].content = Bytes(p)
             THEN "open" ELSE "create")
  /\ UNCHANGED << sys, job, todo, tmp, pinned, changed, before >>

\* The open, the stat or the read fails, or the file is not a regular one.
ReadFails(p) ==
  /\ At(p, "read")
  /\ Goto(p, "failed")
  /\ UNCHANGED << sys, job, todo, tmp, pinned, changed, before >>

(* ----------------------------- atomicWrite ----------------------------- *)

\* One call on the staged file: from label to label, tmp becoming inode.
Stage(p, from, to, inode) ==
  /\ At(p, from)
  /\ Goto(p, to)
  /\ tmp' = [tmp EXCEPT ![p] = inode]
  /\ UNCHANGED << sys, job, todo, pinned, changed, before >>

\* Mutants: a call of atomicWrite forgotten.
NoSync(p)  == Stage(p, "sync",  "chmod", tmp[p])
NoChmod(p) == Stage(p, "chmod", "chown", tmp[p])
NoChown(p) == Stage(p, "chown", "close", tmp[p])

Create(p) == Stage(p, "create", "fill",   Staged)
Fill(p)   == Stage(p, "fill",   "sync",   [tmp[p] EXCEPT !.content = Bytes(p)])
Sync(p)   == Stage(p, "sync",   "chmod",  [tmp[p] EXCEPT !.synced = TRUE])
Chmod(p)  == Stage(p, "chmod",  "chown",  [tmp[p] EXCEPT !.mode = Perms(p).mode])
Chown(p)  == Stage(p, "chown",  "close",  [tmp[p] EXCEPT !.owner = Perms(p).owner])
Close(p)  == Stage(p, "close",  "rename", tmp[p])

\* rename(2) replaces whatever the path leads to, in one step.
Rename(p) ==
  /\ At(p, "rename")
  /\ dir' = [dir EXCEPT ![Path(p)] = tmp[p]]
  /\ tmp' = [tmp EXCEPT ![p] = NoInode]
  /\ changed' = [changed EXCEPT ![p] = TRUE]
  /\ author' = [author EXCEPT ![Path(p)] = p]
  /\ Unlink(Path(p))
  /\ SlotDone(p)
  /\ UNCHANGED << durable, leaked, faults, job, before >>

Staging == {"create", "fill", "sync", "chmod", "chown", "close", "rename"}

\* A call on the staged file fails: the temp file is removed and Write gives
\* up, dropping the slots that are left and its Result.  The remove itself
\* may fail, which the code ignores.
Cleanup(p, kept) ==
  /\ kept => tmp[p] # NoInode /\ faults < MaxFaults
  /\ leaked' = (leaked \/ kept)
  /\ faults' = IF kept THEN faults + 1 ELSE faults
  /\ tmp' = [tmp EXCEPT ![p] = NoInode]

\* Mutant: an error path of atomicWrite without cleanup.
StageFailsUncleaned(p) ==
  /\ pc[p] \in Staging
  /\ Goto(p, "failed")
  /\ UNCHANGED << sys, job, todo, tmp, pinned, changed, before >>

StageFails(p) ==
  /\ pc[p] \in Staging
  /\ \E kept \in BOOLEAN : Cleanup(p, kept)
  /\ Goto(p, "failed")
  /\ UNCHANGED << dir, durable, author, job, todo, pinned, changed, before >>

(* ----------------------------- enforcePerms ---------------------------- *)

\* The open pins whatever inode is at the path by now.
Open(p) ==
  /\ At(p, "open")
  /\ dir[Path(p)].kind = "regular"
  /\ pinned' = [pinned EXCEPT ![p] = TRUE]
  /\ Goto(p, "fchmod")
  /\ UNCHANGED << sys, job, todo, tmp, changed, before >>

FChmod(p) ==
  /\ At(p, "fchmod")
  /\ dir' = IF pinned[p] THEN [dir EXCEPT ![Path(p)].mode = Perms(p).mode] ELSE dir
  /\ Goto(p, "fchown")
  /\ UNCHANGED << durable, leaked, faults, author, job, todo, tmp, pinned,
                  changed, before >>

\* Mutant: the last file's changed overwrites the call's.
FChownLastWins(p) ==
  /\ At(p, "fchown")
  /\ dir' = IF pinned[p] THEN [dir EXCEPT ![Path(p)].owner = Perms(p).owner] ELSE dir
  /\ pinned' = [pinned EXCEPT ![p] = FALSE]
  /\ changed' = [changed EXCEPT ![p] = FALSE]
  /\ SlotDone(p)
  /\ UNCHANGED << durable, leaked, faults, author, job, tmp, before >>

FChown(p) ==
  /\ At(p, "fchown")
  /\ dir' = IF pinned[p] THEN [dir EXCEPT ![Path(p)].owner = Perms(p).owner] ELSE dir
  /\ pinned' = [pinned EXCEPT ![p] = FALSE]
  /\ SlotDone(p)
  /\ UNCHANGED << durable, leaked, faults, author, job, tmp, changed, before >>

EnforceFails(p) ==
  /\ pc[p] \in {"open", "fchmod", "fchown"}
  /\ pinned' = [pinned EXCEPT ![p] = FALSE]
  /\ Goto(p, "failed")
  /\ UNCHANGED << sys, job, todo, tmp, changed, before >>

(* --------------------- Return, crashes, other actors ------------------- *)

\* The processes in P are idle again, their calls forgotten.
Reset(P) ==
  /\ pc' = [p \in Procs |-> IF p \in P THEN "idle" ELSE pc[p]]
  /\ job' = [p \in Procs |-> IF p \in P THEN NoJob ELSE job[p]]
  /\ todo' = [p \in Procs |-> IF p \in P THEN {} ELSE todo[p]]
  /\ tmp' = [p \in Procs |-> IF p \in P THEN NoInode ELSE tmp[p]]
  /\ pinned' = [p \in Procs |-> p \notin P /\ pinned[p]]
  /\ changed' = [p \in Procs |-> p \notin P /\ changed[p]]
  /\ before' = [p \in Procs |-> IF p \in P THEN Unknown ELSE before[p]]
  /\ author' = [path \in Paths |-> IF author[path] \in P THEN Nobody ELSE author[path]]

Return(p) ==
  /\ pc[p] \in {"ok", "failed"}
  /\ Reset({p})
  /\ UNCHANGED << dir, durable, leaked, faults >>

Fault == faults < MaxFaults /\ faults' = faults + 1

\* SIGKILL: what was staged stays behind.
Kill(p) ==
  /\ ~At(p, "idle")
  /\ Fault
  /\ leaked' = (leaked \/ tmp[p] # NoInode)
  /\ Reset({p})
  /\ UNCHANGED << dir, durable >>

\* The journal commits the directory and the inodes' metadata.  (Which no
\* longer matters once MaxFaults rules a power loss out.)
Flush ==
  /\ durable # dir
  /\ faults < MaxFaults
  /\ durable' = dir
  /\ UNCHANGED << dir, leaked, faults, author, local >>

\* The directory comes back as the journal has it; data that nobody synced
\* comes back torn.
AfterPowerLoss(f) == IF f.synced THEN f ELSE [f EXCEPT !.content = Torn]

PowerLoss ==
  /\ Fault
  /\ dir' = [path \in Paths |-> AfterPowerLoss(durable[path])]
  /\ durable' = dir'
  /\ leaked' = (leaked \/ \E p \in Procs : tmp[p] # NoInode)
  /\ Reset(Procs)

\* Another actor removes the file, replaces it by something that is not a
\* regular file, or changes its mode and owner.
Meddle(path) ==
  /\ Fault
  /\ \/ /\ dir[path].kind = "regular"
        /\ dir' = [dir EXCEPT ![path].mode = ForeignPerms.mode,
                              ![path].owner = ForeignPerms.owner]
        /\ UNCHANGED pinned
     \/ /\ \E f \in {Absent, Special} : dir' = [dir EXCEPT ![path] = f]
        /\ Unlink(path)
  /\ dir' # dir
  /\ before' = [p \in Procs |-> Unknown]
  /\ author' = [author EXCEPT ![path] = Nobody]
  /\ UNCHANGED << durable, leaked, pc, job, todo, tmp, changed >>

Step(p) ==
  \/ Begin(p) \/ BeginFails(p) \/ Read(p) \/ ReadFails(p)
  \/ Create(p) \/ Fill(p) \/ Sync(p) \/ Chmod(p) \/ Chown(p) \/ Close(p)
  \/ Rename(p) \/ StageFails(p)
  \/ Open(p) \/ FChmod(p) \/ FChown(p) \/ EnforceFails(p)
  \/ Return(p)

Next ==
  \/ \E p \in Procs : Step(p) \/ Kill(p)
  \/ \E path \in Paths : Meddle(path)
  \/ Flush
  \/ PowerLoss

Spec == Init /\ [][Next]_vars

(* ----------------------------- Properties ------------------------------ *)

WholeContents == { Content(a[1], a[2], m) : a \in Asked, m \in Materials }
AllPerms      == { PermsOf(a[1], a[2]) : a \in Asked } \cup {TempPerms, ForeignPerms}

Inodes == [kind : {"absent", "regular", "special", "none"},
           content : WholeContents \cup {<< >>, Torn},
           mode : { q.mode : q \in AllPerms },
           owner : { q.owner : q \in AllPerms },
           synced : BOOLEAN]

Labels == Staging \cup {"idle", "read", "open", "fchmod", "fchown", "ok", "failed"}

\* Types; and a call that is neither idle nor over has a slot to work on.
TypeOK ==
  /\ dir \in [Paths -> Inodes]
  /\ durable \in [Paths -> Inodes]
  /\ pc \in [Procs -> Labels]
  /\ job \in [Procs -> [cfg : Configs, mat : Materials]]
  /\ todo \in [Procs -> SUBSET AllSlots]
  /\ tmp \in [Procs -> Inodes]
  /\ pinned \in [Procs -> BOOLEAN]
  /\ changed \in [Procs -> BOOLEAN]
  /\ leaked \in BOOLEAN
  /\ faults \in 0..MaxFaults
  /\ author \in [Paths -> Procs \cup {Nobody}]
  /\ \A p \in Procs : pc[p] \notin {"idle", "ok", "failed"} => todo[p] # {}

\* What a Write call that returned without error has established: unless
\* somebody else touched the directory meanwhile, every declared file holds
\* the call's material under its configured mode and owner, whether the file
\* was missing, stale, or unchanged with drifted perms (writer.go, Write).
WriteApplied ==
  \A p \in Procs : At(p, "ok") /\ Undisturbed(p) =>
    \A s \in Declared(job[p].cfg) :
      dir[PathOf(job[p].cfg, s)] =
        Inode("regular", Content(job[p].cfg, s, job[p].mat), PermsOf(job[p].cfg, s))

\* Result.Changed, which alone decides whether the consumer is reloaded, is
\* true of a completed call exactly when some file differs from what was
\* there before the call.
ChangedIsTruthful ==
  \A p \in Procs : At(p, "ok") /\ Undisturbed(p) => (changed[p] <=> before[p] # Held)

\* With several agents at work, whoever put a file where it is reports the
\* change when its call completes, whatever the others did in between.
EveryChangeReported ==
  \A path \in Paths, p \in Procs :
    author[path] = p /\ At(p, "ok") => changed[p]

\* Overlapping calls never leave a file of theirs with a mode or owner that no
\* config asks for there, not even when one replaces the file another is
\* enforcing perms on (writer.go, enforcePerms).
AskedFor(path) ==
  { PermsOf(a[1], a[2]) : a \in { b \in Asked : PathOf(b[1], b[2]) = path } }

PermsSettle ==
  \A p \in Procs : At(p, "ok") /\ faults = 0 =>
    \A s \in Declared(job[p].cfg) :
      LET path == PathOf(job[p].cfg, s)
      IN  /\ \E q \in AskedFor(path) : dir[path].mode = q.mode
          /\ \E q \in AskedFor(path) : dir[path].owner = q.owner

\* A temp file, which may hold the key, never outlives the call that staged
\* it, on any of atomicWrite's error paths: only a kill, a power loss or a
\* failed remove leaves one behind.
TempAccounted ==
  /\ \A p \in Procs : pc[p] \notin Staging => tmp[p] = NoInode
  /\ leaked => faults > 0

(* ----------------------------- Refinement ------------------------------ *)

\* What a reader sees of an inode.
Seen(inode) == [kind |-> inode.kind, content |-> inode.content,
                mode |-> inode.mode, owner |-> inode.owner]

WantedAt(path) ==
  { Seen(Inode("regular", Content(a[1], a[2], m), PermsOf(a[1], a[2]))) :
      a \in { b \in Asked : PathOf(b[1], b[2]) = path }, m \in Materials }

ForeignVersions ==
  { Seen(Absent), Seen(Special) }
    \cup { Seen(Inode("regular", c, ForeignPerms)) : c \in WholeContents }

Atomic == INSTANCE AtomicFiles WITH
  Paths   <- Paths,
  Wanted  <- [path \in Paths |-> WantedAt(path)],
  Foreign <- ForeignVersions,
  files   <- [path \in Paths |-> Seen(dir[path])],
  saved   <- [path \in Paths |-> Seen(durable[path])]

\* Readers never see a partial or wrong-permissioned file (writer.go,
\* atomicWrite), through failures, kills, races and power losses.
ImplementsAtomicFiles == Atomic!Spec
=============================================================================
