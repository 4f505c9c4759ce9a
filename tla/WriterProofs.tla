---------------------------- MODULE WriterProofs ----------------------------
(***************************************************************************)
(* Proofs about Writer, for any number of processes, any configs that      *)
(* config.Validate accepts, any material and any number of faults.         *)
(***************************************************************************)
EXTENDS Writer, TLAPS

(* ---------------------------- The invariant ---------------------------- *)

Filled == {"sync", "chmod", "chown", "close", "rename"}

\* What the calls made so far have put into p's staged file.
Partial(p) ==
  /\ pc[p] \in Filled \cup {"fill"} => tmp[p].kind = "regular"
  /\ pc[p] \in Filled => tmp[p].content = Bytes(p)
  /\ pc[p] \in Filled \ {"sync"} => tmp[p].synced
  /\ pc[p] \in {"chown", "close", "rename"} => tmp[p].mode = Perms(p).mode
  /\ pc[p] \in {"close", "rename"} => tmp[p].owner = Perms(p).owner

\* A call under way has a slot of its config to work on; the file it stages
\* is as far as the call is, and the file it has open is a regular one.
CallOK(p) ==
  /\ todo[p] \subseteq Declared(job[p].cfg)
  /\ pc[p] \notin {"idle", "ok", "failed"} => todo[p] # {}
  /\ pc[p] \notin Staging => tmp[p] = NoInode
  /\ Partial(p)
  /\ pinned[p] => pc[p] \in {"fchmod", "fchown"} /\ dir[Path(p)].kind = "regular"

\* Nothing comes to a path before its data was synced.
AllSynced == \A path \in Paths : dir[path].synced /\ durable[path].synced

TypeInv ==
  /\ TypeOK
  /\ TempAccounted
  /\ AllSynced
  /\ \A p \in Procs : CallOK(p)

(* ----------------------- Slots, paths and inodes ----------------------- *)

LEMMA DeclaredSlots == ASSUME NEW c PROVE Declared(c) \subseteq AllSlots
BY DEF Declared, AllSlots

\* A call with slots left has a next one.
LEMMA NextSlot ==
  ASSUME NEW T \in SUBSET AllSlots, T # {}
  PROVE  \E s \in T : IsNext(s, T)
<1>1. CASE "cert" \in T
  BY <1>1 DEF IsNext, Rank, AllSlots, SplitSlots
<1>2. CASE "bundle" \in T
  BY <1>2 DEF IsNext, Rank, AllSlots, SplitSlots
<1>3. CASE "cert" \notin T /\ "bundle" \notin T /\ "key" \in T
  BY <1>3 DEF IsNext, Rank, AllSlots, SplitSlots
<1>4. CASE "cert" \notin T /\ "bundle" \notin T /\ "key" \notin T /\ "ca" \in T
  BY <1>4 DEF IsNext, Rank, AllSlots, SplitSlots
<1>5. CASE T \cap {"cert", "bundle", "key", "ca"} = {} /\ "fullchain" \in T
  BY <1>5 DEF IsNext, Rank, AllSlots, SplitSlots
<1>6. \E s \in {"cert", "key", "ca", "fullchain", "bundle"} : s \in T
  BY DEF AllSlots, SplitSlots
<1> QED  BY <1>6, <1>1, <1>2, <1>3, <1>4, <1>5

\* A declared slot leads to a managed path, a whole content and known perms.
LEMMA AskedFacts ==
  ASSUME NEW c \in Configs, NEW s \in Declared(c), NEW m \in Materials
  PROVE  /\ << c, s >> \in Asked
         /\ PathOf(c, s) \in Paths
         /\ Content(c, s, m) \in WholeContents
         /\ PermsOf(c, s) \in AllPerms
         /\ PermsOf(c, s) \in AskedFor(PathOf(c, s))
<1>1. << c, s >> \in Asked
  BY DeclaredSlots DEF Asked
<1>2. << c, s >>[1] = c /\ << c, s >>[2] = s
  OBVIOUS
<1>3. PathOf(c, s) \in Paths
  BY <1>1, <1>2 DEF Paths
<1>4. Content(c, s, m) \in WholeContents
  BY <1>1, <1>2 DEF WholeContents
<1>5. PermsOf(c, s) \in AllPerms /\ PermsOf(c, s) \in AskedFor(PathOf(c, s))
  BY <1>1, <1>2 DEF AllPerms, AskedFor
<1> QED  BY <1>1, <1>3, <1>4, <1>5

\* The slot a call is at, its path, content and perms.
LEMMA SlotFacts ==
  ASSUME TypeOK, NEW p \in Procs, CallOK(p), todo[p] # {}
  PROVE  /\ Slot(p) \in todo[p] /\ Slot(p) \in Declared(job[p].cfg)
         /\ << job[p].cfg, Slot(p) >> \in Asked
         /\ Path(p) \in Paths
         /\ Bytes(p) \in WholeContents
         /\ Perms(p) \in AllPerms /\ Perms(p) \in AskedFor(Path(p))
<1>1. todo[p] \in SUBSET AllSlots /\ job[p].cfg \in Configs /\ job[p].mat \in Materials
  BY DEF TypeOK
<1>2. Slot(p) \in todo[p]
  BY <1>1, NextSlot DEF Slot
<1>3. Slot(p) \in Declared(job[p].cfg)
  BY <1>2 DEF CallOK
<1> QED  BY <1>1, <1>2, <1>3, AskedFacts DEF Path, Bytes, Perms

\* Every inode the model mentions is one.
LEMMA InodeFacts ==
  /\ NoInode \in Inodes /\ Absent \in Inodes /\ Special \in Inodes /\ Staged \in Inodes
  /\ Absent.synced /\ Special.synced /\ Staged.kind = "regular"
<1>1. TempPerms \in AllPerms /\ ForeignPerms \in AllPerms
  BY DEF AllPerms
<1> QED  BY <1>1 DEF Inodes, Inode, NoInode, Absent, Special, Staged

\* A file of known content and perms is an inode.
LEMMA InodeKnown ==
  ASSUME NEW content \in WholeContents, NEW perms \in AllPerms
  PROVE  Inode("regular", content, perms) \in Inodes
BY DEF Inode, Inodes

\* One field of an inode may change within its range.
LEMMA InodeField ==
  ASSUME NEW f \in Inodes, NEW perms \in AllPerms, NEW content \in WholeContents \cup {Torn}
  PROVE  /\ [f EXCEPT !.content = content] \in Inodes
         /\ [f EXCEPT !.synced = TRUE] \in Inodes
         /\ [f EXCEPT !.mode = perms.mode] \in Inodes
         /\ [f EXCEPT !.owner = perms.owner] \in Inodes
         /\ [f EXCEPT !.mode = perms.mode, !.owner = perms.owner] \in Inodes
BY DEF Inodes

\* An idle process holds a job as well.
LEMMA NoJobFacts == NoJob \in [cfg : Configs, mat : Materials]
<1>1. (CHOOSE c \in Configs : TRUE) \in Configs /\ (CHOOSE m \in Materials : TRUE) \in Materials
  BY WriterAssumption
<1> QED  BY <1>1 DEF NoJob
\* A call keeps its slot, path, content and perms as long as it keeps its job
\* and the slots it has left.
LEMMA SameCall ==
  ASSUME NEW q \in Procs, todo'[q] = todo[q], job'[q] = job[q]
  PROVE  /\ Slot(q)' = Slot(q) /\ Path(q)' = Path(q)
         /\ Bytes(q)' = Bytes(q) /\ Perms(q)' = Perms(q)
<1>1. Slot(q)' = Slot(q)
  BY Zenon DEF Slot
<1> QED  BY <1>1, Zenon DEF Path, Bytes, Perms

\* A step of one process leaves the calls of the others alone, but for the
\* file they have open and the trust in what they found.
LEMMA OtherCalls ==
  ASSUME TypeOK, NEW p \in Procs, Step(p) \/ Kill(p), NEW q \in Procs, q # p
  PROVE  /\ pc'[q] = pc[q] /\ job'[q] = job[q] /\ todo'[q] = todo[q]
         /\ tmp'[q] = tmp[q] /\ changed'[q] = changed[q]
         /\ pinned'[q] => pinned[q]
         /\ before'[q] \in {before[q], Unknown}
<1> USE DEF TypeOK
<1>1. CASE Begin(p)
  BY <1>1 DEF Begin, Goto
<1>2. CASE BeginFails(p) \/ Read(p) \/ ReadFails(p) \/ Open(p) \/ EnforceFails(p) \/ StageFails(p)
  BY <1>2 DEF BeginFails, Read, ReadFails, Open, EnforceFails, StageFails, Cleanup, Goto
<1>3. CASE \/ Create(p) \/ Fill(p) \/ Sync(p)
           \/ Chmod(p) \/ Chown(p) \/ Close(p)
  BY <1>3 DEF Create, Fill, Sync, Chmod, Chown, Close, Stage, Goto
<1>4. CASE Rename(p)
  BY <1>4 DEF Rename, SlotDone, Unlink, Goto
<1>5. CASE FChmod(p) \/ FChown(p)
  BY <1>5 DEF FChmod, FChown, SlotDone, Goto
<1>6. CASE Return(p) \/ Kill(p)
  BY <1>6 DEF Return, Kill, Reset
<1> QED  BY <1>1, <1>2, <1>3, <1>4, <1>5, <1>6 DEF Step
(* ------------------------------- Types --------------------------------- *)

\* What a rename or an enforced mode or owner makes of the managed paths.
LEMMA DirStep ==
  ASSUME TypeInv, NEW p \in Procs, Step(p)
  PROVE  /\ dir' \in [Paths -> Inodes] /\ durable' = durable
         /\ \A path \in Paths :
              /\ dir'[path].synced
              /\ dir[path].kind = "regular" => dir'[path].kind = "regular"
<1> USE DEF TypeInv
<1>1. dir \in [Paths -> Inodes] /\ \A path \in Paths : dir[path].synced
  BY DEF TypeOK, AllSynced
<1>2. CASE Rename(p)
  <2>1. todo[p] # {} /\ tmp[p].synced /\ tmp[p].kind = "regular" /\ tmp[p] \in Inodes
    BY <1>2 DEF Rename, At, CallOK, Partial, Filled, TypeOK
  <2>2. Path(p) \in Paths
    BY <2>1, SlotFacts
  <2> QED  BY <1>1, <1>2, <2>1, <2>2 DEF Rename
<1>3. CASE FChmod(p) \/ FChown(p)
  <2>1. todo[p] # {}
    BY <1>3 DEF FChmod, FChown, At, CallOK
  <2>2. Path(p) \in Paths /\ Perms(p) \in AllPerms
    BY <2>1, SlotFacts
  <2>3. dir[Path(p)] \in Inodes
    BY <1>1, <2>2
  <2> DEFINE modeSet  == [dir[Path(p)] EXCEPT !.mode = Perms(p).mode]
             ownerSet == [dir[Path(p)] EXCEPT !.owner = Perms(p).owner]
  <2>4. modeSet \in Inodes /\ ownerSet \in Inodes
    BY <2>2, <2>3 DEF Inodes
  <2>5. /\ modeSet.kind = dir[Path(p)].kind /\ modeSet.synced = dir[Path(p)].synced
        /\ ownerSet.kind = dir[Path(p)].kind /\ ownerSet.synced = dir[Path(p)].synced
    BY <2>3 DEF Inodes
  <2>6. \/ dir' = dir
        \/ dir' = [dir EXCEPT ![Path(p)] = modeSet]
        \/ dir' = [dir EXCEPT ![Path(p)] = ownerSet]
    BY <1>3 DEF FChmod, FChown
  <2>7. durable' = durable
    BY <1>3 DEF FChmod, FChown
  <2> HIDE DEF modeSet, ownerSet
  <2> QED  BY <1>1, <2>2, <2>4, <2>5, <2>6, <2>7
<1>4. ASSUME ~(Rename(p) \/ FChmod(p) \/ FChown(p))
      PROVE  UNCHANGED << dir, durable >>
  BY <1>4 DEF Step, Begin, BeginFails, Read, ReadFails, Create, Fill, Sync, Chmod, Chown,
              Close, Stage, StageFails, Open, EnforceFails, Return, sys
<1> QED  BY <1>1, <1>2, <1>3, <1>4

\* Types that a step of a process can disturb.
LocalTypes ==
  /\ pc \in [Procs -> Labels]
  /\ job \in [Procs -> [cfg : Configs, mat : Materials]]
  /\ todo \in [Procs -> SUBSET AllSlots]
  /\ tmp \in [Procs -> Inodes]
  /\ pinned \in [Procs -> BOOLEAN]
  /\ changed \in [Procs -> BOOLEAN]

GlobalTypes ==
  /\ leaked \in BOOLEAN
  /\ faults \in 0..MaxFaults
  /\ leaked => faults > 0
  /\ author \in [Paths -> Procs \cup {Nobody}]

\* A step of p that leaves p's own call in order leaves them all in order.
LEMMA Assemble ==
  ASSUME TypeInv, NEW p \in Procs, Step(p), CallOK(p)', LocalTypes', GlobalTypes'
  PROVE  TypeInv'
<1>1. /\ dir' \in [Paths -> Inodes] /\ durable' = durable
      /\ \A path \in Paths : /\ dir'[path].synced
                             /\ dir[path].kind = "regular" => dir'[path].kind = "regular"
  BY DirStep
<1>2. durable' \in [Paths -> Inodes] /\ AllSynced'
  BY <1>1 DEF TypeInv, TypeOK, AllSynced
<1>3. ASSUME NEW q \in Procs, q # p PROVE CallOK(q)'
  <2>1. /\ pc'[q] = pc[q] /\ job'[q] = job[q] /\ todo'[q] = todo[q] /\ tmp'[q] = tmp[q]
        /\ pinned'[q] => pinned[q]
    BY <1>3, OtherCalls DEF TypeInv
  <2>2. Path(q)' = Path(q) /\ Bytes(q)' = Bytes(q) /\ Perms(q)' = Perms(q)
    BY <2>1, SameCall
  <2>3. CallOK(q)
    BY DEF TypeInv
  <2>4. Partial(q)'
    BY <2>1, <2>2, <2>3 DEF CallOK, Partial
  <2>5. ASSUME pinned'[q] PROVE pc[q] \in {"fchmod", "fchown"} /\ dir'[Path(q)].kind = "regular"
    <3>1. pinned[q] /\ pc[q] \in {"fchmod", "fchown"} /\ dir[Path(q)].kind = "regular"
      BY <2>1, <2>3, <2>5 DEF CallOK
    <3>2. todo[q] # {}
      BY <2>3, <3>1 DEF CallOK
    <3>3. Path(q) \in Paths
      BY <2>3, <3>2, SlotFacts DEF TypeInv
    <3> QED  BY <1>1, <3>1, <3>3
  <2> QED  BY <2>1, <2>2, <2>3, <2>4, <2>5 DEF CallOK
<1>4. \A q \in Procs : CallOK(q)'
  BY <1>3
<1>5. /\ \A q \in Procs : pc'[q] \notin {"idle", "ok", "failed"} => todo'[q] # {}
      /\ \A q \in Procs : pc'[q] \notin Staging => tmp'[q] = NoInode
  BY <1>4 DEF CallOK
<1>6. TypeOK'
  BY <1>1, <1>2, <1>5 DEF TypeOK, LocalTypes, GlobalTypes
<1>7. TempAccounted'
  BY <1>5 DEF TempAccounted, GlobalTypes
<1> QED  BY <1>2, <1>4, <1>6, <1>7 DEF TypeInv

\* The steps that touch no file, staged or in place.
LEMMA TypeLook ==
  ASSUME TypeInv, NEW p \in Procs,
         BeginFails(p) \/ Read(p) \/ ReadFails(p) \/ Open(p) \/ EnforceFails(p)
  PROVE  TypeInv'
<1> USE DEF TypeInv
<1>1. /\ job' = job /\ todo' = todo /\ tmp' = tmp /\ changed' = changed
      /\ UNCHANGED sys
  BY DEF BeginFails, Read, ReadFails, Open, EnforceFails
<1>2. /\ pc'[p] \in {"failed", "open", "create", "fchmod"}
      /\ pc'[p] # "failed" => pc[p] \notin {"idle", "ok", "failed"}
      /\ pc[p] \notin Staging
      /\ pc' \in [Procs -> Labels]
  BY DEF TypeOK, BeginFails, Read, ReadFails, Open, EnforceFails, Goto, At, Labels, Staging
<1>3. /\ pinned' \in [Procs -> BOOLEAN]
      /\ pinned'[p] => pc'[p] = "fchmod" /\ dir[Path(p)].kind = "regular"
  <2>1. CASE Open(p)
    BY <2>1 DEF Open, TypeOK, Goto
  <2>2. CASE EnforceFails(p)
    BY <2>2 DEF EnforceFails, TypeOK
  <2>3. CASE BeginFails(p) \/ Read(p) \/ ReadFails(p)
    BY <2>3 DEF BeginFails, Read, ReadFails, TypeOK, CallOK, At
  <2> QED  BY <2>1, <2>2, <2>3
<1>4. LocalTypes' /\ GlobalTypes'
  BY <1>1, <1>2, <1>3 DEF LocalTypes, GlobalTypes, TypeOK, TempAccounted, sys
<1>5. CallOK(p)'
  <2>1. Path(p)' = Path(p)
    BY <1>1, SameCall
  <2>2. tmp[p] = NoInode /\ CallOK(p)
    BY <1>2 DEF CallOK
  <2>3. Partial(p)'
    BY <1>2 DEF Partial, Filled
  <2> QED  BY <1>1, <1>2, <1>3, <2>1, <2>2, <2>3 DEF CallOK, sys
<1> QED  BY <1>4, <1>5, Assemble DEF Step

\* The steps that stage a file, and the end of one that fails.
LEMMA TypeStaging ==
  ASSUME TypeInv, NEW p \in Procs,
         \/ Create(p) \/ Fill(p) \/ Sync(p) \/ Chmod(p) \/ Chown(p) \/ Close(p)
         \/ StageFails(p)
  PROVE  TypeInv'
<1> USE DEF TypeInv
<1>1. /\ job' = job /\ todo' = todo /\ pinned' = pinned /\ changed' = changed
      /\ UNCHANGED << dir, durable, author >>
      /\ pc[p] \in Staging
  BY DEF Create, Fill, Sync, Chmod, Chown, Close, Stage, StageFails, At, Staging, sys
<1>2. todo[p] # {} /\ ~pinned[p] /\ todo[p] \subseteq Declared(job[p].cfg)
  BY <1>1 DEF CallOK, Staging
<1>3. Bytes(p) \in WholeContents /\ Perms(p) \in AllPerms
  BY <1>2, SlotFacts
<1>4. Bytes(p)' = Bytes(p) /\ Perms(p)' = Perms(p)
  BY <1>1, SameCall
<1>5. tmp[p] \in Inodes /\ Staged \in Inodes /\ NoInode \in Inodes
  BY InodeFacts DEF TypeOK
<1>6. /\ [tmp[p] EXCEPT !.content = Bytes(p)] \in Inodes
      /\ [tmp[p] EXCEPT !.synced = TRUE] \in Inodes
      /\ [tmp[p] EXCEPT !.mode = Perms(p).mode] \in Inodes
      /\ [tmp[p] EXCEPT !.owner = Perms(p).owner] \in Inodes
  BY <1>3, <1>5 DEF Inodes
<1>7. GlobalTypes'
  <2>1. CASE StageFails(p)
    <3>1. faults \in Nat /\ MaxFaults \in Nat /\ leaked \in BOOLEAN /\ faults <= MaxFaults
      BY WriterAssumption DEF TypeOK
    <3>2. /\ leaked' \in BOOLEAN
          /\ \/ leaked' = leaked /\ faults' = faults
             \/ leaked' = TRUE /\ faults' = faults + 1 /\ faults < MaxFaults
      BY <2>1, <3>1 DEF StageFails, Cleanup
    <3>3. faults' \in 0..MaxFaults /\ (leaked' => faults' > 0)
      BY <3>1, <3>2 DEF TempAccounted
    <3> QED  BY <1>1, <3>2, <3>3 DEF GlobalTypes, TypeOK
  <2>2. CASE ~StageFails(p)
    <3>1. leaked' = leaked /\ faults' = faults
      BY <2>2 DEF Create, Fill, Sync, Chmod, Chown, Close, Stage, sys
    <3> QED  BY <1>1, <3>1 DEF GlobalTypes, TypeOK, TempAccounted
  <2> QED  BY <2>1, <2>2
<1>8. LocalTypes' /\ tmp'[p] \in Inodes
  <2>1. pc' \in [Procs -> Labels]
    BY DEF TypeOK, Create, Fill, Sync, Chmod, Chown, Close, Stage, StageFails, Goto,
           Labels, Staging
  <2>2. tmp' \in [Procs -> Inodes]
    BY <1>5, <1>6 DEF TypeOK, Create, Fill, Sync, Chmod, Chown, Close, Stage, StageFails,
                      Cleanup
  <2> QED  BY <1>1, <2>1, <2>2 DEF LocalTypes, TypeOK
<1>9. Partial(p)' /\ (pc'[p] \notin Staging => tmp'[p] = NoInode)
  <2>1. CASE Create(p)
    <3>1. pc'[p] = "fill" /\ tmp'[p] = Staged
      BY <2>1 DEF Create, Stage, Goto, TypeOK
    <3> QED  BY <3>1, InodeFacts DEF Partial, Filled, Staging
  <2>2. CASE Fill(p)
    <3>1. pc'[p] = "sync" /\ tmp'[p] = [tmp[p] EXCEPT !.content = Bytes(p)] /\ pc[p] = "fill"
      BY <2>2 DEF Fill, Stage, Goto, TypeOK, At
    <3>2. tmp[p].kind = "regular"
      BY <3>1 DEF CallOK, Partial
    <3> QED  BY <1>4, <1>5, <3>1, <3>2 DEF Partial, Filled, Staging, Inodes
  <2>3. CASE Sync(p)
    <3>1. pc'[p] = "chmod" /\ tmp'[p] = [tmp[p] EXCEPT !.synced = TRUE] /\ pc[p] = "sync"
      BY <2>3 DEF Sync, Stage, Goto, TypeOK, At
    <3>2. tmp[p].kind = "regular" /\ tmp[p].content = Bytes(p)
      BY <3>1 DEF CallOK, Partial, Filled
    <3> QED  BY <1>4, <1>5, <3>1, <3>2 DEF Partial, Filled, Staging, Inodes
  <2>4. CASE Chmod(p)
    <3>1. pc'[p] = "chown" /\ tmp'[p] = [tmp[p] EXCEPT !.mode = Perms(p).mode] /\ pc[p] = "chmod"
      BY <2>4 DEF Chmod, Stage, Goto, TypeOK, At
    <3>2. tmp[p].kind = "regular" /\ tmp[p].content = Bytes(p) /\ tmp[p].synced
      BY <3>1 DEF CallOK, Partial, Filled
    <3> QED  BY <1>4, <1>5, <3>1, <3>2 DEF Partial, Filled, Staging, Inodes
  <2>5. CASE Chown(p)
    <3>1. pc'[p] = "close" /\ tmp'[p] = [tmp[p] EXCEPT !.owner = Perms(p).owner] /\ pc[p] = "chown"
      BY <2>5 DEF Chown, Stage, Goto, TypeOK, At
    <3>2. /\ tmp[p].kind = "regular" /\ tmp[p].content = Bytes(p) /\ tmp[p].synced
          /\ tmp[p].mode = Perms(p).mode
      BY <3>1 DEF CallOK, Partial, Filled
    <3> QED  BY <1>4, <1>5, <3>1, <3>2 DEF Partial, Filled, Staging, Inodes
  <2>6. CASE Close(p)
    <3>1. pc'[p] = "rename" /\ tmp'[p] = tmp[p] /\ pc[p] = "close"
      BY <2>6 DEF Close, Stage, Goto, TypeOK, At
    <3> QED  BY <1>4, <3>1 DEF Partial, CallOK, Filled, Staging
  <2>7. CASE StageFails(p)
    <3>1. pc'[p] = "failed" /\ tmp'[p] = NoInode
      BY <2>7 DEF StageFails, Cleanup, Goto, TypeOK
    <3> QED  BY <3>1 DEF Partial, Filled
  <2> QED  BY <2>1, <2>2, <2>3, <2>4, <2>5, <2>6, <2>7
<1>10. CallOK(p)'
  BY <1>1, <1>2, <1>9 DEF CallOK
<1> QED  BY <1>7, <1>8, <1>10, Assemble DEF Step

\* A slot is done: the call goes on to the next one, or is over.
LEMMA SlotDoneFacts ==
  ASSUME TypeInv, NEW p \in Procs, todo[p] # {}, SlotDone(p)
  PROVE  /\ todo' \in [Procs -> SUBSET AllSlots] /\ pc' \in [Procs -> Labels]
         /\ todo'[p] = todo[p] \ {Slot(p)}
         /\ pc'[p] \in {"ok", "read"} /\ (pc'[p] = "read" => todo'[p] # {})
         /\ pc'[p] = "ok" => todo'[p] = {}
<1>1. todo \in [Procs -> SUBSET AllSlots] /\ pc \in [Procs -> Labels]
  BY DEF TypeInv, TypeOK
<1>2. todo'[p] = todo[p] \ {Slot(p)} /\ todo' \in [Procs -> SUBSET AllSlots]
  BY <1>1 DEF SlotDone
<1>3. /\ pc'[p] = IF todo[p] = {Slot(p)} THEN "ok" ELSE "read"
      /\ pc' \in [Procs -> Labels]
  BY <1>1 DEF SlotDone, Goto, Labels
<1>4. todo[p] # {Slot(p)} => todo[p] \ {Slot(p)} # {}
  OBVIOUS
<1> QED  BY <1>2, <1>3, <1>4

LEMMA TypeBegin == ASSUME TypeInv, NEW p \in Procs, Begin(p) PROVE TypeInv'
<1> USE DEF TypeInv
<1>1. PICK c \in Configs, m \in Materials :
        /\ job' = [job EXCEPT ![p] = [cfg |-> c, mat |-> m]]
        /\ todo' = [todo EXCEPT ![p] = Declared(c)]
  BY DEF Begin
<1>2. Declared(c) \in SUBSET AllSlots /\ Declared(c) # {}
  BY DeclaredSlots, WriterAssumption
<1>3. LocalTypes'
  BY <1>1, <1>2 DEF LocalTypes, TypeOK, Begin, Goto, Labels
<1>4. GlobalTypes'
  BY DEF GlobalTypes, TypeOK, TempAccounted, Begin
<1>5. /\ job'[p].cfg = c /\ todo'[p] = Declared(c) /\ pc'[p] = "read"
      /\ pc[p] = "idle" /\ tmp' = tmp /\ pinned' = pinned
  BY <1>1 DEF TypeOK, Begin, Goto, At
<1>6. tmp[p] = NoInode /\ ~pinned[p]
  BY <1>5 DEF CallOK, Staging
<1>7. CallOK(p)'
  BY <1>2, <1>5, <1>6 DEF CallOK, Partial, Filled, Staging
<1> QED  BY <1>3, <1>4, <1>7, Assemble DEF Step

LEMMA TypeCommit ==
  ASSUME TypeInv, NEW p \in Procs, Rename(p) \/ FChmod(p) \/ FChown(p)
  PROVE  TypeInv'
<1> USE DEF TypeInv
<1>1. /\ todo[p] # {} /\ todo[p] \subseteq Declared(job[p].cfg)
      /\ job' = job /\ UNCHANGED << leaked, faults >>
  BY DEF Rename, FChmod, FChown, At, CallOK
<1>2. Path(p) \in Paths
  BY <1>1, SlotFacts
<1>3. GlobalTypes'
  BY <1>1, <1>2 DEF GlobalTypes, TypeOK, TempAccounted, Rename, FChmod, FChown
<1>4. CASE Rename(p)
  <2>1. NoInode \in Inodes
    BY InodeFacts
  <2>2. /\ tmp' \in [Procs -> Inodes] /\ tmp'[p] = NoInode
        /\ changed' \in [Procs -> BOOLEAN] /\ pinned' \in [Procs -> BOOLEAN]
        /\ SlotDone(p)
    BY <1>4, <2>1 DEF Rename, Unlink, TypeOK
  <2>3. ~pinned'[p]
    BY <1>4 DEF Rename, Unlink, At, CallOK
  <2>4. LocalTypes'
    BY <1>1, <2>2, SlotDoneFacts DEF LocalTypes, TypeOK
  <2>5. CallOK(p)'
    BY <1>1, <2>2, <2>3, SlotDoneFacts DEF CallOK, Partial, Filled
  <2> QED  BY <1>3, <1>4, <2>4, <2>5, Assemble DEF Step
<1>5. CASE FChmod(p)
  <2>1. /\ pc' \in [Procs -> Labels] /\ pc'[p] = "fchown" /\ pc[p] = "fchmod"
        /\ UNCHANGED << job, todo, tmp, pinned, changed >>
    BY <1>5 DEF FChmod, TypeOK, Goto, Labels, At
  <2>2. LocalTypes'
    BY <1>1, <2>1 DEF LocalTypes, TypeOK
  <2>3. tmp[p] = NoInode /\ (pinned[p] => dir[Path(p)].kind = "regular")
    BY <2>1 DEF CallOK, Staging
  <2>4. pinned[p] => dir'[Path(p)].kind = "regular"
    BY <1>2, <1>5, <2>3, DirStep DEF Step
  <2>5. Path(p)' = Path(p)
    BY <2>1, SameCall
  <2>6. CallOK(p)'
    BY <1>1, <2>1, <2>3, <2>4, <2>5 DEF CallOK, Partial, Filled, Staging
  <2> QED  BY <1>3, <1>5, <2>2, <2>6, Assemble DEF Step
<1>6. CASE FChown(p)
  <2>1. /\ SlotDone(p) /\ UNCHANGED << job, tmp, changed >> /\ pc[p] = "fchown"
        /\ pinned' \in [Procs -> BOOLEAN] /\ ~pinned'[p]
    BY <1>6 DEF FChown, TypeOK, At
  <2>2. LocalTypes'
    BY <1>1, <2>1, SlotDoneFacts DEF LocalTypes, TypeOK
  <2>3. tmp[p] = NoInode
    BY <2>1 DEF CallOK, Staging
  <2>4. CallOK(p)'
    BY <1>1, <2>1, <2>3, SlotDoneFacts DEF CallOK, Partial, Filled
  <2> QED  BY <1>3, <1>6, <2>2, <2>4, Assemble DEF Step
<1> QED  BY <1>4, <1>5, <1>6

\* The end of calls, whatever ends them: those of other processes go on.
LEMMA TypeReset ==
  ASSUME TypeInv, NEW P \in SUBSET Procs, Reset(P),
         dir' \in [Paths -> Inodes], durable' \in [Paths -> Inodes], AllSynced',
         P = Procs \/ dir' = dir,
         leaked' \in BOOLEAN, faults' \in 0..MaxFaults, leaked' => faults' > 0
  PROVE  TypeInv'
<1> USE DEF TypeInv
<1>1. NoJob \in [cfg : Configs, mat : Materials] /\ NoInode \in Inodes
  BY NoJobFacts, InodeFacts
<1>2. LocalTypes'
  BY <1>1 DEF LocalTypes, TypeOK, Reset, Labels
<1>3. GlobalTypes'
  BY DEF GlobalTypes, TypeOK, Reset
<1>4. ASSUME NEW q \in P PROVE CallOK(q)'
  <2>1. pc'[q] = "idle" /\ todo'[q] = {} /\ tmp'[q] = NoInode /\ ~pinned'[q]
    BY DEF Reset
  <2> QED  BY <2>1 DEF CallOK, Partial, Filled
<1>5. ASSUME NEW q \in Procs \ P PROVE CallOK(q)'
  <2>1. /\ pc'[q] = pc[q] /\ job'[q] = job[q] /\ todo'[q] = todo[q] /\ tmp'[q] = tmp[q]
        /\ pinned'[q] => pinned[q]
        /\ dir' = dir
    BY DEF Reset
  <2>2. Path(q)' = Path(q) /\ Bytes(q)' = Bytes(q) /\ Perms(q)' = Perms(q)
    BY <2>1, SameCall
  <2>3. CallOK(q)
    OBVIOUS
  <2>4. Partial(q)'
    BY <2>1, <2>2, <2>3 DEF CallOK, Partial
  <2> QED  BY <2>1, <2>2, <2>3, <2>4 DEF CallOK
<1>6. \A q \in Procs : CallOK(q)'
  BY <1>4, <1>5
<1>7. /\ \A q \in Procs : pc'[q] \notin {"idle", "ok", "failed"} => todo'[q] # {}
      /\ \A q \in Procs : pc'[q] \notin Staging => tmp'[q] = NoInode
  BY <1>6 DEF CallOK
<1>8. TypeOK'
  BY <1>2, <1>3, <1>7 DEF TypeOK, LocalTypes, GlobalTypes
<1>9. TempAccounted'
  BY <1>7 DEF TempAccounted
<1> QED  BY <1>6, <1>8, <1>9

LEMMA FaultFacts ==
  ASSUME TypeOK, Fault
  PROVE  faults \in Nat /\ faults' = faults + 1 /\ faults' \in 0..MaxFaults /\ faults' > 0
BY WriterAssumption DEF TypeOK, Fault

LEMMA TypeEnds ==
  ASSUME TypeInv, (\E p \in Procs : Return(p) \/ Kill(p)) \/ PowerLoss
  PROVE  TypeInv'
<1> USE DEF TypeInv
<1>1. ASSUME NEW p \in Procs, Return(p) PROVE TypeInv'
  <2>1. Reset({p}) /\ UNCHANGED << dir, durable, leaked, faults >> /\ {p} \in SUBSET Procs
    BY <1>1 DEF Return
  <2> QED  BY <2>1, TypeReset DEF TypeOK, TempAccounted, AllSynced
<1>2. ASSUME NEW p \in Procs, Kill(p) PROVE TypeInv'
  <2>1. /\ Reset({p}) /\ UNCHANGED << dir, durable >> /\ {p} \in SUBSET Procs
        /\ Fault /\ leaked' \in BOOLEAN
    BY <1>2 DEF Kill, TypeOK
  <2> QED  BY <2>1, FaultFacts, TypeReset DEF TypeOK, AllSynced
<1>3. ASSUME PowerLoss PROVE TypeInv'
  <2>1. Reset(Procs) /\ Fault /\ leaked' \in BOOLEAN /\ Procs \in SUBSET Procs
    BY <1>3 DEF PowerLoss, TypeOK
  <2>2. dir' = durable /\ durable' = durable
    BY <1>3 DEF PowerLoss, AfterPowerLoss, TypeOK, AllSynced
  <2> QED  BY <2>1, <2>2, FaultFacts, TypeReset DEF TypeOK, AllSynced
<1> QED  BY <1>1, <1>2, <1>3

LEMMA TypeOutside ==
  ASSUME TypeInv, Flush \/ (\E path \in Paths : Meddle(path)) \/ UNCHANGED vars
  PROVE  TypeInv'
<1> USE DEF TypeInv
<1>1. /\ pc' = pc /\ job' = job /\ todo' = todo /\ tmp' = tmp /\ changed' = changed
      /\ leaked' = leaked
  BY DEF Flush, Meddle, vars, sys, local
<1>2. ASSUME NEW q \in Procs
      PROVE  Path(q)' = Path(q) /\ Bytes(q)' = Bytes(q) /\ Perms(q)' = Perms(q)
  BY <1>1, SameCall
<1>3. TempAccounted' /\ faults' \in 0..MaxFaults
  <2>1. faults' = faults \/ Fault
    BY DEF Flush, Meddle, vars, sys
  <2>2. faults' \in 0..MaxFaults /\ (faults > 0 => faults' > 0)
    BY <2>1, FaultFacts DEF TypeOK
  <2> QED  BY <1>1, <2>2 DEF TempAccounted
<1>4. CASE Flush \/ UNCHANGED vars
  <2>1. /\ dir' = dir /\ durable' \in {durable, dir} /\ pinned' = pinned /\ author' = author
        /\ faults' = faults
    BY <1>4 DEF Flush, vars, sys, local
  <2>2. TypeOK' /\ AllSynced'
    BY <1>1, <2>1 DEF TypeOK, AllSynced
  <2>3. \A q \in Procs : CallOK(q)'
    BY <1>1, <1>2, <2>1 DEF CallOK, Partial
  <2> QED  BY <1>3, <2>2, <2>3
<1>5. ASSUME NEW path \in Paths, Meddle(path) PROVE TypeInv'
  <2>1. dir \in [Paths -> Inodes] /\ ForeignPerms \in AllPerms
    BY DEF TypeOK, AllPerms
  <2> DEFINE loose == [dir[path] EXCEPT !.mode = ForeignPerms.mode,
                                        !.owner = ForeignPerms.owner]
  <2>2. /\ loose \in Inodes /\ loose.kind = dir[path].kind
        /\ loose.synced = dir[path].synced
    BY <2>1 DEF Inodes
  <2>3. \/ dir' = [dir EXCEPT ![path] = loose] /\ pinned' = pinned
        \/ /\ \E f \in {Absent, Special} : dir' = [dir EXCEPT ![path] = f]
           /\ Unlink(path)
    BY <1>5 DEF Meddle
  <2> HIDE DEF loose
  <2>4. dir' \in [Paths -> Inodes] /\ \A x \in Paths : dir'[x].synced
    BY <2>1, <2>2, <2>3, InodeFacts DEF AllSynced
  <2>5. AllSynced' /\ durable' = durable
    BY <1>5, <2>4 DEF Meddle, AllSynced
  <2>6. /\ pinned' \in [Procs -> BOOLEAN]
        /\ author' \in [Paths -> Procs \cup {Nobody}]
    BY <1>5, <2>3 DEF Meddle, Unlink, TypeOK
  <2>7. TypeOK'
    BY <1>1, <1>3, <2>4, <2>5, <2>6 DEF TypeOK
  <2>8. ASSUME NEW q \in Procs PROVE CallOK(q)'
    <3>1. Partial(q)'
      BY <1>1, <1>2 DEF CallOK, Partial
    <3>2. ASSUME pinned'[q]
          PROVE  pc[q] \in {"fchmod", "fchown"} /\ dir'[Path(q)].kind = "regular"
      <4>1. pinned[q] /\ (pinned' = pinned \/ Path(q) # path \/ todo[q] = {})
        BY <2>3, <3>2 DEF Unlink
      <4>2. /\ pc[q] \in {"fchmod", "fchown"} /\ dir[Path(q)].kind = "regular"
            /\ todo[q] # {}
        BY <4>1 DEF CallOK
      <4>3. Path(q) \in Paths
        BY <4>2, SlotFacts
      <4>4. CASE Path(q) # path
        BY <2>1, <2>3, <4>2, <4>3, <4>4
      <4>5. CASE Path(q) = path /\ pinned' = pinned
        <5>1. \/ dir' = [dir EXCEPT ![path] = loose]
              \/ ~pinned'[q]
          BY <2>3, <4>2, <4>5 DEF Unlink
        <5> QED  BY <2>1, <2>2, <3>2, <4>2, <4>5, <5>1
      <4> QED  BY <4>1, <4>2, <4>4, <4>5
    <3> QED  BY <1>1, <1>2, <3>1, <3>2 DEF CallOK
  <2> QED  BY <1>3, <2>5, <2>7, <2>8
<1> QED  BY <1>4, <1>5

LEMMA TypeInit == Init => TypeInv
<1> SUFFICES ASSUME Init PROVE TypeInv
  OBVIOUS
<1>1. dir \in [Paths -> Inodes] /\ \A path \in Paths : dir[path].synced
  <2>1. ASSUME NEW a \in Asked, NEW m \in Materials
        PROVE  LET f == Inode("regular", Content(a[1], a[2], m), ForeignPerms)
               IN  f \in Inodes /\ f.synced
    <3>1. Content(a[1], a[2], m) \in WholeContents /\ ForeignPerms \in AllPerms
      BY DEF WholeContents, AllPerms
    <3> QED  BY <3>1, InodeKnown DEF Inode
  <2>2. dir \in [Paths -> {f \in Inodes : f.synced}]
    BY <2>1, InodeFacts DEF Init
  <2> QED  BY <2>2
<1>2. NoJob \in [cfg : Configs, mat : Materials] /\ NoInode \in Inodes
  BY NoJobFacts, InodeFacts
<1>3. 0 \in 0..MaxFaults
  BY WriterAssumption
<1>4. TypeOK
  BY <1>1, <1>2, <1>3 DEF Init, TypeOK, Labels
<1> QED  BY <1>1, <1>4 DEF Init, TypeInv, TempAccounted, AllSynced, CallOK, Partial, Filled

LEMMA TypeStep == TypeInv /\ [Next]_vars => TypeInv'
<1> SUFFICES ASSUME TypeInv, [Next]_vars PROVE TypeInv'
  OBVIOUS
<1>1. ASSUME NEW p \in Procs, Step(p) PROVE TypeInv'
  BY <1>1, TypeBegin, TypeLook, TypeStaging, TypeCommit, TypeEnds DEF Step
<1> QED  BY <1>1, TypeEnds, TypeOutside DEF Next

LEMMA TypeAlways == Spec => []TypeInv
BY TypeInit, TypeStep, PTL DEF Spec

\* Every state is well-typed, and a call under way has a slot to work on
\* (writer.go, commitFile and atomicWrite).
THEOREM Typing == Spec => []TypeOK
<1>1. TypeInv => TypeOK
  BY DEF TypeInv
<1> QED  BY <1>1, TypeAlways, PTL

\* Whatever fails in atomicWrite, the temp file goes with the call that staged
\* it, unless a fault took the chance to remove it.
THEOREM TempAccountedHolds == Spec => []TempAccounted
<1>1. TypeInv => TempAccounted
  BY DEF TypeInv
<1> QED  BY <1>1, TypeAlways, PTL

(* ----------------------------- Refinement ------------------------------ *)

View(d) == [path \in Paths |-> Seen(d[path])]

\* A declared slot's material and perms are a version wanted at its path.
LEMMA WantedFacts ==
  ASSUME NEW c \in Configs, NEW s \in Declared(c), NEW m \in Materials
  PROVE  Seen(Inode("regular", Content(c, s, m), PermsOf(c, s))) \in WantedAt(PathOf(c, s))
<1> DEFINE a == << c, s >>
<1>1. a \in Asked /\ a[1] = c /\ a[2] = s
  BY AskedFacts
<1>2. a \in { b \in Asked : PathOf(b[1], b[2]) = PathOf(c, s) }
  BY <1>1
<1> HIDE DEF a
<1> QED  BY <1>1, <1>2 DEF WantedAt

\* The file p is about to rename is the one its slot asks for.
LEMMA StagedWhole ==
  ASSUME TypeInv, NEW p \in Procs, pc[p] = "rename"
  PROVE  tmp[p] = Inode("regular", Bytes(p), Perms(p))
<1>1. tmp[p] \in Inodes
  BY DEF TypeInv, TypeOK
<1>2. /\ tmp[p].kind = "regular" /\ tmp[p].content = Bytes(p) /\ tmp[p].synced = TRUE
      /\ tmp[p].mode = Perms(p).mode /\ tmp[p].owner = Perms(p).owner
  <2>1. tmp[p].synced
    BY DEF TypeInv, CallOK, Partial, Filled
  <2>2. tmp[p].synced \in BOOLEAN
    BY <1>1 DEF Inodes
  <2> QED  BY <2>1, <2>2 DEF TypeInv, CallOK, Partial, Filled
<1> QED  BY <1>1, <1>2 DEF Inodes, Inode

LEMMA InitMaps == Init => Atomic!Init
<1> SUFFICES ASSUME Init PROVE Atomic!Init
  OBVIOUS
<1>1. ASSUME NEW path \in Paths PROVE Seen(dir[path]) \in ForeignVersions
  <2>1. \/ dir[path] = Absent
        \/ \E c \in WholeContents : dir[path] = Inode("regular", c, ForeignPerms)
    BY DEF Init, WholeContents
  <2> QED  BY <2>1 DEF ForeignVersions
<1>2. [path \in Paths |-> Seen(dir[path])]
        \in [Paths -> UNION { Atomic!Versions(p) : p \in Paths }]
  BY <1>1 DEF Atomic!Versions
<1> QED  BY <1>2 DEF Init, Atomic!Init

LEMMA CommitMaps ==
  ASSUME TypeInv, NEW p \in Procs, Rename(p) \/ FChmod(p) \/ FChown(p)
  PROVE  Atomic!Next \/ UNCHANGED Atomic!vars
<1> USE DEF TypeInv
<1>1. /\ todo[p] # {} /\ durable' = durable /\ DOMAIN dir = Paths
  BY DEF Rename, FChmod, FChown, At, CallOK, TypeOK
<1>2. /\ Path(p) \in Paths /\ Slot(p) \in Declared(job[p].cfg)
      /\ job[p].cfg \in Configs /\ job[p].mat \in Materials
  BY <1>1, SlotFacts DEF TypeOK
<1> DEFINE want == Seen(Inode("regular", Bytes(p), Perms(p)))
           now  == dir[Path(p)]
<1>3. want \in WantedAt(Path(p))
  BY <1>2, WantedFacts DEF Bytes, Perms, Path
<1>4. want.mode = Perms(p).mode /\ want.owner = Perms(p).owner
  BY DEF Seen, Inode
<1>5. now \in Inodes
  BY <1>2 DEF TypeOK
<1>6. CASE Rename(p)
  <2>1. dir' = [dir EXCEPT ![Path(p)] = Inode("regular", Bytes(p), Perms(p))]
    BY <1>6, StagedWhole DEF Rename, At
  <2>2. View(dir') = [View(dir) EXCEPT ![Path(p)] = want]
    BY <1>1, <1>2, <2>1 DEF View
  <2> HIDE DEF want
  <2>3. Atomic!Publish(Path(p))
    BY <1>1, <1>2, <1>3, <2>2 DEF Atomic!Publish, View
  <2> QED  BY <1>2, <2>3 DEF Atomic!Next
<1>7. CASE (FChmod(p) \/ FChown(p)) /\ ~pinned[p]
  <2>1. dir' = dir
    BY <1>7 DEF FChmod, FChown
  <2> QED  BY <1>1, <2>1 DEF Atomic!vars
<1>8. CASE (FChmod(p) \/ FChown(p)) /\ pinned[p]
  <2>1. now.kind = "regular"
    BY <1>8 DEF CallOK
  <2>2. View(dir)[Path(p)].kind = "regular" /\ View(dir)[Path(p)] = Seen(now)
    BY <1>2, <2>1 DEF View, Seen
  <2>3. CASE FChmod(p)
    <3>1. dir' = [dir EXCEPT ![Path(p)] = [now EXCEPT !.mode = Perms(p).mode]]
      BY <1>8, <2>3 DEF FChmod
    <3>2. View(dir') = [View(dir) EXCEPT ![Path(p)] = Seen([now EXCEPT !.mode = Perms(p).mode])]
      BY <1>1, <1>2, <3>1 DEF View
    <3>3. Seen([now EXCEPT !.mode = Perms(p).mode]) = [Seen(now) EXCEPT !.mode = want.mode]
      BY <1>4, <1>5 DEF Seen, Inodes
    <3>4. View(dir') = [View(dir) EXCEPT ![Path(p)].mode = want.mode]
      BY <2>2, <3>2, <3>3
    <3> HIDE DEF want
    <3>5. Atomic!PutRight(Path(p))
      BY <1>1, <1>2, <1>3, <2>2, <3>4 DEF Atomic!PutRight, View
    <3> QED  BY <1>2, <3>5 DEF Atomic!Next
  <2>4. CASE FChown(p)
    <3>1. dir' = [dir EXCEPT ![Path(p)] = [now EXCEPT !.owner = Perms(p).owner]]
      BY <1>8, <2>4 DEF FChown
    <3>2. View(dir') = [View(dir) EXCEPT ![Path(p)] = Seen([now EXCEPT !.owner = Perms(p).owner])]
      BY <1>1, <1>2, <3>1 DEF View
    <3>3. Seen([now EXCEPT !.owner = Perms(p).owner]) = [Seen(now) EXCEPT !.owner = want.owner]
      BY <1>4, <1>5 DEF Seen, Inodes
    <3>4. View(dir') = [View(dir) EXCEPT ![Path(p)].owner = want.owner]
      BY <2>2, <3>2, <3>3
    <3> HIDE DEF want
    <3>5. Atomic!PutRight(Path(p))
      BY <1>1, <1>2, <1>3, <2>2, <3>4 DEF Atomic!PutRight, View
    <3> QED  BY <1>2, <3>5 DEF Atomic!Next
  <2> QED  BY <1>8, <2>3, <2>4
<1> QED  BY <1>6, <1>7, <1>8

\* A version whose mode and owner are both replaced.
LEMMA TwoFields ==
  ASSUME NEW f, NEW x, NEW y
  PROVE  [Seen(f) EXCEPT !.mode = x, !.owner = y]
           = [kind |-> f.kind, content |-> f.content, mode |-> x, owner |-> y]
<1> DEFINE g == [Seen(f) EXCEPT !.mode = x]
<1>1. g = [kind |-> f.kind, content |-> f.content, mode |-> x, owner |-> f.owner]
  BY DEF Seen
<1>2. [Seen(f) EXCEPT !.mode = x, !.owner = y] = [g EXCEPT !.owner = y]
  BY DEF Seen
<1> HIDE DEF g
<1>3. [g EXCEPT !.owner = y]
        = [kind |-> f.kind, content |-> f.content, mode |-> x, owner |-> y]
  BY <1>1
<1> QED  BY <1>2, <1>3

LEMMA MeddleMaps ==
  ASSUME TypeInv, NEW path \in Paths, Meddle(path)
  PROVE  Atomic!Next
<1> DEFINE now   == dir[path]
           loose == [now EXCEPT !.mode = ForeignPerms.mode, !.owner = ForeignPerms.owner]
<1>1. DOMAIN dir = Paths /\ now \in Inodes /\ durable' = durable
  BY DEF TypeInv, TypeOK, Meddle
<1>2. \/ dir' = [dir EXCEPT ![path] = loose]
      \/ \E f \in {Absent, Special} : dir' = [dir EXCEPT ![path] = f]
  BY DEF Meddle
<1>3. CASE dir' = [dir EXCEPT ![path] = loose]
  <2> DEFINE w == Seen(Absent)
  <2>1. View(dir') = [View(dir) EXCEPT ![path] = Seen(loose)]
    BY <1>1, <1>3 DEF View
  <2>2. w \in ForeignVersions /\ w.mode = ForeignPerms.mode /\ w.owner = ForeignPerms.owner
    BY DEF ForeignVersions, Seen, Absent, Inode
  <2>3. /\ loose.kind = now.kind /\ loose.content = now.content
        /\ loose.mode = w.mode /\ loose.owner = w.owner
    BY <1>1, <2>2 DEF Inodes
  <2>4. Seen(loose) = [kind |-> now.kind, content |-> now.content,
                       mode |-> w.mode, owner |-> w.owner]
    BY <2>3 DEF Seen
  <2> HIDE DEF w, loose
  <2>6. Seen(loose) = [Seen(now) EXCEPT !.mode = w.mode, !.owner = w.owner]
    BY <2>4, TwoFields, Zenon
  <2>7. View(dir)[path] = Seen(now)
    BY DEF View
  <2>5. Atomic!Meddle(path)
    BY <1>1, <2>1, <2>2, <2>6, <2>7 DEF Atomic!Meddle, View
  <2> QED  BY <2>5 DEF Atomic!Next
<1>4. ASSUME NEW f \in {Absent, Special}, dir' = [dir EXCEPT ![path] = f]
      PROVE  Atomic!Next
  <2>1. View(dir') = [View(dir) EXCEPT ![path] = Seen(f)]
    BY <1>1, <1>4 DEF View
  <2>2. Seen(f) \in ForeignVersions
    BY DEF ForeignVersions
  <2>3. Atomic!Meddle(path)
    BY <1>1, <2>1, <2>2 DEF Atomic!Meddle, View
  <2> QED  BY <2>3 DEF Atomic!Next
<1> QED  BY <1>2, <1>3, <1>4

LEMMA StepMaps == TypeInv /\ [Next]_vars => [Atomic!Next]_(Atomic!vars)
<1> SUFFICES ASSUME TypeInv, [Next]_vars
             PROVE  Atomic!Next \/ UNCHANGED Atomic!vars
  OBVIOUS
<1>1. ASSUME NEW p \in Procs, Step(p) \/ Kill(p)
      PROVE  Atomic!Next \/ UNCHANGED Atomic!vars
  <2>1. CASE Rename(p) \/ FChmod(p) \/ FChown(p)
    BY <2>1, CommitMaps
  <2>2. CASE ~(Rename(p) \/ FChmod(p) \/ FChown(p))
    <3>1. UNCHANGED << dir, durable >>
      BY <1>1, <2>2
         DEF Step, Begin, BeginFails, Read, ReadFails, Create, Fill, Sync, Chmod, Chown,
             Close, Stage, StageFails, Open, EnforceFails, Return, Kill, sys
    <3> QED  BY <3>1 DEF Atomic!vars
  <2> QED  BY <2>1, <2>2
<1>2. CASE Flush
  BY <1>2 DEF Flush, Atomic!Next, Atomic!Save
<1>3. CASE PowerLoss
  <2>1. dir' = durable /\ durable' = durable
    BY <1>3 DEF PowerLoss, AfterPowerLoss, TypeInv, TypeOK, AllSynced
  <2> QED  BY <2>1 DEF Atomic!Next, Atomic!Revert
<1>4. CASE UNCHANGED vars
  BY <1>4 DEF vars, sys, Atomic!vars
<1> QED  BY <1>1, <1>2, <1>3, <1>4, MeddleMaps DEF Next

\* Readers never see a partial file nor one under perms nobody asked for,
\* through failures, kills, races and power losses (writer.go, atomicWrite).
THEOREM ImplementsAtomicFilesHolds == Spec => ImplementsAtomicFiles
BY InitMaps, StepMaps, TypeAlways, PTL DEF Spec, ImplementsAtomicFiles, Atomic!Spec

(* ------------------------- Who reports a change ------------------------ *)

\* Whoever put a file where it is knows that it changed something.
AuthorKnows == \A path \in Paths, p \in Procs : author[path] = p => changed[p]

LEMMA AuthorKnowsStep == TypeInv /\ AuthorKnows /\ [Next]_vars => AuthorKnows'
<1> SUFFICES ASSUME TypeInv, AuthorKnows, [Next]_vars,
                    NEW path \in Paths, NEW q \in Procs, author'[path] = q
             PROVE  changed'[q]
  BY DEF AuthorKnows
<1>1. /\ author \in [Paths -> Procs \cup {Nobody}] /\ changed \in [Procs -> BOOLEAN]
      /\ q # Nobody
  BY WriterAssumption DEF TypeInv, TypeOK
<1>2. author[path] = q => changed[q]
  BY DEF AuthorKnows
<1>3. ASSUME NEW p \in Procs, Begin(p) PROVE changed'[q]
  <2>1. author[path] = q /\ q # p
    BY <1>1, <1>3 DEF Begin
  <2> QED  BY <1>1, <1>2, <1>3, <2>1 DEF Begin
<1>4. ASSUME NEW p \in Procs, Rename(p) PROVE changed'[q]
  <2>1. author' = [author EXCEPT ![Path(p)] = p] /\ changed' = [changed EXCEPT ![p] = TRUE]
    BY <1>4 DEF Rename
  <2>2. CASE q = p
    BY <1>1, <2>1, <2>2
  <2>3. CASE q # p
    <3>1. author[path] = q /\ changed'[q] = changed[q]
      BY <1>1, <2>1, <2>3
    <3> QED  BY <1>2, <3>1
  <2> QED  BY <2>2, <2>3
<1>5. ASSUME NEW P \in SUBSET Procs, Reset(P) PROVE changed'[q]
  <2>1. author[path] = q /\ q \notin P
    BY <1>1, <1>5 DEF Reset
  <2> QED  BY <1>2, <1>5, <2>1 DEF Reset
<1>6. ASSUME NEW p \in Procs, Return(p) \/ Kill(p) PROVE changed'[q]
  <2>1. Reset({p}) /\ {p} \in SUBSET Procs
    BY <1>6 DEF Return, Kill
  <2> QED  BY <1>5, <2>1
<1>7. CASE PowerLoss
  <2>1. Reset(Procs) /\ Procs \in SUBSET Procs
    BY <1>7 DEF PowerLoss
  <2> QED  BY <1>5, <2>1
<1>8. ASSUME NEW x \in Paths, Meddle(x) PROVE changed'[q]
  <2>1. author[path] = q /\ changed' = changed
    BY <1>1, <1>8 DEF Meddle
  <2> QED  BY <1>2, <2>1
<1>9. ASSUME NEW p \in Procs, Step(p), ~(Begin(p) \/ Rename(p) \/ Return(p))
      PROVE  changed'[q]
  <2>1. author' = author /\ changed' = changed
    BY <1>9 DEF Step, BeginFails, Read, ReadFails, Create, Fill, Sync, Chmod, Chown, Close,
                Stage, StageFails, Open, FChmod, FChown, EnforceFails, sys
  <2> QED  BY <1>2, <2>1
<1>10. CASE Flush \/ UNCHANGED vars
  <2>1. author' = author /\ changed' = changed
    BY <1>10 DEF Flush, vars, sys, local
  <2> QED  BY <1>2, <2>1
<1> QED  BY <1>3, <1>4, <1>6, <1>7, <1>8, <1>9, <1>10 DEF Next

\* However many agents overlap, the one whose rename put a file where it is
\* reports the change when its call completes (writer.go, Result.Changed).
THEOREM EveryChangeReportedHolds == Spec => []EveryChangeReported
<1>1. Init => AuthorKnows
  BY WriterAssumption DEF Init, AuthorKnows
<1>2. AuthorKnows => EveryChangeReported
  BY DEF AuthorKnows, EveryChangeReported
<1> QED  BY <1>1, <1>2, AuthorKnowsStep, TypeAlways, PTL DEF Spec

(* ------------------ What an undisturbed call has done ------------------ *)

Target(p, s) == PathOf(job[p].cfg, s)
DoneSlots(p) == Declared(job[p].cfg) \ todo[p]

\* What slot s must hold when p's call has dealt with it.
Whole(p, s) == Inode("regular", Content(job[p].cfg, s, job[p].mat), PermsOf(job[p].cfg, s))

\* No other process is in a call that could touch a file.
Alone(p) == pc[p] # "idle" /\ \A q \in Procs \ {p} : pc[q] \in {"idle", "failed"}

\* The slots that the call is through with are as they must be.
Laid(p) == \A s \in DoneSlots(p) : dir[Target(p, s)] = Whole(p, s)

\* The file at the slot the call is at is still what Read has found it to be.
Facing(p) ==
  /\ pc[p] \in {"open", "fchmod", "fchown"} => Held[Path(p)] = << "regular", Bytes(p) >>
  /\ pc[p] \in Staging => Held[Path(p)] # << "regular", Bytes(p) >>
  /\ pc[p] \in {"fchmod", "fchown"} => pinned[p]
  /\ pc[p] = "fchown" => dir[Path(p)].mode = Perms(p).mode

\* changed says whether a slot dealt with differs from what was there; the
\* slots that are left hold what they held.
Truthful(p) ==
  /\ \A s \in todo[p] : before[p][Target(p, s)] = Held[Target(p, s)]
  /\ ~changed[p] => before[p] = Held
  /\ changed[p] => \E s \in DoneSlots(p) : before[p][Target(p, s)] # Held[Target(p, s)]

Trust(p) == Undisturbed(p) => Alone(p) /\ Laid(p) /\ Facing(p) /\ Truthful(p)

\* A call that nothing happened to is where it was.
LEMMA TrustKept ==
  ASSUME NEW p \in Procs, Trust(p), Undisturbed(p)', Alone(p)',
         pc'[p] = pc[p], job'[p] = job[p], todo'[p] = todo[p], changed'[p] = changed[p],
         pinned'[p] = pinned[p], before'[p] = before[p], dir' = dir
  PROVE  Trust(p)'
<1>1. Undisturbed(p)
  BY DEF Undisturbed
<1>2. /\ Path(p)' = Path(p) /\ Bytes(p)' = Bytes(p) /\ Perms(p)' = Perms(p)
      /\ Held' = Held
  BY SameCall DEF Held
<1>3. Laid(p)'
  BY <1>1 DEF Trust, Laid, DoneSlots, Target, Whole
<1>4. Facing(p)'
  BY <1>1, <1>2 DEF Trust, Facing
<1>5. Truthful(p)'
  BY <1>1, <1>2 DEF Trust, Truthful, DoneSlots, Target
<1> QED  BY <1>3, <1>4, <1>5 DEF Trust

\* Nobody else can do more than end or refuse a call of theirs.
LEMMA TrustOther ==
  ASSUME TypeInv, NEW p \in Procs, Trust(p), Undisturbed(p)',
         NEW q \in Procs, q # p, Step(q) \/ Kill(q)
  PROVE  Trust(p)'
<1>1. /\ pc'[p] = pc[p] /\ job'[p] = job[p] /\ todo'[p] = todo[p] /\ changed'[p] = changed[p]
      /\ before'[p] \in {before[p], Unknown}
  BY OtherCalls DEF TypeInv
<1>2. before'[p] = before[p] /\ Undisturbed(p)
  BY <1>1 DEF Undisturbed
<1>3. Alone(p) /\ pc[q] \in {"idle", "failed"}
  BY <1>2 DEF Trust, Alone
<1>4. ~Begin(q)
  BY <1>2, <1>3 DEF Begin, Undisturbed
<1>5. BeginFails(q) \/ Return(q) \/ Kill(q)
  BY <1>3, <1>4
     DEF Step, Read, ReadFails, Create, Fill, Sync, Chmod, Chown, Close, Stage, Rename,
         StageFails, Open, FChmod, FChown, EnforceFails, At, Staging
<1>6. dir' = dir /\ pinned'[p] = pinned[p]
  BY <1>5 DEF BeginFails, Return, Kill, Reset, sys, TypeInv, TypeOK
<1>7. pc'[q] \in {"idle", "failed"}
  BY <1>5 DEF BeginFails, Return, Kill, Reset, Goto, TypeInv, TypeOK
<1>8. \A r \in Procs \ {p, q} : pc'[r] = pc[r]
  BY OtherCalls DEF TypeInv
<1>9. Alone(p)'
  BY <1>1, <1>3, <1>7, <1>8 DEF Alone
<1> QED  BY <1>1, <1>2, <1>6, <1>9, TrustKept

\* p's own steps leave the others where they are.
LEMMA StillAlone ==
  ASSUME TypeInv, NEW p \in Procs, Step(p), Alone(p), pc'[p] # "idle"
  PROVE  Alone(p)'
BY OtherCalls DEF Alone, TypeInv

LEMMA TrustBegin ==
  ASSUME TypeInv, NEW p \in Procs, Begin(p), Undisturbed(p)'
  PROVE  Trust(p)'
<1>1. PICK c \in Configs, m \in Materials :
        /\ job' = [job EXCEPT ![p] = [cfg |-> c, mat |-> m]]
        /\ todo' = [todo EXCEPT ![p] = Declared(c)]
  BY DEF Begin
<1>2. /\ job'[p].cfg = c /\ todo'[p] = Declared(c) /\ pc'[p] = "read" /\ ~changed'[p]
      /\ dir' = dir
  BY <1>1 DEF TypeInv, TypeOK, Begin, Goto
<1>3. before'[p] = Held /\ \A q \in Procs \ {p} : pc[q] = "idle"
  BY DEF Begin, Undisturbed, At
<1>4. Alone(p)'
  <2>1. \A q \in Procs \ {p} : pc'[q] = pc[q]
    BY OtherCalls DEF TypeInv, Step
  <2> QED  BY <1>2, <1>3, <2>1 DEF Alone
<1>5. Laid(p)' /\ Facing(p)'
  BY <1>2 DEF Laid, DoneSlots, Facing, Staging
<1>6. Held' = Held
  BY <1>2 DEF Held
<1>7. Truthful(p)'
  BY <1>2, <1>3, <1>6 DEF Truthful
<1> QED  BY <1>4, <1>5, <1>7 DEF Trust

\* Reading, opening and staging change no file in place.
LEMMA TrustLook ==
  ASSUME TypeInv, NEW p \in Procs, Trust(p), Undisturbed(p)',
         \/ BeginFails(p) \/ Read(p) \/ ReadFails(p) \/ Open(p) \/ EnforceFails(p)
         \/ Create(p) \/ Fill(p) \/ Sync(p) \/ Chmod(p) \/ Chown(p) \/ Close(p)
         \/ StageFails(p)
  PROVE  Trust(p)'
<1>1. /\ job' = job /\ todo' = todo /\ changed' = changed /\ before' = before /\ dir' = dir
  BY DEF BeginFails, Read, ReadFails, Open, EnforceFails, Create, Fill, Sync, Chmod, Chown,
         Close, Stage, StageFails, sys
<1>2. Undisturbed(p)
  BY <1>1 DEF Undisturbed
<1>3. Alone(p) /\ Laid(p) /\ Facing(p) /\ Truthful(p)
  BY <1>2 DEF Trust
<1>4. ~BeginFails(p)
  BY <1>3 DEF BeginFails, Alone, At
<1>5. /\ Path(p)' = Path(p) /\ Bytes(p)' = Bytes(p) /\ Perms(p)' = Perms(p)
      /\ Held' = Held
  BY <1>1, SameCall DEF Held
<1>6. Laid(p)'
  BY <1>1, <1>3 DEF Laid, DoneSlots, Target, Whole
<1>7. Truthful(p)'
  BY <1>1, <1>3, <1>5 DEF Truthful, DoneSlots, Target
<1>8. Facing(p)' /\ pc'[p] # "idle"
  <2>1. CASE Read(p)
    <3>1. todo[p] # {}
      BY <2>1 DEF Read, At, TypeInv, CallOK
    <3>2. Held[Path(p)] = << dir[Path(p)].kind, dir[Path(p)].content >>
      BY <3>1, SlotFacts DEF Held, TypeInv
    <3>3. pc'[p] = IF Held[Path(p)] = << "regular", Bytes(p) >> THEN "open" ELSE "create"
      BY <2>1, <3>2 DEF Read, Goto, TypeInv, TypeOK
    <3> QED  BY <1>5, <3>3 DEF Facing, Staging
  <2>2. CASE Open(p)
    <3>1. pc'[p] = "fchmod" /\ pc[p] = "open" /\ pinned'[p]
      BY <2>2 DEF Open, Goto, At, TypeInv, TypeOK
    <3> QED  BY <1>3, <1>5, <3>1 DEF Facing, Staging
  <2>3. CASE Create(p) \/ Fill(p) \/ Sync(p) \/ Chmod(p) \/ Chown(p) \/ Close(p)
    <3>1. pc[p] \in Staging /\ pc'[p] \in Staging
      BY <2>3 DEF Create, Fill, Sync, Chmod, Chown, Close, Stage, Goto, At, Staging,
                  TypeInv, TypeOK
    <3> QED  BY <1>3, <1>5, <3>1 DEF Facing, Staging
  <2>4. CASE ReadFails(p) \/ EnforceFails(p) \/ StageFails(p)
    <3>1. pc'[p] = "failed"
      BY <2>4 DEF ReadFails, EnforceFails, StageFails, Goto, TypeInv, TypeOK
    <3> QED  BY <3>1 DEF Facing, Staging
  <2> QED  BY <1>4, <2>1, <2>2, <2>3, <2>4
<1>9. Alone(p)'
  BY <1>3, <1>8, StillAlone DEF Step
<1> QED  BY <1>6, <1>7, <1>8, <1>9 DEF Trust

\* The slots of a config have paths of their own.
LEMMA OwnPath ==
  ASSUME TypeInv, NEW p \in Procs, todo[p] # {}, NEW s \in Declared(job[p].cfg)
  PROVE  /\ Target(p, s) \in Paths
         /\ s # Slot(p) => Target(p, s) # Path(p)
<1>1. job[p].cfg \in Configs /\ job[p].mat \in Materials
  BY DEF TypeInv, TypeOK
<1>2. Slot(p) \in Declared(job[p].cfg)
  BY SlotFacts DEF TypeInv
<1>3. s # Slot(p) => PathOf(job[p].cfg, s) # PathOf(job[p].cfg, Slot(p))
  BY <1>1, <1>2, WriterAssumption
<1> QED  BY <1>1, <1>3, AskedFacts DEF Target, Path

\* The slot p is at is dealt with: its file is as it must be, and changed tells
\* whether it was before.
LEMMA TrustDone ==
  ASSUME TypeInv, NEW p \in Procs, Step(p), SlotDone(p), Trust(p), Undisturbed(p),
         todo[p] # {}, job' = job, before' = before,
         dir'[Path(p)] = Inode("regular", Bytes(p), Perms(p)),
         \A x \in Paths \ {Path(p)} : dir'[x] = dir[x],
         \/ changed'[p] /\ Held[Path(p)] # << "regular", Bytes(p) >>
         \/ changed'[p] = changed[p] /\ Held[Path(p)] = << "regular", Bytes(p) >>
  PROVE  Trust(p)'
<1>1. Alone(p) /\ Laid(p) /\ Truthful(p)
  BY DEF Trust
<1>2. /\ Slot(p) \in todo[p] /\ Slot(p) \in Declared(job[p].cfg) /\ Path(p) \in Paths
      /\ todo[p] \subseteq Declared(job[p].cfg)
  BY SlotFacts DEF TypeInv, CallOK
<1>3. /\ todo'[p] = todo[p] \ {Slot(p)} /\ pc'[p] \in {"ok", "read"}
  BY SlotDoneFacts
<1>4. DoneSlots(p)' = DoneSlots(p) \cup {Slot(p)}
  BY <1>2, <1>3 DEF DoneSlots
<1>5. ASSUME NEW s \in Declared(job[p].cfg), s # Slot(p)
      PROVE  /\ dir'[Target(p, s)] = dir[Target(p, s)]
             /\ Held'[Target(p, s)] = Held[Target(p, s)]
  <2>1. Target(p, s) \in Paths \ {Path(p)}
    BY <1>5, OwnPath
  <2> QED  BY <2>1 DEF Held
<1>6. Held'[Path(p)] = << "regular", Bytes(p) >>
  BY <1>2 DEF Held, Inode
<1>7. ASSUME NEW s \in DoneSlots(p)'
      PROVE  dir'[PathOf(job[p].cfg, s)] = Whole(p, s)
  <2>1. CASE s = Slot(p)
    BY <2>1 DEF Path, Bytes, Perms, Whole
  <2>2. CASE s # Slot(p)
    <3>1. s \in DoneSlots(p) /\ s \in Declared(job[p].cfg)
      BY <1>4, <2>2 DEF DoneSlots
    <3> QED  BY <1>1, <1>5, <2>2, <3>1 DEF Laid, Target
  <2> QED  BY <2>1, <2>2
<1>8. Laid(p)'
  BY <1>7 DEF Laid, Target, Whole
<1>9. Facing(p)'
  BY <1>3 DEF Facing, Staging
<1>10. Held[Path(p)] = << "regular", Bytes(p) >> => Held' = Held
  <2>1. SUFFICES ASSUME Held[Path(p)] = << "regular", Bytes(p) >>, NEW x \in Paths
                 PROVE  << dir'[x].kind, dir'[x].content >> = << dir[x].kind, dir[x].content >>
    BY DEF Held
  <2>2. CASE x = Path(p)
    BY <1>2, <1>6, <2>1, <2>2 DEF Held
  <2>3. CASE x # Path(p)
    BY <2>3
  <2> QED  BY <2>2, <2>3
<1>11. Path(p) = Target(p, Slot(p))
  BY DEF Path, Target
<1>12. Truthful(p)'
  <2>1. ASSUME NEW s \in todo'[p] PROVE before[p][Target(p, s)] = Held'[Target(p, s)]
    BY <1>1, <1>2, <1>3, <1>5, <2>1 DEF Truthful
  <2>2. ASSUME ~changed'[p] PROVE before[p] = Held'
    BY <1>1, <1>10, <2>2 DEF Truthful
  <2>3. ASSUME changed'[p]
        PROVE  \E s \in DoneSlots(p)' : before[p][Target(p, s)] # Held'[Target(p, s)]
    <3>1. CASE Held[Path(p)] # << "regular", Bytes(p) >>
      <4>1. before[p][Path(p)] # Held'[Path(p)]
        BY <1>1, <1>2, <1>6, <1>11, <3>1 DEF Truthful
      <4> QED  BY <1>4, <1>11, <4>1
    <3>2. CASE Held[Path(p)] = << "regular", Bytes(p) >>
      <4>1. changed[p] /\ Held' = Held
        BY <1>10, <2>3, <3>2
      <4> QED  BY <1>1, <1>4, <4>1 DEF Truthful
    <3> QED  BY <3>1, <3>2
  <2> QED  BY <2>1, <2>2, <2>3 DEF Truthful, Target
<1>13. Alone(p)'
  BY <1>1, <1>3, StillAlone
<1> QED  BY <1>8, <1>9, <1>12, <1>13 DEF Trust

LEMMA TrustCommit ==
  ASSUME TypeInv, NEW p \in Procs, Trust(p), Undisturbed(p)',
         Rename(p) \/ FChmod(p) \/ FChown(p)
  PROVE  Trust(p)'
<1>1. job' = job /\ before' = before /\ Undisturbed(p)
  BY DEF Rename, FChmod, FChown, Undisturbed
<1>2. Alone(p) /\ Laid(p) /\ Facing(p) /\ Truthful(p)
  BY <1>1 DEF Trust
<1>3. todo[p] # {}
  BY DEF TypeInv, CallOK, Rename, FChmod, FChown, At
<1>4. /\ Path(p) \in Paths /\ dir \in [Paths -> Inodes] /\ dir[Path(p)] \in Inodes
  BY <1>3, SlotFacts DEF TypeInv, TypeOK
<1>5. CASE Rename(p)
  <2>1. SlotDone(p) /\ changed'[p] /\ pc[p] = "rename"
    BY <1>5 DEF Rename, At, TypeInv, TypeOK
  <2>2. dir' = [dir EXCEPT ![Path(p)] = Inode("regular", Bytes(p), Perms(p))]
    BY <1>5, <2>1, StagedWhole DEF Rename
  <2>3. Held[Path(p)] # << "regular", Bytes(p) >>
    BY <1>2, <2>1 DEF Facing, Staging
  <2> QED  BY <1>1, <1>3, <1>4, <1>5, <2>1, <2>2, <2>3, TrustDone DEF Step
<1>6. CASE FChown(p)
  <2>1. SlotDone(p) /\ changed'[p] = changed[p] /\ pc[p] = "fchown"
    BY <1>6 DEF FChown, At
  <2>2. /\ pinned[p] /\ Held[Path(p)] = << "regular", Bytes(p) >>
        /\ dir[Path(p)].mode = Perms(p).mode
    BY <1>2, <2>1 DEF Facing
  <2>3. dir[Path(p)].kind = "regular" /\ dir[Path(p)].content = Bytes(p)
    BY <1>4, <2>2 DEF Held
  <2>4. dir[Path(p)].synced = TRUE
    BY <1>4 DEF TypeInv, AllSynced, Inodes
  <2>5. [dir[Path(p)] EXCEPT !.owner = Perms(p).owner] = Inode("regular", Bytes(p), Perms(p))
    <3> DEFINE f == [dir[Path(p)] EXCEPT !.owner = Perms(p).owner]
    <3>1. f \in Inodes
      BY <1>3, <1>4, SlotFacts DEF Inodes, TypeInv
    <3>2. /\ f.kind = "regular" /\ f.content = Bytes(p) /\ f.synced = TRUE
          /\ f.mode = Perms(p).mode /\ f.owner = Perms(p).owner
      BY <1>4, <2>2, <2>3, <2>4 DEF Inodes
    <3> HIDE DEF f
    <3>3. f = Inode("regular", Bytes(p), Perms(p))
      BY <3>1, <3>2 DEF Inode, Inodes
    <3> QED  BY <3>3 DEF f
  <2>6. dir' = [dir EXCEPT ![Path(p)] = [dir[Path(p)] EXCEPT !.owner = Perms(p).owner]]
    BY <1>6, <2>2 DEF FChown
  <2> QED  BY <1>1, <1>3, <1>4, <1>6, <2>1, <2>2, <2>5, <2>6, TrustDone DEF Step
<1>7. CASE FChmod(p)
  <2>1. /\ pc[p] = "fchmod" /\ pc'[p] = "fchown" /\ pinned[p] /\ pinned' = pinned
        /\ todo' = todo /\ changed' = changed
    BY <1>2, <1>7 DEF FChmod, At, Goto, Facing, TypeInv, TypeOK
  <2>2. dir' = [dir EXCEPT ![Path(p)] = [dir[Path(p)] EXCEPT !.mode = Perms(p).mode]]
    BY <1>7, <2>1 DEF FChmod
  <2>3. /\ dir'[Path(p)].kind = dir[Path(p)].kind
        /\ dir'[Path(p)].content = dir[Path(p)].content
        /\ dir'[Path(p)].mode = Perms(p).mode
        /\ \A x \in Paths \ {Path(p)} : dir'[x] = dir[x]
    BY <1>4, <2>2 DEF Inodes
  <2>4. Held' = Held
    BY <2>3 DEF Held
  <2>5. Path(p)' = Path(p) /\ Bytes(p)' = Bytes(p) /\ Perms(p)' = Perms(p)
    BY <1>1, <2>1, SameCall
  <2>6. Facing(p)'
    BY <1>2, <2>1, <2>3, <2>4, <2>5 DEF Facing, Staging
  <2>7. Truthful(p)'
    BY <1>1, <1>2, <2>1, <2>4 DEF Truthful, DoneSlots, Target
  <2>8. ASSUME NEW s \in DoneSlots(p) PROVE dir'[Target(p, s)] = dir[Target(p, s)]
    <3>1. s \in Declared(job[p].cfg) /\ s # Slot(p)
      BY <1>3, SlotFacts DEF DoneSlots, TypeInv
    <3> QED  BY <1>3, <2>3, <3>1, OwnPath
  <2>9. Laid(p)'
    BY <1>1, <1>2, <2>1, <2>8 DEF Laid, DoneSlots, Target, Whole
  <2>10. Alone(p)'
    BY <1>2, <1>7, <2>1, StillAlone DEF Step
  <2> QED  BY <2>6, <2>7, <2>9, <2>10 DEF Trust
<1> QED  BY <1>5, <1>6, <1>7

TrustInv == \A p \in Procs : Trust(p)

LEMMA TrustStep == TypeInv /\ TrustInv /\ [Next]_vars => TrustInv'
<1> SUFFICES ASSUME TypeInv, TrustInv, [Next]_vars, NEW p \in Procs, Undisturbed(p)'
             PROVE  Trust(p)'
  BY DEF TrustInv, Trust
<1>1. Trust(p)
  BY DEF TrustInv
<1>2. ASSUME Step(p) PROVE Trust(p)'
  <2>1. ~Return(p)
    BY DEF Return, Reset, Undisturbed
  <2> QED  BY <1>1, <1>2, <2>1, TrustBegin, TrustLook, TrustCommit DEF Step
<1>3. ASSUME NEW q \in Procs, q # p, Step(q) \/ Kill(q) PROVE Trust(p)'
  BY <1>1, <1>3, TrustOther
<1>4. ~Kill(p) /\ ~PowerLoss /\ ~(\E path \in Paths : Meddle(path))
  BY DEF Kill, PowerLoss, Reset, Meddle, Undisturbed
<1>5. CASE Flush \/ UNCHANGED vars
  <2>1. dir' = dir /\ UNCHANGED local
    BY <1>5 DEF Flush, vars, sys
  <2>2. Alone(p)'
    BY <1>1, <2>1 DEF Trust, Alone, Undisturbed, local
  <2> QED  BY <1>1, <2>1, <2>2, TrustKept DEF local
<1> QED  BY <1>2, <1>3, <1>4, <1>5 DEF Next

LEMMA TrustAlways == Spec => []TrustInv
<1>1. Init => TrustInv
  BY DEF Init, TrustInv, Trust, Undisturbed
<1> QED  BY <1>1, TrustStep, TypeAlways, PTL DEF Spec

\* A call is over when no slot of it is left.
NothingLeft == \A p \in Procs : pc[p] = "ok" => todo[p] = {}

LEMMA NothingLeftStep == TypeInv /\ NothingLeft /\ [Next]_vars => NothingLeft'
<1> SUFFICES ASSUME TypeInv, NothingLeft, [Next]_vars, NEW p \in Procs, pc'[p] = "ok"
             PROVE  todo'[p] = {}
  BY DEF NothingLeft
<1>1. CASE pc'[p] = pc[p] /\ todo'[p] = todo[p]
  BY <1>1 DEF NothingLeft
<1>2. CASE Rename(p) \/ FChown(p)
  <2>1. SlotDone(p) /\ todo[p] # {}
    BY <1>2 DEF Rename, FChown, At, TypeInv, CallOK
  <2> QED  BY <2>1, SlotDoneFacts
<1>3. ASSUME Step(p) \/ Kill(p), ~(Rename(p) \/ FChown(p)) PROVE FALSE
  BY <1>3 DEF Step, Kill, Begin, BeginFails, Read, ReadFails, Create, Fill, Sync, Chmod,
              Chown, Close, Stage, StageFails, Open, FChmod, EnforceFails, Return, Reset,
              Goto, TypeInv, TypeOK
<1>4. ASSUME NEW q \in Procs, q # p, Step(q) \/ Kill(q)
      PROVE  pc'[p] = pc[p] /\ todo'[p] = todo[p]
  BY <1>4, OtherCalls DEF TypeInv
<1>5. ~PowerLoss
  BY DEF PowerLoss, Reset
<1>6. ASSUME Flush \/ (\E path \in Paths : Meddle(path)) \/ UNCHANGED vars
      PROVE  pc'[p] = pc[p] /\ todo'[p] = todo[p]
  BY <1>6 DEF Flush, Meddle, vars, local
<1> QED  BY <1>1, <1>2, <1>3, <1>4, <1>5, <1>6 DEF Next

LEMMA NothingLeftAlways == Spec => []NothingLeft
<1>1. Init => NothingLeft
  BY DEF Init, NothingLeft
<1> QED  BY <1>1, NothingLeftStep, TypeAlways, PTL DEF Spec

\* A Write that returned without error has put every declared file in place,
\* under the mode and owner of its slot, whatever the file was like before
\* (writer.go, Write and commitFile).
THEOREM WriteAppliedHolds == Spec => []WriteApplied
<1>1. TrustInv /\ NothingLeft => WriteApplied
  <2>1. SUFFICES ASSUME TrustInv, NothingLeft, NEW p \in Procs, At(p, "ok"), Undisturbed(p),
                        NEW s \in Declared(job[p].cfg)
                 PROVE  dir[PathOf(job[p].cfg, s)] =
                          Inode("regular", Content(job[p].cfg, s, job[p].mat),
                                PermsOf(job[p].cfg, s))
    BY DEF WriteApplied
  <2>2. Laid(p) /\ todo[p] = {}
    BY <2>1 DEF TrustInv, Trust, NothingLeft, At
  <2> QED  BY <2>2 DEF Laid, DoneSlots, Target, Whole
<1> QED  BY <1>1, TrustAlways, NothingLeftAlways, PTL

\* The renewer reloads the consumer exactly when a file came out different
\* (writer.go, Result.Changed; renewer.go, processCert).
THEOREM ChangedIsTruthfulHolds == Spec => []ChangedIsTruthful
<1>1. TrustInv => ChangedIsTruthful
  BY DEF TrustInv, Trust, Truthful, ChangedIsTruthful
<1> QED  BY <1>1, TrustAlways, PTL

(* ---------------------- Mode and owner that are asked for --------------- *)

AskedMode(d, path)  == \E q \in AskedFor(path) : d[path].mode = q.mode
AskedOwner(d, path) == \E q \in AskedFor(path) : d[path].owner = q.owner

\* The files a call is through with have a mode and an owner that some config
\* asks for; so has a file replaced under the call's hands.
Settling(p) ==
  /\ pc[p] \notin {"idle", "failed"} =>
       \A s \in DoneSlots(p) : AskedMode(dir, Target(p, s)) /\ AskedOwner(dir, Target(p, s))
  /\ pc[p] \in {"fchmod", "fchown"} /\ ~pinned[p] =>
       AskedMode(dir, Path(p)) /\ AskedOwner(dir, Path(p))
  /\ pc[p] = "fchown" => AskedMode(dir, Path(p))

SettleInv == faults = 0 => \A p \in Procs : Settling(p)

\* What the steps of a process make of a path: they only ever set a mode and an
\* owner that are asked for there.
LEMMA AskedKept ==
  ASSUME TypeInv, NEW p \in Procs, Step(p), NEW path \in Paths
  PROVE  /\ AskedMode(dir, path) => AskedMode(dir', path)
         /\ AskedOwner(dir, path) => AskedOwner(dir', path)
         /\ Rename(p) /\ path = Path(p) => AskedMode(dir', path) /\ AskedOwner(dir', path)
         /\ FChmod(p) /\ pinned[p] /\ path = Path(p) => AskedMode(dir', path)
         /\ FChown(p) /\ pinned[p] /\ path = Path(p) => AskedOwner(dir', path)
<1>1. CASE Rename(p) \/ FChmod(p) \/ FChown(p)
  <2>1. todo[p] # {}
    BY <1>1 DEF Rename, FChmod, FChown, At, TypeInv, CallOK
  <2>2. Path(p) \in Paths /\ Perms(p) \in AskedFor(Path(p)) /\ dir[path] \in Inodes
    BY <2>1, SlotFacts DEF TypeInv, TypeOK
  <2>3. DOMAIN dir = Paths
    BY DEF TypeInv, TypeOK
  <2>4. CASE path # Path(p)
    <3>1. dir'[path] = dir[path]
      BY <1>1, <2>3, <2>4 DEF Rename, FChmod, FChown
    <3> QED  BY <2>4, <3>1 DEF AskedMode, AskedOwner
  <2>5. CASE path = Path(p) /\ Rename(p)
    <3>1. dir'[path] = Inode("regular", Bytes(p), Perms(p))
      BY <2>2, <2>3, <2>5, StagedWhole DEF Rename, At
    <3>2. dir'[path].mode = Perms(p).mode /\ dir'[path].owner = Perms(p).owner
      BY <3>1 DEF Inode
    <3>3. AskedMode(dir', path) /\ AskedOwner(dir', path)
      BY <2>2, <2>5, <3>2 DEF AskedMode, AskedOwner
    <3> QED  BY <3>3
  <2>6. CASE path = Path(p) /\ FChmod(p)
    <3>1. \/ dir' = dir /\ ~pinned[p]
          \/ dir' = [dir EXCEPT ![path] = [dir[path] EXCEPT !.mode = Perms(p).mode]]
      BY <2>6 DEF FChmod
    <3>2. \/ dir'[path] = dir[path] /\ ~pinned[p]
          \/ dir'[path].mode = Perms(p).mode /\ dir'[path].owner = dir[path].owner
      BY <2>2, <2>3, <3>1 DEF Inodes
    <3>3. ~Rename(p) /\ ~FChown(p)
      BY <2>6 DEF FChmod, FChown, Rename, At
    <3> QED  BY <2>2, <2>6, <3>2, <3>3 DEF AskedMode, AskedOwner
  <2>7. CASE path = Path(p) /\ FChown(p)
    <3>1. \/ dir' = dir /\ ~pinned[p]
          \/ dir' = [dir EXCEPT ![path] = [dir[path] EXCEPT !.owner = Perms(p).owner]]
      BY <2>7 DEF FChown
    <3>2. \/ dir'[path] = dir[path] /\ ~pinned[p]
          \/ dir'[path].owner = Perms(p).owner /\ dir'[path].mode = dir[path].mode
      BY <2>2, <2>3, <3>1 DEF Inodes
    <3>3. ~Rename(p) /\ ~FChmod(p)
      BY <2>7 DEF FChmod, FChown, Rename, At
    <3> QED  BY <2>2, <2>7, <3>2, <3>3 DEF AskedMode, AskedOwner
  <2> QED  BY <1>1, <2>4, <2>5, <2>6, <2>7
<1>2. CASE ~(Rename(p) \/ FChmod(p) \/ FChown(p))
  <2>1. dir' = dir
    BY <1>2 DEF Step, Begin, BeginFails, Read, ReadFails, Create, Fill, Sync, Chmod, Chown,
                Close, Stage, StageFails, Open, EnforceFails, Return, sys
  <2> QED  BY <1>2, <2>1 DEF AskedMode, AskedOwner
<1> QED  BY <1>1, <1>2

\* Another process may replace the file that q has open; what it puts there is
\* asked for.
LEMMA SettleOther ==
  ASSUME TypeInv, NEW p \in Procs, Step(p), NEW q \in Procs, q # p, Settling(q)
  PROVE  Settling(q)'
<1>1. pc'[q] = pc[q] /\ job'[q] = job[q] /\ todo'[q] = todo[q] /\ (pinned'[q] => pinned[q])
  BY OtherCalls DEF TypeInv
<1>2. Path(q)' = Path(q)
  BY <1>1, SameCall
<1>3. pinned'[q] = pinned[q] \/ (Rename(p) /\ Path(q) = Path(p))
  BY <1>1 DEF Step, Begin, BeginFails, Read, ReadFails, Create, Fill, Sync, Chmod, Chown,
     Close, Stage, Rename, Unlink, StageFails, Open, FChmod, FChown, EnforceFails, Return,
     Reset, TypeInv, TypeOK
<1>4. ASSUME NEW s \in DoneSlots(q), pc[q] \notin {"idle", "failed"}
      PROVE  AskedMode(dir', Target(q, s)) /\ AskedOwner(dir', Target(q, s))
  <2>1. s \in Declared(job[q].cfg) /\ job[q].cfg \in Configs /\ job[q].mat \in Materials
    BY DEF DoneSlots, TypeInv, TypeOK
  <2>2. Target(q, s) \in Paths
    BY <2>1, AskedFacts DEF Target
  <2>3. AskedMode(dir, Target(q, s)) /\ AskedOwner(dir, Target(q, s))
    BY <1>4 DEF Settling
  <2> QED  BY <2>2, <2>3, AskedKept
<1>5. ASSUME pc[q] \in {"fchmod", "fchown"}
      PROVE  /\ AskedMode(dir, Path(q)) => AskedMode(dir', Path(q))
             /\ AskedOwner(dir, Path(q)) => AskedOwner(dir', Path(q))
             /\ Rename(p) /\ Path(q) = Path(p) => AskedMode(dir', Path(q)) /\ AskedOwner(dir', Path(q))
  <2>1. todo[q] # {} /\ CallOK(q)
    BY <1>5 DEF TypeInv, CallOK
  <2>2. Path(q) \in Paths
    BY <2>1, SlotFacts DEF TypeInv
  <2> QED  BY <2>2, AskedKept
<1> QED  BY <1>1, <1>2, <1>3, <1>4, <1>5 DEF Settling, DoneSlots, Target

\* A slot is done: its file has a mode and an owner that are asked for.
LEMMA SettleDone ==
  ASSUME TypeInv, NEW p \in Procs, Step(p), SlotDone(p), Settling(p), todo[p] # {},
         job' = job, pc[p] \notin {"idle", "failed"},
         AskedMode(dir', Path(p)), AskedOwner(dir', Path(p))
  PROVE  Settling(p)'
<1>1. /\ Slot(p) \in todo[p] /\ Slot(p) \in Declared(job[p].cfg)
      /\ job[p].cfg \in Configs /\ job[p].mat \in Materials
  BY SlotFacts DEF TypeInv, TypeOK
<1>2. todo'[p] = todo[p] \ {Slot(p)} /\ pc'[p] \in {"ok", "read"}
  BY SlotDoneFacts
<1>3. ASSUME NEW s \in Declared(job[p].cfg) \ todo'[p]
      PROVE  AskedMode(dir', Target(p, s)) /\ AskedOwner(dir', Target(p, s))
  <2>1. CASE s = Slot(p)
    BY <2>1 DEF Path, Target
  <2>2. CASE s # Slot(p)
    <3>1. s \in DoneSlots(p) /\ Target(p, s) \in Paths
      BY <1>1, <1>2, <2>2, AskedFacts DEF DoneSlots, Target
    <3> QED  BY <3>1, AskedKept DEF Settling
  <2> QED  BY <2>1, <2>2
<1> QED  BY <1>2, <1>3 DEF Settling, DoneSlots, Target

LEMMA SettleOwn ==
  ASSUME TypeInv, NEW p \in Procs, Step(p), Settling(p)
  PROVE  Settling(p)'
<1>1. CASE Begin(p)
  <2>1. PICK c \in Configs, m \in Materials :
          /\ job' = [job EXCEPT ![p] = [cfg |-> c, mat |-> m]]
          /\ todo' = [todo EXCEPT ![p] = Declared(c)]
    BY <1>1 DEF Begin
  <2>2. job'[p].cfg = c /\ todo'[p] = Declared(c) /\ pc'[p] = "read"
    BY <1>1, <2>1 DEF TypeInv, TypeOK, Begin, Goto
  <2> QED  BY <2>2 DEF Settling, DoneSlots
<1>2. CASE \/ BeginFails(p) \/ ReadFails(p) \/ EnforceFails(p) \/ StageFails(p)
           \/ Return(p)
  <2>1. pc'[p] \in {"idle", "failed"}
    BY <1>2 DEF BeginFails, ReadFails, EnforceFails, StageFails, Return, Reset, Goto,
                TypeInv, TypeOK
  <2> QED  BY <2>1 DEF Settling
<1>3. CASE \/ Read(p) \/ Open(p)
           \/ Create(p) \/ Fill(p) \/ Sync(p) \/ Chmod(p) \/ Chown(p) \/ Close(p)
  <2>1. /\ job' = job /\ todo' = todo /\ dir' = dir
        /\ pc[p] \notin {"idle", "failed"} /\ pc'[p] # "fchown"
        /\ pc'[p] = "fchmod" => pinned'[p]
    BY <1>3 DEF Read, Open, Create, Fill, Sync, Chmod, Chown, Close, Stage, Goto, At, sys,
                TypeInv, TypeOK
  <2> QED  BY <2>1 DEF Settling, DoneSlots, Target
<1>4. CASE Rename(p) \/ FChmod(p) \/ FChown(p)
  <2>1. /\ todo[p] # {} /\ pc[p] \notin {"idle", "failed"} /\ job' = job
    BY <1>4 DEF Rename, FChmod, FChown, At, TypeInv, CallOK
  <2>2. Path(p) \in Paths
    BY <2>1, SlotFacts DEF TypeInv
  <2>3. CASE Rename(p)
    <3>1. SlotDone(p) /\ AskedMode(dir', Path(p)) /\ AskedOwner(dir', Path(p))
      BY <2>2, <2>3, AskedKept DEF Rename
    <3> QED  BY <2>1, <3>1, SettleDone
  <2>4. CASE FChmod(p)
    <3>1. /\ pc[p] = "fchmod" /\ pc'[p] = "fchown" /\ todo' = todo /\ pinned' = pinned
      BY <2>4 DEF FChmod, At, Goto, TypeInv, TypeOK
    <3>2. Path(p)' = Path(p)
      BY <2>1, <3>1, SameCall
    <3>3. AskedMode(dir', Path(p)) /\ (~pinned[p] => AskedOwner(dir', Path(p)))
      BY <2>2, <2>4, <3>1, AskedKept DEF Settling
    <3>4. ASSUME NEW s \in DoneSlots(p)
          PROVE  AskedMode(dir', Target(p, s)) /\ AskedOwner(dir', Target(p, s))
      <4>1. Target(p, s) \in Paths
        BY AskedFacts DEF DoneSlots, Target, TypeInv, TypeOK
      <4> QED  BY <2>1, <4>1, AskedKept DEF Settling
    <3> QED  BY <2>1, <3>1, <3>2, <3>3, <3>4 DEF Settling, DoneSlots, Target
  <2>5. CASE FChown(p)
    <3>1. SlotDone(p) /\ pc[p] = "fchown"
      BY <2>5 DEF FChown, At
    <3>2. AskedMode(dir', Path(p)) /\ AskedOwner(dir', Path(p))
      BY <2>2, <2>5, <3>1, AskedKept DEF Settling
    <3> QED  BY <2>1, <3>1, <3>2, SettleDone
  <2> QED  BY <1>4, <2>3, <2>4, <2>5
<1> QED  BY <1>1, <1>2, <1>3, <1>4 DEF Step

LEMMA SettleStep == TypeInv /\ SettleInv /\ [Next]_vars => SettleInv'
<1> SUFFICES ASSUME TypeInv, SettleInv, [Next]_vars, faults' = 0, NEW q \in Procs
             PROVE  Settling(q)'
  BY DEF SettleInv
<1>1. faults \in Nat
  BY WriterAssumption DEF TypeInv, TypeOK
<1>2. ~Fault
  BY <1>1 DEF Fault
<1>3. faults = 0
  <2>1. ASSUME NEW p \in Procs, Step(p) PROVE faults' \in {faults, faults + 1}
    <3>1. CASE StageFails(p)
      BY <3>1 DEF StageFails, Cleanup
    <3>2. CASE ~StageFails(p)
      BY <2>1, <3>2 DEF Step, Begin, BeginFails, Read, ReadFails, Create, Fill, Sync, Chmod,
         Chown, Close, Stage, Rename, Open, FChmod, FChown, EnforceFails, Return, sys
    <3> QED  BY <3>1, <3>2
  <2>2. CASE Flush \/ UNCHANGED vars
    BY <2>2 DEF Flush, vars, sys
  <2>3. (\E p \in Procs : Step(p)) \/ Flush \/ UNCHANGED vars
    BY <1>2 DEF Next, Kill, PowerLoss, Meddle
  <2>4. faults' \in {faults, faults + 1}
    BY <2>1, <2>2, <2>3
  <2> QED  BY <1>1, <2>4
<1>4. Settling(q)
  BY <1>3 DEF SettleInv
<1>5. ASSUME NEW p \in Procs, Step(p) PROVE Settling(q)'
  BY <1>4, <1>5, SettleOther, SettleOwn
<1>6. CASE Flush \/ UNCHANGED vars
  <2>1. dir' = dir /\ job' = job /\ todo' = todo /\ pc' = pc /\ pinned' = pinned
    BY <1>6 DEF Flush, vars, sys, local
  <2>2. Path(q)' = Path(q)
    BY <2>1, SameCall
  <2> QED  BY <1>4, <2>1, <2>2 DEF Settling, DoneSlots, Target
<1> QED  BY <1>2, <1>5, <1>6 DEF Next, Kill, PowerLoss, Meddle

\* Calls that overlap leave every file under a mode and an owner that some config
\* asks for at its path, although neither enforcePerms nor rename looks at what
\* the other is doing (writer.go, enforcePerms and atomicWrite).
THEOREM PermsSettleHolds == Spec => []PermsSettle
<1>1. Init => SettleInv
  BY DEF Init, SettleInv, Settling
<1>2. SettleInv /\ NothingLeft => PermsSettle
  <2>1. SUFFICES ASSUME SettleInv, NothingLeft, NEW p \in Procs, At(p, "ok"), faults = 0,
                        NEW s \in Declared(job[p].cfg)
                 PROVE  AskedMode(dir, Target(p, s)) /\ AskedOwner(dir, Target(p, s))
    BY DEF PermsSettle, AskedMode, AskedOwner, Target
  <2>2. s \in DoneSlots(p) /\ pc[p] = "ok"
    BY <2>1 DEF NothingLeft, DoneSlots, At
  <2> QED  BY <2>1, <2>2 DEF SettleInv, Settling
<1> QED  BY <1>1, <1>2, SettleStep, NothingLeftAlways, TypeAlways, PTL DEF Spec
=============================================================================
