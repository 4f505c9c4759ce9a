----------------------------- MODULE LoginProofs ----------------------------
(***************************************************************************)
(* Proofs about Login, for any number of files, versions and changes that  *)
(* configuration management makes while the credentials are read.          *)
(***************************************************************************)
EXTENDS Login, TLAPS

\* The credential of f was read from a file that was found to be private.
FromVetted(f) == creds[f] # 0 /\ origin[f] \in vetted

\* readSecret reads only what it has examined, and NewClient reads the second
\* file only when it has the first credential.
Progress ==
  /\ pc = "read" => fd \in vetted
  /\ pc \in {"open", "stat", "read"} /\ file = "secret_id" => FromVetted("role_id")
  /\ pc = "login" => \A f \in Files : FromVetted(f)

IInv == TypeOK /\ Progress

LEMMA DeployedFacts == Deployed \in [Files -> Inodes]
<1>1. PICK i, j \in Inodes : i # j
  BY LoginAssumption
<1> DEFINE d == [f \in Files |-> IF f = "role_id" THEN i ELSE j]
<1>2. d \in [Files -> Inodes] /\ d["role_id"] # d["secret_id"]
  BY <1>1 DEF Files
<1> HIDE DEF d
<1> QED  BY <1>2 DEF Deployed

LEMMA InitIInv == Init => IInv
<1> SUFFICES ASSUME Init PROVE IInv
  OBVIOUS
<1>1. dir \in [Files -> Inodes \cup {NoInode}]
  BY DeployedFacts DEF Init
<1>2. 0 \in 0..MaxChanges
  BY LoginAssumption
<1>3. TypeOK
  BY <1>1, <1>2, LoginAssumption DEF Init, TypeOK, Files
<1> QED  BY <1>3 DEF Init, IInv, Progress

\* The end of a run forgets what is open; the files are as they were.
LEMMA EndIInv ==
  ASSUME IInv, NEW how \in {"in", "out"}, End(how)
  PROVE  IInv'
BY DEF End, IInv, TypeOK, Progress, disk

LEMMA ClientIInv == ASSUME IInv, Start \/ NewClient \/ LoginFails PROVE IInv'
<1> USE DEF IInv
<1>1. CASE Start
  BY <1>1 DEF Start, TypeOK, Progress, Files, disk
<1>2. CASE Open
  <2>1. dir[file] \in Inodes /\ inode[dir[file]].kind = "regular"
    BY <1>2 DEF Open, Openable, TypeOK
  <2>2. UNCHANGED << disk, file, creds, exit, vetted, origin >> /\ pc = "open"
    BY <1>2 DEF Open
  <2>3. fd' = dir[file] /\ pc' = "stat"
    BY <1>2 DEF Open
  <2> QED  BY <2>1, <2>2, <2>3 DEF TypeOK, Progress, FromVetted, disk
<1>3. CASE Stat
  <2>1. /\ pc = "stat" /\ pc' = "read" /\ vetted' = vetted \cup {fd}
        /\ UNCHANGED << disk, file, fd, creds, exit, origin >>
    BY <1>3 DEF Stat, Examined
  <2> QED  BY <2>1 DEF TypeOK, Progress, FromVetted, disk
<1>4. CASE Read
  <2>1. /\ pc = "read" /\ fd \in Inodes /\ fd \in vetted
        /\ Content(fd) \in Versions \cup {0} /\ Content(fd) # 0
    BY <1>4 DEF Read, TypeOK, Progress, Content
  <2>2. /\ creds' = [creds EXCEPT ![file] = Content(fd)]
        /\ origin' = [origin EXCEPT ![file] = fd]
        /\ \/ file = "role_id" /\ pc' = "open" /\ file' = "secret_id"
           \/ file # "role_id" /\ pc' = "login" /\ file' = file
        /\ UNCHANGED << disk, exit, vetted >>
    BY <1>4 DEF Read, Got
  <2>3. /\ creds' \in [Files -> Versions \cup {0}]
        /\ origin' \in [Files -> Inodes \cup {NoInode}]
        /\ file' \in Files
    BY <2>1, <2>2 DEF TypeOK, Files
  <2>4. TypeOK'
    BY <2>2, <2>3 DEF TypeOK, disk
  <2>5. creds'[file] # 0 /\ origin'[file] \in vetted'
    BY <2>1, <2>2 DEF TypeOK
  <2>6. file = "secret_id" => creds'["role_id"] # 0 /\ origin'["role_id"] \in vetted'
    BY <2>1, <2>2 DEF TypeOK, Progress, FromVetted
  <2>7. file \in {"role_id", "secret_id"}
    BY DEF TypeOK, Files
  <2>8. Progress'
    BY <2>2, <2>5, <2>6, <2>7 DEF Progress, FromVetted, Files
  <2> QED  BY <2>4, <2>8
<1>5. CASE OpenFails \/ StatFails \/ ReadFails \/ LoginFails
  BY <1>5, EndIInv DEF OpenFails, StatFails, ReadFails, LoginFails
<1>6. CASE Login
  BY <1>6, EndIInv DEF Login
<1> QED  BY <1>1, <1>2, <1>3, <1>4, <1>5, <1>6 DEF NewClient

\* Nothing that is done to the files makes what was read or examined otherwise.
LEMMA OthersIInv ==
  ASSUME IInv, Rotate \/ (\E f \in Files : Change(f))
  PROVE  IInv'
<1> USE DEF IInv
<1>1. Others
  BY DEF Rotate, Change, Replace, Rewrite, Chmod, Remove
<1>2. UNCHANGED << pc, file, fd, creds, exit, vetted, origin >> /\ changes' \in 0..MaxChanges
  BY <1>1, LoginAssumption DEF Others, TypeOK
<1>3. Progress'
  BY <1>2 DEF Progress, FromVetted
<1> DEFINE State == [kind : {"regular", "symlink"}, private : BOOLEAN,
                     content : Versions \cup {0}]
<1>4. /\ dir' \in [Files -> Inodes \cup {NoInode}]
      /\ inode' \in [Inodes -> State]
      /\ accepted' \in Versions
      /\ fd \in Inodes => inode'[fd].kind = inode[fd].kind
  <2>1. CASE Rotate
    BY <2>1 DEF Rotate, TypeOK
  <2>2. ASSUME NEW f \in Files, Replace(f) PROVE <1>4!:
    <3>1. PICK i \in Inodes, kind \in {"regular", "symlink"}, private \in BOOLEAN,
               v \in Versions :
            /\ Unused(i)
            /\ dir' = [dir EXCEPT ![f] = i]
            /\ inode' = [inode EXCEPT ![i] = [kind |-> kind, private |-> private, content |-> v]]
      BY <2>2 DEF Replace
    <3>2. [kind |-> kind, private |-> private, content |-> v] \in State
      OBVIOUS
    <3>3. i # fd
      BY <3>1 DEF Unused
    <3> HIDE DEF State
    <3>4. inode \in [Inodes -> State]
      BY DEF TypeOK, State
    <3> QED  BY <2>2, <3>1, <3>2, <3>3, <3>4 DEF Replace, TypeOK
  <2>3. ASSUME NEW f \in Files, Rewrite(f) \/ Chmod(f) PROVE <1>4!:
    <3>1. dir[f] \in Inodes /\ dir' = dir /\ accepted' = accepted
      BY <2>3 DEF Rewrite, Chmod, TypeOK
    <3>2. inode[dir[f]] \in State
      BY <3>1 DEF TypeOK
    <3>3. PICK s : /\ inode' = [inode EXCEPT ![dir[f]] = s]
                   /\ \/ \E v \in Versions \cup {0} : s = [inode[dir[f]] EXCEPT !.content = v]
                      \/ s = [inode[dir[f]] EXCEPT !.private = ~inode[dir[f]].private]
      BY <2>3 DEF Rewrite, Chmod
    <3>4. s \in State /\ s.kind = inode[dir[f]].kind
      BY <3>2, <3>3
    <3> HIDE DEF State
    <3>5. inode \in [Inodes -> State]
      BY DEF TypeOK, State
    <3> QED  BY <3>1, <3>3, <3>4, <3>5 DEF TypeOK
  <2>4. ASSUME NEW f \in Files, Remove(f) PROVE <1>4!:
    BY <2>4 DEF Remove, TypeOK
  <2> QED  BY <2>1, <2>2, <2>3, <2>4 DEF Change
<1>5. TypeOK'
  BY <1>2, <1>4 DEF TypeOK
<1> QED  BY <1>3, <1>5

LEMMA NextIInv == IInv /\ [Next]_vars => IInv'
<1> SUFFICES ASSUME IInv, [Next]_vars PROVE IInv'
  OBVIOUS
<1>1. CASE UNCHANGED vars
  BY <1>1 DEF IInv, TypeOK, Progress, FromVetted, vars, disk
<1> QED  BY <1>1, ClientIInv, OthersIInv DEF Next

LEMMA Invariance == Spec => []IInv
BY InitIInv, NextIInv, PTL DEF Spec

\* What is open for reading is a regular file, whatever happens to its path
\* meanwhile (client.go, readSecret).
THEOREM Typing == Spec => []TypeOK
<1>1. IInv => TypeOK
  BY DEF IInv
<1> QED  BY <1>1, Invariance, PTL

\* However the two paths change while they are read, only credentials from
\* files that were private when they were examined go to Vault
\* (client.go, readSecret and NewClient).
THEOREM OnlyVettedIsSentHolds == Spec => []OnlyVettedIsSent
<1>1. IInv => OnlyVettedIsSent
  BY DEF IInv, Progress, FromVetted, OnlyVettedIsSent
<1> QED  BY <1>1, Invariance, PTL
=============================================================================
