------------------------------- MODULE Login --------------------------------
(***************************************************************************)
(* internal/vault, NewClient: the AppRole credentials are read from two    *)
(* files, one system call at a time, while configuration management may    *)
(* be rotating them; the pair that was read is sent to Vault.  Runs follow *)
(* each other.                                                             *)
(***************************************************************************)
EXTENDS Naturals

CONSTANTS
  Versions,   \* versions of the credentials, 1..n; Vault accepts one at a time
  Inodes,     \* files that may be put at the two paths
  MaxChanges, \* changes by others (a bound of the model)
  NoInode

Files == {"role_id", "secret_id"}

ASSUME LoginAssumption ==
  /\ Versions \subseteq Nat \ {0} /\ 1 \in Versions
  /\ MaxChanges \in Nat
  /\ \E i, j \in Inodes : i # j
  /\ NoInode \notin Inodes

VARIABLES
  dir,      \* file -> the inode at its path
  inode,    \* inode -> [kind, private, content]; content 0 is empty
  accepted, \* the version that Vault accepts
  pc,       \* "rest", "open", "stat", "read", "login"
  file, fd, \* the file that readSecret is at, and what it has open
  creds,    \* file -> what was read
  exit,     \* how the last run's login ended: "none", "in", "out"
  changes,  \* changes so far
  vetted,   \* ghost: inodes that this run has found to be private files
  origin    \* ghost: file -> the inode its credential came from

disk == << dir, inode, accepted, changes >>
vars == << disk, pc, file, fd, creds, exit, vetted, origin >>

Content(i) == inode[i].content
Private(i) == i # NoInode /\ inode[i].kind = "regular" /\ inode[i].private

(* ------------------------------ NewClient ------------------------------ *)

Start ==
  /\ pc = "rest"
  /\ pc' = "open" /\ file' = "role_id" /\ fd' = NoInode
  /\ creds' = [f \in Files |-> 0] /\ vetted' = {} /\ origin' = [f \in Files |-> NoInode]
  /\ UNCHANGED << disk, exit >>

\* NewClient returns, with a client or an error; the run ends in time.
End(how) ==
  /\ pc' = "rest" /\ exit' = how /\ fd' = NoInode
  /\ UNCHANGED << disk, file, creds, vetted, origin >>

\* Mutant: symlinks are followed.
OpenFollows ==
  /\ pc = "open" /\ dir[file] # NoInode
  /\ fd' = dir[file] /\ pc' = "stat"
  /\ UNCHANGED << disk, file, creds, exit, vetted, origin >>

\* O_NOFOLLOW: a symlink is not opened.
Openable(f) == dir[f] # NoInode /\ inode[dir[f]].kind # "symlink"

Open ==
  /\ pc = "open"
  /\ Openable(file)
  /\ fd' = dir[file] /\ pc' = "stat"
  /\ UNCHANGED << disk, file, creds, exit, vetted, origin >>

OpenFails ==
  /\ pc = "open"
  /\ ~Openable(file)
  /\ End("out")

\* Mutant: what is at the path, not what is open.
ExaminedPath == dir[file]

\* What fstat looks at.
Examined == fd

Stat ==
  /\ pc = "stat" /\ Private(Examined)
  /\ pc' = "read" /\ vetted' = vetted \cup {Examined}
  /\ UNCHANGED << disk, file, fd, creds, exit, origin >>

StatFails == pc = "stat" /\ ~Private(Examined) /\ End("out")

Got(value) ==
  /\ creds' = [creds EXCEPT ![file] = value]
  /\ origin' = [origin EXCEPT ![file] = fd]
  /\ IF file = "role_id" THEN pc' = "open" /\ file' = "secret_id"
                         ELSE pc' = "login" /\ file' = file
  /\ fd' = NoInode
  /\ UNCHANGED << disk, exit, vetted >>

\* Mutant: the newline at the end of the file stays.
ReadUntrimmed == pc = "read" /\ Content(fd) # 0 /\ Got(0)

Read == pc = "read" /\ Content(fd) # 0 /\ Got(Content(fd))

ReadFails == pc = "read" /\ Content(fd) = 0 /\ End("out")

Login ==
  /\ pc = "login" /\ \A f \in Files : creds[f] = accepted
  /\ End("in")

\* The pair is of two versions or of an old one; or Vault cannot be reached.
LoginFails == pc = "login" /\ End("out")

(* ------------------------ Configuration management --------------------- *)

Others ==
  /\ changes < MaxChanges /\ changes' = changes + 1
  /\ UNCHANGED << pc, file, fd, creds, exit, vetted, origin >>

Unused(i) == i # fd /\ \A f \in Files : dir[f] # i

\* A new file comes to the path, by rename, with whatever mode it was given.
Replace(f) ==
  /\ \E i \in Inodes, kind \in {"regular", "symlink"}, private \in BOOLEAN, v \in Versions :
       /\ Unused(i)
       /\ dir' = [dir EXCEPT ![f] = i]
       /\ inode' = [inode EXCEPT ![i] = [kind |-> kind, private |-> private, content |-> v]]
  /\ UNCHANGED accepted
  /\ Others

\* It is written in place: truncated first.
Rewrite(f) ==
  /\ dir[f] # NoInode
  /\ \E v \in IF Content(dir[f]) = 0 THEN Versions ELSE {0} :
       inode' = [inode EXCEPT ![dir[f]].content = v]
  /\ UNCHANGED << dir, accepted >>
  /\ Others

Chmod(f) ==
  /\ dir[f] # NoInode
  /\ inode' = [inode EXCEPT ![dir[f]].private = ~@]
  /\ UNCHANGED << dir, accepted >>
  /\ Others

Remove(f) ==
  /\ dir[f] # NoInode /\ dir' = [dir EXCEPT ![f] = NoInode]
  /\ UNCHANGED << inode, accepted >>
  /\ Others

\* Vault's side of a rotation.
Rotate ==
  /\ accepted' \in Versions \ {accepted}
  /\ UNCHANGED << dir, inode >>
  /\ Others

Deployed == CHOOSE d \in [Files -> Inodes] : d["role_id"] # d["secret_id"]

\* Nothing is there yet, or what Vault accepts is.
Init ==
  /\ dir \in {[f \in Files |-> NoInode], Deployed}
  /\ inode = [i \in Inodes |-> [kind |-> "regular", private |-> TRUE, content |-> 1]]
  /\ accepted = 1 /\ changes = 0
  /\ pc = "rest" /\ file = "role_id" /\ fd = NoInode /\ exit = "none"
  /\ creds = [f \in Files |-> 0] /\ vetted = {} /\ origin = [f \in Files |-> NoInode]

NewClient == \/ Open \/ OpenFails \/ Stat \/ StatFails \/ Read \/ ReadFails \/ Login
Change(f) == Replace(f) \/ Rewrite(f) \/ Chmod(f) \/ Remove(f)

Next == Start \/ NewClient \/ LoginFails \/ Rotate \/ \E f \in Files : Change(f)

Spec == Init /\ [][Next]_vars

\* The timer starts runs, they are scheduled, and some logins reach Vault.
FairSpec == Spec /\ WF_vars(Start) /\ WF_vars(NewClient \/ LoginFails) /\ SF_vars(Login)

(* ------------------------------ Properties ----------------------------- *)

TypeOK ==
  /\ dir \in [Files -> Inodes \cup {NoInode}]
  /\ inode \in [Inodes -> [kind : {"regular", "symlink"}, private : BOOLEAN,
                          content : Versions \cup {0}]]
  /\ accepted \in Versions /\ changes \in 0..MaxChanges
  /\ pc \in {"rest", "open", "stat", "read", "login"} /\ file \in Files
  /\ pc \in {"stat", "read"} => fd \in Inodes /\ inode[fd].kind = "regular"
  /\ creds \in [Files -> Versions \cup {0}]
  /\ exit \in {"none", "in", "out"}
  /\ vetted \subseteq Inodes /\ origin \in [Files -> Inodes \cup {NoInode}]

\* "Refuses to read if any group/other bits are set or if path is a symlink"
\* (client.go:115-118): however the paths change while they are read, what goes to
\* Vault has been read from files that were found to be private, and is not empty.
OnlyVettedIsSent ==
  pc = "login" => \A f \in Files : creds[f] # 0 /\ origin[f] \in vetted

\* Both files are private and hold what Vault accepts.
Settled == \A f \in Files : /\ Private(dir[f])
                            /\ Content(dir[f]) = accepted

\* A rotation may cost the runs it overlaps with their login, and no other: when
\* files and Vault agree again, so do the runs, whatever the rotation's order was.
RotationHeals == <>[]Settled => []<>(exit = "in")
=============================================================================
