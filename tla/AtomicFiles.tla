----------------------------- MODULE AtomicFiles -----------------------------
(***************************************************************************)
(* What internal/writer promises to whoever reads the files it maintains,  *)
(* whatever happens half way through a call: a path changes content only   *)
(* by receiving, in one step, one whole version that was asked for, with   *)
(* the mode and owner asked for.  Apart from that, mode and owner may be   *)
(* put right in place, one at a time; and the directory may fall back to   *)
(* what the disk last made durable.                                        *)
(***************************************************************************)
CONSTANTS Paths,      \* the managed paths
          Wanted,     \* path -> versions some config and material ask for
          Foreign     \* versions other actors may leave at a path

VARIABLES files,      \* path -> version [kind, content, mode, owner]
          saved       \* what the disk has made durable

vars == << files, saved >>

Versions(path) == Wanted[path] \cup Foreign

Init == /\ files \in [Paths -> UNION { Versions(p) : p \in Paths }]
        /\ saved = files

\* A whole version appears at a path.
Publish(path) == /\ \E v \in Wanted[path] : files' = [files EXCEPT ![path] = v]
                 /\ UNCHANGED saved

\* Mode or owner of the file in place becomes one that is asked for there.
PutRight(path) ==
  /\ files[path].kind = "regular"
  /\ \E v \in Wanted[path] :
        \/ files' = [files EXCEPT ![path].mode = v.mode]
        \/ files' = [files EXCEPT ![path].owner = v.owner]
  /\ UNCHANGED saved

\* Somebody else touches the path: removes it, replaces it, changes perms.
Meddle(path) ==
  /\ \E v \in Foreign \cup { [files[path] EXCEPT !.mode = w.mode, !.owner = w.owner]
                                : w \in Foreign } :
        files' = [files EXCEPT ![path] = v]
  /\ UNCHANGED saved

Save   == saved' = files /\ UNCHANGED files
Revert == files' = saved /\ UNCHANGED saved

Next == \/ Save
        \/ Revert
        \/ \E path \in Paths : Publish(path) \/ PutRight(path) \/ Meddle(path)

Spec == Init /\ [][Next]_vars
=============================================================================
