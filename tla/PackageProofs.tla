---------------------------- MODULE PackageProofs ---------------------------
(***************************************************************************)
(* Proofs about Package, for any set of templated timers.                  *)
(***************************************************************************)
EXTENDS Package, TLAPS

\* The package's bookkeeping keeps its types: what is installed was configured.
THEOREM Typing == Spec => []TypeOK
<1>1. Init => TypeOK
  BY DEF Init, TypeOK, Timers
<1>2. TypeOK /\ [Next]_vars => TypeOK'
  <2> SUFFICES ASSUME TypeOK, [Next]_vars PROVE TypeOK'
    OBVIOUS
  <2> USE DEF TypeOK
  <2>1. CASE Unpack
    BY <2>1 DEF Unpack
  <2>2. CASE Configure
    BY <2>2 DEF Configure, Timers
  <2>3. ASSUME StopAndDisable, state' \in {"removed", state} PROVE TypeOK'
    BY <2>3 DEF StopAndDisable, Timers
  <2>4. CASE Remove
    BY <2>4, <2>3 DEF Remove
  <2>5. CASE RemoveAborted
    BY <2>5, <2>3 DEF RemoveAborted
  <2>6. CASE Purge
    BY <2>6 DEF Purge
  <2>7. CASE Deploy
    BY <2>7 DEF Deploy
  <2>8. CASE Boot
    BY <2>8 DEF Boot
  <2>9. ASSUME NEW t \in Timers, TurnOn(t) \/ TurnOff(t) \/ StartOnly(t) PROVE TypeOK'
    BY <2>9 DEF TurnOn, TurnOff, StartOnly
  <2>10. CASE UNCHANGED vars
    BY <2>10 DEF vars
  <2>11. CASE RemoveUnprepared
    BY <2>11 DEF RemoveUnprepared, Timers
  <2> QED BY <2>1, <2>2, <2>4, <2>5, <2>6, <2>7, <2>8, <2>9, <2>10, <2>11 DEF Next
<1> QED BY <1>1, <1>2, PTL DEF Spec

(***************************************************************************)
(* An operator's wish outlives a removal in no case: every one of them     *)
(* forgets them all, so that the boots that follow with the package gone,  *)
(* and the first configuration after a purge, break none.                  *)
(***************************************************************************)
Wishes ==
  /\ WillKept
  /\ state \in {"none", "removed"} => will = [t \in Timers |-> "none"]
  /\ ~version => will = [t \in Timers |-> "none"]

\* "Upgrades leave the existing enabled/disabled state alone": through upgrades,
\* boots and systemctl calls that fail, a timer stays as an operator last put it.
THEOREM WillKeptHolds == Spec => []WillKept
<1>1. Init => Wishes
  BY DEF Init, Wishes, WillKept
<1>2. TypeOK /\ Wishes /\ [Next]_vars => Wishes'
  <2> SUFFICES ASSUME TypeOK, Wishes, [Next]_vars PROVE Wishes'
    OBVIOUS
  <2> USE DEF Wishes, WillKept
  <2>1. CASE Unpack
    BY <2>1 DEF Unpack
  <2>2. CASE Configure
    <3>1. CASE FirstInstall
      BY <2>2, <3>1 DEF Configure, FirstInstall
    <3>2. CASE ~FirstInstall
      BY <2>2, <3>2 DEF Configure
    <3> QED BY <3>1, <3>2
  <2>3. CASE Remove \/ RemoveUnprepared \/ RemoveAborted
    BY <2>3 DEF Remove, RemoveUnprepared, RemoveAborted, StopAndDisable
  <2>4. CASE Purge
    BY <2>4 DEF Purge
  <2>5. CASE Deploy
    BY <2>5 DEF Deploy
  <2>6. CASE Boot
    BY <2>6 DEF Boot, TypeOK
  <2>7. ASSUME NEW t \in Timers, TurnOn(t) \/ TurnOff(t) \/ StartOnly(t) PROVE Wishes'
    <3>1. version /\ state = "installed" /\ UNCHANGED << state, version >>
      BY <2>7 DEF TypeOK, TurnOn, TurnOff, StartOnly
    <3>2. ASSUME NEW u \in Timers
          PROVE  /\ will'[u] = "on"  => u \in enabled' \cap active'
                 /\ will'[u] = "off" => u \notin enabled' \cup active'
      BY <2>7, <3>2 DEF TypeOK, TurnOn, TurnOff, StartOnly
    <3> QED BY <3>1, <3>2
  <2>8. CASE UNCHANGED vars
    BY <2>8 DEF vars
  <2> QED BY <2>1, <2>2, <2>3, <2>4, <2>5, <2>6, <2>7, <2>8 DEF Next
<1>3. Wishes => WillKept
  BY DEF Wishes
<1> QED BY <1>1, <1>2, <1>3, Typing, PTL DEF Spec

\* Removal stops every timer it can know of, and nothing starts one afterwards: an
\* orphan is a timer whose stop failed or that was started without being enabled,
\* or the removal was one that runs no prerm.
THEOREM NoOrphansHolds == Spec => []NoOrphans
<1>1. Init => NoOrphans
  BY DEF Init, NoOrphans
<1>2. TypeOK /\ NoOrphans /\ [Next]_vars => NoOrphans'
  <2> SUFFICES ASSUME TypeOK, NoOrphans, [Next]_vars, state' \in {"removed", "none"}
               PROVE  active' \subseteq excused'
    BY DEF NoOrphans
  <2> USE DEF NoOrphans
  <2>1. CASE Remove \/ RemoveUnprepared
    BY <2>1 DEF Remove, RemoveUnprepared, StopAndDisable, Walked, Timers, TypeOK
  <2>2. CASE Purge
    BY <2>2 DEF Purge
  <2>3. CASE Boot
    BY <2>3 DEF Boot
  <2>4. CASE Unpack \/ Configure
    BY <2>4 DEF Unpack, Configure
  <2>5. CASE RemoveAborted
    BY <2>5 DEF RemoveAborted, StopAndDisable
  <2>6. CASE Deploy
    BY <2>6 DEF Deploy
  <2>7. CASE \E t \in Timers : TurnOn(t) \/ TurnOff(t) \/ StartOnly(t)
    BY <2>7 DEF TurnOn, TurnOff, StartOnly
  <2>8. CASE UNCHANGED vars
    BY <2>8 DEF vars
  <2> QED BY <2>1, <2>2, <2>3, <2>4, <2>5, <2>6, <2>7, <2>8 DEF Next
<1> QED BY <1>1, <1>2, Typing, PTL DEF Spec
=============================================================================
