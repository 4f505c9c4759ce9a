------------------------------- MODULE Package ------------------------------
(***************************************************************************)
(* packaging: the timers of a host while dpkg installs, upgrades, removes  *)
(* and purges the package and its maintainer scripts run, operators turn   *)
(* timers on and off, systemctl calls fail, and the host boots.  A script  *)
(* is one step, with the systemctl calls that fail in it; dpkg runs one    *)
(* script at a time.                                                       *)
(***************************************************************************)
EXTENDS FiniteSets

CONSTANTS
  Instances,  \* templated timers, vault-cert-agent@<name>.timer
  Main        \* vault-cert-agent.timer

ASSUME PackageAssumption == Main \notin Instances

Timers == {Main} \cup Instances

VARIABLES
  state,    \* dpkg's: "none", "unpacked" (or half-configured), "installed", "removed"
            \* (files in /etc kept)
  version,  \* dpkg knows a version that was configured: $2 of postinst
  config,   \* /etc/vault-cert-agent/config.hcl exists
  enabled,  \* timers linked from timers.target.wants
  active,   \* timers that are started
  will,     \* ghost: what an operator last did to a timer: "on", "off", or "none"
  excused   \* ghost: timers that the last removal could not have stopped

vars == << state, version, config, enabled, active, will, excused >>

(* --------------------------- Maintainer scripts ------------------------ *)

\* dpkg puts the files in place: on a first install, on an upgrade (after prerm
\* upgrade, which leaves the timers alone), on the return of a removed package.
Unpack ==
  /\ state \in {"none", "removed", "installed"} /\ state' = "unpacked"
  /\ UNCHANGED << version, config, enabled, active, will, excused >>

\* Mutant: $2 is not looked at.
AnyInstall == config

\* $2 is empty, and there is a config for the single-instance timer.
FirstInstall == ~version /\ config

\* postinst configure.  A daemon-reload that fails leaves the package unpacked;
\* enable --now may fail, before or after the enabling.
Configure ==
  /\ state = "unpacked" /\ state' = "installed" /\ version' = TRUE
  /\ IF FirstInstall
     THEN /\ enabled' \in {enabled, enabled \cup {Main}}
          /\ \E started \in SUBSET (enabled' \cap {Main}) : active' = active \cup started
     ELSE UNCHANGED << enabled, active >>
  /\ UNCHANGED << config, will, excused >>

\* Mutant: the templated timers are not walked.
WalkedMain == {Main}

\* The timers that prerm stops and disables.
Walked == {Main} \cup enabled

\* prerm remove, of a package that is installed or whose configuration failed; a
\* stop or a disable that fails is passed over.
StopAndDisable ==
  /\ state \in {"installed", "unpacked"}
  /\ \E kept \in SUBSET Timers :
       /\ active' = active \ (Walked \ kept)
       /\ excused' = kept \cup (Instances \ enabled)
  /\ \E kept \in SUBSET Timers : enabled' = enabled \ (Walked \ kept)
  /\ will' = [t \in Timers |-> "none"]
  /\ UNCHANGED << version, config >>

Remove == StopAndDisable /\ state' = "removed"

\* dpkg runs no prerm for a package that was unpacked and never got to its postinst.
RemoveUnprepared ==
  /\ state = "unpacked" /\ state' = "removed"
  /\ excused' = Timers
  /\ will' = [t \in Timers |-> "none"]
  /\ UNCHANGED << version, config, enabled, active >>

\* dpkg gives the removal up: postinst abort-remove does nothing.
RemoveAborted == StopAndDisable /\ UNCHANGED state

\* Mutant: dpkg is left believing that the purged package was configured.
PurgeKeeps == state = "removed" /\ state' = "none" /\ config' = FALSE
              /\ UNCHANGED << version, enabled, active, will, excused >>

\* postrm purge.
Purge ==
  /\ state = "removed" /\ state' = "none"
  /\ version' = FALSE /\ config' = FALSE
  /\ UNCHANGED << enabled, active, will, excused >>

(* ------------------------------- The host ------------------------------ *)

\* systemctl enable --now, disable --now, start.
TurnOn(t) ==
  /\ state = "installed"
  /\ enabled' = enabled \cup {t} /\ active' = active \cup {t}
  /\ will' = [will EXCEPT ![t] = "on"]
  /\ UNCHANGED << state, version, config, excused >>

TurnOff(t) ==
  /\ state = "installed"
  /\ enabled' = enabled \ {t} /\ active' = active \ {t}
  /\ will' = [will EXCEPT ![t] = "off"]
  /\ UNCHANGED << state, version, config, excused >>

StartOnly(t) ==
  /\ state = "installed" /\ t \notin enabled
  /\ active' = active \cup {t}
  /\ will' = [will EXCEPT ![t] = "none"]
  /\ UNCHANGED << state, version, config, enabled, excused >>

Deploy == config' = ~config /\ UNCHANGED << state, version, enabled, active, will, excused >>

\* WantedBy=timers.target; a link to a unit that is gone starts nothing.
Boot ==
  /\ active' = IF state \in {"unpacked", "installed"} THEN enabled ELSE {}
  /\ UNCHANGED << state, version, config, enabled, will, excused >>

Init ==
  /\ state = "none" /\ version = FALSE /\ config \in BOOLEAN
  /\ enabled = {} /\ active = {}
  /\ will = [t \in Timers |-> "none"] /\ excused = {}

Next == \/ Unpack \/ Configure
        \/ Remove \/ RemoveUnprepared \/ RemoveAborted \/ Purge
        \/ Deploy \/ Boot
        \/ \E t \in Timers : TurnOn(t) \/ TurnOff(t) \/ StartOnly(t)

Spec == Init /\ [][Next]_vars

(* ------------------------------ Properties ----------------------------- *)

TypeOK ==
  /\ state \in {"none", "unpacked", "installed", "removed"}
  /\ version \in BOOLEAN /\ config \in BOOLEAN
  /\ state = "installed" => version
  /\ state = "none" => ~version
  /\ enabled \subseteq Timers /\ active \subseteq Timers /\ excused \subseteq Timers
  /\ will \in [Timers -> {"on", "off", "none"}]

\* "Upgrades leave the existing enabled/disabled state alone" (README.md:58): what
\* an operator turned on runs, and what he turned off does not, through any
\* upgrades, interrupted ones too, and any boots, until the package is removed.
WillKept ==
  \A t \in Timers : /\ will[t] = "on"  => t \in enabled \cap active
                    /\ will[t] = "off" => t \notin enabled \cup active

\* "so we don't leave a timer firing at a soon-to-be-missing binary"
\* (preremove.sh:22-24): what is still started once the package is gone could not be
\* stopped, or was a templated timer that nobody had enabled, or the removal ran no
\* prerm; and nothing that happens to the host afterwards starts any.
NoOrphans == state \in {"removed", "none"} => active \subseteq excused
=============================================================================
