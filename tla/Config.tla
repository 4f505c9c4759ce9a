------------------------------- MODULE Config -------------------------------
(***************************************************************************)
(* internal/config against the code that relies on it.  Operators edit the *)
(* config file a field at a time, copying cert blocks as people do; every  *)
(* start of the agent loads it.  The writer, the renewer, the sources and  *)
(* the reload manager check little of what they are given: what Validate   *)
(* accepts must be what each of them can work with.                        *)
(*                                                                         *)
(* A field's values are classes: "" (absent or empty), values that are     *)
(* malformed in the ways the code tells apart, and values that are fine.   *)
(***************************************************************************)
EXTENDS Layout, Integers

CONSTANTS
  Den,         \* thresholds are multiples of 1/Den
  Default,     \* defaultThresholdFraction, in those units
  CertNames,   \* names operators give to certs
  Places,      \* destinations
  FileNames,   \* plain file names
  Templates,   \* cert blocks operators start from
  MaxEdits     \* bound on edits

ASSUME ConfigModuleAssumption ==
  /\ Den \in Nat /\ Default \in 1..Den-1 /\ MaxEdits \in Nat
  /\ "" \notin CertNames \cup Places \cup FileNames
  /\ NoFile \notin (Places \X FileNames) \cup Places
  /\ {"..", "a/b"} \cap FileNames = {}

Methods == {"reload", "restart", "try-restart", "reload-or-restart",
            "try-reload-or-restart"}

BundleLayouts ==
  [o \in {"cert-chain-key", "cert-key-chain", "key-cert-chain",
          "key-chain-cert", "chain-cert-key", "chain-key-cert"} |->
     CASE o = "cert-chain-key" -> << "cert", "ca", "key" >>
       [] o = "cert-key-chain" -> << "cert", "key", "ca" >>
       [] o = "key-cert-chain" -> << "key", "cert", "ca" >>
       [] o = "key-chain-cert" -> << "key", "ca", "cert" >>
       [] o = "chain-cert-key" -> << "ca", "cert", "key" >>
       [] o = "chain-key-cert" -> << "ca", "key", "cert" >>]

Strings == {"", "set"}
Parsed  == {"", "malformed", "fine"}
Slotted == {"", "..", "a/b"} \cup FileNames

\* CertConfig: what each field may hold; "block" tells whether the cert has a
\* files block, whose slots are next to it.
FieldValues ==
  [name |-> {""} \cup CertNames, dest |-> {""} \cup Places,
   owner |-> Parsed, mode |-> Parsed, keyOwner |-> Parsed, keyMode |-> Parsed,
   format |-> {"", "split", "combined", "other"}, block |-> BOOLEAN,
   cert |-> Slotted, key |-> Slotted, ca |-> Slotted, fullchain |-> Slotted,
   order |-> {"", "other"} \cup DOMAIN BundleLayouts,
   command |-> {<< >>, << " ", "arg" >>, << "cmd" >>},
   units |-> {<< >>, << "unit" >>, << "unit", " " >>},
   method |-> {"", "other"} \cup Methods,
   source |-> {"", "pki", "letsencrypt", "other"},
   mount |-> Strings, role |-> Strings, cn |-> Strings, ttl |-> Parsed, path |-> Strings]

Fields == DOMAIN FieldValues

IsBlock(c) == /\ c = [f \in Fields |-> c[f]]
              /\ \A f \in Fields : c[f] \in FieldValues[f]

ASSUME TemplatesAssumption == \A c \in Templates : IsBlock(c)

VARIABLES
  vault,       \* vault block: "fine", or what is wrong with it
  threshold,   \* threshold_fraction, 0 when there is none
  certs,       \* sequence of cert blocks
  edits,       \* edits so far
  outcome,     \* what the last Load of this file did, or "none"
  loaded       \* the config it returned

file == << vault, threshold, certs >>
vars == << file, edits, outcome, loaded >>

NoConfig == [threshold |-> Default, certs |-> << >>]

(* --------------------------- Load and Validate ------------------------- *)

Values(seq) == { seq[i] : i \in 1..Len(seq) }

FilesDeclared(c) == { s \in SplitSlots : c[s] # "" }

\* Mutant: any slot will do.
SplitFilesNoLeaf(c) ==
  /\ c.block
  /\ \A s \in FilesDeclared(c) : c[s] \notin {"..", "a/b"}
  /\ \A s, t \in FilesDeclared(c) : s # t => c[s] # c[t]
  /\ FilesDeclared(c) # {}

\* Mutant: the leaf is looked for in the cert slot alone.
SplitFilesStrict(c) ==
  /\ c.block
  /\ \A s \in FilesDeclared(c) : c[s] \notin {"..", "a/b"}
  /\ \A s, t \in FilesDeclared(c) : s # t => c[s] # c[t]
  /\ c.cert # ""

SplitFilesOK(c) ==
  /\ c.block
  /\ \A s \in FilesDeclared(c) : c[s] \notin {"..", "a/b"}
  /\ \A s, t \in FilesDeclared(c) : s # t => c[s] # c[t]
  /\ FilesDeclared(c) # {}
  /\ c.cert # "" \/ c.fullchain # ""

KeyOverridesOK(c) ==
  c.keyOwner # "" \/ c.keyMode # "" =>
    /\ c.key # ""
    /\ "malformed" \notin {c.keyOwner, c.keyMode}

FormatOK(c) ==
  \/ c.format = "split" /\ c.order = "" /\ SplitFilesOK(c) /\ KeyOverridesOK(c)
  \/ /\ c.format = "combined"
     /\ ~c.block
     /\ c.keyOwner = "" /\ c.keyMode = ""
     /\ c.order \in {""} \cup DOMAIN BundleLayouts

ReloadOK(c) ==
  /\ c.command = << >> \/ c.units = << >>
  /\ c.method # "" => c.units # << >> /\ c.method \in Methods
  /\ " " \notin Values(c.units)
  /\ c.command # << >> => Head(c.command) # " "

SourceOK(c) ==
  \/ c.source = "pki" /\ "" \notin {c.mount, c.role, c.cn} /\ c.ttl = "fine"
  \/ c.source = "letsencrypt" /\ c.path # ""

CertOK(c) ==
  /\ "" \notin {c.name, c.dest}
  /\ c.owner = "fine" /\ c.mode = "fine"
  /\ FormatOK(c) /\ ReloadOK(c) /\ SourceOK(c)

\* applyDefaults cannot tell a fraction of 0 from one that is not set.
Threshold == IF threshold = 0 THEN Default ELSE threshold

Validates ==
  /\ vault = "fine"
  /\ Threshold \in 1..Den-1
  /\ certs # << >>
  /\ \A i \in 1..Len(certs) : CertOK(certs[i])
  /\ \A i, j \in 1..Len(certs) : i # j => certs[i].name # certs[j].name

\* Every start of the agent loads the file: Load returns the config, or an error.
Accept ==
  /\ Validates
  /\ outcome' = "accepted"
  /\ loaded' = [threshold |-> Threshold, certs |-> certs]
  /\ UNCHANGED << file, edits >>

\* Mutant: the config comes back with the error.
RejectReturns ==
  /\ ~Validates
  /\ outcome' = "rejected"
  /\ loaded' = [threshold |-> Threshold, certs |-> certs]
  /\ UNCHANGED << file, edits >>

Reject ==
  /\ ~Validates
  /\ outcome' = "rejected"
  /\ UNCHANGED << file, edits, loaded >>

(* ------------------------------ Operators ------------------------------ *)

Edit == /\ edits < MaxEdits
        /\ edits' = edits + 1
        /\ outcome' = "none"
        /\ loaded' = NoConfig

EditVault ==
  /\ Edit
  /\ vault' \in {"fine", "no url", "http", "no host", "no role_id_file", "no secret_id_file"}
  /\ UNCHANGED << threshold, certs >>

EditThreshold ==
  /\ Edit
  /\ threshold' \in -1..Den+1
  /\ UNCHANGED << vault, certs >>

EditField(i, f) ==
  /\ Edit
  /\ \E v \in FieldValues[f] : certs' = [certs EXCEPT ![i][f] = v]
  /\ UNCHANGED << vault, threshold >>

\* A block is pasted after the others, or removed.
Paste(c) ==
  /\ Edit
  /\ Len(certs) < 2
  /\ certs' = Append(certs, c)
  /\ UNCHANGED << vault, threshold >>

RemoveLast ==
  /\ Edit
  /\ certs # << >>
  /\ certs' = SubSeq(certs, 1, Len(certs) - 1)
  /\ UNCHANGED << vault, threshold >>

(* -------------------- The config in the others' eyes ------------------- *)

\* The config of Layout that the writer and the renewer work with.  A file of
\* a split cert is named by its directory and its name.
Deployed(c) ==
  [source |-> c.source, format |-> c.format,
   files |-> [s \in AllSlots |->
                CASE s = "bundle" -> IF c.format = "combined" THEN c.dest ELSE NoFile
                  [] OTHER        -> IF c.format = "split" /\ c[s] # ""
                                     THEN << c.dest, c[s] >> ELSE NoFile],
   order |-> BundleLayouts[IF c.order \in DOMAIN BundleLayouts
                           THEN c.order ELSE "cert-chain-key"],
   reload |-> c.units # << >> \/ c.command # << >>]

\* resolvePerms and resolveKeyPerms parse what they are given.
PermsResolve(c) ==
  /\ c.mode = "fine" /\ c.owner = "fine"
  /\ c.format = "split" => "malformed" \notin {c.keyMode, c.keyOwner}

\* Write and bundleParts know the format and the order; writeSplit follows the
\* pointer to the files block; no file is written outside the destination, or
\* twice.
LayoutWorks(c) ==
  /\ (c.format = "split" /\ c.block) \/ c.format = "combined"
  /\ c.format = "combined" => c.order = "" \/ c.order \in DOMAIN BundleLayouts
  /\ c.format = "split" => \A s \in FilesDeclared(c) : c[s] \notin {"..", "a/b"}
  /\ \A s, t \in Declared(Deployed(c)) :
       s # t => PathOf(Deployed(c), s) # PathOf(Deployed(c), t)

\* What loadLeaf will find: the first block of the file that ResolveLeafPath
\* names, once material is written there, is the leaf.
LeafRead(c) ==
  LET m == [id |-> "issue", chain |-> 1]
      s == LeafSlot(Deployed(c))
  IN  s # "none" /\ Head(Content(Deployed(c), s, m)) = LeafBlock(m.id)

\* The bundle orders that put something else in front of the leaf: loadLeaf
\* finds a key, which it refuses, or an issuer, which it takes for the leaf.
LeafBehind(c) ==
  /\ c.format = "combined"
  /\ c.order \in {"key-cert-chain", "key-chain-cert", "chain-cert-key", "chain-key-cert"}

\* The registry has the source, whose request is complete.
SourceWorks(c) ==
  \/ c.source = "pki" /\ "" \notin {c.mount, c.role, c.cn, c.ttl}
  \/ c.source = "letsencrypt" /\ c.path # ""

\* Reload has one thing to do and the means to do it.
ReloadWorks(c) ==
  /\ c.units # << >> =>
       /\ c.command = << >>
       /\ c.method \in {""} \cup Methods
       /\ " " \notin Values(c.units)
  /\ c.command # << >> => Head(c.command) # " "

\* All but decide can do their part.
Works(c) == PermsResolve(c) /\ LayoutWorks(c) /\ SourceWorks(c) /\ ReloadWorks(c)

Usable(c) == Works(c) /\ LeafRead(c)

(* ------------------------------ Behaviours ----------------------------- *)

Init ==
  /\ vault = "fine" /\ threshold = 0
  /\ certs \in { << c >> : c \in Templates }
  /\ edits = 0 /\ outcome = "none" /\ loaded = NoConfig

Next ==
  \/ Accept \/ Reject
  \/ EditVault \/ EditThreshold \/ RemoveLast
  \/ \E i \in 1..Len(certs), f \in Fields : EditField(i, f)
  \/ \E c \in Templates : Paste(c)

Spec == Init /\ [][Next]_vars

(* ------------------------------ Properties ----------------------------- *)

\* A config that Load returns is one the writer, the sources and the reload
\* manager can work with, down to the paths they derive from it: whatever the
\* operators did to the file, no cert of an accepted config fails, on every run,
\* because of how it is configured.  And the renewer will find the leaf whose
\* lifetime it is to judge, except behind the key or the chain of a bundle in one
\* of four orders, all of which Load lets through.
AcceptedIsUsable ==
  outcome = "accepted" =>
    /\ loaded.threshold \in 1..Den-1
    /\ loaded.certs # << >>
    /\ \A i \in 1..Len(loaded.certs) :
         \/ Usable(loaded.certs[i])
         \/ Works(loaded.certs[i]) /\ LeafBehind(loaded.certs[i])

\* Violated, by a bundle that starts with its key (see the README): validate.go
\* 215-218 would have no config accepted that leaves no leaf to read.
AcceptedHasLeaf ==
  outcome = "accepted" =>
    \A i \in 1..Len(loaded.certs) : LeafRead(loaded.certs[i])

\* Settings the README rejects although nobody would trip over them: those
\* that would silently be without effect, and certs that logs cannot tell apart.
Idle(c) ==
  \/ c.name = "" \/ c.dest = ""
  \/ c.format = "split" /\ c.order # ""
  \/ c.format = "combined" /\ c.block
  \/ {c.keyOwner, c.keyMode} # {""} /\ (c.format = "combined" \/ c.key = "")
  \/ c.method # "" /\ c.units = << >>
  \/ c.source = "pki" /\ c.ttl = "malformed"

\* The other way round: Load turns down no config all its users could work with
\* (or all but for those four orders), except for an idle setting, a bad vault
\* block or threshold, or names that are not distinct.  (A config turned down
\* stops every cert's renewal.)
RejectedForAReason ==
  outcome = "rejected" =>
    \/ vault # "fine" \/ Threshold \notin 1..Den-1 \/ certs = << >>
    \/ \E i \in 1..Len(certs) :
         \/ ~Works(certs[i]) \/ ~(LeafRead(certs[i]) \/ LeafBehind(certs[i]))
         \/ Idle(certs[i])
    \/ \E i, j \in 1..Len(certs) : i # j /\ certs[i].name = certs[j].name

\* Types; and Load returns a config or an error, never both.
TypeOK ==
  /\ edits \in 0..MaxEdits
  /\ threshold \in -1..Den+1
  /\ outcome \in {"none", "accepted", "rejected"}
  /\ outcome # "accepted" => loaded = NoConfig
  /\ \A i \in 1..Len(certs) : IsBlock(certs[i])
  /\ \A i \in 1..Len(loaded.certs) : IsBlock(loaded.certs[i])
=============================================================================
