------------------------------- MODULE Layout -------------------------------
(***************************************************************************)
(* What the agent puts on disk and how it later reads it back.             *)
(*                                                                         *)
(* internal/writer turns fetched material (leaf, key, chain) into files;   *)
(* internal/renewer inspects those files to decide whether to fetch again. *)
(* This module holds the data both sides agree on, as pure operators.  A   *)
(* file's content is a sequence of PEM blocks; a block keeps its PEM type, *)
(* its role and the identity of the issue it belongs to.                   *)
(***************************************************************************)
EXTENDS Naturals, Sequences, FiniteSets

CONSTANTS NoFile,      \* filename of a slot the config does not declare
          Issuer       \* identity of the issuers, which all issues share

(* ------------------------------ Material ------------------------------- *)

LeafBlock(id) == [type |-> "CERTIFICATE", role |-> "leaf", id |-> id]
KeyBlock(id)  == [type |-> "PRIVATE KEY", role |-> "key",  id |-> id]
\* Issuers outlive leaves: every issue comes with the same chain blocks.
ChainBlock    == [type |-> "CERTIFICATE", role |-> "chain", id |-> Issuer]

\* Fetched material is [id, chain]: which issue it is, how many chain blocks.
Cert(m) == << LeafBlock(m.id) >>
Key(m)  == << KeyBlock(m.id) >>
CA(m)   == [i \in 1..m.chain |-> ChainBlock]

(* -------------------------------- Slots -------------------------------- *)

SplitSlots == {"cert", "key", "ca", "fullchain"}
AllSlots   == SplitSlots \cup {"bundle"}

\* splitFiles adds the slots in this order; "bundle" stands for the single
\* file of the combined format.
Rank(s) == CASE s = "cert"      -> 1
             [] s = "key"       -> 2
             [] s = "ca"        -> 3
             [] s = "fullchain" -> 4
             [] s = "bundle"    -> 1

\* The six bundle orders, named by the order of their parts.
BundleOrders == { o \in [1..3 -> {"cert", "ca", "key"}] :
                    \A i, j \in 1..3 : i # j => o[i] # o[j] }

\* A cert's config: source, fqdn, alt (sequence of names), format,
\* files (slot -> filename), order, perms, keyPerms.
Declared(cfg) ==
  IF cfg.format = "combined"
  THEN {"bundle"}
  ELSE { s \in SplitSlots : cfg.files[s] # NoFile }

PathOf(cfg, s) == cfg.files[s]

\* writer.resolvePerms, and resolveKeyPerms for the key slot of a split layout.
PermsOf(cfg, s) == IF s = "key" THEN cfg.keyPerms ELSE cfg.perms

Part(s, m) == CASE s = "cert" -> Cert(m)
                [] s = "key"  -> Key(m)
                [] s = "ca"   -> CA(m)

\* The bytes slot s must hold for material m.
Content(cfg, s, m) ==
  CASE s = "fullchain" -> Cert(m) \o CA(m)
    [] s = "bundle"    -> Part(cfg.order[1], m) \o Part(cfg.order[2], m)
                                                \o Part(cfg.order[3], m)
    [] OTHER           -> Part(s, m)

\* The next slot a Write call commits when the slots in todo are left.
IsNext(s, todo) == s \in todo /\ \A t \in todo : Rank(s) <= Rank(t)

\* writer.ResolveLeafPath, as a slot.
LeafSlot(cfg) ==
  CASE "bundle"    \in Declared(cfg) -> "bundle"
    [] "cert"      \in Declared(cfg) -> "cert"
    [] "fullchain" \in Declared(cfg) -> "fullchain"
    [] OTHER                         -> "none"

(* ----------------------- Reading the files back ------------------------ *)

\* A file is [kind, content, ...]; kind is "absent", "regular" or "special"
\* (a symlink, fifo or directory, which every reader refuses).
IsCert(b) == b.type = "CERTIFICATE"

CheckExists(f) == f.kind = "regular"

StartsWithCert(f) ==
  f.kind = "regular" /\ f.content # << >> /\ IsCert(Head(f.content))

\* Mutant: the second block is not looked at.
MoreCertsFromThird(f) == \E i \in 3..Len(f.content) : IsCert(f.content[i])

MoreCerts(f) == \E i \in 2..Len(f.content) : IsCert(f.content[i])

CheckLeafOnly(f)      == StartsWithCert(f) /\ ~MoreCerts(f)
CheckLeafPlusChain(f) == StartsWithCert(f) /\ MoreCerts(f)

SlotShapeOK(s, f) == CASE s = "cert"      -> CheckLeafOnly(f)
                       [] s = "fullchain" -> CheckLeafPlusChain(f)
                       [] OTHER           -> CheckExists(f)

\* auditOnDiskFiles: the audit looks at split layouts only.
AuditPasses(cfg, files) ==
  cfg.format = "split" =>
    \A s \in Declared(cfg) : SlotShapeOK(s, files[PathOf(cfg, s)])

\* loadLeaf succeeds exactly when the first block is a certificate.
LoadLeafOK(f) == StartsWithCert(f)

\* altNamesDiffer compares the list fqdn, alt_names... with the leaf's names
\* as multisets.  A leaf's DNSNames hold no duplicate, so they are a set.
ExpectedNames(cfg) == << cfg.fqdn >> \o cfg.alt

NamesIn(seq) == { seq[i] : i \in 1..Len(seq) }

AltNamesDiffer(cfg, names) ==
  ~ /\ Len(ExpectedNames(cfg)) = Cardinality(names)
    /\ NamesIn(ExpectedNames(cfg)) = names
=============================================================================
