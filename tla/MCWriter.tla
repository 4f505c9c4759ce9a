------------------------------ MODULE MCWriter ------------------------------
(* Small instances of Writer for TLC. *)
EXTENDS Writer, TLC

MCNoFile == "-"

Perm(mode, owner) == [mode |-> mode, owner |-> owner]

MCTempPerms    == Perm("0600", "root")
MCForeignPerms == Perm("0666", "other")
MCTorn         == << [type |-> "none", role |-> "torn", id |-> Issuer] >>

CertAndKey == [s \in AllSlots |-> CASE s = "cert" -> "tls.crt"
                                      [] s = "key"  -> "tls.key"
                                      [] OTHER      -> MCNoFile]

Public  == Perm("0644", "haproxy")
Private == Perm("0400", "postgres")

\* certificate and key side by side, the key under its own perms
PairConfig == [format |-> "split", files |-> CertAndKey, order |-> << "cert", "ca", "key" >>,
               perms |-> Public, keyPerms |-> Private]

OnePair == {PairConfig}

\* the same files, the certificate under other perms: an agent that has read the
\* config before it was edited, and one that has read it after
EditedPair == {PairConfig, [PairConfig EXCEPT !.perms = Perm("0640", "haproxy")]}

CONSTANTS i1, i2
TwoIssues == { [id |-> i, chain |-> 1] : i \in {i1, i2} }

\* Which agent is which makes no difference.
AnyAgents == Permutations(Procs)
=============================================================================
