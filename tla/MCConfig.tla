------------------------------ MODULE MCConfig ------------------------------
(* A small instance of Config for TLC. *)
EXTENDS Config

MCNoFile == "-"

\* a split PKI cert with a command, and a combined Let's Encrypt one with units
PkiSplit ==
  [name |-> "n1", dest |-> "dir", owner |-> "fine", mode |-> "fine", keyOwner |-> "",
   keyMode |-> "", format |-> "split", block |-> TRUE,
   cert |-> "f1", key |-> "f2", ca |-> "", fullchain |-> "", order |-> "",
   command |-> << "cmd" >>, units |-> << >>, method |-> "",
   source |-> "pki", mount |-> "set", role |-> "set", cn |-> "set", ttl |-> "fine",
   path |-> ""]

LeCombined ==
  [PkiSplit EXCEPT !.name = "n2", !.format = "combined", !.block = FALSE,
                   !.cert = "", !.key = "", !.order = "key-cert-chain",
                   !.command = << >>, !.units = << "unit" >>, !.method = "restart",
                   !.source = "letsencrypt", !.mount = "", !.role = "", !.cn = "",
                   !.ttl = "", !.path = "set"]

MCTemplates == {PkiSplit, LeCombined}
=============================================================================
