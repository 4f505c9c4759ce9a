----------------------------- MODULE MCRenewer ------------------------------
(* Small instances of Renewer for TLC. *)
EXTENDS Renewer, TLC

MCNoFile == "-"

AnyNames == Permutations(Ids)

NoFiles == [s \in AllSlots |-> MCNoFile]

Split(source, alt, files, perms) ==
  [source |-> source, fqdn |-> "host", alt |-> alt, format |-> "split",
   files |-> files @@ NoFiles, order |-> << "cert", "ca", "key" >>,
   perms |-> perms, keyPerms |-> "key", reload |-> TRUE]

Combined(source, alt, order) ==
  [source |-> source, fqdn |-> "host", alt |-> alt, format |-> "combined",
   files |-> [NoFiles EXCEPT !["bundle"] = "b"], order |-> order,
   perms |-> "key", keyPerms |-> "key", reload |-> TRUE]

Pair(path)      == ("cert" :> path) @@ ("key" :> "k")
FullPair(path)  == ("fullchain" :> path) @@ ("key" :> "k")
Two(a, b)       == << {a}, {b} >>

\* one PKI cert, whose cert file an operator turns into a fullchain
PkiPair      == Split("pki", << >>, Pair("c"), "pub")
PkiFull      == Split("pki", << >>, FullPair("c"), "pub")
OneCert      == << {PkiPair, PkiFull} >>
MCChain == [pki |-> 1, letsencrypt |-> 1]

\* a PKI bundle on a broken disk, before a Let's Encrypt one whose alt_names change
PkiBundle    == Combined("pki", << >>, << "cert", "ca", "key" >>)
LeBundle(n)  == Combined("letsencrypt", << n >>, << "cert", "key", "ca" >>)
Fleet        == << {PkiBundle}, {LeBundle("alt"), LeBundle("www")} >>

\* one Let's Encrypt bundle
OneBundle    == << {LeBundle("alt")} >>

\* configs the documents promise something about that the code does not keep
ChainFirst   == << {Combined("pki", << >>, << "ca", "cert", "key" >>)} >>
FqdnListed   == << {Combined("letsencrypt", << "host", "alt" >>, << "cert", "ca", "key" >>)} >>
LeFull       == << {Split("letsencrypt", << "alt" >>, FullPair("f"), "pub")} >>
Drifting     == << {PkiBundle} >>
LeafOnly     == [pki |-> 1, letsencrypt |-> 0]
LePlain      == Combined("letsencrypt", << >>, << "cert", "ca", "key" >>)
Dropping     == << {LeBundle("alt"), LePlain} >>
WithCA(key, ca) == Split("pki", << >>, ("cert" :> "c") @@ ("key" :> key) @@ ("ca" :> ca), "pub")
Swapped      == << {WithCA("k", "a"), WithCA("a", "k")} >>
=============================================================================
