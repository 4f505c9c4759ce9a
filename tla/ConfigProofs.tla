---------------------------- MODULE ConfigProofs ----------------------------
(***************************************************************************)
(* Proofs about Config: what Load accepts is usable, and is what the other *)
(* modules assume of a config, for any names, places and number of certs.  *)
(***************************************************************************)
EXTENDS Config, TLAPS

Anything == UNION { FieldValues[f] : f \in Fields }

Blocks == { c \in [Fields -> Anything] : \A f \in Fields : c[f] \in FieldValues[f] }

\* A cert block is one whose fields have their values.
LEMMA BlockFacts ==
  ASSUME NEW c
  PROVE  IsBlock(c) <=> c \in Blocks
  BY DEF IsBlock, Blocks, Anything

\* The names of the fields.
LEMMA FieldFacts ==
  /\ SplitSlots \subseteq Fields /\ "dest" \in Fields
  /\ \A s \in SplitSlots : FieldValues[s] = Slotted
  /\ FieldValues["dest"] = {""} \cup Places
  BY DEF Fields, FieldValues, SplitSlots

\* An accepted cert declares its files, each under a path of its own, a leaf
\* among them, its parts in a known order and a known source: the part of Renewer's
\* ConfigAssumption that is about one cert's config.
THEOREM AcceptedShape ==
  ASSUME NEW c, IsBlock(c), CertOK(c)
  PROVE  LET cfg == Deployed(c)
         IN  /\ Declared(cfg) # {}
             /\ LeafSlot(cfg) # "none"
             /\ \A s \in Declared(cfg) : PathOf(cfg, s) # NoFile
             /\ \A s, t \in Declared(cfg) : s # t => PathOf(cfg, s) # PathOf(cfg, t)
             /\ cfg.order \in BundleOrders
             /\ cfg.source \in {"pki", "letsencrypt"}
  <1> DEFINE cfg == Deployed(c)
  <1>1. c.dest \in Places
    BY FieldFacts DEF IsBlock, CertOK
  <1>2. \A s \in SplitSlots : c[s] \in Slotted
    BY FieldFacts DEF IsBlock
  <1>3. cfg.order \in BundleOrders
    BY DEF Deployed, BundleLayouts, BundleOrders
  <1>6. cfg.source \in {"pki", "letsencrypt"}
    BY DEF Deployed, CertOK, SourceOK
  <1>4. CASE c.format = "combined"
    <2>1. Declared(cfg) = {"bundle"} BY <1>4 DEF Declared, Deployed
    <2>2. PathOf(cfg, "bundle") = c.dest BY <1>4 DEF PathOf, Deployed, AllSlots
    <2>3. LeafSlot(cfg) = "bundle" BY <2>1 DEF LeafSlot
    <2> QED BY <1>1, <1>3, <1>6, <2>1, <2>2, <2>3, ConfigModuleAssumption
  <1>5. CASE c.format = "split"
    <2>1. SplitFilesOK(c) BY <1>5 DEF CertOK, FormatOK
    <2>2. \A s \in SplitSlots :
            cfg.files[s] = IF c[s] # "" THEN << c.dest, c[s] >> ELSE NoFile
      BY <1>5 DEF Deployed, SplitSlots, AllSlots
    <2>3. \A s \in FilesDeclared(c) : c[s] \in FileNames
      BY <1>2, <2>1 DEF SplitFilesOK, FilesDeclared, Slotted
    <2>4. \A s \in FilesDeclared(c) : << c.dest, c[s] >> # NoFile
      <3>1. NoFile \notin Places \X FileNames BY ConfigModuleAssumption
      <3> QED BY <1>1, <2>3, <3>1
    <2>5. Declared(cfg) = FilesDeclared(c)
      BY <1>5, <2>2, <2>4 DEF Declared, Deployed, FilesDeclared
    <2>6. \A s \in Declared(cfg) : PathOf(cfg, s) = << c.dest, c[s] >>
      BY <2>2, <2>5 DEF PathOf, FilesDeclared
    <2>7. \A s, t \in Declared(cfg) : s # t => PathOf(cfg, s) # PathOf(cfg, t)
      <3> HIDE DEF cfg
      <3> SUFFICES ASSUME NEW s \in Declared(cfg), NEW t \in Declared(cfg), s # t
                   PROVE  PathOf(cfg, s) # PathOf(cfg, t)
        OBVIOUS
      <3>1. c[s] # c[t] BY <2>1, <2>5 DEF SplitFilesOK
      <3> QED BY <2>6, <3>1
    <2>8. "cert" \in Declared(cfg) \/ "fullchain" \in Declared(cfg)
      BY <2>1, <2>5 DEF SplitFilesOK, FilesDeclared, SplitSlots
    <2>9. LeafSlot(cfg) # "none" BY <2>8 DEF LeafSlot
    <2> QED BY <1>3, <1>6, <2>4, <2>5, <2>6, <2>7, <2>8, <2>9
  <1> QED BY <1>4, <1>5 DEF CertOK, FormatOK

\* What loadLeaf will find in front, slot by slot and order by order.
LEMMA FrontFacts ==
  ASSUME NEW m, m.chain \in Nat, NEW cfg, cfg.order \in BundleOrders, NEW s \in AllSlots,
         s \in {"cert", "fullchain"} \/ (s = "bundle" /\ cfg.order[1] = "cert")
  PROVE  Head(Content(cfg, s, m)) = LeafBlock(m.id)
  <1> DEFINE All == {LeafBlock(m.id), KeyBlock(m.id), ChainBlock}
  <1>1. ASSUME NEW b \in Seq(All)
        PROVE  Head(<< LeafBlock(m.id) >> \o b) = LeafBlock(m.id)
    <2>1. << LeafBlock(m.id) >> \in Seq(All) OBVIOUS
    <2> HIDE DEF All
    <2> QED BY <1>1, <2>1
  <1>2. /\ Cert(m) = << LeafBlock(m.id) >> /\ Cert(m) \in Seq(All)
        /\ CA(m) \in Seq(All) /\ Key(m) \in Seq(All)
    BY DEF Cert, CA, Key
  <1> HIDE DEF All
  <1>3. CASE s = "cert"
    BY <1>2, <1>3 DEF Content, Part
  <1>4. CASE s = "fullchain"
    BY <1>1, <1>2, <1>4 DEF Content
  <1>5. CASE s = "bundle"
    <2> DEFINE b == Part(cfg.order[2], m)
               d == Part(cfg.order[3], m)
    <2>1. /\ cfg.order[1] = "cert"
          /\ cfg.order[2] \in {"cert", "ca", "key"} /\ cfg.order[3] \in {"cert", "ca", "key"}
      BY <1>5 DEF BundleOrders
    <2>2. b \in Seq(All) /\ d \in Seq(All) BY <1>2, <2>1 DEF Part
    <2>3. Part(cfg.order[1], m) = << LeafBlock(m.id) >> BY <1>2, <2>1 DEF Part
    <2>4. Content(cfg, s, m) = (<< LeafBlock(m.id) >> \o b) \o d
      BY <1>5, <2>3 DEF Content
    <2>5. << LeafBlock(m.id) >> \in Seq(All) BY <1>2
    <2> HIDE DEF b, d
    <2>6. (<< LeafBlock(m.id) >> \o b) \o d = << LeafBlock(m.id) >> \o (b \o d)
      BY <2>2, <2>5
    <2>7. b \o d \in Seq(All) BY <2>2
    <2> QED BY <1>1, <2>4, <2>6, <2>7
  <1> QED BY <1>3, <1>4, <1>5

\* Load lets no cert through whose leaf would not be in front of the file that
\* decide looks at, but in the four orders that put it elsewhere.
LEMMA AcceptedLeaf ==
  ASSUME NEW c, IsBlock(c), CertOK(c)
  PROVE  LeafRead(c) \/ LeafBehind(c)
  <1> DEFINE cfg == Deployed(c)
             m == [id |-> "issue", chain |-> 1]
  <1>1. SUFFICES ASSUME ~LeafBehind(c) PROVE LeafRead(c) OBVIOUS
  <1>2. cfg.order \in BundleOrders /\ LeafSlot(cfg) # "none" BY AcceptedShape
  <1>3. CASE c.format = "combined"
    <2>1. c.order \in {"", "cert-chain-key", "cert-key-chain"}
      BY <1>1, <1>3 DEF LeafBehind, CertOK, FormatOK, BundleLayouts
    <2>2. cfg.order[1] = "cert" BY <2>1 DEF Deployed, BundleLayouts
    <2>3. LeafSlot(cfg) \in {"bundle", "cert", "fullchain"} BY <1>2 DEF LeafSlot
    <2> HIDE DEF cfg
    <2>4. Head(Content(cfg, LeafSlot(cfg), m)) = LeafBlock(m.id)
      BY <1>2, <2>2, <2>3, FrontFacts DEF AllSlots, SplitSlots
    <2> QED BY <1>2, <2>4 DEF LeafRead, cfg
  <1>4. CASE c.format = "split"
    <2>1. cfg.format = "split" BY <1>4 DEF Deployed
    <2> HIDE DEF cfg
    <2>2. "bundle" \notin Declared(cfg) BY <2>1 DEF Declared, SplitSlots
    <2>3. LeafSlot(cfg) \in {"cert", "fullchain"} BY <1>2, <2>2 DEF LeafSlot
    <2>4. Head(Content(cfg, LeafSlot(cfg), m)) = LeafBlock(m.id)
      BY <1>2, <2>3, FrontFacts DEF AllSlots, SplitSlots
    <2> QED BY <1>2, <2>4 DEF LeafRead, cfg
  <1> QED BY <1>3, <1>4 DEF CertOK, FormatOK

\* Every consumer but decide can work with an accepted cert.
LEMMA AcceptedWorks ==
  ASSUME NEW c, IsBlock(c), CertOK(c)
  PROVE  Works(c)
  <1>1. PermsResolve(c)
    BY DEF PermsResolve, CertOK, FormatOK, KeyOverridesOK
  <1>2. LayoutWorks(c)
    BY AcceptedShape DEF LayoutWorks, CertOK, FormatOK, SplitFilesOK
  <1>3. SourceWorks(c) BY DEF SourceWorks, CertOK, SourceOK
  <1>4. ReloadWorks(c) BY DEF ReloadWorks, CertOK, ReloadOK
  <1> QED BY <1>1, <1>2, <1>3, <1>4 DEF Works

\* The values of the fields that tell the reasons to reject a cert.
LEMMA ValueFacts ==
  ASSUME NEW c, IsBlock(c)
  PROVE  /\ c.owner \in Parsed /\ c.mode \in Parsed
         /\ c.keyOwner \in Parsed /\ c.keyMode \in Parsed /\ c.ttl \in Parsed
         /\ c.block \in BOOLEAN
         /\ c.order \in {"", "other"} \cup DOMAIN BundleLayouts
         /\ c.command \in {<< >>, << " ", "arg" >>, << "cmd" >>}
         /\ c.units \in {<< >>, << "unit" >>, << "unit", " " >>}
         /\ c.method \in {"", "other"} \cup Methods
  BY DEF IsBlock, Fields, FieldValues

\* What the consumers can work with, the four orders included, and holds no idle
\* setting, Validate accepts.
LEMMA WorksAccepted ==
  ASSUME NEW c, IsBlock(c), Works(c), LeafRead(c) \/ LeafBehind(c), ~Idle(c)
  PROVE  CertOK(c)
  <1> DEFINE cfg == Deployed(c)
  <1>1. /\ "" \notin {c.name, c.dest}
        /\ c.owner = "fine" /\ c.mode = "fine"
    BY DEF Idle, Works, PermsResolve
  <1>2. FormatOK(c)
    <2>1. CASE c.format = "combined"
      <3>1. c.order \in {""} \cup DOMAIN BundleLayouts
        BY <2>1 DEF Works, LayoutWorks
      <3>2. ~c.block /\ c.keyOwner = "" /\ c.keyMode = ""
        BY <2>1 DEF Idle
      <3> QED BY <2>1, <3>1, <3>2 DEF FormatOK
    <2>2. CASE c.format # "combined"
      <3>1. /\ c.format = "split" /\ c.block
            /\ \A s \in FilesDeclared(c) : c[s] \notin {"..", "a/b"}
        BY <2>2 DEF Works, LayoutWorks
      <3>2. c.order = "" BY <3>1 DEF Idle
      <3>3. KeyOverridesOK(c)
        BY <3>1 DEF KeyOverridesOK, Idle, Works, PermsResolve
      <3>4. c.dest \in Places /\ \A s \in SplitSlots : c[s] \in Slotted
        BY <1>1, FieldFacts DEF IsBlock
      <3>5. \A s \in FilesDeclared(c) : c[s] \in FileNames
        BY <3>1, <3>4 DEF FilesDeclared, Slotted
      <3>6. \A s \in AllSlots :
              cfg.files[s] = IF s \in FilesDeclared(c) THEN << c.dest, c[s] >> ELSE NoFile
        BY <3>1 DEF Deployed, SplitSlots, AllSlots, FilesDeclared
      <3>7. \A s \in FilesDeclared(c) : << c.dest, c[s] >> # NoFile
        <4>1. NoFile \notin Places \X FileNames BY ConfigModuleAssumption
        <4> QED BY <3>4, <3>5, <4>1
      <3>8. cfg.format = "split" BY <3>1 DEF Deployed
      <3>9. Declared(cfg) = FilesDeclared(c)
        <4> HIDE DEF cfg
        <4>1. SplitSlots \subseteq AllSlots BY DEF AllSlots
        <4>2. FilesDeclared(c) \subseteq SplitSlots BY DEF FilesDeclared
        <4> QED BY <3>6, <3>7, <3>8, <4>1, <4>2 DEF Declared
      <3>10. \A s, t \in FilesDeclared(c) : s # t => c[s] # c[t]
        <4>1. \A s, t \in Declared(cfg) : s # t => PathOf(cfg, s) # PathOf(cfg, t)
          BY DEF Works, LayoutWorks
        <4> HIDE DEF cfg
        <4>2. \A s \in FilesDeclared(c) : PathOf(cfg, s) = << c.dest, c[s] >>
          BY <3>6 DEF PathOf, FilesDeclared, AllSlots
        <4> QED BY <3>9, <4>1, <4>2
      <3>11. "cert" \in FilesDeclared(c) \/ "fullchain" \in FilesDeclared(c)
        <4>1. LeafSlot(cfg) # "none" BY <3>1 DEF LeafRead, LeafBehind
        <4> HIDE DEF cfg
        <4>2. "bundle" \notin FilesDeclared(c) BY DEF FilesDeclared, SplitSlots
        <4> QED BY <3>9, <4>1, <4>2 DEF LeafSlot
      <3>12. SplitFilesOK(c)
        BY <3>1, <3>10, <3>11 DEF SplitFilesOK, FilesDeclared
      <3> QED BY <3>1, <3>2, <3>3, <3>12 DEF FormatOK
    <2> QED BY <2>1, <2>2
  <1>3. ReloadOK(c)
    <2>1. /\ c.units # << >> => /\ c.command = << >>
                                /\ c.method \in {""} \cup Methods
                                /\ " " \notin Values(c.units)
          /\ c.command # << >> => Head(c.command) # " "
      BY DEF Works, ReloadWorks
    <2>2. c.method # "" => c.units # << >> BY DEF Idle
    <2>3. " " \notin Values(<< >>) BY DEF Values
    <2>4. CASE c.units = << >>
      <3>1. " " \notin Values(c.units) BY <2>3, <2>4
      <3> QED BY <2>1, <2>2, <2>4, <3>1 DEF ReloadOK
    <2>5. CASE c.units # << >>
      BY <2>1, <2>5 DEF ReloadOK
    <2> QED BY <2>4, <2>5
  <1>4. SourceOK(c)
    BY ValueFacts DEF Works, SourceWorks, SourceOK, Idle, Parsed
  <1> QED BY <1>1, <1>2, <1>3, <1>4 DEF CertOK

\* What was accepted: a config that validates.
Accepted ==
  outcome = "accepted" =>
    /\ loaded.threshold \in 1..Den-1
    /\ loaded.certs # << >>
    /\ \A i \in 1..Len(loaded.certs) : CertOK(loaded.certs[i])

\* The outcome is that of the file as it is: an edit forgets it.
Current ==
  /\ outcome = "accepted" => Validates
  /\ outcome = "rejected" => ~Validates

IInv == /\ certs \in Seq(Blocks) /\ loaded.certs \in Seq(Blocks)
        /\ TypeOK /\ Current /\ Accepted

\* Cert blocks in a list are cert blocks.
LEMMA ListFacts ==
  ASSUME NEW list \in Seq(Blocks)
  PROVE  \A i \in 1..Len(list) : IsBlock(list[i])
  <1> SUFFICES ASSUME NEW i \in 1..Len(list) PROVE IsBlock(list[i]) OBVIOUS
  <1>1. list[i] \in Blocks OBVIOUS
  <1> QED BY <1>1, BlockFacts

LEMMA InitIInv == Init => IInv
  <1> SUFFICES ASSUME Init PROVE IInv OBVIOUS
  <1>1. PICK c \in Templates : certs = << c >> BY DEF Init
  <1>2. c \in Blocks BY <1>1, TemplatesAssumption, BlockFacts
  <1>3. certs \in Seq(Blocks) /\ loaded.certs = << >> BY <1>1, <1>2 DEF Init, NoConfig
  <1>4. TypeOK
    <2>1. \A i \in 1..Len(certs) : IsBlock(certs[i]) BY <1>3, ListFacts
    <2>2. \A i \in 1..Len(loaded.certs) : IsBlock(loaded.certs[i]) BY <1>3
    <2>3. edits \in 0..MaxEdits /\ threshold \in -1..Den+1
      <3>1. edits = 0 /\ threshold = 0 BY DEF Init
      <3>2. Den \in Nat /\ MaxEdits \in Nat BY ConfigModuleAssumption
      <3> QED BY <3>1, <3>2
    <2> QED BY <2>1, <2>2, <2>3 DEF Init, TypeOK
  <1> QED BY <1>3, <1>4 DEF Init, IInv, Current, Accepted

\* An edit that leaves a list of cert blocks and a threshold in range.
LEMMA EditKeeps ==
  ASSUME IInv, Edit, certs' \in Seq(Blocks), threshold' \in -1..Den+1
  PROVE  IInv'
  <1>1. loaded' = NoConfig /\ outcome' = "none" BY DEF Edit
  <1>2. NoConfig.certs = << >> BY DEF NoConfig
  <1>3. \A i \in 1..Len(certs') : IsBlock(certs'[i])
    BY ListFacts
  <1>4. \A i \in 1..Len(loaded'.certs) : IsBlock(loaded'.certs[i])
    BY <1>1, <1>2
  <1>5. edits' \in 0..MaxEdits
    <2>1. edits \in 0..MaxEdits /\ MaxEdits \in Nat
      BY ConfigModuleAssumption DEF IInv, TypeOK
    <2> QED BY <2>1 DEF Edit
  <1>6. TypeOK' BY <1>1, <1>3, <1>4, <1>5 DEF TypeOK
  <1> QED BY <1>1, <1>2, <1>6 DEF IInv, Current, Accepted

\* Every step keeps the invariant.
LEMMA NextIInv == IInv /\ [Next]_vars => IInv'
  <1> SUFFICES ASSUME IInv, [Next]_vars PROVE IInv' OBVIOUS
  <1> USE DEF IInv
  <1>0. certs \in Seq(Blocks) /\ threshold \in -1..Den+1 BY DEF TypeOK
  <1>1. CASE Accept
    <2>1. certs' = certs /\ loaded'.certs = certs /\ Validates'
      BY <1>1 DEF Accept, file, Validates, Threshold
    <2>2. TypeOK' BY <1>1, <2>1 DEF Accept, file, TypeOK
    <2>3. Accepted' BY <1>1 DEF Accept, file, Accepted, Validates
    <2> QED BY <1>1, <2>1, <2>2, <2>3 DEF Accept, Current
  <1>2. CASE Reject
    <2>1. outcome # "accepted" /\ loaded = NoConfig
      BY <1>2 DEF Reject, Current, TypeOK
    <2>2. (~Validates)' BY <1>2 DEF Reject, file, Validates, Threshold
    <2>3. TypeOK' BY <1>2, <2>1 DEF Reject, file, TypeOK
    <2> QED BY <1>2, <2>2, <2>3 DEF Reject, file, Accepted, Current
  <1>3. CASE EditVault \/ EditThreshold
    BY <1>0, <1>3, EditKeeps DEF EditVault, EditThreshold
  <1>4. ASSUME NEW i \in 1..Len(certs), NEW f \in Fields, EditField(i, f)
        PROVE  IInv'
    <2>1. PICK v \in FieldValues[f] : certs' = [certs EXCEPT ![i][f] = v]
      BY <1>4 DEF EditField
    <2>2. certs[i] \in Blocks OBVIOUS
    <2>3. [certs[i] EXCEPT ![f] = v] \in Blocks
      BY <2>2 DEF Blocks, Anything
    <2>4. certs' = [certs EXCEPT ![i] = [certs[i] EXCEPT ![f] = v]]
      BY <2>1
    <2>5. certs' \in Seq(Blocks) BY <2>3, <2>4
    <2> QED BY <1>0, <1>4, <2>5, EditKeeps DEF EditField
  <1>5. ASSUME NEW c \in Templates, Paste(c) PROVE IInv'
    <2>1. c \in Blocks BY TemplatesAssumption, BlockFacts
    <2>2. certs' \in Seq(Blocks) BY <1>5, <2>1 DEF Paste
    <2> QED BY <1>0, <1>5, <2>2, EditKeeps DEF Paste
  <1>6. CASE RemoveLast
    <2>1. certs' \in Seq(Blocks) BY <1>6 DEF RemoveLast
    <2> QED BY <1>0, <1>6, <2>1, EditKeeps DEF RemoveLast
  <1>7. CASE UNCHANGED vars
    <2>1. Validates' <=> Validates BY <1>7 DEF vars, file, Validates, Threshold
    <2> QED BY <1>7, <2>1 DEF vars, file, Accepted, Current, TypeOK
  <1> QED BY <1>1, <1>2, <1>3, <1>4, <1>5, <1>6, <1>7 DEF Next

\* Type correctness; and Load returns a config or an error, never both: while
\* the file is rejected there is no config (config.go:144-159).
THEOREM Typing == Spec => []TypeOK
  <1>1. IInv => TypeOK BY DEF IInv
  <1> QED BY <1>1, InitIInv, NextIInv, PTL DEF Spec

\* What Load accepts (validate.go) is something the writer, the sources and the
\* reload manager can all work with, and so can the renewer, which reads the leaf
\* in front (renewer.go:198-216), but for four bundle orders (config.go:28-33).
THEOREM AcceptedIsUsableHolds == Spec => []AcceptedIsUsable
  <1>1. IInv => AcceptedIsUsable
    <2> SUFFICES ASSUME IInv, outcome = "accepted",
                        NEW i \in 1..Len(loaded.certs)
                 PROVE  \/ Usable(loaded.certs[i])
                        \/ Works(loaded.certs[i]) /\ LeafBehind(loaded.certs[i])
      BY DEF IInv, Accepted, AcceptedIsUsable
    <2>1. IsBlock(loaded.certs[i]) /\ CertOK(loaded.certs[i])
      BY ListFacts DEF IInv, Accepted
    <2> QED BY <2>1, AcceptedWorks, AcceptedLeaf DEF Usable
  <1> QED BY <1>1, InitIInv, NextIInv, PTL DEF Spec

\* The other way round: what Load turns down (validate.go) some consumer could
\* not work with, or it has an idle setting, a bad vault block or threshold, or
\* two certs of one name.
THEOREM RejectedForAReasonHolds == Spec => []RejectedForAReason
  <1>1. IInv => RejectedForAReason
    <2> SUFFICES ASSUME IInv, outcome = "rejected",
                        \A i \in 1..Len(certs) :
                          /\ Works(certs[i]) /\ ~Idle(certs[i])
                          /\ LeafRead(certs[i]) \/ LeafBehind(certs[i]),
                        vault = "fine", Threshold \in 1..Den-1, certs # << >>,
                        \A i, j \in 1..Len(certs) :
                          i # j => certs[i].name # certs[j].name
                 PROVE  FALSE
      BY DEF RejectedForAReason
    <2>1. \A i \in 1..Len(certs) : CertOK(certs[i])
      BY ListFacts, WorksAccepted DEF IInv
    <2> QED BY <2>1 DEF IInv, Current, Validates
  <1> QED BY <1>1, InitIInv, NextIInv, PTL DEF Spec
=============================================================================
