--------------------------- MODULE RequestsProofs ---------------------------
(***************************************************************************)
(* Proofs about Requests, for any number of calls, any alt_names and any   *)
(* answers: its types, that it implements Issuing, and that reads without  *)
(* names cause one issue.                                                  *)
(***************************************************************************)
EXTENDS Requests, TLAPS

\* How often the call under way has been sent.
Counted ==
  pc # "rest" =>
    /\ asked[cur].source = "pki" => sends = tries
    /\ sends <= 2 * tries /\ (pc = "wait" /\ pooled => sends < 2 * tries)
    /\ pc = "backoff" => tries <= MaxRetries

\* Every send is served once at most.
Unserved == \A a \in pending :
              /\ a[2] \in 1..MaxSends[asked[a[1]].source]
              /\ \A i \in made : i.by # a

Numbered == /\ \A a \in pending : a[1] <= cur /\ (a[1] = cur => a[2] <= sends)
            /\ \A i \in made : i.by[1] <= cur /\ (i.by[1] = cur => i.by[2] <= sends)

\* What has come back answers the call under way.
AnswerFits == \A r \in answer : r.status = "ok" =>
                pc = "wait" /\ r.issue \in made /\ I!Fits(cur, r.issue)

\* Calls are made one after the other.
OneByOne ==
  \A c \in 1..Calls :
    /\ c < cur \/ (c = cur /\ pc = "rest") => got[c] # I!Nothing
    /\ c > cur => got[c] = I!Nothing

IInv == TypeOK /\ Counted /\ Unserved /\ Numbered /\ AnswerFits /\ OneByOne

LEMMA SendsFacts ==
  ASSUME NEW r \in Requests
  PROVE  /\ r.source \in {"pki", "letsencrypt"}
         /\ r.source = "pki" => MaxSends[r.source] = 2
         /\ r.source # "pki" => MaxSends[r.source] = 4
         /\ MaxRetries = 1
  BY RequestsAssumption DEF Requests, MaxSends, MaxRetries

\* The call under way, and those before it, have a request.
LEMMA AskedFacts ==
  ASSUME TypeOK
  PROVE  /\ cur \in Nat /\ cur <= Calls /\ Calls \in Nat
         /\ \A c \in 1..cur : c \in 1..Calls /\ asked[c] \in Requests
         /\ pc # "rest" => cur \in 1..cur
  BY RequestsAssumption DEF TypeOK, cur

\* The initial states satisfy the invariant.
LEMMA InitIInv == Init => IInv
  <1> SUFFICES ASSUME Init PROVE IInv OBVIOUS
  <1>1. cur = 0 BY DEF Init, cur
  <1>2. TypeOK
    <2>1. asked \in Seq(Requests) /\ cur <= Calls
      BY <1>1, RequestsAssumption DEF Init
    <2>2. got \in [1..Calls -> Results]
      BY DEF Init, Results
    <2>3. tries \in Nat /\ sends \in Nat /\ pooled \in BOOLEAN /\ expired \in BOOLEAN
      BY DEF Init
    <2> QED BY <2>1, <2>2, <2>3 DEF Init, TypeOK
  <1> QED BY <1>1, <1>2 DEF IInv, Init, Counted, Unserved, Numbered, AnswerFits, OneByOne

(* -------------------------------- Sources ------------------------------ *)

\* What Fetch makes of an answer is an error, or the answer's issue whole.
LEMMA ParsedFacts ==
  ASSUME NEW r \in Requests, NEW reply, reply.data \in Shapes
  PROVE  \/ Parsed(r, reply) = I!Failed
         \/ \E leaf, chain \in Bundles :
              /\ Parsed(r, reply) = I!Material(reply.issue, leaf, chain)
              /\ I!Sound(r.source, leaf, chain)
  <1> DEFINE d == reply.data
  <1>1. d.certificate \in Bundles /\ d.ca_chain \in Bundles
    BY DEF Shapes
  <1>2. CASE r.source = "pki"
    <2>1. CASE d.certificate # << >> /\ d.private_key /\ ChainField(d)
      <3>1. d.ca_chain \in Seq({"CERTIFICATE", "text", "number"})
        BY <1>1, RequestsAssumption
      <3>2. I!AllAre(d.ca_chain, {"CERTIFICATE", "text"})
        BY <2>1, <3>1 DEF I!AllAre, ChainField
      <3>3. I!Sound(r.source, d.certificate, d.ca_chain)
        BY <1>2, <2>1, <3>2 DEF I!Sound, ChainField
      <3> QED BY <1>1, <1>2, <2>1, <3>3 DEF Parsed
    <2> QED BY <1>2, <2>1 DEF Parsed
  <1>3. CASE r.source # "pki"
    <2>1. CASE d.private_key /\ SplitBundle(d.certificate)
      <3> DEFINE b == d.certificate
      <3>1. b # << >> /\ b \in Seq({"CERTIFICATE", "text", "number"})
        BY <1>1, <2>1, RequestsAssumption DEF SplitBundle
      <3>2. << b[1] >> \in Bundles /\ Tail(b) \in Bundles
        BY <1>1, <3>1, RequestsAssumption
      <3>3. << b[1] >> = << "CERTIFICATE" >> /\ I!AllAre(Tail(b), {"CERTIFICATE"})
        BY <2>1, <3>1 DEF SplitBundle, I!AllAre
      <3>4. I!Sound(r.source, << b[1] >>, Tail(b))
        BY <1>3, <3>3 DEF I!Sound
      <3> QED BY <1>3, <2>1, <3>2, <3>4 DEF Parsed
    <2> QED BY <1>3, <2>1 DEF Parsed
  <1> QED BY <1>2, <1>3

\* The plugin reuses what has the names asked for.
LEMMA ReuseFits ==
  ASSUME TypeOK, NEW a \in pending, asked[a[1]].source = "letsencrypt",
         NEW i \in made, Reuses(a, i)
  PROVE  I!Fits(a[1], i)
  <1>1. a[1] \in 1..cur BY DEF TypeOK
  <1>2. asked[a[1]] \in Requests BY <1>1, AskedFacts
  <1>3. asked[a[1]].names # Omitted
    BY <1>2, RequestsAssumption DEF Requests
  <1> QED BY <1>3 DEF Reuses, AltNamesParam, I!Fits

(* --------------------------------- Vault ------------------------------- *)

\* An attempt that Vault serves may be issued for: its number is free.
LEMMA IssueForFacts ==
  ASSUME IInv, NEW a \in pending
  PROVE  /\ a = << a[1], a[2] >> /\ a[1] \in 1..cur /\ a[1] \in 1..Calls
         /\ a[2] \in 1..4 /\ a[2] \in 1..MaxSends[asked[a[1]].source]
         /\ IssueFor(a) \in Issues /\ IssueFor(a).by = a
         /\ I!Fits(a[1], IssueFor(a))
         /\ \A i \in made : i.by # a
  <1>1. a \in (1..cur) \X (1..4) BY DEF IInv, TypeOK
  <1>2. a[1] \in 1..Calls /\ asked[a[1]] \in Requests
    BY <1>1, AskedFacts DEF IInv
  <1>3. a[2] \in 1..MaxSends[asked[a[1]].source] /\ \A i \in made : i.by # a
    BY DEF IInv, Unserved
  <1>4. IssueFor(a) = [by |-> a, names |-> asked[a[1]].names]
    BY DEF IssueFor
  <1>5. IssueFor(a) \in Issues
    BY <1>1, <1>2, <1>4 DEF Issues, Requests
  <1>6. I!Fits(a[1], IssueFor(a))
    BY <1>4 DEF I!Fits
  <1> QED BY <1>1, <1>2, <1>3, <1>4, <1>5, <1>6

\* An attempt comes back with an error, or with one of the issues there are now.
LEMMA ReplyStep ==
  ASSUME IInv, NEW a \in pending, NEW r, Reply(a, r), r \in Replies,
         made \subseteq made', made' \subseteq made \cup {IssueFor(a)},
         stored' \subseteq made',
         r.status = "ok" => r.issue \in made' /\ I!Fits(a[1], r.issue)
  PROVE  IInv'
  <1> USE DEF IInv
  <1>0. /\ UNCHANGED << asked, got, pc, tries, sends, pooled, expired >>
        /\ cur' = cur /\ pending' = pending \ {a}
        /\ answer' = answer \/ (pc = "wait" /\ a[1] = cur /\ answer' = {r})
    <2>1. a = Present => a[1] = cur BY DEF Present
    <2> QED BY <2>1 DEF Reply, cur
  <1>1. made' \subseteq Issues
    BY IssueForFacts DEF TypeOK
  <1>2. TypeOK'
    BY <1>0, <1>1 DEF TypeOK
  <1>3. Counted'
    BY <1>0 DEF Counted
  <1>4. Unserved'
    BY <1>0, IssueForFacts DEF Unserved
  <1>5. Numbered'
    BY <1>0, IssueForFacts DEF Numbered
  <1>6. AnswerFits'
    BY <1>0 DEF AnswerFits, I!Fits
  <1>7. OneByOne'
    BY <1>0 DEF OneByOne
  <1> QED BY <1>2, <1>3, <1>4, <1>5, <1>6, <1>7

\* What Vault does keeps the invariant, and is an issue or nothing to Issuing.
LEMMA VaultStep ==
  ASSUME IInv, NEW a \in pending, Vault(a)
  PROVE  IInv' /\ [I!Next]_(I!vars)
  <1> USE DEF IInv
  <1>0. stored \subseteq made /\ made \subseteq Issues BY DEF TypeOK
  <1>1. ASSUME IssueFor(a) \in made', made' = made \cup {IssueFor(a)},
               UNCHANGED << asked, got >>
        PROVE  I!Next
    <2>1. /\ a = << a[1], a[2] >> /\ a[1] \in 1..Len(asked)
          /\ a[2] \in 1..MaxSends[asked[a[1]].source]
          /\ \A i \in made : i.by # << a[1], a[2] >>
      BY IssueForFacts DEF cur
    <2>2. made' = made \cup {[by |-> << a[1], a[2] >>, names |-> asked[a[1]].names]}
      BY <1>1, <2>1 DEF IssueFor
    <2>3. I!Issue BY <1>1, <2>1, <2>2 DEF I!Issue
    <2> QED BY <2>3 DEF I!Next
  <1>2. CASE ServePki(a)
    <2>1. PICK d \in PkiShapes : Reply(a, Served(IssueFor(a), d))
      BY <1>2 DEF ServePki
    <2>2. Served(IssueFor(a), d) \in Replies
      BY IssueForFacts, RequestsAssumption DEF Served, Replies
    <2>3. IInv'
      BY <1>0, <1>2, <2>1, <2>2, ReplyStep, IssueForFacts DEF ServePki, Served
    <2>4. I!Next
      BY <1>1, <1>2, <2>1 DEF ServePki, Reply
    <2> QED BY <2>3, <2>4
  <1>3. CASE ServeStored(a)
    <2>1. PICK i \in stored, d \in LeShapes : Reuses(a, i) /\ Reply(a, Served(i, d))
      BY <1>3 DEF ServeStored
    <2>2. Served(i, d) \in Replies
      BY <1>0, RequestsAssumption DEF Served, Replies
    <2>3. IInv'
      BY <1>0, <1>3, <2>1, <2>2, ReplyStep, ReuseFits DEF ServeStored, Served
    <2>4. UNCHANGED I!vars
      BY <1>3, <2>1 DEF ServeStored, Reply, I!vars
    <2> QED BY <2>3, <2>4
  <1>4. CASE ServeIssued(a)
    <2>1. PICK d \in LeShapes : Reply(a, Served(IssueFor(a), d))
      BY <1>4 DEF ServeIssued
    <2>2. Served(IssueFor(a), d) \in Replies
      BY IssueForFacts, RequestsAssumption DEF Served, Replies
    <2>3. IInv'
      BY <1>0, <1>4, <2>1, <2>2, ReplyStep, IssueForFacts DEF ServeIssued, Served
    <2>4. I!Next
      BY <1>1, <1>4, <2>1 DEF ServeIssued, Reply
    <2> QED BY <2>3, <2>4
  <1>5. CASE Refuse(a)
    <2>1. PICK s \in {"refused", "unavailable"} : Reply(a, [status |-> s])
      BY <1>5 DEF Refuse
    <2>2. [status |-> s] \in Replies BY DEF Replies
    <2>3. IInv'
      BY <1>0, <1>5, <2>1, <2>2, ReplyStep DEF Refuse
    <2>4. UNCHANGED I!vars
      BY <1>5, <2>1 DEF Refuse, Reply, I!vars
    <2> QED BY <2>3, <2>4
  <1>6. CASE Lose(a)
    <2>1. cur' = cur BY <1>6 DEF Lose, cur
    <2>2. IInv'
      BY <1>6, <2>1 DEF Lose, TypeOK, Counted, Unserved, Numbered, AnswerFits, OneByOne,
                        I!Fits
    <2>3. UNCHANGED I!vars BY <1>6 DEF Lose, I!vars
    <2> QED BY <2>2, <2>3
  <1> QED BY <1>2, <1>3, <1>4, <1>5, <1>6 DEF Vault

(* -------------------------------- Client ------------------------------- *)

\* A new call keeps the invariant and is one to Issuing.
LEMMA FetchStep == IInv /\ Fetch => IInv' /\ I!Next
  <1> SUFFICES ASSUME IInv, Fetch PROVE IInv' /\ I!Next OBVIOUS
  <1> USE DEF IInv
  <1>0. /\ pc = "rest" /\ cur < Calls /\ Put(<< cur + 1, 1 >>)
        /\ pc' = "wait" /\ tries' = 1 /\ sends' = 1 /\ answer' = {} /\ expired' = FALSE
        /\ pooled' \in BOOLEAN /\ got' = got /\ stored' = stored /\ made' = made
    BY DEF Fetch
  <1>1. PICK r \in Requests : asked' = Append(asked, r)
    BY DEF Fetch
  <1>2. /\ cur \in Nat /\ cur' = cur + 1 /\ cur < Calls /\ Calls \in Nat
        /\ asked' \in Seq(Requests) /\ asked'[cur'] = r
        /\ \A c \in 1..cur : asked'[c] = asked[c]
    BY <1>0, <1>1, RequestsAssumption DEF TypeOK, cur
  <1>3. \A c \in 1..cur : got[c] # I!Nothing
    <2>1. \A c \in 1..cur : c \in 1..Calls /\ (c < cur \/ c = cur) BY <1>2
    <2>2. TAKE c \in 1..cur
    <2>3. c \in 1..Calls /\ (c < cur \/ (c = cur /\ pc = "rest"))
      BY <1>0, <2>1
    <2> QED BY <2>3 DEF OneByOne
  <1>4. pending' = pending \cup {<< cur', 1 >>}
    BY <1>0, <1>2 DEF Put
  <1>5. 1 \in 1..MaxSends[r.source] /\ MaxRetries = 1 /\ cur' \in 1..Calls
    BY <1>2, SendsFacts
  <1>6. TypeOK'
    <2>1. got'[cur'] = I!Nothing
      BY <1>0, <1>2, <1>5 DEF OneByOne
    <2>2. pending' \subseteq (1..cur') \X (1..4)
      BY <1>2, <1>4 DEF TypeOK
    <2>3. tries' \in 1..MaxRetries + 1 /\ sends' \in 1..MaxSends[asked'[cur'].source]
      BY <1>0, <1>2, <1>5
    <2>4. cur' > 0 /\ cur' <= Calls
      BY <1>5, RequestsAssumption
    <2>5. got' \in [1..Calls -> Results] /\ made' \subseteq Issues /\ stored' \subseteq made'
      BY <1>0 DEF TypeOK
    <2> QED BY <1>0, <1>2, <2>1, <2>2, <2>3, <2>4, <2>5 DEF TypeOK
  <1>7. Counted'
    BY <1>0, <1>5 DEF Counted
  <1>8. Numbered'
    BY <1>0, <1>2, <1>4 DEF Numbered, TypeOK, Issues
  <1>9. Unserved'
    <2>1. \A i \in made : i.by # << cur', 1 >>
      BY <1>2 DEF Numbered, TypeOK, Issues
    <2>2. \A a \in pending : asked'[a[1]] = asked[a[1]]
      BY <1>2 DEF TypeOK
    <2>3. \A a \in pending : /\ a[2] \in 1..MaxSends[asked'[a[1]].source]
                             /\ \A i \in made : i.by # a
      BY <2>2 DEF Unserved
    <2> QED BY <1>0, <1>2, <1>4, <1>5, <2>1, <2>3 DEF Unserved
  <1>10. AnswerFits' BY <1>0 DEF AnswerFits
  <1>11. OneByOne' BY <1>0, <1>2, <1>3 DEF OneByOne
  <1>12. I!Next
    BY <1>0, <1>1, <1>2, <1>3 DEF I!Next, I!Ask, cur
  <1> QED BY <1>6, <1>7, <1>8, <1>9, <1>10, <1>11, <1>12

\* The request is put on a connection again, as what it still may be.
LEMMA SendStep ==
  ASSUME IInv, SendAgain, pc # "rest", NEW t \in Nat, tries' = t, t \in 1..MaxRetries + 1,
         pooled' \in BOOLEAN, sends + 1 <= MaxSends[asked[cur].source],
         asked[cur].source = "pki" => sends + 1 = t,
         sends + 1 <= 2 * t, pooled' => sends + 1 < 2 * t
  PROVE  IInv' /\ UNCHANGED I!vars
  <1> USE DEF IInv
  <1>1. /\ cur' = cur /\ cur \in 1..cur /\ cur \in Nat /\ sends \in Nat
        /\ asked[cur] \in Requests /\ sends + 1 \in 1..4
    <2>1. asked[cur] \in Requests /\ cur \in 1..cur /\ cur \in Nat BY AskedFacts
    <2> QED BY <2>1, SendsFacts DEF TypeOK, SendAgain, cur
  <1>2. pending' = pending \cup {<< cur, sends + 1 >>} BY DEF SendAgain, Put
  <1>3. TypeOK'
    <2>1. pending' \subseteq (1..cur') \X (1..4)
      BY <1>1, <1>2 DEF TypeOK
    <2> QED BY <1>1, <2>1 DEF SendAgain, TypeOK
  <1>4. Counted' BY <1>1 DEF SendAgain, Counted
  <1>5. Unserved'
    <2>1. \A i \in made : i.by # << cur, sends + 1 >>
      BY <1>1 DEF Numbered, TypeOK, Issues
    <2> QED BY <1>1, <1>2, <2>1 DEF SendAgain, Unserved
  <1>6. Numbered' BY <1>1, <1>2 DEF SendAgain, Numbered, TypeOK, Issues
  <1>7. AnswerFits' BY DEF SendAgain, AnswerFits
  <1>8. OneByOne' BY <1>1 DEF SendAgain, OneByOne
  <1>9. UNCHANGED I!vars BY DEF SendAgain, I!vars
  <1> QED BY <1>3, <1>4, <1>5, <1>6, <1>7, <1>8, <1>9

\* A return keeps the invariant.
LEMMA ReturnStep ==
  ASSUME IInv, pc # "rest", NEW m \in Results \ {I!Nothing}, Return(m)
  PROVE  IInv' /\ cur' = cur
  <1> USE DEF IInv
  <1>1. cur' = cur /\ cur \in 1..Calls /\ cur \in Nat
    <2>1. cur \in 1..cur /\ \A c \in 1..cur : c \in 1..Calls BY AskedFacts
    <2> QED BY <2>1 DEF Return, cur
  <1>2. TypeOK' BY <1>1 DEF Return, TypeOK
  <1>3. Counted' /\ AnswerFits' BY DEF Return, Counted, AnswerFits
  <1>4. Unserved' /\ Numbered' BY <1>1 DEF Return, Unserved, Numbered
  <1>5. OneByOne' BY <1>1 DEF Return, OneByOne, TypeOK
  <1> QED BY <1>1, <1>2, <1>3, <1>4, <1>5

\* An error ends the call, and fails it to Issuing.
LEMMA FailStep ==
  ASSUME IInv, pc # "rest", Return(I!Failed)
  PROVE  IInv' /\ I!Next
  <1> USE DEF IInv
  <1>1. I!Failed \in Results \ {I!Nothing}
    BY DEF Results, I!Failed, I!Nothing
  <1>2. cur \in 1..Len(asked) /\ got[cur] = I!Nothing
    BY AskedFacts DEF TypeOK, cur
  <1>3. I!Fail(cur) BY <1>2 DEF Return, I!Fail
  <1> QED BY <1>1, <1>2, <1>3, ReturnStep DEF I!Next

\* An answer ends the call, with an error or with material that fits.
LEMMA AnsweredStep == IInv /\ Answered => IInv' /\ I!Next
  <1> SUFFICES ASSUME IInv, Answered PROVE IInv' /\ I!Next OBVIOUS
  <1> USE DEF IInv
  <1>1. PICK r \in answer : r.status = "ok" /\ Return(Parsed(asked[cur], r))
    BY DEF Answered
  <1>2. pc # "rest" /\ asked[cur] \in Requests
    BY AskedFacts DEF Answered
  <1>3. r.issue \in made /\ I!Fits(cur, r.issue) /\ r.issue \in Issues
    BY <1>1 DEF AnswerFits, TypeOK
  <1>4. r.data \in Shapes
    BY <1>1 DEF TypeOK, Replies
  <1>5. CASE Parsed(asked[cur], r) = I!Failed
    BY <1>1, <1>2, <1>5, FailStep
  <1>6. CASE Parsed(asked[cur], r) # I!Failed
    <2>1. PICK leaf, chain \in Bundles :
            /\ Parsed(asked[cur], r) = I!Material(r.issue, leaf, chain)
            /\ I!Sound(asked[cur].source, leaf, chain)
      BY <1>2, <1>4, <1>6, ParsedFacts
    <2>2. I!Material(r.issue, leaf, chain) \in Results \ {I!Nothing}
      BY <1>3 DEF Results, I!Material, I!Nothing
    <2>3. cur \in 1..Len(asked) /\ got[cur] = I!Nothing
      BY <1>2, AskedFacts DEF TypeOK, cur
    <2>4. I!Succeed(cur)
      BY <1>1, <1>3, <2>1, <2>3 DEF Return, I!Succeed
    <2> QED BY <1>1, <1>2, <2>1, <2>2, <2>3, <2>4, ReturnStep DEF I!Next
  <1> QED BY <1>5, <1>6

\* A failed attempt is backed off from, or fails the call.
LEMMA FailedAttemptStep ==
  ASSUME IInv, pc = "wait", NEW alive \in BOOLEAN,
         Backoff(alive) \/ (~MayRetry /\ Return(I!Failed))
  PROVE  IInv' /\ [I!Next]_(I!vars)
  <1> USE DEF IInv
  <1>1. CASE Backoff(alive)
    <2>1. cur' = cur BY <1>1 DEF Backoff, cur
    <2>2. TypeOK' BY <1>1, <2>1 DEF Backoff, TypeOK
    <2>3. Counted' BY <1>1, <2>1 DEF Backoff, MayRetry, Counted
    <2>4. Unserved' /\ Numbered' BY <1>1, <2>1 DEF Backoff, Unserved, Numbered
    <2>5. AnswerFits' /\ OneByOne' BY <1>1, <2>1 DEF Backoff, AnswerFits, OneByOne
    <2>6. UNCHANGED I!vars BY <1>1 DEF Backoff, I!vars
    <2> QED BY <2>2, <2>3, <2>4, <2>5, <2>6
  <1>2. CASE Return(I!Failed)
    BY <1>2, FailStep
  <1> QED BY <1>1, <1>2

\* Every step keeps the invariant, and is one of Issuing or none.
LEMMA NextStep == IInv /\ [Next]_vars => IInv' /\ [I!Next]_(I!vars)
  <1> SUFFICES ASSUME IInv, [Next]_vars PROVE IInv' /\ [I!Next]_(I!vars) OBVIOUS
  <1> USE DEF IInv
  <1>0. ASSUME pc # "rest"
        PROVE  /\ asked[cur].source \in {"pki", "letsencrypt"} /\ MaxRetries = 1
               /\ asked[cur].source = "pki" => MaxSends[asked[cur].source] = 2
               /\ asked[cur].source # "pki" => MaxSends[asked[cur].source] = 4
               /\ tries \in Nat /\ sends \in Nat /\ tries \in 1..2
    <2>1. asked[cur] \in Requests BY <1>0, AskedFacts
    <2> QED BY <1>0, <2>1, SendsFacts DEF TypeOK
  <1>1. CASE Fetch BY <1>1, FetchStep
  <1>2. CASE Redial
    <2>1. /\ pc # "rest" /\ SendAgain /\ tries' = tries /\ pooled' = FALSE
          /\ asked[cur].source = "letsencrypt" /\ sends < 2 * tries
      BY <1>2 DEF Redial, Counted
    <2>2. sends + 1 <= MaxSends[asked[cur].source] /\ tries \in 1..MaxRetries + 1
          /\ sends + 1 <= 2 * tries
      BY <1>0, <2>1
    <2> QED BY <1>0, <2>1, <2>2, SendStep
  <1>3. CASE Retry
    <2>1. /\ pc = "backoff" /\ SendAgain /\ tries' = tries + 1 /\ pooled' = pooled
          /\ tries <= 1 /\ sends <= 2 * tries
          /\ asked[cur].source = "pki" => sends = tries
      BY <1>0, <1>3 DEF Retry, Counted
    <2>2. /\ sends + 1 <= MaxSends[asked[cur].source] /\ tries + 1 \in 1..MaxRetries + 1
          /\ sends + 1 < 2 * (tries + 1) /\ sends + 1 <= 2 * (tries + 1)
          /\ asked[cur].source = "pki" => sends + 1 = tries + 1
      BY <1>0, <2>1
    <2>3. pooled' \in BOOLEAN /\ tries + 1 \in Nat BY <1>0, <2>1 DEF TypeOK
    <2> QED BY <2>1, <2>2, <2>3, SendStep
  <1>4. CASE ConnectionBreaks
    BY <1>4, FailedAttemptStep DEF ConnectionBreaks
  <1>5. CASE ServerError
    BY <1>5, FailedAttemptStep DEF ServerError
  <1>6. CASE Refused \/ GiveUp
    BY <1>6, FailStep DEF Refused, GiveUp
  <1>7. CASE Answered BY <1>7, AnsweredStep
  <1>8. CASE Expire
    <2>1. cur' = cur BY <1>8 DEF Expire, world, cur
    <2>2. TypeOK' BY <1>8, <2>1 DEF Expire, world, TypeOK
    <2>3. Counted' /\ OneByOne' BY <1>8, <2>1 DEF Expire, world, Counted, OneByOne
    <2>4. Unserved' /\ Numbered' BY <1>8, <2>1 DEF Expire, world, Unserved, Numbered
    <2>5. AnswerFits' BY <1>8, <2>1 DEF Expire, world, AnswerFits, I!Fits
    <2>6. UNCHANGED I!vars BY <1>8 DEF Expire, world, I!vars
    <2> QED BY <2>2, <2>3, <2>4, <2>5, <2>6
  <1>9. CASE \E a \in pending : Vault(a)
    BY <1>9, VaultStep
  <1>10. CASE UNCHANGED vars
    <2>1. cur' = cur BY <1>10 DEF vars, cur
    <2>2. TypeOK' BY <1>10, <2>1 DEF vars, world, TypeOK
    <2>3. Counted' /\ OneByOne' BY <1>10, <2>1 DEF vars, Counted, OneByOne
    <2>4. Unserved' /\ Numbered' BY <1>10, <2>1 DEF vars, world, Unserved, Numbered
    <2>5. AnswerFits' BY <1>10, <2>1 DEF vars, world, AnswerFits, I!Fits
    <2>6. UNCHANGED I!vars BY <1>10 DEF vars, world, I!vars
    <2> QED BY <2>2, <2>3, <2>4, <2>5, <2>6
  <1> QED BY <1>1, <1>2, <1>3, <1>4, <1>5, <1>6, <1>7, <1>8, <1>9, <1>10
          DEF Next, Agent

(* ------------------------- Reads without names ------------------------- *)

FromPlugin(i) == asked[i.by[1]].source = "letsencrypt"

\* Every issue answers a call, and the plugin that made one has one stored.
Kept == /\ \A i \in made : i.by[1] \in 1..cur
        /\ \A i \in made : FromPlugin(i) => stored # {}

\* Requests, issues and the store stay as they are.
LEMMA SameIssues ==
  ASSUME Kept, OmittedIssuesOnce, UNCHANGED << asked, made, stored >>
  PROVE  Kept' /\ OmittedIssuesOnce'
  BY DEF Kept, FromPlugin, OmittedIssuesOnce, cur

\* An issue of the plugin without names is one made for an empty store.
LEMMA OnceStep ==
  IInv /\ Kept /\ OmittedIssuesOnce /\ [Next]_vars => Kept' /\ OmittedIssuesOnce'
  <1> SUFFICES ASSUME IInv, Kept, OmittedIssuesOnce, [Next]_vars
               PROVE  Kept' /\ OmittedIssuesOnce'
    OBVIOUS
  <1>1. CASE UNCHANGED << asked, made, stored >>
    BY <1>1, SameIssues
  <1>2. CASE Fetch
    <2>1. PICK r \in Requests : asked' = Append(asked, r)
      BY <1>2 DEF Fetch
    <2>2. cur' = cur + 1 /\ cur \in Nat /\ \A c \in 1..cur : asked'[c] = asked[c]
      BY <2>1 DEF IInv, TypeOK, cur
    <2>3. made' = made /\ stored' = stored BY <1>2 DEF Fetch
    <2>4. \A i \in made : asked'[i.by[1]] = asked[i.by[1]] /\ i.by[1] \in 1..cur'
      BY <2>2 DEF Kept
    <2> QED BY <2>3, <2>4 DEF Kept, FromPlugin, OmittedIssuesOnce
  <1>3. ASSUME NEW a \in pending, Vault(a), ~UNCHANGED << asked, made, stored >>
        PROVE  Kept' /\ OmittedIssuesOnce'
    <2>1. /\ IssueFor(a) = [by |-> a, names |-> asked[a[1]].names]
          /\ a[1] \in 1..cur /\ IssueFor(a).by = a
      BY IssueForFacts DEF IssueFor
    <2>2. asked' = asked /\ cur' = cur
      BY <1>3 DEF Vault, ServePki, ServeStored, ServeIssued, Refuse, Lose, Reply, cur
    <2>3. CASE ServePki(a)
      <3>1. /\ made' = made \cup {IssueFor(a)} /\ stored' = stored
            /\ asked[a[1]].source # "letsencrypt"
        BY <2>3 DEF ServePki
      <3> QED BY <2>1, <2>2, <3>1 DEF Kept, FromPlugin, OmittedIssuesOnce
    <2>4. CASE ServeIssued(a)
      <3>1. /\ made' = made \cup {IssueFor(a)} /\ stored' = {IssueFor(a)}
            /\ \A i \in stored : ~Reuses(a, i)
        BY <2>4 DEF ServeIssued
      <3>2. Kept' BY <2>1, <2>2, <3>1 DEF Kept, FromPlugin
      <3>3. CASE asked[a[1]].names = {}
        <4>1. stored = {}
          BY <3>1, <3>3 DEF Reuses, AltNamesParam
        <4>2. \A i \in made : ~FromPlugin(i)
          BY <4>1 DEF Kept
        <4> QED BY <2>2, <3>1, <3>2, <4>2 DEF FromPlugin, OmittedIssuesOnce
      <3>4. CASE asked[a[1]].names # {}
        BY <2>1, <2>2, <3>1, <3>2, <3>4 DEF OmittedIssuesOnce
      <3> QED BY <3>3, <3>4
    <2>5. CASE ServeStored(a) \/ Refuse(a) \/ Lose(a)
      BY <1>3, <2>5 DEF ServeStored, Refuse, Lose, Reply
    <2> QED BY <1>3, <2>3, <2>4, <2>5 DEF Vault
  <1>4. CASE Redial \/ ConnectionBreaks \/ Expire \/ Agent
    BY <1>1, <1>4 DEF Agent, Redial, ConnectionBreaks, Expire, ServerError, Retry, Refused,
                      Answered, GiveUp, SendAgain, Backoff, Return, world
  <1>5. CASE UNCHANGED vars
    BY <1>1, <1>5 DEF vars, world
  <1> QED BY <1>1, <1>2, <1>3, <1>4, <1>5 DEF Next

\* The types of Requests, for any calls, names and answers.
THEOREM Typing == Spec => []TypeOK
  <1>1. IInv => TypeOK BY DEF IInv
  <1> QED BY <1>1, InitIInv, NextStep, PTL DEF Spec

\* Whatever is lost, repeated or served late, a call to Fetch returns an error or
\* the whole of one issue that fits what it asked for, and PKI issues twice for it
\* at most (pki.go:29, letsencrypt.go:36, client.go:57).
THEOREM ImplementsIssuingHolds == Spec => ImplementsIssuing
  <1>1. Init => I!Init BY DEF Init, I!Init
  <1> QED BY <1>1, InitIInv, NextStep, PTL DEF Spec, ImplementsIssuing, I!Spec

\* Reads without alt_names cause one issue of the plugin, however often they are
\* repeated or served late, and whatever is asked for between them
\* (letsencrypt.go:29-30).
THEOREM OmittedIssuesOnceHolds == Spec => []OmittedIssuesOnce
  <1>1. Init => Kept /\ OmittedIssuesOnce
    BY DEF Init, Kept, OmittedIssuesOnce
  <1> QED BY <1>1, InitIInv, NextStep, OnceStep, PTL DEF Spec
=============================================================================
