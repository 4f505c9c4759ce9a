------------------------------ MODULE Requests ------------------------------
(***************************************************************************)
(* internal/source and internal/vault: the calls to Fetch of one run, each *)
(* a request to Vault that is sent once more when its connection breaks or *)
(* a server error comes back.  A request whose connection broke may still  *)
(* be served, at any time: what is lost is the answer.  Two kinds of       *)
(* secrets engine answer: PKI issues for every request it serves, the      *)
(* Let's Encrypt plugin keeps one issue per path and issues again when     *)
(* other names are asked for.                                              *)
(***************************************************************************)
EXTENDS Naturals, Sequences, FiniteSets

CONSTANTS
  Calls,      \* number of calls to Fetch
  Sources,    \* those of the config's certs
  AltNames,   \* lists of alt_names that configs may have; {} is none
  MaxPending, \* requests on their way at a time (a bound of the model)
  Omitted,    \* the request has no alt_names
  Bundles,    \* sequences of PEM blocks that an answer may hold: "CERTIFICATE",
              \* "text" (a block of another type), "number" (no string at all)
  PkiShapes,  \* what an answer of PKI may hold: [certificate, private_key, ca_chain]
  LeShapes    \* what an answer of the plugin may hold

Requests == [source : Sources, names : AltNames]
Shapes == [certificate : Bundles, private_key : BOOLEAN, ca_chain : Bundles]

ASSUME RequestsAssumption ==
  /\ Calls \in Nat /\ MaxPending \in Nat /\ Sources \subseteq {"pki", "letsencrypt"}
  /\ {} \in AltNames /\ Omitted \notin AltNames
  /\ Bundles \subseteq Seq({"CERTIFICATE", "text", "number"})
  /\ \A b \in Bundles : b # << >> => << b[1] >> \in Bundles /\ Tail(b) \in Bundles
  /\ PkiShapes \subseteq Shapes /\ LeShapes \subseteq Shapes

VARIABLES
  asked,    \* what each call has asked for; the last one is under way
  got,      \* call -> what it returned
  pc,       \* where the call stands: "rest", "wait", "backoff"
  tries,    \* attempts of the call
  sends,    \* how often its request was put on a connection
  pooled,   \* that connection had been used before
  expired,  \* the call's 30 s are over, or the run is cancelled
  pending,  \* requests that Vault may still serve: << call, send >>
  answer,   \* what has come back on the present connection, if anything
  stored,   \* the plugin's issue, if it has one
  made      \* all issues

world == << pending, answer, stored, made >>
vars  == << asked, got, pc, tries, sends, pooled, expired, world >>

cur == Len(asked)
Present == << cur, sends >>

MaxRetries == 1
MaxSends == [source \in {"pki", "letsencrypt"} |->
               IF source = "pki" THEN MaxRetries + 1 ELSE 2 * (MaxRetries + 1)]

I == INSTANCE Issuing

(* ------------------------------- Sources ------------------------------- *)

\* Mutant: alt_names is attached to every request.
AltNamesAlways(r) == r.names

\* alt_names is attached only when the config has entries.
AltNamesParam(r) == IF r.names = {} THEN Omitted ELSE r.names

\* An array with entries, all of them strings.
ChainField(d) == d.ca_chain # << >> /\ "number" \notin { d.ca_chain[k] : k \in 1..Len(d.ca_chain) }

\* Blocks, all of them certificates.
SplitBundle(b) == b # << >> /\ \A k \in 1..Len(b) : b[k] = "CERTIFICATE"

\* What Fetch makes of an answer.
Parsed(r, reply) ==
  LET d == reply.data
  IN  IF r.source = "pki"
      THEN IF d.certificate # << >> /\ d.private_key /\ ChainField(d)
           THEN I!Material(reply.issue, d.certificate, d.ca_chain) ELSE I!Failed
      ELSE IF d.private_key /\ SplitBundle(d.certificate)
           THEN I!Material(reply.issue, << d.certificate[1] >>, Tail(d.certificate))
           ELSE I!Failed

(* -------------------------------- Vault -------------------------------- *)

IssueFor(a) == [by |-> a, names |-> asked[a[1]].names]

\* The plugin reuses what it has stored, unless it is asked for other names.
Reuses(a, i) ==
  LET names == AltNamesParam(asked[a[1]]) IN names \in {Omitted, i.names}

\* What reaches the agent is what comes back on the connection it waits for.
Reply(a, r) ==
  /\ a \in pending /\ pending' = pending \ {a}
  /\ answer' = IF pc = "wait" /\ a = Present THEN {r} ELSE answer
  /\ UNCHANGED << asked, got, pc, tries, sends, pooled, expired >>

Served(i, d) == [status |-> "ok", issue |-> i, data |-> d]

ServePki(a) ==
  /\ asked[a[1]].source = "pki"
  /\ made' = made \cup {IssueFor(a)}
  /\ \E d \in PkiShapes : Reply(a, Served(IssueFor(a), d))
  /\ UNCHANGED stored

ServeStored(a) ==
  /\ asked[a[1]].source = "letsencrypt"
  /\ \E i \in stored, d \in LeShapes : Reuses(a, i) /\ Reply(a, Served(i, d))
  /\ UNCHANGED << stored, made >>

ServeIssued(a) ==
  /\ asked[a[1]].source = "letsencrypt"
  /\ \A i \in stored : ~Reuses(a, i)
  /\ made' = made \cup {IssueFor(a)} /\ stored' = {IssueFor(a)}
  /\ \E d \in LeShapes : Reply(a, Served(IssueFor(a), d))

\* 4xx, or 5xx; 429 and 412, which the library repeats as well, count as 5xx.
Refuse(a) ==
  /\ \E s \in {"refused", "unavailable"} : Reply(a, [status |-> s])
  /\ UNCHANGED << stored, made >>

Lose(a) ==
  /\ a \in pending /\ pending' = pending \ {a}
  /\ UNCHANGED << asked, got, pc, tries, sends, pooled, expired, answer, stored, made >>

(* -------------------------------- Client ------------------------------- *)

Put(a) == Cardinality(pending) < MaxPending /\ pending' = pending \cup {a}

Fetch ==
  /\ pc = "rest" /\ cur < Calls
  /\ \E r \in Requests : asked' = Append(asked, r)
  /\ pc' = "wait" /\ tries' = 1 /\ sends' = 1 /\ pooled' \in BOOLEAN /\ expired' = FALSE
  /\ Put(<< cur + 1, 1 >>) /\ answer' = {}
  /\ UNCHANGED << got, stored, made >>

SendAgain ==
  /\ sends' = sends + 1 /\ Put(<< cur, sends + 1 >>)
  /\ pc' = "wait" /\ answer' = {}
  /\ UNCHANGED << asked, got, expired, stored, made >>

Return(m) ==
  /\ got' = [got EXCEPT ![cur] = m]
  /\ pc' = "rest" /\ answer' = {}
  /\ UNCHANGED << asked, tries, sends, pooled, expired, pending, stored, made >>

\* A pooled connection turns out dead: net/http sends a GET again on a new one.
Redial ==
  /\ pc = "wait" /\ pooled /\ asked[cur].source = "letsencrypt"
  /\ pooled' = FALSE
  /\ SendAgain
  /\ UNCHANGED tries

\* Mutant: one retry more.
RetriesTwice == tries <= MaxRetries + 1

MayRetry == tries <= MaxRetries

Backoff(alive) ==
  /\ MayRetry
  /\ pc' = "backoff" /\ pooled' = alive /\ answer' = {}
  /\ UNCHANGED << asked, got, tries, sends, expired, pending, stored, made >>

\* Before the request arrived, or after; an answer on its way is lost.
ConnectionBreaks ==
  /\ pc = "wait"
  /\ Backoff(FALSE) \/ (~MayRetry /\ Return(I!Failed))

ServerError ==
  /\ pc = "wait" /\ \E r \in answer : r.status = "unavailable"
  /\ Backoff(TRUE) \/ (~MayRetry /\ Return(I!Failed))

\* Mutant: the attempts are not counted.
RetryUncounted ==
  /\ pc = "backoff" /\ ~expired
  /\ SendAgain
  /\ UNCHANGED << tries, pooled >>

Retry ==
  /\ pc = "backoff" /\ ~expired
  /\ tries' = tries + 1
  /\ SendAgain
  /\ UNCHANGED pooled

Refused ==
  /\ pc = "wait" /\ \E r \in answer : r.status = "refused"
  /\ Return(I!Failed)

Answered ==
  /\ pc = "wait"
  /\ \E r \in answer : r.status = "ok" /\ Return(Parsed(asked[cur], r))

Expire ==
  /\ pc # "rest" /\ ~expired
  /\ expired' = TRUE
  /\ UNCHANGED << asked, got, pc, tries, sends, pooled, world >>

\* Mutant: the deadline is looked at between attempts.
GiveUpBetween == pc = "backoff" /\ expired /\ Return(I!Failed)

\* The context is dead: no answer is waited for, and no retry made.
GiveUp == pc # "rest" /\ expired /\ Return(I!Failed)

Init ==
  /\ asked = << >> /\ got = [c \in 1..Calls |-> I!Nothing]
  /\ pc = "rest" /\ tries = 0 /\ sends = 0 /\ pooled = FALSE /\ expired = FALSE
  /\ pending = {} /\ answer = {} /\ stored = {} /\ made = {}

Agent == ServerError \/ Retry \/ Refused \/ Answered \/ GiveUp
Vault(a) == ServePki(a) \/ ServeStored(a) \/ ServeIssued(a) \/ Refuse(a) \/ Lose(a)

Next == \/ Agent \/ Fetch \/ Redial \/ ConnectionBreaks \/ Expire
        \/ \E a \in pending : Vault(a)

Spec == Init /\ [][Next]_vars

FairSpec == Spec /\ WF_vars(Agent) /\ WF_vars(Expire)

(* ------------------------------ Properties ----------------------------- *)

Issues == [by : (1..Calls) \X (1..4), names : AltNames]

Replies == [status : {"refused", "unavailable"}]
             \cup [status : {"ok"}, issue : Issues, data : Shapes]

Results == {I!Nothing, I!Failed}
             \cup [status : {"ok"}, issue : Issues, leaf : Bundles, chain : Bundles]

TypeOK ==
  /\ asked \in Seq(Requests) /\ cur <= Calls
  /\ got \in [1..Calls -> Results]
  /\ pc \in {"rest", "wait", "backoff"}
  /\ pc # "rest" => /\ cur > 0 /\ got[cur] = I!Nothing
                    /\ tries \in 1..MaxRetries + 1
                    /\ sends \in 1..MaxSends[asked[cur].source]
  /\ tries \in Nat /\ sends \in Nat /\ pooled \in BOOLEAN /\ expired \in BOOLEAN
  /\ pending \subseteq (1..cur) \X (1..4)
  /\ answer \subseteq Replies
  /\ made \subseteq Issues /\ stored \subseteq made

\* Fetch's answers and its cost are those of Issuing (pki.go:29, letsencrypt.go:36,
\* client.go:51-57).
ImplementsIssuing == I!Spec

\* "an LE cert with no alt_names stays idempotent across reads without falsely
\* triggering re-issue" (letsencrypt.go:29-30): reads without names cause one
\* issue, the first, whatever is asked for between them, and however often the
\* requests are repeated or served late.
OmittedIssuesOnce ==
  \A i, j \in { n \in made : n.names = {} /\ asked[n.by[1]].source = "letsencrypt" } : i = j

\* Vault may never answer, the connection never break: Fetch returns.
FetchReturns == \A c \in 1..Calls : (pc # "rest" /\ cur = c) ~> got[c] # I!Nothing
=============================================================================
