------------------------------- MODULE Issuing -------------------------------
(***************************************************************************)
(* What processCert may rely on when it calls Fetch, and what that costs   *)
(* the source.  A call returns an error or the material of one issue that  *)
(* fits what was asked; however often the request is sent again, and       *)
(* however late a copy of it is served, the source issues for it no more   *)
(* often than the client can have sent it.                                 *)
(***************************************************************************)
EXTENDS Naturals, Sequences

CONSTANTS
  Calls,     \* number of calls to Fetch, one after the other
  Requests,  \* what a call may ask for: [source, names]
  MaxSends,  \* source -> how often the request of a call is sent at most
  Bundles    \* sequences of PEM blocks that material may have

VARIABLES
  asked,  \* what each call has asked for
  made,   \* the issues made: [by, names], by = << call, n >> for the n-th send
  got     \* call -> what it returned

Nothing == [status |-> "none"]
Failed  == [status |-> "error"]
Material(i, leaf, chain) == [status |-> "ok", issue |-> i, leaf |-> leaf, chain |-> chain]

\* PKI issues for each call, the plugin answers from its store; the names are
\* those asked for, if any were.
Fits(c, i) ==
  /\ asked[c].source = "pki" => i.by[1] = c
  /\ asked[c].names # {} => i.names = asked[c].names

AllAre(bundle, types) == \A k \in 1..Len(bundle) : bundle[k] \in types

\* PKI's strings are taken as they are, the plugin's bundle has been parsed.
Sound(source, leaf, chain) ==
  IF source = "pki"
  THEN leaf # << >> /\ chain # << >> /\ AllAre(chain, {"CERTIFICATE", "text"})
  ELSE leaf = << "CERTIFICATE" >> /\ AllAre(chain, {"CERTIFICATE"})

Init == asked = << >> /\ made = {} /\ got = [c \in 1..Calls |-> Nothing]

Ask ==
  /\ Len(asked) < Calls
  /\ \A c \in 1..Len(asked) : got[c] # Nothing
  /\ \E r \in Requests : asked' = Append(asked, r)
  /\ UNCHANGED << made, got >>

\* At any time after the call was made, even when it has returned.
Issue ==
  /\ \E c \in 1..Len(asked) : \E n \in 1..MaxSends[asked[c].source] :
       /\ \A i \in made : i.by # << c, n >>
       /\ made' = made \cup {[by |-> << c, n >>, names |-> asked[c].names]}
  /\ UNCHANGED << asked, got >>

Fail(c) ==
  /\ got[c] = Nothing
  /\ got' = [got EXCEPT ![c] = Failed]
  /\ UNCHANGED << asked, made >>

Succeed(c) ==
  /\ got[c] = Nothing
  /\ \E i \in made, leaf, chain \in Bundles :
       /\ Fits(c, i) /\ Sound(asked[c].source, leaf, chain)
       /\ got' = [got EXCEPT ![c] = Material(i, leaf, chain)]
  /\ UNCHANGED << asked, made >>

Next == Ask \/ Issue \/ \E c \in 1..Len(asked) : Fail(c) \/ Succeed(c)

vars == << asked, made, got >>
Spec == Init /\ [][Next]_vars
=============================================================================
