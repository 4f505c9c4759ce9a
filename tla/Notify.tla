------------------------------- MODULE Notify -------------------------------
(***************************************************************************)
(* What internal/reload promises to the renewer that calls it with a cert  *)
(* whose files it has just written: it reports success only when every     *)
(* unit of the cert that is running has read the new files, and it starts  *)
(* no stopped unit unless the cert's method says so.                       *)
(***************************************************************************)
CONSTANTS Certs, Units,
          UnitsOf,     \* cert -> its units
          Startable,   \* units some cert's method starts when they are stopped
          Nobody       \* no cert

VARIABLES up,          \* running units
          read,        \* << unit, cert >>: the unit runs on the cert's present files
          calling,     \* the cert Reload is called with, or Nobody
          told         \* cert -> what its last call reported since its files changed

vars == << up, read, calling, told >>

Init == /\ up \subseteq Units
        /\ read = up \X Certs
        /\ calling = Nobody
        /\ told = [c \in Certs |-> "none"]

\* Write has replaced files of c, and Reload is called.
Call(c) == /\ calling = Nobody
           /\ calling' = c
           /\ read' = { p \in read : p[2] # c }
           /\ told' = [told EXCEPT ![c] = "none"]
           /\ UNCHANGED up

\* Some running units read their files anew.
Read == \E S \in SUBSET up :
          read' = read \cup (S \X Certs) /\ UNCHANGED << up, calling, told >>

Start(u) == /\ u \in Startable \ up
            /\ up' = up \cup {u}
            /\ read' = read \cup ({u} \X Certs)
            /\ UNCHANGED << calling, told >>

Stop(u) == /\ u \in up
           /\ up' = up \ {u}
           /\ read' = { p \in read : p[1] # u }
           /\ UNCHANGED << calling, told >>

Return(result) == /\ told' = [told EXCEPT ![calling] = result]
                  /\ calling' = Nobody
                  /\ UNCHANGED << up, read >>

Succeed == /\ calling # Nobody
           /\ \A u \in UnitsOf[calling] \cap up : << u, calling >> \in read
           /\ Return("ok")

Fail == calling # Nobody /\ Return("error")

Next == \/ \E c \in Certs : Call(c)
        \/ Read
        \/ \E u \in Units : Start(u) \/ Stop(u)
        \/ Succeed \/ Fail

Spec == Init /\ [][Next]_vars
=============================================================================
