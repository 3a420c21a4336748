------------------------------- MODULE Custody -------------------------------
(***************************************************************************)
(* What the exchange promises about where a book is.  A book is reserved   *)
(* for at most one deal at a time and a deal reserves a book at most once; *)
(* the book changes hands only when the deal it is reserved for meets, or  *)
(* goes home to its owner while nobody has it reserved.                    *)
(***************************************************************************)
CONSTANTS Users, Books, Deals, Owner, NoDeal

VARIABLES
  holder,       \* who has the book
  reservedFor,  \* the deal the book waits for, or NoDeal
  past          \* the deals that have met

custodyVars == <<holder, reservedFor, past>>

CustodyInit ==
  /\ holder = [b \in Books |-> Owner[b]]
  /\ reservedFor = [b \in Books |-> NoDeal]
  /\ past = {}

Reserve(b, d) ==
  /\ reservedFor[b] = NoDeal
  /\ d \notin past /\ \A c \in Books : reservedFor[c] # d
  /\ reservedFor' = [reservedFor EXCEPT ![b] = d]
  /\ UNCHANGED <<holder, past>>

HandOver(b, u) ==
  /\ reservedFor[b] # NoDeal
  /\ holder' = [holder EXCEPT ![b] = u]
  /\ reservedFor' = [reservedFor EXCEPT ![b] = NoDeal]
  /\ past' = past \cup {reservedFor[b]}

GoHome(b) ==
  /\ reservedFor[b] = NoDeal
  /\ holder' = [holder EXCEPT ![b] = Owner[b]]
  /\ UNCHANGED <<reservedFor, past>>

CustodyNext ==
  \E b \in Books :
    \/ \E d \in Deals : Reserve(b, d)
    \/ \E u \in Users : HandOver(b, u)
    \/ GoHome(b)

CustodySpec == CustodyInit /\ [][CustodyNext]_custodyVars
=============================================================================
