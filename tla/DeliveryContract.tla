-------------------------- MODULE DeliveryContract --------------------------
(***************************************************************************)
(* What delivery promises whoever receives the messages, whatever becomes  *)
(* of the stored rows: attempts are opened one after the other, an adapter *)
(* is called at most once for an attempt, and a further attempt is opened  *)
(* only when the one before it was released, by a definitive failure its   *)
(* own thread was told of or by an operator.                               *)
(***************************************************************************)
EXTENDS Naturals

CONSTANTS Candidate, AdapterNames

VARIABLES
  opened,   \* attempts that exist
  called,   \* attempts whose adapter was called
  released  \* attempts that may be followed by another

contractVars == <<opened, called, released>>

ContractInit ==
  /\ opened = {}
  /\ called = {}
  /\ released = {}

Open(c, a, n) ==
  /\ \A i \in opened : i[1] = c /\ i[2] = a => i[3] < n
  /\ n = 1 \/ <<c, a, n - 1>> \in opened \cap released
  /\ opened' = opened \cup {<<c, a, n>>}
  /\ UNCHANGED <<called, released>>

Call(i) ==
  /\ i \in opened \ called
  /\ called' = called \cup {i}
  /\ released' \in {released, released \cup {i}}
  /\ UNCHANGED opened

Release(i) ==
  /\ i \in opened
  /\ released' = released \cup {i}
  /\ UNCHANGED <<opened, called>>

ContractNext ==
  \/ \E c \in Candidate, a \in AdapterNames, n \in {1} \cup {i[3] + 1 : i \in opened} :
       Open(c, a, n)
  \/ \E i \in opened : Call(i) \/ Release(i)

ContractSpec == ContractInit /\ [][ContractNext]_contractVars
=============================================================================
