------------------------------- MODULE Ledger -------------------------------
(***************************************************************************)
(* What the trade store promises about one agent's money, whatever the     *)
(* servers, the exchange and the network do: an exchange fill is booked at *)
(* most once, it is booked together with its cash movement, and a booking  *)
(* that would overdraw the agent does not happen at all.                   *)
(***************************************************************************)
EXTENDS Integers

CONSTANTS
  Fill,          \* identities of exchange fills
  InitialCash    \* cash the agent starts with

VARIABLES
  cash,          \* agent_state.cash
  booked         \* the booked fills: a function from fills to cash movements

ledgerVars == <<cash, booked>>

LedgerInit ==
  /\ cash = InitialCash
  /\ booked = [f \in {} |-> 0]

\* One fill more is booked, with the cash it moved.
Book(f) ==
  /\ f \notin DOMAIN booked
  /\ DOMAIN booked' = DOMAIN booked \cup {f}
  /\ \A g \in DOMAIN booked : booked'[g] = booked[g]
  /\ cash' = cash + booked'[f]
  /\ cash' >= 0

LedgerNext == \E f \in Fill : Book(f)

LedgerSpec == LedgerInit /\ [][LedgerNext]_ledgerVars
=============================================================================
