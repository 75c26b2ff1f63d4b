------------------------------- MODULE Ledger -------------------------------
(***************************************************************************)
(* What billing promises about one balance (a wallet, the gift part of a   *)
(* wallet, the remaining quota of an API token): every request has one     *)
(* account against it, an account is held, then charged once or released   *)
(* once, and the balance moves by exactly what the account moves.  The     *)
(* only other movements are credits (top-ups, grants) and amounts the      *)
(* program gave up on and wrote to its log.                                *)
(***************************************************************************)
EXTENDS Integers

CONSTANT Requests

VARIABLES
    balance,    \* the stored balance
    account,    \* account[r] = [state, amount]: what r has taken from it
    credited,   \* sum of the credits so far
    lost        \* sum of the holds given up without being returned

ledgerVars == <<balance, account, credited, lost>>

IdleAccount == [state |-> "idle", amount |-> 0]

LedgerInit ==
    /\ account = [r \in Requests |-> IdleAccount]
    /\ credited = 0
    /\ lost = 0

(* Account r becomes a, and the balance pays for the difference. *)
Becomes(r, a) ==
    /\ account' = [account EXCEPT ![r] = a]
    /\ balance' = balance + account[r].amount - a.amount
    /\ UNCHANGED <<credited, lost>>

Hold(r) ==
    /\ account[r].state = "idle"
    /\ account'[r].state = "held"
    /\ Becomes(r, account'[r])

Charge(r) ==
    /\ account[r].state \in {"idle", "held"}
    /\ account'[r].state = "charged"
    /\ Becomes(r, account'[r])

Release(r) ==
    /\ account[r].state = "held"
    /\ Becomes(r, [state |-> "released", amount |-> 0])

(* A hold withdrawn before the request was admitted: it may hold again. *)
Cancel(r) ==
    /\ account[r].state = "held"
    /\ Becomes(r, IdleAccount)

(* A hold that could not be withdrawn; the program only logs its amount. *)
WriteOff(r) ==
    /\ account[r].state = "held"
    /\ account' = [account EXCEPT ![r] = IdleAccount]
    /\ lost' = lost + account[r].amount
    /\ UNCHANGED <<balance, credited>>

Credit ==
    /\ balance' - balance = credited' - credited
    /\ UNCHANGED <<account, lost>>

LedgerNext ==
    \/ \E r \in Requests :
          Hold(r) \/ Charge(r) \/ Release(r) \/ Cancel(r) \/ WriteOff(r)
    \/ Credit

LedgerSpec == LedgerInit /\ [][LedgerNext]_ledgerVars
=============================================================================
