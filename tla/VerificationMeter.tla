-------------------------- MODULE VerificationMeter --------------------------
(***************************************************************************)
(* packages/contracts/contracts/VerificationMeter.sol: prepaid credits for *)
(* verification.  Anybody deposits and withdraws its own credits; an       *)
(* account with SETTLER_ROLE, the API, debits.  withdraw pays by a call,   *)
(* so an arbitrary contract, Hook, may run while it is open: it may        *)
(* reenter, and if it refuses the payment the withdrawal is undone.        *)
(***************************************************************************)
EXTENDS Integers, SequencesExt

CONSTANTS
    Users,          \* externally owned accounts
    Hook,           \* an arbitrary contract
    Amounts,        \* bound: amounts passed to a call
    Prices,         \* bound: prices the admin sets
    MaxDeposits,    \* bound: what one account deposits in all
    MaxDepth        \* bound: nested calls into Hook

Accounts == Users \cup {Hook}

ASSUME MeterAssumption ==
    /\ Hook \notin Users
    /\ Amounts \subseteq Nat /\ Prices \subseteq Nat
    /\ MaxDeposits \in Nat /\ MaxDepth \in Nat

VARIABLES
    priceWei,
    credits,
    held,           \* the contract's balance
    book,           \* history: the Deposited, Withdrawn and Debited events
    stack           \* open withdrawals of Hook, each with the saved storage

meterVars == <<priceWei, credits, held, book, stack>>

Entry == [deposited: Nat, withdrawn: Nat, debited: Nat]
Frame == [credits: [Accounts -> Nat], held: Int, book: [Accounts -> Entry]]

MeterTypeOK ==
    /\ priceWei \in Prices
    /\ credits \in [Accounts -> Nat]
    /\ held \in Int
    /\ book \in [Accounts -> Entry]
    /\ stack \in Seq(Frame)

MeterInit ==
    /\ priceWei \in Prices
    /\ credits = [x \in Accounts |-> 0]
    /\ held = 0
    /\ book = [x \in Accounts |-> [deposited |-> 0, withdrawn |-> 0, debited |-> 0]]
    /\ stack = <<>>

MayCall(sender) == stack = <<>> \/ sender = Hook

SetPrice(next) ==
    /\ stack = <<>>
    /\ priceWei' = next
    /\ UNCHANGED <<credits, held, book, stack>>

Deposit(sender, amount) ==
    /\ MayCall(sender)
    /\ amount # 0
    /\ book[sender].deposited + amount <= MaxDeposits
    /\ credits' = [credits EXCEPT ![sender] = @ + amount]
    /\ held' = held + amount
    /\ book' = [book EXCEPT ![sender].deposited = @ + amount]
    /\ UNCHANGED <<priceWei, stack>>

\* A faulty variant, for mutation runs: the credits are not checked.
CanWithdrawUnchecked(sender, amount) == amount # 0

CanWithdraw(sender, amount) == amount # 0 /\ credits[sender] >= amount

\* A faulty variant, for mutation runs: Hook is paid before its credits fall.
WithdrawPayFirst(sender, amount) ==
    /\ MayCall(sender) /\ CanWithdraw(sender, amount)
    /\ credits' = [credits EXCEPT ![sender] = IF sender = Hook THEN @ ELSE @ - amount]
    /\ held' = held - amount
    /\ book' = [book EXCEPT ![sender].withdrawn = @ + amount]
    /\ IF sender = Hook
       THEN Len(stack) < MaxDepth /\
            stack' = Append(stack, [credits |-> credits, held |-> held, book |-> book])
       ELSE UNCHANGED stack
    /\ UNCHANGED priceWei

\* The credits fall before the caller is paid.
Withdraw(sender, amount) ==
    /\ MayCall(sender)
    /\ CanWithdraw(sender, amount)
    /\ credits' = [credits EXCEPT ![sender] = @ - amount]
    /\ held' = held - amount
    /\ book' = [book EXCEPT ![sender].withdrawn = @ + amount]
    /\ \/ sender \in Users /\ UNCHANGED stack
       \/ /\ sender = Hook /\ Len(stack) < MaxDepth
          /\ stack' = Append(stack, [credits |-> credits, held |-> held, book |-> book])
    /\ UNCHANGED priceWei

\* What is debited stays in the contract: no call pays it out.
Debit(account, amount) ==
    /\ stack = <<>>
    /\ CanWithdraw(account, amount)
    /\ credits' = [credits EXCEPT ![account] = @ - amount]
    /\ book' = [book EXCEPT ![account].debited = @ + amount]
    /\ UNCHANGED <<priceWei, held, stack>>

HookReturns ==
    /\ stack # <<>>
    /\ stack' = Front(stack)
    /\ UNCHANGED <<priceWei, credits, held, book>>

\* "withdraw failed": the withdrawal and all that Hook did in it are undone.
HookReverts ==
    /\ stack # <<>>
    /\ LET s == Last(stack) IN
          credits' = s.credits /\ held' = s.held /\ book' = s.book
    /\ stack' = Front(stack)
    /\ UNCHANGED priceWei

MeterNext ==
    \/ \E next \in Prices : SetPrice(next)
    \/ \E x \in Accounts, amount \in Amounts :
          Deposit(x, amount) \/ Withdraw(x, amount) \/ Debit(x, amount)
    \/ HookReturns
    \/ HookReverts

MeterSpec == MeterInit /\ [][MeterNext]_meterVars

-----------------------------------------------------------------------------

\* The sum of the values of f, counted: one pair for every unit.
Units(f) == UNION {{x} \X (1..f[x]) : x \in DOMAIN f}
Total(f) == Cardinality(Units(f))

\* The contract can pay every credit at any moment, also while it is paying
\* one: it holds all credits and all that was ever debited.
MeterSolvent ==
    held = Total(credits) + Total([x \in Accounts |-> book[x].debited])

\* Nobody gets out or is charged more than it put in: an account's deposits
\* are its credits, its withdrawals and its debits, reentrancy or not.
AccountBalanced ==
    \A x \in Accounts :
        book[x].deposited = credits[x] + book[x].withdrawn + book[x].debited
=============================================================================
