------------------------------- MODULE Quotas -------------------------------
(***************************************************************************)
(* What one user may consume: the rate-limit windows (crates/limits) and   *)
(* the budget of the API token (crates/auth).  Both live in the shared     *)
(* database and survive a restart.  Time is counted in small ticks.        *)
(***************************************************************************)
EXTENDS Integers

CONSTANTS
  Size,        \* length of the hour, day and month windows, in ticks
  MonthLen,    \* length of a calendar month, in ticks
  BudgetKind,  \* "monthly", "total" or "unlimited"
  Limit,       \* the budget, in micro-USD
  Price,       \* micro-USD per token; 0: not in the pricing table
  NoCap,       \* a request without a cap for a window
  MaxClock     \* bound: ticks of the clock

Kind == {"hour", "day", "month"}

ASSUME QuotasAssumption ==
  /\ Size \in [Kind -> Nat \ {0}] /\ MonthLen \in Nat \ {0}
  /\ BudgetKind \in {"monthly", "total", "unlimited"}
  /\ Limit \in Nat /\ Price \in Nat /\ NoCap \notin Nat
  /\ MaxClock \in Nat

VARIABLES
  now,      \* the clock
  window,   \* rate_limit_windows: per kind, the start and the count
  ledger,   \* token_usage: micro-USD charged, in all and per calendar month
  revoked   \* revoked_at is set

quotaVars == <<window, ledger, revoked>>

QuotaInit ==
  /\ now = 0 /\ revoked = FALSE
  /\ window = [k \in Kind |-> [start |-> 0, count |-> 0]]
  /\ ledger = [total |-> 0, month |-> [m \in 0..MaxClock |-> 0]]

Start(kind, t) == t - (t % Size[kind])
Month(t) == t \div MonthLen

\* Tracker::count: a row of another window counts as nothing.
Count(kind, t) == IF window[kind].start = Start(kind, t) THEN window[kind].count ELSE 0

\* Mutant: the cap itself may still be spent.
ReachedLate(caps, t) == \E k \in Kind : caps[k] # NoCap /\ Count(k, t) > caps[k]

\* Tracker::check finds a cap that is reached.
Reached(caps, t) == \E k \in Kind : caps[k] # NoCap /\ Count(k, t) >= caps[k]

\* Mutant: a row is never replaced.
UpsertKeeps(kind, t, tokens) ==
  window' = [window EXCEPT ![kind] = [start |-> Start(kind, t), count |-> @.count + tokens]]

\* Tracker::record, one of its three statements.
Upsert(kind, t, tokens) ==
  window' = [window EXCEPT ![kind] =
    [start |-> Start(kind, t),
     count |-> IF @.start = Start(kind, t) THEN @.count + tokens ELSE tokens]]

\* TokenStore::spend_since the start of the month, or since ever.
Spent(t) == IF BudgetKind = "monthly" THEN ledger.month[Month(t)] ELSE ledger.total

\* TokenStore::check_budget: a revoked token has no budget to exceed.
OverBudget(t) == ~revoked /\ BudgetKind # "unlimited" /\ Spent(t) >= Limit

\* record_token_spend: the cost of the tokens, in the month of the insert.
\* Nothing is inserted for a free or unpriced model.
Charge(t, tokens) ==
  ledger' = [ledger EXCEPT !.total = @ + tokens * Price, !.month[Month(t)] = @ + tokens * Price]

QuotaTypes ==
  /\ window \in [Kind -> [start : 0..MaxClock, count : Nat]]
  /\ ledger \in [total : Nat, month : [0..MaxClock -> Nat]]
  /\ revoked \in BOOLEAN /\ now \in 0..MaxClock
=============================================================================
