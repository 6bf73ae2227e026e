------------------------------ MODULE UsageLedger ------------------------------
(***************************************************************************)
(* What the AI features of all API processes share in the database: the    *)
(* row that usage_daily keeps per subject and day, with its daily quotas,  *)
(* and the costs in agent_runs, aigc_generations and diagnosis_records     *)
(* that BudgetGuard adds up for the day.                                   *)
(*                                                                         *)
(* Costs are whole units.  A day's rows are never touched again once the   *)
(* day is over, so only today's are kept.                                  *)
(***************************************************************************)
EXTENDS Integers, FiniteSets

CONSTANTS Sessions,         \* requests served at once, of any kind
          Subjects,         \* users and guests
          Who,              \* the subject each session is of
          Classes,          \* traffic classes: "user" and "load_test"
          TextLimit, AigcLimit, DiagnosisLimit,     \* by the subject's kind
          DailyBudget       \* daily_ai_budget_cny

ASSUME LedgerAssumption ==
  /\ IsFiniteSet(Sessions)
  /\ Who \in [Sessions -> Subjects]
  /\ Classes \subseteq {"user", "load_test"}
  /\ TextLimit \in [Subjects -> Nat \ {0}]
  /\ AigcLimit \in [Subjects -> Nat \ {0}]
  /\ DiagnosisLimit \in [Subjects -> Nat \ {0}]
  /\ DailyBudget \in Nat

VARIABLES usage,    \* usage[u] : today's row of subject u
          cost,     \* cost[table][class] : what today's rows of a table cost
          req       \* req[s] : where session s's request is, and what it knows

ledgerVars == <<usage, cost>>

NoRow == [made |-> FALSE, requests |-> 0, text |-> 0, aigc |-> 0, diagnosis |-> 0, cost |-> 0]
Tables == {"runs", "generations", "diagnoses"}
NoCost == [table \in Tables |-> [class \in Classes |-> 0]]
Idle == [pc |-> "idle"]

LedgerInit ==
  /\ usage = [u \in Subjects |-> NoRow]
  /\ cost = NoCost
  /\ req = [s \in Sessions |-> Idle]

At(s, pc) == req[s].pc = pc
Becomes(s, record) == req' = [req EXCEPT ![s] = record]
Goto(s, pc) == req' = [req EXCEPT ![s].pc = pc]
Ends(s) == Becomes(s, Idle)

--------------------------------------------------------------------------------
\* INSERT ... ON CONFLICT DO UPDATE ... WHERE count < limit RETURNING count: one
\* statement, that returns nothing when the quota is used up.
HasQuota_OneMore(u, count, limit) == usage[u].made => usage[u][count] <= limit[u]   \* fault
HasQuota(u, count, limit) == usage[u].made => usage[u][count] < limit[u]
Reserve(u, count) ==
  usage' = [usage EXCEPT ![u].made = TRUE, ![u].requests = @ + 1, ![u][count] = @ + 1]

\* UPDATE ... WHERE date = today: nothing, when the day is a new one and the
\* subject has not asked for anything yet.
AddUsage(u, spent) == usage' = IF usage[u].made THEN [usage EXCEPT ![u].cost = @ + spent] ELSE usage

Charge(table, class, spent) == cost' = [cost EXCEPT ![table][class] = @ + spent]

\* reserve_text, before anything else of a chat.
ReserveText(s) ==
  /\ At(s, "idle")
  /\ HasQuota(Who[s], "text", TextLimit)
  /\ Reserve(Who[s], "text")
  /\ UNCHANGED <<cost, req>>

\* daily_cost: agent_runs by traffic class, the other tables as they are.
SumOf(costs, classes) ==
  (IF "user" \in classes THEN costs["user"] ELSE 0)
  + (IF "load_test" \in classes THEN costs["load_test"] ELSE 0)
DailyCost ==
  SumOf(cost["runs"], Classes \cap {"user"})
  + SumOf(cost["generations"], Classes) + SumOf(cost["diagnoses"], Classes)

\* BudgetGuard.current, with budget_economy_threshold_ratio at its 0.8; both
\* other states are the features' economy_mode.  The three sums of daily_cost are
\* taken as one read.
Economy_NeverTurns == DailyBudget = 0                               \* fault
Economy == DailyBudget = 0 \/ 10 * DailyCost >= 8 * DailyBudget

NewDay ==
  /\ usage' = [u \in Subjects |-> NoRow]
  /\ cost' = NoCost

--------------------------------------------------------------------------------
LedgerTypeOK ==
  /\ usage \in [Subjects -> [made : BOOLEAN, requests : Nat, text : Nat, aigc : Nat,
                             diagnosis : Nat, cost : Nat]]
  /\ cost \in [Tables -> [Classes -> Nat]]

\* However many requests of a subject arrive at once, none of its quotas is
\* exceeded, and the row counts every request under exactly one of them.
QuotaHolds ==
  \A u \in Subjects :
    LET row == usage[u]
    IN  /\ row.text <= TextLimit[u] /\ row.aigc <= AigcLimit[u]
        /\ row.diagnosis <= DiagnosisLimit[u]
        /\ row.requests = row.text + row.aigc + row.diagnosis

\* README.md:37 and docs/phase-7-architecture.md:57: load tests are kept out of
\* the budget's costs.
LoadTestsCostNothing ==
  (\A table \in Tables : cost[table]["user"] = 0) => DailyCost = 0
================================================================================
