SPECIFICATION Spec
CONSTANTS
    r1 = r1
    r2 = r2
    r3 = r3
    p1 = p1
    hourly = hourly
    never = never
    Requests <- MCRequests
    Procs = {p1}
    ProcOf <- MCProcOf
    Limit <- MCLimit
    Length <- MCLength
    Budgets <- MCBudgets
    Period <- MCPeriod
    BudgetLimit <- MCBudgetLimit
    Overage = FALSE
    Estimate = 1
    Costs <- MCCosts
    MaxTime = 2
    MaxFaults = 1
INVARIANTS TypeOK WindowsHold UsageCounted BudgetHolds
SYMMETRY MCSymmetry
CHECK_DEADLOCK FALSE
