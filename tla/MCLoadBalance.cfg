\* Two CPUs, three calls, a ring of two records, two levels.  The programs of
\* pick_next_task_fair() do what those of balance_fair() do: it is not called.
CONSTANTS
  c0 = c0
  c1 = c1
  Cpus = {c0, c1}
  Readings <- MCReadings
  MAX_SD_LEVELS = 2
  BUSY_FACTOR = 16
  RB_SIZE = 2
  Called = {"run_rebalance_domains", "rebalance_domains", "balance_fair",
            "newidle_balance", "load_balance"}
  MaxCalls = 3
SPECIFICATION Spec
SYMMETRY Symmetry
CHECK_DEADLOCK FALSE
INVARIANTS
  SlicesNest
  LbMapExact
  CountersCurrent
