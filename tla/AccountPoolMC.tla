---------------------------- MODULE AccountPoolMC ----------------------------
(* Values that a configuration file cannot write, for checking AccountPool. *)
EXTENDS AccountPool

\* The automatic policy is switched on and off; two rules, the second of which
\* takes in an account that has just begun its cycle.
Switches == {[auto_pool_enabled |-> FALSE],
             [auto_pool_join_rules |-> <<[remaining_days |-> 0, remaining_usage_percent |-> 50],
                                         [remaining_days |-> 31, remaining_usage_percent |-> 100]>>]}

\* Rows an older version left: its rule in the older fields, the policy on.
OlderRow == [auto_pool_enabled |-> TRUE, auto_pool_remaining_days_lte |-> 0,
             auto_pool_usage_below_percent |-> 30]
OneRow == {OlderRow}

RenterSymmetry == Permutations(Renter)

=============================================================================
