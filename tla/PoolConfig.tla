----------------------------- MODULE PoolConfig -----------------------------
(***************************************************************************)
(* The configuration of the pool, backend/app/api/cursor/proxy/            *)
(* config_normalize.py and config_service.py: a JSON row in which fields   *)
(* may be missing, or be those of an older version, and the defaults and   *)
(* the normalisation it is read through.  Fields that no part of the model *)
(* reads are left out.                                                     *)
(***************************************************************************)
EXTENDS Integers, Sequences, FiniteSetsExt

CONSTANT None

ASSUME NoneAssumption == None \notin Int

DEFAULT_PROXY_CONFIG ==
    [scheduler_strategy |-> "expiry_first",
     lease_expiry_mode |-> "billing_cycle",
     auto_pool_enabled |-> FALSE,
     auto_pool_join_rules |-> <<[remaining_days |-> 5, remaining_usage_percent |-> 50]>>,
     auto_pool_remaining_days_lte |-> 5,
     auto_pool_usage_below_percent |-> 50,
     auto_pool_remove_on_cycle_refresh |-> TRUE,
     circuit_fail_threshold |-> 3]

Fields == DOMAIN DEFAULT_PROXY_CONFIG
Field(data, f) == IF f \in DOMAIN data THEN data[f] ELSE None

\* What is in data wins over what is in base.
Over(data, base) ==
    [f \in DOMAIN data \cup DOMAIN base |-> IF f \in DOMAIN data THEN data[f] ELSE base[f]]

_clamp_int(value, default, lo, hi) ==
    Max({lo, Min({hi, IF value = None THEN default ELSE value})})

\* A rule of today's shape, or one of the older version: that many days left,
\* and less than that much used.
_migrate_auto_pool_join_rule(item) ==
    LET days(f) == _clamp_int(Field(item, f), 5, 0, 31)
        percent(f) == _clamp_int(Field(item, f), 50, 0, 100)
    IN  IF \/ "remaining_usage_percent" \in DOMAIN item
           \/ "remaining_days" \in DOMAIN item /\ "remaining_days_lte" \notin DOMAIN item
        THEN [remaining_days |-> IF "remaining_days" \in DOMAIN item
                                 THEN days("remaining_days") ELSE days("remaining_days_lte"),
              remaining_usage_percent |-> percent("remaining_usage_percent")]
        ELSE [remaining_days |-> days("remaining_days_lte"),
              remaining_usage_percent |-> 100 - percent("usage_below_percent")]

\* The older fields are left as they came.
RulesWithoutMirrors(data) ==
    [data EXCEPT !.auto_pool_join_rules =
        [i \in DOMAIN @ |-> _migrate_auto_pool_join_rule(@[i])]]

\* Without a rule one is made of the older fields, which mirror the first.
normalize_auto_pool_join_rules(data) ==
    LET given == data.auto_pool_join_rules
        cleaned == IF given # <<>>
                   THEN [i \in DOMAIN given |-> _migrate_auto_pool_join_rule(given[i])]
                   ELSE <<_migrate_auto_pool_join_rule(
                            [remaining_days_lte |-> data.auto_pool_remaining_days_lte,
                             usage_below_percent |-> data.auto_pool_usage_below_percent])>>
    IN  [data EXCEPT !.auto_pool_join_rules = cleaned,
                     !.auto_pool_remaining_days_lte = cleaned[1].remaining_days,
                     !.auto_pool_usage_below_percent = 100 - cleaned[1].remaining_usage_percent]

normalize_proxy_config_fields(data) ==
    LET mode == IF data.lease_expiry_mode \in {"fixed_duration", "billing_cycle"}
                THEN data.lease_expiry_mode
                ELSE IF Field(data, "reclaim_on_billing_cycle") = FALSE
                THEN "fixed_duration" ELSE "billing_cycle"
        strategy == IF data.scheduler_strategy \in {"remaining_first", "expiry_first"}
                    THEN data.scheduler_strategy ELSE "expiry_first"
    IN  normalize_auto_pool_join_rules(
            [data EXCEPT !.lease_expiry_mode = mode, !.scheduler_strategy = strategy])

\* What the row says wins over the defaults; fields of no schema are dropped.
get_config(stored) ==
    IF stored = None THEN DEFAULT_PROXY_CONFIG
    ELSE LET merged == normalize_proxy_config_fields(Over(stored, DEFAULT_PROXY_CONFIG))
         IN  [f \in Fields |-> merged[f]]

MergedConfig(current, payload) == normalize_proxy_config_fields(Over(payload, current))

-----------------------------------------------------------------------------
\* A rule of either shape may say of each of its fields how much, or nothing.
IsRule(item) ==
    \A f \in DOMAIN item \cap {"remaining_days", "remaining_days_lte",
                              "remaining_usage_percent", "usage_below_percent"} :
        item[f] \in Int \cup {None}

\* What the configuration can be read from, whoever wrote it and when.
Readable(data) ==
    /\ \A f \in DOMAIN data \cap {"auto_pool_remaining_days_lte", "auto_pool_usage_below_percent"} :
         data[f] \in Int \cup {None}
    /\ LET rules == data.auto_pool_join_rules
       IN  "auto_pool_join_rules" \in DOMAIN data =>
             rules \in Seq({rules[i] : i \in DOMAIN rules}) /\ \A i \in DOMAIN rules : IsRule(rules[i])

CleanRule == [remaining_days : 0..31, remaining_usage_percent : 0..100]

\* A configuration as normalisation leaves it.
Normal(data) ==
    /\ data.lease_expiry_mode \in {"fixed_duration", "billing_cycle"}
    /\ data.scheduler_strategy \in {"remaining_first", "expiry_first"}
    /\ data.auto_pool_join_rules \in Seq(CleanRule) \ {<<>>}
    /\ data.auto_pool_remaining_days_lte = data.auto_pool_join_rules[1].remaining_days
    /\ data.auto_pool_usage_below_percent = 100 - data.auto_pool_join_rules[1].remaining_usage_percent

=============================================================================
