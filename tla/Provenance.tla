------------------------------ MODULE Provenance ------------------------------
(***************************************************************************)
(* Where a market's resolution and its expiry are known from               *)
(* (resolution_provenance.py, expiry_provenance.py): what discovery        *)
(* resolves from the texts of a market and writes on its row, and the      *)
(* reasons for which the validator, without asking anybody, does not       *)
(* believe a row.  A digest is <<>> or <<what it stands for>>.             *)
(***************************************************************************)
EXTENDS Integers, Checks

CONSTANTS
    Lag,            \* ticks a time zone is behind UTC
    Grace           \* ticks Gamma's end date may lie behind the cutoff

NoTime == -1

------------------------------------------------------------------------------
(* The source *)

\* _explicit_rules_url: rules name their source in sections about it, which
\* hold one URL; a URL or a price source elsewhere is no evidence.
RuleError(rules) ==
    CASE rules.source = "none" -> "missing_resolution_source"
      [] rules.source = "context" -> "unverified_resolution_source_context"
      [] rules.source = "no_url" -> "resolution_source_url_not_found"
      [] rules.source = "many" -> "multiple_resolution_source_urls"
      [] rules.source = "untrusted" -> "untrusted_resolution_source_domain"
      [] OTHER -> ""

RuleUrl(rules) == IF RuleError(rules) = "" THEN rules.source ELSE ""

\* A direct source that is refused, or another one, is a conflict even if the
\* rules name a good one; rules with a doubtful source spoil a good direct one.
SourceStatus(t, rules) ==
    FirstFailure(<<
        <<"two_rules" \in t.faults, "conflicting_resolution_rules">>,
        <<"untrusted" \in t.sources, "invalid_structured_resolution_source">>,
        <<Cardinality(t.sources) > 1, "conflicting_resolution_sources">>,
        <<t.sources = {}, RuleError(rules)>>,
        <<RuleError(rules) \notin {"", "missing_resolution_source"}, RuleError(rules)>>,
        <<RuleUrl(rules) \notin t.sources \union {""}, "conflicting_resolution_sources">> >>)

\* _source_rule_status: the rules do not contradict the title, and speak of
\* that provider, asset, interval and side of the candle.
RuleFaults == <<"short", "ambiguous", "semantics", "provider", "asset", "path", "interval", "side">>

RuleStatus(source, rules) ==
    StatusAfter(<< <<source = "", "missing_resolution_source">> >>
                \o [i \in DOMAIN RuleFaults |-> <<RuleFaults[i] \in rules.faults, RuleFaults[i]>>])

RulesOf(t) == [source |-> t.ruleSource, faults |-> t.faults \ {"two_rules"}]

\* _provenance_digest, of the fields a row repeats.
Bound(r) == IF r.source = "" THEN <<>> ELSE << <<r.version, r.origin, r.locator, r.source, r.rulesHash, r.status>> >>

ResolutionVersion == 1

\* With rules that differ neither source is looked at; of several direct
\* sources any that is trusted may stand first.
SourceOf(t) ==
    LET trusted == t.sources \ {"untrusted"}
    IN  CASE "two_rules" \in t.faults \/ t.sources = {"untrusted"} -> ""
          [] "two_rules" \notin t.faults /\ trusted # {} -> CHOOSE s \in trusted : TRUE
          [] OTHER -> RuleUrl(RulesOf(t))

OriginOf(t) ==
    CASE "two_rules" \in t.faults -> ""
      [] "two_rules" \notin t.faults /\ t.sources # {} -> "market_field"
      [] OTHER -> IF t.ruleSource = "none" THEN "" ELSE "resolution_rules_url"

Resolution(t) ==
    LET rules == RulesOf(t)
        status == SourceStatus(t, rules)
        row == [source |-> SourceOf(t), origin |-> OriginOf(t), locator |-> OriginOf(t), version |-> ResolutionVersion,
                rules |-> rules, rulesHash |-> <<rules>>,
                status |-> IF status # "" THEN status ELSE RuleStatus(SourceOf(t), rules)]
    IN  row @@ [digest |-> Bound(row)]

\* resolution_integrity_reasons: the row's fields are derived again, as far as
\* its source and its rules allow.
ResolutionReasons(row) ==
    LET expected == RuleStatus(row.source, row.rules)
        error == RuleError(row.rules)
    IN  ReasonsOf({
            <<row.source = "", "missing_resolution_source">>,
            <<row.source = "untrusted", "untrusted_resolution_source_domain">>,
            <<"short" \in row.rules.faults, "missing_or_insufficient_resolution_rules">>,
            <<row.rulesHash # <<row.rules>>, "resolution_rules_sha256_mismatch">>,
            <<row.version # ResolutionVersion, "resolution_source_adapter_version_mismatch">>,
            <<row.origin \notin {"market_field", "resolution_rules_url"}, "missing_or_invalid_resolution_source_origin">>,
            <<row.digest = <<>>, "missing_resolution_source_provenance_sha256">>,
            <<row.locator # row.origin, "invalid_resolution_source_locator">>,
            <<row.origin = "market_field" /\ error \notin {"", "missing_resolution_source"}, error>>,
            <<row.origin = "market_field" /\ RuleUrl(row.rules) \notin {"", row.source}, "conflicting_resolution_sources">>,
            <<row.origin = "resolution_rules_url" /\ error # "", error>>,
            <<row.origin = "resolution_rules_url" /\ RuleUrl(row.rules) # row.source, "resolution_source_rules_evidence_mismatch">>,
            <<expected # "verified", expected>>,
            <<row.status # expected, "resolution_status_mismatch">>,
            <<row.status # "verified", "resolution_status_not_verified">>,
            <<row.digest \notin {<<>>, Bound(row)}, "resolution_source_provenance_sha256_mismatch">> })

------------------------------------------------------------------------------
(* The expiry *)

\* A date or a year in a title is a local time; a cutoff relative to today was
\* computed in UTC, and the zone of the rules cannot be put on it.
LocalTime(t) ==
    [form |-> CASE t.cutoff = "none" -> "none" [] t.cutoff \in {"date", "year"} -> "local" [] OTHER -> "utc", at |-> t.expiry]

InUtc(local, zone) == IF local.form = "local" /\ zone # "" THEN local.at + Lag[zone] ELSE NoTime

\* _expiry_status: the title's cutoff, in the time zone the rules name, must be
\* what Gamma's end date says.
ExpiryVerdict(row, clauses) ==
    StatusAfter(<<
        <<row.local.form = "none", "missing_title_expiry_time">>,
        <<row.zone = "", "missing_resolution_rules_timezone">>,
        <<"cutoff" \notin clauses, "missing_resolution_rules_expiry_cutoff">>,
        <<row.end = NoTime, "missing_gamma_end_date">>,
        <<row.local.form = "utc", "invalid_title_expiry_time">>,
        <<row.time = NoTime, "invalid_canonical_expiry_time">>,
        <<row.time # InUtc(row.local, row.zone), "expiry_timezone_conversion_mismatch">>,
        <<row.end - row.time \notin 0..Grace, "gamma_end_date_mismatch">> >>)

ExpiryVersion == 1
ExpiryBound(r) ==
    IF r.time = NoTime THEN <<>> ELSE << <<r.version, r.origin, r.local, r.zone, r.time, r.end, r.status>> >>

\* resolve_expiry_provenance, for rules that name no zone, one, or several.
ExpiryRow(t) ==
    LET zone == IF Cardinality(t.zones) = 1 THEN CHOOSE z \in t.zones : TRUE ELSE ""
        resolved == [local |-> LocalTime(t), zone |-> zone, time |-> InUtc(LocalTime(t), zone), end |-> t.endDate,
                     version |-> ExpiryVersion, origin |-> "title, rules and gamma"]
        status == FirstFailure(<< <<"metadata" \in t.faults, "conflicting_gamma_expiry_metadata">>,
                                  <<Cardinality(t.zones) > 1, "conflicting_resolution_rules_timezone">>,
                                  <<t.zones = {}, "missing_resolution_rules_timezone">> >>)
        row == resolved @@ [status |-> IF status # "" THEN status ELSE ExpiryVerdict(resolved, t.clauses)]
    IN  row @@ [digest |-> ExpiryBound(row)]

\* expiry_integrity_reasons, from the row and the cutoff in its rules; the zone
\* is the row's, not read in the rules again.
ExpiryReasons(row, clauses) ==
    LET expected == ExpiryVerdict(row, clauses)
    IN  ReasonsOf({
            <<row.version # ExpiryVersion, "expiry_time_adapter_version_mismatch">>,
            <<row.origin # "title, rules and gamma", "missing_or_invalid_expiry_time_origin">>,
            <<expected # "verified", expected>>,
            <<row.status # expected, "expiry_status_mismatch">>,
            <<row.status # "verified", "expiry_status_not_verified">>,
            <<row.digest = <<>>, "missing_expiry_time_provenance_sha256">>,
            <<row.digest \notin {<<>>, ExpiryBound(row)}, "expiry_time_provenance_sha256_mismatch">> })
==============================================================================
