--------------------------- MODULE HeaderSettings ---------------------------
(***************************************************************************)
(* The response headers of a forwarded subdomain (headers_settings.go):    *)
(* how the entry of one header in the defaults is merged with the entry in *)
(* the scope of the subdomain, for which responses it is set, and what the *)
(* validator of the editor lets through.  A scope has at most one entry    *)
(* per header; Absent is an optional field that is not given.              *)
(***************************************************************************)
EXTENDS Naturals

CONSTANTS
  DefaultValue, OwnValue,   \* the values in the defaults and in the subdomain
  NoValue                   \* the empty string

ASSUME HeaderAssumption == NoValue \notin {DefaultValue, OwnValue}

Absent == "absent"
Flag == {Absent, "true", "false"}

(* The entry of the header in a scope, or the lack of one.                 *)
Setting(value) ==
  [given : {TRUE}, enabled : Flag, value : {value, NoValue}, always : Flag]
NotGiven == [given |-> FALSE, enabled |-> Absent, value |-> NoValue, always |-> Absent]

(* The scope that has the entry for a subdomain: none, subdomains.<a>,     *)
(* subdomains.<a.b>, or the former while the latter exists without it.     *)
Scopes == {"none", "label", "whole", "shadowed"}

VARIABLES
  defaults,   \* the entry in defaults.headers
  override,   \* the entry in a scope of subdomains
  scope,      \* which one
  host,       \* the request: for subdomain a, for a.b, or for the root
  answer      \* the response: is its status listed, and the header set?

headerVars == <<defaults, override, scope, host, answer>>

Unsent == [listed |-> FALSE, set |-> FALSE, value |-> NoValue, sent |-> FALSE]

HeaderTypeOK ==
  /\ defaults \in Setting(DefaultValue) \cup {NotGiven}
  /\ override \in Setting(OwnValue) \cup {NotGiven}
  /\ scope \in Scopes /\ host \in {"plain", "nested", "root"}

HeaderInit == HeaderTypeOK /\ answer = Unsent

-----------------------------------------------------------------------------
(* A resolved entry.  Gone is one that is not in the map.                  *)
Gone == [there |-> FALSE, enabled |-> FALSE, value |-> NoValue, always |-> FALSE]

toResolvedHeaderSetting(s) ==
  LET on == s.enabled = "true" \/ (s.enabled = Absent /\ s.value # NoValue)
  IN IF ~s.given \/ (on /\ s.value = NoValue) THEN Gone
     ELSE [there |-> TRUE, enabled |-> on, value |-> s.value,
           always |-> s.always = "true"]

(* The whole subdomain is looked up first, then its first label; a plain   *)
(* subdomain is its own first label.                                       *)
Override ==
  IF \/ scope = "label" \/ (scope = "whole" /\ host = "nested")
     \/ scope = "shadowed" /\ host = "plain"
  THEN override ELSE NotGiven

(* A mutant: an override without a value is resolved on its own (B38).     *)
mergeAlone(base, s) ==
  IF ~s.given THEN base
  ELSE IF s.enabled = "false" THEN Gone
  ELSE IF toResolvedHeaderSetting(s).there THEN toResolvedHeaderSetting(s) ELSE base

merge(base, s) ==
  LET value == IF s.value = NoValue THEN base.value ELSE s.value
      on == s.enabled = "true" \/ s.value # NoValue \/ base.enabled
      always == s.always = "true" \/ (s.always = Absent /\ base.always)
  IN IF ~s.given THEN base
     ELSE IF s.enabled = "false" THEN Gone
     ELSE IF ~on \/ value = NoValue THEN base
     ELSE [there |-> TRUE, enabled |-> on, value |-> value, always |-> always]

resolveHeadersForSubdomain == merge(toResolvedHeaderSetting(defaults), Override)

(* ApplyForwarderHeaders, for a status that is on the list or is not.      *)
ApplyForwarderHeaders(listed) ==
  LET r == resolveHeadersForSubdomain
      set == /\ host # "root" /\ r.enabled /\ r.value # NoValue
             /\ r.always \/ listed
  IN /\ ~answer.sent
     /\ answer' = [sent |-> TRUE, listed |-> listed, set |-> set,
                   value |-> IF set THEN r.value ELSE NoValue]
     /\ UNCHANGED <<defaults, override, scope, host>>

HeaderNext == \E listed \in BOOLEAN : ApplyForwarderHeaders(listed)

(* ValidateHeaderSettingsConfig, which the editor asks before it saves.    *)
ValidateHeaderSettingsConfig ==
  /\ defaults.enabled = "true" => defaults.value # NoValue
  /\ override.enabled = "true" =>
       override.value # NoValue \/ defaults.value # NoValue

-----------------------------------------------------------------------------
(* The rules of README_HEADERS.md, scope by scope.                         *)
Decides(s) == s.enabled # Absent \/ s.value # NoValue

Active(s) ==
  IF s.enabled = Absent THEN s.value # NoValue ELSE s.enabled = "true"

Always == (IF Override.always = Absent THEN defaults ELSE Override).always = "true"

Expected(listed) ==
  /\ host # "root" /\ (Always \/ listed)
  /\ Active(IF Decides(Override) THEN Override ELSE defaults)

(* In a configuration the validator accepts, the header comes out as the   *)
(* rules say: one the subdomain enables is set, with its own value or the  *)
(* default's (B38), one it disables is not, without a decision of its own  *)
(* the default decides, and always widens it to every status.              *)
AcceptedIsApplied ==
  ValidateHeaderSettingsConfig /\ answer.sent =>
    /\ answer.set = Expected(answer.listed)
    /\ answer.set => answer.value = (IF Override.value = NoValue THEN defaults
                                     ELSE Override).value
=============================================================================
