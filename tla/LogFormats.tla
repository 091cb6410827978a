----------------------------- MODULE LogFormats ------------------------------
(* What the Integration agent makes of a raw event: backend/app/connectors/     *)
(* log_formats.py.  The parser is chosen by the type the connector was          *)
(* registered with.  A payload is a record of the fields it carries, nested     *)
(* objects flattened; a description is the set of key words in it.  Pure        *)
(* operators; Correlation classifies its raw events with them.                  *)
EXTENDS Naturals

CONSTANTS NoIp, NoUser, NoCountry   \* None, of each kind

EventTypes == {"login_failed", "login_success", "privilege_escalation", "malware_detected", "other"}

\* dict.get with a default, and the first of several fields that is there.
Get(data, field, default) == IF field \in DOMAIN data THEN data[field] ELSE default

FirstOf(data, fields, none) ==
  LET given == {i \in DOMAIN fields : fields[i] \in DOMAIN data}
  IN  IF given = {} THEN none ELSE data[fields[CHOOSE i \in given : \A j \in given : i <= j]]

Normalized(type, ip, user, country, techniques) ==
  [type |-> type, ip |-> ip, user |-> user, country |-> country, vendor |-> techniques]

-----------------------------------------------------------------------------
\* A Wazuh rule is of the first class one of whose groups it is in, or all the
\* words of one of whose phrases its description contains.
WAZUH_CLASSES == <<
  [type |-> "login_failed", phrases |-> {{"failed"}},
   groups |-> {"authentication_failed", "authentication_failures"}],
  [type |-> "login_success", phrases |-> {{"logon", "success"}},
   groups |-> {"authentication_success"}],
  [type |-> "privilege_escalation", phrases |-> {{"privilege"}},
   groups |-> {"privilege_escalation", "sudo"}],
  [type |-> "malware_detected", phrases |-> {{"trojan"}, {"malware"}, {"rootkit"}},
   groups |-> {"rootcheck", "malware", "virus"}] >>

WazuhMatches(class, groups, words) ==
  groups \intersect class.groups # {} \/ \E p \in class.phrases : p \subseteq words

WazuhType(groups, words) ==
  LET matching == {i \in DOMAIN WAZUH_CLASSES : WazuhMatches(WAZUH_CLASSES[i], groups, words)}
  IN  IF matching = {} THEN "other"
      ELSE WAZUH_CLASSES[CHOOSE i \in matching : \A j \in matching : i <= j].type

\* mitre is rule.mitre.id, the vendor's own techniques.
normalize_wazuh(data) ==
  Normalized(WazuhType(Get(data, "groups", {}), Get(data, "description", {})),
             FirstOf(data, <<"srcip", "src_ip">>, NoIp),
             FirstOf(data, <<"srcuser", "dstuser", "user">>, NoUser),
             NoCountry, Get(data, "mitre", {}))

CLOUDTRAIL_PRIVILEGE_EVENTS ==
  {"CreateUser", "CreateAccessKey", "AttachUserPolicy", "PutUserPolicy", "AttachRolePolicy",
   "CreateRole", "AddUserToGroup", "CreateLoginProfile"}

\* errorCode is present, or the response's ConsoleLogin says Failure.
CloudtrailType(data) ==
  LET name == Get(data, "eventName", "")
      failed == "errorCode" \in DOMAIN data \/ Get(data, "ConsoleLogin", "Success") = "Failure"
  IN  IF name = "ConsoleLogin" THEN (IF failed THEN "login_failed" ELSE "login_success")
      ELSE IF name \in CLOUDTRAIL_PRIVILEGE_EVENTS THEN "privilege_escalation" ELSE "other"

normalize_cloudtrail(data) ==
  Normalized(CloudtrailType(data), Get(data, "sourceIPAddress", NoIp),
             FirstOf(data, <<"userName", "arn">>, NoUser), NoCountry, {})

\* The status code "0" is success, any other a failure, none no sign-in.
normalize_azure_ad(data) ==
  LET type == IF "errorCode" \notin DOMAIN data THEN "other"
              ELSE IF data.errorCode = "0" THEN "login_success" ELSE "login_failed"
  IN  Normalized(type, Get(data, "ipAddress", NoIp), Get(data, "userPrincipalName", NoUser),
                 Get(data, "countryOrRegion", NoCountry), {})

\* The type is the caller's; a string no agent knows is handled as "other".
normalize_generic(claimed, data) ==
  Normalized(IF claimed \in EventTypes THEN claimed ELSE "other",
             FirstOf(data, <<"src_ip", "source_ip">>, NoIp),
             FirstOf(data, <<"user", "username">>, NoUser), Get(data, "country", NoCountry), {})

\* A known connector's classification never depends on what the event claims.
normalize_for_connector_type(connector_type, claimed, data) ==
  CASE connector_type = "wazuh" -> normalize_wazuh(data)
    [] connector_type \in {"cloudtrail", "aws_cloudtrail"} -> normalize_cloudtrail(data)
    [] connector_type = "azure_ad" -> normalize_azure_ad(data)
    [] OTHER -> normalize_generic(claimed, data)

=============================================================================
