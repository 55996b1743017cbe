---------------------------- MODULE IngestAuth ----------------------------
(***************************************************************************)
(* The ingest endpoint, src/src/ingest/endpoint.rs: what one request is    *)
(* answered, given the snapshot of projects the registry holds.  It keeps  *)
(* no state of its own: it decodes, authenticates, authorises, checks the  *)
(* size and hands a record to the log.                                     *)
(*                                                                         *)
(* A request is [method, empty, form, parses, key, header, field, ip,      *)
(* size]: field is the x-ingest-token among its fields, header the one     *)
(* among its headers, NoToken if there is none or it is blank; size is the *)
(* size of the body that is logged, without the token.                     *)
(***************************************************************************)
EXTENDS Integers

CONSTANTS NoToken,        \* no token where one could be
          MaxEventBytes   \* ingest.max_event_bytes

(* What keeps a request from being decoded, in the order of the checks.    *)
Undecodable(req) ==
  IF req.method \notin {"GET", "POST"} THEN "ingest_method_not_allowed"
  ELSE IF req.method = "GET"
       THEN IF req.field # NoToken THEN "ingest_query_token_not_supported" ELSE "none"
  ELSE IF req.empty THEN "ingest_missing_request_body"
  ELSE IF req.parses THEN "none"
  ELSE IF req.form THEN "ingest_invalid_form" ELSE "ingest_invalid_json"

ConflictingWrong(req) == FALSE
Conflicting(req) == NoToken \notin {req.header, req.field} /\ req.header # req.field
Token(req) == IF req.header # NoToken THEN req.header ELSE req.field

(* authorize_project: the address first, then the token.                   *)
Unauthorized(project, req) ==
  IF project.ips # {} /\ req.ip \notin project.ips THEN "ingest_ip_not_allowed"
  ELSE IF project.public THEN "none"
  ELSE IF Conflicting(req) THEN "ingest_conflicting_token"
  ELSE IF Token(req) = NoToken THEN "ingest_missing_token"
  ELSE IF Token(req) # project.token THEN "ingest_invalid_token" ELSE "none"

(* The whole handler.  Projects is a set of <<id, row>>; an accepted       *)
(* request is answered by the id its record is logged under.               *)
Answer(projects, req) ==
  LET found == {p \in projects : p[2].key = req.key}
      project == CHOOSE p \in found : TRUE
  IN IF Undecodable(req) # "none" THEN <<"refused", Undecodable(req)>>
     ELSE IF found = {} THEN <<"refused", "ingest_project_not_found">>
     ELSE IF Unauthorized(project[2], req) # "none"
          THEN <<"refused", Unauthorized(project[2], req)>>
     ELSE IF req.size > MaxEventBytes THEN <<"refused", "ingest_payload_too_large">>
     ELSE <<"append", project[1]>>
=============================================================================
