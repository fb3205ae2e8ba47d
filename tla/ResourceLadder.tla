--------------------------- MODULE ResourceLadder ---------------------------
(***************************************************************************)
(* The life of one resource_item_t (src/lib/resources.c) and the step the  *)
(* parser thread takes on it (parser_process_res in src/lib/main/ProdCon.c).*)
(* The outcome of a download, of a file access or of file-type detection   *)
(* is not known in advance, so every operator below is the SET of records  *)
(* the call can leave behind.  Build options: the desktop build            *)
(* (FRONTEND_GETS_FILES undefined).                                        *)
(***************************************************************************)
EXTENDS Naturals

CONSTANTS MinUrls, MaxUrls     \* bounds: urls in one MFString request

ASSUME UrlsAssumption == MinUrls \in Nat /\ MaxUrls \in Nat

Types    == {"invalid", "url", "file", "multi", "string"}
Statuses == {"invalid", "starts_good", "downloaded", "failed", "loaded",
             "not_loaded", "parsed"}
Media    == {"unknown", "vrml", "image"}

(* type, status, media_type and complete are the fields of that name; urls *)
(* is the length of m_request; opened says openned_files holds a file.     *)
Resource == [type : Types, status : Statuses, media : Media,
             urls : 0..MaxUrls, complete : BOOLEAN, opened : BOOLEAN]

NewResourceItem == [type |-> "invalid", status |-> "invalid",
                    media |-> "unknown", urls |-> 0,
                    complete |-> FALSE, opened |-> FALSE]

CreateMulti == {[NewResourceItem EXCEPT !.type = "multi", !.urls = n] :
                   n \in MinUrls..MaxUrls}

\* The caller of resource_create_from_string sets the media type to VRML.
CreateFromString == [NewResourceItem EXCEPT !.type = "string",
                                            !.status = "loaded",
                                            !.media = "vrml"]

\* Mutant: an empty url list is not noticed.
MutIdentify(r) ==
  LET n == IF r.type = "multi" THEN r.urls - 1 ELSE r.urls
  IN  {[r EXCEPT !.type = "file", !.status = "starts_good", !.urls = n]}

(* resource_identify takes the next url of a multi request, if there is    *)
(* one, and replaces the type; without one it returns early.               *)
Identify(r) ==
  IF r.type = "multi" /\ r.urls = 0 THEN {r}
  ELSE LET n == IF r.type = "multi" THEN r.urls - 1 ELSE r.urls
       IN  {[r EXCEPT !.type = t, !.status = "starts_good", !.urls = n] :
               t \in {"url", "file"}}
           \cup {[r EXCEPT !.type = "invalid", !.urls = n]}

Fetch(r) ==
  IF r.type = "invalid" THEN {[r EXCEPT !.status = "invalid"]}
  ELSE IF r.type \in {"url", "file"} /\ r.status = "starts_good"
       THEN {[r EXCEPT !.status = s] : s \in {"downloaded", "failed"}}
       ELSE {r}

(* resource_load, with resource_identify_type for a file whose media type  *)
(* the caller did not give.                                                *)
Load(r) ==
  IF r.status # "downloaded" THEN {r}
  ELSE {[r EXCEPT !.status = "not_loaded"]}
       \cup {[r EXCEPT !.status = "loaded", !.opened = TRUE, !.media = m] :
                m \in IF r.media = "unknown" THEN {"unknown", "vrml"}
                                             ELSE {r.media}}

\* resource_get_valid_url_from_multi: identify and fetch until the last url.
ValidUrlFromMulti(r) ==
  LET Last(x) == UNION {Fetch(i) : i \in Identify(x)}
  IN  Last([r EXCEPT !.urls = IF r.urls = 0 THEN 0 ELSE 1])

(* parser_process_res_VRML_X3D succeeds on a string or on an opened file.  *)
ParsesTo(r) ==
  IF r.type = "string" \/ r.opened
  THEN [r EXCEPT !.complete = TRUE, !.status = "parsed"]
  ELSE r

Finish(r) ==
  CASE r.media = "unknown" -> [r EXCEPT !.complete = TRUE,
                                        !.status = "not_loaded"]
    [] r.media = "vrml"    -> ParsesTo(r)
    [] r.media = "image"   -> [r EXCEPT !.complete = TRUE]

\* Mutant: a resource whose fetch failed is left on the list.
MutProcessRes(r) ==
  CASE r.status = "invalid" ->
         {[res |-> x, remove |-> x.type = "invalid"] : x \in Identify(r)}
    [] r.status = "starts_good" ->
         {[res |-> x, remove |-> FALSE] : x \in Fetch(r)}
    [] r.status = "downloaded" ->
         {[res |-> x, remove |-> x.status # "loaded"] : x \in Load(r)}
    [] r.status = "loaded" -> {[res |-> Finish(r), remove |-> TRUE]}
    [] OTHER -> {[res |-> r, remove |-> FALSE]}

(* parser_process_res: the records one call can leave, and whether the     *)
(* resource is then taken off resource_list_to_parse.                      *)
ProcessRes(r) ==
  CASE r.status = "invalid" ->
         {[res |-> x, remove |-> x.type = "invalid"] : x \in Identify(r)}
    [] r.status = "starts_good" ->
         {[res |-> x, remove |-> FALSE] : x \in Fetch(r)}
    [] r.status = "downloaded" ->
         {[res |-> x, remove |-> x.status # "loaded"] : x \in Load(r)}
    [] r.status = "loaded" -> {[res |-> Finish(r), remove |-> TRUE]}
    [] OTHER -> {[res |-> r, remove |-> TRUE]}
=============================================================================
