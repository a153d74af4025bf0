------------------------------- MODULE Access -------------------------------
(***************************************************************************)
(* Who may call what: the bearer tokens of the HTTP transport and the      *)
(* scope each grants, as the middleware of http.rs and the authorization   *)
(* of server.rs decide it.  Everything here is a pure operator; ToolCall   *)
(* applies them to a call and Process to the start of the server.          *)
(*                                                                         *)
(* A token variable is abstracted to what the code tells apart: unset,     *)
(* one of two well-formed values, a short one, an unprintable one.         *)
(***************************************************************************)
Unset == "unset"
WellFormed == {"A", "B"}
TokenVars == WellFormed \cup {Unset, "short", "unprintable"}

(* A request's Authorization header: absent, or a scheme and what is left  *)
(* of the value after trimming.                                            *)
NoHeader == [scheme |-> "absent", token |-> ""]
Headers == {NoHeader} \cup [scheme : {"bearer", "basic"}, token : WellFormed \cup {"", "X"}]

Invalid(token) ==
  CASE token = "unprintable" -> "NotPrintable"
    [] token = "short"       -> "TooShort"
    [] OTHER                 -> "none"

(* HttpAuth::resolve: the error the start-up ends with, "none" if it does  *)
(* not.                                                                    *)
AuthError(write, read, insecure) ==
  LET open == write = Unset /\ read = Unset
  IN CASE Invalid(write) # "none"            -> Invalid(write)
       [] Invalid(read) # "none"             -> Invalid(read)
       [] write # Unset /\ write = read      -> "TokensEqual"
       [] insecure /\ ~open                  -> "InsecureWithToken"
       [] ~insecure /\ open                  -> "NoToken"
       [] OTHER                              -> "none"

(* The scope a header is granted: "none" is answered with 401.             *)
BearerToken(header) ==
  IF header.scheme = "bearer" THEN header.token ELSE ""

ScopeFor(write, read, header) ==
  LET token == BearerToken(header)
  IN CASE token = ""    -> "none"
       [] token = write -> "write"
       [] token = read  -> "read"
       [] OTHER         -> "none"

(* Mutant. *)
AuthorizedAnyScope(enforce, scope, readOnly) ==   \* a scope is enough
  ~enforce \/ scope \in {"read", "write"}

(* OpenQaServer::authorize, for a tool that is in the router or not, and   *)
(* whose annotation says read-only or not.                                 *)
Authorized(enforce, scope, readOnly) ==
  ~enforce \/ scope = "write" \/ (scope = "read" /\ readOnly)

(* Mutant. *)
ListedForWriters(enforce, scope, router) ==       \* a reader is shown nothing
  {t \in router : ~enforce \/ scope = "write"}

(* OpenQaServer::list_tools: the tools of a router a principal is shown.   *)
Listed(enforce, scope, router) ==
  {t \in router : ~enforce \/ scope = "write" \/ (scope = "read" /\ t.readOnly)}

=============================================================================
