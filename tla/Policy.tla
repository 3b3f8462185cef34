------------------------------- MODULE Policy -------------------------------
(***************************************************************************)
(* The access policy of the server: how config.rs turns the environment    *)
(* into the secret and the two allow-lists, and how auth.rs judges the     *)
(* headers of a request against them.                                      *)
(*                                                                         *)
(* Texts are records of the facts the code asks of them:                   *)
(*   a secret     [id, bytes, visible, blank]                              *)
(*                 visible: every character is visible ASCII (to_str),     *)
(*                 blank:   it holds whitespace or a control character     *)
(*   an authority [name, upper, bytes, visible, parses, userinfo]          *)
(*                 name: the text up to ASCII case; upper: it has capitals *)
(*   an origin    [visible, scheme, authority, path]                       *)
(***************************************************************************)
EXTENDS Integers, FiniteSets, Http

CONSTANTS
  MinAuthSecretBytes, MaxAuthSecretBytes,   \* 24 and 4096 in the code
  MaxPresentedSecretBytes,                  \* 4096
  MaxAllowedEntries,                        \* 64
  MaxHostBytes,                             \* 512
  Wildcard                                  \* the name of the authority "*"

ASSUME PolicyAssumption ==
  /\ {MinAuthSecretBytes, MaxAuthSecretBytes, MaxPresentedSecretBytes,
      MaxAllowedEntries, MaxHostBytes} \subseteq Nat
  /\ MinAuthSecretBytes > 0
  /\ MaxAuthSecretBytes <= MaxPresentedSecretBytes

-----------------------------------------------------------------------------
(* config.rs: the environment becomes the application state.               *)

ValidAuthSecret(s) ==
  /\ s.bytes \in MinAuthSecretBytes .. MaxAuthSecretBytes
  /\ ~s.blank

\* The normalized authority: lower case, no user information, bounded.
NormalizeHost(h) ==
  IF h.parses /\ h.bytes <= MaxHostBytes /\ ~h.userinfo
  THEN [name |-> h.name, upper |-> FALSE]
  ELSE None

NormalizeOrigin(o) ==
  IF /\ o.scheme \in {"http", "https"}
     /\ o.authority # None
     /\ NormalizeHost(o.authority) # None
     /\ o.path = "/"
  THEN [scheme |-> o.scheme, authority |-> NormalizeHost(o.authority)]
  ELSE None

\* The candidates of a comma-separated list, normalized.
ParseAllowedHosts(candidates) == {NormalizeHost(h) : h \in candidates}

ValidAllowedHosts(candidates) ==
  /\ \A h \in candidates : h.name # Wildcard /\ NormalizeHost(h) # None
  /\ Cardinality(ParseAllowedHosts(candidates)) \in 1 .. MaxAllowedEntries

ParseAllowedOrigins(candidates) == {NormalizeOrigin(o) : o \in candidates}

\* "*" has no scheme, so it is refused with every other text that is no origin.
ValidAllowedOrigins(candidates) ==
  /\ \A o \in candidates : NormalizeOrigin(o) # None
  /\ Cardinality(ParseAllowedOrigins(candidates)) <= MaxAllowedEntries

\* from_env_map fails unless every setting is valid; an absent secret is not
\* an error, it leaves the endpoint closed.
ValidConfig(env) ==
  /\ env.secret # None => ValidAuthSecret(env.secret)
  /\ ValidAllowedHosts(env.hosts)
  /\ ValidAllowedOrigins(env.origins)

AppState(env) ==
  [authSecret     |-> env.secret,
   allowedHosts   |-> ParseAllowedHosts(env.hosts),
   allowedOrigins |-> ParseAllowedOrigins(env.origins)]

-----------------------------------------------------------------------------
(* auth.rs: the gate in front of /mcp.                                     *)

HostAllowed(host, app) ==
  /\ host # None
  /\ host.visible
  /\ NormalizeHost(host) # None
  /\ NormalizeHost(host) \in app.allowedHosts

\* Mutant: any well-formed origin will do.
OriginAllowedAny(origin, app) ==
  origin = None \/ (origin.visible /\ NormalizeOrigin(origin) # None)

OriginAllowed(origin, app) ==
  \/ origin = None
  \/ /\ origin.visible
     /\ NormalizeOrigin(origin) # None
     /\ NormalizeOrigin(origin) \in app.allowedOrigins

\* The header carries a secret worth comparing.
PresentedSecret(s) ==
  /\ s # None
  /\ s.visible
  /\ s.bytes \in 1 .. MaxPresentedSecretBytes
  /\ ~s.blank

\* SHA-256 is taken to be free of collisions: equal digests, equal texts.
SecretsMatch(presented, expected) == presented = expected

Pass == 0    \* the gate lets the request through; otherwise it is a status

\* Mutant: the origin is judged before the secret.
RequireServerAuthOriginFirst(app, head) ==
  IF app.authSecret = None THEN 503
  ELSE IF ~HostAllowed(head.host, app) THEN 421
  ELSE IF ~OriginAllowed(head.origin, app) THEN 403
  ELSE IF ~PresentedSecret(head.secret) THEN 401
  ELSE IF ~SecretsMatch(head.secret, app.authSecret) THEN 401
  ELSE Pass

RequireServerAuth(app, head) ==
  IF app.authSecret = None THEN 503
  ELSE IF ~HostAllowed(head.host, app) THEN 421
  ELSE IF ~PresentedSecret(head.secret) THEN 401
  ELSE IF ~SecretsMatch(head.secret, app.authSecret) THEN 401
  ELSE IF ~OriginAllowed(head.origin, app) THEN 403
  ELSE Pass
=============================================================================
