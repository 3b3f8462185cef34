----------------------------- MODULE McpService -----------------------------
(***************************************************************************)
(* What the server promises a client, whatever goes on inside it: a        *)
(* request is answered at most once, in one step, with an answer that      *)
(* depends on the policy and on the request alone; a caller the policy     *)
(* does not trust gets a bare refusal, and no tool runs for it; the tools  *)
(* that run are those of the trusted calls that are answered, once each.   *)
(***************************************************************************)
EXTENDS Policy, Rpc

CONSTANTS Conns, Environments, Requests, MaxRequestBytes

VARIABLES
  policy,    \* None until the server has read its configuration
  pending,   \* the request of each connection, None between two of them
  answer,    \* its answer, once there is one
  tally      \* how many tools ran, and how many of them failed

serviceVars == <<policy, pending, answer, tally>>

\* The caller holds the secret, names this server, and comes from no page of
\* a foreign origin.
Trusted(p, r) ==
  /\ p.authSecret # None
  /\ r.secret = p.authSecret
  /\ r.host # None
  /\ NormalizeHost(r.host) \in p.allowedHosts
  /\ r.origin # None => NormalizeOrigin(r.origin) \in p.allowedOrigins

\* A call is what reaches the JSON-RPC handler.
IsCall(p, r) ==
  /\ r.path = "/mcp"
  /\ Trusted(p, r)
  /\ r.verb = "POST"
  /\ r.json
  /\ r.size <= MaxRequestBytes

Answers(p, r) ==
  IF IsCall(p, r) THEN {Respond(r.version, r.body)}
  ELSE IF r.path # "/mcp" THEN {Plain(s) : s \in {200, 404, 405}}
  ELSE IF Trusted(p, r) THEN {Plain(s) : s \in {405, 413, 415}}
  ELSE {Plain(s) : s \in {401, 403, 421, 503}}

ServiceInit ==
  /\ policy = None
  /\ pending = [c \in Conns |-> None]
  /\ answer = [c \in Conns |-> None]
  /\ tally = [calls |-> 0, errors |-> 0]

Configure ==
  /\ policy = None
  /\ \E e \in Environments : ValidConfig(e) /\ policy' = AppState(e)
  /\ UNCHANGED <<pending, answer, tally>>

Ask(c) ==
  /\ policy # None
  /\ pending[c] = None
  /\ \E r \in Requests : pending' = [pending EXCEPT ![c] = r]
  /\ UNCHANGED <<policy, answer, tally>>

Reply(c) ==
  /\ pending[c] # None
  /\ answer[c] = None
  /\ \E a \in Answers(policy, pending[c]) :
       answer' = [answer EXCEPT ![c] = a]
  /\ LET outcome == IF IsCall(policy, pending[c])
                    THEN Outcome(pending[c].version, pending[c].body)
                    ELSE "none"
     IN tally' = [calls  |-> tally.calls + (IF outcome = "none" THEN 0 ELSE 1),
                  errors |-> tally.errors + (IF outcome = "error" THEN 1 ELSE 0)]
  /\ UNCHANGED <<policy, pending>>

\* The answer has gone out, or its client has: the two look alike from here.
Leave(c) ==
  /\ pending[c] # None
  /\ pending' = [pending EXCEPT ![c] = None]
  /\ answer' = [answer EXCEPT ![c] = None]
  /\ UNCHANGED <<policy, tally>>

\* The process is gone, and every request with it.
Stop ==
  /\ pending' = [c \in Conns |-> None]
  /\ answer' = [c \in Conns |-> None]
  /\ UNCHANGED <<policy, tally>>

ServiceNext == Configure \/ Stop \/ \E c \in Conns : Ask(c) \/ Reply(c) \/ Leave(c)

ServiceSpec == ServiceInit /\ [][ServiceNext]_serviceVars
=============================================================================
