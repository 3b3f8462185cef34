-------------------------------- MODULE Http --------------------------------
(***************************************************************************)
(* What the layers of the server hand to one another: the response a       *)
(* middleware or a handler returns, and the value of an absent header,     *)
(* option or JSON member.                                                  *)
(***************************************************************************)

CONSTANT None          \* an absent header, JSON member, Option or body

\* A response: its status code, and the JSON-RPC payload when it has one.
Response(status, body) == [status |-> status, body |-> body]

\* A response that carries a status code and nothing else.
Plain(status) == Response(status, None)
=============================================================================
