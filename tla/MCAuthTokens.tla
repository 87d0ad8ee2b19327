---------------------------- MODULE MCAuthTokens ----------------------------
(* A small instance of AuthTokens for TLC. *)
EXTENDS AuthTokens, TLC

MCLower(s) == IF s = "Ann" THEN "ann" ELSE s
\* A password too long to register with whose first 72 bytes are those of x.
CONSTANTS x, long
MCHashed(p) == IF p = long THEN x ELSE p
MCTimeSpan(t) ==
  CASE t = "15m" -> 1 [] t = "7d" -> 3 [] t = "-1d" -> -1 [] OTHER -> NoSpan

WithSecrets(e, access, refresh) ==
  [Bare EXCEPT !["NODE_ENV"] = e, !["JWT_ACCESS_SECRET"] = access,
               !["JWT_REFRESH_SECRET"] = refresh]

\* In production with equal secrets, with each kind's published one, with the other
\* kind's, without any, and with a life time that cannot be read or is over at once; an
\* unknown environment; and nothing set at all.
MCEnvironments ==
  LET Explicit == WithSecrets(Text("production"), Text("s"), Text("s"))
  IN  {Explicit, Bare, [Explicit EXCEPT !["NODE_ENV"] = Text("staging")],
       WithSecrets(Text("production"), Text("dev-access-secret-change-me"), Text("s")),
       WithSecrets(Text("production"), Text("dev-refresh-secret-change-me"), Text("s")),
       WithSecrets(Text("production"), Text("s"), Text("dev-access-secret-change-me")),
       WithSecrets(Text("production"), Unset, Unset),
       [Explicit EXCEPT !["JWT_ACCESS_EXPIRES_IN"] = Text("soon")],
       [Explicit EXCEPT !["JWT_ACCESS_EXPIRES_IN"] = Text("-1d")]}

Renaming == Permutations(Requests)
=============================================================================
