--------------------------- MODULE MCControlPlane ---------------------------
(* Small instances of ControlPlane for TLC. *)
EXTENDS ControlPlane, Naturals

\* Names "shop" and "shop 2": the second try for the one is the other's first.
MCBases == {"shop", "shop-2"}
MCSlugOf(base, n) ==
  IF base = "shop" /\ n = 2 THEN <<"shop-2", 1>> ELSE <<base, n>>

MCOneBase == {"shop"}

\* Requests and users are alike before the first request: it is enough to let requests
\* arrive in the order of their ids and one user make the first.  A bound: only the
\* second request may name a project "shop 2".
CONSTANT ua
InTurn ==
  \A r \in Requests : req[r] = New /\ req'[r] # New =>
    /\ \A q \in Requests : q < r => req[q] # New
    /\ r = 1 => req'[r].user = ua
    /\ r # 2 /\ req'[r].op \in {"create", "rename"} => req'[r].base = "shop"
MCNext == Next /\ InTurn
MCSpec == Init /\ [][MCNext]_vars /\ \A r \in Requests : WF_vars(Step(r))
=============================================================================
