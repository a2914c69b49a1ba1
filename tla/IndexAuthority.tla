---------------------------- MODULE IndexAuthority ----------------------------
(***************************************************************************)
(* IndexClient with a history variable: the repositories whose upstream    *)
(* answered 404 when it last gave an authoritative answer.                 *)
(***************************************************************************)
EXTENDS IndexClient

VARIABLE gone

\* Some call was in a flight of the repository r and left it like this.
LandedWith(r, outcome, kind) ==
    \E c \in Callers : /\ pc[c] = "waiting" /\ asked[c] = r
                       /\ pc'[c] = outcome /\ result'[c].kind = kind

AuthorityInit == Init /\ gone = {}

AuthorityNext ==
    /\ Next
    /\ gone' = (gone \cup {r \in Repos : LandedWith(r, "failed", "notFound")})
                 \ {r \in Repos : LandedWith(r, "done", "index")}

AuthoritySpec == AuthorityInit /\ [][AuthorityNext]_<<vars, gone>>
-----------------------------------------------------------------------------
\* "A 404 is an authoritative 'this repo is gone' - stale must not hide it"
\* (upstream_test.go:235): once the upstream has answered 404, no stale index
\* of it is served until it has one again.
StaleNeverHidesGone ==
    [][\A c \in Callers :
          pc[c] = "failed" /\ pc'[c] = "done" /\ result'[c].kind = "index"
             => asked[c] \notin gone]_<<vars, gone>>
=============================================================================
