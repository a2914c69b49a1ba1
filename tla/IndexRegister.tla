---------------------------- MODULE IndexRegister ----------------------------
(***************************************************************************)
(* What Client.Index promises its callers about the order of the answers:  *)
(* per repository it reads like one register that only moves forward.  A   *)
(* call is given a revision the upstream has published, and never one      *)
(* older than a revision that was given to anyone before the call began.   *)
(* It may also fail.  Caching, collapsing of fetches, stale answers and    *)
(* evictions are the business of IndexClient, which implements this.       *)
(***************************************************************************)
EXTENDS Integers

CONSTANTS Callers, Repos, NoRepo

VARIABLES
    published,  \* per repository: the newest revision of its index
    served,     \* per repository: the newest revision any call was given
    status,     \* per caller: "idle", "calling" or "done"
    asked,      \* per caller: the repository of its call
    floor,      \* per caller: what was served when its call began
    given       \* per caller: the revision its call was given, or Nothing

vars == <<published, served, status, asked, floor, given>>

Nothing == -1

Init ==
    /\ published = [r \in Repos |-> 0]
    /\ served = [r \in Repos |-> 0]
    /\ status = [c \in Callers |-> "idle"]
    /\ asked = [c \in Callers |-> NoRepo]
    /\ floor = [c \in Callers |-> 0]
    /\ given = [c \in Callers |-> Nothing]

Publish(r) ==
    /\ published' = [published EXCEPT ![r] = @ + 1]
    /\ UNCHANGED <<served, status, asked, floor, given>>

Begin(c, r) ==
    /\ status[c] = "idle"
    /\ status' = [status EXCEPT ![c] = "calling"]
    /\ asked' = [asked EXCEPT ![c] = r]
    /\ floor' = [floor EXCEPT ![c] = served[r]]
    /\ UNCHANGED <<published, served, given>>

\* Callers of one repository are answered together.
Give(r, cs, rev) ==
    /\ \A c \in cs : status[c] = "calling" /\ asked[c] = r /\ rev >= floor[c]
    /\ rev \in 0 .. published[r]
    /\ status' = [c \in Callers |-> IF c \in cs THEN "done" ELSE status[c]]
    /\ given' = [c \in Callers |-> IF c \in cs THEN rev ELSE given[c]]
    /\ served' = [served EXCEPT ![r] = IF rev > @ THEN rev ELSE @]
    /\ UNCHANGED <<published, asked, floor>>

Refuse(c) ==
    /\ status[c] = "calling"
    /\ status' = [status EXCEPT ![c] = "done"]
    /\ UNCHANGED <<published, served, asked, floor, given>>

Finish(c) ==
    /\ status[c] = "done"
    /\ status' = [status EXCEPT ![c] = "idle"]
    /\ given' = [given EXCEPT ![c] = Nothing]
    /\ asked' = [asked EXCEPT ![c] = NoRepo]
    /\ floor' = [floor EXCEPT ![c] = 0]
    /\ UNCHANGED <<published, served>>

Next ==
    \/ \E r \in Repos : Publish(r)
    \/ \E c \in Callers, r \in Repos : Begin(c, r)
    \/ \E r \in Repos, cs \in SUBSET Callers :
          \E rev \in 0 .. published[r] : Give(r, cs, rev)
    \/ \E c \in Callers : Refuse(c) \/ Finish(c)

Spec == Init /\ [][Next]_vars
=============================================================================
