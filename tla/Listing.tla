-------------------------------- MODULE Listing --------------------------------
(***************************************************************************)
(* tags/list: Resolver.Tags of internal/registry/resolve.go and handleTags *)
(* of internal/registry/handler.go, under clients that follow its Link     *)
(* headers while the upstream publishes, with any replica serving any page.*)
(*                                                                         *)
(* A step is one request for a page.  Within a replica the index is the    *)
(* register IndexRegister promises; across replicas, and across restarts   *)
(* of one, it may move backward.                                           *)
(***************************************************************************)
EXTENDS Tags, Sequences, FiniteSets, Functions

CONSTANTS
    Clients, Replicas,
    History,    \* the versions the index lists of the chart, at each revision
    PageSizes,  \* the values clients send for n; a negative one is invalid
    NoLimit     \* no n at all

ASSUME HistoryAssumption == History # << >> /\ History \in Seq(Seq(AllVersions))
ASSUME PageSizesAssumption == PageSizes \subseteq Int \cup {NoLimit}
ASSUME NoLimitAssumption == NoLimit \notin Int

VARIABLES
    published,  \* the newest revision of the index
    read,       \* per replica: the newest revision it has read
    walk        \* per client: where it is in a listing

vars == <<published, read, walk>>

TagAt(rev, i) == VersionToTag(History[rev][i])
PlaceAt(rev, i) == Place(TagAt(rev, i))

\* Mutant: every version is listed.
AllEntries(rev) == DOMAIN History[rev]

\* The entries whose version can be expressed as a tag.
Entries(rev) == {i \in DOMAIN History[rev] : ValidTag(TagAt(rev, i))}

\* The order of slices.Sort.  Entries with the same tag are told apart by their
\* position in the index, which no client sees: their tags are equal strings.
Before(rev, k, i) ==
    \/ PlaceAt(rev, k) < PlaceAt(rev, i)
    \/ PlaceAt(rev, k) = PlaceAt(rev, i) /\ k < i

\* Resolver.Tags: a tag for every entry, in order.  Two entries with the same
\* tag make it appear twice.
Tags ==
    [rev \in DOMAIN History |->
        LET entries == Entries(rev)
            Ahead(i) == {k \in entries : Before(rev, k, i)}
        IN  [at \in 1 .. Cardinality(entries) |->
                TagAt(rev, CHOOSE i \in entries : Cardinality(Ahead(i)) = at - 1)]]

\* Before the first page a client sends no "last", which is below every tag.
Start == -1

Idle == [at |-> "idle", n |-> NoLimit, last |-> Start, page |-> << >>,
         listed |-> {}, seen |-> {}]

Init ==
    /\ published = 1
    /\ read = [p \in Replicas |-> 1]
    /\ walk = [c \in Clients |-> Idle]
-----------------------------------------------------------------------------
(* handleTags *)

\* Mutant: the last tag of a page is the first of the next one.
RestFrom(rev, last) ==
    LET passed == {i \in DOMAIN Tags[rev] : Place(Tags[rev][i]) < last}
    IN  SubSeq(Tags[rev], Cardinality(passed) + 1, Len(Tags[rev]))

\* What is left of the tags after "last", a tag that may not be among them any
\* more.
Rest(rev, last) ==
    LET passed == {i \in DOMAIN Tags[rev] : Place(Tags[rev][i]) <= last}
    IN  SubSeq(Tags[rev], Cardinality(passed) + 1, Len(Tags[rev]))

\* The limit counts every appearance of a tag, and may cut between two of the
\* same one.
Truncated(rev, last, n) == n # NoLimit /\ Len(Rest(rev, last)) > n

Page(rev, last, n) ==
    IF Truncated(rev, last, n) THEN SubSeq(Rest(rev, last), 1, n)
    ELSE Rest(rev, last)

\* A page cut down to nothing, by n=0, has no Link: no tag is there to name.
HasLink(rev, last, n) == Truncated(rev, last, n) /\ Page(rev, last, n) # << >>

\* Mutant: the Link header names the first tag that did not fit.
FirstLeftOut(rev, last, n) == Place(Rest(rev, last)[n + 1])

\* The tag the Link header names: tags[len(tags)-1].
LastOf(rev, last, n) ==
    LET page == Page(rev, last, n) IN Place(page[Len(page)])

\* The reply to a request for a page, and the client, who goes on as long as
\* there is a Link.
Turn(w, rev) ==
    LET page == Page(rev, w.last, w.n)
        link == HasLink(rev, w.last, w.n)
    IN  [w EXCEPT !.at     = IF link THEN "walking" ELSE "complete",
                  !.last   = IF link THEN LastOf(rev, w.last, w.n) ELSE @,
                  !.page   = page,
                  !.listed = @ \cup Range(page),
                  !.seen   = @ \cup {rev}]

ReadIndex(p, rev) ==
    /\ rev \in read[p] .. published
    /\ read' = [read EXCEPT ![p] = rev]

\* An unknown chart ends the listing, and so does an n that is not a number
\* or is negative, which is noticed once the index is read.
Refused(w, rev) == \/ History[rev] = << >>
                   \/ w.n # NoLimit /\ w.n < 0

handleTags(c, p, rev) ==
    /\ walk[c].at = "walking"
    /\ ReadIndex(p, rev)
    /\ walk' = [walk EXCEPT ![c] = IF Refused(@, rev)
                                   THEN [@ EXCEPT !.at = "failed"]
                                   ELSE Turn(@, rev)]
    /\ UNCHANGED published

\* The index cannot be read.
Fail(c) ==
    /\ walk[c].at = "walking"
    /\ walk' = [walk EXCEPT ![c].at = "failed"]
    /\ UNCHANGED <<published, read>>
-----------------------------------------------------------------------------
(* Clients, the upstream, and replicas that come and go. *)

List(c, n) ==
    /\ walk[c].at = "idle"
    /\ walk' = [walk EXCEPT ![c] = [Idle EXCEPT !.at = "walking", !.n = n]]
    /\ UNCHANGED <<published, read>>

Finish(c) ==
    /\ walk[c].at \in {"complete", "failed"}
    /\ walk' = [walk EXCEPT ![c] = Idle]
    /\ UNCHANGED <<published, read>>

Publish ==
    /\ published < Len(History)
    /\ published' = published + 1
    /\ UNCHANGED <<read, walk>>

\* A replica that restarts reads the index anew.
Restart(p) ==
    /\ read' = [read EXCEPT ![p] = published]
    /\ UNCHANGED <<published, walk>>

NextPage(c) ==
    \E p \in Replicas : \E rev \in read[p] .. published : handleTags(c, p, rev)

Next ==
    \/ \E c \in Clients : \/ \E n \in PageSizes : List(c, n)
                          \/ NextPage(c) \/ Fail(c) \/ Finish(c)
    \/ \E p \in Replicas : Restart(p)
    \/ Publish

Spec == Init /\ [][Next]_vars

\* A client follows the links it is given, and its requests are answered.
Fairness == \A c \in Clients : WF_vars(NextPage(c))

FairSpec == Spec /\ Fairness
-----------------------------------------------------------------------------
ValidTags == {t \in AllVersions : ValidTag(t)}

TypeOK ==
    /\ published \in DOMAIN History
    /\ read \in [Replicas -> DOMAIN History]
    /\ \A c \in Clients :
          /\ walk[c].at \in {"idle", "walking", "complete", "failed"}
          /\ walk[c].n \in PageSizes \cup {NoLimit}
          /\ walk[c].last \in Nat \cup {Start}
          /\ walk[c].listed \in SUBSET ValidTags
          /\ walk[c].page \in Seq(walk[c].listed)
          /\ walk[c].seen \in SUBSET DOMAIN History

VersionsAt(rev) == {History[rev][i] : i \in DOMAIN History[rev]}

\* The versions every index that the listing read has, and a tag can express.
Stable(w) ==
    {v \in UNION {VersionsAt(rev) : rev \in w.seen} :
        /\ ValidTag(VersionToTag(v))
        /\ \A rev \in w.seen : v \in VersionsAt(rev)}

\* Following the links leads past every version that stayed where it was,
\* although versions come and go between the pages, the tag a page ended with
\* among them, and although each page may come from another replica.  With
\* n=0 there is nothing to follow.
StableVersionsAreListed ==
    \A c \in Clients :
        walk[c].at = "complete" /\ walk[c].n # 0 =>
            \A v \in Stable(walk[c]) : VersionToTag(v) \in walk[c].listed

\* The tags of a page are in order, and each comes after all of those listed.
Continues(page, listed) ==
    \A i \in DOMAIN page :
        /\ \A t \in listed : Place(t) < Place(page[i])
        /\ \A j \in 1 .. i - 1 : Place(page[j]) <= Place(page[i])

\* "Lexically sorted" (resolve.go:79), over all the pages of a listing, which
\* may come from different indexes: so no tag is on two pages.  On one page a
\* tag that two versions of the index share is there twice.
TagsComeInOrder ==
    [][\A c \in Clients :
          /\ walk[c].at = "walking"
          /\ walk'[c].at # "failed" /\ walk'[c] # walk[c]
          => Continues(walk'[c].page, walk[c].listed)]_vars

\* "The mapping is lossless" (tags.go:14): a tag that is listed leads back to a
\* version of an index it was read from, unless that index has a version with
\* a literal underscore, which SemVer forbids.
ListedTagsResolve ==
    \A c \in Clients : \A t \in walk[c].listed :
        \E rev \in walk[c].seen :
            \/ TagToVersion(t) \in VersionsAt(rev)
            \/ t.mark = "_" /\ t \in VersionsAt(rev)

\* Every listing ends, although pages are short and the upstream publishes.
EveryWalkEnds == \A c \in Clients : walk[c].at = "walking" ~> walk[c].at # "walking"
=============================================================================
