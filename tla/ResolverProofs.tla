----------------------------- MODULE ResolverProofs -----------------------------
(***************************************************************************)
(* The safety properties of Resolver, for any callers, requests, options   *)
(* and history of the upstream.                                            *)
(***************************************************************************)
EXTENDS Resolver, LeastElement, TLAPS

\* What callers ask, and turn into when the blobs of signatures are tried.
Reqs == [op  : {"tag", "manifest", "signature", "blob", "sigblob"},
         arg : {r.arg : r \in Requests}]

Places == {"idle", "cache", "layer", "scan", "resolve", "missed", "waiting",
           "resumed", "done"}

Calls ==
    [req : Reqs \cup {Nothing}, since : Int, want : Versions \cup {Nothing},
     cont : {"tag", "layer", "scan", Nothing}, todo : Seq(Versions),
     reply : Replies \cup {Nothing}, led : Nat]

\* The downloads a request may lead.
Bound(op) == CASE op = "tag"     -> 1
               [] op = "blob"    -> 1 + ScanLimit
               [] op = "sigblob" -> 1 + 2 * ScanLimit
               [] OTHER          -> ScanLimit

\* What a call at the place l is doing, and with what.
Stands(l, q) ==
    /\ l # "idle" => q.req \in Reqs
    /\ l = "layer" => q.req.op = "blob"
    /\ l \in {"cache", "scan"} => q.req.op # "tag"
    /\ l \in {"resolve", "missed", "waiting", "resumed"} =>
          /\ q.want \in Versions
          /\ \/ q.cont = "tag" /\ q.req.op = "tag" /\ q.want = q.req.arg
             \/ q.cont = "layer" /\ q.req.op = "blob"
             \/ q.cont = "scan" /\ q.req.op # "tag"
    /\ l \in {"resumed", "done"} => q.reply \in Replies

\* The downloads it has led, and has yet to lead, stay within its bound.
Affords(l, q) ==
    /\ l \in {"cache", "layer"} => q.led = 0
    /\ l = "scan" => q.led + ScanLimit <= Bound(q.req.op)
    /\ l \in {"resolve", "missed"} =>
          IF q.cont = "scan" THEN q.led + 1 + Len(q.todo) <= Bound(q.req.op)
          ELSE q.led = 0
    /\ l \in {"waiting", "resumed"} =>
          IF q.cont = "scan" THEN q.led + Len(q.todo) <= Bound(q.req.op)
          ELSE q.led <= 1
    /\ l = "done" => q.led <= Bound(q.req.op)

CallersInv ==
    /\ pc \in [Callers -> Places]
    /\ call \in [Callers -> Calls]
    /\ NobodyIsStranded
    /\ \A c \in Callers : Stands(pc[c], call[c]) /\ Affords(pc[c], call[c])

EntriesUpTo(n) == UNION {ToSet(EntriesAt(i)) : i \in 1 .. n}

Flights ==
    [at    : {"cache", "index", "chart", "prov", "build"},
     entry : EntriesUpTo(Len(History)) \cup {Nothing},
     chart : Tarballs \cup {Nothing},
     prov  : Provs]

\* A flight past the index has an entry for its version, published when the
\* upstream is at n, and past the download a tarball the entry vouches for.
Holds(n, v, f) ==
    /\ f.at \in {"chart", "prov", "build"} =>
          f.entry \in EntriesUpTo(n) /\ f.entry.version = v
    /\ f.at \in {"prov", "build"} =>
          /\ f.chart \in Tarballs
          /\ f.entry.digest \in {Nothing, f.chart}
          /\ \E i \in DOMAIN History : f.chart = History[i].files[v]

FlightsInv ==
    /\ DOMAIN flight \subseteq Versions
    /\ \A v \in DOMAIN flight :
          flight[v] \in Flights /\ Holds(published, v, flight[v])

FoundInv ==
    \A k \in DOMAIN found : found[k].name = Name /\ found[k].art \in Artifacts

ClockInv == published \in DOMAIN History /\ served \in 1 .. published

\* The part of the invariant that holds whatever the upstream publishes.
ResolverInv == ClockInv /\ FoundInv /\ FlightsInv /\ CallersInv

\* Whoever makes the index of a repository from its tarballs, as Helm does,
\* makes each entry's version that of the tarball's Chart.yaml.  The code does
\* not check it; an upstream may break it only by a tarball that cannot be
\* read, or that the digest in its entry refuses.
VersionsAgree ==
    \A i, j \in DOMAIN History : \A e \in ToSet(EntriesAt(i)) :
        LET t == History[j].files[e.version] IN
        t # Nothing /\ e.digest \in {Nothing, t} => t.version \in {e.version, Nothing}

\* The upstream had published this artifact when it was at n.
OutBy(n, a) ==
    \E i \in 1 .. n :
        \E e \in ToSet(EntriesAt(i)) :
            /\ e.version = a.version
            /\ \/ e.digest = Nothing
               \/ e.digest # Nothing /\ a.chart = <<"chart", Content(e.digest)>>

\* What a call was told is of the version it wanted; what it answers is what
\* was asked for; and all of it was published.
Right(n, l, q) ==
    /\ l = "resumed" /\ q.reply.err = "none" =>
          q.reply.art.version = q.want /\ OutBy(n, q.reply.art)
    /\ l = "done" /\ q.reply.err = "none" =>
          /\ OutBy(n, q.reply.art)
          /\ IF q.req.op = "tag" THEN q.reply.art.version = q.req.arg
             ELSE Matches(q.req, q.reply.art)

AnswersInv == \A c \in Callers : Right(published, pc[c], call[c])

CachedInv ==
    /\ Cache!FoundCarriesKey
    /\ \A k \in DOMAIN found : OutBy(published, found[k].art)
    /\ NoDownloadWhileCached

\* The part that needs the versions to agree.
AgreeInv == CachedInv /\ AnswersInv
-----------------------------------------------------------------------------
(* The upstream. *)

LEMMA Histories ==
    /\ Len(History) \in Nat \ {0} /\ DOMAIN History = 1 .. Len(History)
    /\ \A i \in DOMAIN History : DOMAIN History[i].files = Versions
<1>1. /\ Len(History) \in Nat /\ DOMAIN History = 1 .. Len(History)
      /\ Len(History) # 0
  BY HistoryAssumption
<1>2. \A i, j \in DOMAIN History : DOMAIN History[i].files = DOMAIN History[j].files
  BY HistoryAssumption
<1>3. ASSUME NEW i \in DOMAIN History PROVE DOMAIN History[i].files = Versions
  BY <1>2 DEF Versions
<1> QED BY <1>1, <1>3

\* What the URLs of a version lead to.
LEMMA Contents ==
    ASSUME NEW i \in DOMAIN History, NEW v \in Versions
    PROVE  /\ History[i].files[v] \in Tarballs \cup {Nothing}
           /\ History[i].provs[v] \in Provs
<1>1. v \in DOMAIN History[i].files /\ v \in DOMAIN History[i].provs
  BY Histories, HistoryAssumption
<1>2. /\ History[i].files[v] \in Range(History[i].files)
      /\ History[i].provs[v] \in Range(History[i].provs)
  BY <1>1 DEF Range
<1> QED BY <1>2 DEF Tarballs, Provs

\* The entries of an index are a sequence, and their versions are versions.
LEMMA Indices ==
    ASSUME NEW i \in DOMAIN History
    PROVE  /\ Len(EntriesAt(i)) \in Nat
           /\ DOMAIN EntriesAt(i) = 1 .. Len(EntriesAt(i))
           /\ EntriesAt(i) # << >> => Len(EntriesAt(i)) # 0
           /\ \A j \in DOMAIN EntriesAt(i) :
                 /\ EntriesAt(i)[j].version \in Versions
                 /\ EntriesAt(i)[j] \in ToSet(EntriesAt(i))
<1>1. CASE History[i].index = Nothing
  BY <1>1 DEF EntriesAt
<1>2. CASE History[i].index # Nothing
  <2> DEFINE s == History[i].index
  <2>1. s \in Seq(Range(s)) /\ \A e \in Range(s) : e.version \in Versions
    BY <1>2, HistoryAssumption, Histories
  <2>2. EntriesAt(i) = s
    BY <1>2 DEF EntriesAt
  <2> HIDE DEF s
  <2>3. Len(s) \in Nat /\ DOMAIN s = 1 .. Len(s) /\ (s # << >> => Len(s) # 0)
    BY <2>1
  <2> QED BY <2>1, <2>2, <2>3 DEF Range, ToSet
<1> QED BY <1>1, <1>2

\* The first of the entries at some positions is the one at one of them.
LEMMA FirstIsOne ==
    ASSUME NEW s, NEW at \in SUBSET Nat, at # {}
    PROVE  \E i \in at : First(s, at) = s[i]
BY LeastNat DEF First

LEMMA CandidatesAreVersions ==
    ASSUME NEW i \in DOMAIN History, EntriesAt(i) # << >>
    PROVE  LET todo == Candidates(EntriesAt(i))
           IN  /\ todo \in Seq(Versions)
               /\ Len(todo) \in 1 .. ScanLimit
<1> DEFINE s == EntriesAt(i)
           n == IF Len(s) < ScanLimit THEN Len(s) ELSE ScanLimit
<1>1. /\ Len(s) \in Nat \ {0} /\ DOMAIN s = 1 .. Len(s)
      /\ \A j \in DOMAIN s : s[j].version \in Versions
  BY Indices
<1>2. n \in 1 .. ScanLimit /\ \A j \in 1 .. n : j \in DOMAIN s /\ n \in Nat
  BY <1>1, ScanLimitAssumption
<1>3. Candidates(s) = [j \in 1 .. n |-> s[j].version]
  BY DEF Candidates
<1> HIDE DEF n, s
<1>4. [j \in 1 .. n |-> s[j].version] \in Seq(Versions)
      /\ Len([j \in 1 .. n |-> s[j].version]) = n
  BY <1>1, <1>2
<1> QED BY <1>2, <1>3, <1>4 DEF s

\* An entry published by n is published later, and so are artifacts.
LEMMA LaterEntries ==
    ASSUME NEW n \in DOMAIN History, NEW m \in DOMAIN History, n <= m
    PROVE  /\ EntriesUpTo(n) \subseteq EntriesUpTo(m)
           /\ EntriesUpTo(n) \subseteq EntriesUpTo(Len(History))
           /\ \A a : OutBy(n, a) => OutBy(m, a)
<1>1. 1 .. n \subseteq 1 .. m /\ 1 .. n \subseteq 1 .. Len(History)
  BY Histories
<1> QED BY <1>1 DEF EntriesUpTo, OutBy

LEMMA ReplyKinds ==
    /\ \A a \in Artifacts : Ok(a) \in Replies /\ Ok(a).err = "none" /\ Ok(a).art = a
    /\ \A e \in {"notFound", "fault", "mismatch", "malformed", "badURL",
                 "chartUnknown", "versionUnknown", "blobUnknown"} :
          Err(e) \in Replies /\ Err(e).err # "none"
    /\ \A r \in Replies : r.err = "none" => r.art \in Artifacts
BY DEF Replies, Ok, Err

LEMMA Bounds ==
    /\ ScanLimit \in Nat \ {0}
    /\ \A op : Bound(op) \in Nat \ {0}
    /\ Bound("tag") = 1 /\ Bound("blob") = 1 + ScanLimit
    /\ Bound("sigblob") = 1 + 2 * ScanLimit
    /\ \A op : op # "tag" => ScanLimit <= Bound(op)
BY ScanLimitAssumption DEF Bound

\* A key of a version is among the keys of an entry only as that version's.
LEMMA VersionKeys ==
    ASSUME NEW v, NEW e, VersionKey(v) \in Cache!Ids(e)
    PROVE  e.art.version = v
BY DEF VersionKey, Cache!VersionKey, Cache!Ids, Cache!VersionKeyOf, Cache!DigestKey
-----------------------------------------------------------------------------
(* Steps of one caller. *)

\* The caller c goes to the place l, with the record q.
Moved(c, l, q) == pc' = [pc EXCEPT ![c] = l] /\ call' = [call EXCEPT ![c] = q]

\* It goes there in good order, and with the right answer if everyone else has.
Goes(c) ==
    \E l \in Places \ {"waiting"}, q \in Calls :
        /\ Moved(c, l, q) /\ Stands(l, q) /\ Affords(l, q)
        /\ AgreeInv => Right(published, l, q)

\* The record of a call, and what becomes of it.
LEMMA CallFields ==
    ASSUME NEW q \in Calls
    PROVE  /\ q.want \in Versions \cup {Nothing} /\ q.todo \in Seq(Versions)
           /\ q.led \in Nat /\ Len(q.todo) \in Nat
BY DEF Calls

LEMMA WithReply ==
    ASSUME NEW q \in Calls, NEW r \in Replies, NEW p, p = [q EXCEPT !.reply = r]
    PROVE  /\ p \in Calls /\ p.reply = r /\ p.req = q.req
           /\ p.want = q.want /\ p.cont = q.cont /\ p.todo = q.todo
           /\ p.led = q.led
BY DEF Calls

LEMMA DoneMoves ==
    ASSUME CallersInv, NEW c \in Callers, NEW reply, Done(c, reply)
    PROVE  Moved(c, "done", [call[c] EXCEPT !.reply = reply])
BY DEF CallersInv, Done, Goto, Moved

LEMMA ResolveMoves ==
    ASSUME CallersInv, NEW c \in Callers, NEW v, NEW cont, NEW todo,
           Resolve(c, v, cont, todo)
    PROVE  Moved(c, "resolve",
                 [call[c] EXCEPT !.want = v, !.cont = cont, !.todo = todo])
BY DEF CallersInv, Resolve, Goto, Moved

LEMMA GotoMoves ==
    ASSUME CallersInv, NEW c \in Callers, NEW l, Goto(c, l), UNCHANGED call
    PROVE  Moved(c, l, call[c])
BY DEF CallersInv, Goto, Moved

\* A call that ends with a reply it can afford.
LEMMA DoneGoes ==
    ASSUME CallersInv, NEW c \in Callers, NEW reply \in Replies, Done(c, reply),
           call[c].req \in Reqs, call[c].led <= Bound(call[c].req.op),
           AgreeInv /\ reply.err = "none" =>
              /\ OutBy(published, reply.art)
              /\ IF call[c].req.op = "tag"
                 THEN reply.art.version = call[c].req.arg
                 ELSE Matches(call[c].req, reply.art)
    PROVE  Goes(c)
<1> DEFINE p == [call[c] EXCEPT !.reply = reply]
<1>1. call[c] \in Calls
  BY DEF CallersInv
<1>2. /\ p \in Calls /\ p.reply = reply /\ p.req = call[c].req
      /\ p.led = call[c].led
  BY <1>1, WithReply
<1>3. Moved(c, "done", p)
  BY DoneMoves
<1> HIDE DEF p
<1>4. Stands("done", p) /\ Affords("done", p)
  BY <1>2 DEF Stands, Affords
<1>5. AgreeInv => Right(published, "done", p)
  BY <1>2 DEF Right
<1> QED BY <1>2, <1>3, <1>4, <1>5 DEF Goes, Places

\* A call that turns to the next version.
LEMMA ResolveGoes ==
    ASSUME CallersInv, NEW c \in Callers, NEW v \in Versions,
           NEW cont \in {"layer", "scan"}, NEW todo \in Seq(Versions),
           Resolve(c, v, cont, todo), call[c].req \in Reqs,
           IF cont = "layer" THEN call[c].req.op = "blob" /\ call[c].led = 0
           ELSE /\ call[c].req.op # "tag"
                /\ call[c].led + 1 + Len(todo) <= Bound(call[c].req.op)
    PROVE  Goes(c)
<1> DEFINE p == [call[c] EXCEPT !.want = v, !.cont = cont, !.todo = todo]
<1>1. call[c] \in Calls /\ cont \in {"tag", "layer", "scan"}
  BY DEF CallersInv
<1>2. /\ p \in Calls /\ p.want = v /\ p.cont = cont /\ p.todo = todo
      /\ p.req = call[c].req /\ p.led = call[c].led
  BY <1>1 DEF Calls
<1>3. Moved(c, "resolve", p)
  BY ResolveMoves
<1> HIDE DEF p
<1>4. Stands("resolve", p) /\ Affords("resolve", p)
  BY <1>2 DEF Stands, Affords
<1>5. Right(published, "resolve", p)
  BY DEF Right
<1> QED BY <1>2, <1>3, <1>4, <1>5 DEF Goes, Places

\* A call that goes on as it is.
LEMMA GotoGoes ==
    ASSUME CallersInv, NEW c \in Callers,
           NEW l \in {"idle", "cache", "layer", "scan", "resolve", "missed"},
           Goto(c, l), UNCHANGED call, Stands(l, call[c]), Affords(l, call[c])
    PROVE  Goes(c)
<1>1. call[c] \in Calls
  BY DEF CallersInv
<1>2. Moved(c, l, call[c])
  BY GotoMoves
<1>3. Right(published, l, call[c])
  BY DEF Right
<1> QED BY <1>1, <1>2, <1>3 DEF Goes, Places

LEMMA RequestGoes ==
    ASSUME ResolverInv, NEW c \in Callers, NEW r \in Requests, Request(c, r)
    PROVE  Goes(c)
<1> DEFINE started == [Idle EXCEPT !.req = r, !.since = served]
<1>1. /\ r \in Reqs /\ r.op # "sigblob"
      /\ r.op = "tag" => r.arg \in Versions
  BY RequestsAssumption DEF Reqs, Versions
<1>2. served \in Int
  BY Histories DEF ResolverInv, ClockInv
<1>3. << >> \in Seq(Versions)
  OBVIOUS
<1>4. CallersInv
  BY DEF ResolverInv
<1>5. CASE r.op = "tag"
  <2> DEFINE q == [started EXCEPT !.want = r.arg, !.cont = "tag"]
  <2>1. /\ q.req = r /\ q.want = r.arg /\ q.cont = "tag" /\ q.led = 0
        /\ q \in Calls
    BY <1>1, <1>2, <1>3, <1>5 DEF Idle, Calls
  <2>2. Moved(c, "resolve", q)
    BY <1>5 DEF Request, Goto, Moved
  <2> HIDE DEF q
  <2>3. Stands("resolve", q) /\ Affords("resolve", q)
    BY <2>1, <1>1, <1>5 DEF Stands, Affords
  <2>4. Right(published, "resolve", q)
    BY DEF Right
  <2> QED BY <2>1, <2>2, <2>3, <2>4 DEF Goes, Places
<1>6. CASE r.op = "signature" /\ ~Signing
  <2> DEFINE q == [started EXCEPT !.reply = Err("versionUnknown")]
  <2>1. Err("versionUnknown") \in Replies /\ Err("versionUnknown").err # "none"
    BY ReplyKinds
  <2>2. /\ q.req = r /\ q.reply = Err("versionUnknown") /\ q.led = 0
        /\ q \in Calls
    BY <1>1, <1>2, <1>3, <2>1 DEF Idle, Calls
  <2>3. Moved(c, "done", q)
    BY <1>6 DEF Request, Goto, Moved
  <2> HIDE DEF q
  <2>4. Stands("done", q) /\ Affords("done", q)
    BY <2>1, <2>2, <1>1, Bounds DEF Stands, Affords
  <2>5. Right(published, "done", q)
    BY <2>1, <2>2 DEF Right
  <2> QED BY <2>2, <2>3, <2>4, <2>5 DEF Goes, Places
<1>7. CASE r.op # "tag" /\ ~ (r.op = "signature" /\ ~Signing)
  <2>1. started.req = r /\ started.led = 0 /\ started \in Calls
    BY <1>1, <1>2, <1>3 DEF Idle, Calls
  <2>2. Moved(c, "cache", started)
    BY <1>7 DEF Request, Goto, Moved
  <2> HIDE DEF started
  <2>3. Stands("cache", started) /\ Affords("cache", started)
    BY <2>1, <1>1, <1>7 DEF Stands, Affords
  <2>4. Right(published, "cache", started)
    BY DEF Right
  <2> QED BY <2>1, <2>2, <2>3, <2>4 DEF Goes, Places
<1> QED BY <1>5, <1>6, <1>7

\* What the cache has is a reply.
LEMMA HitIsReply ==
    ASSUME ResolverInv, NEW k, Hit(k)
    PROVE  /\ Ok(found[k].art) \in Replies /\ Ok(found[k].art).err = "none"
           /\ Ok(found[k].art).art = found[k].art
           /\ AgreeInv => OutBy(published, found[k].art)
BY ReplyKinds DEF ResolverInv, FoundInv, Hit, AgreeInv, CachedInv

LEMMA CacheGetGoes ==
    ASSUME ResolverInv, NEW c \in Callers, CacheGet(c)
    PROVE  Goes(c)
<1> DEFINE req == call[c].req
           k == DigestKey(req.arg)
<1>1. /\ CallersInv /\ pc[c] = "cache"
      /\ Stands(pc[c], call[c]) /\ Affords(pc[c], call[c])
  BY DEF ResolverInv, CallersInv, CacheGet
<1>2. req \in Reqs /\ req.op # "tag" /\ call[c].led = 0
  BY <1>1 DEF Stands, Affords
<1>3. CASE Hit(k) /\ Matches(req, found[k].art)
  <2>1. Done(c, Ok(found[k].art))
    BY <1>3 DEF CacheGet
  <2>2. call[c].led <= Bound(req.op)
    BY <1>2, Bounds
  <2> QED BY <1>1, <1>2, <1>3, <2>1, <2>2, HitIsReply, DoneGoes
<1>4. CASE ~ (Hit(k) /\ Matches(req, found[k].art))
  <2>1. Goto(c, IF req.op = "blob" THEN "layer" ELSE "scan") /\ UNCHANGED call
    BY <1>4 DEF CacheGet
  <2>2. CASE req.op = "blob"
    <3>1. Stands("layer", call[c]) /\ Affords("layer", call[c])
      BY <1>2, <2>2 DEF Stands, Affords
    <3> QED BY <1>1, <2>1, <2>2, <3>1, GotoGoes
  <2>3. CASE req.op # "blob"
    <3>1. 0 + ScanLimit <= Bound(req.op)
      BY <1>2, Bounds
    <3>2. Stands("scan", call[c]) /\ Affords("scan", call[c])
      BY <1>2, <3>1 DEF Stands, Affords
    <3> QED BY <1>1, <2>1, <2>3, <3>2, GotoGoes
  <2> QED BY <2>2, <2>3
<1> QED BY <1>3, <1>4

\* What a call at the index may still lead.
LEMMA IndexAffords ==
    ASSUME ResolverInv, NEW c \in Callers, pc[c] \in {"layer", "scan"}
    PROVE  /\ CallersInv /\ call[c].req \in Reqs
           /\ call[c].led \in Nat /\ call[c].led + ScanLimit <= Bound(call[c].req.op)
           /\ call[c].led <= Bound(call[c].req.op)
           /\ call[c].req.op # "tag"
           /\ pc[c] = "layer" => call[c].req.op = "blob" /\ call[c].led = 0
<1>1. /\ CallersInv /\ Stands(pc[c], call[c]) /\ Affords(pc[c], call[c])
      /\ call[c] \in Calls
  BY DEF ResolverInv, CallersInv
<1>2. call[c].led \in Nat
  BY <1>1, CallFields
<1>3. /\ call[c].req \in Reqs /\ call[c].req.op # "tag"
      /\ pc[c] = "layer" => call[c].req.op = "blob" /\ call[c].led = 0
      /\ pc[c] = "scan" => call[c].led + ScanLimit <= Bound(call[c].req.op)
  BY <1>1 DEF Stands, Affords
<1>4. call[c].led + ScanLimit <= Bound(call[c].req.op)
  BY <1>3, Bounds
<1>5. call[c].led <= Bound(call[c].req.op)
  BY <1>2, <1>4, Bounds
<1> QED BY <1>1, <1>2, <1>3, <1>4, <1>5

LEMMA IndexFailsGoes ==
    ASSUME ResolverInv, NEW c \in Callers, IndexFails(c)
    PROVE  Goes(c)
<1>1. pc[c] \in {"layer", "scan"}
  BY DEF IndexFails
<1>2. PICK e \in {"notFound", "fault"} : Done(c, Err(e))
  BY DEF IndexFails, IndexErrors
<1>3. Err(e) \in Replies /\ Err(e).err # "none"
  BY ReplyKinds
<1> QED BY <1>1, <1>2, <1>3, IndexAffords, DoneGoes

\* Revisions that are read were published.
LEMMA ReadRevisions ==
    ASSUME ResolverInv, NEW rev \in served .. published
    PROVE  rev \in DOMAIN History /\ rev \in 1 .. published
BY Histories DEF ResolverInv, ClockInv

LEMMA FindLayerGoes ==
    ASSUME ResolverInv, NEW c \in Callers, NEW rev \in served .. published,
           FindLayer(c, rev)
    PROVE  Goes(c)
<1> DEFINE entries == EntriesAt(rev)
           at == {i \in DOMAIN entries :
                    /\ entries[i].digest # Nothing
                    /\ call[c].req.arg = <<"chart", entries[i].digest>>}
<1>1. /\ rev \in DOMAIN History /\ pc[c] = "layer"
      /\ call[c].req.op = "blob" /\ call[c].led = 0
  BY ReadRevisions, IndexAffords DEF FindLayer
<1>2. CASE entries = << >>
  <2>1. Done(c, Err("chartUnknown"))
    BY <1>2 DEF FindLayer
  <2>2. Err("chartUnknown") \in Replies /\ Err("chartUnknown").err # "none"
    BY ReplyKinds
  <2> QED BY <1>1, <2>1, <2>2, IndexAffords, DoneGoes
<1>3. CASE entries # << >> /\ at # {}
  <2>1. Resolve(c, First(entries, at).version, "layer", << >>)
    BY <1>3 DEF FindLayer
  <2>2. at \in SUBSET Nat
    BY <1>1, Indices
  <2>3. First(entries, at).version \in Versions
    <3>1. PICK i \in at : First(entries, at) = entries[i]
      BY <1>3, <2>2, FirstIsOne
    <3> QED BY <1>1, <3>1, Indices
  <2>4. << >> \in Seq(Versions)
    OBVIOUS
  <2> QED BY <1>1, <2>1, <2>3, <2>4, IndexAffords, ResolveGoes
<1>4. CASE entries # << >> /\ at = {}
  <2>1. Goto(c, "scan") /\ UNCHANGED call
    BY <1>4 DEF FindLayer
  <2>2. Stands("scan", call[c]) /\ Affords("scan", call[c])
    BY <1>1, IndexAffords DEF Stands, Affords
  <2> QED BY <1>1, <2>1, <2>2, IndexAffords, GotoGoes
<1> QED BY <1>2, <1>3, <1>4

LEMMA StartScanGoes ==
    ASSUME ResolverInv, NEW c \in Callers, NEW rev \in served .. published,
           StartScan(c, rev)
    PROVE  Goes(c)
<1> DEFINE entries == EntriesAt(rev)
           todo == Candidates(entries)
<1>1. rev \in DOMAIN History /\ pc[c] = "scan"
  BY ReadRevisions DEF StartScan
<1>2. CASE entries = << >>
  <2>1. Done(c, Err("chartUnknown"))
    BY <1>2 DEF StartScan
  <2>2. Err("chartUnknown") \in Replies /\ Err("chartUnknown").err # "none"
    BY ReplyKinds
  <2> QED BY <1>1, <2>1, <2>2, IndexAffords, DoneGoes
<1>3. CASE entries # << >>
  <2>1. Resolve(c, Head(todo), "scan", Tail(todo))
    BY <1>3 DEF StartScan
  <2>2. todo \in Seq(Versions) /\ Len(todo) \in 1 .. ScanLimit
    BY <1>1, <1>3, CandidatesAreVersions
  <2> HIDE DEF todo
  <2>3. /\ Head(todo) \in Versions /\ Tail(todo) \in Seq(Versions)
        /\ Len(Tail(todo)) + 1 = Len(todo)
        /\ Len(Tail(todo)) \in Nat
    BY <2>2
  <2>4. call[c].led + 1 + Len(Tail(todo)) <= Bound(call[c].req.op)
    BY <1>1, <2>2, <2>3, IndexAffords, Bounds
  <2> QED BY <1>1, <2>1, <2>3, <2>4, IndexAffords, ResolveGoes
<1> QED BY <1>2, <1>3

LEMMA LookupGoes ==
    ASSUME ResolverInv, NEW c \in Callers, Lookup(c)
    PROVE  Goes(c)
<1> DEFINE v == call[c].want
           k == VersionKey(v)
<1>1. /\ CallersInv /\ pc[c] = "resolve" /\ call[c] \in Calls
      /\ Stands("resolve", call[c]) /\ Affords("resolve", call[c])
  BY DEF ResolverInv, CallersInv, Lookup
<1>2. call[c].led \in Nat /\ Len(call[c].todo) \in Nat
  BY <1>1, CallFields
<1>3. CASE Hit(k)
  <2> DEFINE a == found[k].art
             p == [call[c] EXCEPT !.reply = Ok(a)]
  <2>1. /\ Ok(a) \in Replies /\ Ok(a).art = a
        /\ AgreeInv => OutBy(published, a)
    BY <1>3, HitIsReply
  <2>2. AgreeInv => a.version = v
    <3>1. AgreeInv => k \in Cache!Ids(found[k])
      BY <1>3 DEF AgreeInv, CachedInv, Cache!FoundCarriesKey, Hit
    <3> QED BY <3>1, VersionKeys
  <2>3. /\ p \in Calls /\ p.reply = Ok(a) /\ p.req = call[c].req
        /\ p.want = v /\ p.cont = call[c].cont /\ p.todo = call[c].todo
        /\ p.led = call[c].led
    BY <1>1, <2>1, WithReply
  <2>4. Moved(c, "resumed", p)
    BY <1>1, <1>3 DEF Lookup, Goto, Moved
  <2> HIDE DEF p, a
  <2>5. Stands("resumed", p)
    BY <1>1, <2>1, <2>3 DEF Stands
  <2>6. Affords("resumed", p)
    <3>1. Bound(call[c].req.op) \in Nat
      BY Bounds
    <3> QED BY <1>1, <1>2, <2>3, <3>1 DEF Affords
  <2>7. AgreeInv => Right(published, "resumed", p)
    BY <2>1, <2>2, <2>3 DEF Right
  <2> QED BY <2>3, <2>4, <2>5, <2>6, <2>7 DEF Goes, Places
<1>4. CASE ~Hit(k)
  <2>1. Goto(c, "missed") /\ UNCHANGED call
    BY <1>4 DEF Lookup
  <2>2. Stands("missed", call[c]) /\ Affords("missed", call[c])
    BY <1>1 DEF Stands, Affords
  <2> QED BY <1>1, <2>1, <2>2, GotoGoes
<1> QED BY <1>3, <1>4

\* No candidate is left.
LEMMA NoMatchGoes ==
    ASSUME CallersInv, NEW c \in Callers, NoMatch(c), call[c].req \in Reqs,
           call[c].req.op # "tag", call[c].led <= Bound(call[c].req.op)
    PROVE  Goes(c)
<1>1. CASE call[c].req.op = "blob" /\ Signing
  <2> DEFINE p == [call[c] EXCEPT !.req.op = "sigblob"]
  <2>1. call[c] \in Calls /\ call[c].led \in Nat
    BY CallFields DEF CallersInv
  <2>2. [call[c].req EXCEPT !.op = "sigblob"] \in Reqs
        /\ [call[c].req EXCEPT !.op = "sigblob"].op = "sigblob"
    BY DEF Reqs
  <2>3. p = [call[c] EXCEPT !.req = [call[c].req EXCEPT !.op = "sigblob"]]
    OBVIOUS
  <2>4. p \in Calls /\ p.req \in Reqs /\ p.req.op = "sigblob" /\ p.led = call[c].led
    <3> DEFINE req == [call[c].req EXCEPT !.op = "sigblob"]
    <3> HIDE DEF req
    <3>1. [call[c] EXCEPT !.req = req] \in Calls
          /\ [call[c] EXCEPT !.req = req].req = req
          /\ [call[c] EXCEPT !.req = req].led = call[c].led
      BY <2>1, <2>2 DEF Calls, req
    <3> QED BY <2>2, <2>3, <3>1 DEF req
  <2>5. Moved(c, "scan", p)
    BY <1>1 DEF NoMatch, Goto, Moved, CallersInv
  <2> HIDE DEF p
  <2>6. Stands("scan", p)
    BY <2>4 DEF Stands
  <2>7. Affords("scan", p)
    <3>1. p.led + ScanLimit <= Bound("sigblob")
      BY <1>1, <2>1, <2>4, Bounds
    <3> QED BY <2>4, <3>1 DEF Affords
  <2>8. Right(published, "scan", p)
    BY DEF Right
  <2> QED BY <2>4, <2>5, <2>6, <2>7, <2>8 DEF Goes, Places
<1>2. CASE ~ (call[c].req.op = "blob" /\ Signing)
  <2>1. PICK e \in {"blobUnknown", "versionUnknown"} : Done(c, Err(e))
    BY <1>2 DEF NoMatch
  <2>2. Err(e) \in Replies /\ Err(e).err # "none"
    BY ReplyKinds
  <2> QED BY <2>1, <2>2, DoneGoes
<1> QED BY <1>1, <1>2

LEMMA ResumeGoes ==
    ASSUME ResolverInv, NEW c \in Callers, Resume(c)
    PROVE  Goes(c)
<1> DEFINE req == call[c].req
           reply == call[c].reply
           good == reply.err = "none"
           todo == call[c].todo
<1>1. /\ CallersInv /\ pc[c] = "resumed" /\ call[c] \in Calls
      /\ Stands("resumed", call[c]) /\ Affords("resumed", call[c])
  BY DEF ResolverInv, CallersInv, Resume
<1>2. /\ call[c].led \in Nat /\ todo \in Seq(Versions) /\ Len(todo) \in Nat
      /\ req \in Reqs /\ reply \in Replies
  BY <1>1, CallFields DEF Stands
<1>3. AgreeInv /\ good =>
         reply.art.version = call[c].want /\ OutBy(published, reply.art)
  BY <1>1 DEF AgreeInv, AnswersInv, Right
<1>4. CASE call[c].cont = "tag"
  <2>1. req.op = "tag" /\ call[c].want = req.arg /\ call[c].led <= Bound(req.op)
    BY <1>1, <1>4, Bounds DEF Stands, Affords
  <2>2. Done(c, reply)
    BY <1>4 DEF Resume
  <2> QED BY <1>1, <1>2, <1>3, <2>1, <2>2, DoneGoes
<1>5. CASE call[c].cont = "layer"
  <2>1. req.op = "blob" /\ call[c].led <= 1
    BY <1>1, <1>5 DEF Stands, Affords
  <2>2. call[c].led + ScanLimit <= Bound(req.op) /\ call[c].led <= Bound(req.op)
    BY <1>2, <2>1, Bounds
  <2>3. CASE ~good \/ Matches(req, reply.art)
    <3>1. Done(c, reply)
      BY <1>5, <2>3 DEF Resume
    <3> QED BY <1>1, <1>2, <1>3, <2>1, <2>2, <2>3, <3>1, DoneGoes
  <2>4. CASE ~ (~good \/ Matches(req, reply.art))
    <3>1. Goto(c, "scan") /\ UNCHANGED call
      BY <1>5, <2>4 DEF Resume
    <3>2. Stands("scan", call[c]) /\ Affords("scan", call[c])
      BY <1>2, <2>1, <2>2 DEF Stands, Affords
    <3> QED BY <1>1, <3>1, <3>2, GotoGoes
  <2> QED BY <2>3, <2>4
<1>6. CASE call[c].cont = "scan"
  <2>1. req.op # "tag" /\ call[c].led + Len(todo) <= Bound(req.op)
    BY <1>1, <1>6 DEF Stands, Affords
  <2>2. call[c].led <= Bound(req.op)
    BY <1>2, <2>1, Bounds
  <2>3. CASE (good /\ Matches(req, reply.art)) \/ (~good /\ reply.err \notin Skippable)
    <3>1. Done(c, reply)
      BY <1>6, <2>3 DEF Resume
    <3> QED BY <1>1, <1>2, <1>3, <2>1, <2>2, <2>3, <3>1, DoneGoes
  <2>4. CASE ~ ((good /\ Matches(req, reply.art))
                  \/ (~good /\ reply.err \notin Skippable))
    <3>1. CASE todo = << >>
      <4>1. NoMatch(c)
        BY <1>6, <2>4, <3>1 DEF Resume
      <4> QED BY <1>1, <1>2, <2>1, <2>2, <4>1, NoMatchGoes
    <3>2. CASE todo # << >>
      <4>1. Resolve(c, Head(todo), "scan", Tail(todo))
        BY <1>6, <2>4, <3>2 DEF Resume
      <4> HIDE DEF todo
      <4>2. /\ Head(todo) \in Versions /\ Tail(todo) \in Seq(Versions)
            /\ Len(Tail(todo)) + 1 = Len(todo) /\ Len(Tail(todo)) \in Nat
        BY <1>2, <3>2
      <4>3. call[c].led + 1 + Len(Tail(todo)) <= Bound(req.op)
        BY <1>2, <2>1, <4>2, Bounds
      <4> QED BY <1>1, <1>2, <2>1, <4>1, <4>2, <4>3, ResolveGoes
    <3> QED BY <3>1, <3>2
  <2> QED BY <2>3, <2>4
<1>7. call[c].cont \in {"tag", "layer", "scan"}
  BY <1>1 DEF Stands
<1> QED BY <1>4, <1>5, <1>6, <1>7

LEMMA IdleIsCall == Idle \in Calls /\ Stands("idle", Idle) /\ Affords("idle", Idle)
<1>1. << >> \in Seq(Versions)
  OBVIOUS
<1> QED BY <1>1 DEF Idle, Calls, Stands, Affords

LEMMA FinishGoes ==
    ASSUME ResolverInv, NEW c \in Callers, Finish(c)
    PROVE  Goes(c)
<1>1. Moved(c, "idle", Idle)
  BY DEF Finish, Goto, Moved
<1>2. Right(published, "idle", Idle)
  BY DEF Right
<1> QED BY <1>1, <1>2, IdleIsCall DEF Goes, Places

\* A step of one caller that goes nowhere it has to wait.
LEMMA GoesKeeps ==
    ASSUME ResolverInv, NEW c \in Callers, Goes(c),
           UNCHANGED <<published, found, flight>>, served' \in 1 .. published
    PROVE  ResolverInv' /\ (AgreeInv => AgreeInv')
<1>1. PICK l \in Places \ {"waiting"}, q \in Calls :
         /\ Moved(c, l, q) /\ Stands(l, q) /\ Affords(l, q)
         /\ AgreeInv => Right(published, l, q)
  BY DEF Goes
<1>2. /\ pc \in [Callers -> Places] /\ call \in [Callers -> Calls]
      /\ NobodyIsStranded
      /\ \A d \in Callers : Stands(pc[d], call[d]) /\ Affords(pc[d], call[d])
  BY DEF ResolverInv, CallersInv
<1>3. /\ pc' \in [Callers -> Places] /\ call' \in [Callers -> Calls]
      /\ pc'[c] = l /\ call'[c] = q
      /\ \A d \in Callers \ {c} : pc'[d] = pc[d] /\ call'[d] = call[d]
  BY <1>1, <1>2 DEF Moved
<1>4. NobodyIsStranded'
  BY <1>1, <1>2, <1>3 DEF NobodyIsStranded
<1>5. \A d \in Callers : Stands(pc'[d], call'[d]) /\ Affords(pc'[d], call'[d])
  BY <1>1, <1>2, <1>3
<1>6. CallersInv'
  BY <1>3, <1>4, <1>5 DEF CallersInv
<1>7. ClockInv' /\ FoundInv' /\ FlightsInv'
  BY DEF ResolverInv, ClockInv, FoundInv, FlightsInv
<1>8. ASSUME AgreeInv PROVE AgreeInv'
  <2>1. CachedInv'
    BY <1>8 DEF AgreeInv, CachedInv, Cache!FoundCarriesKey, NoDownloadWhileCached, Hit
  <2>2. \A d \in Callers : Right(published, pc'[d], call'[d])
    BY <1>1, <1>3, <1>8 DEF AgreeInv, AnswersInv
  <2>3. AnswersInv'
    BY <2>2 DEF AnswersInv
  <2> QED BY <2>1, <2>3 DEF AgreeInv
<1> QED BY <1>6, <1>7, <1>8 DEF ResolverInv

LEMMA JoinKeeps ==
    ASSUME ResolverInv, NEW c \in Callers, Join(c)
    PROVE  ResolverInv' /\ (AgreeInv => AgreeInv')
<1> DEFINE v == call[c].want
           new == [at |-> "cache", entry |-> Nothing, chart |-> Nothing,
                   prov |-> Nothing]
<1>1. /\ pc \in [Callers -> Places] /\ call \in [Callers -> Calls]
      /\ NobodyIsStranded /\ pc[c] = "missed"
      /\ \A d \in Callers : Stands(pc[d], call[d]) /\ Affords(pc[d], call[d])
  BY DEF ResolverInv, CallersInv, Join
<1>2. call[c] \in Calls /\ call[c].led \in Nat /\ Len(call[c].todo) \in Nat
  BY <1>1, CallFields
<1>3. v \in Versions
  BY <1>1 DEF Stands
<1>4. PICK q \in Calls :
         /\ call' = [call EXCEPT ![c] = q]
         /\ q.req = call[c].req /\ q.want = v /\ q.cont = call[c].cont
         /\ q.todo = call[c].todo /\ q.led \in {call[c].led, call[c].led + 1}
  <2>1. CASE v \in DOMAIN flight
    <3>1. call' = [call EXCEPT ![c] = call[c]]
      BY <1>1, <2>1 DEF Join
    <3> QED BY <1>2, <3>1
  <2>2. CASE v \notin DOMAIN flight
    <3> DEFINE q == [call[c] EXCEPT !.led = @ + 1]
    <3>1. call' = [call EXCEPT ![c] = q]
      BY <1>1, <2>2 DEF Join
    <3>2. /\ q \in Calls /\ q.req = call[c].req /\ q.want = v
          /\ q.cont = call[c].cont /\ q.todo = call[c].todo
          /\ q.led = call[c].led + 1
      BY <1>2 DEF Calls
    <3> QED BY <3>1, <3>2
  <2> QED BY <2>1, <2>2
<1>5. /\ DOMAIN flight' = DOMAIN flight \cup {v}
      /\ \A w \in DOMAIN flight : flight'[w] = flight[w]
      /\ v \notin DOMAIN flight => flight'[v] = new
  <2>1. CASE v \in DOMAIN flight
    BY <2>1 DEF Join
  <2>2. CASE v \notin DOMAIN flight
    BY <2>2 DEF Join
  <2> QED BY <2>1, <2>2
<1>6. /\ pc' \in [Callers -> Places] /\ call' \in [Callers -> Calls]
      /\ pc'[c] = "waiting" /\ call'[c] = q
      /\ \A d \in Callers \ {c} : pc'[d] = pc[d] /\ call'[d] = call[d]
  BY <1>1, <1>4 DEF Join, Goto, Places
<1>7. UNCHANGED <<published, served, found>>
  BY DEF Join
<1>8. NobodyIsStranded'
  BY <1>1, <1>4, <1>5, <1>6 DEF NobodyIsStranded
<1>9. Stands("waiting", q)
  BY <1>1, <1>4 DEF Stands
<1>10. Affords("waiting", q)
  <2>1. Affords("missed", call[c])
    BY <1>1
  <2>2. CASE q.cont = "scan"
    <3>1. call[c].led + 1 + Len(q.todo) <= Bound(q.req.op)
      BY <1>4, <2>1, <2>2 DEF Affords
    <3>2. /\ q.req = call[c].req /\ q.todo = call[c].todo
          /\ q.led \in {call[c].led, call[c].led + 1}
      BY <1>4
    <3>3. \A a, b, n, w \in Nat :
             a + 1 + n <= w /\ b \in {a, a + 1} => b + n <= w
      OBVIOUS
    <3>4. /\ q.led \in Nat /\ call[c].led \in Nat /\ Len(q.todo) \in Nat
          /\ Bound(q.req.op) \in Nat
      BY <1>2, <3>2, Bounds
    <3>5. call[c].led + 1 + Len(q.todo) <= Bound(q.req.op)
      BY <3>1, <3>2
    <3>6. q.led + Len(q.todo) <= Bound(q.req.op)
      BY <3>2, <3>3, <3>4, <3>5
    <3> QED BY <2>2, <3>6 DEF Affords
  <2>3. CASE q.cont # "scan"
    <3>1. call[c].led = 0
      BY <1>4, <2>1, <2>3 DEF Affords
    <3> QED BY <1>4, <2>3, <3>1 DEF Affords
  <2> QED BY <2>2, <2>3
<1>11. \A d \in Callers : Stands(pc'[d], call'[d]) /\ Affords(pc'[d], call'[d])
  BY <1>1, <1>6, <1>9, <1>10
<1>12. CallersInv'
  BY <1>6, <1>8, <1>11 DEF CallersInv
<1>13. FlightsInv'
  <2>1. new \in Flights /\ Holds(published, v, new)
    BY DEF Flights, Holds, Provs
  <2>2. /\ DOMAIN flight \subseteq Versions
        /\ \A w \in DOMAIN flight :
              flight[w] \in Flights /\ Holds(published, w, flight[w])
    BY DEF ResolverInv, FlightsInv
  <2> HIDE DEF new, v
  <2>3. \A w \in DOMAIN flight' :
           flight'[w] \in Flights /\ Holds(published, w, flight'[w])
    BY <1>5, <2>1, <2>2
  <2> QED BY <1>3, <1>5, <1>7, <2>2, <2>3 DEF FlightsInv
<1>14. ClockInv' /\ FoundInv'
  BY <1>7 DEF ResolverInv, ClockInv, FoundInv
<1>15. ASSUME AgreeInv PROVE AgreeInv'
  <2>1. NoDownloadWhileCached'
    BY <1>5, <1>7, <1>15 DEF AgreeInv, CachedInv, NoDownloadWhileCached, Hit
  <2>2. CachedInv'
    BY <1>7, <1>15, <2>1 DEF AgreeInv, CachedInv, Cache!FoundCarriesKey
  <2>3. Right(published, "waiting", q)
    BY DEF Right
  <2>4. \A d \in Callers : Right(published, pc'[d], call'[d])
    BY <1>6, <1>15, <2>3 DEF AgreeInv, AnswersInv
  <2> QED BY <1>7, <2>2, <2>4 DEF AgreeInv, AnswersInv
<1> QED BY <1>12, <1>13, <1>14, <1>15 DEF ResolverInv
-----------------------------------------------------------------------------
(* Steps of a flight. *)

\* A flight that goes on.
LEMMA OnwardKeeps ==
    ASSUME ResolverInv, NEW v \in DOMAIN flight, NEW f \in Flights,
           flight' = [flight EXCEPT ![v] = f], Holds(published, v, f),
           UNCHANGED <<published, found, pc, call>>, served' \in 1 .. published,
           AgreeInv /\ f.at # "cache" => ~Hit(VersionKey(v))
    PROVE  ResolverInv' /\ (AgreeInv => AgreeInv')
<1>1. /\ DOMAIN flight' = DOMAIN flight /\ flight'[v] = f
      /\ \A w \in DOMAIN flight \ {v} : flight'[w] = flight[w]
  OBVIOUS
<1>2. CallersInv'
  BY <1>1 DEF ResolverInv, CallersInv, NobodyIsStranded
<1>3. FlightsInv'
  BY <1>1 DEF ResolverInv, FlightsInv
<1>4. ClockInv' /\ FoundInv'
  BY DEF ResolverInv, ClockInv, FoundInv
<1>5. ASSUME AgreeInv PROVE AgreeInv'
  <2>1. NoDownloadWhileCached'
    BY <1>1, <1>5 DEF AgreeInv, CachedInv, NoDownloadWhileCached, Hit
  <2>2. CachedInv'
    BY <1>5, <2>1 DEF AgreeInv, CachedInv, Cache!FoundCarriesKey
  <2>3. AnswersInv'
    BY <1>5 DEF AgreeInv, AnswersInv
  <2> QED BY <2>2, <2>3 DEF AgreeInv
<1> QED BY <1>2, <1>3, <1>4, <1>5 DEF ResolverInv

\* A flight that ends with a reply of its version, and files what it replies.
LEMMA LandKeeps ==
    ASSUME ResolverInv, NEW v \in DOMAIN flight, NEW reply \in Replies,
           Land(v, reply),
           UNCHANGED published, served' \in 1 .. published, FoundInv',
           VersionsAgree /\ AgreeInv /\ reply.err = "none" =>
              reply.art.version = v /\ OutBy(published, reply.art),
           VersionsAgree /\ AgreeInv =>
              /\ Cache!FoundCarriesKey'
              /\ \A k \in DOMAIN found' : OutBy(published, found'[k].art)
              /\ \A w \in DOMAIN flight \ {v} :
                    VersionKey(w) \in DOMAIN found' => VersionKey(w) \in DOMAIN found
    PROVE  ResolverInv' /\ (VersionsAgree /\ AgreeInv => AgreeInv')
<1> DEFINE waiting == {c \in Callers : pc[c] = "waiting" /\ call[c].want = v}
<1>1. /\ pc \in [Callers -> Places] /\ call \in [Callers -> Calls]
      /\ NobodyIsStranded
      /\ \A c \in Callers : Stands(pc[c], call[c]) /\ Affords(pc[c], call[c])
  BY DEF ResolverInv, CallersInv
<1>2. /\ DOMAIN flight' = DOMAIN flight \ {v}
      /\ \A w \in DOMAIN flight' : flight'[w] = flight[w]
  BY DEF Land, Restrict
<1>3. /\ \A c \in waiting : /\ pc'[c] = "resumed"
                            /\ call'[c] = [call[c] EXCEPT !.reply = reply]
      /\ \A c \in Callers \ waiting : pc'[c] = pc[c] /\ call'[c] = call[c]
  BY DEF Land
<1>4. \A c \in waiting :
         /\ call'[c] \in Calls /\ call'[c].reply = reply
         /\ call'[c].req = call[c].req /\ call'[c].want = v
         /\ call'[c].cont = call[c].cont /\ call'[c].todo = call[c].todo
         /\ call'[c].led = call[c].led
  <2> TAKE c \in waiting
  <2>1. call[c] \in Calls /\ call[c].want = v
    BY <1>1
  <2>2. call'[c] = [call[c] EXCEPT !.reply = reply]
    BY <1>3
  <2> QED BY <2>1, <2>2, WithReply
<1>5. pc' \in [Callers -> Places] /\ call' \in [Callers -> Calls]
  <2>1. pc' = [c \in Callers |-> pc'[c]] /\ call' = [c \in Callers |-> call'[c]]
    BY DEF Land
  <2>2. \A c \in Callers : pc'[c] \in Places /\ call'[c] \in Calls
    BY <1>1, <1>3, <1>4 DEF Places
  <2> QED BY <2>1, <2>2
<1>6. NobodyIsStranded'
  BY <1>1, <1>2, <1>3 DEF NobodyIsStranded
<1>7. ASSUME NEW c \in Callers
      PROVE  Stands(pc'[c], call'[c]) /\ Affords(pc'[c], call'[c])
  <2>1. CASE c \in waiting
    <3>1. Stands("waiting", call[c]) /\ Affords("waiting", call[c])
      BY <1>1, <2>1
    <3>2. Stands("resumed", call'[c])
      BY <1>4, <2>1, <3>1 DEF Stands
    <3>3. Affords("resumed", call'[c])
      BY <1>4, <2>1, <3>1 DEF Affords
    <3> QED BY <1>3, <2>1, <3>2, <3>3
  <2>2. CASE c \notin waiting
    BY <1>1, <1>3, <2>2
  <2> QED BY <2>1, <2>2
<1>8. CallersInv'
  BY <1>5, <1>6, <1>7 DEF CallersInv
<1>9. FlightsInv'
  BY <1>2 DEF ResolverInv, FlightsInv
<1>10. ClockInv'
  BY DEF ResolverInv, ClockInv
<1>11. ASSUME VersionsAgree, AgreeInv PROVE AgreeInv'
  <2>1. NoDownloadWhileCached'
    BY <1>2, <1>11 DEF AgreeInv, CachedInv, NoDownloadWhileCached, Hit
  <2>2. CachedInv'
    BY <1>11, <2>1 DEF CachedInv
  <2>3. ASSUME NEW c \in Callers PROVE Right(published, pc'[c], call'[c])
    <3>1. CASE c \in waiting
      <4>1. Right(published, "resumed", call'[c])
        BY <1>4, <1>11, <3>1 DEF Right
      <4> QED BY <1>3, <3>1, <4>1
    <3>2. CASE c \notin waiting
      BY <1>3, <1>11, <3>2 DEF AgreeInv, AnswersInv
    <3> QED BY <3>1, <3>2
  <2>4. AnswersInv'
    BY <2>3 DEF AnswersInv
  <2> QED BY <2>2, <2>4 DEF AgreeInv
<1> QED BY <1>8, <1>9, <1>10, <1>11 DEF ResolverInv

\* A flight that ends without filing anything.
LEMMA LandAsIs ==
    ASSUME ResolverInv, NEW v \in DOMAIN flight, NEW reply \in Replies,
           Land(v, reply), UNCHANGED <<published, found>>,
           served' \in 1 .. published,
           VersionsAgree /\ AgreeInv /\ reply.err = "none" =>
              reply.art.version = v /\ OutBy(published, reply.art)
    PROVE  ResolverInv' /\ (VersionsAgree /\ AgreeInv => AgreeInv')
<1>1. FoundInv'
  BY DEF ResolverInv, FoundInv
<1>2. AgreeInv => /\ Cache!FoundCarriesKey'
                  /\ \A k \in DOMAIN found' : OutBy(published, found'[k].art)
  BY DEF AgreeInv, CachedInv, Cache!FoundCarriesKey
<1> QED BY <1>1, <1>2, LandKeeps

\* A flight that fails.
LEMMA LandFails ==
    ASSUME ResolverInv, NEW v \in DOMAIN flight,
           NEW e \in {"notFound", "fault", "mismatch", "malformed", "badURL",
                      "chartUnknown", "versionUnknown"},
           Land(v, Err(e)), UNCHANGED <<published, found>>,
           served' \in 1 .. published
    PROVE  ResolverInv' /\ (VersionsAgree /\ AgreeInv => AgreeInv')
<1>1. Err(e) \in Replies /\ Err(e).err # "none"
  BY ReplyKinds
<1> QED BY <1>1, LandAsIs

LEMMA FlightGetKeeps ==
    ASSUME ResolverInv, NEW v \in Versions, FlightGet(v)
    PROVE  ResolverInv' /\ (VersionsAgree /\ AgreeInv => AgreeInv')
<1> DEFINE k == VersionKey(v)
<1>1. /\ v \in DOMAIN flight /\ flight[v] \in Flights
      /\ UNCHANGED <<published, served, found>>
      /\ served' \in 1 .. published
  BY DEF FlightGet, Stage, ResolverInv, FlightsInv, ClockInv
<1>2. CASE Hit(k)
  <2>1. Land(v, Ok(found[k].art))
    BY <1>2 DEF FlightGet
  <2>2. AgreeInv => found[k].art.version = v
    <3>1. AgreeInv => k \in Cache!Ids(found[k])
      BY <1>2 DEF AgreeInv, CachedInv, Cache!FoundCarriesKey, Hit
    <3> QED BY <3>1, VersionKeys
  <2> QED BY <1>1, <1>2, <2>1, <2>2, HitIsReply, LandAsIs
<1>3. CASE ~Hit(k)
  <2> DEFINE f == [flight[v] EXCEPT !.at = "index"]
  <2>1. flight' = [flight EXCEPT ![v] = f] /\ UNCHANGED <<pc, call>>
    BY <1>3 DEF FlightGet
  <2>2. f \in Flights /\ f.at = "index"
    BY <1>1 DEF Flights
  <2> HIDE DEF f
  <2>3. Holds(published, v, f)
    BY <2>2 DEF Holds
  <2> QED BY <1>1, <1>3, <2>1, <2>2, <2>3, OnwardKeeps
<1> QED BY <1>2, <1>3

LEMMA FlightFailsKeeps ==
    ASSUME ResolverInv, NEW v \in Versions, FlightFails(v)
    PROVE  ResolverInv' /\ (VersionsAgree /\ AgreeInv => AgreeInv')
<1>1. v \in DOMAIN flight
  BY DEF FlightFails, Stage
<1>2. PICK e \in {"notFound", "fault"} : Land(v, Err(e))
  BY DEF FlightFails, IndexErrors
<1>3. UNCHANGED <<published, served, found>> /\ served' \in 1 .. published
  BY DEF FlightFails, ResolverInv, ClockInv
<1> QED BY <1>1, <1>2, <1>3, LandFails

LEMMA FlightFindKeeps ==
    ASSUME ResolverInv, NEW v \in Versions, NEW rev \in served .. published,
           FlightFind(v, rev)
    PROVE  ResolverInv' /\ (VersionsAgree /\ AgreeInv => AgreeInv')
<1> DEFINE entries == EntriesAt(rev)
           at == {i \in DOMAIN entries : entries[i].version = v}
<1>1. /\ rev \in DOMAIN History /\ rev \in 1 .. published
      /\ UNCHANGED <<published, found>>
  BY ReadRevisions DEF FlightFind
<1>2. served' \in 1 .. published
  BY <1>1 DEF FlightFind, ReadIndex
<1>3. /\ v \in DOMAIN flight /\ flight[v] \in Flights /\ flight[v].at = "index"
  BY DEF FlightFind, Stage, ResolverInv, FlightsInv
<1>4. CASE entries = << >>
  <2>1. Land(v, Err("chartUnknown"))
    BY <1>4 DEF FlightFind
  <2> QED BY <1>1, <1>2, <1>3, <2>1, LandFails
<1>5. CASE entries # << >> /\ at = {}
  <2>1. Land(v, Err("versionUnknown"))
    BY <1>5 DEF FlightFind
  <2> QED BY <1>1, <1>2, <1>3, <2>1, LandFails
<1>6. CASE entries # << >> /\ at # {}
  <2> DEFINE e == First(entries, at)
             f == [flight[v] EXCEPT !.at = "chart", !.entry = e]
  <2>1. flight' = [flight EXCEPT ![v] = f] /\ UNCHANGED <<pc, call>>
    BY <1>6 DEF FlightFind
  <2>2. e \in EntriesUpTo(published) /\ e.version = v
    <3>1. at \in SUBSET Nat
      BY <1>1, Indices
    <3>2. PICK i \in at : e = entries[i]
      BY <1>6, <3>1, FirstIsOne
    <3>3. e \in ToSet(EntriesAt(rev)) /\ e.version = v
      BY <1>1, <3>2, Indices
    <3> QED BY <1>1, <3>3 DEF EntriesUpTo
  <2>3. EntriesUpTo(published) \subseteq EntriesUpTo(Len(History))
    BY LaterEntries, Histories DEF ResolverInv, ClockInv
  <2> HIDE DEF e
  <2>4. f \in Flights /\ f.at = "chart" /\ f.entry = e
    BY <1>3, <2>2, <2>3 DEF Flights
  <2> HIDE DEF f
  <2>5. Holds(published, v, f)
    BY <2>2, <2>4 DEF Holds
  <2>6. AgreeInv => ~Hit(VersionKey(v))
    BY <1>3 DEF AgreeInv, CachedInv, NoDownloadWhileCached
  <2> QED BY <1>1, <1>2, <1>3, <2>1, <2>4, <2>5, <2>6, OnwardKeeps
<1> QED BY <1>4, <1>5, <1>6

LEMMA FlightChartKeeps ==
    ASSUME ResolverInv, NEW v \in Versions, FlightChart(v)
    PROVE  ResolverInv' /\ (VersionsAgree /\ AgreeInv => AgreeInv')
<1> DEFINE e == flight[v].entry
           t == History[published].files[v]
<1>1. /\ v \in DOMAIN flight /\ flight[v] \in Flights /\ flight[v].at = "chart"
      /\ Holds(published, v, flight[v])
      /\ UNCHANGED <<published, served, found>> /\ served' \in 1 .. published
      /\ published \in DOMAIN History
  BY DEF FlightChart, Stage, ResolverInv, FlightsInv, ClockInv
<1>2. ASSUME NEW k \in {"badURL", "notFound", "mismatch"}, Land(v, Err(k))
      PROVE  ResolverInv' /\ (VersionsAgree /\ AgreeInv => AgreeInv')
  BY <1>1, <1>2, LandFails
<1>3. CASE e.url /\ t # Nothing /\ e.digest \in {Nothing, t}
  <2> DEFINE f == [flight[v] EXCEPT !.chart = t,
                                    !.at = IF Provenance THEN "prov" ELSE "build"]
  <2>1. flight' = [flight EXCEPT ![v] = f] /\ UNCHANGED <<pc, call>>
    BY <1>3 DEF FlightChart
  <2>2. t \in Tarballs
    BY <1>1, <1>3, Contents
  <2>3. \E i \in DOMAIN History : t = History[i].files[v]
    BY <1>1
  <2>4. e \in EntriesUpTo(published) /\ e.version = v /\ e.digest \in {Nothing, t}
    BY <1>1, <1>3 DEF Holds
  <2>5. f \in Flights /\ f.entry = e /\ f.chart = t
    <3> HIDE DEF t
    <3> QED BY <1>1, <2>2 DEF Flights
  <2> HIDE DEF f, e, t
  <2>6. Holds(published, v, f)
    BY <2>2, <2>3, <2>4, <2>5 DEF Holds
  <2>7. AgreeInv => ~Hit(VersionKey(v))
    BY <1>1 DEF AgreeInv, CachedInv, NoDownloadWhileCached
  <2> QED BY <1>1, <2>1, <2>5, <2>6, <2>7, OnwardKeeps
<1>4. CASE ~ (e.url /\ t # Nothing /\ e.digest \in {Nothing, t})
  BY <1>2, <1>4 DEF FlightChart
<1> QED BY <1>3, <1>4

LEMMA FlightProvKeeps ==
    ASSUME ResolverInv, NEW v \in Versions, FlightProv(v)
    PROVE  ResolverInv' /\ (VersionsAgree /\ AgreeInv => AgreeInv')
<1> DEFINE p == History[published].provs[v]
           f == [flight[v] EXCEPT !.prov = p, !.at = "build"]
<1>1. /\ v \in DOMAIN flight /\ flight[v] \in Flights /\ flight[v].at = "prov"
      /\ Holds(published, v, flight[v])
      /\ UNCHANGED <<published, served, found, pc, call>>
      /\ served' \in 1 .. published
      /\ flight' = [flight EXCEPT ![v] = f] /\ published \in DOMAIN History
  BY DEF FlightProv, Stage, ResolverInv, FlightsInv, ClockInv
<1>2. p \in Provs
  BY <1>1, Contents
<1> HIDE DEF p
<1>3. f \in Flights /\ f.entry = flight[v].entry /\ f.chart = flight[v].chart
  BY <1>1, <1>2 DEF Flights
<1> HIDE DEF f
<1>4. Holds(published, v, f)
  BY <1>1, <1>3 DEF Holds
<1>5. AgreeInv => ~Hit(VersionKey(v))
  BY <1>1 DEF AgreeInv, CachedInv, NoDownloadWhileCached
<1> QED BY <1>1, <1>3, <1>4, <1>5, OnwardKeeps

\* What filing an entry leaves under a key.
LEMMA FiledOrKept ==
    ASSUME NEW e, Cache!File(e)
    PROVE  \A k \in DOMAIN found' :
              \/ k \in Cache!Ids(e) /\ found'[k] = e
              \/ k \in DOMAIN found /\ found'[k] = found[k]
<1>1. PICK gone \in SUBSET (Cache!Range(found) \ {e}) :
         found' = Cache!Forget(Cache!Learn(found, e), gone)
  BY DEF Cache!File
<1> QED BY <1>1 DEF Cache!Forget, Cache!Learn, Cache!Restrict

\* What a flight derives from its tarball.
LEMMA Built ==
    ASSUME ResolverInv, NEW v \in DOMAIN flight, flight[v].at = "build",
           flight[v].chart.version # Nothing
    PROVE  LET a == Build(flight[v].chart, flight[v].prov)
           IN  /\ a \in Artifacts
               /\ VersionsAgree => a.version = v /\ OutBy(published, a)
<1> DEFINE t == flight[v].chart
           e == flight[v].entry
           a == Build(t, flight[v].prov)
<1>1. flight[v] \in Flights /\ Holds(published, v, flight[v]) /\ v \in Versions
  BY DEF ResolverInv, FlightsInv
<1>2. /\ t \in Tarballs /\ flight[v].prov \in Provs
      /\ e \in EntriesUpTo(published) /\ e.version = v
      /\ e.digest \in {Nothing, t}
  BY <1>1 DEF Flights, Holds
<1>3. PICK j \in DOMAIN History : t = History[j].files[v]
  BY <1>1 DEF Holds
<1>4. PICK i \in 1 .. published : e \in ToSet(EntriesAt(i))
  BY <1>2 DEF EntriesUpTo
<1>5. a \in Artifacts
  BY <1>2 DEF Artifacts
<1>6. a.version = t.version /\ a.chart = <<"chart", Content(t)>>
  BY DEF Build
<1>7. ASSUME VersionsAgree PROVE a.version = v /\ OutBy(published, a)
  <2>1. i \in DOMAIN History
    BY <1>4, Histories DEF ResolverInv, ClockInv
  <2>2. t # Nothing
    BY <1>2 DEF Tarballs
  <2> HIDE DEF a
  <2>3. History[j].files[e.version] = t
    BY <1>2, <1>3
  <2> HIDE DEF t, e
  <2>4. t.version \in {e.version, Nothing}
    BY <1>2, <1>3, <1>4, <1>7, <2>1, <2>2, <2>3 DEF VersionsAgree
  <2>5. a.version = v
    BY <1>2, <1>6, <2>4 DEF t
  <2>6. e.version = a.version
    BY <1>2, <2>5
  <2>7. e.digest = Nothing \/ a.chart = <<"chart", Content(e.digest)>>
    BY <1>2, <1>6
  <2>8. OutBy(published, a)
    BY <1>4, <2>6, <2>7 DEF OutBy
  <2> QED BY <2>5, <2>8
<1> QED BY <1>5, <1>7

LEMMA FlightBuildKeeps ==
    ASSUME ResolverInv, NEW v \in Versions, FlightBuild(v)
    PROVE  ResolverInv' /\ (VersionsAgree /\ AgreeInv => AgreeInv')
<1> DEFINE t == flight[v].chart
           a == Build(t, flight[v].prov)
<1>1. /\ v \in DOMAIN flight /\ flight[v].at = "build"
      /\ UNCHANGED <<published, served>> /\ served' \in 1 .. published
  BY DEF FlightBuild, Stage, ResolverInv, FlightsInv, ClockInv
<1>2. CASE t.version = Nothing
  <2>1. Land(v, Err("malformed")) /\ UNCHANGED found
    BY <1>2 DEF FlightBuild
  <2> QED BY <1>1, <2>1, LandFails
<1>3. CASE t.version # Nothing
  <2>1. AddToCache(a) /\ Land(v, Ok(a))
    BY <1>3 DEF FlightBuild
  <2>2. /\ a \in Artifacts
        /\ VersionsAgree => a.version = v /\ OutBy(published, a)
    BY <1>1, <1>3, Built
  <2> HIDE DEF a
  <2>3. Ok(a) \in Replies /\ Ok(a).art = a
    BY <2>2, ReplyKinds
  <2> DEFINE e == Entry(a)
  <2>4. e.name = Name /\ e.art = a
    BY DEF Entry
  <2>5. CASE UNCHANGED found
    BY <1>1, <2>1, <2>2, <2>3, <2>5, LandAsIs
  <2>6. CASE Cache!File(e)
    <3> HIDE DEF e
    <3>1. \A k \in DOMAIN found' :
             \/ k \in Cache!Ids(e) /\ found'[k] = e
             \/ k \in DOMAIN found /\ found'[k] = found[k]
      BY <2>6, FiledOrKept
    <3>2. FoundInv'
      BY <2>2, <2>4, <3>1 DEF ResolverInv, FoundInv
    <3>3. ASSUME VersionsAgree, AgreeInv
          PROVE  /\ Cache!FoundCarriesKey'
                 /\ \A k \in DOMAIN found' : OutBy(published, found'[k].art)
                 /\ \A w \in DOMAIN flight \ {v} :
                       VersionKey(w) \in DOMAIN found' => VersionKey(w) \in DOMAIN found
      <4>1. Cache!FoundCarriesKey'
        BY <3>1, <3>3 DEF AgreeInv, CachedInv, Cache!FoundCarriesKey
      <4>2. \A k \in DOMAIN found' : OutBy(published, found'[k].art)
        BY <2>2, <2>4, <3>1, <3>3 DEF AgreeInv, CachedInv
      <4>3. ASSUME NEW w \in DOMAIN flight \ {v}, VersionKey(w) \in DOMAIN found'
            PROVE  VersionKey(w) \in DOMAIN found
        <5>1. VersionKey(w) \notin Cache!Ids(e)
          BY <2>2, <2>4, <3>3, VersionKeys
        <5> QED BY <3>1, <4>3, <5>1
      <4> QED BY <4>1, <4>2, <4>3
    <3> QED BY <1>1, <2>1, <2>2, <2>3, <3>2, <3>3, LandKeeps
  <2> QED BY <2>1, <2>5, <2>6 DEF AddToCache
<1> QED BY <1>2, <1>3
-----------------------------------------------------------------------------
(* The world around the resolver, and the invariant. *)

\* What holds of a state of the upstream holds of later ones.
LEMMA PublishKeeps ==
    ASSUME ResolverInv, Publish
    PROVE  ResolverInv' /\ (AgreeInv => AgreeInv')
<1>1. /\ published \in DOMAIN History /\ published' \in DOMAIN History
      /\ published <= published' /\ served \in 1 .. published'
      /\ UNCHANGED <<served, found, flight, pc, call>>
  BY Histories DEF Publish, ResolverInv, ClockInv
<1>2. /\ EntriesUpTo(published) \subseteq EntriesUpTo(published')
      /\ \A a : OutBy(published, a) => OutBy(published', a)
  BY <1>1, LaterEntries
<1>3. ClockInv' /\ FoundInv' /\ CallersInv'
  BY <1>1 DEF ResolverInv, ClockInv, FoundInv, CallersInv, NobodyIsStranded
<1>4. FlightsInv'
  BY <1>1, <1>2 DEF ResolverInv, FlightsInv, Holds
<1>5. ASSUME AgreeInv PROVE AgreeInv'
  <2>1. CachedInv'
    BY <1>1, <1>2, <1>5
    DEF AgreeInv, CachedInv, Cache!FoundCarriesKey, NoDownloadWhileCached, Hit
  <2>2. AnswersInv'
    BY <1>1, <1>2, <1>5 DEF AgreeInv, AnswersInv, Right
  <2> QED BY <2>1, <2>2 DEF AgreeInv
<1> QED BY <1>3, <1>4, <1>5 DEF ResolverInv

\* Init and Restart: nothing is cached, under way or asked.
Fresh ==
    /\ published \in DOMAIN History /\ served = published
    /\ found = [k \in {} |-> k]
    /\ flight = [v \in {} |-> v]
    /\ pc = [c \in Callers |-> "idle"]
    /\ call = [c \in Callers |-> Idle]

LEMMA FreshIsFine == Fresh => ResolverInv /\ AgreeInv
<1> SUFFICES ASSUME Fresh PROVE ResolverInv /\ AgreeInv
  OBVIOUS
<1>1. ClockInv /\ FoundInv /\ FlightsInv
  BY Histories DEF Fresh, ClockInv, FoundInv, FlightsInv
<1>2. CallersInv
  BY IdleIsCall DEF Fresh, CallersInv, NobodyIsStranded, Places
<1>3. CachedInv /\ AnswersInv
  BY DEF Fresh, CachedInv, Cache!FoundCarriesKey, NoDownloadWhileCached,
         AnswersInv, Right
<1> QED BY <1>1, <1>2, <1>3 DEF ResolverInv, AgreeInv

LEMMA ResolverInit == Init => ResolverInv /\ AgreeInv
<1>1. Init => Fresh
  BY Histories DEF Init, Fresh
<1> QED BY <1>1, FreshIsFine

LEMMA RestartKeeps ==
    ASSUME ResolverInv, Restart PROVE ResolverInv' /\ AgreeInv'
<1>1. Fresh'
  BY DEF Restart, Fresh, ResolverInv, ClockInv
<1>2. Fresh' => (ResolverInv /\ AgreeInv)'
  BY FreshIsFine, PTL
<1> QED BY <1>1, <1>2

LEMMA CallerKeeps ==
    ASSUME ResolverInv, NEW c \in Callers,
           \/ \E r \in Requests : Request(c, r)
           \/ CallerStep(c) \/ Finish(c)
    PROVE  ResolverInv' /\ (AgreeInv => AgreeInv')
<1>1. served \in 1 .. published
  BY DEF ResolverInv, ClockInv
<1>2. CASE Join(c)
  BY <1>2, JoinKeeps
<1>3. ASSUME NEW rev \in served .. published, FindLayer(c, rev) \/ StartScan(c, rev)
      PROVE  ResolverInv' /\ (AgreeInv => AgreeInv')
  <2>1. Goes(c)
    BY <1>3, FindLayerGoes, StartScanGoes
  <2>2. UNCHANGED <<published, found, flight>> /\ served' = rev
    BY <1>3 DEF FindLayer, StartScan, ReadIndex
  <2>3. served' \in 1 .. published
    BY <2>2, ReadRevisions
  <2> QED BY <2>1, <2>2, <2>3, GoesKeeps
<1>4. CASE \/ \E r \in Requests : Request(c, r)
           \/ CacheGet(c) \/ IndexFails(c) \/ Lookup(c) \/ Resume(c) \/ Finish(c)
  <2>1. Goes(c)
    BY <1>4, RequestGoes, CacheGetGoes, IndexFailsGoes, LookupGoes, ResumeGoes,
       FinishGoes
  <2>2. UNCHANGED <<published, served, found, flight>>
    BY <1>4 DEF Request, CacheGet, IndexFails, Lookup, Resume, Finish
  <2> QED BY <1>1, <2>1, <2>2, GoesKeeps
<1> QED BY <1>2, <1>3, <1>4 DEF CallerStep

LEMMA FlightKeeps ==
    ASSUME ResolverInv, NEW v \in Versions, FlightStep(v)
    PROVE  ResolverInv' /\ (VersionsAgree /\ AgreeInv => AgreeInv')
<1>1. CASE FlightGet(v)
  BY <1>1, FlightGetKeeps
<1>2. CASE \E rev \in served .. published : FlightFind(v, rev)
  BY <1>2, FlightFindKeeps
<1>3. CASE FlightChart(v)
  BY <1>3, FlightChartKeeps
<1>4. CASE FlightProv(v)
  BY <1>4, FlightProvKeeps
<1>5. CASE FlightBuild(v)
  BY <1>5, FlightBuildKeeps
<1>6. CASE FlightFails(v)
  BY <1>6, FlightFailsKeeps
<1> QED BY <1>1, <1>2, <1>3, <1>4, <1>5, <1>6 DEF FlightStep

LEMMA ResolverStep ==
    ResolverInv /\ [Next]_vars => ResolverInv' /\ (VersionsAgree /\ AgreeInv => AgreeInv')
<1> SUFFICES ASSUME ResolverInv, [Next]_vars
             PROVE  ResolverInv' /\ (VersionsAgree /\ AgreeInv => AgreeInv')
  OBVIOUS
<1>1. CASE UNCHANGED vars
  <2>1. ResolverInv'
    BY <1>1
    DEF vars, ResolverInv, ClockInv, FoundInv, FlightsInv, CallersInv,
        NobodyIsStranded
  <2>2. AgreeInv => AgreeInv'
    BY <1>1
    DEF vars, AgreeInv, CachedInv, Cache!FoundCarriesKey, NoDownloadWhileCached,
        Hit, AnswersInv
  <2> QED BY <2>1, <2>2
<1>2. ASSUME NEW c \in Callers,
             \/ \E r \in Requests : Request(c, r)
             \/ CallerStep(c) \/ Finish(c)
      PROVE  ResolverInv' /\ (VersionsAgree /\ AgreeInv => AgreeInv')
  BY <1>2, CallerKeeps
<1>3. ASSUME NEW v \in Versions, FlightStep(v)
      PROVE  ResolverInv' /\ (VersionsAgree /\ AgreeInv => AgreeInv')
  BY <1>3, FlightKeeps
<1>4. CASE Publish
  BY <1>4, PublishKeeps
<1>5. CASE Restart
  BY <1>5, RestartKeeps
<1> QED BY <1>1, <1>2, <1>3, <1>4, <1>5 DEF Next

\* Callers, flights and the cache keep their bookkeeping, whatever the
\* upstream publishes and whenever the replica restarts.
THEOREM ResolverInvariant == Spec => []ResolverInv
<1>1. Init => ResolverInv
  BY ResolverInit
<1> QED BY <1>1, ResolverStep, PTL DEF Spec

\* While the versions of index and Chart.yaml agree, so do cache and answers.
THEOREM AgreementIsKept == VersionsAgree => (Spec => [](ResolverInv /\ AgreeInv))
<1> SUFFICES ASSUME VersionsAgree PROVE Spec => [](ResolverInv /\ AgreeInv)
  OBVIOUS
<1>1. Init => ResolverInv /\ AgreeInv
  BY ResolverInit
<1>2. ResolverInv /\ AgreeInv /\ [Next]_vars => (ResolverInv /\ AgreeInv)'
  BY ResolverStep
<1> QED BY <1>1, <1>2, PTL DEF Spec
-----------------------------------------------------------------------------
(* What it gives. *)

\* The state is of its type: what is cached and replied is an artifact built
\* from some tarball, or an error that ByVersion can end with.
THEOREM TypesAreKept == Spec => []TypeOK
<1>1. ResolverInv => TypeOK
  <2> SUFFICES ASSUME ResolverInv PROVE TypeOK
    OBVIOUS
  <2>1. \A v \in DOMAIN flight :
           /\ flight[v].at \in {"cache", "index", "chart", "prov", "build"}
           /\ flight[v].chart \in Tarballs \cup {Nothing}
           /\ flight[v].prov \in Provs
    BY DEF ResolverInv, FlightsInv, Flights
  <2>2. \A c \in Callers :
           /\ call[c].want \in Versions \cup {Nothing}
           /\ call[c].todo \in Seq(Versions)
           /\ call[c].reply \in Replies \cup {Nothing}
    BY DEF ResolverInv, CallersInv, Calls
  <2>3. /\ published \in DOMAIN History /\ served \in 1 .. published
        /\ \A k \in DOMAIN found :
              found[k].name = Name /\ found[k].art \in Artifacts
        /\ DOMAIN flight \subseteq Versions
    BY DEF ResolverInv, ClockInv, FoundInv, FlightsInv
  <2>4. pc \in [Callers -> {"idle", "cache", "layer", "scan", "resolve", "missed",
                            "waiting", "resumed", "done"}]
    BY DEF ResolverInv, CallersInv, Places
  <2> QED BY <2>1, <2>2, <2>3, <2>4 DEF TypeOK
<1> QED BY <1>1, ResolverInvariant, PTL

\* Whoever waits at r.sf.Do waits for a flight that is under way: landing a
\* flight and answering those in it is one event, and nothing else ends one.
THEOREM NobodyIsLeftWaiting == Spec => []NobodyIsStranded
<1>1. ResolverInv => NobodyIsStranded
  BY DEF ResolverInv, CallersInv
<1> QED BY <1>1, ResolverInvariant, PTL

\* The downloads that one request leads are bounded by the scan limit, through
\* the fast path of Blob, the scan for the blob and the one for its signature.
THEOREM ScansAreBounded == Spec => []WorkIsBounded
<1>1. ResolverInv => WorkIsBounded
  <2> SUFFICES ASSUME ResolverInv, NEW c \in Callers, pc[c] # "idle"
               PROVE  call[c].led <= Bound(call[c].req.op)
    BY DEF WorkIsBounded, Bound
  <2> DEFINE q == call[c]
             b == Bound(q.req.op)
  <2>1. /\ pc[c] \in Places /\ Affords(pc[c], q) /\ q.led \in Nat
        /\ Len(q.todo) \in Nat /\ b \in Nat \ {0} /\ ScanLimit \in Nat
    BY CallFields, Bounds DEF ResolverInv, CallersInv
  <2>2. \/ q.led <= 1 \/ q.led + ScanLimit <= b \/ q.led + 1 + Len(q.todo) <= b
        \/ q.led + Len(q.todo) <= b \/ q.led <= b
    BY <2>1 DEF Affords, Places
  <2> HIDE DEF b, q
  <2>3. q.led <= b
    BY <2>1, <2>2
  <2> QED BY <2>3 DEF b, q
<1> QED BY <1>1, ResolverInvariant, PTL

\* A tag is answered with its version and a digest with its content, by
\* whichever key or candidate the answer was found, when the versions agree.
THEOREM AnswersAreRight == VersionsAgree => (Spec => []AnswersMatch)
<1> SUFFICES ASSUME VersionsAgree PROVE Spec => []AnswersMatch
  OBVIOUS
<1>1. AgreeInv => AnswersMatch
  BY DEF AgreeInv, AnswersInv, Right, AnswersMatch, Answered, Replied
<1>2. Spec => [](ResolverInv /\ AgreeInv)
  BY AgreementIsKept
<1> QED BY <1>1, <1>2, PTL

\* Whatever is cached or answered was published, however index reads, downloads
\* and publications interleave, when the versions agree.
THEOREM NothingElseIsServed == VersionsAgree => (Spec => []OnlyPublishedIsServed)
<1> SUFFICES ASSUME VersionsAgree PROVE Spec => []OnlyPublishedIsServed
  OBVIOUS
<1>1. \A a : OutBy(published, a) => WasPublished(a)
  BY DEF OutBy, WasPublished
<1>2. AgreeInv => OnlyPublishedIsServed
  BY <1>1 DEF AgreeInv, CachedInv, AnswersInv, Right, OnlyPublishedIsServed,
              Answered, Replied
<1>3. Spec => [](ResolverInv /\ AgreeInv)
  BY AgreementIsKept
<1> QED BY <1>2, <1>3, PTL

\* A flight that goes to the upstream for a version finds it absent from the
\* cache until it lands: the second look of fetchAndBuild closes the window
\* between a caller's lookup and its joining a flight.
THEOREM DownloadsAreMisses == VersionsAgree => (Spec => []NoDownloadWhileCached)
<1> SUFFICES ASSUME VersionsAgree PROVE Spec => []NoDownloadWhileCached
  OBVIOUS
<1>1. AgreeInv => NoDownloadWhileCached
  BY DEF AgreeInv, CachedInv
<1>2. Spec => [](ResolverInv /\ AgreeInv)
  BY AgreementIsKept
<1> QED BY <1>1, <1>2, PTL
-----------------------------------------------------------------------------
(* An upstream that stays as it is: what is cached makes no difference. *)

Listed == ToSet(EntriesAt(1))

\* The tarball of the entry is there and is what its digest says.
Sound(e) ==
    LET t == History[1].files[e.version] IN t # Nothing /\ e.digest \in {Nothing, t}

\* Nothing is published any more.  The index is no longer than the scan limit:
\* beyond it the cache answers what no scan reaches.  By a usable URL it lists a
\* version once, so that the entry that is found is the only one; and the digest
\* of an entry is of a tarball of its version, as is the tarball that is there,
\* unless the digest refuses it.  Repositories indexed by Helm are like that;
\* if one is not, the cache may hide a defect that ends the scan of a cold
\* replica (DefectsAreContained).
Steady ==
    /\ Len(History) = 1 /\ Len(EntriesAt(1)) <= ScanLimit
    /\ Nothing \notin Versions
    /\ \A i, j \in DOMAIN EntriesAt(1) :
          EntriesAt(1)[i].version = EntriesAt(1)[j].version => i = j
    /\ \A e \in Listed :
          /\ e.url
          /\ e.digest # Nothing => e.digest.version = e.version
          /\ Sound(e) => History[1].files[e.version].version = e.version

\* What can be derived from it.
ProvOf(v) == IF Provenance THEN History[1].provs[v] ELSE Nothing
From(e) == Build(History[1].files[e.version], ProvOf(e.version))
Derivables == {From(e) : e \in {x \in Listed : Sound(x)}}

\* No artifact that can be derived answers the request.
Hopeless(req) ==
    \A a \in Derivables :
        /\ req.op = "tag" => a.version # req.arg
        /\ req.op # "tag" => ~Matches(req, a)
        /\ req.op = "sigblob" => req.arg \notin Cache!BlobDigests(a)

\* ByVersion returns what can be derived of the version, if anything, and of
\* a version that is listed it fails in a way that scan passes over.
Outcome(v, r) ==
    /\ r.err = "none" => r.art \in Derivables /\ r.art.version = v
    /\ r.err \notin {"none", "fault"} => \A a \in Derivables : a.version # v
    /\ v \in {e.version : e \in Listed} => r.err \in {"none", "fault"} \cup Skippable

\* Without signing no signature is ever resolved.
Signed(req) == req.op = "signature" => Signing

\* The blobs of signatures are tried when no blob matches; a scan has passed
\* by only what does not match; the fast path wants the version of a digest.
Trying(req) ==
    /\ Signed(req)
    /\ req.op = "sigblob" =>
          \A a \in Derivables : req.arg \notin Cache!BlobDigests(a)

Ahead(q) == {q.want} \cup ToSet(q.todo)

Seeking(q) ==
    /\ q.cont = "scan" =>
          /\ Ahead(q) \subseteq {e.version : e \in Listed}
          /\ \A a \in Derivables : Matches(q.req, a) => a.version \in Ahead(q)
    /\ q.cont = "layer" =>
          \E e \in Listed : /\ e.version = q.want /\ e.digest # Nothing
                            /\ q.req.arg = <<"chart", e.digest>>

Ended(q) ==
    /\ q.reply.err = "none" => q.reply.art \in Derivables /\ Signed(q.req)
    /\ q.reply.err \notin {"none", "fault"} => Hopeless(q.req) \/ ~Signed(q.req)

Fares(l, q) ==
    /\ l \notin {"idle", "done"} => Trying(q.req)
    /\ l \in {"resolve", "missed", "waiting", "resumed"} => Seeking(q)
    /\ l = "resumed" => Outcome(q.want, q.reply)
    /\ l = "done" => Ended(q)

\* What a flight has brought so far.
Carries(v, f) ==
    /\ f.at \in {"chart", "prov", "build"} =>
          f.entry \in Listed /\ f.entry.version = v
    /\ f.at \in {"prov", "build"} =>
          f.chart = History[1].files[v] /\ Sound(f.entry)
    /\ f.at = "prov" => Provenance
    /\ f.at # "build" => f.prov = Nothing
    /\ f.at = "build" => f.prov = ProvOf(v)

SteadyInv ==
    /\ \A k \in DOMAIN found : found[k].art \in Derivables
    /\ \A v \in DOMAIN flight : Carries(v, flight[v])
    /\ \A c \in Callers : Fares(pc[c], call[c])

LEMMA SteadyIndex ==
    ASSUME Steady
    PROVE  /\ DOMAIN History = {1}
           /\ \A e \in Listed : e.version \in Versions /\ e.version # Nothing
           /\ \A d, e \in Listed : d.version = e.version => d = e
<1>1. DOMAIN History = {1}
  BY Histories DEF Steady
<1>2. \A e \in Listed : \E i \in DOMAIN EntriesAt(1) : e = EntriesAt(1)[i]
  BY DEF Listed, ToSet
<1>3. \A e \in Listed : e.version \in Versions
  BY <1>1, <1>2, Indices
<1>4. \A d, e \in Listed : d.version = e.version => d = e
  BY <1>2 DEF Steady
<1> QED BY <1>1, <1>3, <1>4 DEF Steady

LEMMA SteadyAgrees == Steady => VersionsAgree
<1> SUFFICES ASSUME Steady, NEW e \in Listed,
                    NEW t, t = History[1].files[e.version],
                    t # Nothing, e.digest \in {Nothing, t}
             PROVE  t.version = e.version
  BY SteadyIndex DEF VersionsAgree, Listed
<1>1. Sound(e)
  BY DEF Sound
<1> QED BY <1>1 DEF Steady

LEMMA SteadyClock ==
    ASSUME Steady, ResolverInv
    PROVE  published = 1 /\ served = 1 /\ \A rev \in served .. published : rev = 1
<1>1. published = 1
  BY SteadyIndex DEF ResolverInv, ClockInv
<1>2. served = 1
  BY <1>1 DEF ResolverInv, ClockInv
<1> QED BY <1>1, <1>2

\* One artifact can be derived of a version, and its own version is that.
LEMMA DerivedFrom ==
    ASSUME Steady, NEW a \in Derivables
    PROVE  /\ \E e \in Listed : Sound(e) /\ a = From(e) /\ a.version = e.version
           /\ \A b \in Derivables : b.version = a.version => b = a
<1>1. \A b \in Derivables :
         \E e \in Listed : Sound(e) /\ b = From(e) /\ b.version = e.version
  <2> TAKE b \in Derivables
  <2>1. PICK e \in Listed : Sound(e) /\ b = From(e)
    BY DEF Derivables
  <2>2. From(e).version = History[1].files[e.version].version
    BY DEF From, Build
  <2> QED BY <2>1, <2>2 DEF Steady
<1>2. ASSUME NEW b \in Derivables, b.version = a.version PROVE b = a
  <2>1. PICK d \in Listed : Sound(d) /\ b = From(d) /\ b.version = d.version
    BY <1>1
  <2>2. PICK e \in Listed : Sound(e) /\ a = From(e) /\ a.version = e.version
    BY <1>1
  <2>3. d = e
    BY <1>2, <2>1, <2>2, SteadyIndex
  <2> QED BY <2>1, <2>2, <2>3
<1> QED BY <1>1, <1>2

\* Serving rewritten tarballs does not change their versions.
LEMMA ContentVersion ==
    ASSUME NEW t \in Tarballs PROVE Content(t).version = t.version
<1>1. t = [id |-> t.id, version |-> t.version, deps |-> t.deps]
  BY TarballsAssumption
<1>2. [[id |-> t.id, version |-> t.version, deps |-> t.deps]
          EXCEPT !.deps = FALSE].version = t.version
  OBVIOUS
<1> QED BY <1>1, <1>2 DEF Content

\* A layer that is a chart is a layer of its version only.
LEMMA LayerVersion ==
    ASSUME Steady, NEW a \in Derivables, NEW e \in Listed, e.digest # Nothing,
           <<"chart", e.digest>> \in Cache!BlobDigests(a)
    PROVE  a.version = e.version
<1>1. PICK d \in Listed : Sound(d) /\ a = From(d) /\ a.version = d.version
  BY DerivedFrom
<1> DEFINE t == History[1].files[d.version]
           p == ProvOf(d.version)
<1>2. t \in Tarballs /\ t.version = a.version
  <2>1. t # Nothing /\ t \in Tarballs \cup {Nothing}
    BY <1>1, SteadyIndex, Contents DEF Sound
  <2>2. t.version = d.version
    BY <1>1 DEF Steady
  <2> QED BY <1>1, <2>1, <2>2
<1> HIDE DEF t, p
<1>3. a = Build(t, p)
  BY <1>1 DEF From, t, p
<1>4. /\ a.config = <<"config", Content(t)>> /\ a.chart = <<"chart", Content(t)>>
      /\ a.prov \in {Nothing, <<"prov", p>>}
  BY <1>3 DEF Build
<1>5. \A x \in Cache!BlobDigests(a) :
         x \in {a.config, a.chart} \/ (a.prov # Nothing /\ x = a.prov)
  BY DEF Cache!BlobDigests
<1>6. <<"chart", e.digest>> = <<"chart", Content(t)>>
  <2>1. <<"chart", e.digest>> # <<"config", Content(t)>>
    OBVIOUS
  <2>2. <<"chart", e.digest>> # <<"prov", p>>
    OBVIOUS
  <2> QED BY <1>4, <1>5, <2>1, <2>2
<1>7. e.digest = Content(t)
  BY <1>6
<1>8. e.digest.version = e.version
  BY DEF Steady
<1> QED BY <1>2, <1>7, <1>8, ContentVersion
-----------------------------------------------------------------------------
(* What the callers are told by it. *)

\* A step of one caller that keeps it on its way.
FaresOn(c) ==
    \E l \in Places, q \in Calls : Moved(c, l, q) /\ Fares(l, q)

LEMMA CallerFares ==
    ASSUME ResolverInv, SteadyInv, NEW c \in Callers, FaresOn(c),
           UNCHANGED <<found, flight>>
    PROVE  SteadyInv'
<1>1. PICK l \in Places, q \in Calls : Moved(c, l, q) /\ Fares(l, q)
  BY DEF FaresOn
<1>2. pc \in [Callers -> Places] /\ call \in [Callers -> Calls]
  BY DEF ResolverInv, CallersInv
<1>3. /\ pc'[c] = l /\ call'[c] = q
      /\ \A d \in Callers \ {c} : pc'[d] = pc[d] /\ call'[d] = call[d]
  BY <1>1, <1>2 DEF Moved
<1>4. \A d \in Callers : Fares(pc'[d], call'[d])
  BY <1>1, <1>3 DEF SteadyInv
<1> QED BY <1>4 DEF SteadyInv

\* A call that ends.
LEMMA DoneFares ==
    ASSUME ResolverInv, SteadyInv, NEW c \in Callers, NEW reply \in Replies,
           Done(c, reply), pc[c] \notin {"idle", "done"},
           reply.err = "none" => reply.art \in Derivables,
           reply.err \notin {"none", "fault"} => Hopeless(call[c].req)
    PROVE  FaresOn(c)
<1> DEFINE p == [call[c] EXCEPT !.reply = reply]
<1>1. CallersInv /\ call[c] \in Calls /\ Trying(call[c].req)
  BY DEF ResolverInv, CallersInv, SteadyInv, Fares
<1>2. p \in Calls /\ p.reply = reply /\ p.req = call[c].req
  BY <1>1, WithReply
<1>3. Moved(c, "done", p)
  BY <1>1, DoneMoves
<1> HIDE DEF p
<1>4. Fares("done", p)
  BY <1>1, <1>2 DEF Fares, Ended, Trying
<1> QED BY <1>2, <1>3, <1>4 DEF FaresOn, Places

\* A call that turns to a version.
LEMMA ResolveFares ==
    ASSUME ResolverInv, SteadyInv, NEW c \in Callers, NEW v \in Versions,
           NEW cont \in {"layer", "scan"}, NEW todo \in Seq(Versions),
           Resolve(c, v, cont, todo), pc[c] \notin {"idle", "done"},
           IF cont = "layer"
           THEN \E e \in Listed : /\ e.version = v /\ e.digest # Nothing
                                  /\ call[c].req.arg = <<"chart", e.digest>>
           ELSE /\ {v} \cup ToSet(todo) \subseteq {e.version : e \in Listed}
                /\ \A a \in Derivables :
                      Matches(call[c].req, a) => a.version \in {v} \cup ToSet(todo)
    PROVE  FaresOn(c)
<1> DEFINE p == [call[c] EXCEPT !.want = v, !.cont = cont, !.todo = todo]
<1>1. CallersInv /\ call[c] \in Calls /\ Trying(call[c].req)
  BY DEF ResolverInv, CallersInv, SteadyInv, Fares
<1>2. /\ p \in Calls /\ p.want = v /\ p.cont = cont /\ p.todo = todo
      /\ p.req = call[c].req
  BY <1>1 DEF Calls
<1>3. Moved(c, "resolve", p)
  BY <1>1, ResolveMoves
<1> HIDE DEF p
<1>4. Seeking(p)
  BY <1>2 DEF Seeking, Ahead
<1>5. Fares("resolve", p)
  BY <1>1, <1>2, <1>4 DEF Fares
<1> QED BY <1>2, <1>3, <1>5 DEF FaresOn, Places

\* A call that goes on as it is.
LEMMA GotoFares ==
    ASSUME ResolverInv, SteadyInv, NEW c \in Callers,
           NEW l \in {"layer", "scan", "missed"}, Goto(c, l), UNCHANGED call,
           pc[c] \notin {"idle", "done"}, l = "missed" => Seeking(call[c])
    PROVE  FaresOn(c)
<1>1. CallersInv /\ call[c] \in Calls /\ Trying(call[c].req)
  BY DEF ResolverInv, CallersInv, SteadyInv, Fares
<1>2. Moved(c, l, call[c])
  BY <1>1, GotoMoves
<1>3. Fares(l, call[c])
  BY <1>1 DEF Fares
<1> QED BY <1>1, <1>2, <1>3 DEF FaresOn, Places

LEMMA RequestFares ==
    ASSUME ResolverInv, NEW c \in Callers, NEW r \in Requests, Request(c, r)
    PROVE  FaresOn(c)
<1> DEFINE started == [Idle EXCEPT !.req = r, !.since = served]
<1>1. /\ r \in Reqs /\ r.op # "sigblob"
      /\ r.op = "tag" => r.arg \in Versions
  BY RequestsAssumption DEF Reqs, Versions
<1>2. served \in Int
  BY Histories DEF ResolverInv, ClockInv
<1>3. << >> \in Seq(Versions)
  OBVIOUS
<1>4. ~ (r.op = "signature" /\ ~Signing) => Trying(r)
  BY <1>1 DEF Trying, Signed
<1>5. CASE r.op = "tag"
  <2> DEFINE q == [started EXCEPT !.want = r.arg, !.cont = "tag"]
  <2>1. q.req = r /\ q.cont = "tag" /\ q \in Calls
    BY <1>1, <1>2, <1>3, <1>5 DEF Idle, Calls
  <2>2. Moved(c, "resolve", q)
    BY <1>5 DEF Request, Goto, Moved
  <2> HIDE DEF q
  <2>3. Fares("resolve", q)
    BY <1>4, <1>5, <2>1 DEF Fares, Seeking
  <2> QED BY <2>1, <2>2, <2>3 DEF FaresOn, Places
<1>6. CASE r.op = "signature" /\ ~Signing
  <2> DEFINE q == [started EXCEPT !.reply = Err("versionUnknown")]
  <2>1. Err("versionUnknown") \in Replies /\ Err("versionUnknown").err # "none"
    BY ReplyKinds
  <2>2. q.req = r /\ q.reply = Err("versionUnknown") /\ q \in Calls
    BY <1>1, <1>2, <1>3, <2>1 DEF Idle, Calls
  <2>3. Moved(c, "done", q)
    BY <1>6 DEF Request, Goto, Moved
  <2> HIDE DEF q
  <2>4. Fares("done", q)
    BY <1>6, <2>1, <2>2 DEF Fares, Ended, Signed
  <2> QED BY <2>2, <2>3, <2>4 DEF FaresOn, Places
<1>7. CASE r.op # "tag" /\ ~ (r.op = "signature" /\ ~Signing)
  <2>1. started.req = r /\ started \in Calls
    BY <1>1, <1>2, <1>3 DEF Idle, Calls
  <2>2. Moved(c, "cache", started)
    BY <1>7 DEF Request, Goto, Moved
  <2> HIDE DEF started
  <2>3. Fares("cache", started)
    BY <1>4, <1>7, <2>1 DEF Fares
  <2> QED BY <2>1, <2>2, <2>3 DEF FaresOn, Places
<1> QED BY <1>5, <1>6, <1>7

LEMMA CacheGetFares ==
    ASSUME ResolverInv, SteadyInv, NEW c \in Callers, CacheGet(c)
    PROVE  FaresOn(c)
<1> DEFINE req == call[c].req
           k == DigestKey(req.arg)
<1>1. pc[c] = "cache"
  BY DEF CacheGet
<1>2. CASE Hit(k) /\ Matches(req, found[k].art)
  <2>1. Done(c, Ok(found[k].art))
    BY <1>2 DEF CacheGet
  <2>2. found[k].art \in Derivables
    BY <1>2 DEF SteadyInv, Hit
  <2> QED BY <1>1, <1>2, <2>1, <2>2, HitIsReply, DoneFares
<1>3. CASE ~ (Hit(k) /\ Matches(req, found[k].art))
  <2>1. Goto(c, IF req.op = "blob" THEN "layer" ELSE "scan") /\ UNCHANGED call
    BY <1>3 DEF CacheGet
  <2>2. CASE req.op = "blob"
    BY <1>1, <2>1, <2>2, GotoFares
  <2>3. CASE req.op # "blob"
    BY <1>1, <2>1, <2>3, GotoFares
  <2> QED BY <2>2, <2>3
<1> QED BY <1>2, <1>3

\* Of an index that is absent or empty nothing can be derived.
LEMMA NothingListed ==
    ASSUME EntriesAt(1) = << >> PROVE Listed = {} /\ Derivables = {}
BY DEF Listed, Derivables, ToSet

LEMMA IndexFailsFares ==
    ASSUME Steady, ResolverInv, SteadyInv, NEW c \in Callers, IndexFails(c)
    PROVE  FaresOn(c)
<1>1. pc[c] \in {"layer", "scan"}
  BY DEF IndexFails
<1>2. PICK e \in IndexErrors : Done(c, Err(e))
  BY DEF IndexFails
<1>3. e \in {"notFound", "fault"} /\ (e = "notFound" => EntriesAt(1) = << >>)
  BY SteadyClock DEF IndexErrors, EntriesAt
<1>4. Err(e) \in Replies /\ Err(e).err = e
  BY <1>3, ReplyKinds DEF Err
<1>5. e # "fault" => Hopeless(call[c].req)
  BY <1>3, NothingListed DEF Hopeless
<1> QED BY <1>1, <1>2, <1>3, <1>4, <1>5, DoneFares

LEMMA FindLayerFares ==
    ASSUME Steady, ResolverInv, SteadyInv, NEW c \in Callers, FindLayer(c, 1)
    PROVE  FaresOn(c)
<1> DEFINE entries == EntriesAt(1)
           at == {i \in DOMAIN entries :
                    /\ entries[i].digest # Nothing
                    /\ call[c].req.arg = <<"chart", entries[i].digest>>}
<1>1. pc[c] = "layer" /\ 1 \in DOMAIN History
  BY SteadyIndex DEF FindLayer
<1>2. CASE entries = << >>
  <2>1. Done(c, Err("chartUnknown"))
    BY <1>2 DEF FindLayer
  <2>2. Err("chartUnknown") \in Replies /\ Err("chartUnknown").err # "none"
    BY ReplyKinds
  <2>3. Hopeless(call[c].req)
    BY <1>2, NothingListed DEF Hopeless
  <2> QED BY <1>1, <2>1, <2>2, <2>3, DoneFares
<1>3. CASE entries # << >> /\ at # {}
  <2>1. Resolve(c, First(entries, at).version, "layer", << >>)
    BY <1>3 DEF FindLayer
  <2>2. at \in SUBSET Nat
    BY <1>1, Indices
  <2>3. PICK i \in at : First(entries, at) = entries[i]
    BY <1>3, <2>2, FirstIsOne
  <2>4. entries[i] \in Listed /\ entries[i].version \in Versions
    BY <1>1, <2>3, Indices DEF Listed
  <2>5. << >> \in Seq(Versions)
    OBVIOUS
  <2> HIDE DEF at
  <2>6. entries[i].digest # Nothing /\ call[c].req.arg = <<"chart", entries[i].digest>>
    BY <2>3 DEF at
  <2> HIDE DEF entries
  <2> QED BY <1>1, <2>1, <2>3, <2>4, <2>5, <2>6, ResolveFares
<1>4. CASE entries # << >> /\ at = {}
  <2>1. Goto(c, "scan") /\ UNCHANGED call
    BY <1>4 DEF FindLayer
  <2> QED BY <1>1, <2>1, GotoFares
<1> QED BY <1>2, <1>3, <1>4

\* The head and the tail of a sequence have all that is in it.
LEMMA HeadAndTail ==
    ASSUME NEW S, NEW s \in Seq(S), s # << >>
    PROVE  /\ {Head(s)} \cup ToSet(Tail(s)) = ToSet(s)
           /\ Head(s) \in S /\ Tail(s) \in Seq(S)
<1>1. /\ Len(s) \in Nat \ {0} /\ DOMAIN s = 1 .. Len(s) /\ Head(s) = s[1]
      /\ Head(s) \in S /\ Tail(s) \in Seq(S)
  OBVIOUS
<1>2. /\ DOMAIN Tail(s) = 1 .. Len(s) - 1
      /\ \A i \in 1 .. Len(s) - 1 : Tail(s)[i] = s[i + 1]
  OBVIOUS
<1>3. ASSUME NEW x \in ToSet(s) PROVE x \in {Head(s)} \cup ToSet(Tail(s))
  <2>1. PICK i \in 1 .. Len(s) : x = s[i]
    BY <1>1 DEF ToSet
  <2>2. CASE i = 1
    BY <1>1, <2>1, <2>2
  <2>3. CASE i # 1
    <3>1. i - 1 \in 1 .. Len(s) - 1 /\ (i - 1) + 1 = i
      BY <1>1, <2>3
    <3>2. x = Tail(s)[i - 1] /\ i - 1 \in DOMAIN Tail(s)
      BY <1>2, <2>1, <3>1
    <3> QED BY <3>2 DEF ToSet
  <2> QED BY <2>2, <2>3
<1>4. Head(s) \in ToSet(s)
  BY <1>1 DEF ToSet
<1>5. ASSUME NEW x \in ToSet(Tail(s)) PROVE x \in ToSet(s)
  <2>1. PICK i \in 1 .. Len(s) - 1 : x = Tail(s)[i]
    BY <1>2 DEF ToSet
  <2>2. i + 1 \in DOMAIN s
    BY <1>1
  <2>3. x = s[i + 1]
    BY <1>2, <2>1
  <2> QED BY <2>2, <2>3 DEF ToSet
<1> QED BY <1>1, <1>3, <1>4, <1>5

\* All versions of the index are candidates.
LEMMA AllAreCandidates ==
    ASSUME Steady
    PROVE  /\ Len(Candidates(EntriesAt(1))) = Len(EntriesAt(1))
           /\ ToSet(Candidates(EntriesAt(1))) = {e.version : e \in Listed}
<1> DEFINE s == EntriesAt(1)
           n == IF Len(s) < ScanLimit THEN Len(s) ELSE ScanLimit
<1>1. Len(s) \in Nat /\ DOMAIN s = 1 .. Len(s)
  BY SteadyIndex, Indices
<1>2. n = Len(s)
  BY <1>1, ScanLimitAssumption DEF Steady
<1>3. Candidates(s) = [j \in 1 .. n |-> s[j].version]
  BY DEF Candidates
<1> HIDE DEF n, s
<1>4. Candidates(s) = [j \in 1 .. Len(s) |-> s[j].version]
  BY <1>2, <1>3
<1>5. Len(Candidates(s)) = Len(s)
  BY <1>1, <1>4
<1>6. ToSet(Candidates(s)) = {e.version : e \in ToSet(s)}
  BY <1>1, <1>4 DEF ToSet
<1> QED BY <1>5, <1>6 DEF s, Listed

LEMMA StartScanFares ==
    ASSUME Steady, ResolverInv, SteadyInv, NEW c \in Callers, StartScan(c, 1)
    PROVE  FaresOn(c)
<1> DEFINE entries == EntriesAt(1)
           todo == Candidates(entries)
<1>1. pc[c] = "scan" /\ 1 \in DOMAIN History
  BY SteadyIndex DEF StartScan
<1>2. CASE entries = << >>
  <2>1. Done(c, Err("chartUnknown"))
    BY <1>2 DEF StartScan
  <2>2. Err("chartUnknown") \in Replies /\ Err("chartUnknown").err # "none"
    BY ReplyKinds
  <2>3. Hopeless(call[c].req)
    BY <1>2, NothingListed DEF Hopeless
  <2> QED BY <1>1, <2>1, <2>2, <2>3, DoneFares
<1>3. CASE entries # << >>
  <2>1. Resolve(c, Head(todo), "scan", Tail(todo))
    BY <1>3 DEF StartScan
  <2>2. todo \in Seq(Versions) /\ Len(todo) \in 1 .. ScanLimit
    BY <1>1, <1>3, CandidatesAreVersions
  <2>3. ToSet(todo) = {e.version : e \in Listed}
    BY AllAreCandidates
  <2> HIDE DEF todo
  <2>4. todo # << >>
    BY <2>2, ScanLimitAssumption
  <2>5. /\ {Head(todo)} \cup ToSet(Tail(todo)) = ToSet(todo)
        /\ Head(todo) \in Versions /\ Tail(todo) \in Seq(Versions)
    BY <2>2, <2>4, HeadAndTail
  <2>6. \A a \in Derivables : a.version \in {e.version : e \in Listed}
    BY DerivedFrom
  <2> QED BY <1>1, <2>1, <2>3, <2>5, <2>6, ResolveFares
<1> QED BY <1>2, <1>3

LEMMA LookupFares ==
    ASSUME ResolverInv, AgreeInv, SteadyInv, NEW c \in Callers, Lookup(c)
    PROVE  FaresOn(c)
<1> DEFINE v == call[c].want
           k == VersionKey(v)
<1>1. /\ CallersInv /\ pc[c] = "resolve" /\ call[c] \in Calls
      /\ Fares("resolve", call[c])
  BY DEF ResolverInv, CallersInv, Lookup, SteadyInv
<1>2. CASE Hit(k)
  <2> DEFINE a == found[k].art
             p == [call[c] EXCEPT !.reply = Ok(a)]
  <2>1. Ok(a) \in Replies /\ Ok(a).err = "none" /\ Ok(a).art = a
    BY <1>2, HitIsReply
  <2>2. a \in Derivables
    BY <1>2 DEF SteadyInv, Hit
  <2>3. a.version = v
    <3>1. k \in Cache!Ids(found[k])
      BY <1>2 DEF AgreeInv, CachedInv, Cache!FoundCarriesKey, Hit
    <3> QED BY <3>1, VersionKeys
  <2>4. /\ p \in Calls /\ p.reply = Ok(a) /\ p.req = call[c].req
        /\ p.want = v /\ p.cont = call[c].cont /\ p.todo = call[c].todo
    BY <1>1, <2>1, WithReply
  <2>5. Moved(c, "resumed", p)
    BY <1>1, <1>2 DEF Lookup, Goto, Moved
  <2> HIDE DEF p, a
  <2>6. Trying(p.req) /\ Seeking(p)
    BY <1>1, <2>4 DEF Fares, Seeking, Ahead
  <2>7. Outcome(v, p.reply)
    BY <2>1, <2>2, <2>3, <2>4 DEF Outcome
  <2>8. Fares("resumed", p)
    BY <2>4, <2>6, <2>7 DEF Fares
  <2> QED BY <2>4, <2>5, <2>8 DEF FaresOn, Places
<1>3. CASE ~Hit(k)
  <2>1. Goto(c, "missed") /\ UNCHANGED call
    BY <1>3 DEF Lookup
  <2>2. Seeking(call[c])
    BY <1>1 DEF Fares
  <2> QED BY <1>1, <2>1, <2>2, GotoFares
<1> QED BY <1>2, <1>3

\* No candidate is left, and none that there was matches.
LEMMA NoMatchFares ==
    ASSUME ResolverInv, SteadyInv, NEW c \in Callers, NoMatch(c),
           pc[c] = "resumed", call[c].req \in Reqs, call[c].req.op # "tag",
           \A a \in Derivables : ~Matches(call[c].req, a)
    PROVE  FaresOn(c)
<1> DEFINE req == call[c].req
<1>1. call[c] \in Calls /\ CallersInv /\ Trying(req)
  BY DEF ResolverInv, CallersInv, SteadyInv, Fares
<1>2. CASE req.op = "blob" /\ Signing
  <2> DEFINE sig == [req EXCEPT !.op = "sigblob"]
             p == [call[c] EXCEPT !.req = sig]
  <2>1. sig \in Reqs /\ sig.op = "sigblob" /\ sig.arg = req.arg
    BY DEF Reqs
  <2>2. Moved(c, "scan", p)
    <3>1. call' = [call EXCEPT ![c].req.op = "sigblob"] /\ Goto(c, "scan")
      BY <1>2 DEF NoMatch
    <3>2. p = [call[c] EXCEPT !.req.op = "sigblob"]
      OBVIOUS
    <3> HIDE DEF p
    <3>3. call' = [call EXCEPT ![c] = p]
      BY <3>1, <3>2
    <3> QED BY <3>1, <3>3 DEF Moved, Goto
  <2> HIDE DEF sig
  <2>3. p \in Calls /\ p.req = sig
    BY <1>1, <2>1 DEF Calls
  <2> HIDE DEF p
  <2>4. \A a \in Derivables : req.arg \notin Cache!BlobDigests(a)
    BY <1>2 DEF Matches
  <2>5. Trying(sig)
    BY <2>1, <2>4 DEF Trying, Signed
  <2>6. Fares("scan", p)
    BY <2>3, <2>5 DEF Fares
  <2> QED BY <2>2, <2>3, <2>6 DEF FaresOn, Places
<1>3. CASE ~ (req.op = "blob" /\ Signing)
  <2>1. PICK e \in {"blobUnknown", "versionUnknown"} : Done(c, Err(e))
    BY <1>3 DEF NoMatch
  <2>2. Err(e) \in Replies /\ Err(e).err # "none"
    BY ReplyKinds
  <2>3. Hopeless(req)
    BY <1>1 DEF Hopeless, Trying
  <2> QED BY <2>1, <2>2, <2>3, DoneFares
<1> QED BY <1>2, <1>3

LEMMA ResumeFares ==
    ASSUME Steady, ResolverInv, SteadyInv, NEW c \in Callers, Resume(c)
    PROVE  FaresOn(c)
<1> DEFINE req == call[c].req
           reply == call[c].reply
           good == reply.err = "none"
           todo == call[c].todo
           want == call[c].want
<1>1. /\ pc[c] = "resumed" /\ call[c] \in Calls
      /\ Stands("resumed", call[c]) /\ Fares("resumed", call[c])
  BY DEF ResolverInv, CallersInv, Resume, SteadyInv
<1>2. /\ todo \in Seq(Versions) /\ req \in Reqs /\ reply \in Replies
      /\ Trying(req) /\ Seeking(call[c]) /\ Outcome(want, reply)
  BY <1>1, CallFields DEF Stands, Fares
<1>3. good => reply.art \in Derivables /\ reply.art.version = want
  BY <1>2 DEF Outcome
<1>4. reply.err \notin {"none", "fault"} =>
         \A a \in Derivables : a.version # want
  BY <1>2 DEF Outcome
<1>5. CASE call[c].cont = "tag"
  <2>1. req.op = "tag" /\ want = req.arg
    BY <1>1, <1>5 DEF Stands
  <2>2. Done(c, reply)
    BY <1>5 DEF Resume
  <2>3. reply.err \notin {"none", "fault"} => Hopeless(req)
    BY <1>4, <2>1 DEF Hopeless
  <2> QED BY <1>1, <1>2, <1>3, <2>2, <2>3, DoneFares
<1>6. CASE call[c].cont = "layer"
  <2>1. req.op = "blob"
    BY <1>1, <1>6 DEF Stands
  <2>2. CASE ~good \/ Matches(req, reply.art)
    <3>1. Done(c, reply)
      BY <1>6, <2>2 DEF Resume
    <3>2. PICK e \in Listed : /\ e.version = want /\ e.digest # Nothing
                              /\ req.arg = <<"chart", e.digest>>
      BY <1>2, <1>6 DEF Seeking
    <3>3. ASSUME NEW a \in Derivables, Matches(req, a) PROVE a.version = want
      <4>1. req.arg \in Cache!BlobDigests(a)
        BY <2>1, <3>3 DEF Matches
      <4> QED BY <3>2, <4>1, LayerVersion
    <3>4. reply.err \notin {"none", "fault"} => Hopeless(req)
      BY <1>4, <2>1, <3>3 DEF Hopeless
    <3> QED BY <1>1, <1>2, <1>3, <3>1, <3>4, DoneFares
  <2>3. CASE ~ (~good \/ Matches(req, reply.art))
    <3>1. Goto(c, "scan") /\ UNCHANGED call
      BY <1>6, <2>3 DEF Resume
    <3> QED BY <1>1, <3>1, GotoFares
  <2> QED BY <2>2, <2>3
<1>7. CASE call[c].cont = "scan"
  <2>1. /\ req.op # "tag"
        /\ Ahead(call[c]) \subseteq {e.version : e \in Listed}
        /\ \A a \in Derivables : Matches(req, a) => a.version \in Ahead(call[c])
    BY <1>1, <1>2, <1>7 DEF Stands, Seeking
  <2>2. CASE (good /\ Matches(req, reply.art)) \/ (~good /\ reply.err \notin Skippable)
    <3>1. Done(c, reply)
      BY <1>7, <2>2 DEF Resume
    <3>2. want \in {e.version : e \in Listed}
      BY <2>1 DEF Ahead
    <3>3. reply.err \in {"none", "fault"}
      BY <1>2, <2>2, <3>2 DEF Outcome
    <3> QED BY <1>1, <1>2, <1>3, <3>1, <3>3, DoneFares
  <2>3. CASE ~ ((good /\ Matches(req, reply.art))
                  \/ (~good /\ reply.err \notin Skippable))
    <3>1. \A a \in Derivables : Matches(req, a) => a.version # want
      <4>1. CASE good
        BY <1>3, <2>3, <4>1, DerivedFrom
      <4>2. CASE ~good
        <5>1. reply.err \notin {"none", "fault"}
          BY <2>3, <4>2 DEF Skippable
        <5> QED BY <1>4, <5>1
      <4> QED BY <4>1, <4>2
    <3>2. \A a \in Derivables : Matches(req, a) => a.version \in ToSet(todo)
      BY <2>1, <3>1 DEF Ahead
    <3>3. CASE todo = << >>
      <4>1. NoMatch(c)
        BY <1>7, <2>3, <3>3 DEF Resume
      <4>2. ToSet(todo) = {}
        BY <3>3 DEF ToSet
      <4>3. \A a \in Derivables : ~Matches(req, a)
        BY <3>2, <4>2
      <4> QED BY <1>1, <1>2, <2>1, <4>1, <4>3, NoMatchFares
    <3>4. CASE todo # << >>
      <4>1. Resolve(c, Head(todo), "scan", Tail(todo))
        BY <1>7, <2>3, <3>4 DEF Resume
      <4>2. ToSet(todo) \subseteq {e.version : e \in Listed}
        BY <2>1 DEF Ahead
      <4> HIDE DEF todo
      <4>3. /\ {Head(todo)} \cup ToSet(Tail(todo)) = ToSet(todo)
            /\ Head(todo) \in Versions /\ Tail(todo) \in Seq(Versions)
        BY <1>2, <3>4, HeadAndTail
      <4> QED BY <1>1, <3>2, <4>1, <4>2, <4>3, ResolveFares
    <3> QED BY <3>3, <3>4
  <2> QED BY <2>2, <2>3
<1>8. call[c].cont \in {"tag", "layer", "scan"}
  BY <1>1 DEF Stands
<1> QED BY <1>5, <1>6, <1>7, <1>8

LEMMA FinishFares ==
    ASSUME NEW c \in Callers, Finish(c) PROVE FaresOn(c)
<1>1. Moved(c, "idle", Idle)
  BY DEF Finish, Goto, Moved
<1>2. Fares("idle", Idle)
  BY DEF Fares
<1> QED BY <1>1, <1>2, IdleIsCall DEF FaresOn, Places

LEMMA JoinFares ==
    ASSUME ResolverInv, SteadyInv, NEW c \in Callers, Join(c)
    PROVE  SteadyInv'
<1> DEFINE v == call[c].want
           new == [at |-> "cache", entry |-> Nothing, chart |-> Nothing,
                   prov |-> Nothing]
<1>1. /\ pc \in [Callers -> Places] /\ call \in [Callers -> Calls]
      /\ pc[c] = "missed" /\ call[c] \in Calls /\ Fares("missed", call[c])
  BY DEF ResolverInv, CallersInv, Join, SteadyInv
<1>2. PICK q \in Calls :
         /\ call' = [call EXCEPT ![c] = q]
         /\ q.req = call[c].req /\ q.want = v /\ q.cont = call[c].cont
         /\ q.todo = call[c].todo
  <2>1. CASE v \in DOMAIN flight
    <3>1. call' = [call EXCEPT ![c] = call[c]]
      BY <1>1, <2>1 DEF Join
    <3> QED BY <1>1, <3>1
  <2>2. CASE v \notin DOMAIN flight
    <3> DEFINE q == [call[c] EXCEPT !.led = @ + 1]
    <3>1. call' = [call EXCEPT ![c] = q]
      BY <1>1, <2>2 DEF Join
    <3>2. call[c].led + 1 \in Nat
      BY <1>1, CallFields
    <3>3. /\ q \in Calls /\ q.req = call[c].req /\ q.want = v
          /\ q.cont = call[c].cont /\ q.todo = call[c].todo
      BY <1>1, <3>2 DEF Calls
    <3> QED BY <3>1, <3>3
  <2> QED BY <2>1, <2>2
<1>3. \A w \in DOMAIN flight' :
         (w \in DOMAIN flight /\ flight'[w] = flight[w]) \/ flight'[w] = new
  <2>1. CASE v \in DOMAIN flight
    BY <2>1 DEF Join
  <2>2. CASE v \notin DOMAIN flight
    BY <2>2 DEF Join
  <2> QED BY <2>1, <2>2
<1>4. \A w : Carries(w, new)
  BY DEF Carries
<1> HIDE DEF new, v
<1>5. \A w \in DOMAIN flight' : Carries(w, flight'[w])
  BY <1>3, <1>4 DEF SteadyInv
<1>6. /\ pc'[c] = "waiting" /\ call'[c] = q /\ UNCHANGED found
      /\ \A d \in Callers \ {c} : pc'[d] = pc[d] /\ call'[d] = call[d]
  BY <1>1, <1>2 DEF Join, Goto
<1>7. Fares("waiting", q)
  BY <1>1, <1>2 DEF Fares, Seeking, Ahead, v
<1>8. \A d \in Callers : Fares(pc'[d], call'[d])
  BY <1>6, <1>7 DEF SteadyInv
<1> QED BY <1>5, <1>6, <1>8 DEF SteadyInv
-----------------------------------------------------------------------------
(* What the flights bring. *)

LEMMA OnwardFares ==
    ASSUME SteadyInv, NEW v \in DOMAIN flight, NEW f,
           flight' = [flight EXCEPT ![v] = f], Carries(v, f),
           UNCHANGED <<found, pc, call>>
    PROVE  SteadyInv'
<1>1. /\ DOMAIN flight' = DOMAIN flight /\ flight'[v] = f
      /\ \A w \in DOMAIN flight \ {v} : flight'[w] = flight[w]
  OBVIOUS
<1>2. \A w \in DOMAIN flight' : Carries(w, flight'[w])
  BY <1>1 DEF SteadyInv
<1> QED BY <1>2 DEF SteadyInv

LEMMA LandFares ==
    ASSUME ResolverInv, SteadyInv, NEW v \in DOMAIN flight, NEW reply \in Replies,
           Land(v, reply), Outcome(v, reply),
           \A k \in DOMAIN found' : found'[k].art \in Derivables
    PROVE  SteadyInv'
<1> DEFINE waiting == {c \in Callers : pc[c] = "waiting" /\ call[c].want = v}
<1>1. call \in [Callers -> Calls]
  BY DEF ResolverInv, CallersInv
<1>2. /\ DOMAIN flight' = DOMAIN flight \ {v}
      /\ \A w \in DOMAIN flight' : flight'[w] = flight[w]
  BY DEF Land, Restrict
<1>3. \A w \in DOMAIN flight' : Carries(w, flight'[w])
  BY <1>2 DEF SteadyInv
<1>4. /\ \A c \in waiting : /\ pc'[c] = "resumed"
                            /\ call'[c] = [call[c] EXCEPT !.reply = reply]
      /\ \A c \in Callers \ waiting : pc'[c] = pc[c] /\ call'[c] = call[c]
  BY DEF Land
<1>5. ASSUME NEW c \in Callers PROVE Fares(pc'[c], call'[c])
  <2>1. CASE c \in waiting
    <3> DEFINE p == [call[c] EXCEPT !.reply = reply]
    <3>1. call[c] \in Calls /\ call[c].want = v /\ Fares("waiting", call[c])
      BY <1>1, <2>1 DEF SteadyInv
    <3>2. /\ p.reply = reply /\ p.req = call[c].req /\ p.want = v
          /\ p.cont = call[c].cont /\ p.todo = call[c].todo
      BY <3>1, WithReply
    <3>3. pc'[c] = "resumed" /\ call'[c] = p
      BY <1>4, <2>1
    <3> HIDE DEF p, waiting
    <3>4. Fares("resumed", p)
      BY <3>1, <3>2 DEF Fares, Seeking, Ahead
    <3> QED BY <3>3, <3>4
  <2>2. CASE c \notin waiting
    BY <1>4, <2>2 DEF SteadyInv
  <2> QED BY <2>1, <2>2
<1> QED BY <1>3, <1>5 DEF SteadyInv

\* A flight that fails, as a flight of this version may.
LEMMA FailureFares ==
    ASSUME ResolverInv, SteadyInv, NEW v \in DOMAIN flight,
           NEW e \in {"notFound", "fault", "mismatch", "malformed", "badURL",
                      "chartUnknown", "versionUnknown"},
           Land(v, Err(e)), UNCHANGED found,
           e # "fault" => \A a \in Derivables : a.version # v,
           v \in {x.version : x \in Listed} => e \in {"fault"} \cup Skippable
    PROVE  SteadyInv'
<1>1. Err(e) \in Replies /\ Err(e).err = e /\ e # "none"
  BY ReplyKinds DEF Err
<1>2. Outcome(v, Err(e))
  BY <1>1 DEF Outcome
<1>3. \A k \in DOMAIN found' : found'[k].art \in Derivables
  BY DEF SteadyInv
<1> QED BY <1>1, <1>2, <1>3, LandFares

LEMMA FlightGetFares ==
    ASSUME ResolverInv, AgreeInv, SteadyInv, NEW v \in Versions, FlightGet(v)
    PROVE  SteadyInv'
<1> DEFINE k == VersionKey(v)
<1>1. v \in DOMAIN flight /\ flight[v].at = "cache" /\ UNCHANGED found
      /\ flight[v] \in Flights /\ Carries(v, flight[v])
  BY DEF FlightGet, Stage, SteadyInv, ResolverInv, FlightsInv
<1>2. CASE Hit(k)
  <2> DEFINE a == found[k].art
  <2>1. Land(v, Ok(a)) /\ Ok(a) \in Replies /\ Ok(a).err = "none" /\ Ok(a).art = a
    BY <1>2, HitIsReply DEF FlightGet
  <2>2. a.version = v
    <3>1. k \in Cache!Ids(found[k])
      BY <1>2 DEF AgreeInv, CachedInv, Cache!FoundCarriesKey, Hit
    <3> QED BY <3>1, VersionKeys
  <2>3. a \in Derivables
    BY <1>2 DEF SteadyInv, Hit
  <2> HIDE DEF a
  <2>4. Outcome(v, Ok(a))
    BY <2>1, <2>2, <2>3 DEF Outcome
  <2>5. \A j \in DOMAIN found' : found'[j].art \in Derivables
    BY <1>1 DEF SteadyInv
  <2> QED BY <1>1, <2>1, <2>4, <2>5, LandFares
<1>3. CASE ~Hit(k)
  <2> DEFINE f == [flight[v] EXCEPT !.at = "index"]
  <2>1. flight' = [flight EXCEPT ![v] = f] /\ UNCHANGED <<found, pc, call>>
    BY <1>1, <1>3 DEF FlightGet
  <2>2. f.at = "index" /\ f.prov = flight[v].prov
    BY <1>1 DEF Flights
  <2> HIDE DEF f
  <2>3. Carries(v, f)
    BY <1>1, <2>2 DEF Carries
  <2> QED BY <1>1, <2>1, <2>3, OnwardFares
<1> QED BY <1>2, <1>3

LEMMA FlightFindFares ==
    ASSUME Steady, ResolverInv, SteadyInv, NEW v \in Versions, FlightFind(v, 1)
    PROVE  SteadyInv'
<1> DEFINE entries == EntriesAt(1)
           at == {i \in DOMAIN entries : entries[i].version = v}
<1>1. v \in DOMAIN flight /\ flight[v].at = "index" /\ UNCHANGED found
      /\ flight[v] \in Flights /\ Carries(v, flight[v]) /\ 1 \in DOMAIN History
  BY SteadyIndex DEF FlightFind, Stage, SteadyInv, ResolverInv, FlightsInv
<1>2. CASE at = {}
  <2>1. Land(v, Err("chartUnknown")) \/ Land(v, Err("versionUnknown"))
    BY <1>2 DEF FlightFind
  <2>2. v \notin {e.version : e \in Listed}
    BY <1>2 DEF Listed, ToSet
  <2>3. \A a \in Derivables : a.version # v
    BY <2>2, DerivedFrom
  <2> QED BY <1>1, <2>1, <2>2, <2>3, FailureFares
<1>3. CASE at # {}
  <2> DEFINE e == First(entries, at)
             f == [flight[v] EXCEPT !.at = "chart", !.entry = e]
  <2>1. at \in SUBSET Nat
    BY <1>1, Indices
  <2>2. entries # << >>
    BY <1>3
  <2>3. flight' = [flight EXCEPT ![v] = f] /\ UNCHANGED <<found, pc, call>>
    BY <1>1, <1>3, <2>2 DEF FlightFind
  <2>4. PICK i \in at : e = entries[i]
    BY <1>3, <2>1, FirstIsOne
  <2>5. e \in Listed /\ e.version = v
    BY <1>1, <2>4, Indices DEF Listed
  <2> HIDE DEF e
  <2>6. f.at = "chart" /\ f.entry = e /\ f.prov = flight[v].prov
    BY <1>1 DEF Flights
  <2> HIDE DEF f
  <2>7. Carries(v, f)
    BY <1>1, <2>5, <2>6 DEF Carries
  <2> QED BY <1>1, <2>3, <2>7, OnwardFares
<1> QED BY <1>2, <1>3

LEMMA FlightChartFares ==
    ASSUME Steady, ResolverInv, SteadyInv, NEW v \in Versions, FlightChart(v)
    PROVE  SteadyInv'
<1> DEFINE e == flight[v].entry
           t == History[published].files[v]
<1>1. /\ v \in DOMAIN flight /\ flight[v].at = "chart" /\ UNCHANGED found
      /\ flight[v] \in Flights /\ Carries(v, flight[v])
  BY DEF FlightChart, Stage, SteadyInv, ResolverInv, FlightsInv
<1>2. e \in Listed /\ e.version = v /\ flight[v].prov = Nothing /\ e.url
  BY <1>1 DEF Carries, Steady
<1>3. t = History[1].files[v]
  BY SteadyClock
<1>4. CASE t = Nothing \/ e.digest \notin {Nothing, t}
  <2>1. ~Sound(e)
    BY <1>2, <1>3, <1>4 DEF Sound
  <2>2. \A a \in Derivables : a.version # v
    BY <1>2, <2>1, DerivedFrom, SteadyIndex
  <2>3. PICK k \in {"notFound", "mismatch"} : Land(v, Err(k))
    BY <1>2, <1>4 DEF FlightChart
  <2>4. k \in Skippable
    BY DEF Skippable
  <2> QED BY <1>1, <2>2, <2>3, <2>4, FailureFares
<1>5. CASE t # Nothing /\ e.digest \in {Nothing, t}
  <2> DEFINE f == [flight[v] EXCEPT !.chart = t,
                                    !.at = IF Provenance THEN "prov" ELSE "build"]
  <2>1. flight' = [flight EXCEPT ![v] = f] /\ UNCHANGED <<found, pc, call>>
    BY <1>1, <1>2, <1>5 DEF FlightChart
  <2>2. Sound(e)
    BY <1>2, <1>3, <1>5 DEF Sound
  <2> HIDE DEF t
  <2>3. /\ f.at = IF Provenance THEN "prov" ELSE "build"
        /\ f.entry = e /\ f.chart = t /\ f.prov = flight[v].prov
    BY <1>1 DEF Flights
  <2> HIDE DEF f
  <2>4. Carries(v, f)
    BY <1>2, <1>3, <2>2, <2>3 DEF Carries, ProvOf
  <2> QED BY <1>1, <2>1, <2>4, OnwardFares
<1> QED BY <1>4, <1>5

LEMMA FlightProvFares ==
    ASSUME Steady, ResolverInv, SteadyInv, NEW v \in Versions, FlightProv(v)
    PROVE  SteadyInv'
<1> DEFINE p == History[published].provs[v]
           f == [flight[v] EXCEPT !.prov = p, !.at = "build"]
<1>1. /\ v \in DOMAIN flight /\ flight[v].at = "prov"
      /\ UNCHANGED <<found, pc, call>> /\ flight' = [flight EXCEPT ![v] = f]
      /\ flight[v] \in Flights /\ Carries(v, flight[v])
  BY DEF FlightProv, Stage, SteadyInv, ResolverInv, FlightsInv
<1>2. p = ProvOf(v)
  BY <1>1, SteadyClock DEF Carries, ProvOf
<1> HIDE DEF p
<1>3. /\ f.at = "build" /\ f.entry = flight[v].entry
      /\ f.chart = flight[v].chart /\ f.prov = p
  BY <1>1 DEF Flights
<1> HIDE DEF f
<1>4. Carries(v, f)
  BY <1>1, <1>2, <1>3 DEF Carries
<1> QED BY <1>1, <1>4, OnwardFares

LEMMA FlightFailsFares ==
    ASSUME Steady, ResolverInv, SteadyInv, NEW v \in Versions, FlightFails(v)
    PROVE  SteadyInv'
<1>1. v \in DOMAIN flight /\ UNCHANGED found
  BY DEF FlightFails, Stage
<1>2. PICK e \in {"notFound", "fault"} :
         Land(v, Err(e)) /\ (e = "notFound" => EntriesAt(1) = << >>)
  BY SteadyClock DEF FlightFails, IndexErrors, EntriesAt
<1>3. e = "notFound" => Derivables = {}
  BY <1>2, NothingListed
<1>4. e \in {"fault"} \cup Skippable
  BY DEF Skippable
<1> QED BY <1>1, <1>2, <1>3, <1>4, FailureFares

LEMMA FlightBuildFares ==
    ASSUME Steady, ResolverInv, SteadyInv, NEW v \in Versions, FlightBuild(v)
    PROVE  SteadyInv'
<1> DEFINE e == flight[v].entry
           t == flight[v].chart
           a == Build(t, flight[v].prov)
<1>1. v \in DOMAIN flight /\ flight[v].at = "build" /\ Carries(v, flight[v])
  BY DEF FlightBuild, Stage, SteadyInv
<1>2. /\ e \in Listed /\ e.version = v /\ Sound(e)
      /\ t = History[1].files[v] /\ flight[v].prov = ProvOf(v)
  BY <1>1 DEF Carries
<1>3. t.version = v /\ t.version # Nothing
  BY <1>2, SteadyIndex DEF Steady
<1>4. a = From(e) /\ a \in Derivables
  BY <1>2 DEF From, Derivables
<1>5. a.version = v
  BY <1>3 DEF Build
<1>6. AddToCache(a) /\ Land(v, Ok(a))
  BY <1>3 DEF FlightBuild
<1>7. a \in Artifacts
  BY <1>1, <1>3, Built
<1> HIDE DEF a
<1>8. Ok(a) \in Replies /\ Ok(a).err = "none" /\ Ok(a).art = a
  BY <1>7, ReplyKinds
<1>9. Outcome(v, Ok(a))
  BY <1>4, <1>5, <1>8 DEF Outcome
<1>10. \A k \in DOMAIN found' : found'[k].art \in Derivables
  <2>1. CASE UNCHANGED found
    BY <2>1 DEF SteadyInv
  <2>2. CASE Cache!File(Entry(a))
    <3>1. Entry(a).art = a
      BY DEF Entry
    <3> QED BY <1>4, <2>2, <3>1, FiledOrKept DEF SteadyInv
  <2> QED BY <1>6, <2>1, <2>2 DEF AddToCache
<1> QED BY <1>1, <1>6, <1>8, <1>9, <1>10, LandFares
-----------------------------------------------------------------------------
LEMMA FreshIsSteady == Fresh => SteadyInv
BY DEF Fresh, SteadyInv, Fares

LEMMA SteadyStep ==
    ASSUME Steady, ResolverInv, AgreeInv, SteadyInv, [Next]_vars
    PROVE  SteadyInv'
<1>1. CASE UNCHANGED vars
  BY <1>1 DEF vars, SteadyInv
<1>2. ASSUME NEW c \in Callers, NEW r \in Requests, Request(c, r)
      PROVE  SteadyInv'
  <2>1. UNCHANGED <<found, flight>>
    BY <1>2 DEF Request
  <2> QED BY <1>2, <2>1, RequestFares, CallerFares
<1>3. ASSUME NEW c \in Callers, CallerStep(c) PROVE SteadyInv'
  <2>1. CASE Join(c)
    BY <2>1, JoinFares
  <2>2. CASE CacheGet(c) \/ IndexFails(c) \/ Lookup(c) \/ Resume(c)
    <3>1. UNCHANGED <<found, flight>>
      BY <2>2 DEF CacheGet, IndexFails, Lookup, Resume
    <3>2. FaresOn(c)
      BY <2>2, CacheGetFares, IndexFailsFares, LookupFares, ResumeFares
    <3> QED BY <3>1, <3>2, CallerFares
  <2>3. ASSUME NEW rev \in served .. published, FindLayer(c, rev) \/ StartScan(c, rev)
        PROVE  SteadyInv'
    <3>1. UNCHANGED <<found, flight>>
      BY <2>3 DEF FindLayer, StartScan
    <3>2. FaresOn(c)
      BY <2>3, SteadyClock, FindLayerFares, StartScanFares
    <3> QED BY <3>1, <3>2, CallerFares
  <2> QED BY <1>3, <2>1, <2>2, <2>3 DEF CallerStep
<1>4. ASSUME NEW c \in Callers, Finish(c) PROVE SteadyInv'
  <2>1. UNCHANGED <<found, flight>>
    BY <1>4 DEF Finish
  <2> QED BY <1>4, <2>1, FinishFares, CallerFares
<1>5. ASSUME NEW v \in Versions, FlightStep(v) PROVE SteadyInv'
  <2>1. ASSUME NEW rev \in served .. published, FlightFind(v, rev) PROVE SteadyInv'
    BY <2>1, SteadyClock, FlightFindFares
  <2> QED BY <1>5, <2>1, FlightGetFares, FlightChartFares, FlightProvFares,
             FlightFailsFares, FlightBuildFares DEF FlightStep
<1>6. CASE Publish
  BY <1>6, SteadyClock DEF Publish, Steady
<1>7. CASE Restart
  <2>1. Fresh'
    BY <1>7 DEF Restart, Fresh, ResolverInv, ClockInv
  <2> QED BY <2>1, FreshIsSteady, PTL
<1> QED BY <1>1, <1>2, <1>3, <1>4, <1>5, <1>6, <1>7 DEF Next

\* What the invariant says of the calls that are over.
LEMMA ColdWouldToo ==
    ASSUME Steady, ResolverInv, AgreeInv, SteadyInv, NEW c \in Callers,
           Replied(c), call[c].reply.err # "fault"
    PROVE  LET cold == ColdAnswers(call[c].req)
           IN  IF Answered(c) THEN call[c].reply.art \in cold ELSE cold = {}
<1> DEFINE req == call[c].req
           cold == ColdAnswers(req)
           s == EntriesAt(1)
           Scanned == SubSeq(s, 1, Len(Candidates(s)))
           Layers == {e \in ToSet(s) :
                        e.digest # Nothing /\ req.arg = <<"chart", e.digest>>}
           Eligible == CASE req.op = "tag" -> {e \in ToSet(s) : e.version = req.arg}
                         [] req.op = "signature" /\ ~Signing -> {}
                         [] req.op \in {"blob", "sigblob"} -> ToSet(Scanned) \cup Layers
                         [] OTHER -> ToSet(Scanned)
           Wanted(a) == \/ req.op = "tag" \/ Matches(req, a)
                        \/ /\ req.op = "sigblob"
                           /\ Matches([req EXCEPT !.op = "blob"], a)
<1>1. /\ pc[c] = "done" /\ Ended(call[c]) /\ req \in Reqs
      /\ Right(published, "done", call[c]) /\ Stands("done", call[c])
  BY DEF Replied, SteadyInv, Fares, AgreeInv, AnswersInv, ResolverInv, CallersInv,
         Stands
<1>2. ToSet(Scanned) = Listed
  <2>1. Len(s) \in Nat /\ DOMAIN s = 1 .. Len(s)
    BY SteadyIndex, Indices
  <2>2. Len(Candidates(s)) = Len(s)
    BY AllAreCandidates
  <2> HIDE DEF s
  <2>3. /\ DOMAIN SubSeq(s, 1, Len(s)) = 1 .. Len(s)
        /\ \A i \in 1 .. Len(s) : SubSeq(s, 1, Len(s))[i] = s[i]
    BY <2>1
  <2>4. ToSet(SubSeq(s, 1, Len(s))) = ToSet(s)
    BY <2>1, <2>3 DEF ToSet
  <2> QED BY <2>2, <2>4 DEF Listed, s
<1>3. \A e \in Listed : Intact(e) <=> Sound(e)
  BY SteadyClock, SteadyIndex DEF Intact, Sound, Steady
<1>4. \A e : Derived(e) = From(e)
  BY SteadyClock DEF Derived, From, ProvOf
<1>5. cold = {a \in {Derived(e) : e \in {x \in Eligible : Intact(x)}} : Wanted(a)}
  BY SteadyClock DEF ColdAnswers
<1>6. Eligible \subseteq Listed
  BY <1>2 DEF Listed
<1> HIDE DEF cold, Scanned, Layers
<1>7. CASE Answered(c)
  <2> DEFINE art == call[c].reply.art
  <2>1. /\ art \in Derivables /\ Signed(req)
        /\ IF req.op = "tag" THEN art.version = req.arg ELSE Matches(req, art)
    BY <1>1, <1>7 DEF Answered, Ended, Right
  <2>2. PICK e \in Listed : Sound(e) /\ art = From(e) /\ art.version = e.version
    BY <2>1, DerivedFrom
  <2>3. e \in Eligible
    BY <1>2, <2>1, <2>2 DEF Signed, Listed
  <2>4. art = Derived(e) /\ Intact(e) /\ Wanted(art)
    BY <1>3, <1>4, <2>1, <2>2
  <2> HIDE DEF Eligible, Wanted, art
  <2>5. art \in cold
    BY <1>5, <2>3, <2>4
  <2> QED BY <1>7, <2>5 DEF cold, art
<1>8. CASE ~Answered(c)
  <2>1. Hopeless(req) \/ ~Signed(req)
    BY <1>1, <1>8 DEF Answered, Replied, Ended
  <2>2. CASE ~Signed(req)
    <3>1. Eligible = {}
      BY <2>2 DEF Signed
    <3> HIDE DEF Eligible, Wanted
    <3>2. cold = {}
      BY <1>5, <3>1
    <3> QED BY <1>8, <3>2 DEF cold
  <2>3. CASE Hopeless(req)
    <3>1. ASSUME NEW e \in Eligible, Intact(e), Wanted(Derived(e)) PROVE FALSE
      <4>1. e \in Listed /\ Sound(e) /\ Derived(e) = From(e)
        BY <1>3, <1>4, <1>6, <3>1
      <4> DEFINE a == From(e)
      <4>2. a \in Derivables /\ a.version = e.version
        <5>1. a \in Derivables
          BY <4>1 DEF Derivables
        <5>2. a.version = History[1].files[e.version].version
          BY DEF From, Build
        <5> QED BY <4>1, <5>1, <5>2 DEF Steady
      <4> HIDE DEF a
      <4>3. Wanted(a)
        BY <3>1, <4>1 DEF a
      <4>4. CASE req.op = "tag"
        <5>1. e.version = req.arg
          BY <4>4
        <5> QED BY <2>3, <4>2, <4>4, <5>1 DEF Hopeless
      <4>5. CASE req.op # "tag" /\ Matches(req, a)
        BY <2>3, <4>2, <4>5 DEF Hopeless
      <4>6. CASE req.op = "sigblob" /\ Matches([req EXCEPT !.op = "blob"], a)
        <5>1. [req EXCEPT !.op = "blob"].op = "blob"
              /\ [req EXCEPT !.op = "blob"].arg = req.arg
          BY <1>1 DEF Reqs
        <5>2. req.arg \in Cache!BlobDigests(a)
          BY <4>6, <5>1 DEF Matches
        <5> QED BY <2>3, <4>2, <4>6, <5>2 DEF Hopeless
      <4> QED BY <4>3, <4>4, <4>5, <4>6
    <3> HIDE DEF Eligible, Wanted
    <3>2. cold = {}
      BY <1>5, <3>1
    <3> QED BY <1>8, <3>2 DEF cold
  <2> QED BY <2>1, <2>2, <2>3
<1> QED BY <1>7, <1>8

\* "Correctness never depends on cache state": while the upstream stays as it
\* is, and is well made, a request gets what a cold replica would answer, and
\* fails when a cold one would, whoever filled the cache, shared a flight or
\* restarted before.
THEOREM CacheMakesNoDifference == Steady => (Spec => []AnswersIgnoreCache)
<1> SUFFICES ASSUME Steady PROVE Spec => []AnswersIgnoreCache
  OBVIOUS
<1>1. Init => SteadyInv
  <2>1. Init => Fresh
    BY Histories DEF Init, Fresh
  <2> QED BY <2>1, FreshIsSteady
<1>2. ResolverInv /\ AgreeInv /\ SteadyInv /\ [Next]_vars => SteadyInv'
  BY SteadyStep
<1>3. ResolverInv /\ AgreeInv /\ SteadyInv => AnswersIgnoreCache
  BY ColdWouldToo DEF AnswersIgnoreCache
<1>4. Spec => [](ResolverInv /\ AgreeInv)
  BY SteadyAgrees, AgreementIsKept
<1> QED BY <1>1, <1>2, <1>3, <1>4, PTL DEF Spec
=============================================================================
