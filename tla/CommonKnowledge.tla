-------------------------- MODULE CommonKnowledge --------------------------
(***************************************************************************)
(* Signed knowledge packages that runtimes share                          *)
(* (src/noyra/knowledge/common.py, knowledge/sync.py), and the check of    *)
(* their evidence (core/integrity.py, _check_common_knowledge).            *)
(*                                                                         *)
(* Publishers put packages on a shelf and record each publication and      *)
(* revocation as an event of a numbered, signed feed.  One reader trusts   *)
(* some keys, follows the feeds of its peers with a cursor, and keeps what *)
(* it imports in quarantine until its subject has evaluated it.  The tick  *)
(* of the runtime and the HTTP route may both be synchronizing one peer.   *)
(*                                                                         *)
(* A package is an identifier; its owner is its first component.  Payloads *)
(* and signatures are left out: publishers are honest, and what is signed  *)
(* is the pair of an event and its number.  The order of due peers is a    *)
(* queue, because only the order of next_sync_at matters.                  *)
(***************************************************************************)
EXTENDS Integers, Sequences, FiniteSets, SequencesExt, FiniteSetsExt

CONSTANTS
  Publishers,   \* the peers of the reader, one key each
  PerPublisher, \* packages a publisher may have
  MaxVersion,   \* versions a package may carry
  Legacy,       \* packages that predate the feed
  Workers,      \* those who synchronize: "tick" and "route"
  MaxPeers,     \* peers of one sync_due (max_peers)
  PageLimit,    \* events of one page (50)
  MaxEvents,    \* events of one synchronization (max_events)
  Evaluates,    \* whether packages are imported by hand and evaluated
  MaxRoutes, MaxKeyChanges, MaxRevocations, MaxExpiries, MaxFaults

Packages == Publishers \X (1 .. PerPublisher)
Owner(k) == k[1]

VARIABLES
  shelf,    \* common_knowledge_packages of the publishers
  line,     \* common_knowledge_versions of the publishers
  feed,     \* common_knowledge_sync_events
  key,      \* common_knowledge_trusted_keys of the reader
  package,  \* common_knowledge_packages of the reader
  imported, \* common_knowledge_imports
  version,  \* common_knowledge_versions of the reader
  peer,     \* common_knowledge_peers: cursor and remote_etag
  remote,   \* common_knowledge_remote_events
  run,      \* the latest row of common_knowledge_sync_runs
  verdict,  \* common_knowledge_evaluation_events
  due,      \* the peers whose next_sync_at has passed, oldest first
  worker,   \* the synchronizations under way
  expired,  \* packages past their valid_until
  count     \* how often the bounded things happened

vars == <<shelf, line, feed, key, package, imported, version, peer, remote,
          run, verdict, due, worker, expired, count>>
publishing == <<shelf, line, feed>>
library == <<package, imported, version>>

Event(type, k) == [type |-> type, package |-> k]
None == {}

TypeOK ==
  /\ shelf \in [Packages -> {"none", "published", "revoked"}]
  /\ \A k \in Packages : Cardinality(line[k]) <= 1
  /\ \A p \in Publishers : \A i \in DOMAIN feed[p] : Owner(feed[p][i].package) = p
  /\ key \in [Publishers -> {"active", "revoked"}]
  /\ package \in [Packages -> {"none", "published", "revoked"}]
  /\ imported \in [Packages ->
       {"none", "quarantined", "accepted", "rejected", "revoked"}]
  /\ verdict \in [Packages -> {"none", "requested", "accepted", "rejected"}]
  /\ Range(due) \subseteq Publishers /\ IsInjective(due)
  /\ expired \subseteq Packages

Idle == [at |-> "idle", peer |-> None, batch |-> <<>>, before |-> 0, cursor |-> 0,
         latest |-> 0, etag |-> None, pageEtag |-> None, page |-> <<>>,
         published |-> 0, revoked |-> 0, overtaken |-> FALSE]

\* A legacy package is on the shelf with neither a version nor an event.
Init ==
  /\ shelf \in [Packages -> {"none", "published", "revoked"}]
  /\ \A k \in Packages : shelf[k] # "none" <=> k \in Legacy
  /\ line = [k \in Packages |-> None]
  /\ feed = [p \in Publishers |-> <<>>]
  /\ key = [p \in Publishers |-> "active"]
  /\ package = [k \in Packages |-> "none"]
  /\ imported = [k \in Packages |-> "none"]
  /\ version = [k \in Packages |-> None]
  /\ peer = [p \in Publishers |-> [cursor |-> 0, etag |-> None]]
  /\ remote = [p \in Publishers |-> {}]
  /\ run = [p \in Publishers |-> None]
  /\ verdict = [k \in Packages |-> "none"]
  /\ due = SetToSeq(Publishers)
  /\ worker = [w \in Workers |-> Idle]
  /\ expired = {}
  /\ count = [routes |-> 0, keys |-> 0, revocations |-> 0, expiries |-> 0, faults |-> 0]

Count(n, max) == count[n] < max /\ count' = [count EXCEPT ![n] = @ + 1]

------------------------------------------------------------------------------
(* The publisher.                                                           *)

Series(k, pred) == IF pred = None THEN k ELSE (CHOOSE v \in line[CHOOSE q \in pred : TRUE] : TRUE).series

\* Publish a package, alone or as the successor of an older version.
Publish(k, v, pred) ==
  /\ shelf[k] = "none"
  /\ \A j \in 1 .. (k[2] - 1) : shelf[<<k[1], j>>] # "none"
  /\ \A q \in pred : \E l \in line[q] : Owner(q) = Owner(k) /\ v > l.version
  /\ shelf' = [shelf EXCEPT ![k] = "published"]
  /\ line' = [line EXCEPT ![k] = {[series |-> Series(k, pred), version |-> v, pred |-> pred]}]
  /\ feed' = [feed EXCEPT ![Owner(k)] = Append(@, Event("published", k))]
  /\ UNCHANGED <<key, library, peer, remote, run, verdict, due, worker, expired, count>>

InFeed(p, f, type, k) == Event(type, k) \in Range(f[p])

\* The events a package on the shelf should have and does not have yet.
Missing(p, f, k) ==
  (IF InFeed(p, f, "published", k) THEN <<>> ELSE <<Event("published", k)>>)
  \o (IF shelf[k] # "revoked" \/ InFeed(p, f, "revoked", k) THEN <<>>
      ELSE <<Event("revoked", k)>>)

\* A package without a version is the root of its own series.
RootLine(k) == IF line[k] = None THEN {[series |-> k, version |-> 1, pred |-> None]} ELSE line[k]

\* Every discovery first gives the publisher's packages their missing events.
EnsureLocalSyncState(p) ==
  LET Own == SetToSortSeq({k \in Packages : Owner(k) = p /\ shelf[k] # "none"},
                          LAMBDA a, b : a[2] < b[2])
  IN  /\ feed' = [feed EXCEPT ![p] =
           FoldLeft(LAMBDA acc, k : acc \o Missing(p, feed, k), @, Own)]
      /\ line' = [k \in Packages |-> IF k \in Range(Own) THEN RootLine(k) ELSE line[k]]

\* Revoke a package the publisher published.
RevokePackage(k) ==
  /\ shelf[k] = "published"
  /\ Count("revocations", MaxRevocations)
  /\ shelf' = [shelf EXCEPT ![k] = "revoked"]
  /\ line' = [line EXCEPT ![k] = RootLine(k)]
  /\ feed' = [feed EXCEPT ![Owner(k)] = @ \o
       (IF line[k] = None /\ ~InFeed(Owner(k), feed, "published", k)
        THEN <<Event("published", k)>> ELSE <<>>)
       \o <<Event("revoked", k)>>]
  /\ UNCHANGED <<key, library, peer, remote, run, verdict, due, worker, expired>>

------------------------------------------------------------------------------
(* The keys of the reader, and what it imports.                             *)

TrustKey(p) ==
  /\ key[p] = "revoked"
  /\ key' = [key EXCEPT ![p] = "active"]
  /\ UNCHANGED <<publishing, library, peer, remote, run, verdict, due, worker, expired, count>>

Withdrawn(imp, S, from) ==
  [k \in Packages |-> IF k \in S /\ imp[k] \in from THEN "revoked" ELSE imp[k]]

\* Mutant: what the key had signed before stays as it is.
RevokeTrustedKey_KeepsImports(p) ==
  /\ key[p] = "active"
  /\ Count("keys", MaxKeyChanges)
  /\ key' = [key EXCEPT ![p] = "revoked"]
  /\ UNCHANGED <<publishing, library, peer, remote, run, verdict, due, worker, expired>>

RevokeTrustedKey(p) ==
  /\ key[p] = "active"
  /\ Count("keys", MaxKeyChanges)
  /\ key' = [key EXCEPT ![p] = "revoked"]
  /\ imported' = Withdrawn(imported, {k \in Packages : package[k] # "none" /\ Owner(k) = p},
                           {"quarantined", "accepted"})
  /\ UNCHANGED <<publishing, package, version, peer, remote, run, verdict, due, worker, expired>>

\* _import_package_connection refuses an untrusted key, and a package that is
\* known to be revoked.
MayImport(k) == key[Owner(k)] = "active" /\ package[k] # "revoked"
ImportedAs(k) == IF imported[k] = "none" THEN "quarantined" ELSE imported[k]

\* An envelope that reaches the reader another way.
ImportPackage(k) ==
  /\ Evaluates
  /\ shelf[k] # "none"
  /\ MayImport(k)
  /\ package' = [package EXCEPT ![k] = "published"]
  /\ imported' = [imported EXCEPT ![k] = ImportedAs(k)]
  /\ UNCHANGED <<publishing, key, version, peer, remote, run, verdict, due, worker, expired, count>>

\* _verify_record with require_compatible: a trusted key, and still valid.
VerifyRecord(k) == key[Owner(k)] = "active" /\ k \notin expired

BeginEvaluation(k) ==
  /\ Evaluates
  /\ package[k] # "none"
  /\ VerifyRecord(k)
  /\ imported[k] = "quarantined"
  /\ verdict[k] # "requested"
  /\ verdict' = [verdict EXCEPT ![k] = "requested"]
  /\ UNCHANGED <<publishing, key, library, peer, remote, run, due, worker, expired, count>>

\* The accepted versions of the series that are older than v.
Older(series, v) ==
  {j \in Packages : \E l \in version[j] : l.series = series /\ l.version < v}

\* Mutant: an evaluation that was requested is accepted whatever has happened to
\* the package since.
CompleteEvaluation_Late(k, decision) ==
  /\ verdict[k] = "requested"
  /\ decision = "accepted" => VerifyRecord(k)
  /\ imported' = [imported EXCEPT ![k] = decision]
  /\ verdict' = [verdict EXCEPT ![k] = decision]
  /\ UNCHANGED <<publishing, key, package, version, peer, remote, run, due, worker, expired, count>>

CompleteEvaluation(k, decision) ==
  /\ verdict[k] = "requested"
  /\ decision = "accepted" => VerifyRecord(k)
  /\ imported[k] = "quarantined"
  /\ imported' =
       LET now == [imported EXCEPT ![k] = decision] IN
         IF decision = "accepted" /\ version[k] # None
         THEN LET l == CHOOSE l \in version[k] : TRUE
              IN  Withdrawn(now, Older(l.series, l.version), {"accepted"})
         ELSE now
  /\ verdict' = [verdict EXCEPT ![k] = decision]
  /\ UNCHANGED <<publishing, key, package, version, peer, remote, run, due, worker, expired, count>>

\* What the subject is told (usable, advisories).
Usable == {k \in Packages :
  imported[k] = "accepted" /\ package[k] = "published" /\ VerifyRecord(k)}

------------------------------------------------------------------------------
(* One synchronization.                                                     *)

Set(w, new) == worker' = [worker EXCEPT ![w] = new]
reading == <<publishing, key, library, peer, remote, run, verdict, expired>>

\* The tick takes the peers that have been due longest.
SyncDue(w) ==
  /\ w = "tick" /\ worker[w].at = "idle"
  /\ due # <<>>
  /\ Set(w, [Idle EXCEPT !.at = "next", !.batch = SubSeq(due, 1, Min({MaxPeers, Len(due)}))])
  /\ UNCHANGED <<reading, due, count>>

Start(w, p, batch) ==
  Set(w, [Idle EXCEPT !.at = "discover", !.peer = {p}, !.batch = batch,
                      !.before = peer[p].cursor, !.cursor = peer[p].cursor,
                      !.etag = peer[p].etag])

NextPeer(w) ==
  /\ worker[w].at = "next"
  /\ IF worker[w].batch = <<>> THEN Set(w, Idle)
     ELSE Start(w, Head(worker[w].batch), Tail(worker[w].batch))
  /\ UNCHANGED <<reading, due, count>>

SyncRoute(w, p) ==
  /\ w = "route" /\ worker[w].at = "idle"
  /\ Count("routes", MaxRoutes)
  /\ Start(w, p, <<>>)
  /\ UNCHANGED <<reading, due>>

Peer(w) == CHOOSE p \in worker[w].peer : TRUE

\* Mutant: the cursor is not compared.
AssertSyncPeer_AnyCursor(w) ==
  /\ ~worker[w].overtaken
  /\ key[Peer(w)] = "active"

\* The peer is as this worker saw it last: no other synchronization of it has
\* ended, the cursor has not moved, and its key is trusted.
AssertSyncPeer(w) ==
  /\ peer[Peer(w)].cursor = worker[w].cursor
  /\ ~worker[w].overtaken
  /\ key[Peer(w)] = "active"

\* The row of a synchronization that ended; the peer's row and schedule change
\* only if the peer is still as this worker saw it.
Recorded(w, outcome, etag) ==
  LET s == worker[w]
      p == Peer(w)
      update == AssertSyncPeer(w)
  IN  /\ peer' = IF update THEN [peer EXCEPT ![p] = [cursor |-> s.cursor, etag |-> etag]] ELSE peer
      /\ due' = IF update THEN SelectSeq(due, LAMBDA q : q # p) ELSE due
      /\ run' = [run EXCEPT ![p] = {[outcome |-> outcome, before |-> s.before, after |-> s.cursor,
                                     imported |-> s.published, revoked |-> s.revoked]}]
      /\ worker' = [x \in Workers |->
           IF x = w THEN [Idle EXCEPT !.at = IF w = "tick" THEN "next" ELSE "idle", !.batch = s.batch]
           ELSE IF worker[x].peer = {p} THEN [worker[x] EXCEPT !.overtaken = TRUE] ELSE worker[x]]

\* Any failure on the way: what was applied stays, and the attempt is recorded.
Fail(w) ==
  /\ Recorded(w, "failed", None)
  /\ UNCHANGED <<publishing, key, library, remote, verdict, expired>>

\* Discovery: unchanged if the publisher's entity tag is the one remembered.
Discover(w) ==
  /\ worker[w].at = "discover"
  /\ AssertSyncPeer(w)
  /\ EnsureLocalSyncState(Peer(w))
  /\ LET latest == Len(feed'[Peer(w)]) IN
       IF worker[w].etag = {latest}
       THEN Set(w, [worker[w] EXCEPT !.at = "unchanged", !.latest = latest])
       ELSE Set(w, [worker[w] EXCEPT !.at = "fetch", !.latest = latest])
  /\ UNCHANGED <<shelf, key, library, peer, remote, run, verdict, due, expired, count>>

Unchanged(w) ==
  /\ worker[w].at = "unchanged"
  /\ AssertSyncPeer(w)
  /\ Recorded(w, "unchanged", worker[w].etag)
  /\ UNCHANGED <<publishing, key, library, remote, verdict, expired, count>>

Applied(w) == worker[w].published + worker[w].revoked
MoreToFetch(w) == worker[w].cursor < worker[w].latest /\ Applied(w) < MaxEvents

\* The feed document reads the length of the feed and its rows one after the
\* other, so that a page can hold more than its entity tag says.
FeedTag(w) ==
  /\ worker[w].at = "fetch" /\ worker[w].page = <<>>
  /\ MoreToFetch(w) /\ AssertSyncPeer(w)
  /\ EnsureLocalSyncState(Peer(w))
  /\ Set(w, [worker[w] EXCEPT !.at = "rows", !.pageEtag = {Len(feed'[Peer(w)])}])
  /\ UNCHANGED <<shelf, key, library, peer, remote, run, verdict, due, expired, count>>

FeedRows(w) ==
  /\ worker[w].at = "rows"
  /\ LET f == feed[Peer(w)]
         c == worker[w].cursor
         n == Min({PageLimit, MaxEvents - Applied(w)})
     IN  Set(w, [worker[w] EXCEPT !.at = "page", !.page = SubSeq(f, c + 1, Min({c + n, Len(f)}))])
  /\ UNCHANGED <<reading, due, count>>

\* The page must answer for the feed that was discovered.
VerifyFeedPage(w) == worker[w].pageEtag = {worker[w].latest} /\ worker[w].page # <<>>

TakePage(w) ==
  /\ worker[w].at = "page"
  /\ AssertSyncPeer(w) /\ VerifyFeedPage(w)
  /\ Set(w, [worker[w] EXCEPT !.at = "apply"])
  /\ UNCHANGED <<reading, due, count>>

\* Mutant: a revocation withdraws only what was accepted.
RevokedImports_AcceptedOnly(imp, k) == Withdrawn(imp, {k}, {"accepted"})
RevokedImports(imp, k) == Withdrawn(imp, {k}, {"quarantined", "accepted"})

\* _insert_version: a row that exists must be the same, a predecessor must be
\* older and of the same series, and a series has one root.
VersionFits(k, l) ==
  IF version[k] # None THEN version[k] = {l}
  ELSE IF l.pred # None
  THEN \A q \in l.pred : \E m \in version[q] : m.series = l.series /\ m.version < l.version
  ELSE \A j \in Packages : \A m \in version[j] : m.series # l.series

\* What the events say about a package is what the publisher's version row says.
LineOf(k) == CHOOSE l \in line[k] : TRUE

\* One event: the import, the version, the revocation and the cursor in one
\* transaction.
ApplyRemoteEvent(w) ==
  LET s == worker[w]
      p == Peer(w)
      e == Head(s.page)
      k == e.package
      l == LineOf(k)
      fresh == e.type = "published" \/ package[k] = "none"
      imp == IF fresh THEN [imported EXCEPT ![k] = ImportedAs(k)] ELSE imported
  IN  /\ s.at = "apply" /\ s.page # <<>> /\ Applied(w) < MaxEvents
      /\ AssertSyncPeer(w)
      /\ fresh => MayImport(k)
      /\ VersionFits(k, l)
      /\ version' = [version EXCEPT ![k] = {l}]
      /\ package' = [package EXCEPT ![k] = IF e.type = "revoked" THEN "revoked" ELSE "published"]
      /\ imported' = IF e.type = "revoked" THEN RevokedImports(imp, k)
                     ELSE Withdrawn(imp, Older(l.series, l.version), {"accepted"})
      /\ remote' = [remote EXCEPT ![p] = @ \cup {[sequence |-> s.cursor + 1, event |-> e]}]
      /\ peer' = [peer EXCEPT ![p].cursor = s.cursor + 1]
      /\ Set(w, [s EXCEPT !.cursor = @ + 1, !.page = Tail(@),
                          !.published = IF e.type = "published" THEN @ + 1 ELSE @,
                          !.revoked = IF e.type = "revoked" THEN @ + 1 ELSE @])
      /\ UNCHANGED <<publishing, key, run, verdict, due, expired, count>>

PageDone(w) ==
  /\ worker[w].at = "apply"
  /\ worker[w].page = <<>> \/ Applied(w) >= MaxEvents
  /\ Set(w, [worker[w] EXCEPT !.at = "fetch", !.page = <<>>])
  /\ UNCHANGED <<reading, due, count>>

FinalTag(w) == IF worker[w].cursor = worker[w].latest THEN {worker[w].latest} ELSE None

Finish(w) ==
  /\ worker[w].at = "fetch" /\ ~MoreToFetch(w)
  /\ AssertSyncPeer(w)
  /\ Recorded(w, IF worker[w].cursor = worker[w].latest THEN "succeeded" ELSE "partial", FinalTag(w))
  /\ UNCHANGED <<publishing, key, library, remote, verdict, expired, count>>

\* A check that does not hold, or evidence that does not fit, ends the attempt.
Refused(w) ==
  LET s == worker[w] IN
  /\ \/ s.at \in {"discover", "unchanged", "fetch", "page"} /\ ~AssertSyncPeer(w)
     \/ s.at = "page" /\ ~VerifyFeedPage(w)
     \/ /\ s.at = "apply" /\ s.page # <<>> /\ Applied(w) < MaxEvents
        /\ LET e == Head(s.page) IN
             \/ ~AssertSyncPeer(w)
             \/ (e.type = "published" \/ package[e.package] = "none") /\ ~MayImport(e.package)
             \/ ~VersionFits(e.package, LineOf(e.package))
  /\ Fail(w)
  /\ UNCHANGED count

\* The publisher does not answer, or answers too late.
Unreachable(w) ==
  /\ \/ worker[w].at \in {"discover", "rows"}
     \/ worker[w].at = "fetch" /\ MoreToFetch(w)
  /\ Count("faults", MaxFaults)
  /\ Fail(w)

\* The lease is cut or the process dies: nothing more is recorded.
Stop(w) ==
  /\ worker[w].at # "idle"
  /\ Count("faults", MaxFaults)
  /\ Set(w, Idle)
  /\ UNCHANGED <<reading, due>>

\* The interval of a peer passes.
BecomesDue(p) ==
  /\ p \notin Range(due)
  /\ due' = Append(due, p)
  /\ UNCHANGED <<reading, worker, count>>

Expire(k) ==
  /\ k \notin expired /\ package[k] # "none"
  /\ Count("expiries", MaxExpiries)
  /\ expired' = expired \cup {k}
  /\ UNCHANGED <<publishing, key, library, peer, remote, run, verdict, due, worker>>

SyncPeer(w) ==
  \/ NextPeer(w) \/ Discover(w) \/ Unchanged(w) \/ FeedTag(w) \/ FeedRows(w)
  \/ TakePage(w) \/ ApplyRemoteEvent(w) \/ PageDone(w) \/ Finish(w) \/ Refused(w)

Next ==
  \/ \E k \in Packages :
       \/ \E v \in 1 .. MaxVersion, pred \in {{}} \cup {{q} : q \in Packages} : Publish(k, v, pred)
       \/ RevokePackage(k) \/ ImportPackage(k) \/ BeginEvaluation(k) \/ Expire(k)
       \/ \E d \in {"accepted", "rejected"} : CompleteEvaluation(k, d)
  \/ \E p \in Publishers : TrustKey(p) \/ RevokeTrustedKey(p) \/ BecomesDue(p)
  \/ \E w \in Workers : SyncDue(w) \/ SyncPeer(w) \/ Unreachable(w) \/ Stop(w)
       \/ \E p \in Publishers : SyncRoute(w, p)

Spec == Init /\ [][Next]_vars

------------------------------------------------------------------------------
(* What the integrity pass checks, on either side.                          *)

ImportsVerify == \A k \in Packages :
  /\ imported[k] # "none" => package[k] # "none"
  /\ imported[k] = "accepted" => key[Owner(k)] = "active" /\ package[k] = "published"

VersionsVerify(rows, known) == \A k \in Packages : \A l \in rows[k] :
  /\ known[k] # "none"
  /\ \A q \in l.pred : \E m \in rows[q] : m.series = l.series /\ m.version < l.version

SyncEventsVerify == \A p \in Publishers : \A i \in DOMAIN feed[p] :
  /\ shelf[feed[p][i].package] # "none"
  /\ feed[p][i].type = "revoked" => shelf[feed[p][i].package] = "revoked"
  /\ \A j \in DOMAIN feed[p] : feed[p][i] = feed[p][j] => i = j

RemoteEventsVerify == \A p \in Publishers :
  /\ {r.sequence : r \in remote[p]} = 1 .. Cardinality(remote[p])
  /\ \A r \in remote[p] : package[r.event.package] # "none"
  /\ peer[p].cursor >= Cardinality(remote[p])

SyncRunsVerify == \A p \in Publishers : \A r \in run[p] :
  /\ r.after >= r.before
  /\ r.imported + r.revoked <= r.after - r.before

EvaluationsVerify == \A k \in Packages :
  verdict[k] # "none" => imported[k] # "none"

CheckCommonKnowledge ==
  /\ ImportsVerify
  /\ VersionsVerify(version, package) /\ VersionsVerify(line, shelf)
  /\ SyncEventsVerify /\ RemoteEventsVerify
  /\ SyncRunsVerify /\ EvaluationsVerify

------------------------------------------------------------------------------
(* Properties.                                                              *)

\* The integrity pass of the reader and of its publishers accepts every state that
\* synchronizing, evaluating and changing keys can reach (_check_common_knowledge).
KnowledgeVerifies == CheckCommonKnowledge

\* However many synchronizations of a peer overlap, fail or are cut off, the reader
\* has applied exactly the first events of the publisher's feed, each once and in
\* order, and its cursor counts them (_apply_remote_event, _assert_sync_peer).
ReaderHasPrefix == \A p \in Publishers :
  /\ peer[p].cursor = Cardinality(remote[p])
  /\ peer[p].cursor <= Len(feed[p])
  /\ \A r \in remote[p] : r.event = feed[p][r.sequence]

\* Once the reader has applied a revocation, the package is out of quarantine and
\* not accepted, also when an evaluation of it was under way.
RevokedStaysOut == \A p \in Publishers : \A r \in remote[p] :
  r.event.type = "revoked" => /\ package[r.event.package] = "revoked"
                              /\ imported[r.event.package] \notin {"quarantined", "accepted"}

\* An entity tag is remembered only for a feed that has been read that far, so
\* that an answer "unchanged" never hides events.
TagIsRead == \A p \in Publishers : \A n \in peer[p].etag : n <= peer[p].cursor

\* A package that was rejected or withdrawn never comes back, whether its key is
\* trusted again, its envelope imported again or its feed read again; and nothing
\* is accepted but what the subject asked to evaluate, while its key is trusted.
NeverRevived == \A k \in Packages :
  /\ imported[k] \in {"rejected", "revoked"} => imported'[k] = imported[k]
  /\ imported[k] # "accepted" /\ imported'[k] = "accepted" =>
       verdict[k] = "requested" /\ imported[k] = "quarantined" /\ key[Owner(k)] = "active"

ReadToEnd(p) == p \in DOMAIN feed /\ peer[p].cursor = Len(feed[p])
Trusted(p) == p \in DOMAIN key /\ key[p] = "active"

\* A peer whose key stays trusted is read to the end of its feed again and again,
\* also beside a peer whose key was revoked (sync_due).
FeedsAreRead == \A p \in Publishers : <>[]Trusted(p) => []<>ReadToEnd(p)

Fairness ==
  /\ \A w \in Workers : WF_vars(SyncDue(w)) /\ WF_vars(SyncPeer(w))
  /\ \A p \in Publishers : WF_vars(BecomesDue(p))
==============================================================================
