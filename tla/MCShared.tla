------------------------------- MODULE MCShared -------------------------------
(***************************************************************************)
(* What the subject shares for TLC. Each behaviour exercises one           *)
(* component, in one of the scenes below, and leaves the others where they *)
(* started.                                                                *)
(***************************************************************************)
EXTENDS Integers, Sequences, FiniteSets

CONSTANT Scenes  \* the scenes of the run

VARIABLES
  scene,
  shelf, line, feed, key, package, imported, version, peer, remote, run, verdict, due,
  worker, expired, count

commons == <<shelf, line, feed, key, package, imported, version, peer, remote, run,
  verdict, due, worker, expired, count>>
vars == <<scene, commons>>

\* The tick and the HTTP route synchronize one peer while its key and package are
\* revoked.
Overlap == INSTANCE CommonKnowledge WITH
  Publishers <- {"p"}, PerPublisher <- 1, MaxVersion <- 1, Legacy <- {},
  Workers <- {"tick", "route"}, MaxPeers <- 1, PageLimit <- 2, MaxEvents <- 3,
  Evaluates <- FALSE, MaxRoutes <- 1, MaxKeyChanges <- 1, MaxRevocations <- 1,
  MaxExpiries <- 0, MaxFaults <- 1

\* One reader of a series with a package older than the feed.
Shelved == INSTANCE CommonKnowledge WITH
  Publishers <- {"p"}, PerPublisher <- 2, MaxVersion <- 2, Legacy <- {<<"p", 1>>},
  Workers <- {"tick"}, MaxPeers <- 1, PageLimit <- 2, MaxEvents <- 2, Evaluates <- TRUE,
  MaxRoutes <- 0, MaxKeyChanges <- 0, MaxRevocations <- 1, MaxExpiries <- 0,
  MaxFaults <- 0

\* One package whose key, validity or publication ends while it is evaluated.
Evaluated == INSTANCE CommonKnowledge WITH
  Publishers <- {"p"}, PerPublisher <- 1, MaxVersion <- 1, Legacy <- {},
  Workers <- {"tick"}, MaxPeers <- 1, PageLimit <- 2, MaxEvents <- 2, Evaluates <- TRUE,
  MaxRoutes <- 0, MaxKeyChanges <- 1, MaxRevocations <- 1, MaxExpiries <- 1,
  MaxFaults <- 1

\* Two peers, small pages.
Followed == INSTANCE CommonKnowledge WITH
  Publishers <- {"p", "q"}, PerPublisher <- 1, MaxVersion <- 1, Legacy <- {},
  Workers <- {"tick"}, MaxPeers <- 2, PageLimit <- 1, MaxEvents <- 1,
  Evaluates <- FALSE, MaxRoutes <- 0, MaxKeyChanges <- 1, MaxRevocations <- 1,
  MaxExpiries <- 0, MaxFaults <- 0

------------------------------------------------------------------------------
\* Every component starts; only the one the scene is about takes steps.
Init ==
  /\ scene \in Scenes
  /\ CASE scene = "overlap" -> Overlap!Init
       [] scene = "shelved" -> Shelved!Init
       [] scene = "evaluated" -> Evaluated!Init
       [] OTHER -> Followed!Init

Next ==
  /\ \/ /\ \/ scene = "overlap" /\ Overlap!Next
           \/ scene = "shelved" /\ Shelved!Next
           \/ scene = "evaluated" /\ Evaluated!Next
           \/ scene = "peers" /\ Followed!Next
  /\ UNCHANGED scene

FollowedDoes(A) == scene = "peers" /\ A /\ UNCHANGED <<scene>>

\* The fairness each component justifies for itself.
Spec == /\ Init /\ [][Next]_vars
        /\ WF_vars(FollowedDoes(Followed!SyncDue("tick")))
        /\ WF_vars(FollowedDoes(Followed!SyncPeer("tick")))
        /\ \A p \in {"p", "q"} : WF_vars(FollowedDoes(Followed!BecomesDue(p)))

------------------------------------------------------------------------------
\* Every variable has its type, in every scene.
TypeOK ==
  CASE scene = "overlap" -> Overlap!TypeOK
    [] scene = "shelved" -> Shelved!TypeOK
    [] scene = "evaluated" -> Evaluated!TypeOK
    [] scene = "peers" -> Followed!TypeOK

\* The integrity pass accepts the shared knowledge of reader and publishers.
KnowledgeVerifies ==
  /\ scene = "overlap" => Overlap!KnowledgeVerifies
  /\ scene = "shelved" => Shelved!KnowledgeVerifies
  /\ scene = "evaluated" => Evaluated!KnowledgeVerifies
  /\ scene = "peers" => Followed!KnowledgeVerifies

\* The reader has applied the first events of each feed, once and in order.
ReaderHasPrefix ==
  /\ scene = "overlap" => Overlap!ReaderHasPrefix
  /\ scene = "shelved" => Shelved!ReaderHasPrefix
  /\ scene = "evaluated" => Evaluated!ReaderHasPrefix
  /\ scene = "peers" => Followed!ReaderHasPrefix

\* A revocation that was applied keeps the package out.
RevokedStaysOut ==
  /\ scene = "overlap" => Overlap!RevokedStaysOut
  /\ scene = "shelved" => Shelved!RevokedStaysOut
  /\ scene = "evaluated" => Evaluated!RevokedStaysOut

\* An entity tag is remembered only for a feed that was read.
TagIsRead ==
  /\ scene = "overlap" => Overlap!TagIsRead
  /\ scene = "shelved" => Shelved!TagIsRead
  /\ scene = "evaluated" => Evaluated!TagIsRead
  /\ scene = "peers" => Followed!TagIsRead

\* A package that was rejected or withdrawn never comes back.
NeverRevived ==
  [][/\ scene = "overlap" => Overlap!NeverRevived
     /\ scene = "shelved" => Shelved!NeverRevived
     /\ scene = "evaluated" => Evaluated!NeverRevived]_vars

\* The feed of a trusted peer is read to its end.
FeedsAreRead == scene = "peers" => Followed!FeedsAreRead

\* Shared knowledge: evidence verifies, feeds are applied in order and revocations
\* hold.
SharedSafe ==
  /\ TypeOK
  /\ KnowledgeVerifies
  /\ ReaderHasPrefix
  /\ RevokedStaysOut
  /\ TagIsRead

\* Withdrawn packages never come back.
SharedStepsLegal == NeverRevived


==============================================================================
