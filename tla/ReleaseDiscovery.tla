-------------------------- MODULE ReleaseDiscovery --------------------------
(***************************************************************************)
(* Which release a startup update adopts: a bounded listing of the owner's *)
(* releases, the newest of the current major first, each bound to its      *)
(* metadata, lock and wheel; answers are reused for a while                *)
(* (startup_releases.py, installation.py, startup_installation.py).        *)
(*                                                                         *)
(* A version is <<major, minor>>.  A release is its tag; stable, immutable *)
(* and assets, as the listing says; reachable, when its metadata and lock  *)
(* are read with their digests; automatic, identity, from and before, what *)
(* they declare; agrees, when tag, lock and wheel are of one version.      *)
(***************************************************************************)
EXTENDS Naturals, Sequences, FiniteSets, SequencesExt

CONSTANTS PageSize, MaxPages,  \* of a listing
          MaxCandidates        \* releases looked into

ASSUME DiscoveryAssumption == MaxCandidates \in Nat \ {0}

\* A version and a release of a listing.
Tags == Nat \X Nat
Published == [tag : Tags, stable : BOOLEAN, immutable : BOOLEAN, assets : BOOLEAN, automatic : BOOLEAN, identity : BOOLEAN,
            reachable : BOOLEAN, agrees : BOOLEAN, from : Tags, before : Tags]

Newer(v, w) == v[1] > w[1] \/ (v[1] = w[1] /\ v[2] > w[2])
NotOlder(v, w) == v = w \/ Newer(v, w)

Answer(status, version) == [status |-> status, version |-> version]
NoVersion == <<0, 0>>

\* eligible, _compatible_identity: from an authorized older version of the same
\* major, without a change of integration, the lock what was published.
Authorized(current, release) ==
  /\ release.automatic /\ release.identity
  /\ Newer(release.tag, current) /\ release.tag[1] = current[1]
  /\ NotOlder(current, release.from) /\ Newer(release.before, current)

\* _candidate: what the listing says, then what is downloaded; "deferred" is an
\* error that ends discovery.
Candidate(current, release) ==
  IF ~release.immutable \/ ~release.assets THEN "approval-required"
  ELSE IF ~release.reachable THEN "deferred"
  ELSE IF ~Authorized(current, release) THEN "approval-required"
  ELSE IF ~release.agrees THEN "deferred"
  ELSE "available"

\* _release_inventory: all pages, or nothing.
Listed(releases) == Len(releases) < PageSize * MaxPages

\* The stable releases of the current major that are newer, the highest first:
\* those that as many others precede as are looked into at most.
Upgrades(current, releases) ==
  {r \in ToSet(releases) : r.stable /\ Newer(r.tag, current) /\ r.tag[1] = current[1]}
LookedInto(current, releases) ==
  LET upgrades == Upgrades(current, releases)
  IN {r \in upgrades : Cardinality({s \in upgrades : Newer(s.tag, r.tag)}) < MaxCandidates}
Highest(releases) == CHOOSE r \in releases : \A s \in releases : ~Newer(s.tag, r.tag)

\* _discover: the first of the newest that is decided without approval.
DiscoverAnyway(current, releases) ==                                       \* faulty
  LET looked == {r \in LookedInto(current, releases) : Candidate(current, r) = "available"}
  IN IF looked = {} THEN Answer("current", NoVersion) ELSE Answer("available", Highest(looked).tag)
Discover(current, releases) ==
  LET looked == LookedInto(current, releases)
      decided == {r \in looked : Candidate(current, r) # "approval-required"}
      majors == {r \in ToSet(releases) : r.stable /\ r.tag[1] > current[1]}
  IN IF ~Listed(releases) THEN Answer("deferred", NoVersion)
     ELSE IF decided # {}
     THEN LET r == Highest(decided)
          IN IF Candidate(current, r) = "available" THEN Answer("available", r.tag) ELSE Answer("deferred", NoVersion)
     ELSE IF looked # {} THEN Answer("approval-required", Highest(looked).tag)
     ELSE IF majors # {} THEN Answer("approval-required", Highest(majors).tag)
     ELSE Answer("current", NoVersion)

\* discover: an answer is kept with what it was asked for and when; one that
\* would install something is examined again.
Reused(current, cached, now, lifetime) ==
  /\ cached.key = current /\ cached.answer.status # "deferred" /\ cached.at <= now /\ now < cached.at + lifetime
  /\ cached.answer.status = "available" => Authorized(current, cached.release)
DiscoverCached(current, releases, cached, now, lifetime) ==
  IF Reused(current, cached, now, lifetime) THEN cached.answer ELSE Discover(current, releases)

-----------------------------------------------------------------------------
(* Properties. *)

\* What can be asked: of any listing, with any answer kept that discovery gave.
Inquiries ==
  {c \in [current : Tags, releases : Seq(Published), now : Nat, lifetime : Nat,
          cached : [key : Tags, answer : [status : {"deferred", "available", "approval-required", "current"}, version : Tags],
                    at : Nat, listing : Seq(Published), release : Published]] :
     c.cached.answer.status # "deferred" => c.cached.answer = Discover(c.cached.key, c.cached.listing)}

\* Nothing is adopted that its owner did not authorize from the version in use,
\* nor a draft, a mutable release or another major; a newer release is passed
\* over only for one that needs approval, never because it could not be read;
\* and "current" is answered only when there is nothing newer.
AdoptsAuthorized(c) ==
  LET answer == DiscoverCached(c.current, c.releases, c.cached, c.now, c.lifetime)
      seen == IF Reused(c.current, c.cached, c.now, c.lifetime) THEN c.cached.listing ELSE c.releases
      adopted == {r \in ToSet(seen) : r.tag = answer.version}
      newer == {r \in ToSet(seen) : r.stable /\ Newer(r.tag, c.current) /\ r.tag[1] = c.current[1]}
  IN /\ answer.status = "available" =>
          /\ adopted \cap newer # {}
          /\ \E r \in adopted : /\ r.stable /\ r.immutable /\ r.assets /\ r.automatic /\ r.identity /\ r.reachable /\ r.agrees
                                /\ r.tag[1] = c.current[1] /\ Newer(r.before, c.current) /\ ~Newer(r.from, c.current)
          /\ \A r \in newer : Newer(r.tag, answer.version) => Candidate(c.current, r) = "approval-required"
     /\ answer.status = "current" => \A r \in ToSet(seen) : r.stable => ~Newer(r.tag, c.current)
     /\ answer.status = "approval-required" /\ newer # {} => adopted \cap newer # {} /\ \A r \in newer : ~Newer(r.tag, answer.version)
=============================================================================
