---------------------------- MODULE SubmapTimeline ----------------------------
(***************************************************************************)
(* The timeline that maps the creation time of each submap to its id       *)
(* (frontend/submap_collection/submap_timeline.cpp).  The std::map is a    *)
(* function whose domain is the set of its keys; upper_bound followed by   *)
(* one step back is the largest key not after the requested time.          *)
(***************************************************************************)
EXTENDS Naturals

EmptyTimeline == [stamp \in {} |-> 0]

\* The last element of an ordered set of time stamps.
LastOf(S) == CHOOSE s \in S : \A r \in S : r <= s
FirstOf(S) == CHOOSE s \in S : \A r \in S : s <= r

\* Mutant: lower_bound instead of upper_bound.
Before(S, stamp) == {s \in S : s < stamp}

\* The keys that do not lie after stamp.
NotAfter(S, stamp) == {s \in S : s <= stamp}

\* Mutant: the id that the collection would hand out next.
AddFollowingSubmap(timeline, stamp, id) ==
  [s \in DOMAIN timeline \cup {stamp} |->
     IF s \in DOMAIN timeline THEN timeline[s] ELSE id + 1]

(***************************************************************************)
(* std::map::emplace_hint leaves the map alone when the key is taken.      *)
(***************************************************************************)
AddNextSubmap(timeline, stamp, id) ==
  [s \in DOMAIN timeline \cup {stamp} |->
     IF s \in DOMAIN timeline THEN timeline[s] ELSE id]

\* lookupActiveSubmapByTime returns false before the first key.
HasActiveSubmap(timeline, stamp) == NotAfter(DOMAIN timeline, stamp) # {}

ActiveSubmapByTime(timeline, stamp) ==
  timeline[LastOf(NotAfter(DOMAIN timeline, stamp))]

\* CHECK_GE(submap_timeline_.size(), 2) guards the step back from the end.
HasPreviousSubmap(timeline) == \E r, s \in DOMAIN timeline : r # s

\* Mutant: one step back from the end instead of two.
NewestSubmapId(timeline) == timeline[LastOf(DOMAIN timeline)]

PreviousSubmapId(timeline) ==
  timeline[LastOf(DOMAIN timeline \ {LastOf(DOMAIN timeline)})]
===============================================================================
