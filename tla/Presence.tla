------------------------------ MODULE Presence ------------------------------
(***************************************************************************)
(* Which agents are online, where and free (app/agent PresenceService), and *)
(* the search for candidates over it (AssignmentService.findCandidates).   *)
(*                                                                         *)
(* Three Redis keys per region are read and written by calls of their own: *)
(* a hash per agent that expires, a geo set and a set of busy agents.      *)
(* Nothing ever leaves the geo set: goOffline throws before its first      *)
(* write.  Time is discrete.                                               *)
(***************************************************************************)
EXTENDS Naturals, FiniteSets, Sequences, Functions

CONSTANTS Agents,
          Distances,   \* from the branch that an agent is needed for
          Radius,      \* env.delivery.radiusMeters
          Wanted,      \* env.delivery.candidates
          Overscan,    \* agents looked at for a candidate, 4 in the code
          TTL,         \* env.delivery.presenceStaleSec
          MaxSearch,   \* bound on the duration of a search
          MaxClock     \* bound on the time

ASSUME PresenceAssumption ==
    /\ IsFiniteSet(Agents)
    /\ Distances \subseteq Nat \ {0}
    /\ {Radius, MaxSearch, MaxClock} \subseteq Nat
    /\ {Wanted, Overscan, TTL} \subseteq Nat \ {0}

VARIABLES meta,    \* agent -> when presence:meta expires; 0: no key
          geo,     \* agent -> distance in presence:geo; 0: not in the set
          busy,    \* presence:busy
          coming,  \* agent -> distance of its goOnline in progress, or 0
          search,  \* the search in progress
          heard,   \* history: when an agent went online last
          clock

presenceVars == <<meta, geo, busy, coming, search, heard, clock>>

Clock == 0..MaxClock
Forever == MaxClock + TTL + 1
Scanned == Overscan * Wanted

\* left: what geosearch found and was not looked at.  full: there were more in
\* the radius.  there: history, agents that were near, fresh and free since
\* the search began.
Search == [pc : {"idle", "scan", "busy", "done"}, left : Seq(Agents),
           result : SUBSET Agents, full : BOOLEAN, started : Clock,
           there : SUBSET Agents]
NoSearch == [pc |-> "idle", left |-> <<>>, result |-> {}, full |-> FALSE,
             started |-> 0, there |-> {}]

PresenceTypeOK ==
    /\ meta \in [Agents -> 0..Forever]
    /\ geo \in [Agents -> Distances \cup {0}]
    /\ busy \subseteq Agents
    /\ coming \in [Agents -> Distances \cup {0}]
    /\ search \in Search
    /\ heard \in [Agents -> Clock]
    /\ clock \in Clock

PresenceInit ==
    /\ meta = [a \in Agents |-> 0]
    /\ geo = [a \in Agents |-> 0]
    /\ busy = {}
    /\ coming = [a \in Agents |-> 0]
    /\ search = NoSearch
    /\ heard = [a \in Agents |-> 0]
    /\ clock = 0

-----------------------------------------------------------------------------
(* Agents *)

IsNear(a) == geo[a] # 0 /\ geo[a] <= Radius
IsThere(a) == IsNear(a) /\ meta[a] # 0 /\ a \notin busy

\* What a change leaves of the agents that were there all the time.
Watch == search' = [search EXCEPT !.there = {a \in @ : IsThere(a)'}]

\* Mistaken variant: HSET, then EXPIRE, and a crash in between.
HsetWithTtlInTwo(a) ==
    \E expires \in {clock + TTL, Forever} : meta' = [meta EXCEPT ![a] = expires]

\* MULTI, HSET, EXPIRE, EXEC.
HsetWithTtl(a) == meta' = [meta EXCEPT ![a] = clock + TTL]

GoOnline(a, distance) ==
    /\ coming[a] = 0
    /\ HsetWithTtl(a)
    /\ coming' = [coming EXCEPT ![a] = distance]
    /\ heard' = [heard EXCEPT ![a] = clock]
    /\ UNCHANGED <<geo, busy, search, clock>>

\* GEOADD moves an agent that is in the set.
GeoAdd(a) ==
    /\ coming[a] # 0
    /\ geo' = [geo EXCEPT ![a] = coming[a]]
    /\ coming' = [coming EXCEPT ![a] = 0]
    /\ UNCHANGED <<meta, busy, heard, clock>>
    /\ Watch

\* The process dies, or Redis cannot be reached.
GoOnlineFails(a) ==
    /\ coming[a] # 0
    /\ coming' = [coming EXCEPT ![a] = 0]
    /\ UNCHANGED <<meta, geo, busy, search, heard, clock>>

\* findOrdersByDeliveryAgent for `picked`: a list, which counts as true even
\* when it is empty.
HasActive(a) == TRUE

\* Geo set, hash and busy mark; in the model at once.
Leave(a) ==
    /\ geo' = [geo EXCEPT ![a] = 0]
    /\ meta' = [meta EXCEPT ![a] = 0]
    /\ busy' = busy \ {a}
    /\ UNCHANGED <<coming, search, heard, clock>>

\* 409 AgentInActiveDeliveryError, every time.
GoOffline(a) == IF HasActive(a) THEN UNCHANGED presenceVars ELSE Leave(a)

\* By a claim.
MarkBusy(a) ==
    /\ busy' = busy \cup {a}
    /\ UNCHANGED <<meta, geo, coming, heard, clock>>
    /\ Watch

\* By a delivery.
MarkFree(a) ==
    /\ busy' = busy \ {a}
    /\ UNCHANGED <<meta, geo, coming, search, heard, clock>>

\* MaxSearch, MaxClock; Redis forgets the hashes in time.
ClockTicks ==
    /\ clock < MaxClock
    /\ search.pc # "idle" => clock < search.started + MaxSearch
    /\ clock' = clock + 1
    /\ meta' = [a \in Agents |-> IF meta[a] <= clock + 1 THEN 0 ELSE meta[a]]
    /\ UNCHANGED <<geo, busy, coming, heard>>
    /\ Watch

-----------------------------------------------------------------------------
(* findCandidates *)

Near == {a \in Agents : IsNear(a)}
Least(m, n) == IF m < n THEN m ELSE n

\* The Scanned nearest of Near, in the order of their distance.
Nearest ==
    {s \in Injection(1..Least(Scanned, Cardinality(Near)), Near) :
        /\ \A i, j \in DOMAIN s : i < j => geo[s[i]] <= geo[s[j]]
        /\ \A a \in Near \ Range(s), i \in DOMAIN s : geo[s[i]] <= geo[a]}

\* geosearchByRadius.
GeoSearch ==
    /\ search.pc = "idle"
    /\ \E s \in Nearest :
           search' = [NoSearch EXCEPT !.pc = "scan", !.left = s,
                          !.full = Cardinality(Near) > Scanned, !.started = clock,
                          !.there = {a \in Agents : IsThere(a)}]
    /\ UNCHANGED <<meta, geo, busy, coming, heard, clock>>

\* Mistaken variant: the first who is stale or busy ends the search.
SkipsTheRest == [search EXCEPT !.pc = "done", !.left = <<>>]

\* `continue`.
Skips == [search EXCEPT !.pc = "scan", !.left = Tail(@)]

\* EXISTS presence:meta.
CheckFresh ==
    /\ search.pc = "scan"
    /\ search.left # <<>>
    /\ search' = IF meta[Head(search.left)] = 0 THEN Skips
                 ELSE [search EXCEPT !.pc = "busy"]
    /\ UNCHANGED <<meta, geo, busy, coming, heard, clock>>

\* A candidate, the last of them if there are enough.
Picks ==
    LET found == search.result \cup {Head(search.left)}
    IN  [search EXCEPT !.result = found, !.left = Tail(@),
             !.pc = IF Cardinality(found) >= Wanted THEN "done" ELSE "scan"]

\* SISMEMBER presence:busy.
CheckBusy ==
    /\ search.pc = "busy"
    /\ search' = IF Head(search.left) \in busy THEN Skips ELSE Picks
    /\ UNCHANGED <<meta, geo, busy, coming, heard, clock>>

Exhaust ==
    /\ search.pc = "scan"
    /\ search.left = <<>>
    /\ search' = [search EXCEPT !.pc = "done"]
    /\ UNCHANGED <<meta, geo, busy, coming, heard, clock>>

\* The caller has the candidates, or a call failed.
EndSearch ==
    /\ search.pc # "idle"
    /\ search' = NoSearch
    /\ UNCHANGED <<meta, geo, busy, coming, heard, clock>>

PresenceNext ==
    \/ \E a \in Agents : \/ \E distance \in Distances : GoOnline(a, distance)
                         \/ GeoAdd(a) \/ GoOnlineFails(a) \/ GoOffline(a)
                         \/ MarkBusy(a) \/ MarkFree(a)
    \/ ClockTicks \/ GeoSearch \/ CheckFresh \/ CheckBusy \/ Exhaust \/ EndSearch

PresenceSpec == PresenceInit /\ [][PresenceNext]_presenceVars

-----------------------------------------------------------------------------
(* Properties *)

\* Nobody is a candidate who has not been heard of for longer than the
\* presence TTL and the time of a search: no crash makes an agent permanently
\* online, although nothing ever removes him from the geo set.
CandidatesAreRecent ==
    \A a \in search.result : clock < heard[a] + TTL + MaxSearch

\* An agent who is near, fresh and free throughout a search is found by it,
\* whatever becomes of the others meanwhile, unless it found enough or the
\* geo set had more agents in the radius, stale or not, than are looked at.
WhoIsThereIsFound ==
    search.pc = "done" => \/ search.there \subseteq search.result
                          \/ Cardinality(search.result) = Wanted
                          \/ search.full
=============================================================================
