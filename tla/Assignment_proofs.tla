-------------------------- MODULE Assignment_proofs --------------------------
(***************************************************************************)
(* The safety of claims in Assignment, and the bound on the attempts, for  *)
(* any orders, agents, workers and requests, and for any loss of keys.     *)
(***************************************************************************)
EXTENDS Assignment, FiniteSetTheorems, TLAPS

\* What the proof needs of TypeOK.
Typed ==
    /\ agent \in [Orders -> Agents \cup {None}]
    /\ claim \in [Claimers -> Claim]
    /\ DOMAIN status = Orders
    /\ DOMAIN offer = Orders
    /\ DOMAIN invited = Orders
    /\ DOMAIN reject = Rejecters

\* A request is about an agent who was invited.
ClaimIsOfInvited ==
    \A c \in Claimers : claim[c].pc # "idle" =>
        /\ claim[c].agent \in Agents
        /\ claim[c].order \in Orders
        /\ claim[c].agent \in invited[claim[c].order]

\* So is everyone whom an offer names, or a reject writes back.
OfferIsOfInvited == \A o \in Orders : offer[o] \subseteq invited[o]
RejectIsOfInvited ==
    \A r \in Rejecters : reject[r].pc = "write" =>
        /\ reject[r].order \in Orders
        /\ reject[r].left \subseteq invited[reject[r].order]

\* The inductive invariant.
IInv == /\ Typed
        /\ ClaimIsOfInvited
        /\ OfferIsOfInvited
        /\ RejectIsOfInvited
        /\ OneWinner
        /\ WinnerWasInvited

-----------------------------------------------------------------------------

LEMMA InitIInv == Init => IInv
<1> SUFFICES ASSUME Init
             PROVE  IInv
  OBVIOUS
<1>1. NoClaim \in Claim /\ NoClaim.pc = "idle" /\ NoReject.pc = "idle"
  BY DEF NoClaim, Claim, OrderOrNone, NoReject
<1>2. Typed
  BY <1>1 DEF Init, Typed
<1> QED
  BY <1>1, <1>2 DEF IInv, Init, ClaimIsOfInvited, OfferIsOfInvited,
     RejectIsOfInvited, OneWinner, WinnerWasInvited

\* A step that adds to the invited leaves the claims' part.
LEMMA InvitesKeepClaims ==
    ASSUME IInv, UNCHANGED <<agent, claim>>, DOMAIN status' = Orders,
           DOMAIN offer' = Orders, DOMAIN invited' = Orders,
           DOMAIN reject' = Rejecters,
           \A o \in Orders : invited[o] \subseteq invited'[o],
           OfferIsOfInvited', RejectIsOfInvited'
    PROVE  IInv'
<1>1. Typed'
  BY DEF IInv, Typed
<1>2. ClaimIsOfInvited'
  BY DEF IInv, ClaimIsOfInvited
<1>3. OneWinner'
  BY DEF IInv, OneWinner
<1>4. WinnerWasInvited'
  BY DEF IInv, WinnerWasInvited
<1> QED
  BY <1>1, <1>2, <1>3, <1>4 DEF IInv

\* The job: an offer invites its candidates.
LEMMA WorkerKeepsIInv ==
    ASSUME IInv, NEW w \in Workers, WorkerStep(w) \/ TryFails(w)
    PROVE  IInv'
<1>1. UNCHANGED <<rowVars, claim, reject>>
  BY DEF WorkerStep, Fetch, Look, Find, Ask, SearchEnds, Offer, Count, TryFails, rowVars
<1>2. \/ UNCHANGED <<offer, invited>>
      \/ \E o \in Orders : \E cands \in {tick[w].cands} :
             /\ offer' = [offer EXCEPT ![o] = cands]
             /\ invited' = [invited EXCEPT ![o] = @ \cup cands]
  BY DEF WorkerStep, Fetch, Look, Find, Ask, SearchEnds, Offer, Count, TryFails
<1>3. /\ DOMAIN offer' = Orders /\ DOMAIN invited' = Orders
      /\ \A o \in Orders : invited[o] \subseteq invited'[o]
      /\ OfferIsOfInvited'
  BY <1>2 DEF IInv, Typed, OfferIsOfInvited
<1>4. RejectIsOfInvited'
  BY <1>1, <1>3 DEF IInv, RejectIsOfInvited
<1>5. UNCHANGED <<agent, claim>> /\ DOMAIN status' = Orders /\ DOMAIN reject' = Rejecters
  BY <1>1 DEF rowVars, IInv, Typed
<1> QED
  BY <1>3, <1>4, <1>5, InvitesKeepClaims

\* A reject writes back a part of what it read.
LEMMA RejectKeepsIInv ==
    ASSUME IInv, NEW r \in Rejecters,
           \/ \E a \in Agents, o \in Orders : RejectRead(r, a, o)
           \/ RejectWrite(r) \/ RejectFails(r)
    PROVE  IInv'
<1>1. UNCHANGED <<rowVars, claim, invited>>
  BY DEF RejectRead, RejectWrite, RejectFails, rowVars
<1>2. NoReject.pc = "idle"
  BY DEF NoReject
<1>3. DOMAIN offer' = Orders /\ DOMAIN reject' = Rejecters
  BY DEF RejectRead, RejectWrite, RejectFails, IInv, Typed
<1>4. OfferIsOfInvited' /\ RejectIsOfInvited'
  <2>1. CASE \E a \in Agents, o \in Orders : RejectRead(r, a, o)
    <3>1. PICK a \in Agents, o \in Orders : RejectRead(r, a, o)
      BY <2>1
    <3>2. /\ reject' = [reject EXCEPT ![r] = [pc |-> "write", order |-> o,
                                             left |-> offer[o] \ {a}]]
          /\ offer' = offer
      BY <3>1 DEF RejectRead
    <3> QED
      BY <1>1, <3>2 DEF IInv, Typed, OfferIsOfInvited, RejectIsOfInvited
  <2>2. CASE RejectWrite(r)
    BY <1>1, <1>2, <2>2 DEF RejectWrite, IInv, Typed, OfferIsOfInvited,
       RejectIsOfInvited
  <2>3. CASE RejectFails(r)
    BY <1>1, <1>2, <2>3 DEF RejectFails, IInv, Typed, OfferIsOfInvited,
       RejectIsOfInvited
  <2> QED
    BY <2>1, <2>2, <2>3
<1>5. UNCHANGED <<agent, claim>> /\ DOMAIN status' = Orders /\ DOMAIN invited' = Orders
      /\ \A o \in Orders : invited[o] \subseteq invited'[o]
  BY <1>1 DEF rowVars, IInv, Typed
<1> QED
  BY <1>3, <1>4, <1>5, InvitesKeepClaims

\* The end of an order, and of keys.
LEMMA EndKeepsIInv ==
    ASSUME IInv, NEW o \in Orders,
           \/ Deliver(o) \/ MarkFree(o) \/ Unlock(o) \/ Leave(o)
           \/ OfferExpires(o) \/ LockExpires(o) \/ AttemptsExpire(o)
    PROVE  IInv'
<1>1. UNCHANGED <<agent, claim, reject, invited>>
  BY DEF Deliver, MarkFree, Unlock, Leave, OfferExpires, LockExpires,
     AttemptsExpire, rowVars, requestVars
<1>2. DOMAIN status' = Orders
  BY DEF Deliver, MarkFree, Unlock, Leave, OfferExpires, LockExpires,
     AttemptsExpire, rowVars, IInv, Typed
<1>3. offer' = offer \/ offer' = [offer EXCEPT ![o] = {}]
  BY DEF Deliver, MarkFree, Unlock, Leave, OfferExpires, LockExpires,
     AttemptsExpire
<1>4. DOMAIN offer' = Orders /\ OfferIsOfInvited' /\ RejectIsOfInvited'
  BY <1>1, <1>3 DEF IInv, Typed, OfferIsOfInvited, RejectIsOfInvited
<1>5. DOMAIN invited' = Orders /\ DOMAIN reject' = Rejecters
      /\ \A p \in Orders : invited[p] \subseteq invited'[p]
  BY <1>1 DEF IInv, Typed
<1> QED
  BY <1>1, <1>2, <1>4, <1>5, InvitesKeepClaims

-----------------------------------------------------------------------------

\* A request comes in for an agent who has an offer or is named by an admin.
LEMMA ClaimBeginsKeepsIInv ==
    ASSUME IInv, NEW c \in Claimers, NEW a \in Agents, NEW o \in Orders,
           Accept(c, a, o) \/ AdminAssign(c, a, o)
    PROVE  IInv'
<1> DEFINE new == [pc |-> "lock", agent |-> a, order |-> o]
<1>1. /\ UNCHANGED <<agent, status, offer, reject>>
      /\ claim' = [claim EXCEPT ![c] = new]
  BY DEF Accept, AdminAssign, rowVars
<1>2. /\ DOMAIN invited' = Orders /\ a \in invited'[o]
      /\ \A p \in Orders : invited[p] \subseteq invited'[p]
  BY DEF Accept, AdminAssign, MayAccept, IInv, Typed, OfferIsOfInvited
<1>3. new \in Claim
  BY DEF Claim, OrderOrNone
<1>4. Typed'
  BY <1>1, <1>2, <1>3 DEF IInv, Typed
<1>5. ClaimIsOfInvited'
  BY <1>1, <1>2 DEF IInv, Typed, ClaimIsOfInvited
<1>6. OfferIsOfInvited' /\ RejectIsOfInvited' /\ WinnerWasInvited'
  BY <1>1, <1>2 DEF IInv, OfferIsOfInvited, RejectIsOfInvited, WinnerWasInvited
<1>7. OneWinner'
  BY <1>1 DEF IInv, Typed, OneWinner
<1> QED
  BY <1>4, <1>5, <1>6, <1>7 DEF IInv

\* A request goes on, without a commit, or ends.
LEMMA ClaimMovesKeepsIInv ==
    ASSUME IInv, NEW c \in Claimers, claim[c].pc # "idle",
           UNCHANGED <<agent, status, reject, invited>>,
           DOMAIN offer' = Orders,
           \A o \in Orders : offer'[o] \in {offer[o], {}},
           \/ claim' = ClaimEnds(c)
           \/ \E pc \in {"db", "undo"} : claim' = ClaimGoes(c, pc)
           \/ claim' = ClaimGoes(c, "cleanup") /\ claim[c].pc = "busy"
    PROVE  IInv'
<1>1. NoClaim \in Claim /\ NoClaim.pc = "idle"
  BY DEF NoClaim, Claim, OrderOrNone
<1>2. /\ claim' \in [Claimers -> Claim]
      /\ \A d \in Claimers \ {c} : claim'[d] = claim[d]
      /\ \/ claim'[c].pc = "idle"
         \/ /\ claim'[c].agent = claim[c].agent /\ claim'[c].order = claim[c].order
            /\ \/ claim'[c].pc \in {"db", "undo"}
               \/ claim'[c].pc = "cleanup" /\ claim[c].pc = "busy"
  <2>1. CASE claim' = ClaimEnds(c)
    BY <1>1, <2>1 DEF ClaimEnds, IInv, Typed
  <2>2. ASSUME NEW pc \in {"db", "undo", "cleanup"}, claim' = ClaimGoes(c, pc)
        PROVE  /\ claim' \in [Claimers -> Claim]
               /\ \A d \in Claimers \ {c} : claim'[d] = claim[d]
               /\ claim'[c].agent = claim[c].agent
               /\ claim'[c].order = claim[c].order
               /\ claim'[c].pc = pc
    BY <2>2 DEF ClaimGoes, Claim, IInv, Typed
  <2> QED
    BY <2>1, <2>2
<1>3. Typed'
  BY <1>2 DEF IInv, Typed
<1>4. ClaimIsOfInvited'
  BY <1>2 DEF IInv, ClaimIsOfInvited
<1>5. OfferIsOfInvited' /\ RejectIsOfInvited' /\ WinnerWasInvited'
  BY DEF IInv, OfferIsOfInvited, RejectIsOfInvited, WinnerWasInvited
<1>6. OneWinner'
  BY <1>2 DEF IInv, OneWinner
<1> QED
  BY <1>3, <1>4, <1>5, <1>6 DEF IInv

\* The UPDATE of an order without an agent.
LEMMA SetAgentKeepsIInv ==
    ASSUME IInv, NEW c \in Claimers, claim[c].pc = "db",
           IsClaimable(claim[c].order), SetAgent(c),
           UNCHANGED <<offer, reject, invited>>,
           NEW pc \in {"undo", "busy"}, claim' = ClaimGoes(c, pc)
    PROVE  IInv'
<1>1. PICK o \in Orders, a \in Agents :
          /\ o = claim[c].order /\ a = claim[c].agent /\ a \in invited[o]
  BY DEF IInv, ClaimIsOfInvited
<1>2. agent[o] = None /\ a # None
  BY <1>1, ConstantsAssumption DEF IsClaimable
<1>3. /\ agent' \in [Orders -> Agents \cup {None}] /\ agent'[o] = a
      /\ \A p \in Orders \ {o} : agent'[p] = agent[p]
      /\ DOMAIN status' = Orders
  BY <1>1 DEF SetAgent, IInv, Typed
<1>4. /\ claim' \in [Claimers -> Claim]
      /\ claim'[c].pc = pc /\ claim'[c].agent = a /\ claim'[c].order = o
      /\ \A d \in Claimers \ {c} : claim'[d] = claim[d]
  BY <1>1 DEF ClaimGoes, Claim, IInv, Typed
<1>5. Typed'
  BY <1>3, <1>4 DEF IInv, Typed
<1>6. ClaimIsOfInvited'
  BY <1>1, <1>4 DEF IInv, ClaimIsOfInvited
<1>7. OfferIsOfInvited' /\ RejectIsOfInvited'
  BY DEF IInv, OfferIsOfInvited, RejectIsOfInvited
<1>8. WinnerWasInvited'
  BY <1>1, <1>3 DEF IInv, WinnerWasInvited
<1>9. \A d \in Claimers \ {c} : claim[d].pc \in {"busy", "cleanup"} =>
          claim[d].order \in Orders \ {o}
  <2> SUFFICES ASSUME NEW d \in Claimers \ {c}, claim[d].pc \in {"busy", "cleanup"}
               PROVE  claim[d].order \in Orders \ {o}
    OBVIOUS
  <2>1. claim[d].order \in Orders /\ claim[d].agent \in Agents
    BY DEF IInv, ClaimIsOfInvited
  <2>2. agent[claim[d].order] = claim[d].agent
    BY DEF IInv, OneWinner
  <2> QED
    BY <1>2, <2>1, <2>2, ConstantsAssumption
<1>10. OneWinner'
  <2>1. ASSUME NEW d \in Claimers, claim'[d].pc \in {"busy", "cleanup"}
        PROVE  agent'[claim'[d].order] = claim'[d].agent
    BY <1>3, <1>4, <1>9, <2>1 DEF IInv, OneWinner
  <2>2. ASSUME NEW d \in Claimers, NEW e \in Claimers,
               claim'[d].pc \in {"busy", "cleanup"},
               claim'[e].pc \in {"busy", "cleanup"},
               claim'[d].order = claim'[e].order
        PROVE  d = e
    BY <1>4, <1>9, <2>2 DEF IInv, OneWinner
  <2> QED
    BY <2>1, <2>2 DEF OneWinner
<1> QED
  BY <1>5, <1>6, <1>7, <1>8, <1>10 DEF IInv

LEMMA ClaimKeepsIInv ==
    ASSUME IInv, NEW c \in Claimers, ClaimStep(c)
    PROVE  IInv'
<1>1. CASE Commit(c)
  BY <1>1, SetAgentKeepsIInv DEF Commit
<1>2. CASE DbFails(c) /\ SetAgent(c) /\ IsClaimable(claim[c].order)
  BY <1>2, SetAgentKeepsIInv DEF DbFails
<1>3. CASE DbFails(c) /\ UNCHANGED rowVars
  <2>1. /\ claim[c].pc # "idle" /\ claim' = ClaimGoes(c, "undo")
        /\ UNCHANGED <<agent, status, offer, reject, invited>>
    BY <1>3 DEF DbFails, rowVars
  <2> QED
    BY <2>1, ClaimMovesKeepsIInv DEF IInv, Typed
<1>4. CASE Lock(c) \/ Refused(c) \/ Undo(c) \/ MarkBusy(c) \/ ClaimCrashes(c)
  <2>1. /\ claim[c].pc # "idle"
        /\ UNCHANGED <<agent, status, offer, reject, invited>>
        /\ \/ claim' = ClaimEnds(c)
           \/ \E pc \in {"db", "undo"} : claim' = ClaimGoes(c, pc)
           \/ claim' = ClaimGoes(c, "cleanup") /\ claim[c].pc = "busy"
    BY <1>4 DEF Lock, Refused, Undo, MarkBusy, ClaimCrashes, rowVars
  <2>2. DOMAIN offer' = Orders /\ \A o \in Orders : offer'[o] \in {offer[o], {}}
    BY <2>1 DEF IInv, Typed
  <2> QED
    BY <2>1, <2>2, ClaimMovesKeepsIInv
<1>5. CASE DropOffer(c)
  <2>1. /\ claim[c].pc # "idle" /\ claim' = ClaimEnds(c)
        /\ UNCHANGED <<agent, status, reject, invited>>
        /\ offer' = [offer EXCEPT ![claim[c].order] = {}]
    BY <1>5 DEF DropOffer, rowVars
  <2>2. DOMAIN offer' = Orders /\ \A o \in Orders : offer'[o] \in {offer[o], {}}
    BY <2>1 DEF IInv, Typed
  <2> QED
    BY <2>1, <2>2, ClaimMovesKeepsIInv
<1> QED
  BY <1>1, <1>2, <1>3, <1>4, <1>5 DEF ClaimStep, DbFails

LEMMA StepIInv == IInv /\ [Next]_vars => IInv'
<1> SUFFICES ASSUME IInv, [Next]_vars
             PROVE  IInv'
  OBVIOUS
<1>1. CASE UNCHANGED vars
  BY <1>1 DEF vars, IInv, Typed, ClaimIsOfInvited, OfferIsOfInvited,
     RejectIsOfInvited, OneWinner, WinnerWasInvited
<1>2. CASE Next
  BY <1>2, WorkerKeepsIInv, ClaimBeginsKeepsIInv, ClaimKeepsIInv, RejectKeepsIInv,
     EndKeepsIInv DEF Next
<1> QED
  BY <1>1, <1>2

\* The invariant holds of every behaviour of workers, agents and admins.
LEMMA SpecIInv == Spec => []IInv
  BY InitIInv, StepIInv, PTL DEF Spec

-----------------------------------------------------------------------------

\* The WHERE clause of claimReadyOrderForAgent decides alone: an order has one
\* winner although the claim lock expires and is deleted by others.
THEOREM ClaimedOnce == Spec => []OneWinner
<1>1. IInv => OneWinner
  BY DEF IInv
<1> QED
  BY <1>1, SpecIInv, PTL

\* An agent has only orders that he was offered or given by an admin, although
\* rejects write back lists that are out of date.
THEOREM WinnersWereInvited == Spec => []WinnerWasInvited
<1>1. IInv => WinnerWasInvited
  BY DEF IInv
<1> QED
  BY <1>1, SpecIInv, PTL

-----------------------------------------------------------------------------
(* The types, and the number of attempts *)

\* The workers that have seen an order below the cap and still may count it.
PastCap(o) ==
    {w \in Workers : tick[w].pc \in {"search", "offer", "count"} /\ AtOrder(w, o)}

\* Every worker past the cap has an attempt of its own to make.
AttemptsAreCapped ==
    \A o \in Orders :
        attempts[o] + Cardinality(PastCap(o)) <= MaxAttempts + Cardinality(Workers) - 1

\* TypeOK, with any number of attempts.
KeysTyped ==
    /\ status \in [Orders -> States]
    /\ agent \in [Orders -> Agents \cup {None}]
    /\ offer \in [Orders -> SUBSET Agents]
    /\ lock \in [Orders -> Agents \cup {None}]
    /\ attempts \in [Orders -> Nat]
    /\ busy \subseteq Agents
    /\ closing \in [Orders -> {"no", "free", "unlock"}]
    /\ invited \in [Orders -> SUBSET Agents]
RequestsTyped ==
    /\ claim \in [Claimers -> Claim]
    /\ reject \in [Rejecters -> Reject]
TicksTyped ==
    /\ tick \in [Workers -> Tick]
    /\ \A w \in Workers : tick[w].pc = "idle" <=> tick[w].todo = {}

\* The inductive invariant of the types.
TInv == KeysTyped /\ RequestsTyped /\ TicksTyped /\ AttemptsAreCapped

LEMMA PastCapIsFinite ==
    ASSUME NEW o
    PROVE  /\ IsFiniteSet(PastCap(o)) /\ Cardinality(PastCap(o)) \in Nat
           /\ Cardinality(PastCap(o)) <= Cardinality(Workers)
           /\ Cardinality(Workers) \in Nat
<1>1. PastCap(o) \in SUBSET Workers
  BY DEF PastCap
<1> QED
  BY <1>1, FS_Subset, FS_CardinalityType, ConstantsAssumption

LEMMA InitTInv == Init => TInv
<1> SUFFICES ASSUME Init
             PROVE  TInv
  OBVIOUS
<1>1. KeysTyped /\ RequestsTyped
  BY DEF Init, KeysTyped, RequestsTyped, States, Claim, Reject, NoClaim, NoReject,
     OrderOrNone
<1>2. TicksTyped
  BY DEF Init, TicksTyped, Tick, NoTick
<1>3. ASSUME NEW o \in Orders
      PROVE  attempts[o] + Cardinality(PastCap(o)) <= MaxAttempts + Cardinality(Workers) - 1
  <2>1. PastCap(o) = {}
    BY DEF Init, PastCap, NoTick
  <2>2. Cardinality(Workers) \in Nat /\ Cardinality(Workers) # 0
    BY FS_EmptySet, FS_CardinalityType, ConstantsAssumption
  <2>3. attempts[o] = 0 /\ MaxAttempts \in Nat
    BY ConstantsAssumption DEF Init
  <2> QED
    BY <2>1, <2>2, <2>3, FS_EmptySet
<1> QED
  BY <1>1, <1>2, <1>3 DEF TInv, AttemptsAreCapped

\* The ways a worker's tick goes on.
LEMMA TickMoves ==
    ASSUME TicksTyped, NEW w \in Workers,
           NEW pc \in {"look", "find", "search", "offer", "count"},
           NEW cands \in SUBSET Agents, tick[w].pc # "idle",
           tick' = [tick EXCEPT ![w].pc = pc, ![w].cands = cands]
    PROVE  /\ TicksTyped' /\ tick'[w].todo = tick[w].todo /\ tick'[w].pc = pc
           /\ \A v \in Workers \ {w} : tick'[v] = tick[v]
<1> DEFINE goes == [[tick[w] EXCEPT !.pc = pc] EXCEPT !.cands = cands]
<1>1. goes \in Tick /\ goes.pc = pc /\ goes.todo = tick[w].todo
  BY DEF TicksTyped, Tick
<1>2. tick' = [tick EXCEPT ![w] = goes]
  BY DEF TicksTyped
<1> HIDE DEF goes
<1>3. tick' \in [Workers -> Tick] /\ tick'[w] = goes
  BY <1>1, <1>2 DEF TicksTyped
<1> QED
  BY <1>1, <1>2, <1>3 DEF TicksTyped

LEMMA TickEnds ==
    ASSUME TicksTyped, NEW w \in Workers, NEW todo \in SUBSET Orders,
           tick' = [tick EXCEPT ![w] = IF todo = {} THEN NoTick
                                ELSE [NoTick EXCEPT !.pc = "look", !.todo = todo]]
    PROVE  /\ TicksTyped' /\ tick'[w].pc \in {"idle", "look"}
           /\ \A v \in Workers \ {w} : tick'[v] = tick[v]
<1> DEFINE goes == IF todo = {} THEN NoTick
                   ELSE [NoTick EXCEPT !.pc = "look", !.todo = todo]
<1>1. /\ goes \in Tick /\ goes.pc \in {"idle", "look"}
      /\ goes.pc = "idle" <=> goes.todo = {}
  BY DEF NoTick, Tick
<1>2. tick' = [tick EXCEPT ![w] = goes]
  OBVIOUS
<1> HIDE DEF goes
<1>3. tick' \in [Workers -> Tick] /\ tick'[w] = goes
  BY <1>1, <1>2 DEF TicksTyped
<1> QED
  BY <1>1, <1>2, <1>3 DEF TicksTyped

\* A step that takes no worker past the cap of an order, and adds nothing to
\* its attempts, keeps to it.
LEMMA CapStays ==
    ASSUME TInv, NEW o \in Orders, attempts'[o] \in Nat, attempts'[o] <= attempts[o],
           PastCap(o)' \subseteq PastCap(o)
    PROVE  (attempts[o] + Cardinality(PastCap(o)) <= MaxAttempts + Cardinality(Workers) - 1)'
<1>1. Cardinality(PastCap(o)') <= Cardinality(PastCap(o)) /\ Cardinality(PastCap(o)') \in Nat
  BY PastCapIsFinite, FS_Subset, FS_CardinalityType
<1>2. attempts[o] \in Nat /\ MaxAttempts \in Nat
  BY ConstantsAssumption DEF TInv, KeysTyped
<1> QED
  BY <1>1, <1>2, PastCapIsFinite DEF TInv, AttemptsAreCapped

\* Steps of others than the workers.
LEMMA CapStaysOthers ==
    ASSUME TInv, UNCHANGED tick, KeysTyped',
           \A o \in Orders : attempts'[o] <= attempts[o]
    PROVE  AttemptsAreCapped'
<1>1. \A o \in Orders : PastCap(o)' = PastCap(o)
  BY DEF PastCap, AtOrder
<1> QED
  BY <1>1, CapStays DEF KeysTyped, AttemptsAreCapped

\* A worker that is not, or no longer, past the cap after its step.
LEMMA CapStaysWorker ==
    ASSUME TInv, NEW w \in Workers, \A v \in Workers \ {w} : tick'[v] = tick[v],
           \/ tick'[w].pc \notin {"search", "offer", "count"}
           \/ /\ tick[w].pc \in {"search", "offer", "count"}
              /\ tick'[w].todo = tick[w].todo,
           UNCHANGED attempts
    PROVE  AttemptsAreCapped'
<1>1. \A o \in Orders : PastCap(o)' \subseteq PastCap(o)
  BY DEF PastCap, AtOrder
<1>2. \A o \in Orders : attempts'[o] \in Nat /\ attempts'[o] <= attempts[o]
  BY DEF TInv, KeysTyped
<1> QED
  BY <1>1, <1>2, CapStays DEF AttemptsAreCapped

LEMMA FetchKeepsTInv == ASSUME TInv, NEW w \in Workers, Fetch(w) PROVE TInv'
<1>1. FirstReady \in SUBSET Orders
  BY DEF FirstReady, Unassigned
<1>2. tick' = [tick EXCEPT ![w] = IF FirstReady = {} THEN NoTick
                   ELSE [NoTick EXCEPT !.pc = "look", !.todo = FirstReady]]
  BY DEF Fetch
<1>3. /\ TicksTyped' /\ tick'[w].pc \in {"idle", "look"}
      /\ \A v \in Workers \ {w} : tick'[v] = tick[v]
  BY <1>1, <1>2, TickEnds DEF TInv
<1>4. UNCHANGED attempts /\ KeysTyped' /\ RequestsTyped'
  BY DEF Fetch, TInv, KeysTyped, RequestsTyped, rowVars
<1> QED
  BY <1>3, <1>4, CapStaysWorker DEF TInv

\* Whatever ends the turn of an order.
LEMMA DoneKeepsTicks ==
    ASSUME TInv, NEW w \in Workers, NEW o \in Orders, tick' = Done(w, o)
    PROVE  /\ TicksTyped' /\ tick'[w].pc \in {"idle", "look"}
           /\ \A v \in Workers \ {w} : tick'[v] = tick[v]
<1> DEFINE rest == tick[w].todo \ {o}
<1>1. rest \in SUBSET Orders
  BY DEF TInv, TicksTyped, Tick
<1>2. tick' = [tick EXCEPT ![w] = IF rest = {} THEN NoTick
                   ELSE [NoTick EXCEPT !.pc = "look", !.todo = rest]]
  BY DEF Done
<1> HIDE DEF rest
<1> QED
  BY <1>1, <1>2, TickEnds DEF TInv

LEMMA LookKeepsTInv == ASSUME TInv, NEW w \in Workers, Look(w) \/ TryFails(w) PROVE TInv'
<1>1. UNCHANGED attempts /\ KeysTyped' /\ RequestsTyped'
  BY DEF Look, TryFails, TInv, KeysTyped, RequestsTyped, rowVars
<1>2. PICK o \in Orders : \/ tick' = Done(w, o)
                          \/ tick' = [tick EXCEPT ![w].pc = "find"] /\ tick[w].pc = "look"
  BY DEF Look, TryFails
<1>3. CASE tick' = Done(w, o)
  BY <1>1, <1>3, DoneKeepsTicks, CapStaysWorker DEF TInv
<1>4. CASE tick' = [tick EXCEPT ![w].pc = "find"] /\ tick[w].pc = "look"
  <2>1. tick[w].cands \in SUBSET Agents
    BY DEF TInv, TicksTyped, Tick
  <2>2. tick' = [tick EXCEPT ![w].pc = "find", ![w].cands = tick[w].cands]
    BY <1>4 DEF TInv, TicksTyped, Tick
  <2>3. /\ TicksTyped' /\ tick'[w].pc = "find"
        /\ \A v \in Workers \ {w} : tick'[v] = tick[v]
    BY <1>4, <2>1, <2>2, TickMoves DEF TInv
  <2> QED
    BY <1>1, <2>3, CapStaysWorker DEF TInv
<1> QED
  BY <1>2, <1>3, <1>4

\* A worker passes the cap: the attempts are below it.
LEMMA FindKeepsTInv == ASSUME TInv, NEW w \in Workers, Find(w) PROVE TInv'
<1>1. UNCHANGED attempts /\ KeysTyped' /\ RequestsTyped'
  BY DEF Find, TInv, KeysTyped, RequestsTyped, rowVars
<1>2. PICK o \in Orders :
          /\ AtOrder(w, o)
          /\ tick' = IF IsExhausted(o) THEN Done(w, o)
                     ELSE [tick EXCEPT ![w].pc = "search"]
  BY DEF Find
<1>3. CASE IsExhausted(o)
  BY <1>1, <1>2, <1>3, DoneKeepsTicks, CapStaysWorker DEF TInv
<1>4. CASE ~IsExhausted(o)
  <2>1. PICK cands \in SUBSET Agents :
            tick' = [tick EXCEPT ![w].pc = "search", ![w].cands = cands]
    <3>1. tick[w].cands \in SUBSET Agents
      BY DEF TInv, TicksTyped, Tick
    <3>2. tick' = [tick EXCEPT ![w].pc = "search", ![w].cands = tick[w].cands]
      BY <1>2, <1>4 DEF TInv, TicksTyped, Tick
    <3> QED
      BY <3>1, <3>2
  <2>2. /\ TicksTyped' /\ tick'[w].todo = tick[w].todo
        /\ \A v \in Workers \ {w} : tick'[v] = tick[v]
    BY <2>1, TickMoves DEF TInv, Find
  <2>3. ASSUME NEW p \in Orders
        PROVE  (attempts[p] + Cardinality(PastCap(p))
                    <= MaxAttempts + Cardinality(Workers) - 1)'
    <3>1. CASE p = o
      <4>1. attempts'[p] = attempts[p] /\ attempts[p] \in Nat /\ MaxAttempts \in Nat
        BY <1>1, ConstantsAssumption DEF TInv, KeysTyped
      <4>2. attempts[p] < MaxAttempts
        BY <1>4, <3>1, <4>1 DEF IsExhausted
      <4>3. /\ Cardinality(PastCap(p)') <= Cardinality(Workers)
            /\ Cardinality(PastCap(p)') \in Nat /\ Cardinality(Workers) \in Nat
        <5>1. PastCap(p)' \in SUBSET Workers
          BY DEF PastCap
        <5> QED
          BY <5>1, FS_Subset, FS_CardinalityType, ConstantsAssumption
      <4> QED
        BY <4>1, <4>2, <4>3
    <3>2. CASE p # o
      <4>1. ~AtOrder(w, p)
        BY <1>2, <3>2 DEF AtOrder, Orders
      <4>2. PastCap(p)' \subseteq PastCap(p)
        BY <2>2, <4>1 DEF PastCap, AtOrder
      <4>3. attempts'[p] \in Nat /\ attempts'[p] <= attempts[p]
        BY <1>1 DEF TInv, KeysTyped
      <4> QED
        BY <4>2, <4>3, CapStays
    <3> QED
      BY <3>1, <3>2
  <2> QED
    BY <1>1, <2>2, <2>3 DEF TInv, AttemptsAreCapped
<1> QED
  BY <1>3, <1>4

\* The search goes on or ends, past the cap all the time.
LEMMA SearchKeepsTInv ==
    ASSUME TInv, NEW w \in Workers, Ask(w) \/ SearchEnds(w)
    PROVE  TInv'
<1>1. UNCHANGED attempts /\ KeysTyped' /\ RequestsTyped' /\ tick[w].pc = "search"
  BY DEF Ask, SearchEnds, TInv, KeysTyped, RequestsTyped, rowVars
<1>2. tick \in [Workers -> Tick] /\ tick[w] \in Tick
  BY DEF TInv, TicksTyped
<1>3. PICK cands \in SUBSET Agents, pc \in {"search", "count", "offer"} :
          tick' = [tick EXCEPT ![w].pc = pc, ![w].cands = cands]
  <2>1. CASE Ask(w)
    <3>1. PICK a \in Agents : tick' = [tick EXCEPT ![w].cands = @ \cup {a}]
      BY <2>1 DEF Ask
    <3>2. tick[w].cands \cup {a} \in SUBSET Agents
      BY <1>2 DEF Tick
    <3>3. tick' = [tick EXCEPT ![w].pc = "search", ![w].cands = tick[w].cands \cup {a}]
      BY <1>1, <1>2, <3>1 DEF Tick
    <3> QED
      BY <3>2, <3>3
  <2>2. CASE SearchEnds(w)
    <3>1. PICK pc \in {"count", "offer"} : tick' = [tick EXCEPT ![w].pc = pc]
      BY <2>2 DEF SearchEnds
    <3>2. tick[w].cands \in SUBSET Agents
      BY <1>2 DEF Tick
    <3>3. tick' = [tick EXCEPT ![w].pc = pc, ![w].cands = tick[w].cands]
      BY <1>2, <3>1 DEF Tick
    <3> QED
      BY <3>2, <3>3
  <2> QED
    BY <2>1, <2>2
<1>4. /\ TicksTyped' /\ tick'[w].todo = tick[w].todo
      /\ \A v \in Workers \ {w} : tick'[v] = tick[v]
  BY <1>1, <1>3, TickMoves DEF TInv
<1> QED
  BY <1>1, <1>4, CapStaysWorker DEF TInv

LEMMA OfferKeepsTInv == ASSUME TInv, NEW w \in Workers, Offer(w) PROVE TInv'
<1>1. UNCHANGED <<rowVars, lock, attempts, busy, claim, reject, closing>>
      /\ tick[w].pc = "offer" /\ tick[w].cands \in SUBSET Agents
  BY DEF Offer, TInv, TicksTyped, Tick
<1>2. PICK o \in Orders : \E cands \in {tick[w].cands} :
          \/ /\ offer' = [offer EXCEPT ![o] = cands]
             /\ invited' = [invited EXCEPT ![o] = @ \cup cands]
             /\ tick' = [tick EXCEPT ![w].pc = "count", ![w].cands = {}]
          \/ tick' = Done(w, o) /\ UNCHANGED <<offer, invited>>
  BY DEF Offer
<1>3. offer' \in [Orders -> SUBSET Agents] /\ invited' \in [Orders -> SUBSET Agents]
  BY <1>1, <1>2 DEF TInv, KeysTyped
<1>4. KeysTyped' /\ RequestsTyped'
  BY <1>1, <1>3 DEF TInv, KeysTyped, RequestsTyped, rowVars
<1>5. CASE tick' = Done(w, o)
  BY <1>1, <1>4, <1>5, DoneKeepsTicks, CapStaysWorker DEF TInv
<1>6. CASE tick' = [tick EXCEPT ![w].pc = "count", ![w].cands = {}]
  <2>1. PICK cands \in SUBSET Agents, pc \in {"count", "offer"} :
            tick' = [tick EXCEPT ![w].pc = pc, ![w].cands = cands]
    BY <1>6
  <2>2. /\ TicksTyped' /\ tick'[w].todo = tick[w].todo
        /\ \A v \in Workers \ {w} : tick'[v] = tick[v]
    BY <1>1, <2>1, TickMoves DEF TInv
  <2> QED
    BY <1>1, <1>4, <2>2, CapStaysWorker DEF TInv
<1> QED
  BY <1>2, <1>5, <1>6

\* The attempt is made: the worker is no longer one that may make it.
LEMMA CountKeepsTInv == ASSUME TInv, NEW w \in Workers, Count(w) PROVE TInv'
<1>1. PICK o \in Orders :
          AtOrder(w, o) /\ attempts' = [attempts EXCEPT ![o] = @ + 1] /\ tick' = Done(w, o)
  BY DEF Count
<1>2. attempts' \in [Orders -> Nat]
  BY <1>1 DEF TInv, KeysTyped
<1>3. KeysTyped' /\ RequestsTyped'
  BY <1>2 DEF Count, TInv, KeysTyped, RequestsTyped, rowVars
<1>4. /\ TicksTyped' /\ tick'[w].pc \in {"idle", "look"}
      /\ \A v \in Workers \ {w} : tick'[v] = tick[v]
  BY <1>1, DoneKeepsTicks
<1>5. ASSUME NEW p \in Orders
      PROVE  (attempts[p] + Cardinality(PastCap(p))
                  <= MaxAttempts + Cardinality(Workers) - 1)'
  <2>1. PastCap(p)' \subseteq PastCap(p) \ {w}
    BY <1>4 DEF PastCap, AtOrder
  <2>2. CASE p = o
    <3>1. w \in PastCap(p)
      BY <1>1, <2>2 DEF PastCap, Count
    <3>2. /\ Cardinality(PastCap(p) \ {w}) = Cardinality(PastCap(p)) - 1
          /\ IsFiniteSet(PastCap(p) \ {w})
      BY <3>1, PastCapIsFinite, FS_RemoveElement
    <3>3. /\ Cardinality(PastCap(p)') <= Cardinality(PastCap(p)) - 1
          /\ Cardinality(PastCap(p)') \in Nat
      BY <2>1, <3>2, FS_Subset, FS_CardinalityType
    <3>4. attempts'[p] = attempts[p] + 1 /\ attempts[p] \in Nat /\ MaxAttempts \in Nat
      BY <1>1, <2>2, ConstantsAssumption DEF TInv, KeysTyped
    <3> QED
      BY <3>3, <3>4, PastCapIsFinite DEF TInv, AttemptsAreCapped
  <2>3. CASE p # o
    <3>1. attempts'[p] \in Nat /\ attempts'[p] <= attempts[p]
      BY <1>1, <2>3 DEF TInv, KeysTyped
    <3> QED
      BY <2>1, <3>1, CapStays
  <2> QED
    BY <2>2, <2>3
<1> QED
  BY <1>3, <1>4, <1>5 DEF TInv, AttemptsAreCapped

\* A request is about an agent, so markBusy marks one.
LEMMA ClaimKeepsTInv ==
    ASSUME TInv, IInv, NEW c \in Claimers,
           ClaimStep(c) \/ \E a \in Agents, o \in Orders : Accept(c, a, o) \/ AdminAssign(c, a, o)
    PROVE  TInv'
<1>1. UNCHANGED <<tick, attempts, reject, closing>>
  BY DEF ClaimStep, Accept, AdminAssign, Lock, Commit, Refused, DbFails, Undo, MarkBusy,
     DropOffer, ClaimCrashes
<1>2. claim[c] \in Claim /\ NoClaim \in Claim
  BY DEF TInv, RequestsTyped, NoClaim, Claim, OrderOrNone
<1>3. claim[c].agent \in Agents \cup {None} /\ (claim[c].pc = "busy" => claim[c].agent \in Agents)
  BY <1>2 DEF IInv, ClaimIsOfInvited, Claim
<1>4. \/ claim' = [claim EXCEPT ![c] = NoClaim]
      \/ \E pc \in {"db", "undo", "busy", "cleanup"} : claim' = [claim EXCEPT ![c].pc = pc]
      \/ \E a \in Agents, o \in Orders :
             claim' = [claim EXCEPT ![c] = [pc |-> "lock", agent |-> a, order |-> o]]
  BY DEF ClaimStep, Accept, AdminAssign, Lock, Commit, Refused, DbFails, Undo, MarkBusy,
     DropOffer, ClaimCrashes, ClaimEnds, ClaimGoes
<1>5. claim' \in [Claimers -> Claim]
  <2>1. CASE \E pc \in {"db", "undo", "busy", "cleanup"} : claim' = [claim EXCEPT ![c].pc = pc]
    <3>1. PICK pc \in {"db", "undo", "busy", "cleanup"} : claim' = [claim EXCEPT ![c].pc = pc]
      BY <2>1
    <3>2. [claim[c] EXCEPT !.pc = pc] \in Claim
      BY <1>2 DEF Claim
    <3> QED
      BY <3>1, <3>2 DEF TInv, RequestsTyped
  <2>2. CASE \E a \in Agents, o \in Orders :
             claim' = [claim EXCEPT ![c] = [pc |-> "lock", agent |-> a, order |-> o]]
    <3>1. PICK a \in Agents, o \in Orders :
              claim' = [claim EXCEPT ![c] = [pc |-> "lock", agent |-> a, order |-> o]]
      BY <2>2
    <3>2. [pc |-> "lock", agent |-> a, order |-> o] \in Claim
      BY DEF Claim, OrderOrNone
    <3> QED
      BY <3>1, <3>2 DEF TInv, RequestsTyped
  <2> QED
    BY <1>2, <1>4, <2>1, <2>2 DEF TInv, RequestsTyped
<1>6. status' = status \/ status' = [status EXCEPT ![claim[c].order] = "assigned"]
  BY DEF ClaimStep, Accept, AdminAssign, Lock, Commit, Refused, DbFails, Undo, MarkBusy,
     DropOffer, ClaimCrashes, SetAgent, rowVars
<1>7. agent' = agent \/ agent' = [agent EXCEPT ![claim[c].order] = claim[c].agent]
  BY DEF ClaimStep, Accept, AdminAssign, Lock, Commit, Refused, DbFails, Undo, MarkBusy,
     DropOffer, ClaimCrashes, SetAgent, rowVars
<1>8. lock' \in [Orders -> Agents \cup {None}]
  <2>1. \E o \in OrderOrNone, a \in {claim[c].agent, None} :
            lock' = lock \/ lock' = [lock EXCEPT ![o] = a]
    BY <1>2 DEF ClaimStep, Accept, AdminAssign, Lock, Commit, Refused, DbFails, Undo, MarkBusy,
       DropOffer, ClaimCrashes, DropLock, Claim
  <2> QED
    BY <1>3, <2>1 DEF TInv, KeysTyped
<1>9. offer' = offer \/ offer' = [offer EXCEPT ![claim[c].order] = {}]
  BY DEF ClaimStep, Accept, AdminAssign, Lock, Commit, Refused, DbFails, Undo, MarkBusy,
     DropOffer, ClaimCrashes
<1>10. busy' \subseteq Agents
  BY <1>3 DEF ClaimStep, Accept, AdminAssign, Lock, Commit, Refused, DbFails, Undo, MarkBusy,
     DropOffer, ClaimCrashes, TInv, KeysTyped
<1>11. invited' \in [Orders -> SUBSET Agents]
  <2>1. invited' = invited
        \/ \E a \in Agents, o \in Orders : invited' = [invited EXCEPT ![o] = @ \cup {a}]
    BY DEF ClaimStep, Accept, AdminAssign, Lock, Commit, Refused, DbFails, Undo, MarkBusy,
       DropOffer, ClaimCrashes
  <2> QED
    BY <2>1 DEF TInv, KeysTyped
<1>12. KeysTyped'
  BY <1>1, <1>3, <1>6, <1>7, <1>8, <1>9, <1>10, <1>11 DEF TInv, KeysTyped, States
<1>13. AttemptsAreCapped'
  BY <1>1, <1>12, CapStaysOthers DEF TInv, KeysTyped
<1> QED
  BY <1>1, <1>5, <1>12, <1>13 DEF TInv, RequestsTyped, TicksTyped

LEMMA RejectKeepsTInv ==
    ASSUME TInv, NEW r \in Rejecters,
           \/ \E a \in Agents, o \in Orders : RejectRead(r, a, o)
           \/ RejectWrite(r) \/ RejectFails(r)
    PROVE  TInv'
<1>1. UNCHANGED <<rowVars, lock, attempts, busy, tick, claim, closing, invited>>
  BY DEF RejectRead, RejectWrite, RejectFails
<1>2. reject[r] \in Reject /\ NoReject \in Reject
  BY DEF TInv, RequestsTyped, NoReject, Reject, OrderOrNone
<1>3. offer' = offer \/ offer' = [offer EXCEPT ![reject[r].order] = reject[r].left]
  BY DEF RejectRead, RejectWrite, RejectFails
<1>4. KeysTyped'
  BY <1>1, <1>2, <1>3 DEF TInv, KeysTyped, Reject, rowVars
<1>5. reject' \in [Rejecters -> Reject]
  <2>1. CASE \E a \in Agents, o \in Orders : RejectRead(r, a, o)
    <3>1. PICK a \in Agents, o \in Orders : RejectRead(r, a, o)
      BY <2>1
    <3>2. [pc |-> "write", order |-> o, left |-> offer[o] \ {a}] \in Reject
      BY DEF TInv, KeysTyped, Reject, OrderOrNone
    <3> QED
      BY <3>1, <3>2 DEF RejectRead, TInv, RequestsTyped
  <2> QED
    BY <1>2, <2>1 DEF RejectWrite, RejectFails, TInv, RequestsTyped
<1>6. AttemptsAreCapped'
  BY <1>1, <1>4, CapStaysOthers DEF TInv, KeysTyped
<1> QED
  BY <1>1, <1>4, <1>5, <1>6 DEF TInv, RequestsTyped, TicksTyped

LEMMA EndKeepsTInv ==
    ASSUME TInv, NEW o \in Orders,
           \/ Deliver(o) \/ MarkFree(o) \/ Unlock(o) \/ Leave(o)
           \/ OfferExpires(o) \/ LockExpires(o) \/ AttemptsExpire(o)
    PROVE  TInv'
<1>1. UNCHANGED <<agent, tick, claim, reject, invited>>
  BY DEF Deliver, MarkFree, Unlock, Leave, OfferExpires, LockExpires, AttemptsExpire,
     rowVars, requestVars
<1>2. status' \in [Orders -> States] /\ closing' \in [Orders -> {"no", "free", "unlock"}]
  BY DEF Deliver, MarkFree, Unlock, Leave, OfferExpires, LockExpires, AttemptsExpire,
     rowVars, requestVars, TInv, KeysTyped, States
<1>3. /\ offer' \in [Orders -> SUBSET Agents] /\ lock' \in [Orders -> Agents \cup {None}]
      /\ busy' \subseteq Agents
  BY DEF Deliver, MarkFree, Unlock, Leave, OfferExpires, LockExpires, AttemptsExpire,
     TInv, KeysTyped
<1>4. attempts' = attempts \/ attempts' = [attempts EXCEPT ![o] = 0]
  BY DEF Deliver, MarkFree, Unlock, Leave, OfferExpires, LockExpires, AttemptsExpire
<1>5. attempts' \in [Orders -> Nat] /\ \A p \in Orders : attempts'[p] <= attempts[p]
  BY <1>4 DEF TInv, KeysTyped
<1>6. KeysTyped'
  BY <1>1, <1>2, <1>3, <1>5 DEF TInv, KeysTyped
<1>7. AttemptsAreCapped'
  BY <1>1, <1>5, <1>6, CapStaysOthers
<1> QED
  BY <1>1, <1>6, <1>7 DEF TInv, RequestsTyped, TicksTyped

LEMMA StepTInv == TInv /\ IInv /\ [Next]_vars => TInv'
<1> SUFFICES ASSUME TInv, IInv, [Next]_vars
             PROVE  TInv'
  OBVIOUS
<1>1. CASE UNCHANGED vars
  BY <1>1 DEF vars, TInv, KeysTyped, RequestsTyped, TicksTyped, AttemptsAreCapped, PastCap,
     AtOrder
<1>2. CASE Next
  BY <1>2, FetchKeepsTInv, LookKeepsTInv, FindKeepsTInv, SearchKeepsTInv, OfferKeepsTInv,
     CountKeepsTInv, ClaimKeepsTInv, RejectKeepsTInv, EndKeepsTInv DEF Next, WorkerStep
<1> QED
  BY <1>1, <1>2

\* For any cap and number of workers: the attempts to find an agent for an
\* order overshoot the cap by one of each further worker at most, although
\* tryAssign compares and counts in separate calls; the rest of the state
\* keeps to its types.
THEOREM TypeCorrect == Spec => []TypeOK
<1>1. TInv => TypeOK
  <2> SUFFICES ASSUME TInv
               PROVE  TypeOK
    OBVIOUS
  <2>1. ASSUME NEW o \in Orders
        PROVE  attempts[o] \in 0 .. MaxAttempts + Cardinality(Workers) - 1
    <3>1. attempts[o] \in Nat /\ MaxAttempts \in Nat
      BY ConstantsAssumption DEF TInv, KeysTyped
    <3> QED
      BY <3>1, PastCapIsFinite DEF TInv, AttemptsAreCapped
  <2> QED
    BY <2>1 DEF TInv, KeysTyped, RequestsTyped, TicksTyped, TypeOK
<1> QED
  BY <1>1, InitTInv, StepTInv, SpecIInv, PTL DEF Spec
=============================================================================
