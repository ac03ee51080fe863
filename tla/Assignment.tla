----------------------------- MODULE Assignment -----------------------------
(***************************************************************************)
(* Finding an agent for a ready order (app/assignment, app/agent): workers *)
(* scan the ready orders and broadcast offers, agents accept or reject,    *)
(* an admin may assign by force, a delivery releases the agent.            *)
(*                                                                         *)
(* The order is a row in PostgreSQL; offer, claim lock, number of          *)
(* attempts and busy marks are Redis keys, each read or written by a call  *)
(* of its own, and all but the busy marks expire.  Requests may stop       *)
(* between any two calls.  Websocket messages are left out.  goOffline     *)
(* changes nothing: it throws before its first write.                      *)
(***************************************************************************)
EXTENDS Naturals, FiniteSets

CONSTANTS NOrders,      \* orders, numbered in the order they became ready
          Agents,
          Workers,      \* worker processes of the region
          Claimers,     \* accept and assign requests that run at a time
          Rejecters,    \* reject requests that run at a time
          MaxAttempts,  \* ASSIGNMENT_MAX_ATTEMPTS
          Batch,        \* ASSIGNMENT_BATCH
          None          \* a missing key or column

ASSUME ConstantsAssumption ==
    /\ NOrders \in Nat
    /\ MaxAttempts \in Nat
    /\ Batch \in Nat \ {0}
    /\ IsFiniteSet(Workers) /\ Workers # {}
    /\ None \notin Agents

VARIABLES status,    \* orders.status, as far as it matters here
          agent,     \* orders.delivery_agent_id
          offer,     \* offer:order:<id>, the candidates; {} is no key
          lock,      \* claim:order:<id>
          attempts,  \* assign:attempts:<id>
          busy,      \* presence:busy
          tick,      \* worker -> its tick in progress
          claim,     \* accept and assign requests in progress
          reject,    \* reject requests in progress
          closing,   \* deliveries of an order after their commit
          invited    \* history: agents that were a candidate for an order

vars == <<status, agent, offer, lock, attempts, busy, tick, claim,
          reject, closing, invited>>

Orders == 1..NOrders
OrderOrNone == Orders \cup {0}

\* done: delivered or cancelled.  assigned includes picked.
States == {"ready", "assigned", "done"}

\* todo: orders of the batch still to be tried; cands: candidates found.
Tick == [pc : {"idle", "look", "find", "search", "offer", "count"},
         todo : SUBSET Orders, cands : SUBSET Agents]
NoTick == [pc |-> "idle", todo |-> {}, cands |-> {}]

Claim == [pc : {"idle", "lock", "db", "undo", "busy", "cleanup"},
          agent : Agents \cup {None}, order : OrderOrNone]
NoClaim == [pc |-> "idle", agent |-> None, order |-> 0]

\* left: the candidates without the one that rejects.
Reject == [pc : {"idle", "write"}, order : OrderOrNone, left : SUBSET Agents]
NoReject == [pc |-> "idle", order |-> 0, left |-> {}]

\* Workers that race past the cap overshoot it by one attempt each at most.
TypeOK ==
    /\ status \in [Orders -> States]
    /\ agent \in [Orders -> Agents \cup {None}]
    /\ offer \in [Orders -> SUBSET Agents]
    /\ lock \in [Orders -> Agents \cup {None}]
    /\ attempts \in [Orders -> 0 .. MaxAttempts + Cardinality(Workers) - 1]
    /\ busy \subseteq Agents
    /\ tick \in [Workers -> Tick]
    /\ \A w \in Workers : tick[w].pc = "idle" <=> tick[w].todo = {}
    /\ claim \in [Claimers -> Claim]
    /\ reject \in [Rejecters -> Reject]
    /\ closing \in [Orders -> {"no", "free", "unlock"}]
    /\ invited \in [Orders -> SUBSET Agents]

Init ==
    /\ status = [o \in Orders |-> "ready"]
    /\ agent = [o \in Orders |-> None]
    /\ offer = [o \in Orders |-> {}]
    /\ lock = [o \in Orders |-> None]
    /\ attempts = [o \in Orders |-> 0]
    /\ busy = {}
    /\ tick = [w \in Workers |-> NoTick]
    /\ claim = [c \in Claimers |-> NoClaim]
    /\ reject = [r \in Rejecters |-> NoReject]
    /\ closing = [o \in Orders |-> "no"]
    /\ invited = [o \in Orders |-> {}]

rowVars == <<status, agent>>
requestVars == <<tick, claim, reject, closing>>

-----------------------------------------------------------------------------
(* tickRegion and tryAssign *)

Unassigned == {o \in Orders : status[o] = "ready" /\ agent[o] = None}

\* findReadyUnassigned: the Batch longest ready.
FirstReady ==
    {o \in Unassigned : Cardinality({p \in Unassigned : p < o}) < Batch}

\* The job of the region, whose last tick has ended.
IsIdle(w) == tick[w].pc = "idle"

Fetch(w) ==
    /\ IsIdle(w)
    /\ FirstReady # {}
    /\ tick' = [tick EXCEPT ![w] = [NoTick EXCEPT !.pc = "look",
                                                  !.todo = FirstReady]]
    /\ UNCHANGED <<rowVars, offer, lock, attempts, busy, claim,
                   reject, closing, invited>>

AtOrder(w, o) == o \in tick[w].todo /\ \A p \in tick[w].todo : o <= p

\* On to the next order of the batch, or the end of the tick.
Done(w, o) == LET rest == tick[w].todo \ {o} IN
    [tick EXCEPT ![w] = IF rest = {} THEN NoTick
                        ELSE [NoTick EXCEPT !.pc = "look", !.todo = rest]]

\* An order with an open offer is skipped.
Look(w) ==
    /\ tick[w].pc = "look"
    /\ \E o \in Orders :
           /\ AtOrder(w, o)
           /\ tick' = IF offer[o] # {} THEN Done(w, o)
                      ELSE [tick EXCEPT ![w].pc = "find"]
    /\ UNCHANGED <<rowVars, offer, lock, attempts, busy, claim,
                   reject, closing, invited>>

\* Mistaken variant: one attempt too many.
IsExhaustedLate(o) == attempts[o] > MaxAttempts

IsExhausted(o) == attempts[o] >= MaxAttempts

\* The cap on attempts; findCandidates comes next.
Find(w) ==
    /\ tick[w].pc = "find"
    /\ \E o \in Orders :
           /\ AtOrder(w, o)
           /\ tick' = IF IsExhausted(o) THEN Done(w, o)
                      ELSE [tick EXCEPT ![w].pc = "search"]
    /\ UNCHANGED <<rowVars, offer, lock, attempts, busy, claim,
                   reject, closing, invited>>

\* findCandidates asks for the agents near the branch one by one, so each is
\* free when he is asked and may be busy before the offer is made.  Who is
\* online and where is up to the agents: any of them may be near, with a fresh
\* presence key.
Ask(w) ==
    /\ tick[w].pc = "search"
    /\ \E a \in Agents \ (busy \cup tick[w].cands) :
           tick' = [tick EXCEPT ![w].cands = @ \cup {a}]
    /\ UNCHANGED <<rowVars, offer, lock, attempts, busy, claim,
                   reject, closing, invited>>

\* All have been asked, or enough were found.
SearchEnds(w) ==
    /\ tick[w].pc = "search"
    /\ tick' = [tick EXCEPT
                    ![w].pc = IF tick[w].cands = {} THEN "count" ELSE "offer"]
    /\ UNCHANGED <<rowVars, offer, lock, attempts, busy, claim,
                   reject, closing, invited>>

\* SETNX of the offer: an open one is left alone.
Offer(w) ==
    /\ tick[w].pc = "offer"
    /\ \E o \in Orders :
           LET cands == tick[w].cands IN
           /\ AtOrder(w, o)
           /\ IF offer[o] = {}
              THEN /\ offer' = [offer EXCEPT ![o] = cands]
                   /\ invited' = [invited EXCEPT ![o] = @ \cup cands]
                   /\ tick' = [tick EXCEPT ![w].pc = "count", ![w].cands = {}]
              ELSE /\ tick' = Done(w, o)
                   /\ UNCHANGED <<offer, invited>>
    /\ UNCHANGED <<rowVars, lock, attempts, busy, claim, reject, closing>>

\* INCR of the attempts, whether there was a candidate or not.
Count(w) ==
    /\ tick[w].pc = "count"
    /\ \E o \in Orders :
           /\ AtOrder(w, o)
           /\ attempts' = [attempts EXCEPT ![o] = @ + 1]
           /\ tick' = Done(w, o)
    /\ UNCHANGED <<rowVars, offer, lock, busy, claim, reject, closing, invited>>

\* An error in tryAssign is logged, the batch goes on.
TryFails(w) ==
    /\ tick[w].pc # "idle"
    /\ \E o \in Orders : AtOrder(w, o) /\ tick' = Done(w, o)
    /\ UNCHANGED <<rowVars, offer, lock, attempts, busy, claim,
                   reject, closing, invited>>

-----------------------------------------------------------------------------
(* claim and adminAssign *)

ClaimGoes(c, pc) == [claim EXCEPT ![c].pc = pc]
ClaimEnds(c) == [claim EXCEPT ![c] = NoClaim]
DropLock(c) == [lock EXCEPT ![claim[c].order] = None]

\* Mistaken variant: any agent may accept an open offer.
MayAcceptAny(a, o) == offer[o] # {}

\* The offer names the agent.
MayAccept(a, o) == a \in offer[o]

Accept(c, a, o) ==
    /\ claim[c].pc = "idle"
    /\ MayAccept(a, o)
    /\ claim' = [claim EXCEPT ![c] = [pc |-> "lock", agent |-> a, order |-> o]]
    /\ UNCHANGED <<rowVars, offer, lock, attempts, busy, tick,
                   reject, closing, invited>>

\* An admin needs no offer; the agent counts as invited.
AdminAssign(c, a, o) ==
    /\ claim[c].pc = "idle"
    /\ claim' = [claim EXCEPT ![c] = [pc |-> "lock", agent |-> a, order |-> o]]
    /\ invited' = [invited EXCEPT ![o] = @ \cup {a}]
    /\ UNCHANGED <<rowVars, offer, lock, attempts, busy, tick,
                   reject, closing>>

\* SETNX of the claim lock: the second to come is refused.
Lock(c) ==
    LET o == claim[c].order IN
    /\ claim[c].pc = "lock"
    /\ IF lock[o] = None
       THEN /\ lock' = [lock EXCEPT ![o] = claim[c].agent]
            /\ claim' = ClaimGoes(c, "db")
       ELSE /\ claim' = ClaimEnds(c)
            /\ UNCHANGED lock
    /\ UNCHANGED <<rowVars, offer, attempts, busy, tick, reject,
                   closing, invited>>

\* Mistaken variant: the lock is trusted, the row is not looked at.
IsClaimableByLock(o) == TRUE

\* The WHERE clause of claimReadyOrderForAgent.
IsClaimable(o) == status[o] = "ready" /\ agent[o] = None

SetAgent(c) ==
    /\ status' = [status EXCEPT ![claim[c].order] = "assigned"]
    /\ agent' = [agent EXCEPT ![claim[c].order] = claim[c].agent]

\* claimReadyOrderForAgent and the commit.
Commit(c) ==
    /\ claim[c].pc = "db"
    /\ IsClaimable(claim[c].order)
    /\ SetAgent(c)
    /\ claim' = ClaimGoes(c, "busy")
    /\ UNCHANGED <<offer, lock, attempts, busy, tick, reject,
                   closing, invited>>

\* No row matched: the lock is deleted, and once more in the catch.
Refused(c) ==
    /\ claim[c].pc = "db"
    /\ ~IsClaimable(claim[c].order)
    /\ lock' = DropLock(c)
    /\ claim' = ClaimGoes(c, "undo")
    /\ UNCHANGED <<rowVars, offer, attempts, busy, tick, reject,
                   closing, invited>>

\* The transaction fails; if the connection broke at the commit, it may
\* have taken effect.
DbFails(c) ==
    /\ claim[c].pc = "db"
    /\ \/ UNCHANGED rowVars
       \/ IsClaimable(claim[c].order) /\ SetAgent(c)
    /\ claim' = ClaimGoes(c, "undo")
    /\ UNCHANGED <<offer, lock, attempts, busy, tick, reject,
                   closing, invited>>

\* The catch deletes the lock, whoever holds it by now.
Undo(c) ==
    /\ claim[c].pc = "undo"
    /\ lock' = DropLock(c)
    /\ claim' = ClaimEnds(c)
    /\ UNCHANGED <<rowVars, offer, attempts, busy, tick, reject,
                   closing, invited>>

\* After the commit: markBusy.
MarkBusy(c) ==
    /\ claim[c].pc = "busy"
    /\ busy' = busy \cup {claim[c].agent}
    /\ claim' = ClaimGoes(c, "cleanup")
    /\ UNCHANGED <<rowVars, offer, lock, attempts, tick, reject,
                   closing, invited>>

\* After the messages: the offer is dropped.
DropOffer(c) ==
    /\ claim[c].pc = "cleanup"
    /\ offer' = [offer EXCEPT ![claim[c].order] = {}]
    /\ claim' = ClaimEnds(c)
    /\ UNCHANGED <<rowVars, lock, attempts, busy, tick, reject,
                   closing, invited>>

\* The process dies, or Redis cannot be reached.
ClaimCrashes(c) ==
    /\ claim[c].pc # "idle"
    /\ claim' = ClaimEnds(c)
    /\ UNCHANGED <<rowVars, offer, lock, attempts, busy, tick,
                   reject, closing, invited>>

-----------------------------------------------------------------------------
(* reject *)

RejectRead(r, a, o) ==
    /\ reject[r].pc = "idle"
    /\ a \in offer[o]
    /\ reject' = [reject EXCEPT ![r] = [pc |-> "write", order |-> o,
                                        left |-> offer[o] \ {a}]]
    /\ UNCHANGED <<rowVars, offer, lock, attempts, busy, tick,
                   claim, closing, invited>>

\* SET of what was left when the key was read, or DEL; nobody looks whether
\* the key is still the same or there at all.
RejectWrite(r) ==
    /\ reject[r].pc = "write"
    /\ offer' = [offer EXCEPT ![reject[r].order] = reject[r].left]
    /\ reject' = [reject EXCEPT ![r] = NoReject]
    /\ UNCHANGED <<rowVars, lock, attempts, busy, tick, claim,
                   closing, invited>>

RejectFails(r) ==
    /\ reject[r].pc = "write"
    /\ reject' = [reject EXCEPT ![r] = NoReject]
    /\ UNCHANGED <<rowVars, offer, lock, attempts, busy, tick,
                   claim, closing, invited>>

-----------------------------------------------------------------------------
(* The end of an order, and of keys *)

\* DeliveryLifecycleService.deliver commits, then frees agent and lock.
Deliver(o) ==
    /\ status[o] = "assigned"
    /\ status' = [status EXCEPT ![o] = "done"]
    /\ closing' = [closing EXCEPT ![o] = "free"]
    /\ UNCHANGED <<agent, offer, lock, attempts, busy, tick, claim,
                   reject, invited>>

MarkFree(o) ==
    /\ closing[o] = "free"
    /\ busy' = busy \ {agent[o]}
    /\ closing' = [closing EXCEPT ![o] = "unlock"]
    /\ UNCHANGED <<rowVars, offer, lock, attempts, tick, claim,
                   reject, invited>>

Unlock(o) ==
    /\ closing[o] = "unlock"
    /\ lock' = [lock EXCEPT ![o] = None]
    /\ closing' = [closing EXCEPT ![o] = "no"]
    /\ UNCHANGED <<rowVars, offer, attempts, busy, tick, claim,
                   reject, invited>>

\* A PATCH cancels or delivers the order and touches no key, or the
\* delivery stops after its commit.
Leave(o) ==
    /\ \/ /\ status[o] # "done"
          /\ status' = [status EXCEPT ![o] = "done"]
          /\ UNCHANGED closing
       \/ /\ closing[o] # "no"
          /\ closing' = [closing EXCEPT ![o] = "no"]
          /\ UNCHANGED status
    /\ UNCHANGED <<agent, offer, lock, attempts, busy, tick, claim,
                   reject, invited>>

OfferExpires(o) ==
    /\ offer[o] # {}
    /\ offer' = [offer EXCEPT ![o] = {}]
    /\ UNCHANGED <<rowVars, lock, attempts, busy, requestVars, invited>>

LockExpires(o) ==
    /\ lock[o] # None
    /\ lock' = [lock EXCEPT ![o] = None]
    /\ UNCHANGED <<rowVars, offer, attempts, busy, requestVars, invited>>

\* An hour after an attempt without candidates, ten after an offer.
AttemptsExpire(o) ==
    /\ attempts[o] # 0
    /\ attempts' = [attempts EXCEPT ![o] = 0]
    /\ UNCHANGED <<rowVars, offer, lock, busy, requestVars, invited>>

-----------------------------------------------------------------------------
WorkerStep(w) == \/ Fetch(w) \/ Look(w) \/ Find(w) \/ Ask(w) \/ SearchEnds(w)
                 \/ Offer(w) \/ Count(w)

ClaimStep(c) == \/ Lock(c) \/ Commit(c) \/ Refused(c) \/ DbFails(c) \/ Undo(c)
                \/ MarkBusy(c) \/ DropOffer(c) \/ ClaimCrashes(c)

Next ==
    \/ \E w \in Workers : WorkerStep(w) \/ TryFails(w)
    \/ \E c \in Claimers, a \in Agents, o \in Orders :
           Accept(c, a, o) \/ AdminAssign(c, a, o)
    \/ \E c \in Claimers : ClaimStep(c)
    \/ \E r \in Rejecters, a \in Agents, o \in Orders : RejectRead(r, a, o)
    \/ \E r \in Rejecters : RejectWrite(r) \/ RejectFails(r)
    \/ \E o \in Orders : \/ Deliver(o) \/ MarkFree(o) \/ Unlock(o) \/ Leave(o)
                         \/ OfferExpires(o) \/ LockExpires(o) \/ AttemptsExpire(o)

Spec == Init /\ [][Next]_vars

-----------------------------------------------------------------------------
(* Properties *)

\* Whatever becomes of offers and locks, an order is claimed once: no second
\* accept or assignment gets past the commit while one is there, and whoever
\* gets there is the agent of the order.
OneWinner ==
    /\ \A c, d \in Claimers :
           /\ claim[c].pc \in {"busy", "cleanup"}
           /\ claim[d].pc \in {"busy", "cleanup"}
           /\ claim[c].order = claim[d].order
           => c = d
    /\ \A c \in Claimers : claim[c].pc \in {"busy", "cleanup"} =>
                               agent[claim[c].order] = claim[c].agent

\* The agent of an order was a candidate of one of its offers or named by an
\* admin, although rejects write old lists back.
WinnerWasInvited ==
    \A o \in Orders : agent[o] # None => agent[o] \in invited[o]
=============================================================================
