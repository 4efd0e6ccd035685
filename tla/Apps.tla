-------------------------------- MODULE Apps --------------------------------
(***************************************************************************)
(* The phases of the example applications and the pipelines they compose.  *)
(*                                                                         *)
(* A phase is what its Go type declares: the states it enters and exits    *)
(* at, the message types it consumes, the bucket whose senders complete    *)
(* it, the context keys it Requires and Provides, the depth of the crypto  *)
(* contract it offers or asks for, and which Enter and Exit code it runs.  *)
(* Each application has its own key names; one name per role is kept here: *)
(* "pk", "ek" and "shares" are the key bundle, "contract" the CKKS         *)
(* parameters, "inputs" what was collected, "scored" the encrypted winner, *)
(* "result" the opened one and "transcript" the settlement.                *)
(***************************************************************************)
EXTENDS Integers, Sequences, FiniteSets

None == "none"

Phase(in, out, takes, needs, gives) ==
  [in |-> in, out |-> out, takes |-> takes, needs |-> needs, gives |-> gives,
   bucket |-> None, enter |-> None, exit |-> None, depth |-> 0, depthMin |-> 0]

\* A phase that collects one message of each participant under a bucket.
Collector(ph, bucket, exit) == [ph EXCEPT !.bucket = bucket, !.exit = exit]

Bundle == {"pk", "shares", "ek"}

-----------------------------------------------------------------------------
(* examples/sealed_bid_auction *)

AuctionInvitation ==
  [Phase("INVITING", "LOCKED", {}, {}, {"participants", "contract"})
     EXCEPT !.depth = 10]
AuctionKeygen ==
  [Collector(Phase("LOCKED", "BIDDING", {"keygen.share"}, {"participants", "contract"}, Bundle),
             "keygen.share", "keygen")
     EXCEPT !.depthMin = 4]
AuctionScalarBid ==
  Collector(Phase("BIDDING", "SCORING", {"bid"}, {"participants", "pk", "contract"}, {"inputs"}),
            "bid", "collect")
AuctionArgmax ==
  [Phase("SCORING", "DECRYPTING", {}, {"participants", "contract", "ek", "inputs"}, {"scored"})
     EXCEPT !.enter = "score", !.depthMin = 8]
AuctionDecrypt ==
  Collector(Phase("DECRYPTING", "SETTLED", {"decrypt.partial"},
                  {"participants", "shares", "scored"}, {"result"}),
            "decrypt.partial", "decrypt")
AuctionSettlement ==
  [Phase("SETTLED", None, {}, {"result"}, {"transcript"}) EXCEPT !.enter = "settle"]

-----------------------------------------------------------------------------
(* examples/ride_share *)

RideInvite ==
  [Phase("INVITING", "KEYGEN", {}, {}, {"participants", "roles", "contract"})
     EXCEPT !.depth = 12]
RideKeygen ==
  [Collector(Phase("KEYGEN", "SUBMIT", {"keygen.share"}, {"participants", "contract"}, Bundle),
             "keygen.share", "keygen")
     EXCEPT !.depthMin = 4]
\* ride.bid and ride.request fill one bucket.
RideSubmit ==
  Collector(Phase("SUBMIT", "SCORE", {"bid", "ride.request"},
                  {"participants", "roles", "pk", "contract"}, {"inputs"}),
            "bid", "collect")
RideScore ==
  [Phase("SCORE", "DECRYPT", {}, {"participants", "contract", "ek", "inputs"}, {"scored"})
     EXCEPT !.enter = "score"]
RideDecrypt ==
  Collector(Phase("DECRYPT", "SETTLE", {"decrypt.partial"},
                  {"participants", "shares", "scored"}, {"result"}),
            "decrypt.partial", "decrypt")
RideSettle ==
  [Phase("SETTLE", None, {}, {"result"}, {"transcript"}) EXCEPT !.enter = "settle"]

-----------------------------------------------------------------------------
(* examples/recurring_cohort_ranking *)

CohortForm == Phase("FORMING", "COHORT_KEYGEN", {}, {}, {"participants", "cohort"})
CohortKeygen ==
  [Collector(Phase("COHORT_KEYGEN", "SEALED", {"keygen.share"}, {"participants"},
                   Bundle \cup {"contract"}),
             "keygen.share", "cohort_keygen")
     EXCEPT !.depth = 10]

\* The bridge phase of the weekly service promises the bundle its trigger seeds.
WeeklyKeySeeder ==
  [Phase("SEEDED", "RANK_INVITING", {}, {}, Bundle \cup {"participants", "contract"})
     EXCEPT !.depth = 30]
RankingInvitation ==
  Phase("RANK_INVITING", "RANK_LOCKED", {}, {"participants"}, {"participants"})
PreSharedKeyLookup ==
  [Phase("RANK_LOCKED", "RANK_BIDDING", {}, Bundle, {}) EXCEPT !.enter = "lookup"]
SubmitRating ==
  Collector(Phase("RANK_BIDDING", "RANK_SCORING", {"bid"}, {"participants"}, {"inputs"}),
            "bid", "collect")
ArgmaxScoring ==
  [Phase("RANK_SCORING", "RANK_DECRYPT", {}, {"participants", "contract", "ek", "inputs"},
         {"scored"})
     EXCEPT !.enter = "score", !.depthMin = 8]
\* The weekly service composes the decrypt phase without a helper.
ThresholdDecrypt ==
  Collector(Phase("RANK_DECRYPT", "RANK_SETTLED", {"decrypt.partial"},
                  {"participants", "shares", "scored"}, {"result"}),
            "decrypt.partial", "stub_decrypt")
SettleRanking ==
  [Phase("RANK_SETTLED", None, {}, {"result"}, {"transcript"}) EXCEPT !.enter = "settle"]

-----------------------------------------------------------------------------
(* examples/voting with the shuffle of pkg/ares/phase/anon *)

VoteInvite == Phase("INVITING", "LOCKED", {}, {}, {"participants"})
\* Declares a key bundle and sets none of it.
PlaintextKeygen == Phase("LOCKED", "GOSSIP", {}, {"participants"}, Bundle)
PhaseGShuffle ==
  Collector(Phase("GOSSIP", "VERIFYING", {"onion.batch", "peel_forward"}, {"participants"},
                  {"peel_rounds"}),
            "peel_forward", "shuffle")
PhaseGVerify ==
  Collector(Phase("VERIFYING", "SUBMITTING", {"slot.submit"}, {"participants"}, {"slots"}),
            "slot.submit", "verify")
PhaseSubmitVote ==
  Collector(Phase("SUBMITTING", "SCORING", {"ballot"}, {"participants"}, {"inputs"}),
            "ballot", "ballots")
PhaseTally == [Phase("SCORING", "DECRYPTING", {}, {"inputs"}, {"result"}) EXCEPT !.enter = "tally"]
VoteSettle ==
  [Phase("DECRYPTING", None, {}, {"result"}, {"transcript"}) EXCEPT !.enter = "settle_vote"]

-----------------------------------------------------------------------------
(* examples/bounded_admission with pkg/ares/phase/boundcheck *)

AdmissionInvitation == Phase("INVITING", "LOCKED", {}, {}, {"participants"})
AdmissionKeygen ==
  [Phase("LOCKED", "SUBMITTING", {}, {}, {"dim", "ek", "pk"}) EXCEPT !.exit = "admission_keygen"]
PhaseSubmitInput ==
  Collector(Phase("SUBMITTING", "CHECKING", {"input"}, {"participants"}, {"inputs"}),
            "input", "collect")
BoundCheck ==
  [Collector(Phase("CHECKING", "SETTLED", {"bound.partial"},
                   {"inputs", "dim", "ek", "pk", "participants"}, {"checks", "commitments"}),
             "bound.partial", "bound")
     EXCEPT !.enter = "bound"]
AdmissionSettle ==
  [Phase("SETTLED", None, {}, {}, {"results"}) EXCEPT !.enter = "settle_admission"]

-----------------------------------------------------------------------------
Pipelines ==
  [auction   |-> <<AuctionInvitation, AuctionKeygen, AuctionScalarBid, AuctionArgmax,
                   AuctionDecrypt, AuctionSettlement>>,
   ride      |-> <<RideInvite, RideKeygen, RideSubmit, RideScore, RideDecrypt, RideSettle>>,
   formation |-> <<CohortForm, CohortKeygen>>,
   weekly    |-> <<WeeklyKeySeeder, RankingInvitation, PreSharedKeyLookup, SubmitRating,
                   ArgmaxScoring, ThresholdDecrypt, SettleRanking>>,
   voting    |-> <<VoteInvite, PlaintextKeygen, PhaseGShuffle, PhaseGVerify, PhaseSubmitVote,
                   PhaseTally, VoteSettle>>,
   admission |-> <<AdmissionInvitation, AdmissionKeygen, PhaseSubmitInput, BoundCheck,
                   AdmissionSettle>>]

\* The phases the weekly service composes behind its bridge phase.
Weekly == Tail(Pipelines.weekly)

AppNames == DOMAIN Pipelines

-----------------------------------------------------------------------------
(* What Compose checks of a pipeline before it builds a runner.            *)

Provided(phases, k) == UNION {phases[j].gives : j \in 1 .. k - 1}

validateRequires(phases, k) == phases[k].needs \subseteq Provided(phases, k)

\* The contract in force is the one the last preceding provider declared.
checkConstraints(phases, k) ==
  LET offers == {j \in 1 .. k - 1 : "contract" \in phases[j].gives} IN
  offers # {} =>
    phases[CHOOSE j \in offers : \A i \in offers : i <= j].depth >= phases[k].depthMin

Connected(phases) ==
  /\ \A j, k \in 1 .. Len(phases) : phases[j].in = phases[k].in => j = k
  /\ \A k \in 2 .. Len(phases) : phases[k - 1].out = phases[k].in

Compose(phases) ==
  /\ phases # <<>>
  /\ \A k \in 1 .. Len(phases) : validateRequires(phases, k) /\ checkConstraints(phases, k)
  /\ Connected(phases)

\* Every service starts; the weekly phases alone do not compose, which is what the
\* bridge phase is for.
ASSUME PipelinesCompose == \A a \in AppNames : Compose(Pipelines[a])
ASSUME WeeklyNeedsSeeder == ~Compose(Weekly)
=============================================================================
