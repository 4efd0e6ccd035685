------------------------ MODULE ServiceSteps_proofs ------------------------
(***************************************************************************)
(* The steps of the session services: facts about the six pipelines, what  *)
(* every step does to a session, and that batches are peeled in order.     *)
(* They hold for any number of participants, any norms and any number of   *)
(* lost, damaged or failed messages and helper calls.                      *)
(***************************************************************************)
EXTENDS Service, TLAPS

-----------------------------------------------------------------------------
(* The pipelines, written out: what the proofs use of each phase.          *)

Is(ph, in, out, takes, buck, enter, exit) ==
  /\ ph.in = in /\ ph.out = out /\ ph.takes = takes /\ ph.bucket = buck
  /\ ph.enter = enter /\ ph.exit = exit /\ "handle" \notin ph.gives

LEMMA Apps6 == AppNames = {"auction", "ride", "formation", "weekly", "voting", "admission"}
BY DEF AppNames, Pipelines

LEMMA AuctionPhases ==
  LET P == Pipelines["auction"] IN
  /\ DOMAIN P = 1 .. 6 /\ Len(P) = 6
  /\ Is(P[1], "INVITING", "LOCKED", {}, None, None, None)
  /\ Is(P[2], "LOCKED", "BIDDING", {"keygen.share"}, "keygen.share", None, "keygen")
  /\ Is(P[3], "BIDDING", "SCORING", {"bid"}, "bid", None, "collect")
  /\ Is(P[4], "SCORING", "DECRYPTING", {}, None, "score", None)
  /\ Is(P[5], "DECRYPTING", "SETTLED", {"decrypt.partial"}, "decrypt.partial", None, "decrypt")
  /\ Is(P[6], "SETTLED", None, {}, None, "settle", None)
<1>1. Pipelines["auction"] =
        <<AuctionInvitation, AuctionKeygen, AuctionScalarBid, AuctionArgmax,
          AuctionDecrypt, AuctionSettlement>>
  BY DEF Pipelines
<1>2. Is(AuctionInvitation, "INVITING", "LOCKED", {}, None, None, None)
  BY DEF Is, AuctionInvitation, Phase, Collector, Bundle
<1>3. Is(AuctionKeygen, "LOCKED", "BIDDING", {"keygen.share"}, "keygen.share", None, "keygen")
  BY DEF Is, AuctionKeygen, Phase, Collector, Bundle
<1>4. Is(AuctionScalarBid, "BIDDING", "SCORING", {"bid"}, "bid", None, "collect")
  BY DEF Is, AuctionScalarBid, Phase, Collector, Bundle
<1>5. Is(AuctionArgmax, "SCORING", "DECRYPTING", {}, None, "score", None)
  BY DEF Is, AuctionArgmax, Phase, Collector, Bundle
<1>6. Is(AuctionDecrypt, "DECRYPTING", "SETTLED",
         {"decrypt.partial"}, "decrypt.partial", None, "decrypt")
  BY DEF Is, AuctionDecrypt, Phase, Collector, Bundle
<1>7. Is(AuctionSettlement, "SETTLED", None, {}, None, "settle", None)
  BY DEF Is, AuctionSettlement, Phase, Collector, Bundle
<1>8. LET P == Pipelines["auction"] IN
      /\ DOMAIN P = 1 .. 6 /\ Len(P) = 6
      /\ P[1] = AuctionInvitation /\ P[2] = AuctionKeygen
      /\ P[3] = AuctionScalarBid /\ P[4] = AuctionArgmax
      /\ P[5] = AuctionDecrypt /\ P[6] = AuctionSettlement
  BY <1>1
<1> QED BY <1>2, <1>3, <1>4, <1>5, <1>6, <1>7, <1>8, Zenon

LEMMA RidePhases ==
  LET P == Pipelines["ride"] IN
  /\ DOMAIN P = 1 .. 6 /\ Len(P) = 6
  /\ Is(P[1], "INVITING", "KEYGEN", {}, None, None, None)
  /\ Is(P[2], "KEYGEN", "SUBMIT", {"keygen.share"}, "keygen.share", None, "keygen")
  /\ Is(P[3], "SUBMIT", "SCORE", {"bid", "ride.request"}, "bid", None, "collect")
  /\ Is(P[4], "SCORE", "DECRYPT", {}, None, "score", None)
  /\ Is(P[5], "DECRYPT", "SETTLE", {"decrypt.partial"}, "decrypt.partial", None, "decrypt")
  /\ Is(P[6], "SETTLE", None, {}, None, "settle", None)
<1>1. Pipelines["ride"] =
        <<RideInvite, RideKeygen, RideSubmit, RideScore, RideDecrypt,
          RideSettle>>
  BY DEF Pipelines
<1>2. Is(RideInvite, "INVITING", "KEYGEN", {}, None, None, None)
  BY DEF Is, RideInvite, Phase, Collector, Bundle
<1>3. Is(RideKeygen, "KEYGEN", "SUBMIT", {"keygen.share"}, "keygen.share", None, "keygen")
  BY DEF Is, RideKeygen, Phase, Collector, Bundle
<1>4. Is(RideSubmit, "SUBMIT", "SCORE", {"bid", "ride.request"}, "bid", None, "collect")
  BY DEF Is, RideSubmit, Phase, Collector, Bundle
<1>5. Is(RideScore, "SCORE", "DECRYPT", {}, None, "score", None)
  BY DEF Is, RideScore, Phase, Collector, Bundle
<1>6. Is(RideDecrypt, "DECRYPT", "SETTLE",
         {"decrypt.partial"}, "decrypt.partial", None, "decrypt")
  BY DEF Is, RideDecrypt, Phase, Collector, Bundle
<1>7. Is(RideSettle, "SETTLE", None, {}, None, "settle", None)
  BY DEF Is, RideSettle, Phase, Collector, Bundle
<1>8. LET P == Pipelines["ride"] IN
      /\ DOMAIN P = 1 .. 6 /\ Len(P) = 6
      /\ P[1] = RideInvite /\ P[2] = RideKeygen
      /\ P[3] = RideSubmit /\ P[4] = RideScore
      /\ P[5] = RideDecrypt /\ P[6] = RideSettle
  BY <1>1
<1> QED BY <1>2, <1>3, <1>4, <1>5, <1>6, <1>7, <1>8, Zenon

LEMMA FormationPhases ==
  LET P == Pipelines["formation"] IN
  /\ DOMAIN P = 1 .. 2 /\ Len(P) = 2
  /\ Is(P[1], "FORMING", "COHORT_KEYGEN", {}, None, None, None)
  /\ Is(P[2], "COHORT_KEYGEN", "SEALED",
        {"keygen.share"}, "keygen.share", None, "cohort_keygen")
<1>1. Pipelines["formation"] =
        <<CohortForm, CohortKeygen>>
  BY DEF Pipelines
<1>2. Is(CohortForm, "FORMING", "COHORT_KEYGEN", {}, None, None, None)
  BY DEF Is, CohortForm, Phase, Collector, Bundle
<1>3. Is(CohortKeygen, "COHORT_KEYGEN", "SEALED",
         {"keygen.share"}, "keygen.share", None, "cohort_keygen")
  BY DEF Is, CohortKeygen, Phase, Collector, Bundle
<1>4. LET P == Pipelines["formation"] IN
      /\ DOMAIN P = 1 .. 2 /\ Len(P) = 2
      /\ P[1] = CohortForm /\ P[2] = CohortKeygen
  BY <1>1
<1> QED BY <1>2, <1>3, <1>4, Zenon

LEMMA WeeklyPhases ==
  LET P == Pipelines["weekly"] IN
  /\ DOMAIN P = 1 .. 7 /\ Len(P) = 7
  /\ Is(P[1], "SEEDED", "RANK_INVITING", {}, None, None, None)
  /\ Is(P[2], "RANK_INVITING", "RANK_LOCKED", {}, None, None, None)
  /\ Is(P[3], "RANK_LOCKED", "RANK_BIDDING", {}, None, "lookup", None)
  /\ Is(P[4], "RANK_BIDDING", "RANK_SCORING", {"bid"}, "bid", None, "collect")
  /\ Is(P[5], "RANK_SCORING", "RANK_DECRYPT", {}, None, "score", None)
  /\ Is(P[6], "RANK_DECRYPT", "RANK_SETTLED",
        {"decrypt.partial"}, "decrypt.partial", None, "stub_decrypt")
  /\ Is(P[7], "RANK_SETTLED", None, {}, None, "settle", None)
<1>1. Pipelines["weekly"] =
        <<WeeklyKeySeeder, RankingInvitation, PreSharedKeyLookup, SubmitRating,
          ArgmaxScoring, ThresholdDecrypt, SettleRanking>>
  BY DEF Pipelines
<1>2. Is(WeeklyKeySeeder, "SEEDED", "RANK_INVITING", {}, None, None, None)
  BY DEF Is, WeeklyKeySeeder, Phase, Collector, Bundle
<1>3. Is(RankingInvitation, "RANK_INVITING", "RANK_LOCKED", {}, None, None, None)
  BY DEF Is, RankingInvitation, Phase, Collector, Bundle
<1>4. Is(PreSharedKeyLookup, "RANK_LOCKED", "RANK_BIDDING", {}, None, "lookup", None)
  BY DEF Is, PreSharedKeyLookup, Phase, Collector, Bundle
<1>5. Is(SubmitRating, "RANK_BIDDING", "RANK_SCORING", {"bid"}, "bid", None, "collect")
  BY DEF Is, SubmitRating, Phase, Collector, Bundle
<1>6. Is(ArgmaxScoring, "RANK_SCORING", "RANK_DECRYPT", {}, None, "score", None)
  BY DEF Is, ArgmaxScoring, Phase, Collector, Bundle
<1>7. Is(ThresholdDecrypt, "RANK_DECRYPT", "RANK_SETTLED",
         {"decrypt.partial"}, "decrypt.partial", None, "stub_decrypt")
  BY DEF Is, ThresholdDecrypt, Phase, Collector, Bundle
<1>8. Is(SettleRanking, "RANK_SETTLED", None, {}, None, "settle", None)
  BY DEF Is, SettleRanking, Phase, Collector, Bundle
<1>9. LET P == Pipelines["weekly"] IN
      /\ DOMAIN P = 1 .. 7 /\ Len(P) = 7
      /\ P[1] = WeeklyKeySeeder /\ P[2] = RankingInvitation
      /\ P[3] = PreSharedKeyLookup /\ P[4] = SubmitRating
      /\ P[5] = ArgmaxScoring /\ P[6] = ThresholdDecrypt
      /\ P[7] = SettleRanking
  BY <1>1
<1> QED BY <1>2, <1>3, <1>4, <1>5, <1>6, <1>7, <1>8, <1>9, Zenon

LEMMA VotingPhases ==
  LET P == Pipelines["voting"] IN
  /\ DOMAIN P = 1 .. 7 /\ Len(P) = 7
  /\ Is(P[1], "INVITING", "LOCKED", {}, None, None, None)
  /\ Is(P[2], "LOCKED", "GOSSIP", {}, None, None, None)
  /\ Is(P[3], "GOSSIP", "VERIFYING",
        {"onion.batch", "peel_forward"}, "peel_forward", None, "shuffle")
  /\ Is(P[4], "VERIFYING", "SUBMITTING", {"slot.submit"}, "slot.submit", None, "verify")
  /\ Is(P[5], "SUBMITTING", "SCORING", {"ballot"}, "ballot", None, "ballots")
  /\ Is(P[6], "SCORING", "DECRYPTING", {}, None, "tally", None)
  /\ Is(P[7], "DECRYPTING", None, {}, None, "settle_vote", None)
<1>1. Pipelines["voting"] =
        <<VoteInvite, PlaintextKeygen, PhaseGShuffle, PhaseGVerify,
          PhaseSubmitVote, PhaseTally, VoteSettle>>
  BY DEF Pipelines
<1>2. Is(VoteInvite, "INVITING", "LOCKED", {}, None, None, None)
  BY DEF Is, VoteInvite, Phase, Collector, Bundle
<1>3. Is(PlaintextKeygen, "LOCKED", "GOSSIP", {}, None, None, None)
  BY DEF Is, PlaintextKeygen, Phase, Collector, Bundle
<1>4. Is(PhaseGShuffle, "GOSSIP", "VERIFYING",
         {"onion.batch", "peel_forward"}, "peel_forward", None, "shuffle")
  BY DEF Is, PhaseGShuffle, Phase, Collector, Bundle
<1>5. Is(PhaseGVerify, "VERIFYING", "SUBMITTING",
         {"slot.submit"}, "slot.submit", None, "verify")
  BY DEF Is, PhaseGVerify, Phase, Collector, Bundle
<1>6. Is(PhaseSubmitVote, "SUBMITTING", "SCORING", {"ballot"}, "ballot", None, "ballots")
  BY DEF Is, PhaseSubmitVote, Phase, Collector, Bundle
<1>7. Is(PhaseTally, "SCORING", "DECRYPTING", {}, None, "tally", None)
  BY DEF Is, PhaseTally, Phase, Collector, Bundle
<1>8. Is(VoteSettle, "DECRYPTING", None, {}, None, "settle_vote", None)
  BY DEF Is, VoteSettle, Phase, Collector, Bundle
<1>9. LET P == Pipelines["voting"] IN
      /\ DOMAIN P = 1 .. 7 /\ Len(P) = 7
      /\ P[1] = VoteInvite /\ P[2] = PlaintextKeygen
      /\ P[3] = PhaseGShuffle /\ P[4] = PhaseGVerify
      /\ P[5] = PhaseSubmitVote /\ P[6] = PhaseTally
      /\ P[7] = VoteSettle
  BY <1>1
<1> QED BY <1>2, <1>3, <1>4, <1>5, <1>6, <1>7, <1>8, <1>9, Zenon

LEMMA AdmissionPhases ==
  LET P == Pipelines["admission"] IN
  /\ DOMAIN P = 1 .. 5 /\ Len(P) = 5
  /\ Is(P[1], "INVITING", "LOCKED", {}, None, None, None)
  /\ Is(P[2], "LOCKED", "SUBMITTING", {}, None, None, "admission_keygen")
  /\ Is(P[3], "SUBMITTING", "CHECKING", {"input"}, "input", None, "collect")
  /\ Is(P[4], "CHECKING", "SETTLED", {"bound.partial"}, "bound.partial", "bound", "bound")
  /\ Is(P[5], "SETTLED", None, {}, None, "settle_admission", None)
<1>1. Pipelines["admission"] =
        <<AdmissionInvitation, AdmissionKeygen, PhaseSubmitInput, BoundCheck,
          AdmissionSettle>>
  BY DEF Pipelines
<1>2. Is(AdmissionInvitation, "INVITING", "LOCKED", {}, None, None, None)
  BY DEF Is, AdmissionInvitation, Phase, Collector, Bundle
<1>3. Is(AdmissionKeygen, "LOCKED", "SUBMITTING", {}, None, None, "admission_keygen")
  BY DEF Is, AdmissionKeygen, Phase, Collector, Bundle
<1>4. Is(PhaseSubmitInput, "SUBMITTING", "CHECKING", {"input"}, "input", None, "collect")
  BY DEF Is, PhaseSubmitInput, Phase, Collector, Bundle
<1>5. Is(BoundCheck, "CHECKING", "SETTLED",
         {"bound.partial"}, "bound.partial", "bound", "bound")
  BY DEF Is, BoundCheck, Phase, Collector, Bundle
<1>6. Is(AdmissionSettle, "SETTLED", None, {}, None, "settle_admission", None)
  BY DEF Is, AdmissionSettle, Phase, Collector, Bundle
<1>7. LET P == Pipelines["admission"] IN
      /\ DOMAIN P = 1 .. 5 /\ Len(P) = 5
      /\ P[1] = AdmissionInvitation /\ P[2] = AdmissionKeygen
      /\ P[3] = PhaseSubmitInput /\ P[4] = BoundCheck
      /\ P[5] = AdmissionSettle
  BY <1>1
<1> QED BY <1>2, <1>3, <1>4, <1>5, <1>6, <1>7, Zenon

-----------------------------------------------------------------------------
(* Facts about the pipelines, by looking at each of them.                  *)

\* A phase is followed by the one behind it in the pipeline.
LEMMA Follows ==
  ASSUME NEW a \in AppNames, NEW j \in DOMAIN Pipelines[a], NEW k \in DOMAIN Pipelines[a],
         Pipelines[a][k].in = Pipelines[a][j].out
  PROVE  k = j + 1
<1>1. CASE a = "auction"
  BY <1>1, AuctionPhases DEF Is, None
<1>2. CASE a = "ride"
  BY <1>2, RidePhases DEF Is, None
<1>3. CASE a = "formation"
  BY <1>3, FormationPhases DEF Is, None
<1>4. CASE a = "weekly"
  BY <1>4, WeeklyPhases DEF Is, None
<1>5. CASE a = "voting"
  BY <1>5, VotingPhases DEF Is, None
<1>6. CASE a = "admission"
  BY <1>6, AdmissionPhases DEF Is, None
<1> QED BY <1>1, <1>2, <1>3, <1>4, <1>5, <1>6, Apps6

\* No two phases of a pipeline enter at the same state.
LEMMA Distinct ==
  ASSUME NEW a \in AppNames, NEW j \in DOMAIN Pipelines[a], NEW k \in DOMAIN Pipelines[a],
         Pipelines[a][k].in = Pipelines[a][j].in
  PROVE  k = j
<1>1. CASE a = "auction"
  BY <1>1, AuctionPhases DEF Is, None
<1>2. CASE a = "ride"
  BY <1>2, RidePhases DEF Is, None
<1>3. CASE a = "formation"
  BY <1>3, FormationPhases DEF Is, None
<1>4. CASE a = "weekly"
  BY <1>4, WeeklyPhases DEF Is, None
<1>5. CASE a = "voting"
  BY <1>5, VotingPhases DEF Is, None
<1>6. CASE a = "admission"
  BY <1>6, AdmissionPhases DEF Is, None
<1> QED BY <1>1, <1>2, <1>3, <1>4, <1>5, <1>6, Apps6

\* The first phase waits for nothing and does nothing on Enter, and only the
\* last one can end the session.
LEMMA Shape ==
  ASSUME NEW a \in AppNames
  PROVE  /\ DOMAIN Pipelines[a] = 1 .. Len(Pipelines[a]) /\ Len(Pipelines[a]) \in Nat \ {0}
         /\ Pipelines[a][1].takes = {} /\ Pipelines[a][1].enter = None
         /\ \A k \in DOMAIN Pipelines[a] :
              /\ Pipelines[a][k].in # None /\ "handle" \notin Pipelines[a][k].gives
              /\ Pipelines[a][k].out = None => k = Len(Pipelines[a])
<1>1. CASE a = "auction"
  BY <1>1, AuctionPhases DEF Is, None
<1>2. CASE a = "ride"
  BY <1>2, RidePhases DEF Is, None
<1>3. CASE a = "formation"
  BY <1>3, FormationPhases DEF Is, None
<1>4. CASE a = "weekly"
  BY <1>4, WeeklyPhases DEF Is, None
<1>5. CASE a = "voting"
  BY <1>5, VotingPhases DEF Is, None
<1>6. CASE a = "admission"
  BY <1>6, AdmissionPhases DEF Is, None
<1> QED BY <1>1, <1>2, <1>3, <1>4, <1>5, <1>6, Apps6

\* Which phases run which code, and which phases come before them.
LEMMA Codes ==
  ASSUME NEW a \in AppNames, NEW k \in DOMAIN Pipelines[a]
  PROVE  LET ph == Pipelines[a][k]
             behind(code) == \E j \in 1 .. k - 1 : Pipelines[a][j].exit = code
         IN
         /\ ph.enter \in {"score", "tally"} => ph.takes = {}
         /\ ph.enter = "score" => \/ a \in {"auction", "ride"} /\ behind("keygen")
                                  \/ a = "weekly"
         /\ ph.enter = "lookup" => a = "weekly"
         /\ ph.enter = "tally" => behind("ballots")
         /\ ph.enter = "settle_vote" => \E j \in 1 .. k - 1 : Pipelines[a][j].enter = "tally"
         /\ ph.enter = "bound" => a = "admission" /\ behind("collect")
         /\ ph.exit \in {"keygen", "decrypt"} => a \in {"auction", "ride"}
         /\ ph.exit = "verify" => ph.bucket = "slot.submit"
         /\ ph.exit = "ballots" => ph.bucket = "ballot"
         /\ ph.exit = "bound" => a = "admission" /\ ph.bucket = "bound.partial"
<1>1. CASE a = "auction"
  BY <1>1, AuctionPhases DEF Is, None
<1>2. CASE a = "ride"
  BY <1>2, RidePhases DEF Is, None
<1>3. CASE a = "formation"
  BY <1>3, FormationPhases DEF Is, None
<1>4. CASE a = "weekly"
  BY <1>4, WeeklyPhases DEF Is, None
<1>5. CASE a = "voting"
  BY <1>5, VotingPhases DEF Is, None
<1>6. CASE a = "admission"
  BY <1>6, AdmissionPhases DEF Is, None
<1> QED BY <1>1, <1>2, <1>3, <1>4, <1>5, <1>6, Apps6, Zenon

\* A later phase accepts nothing that changes what an earlier one has looked at.
LEMMA Frozen ==
  ASSUME NEW a \in AppNames, NEW k \in DOMAIN Pipelines[a], NEW j \in 1 .. k - 1,
         NEW type \in Pipelines[a][k].takes
  PROVE  LET ph == Pipelines[a][j] IN
         /\ ph.enter = "score" => BucketOf(type) # "bid"
         /\ ph.exit = "verify" => BucketOf(type) # "slot.submit"
         /\ ph.exit = "ballots" => BucketOf(type) # "ballot"
         /\ ph.exit = "decrypt" => BucketOf(type) # "decrypt.partial"
         /\ ph.exit = "bound" => type # "input"
<1>1. CASE a = "auction"
  BY <1>1, AuctionPhases DEF Is, None, BucketOf
<1>2. CASE a = "ride"
  BY <1>2, RidePhases DEF Is, None, BucketOf
<1>3. CASE a = "formation"
  BY <1>3, FormationPhases DEF Is, None, BucketOf
<1>4. CASE a = "weekly"
  BY <1>4, WeeklyPhases DEF Is, None, BucketOf
<1>5. CASE a = "voting"
  BY <1>5, VotingPhases DEF Is, None, BucketOf
<1>6. CASE a = "admission"
  BY <1>6, AdmissionPhases DEF Is, None, BucketOf
<1> QED BY <1>1, <1>2, <1>3, <1>4, <1>5, <1>6, Apps6

\* The buckets that are looked at belong to phases of the same pipeline.
LEMMA Buckets ==
  ASSUME NEW a \in AppNames, NEW k \in DOMAIN Pipelines[a]
  PROVE  LET ph == Pipelines[a][k]
             has(b) == \E j \in DOMAIN Pipelines[a] : Pipelines[a][j].bucket = b
         IN
         /\ ph.enter = "score" => has("bid")
         /\ ph.exit = "verify" => has("slot.submit")
         /\ ph.exit = "ballots" => has("ballot")
         /\ ph.exit = "decrypt" => has("decrypt.partial")
         /\ ph.exit = "bound" => has("bound.partial")
<1>1. CASE a = "auction"
  BY <1>1, AuctionPhases DEF Is, None
<1>2. CASE a = "ride"
  BY <1>2, RidePhases DEF Is, None
<1>3. CASE a = "formation"
  BY <1>3, FormationPhases DEF Is, None
<1>4. CASE a = "weekly"
  BY <1>4, WeeklyPhases DEF Is, None
<1>5. CASE a = "voting"
  BY <1>5, VotingPhases DEF Is, None
<1>6. CASE a = "admission"
  BY <1>6, AdmissionPhases DEF Is, None
<1> QED BY <1>1, <1>2, <1>3, <1>4, <1>5, <1>6, Apps6, Zenon

\* No input is accepted once the bound check has begun.
LEMMA AfterBound ==
  ASSUME NEW a \in AppNames, NEW k \in DOMAIN Pipelines[a]
  PROVE  LET ph == Pipelines[a][k] IN
         /\ ph.exit = "bound" => /\ "input" \notin ph.takes
                                 /\ Pipelines[a][k + 1].enter = "settle_admission"
                                 /\ k # Len(Pipelines[a])
         /\ ph.enter = "settle_admission" => ph.takes = {} /\ k = Len(Pipelines[a])
<1>1. CASE a = "auction"
  BY <1>1, AuctionPhases DEF Is, None
<1>2. CASE a = "ride"
  BY <1>2, RidePhases DEF Is, None
<1>3. CASE a = "formation"
  BY <1>3, FormationPhases DEF Is, None
<1>4. CASE a = "weekly"
  BY <1>4, WeeklyPhases DEF Is, None
<1>5. CASE a = "voting"
  BY <1>5, VotingPhases DEF Is, None
<1>6. CASE a = "admission"
  BY <1>6, AdmissionPhases DEF Is, None
<1> QED BY <1>1, <1>2, <1>3, <1>4, <1>5, <1>6, Apps6

\* What every session of an application has been through when it is finished.
LEMMA Stations ==
  ASSUME NEW a \in AppNames
  PROVE  LET enters(code) == \E k \in DOMAIN Pipelines[a] : Pipelines[a][k].enter = code
             exits(code) == \E k \in DOMAIN Pipelines[a] : Pipelines[a][k].exit = code
         IN
         /\ a \in {"auction", "ride"} => enters("score") /\ exits("decrypt")
         /\ a = "weekly" => enters("score")
         /\ a = "voting" => exits("verify") /\ exits("ballots")
         /\ a = "admission" => exits("bound")
<1>1. CASE a = "auction"
  BY <1>1, AuctionPhases DEF Is, None
<1>2. CASE a = "ride"
  BY <1>2, RidePhases DEF Is, None
<1>3. CASE a = "formation"
  BY <1>3, FormationPhases, Zenon DEF Is, None
<1>4. CASE a = "weekly"
  BY <1>4, WeeklyPhases DEF Is, None
<1>5. CASE a = "voting"
  BY <1>5, VotingPhases DEF Is, None
<1>6. CASE a = "admission"
  BY <1>6, AdmissionPhases DEF Is, None
<1> QED BY <1>1, <1>2, <1>3, <1>4, <1>5, <1>6, Apps6, Zenon

-----------------------------------------------------------------------------
\* No step changes which application is served, or with which helper.
LEMMA Steady ==
  ASSUME [Next]_vars
  PROVE  UNCHANGED <<app, helper>>
<1>1. Trigger => UNCHANGED <<app, helper>>
  BY Zenon DEF Trigger, Start, Seed, BuildSessionCrypto, AdvanceToState
<1>2. ASSUME NEW t, Runner(t) PROVE UNCHANGED <<app, helper>>
  BY <1>2, Zenon
     DEF Runner, ExitNothing, ExitKeygen, ExitCollect, ExitDecrypt, ExitStubDecrypt,
         ExitShuffle, ExitDecoding, ExitAdmissionKeygen, ExitBound, EnterNothing,
         EnterScore, EnterLookup, EnterTally, EnterSettle, EnterBound, EnterBoundCommit,
         Leave, AtExit, AtEnter
<1>3. ASSUME NEW p, Hook(p) PROVE UNCHANGED <<app, helper>>
  BY <1>3, Zenon
     DEF Hook, peelRelayIfNeeded, challengeUnicastIfNeeded, SendChallenge, SetSentinel
<1>4. ASSUME NEW p, SendDue(p) \/ SendStray(p) PROVE UNCHANGED <<app, helper>>
  BY <1>4, Zenon DEF SendDue, SendStray, HandleMessage
<1> QED BY <1>1, <1>2, <1>3, <1>4, Zenon DEF Next, vars

-----------------------------------------------------------------------------
(* Batches are peeled in order.                                            *)

\* PeelsInOrder made inductive: so are the batches the participants were
\* sent and the ones in the frames a hook is about to relay.
PeelInv ==
  /\ DOMAIN batch = People /\ DOMAIN frame = People /\ DOMAIN peeled = People
  /\ batch = [k \in People |-> batch[k]] /\ peeled = [k \in People |-> peeled[k]]
  /\ frame = [k \in People |-> frame[k]]
  /\ \A k \in People : batch[k] \in {NoBatch, Garbage, k - 1}
  /\ \A k \in People : frame[k].type = "peel_forward" => frame[k].layer \in {Garbage, k}
  /\ PeelsInOrder

LEMMA Counted == N \in Nat /\ People = 1 .. N
BY ServiceBounds DEF N, People

LEMMA PeelMessage ==
  ASSUME PeelInv, NEW p \in People, NEW type, NEW load, NEW v, HandleMessage(p, type, load, v),
         type = "peel_forward" /\ load # "bad" => batch[p] >= 0, UNCHANGED app
  PROVE  PeelInv'
<1>0. People' = People /\ batch' = batch
  BY DEF HandleMessage, People, N
<1>1. type = "peel_forward" => Layer(p, type, load) \in {Garbage, p}
  BY Counted DEF PeelInv, Layer, NoBatch, Garbage
<1>2. frame' = [frame EXCEPT ![p] = IF After(p) = "idle" THEN NoFrame
                                    ELSE [type |-> type, layer |-> Layer(p, type, load)]]
  BY DEF HandleMessage
<1>3. /\ DOMAIN frame' = People /\ frame' = [k \in People |-> frame'[k]]
      /\ \A k \in People \ {p} : frame'[k] = frame[k]
  BY <1>2 DEF PeelInv
<1>4. frame'[p] = NoFrame \/ frame'[p] = [type |-> type, layer |-> Layer(p, type, load)]
  BY <1>2 DEF PeelInv
<1>5. frame'[p].type = "peel_forward" => frame'[p].layer \in {Garbage, p}
  BY <1>1, <1>4 DEF NoFrame, None
<1>6. \/ peeled' = peeled
      \/ /\ type = "peel_forward" /\ peeled' = [peeled EXCEPT ![p] = Layer(p, type, load)]
  BY DEF HandleMessage, stored
<1>7. /\ DOMAIN peeled' = People /\ peeled' = [k \in People |-> peeled'[k]]
      /\ \A k \in People : peeled'[k] \in {NoBatch, Garbage, k}
  BY <1>1, <1>6 DEF PeelInv, PeelsInOrder
<1> QED BY <1>0, <1>3, <1>5, <1>7 DEF PeelInv, PeelsInOrder

LEMMA PeelHook ==
  ASSUME PeelInv, NEW p \in People, peelRelayIfNeeded(p)
  PROVE  PeelInv'
<1>0. People' = People /\ peeled' = peeled
  BY DEF peelRelayIfNeeded, stored, People, N
<1>1. frame' = [frame EXCEPT ![p] = NoFrame]
  BY DEF peelRelayIfNeeded
<1>2. /\ DOMAIN frame' = People /\ frame' = [k \in People |-> frame'[k]]
      /\ \A k \in People : frame'[k].type = "peel_forward" => frame'[k].layer \in {Garbage, k}
  BY <1>1 DEF PeelInv, NoFrame, None
<1>3. \/ batch' = batch
      \/ batch' = [batch EXCEPT ![1] = 0]
      \/ /\ frame[p].type = "peel_forward" /\ p < N
         /\ batch' = [batch EXCEPT ![p + 1] = frame[p].layer]
  BY DEF peelRelayIfNeeded, Relay, SendTo
<1>4. 1 \in People /\ p \in Int /\ (p < N => p + 1 \in People)
  BY Counted
<1>5. /\ DOMAIN batch' = People /\ batch' = [k \in People |-> batch'[k]]
      /\ \A k \in People : batch'[k] \in {NoBatch, Garbage, k - 1}
  <2>1. CASE batch' = batch
    BY <2>1 DEF PeelInv
  <2>2. CASE batch' = [batch EXCEPT ![1] = 0]
    BY <1>4, <2>2 DEF PeelInv
  <2>3. CASE /\ frame[p].type = "peel_forward" /\ p < N
             /\ batch' = [batch EXCEPT ![p + 1] = frame[p].layer]
    <3>1. frame[p].layer \in {Garbage, (p + 1) - 1}
      BY <1>4, <2>3 DEF PeelInv
    <3> QED BY <1>4, <2>3, <3>1 DEF PeelInv
  <2> QED BY <1>3, <2>1, <2>2, <2>3
<1> QED BY <1>0, <1>2, <1>5 DEF PeelInv, PeelsInOrder

LEMMA PeelStay ==
  ASSUME PeelInv, UNCHANGED <<app, batch, peeled>>,
         UNCHANGED frame \/ \E p \in People : frame' = [frame EXCEPT ![p] = NoFrame]
  PROVE  PeelInv'
<1>1. People' = People
  BY DEF People, N
<1>2. /\ DOMAIN frame' = People /\ frame' = [k \in People |-> frame'[k]]
      /\ \A k \in People : frame'[k].type = "peel_forward" => frame'[k].layer \in {Garbage, k}
  BY DEF PeelInv, NoFrame, None
<1> QED BY <1>1, <1>2 DEF PeelInv, PeelsInOrder

LEMMA PeelSend ==
  ASSUME PeelInv, NEW p \in People, SendDue(p) \/ SendStray(p)
  PROVE  PeelInv'
<1>1. UNCHANGED app
  BY DEF SendDue, SendStray, HandleMessage
<1>2. CASE SendDue(p)
  <2>1. PICK v : HandleMessage(p, Due(p), "good", v)
    BY <1>2 DEF SendDue
  <2>2. Due(p) = "peel_forward" => batch[p] >= 0
    BY <1>2 DEF SendDue, Able
  <2> QED BY <1>1, <2>1, <2>2, PeelMessage
<1>3. CASE SendStray(p)
  <2>1. PICK type, load :
          /\ HandleMessage(p, type, load, 0)
          /\ load = "bad" \/ Able(p, type) \/ type = "bound.partial"
    BY <1>3 DEF SendStray
  <2>2. type = "peel_forward" /\ load # "bad" => batch[p] >= 0
    BY <2>1 DEF Able
  <2> QED BY <1>1, <2>1, <2>2, PeelMessage
<1> QED BY <1>2, <1>3, Zenon

\* The k-th peeler's stored batch has exactly k layers off, for any number of
\* participants, re-sent or damaged frames and lost relays.
THEOREM PeelSafe == Spec => []PeelsInOrder
<1>1. Init => PeelInv
  BY DEF Init, PeelInv, PeelsInOrder, NoFrame, None
<1>2. PeelInv /\ [Next]_vars => PeelInv'
  <2> SUFFICES ASSUME PeelInv, [Next]_vars PROVE PeelInv'
    OBVIOUS
  <2>0. UNCHANGED app
    BY Steady
  <2>1. ASSUME UNCHANGED <<batch, peeled, frame>> PROVE PeelInv'
    BY <2>0, <2>1, PeelStay
  <2>2. CASE UNCHANGED vars
    BY <2>1, <2>2, Zenon DEF vars, stored, clients
  <2>3. CASE Trigger
    BY <2>1, <2>3
       DEF Trigger, Start, Seed, BuildSessionCrypto, AdvanceToState, stored, clients
  <2>4. ASSUME NEW t, Runner(t) PROVE PeelInv'
    <3>1. UNCHANGED <<batch, peeled, frame>>
      BY <2>4, Zenon
         DEF Runner, ExitNothing, ExitKeygen, ExitCollect, ExitDecrypt, ExitStubDecrypt,
         ExitShuffle, ExitDecoding, ExitAdmissionKeygen, ExitBound, EnterNothing,
         EnterScore, EnterLookup, EnterTally, EnterSettle, EnterBound, EnterBoundCommit,
         Leave, AtExit, AtEnter, stored, clients
    <3> QED BY <2>1, <3>1
  <2>5. ASSUME NEW p \in People, Hook(p) PROVE PeelInv'
    <3>1. CASE peelRelayIfNeeded(p)
      BY <3>1, PeelHook
    <3>2. CASE challengeUnicastIfNeeded(p)
      BY <2>0, <3>2, PeelStay, Zenon DEF challengeUnicastIfNeeded, stored, clients
    <3>3. CASE SendChallenge(p) \/ SetSentinel(p)
      <4>1. UNCHANGED <<batch, peeled, frame>>
        BY <3>3, Zenon DEF SendChallenge, SetSentinel, SendTo, stored, clients
      <4> QED BY <2>1, <4>1
    <3> QED BY <2>5, <3>1, <3>2, <3>3 DEF Hook
  <2>6. ASSUME NEW p \in People, SendDue(p) \/ SendStray(p) PROVE PeelInv'
    BY <2>6, PeelSend
  <2> QED BY <2>2, <2>3, <2>4, <2>5, <2>6, Zenon DEF Next
<1>3. PeelInv => PeelsInOrder
  BY DEF PeelInv
<1> QED BY <1>1, <1>2, <1>3, PTL DEF Spec

-----------------------------------------------------------------------------
(* What a step does to a session, by the variables it changes.             *)

Threads == People \cup {admin}

\* What Enter and Exit of a phase have established when they succeed.
EnterFruit(ph) ==
  /\ ph.enter = "score" /\ helper => AllGood("bid")
  /\ ph.enter = "tally" => "result" \in ctx

ExitFruit(ph) ==
  /\ ph.exit = "keygen" => Bundle \subseteq ctx
  /\ ph.exit \in {"collect", "ballots"} => "inputs" \in ctx
  /\ ph.exit = "verify" => AllGood("slot.submit")
  /\ ph.exit = "ballots" => AllGood("ballot")
  /\ ph.exit = "decrypt" /\ helper => AllGood("decrypt.partial")
  /\ ph.exit = "bound" /\ Checking => \A p \in People : Tolerable(value[p])

\* The context only grows, and gets its crypto handle from nobody but the trigger.
Grows == ctx \subseteq ctx' /\ ("handle" \in ctx' => "handle" \in ctx)

Kept == UNCHANGED <<app, helper, attrs, bucket, value, withheld>>

\* A key bundle is made only where there is no complete one.
BundleKept ==
  \/ bundle' = bundle
  \/ ~(bundle.pk # NoKey /\ bundle.ek # NoKey) /\ "pk" \in ctx'

\* Whom Exit of the bound check blames.
Blames ==
  /\ current.exit = "bound"
  /\ \A p \in People : results'[p] \in {results[p], Verdict(p)}
  /\ \A p \in People : results'[p] # results[p] => Verdict(p) # "ok"

ExitsPhase(t) ==
  /\ pc[t] = "exit" /\ Active /\ Grows /\ Kept /\ BundleKept
  /\ UNCHANGED <<state, current>>
  /\ \/ Goto(t, "leave") /\ ExitFruit(current)'
     \/ Goto(t, After(t))
  /\ results' = results \/ Blames

EntersPhase(t) ==
  /\ pc[t] \in {"enter", "commitments"} /\ Grows /\ Kept
  /\ UNCHANGED <<state, current, bundle, results>>
  /\ \/ Goto(t, After(t))
     \/ current.enter = "bound" /\ Goto(t, "commitments")
     \/ (Goto(t, "walk") \/ Goto(t, "exit")) /\ EnterFruit(current)'

Dispatches(p) ==
  /\ pc[p] = "idle" /\ Free /\ Active
  /\ UNCHANGED <<app, helper, attrs, session>>
  /\ withheld \subseteq withheld'
  /\ \/ Goto(p, After(p)) /\ UNCHANGED stored
     \/ \E type \in current.takes, load \in {"good", "bad", "short"}, v \in Values \cup {0} :
          /\ bucket' = [bucket EXCEPT ![BucketOf(type)][p] = load]
          /\ load = "short" => p \in withheld'
          /\ value' = IF type = "input" THEN [value EXCEPT ![p] = v] ELSE value
          /\ Goto(p, After(p)) \/ ("participants" \in ctx /\ Goto(p, "exit"))

HookRuns(p) ==
  /\ pc[p] \in {"hook", "challenge", "bare_challenge"} /\ Kept
  /\ UNCHANGED <<state, current, bundle, results>>
  /\ ctx' \in {ctx, ctx \cup {"challenges_sent"}}
  /\ UNCHANGED pc \/ \E l \in {"idle", "challenge", "bare_challenge"} : Goto(p, l)

SessionStep ==
  \/ UNCHANGED vars
  \/ Trigger
  \/ \E t \in Threads : ExitsPhase(t) \/ EntersPhase(t) \/ Leave(t)
  \/ \E p \in People : Dispatches(p) \/ HookRuns(p)

LEMMA Verdicts ==
  ASSUME NEW v \in Int
  PROVE  classify(v) = "ok" <=> Tolerable(v)
BY DEF classify, Excess, AtMost, Tolerable, NaN, Lo, Hi, EpsNorm, NuHard

LEMMA EnterStep ==
  ASSUME NEW t, EnterNothing(t) \/ EnterScore(t) \/ EnterLookup(t) \/ EnterTally(t) \/ EnterSettle(t)
                  \/ EnterBound(t) \/ EnterBoundCommit(t),
         pc[t] = "commitments" => current.enter = "bound"
  PROVE  EntersPhase(t)
<1>1. /\ pc[t] \in {"enter", "commitments"}
      /\ UNCHANGED <<app, helper, attrs, state, current, bucket, value, withheld, bundle,
                     results>>
  BY Zenon
     DEF EnterNothing, EnterScore, EnterLookup, EnterTally, EnterSettle, EnterBound,
         EnterBoundCommit, AtEnter, stored, clients
<1>2. Kept
  BY <1>1, Zenon DEF Kept
<1>3. ASSUME NEW keys, Succeeds(t, keys), "handle" \notin keys, EnterFruit(current)'
      PROVE  EntersPhase(t)
  <2>1. Grows
    BY <1>3 DEF Succeeds, Grows
  <2>2. Goto(t, After(t)) \/ Goto(t, "walk") \/ Goto(t, "exit")
    BY <1>3, Zenon DEF Succeeds, Entered, Goto
  <2> QED BY <1>1, <1>2, <1>3, <2>1, <2>2, Zenon DEF EntersPhase
<1>4. ASSUME EnterFails(t), UNCHANGED ctx
      PROVE  EntersPhase(t)
  BY <1>1, <1>2, <1>4 DEF EntersPhase, Grows, EnterFails
<1>5. ASSUME current.enter \notin {"score", "tally"}
      PROVE  EnterFruit(current)'
  BY <1>1, <1>5 DEF EnterFruit
<1>6. CASE EnterNothing(t)
  BY <1>3, <1>5, <1>6 DEF EnterNothing, AtEnter, None
<1>7. CASE EnterScore(t)
  <2>1. current.enter = "score"
    BY <1>7 DEF EnterScore, AtEnter
  <2>2. CASE Succeeds(t, {"scored"}) /\ (~helper \/ AllGood("bid"))
    <3>1. EnterFruit(current)'
      BY <1>1, <2>1, <2>2 DEF EnterFruit, AllGood, People, N
    <3> QED BY <1>3, <2>2, <3>1, ZenonT(60)
  <2>3. CASE EnterFails(t) /\ UNCHANGED ctx
    BY <1>4, <2>3
  <2> QED BY <1>7, <2>2, <2>3, Zenon DEF EnterScore
<1>8. CASE EnterLookup(t)
  BY <1>3, <1>4, <1>5, <1>8 DEF EnterLookup, AtEnter
<1>9. CASE EnterTally(t)
  <2>1. current.enter = "tally" /\ Succeeds(t, {"result"})
    BY <1>9 DEF EnterTally, AtEnter
  <2>2. EnterFruit(current)'
    BY <1>1, <2>1, Zenon DEF EnterFruit, Succeeds
  <2> QED BY <1>3, <2>1, <2>2
<1>10. CASE EnterSettle(t)
  BY <1>3, <1>5, <1>10 DEF EnterSettle, AtEnter
<1>11. CASE EnterBound(t)
  <2>1. current.enter = "bound"
    BY <1>11 DEF EnterBound, AtEnter
  <2>2. CASE EnterFails(t) /\ UNCHANGED ctx
    BY <1>4, <2>2
  <2>3. CASE Succeeds(t, {})
    BY <1>3, <1>5, <2>1, <2>3
  <2>4. CASE ctx' = ctx \cup {"checks"} /\ Goto(t, "commitments")
    <3>1. Grows
      BY <2>4 DEF Grows
    <3> QED BY <1>1, <1>2, <2>1, <2>4, <3>1 DEF EntersPhase
  <2> QED BY <1>11, <2>2, <2>3, <2>4, Zenon DEF EnterBound
<1>12. CASE EnterBoundCommit(t)
  BY <1>3, <1>5, <1>12 DEF EnterBoundCommit
<1> QED BY <1>6, <1>7, <1>8, <1>9, <1>10, <1>11, <1>12

LEMMA ExitStep ==
  ASSUME NEW t,
         \/ ExitNothing(t) \/ ExitKeygen(t, "keygen") \/ ExitKeygen(t, "cohort_keygen")
         \/ ExitCollect(t) \/ ExitDecrypt(t) \/ ExitStubDecrypt(t) \/ ExitShuffle(t)
         \/ ExitDecoding(t, "verify", "slots") \/ ExitDecoding(t, "ballots", "inputs")
         \/ ExitAdmissionKeygen(t) \/ ExitBound(t),
         app \in AppNames, NEW k \in DOMAIN Pipelines[app], current = Pipelines[app][k],
         value \in [People -> Int],
         "pk" \notin ctx => bundle.pk = NoKey
  PROVE  ExitsPhase(t)
<1>1. /\ pc[t] = "exit" /\ Active
      /\ UNCHANGED <<app, helper, attrs, state, current, bucket, value, withheld>>
  BY Zenon
     DEF ExitNothing, ExitKeygen, ExitCollect, ExitDecrypt, ExitStubDecrypt, ExitShuffle,
         ExitDecoding, ExitAdmissionKeygen, ExitBound, AtExit, stored, clients
<1>2. Kept
  BY <1>1, ZenonT(60) DEF Kept
<1>3. "handle" \notin current.gives
  BY Shape, Zenon
<1>4. ASSUME Goto(t, After(t)), UNCHANGED <<ctx, bundle>>, results' = results \/ Blames
      PROVE  ExitsPhase(t)
  BY <1>1, <1>2, <1>4 DEF ExitsPhase, Grows, BundleKept
<1>5. ASSUME NEW keys, ctx' = ctx \cup keys, "handle" \notin keys, Goto(t, "leave"),
             BundleKept, results' = results \/ Blames, ExitFruit(current)'
      PROVE  ExitsPhase(t)
  <2>1. Grows
    BY <1>5 DEF Grows
  <2> QED BY <1>1, <1>2, <1>5, <2>1, Zenon DEF ExitsPhase
<1>6. People' = People /\ current' = current
  BY <1>1, Zenon DEF People, N
<1>7. ASSUME current.exit \notin {"keygen", "collect", "ballots", "verify", "decrypt", "bound"}
      PROVE  ExitFruit(current)'
  BY <1>6, <1>7 DEF ExitFruit
<1>8. CASE ExitNothing(t)
  <2>1. current.exit = None /\ Goto(t, "leave") /\ UNCHANGED <<ctx, bundle, results>>
    BY <1>8 DEF ExitNothing, AtExit, Exits
  <2>2. ctx' = ctx \cup {}
    BY <2>1
  <2> QED BY <1>5, <1>7, <2>1, <2>2, Zenon DEF BundleKept, None
<1>9. ASSUME NEW kind \in {"keygen", "cohort_keygen"}, ExitKeygen(t, kind)
      PROVE  ExitsPhase(t)
  <2>1. current.exit = kind /\ results' = results
    BY <1>9, Zenon DEF ExitKeygen, AtExit
  <2>2. CASE ctx' = ctx \cup Bundle \cup current.gives /\ Goto(t, "leave")
             /\ (bundle' = bundle \/ ~PreShared)
    <3>1. ctx' = ctx \cup (Bundle \cup current.gives)
      BY <2>2
    <3>2. "handle" \notin Bundle \cup current.gives
      BY <1>3, ZenonT(60) DEF Bundle
    <3>3. BundleKept
      BY <2>2, ZenonT(60) DEF BundleKept, PreShared, Bundle
    <3>4. ExitFruit(current)'
      BY <1>6, <1>9, <2>1, <2>2, ZenonT(60) DEF ExitFruit
    <3> QED BY <1>5, <2>1, <2>2, <3>1, <3>2, <3>3, <3>4, ZenonT(60)
  <2>3. CASE Goto(t, After(t)) /\ UNCHANGED <<ctx, bundle>>
    BY <1>4, <2>1, <2>3, Zenon
  <2> QED BY <1>9, <2>2, <2>3, ZenonT(60) DEF ExitKeygen, Exits, ExitFails
<1>10. CASE ExitCollect(t)
  <2>1. /\ current.exit = "collect" /\ Goto(t, "leave") /\ UNCHANGED <<bundle, results>>
        /\ ctx' = ctx \cup {"inputs"}
    BY <1>10, ZenonT(60) DEF ExitCollect, AtExit, Exits
  <2>2. ExitFruit(current)'
    BY <1>6, <2>1 DEF ExitFruit
  <2> QED BY <1>5, <2>1, <2>2, ZenonT(60) DEF BundleKept
<1>11. CASE ExitDecrypt(t)
  <2>1. current.exit = "decrypt" /\ UNCHANGED <<bundle, results>>
    BY <1>11, Zenon DEF ExitDecrypt, AtExit
  <2>2. CASE (~helper \/ AllGood("decrypt.partial")) /\ ctx' = ctx \cup {"result"}
             /\ Goto(t, "leave")
    <3>1. ExitFruit(current)'
      BY <1>1, <1>6, <2>1, <2>2, ZenonT(60) DEF ExitFruit, AllGood
    <3> QED BY <1>5, <2>1, <2>2, <3>1, ZenonT(60) DEF BundleKept
  <2>3. CASE Goto(t, After(t)) /\ UNCHANGED ctx
    BY <1>4, <2>1, <2>3, Zenon
  <2> QED BY <1>11, <2>2, <2>3, ZenonT(60) DEF ExitDecrypt, Exits, ExitFails
<1>12. CASE ExitStubDecrypt(t)
  <2>1. /\ current.exit = "stub_decrypt" /\ Goto(t, "leave") /\ UNCHANGED <<bundle, results>>
        /\ ctx' = ctx \cup {"result"}
    BY <1>12, Zenon DEF ExitStubDecrypt, AtExit, Exits
  <2> QED BY <1>5, <1>7, <2>1, ZenonT(60) DEF BundleKept
<1>13. CASE ExitShuffle(t)
  <2>1. /\ current.exit = "shuffle" /\ Goto(t, "leave") /\ UNCHANGED <<bundle, results>>
        /\ ctx' = ctx \cup {"peel_rounds"}
    BY <1>13 DEF ExitShuffle, AtExit, Exits
  <2> QED BY <1>5, <1>7, <2>1, ZenonT(60) DEF BundleKept
<1>14. ASSUME NEW kind, NEW key, ExitDecoding(t, kind, key),
              (kind = "verify" /\ key = "slots") \/ (kind = "ballots" /\ key = "inputs")
       PROVE  ExitsPhase(t)
  <2>1. current.exit = kind /\ UNCHANGED <<bundle, results>>
    BY <1>14 DEF ExitDecoding, AtExit
  <2>2. CASE AllGood(current.bucket) /\ ctx' = ctx \cup {key} /\ Goto(t, "leave")
    <3>1. /\ kind = "verify" => current.bucket = "slot.submit"
          /\ kind = "ballots" => current.bucket = "ballot"
      BY <2>1, Codes, SMTT(30)
    <3>2. ExitFruit(current)'
      BY <1>1, <1>6, <1>14, <2>1, <2>2, <3>1, ZenonT(60) DEF ExitFruit, AllGood
    <3> QED BY <1>5, <1>14, <2>1, <2>2, <3>2, ZenonT(60) DEF BundleKept
  <2>3. CASE Goto(t, After(t)) /\ UNCHANGED ctx
    BY <1>4, <2>1, <2>3
  <2> QED BY <1>14, <2>2, <2>3, ZenonT(60) DEF ExitDecoding, Exits, ExitFails
<1>15. CASE ExitAdmissionKeygen(t)
  <2>1. current.exit = "admission_keygen" /\ Goto(t, "leave") /\ results' = results
    BY <1>15 DEF ExitAdmissionKeygen, AtExit, Exits
  <2>2. CASE UNCHANGED <<ctx, bundle>>
    <3>1. ctx' = ctx \cup {}
      BY <2>2
    <3> QED BY <1>5, <1>7, <2>1, <2>2, <3>1, Zenon DEF BundleKept
  <2>3. CASE "pk" \notin ctx /\ ctx' = ctx \cup {"dim", "dim_matches", "ek", "pk"}
    <3>1. BundleKept
      BY <2>3 DEF BundleKept
    <3> QED BY <1>5, <1>7, <2>1, <2>3, <3>1, ZenonT(60)
  <2> QED BY <1>15, <2>2, <2>3, ZenonT(60) DEF ExitAdmissionKeygen
<1>16. CASE ExitBound(t)
  <2>1. current.exit = "bound" /\ UNCHANGED <<ctx, bundle>>
    BY <1>16, Zenon DEF ExitBound, AtExit
  <2>2. BundleKept /\ ctx' = ctx \cup {}
    BY <2>1 DEF BundleKept
  <2>3. CASE ~Checking /\ Goto(t, "leave") /\ results' = results
    <3>1. ExitFruit(current)'
      BY <1>6, <2>1, <2>3, ZenonT(60) DEF ExitFruit, Checking
    <3> QED BY <1>5, <2>2, <2>3, <3>1, ZenonT(60)
  <2>4. CASE Goto(t, After(t)) /\ results' = results
    BY <1>4, <2>1, <2>4, Zenon
  <2> DEFINE violators == {p \in People : Verdict(p) # "ok"}
  <2>5. CASE /\ results' = [p \in People |-> IF p \in violators THEN Verdict(p) ELSE results[p]]
             /\ IF violators = {} THEN Goto(t, "leave") ELSE Goto(t, After(t))
    <3>1. Blames
      BY <2>1, <2>5, ZenonT(60) DEF Blames
    <3>2. CASE violators # {}
      BY <1>4, <2>1, <2>5, <3>1, <3>2, Zenon
    <3>3. CASE violators = {}
      <4>1. \A p \in People : Verdict(p) = "ok"
        BY <3>3, Zenon
      <4>2. Short = {}
        BY <4>1 DEF Short, Verdict
      <4>3. \A p \in People : classify(value[p]) = "ok"
        BY <4>1, <4>2 DEF Verdict, Fusable
      <4>4. \A p \in People : Tolerable(value[p])
        BY <4>3, Verdicts, ZenonT(60)
      <4>5. ExitFruit(current)'
        BY <1>1, <1>6, <2>1, <4>4, Zenon DEF ExitFruit
      <4> QED BY <1>5, <2>2, <2>5, <3>1, <3>3, <4>5, Zenon
    <3> QED BY <3>2, <3>3, ZenonT(60)
  <2> QED BY <1>16, <2>3, <2>4, <2>5, ZenonT(60) DEF ExitBound, Exits, ExitFails
<1> QED BY <1>8, <1>9, <1>10, <1>11, <1>12, <1>13, <1>14, <1>15, <1>16

-----------------------------------------------------------------------------
(* The threads of a session: one at a time in the runner, none before the  *)
(* trigger has seeded the context.                                         *)

Outside == {"idle", "refused", "seed", "crypto", "ok", "error", "hook", "challenge",
            "bare_challenge"}
Before == {"idle", "refused", "seed", "crypto"}

InPipeline(ph) == ph = NoPhase \/ \E k \in DOMAIN Pipelines[app] : ph = Pipelines[app][k]

ThreadInv ==
  /\ app \in AppNames
  /\ pc \in [Threads -> Outside \cup InRunner]
  /\ \A t, u \in Threads : pc[t] \in InRunner /\ pc[u] \in InRunner => t = u
  /\ pc[admin] \in Before => \A p \in People : pc[p] \notin InRunner
  /\ pc[admin] \in {"idle", "refused"} => current = NoPhase
  /\ pc[admin] \in {"seed", "crypto"} => current = Pipelines[app][1]
  /\ pc[admin] = "crypto" => app = "admission"
  /\ \A t \in Threads : pc[t] \in InRunner => current # NoPhase
  /\ \A t \in Threads : pc[t] = "commitments" => current.enter = "bound"
  /\ InPipeline(current)

LEMMA ThreadFacts ==
  /\ admin \in Threads /\ admin \notin People
  /\ \A p \in People : p \in Threads /\ p # admin
BY Counted DEF Threads, admin

LEMMA AfterFacts ==
  ASSUME NEW t \in Threads
  PROVE  /\ After(t) \in {"error", "hook", "idle"}
         /\ t = admin => After(t) = "error"
         /\ t # admin => After(t) \in {"hook", "idle"}
BY DEF After

LEMMA Turn ==
  ASSUME pc \in [Threads -> Outside \cup InRunner], UNCHANGED app,
         NEW t \in Threads, NEW l \in Outside \cup InRunner, Goto(t, l)
  PROVE  /\ People' = People /\ Threads' = Threads
         /\ pc' \in [Threads -> Outside \cup InRunner]
         /\ pc'[t] = l /\ \A u \in Threads \ {t} : pc'[u] = pc[u]
<1>1. People' = People /\ Threads' = Threads
  BY DEF Threads, People, N, admin
<1>2. pc'[t] = l /\ \A u \in Threads \ {t} : pc'[u] = pc[u]
  BY DEF Goto
<1>3. pc' \in [Threads -> Outside \cup InRunner]
  BY ZenonT(60) DEF Goto
<1> QED BY <1>1, <1>2, <1>3

\* A thread in the runner goes on or leaves it.
LEMMA RunnerTurn ==
  ASSUME ThreadInv, UNCHANGED app, NEW t \in Threads, pc[t] \in InRunner, NEW l, Goto(t, l),
         l = After(t) \/ (t = admin /\ l = "ok") \/ (l \in InRunner /\ current' # NoPhase),
         l = "commitments" => current'.enter = "bound",
         InPipeline(current')
  PROVE  ThreadInv' /\ pc[admin] \notin Before /\ pc'[admin] \notin Before
<1> USE DEF Outside, InRunner
<1>1. l \in Outside \cup InRunner
  BY AfterFacts, ZenonT(60)
<1>2. /\ People' = People /\ Threads' = Threads
      /\ pc' \in [Threads -> Outside \cup InRunner]
      /\ pc'[t] = l /\ \A u \in Threads \ {t} : pc'[u] = pc[u]
  BY <1>1, Turn, ZenonT(60) DEF ThreadInv
<1>3. \A u \in Threads \ {t} : pc[u] \notin InRunner
  BY ZenonT(60) DEF ThreadInv
<1>4. pc[admin] \notin Before /\ pc'[admin] \notin Before
  <2>1. CASE t = admin
    BY <1>2, <2>1, AfterFacts, Zenon DEF Before
  <2>2. CASE t # admin
    <3>1. t \in People
      BY <2>2 DEF Threads
    <3> QED BY <1>2, <2>2, <3>1, ThreadFacts DEF ThreadInv
  <2> QED BY <2>1, <2>2
<1>5. \A u, w \in Threads : pc'[u] \in InRunner /\ pc'[w] \in InRunner => u = w
  BY <1>2, <1>3
<1>6. \A u \in Threads : pc'[u] \in InRunner => u = t /\ current' # NoPhase
  BY <1>2, <1>3, AfterFacts
<1>7. \A u \in Threads : pc'[u] = "commitments" => current'.enter = "bound"
  BY <1>2, <1>6
<1>8. \A u \in Threads : pc'[u] \in InRunner => current' # NoPhase
  BY <1>2, <1>6, Zenon
<1>9. InPipeline(current)' /\ app' \in AppNames
  BY Zenon DEF ThreadInv, InPipeline
<1> HIDE DEF Outside, InRunner
<1> QED BY <1>2, <1>4, <1>5, <1>7, <1>8, <1>9 DEF ThreadInv, Before

\* A participant's readPump works outside the runner.
LEMMA OutsideTurn ==
  ASSUME ThreadInv, UNCHANGED <<app, current>>, NEW p \in People, pc[p] \notin InRunner,
         NEW l \in {"idle", "hook", "challenge", "bare_challenge"}, Goto(p, l)
  PROVE  ThreadInv' /\ pc'[admin] = pc[admin]
<1>0. l \in Outside /\ l \notin InRunner
  BY DEF Outside, InRunner
<1>1. p \in Threads /\ p # admin /\ admin \in Threads
  BY ThreadFacts, Zenon
<1>2. /\ People' = People /\ Threads' = Threads
      /\ pc' \in [Threads -> Outside \cup InRunner]
      /\ pc'[p] = l /\ \A u \in Threads \ {p} : pc'[u] = pc[u]
  BY <1>0, <1>1, Turn DEF ThreadInv
<1>3. pc'[admin] = pc[admin] /\ l \notin InRunner
  BY <1>0, <1>1, <1>2
<1>4. \A u \in Threads : pc'[u] \in InRunner => pc[u] \in InRunner /\ pc'[u] = pc[u]
  BY <1>2, <1>3
<1>5. \A u \in Threads : pc'[u] = "commitments" => pc[u] = "commitments"
  BY <1>4 DEF InRunner
<1>6. InPipeline(current)' /\ app' \in AppNames
  BY DEF ThreadInv, InPipeline
<1>7. \A q \in People : q \in Threads
  BY ThreadFacts, Zenon
<1> QED BY <1>2, <1>3, <1>4, <1>5, <1>6, <1>7 DEF ThreadInv

\* A readPump enters the runner when no thread is in it.
LEMMA EnterTurn ==
  ASSUME ThreadInv, UNCHANGED <<app, current>>, NEW p \in People, Free, Active,
         current.takes # {}, Goto(p, "exit")
  PROVE  ThreadInv' /\ pc[admin] \notin Before /\ pc'[admin] = pc[admin]
<1>1. p \in Threads /\ p # admin /\ admin \in Threads
  BY ThreadFacts, Zenon
<1>2. /\ People' = People /\ Threads' = Threads
      /\ pc' \in [Threads -> Outside \cup InRunner]
      /\ pc'[p] = "exit" /\ \A u \in Threads \ {p} : pc'[u] = pc[u]
  BY <1>1, Turn, Zenon DEF ThreadInv, InRunner
<1>3. \A u \in Threads : pc[u] \notin InRunner
  BY DEF Free, ThreadInv
<1>4. pc[admin] \notin Before /\ pc'[admin] = pc[admin]
  <2>1. pc[admin] \in Before => current = NoPhase \/ current = Pipelines[app][1]
    BY Zenon DEF ThreadInv, Before
  <2>2. Pipelines[app][1].takes = {}
    BY Shape DEF ThreadInv
  <2> QED BY <1>1, <1>2, <2>1, <2>2, Zenon DEF Active
<1>5. \A u \in Threads : pc'[u] \in InRunner => u = p
  BY <1>2, <1>3
<1>6. \A u \in Threads : pc'[u] # "commitments"
  BY <1>2, <1>3 DEF InRunner
<1>7. InPipeline(current)' /\ app' \in AppNames
  BY DEF ThreadInv, InPipeline
<1> QED BY <1>2, <1>4, <1>5, <1>6, <1>7, Zenon DEF ThreadInv, Active, Before

-----------------------------------------------------------------------------
(* What is stored, and what the trigger has seeded.                        *)

Loads == {None, "good", "bad", "short"}

StoreInv ==
  /\ value \in [People -> Int]
  /\ bucket \in [DOMAIN bucket -> [People -> Loads]]
  /\ \A k \in DOMAIN Pipelines[app] :
       Pipelines[app][k].bucket # None => Pipelines[app][k].bucket \in DOMAIN bucket
  /\ \A b \in DOMAIN bucket : \A p \in People : bucket[b][p] = "short" => p \in withheld

\* The context keys every trigger of the application sets.
SeedKeys ==
  {"participants"}
    \cup (IF app \in {"auction", "ride", "formation", "weekly"} THEN {"contract"} ELSE {})
    \cup (IF app = "weekly" THEN Bundle ELSE {})
    \cup (IF app = "admission" THEN {"dim"} ELSE {})

SeedInv ==
  /\ pc[admin] = "seed" => ~TriggerOf(attrs).refuses
  /\ pc[admin] \in {"idle", "refused", "seed"} => bundle = [pk |-> NoKey, ek |-> NoKey]
  /\ pc[admin] \notin {"idle", "refused", "seed"} => SeedKeys \subseteq ctx
  /\ "handle" \in ctx => app = "admission" /\ pc[admin] \notin Before
  /\ "pk" \notin ctx => bundle.pk = NoKey

Base == ThreadInv /\ StoreInv /\ SeedInv

LEMMA BaseInit ==
  ASSUME Init
  PROVE  Base
<1>1. app \in AppNames
  BY Zenon DEF Init
<1>2. pc = [t \in Threads |-> "idle"] /\ current = NoPhase
  BY DEF Init, Threads
<1>3. ThreadInv
  BY <1>1, <1>2, ThreadFacts, Zenon DEF ThreadInv, Outside, InRunner, InPipeline
<1>4. value \in [People -> Int]
  BY DEF Init
<1> DEFINE own == {Pipelines[app][k].bucket : k \in DOMAIN Pipelines[app]} \ {None}
           names == own \cup (IF app = "voting" THEN {"onion.batch"} ELSE {})
<1>5. bucket = [b \in names |-> [p \in People |-> None]]
  BY DEF Init
<1>6. \A k \in DOMAIN Pipelines[app] :
        Pipelines[app][k].bucket # None => Pipelines[app][k].bucket \in names
  OBVIOUS
<1> HIDE DEF names
<1>7. StoreInv
  <2>1. DOMAIN bucket = names
    BY <1>5
  <2>2. \A b \in names : bucket[b] = [p \in People |-> None]
    BY <1>5
  <2>3. bucket \in [names -> [People -> Loads]]
    BY <1>5 DEF Loads
  <2>4. \A b \in names : \A p \in People : bucket[b][p] # "short"
    BY <2>2 DEF None
  <2> QED BY <1>4, <1>6, <2>1, <2>3, <2>4 DEF StoreInv
<1>8. SeedInv
  <2>1. pc[admin] = "idle"
    BY <1>2, ThreadFacts, Zenon
  <2>2. ctx = {} /\ bundle = [pk |-> NoKey, ek |-> NoKey]
    BY DEF Init
  <2>3. bundle.pk = NoKey
    BY <2>2
  <2> QED BY <2>1, <2>2, <2>3 DEF SeedInv
<1> QED BY <1>3, <1>7, <1>8, Zenon DEF Base

LEMMA SeedsOf ==
  ASSUME app \in AppNames, NEW a, ~TriggerOf(a).refuses
  PROVE  /\ SeedKeys \subseteq TriggerOf(a).seeds
         /\ "handle" \notin TriggerOf(a).seeds
         /\ Decoded(a.pk) # NoKey => "pk" \in TriggerOf(a).seeds
<1> USE DEF TriggerOf, Starter, SeedKeys, Copied, When, Decoded, ClientKey, NoKey, Bundle
<1>1. CASE app = "auction"
  BY <1>1 DEF auctionTrigger
<1>2. CASE app = "ride"
  BY <1>2 DEF rideShareTrigger
<1>3. CASE app = "formation"
  BY <1>3 DEF formationTrigger
<1>4. CASE app = "weekly"
  BY <1>4, ZenonT(60) DEF weeklyTrigger
<1>5. CASE app = "voting"
  BY <1>5 DEF votingTrigger
<1>6. CASE app = "admission"
  BY <1>6, Zenon DEF admissionTrigger
<1> QED BY <1>1, <1>2, <1>3, <1>4, <1>5, <1>6, Apps6

\* The admin's goroutine moves on while no thread is in the runner.
LEMMA AdminTurn ==
  ASSUME ThreadInv, UNCHANGED app, pc[admin] \in Before, NEW l, Goto(admin, l),
         \/ l = "refused" /\ current' = NoPhase
         \/ l = "seed" /\ current' = Pipelines[app][1]
         \/ l = "crypto" /\ app = "admission" /\ current' = Pipelines[app][1]
         \/ l = "walk" /\ current' = Pipelines[app][1]
  PROVE  ThreadInv' /\ pc'[admin] = l
<1>0. /\ admin \in Threads /\ l \in Outside \cup InRunner
      /\ \A p \in People : p \in Threads /\ p # admin
  BY ThreadFacts, Zenon DEF Outside, InRunner
<1>1. /\ People' = People /\ Threads' = Threads
      /\ pc' \in [Threads -> Outside \cup InRunner]
      /\ pc'[admin] = l /\ \A u \in Threads \ {admin} : pc'[u] = pc[u]
  BY <1>0, Turn, Zenon DEF ThreadInv
<1>2. \A u \in Threads \ {admin} : u \in People /\ pc[u] \notin InRunner
  BY Zenon DEF ThreadInv, Threads
<1>3. \A u \in Threads : pc'[u] \in InRunner => u = admin /\ l = "walk"
  BY <1>1, <1>2, ZenonT(60) DEF InRunner
<1>4. \A p \in People : pc'[p] \notin InRunner
  BY <1>0, <1>3, Zenon
<1>5. 1 \in DOMAIN Pipelines[app] /\ Pipelines[app][1].in # None
  BY Shape, SMTT(30) DEF ThreadInv
<1>6. Pipelines[app][1] # NoPhase
  <2>1. NoPhase.in = None
    BY Zenon DEF NoPhase, Phase
  <2> QED BY <1>5, <2>1, Zenon
<1>7. InPipeline(current)' /\ app' \in AppNames
  BY <1>5, Zenon DEF ThreadInv, InPipeline
<1>8. \A u \in Threads : pc'[u] # "commitments"
  BY <1>1, <1>2, ZenonT(60) DEF InRunner
<1>9. \A u \in Threads : pc'[u] \in InRunner => current' # NoPhase
  BY <1>3, <1>6
<1>10. \A u, w \in Threads : pc'[u] \in InRunner /\ pc'[w] \in InRunner => u = w
  BY <1>3
<1>11. /\ pc'[admin] \in {"idle", "refused"} => current' = NoPhase
       /\ pc'[admin] \in {"seed", "crypto"} => current' = Pipelines[app'][1]
       /\ pc'[admin] = "crypto" => app' = "admission"
  BY <1>1
<1> QED BY <1>1, <1>4, <1>7, <1>8, <1>9, <1>10, <1>11, Zenon DEF ThreadInv

LEMMA SameTrigger ==
  ASSUME UNCHANGED <<app, attrs>>
  PROVE  TriggerOf(attrs)' = TriggerOf(attrs) /\ SeedKeys' = SeedKeys
BY Zenon DEF TriggerOf, auctionTrigger, rideShareTrigger, formationTrigger, weeklyTrigger,
       votingTrigger, admissionTrigger, SeedKeys

\* Once the context is seeded, no step takes anything out of it.
LEMMA SeedKeeps ==
  ASSUME SeedInv, UNCHANGED <<app, attrs>>, Grows, BundleKept,
         pc[admin] \notin Before, pc'[admin] \notin Before
  PROVE  SeedInv'
<1>1. admin' = admin /\ SeedKeys' = SeedKeys
  BY SameTrigger, Zenon DEF admin
<1>2. SeedKeys \subseteq ctx'
  BY Zenon DEF SeedInv, Before, Grows
<1>3. "handle" \in ctx' => app' = "admission"
  BY Zenon DEF SeedInv, Grows
<1>4. "pk" \notin ctx' => bundle'.pk = NoKey
  BY Zenon DEF SeedInv, Grows, BundleKept
<1> QED BY <1>1, <1>2, <1>3, <1>4 DEF SeedInv, Before

LEMMA SeedStays ==
  ASSUME SeedInv, UNCHANGED <<app, attrs, bundle>>, Grows, pc'[admin] = pc[admin]
  PROVE  SeedInv'
<1>1. /\ admin' = admin /\ SeedKeys' = SeedKeys
      /\ TriggerOf(attrs)' = TriggerOf(attrs)
  BY SameTrigger, Zenon DEF admin
<1>2. "pk" \notin ctx' => bundle'.pk = NoKey
  BY Zenon DEF SeedInv, Grows
<1>3. /\ pc'[admin] = "seed" => ~TriggerOf(attrs)'.refuses
      /\ pc'[admin] \in {"idle", "refused", "seed"} => bundle' = [pk |-> NoKey, ek |-> NoKey]
  BY <1>1, Zenon DEF SeedInv
<1>4. /\ pc'[admin] \notin {"idle", "refused", "seed"} => SeedKeys' \subseteq ctx'
      /\ "handle" \in ctx' => app' = "admission" /\ pc'[admin] \notin Before
  BY <1>1, Zenon DEF SeedInv, Grows
<1> QED BY <1>1, <1>2, <1>3, <1>4, Zenon DEF SeedInv

LEMMA StoreStays ==
  ASSUME StoreInv, UNCHANGED <<app, bucket, value, withheld>>
  PROVE  StoreInv'
<1>1. People' = People
  BY DEF People, N
<1> QED BY <1>1 DEF StoreInv

\* OnMessage stores one payload, in one bucket.
LEMMA StoreTurn ==
  ASSUME StoreInv, UNCHANGED app, NEW p \in People, NEW b, NEW load \in Loads,
         bucket' = [bucket EXCEPT ![b][p] = load],
         value' \in [People -> Int], withheld \subseteq withheld',
         load = "short" => p \in withheld'
  PROVE  /\ StoreInv' /\ DOMAIN bucket' = DOMAIN bucket
         /\ \A c \in DOMAIN bucket : c # b => bucket'[c] = bucket[c]
<1>1. People' = People
  BY DEF People, N
<1>2. /\ DOMAIN bucket' = DOMAIN bucket
      /\ \A c \in DOMAIN bucket : c # b => bucket'[c] = bucket[c]
      /\ b \in DOMAIN bucket => bucket'[b] = [bucket[b] EXCEPT ![p] = load]
  OBVIOUS
<1>3. \A c \in DOMAIN bucket : bucket[c] \in [People -> Loads]
  BY DEF StoreInv
<1>4. b \in DOMAIN bucket => /\ bucket'[b] \in [People -> Loads] /\ bucket'[b][p] = load
                             /\ \A q \in People \ {p} : bucket'[b][q] = bucket[b][q]
  BY <1>2, <1>3, Zenon
<1>5. \A c \in DOMAIN bucket : bucket'[c] \in [People -> Loads]
  BY <1>2, <1>3, <1>4
<1>6. bucket' \in [DOMAIN bucket' -> [People -> Loads]]
  <2>1. bucket' = [c \in DOMAIN bucket |-> bucket'[c]]
    BY Zenon
  <2> QED BY <1>2, <1>5, <2>1, Zenon
<1>7. \A c \in DOMAIN bucket : \A q \in People : bucket'[c][q] = "short" => q \in withheld'
  <2> SUFFICES ASSUME NEW c \in DOMAIN bucket, NEW q \in People, bucket'[c][q] = "short"
               PROVE  q \in withheld'
    OBVIOUS
  <2>1. CASE c = b /\ q = p
    BY <1>4, <2>1, Zenon
  <2>2. CASE ~(c = b /\ q = p)
    <3>1. bucket'[c][q] = bucket[c][q]
      BY <1>2, <1>4, <2>2, Zenon
    <3> QED BY <3>1, Zenon DEF StoreInv
  <2> QED BY <2>1, <2>2
<1>8. \A k \in DOMAIN Pipelines[app] :
        Pipelines[app][k].bucket # None => Pipelines[app][k].bucket \in DOMAIN bucket'
  BY <1>2, Zenon DEF StoreInv
<1>9. StoreInv'
  BY <1>1, <1>2, <1>6, <1>7, <1>8, Zenon DEF StoreInv
<1> QED BY <1>2, <1>9

-----------------------------------------------------------------------------
(* Every step is one of those SessionStep names.                           *)

\* The phase a thread in the runner works on is one of the pipeline's.
LEMMA AtPhase ==
  ASSUME ThreadInv, current # NoPhase
  PROVE  \E k \in DOMAIN Pipelines[app] : current = Pipelines[app][k]
BY DEF ThreadInv, InPipeline

LEMMA RunnerStep ==
  ASSUME Base, NEW t \in Threads, Runner(t)
  PROVE  ExitsPhase(t) \/ EntersPhase(t) \/ Leave(t)
<1>0. ThreadInv /\ app \in AppNames
  BY DEF Base, ThreadInv
<1>1. CASE \/ ExitNothing(t) \/ ExitKeygen(t, "keygen") \/ ExitKeygen(t, "cohort_keygen")
           \/ ExitCollect(t) \/ ExitDecrypt(t) \/ ExitStubDecrypt(t) \/ ExitShuffle(t)
           \/ ExitDecoding(t, "verify", "slots") \/ ExitDecoding(t, "ballots", "inputs")
           \/ ExitAdmissionKeygen(t) \/ ExitBound(t)
  <2>1. Active
    BY <1>1, Zenon
       DEF ExitNothing, ExitKeygen, ExitCollect, ExitDecrypt, ExitStubDecrypt, ExitShuffle,
           ExitDecoding, ExitAdmissionKeygen, ExitBound, AtExit
  <2>2. PICK k \in DOMAIN Pipelines[app] : current = Pipelines[app][k]
    BY <1>0, <2>1, AtPhase, Zenon DEF Active
  <2>3. value \in [People -> Int] /\ ("pk" \notin ctx => bundle.pk = NoKey)
    BY DEF Base, StoreInv, SeedInv
  <2> QED BY <1>0, <1>1, <2>2, <2>3, ExitStep, Zenon
<1>2. CASE \/ EnterNothing(t) \/ EnterScore(t) \/ EnterLookup(t) \/ EnterTally(t)
           \/ EnterSettle(t) \/ EnterBound(t) \/ EnterBoundCommit(t)
  <2>1. pc[t] = "commitments" => current.enter = "bound"
    BY <1>0 DEF ThreadInv
  <2> QED BY <1>2, <2>1, EnterStep, ZenonT(60)
<1> QED BY <1>1, <1>2, ZenonT(60) DEF Runner

LEMMA MessageStep ==
  ASSUME NEW p \in People, NEW type, NEW load \in {"good", "bad", "short"},
         NEW v \in Values \cup {0}, HandleMessage(p, type, load, v),
         withheld \subseteq withheld', load = "short" => p \in withheld'
  PROVE  Dispatches(p)
<1>1. pc[p] = "idle" /\ Free /\ Active /\ UNCHANGED <<app, helper, attrs, session>>
  BY Zenon DEF HandleMessage
<1>2. CASE Accepts(type, load)
  <2>1. type \in current.takes
    BY <1>2 DEF Accepts
  <2>2. /\ bucket' = [bucket EXCEPT ![BucketOf(type)][p] = load]
        /\ value' = IF type = "input" THEN [value EXCEPT ![p] = v] ELSE value
    BY <1>2, Zenon DEF HandleMessage
  <2>3. Goto(p, After(p)) \/ ("participants" \in ctx /\ Goto(p, "exit"))
    BY <1>2, Zenon DEF HandleMessage, Goto
  <2> QED BY <1>1, <2>1, <2>2, <2>3, ZenonT(60) DEF Dispatches
<1>3. CASE ~Accepts(type, load)
  <2>1. Goto(p, After(p)) /\ UNCHANGED stored
    BY <1>3, Zenon DEF HandleMessage
  <2> QED BY <1>1, <2>1, Zenon DEF Dispatches
<1> QED BY <1>2, <1>3

LEMMA SendStep ==
  ASSUME NEW p \in People, SendDue(p) \/ SendStray(p)
  PROVE  Dispatches(p)
<1>1. CASE SendDue(p)
  <2>1. PICK v \in Norms(Due(p)) : HandleMessage(p, Due(p), "good", v)
    BY <1>1 DEF SendDue
  <2>2. v \in Values \cup {0}
    BY Zenon DEF Norms
  <2>3. withheld \subseteq withheld'
    BY <1>1 DEF SendDue
  <2> QED BY <2>1, <2>2, <2>3, MessageStep, Zenon
<1>2. CASE SendStray(p)
  <2>0. 0 \in Values \cup {0}
    OBVIOUS
  <2>1. CASE \E type \in Types : HandleMessage(p, type, "bad", 0) /\ UNCHANGED withheld
    <3>1. PICK type : HandleMessage(p, type, "bad", 0) /\ withheld' = withheld
      BY <2>1
    <3> QED BY <2>0, <3>1, MessageStep
  <2>2. CASE \E type \in Types : HandleMessage(p, type, "good", 0) /\ UNCHANGED withheld
    <3>1. PICK type : HandleMessage(p, type, "good", 0) /\ withheld' = withheld
      BY <2>2, Zenon
    <3> QED BY <2>0, <3>1, MessageStep
  <2>3. CASE HandleMessage(p, "bound.partial", "short", 0) /\ withheld' = withheld \cup {p}
    <3>1. withheld \subseteq withheld' /\ p \in withheld'
      BY <2>3
    <3> QED BY <2>0, <2>3, <3>1, MessageStep, Zenon
  <2> QED BY <1>2, <2>1, <2>2, <2>3, Zenon DEF SendStray
<1> QED BY <1>1, <1>2

LEMMA HookStep ==
  ASSUME NEW p \in People, Hook(p)
  PROVE  HookRuns(p)
<1>1. /\ pc[p] \in {"hook", "challenge", "bare_challenge"}
      /\ UNCHANGED <<app, helper, attrs, bucket, value, withheld, state, current, bundle,
                     results>>
  BY Zenon DEF Hook, peelRelayIfNeeded, challengeUnicastIfNeeded, SendChallenge, SetSentinel,
         session, stored, clients
<1>2. ctx' \in {ctx, ctx \cup {"challenges_sent"}}
  BY Zenon DEF Hook, peelRelayIfNeeded, challengeUnicastIfNeeded, SendChallenge, SetSentinel,
         session
<1>3. UNCHANGED pc \/ \E l \in {"idle", "challenge", "bare_challenge"} : Goto(p, l)
  BY Zenon DEF Hook, peelRelayIfNeeded, challengeUnicastIfNeeded, SendChallenge, SetSentinel,
         Goto
<1>4. Kept
  BY <1>1, Zenon DEF Kept
<1> QED BY <1>1, <1>2, <1>3, <1>4, Zenon DEF HookRuns

LEMMA StepShape ==
  ASSUME Base, [Next]_vars
  PROVE  SessionStep
<1>1. ASSUME NEW t \in Threads, Runner(t) PROVE SessionStep
  BY <1>1, RunnerStep, Zenon DEF SessionStep
<1>2. ASSUME NEW p \in People, Hook(p) \/ SendDue(p) \/ SendStray(p) PROVE SessionStep
  BY <1>2, HookStep, SendStep, Zenon DEF SessionStep
<1> QED BY <1>1, <1>2, Zenon DEF Next, SessionStep, Threads
=============================================================================
