---------------------------- MODULE UsageAnswers ----------------------------
(* What a team is told of its usage, from two tracks: what its pods were     *)
(* allocated (UsageQuery) and what they were observed to consume             *)
(* (UsageSamples).  Each is modelled on tables of its own, so each moves     *)
(* without the other and their steps interleave.                             *)
EXTENDS Integers, FiniteSets

CONSTANTS
    Apps, Pods, AppOf, DayLen, Horizon, Retention, DetailDays, MaxLife,
    Backlog, MaxRows,                                        \* of UsageQuery
    Sampled, SampledPods, SampledAppOf, Samplers, Loads, SampleDay,
    SampleHorizon, SampleRetention, MaxSamples               \* of UsageSamples

\* An interval is kept for longer than a life and a day, and than a closed day
\* may wait for its total.  A pod that outlives the retention makes its first
\* days wait again when it ends, and their new totals lack what was deleted.
ASSUME QueryAssumption ==
    /\ IsFiniteSet(Pods) /\ AppOf \in [Pods -> Apps]
    /\ DayLen \in Nat \ {0} /\ Horizon \in Nat /\ MaxLife \in Nat \ {0}
    /\ Backlog \in Nat /\ Retention \in Nat /\ DetailDays \in Nat /\ MaxRows \in Nat
    /\ Retention >= MaxLife + DayLen
    /\ Retention >= (Backlog + 1) * DayLen

ASSUME SamplesAssumption ==
    /\ IsFiniteSet(SampledPods) /\ IsFiniteSet(Sampled)
    /\ SampledAppOf \in [SampledPods -> Sampled]
    /\ Loads \subseteq Nat /\ SampleDay \in Nat \ {0} /\ SampleHorizon \in Nat
    /\ SampleRetention \in Nat /\ MaxSamples \in Nat

VARIABLES
    uNow, uRow, uRollup, uAsk,
    oNow, oApps, oPod, oSampler, oSamples

uVars == <<uNow, uRow, uRollup, uAsk>>
oVars == <<oNow, oApps, oPod, oSampler, oSamples>>

Usage == INSTANCE UsageQuery WITH
    now <- uNow, row <- uRow, rollup <- uRollup, ask <- uAsk

Observed == INSTANCE UsageSamples WITH
    Apps <- Sampled, Pods <- SampledPods, AppOf <- SampledAppOf, DayLen <- SampleDay,
    Horizon <- SampleHorizon, Retention <- SampleRetention,
    now <- oNow, apps <- oApps, pod <- oPod, sampler <- oSampler, samples <- oSamples

QueryMoves  == Usage!Next /\ UNCHANGED oVars
SampleMoves == Observed!Next /\ UNCHANGED uVars

AnswersVars == <<uVars, oVars>>
AnswersInit == Usage!Init /\ Observed!Init
AnswersNext == QueryMoves \/ SampleMoves
AnswersSpec == AnswersInit /\ [][AnswersNext]_AnswersVars

-----------------------------------------------------------------------------
\* The usage a query tells of a day is what the pods had of that day, and what
\* it tells of their consumption is the mean and the peak of the samples.
AnswersAreExact == Usage!AnswersAreExact /\ Observed!ObservedIsMeasured

\* The detail a query lists lacks no interval of its window.
DetailIsWhole == Usage!DetailIsWhole
=============================================================================
