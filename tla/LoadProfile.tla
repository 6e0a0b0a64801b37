---------------------------- MODULE LoadProfile -----------------------------
(***************************************************************************)
(* The data of a load test (cmd/loadtest/main.go): seed creates listings   *)
(* and codes, and a profile says how many; a run spreads its orders over   *)
(* the listings the way seed spread the codes.  At its end the run states  *)
(* the 99th percentile of its own times, and one from the histogram of the *)
(* server.                                                                 *)
(***************************************************************************)
EXTENDS Integers, FiniteSets, Functions

CONSTANTS MaxListings, MaxCodes, Percents,  \* bounds of the profiles
          Durations, Tallies                \* and of the measured times

VARIABLES
  profile,      \* listings, hot, percent, codes
  phase,        \* "seed", "run", "end"
  index,        \* the next code of seed, or the next request of the run
  shelf,        \* codes left of each listing, -1 if the warm-up took more
  hits,         \* history: requests of each listing
  times         \* history: how many requests took each duration

vars == <<profile, phase, index, shelf, hits, times>>

(* Times are numbers of milliseconds.                                      *)
ProfileAssumption ==
  /\ MaxListings \in Nat /\ MaxCodes \in Nat /\ MaxListings <= MaxCodes
  /\ Percents \subseteq 0..99
  /\ IsFiniteSet(Durations) /\ Durations \subseteq Nat
  /\ 0 \in Tallies /\ Tallies \subseteq Nat

Hundred == 100
Listings == 0..profile.listings - 1
Hot == 0..profile.hot - 1

(* What seed and readProfile admit.                                        *)
Valid(p) ==
  /\ p.codes >= p.listings
  /\ (p.hot = 0) = (p.percent = 0)
  /\ p.hot < p.listings /\ p.percent < Hundred

Profiles ==
  {p \in [listings : 1..MaxListings, hot : 0..MaxListings, percent : Percents \union {0},
          codes : {MaxListings, MaxCodes}] : Valid(p)}

(* Fault: the codes of seed go round the listings.                         *)
RoundRobin(i) == i % profile.listings

(* listingIDForRequest: of every hundred requests, percent are hot.        *)
listingIDForRequest(i) ==
  LET at == i % Hundred
      before == (at * profile.percent) \div Hundred
      isHot == ((at + 1) * profile.percent) \div Hundred > before
      hundreds == i \div Hundred
  IN IF profile.hot = 0
     THEN i % profile.listings
     ELSE IF isHot
     THEN (hundreds * profile.percent + before) % profile.hot
     ELSE profile.hot + ((hundreds * (Hundred - profile.percent) + at - before)
                           % (profile.listings - profile.hot))

(* seed asks the same function for the listing of a code.                  *)
listingOfCode(i) == listingIDForRequest(i)

-----------------------------------------------------------------------------
Upto(v) == SumFunctionOnSet(times, {w \in Durations : w <= v})
Least(S) == CHOOSE v \in S : \A w \in S : v <= w
Total == SumFunctionOnSet(times, Durations)

(* percentileMillis: the time at position ceil(n * q), for q in percent.   *)
percentileMillis(q) ==
  Least({v \in Durations : Upto(v) >= (Total * q + 99) \div 100})

(* parseHistogramP99: the first bucket that holds 99% of what the finite   *)
(* buckets hold; 0 if they hold nothing.                                   *)
parseHistogramP99(buckets) ==
  LET last == CHOOSE b \in buckets : \A c \in buckets : c <= b
  IN IF Upto(last) = 0 THEN 0
     ELSE Least({b \in buckets : 100 * Upto(b) >= 99 * Upto(last)})

TypeOK ==
  /\ Valid(profile)
  /\ phase \in {"seed", "run", "end"}
  /\ index \in 0..MaxCodes
  /\ shelf \in [Listings -> -1..MaxCodes] /\ hits \in [Listings -> 0..MaxCodes]
  /\ times \in [Durations -> Tallies]

Init ==
  /\ profile \in Profiles
  /\ phase = "seed" /\ index = 0
  /\ shelf = [l \in Listings |-> 0] /\ hits = [l \in Listings |-> 0]
  /\ times = [d \in Durations |-> 0]

Seed ==
  /\ phase = "seed" /\ index < profile.codes
  /\ shelf' = [shelf EXCEPT ![listingOfCode(index)] = @ + 1]
  /\ index' = index + 1
  /\ UNCHANGED <<profile, phase, hits, times>>

(* The warm-up order takes a code of the first listing.                    *)
WarmUp ==
  /\ phase = "seed" /\ index = profile.codes
  /\ phase' = "run" /\ index' = 0
  /\ shelf' = [shelf EXCEPT ![0] = @ - 1]
  /\ UNCHANGED <<profile, hits, times>>

(* run refuses to ask for more orders than the profile has codes.          *)
Request ==
  /\ phase = "run" /\ index < profile.codes
  /\ LET l == listingIDForRequest(index)
     IN hits' = [hits EXCEPT ![l] = @ + 1] /\ shelf' = [shelf EXCEPT ![l] = @ - 1]
  /\ index' = index + 1
  /\ UNCHANGED <<profile, phase, times>>

Measure ==
  /\ phase = "run" /\ index = profile.codes
  /\ phase' = "end"
  /\ times' \in [Durations -> Tallies] /\ \E d \in Durations : times'[d] > 0
  /\ UNCHANGED <<profile, index, shelf, hits>>

Next == Seed \/ WarmUp \/ Request \/ Measure

-----------------------------------------------------------------------------
(* "An evenly spread weighted mix" (listingIDForRequest, 64-66): the hot   *)
(* listings have had their share of the requests so far, rounded down in   *)
(* each hundred, and listings of a kind differ by one request at most.     *)
TheMixIsEven ==
  LET share == (index \div Hundred) * profile.percent
                 + ((index % Hundred) * profile.percent) \div Hundred
      even(S) == \A l, k \in S : hits[l] <= hits[k] + 1
  IN phase = "run" =>
       /\ profile.hot > 0 => SumFunctionOnSet(hits, Hot) = share
       /\ even(Hot) /\ even(Listings \ Hot)

(* A run that asks for no more orders than there are codes misses one code *)
(* at most, the one the warm-up took (seed, run 332).                      *)
TheStockLasts == \A l \in Listings : shelf[l] >= (IF l = 0 /\ phase # "seed" THEN -1 ELSE 0)

(* The two percentiles agree: if no time is beyond the last bucket, the    *)
(* histogram gives the run's own percentile, rounded up to a bucket.       *)
PercentilesAgree ==
  phase = "end" =>
    \A buckets \in (SUBSET Durations) \ {{}} :
      Upto(CHOOSE b \in buckets : \A c \in buckets : c <= b) = Total =>
        parseHistogramP99(buckets) = Least({b \in buckets : b >= percentileMillis(99)})
=============================================================================
