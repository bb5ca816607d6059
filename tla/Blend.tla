-------------------------------- MODULE Blend --------------------------------
(***************************************************************************)
(* The mixture of what several entries know of one position into a single  *)
(* ranking (core/backoff.py).                                              *)
(*                                                                         *)
(* A source holds the candidates a lookup found in one entry, the View of  *)
(* it, and the sums over them that the entry has cached.  Weights and      *)
(* probabilities are numbers of 1/One, rounded down.  Both parameters of   *)
(* the Beta prior are 1/2, so that terms with them appear doubled.         *)
(***************************************************************************)
EXTENDS LedgerTypes, FiniteSetsExt

CONSTANTS One,          \* the number 1
          OrderWeight,  \* order_decay^(MAX_ORDER - order), for every order
          ScopeWeight,  \* scope_decay^depth, for every depth
          CountPrior,   \* count_prior
          AnnoPrior,    \* anno_prior_w
          HiOrder,      \* p_hat_min_order: shorter contexts are aliased
          MaxCands,     \* max_cands
          Prob          \* q8_to_p: the probability of a log-probability

ASSUME BlendConstants ==
    /\ One \in Nat \ {0} /\ CountPrior \in Nat \ {0} /\ AnnoPrior \in Nat \ {0}
    /\ HiOrder \in Nat /\ MaxCands \in Nat
    /\ \A o \in DOMAIN OrderWeight : OrderWeight[o] \in 0..One
    /\ \A d \in DOMAIN ScopeWeight : ScopeWeight[d] \in 0..One
    /\ Prob \in [0..QMax -> 0..One]

NoPosterior == [cands |-> {}, weight |-> 0]

Ratio(a, b) == (a * One) \div b

-----------------------------------------------------------------------------
(* One source.                                                             *)

\* The interpolation weight: longer contexts, narrower scopes and more
\* observations count more.
Lambda(order, depth, count) ==
    (((OrderWeight[order] * ScopeWeight[depth]) \div One) * count)
        \div (count + CountPrior)

Source(order, depth, view) ==
    LET accs  == MapThenSumSet(LAMBDA t : view[t].acc, DOMAIN view)
        count == accs + MapThenSumSet(LAMBDA t : view[t].rej, DOMAIN view)
    IN  [order |-> order, depth |-> depth, cands |-> view, total_acc |-> accs,
         mass |-> MapThenSumSet(LAMBDA t : Prob[view[t].q], DOMAIN view),
         weight |-> Lambda(order, depth, count)]

\* Mutant: a token that was rejected counts as seen, too.
FreqOfProposed(s, t) == Ratio(2 * (s.cands[t].acc + s.cands[t].rej) + 1,
                              2 * s.total_acc + Greater(1, Cardinality(DOMAIN s.cands)))

\* How often a token was realized here, and how often when it was proposed.
FreqIn(s, t)    == Ratio(2 * s.cands[t].acc + 1,
                         2 * s.total_acc + Greater(1, Cardinality(DOMAIN s.cands)))
AccRateIn(s, t) == Ratio(2 * s.cands[t].acc + 1, 2 * (s.cands[t].acc + s.cands[t].rej) + 2)

\* Only the ratios within a source are trusted: its rows were cut short.
ProbIn(s, t) == Ratio(Prob[s.cands[t].q], IF s.mass = 0 THEN One ELSE s.mass)

-----------------------------------------------------------------------------
(* All sources.                                                            *)

Weight(S) == MapThenSumSet(LAMBDA s : s.weight, S)

\* The mean of the values val[s], weighted.
Mean(S, val) == MapThenSumSet(LAMBDA s : s.weight * val[s], S) \div Weight(S)

\* Mutant: contexts of every length are believed.
AnySources(S) == S

\* Rejections and probabilities are believed of unambiguous contexts only,
\* and the more of them there are the more.
HiSources(S) == {s \in S : s.order >= HiOrder}

Gate(S) ==
    LET w == Weight(HiSources(S))
    IN  Ratio(w, w + AnnoPrior)

Offered(S) == UNION {DOMAIN s.cands : s \in S}

Freq(S, t) == Mean(S, [s \in S |-> IF t \in DOMAIN s.cands THEN FreqIn(s, t) ELSE 0])

\* The probability that t is accepted when proposed; one half if unknown.
PAcc(S, t) ==
    LET known == {s \in HiSources(S) : t \in DOMAIN s.cands}
        half  == One \div 2
    IN  IF known = {} THEN half
        ELSE half + (Gate(S) * (Mean(known, [s \in known |-> AccRateIn(s, t)]) - half)) \div One

\* The probability the target gives t; uniform if unknown.
PHat(S, t) ==
    LET hi  == HiSources(S)
        uni == One \div Cardinality(Offered(S))
        mix == Mean(hi, [s \in hi |-> IF t \in DOMAIN s.cands THEN ProbIn(s, t) ELSE 0])
    IN  IF hi = {} THEN uni ELSE uni + (Gate(S) * (mix - uni)) \div One

\* The strongest single source: orders and scopes count the same observation
\* several times, so their sum is no evidence.
SupportOf(S, t) ==
    Max({s.cands[t].acc + s.cands[t].rej : s \in {r \in S : t \in DOMAIN r.cands}})

Candidate(S, t) ==
    LET hat == PHat(S, t)
    IN  [tok |-> t, acc |-> PAcc(S, t), hat |-> hat, sup |-> SupportOf(S, t),
         score |-> (Freq(S, t) * Cardinality(Offered(S)) * hat) \div One]

\* Scores are compared in tenths of the best one, then the support decides,
\* then the token.
Tenths(c, best) == (20 * c.score + best) \div (2 * best)

Precedes(c, d, best) ==
    \/ Tenths(c, best) > Tenths(d, best)
    \/ /\ Tenths(c, best) = Tenths(d, best)
       /\ \/ c.sup > d.sup
          \/ c.sup = d.sup /\ c.tok < d.tok

BestScore(cands) == Greater(1, Max({c.score : c \in cands}))

Behind(cands, c, best) == {d \in cands \ {c} : Precedes(c, d, best)}

\* blend(): the MaxCands first candidates.
Posterior(sources) ==
    LET S    == {s \in sources : s.weight > 0}
        all  == {Candidate(S, t) : t \in Offered(S)}
        best == BestScore(all)
        kept == {c \in all :
                   Cardinality(all) - Cardinality(Behind(all, c, best)) <= MaxCands}
        mass == Greater(One, MapThenSumSet(LAMBDA c : c.hat, kept))
    IN  IF S = {} THEN NoPosterior
        ELSE [cands  |-> {[c EXCEPT !.hat = Ratio(@, mass)] : c \in kept},
              weight |-> Weight(S)]

\* argmax(): the first candidate.
Top(post) ==
    LET best == BestScore(post.cands)
    IN  CHOOSE c \in post.cands : Behind(post.cands, c, best) = post.cands \ {c}
=============================================================================
