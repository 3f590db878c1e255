--------------------------- MODULE WeightedSampler ---------------------------
(***************************************************************************)
(* frontend/submap_collection/weighted_sampler_inl.h.  A sampler is its    *)
(* items and their cumulative weights; weights are natural numbers, and    *)
(* the product of the random number in [0, 1) with the total weight is one *)
(* of 0..total-1.                                                          *)
(***************************************************************************)
EXTENDS Naturals, Sequences, SequencesExt

EmptySampler == [items |-> <<>>, cumulative |-> <<>>]

TotalWeight(sampler) ==
  IF sampler.cumulative = <<>> THEN 0 ELSE Last(sampler.cumulative)

\* Mutant: each item is entered with its own weight.
AddItemAlone(sampler, item, weight) ==
  [items |-> Append(sampler.items, item),
   cumulative |-> Append(sampler.cumulative, weight)]

AddItem(sampler, item, weight) ==
  [items |-> Append(sampler.items, item),
   cumulative |->
     Append(sampler.cumulative, TotalWeight(sampler) + weight)]

\* std::upper_bound: the first item whose cumulative weight is larger.
RandomIndex(sampler, random) ==
  SelectInSeq(sampler.cumulative, LAMBDA cumulative : cumulative > random)

\* The indices getRandomItem can return.
RandomIndices(sampler) ==
  {RandomIndex(sampler, random) : random \in 0..(TotalWeight(sampler) - 1)}
===============================================================================
