------------------------ MODULE MCBundlePublishing ------------------------
(* Instances of BundlePublishing for TLC: every identity is a model value, *)
(* and no definition tells two of a kind apart.                            *)
EXTENDS BundlePublishing, TLC

Symmetry ==
  Permutations(Bundle) \cup Permutations(Page) \cup Permutations(Web) \cup Permutations(Cron)
===========================================================================
