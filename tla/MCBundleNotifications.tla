---------------------- MODULE MCBundleNotifications ----------------------
(* Instances of BundleNotifications for TLC.                               *)
EXTENDS BundleNotifications, TLC

Symmetry == Permutations(Bundle) \cup Permutations(Worker)
===========================================================================
