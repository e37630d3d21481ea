----------------------------- MODULE MCSampler -----------------------------
(* Small instances of Sampler; the configurations give the constants.      *)
EXTENDS Sampler

=============================================================================
