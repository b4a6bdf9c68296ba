--------------------------- MODULE MCDomainKernel ----------------------------
(* DomainKernel with the symmetry of tokens, tenants and callers. *)
EXTENDS DomainKernel, TLC

KernelSymmetry == Permutations(Token) \cup Permutations(Tenant) \cup Permutations(Caller)
==============================================================================
