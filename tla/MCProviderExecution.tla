------------------------ MODULE MCProviderExecution ------------------------
(***************************************************************************)
(* Two callers, two keys and two requests of one project: enough for a     *)
(* retry under the same key, a second key for the same request, and a key  *)
(* used for two requests.  Either scope may get a ceiling of one call or   *)
(* of one unit at any time.                                                *)
(***************************************************************************)
EXTENDS ProviderExecution, TLC

CONSTANTS p, usd

MCProjectOf == [i \in Identities |-> p]
OneCall == [currency |-> usd, maxCalls |-> 1, maxAmount |-> None, allowUnknown |-> TRUE]
OneUnit == [currency |-> usd, maxCalls |-> None, maxAmount |-> 1, allowUnknown |-> TRUE]
MCPolicies == {OneCall, OneUnit}
MCDefault == [currency |-> usd, maxCalls |-> None, maxAmount |-> None, allowUnknown |-> FALSE]
MCSymmetry == Permutations(Keys) \cup Permutations(Callers)
              \cup Permutations(Identities) \cup Permutations(Payloads)
=============================================================================
