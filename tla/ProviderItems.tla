----------------------------- MODULE ProviderItems -----------------------------
(* One provider: its items, the rows that mirror them and the pages in which   *)
(* routes/integrations.ts goes through either by id; its state, and what a     *)
(* disconnect promises of the mirror, whatever connects, syncs and disconnects *)
(* do with them.                                                               *)
EXTENDS Naturals, FiniteSets

CONSTANTS Keys,        \* items of the provider, 1..n
          Rows,        \* ids of mirror rows
          Generations, \* 0..n, as many disconnects
          PageSize     \* INTEGRATION_PURGE_PAGE_SIZE

ASSUME ProviderAssumption ==
    /\ Keys \subseteq Nat \ {0} /\ \E top \in Keys : \A k \in Keys : k <= top
    /\ Rows \subseteq Nat \ {0}
    /\ Generations \subseteq Nat /\ 0 \in Generations

VARIABLES provider,   \* integration_provider_generation: generation, lease, draining
          record,     \* KV: the value of each generation's key
          live,       \* mirror rows in entries
          op, client, \* the invocations, and the cursor the client sends next
          born, purged \* history: generation of each row, and the generations purged

providerVars == <<provider, record, live, op, client, born, purged>>

LowestOf(S) == CHOOSE e \in S : \A f \in S : e <= f
HighestOf(S) == CHOOSE e \in S : \A f \in S : f <= e
FirstOf(S) == {e \in S : Cardinality({f \in S : f <= e}) <= PageSize}

--------------------------------------------------------------------------------
(* A purge that was reported done left nothing, and nothing of the connection  *)
(* appears behind it: no sync that had outlived its lease, or died between its *)
(* row and its record, leaves a mirror that was created under a purged         *)
(* generation (line 169; mirror.ts:75).                                        *)
NothingBehindPurge == \A e \in live : born[e] \notin purged

(* Between the first page of a purge and its end no row of the provider        *)
(* appears, though the lease is free between the pages, ends under an          *)
(* operation, and a sync may have begun before: the sweep that found nothing   *)
(* is still right when the generation rotates.                                 *)
NoRowWhileDraining ==
    [][provider.draining /\ provider'.gen = provider.gen => live' \subseteq live]_providerVars
================================================================================
