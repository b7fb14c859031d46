----------------------------- MODULE MCL1Clients -----------------------------
(* Two writers and two readers on one or two keys.                          *)
EXTENDS L1Clients

\* One tag per writer, as the prefetch requests have (prefetch:<request_id>).
TagPerWriter == CHOOSE f \in [Writers -> Tags] : \A w, x \in Writers : w # x => f[w] # f[x]

\* One tag for every writer, as the engine stores have (storage_manager).
SharedTag == [w \in Writers |-> CHOOSE t \in Tags : TRUE]
=============================================================================
