-------------------------- MODULE MCStageStatistics --------------------------
(***************************************************************************)
(* Three channels, one of each kind that aggregate_kvs_statistics tells    *)
(* apart (foreground, flush, compaction), and requests whose entries the   *)
(* aggregates treat differently, of a size and without one.                *)
(***************************************************************************)
EXTENDS StageStatistics

MCChannelIds == <<2001, 7, 2000>>

MCLoads == [throughput |-> {<<1, 1>>}, counter |-> {<<2, 0>>}]

MCContexts ==
  [LSM_KVS_DETAILED |-> {<<1, 4>>, <<1, 1>>, <<1, 8>>},
   POSIX_META       |-> {<<1, 7>>, <<2, 17>>},
   POSIX            |-> {<<1, 1>>, <<2, 6>>}]

=============================================================================
