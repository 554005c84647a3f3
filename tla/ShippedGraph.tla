----------------------------- MODULE ShippedGraph -----------------------------
(***************************************************************************)
(* The update graph that tools/generate-update-graph writes, which is the  *)
(* one the operator ships with.                                            *)
(*                                                                         *)
(* A channel is given by its releases, newest first, in groups of the same *)
(* migration and phase; by the releases that are deprecated; by the tags   *)
(* that are not the id; and by its limits.  The patterns of the source     *)
(* start at the next release that is not deprecated and differ in where    *)
(* they end: a limit <<from, to>> tells that from, and the releases before *)
(* it down to the next limit, update to no release newer than to.          *)
(***************************************************************************)
EXTENDS UpdateGraph
LOCAL INSTANCE SequencesExt

Group(migration, phase, ids) ==
    [i \in DOMAIN ids |-> [id |-> ids[i], tag |-> ids[i], migration |-> migration, phase |-> phase]]

(* Faulty: the limits are ignored.                                         *)
edgesFromPatterns_NoLimit(nodes, deprecated, limits) ==
    [id \in {nodes[i].id : i \in 2 .. Len(nodes)} |->
        LET from == CHOOSE i \in DOMAIN nodes : nodes[i].id = id
        IN  SelectSeq([i \in 1 .. from - 1 |-> nodes[from - i].id],
                      LAMBDA to : to \notin deprecated)]

(* Faulty: a release can also be rolled back to the one before.            *)
edgesFromPatterns_BothWays(nodes, deprecated, limits) ==
    [id \in {nodes[i].id : i \in 2 .. Len(nodes)} |->
        LET from == CHOOSE i \in DOMAIN nodes : nodes[i].id = id
        IN  If(from < Len(nodes), <<nodes[from + 1].id>>)
            \o SelectSeq([i \in 1 .. from - 1 |-> nodes[from - i].id],
                         LAMBDA to : to \notin deprecated)]

(* The releases that each one updates to, oldest first.                    *)
edgesFromPatterns(nodes, deprecated, limits) ==
    LET At(id)      == CHOOSE i \in DOMAIN nodes : nodes[i].id = id
        Newest(i)   == LET passed == {k \in DOMAIN limits : At(limits[k][1]) <= i}
                       IN  IF passed = {} THEN 1
                           ELSE At(limits[CHOOSE k \in passed : \A l \in passed : l <= k][2])
    IN  [id \in {nodes[i].id : i \in 2 .. Len(nodes)} |->
            SelectSeq([k \in 1 .. At(id) - Newest(At(id)) |-> nodes[At(id) - k].id],
                      LAMBDA to : to \notin deprecated)]

ShippedChannel(datastore, groups, deprecated, tags, limits) ==
    LET nodes == FlattenSeq(groups)
    IN  [name |-> "stable", datastore |-> datastore, default |-> TRUE,
         nodes |-> [i \in DOMAIN nodes |->
                       IF \E k \in DOMAIN tags : tags[k][1] = nodes[i].id
                       THEN [nodes[i] EXCEPT !.tag =
                                tags[CHOOSE k \in DOMAIN tags : tags[k][1] = nodes[i].id][2]]
                       ELSE nodes[i]],
         edges |-> edgesFromPatterns(nodes, deprecated, limits)]

postgresChannel ==
    ShippedChannel("postgres",
        <<Group("populate-schema-tables", "", <<"v1.56.2", "v1.54.0">>),
          Group("add-index-for-transaction-gc", "", <<"v1.52.0", "v1.51.1", "v1.49.2",
                  "v1.48.0", "v1.47.1", "v1.45.4", "v1.42.1", "v1.40.1">>),
          Group("add-watch-api-index-to-relation-tuple-table", "", <<"v1.39.1">>),
          Group("add-metadata-to-transaction-table", "", <<"v1.38.0">>),
          Group("create-relationships-counters-table", "", <<"v1.37.1", "v1.36.2", "v1.35.3",
                  "v1.34.0">>),
          Group("add-rel-by-alive-resource-relation-subject", "", <<"v1.33.1", "v1.32.0",
                  "v1.31.0", "v1.30.0", "v1.29.5", "v1.26.0">>),
          Group("add-gc-covering-index", "", <<"v1.25.0", "v1.24.0", "v1.23.1", "v1.22.2",
                  "v1.21.0", "v1.19.1">>),
          Group("drop-bigserial-ids", "", <<"v1.18.0", "v1.17.0", "v1.16.2", "v1.16.1",
                  "v1.16.0", "v1.15.0", "v1.14.1", "v1.14.0">>),
          Group("add-xid-constraints", "write-both-read-new", <<"v1.14.0-phase2">>),
          Group("add-xid-columns", "write-both-read-old", <<"v1.14.0-phase1">>),
          Group("add-ns-config-id", "", <<"v1.13.0", "v1.12.0", "v1.11.0", "v1.10.0">>),
          Group("add-unique-datastore-id", "", <<"v1.9.0", "v1.8.0", "v1.7.1", "v1.7.0",
                  "v1.6.0">>),
          Group("add-transaction-timestamp-index", "", <<"v1.5.0", "v1.4.0", "v1.3.0",
                  "v1.2.0">>)>>,
        {"v1.7.0", "v1.16.0", "v1.16.1", "v1.54.0"},
        <<<<"v1.14.0-phase2", "v1.14.0">>, <<"v1.14.0-phase1", "v1.14.0">>>>,
        <<<<"v1.36.2", "v1.38.0">>, <<"v1.35.3", "v1.36.2">>, <<"v1.14.0-phase2", "v1.14.0">>,
          <<"v1.14.0-phase1", "v1.14.0-phase2">>, <<"v1.13.0", "v1.14.0-phase1">>>>)

crdbChannel ==
    ShippedChannel("cockroachdb",
        <<Group("populate-schema-tables", "", <<"v1.56.2", "v1.54.0">>),
          Group("add-expiration-support", "", <<"v1.52.0", "v1.51.1", "v1.49.2", "v1.48.0",
                  "v1.47.1", "v1.45.4", "v1.42.1", "v1.40.1">>),
          Group("add-transaction-metadata-table", "", <<"v1.39.1", "v1.38.0">>),
          Group("add-integrity-relationtuple-table", "", <<"v1.37.1", "v1.36.2">>),
          Group("add-relationship-counters-table", "", <<"v1.35.3", "v1.34.0">>),
          Group("remove-stats-table", "", <<"v1.33.1", "v1.32.0", "v1.31.0", "v1.30.0">>),
          Group("add-caveats", "", <<"v1.30.0-phase1", "v1.29.5", "v1.26.0", "v1.25.0",
                  "v1.24.0", "v1.23.1", "v1.22.2", "v1.21.0", "v1.19.1", "v1.18.0", "v1.17.0",
                  "v1.16.2", "v1.16.1", "v1.16.0", "v1.15.0", "v1.14.1", "v1.14.0">>),
          Group("add-metadata-and-counters", "", <<"v1.13.0", "v1.12.0", "v1.11.0", "v1.10.0",
                  "v1.9.0", "v1.8.0", "v1.7.1", "v1.7.0", "v1.6.0">>),
          Group("add-transactions-table", "", <<"v1.5.0", "v1.4.0", "v1.3.0", "v1.2.0">>)>>,
        {"v1.7.0", "v1.14.0", "v1.16.0", "v1.16.1", "v1.54.0"},
        <<<<"v1.30.0-phase1", "v1.30.0">>>>,
        <<<<"v1.36.2", "v1.38.0">>, <<"v1.35.3", "v1.36.2">>, <<"v1.30.0-phase1", "v1.30.0">>,
          <<"v1.29.5", "v1.30.0-phase1">>>>)

mysqlChannel ==
    ShippedChannel("mysql",
        <<Group("identifiers_case_sensitive", "", <<"v1.56.2", "v1.54.0">>),
          Group("add_expiration_to_relation_tuple", "", <<"v1.52.0", "v1.51.1", "v1.49.2",
                  "v1.48.0", "v1.47.1", "v1.45.4", "v1.42.1", "v1.40.1">>),
          Group("add_metadata_to_transaction_table", "", <<"v1.39.1", "v1.38.0">>),
          Group("add_relationship_counters_table", "", <<"v1.37.1", "v1.36.2", "v1.35.3",
                  "v1.34.0">>),
          Group("watch_api_relation_tuple_index", "", <<"v1.33.1", "v1.32.0", "v1.31.0",
                  "v1.30.0", "v1.29.5">>),
          Group("longblob_definitions", "", <<"v1.26.0", "v1.25.0">>),
          Group("extend_object_id", "", <<"v1.24.0", "v1.23.1", "v1.22.2", "v1.21.0">>),
          Group("add_caveat", "", <<"v1.19.1", "v1.18.0", "v1.17.0", "v1.16.2", "v1.16.1",
                  "v1.16.0", "v1.15.0", "v1.14.1", "v1.14.0">>),
          Group("add_ns_config_id", "", <<"v1.13.0", "v1.12.0", "v1.11.0", "v1.10.0">>),
          Group("add_unique_datastore_id", "", <<"v1.9.0", "v1.8.0", "v1.7.1", "v1.7.0">>)>>,
        {"v1.7.0", "v1.14.0", "v1.16.0", "v1.16.1", "v1.54.0"},
        <<>>,
        <<<<"v1.36.2", "v1.38.0">>, <<"v1.35.3", "v1.36.2">>>>)

spannerChannel ==
    ShippedChannel("spanner",
        <<Group("populate-schema-tables", "", <<"v1.56.2", "v1.54.0">>),
          Group("add-expiration-support", "", <<"v1.51.1", "v1.49.2", "v1.48.0", "v1.47.1",
                  "v1.45.4", "v1.42.1", "v1.40.1">>),
          Group("add-transaction-metadata-table", "", <<"v1.39.1", "v1.38.0">>),
          Group("add-relationship-counter-table", "", <<"v1.37.1", "v1.36.2", "v1.35.3",
                  "v1.34.0">>),
          Group("delete-older-changestreams", "", <<"v1.33.1", "v1.32.0", "v1.31.0", "v1.30.0",
                  "v1.29.5">>),
          Group("register-combined-change-stream", "", <<"v1.29.5-phase1">>),
          Group("drop-changelog-table", "", <<"v1.26.0", "v1.25.0", "v1.24.0", "v1.23.1",
                  "v1.22.2">>),
          Group("register-tuple-change-stream", "write-changelog-read-stream", <<
                  "v1.22.2-phase2">>),
          Group("register-tuple-change-stream", "write-changelog-read-changelog", <<
                  "v1.22.2-phase1">>),
          Group("add-caveats", "", <<"v1.21.0", "v1.19.1", "v1.18.0", "v1.17.0", "v1.16.2",
                  "v1.16.1", "v1.16.0", "v1.15.0", "v1.14.1", "v1.14.0">>),
          Group("add-metadata-and-counters", "", <<"v1.13.0", "v1.12.0", "v1.11.0", "v1.10.0",
                  "v1.9.0", "v1.8.0">>)>>,
        {"v1.14.0", "v1.16.0", "v1.16.1", "v1.54.0"},
        <<<<"v1.51.1", "v1.52.0">>, <<"v1.49.2", "v1.51.1">>, <<"v1.29.5-phase1", "v1.29.5">>,
          <<"v1.22.2-phase2", "v1.22.2">>, <<"v1.22.2-phase1", "v1.22.2">>>>,
        <<<<"v1.36.2", "v1.38.0">>, <<"v1.35.3", "v1.36.2">>, <<"v1.29.5-phase1", "v1.29.5">>,
          <<"v1.26.0", "v1.29.5-phase1">>, <<"v1.22.2-phase2", "v1.22.2">>,
          <<"v1.22.2-phase1", "v1.22.2-phase2">>, <<"v1.21.0", "v1.22.2-phase1">>>>)

memoryChannel ==
    ShippedChannel("memory",
        <<Group("", "", <<"v1.56.2", "v1.54.0", "v1.52.0", "v1.51.1", "v1.49.2", "v1.48.0",
                  "v1.47.1", "v1.45.4", "v1.42.1", "v1.40.1", "v1.39.1", "v1.38.0", "v1.37.1",
                  "v1.36.2", "v1.35.3", "v1.34.0", "v1.33.1", "v1.32.0", "v1.31.0", "v1.30.0",
                  "v1.29.5", "v1.26.0", "v1.25.0", "v1.24.0", "v1.23.1", "v1.22.2", "v1.21.0",
                  "v1.19.1", "v1.18.0", "v1.17.0", "v1.16.2", "v1.16.1", "v1.16.0", "v1.15.0",
                  "v1.14.1", "v1.14.0", "v1.13.0", "v1.12.0", "v1.11.0", "v1.10.0", "v1.9.0",
                  "v1.8.0", "v1.7.1", "v1.7.0", "v1.6.0", "v1.5.0", "v1.4.0", "v1.3.0",
                  "v1.2.0">>)>>,
        {"v1.7.0", "v1.14.0", "v1.16.0", "v1.16.1"},
        <<>>,
        <<>>)

Shipped == <<postgresChannel, crdbChannel, mysqlChannel, spannerChannel, memoryChannel>>
=============================================================================
