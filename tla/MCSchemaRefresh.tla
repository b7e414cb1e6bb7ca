---------------------------- MODULE MCSchemaRefresh ----------------------------
(* A history of two statements (or groups of them): the table of keyspace  *)
(* k is dropped and two types are created, one of which uses the other;    *)
(* then the table is created again with another key, with a view, and a    *)
(* second keyspace appears with a type and a table of its own.             *)
EXTENDS SchemaRefresh

UdtRow(name, refs) == [ks |-> "k", name |-> name, refs |-> refs]
Col(table, name, kind, pos, refs, page) ==
    [ks |-> "k", table |-> table, name |-> name, kind |-> kind, pos |-> pos,
     refs |-> refs, type |-> "some", page |-> page]
Named(name) == [ks |-> "k", name |-> name]

OldColumns == {Col("t", "p", "partition_key", 0, {}, 1),
               Col("t", "q", "partition_key", 1, {}, 2),
               Col("t", "v", "regular", 0, {"a"}, 2),
               [Col("t", "value", "regular", 0, {}, 2) EXCEPT !.type = "empty"]}
NewColumns == {Col("t", "q", "partition_key", 0, {}, 2),
               Col("t", "r", "clustering", 0, {}, 1),
               Col("m", "r", "partition_key", 0, {}, 2),
               Col("m", "q", "clustering", 0, {"b"}, 1)}

First == [keyspaces |-> {"k"}, types |-> {UdtRow("a", {})}, columns |-> OldColumns,
          cdc |-> {}, tables |-> {Named("t")}, views |-> {}]
Dropped == [First EXCEPT !.types = {UdtRow("a", {}), UdtRow("b", {"a"})},
                         !.columns = {}, !.tables = {}]
Recreated == [Dropped EXCEPT
    !.types = @ \cup {[UdtRow("c", {}) EXCEPT !.ks = "l"]},
    !.columns = NewColumns \cup {[Col("s", "p", "partition_key", 0, {"c"}, 2) EXCEPT !.ks = "l"]},
    !.tables = {Named("t"), [Named("s") EXCEPT !.ks = "l"]},
    !.views = {Named("m")}, !.cdc = {<<"k", "t">>}, !.keyspaces = {"k", "l"}]

Schemas == <<First, Dropped, Recreated>>
=============================================================================
