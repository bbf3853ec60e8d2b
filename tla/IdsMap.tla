------------------------------- MODULE IdsMap -------------------------------
(***************************************************************************)
(* The growing table of src/wldbg-ids-map.c: an array indexed by id, with  *)
(* NULL where nothing was inserted.                                        *)
(***************************************************************************)
EXTENDS Naturals, Sequences

CONSTANT Null

EmptyMap == <<>>

\* wldbg_ids_map_insert: the array grows to hold id, new entries are zeroed.
Insert(map, id, data) ==
    LET count == IF id < Len(map) THEN Len(map) ELSE id + 1
    IN  [i \in 1 .. count |-> IF i = id + 1 THEN data
                              ELSE IF i <= Len(map) THEN map[i] ELSE Null]

\* wldbg_ids_map_get
Get(map, id) == IF id < Len(map) THEN map[id + 1] ELSE Null
=============================================================================
