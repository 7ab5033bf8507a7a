---------------------------- MODULE MCConnection ----------------------------
(* Values of the constants of Connection for TLC.  A byte has eleven        *)
(* values: the nine operation codes, a letter (9) and a byte that is        *)
(* neither a code nor a letter (10).                                        *)
EXTENDS Connection

Word(n) == [i \in 1 .. n |-> 9]
MCNames == {Word(0), Word(MaxDbNameLen), Word(MaxDbNameLen + 1), Word(Base - 1), <<10>>}
MCKeys == {Word(0), Word(1), Word(MaxKeySize + 1)}
MCValues == {Word(0), Word(1), Word(MaxValueSize + 1)}

\* No two words are the same, so that no two fields can be mistaken.
MCStats == [uptime_hrs |-> <<Base, 1>>, total_dbs |-> 2,
            total_active_connections |-> 3]
MCInfo == [size_on_disk |-> 8 * Base, size_in_memory |-> Base + 2,
           min_key_size |-> 1, mean_key_size |-> 2, max_key_size |-> 3,
           key_count |-> 4]

\* For the runs of long names: one that wraps to a valid length.
MCDefault == {Word(1)}
MCLongNames == {Word(1), Word(Base + 1)}
=============================================================================
