-------------------------- MODULE MCSnapshotStore --------------------------
(* The TLC instance of SnapshotStore: two snapshots, one of them with a    *)
(* data byte above 127, two saves and two crashes.                         *)
EXTENDS SnapshotStore, TLC

MCSnapshots ==
    { [index |-> 1, term |-> 1, data |-> <<>>],
      [index |-> 2, term |-> 1, data |-> <<200, 3>>] }

=============================================================================
