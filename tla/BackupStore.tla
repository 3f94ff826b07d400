---------------------------- MODULE BackupStore ----------------------------
(***************************************************************************)
(* What the backups promise, without streams, batons, lost answers and     *)
(* chunks fetched one by one: a backup appears whole or not at all, only a *)
(* prune removes any and it spares the newest Keep, and a file a restore   *)
(* writes is a stored backup's, put where no file was.                     *)
(***************************************************************************)
EXTENDS Integers, FiniteSets

CONSTANTS
    Backups,  \* the backups, in the order of their time stamps
    Chunks,   \* the pieces one is stored in
    Keep      \* how many a prune spares

VARIABLES
    rows,     \* what is stored: <<backup, chunk>>
    ever,     \* history: every backup that was stored
    out       \* the restore's output file: 0 if none, -1 if not a restore's

vars == <<rows, ever, out>>

Stored(rs) == {row[1] : row \in rs}

Spared(rs) ==
    {row \in rs : Cardinality({b \in Stored(rs) : b > row[1]}) < Keep}

Init == rows = {} /\ ever = {} /\ out = 0

Store(b) ==
    /\ b \notin ever
    /\ rows' = rows \cup ({b} \X Chunks)
    /\ ever' = ever \cup {b}
    /\ out' = out

Prune == rows' = Spared(rows) /\ UNCHANGED <<ever, out>>

(* A restore may end after a prune removed what it read.                   *)
Write == out = 0 /\ out' \in ever \cup {-1} /\ UNCHANGED <<rows, ever>>

Remove == out' = 0 /\ UNCHANGED <<rows, ever>>

Next == (\E b \in Backups : Store(b)) \/ Prune \/ Write \/ Remove

Spec == Init /\ [][Next]_vars
=============================================================================
