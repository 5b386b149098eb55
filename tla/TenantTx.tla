------------------------------ MODULE TenantTx ------------------------------
(***************************************************************************)
(* What TenantDbService promises the repositories: the writes of a call     *)
(* reach the database all at once or not at all, and a call that returns    *)
(* has written.  The other modules rely on it when they make a repository   *)
(* call one action.                                                         *)
(*                                                                         *)
(* A call may also fail after its writes took effect: when the connection   *)
(* is lost before the answer to COMMIT arrives, the caller cannot tell.     *)
(***************************************************************************)
CONSTANTS
    Call,           \* the calls of runInTenantContext
    Row(_)          \* the rows a call may write

VARIABLES
    table,          \* committed rows
    wrote,          \* the rows that each call's statements wrote
    answer          \* what each call has returned

Init ==
    /\ table = {}
    /\ wrote = [c \in Call |-> {}]
    /\ answer = [c \in Call |-> "none"]

\* A statement of c: nobody else sees what it writes.
Write(c) ==
    /\ answer[c] = "none"
    /\ wrote[c] \cap table = {}
    /\ \E row \in Row(c) : wrote' = [wrote EXCEPT ![c] = @ \cup {row}]
    /\ UNCHANGED <<table, answer>>

\* All of c's writes take effect.
Apply(c) ==
    /\ answer[c] = "none"
    /\ wrote[c] \cap table = {}
    /\ table' = table \cup wrote[c]
    /\ UNCHANGED <<wrote, answer>>

Return(c) ==
    /\ answer[c] = "none"
    /\ wrote[c] \subseteq table
    /\ answer' = [answer EXCEPT ![c] = "done"]
    /\ UNCHANGED <<table, wrote>>

Throw(c) ==
    /\ answer[c] = "none"
    /\ answer' = [answer EXCEPT ![c] = "failed"]
    /\ UNCHANGED <<table, wrote>>

Next == \E c \in Call : Write(c) \/ Apply(c) \/ Return(c) \/ Throw(c)

Spec == Init /\ [][Next]_<<table, wrote, answer>>
=============================================================================
