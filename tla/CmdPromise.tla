----------------------------- MODULE CmdPromise -----------------------------
(***************************************************************************)
(* What send_cmd promises: an accepted command gets the next id; if it has *)
(* a callback it is reported with that id, once, and only after it was     *)
(* accepted; a command that was refused is never reported; no more than    *)
(* kCmdQueueSize commands wait for their report.                           *)
(***************************************************************************)
EXTENDS Integers, FiniteSets

CONSTANTS kCmdQueueSize, kIdModulus

VARIABLES
    awaited,     \* for every id, how many commands with it wait for a report
    next_id,     \* the id of the next command that is accepted
    reporting    \* <<id>> while the application is told about a command

CmdIds == 0 .. kIdModulus - 1

\* One element for every command that waits for its report.
Waiting == UNION {{id} \X (1 .. awaited[id]) : id \in CmdIds}

Init ==
    /\ awaited = [id \in CmdIds |-> 0]
    /\ next_id = 0
    /\ reporting = <<>>

Accept ==
    /\ next_id' = (next_id + 1) % kIdModulus
    /\ UNCHANGED reporting
    /\ \/ UNCHANGED awaited
       \/ /\ Cardinality(Waiting) < kCmdQueueSize
          /\ awaited' = [awaited EXCEPT ![next_id] = @ + 1]

Report(id) ==
    /\ reporting = <<>>
    /\ awaited[id] > 0
    /\ awaited' = [awaited EXCEPT ![id] = @ - 1]
    /\ reporting' = <<id>>
    /\ UNCHANGED next_id

Reported ==
    /\ reporting # <<>>
    /\ reporting' = <<>>
    /\ UNCHANGED <<awaited, next_id>>

Next == Accept \/ (\E id \in CmdIds : Report(id)) \/ Reported

Spec == Init /\ [][Next]_<<awaited, next_id, reporting>>

=============================================================================
