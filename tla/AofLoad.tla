------------------------------ MODULE AofLoad ------------------------------
(***************************************************************************)
(* What a restart makes of an append only file that a power loss has cut:  *)
(* loadAppendOnlyFile with aof-load-truncated, and redis-check-aof --fix.  *)
(* The server appends single commands, and transactions as a block         *)
(* MULTI ... EXEC; a command is the number of its execution.  A record     *)
(* that is cut anywhere reads as "torn": every cut ends in a short read.   *)
(***************************************************************************)
EXTENDS Integers, Sequences, FiniteSets, SequencesExt

CONSTANTS
  MaxCmds,      \* bound on the commands executed
  MaxLosses,    \* bound on the power losses
  LoadTruncated \* the values aof-load-truncated is given

ASSUME BoundsAssumption == MaxCmds \in Nat /\ MaxLosses \in Nat
ASSUME OptionAssumption == LoadTruncated # {} /\ LoadTruncated \subseteq BOOLEAN

VARIABLES
  phase,         \* "up", "down" or "refused": the server did not start
  file, synced,  \* the records of the file, how many survive a power loss
  data,          \* the commands the dataset consists of, in order
  aof_load_truncated,
  executed, losses,
  durable,       \* history: commands that were synced while the server was up,
                 \* alone or with the whole of their transaction
  blocks,        \* history: the sets of commands executed as transactions
  harm           \* history: "half" once a file was loaded inside a transaction,
                 \* "fixed" once redis-check-aof has then cut the file

history == <<durable, blocks, harm>>
vars    == <<phase, file, synced, data, aof_load_truncated, executed, losses, history>>

Multi  == [type |-> "multi"]
Exec   == [type |-> "exec"]
Torn   == [type |-> "torn"]
Cmd(c) == [type |-> "cmd", cmd |-> c]

Smaller(i, j) == IF i < j THEN i ELSE j

\* The commands that are run when the records are read one after the other.
CmdsOf(records) ==
  LET run[n \in 0 .. Len(records)] ==
        IF n = 0 THEN <<>>
        ELSE IF records[n].type = "cmd" THEN Append(run[n - 1], records[n].cmd) ELSE run[n - 1]
  IN run[Len(records)]

Init ==
  /\ phase = "up"
  /\ file = <<>> /\ synced = 0 /\ data = <<>>
  /\ aof_load_truncated \in LoadTruncated
  /\ executed = 0 /\ losses = 0
  /\ durable = {} /\ blocks = {} /\ harm = "none"

-----------------------------------------------------------------------------
(* The server runs. *)
Command ==
  /\ phase = "up" /\ executed < MaxCmds
  /\ executed' = executed + 1
  /\ data' = Append(data, executed + 1)
  /\ file' = Append(file, Cmd(executed + 1))
  /\ UNCHANGED <<phase, synced, aof_load_truncated, losses, history>>

\* execCommand with n queued writes: MULTI is propagated before the first.
Transaction(n) ==
  LET cmds == [i \in 1 .. n |-> executed + i]
  IN /\ phase = "up" /\ executed + n <= MaxCmds
     /\ executed' = executed + n
     /\ data' = data \o cmds
     /\ file' = file \o <<Multi>> \o [i \in 1 .. n |-> Cmd(cmds[i])] \o <<Exec>>
     /\ blocks' = blocks \cup {executed + 1 .. executed + n}
     /\ UNCHANGED <<phase, synced, aof_load_truncated, losses, durable, harm>>

Sync ==
  /\ phase = "up"
  /\ synced' = Len(file)
  /\ durable' = {c \in Range(data) : \A b \in blocks : c \in b => b \subseteq Range(data)}
  /\ UNCHANGED <<phase, file, data, aof_load_truncated, executed, losses, blocks, harm>>

\* The process is killed; with a power loss the file may also be cut.
Stop ==
  /\ phase = "up"
  /\ phase' = "down"
  /\ data' = <<>>
  /\ UNCHANGED <<file, synced, aof_load_truncated, executed, losses, history>>

PowerLoss ==
  /\ phase = "up" /\ losses < MaxLosses
  /\ losses' = losses + 1
  /\ phase' = "down"
  /\ data' = <<>>
  /\ \E n \in synced .. Len(file) - 1, torn \in BOOLEAN :
       file' = SubSeq(file, 1, n) \o (IF torn THEN <<Torn>> ELSE <<>>)
  /\ UNCHANGED <<synced, aof_load_truncated, executed, history>>

-----------------------------------------------------------------------------
(***************************************************************************)
(* loadAppendOnlyFile.  Commands between MULTI and EXEC run as they are    *)
(* read: the fake client calls cmd->proc directly and nothing is queued.   *)
(* A nested MULTI is an error reply to nobody.                             *)
(***************************************************************************)
\* A transaction is open after the first n records: no EXEC follows the last
\* MULTI, and a nested one changes nothing.
OpenAfter(records, n) ==
  \E i \in 1 .. n : records[i].type = "multi" /\ \A j \in i + 1 .. n : records[j].type # "exec"

InMulti(records) == OpenAfter(records, Len(records))

IsTorn(records)  == records # <<>> /\ Last(records) = Torn
Complete(records) == IF IsTorn(records) THEN Front(records) ELSE records

\* Fault: the offset is that of the last command's beginning.
ValidUpTo_Late == Front(Complete(file))

\* What is left of the file when it is truncated at valid_up_to.
ValidUpTo == Complete(file)

Short == IsTorn(file) \/ InMulti(file)

Loaded(records) ==
  /\ phase' = "up"
  /\ file' = records
  /\ synced' = Smaller(synced, Len(records))
  /\ data' = CmdsOf(file)

Load ==
  /\ phase = "down"
  /\ ~Short
  /\ Loaded(file)
  /\ UNCHANGED <<aof_load_truncated, executed, losses, history>>

LoadShort ==
  /\ phase = "down"
  /\ Short /\ aof_load_truncated
  /\ Loaded(ValidUpTo)
  /\ harm' = IF harm = "none" /\ InMulti(ValidUpTo) THEN "half" ELSE harm
  /\ UNCHANGED <<aof_load_truncated, executed, losses, durable, blocks>>

RefuseShort ==
  /\ phase = "down"
  /\ Short /\ ~aof_load_truncated
  /\ phase' = "refused"
  /\ UNCHANGED <<file, synced, data, aof_load_truncated, executed, losses, history>>

\* CONFIG SET and CONFIG REWRITE, or an edited file when the server refuses.
SetLoadTruncated(yes) ==
  /\ phase = "up" \/ (phase = "refused" /\ yes)
  /\ yes # aof_load_truncated
  /\ aof_load_truncated' = yes
  /\ phase' = IF phase = "up" THEN "up" ELSE "down"
  /\ UNCHANGED <<file, synced, data, executed, losses, history>>

-----------------------------------------------------------------------------
(***************************************************************************)
(* redis-check-aof: "process" counts MULTI and EXEC, stops at the first    *)
(* that is not expected, and gives the last offset outside of a            *)
(* transaction, where --fix cuts the file.                                 *)
(***************************************************************************)
Expected(records, i) ==
  CASE records[i].type = "multi" -> ~OpenAfter(records, i - 1)
    [] records[i].type = "exec"  -> OpenAfter(records, i - 1)
    [] records[i].type = "torn"  -> FALSE
    [] OTHER                     -> TRUE

Closed(records, n) == (\A i \in 1 .. n : Expected(records, i)) /\ ~OpenAfter(records, n)

LastClosed == CHOOSE n \in 0 .. Len(file) :
                /\ Closed(file, n)
                /\ \A m \in n + 1 .. Len(file) : ~Closed(file, m)

\* Faults: transactions are not looked at; the offset is that of the beginning
\* of the last command.
OkUpTo_IgnoresMulti == Len(Complete(file))
OkUpTo_Early        == IF LastClosed = 0 THEN 0 ELSE LastClosed - 1

OkUpTo == LastClosed

CheckAofFix ==
  /\ phase = "refused"
  /\ file' = SubSeq(file, 1, OkUpTo)
  /\ synced' = Smaller(synced, OkUpTo)
  /\ phase' = "down"
  /\ harm' = IF harm = "half" THEN "fixed" ELSE harm
  /\ UNCHANGED <<data, aof_load_truncated, executed, losses, durable, blocks>>

Next ==
  \/ Command \/ (\E n \in 1 .. MaxCmds : Transaction(n)) \/ Sync
  \/ Stop \/ PowerLoss
  \/ Load \/ LoadShort \/ RefuseShort
  \/ \E yes \in LoadTruncated : SetLoadTruncated(yes)
  \/ CheckAofFix

\* The operator restarts the server, and fixes a file that is refused.
Fairness ==
  /\ WF_vars(Load) /\ WF_vars(LoadShort) /\ WF_vars(RefuseShort)
  /\ WF_vars(CheckAofFix)

Safe == Init /\ [][Next]_vars
Spec == Safe /\ Fairness
-----------------------------------------------------------------------------
Records == {Multi, Exec, Torn} \cup {Cmd(c) : c \in 1 .. MaxCmds}

\* Types; an incomplete command at the end of the file never survives a start
\* (loadAppendOnlyFile truncates it or exits, aof.c:716-738).
TypeOK ==
  /\ phase \in {"up", "down", "refused"}
  /\ file \in Seq(Records) /\ (phase = "up" => Torn \notin Range(file))
  /\ synced \in 0 .. Len(file)
  /\ data \in Seq(1 .. MaxCmds)
  /\ aof_load_truncated \in LoadTruncated
  /\ executed \in 0 .. MaxCmds /\ losses \in 0 .. MaxLosses
  /\ durable \subseteq 1 .. executed /\ blocks \subseteq SUBSET (1 .. executed)
  /\ harm \in {"none", "half", "fixed"}

(***************************************************************************)
(* Truncating and appending again never puts the file and the dataset out  *)
(* of step: while the server is up the next restart, with any option,      *)
(* would find in the file exactly the commands it has.                     *)
(***************************************************************************)
FileIsData == phase = "up" => CmdsOf(file) = data

(***************************************************************************)
(* "Redis can lose just one second of writes in a dramatic event like a    *)
(* server power outage" (redis.conf:498): a restart keeps every command    *)
(* that was synced, after any number of power losses, restarts and         *)
(* repairs, unless redis-check-aof cuts a file that was in use with an     *)
(* open transaction in it.                                                 *)
(***************************************************************************)
DurableKept == phase = "up" /\ harm # "fixed" => durable \subseteq Range(data)

(***************************************************************************)
(* What makes DurableKept inductive: what was synced is among the records  *)
(* no power loss reaches, in transactions that are closed there; only the  *)
(* last record may be torn, and it never is one of those.                  *)
(***************************************************************************)
CmdsIn(records, n) == {records[i].cmd : i \in {j \in 1 .. n : records[j].type = "cmd"}}

TornInv == \A i \in 1 .. Len(file) : file[i] = Torn => i = Len(file) /\ synced < i /\ phase # "up"

SyncedInv ==
  /\ harm # "fixed" => durable \subseteq CmdsIn(file, synced)
  /\ harm = "none" =>
       /\ Closed(file, synced)
       /\ \A i \in 1 .. Len(Complete(file)) : Expected(file, i)
       /\ phase = "up" => Closed(file, Len(file))

LoadInv ==
  TypeOK /\ FileIsData /\ CmdsIn(file, Len(file)) \subseteq 1 .. executed /\ TornInv /\ SyncedInv

Whole(b) == b \subseteq Range(data) \/ b \cap Range(data) = {}

(***************************************************************************)
(* "The user requires to fix the AOF file using the redis-check-aof        *)
(* utility before to restart the server" (redis.conf:597): once fixed, a   *)
(* file is loaded.                                                         *)
(***************************************************************************)
FixedFileLoads == phase = "refused" ~> phase = "up"

-----------------------------------------------------------------------------
(* What a comment says, and the code does not do. *)

(***************************************************************************)
(* "We'll deliver the MULTI/..../EXEC block as a whole and both the AOF    *)
(* and the replication link will have the same consistency and atomicity   *)
(* guarantees" (multi.c:151): a restart never leaves a part of a           *)
(* transaction in the dataset.                                             *)
(***************************************************************************)
TransactionsWhole == phase = "up" => \A b \in blocks : Whole(b)
=============================================================================
